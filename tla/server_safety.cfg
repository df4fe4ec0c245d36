CONSTANTS
  r1 = r1
  r2 = r2
  r3 = r3
  a = a
  eos = eos
  End = End
  Swap = Swap
  MaxSwaps = 1
  Block = {b1, b2, b3, b4}
  Slot = {s1, s2}
  Token = {a, eos}
  BlockSize = 2
  MaxSeq = 4
  FirstFit = FALSE
  Req = {r1, r2, r3}
  Prompt <- PromptsShared
  MaxTokens <- Two
  Kind <- NoneSampled
  Eos = eos
  Chunk = 2
  SwapModes = {FALSE}
  Pld = FALSE
  LookupLen = 2
  DraftK = 0
  Outputs <- Only
SPECIFICATION ServerSpec
SYMMETRY Symmetry
INVARIANTS
  SlotsAccounted
  NoAssertionFails
  FullPoolNeverStarves
  ChannelsMatchBatch
  StreamFaithful
  NobodyForgotten
CHECK_DEADLOCK FALSE
