CONSTANTS
  r1 = r1
  r2 = r2
  r3 = r3
  a = a
  eos = eos
  End = End
  Swap = Swap
  MaxSwaps = 1
  Block = {b1, b2}
  Slot = {s1}
  Token = {a, eos}
  BlockSize = 2
  MaxSeq = 4
  FirstFit = FALSE
  Req = {r1, r2, r3}
  Prompt <- PromptsOneTooLong
  MaxTokens <- OneOverruns
  Kind <- NoneSampled
  Eos = eos
  Chunk = 1
  SwapModes = {FALSE}
  Pld = FALSE
  LookupLen = 2
  DraftK = 0
  Outputs <- Only
SPECIFICATION LiveSpec
PROPERTIES
  EveryStreamEnds
  SwapAnswered
  ClosedReclaimed
  EveryRequestEnds
CHECK_DEADLOCK FALSE
