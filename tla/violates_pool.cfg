CONSTANTS
  r1 = r1
  r2 = r2
  r3 = r3
  a = a
  b = b
  eos = eos
  Block = {b1, b2, b3, b4}
  Slot = {s1, s2}
  Token = {a, b, eos}
  BlockSize = 2
  MaxSeq = 8
  FirstFit = FALSE
  Req = {r1, r2}
  Prompt <- PromptsLong
  MaxTokens <- Four
  Kind <- NoneSampled
  Eos = eos
  Chunk = 2
  SwapModes = {FALSE}
  Pld = FALSE
  LookupLen = 2
  DraftK = 0
  Outputs <- Fixed
SPECIFICATION BatcherSpec
SYMMETRY Symmetry
INVARIANTS
  PoolSuffices
CHECK_DEADLOCK FALSE
