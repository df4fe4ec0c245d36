CONSTANTS
  r1 = r1
  r2 = r2
  r3 = r3
  a = a
  b = b
  eos = eos
  Block = {b1, b2, b3, b4}
  Slot = {s1, s2}
  Token = {a, b, eos}
  BlockSize = 4
  MaxSeq = 8
  FirstFit = FALSE
  Req = {r1, r2}
  Prompt <- PromptsEcho
  MaxTokens <- Three
  Kind <- NoneSampled
  Eos = eos
  Chunk = 4
  SwapModes = {FALSE}
  Pld = TRUE
  LookupLen = 2
  DraftK = 2
  Outputs <- Fixed
SPECIFICATION BatcherSpec
SYMMETRY Symmetry
INVARIANTS
  RowsFitBatch
CHECK_DEADLOCK FALSE
