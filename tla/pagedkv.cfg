CONSTANTS
  Block = {b1, b2, b3}
  Slot = {s1, s2}
  Token = {t1, t2}
  BlockSize = 2
  MaxSeq = 5
  FirstFit = FALSE
SPECIFICATION KVSpec
SYMMETRY Symmetry
INVARIANTS
  RefcountExact
  FreeExact
  NextWriteExclusive
  AttendsOwnTokens
  CacheHoldsItsPrefix
PROPERTIES
  CachedKVImmutable
  ImplementsSlotCache
