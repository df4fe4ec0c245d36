CONSTANTS
  Handler = {h1}
  PoolSize = 2
  MaxConcurrent = 1
  Model = {m1, m2}
  NoModel = NoModel
  Nobody = Nobody
  Kinds = {"chat", "stream", "embed", "goal", "select", "text", "batched"}
  HasEngine = TRUE
  HasBatch = TRUE
  MaxArrivals = 0
  Content = {"s", "k"}
  Whole = {"1"}
  Fraction = {"1.5"}
  Ascending <- InOrder
  MaxRepeat = 1
  MaxDepth = 3
  AnyDepth = 1
  Requests <- RangedRequests
  Vocabs <- TwoVocabs
  MaxReply = 30
SPECIFICATION ServicesSpec
INVARIANTS
  NeverLaxer
CHECK_DEADLOCK FALSE
