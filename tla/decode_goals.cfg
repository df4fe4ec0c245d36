CONSTANTS
  a = a
  b = b
  eos = eos
  Junk = Junk
  Token = {a, b, eos}
  Layers = 2
  MaxSeq = 9
  PrefillChunk = 3
  LaneSeq = 8
  Tile = 2
  Eos = eos
  Prompts <- Openings
  FollowUps <- Turns
  MaxTokenChoices = {0, 3}
  StopStrings <- Stops
  LookupLen = 2
  DraftK = 2
  SpecK = 2
  LanePrefill = 5
  ShortSuffix = 2
  Builds = {"cpu", "gpu", "vulkan"}
  DraftModel = TRUE
  MaxRequests = 3
  Greedy <- FollowsLastTwo
  DraftGreedy <- FollowsLast
  g1 = g1
  g2 = g2
  t1 = t1
  c1 = c1
  Key <- Keys_
  Tag <- Tags_
  Category <- Cats_
  ByteBudget = 5
  CategoryBudget <- Budgets
  MaxEntries = 4
  Saver = {s1, s2}
  Snapshot <- GoalSnapshots
  Object = {1, 2}
  Nowhere = Nowhere
  Torn = Torn
  GoalId = {g1, g2}
  TaskId = {t1}
  CaptureId = {c1}
  StatusKey = "status"
  NoGoal = "none"
  Width = {1, 2}
  MaxChanges = 3
  Device <- Devices
  VkLayers = 2
  FLASH_MIN_SEQ = 1
  SDPA_FLASH_BLOCK = 1
  SDPA_SUPER = 2
  Pad = 2
  HeadBatches = 2
  VkSeq = 4
  VkRows = 2
  PREFILL_MIN_SEQ = 3
  Weights <- Mats
  Batches = {1, 2, 3}
  ColSpan = 4
  Heads <- Shapes
  LANES = 2
  MaxVecs = 2
  Inputs <- Activation
  WG = 4
  MaxGrid = 2
  AccRows = 2
  Scores <- Logits
  Draws <- Noisy
  TopK = 2
  Passes <- Vectors
  Products <- Batched
  Norms = {3, 6}
  Rotations <- Turned
  Attentions <- Attended_
SPECIFICATION LocalSpec
SYMMETRY Sym
INVARIANTS
  AnswersAsIfCold
  CacheTrailsKV
  SpecInStep
  BudgetKept
  NotedIsResident
  MemoryAccounts
  OneCurrentGoal
  SavedWhenQuiet
  FileWhole
  RunsAsRecorded
  CellsExact
  QuantsStandForInput
  GroupsExact
PROPERTIES
  PinnedSurvives
CHECK_DEADLOCK FALSE
