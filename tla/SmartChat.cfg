SPECIFICATION Spec
CONSTANTS
  None = None
  SessionTtl = 2
  MaxRecentHashes = 2
  ThreeStrikeThreshold = 2
  MaxEntries = 1
  CacheTtl = 2
  DedupWindow = 1
  Calls = {a, b, c}
  Conversations = {s}
  Messages = {x}
  Models = {m, free}
  FallbackModel = free
  SessionsOn = TRUE
  CacheOn = TRUE
  Polled = {"zero", "positive"}
  MaxTime = 3
SYMMETRY Interchangeable
CHECK_DEADLOCK FALSE
INVARIANTS
  TypeOK
  CacheServesOwnModel
  NoMoneyMeansFallback
PROPERTIES
  NoRepeatPurchase
