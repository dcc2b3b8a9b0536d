SPECIFICATION Spec
CONSTANTS
  Keys = {k1, k2, k3}
  Statuses <- MCStatuses
  BlockedStatuses = {"blocked"}
  NoDay = NoDay
  Facts <- MCFacts
  MaxAnalysed = 2
  TopN = 1
  Briefings = {b1, b2}
  Requests <- MCRepeated
  Log0 <- MCLog0
  Unknown = {}
  Moved = {}
  Edited = {}
  None = None
  BatchSize = 2
  MaxRetries = 1
  MaxConcurrency = 2
  CacheMax = 1
  MaxLog = 2
  LastDay = 0
  k1 = k1
  k2 = k2
  k3 = k3
  b1 = b1
  b2 = b2
INVARIANT ReferencesAreCurrent
