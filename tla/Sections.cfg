SPECIFICATION Spec
CONSTANTS
  Keys = {k1, k2, k3}
  Statuses <- MCStatuses
  BlockedStatuses = {"blocked"}
  NoDay = NoDay
  Facts <- MCFacts
  MaxAnalysed = 2
  TopN = 1
  Briefings = {b1, b2}
  Requests <- MCRequests
  Log0 <- MCLog0
  Unknown = {k3}
  Moved = {k1}
  Edited = {k1}
  None = None
  BatchSize = 1
  MaxRetries = 2
  MaxConcurrency = 2
  CacheMax = 1
  MaxLog = 2
  LastDay = 1
  k1 = k1
  k2 = k2
  k3 = k3
  b1 = b1
  b2 = b2
INVARIANTS
  TypeOK
  CacheIsHonest
  StatusAsFetched
  RefreshedIsCurrent
  ReferencesAreShown
  DroppedAreCounted
  MissingIsExplained
  NoneIsPassedOver
