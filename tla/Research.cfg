SPECIFICATION Spec
CONSTANTS
  Pages = {p1, p2}
  Spaces = {S1, S2}
  Keys = {K1, K2}
  Words <- MCWords
  Headings = {"Status", "Notes"}
  Targets = {"Status"}
  Versions <- MCVersions
  Recent = 2
  SpaceOf <- MCSpaceOf
  Title <- MCTitle
  Text <- MCText
  Read <- MCRead
  NoPage = NoPage
  NoWord = NoWord
  Searches = {s1}
  Topics = {t1, t2}
  Requests <- MCRequests
  Intents <- MCIntents
  BriefingSpaces = {}
  JiraKeys <- MCJiraKeys
  DefaultSpaces = {S1}
  Edited = {p1}
  MaxPagesTotal = 1
  MaxConcurrent = 2
  MaxExtractions = 2
  p1 = p1
  p2 = p2
  S1 = S1
  S2 = S2
  K1 = K1
  K2 = K2
INVARIANTS
  TypeOK
  NothingIsLeaked
  SparesRequests
  ForcedIsFresh
  PinnedAccountedFor
  SearchStaysInSpaces
  ForcedEvidenceIsCurrent
PROPERTIES
  CachesNeverGoBack
