SPECIFICATION AnsweringSpec
CONSTANTS
  Calls = {c1}
  a = a
  b = b
  q1 = q1
  q2 = q2
  q3 = q3
  Ids = {a, b}
  Queries = {q1, q2, q3}
  Plans <- MCPlans
  MaxRounds = 1
  Backend = "valkey"
  Delivers = TRUE
  MaxMishaps = 3
  NoQuery = NoQuery
  NoPlan <- MCNoPlan
  BriefingKey = BriefingKey
INVARIANTS
  TypeOK
  CompletedPrefix
  AnswerReachesItsTopic
  SectionsReportTheirTopics
  ReportIsReadable
PROPERTIES
  ProgressOnly
  AnsweredBriefingEnds
