SPECIFICATION AnsweringSpec
CONSTANTS
  Calls = {c1}
  Sessions = {s1}
  Queries = {q1, q2}
  Terms = {t1, t2}
  q1 = q1
  q2 = q2
  t1 = t1
  t2 = t2
  Detect <- MCDetect
  MaxRounds = 2
  Backend = "memory"
  Elicit = TRUE
  Overlap = FALSE
  Faults = {"expiry"}
  HostMoves = {"answer", "repeat", "abandon"}
  Objects = {o1, o2}
  NoObject = NoObject
  NoSession = NoSession
  NoQuery = NoQuery
INVARIANTS
  AskedSessionAwaits
  RoundsBounded
PROPERTY
  AnsweringEndsTheQuestions
