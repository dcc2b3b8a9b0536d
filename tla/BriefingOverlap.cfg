SPECIFICATION Spec
CONSTANTS
  Calls = {c1, c2}
  a = a
  b = b
  q1 = q1
  q2 = q2
  q3 = q3
  Ids = {a, b}
  Queries = {q1, q2, q3}
  Plans <- MCTwoPlans
  MaxRounds = 1
  Backend = "memory"
  Delivers = FALSE
  MaxMishaps = 0
  NoQuery = NoQuery
  NoPlan <- MCNoPlan
  BriefingKey = BriefingKey
SYMMETRY Symmetry
INVARIANTS
  CompletedPrefix
  EveryTopicReported
