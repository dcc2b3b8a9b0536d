SPECIFICATION Spec
CONSTANTS
  Calls = {c1, c2}
  Sessions = {s1}
  Queries = {q1, q2}
  Terms = {t1, t2}
  q1 = q1
  q2 = q2
  t1 = t1
  t2 = t2
  Detect <- MCDetect
  MaxRounds = 1
  Backend = "valkey"
  Elicit = FALSE
  Overlap = TRUE
  Faults = {"expiry", "restart"}
  HostMoves = {"answer", "repeat", "abandon"}
  Objects = {o1, o2, o3}
  NoObject = NoObject
  NoSession = NoSession
  NoQuery = NoQuery
SYMMETRY Symmetry
INVARIANTS
  StoredIsSettled
  NeverGuessesSilently
