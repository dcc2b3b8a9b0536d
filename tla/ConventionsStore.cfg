SPECIFICATION Spec
CONSTANTS
  Callers = {c1}
  Terms = {t1, t2}
  Values = {v1, v2}
  NoValue = NoValue
  Inodes = {i1, i2}
  NoInode = NoInode
INVARIANTS
  TypeOK
  AlwaysLoadable
  LearnedIsDurable
PROPERTY
  ImplementsDurableMap
