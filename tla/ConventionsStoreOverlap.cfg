SPECIFICATION Spec
CONSTANTS
  Callers = {c1, c2}
  Terms = {t1, t2}
  Values = {v1}
  NoValue = NoValue
  Inodes = {i1, i2, i3}
  NoInode = NoInode
INVARIANT
  AlwaysLoadable
