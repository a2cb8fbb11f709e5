SPECIFICATION Spec
CONSTANTS
  t1 = t1  t2 = t2  i1 = i1  i2 = i2  i3 = i3
  ada = ada  Ada = Ada  bob = bob
  ann = ann  blank = blank  empty = empty
  Tab = {t1}
  Origin = {"data"}
  Id = {i1, i2}
  Email <- MCEmail
  Name <- MCName
  Lower <- MCLower
  Trim <- MCTrim
  NoName = empty
  Seed <- MCSeed
  None = None
INVARIANT RegisteredCanLogin
