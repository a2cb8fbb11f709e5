SPECIFICATION HistorySpec
CONSTANTS
  u1 = u1  u2 = u2  u3 = u3  e1 = e1  e2 = e2
  blank = blank  hashed_pwd = hashed_pwd  good = good  other = other
  tiny = tiny  nul = nul
  NoConn = NoConn  NoId = NoId  BadId = BadId  NoEmail = NoEmail
  UserId <- MCUserId
  Email <- MCEmail
  Password <- MCPassword
  Short <- MCShort
  Unhashable <- MCUnhashable
  Blank = blank
  HashedPwd = hashed_pwd
  Seed <- MCSeed
  Menu <- FullMenu
  Request = {r1, r2}
  Conn = {c1, c2}
  MaxFaults = 1
  MaxBoots = 1
SYMMETRY Symmetry
INVARIANTS
  TypeOK
  PoolConserved
  AnswersNameTheirAccount
 
