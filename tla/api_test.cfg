SPECIFICATION FairSpec
CONSTANTS
  c1 = c1  c2 = c2  e1 = e1  e2 = e2
  Click = {c1, c2}
  Email = {e1, e2}
  Known = {e1}
INVARIANT TypeOK
INVARIANT OneAccountPerClick
INVARIANT RewritingSettles
 
PROPERTY EveryTestEnds
CHECK_DEADLOCK FALSE
