SPECIFICATION FairSpec
CONSTANTS
  t1 = t1  t2 = t2  t3 = t3  t4 = t4
  c1 = c1  c2 = c2  c3 = c3
  NoTask = NoTask
  Tasks = {t1, t2, t3, t4}
  CPUs = {c1, c2, c3}
  home <- OwnerShares
  kinds <- SharedProgram
INVARIANTS
  OnlySleepersLoseTheCpu
PROPERTIES
  ReturnsUnlessLockedOut
  
CHECK_DEADLOCK FALSE
