SPECIFICATION BarrierSpec
CONSTANTS
  t1 = t1  t2 = t2  t3 = t3  t4 = t4
  p1 = p1  p2 = p2
  c1 = c1  c2 = c2  c3 = c3
  g1 = g1
  MAX_BB_PER_CMG = 2
  MAX_BW_PER_CMG = 2
  Threads = {t1, t2, t3, t4}
  Groups = {p1, p2}
  tgid <- TwoPairs
  CPUs = {c1, c2, c3}
  CMGs = {g1}
  cmgOf <- OneCmg3
  Masters = {t1, t3, t4}
  Resetters = {}
  WindowArgs <- OnlyNextFree
  KmallocMayFail = FALSE
  MaxOpen = 1
  Syncers = {t1, t2}
  pin <- Beside
  Careful = {t1, t2, t3}
  AssignFirst = FALSE
  MaxRounds = 2
INVARIANTS
  RoundSafety
  NotAllStuck
  SyncThroughOwnBlade
