SPECIFICATION FairBarrierSpec
CONSTANTS
  t1 = t1  t2 = t2  t3 = t3  t4 = t4
  p1 = p1  p2 = p2
  c1 = c1  c2 = c2  c3 = c3
  g1 = g1
  MAX_BB_PER_CMG = 3
  MAX_BW_PER_CMG = 2
  Threads = {t1, t2, t3}
  Groups = {p1, p2}
  tgid <- TwoGroups
  CPUs = {c1, c2}
  CMGs = {g1}
  cmgOf <- OneCmg
  Masters = {t1, t3}
  Resetters = {}
  WindowArgs <- OnlyNextFree
  KmallocMayFail = FALSE
  MaxOpen = 1
  Syncers = {t1, t2}
  pin <- Shared
  Careful = {t1, t2, t3}
  AssignFirst = TRUE
  MaxRounds = 2
INVARIANTS
  AssignedInHardware
  WindowsAccounted
  NoWindowOnFreeBlade
  AssignCountExact
PROPERTIES
  ForeignWindowsKept
  WaitersLeave
