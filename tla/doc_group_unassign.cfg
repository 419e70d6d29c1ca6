SPECIFICATION Spec
CONSTANTS
  t1 = t1  t2 = t2  t3 = t3
  p1 = p1  p2 = p2
  c1 = c1  c2 = c2  c3 = c3
  g1 = g1
  MAX_BB_PER_CMG = 2
  MAX_BW_PER_CMG = 2
  Threads = {t1, t2}
  Groups = {p1}
  tgid <- Pair
  CPUs = {c1, c2}
  CMGs = {g1}
  cmgOf <- OneCmg
  Masters = {t1, t2}
  Resetters = {}
  WindowArgs <- OnlyNextFree
  KmallocMayFail = TRUE
  MaxOpen = 1
PROPERTIES
  GroupMemberUnassigned
