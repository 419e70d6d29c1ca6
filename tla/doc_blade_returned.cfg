SPECIFICATION ClientSpec
CONSTANTS
  t1 = t1  t2 = t2  t3 = t3
  p1 = p1  p2 = p2
  c1 = c1  c2 = c2  c3 = c3  c4 = c4
  g1 = g1  g2 = g2
  MAX_BB_PER_CMG = 1
  MAX_BW_PER_CMG = 1
  Threads = {t1}
  Groups = {p1}
  tgid <- OneProcess
  CPUs = {c1, c2}
  CMGs = {g1}
  cmgOf <- OneCmg
  Masters = {t1}
  Resetters = {}
  WindowArgs <- OnlyNextFree
  KmallocMayFail = TRUE
  MaxOpen = 1
  Faulty = {t1}
INVARIANTS
  ReturnedBladeIsAllocated
