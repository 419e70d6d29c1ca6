SPECIFICATION Spec
CONSTANTS
  c1 = c1  c2 = c2  c3 = c3  c4 = c4  c5 = c5  c6 = c6
  NoCpu = NoCpu
  CPUs = {c1, c2, c3, c4}
  MAX_NUM_CMG = 2
  MAX_PE_PER_CMG = 2
  peinfo <- TwoByTwo
  MayMiss = {c1}
  LoadMayFail = FALSE
  MaxUsers = 1
INVARIANTS
  CheckCpumaskExact
