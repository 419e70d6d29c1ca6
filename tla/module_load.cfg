SPECIFICATION FairSpec
CONSTANTS
  c1 = c1  c2 = c2  c3 = c3  c4 = c4  c5 = c5  c6 = c6
  NoCpu = NoCpu
  CPUs = {c1, c2, c3, c4, c5, c6}
  MAX_NUM_CMG = 3
  MAX_PE_PER_CMG = 3
  peinfo <- Uneven
  MayMiss = {}
  LoadMayFail = TRUE
  MaxUsers = 2
INVARIANTS
  CheckCpumaskExact
  EveryPeFound
  PpemaskExact
  NothingLeftBehind
  ReadersFindTopology
PROPERTIES
  KobjectNeverReleased
  CommandsEnd
