CONSTANTS
  u = u
  p = p
  Items = {u, p}
  Pumps = {p}
  Faults <- AllFaults
  MaxQueue = 2
  MaxRecalls = 1
SPECIFICATION FairSpec
INVARIANTS TypeOK AwareUnlessBlind NoOrphan
PROPERTIES LeaseSpec RecallTakesEffect
