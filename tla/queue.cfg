CONSTANTS
  N = 3
  Builds <- AllBuilds
SPECIFICATION FairSpec
INVARIANTS TypeOK LockSuffices ListWhole
PROPERTIES RefinesQueue Leaves
