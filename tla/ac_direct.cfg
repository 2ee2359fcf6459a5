CONSTANTS
  Commands <- All
  MaxRefs = 2
SPECIFICATION FairSpec
INVARIANTS TypeOK OpenLoop LetsGo
PROPERTIES LoopCloses
