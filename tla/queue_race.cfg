CONSTANTS
  N = 3
  Builds <- AllBuilds
SPECIFICATION Spec
INVARIANT ChecksHold
