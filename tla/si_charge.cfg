CONSTANTS
  Flags <- AllFlags
  Cases <- AllCases
SPECIFICATION FairSpec
INVARIANTS TypeOK BeliefsTrue OneSource HeldForUse FeedKnown
PROPERTIES StopReleases EmptyGetsSource
