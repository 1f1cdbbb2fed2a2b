SPECIFICATION FairSpec
CONSTANTS
  N = 4
  Jobs = 0
  Hardware = 3
  MayThrow <- AnyFile
  Empty = Empty
INVARIANTS
  TypeOK
  ClaimedOnce
  NobodyWaitsInVain
  MissingWereLost
PROPERTIES
  StableOnceDrained
  Terminates
  MapSpec
