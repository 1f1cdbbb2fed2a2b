SPECIFICATION FairSpec
CONSTANTS
  Lines <- SomeLines
  Files <- SomeFiles
  Names <- ProfileNames
  Builtin <- ServerProfile
  Features <- OneFeature
  Values <- AllValues
  Missing = Missing
INVARIANTS
  TypeOK
  ResolutionIsExact
  NearestProfileWins
  CommandLineHolds
PROPERTIES
  Decides
