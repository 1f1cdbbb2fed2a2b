SPECIFICATION FairSpec
CONSTANTS
  CommandLines <- SmallLines
  Passes <- OnePass
  Records <- SmallRecords
  MaxRecords = 2
  Paths <- SmallPaths
  Baked = "other"
  Top = 3
INVARIANTS
  TypeOK
  DocumentIsWhole
  SpansRunForward
  SegmentIsOfTheInput
PROPERTIES
  OnlyTheTargetHoldsIt
