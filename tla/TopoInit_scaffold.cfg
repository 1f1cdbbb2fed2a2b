SPECIFICATION ScaffoldSpec
CONSTANTS
  Projects <- SmallProjects
  Linked <- AllButJava
  Formatted <- WithFormatter
  QualifiedNames <- SmallNames
  Wrapper = "app"
INVARIANTS
  ScaffoldTypeOK
  DetectedIsCommonest
  EachInItsPlace
  WritesInOrder
