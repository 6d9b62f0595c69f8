SPECIFICATION Spec
CONSTANTS
  Graphs <- SmallGraphs
  MaxRuns = 3
INVARIANTS
  OutputsAreExact
  LiveTensorsIntact
  OldFeatureIsReadFirst
  WritesStayInside
  ArenaKeepsApart
  TenantsKeepApart
CHECK_DEADLOCK FALSE
