SPECIFICATION CacheSpec
CONSTANTS
  p1 = p1
  p2 = p2
  Processes <- MCTwo
  Chunks = 2
  None = none
  MaxVersion = 2
INVARIANTS
  PublishedIsWhole
PROPERTIES
  EngineIsCurrent
  OnlyBuildsFail
SYMMETRY MCSymmetry
