SPECIFICATION HandleSpec
CONSTANTS
  Inputs <- MCInputs
  Garbage <- MCGarbage
  MaxFed = 3
INVARIANTS
  FeatureIntact
PROPERTIES
  StateSpec
CHECK_DEADLOCK FALSE
