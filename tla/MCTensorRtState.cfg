SPECIFICATION Spec
CONSTANTS
  Inputs <- MCInputs
  Garbage <- MCGarbage
  MaxFed = 3
  MaxQueue = 3
INVARIANTS
  TypeOK
  HostBuffersFree
  FeatureCarried
PROPERTIES
  StateSpec
CHECK_DEADLOCK FALSE
