CONSTANTS
  Config <- SmallConfig
  Directions = {FALSE}
  QChoices = {0, 1, 2}
  FrameLimits = {0, 2}
  MaxFrames = 3
  Slots = 2
  ComputeMajor = 7
  Undefined = Undefined

SPECIFICATION Spec

INVARIANTS
  InternalGuardsHold
  LossIsBounded

PROPERTIES
  BuffersReusedAfterWait
  SessionSpec
  CallEnds
  FramesComeOut
