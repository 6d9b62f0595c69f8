CONSTANTS
  Config <- SmallConfig
  Directions = {TRUE, FALSE}
  QChoices = {0, 1, 2}
  FrameLimits = {0, 3}
  MaxFrames = 4
  Undefined = Undefined

SPECIFICATION Spec

INVARIANTS
  NothingLost

PROPERTIES
  SessionSpec
  FramesComeOut
