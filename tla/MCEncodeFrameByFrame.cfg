CONSTANTS
  Config <- SmallConfig
  Directions = {TRUE}
  QChoices = {1}
  FrameLimits = {0}
  MaxFrames = 3
  Slots = 2
  ComputeMajor = 8
  Undefined = Undefined

SPECIFICATION Spec

PROPERTY FrameByFrame
