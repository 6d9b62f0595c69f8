CONSTANTS
  Config <- SmallConfig
  Directions = {TRUE}
  QChoices = {1}
  FrameLimits = {0, 3}
  MaxFrames = 5
  Slots = 2
  ComputeMajor = 8
  Undefined = Undefined

SPECIFICATION Spec

INVARIANTS
  TypeOK
  SlotDiscipline
  InternalGuardsHold
  PinnedOutlivesCopies
  LossIsBounded

PROPERTIES
  BuffersReusedAfterWait
  SessionSpec
  CallEnds
  FramesComeOut
