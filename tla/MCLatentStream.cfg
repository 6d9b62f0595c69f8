CONSTANTS
  Candidates <- SmallCandidates
  Pmfs <- SmallPmfs
  Latents <- SmallLatents
  FrameLimit <- SmallLimit
  MaxFrame = 5

SPECIFICATION StreamSpec

INVARIANTS
  ScheduleIsTotal
  LatentsSurvive
  ScalesAreReference
