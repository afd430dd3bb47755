CONSTANTS
  MaxDrops = 3
  MaxReconnects = 2
  OpenRetries = 2
  MaxFrames = 4
  MaxGlitches = 2
  MaxBreaks = 3
SPECIFICATION FairSpec
INVARIANTS
  FramesForwardOnly
  OneClient
PROPERTIES
  DeadCameraEndsSession
