CONSTANTS
  Frames = 2
  PreviewMax = 2
  MinScore = 5
  MinPoints = 6
  MaxSize = 2
  MergeRadius = 1
  Detections <- MCDetections
  MaxRuns = 2
  Captures <- MCCaptures
  Formats = {1, 2}
  PreviewFormat = 1
SPECIFICATION Spec
CHECK_DEADLOCK FALSE
INVARIANTS
  OnlyProxiesAreInvalid
  DoctorForecasts
  PassedMapIsSound
PROPERTIES
  PublishedWhole
