CONSTANTS
  ZLow = 1
  ZHigh = 6
  Slab = 3
  Pad = 1
  Scenes <- MCScenes
  Spawns <- MCSpawns
  Locations <- MCLocations
  Radii = {0, 1}
  Axes <- MCAxes
  Answers <- MCAnswers
  Lookahead = 3
  WaypointThreshold = 2
  GoalThreshold = 2
  MaxTargetLead = 2
  StallWindow = 3
  StallProgress = 1
  SearchRadius = 2
  MaxSteps = 12
  MaxBoots = 2
  MaxCalls = 2
SPECIFICATION IsaacSpec
CHECK_DEADLOCK FALSE
INVARIANTS
  MapFits
  LeadIsEarned
  RestsWithinLead
  
