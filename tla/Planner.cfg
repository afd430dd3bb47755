CONSTANTS
  MaxSessions = 2
  MaxAttempts = 2
  Faults = {"retryable", "rejected", "garbled", "misshapen", "dropped"}
  Nodes <- MCNodes
  Edges <- MCEdges
  Alphabet <- MCAlphabet
  Within <- MCWithin
  Plans <- MCPlans
  Instructions <- MCInstructions
  ModelReplies <- MCModelReplies
  Actions <- MCActions
  Menu <- MCMenu
  Profiles = {"qwen3-8b", "nemotron-super"}
  Settings <- MCSettings
  MaxPolls = 2
SPECIFICATION FairSessionSpec
INVARIANTS
  AuditTrailIsTrue
  FirstPlanGoesWhereTold
  NothingCarriedOver
  LogIsWhole
PROPERTIES
  ParseEnds
