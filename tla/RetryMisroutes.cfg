CONSTANTS
  MaxSessions = 1
  MaxAttempts = 2
  Faults = {"retryable"}
  Nodes <- MCNodes
  Edges <- MCEdges
  Alphabet <- MCAlphabet
  Within <- MCWithin
  Plans <- MCPlans
  Instructions <- MCInstructions
  ModelReplies <- MCModelReplies
  Actions <- MCActions
  Menu <- MCMenu
  Profiles = {"qwen3-8b", "nemotron-super"}
  Settings <- MCSettings
  MaxPolls = 2
SPECIFICATION FairSessionSpec
INVARIANTS
  RulesGoWhereTold
