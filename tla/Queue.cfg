CONSTANTS
  Clients = {c1, c2}
  PerClient = 2
  NONE = NONE
  TIMEOUT = TIMEOUT
  ClientsTimeOut = TRUE
  MaxStarts = 2
  MaxCutOff = 1
SPECIFICATION FairSpec
INVARIANTS
  NoOvertaking
  LostOnlyByCollision
PROPERTIES
  ExecutedOnceByItsServer
  EveryWaitIsAnswered
