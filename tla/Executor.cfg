CONSTANTS
  o1 = o1
  o2 = o2
  NONE = NONE
  Objects = {o1, o2}
  Plans <- MCPlans
  SkillOutcomes = {"ok", "fail", "raise", "raise_timeout", "interrupt"}
  SkillsMayStall = TRUE
SPECIFICATION FairSpec
INVARIANTS
  PreconditionHoldsWhileRunning
  CompensatedHoldsNothing
  BeliefIsHeld
PROPERTIES
  ImplementsPlanRun
  RunReturns
