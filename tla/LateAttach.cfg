CONSTANTS
  o1 = o1
  o2 = o2
  NONE = NONE
  Objects = {o1, o2}
  Plans <- CompoundPlan
  SkillOutcomes = {"ok"}
  SkillsMayStall = TRUE
SPECIFICATION Spec
INVARIANTS
  FailedRunHoldsNothing
