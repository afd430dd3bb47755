CONSTANTS
  MaxInstr = 3
  MaxSkills = 2
  SkillsMayStall = TRUE
  MaxInterrupts = 1
SPECIFICATION FairSpec
INVARIANTS
  NoCarryover
  UnansweredWasInterrupted
PROPERTIES
  EveryCallIsServed
  ClosingStops
