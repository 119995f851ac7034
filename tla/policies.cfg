SPECIFICATION FreshSpec
CONSTANTS
  p1 = p1  p2 = p2
  g1 = g1  g2 = g2  g3 = g3
  None = None
  PolicyNames <- MCNames2
  ClientGroups <- MCGroups3
  VlanInputs <- MCFewVlans
INVARIANTS
  TypeOK IndexSound InSync VlanMatchesDecision
  VerdictOfOwnGroup DuplicateHasPolicy RestartKeepsVerdicts
PROPERTY ImplementsStore
