CONSTANTS
  Method = {"catchIn", "early"}
  Point <- Points
  Clauses <- MCClauses
  Leaves <- MCLeaves
  Ex <- TwoEx
  CallsBeforeTry = FALSE
  MaxFrames = 2
SPECIFICATION Spec
INVARIANTS
  LeaveFindsItsFlow
