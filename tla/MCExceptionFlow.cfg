CONSTANTS
  Method = {"catchIn", "twoFin", "finCatch", "catchFin", "filter", "faults"}
  Point <- Points
  Clauses <- MCClauses
  Leaves <- MCLeaves
  Ex <- TwoEx
  CallsBeforeTry = FALSE
  MaxFrames = 2
SPECIFICATION Spec
INVARIANTS
  FlowsMirrorHandlers
PROPERTIES
  FinallyNotSkipped
  HandlersGuardTheirTry
