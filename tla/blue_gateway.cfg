SPECIFICATION Spec
CONSTANTS
  Identity <- MCIdentity
  Route <- MCRoute
  InitialWorld <- MCInitialWorld
  Policies <- MCPolicies
  Forbidden <- MCForbidden
  Surfaces <- MCSurfaces
  ReceiptLimit = 2
  Call = {t1, t2}
  Toolset <- MCToolset
  Action <- MCAction
  MaxResets = 2
  MaxTurns = 2
SYMMETRY Symmetry
INVARIANTS ExecutedOnce ReceiptsAreTrue VerifierSeesTheWorld TraceIsComplete
PROPERTIES DrainedStaysQuiet
CHECK_DEADLOCK FALSE
