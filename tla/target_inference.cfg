SPECIFICATION Spec
CONSTANTS
  Request = {r1, r2}
  NoRequest = NoRequest
  QueueLimit = 2
  MaxRequests = 2
  Reserve = 2
  MaxUse = 3
  MaxTokens = 3
  Attempts = 3
  ClaimFailures = 2
  MaxSends = 2
  MaxLost = 3
SYMMETRY Symmetry
INVARIANTS RecordedOnce NeverSentAfterAll BudgetCoversCalls ChargedOnce ClosedIsSettled
CHECK_DEADLOCK FALSE
