SPECIFICATION Spec
CONSTANTS
  u1 = u1
  u2 = u2
  u3 = u3
  Upload = {u1, u2, u3}
  Size <- MCSize
  Asked <- MCAsked
  Call = {h1, h2}
  Run = {r1, r2}
  Pairs = 2
  Outcome <- MCOutcome
  ReportSize = 2
  Quota = 2
  MaxAttempts = 2
  MaxOps = 1
  MaxRequests <- MCRequests
  None = None
CHECK_DEADLOCK FALSE
INVARIANTS StorageAddsUp UploadsAreWhole ResultsAreFaithful

PROPERTIES ResultsArrive
