SPECIFICATION FairSpec
CONSTANTS
  Run = {r1}
  MaxAttempts = 2
PROPERTIES HardeningCloses
CHECK_DEADLOCK FALSE
