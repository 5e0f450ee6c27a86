SPECIFICATION FairSpec
CONSTANTS
  Session = {s1}
  Worker = {w1, w2}
  Keeper = Keeper
  NoWorker = NoWorker
  NoSession = NoSession
  Managed = {}
  Evaluated = {}
  Cost = 1
  CostLimit = 1
  MaxSessions = 1
  Cancellable = {}
  MaxEpisodes = 1
  MaxAttempts = 2
  MaxCommands = 0
  MaxOps = 0
  Usage = {0, 1}
  MaxCrashes = 1
  TimelyHeartbeats = FALSE
PROPERTIES SessionsEnd
CHECK_DEADLOCK FALSE
