SPECIFICATION FairSpec
CONSTANTS
  Session = {s1, s2}
  Worker = {w1}
  Keeper = Keeper
  NoWorker = NoWorker
  NoSession = NoSession
  Managed = {s2}
  Evaluated = {}
  Cost = 1
  CostLimit = 1
  MaxSessions = 2
  Cancellable = {s2}
  MaxEpisodes = 1
  MaxAttempts = 2
  MaxCommands = 0
  MaxOps = 1
  Usage = {0, 2}
  MaxCrashes = 1
  TimelyHeartbeats = TRUE
INVARIANTS ReservationsAddUp
PROPERTIES SessionsEnd
CHECK_DEADLOCK FALSE
