SPECIFICATION FairSpec
CONSTANTS
  Campaign = {c1}
  Worker = {w1, w2}
  NoWorker = NoWorker
  NoCampaign = NoCampaign
  MaxAttempts = 3
  MaxEpisodes = 2
  MaxCancels = 2
  TimelyHeartbeats = TRUE
INVARIANTS TypeOK OneRunner OpenEpisodesAreDriven
PROPERTIES EpisodeResultIsFinal TerminalIsFinal OnlyOwnerSettles EveryJobSettles EveryCampaignEnds KeepsLedger
CHECK_DEADLOCK FALSE
