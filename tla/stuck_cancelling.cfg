SPECIFICATION FairSpec
CONSTANTS
  Campaign = {c1}
  Worker = {w1, w2}
  NoWorker = NoWorker
  NoCampaign = NoCampaign
  MaxAttempts = 2
  MaxEpisodes = 1
  MaxCancels = 1
  TimelyHeartbeats = TRUE
PROPERTIES CancelledCampaignEnds
CHECK_DEADLOCK FALSE
