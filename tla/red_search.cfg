SPECIFICATION Spec
CONSTANTS
  Channels <- MCChannels
  Dimensions = {"rephrase", "change_channel"}
  MaxMutations = 2
  Count = 3
  Seeds = {}
  StrategyLimit = 5
  Kinds = {"ADAPTIVE", "NEARBY_BYPASS", "LINEAR", "EXACT_REPLAY", "BENIGN_REGRESSION"}
  MaxEpisodes = 3
  MaxSteps = 2
  Concurrency = 2
  BeamWidth = 1
  MaxTokens = 4
  TargetTokens = {0, 4}
  MaxTarget = 4
  MaxAttempts = 2
  Source <- MCSource
  SourceSeed = 7
  Proposals <- MCProposals
  Scores <- MCScores
  Greetings = {"o1"}
  Answers <- MCAnswers
INVARIANTS AttemptsShareTheBudget NothingRunsAfterTheSearch NodesAreReplayable WinnerIsBest WinsAreCredited
PROPERTIES SearchEnds
CHECK_DEADLOCK FALSE
