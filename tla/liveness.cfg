SPECIFICATION FairSpec
CONSTANTS
  MaxTasks = 2
  TaskParams <- MixedParams
  CountLimit <- OneWorker
  RetryLimit <- DownloadRetries
  RetryDelay = 1
  MayPanic = TRUE
PROPERTY EveryTaskEnds
