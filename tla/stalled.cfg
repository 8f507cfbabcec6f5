SPECIFICATION CodeFairSpec
CONSTANTS
  MaxTasks = 1
  TaskParams <- NormalParams
  CountLimit <- OneWorker
  RetryLimit <- CodeRetries
  RetryDelay = 1
  MayPanic = FALSE
PROPERTY StalledIsInterrupted
