SPECIFICATION CodeFairSpec
CONSTANTS
  MaxTasks = 1
  TaskParams <- QuickParams
  CountLimit <- OneWorker
  RetryLimit <- CodeRetries
  RetryDelay = 1
  MayPanic = FALSE
PROPERTY QuickTaskExpires
