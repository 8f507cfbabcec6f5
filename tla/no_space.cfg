SPECIFICATION Spec
CONSTANTS
  MaxTasks = 1
  TaskParams <- MixedParams
  CountLimit <- OneWorker
  RetryLimit <- CodeRetries
  RetryDelay = 1
  MayPanic = FALSE
PROPERTY NoSpaceNotRetried
