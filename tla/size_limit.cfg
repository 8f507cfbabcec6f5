SPECIFICATION Spec
CONSTANTS
  MaxTasks = 1
  TaskParams <- AllParams
  CountLimit <- OneWorker
  RetryLimit <- CodeRetries
  RetryDelay = 1
  MayPanic = FALSE
INVARIANT SizeLimitHolds
