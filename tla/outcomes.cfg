SPECIFICATION Spec
CONSTANTS
  MaxTasks = 1
  TaskParams <- AllParams
  CountLimit <- OneWorker
  RetryLimit <- CodeRetries
  RetryDelay = 1
  MayPanic = TRUE
INVARIANT SuccessDelivers
INVARIANT FailureHasReason
INVARIANT NoResidue
INVARIANT RetryBudget
INVARIANT KnownLengthIsLimited
PROPERTY CancelIsFinal
PROPERTY UseTransfers
