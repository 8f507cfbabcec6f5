SPECIFICATION Spec
CONSTANTS
  MaxTasks = 2
  TaskParams <- MixedParams
  CountLimit <- TwoRandom
  RetryLimit <- SmallRetries
  RetryDelay = 1
  MayPanic = TRUE
INVARIANT TypeOK
INVARIANT SingleOwner
INVARIANT ListsSorted
INVARIANT Accounted
INVARIANT NoOrphanTransfer
PROPERTY PopOrder
PROPERTY NeverBrokenOff
PROPERTY ImplementsLifecycle
