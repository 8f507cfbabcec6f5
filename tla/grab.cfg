SPECIFICATION FairSpec
CONSTANTS
  Origins <- AllOrigins
  MaxAttempts = 3
INVARIANT TypeOK
INVARIANT NoDeveloperError
INVARIANT OnlyPrefixes
INVARIANT SuccessIsWhole
PROPERTY EveryAttemptEnds
INVARIANT ProgressIsReal
PROPERTY ImplementsTransfer
