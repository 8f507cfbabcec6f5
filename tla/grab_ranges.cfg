SPECIFICATION Spec
CONSTANTS
  Origins <- AllOrigins
  MaxAttempts = 3
INVARIANT DidResumeMeansResumed
