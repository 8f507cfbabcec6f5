SPECIFICATION FairSpec
CONSTANTS
  MaxSamples = 3
  Interval = 2
  Horizon = 11
  MaxBytes = 2
INVARIANT TypeOK
INVARIANT WindowIsLast
INVARIANT RateIsSane
INVARIANT WindowIsLong
PROPERTY WatchEnds
