SPECIFICATION FairSpec
CONSTANTS
  Savers = {w1, w2}
  Setters = {s1, s2}
  CD = CD
  Date = Date
  Names <- MCNames
  IgnoreSets <- MCIgnoreSets
  Answers <- MCAnswers
  Absent = Absent
  CutOff = CutOff
  Nobody = Nobody
INVARIANT TypeOK
INVARIANT NoHalfFile
PROPERTY ImplementsStore
PROPERTY EveryCallReturns
