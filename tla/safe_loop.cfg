SPECIFICATION FairSpec
CONSTANTS
  Loops = {l1, l2, l3, l4}
  Nobody = Nobody
INVARIANT TypeOK
INVARIANT OneBody
PROPERTY ImplementsLoops
