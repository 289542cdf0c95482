\* Three goroutines that keep calling operations, without the similar-stub scan.
CONSTANTS
  g1 = g1
  g2 = g2
  g3 = g3
  Goroutines = {g1, g2, g3}
  Operations <- MCOperations
SPECIFICATION FairSpec
INVARIANT DeletesAtomic
PROPERTY OperationsReturn
