\* A search that scans for a similar stub while stubs are deleted.
CONSTANTS
  g1 = g1
  g2 = g2
  g3 = g3
  Goroutines = {g1, g2}
  Operations <- SimilarOperations
SPECIFICATION Spec
INVARIANT NoDeadlock
