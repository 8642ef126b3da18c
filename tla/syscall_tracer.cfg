\* All tests of the exhaustive tracer, with a map that processes fill by ending.
SPECIFICATION FairSpec
CONSTANTS
  Tids = {1, 2, 3}
  None = None
  MAX_ENTRIES = 2
  RingSize = 2
  RUNS = 2
  ITER = 2
INVARIANTS
  EntryOwners
  RunStartsClean
PROPERTIES
  RefusedOnlyWhenFull
  RunEnds
