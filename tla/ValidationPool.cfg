\* Two workers and three batches of two, two, and one file; a file of the first
\* and one of the second batch block their thread.
SPECIFICATION Spec
CONSTANTS
    N = 5
    BatchSize = 2
    Workers = 2
    MaxWorkers = 4
    Blockers = {2, 3}
    None = None
INVARIANTS
    NothingRunsAfter
    BlockersAreNotGivenBack
PROPERTIES
    PoolResolves
\* A pool that has resolved is done.
CHECK_DEADLOCK FALSE
