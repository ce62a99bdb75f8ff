\* Fewer threads than jobs, and a number of threads that is raised to one.
CONSTANTS
    JobIds = {"a", "b"}
    Batches <- MCBatches
    WorkerCounts = {0, 2}
    Durations = {1, 2}
    None = None
SPECIFICATION Spec
INVARIANTS ResultsMatchInput SummaryAddsUp
PROPERTIES FailureStops
\* A call of run_batch ends.
CHECK_DEADLOCK FALSE
