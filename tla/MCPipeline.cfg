\* Enough for a job to wait behind another, for an id and a path to be used twice, and for a
\* request to be under way when the signal comes.
CONSTANTS
    first = first
    again = again
    other = other
    idA = idA
    dotA = dotA
    scratch = scratch
    output = output
    Jobs <- MCJobs
    Ids <- MCIds
    IdOf <- MCIdOf
    Paths <- MCPaths
    ScratchOf <- MCScratchOf
    OutputOf <- MCOutputOf
    Handlers = {h1, h2}
    Worker = worker
    NoJob = NoJob
    NoFile = NoFile
    Partial = Partial
    NoResult = NoResult
SPECIFICATION Spec
INVARIANTS PipelineTypeOK EveryJobIsAnswered SuccessHasItsFile StopAnswersTheQueue
PROPERTIES JobsGetResults SignalEnds
\* The process exits.
CHECK_DEADLOCK FALSE
