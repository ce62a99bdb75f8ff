\* A second job whose output goes to the path of one that was rendered.
CONSTANTS
    first = first
    again = again
    other = other
    idA = idA
    dotA = dotA
    scratch = scratch
    output = output
    Jobs <- MCJobs
    Ids <- MCIds
    IdOf <- MCIdOf
    Paths <- MCPaths
    ScratchOf <- MCScratchOf
    OutputOf <- MCOutputOf
    Handlers = {h1, h2}
    Worker = worker
    NoJob = NoJob
    NoFile = NoFile
    Partial = Partial
    NoResult = NoResult
SPECIFICATION Spec
INVARIANT UrlStaysValid
\* The process exits.
CHECK_DEADLOCK FALSE
