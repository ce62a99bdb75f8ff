\* A reader between the two stores of a stream.
CONSTANTS
    Replies <- MCReplies
    Source <- MCSource
    Endpoints <- MCStreamOnly
    MaxReplans = 1
    MaxOps = 2
    NoPlan = NoPlan
SPECIFICATION Spec
INVARIANT ReadyHasPlan
\* One job: it is over when its response or its stream is.
CHECK_DEADLOCK FALSE
