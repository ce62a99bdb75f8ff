\* A stream whose model call or whose parser raises.
CONSTANTS
    Replies <- MCReplies
    Source <- MCSource
    Endpoints <- MCStreamOnly
    MaxReplans = 1
    MaxOps = 2
    NoPlan = NoPlan
SPECIFICATION Spec
INVARIANT VerdictBeforeEnd
\* One job: it is over when its response or its stream is.
CHECK_DEADLOCK FALSE
