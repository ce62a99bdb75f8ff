\* Two replans, so that a second rejection follows a first; two calls at most.
CONSTANTS
    Replies <- MCReplies
    Source <- MCSource
    MaxReplans = 2
    MaxOps = 2
    NoPlan = NoPlan
SPECIFICATION PlannerSpec
INVARIANTS PlannerTypeOK PlanFitsSource FeedbackIsCurrent
PROPERTIES TraceIsOrdered PlanEnds
\* plan() is one call: it ends.
CHECK_DEADLOCK FALSE
