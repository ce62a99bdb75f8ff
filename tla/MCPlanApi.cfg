\* One replan, the default of PlannerConfig; both endpoints; one reader that may
\* look at any time.
CONSTANTS
    Replies <- MCReplies
    Source <- MCSource
    Endpoints <- MCEndpoints
    MaxReplans = 1
    MaxOps = 2
    NoPlan = NoPlan
SPECIFICATION Spec
INVARIANTS ApiTypeOK NothingLost EndIsFinal NoMissedNotify ReadsAgree
PROPERTIES VerdictStands StreamEnds PlanningSettles
\* One job: it is over when its response or its stream is.
CHECK_DEADLOCK FALSE
