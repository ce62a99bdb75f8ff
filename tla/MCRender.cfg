\* Lines of two pieces, two of them and a half; a pipe that fills and a tail that
\* overflows.
CONSTANTS
    Plans <- MCPlans
    Posted <- MCPosted
    Sources <- MCSources
    LineLen = 2
    PipeSize = 2
    TailSize = 2
    Outputs = {0, 5}
SPECIFICATION Spec
INVARIANTS RunTypeOK ChainsFollowPlan LabelsResolve BuildersAgree
    LinesAreWhole TailIsLast NothingGoesOn
PROPERTIES RunReturns
\* A call of Run ends.
CHECK_DEADLOCK FALSE
