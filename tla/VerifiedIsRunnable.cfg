\* A verified plan whose command reads the sound of a silent source.
CONSTANTS
    Plans <- MCPlans
    Posted <- MCPosted
    Sources <- MCSources
    LineLen = 2
    PipeSize = 2
    TailSize = 1
    Outputs = {0, 5}
SPECIFICATION Spec
INVARIANT VerifiedIsRunnable
CHECK_DEADLOCK FALSE
