\* The twelve cases, and two with frames; two deviations may hit one case or two.
CONSTANTS
    FrameCases <- MCFrameCases
    Deviant <- MCDeviant
    MaxDeviations = 2
    MaxReplans = 1
SPECIFICATION Spec
INVARIANTS ExitCodeIsTrue ScriptPasses
\* The suite ends.
CHECK_DEADLOCK FALSE
