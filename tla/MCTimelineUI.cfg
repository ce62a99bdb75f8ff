\* Two submissions.
CONSTANTS
    Submissions = 2
    Traces <- MCTraces
    NoJob = NoJob
SPECIFICATION Spec
INVARIANTS PageIsTheTrace PageShowsVerdict
PROPERTIES PageSettles
\* The user has submitted everything and the responses are over.
CHECK_DEADLOCK FALSE
