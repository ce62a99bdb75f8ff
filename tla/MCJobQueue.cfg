\* Two callers of Pop (a Signal has a waiter to choose, a Broadcast can wake
\* one whose context is live), two concurrent Enqueue calls, two jobs pending.
CONSTANTS
    Jobs = {j1, j2}
    Poppers = {p1, p2}
    Producers = {e1, e2}
    NoJob = NoJob
    Free = Free
    Capacity = 2
    MaxStrays = 1
SPECIFICATION Spec
INVARIANTS TypeOK NoLostWakeup CancelReaches
PROPERTY ImplementsFifo
