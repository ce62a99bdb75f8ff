---------------------------- MODULE FifoQueue ----------------------------
(***************************************************************************)
(* What the Queue interface of the render pipeline promises its callers    *)
(* (pipeline/internal/queue/queue.go, type Queue): one shared FIFO of      *)
(* jobs, on which every call takes effect at one instant.  Neither the     *)
(* mutex, nor the condition variable, nor the goroutines that watch the    *)
(* contexts appear here; JobQueue has them and implements this module.     *)
(***************************************************************************)
EXTENDS Sequences

CONSTANTS Jobs,        \* jobs a producer may hand in
          Poppers,     \* threads that call Pop
          Producers,   \* threads that call Enqueue
          NoJob        \* a producer with nothing to hand in

VARIABLES items,       \* the queue
          offer,       \* offer[e]: the job in e's unfinished Enqueue call
          outcome,     \* outcome[p]: what p's last Pop call returned, or "waiting"
          cancelled    \* cancelled[p]: the context of p's calls is done

vars == <<items, offer, outcome, cancelled>>

Init == /\ items = <<>>
        /\ offer = [e \in Producers |-> NoJob]
        /\ outcome = [p \in Poppers |-> "none"]
        /\ cancelled = [p \in Poppers |-> FALSE]

Offer(e, j) == /\ offer[e] = NoJob
               /\ offer' = [offer EXCEPT ![e] = j]
               /\ UNCHANGED <<items, outcome, cancelled>>

Accept(e) == /\ offer[e] # NoJob
             /\ items' = Append(items, offer[e])
             /\ offer' = [offer EXCEPT ![e] = NoJob]
             /\ UNCHANGED <<outcome, cancelled>>

Ask(p) == /\ outcome[p] # "waiting"
          /\ outcome' = [outcome EXCEPT ![p] = "waiting"]
          /\ UNCHANGED <<items, offer, cancelled>>

\* A pending job is delivered even to a caller whose context is done.
Serve(p) == /\ outcome[p] = "waiting"
            /\ items # <<>>
            /\ outcome' = [outcome EXCEPT ![p] = Head(items)]
            /\ items' = Tail(items)
            /\ UNCHANGED <<offer, cancelled>>

\* Only a caller whose context is done is turned away, and only when there
\* is no job.
Refuse(p) == /\ outcome[p] = "waiting"
             /\ items = <<>>
             /\ cancelled[p]
             /\ outcome' = [outcome EXCEPT ![p] = "cancelled"]
             /\ UNCHANGED <<items, offer, cancelled>>

Cancel(p) == /\ ~cancelled[p]
             /\ cancelled' = [cancelled EXCEPT ![p] = TRUE]
             /\ UNCHANGED <<items, offer, outcome>>

Next == \/ \E e \in Producers : Accept(e) \/ \E j \in Jobs : Offer(e, j)
        \/ \E p \in Poppers : Ask(p) \/ Serve(p) \/ Refuse(p) \/ Cancel(p)

\* A job and a caller never face each other for ever, and a caller whose
\* context is done is answered.
Fairness == /\ WF_vars(\E p \in Poppers : Serve(p))
            /\ \A p \in Poppers : WF_vars(cancelled[p] /\ (Serve(p) \/ Refuse(p)))
            /\ \A e \in Producers : WF_vars(Accept(e))

SafeSpec == Init /\ [][Next]_vars

Spec == SafeSpec /\ Fairness
=============================================================================
