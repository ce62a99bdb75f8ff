---------------------------- MODULE JobQueue ----------------------------
(***************************************************************************)
(* The in-memory job queue of the render pipeline, type Memory of          *)
(* pipeline/internal/queue/queue.go: a slice under a mutex, a condition    *)
(* variable on which Pop waits for a job, and, for every call of Pop, a    *)
(* goroutine that turns the cancellation of the caller's context into a    *)
(* broadcast.                                                              *)
(*                                                                         *)
(* A step is what a thread does between two points at which another        *)
(* thread can see the difference: taking the mutex, releasing it, reading  *)
(* the context.  sync.Mutex and sync.Cond are external: Lock waits for mu  *)
(* to be free; Wait joins the notify list and releases mu in one step and  *)
(* takes mu again once it has been taken off the list; Signal takes one    *)
(* waiter off the list, Broadcast takes all of them.                       *)
(***************************************************************************)
EXTENDS Naturals, Sequences, FiniteSets

CONSTANTS Jobs,        \* jobs, by identity: the queue never looks inside one
          Poppers,     \* threads that call Pop
          Producers,   \* threads that call Enqueue
          NoJob,       \* argument slot of a producer outside a call
          Free,        \* mu when no thread holds it
          Capacity,    \* bound: the slice grows no further (the code has none)
          MaxStrays    \* bound: watchers left behind by one thread's past calls

Threads == Poppers \cup Producers

Outcomes == {"none", "waiting", "cancelled"}

ASSUME QueueAssumption ==
    /\ IsFiniteSet(Poppers) /\ IsFiniteSet(Producers)
    /\ Poppers \cap Producers = {}
    /\ Free \notin Threads
    /\ NoJob \notin Jobs
    /\ Jobs \cap Outcomes = {}
    /\ Capacity \in Nat /\ MaxStrays \in Nat

VARIABLES mu,          \* the mutex: the thread that holds it, or Free
          buf,         \* Memory.buf
          waiting,     \* the notify list of Memory.cv
          pc,          \* where each thread is in its call
          offer,       \* offer[e]: the argument of e's Enqueue call
          outcome,     \* outcome[p]: what p's Pop call returned, or "waiting"
          cancelled,   \* cancelled[p]: ctx.Err() # nil for the context p passes
          watching,    \* the watcher of p's present call has not broadcast yet
          strays       \* strays[p]: live watchers of calls of p that returned

queue == <<mu, buf, waiting>>
calls == <<pc, offer, outcome>>
watch == <<cancelled, watching, strays>>
vars  == <<mu, buf, waiting, pc, offer, outcome, cancelled, watching, strays>>

Goto(t, place) == pc' = [pc EXCEPT ![t] = place]

Acquire(t) == mu = Free /\ mu' = t

Release == mu' = Free

---------------------------------------------------------------------------
(* Enqueue *)

Arriving == {e \in Producers : offer[e] # NoJob}

CallEnqueue(e, j) == /\ pc[e] = "idle"
                     /\ Len(buf) + Cardinality(Arriving) < Capacity
                     /\ Goto(e, "lock")
                     /\ offer' = [offer EXCEPT ![e] = j]
                     /\ UNCHANGED <<queue, outcome, watch>>

EnqueueAppend(e) == /\ pc[e] = "lock"
                    /\ Acquire(e)
                    /\ buf' = Append(buf, offer[e])
                    /\ offer' = [offer EXCEPT ![e] = NoJob]
                    /\ Goto(e, "signal")
                    /\ UNCHANGED <<waiting, outcome, watch>>

SignalOne == \/ waiting = {} /\ UNCHANGED waiting
             \/ \E p \in waiting : waiting' = waiting \ {p}

\* Mutant: wake a waiter only when the buffer was empty before this job.
SignalWhenFirst(e) == /\ pc[e] = "signal"
                      /\ IF Len(buf) = 1 THEN SignalOne ELSE UNCHANGED waiting
                      /\ Release
                      /\ Goto(e, "idle")
                      /\ UNCHANGED <<buf, offer, outcome, watch>>

EnqueueSignal(e) == /\ pc[e] = "signal"
                    /\ SignalOne
                    /\ Release
                    /\ Goto(e, "idle")
                    /\ UNCHANGED <<buf, offer, outcome, watch>>

---------------------------------------------------------------------------
(* Pop *)

CallPop(p) == /\ pc[p] = "idle"
              /\ strays[p] < MaxStrays
              /\ Goto(p, "lock")
              /\ outcome' = [outcome EXCEPT ![p] = "waiting"]
              /\ UNCHANGED <<queue, offer, watch>>

\* Lock, then start the watcher of this call.
EnterPop(p) == /\ pc[p] = "lock"
               /\ Acquire(p)
               /\ watching' = [watching EXCEPT ![p] = TRUE]
               /\ Goto(p, "test")
               /\ UNCHANGED <<buf, waiting, offer, outcome, cancelled, strays>>

\* The loop ends with a job, whatever the context says.
TakeJob(p) == /\ pc[p] = "test"
              /\ buf # <<>>
              /\ outcome' = [outcome EXCEPT ![p] = Head(buf)]
              /\ buf' = Tail(buf)
              /\ Goto(p, "leave")
              /\ UNCHANGED <<mu, waiting, offer, watch>>

\* Mutant: look at the context before the buffer.
GiveUpFirst(p) == /\ pc[p] = "test"
                  /\ cancelled[p]
                  /\ outcome' = [outcome EXCEPT ![p] = "cancelled"]
                  /\ Goto(p, "leave")
                  /\ UNCHANGED <<queue, offer, watch>>

GiveUp(p) == /\ pc[p] = "test"
             /\ buf = <<>>
             /\ cancelled[p]
             /\ outcome' = [outcome EXCEPT ![p] = "cancelled"]
             /\ Goto(p, "leave")
             /\ UNCHANGED <<queue, offer, watch>>

\* The context was live when it was read; from here to Wait it may end.
FindNothing(p) == /\ pc[p] = "test"
                  /\ buf = <<>>
                  /\ ~cancelled[p]
                  /\ Goto(p, "wait")
                  /\ UNCHANGED <<queue, offer, outcome, watch>>

Wait(p) == /\ pc[p] = "wait"
           /\ waiting' = waiting \cup {p}
           /\ Release
           /\ Goto(p, "asleep")
           /\ UNCHANGED <<buf, offer, outcome, watch>>

\* Woken from Wait, the thread takes mu again and goes back to the loop's test.
Wake(p) == /\ pc[p] = "asleep"
           /\ p \notin waiting
           /\ Acquire(p)
           /\ Goto(p, "test")
           /\ UNCHANGED <<buf, waiting, offer, outcome, watch>>

\* The deferred calls: close(stop), then Unlock.  A watcher that has not
\* broadcast outlives the call.
LeavePop(p) == /\ pc[p] = "leave"
               /\ watching' = [watching EXCEPT ![p] = FALSE]
               /\ strays' = [strays EXCEPT ![p] = @ + IF watching[p] THEN 1 ELSE 0]
               /\ Release
               /\ Goto(p, "idle")
               /\ UNCHANGED <<buf, waiting, offer, outcome, cancelled>>

---------------------------------------------------------------------------
(* The context and its watchers *)

Cancel(p) == /\ ~cancelled[p]
             /\ cancelled' = [cancelled EXCEPT ![p] = TRUE]
             /\ UNCHANGED <<queue, calls, watching, strays>>

\* Mutant: broadcast without taking the mutex.
BroadcastUnlocked(p) == /\ cancelled[p]
                        /\ waiting' = {}
                        /\ UNCHANGED <<mu, buf, calls, cancelled>>

\* select took ctx.Done(): Lock, Broadcast, Unlock.
Broadcast(p) == /\ cancelled[p]
                /\ mu = Free
                /\ waiting' = {}
                /\ UNCHANGED <<mu, buf, calls, cancelled>>

WatcherWakes(p) == /\ watching[p]
                   /\ Broadcast(p)
                   /\ watching' = [watching EXCEPT ![p] = FALSE]
                   /\ UNCHANGED strays

\* Mutant: a watcher that has ended broadcasts once more.
StrayWakesAgain(p) == /\ Broadcast(p)
                      /\ strays' = [strays EXCEPT ![p] = @ - 1]
                      /\ UNCHANGED watching

\* With both channels closed select takes either: a watcher whose call has
\* returned may still broadcast.
StrayWakes(p) == /\ strays[p] > 0
                 /\ Broadcast(p)
                 /\ strays' = [strays EXCEPT ![p] = @ - 1]
                 /\ UNCHANGED watching

StrayStops(p) == /\ strays[p] > 0
                 /\ strays' = [strays EXCEPT ![p] = @ - 1]
                 /\ UNCHANGED <<queue, calls, cancelled, watching>>

---------------------------------------------------------------------------

Init == /\ mu = Free
        /\ buf = <<>>
        /\ waiting = {}
        /\ pc = [t \in Threads |-> "idle"]
        /\ offer = [e \in Producers |-> NoJob]
        /\ outcome = [p \in Poppers |-> "none"]
        /\ cancelled = [p \in Poppers |-> FALSE]
        /\ watching = [p \in Poppers |-> FALSE]
        /\ strays = [p \in Poppers |-> 0]

Enqueue(e) == EnqueueAppend(e) \/ EnqueueSignal(e)

Pop(p) == \/ EnterPop(p) \/ TakeJob(p) \/ GiveUp(p) \/ FindNothing(p)
          \/ Wait(p) \/ Wake(p) \/ LeavePop(p)

Watcher(p) == WatcherWakes(p) \/ StrayWakes(p) \/ StrayStops(p)

Next == \/ \E e \in Producers : Enqueue(e) \/ \E j \in Jobs : CallEnqueue(e, j)
        \/ \E p \in Poppers : CallPop(p) \/ Pop(p) \/ Cancel(p) \/ Watcher(p)

SafeSpec == Init /\ [][Next]_vars

\* A started goroutine is scheduled again, and sync.Mutex hands itself to a
\* thread that has waited for more than a millisecond (its starvation mode),
\* so a thread for which the mutex is free again and again takes it.  Nothing
\* makes a caller call, or a context end.
Fairness == /\ \A e \in Producers : SF_vars(EnqueueAppend(e)) /\ WF_vars(EnqueueSignal(e))
            /\ \A p \in Poppers : /\ SF_vars(EnterPop(p)) /\ SF_vars(Wake(p))
                                  /\ WF_vars(TakeJob(p) \/ GiveUp(p) \/ FindNothing(p))
                                  /\ WF_vars(Wait(p)) /\ WF_vars(LeavePop(p))
                                  /\ SF_vars(WatcherWakes(p))
                                  /\ WF_vars(StrayStops(p))

Spec == SafeSpec /\ Fairness

---------------------------------------------------------------------------
(* Properties *)

PopperPlaces   == {"idle", "lock", "test", "wait", "asleep", "leave"}
ProducerPlaces == {"idle", "lock", "signal"}

\* The type of every variable (the fields of Memory and the locals of Pop and
\* Enqueue).
TypeOK == /\ mu \in Threads \cup {Free}
          /\ buf \in Seq(Jobs)
          /\ waiting \subseteq Poppers
          /\ pc \in [Threads -> PopperPlaces \cup ProducerPlaces]
          /\ \A p \in Poppers : pc[p] \in PopperPlaces
          /\ \A e \in Producers : pc[e] \in ProducerPlaces
          /\ \A e \in Producers : pc[e] = "lock" <=> offer[e] \in Jobs
          /\ offer \in [Producers -> Jobs \cup {NoJob}]
          /\ outcome \in [Poppers -> Jobs \cup Outcomes]
          /\ cancelled \in [Poppers -> BOOLEAN]
          /\ watching \in [Poppers -> BOOLEAN]
          /\ strays \in [Poppers -> Nat]

\* Threads that will still look at the buffer, or wake one that will, without
\* any further call.
Awake == {p \in Poppers : pc[p] \in {"lock", "test"}}
         \cup {p \in Poppers : pc[p] = "asleep" /\ p \notin waiting}
         \cup {e \in Producers : pc[e] = "signal"}

\* No lost wakeup (Enqueue signals once per job, queue.go:57): while a caller
\* sleeps in Pop, every job in the buffer has a thread of its own that is on
\* its way to it.
NoLostWakeup == waiting # {} => Len(buf) <= Cardinality(Awake)

\* No lost cancellation (queue.go:66-77): a caller that is about to sleep, or
\* sleeps, with its context done still has a watcher that will broadcast after
\* it fell asleep.
CancelReaches == \A p \in Poppers :
    /\ pc[p] = "wait" => watching[p]
    /\ p \in waiting => watching[p]

\* What a thread that is inside a critical section, or past one, can rely on:
\* the part of the inductive invariant that the safety properties rest on.
MutexHeld == \A t \in Threads : pc[t] \in {"signal", "test", "wait", "leave"} <=> mu = t

EmptyWhenWaiting == \A p \in Poppers : pc[p] = "wait" => buf = <<>>

ListedAreAsleep == \A p \in waiting : pc[p] = "asleep"

\* A call whose watcher has gone was cancelled.
Watched == \A p \in Poppers :
              pc[p] \in {"test", "wait", "asleep"} => watching[p] \/ cancelled[p]

Answered == \A p \in Poppers :
               outcome[p] = "waiting" <=> pc[p] \in {"lock", "test", "wait", "asleep"}

Inv == /\ TypeOK /\ MutexHeld /\ EmptyWhenWaiting /\ ListedAreAsleep
       /\ Watched /\ Answered /\ CancelReaches /\ NoLostWakeup

\* The queue seen by its callers: the job of an Enqueue call enters at the
\* append, Pop's answer is fixed when it is computed.
Fifo == INSTANCE FifoQueue WITH items <- buf

\* Memory implements Queue (queue.go:28-32, "Goroutine-safe" at 37): FIFO, each
\* job to one caller, no job lost, an error only for a cancelled caller and only
\* when there is no job; and, under fairness, a job meets a caller that waits and
\* a cancelled caller is answered (queue.go:61).
ImplementsFifo == Fifo!Spec
=============================================================================
