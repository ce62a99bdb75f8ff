---------------------------- MODULE JobQueueProofs ----------------------------
(***************************************************************************)
(* What JobQueue guarantees for every number of threads, every set of jobs *)
(* and every bound: its types, that no wakeup and no cancellation is lost, *)
(* and that every step is a step of the atomic FIFO or invisible to it.    *)
(***************************************************************************)
EXTENDS JobQueue, FiniteSetTheorems, TLAPS

\* The initial state has the declared types.
LEMMA InitType == Init => TypeOK
BY QueueAssumption DEF Init, TypeOK, Threads, PopperPlaces, ProducerPlaces, Outcomes

\* A step of Enqueue keeps every variable in its type.
LEMMA EnqueueType == ASSUME TypeOK, NEW e \in Producers,
                            Enqueue(e) \/ \E j \in Jobs : CallEnqueue(e, j)
                     PROVE  TypeOK'
<1> USE QueueAssumption DEF TypeOK, Threads, PopperPlaces, ProducerPlaces,
                            Goto, Acquire, Release, queue, watch
<1>1. CASE EnqueueAppend(e)
  <2>1. offer[e] \in Jobs
    BY <1>1 DEF EnqueueAppend
  <2>2. buf' \in Seq(Jobs)
    BY <1>1, <2>1 DEF EnqueueAppend
  <2> QED BY <1>1, <2>2 DEF EnqueueAppend
<1>2. CASE EnqueueSignal(e)
  BY <1>2 DEF EnqueueSignal, SignalOne
<1>3. CASE \E j \in Jobs : CallEnqueue(e, j)
  BY <1>3 DEF CallEnqueue
<1> QED BY <1>1, <1>2, <1>3 DEF Enqueue

\* A step of Pop keeps every variable in its type.
LEMMA PopType == ASSUME TypeOK, NEW p \in Poppers, Pop(p) \/ CallPop(p)
                 PROVE  TypeOK'
<1> USE QueueAssumption DEF TypeOK, Threads, Outcomes, PopperPlaces, ProducerPlaces,
                            Goto, Acquire, Release, queue, watch
<1>1. CASE EnterPop(p)
  BY <1>1 DEF EnterPop
<1>2. CASE TakeJob(p)
  <2>1. Head(buf) \in Jobs /\ Tail(buf) \in Seq(Jobs)
    BY <1>2 DEF TakeJob
  <2> QED BY <1>2, <2>1 DEF TakeJob
<1>3. CASE GiveUp(p)
  BY <1>3 DEF GiveUp
<1>4. CASE FindNothing(p)
  BY <1>4 DEF FindNothing
<1>5. CASE Wait(p)
  BY <1>5 DEF Wait
<1>6. CASE Wake(p)
  BY <1>6 DEF Wake
<1>7. CASE LeavePop(p)
  BY <1>7 DEF LeavePop
<1>8. CASE CallPop(p)
  BY <1>8 DEF CallPop
<1> QED BY <1>1, <1>2, <1>3, <1>4, <1>5, <1>6, <1>7, <1>8 DEF Pop

\* A cancellation, or a step of a watcher, keeps every variable in its type.
LEMMA WatcherType == ASSUME TypeOK, NEW p \in Poppers, Cancel(p) \/ Watcher(p)
                     PROVE  TypeOK'
<1> USE DEF TypeOK, queue, calls
<1>1. CASE Cancel(p)
  BY <1>1 DEF Cancel
<1>2. CASE WatcherWakes(p)
  BY <1>2 DEF WatcherWakes, Broadcast
<1>3. CASE StrayWakes(p)
  BY <1>3 DEF StrayWakes, Broadcast
<1>4. CASE StrayStops(p)
  BY <1>4 DEF StrayStops
<1> QED BY <1>1, <1>2, <1>3, <1>4 DEF Watcher

\* Every variable of Memory, of its callers and of their watchers keeps its
\* type, for any number of threads and jobs.
THEOREM TypeCorrect == SafeSpec => []TypeOK
<1>1. TypeOK /\ [Next]_vars => TypeOK'
  <2> SUFFICES ASSUME TypeOK, [Next]_vars PROVE TypeOK'
    OBVIOUS
  <2>1. CASE UNCHANGED vars
    BY <2>1 DEF vars, TypeOK
  <2>2. CASE Next
    BY <2>2, EnqueueType, PopType, WatcherType DEF Next
  <2> QED BY <2>1, <2>2
<1> QED BY InitType, <1>1, PTL DEF SafeSpec
---------------------------------------------------------------------------
\* The mutex and the places of the threads, without the counting.
Control == /\ MutexHeld /\ EmptyWhenWaiting /\ ListedAreAsleep
           /\ Watched /\ Answered /\ CancelReaches

\* A step of Enqueue keeps what threads rely on: it holds the mutex when it
\* changes the buffer or the notify list.
LEMMA EnqueueControl == ASSUME TypeOK, Control, NEW e \in Producers,
                               Enqueue(e) \/ \E j \in Jobs : CallEnqueue(e, j)
                        PROVE  Control'
<1> USE QueueAssumption DEF Control, TypeOK, Threads, Goto, Acquire, Release,
        queue, watch, MutexHeld, EmptyWhenWaiting, ListedAreAsleep, Watched,
        Answered, CancelReaches
<1>1. CASE EnqueueAppend(e)
  BY <1>1 DEF EnqueueAppend
<1>2. CASE EnqueueSignal(e)
  BY <1>2 DEF EnqueueSignal, SignalOne
<1>3. CASE \E j \in Jobs : CallEnqueue(e, j)
  BY <1>3 DEF CallEnqueue
<1> QED BY <1>1, <1>2, <1>3 DEF Enqueue

\* A step of Pop keeps it: a thread goes to sleep only after it has found the
\* buffer empty and its context live, with the mutex held throughout.
LEMMA PopControl == ASSUME TypeOK, Control, NEW p \in Poppers, Pop(p) \/ CallPop(p)
                    PROVE  Control'
<1> USE QueueAssumption DEF Control, TypeOK, Threads, Goto, Acquire, Release,
        queue, watch, MutexHeld, EmptyWhenWaiting, ListedAreAsleep, Watched,
        Answered, CancelReaches
<1>1. CASE EnterPop(p)
  BY <1>1 DEF EnterPop
<1>2. CASE TakeJob(p)
  <2>1. Head(buf) \in Jobs /\ "waiting" \notin Jobs
    BY <1>2 DEF TakeJob, Outcomes
  <2> QED BY <1>2, <2>1 DEF TakeJob
<1>3. CASE GiveUp(p)
  BY <1>3 DEF GiveUp
<1>4. CASE FindNothing(p)
  BY <1>4 DEF FindNothing
<1>5. CASE Wait(p)
  BY <1>5 DEF Wait
<1>6. CASE Wake(p)
  BY <1>6 DEF Wake
<1>7. CASE LeavePop(p)
  BY <1>7 DEF LeavePop
<1>8. CASE CallPop(p)
  BY <1>8 DEF CallPop
<1> QED BY <1>1, <1>2, <1>3, <1>4, <1>5, <1>6, <1>7, <1>8 DEF Pop

\* A watcher keeps it: it broadcasts with the mutex free, so no thread is
\* between its test and its Wait.
LEMMA WatcherControl == ASSUME TypeOK, Control, NEW p \in Poppers, Cancel(p) \/ Watcher(p)
                        PROVE  Control'
<1> USE QueueAssumption DEF Control, TypeOK, Threads, queue, calls, MutexHeld,
        EmptyWhenWaiting, ListedAreAsleep, Watched, Answered, CancelReaches
<1>1. CASE Cancel(p)
  BY <1>1 DEF Cancel
<1>2. CASE WatcherWakes(p)
  BY <1>2 DEF WatcherWakes, Broadcast
<1>3. CASE StrayWakes(p)
  BY <1>3 DEF StrayWakes, Broadcast
<1>4. CASE StrayStops(p)
  BY <1>4 DEF StrayStops
<1> QED BY <1>1, <1>2, <1>3, <1>4 DEF Watcher
---------------------------------------------------------------------------
\* The threads on their way to the buffer can be counted.
LEMMA AwakeFinite == /\ IsFiniteSet(Awake) /\ Cardinality(Awake) \in Nat
                     /\ IsFiniteSet(Awake)' /\ Cardinality(Awake)' \in Nat
<1>1. IsFiniteSet(Threads)
  BY QueueAssumption, FS_Union DEF Threads
<1>2. Awake \subseteq Threads /\ Awake' \subseteq Threads
  BY DEF Awake, Threads
<1> QED BY <1>1, <1>2, FS_Subset, FS_CardinalityType

\* A producer that has appended its job is on its way to wake a sleeper, and
\* the sleeper it wakes takes its place.
LEMMA EnqueueWakeup == ASSUME TypeOK, Control, NoLostWakeup, NEW e \in Producers,
                              Enqueue(e) \/ \E j \in Jobs : CallEnqueue(e, j)
                       PROVE  NoLostWakeup'
<1> USE QueueAssumption DEF TypeOK, Threads, Goto, queue, watch
<1>1. CASE EnqueueAppend(e)
  <2>1. e \notin Awake /\ Awake' = Awake \cup {e}
    BY <1>1 DEF EnqueueAppend, Awake
  <2>2. Cardinality(Awake') = Cardinality(Awake) + 1
    BY <2>1, AwakeFinite, FS_AddElement
  <2>3. offer[e] \in Jobs /\ waiting' = waiting
    BY <1>1 DEF EnqueueAppend
  <2>4. Len(buf') = Len(buf) + 1 /\ Len(buf) \in Nat
    BY <1>1, <2>3 DEF EnqueueAppend
  <2> QED BY <2>2, <2>3, <2>4, AwakeFinite DEF NoLostWakeup
<1>2. CASE EnqueueSignal(e)
  <2>1. CASE waiting = {}
    BY <1>2, <2>1 DEF EnqueueSignal, SignalOne, NoLostWakeup
  <2>2. CASE waiting # {}
    <3>1. PICK p \in waiting : waiting' = waiting \ {p}
      BY <1>2, <2>2 DEF EnqueueSignal, SignalOne
    <3>2. p \in Poppers /\ pc[p] = "asleep" /\ p # e
      BY <1>2 DEF EnqueueSignal, Control, ListedAreAsleep
    <3>3. e \in Awake /\ p \notin Awake
      BY <1>2, <3>2 DEF EnqueueSignal, Awake
    <3>4. Awake' = (Awake \ {e}) \cup {p}
      BY <1>2, <3>1, <3>2 DEF EnqueueSignal, Awake
    <3>5. /\ IsFiniteSet(Awake \ {e})
          /\ Cardinality(Awake \ {e}) = Cardinality(Awake) - 1
      BY <3>3, AwakeFinite, FS_RemoveElement
    <3>6. Cardinality(Awake') = Cardinality(Awake \ {e}) + 1
      BY <3>3, <3>4, <3>5, FS_AddElement
    <3>7. buf' = buf /\ Len(buf) <= Cardinality(Awake)
      BY <1>2, <2>2 DEF EnqueueSignal, NoLostWakeup
    <3> QED BY <3>5, <3>6, <3>7, AwakeFinite DEF NoLostWakeup
  <2> QED BY <2>1, <2>2
<1>3. CASE \E j \in Jobs : CallEnqueue(e, j)
  <2>1. Awake' = Awake /\ waiting' = waiting /\ buf' = buf
    BY <1>3 DEF CallEnqueue, Awake
  <2> QED BY <2>1 DEF NoLostWakeup
<1> QED BY <1>1, <1>2, <1>3 DEF Enqueue

\* A popper stops being on its way when it takes one job, or when there is none.
LEMMA PopWakeup == ASSUME TypeOK, Control, NoLostWakeup, NEW p \in Poppers,
                          Pop(p) \/ CallPop(p)
                   PROVE  NoLostWakeup'
<1> USE QueueAssumption DEF TypeOK, Threads, Goto, queue, watch
<1>1. CASE EnterPop(p)
  <2>1. Awake' = Awake /\ waiting' = waiting /\ buf' = buf
    BY <1>1 DEF EnterPop, Awake
  <2> QED BY <2>1 DEF NoLostWakeup
<1>2. CASE TakeJob(p)
  <2>1. p \in Awake /\ Awake' = Awake \ {p}
    BY <1>2 DEF TakeJob, Awake
  <2>2. Cardinality(Awake') = Cardinality(Awake) - 1
    BY <2>1, AwakeFinite, FS_RemoveElement
  <2>3. Len(buf') = Len(buf) - 1 /\ Len(buf) \in Nat /\ waiting' = waiting
    BY <1>2 DEF TakeJob
  <2> QED BY <2>2, <2>3, AwakeFinite DEF NoLostWakeup
<1>3. CASE GiveUp(p) \/ FindNothing(p) \/ Wait(p)
  <2>1. buf' = <<>>
    BY <1>3 DEF GiveUp, FindNothing, Wait, Control, EmptyWhenWaiting
  <2>2. Len(buf') = 0
    BY <2>1
  <2> QED BY <2>2, AwakeFinite DEF NoLostWakeup
<1>4. CASE Wake(p)
  <2>1. Awake' = Awake /\ waiting' = waiting /\ buf' = buf
    BY <1>4 DEF Wake, Awake
  <2> QED BY <2>1 DEF NoLostWakeup
<1>5. CASE LeavePop(p)
  <2>1. Awake' = Awake /\ waiting' = waiting /\ buf' = buf
    BY <1>5 DEF LeavePop, Awake
  <2> QED BY <2>1 DEF NoLostWakeup
<1>6. CASE CallPop(p)
  <2>1. p \notin Awake /\ Awake' = Awake \cup {p} /\ waiting' = waiting /\ buf' = buf
    BY <1>6 DEF CallPop, Awake, Control, ListedAreAsleep
  <2>2. Cardinality(Awake') = Cardinality(Awake) + 1
    BY <2>1, AwakeFinite, FS_AddElement
  <2>3. Len(buf) \in Nat
    OBVIOUS
  <2> QED BY <2>1, <2>2, <2>3, AwakeFinite DEF NoLostWakeup
<1> QED BY <1>1, <1>2, <1>3, <1>4, <1>5, <1>6 DEF Pop

\* A broadcast leaves nobody asleep; the other steps of a watcher touch neither
\* the buffer nor the threads.
LEMMA WatcherWakeup == ASSUME NoLostWakeup, NEW p \in Poppers, Cancel(p) \/ Watcher(p)
                       PROVE  NoLostWakeup'
BY DEF NoLostWakeup, Awake, Cancel, Watcher, WatcherWakes, StrayWakes, StrayStops,
       Broadcast, queue, calls

---------------------------------------------------------------------------
\* The invariant holds at the start and every step keeps it.
LEMMA Inductive == /\ Init => Inv
                   /\ Inv /\ [Next]_vars => Inv'
<1>1. Init => Inv
  <2> SUFFICES ASSUME Init PROVE Inv
    OBVIOUS
  <2>1. TypeOK
    BY InitType
  <2>2. Control
    BY QueueAssumption DEF Control, Init, MutexHeld, EmptyWhenWaiting, ListedAreAsleep,
       Watched, Answered, CancelReaches, Threads
  <2>3. NoLostWakeup
    BY DEF Init, NoLostWakeup
  <2> QED BY <2>1, <2>2, <2>3 DEF Inv, Control
<1>2. ASSUME Inv, [Next]_vars PROVE Inv'
  <2>1. TypeOK /\ Control /\ NoLostWakeup
    BY <1>2 DEF Inv, Control
  <2>2. CASE UNCHANGED vars
    BY <2>1, <2>2 DEF vars, Inv, TypeOK, Control, MutexHeld, EmptyWhenWaiting,
       ListedAreAsleep, Watched, Answered, CancelReaches, NoLostWakeup, Awake
  <2>3. CASE \E e \in Producers : Enqueue(e) \/ \E j \in Jobs : CallEnqueue(e, j)
    BY <2>1, <2>3, EnqueueType, EnqueueControl, EnqueueWakeup DEF Inv, Control
  <2>4. CASE \E p \in Poppers : CallPop(p) \/ Pop(p)
    BY <2>1, <2>4, PopType, PopControl, PopWakeup DEF Inv, Control
  <2>5. CASE \E p \in Poppers : Cancel(p) \/ Watcher(p)
    BY <2>1, <2>5, WatcherType, WatcherControl, WatcherWakeup DEF Inv, Control
  <2> QED BY <1>2, <2>2, <2>3, <2>4, <2>5 DEF Next
<1> QED BY <1>1, <1>2

LEMMA Invariance == SafeSpec => []Inv
BY Inductive, PTL DEF SafeSpec

\* While a caller sleeps in Pop, every job in the buffer has a thread on its way
\* to it (Enqueue signals once per job, queue.go:57).
THEOREM NoWakeupLost == SafeSpec => []NoLostWakeup
BY Invariance, PTL DEF Inv

\* A caller asleep in Pop with its context done has a watcher that will broadcast
\* (queue.go:66-77).
THEOREM NoCancelLost == SafeSpec => []CancelReaches
BY Invariance, PTL DEF Inv
---------------------------------------------------------------------------
\* A step of the threads is a step of the atomic queue, or leaves it as it is:
\* a job enters at the append, and Pop's answer is fixed where it is computed.
LEMMA StepRefines == Inv /\ [Next]_vars => [Fifo!Next]_Fifo!vars
<1> SUFFICES ASSUME Inv, [Next]_vars PROVE Fifo!Next \/ UNCHANGED Fifo!vars
  BY DEF Fifo!vars
<1> USE QueueAssumption DEF Inv, TypeOK, Fifo!vars, queue, calls, watch
<1>1. CASE UNCHANGED vars
  BY <1>1 DEF vars
<1>2. ASSUME NEW e \in Producers, NEW j \in Jobs, CallEnqueue(e, j) PROVE Fifo!Next
  <2>1. offer[e] = NoJob
    BY <1>2 DEF CallEnqueue
  <2>2. Fifo!Offer(e, j)
    BY <1>2, <2>1 DEF CallEnqueue, Fifo!Offer
  <2> QED BY <2>2 DEF Fifo!Next
<1>3. ASSUME NEW e \in Producers, Enqueue(e) PROVE Fifo!Next \/ UNCHANGED Fifo!vars
  <2>1. CASE EnqueueAppend(e)
    <3>1. Fifo!Accept(e)
      BY <2>1 DEF EnqueueAppend, Fifo!Accept
    <3> QED BY <3>1 DEF Fifo!Next
  <2>2. CASE EnqueueSignal(e)
    BY <2>2 DEF EnqueueSignal
  <2> QED BY <1>3, <2>1, <2>2 DEF Enqueue
<1>4. ASSUME NEW p \in Poppers, CallPop(p) PROVE Fifo!Next
  <2>1. Fifo!Ask(p)
    BY <1>4 DEF CallPop, Answered, Fifo!Ask
  <2> QED BY <2>1 DEF Fifo!Next
<1>5. ASSUME NEW p \in Poppers, Pop(p) PROVE Fifo!Next \/ UNCHANGED Fifo!vars
  <2>1. CASE TakeJob(p)
    <3>1. Fifo!Serve(p)
      BY <2>1 DEF TakeJob, Answered, Fifo!Serve
    <3> QED BY <3>1 DEF Fifo!Next
  <2>2. CASE GiveUp(p)
    <3>1. Fifo!Refuse(p)
      BY <2>2 DEF GiveUp, Answered, Fifo!Refuse
    <3> QED BY <3>1 DEF Fifo!Next
  <2>3. CASE EnterPop(p) \/ FindNothing(p) \/ Wait(p) \/ Wake(p) \/ LeavePop(p)
    BY <2>3 DEF EnterPop, FindNothing, Wait, Wake, LeavePop
  <2> QED BY <1>5, <2>1, <2>2, <2>3 DEF Pop
<1>6. ASSUME NEW p \in Poppers, Cancel(p) PROVE Fifo!Next
  <2>1. Fifo!Cancel(p)
    BY <1>6 DEF Cancel, Fifo!Cancel
  <2> QED BY <2>1 DEF Fifo!Next
<1>7. ASSUME NEW p \in Poppers, Watcher(p) PROVE UNCHANGED Fifo!vars
  BY <1>7 DEF Watcher, WatcherWakes, StrayWakes, StrayStops, Broadcast
<1> QED BY <1>1, <1>2, <1>3, <1>4, <1>5, <1>6, <1>7 DEF Next

\* Memory implements Queue (queue.go:28-32): with any number of callers it is the
\* FIFO queue on which every call takes effect at one instant.  The fairness part
\* of ImplementsFifo is left to model checking.
THEOREM MemoryIsFifo == SafeSpec => Fifo!SafeSpec
<1>1. Init => Fifo!Init
  BY DEF Init, Fifo!Init
<1> QED BY <1>1, StepRefines, Invariance, PTL DEF SafeSpec, Fifo!SafeSpec
=============================================================================
