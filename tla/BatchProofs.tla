---------------------------- MODULE BatchProofs ----------------------------
(***************************************************************************)
(* What run_batch and summarize guarantee for every batch, every number of *)
(* workers and every outcome of the jobs.                                  *)
(***************************************************************************)
EXTENDS Batch, FiniteSetTheorems, TLAPS

Outcomes == [how : {"output", "error", "fatal"}, took : Durations]

\* The types of run_batch's variables.
BatchTypeOK ==
    /\ jobs \in Seq(JobIds)
    /\ max_workers \in Int
    /\ caller \in {"called", "submitting", "collecting", "cancelling", "closing", "returned", "raised"}
    /\ next \in 1 .. Len(jobs) + 1 /\ last \in 0 .. Len(jobs)
    /\ cause \in {"none", "fatal", "interrupt", "uncancelled"}
    /\ future \in [Index -> {"none", "pending", "running", "finished", "cancelled"}]
    /\ DOMAIN ran = Index /\ \A i \in Index : future[i] = "finished" => ran[i] \in Outcomes
    /\ DOMAIN results = Index /\ results = [i \in Index |-> results[i]]

\* Before the loop no result is passed; a call that raises was ended early.
Phases ==
    /\ caller = "called" => \A i \in Index : future[i] = "none"
    /\ caller \in {"called", "submitting"} => next = 1
    /\ caller \in {"called", "submitting", "collecting", "returned"} => cause = "none"
    /\ caller \in {"cancelling", "raised"} => cause # "none"

\* The results kept so far are those of the jobs passed, which ended well.
Collected == \A i \in Index : i < next => /\ future[i] = "finished"
                                          /\ ran[i].how # "fatal"
                                          /\ results[i] = One(i)

\* A loop that ended by itself passed every job; one that a failure ended stands at it.
Ends == /\ cause = "none" /\ caller \in {"closing", "returned"} => next = Len(jobs) + 1
        /\ cause = "fatal" => /\ next \in Index
                              /\ future[next] = "finished" /\ ran[next].how = "fatal"

\* The calls behind the one that is cancelled next wait no more, nor do those passed.
Cancelled == cause \in {"fatal", "interrupt"} =>
                \A i \in Index : (i < next \/ i > last \/ caller # "cancelling") =>
                                     future[i] # "pending"

Inv == BatchTypeOK /\ Phases /\ Collected /\ Ends /\ Cancelled

\* The invariant holds at the call.
LEMMA InvInit == Init => Inv
<1> SUFFICES ASSUME Init PROVE Inv
  OBVIOUS
<1>1. jobs \in Seq(JobIds) /\ max_workers \in Int
  BY BatchAssumption DEF Init
<1>2. BatchTypeOK
  BY <1>1 DEF Init, BatchTypeOK, Index
<1> QED BY <1>1, <1>2 DEF Init, Inv, Phases, Collected, Ends, Cancelled, Index

\* A pool has a worker, whatever max_workers is.
LEMMA PoolHasWorker == Inv => PoolSize >= 1
BY DEF Inv, BatchTypeOK, PoolSize

\* Once run_batch has returned, every call is over.
LEMMA AllOver ==
    ASSUME Inv, caller = "returned", NEW i \in Index
    PROVE  future[i] = "finished"
BY DEF Inv, BatchTypeOK, Phases, Collected, Ends, Index

\* The steps of the pool keep the invariant.
LEMMA WorkKeeps == Inv /\ Work => Inv'
<1> SUFFICES ASSUME Inv, Work PROVE Inv'
  OBVIOUS
<1> USE DEF Inv, Index, callerVars
<1>1. CASE Take
  <2>1. PICK i \in Pending : future' = [future EXCEPT ![i] = "running"]
    BY <1>1 DEF Take
  <2>2. BatchTypeOK'
    BY <1>1, <2>1 DEF Take, BatchTypeOK, Pending
  <2>3. Phases' /\ Ends' /\ Cancelled'
    BY <1>1, <2>1 DEF Take, BatchTypeOK, Phases, Ends, Cancelled, Pending
  <2>4. Collected'
    BY <1>1, <2>1 DEF Take, BatchTypeOK, Collected, One, Pending
  <2> QED BY <2>2, <2>3, <2>4
<1>2. ASSUME NEW i \in Index, NEW how \in {"output", "error", "fatal"}, NEW took \in Durations,
             Finish(i, how, took)
      PROVE  Inv'
  <2>1. BatchTypeOK'
    BY <1>2 DEF Finish, BatchTypeOK, Outcomes
  <2>2. Phases' /\ Ends' /\ Cancelled'
    BY <1>2 DEF Finish, BatchTypeOK, Phases, Ends, Cancelled
  <2>3. Collected'
    BY <1>2 DEF Finish, BatchTypeOK, Collected, One
  <2> QED BY <2>1, <2>2, <2>3
<1> QED BY <1>1, <1>2 DEF Work

\* The way into the loop keeps the invariant.
LEMMA EntryKeeps == Inv /\ (ReturnEmpty \/ Open \/ Submit \/ LoopStarts) => Inv'
<1> USE DEF Inv, Index, poolVars
<1>1. ASSUME Inv, ReturnEmpty PROVE Inv'
  BY <1>1 DEF ReturnEmpty, BatchTypeOK, Phases, Collected, Ends, Cancelled, One
<1>2. ASSUME Inv, Open PROVE Inv'
  <2>1. caller = "called" /\ caller' = "submitting"
    BY <1>2, PoolHasWorker DEF Open
  <2> QED BY <1>2, <2>1 DEF Open, BatchTypeOK, Phases, Collected, Ends, Cancelled, One
<1>3. ASSUME Inv, Submit PROVE Inv'
  <2>1. PICK i \in Index : future[i] = "none" /\ future' = [future EXCEPT ![i] = "pending"]
    BY <1>3 DEF Submit
  <2>2. caller = "submitting" /\ next = 1 /\ cause = "none"
    BY <1>3 DEF Submit, Phases
  <2>3. UNCHANGED <<jobs, max_workers, ran, caller, next, last, cause, results, summary>>
    BY <1>3 DEF Submit, callerVars
  <2>4. BatchTypeOK' /\ Phases' /\ Ends' /\ Cancelled'
    BY <1>3, <2>1, <2>2, <2>3 DEF BatchTypeOK, Phases, Ends, Cancelled
  <2>5. Collected'
    BY <1>3, <2>1, <2>2, <2>3 DEF BatchTypeOK, Collected, One
  <2> QED BY <2>4, <2>5
<1>4. ASSUME Inv, LoopStarts PROVE Inv'
  BY <1>4 DEF LoopStarts, BatchTypeOK, Phases, Collected, Ends, Cancelled, One
<1> QED BY <1>1, <1>2, <1>3, <1>4

\* Asking for a result keeps the invariant, whatever comes of it.
LEMMA AskKeeps == Inv /\ (Collect \/ CollectFatal \/ LoopEnds) => Inv'
<1> USE DEF Inv, Index, poolVars
<1>1. ASSUME Inv, Collect PROVE Inv'
  <2>1. BatchTypeOK'
    <3>1. results' = [i \in Index |-> results'[i]] /\ DOMAIN results' = Index
      BY <1>1 DEF Collect, BatchTypeOK
    <3> QED BY <1>1, <3>1 DEF Collect, BatchTypeOK
  <2>2. Phases' /\ Ends' /\ Cancelled'
    BY <1>1 DEF Collect, BatchTypeOK, Phases, Ends, Cancelled
  <2>3. Collected'
    BY <1>1 DEF Collect, BatchTypeOK, Collected, One
  <2> QED BY <2>1, <2>2, <2>3
<1>2. ASSUME Inv, CollectFatal PROVE Inv'
  <2>1. BatchTypeOK' /\ Phases'
    BY <1>2 DEF CollectFatal, Break, BatchTypeOK, Phases
  <2>2. Collected' /\ Ends'
    BY <1>2 DEF CollectFatal, Break, BatchTypeOK, Collected, Ends, One
  <2>3. Cancelled'
    BY <1>2 DEF CollectFatal, Break, BatchTypeOK, Collected, Cancelled
  <2> QED BY <2>1, <2>2, <2>3
<1>3. ASSUME Inv, LoopEnds PROVE Inv'
  BY <1>3 DEF LoopEnds, BatchTypeOK, Phases, Collected, Ends, Cancelled, One
<1> QED BY <1>1, <1>2, <1>3

\* So does an interrupt, wherever it strikes.
LEMMA InterruptKeeps == Inv /\ Interrupt => Inv'
<1> USE DEF Inv, Index, poolVars
<1>1. ASSUME Inv, InterruptSubmit \/ InterruptCancel PROVE Inv'
  BY <1>1 DEF InterruptSubmit, InterruptCancel, BatchTypeOK, Phases, Collected, Ends, Cancelled, One
<1>2. ASSUME Inv, InterruptLoop PROVE Inv'
  <2>1. /\ \/ future' = future
           \/ next <= Len(jobs) /\ future' = [future EXCEPT ![next] = IF @ = "pending" THEN "cancelled" ELSE @]
        /\ caller = "collecting" /\ caller' = "cancelling" /\ cause' = "interrupt" /\ last' = Len(jobs)
        /\ UNCHANGED <<jobs, max_workers, ran, next, results>>
    BY <1>2 DEF InterruptLoop, Break
  <2>2. BatchTypeOK' /\ Phases'
    BY <1>2, <2>1 DEF BatchTypeOK, Phases
  <2>3. Collected' /\ Ends'
    BY <1>2, <2>1 DEF BatchTypeOK, Collected, Ends, One
  <2>4. Cancelled'
    BY <1>2, <2>1 DEF BatchTypeOK, Collected, Cancelled
  <2> QED BY <2>2, <2>3, <2>4
<1>3. ASSUME Inv, InterruptClose PROVE Inv'
  <2>1. BatchTypeOK' /\ Phases' /\ Collected' /\ Ends'
    BY <1>3 DEF InterruptClose, BatchTypeOK, Phases, Collected, Ends, One
  <2>2. Cancelled'
    <3>1. CASE cause = "none"
      BY <1>3, <3>1 DEF InterruptClose, BatchTypeOK, Collected, Ends, Cancelled
    <3>2. CASE cause # "none"
      BY <1>3, <3>2 DEF InterruptClose, BatchTypeOK, Cancelled
    <3> QED BY <3>1, <3>2
  <2> QED BY <2>1, <2>2
<1> QED BY <1>1, <1>2, <1>3 DEF Interrupt

\* The other steps of run_batch, and summarize, keep the invariant.
LEMMA RunKeeps == Inv /\ Run => Inv'
<1> SUFFICES ASSUME Inv, Run PROVE Inv'
  OBVIOUS
<1>1. CASE CancelRest
  <2> USE DEF Inv, Index, poolVars
  <2>1. BatchTypeOK' /\ Phases'
    BY <1>1 DEF CancelRest, BatchTypeOK, Phases
  <2>2. Collected' /\ Ends'
    BY <1>1 DEF CancelRest, BatchTypeOK, Phases, Collected, Ends, One
  <2>3. Cancelled'
    BY <1>1 DEF CancelRest, BatchTypeOK, Phases, Cancelled
  <2> QED BY <2>1, <2>2, <2>3
<1>2. CASE Leave
  BY <1>2 DEF Leave, BatchTypeOK, Phases, Collected, Ends, Cancelled, One, Inv, Index, poolVars
<1>3. CASE Summarize
  BY <1>3 DEF Summarize, BatchTypeOK, Phases, Collected, Ends, Cancelled, One, Inv, Index, poolVars
<1> QED BY <1>1, <1>2, <1>3, EntryKeeps, AskKeeps, InterruptKeeps DEF Run

\* Every step keeps the invariant.
LEMMA InvStep == Inv /\ [Next]_vars => Inv'
<1> SUFFICES ASSUME Inv, [Next]_vars PROVE Inv'
  OBVIOUS
<1>1. CASE UNCHANGED vars
  BY <1>1 DEF vars, poolVars, callerVars, Inv, BatchTypeOK, Phases, Collected, Ends, Cancelled,
              One, Index
<1> QED BY <1>1, WorkKeeps, RunKeeps DEF Next

\* So it always holds.
LEMMA Invariance == Spec => []Inv
BY InvInit, InvStep, PTL DEF Spec

---------------------------------------------------------------------------
\* run_batch returns one result per job, each at its job's place, and raises only for
\* an interrupt or for a failure it does not catch (batch.py:41-72).
THEOREM ResultsInOrder == Spec => []ResultsMatchInput
<1>1. Inv => ResultsMatchInput
  <2> SUFFICES ASSUME Inv PROVE ResultsMatchInput
    OBVIOUS
  <2>1. ASSUME caller = "returned", NEW i \in Index
        PROVE  /\ future[i] = "finished" /\ ran[i].how \in {"output", "error"}
               /\ results[i] = One(i)
    BY <2>1 DEF Inv, BatchTypeOK, Phases, Collected, Ends, Index, Outcomes
  <2>2. ASSUME caller = "raised"
        PROVE  \/ cause \in {"interrupt", "uncancelled"}
               \/ cause = "fatal" /\ \E i \in Index : future[i] = "finished" /\ ran[i].how = "fatal"
    BY <2>2 DEF Inv, BatchTypeOK, Phases, Ends
  <2>3. ASSUME NEW i \in Index
        PROVE  /\ One(i).job_id = jobs[i]
               /\ One(i).duration_ms = ran[i].took
               /\ One(i).output = IF ran[i].how = "output" THEN i ELSE 0
               /\ One(i).error = IF ran[i].how = "error" THEN i ELSE 0
    BY DEF One
  <2>4. ASSUME NEW i \in Index
        PROVE  One(i).succeeded <=> ran[i].how = "output"
    BY Zenon DEF One
  <2>5. ASSUME caller = "returned", NEW i \in Index
        PROVE  <<results[i].output, results[i].error>> =
                  IF ran[i].how = "output" THEN <<i, 0>> ELSE <<0, i>>
    BY <2>1, <2>3, <2>5
  <2> QED BY <2>1, <2>2, <2>3, <2>4, <2>5 DEF ResultsMatchInput
<1> QED BY <1>1, Invariance, PTL

\* A failure or an interrupt that ends the loop stops the batch, even when run_batch
\* is then left by another interrupt while jobs run (batch.py:69-72).
THEOREM FailureEndsBatch == Spec => FailureStops
<1>1. Inv /\ [Next]_vars =>
         [caller # "cancelling" /\ cause \in {"fatal", "interrupt"} => Started' = Started]_vars
  <2> SUFFICES ASSUME Inv, Next, cause \in {"fatal", "interrupt"}, caller # "cancelling"
               PROVE  Started' = Started
    BY DEF vars, poolVars, callerVars
  <2>1. Pending = {} /\ caller \notin {"called", "submitting", "collecting"}
    BY DEF Inv, BatchTypeOK, Phases, Cancelled, Pending
  <2>2. CASE Work
    <3>1. PICK i \in Index, how \in {"output", "error", "fatal"}, took \in Durations :
             Finish(i, how, took)
      BY <2>1, <2>2 DEF Work, Take
    <3> QED BY <3>1 DEF Finish, Started, Index, Inv, BatchTypeOK
  <2>3. CASE Run
    <3>1. jobs' = jobs /\ future' = future
      BY <2>1, <2>3 DEF Run, ReturnEmpty, Open, Submit, LoopStarts, Collect, CollectFatal, CancelRest,
                        LoopEnds, Leave, Summarize, Interrupt, InterruptSubmit, InterruptLoop,
                        InterruptCancel, InterruptClose, poolVars
    <3> QED BY <3>1 DEF Started, Index
  <2> QED BY <2>2, <2>3 DEF Next
<1> QED BY <1>1, Invariance, PTL DEF Spec, FailureStops

---------------------------------------------------------------------------
(* The median *)

\* The numbers of a finite interval, and a part of one.
LEMMA PartOfInterval ==
    ASSUME NEW a \in Int, NEW b \in Int, NEW S, S \subseteq a .. b
    PROVE  /\ IsFiniteSet(S) /\ Cardinality(S) \in Nat
           /\ a <= b => Cardinality(S) <= b - a + 1
           /\ a > b => Cardinality(S) = 0
<1>1. /\ IsFiniteSet(a .. b)
      /\ Cardinality(a .. b) = IF a > b THEN 0 ELSE b - a + 1
  BY FS_Interval
<1>2. IsFiniteSet(S) /\ Cardinality(S) <= Cardinality(a .. b)
  BY <1>1, FS_Subset
<1>3. Cardinality(S) \in Nat
  BY <1>2, FS_CardinalityType
<1> QED BY <1>1, <1>2, <1>3

\* The places whose value is before that of i, or the same and not behind i; their
\* number is where sorting puts i.
Before(d, i) == {j \in DOMAIN d : d[j] < d[i] \/ (d[j] = d[i] /\ j <= i)}
Place(d, i)  == Cardinality(Before(d, i))

\* A value that is before another has the smaller place.
LEMMA PlaceGrows ==
    ASSUME NEW n \in Nat, NEW d \in [1 .. n -> Int],
           NEW i \in 1 .. n, NEW j \in 1 .. n, d[i] < d[j] \/ (d[i] = d[j] /\ i < j)
    PROVE  Place(d, i) < Place(d, j)
<1>1. Before(d, i) \subseteq 1 .. n /\ Before(d, j) \subseteq 1 .. n
  BY DEF Before
<1>2. Before(d, i) \subseteq Before(d, j) /\ j \in Before(d, j) /\ j \notin Before(d, i)
  BY DEF Before
<1>3. /\ IsFiniteSet(Before(d, j)) /\ Place(d, j) \in Nat
      /\ IsFiniteSet(Before(d, i)) /\ Place(d, i) \in Nat
  <2>1. 1 \in Int /\ n \in Int
    OBVIOUS
  <2> QED BY <1>1, <2>1, PartOfInterval DEF Place
<1>4. /\ Place(d, i) <= Place(d, j)
      /\ Place(d, j) = Place(d, i) => Before(d, j) = Before(d, i)
  BY <1>2, <1>3, FS_Subset DEF Place
<1> QED BY <1>2, <1>3, <1>4

\* Any numbers can be put in order: each at its place.
LEMMA SortingExists ==
    ASSUME NEW n \in Nat, NEW d \in [1 .. n -> Int]
    PROVE  Sortings(d) # {}
<1> DEFINE D == 1 .. n
           place == [i \in D |-> Place(d, i)]
<1>1. ASSUME NEW i \in D PROVE Place(d, i) \in D
  <2>1. Before(d, i) \subseteq 1 .. n /\ i \in Before(d, i)
    BY DEF Before
  <2>2. IsFiniteSet(Before(d, i)) /\ Place(d, i) \in Nat /\ Place(d, i) <= n
    BY <2>1, PartOfInterval DEF Place
  <2>3. Place(d, i) # 0
    BY <2>1, <2>2, FS_EmptySet DEF Place
  <2> QED BY <2>2, <2>3
<1>2. ASSUME NEW i \in D, NEW j \in D, Place(d, i) = Place(d, j) PROVE i = j
  <2>1. Place(d, i) \in Int /\ d[i] \in Int /\ d[j] \in Int
    BY <1>1
  <2> QED BY <1>2, <2>1, PlaceGrows
<1>3. place \in Injection(D, D)
  <2>1. place \in [D -> D]
    BY <1>1
  <2>2. \A i, j \in D : place[i] = place[j] => i = j
    BY <1>2
  <2> HIDE DEF place, D
  <2> QED BY <2>1, <2>2 DEF Injection, IsInjective
<1>4. place \in Surjection(D, D)
  <2>1. IsFiniteSet(D)
    BY FS_Interval
  <2> HIDE DEF place, D
  <2> QED BY <1>3, <2>1, FS_Injection
<1>5. \A k \in D : \E i \in D : Place(d, i) = k
  <2>1. \A k \in D : \E i \in D : place[i] = k
    <3> HIDE DEF place, D
    <3> QED BY <1>4 DEF Surjection
  <2> QED BY <2>1
<1> DEFINE order == [k \in D |-> CHOOSE i \in D : Place(d, i) = k]
<1>6. \A k \in D : order[k] \in D /\ Place(d, order[k]) = k
  BY <1>5
<1>7. order \in [D -> D]
  BY <1>6
<1> HIDE DEF order
<1>8. \A i \in D : \E k \in D : order[k] = i
  BY <1>1, <1>2, <1>6
<1>9. ASSUME NEW k \in D, NEW l \in D, k <= l PROVE d[order[k]] <= d[order[l]]
  <2>1. d[order[k]] \in Int /\ d[order[l]] \in Int
    BY <1>7
  <2>2. ~ (d[order[l]] < d[order[k]])
    <3> SUFFICES ASSUME d[order[l]] < d[order[k]] PROVE FALSE
      OBVIOUS
    <3>1. Place(d, order[l]) < Place(d, order[k])
      BY <1>6, PlaceGrows
    <3> QED BY <1>6, <1>9, <3>1
  <2> QED BY <2>1, <2>2
<1>10. order \in Sortings(d)
  BY <1>7, <1>8, <1>9 DEF Sortings
<1> QED BY <1>10

\* A set whose members all have a place in a finite set is no larger than that.
LEMMA NoMoreThan ==
    ASSUME NEW S, NEW T, IsFiniteSet(T), NEW f, \A x \in S : \E y \in T : f[y] = x,
           \A y \in T : f[y] \in S
    PROVE  Cardinality(S) <= Cardinality(T)
<1> DEFINE g == [y \in T |-> f[y]]
<1>1. g \in [T -> S] /\ \A x \in S : \E y \in T : g[y] = x
  OBVIOUS
<1>2. g \in Surjection(T, S)
  <2> HIDE DEF g
  <2> QED BY <1>1 DEF Surjection
<1> HIDE DEF g
<1> QED BY <1>2, FS_Surjection

\* No more than half of the numbers are below m, nor above it.
Halved(n, d, m) == /\ 2 * Cardinality({i \in 1 .. n : d[i] < m}) <= n
                   /\ 2 * Cardinality({i \in 1 .. n : d[i] > m}) <= n

\* No more than half of the numbers are below the one in the middle, nor above it.
LEMMA MedianHalves ==
    ASSUME NEW n \in Nat, n > 0, NEW d \in [1 .. n -> Int], NEW order \in Sortings(d),
           NEW m, m = d[order[n \div 2 + 1]]
    PROVE  Halved(n, d, m)
<1> DEFINE h == n \div 2
           low == {i \in 1 .. n : d[i] < m}
           high == {i \in 1 .. n : d[i] > m}
           lowAt == {k \in 1 .. n : d[order[k]] < m}
           highAt == {k \in 1 .. n : d[order[k]] > m}
<1>1. h \in Nat /\ 2 * h <= n /\ n <= 2 * h + 1 /\ h + 1 \in 1 .. n
  OBVIOUS
<1>2. /\ order \in [1 .. n -> 1 .. n]
      /\ \A i \in 1 .. n : \E k \in 1 .. n : order[k] = i
      /\ \A k, l \in 1 .. n : k <= l => d[order[k]] <= d[order[l]]
  BY DEF Sortings
<1>0. m = d[order[h + 1]]
  OBVIOUS
<1> HIDE DEF h
<1>3. m \in Int /\ \A k \in 1 .. n : d[order[k]] \in Int
  BY <1>0, <1>1, <1>2
<1>4. lowAt \subseteq 1 .. h
  <2>1. ASSUME NEW k \in 1 .. n, k \in lowAt PROVE k \in 1 .. h
    <3>1. h + 1 <= k => m <= d[order[k]]
      BY <1>0, <1>1, <1>2
    <3>2. k <= h + 1 => d[order[k]] <= m
      BY <1>0, <1>1, <1>2
    <3>3. m \in Int /\ d[order[k]] \in Int
      BY <1>3
    <3> QED BY <1>1, <2>1, <3>1, <3>2, <3>3
  <2> QED BY <2>1
<1>5. highAt \subseteq h + 2 .. n
  <2>1. ASSUME NEW k \in 1 .. n, k \in highAt PROVE k \in h + 2 .. n
    <3>1. h + 1 <= k => m <= d[order[k]]
      BY <1>0, <1>1, <1>2
    <3>2. k <= h + 1 => d[order[k]] <= m
      BY <1>0, <1>1, <1>2
    <3>3. m \in Int /\ d[order[k]] \in Int
      BY <1>3
    <3> QED BY <1>1, <2>1, <3>1, <3>2, <3>3
  <2> QED BY <2>1
<1>6. /\ IsFiniteSet(lowAt) /\ Cardinality(lowAt) \in Nat /\ Cardinality(lowAt) <= h
      /\ IsFiniteSet(highAt) /\ Cardinality(highAt) \in Nat /\ Cardinality(highAt) <= n - h - 1
  <2> HIDE DEF lowAt, highAt
  <2>1. 1 \in Int /\ h \in Int /\ h + 2 \in Int /\ n \in Int
    BY <1>1
  <2>2. /\ IsFiniteSet(lowAt) /\ Cardinality(lowAt) \in Nat
        /\ 1 <= h => Cardinality(lowAt) <= h - 1 + 1
        /\ 1 > h => Cardinality(lowAt) = 0
    BY <1>4, <2>1, PartOfInterval
  <2>3. /\ IsFiniteSet(highAt) /\ Cardinality(highAt) \in Nat
        /\ h + 2 <= n => Cardinality(highAt) <= n - (h + 2) + 1
        /\ h + 2 > n => Cardinality(highAt) = 0
    BY <1>5, <2>1, PartOfInterval
  <2> QED BY <1>1, <2>2, <2>3
<1>7. Cardinality(low) <= Cardinality(lowAt)
  <2>1. /\ \A x \in low : \E y \in lowAt : order[y] = x
        /\ \A y \in lowAt : order[y] \in low
    BY <1>2
  <2> HIDE DEF low, lowAt
  <2> QED BY <1>6, <2>1, NoMoreThan
<1>8. Cardinality(high) <= Cardinality(highAt)
  <2>1. /\ \A x \in high : \E y \in highAt : order[y] = x
        /\ \A y \in highAt : order[y] \in high
    BY <1>2
  <2> HIDE DEF high, highAt
  <2> QED BY <1>6, <2>1, NoMoreThan
<1>9. Cardinality(low) \in Nat /\ Cardinality(high) \in Nat
  <2>1. low \subseteq 1 .. n /\ high \subseteq 1 .. n /\ 1 \in Int /\ n \in Int
    OBVIOUS
  <2> HIDE DEF low, high
  <2> QED BY <2>1, PartOfInterval
<1>10. 2 * Cardinality(low) <= n /\ 2 * Cardinality(high) <= n
  <2> HIDE DEF low, high, lowAt, highAt
  <2> QED BY <1>1, <1>6, <1>7, <1>8, <1>9
<1> QED BY <1>10 DEF Halved

\* What summarize returns for the results of a batch is right.
AddsUp(s) ==
    LET n == Len(jobs)
    IN  /\ s.total = n
        /\ s.succeeded = Cardinality({i \in Index : ran[i].how = "output"})
        /\ s.succeeded + s.failed = n
        /\ 2 * Cardinality({i \in Index : ran[i].took < s.median_ms}) <= n
        /\ 2 * Cardinality({i \in Index : ran[i].took > s.median_ms}) <= n

\* A summary was made from the results of a call that returned.
SumInv == summary # None => caller = "returned" /\ AddsUp(summary)

\* The results of a call that returned are those of its jobs.
LEMMA ResultsOf ==
    ASSUME Inv, caller = "returned"
    PROVE  /\ Len(jobs) \in Nat /\ Index = 1 .. Len(jobs)
           /\ Len(results) = Len(jobs) /\ DOMAIN results = Index
           /\ \A i \in Index : /\ ran[i].took \in Int
                               /\ results[i].duration_ms = ran[i].took
                               /\ results[i].succeeded <=> ran[i].how = "output"
<1>1. Len(jobs) \in Nat /\ Index = 1 .. Len(jobs)
  BY DEF Inv, BatchTypeOK, Index
<1>2. \A i \in Index : future[i] = "finished" /\ results[i] = One(i)
  BY <1>1 DEF Inv, BatchTypeOK, Phases, Collected, Ends
<1>3. results = [i \in 1 .. Len(jobs) |-> results[i]]
  BY <1>1 DEF Inv, BatchTypeOK
<1>4. results \in Seq({results[i] : i \in 1 .. Len(jobs)}) /\ Len(results) = Len(jobs)
  BY <1>1, <1>3
<1>5. \A i \in Index : ran[i].took \in Int
  BY <1>2, BatchAssumption DEF Inv, BatchTypeOK, Outcomes
<1>6. \A i \in Index : One(i).duration_ms = ran[i].took
  BY DEF One
<1>7. \A i \in Index : One(i).succeeded <=> ran[i].how = "output"
  BY Zenon DEF One
<1>8. \A i \in Index : results[i].succeeded <=> ran[i].how = "output"
  BY <1>2, <1>7, Zenon
<1> QED BY <1>1, <1>2, <1>3, <1>4, <1>5, <1>6, <1>8

\* Two parts that share nothing and make up an interval have its number of members.
LEMMA Split ==
    ASSUME NEW n \in Nat, NEW S, NEW T, S \cup T = 1 .. n, S \cap T = {}
    PROVE  Cardinality(S) + Cardinality(T) = n
<1>1. 1 \in Int /\ n \in Int /\ S \subseteq 1 .. n /\ T \subseteq 1 .. n
  OBVIOUS
<1>2. /\ IsFiniteSet(S) /\ IsFiniteSet(T)
      /\ Cardinality(S) \in Nat /\ Cardinality(T) \in Nat
  BY <1>1, PartOfInterval
<1>3. Cardinality(S \cup T) = Cardinality(S) + Cardinality(T) - Cardinality(S \cap T)
  BY <1>2, FS_Union
<1>4. Cardinality(S \cap T) = 0
  BY FS_EmptySet
<1>5. Cardinality(1 .. n) = n
  <2>1. Cardinality(1 .. n) = IF 1 > n THEN 0 ELSE n - 1 + 1
    BY <1>1, FS_Interval
  <2> QED BY <2>1
<1>6. Cardinality(S \cup T) = n
  BY <1>5
<1> QED BY <1>2, <1>3, <1>4, <1>6

\* The summary of the results of a call that returned adds up.
LEMMA SummarizeAddsUp == Inv /\ Summarize => AddsUp(summary')
<1> SUFFICES ASSUME Inv, Summarize PROVE AddsUp(summary')
  OBVIOUS
<1> DEFINE n == Len(jobs)
           good == {i \in Index : results[i].succeeded}
           bad == {i \in Index : ~results[i].succeeded}
           median == IF results = <<>> THEN 0 ELSE Median(results)
<1>1. caller = "returned" /\ summary' = [total |-> Len(results), succeeded |-> Cardinality(good),
                                         failed |-> Cardinality(bad), median_ms |-> median]
  BY DEF Summarize
<1>2. /\ n \in Nat /\ Index = 1 .. n
      /\ Len(results) = n /\ DOMAIN results = Index
      /\ \A i \in Index : /\ ran[i].took \in Int
                          /\ results[i].duration_ms = ran[i].took
      /\ \A i \in Index : results[i].succeeded <=> ran[i].how = "output"
  BY <1>1, ResultsOf
<1>3. good = {i \in Index : ran[i].how = "output"}
  BY <1>2
<1>4. Cardinality(good) + Cardinality(bad) = n
  <2>1. good \cup bad = 1 .. n /\ good \cap bad = {}
    BY <1>2
  <2> HIDE DEF n, good, bad
  <2> QED BY <1>2, <2>1, Split
<1>5. /\ 2 * Cardinality({i \in Index : ran[i].took < median}) <= n
      /\ 2 * Cardinality({i \in Index : ran[i].took > median}) <= n
  <2>1. CASE n = 0
    <3>1. {i \in Index : ran[i].took < median} = {} /\ {i \in Index : ran[i].took > median} = {}
      BY <1>2, <2>1
    <3>2. Cardinality({}) = 0 /\ n = 0
      BY <2>1, FS_EmptySet
    <3> HIDE DEF n, median
    <3>3. /\ 2 * Cardinality({i \in Index : ran[i].took < median}) = 0
          /\ 2 * Cardinality({i \in Index : ran[i].took > median}) = 0
      <4>1. 2 * Cardinality({}) = 0
        BY <3>2
      <4> QED BY <3>1, <4>1, Zenon
    <3> QED BY <3>2, <3>3
  <2>2. CASE n > 0
    <3> DEFINE d == [i \in DOMAIN results |-> results[i].duration_ms]
               order == CHOOSE order \in Sortings(d) : TRUE
    <3>1. results # <<>>
      BY <1>2, <2>2
    <3>2. median = d[order[n \div 2 + 1]]
      BY <1>2, <3>1 DEF Median
    <3>3. d \in [1 .. n -> Int] /\ \A i \in 1 .. n : d[i] = ran[i].took
      BY <1>2
    <3> HIDE DEF d
    <3>4. order \in Sortings(d)
      BY <1>2, <3>3, SortingExists
    <3> HIDE DEF order, n, median
    <3>5. Halved(n, d, median)
      BY <1>2, <2>2, <3>2, <3>3, <3>4, MedianHalves
    <3>6. /\ {i \in Index : ran[i].took < median} = {i \in 1 .. n : d[i] < median}
          /\ {i \in Index : ran[i].took > median} = {i \in 1 .. n : d[i] > median}
      BY <1>2, <3>3
    <3> QED BY <3>5, <3>6 DEF Halved
  <2> QED BY <1>2, <2>1, <2>2
<1> HIDE DEF good, bad, median
<1> QED BY <1>1, <1>2, <1>3, <1>4, <1>5 DEF AddsUp

\* Every step keeps what is known of the summary: only summarize makes one, and once
\* the call has returned no job changes its result.
LEMMA SummaryStep == Inv /\ SumInv /\ [Next]_vars => SumInv'
<1> SUFFICES ASSUME Inv, SumInv, [Next]_vars PROVE SumInv'
  OBVIOUS
<1>1. CASE UNCHANGED vars
  BY <1>1 DEF vars, poolVars, callerVars, SumInv, AddsUp, Index
<1>2. CASE Work
  <2>1. caller # "returned"
    BY <1>2, AllOver DEF Work, Take, Finish, Pending
  <2>2. caller' = caller /\ summary' = summary
    BY <1>2 DEF Work, Take, Finish, callerVars
  <2> QED BY <2>1, <2>2 DEF SumInv
<1>3. CASE Summarize
  <2>1. AddsUp(summary')
    BY <1>3, SummarizeAddsUp
  <2>2. caller = "returned" /\ caller' = caller /\ jobs' = jobs /\ ran' = ran
    BY <1>3 DEF Summarize, poolVars
  <2> HIDE DEF Summarize
  <2> QED BY <2>1, <2>2 DEF SumInv, AddsUp, Index
<1>4. CASE Run /\ ~Summarize
  <2>1. caller # "returned" /\ summary' = summary
    BY <1>4 DEF Run, ReturnEmpty, Open, Submit, LoopStarts, Collect, CollectFatal, Break, CancelRest,
                LoopEnds, Leave, Interrupt, InterruptSubmit, InterruptLoop, InterruptCancel,
                InterruptClose, callerVars
  <2> QED BY <2>1 DEF SumInv
<1> QED BY <1>1, <1>2, <1>3, <1>4 DEF Next

\* The summary adds up: each job is counted once, on its side, and no more than half
\* of them took less than the median, nor more (batch.py:75-89).
THEOREM SummaryIsRight == Spec => []SummaryAddsUp
<1>1. Init => SumInv
  BY DEF Init, SumInv
<1>2. SumInv => SummaryAddsUp
  BY DEF SumInv, AddsUp, SummaryAddsUp
<1> QED BY <1>1, <1>2, SummaryStep, Invariance, PTL DEF Spec
=============================================================================
