---------------------------- MODULE Batch ----------------------------
(***************************************************************************)
(* run_batch and summarize (videoagent/batch.py).                          *)
(*                                                                         *)
(* External: concurrent.futures.ThreadPoolExecutor.  map submits the calls *)
(* one by one before the first result is asked for; free threads take      *)
(* pending calls in order; results are handed over in order; whatever ends *)
(* the loop early cancels, from the last, the calls no thread has taken;   *)
(* and the end of the with block waits for the threads.  A thread keeps    *)
(* what its call raised for the one who asks for the result.  A            *)
(* KeyboardInterrupt may strike run_batch at each of these.                *)
(*                                                                         *)
(* process_one is the caller's: it returns, raises an Exception or raises  *)
(* something that is none (SystemExit, KeyboardInterrupt).  Its output, or *)
(* its message, for job i is the number i; 0 is the empty string.          *)
(***************************************************************************)
EXTENDS Integers, Sequences, FiniteSets

CONSTANTS JobIds,
          Batches,       \* the batches run_batch is called with: sequences of job ids
          WorkerCounts,  \* values of max_workers
          Durations,     \* what a job may take
          None           \* no result, no summary

ASSUME BatchAssumption ==
    /\ Batches \subseteq Seq(JobIds)
    /\ WorkerCounts \subseteq Int
    /\ Durations \subseteq Nat

VARIABLES jobs,        \* the ids of the batch
          max_workers,
          caller,      \* where run_batch is
          next,        \* the job whose result is asked for next
          last,        \* the job that is cancelled next
          cause,       \* what ended the loop early; "uncancelled" if an interrupt also
                       \* kept it from cancelling the rest
          future,      \* the state of each call
          ran,         \* what process_one did for each job
          results,     \* the list run_batch fills
          summary      \* summarize of it

poolVars   == <<future, ran>>
callerVars == <<caller, next, last, cause, results, summary>>
vars       == <<jobs, max_workers, poolVars, callerVars>>

Index == DOMAIN jobs

---------------------------------------------------------------------------
(* The pool *)

PoolSize == IF max_workers < 1 THEN 1 ELSE max_workers

Running == {i \in Index : future[i] = "running"}
Pending == {i \in Index : future[i] = "pending"}

Take == /\ Cardinality(Running) < PoolSize
        /\ \E i \in Pending : /\ \A j \in Pending : i <= j
                              /\ future' = [future EXCEPT ![i] = "running"]
        /\ UNCHANGED <<jobs, max_workers, ran, callerVars>>

\* process_one ends, and _one with it.
Finish(i, how, took) ==
    /\ future[i] = "running"
    /\ future' = [future EXCEPT ![i] = "finished"]
    /\ ran' = [ran EXCEPT ![i] = [how |-> how, took |-> took]]
    /\ UNCHANGED <<jobs, max_workers, callerVars>>

\* The BatchResult that _one returns.
One(i) == [job_id      |-> jobs[i],
           succeeded   |-> ran[i].how = "output",
           duration_ms |-> ran[i].took,
           output      |-> IF ran[i].how = "output" THEN i ELSE 0,
           error       |-> IF ran[i].how = "error" THEN i ELSE 0]

---------------------------------------------------------------------------
(* run_batch *)

ReturnEmpty == /\ caller = "called" /\ jobs = <<>>
               /\ caller' = "returned"
               /\ UNCHANGED <<jobs, max_workers, poolVars, next, last, cause, results, summary>>

\* A pool without a worker is a ValueError.
Open == /\ caller = "called" /\ jobs # <<>>
        /\ caller' = IF PoolSize >= 1 THEN "submitting" ELSE "raised"
        /\ UNCHANGED <<jobs, max_workers, poolVars, next, last, cause, results, summary>>

Submit == /\ caller = "submitting"
          /\ \E i \in Index : /\ future[i] = "none" /\ \A j \in 1 .. i - 1 : future[j] # "none"
                              /\ future' = [future EXCEPT ![i] = "pending"]
          /\ UNCHANGED <<jobs, max_workers, ran, callerVars>>

LoopStarts == /\ caller = "submitting"
              /\ \A i \in Index : future[i] # "none"
              /\ caller' = "collecting"
              /\ UNCHANGED <<jobs, max_workers, poolVars, next, last, cause, results, summary>>

\* Mutant: results are taken as they come and kept in that order.
CollectAsCompleted ==
    /\ caller = "collecting" /\ next <= Len(jobs)
    /\ \E i \in Index : /\ future[i] = "finished"
                        /\ \A j \in 1 .. next - 1 : results[j] # One(i)
                        /\ ran[i].how # "fatal"
                        /\ results' = [results EXCEPT ![next] = One(i)]
    /\ next' = next + 1
    /\ UNCHANGED <<jobs, max_workers, poolVars, caller, last, cause, summary>>

Collect == /\ caller = "collecting" /\ next <= Len(jobs)
           /\ future[next] = "finished"
           /\ ran[next].how # "fatal"
           /\ results' = [results EXCEPT ![next] = One(next)]
           /\ next' = next + 1
           /\ UNCHANGED <<jobs, max_workers, poolVars, caller, last, cause, summary>>

Break(why) == /\ caller' = "cancelling"
              /\ cause' = why
              /\ last' = Len(jobs)
              /\ UNCHANGED <<jobs, max_workers, ran, next, results, summary>>

CollectFatal == /\ caller = "collecting" /\ next <= Len(jobs)
                /\ future[next] = "finished"
                /\ ran[next].how = "fatal"
                /\ Break("fatal")
                /\ UNCHANGED future

\* Mutant: the calls that wait are left to run, as with submit and result.
CancelNothing == /\ caller = "cancelling"
                 /\ caller' = "closing"
                 /\ UNCHANGED <<jobs, max_workers, poolVars, next, last, cause, results, summary>>

\* A call that a thread has taken cannot be cancelled.
CancelRest == /\ caller = "cancelling"
              /\ IF last >= next
                 THEN /\ future' = [future EXCEPT ![last] = IF @ = "pending" THEN "cancelled" ELSE @]
                      /\ last' = last - 1
                      /\ UNCHANGED caller
                 ELSE /\ caller' = "closing"
                      /\ UNCHANGED <<future, last>>
              /\ UNCHANGED <<jobs, max_workers, ran, next, cause, results, summary>>

LoopEnds == /\ caller = "collecting" /\ next > Len(jobs)
            /\ caller' = "closing"
            /\ UNCHANGED <<jobs, max_workers, poolVars, next, last, cause, results, summary>>

\* The end of the with block.
Leave == /\ caller = "closing"
         /\ Running = {} /\ Pending = {}
         /\ caller' = IF cause = "none" THEN "returned" ELSE "raised"
         /\ UNCHANGED <<jobs, max_workers, poolVars, next, last, cause, results, summary>>

---------------------------------------------------------------------------
(* KeyboardInterrupt *)

\* While calls are submitted, or before the first result is asked for: nobody has
\* their futures, so those that wait will run.
InterruptSubmit == /\ caller = "submitting"
                   /\ caller' = "closing"
                   /\ cause' = "uncancelled"
                   /\ UNCHANGED <<jobs, max_workers, poolVars, next, last, results, summary>>

\* In the loop: between two results, or while it waits for one, whose call is then
\* cancelled too.
InterruptLoop == /\ caller = "collecting"
                 /\ Break("interrupt")
                 /\ \/ UNCHANGED future
                    \/ /\ next <= Len(jobs)
                       /\ future' = [future EXCEPT ![next] = IF @ = "pending" THEN "cancelled" ELSE @]

\* While the rest is cancelled.
InterruptCancel == /\ caller = "cancelling"
                   /\ caller' = "closing"
                   /\ cause' = "uncancelled"
                   /\ UNCHANGED <<jobs, max_workers, poolVars, next, last, results, summary>>

\* While the end of the with block waits for the threads, which go on without it.
InterruptClose == /\ caller = "closing"
                  /\ caller' = "raised"
                  /\ cause' = IF cause = "none" THEN "interrupt" ELSE cause
                  /\ UNCHANGED <<jobs, max_workers, poolVars, next, last, results, summary>>

Interrupt == InterruptSubmit \/ InterruptLoop \/ InterruptCancel \/ InterruptClose

---------------------------------------------------------------------------
(* summarize *)

\* Mutant: the durations in the order of the jobs.
MedianAsIs(r) == r[Len(r) \div 2 + 1].duration_ms

\* Ways to put d in order: order[k] is the place of the k-th.
Sortings(d) == {order \in [DOMAIN d -> DOMAIN d] :
                   /\ \A i \in DOMAIN d : \E k \in DOMAIN d : order[k] = i
                   /\ \A k, l \in DOMAIN d : k <= l => d[order[k]] <= d[order[l]]}

Median(r) == LET d     == [i \in DOMAIN r |-> r[i].duration_ms]
                 order == CHOOSE order \in Sortings(d) : TRUE
             IN  d[order[Len(r) \div 2 + 1]]

Summarize == /\ caller = "returned" /\ summary = None
             /\ summary' = [total     |-> Len(results),
                            succeeded |-> Cardinality({i \in Index : results[i].succeeded}),
                            failed    |-> Cardinality({i \in Index : ~results[i].succeeded}),
                            median_ms |-> IF results = <<>> THEN 0 ELSE Median(results)]
             /\ UNCHANGED <<jobs, max_workers, poolVars, caller, next, last, cause, results>>

---------------------------------------------------------------------------

Init == /\ jobs \in Batches
        /\ max_workers \in WorkerCounts
        /\ caller = "called" /\ cause = "none"
        /\ next = 1 /\ last = 0
        /\ future = [i \in Index |-> "none"]
        /\ ran = [i \in Index |-> None]
        /\ results = [i \in Index |-> None]
        /\ summary = None

Work == \/ Take
        \/ \E i \in Index, how \in {"output", "error", "fatal"}, took \in Durations :
              Finish(i, how, took)

Run == ReturnEmpty \/ Open \/ Submit \/ LoopStarts \/ Collect \/ CollectFatal \/ CancelRest
       \/ LoopEnds \/ Leave \/ Interrupt \/ Summarize

Next == Work \/ Run

Spec == Init /\ [][Next]_vars

---------------------------------------------------------------------------
(* Properties *)

\* "Returns one BatchResult per job, in the same order as input" (batch.py:41-45):
\* whatever the order the threads finish in, each slot has the id, the verdict, the
\* text and the duration of its own job, jobs under one id included; and run_batch
\* raises only after an interrupt or when a job it waited for failed with something
\* that is no Exception.
ResultsMatchInput ==
    /\ caller = "returned" => \A i \in Index :
          /\ future[i] = "finished" /\ ran[i].how \in {"output", "error"}
          /\ results[i].job_id = jobs[i]
          /\ results[i].duration_ms = ran[i].took
          /\ results[i].succeeded <=> ran[i].how = "output"
          /\ <<results[i].output, results[i].error>> =
                IF ran[i].how = "output" THEN <<i, 0>> ELSE <<0, i>>
    /\ caller = "raised" => \/ cause \in {"interrupt", "uncancelled"}
                            \/ cause = "fatal" /\ \E i \in Index : future[i] = "finished" /\ ran[i].how = "fatal"

\* A failure, or an interrupt, that ends the loop stops the batch: once the calls are
\* cancelled, jobs nobody has started are not started any more, neither while the end
\* of the with block waits for the others nor when an interrupt has ended that wait and
\* run_batch is left with jobs still running (batch.py:69-72).  An interrupt while calls
\* are submitted or cancelled leaves the rest to run.
Started == {i \in Index : future[i] \in {"running", "finished"}}

FailureStops ==
    [][caller # "cancelling" /\ cause \in {"fatal", "interrupt"} => Started' = Started]_vars

\* The summary adds up (batch.py:75-89): each job is counted once, on the side it
\* belongs to, and no more than half of them took less than the median, nor more.
SummaryAddsUp ==
    summary # None =>
        LET n == Len(jobs)
        IN  /\ summary.total = n
            /\ summary.succeeded = Cardinality({i \in Index : ran[i].how = "output"})
            /\ summary.succeeded + summary.failed = n
            /\ 2 * Cardinality({i \in Index : ran[i].took < summary.median_ms}) <= n
            /\ 2 * Cardinality({i \in Index : ran[i].took > summary.median_ms}) <= n
=============================================================================
