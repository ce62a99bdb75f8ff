---------------------------- MODULE PlanApi ----------------------------
(***************************************************************************)
(* One job of the HTTP service (videoagent/api.py), from the request that  *)
(* creates it.  Planner is the run of plan() on its behalf; here are the   *)
(* thread that calls it, the generator that streams its events, the Job    *)
(* record both endpoints share with GET /v1/jobs/{id}, and a reader of it. *)
(*                                                                         *)
(* Jobs have nothing in common but the dictionary they are looked up in,   *)
(* which is only touched under its lock, so one job shows what any number  *)
(* do.  The lock of the stream's condition variable is held from a look at *)
(* the list to the drain or the wait that follows, so look and drain, and  *)
(* look and wait, are one step each; done.set() takes no lock and is a     *)
(* step of its own before the notify.                                      *)
(*                                                                         *)
(* External: the web server runs the generator's next() again only when    *)
(* the frame before it was sent, and drops the generator, at a yield, when *)
(* the client has gone; fields of a Python object are read and written one *)
(* at a time.                                                              *)
(***************************************************************************)
EXTENDS Planner

CONSTANT Endpoints     \* {"stream"}: POST /v1/plan/stream; {"submit"}: POST /v1/jobs

ASSUME ApiAssumption == Endpoints \subseteq {"stream", "submit"}

VARIABLES endpoint,    \* the request that made the job
          registered,  \* the job is in state["jobs"]
          job,         \* the Job record: [status, plan, error, raw_calls]
          worker,      \* the thread that calls plan(): the runner, or submit itself
          todo,        \* the fields it has still to store
          gen,         \* where the generator of the stream is
          queue,       \* events the runner has appended and gen not drained
          drained,     \* events gen has drained and not yielded
          sent,        \* events the client got
          done,        \* the threading.Event of the runner
          toRead,      \* the fields the reader has still to read
          seen         \* what it read

jobVars    == <<endpoint, registered, job, worker, todo>>
streamVars == <<gen, queue, drained, sent, done>>
readVars   == <<toRead, seen>>
apiVars    == <<jobVars, streamVars, readVars>>
vars       == <<plannerVars, apiVars>>

Fields == {"status", "plan", "error", "raw_calls"}

NewJob == [status |-> "queued", plan |-> NoPlan, error |-> {}, raw_calls |-> <<>>]

Planned == result.plan # NoPlan

\* cv.notify(): the generator, if it waits, looks at the list again.
Notify == gen' = IF gen = "asleep" THEN "loop" ELSE gen

---------------------------------------------------------------------------
(* The request and the thread that plans *)

Register == /\ ~registered
            /\ registered' = TRUE
            /\ IF endpoint = "stream"
               THEN gen' = "start" /\ UNCHANGED worker
               ELSE worker' = "begin" /\ UNCHANGED gen
            /\ UNCHANGED <<plannerVars, endpoint, job, todo, queue, drained, sent, done, readVars>>

\* _plan_now
BeginPlanning == /\ worker = "begin"
                 /\ job' = [job EXCEPT !.status = "planning"]
                 /\ worker' = "planning"
                 /\ UNCHANGED <<plannerVars, endpoint, registered, todo, streamVars, readVars>>

\* Mutant: the runner waits for a generator that is still read.
PlanGoesOnAttached == /\ worker = "planning"
                      /\ PlannerStep
                      /\ gen # "abandoned"
                      /\ IF endpoint = "stream" /\ events' # events
                         THEN queue' = Append(queue, events'[Len(events')]) /\ Notify
                         ELSE UNCHANGED <<queue, gen>>
                      /\ UNCHANGED <<jobVars, drained, sent, done, readVars>>

\* plan() goes on; a stream's on_event appends under the lock and notifies.
PlanGoesOn == /\ worker = "planning"
              /\ PlannerStep
              /\ IF endpoint = "stream" /\ events' # events
                 THEN queue' = Append(queue, events'[Len(events')]) /\ Notify
                 ELSE UNCHANGED <<queue, gen>>
              /\ UNCHANGED <<jobVars, drained, sent, done, readVars>>

\* The order in which the runner of a stream stores the result, and _plan_now.
RunnerOrder == <<"status", IF Planned THEN "plan" ELSE "error", "raw_calls">>
SubmitOrder == IF Planned THEN <<"raw_calls", "plan", "status">>
               ELSE            <<"raw_calls", "status", "error">>

StoreOrder == IF endpoint = "stream" THEN RunnerOrder ELSE SubmitOrder

Verdict == [status    |-> IF Planned THEN "ready" ELSE "failed",
            plan      |-> result.plan,
            error     |-> result.errors,
            raw_calls |-> rawCalls]

\* Mutant: the job is ready until its errors have been looked at.
PlanReturnsReady == /\ worker = "planning" /\ phase = "returned"
                    /\ worker' = "storing"
                    /\ todo' = StoreOrder
                    /\ job' = [job EXCEPT !.status = "ready"]
                    /\ UNCHANGED <<plannerVars, endpoint, registered, streamVars, readVars>>

PlanReturns == /\ worker = "planning" /\ phase = "returned"
               /\ worker' = "storing"
               /\ todo' = StoreOrder
               /\ UNCHANGED <<plannerVars, endpoint, registered, job, streamVars, readVars>>

Store == /\ worker = "storing" /\ todo # <<>>
         /\ job' = [job EXCEPT ![Head(todo)] = Verdict[Head(todo)]]
         /\ todo' = Tail(todo)
         /\ UNCHANGED <<plannerVars, endpoint, registered, worker, streamVars, readVars>>

\* Mutant: the last field is left for after the end.
LeaveEarly == /\ \/ worker = "storing" /\ Len(todo) <= 1
                 \/ worker = "planning" /\ phase = "raised"
              /\ worker' = IF endpoint = "stream" THEN "finally" ELSE "exit"
              /\ UNCHANGED <<plannerVars, endpoint, registered, job, todo, streamVars, readVars>>

\* Mutant: an exception gets a status of its own.
LeaveMarks == /\ \/ worker = "storing" /\ todo = <<>>
                 \/ worker = "planning" /\ phase = "raised"
              /\ worker' = IF endpoint = "stream" THEN "finally" ELSE "exit"
              /\ job' = [job EXCEPT !.status = IF phase = "raised" THEN "error" ELSE @]
              /\ UNCHANGED <<plannerVars, endpoint, registered, todo, streamVars, readVars>>

\* After the last store, or when plan() raised: the runner's finally, or the
\* response (an error response when it raised).
Leave == /\ \/ worker = "storing" /\ todo = <<>>
            \/ worker = "planning" /\ phase = "raised"
         /\ worker' = IF endpoint = "stream" THEN "finally" ELSE "exit"
         /\ UNCHANGED <<plannerVars, endpoint, registered, job, todo, streamVars, readVars>>

SetDone == /\ worker = "finally"
           /\ done' = TRUE
           /\ worker' = "notify"
           /\ UNCHANGED <<plannerVars, endpoint, registered, job, todo,
                          gen, queue, drained, sent, readVars>>

\* Mutant: done is set, nobody is told.
NotifyNobody == /\ worker = "notify"
                /\ worker' = "exit"
                /\ UNCHANGED <<plannerVars, endpoint, registered, job, todo,
                               gen, queue, drained, sent, done, readVars>>

NotifyDone == /\ worker = "notify"
              /\ Notify
              /\ worker' = "exit"
              /\ UNCHANGED <<plannerVars, endpoint, registered, job, todo,
                             queue, drained, sent, done, readVars>>

Work == BeginPlanning \/ PlanGoesOn \/ PlanReturns \/ Store \/ Leave \/ SetDone \/ NotifyDone

---------------------------------------------------------------------------
(* The generator of the stream *)

\* The first next() starts the runner and yields the job frame.
Start == /\ gen = "start"
         /\ worker' = "planning"
         /\ gen' = "sent_job"
         /\ UNCHANGED <<plannerVars, endpoint, registered, job, todo,
                        queue, drained, sent, done, readVars>>

Looking == gen \in {"sent_job", "loop"}

\* Mutant: wait for an event without looking at done.
SleepUnlessQueue == /\ Looking
                    /\ queue = <<>>
                    /\ gen' = "asleep"
                    /\ UNCHANGED <<plannerVars, jobVars, queue, drained, sent, done, readVars>>

Sleep == /\ Looking
         /\ queue = <<>> /\ ~done
         /\ gen' = "asleep"
         /\ UNCHANGED <<plannerVars, jobVars, queue, drained, sent, done, readVars>>

\* Mutant: the list is copied and not emptied.
DrainCopy == /\ Looking
             /\ queue # <<>> \/ done
             /\ drained' = queue
             /\ gen' = "drained"
             /\ UNCHANGED <<plannerVars, jobVars, queue, sent, done, readVars>>

Drain == /\ Looking
         /\ queue # <<>> \/ done
         /\ drained' = queue
         /\ queue' = <<>>
         /\ gen' = "drained"
         /\ UNCHANGED <<plannerVars, jobVars, sent, done, readVars>>

Deliver == /\ gen \in {"drained", "sent"} /\ drained # <<>>
           /\ sent' = Append(sent, Head(drained))
           /\ drained' = Tail(drained)
           /\ gen' = "sent"
           /\ UNCHANGED <<plannerVars, jobVars, queue, done, readVars>>

\* Mutant: end as soon as the runner is done.
CheckDoneOnly == /\ gen \in {"drained", "sent"} /\ drained = <<>>
                 /\ gen' = IF done THEN "end" ELSE "loop"
                 /\ UNCHANGED <<plannerVars, jobVars, queue, drained, sent, done, readVars>>

\* Neither done nor the list is read under the lock here.
Check == /\ gen \in {"drained", "sent"} /\ drained = <<>>
         /\ gen' = IF done /\ queue = <<>> THEN "end" ELSE "loop"
         /\ UNCHANGED <<plannerVars, jobVars, queue, drained, sent, done, readVars>>

End == /\ gen = "end"
       /\ gen' = "ended"
       /\ UNCHANGED <<plannerVars, jobVars, queue, drained, sent, done, readVars>>

\* The client has gone: the generator is not resumed from its yield.
Disconnect == /\ gen \in {"start", "sent_job", "sent"}
              /\ gen' = "abandoned"
              /\ UNCHANGED <<plannerVars, jobVars, queue, drained, sent, done, readVars>>

Generate == Start \/ Sleep \/ Drain \/ Deliver \/ Check \/ End

---------------------------------------------------------------------------
(* GET /v1/jobs/{id}, and GET /v1/jobs/{id}/stream, which reads the status once
   more for the name of its frame.  A client knows the id from the job frame, or
   from the response to its submission. *)

IdKnown == IF endpoint = "stream" THEN gen \notin {"off", "start"} /\ worker # "off"
           ELSE worker = "exit" /\ phase = "returned"

Lookup(order) == /\ seen = <<>> /\ toRead = <<>>
                 /\ IdKnown
                 /\ toRead' = order
                 /\ seen' = [f \in Fields \cup {"event", "after_end"} |->
                                IF f = "after_end" THEN gen = "ended" ELSE "unread"]
                 /\ UNCHANGED <<plannerVars, jobVars, streamVars>>

GetOrder    == <<"status", "plan", "error", "raw_calls">>
StreamOrder == <<"event">> \o GetOrder

Read == /\ toRead # <<>>
        /\ seen' = [seen EXCEPT ![Head(toRead)] =
                       IF Head(toRead) = "event" THEN job.status ELSE job[Head(toRead)]]
        /\ toRead' = Tail(toRead)
        /\ UNCHANGED <<plannerVars, jobVars, streamVars>>

---------------------------------------------------------------------------

Init == /\ PlannerInit
        /\ endpoint \in Endpoints
        /\ registered = FALSE
        /\ job = NewJob
        /\ worker = "off" /\ todo = <<>>
        /\ gen = "off"
        /\ queue = <<>> /\ drained = <<>> /\ sent = <<>>
        /\ done = FALSE
        /\ toRead = <<>> /\ seen = <<>>

Next == \/ Register \/ Work \/ Generate \/ Disconnect
        \/ Lookup(GetOrder) \/ Lookup(StreamOrder) \/ Read

SafeSpec == Init /\ [][Next]_vars

\* Threads are scheduled and a call of the model comes back or raises; a client
\* that stays reads its frames, so the server resumes the generator.
Fairness == WF_vars(Work) /\ WF_vars(Generate)

Spec == SafeSpec /\ Fairness

---------------------------------------------------------------------------
(* Properties *)

\* The types of the Job record, of the two threads and of the reader.  The status is
\* one of those of api.py:36; ARCHITECTURE.md:175 has others, which the code never
\* stores (running, done), and not ready.
ApiTypeOK ==
    /\ PlannerTypeOK
    /\ endpoint \in Endpoints /\ registered \in BOOLEAN /\ done \in BOOLEAN
    /\ job \in [status    : {"queued", "planning", "ready", "failed"},
               plan      : {NoPlan, result.plan},
               error     : {{}, result.errors},
               raw_calls : {<<>>, rawCalls}]
    /\ queue \in Seq(TraceEvents) /\ drained \in Seq(TraceEvents) /\ sent \in Seq(TraceEvents)
    /\ worker \in {"off", "begin", "planning", "storing", "finally", "notify", "exit"}
    /\ gen \in {"off", "start", "sent_job", "loop", "asleep", "drained", "sent",
                "end", "ended", "abandoned"}
    /\ todo \in Seq(Fields) /\ toRead \in Seq(Fields \cup {"event"})

\* Nothing the planner said is lost, repeated or reordered on its way through the
\* list and the generator (api.py:124-127, 157-164), whatever the interleaving of
\* the two threads.
NothingLost == endpoint = "stream" => sent \o drained \o queue = events

\* The end frame is the last word (api.py:165-167): the client got every event
\* before it, the runner is past its last store, and a job that was planned has
\* its verdict, complete.
EndIsFinal == gen \in {"end", "ended"} =>
    /\ sent = events
    /\ phase \in {"returned", "raised"}
    /\ phase = "returned" => job = Verdict

\* A generator that waits has been told everything: the list is empty, and if the
\* runner has finished, its notify is still to come (api.py:159-160, 151-153).
NoMissedNotify == gen = "asleep" =>
    /\ queue = <<>>
    /\ worker \in {"planning", "storing", "finally", "notify"}

\* Where the two threads are, relative to each other: the part of the inductive
\* invariant the stream's properties rest on.
Places ==
    /\ ~registered => gen = "off" /\ worker = "off"
    /\ endpoint = "submit" => gen = "off"
    /\ worker = "begin" => endpoint = "submit"
    /\ worker \in {"finally", "notify"} => endpoint = "stream"
    /\ done <=> endpoint = "stream" /\ worker \in {"notify", "exit"}
    /\ worker = "off" => gen \in {"off", "start", "abandoned"}
    /\ gen = "start" => worker = "off"
    /\ worker = "storing" => phase = "returned"
    /\ worker \in {"finally", "notify", "exit"} => phase \in {"returned", "raised"}
    /\ drained # <<>> => gen \in {"drained", "sent", "abandoned"}
    /\ gen \in {"end", "ended"} => done /\ queue = <<>>

Early == worker \in {"off", "begin", "planning"}

\* How much of the verdict has been stored.
Stored ==
    /\ Early => /\ job.status \in {"queued", "planning"}
                /\ job.plan = NoPlan /\ job.error = {} /\ job.raw_calls = <<>>
    /\ worker # "storing" => todo = <<>>
    /\ ~Early /\ phase = "returned" =>
          /\ job.status \in {"queued", "planning", Verdict.status}
          /\ \A f \in Fields : job[f] = Verdict[f] \/ \E i \in DOMAIN todo : todo[i] = f
    /\ ~Early /\ phase = "raised" => job.status \in {"queued", "planning"}

\* The inductive invariant of a job.
ApiInv == /\ PlannerInv /\ ApiTypeOK /\ Places /\ Stored
          /\ NothingLost /\ NoMissedNotify /\ EndIsFinal

\* What a reader puts together from fields read one by one (api.py:77-83, 200-208):
\* it never mixes the two verdicts, and the plan it gets is the verified one; when
\* it asked after the end frame, or after the response to a submission, it gets the
\* whole record.
ReadsAgree ==
    seen # <<>> /\ toRead = <<>> =>
        /\ seen.status = "ready" => seen.error = {}
        /\ seen.status = "failed" => seen.plan = NoPlan
        /\ seen.plan # NoPlan => seen.plan = result.plan /\ Planned
        /\ phase = "returned" /\ (seen.after_end \/ endpoint = "submit") =>
              \A f \in Fields : seen[f] = Verdict[f]

\* Once the record says ready or failed it says so for good, and nothing of it
\* changes after the end frame.
VerdictStands ==
    [][/\ job.status \in {"ready", "failed"} => job'.status = job.status
       /\ gen = "ended" => job' = job]_vars

\* A client that stays gets the end frame (api.py:155-167), however the planner ends.
StreamEnds == gen \in {"sent_job", "loop", "asleep", "drained", "sent"}
                 ~> gen \in {"ended", "abandoned"}

\* Planning that was started comes to its end, whether or not the client stays.
PlanningSettles == worker = "planning" ~> worker = "exit"

---------------------------------------------------------------------------
(* Statements of the repository the code does not keep *)

\* api.py:107-109: job, probe, llm_call, tool_calls, verify_fail?, then plan_ready
\* or plan_failed, then end.
VerdictBeforeEnd ==
    gen = "ended" => sent[Len(sent)].type \in {"plan_ready", "plan_failed"}

\* tests/test_api.py:33-34: the job that GET shows as ready has its plan.
ReadyHasPlan ==
    seen # <<>> /\ toRead = <<>> /\ seen.status = "ready" => seen.plan # NoPlan
=============================================================================
