---------------------------- MODULE PlanApiProofs ----------------------------
(***************************************************************************)
(* What one job of the HTTP service guarantees for every model, source and *)
(* number of retries, and every interleaving of the runner, the generator, *)
(* a client that may leave and a reader: the stream carries every event in *)
(* order, the end frame is final, a verdict stands, and a reader never     *)
(* mixes two of them.                                                      *)
(***************************************************************************)
EXTENDS PlanApi, PlannerProofs, SequenceTheorems

\* Steps that leave plan(), the record and its thread, or the stream alone.
PlannerStays == UNCHANGED plannerVars
JobStays     == UNCHANGED jobVars
StreamStays  == UNCHANGED streamVars

\* The reader changes nothing but what it has seen.
LEMMA ReaderReads ==
    ASSUME Lookup(GetOrder) \/ Lookup(StreamOrder) \/ Read \/ UNCHANGED vars
    PROVE  PlannerStays /\ JobStays /\ StreamStays
BY DEF Lookup, Read, PlannerStays, JobStays, StreamStays, vars, apiVars, plannerVars,
       jobVars, streamVars, readVars

\* The generator and the client leave plan(), the record and what the runner has
\* done alone, but for the first next(), which starts the runner.
LEMMA GeneratorStays ==
    ASSUME Generate \/ Disconnect
    PROVE  /\ PlannerStays
           /\ UNCHANGED <<endpoint, registered, job, todo, done>>
           /\ worker' = worker \/ (gen = "start" /\ worker' = "planning")
BY DEF Generate, Start, Sleep, Drain, Deliver, Check, End, Disconnect, PlannerStays, jobVars

\* Every step is a step of plan() or leaves plan() alone.
LEMMA NextIsPlan == [Next]_vars => [PlannerStep]_plannerVars
<1> SUFFICES ASSUME [Next]_vars PROVE [PlannerStep]_plannerVars
  OBVIOUS
<1>1. CASE Register \/ BeginPlanning \/ PlanReturns \/ Store \/ Leave \/ SetDone \/ NotifyDone
  BY <1>1 DEF Register, BeginPlanning, PlanReturns, Store, Leave, SetDone, NotifyDone
<1>2. CASE PlanGoesOn
  BY <1>2 DEF PlanGoesOn
<1>3. CASE Generate \/ Disconnect
  BY <1>3, GeneratorStays DEF PlannerStays
<1>4. CASE Lookup(GetOrder) \/ Lookup(StreamOrder) \/ Read \/ UNCHANGED vars
  BY <1>4, ReaderReads DEF PlannerStays
<1> QED BY <1>1, <1>2, <1>3, <1>4 DEF Next, Work

\* So what was proved of plan() holds of it here.
LEMMA PlannerPart == ASSUME PlannerInv, [Next]_vars
                     PROVE  PlannerInv'
BY NextIsPlan, PlannerInvStep

\* plan() adds at most one event in a step, and none once it has ended.
LEMMA TraceGrows ==
    ASSUME PlannerInv, PlannerInv', PlannerStep, events' # events
    PROVE  /\ events'[Len(events')] \in TraceEvents
           /\ events' = Append(events, events'[Len(events')])
<1>1. PICK e : events' = Append(events, e)
  BY DEF PlannerStep, Probe, CallModel, ModelAnswers, ModelRaises, RejectCalls, ParseRaises,
         PlanReady, VerifyFails, PlanFails, Emit
<1>2. events \in Seq(TraceEvents) /\ events' \in Seq(TraceEvents)
  BY DEF PlannerInv, PlannerTypeOK
<1>3. Len(events') = Len(events) + 1 /\ events'[Len(events')] = e
  BY <1>1, <1>2
<1> QED BY <1>1, <1>2, <1>3

\* plan() steps only while it has not ended.
LEMMA PlanIsOver == ASSUME PlannerStep
                    PROVE  phase \notin {"returned", "raised"}
BY DEF PlannerStep, Probe, CallModel, ModelAnswers, ModelRaises, RejectCalls, ParseRaises,
       PlanReady, VerifyFails, PlanFails

---------------------------------------------------------------------------
(* The stream *)

Listed == queue \in Seq(TraceEvents) /\ drained \in Seq(TraceEvents) /\ sent \in Seq(TraceEvents)

\* One more event at the end of the list is one more event at the end of all that
\* the client got or will get.
LEMMA AppendLast ==
    ASSUME NEW a \in Seq(TraceEvents), NEW b \in Seq(TraceEvents), NEW c \in Seq(TraceEvents),
           NEW e \in TraceEvents
    PROVE  a \o b \o Append(c, e) = Append(a \o b \o c, e)
OBVIOUS

\* A frame moves from the drained events to the client.
LEMMA MoveOne ==
    ASSUME NEW a \in Seq(TraceEvents), NEW b \in Seq(TraceEvents), NEW c \in Seq(TraceEvents),
           b # <<>>
    PROVE  Append(a, Head(b)) \o Tail(b) \o c = a \o b \o c
OBVIOUS

\* Draining moves the list as a whole.
LEMMA MoveAll ==
    ASSUME NEW a \in Seq(TraceEvents), NEW c \in Seq(TraceEvents)
    PROVE  a \o c \o <<>> = a \o <<>> \o c
OBVIOUS

\* Every step keeps the lists of events in their types and loses no event.
LEMMA StreamStep ==
    ASSUME PlannerInv, PlannerInv', Listed, Places, NothingLost, [Next]_vars
    PROVE  Listed' /\ NothingLost'
<1> USE DEF Listed, NothingLost, Places
<1>1. CASE PlanGoesOn
  <2>1. CASE endpoint = "stream" /\ events' # events
    <3> DEFINE e == events'[Len(events')]
    <3>1. e \in TraceEvents /\ events' = Append(events, e)
      BY <1>1, <2>1, TraceGrows DEF PlanGoesOn
    <3>2. /\ queue' = Append(queue, e)
          /\ UNCHANGED <<endpoint, drained, sent>>
      BY <1>1, <2>1 DEF PlanGoesOn, jobVars
    <3>3. sent \o drained \o Append(queue, e) = Append(sent \o drained \o queue, e)
      BY <3>1, AppendLast
    <3>4. Append(queue, e) \in Seq(TraceEvents)
      BY <3>1
    <3> HIDE DEF e
    <3> QED BY <2>1, <3>1, <3>2, <3>3, <3>4
  <2>2. CASE ~(endpoint = "stream" /\ events' # events)
    BY <1>1, <2>2 DEF PlanGoesOn, jobVars
  <2> QED BY <2>1, <2>2
<1>2. CASE Register \/ BeginPlanning \/ PlanReturns \/ Store \/ Leave \/ SetDone \/ NotifyDone
  <2>1. UNCHANGED <<endpoint, events, queue, drained, sent>>
    BY <1>2 DEF Register, BeginPlanning, PlanReturns, Store, Leave, SetDone, NotifyDone,
                plannerVars, streamVars
  <2> QED BY <2>1
<1>3. CASE Start \/ Sleep \/ Check \/ End \/ Disconnect
  <2>1. UNCHANGED <<endpoint, events, queue, drained, sent>>
    BY <1>3 DEF Start, Sleep, Check, End, Disconnect, plannerVars, jobVars
  <2> QED BY <2>1
<1>4. CASE Drain
  <2>1. /\ drained = <<>> /\ drained' = queue /\ queue' = <<>>
        /\ UNCHANGED <<endpoint, events, sent>>
    BY <1>4 DEF Drain, Looking, plannerVars, jobVars
  <2>2. sent \o queue \o <<>> = sent \o <<>> \o queue
    BY MoveAll
  <2>3. <<>> \in Seq(TraceEvents)
    OBVIOUS
  <2> QED BY <2>1, <2>2, <2>3
<1>5. CASE Deliver
  <2>1. /\ drained # <<>> /\ drained' = Tail(drained) /\ sent' = Append(sent, Head(drained))
        /\ UNCHANGED <<endpoint, events, queue>>
    BY <1>5 DEF Deliver, plannerVars, jobVars
  <2>2. Append(sent, Head(drained)) \o Tail(drained) \o queue = sent \o drained \o queue
    BY <2>1, MoveOne
  <2>3. Tail(drained) \in Seq(TraceEvents) /\ Append(sent, Head(drained)) \in Seq(TraceEvents)
    BY <2>1
  <2> QED BY <2>1, <2>2, <2>3
<1>6. CASE Lookup(GetOrder) \/ Lookup(StreamOrder) \/ Read \/ UNCHANGED vars
  BY <1>6, ReaderReads DEF PlannerStays, JobStays, StreamStays, plannerVars, jobVars, streamVars
<1> QED BY <1>1, <1>2, <1>3, <1>4, <1>5, <1>6 DEF Next, Work, Generate

\* Every step keeps the two threads at places that fit each other.
LEMMA PlacesStep ==
    ASSUME Places, ApiTypeOK, [Next]_vars
    PROVE  Places'
<1> USE ApiAssumption DEF Places, ApiTypeOK
<1>1. CASE Register
  BY <1>1 DEF Register, plannerVars
<1>2. CASE BeginPlanning
  BY <1>2 DEF BeginPlanning, plannerVars, streamVars
<1>3. CASE PlanGoesOn
  <2>1. UNCHANGED <<endpoint, registered, worker, drained, done>> /\ worker = "planning"
    BY <1>3 DEF PlanGoesOn, jobVars
  <2>2. gen' = gen \/ (gen = "asleep" /\ gen' = "loop")
    BY <1>3 DEF PlanGoesOn, Notify
  <2>3. gen \notin {"end", "ended"} /\ ~done
    BY <2>1
  <2> QED BY <2>1, <2>2, <2>3
<1>4. CASE PlanReturns
  BY <1>4 DEF PlanReturns, plannerVars, streamVars
<1>5. CASE Store
  BY <1>5 DEF Store, plannerVars, streamVars
<1>6. CASE Leave
  BY <1>6 DEF Leave, plannerVars, streamVars
<1>7. CASE SetDone
  BY <1>7 DEF SetDone, plannerVars
<1>8. CASE NotifyDone
  BY <1>8 DEF NotifyDone, Notify, plannerVars
<1>9. CASE Generate \/ Disconnect
  <2>1. UNCHANGED <<endpoint, registered, done, phase>>
    BY <1>9, GeneratorStays DEF PlannerStays, plannerVars
  <2>2. CASE Start
    BY <2>1, <2>2 DEF Start
  <2>3. CASE Sleep
    BY <2>1, <2>3 DEF Sleep, Looking, jobVars
  <2>4. CASE Drain
    BY <2>1, <2>4 DEF Drain, Looking, jobVars
  <2>5. CASE Deliver
    BY <2>1, <2>5 DEF Deliver, jobVars
  <2>6. CASE Check
    BY <2>1, <2>6 DEF Check, jobVars
  <2>7. CASE End
    BY <2>1, <2>7 DEF End, jobVars
  <2>8. CASE Disconnect
    BY <2>1, <2>8 DEF Disconnect, jobVars
  <2> QED BY <1>9, <2>2, <2>3, <2>4, <2>5, <2>6, <2>7, <2>8 DEF Generate
<1>10. CASE Lookup(GetOrder) \/ Lookup(StreamOrder) \/ Read \/ UNCHANGED vars
  BY <1>10, ReaderReads DEF PlannerStays, JobStays, StreamStays, plannerVars, jobVars, streamVars
<1> QED BY <1>1, <1>2, <1>3, <1>4, <1>5, <1>6, <1>7, <1>8, <1>9, <1>10 DEF Next, Work

\* Every step tells a generator that waits, or leaves somebody to tell it.
LEMMA NotifyStep ==
    ASSUME NoMissedNotify, Places, ApiTypeOK, [Next]_vars
    PROVE  NoMissedNotify'
<1> USE ApiAssumption DEF NoMissedNotify, ApiTypeOK
<1>1. CASE Register \/ BeginPlanning \/ PlanReturns \/ Store \/ Leave \/ SetDone
  BY <1>1 DEF Register, BeginPlanning, PlanReturns, Store, Leave, SetDone, Places, streamVars
<1>2. CASE PlanGoesOn
  BY <1>2 DEF PlanGoesOn, Notify, jobVars
<1>3. CASE NotifyDone
  BY <1>3 DEF NotifyDone, Notify
<1>4. CASE Sleep
  <2>1. worker \notin {"off", "begin", "exit"}
    BY <1>4 DEF Sleep, Looking, Places
  <2> QED BY <1>4, <2>1 DEF Sleep, jobVars
<1>5. CASE Start \/ Drain \/ Deliver \/ Check \/ End \/ Disconnect
  BY <1>5 DEF Start, Drain, Deliver, Check, End, Disconnect
<1>6. CASE Lookup(GetOrder) \/ Lookup(StreamOrder) \/ Read \/ UNCHANGED vars
  BY <1>6, ReaderReads DEF JobStays, StreamStays, jobVars, streamVars
<1> QED BY <1>1, <1>2, <1>3, <1>4, <1>5, <1>6 DEF Next, Work, Generate

---------------------------------------------------------------------------
(* The record *)

\* The fields that a runner does not store have their values from the beginning.
LEMMA OrderCovers ==
    ASSUME PlannerInv, ApiTypeOK, Stored, Early
    PROVE  /\ \A f \in Fields : job[f] = Verdict[f] \/ \E i \in DOMAIN StoreOrder : StoreOrder[i] = f
           /\ StoreOrder \in Seq(Fields)
<1>1. job["plan"] = NoPlan /\ job["error"] = {}
  BY DEF Stored, ApiTypeOK
<1>2. CASE Planned
  <2>1. result.errors = {}
    BY <1>2 DEF PlannerInv, PlanFitsSource, Planned
  <2>2. job["error"] = Verdict["error"]
    BY <1>1, <2>1 DEF Verdict
  <2>3. CASE endpoint = "stream"
    <3>1. StoreOrder = <<"status", "plan", "raw_calls">>
      BY <1>2, <2>3 DEF StoreOrder, RunnerOrder, SubmitOrder
    <3>2. DOMAIN StoreOrder = 1 .. 3 /\ StoreOrder[1] = "status" /\ StoreOrder[2] = "plan"
          /\ StoreOrder[3] = "raw_calls"
      BY <3>1
    <3>3. StoreOrder \in Seq(Fields)
      BY <3>1 DEF Fields
    <3> QED BY <2>2, <3>2, <3>3 DEF Fields
  <2>4. CASE endpoint # "stream"
    <3>1. StoreOrder = <<"raw_calls", "plan", "status">>
      BY <1>2, <2>4 DEF StoreOrder, RunnerOrder, SubmitOrder
    <3>2. DOMAIN StoreOrder = 1 .. 3 /\ StoreOrder[1] = "raw_calls" /\ StoreOrder[2] = "plan"
          /\ StoreOrder[3] = "status"
      BY <3>1
    <3>3. StoreOrder \in Seq(Fields)
      BY <3>1 DEF Fields
    <3> QED BY <2>2, <3>2, <3>3 DEF Fields
  <2> QED BY <2>3, <2>4
<1>3. CASE ~Planned
  <2>1. job["plan"] = Verdict["plan"]
    BY <1>1, <1>3 DEF Verdict, Planned
  <2>2. CASE endpoint = "stream"
    <3>1. StoreOrder = <<"status", "error", "raw_calls">>
      BY <1>3, <2>2 DEF StoreOrder, RunnerOrder, SubmitOrder
    <3>2. DOMAIN StoreOrder = 1 .. 3 /\ StoreOrder[1] = "status" /\ StoreOrder[2] = "error"
          /\ StoreOrder[3] = "raw_calls"
      BY <3>1
    <3>3. StoreOrder \in Seq(Fields)
      BY <3>1 DEF Fields
    <3> QED BY <2>1, <3>2, <3>3 DEF Fields
  <2>3. CASE endpoint # "stream"
    <3>1. StoreOrder = <<"raw_calls", "status", "error">>
      BY <1>3, <2>3 DEF StoreOrder, RunnerOrder, SubmitOrder
    <3>2. DOMAIN StoreOrder = 1 .. 3 /\ StoreOrder[1] = "raw_calls" /\ StoreOrder[2] = "status"
          /\ StoreOrder[3] = "error"
      BY <3>1
    <3>3. StoreOrder \in Seq(Fields)
      BY <3>1 DEF Fields
    <3> QED BY <2>1, <3>2, <3>3 DEF Fields
  <2> QED BY <2>2, <2>3
<1> QED BY <1>2, <1>3

\* One store moves one field of the verdict into the record.
LEMMA StoreOne ==
    ASSUME ApiTypeOK, Places, Stored, Store
    PROVE  Stored'
<1> DEFINE f == Head(todo)
<1>1. /\ worker = "storing" /\ worker' = "storing" /\ phase = "returned" /\ phase' = "returned"
      /\ Verdict' = Verdict
  BY DEF Store, Places, Verdict, Planned, plannerVars
<1>2. todo # <<>> /\ todo' = Tail(todo) /\ job' = [job EXCEPT ![f] = Verdict[f]]
  BY DEF Store
<1>3. todo \in Seq(Fields)
  BY DEF ApiTypeOK
<1>4. f \in Fields /\ Tail(todo) \in Seq(Fields)
  BY <1>2, <1>3
<1>5. \A g \in Fields : job'[g] = IF g = f THEN Verdict[f] ELSE job[g]
  BY <1>2, <1>4 DEF ApiTypeOK, Fields
<1>6. ASSUME NEW g \in Fields, g # f, NEW i \in DOMAIN todo, todo[i] = g
      PROVE  \E k \in DOMAIN Tail(todo) : Tail(todo)[k] = g
  <2>1. i # 1 /\ i - 1 \in DOMAIN Tail(todo) /\ Tail(todo)[i - 1] = g
    BY <1>2, <1>3, <1>6
  <2> QED BY <2>1
<1>7. \A g \in Fields : job[g] = Verdict[g] \/ \E i \in DOMAIN todo : todo[i] = g
  BY <1>1 DEF Stored, Early
<1>8. \A g \in Fields : job'[g] = Verdict[g] \/ \E k \in DOMAIN Tail(todo) : Tail(todo)[k] = g
  BY <1>5, <1>6, <1>7
<1>9. job'.status \in {"queued", "planning", Verdict.status}
  BY <1>1, <1>2, <1>4 DEF Stored, Early, ApiTypeOK, Fields, Verdict
<1> HIDE DEF f
<1> QED BY <1>1, <1>2, <1>8, <1>9 DEF Stored, Early

\* Every step stores a field of the verdict, or leaves as much stored as there was.
LEMMA StoreStep ==
    ASSUME PlannerInv, ApiTypeOK, Places, Stored, [Next]_vars
    PROVE  Stored'
<1>1. ASSUME UNCHANGED plannerVars, UNCHANGED <<job, todo>>,
             worker' = worker \/ (Early /\ Early')
      PROVE  Stored'
  <2>1. Verdict' = Verdict /\ phase' = phase
    BY <1>1 DEF Verdict, Planned, plannerVars
  <2> QED BY <1>1, <2>1 DEF Stored, Early
<1>2. CASE Register
  <2>1. UNCHANGED plannerVars /\ UNCHANGED <<job, todo>> /\ Early /\ Early'
    BY <1>2 DEF Register, Places, Early
  <2> QED BY <1>1, <2>1
<1>3. CASE BeginPlanning
  BY <1>3 DEF BeginPlanning, ApiTypeOK, Fields, Stored, Early
<1>4. CASE PlanGoesOn
  BY <1>4 DEF PlanGoesOn, jobVars, Stored, Early
<1>5. CASE PlanReturns
  <2>1. UNCHANGED plannerVars /\ job' = job /\ todo' = StoreOrder /\ worker' = "storing"
    BY <1>5 DEF PlanReturns
  <2>2. Verdict' = Verdict /\ phase' = phase /\ phase = "returned"
    BY <1>5, <2>1 DEF PlanReturns, Verdict, Planned, plannerVars
  <2>3. Early /\ job.status \in {"queued", "planning"}
    BY <1>5 DEF PlanReturns, Early, Stored
  <2>4. \A f \in Fields : job[f] = Verdict[f] \/ \E i \in DOMAIN StoreOrder : StoreOrder[i] = f
    BY <2>3, OrderCovers
  <2> QED BY <2>1, <2>2, <2>3, <2>4 DEF Stored, Early
<1>6. CASE Store
  BY <1>6, StoreOne
<1>7. CASE Leave
  <2>1. UNCHANGED plannerVars /\ UNCHANGED <<job, todo>> /\ todo = <<>>
    BY <1>7 DEF Leave, Stored
  <2>2. Verdict' = Verdict /\ phase' = phase
    BY <2>1 DEF Verdict, Planned, plannerVars
  <2> QED BY <1>7, <2>1, <2>2 DEF Leave, Places, Stored, Early
<1>8. CASE SetDone \/ NotifyDone
  <2>1. UNCHANGED plannerVars /\ UNCHANGED <<job, todo>>
    BY <1>8 DEF SetDone, NotifyDone
  <2>2. Verdict' = Verdict /\ phase' = phase
    BY <2>1 DEF Verdict, Planned, plannerVars
  <2> QED BY <1>8, <2>1, <2>2 DEF SetDone, NotifyDone, Stored, Early
<1>9. CASE Generate \/ Disconnect
  <2>1. UNCHANGED plannerVars /\ UNCHANGED <<job, todo>>
        /\ (worker' = worker \/ (gen = "start" /\ worker' = "planning"))
    BY <1>9, GeneratorStays DEF PlannerStays
  <2>2. worker' = worker \/ (Early /\ Early')
    BY <2>1 DEF Early, Places
  <2> QED BY <1>1, <2>1, <2>2
<1>10. CASE Lookup(GetOrder) \/ Lookup(StreamOrder) \/ Read \/ UNCHANGED vars
  <2>1. UNCHANGED plannerVars /\ UNCHANGED <<job, todo>> /\ worker' = worker
    BY <1>10, ReaderReads DEF PlannerStays, JobStays, jobVars
  <2> QED BY <1>1, <2>1
<1> QED BY <1>2, <1>3, <1>4, <1>5, <1>6, <1>7, <1>8, <1>9, <1>10 DEF Next, Work

---------------------------------------------------------------------------
(* The types *)

\* Every step of the job's thread keeps every variable in its type.
LEMMA WorkerType ==
    ASSUME PlannerInv, PlannerInv', ApiTypeOK, Places, Stored,
           Register \/ BeginPlanning \/ PlanReturns \/ Store \/ Leave \/ SetDone \/ NotifyDone
    PROVE  ApiTypeOK'
<1> USE DEF ApiTypeOK
<1>1. UNCHANGED plannerVars /\ UNCHANGED <<endpoint, queue, drained, sent, toRead>> /\ PlannerTypeOK'
  BY DEF Register, BeginPlanning, PlanReturns, Store, Leave, SetDone, NotifyDone,
         streamVars, readVars, PlannerInv
<1>2. UNCHANGED <<result, rawCalls>>
  BY <1>1 DEF plannerVars
<1>3. CASE Register
  BY <1>1, <1>2, <1>3 DEF Register
<1>4. CASE BeginPlanning
  BY <1>1, <1>2, <1>4 DEF BeginPlanning, streamVars
<1>5. CASE PlanReturns
  <2>1. StoreOrder \in Seq(Fields)
    BY <1>5, OrderCovers DEF PlanReturns, Early
  <2> QED BY <1>1, <1>2, <1>5, <2>1 DEF PlanReturns, streamVars
<1>6. CASE Store
  <2>1. Head(todo) \in Fields /\ Tail(todo) \in Seq(Fields)
    BY <1>6 DEF Store
  <2>2. /\ Verdict["status"] \in {"queued", "planning", "ready", "failed"}
        /\ Verdict["plan"] = result.plan /\ Verdict["error"] = result.errors
        /\ Verdict["raw_calls"] = rawCalls
    BY DEF Verdict
  <2>3. job' = [job EXCEPT ![Head(todo)] = Verdict[Head(todo)]]
    BY <1>6 DEF Store
  <2>4. job' \in [status    : {"queued", "planning", "ready", "failed"},
                  plan      : {NoPlan, result.plan},
                  error     : {{}, result.errors},
                  raw_calls : {<<>>, rawCalls}]
    BY <2>1, <2>2, <2>3 DEF Fields
  <2> QED BY <1>1, <1>2, <1>6, <2>1, <2>4 DEF Store, streamVars
<1>7. CASE Leave
  BY <1>1, <1>2, <1>7 DEF Leave, streamVars
<1>8. CASE SetDone
  BY <1>1, <1>2, <1>8 DEF SetDone
<1>9. CASE NotifyDone
  BY <1>1, <1>2, <1>9 DEF NotifyDone, Notify
<1> QED BY <1>3, <1>4, <1>5, <1>6, <1>7, <1>8, <1>9

\* Every step keeps every variable in its type.
LEMMA ApiStepType ==
    ASSUME PlannerInv, PlannerInv', ApiTypeOK, Listed', Places, Stored, [Next]_vars
    PROVE  ApiTypeOK'
<1> USE DEF ApiTypeOK
<1>0. PlannerTypeOK'
  BY DEF PlannerInv
<1>1. CASE Register \/ BeginPlanning \/ PlanReturns \/ Store \/ Leave \/ SetDone \/ NotifyDone
  BY <1>1, WorkerType
<1>2. CASE PlanGoesOn
  <2>1. UNCHANGED jobVars /\ UNCHANGED <<done, toRead>> /\ worker = "planning"
    BY <1>2 DEF PlanGoesOn, readVars
  <2>2. job.plan = NoPlan /\ job.error = {} /\ job.raw_calls = <<>>
    BY <2>1 DEF Stored, Early
  <2>3. gen' = gen \/ gen' = "loop"
    BY <1>2 DEF PlanGoesOn, Notify
  <2>4. job' \in [status    : {"queued", "planning", "ready", "failed"},
                  plan      : {NoPlan, result'.plan},
                  error     : {{}, result'.errors},
                  raw_calls : {<<>>, rawCalls'}]
    BY <2>1, <2>2 DEF jobVars
  <2> QED BY <1>0, <2>1, <2>3, <2>4 DEF jobVars, Listed
<1>3. CASE Generate \/ Disconnect
  <2>1. UNCHANGED plannerVars /\ UNCHANGED <<endpoint, registered, job, todo, done>>
        /\ (worker' = worker \/ worker' = "planning")
    BY <1>3, GeneratorStays DEF PlannerStays
  <2>2. UNCHANGED <<result, rawCalls>>
    BY <2>1 DEF plannerVars
  <2>3. UNCHANGED toRead
    BY <1>3 DEF Generate, Start, Sleep, Drain, Deliver, Check, End, Disconnect, readVars
  <2>4. gen' \in {"sent_job", "loop", "asleep", "drained", "sent", "end", "ended", "abandoned"}
    BY <1>3 DEF Generate, Start, Sleep, Drain, Deliver, Check, End, Disconnect
  <2> QED BY <1>0, <2>1, <2>2, <2>3, <2>4 DEF Listed
<1>4. CASE Lookup(GetOrder) \/ Lookup(StreamOrder) \/ Read \/ UNCHANGED vars
  <2>1. UNCHANGED plannerVars /\ UNCHANGED jobVars /\ UNCHANGED streamVars
    BY <1>4, ReaderReads DEF PlannerStays, JobStays, StreamStays
  <2>2. GetOrder \in Seq(Fields \cup {"event"}) /\ StreamOrder \in Seq(Fields \cup {"event"})
    BY DEF GetOrder, StreamOrder, Fields
  <2>3. CASE Lookup(GetOrder) \/ Lookup(StreamOrder)
    <3>1. toRead' \in Seq(Fields \cup {"event"})
      BY <2>2, <2>3 DEF Lookup
    <3> QED BY <1>0, <2>1, <3>1 DEF plannerVars, jobVars, streamVars
  <2>4. CASE Read
    <3>1. toRead # <<>> /\ toRead' = Tail(toRead)
      BY <2>4 DEF Read
    <3>2. toRead' \in Seq(Fields \cup {"event"})
      BY <3>1
    <3> QED BY <1>0, <2>1, <3>2 DEF plannerVars, jobVars, streamVars
  <2>5. CASE UNCHANGED vars
    BY <1>0, <2>1, <2>5 DEF vars, apiVars, plannerVars, jobVars, streamVars, readVars
  <2> QED BY <1>4, <2>3, <2>4, <2>5
<1> QED BY <1>1, <1>2, <1>3, <1>4 DEF Next, Work

---------------------------------------------------------------------------

\* A generator that has ended has delivered the whole trace, and the record is
\* complete.
LEMMA EndFollows == PlannerInv /\ ApiTypeOK /\ Places /\ Stored /\ NothingLost => EndIsFinal
<1> SUFFICES ASSUME PlannerInv, ApiTypeOK, Places, Stored, NothingLost, gen \in {"end", "ended"}
             PROVE  /\ sent = events
                    /\ phase \in {"returned", "raised"}
                    /\ phase = "returned" => job = Verdict
  BY DEF EndIsFinal
<1>1. done /\ queue = <<>> /\ drained = <<>> /\ endpoint = "stream" /\ worker \in {"notify", "exit"}
  BY DEF Places
<1>2. sent \o <<>> \o <<>> = sent
  BY DEF ApiTypeOK
<1>3. sent = events
  BY <1>1, <1>2 DEF NothingLost
<1>4. phase \in {"returned", "raised"}
  BY <1>1 DEF Places
<1>5. ASSUME phase = "returned" PROVE job = Verdict
  <2>1. todo = <<>> /\ ~Early
    BY <1>1 DEF Stored, Early
  <2>2. \A f \in Fields : job[f] = Verdict[f]
    BY <1>5, <2>1 DEF Stored
  <2> QED BY <2>2 DEF ApiTypeOK, Fields, Verdict
<1> QED BY <1>3, <1>4, <1>5

\* The inductive invariant holds before the first step.
LEMMA ApiInvInit == Init => ApiInv
<1> SUFFICES ASSUME Init PROVE ApiInv
  OBVIOUS
<1>1. PlannerInv /\ PlannerTypeOK
  BY PlannerInvInit DEF Init, PlannerInv
<1>2. result.plan = NoPlan /\ result.errors = {} /\ rawCalls = <<>> /\ events = <<>>
  BY DEF Init, PlannerInit
<1>3. ApiTypeOK
  <2>1. /\ <<>> \in Seq(TraceEvents) /\ <<>> \in Seq(Fields)
        /\ <<>> \in Seq(Fields \cup {"event"})
    OBVIOUS
  <2>2. job \in [status    : {"queued", "planning", "ready", "failed"},
                 plan      : {NoPlan, result.plan},
                 error     : {{}, result.errors},
                 raw_calls : {<<>>, rawCalls}]
    BY DEF Init, NewJob
  <2> QED BY <1>1, <2>1, <2>2 DEF Init, ApiTypeOK
<1>4. Places /\ Stored /\ NoMissedNotify /\ EndIsFinal
  BY ApiAssumption DEF Init, Places, Stored, Early, NewJob, NoMissedNotify, EndIsFinal
<1>5. NothingLost
  BY <1>2 DEF Init, NothingLost
<1> QED BY <1>1, <1>3, <1>4, <1>5 DEF ApiInv

\* Every step keeps the inductive invariant.
LEMMA ApiInvStep == ApiInv /\ [Next]_vars => ApiInv'
<1> SUFFICES ASSUME ApiInv, [Next]_vars PROVE ApiInv'
  OBVIOUS
<1>1. PlannerInv'
  BY PlannerPart DEF ApiInv
<1>2. Listed
  BY DEF ApiInv, ApiTypeOK, Listed
<1>3. Listed' /\ NothingLost'
  BY <1>1, <1>2, StreamStep DEF ApiInv
<1>4. Places' /\ NoMissedNotify' /\ Stored'
  BY PlacesStep, NotifyStep, StoreStep DEF ApiInv
<1>5. ApiTypeOK'
  BY <1>1, <1>3, ApiStepType DEF ApiInv
<1>6. EndIsFinal'
  BY <1>1, <1>3, <1>4, <1>5, EndFollows, PTL
<1> QED BY <1>1, <1>3, <1>4, <1>5, <1>6 DEF ApiInv

\* However its thread, the generator, the client and a reader take turns, a job runs
\* plan() as it is written, once and from its beginning (api.py:132-143, 190): what
\* is proved of plan() alone without fairness holds of it in the service.
THEOREM JobRunsPlan == SafeSpec => PlannerInit /\ [][PlannerStep]_plannerVars
<1>1. Init => PlannerInit
  BY DEF Init
<1> QED BY <1>1, NextIsPlan, PTL DEF SafeSpec

\* The record, the two threads and the reader keep their types.
THEOREM ApiTypeCorrect == SafeSpec => []ApiTypeOK
<1>1. ApiInv => ApiTypeOK
  BY DEF ApiInv
<1> QED BY <1>1, ApiInvInit, ApiInvStep, PTL DEF SafeSpec

\* The stream loses, repeats and reorders nothing (api.py:124-127, 157-164).
THEOREM StreamIsTrace == SafeSpec => []NothingLost
<1>1. ApiInv => NothingLost
  BY DEF ApiInv
<1> QED BY <1>1, ApiInvInit, ApiInvStep, PTL DEF SafeSpec

\* A generator that waits has been told everything, or will be (api.py:151-160).
THEOREM WaitIsTold == SafeSpec => []NoMissedNotify
<1>1. ApiInv => NoMissedNotify
  BY DEF ApiInv
<1> QED BY <1>1, ApiInvInit, ApiInvStep, PTL DEF SafeSpec

\* At the end frame the client has the whole trace and the record is complete
\* (api.py:143-153, 165-167).
THEOREM EndFrameIsFinal == SafeSpec => []EndIsFinal
<1>1. ApiInv => EndIsFinal
  BY DEF ApiInv
<1> QED BY <1>1, ApiInvInit, ApiInvStep, PTL DEF SafeSpec

\* A verdict stands, and nothing of the record changes after the end frame
\* (api.py:143-149, 181-197).
THEOREM VerdictIsFinal == SafeSpec => VerdictStands
<1>1. ApiInv /\ [Next]_vars =>
         [/\ job.status \in {"ready", "failed"} => job'.status = job.status
          /\ gen = "ended" => job' = job]_vars
  <2> SUFFICES ASSUME ApiInv, [Next]_vars
               PROVE  /\ job.status \in {"ready", "failed"} => job'.status = job.status
                      /\ gen = "ended" => job' = job
    OBVIOUS
  <2>1. CASE BeginPlanning
    BY <2>1 DEF BeginPlanning, ApiInv, Places, Stored, Early
  <2>2. CASE Store
    <3> DEFINE f == Head(todo)
    <3>1. worker = "storing" /\ phase = "returned" /\ gen # "ended"
      BY <2>2 DEF Store, ApiInv, Places
    <3>2. job.status \in {"queued", "planning", Verdict.status}
      BY <3>1 DEF ApiInv, Stored, Early
    <3>3. job' = [job EXCEPT ![f] = Verdict[f]] /\ f \in Fields
      BY <2>2 DEF Store, ApiInv, ApiTypeOK
    <3>4. job'.status = IF f = "status" THEN Verdict.status ELSE job.status
      BY <3>3 DEF ApiInv, ApiTypeOK, Fields, Verdict
    <3> QED BY <3>1, <3>2, <3>4
  <2>3. CASE ~BeginPlanning /\ ~Store
    <3>1. job' = job
      <4>1. CASE Register \/ PlanReturns \/ Leave \/ SetDone \/ NotifyDone \/ PlanGoesOn
        BY <4>1 DEF Register, PlanReturns, Leave, SetDone, NotifyDone, PlanGoesOn, jobVars
      <4>2. CASE Generate \/ Disconnect
        BY <4>2, GeneratorStays
      <4>3. CASE Lookup(GetOrder) \/ Lookup(StreamOrder) \/ Read \/ UNCHANGED vars
        BY <4>3, ReaderReads DEF JobStays, jobVars
      <4> QED BY <2>3, <4>1, <4>2, <4>3 DEF Next, Work
    <3> QED BY <3>1
  <2> QED BY <2>1, <2>2, <2>3
<1> QED BY <1>1, ApiInvInit, ApiInvStep, PTL DEF SafeSpec, VerdictStands

\* What a client of the stream may count on: a verdict is the last event it gets.
VerdictSentLast ==
    endpoint = "stream" =>
        \A i \in DOMAIN sent : sent[i].type \in {"plan_ready", "plan_failed"} => i = Len(sent)

\* Nothing but the end frame is sent after a verdict (api.py:107-109, 157-167), for the
\* stream is the beginning of the trace.
THEOREM VerdictEndsStream == SafeSpec => []VerdictSentLast
<1>1. ApiInv /\ VerdictIsLast => VerdictSentLast
  <2> SUFFICES ASSUME ApiInv, VerdictIsLast, endpoint = "stream", NEW i \in DOMAIN sent,
                      sent[i].type \in {"plan_ready", "plan_failed"}
               PROVE  i = Len(sent)
    BY DEF VerdictSentLast
  <2> DEFINE rest == drained \o queue
  <2>1. sent \in Seq(TraceEvents) /\ drained \in Seq(TraceEvents) /\ queue \in Seq(TraceEvents)
    BY DEF ApiInv, ApiTypeOK
  <2>2. rest \in Seq(TraceEvents) /\ sent \o rest = events
    <3>1. (sent \o drained) \o queue = events
      BY DEF ApiInv, NothingLost
    <3>2. (sent \o drained) \o queue = sent \o (drained \o queue)
      BY <2>1, ConcatAssociative
    <3>3. drained \o queue \in Seq(TraceEvents)
      BY <2>1, ConcatProperties
    <3> QED BY <3>1, <3>2, <3>3
  <2> HIDE DEF rest
  <2>3. /\ Len(events) = Len(sent) + Len(rest) /\ Len(rest) \in Nat /\ Len(sent) \in Nat
        /\ i \in 1 .. Len(sent) /\ i \in DOMAIN events /\ events[i] = sent[i]
    BY <2>1, <2>2, ConcatProperties
  <2>4. i = Len(events)
    BY <2>3 DEF VerdictIsLast
  <2> QED BY <2>3, <2>4
<1>2. Init => LatestFits /\ VerdictIsLast
  BY DEF Init, PlannerInit, LatestFits, VerdictIsLast
<1>3. ApiInv => PlannerTypeOK
  BY DEF ApiInv, ApiTypeOK
<1>4. ApiInv /\ LatestFits /\ VerdictIsLast /\ [Next]_vars => LatestFits' /\ VerdictIsLast'
  BY <1>3, NextIsPlan, TraceStep, VerdictStep
<1> QED BY <1>1, <1>2, <1>4, ApiInvInit, ApiInvStep, PTL DEF SafeSpec

---------------------------------------------------------------------------
(* The reader: what it puts together from the fields it reads one by one,  *)
(* while the thread that plans stores them, is parts of one verdict, and   *)
(* all of it after the end frame or the response to a submission.          *)

\* The reader has not come to field f.
Unread(f) == \E i \in DOMAIN toRead : toRead[i] = f

\* The reader began when nothing of the record could change any more.
Late == seen.after_end \/ endpoint = "submit"

\* What was read is as it was at the beginning, or is the verdict's.
ReaderInv ==
    /\ seen = <<>> => toRead = <<>>
    /\ seen # <<>> =>
          /\ DOMAIN seen = Fields \cup {"event", "after_end"}
          /\ seen.after_end => gen = "ended"
          /\ endpoint = "submit" => worker = "exit"
          /\ ~Unread("status") =>
                \/ seen.status \in {"queued", "planning"}
                \/ ~Early /\ phase = "returned" /\ seen.status = Verdict.status
          /\ ~Unread("plan")  => seen.plan = NoPlan \/ (~Early /\ seen.plan = result.plan)
          /\ ~Unread("error") => seen.error = {} \/ (~Early /\ seen.error = result.errors)
          /\ Late /\ phase = "returned" => \A f \in Fields : Unread(f) \/ seen[f] = Verdict[f]

\* Once plan() has ended it and the thread that called it do not go back.
LEMMA PlanStaysOver ==
    ASSUME ApiInv, [Next]_vars, ~Early
    PROVE  /\ ~Early' /\ PlannerStays /\ (worker = "exit" => worker' = "exit")
           /\ gen = "ended" => gen' = "ended"
<1> USE DEF Early, ApiInv, Places
<1>1. CASE Register \/ BeginPlanning \/ PlanReturns \/ Store \/ Leave \/ SetDone \/ NotifyDone
  BY <1>1 DEF Register, BeginPlanning, PlanReturns, Store, Leave, SetDone, NotifyDone, Notify,
              PlannerStays, streamVars
<1>2. CASE PlanGoesOn
  BY <1>2 DEF PlanGoesOn
<1>3. CASE Generate \/ Disconnect
  <2>1. gen # "start"
    OBVIOUS
  <2>2. PlannerStays /\ worker' = worker
    BY <1>3, <2>1, GeneratorStays
  <2>3. gen = "ended" => gen' = "ended"
    BY <1>3 DEF Generate, Start, Sleep, Drain, Deliver, Check, End, Disconnect, Looking
  <2> QED BY <2>2, <2>3
<1>4. CASE Lookup(GetOrder) \/ Lookup(StreamOrder) \/ Read \/ UNCHANGED vars
  BY <1>4, ReaderReads DEF JobStays, StreamStays, jobVars, streamVars
<1> QED BY <1>1, <1>2, <1>3, <1>4 DEF Next, Work

\* The request is what it is.
LEMMA EndpointStays == ASSUME [Next]_vars PROVE endpoint' = endpoint
<1>1. CASE Register \/ BeginPlanning \/ PlanReturns \/ Store \/ Leave \/ SetDone \/ NotifyDone \/ PlanGoesOn
  BY <1>1 DEF Register, BeginPlanning, PlanReturns, Store, Leave, SetDone, NotifyDone, PlanGoesOn,
              jobVars
<1>2. CASE Generate \/ Disconnect
  BY <1>2, GeneratorStays
<1>3. CASE Lookup(GetOrder) \/ Lookup(StreamOrder) \/ Read \/ UNCHANGED vars
  BY <1>3, ReaderReads DEF JobStays, jobVars
<1> QED BY <1>1, <1>2, <1>3 DEF Next, Work

\* A late reader finds the verdict.
LEMMA LateIsOver ==
    ASSUME ApiInv, ReaderInv, seen # <<>>, Late
    PROVE  /\ ~Early
           /\ phase = "returned" => \A f \in Fields : job[f] = Verdict[f]
<1>1. worker \in {"notify", "exit"}
  BY DEF ReaderInv, Late, ApiInv, Places
<1>2. ~Early /\ todo = <<>>
  BY <1>1 DEF ApiInv, Stored, Early
<1> QED BY <1>2 DEF ApiInv, Stored

\* Steps of the others keep what was read true.
LEMMA OthersKeep ==
    ASSUME ApiInv, ReaderInv, [Next]_vars, UNCHANGED readVars
    PROVE  ReaderInv'
<1>1. seen' = seen /\ toRead' = toRead /\ endpoint' = endpoint
  BY EndpointStays DEF readVars
<1>2. \A f : Unread(f)' <=> Unread(f)
  BY <1>1 DEF Unread
<1>3. CASE seen = <<>>
  BY <1>1, <1>3 DEF ReaderInv
<1>4. CASE seen # <<>> /\ Early
  <2>1. ~Late
    BY <1>4, LateIsOver
  <2> QED BY <1>1, <1>2, <1>4, <2>1 DEF ReaderInv, Late
<1>5. CASE seen # <<>> /\ ~Early
  <2>1. /\ ~Early' /\ (worker = "exit" => worker' = "exit")
        /\ gen = "ended" => gen' = "ended"
        /\ phase' = phase /\ result' = result /\ Verdict' = Verdict
    BY <1>5, PlanStaysOver DEF PlannerStays, plannerVars, Verdict, Planned
  <2> QED BY <1>1, <1>2, <1>5, <2>1 DEF ReaderInv, Late
<1> QED BY <1>3, <1>4, <1>5

\* A reader that begins has read nothing.
LEMMA LookupKeeps ==
    ASSUME ApiInv, Lookup(GetOrder) \/ Lookup(StreamOrder)
    PROVE  ReaderInv'
<1>1. PICK order \in {GetOrder, StreamOrder} : Lookup(order)
  OBVIOUS
<1>2. \A f \in Fields : \E i \in DOMAIN order : order[i] = f
  <2>1. \A f \in Fields : \E i \in DOMAIN GetOrder : GetOrder[i] = f
    BY DEF GetOrder, Fields
  <2>2. /\ DOMAIN StreamOrder = 1 .. 5
        /\ StreamOrder[2] = "status" /\ StreamOrder[3] = "plan"
        /\ StreamOrder[4] = "error" /\ StreamOrder[5] = "raw_calls"
    BY DEF StreamOrder, GetOrder
  <2>3. \A f \in Fields : \E i \in DOMAIN StreamOrder : StreamOrder[i] = f
    BY <2>2 DEF Fields
  <2> QED BY <1>1, <2>1, <2>3
<1>3. \A f \in Fields : Unread(f)'
  BY <1>1, <1>2 DEF Lookup, Unread
<1>4. /\ DOMAIN seen' = Fields \cup {"event", "after_end"}
      /\ seen'.after_end = (gen = "ended")
  BY <1>1 DEF Lookup, Fields
<1>5. seen' # <<>>
  BY <1>4
<1>6. gen' = gen /\ worker' = worker /\ endpoint' = endpoint
  BY <1>1 DEF Lookup, jobVars, streamVars
<1>7. endpoint = "submit" => worker = "exit"
  BY <1>1 DEF Lookup, IdKnown
<1>8. {"status", "plan", "error"} \subseteq Fields
  BY DEF Fields
<1> QED BY <1>3, <1>4, <1>5, <1>6, <1>7, <1>8 DEF ReaderInv

\* A field that is read is as it was, or the verdict's.
LEMMA ReadKeeps ==
    ASSUME ApiInv, ReaderInv, Read
    PROVE  ReaderInv'
<1> DEFINE h == Head(toRead)
           v == IF h = "event" THEN job.status ELSE job[h]
<1>1. /\ toRead # <<>> /\ toRead' = Tail(toRead) /\ seen' = [seen EXCEPT ![h] = v]
      /\ UNCHANGED <<plannerVars, jobVars, streamVars>>
  BY DEF Read
<1>2. toRead \in Seq(Fields \cup {"event"}) /\ h \in Fields \cup {"event"}
  BY <1>1 DEF ApiInv, ApiTypeOK
<1>3. seen # <<>> /\ DOMAIN seen = Fields \cup {"event", "after_end"}
  BY <1>1 DEF ReaderInv
<1>4. /\ DOMAIN seen' = Fields \cup {"event", "after_end"}
      /\ \A g \in Fields \cup {"event", "after_end"} : seen'[g] = IF g = h THEN v ELSE seen[g]
  BY <1>1, <1>3
<1>5. seen' # <<>>
  BY <1>4
<1>6. ASSUME NEW g, g # h, Unread(g) PROVE Unread(g)'
  <2>1. PICK i \in DOMAIN toRead : toRead[i] = g
    BY <1>6 DEF Unread
  <2>2. i # 1 /\ i - 1 \in DOMAIN Tail(toRead) /\ Tail(toRead)[i - 1] = g
    BY <1>1, <1>2, <1>6, <2>1
  <2> QED BY <1>1, <2>2 DEF Unread
<1>7. seen'.after_end = seen.after_end
  BY <1>2, <1>4 DEF Fields
<1>8. /\ endpoint' = endpoint /\ worker' = worker /\ gen' = gen /\ phase' = phase
      /\ result' = result /\ Verdict' = Verdict
  BY <1>1 DEF plannerVars, jobVars, streamVars, Verdict, Planned
<1>9. Early' = Early /\ Late' = Late
  BY <1>7, <1>8 DEF Early, Late
<1>10. ~Unread("status")' => \/ seen'.status \in {"queued", "planning"}
                             \/ ~Early /\ phase = "returned" /\ seen'.status = Verdict.status
  <2>1. CASE h = "status"
    <3>1. seen'.status = job.status
      BY <1>4, <2>1 DEF Fields
    <3>2. ~Early => phase \in {"returned", "raised"}
      BY DEF ApiInv, ApiTypeOK, Places, Early
    <3> QED BY <3>1, <3>2 DEF ApiInv, Stored
  <2>2. CASE h # "status"
    <3>1. seen'.status = seen.status
      BY <1>4, <2>2 DEF Fields
    <3> QED BY <1>3, <1>6, <2>2, <3>1 DEF ReaderInv
  <2> QED BY <2>1, <2>2
<1>11. ~Unread("plan")' => seen'.plan = NoPlan \/ (~Early /\ seen'.plan = result.plan)
  <2>1. CASE h = "plan"
    <3>1. seen'.plan = job.plan
      BY <1>4, <2>1 DEF Fields
    <3> QED BY <3>1 DEF ApiInv, ApiTypeOK, Stored
  <2>2. CASE h # "plan"
    <3>1. seen'.plan = seen.plan
      BY <1>4, <2>2 DEF Fields
    <3> QED BY <1>3, <1>6, <2>2, <3>1 DEF ReaderInv
  <2> QED BY <2>1, <2>2
<1>12. ~Unread("error")' => seen'.error = {} \/ (~Early /\ seen'.error = result.errors)
  <2>1. CASE h = "error"
    <3>1. seen'.error = job.error
      BY <1>4, <2>1 DEF Fields
    <3> QED BY <3>1 DEF ApiInv, ApiTypeOK, Stored
  <2>2. CASE h # "error"
    <3>1. seen'.error = seen.error
      BY <1>4, <2>2 DEF Fields
    <3> QED BY <1>3, <1>6, <2>2, <3>1 DEF ReaderInv
  <2> QED BY <2>1, <2>2
<1>13. ASSUME Late, phase = "returned", NEW f \in Fields PROVE Unread(f)' \/ seen'[f] = Verdict[f]
  <2>1. job[f] = Verdict[f]
    BY <1>3, <1>13, LateIsOver
  <2>2. CASE h = f
    <3>1. seen'[f] = job[f]
      BY <1>4, <2>2 DEF Fields
    <3> QED BY <2>1, <3>1
  <2>3. CASE h # f
    <3>1. seen'[f] = seen[f]
      BY <1>4, <2>3
    <3> QED BY <1>3, <1>6, <1>13, <2>3, <3>1 DEF ReaderInv
  <2> QED BY <2>2, <2>3
<1> HIDE DEF h, v
<1> QED BY <1>3, <1>4, <1>5, <1>7, <1>8, <1>9, <1>10, <1>11, <1>12, <1>13 DEF ReaderInv

\* Every step keeps what was read true.
LEMMA ReaderStep == ApiInv /\ ReaderInv /\ [Next]_vars => ReaderInv'
<1> SUFFICES ASSUME ApiInv, ReaderInv, [Next]_vars PROVE ReaderInv'
  OBVIOUS
<1>1. CASE Register \/ Work
  <2>1. UNCHANGED readVars
    BY <1>1 DEF Register, Work, BeginPlanning, PlanGoesOn, PlanReturns, Store, Leave, SetDone, NotifyDone
  <2> QED BY <2>1, OthersKeep
<1>2. CASE Generate \/ Disconnect
  <2>1. UNCHANGED readVars
    BY <1>2 DEF Generate, Start, Sleep, Drain, Deliver, Check, End, Disconnect
  <2> QED BY <2>1, OthersKeep
<1>3. CASE Lookup(GetOrder) \/ Lookup(StreamOrder)
  BY <1>3, LookupKeeps
<1>4. CASE Read
  BY <1>4, ReadKeeps
<1>5. CASE UNCHANGED vars
  BY <1>5, OthersKeep DEF vars, apiVars
<1> QED BY <1>1, <1>2, <1>3, <1>4, <1>5 DEF Next

\* A reader never mixes the two verdicts, the plan it gets is the verified one, and after
\* the end frame or the response it gets the whole record (api.py:77-83, 200-208).
THEOREM ReadsAreOneVerdict == SafeSpec => []ReadsAgree
<1>1. Init => ApiInv /\ ReaderInv
  BY ApiInvInit DEF Init, ReaderInv
<1>2. ApiInv /\ ReaderInv => ReadsAgree
  <2> SUFFICES ASSUME ApiInv, ReaderInv, seen # <<>>, toRead = <<>>
               PROVE  /\ seen.status = "ready" => seen.error = {}
                      /\ seen.status = "failed" => seen.plan = NoPlan
                      /\ seen.plan # NoPlan => seen.plan = result.plan /\ Planned
                      /\ phase = "returned" /\ Late => \A f \in Fields : seen[f] = Verdict[f]
    BY DEF ReadsAgree, Late
  <2>1. \A f : ~Unread(f)
    BY DEF Unread
  <2>2. Verdict.status = IF Planned THEN "ready" ELSE "failed"
    BY DEF Verdict
  <2>3. Planned => result.errors = {}
    BY DEF ApiInv, PlannerInv, PlanFitsSource, Planned
  <2> QED BY <2>1, <2>2, <2>3 DEF ReaderInv, Planned
<1> QED BY <1>1, <1>2, ReaderStep, ApiInvStep, PTL DEF SafeSpec
=============================================================================
