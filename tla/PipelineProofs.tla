---------------------------- MODULE PipelineProofs ----------------------------
(***************************************************************************)
(* What the render daemon guarantees for any jobs, ids and handlers: every *)
(* accepted job is answered in its turn, a success points to the output of *)
(* its own job, and a stop first answers what was accepted before it.      *)
(***************************************************************************)
EXTENDS Pipeline, Integers, TLAPS

---------------------------------------------------------------------------
(* The types *)

\* The daemon starts with its variables in their types.
LEMMA PipelineInitType == Init => PipelineTypeOK
<1>1. <<>> \in Seq(Jobs)
  OBVIOUS
<1> QED BY <1>1, PipelineAssumption DEF Init, PipelineTypeOK, Queue!Init

\* A step of the server keeps every variable in its type.
LEMMA ServerType ==
    ASSUME PipelineTypeOK,
           \/ \E h \in Handlers : Serve(h) \/ \E j \in Jobs : Receive(h, j)
           \/ Signal \/ Main
    PROVE  PipelineTypeOK'
<1> USE PipelineAssumption DEF PipelineTypeOK
<1>1. ASSUME NEW h \in Handlers, NEW j \in Jobs, Receive(h, j)
      PROVE  PipelineTypeOK'
  BY <1>1 DEF Receive, Queue!Offer, workVars
<1>2. ASSUME NEW h \in Handlers, Enqueue(h)
      PROVE  PipelineTypeOK'
  <2>1. offer[h] \in Jobs
    BY <1>2 DEF Enqueue
  <2>2. /\ items' \in Seq(Jobs) /\ accepted' \in Seq(Jobs) /\ Len(accepted') = Len(accepted) + 1
        /\ offer' = [offer EXCEPT ![h] = NoJob] /\ handler' = [handler EXCEPT ![h] = "respond"]
    BY <1>2, <2>1 DEF Enqueue, Queue!Accept
  <2>3. UNCHANGED <<outcome, cancelled, main, signalAt, workVars>>
    BY <1>2 DEF Enqueue, Queue!Accept
  <2> QED BY <2>2, <2>3 DEF workVars
<1>3. ASSUME NEW h \in Handlers, Respond(h)
      PROVE  PipelineTypeOK'
  BY <1>3 DEF Respond, queueVars, workVars
<1>4. CASE Signal
  BY <1>4 DEF Signal, queueVars, workVars
<1>5. CASE CancelContext
  BY <1>5 DEF CancelContext, Queue!Cancel, workVars
<1>6. CASE CloseListener \/ ShutdownReturns \/ Exit
  BY <1>6 DEF CloseListener, ShutdownReturns, Exit, queueVars, workVars
<1> QED BY <1>1, <1>2, <1>3, <1>4, <1>5, <1>6 DEF Serve, Main

\* Storing a result keeps the types.
LEMMA EndsType ==
    ASSUME PipelineTypeOK, WorkerPlaces, NEW ok \in BOOLEAN, Busy, SetResult(ok),
           UNCHANGED <<queueVars, serverVars, files, uploaded>>
    PROVE  PipelineTypeOK'
<1>1. current \in Jobs /\ Id \in Ids
  BY PipelineAssumption DEF PipelineTypeOK, WorkerPlaces, Id
<1>2. results' \in [Ids -> [job : Jobs, ok : BOOLEAN] \cup {NoResult}]
  BY <1>1 DEF SetResult, PipelineTypeOK
<1> QED BY <1>2 DEF SetResult, PipelineTypeOK, queueVars, serverVars

\* The ways in which the worker ends its work on a job.
LEMMA Endings ==
    ASSUME RunFails \/ RunExitsBad \/ UploadFails \/ CopyFails \/ Report
    PROVE  /\ Busy /\ UNCHANGED <<queueVars, serverVars, files, uploaded>>
           /\ \E ok \in BOOLEAN : SetResult(ok) /\ (ok => worker = "report")
BY DEF RunFails, RunExitsBad, UploadFails, CopyFails, Report, Busy

\* A step of the worker keeps every variable in its type.
LEMMA WorkType ==
    ASSUME PipelineTypeOK, WorkerPlaces, Work
    PROVE  PipelineTypeOK'
<1> USE PipelineAssumption DEF PipelineTypeOK
<1>0. Busy => current \in Jobs /\ Id \in Ids /\ Scratch \in Paths /\ Output \in Paths
  BY DEF WorkerPlaces, Id, Scratch, Output
<1>1. CASE CallPop
  BY <1>1 DEF CallPop, Queue!Ask, serverVars
<1>2. CASE PopReturns
  <2>1. Head(items) \in Jobs /\ Tail(items) \in Seq(Jobs)
    BY <1>2 DEF PopReturns, Queue!Serve
  <2>2. outcome' = [outcome EXCEPT ![Worker] = Head(items)] /\ items' = Tail(items)
        /\ UNCHANGED <<offer, cancelled>>
    BY <1>2 DEF PopReturns, Queue!Serve
  <2>3. outcome'[Worker] = Head(items)
    BY <2>2
  <2> QED BY <1>2, <2>1, <2>2, <2>3 DEF PopReturns, serverVars
<1>3. CASE PopFails
  BY <1>3 DEF PopFails, Queue!Refuse, serverVars
<1>4. CASE RunStarts
  BY <1>0, <1>4 DEF RunStarts, Busy, queueVars, serverVars
<1>5. CASE RunExitsGood
  BY <1>0, <1>5 DEF RunExitsGood, Busy, queueVars, serverVars
<1>6. CASE UploadCreates
  BY <1>0, <1>6 DEF UploadCreates, Busy, queueVars, serverVars
<1>7. CASE CopyEnds
  BY <1>0, <1>7 DEF CopyEnds, Busy, queueVars, serverVars
<1>8. CASE RunFails \/ RunExitsBad \/ UploadFails \/ CopyFails \/ Report
  BY <1>8, Endings, EndsType
<1> QED BY <1>1, <1>2, <1>3, <1>4, <1>5, <1>6, <1>7, <1>8 DEF Work

---------------------------------------------------------------------------
(* Every job is answered *)

\* The counts are numbers, and the jobs answered are among those accepted.
LEMMA Counts ==
    ASSUME PipelineTypeOK, EveryJobIsAnswered
    PROVE  /\ Len(accepted) \in Nat /\ Len(items) \in Nat
           /\ Taken \in 0 .. Len(accepted) /\ Answered \in Int /\ Answered <= Taken
           /\ current # NoJob => Answered = Taken - 1 /\ Answered \in Nat
           /\ current = NoJob => Answered = Taken
BY DEF PipelineTypeOK, EveryJobIsAnswered, Taken, Answered

\* If no accepted job below the count, and no result, has changed, the results are
\* still those of the answered jobs.
LEMMA SameAnswers ==
    ASSUME PipelineTypeOK, EveryJobIsAnswered, results' = results, Answered' = Answered,
           \A k \in 1 .. Answered : accepted'[k] = accepted[k]
    PROVE  LastAnswerShows'
<1>1. \A i \in Ids : {k \in 1 .. Answered' : IdOf[accepted'[k]] = i}
                     = {k \in 1 .. Answered : IdOf[accepted[k]] = i}
  OBVIOUS
<1>2. \A i \in Ids : \A k \in 1 .. Answered : accepted'[k] = accepted[k]
  OBVIOUS
<1> QED BY <1>1, <1>2 DEF EveryJobIsAnswered, LastAnswerShows

\* A step that leaves the queue, the job in work and the results alone.
LEMMA QuietStep ==
    ASSUME PipelineTypeOK, EveryJobIsAnswered,
           UNCHANGED <<items, accepted, current, results>>
    PROVE  EveryJobIsAnswered'
<1>1. Taken' = Taken /\ Answered' = Answered
  BY DEF Taken, Answered
<1>2. \A k \in 1 .. Answered : accepted'[k] = accepted[k]
  OBVIOUS
<1> QED BY <1>1, <1>2, SameAnswers DEF EveryJobIsAnswered

\* A further job at the end of the queue.
LEMMA AcceptStep ==
    ASSUME PipelineTypeOK, EveryJobIsAnswered, NEW h \in Handlers, Enqueue(h)
    PROVE  EveryJobIsAnswered'
<1> DEFINE j == offer[h]
<1>1. j \in Jobs
  BY DEF Enqueue, PipelineTypeOK
<1>2. /\ items' = Append(items, j) /\ accepted' = Append(accepted, j)
      /\ UNCHANGED <<current, results>>
  BY DEF Enqueue, Queue!Accept, workVars
<1>3. items \in Seq(Jobs) /\ accepted \in Seq(Jobs)
  BY DEF PipelineTypeOK
<1> HIDE DEF j
<1>4. Len(items') = Len(items) + 1 /\ Len(accepted') = Len(accepted) + 1
  BY <1>1, <1>2, <1>3
<1>5. Taken' = Taken /\ Answered' = Answered
  BY <1>2, <1>3, <1>4 DEF Taken, Answered
<1>6. \A k \in 1 .. Len(accepted) : accepted'[k] = accepted[k]
  BY <1>1, <1>2, <1>3
<1>7. \A k \in 1 .. Answered : accepted'[k] = accepted[k]
  BY <1>6, Counts
<1>8. \A k \in 1 .. Len(items') : items'[k] = accepted'[Taken' + k]
  <2>1. ASSUME NEW k \in 1 .. Len(items)
        PROVE  items'[k] = accepted'[Taken' + k]
    <3>1. items'[k] = items[k]
      BY <1>1, <1>2, <1>3
    <3>2. items[k] = accepted[Taken + k]
      BY DEF EveryJobIsAnswered
    <3>3. Taken + k \in 1 .. Len(accepted)
      BY <1>3, Counts DEF Taken
    <3> QED BY <1>5, <1>6, <3>1, <3>2, <3>3
  <2>2. items'[Len(items) + 1] = j
    BY <1>1, <1>2, <1>3
  <2>3. Taken + Len(items) + 1 = Len(accepted) + 1
    BY <1>3 DEF Taken
  <2>4. accepted'[Len(accepted) + 1] = j
    BY <1>1, <1>2, <1>3
  <2>5. items'[Len(items) + 1] = accepted'[Taken' + (Len(items) + 1)]
    BY <1>3, <1>5, <2>2, <2>3, <2>4, Counts
  <2> QED BY <1>3, <1>4, <2>1, <2>5
<1>9. current' # NoJob => Taken' > 0 /\ current' = accepted'[Taken']
  BY <1>2, <1>5, <1>6, Counts DEF EveryJobIsAnswered
<1>10. LastAnswerShows'
  BY <1>2, <1>5, <1>7, SameAnswers
<1>11. Len(items') <= Len(accepted')
  BY <1>3, <1>4 DEF EveryJobIsAnswered
<1> QED BY <1>8, <1>9, <1>10, <1>11 DEF EveryJobIsAnswered

\* The worker takes the oldest job of the queue.
LEMMA TakeStep ==
    ASSUME PipelineTypeOK, WorkerPlaces, EveryJobIsAnswered, PopReturns
    PROVE  EveryJobIsAnswered'
<1>1. /\ items # <<>> /\ items' = Tail(items)
      /\ outcome' = [outcome EXCEPT ![Worker] = Head(items)] /\ current' = outcome'[Worker]
      /\ UNCHANGED <<accepted, results>> /\ worker = "pop"
  BY DEF PopReturns, Queue!Serve, serverVars
<1>2. items \in Seq(Jobs) /\ accepted \in Seq(Jobs)
  BY DEF PipelineTypeOK
<1>3. current' = Head(items) /\ current' \in Jobs /\ current' # NoJob /\ current = NoJob
  BY <1>1, <1>2, PipelineAssumption DEF PipelineTypeOK, WorkerPlaces, Busy
<1>4. Len(items') = Len(items) - 1 /\ Len(items) > 0
  BY <1>1, <1>2
<1>5. Taken' = Taken + 1 /\ Answered' = Answered
  BY <1>1, <1>2, <1>3, <1>4, Counts DEF Taken, Answered
<1>6. current' = accepted[Taken + 1]
  BY <1>2, <1>3, <1>4 DEF EveryJobIsAnswered
<1>7. \A k \in 1 .. Len(items') : items'[k] = accepted'[Taken' + k]
  <2>1. ASSUME NEW k \in 1 .. Len(items')
        PROVE  items'[k] = accepted'[Taken' + k]
    <3>1. items'[k] = items[k + 1] /\ k + 1 \in 1 .. Len(items)
      BY <1>1, <1>2, <1>4
    <3>2. items[k + 1] = accepted[Taken + (k + 1)]
      BY <3>1 DEF EveryJobIsAnswered
    <3>3. Taken + (k + 1) = Taken' + k
      BY <1>5, Counts
    <3> QED BY <1>1, <3>1, <3>2, <3>3
  <2> QED BY <2>1
<1>8. \A k \in 1 .. Answered : accepted'[k] = accepted[k]
  BY <1>1
<1>9. LastAnswerShows'
  BY <1>1, <1>5, <1>8, SameAnswers
<1>10. Len(items') <= Len(accepted') /\ Taken' > 0 /\ current' = accepted'[Taken']
  BY <1>1, <1>4, <1>5, <1>6, Counts DEF EveryJobIsAnswered
<1> QED BY <1>7, <1>9, <1>10 DEF EveryJobIsAnswered

\* The worker stores the result of the job it worked on.
LEMMA AnswerStep ==
    ASSUME PipelineTypeOK, WorkerPlaces, EveryJobIsAnswered, Busy, NEW ok \in BOOLEAN,
           SetResult(ok), UNCHANGED <<queueVars, serverVars>>
    PROVE  EveryJobIsAnswered'
<1>1. /\ current \in Jobs /\ current # NoJob /\ Id \in Ids
      /\ current = accepted[Taken] /\ Taken > 0
  BY PipelineAssumption DEF PipelineTypeOK, WorkerPlaces, Id, EveryJobIsAnswered
<1>2. /\ results' = [results EXCEPT ![Id] = [job |-> current, ok |-> ok]] /\ current' = NoJob
      /\ UNCHANGED <<items, accepted>>
  BY DEF SetResult, queueVars, serverVars
<1>3. Taken' = Taken /\ Answered' = Taken /\ Answered = Taken - 1 /\ Taken \in Nat
  <2>1. Answered = Taken - 1 /\ Taken \in Nat
    BY <1>1, Counts
  <2>2. Taken' = Taken
    BY <1>2 DEF Taken
  <2>3. Answered' = Taken'
    BY <1>2 DEF Answered
  <2> QED BY <2>1, <2>2, <2>3
<1>4. ASSUME NEW i \in Ids
      PROVE  LET mine == {k \in 1 .. Answered' : IdOf[accepted'[k]] = i}
             IN  IF mine = {} THEN results'[i] = NoResult
                 ELSE \E k \in mine : /\ \A l \in mine : l <= k
                                      /\ results'[i] # NoResult
                                      /\ results'[i].job = accepted'[k]
  <2> DEFINE old == {k \in 1 .. Answered : IdOf[accepted[k]] = i}
             new == {k \in 1 .. Answered' : IdOf[accepted'[k]] = i}
  <2>1. CASE i = Id
    <3>1. Taken \in new /\ \A l \in new : l <= Taken
      BY <1>1, <1>2, <1>3, <2>1 DEF Id
    <3>2. results'[i] = [job |-> current, ok |-> ok] /\ results'[i] # NoResult
      BY <1>1, <1>2, <2>1, PipelineAssumption DEF PipelineTypeOK
    <3>3. results'[i].job = accepted'[Taken]
      BY <1>1, <1>2, <3>2
    <3> QED BY <3>1, <3>2, <3>3
  <2>2. CASE i # Id
    <3>1. new = old
      BY <1>1, <1>2, <1>3, <2>2 DEF Id
    <3>2. results'[i] = results[i]
      BY <1>2, <2>2 DEF PipelineTypeOK
    <3>3. accepted' = accepted
      BY <1>2
    <3>4. IF old = {} THEN results[i] = NoResult
          ELSE \E k \in old : /\ \A l \in old : l <= k
                              /\ results[i] # NoResult
                              /\ results[i].job = accepted[k]
      BY DEF EveryJobIsAnswered, LastAnswerShows
    <3> HIDE DEF old, new
    <3>5. IF new = {} THEN results'[i] = NoResult
          ELSE \E k \in new : /\ \A l \in new : l <= k
                              /\ results'[i] # NoResult
                              /\ results'[i].job = accepted'[k]
      BY <3>1, <3>2, <3>3, <3>4
    <3> QED BY <3>5 DEF new
  <2> QED BY <2>1, <2>2
<1>5. LastAnswerShows'
  BY <1>4 DEF LastAnswerShows
<1> QED BY <1>2, <1>3, <1>5 DEF EveryJobIsAnswered

\* Every step of the daemon takes jobs in their order and answers each.
LEMMA AnsweredStep ==
    ASSUME PipelineTypeOK, WorkerPlaces, EveryJobIsAnswered, [Next]_vars
    PROVE  EveryJobIsAnswered'
<1>1. ASSUME NEW h \in Handlers, Enqueue(h) PROVE EveryJobIsAnswered'
  BY <1>1, AcceptStep
<1>2. CASE PopReturns
  BY <1>2, TakeStep
<1>3. CASE RunFails \/ RunExitsBad \/ UploadFails \/ CopyFails \/ Report
  <2>1. PICK ok \in BOOLEAN : SetResult(ok)
    BY <1>3, Endings
  <2> QED BY <1>3, <2>1, Endings, AnswerStep
<1>4. CASE UNCHANGED <<items, accepted, current, results>>
  BY <1>4, QuietStep
<1>5. ASSUME NEW h \in Handlers, Respond(h) \/ \E j \in Jobs : Receive(h, j)
      PROVE  UNCHANGED <<items, accepted, current, results>>
  BY <1>5 DEF Respond, Receive, Queue!Offer, queueVars, workVars
<1>6. ASSUME Signal \/ Main
      PROVE  UNCHANGED <<items, accepted, current, results>>
  BY <1>6 DEF Signal, Main, CancelContext, CloseListener, ShutdownReturns, Exit, Queue!Cancel,
              queueVars, workVars
<1>7. ASSUME \/ CallPop \/ PopFails \/ RunStarts \/ RunExitsGood \/ UploadCreates \/ CopyEnds
             \/ UNCHANGED vars
      PROVE  UNCHANGED <<items, accepted, current, results>>
  BY <1>7 DEF CallPop, PopFails, RunStarts, RunExitsGood, UploadCreates, CopyEnds, vars,
              Queue!Ask, Queue!Refuse, queueVars, serverVars, workVars
<1> QED BY <1>1, <1>2, <1>3, <1>4, <1>5, <1>6, <1>7 DEF Next, Serve, Work

---------------------------------------------------------------------------
(* The worker's place *)

\* The job in work has two files.
LEMMA FilePaths ==
    ASSUME PipelineTypeOK, WorkerPlaces, Busy
    PROVE  /\ current \in Jobs /\ Id \in Ids
           /\ Scratch \in Paths /\ Output \in Paths /\ Scratch # Output
           /\ FilesOf(current) = {Scratch, Output}
BY PipelineAssumption, PathAssumption
   DEF PipelineTypeOK, WorkerPlaces, Id, Scratch, Output, FilesOf

\* A step of the server: only a signalled main() cancels, and only an exit needs the
\* worker gone.
LEMMA ServerPlaces ==
    ASSUME PipelineTypeOK, EveryJobIsAnswered, WorkerPlaces,
           \/ \E h \in Handlers : Serve(h) \/ \E j \in Jobs : Receive(h, j)
           \/ Signal \/ Main
    PROVE  WorkerPlaces'
<1>0. UNCHANGED workVars /\ UNCHANGED outcome
  BY DEF Serve, Receive, Enqueue, Respond, Signal, Main, CancelContext, CloseListener,
         ShutdownReturns, Exit, Queue!Offer, Queue!Accept, Queue!Cancel, queueVars
<1>1. /\ Id' = Id /\ Busy' = Busy /\ worker' = worker /\ current' = current
      /\ files' = files /\ outcome' = outcome /\ Scratch' = Scratch /\ Output' = Output
  BY <1>0 DEF workVars, Id, Busy, Scratch, Output
<1>2. ASSUME NEW h \in Handlers, Serve(h) \/ \E j \in Jobs : Receive(h, j)
      PROVE  WorkerPlaces'
  <2>1. cancelled' = cancelled /\ main' = main /\ signalAt' = signalAt
    BY <1>2 DEF Serve, Receive, Enqueue, Respond, Queue!Offer, Queue!Accept, queueVars
  <2>2. Answered' = Answered
    <3>1. CASE Enqueue(h)
      <4>1. offer[h] \in Jobs /\ items' = Append(items, offer[h]) /\ accepted' = Append(accepted, offer[h])
        BY <3>1 DEF Enqueue, Queue!Accept, PipelineTypeOK
      <4>2. Len(items') = Len(items) + 1 /\ Len(accepted') = Len(accepted) + 1
            /\ Len(items) \in Nat /\ Len(accepted) \in Nat
        BY <4>1 DEF PipelineTypeOK
      <4> QED BY <1>1, <4>2 DEF Answered, Taken
    <3>2. CASE ~Enqueue(h)
      <4>1. items' = items /\ accepted' = accepted
        BY <1>2, <3>2 DEF Serve, Receive, Respond, Queue!Offer, queueVars
      <4> QED BY <1>1, <4>1 DEF Answered, Taken
    <3> QED BY <3>1, <3>2
  <2> QED BY <1>1, <2>1, <2>2 DEF WorkerPlaces, Cancelled
<1>3. CASE Signal
  <2>1. /\ main = "serving" /\ main' = "signalled" /\ cancelled' = cancelled
        /\ items' = items /\ accepted' = accepted
    BY <1>3 DEF Signal, queueVars
  <2> QED BY <1>1, <2>1 DEF WorkerPlaces, Cancelled
<1>4. CASE Main
  <2>1. items' = items /\ accepted' = accepted /\ signalAt' = signalAt
    BY <1>4 DEF Main, CancelContext, CloseListener, ShutdownReturns, Exit, Queue!Cancel, queueVars
  <2>2. Answered' = Answered
    BY <1>1, <2>1 DEF Answered, Taken
  <2>3. CASE CancelContext
    <3>1. cancelled'[Worker] /\ main' = "cancelled"
      BY <2>3 DEF CancelContext, Queue!Cancel, PipelineTypeOK
    <3> QED BY <1>1, <2>1, <2>2, <3>1 DEF WorkerPlaces, Cancelled
  <2>4. CASE CloseListener \/ ShutdownReturns \/ Exit
    <3>1. /\ cancelled' = cancelled /\ main' \in {"draining", "waiting", "exited"}
          /\ main' = "exited" => worker = "gone"
      BY <2>4 DEF CloseListener, ShutdownReturns, Exit, queueVars
    <3> QED BY <1>1, <2>1, <2>2, <3>1 DEF WorkerPlaces, Cancelled
  <2> QED BY <1>4, <2>3, <2>4 DEF Main
<1> QED BY <1>2, <1>3, <1>4

\* A step of the worker: it goes for good only when its context is done and the
\* queue is empty.
LEMMA WorkerPlacesStep ==
    ASSUME PipelineTypeOK, EveryJobIsAnswered, WorkerPlaces, Work
    PROVE  WorkerPlaces'
<1> USE DEF WorkerPlaces
<1>0. /\ worker # "gone" /\ main # "exited"
      /\ Busy => current \in Jobs /\ Id \in Ids
      /\ UNCHANGED serverVars
  BY PipelineAssumption DEF Work, CallPop, PopReturns, PopFails, RunFails, RunStarts, RunExitsBad,
         RunExitsGood, UploadFails, UploadCreates, CopyFails, CopyEnds, Report, PipelineTypeOK, Id, Busy
<1>1. main' = main /\ signalAt' = signalAt /\ accepted' = accepted
  BY <1>0 DEF serverVars
<1>2. CASE CallPop
  <2>1. outcome'[Worker] = "waiting" /\ worker = "loop" /\ worker' = "pop"
        /\ UNCHANGED <<cancelled, current>>
    BY <1>2 DEF CallPop, Queue!Ask, PipelineTypeOK
  <2> QED BY <1>0, <1>1, <2>1 DEF Busy, Cancelled
<1>3. CASE PopReturns
  <2>1. Head(items) \in Jobs /\ worker = "pop" /\ worker' = "run" /\ cancelled' = cancelled
    BY <1>3 DEF PopReturns, Queue!Serve, PipelineTypeOK
  <2>2. outcome'[Worker] = Head(items) /\ current' = Head(items)
    BY <1>3 DEF PopReturns, Queue!Serve, PipelineTypeOK
  <2>3. current' # NoJob /\ outcome'[Worker] # "waiting"
    BY <2>1, <2>2, PipelineAssumption
  <2> QED BY <1>0, <1>1, <2>1, <2>3 DEF Busy, Cancelled
<1>4. CASE PopFails
  <2>1. /\ items = <<>> /\ Cancelled /\ worker = "pop" /\ worker' = "gone"
        /\ UNCHANGED <<items, cancelled, current>>
    BY <1>4 DEF PopFails, Queue!Refuse, Cancelled
  <2>2. outcome'[Worker] = "cancelled"
    BY <1>4 DEF PopFails, Queue!Refuse, PipelineTypeOK
  <2>3. current = NoJob /\ Taken = Len(accepted) /\ Answered = Len(accepted)
    BY <2>1, Counts DEF Busy, Taken
  <2>4. Answered' >= signalAt'
    BY <1>1, <2>1, <2>3 DEF Answered, Taken, PipelineTypeOK
  <2> QED BY <1>0, <1>1, <2>1, <2>2, <2>3, <2>4 DEF Busy, Cancelled
<1>5. CASE RunStarts
  BY <1>0, <1>1, <1>5 DEF RunStarts, queueVars, Busy, Cancelled
<1>6. CASE RunExitsGood
  <2>1. files'[Scratch] = current /\ Scratch' = Scratch
    BY <1>0, <1>6, FilePaths DEF RunExitsGood, Busy, PipelineTypeOK, Id, Scratch
  <2> QED BY <1>0, <1>1, <1>6, <2>1 DEF RunExitsGood, queueVars, Busy, Cancelled
<1>7. CASE UploadCreates
  <2>1. files'[Scratch] = files[Scratch] /\ Scratch' = Scratch
    BY <1>0, <1>7, FilePaths DEF UploadCreates, Busy, PipelineTypeOK, Id, Scratch
  <2> QED BY <1>0, <1>1, <1>7, <2>1 DEF UploadCreates, queueVars, Busy, Cancelled
<1>8. CASE CopyEnds
  <2>1. files'[Output] = files[Scratch] /\ Output' = Output
    BY <1>0, <1>8, FilePaths DEF CopyEnds, Busy, PipelineTypeOK, Id, Output
  <2> QED BY <1>0, <1>1, <1>8, <2>1 DEF CopyEnds, queueVars, Busy, Cancelled
<1>9. CASE RunFails \/ RunExitsBad \/ UploadFails \/ CopyFails \/ Report
  <2>1. Busy /\ UNCHANGED <<queueVars, serverVars>> /\ worker' = "loop" /\ current' = NoJob
    BY <1>9, Endings DEF SetResult
  <2> QED BY <1>0, <1>1, <2>1 DEF queueVars, Busy, Cancelled
<1> QED BY <1>2, <1>3, <1>4, <1>5, <1>6, <1>7, <1>8, <1>9 DEF Work

---------------------------------------------------------------------------
(* The files *)

\* Success i has its file, left there by the k-th job.
LeftFor(i, k) == /\ accepted[k] = results[i].job /\ IdOf[accepted[k]] = i
                 /\ LeftBy(k, OutputOf[i])

\* A file nobody touches is still what the k-th job, or one after it, left.
LEMMA LeftStays ==
    ASSUME NEW k \in Nat, NEW f, LeftBy(k, f), Taken \in Nat, Taken' \in Nat, Taken <= Taken',
           k <= Taken, k > 0, \A m \in 1 .. Taken : accepted'[m] = accepted[m], files'[f] = files[f]
    PROVE  LeftBy(k, f)'
<1>1. CASE files[f] = accepted[k]
  BY <1>1 DEF LeftBy
<1>2. CASE files[f] # accepted[k]
  <2>1. PICK l \in k + 1 .. Taken : f \in FilesOf(accepted[l]) /\ files[f] \in {accepted[l], Partial}
    BY <1>2 DEF LeftBy
  <2>2. l \in k + 1 .. Taken' /\ l \in 1 .. Taken
    OBVIOUS
  <2>3. f \in FilesOf(accepted'[l]) /\ files'[f] \in {accepted'[l], Partial}
    BY <2>1, <2>2
  <2> QED BY <2>2, <2>3 DEF LeftBy, FilesOf
<1> QED BY <1>1, <1>2

\* What the worker writes for the job in work counts as left by that job.
LEMMA LeftByWriter ==
    ASSUME PipelineTypeOK, EveryJobIsAnswered, current # NoJob, UNCHANGED <<items, accepted>>,
           NEW k \in 1 .. Answered, NEW f, f \in FilesOf(current), files'[f] \in {current, Partial}
    PROVE  LeftBy(k, f)'
<1>1. Taken' = Taken /\ Taken \in k + 1 .. Taken
  BY Counts DEF Taken
<1>2. current = accepted'[Taken]
  BY DEF EveryJobIsAnswered
<1> QED BY <1>1, <1>2 DEF LeftBy, FilesOf

\* A step that stores no result: it leaves a file as it is, or writes for its own job.
LEMMA UnansweredStep ==
    ASSUME PipelineTypeOK, EveryJobIsAnswered, SuccessHasItsFile, results' = results,
           Answered' \in Int, Taken' \in Nat, Answered <= Answered', Taken <= Taken',
           \A m \in 1 .. Taken : accepted'[m] = accepted[m],
           \A f \in Paths : \/ files'[f] = files[f]
                            \/ /\ current # NoJob /\ UNCHANGED <<items, accepted>>
                               /\ f \in FilesOf(current) /\ files'[f] \in {current, Partial}
    PROVE  SuccessHasItsFile'
<1> SUFFICES ASSUME NEW i \in Ids, results[i] # NoResult, results[i].ok
             PROVE  \E k \in 1 .. Answered' : LeftFor(i, k)'
  BY DEF SuccessHasItsFile, LeftFor
<1>1. PICK k \in 1 .. Answered : LeftFor(i, k)
  BY DEF SuccessHasItsFile, LeftFor
<1>2. k \in 1 .. Answered' /\ k \in 1 .. Taken /\ k \in Nat /\ Taken \in Nat
  BY Counts
<1>3. OutputOf[i] \in Paths
  BY PipelineAssumption
<1>4. LeftBy(k, OutputOf[i])'
  <2>1. CASE files'[OutputOf[i]] = files[OutputOf[i]]
    BY <1>1, <1>2, <2>1, LeftStays DEF LeftFor
  <2>2. CASE files'[OutputOf[i]] # files[OutputOf[i]]
    BY <1>3, <2>2, LeftByWriter
  <2> QED BY <2>1, <2>2
<1> QED BY <1>1, <1>2, <1>4 DEF LeftFor

\* Storing a result: a success is stored only where the whole output is.
LEMMA SuccessStored ==
    ASSUME PipelineTypeOK, EveryJobIsAnswered, WorkerPlaces, SuccessHasItsFile, Busy,
           NEW ok \in BOOLEAN, SetResult(ok), ok => worker = "report",
           UNCHANGED <<items, accepted, files>>
    PROVE  SuccessHasItsFile'
<1>1. current # NoJob /\ current \in Jobs /\ Id \in Ids
  BY FilePaths DEF WorkerPlaces
<1>2. results' = [results EXCEPT ![Id] = [job |-> current, ok |-> ok]] /\ current' = NoJob
  BY DEF SetResult
<1>3. /\ Taken' = Taken /\ Answered' = Taken /\ Taken \in Nat /\ Taken > 0
      /\ Answered <= Taken /\ accepted[Taken] = current
  BY <1>1, <1>2, Counts DEF Taken, Answered, EveryJobIsAnswered
<1> SUFFICES ASSUME NEW i \in Ids, results'[i] # NoResult, results'[i].ok
             PROVE  \E k \in 1 .. Answered' : LeftFor(i, k)'
  BY DEF SuccessHasItsFile, LeftFor
<1>4. CASE i = Id
  <2>1. results'[i] = [job |-> current, ok |-> ok]
    BY <1>1, <1>2, <1>4 DEF PipelineTypeOK
  <2>2. files[OutputOf[i]] = current
    BY <1>4, <2>1 DEF WorkerPlaces, Output
  <2>3. LeftBy(Taken, OutputOf[i])'
    BY <1>3, <2>2 DEF LeftBy
  <2>4. LeftFor(i, Taken)'
    BY <1>3, <1>4, <2>1, <2>3 DEF LeftFor, Id
  <2> QED BY <1>3, <2>4
<1>5. CASE i # Id
  <2>1. results'[i] = results[i]
    BY <1>2, <1>5 DEF PipelineTypeOK
  <2>2. PICK k \in 1 .. Answered : LeftFor(i, k)
    BY <2>1 DEF SuccessHasItsFile, LeftFor
  <2>3. k \in 1 .. Taken /\ k \in Nat
    BY <1>3, Counts
  <2>4. LeftBy(k, OutputOf[i])'
    BY <1>3, <2>2, <2>3, LeftStays DEF LeftFor
  <2> QED BY <1>3, <2>1, <2>2, <2>3, <2>4 DEF LeftFor
<1> QED BY <1>4, <1>5

\* A new job behind the others does not change the counts.
LEMMA AcceptCounts ==
    ASSUME PipelineTypeOK, EveryJobIsAnswered, NEW h \in Handlers, Enqueue(h)
    PROVE  /\ Taken' = Taken /\ Answered' = Answered /\ UNCHANGED <<files, results, current>>
           /\ \A m \in 1 .. Taken : accepted'[m] = accepted[m]
<1>1. /\ offer[h] \in Jobs /\ items' = Append(items, offer[h]) /\ accepted' = Append(accepted, offer[h])
      /\ UNCHANGED <<files, results, current>>
  BY DEF Enqueue, Queue!Accept, PipelineTypeOK, workVars
<1>2. Len(items') = Len(items) + 1 /\ Len(accepted') = Len(accepted) + 1
      /\ Len(items) \in Nat /\ Len(accepted) \in Nat
  BY <1>1 DEF PipelineTypeOK
<1>3. Taken' = Taken /\ Answered' = Answered
  BY <1>1, <1>2 DEF Answered, Taken
<1>4. \A m \in 1 .. Len(accepted) : accepted'[m] = accepted[m]
  BY <1>1, <1>2 DEF PipelineTypeOK
<1> QED BY <1>1, <1>3, <1>4, Counts

\* Every step leaves successes with their files, but for what a later job writes.
LEMMA SuccessStep ==
    ASSUME PipelineTypeOK, EveryJobIsAnswered, WorkerPlaces, SuccessHasItsFile, [Next]_vars
    PROVE  SuccessHasItsFile'
<1>0. Taken \in Nat /\ Answered \in Int
  BY Counts
<1>1. ASSUME UNCHANGED <<items, accepted, current, results>>,
             \/ files' = files
             \/ Busy /\ files' = [files EXCEPT ![Scratch] = Partial]
             \/ Busy /\ files' = [files EXCEPT ![Scratch] = current]
             \/ Busy /\ files' = [files EXCEPT ![Output] = Partial]
             \/ Busy /\ files' = [files EXCEPT ![Output] = current]
      PROVE  SuccessHasItsFile'
  <2>1. Taken' = Taken /\ Answered' = Answered
    BY <1>1 DEF Taken, Answered
  <2>2. ASSUME NEW f \in Paths, files'[f] # files[f]
        PROVE  current # NoJob /\ f \in FilesOf(current) /\ files'[f] \in {current, Partial}
    <3>1. Busy /\ current # NoJob /\ FilesOf(current) = {Scratch, Output}
      BY <1>1, <2>2, FilePaths DEF WorkerPlaces
    <3> QED BY <1>1, <2>2, <3>1 DEF PipelineTypeOK
  <2> QED BY <1>0, <1>1, <2>1, <2>2, UnansweredStep
<1>2. ASSUME NEW h \in Handlers, Enqueue(h) PROVE SuccessHasItsFile'
  BY <1>0, <1>2, AcceptCounts, UnansweredStep
<1>3. CASE PopReturns
  <2>1. /\ worker = "pop" /\ items # <<>> /\ items' = Tail(items)
        /\ UNCHANGED <<accepted, files, results>>
    BY <1>3 DEF PopReturns, Queue!Serve, serverVars
  <2>2. Taken' = Taken + 1 /\ Answered = Taken
    BY <2>1, Counts DEF Taken, PipelineTypeOK, WorkerPlaces, Busy
  <2>3. Answered' \in Int /\ Answered <= Answered'
    BY <1>0, <2>2 DEF Answered
  <2> QED BY <1>0, <2>1, <2>2, <2>3, UnansweredStep
<1>4. CASE RunFails \/ RunExitsBad \/ UploadFails \/ CopyFails \/ Report
  <2>1. Busy /\ UNCHANGED <<items, accepted, files>>
    BY <1>4, Endings DEF queueVars, serverVars
  <2>2. PICK ok \in BOOLEAN : SetResult(ok) /\ (ok => worker = "report")
    BY <1>4, Endings
  <2> QED BY <2>1, <2>2, SuccessStored
<1>5. CASE RunStarts \/ RunExitsGood \/ UploadCreates
  BY <1>1, <1>5 DEF RunStarts, RunExitsGood, UploadCreates, Busy, queueVars, serverVars
<1>6. CASE CopyEnds
  <2>1. files[Scratch] = current /\ Busy /\ files' = [files EXCEPT ![Output] = current]
    BY <1>6 DEF CopyEnds, WorkerPlaces, Busy
  <2> QED BY <1>1, <1>6, <2>1 DEF CopyEnds, queueVars, serverVars
<1>7. ASSUME \/ CallPop \/ PopFails \/ Signal \/ Main \/ UNCHANGED vars
             \/ \E h \in Handlers : Respond(h) \/ \E j \in Jobs : Receive(h, j)
      PROVE  UNCHANGED <<items, accepted, current, results, files>>
  BY <1>7 DEF CallPop, PopFails, Signal, Main, CancelContext, CloseListener, ShutdownReturns, Exit,
              Respond, Receive, Queue!Ask, Queue!Refuse, Queue!Cancel, Queue!Offer,
              vars, queueVars, serverVars, workVars
<1> QED BY <1>1, <1>2, <1>3, <1>4, <1>5, <1>6, <1>7 DEF Next, Serve, Work

---------------------------------------------------------------------------

\* main() exits after the worker, and the worker goes after the queue.
LEMMA StopFollows == WorkerPlaces => StopAnswersTheQueue
BY DEF WorkerPlaces, StopAnswersTheQueue

\* The inductive invariant holds before the first step.
LEMMA PipelineInvInit == Init => PipelineInv
<1> SUFFICES ASSUME Init PROVE PipelineInv
  OBVIOUS
<1>1. /\ items = <<>> /\ accepted = <<>> /\ current = NoJob /\ worker = "loop" /\ main = "serving"
      /\ outcome = [p \in {Worker} |-> "none"] /\ cancelled = [p \in {Worker} |-> FALSE]
      /\ results = [i \in Ids |-> NoResult]
  BY DEF Init, Queue!Init
<1>2. Taken = 0 /\ Answered = 0
  BY <1>1 DEF Taken, Answered
<1>3. EveryJobIsAnswered
  BY <1>1, <1>2 DEF EveryJobIsAnswered, LastAnswerShows
<1>4. WorkerPlaces /\ SuccessHasItsFile
  BY <1>1 DEF WorkerPlaces, SuccessHasItsFile, Busy, Cancelled
<1> QED BY <1>3, <1>4, PipelineInitType, StopFollows DEF PipelineInv

\* Every step keeps the inductive invariant.
LEMMA PipelineInvStep == PipelineInv /\ [Next]_vars => PipelineInv'
<1> SUFFICES ASSUME PipelineInv, [Next]_vars PROVE PipelineInv'
  OBVIOUS
<1>1. EveryJobIsAnswered' /\ SuccessHasItsFile'
  BY AnsweredStep, SuccessStep DEF PipelineInv
<1>2. CASE UNCHANGED vars
  <2> USE <1>2 DEF vars, queueVars, serverVars, workVars
  <2>1. PipelineTypeOK'
    BY DEF PipelineInv, PipelineTypeOK
  <2>2. Answered' = Answered
    BY DEF Answered, Taken
  <2>3. WorkerPlaces'
    BY <2>2 DEF PipelineInv, WorkerPlaces, Busy, Id, Scratch, Output, Cancelled
  <2>4. StopAnswersTheQueue'
    BY <2>2 DEF PipelineInv, StopAnswersTheQueue
  <2> QED BY <1>1, <2>1, <2>3, <2>4 DEF PipelineInv
<1>3. CASE Next
  <2>1. PipelineTypeOK' /\ WorkerPlaces'
    BY <1>3, ServerType, WorkType, ServerPlaces, WorkerPlacesStep DEF PipelineInv, Next
  <2>2. StopAnswersTheQueue'
    BY <2>1, StopFollows, PTL
  <2> QED BY <1>1, <2>1, <2>2 DEF PipelineInv
<1> QED BY <1>2, <1>3

\* The daemon's variables keep their types.
THEOREM PipelineTypeCorrect == SafeSpec => []PipelineTypeOK
<1>1. PipelineInv => PipelineTypeOK
  BY DEF PipelineInv
<1> QED BY <1>1, PipelineInvInit, PipelineInvStep, PTL DEF SafeSpec

\* Jobs are taken in the order in which they were accepted, and the store shows the
\* answer of each that is done (main.go:120-156).
THEOREM JobsAreAnswered == SafeSpec => []EveryJobIsAnswered
<1>1. PipelineInv => EveryJobIsAnswered
  BY DEF PipelineInv
<1> QED BY <1>1, PipelineInvInit, PipelineInvStep, PTL DEF SafeSpec

\* A success points to the output of its own job, or to what a job taken later wrote
\* over it, for any ids and whichever of them name the same file (main.go:126-155,
\* upload.go:50-71).
THEOREM SuccessIsGenuine == SafeSpec => []SuccessHasItsFile
<1>1. PipelineInv => SuccessHasItsFile
  BY DEF PipelineInv
<1> QED BY <1>1, PipelineInvInit, PipelineInvStep, PTL DEF SafeSpec

\* When the process ends, the jobs accepted before the signal are answered
\* (main.go:105-113, queue.go:79-84).
THEOREM StopIsGraceful == SafeSpec => []StopAnswersTheQueue
<1>1. PipelineInv => StopAnswersTheQueue
  BY DEF PipelineInv
<1> QED BY <1>1, PipelineInvInit, PipelineInvStep, PTL DEF SafeSpec

---------------------------------------------------------------------------
\* The daemon touches its queue only as the contract allows (queue.go:28-32), which
\* queue.Memory keeps to (JobQueueProofs, MemoryIsFifo): handlers offer and wait for
\* the queue to accept, the worker asks and is served or refused, and the signal ends
\* its context; nothing else reads from the queue or puts into it.
THEOREM DaemonKeepsContract == SafeSpec => Queue!SafeSpec
<1>1. Init => Queue!Init
  BY DEF Init
<1>2. [Next]_vars => [Queue!Next]_Queue!vars
  <2> SUFFICES ASSUME [Next]_vars, ~UNCHANGED queueVars PROVE Queue!Next
    BY DEF Queue!vars, queueVars
  <2>1. ASSUME NEW h \in Handlers, Serve(h) PROVE Queue!Next
    BY <2>1 DEF Serve, Enqueue, Respond, Queue!Next
  <2>2. ASSUME NEW h \in Handlers, NEW j \in Jobs, Receive(h, j) PROVE Queue!Next
    BY <2>2 DEF Receive, Queue!Next
  <2>3. CASE Signal \/ Main
    BY <2>3 DEF Signal, Main, CancelContext, CloseListener, ShutdownReturns, Exit, Queue!Next
  <2>4. CASE CallPop \/ PopReturns \/ PopFails
    BY <2>4 DEF CallPop, PopReturns, PopFails, Queue!Next
  <2>5. CASE Work /\ ~ (CallPop \/ PopReturns \/ PopFails)
    BY <2>5 DEF Work, RunFails, RunStarts, RunExitsBad, RunExitsGood, UploadFails, UploadCreates,
                CopyFails, CopyEnds, Report
  <2>6. CASE UNCHANGED vars
    BY <2>6 DEF vars
  <2> QED BY <2>1, <2>2, <2>3, <2>4, <2>5, <2>6 DEF Next
<1> QED BY <1>1, <1>2, PTL DEF SafeSpec, Queue!SafeSpec
=============================================================================
