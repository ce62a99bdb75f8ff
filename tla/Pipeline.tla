---------------------------- MODULE Pipeline ----------------------------
(***************************************************************************)
(* The render daemon (pipeline/cmd/pipelined/main.go) with its uploader    *)
(* (pipeline/internal/upload/upload.go): handlers accept jobs into the     *)
(* queue, one worker renders and uploads them one after the other and      *)
(* stores a result under the id the client chose, and SIGTERM cancels the  *)
(* worker's context, drains the server and waits for the worker.           *)
(*                                                                         *)
(* The queue is FifoQueue, which JobQueue implements.  External: FFmpeg    *)
(* runs or fails as it likes and is killed by a cancelled context, and the *)
(* disk may fail.  Ids are whatever a client sends, and are cleaned when    *)
(* they become part of a path, so two ids may name one file: files are kept *)
(* by path, results by id.  The content of a file is the job whose output   *)
(* it holds, or Partial.                                                    *)
(***************************************************************************)
EXTENDS Naturals, Sequences, FiniteSets

CONSTANTS Jobs,        \* jobs: several may carry the same id
          Ids,         \* job ids
          IdOf,        \* [Jobs -> Ids]
          Paths,       \* files
          ScratchOf,   \* /tmp/<id>.mp4: [Ids -> Paths]
          OutputOf,    \* <out>/jobs/<id>/out.mp4: [Ids -> Paths]
          Handlers,    \* goroutines that serve requests
          Worker,      \* the goroutine of runWorker
          NoJob, NoFile, Partial, NoResult

ASSUME PipelineAssumption ==
    /\ IdOf \in [Jobs -> Ids]
    /\ ScratchOf \in [Ids -> Paths] /\ OutputOf \in [Ids -> Paths]
    /\ NoJob \notin Jobs /\ NoFile \notin Jobs /\ Partial \notin Jobs
    /\ Jobs \cap {"none", "waiting", "cancelled"} = {}
    /\ NoResult \notin [job : Jobs, ok : BOOLEAN]

\* Whatever the id, its output lies at least a directory deeper than its scratch file.
ASSUME PathAssumption == \A i \in Ids : ScratchOf[i] # OutputOf[i]

VARIABLES items, offer, outcome, cancelled,   \* the queue, as its callers see it
          handler,     \* handler[h]: "idle", "enqueue" or "respond"
          accepted,    \* jobs enqueued, in order (history)
          main,        \* where main() is
          signalAt,    \* how many jobs were accepted before the signal (history)
          worker,      \* where runWorker is
          current,     \* the job it works on
          files,       \* what is in each file
          results,     \* resultsStore.m
          uploaded     \* the uploader's counter

queueVars  == <<items, offer, outcome, cancelled>>
serverVars == <<handler, accepted, main, signalAt>>
workVars   == <<worker, current, files, results, uploaded>>
vars       == <<queueVars, serverVars, workVars>>

Queue == INSTANCE FifoQueue WITH Poppers <- {Worker}, Producers <- Handlers

Cancelled == cancelled[Worker]

Id      == IdOf[current]
Scratch == ScratchOf[Id]
Output  == OutputOf[Id]

---------------------------------------------------------------------------
(* The server.  A handler runs to its end unless the process exits. *)

\* A request is taken while the listener is open; its body decodes to j.  Bound:
\* each job is sent once.
Sent(j) == (\E i \in DOMAIN accepted : accepted[i] = j) \/ (\E h \in Handlers : offer[h] = j)

\* Mutant: the response does not wait for the queue.
ReceiveAsync(h, j) == /\ main \in {"serving", "signalled", "cancelled"}
                      /\ handler[h] = "idle"
                      /\ ~Sent(j)
                      /\ Queue!Offer(h, j)
                      /\ handler' = [handler EXCEPT ![h] = "respond"]
                      /\ UNCHANGED <<accepted, main, signalAt, workVars>>

Receive(h, j) == /\ main \in {"serving", "signalled", "cancelled"}
                 /\ handler[h] = "idle"
                 /\ ~Sent(j)
                 /\ Queue!Offer(h, j)
                 /\ handler' = [handler EXCEPT ![h] = "enqueue"]
                 /\ UNCHANGED <<accepted, main, signalAt, workVars>>

Enqueue(h) == /\ main # "exited"
              /\ handler[h] = "enqueue"
              /\ Queue!Accept(h)
              /\ accepted' = Append(accepted, offer[h])
              /\ handler' = [handler EXCEPT ![h] = "respond"]
              /\ UNCHANGED <<main, signalAt, workVars>>

\* 202
Respond(h) == /\ main # "exited"
              /\ handler[h] = "respond"
              /\ handler' = [handler EXCEPT ![h] = "idle"]
              /\ UNCHANGED <<queueVars, accepted, main, signalAt, workVars>>

---------------------------------------------------------------------------
(* main: signal, cancel(), Shutdown, wg.Wait(), return *)

Signal == /\ main = "serving"
          /\ main' = "signalled"
          /\ signalAt' = Len(accepted)
          /\ UNCHANGED <<queueVars, handler, accepted, workVars>>

\* Mutant: the context is left alone.
CancelNothing == /\ main = "signalled"
                 /\ main' = "cancelled"
                 /\ UNCHANGED <<queueVars, handler, accepted, signalAt, workVars>>

CancelContext == /\ main = "signalled"
                 /\ Queue!Cancel(Worker)
                 /\ main' = "cancelled"
                 /\ UNCHANGED <<handler, accepted, signalAt, workVars>>

\* srv.Shutdown closes the listener; it returns when the handlers are idle, or
\* after five seconds whatever they do, so at any time.
CloseListener == /\ main = "cancelled"
                 /\ main' = "draining"
                 /\ UNCHANGED <<queueVars, handler, accepted, signalAt, workVars>>

ShutdownReturns == /\ main = "draining"
                   /\ main' = "waiting"
                   /\ UNCHANGED <<queueVars, handler, accepted, signalAt, workVars>>

Exit == /\ main = "waiting"
        /\ worker = "gone"
        /\ main' = "exited"
        /\ UNCHANGED <<queueVars, handler, accepted, signalAt, workVars>>

---------------------------------------------------------------------------
(* runWorker *)

CallPop == /\ worker = "loop"
           /\ Queue!Ask(Worker)
           /\ worker' = "pop"
           /\ UNCHANGED <<serverVars, current, files, results, uploaded>>

PopReturns == /\ worker = "pop"
              /\ Queue!Serve(Worker)
              /\ current' = outcome'[Worker]
              /\ worker' = "run"
              /\ UNCHANGED <<serverVars, files, results, uploaded>>

\* Mutant: a cancelled context ends the worker before the queue is empty.
PopFailsFirst == /\ worker = "pop" /\ Cancelled
                 /\ outcome' = [outcome EXCEPT ![Worker] = "cancelled"]
                 /\ worker' = "gone"
                 /\ UNCHANGED <<items, offer, cancelled, serverVars,
                                current, files, results, uploaded>>

PopFails == /\ worker = "pop"
            /\ Queue!Refuse(Worker)
            /\ worker' = "gone"
            /\ UNCHANGED <<serverVars, current, files, results, uploaded>>

\* Every way round the loop ends with results.set.
SetResult(ok) == /\ results' = [results EXCEPT ![Id] = [job |-> current, ok |-> ok]]
                 /\ current' = NoJob
                 /\ worker' = "loop"

\* Mutant: return instead of continue.
RunFailsReturns == /\ worker = "run"
                   /\ results' = [results EXCEPT ![Id] = [job |-> current, ok |-> FALSE]]
                   /\ current' = NoJob
                   /\ worker' = "gone"
                   /\ UNCHANGED <<queueVars, serverVars, files, uploaded>>

\* Run returns an error, or FFmpeg exits before it opens its output.  Once the
\* context is done nothing else can happen: the process is not started.
RunFails == /\ worker = "run"
            /\ SetResult(FALSE)
            /\ UNCHANGED <<queueVars, serverVars, files, uploaded>>

\* FFmpeg is running and has opened its output (-y: over whatever is there).
RunStarts == /\ worker = "run"
             /\ ~Cancelled
             /\ files' = [files EXCEPT ![Scratch] = Partial]
             /\ worker' = "running"
             /\ UNCHANGED <<queueVars, serverVars, current, results, uploaded>>

\* Mutant: continue without results.set.
RunExitsUnseen == /\ worker = "running"
                  /\ current' = NoJob
                  /\ worker' = "loop"
                  /\ UNCHANGED <<queueVars, serverVars, files, results, uploaded>>

\* A non-zero exit, or killed, or an error of Wait; nothing removes what it wrote.
RunExitsBad == /\ worker = "running"
               /\ SetResult(FALSE)
               /\ UNCHANGED <<queueVars, serverVars, files, uploaded>>

RunExitsGood == /\ worker = "running"
                /\ files' = [files EXCEPT ![Scratch] = current]
                /\ worker' = "upload"
                /\ UNCHANGED <<queueVars, serverVars, current, results, uploaded>>

\* Mutant: the uploader's error is not looked at.
UploadErrorIgnored == /\ worker = "upload"
                      /\ SetResult(TRUE)
                      /\ UNCHANGED <<queueVars, serverVars, files, uploaded>>

\* MkdirAll, Open or Create fails.
UploadFails == /\ worker = "upload"
               /\ SetResult(FALSE)
               /\ UNCHANGED <<queueVars, serverVars, files, uploaded>>

\* os.Create truncates what an earlier job left under this path.  The uploader does
\* not look at the context.
UploadCreates == /\ worker = "upload"
                 /\ files' = [files EXCEPT ![Output] = Partial]
                 /\ worker' = "copy"
                 /\ UNCHANGED <<queueVars, serverVars, current, results, uploaded>>

CopyFails == /\ worker = "copy"
             /\ SetResult(FALSE)
             /\ UNCHANGED <<queueVars, serverVars, files, uploaded>>

CopyEnds == /\ worker = "copy"
            /\ files' = [files EXCEPT ![Output] = files[Scratch]]
            /\ uploaded' = uploaded + 1
            /\ worker' = "report"
            /\ UNCHANGED <<queueVars, serverVars, current, results>>

Report == /\ worker = "report"
          /\ SetResult(TRUE)
          /\ UNCHANGED <<queueVars, serverVars, files, uploaded>>

Work == \/ CallPop \/ PopReturns \/ PopFails
        \/ RunFails \/ RunStarts \/ RunExitsBad \/ RunExitsGood
        \/ UploadFails \/ UploadCreates \/ CopyFails \/ CopyEnds \/ Report

---------------------------------------------------------------------------

Init == /\ Queue!Init
        /\ handler = [h \in Handlers |-> "idle"]
        /\ accepted = <<>>
        /\ main = "serving" /\ signalAt = 0
        /\ worker = "loop" /\ current = NoJob
        /\ files = [f \in Paths |-> NoFile]
        /\ results = [i \in Ids |-> NoResult]
        /\ uploaded = 0

Serve(h) == Enqueue(h) \/ Respond(h)

Main == CancelContext \/ CloseListener \/ ShutdownReturns \/ Exit

Next == \/ \E h \in Handlers : Serve(h) \/ \E j \in Jobs : Receive(h, j)
        \/ Signal \/ Main
        \/ Work

SafeSpec == Init /\ [][Next]_vars

\* Goroutines are scheduled, an FFmpeg process ends or is killed, a copy ends.
\* Nobody has to send the signal.
Fairness == /\ \A h \in Handlers : WF_vars(Serve(h))
            /\ WF_vars(Main)
            /\ WF_vars(Work)

Spec == SafeSpec /\ Fairness

---------------------------------------------------------------------------
(* Properties *)

\* The types of the daemon's state (main.go:42-52, 168-171).
PipelineTypeOK ==
    /\ items \in Seq(Jobs) /\ offer \in [Handlers -> Jobs \cup {NoJob}]
    /\ outcome \in [{Worker} -> Jobs \cup {"none", "waiting", "cancelled"}]
    /\ cancelled \in [{Worker} -> BOOLEAN]
    /\ handler \in [Handlers -> {"idle", "enqueue", "respond"}]
    /\ \A h \in Handlers : handler[h] = "enqueue" <=> offer[h] # NoJob
    /\ accepted \in Seq(Jobs) /\ signalAt \in 0 .. Len(accepted)
    /\ main \in {"serving", "signalled", "cancelled", "draining", "waiting", "exited"}
    /\ worker \in {"loop", "pop", "run", "running", "upload", "copy", "report", "gone"}
    /\ current \in Jobs \cup {NoJob}
    /\ files \in [Paths -> Jobs \cup {NoFile, Partial}]
    /\ results \in [Ids -> [job : Jobs, ok : BOOLEAN] \cup {NoResult}]
    /\ uploaded \in Nat

\* Jobs taken from the queue and answered.
Taken    == Len(accepted) - Len(items)
Answered == IF current = NoJob THEN Taken ELSE Taken - 1

\* Under each id the store has the result of the last answered job with that id, and
\* none if there is none.
LastAnswerShows ==
    \A i \in Ids :
        LET mine == {k \in 1 .. Answered : IdOf[accepted[k]] = i}
        IN  IF mine = {} THEN results[i] = NoResult
            ELSE \E k \in mine : /\ \A l \in mine : l <= k
                                 /\ results[i] # NoResult
                                 /\ results[i].job = accepted[k]

\* No accepted job is skipped or forgotten, on any path through the worker's loop
\* (main.go:120-156): the worker is on the oldest job not yet answered, the queue
\* holds the ones after it in order, and the store shows the answers.
EveryJobIsAnswered ==
    /\ Len(items) <= Len(accepted)
    /\ \A k \in 1 .. Len(items) : items[k] = accepted[Taken + k]
    /\ current # NoJob => Taken > 0 /\ current = accepted[Taken]
    /\ LastAnswerShows

\* What the worker can rely on at each place of its loop: the part of the inductive
\* invariant the properties of the files and of the stop rest on.
Busy == worker \in {"run", "running", "upload", "copy", "report"}

WorkerPlaces ==
    /\ worker = "pop" <=> outcome[Worker] = "waiting"
    /\ Busy <=> current # NoJob
    /\ worker \in {"upload", "copy"} => files[Scratch] = current
    /\ worker = "report" => files[Output] = current
    /\ Cancelled => main \notin {"serving", "signalled"}
    /\ worker = "gone" => Cancelled /\ Answered >= signalAt
    /\ main = "exited" => worker = "gone"

\* A job works on two files.
FilesOf(j) == {ScratchOf[IdOf[j]], OutputOf[IdOf[j]]}

\* What file f holds when nothing but jobs taken after the k-th has written to it since
\* the k-th left its output there.
LeftBy(k, f) == \/ files[f] = accepted[k]
                \/ \E l \in k + 1 .. Taken : /\ f \in FilesOf(accepted[l])
                                             /\ files[f] \in {accepted[l], Partial}

\* A successful result is about the file it points to: that holds the whole output of
\* the very job the result reports, unless a job taken later writes or wrote to the
\* same path, under this id or another; what an older run left in /tmp or in the
\* output directory is never passed off as the job's (main.go:126, 141-155,
\* upload.go:50-66).
SuccessHasItsFile ==
    \A i \in Ids :
        results[i] # NoResult /\ results[i].ok =>
            \E k \in 1 .. Answered : /\ accepted[k] = results[i].job /\ IdOf[accepted[k]] = i
                                    /\ LeftBy(k, OutputOf[i])

\* A graceful stop answers every job accepted before the signal: Pop hands out what
\* is queued before it reports the cancellation (queue.go:79-84, main.go:105-112).
StopAnswersTheQueue == main = "exited" => Answered >= signalAt

\* The inductive invariant of the daemon.
PipelineInv == /\ PipelineTypeOK /\ EveryJobIsAnswered /\ WorkerPlaces
               /\ SuccessHasItsFile /\ StopAnswersTheQueue

\* Every accepted job gets its result, unless the daemon is told to stop; the worker
\* is never stuck on the queue while there is a job in it.
JobsGetResults ==
    \A j \in Jobs :
        (\E i \in DOMAIN accepted : accepted[i] = j)
            ~> (\E i \in 1 .. Answered : accepted[i] = j) \/ main = "exited"

\* A signal ends the daemon, even with a full queue and a file being uploaded.
SignalEnds == main = "signalled" ~> main = "exited"

---------------------------------------------------------------------------
(* A statement of the repository the code does not keep *)

\* upload.go:20-23: the URL handed out for a job stays valid.
UrlStaysValid ==
    \A i \in Ids : results[i] # NoResult /\ results[i].ok => files[OutputOf[i]] \in Jobs
=============================================================================
