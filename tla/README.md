# Verification of videoagent

TLA+ specifications of [videoagent](../src/README.md): a service that lets a language
model turn an editing request into a plan of typed operations, checks the plan against
the source video, and renders it with FFmpeg. The specifications are translated from the
source, model-checked with TLC on small instances, and proved
with TLAPS for every instance: every invariant and action property that a run checks, and that
holds, is the statement of a theorem.

## 1. The system

The code is two programs that share nothing but the form of a plan: a Python service that
plans, and a Go daemon that renders.

| component | source | state it keeps | operations |
|---|---|---|---|
| Video operations | `videoagent/ops.py` | none | eight classes with ranges and validators |
| Verifier | `videoagent/verifier.py` | none | `verify(plan, probe)` gives a list of errors |
| Planner | `videoagent/planner.py` | locals of one call: messages, raw calls, last errors, attempt | `plan()`: ask, parse, verify, replan |
| Plan API | `videoagent/api.py` | dictionary of `Job` records under a lock; per stream an event list, a condition variable, `done` | submit, stream, get, stream of a finished job |
| Job queue | `pipeline/internal/queue/queue.go` | slice, mutex, condition variable | `Enqueue`, `Pop`, `Size` |
| Render daemon | `pipeline/cmd/pipelined/main.go` | queue, results by id, worker's context | POST and GET of jobs, worker loop, SIGTERM |
| FFmpeg process | `pipeline/internal/ffmpeg/ffmpeg.go` | subprocess, stderr reader, ring buffer | `Run`, `BuildArgv` |
| Uploader | `pipeline/internal/upload/upload.go` | output directory, counter | `Upload` |
| Argument builders | `videoagent/ffmpeg_run.py`, `ffmpeg.go` | none | plan to FFmpeg command line, twice |
| Batch runner | `videoagent/batch.py` | thread pool, result list | `run_batch`, `summarize` |
| Evaluation | `videoagent/eval.py`, `eval/` | list of outcomes | puts fixed cases to the planner, compares, exits 0 or 1 |
| Timeline UI | `web/app.js` | `busy` and the one job the page shows | submit, read chunks, apply frames |
| OpenAI client | `videoagent/openai_client.py` | none | one remote call |

How they interact. A request makes a `Job`; a thread calls `plan()`, which reports each step
through the callback `on_event`. On the streaming endpoint that thread is a *runner* and the
callback appends to a list that the response *generator* drains and sends; on the other
endpoint the request's own thread plans and the response is the status it ends with. `GET` reads the
same record from other threads, field by field and outside the lock. In the daemon, one goroutine
per request calls `Enqueue`; a single worker calls `Pop`, runs FFmpeg on a scratch file named
after the job's id, copies the file to the output directory and stores a result under the id.
`main()` waits for a signal, cancels the worker's context, drains the server and waits for
the worker. Within one job of the worker, `BuildArgv` turns the plan into a command line (the
Python service has a builder of its own for the same plans), and `Run` starts the process, with
a goroutine that reads its stderr line by line. The page reads the stream of the service in
chunks and keeps one job; the batch runner and the evaluation call the planner from Python.

What is hard here, and what makes each part correct:

- **Job queue.** Any number of callers sleep on one condition variable; a job is announced
  with one `Signal`, the end of a caller's context with a `Broadcast` from a goroutine of its
  own, which may outlive the call. Correct if it is an atomic FIFO to its callers: no lost
  wakeup, no lost cancellation, a queued job before a cancellation.
- **Planner.** A bounded loop with two ways to reject a reply, one of which has no event, and
  two ways to leave by an exception. Correct if a returned plan fits the source, and every
  prompt and every failure is about the last reply.
- **Plan API.** The runner and the generator share a list; `done` is set without the lock and
  read without it; the client may leave at any frame; readers see the record between two
  stores. Correct if the stream carries the planner's events, all and in order, and ends; and
  if what a reader sees is one verdict.
- **Render daemon.** Many ways round the worker's loop, several jobs that may share an id and
  so a scratch file, an output and a result, or have ids that differ and still name the same
  files; a stop at any time. Correct if every accepted job is answered in its turn, a success is
  about the file it points to, as long as nobody else writes to it, and a stop answers the queue
  first.

- **Argument builders.** One loop over the plan fills two lists of filters, written twice in two
  languages; the daemon's takes any JSON. Correct if picture and sound stay in step and in the
  plan's order, if the filter graph is closed, whatever was posted, and if the two loops give the
  same command for what was verified.
- **FFmpeg process.** Process, pipe, reader and caller run side by side; the pipe is closed when
  the process has been reaped. Correct if the process is never left waiting on a full pipe, lines
  are passed on whole and once, the ring buffer keeps the last of them, and nothing goes on
  when `Run` has returned.
- **Batch runner.** Threads finish in any order; a job may fail with something that is no
  `Exception`, and the caller may be interrupted anywhere. Correct if results stay with their jobs
  and a batch that has failed starts no further job.
- **Evaluation.** The table's rows, the cases, the schema, the verifier and two tolerances have to
  agree. Correct if the exit code is 0 exactly when every case is met.
- **Timeline UI.** Frames cut by chunks, errors of one attempt on the page when the next succeeds,
  streams that break. Correct if the page shows the last stream and its verdict, and can be
  used again.

`PROJECT.json` lists every component with its status, and under `hazards` each of these
difficulties at the line where it bites with the properties that cover it.

## 2. The modules

```
FifoQueue  <---implements---  JobQueue      JobQueueProofs
    ^
    |  INSTANCE
Pipeline                                    PipelineProofs

VideoOps  <--EXTENDS--  Planner             PlannerProofs
 ^    ^                    ^                     ^
 |    |                    | EXTENDS             | EXTENDS
 |    |                 PlanApi             PlanApiProofs
 |    |
 |    +-- FfmpegArgv  <--EXTENDS--+
 |                                Render    RenderProofs
 |        FfmpegRun   <--EXTENDS--+
 |
 +------- Eval                              EvalProofs

Batch                                       BatchProofs
TimelineUI                                  TimelineProofs
```

The modules `MC...` give the constants their values for
TLC; each module marks the variants of its definitions used to test the properties with a
comment `Mutant`: such a definition is a plausible bug and is used by no specification.

**FifoQueue** is the contract of the Go interface `Queue`: a sequence, on which an `Enqueue`
is accepted, a `Pop` served, or a cancelled `Pop` refused when there is nothing, each at one
instant. Its fairness says that a job and a caller do not face each other for ever.

**JobQueue** is `queue.Memory` with threads. `mu`, `buf` and `waiting` are the mutex, the
slice and the notify list of the condition variable. `pc` is where a thread is in its call:

| `pc` | code |
|---|---|
| `lock` | before `m.mu.Lock()` (queue.go:51, 63) |
| `signal` | appended, before `Signal` and `Unlock` (57-58) |
| `test` | at the loop's test, with the mutex (79-82, 85-87) |
| `wait` | found nothing, context read as live, before `cv.Wait` (83) |
| `asleep` | in `cv.Wait`: on the list, or off it and waiting for the mutex |
| `leave` | answer computed, before the deferred `close(stop)` and `Unlock` (64, 68) |

`watching[p]` is the watcher of the present call, `strays[p]` counts those of earlier calls
that have not ended: `select` takes either channel when both are closed, so they may still
broadcast. The gap between reading `ctx.Err()` and `Wait` is a state of its own, because the
context may end in it. The slice is unbounded in the code; `Capacity` and `MaxStrays` are
bounds of the model, on how often the environment calls.

**VideoOps** is what pydantic accepts (`SchemaOK`) and what `_verify_one` reports (`Breaks`),
in whole milliseconds and hundredths. **Planner** is one run of `plan()`. `Faults` is what
`_parse_plan` raises, in the order in which it looks: too many calls, then the first bad call,
then the length of the plan. A `ValueError` or `ValidationError` goes round the loop, a
`TypeError` leaves `plan()`. Prompts are represented by the errors they list.

**PlanApi** is one job. Jobs have nothing in common but a dictionary that is only touched
under its lock, so one job shows what many do. `worker` is the thread that calls `plan()`
(`Planner`'s steps, with `on_event`), then stores the fields one at a time in the order of the
code, which differs between the endpoints, then sets `done` and notifies, two steps. `gen` is
the generator. The condition variable's lock is held from a look at the list to the drain or
the wait, so those are one step; the exit test takes no lock, but reads in an order (`done`
first) in which nothing the runner does between the two reads can matter, so it is one step
too. The reader reads field by field.

**Pipeline** is the daemon over `FifoQueue` (which `JobQueue` implements): a step per point at
which a file, the store or the queue changes. FFmpeg may fail, be killed or succeed; the disk
may fail at `MkdirAll`, `Open`, `Create` and in the copy. Results are kept by id, as the client
wrote it, files by path: nothing checks an id (main.go:64-69), and `/tmp/<id>.mp4` (main.go:126) and
the joined key (main.go:141, upload.go:50) are cleaned, so `a` and `./a` have results of their own
but one scratch file and one output. `ScratchOf` and `OutputOf` say which path an id names; any two
ids may share either, and the output of one may be the scratch file of another. Assumed is only
that no id names the same file twice (`PathAssumption`): the output lies at least one directory
deeper than the scratch file, wherever the output directory is. `files` holds the job whose output a
file holds, or `Partial`. `accepted` and `signalAt` are history variables.

**FfmpegArgv** is `build_argv` and `BuildArgv`, which pass over the plan in step (`Visit`), so that
they can be compared at every turn. `py` and `go` hold what each loop has collected; Python says with
two flags whether a chain is needed, Go with the chain's being empty, and that difference is kept,
because the empty chain is where such code goes wrong. A command is what FFmpeg is told, not how
it is spelled: inputs, chains with the streams they read and the labels they define, maps, seek.
`AtempoChain` is the Python loop that halves, Go's is written out; both are in ten-thousandths,
the digits that are printed. A plan is either the planner's (`checked`), typed and verified, and
then both loops take it; or it is `Posted` to the daemon, which decodes any JSON, and then only
`BuildArgv` does. `PostedOps` are operations as `BuildArgv` reads them: any numbers, 0 for one that is
missing, an op it does not know, which it passes over, and a concat of which only some inputs are
strings (`Texts`). `Runnable` is external: what FFmpeg refuses.

**FfmpegRun** is `Run`. The stderr stream is represented by three positions in it (`written` by the
process, `fetched` into the `bufio.Reader`, `taken` as lines); every `LineLen`-th piece ends a
line. `caller` goes through `start`, `wait`, `close` (`cmd.Wait` has reaped and is about to close the
pipe), `join` (`wg.Wait`) to an outcome; `reader` is the goroutine. `pushed` is the history of the
lines handed to the ring buffer `lines` and to `progress`. **Render** is the part of `runWorker` that
does the one and then the other: FFmpeg succeeds only on a command it accepts.

**Batch** is `run_batch` over a thread pool. `future[i]` is the state of call `i`; the caller submits
the calls one by one (`Submit`), while threads take them, asks for results in order (`Collect`), and a
failure or an interrupt cancels from the last job down, one at a time (`CancelRest`), while threads
go on taking calls. An interrupt may come while calls are submitted (nobody has their futures then,
so all that were submitted will run), in the loop, while the rest is cancelled (what is not cancelled
yet will run), and while the end of the `with` block waits for the threads, which then go on after
`run_batch` has raised. `cause` says what ended the loop, and `uncancelled` that an interrupt kept it
from cancelling. `None` marks a slot that is not filled.
`summarize` sorts the durations: `Sortings` is the set of their arrangements in order, of which
`Median` takes one, since all of them are the same sequence.

**Eval** holds the twelve cases and the scripted replies as they stand in `eval/`. An instruction is
the set of the table's needles that occur in it, which is all `_RoutingFakeChat` looks at. One run
either has these cases or some with expected frames, which `run_suite` knows and the curated list
does not use; the curated cases, in the order in which `run` puts them, are `Suite`. With `--summary`
the cases are only listed (`phase = "listed"`). `answers` is a history variable.

**TimelineUI** is the page's script. A frame is three tokens, its lines and the two newlines, and a
chunk any number of tokens, so a frame can be cut at each place that matters. What a frame
carries is tagged with the submission and the event it belongs to. The frames of a chunk are applied
one after the other (`ApplyFrames`, a recursive function). After a verdict a
stream has nothing that carries operations or errors (`UIAssumption`); the service keeps to that by
`VerdictEndsStream`, a theorem about `PlanApi`.

## 3. The runs

| run | instance | states | shows |
|---|---|---|---|
| `queue` | 2 callers of `Pop`, 2 of `Enqueue`, 2 jobs, capacity 2, 1 stray watcher each | 21,753 | `NoLostWakeup`, `CancelReaches`, and `ImplementsFifo`: refinement of `FifoQueue` with its fairness |
| `planner` | 13 replies, 2 replans, at most 2 calls | 3,370 | `PlanFitsSource`, `FeedbackIsCurrent`, `TraceIsOrdered`, `PlanEnds` |
| `api` | both endpoints, 4 replies, 1 replan, a reader, a client that may leave | 188,541 | `NothingLost`, `EndIsFinal`, `NoMissedNotify`, `ReadsAgree`, `VerdictStands`, `StreamEnds`, `PlanningSettles` |
| `pipeline` | 3 jobs, two with one id, the third with another that names the same files; 2 handlers, a signal at any time | 129,185 | `EveryJobIsAnswered`, `SuccessHasItsFile`, `StopAnswersTheQueue`, `JobsGetResults`, `SignalEnds` |
| `render` | plans of 0 to 2 operations out of nine, limits of the tempo, one plan of 5; 5 plans that nobody verified; source with and without sound; lines of 2 pieces, a pipe of 2, a tail of 2, stderr of 0 or 5 pieces | 99,647 | `ChainsFollowPlan`, `LabelsResolve`, `BuildersAgree`, `LinesAreWhole`, `TailIsLast`, `NothingGoesOn`, `RunReturns` |
| `batch` | batches of 0, 2 and 3 jobs, one id twice; `max_workers` 0 or 2; durations 1 or 2; an interrupt at each of four places | 27,654 | `ResultsMatchInput`, `FailureStops`, `SummaryAddsUp` |
| `eval` | 12 cases, or 2 with frames; 10 other replies, 2 deviations, 1 replan; or `--summary` | 33,934 | `ExitCodeIsTrue`, `ScriptPasses` |
| `ui` | 2 submissions, 6 streams, chunks of any size | 21,013 | `PageIsTheTrace`, `PageShowsVerdict`, `PageSettles` |

The first five also check the type invariant of their module. Four more runs check a sentence of
the repository that the code does not keep (section 6).

Why the bounds are enough. In the queue, two callers give a `Signal` a choice and let one
caller take the job another was woken for; two producers append between a wakeup and the
test; a stray of an earlier call broadcasts in a later one. A third caller adds no new pair.
In the planner, two replans let a second rejection follow a first, so that errors of the one
could leak into the prompt of the next; the replies are chosen to be each right or wrong in
one or two of the ways the code tells apart, at the limits as well. In the API one replan,
the default, gives traces of up to eight events, enough for the list to be drained while the
runner appends; the four replies are the four ways an attempt ends. In the daemon, three jobs
let one wait while one is in work and one is answered, the shared id makes a retry overwrite a
first output, the id that cleans to the same path writes over a file whose result it does not
own, and with two handlers a request is under way when the signal comes. Ids with files of their
own, and any other sharing, are covered by the theorems.
For the argument builders, a plan of two covers every pair of neighbours, which is what the chains'
joints and the last of two seeks depend on; the longer plan has every filter at once. The posted
plans have an op that is not known, a concat without a string next to filters and one with some, and
numbers outside every range. In `Run`, five pieces are two lines and an unfinished one, the pipe
fills up, and a tail of two overflows once, so that its order shows.
In a batch, three jobs on two threads leave one waiting that can be cancelled, and the median of
two and three durations is taken on both sides of a half. In the evaluation, two deviations may
hit one case twice, so that a replan comes back to the same case, or two cases. The page needs two
submissions for anything to be left over from the first.

`CHECK_DEADLOCK FALSE` is set wherever what is modelled ends: in all runs but the queue's.

### Fairness

- `JobQueue`: weak fairness for steps of a thread that holds the mutex, strong fairness for
  those that need it. A Go mutex goes to a waiter that has waited a millisecond before anybody
  else (its starvation mode), so a thread for which it is free again and again gets it. With
  weak fairness only, other threads could take it for ever. Nobody has to call, and no context
  has to end.
- `Planner`: the step is weakly fair, since the HTTP client of the model has a timeout.
- `PlanApi`: the job's thread, and the generator as long as the client reads.
- `Pipeline`: handlers, `main()` and the worker are weakly fair: an FFmpeg process ends or is
  killed. Nobody has to send a signal.
- `Render`: the builders, the caller, the reader and a process that can write or end are weakly
  fair, each on its own. In particular a process that waits on a full pipe may wait for ever
  unless somebody reads. Nobody has to end the context, and FFmpeg need not fail.
- `TimelineUI`: the response goes on arriving, since the server's streams end (`StreamEnds`), unless
  the connection breaks; nothing obliges it to. Nobody has to submit.
- `Batch` and `Eval` state no fairness and no liveness: whether `process_one` ends is up to the caller,
  and the evaluation is a loop over a list.

## 4. The proofs

All theorems hold for every value of the constants under the assumptions named in the modules
(`QueueAssumption`, `PlannerAssumption`, `ApiAssumption`, `PipelineAssumption`, `ArgvAssumption`,
`PathAssumption`, `RunAssumption`, `BatchAssumption`, `EvalAssumption`, `UIAssumption`): the sets of
threads are finite and disjoint, markers such as `NoJob` are no jobs, replies and plans are sequences
of typed operations, posted plans of operations as `BuildArgv` reads them, a job's scratch file is not
its output, lines, pipe and tail have a size. They are about the specifications without fairness;
`PlannerSpec` has a fairness conjunct that its proofs do not use.

**JobQueueProofs.** `TypeCorrect`, `NoWakeupLost`, `NoCancelLost`, and `MemoryIsFifo`: every
step is a step of `FifoQueue` or leaves its variables alone. `NoLostWakeup` (while somebody
sleeps there are at least as many threads on their way to the buffer as jobs in it) is not
inductive alone. One needs that at most one thread is past the mutex (`MutexHeld`), that a
caller about to sleep saw an empty buffer that has not changed since (`EmptyWhenWaiting`), and
that whoever is on the notify list is asleep (`ListedAreAsleep`), so that a signal turns one
sleeper into one thread that is awake. For the cancellation: a caller whose watcher has gone
was cancelled (`Watched`), and it cannot be at `wait`, since it read its context as live with
the mutex held, which the watcher needs. The counting uses the library's facts on finite sets.

**PlannerProofs.** `PlansFit`: a clean verification implies `Fits`, which is stated in terms of the
footage rather than of the verifier's tests. `FeedbackCurrent`: prompts and failures name the
defects of the last reply, and giving up takes exactly `max_replans + 1` calls; `LoopCount` ties the
number of `llm_call` events to the attempt and the place in the loop. `TraceOrdered` (an action
property) needs to know where the loop is from the last event alone: `LatestFits` relates the two,
and the attempt number the event carries. `VerdictEndsTrace`: a `plan_ready` or `plan_failed` is the
last event of a run, from the same relation.

**PlanApiProofs.** `JobRunsPlan`: a job is a run of `plan()`, that is, each of its steps is a step
of `Planner` or leaves the planner's variables alone; so the planner's invariants carry over.
`Places` relates the generator's place, `done` and the runner's place: the generator is started
before the runner, `done` is set only after the last store, a generator that has ended saw `done`.
`Stored` says which fields still differ from the verdict. From these: `StreamIsTrace`, `WaitIsTold`,
`EndFrameIsFinal` and `VerdictIsFinal` (an action property), and `VerdictEndsStream`: what was sent
up to a verdict is the whole trace, by `VerdictEndsTrace` and `NothingLost`. For
`ReadsAreOneVerdict`, the invariant `ReaderInv` says of each field that has been read that it is as
at the beginning or the verdict's, and of a reader that started after the end of the stream, or on
the other endpoint, that it is the verdict's; that is stable because the stores only go from the one
to the other. What remains is that the order of the stores makes no bad mixture.

**PipelineProofs.** `JobsAreAnswered`, `SuccessIsGenuine`, `StopIsGraceful`. The strengthening
`WorkerPlaces` says what the worker may rely on: between FFmpeg's exit and the end of the copy the
scratch file is the whole output of its own job, after the copy so is the output file, and the
worker goes only when the context is done and the queue empty, at which point all accepted jobs are
answered. For the files, `SuccessHasItsFile` is itself inductive next to these: a step that writes to
a path does so for the job at hand, which was taken after any job that is answered, so the file of an
earlier success either holds what it held or is on account of a later job (`LeftBy`). Nothing is
assumed of which ids share which paths. `DaemonKeepsContract`: the daemon uses its queue as `FifoQueue` allows, so that
`MemoryIsFifo` is about the queue the daemon has.

**RenderProofs.** For `Run`: `RunTypeCorrect`; `RunLeavesNothing`, from an invariant on what each
place of the caller implies (`CallInv`); `LinesPassWhole`, for lines of any length, where the
strengthening says that a line the reader has in its buffer begins where the last one ended; and
`TailHoldsLast`, where a push is compared with a subsequence of the history. For the builders:
`CommandsResolve`. `BuildInv` says that the operations are of the schema or, in a posted plan, any that
`BuildArgv` reads (`Met`), that no filter the loops have collected is a join, and that the inputs to
append are counted by a natural number; a command put together from such lists is closed, in both
languages. What follows is of the planner's plans. `LoopsAgree` (`BuildersAgree`):
the invariant `Alike` relates Go's lists to Python's turn by turn, and Go's empty chain to Python's
flags; `ChainsAgree` compares the two ways of halving. `ChainsCarryPlan` (`ChainsFollowPlan`): the
invariant `Followed` says that the lists hold what the operations passed so far contribute, in their
order; an operation adds nothing to a list (`InStepSkips`) or something at its end (`InStepGrows`),
and `TempoRealised` says that the factors of a chain multiply to the speed of its operation.

**BatchProofs.** `ResultsInOrder` and `FailureEndsBatch` (an action property, which goes on holding
when an interrupt has ended the wait for the threads), from four parts: what each place of the caller
implies (`Phases`), the slots filled so far are those of their own jobs (`Collected`), how the loop
ended (`Ends`), and that the calls between the cancelling and the end of the list are not pending any
more, unless an interrupt kept them from being cancelled (`Cancelled`). `SummaryIsRight`
(`SummaryAddsUp`): that results in order exist (`SortingExists`: a duration's place is the number of
those before it, ties by index), so that `Median` is defined; and that half of the durations are on
each side of the value it takes (`MedianHalves`).

**EvalProofs.** `GateIsTrue`. `GateInv` says that each verdict so far is the one of its case and
that the result at hand is a plan of typed operations with the codes of its last reply.
`PlanEqualMeans` and `CodesMean` relate the comparisons the code makes to `Alike` and `Breaks`, in
which the property is stated; the cases and the table are shown to be typed one by one.
`ScriptIsGreen` (`ScriptPasses`): for each case, the first row of the table that its instruction
hits (`FirstMatch`) scripts a reply that fits the source and meets the case (`ExactsPass`,
`BoundedPass`, `FailuresPass`), hence without deviations every verdict so far is good (`ScriptInv`).

**TimelineProofs.** `PageShowsOneTrace` (`PageIsTheTrace`) and `VerdictIsShown` (`PageShowsVerdict`).
`PageInv` says how far the stream of the last submission has been read, on whole tokens, and that the
job on the page is what its frames read so far give. `FramesShow` says so of the frames of one chunk.

Induction over data. The library's induction theorems take an operator, which no prover here can
instantiate. Where a proof needs an induction over the length of a sequence (the frames of a chunk) it
is said of a set: `SetInduction`, from the fact that a set of natural numbers has a least element.
The halving of the tempo needs none, since the schema's limits bound the number of times it goes round.

Only model-checked:

- everything that needs fairness (`StreamEnds`, `PlanningSettles`, `PlanEnds`, `JobsGetResults`,
  `SignalEnds`, `RunReturns`, `PageSettles`, and the fairness part of `ImplementsFifo`): TLAPS does
  not handle `ENABLED` and liveness here;
- the four sentences that do not hold.

## 5. What is not modelled

- Binary rounding of times: all times are whole milliseconds. An operation within rounding of a
  limit (a trim of just 0.1 s), infinities and NaN are outside the model.
- Texts: prompts, hints, logs, HTML, formatted numbers.
- What FFmpeg does with its arguments, the probing of the source, the model behind the client.
- What the page draws from its state, and a blank instruction, which `submit` ignores.
- The report files and timings of the evaluation and the batch. An interrupt within the few
  instructions of the thread pool between two of the steps of **Batch**: its effect is taken to be
  that of one before or after.
- Links between files, and ids that differ only to the file system (case).
- Factors in posted plans that are no finite numbers. A posted factor above 8 has a last stage of more
  than four digits, which the model cuts and `Sprintf` rounds; no property is about it.
- The remote model client (`openai_client.py`): one call. The planner takes it as something that
  answers or raises.
- `op_descriptions`, `tool_schemas` and `explain`, which format; `f64` and `i64`, which decode JSON
  numbers to what `PostedOps` says, and the spelling of filters.
- Whether a scene looks right: a `Runnable` command is one FFmpeg accepts.
- The queue's `Size` and the daemon's `GET` and `/metrics`: they only read.
- More than one job of the service at a time (nothing is shared but the dictionary), and
  more than one worker in the daemon (there is one).

## 6. Where code and text disagree

- `stream_without_verdict`: api.py:107-109 lists `plan_ready | plan_failed` before `end`. When
  the client raises, or the arguments of a call are JSON but no keyword arguments, `plan()`
  raises, the runner's `finally` ends the stream without a verdict, and the record stays
  `queued`.
- `ready_without_plan`: the runner stores `status` before `plan` (api.py:144-145), so a reader
  may get a ready job without a plan. `_plan_now` stores them the other way round.
- `url_goes_stale`: upload.go:20-23 asks that a returned URL stays valid for an hour; a second
  job under the same id, or under one that cleans to the same path, truncates and then replaces
  the file.
- `verified_not_runnable`: verifier.py:36 says that a plan without errors is runnable, but the
  verifier looks for a sound stream only before a `Volume` (verifier.py:110-115). A `Cut`, `Speed`
  or `Concat` on a source without sound is verified and built into a command that reads
  `[0:a:0]`. A speed under 0.25 is another case: the chain's second factor is under 0.5, outside the
  range that the function's own comment gives (ffmpeg_run.py:107-109).

Noticed, without a run:

- ARCHITECTURE.md:109 checks `speed * duration` where the code divides; planner.py:93-95 names an event
  `verify_ok` that is never sent; ARCHITECTURE.md:157-158 describes `output_key` and `webhook_url`,
  which the daemon ignores.
- ARCHITECTURE.md:172-176 gives the statuses of a job as `queued | planning | running | done | failed`,
  with `ffmpeg_log_tail` and `output_url`, answers a submission with 202 and `queued`, and sends FFmpeg's
  progress over the stream. The code has `queued | planning | ready | failed` (api.py:36), which is
  what `ApiTypeOK` says: a job is never `running` or `done`, a plan that was made leaves it `ready`,
  the two fields do not exist, `POST /v1/jobs` answers 200 with the status once it is planned, and
  the stream has the planner's events only, since the service never hands a plan to the daemon.
- Ids are not checked by the daemon. Two jobs under ids that clean to one path have a result each,
  and both point to one file: the result of `a` may be a success while its file holds the output of
  `./a`. `SuccessHasItsFile` allows that to a job taken later, and nothing else.
- An interrupt that reaches `run_batch` while the pool is closed leaves its threads running, and one
  while calls are submitted or cancelled leaves calls that will still be started (batch.py:69-72).
  No sentence of the repository says otherwise. `FailureStops` is about the rest.
- `--summary` exits 0 without running a case (runner.py:167-171), next to "Exits 0 only if every case
  matches its expectation" (runner.py:4-5); `ExitCodeIsTrue` is about runs.
- A plan with a concat loses all its filters: the graph is the concat alone (ffmpeg_run.py:19-22
  describes a chain before it). `ChainsFollowPlan` excludes such plans by name.
- `cmd.Wait` closes the pipe when the process has been reaped, while the reader may have data left
  to read (ffmpeg.go:196 against 165-166): the last lines may be missing from the tail. The model
  has these steps; `NothingGoesOn` promises all lines only to a reader that met the end of the
  stream.
- When `plan()` raises under the endpoint without a stream, the request is answered 500 and the
  record stays `planning` (api.py:190). A stream that ends in that way leaves the page on
  `planning` or `verify_fail`.
- A connection that breaks after `plan_ready` makes the page show `failed`, with the operations.
- The page's count of replans reads `raw_calls`, which nothing fills (app.js:287).

## 7. Plan

Done: all components that keep state, their composition where they share it (queue and daemon,
planner and API, command and process), and the proofs of section 4.

Left, in the order of what it would add:

1. `Pipeline` with `FfmpegRun` in place of the three outcomes it takes for FFmpeg now: the worker's
   context, the kill and the drain at a signal in one model. `Pipeline` takes any outcome at
   any time, so its safety properties would not change; the liveness of the stop could.
2. The page over `PlanApi` rather than over a list of streams, with the job read back after a
   break.
3. Times with the rounding of binary fractions at the limits of the verifier.
4. As a theorem, that the daemon of item 1 implements `Pipeline`.

## 8. Running

```
tlc -workers 2 -config MCJobQueue.cfg MCJobQueue      # likewise MCPlanner, MCPlanApi, MCPipeline,
                                                      # MCRender, MCBatch, MCEval, MCTimelineUI
tlc -config VerdictBeforeEnd.cfg MCPlanApi            # a counterexample; likewise ReadyHasPlan.cfg
tlc -config UrlStaysValid.cfg MCPipeline              # a counterexample
tlc -config VerifiedIsRunnable.cfg MCRender           # a counterexample
tlapm JobQueueProofs.tla                              # likewise the other *Proofs modules
```
