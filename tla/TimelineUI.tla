---------------------------- MODULE TimelineUI ----------------------------
(***************************************************************************)
(* The page (web/app.js): submit, its loop over the chunks of the response *)
(* and applyFrame, which writes what it reads into the one job the page    *)
(* shows.                                                                  *)
(*                                                                         *)
(* A frame is three tokens, its lines and the two newlines after them; a   *)
(* chunk is any number of tokens.  What a frame carries, operations or     *)
(* errors, is tagged with the submission it answers.  The server sends the *)
(* frames that plan_stream can send (modules Planner and PlanApi).         *)
(*                                                                         *)
(* External: the connection, which may refuse the request or break at any  *)
(* token, and else ends after the last.  A blank instruction, which submit *)
(* ignores, is left out.                                                   *)
(***************************************************************************)
EXTENDS Integers, Sequences

CONSTANTS Submissions,   \* how often the user submits
          Traces,        \* the sequences of events a server may send
          NoJob

\* The events that carry something, and the two that end a plan.
Carrying == {"tool_calls", "verify_fail", "plan_ready", "plan_failed"}
Verdicts == {"plan_ready", "plan_failed"}

\* After a verdict the server sends nothing but the end frame.
ASSUME UIAssumption ==
    /\ Submissions \in Nat
    /\ \A t \in Traces : /\ t \in Seq(STRING)
                         /\ \A i, j \in DOMAIN t : i < j /\ t[i] \in Verdicts => t[j] \notin Carrying

VARIABLES busy,        \* state.busy
          job,         \* state.job
          loop,        \* where each call of submit is
          trace,       \* what the server sends it
          got,         \* tokens it has received
          applied      \* frames it has applied

loopVars == <<trace, got, applied>>
vars     == <<busy, job, loop, loopVars>>

Calls == 1 .. Submissions

FrameLen == 3

---------------------------------------------------------------------------
(* The server's frames *)

\* What a frame carries has a tag of its own.
Frame(k, i) == [event |-> trace[k][i],
                data  |-> IF trace[k][i] \in Carrying THEN {<<k, i>>} ELSE {}]

---------------------------------------------------------------------------
(* applyFrame *)

ApplyFrame(j, f) ==
    LET seen == [j EXCEPT !.trace = Append(@, f)]
    IN  CASE f.event = "tool_calls"  -> [seen EXCEPT !.ops = f.data]
          [] f.event = "verify_fail" -> [seen EXCEPT !.status = "verify_fail", !.error = f.data]
          [] f.event = "plan_ready"  -> [seen EXCEPT !.status = "ready", !.ops = f.data, !.error = {}]
          [] f.event = "plan_failed" -> [seen EXCEPT !.status = "failed", !.error = f.data]
          [] OTHER                   -> seen

\* Frames a + 1 .. b of response k, one after the other.
ApplyFrames(k, j, a, b) ==
    LET after[i \in a .. b] == IF i = a THEN j ELSE ApplyFrame(after[i - 1], Frame(k, i))
    IN  after[b]

---------------------------------------------------------------------------
(* submit *)

NewJob == [status |-> "planning", ops |-> {}, error |-> {}, trace |-> <<>>]

\* Mutant: both listeners of Ctrl+Enter get through.
SubmitAgain(k) ==
    /\ loop[k] = "none" /\ \A l \in 1 .. k - 1 : loop[l] # "none"
    /\ busy' = TRUE
    /\ job' = NewJob
    /\ loop' = [loop EXCEPT ![k] = "fetch"]
    /\ \E t \in Traces : trace' = [trace EXCEPT ![k] = t]
    /\ UNCHANGED <<got, applied>>

Submit(k) ==
    /\ loop[k] = "none" /\ \A l \in 1 .. k - 1 : loop[l] # "none"
    /\ ~busy
    /\ busy' = TRUE
    /\ job' = NewJob
    /\ loop' = [loop EXCEPT ![k] = "fetch"]
    /\ \E t \in Traces : trace' = [trace EXCEPT ![k] = t]
    /\ UNCHANGED <<got, applied>>

Respond(k) == /\ loop[k] = "fetch"
              /\ loop' = [loop EXCEPT ![k] = "read"]
              /\ UNCHANGED <<busy, job, loopVars>>

\* Mutant: one frame of a chunk is applied.
ReceiveFirst(k, n) ==
    /\ loop[k] = "read"
    /\ n \in got[k] + 1 .. FrameLen * Len(trace[k])
    /\ got' = [got EXCEPT ![k] = n]
    /\ IF n \div FrameLen > applied[k]
       THEN /\ applied' = [applied EXCEPT ![k] = @ + 1]
            /\ job' = ApplyFrame(job, Frame(k, applied[k] + 1))
       ELSE UNCHANGED <<applied, job>>
    /\ UNCHANGED <<busy, loop, trace>>

\* A chunk: every frame it completes is applied, without a pause.
Receive(k, n) ==
    /\ loop[k] = "read"
    /\ n \in got[k] + 1 .. FrameLen * Len(trace[k])
    /\ got' = [got EXCEPT ![k] = n]
    /\ applied' = [applied EXCEPT ![k] = n \div FrameLen]
    /\ job' = ApplyFrames(k, job, applied[k], n \div FrameLen)
    /\ UNCHANGED <<busy, loop, trace>>

\* The response has ended.
Done(k) == /\ loop[k] = "read"
           /\ got[k] = FrameLen * Len(trace[k])
           /\ loop' = [loop EXCEPT ![k] = "done"]
           /\ busy' = FALSE
           /\ UNCHANGED <<job, loopVars>>

\* Mutant: the page is released at the end of the try block.
BreaksBusy(k) == /\ loop[k] \in {"fetch", "read"}
                 /\ loop' = [loop EXCEPT ![k] = "broken"]
                 /\ job' = [job EXCEPT !.status = "failed", !.error = {<<k, 0>>}]
                 /\ UNCHANGED <<busy, loopVars>>

\* fetch or read throws, or the answer is not OK.
Breaks(k) == /\ loop[k] \in {"fetch", "read"}
             /\ loop' = [loop EXCEPT ![k] = "broken"]
             /\ job' = [job EXCEPT !.status = "failed", !.error = {<<k, 0>>}]
             /\ busy' = FALSE
             /\ UNCHANGED loopVars

---------------------------------------------------------------------------

Init == /\ busy = FALSE
        /\ job = NoJob
        /\ loop = [k \in Calls |-> "none"]
        /\ trace = [k \in Calls |-> <<>>]
        /\ got = [k \in Calls |-> 0]
        /\ applied = [k \in Calls |-> 0]

Arrives(k) == Respond(k) \/ (\E n \in got[k] + 1 .. FrameLen * Len(trace[k]) : Receive(k, n)) \/ Done(k)

Next == \E k \in Calls : Submit(k) \/ Arrives(k) \/ Breaks(k)

\* The server's streams end (StreamEnds of module PlanApi) and reach the page, or the
\* connection breaks.
Spec == Init /\ [][Next]_vars /\ \A k \in Calls : WF_vars(Arrives(k))

---------------------------------------------------------------------------
(* Properties *)

\* The last submission.
Shown == CHOOSE k \in Calls : /\ loop[k] # "none"
                              /\ \A l \in Calls : l > k => loop[l] = "none"

\* The page shows one submission at a time (app.js:32-38, 64): the events in job.trace
\* are the first ones of the last submission's stream, in order, none of them twice
\* and none from the stream before it, and what is shown comes from them.
PageIsTheTrace ==
    job # NoJob =>
        LET k == Shown
        IN  /\ job.trace = [i \in 1 .. applied[k] |-> Frame(k, i)]
            /\ job.ops \cup job.error \subseteq {<<k, i>> : i \in 0 .. applied[k]}

\* A response that has ended is shown whole (app.js:55-64, 82-105): a verdict in the
\* stream is the page's status, with the operations or the errors it brought and no
\* error left from an attempt before it; and the page is never ready without one.
PageShowsVerdict ==
    job # NoJob =>
        LET k == Shown
            verdict(e) == {<<k, i>> : i \in {j \in DOMAIN trace[k] : trace[k][j] = e}}
        IN  /\ loop[k] = "done" =>
                 /\ job.status = "ready" <=> verdict("plan_ready") # {}
                 /\ job.status = "ready" => job.ops = verdict("plan_ready") /\ job.error = {}
                 /\ job.status = "failed" <=> verdict("plan_failed") # {}
                 /\ job.status = "failed" => job.error = verdict("plan_failed")
            /\ loop[k] = "broken" => job.status = "failed" /\ job.error = {<<k, 0>>}
            /\ job.status = "ready" => \E i \in 1 .. applied[k] : trace[k][i] = "plan_ready"

\* A submission does not leave the page blocked: it can be used again after every
\* response, whole or broken (app.js:66-69).
PageSettles == busy ~> ~busy
=============================================================================
