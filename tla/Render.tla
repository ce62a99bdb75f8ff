---------------------------- MODULE Render ----------------------------
(***************************************************************************)
(* The two lines of runWorker (pipeline/cmd/pipelined/main.go) between a   *)
(* popped job and its result: the plan becomes a command, and the command  *)
(* an FFmpeg process.  FfmpegArgv is the first, with build_argv's loop     *)
(* next to BuildArgv's; FfmpegRun the second.                              *)
(*                                                                         *)
(* External: FFmpeg refuses a command that reads a stream its input does   *)
(* not have, or a tempo under 0.5.  The inputs a concat appends are taken  *)
(* to have all they need.                                                  *)
(***************************************************************************)
EXTENDS FfmpegArgv, FfmpegRun

vars == <<argvVars, runVars>>

Accepted == Runnable(GoCommand(go))

Build == Visit /\ UNCHANGED runVars

\* How a process that is let run ends.
Finish == IF Accepted THEN Succeed ELSE Fail

Ffmpeg == Built /\ (Write \/ Finish) /\ UNCHANGED argvVars

\* It may also fail, or be killed.
FfmpegFails == Built /\ (Fail \/ Kill) /\ UNCHANGED argvVars

Await == Built /\ Call /\ UNCHANGED argvVars

Stream == Built /\ Read /\ UNCHANGED argvVars

Stop == Cancel /\ UNCHANGED argvVars

Init == ArgvInit /\ RunInit

Next == Build \/ Ffmpeg \/ FfmpegFails \/ Await \/ Stream \/ Stop

SafeSpec == Init /\ [][Next]_vars

\* Goroutines are scheduled, and a process that can write or end does.  Nobody has
\* to end the context.
Fairness == WF_vars(Build) /\ WF_vars(Ffmpeg) /\ WF_vars(Await) /\ WF_vars(Stream)

Spec == SafeSpec /\ Fairness
=============================================================================
