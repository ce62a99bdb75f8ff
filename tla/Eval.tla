---------------------------- MODULE Eval ----------------------------
(***************************************************************************)
(* The regression gate: the curated cases (eval/cases.py), run_suite       *)
(* (videoagent/eval.py), and run and main (eval/runner.py) that put them   *)
(* to the planner and turn what it returns into an exit code.              *)
(*                                                                         *)
(* An instruction is the set of the needles of runner.py's table that      *)
(* occur in it; they are written with underscores here.  A reply is a      *)
(* sequence of operations; one with an operation the schema refuses has    *)
(* the code the planner gives it.  The planner is its contract (module     *)
(* Planner): it returns the first of its replies that verifies, or the     *)
(* codes of the last one, or it raises.  The model may deviate from the    *)
(* scripted replies MaxDeviations times.                                   *)
(***************************************************************************)
EXTENDS VideoOps, FiniteSetsExt

CONSTANTS FrameCases,     \* cases for run_suite without an expected plan
          Deviant,        \* replies that are not in the table
          MaxDeviations,
          MaxReplans      \* PlannerConfig.max_replans

\* A Concat also says whether one of its inputs mentions bonus.
EditOps == {o \in Operations : o.op # "concat"}
           \cup [op : {"concat"}, inputs : Int, bonus : BOOLEAN]

ASSUME EvalAssumption ==
    /\ MaxDeviations \in Nat /\ MaxReplans \in Nat
    /\ Deviant \subseteq Seq(EditOps)
    /\ FrameCases \in Seq([kind : {"frames"}, instruction : SUBSET STRING,
                           source : [duration : Int, has_audio : BOOLEAN], frames : SUBSET Int])

VARIABLES cases,       \* the cases of this run
          runner,      \* run_suite was given a runner
          outcomes,    \* a verdict on each case so far
          attempt,     \* calls of the model within plan()
          result,      \* what plan() returned for the case at hand
          answers,     \* what it returned and the runner did for each case (history)
          deviations,
          phase        \* "asking", "judging", "finished", "raised" or "listed"

vars == <<cases, runner, outcomes, attempt, result, answers, deviations, phase>>

---------------------------------------------------------------------------
(* cases.py *)

Cut(a, b)  == [op |-> "cut", start |-> a, end |-> b]
Trim(a, b) == [op |-> "trim", start |-> a, end |-> b]
FadeIn(t, d)  == [op |-> "fade_in", at |-> t, duration |-> d]
FadeOut(t, d) == [op |-> "fade_out", at |-> t, duration |-> d]
Speed(f)  == [op |-> "speed", factor |-> f]
Volume(f) == [op |-> "volume", factor |-> f]
Resize(w, h) == [op |-> "resize", width |-> w, height |-> h]
Concat(n, b) == [op |-> "concat", inputs |-> n, bonus |-> b]

Src(d, audio) == [duration |-> d, has_audio |-> audio]

ExactCase(needle, d, ops) ==
    [kind |-> "exact", instruction |-> {needle}, source |-> Src(d, TRUE), expected |-> ops]

EXACT == << ExactCase("cut_10", 60000, <<Cut(0, 10000)>>),
            ExactCase("fade_in", 60000, <<FadeIn(0, 1000)>>),
            ExactCase("fade_out_90", 120000, <<FadeOut(90000, 2000)>>),
            ExactCase("resize", 60000, <<Resize(1280, 720)>>),
            ExactCase("speed", 60000, <<Speed(200)>>),
            ExactCase("volume", 60000, <<Volume(50)>>),
            ExactCase("keep", 60000, <<Trim(5000, 35000)>>) >>

BoundedCase(needles, d, predicate) ==
    [kind |-> "bounded", instruction |-> needles, source |-> Src(d, TRUE), predicate |-> predicate]

BOUNDED == << BoundedCase({"cut_10", "cut_10_fade_90"}, 120000, "cut_and_fade"),
              BoundedCase({"concat"}, 60000, "concat_bonus") >>

Near(x, y, d) == x - y < d /\ y - x < d

Predicate(p, ops) ==
    \/ /\ p = "cut_and_fade" /\ Len(ops) = 2
       /\ ops[1].op = "cut" /\ ops[1].start = 0 /\ Near(ops[1].end, 10000, 500)
       /\ ops[2].op = "fade_out" /\ Near(ops[2].at, 90000, 1000)
    \/ p = "concat_bonus" /\ Len(ops) = 1 /\ ops[1].op = "concat" /\ ops[1].bonus

FailureCase(needle, audio, code) ==
    [kind |-> "failure", instruction |-> {needle}, source |-> Src(60000, audio), code |-> code]

FAILURES == << FailureCase("cut_30_to_300", TRUE, "cut_end_past_source"),
               FailureCase("volume", FALSE, "volume_no_audio"),
               FailureCase("fade_out_58", TRUE, "fade_past_source") >>

\* run: the exact cases through run_suite, then the bounded ones, then the failures.
Suite == EXACT \o BOUNDED \o FAILURES

---------------------------------------------------------------------------
(* runner.py: the scripted replies *)

Row(needle, calls) == [needle |-> needle, calls |-> calls]

TABLE == << Row("cut_10_fade_90", <<Cut(0, 10000), FadeOut(90000, 2000)>>),
            Row("cut_10", <<Cut(0, 10000)>>),
            Row("fade_in", <<FadeIn(0, 1000)>>),
            Row("fade_out_90", <<FadeOut(90000, 2000)>>),
            Row("fade_out_58", <<FadeOut(58000, 5000)>>),
            Row("resize", <<Resize(1280, 720)>>),
            Row("speed", <<Speed(200)>>),
            Row("volume", <<Volume(50)>>),
            Row("keep", <<Trim(5000, 35000)>>),
            Row("concat", <<Concat(1, TRUE)>>),
            Row("cut_30_to_300", <<Cut(30000, 300000)>>) >>

Matches(instruction) == {i \in DOMAIN TABLE : TABLE[i].needle \in instruction}

\* Mutant: the last row that matches wins.
ScriptedLast(instruction) ==
    IF Matches(instruction) = {} THEN <<>> ELSE TABLE[Max(Matches(instruction))].calls

\* "first match wins"; no match is no edit.
Scripted(instruction) ==
    IF Matches(instruction) = {} THEN <<>> ELSE TABLE[Min(Matches(instruction))].calls

---------------------------------------------------------------------------
(* The planner *)

Case == cases[Len(outcomes) + 1]

ErrorCodes(reply, source) ==
    IF \A i \in DOMAIN reply : SchemaOK(reply[i])
    THEN {e.code : e \in Verify(reply, source)}
    ELSE {"schema_invalid"}

Answer(reply) ==
    LET codes == ErrorCodes(reply, Case.source)
    IN  IF codes # {} /\ attempt < MaxReplans
        THEN attempt' = attempt + 1 /\ UNCHANGED <<result, phase>>
        ELSE /\ attempt' = 0
             /\ phase' = "judging"
             /\ result' = [ok |-> codes = {}, ops |-> reply, codes |-> codes]

Asking == phase = "asking" /\ Len(outcomes) < Len(cases)

Complete == /\ Asking
            /\ \/ Answer(Scripted(Case.instruction)) /\ UNCHANGED deviations
               \/ /\ deviations < MaxDeviations
                  /\ deviations' = deviations + 1
                  /\ \E reply \in Deviant : Answer(reply)
            /\ UNCHANGED <<cases, runner, outcomes, answers>>

\* Nothing around plan() catches what it raises: there is no report.
PlanRaises == /\ Asking
              /\ deviations < MaxDeviations
              /\ deviations' = deviations + 1
              /\ phase' = "raised"
              /\ UNCHANGED <<cases, runner, outcomes, attempt, result, answers>>

---------------------------------------------------------------------------
(* The verdicts.  A runner returns a path, nothing, or raises; right is the  *)
(* frames of its output that have the expected md5.                          *)

JudgeOutput(ok, output, right) ==
    /\ phase = "judging"
    /\ outcomes' = Append(outcomes, ok)
    /\ answers' = Append(answers, [plan |-> result, output |-> output, right |-> right])
    /\ phase' = "asking"
    /\ UNCHANGED <<cases, runner, attempt, result, deviations>>

Judge(ok) == JudgeOutput(ok, "none", {})

\* Times are floats; a factor is whole hundredths here, where the tolerance has no room.
SameField(f, x, y) == IF f \in {"start", "end", "at", "duration"} THEN Near(x, y, 2) ELSE x = y

SameOp(x, y) == x.op = y.op /\ \A f \in DOMAIN x : SameField(f, x[f], y[f])

\* Mutant: zip stops with the shorter plan.
PlanEqualPrefix(a, b) == \A i \in DOMAIN a \cap DOMAIN b : SameOp(a[i], b[i])

PlanEqual(a, b) == Len(a) = Len(b) /\ \A i \in DOMAIN a : SameOp(a[i], b[i])

\* The case at hand, once plan() has returned.
Judging(kind) == phase = "judging" /\ Case.kind = kind

RunExact == /\ Judging("exact")
            /\ Judge(result.ok /\ PlanEqual(result.ops, Case.expected))

\* No expected plan: frames are compared, if there is a runner.
RunFrames == /\ Judging("frames")
             /\ \/ (~result.ok \/ ~runner) /\ Judge(result.ok)
                \/ /\ result.ok /\ runner
                   /\ \/ \E failed \in {"nothing", "error"} : JudgeOutput(FALSE, failed, {})
                      \/ \E right \in SUBSET Case.frames :
                            JudgeOutput(right = Case.frames, "path", right)

RunBounded == /\ Judging("bounded")
              /\ Judge(result.ok /\ Predicate(Case.predicate, result.ops))

\* The expected code must occur among the codes; no code is part of another.
RunFailure == /\ Judging("failure")
              /\ Judge(~result.ok /\ Case.code \in result.codes)

Report == /\ phase = "asking" /\ Len(outcomes) = Len(cases)
          /\ phase' = "finished"
          /\ UNCHANGED <<cases, runner, outcomes, attempt, result, answers, deviations>>

\* main: with --summary the cases are listed and none is run.
ExitCode == IF phase = "listed" \/ \A k \in DOMAIN outcomes : outcomes[k] THEN 0 ELSE 1

---------------------------------------------------------------------------

Init == /\ \/ cases = Suite /\ runner = FALSE
           \/ cases = FrameCases /\ runner \in BOOLEAN
        /\ outcomes = <<>> /\ answers = <<>>
        /\ attempt = 0 /\ result = [ok |-> FALSE, ops |-> <<>>, codes |-> {}]
        /\ deviations = 0
        /\ phase = "asking" \/ (phase = "listed" /\ cases = Suite)

Next == Complete \/ PlanRaises \/ RunExact \/ RunFrames \/ RunBounded \/ RunFailure \/ Report

Spec == Init /\ [][Next]_vars

---------------------------------------------------------------------------
(* Properties *)

\* One operation in place of another: of its kind, its times a millisecond off at most.
Alike(x, y) == \A f \in DOMAIN y :
                  \/ x[f] = y[f]
                  \/ f \in {"start", "end", "at", "duration"} /\ x[f] - y[f] \in {-1, 1}

\* What the answer to case c should have been, told apart from a near miss.
Meets(c, answer) ==
    LET r == answer.plan
    IN  CASE c.kind = "exact"   -> /\ r.ok /\ Len(r.ops) = Len(c.expected)
                                   /\ \A i \in DOMAIN c.expected : Alike(r.ops[i], c.expected[i])
          [] c.kind = "bounded" -> r.ok /\ Predicate(c.predicate, r.ops)
          [] c.kind = "failure" -> /\ \A i \in DOMAIN r.ops : SchemaOK(r.ops[i])
                                   /\ \E i \in DOMAIN r.ops : Breaks(c.code, r.ops[i], c.source)
          [] c.kind = "frames"  -> r.ok /\ (runner => answer.output = "path" /\ answer.right = c.frames)

\* "Exits 0 only if every case matches its expectation" (runner.py:3-6), and whenever:
\* every case of a run has one verdict, its own, whatever the model answered before it.
ExitCodeIsTrue ==
    phase = "finished" =>
        /\ Len(outcomes) = Len(cases)
        /\ \A k \in DOMAIN cases : outcomes[k] <=> Meets(cases[k], answers[k])
        /\ ExitCode = 0 <=> \A k \in DOMAIN cases : Meets(cases[k], answers[k])

\* The scripted replies pass the gate (runner.py:116-122): the order of the table, the
\* cases, the schema and the verifier agree, so that a red build means a change.
ScriptPasses == phase = "finished" /\ cases = Suite /\ deviations = 0 => ExitCode = 0
=============================================================================
