---------------------------- MODULE EvalProofs ----------------------------
(***************************************************************************)
(* The gate is true: whatever the model answers, however often it deviates *)
(* from the script and however often it is asked again, a suite that ends  *)
(* has the verdict of each case, and the exit code is theirs.  And it is   *)
(* green: a model that keeps to the script passes every case.              *)
(***************************************************************************)
EXTENDS Eval, SequenceTheorems, TLAPS

---------------------------------------------------------------------------
(* The cases and the script *)

TypedCase(c) == /\ c.kind = "exact" => c.expected \in Seq(EditOps)
                /\ c.kind = "failure" => c.code \in Codes

\* The operations the cases and the script are written with.
LEMMA EditsTyped ==
    /\ \A a, b \in Int : Cut(a, b) \in EditOps /\ Trim(a, b) \in EditOps
    /\ \A a, b \in Int : FadeIn(a, b) \in EditOps /\ FadeOut(a, b) \in EditOps
    /\ \A f \in Int : Speed(f) \in EditOps /\ Volume(f) \in EditOps
    /\ \A a, b \in Int : Resize(a, b) \in EditOps
BY DEF EditOps, Operations, Cut, Trim, FadeIn, FadeOut, Speed, Volume, Resize

\* One operation is a plan, and so are two.
LEMMA FewEdits == \A o, p \in EditOps : <<o>> \in Seq(EditOps) /\ <<o, p>> \in Seq(EditOps)
OBVIOUS

\* The exact cases expect plans.
LEMMA ExactTyped == \A k \in 1 .. 7 : TypedCase(EXACT[k])
<1>1. ASSUME NEW needle, NEW d, NEW o \in EditOps PROVE TypedCase(ExactCase(needle, d, <<o>>))
  BY FewEdits DEF TypedCase, ExactCase
<1>2. /\ EXACT[1] = ExactCase("cut_10", 60000, <<Cut(0, 10000)>>)
      /\ EXACT[2] = ExactCase("fade_in", 60000, <<FadeIn(0, 1000)>>)
      /\ EXACT[3] = ExactCase("fade_out_90", 120000, <<FadeOut(90000, 2000)>>)
      /\ EXACT[4] = ExactCase("resize", 60000, <<Resize(1280, 720)>>)
      /\ EXACT[5] = ExactCase("speed", 60000, <<Speed(200)>>)
      /\ EXACT[6] = ExactCase("volume", 60000, <<Volume(50)>>)
      /\ EXACT[7] = ExactCase("keep", 60000, <<Trim(5000, 35000)>>)
  BY DEF EXACT
<1>3. /\ Cut(0, 10000) \in EditOps /\ FadeIn(0, 1000) \in EditOps
      /\ FadeOut(90000, 2000) \in EditOps /\ Resize(1280, 720) \in EditOps
      /\ Speed(200) \in EditOps /\ Volume(50) \in EditOps /\ Trim(5000, 35000) \in EditOps
  BY EditsTyped
<1> QED BY <1>1, <1>2, <1>3

\* The other cases say nothing of a plan; the failures expect codes of the verifier.
LEMMA OthersTyped ==
    /\ \A k \in 1 .. 2 : TypedCase(BOUNDED[k])
    /\ \A k \in 1 .. 3 : TypedCase(FAILURES[k])
<1>1. \A k \in 1 .. 2 : BOUNDED[k].kind = "bounded"
  BY DEF BOUNDED, BoundedCase
<1>2. \A k \in 1 .. 3 : FAILURES[k].kind = "failure" /\ FAILURES[k].code \in Codes
  BY DEF FAILURES, FailureCase, Codes
<1> QED BY <1>1, <1>2 DEF TypedCase

\* Every run is about a sequence of such cases.
CasesOK == /\ \E S : cases \in Seq(S)
           /\ \A k \in DOMAIN cases : TypedCase(cases[k])

\* A sequence over a set is one over a larger set.
LEMMA WidenSeq == ASSUME NEW S, NEW T, NEW s \in Seq(S), S \subseteq T PROVE s \in Seq(T)
OBVIOUS

\* A function on 1 .. n is a sequence.
LEMMA FunctionIsSeq == ASSUME NEW S, NEW n \in Nat, NEW f \in [1 .. n -> S] PROVE f \in Seq(S)
OBVIOUS

\* Both kinds of runs have such cases.
LEMMA CasesTyped == Init => CasesOK
<1> SUFFICES ASSUME Init PROVE CasesOK
  OBVIOUS
<1>1. CASE cases = Suite
  <2>1. PICK S : S = {EXACT[i] : i \in 1 .. 7} \cup {BOUNDED[i] : i \in 1 .. 2}
                     \cup {FAILURES[i] : i \in 1 .. 3}
    OBVIOUS
  <2>2. EXACT \in Seq(S)
    <3>1. EXACT \in Seq({EXACT[i] : i \in 1 .. 7})
      BY DEF EXACT
    <3> QED BY <2>1, <3>1, WidenSeq
  <2>3. BOUNDED \in Seq(S)
    <3>1. BOUNDED \in Seq({BOUNDED[i] : i \in 1 .. 2})
      BY DEF BOUNDED
    <3> QED BY <2>1, <3>1, WidenSeq
  <2>4. FAILURES \in Seq(S)
    <3>1. FAILURES \in [1 .. 3 -> {FAILURES[i] : i \in 1 .. 3}]
      BY DEF FAILURES
    <3>2. FAILURES \in [1 .. 3 -> S]
      BY <2>1, <3>1
    <3> QED BY <3>2, FunctionIsSeq
  <2>5. EXACT \o BOUNDED \in Seq(S)
    BY <2>2, <2>3
  <2>6. cases \in Seq(S)
    BY <1>1, <2>4, <2>5 DEF Suite
  <2>7. \A c \in S : TypedCase(c)
    BY <2>1, ExactTyped, OthersTyped
  <2>8. \A k \in DOMAIN cases : cases[k] \in S
    BY <2>6
  <2> QED BY <2>6, <2>7, <2>8 DEF CasesOK
<1>2. CASE cases = FrameCases
  <2> DEFINE S == [kind : {"frames"}, instruction : SUBSET STRING,
                   source : [duration : Int, has_audio : BOOLEAN], frames : SUBSET Int]
  <2>1. FrameCases \in Seq(S)
    BY EvalAssumption
  <2>2. \A c \in S : c.kind = "frames"
    OBVIOUS
  <2> HIDE DEF S
  <2>3. cases \in Seq(S) /\ \A k \in DOMAIN cases : cases[k] \in S
    BY <1>2, <2>1
  <2> QED BY <2>2, <2>3 DEF CasesOK, TypedCase
<1> QED BY <1>1, <1>2 DEF Init

\* The rows of the table hold plans.
LEMMA TableTyped == \A k \in 1 .. 11 : TABLE[k].calls \in Seq(EditOps)
<1>1. ASSUME NEW needle, NEW calls \in Seq(EditOps) PROVE Row(needle, calls).calls \in Seq(EditOps)
  BY DEF Row
<1>2. ASSUME NEW needle, NEW o \in EditOps PROVE Row(needle, <<o>>).calls \in Seq(EditOps)
  BY <1>1, FewEdits
<1>3. TABLE[1].calls \in Seq(EditOps)
  <2>1. TABLE[1] = Row("cut_10_fade_90", <<Cut(0, 10000), FadeOut(90000, 2000)>>)
    BY SMT DEF TABLE
  <2>2. Cut(0, 10000) \in EditOps /\ FadeOut(90000, 2000) \in EditOps
    BY EditsTyped, SMT
  <2>3. <<Cut(0, 10000), FadeOut(90000, 2000)>> \in Seq(EditOps)
    BY <2>2, SMT
  <2> QED BY <2>1, <2>3, SMT DEF Row
<1>4. \A k \in 2 .. 5 : TABLE[k].calls \in Seq(EditOps)
  <2>1. /\ TABLE[2] = Row("cut_10", <<Cut(0, 10000)>>)
        /\ TABLE[3] = Row("fade_in", <<FadeIn(0, 1000)>>)
        /\ TABLE[4] = Row("fade_out_90", <<FadeOut(90000, 2000)>>)
        /\ TABLE[5] = Row("fade_out_58", <<FadeOut(58000, 5000)>>)
    BY SMT DEF TABLE
  <2>2. /\ Cut(0, 10000) \in EditOps /\ FadeIn(0, 1000) \in EditOps
        /\ FadeOut(90000, 2000) \in EditOps /\ FadeOut(58000, 5000) \in EditOps
    BY EditsTyped, SMT
  <2> QED BY <1>2, <2>1, <2>2, SMT
<1>5. \A k \in 6 .. 9 : TABLE[k].calls \in Seq(EditOps)
  <2>1. /\ TABLE[6] = Row("resize", <<Resize(1280, 720)>>)
        /\ TABLE[7] = Row("speed", <<Speed(200)>>)
        /\ TABLE[8] = Row("volume", <<Volume(50)>>)
        /\ TABLE[9] = Row("keep", <<Trim(5000, 35000)>>)
    BY SMT DEF TABLE
  <2>2. /\ Resize(1280, 720) \in EditOps /\ Speed(200) \in EditOps
        /\ Volume(50) \in EditOps /\ Trim(5000, 35000) \in EditOps
    BY EditsTyped, SMT
  <2> QED BY <1>2, <2>1, <2>2, SMT
<1>6. TABLE[10].calls \in Seq(EditOps)
  <2>1. PICK o : o = [op |-> "concat", inputs |-> 1, bonus |-> TRUE]
    OBVIOUS
  <2>2. o \in EditOps
    BY <2>1, SMT DEF EditOps
  <2>3. TABLE[10] = Row("concat", <<o>>)
    BY <2>1, SMT DEF TABLE, Concat
  <2> QED BY <1>2, <2>2, <2>3, SMT
<1>7. TABLE[11].calls \in Seq(EditOps)
  <2>1. TABLE[11] = Row("cut_30_to_300", <<Cut(30000, 300000)>>)
    BY SMT DEF TABLE
  <2> QED BY <1>2, <2>1, EditsTyped, SMT
<1>8. \A k \in 1 .. 11 : k = 1 \/ k \in 2 .. 5 \/ k \in 6 .. 9 \/ k = 10 \/ k = 11
  OBVIOUS
<1> QED BY <1>3, <1>4, <1>5, <1>6, <1>7, <1>8

\* A set of rows that is not empty has a first one.
LEMMA FirstRow == \A S \in SUBSET (1 .. 11) : S # {} => Min(S) \in S
<1> SUFFICES ASSUME NEW S \in SUBSET (1 .. 11), S # {} PROVE Min(S) \in S
  OBVIOUS
<1>1. ASSUME NEW n \in 1 .. 11, n \in S, \A m \in 1 .. n - 1 : m \notin S
      PROVE  \E x \in S : \A y \in S : x <= y
  BY <1>1
<1>2. \E n \in 1 .. 11 : n \in S /\ \A m \in 1 .. n - 1 : m \notin S
  <2> DEFINE Free(n) == \A m \in 1 .. n : m \notin S
  <2> SUFFICES ASSUME \A n \in 1 .. 11 : n \in S => ~Free(n - 1) PROVE FALSE
    OBVIOUS
  <2>1. Free(0) /\ \A n \in 1 .. 11 : Free(n - 1) => Free(n)
    OBVIOUS
  <2> HIDE DEF Free
  <2>2. Free(4)
    BY <2>1
  <2>3. Free(8)
    BY <2>1, <2>2
  <2>4. Free(11)
    BY <2>1, <2>3
  <2> QED BY <2>4 DEF Free
<1> QED BY <1>1, <1>2 DEF Min

\* The scripted reply to any instruction is a plan.
LEMMA ScriptedTyped == \A instruction : Scripted(instruction) \in Seq(EditOps)
<1> SUFFICES ASSUME NEW instruction PROVE Scripted(instruction) \in Seq(EditOps)
  OBVIOUS
<1>1. DOMAIN TABLE = 1 .. 11
  BY DEF TABLE
<1>2. Matches(instruction) \in SUBSET (1 .. 11)
  BY <1>1 DEF Matches
<1>3. <<>> \in Seq(EditOps)
  OBVIOUS
<1> QED BY <1>2, <1>3, FirstRow, TableTyped DEF Scripted
---------------------------------------------------------------------------
(* The verdicts *)

\* Two operations are the same to the gate when they are of one kind, with times no
\* more than a millisecond apart and everything else equal.
LEMMA SameOpMeans ==
    ASSUME NEW x \in EditOps, NEW y \in EditOps
    PROVE  SameOp(x, y) <=> Alike(x, y)
<1>1. \A a, b \in Int : Near(a, b, 2) <=> a = b \/ a - b \in {-1, 1}
  BY DEF Near
<1>2. "op" \in DOMAIN y
  BY DEF EditOps, Operations
<1>3. ASSUME x.op = y.op
      PROVE  /\ DOMAIN x = DOMAIN y
             /\ \A f \in DOMAIN y : f \in {"start", "end", "at", "duration"} => x[f] \in Int /\ y[f] \in Int
  BY <1>3 DEF EditOps, Operations
<1>4. ASSUME x.op = y.op, NEW f \in DOMAIN y
      PROVE  SameField(f, x[f], y[f]) <=>
               \/ x[f] = y[f]
               \/ f \in {"start", "end", "at", "duration"} /\ x[f] - y[f] \in {-1, 1}
  BY <1>1, <1>3, <1>4 DEF SameField
<1>5. Alike(x, y) => x.op = y.op
  BY <1>2 DEF Alike
<1> QED BY <1>3, <1>4, <1>5 DEF SameOp, Alike

\* A verdict on plans is one on what they do to the video.
LEMMA PlanEqualMeans ==
    ASSUME NEW p \in Seq(EditOps), NEW q \in Seq(EditOps)
    PROVE  PlanEqual(p, q) <=> Len(p) = Len(q) /\ \A i \in DOMAIN q : Alike(p[i], q[i])
<1>1. ASSUME Len(p) = Len(q)
      PROVE  DOMAIN p = DOMAIN q /\ \A i \in DOMAIN q : p[i] \in EditOps /\ q[i] \in EditOps
  BY <1>1
<1> QED BY <1>1, SameOpMeans DEF PlanEqual

\* A code is reported for a reply when its operations are of the schema and one of
\* them breaks that rule.
LEMMA CodesMean ==
    ASSUME NEW reply, NEW source, NEW c \in Codes
    PROVE  c \in ErrorCodes(reply, source) <=>
              /\ \A i \in DOMAIN reply : SchemaOK(reply[i])
              /\ \E i \in DOMAIN reply : Breaks(c, reply[i], source)
<1>1. c # "schema_invalid"
  BY DEF Codes
<1>2. c \in {e.code : e \in Verify(reply, source)} <=> \E i \in DOMAIN reply : Breaks(c, reply[i], source)
  <2> DEFINE At(i) == VerifyOne(i - 1, reply[i], source)
  <2>1. \A i \in DOMAIN reply : \A e : e \in At(i) <=>
           \E d \in Codes : Breaks(d, reply[i], source) /\ e = [op_idx |-> i - 1, code |-> d]
    BY DEF VerifyOne
  <2>2. \A e : e \in Verify(reply, source) <=> \E i \in DOMAIN reply : e \in At(i)
    BY DEF Verify
  <2> HIDE DEF At
  <2>3. ASSUME NEW i \in DOMAIN reply, Breaks(c, reply[i], source)
        PROVE  c \in {e.code : e \in Verify(reply, source)}
    <3>1. PICK e : e = [op_idx |-> i - 1, code |-> c]
      OBVIOUS
    <3>2. e.code = c /\ e \in Verify(reply, source)
      BY <2>1, <2>2, <2>3, <3>1
    <3> QED BY <3>2
  <2>4. ASSUME NEW e \in Verify(reply, source), e.code = c
        PROVE  \E i \in DOMAIN reply : Breaks(c, reply[i], source)
    BY <2>1, <2>2, <2>4
  <2> QED BY <2>3, <2>4
<1> QED BY <1>1, <1>2 DEF ErrorCodes

---------------------------------------------------------------------------
(* The suite *)

\* One verdict for each case that was put, in order, and it is that of the case; the
\* result at hand is the planner's on a plan of typed operations.
GateInv ==
    /\ CasesOK
    /\ outcomes \in Seq(BOOLEAN)
    /\ \E S : answers \in Seq(S)
    /\ Len(answers) = Len(outcomes) /\ Len(outcomes) <= Len(cases)
    /\ \A k \in DOMAIN outcomes : outcomes[k] <=> Meets(cases[k], answers[k])
    /\ phase = "judging" => /\ Len(outcomes) < Len(cases)
                            /\ result.ops \in Seq(EditOps)
                            /\ result.codes = ErrorCodes(result.ops, Case.source)
                            /\ result.ok \in BOOLEAN
                            /\ result.ok <=> result.codes = {}
    /\ phase = "finished" => Len(outcomes) = Len(cases)

\* A suite begins without verdicts.
LEMMA GateInit == Init => GateInv
<1> SUFFICES ASSUME Init PROVE GateInv
  OBVIOUS
<1>1. CasesOK
  BY CasesTyped
<1>2. outcomes = <<>> /\ answers = <<>> /\ phase \in {"asking", "listed"}
  BY DEF Init
<1>3. outcomes \in Seq(BOOLEAN) /\ answers \in Seq({}) /\ Len(answers) = 0 /\ Len(outcomes) = 0
  BY <1>2
<1>4. Len(cases) \in Nat
  BY <1>1 DEF CasesOK
<1> QED BY <1>1, <1>2, <1>3, <1>4 DEF GateInv

\* A verdict that is the case's is kept as such.
LEMMA VerdictKept ==
    ASSUME GateInv, NEW ok \in BOOLEAN, NEW output, NEW right,
           JudgeOutput(ok, output, right),
           ok <=> Meets(Case, [plan |-> result, output |-> output, right |-> right])
    PROVE  GateInv'
<1> DEFINE n == Len(outcomes) + 1
           answer == [plan |-> result, output |-> output, right |-> right]
<1>1. PICK S : answers \in Seq(S)
  BY DEF GateInv
<1>2. /\ outcomes' = Append(outcomes, ok) /\ answers' = Append(answers, answer)
      /\ phase = "judging" /\ phase' = "asking" /\ UNCHANGED <<cases, runner>>
  BY DEF JudgeOutput
<1>3. /\ outcomes \in Seq(BOOLEAN) /\ Len(answers) = Len(outcomes) /\ Len(outcomes) < Len(cases)
      /\ Len(outcomes) \in Nat /\ Len(cases) \in Nat
  BY <1>2 DEF GateInv, CasesOK
<1> HIDE DEF answer
<1>4. /\ outcomes' \in Seq(BOOLEAN) /\ answers' \in Seq(S \cup {answer})
      /\ Len(outcomes') = n /\ Len(answers') = n /\ n <= Len(cases)
  BY <1>1, <1>2, <1>3
<1>5. ASSUME NEW k \in DOMAIN outcomes'
      PROVE  outcomes'[k] <=> Meets(cases[k], answers'[k])
  <2>1. CASE k = n
    <3>1. outcomes'[k] = ok /\ answers'[k] = answer /\ cases[k] = Case
      BY <1>1, <1>2, <1>3, <2>1 DEF Case
    <3> QED BY <3>1 DEF answer
  <2>2. CASE k # n
    <3>1. k \in DOMAIN outcomes /\ outcomes'[k] = outcomes[k] /\ answers'[k] = answers[k]
      BY <1>1, <1>2, <1>3, <1>4, <1>5, <2>2
    <3> QED BY <3>1 DEF GateInv
  <2> QED BY <2>1, <2>2
<1>6. \A c, a : Meets(c, a)' <=> Meets(c, a)
  BY <1>2 DEF Meets
<1>7. CasesOK'
  BY <1>2 DEF GateInv, CasesOK
<1> QED BY <1>2, <1>4, <1>5, <1>6, <1>7 DEF GateInv

\* The verdict on a plan that was expected is the case's.
LEMMA ExactJudged == GateInv /\ RunExact => GateInv'
<1> SUFFICES ASSUME GateInv, RunExact PROVE GateInv'
  OBVIOUS
<1> DEFINE answer == [plan |-> result, output |-> "none", right |-> {}]
<1>1. Case.kind = "exact" /\ phase = "judging"
  BY DEF RunExact, Judging
<1>2. Case.expected \in Seq(EditOps) /\ result.ops \in Seq(EditOps)
  <2>1. Len(outcomes) + 1 \in DOMAIN cases
    BY <1>1 DEF GateInv, CasesOK
  <2> QED BY <1>1, <2>1 DEF GateInv, CasesOK, TypedCase, Case
<1>3. PICK ok \in BOOLEAN : /\ ok <=> result.ok /\ PlanEqual(result.ops, Case.expected)
                            /\ JudgeOutput(ok, "none", {})
  BY DEF RunExact, Judge
<1>4. answer.plan = result
  OBVIOUS
<1> HIDE DEF answer
<1>5. Meets(Case, answer) <=> result.ok /\ PlanEqual(result.ops, Case.expected)
  BY <1>1, <1>2, <1>4, PlanEqualMeans DEF Meets
<1> QED BY <1>3, <1>5, VerdictKept DEF answer

\* So is the one by a predicate.
LEMMA BoundedJudged == GateInv /\ RunBounded => GateInv'
<1> SUFFICES ASSUME GateInv, RunBounded PROVE GateInv'
  OBVIOUS
<1> DEFINE answer == [plan |-> result, output |-> "none", right |-> {}]
<1>1. Case.kind = "bounded"
  BY DEF RunBounded, Judging
<1>2. PICK ok \in BOOLEAN : /\ ok <=> result.ok /\ Predicate(Case.predicate, result.ops)
                            /\ JudgeOutput(ok, "none", {})
  BY DEF RunBounded, Judge
<1>3. answer.plan = result
  OBVIOUS
<1> HIDE DEF answer
<1>4. Meets(Case, answer) <=> result.ok /\ Predicate(Case.predicate, result.ops)
  BY <1>1, <1>3 DEF Meets
<1> QED BY <1>2, <1>4, VerdictKept DEF answer

\* A failure passes when the expected rule was broken, by typed operations.
LEMMA FailureJudged == GateInv /\ RunFailure => GateInv'
<1> SUFFICES ASSUME GateInv, RunFailure PROVE GateInv'
  OBVIOUS
<1> DEFINE answer == [plan |-> result, output |-> "none", right |-> {}]
<1>1. Case.kind = "failure" /\ phase = "judging"
  BY DEF RunFailure, Judging
<1>2. Case.code \in Codes
  <2>1. Len(outcomes) + 1 \in DOMAIN cases
    BY <1>1 DEF GateInv, CasesOK
  <2> QED BY <1>1, <2>1 DEF GateInv, CasesOK, TypedCase, Case
<1>3. PICK ok \in BOOLEAN : /\ ok <=> ~result.ok /\ Case.code \in result.codes
                            /\ JudgeOutput(ok, "none", {})
  BY DEF RunFailure, Judge
<1>4. answer.plan = result
  OBVIOUS
<1>5. ~result.ok /\ Case.code \in result.codes <=> Case.code \in ErrorCodes(result.ops, Case.source)
  BY <1>1 DEF GateInv
<1> HIDE DEF answer
<1>6. Meets(Case, answer) <=> Case.code \in ErrorCodes(result.ops, Case.source)
  BY <1>1, <1>2, <1>4, CodesMean DEF Meets
<1> QED BY <1>3, <1>5, <1>6, VerdictKept DEF answer

\* Frames are compared only if there is a runner and it returned a path.
LEMMA FramesJudged == GateInv /\ RunFrames => GateInv'
<1> SUFFICES ASSUME GateInv, RunFrames PROVE GateInv'
  OBVIOUS
<1>1. Case.kind = "frames" /\ phase = "judging"
  BY DEF RunFrames, Judging
<1>2. ASSUME NEW output, NEW right
      PROVE  Meets(Case, [plan |-> result, output |-> output, right |-> right])
                <=> result.ok /\ (runner => output = "path" /\ right = Case.frames)
  BY <1>1 DEF Meets
<1>3. CASE (~result.ok \/ ~runner) /\ Judge(result.ok)
  <2>1. JudgeOutput(result.ok, "none", {}) /\ result.ok \in BOOLEAN
    BY <1>1, <1>3 DEF Judge, GateInv
  <2>2. result.ok <=> Meets(Case, [plan |-> result, output |-> "none", right |-> {}])
    BY <1>2, <1>3
  <2> QED BY <2>1, <2>2, VerdictKept
<1>4. CASE result.ok /\ runner /\ \E failed \in {"nothing", "error"} : JudgeOutput(FALSE, failed, {})
  <2>1. PICK failed \in {"nothing", "error"} : JudgeOutput(FALSE, failed, {})
    BY <1>4
  <2>2. FALSE <=> Meets(Case, [plan |-> result, output |-> failed, right |-> {}])
    BY <1>2, <1>4
  <2> QED BY <2>1, <2>2, VerdictKept
<1>5. CASE result.ok /\ runner /\ \E right \in SUBSET Case.frames : JudgeOutput(right = Case.frames, "path", right)
  <2>1. PICK right \in SUBSET Case.frames : JudgeOutput(right = Case.frames, "path", right)
    BY <1>5
  <2>2. PICK ok \in BOOLEAN : (ok <=> right = Case.frames) /\ JudgeOutput(ok, "path", right)
    BY <2>1
  <2>3. ok <=> Meets(Case, [plan |-> result, output |-> "path", right |-> right])
    BY <1>2, <1>5, <2>2
  <2> QED BY <2>2, <2>3, VerdictKept
<1> QED BY <1>3, <1>4, <1>5 DEF RunFrames

\* A reply ends plan() with its own result or is asked for again.
LEMMA AnswerKept ==
    ASSUME GateInv, Asking, NEW reply \in Seq(EditOps), Answer(reply),
           UNCHANGED <<cases, runner, outcomes, answers>>
    PROVE  GateInv'
<1>1. UNCHANGED Case /\ Len(outcomes) < Len(cases) /\ phase = "asking"
  BY DEF Case, Asking
<1>2. \A c, a : Meets(c, a)' <=> Meets(c, a)
  BY DEF Meets
<1>3. CasesOK'
  BY DEF GateInv, CasesOK
<1>4. PICK codes : codes = ErrorCodes(reply, Case.source)
  OBVIOUS
<1>5. \/ phase' = "asking"
      \/ phase' = "judging" /\ \E ok \in BOOLEAN : /\ ok <=> codes = {}
                                                 /\ result' = [ok |-> ok, ops |-> reply, codes |-> codes]
  BY <1>1, <1>4 DEF Answer
<1>6. phase' = "judging" => /\ result'.ops = reply /\ result'.codes = codes
                           /\ result'.ok \in BOOLEAN /\ (result'.ok <=> codes = {})
  BY <1>5
<1>7. ASSUME phase' = "judging"
      PROVE  (result.codes = ErrorCodes(result.ops, Case.source))'
  <2>1. Case'.source = Case.source
    BY <1>1
  <2> QED BY <1>4, <1>6, <1>7, <2>1
<1>8. CASE phase' = "asking"
  BY <1>1, <1>2, <1>3, <1>8 DEF GateInv
<1>9. CASE phase' = "judging"
  BY <1>1, <1>2, <1>3, <1>6, <1>7, <1>9 DEF GateInv
<1> QED BY <1>5, <1>8, <1>9

\* Every step keeps the verdicts.
LEMMA GateStep == GateInv /\ [Next]_vars => GateInv'
<1> SUFFICES ASSUME GateInv, [Next]_vars PROVE GateInv'
  OBVIOUS
<1>1. CASE Complete
  <2>1. PICK reply \in Seq(EditOps) : Answer(reply)
    BY <1>1, ScriptedTyped, EvalAssumption DEF Complete
  <2> QED BY <1>1, <2>1, AnswerKept DEF Complete
<1>2. ASSUME UNCHANGED <<cases, runner, outcomes, answers, result>>,
             phase' # "judging" \/ phase' = phase, phase' # "finished" \/ Len(outcomes) = Len(cases)
      PROVE  GateInv'
  <2>1. \A c, a : Meets(c, a)' <=> Meets(c, a)
    BY <1>2 DEF Meets
  <2>2. CasesOK' /\ UNCHANGED Case
    BY <1>2 DEF GateInv, CasesOK, Case
  <2>3. phase' = "judging" => ErrorCodes(result.ops, Case.source)' = ErrorCodes(result.ops, Case.source)
    BY <1>2, <2>2
  <2> QED BY <1>2, <2>1, <2>2, <2>3 DEF GateInv
<1>3. CASE PlanRaises
  BY <1>2, <1>3 DEF PlanRaises
<1>4. CASE Report
  BY <1>2, <1>4 DEF Report
<1>5. CASE UNCHANGED vars
  BY <1>2, <1>5 DEF vars, GateInv
<1> QED
  BY <1>1, <1>3, <1>4, <1>5, ExactJudged, BoundedJudged, FailureJudged, FramesJudged DEF Next

\* For every model, number of deviations and of replans, the exit code is 0 exactly when
\* every case is met (runner.py:3-6).
THEOREM GateIsTrue == Spec => []ExitCodeIsTrue
<1>1. ASSUME GateInv, phase = "finished" PROVE ExitCodeIsTrue
  <2>1. DOMAIN outcomes = DOMAIN cases
    BY <1>1 DEF GateInv, CasesOK
  <2>2. \A k \in DOMAIN cases : outcomes[k] <=> Meets(cases[k], answers[k])
    BY <1>1, <2>1 DEF GateInv
  <2>3. ExitCode = 0 <=> \A k \in DOMAIN outcomes : outcomes[k]
    BY <1>1 DEF ExitCode
  <2> QED BY <1>1, <2>1, <2>2, <2>3 DEF ExitCodeIsTrue, GateInv
<1>2. GateInv => ExitCodeIsTrue
  BY <1>1 DEF ExitCodeIsTrue
<1> QED BY <1>2, GateInit, GateStep, PTL DEF Spec

---------------------------------------------------------------------------
(* The script *)

\* The reply to an instruction is that of the first row that matches it.
LEMMA FirstMatch ==
    ASSUME NEW instruction, NEW k \in 1 .. 11, TABLE[k].needle \in instruction,
           \A j \in 1 .. k - 1 : TABLE[j].needle \notin instruction
    PROVE  Scripted(instruction) = TABLE[k].calls
<1>1. DOMAIN TABLE = 1 .. 11
  BY DEF TABLE
<1> DEFINE rows == Matches(instruction)
<1>2. rows \subseteq 1 .. 11 /\ k \in rows /\ \A j \in rows : k <= j
  BY <1>1 DEF Matches
<1> HIDE DEF rows
<1>3. Min(rows) = k
  <2>1. \A x \in rows : (\A y \in rows : x <= y) => x = k
    BY <1>2
  <2> QED BY <1>2, <2>1 DEF Min
<1> QED BY <1>2, <1>3 DEF Scripted, rows

\* The concatenation in the table.
Bonus == [op |-> "concat", inputs |-> 1, bonus |-> TRUE]

\* The rows of the table.
RowIs(k, needle, calls) == TABLE[k].needle = needle /\ TABLE[k].calls = calls

LEMMA Rows ==
    /\ RowIs(1, "cut_10_fade_90", <<Cut(0, 10000), FadeOut(90000, 2000)>>)
    /\ RowIs(2, "cut_10", <<Cut(0, 10000)>>)
    /\ RowIs(3, "fade_in", <<FadeIn(0, 1000)>>)
    /\ RowIs(4, "fade_out_90", <<FadeOut(90000, 2000)>>)
    /\ RowIs(5, "fade_out_58", <<FadeOut(58000, 5000)>>)
    /\ RowIs(6, "resize", <<Resize(1280, 720)>>)
    /\ RowIs(7, "speed", <<Speed(200)>>)
    /\ RowIs(8, "volume", <<Volume(50)>>)
    /\ RowIs(9, "keep", <<Trim(5000, 35000)>>)
    /\ RowIs(10, "concat", <<Bonus>>)
    /\ RowIs(11, "cut_30_to_300", <<Cut(30000, 300000)>>)
<1>1. ASSUME NEW needle, NEW calls, NEW k, TABLE[k] = Row(needle, calls) PROVE RowIs(k, needle, calls)
  BY <1>1 DEF RowIs, Row
<1>2. /\ TABLE[1] = Row("cut_10_fade_90", <<Cut(0, 10000), FadeOut(90000, 2000)>>)
      /\ TABLE[2] = Row("cut_10", <<Cut(0, 10000)>>)
      /\ TABLE[3] = Row("fade_in", <<FadeIn(0, 1000)>>)
      /\ TABLE[4] = Row("fade_out_90", <<FadeOut(90000, 2000)>>)
  BY DEF TABLE
<1>3. /\ TABLE[5] = Row("fade_out_58", <<FadeOut(58000, 5000)>>)
      /\ TABLE[6] = Row("resize", <<Resize(1280, 720)>>)
      /\ TABLE[7] = Row("speed", <<Speed(200)>>)
      /\ TABLE[8] = Row("volume", <<Volume(50)>>)
  BY DEF TABLE
<1>4. /\ TABLE[9] = Row("keep", <<Trim(5000, 35000)>>)
      /\ TABLE[10] = Row("concat", <<Bonus>>)
      /\ TABLE[11] = Row("cut_30_to_300", <<Cut(30000, 300000)>>)
  BY DEF TABLE, Concat, Bonus
<1> QED BY <1>1, <1>2, <1>3, <1>4

\* The replies to the instructions of the cases.
LEMMA Replies ==
    /\ Scripted({"cut_10"}) = <<Cut(0, 10000)>>
    /\ Scripted({"cut_10", "cut_10_fade_90"}) = <<Cut(0, 10000), FadeOut(90000, 2000)>>
    /\ Scripted({"fade_in"}) = <<FadeIn(0, 1000)>>
    /\ Scripted({"fade_out_90"}) = <<FadeOut(90000, 2000)>>
    /\ Scripted({"fade_out_58"}) = <<FadeOut(58000, 5000)>>
    /\ Scripted({"resize"}) = <<Resize(1280, 720)>>
    /\ Scripted({"speed"}) = <<Speed(200)>>
    /\ Scripted({"volume"}) = <<Volume(50)>>
    /\ Scripted({"keep"}) = <<Trim(5000, 35000)>>
    /\ Scripted({"concat"}) = <<Bonus>>
    /\ Scripted({"cut_30_to_300"}) = <<Cut(30000, 300000)>>
<1> DEFINE needle(k) == TABLE[k].needle
<1>1. /\ needle(1) = "cut_10_fade_90" /\ needle(2) = "cut_10" /\ needle(3) = "fade_in"
      /\ needle(4) = "fade_out_90" /\ needle(5) = "fade_out_58" /\ needle(6) = "resize"
      /\ needle(7) = "speed" /\ needle(8) = "volume" /\ needle(9) = "keep"
      /\ needle(10) = "concat" /\ needle(11) = "cut_30_to_300"
  BY Rows DEF RowIs
<1>2. \A j \in 1 .. 11 : \/ j = 1 \/ j = 2 \/ j = 3 \/ j = 4 \/ j = 5 \/ j = 6 \/ j = 7 \/ j = 8
                         \/ j = 9 \/ j = 10 \/ j = 11
  OBVIOUS
<1> HIDE DEF needle
<1>3. \A i, j \in 1 .. 11 : needle(i) = needle(j) => i = j
  BY <1>1, <1>2
<1>4. ASSUME NEW k \in 1 .. 11 PROVE Scripted({needle(k)}) = TABLE[k].calls
  <2>1. \A j \in 1 .. k - 1 : j \in 1 .. 11 /\ j # k
    OBVIOUS
  <2>2. \A j \in 1 .. k - 1 : TABLE[j].needle \notin {needle(k)}
    BY <1>3, <2>1 DEF needle
  <2> QED BY <2>2, FirstMatch DEF needle
<1>5. Scripted({"cut_10", "cut_10_fade_90"}) = TABLE[1].calls
  <2>1. 1 \in 1 .. 11 /\ \A j \in 1 .. 1 - 1 : FALSE
    OBVIOUS
  <2>2. TABLE[1].needle \in {"cut_10", "cut_10_fade_90"}
    BY <1>1 DEF needle
  <2> QED BY <2>1, <2>2, FirstMatch
<1>6. ASSUME NEW k \in 1 .. 11, NEW n, NEW calls, RowIs(k, n, calls) PROVE Scripted({n}) = calls
  BY <1>4, <1>6 DEF needle, RowIs
<1>7. \A k \in 1 .. 11 : \A n, calls : RowIs(k, n, calls) => Scripted({n}) = calls
  BY <1>6
<1>8. /\ 1 \in 1 .. 11 /\ 2 \in 1 .. 11 /\ 3 \in 1 .. 11 /\ 4 \in 1 .. 11 /\ 5 \in 1 .. 11 /\ 6 \in 1 .. 11
      /\ 7 \in 1 .. 11 /\ 8 \in 1 .. 11 /\ 9 \in 1 .. 11 /\ 10 \in 1 .. 11 /\ 11 \in 1 .. 11
  OBVIOUS
<1>9. TABLE[1].calls = <<Cut(0, 10000), FadeOut(90000, 2000)>>
  BY Rows DEF RowIs
<1> QED BY <1>5, <1>7, <1>8, <1>9, Rows, SMT

---------------------------------------------------------------------------
(* The script passes *)

\* A source with and without sound.
Loud(d) == [duration |-> d, has_audio |-> TRUE]
Mute(d) == [duration |-> d, has_audio |-> FALSE]

\* An operation the schema and the verifier let pass.
Fits(o, source) == SchemaOK(o) /\ \A c \in Codes : ~Breaks(c, o, source)

\* A reply of such operations has no codes.
LEMMA NoCodes ==
    ASSUME NEW reply, NEW source, \A i \in DOMAIN reply : Fits(reply[i], source)
    PROVE  ErrorCodes(reply, source) = {}
<1>1. Verify(reply, source) = {}
  BY DEF Fits, Verify, VerifyOne
<1>2. \A i \in DOMAIN reply : SchemaOK(reply[i])
  BY DEF Fits
<1> QED BY <1>1, <1>2 DEF ErrorCodes

\* The scripted operations fit the sources they are for.
LEMMA OperationsFit ==
    /\ \A d \in {60000, 120000} : Fits(Cut(0, 10000), Loud(d))
    /\ Fits(FadeIn(0, 1000), Loud(60000))
    /\ Fits(FadeOut(90000, 2000), Loud(120000))
    /\ Fits(Resize(1280, 720), Loud(60000))
    /\ Fits(Speed(200), Loud(60000))
    /\ Fits(Volume(50), Loud(60000))
    /\ Fits(Trim(5000, 35000), Loud(60000))
    /\ Fits(Bonus, Loud(60000))
<1> USE DEF Fits, SchemaOK, Breaks, Loud, Slack, MinKept
<1>1. \A d \in {60000, 120000} : Fits(Cut(0, 10000), Loud(d))
  BY DEF Cut
<1>2. Fits(FadeIn(0, 1000), Loud(60000))
  BY DEF FadeIn, FadeOK, MaxFade
<1>3. Fits(FadeOut(90000, 2000), Loud(120000))
  BY DEF FadeOut, FadeOK, MaxFade
<1>4. Fits(Resize(1280, 720), Loud(60000))
  BY DEF Resize, SideOK, MaxSide
<1>5. Fits(Speed(200), Loud(60000))
  <2>1. MaxOut \div 100 = 216000
    <3>1. MaxOut = 21600000
      BY SMT DEF MaxOut
    <3>2. \A m \in Int : m = 21600000 => m \div 100 = 216000
      BY SMT
    <3> QED BY <3>1, <3>2, SMT
  <2> QED BY <2>1, SMT DEF Speed
<1>6. Fits(Volume(50), Loud(60000))
  BY DEF Volume
<1>7. Fits(Trim(5000, 35000), Loud(60000))
  BY DEF Trim
<1>8. Fits(Bonus, Loud(60000))
  BY DEF Bonus
<1> HIDE DEF Fits, Loud
<1> QED BY <1>1, <1>2, <1>3, <1>4, <1>5, <1>6, <1>7, <1>8, SMT

\* The plan a case expects, if any, the codes of the scripted reply and the verdict.
Passes(c) ==
    LET reply == Scripted(c.instruction)
        codes == ErrorCodes(reply, c.source)
    IN  /\ c.kind = "exact" => codes = {} /\ PlanEqual(reply, c.expected)
        /\ c.kind = "bounded" => codes = {} /\ Predicate(c.predicate, reply)
        /\ c.kind = "failure" => c.code \in codes
        /\ c.kind # "frames"

\* The cases and what they hold.
ExactIs(c, needle, d, o) ==
    c.kind = "exact" /\ c.instruction = {needle} /\ c.source = Loud(d) /\ c.expected = <<o>>

BoundedIs(c, needles, d, predicate) ==
    /\ c.kind = "bounded" /\ c.instruction = needles
    /\ c.source = Loud(d) /\ c.predicate = predicate

FailureIs(c, needle, source, code) ==
    c.kind = "failure" /\ c.instruction = {needle} /\ c.source = source /\ c.code = code

\* A case passes when the script replies just what it expects and that fits its source.
LEMMA ExactPass ==
    ASSUME NEW c, NEW needle, NEW d, NEW o \in EditOps, ExactIs(c, needle, d, o),
           Scripted({needle}) = <<o>>, Fits(o, Loud(d))
    PROVE  Passes(c)
<1>1. ErrorCodes(<<o>>, Loud(d)) = {}
  BY NoCodes
<1>2. PlanEqual(<<o>>, <<o>>)
  <2>1. <<o>> \in Seq(EditOps)
    OBVIOUS
  <2>2. \A i \in DOMAIN <<o>> : Alike(<<o>>[i], <<o>>[i])
    BY DEF Alike
  <2> QED BY <2>1, <2>2, PlanEqualMeans
<1> QED BY <1>1, <1>2 DEF Passes, ExactIs

\* A failure passes when the one operation of the reply breaks its rule.
LEMMA FailurePass ==
    ASSUME NEW c, NEW needle, NEW source, NEW o, NEW code \in Codes,
           FailureIs(c, needle, source, code),
           Scripted({needle}) = <<o>>, SchemaOK(o), Breaks(code, o, source)
    PROVE  Passes(c)
<1>1. code \in ErrorCodes(<<o>>, source)
  BY CodesMean
<1> QED BY <1>1 DEF Passes, FailureIs

\* The seven exact cases pass.
LEMMA ExactsPass == \A k \in 1 .. 7 : Passes(EXACT[k])
<1>1. ASSUME NEW needle, NEW d, NEW o PROVE ExactIs(ExactCase(needle, d, <<o>>), needle, d, o)
  BY DEF ExactIs, ExactCase, Src, Loud
<1>2. /\ EXACT[1] = ExactCase("cut_10", 60000, <<Cut(0, 10000)>>)
      /\ EXACT[2] = ExactCase("fade_in", 60000, <<FadeIn(0, 1000)>>)
      /\ EXACT[3] = ExactCase("fade_out_90", 120000, <<FadeOut(90000, 2000)>>)
      /\ EXACT[4] = ExactCase("resize", 60000, <<Resize(1280, 720)>>)
      /\ EXACT[5] = ExactCase("speed", 60000, <<Speed(200)>>)
      /\ EXACT[6] = ExactCase("volume", 60000, <<Volume(50)>>)
      /\ EXACT[7] = ExactCase("keep", 60000, <<Trim(5000, 35000)>>)
  BY SMT DEF EXACT
<1>3. /\ ExactIs(EXACT[1], "cut_10", 60000, Cut(0, 10000))
      /\ ExactIs(EXACT[2], "fade_in", 60000, FadeIn(0, 1000))
      /\ ExactIs(EXACT[3], "fade_out_90", 120000, FadeOut(90000, 2000))
      /\ ExactIs(EXACT[4], "resize", 60000, Resize(1280, 720))
      /\ ExactIs(EXACT[5], "speed", 60000, Speed(200))
      /\ ExactIs(EXACT[6], "volume", 60000, Volume(50))
      /\ ExactIs(EXACT[7], "keep", 60000, Trim(5000, 35000))
  BY <1>1, <1>2, SMT
<1>4. /\ Cut(0, 10000) \in EditOps /\ FadeIn(0, 1000) \in EditOps
      /\ FadeOut(90000, 2000) \in EditOps /\ Resize(1280, 720) \in EditOps
      /\ Speed(200) \in EditOps /\ Volume(50) \in EditOps /\ Trim(5000, 35000) \in EditOps
  BY EditsTyped, SMT
<1>5. Passes(EXACT[1]) /\ Passes(EXACT[2]) /\ Passes(EXACT[3]) /\ Passes(EXACT[4])
  BY <1>3, <1>4, Replies, OperationsFit, ExactPass, SMT
<1>6. Passes(EXACT[5]) /\ Passes(EXACT[6]) /\ Passes(EXACT[7])
  BY <1>3, <1>4, Replies, OperationsFit, ExactPass, SMT
<1>7. \A k \in 1 .. 7 : k = 1 \/ k = 2 \/ k = 3 \/ k = 4 \/ k = 5 \/ k = 6 \/ k = 7
  OBVIOUS
<1> QED BY <1>5, <1>6, <1>7, SMT

\* The two bounded cases pass.
LEMMA BoundedPass == \A k \in 1 .. 2 : Passes(BOUNDED[k])
<1>1. /\ BoundedIs(BOUNDED[1], {"cut_10", "cut_10_fade_90"}, 120000, "cut_and_fade")
      /\ BoundedIs(BOUNDED[2], {"concat"}, 60000, "concat_bonus")
  <2>1. ASSUME NEW needles, NEW d, NEW p PROVE BoundedIs(BoundedCase(needles, d, p), needles, d, p)
    BY DEF BoundedIs, BoundedCase, Src, Loud
  <2>2. /\ BOUNDED[1] = BoundedCase({"cut_10", "cut_10_fade_90"}, 120000, "cut_and_fade")
        /\ BOUNDED[2] = BoundedCase({"concat"}, 60000, "concat_bonus")
    BY SMT DEF BOUNDED
  <2> QED BY <2>1, <2>2, SMT
<1>2. Passes(BOUNDED[1])
  <2> DEFINE reply == <<Cut(0, 10000), FadeOut(90000, 2000)>>
  <2>1. Predicate("cut_and_fade", reply)
    BY SMT DEF Predicate, Near, Cut, FadeOut
  <2>2. \A i \in DOMAIN reply : Fits(reply[i], Loud(120000))
    BY OperationsFit, SMT
  <2>3. Scripted({"cut_10", "cut_10_fade_90"}) = reply
    BY Replies, SMT
  <2> HIDE DEF reply
  <2>4. ErrorCodes(reply, Loud(120000)) = {}
    BY <2>2, NoCodes, SMT
  <2> QED BY <1>1, <2>1, <2>3, <2>4, SMT DEF Passes, BoundedIs
<1>3. Passes(BOUNDED[2])
  <2> DEFINE reply == <<Bonus>>
  <2>1. Predicate("concat_bonus", reply)
    BY SMT DEF Predicate, Bonus
  <2>2. \A i \in DOMAIN reply : Fits(reply[i], Loud(60000))
    BY OperationsFit, SMT
  <2>3. Scripted({"concat"}) = reply
    BY Replies, SMT
  <2> HIDE DEF reply
  <2>4. ErrorCodes(reply, Loud(60000)) = {}
    BY <2>2, NoCodes, SMT
  <2> QED BY <1>1, <2>1, <2>3, <2>4, SMT DEF Passes, BoundedIs
<1> QED BY <1>2, <1>3, SMT

\* The three failures pass.
LEMMA FailuresPass == \A k \in 1 .. 3 : Passes(FAILURES[k])
<1>1. /\ FailureIs(FAILURES[1], "cut_30_to_300", Loud(60000), "cut_end_past_source")
      /\ FailureIs(FAILURES[2], "volume", Mute(60000), "volume_no_audio")
      /\ FailureIs(FAILURES[3], "fade_out_58", Loud(60000), "fade_past_source")
  <2>1. /\ FAILURES[1] = [kind |-> "failure", instruction |-> {"cut_30_to_300"},
                          source |-> Loud(60000), code |-> "cut_end_past_source"]
        /\ FAILURES[2] = [kind |-> "failure", instruction |-> {"volume"},
                          source |-> Mute(60000), code |-> "volume_no_audio"]
        /\ FAILURES[3] = [kind |-> "failure", instruction |-> {"fade_out_58"},
                          source |-> Loud(60000), code |-> "fade_past_source"]
    BY SMT DEF FAILURES, FailureCase, Src, Loud, Mute
  <2> QED BY <2>1, SMT DEF FailureIs
<1>2. SchemaOK(Cut(30000, 300000)) /\ Breaks("cut_end_past_source", Cut(30000, 300000), Loud(60000))
  BY SMT DEF Cut, SchemaOK, Breaks, Loud, Slack
<1>3. SchemaOK(Volume(50)) /\ Breaks("volume_no_audio", Volume(50), Mute(60000))
  BY SMT DEF Volume, SchemaOK, Breaks, Mute
<1>4. SchemaOK(FadeOut(58000, 5000)) /\ Breaks("fade_past_source", FadeOut(58000, 5000), Loud(60000))
  BY SMT DEF FadeOut, FadeOK, MaxFade, SchemaOK, Breaks, Loud, Slack
<1>5. "cut_end_past_source" \in Codes /\ "volume_no_audio" \in Codes /\ "fade_past_source" \in Codes
  BY DEF Codes
<1>6. Passes(FAILURES[1]) /\ Passes(FAILURES[2]) /\ Passes(FAILURES[3])
  BY <1>1, <1>2, <1>3, <1>4, <1>5, Replies, FailurePass, SMT
<1> QED BY <1>6, SMT

\* Every case of the suite passes.
LEMMA SuitePasses == \A k \in DOMAIN Suite : Passes(Suite[k])
<1> DEFINE S == {c \in {EXACT[i] : i \in 1 .. 7} \cup {BOUNDED[i] : i \in 1 .. 2}
                       \cup {FAILURES[i] : i \in 1 .. 3} : Passes(c)}
<1>1. EXACT \in Seq(S)
  <2>1. EXACT \in [1 .. 7 -> {EXACT[i] : i \in 1 .. 7}]
    BY SMT DEF EXACT
  <2>2. \A i \in 1 .. 7 : EXACT[i] \in S
    BY ExactsPass
  <2> HIDE DEF S
  <2>3. EXACT \in [1 .. 7 -> S]
    BY <2>1, <2>2, SMT
  <2> QED BY <2>3, FunctionIsSeq
<1>2. BOUNDED \in Seq(S)
  <2>1. BOUNDED \in [1 .. 2 -> {BOUNDED[i] : i \in 1 .. 2}]
    BY SMT DEF BOUNDED
  <2>2. \A i \in 1 .. 2 : BOUNDED[i] \in S
    BY BoundedPass
  <2> HIDE DEF S
  <2>3. BOUNDED \in [1 .. 2 -> S]
    BY <2>1, <2>2, SMT
  <2> QED BY <2>3, FunctionIsSeq
<1>3. FAILURES \in Seq(S)
  <2>1. FAILURES \in [1 .. 3 -> {FAILURES[i] : i \in 1 .. 3}]
    BY SMT DEF FAILURES
  <2>2. \A i \in 1 .. 3 : FAILURES[i] \in S
    BY FailuresPass
  <2> HIDE DEF S
  <2>3. FAILURES \in [1 .. 3 -> S]
    BY <2>1, <2>2, SMT
  <2> QED BY <2>3, FunctionIsSeq
<1>4. \A c \in S : Passes(c)
  OBVIOUS
<1> HIDE DEF S
<1>5. Suite \in Seq(S)
  BY <1>1, <1>2, <1>3, SMT DEF Suite
<1>6. \A k \in DOMAIN Suite : Suite[k] \in S
  BY <1>5, SMT
<1> QED BY <1>4, <1>6

\* As long as nothing deviates the planner has the scripted reply, and every verdict is good.
ScriptInv ==
    /\ deviations \in Nat
    /\ cases = Suite /\ deviations = 0 =>
          /\ \A k \in DOMAIN outcomes : outcomes[k] = TRUE
          /\ phase = "judging" => result.ops = Scripted(Case.instruction)

\* The case at hand is one of the suite, and passes.
LEMMA CasePasses ==
    ASSUME GateInv, ScriptInv, cases = Suite, deviations = 0, phase = "judging"
    PROVE  /\ Passes(Case)
           /\ result.ops = Scripted(Case.instruction)
           /\ result.codes = ErrorCodes(Scripted(Case.instruction), Case.source)
           /\ result.ok <=> result.codes = {}
<1>1. Len(outcomes) + 1 \in DOMAIN cases
  BY DEF GateInv, CasesOK
<1>2. Passes(Case)
  BY <1>1, SuitePasses DEF Case
<1> QED BY <1>2 DEF GateInv, ScriptInv

\* A good verdict is added to good ones.
LEMMA GoodVerdict ==
    ASSUME GateInv, ScriptInv, NEW ok, NEW output, NEW right, JudgeOutput(ok, output, right),
           cases = Suite /\ deviations = 0 => ok = TRUE
    PROVE  ScriptInv'
<1>1. outcomes' = Append(outcomes, ok) /\ phase' = "asking" /\ UNCHANGED <<cases, deviations>>
  BY DEF JudgeOutput
<1>2. outcomes \in Seq(BOOLEAN)
  BY DEF GateInv
<1>3. \A k \in DOMAIN outcomes' : outcomes'[k] = ok \/ (k \in DOMAIN outcomes /\ outcomes'[k] = outcomes[k])
  BY <1>1, <1>2
<1> QED BY <1>1, <1>3 DEF ScriptInv

\* Every step of the suite keeps to the script.
LEMMA ScriptStep == GateInv /\ ScriptInv /\ [Next]_vars => ScriptInv'
<1> SUFFICES ASSUME GateInv, ScriptInv, [Next]_vars PROVE ScriptInv'
  OBVIOUS
<1>1. CASE Complete
  <2>1. UNCHANGED <<cases, outcomes>> /\ UNCHANGED Case
    BY <1>1 DEF Complete, Case
  <2>2. CASE Answer(Scripted(Case.instruction)) /\ UNCHANGED deviations
    <3>1. phase' = "judging" => result'.ops = Scripted(Case.instruction)
      BY <1>1, <2>2 DEF Answer, Complete, Asking
    <3> QED BY <2>1, <2>2, <3>1 DEF ScriptInv
  <2>3. CASE deviations' = deviations + 1
    BY <2>3 DEF ScriptInv
  <2> QED BY <1>1, <2>2, <2>3 DEF Complete
<1>2. CASE PlanRaises
  BY <1>2 DEF PlanRaises, ScriptInv
<1>3. CASE RunExact
  <2>1. PICK ok \in BOOLEAN : /\ ok <=> result.ok /\ PlanEqual(result.ops, Case.expected)
                              /\ JudgeOutput(ok, "none", {})
    BY <1>3 DEF RunExact, Judge
  <2>2. cases = Suite /\ deviations = 0 => ok = TRUE
    BY <1>3, <2>1, CasePasses DEF RunExact, Judging, Passes
  <2> QED BY <2>1, <2>2, GoodVerdict
<1>4. CASE RunBounded
  <2>1. PICK ok \in BOOLEAN : /\ ok <=> result.ok /\ Predicate(Case.predicate, result.ops)
                              /\ JudgeOutput(ok, "none", {})
    BY <1>4 DEF RunBounded, Judge
  <2>2. cases = Suite /\ deviations = 0 => ok = TRUE
    BY <1>4, <2>1, CasePasses DEF RunBounded, Judging, Passes
  <2> QED BY <2>1, <2>2, GoodVerdict
<1>5. CASE RunFailure
  <2>1. PICK ok \in BOOLEAN : /\ ok <=> ~result.ok /\ Case.code \in result.codes
                              /\ JudgeOutput(ok, "none", {})
    BY <1>5 DEF RunFailure, Judge
  <2>2. cases = Suite /\ deviations = 0 => ok = TRUE
    BY <1>5, <2>1, CasePasses DEF RunFailure, Judging, Passes
  <2> QED BY <2>1, <2>2, GoodVerdict
<1>6. CASE RunFrames
  <2>1. PICK ok, output, right : JudgeOutput(ok, output, right)
    BY <1>6 DEF RunFrames, Judge
  <2>2. ~ (cases = Suite /\ deviations = 0)
    BY <1>6, CasePasses DEF RunFrames, Judging, Passes
  <2> QED BY <2>1, <2>2, GoodVerdict
<1>7. CASE Report
  BY <1>7 DEF Report, ScriptInv
<1>8. CASE UNCHANGED vars
  BY <1>8 DEF vars, ScriptInv, Case
<1> QED BY <1>1, <1>2, <1>3, <1>4, <1>5, <1>6, <1>7, <1>8 DEF Next

\* The scripted replies pass the gate, however often the planner may ask again: the
\* table, the cases, the schema and the verifier agree (runner.py:116-122).
THEOREM ScriptIsGreen == Spec => []ScriptPasses
<1>1. Init => ScriptInv
  <2> SUFFICES ASSUME Init PROVE ScriptInv
    OBVIOUS
  <2>1. outcomes = <<>> /\ phase \in {"asking", "listed"} /\ deviations = 0
    BY DEF Init
  <2> QED BY <2>1 DEF ScriptInv
<1>2. ScriptInv => ScriptPasses
  BY DEF ScriptInv, ScriptPasses, ExitCode
<1> QED BY <1>1, <1>2, ScriptStep, GateInit, GateStep, PTL DEF Spec
=============================================================================
