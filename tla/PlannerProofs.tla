---------------------------- MODULE PlannerProofs ----------------------------
(***************************************************************************)
(* What plan() guarantees for every set of replies, every source and every *)
(* number of retries: a plan it returns fits the source, and what it tells *)
(* the model, and in the end its caller, are the defects of the last reply;*)
(* and the trace it leaves is that of its loop.                            *)
(***************************************************************************)
EXTENDS Planner, FiniteSetTheorems, TLAPS

---------------------------------------------------------------------------
(* The parser and the verifier *)

\* A reply in which _parse_plan finds no fault has few calls, each of them an
\* operation that its class accepts.
LEMMA ParsedReply ==
    ASSUME NEW r \in Seq(ToolCalls), "none" \in Faults(r)
    PROVE  /\ Len(r) <= MaxOps
           /\ \A i \in DOMAIN r : r[i].op \in Operations /\ SchemaOK(r[i].op)
<1>1. ~(Len(r) > MaxOps)
  BY DEF Faults
<1>2. "none" \notin FirstFault(r)
  BY DEF FirstFault, Faulty
<1>3. Faulty(r) = {}
  BY <1>1, <1>2 DEF Faults
<1>4. ASSUME NEW i \in DOMAIN r
      PROVE  r[i].op \in Operations /\ SchemaOK(r[i].op)
  <2>1. r[i] \in ToolCalls
    OBVIOUS
  <2>2. CallFault(r[i]) = "none"
    BY <1>3 DEF Faulty
  <2>3. r[i].tag = "op"
    BY <2>1, <2>2 DEF CallFault, ToolCalls, BadTags
  <2>4. r[i].op \in Operations
    BY <2>1, <2>3 DEF ToolCalls, BadTags
  <2>5. SchemaOK(r[i].op)
    BY <2>2, <2>3 DEF CallFault
  <2> QED BY <2>4, <2>5
<1> QED BY <1>1, <1>4, PlannerAssumption

\* An operation of the right shape of which the verifier has nothing to say makes
\* sense on the source.
LEMMA VerifiedFits ==
    ASSUME NEW o \in Operations, SchemaOK(o),
           \A c \in Codes : ~Breaks(c, o, Source)
    PROVE  Fits(o, Source)
<1> USE PlannerAssumption DEF Slack, MinKept, MaxOut
<1> DEFINE d == Source.duration
<1>1. ASSUME o.op = "cut"
      PROVE  Earlier(o.end, d) > o.start /\ o.end <= d + Slack
  <2>1. o.start \in Int /\ o.end \in Int /\ o.end > o.start
    BY <1>1 DEF Operations, SchemaOK
  <2>2. ~Breaks("cut_end_past_source", o, Source) /\ ~Breaks("cut_start_past_source", o, Source)
    BY DEF Codes
  <2>3. ~(o.end > d + Slack) /\ ~(o.start >= d)
    BY <1>1, <2>2 DEF Breaks
  <2> QED BY <2>1, <2>3 DEF Earlier
<1>2. ASSUME o.op = "trim"
      PROVE  Earlier(o.end, d) - o.start >= MinKept - Slack
  <2>1. o.start \in Int /\ o.end \in Int
    BY <1>2 DEF Operations
  <2>2. ~Breaks("trim_end_past_source", o, Source) /\ ~Breaks("trim_too_short", o, Source)
    BY DEF Codes
  <2>3. ~(o.end > d + Slack) /\ ~(o.end - o.start < MinKept)
    BY <1>2, <2>2 DEF Breaks
  <2> QED BY <2>1, <2>3 DEF Earlier
<1>3. ASSUME o.op \in {"fade_in", "fade_out"}
      PROVE  o.at < d + Slack /\ o.at + o.duration <= d + Slack
  <2>1. o.at \in Int /\ o.duration \in Int /\ o.duration > 0
    BY <1>3 DEF Operations, SchemaOK, FadeOK
  <2>2. ~Breaks("fade_past_source", o, Source)
    BY DEF Codes
  <2>3. ~(o.at + o.duration > d + Slack)
    BY <1>3, <2>2 DEF Breaks
  <2> QED BY <2>1, <2>3
<1>4. ASSUME o.op = "speed"
      PROVE  (100 * d) \div o.factor <= MaxOut
  <2>1. o.factor \in Int /\ o.factor > 0
    BY <1>4 DEF Operations, SchemaOK
  <2>2. ~Breaks("speed_too_long", o, Source)
    BY DEF Codes
  <2>3. 100 * d <= MaxOut * o.factor
    BY <1>4, <2>1, <2>2 DEF Breaks
  <2>4. ASSUME NEW n \in Nat, NEW f \in Nat \ {0}, n <= MaxOut * f
        PROVE  n \div f <= MaxOut
    BY <2>4
  <2> QED BY <2>1, <2>3, <2>4
<1>5. ASSUME o.op = "volume"
      PROVE  Source.has_audio
  <2>1. ~Breaks("volume_no_audio", o, Source)
    BY DEF Codes
  <2> QED BY <1>5, <2>1 DEF Breaks
<1> QED BY <1>1, <1>2, <1>3, <1>4, <1>5 DEF Fits

\* Verify reports nothing only if it has nothing to report of any operation.
LEMMA CleanVerify ==
    ASSUME NEW ops, Verify(ops, Source) = {}
    PROVE  \A i \in DOMAIN ops : \A c \in Codes : ~Breaks(c, ops[i], Source)
<1> SUFFICES ASSUME NEW i \in DOMAIN ops, NEW c \in Codes, Breaks(c, ops[i], Source)
             PROVE  FALSE
  OBVIOUS
<1>1. [op_idx |-> i - 1, code |-> c] \in VerifyOne(i - 1, ops[i], Source)
  BY DEF VerifyOne
<1>2. [op_idx |-> i - 1, code |-> c] \in Verify(ops, Source)
  BY <1>1 DEF Verify
<1> QED BY <1>2

---------------------------------------------------------------------------
(* The types *)

\* The verifier's errors have the type of the errors of an attempt.
LEMMA VerifyType == ASSUME NEW r \in Seq(ToolCalls)
                    PROVE  Verify(Ops(r), Source) \subseteq AttemptErrors
BY DEF Verify, VerifyOne, AttemptErrors, Ops

\* plan() starts with its variables in their types.
LEMMA PlannerInitType == PlannerInit => PlannerTypeOK
BY PlannerAssumption DEF PlannerInit, PlannerTypeOK

\* The last reply is a sequence of tool calls, also before the first one.
LEMMA ReplyType == PlannerTypeOK => reply \in Seq(ToolCalls)
<1>1. <<>> \in Seq(ToolCalls)
  OBVIOUS
<1>2. \A r \in Replies : r \in Seq(ToolCalls)
  BY PlannerAssumption
<1> QED BY <1>1, <1>2 DEF PlannerTypeOK

\* A trace with a further event of the present attempt is a trace.
LEMMA EmitType ==
    ASSUME PlannerTypeOK, NEW type \in EventTypes, NEW errors \in SUBSET AttemptErrors
    PROVE  Append(events, Event(type, errors)) \in Seq(TraceEvents)
<1>1. Event(type, errors) \in TraceEvents
  BY DEF Event, TraceEvents, PlannerTypeOK
<1> QED BY <1>1 DEF PlannerTypeOK

\* Every step of plan() keeps every variable in its type.
LEMMA PlannerStepType ==
    ASSUME PlannerTypeOK, LoopCount, PlannerStep
    PROVE  PlannerTypeOK'
<1> USE PlannerAssumption
<1> DEFINE Trace == Seq(TraceEvents)
<1>0. reply \in Seq(ToolCalls)
  BY ReplyType
<1>1. CASE Probe
  <2>1. events' \in Trace
    <3>1. "probe" \in EventTypes /\ {} \in SUBSET AttemptErrors
      BY DEF EventTypes
    <3>2. Append(events, Event("probe", {})) \in Trace
      BY <3>1, EmitType
    <3> QED BY <1>1, <3>2 DEF Probe, Emit
  <2> QED BY <1>1, <2>1 DEF Probe, PlannerTypeOK
<1>2. CASE CallModel
  <2>1. events' \in Trace
    <3>1. "llm_call" \in EventTypes /\ {} \in SUBSET AttemptErrors
      BY DEF EventTypes
    <3>2. Append(events, Event("llm_call", {})) \in Trace
      BY <3>1, EmitType
    <3> QED BY <1>2, <3>2 DEF CallModel, Emit
  <2> QED BY <1>2, <2>1 DEF CallModel, PlannerTypeOK
<1>3. CASE ModelRaises
  BY <1>3 DEF ModelRaises, PlannerTypeOK
<1>4. CASE ParseRaises
  BY <1>4 DEF ParseRaises, PlannerTypeOK
<1>5. CASE PlanReady
  <2>1. events' \in Trace
    <3>1. "plan_ready" \in EventTypes /\ {} \in SUBSET AttemptErrors
      BY DEF EventTypes
    <3>2. Append(events, Event("plan_ready", {})) \in Trace
      BY <3>1, EmitType
    <3> QED BY <1>5, <3>2 DEF PlanReady, Emit
  <2> QED BY <1>5, <2>1 DEF PlanReady, PlannerTypeOK
<1>6. CASE VerifyFails
  <2> DEFINE errors == Verify(Ops(reply), Source)
  <2>1. errors \subseteq AttemptErrors
    BY <1>0, VerifyType
  <2>2. events' \in Trace
    <3>1. "verify_fail" \in EventTypes /\ errors \in SUBSET AttemptErrors
      BY <2>1 DEF EventTypes
    <3>2. Append(events, Event("verify_fail", errors)) \in Trace
      BY <3>1, EmitType
    <3> QED BY <1>6, <3>2 DEF VerifyFails, Emit
  <2>3. attempt + 1 \in 0 .. MaxReplans + 1
    BY <1>6 DEF VerifyFails, LoopCount, PlannerTypeOK
  <2> QED BY <1>6, <2>1, <2>2, <2>3 DEF VerifyFails, Replan, PlannerTypeOK
<1>7. CASE PlanFails
  <2>1. events' \in Trace
    <3>1. "plan_failed" \in EventTypes /\ lastErrors \in SUBSET AttemptErrors
      BY DEF EventTypes, PlannerTypeOK
    <3>2. Append(events, Event("plan_failed", lastErrors)) \in Trace
      BY <3>1, EmitType
    <3> QED BY <1>7, <3>2 DEF PlanFails, Emit
  <2> QED BY <1>7, <2>1 DEF PlanFails, PlannerTypeOK
<1>8. CASE \E r \in Replies : ModelAnswers(r)
  <2>1. PICK r \in Replies : ModelAnswers(r)
    BY <1>8
  <2>2. events' \in Trace
    <3>1. "tool_calls" \in EventTypes /\ {} \in SUBSET AttemptErrors
      BY DEF EventTypes
    <3>2. Append(events, Event("tool_calls", {})) \in Trace
      BY <3>1, EmitType
    <3> QED BY <2>1, <3>2 DEF ModelAnswers, Emit
  <2>3. rawCalls' \in Seq(ToolCalls)
    BY <2>1 DEF ModelAnswers, PlannerTypeOK
  <2> QED BY <2>1, <2>2, <2>3 DEF ModelAnswers, PlannerTypeOK
<1>9. CASE \E f \in {"schema_invalid", "bad_tool_call"} : RejectCalls(f)
  <2>1. PICK f \in {"schema_invalid", "bad_tool_call"} : RejectCalls(f)
    BY <1>9
  <2>2. {[op_idx |-> -1, code |-> f]} \subseteq AttemptErrors
    BY DEF AttemptErrors
  <2>3. attempt + 1 \in 0 .. MaxReplans + 1
    BY <2>1 DEF RejectCalls, LoopCount, PlannerTypeOK
  <2> QED BY <2>1, <2>2, <2>3 DEF RejectCalls, Replan, PlannerTypeOK
<1> QED BY <1>1, <1>2, <1>3, <1>4, <1>5, <1>6, <1>7, <1>8, <1>9 DEF PlannerStep

---------------------------------------------------------------------------
(* The count of attempts *)

\* The trace is finite, and one more event is one more call of the model exactly
\* if it is an llm_call.
LEMMA CountCalls ==
    ASSUME PlannerTypeOK
    PROVE  /\ Cardinality(Calls) \in Nat
           /\ events' = events => Calls' = Calls
           /\ \A e : events' = Append(events, e) =>
                 Cardinality(Calls') = IF e.type = "llm_call" THEN Cardinality(Calls) + 1
                                       ELSE Cardinality(Calls)
<1>1. events \in Seq(TraceEvents)
  BY DEF PlannerTypeOK
<1>2. Calls \subseteq 1 .. Len(events) /\ Len(events) \in Nat
  BY <1>1 DEF Calls
<1>3. IsFiniteSet(Calls)
  <2>1. IsFiniteSet(1 .. Len(events))
    BY <1>2, FS_Interval
  <2>2. Calls \in SUBSET (1 .. Len(events))
    BY <1>2
  <2> QED BY <2>1, <2>2, FS_Subset
<1>4. Cardinality(Calls) \in Nat
  BY <1>3, FS_CardinalityType
<1>5. events' = events => Calls' = Calls
  BY DEF Calls
<1>6. ASSUME NEW e, events' = Append(events, e)
      PROVE  Cardinality(Calls') = IF e.type = "llm_call" THEN Cardinality(Calls) + 1
                                   ELSE Cardinality(Calls)
  <2> DEFINE n == Len(events) + 1
  <2>1. /\ DOMAIN events' = 1 .. n /\ DOMAIN events = 1 .. Len(events)
        /\ events'[n] = e
        /\ \A i \in 1 .. Len(events) : events'[i] = events[i]
    BY <1>1, <1>2, <1>6
  <2>2. Calls' = IF e.type = "llm_call" THEN Calls \cup {n} ELSE Calls
    BY <1>2, <2>1 DEF Calls
  <2>3. n \notin Calls
    BY <1>2
  <2> QED BY <1>3, <2>2, <2>3, FS_AddElement
<1> QED BY <1>4, <1>5, <1>6

\* Every step of plan() keeps the count.
LEMMA CountStep ==
    ASSUME PlannerTypeOK, LoopCount, PlannerStep
    PROVE  LoopCount'
<1> USE PlannerAssumption DEF LoopCount
<1>0. /\ attempt \in Nat /\ Cardinality(Calls) \in Nat
      /\ events' = events => Calls' = Calls
      /\ \A e : events' = Append(events, e) =>
            Cardinality(Calls') = IF e.type = "llm_call" THEN Cardinality(Calls) + 1
                                  ELSE Cardinality(Calls)
  BY CountCalls DEF PlannerTypeOK
<1>1. CASE Probe
  <2>1. events' = Append(events, Event("probe", {})) /\ Event("probe", {}).type = "probe"
    BY <1>1 DEF Probe, Emit, Event
  <2> QED BY <1>0, <1>1, <2>1 DEF Probe
<1>2. CASE CallModel
  <2>1. events' = Append(events, Event("llm_call", {})) /\ Event("llm_call", {}).type = "llm_call"
    BY <1>2 DEF CallModel, Emit, Event
  <2> QED BY <1>0, <1>2, <2>1 DEF CallModel
<1>3. CASE ModelRaises
  BY <1>0, <1>3 DEF ModelRaises
<1>4. CASE ParseRaises
  BY <1>0, <1>4 DEF ParseRaises
<1>5. CASE PlanReady
  BY <1>5 DEF PlanReady
<1>6. CASE VerifyFails
  <2> DEFINE e == Event("verify_fail", Verify(Ops(reply), Source))
  <2>1. events' = Append(events, e) /\ e.type = "verify_fail"
    BY <1>6 DEF VerifyFails, Emit, Event
  <2> QED BY <1>0, <1>6, <2>1 DEF VerifyFails, Replan
<1>7. CASE PlanFails
  BY <1>7 DEF PlanFails
<1>8. CASE \E r \in Replies : ModelAnswers(r)
  <2>1. events' = Append(events, Event("tool_calls", {})) /\ Event("tool_calls", {}).type = "tool_calls"
    BY <1>8 DEF ModelAnswers, Emit, Event
  <2> QED BY <1>0, <1>8, <2>1 DEF ModelAnswers
<1>9. CASE \E f \in {"schema_invalid", "bad_tool_call"} : RejectCalls(f)
  BY <1>0, <1>9 DEF RejectCalls, Replan
<1> QED BY <1>1, <1>2, <1>3, <1>4, <1>5, <1>6, <1>7, <1>8, <1>9 DEF PlannerStep

---------------------------------------------------------------------------
(* The plan and the feedback *)

\* The operations of a parsed reply are no missing plan.
LEMMA OpsIsPlan ==
    ASSUME NEW r \in Seq(ToolCalls), "none" \in Faults(r)
    PROVE  /\ Ops(r) # NoPlan
           /\ DOMAIN Ops(r) = DOMAIN r
           /\ Len(Ops(r)) <= MaxOps
           /\ \A i \in DOMAIN r : Ops(r)[i] \in Operations /\ SchemaOK(Ops(r)[i])
<1>1. /\ Len(r) <= MaxOps
      /\ \A i \in DOMAIN r : r[i].op \in Operations /\ SchemaOK(r[i].op)
  BY ParsedReply
<1>2. Ops(r) \in Seq(Operations) /\ Len(Ops(r)) = Len(r) /\ DOMAIN Ops(r) = DOMAIN r
  BY <1>1 DEF Ops
<1>3. \A i \in DOMAIN r : Ops(r)[i] = r[i].op
  BY DEF Ops
<1> QED BY <1>1, <1>2, <1>3, PlannerAssumption

\* Every step of plan() returns only plans that fit.
LEMMA PlanStep ==
    ASSUME PlannerTypeOK, PlanFitsSource, PlannerStep
    PROVE  PlanFitsSource'
<1>0. reply \in Seq(ToolCalls)
  BY ReplyType
<1>1. CASE PlanReady
  <2>1. /\ "none" \in Faults(reply) /\ Verify(Ops(reply), Source) = {}
        /\ phase' = "returned" /\ reply' = reply
        /\ result'.plan = Ops(reply) /\ result'.errors = {}
    BY <1>1 DEF PlanReady
  <2>2. /\ DOMAIN Ops(reply) = DOMAIN reply /\ Len(Ops(reply)) <= MaxOps
        /\ \A i \in DOMAIN reply : Ops(reply)[i] \in Operations /\ SchemaOK(Ops(reply)[i])
    BY <1>0, <2>1, OpsIsPlan
  <2>3. \A i \in DOMAIN Ops(reply) : \A c \in Codes : ~Breaks(c, Ops(reply)[i], Source)
    BY <2>1, CleanVerify
  <2>4. \A i \in DOMAIN Ops(reply) : Fits(Ops(reply)[i], Source)
    BY <2>2, <2>3, VerifiedFits
  <2>5. Ops(reply)' = Ops(reply)
    BY <2>1 DEF Ops
  <2> QED BY <2>1, <2>2, <2>4, <2>5 DEF PlanFitsSource
<1>2. CASE PlanFails
  BY <1>2 DEF PlanFails, PlanFitsSource
<1>3. CASE ~PlanReady /\ ~PlanFails
  <2>1. result' = result /\ phase # "returned"
    BY <1>3 DEF PlannerStep, Probe, CallModel, ModelRaises, ParseRaises, VerifyFails,
                ModelAnswers, RejectCalls
  <2> QED BY <2>1 DEF PlanFitsSource
<1> QED BY <1>1, <1>2, <1>3

\* Every step of plan() keeps the feedback current.
LEMMA FeedbackStep ==
    ASSUME PlannerTypeOK, LoopCount, PlanFitsSource, FeedbackIsCurrent, PlannerStep
    PROVE  FeedbackIsCurrent'
<1> USE PlannerAssumption
<1>0. /\ attempt \in Nat /\ Cardinality(Calls) \in Nat
      /\ reply \in Seq(ToolCalls)
      /\ events' = events => Calls' = Calls
      /\ \A e : events' = Append(events, e) =>
            Cardinality(Calls') = IF e.type = "llm_call" THEN Cardinality(Calls) + 1
                                  ELSE Cardinality(Calls)
  BY CountCalls, ReplyType DEF PlannerTypeOK
<1>1. CASE Probe
  <2>1. events' = Append(events, Event("probe", {})) /\ Event("probe", {}).type = "probe"
    BY <1>1 DEF Probe, Emit, Event
  <2> QED BY <1>0, <1>1, <2>1 DEF Probe, FeedbackIsCurrent, LoopCount
<1>2. CASE CallModel
  <2>1. events' = Append(events, Event("llm_call", {})) /\ Event("llm_call", {}).type = "llm_call"
    BY <1>2 DEF CallModel, Emit, Event
  <2>2. Cardinality(Calls') <= MaxReplans + 1
    BY <1>0, <1>2, <2>1 DEF CallModel, LoopCount
  <2>3. Defects(reply)' = Defects(reply)
    BY <1>2 DEF CallModel, Defects, Faults, Faulty, FirstFault, CallFault, Ops
  <2> QED BY <1>0, <1>2, <2>2, <2>3 DEF CallModel, FeedbackIsCurrent
<1>3. CASE ModelRaises
  BY <1>0, <1>3 DEF ModelRaises, FeedbackIsCurrent
<1>4. CASE ParseRaises
  BY <1>0, <1>4 DEF ParseRaises, FeedbackIsCurrent
<1>5. CASE PlanReady
  <2>1. events' = Append(events, Event("plan_ready", {})) /\ Event("plan_ready", {}).type = "plan_ready"
    BY <1>5 DEF PlanReady, Emit, Event
  <2>2. result'.plan # NoPlan
    BY <1>0, <1>5, OpsIsPlan DEF PlanReady
  <2> QED BY <1>0, <1>5, <2>1, <2>2 DEF PlanReady, FeedbackIsCurrent
<1>6. CASE VerifyFails
  <2> DEFINE errors == Verify(Ops(reply), Source)
             e == Event("verify_fail", errors)
  <2>1. events' = Append(events, e) /\ e.type = "verify_fail"
    BY <1>6 DEF VerifyFails, Emit, Event
  <2>2. /\ prompt' = errors /\ lastErrors' = errors /\ errors # {}
        /\ reply' = reply /\ phase' = "call" /\ "none" \in Faults(reply)
    BY <1>6 DEF VerifyFails, Replan
  <2>3. errors \in Defects(reply)
    BY <2>2 DEF Defects
  <2>4. Cardinality(Calls') <= MaxReplans + 1
    BY <1>0, <1>6, <2>1 DEF FeedbackIsCurrent
  <2> QED BY <2>2, <2>3, <2>4 DEF FeedbackIsCurrent
<1>7. CASE PlanFails
  <2>1. events' = Append(events, Event("plan_failed", lastErrors))
        /\ Event("plan_failed", lastErrors).type = "plan_failed"
    BY <1>7 DEF PlanFails, Emit, Event
  <2>2. attempt = MaxReplans + 1 /\ Cardinality(Calls) = attempt /\ attempt > 0
    BY <1>7 DEF PlanFails, LoopCount, PlannerTypeOK
  <2>3. Cardinality(Calls') = MaxReplans + 1
    BY <1>0, <2>1, <2>2
  <2>4. lastErrors # {} /\ lastErrors \in Defects(reply)
    BY <1>7, <2>2 DEF PlanFails, FeedbackIsCurrent
  <2> QED BY <1>7, <2>3, <2>4 DEF PlanFails, FeedbackIsCurrent
<1>8. CASE \E r \in Replies : ModelAnswers(r)
  <2>1. events' = Append(events, Event("tool_calls", {})) /\ Event("tool_calls", {}).type = "tool_calls"
    BY <1>8 DEF ModelAnswers, Emit, Event
  <2> QED BY <1>0, <1>8, <2>1 DEF ModelAnswers, FeedbackIsCurrent
<1>9. CASE \E f \in {"schema_invalid", "bad_tool_call"} : RejectCalls(f)
  <2>1. PICK f \in {"schema_invalid", "bad_tool_call"} : RejectCalls(f)
    BY <1>9
  <2> DEFINE errors == {[op_idx |-> -1, code |-> f]}
  <2>2. /\ prompt' = errors /\ lastErrors' = errors /\ f \in Faults(reply)
        /\ reply' = reply /\ phase' = "call" /\ events' = events
    BY <2>1 DEF RejectCalls, Replan
  <2>3. errors \in Defects(reply)
    BY <2>2 DEF Defects
  <2> QED BY <1>0, <2>2, <2>3 DEF FeedbackIsCurrent
<1> QED BY <1>1, <1>2, <1>3, <1>4, <1>5, <1>6, <1>7, <1>8, <1>9 DEF PlannerStep

---------------------------------------------------------------------------

\* The inductive invariant holds before the first step.
LEMMA PlannerInvInit == PlannerInit => PlannerInv
<1> SUFFICES ASSUME PlannerInit PROVE PlannerInv
  OBVIOUS
<1>1. Calls = {}
  BY DEF PlannerInit, Calls
<1>2. Cardinality(Calls) = 0
  BY <1>1, FS_EmptySet
<1>3. LoopCount /\ FeedbackIsCurrent
  BY <1>2, PlannerAssumption DEF PlannerInit, LoopCount, FeedbackIsCurrent
<1>4. PlanFitsSource
  BY DEF PlannerInit, PlanFitsSource
<1> QED BY <1>3, <1>4, PlannerInitType DEF PlannerInv

\* A step of plan(), or one that leaves it alone, keeps the inductive invariant.
LEMMA PlannerInvStep == PlannerInv /\ [PlannerStep]_plannerVars => PlannerInv'
<1> SUFFICES ASSUME PlannerInv, [PlannerStep]_plannerVars
             PROVE  PlannerInv'
  OBVIOUS
<1>1. CASE PlannerStep
  BY <1>1, PlannerStepType, CountStep, PlanStep, FeedbackStep DEF PlannerInv
<1>2. CASE UNCHANGED plannerVars
  <2> USE <1>2 DEF plannerVars
  <2>1. PlannerTypeOK'
    BY DEF PlannerInv, PlannerTypeOK
  <2>2. Calls' = Calls /\ Defects(reply)' = Defects(reply) /\ Ops(reply)' = Ops(reply)
    BY DEF Calls, Defects, Faults, Faulty, FirstFault, CallFault, Ops
  <2>3. LoopCount'
    BY <2>2 DEF PlannerInv, LoopCount
  <2>4. FeedbackIsCurrent'
    BY <2>2 DEF PlannerInv, FeedbackIsCurrent
  <2>5. PlanFitsSource'
    BY <2>2 DEF PlannerInv, PlanFitsSource
  <2> QED BY <2>1, <2>3, <2>4, <2>5 DEF PlannerInv
<1> QED BY <1>1, <1>2

\* The variables of plan() keep their types.
THEOREM PlannerTypeCorrect == PlannerSpec => []PlannerTypeOK
<1>1. PlannerInv => PlannerTypeOK
  BY DEF PlannerInv
<1> QED BY <1>1, PlannerInvInit, PlannerInvStep, PTL DEF PlannerSpec

\* Whatever the model answers, however often, a plan that plan() returns is the last
\* reply and fits the source (planner.py:146-154, verifier.py:35-125).
THEOREM PlansFit == PlannerSpec => []PlanFitsSource
<1>1. PlannerInv => PlanFitsSource
  BY DEF PlannerInv
<1> QED BY <1>1, PlannerInvInit, PlannerInvStep, PTL DEF PlannerSpec

\* Prompts and failures name the defects of the last reply, and the model is called
\* MaxReplans + 1 times before plan() gives up (planner.py:112-176).
THEOREM FeedbackCurrent == PlannerSpec => []FeedbackIsCurrent
<1>1. PlannerInv => FeedbackIsCurrent
  BY DEF PlannerInv
<1> QED BY <1>1, PlannerInvInit, PlannerInvStep, PTL DEF PlannerSpec

---------------------------------------------------------------------------
(* The trace *)

\* The last event.
Latest == events[Len(events)]

\* The place in the loop says which event was the last, and on which attempt.
LatestFits ==
    /\ phase = "probe" => events = <<>> /\ attempt = 0
    /\ phase # "probe" => events # <<>>
    /\ phase = "call" => \/ Latest.type = "probe" /\ attempt = 0
                         \/ Latest.type \in {"tool_calls", "verify_fail"} /\ attempt = Latest.attempt + 1
    /\ phase = "await" => Latest.type = "llm_call" /\ Latest.attempt = attempt
    /\ phase = "parse" => Latest.type = "tool_calls" /\ Latest.attempt = attempt

\* An event that is emitted is the latest, and the rest of the trace stays.
LEMMA EmitAdds ==
    ASSUME PlannerTypeOK, NEW type, NEW errors, Emit(Event(type, errors))
    PROVE  /\ events' # <<>> /\ events' = Append(events, Latest')
           /\ Latest'.type = type /\ Latest'.attempt = attempt
<1>1. events \in Seq(TraceEvents)
  BY DEF PlannerTypeOK
<1>2. events' = Append(events, Event(type, errors))
  BY DEF Emit
<1>3. Len(events') = Len(events) + 1 /\ events'[Len(events) + 1] = Event(type, errors)
  BY <1>1, <1>2
<1> QED BY <1>1, <1>2, <1>3 DEF Latest, Event

\* Every step keeps the latest event right, and adds one that may follow it.
LEMMA TraceStep ==
    ASSUME PlannerTypeOK, LatestFits, [PlannerStep]_plannerVars
    PROVE  /\ LatestFits'
           /\ events' # events => /\ events' = Append(events, Latest')
                                  /\ IF events = <<>> THEN Latest'.type = "probe" /\ Len(events') = 1
                                     ELSE Follows(Latest, Latest')
<1> USE PlannerAssumption DEF LatestFits
<1>0. events = <<>> => \A e : Len(Append(events, e)) = 1
  OBVIOUS
<1>1. CASE UNCHANGED plannerVars
  BY <1>1 DEF plannerVars, Latest
<1>2. CASE Probe
  BY <1>0, <1>2, EmitAdds DEF Probe, PlannerTypeOK
<1>3. CASE CallModel
  BY <1>3, EmitAdds DEF CallModel, Follows
<1>4. ASSUME NEW r \in Replies, ModelAnswers(r)
      PROVE  /\ LatestFits' /\ events' = Append(events, Latest')
             /\ events # <<>> /\ Follows(Latest, Latest')
  BY <1>4, EmitAdds DEF ModelAnswers, Follows
<1>5. CASE ModelRaises \/ ParseRaises
  BY <1>5 DEF ModelRaises, ParseRaises
<1>6. ASSUME NEW f \in {"schema_invalid", "bad_tool_call"}, RejectCalls(f)
      PROVE  LatestFits' /\ events' = events
  BY <1>6 DEF RejectCalls, Replan, Latest
<1>7. CASE PlanReady
  BY <1>7, EmitAdds DEF PlanReady, Follows
<1>8. CASE VerifyFails
  BY <1>8, EmitAdds DEF VerifyFails, Replan, Follows
<1>9. CASE PlanFails
  <2>1. attempt > 0 /\ events # <<>>
    BY <1>9 DEF PlanFails, PlannerTypeOK
  <2> QED BY <1>9, <2>1, EmitAdds DEF PlanFails, Follows
<1> QED BY <1>1, <1>2, <1>3, <1>4, <1>5, <1>6, <1>7, <1>8, <1>9 DEF PlannerStep

\* The trace is a path of the planning loop: each event may follow the one before it,
\* on its attempt, and none follows a verdict (planner.py:102-176).
THEOREM TraceOrdered == PlannerSpec => TraceIsOrdered
<1>1. PlannerInit => LatestFits
  BY DEF PlannerInit, LatestFits
<1>2. PlannerInv => PlannerTypeOK
  BY DEF PlannerInv
<1>3. PlannerInv /\ LatestFits /\ [PlannerStep]_plannerVars => LatestFits'
  BY <1>2, TraceStep
<1>4. PlannerInv /\ LatestFits /\ [PlannerStep]_plannerVars =>
         [/\ events' = Append(events, events'[Len(events')])
          /\ IF events = <<>> THEN events'[1].type = "probe"
             ELSE Follows(events[Len(events)], events'[Len(events')])]_events
  BY <1>2, TraceStep DEF Latest
<1> QED BY <1>1, <1>3, <1>4, PlannerInvInit, PlannerInvStep, PTL DEF PlannerSpec, TraceIsOrdered

\* A verdict is the last event of the trace.
VerdictIsLast == \A i \in DOMAIN events : events[i].type \in {"plan_ready", "plan_failed"} => i = Len(events)

\* Every step keeps it so: what follows an event is allowed to follow it.
LEMMA VerdictStep ==
    ASSUME PlannerTypeOK, LatestFits, VerdictIsLast, [PlannerStep]_plannerVars
    PROVE  VerdictIsLast'
<1>1. CASE events' = events
  BY <1>1 DEF VerdictIsLast
<1>2. CASE events' # events
  <2>1. /\ events' = Append(events, Latest')
        /\ IF events = <<>> THEN Len(events') = 1 ELSE Follows(Latest, Latest')
    BY <1>2, TraceStep
  <2>2. events \in Seq(TraceEvents)
    BY DEF PlannerTypeOK
  <2>3. CASE events = <<>>
    <3>1. Len(events') = 1 /\ DOMAIN events' = {1}
      BY <2>1, <2>2, <2>3
    <3> QED BY <3>1 DEF VerdictIsLast
  <2>4. CASE events # <<>>
    <3>1. Latest.type \notin {"plan_ready", "plan_failed"}
      BY <2>1, <2>4 DEF Follows
    <3>2. \A i \in DOMAIN events : events[i].type \notin {"plan_ready", "plan_failed"}
      BY <3>1 DEF VerdictIsLast, Latest
    <3> DEFINE e == Latest'
    <3>3. /\ Len(events') = Len(events) + 1 /\ DOMAIN events' = 1 .. Len(events) + 1
          /\ DOMAIN events = 1 .. Len(events) /\ Len(events) \in Nat
          /\ \A i \in DOMAIN events : events'[i] = events[i]
      <4>1. events' = Append(events, e)
        BY <2>1
      <4> HIDE DEF e
      <4> QED BY <2>2, <4>1
    <3> QED BY <3>2, <3>3 DEF VerdictIsLast
  <2> QED BY <2>3, <2>4
<1> QED BY <1>1, <1>2

\* Nothing is traced after a verdict, so there is at most one (planner.py:143-176).
THEOREM VerdictEndsTrace == PlannerSpec => []VerdictIsLast
<1>1. PlannerInit => LatestFits /\ VerdictIsLast
  BY DEF PlannerInit, LatestFits, VerdictIsLast
<1>2. PlannerInv => PlannerTypeOK
  BY DEF PlannerInv
<1>3. PlannerInv /\ LatestFits /\ VerdictIsLast /\ [PlannerStep]_plannerVars => LatestFits' /\ VerdictIsLast'
  BY <1>2, TraceStep, VerdictStep
<1> QED BY <1>1, <1>3, PlannerInvInit, PlannerInvStep, PTL DEF PlannerSpec
=============================================================================
