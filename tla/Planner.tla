---------------------------- MODULE Planner ----------------------------
(***************************************************************************)
(* One run of plan() (videoagent/planner.py): ask the language model for   *)
(* tool calls, parse them into operations, verify the operations against   *)
(* the source, and go back to the model with what was wrong, at most       *)
(* MaxReplans times.                                                       *)
(*                                                                         *)
(* The model behind ChatClient is external: it answers with any member of  *)
(* Replies, or its client raises.  A reply is the sequence of its tool     *)
(* calls; a call either carries the arguments of an operation (well formed *)
(* or not: [tag |-> "op", op |-> o]) or is one of the malformed ones below.*)
(* The text of prompts and hints is left out; a prompt is represented by   *)
(* the errors it lists.                                                    *)
(***************************************************************************)
EXTENDS VideoOps, FiniteSets

CONSTANTS Replies,      \* tool-call sequences the model may answer with
          Source,       \* the SourceProbe: [duration, has_audio]
          MaxReplans,   \* PlannerConfig.max_replans
          MaxOps,       \* PlannerConfig.max_ops
          NoPlan        \* PlanResult.plan when it is None

\* Malformed calls: a tool that does not exist, arguments that are not JSON,
\* and JSON arguments that cannot be keyword arguments next to op=name (an
\* array, a scalar, or an object that has its own "op").
BadTags == {"unknown_tool", "bad_json", "not_keywords"}

ToolCalls == [tag : BadTags] \cup [tag : {"op"}, op : Operations]

ASSUME PlannerAssumption ==
    /\ MaxReplans \in Nat /\ MaxOps \in Nat
    /\ Source.duration \in Nat /\ Source.has_audio \in BOOLEAN
    /\ Replies \subseteq Seq(ToolCalls)
    /\ NoPlan \notin Seq(Operations)

VARIABLES phase,        \* where plan() is
          attempt,      \* the loop variable
          reply,        \* the tool calls of the last answer
          rawCalls,     \* raw_calls
          prompt,       \* the errors listed in messages
          lastErrors,   \* last_errors
          events,       \* what on_event was called with so far
          result        \* the PlanResult

plannerVars == <<phase, attempt, reply, rawCalls, prompt, lastErrors, events, result>>

Event(type, errors) == [type |-> type, attempt |-> attempt, errors |-> errors]

Emit(e) == events' = Append(events, e)

---------------------------------------------------------------------------
(* _parse_plan *)

\* What the first call that is not an operation makes _parse_plan raise.
CallFault(c) ==
    CASE c.tag \in {"unknown_tool", "bad_json"} -> "bad_tool_call"
      [] c.tag = "not_keywords"                 -> "type_error"
      [] c.tag = "op" /\ ~SchemaOK(c.op)        -> "schema_invalid"
      [] OTHER                                  -> "none"

Faulty(calls) == {i \in DOMAIN calls : CallFault(calls[i]) # "none"}

\* The calls are parsed in order and the first bad one ends the parsing.
FirstFault(calls) ==
    {CallFault(calls[i]) : i \in {k \in Faulty(calls) : \A l \in Faulty(calls) : k <= l}}

\* The count is checked before any call is looked at.  The exception for too
\* many calls is built from a "value_error" without the ctx that pydantic
\* wants for it; whether that gives the ValidationError or a TypeError is
\* the library's, so both are allowed.
Faults(calls) ==
    IF Len(calls) > MaxOps        THEN {"schema_invalid", "type_error"}
    ELSE IF Faulty(calls) # {}    THEN FirstFault(calls)
    ELSE IF Len(calls) > PlanMax  THEN {"schema_invalid"}
    ELSE {"none"}

Ops(calls) == [i \in DOMAIN calls |-> calls[i].op]

---------------------------------------------------------------------------
(* plan *)

Probe == /\ phase = "probe"
         /\ Emit(Event("probe", {}))
         /\ phase' = "call"
         /\ UNCHANGED <<attempt, reply, rawCalls, prompt, lastErrors, result>>

\* Mutant: the loop is not bounded.
CallModelAlways == /\ phase = "call"
                   /\ Emit(Event("llm_call", {}))
                   /\ phase' = "await"
                   /\ UNCHANGED <<attempt, reply, rawCalls, prompt, lastErrors, result>>

CallModel == /\ phase = "call"
             /\ attempt <= MaxReplans
             /\ Emit(Event("llm_call", {}))
             /\ phase' = "await"
             /\ UNCHANGED <<attempt, reply, rawCalls, prompt, lastErrors, result>>

ModelAnswers(r) == /\ phase = "await"
                   /\ reply' = r
                   /\ rawCalls' = rawCalls \o r
                   /\ Emit(Event("tool_calls", {}))
                   /\ phase' = "parse"
                   /\ UNCHANGED <<attempt, prompt, lastErrors, result>>

\* Mutant: an exception of the client is announced as a failed plan.
ModelRaisesAloud == /\ phase = "await"
                    /\ Emit(Event("plan_failed", lastErrors))
                    /\ phase' = "raised"
                    /\ UNCHANGED <<attempt, reply, rawCalls, prompt, lastErrors, result>>

\* Nothing in plan() catches what the client raises.
ModelRaises == /\ phase = "await"
               /\ phase' = "raised"
               /\ UNCHANGED <<attempt, reply, rawCalls, prompt, lastErrors, events, result>>

\* Mutant: the errors are added to the prompt that is there.
ReplanOnTop(errors) == /\ lastErrors' = errors
                       /\ prompt' = prompt \cup errors
                       /\ attempt' = attempt + 1
                       /\ phase' = "call"

\* Go round the loop with the errors in the prompt, which is built anew.
Replan(errors) == /\ lastErrors' = errors
                  /\ prompt' = errors
                  /\ attempt' = attempt + 1
                  /\ phase' = "call"

\* A ValidationError or a ValueError: no event.
RejectCalls(fault) == /\ phase = "parse"
                      /\ fault \in Faults(reply) \cap {"schema_invalid", "bad_tool_call"}
                      /\ Replan({[op_idx |-> -1, code |-> fault]})
                      /\ UNCHANGED <<reply, rawCalls, events, result>>

\* A TypeError is neither, and leaves plan().
ParseRaises == /\ phase = "parse"
               /\ "type_error" \in Faults(reply)
               /\ phase' = "raised"
               /\ UNCHANGED <<attempt, reply, rawCalls, prompt, lastErrors, events, result>>

PlanReady == /\ phase = "parse"
             /\ "none" \in Faults(reply)
             /\ Verify(Ops(reply), Source) = {}
             /\ lastErrors' = {}
             /\ Emit(Event("plan_ready", {}))
             /\ result' = [plan |-> Ops(reply), errors |-> {}, replans |-> attempt]
             /\ phase' = "returned"
             /\ UNCHANGED <<attempt, reply, rawCalls, prompt>>

VerifyFails == /\ phase = "parse"
               /\ "none" \in Faults(reply)
               /\ LET errors == Verify(Ops(reply), Source)
                  IN  /\ errors # {}
                      /\ Emit(Event("verify_fail", errors))
                      /\ Replan(errors)
               /\ UNCHANGED <<reply, rawCalls, result>>

\* Mutant: one attempt too many is waited for.
PlanFailsLate == /\ phase = "call"
                 /\ attempt > MaxReplans + 1
                 /\ Emit(Event("plan_failed", lastErrors))
                 /\ result' = [plan |-> NoPlan, errors |-> lastErrors, replans |-> MaxReplans]
                 /\ phase' = "returned"
                 /\ UNCHANGED <<attempt, reply, rawCalls, prompt, lastErrors>>

PlanFails == /\ phase = "call"
             /\ attempt > MaxReplans
             /\ Emit(Event("plan_failed", lastErrors))
             /\ result' = [plan |-> NoPlan, errors |-> lastErrors, replans |-> MaxReplans]
             /\ phase' = "returned"
             /\ UNCHANGED <<attempt, reply, rawCalls, prompt, lastErrors>>

---------------------------------------------------------------------------

PlannerInit == /\ phase = "probe"
               /\ attempt = 0
               /\ reply = <<>>
               /\ rawCalls = <<>>
               /\ prompt = {}
               /\ lastErrors = {}
               /\ events = <<>>
               /\ result = [plan |-> NoPlan, errors |-> {}, replans |-> 0]

PlannerStep == \/ Probe \/ CallModel \/ ModelRaises \/ ParseRaises
               \/ PlanReady \/ VerifyFails \/ PlanFails
               \/ \E r \in Replies : ModelAnswers(r)
               \/ \E f \in {"schema_invalid", "bad_tool_call"} : RejectCalls(f)

\* The client has its own timeout, so a call of the model comes back or raises.
PlannerSpec == PlannerInit /\ [][PlannerStep]_plannerVars /\ WF_plannerVars(PlannerStep)

---------------------------------------------------------------------------
(* Properties *)

AttemptErrors == [op_idx : Int, code : Codes \cup {"schema_invalid", "bad_tool_call"}]

EventTypes == {"probe", "llm_call", "tool_calls", "verify_fail", "plan_ready", "plan_failed"}

TraceEvents == [type : EventTypes, attempt : 0 .. MaxReplans + 1, errors : SUBSET AttemptErrors]

\* The types of plan()'s locals.
PlannerTypeOK ==
    /\ phase \in {"probe", "call", "await", "parse", "returned", "raised"}
    /\ attempt \in 0 .. MaxReplans + 1
    /\ reply \in Replies \cup {<<>>}
    /\ lastErrors \subseteq AttemptErrors
    /\ prompt \subseteq AttemptErrors
    /\ rawCalls \in Seq(ToolCalls)
    /\ events \in Seq(TraceEvents)

\* What it means for an operation to make sense on the source, said in terms of
\* the footage 0 .. duration and not of the verifier's tests.
Earlier(a, b) == IF a <= b THEN a ELSE b

Fits(o, s) ==
    /\ SchemaOK(o)
    /\ o.op = "cut" => \* some footage is removed, and none that is not there
          Earlier(o.end, s.duration) > o.start /\ o.end <= s.duration + Slack
    /\ o.op = "trim" => \* a tenth of a second of footage is kept
          Earlier(o.end, s.duration) - o.start >= MinKept - Slack
    /\ o.op \in {"fade_in", "fade_out"} =>
          o.at < s.duration + Slack /\ o.at + o.duration <= s.duration + Slack
    /\ o.op = "speed" => (100 * s.duration) \div o.factor <= MaxOut
    /\ o.op = "volume" => s.has_audio

\* A plan that plan() returns was verified: it is the reply to the last prompt,
\* every call of it an operation that fits the source, and no rejected earlier
\* attempt leaks into it (planner.py:132-154).
PlanFitsSource ==
    result.plan # NoPlan =>
        /\ phase = "returned" /\ result.errors = {}
        /\ result.plan = Ops(reply) /\ Len(result.plan) <= MaxOps
        /\ \A i \in DOMAIN result.plan : Fits(result.plan[i], Source)

\* What can be wrong with a reply, as sets of errors: one error for a reply that
\* does not parse, otherwise the verifier's.
Defects(r) ==
    {{[op_idx |-> -1, code |-> f]} : f \in Faults(r) \ {"none", "type_error"}}
    \cup (IF "none" \in Faults(r) THEN {Verify(Ops(r), Source)} ELSE {})

Calls == {i \in DOMAIN events : events[i].type = "llm_call"}

\* The bounded retry loop (planner.py:112-176): each prompt after the first lists
\* the defects of the reply just rejected, and of that one alone; a failure
\* reports those of the last reply, and only after every retry was used; an
\* exception reports nothing.
FeedbackIsCurrent ==
    /\ phase \in {"call", "await"} /\ attempt > 0 =>
          prompt # {} /\ prompt \in Defects(reply) /\ lastErrors = prompt
    /\ phase = "returned" /\ result.plan = NoPlan =>
          /\ result.errors # {} /\ result.errors \in Defects(reply)
          /\ Cardinality(Calls) = MaxReplans + 1
    /\ Cardinality(Calls) <= MaxReplans + 1

\* Where the loop is and how often it has called the model: the part of the
\* inductive invariant that the count of attempts rests on.
LoopCount ==
    /\ phase = "probe" => attempt = 0
    /\ phase \in {"await", "parse"} => attempt <= MaxReplans
    /\ phase \in {"probe", "call"} => Cardinality(Calls) = attempt
    /\ phase \in {"await", "parse"} => Cardinality(Calls) = attempt + 1

\* The inductive invariant of plan().
PlannerInv == PlannerTypeOK /\ LoopCount /\ PlanFitsSource /\ FeedbackIsCurrent

\* Which event may follow which, and on which attempt (the order of api.py:107-109
\* with the loop of plan() unrolled; a reply that does not parse has no event of
\* its own, so the next attempt or the verdict follows it at once).
Follows(e, f) ==
    \/ e.type = "probe" /\ f.type = "llm_call" /\ f.attempt = 0
    \/ e.type = "llm_call" /\ f.type = "tool_calls" /\ f.attempt = e.attempt
    \/ e.type = "tool_calls" /\ f.type \in {"verify_fail", "plan_ready"} /\ f.attempt = e.attempt
    \/ e.type \in {"tool_calls", "verify_fail"} /\ f.type \in {"llm_call", "plan_failed"}
         /\ f.attempt = e.attempt + 1

\* The trace shown to the user is a path of the planning loop: each step adds at
\* most one event, one that may follow the last, and no event follows a verdict.
TraceIsOrdered ==
    [][/\ events' = Append(events, events'[Len(events')])
       /\ IF events = <<>> THEN events'[1].type = "probe"
          ELSE Follows(events[Len(events)], events'[Len(events')])]_events

\* plan() ends: it returns, or it raises what the client or the parser raised.
PlanEnds == <>(phase \in {"returned", "raised"})
=============================================================================
