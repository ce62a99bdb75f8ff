---------------------------- MODULE VideoOps ----------------------------
(***************************************************************************)
(* The typed video operations (videoagent/ops.py) and the verifier that    *)
(* checks a plan of them against the probed source                         *)
(* (videoagent/verifier.py).                                               *)
(*                                                                         *)
(* Times are whole milliseconds and factors whole hundredths.  Floats that *)
(* fall within rounding of a limit are outside this model.  An operation   *)
(* is a record with the fields of its class; the inputs of a Concat are    *)
(* represented by their number.                                            *)
(***************************************************************************)
EXTENDS Integers, Sequences

Slack    == 1              \* verifier.py: duration_s + 1e-3
MinKept  == 100            \* verifier.py: keep at least 0.1 s
MaxOut   == 6 * 3600 * 1000
MaxFade  == 10000
MaxSide  == 8192
PlanMax  == 32             \* Plan.ops, max_length

---------------------------------------------------------------------------
(* ops.py: what pydantic accepts *)

\* The fields of each class, with any number in them.
Operations == [op : {"cut", "trim"}, start : Int, end : Int]
              \cup [op : {"concat"}, inputs : Int]
              \cup [op : {"fade_in", "fade_out"}, at : Int, duration : Int]
              \cup [op : {"speed", "volume"}, factor : Int]
              \cup [op : {"resize"}, width : Int, height : Int]

FadeOK(o) == o.at >= 0 /\ o.duration > 0 /\ o.duration <= MaxFade

SideOK(n) == n > 0 /\ n <= MaxSide /\ n % 2 = 0

SchemaOK(o) ==
    \/ o.op = "cut" /\ o.start >= 0 /\ o.end > o.start
    \/ o.op = "trim" /\ o.start >= 0 /\ o.end > o.start
    \/ o.op = "concat" /\ o.inputs \in 1..8
    \/ o.op \in {"fade_in", "fade_out"} /\ FadeOK(o)
    \/ o.op = "speed" /\ o.factor > 0 /\ o.factor <= 800
    \/ o.op = "volume" /\ o.factor >= 0 /\ o.factor <= 400
    \/ o.op = "resize" /\ SideOK(o.width) /\ SideOK(o.height)

---------------------------------------------------------------------------
(* verifier.py *)

Codes == {"cut_end_past_source", "cut_start_past_source", "trim_end_past_source",
          "trim_too_short", "fade_past_source", "speed_too_long", "volume_no_audio"}

\* _verify_one reports c for operation o on source s.  A Resize and a Concat
\* are never reported.
Breaks(c, o, s) ==
    \/ c = "cut_end_past_source"   /\ o.op = "cut"  /\ o.end > s.duration + Slack
    \/ c = "cut_start_past_source" /\ o.op = "cut"  /\ o.start >= s.duration
    \/ c = "trim_end_past_source"  /\ o.op = "trim" /\ o.end > s.duration + Slack
    \/ c = "trim_too_short"        /\ o.op = "trim" /\ o.end - o.start < MinKept
    \/ c = "fade_past_source"      /\ o.op \in {"fade_in", "fade_out"}
                                   /\ o.at + o.duration > s.duration + Slack
    \/ c = "speed_too_long"        /\ o.op = "speed"
                                   /\ s.duration > (MaxOut \div 100) * o.factor
    \/ c = "volume_no_audio"       /\ o.op = "volume" /\ ~s.has_audio

\* The errors name the operation by its index from 0, as the prompt does.
VerifyOne(i, o, s) == {[op_idx |-> i, code |-> c] : c \in {d \in Codes : Breaks(d, o, s)}}

\* Mutant: only the first operation is looked at.
VerifyFirst(ops, s) == IF ops = <<>> THEN {} ELSE VerifyOne(0, ops[1], s)

Verify(ops, s) == UNION {VerifyOne(i - 1, ops[i], s) : i \in DOMAIN ops}
=============================================================================
