---------------------------- MODULE MCPlanner ----------------------------
(* Planner for TLC: a ten-second source without audio and replies that are   *)
(* each right or wrong in one or two of the ways plan() tells apart.         *)
EXTENDS Planner

MCSource == [duration |-> 10000, has_audio |-> FALSE]

Call(o) == [tag |-> "op", op |-> o]
Bad(tag) == [tag |-> tag]

Cut(a, b)  == Call([op |-> "cut", start |-> a, end |-> b])
Trim(a, b) == Call([op |-> "trim", start |-> a, end |-> b])
Fade(a, d) == Call([op |-> "fade_out", at |-> a, duration |-> d])
Speed(f)   == Call([op |-> "speed", factor |-> f])
Volume(f)  == Call([op |-> "volume", factor |-> f])

\* In order: no call at all; accepted, the second up to the end of the source; kept
\* too short; past the end; an operation that fits before one that does not; two
\* errors at once; out of the schema's range; malformed;
\* a fault after an operation that would not verify; two different faults; more
\* calls than max_ops.
MCReplies ==
    { <<>>,
      <<Cut(0, 5000), Speed(50)>>,
      <<Trim(9800, 10000), Fade(0, 10000)>>,
      <<Trim(9902, 10000)>>,
      <<Cut(10000, 10500)>>,
      <<Cut(0, 5000), Fade(9000, 2000)>>,
      <<Cut(0, 20000), Volume(100)>>,
      <<Cut(5000, 5000)>>,
      <<Bad("unknown_tool")>>,
      <<Bad("not_keywords")>>,
      <<Fade(9000, 2000), Bad("bad_json")>>,
      <<Volume(500), Bad("not_keywords")>>,
      <<Cut(0, 5000), Cut(0, 5000), Cut(0, 20000)>> }

=============================================================================
