---------------------------- MODULE MCPlanApi ----------------------------
(* PlanApi for TLC: a short source with sound, and one reply for each way an   *)
(* attempt can end: accepted, refused by the verifier, refused by the parser,  *)
(* and one that makes the parser raise what plan() does not catch.             *)
EXTENDS PlanApi

MCSource == [duration |-> 10000, has_audio |-> TRUE]

Call(o) == [tag |-> "op", op |-> o]

MCReplies == { <<Call([op |-> "cut", start |-> 0, end |-> 5000])>>,
               <<Call([op |-> "cut", start |-> 0, end |-> 20000])>>,
               <<[tag |-> "unknown_tool"]>>,
               <<[tag |-> "not_keywords"]>> }

MCEndpoints == {"stream", "submit"}

MCStreamOnly == {"stream"}
=============================================================================
