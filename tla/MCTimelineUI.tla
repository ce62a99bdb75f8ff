---------------------------- MODULE MCTimelineUI ----------------------------
(* TimelineUI for TLC: the streams of up to two attempts, those without a verdict *)
(* included.  The first frame stands for job and probe.                           *)
EXTENDS TimelineUI

MCTraces == { <<"job", "llm_call", "tool_calls", "plan_ready", "end">>,
              <<"job", "tool_calls", "verify_fail", "tool_calls", "plan_ready", "end">>,
              <<"job", "tool_calls", "verify_fail", "tool_calls", "verify_fail", "plan_failed", "end">>,
              <<"job", "tool_calls", "tool_calls", "plan_failed", "end">>,
              <<"job", "llm_call", "end">>,
              <<"job", "tool_calls", "verify_fail", "end">> }
=============================================================================
