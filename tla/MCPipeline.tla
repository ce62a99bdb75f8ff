---------------------------- MODULE MCPipeline ----------------------------
(* Pipeline for TLC: three jobs, two of them sent under the same id (a retry) and *)
(* the third under an id that cleans to the same path (a and ./a), and two        *)
(* requests at a time.                                                            *)
EXTENDS Pipeline, TLC

CONSTANTS first, again, other, idA, dotA, scratch, output

MCJobs  == {first, again, other}
MCIds   == {idA, dotA}
MCIdOf  == first :> idA @@ again :> idA @@ other :> dotA
MCPaths == {scratch, output}

MCScratchOf == [i \in MCIds |-> scratch]
MCOutputOf  == [i \in MCIds |-> output]
=============================================================================
