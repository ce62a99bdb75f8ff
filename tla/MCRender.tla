---------------------------- MODULE MCRender ----------------------------
(* Render for TLC: plans of up to two operations out of one of each kind and  *)
(* speeds on both sides of every limit, plans nobody verified, a source with  *)
(* and one without sound.                                                     *)
EXTENDS Render

Speed(f) == [op |-> "speed", factor |-> f]

MCOps == { [op |-> "cut", start |-> 0, end |-> 5000],
           [op |-> "trim", start |-> 1000, end |-> 4000],
           [op |-> "trim", start |-> 2000, end |-> 9000],
           [op |-> "fade_in", at |-> 0, duration |-> 1000],
           [op |-> "volume", factor |-> 50],
           [op |-> "resize", width |-> 1280, height |-> 720],
           [op |-> "concat", inputs |-> 2],
           Speed(10), Speed(800) }

\* Alone: the limits of the tempo chain, and a plan that mixes everything.
MCPlans == { <<>> } \cup { <<o>> : o \in MCOps } \cup { <<o, p>> : o, p \in MCOps }
           \cup { <<Speed(f)>> : f \in {25, 49, 50, 51, 200, 201, 400, 401, 799} }
           \cup { <<[op |-> "fade_out", at |-> 9000, duration |-> 1000],
                    [op |-> "volume", factor |-> 50], Speed(300),
                    [op |-> "cut", start |-> 0, end |-> 5000],
                    [op |-> "resize", width |-> 2, height |-> 2]>> }

\* Straight to the daemon: a misspelt op, a concat of no strings next to filters, one of
\* some, times the wrong way round, an empty operation's zeros, a speed no chain of three
\* stages makes.
MCPosted == { <<[op |-> "unknown"]>>,
              <<[op |-> "concat", inputs |-> 2, texts |-> 0], [op |-> "volume", factor |-> 500]>>,
              <<Speed(0), [op |-> "unknown"], [op |-> "concat", inputs |-> 3, texts |-> 1]>>,
              <<[op |-> "cut", start |-> 5000, end |-> 0], Speed(1601)>>,
              <<Speed(0 - 100), [op |-> "trim", start |-> 0, end |-> 0],
                [op |-> "resize", width |-> 0, height |-> 0]>> }

MCSources == [duration : {10000}, has_audio : BOOLEAN]
=============================================================================
