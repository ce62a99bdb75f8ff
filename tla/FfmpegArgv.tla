---------------------------- MODULE FfmpegArgv ----------------------------
(***************************************************************************)
(* From a plan to an FFmpeg command, twice: build_argv                     *)
(* (videoagent/ffmpeg_run.py) and BuildArgv                                *)
(* (pipeline/internal/ffmpeg/ffmpeg.go).  Both go over the operations      *)
(* once, collecting filters for the picture and for the sound, inputs to   *)
(* append and a seek, and then put the command together.                   *)
(*                                                                         *)
(* A filter is its name with the numbers it is given; a command is what    *)
(* FFmpeg is told, not how it is spelled: the number of inputs, the chains *)
(* of the filter graph with the streams they read and the labels they      *)
(* define, the labels mapped to the output, and the seek.  Times are       *)
(* milliseconds, the digits both builders print, and factors hundredths.   *)
(*                                                                         *)
(* A plan comes from the planner, typed and verified, and then both        *)
(* builders take it; or it is posted to the daemon, which decodes any JSON *)
(* (main.go:64-69) and hands it to BuildArgv alone.                        *)
(***************************************************************************)
EXTENDS VideoOps

CONSTANTS Plans,     \* the plans the planner may verify
          Posted,    \* the plans clients may post to the daemon
          Sources    \* the probed sources: [duration, has_audio]

\* An operation as BuildArgv reads it out of a posted map: a number that is missing, or
\* is none, reads as 0; a concat has inputs, of which only texts are strings; and the op
\* may be any word.
PostedOps == {o \in Operations : o.op # "concat"}
             \cup [op : {"concat"}, inputs : Nat, texts : Nat]
             \cup [op : {"unknown"}]

ASSUME ArgvAssumption == Plans \subseteq Seq(Operations) /\ Posted \subseteq Seq(PostedOps)

VARIABLES plan,      \* the plan
          checked,   \* it comes from the planner
          source,    \* the SourceProbe of its input
          at,        \* operations the loops have passed
          py,        \* what build_argv has collected
          go         \* what BuildArgv has collected

argvVars == <<plan, checked, source, at, py, go>>

Filter(name, args) == [name |-> name, args |-> args]

---------------------------------------------------------------------------
(* build_argv.  A tempo is printed with four digits; one of at most 8.0, the *)
(* largest a Speed can have, is halved at most twice, so the digits are all  *)
(* there.                                                                    *)

\* A tempo of 1.0.
Unit == 10000

Halve[t \in 0 .. 8 * Unit] == IF t > 2 * Unit THEN <<2 * Unit>> \o Halve[t \div 2] ELSE <<t>>

\* Mutant: what is left after one halving is taken to be in range.
AtempoChainShort(f) == IF f < 50       THEN <<Unit \div 2, 200 * f>>
                       ELSE IF f > 200 THEN <<2 * Unit, 50 * f>>
                       ELSE                 <<100 * f>>

\* _atempo_chain, in ten-thousandths.
AtempoChain(f) == IF f < 50 THEN <<Unit \div 2, 200 * f>> ELSE Halve[100 * f]

VideoFilters(o) ==
    CASE o.op = "cut"                     -> <<Filter("select", <<o.start, o.end>>)>>
      [] o.op \in {"fade_in", "fade_out"} -> <<Filter(o.op, <<o.at, o.duration>>)>>
      [] o.op = "speed"                   -> <<Filter("setpts", <<o.factor>>)>>
      [] o.op = "resize"                  -> <<Filter("scale", <<o.width, o.height>>)>>
      [] OTHER                            -> <<>>

AudioFilters(o) ==
    CASE o.op = "cut"    -> <<Filter("aselect", <<o.start, o.end>>)>>
      [] o.op = "speed"  -> <<Filter("atempo", AtempoChain(o.factor))>>
      [] o.op = "volume" -> <<Filter("volume", <<o.factor>>)>>
      [] OTHER           -> <<>>

PyEmpty == [video |-> <<>>, audio |-> <<>>, has_video |-> FALSE, has_audio |-> FALSE,
            concat |-> 0, seek |-> <<>>]

\* One turn of the loop.  The last Trim wins.
PyVisit(b, o) ==
    [video     |-> b.video \o VideoFilters(o),
     audio     |-> b.audio \o AudioFilters(o),
     has_video |-> b.has_video \/ o.op \in {"cut", "fade_in", "fade_out", "speed", "resize"},
     has_audio |-> b.has_audio \/ o.op \in {"cut", "speed", "volume"},
     concat    |-> b.concat + (IF o.op = "concat" THEN o.inputs ELSE 0),
     seek      |-> IF o.op = "trim" THEN <<o.start, o.end - o.start>> ELSE b.seek]

\* Mutant: the number of inputs forgets the primary one.
JoinAppended(n) == [from |-> {<<i, s>> : i \in 0 .. n, s \in {"v", "a"}},
                    filters |-> <<Filter("concat", <<n>>)>>, to |-> {"v", "a"}]

\* The graph of a concat: the source and n appended inputs.
Join(n) == [from |-> {<<i, s>> : i \in 0 .. n, s \in {"v", "a"}},
            filters |-> <<Filter("concat", <<n + 1>>)>>, to |-> {"v", "a"}]

\* A chain of the source's own stream s.
Chain(s, filters) == [from |-> {<<0, s>>}, filters |-> filters, to |-> {s}]

\* With a concat the collected filters are not used.
PyCommand(b) ==
    LET video == IF b.has_video THEN <<Chain("v", b.video)>> ELSE <<>>
        audio == IF b.has_audio THEN <<Chain("a", b.audio)>> ELSE <<>>
    IN  IF b.concat > 0
        THEN [inputs |-> 1 + b.concat, graph |-> <<Join(b.concat)>>,
              maps |-> <<"v", "a">>, seek |-> b.seek]
        ELSE [inputs |-> 1, graph |-> video \o audio,
              maps |-> (IF b.has_video THEN <<"v">> ELSE <<>>)
                       \o (IF b.has_audio THEN <<"a">> ELSE <<>>),
              seek |-> b.seek]

---------------------------------------------------------------------------
(* BuildArgv *)

\* atempoChain: the loop halves until 2.0 is reached, n times.  The last factor is cut
\* to its four digits; up to 8.0 it has no more.
GoAtempoChain(f) ==
    LET t == 100 * f
        n == CHOOSE k \in 0 .. f : /\ t <= 2 * Unit * 2^k
                                   /\ \A l \in 0 .. k - 1 : t > 2 * Unit * 2^l
    IN  CASE t >= Unit \div 2 /\ t <= 2 * Unit -> <<t>>
          [] t < Unit \div 2                   -> <<Unit \div 2, 2 * t>>
          [] t > 2 * Unit -> [i \in 1 .. n + 1 |-> IF i <= n THEN 2 * Unit ELSE t \div 2^n]

\* The inputs of a concat that are strings: all of them in a typed one.
Texts(o) == IF "texts" \in DOMAIN o THEN o.texts ELSE o.inputs

GoEmpty == [video |-> <<>>, audio |-> <<>>, concat |-> 0, seek |-> <<>>]

\* Mutant: a speed change leaves the sound alone.
GoVisitMute(b, o) ==
    LET Picture(name, args) == [b EXCEPT !.video = Append(@, Filter(name, args))]
        Sound(c, name, args) == [c EXCEPT !.audio = Append(@, Filter(name, args))]
    IN  CASE o.op = "cut"      -> Sound(Picture("select", <<o.start, o.end>>),
                                        "aselect", <<o.start, o.end>>)
          [] o.op = "trim"     -> [b EXCEPT !.seek = <<o.start, o.end - o.start>>]
          [] o.op = "fade_in"  -> Picture("fade_in", <<o.at, o.duration>>)
          [] o.op = "fade_out" -> Picture("fade_out", <<o.at, o.duration>>)
          [] o.op = "speed"    -> Picture("setpts", <<o.factor>>)
          [] o.op = "volume"   -> Sound(b, "volume", <<o.factor>>)
          [] o.op = "resize"   -> Picture("scale", <<o.width, o.height>>)
          [] o.op = "concat"   -> [b EXCEPT !.concat = @ + Texts(o)]
          [] OTHER             -> b

\* One turn of the loop.  An op that is not known is passed over.
GoVisit(b, o) ==
    LET Picture(name, args) == [b EXCEPT !.video = Append(@, Filter(name, args))]
        Sound(c, name, args) == [c EXCEPT !.audio = Append(@, Filter(name, args))]
    IN  CASE o.op = "cut"      -> Sound(Picture("select", <<o.start, o.end>>),
                                        "aselect", <<o.start, o.end>>)
          [] o.op = "trim"     -> [b EXCEPT !.seek = <<o.start, o.end - o.start>>]
          [] o.op = "fade_in"  -> Picture("fade_in", <<o.at, o.duration>>)
          [] o.op = "fade_out" -> Picture("fade_out", <<o.at, o.duration>>)
          [] o.op = "speed"    -> Sound(Picture("setpts", <<o.factor>>),
                                        "atempo", GoAtempoChain(o.factor))
          [] o.op = "volume"   -> Sound(b, "volume", <<o.factor>>)
          [] o.op = "resize"   -> Picture("scale", <<o.width, o.height>>)
          [] o.op = "concat"   -> [b EXCEPT !.concat = @ + Texts(o)]
          [] OTHER             -> b

\* A concat takes precedence over the filters here too.
GoCommand(b) ==
    LET Used(s, filters) == IF filters = <<>> THEN <<>> ELSE <<Chain(s, filters)>>
        Label(s, filters) == IF filters = <<>> THEN <<>> ELSE <<s>>
    IN  [inputs |-> 1 + b.concat,
         graph  |-> IF b.concat > 0 THEN <<Join(b.concat)>>
                    ELSE Used("v", b.video) \o Used("a", b.audio),
         maps   |-> IF b.concat > 0 THEN <<"v", "a">>
                    ELSE Label("v", b.video) \o Label("a", b.audio),
         seek   |-> b.seek]

---------------------------------------------------------------------------

ArgvInit == /\ source \in Sources
            /\ \/ /\ checked = TRUE
                  /\ plan \in Plans
                  /\ \A i \in DOMAIN plan : SchemaOK(plan[i])
                  /\ Verify(plan, source) = {}
               \/ /\ checked = FALSE
                  /\ plan \in Posted
            /\ at = 0
            /\ py = PyEmpty
            /\ go = GoEmpty

Built == at = Len(plan)

Visit == /\ ~Built
         /\ py' = IF checked THEN PyVisit(py, plan[at + 1]) ELSE py
         /\ go' = GoVisit(go, plan[at + 1])
         /\ at' = at + 1
         /\ UNCHANGED <<plan, checked, source>>

\* The streams of the source a command reads.
Reads(c) == {s \in {"v", "a"} : \E k \in DOMAIN c.graph : <<0, s>> \in c.graph[k].from}

Streams == IF source.has_audio THEN {"v", "a"} ELSE {"v"}

\* FFmpeg's atempo takes factors from 0.5 on.
TemposInRange(c) ==
    \A k \in DOMAIN c.graph : \A i \in DOMAIN c.graph[k].filters :
        LET f == c.graph[k].filters[i]
        IN  f.name = "atempo" => \A j \in DOMAIN f.args : f.args[j] >= Unit \div 2

Runnable(c) == Reads(c) \subseteq Streams /\ TemposInRange(c)

---------------------------------------------------------------------------
(* Properties *)

\* The commands built from the plan.
Commands == IF checked THEN {PyCommand(py), GoCommand(go)} ELSE {GoCommand(go)}

Has(op) == \E i \in DOMAIN plan : plan[i].op = op

\* The product of the stages of an atempo chain, in ten-thousandths.
Product(stages) ==
    LET p[i \in 0 .. Len(stages)] == IF i = 0 THEN Unit ELSE (p[i - 1] * stages[i]) \div Unit
    IN  p[Len(stages)]

\* Filter f does to the picture (or the sound) what operation o asks for.  A factor
\* under 0.25 is the known exception to FFmpeg's range: its second stage is under 0.5.
Realises(f, o) ==
    CASE o.op = "cut"                     -> f.name \in {"select", "aselect"}
                                             /\ f.args = <<o.start, o.end>>
      [] o.op \in {"fade_in", "fade_out"} -> f.name = o.op /\ f.args = <<o.at, o.duration>>
      [] o.op = "resize"                  -> f.name = "scale" /\ f.args = <<o.width, o.height>>
      [] o.op = "volume"                  -> f.name = "volume" /\ f.args = <<o.factor>>
      [] o.op = "speed"                   ->
            \/ f.name = "setpts" /\ f.args = <<o.factor>>
            \/ /\ f.name = "atempo" /\ Product(f.args) = 100 * o.factor
               /\ o.factor >= 25 => \A i \in DOMAIN f.args : f.args[i] >= Unit \div 2 /\ f.args[i] <= 2 * Unit

\* One filter for each of the first n operations that is of these kinds, in the order
\* of the plan.
InStep(filters, kinds, n) ==
    \E pos \in [DOMAIN filters -> 1 .. n] :
        /\ \A i, j \in DOMAIN filters : i < j => pos[i] < pos[j]
        /\ {pos[i] : i \in DOMAIN filters} = {k \in 1 .. n : plan[k].op \in kinds}
        /\ \A i \in DOMAIN filters : Realises(filters[i], plan[pos[i]])

\* The chain of the command that defines label s, if the plan has such operations.
Carries(c, s, kinds) ==
    LET chains == {k \in DOMAIN c.graph : s \in c.graph[k].to}
    IN  IF \E k \in DOMAIN plan : plan[k].op \in kinds
        THEN \E k \in chains : InStep(c.graph[k].filters, kinds, Len(plan))
        ELSE chains = {}

\* "Filters are chained in plan order" (ffmpeg_run.py:20-22), and picture and sound
\* stay in step: every cut and every change of speed is done to both, in the same
\* order, the sound's tempo factors multiplying to the picture's.  Not so next to a
\* concat, whose graph has no place for them; the seek is the last Trim's.  This is of
\* the planner's plans; a posted one may ask for a tempo no chain multiplies to.
ChainsFollowPlan ==
    Built /\ checked => \A c \in Commands :
        /\ ~Has("concat") => /\ Carries(c, "v", {"cut", "fade_in", "fade_out", "speed", "resize"})
                             /\ Carries(c, "a", {"cut", "speed", "volume"})
        /\ IF Has("trim")
           THEN \E i \in DOMAIN plan :
                   /\ plan[i].op = "trim" /\ \A j \in i + 1 .. Len(plan) : plan[j].op # "trim"
                   /\ c.seek = <<plan[i].start, plan[i].end - plan[i].start>>
           ELSE c.seek = <<>>

\* The filter graph is closed (ffmpeg_run.py:74-98, ffmpeg.go:87-113): chains read
\* inputs that are there, each label is defined by one chain and mapped once, and a
\* concat takes as many inputs as the command names.
Closed(c) ==
    /\ \A k \in DOMAIN c.graph : \A r \in c.graph[k].from : r[1] \in 0 .. c.inputs - 1
    /\ \A k, l \in DOMAIN c.graph : k # l => c.graph[k].to \cap c.graph[l].to = {}
    /\ {c.maps[i] : i \in DOMAIN c.maps} = UNION {c.graph[k].to : k \in DOMAIN c.graph}
    /\ \A i, j \in DOMAIN c.maps : i # j => c.maps[i] # c.maps[j]
    /\ \A k \in DOMAIN c.graph : \A i \in DOMAIN c.graph[k].filters :
          c.graph[k].filters[i].name = "concat" => c.graph[k].filters[i].args = <<c.inputs>>

\* Every command that either builder ends with is closed (ffmpeg_run.py:74-98), and so is
\* BuildArgv's for whatever plan the daemon is posted (ffmpeg.go:75-113).
LabelsResolve == Built => \A c \in Commands : Closed(c)

\* The two loops, in two languages and over two representations of a plan, collect the
\* same filters at every turn and end in the same command (ffmpeg.go:26-28: "mirrors
\* videoagent.ffmpeg_run.build_argv").
BuildersAgree == checked => /\ PyCommand(py) = GoCommand(go)
                            /\ py.video = go.video /\ py.audio = go.audio

---------------------------------------------------------------------------
(* A statement of the repository the code does not keep *)

\* verifier.py:36: "Empty == plan is runnable."
VerifiedIsRunnable == Built /\ checked => \A c \in Commands : Runnable(c)
=============================================================================
