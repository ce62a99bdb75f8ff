---------------------------- MODULE RenderProofs ----------------------------
(***************************************************************************)
(* What Run guarantees for every plan, every length of line, pipe and tail *)
(* and whatever the process writes: its types, that the lines passed on    *)
(* are the lines written, that the tail is the end of them, and that       *)
(* nothing of a call goes on after it.  And what it guarantees of the      *)
(* command it is given: a closed filter graph, the same by either builder, *)
(* whose chains follow the plan.                                           *)
(***************************************************************************)
EXTENDS Render, SequenceTheorems, TLAPS

\* The steps of Run, its process and its reader.
RunStep == Write \/ Succeed \/ Fail \/ Kill \/ Cancel \/ Call \/ Read

\* Every step of the program is one of them or leaves their variables alone.
LEMMA NextIsRunStep == [Next]_vars => RunStep \/ UNCHANGED runVars
BY DEF Next, vars, Build, Ffmpeg, Finish, FfmpegFails, Await, Stream, Stop, RunStep

---------------------------------------------------------------------------

\* The types hold at the start of a call.
LEMMA TypeInit == Init => RunTypeOK
<1> SUFFICES ASSUME Init PROVE RunTypeOK
  OBVIOUS
<1>1. toSay \in Outputs /\ toSay \in Nat /\ written = 0 /\ fetched = 0 /\ taken = 0
  BY RunAssumption DEF Init, RunInit
<1>2. pushed \in Seq(Line) /\ lines \in Seq(Line)
  BY DEF Init, RunInit
<1>3. ctxDone \in BOOLEAN /\ closed \in BOOLEAN
  BY DEF Init, RunInit
<1>4. /\ caller = "start" /\ process = "none" /\ status = "none" /\ reader = "off"
  BY DEF Init, RunInit
<1>5. written <= toSay /\ fetched <= written /\ taken <= fetched
  BY <1>1
<1> QED BY <1>1, <1>2, <1>3, <1>4, <1>5 DEF RunTypeOK

\* Every step keeps the types and the order of the three positions.
LEMMA TypeStep == RunTypeOK /\ (RunStep \/ UNCHANGED runVars) => RunTypeOK'
<1> SUFFICES ASSUME RunTypeOK, RunStep \/ UNCHANGED runVars PROVE RunTypeOK'
  OBVIOUS
<1> USE RunAssumption DEF RunTypeOK, processVars, readerVars
<1>1. CASE UNCHANGED runVars
  BY <1>1 DEF runVars
<1>2. CASE Write
  <2>1. toSay \in Nat /\ written' = written + 1 /\ written' <= toSay
    BY <1>2 DEF Write
  <2> QED BY <1>2, <2>1 DEF Write
<1>3. CASE Succeed \/ Fail \/ Kill \/ Cancel \/ Call
  <2>1. UNCHANGED <<toSay, written, fetched, taken, pushed, lines>>
    BY <1>3 DEF Succeed, Fail, Kill, Cancel, Die, Call, StartFails, Start, Reap, ClosePipe, Return
  <2>2. ctxDone' \in BOOLEAN /\ closed' \in BOOLEAN
    BY <1>3 DEF Succeed, Fail, Kill, Cancel, Die, Call, StartFails, Start, Reap, ClosePipe, Return
  <2>3. /\ caller' \in {"start", "wait", "close", "join", "succeeded", "exited_bad", "failed"}
        /\ process' \in {"none", "running", "zombie", "reaped"}
        /\ status' \in {"none", "good", "bad", "killed"}
        /\ reader' \in {"off", "reading", "eof", "error"}
    BY <1>3 DEF Succeed, Fail, Kill, Cancel, Die, Call, StartFails, Start, Reap, ClosePipe, Return
  <2> QED BY <2>1, <2>2, <2>3
<1>4. CASE \E n \in fetched + 1 .. written : Fetch(n)
  BY <1>4 DEF Fetch
<1>5. ASSUME NEW line \in Line, Push(line) PROVE pushed' \in Seq(Line) /\ lines' \in Seq(Line)
  BY <1>5 DEF Push
<1>6. CASE TakeLine
  <2>1. PICK t \in LineEnds : Push(<<taken + 1, t>>) /\ taken' = t
    BY <1>6 DEF TakeLine
  <2>2. t \in Nat /\ t <= fetched
    BY <2>1 DEF LineEnds
  <2>3. <<taken + 1, t>> \in Line
    BY <2>2 DEF Line
  <2> QED BY <1>5, <1>6, <2>1, <2>2, <2>3 DEF TakeLine
<1>7. ASSUME NEW how \in {"eof", "error"}, EndWith(how) PROVE RunTypeOK'
  <2>1. <<taken + 1, fetched>> \in Line
    BY DEF Line
  <2>2. pushed' \in Seq(Line) /\ lines' \in Seq(Line)
    BY <1>5, <1>7, <2>1 DEF EndWith
  <2> QED BY <1>7, <2>2 DEF EndWith
<1>8. CASE ReadEnds \/ ReadFails
  BY <1>7, <1>8 DEF ReadEnds, ReadFails
<1> QED BY <1>1, <1>2, <1>3, <1>4, <1>6, <1>8 DEF RunStep, Read

\* The types of Run's variables, for every plan and every output (ffmpeg.go:167-206).
THEOREM RunTypeCorrect == SafeSpec => []RunTypeOK
BY TypeInit, TypeStep, NextIsRunStep, PTL DEF SafeSpec

---------------------------------------------------------------------------
(* The call and what belongs to it *)

\* Where the caller is says where the process and the pipe are.
Together ==
    /\ process = "none" <=> reader = "off"
    /\ process = "none" => caller \in {"start", "failed"} /\ ~closed
    /\ caller = "start" => process = "none"
    /\ process \in {"running", "zombie"} => caller = "wait" /\ ~closed
    /\ caller \in {"close", "join", "succeeded", "exited_bad"} => process = "reaped"
    /\ process = "reaped" /\ ~closed => caller = "close"

CallInv == RunTypeOK /\ Together /\ NothingGoesOn

\* The invariant holds at the start of a call.
LEMMA CallInit == Init => CallInv
BY TypeInit DEF Init, RunInit, CallInv, Together, NothingGoesOn, Returned

\* Every step keeps it.
LEMMA CallStep == CallInv /\ (RunStep \/ UNCHANGED runVars) => CallInv'
<1> SUFFICES ASSUME CallInv, RunStep \/ UNCHANGED runVars PROVE Together' /\ NothingGoesOn'
  BY TypeStep DEF CallInv
<1> USE DEF CallInv, Together, NothingGoesOn, Returned, ReaderDone, processVars, readerVars
<1>1. CASE UNCHANGED runVars
  BY <1>1 DEF runVars
<1>2. CASE Write \/ Succeed \/ Fail \/ Kill \/ Cancel
  BY <1>2 DEF Write, Succeed, Fail, Kill, Cancel, Die, RunTypeOK
<1>3. CASE Call
  BY <1>3 DEF Call, StartFails, Start, Reap, ClosePipe, Return, RunTypeOK
<1>4. CASE (\E n \in fetched + 1 .. written : Fetch(n)) \/ TakeLine
  BY <1>4 DEF Fetch, TakeLine
<1>5. CASE ReadEnds \/ ReadFails
  BY <1>5 DEF ReadEnds, ReadFails, EndWith, RunTypeOK
<1> QED BY <1>1, <1>2, <1>3, <1>4, <1>5 DEF RunStep, Read

\* When Run returns, the process, the pipe and the goroutine are done with, and an end
\* of the stream is the end of all that was written (ffmpeg.go:184-206).
THEOREM RunLeavesNothing == SafeSpec => []NothingGoesOn
<1>1. CallInv => NothingGoesOn
  BY DEF CallInv
<1> QED BY <1>1, CallInit, CallStep, NextIsRunStep, PTL DEF SafeSpec

---------------------------------------------------------------------------
(* The lines *)

\* Division with a remainder.
LEMMA Division == ASSUME NEW t \in Nat, NEW d \in Nat \ {0} PROVE t = d * (t \div d) + (t % d)
BY SMT

\* A multiple leaves no remainder.
LEMMA Multiple == ASSUME NEW q \in Nat, NEW d \in Nat \ {0} PROVE (d * q) % d = 0
BY SMT

\* One line length before the end of a line there is the end of a line again.
LEMMA LineBefore == ASSUME NEW t \in Nat, NEW d \in Nat \ {0}, t > d, t % d = 0
                    PROVE  (t - d) % d = 0
<1> DEFINE q == t \div d
<1>1. t = d * q /\ q \in Nat
  BY Division
<1>2. q > 0
  BY <1>1
<1>3. t - d = d * (q - 1) /\ q - 1 \in Nat
  BY <1>1, <1>2
<1> HIDE DEF q
<1> QED BY <1>3, Multiple

\* A line that is taken is no longer than a line.
LEMMA LineFits == ASSUME RunTypeOK, NEW t \in LineEnds, \A u \in LineEnds : t <= u
                  PROVE  /\ t \in taken + 1 .. fetched /\ t % LineLen = 0
                         /\ t < taken + 1 + LineLen
<1> USE RunAssumption DEF LineEnds, RunTypeOK
<1>1. SUFFICES ASSUME t >= taken + 1 + LineLen PROVE FALSE
  OBVIOUS
<1>2. t \in Nat /\ t > LineLen /\ t % LineLen = 0
  BY <1>1
<1>3. (t - LineLen) % LineLen = 0
  BY <1>2, LineBefore
<1>4. t - LineLen \in LineEnds /\ t - LineLen < t
  BY <1>1, <1>2, <1>3
<1> QED BY <1>2, <1>4

LinesInv == CallInv /\ LinesAreWhole

\* Nothing is pushed before the first line.
LEMMA LinesInit == Init => LinesInv
BY CallInit DEF Init, RunInit, LinesInv, LinesAreWhole

\* A step that leaves the lines and the position alone, and an ended reader, keeps them.
LEMMA LinesUntouched == ASSUME LinesInv, UNCHANGED <<pushed, taken>>, ReaderDone => ReaderDone'
                        PROVE  LinesAreWhole'
BY DEF LinesInv, LinesAreWhole, Starts

\* A push of what follows the last line keeps them, if it is a line or the last piece.
LEMMA PushKeeps == ASSUME LinesInv, NEW t \in Nat, Push(<<taken + 1, t>>), taken' = t, ~ReaderDone,
                          (t % LineLen = 0 /\ t < taken + 1 + LineLen) \/ ReaderDone'
                   PROVE  LinesAreWhole'
<1> DEFINE n == Len(pushed)
<1>1. pushed \in Seq(Line) /\ taken \in Nat /\ <<taken + 1, t>> \in Line
  BY DEF LinesInv, CallInv, RunTypeOK, Line
<1>2. /\ pushed' \in Seq(Line) /\ Len(pushed') = n + 1
      /\ pushed'[n + 1] = <<taken + 1, t>>
      /\ \A i \in 1 .. n : pushed'[i] = pushed[i]
  BY <1>1 DEF Push
<1>3. taken = IF n = 0 THEN 0 ELSE pushed[n][2]
  BY <1>1 DEF LinesInv, LinesAreWhole
<1>4. n \in Nat /\ DOMAIN pushed = 1 .. n /\ DOMAIN pushed' = 1 .. n + 1 /\ pushed' # <<>>
  BY <1>1, <1>2
<1>5. ASSUME NEW i \in 1 .. n
      PROVE  /\ pushed[i][1] = Starts(i)
             /\ pushed[i][2] % LineLen = 0 /\ pushed[i][2] < pushed[i][1] + LineLen
  BY <1>4, <1>5 DEF LinesInv, LinesAreWhole
<1>6. ASSUME NEW i \in 1 .. n + 1 PROVE pushed'[i][1] = Starts(i)'
  <2>1. CASE i = n + 1
    <3>1. pushed'[i][1] = taken + 1
      BY <1>2, <2>1
    <3>2. CASE n = 0
      BY <1>3, <2>1, <3>1, <3>2 DEF Starts
    <3>3. CASE n > 0
      <4>1. Starts(i)' = pushed'[n][2] + 1
        BY <1>4, <2>1, <3>3 DEF Starts
      <4>2. pushed'[n] = pushed[n]
        BY <1>2, <1>4, <3>3
      <4> QED BY <1>3, <3>1, <3>3, <4>1, <4>2
    <3> QED BY <1>4, <3>2, <3>3
  <2>2. CASE i \in 1 .. n
    <3>1. pushed'[i] = pushed[i] /\ pushed[i][1] = Starts(i)
      BY <1>2, <1>5, <2>2
    <3>2. i > 1 => pushed'[i - 1] = pushed[i - 1]
      BY <1>2, <1>4, <2>2
    <3>3. Starts(i)' = Starts(i)
      BY <1>4, <2>2, <3>2 DEF Starts
    <3> QED BY <3>1, <3>3
  <2> QED BY <1>4, <2>1, <2>2
<1>7. ASSUME NEW i \in 1 .. n + 1
      PROVE  \/ pushed'[i][2] % LineLen = 0 /\ pushed'[i][2] < pushed'[i][1] + LineLen
             \/ i = n + 1 /\ ReaderDone'
  BY <1>2, <1>4, <1>5
<1>8. taken' = pushed'[n + 1][2]
  BY <1>2
<1> HIDE DEF n
<1> QED BY <1>2, <1>4, <1>6, <1>7, <1>8 DEF LinesAreWhole

\* Every step keeps the lines.
LEMMA LinesStep == LinesInv /\ (RunStep \/ UNCHANGED runVars) => LinesInv'
<1> SUFFICES ASSUME LinesInv, RunStep \/ UNCHANGED runVars PROVE LinesAreWhole'
  BY CallStep DEF LinesInv
<1> USE DEF ReaderDone, processVars, readerVars
<1>1. CASE UNCHANGED runVars
  BY <1>1, LinesUntouched DEF runVars
<1>2. CASE Write \/ Succeed \/ Fail \/ Kill \/ Cancel
  BY <1>2, LinesUntouched DEF Write, Succeed, Fail, Kill, Cancel, Die
<1>3. CASE Start
  BY <1>3, LinesUntouched DEF Start, LinesInv, CallInv, Together
<1>4. CASE StartFails \/ Reap \/ ClosePipe \/ Return
  BY <1>4, LinesUntouched DEF StartFails, Reap, ClosePipe, Return
<1>5. CASE \E n \in fetched + 1 .. written : Fetch(n)
  BY <1>5, LinesUntouched DEF Fetch
<1>6. CASE TakeLine
  <2>1. PICK t \in LineEnds : /\ \A u \in LineEnds : t <= u
                              /\ Push(<<taken + 1, t>>) /\ taken' = t
    BY <1>6 DEF TakeLine
  <2>2. t \in Nat /\ t % LineLen = 0 /\ t < taken + 1 + LineLen
    BY <2>1, LineFits DEF LinesInv, CallInv, RunTypeOK
  <2>3. ~ReaderDone
    BY <1>6 DEF TakeLine
  <2> QED BY <2>1, <2>2, <2>3, PushKeeps
<1>7. ASSUME NEW how \in {"eof", "error"}, EndWith(how) PROVE LinesAreWhole'
  <2>1. fetched \in Nat /\ taken \in Nat /\ taken <= fetched /\ ~ReaderDone /\ ReaderDone'
    BY <1>7 DEF EndWith, LinesInv, CallInv, RunTypeOK
  <2>2. CASE taken < fetched
    BY <1>7, <2>1, <2>2, PushKeeps DEF EndWith
  <2>3. CASE taken = fetched
    BY <1>7, <2>1, <2>3, LinesUntouched DEF EndWith
  <2> QED BY <2>1, <2>2, <2>3
<1>8. CASE ReadEnds \/ ReadFails
  BY <1>7, <1>8 DEF ReadEnds, ReadFails
<1> QED BY <1>1, <1>2, <1>3, <1>4, <1>5, <1>6, <1>8 DEF RunStep, Call, Read

\* Lines are passed on whole, in order, each once, whatever the reads return
\* (ffmpeg.go:209-223).
THEOREM LinesPassWhole == SafeSpec => []LinesAreWhole
<1>1. LinesInv => LinesAreWhole
  BY DEF LinesInv
<1> QED BY <1>1, LinesInit, LinesStep, NextIsRunStep, PTL DEF SafeSpec

---------------------------------------------------------------------------
(* The tail *)

TailInv == RunTypeOK /\ TailIsLast

\* There is no line in an empty buffer.
LEMMA TailInit == Init => TailInv
<1> SUFFICES ASSUME Init PROVE TailIsLast
  BY TypeInit DEF TailInv
<1>1. pushed = <<>> /\ lines = <<>>
  BY DEF Init, RunInit
<1>2. SubSeq(pushed, 1, 0) = <<>>
  BY <1>1
<1> QED BY <1>1, <1>2, RunAssumption DEF TailIsLast

\* The last n + 1 of a sequence with one more, or the last n and the one more.
LEMMA TailOfAppend == ASSUME NEW S, NEW s \in Seq(S), NEW e \in S, NEW m \in 1 .. Len(s) + 1
                      PROVE  SubSeq(Append(s, e), m, Len(s) + 1) = Append(SubSeq(s, m, Len(s)), e)
<1> DEFINE a == SubSeq(Append(s, e), m, Len(s) + 1)
           b == Append(SubSeq(s, m, Len(s)), e)
<1>1. a \in Seq(S) /\ Len(a) = Len(s) + 2 - m /\ \A i \in 1 .. Len(s) + 2 - m : a[i] = Append(s, e)[m + i - 1]
  OBVIOUS
<1>2. b \in Seq(S) /\ Len(b) = Len(s) + 2 - m
      /\ \A i \in 1 .. Len(s) + 2 - m : b[i] = Append(s, e)[m + i - 1]
  OBVIOUS
<1> HIDE DEF a, b
<1> QED BY <1>1, <1>2, SeqEqual DEF a, b

\* The last n of a sequence without their first.
LEMMA TailOfSubSeq == ASSUME NEW S, NEW s \in Seq(S), NEW m \in 1 .. Len(s)
                      PROVE  Tail(SubSeq(s, m, Len(s))) = SubSeq(s, m + 1, Len(s))
<1> DEFINE a == Tail(SubSeq(s, m, Len(s)))
           b == SubSeq(s, m + 1, Len(s))
           c == SubSeq(s, m, Len(s))
<1>1. c \in Seq(S) /\ Len(c) = Len(s) - m + 1 /\ \A i \in 1 .. Len(s) - m + 1 : c[i] = s[m + i - 1]
  OBVIOUS
<1>2. a \in Seq(S) /\ Len(a) = Len(s) - m /\ \A i \in 1 .. Len(s) - m : a[i] = s[m + i]
  <2> a = Tail(c)
    OBVIOUS
  <2> HIDE DEF a, c
  <2>1. c # <<>>
    BY <1>1
  <2>2. /\ Tail(c) \in Seq(S) /\ Len(Tail(c)) = Len(c) - 1
        /\ \A i \in 1 .. Len(c) - 1 : Tail(c)[i] = c[i + 1]
    BY <1>1, <2>1
  <2> QED BY <1>1, <2>2
<1>3. b \in Seq(S) /\ Len(b) = Len(s) - m /\ \A i \in 1 .. Len(s) - m : b[i] = s[m + i]
  OBVIOUS
<1> HIDE DEF a, b
<1> QED BY <1>2, <1>3, SeqEqual DEF a, b

\* A push keeps the tail.
LEMMA PushKeepsTail == ASSUME TailInv, NEW line \in Line, Push(line) PROVE TailIsLast'
<1> USE RunAssumption DEF TailInv
<1> DEFINE k == Len(pushed)
           n == IF k < TailSize THEN k ELSE TailSize
<1>1. /\ pushed \in Seq(Line) /\ k \in Nat /\ n \in 0 .. k /\ n <= TailSize
      /\ n < TailSize => n = k
      /\ lines = SubSeq(pushed, k - n + 1, k)
  BY DEF RunTypeOK, TailIsLast
<1>2. Len(lines) = n
  BY <1>1
<1>3. pushed' = Append(pushed, line) /\ Len(pushed') = k + 1
  BY <1>1 DEF Push
<1>4. ASSUME NEW l, Len(pushed') = l, NEW m, m = IF l < TailSize THEN l ELSE TailSize,
             lines' = SubSeq(pushed', l - m + 1, l)
      PROVE  TailIsLast'
  BY <1>4 DEF TailIsLast
<1>5. \A m \in 1 .. k + 1 : SubSeq(Append(pushed, line), m, k + 1) = Append(SubSeq(pushed, m, k), line)
  BY <1>1, TailOfAppend
<1>6. \A m \in 1 .. k : Tail(SubSeq(pushed, m, k)) = SubSeq(pushed, m + 1, k)
  BY <1>1, TailOfSubSeq
<1> HIDE DEF k, n
<1>7. CASE n < TailSize
  <2>1. lines' = Append(lines, line) /\ n = k
    BY <1>1, <1>2, <1>7 DEF Push
  <2>2. lines' = SubSeq(pushed', 1, k + 1)
    BY <1>1, <1>3, <1>5, <2>1
  <2>3. k + 1 = IF k + 1 < TailSize THEN k + 1 ELSE TailSize
    BY <1>1, <1>7, <2>1
  <2>4. (k + 1) - (k + 1) + 1 = 1
    BY <1>1
  <2> QED BY <1>3, <1>4, <2>2, <2>3, <2>4
<1>8. CASE n = TailSize
  <2>1. k - n + 1 \in 1 .. k /\ k - n + 2 \in 1 .. k + 1 /\ (k - n + 1) + 1 = k - n + 2
    BY <1>1, <1>8
  <2>2. lines' = Append(Tail(lines), line)
    BY <1>1, <1>2, <1>8 DEF Push
  <2>3. Tail(lines) = SubSeq(pushed, k - n + 2, k)
    BY <1>1, <1>6, <2>1
  <2>4. lines' = SubSeq(pushed', k - n + 2, k + 1)
    BY <1>3, <1>5, <2>1, <2>2, <2>3
  <2>5. n = IF k + 1 < TailSize THEN k + 1 ELSE TailSize
    BY <1>1, <1>8
  <2>6. (k + 1) - n + 1 = k - n + 2
    BY <1>1
  <2> QED BY <1>3, <1>4, <2>4, <2>5, <2>6
<1> QED BY <1>1, <1>7, <1>8

\* Every step keeps the tail.
LEMMA TailStep == TailInv /\ (RunStep \/ UNCHANGED runVars) => TailInv'
<1> SUFFICES ASSUME TailInv, RunStep \/ UNCHANGED runVars PROVE TailIsLast'
  BY TypeStep DEF TailInv
<1> USE DEF processVars, readerVars
<1>1. ASSUME UNCHANGED <<pushed, lines>> PROVE TailIsLast'
  BY <1>1 DEF TailInv, TailIsLast
<1>2. CASE UNCHANGED runVars
  BY <1>1, <1>2 DEF runVars
<1>3. CASE Write \/ Succeed \/ Fail \/ Kill \/ Cancel \/ Call
  BY <1>1, <1>3 DEF Write, Succeed, Fail, Kill, Cancel, Die, Call, StartFails, Start, Reap,
                    ClosePipe, Return
<1>4. CASE \E n \in fetched + 1 .. written : Fetch(n)
  BY <1>1, <1>4 DEF Fetch
<1>5. CASE TakeLine
  <2>1. PICK t \in LineEnds : Push(<<taken + 1, t>>)
    BY <1>5 DEF TakeLine
  <2>2. <<taken + 1, t>> \in Line
    BY <2>1 DEF TailInv, RunTypeOK, LineEnds, Line
  <2> QED BY <2>1, <2>2, PushKeepsTail
<1>6. CASE ReadEnds \/ ReadFails
  <2>1. <<taken + 1, fetched>> \in Line
    BY DEF TailInv, RunTypeOK, Line
  <2>2. Push(<<taken + 1, fetched>>) \/ UNCHANGED <<pushed, lines>>
    BY <1>6 DEF ReadEnds, ReadFails, EndWith
  <2> QED BY <1>1, <2>1, <2>2, PushKeepsTail
<1> QED BY <1>2, <1>3, <1>4, <1>5, <1>6 DEF RunStep, Read

\* The tail that Run returns is the last lines, as many as it has room for
\* (ffmpeg.go:235-242).
THEOREM TailHoldsLast == SafeSpec => []TailIsLast
<1>1. TailInv => TailIsLast
  BY DEF TailInv
<1> QED BY <1>1, TailInit, TailStep, NextIsRunStep, PTL DEF SafeSpec

---------------------------------------------------------------------------
(* The command *)

\* A sequence of filters without the one that joins inputs.
Plain(fs) == \E S : fs \in Seq(S) /\ \A f \in S : f.name # "concat"

\* An empty sequence is plain, and so are two plain ones together.
LEMMA PlainTogether ==
    /\ Plain(<<>>)
    /\ \A V, W : Plain(V) /\ Plain(W) => Plain(V \o W)
<1>1. Plain(<<>>)
  <2>1. PICK S : S = {Filter("volume", <<>>)}
    OBVIOUS
  <2>2. <<>> \in Seq(S) /\ \A f \in S : f.name # "concat"
    BY <2>1 DEF Filter
  <2> QED BY <2>2 DEF Plain
<1>2. ASSUME NEW V, NEW W, Plain(V), Plain(W) PROVE Plain(V \o W)
  <2>1. PICK S : V \in Seq(S) /\ \A f \in S : f.name # "concat"
    BY <1>2 DEF Plain
  <2>2. PICK T : W \in Seq(T) /\ \A f \in T : f.name # "concat"
    BY <1>2 DEF Plain
  <2>3. V \in Seq(S \cup T) /\ W \in Seq(S \cup T)
    BY <2>1, <2>2
  <2>4. V \o W \in Seq(S \cup T)
    BY <2>3
  <2> QED BY <2>1, <2>2, <2>4 DEF Plain
<1>3. \A V, W : Plain(V) /\ Plain(W) => Plain(V \o W)
  BY <1>2
<1> QED BY <1>1, <1>3

\* One filter of another name is plain.
LEMMA PlainOne ==
    ASSUME NEW name, NEW args, name # "concat"
    PROVE  Plain(<<Filter(name, args)>>)
<1>1. PICK S : S = {Filter(name, args)}
  OBVIOUS
<1>2. <<Filter(name, args)>> \in Seq(S)
  BY <1>1
<1>3. \A f \in S : f.name # "concat"
  BY <1>1 DEF Filter
<1> QED BY <1>2, <1>3 DEF Plain

\* No filter of a plain sequence is the join.
LEMMA PlainHasNoJoin ==
    ASSUME NEW V, Plain(V), NEW i \in DOMAIN V
    PROVE  V[i].name # "concat"
<1>1. PICK S : V \in Seq(S) /\ \A f \in S : f.name # "concat"
  BY DEF Plain
<1>2. V[i] \in S
  BY <1>1
<1> QED BY <1>1, <1>2

\* Short sequences put together.
LEMMA ShortTogether ==
    ASSUME NEW x, NEW y
    PROVE  <<x>> \o <<y>> = <<x, y>> /\ <<x>> \o <<>> = <<x>> /\ <<>> \o <<y>> = <<y>>
<1> DEFINE S == {x, y}
<1>1. <<x>> \in Seq(S) /\ <<y>> \in Seq(S) /\ <<>> \in Seq(S) /\ <<x, y>> \in Seq(S)
  OBVIOUS
<1>2. <<x>> \o <<y>> = <<x, y>>
  <2>1. <<x>> \o <<y>> \in Seq(S) /\ Len(<<x>> \o <<y>>) = 2
    BY <1>1
  <2>2. \A i \in 1 .. 2 : (<<x>> \o <<y>>)[i] = <<x, y>>[i]
    BY <1>1
  <2> QED BY <1>1, <2>1, <2>2, SeqEqual
<1>3. <<x>> \o <<>> = <<x>> /\ <<>> \o <<y>> = <<y>>
  BY <1>1, ConcatEmptySeq
<1> QED BY <1>2, <1>3

\* The command of plain chains of the source's own streams is closed.
LEMMA ChainsClosed ==
    ASSUME NEW V, NEW A, Plain(V), Plain(A), NEW seek,
           NEW v \in BOOLEAN, NEW a \in BOOLEAN
    PROVE  Closed([inputs |-> 1,
                   graph |-> (IF v THEN <<Chain("v", V)>> ELSE <<>>)
                             \o (IF a THEN <<Chain("a", A)>> ELSE <<>>),
                   maps |-> (IF v THEN <<"v">> ELSE <<>>) \o (IF a THEN <<"a">> ELSE <<>>),
                   seek |-> seek])
<1> DEFINE g == (IF v THEN <<Chain("v", V)>> ELSE <<>>) \o (IF a THEN <<Chain("a", A)>> ELSE <<>>)
           m == (IF v THEN <<"v">> ELSE <<>>) \o (IF a THEN <<"a">> ELSE <<>>)
<1>1. /\ DOMAIN g = DOMAIN m
      /\ DOMAIN m \subseteq 1 .. 2
      /\ \A k \in DOMAIN m : m[k] \in {"v", "a"}
      /\ \A k, l \in DOMAIN m : k # l => m[k] # m[l]
      /\ \A k \in DOMAIN m : \/ g[k] = Chain("v", V) /\ m[k] = "v"
                             \/ g[k] = Chain("a", A) /\ m[k] = "a"
  <2>1. CASE v /\ a
    <3>1. g = <<Chain("v", V), Chain("a", A)>> /\ m = <<"v", "a">>
      BY <2>1, ShortTogether
    <3> HIDE DEF g, m
    <3> QED BY <3>1
  <2>2. CASE v /\ ~a
    <3>1. g = <<Chain("v", V)>> /\ m = <<"v">>
      BY <2>2, ShortTogether
    <3> HIDE DEF g, m
    <3> QED BY <3>1
  <2>3. CASE ~v /\ a
    <3>1. g = <<Chain("a", A)>> /\ m = <<"a">>
      BY <2>3, ShortTogether
    <3> HIDE DEF g, m
    <3> QED BY <3>1
  <2>4. CASE ~v /\ ~a
    <3>1. g = <<>> /\ m = <<>>
      BY <2>4
    <3> QED BY <3>1
  <2> QED BY <2>1, <2>2, <2>3, <2>4
<1> HIDE DEF g, m
<1>2. \A k \in DOMAIN g : /\ g[k].from = {<<0, m[k]>>}
                          /\ g[k].to = {m[k]}
                          /\ \A i \in DOMAIN g[k].filters : g[k].filters[i].name # "concat"
  BY <1>1, PlainHasNoJoin DEF Chain
<1>3. Closed([inputs |-> 1, graph |-> g, maps |-> m, seek |-> seek])
  <2> DEFINE c == [inputs |-> 1, graph |-> g, maps |-> m, seek |-> seek]
  <2>1. c.inputs = 1 /\ c.graph = g /\ c.maps = m
    OBVIOUS
  <2> HIDE DEF c
  <2>2. {m[i] : i \in DOMAIN m} = UNION {g[k].to : k \in DOMAIN g}
    BY <1>1, <1>2
  <2>3. \A k, l \in DOMAIN g : k # l => g[k].to \cap g[l].to = {}
    BY <1>1, <1>2
  <2>4. \A k \in DOMAIN g : \A r \in g[k].from : r[1] \in 0 .. 1 - 1
    BY <1>2
  <2>5. Closed(c)
    BY <1>1, <1>2, <2>1, <2>2, <2>3, <2>4 DEF Closed
  <2> QED BY <2>5 DEF c
<1> QED BY <1>3 DEF g, m

\* The command of a concat is closed.
LEMMA JoinClosed ==
    ASSUME NEW n \in Nat, NEW seek
    PROVE  Closed([inputs |-> 1 + n, graph |-> <<Join(n)>>, maps |-> <<"v", "a">>, seek |-> seek])
<1> DEFINE c == [inputs |-> 1 + n, graph |-> <<Join(n)>>, maps |-> <<"v", "a">>, seek |-> seek]
<1>1. c.inputs = 1 + n /\ c.graph = <<Join(n)>> /\ c.maps = <<"v", "a">>
  OBVIOUS
<1>2. /\ Join(n).from = {<<i, s>> : i \in 0 .. n, s \in {"v", "a"}}
      /\ Join(n).to = {"v", "a"}
      /\ Join(n).filters = <<Filter("concat", <<n + 1>>)>>
  BY DEF Join
<1>3. Filter("concat", <<n + 1>>).args = <<n + 1>>
  BY DEF Filter
<1> HIDE DEF c
<1>4. \A k \in DOMAIN c.graph : k = 1 /\ c.graph[k] = Join(n)
  BY <1>1
<1>5. \A k \in DOMAIN c.graph : \A r \in c.graph[k].from : r[1] \in 0 .. c.inputs - 1
  BY <1>1, <1>2, <1>4
<1>6. {c.maps[i] : i \in DOMAIN c.maps} = {"v", "a"} /\ c.maps[1] # c.maps[2] /\ DOMAIN c.maps = {1, 2}
  BY <1>1
<1>7. UNION {c.graph[k].to : k \in DOMAIN c.graph} = {"v", "a"}
  BY <1>1, <1>2
<1>8. \A k \in DOMAIN c.graph : \A i \in DOMAIN c.graph[k].filters :
         c.graph[k].filters[i].args = <<c.inputs>>
  BY <1>1, <1>2, <1>3, <1>4
<1>9. Closed(c)
  BY <1>4, <1>5, <1>6, <1>7, <1>8 DEF Closed
<1> QED BY <1>9 DEF c

\* An operation a builder can meet: a typed one, or, in a posted plan, any.
Met(o) == IF checked THEN o \in Operations /\ SchemaOK(o) ELSE o \in PostedOps

\* The inputs of a typed concat are all strings; whatever is posted, a number of them are.
LEMMA TextsAre ==
    ASSUME NEW o, o.op = "concat"
    PROVE  /\ o \in Operations /\ SchemaOK(o) => Texts(o) = o.inputs /\ o.inputs \in Nat
           /\ o \in PostedOps => Texts(o) \in Nat
<1>1. ASSUME o \in Operations, SchemaOK(o) PROVE Texts(o) = o.inputs /\ o.inputs \in Nat
  <2>1. o.inputs \in Nat
    BY <1>1 DEF SchemaOK
  <2>2. o \in [op : {"concat"}, inputs : Int]
    BY <1>1 DEF Operations
  <2>3. "texts" \notin DOMAIN o
    BY <2>2
  <2> QED BY <2>1, <2>3 DEF Texts
<1>2. ASSUME o \in PostedOps PROVE Texts(o) \in Nat
  <2>1. o \in [op : {"concat"}, inputs : Nat, texts : Nat]
    BY <1>2 DEF PostedOps
  <2> QED BY <2>1 DEF Texts
<1> QED BY <1>1, <1>2

\* What the two loops have collected: no join among the filters, and a number of inputs.
BuildInv ==
    /\ checked \in BOOLEAN
    /\ at \in 0 .. Len(plan)
    /\ plan \in Seq(Operations \cup PostedOps)
    /\ \A i \in DOMAIN plan : Met(plan[i])
    /\ py.has_video \in BOOLEAN /\ py.has_audio \in BOOLEAN
    /\ py.concat \in Nat /\ go.concat \in Nat
    /\ Plain(py.video) /\ Plain(py.audio) /\ Plain(go.video) /\ Plain(go.audio)
    /\ go = [video |-> go.video, audio |-> go.audio, concat |-> go.concat, seek |-> go.seek]

\* Both loops start with nothing.
LEMMA BuildInit == Init => BuildInv
<1> SUFFICES ASSUME Init PROVE BuildInv
  OBVIOUS
<1>1. at = 0 /\ py = PyEmpty /\ go = GoEmpty
  BY DEF Init, ArgvInit
<1>2. /\ checked \in BOOLEAN
      /\ plan \in Seq(Operations \cup PostedOps)
      /\ \A i \in DOMAIN plan : Met(plan[i])
  <2>1. CASE checked = TRUE
    <3>1. plan \in Seq(Operations) /\ \A i \in DOMAIN plan : SchemaOK(plan[i])
      BY <2>1, ArgvAssumption DEF Init, ArgvInit
    <3>2. plan \in Seq(Operations \cup PostedOps)
      BY <3>1, SeqMonotonic
    <3>3. \A i \in DOMAIN plan : plan[i] \in Operations
      BY <3>1
    <3> QED BY <2>1, <3>1, <3>2, <3>3 DEF Met
  <2>2. CASE checked = FALSE
    <3>1. plan \in Seq(PostedOps)
      BY <2>2, ArgvAssumption DEF Init, ArgvInit
    <3>2. plan \in Seq(Operations \cup PostedOps)
      BY <3>1, SeqMonotonic
    <3>3. \A i \in DOMAIN plan : plan[i] \in PostedOps
      BY <3>1
    <3> QED BY <2>2, <3>2, <3>3 DEF Met
  <2> QED BY <2>1, <2>2 DEF Init, ArgvInit
<1> QED BY <1>1, <1>2, PlainTogether DEF BuildInv, PyEmpty, GoEmpty

\* One turn of build_argv's loop adds plain filters and, for a Concat, its inputs.
LEMMA PyTurn ==
    ASSUME BuildInv, NEW o \in Operations, SchemaOK(o), py' = PyVisit(py, o)
    PROVE  /\ py'.has_video \in BOOLEAN /\ py'.has_audio \in BOOLEAN
           /\ py'.concat \in Nat
           /\ Plain(py'.video) /\ Plain(py'.audio)
<1>1. Plain(VideoFilters(o)) /\ Plain(AudioFilters(o))
  BY PlainTogether, PlainOne DEF VideoFilters, AudioFilters, Operations
<1>2. o.op = "concat" => o.inputs \in Nat
  BY DEF SchemaOK
<1>3. /\ py'.video = py.video \o VideoFilters(o)
      /\ py'.audio = py.audio \o AudioFilters(o)
      /\ py'.concat = py.concat + (IF o.op = "concat" THEN o.inputs ELSE 0)
      /\ py'.has_video \in BOOLEAN /\ py'.has_audio \in BOOLEAN
  BY DEF PyVisit, BuildInv
<1>4. py'.concat \in Nat
  BY <1>2, <1>3 DEF BuildInv
<1> QED BY <1>1, <1>3, <1>4, PlainTogether DEF BuildInv

\* A filter appended to plain ones leaves them plain.
LEMMA PlainAppend ==
    ASSUME NEW V, Plain(V), NEW name, NEW args, name # "concat"
    PROVE  Plain(Append(V, Filter(name, args)))
<1>1. PICK S : V \in Seq(S) /\ \A f \in S : f.name # "concat"
  BY DEF Plain
<1>2. Append(V, Filter(name, args)) \in Seq(S \cup {Filter(name, args)})
  BY <1>1
<1>3. Filter(name, args).name = name
  BY DEF Filter
<1> QED BY <1>1, <1>2, <1>3 DEF Plain

\* And so does one turn of BuildArgv's.
LEMMA GoTurn ==
    ASSUME BuildInv, NEW o, Met(o), go' = GoVisit(go, o)
    PROVE  /\ go'.concat \in Nat
           /\ Plain(go'.video) /\ Plain(go'.audio)
           /\ go' = [video |-> go'.video, audio |-> go'.audio, concat |-> go'.concat, seek |-> go'.seek]
<1> DEFINE v == go.video  a == go.audio  n == go.concat  s == go.seek
           Grown(name, args) ==
              \/ go' = [video |-> Append(v, Filter(name, args)), audio |-> a, concat |-> n, seek |-> s]
              \/ go' = [video |-> v, audio |-> Append(a, Filter(name, args)), concat |-> n, seek |-> s]
              \/ \E sound, more :
                    /\ sound # "concat"
                    /\ go' = [video |-> Append(v, Filter(name, args)),
                              audio |-> Append(a, Filter(sound, more)), concat |-> n, seek |-> s]
           Collected ==
              /\ go'.concat \in Nat
              /\ Plain(go'.video) /\ Plain(go'.audio)
              /\ go' = [video |-> go'.video, audio |-> go'.audio, concat |-> go'.concat, seek |-> go'.seek]
<1>1. go = [video |-> v, audio |-> a, concat |-> n, seek |-> s] /\ n \in Nat /\ Plain(v) /\ Plain(a)
  BY DEF BuildInv
<1>2. o.op \in {"cut", "trim", "fade_in", "fade_out", "speed", "volume", "resize", "concat", "unknown"}
  BY DEF Met, Operations, PostedOps
<1>3. o.op = "concat" => Texts(o) \in Nat
  BY TextsAre DEF Met
<1> HIDE DEF v, a, n, s
<1>4. \/ go' = [video |-> v, audio |-> a, concat |-> n, seek |-> <<o.start, o.end - o.start>>]
      \/ o.op = "concat" /\ go' = [video |-> v, audio |-> a, concat |-> n + Texts(o), seek |-> s]
      \/ go' = go
      \/ \E name, args : name # "concat" /\ Grown(name, args)
  <2>1. CASE o.op = "trim"
    BY <1>1, <2>1 DEF GoVisit
  <2>2. CASE o.op = "concat"
    BY <1>1, <2>2 DEF GoVisit
  <2>3. CASE o.op = "cut"
    <3>1. go' = [video |-> Append(v, Filter("select", <<o.start, o.end>>)),
                 audio |-> Append(a, Filter("aselect", <<o.start, o.end>>)), concat |-> n, seek |-> s]
      BY <1>1, <2>3 DEF GoVisit
    <3> QED BY <3>1
  <2>4. CASE o.op = "speed"
    <3>1. go' = [video |-> Append(v, Filter("setpts", <<o.factor>>)),
                 audio |-> Append(a, Filter("atempo", GoAtempoChain(o.factor))), concat |-> n, seek |-> s]
      BY <1>1, <2>4 DEF GoVisit
    <3> QED BY <3>1
  <2>5. CASE o.op = "volume"
    <3>1. go' = [video |-> v, audio |-> Append(a, Filter("volume", <<o.factor>>)), concat |-> n, seek |-> s]
      BY <1>1, <2>5 DEF GoVisit
    <3> QED BY <3>1
  <2>6. CASE o.op \in {"fade_in", "fade_out", "resize"}
    <3>1. PICK name, args : /\ name # "concat"
                            /\ go' = [video |-> Append(v, Filter(name, args)), audio |-> a,
                                      concat |-> n, seek |-> s]
      BY <1>1, <2>6 DEF GoVisit
    <3> QED BY <3>1
  <2>7. CASE o.op = "unknown"
    BY <2>7 DEF GoVisit
  <2> QED BY <1>2, <2>1, <2>2, <2>3, <2>4, <2>5, <2>6, <2>7
<1>5. ASSUME NEW name, NEW args, NEW U, Plain(U), name # "concat"
      PROVE  Plain(Append(U, Filter(name, args)))
  BY <1>5, PlainAppend
<1>6. ASSUME NEW vv, NEW aa, NEW nn, NEW ss, Plain(vv), Plain(aa), nn \in Nat,
             go' = [video |-> vv, audio |-> aa, concat |-> nn, seek |-> ss]
      PROVE  Collected
  BY <1>6
<1> SUFFICES Collected
  OBVIOUS
<1> HIDE DEF Collected
<1>7. CASE o.op = "concat" /\ go' = [video |-> v, audio |-> a, concat |-> n + Texts(o), seek |-> s]
  BY <1>1, <1>3, <1>6, <1>7
<1>8. CASE go' = [video |-> v, audio |-> a, concat |-> n, seek |-> <<o.start, o.end - o.start>>]
  BY <1>1, <1>6, <1>8
<1>9. ASSUME NEW name, NEW args, name # "concat", Grown(name, args)
      PROVE  Collected
  BY <1>5, <1>1, <1>6, <1>9
<1> HIDE DEF Grown
<1>10. CASE \E name, args : name # "concat" /\ Grown(name, args)
  BY <1>9, <1>10
<1>11. CASE go' = go
  BY <1>1, <1>6, <1>11
<1> QED BY <1>4, <1>7, <1>8, <1>10, <1>11

\* Every step keeps what was collected so.
LEMMA BuildStep == BuildInv /\ [Next]_vars => BuildInv'
<1> SUFFICES ASSUME BuildInv, [Next]_vars PROVE BuildInv'
  OBVIOUS
<1>1. CASE UNCHANGED argvVars
  BY <1>1 DEF argvVars, BuildInv, Met
<1>2. CASE Visit
  <2>1. at \in 0 .. Len(plan) /\ at # Len(plan) /\ at' = at + 1 /\ UNCHANGED <<plan, checked, source>>
    BY <1>2 DEF Visit, Built, BuildInv
  <2>2. at + 1 \in DOMAIN plan
    BY <2>1 DEF BuildInv
  <2>3. Met(plan[at + 1])
    BY <2>2 DEF BuildInv
  <2>4. at' \in 0 .. Len(plan')
    BY <2>1, <2>2 DEF BuildInv
  <2>5. \A i \in DOMAIN plan' : Met(plan[i])'
    BY <2>1 DEF BuildInv, Met
  <2>6. /\ py'.has_video \in BOOLEAN /\ py'.has_audio \in BOOLEAN
        /\ py'.concat \in Nat
        /\ Plain(py'.video) /\ Plain(py'.audio)
    <3>1. CASE checked
      <4>1. plan[at + 1] \in Operations /\ SchemaOK(plan[at + 1]) /\ py' = PyVisit(py, plan[at + 1])
        BY <1>2, <2>3, <3>1 DEF Met, Visit
      <4> QED BY <4>1, PyTurn
    <3>2. CASE ~checked
      BY <1>2, <3>2 DEF Visit, BuildInv
    <3> QED BY <3>1, <3>2
  <2>7. /\ go'.concat \in Nat
        /\ Plain(go'.video) /\ Plain(go'.audio)
        /\ go' = [video |-> go'.video, audio |-> go'.audio, concat |-> go'.concat, seek |-> go'.seek]
    BY <1>2, <2>3, GoTurn DEF Visit
  <2> QED BY <2>1, <2>4, <2>5, <2>6, <2>7 DEF BuildInv
<1> QED BY <1>1, <1>2 DEF Next, vars, Build, Ffmpeg, FfmpegFails, Await, Stream, Stop

\* What both builders put together from it is closed.
LEMMA CommandsClosed ==
    ASSUME BuildInv
    PROVE  Closed(PyCommand(py)) /\ Closed(GoCommand(go))
<1> USE DEF BuildInv
<1>1. Closed(PyCommand(py))
  <2>1. CASE py.concat > 0
    BY <2>1, JoinClosed DEF PyCommand
  <2>2. CASE ~(py.concat > 0)
    BY <2>2, ChainsClosed DEF PyCommand
  <2> QED BY <2>1, <2>2
<1>2. Closed(GoCommand(go))
  <2>1. CASE go.concat > 0
    BY <2>1, JoinClosed DEF GoCommand
  <2>2. CASE ~(go.concat > 0)
    <3> DEFINE u == go.video # <<>>
               w == go.audio # <<>>
    <3>1. go.concat = 0
      BY <2>2
    <3>2. GoCommand(go) = [inputs |-> 1,
                           graph |-> (IF u THEN <<Chain("v", go.video)>> ELSE <<>>)
                                     \o (IF w THEN <<Chain("a", go.audio)>> ELSE <<>>),
                           maps |-> (IF u THEN <<"v">> ELSE <<>>) \o (IF w THEN <<"a">> ELSE <<>>),
                           seek |-> go.seek]
      BY <3>1 DEF GoCommand
    <3>3. u \in BOOLEAN /\ w \in BOOLEAN /\ Plain(go.video) /\ Plain(go.audio)
      OBVIOUS
    <3> HIDE DEF u, w, BuildInv
    <3> QED BY <3>2, <3>3, ChainsClosed
  <2> QED BY <2>1, <2>2
<1> QED BY <1>1, <1>2

\* However long the plan and whatever its operations, both builders end with a command
\* whose filter graph is closed (ffmpeg_run.py:74-98); and so does BuildArgv for a plan
\* that nobody verified (ffmpeg.go:75-113).
THEOREM CommandsResolve == SafeSpec => []LabelsResolve
<1>1. BuildInv => LabelsResolve
  BY CommandsClosed DEF LabelsResolve, Commands
<1> QED BY <1>1, BuildInit, BuildStep, PTL DEF SafeSpec

---------------------------------------------------------------------------
(* The tempo chains *)

\* One element before two.
LEMMA LongTogether == ASSUME NEW x, NEW y, NEW z PROVE <<x>> \o <<y, z>> = <<x, y, z>>
<1> DEFINE S == {x, y, z}
<1>1. <<x>> \in Seq(S) /\ <<y, z>> \in Seq(S) /\ <<x, y, z>> \in Seq(S)
  OBVIOUS
<1>2. <<x>> \o <<y, z>> \in Seq(S) /\ Len(<<x>> \o <<y, z>>) = 3
  BY <1>1
<1>3. \A i \in 1 .. 3 : (<<x>> \o <<y, z>>)[i] = <<x, y, z>>[i]
  BY <1>1
<1> QED BY <1>1, <1>2, <1>3, SeqEqual

\* The recursive function is what it says: of the tempos a factor can have, none is
\* halved more than twice.
LEMMA HalveUnfolds ==
    ASSUME NEW t \in Nat, t <= 8 * Unit
    PROVE  Halve[t] = IF t <= 2 * Unit THEN <<t>>
                      ELSE IF t <= 4 * Unit + 1 THEN <<2 * Unit, t \div 2>>
                      ELSE <<2 * Unit, 2 * Unit, t \div 4>>
<1> DEFINE w == 2 * Unit
           D == 0 .. 8 * Unit
           Short(u) == IF u <= w THEN <<u>> ELSE IF u <= 2 * w + 1 THEN <<w, u \div 2>>
                       ELSE <<w, w, u \div 4>>
           g == [u \in D |-> Short(u)]
<1>1. w \in Nat /\ D = 0 .. 4 * w /\ 4 * Unit = 2 * w
  BY DEF Unit
<1> HIDE DEF w, D
<1>2. \A u \in D : u \in Nat /\ u \div 2 \in D /\ u <= 4 * w
  <2>1. \A u \in Int : u \in D <=> 0 <= u /\ u <= 4 * w
    BY <1>1
  <2>2. \A u \in D : u \in Int /\ 0 <= u /\ u <= 4 * w
    BY <1>1
  <2>3. \A u \in D : u \div 2 \in Int /\ 0 <= u \div 2 /\ u \div 2 <= u
    BY <2>2
  <2>4. \A u \in D : u \in Nat /\ u \div 2 \in Int /\ 0 <= u \div 2 /\ u \div 2 <= 4 * w
    BY <1>1, <2>2, <2>3
  <2> TAKE u \in D
  <2> DEFINE h == u \div 2
  <2>5. u \in Nat /\ u <= 4 * w
    BY <2>2
  <2>6. h \in Int /\ 0 <= h /\ h <= 4 * w
    BY <2>4
  <2> HIDE DEF h
  <2>7. h \in D
    BY <2>1, <2>6
  <2> QED BY <2>5, <2>7 DEF h
<1>3. \A x, y : <<w>> \o <<x>> = <<w, x>> /\ <<w>> \o <<x, y>> = <<w, x, y>>
  BY ShortTogether, LongTogether, Zenon
<1>4. ASSUME NEW u \in Nat, u <= w PROVE Short(u) = <<u>>
  BY <1>4
<1>4a. ASSUME NEW u \in Nat, u > w, u <= 2 * w + 1 PROVE Short(u) = <<w, u \div 2>>
  <2>1. ~ (u <= w)
    BY <1>1, <1>4a
  <2> QED BY <1>4a, <2>1, Zenon
<1>4b. ASSUME NEW u \in Nat, u > 2 * w + 1 PROVE Short(u) = <<w, w, u \div 4>>
  <2>1. ~ (u <= w) /\ ~ (u <= 2 * w + 1)
    BY <1>1, <1>4b
  <2> QED BY <2>1, Zenon
<1>5. g = [u \in D |-> g[u]] /\ \A u \in D : g[u] = Short(u)
  OBVIOUS
<1> HIDE DEF Short, g
<1>6. ASSUME NEW u \in D
      PROVE  Short(u) = IF u > w THEN <<w>> \o Short(u \div 2) ELSE <<u>>
  <2>1. u \in Nat /\ u <= 4 * w /\ u \div 2 \in Nat
    BY <1>2
  <2>2. CASE u <= w
    <3>1. Short(u) = <<u>>
      BY <1>4, <2>1, <2>2
    <3>2. ~ (u > w)
      BY <1>1, <2>1, <2>2
    <3> QED BY <3>1, <3>2, Zenon
  <2>3. CASE u > w /\ u <= 2 * w + 1
    <3>1. u \div 2 <= w
      BY <1>1, <2>1, <2>3
    <3>2. Short(u \div 2) = <<u \div 2>>
      BY <1>4, <2>1, <3>1
    <3>3. Short(u) = <<w, u \div 2>>
      BY <1>4a, <2>1, <2>3
    <3>4. Short(u) = <<w>> \o Short(u \div 2)
      BY <1>3, <3>2, <3>3
    <3> QED BY <2>3, <3>4
  <2>4. CASE u > 2 * w + 1
    <3>1. u \div 4 = (u \div 2) \div 2 /\ u \div 2 > w /\ u \div 2 <= 2 * w + 1
      BY <1>1, <2>1, <2>4
    <3>2. Short(u \div 2) = <<w, u \div 4>>
      BY <1>4a, <2>1, <3>1
    <3>3. Short(u) = <<w, w, u \div 4>>
      BY <1>4b, <2>1, <2>4
    <3>4. Short(u) = <<w>> \o Short(u \div 2)
      BY <1>3, <3>2, <3>3
    <3>5. u > w
      BY <1>1, <2>1, <2>4
    <3> QED BY <3>4, <3>5
  <2>5. u <= w \/ (u > w /\ u <= 2 * w + 1) \/ u > 2 * w + 1
    BY <1>1, <2>1
  <2> QED BY <2>2, <2>3, <2>4, <2>5
<1>7. g = [u \in D |-> IF u > w THEN <<w>> \o g[u \div 2] ELSE <<u>>]
  <2>1. \A u \in D : g[u] = IF u > w THEN <<w>> \o g[u \div 2] ELSE <<u>>
    BY <1>2, <1>5, <1>6
  <2> QED BY <1>5, <2>1
<1>8. Halve = [u \in D |-> IF u > w THEN <<w>> \o Halve[u \div 2] ELSE <<u>>]
  BY <1>7, Zenon DEF Halve, D, w
<1>9. t \in D
  BY DEF D
<1>10. \A u \in D : Halve[u] = IF u > w THEN <<w>> \o Halve[u \div 2] ELSE <<u>>
  BY <1>8
<1>11. Halve[t] = Short(t)
  <2>1. ASSUME NEW u \in D, u <= w PROVE Halve[u] = Short(u)
    BY <1>1, <1>2, <1>6, <1>10, <2>1
  <2>2. ASSUME NEW u \in D, u <= 2 * w + 1 PROVE Halve[u] = Short(u)
    <3>1. CASE u > w
      <4>1. u \div 2 \in D /\ u \div 2 <= w
        BY <1>1, <1>2, <2>2
      <4> QED BY <1>6, <1>10, <2>1, <3>1, <4>1
    <3>2. u <= w \/ u > w
      BY <1>1, <1>2
    <3> QED BY <2>1, <3>1, <3>2
  <2>3. CASE t > 2 * w + 1
    <3>1. t \div 2 \in D /\ t \div 2 <= 2 * w + 1 /\ t > w
      BY <1>1, <1>2, <1>9, <2>3
    <3> QED BY <1>6, <1>9, <1>10, <2>2, <3>1
  <2>4. t > 2 * w + 1 \/ t <= 2 * w + 1
    BY <1>1
  <2> QED BY <1>9, <2>2, <2>3, <2>4
<1> QED BY <1>1, <1>11 DEF Short, w

\* BuildArgv's loop, written out.
LEMMA GoChain ==
    ASSUME NEW f \in Nat, f > 0, f <= 800
    PROVE  GoAtempoChain(f) = IF f < 50 THEN <<Unit \div 2, 200 * f>>
                              ELSE IF f <= 200 THEN <<100 * f>>
                              ELSE IF f <= 400 THEN <<2 * Unit, 50 * f>>
                              ELSE <<2 * Unit, 2 * Unit, 25 * f>>
<1> DEFINE t == 100 * f
           Times(k) == t <= 2 * Unit * 2^k /\ \A l \in 0 .. k - 1 : t > 2 * Unit * 2^l
           n == CHOOSE k \in 0 .. f : Times(k)
           rest == [i \in 1 .. n + 1 |-> IF i <= n THEN 2 * Unit ELSE t \div 2^n]
<1>1. 2^0 = 1 /\ 2^1 = 2 /\ 2^2 = 4
  BY SMT
<1>2. /\ Times(0) <=> f <= 200
      /\ Times(1) <=> f > 200 /\ f <= 400
      /\ Times(2) <=> f > 400
      /\ \A k \in 0 .. f : k > 2 => ~Times(k)
  <2>1. 0 .. 0 - 1 = {} /\ 0 .. 1 - 1 = {0} /\ 0 .. 2 - 1 = {0, 1}
    OBVIOUS
  <2>2. Times(0) <=> f <= 200
    BY <1>1, <2>1 DEF Unit
  <2>3. Times(1) <=> f > 200 /\ f <= 400
    BY <1>1, <2>1 DEF Unit
  <2>4. Times(2) <=> f > 400
    BY <1>1, <2>1 DEF Unit
  <2>5. ASSUME NEW k \in 0 .. f, k > 2 PROVE ~Times(k)
    <3>1. 2 \in 0 .. k - 1
      BY <2>5
    <3>2. ~ (t > 2 * Unit * 2^2)
      BY <1>1 DEF Unit
    <3> QED BY <3>1, <3>2
  <2> QED BY <2>2, <2>3, <2>4, <2>5
<1>3. GoAtempoChain(f) = IF f < 50 THEN <<Unit \div 2, 200 * f>> ELSE IF f <= 200 THEN <<100 * f>> ELSE rest
  <2>1. (t >= Unit \div 2 /\ t <= 2 * Unit <=> f >= 50 /\ f <= 200) /\ 2 * t = 200 * f
    BY DEF Unit
  <2>2. t < Unit \div 2 <=> f < 50
    BY DEF Unit
  <2>3. t > 2 * Unit <=> f > 200
    BY DEF Unit
  <2>4. f \in Int /\ (f < 50 \/ (f >= 50 /\ f <= 200) \/ f > 200)
    OBVIOUS
  <2>5. GoAtempoChain(f) = CASE t >= Unit \div 2 /\ t <= 2 * Unit -> <<t>>
                             [] t < Unit \div 2                   -> <<Unit \div 2, 2 * t>>
                             [] t > 2 * Unit                      -> rest
    BY Zenon DEF GoAtempoChain
  <2>6. t = 100 * f
    OBVIOUS
  <2> HIDE DEF rest, t
  <2>7. CASE f < 50
    BY <2>1, <2>2, <2>3, <2>5, <2>7
  <2>8. CASE f >= 50 /\ f <= 200
    <3>1. GoAtempoChain(f) = <<t>>
      BY <2>1, <2>2, <2>3, <2>5, <2>8
    <3> QED BY <2>6, <2>8, <3>1
  <2>9. CASE f > 200
    BY <2>1, <2>2, <2>3, <2>5, <2>9
  <2> QED BY <2>4, <2>7, <2>8, <2>9
<1> HIDE DEF Times, n
<1>4. CASE f > 200 /\ f <= 400
  <2>1. n = 1
    <3>1. 1 \in 0 .. f /\ Times(1)
      BY <1>2, <1>4
    <3>2. \A k \in 0 .. f : Times(k) => k = 1
      BY <1>2, <1>4
    <3> QED BY <3>1, <3>2 DEF n
  <2>2. rest = [i \in 1 .. 2 |-> IF i <= 1 THEN 2 * Unit ELSE 50 * f]
    BY <1>1, <2>1
  <2>3. rest = <<2 * Unit, 50 * f>>
    BY <2>2
  <2> HIDE DEF rest
  <2> QED BY <1>3, <1>4, <2>3
<1>5. CASE f > 400
  <2>1. n = 2
    <3>1. 2 \in 0 .. f /\ Times(2)
      BY <1>2, <1>5
    <3>2. \A k \in 0 .. f : Times(k) => k = 2
      BY <1>2, <1>5
    <3> QED BY <3>1, <3>2 DEF n
  <2>2. rest = [i \in 1 .. 3 |-> IF i <= 2 THEN 2 * Unit ELSE 25 * f]
    BY <1>1, <2>1
  <2>3. rest = <<2 * Unit, 2 * Unit, 25 * f>>
    BY <2>2
  <2> HIDE DEF rest
  <2> QED BY <1>3, <1>5, <2>3
<1> QED BY <1>3, <1>4, <1>5

\* The two tempo chains are the same, in every digit.
LEMMA ChainsAgree ==
    ASSUME NEW f \in Nat, f > 0, f <= 800
    PROVE  AtempoChain(f) = GoAtempoChain(f)
<1>1. CASE f < 50
  BY <1>1, GoChain DEF AtempoChain
<1>2. CASE f >= 50
  <2>1. 100 * f \in Nat /\ 100 * f <= 8 * Unit
    BY DEF Unit
  <2>2. (100 * f) \div 2 = 50 * f /\ (100 * f) \div 4 = 25 * f
    OBVIOUS
  <2>3. (100 * f <= 4 * Unit + 1 <=> f <= 400) /\ (100 * f <= 2 * Unit <=> f <= 200)
    BY DEF Unit
  <2>4. Halve[100 * f] = IF f <= 200 THEN <<100 * f>> ELSE IF f <= 400 THEN <<2 * Unit, 50 * f>>
                         ELSE <<2 * Unit, 2 * Unit, 25 * f>>
    BY <2>1, <2>2, <2>3, HalveUnfolds
  <2> QED BY <1>2, <2>4, GoChain DEF AtempoChain
<1> QED BY <1>1, <1>2

\* The product is what its recursive function says, wherever there is such a function.
LEMMA ProductIs ==
    ASSUME NEW s, NEW q,
           q = [i \in 0 .. Len(s) |-> IF i = 0 THEN Unit ELSE (q[i - 1] * s[i]) \div Unit]
    PROVE  \E p : /\ p = [i \in 0 .. Len(s) |-> IF i = 0 THEN Unit ELSE (p[i - 1] * s[i]) \div Unit]
                  /\ Product(s) = p[Len(s)]
<1> DEFINE F(r) == [i \in 0 .. Len(s) |-> IF i = 0 THEN Unit ELSE (r[i - 1] * s[i]) \div Unit]
           p == CHOOSE r : r = F(r)
<1>1. Product(s) = p[Len(s)]
  BY DEF Product
<1>2. q = F(q)
  OBVIOUS
<1> HIDE DEF F
<1>3. p = F(p)
  BY <1>2, Zenon
<1> HIDE DEF p
<1> QED BY <1>1, <1>3 DEF F

\* What is multiplied at stage i of a chain, with the product before it.
Stage(r, s, i) == (r[i - 1] * s[i]) \div Unit

\* The product of a chain of up to three stages.
LEMMA ProductUnfolds ==
    ASSUME NEW s, Len(s) \in 1 .. 3, NEW p1, NEW p2, NEW p3,
           p1 = (Unit * s[1]) \div Unit,
           Len(s) > 1 => p2 = (p1 * s[2]) \div Unit,
           Len(s) > 2 => p3 = (p2 * s[3]) \div Unit
    PROVE  Product(s) = IF Len(s) = 1 THEN p1 ELSE IF Len(s) = 2 THEN p2 ELSE p3
<1> DEFINE q == [i \in 0 .. Len(s) |-> IF i = 0 THEN Unit ELSE IF i = 1 THEN p1 ELSE IF i = 2 THEN p2 ELSE p3]
<1>1. /\ q = [i \in 0 .. Len(s) |-> q[i]]
      /\ q[0] = Unit /\ q[1] = p1
      /\ Len(s) > 1 => q[2] = p2
      /\ Len(s) > 2 => q[3] = p3
  OBVIOUS
<1> HIDE DEF q
<1>2. \A i \in 0 .. Len(s) : q[i] = IF i = 0 THEN Unit ELSE Stage(q, s, i)
  BY <1>1 DEF Stage
<1>3. q = [i \in 0 .. Len(s) |-> IF i = 0 THEN Unit ELSE Stage(q, s, i)]
  BY <1>1, <1>2
<1>4. PICK p : /\ p = [i \in 0 .. Len(s) |-> IF i = 0 THEN Unit ELSE Stage(p, s, i)]
               /\ Product(s) = p[Len(s)]
  <2>1. q = [i \in 0 .. Len(s) |-> IF i = 0 THEN Unit ELSE (q[i - 1] * s[i]) \div Unit]
    BY <1>3, Zenon DEF Stage
  <2> QED BY <2>1, ProductIs DEF Stage
<1>5. p[0] = Unit /\ \A i \in 1 .. Len(s) : p[i] = Stage(p, s, i)
  BY <1>4
<1>6. p[1] = p1
  BY <1>5 DEF Stage
<1>7. Len(s) > 1 => p[2] = p2
  BY <1>5, <1>6 DEF Stage
<1>8. Len(s) > 2 => p[3] = p3
  BY <1>5, <1>7 DEF Stage
<1> QED BY <1>4, <1>6, <1>7, <1>8

\* The stages of a tempo chain multiply to the factor, and lie in FFmpeg's range from
\* a factor of 0.25 on.
LEMMA TempoRealised ==
    ASSUME NEW f \in Nat, f > 0, f <= 800
    PROVE  /\ Product(AtempoChain(f)) = 100 * f
           /\ f >= 25 => \A i \in DOMAIN AtempoChain(f) :
                            AtempoChain(f)[i] >= Unit \div 2 /\ AtempoChain(f)[i] <= 2 * Unit
<1> DEFINE c == AtempoChain(f)
<1>1. c = IF f < 50 THEN <<Unit \div 2, 200 * f>>
          ELSE IF f <= 200 THEN <<100 * f>>
          ELSE IF f <= 400 THEN <<2 * Unit, 50 * f>>
          ELSE <<2 * Unit, 2 * Unit, 25 * f>>
  BY ChainsAgree, GoChain
<1> HIDE DEF c
<1>2. CASE f < 50
  <2>1. Len(c) = 2 /\ c[1] = Unit \div 2 /\ c[2] = 200 * f /\ DOMAIN c = 1 .. 2
    BY <1>1, <1>2
  <2>2. Unit \div 2 = (Unit * c[1]) \div Unit /\ 100 * f = ((Unit \div 2) * c[2]) \div Unit
    BY <2>1 DEF Unit
  <2>3. Product(c) = 100 * f
    <3> HIDE DEF Unit
    <3>1. ASSUME NEW p1, NEW p2, p1 = (Unit * c[1]) \div Unit, p2 = (p1 * c[2]) \div Unit
          PROVE  Product(c) = p2
      <4>1. Len(c) \in 1 .. 3 /\ Len(c) = 2 /\ ~ (Len(c) = 1) /\ ~ (Len(c) > 2)
        BY <2>1
      <4> QED BY <3>1, <4>1, ProductUnfolds
    <3> QED BY <2>2, <3>1, Zenon
  <2>4. f >= 25 => 200 * f >= Unit \div 2 /\ 200 * f <= 2 * Unit /\ Unit \div 2 >= Unit \div 2 /\ Unit \div 2 <= 2 * Unit
    BY <1>2 DEF Unit
  <2> QED BY <2>1, <2>3, <2>4 DEF c
<1>3. CASE f >= 50 /\ f <= 200
  <2>1. Len(c) = 1 /\ c[1] = 100 * f /\ DOMAIN c = 1 .. 1
    BY <1>1, <1>3
  <2>2. 100 * f = (Unit * c[1]) \div Unit
    BY <2>1 DEF Unit
  <2>3. Product(c) = 100 * f
    <3> HIDE DEF Unit
    <3>1. \A p1 : p1 = (Unit * c[1]) \div Unit => Product(c) = p1
      BY <2>1, ProductUnfolds
    <3> QED BY <2>2, <3>1, Zenon
  <2>4. 100 * f >= Unit \div 2 /\ 100 * f <= 2 * Unit
    BY <1>3 DEF Unit
  <2> QED BY <2>1, <2>3, <2>4 DEF c
<1>4. CASE f > 200 /\ f <= 400
  <2>1. Len(c) = 2 /\ c[1] = 2 * Unit /\ c[2] = 50 * f /\ DOMAIN c = 1 .. 2
    BY <1>1, <1>4
  <2>2. 2 * Unit = (Unit * c[1]) \div Unit /\ 100 * f = ((2 * Unit) * c[2]) \div Unit
    BY <2>1 DEF Unit
  <2>3. Product(c) = 100 * f
    <3> HIDE DEF Unit
    <3>1. ASSUME NEW p1, NEW p2, p1 = (Unit * c[1]) \div Unit, p2 = (p1 * c[2]) \div Unit
          PROVE  Product(c) = p2
      <4>1. Len(c) \in 1 .. 3 /\ Len(c) = 2 /\ ~ (Len(c) = 1) /\ ~ (Len(c) > 2)
        BY <2>1
      <4> QED BY <3>1, <4>1, ProductUnfolds
    <3> QED BY <2>2, <3>1, Zenon
  <2>4. 50 * f >= Unit \div 2 /\ 50 * f <= 2 * Unit /\ 2 * Unit >= Unit \div 2 /\ 2 * Unit <= 2 * Unit
    BY <1>4 DEF Unit
  <2> QED BY <2>1, <2>3, <2>4 DEF c
<1>5. CASE f > 400
  <2>1. Len(c) = 3 /\ c[1] = 2 * Unit /\ c[2] = 2 * Unit /\ c[3] = 25 * f /\ DOMAIN c = 1 .. 3
    BY <1>1, <1>5
  <2>2. /\ 2 * Unit = (Unit * c[1]) \div Unit
        /\ 4 * Unit = ((2 * Unit) * c[2]) \div Unit
        /\ 100 * f = ((4 * Unit) * c[3]) \div Unit
    BY <2>1 DEF Unit
  <2>3. Product(c) = 100 * f
    <3> HIDE DEF Unit
    <3>1. ASSUME NEW p1, NEW p2, NEW p3, p1 = (Unit * c[1]) \div Unit,
                 p2 = (p1 * c[2]) \div Unit, p3 = (p2 * c[3]) \div Unit
          PROVE  Product(c) = p3
      <4>1. Len(c) \in 1 .. 3 /\ ~ (Len(c) = 1) /\ ~ (Len(c) = 2)
        BY <2>1
      <4> QED BY <3>1, <4>1, ProductUnfolds
    <3> QED BY <2>2, <3>1, Zenon
  <2>4. 25 * f >= Unit \div 2 /\ 25 * f <= 2 * Unit /\ 2 * Unit >= Unit \div 2 /\ 2 * Unit <= 2 * Unit
    BY <1>5 DEF Unit
  <2> QED BY <2>1, <2>3, <2>4 DEF c
<1> QED BY <1>2, <1>3, <1>4, <1>5

---------------------------------------------------------------------------
(* The two loops collect the same *)

\* A plain sequence as the two languages grow it.
LEMMA PlainGrows ==
    ASSUME NEW V, Plain(V)
    PROVE  /\ V \o <<>> = V
           /\ \A f : V \o <<f>> = Append(V, f) /\ V \o <<f>> # <<>>
<1>1. PICK S : V \in Seq(S)
  BY DEF Plain
<1>2. ASSUME NEW f PROVE V \o <<f>> = Append(V, f) /\ V \o <<f>> # <<>>
  <2> DEFINE T == S \cup {f}
  <2>1. V \in Seq(T) /\ f \in T
    BY <1>1, SeqMonotonic
  <2> QED BY <2>1, AppendIsConcat, AppendProperties
<1>3. V \o <<>> = V
  BY <1>1, ConcatEmptySeq
<1> QED BY <1>2, <1>3

\* One turn of BuildArgv's loop adds what one of build_argv's does.
LEMMA GoVisits ==
    ASSUME BuildInv, NEW o \in Operations, SchemaOK(o)
    PROVE  GoVisit(go, o) =
              [video  |-> go.video \o VideoFilters(o),
               audio  |-> go.audio \o AudioFilters(o),
               concat |-> go.concat + (IF o.op = "concat" THEN o.inputs ELSE 0),
               seek   |-> IF o.op = "trim" THEN <<o.start, o.end - o.start>> ELSE go.seek]
<1> DEFINE v == go.video  a == go.audio  n == go.concat  s == go.seek
           more == IF o.op = "concat" THEN o.inputs ELSE 0
           seek == IF o.op = "trim" THEN <<o.start, o.end - o.start>> ELSE s
           new == GoVisit(go, o)
<1>1. go = [video |-> v, audio |-> a, concat |-> n, seek |-> s] /\ n \in Nat /\ Plain(v) /\ Plain(a)
  BY DEF BuildInv
<1>2. o.op \in {"cut", "trim", "fade_in", "fade_out", "speed", "volume", "resize", "concat"}
  BY DEF Operations
<1>3. v \o <<>> = v /\ a \o <<>> = a /\ n + 0 = n
  BY <1>1, PlainGrows
<1>4. \A f : v \o <<f>> = Append(v, f) /\ a \o <<f>> = Append(a, f)
  BY <1>1, PlainGrows
<1> HIDE DEF v, a, n, s
<1> SUFFICES new = [video |-> v \o VideoFilters(o), audio |-> a \o AudioFilters(o),
                    concat |-> n + more, seek |-> seek]
  BY DEF v, a, n, s
<1>5. CASE o.op = "trim"
  <2>1. new = [video |-> v, audio |-> a, concat |-> n, seek |-> <<o.start, o.end - o.start>>]
    BY <1>1, <1>5 DEF GoVisit
  <2>2. VideoFilters(o) = <<>> /\ AudioFilters(o) = <<>> /\ more = 0 /\ seek = <<o.start, o.end - o.start>>
    BY <1>5 DEF VideoFilters, AudioFilters
  <2> HIDE DEF new, more, seek
  <2> QED BY <1>3, <2>1, <2>2
<1>6. CASE o.op = "concat"
  <2>1. new = [video |-> v, audio |-> a, concat |-> n + o.inputs, seek |-> s]
    <3>1. Texts(o) = o.inputs
      BY <1>6, TextsAre
    <3> QED BY <1>1, <1>6, <3>1 DEF GoVisit
  <2>2. VideoFilters(o) = <<>> /\ AudioFilters(o) = <<>> /\ more = o.inputs /\ seek = s
    BY <1>6 DEF VideoFilters, AudioFilters
  <2> HIDE DEF new, more, seek
  <2> QED BY <1>3, <2>1, <2>2
<1>7. CASE o.op = "cut"
  <2>1. new = [video |-> Append(v, Filter("select", <<o.start, o.end>>)),
               audio |-> Append(a, Filter("aselect", <<o.start, o.end>>)), concat |-> n, seek |-> s]
    BY <1>1, <1>7 DEF GoVisit
  <2>2. /\ VideoFilters(o) = <<Filter("select", <<o.start, o.end>>)>>
        /\ AudioFilters(o) = <<Filter("aselect", <<o.start, o.end>>)>>
        /\ more = 0 /\ seek = s
    BY <1>7 DEF VideoFilters, AudioFilters
  <2> HIDE DEF new, more, seek
  <2> QED BY <1>3, <1>4, <2>1, <2>2
<1>8. CASE o.op = "speed"
  <2>1. AtempoChain(o.factor) = GoAtempoChain(o.factor)
    <3>1. o.factor \in Int /\ o.factor > 0 /\ o.factor <= 800
      BY <1>8 DEF SchemaOK, Operations
    <3> QED BY <3>1, ChainsAgree
  <2>2. new = [video |-> Append(v, Filter("setpts", <<o.factor>>)),
               audio |-> Append(a, Filter("atempo", GoAtempoChain(o.factor))), concat |-> n, seek |-> s]
    BY <1>1, <1>8 DEF GoVisit
  <2>3. /\ VideoFilters(o) = <<Filter("setpts", <<o.factor>>)>>
        /\ AudioFilters(o) = <<Filter("atempo", AtempoChain(o.factor))>>
        /\ more = 0 /\ seek = s
    BY <1>8 DEF VideoFilters, AudioFilters
  <2> HIDE DEF new, more, seek
  <2> QED BY <1>3, <1>4, <2>1, <2>2, <2>3
<1>9. CASE o.op = "volume"
  <2>1. new = [video |-> v, audio |-> Append(a, Filter("volume", <<o.factor>>)), concat |-> n, seek |-> s]
    BY <1>1, <1>9 DEF GoVisit
  <2>2. /\ VideoFilters(o) = <<>>
        /\ AudioFilters(o) = <<Filter("volume", <<o.factor>>)>>
        /\ more = 0 /\ seek = s
    BY <1>9 DEF VideoFilters, AudioFilters
  <2> HIDE DEF new, more, seek
  <2> QED BY <1>3, <1>4, <2>1, <2>2
<1>10. CASE o.op \in {"fade_in", "fade_out", "resize"}
  <2>1. \E name, args : /\ new = [video |-> Append(v, Filter(name, args)), audio |-> a,
                                  concat |-> n, seek |-> s]
                        /\ VideoFilters(o) = <<Filter(name, args)>>
    BY <1>1, <1>10 DEF GoVisit, VideoFilters
  <2>2. AudioFilters(o) = <<>> /\ more = 0 /\ seek = s
    BY <1>10 DEF AudioFilters
  <2> HIDE DEF new, more, seek
  <2> QED BY <1>3, <1>4, <2>1, <2>2
<1> QED BY <1>2, <1>5, <1>6, <1>7, <1>8, <1>9, <1>10

\* What the two loops have in common after every turn over a plan of the planner's.
Alike == checked =>
    /\ py.video = go.video /\ py.audio = go.audio
    /\ py.concat = go.concat /\ py.seek = go.seek
    /\ py.has_video <=> py.video # <<>>
    /\ py.has_audio <=> py.audio # <<>>

\* They start alike.
LEMMA AlikeInit == Init => Alike
BY DEF Init, ArgvInit, Alike, PyEmpty, GoEmpty

\* And stay so.
LEMMA AlikeStep == BuildInv /\ Alike /\ [Next]_vars => Alike'
<1> SUFFICES ASSUME BuildInv, Alike, [Next]_vars PROVE Alike'
  OBVIOUS
<1>1. CASE UNCHANGED argvVars
  BY <1>1 DEF argvVars, Alike
<1>2. CASE Visit /\ ~checked
  BY <1>2 DEF Visit, Alike
<1>3. CASE Visit /\ checked
  <2> DEFINE o == plan[at + 1]
  <2>1. o \in Operations /\ SchemaOK(o) /\ py' = PyVisit(py, o) /\ go' = GoVisit(go, o)
    <3>1. at + 1 \in DOMAIN plan
      BY <1>3 DEF Visit, Built, BuildInv
    <3>2. plan[at + 1] \in Operations /\ SchemaOK(plan[at + 1])
      BY <1>3, <3>1 DEF BuildInv, Met
    <3>3. py' = PyVisit(py, plan[at + 1]) /\ go' = GoVisit(go, plan[at + 1])
      BY <1>3 DEF Visit
    <3> QED BY <3>2, <3>3
  <2> HIDE DEF o
  <2>2. /\ go'.video = go.video \o VideoFilters(o)
        /\ go'.audio = go.audio \o AudioFilters(o)
        /\ go'.concat = go.concat + (IF o.op = "concat" THEN o.inputs ELSE 0)
        /\ go'.seek = IF o.op = "trim" THEN <<o.start, o.end - o.start>> ELSE go.seek
    BY <2>1, GoVisits
  <2>3. /\ py'.video = py.video \o VideoFilters(o)
        /\ py'.audio = py.audio \o AudioFilters(o)
        /\ py'.concat = py.concat + (IF o.op = "concat" THEN o.inputs ELSE 0)
        /\ py'.seek = IF o.op = "trim" THEN <<o.start, o.end - o.start>> ELSE py.seek
        /\ py'.has_video <=> py.has_video \/ o.op \in {"cut", "fade_in", "fade_out", "speed", "resize"}
        /\ py'.has_audio <=> py.has_audio \/ o.op \in {"cut", "speed", "volume"}
    BY <2>1 DEF PyVisit
  <2>4. py'.has_video <=> py'.video # <<>>
    <3>1. CASE o.op \in {"cut", "fade_in", "fade_out", "speed", "resize"}
      <4>1. \E f : VideoFilters(o) = <<f>>
        BY <3>1 DEF VideoFilters
      <4> QED BY <2>3, <3>1, <4>1, PlainGrows DEF BuildInv
    <3>2. CASE o.op \notin {"cut", "fade_in", "fade_out", "speed", "resize"}
      <4>1. VideoFilters(o) = <<>>
        BY <3>2 DEF VideoFilters
      <4> QED BY <1>3, <2>3, <3>2, <4>1, PlainGrows DEF BuildInv, Alike
    <3> QED BY <3>1, <3>2
  <2>5. py'.has_audio <=> py'.audio # <<>>
    <3>1. CASE o.op \in {"cut", "speed", "volume"}
      <4>1. \E f : AudioFilters(o) = <<f>>
        BY <3>1 DEF AudioFilters
      <4> QED BY <2>3, <3>1, <4>1, PlainGrows DEF BuildInv
    <3>2. CASE o.op \notin {"cut", "speed", "volume"}
      <4>1. AudioFilters(o) = <<>>
        BY <3>2 DEF AudioFilters
      <4> QED BY <1>3, <2>3, <3>2, <4>1, PlainGrows DEF BuildInv, Alike
    <3> QED BY <3>1, <3>2
  <2>6. checked
    BY <1>3
  <2>7. /\ py'.video = go'.video /\ py'.audio = go'.audio
        /\ py'.concat = go'.concat /\ py'.seek = go'.seek
    BY <2>2, <2>3, <2>6 DEF Alike
  <2> QED BY <2>4, <2>5, <2>7 DEF Alike
<1> QED BY <1>1, <1>2, <1>3 DEF Next, vars, Build, Ffmpeg, FfmpegFails, Await, Stream, Stop

\* Alike collections make the same command.
LEMMA AlikeCommands ==
    ASSUME BuildInv, Alike, checked
    PROVE  PyCommand(py) = GoCommand(go)
<1>1. CASE py.concat > 0
  BY <1>1 DEF PyCommand, GoCommand, Alike
<1>2. CASE ~ (py.concat > 0)
  <2>1. go.concat = 0
    BY <1>2 DEF Alike, BuildInv
  <2> DEFINE v == go.video # <<>>
             a == go.audio # <<>>
             graph == (IF v THEN <<Chain("v", go.video)>> ELSE <<>>)
                      \o (IF a THEN <<Chain("a", go.audio)>> ELSE <<>>)
             maps == (IF v THEN <<"v">> ELSE <<>>) \o (IF a THEN <<"a">> ELSE <<>>)
             c == [inputs |-> 1, graph |-> graph, maps |-> maps, seek |-> go.seek]
  <2>2. GoCommand(go) = c
    <3>1. 1 + go.concat = 1 /\ ~ (go.concat > 0)
      BY <2>1
    <3> QED BY <3>1, Zenon DEF GoCommand
  <2>3. (py.has_video <=> v) /\ (py.has_audio <=> a)
    BY DEF Alike
  <2>4. py.seek = go.seek /\ py.video = go.video /\ py.audio = go.audio
    BY DEF Alike
  <2> HIDE DEF v, a
  <2>5. PyCommand(py) = c
    BY <1>2, <2>3, <2>4, Zenon DEF PyCommand
  <2> QED BY <2>2, <2>5
<1> QED BY <1>1, <1>2

\* For every plan that was verified, the two loops collect the same filters turn by turn,
\* tempo chains included, and end in the same command (ffmpeg.go:26-28).
THEOREM LoopsAgree == SafeSpec => []BuildersAgree
<1>1. BuildInv /\ Alike => BuildersAgree
  BY AlikeCommands DEF BuildersAgree, Alike
<1> QED BY <1>1, BuildInit, BuildStep, AlikeInit, AlikeStep, PTL DEF SafeSpec

---------------------------------------------------------------------------
(* The chains follow the plan *)

\* The operations that show in the picture, and in the sound.
Seen  == {"cut", "fade_in", "fade_out", "speed", "resize"}
Heard == {"cut", "speed", "volume"}

\* An operation of another kind changes nothing.
LEMMA InStepSkips ==
    ASSUME NEW V, NEW K, NEW n \in Nat, InStep(V, K, n), plan[n + 1].op \notin K
    PROVE  InStep(V, K, n + 1)
<1>1. PICK pos \in [DOMAIN V -> 1 .. n] :
         /\ \A i, j \in DOMAIN V : i < j => pos[i] < pos[j]
         /\ {pos[i] : i \in DOMAIN V} = {k \in 1 .. n : plan[k].op \in K}
         /\ \A i \in DOMAIN V : Realises(V[i], plan[pos[i]])
  BY DEF InStep
<1>2. pos \in [DOMAIN V -> 1 .. n + 1]
  BY <1>1
<1>3. {k \in 1 .. n : plan[k].op \in K} = {k \in 1 .. n + 1 : plan[k].op \in K}
  OBVIOUS
<1> QED BY <1>1, <1>2, <1>3, Zenon DEF InStep

\* One of these kinds adds its filter at the end.
LEMMA InStepGrows ==
    ASSUME NEW S, NEW V \in Seq(S), NEW K, NEW n \in Nat, InStep(V, K, n), plan[n + 1].op \in K,
           NEW f, Realises(f, plan[n + 1])
    PROVE  InStep(Append(V, f), K, n + 1)
<1>1. PICK pos \in [DOMAIN V -> 1 .. n] :
         /\ \A i, j \in DOMAIN V : i < j => pos[i] < pos[j]
         /\ {pos[i] : i \in DOMAIN V} = {k \in 1 .. n : plan[k].op \in K}
         /\ \A i \in DOMAIN V : Realises(V[i], plan[pos[i]])
  BY DEF InStep
<1> DEFINE W == Append(V, f)
           l == Len(V)
           new == [i \in DOMAIN W |-> IF i = l + 1 THEN n + 1 ELSE pos[i]]
<1>2. /\ DOMAIN V = 1 .. l /\ l \in Nat
      /\ DOMAIN W = 1 .. l + 1
      /\ W[l + 1] = f
      /\ \A i \in 1 .. l : W[i] = V[i]
  <2>1. V \in Seq(S \cup {f}) /\ f \in S \cup {f}
    BY SeqMonotonic
  <2> QED BY <2>1, AppendProperties
<1>3. /\ new[l + 1] = n + 1
      /\ \A i \in 1 .. l : new[i] = pos[i]
      /\ \A i \in 1 .. l : pos[i] \in 1 .. n
      /\ new \in [DOMAIN W -> 1 .. n + 1]
  <2> HIDE DEF W, l
  <2>1. \A i \in 1 .. l : pos[i] \in 1 .. n
    BY <1>1, <1>2
  <2>2. \A i \in 1 .. l : i \in DOMAIN W /\ i # l + 1
    BY <1>2
  <2>3. new[l + 1] = n + 1 /\ \A i \in 1 .. l : new[i] = pos[i]
    BY <1>2, <2>2
  <2>4. \A i \in DOMAIN W : new[i] \in 1 .. n + 1
    BY <1>2, <2>1, <2>3
  <2> QED BY <2>1, <2>3, <2>4
<1>4. DOMAIN W = DOMAIN V \cup {l + 1}
  BY <1>2
<1> HIDE DEF W, l, new
<1>5. \A i, j \in DOMAIN W : i < j => new[i] < new[j]
  <2> TAKE i, j \in DOMAIN W
  <2> HAVE i < j
  <2>1. i \in 1 .. l /\ j \in 1 .. l + 1
    BY <1>2
  <2>2. CASE j = l + 1
    BY <1>3, <2>1, <2>2
  <2>3. CASE j # l + 1
    <3>1. j \in 1 .. l
      BY <1>2, <2>1, <2>3
    <3> QED BY <1>1, <1>2, <1>3, <2>1, <3>1
  <2> QED BY <2>2, <2>3
<1>6. {new[i] : i \in DOMAIN W} = {k \in 1 .. n + 1 : plan[k].op \in K}
  <2>1. {new[i] : i \in DOMAIN W} = {pos[i] : i \in DOMAIN V} \cup {n + 1}
    BY <1>2, <1>3, <1>4
  <2>2. {k \in 1 .. n + 1 : plan[k].op \in K} = {k \in 1 .. n : plan[k].op \in K} \cup {n + 1}
    OBVIOUS
  <2> QED BY <1>1, <2>1, <2>2
<1>7. \A i \in DOMAIN W : Realises(W[i], plan[new[i]])
  BY <1>1, <1>2, <1>3, <1>4
<1>8. InStep(W, K, n + 1)
  BY <1>3, <1>5, <1>6, <1>7, Zenon DEF InStep
<1> QED BY <1>8 DEF W

\* The filters of an operation do what it asks for.
LEMMA FiltersRealise ==
    ASSUME NEW o \in Operations, SchemaOK(o)
    PROVE  /\ o.op \in Seen => \E f : VideoFilters(o) = <<f>> /\ Realises(f, o)
           /\ o.op \in Heard => \E f : AudioFilters(o) = <<f>> /\ Realises(f, o)
           /\ o.op \notin Seen => VideoFilters(o) = <<>>
           /\ o.op \notin Heard => AudioFilters(o) = <<>>
<1>1. ASSUME NEW name, NEW args
      PROVE  Filter(name, args).name = name /\ Filter(name, args).args = args
  BY DEF Filter
<1>2. CASE o.op = "cut"
  <2>1. /\ Realises(Filter("select", <<o.start, o.end>>), o)
        /\ Realises(Filter("aselect", <<o.start, o.end>>), o)
    BY <1>1, <1>2 DEF Realises
  <2> QED BY <1>2, <2>1 DEF VideoFilters, AudioFilters, Seen, Heard
<1>3. CASE o.op \in {"fade_in", "fade_out"}
  <2>1. Realises(Filter(o.op, <<o.at, o.duration>>), o)
    BY <1>1, <1>3 DEF Realises
  <2> QED BY <1>3, <2>1 DEF VideoFilters, AudioFilters, Seen, Heard
<1>4. CASE o.op = "resize"
  <2>1. Realises(Filter("scale", <<o.width, o.height>>), o)
    BY <1>1, <1>4 DEF Realises
  <2> QED BY <1>4, <2>1 DEF VideoFilters, AudioFilters, Seen, Heard
<1>5. CASE o.op = "volume"
  <2>1. Realises(Filter("volume", <<o.factor>>), o)
    BY <1>1, <1>5 DEF Realises
  <2> QED BY <1>5, <2>1 DEF VideoFilters, AudioFilters, Seen, Heard
<1>6. CASE o.op = "speed"
  <2>1. o.factor \in Nat /\ o.factor > 0 /\ o.factor <= 800
    BY <1>6 DEF SchemaOK, Operations
  <2>2. Realises(Filter("setpts", <<o.factor>>), o)
    BY <1>1, <1>6 DEF Realises
  <2>3. Realises(Filter("atempo", AtempoChain(o.factor)), o)
    <3> DEFINE f == Filter("atempo", AtempoChain(o.factor))
    <3>1. f.name = "atempo" /\ f.args = AtempoChain(o.factor)
      BY <1>1
    <3> HIDE DEF f
    <3>2. /\ Product(f.args) = 100 * o.factor
          /\ o.factor >= 25 => \A i \in DOMAIN f.args : f.args[i] >= Unit \div 2 /\ f.args[i] <= 2 * Unit
      BY <2>1, <3>1, TempoRealised
    <3>3. Realises(f, o)
      BY <1>6, <3>1, <3>2 DEF Realises
    <3> QED BY <3>3 DEF f
  <2> QED BY <1>6, <2>2, <2>3 DEF VideoFilters, AudioFilters, Seen, Heard
<1>7. CASE o.op \in {"trim", "concat"}
  BY <1>7 DEF VideoFilters, AudioFilters, Seen, Heard
<1> QED BY <1>2, <1>3, <1>4, <1>5, <1>6, <1>7 DEF Operations

\* What build_argv's loop has collected of the operations it has passed.
Followed == checked =>
    /\ InStep(py.video, Seen, at)
    /\ InStep(py.audio, Heard, at)
    /\ py.has_video <=> \E k \in 1 .. at : plan[k].op \in Seen
    /\ py.has_audio <=> \E k \in 1 .. at : plan[k].op \in Heard
    /\ py.concat > 0 <=> \E k \in 1 .. at : plan[k].op = "concat"
    /\ IF \E k \in 1 .. at : plan[k].op = "trim"
       THEN \E i \in 1 .. at :
               /\ plan[i].op = "trim" /\ \A j \in i + 1 .. at : plan[j].op # "trim"
               /\ py.seek = <<plan[i].start, plan[i].end - plan[i].start>>
       ELSE py.seek = <<>>

\* Nothing is collected of no operations.
LEMMA FollowedInit == Init => Followed
<1> SUFFICES ASSUME Init PROVE Followed
  OBVIOUS
<1>1. at = 0 /\ py = PyEmpty
  BY DEF Init, ArgvInit
<1>2. InStep(<<>>, Seen, 0) /\ InStep(<<>>, Heard, 0)
  <2>1. ASSUME NEW K PROVE InStep(<<>>, K, 0)
    <3> DEFINE pos == [i \in DOMAIN <<>> |-> 0]
    <3>1. DOMAIN <<>> = {} /\ 1 .. 0 = {}
      OBVIOUS
    <3>2. pos \in [DOMAIN <<>> -> 1 .. 0]
      BY <3>1
    <3>3. {pos[i] : i \in DOMAIN <<>>} = {k \in 1 .. 0 : plan[k].op \in K}
      BY <3>1
    <3> HIDE DEF pos
    <3> QED BY <3>1, <3>2, <3>3 DEF InStep
  <2> QED BY <2>1
<1>3. 1 .. at = {}
  BY <1>1
<1> QED BY <1>1, <1>2, <1>3 DEF Followed, PyEmpty

\* One turn of build_argv's loop keeps the filters in step with the plan.
LEMMA FollowedTurn ==
    ASSUME BuildInv, Followed, checked, NEW o \in Operations, SchemaOK(o), o = plan[at + 1],
           NEW V, V = py.video \o VideoFilters(o), NEW A, A = py.audio \o AudioFilters(o)
    PROVE  InStep(V, Seen, at + 1) /\ InStep(A, Heard, at + 1)
<1>1. at \in Nat
  BY DEF BuildInv
<1>2. PICK S : py.video \in Seq(S)
  BY DEF BuildInv, Plain
<1>3. PICK T : py.audio \in Seq(T)
  BY DEF BuildInv, Plain
<1>4. /\ \A f : py.video \o <<f>> = Append(py.video, f)
      /\ \A f : py.audio \o <<f>> = Append(py.audio, f)
      /\ py.video \o <<>> = py.video /\ py.audio \o <<>> = py.audio
  BY PlainGrows DEF BuildInv
<1>5. InStep(V, Seen, at + 1)
  <2>1. CASE o.op \in Seen
    <3>1. PICK f : VideoFilters(o) = <<f>> /\ Realises(f, o)
      BY <2>1, FiltersRealise
    <3>2. Realises(f, plan[at + 1]) /\ plan[at + 1].op \in Seen /\ InStep(py.video, Seen, at)
      BY <2>1, <3>1 DEF Followed
    <3>3. InStep(Append(py.video, f), Seen, at + 1)
      BY <1>1, <1>2, <3>2, InStepGrows
    <3>4. V = Append(py.video, f)
      BY <1>4, <3>1
    <3> QED BY <3>3, <3>4
  <2>2. CASE o.op \notin Seen
    <3>1. V = py.video
      BY <1>4, <2>2, FiltersRealise
    <3> QED BY <1>1, <2>2, <3>1, InStepSkips DEF Followed
  <2> QED BY <2>1, <2>2
<1>6. InStep(A, Heard, at + 1)
  <2>1. CASE o.op \in Heard
    <3>1. PICK f : AudioFilters(o) = <<f>> /\ Realises(f, o)
      BY <2>1, FiltersRealise
    <3>2. Realises(f, plan[at + 1]) /\ plan[at + 1].op \in Heard /\ InStep(py.audio, Heard, at)
      BY <2>1, <3>1 DEF Followed
    <3>3. InStep(Append(py.audio, f), Heard, at + 1)
      BY <1>1, <1>3, <3>2, InStepGrows
    <3>4. A = Append(py.audio, f)
      BY <1>4, <3>1
    <3> QED BY <3>3, <3>4
  <2>2. CASE o.op \notin Heard
    <3>1. A = py.audio
      BY <1>4, <2>2, FiltersRealise
    <3> QED BY <1>1, <2>2, <3>1, InStepSkips DEF Followed
  <2> QED BY <2>1, <2>2
<1> QED BY <1>5, <1>6

\* Every step keeps what was collected in step with the plan.
LEMMA FollowedStep == BuildInv /\ Followed /\ [Next]_vars => Followed'
<1> SUFFICES ASSUME BuildInv, Followed, [Next]_vars PROVE Followed'
  OBVIOUS
<1>1. CASE UNCHANGED argvVars
  <2>1. plan' = plan /\ at' = at /\ py' = py /\ checked' = checked
    BY <1>1 DEF argvVars
  <2>2. checked => InStep(py.video, Seen, at)' /\ InStep(py.audio, Heard, at)'
    BY <2>1 DEF Followed, InStep
  <2> QED BY <2>1, <2>2 DEF Followed
<1>2. CASE Visit /\ ~checked
  BY <1>2 DEF Visit, Followed
<1>3. CASE Visit /\ checked
  <2> DEFINE o == plan[at + 1]
  <2>1. plan' = plan /\ at' = at + 1 /\ at \in Nat
    BY <1>3 DEF Visit, BuildInv
  <2>2. o \in Operations /\ SchemaOK(o)
    <3>1. at + 1 \in DOMAIN plan
      BY <1>3 DEF Visit, Built, BuildInv
    <3> QED BY <1>3, <3>1 DEF BuildInv, Met
  <2>3. py' = PyVisit(py, o)
    BY <1>3 DEF Visit
  <2>4. 1 .. at' = (1 .. at) \cup {at + 1}
    BY <2>1
  <2>5. o = plan[at + 1]
    OBVIOUS
  <2> HIDE DEF o
  <2>6. /\ py'.video = py.video \o VideoFilters(o)
        /\ py'.audio = py.audio \o AudioFilters(o)
        /\ py'.concat = py.concat + (IF o.op = "concat" THEN o.inputs ELSE 0)
        /\ py'.seek = IF o.op = "trim" THEN <<o.start, o.end - o.start>> ELSE py.seek
        /\ py'.has_video <=> py.has_video \/ o.op \in Seen
        /\ py'.has_audio <=> py.has_audio \/ o.op \in Heard
    BY <2>3 DEF PyVisit, Seen, Heard
  <2>7. InStep(py'.video, Seen, at + 1) /\ InStep(py'.audio, Heard, at + 1)
    BY <1>3, <2>2, <2>5, <2>6, FollowedTurn
  <2>8. InStep(py.video, Seen, at)' /\ InStep(py.audio, Heard, at)'
    BY <2>1, <2>7 DEF InStep
  <2>9. /\ py'.has_video <=> \E k \in 1 .. at' : plan'[k].op \in Seen
        /\ py'.has_audio <=> \E k \in 1 .. at' : plan'[k].op \in Heard
    BY <1>3, <2>1, <2>4, <2>5, <2>6 DEF Followed
  <2>10. py'.concat > 0 <=> \E k \in 1 .. at' : plan'[k].op = "concat"
    <3>1. o.op = "concat" => o.inputs \in Nat /\ o.inputs > 0
      BY <2>2 DEF SchemaOK
    <3>2. py.concat \in Nat
      BY DEF BuildInv
    <3>3. py'.concat > 0 <=> py.concat > 0 \/ o.op = "concat"
      BY <2>6, <3>1, <3>2
    <3> QED BY <1>3, <2>1, <2>4, <2>5, <3>3 DEF Followed
  <2>11. IF \E k \in 1 .. at' : plan'[k].op = "trim"
         THEN \E i \in 1 .. at' :
                 /\ plan'[i].op = "trim" /\ \A j \in i + 1 .. at' : plan'[j].op # "trim"
                 /\ py'.seek = <<plan'[i].start, plan'[i].end - plan'[i].start>>
         ELSE py'.seek = <<>>
    <3>1. CASE o.op = "trim"
      <4>1. at + 1 \in 1 .. at' /\ (at + 1) + 1 .. at' = {}
        BY <2>1
      <4> QED BY <2>1, <2>5, <2>6, <3>1, <4>1
    <3>2. CASE o.op # "trim" /\ \E k \in 1 .. at : plan[k].op = "trim"
      <4>1. PICK i \in 1 .. at : /\ plan[i].op = "trim" /\ \A j \in i + 1 .. at : plan[j].op # "trim"
                                 /\ py.seek = <<plan[i].start, plan[i].end - plan[i].start>>
        BY <1>3, <3>2 DEF Followed
      <4>2. i \in 1 .. at' /\ \A j \in i + 1 .. at' : j \in i + 1 .. at \/ j = at + 1
        BY <2>1
      <4>3. py'.seek = <<plan[i].start, plan[i].end - plan[i].start>>
        BY <2>6, <3>2, <4>1
      <4>4. \A j \in i + 1 .. at' : plan[j].op # "trim"
        BY <2>5, <3>2, <4>1, <4>2
      <4> QED BY <2>1, <4>1, <4>2, <4>3, <4>4
    <3>3. CASE o.op # "trim" /\ ~ \E k \in 1 .. at : plan[k].op = "trim"
      <4>1. ~ \E k \in 1 .. at' : plan'[k].op = "trim"
        BY <2>1, <2>4, <2>5, <3>3
      <4>2. py'.seek = <<>>
        BY <1>3, <2>6, <3>3 DEF Followed
      <4> QED BY <4>1, <4>2
    <3> QED BY <3>1, <3>2, <3>3
  <2> QED BY <2>8, <2>9, <2>10, <2>11 DEF Followed
<1> QED BY <1>1, <1>2, <1>3 DEF Next, vars, Build, Ffmpeg, FfmpegFails, Await, Stream, Stop

\* The two elements of a pair.
LEMMA PairIs ==
    ASSUME NEW x, NEW y, NEW g, g = <<x, y>>
    PROVE  DOMAIN g = {1, 2} /\ g[1] = x /\ g[2] = y
OBVIOUS

\* The graph of a command without joins, and what is in it.
Laid(V, A, v, a) == (IF v THEN <<Chain("v", V)>> ELSE <<>>) \o (IF a THEN <<Chain("a", A)>> ELSE <<>>)
Holds(g, V, A, v, a) ==
    /\ \A k \in DOMAIN g : (v /\ g[k] = Chain("v", V)) \/ (a /\ g[k] = Chain("a", A))
    /\ v => \E k \in DOMAIN g : g[k] = Chain("v", V)
    /\ a => \E k \in DOMAIN g : g[k] = Chain("a", A)

\* The graph of a command without a concat: a chain for each stream that has filters.
LEMMA GraphIs ==
    ASSUME NEW V, NEW A, NEW v \in BOOLEAN, NEW a \in BOOLEAN, NEW g, g = Laid(V, A, v, a)
    PROVE  Holds(g, V, A, v, a)
<1> USE DEF Laid, Holds
<1>0. /\ \A x : DOMAIN <<x>> = {1} /\ <<x>>[1] = x
      /\ DOMAIN <<>> = {}
      /\ <<>> \o <<>> = <<>>
  OBVIOUS
<1>1. CASE v /\ a
  <2>1. g = <<Chain("v", V), Chain("a", A)>>
    BY <1>1, ShortTogether, Zenon
  <2>2. DOMAIN g = {1, 2} /\ g[1] = Chain("v", V) /\ g[2] = Chain("a", A)
    BY <2>1, PairIs
  <2>3. /\ \A k \in DOMAIN g : g[k] = Chain("v", V) \/ g[k] = Chain("a", A)
        /\ \E k \in DOMAIN g : g[k] = Chain("v", V)
        /\ \E k \in DOMAIN g : g[k] = Chain("a", A)
    <3>1. 1 \in DOMAIN g /\ 2 \in DOMAIN g /\ \A k \in DOMAIN g : k = 1 \/ k = 2
      BY <2>2
    <3> QED BY <2>2, <3>1, Zenon
  <2> QED BY <1>1, <2>3, Zenon
<1>2. CASE v /\ ~a
  <2>1. g = <<Chain("v", V)>>
    BY <1>2, ShortTogether, Zenon
  <2>2. DOMAIN g = {1} /\ g[1] = Chain("v", V)
    BY <1>0, <2>1, Zenon
  <2> QED BY <1>2, <2>2, Zenon
<1>3. CASE ~v /\ a
  <2>1. g = <<Chain("a", A)>>
    BY <1>3, ShortTogether, Zenon
  <2>2. DOMAIN g = {1} /\ g[1] = Chain("a", A)
    BY <1>0, <2>1, Zenon
  <2> QED BY <1>3, <2>2, Zenon
<1>4. CASE ~v /\ ~a
  <2>1. g = <<>>
    BY <1>0, <1>4, Zenon
  <2>2. DOMAIN g = {}
    BY <1>0, <2>1, Zenon
  <2> QED BY <1>4, <2>2, Zenon
<1> QED BY <1>1, <1>2, <1>3, <1>4

\* At the end build_argv's command carries the plan.
LEMMA CommandFollows ==
    ASSUME BuildInv, Followed, checked, Built, NEW c, c = PyCommand(py)
    PROVE  /\ ~Has("concat") => Carries(c, "v", Seen) /\ Carries(c, "a", Heard)
           /\ IF Has("trim")
              THEN \E i \in DOMAIN plan :
                      /\ plan[i].op = "trim" /\ \A j \in i + 1 .. Len(plan) : plan[j].op # "trim"
                      /\ c.seek = <<plan[i].start, plan[i].end - plan[i].start>>
              ELSE c.seek = <<>>
<1>1. DOMAIN plan = 1 .. at /\ Len(plan) = at
  BY DEF BuildInv, Built
<1>2. c.seek = py.seek
  BY DEF PyCommand
<1>3. ASSUME ~Has("concat") PROVE Carries(c, "v", Seen) /\ Carries(c, "a", Heard)
  <2> DEFINE V == py.video  A == py.audio  v == py.has_video  a == py.has_audio
  <2>1. ~ (py.concat > 0)
    BY <1>1, <1>3 DEF Has, Followed
  <2>2. c.graph = Laid(V, A, v, a)
    BY <2>1 DEF PyCommand, Laid
  <2>3. v \in BOOLEAN /\ a \in BOOLEAN
    BY DEF BuildInv
  <2>4. Holds(c.graph, V, A, v, a)
    <3> HIDE DEF V, A, v, a
    <3> QED BY <2>2, <2>3, GraphIs, Zenon
  <2>5. /\ Chain("v", V).to = {"v"} /\ Chain("v", V).filters = V
        /\ Chain("a", A).to = {"a"} /\ Chain("a", A).filters = A
    BY DEF Chain
  <2>6. /\ InStep(V, Seen, Len(plan)) /\ InStep(A, Heard, Len(plan))
        /\ v <=> \E k \in DOMAIN plan : plan[k].op \in Seen
        /\ a <=> \E k \in DOMAIN plan : plan[k].op \in Heard
    BY <1>1 DEF Followed
  <2> HIDE DEF V, A, v, a
  <2>7. Carries(c, "v", Seen)
    <3>1. CASE v
      <4>1. PICK k \in DOMAIN c.graph : c.graph[k] = Chain("v", V)
        BY <2>4, <3>1 DEF Holds
      <4>2. "v" \in c.graph[k].to /\ InStep(c.graph[k].filters, Seen, Len(plan))
        BY <2>5, <2>6, <4>1
      <4> QED BY <2>6, <3>1, <4>2 DEF Carries
    <3>2. CASE ~v
      <4>1. \A k \in DOMAIN c.graph : "v" \notin c.graph[k].to
        BY <2>4, <2>5, <3>2 DEF Holds
      <4> QED BY <2>6, <3>2, <4>1 DEF Carries
    <3> QED BY <3>1, <3>2
  <2>8. Carries(c, "a", Heard)
    <3>1. CASE a
      <4>1. PICK k \in DOMAIN c.graph : c.graph[k] = Chain("a", A)
        BY <2>4, <3>1 DEF Holds
      <4>2. "a" \in c.graph[k].to /\ InStep(c.graph[k].filters, Heard, Len(plan))
        BY <2>5, <2>6, <4>1
      <4> QED BY <2>6, <3>1, <4>2 DEF Carries
    <3>2. CASE ~a
      <4>1. \A k \in DOMAIN c.graph : "a" \notin c.graph[k].to
        BY <2>4, <2>5, <3>2 DEF Holds
      <4> QED BY <2>6, <3>2, <4>1 DEF Carries
    <3> QED BY <3>1, <3>2
  <2> QED BY <2>7, <2>8
<1> QED BY <1>1, <1>2, <1>3 DEF Has, Followed

\* For every plan that was verified, of whatever length, the chains of both commands carry
\* its operations in order, picture and sound in step, each speed with a tempo chain that
\* multiplies to it; and the seek is the last Trim's (ffmpeg_run.py:20-22).
THEOREM ChainsCarryPlan == SafeSpec => []ChainsFollowPlan
<1>1. BuildInv /\ Alike /\ Followed => ChainsFollowPlan
  <2> SUFFICES ASSUME BuildInv, Alike, Followed, Built, checked, NEW c \in Commands
               PROVE  /\ ~Has("concat") => Carries(c, "v", Seen) /\ Carries(c, "a", Heard)
                      /\ IF Has("trim")
                         THEN \E i \in DOMAIN plan :
                                 /\ plan[i].op = "trim" /\ \A j \in i + 1 .. Len(plan) : plan[j].op # "trim"
                                 /\ c.seek = <<plan[i].start, plan[i].end - plan[i].start>>
                         ELSE c.seek = <<>>
    BY DEF ChainsFollowPlan, Seen, Heard
  <2>1. c = PyCommand(py)
    BY AlikeCommands DEF Commands
  <2> QED BY <2>1, CommandFollows
<1> QED BY <1>1, BuildInit, BuildStep, AlikeInit, AlikeStep, FollowedInit, FollowedStep, PTL DEF SafeSpec
=============================================================================
