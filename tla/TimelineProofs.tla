--------------------------- MODULE TimelineProofs ---------------------------
(***************************************************************************)
(* What the page shows, for every number of submissions, every stream the  *)
(* server can send and every way the network cuts it into chunks or breaks *)
(* it off: the events of the last submission's stream and its verdict.     *)
(***************************************************************************)
EXTENDS TimelineUI, SequenceTheorems, WellFoundedInduction, TLAPS

\* Induction over the natural numbers, said of the set where a fact holds.
LEMMA SetInduction ==
    ASSUME NEW S, 0 \in S, \A n \in Nat : n \in S => n + 1 \in S
    PROVE  \A n \in Nat : n \in S
<1> DEFINE T == Nat \ S
<1> SUFFICES ASSUME T # {} PROVE FALSE
  OBVIOUS
<1>1. \E x \in T : \A y \in T : ~ (<<y, x>> \in OpToRel(<, Nat))
  <2>1. T \subseteq Nat
    OBVIOUS
  <2> HIDE DEF T
  <2> QED BY <2>1, WFMin, NatLessThanWellFounded
<1>2. PICK x \in T : \A y \in T : ~ (y < x)
  BY <1>1 DEF OpToRel
<1>3. x # 0 /\ x - 1 \in Nat /\ x - 1 \notin T
  BY <1>2
<1> QED BY <1>2, <1>3

---------------------------------------------------------------------------
(* Frames *)

\* after holds the job after each of the frames a + 1 .. b.
Along(after, k, j, a, b) ==
    /\ after[a] = j
    /\ \A i \in a + 1 .. b : after[i] = ApplyFrame(after[i - 1], Frame(k, i))
    /\ ApplyFrames(k, j, a, b) = after[b]

\* Applying frames one by one is what its recursive function says.
LEMMA ApplyFramesIs ==
    ASSUME NEW k, NEW j, NEW a \in Nat, NEW b \in Nat, a <= b
    PROVE  \E after : Along(after, k, j, a, b)
<1> DEFINE Next1(x, i) == ApplyFrame(x, Frame(k, i))
           F(r, n) == [i \in a .. n |-> IF i = a THEN j ELSE Next1(r[i - 1], i)]
           S == {n \in Nat : \E r : r = F(r, a + n)}
<1> HIDE DEF Next1
<1>1. 0 \in S
  <2> DEFINE r == [i \in a .. a + 0 |-> j]
  <2>1. \A i \in a .. a + 0 : i = a
    OBVIOUS
  <2>2. r = F(r, a + 0)
    BY <2>1
  <2> QED BY <2>2
<1>2. ASSUME NEW n \in Nat, n \in S PROVE n + 1 \in S
  <2>1. PICK r : r = F(r, a + n)
    BY <1>2
  <2> DEFINE m == a + (n + 1)
             new == [i \in a .. m |-> IF i = m THEN Next1(r[a + n], m) ELSE r[i]]
  <2>2. \A i \in a .. a + n : r[i] = IF i = a THEN j ELSE Next1(r[i - 1], i)
    BY <2>1
  <2>3. \A i \in a .. m : new[i] = IF i = a THEN j ELSE Next1(new[i - 1], i)
    <3> TAKE i \in a .. m
    <3>1. CASE i = m
      <4>1. i # a /\ i - 1 = a + n /\ i - 1 \in a .. m /\ i - 1 # m
        BY <3>1
      <4>2. new[i] = Next1(r[a + n], m) /\ new[i - 1] = r[a + n]
        BY <3>1, <4>1
      <4> QED BY <3>1, <4>1, <4>2
    <3>2. CASE i # m
      <4>1. i \in a .. a + n /\ new[i] = r[i]
        BY <3>2
      <4>2. CASE i = a
        BY <2>2, <4>1, <4>2
      <4>3. CASE i # a
        <5>1. i - 1 \in a .. m /\ i - 1 # m
          BY <3>2, <4>1, <4>3
        <5>2. new[i - 1] = r[i - 1]
          BY <5>1
        <5> QED BY <2>2, <4>1, <4>3, <5>2
      <4> QED BY <4>2, <4>3
    <3> QED BY <3>1, <3>2
  <2>4. new = [i \in a .. m |-> new[i]]
    OBVIOUS
  <2> HIDE DEF new
  <2>5. new = F(new, m)
    BY <2>3, <2>4
  <2> QED BY <2>5
<1>3. b - a \in S
  <2> HIDE DEF S
  <2>1. \A n \in Nat : n \in S
    BY <1>1, <1>2, SetInduction
  <2> QED BY <2>1
<1>4. PICK q : q = F(q, b)
  BY <1>3
<1> DEFINE after == CHOOSE r : r = F(r, b)
<1>5. ApplyFrames(k, j, a, b) = after[b]
  BY DEF ApplyFrames, Next1
<1> HIDE DEF F
<1>6. after = F(after, b)
  BY <1>4, Zenon
<1> HIDE DEF after
<1> USE DEF F
<1>7. after[a] = j
  BY <1>6
<1>8. \A i \in a + 1 .. b : after[i] = Next1(after[i - 1], i)
  BY <1>6
<1> QED BY <1>5, <1>7, <1>8 DEF Along, Next1

\* What job j shows of the first i frames of response k.
Shows(j, k, i) ==
    /\ j = [status |-> j.status, ops |-> j.ops, error |-> j.error, trace |-> j.trace]
    /\ j.trace = [m \in 1 .. i |-> Frame(k, m)]
    /\ j.ops \subseteq {<<k, m>> : m \in 0 .. i}
    /\ j.error \subseteq {<<k, m>> : m \in 0 .. i}
    /\ j.status = "ready" => \E m \in 1 .. i : trace[k][m] = "plan_ready"
    /\ j.status = "failed" => \E m \in 1 .. i : trace[k][m] = "plan_failed"
    /\ \A m \in 1 .. i : trace[k][m] = "plan_ready" =>
          j.status = "ready" /\ j.ops = {<<k, m>>} /\ j.error = {}
    /\ \A m \in 1 .. i : trace[k][m] = "plan_failed" =>
          j.status = "failed" /\ j.error = {<<k, m>>}

\* A stream of events as the server sends them.
Stream(t) == /\ t \in Seq(STRING)
             /\ \A i, j \in DOMAIN t : i < j /\ t[i] \in Verdicts => t[j] \notin Carrying

\* One frame more is shown.
LEMMA FrameShows ==
    ASSUME NEW k, Stream(trace[k]), NEW i \in Nat, i + 1 <= Len(trace[k]), NEW j, Shows(j, k, i)
    PROVE  Shows(ApplyFrame(j, Frame(k, i + 1)), k, i + 1)
<1> DEFINE n == i + 1
           f == Frame(k, n)
           e == trace[k][n]
           new == ApplyFrame(j, f)
           longer == Append(j.trace, f)
           Tags(h) == {<<k, m>> : m \in 0 .. h}
<1>1. f.event = e /\ f.data = (IF e \in Carrying THEN {<<k, n>>} ELSE {})
  BY DEF Frame
<1>2. longer = [m \in 1 .. n |-> Frame(k, m)]
  <2> DEFINE S == {Frame(k, m) : m \in 1 .. n}
             old == [m \in 1 .. i |-> Frame(k, m)]
             all == [m \in 1 .. n |-> Frame(k, m)]
  <2>1. old \in Seq(S) /\ Len(old) = i
    OBVIOUS
  <2>2. all \in Seq(S) /\ Len(all) = n
    OBVIOUS
  <2>3. j.trace = old
    BY DEF Shows
  <2>4. \A m \in 1 .. i : old[m] = Frame(k, m)
    OBVIOUS
  <2>5. \A m \in 1 .. n : all[m] = Frame(k, m)
    OBVIOUS
  <2>6. f \in S /\ f = Frame(k, n)
    OBVIOUS
  <2> HIDE DEF old, all, S, f
  <2>7. /\ Append(old, f) \in Seq(S) /\ Len(Append(old, f)) = n
        /\ \A m \in 1 .. i : Append(old, f)[m] = old[m]
        /\ Append(old, f)[n] = f
    BY <2>1, <2>6, AppendProperties
  <2>8. \A m \in 1 .. n : Append(old, f)[m] = all[m]
    BY <2>4, <2>5, <2>6, <2>7
  <2>9. Append(old, f) = all
    BY <2>2, <2>7, <2>8, SeqEqual
  <2> QED BY <2>3, <2>9 DEF all
<1>3. n \in DOMAIN trace[k] /\ \A m \in 1 .. i : m \in DOMAIN trace[k] /\ m < n
  BY DEF Stream
<1>4. e \in Carrying => \A m \in 1 .. i : trace[k][m] # "plan_ready" /\ trace[k][m] # "plan_failed"
  BY <1>3 DEF Stream, Verdicts
<1>5. Tags(i) \subseteq Tags(n) /\ <<k, n>> \in Tags(n)
  OBVIOUS
<1>6. \A m \in 1 .. n : m \in 1 .. i \/ m = n
  OBVIOUS
<1>7. 1 .. i \subseteq 1 .. n /\ n \in 1 .. n
  OBVIOUS
<1>8. /\ j = [status |-> j.status, ops |-> j.ops, error |-> j.error, trace |-> j.trace]
      /\ j.ops \subseteq Tags(i) /\ j.error \subseteq Tags(i)
  BY DEF Shows
<1> HIDE DEF n, f, e, new, longer, Tags
<1> SUFFICES Shows(new, k, n)
  BY DEF new, f, n
<1>9. CASE e = "tool_calls"
  <2>1. f.data = {<<k, n>>}
    BY <1>1, <1>9 DEF Carrying
  <2>2. new = [status |-> j.status, ops |-> {<<k, n>>}, error |-> j.error, trace |-> longer]
    BY <1>1, <1>8, <1>9, <2>1 DEF ApplyFrame, new, longer
  <2>3. \A m \in 1 .. n : trace[k][m] # "plan_ready" /\ trace[k][m] # "plan_failed"
    BY <1>4, <1>6, <1>9 DEF Carrying, e
  <2>4. j.status # "ready" /\ j.status # "failed"
    BY <1>4, <1>9 DEF Carrying, Shows
  <2> QED BY <1>2, <1>5, <1>8, <2>2, <2>3, <2>4 DEF Shows, Tags
<1>10. CASE e = "verify_fail"
  <2>1. f.data = {<<k, n>>}
    BY <1>1, <1>10 DEF Carrying
  <2>2. new = [status |-> "verify_fail", ops |-> j.ops, error |-> {<<k, n>>}, trace |-> longer]
    BY <1>1, <1>8, <1>10, <2>1 DEF ApplyFrame, new, longer
  <2>3. \A m \in 1 .. n : trace[k][m] # "plan_ready" /\ trace[k][m] # "plan_failed"
    BY <1>4, <1>6, <1>10 DEF Carrying, e
  <2> QED BY <1>2, <1>5, <1>8, <2>2, <2>3 DEF Shows, Tags
<1>11. CASE e = "plan_ready"
  <2>1. f.data = {<<k, n>>}
    BY <1>1, <1>11 DEF Carrying
  <2>2. new = [status |-> "ready", ops |-> {<<k, n>>}, error |-> {}, trace |-> longer]
    BY <1>1, <1>8, <1>11, <2>1 DEF ApplyFrame, new, longer
  <2>3. \A m \in 1 .. n : trace[k][m] # "plan_failed" /\ (trace[k][m] = "plan_ready" => m = n)
    BY <1>4, <1>6, <1>11 DEF Carrying, e
  <2>4. trace[k][n] = "plan_ready"
    BY <1>11 DEF e
  <2> QED BY <1>2, <1>5, <1>7, <2>2, <2>3, <2>4 DEF Shows, Tags
<1>12. CASE e = "plan_failed"
  <2>1. f.data = {<<k, n>>}
    BY <1>1, <1>12 DEF Carrying
  <2>2. new = [status |-> "failed", ops |-> j.ops, error |-> {<<k, n>>}, trace |-> longer]
    BY <1>1, <1>8, <1>12, <2>1 DEF ApplyFrame, new, longer
  <2>3. \A m \in 1 .. n : trace[k][m] # "plan_ready" /\ (trace[k][m] = "plan_failed" => m = n)
    BY <1>4, <1>6, <1>12 DEF Carrying, e
  <2>4. trace[k][n] = "plan_failed"
    BY <1>12 DEF e
  <2> QED BY <1>2, <1>5, <1>7, <1>8, <2>2, <2>3, <2>4 DEF Shows, Tags
<1>13. CASE e \notin Carrying
  <2>1. new = [status |-> j.status, ops |-> j.ops, error |-> j.error, trace |-> longer]
    BY <1>1, <1>8, <1>13 DEF ApplyFrame, new, longer, Carrying
  <2>2. trace[k][n] # "plan_ready" /\ trace[k][n] # "plan_failed"
    BY <1>13 DEF e, Carrying
  <2>3. /\ new.status = "ready" => \E m \in 1 .. n : trace[k][m] = "plan_ready"
        /\ new.status = "failed" => \E m \in 1 .. n : trace[k][m] = "plan_failed"
    BY <1>7, <2>1 DEF Shows
  <2>4. /\ \A m \in 1 .. n : trace[k][m] = "plan_ready" =>
              new.status = "ready" /\ new.ops = {<<k, m>>} /\ new.error = {}
        /\ \A m \in 1 .. n : trace[k][m] = "plan_failed" =>
              new.status = "failed" /\ new.error = {<<k, m>>}
    BY <1>6, <2>1, <2>2 DEF Shows
  <2>5. new.ops \subseteq Tags(n) /\ new.error \subseteq Tags(n) /\ new.trace = longer
    BY <1>5, <1>8, <2>1
  <2>6. new = [status |-> new.status, ops |-> new.ops, error |-> new.error, trace |-> new.trace]
    BY <2>1
  <2> QED BY <1>2, <2>3, <2>4, <2>5, <2>6 DEF Shows, Tags
<1> QED BY <1>9, <1>10, <1>11, <1>12, <1>13 DEF Carrying

\* And so are all the frames of a chunk.
LEMMA FramesShow ==
    ASSUME NEW k, Stream(trace[k]), NEW a \in Nat, NEW b \in Nat, a <= b, b <= Len(trace[k]),
           NEW j, Shows(j, k, a)
    PROVE  Shows(ApplyFrames(k, j, a, b), k, b)
<1>0. PICK after : Along(after, k, j, a, b)
  BY ApplyFramesIs
<1>1. /\ after[a] = j
      /\ \A i \in a + 1 .. b : after[i] = ApplyFrame(after[i - 1], Frame(k, i))
      /\ ApplyFrames(k, j, a, b) = after[b]
  BY <1>0 DEF Along
<1> DEFINE S == {n \in Nat : a + n <= b => Shows(after[a + n], k, a + n)}
<1>2. 0 \in S
  BY <1>1
<1>3. ASSUME NEW n \in Nat, n \in S PROVE n + 1 \in S
  <2> DEFINE i == a + n
  <2> SUFFICES ASSUME i + 1 <= b PROVE Shows(after[i + 1], k, i + 1)
    OBVIOUS
  <2>1. i \in Nat /\ i <= b /\ i + 1 <= Len(trace[k])
    BY DEF Stream
  <2>2. Shows(after[i], k, i)
    BY <1>3, <2>1
  <2>3. after[i + 1] = ApplyFrame(after[i], Frame(k, i + 1))
    <3>1. i + 1 \in a + 1 .. b /\ (i + 1) - 1 = i
      OBVIOUS
    <3> HIDE DEF i
    <3> QED BY <1>1, <3>1
  <2> HIDE DEF i
  <2> QED BY <2>1, <2>2, <2>3, FrameShows
<1>4. b - a \in S
  <2> HIDE DEF S
  <2>1. \A n \in Nat : n \in S
    BY <1>2, <1>3, SetInduction
  <2> QED BY <2>1
<1>5. a + (b - a) = b
  OBVIOUS
<1> QED BY <1>1, <1>4, <1>5

---------------------------------------------------------------------------
(* Submissions *)

\* What the page shows of submission n, the last.
JobOf(n) ==
    /\ loop[n] # "broken" => Shows(job, n, applied[n])
    /\ loop[n] = "broken" =>
          /\ job.status = "failed" /\ job.error = {<<n, 0>>}
          /\ job.trace = [m \in 1 .. applied[n] |-> Frame(n, m)]
          /\ job.ops \subseteq {<<n, m>> : m \in 0 .. applied[n]}

\* Submission n is the last, and those before it are over.
Last(n) == /\ \A k \in Calls : loop[k] # "none" <=> k <= n
           /\ \A k \in Calls : k < n => loop[k] \in {"done", "broken"}
           /\ n = 0 => job = NoJob
           /\ n > 0 => JobOf(n)

\* How far each response is.
Progress ==
    /\ loop \in [Calls -> {"none", "fetch", "read", "done", "broken"}]
    /\ got \in [Calls -> Nat] /\ applied \in [Calls -> Nat]
    /\ DOMAIN trace = Calls
    /\ \A k \in Calls :
          /\ loop[k] # "none" => Stream(trace[k])
          /\ loop[k] \in {"none", "fetch"} => got[k] = 0
          /\ loop[k] # "none" => got[k] <= FrameLen * Len(trace[k])
          /\ loop[k] = "done" => got[k] = FrameLen * Len(trace[k])
          /\ applied[k] = got[k] \div FrameLen
          /\ loop[k] \in {"fetch", "read"} => busy

\* The inductive invariant of the page.
PageInv == Progress /\ \E n \in 0 .. Submissions : Last(n)

\* The page starts with nothing submitted.
LEMMA PageInit == Init => PageInv
<1> SUFFICES ASSUME Init PROVE PageInv
  OBVIOUS
<1>1. Progress
  BY DEF Init, Progress, FrameLen
<1>2. Last(0) /\ 0 \in 0 .. Submissions
  BY UIAssumption DEF Init, Last, Calls
<1> QED BY <1>1, <1>2 DEF PageInv

\* A submission is the next one, and starts with an empty job.
LEMMA SubmitKeeps ==
    ASSUME PageInv, NEW k \in Calls, Submit(k)
    PROVE  PageInv'
<1>1. PICK n \in 0 .. Submissions : Last(n)
  BY DEF PageInv
<1>2. PICK t \in Traces : trace' = [trace EXCEPT ![k] = t]
  BY DEF Submit
<1>3. loop' = [loop EXCEPT ![k] = "fetch"] /\ got' = got /\ applied' = applied /\ job' = NewJob /\ busy' = TRUE
  BY DEF Submit
<1>4. Stream(t)
  BY UIAssumption DEF Stream
<1>5. Progress
  BY DEF PageInv
<1>6. k = n + 1
  <2>1. loop[k] = "none" /\ \A l \in 1 .. k - 1 : loop[l] # "none"
    BY DEF Submit
  <2>2. k \in Nat /\ k > 0 /\ 1 .. k - 1 \subseteq Calls
    BY UIAssumption DEF Calls
  <2>3. k > n /\ \A l \in 1 .. k - 1 : l <= n
    BY <1>1, <2>1, <2>2 DEF Last
  <2>4. n + 1 \in 1 .. k - 1 \/ k = n + 1
    BY <2>2, <2>3
  <2> QED BY <2>3, <2>4
<1>7. got[k] = 0 /\ applied[k] = 0
  BY <1>5 DEF Progress, Submit, FrameLen
<1>8. Progress'
  <2>1. /\ loop' \in [Calls -> {"none", "fetch", "read", "done", "broken"}]
        /\ got' \in [Calls -> Nat] /\ applied' \in [Calls -> Nat]
        /\ DOMAIN trace' = Calls
    BY <1>2, <1>3, <1>5 DEF Progress
  <2>2. ASSUME NEW l \in Calls, l # k
        PROVE  loop'[l] = loop[l] /\ trace'[l] = trace[l] /\ got'[l] = got[l] /\ applied'[l] = applied[l]
    BY <1>2, <1>3, <1>5, <2>2 DEF Progress
  <2>3. loop'[k] = "fetch" /\ trace'[k] = t /\ got'[k] = 0 /\ applied'[k] = 0
    BY <1>2, <1>3, <1>5, <1>7 DEF Progress
  <2>4. Len(t) \in Nat
    BY <1>4 DEF Stream
  <2>5. ASSUME NEW l \in Calls
        PROVE  /\ loop'[l] # "none" => Stream(trace'[l])
               /\ loop'[l] \in {"none", "fetch"} => got'[l] = 0
               /\ loop'[l] # "none" => got'[l] <= FrameLen * Len(trace'[l])
               /\ loop'[l] = "done" => got'[l] = FrameLen * Len(trace'[l])
               /\ applied'[l] = got'[l] \div FrameLen
               /\ loop'[l] \in {"fetch", "read"} => busy'
    <3>1. CASE l = k
      BY <1>3, <1>4, <2>3, <2>4, <3>1 DEF FrameLen
    <3>2. CASE l # k
      BY <1>3, <1>5, <2>2, <3>2 DEF Progress
    <3> QED BY <3>1, <3>2
  <2> QED BY <2>1, <2>5 DEF Progress
<1>9. Last(n + 1)'
  <2>1. \A l \in Calls : loop'[l] = IF l = k THEN "fetch" ELSE loop[l]
    BY <1>3, <1>5 DEF Progress
  <2>2. \A l \in Calls : loop'[l] # "none" <=> l <= n + 1
    BY <1>1, <1>6, <2>1 DEF Last, Calls
  <2>3. \A l \in Calls : l < n + 1 => loop'[l] \in {"done", "broken"}
    <3> TAKE l \in Calls
    <3> HAVE l < n + 1
    <3>1. loop[l] # "none" /\ loop'[l] = loop[l]
      BY <1>1, <1>6, <2>1 DEF Last, Calls
    <3>2. loop[l] \notin {"fetch", "read"}
      BY <1>5 DEF Progress, Submit
    <3> QED BY <1>5, <3>1, <3>2 DEF Progress
  <2>4. Shows(NewJob, k, 0)'
    <3>1. 1 .. 0 = {} /\ [m \in 1 .. 0 |-> Frame(k, m)]' = <<>>
      OBVIOUS
    <3> QED BY <3>1 DEF Shows, NewJob
  <2>5. JobOf(n + 1)'
    BY <1>3, <1>6, <1>7, <2>1, <2>4 DEF JobOf
  <2> QED BY <2>2, <2>3, <2>5 DEF Last
<1>10. n + 1 \in 0 .. Submissions
  BY <1>6 DEF Calls
<1> QED BY <1>8, <1>9, <1>10 DEF PageInv

\* A response that goes on is the last one's.
LEMMA ActiveIsLast ==
    ASSUME Progress, NEW n \in 0 .. Submissions, Last(n), NEW k \in Calls, loop[k] \in {"fetch", "read"}
    PROVE  n = k /\ n > 0 /\ Shows(job, k, applied[k]) /\ Stream(trace[k]) /\ Len(trace[k]) \in Nat
BY DEF Last, JobOf, Progress, Calls, Stream

\* A chunk is applied to the last submission's job.
LEMMA ReceiveKeeps ==
    ASSUME PageInv, NEW k \in Calls, NEW c, Receive(k, c)
    PROVE  PageInv'
<1>1. PICK n \in 0 .. Submissions : Last(n)
  BY DEF PageInv
<1>2. Progress
  BY DEF PageInv
<1>3. loop[k] = "read" /\ c \in got[k] + 1 .. FrameLen * Len(trace[k])
  BY DEF Receive
<1>4. n = k /\ n > 0 /\ Shows(job, k, applied[k]) /\ Stream(trace[k]) /\ Len(trace[k]) \in Nat
  BY <1>1, <1>2, <1>3, ActiveIsLast
<1> DEFINE b == c \div FrameLen
<1>5. /\ got' = [got EXCEPT ![k] = c] /\ applied' = [applied EXCEPT ![k] = b]
      /\ job' = ApplyFrames(k, job, applied[k], b)
      /\ busy' = busy /\ loop' = loop /\ trace' = trace
  BY DEF Receive
<1>6. /\ c \in Nat /\ c <= FrameLen * Len(trace[k])
      /\ b \in Nat /\ applied[k] \in Nat /\ applied[k] <= b /\ b <= Len(trace[k])
  <2>1. got[k] \in Nat /\ applied[k] = got[k] \div FrameLen
    BY <1>2 DEF Progress
  <2>2. c \in Nat /\ c > got[k] /\ c <= FrameLen * Len(trace[k])
    BY <1>3, <1>4, <2>1 DEF FrameLen
  <2> QED BY <1>4, <2>1, <2>2 DEF FrameLen
<1> HIDE DEF b
<1>7. Progress'
  <2>1. /\ loop' \in [Calls -> {"none", "fetch", "read", "done", "broken"}]
        /\ got' \in [Calls -> Nat] /\ applied' \in [Calls -> Nat]
        /\ DOMAIN trace' = Calls
    BY <1>2, <1>5, <1>6 DEF Progress
  <2>2. ASSUME NEW l \in Calls, l # k
        PROVE  loop'[l] = loop[l] /\ trace'[l] = trace[l] /\ got'[l] = got[l] /\ applied'[l] = applied[l]
    BY <1>2, <1>5, <2>2 DEF Progress
  <2>3. loop'[k] = "read" /\ trace'[k] = trace[k] /\ got'[k] = c /\ applied'[k] = c \div FrameLen
    BY <1>2, <1>3, <1>5 DEF Progress, b
  <2>4. ASSUME NEW l \in Calls
        PROVE  /\ loop'[l] # "none" => Stream(trace'[l])
               /\ loop'[l] \in {"none", "fetch"} => got'[l] = 0
               /\ loop'[l] # "none" => got'[l] <= FrameLen * Len(trace'[l])
               /\ loop'[l] = "done" => got'[l] = FrameLen * Len(trace'[l])
               /\ applied'[l] = got'[l] \div FrameLen
               /\ loop'[l] \in {"fetch", "read"} => busy'
    <3>1. CASE l = k
      <4>1. busy
        BY <1>2, <1>3 DEF Progress
      <4> QED BY <1>4, <1>5, <1>6, <2>3, <3>1, <4>1
    <3>2. CASE l # k
      BY <1>2, <1>5, <2>2, <3>2 DEF Progress
    <3> QED BY <3>1, <3>2
  <2> QED BY <2>1, <2>4 DEF Progress
<1>8. Shows(job', k, b)
  BY <1>4, <1>5, <1>6, FramesShow
<1>9. Shows(job, k, applied[k])'
  <2>1. applied'[k] = b
    BY <1>2, <1>5 DEF Progress
  <2> QED BY <1>5, <1>8, <2>1 DEF Shows, Frame
<1>10. Last(n)'
  BY <1>1, <1>3, <1>4, <1>5, <1>9 DEF Last, JobOf
<1> QED BY <1>7, <1>10 DEF PageInv

\* A response begins, ends or breaks.
LEMMA ResponseKeeps ==
    ASSUME PageInv, NEW k \in Calls, Respond(k) \/ Done(k) \/ Breaks(k)
    PROVE  PageInv'
<1>1. PICK n \in 0 .. Submissions : Last(n)
  BY DEF PageInv
<1>2. Progress
  BY DEF PageInv
<1>3. loop[k] \in {"fetch", "read"} /\ trace' = trace /\ got' = got /\ applied' = applied
  BY DEF Respond, Done, Breaks, loopVars
<1>4. n = k /\ n > 0 /\ Shows(job, k, applied[k]) /\ Stream(trace[k]) /\ Len(trace[k]) \in Nat
  BY <1>1, <1>2, <1>3, ActiveIsLast
<1>5. PICK s \in {"read", "done", "broken"} :
         /\ loop' = [loop EXCEPT ![k] = s]
         /\ s # "broken" => job' = job
         /\ s = "broken" => job' = [job EXCEPT !.status = "failed", !.error = {<<k, 0>>}]
         /\ s = "done" => got[k] = FrameLen * Len(trace[k])
         /\ s = "read" => busy' = busy
  BY DEF Respond, Done, Breaks, loopVars
<1>6. \A l \in Calls : l # k => loop[l] \notin {"fetch", "read"}
  <2> TAKE l \in Calls
  <2> HAVE l # k
  <2>1. l < n \/ l > n
    BY <1>4 DEF Calls
  <2> QED BY <1>1, <2>1 DEF Last, Calls
<1>7. \A l \in Calls : loop'[l] = IF l = k THEN s ELSE loop[l]
  BY <1>2, <1>5 DEF Progress
<1>8. Progress'
  <2>1. /\ loop' \in [Calls -> {"none", "fetch", "read", "done", "broken"}]
        /\ got' \in [Calls -> Nat] /\ applied' \in [Calls -> Nat]
        /\ DOMAIN trace' = Calls
    BY <1>2, <1>3, <1>5 DEF Progress
  <2>2. ASSUME NEW l \in Calls
        PROVE  /\ loop'[l] # "none" => Stream(trace'[l])
               /\ loop'[l] \in {"none", "fetch"} => got'[l] = 0
               /\ loop'[l] # "none" => got'[l] <= FrameLen * Len(trace'[l])
               /\ loop'[l] = "done" => got'[l] = FrameLen * Len(trace'[l])
               /\ applied'[l] = got'[l] \div FrameLen
               /\ loop'[l] \in {"fetch", "read"} => busy'
    <3>1. CASE l = k
      BY <1>2, <1>3, <1>5, <1>7, <3>1 DEF Progress
    <3>2. CASE l # k
      BY <1>2, <1>3, <1>6, <1>7, <3>2 DEF Progress
    <3> QED BY <3>1, <3>2
  <2> QED BY <2>1, <2>2 DEF Progress
<1>9. JobOf(n)'
  <2>1. loop'[n] = s
    BY <1>4, <1>7
  <2>2. CASE s # "broken"
    <3>1. Shows(job, n, applied[n])'
      BY <1>3, <1>4, <1>5, <2>2 DEF Shows, Frame
    <3> QED BY <2>1, <2>2, <3>1 DEF JobOf
  <2>3. CASE s = "broken"
    <3>1. /\ job = [status |-> job.status, ops |-> job.ops, error |-> job.error, trace |-> job.trace]
          /\ job.trace = [m \in 1 .. applied[n] |-> Frame(n, m)]
          /\ job.ops \subseteq {<<n, m>> : m \in 0 .. applied[n]}
      BY <1>4 DEF Shows
    <3>2. /\ job'.status = "failed" /\ job'.error = {<<n, 0>>}
          /\ job'.trace = job.trace /\ job'.ops = job.ops
      BY <1>4, <1>5, <2>3, <3>1
    <3> QED BY <1>3, <2>1, <2>3, <3>1, <3>2 DEF JobOf, Frame
  <2> QED BY <2>2, <2>3
<1>10. Last(n)'
  BY <1>1, <1>3, <1>4, <1>5, <1>7, <1>9 DEF Last
<1> QED BY <1>8, <1>10 DEF PageInv

\* Every step of the page keeps its invariant.
LEMMA PageStep == PageInv /\ [Next]_vars => PageInv'
<1> SUFFICES ASSUME PageInv, [Next]_vars PROVE PageInv'
  OBVIOUS
<1>1. CASE UNCHANGED vars
  <2>1. busy' = busy /\ job' = job /\ loop' = loop /\ trace' = trace /\ got' = got /\ applied' = applied
    BY <1>1 DEF vars, loopVars
  <2>2. Progress'
    BY <2>1 DEF PageInv, Progress
  <2>3. ASSUME NEW n \in 0 .. Submissions, Last(n) PROVE Last(n)'
    BY <2>1, <2>3 DEF Last, JobOf, Shows, Frame
  <2> QED BY <2>2, <2>3 DEF PageInv
<1>2. CASE \E k \in Calls : Submit(k)
  BY <1>2, SubmitKeeps
<1>3. CASE \E k \in Calls : Arrives(k) \/ Breaks(k)
  BY <1>3, ReceiveKeeps, ResponseKeeps DEF Arrives
<1> QED BY <1>1, <1>2, <1>3 DEF Next

\* The last submission is the one shown.
LEMMA ShownIsLast ==
    ASSUME Progress, NEW n \in 0 .. Submissions, Last(n), n > 0
    PROVE  Shown = n
<1>1. /\ n \in Calls /\ loop[n] # "none"
      /\ \A l \in Calls : l > n => loop[l] = "none"
  BY DEF Last, Calls
<1>2. \A k \in Calls : /\ loop[k] # "none"
                       /\ \A l \in Calls : l > k => loop[l] = "none"
                       => k = n
  BY <1>1 DEF Last, Calls
<1> QED BY <1>1, <1>2 DEF Shown

\* However many submissions, whatever the streams and however they are cut or broken off,
\* the page shows the first events of the last submission's stream and nothing that does
\* not come from them (app.js:32-38, 64).
THEOREM PageShowsOneTrace == Spec => []PageIsTheTrace
<1>1. PageInv => PageIsTheTrace
  <2> SUFFICES ASSUME PageInv, job # NoJob
               PROVE  /\ job.trace = [i \in 1 .. applied[Shown] |-> Frame(Shown, i)]
                      /\ job.ops \cup job.error \subseteq {<<Shown, i>> : i \in 0 .. applied[Shown]}
    BY DEF PageIsTheTrace
  <2>1. PICK n \in 0 .. Submissions : Last(n)
    BY DEF PageInv
  <2>2. n > 0 /\ n \in Calls /\ JobOf(n)
    BY <2>1 DEF Last, Calls
  <2>3. Shown = n
    BY <2>1, <2>2, ShownIsLast DEF PageInv
  <2>4. applied[n] \in Nat
    BY <2>2 DEF PageInv, Progress
  <2>5. <<n, 0>> \in {<<n, i>> : i \in 0 .. applied[n]}
    BY <2>4
  <2>6. CASE loop[n] # "broken"
    BY <2>2, <2>3, <2>6 DEF JobOf, Shows
  <2>7. CASE loop[n] = "broken"
    BY <2>2, <2>3, <2>5, <2>7 DEF JobOf
  <2> QED BY <2>6, <2>7
<1> QED BY <1>1, PageInit, PageStep, PTL DEF Spec

\* And once the response has ended, the verdict in it with what it brought, a broken one
\* as a failure (app.js:55-64, 82-105).
THEOREM VerdictIsShown == Spec => []PageShowsVerdict
<1>1. PageInv => PageShowsVerdict
  <2> DEFINE Of(k, e) == {<<k, i>> : i \in {j \in DOMAIN trace[k] : trace[k][j] = e}}
  <2> SUFFICES ASSUME PageInv, job # NoJob, NEW k, k = Shown
               PROVE  /\ loop[k] = "done" =>
                           /\ job.status = "ready" <=> Of(k, "plan_ready") # {}
                           /\ job.status = "ready" => job.ops = Of(k, "plan_ready") /\ job.error = {}
                           /\ job.status = "failed" <=> Of(k, "plan_failed") # {}
                           /\ job.status = "failed" => job.error = Of(k, "plan_failed")
                      /\ loop[k] = "broken" => job.status = "failed" /\ job.error = {<<k, 0>>}
                      /\ job.status = "ready" => \E i \in 1 .. applied[k] : trace[k][i] = "plan_ready"
    BY DEF PageShowsVerdict
  <2>1. PICK n \in 0 .. Submissions : Last(n)
    BY DEF PageInv
  <2>2. n > 0 /\ n \in Calls /\ JobOf(n) /\ loop[n] # "none"
    BY <2>1 DEF Last, Calls
  <2>3. k = n
    BY <2>1, <2>2, ShownIsLast DEF PageInv
  <2>4. CASE loop[n] = "broken"
    BY <2>2, <2>3, <2>4 DEF JobOf
  <2>5. CASE loop[n] # "broken"
    <3>1. Shows(job, n, applied[n])
      BY <2>2, <2>5 DEF JobOf
    <3>2. Stream(trace[n])
      BY <2>2 DEF PageInv, Progress
    <3>3. ASSUME loop[n] = "done"
          PROVE  applied[n] = Len(trace[n]) /\ DOMAIN trace[n] = 1 .. applied[n]
      <4>1. Len(trace[n]) \in Nat /\ DOMAIN trace[n] = 1 .. Len(trace[n])
        BY <3>2 DEF Stream
      <4>2. applied[n] = (FrameLen * Len(trace[n])) \div FrameLen
        BY <2>2, <3>3 DEF PageInv, Progress
      <4>3. \A l \in Nat : (FrameLen * l) \div FrameLen = l
        BY DEF FrameLen
      <4> QED BY <4>1, <4>2, <4>3
    <3>4. ASSUME loop[n] = "done", NEW m \in 1 .. applied[n], trace[n][m] = "plan_ready"
          PROVE  job.status = "ready" /\ job.error = {} /\ job.ops = {<<n, m>>} /\ Of(n, "plan_ready") = {<<n, m>>}
      <4>1. \A i \in 1 .. applied[n] : trace[n][i] = "plan_ready" => job.ops = {<<n, i>>}
        BY <3>1 DEF Shows
      <4>2. \A i \in 1 .. applied[n] : trace[n][i] = "plan_ready" => i = m
        <5> TAKE i \in 1 .. applied[n]
        <5> HAVE trace[n][i] = "plan_ready"
        <5>1. job.ops = {<<n, i>>} /\ job.ops = {<<n, m>>}
          BY <3>4, <4>1
        <5>2. <<n, i>> = <<n, m>>
          <6>1. <<n, i>> \in {<<n, m>>}
            BY <5>1, Zenon
          <6> QED BY <6>1, Zenon
        <5> QED BY <5>2
      <4>3. {j \in DOMAIN trace[n] : trace[n][j] = "plan_ready"} = {m}
        BY <3>3, <3>4, <4>2
      <4>4. Of(n, "plan_ready") = {<<n, m>>}
        BY <4>3
      <4> HIDE DEF Of
      <4> QED BY <3>1, <3>4, <4>4 DEF Shows
    <3>5. ASSUME loop[n] = "done", NEW m \in 1 .. applied[n], trace[n][m] = "plan_failed"
          PROVE  job.status = "failed" /\ job.error = {<<n, m>>} /\ Of(n, "plan_failed") = {<<n, m>>}
      <4>1. \A i \in 1 .. applied[n] : trace[n][i] = "plan_failed" => job.error = {<<n, i>>}
        BY <3>1 DEF Shows
      <4>2. \A i \in 1 .. applied[n] : trace[n][i] = "plan_failed" => i = m
        <5> TAKE i \in 1 .. applied[n]
        <5> HAVE trace[n][i] = "plan_failed"
        <5>1. job.error = {<<n, i>>} /\ job.error = {<<n, m>>}
          BY <3>5, <4>1
        <5>2. <<n, i>> = <<n, m>>
          <6>1. <<n, i>> \in {<<n, m>>}
            BY <5>1, Zenon
          <6> QED BY <6>1, Zenon
        <5> QED BY <5>2
      <4>3. {j \in DOMAIN trace[n] : trace[n][j] = "plan_failed"} = {m}
        BY <3>3, <3>5, <4>2
      <4>4. Of(n, "plan_failed") = {<<n, m>>}
        BY <4>3
      <4> HIDE DEF Of
      <4> QED BY <3>1, <3>5, <4>4 DEF Shows
    <3>6. /\ job.status = "ready" => \E m \in 1 .. applied[n] : trace[n][m] = "plan_ready"
          /\ job.status = "failed" => \E m \in 1 .. applied[n] : trace[n][m] = "plan_failed"
      BY <3>1 DEF Shows
    <3>7. ASSUME loop[n] = "done", NEW e, Of(n, e) # {}
          PROVE  \E m \in 1 .. applied[n] : trace[n][m] = e
      <4>1. PICK m \in DOMAIN trace[n] : trace[n][m] = e
        BY <3>7
      <4> QED BY <3>3, <3>7, <4>1
    <3> HIDE DEF Of
    <3>8. ASSUME loop[n] = "done"
          PROVE  /\ job.status = "ready" <=> Of(n, "plan_ready") # {}
                 /\ job.status = "ready" => job.ops = Of(n, "plan_ready") /\ job.error = {}
                 /\ job.status = "failed" <=> Of(n, "plan_failed") # {}
                 /\ job.status = "failed" => job.error = Of(n, "plan_failed")
      BY <3>4, <3>5, <3>6, <3>7, <3>8
    <3> QED BY <2>3, <2>5, <3>6, <3>8
  <2> QED BY <2>4, <2>5
<1> QED BY <1>1, PageInit, PageStep, PTL DEF Spec
=============================================================================
