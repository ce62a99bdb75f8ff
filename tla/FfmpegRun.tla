---------------------------- MODULE FfmpegRun ----------------------------
(***************************************************************************)
(* Run (pipeline/internal/ffmpeg/ffmpeg.go): an FFmpeg process, the pipe   *)
(* its stderr goes to, the goroutine that reads lines from the pipe into   *)
(* the ring buffer, and the caller that waits for both.                    *)
(*                                                                         *)
(* What the process writes is the numbers 1, 2, 3, ...; every LineLen-th   *)
(* is the end of a line.  A line is the pair of its first and last number. *)
(* Where the bytes are then follows from three positions: written by the   *)
(* process, fetched into the reader's buffer, and taken from it in lines.  *)
(*                                                                         *)
(* External: cmd.Wait reaps the process and then closes the caller's end   *)
(* of the pipe, whatever is left in it; a read of a closed pipe fails; the *)
(* context's end kills the process.                                        *)
(***************************************************************************)
EXTENDS Integers, Sequences

CONSTANTS LineLen,     \* pieces of a line, its end included
          PipeSize,    \* pieces the pipe holds
          TailSize,    \* ringBuffer.cap
          Outputs      \* how much FFmpeg may have to say, in pieces

ASSUME RunAssumption ==
    /\ LineLen \in Nat \ {0} /\ PipeSize \in Nat \ {0} /\ TailSize \in Nat \ {0}
    /\ Outputs \subseteq Nat

VARIABLES caller,      \* where Run is
          process,     \* "none", "running", "zombie" or "reaped"
          status,      \* how it ended: "good", "bad" or "killed"
          ctxDone,     \* the context of the call
          toSay,       \* pieces the process will write if it is let
          written,     \* pieces it has written
          fetched,     \* pieces read from the pipe into the bufio.Reader
          taken,       \* pieces returned from it by ReadString
          closed,      \* cmd.Wait has closed the pipe
          reader,      \* "off", "reading", "eof" or "error"
          pushed,      \* the lines passed to push and to progress (history)
          lines        \* ringBuffer.lines

processVars == <<process, status, toSay, written>>
readerVars  == <<fetched, taken, reader, pushed, lines>>
runVars     == <<caller, processVars, ctxDone, closed, readerVars>>

---------------------------------------------------------------------------
(* The process *)

Write == /\ process = "running"
         /\ written < toSay
         /\ written - fetched < PipeSize
         /\ written' = written + 1
         /\ UNCHANGED <<caller, process, status, toSay, ctxDone, closed, readerVars>>

Die(how) == /\ process = "running"
            /\ process' = "zombie"
            /\ status' = how
            /\ UNCHANGED <<caller, toSay, written, ctxDone, closed, readerVars>>

\* It succeeds when it has said everything; it may fail on the way.
Succeed == written = toSay /\ Die("good")

Fail == Die("bad")

Cancel == /\ ~ctxDone
          /\ ctxDone' = TRUE
          /\ UNCHANGED <<caller, processVars, closed, readerVars>>

Kill == ctxDone /\ Die("killed")

---------------------------------------------------------------------------
(* The caller *)

\* StderrPipe or Start fails, or the context was done before.
StartFails == /\ caller = "start"
              /\ caller' = "failed"
              /\ UNCHANGED <<processVars, ctxDone, closed, readerVars>>

Start == /\ caller = "start"
         /\ ~ctxDone
         /\ process' = "running"
         /\ reader' = "reading"
         /\ caller' = "wait"
         /\ UNCHANGED <<status, toSay, written, ctxDone, closed, fetched, taken, pushed, lines>>

Reap == /\ caller = "wait"
        /\ process = "zombie"
        /\ process' = "reaped"
        /\ caller' = "close"
        /\ UNCHANGED <<status, toSay, written, ctxDone, closed, readerVars>>

ClosePipe == /\ caller = "close"
             /\ closed' = TRUE
             /\ caller' = "join"
             /\ UNCHANGED <<processVars, ctxDone, readerVars>>

ReaderDone == reader \in {"eof", "error"}

\* Mutant: no wg.Wait().
ReturnAtOnce == /\ caller = "join"
                /\ caller' = IF status = "good" THEN "succeeded" ELSE "exited_bad"
                /\ UNCHANGED <<processVars, ctxDone, closed, readerVars>>

\* A failed exit is a result with its code, not an error; but when the context ended
\* as the process succeeded, Wait may return the context's error.
Return == /\ caller = "join"
          /\ ReaderDone
          /\ \/ caller' = IF status = "good" THEN "succeeded" ELSE "exited_bad"
             \/ status = "good" /\ ctxDone /\ caller' = "failed"
          /\ UNCHANGED <<processVars, ctxDone, closed, readerVars>>

---------------------------------------------------------------------------
(* The reader: streamLines, and ringBuffer.push *)

\* The ends of the lines the reader has fetched and not taken.
LineEnds == {t \in taken + 1 .. fetched : t % LineLen = 0}

\* ReadString reads on when there is no whole line in the buffer; a read returns as
\* much as it likes of what the pipe holds.
Fetch(n) == /\ reader = "reading"
            /\ LineEnds = {}
            /\ ~closed
            /\ fetched < n /\ n <= written
            /\ fetched' = n
            /\ UNCHANGED <<caller, processVars, ctxDone, closed, taken, reader, pushed, lines>>

\* Mutant: the newest line makes room.
KeepFirst(line) == /\ pushed' = Append(pushed, line)
                   /\ lines' = IF Len(lines) >= TailSize THEN lines ELSE Append(lines, line)

\* tail.push and progress.  The buffer is read after the goroutine has ended, so its
\* lock hides no step.
Push(line) == /\ pushed' = Append(pushed, line)
              /\ lines' = Append(IF Len(lines) >= TailSize THEN Tail(lines) ELSE lines, line)

\* Mutant: what is buffered goes with the line.
TakeAll == /\ reader = "reading"
           /\ \E t \in LineEnds : /\ \A u \in LineEnds : t <= u
                                  /\ Push(<<taken + 1, t>>)
                                  /\ taken' = fetched
           /\ UNCHANGED <<caller, processVars, ctxDone, closed, fetched, reader>>

\* Mutant: the character after the end of the line is skipped.
TakePast == /\ reader = "reading"
            /\ \E t \in LineEnds : /\ \A u \in LineEnds : t <= u
                                   /\ Push(<<taken + 1, t>>)
                                   /\ taken' = t + 1
            /\ UNCHANGED <<caller, processVars, ctxDone, closed, fetched, reader>>

TakeLine == /\ reader = "reading"
            /\ \E t \in LineEnds : /\ \A u \in LineEnds : t <= u
                                   /\ Push(<<taken + 1, t>>)
                                   /\ taken' = t
            /\ UNCHANGED <<caller, processVars, ctxDone, closed, fetched, reader>>

\* The end of the stream, or an error, comes with what was read of a last line.
EndWith(how) == /\ reader = "reading"
                /\ LineEnds = {}
                /\ IF taken < fetched THEN Push(<<taken + 1, fetched>>) ELSE UNCHANGED <<pushed, lines>>
                /\ taken' = fetched
                /\ reader' = how
                /\ UNCHANGED <<caller, processVars, ctxDone, closed, fetched>>

\* Mutant: an empty pipe is taken for the end of the stream.
ReadEndsEarly == fetched = written /\ EndWith("eof")

\* Everything is read and the other end has no writer.
ReadEnds == /\ ~closed /\ fetched = written
            /\ process \in {"zombie", "reaped"}
            /\ EndWith("eof")

ReadFails == closed /\ EndWith("error")

---------------------------------------------------------------------------

RunInit == /\ caller = "start"
           /\ process = "none" /\ status = "none"
           /\ ctxDone = FALSE
           /\ toSay \in Outputs
           /\ written = 0 /\ fetched = 0 /\ taken = 0
           /\ closed = FALSE
           /\ reader = "off"
           /\ pushed = <<>> /\ lines = <<>>

Read == (\E n \in fetched + 1 .. written : Fetch(n)) \/ TakeLine \/ ReadEnds \/ ReadFails

Call == StartFails \/ Start \/ Reap \/ ClosePipe \/ Return

---------------------------------------------------------------------------
(* Properties *)

Returned == caller \in {"succeeded", "exited_bad", "failed"}

Line == Nat \X Nat

\* The types of Run's variables and the order of the three positions.
RunTypeOK ==
    /\ caller \in {"start", "wait", "close", "join", "succeeded", "exited_bad", "failed"}
    /\ process \in {"none", "running", "zombie", "reaped"}
    /\ status \in {"none", "good", "bad", "killed"}
    /\ ctxDone \in BOOLEAN /\ closed \in BOOLEAN
    /\ toSay \in Outputs
    /\ written \in Nat /\ fetched \in Nat /\ taken \in Nat
    /\ written <= toSay /\ fetched <= written /\ taken <= fetched
    /\ reader \in {"off", "reading", "eof", "error"}
    /\ pushed \in Seq(Line) /\ lines \in Seq(Line)

\* Each line pushed starts where the one before it ended, and all but the last one
\* pushed when the stream ended are whole lines: nothing in between is lost, repeated
\* or cut, however the reads fall (ffmpeg.go:209-223).
Starts(i) == IF i = 1 THEN 1 ELSE pushed[i - 1][2] + 1

LinesAreWhole ==
    /\ \A i \in DOMAIN pushed :
          /\ pushed[i][1] = Starts(i)
          /\ \/ pushed[i][2] % LineLen = 0 /\ pushed[i][2] < pushed[i][1] + LineLen
             \/ i = Len(pushed) /\ ReaderDone
    /\ taken = IF pushed = <<>> THEN 0 ELSE pushed[Len(pushed)][2]

\* The ring buffer holds the last lines, as many as it has room for, in their order
\* (ffmpeg.go:235-242).
TailIsLast ==
    LET n == IF Len(pushed) < TailSize THEN Len(pushed) ELSE TailSize
    IN  lines = SubSeq(pushed, Len(pushed) - n + 1, Len(pushed))

\* When Run returns nothing of the call goes on: the process is reaped, the pipe
\* closed and the goroutine at its end, so the result it returns is final; and a
\* goroutine that met the end of the stream has passed on all that was written
\* (ffmpeg.go:184-206).
NothingGoesOn ==
    /\ Returned /\ process # "none" => process = "reaped" /\ closed /\ ReaderDone
    /\ reader = "eof" => taken = written /\ process # "running"

\* Run returns: the process never waits for ever on a full pipe (ffmpeg.go:196-197).
RunReturns == caller = "wait" ~> Returned
=============================================================================
