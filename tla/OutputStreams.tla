---------------------------- MODULE OutputStreams ----------------------------
(***************************************************************************)
(* The streams that a container's handle gives out: Logs, whose frames a   *)
(* goroutine takes apart while the caller reads from a pipe; Exec, whose   *)
(* output is collected first, or left to the caller; and a file copied     *)
(* from the container.  The Engine sends over a connection that holds a    *)
(* bounded number of units and may break at any point.                     *)
(***************************************************************************)
EXTENDS Integers, SequencesExt

CONSTANTS Framed,    \* what is sent: frames, each a header in two parts and its data,
          Plain,     \* and what a terminal sends, which has no headers
          Capacity   \* bound: units that are on their way in the connection

\* What is sent comes in units: after these the connection may break off.
AUnit == [part : {"head", "size", "data"}, to : {"out", "err"}, size : Nat]

\* A header in two parts, the second with the size of the data that follows it.
WellFramed(u) ==
  /\ u # <<>> => u[1].part = "head"
  /\ \A i \in DOMAIN u : u[i].part = "head" => i < Len(u) /\ u[i + 1].part = "size"
  /\ \A i \in DOMAIN u : u[i].part = "size" =>
       LET end == i + u[i].size IN
       /\ end = Len(u) \/ (end < Len(u) /\ u[end + 1].part = "head")
       /\ \A j \in (i + 1)..end : u[j].part = "data" /\ u[j].to = u[i].to

ASSUME StreamAssumption ==
  /\ Capacity \in Nat \ {0}
  /\ \A u \in Framed : u \in Seq(AUnit) /\ WellFramed(u)
  /\ \A u \in Plain : u \in Seq(AUnit) /\ \A i \in DOMAIN u : u[i].part = "data"

VARIABLES
  call,      \* what the caller asks for, see Calls
  units,     \* what the Engine has to send
  at,        \* the calling goroutine: "ask", "inspect", "attach", "wait", "poll" or "returned"
  result,    \* "none", "ok" or "error"
  running,   \* the command that Exec started
  conn,      \* the connection: "none", "open", and when the Engine ends it "eof" or "cut"
  closed,    \* we have closed it
  written,   \* how many units the Engine has sent
  due,       \* history: the positions of the data among them, of each stream and of both
  taken,     \* and how many were taken off the connection
  g,         \* the goroutine: "none", "header", "frame", "write", "close" or "done"
  half,      \* how much of a header it has read
  left,      \* how much of the frame's data is still to come
  to,        \* the stream the frame belongs to
  chunk,     \* data read and not yet passed on: in the pipe, or a part of a frame
  pipeEnd,   \* how the writer closed the pipe, or the collector ended: "none", "eof", "error"
  out, err,  \* the two buffers of Multiplexed
  reader,    \* the caller: "reading", "end", "error" or "closed"
  got        \* what the caller has read

network == <<conn, closed, written, due, taken>>
parser == <<g, half, left, to, chunk, pipeEnd, out, err>>
vars == <<call, units, at, result, running, network, parser, reader, got>>

Calls == {"logs", "ttyLogs", "multiplexed", "raw", "file"}
Execs == {"multiplexed", "raw"}

-----------------------------------------------------------------------------
(* The connection.                                                         *)

Unit == units[taken + 1]
Some == taken < written
\* Everything that was sent is taken, and no more will come.
Ended == ~Some /\ conn \in {"eof", "cut"}

Init ==
  /\ call \in Calls /\ units \in IF call = "ttyLogs" THEN Plain ELSE Framed
  \* The archive of a single file has one entry.
  /\ call = "file" => Len(units) > 1 /\ Len(units) = 2 + units[2].size
  /\ at = "ask" /\ result = "none" /\ running = FALSE
  /\ conn = "none" /\ closed = FALSE /\ written = 0 /\ taken = 0
  /\ due = [stream \in {"out", "err", "both"} |-> <<>>]
  /\ g = "none" /\ half = 0 /\ left = 0 /\ to = "" /\ chunk = <<>> /\ pipeEnd = "none"
  /\ out = <<>> /\ err = <<>> /\ reader = "reading" /\ got = <<>>

-----------------------------------------------------------------------------
(* The call.                                                               *)

Return(outcome) == at' = "returned" /\ result' = outcome
Goto(place) == at' = place /\ UNCHANGED result

\* ContainerLogs, ExecCreate or CopyFromContainer.
Ask ==
  /\ at = "ask"
  /\ \/ Return("error") /\ UNCHANGED network
     \/ call \in Execs /\ Goto("attach") /\ UNCHANGED network
     \/ /\ call \notin Execs /\ conn' = "open" /\ UNCHANGED <<closed, written, due, taken>>
        /\ Goto(IF call = "file" THEN "wait" ELSE "inspect")
  /\ UNCHANGED <<call, units, running, parser, reader, got>>

\* Logs has to know whether the container has a terminal.
Inspect ==
  /\ at = "inspect"
  /\ \/ Return("error") /\ closed' = TRUE /\ UNCHANGED <<conn, written, due, taken, g>>
     \/ Return("ok") /\ g' = (IF call = "logs" THEN "header" ELSE "none") /\ UNCHANGED network
  /\ UNCHANGED <<call, units, running, half, left, to, chunk, pipeEnd, out, err, reader, got>>

\* Faulty: Multiplexed collects what there is once the command has ended.
AttachLate ==
  /\ at = "attach"
  /\ \/ Return("error") /\ UNCHANGED <<running, conn, g>>
     \/ running' = TRUE /\ conn' = "open" /\ Goto("poll") /\ UNCHANGED g
  /\ UNCHANGED <<call, units, closed, written, due, taken, half, left, to, chunk, pipeEnd, out, err,
                 reader, got>>

\* ExecAttach starts the command.  Multiplexed waits until its goroutine has seen the end.
Attach ==
  /\ at = "attach"
  /\ \/ Return("error") /\ UNCHANGED <<running, conn, g>>
     \/ /\ running' = TRUE /\ conn' = "open"
        /\ IF call = "multiplexed" THEN Goto("wait") /\ g' = "header"
                                   ELSE Goto("poll") /\ UNCHANGED g
  /\ UNCHANGED <<call, units, closed, written, due, taken, half, left, to, chunk, pipeEnd, out, err, reader, got>>

Collected ==
  /\ at = "wait" /\ call = "multiplexed" /\ g = "done" /\ Goto("poll")
  /\ UNCHANGED <<call, units, running, network, parser, reader, got>>

\* ExecInspect, again and again until the command has ended.
Poll ==
  /\ at = "poll" /\ ~running /\ Return("ok")
  /\ UNCHANGED <<call, units, running, network, parser, reader, got>>

PollFails ==
  /\ at = "poll" /\ Return("error")
  /\ UNCHANGED <<call, units, running, network, parser, reader, got>>

\* CopyFromContainer reads the header of the archive's one entry itself.
Entry ==
  /\ at = "wait" /\ call = "file"
  /\ \/ Some /\ taken' = taken + 1 /\ half' = half + 1
        /\ IF half = 1 THEN Return("ok") /\ left' = Unit.size ELSE UNCHANGED <<at, result, left>>
     \/ Ended /\ Return("error") /\ UNCHANGED <<taken, half, left>>
  /\ UNCHANGED <<call, units, running, conn, closed, written, due, g, to, chunk, pipeEnd, out, err, reader, got>>

-----------------------------------------------------------------------------
(* The goroutine that takes the frames apart: parseMultiplexedLogs for the *)
(* log, the collector of Multiplexed for a command.                        *)

outside == <<call, units, at, result, running, conn, closed, written, due, reader, got>>
collector == <<out, err>>

\* Faulty: every end of the connection is taken for the end of the stream.
AnyEnd(broken) == "eof"

\* How the stream ends when the connection does, "broken" if in an error of its own.
EndOf(broken) == IF broken THEN "error" ELSE "eof"

\* Faulty: one read, which may find half a header.
ReadHeaderOnce ==
  /\ g = "header" /\ Some
  /\ taken' = taken + 2 /\ g' = "frame" /\ left' = units[taken + 2].size /\ to' = Unit.to
  /\ UNCHANGED <<outside, half, chunk, pipeEnd, collector>>

ReadHeader ==
  /\ g = "header" /\ Some
  /\ taken' = taken + 1 /\ half' = 1 - half
  /\ IF half = 1 THEN g' = "frame" /\ left' = Unit.size /\ to' = Unit.to
                 ELSE UNCHANGED <<g, left, to>>
  /\ UNCHANGED <<outside, chunk, pipeEnd, collector>>

\* A header cut short is an error for the log's parser; the collector, which is StdCopy of
\* the Engine's own library, ignores the rest of a connection that ends without an error.
HeaderEnds ==
  /\ g = "header" /\ Ended
  /\ pipeEnd' = EndOf(conn # "eof" \/ (call = "logs" /\ half = 1))
  /\ g' = IF call = "logs" THEN "close" ELSE "done"
  /\ UNCHANGED <<outside, taken, half, left, to, chunk, collector>>

\* CopyN takes as much of the frame as has arrived, in pieces, to the pipe.
ReadFrame ==
  /\ g = "frame" /\ call = "logs"
  /\ \/ left = 0 /\ g' = "header" /\ UNCHANGED <<taken, left, chunk>>
     \/ \E n \in 1..left :
          /\ taken + n <= written
          /\ taken' = taken + n /\ left' = left - n
          /\ chunk' = [i \in 1..n |-> taken + i] /\ g' = "write"
  /\ UNCHANGED <<outside, half, to, pipeEnd, collector>>

\* StdCopy passes only whole frames on.
CollectFrame ==
  /\ g = "frame" /\ call = "multiplexed"
  /\ \/ /\ left > 0 /\ Some
        /\ taken' = taken + 1 /\ left' = left - 1 /\ chunk' = Append(chunk, taken + 1)
        /\ UNCHANGED <<g, collector>>
     \/ /\ left = 0 /\ g' = "header" /\ chunk' = <<>> /\ UNCHANGED <<taken, left>>
        /\ out' = IF to = "out" THEN out \o chunk ELSE out
        /\ err' = IF to = "err" THEN err \o chunk ELSE err
  /\ UNCHANGED <<outside, half, to, pipeEnd>>

\* In the middle of a frame CopyN reports the end of the connection as an end.
FrameEnds ==
  /\ g = "frame" /\ left > 0 /\ Ended
  /\ pipeEnd' = EndOf(conn # "eof")
  /\ g' = IF call = "logs" THEN "close" ELSE "done"
  /\ UNCHANGED <<outside, taken, half, left, to, chunk, collector>>

\* Faulty: only a caller that goes on reading lets the writer go on.
WriteDeaf ==
  /\ g = "write" /\ chunk = <<>> /\ g' = "frame"
  /\ UNCHANGED <<outside, taken, half, left, to, chunk, pipeEnd, collector>>

\* A write to the pipe returns when all of it was read, or when the reader has closed.
WriteDone ==
  /\ g = "write"
  /\ \/ chunk = <<>> /\ reader # "closed" /\ g' = "frame" /\ UNCHANGED <<chunk, pipeEnd>>
     \/ reader = "closed" /\ g' = "close" /\ chunk' = <<>> /\ pipeEnd' = "error"
  /\ UNCHANGED <<outside, taken, half, left, to, collector>>

\* The connection is closed after the pipe.
CloseConnection ==
  /\ g = "close" /\ g' = "done" /\ closed' = TRUE
  /\ UNCHANGED <<call, units, at, result, running, conn, written, due, taken, half, left, to, chunk,
                 pipeEnd, collector, reader, got>>

-----------------------------------------------------------------------------
(* The caller, who may close a stream, or forget it, at any time.          *)

held == <<call, units, at, result, running, conn, written, due, g, half, to, pipeEnd, collector>>
Reads == result = "ok" /\ reader = "reading"

ReadPipe ==
  /\ Reads /\ call = "logs" /\ UNCHANGED <<held, closed, taken, left>>
  /\ \/ /\ chunk # <<>> /\ got' = Append(got, Head(chunk)) /\ chunk' = Tail(chunk)
        /\ UNCHANGED reader
     \/ /\ chunk = <<>> /\ pipeEnd # "none" /\ UNCHANGED <<got, chunk>>
        /\ reader' = IF pipeEnd = "eof" THEN "end" ELSE "error"

\* A MultiReader: the output, then what went to the error stream.  An error of the collector
\* comes before anything that it did collect.
ReadBuffers ==
  /\ Reads /\ call = "multiplexed" /\ UNCHANGED <<held, closed, taken, left, chunk>>
  /\ CASE pipeEnd = "error"                -> reader' = "error" /\ UNCHANGED got
       [] pipeEnd # "error" /\ got # out \o err ->
            /\ got' = Append(got, (out \o err)[Len(got) + 1]) /\ UNCHANGED reader
       [] OTHER                            -> reader' = "end" /\ UNCHANGED got

\* Straight from the connection; the reader of a file knows where it ends.
ReadConnection ==
  /\ Reads /\ call \in {"ttyLogs", "raw", "file"} /\ UNCHANGED <<held, closed, chunk>>
  /\ LET more == call # "file" \/ left > 0 IN
     \/ /\ more /\ Some /\ taken' = taken + 1 /\ got' = Append(got, taken')
        /\ left' = (IF call = "file" THEN left - 1 ELSE left) /\ UNCHANGED reader
     \/ /\ (more => Ended) /\ UNCHANGED <<taken, left, got>>
        /\ reader' = IF ~more \/ (call # "file" /\ conn = "eof") THEN "end" ELSE "error"

\* The reader of a command's output cannot be closed.
CloseReader ==
  /\ result = "ok" /\ reader # "closed" /\ call \notin Execs
  /\ reader' = "closed"
  /\ closed' = (closed \/ call # "logs")
  /\ UNCHANGED <<held, taken, left, chunk, got>>

-----------------------------------------------------------------------------
(* The Engine.                                                             *)

beyond == <<call, units, at, result, closed, taken, parser, reader, got>>

Send ==
  /\ conn = "open" /\ ~closed /\ written < Len(units) /\ written - taken < Capacity
  /\ written' = written + 1
  /\ LET u == units[written'] IN
     due' = [stream \in DOMAIN due |-> IF u.part = "data" /\ stream \in {u.to, "both"}
                                       THEN Append(due[stream], written') ELSE due[stream]]
  /\ UNCHANGED <<beyond, running, conn>>

\* The command writes all its output, for as long as somebody takes it, and ends.
Exits ==
  /\ running /\ (written = Len(units) \/ conn # "open")
  /\ running' = FALSE /\ UNCHANGED <<beyond, conn, written, due>>

Finish ==
  /\ conn = "open" /\ ~closed /\ written = Len(units)
  /\ conn' = "eof" /\ UNCHANGED <<beyond, running, written, due>>

\* The connection breaks, or the caller's context ends; or the Engine stops before it has sent
\* everything, which looks like its end wherever that is.
Cut ==
  /\ conn = "open" /\ ~closed /\ conn' \in {"cut", "eof"}
  /\ UNCHANGED <<beyond, running, written, due>>

Caller == Ask \/ Inspect \/ Attach \/ Collected \/ Poll \/ Entry
Goroutine ==
  \/ ReadHeader \/ HeaderEnds \/ ReadFrame \/ CollectFrame \/ FrameEnds \/ WriteDone
  \/ CloseConnection
Reading == ReadPipe \/ ReadBuffers \/ ReadConnection
Engine == Send \/ Exits \/ Finish

Next == Caller \/ PollFails \/ Goroutine \/ Reading \/ CloseReader \/ Engine \/ Cut

Spec == Init /\ [][Next]_vars

\* The goroutines are scheduled, and the Engine sends what there is room for; nobody has to
\* read or to close anything, and nothing has to break or to fail.
FairSpec ==
  Spec /\ WF_vars(Caller) /\ WF_vars(Goroutine) /\ WF_vars(Send) /\ WF_vars(Exits)
       /\ WF_vars(Finish)

-----------------------------------------------------------------------------
(* Properties.                                                             *)

Positions == Seq(1..Len(units))

\* Every variable holds a value of its kind.
TypeOK ==
  /\ call \in Calls /\ units \in Framed \cup Plain
  /\ due \in [{"out", "err", "both"} -> Positions]
  /\ at \in {"ask", "inspect", "attach", "wait", "poll", "returned"}
  /\ result \in {"none", "ok", "error"} /\ running \in BOOLEAN
  /\ conn \in {"none", "open", "eof", "cut"} /\ closed \in BOOLEAN
  /\ taken \in 0..written /\ written \in 0..Len(units) /\ written - taken <= Capacity
  /\ g \in {"none", "header", "frame", "write", "close", "done"}
  /\ half \in 0..2 /\ left \in Nat /\ to \in {"", "out", "err"}
  /\ {chunk, out, err, got} \subseteq Positions
  /\ pipeEnd \in {"none", "eof", "error"} /\ reader \in {"reading", "end", "error", "closed"}

\* The unit is part of a frame that was sent to its end.
Complete(i) == \E n \in i..written : n = Len(units) \/ units[n + 1].part = "head"
\* What was sent of a stream in such frames: it comes before all the rest.
Whole(stream) ==
  SubSeq(due[stream], 1, Cardinality({i \in DOMAIN due[stream] : Complete(due[stream][i])}))

\* The stream as the caller should see it.  A command's output that is collected gets there
\* when all of it is, first what went to its output and then what went to its errors, and
\* without the frame that a connection stopped in; whatever else was sent is due as it is.
sent ==
  CASE call = "multiplexed" -> IF g = "done" THEN Whole("out") \o Whole("err") ELSE <<>>
    [] call \in {"logs", "file"} -> due["both"]
    [] call \in {"ttyLogs", "raw"} -> [i \in 1..written |-> i]
\* It has ended only when all that there was to send was sent.
source ==
  LET ends == IF written = Len(units) THEN "ended" ELSE "stopped" IN
  CASE call = "multiplexed" /\ g # "done" -> "open"
    [] call = "multiplexed" /\ g = "done" -> IF pipeEnd = "error" THEN "broken" ELSE ends
    [] call = "file" /\ written = Len(units) -> "ended"
    [] OTHER -> CASE conn = "eof" -> ends [] conn = "cut" -> "broken" [] OTHER -> "open"

Contents == INSTANCE StreamContents WITH sent <- sent, source <- source, got <- got,
                                         reader <- reader

\* Refinement: whichever way the bytes take, the caller gets what StreamContents promises: what
\* arrived, once and in order; no end before all of that, and none for a connection that
\* broke; and no error for one that ended after everything was sent.  An Engine that stops
\* early, in a frame or between two, may pass for one that has ended.
ContentsKept == Contents!Spec

\* When the caller has read a log to its end, or closed it, the goroutine behind it ends and
\* the Engine's connection is closed: neither is left behind.
LogReleased ==
  (call = "logs" /\ result = "ok" /\ reader # "reading") ~> (g = "done" /\ closed)

\* Exec comes back, unless nobody takes the output that the command is waiting to write:
\* with Multiplexed it does so however much there is.
ExecReturns ==
  (call = "multiplexed" \/ (call = "raw" /\ Len(units) <= Capacity)) => <>(at = "returned")

=============================================================================
