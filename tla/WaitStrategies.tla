--------------------------- MODULE WaitStrategies ---------------------------
(***************************************************************************)
(* A MultiStrategy waits for a container: its strategies, some of which    *)
(* may be MultiStrategies again, poll one after the other, each under its  *)
(* own deadline, while the container boots, writes its log, exits or is    *)
(* removed.  Time is discrete and passes while a strategy sleeps, and      *)
(* while it waits for an answer: a call ends at the latest when its        *)
(* context does, but for the command of an ExecStrategy, whose output is   *)
(* read to the end whatever the context says.                              *)
(***************************************************************************)
EXTENDS Naturals, SequencesExt

CONSTANTS Strategies,      \* records [kind, timeout, options, deadline, list], of which the
                           \* last two are for "all"; what is in their lists is among them
          Plans,           \* those of them that are waited for, MultiStrategies
          Poll,            \* the poll interval
          ExecPoll,        \* how long Exec sleeps while its command runs
          DefaultTimeout,  \* defaultTimeout()
          Forever,         \* stands for no timeout or deadline
          Entry,           \* the line of the log that a log strategy looks for
          MaxTime,         \* bound: the clock
          MaxFaults        \* bound: calls that fail

ASSUME ConstantsAssumption ==
  /\ Poll \in Nat \ {0} /\ ExecPoll \in Nat \ {0} /\ DefaultTimeout \in Nat \ {0} /\ Entry \in Nat \ {0}
  /\ MaxTime \in Nat /\ MaxFaults \in Nat /\ Forever \in Nat
  /\ Forever > MaxTime + DefaultTimeout + Poll

VARIABLES
  plan,      \* the MultiStrategy
  now,       \* the clock
  box,       \* the container: "running", "exited" or "gone"
  mapped,    \* its ports are published
  up,        \* it is up: healthy, answering, the file there, the command succeeding
  lines,     \* the length of its log
  frames,    \* the MultiStrategies that run, each inside the one before:
             \* [all, turn, limit, began]
  began,     \* when the strategy that waits began
  w,         \* where it is: see Start
  outcome,   \* "none" while waiting, "ready", or the kind of the error
  faults

box_vars == <<box, mapped, up, lines>>
vars == <<plan, now, box_vars, frames, began, w, outcome, faults>>

PollFirst == {"health", "exit", "log"}
Kinds == PollFirst \cup {"exec", "file", "service", "port", "nop", "nil"}
Groups == {"all", "tls"}
Options == {"retry", "submatch", "anyPort", "noExternal", "noInternal", "noShell",
            "matcher", "roots", "cert"}

\* How strategies are made, whatever is in the list of one.
ASSUME StrategiesAssumption ==
  /\ Strategies \subseteq [kind : Kinds \cup Groups, timeout : 0..Forever,
                          options : SUBSET Options, deadline : 0..Forever, list : Seq(Strategies)]
  /\ Plans \subseteq {s \in Strategies : s.kind = "all"}

Places == {"begin", "poll", "state", "read", "sleep", "pause", "host", "recheck", "detect",
           "remap", "map", "check", "ask", "inside", "exec", "output", "inspect", "user"}

-----------------------------------------------------------------------------
Waiting == outcome = "none"
Inner == frames[Len(frames)]
S == Inner.all.list[Inner.turn]
At(kinds, place) == Waiting /\ w.at = place /\ S.kind \in kinds
Expired == now >= w.limit

Earlier(a, b) == IF a < b THEN a ELSE b
After(time) == Earlier(Forever, now + time)

\* Faulty: every strategy starts from a context of its own.
LimitDetached(s) == After(IF s.timeout = Forever THEN DefaultTimeout ELSE s.timeout)

\* A MultiStrategy sets its own timeout for strategies that could have one and do not; a
\* TLSStrategy does not show whether it has one.
OuterLimit(s) ==
  Earlier(Inner.limit,
          IF s.timeout = Forever /\ s.kind # "tls" THEN After(Inner.all.timeout) ELSE Forever)

\* Most strategies then add their own timeout, or sixty seconds.  ExitStrategy has no
\* default, and NopStrategy never uses its timeout.
LimitOf(s) ==
  Earlier(OuterLimit(s),
          CASE s.kind = "nop"                                        -> Forever
            [] s.kind \notin {"nop", "exit"} /\ s.timeout = Forever -> After(DefaultTimeout)
            [] OTHER                                                 -> After(s.timeout))

FirstPlace(s) ==
  CASE s.kind \in PollFirst           -> "poll"
    [] s.kind \in {"exec", "file"}    -> "pause"
    [] s.kind = "service"             -> "host"
    [] s.kind = "port"                -> IF "anyPort" \in s.options THEN "detect" ELSE "map"
    [] OTHER                          -> "user"

\* The strategy is "at" some place, wakes up at time "wake" to go on at "next" and has until
\* "limit", the command of an ExecStrategy until "until"; a log strategy has "seen" a length
\* of the log and "checked" the container.
Start(s) == [at |-> FirstPlace(s), next |-> "ask", wake |-> now + Poll,
             until |-> now + Poll + Poll, limit |-> LimitOf(s), seen |-> 0, checked |-> "ok"]

Go(place) == w' = [w EXCEPT !.at = place] /\ UNCHANGED <<frames, began, outcome>>
End(result) == outcome' = result /\ UNCHANGED <<frames, began, w>>
Pass ==
  /\ frames' = [frames EXCEPT ![Len(frames)].turn = @ + 1]
  /\ w' = [w EXCEPT !.at = "begin"] /\ UNCHANGED <<began, outcome>>

\* A TLSStrategy waits for its files: root certificates, which must be ones, a certificate,
\* and the key that must fit it.  Its timeout is the deadline of them all.
File(options) ==
  [kind |-> "file", timeout |-> Forever, options |-> options, deadline |-> Forever, list |-> <<>>]
Files(s) ==
  [s EXCEPT !.deadline = s.timeout, !.timeout = Forever,
            !.list = (IF "roots" \in s.options THEN <<File({"matcher"})>> ELSE <<>>) \o
                     (IF "cert" \in s.options THEN <<File({}), File({"matcher"})>> ELSE <<>>)]

\* Faulty: the inner MultiStrategy starts from a context of its own.
FrameDetached(s, limit) ==
  [all |-> s, turn |-> 1, began |-> now, limit |-> After(s.deadline)]

\* A MultiStrategy begins, its context limited from outside and by its own deadline.
Frame(s, limit) ==
  [all |-> s, turn |-> 1, began |-> now, limit |-> Earlier(limit, After(s.deadline))]

\* time.Sleep does not watch the context; a select on a timer, or on a ticker, does.  A
\* ticker does not wait for the strategy, and its next tick may be due already.
Ticks == IF S.kind \in {"file", "service"} /\ now # w.wake THEN now..now + Poll
                                                          ELSE {now + Poll}
Sleep(next, seen) ==
  /\ w' = [w EXCEPT !.at = "sleep", !.next = next, !.wake = now + Poll, !.seen = seen]
  /\ UNCHANGED <<frames, began, outcome>>
Pause(next) ==
  /\ \E tick \in Ticks :
       w' = [w EXCEPT !.at = "pause", !.next = next, !.wake = tick, !.until = tick + Poll]
  /\ UNCHANGED <<frames, began, outcome>>

\* Exec's own sleep, while the command it has started runs.
Nap ==
  /\ w' = [w EXCEPT !.at = "sleep", !.next = "inspect", !.wake = now + ExecPoll]
  /\ UNCHANGED <<frames, began, outcome>>

NoFault == faults' = faults
Answered == ~Expired /\ NoFault
Fails == \/ Expired /\ NoFault
         \/ ~Expired /\ faults < MaxFaults /\ faults' = faults + 1

outside == <<plan, now, box_vars>>

-----------------------------------------------------------------------------
Init ==
  /\ plan \in Plans
  /\ now = 0 /\ faults = 0
  /\ box = "running" /\ mapped = FALSE /\ up = FALSE /\ lines = 0
  /\ frames = <<Frame(plan, Forever)>> /\ began = 0 /\ outcome = "none"
  /\ w = [at |-> "begin", next |-> "ask", wake |-> 0, until |-> 0, limit |-> 0, seen |-> 0,
          checked |-> "ok"]

\* The loop of MultiStrategy.WaitUntilReady: no strategy at all is an error, nil ones are
\* skipped, and the first error ends the wait, however deep.
BeginTurn ==
  /\ Waiting /\ w.at = "begin" /\ Inner.turn <= Len(Inner.all.list) /\ NoFault
  /\ \/ S.kind = "nil" /\ Pass
     \/ /\ S.kind \in Kinds \ {"nil"}
        /\ w' = Start(S) /\ began' = now /\ UNCHANGED <<frames, outcome>>
     \/ /\ S.kind \in Groups
        /\ LET all == IF S.kind = "tls" THEN Files(S) ELSE S IN
           frames' = Append(frames, Frame(all, OuterLimit(S)))
        /\ UNCHANGED <<w, began, outcome>>
  /\ UNCHANGED outside

EndTurns ==
  /\ Waiting /\ w.at = "begin" /\ Inner.turn > Len(Inner.all.list) /\ NoFault
  /\ \/ Inner.all.list = <<>> /\ End("error")
     \/ Inner.all.list # <<>> /\ Len(frames) = 1 /\ End("ready")
     \/ /\ Inner.all.list # <<>> /\ Len(frames) > 1
        /\ frames' = [Front(frames) EXCEPT ![Len(frames) - 1].turn = @ + 1]
        /\ UNCHANGED <<w, began, outcome>>
  /\ UNCHANGED outside

\* Faulty: the context is not looked at before polling.
SelectBlind == At(PollFirst, "poll") /\ Go("state") /\ NoFault /\ UNCHANGED outside

Select ==
  /\ At(PollFirst, "poll") /\ NoFault
  /\ IF Expired THEN End("timeout") ELSE Go("state")
  /\ UNCHANGED outside

\* After time.Sleep, and after a timer.
Wake ==
  /\ Waiting /\ w.at \in {"sleep", "pause"} /\ now >= w.wake
  /\ Go(w.next) /\ NoFault /\ UNCHANGED outside

PauseExpires ==
  /\ Waiting /\ w.at = "pause" /\ Expired
  /\ End("timeout") /\ NoFault /\ UNCHANGED outside

-----------------------------------------------------------------------------
(* HealthStrategy, ExitStrategy and LogStrategy.                           *)

HealthState ==
  /\ At({"health"}, "state")
  /\ \/ Fails /\ End("error")
     \/ Answered /\ box = "gone" /\ End("error")
     \/ Answered /\ box = "exited" /\ End("dead")
     \/ Answered /\ box = "running" /\ up /\ Pass
     \/ Answered /\ box = "running" /\ ~up /\ Sleep("poll", w.seen)
  /\ UNCHANGED outside

\* A container that is gone has exited.
ExitState ==
  /\ At({"exit"}, "state")
  /\ \/ Fails /\ End("error")
     \/ Answered /\ box # "running" /\ Pass
     \/ Answered /\ box = "running" /\ Sleep("poll", w.seen)
  /\ UNCHANGED outside

\* The state is read first and judged only after the log has been read.
LogState ==
  /\ At({"log"}, "state")
  /\ \E state \in {"ok", "dead", "error"} :
       /\ \/ Fails /\ state = "error"
          \/ Answered /\ state = (CASE box = "running" -> "ok" [] box = "exited" -> "dead"
                                    [] OTHER -> "error")
       /\ w' = [w EXCEPT !.at = "read", !.checked = state]
  /\ UNCHANGED <<frames, began, outcome, outside>>

\* Faulty: gives up on a dead container before looking at its log.
LogReadQuits ==
  /\ At({"log"}, "read")
  /\ \/ (Fails \/ (Answered /\ box = "gone")) /\ Sleep("poll", w.seen)
     \/ /\ Answered /\ box # "gone"
        /\ IF w.checked # "ok" THEN End(w.checked)
           ELSE IF lines >= Entry THEN Pass ELSE Sleep("poll", lines)
  /\ UNCHANGED outside

\* An unreadable log is no reason to give up, however dead the container is; a log that
\* has not grown since it was last looked through is, if the container does not run.  A
\* callback for submatches, which sees whatever has matched so far, may reject it for good.
LogRead ==
  /\ At({"log"}, "read")
  /\ \/ (Fails \/ (Answered /\ box = "gone")) /\ Sleep("poll", w.seen)
     \/ /\ Answered /\ box # "gone"
        /\ \/ lines = w.seen /\ w.checked # "ok" /\ End(w.checked)
           \/ ~(lines = w.seen /\ w.checked # "ok") /\ lines >= Entry /\ Pass
           \/ /\ ~(lines = w.seen /\ w.checked # "ok")
              /\ "submatch" \in S.options /\ End("error")
           \/ /\ ~(lines = w.seen /\ w.checked # "ok") /\ lines < Entry
              /\ Sleep("poll", lines)
  /\ UNCHANGED outside

-----------------------------------------------------------------------------
(* ExecStrategy and FileStrategy, which do not look at the state.          *)

\* The command has a poll interval to answer.
TimedOut == now >= w.until

\* What an ExecStrategy makes of an error of Exec.
ExecFails ==
  \/ Expired /\ NoFault /\ End("timeout")
  \/ ~Expired /\ TimedOut /\ NoFault /\ Pause("ask")
  \/ /\ ~Expired /\ ~TimedOut /\ (Fails \/ (NoFault /\ box # "running"))
     /\ IF "retry" \in S.options THEN Pause("ask") ELSE End("error")

\* Exec creates the command and attaches to it.
ExecAsk ==
  /\ At({"exec"}, "ask")
  /\ \/ ExecFails
     \/ Answered /\ ~TimedOut /\ box = "running" /\ Go("output")
  /\ UNCHANGED outside

\* Multiplexed reads what the command writes to the end, and does not watch the context.
\* Whether and when it ends is up to the command.
OutputEnds ==
  /\ At({"exec"}, "output") /\ Go("inspect") /\ NoFault /\ UNCHANGED outside

\* Only then does Exec ask whether the command has ended, and how.
ExecInspect ==
  /\ At({"exec"}, "inspect")
  /\ \/ ExecFails
     \/ Answered /\ ~TimedOut /\ box = "running" /\ Nap
     \/ Answered /\ ~TimedOut /\ box # "gone" /\ up /\ Pass
     \/ Answered /\ ~TimedOut /\ box # "gone" /\ ~up /\ Pause("ask")
  /\ UNCHANGED outside

\* The file of a container that has exited can be read; that the container is gone looks
\* like a file that is not there yet.  A matcher that rejects the file, which may only be
\* half written, is final.
FileAsk ==
  /\ At({"file"}, "ask")
  /\ \/ Fails /\ End("error")
     \/ Answered /\ box # "gone" /\ up /\ Pass
     \/ Answered /\ box # "gone" /\ up /\ "matcher" \in S.options /\ End("error")
     \/ Answered /\ (box = "gone" \/ ~up) /\ Pause("ask")
  /\ UNCHANGED outside

-----------------------------------------------------------------------------
(* "service" stands for the SQL and HTTP strategies, "port" for            *)
(* HostPortStrategy.  Without a port they look for one ("anyPort"), with   *)
(* one they wait until it is mapped.                                       *)

FirstCheck == IF "noExternal" \in S.options THEN "inside" ELSE "host"
Ports == box = "running" /\ mapped

Host ==
  /\ At({"service", "port"}, "host")
  /\ \/ Fails /\ End("error")
     \/ /\ Answered
        /\ \/ S.kind = "port" /\ Go("check")
           \/ S.kind = "service" /\ "anyPort" \in S.options /\ Pause("recheck")
           \/ S.kind = "service" /\ "anyPort" \notin S.options /\ Go("map")
  /\ UNCHANGED outside

\* HostPortStrategy goes on looking for a port, HTTPStrategy looks once.
Detect ==
  /\ At({"service", "port"}, "detect")
  /\ \/ (Fails \/ (Answered /\ box = "gone")) /\ End("error")
     \/ /\ Answered /\ Ports
        /\ IF S.kind = "port" THEN Go("map") ELSE Pause("check")
     \/ /\ Answered /\ ~Ports /\ box # "gone"
        /\ IF S.kind = "port" THEN Pause("recheck") ELSE End("error")
  /\ UNCHANGED outside

\* No mapping and no answer are the same here.
MapPort ==
  /\ At({"service", "port"}, "map")
  /\ \/ /\ Answered /\ Ports
        /\ \/ S.kind = "service" /\ Pause("check")
           \/ S.kind = "port" /\ {"noExternal", "noInternal"} \subseteq S.options /\ Pass
           \/ /\ S.kind = "port" /\ ~({"noExternal", "noInternal"} \subseteq S.options)
              /\ Go(FirstCheck)
     \/ (Fails \/ (Answered /\ ~Ports)) /\ Pause("remap")
  /\ UNCHANGED outside

\* checkTarget, on the way to "next".
CheckTarget(kinds, place, next) ==
  /\ At(kinds, place)
  /\ \/ Fails /\ End("error")
     \/ Answered /\ box = "running" /\ Go(next)
     \/ Answered /\ box = "exited" /\ End("dead")
     \/ Answered /\ box = "gone" /\ End("error")
  /\ UNCHANGED outside

Recheck == CheckTarget({"service", "port"}, "recheck", "detect")
Remap == CheckTarget({"service", "port"}, "remap", "map")
Check == CheckTarget({"service", "port"}, "check", "ask")

ServiceAsk ==
  /\ At({"service"}, "ask")
  /\ \/ Answered /\ box = "running" /\ up /\ Pass
     \/ (Fails \/ (Answered /\ ~(box = "running" /\ up))) /\ Pause("check")
  /\ UNCHANGED outside

\* externalCheck: a refused connection is tried again, any other error is final.
Dial ==
  /\ At({"port"}, "ask")
  /\ \/ Fails /\ End("error")
     \/ Answered /\ ~(box = "running" /\ up) /\ Sleep("check", w.seen)
     \/ /\ Answered /\ box = "running" /\ up
        /\ IF "noInternal" \in S.options THEN Pass ELSE Go("inside")
  /\ UNCHANGED outside

\* internalCheck polls as fast as the Engine answers.
Inside ==
  \/ At({"port"}, "inside") /\ Expired /\ End("timeout") /\ NoFault /\ UNCHANGED outside
  \/ CheckTarget({"port"}, "inside", "exec")

\* Here Exec leaves the output alone.
InsideExec ==
  /\ At({"port"}, "exec")
  /\ \/ (Fails \/ (Answered /\ box # "running")) /\ End("error")
     \/ Answered /\ box = "running" /\ Go("inspect")
  /\ UNCHANGED outside

\* A container without a shell passes.
InsideInspect ==
  /\ At({"port"}, "inspect")
  /\ \/ (Fails \/ (Answered /\ box = "gone")) /\ End("error")
     \/ Answered /\ box = "running" /\ Nap
     \/ Answered /\ box # "gone" /\ (up \/ "noShell" \in S.options) /\ Pass
     \/ Answered /\ box # "gone" /\ ~up /\ "noShell" \notin S.options /\ Go("inside")
  /\ UNCHANGED outside

\* NopStrategy calls the user's function, which returns when its context ends.
User ==
  /\ At({"nop"}, "user")
  /\ \/ Answered /\ Pass
     \/ Fails /\ End("error")
  /\ UNCHANGED outside

-----------------------------------------------------------------------------
(* The container, and time.                                                *)

Boots ==
  /\ Waiting /\ box = "running"
  /\ \/ ~mapped /\ mapped' = TRUE /\ UNCHANGED <<up, lines>>
     \/ up' = ~up /\ UNCHANGED <<mapped, lines>>
     \/ lines < Entry /\ lines' = lines + 1 /\ UNCHANGED <<mapped, up>>
  /\ UNCHANGED <<plan, now, box, frames, began, w, outcome, faults>>

Exits ==
  /\ Waiting
  /\ \/ box = "running" /\ box' = "exited"
     \/ box = "exited" /\ box' = "gone"
  /\ UNCHANGED <<plan, now, mapped, up, lines, frames, began, w, outcome, faults>>

\* Time passes while the strategy has nothing to do, or until its call must return.
Tick ==
  /\ Waiting /\ now < MaxTime
  /\ CASE w.at \in {"begin", "poll"} -> FALSE
       [] w.at = "sleep"             -> now < w.wake
       [] w.at = "pause"             -> now < w.wake /\ ~Expired
       [] w.at = "output"            -> TRUE
       [] w.at \in {"ask", "inspect"} /\ S.kind = "exec" -> ~Expired /\ ~TimedOut
       [] OTHER                      -> ~Expired
  /\ now' = now + 1
  /\ UNCHANGED <<plan, box_vars, frames, began, w, outcome, faults>>

Strategy ==
  \/ BeginTurn \/ EndTurns \/ Select \/ Wake \/ PauseExpires \/ HealthState \/ ExitState \/ LogState
  \/ LogRead \/ ExecAsk \/ ExecInspect \/ FileAsk \/ Host \/ Detect \/ MapPort \/ Recheck
  \/ Remap \/ Check \/ ServiceAsk \/ Dial \/ Inside \/ InsideExec \/ InsideInspect \/ User

Next == Strategy \/ OutputEnds \/ Boots \/ Exits \/ Tick

Spec == Init /\ [][Next]_vars

\* The waiting goroutine is scheduled, and time passes; a command need not end its output.
FairSpec == Spec /\ WF_vars(Strategy) /\ WF_vars(Tick)

-----------------------------------------------------------------------------
(* Properties.                                                             *)

\* The longest that a strategy sleeps without watching its context.
Oversleep == IF Poll < ExecPoll THEN ExecPoll ELSE Poll

\* Every variable holds a value of its kind, and no context ends later than the one around it.
TypeOK ==
  /\ plan \in Plans
  /\ now \in 0..MaxTime /\ began \in 0..now
  /\ box \in {"running", "exited", "gone"}
  /\ mapped \in BOOLEAN /\ up \in BOOLEAN /\ lines \in 0..Entry
  /\ frames # <<>> /\ frames[1].all = plan
  /\ \A i \in DOMAIN frames :
       /\ frames[i].turn \in 1..Len(frames[i].all.list) + 1
       /\ frames[i].limit \in 0..Forever /\ frames[i].began \in 0..now
       /\ \A j \in 1..i : frames[i].limit <= frames[j].limit
  /\ w \in [at : Places, next : Places, wake : 0..MaxTime + Oversleep,
            until : 0..MaxTime + Poll + Poll, limit : 0..Forever, seen : 0..lines,
            checked : {"ok", "dead", "error"}]
  /\ w.at # "begin" => w.limit <= Inner.limit
  /\ outcome \in {"none", "ready", "timeout", "dead", "error"}
  /\ faults \in 0..MaxFaults

\* How long strategy s may take at most: its own timeout, or else that of the list it is in,
\* or else the default of its kind.
Allowed(all, s) ==
  CASE s.timeout # Forever /\ s.kind # "nop" -> s.timeout
    [] s.timeout # Forever /\ s.kind = "nop" -> Forever
    [] s.timeout = Forever /\ s.kind = "tls" -> Forever
    [] s.timeout = Forever /\ s.kind # "tls" ->
         IF all.timeout = Forever /\ s.kind \notin {"exit", "nop", "all"} THEN DefaultTimeout
         ELSE all.timeout

\* The times that the strategies now running have had, each with what it was allowed: the
\* one that polls, and every MultiStrategy around it.
Spans ==
  {<<now - began, Allowed(Inner.all, S)>>}
    \cup {<<now - frames[i].began, frames[i].all.deadline>> : i \in DOMAIN frames}
    \cup {<<now - frames[i + 1].began,
            IF frames[i + 1].all.kind = "tls" THEN Forever
            ELSE IF frames[i + 1].all.timeout = Forever THEN frames[i].all.timeout
            ELSE Forever>> : i \in 1..Len(frames) - 1}

\* The command of an ExecStrategy still writes, or has just ended.
Commanded == w.at \in {"output", "inspect"} /\ S.kind = "exec"

\* No wait overruns the deadline of any MultiStrategy around it, or its own timeout, by more
\* than a sleep that does not watch the context, whatever fails and however slowly the Engine
\* answers; but for the time in which an ExecStrategy's command has not ended its output,
\* after which nothing goes on that is late.
InTime ==
  Waiting /\ w.at # "begin" /\ ~Commanded => \A span \in Spans : span[1] <= span[2] + Oversleep

\* WithDeadline's comment: it "limits all wait strategies".
DeadlineLimits ==
  Waiting => \A i \in DOMAIN frames : now - frames[i].began <= frames[i].all.deadline + Oversleep

\* WithStartupTimeoutDefault's comment: it "sets the default timeout for all inner wait
\* strategies", so that one without a timeout of its own does not time out before.
DefaultHolds ==
  outcome = "timeout" /\ S.timeout = Forever /\ Inner.all.timeout # Forever =>
    now >= Earlier(Inner.limit, began + Inner.all.timeout)

\* A log strategy gives up on a dead container only if the entry is not in its log, also
\* when the container writes it and exits between two polls.
LogNotMissed ==
  outcome = "dead" /\ S.kind = "log" => lines < Entry

\* A wait comes to an end, unless it stays in a strategy to which nothing sets a limit, or
\* with a command that never ends its output.
WaitEnds ==
  \/ <>(outcome # "none")
  \/ <>[](w.at # "begin" /\ \A span \in Spans : span[2] = Forever)
  \/ <>[](Commanded /\ w.at = "output")

=============================================================================
