---------------------------- MODULE ContextStore ----------------------------
(***************************************************************************)
(* The store of Docker contexts as package context uses it: a directory    *)
(* per context with its meta.json, and the config.json that names the      *)
(* current one.  Nothing locks these files, so each call is a sequence of  *)
(* file system steps, and the steps of several goroutines or processes     *)
(* interleave.  Any call may be cut short by a crash or a failing step.    *)
(***************************************************************************)
EXTENDS Naturals, FiniteSets

CONSTANTS Procs,      \* the callers
          Names,      \* names of contexts
          MaxCalls,   \* bound: calls made altogether
          MaxFaults   \* bound: calls cut short

Default == "default"
NotWhole == {"absent", "empty", "torn"}

ASSUME ConstantsAssumption ==
  /\ Default \notin Names /\ "empty" \notin Names
  /\ Procs \cap NotWhole = {}
  /\ MaxCalls \in Nat /\ MaxFaults \in Nat

VARIABLES
  dir,      \* which directories exist
  meta,     \* each meta.json: the caller that wrote it, or why it is not whole
  host,     \* does the docker endpoint of each meta.json name a host?
  config,   \* CurrentContext in config.json, "empty" while the file is truncated
  handles,  \* the Context values that callers hold
  proc,     \* the last or current call of each caller
  calls, faults,
  clash,    \* ghost: names that two New calls were adding at once
  cut,      \* ghost: names whose files a call was cut short at
  bare,     \* ghost: names that a New without a host was called with
  stale     \* ghost: a Delete had the wrong isCurrent, or crossed a New

files == <<dir, meta, host, config>>
ghosts == <<clash, cut, bare, stale>>
vars == <<files, handles, proc, calls, faults, ghosts>>

Adding == {"mkdir", "open", "write"}
Saving == {"load", "truncate", "save"}
Listing == {"list", "walk", "read", "mark"}
Removing == {"unlink", "rmdir"}
Places == {"idle", "host", "check"} \cup Listing \cup Adding \cup Saving \cup Removing
Errs == {"none", "exists", "notfound", "nohost", "fail"}

-----------------------------------------------------------------------------
(* A call, and the ways it goes on.                                        *)

Idle(p) == proc[p].at = "idle"
At(p, place) == proc[p].at = place
Whole(n) == meta[n] \notin NotWhole

\* "host": was New given a host?  "unset": has Inspect read that its context names none?
\* "gap" and "undone" are ghosts: the context was not whole at some moment of the call,
\* and another caller has undone what the call does.
Begun(op, n, use, place) ==
  [op |-> op, name |-> n, use |-> use, at |-> place, todo |-> {}, found |-> {},
   linked |-> FALSE, err |-> "none", host |-> TRUE, unset |-> FALSE,
   gap |-> IF n \in Names THEN ~Whole(n) ELSE TRUE, undone |-> FALSE]

Goto(r, place) == [r EXCEPT !.at = place, !.todo = {}]
\* What a call leaves behind is its name, its outcome and the ghosts.
Return(r, err) ==
  [r EXCEPT !.at = "idle", !.err = err, !.todo = {}, !.found = {}, !.use = FALSE,
            !.linked = FALSE, !.host = TRUE, !.unset = FALSE]

\* New takes an error of Inspect, whatever it is, for the absence of the context.
ListingFails(r, err) == IF r.op = "New" THEN Goto(r, "check") ELSE Return(r, err)

\* Caller p goes on as record r.
Step(p, r) == proc' = [proc EXCEPT ![p] = r]

\* The same, where the other callers that work on p's context go on as "seen" says.
StepSeen(p, r, seen) ==
  proc' = [q \in Procs |-> IF q = p THEN r
                           ELSE IF proc[q].name = proc[p].name THEN seen[q] ELSE proc[q]]

-----------------------------------------------------------------------------
Init ==
  /\ dir = [n \in Names |-> FALSE]
  /\ meta = [n \in Names |-> "absent"]
  /\ host = [n \in Names |-> TRUE]
  /\ config = Default
  /\ handles = {}
  /\ proc = [p \in Procs |-> Return(Begun("none", Default, FALSE, "idle"), "none")]
  /\ calls = 0 /\ faults = 0
  /\ clash = {} /\ cut = {} /\ bare = {} /\ stale = FALSE

Begin(p, r) ==
  /\ Idle(p) /\ calls < MaxCalls
  /\ calls' = calls + 1
  /\ Step(p, r)
  /\ bare' = IF r.host THEN bare ELSE bare \cup {r.name}
  /\ UNCHANGED <<files, handles, faults, clash, cut, stale>>

\* Faulty: the reserved name is accepted.
BeginNewReserved(p, n, use, named) ==
  Begin(p, [Begun("New", n, use, "list") EXCEPT !.host = named])

\* New refuses the reserved name at once.  It takes a context with or without a host.
BeginNew(p, n, use, named) ==
  n # Default /\ Begin(p, [Begun("New", n, use, "list") EXCEPT !.host = named])

BeginInspect(p, n) == Begin(p, Begun("Inspect", n, FALSE, "list"))

\* The handle's own flag decides whether the current context is reset.
BeginDelete(p, h) == Begin(p, Begun("Delete", h.name, h.isCurrent, "unlink"))

\* CurrentDockerHost, when the environment leaves the choice to the config.
BeginHost(p) == Begin(p, Begun("Host", Default, FALSE, "host"))

HostReads(p) ==
  /\ At(p, "host")
  /\ Step(p, CASE config = "empty" -> Return(proc[p], "fail")
               [] config = Default -> Return(proc[p], "none")
               [] OTHER            -> Begun("Host", config, FALSE, "list"))
  /\ UNCHANGED <<files, handles, calls, faults, ghosts>>

-----------------------------------------------------------------------------
(* inspect: the walk, the reading of what it found, and the current mark.  *)

ReadNames(p) ==
  /\ At(p, "list")
  /\ Step(p, [Goto(proc[p], "walk") EXCEPT !.todo = {n \in Names : dir[n]}])
  /\ UNCHANGED <<files, handles, calls, faults, ghosts>>

Deleting(n) == \E p \in Procs : proc[p].at \in Removing /\ proc[p].name = n

\* Faulty: a directory without meta.json ends the walk.
VisitStops(p) ==
  /\ At(p, "walk")
  /\ \E n \in proc[p].todo :
       Step(p, IF Whole(n) THEN [proc[p] EXCEPT !.todo = @ \ {n}, !.found = @ \cup {n}]
               ELSE [proc[p] EXCEPT !.todo = {}])
  /\ UNCHANGED <<files, handles, calls, faults, ghosts>>

\* A directory that vanishes under the walk fails it: filepath.Walk reports the error to
\* a callback that returns it.  A vanishing meta.json may do so too.
Visit(p) ==
  /\ At(p, "walk")
  /\ \E n \in proc[p].todo :
       \/ /\ dir[n]
          /\ Step(p, [proc[p] EXCEPT !.todo = @ \ {n},
                        !.found = IF meta[n] = "absent" THEN @ ELSE @ \cup {n}])
       \/ /\ ~dir[n] \/ (meta[n] = "absent" /\ Deleting(n))
          /\ Step(p, ListingFails(proc[p], "fail"))
  /\ UNCHANGED <<files, handles, calls, faults, ghosts>>

WalkDone(p) ==
  /\ At(p, "walk") /\ proc[p].todo = {}
  /\ Step(p, [proc[p] EXCEPT !.at = "read", !.todo = proc[p].found, !.found = {}])
  /\ UNCHANGED <<files, handles, calls, faults, ghosts>>

\* A file that is gone by now is skipped; one that does not parse fails the listing.
Read(p) ==
  /\ At(p, "read")
  /\ \E n \in proc[p].todo :
       Step(p, IF meta[n] \in {"empty", "torn"} THEN ListingFails(proc[p], "fail")
               ELSE [proc[p] EXCEPT !.todo = @ \ {n},
                       !.found = IF Whole(n) THEN @ \cup {n} ELSE @,
                       !.unset = @ \/ (n = proc[p].name /\ Whole(n) /\ ~host[n])])
  /\ UNCHANGED <<files, handles, calls, faults, ghosts>>

\* A context without a host is found, and yet Inspect returns an error.
ReadDone(p) ==
  /\ At(p, "read") /\ proc[p].todo = {}
  /\ Step(p, IF proc[p].name \notin proc[p].found THEN ListingFails(proc[p], "notfound")
             ELSE IF proc[p].unset THEN ListingFails(proc[p], "nohost")
             ELSE Goto(proc[p], "mark"))
  /\ UNCHANGED <<files, handles, calls, faults, ghosts>>

\* inspect reads the config for isCurrent, and so needs it to be readable.
MarkCurrent(p) ==
  /\ At(p, "mark")
  /\ IF config = "empty"
     THEN Step(p, ListingFails(proc[p], "fail")) /\ UNCHANGED handles
     ELSE /\ Step(p, Return(proc[p], IF proc[p].op = "New" THEN "exists" ELSE "none"))
          /\ handles' = IF proc[p].op # "Inspect" THEN handles
                        ELSE handles \cup {[name |-> proc[p].name,
                                            isCurrent |-> config = proc[p].name]}
  /\ UNCHANGED <<files, calls, faults, ghosts>>

-----------------------------------------------------------------------------
(* add.                                                                    *)

\* Another caller is adding context n.
OtherAdds(p, n) == \E q \in Procs \ {p} : proc[q].at \in Adding /\ proc[q].name = n

\* Faulty: relies on Inspect to tell that the context exists.
CheckSkipped(p) ==
  /\ At(p, "check")
  /\ clash' = IF OtherAdds(p, proc[p].name) THEN clash \cup {proc[p].name} ELSE clash
  /\ Step(p, Goto(proc[p], "mkdir"))
  /\ UNCHANGED <<files, handles, calls, faults, cut, bare, stale>>

Check(p) ==
  /\ At(p, "check")
  /\ \/ dir[proc[p].name] /\ Step(p, Return(proc[p], "exists")) /\ clash' = clash
     \/ /\ ~dir[proc[p].name]
        /\ Step(p, Goto(proc[p], "mkdir"))
        /\ clash' = IF OtherAdds(p, proc[p].name) THEN clash \cup {proc[p].name} ELSE clash
  /\ UNCHANGED <<files, handles, calls, faults, cut, bare, stale>>

\* MkdirAll does not mind a directory that another caller has made meanwhile.
Mkdir(p) ==
  /\ At(p, "mkdir")
  /\ dir' = [dir EXCEPT ![proc[p].name] = TRUE]
  /\ StepSeen(p, Goto(proc[p], "open"),
       [q \in Procs |-> [proc[q] EXCEPT !.undone = @ \/ proc[q].op = "Delete"]])
  /\ UNCHANGED <<meta, host, config, handles, calls, faults, ghosts>>

\* WriteFile, first half: create or truncate.
Open(p) ==
  /\ At(p, "open")
  /\ IF dir[proc[p].name]
     THEN /\ meta' = [meta EXCEPT ![proc[p].name] = "empty"]
          /\ StepSeen(p, [Goto(proc[p], "write") EXCEPT !.linked = TRUE],
               [q \in Procs |-> [proc[q] EXCEPT !.gap = TRUE]])
     ELSE /\ meta' = meta
          /\ Step(p, Return(proc[p], "fail"))
  /\ UNCHANGED <<dir, host, config, handles, calls, faults, ghosts>>

\* Second half.  What is written may be shorter than what another caller wrote to the
\* same file meanwhile, whose rest then follows it; a file unlinked meanwhile is written
\* in vain.
Write(p) ==
  /\ At(p, "write")
  /\ \E content \in IF meta[proc[p].name] = "empty" THEN {p} ELSE {p, "torn"} :
       meta' = IF proc[p].linked THEN [meta EXCEPT ![proc[p].name] = content] ELSE meta
  /\ host' = IF proc[p].linked THEN [host EXCEPT ![proc[p].name] = proc[p].host] ELSE host
  /\ IF proc[p].use THEN Step(p, Goto(proc[p], "load")) /\ UNCHANGED handles
     ELSE /\ Step(p, Return(proc[p], "none"))
          /\ handles' = handles \cup {[name |-> proc[p].name, isCurrent |-> FALSE]}
  /\ UNCHANGED <<dir, config, calls, faults, ghosts>>

-----------------------------------------------------------------------------
(* The current context is set by New and reset by Delete.                  *)

Load(p) ==
  /\ At(p, "load")
  /\ Step(p, IF config = "empty" THEN Return(proc[p], "fail") ELSE Goto(proc[p], "truncate"))
  /\ UNCHANGED <<files, handles, calls, faults, ghosts>>

Truncate(p) ==
  /\ At(p, "truncate")
  /\ config' = "empty"
  /\ Step(p, Goto(proc[p], "save"))
  /\ UNCHANGED <<dir, meta, host, handles, calls, faults, ghosts>>

\* The decoder of the config reads one JSON value and ignores what may follow it.
Save(p) ==
  /\ At(p, "save")
  /\ config' = IF proc[p].op = "New" THEN proc[p].name ELSE Default
  /\ Step(p, Return(proc[p], "none"))
  /\ handles' = IF proc[p].op = "New"
                THEN handles \cup {[name |-> proc[p].name, isCurrent |-> TRUE]} ELSE handles
  /\ UNCHANGED <<dir, meta, host, calls, faults, ghosts>>

-----------------------------------------------------------------------------
(* delete: os.RemoveAll, which accepts that there is nothing to remove.    *)

CrossesNew(p) == \E q \in Procs \ {p} :
  ~Idle(q) /\ proc[q].op = "New" /\ proc[q].name = proc[p].name

Unlink(p) ==
  /\ At(p, "unlink")
  /\ meta' = [meta EXCEPT ![proc[p].name] = "absent"]
  /\ StepSeen(p, Goto(proc[p], "rmdir"),
       [q \in Procs |-> [proc[q] EXCEPT !.gap = TRUE, !.linked = FALSE,
                                         !.undone = @ \/ proc[q].op = "New"]])
  /\ stale' = (stale \/ CrossesNew(p) \/ (proc[p].use # (config = proc[p].name)))
  /\ UNCHANGED <<dir, host, config, handles, calls, faults, clash, cut, bare>>

AfterDelete(r) == IF r.use THEN Goto(r, "load") ELSE Return(r, "none")

\* Faulty: only the file is removed.
RmdirNever(p) ==
  /\ At(p, "rmdir")
  /\ Step(p, AfterDelete(proc[p]))
  /\ UNCHANGED <<files, handles, calls, faults, ghosts>>

\* Faulty: the current context is never reset.
RmdirNoReset(p) ==
  /\ At(p, "rmdir") /\ meta[proc[p].name] = "absent"
  /\ dir' = [dir EXCEPT ![proc[p].name] = FALSE]
  /\ Step(p, Return(proc[p], "none"))
  /\ UNCHANGED <<meta, host, config, handles, calls, faults, ghosts>>

\* The directory is not empty when a New has created its file meanwhile.
Rmdir(p) ==
  /\ At(p, "rmdir")
  /\ \/ /\ meta[proc[p].name] = "absent"
        /\ dir' = [dir EXCEPT ![proc[p].name] = FALSE]
        /\ Step(p, AfterDelete(proc[p]))
     \/ /\ meta[proc[p].name] # "absent"
        /\ dir' = dir
        /\ Step(p, Return(proc[p], "fail"))
  /\ UNCHANGED <<meta, host, config, handles, calls, faults, ghosts>>

-----------------------------------------------------------------------------
\* The places between two steps on one file, or on one directory.
HalfWay == {"open", "write", "rmdir", "save"}

\* The call ends where it is: its process crashes, or a step of it fails.
CutShort(p) ==
  /\ ~Idle(p) /\ faults < MaxFaults
  /\ faults' = faults + 1
  /\ Step(p, Return(proc[p], "fail"))
  /\ cut' = IF proc[p].at \in HalfWay THEN cut \cup {proc[p].name} ELSE cut
  /\ UNCHANGED <<files, handles, calls, clash, bare, stale>>

BeginCall(p) ==
  \/ \E n \in Names \cup {Default}, use, named \in BOOLEAN : BeginNew(p, n, use, named)
  \/ \E n \in Names : BeginInspect(p, n)
  \/ \E h \in handles : BeginDelete(p, h)
  \/ BeginHost(p)

InspectStep(p) ==
  \/ HostReads(p) \/ ReadNames(p) \/ Visit(p) \/ WalkDone(p) \/ Read(p) \/ ReadDone(p)
  \/ MarkCurrent(p)

AddStep(p) == Check(p) \/ Mkdir(p) \/ Open(p) \/ Write(p)
SaveStep(p) == Load(p) \/ Truncate(p) \/ Save(p)
DeleteStep(p) == Unlink(p) \/ Rmdir(p)

Next ==
  \E p \in Procs :
    BeginCall(p) \/ InspectStep(p) \/ AddStep(p) \/ SaveStep(p) \/ DeleteStep(p) \/ CutShort(p)

Spec == Init /\ [][Next]_vars

-----------------------------------------------------------------------------
(* Properties.                                                             *)

Calls == [op : {"none", "New", "Inspect", "Delete", "Host"}, name : Names \cup {Default},
          use : BOOLEAN, at : Places, todo : SUBSET Names, found : SUBSET Names,
          linked : BOOLEAN, err : Errs, host : BOOLEAN, unset : BOOLEAN, gap : BOOLEAN, undone : BOOLEAN]

\* Every variable holds a value of its kind, and only a call that is asked about the
\* config's own context may have no context to work on.
TypeOK ==
  /\ dir \in [Names -> BOOLEAN]
  /\ meta \in [Names -> NotWhole \cup Procs]
  /\ host \in [Names -> BOOLEAN]
  /\ config \in Names \cup {Default, "empty"}
  /\ handles \subseteq [name : Names, isCurrent : BOOLEAN]
  /\ proc \in [Procs -> Calls]
  /\ \A p \in Procs : proc[p].at \notin {"idle", "host"} => proc[p].name \in Names
  /\ calls \in 0..MaxCalls /\ faults \in 0..MaxFaults
  /\ clash \cup cut \cup bare \subseteq Names /\ stale \in BOOLEAN

Quiet == \A p \in Procs : Idle(p)

\* Would Inspect, called when nobody else is at work, return context n (to be deleted)?
\* It reads the whole store and the config, and refuses a context without a host.
Inspectable(n) ==
  /\ Whole(n) /\ host[n] /\ config # "empty"
  /\ \A m \in Names : meta[m] \notin {"empty", "torn"}

\* A name is stuck when its directory, which keeps New from creating it, holds no context
\* that Inspect returns.  A call that is cut short, and two New calls that clash, leave no
\* directory without a context but those of their own names; and while there were none of
\* these, a name is stuck only if New was called with it and without a host.
NoStuckName ==
  Quiet =>
    /\ \A n \in Names \ (clash \cup cut) : dir[n] <=> Whole(n)
    /\ clash \cup cut = {} => \A n \in Names \ bare : dir[n] => Inspectable(n)

\* What a successful call has done stays done until another caller undoes it: the context
\* New reported is there with what New wrote, and the one Delete reported is gone.
EffectStays ==
  \A p \in Procs :
    Idle(p) /\ proc[p].err = "none" /\ ~proc[p].undone =>
      /\ proc[p].op = "New" /\ proc[p].name \notin clash =>
           dir[proc[p].name] /\ meta[proc[p].name] = p
      /\ proc[p].op = "Delete" => ~dir[proc[p].name]

\* Inspect reports that a context does not exist only if, at some moment of the call, it
\* did not, whatever was being created and deleted next to it.
NotFoundIsTrue ==
  \A p \in Procs : Idle(p) /\ proc[p].err = "notfound" => proc[p].gap

\* When nothing was cut short, the config ends up readable and names a context that
\* exists, unless a Delete crossed a New of its context or had the wrong flag.
CurrentNotDangling ==
  Quiet /\ faults = 0 /\ ~stale =>
    config = Default \/ (config \in Names /\ (config \in clash \/ Whole(config)))

\* New's comment: "If the context already exists, it returns an error", so that of two
\* New calls that succeed with one name, one comes after a Delete of what the other made.
ExistingIsRefused ==
  \A p, q \in Procs :
    /\ p # q /\ Idle(p) /\ Idle(q) /\ proc[p].name = proc[q].name
    /\ proc[p].op = "New" /\ proc[q].op = "New"
    /\ proc[p].err = "none" /\ proc[q].err = "none"
    => proc[p].undone \/ proc[q].undone


=============================================================================
