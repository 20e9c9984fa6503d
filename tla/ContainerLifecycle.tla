------------------------- MODULE ContainerLifecycle -------------------------
(***************************************************************************)
(* The life of one container as package container drives it: Run, Start,   *)
(* Stop and Terminate, called by several goroutines on handles they share, *)
(* step by step between the calls to the Docker Engine.                    *)
(*                                                                         *)
(* A call is a record of the variable "call".  Its field "at" says where   *)
(* the goroutine is: in a phase of lifecycle hooks (the fields of          *)
(* LifecycleHooks), at a call to the Engine, or idle.  Each Engine call is *)
(* one step (two for the removal, which the Engine does not do at once),   *)
(* each hook is one step, and whatever another goroutine or the container  *)
(* itself does may happen in between.                                      *)
(***************************************************************************)
EXTENDS Naturals, Sequences, FiniteSets

CONSTANTS Callers,        \* the goroutines
          UserHooks,      \* the phases in which the caller has registered a hook
          ExtraNetworks,  \* the networks of the definition after the first one
          MaxCalls,       \* bound: calls made altogether
          MaxFaults       \* bound: failing hooks and failing Engine calls

ASSUME ConstantsAssumption ==
  /\ ExtraNetworks \in Nat
  /\ MaxCalls \in Nat
  /\ MaxFaults \in Nat

VARIABLES
  box,        \* the container, in the Engine
  images,     \* the images present in the Engine
  image,      \* def.image, which a PreCreates hook or a substitutor may set
  volume,     \* is the volume named by RemoveVolumes still there?
  known,      \* the handles that callers hold
  isRunning,  \* the unsynchronised field of each handle
  call,       \* the last or current call of each goroutine
  calls,      \* how many calls were made
  faults,     \* how many faults were injected
  unseen,     \* ghost: the Engine created the container but the reply was lost
  behind      \* ghost: the container may have stopped behind the handle's back

vars == <<box, images, image, volume, known, isRunning, call, calls, faults,
          unseen, behind>>

\* "run" is the handle Run builds, "found" one that FromID builds.
Handles == {"run", "found"}

Phases == {"PreCreates", "PostCreates", "PreStarts", "PostStarts", "PostReadies",
           "PreStops", "PostStops", "PreTerminates", "PostTerminates"}
EngineCalls == {"ContainerCreate", "NetworkConnect", "ContainerStart", "ContainerStop",
                "ContainerRemove", "removing", "VolumeRemove"}
Places == Phases \cup EngineCalls
            \cup {"idle", "prepare", "substitute", "stopped"}
Hooks == {"preCreate", "user", "pull", "copy", "wait"}
Tasks == Hooks \cup {"network"}
Images == {"base", "built", "substituted"}
BoxStates == {"none", "created", "running", "exited", "removing", "removed"}

-----------------------------------------------------------------------------
(* Errors.  A Go error is the set of the kinds of the errors it joins.     *)

ErrKinds == {"fail", "notfound", "conflict", "inprogress"}

\* Faulty: forgets that another goroutine may be removing the container.
IsCleanupSafeNoProgress(errs) == errs = {} \/ "notfound" \in errs

\* isCleanupSafe.  errdefs.IsNotFound and IsConflict look into joined errors, so
\* one such error decides for the whole join and the loop over Unwrap() []error
\* only sees joins without any of them.
IsCleanupSafe(errs) ==
  \/ errs = {}
  \/ "notfound" \in errs
  \/ "inprogress" \in errs

-----------------------------------------------------------------------------
(* The hooks of a phase: combineContainerHooks.                            *)

PrePhases == {"PreCreates", "PreStarts", "PreStops", "PreTerminates"}

DefaultHooks(phase) ==
  CASE phase = "PreCreates"  -> <<"preCreate">>
    [] phase = "PostCreates" -> <<"copy">>
    [] phase = "PostStarts"  -> <<"wait">>
    [] OTHER                 -> <<>>

User(phase) == IF phase \in UserHooks THEN <<"user">> ELSE <<>>

\* Faulty: the image is pulled before the caller's hooks have chosen it.
PullFirst(phase) ==
  IF phase = "PreCreates" THEN <<"pull">> \o DefaultHooks(phase) \o User(phase)
  ELSE User(phase) \o DefaultHooks(phase)

\* Default hooks surround the caller's, and the pull comes last of all.
CombinedHooks(phase) ==
  IF phase \in PrePhases
  THEN DefaultHooks(phase) \o User(phase)
         \o (IF phase = "PreCreates" THEN <<"pull">> ELSE <<>>)
  ELSE User(phase) \o DefaultHooks(phase)

\* FromResponse gives its handle the logging hooks only, which change nothing.
HooksOf(h, phase) == IF h = "run" THEN CombinedHooks(phase) ELSE <<>>

-----------------------------------------------------------------------------
(* What a call does next, as functions of its record.                      *)

Enter(r, phase) == [r EXCEPT !.at = phase, !.todo = HooksOf(r.h, phase)]
Goto(r, place)  == [r EXCEPT !.at = place]
Return(r, errs) == [r EXCEPT !.at = "idle", !.todo = <<>>, !.errs = errs]
AddErr(r, e)    == [r EXCEPT !.errs = @ \cup {e}]
Faulted(r)      == [r EXCEPT !.faulted = TRUE]
Pass(r, task)   == [r EXCEPT !.passed = @ \cup {<<r.at, task>>}]
NextTask(r)     == [r EXCEPT !.todo = Tail(@)]
Forgive(r)      == [r EXCEPT !.errs = {}]
LastTask(r)     == [r EXCEPT !.todo = <<>>]

\* Faulty: Terminate takes an ignorable error of Stop for its own end.
AfterStopQuits(r, errs) ==
  IF r.op = "Terminate" /\ errs = {}
  THEN Enter(Forgive(r), "PreTerminates")
  ELSE Return(r, IF IsCleanupSafe(errs) THEN {} ELSE errs)

\* Stop ends: for Stop itself the call returns, while Terminate goes on when the
\* error is one it may ignore.
AfterStop(r, errs) ==
  IF r.op = "Terminate" /\ IsCleanupSafe(errs)
  THEN Enter(Forgive(r), "PreTerminates")
  ELSE Return(r, errs)

Idle(c) == call[c].at = "idle"
At(c, place) == call[c].at = place
HooksDone(c, phase) == call[c].at = phase /\ call[c].todo = <<>>

\* Goroutine c goes on as record r, in Run before the container exists: there is no
\* handle to give.
StepNoHandle(c, r) ==
  /\ call' = [call EXCEPT ![c] = r]
  /\ known' = known

\* Goroutine c goes on as record r; a call that returns leaves its handle to callers.
Step(c, r) ==
  /\ call' = [call EXCEPT ![c] = r]
  /\ known' = IF r.at = "idle" THEN known \cup {r.h} ELSE known

\* A failing hook or Engine call is charged to the budget of faults.
MayFail == faults < MaxFaults /\ faults' = faults + 1
NoFault == faults' = faults

\* Is a goroutine other than c in the middle of a call on handle h?
Overlapping(c, h) == \E d \in Callers \ {c} : ~Idle(d) /\ call[d].h = h

-----------------------------------------------------------------------------
(* The initial state: no container, and no call made.                      *)

NoCall == [op |-> "none", h |-> "run", at |-> "idle", todo |-> <<>>, errs |-> {},
           passed |-> {}, faulted |-> FALSE]

Init ==
  /\ box = "none"
  /\ images = {}
  /\ image = "base"
  /\ volume = TRUE
  /\ known = {}
  /\ isRunning = [h \in Handles |-> FALSE]
  /\ call = [c \in Callers |-> NoCall]
  /\ calls = 0
  /\ faults = 0
  /\ unseen = FALSE
  /\ behind = [h \in Handles |-> FALSE]

\* What is left alone by the steps that only move a goroutine, and by more of them.
engineVars == <<box, images, volume, unseen>>
ghostAndFlag == <<isRunning, behind>>

-----------------------------------------------------------------------------
(* Run, up to the creation: any error returns no handle.                   *)

\* Run, with or without WithNoStart ("Create").  Another Run is another container.
BeginRun(c, op) ==
  /\ calls = 0 /\ MaxCalls > 0
  /\ calls' = 1
  /\ StepNoHandle(c, [NoCall EXCEPT !.op = op, !.at = "prepare"])
  /\ UNCHANGED <<engineVars, ghostAndFlag, image, faults>>

\* Faulty: the definition is not validated, and its image may be empty.
PrepareUnvalidated(c) ==
  /\ At(c, "prepare")
  /\ image' \in {"base", ""}
  /\ NoFault /\ StepNoHandle(c, Enter(call[c], "PreCreates"))
  /\ UNCHANGED <<engineVars, ghostAndFlag, calls>>

\* The options, the validation and the default client.
Prepare(c) ==
  /\ At(c, "prepare")
  /\ \/ NoFault /\ StepNoHandle(c, Enter(call[c], "PreCreates"))
     \/ MayFail /\ StepNoHandle(c, Return(Faulted(call[c]), {"fail"}))
  /\ UNCHANGED <<engineVars, ghostAndFlag, image, calls>>

\* One hook of creatingHook.  The caller's hook may choose the image, and pull
\* fetches the image chosen by then.
DefinitionHookPasses(c) ==
  /\ At(c, "PreCreates") /\ call[c].todo # <<>>
  /\ LET hook == Head(call[c].todo) IN
     /\ StepNoHandle(c, NextTask(Pass(call[c], hook)))
     /\ IF hook = "user" THEN image' \in {image, "built"} ELSE image' = image
     /\ images' = IF hook = "pull" THEN images \cup {image} ELSE images
  /\ NoFault
  /\ UNCHANGED <<box, volume, unseen, ghostAndFlag, calls>>

\* applyDefinitionHooks stops at the first error.
DefinitionHookFails(c) ==
  /\ At(c, "PreCreates") /\ call[c].todo # <<>>
  /\ \E e \in {"fail", "notfound"} :
       StepNoHandle(c, LastTask(Faulted(AddErr(call[c], e))))
  /\ MayFail
  /\ UNCHANGED <<engineVars, ghostAndFlag, image, calls>>

CreatingHookReturns(c) ==
  /\ HooksDone(c, "PreCreates")
  /\ StepNoHandle(c, IF call[c].errs # {} THEN Return(call[c], call[c].errs)
                     ELSE Goto(call[c], "substitute"))
  /\ NoFault
  /\ UNCHANGED <<engineVars, ghostAndFlag, image, calls>>

\* The image substitutors run after the pull, and their image is not pulled.
Substitute(c) ==
  /\ At(c, "substitute")
  /\ \/ /\ image' \in {image, "substituted"}
        /\ NoFault /\ StepNoHandle(c, Goto(call[c], "ContainerCreate"))
     \/ /\ image' = image
        /\ MayFail /\ StepNoHandle(c, Return(Faulted(call[c]), {"fail"}))
  /\ UNCHANGED <<engineVars, ghostAndFlag, calls>>

CreateFails(c) ==
  /\ At(c, "ContainerCreate")
  /\ \/ image \notin images /\ NoFault
        /\ StepNoHandle(c, Return(call[c], {"notfound"}))
     \/ MayFail /\ StepNoHandle(c, Return(Faulted(call[c]), {"fail"}))
  /\ UNCHANGED <<engineVars, ghostAndFlag, image, calls>>

\* The container is created, but the answer does not come back (the context ends).
CreateUnseen(c) ==
  /\ At(c, "ContainerCreate") /\ image \in images
  /\ MayFail /\ StepNoHandle(c, Return(Faulted(call[c]), {"fail"}))
  /\ box' = "created" /\ unseen' = TRUE
  /\ UNCHANGED <<images, volume, ghostAndFlag, image, calls>>

\* From here on every return hands over the container.
Create(c) ==
  /\ At(c, "ContainerCreate") /\ image \in images
  /\ StepNoHandle(c, [Goto(call[c], "NetworkConnect")
                       EXCEPT !.todo = [i \in 1..ExtraNetworks |-> "network"]])
  /\ box' = "created"
  /\ NoFault
  /\ UNCHANGED <<images, volume, unseen, ghostAndFlag, image, calls>>

-----------------------------------------------------------------------------
(* Run, after the creation.                                                *)

\* One more network: inspect it, then attach the container to it.
NetworkConnect(c) ==
  /\ At(c, "NetworkConnect") /\ call[c].todo # <<>>
  /\ \/ box # "removed" /\ NoFault
        /\ Step(c, NextTask(call[c]))
     \/ box = "removed" /\ NoFault /\ Step(c, Return(call[c], {"notfound"}))
     \/ MayFail /\ Step(c, Return(Faulted(call[c]), {"fail"}))
  /\ UNCHANGED <<engineVars, ghostAndFlag, image, calls>>

NetworksDone(c) ==
  /\ HooksDone(c, "NetworkConnect")
  /\ Step(c, Enter(call[c], "PostCreates"))
  /\ NoFault
  /\ UNCHANGED <<engineVars, ghostAndFlag, image, calls>>

\* One hook of any other phase.  The copy of files needs the container to exist, and
\* the readiness hook, once its strategy is satisfied, marks the handle running.
ContainerHookPasses(c) ==
  /\ call[c].at \in Phases \ {"PreCreates"} /\ call[c].todo # <<>>
  /\ LET hook == Head(call[c].todo) IN
     /\ hook = "copy" => box # "removed"
     /\ Step(c, NextTask(Pass(call[c], hook)))
     /\ isRunning' = IF hook = "wait" THEN [isRunning EXCEPT ![call[c].h] = TRUE]
                     ELSE isRunning
  /\ NoFault
  /\ UNCHANGED <<engineVars, behind, image, calls>>

\* applyContainerHooks runs the remaining hooks and joins the errors.
ContainerHookFails(c) ==
  /\ call[c].at \in Phases \ {"PreCreates"} /\ call[c].todo # <<>>
  /\ \/ /\ Head(call[c].todo) = "copy" /\ box = "removed" /\ NoFault
        /\ Step(c, NextTask(AddErr(call[c], "notfound")))
     \/ \E e \in {"fail", "notfound"} :
          MayFail /\ Step(c, NextTask(Faulted(AddErr(call[c], e))))
  /\ UNCHANGED <<engineVars, ghostAndFlag, image, calls>>

CreatedHookReturns(c) ==
  /\ HooksDone(c, "PostCreates")
  /\ Step(c, IF call[c].errs = {} /\ call[c].op = "Run" THEN Enter(call[c], "PreStarts")
             ELSE Return(call[c], call[c].errs))
  /\ NoFault
  /\ UNCHANGED <<engineVars, ghostAndFlag, image, calls>>

-----------------------------------------------------------------------------
(* Start, by itself or at the end of Run.                                  *)

StartingHookReturns(c) ==
  /\ HooksDone(c, "PreStarts")
  /\ Step(c, IF call[c].errs = {} THEN Goto(call[c], "ContainerStart")
             ELSE Return(call[c], call[c].errs))
  /\ NoFault
  /\ UNCHANGED <<engineVars, ghostAndFlag, image, calls>>

\* The Engine starts a container that exists, and does nothing to a running one.
ContainerStart(c) ==
  /\ At(c, "ContainerStart") /\ box \in {"created", "running", "exited"}
  /\ box' = "running"
  /\ \/ /\ Step(c, Enter(Pass(call[c], "engine"), "PostStarts"))
        /\ behind' = [behind EXCEPT ![call[c].h] = @ /\ Overlapping(c, call[c].h)]
        /\ NoFault
     \/ /\ MayFail /\ Step(c, Return(Faulted(call[c]), {"fail"}))
        /\ behind' = behind
  /\ UNCHANGED <<images, volume, unseen, isRunning, image, calls>>

StartFails(c) ==
  /\ At(c, "ContainerStart")
  /\ \/ box = "removing" /\ NoFault /\ Step(c, Return(call[c], {"conflict"}))
     \/ box = "removed" /\ NoFault /\ Step(c, Return(call[c], {"notfound"}))
     \/ MayFail /\ Step(c, Return(Faulted(call[c]), {"fail"}))
  /\ UNCHANGED <<engineVars, ghostAndFlag, image, calls>>

\* Faulty: a failed readiness check does not end the call.
StartedHookIgnored(c) ==
  /\ HooksDone(c, "PostStarts")
  /\ isRunning' = [isRunning EXCEPT ![call[c].h] = TRUE]
  /\ Step(c, Enter(call[c], "PostReadies"))
  /\ NoFault
  /\ UNCHANGED <<engineVars, behind, image, calls>>

StartedHookReturns(c) ==
  /\ HooksDone(c, "PostStarts")
  /\ \/ /\ call[c].errs = {}
        /\ isRunning' = [isRunning EXCEPT ![call[c].h] = TRUE]
        /\ Step(c, Enter(call[c], "PostReadies"))
     \/ /\ call[c].errs # {}
        /\ isRunning' = isRunning
        /\ Step(c, Return(call[c], call[c].errs))
  /\ NoFault
  /\ UNCHANGED <<engineVars, behind, image, calls>>

ReadiedHookReturns(c) ==
  /\ HooksDone(c, "PostReadies")
  /\ Step(c, Return(call[c], call[c].errs))
  /\ NoFault
  /\ UNCHANGED <<engineVars, ghostAndFlag, image, calls>>

-----------------------------------------------------------------------------
(* Stop, by itself or at the beginning of Terminate.                       *)

StoppingHookReturns(c) ==
  /\ HooksDone(c, "PreStops")
  /\ Step(c, IF call[c].errs = {} THEN Goto(call[c], "ContainerStop")
             ELSE AfterStop(call[c], call[c].errs))
  /\ NoFault
  /\ UNCHANGED <<engineVars, ghostAndFlag, image, calls>>

\* The running container is stopped by someone: by c with the answer seen or not.
LeavesRunning(c, seen) ==
  behind' = IF box # "running" THEN behind
            ELSE [h \in Handles |-> behind[h] \/ ~(seen /\ h = call[c].h)]

\* The Engine stops a running container, and does nothing to one that is not.
ContainerStop(c) ==
  /\ At(c, "ContainerStop") /\ box # "removed"
  /\ box' = IF box = "running" THEN "exited" ELSE box
  /\ \/ NoFault /\ Step(c, Goto(call[c], "stopped")) /\ LeavesRunning(c, TRUE)
     \/ MayFail /\ Step(c, AfterStop(Faulted(call[c]), {"fail"})) /\ LeavesRunning(c, FALSE)
  /\ UNCHANGED <<images, volume, unseen, isRunning, image, calls>>

StopFails(c) ==
  /\ At(c, "ContainerStop")
  /\ \/ box = "removed" /\ NoFault /\ Step(c, AfterStop(call[c], {"notfound"}))
     \/ MayFail /\ Step(c, AfterStop(Faulted(call[c]), {"fail"}))
  /\ UNCHANGED <<engineVars, ghostAndFlag, image, calls>>

\* Faulty: the handle is not told that its container has stopped.
MarkStoppedForgotten(c) ==
  /\ At(c, "stopped")
  /\ Step(c, Enter(call[c], "PostStops"))
  /\ NoFault
  /\ UNCHANGED <<engineVars, ghostAndFlag, image, calls>>

MarkStopped(c) ==
  /\ At(c, "stopped")
  /\ isRunning' = [isRunning EXCEPT ![call[c].h] = FALSE]
  /\ Step(c, Enter(call[c], "PostStops"))
  /\ NoFault
  /\ UNCHANGED <<engineVars, behind, image, calls>>

StoppedHookReturns(c) ==
  /\ HooksDone(c, "PostStops")
  /\ Step(c, AfterStop(call[c], call[c].errs))
  /\ NoFault
  /\ UNCHANGED <<engineVars, ghostAndFlag, image, calls>>

-----------------------------------------------------------------------------
(* Terminate, after its Stop: every step is taken whatever the others do.  *)

TerminatingHookReturns(c) ==
  /\ HooksDone(c, "PreTerminates")
  /\ Step(c, Goto(call[c], "ContainerRemove"))
  /\ NoFault
  /\ UNCHANGED <<engineVars, ghostAndFlag, image, calls>>

\* The forced removal kills a running container and takes a while.
ContainerRemove(c) ==
  /\ At(c, "ContainerRemove") /\ box \in {"created", "running", "exited"}
  /\ box' = "removing"
  /\ LeavesRunning(c, TRUE)
  /\ Step(c, Goto(call[c], "removing"))
  /\ NoFault
  /\ UNCHANGED <<images, volume, unseen, isRunning, image, calls>>

RemoveFails(c) ==
  /\ At(c, "ContainerRemove")
  /\ \/ /\ box = "removing" /\ NoFault
        /\ Step(c, Enter(AddErr(call[c], "inprogress"), "PostTerminates"))
     \/ /\ box = "removed" /\ NoFault
        /\ Step(c, Enter(AddErr(call[c], "notfound"), "PostTerminates"))
     \/ MayFail /\ Step(c, Enter(Faulted(AddErr(call[c], "fail")), "PostTerminates"))
  /\ UNCHANGED <<engineVars, ghostAndFlag, image, calls>>

\* The removal succeeds, seen or not, or leaves a dead container behind.
RemovalEnds(c) ==
  /\ At(c, "removing")
  /\ \/ /\ box' = "removed" /\ NoFault
        /\ Step(c, Enter(call[c], "PostTerminates"))
     \/ /\ box' \in {"removed", "exited"} /\ MayFail
        /\ Step(c, Enter(Faulted(AddErr(call[c], "fail")), "PostTerminates"))
  /\ UNCHANGED <<images, volume, unseen, ghostAndFlag, image, calls>>

TerminatedHookReturns(c) ==
  /\ HooksDone(c, "PostTerminates")
  /\ isRunning' = [isRunning EXCEPT ![call[c].h] = FALSE]
  /\ Step(c, Goto(call[c], "VolumeRemove"))
  /\ NoFault
  /\ UNCHANGED <<engineVars, behind, image, calls>>

\* Cleanup: the Engine keeps a volume whose container still exists.
VolumeRemove(c) ==
  /\ At(c, "VolumeRemove")
  /\ \/ /\ box = "removed" /\ volume' = FALSE /\ NoFault
        /\ Step(c, Return(call[c], call[c].errs))
     \/ /\ box # "removed" /\ volume' = volume /\ NoFault
        /\ Step(c, Return(call[c], call[c].errs \cup {"conflict"}))
     \/ /\ volume' = volume /\ MayFail
        /\ Step(c, Return(Faulted(call[c]), call[c].errs \cup {"fail"}))
  /\ UNCHANGED <<box, images, unseen, ghostAndFlag, image, calls>>

-----------------------------------------------------------------------------
(* New calls, the second handle, and the container itself.                 *)

FirstPhase(op) == IF op = "Start" THEN "PreStarts" ELSE "PreStops"

\* A goroutine calls Start, Stop or Terminate on a handle it holds.
BeginCall(c, op, h) ==
  /\ Idle(c) /\ h \in known /\ calls < MaxCalls
  /\ calls' = calls + 1
  /\ Step(c, Enter([NoCall EXCEPT !.op = op, !.h = h], FirstPhase(op)))
  /\ behind' = [behind EXCEPT ![h] = IF Overlapping(c, h) THEN TRUE ELSE @]
  /\ NoFault
  /\ UNCHANGED <<engineVars, isRunning, image>>

\* FromID: a handle whose flag is the state that the Engine's list reports.
FromID ==
  /\ box \in BoxStates \ {"none", "removed"} /\ "found" \notin known
  /\ known' = known \cup {"found"}
  /\ isRunning' = [isRunning EXCEPT !["found"] = (box = "running")]
  /\ UNCHANGED <<engineVars, image, call, calls, faults, behind>>

\* The container's process ends by itself.
Exit ==
  /\ box = "running"
  /\ box' = "exited"
  /\ behind' = [h \in Handles |-> TRUE]
  /\ UNCHANGED <<images, image, volume, known, isRunning, call, calls, faults, unseen>>

CreateStep(c) ==
  \/ Prepare(c) \/ DefinitionHookPasses(c) \/ DefinitionHookFails(c)
  \/ CreatingHookReturns(c) \/ Substitute(c) \/ CreateFails(c) \/ CreateUnseen(c)
  \/ Create(c) \/ NetworkConnect(c) \/ NetworksDone(c) \/ CreatedHookReturns(c)

HookStep(c) == ContainerHookPasses(c) \/ ContainerHookFails(c)

StartStep(c) ==
  \/ StartingHookReturns(c) \/ ContainerStart(c) \/ StartFails(c)
  \/ StartedHookReturns(c) \/ ReadiedHookReturns(c)

StopStep(c) ==
  \/ StoppingHookReturns(c) \/ ContainerStop(c) \/ StopFails(c)
  \/ MarkStopped(c) \/ StoppedHookReturns(c)

TerminateStep(c) ==
  \/ TerminatingHookReturns(c) \/ ContainerRemove(c) \/ RemoveFails(c)
  \/ RemovalEnds(c) \/ TerminatedHookReturns(c) \/ VolumeRemove(c)

\* One step of the call that goroutine c is in.
CallStep(c) ==
  CreateStep(c) \/ HookStep(c) \/ StartStep(c) \/ StopStep(c) \/ TerminateStep(c)

Next ==
  \/ \E c \in Callers :
       \/ CallStep(c)
       \/ \E op \in {"Run", "Create"} : BeginRun(c, op)
       \/ \E op \in {"Start", "Stop", "Terminate"}, h \in Handles : BeginCall(c, op, h)
  \/ FromID
  \/ Exit

Spec == Init /\ [][Next]_vars

\* A goroutine in a call goes on: hooks and Engine calls return, with an error when
\* their context ends.  Nobody has to make calls, and the container need not exit.
FairSpec == Spec /\ \A c \in Callers : WF_vars(CallStep(c))

-----------------------------------------------------------------------------
(* Properties.                                                             *)

Call == [op : {"none", "Run", "Create", "Start", "Stop", "Terminate"}, h : Handles,
         at : Places, todo : Seq(Tasks), errs : SUBSET ErrKinds,
         passed : SUBSET (Places \X (Tasks \cup {"engine"})),
         faulted : BOOLEAN]

\* Every variable holds a value of its kind.
TypeOK ==
  /\ box \in BoxStates
  /\ images \subseteq Images /\ image \in Images
  /\ volume \in BOOLEAN
  /\ known \subseteq Handles
  /\ isRunning \in [Handles -> BOOLEAN]
  /\ call \in [Callers -> Call]
  /\ calls \in 0..MaxCalls /\ faults \in 0..MaxFaults
  /\ unseen \in BOOLEAN
  /\ behind \in [Handles -> BOOLEAN]

RunUnderWay == \E c \in Callers : call[c].op \in {"Run", "Create"} /\ ~Idle(c)

\* A container that exists is never lost: once no Run is under way, somebody holds a
\* handle to it, unless the Engine's answer to the creation did not arrive.
NoOrphan ==
  box # "none" /\ ~unseen /\ ~RunUnderWay => "run" \in known

BeforeCreation == {"prepare", "PreCreates", "substitute", "ContainerCreate"}

\* Why no container is lost: there is one Run, the container exists exactly after its
\* creation, and only then are there handles.
Ownership ==
  /\ calls = 0 => box = "none" /\ \A c \in Callers : call[c].op = "none"
  /\ \A c, d \in Callers :
       call[c].op \in {"Run", "Create"} /\ call[d].op \in {"Run", "Create"} => c = d
  /\ \A c \in Callers :
       /\ call[c].op \in {"Run", "Create"} => call[c].h = "run"
       /\ call[c].at \in BeforeCreation => call[c].op \in {"Run", "Create"} /\ box = "none"
       /\ call[c].at \notin BeforeCreation \cup {"idle"} => box # "none"
  /\ known # {} => box # "none"
  /\ NoOrphan

\* What every start has to go through.
StartHooks == UNION {{<<phase, HooksOf("run", phase)[i]>> : i \in DOMAIN HooksOf("run", phase)} :
                       phase \in {"PreStarts", "PostStarts"}}

\* Readiness: the PostReadies hooks run, and Run or Start reports success, only in a
\* call whose start the Engine confirmed and whose every PreStarts and PostStarts hook
\* passed, the wait strategy included.
ReadyMeansStarted ==
  \A c \in Callers :
    /\ call[c].h = "run"
    /\ At(c, "PostReadies") \/ (Idle(c) /\ call[c].op \in {"Run", "Start"} /\ call[c].errs = {})
    => StartHooks \cup {<<"ContainerStart", "engine">>} \subseteq call[c].passed

\* IsRunning does not say running of a container that is not, between the calls on a
\* handle, as long as goroutines used the handle one at a time and nothing else stopped
\* the container since it was started.  (The converse is not claimed: FlagTellsRunning.)
RunningIsTrue ==
  \A h \in Handles :
    /\ h \in known /\ isRunning[h] /\ ~behind[h]
    /\ \A c \in Callers : call[c].h = h => Idle(c)
    => box = "running"

\* Terminate may race with another Terminate, with an exit, with anything: without a
\* failing hook or Engine call in it, it reports no error.
TerminateRacesSafely ==
  \A c \in Callers :
    Idle(c) /\ call[c].op = "Terminate" /\ ~call[c].faulted => IsCleanupSafe(call[c].errs)

\* The image that the hooks have settled on, whichever of them chose it, has been pulled
\* when they are done, and the container is created from it, unless a substitutor
\* replaces it then (a substitute is not pulled).
CreatesWhatItPulled ==
  \A c \in Callers :
    At(c, "substitute") \/ (At(c, "ContainerCreate") /\ image # "substituted")
      => image \in images

\* A Terminate that goes on ends with the container gone (or being removed), or with an
\* error to report.
TerminateResolves ==
  \A c \in Callers :
    (call[c].op = "Terminate" /\ ~Idle(c))
      ~> (Idle(c) /\ (box \in {"removing", "removed"} \/ call[c].errs # {}))

\* Who answers for the container, in the words of OwnedContainer.
container ==
  IF box = "none" THEN "absent" ELSE IF box = "removed" THEN "gone" ELSE "present"

holder ==
  IF "run" \in known THEN "caller"
  ELSE IF unseen THEN "lost" ELSE IF RunUnderWay THEN "run" ELSE "nobody"

Owned == INSTANCE OwnedContainer WITH container <- container, holder <- holder

\* Refinement: seen from the caller, all of this is the ownership OwnedContainer states.
OwnershipKept == Owned!Spec

\* IsRunning's comment: it "returns the running state of the container".  So a handle
\* whose own Run or Start has just started a container that still runs says so.
FlagTellsRunning ==
  \A c \in Callers :
    /\ Idle(c) /\ call[c].op \in {"Run", "Start"} /\ calls = 1
    /\ <<"ContainerStart", "engine">> \in call[c].passed
    /\ box = "running"
    => isRunning[call[c].h]

\* Terminate's comment: it is deferred "to ensure the container is terminated when the
\* function ends", so that no error reported means no container left.
TerminateEnsuresRemoval ==
  \A c \in Callers :
    Idle(c) /\ call[c].op = "Terminate" /\ IsCleanupSafe(call[c].errs)
      => box \in {"removing", "removed"}

=============================================================================
