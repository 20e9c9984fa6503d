---------------------- MODULE ContainerLifecycle_proofs ----------------------
(***************************************************************************)
(* Theorems about ContainerLifecycle, for any goroutines, caller's hooks,  *)
(* networks and bounds.                                                    *)
(***************************************************************************)
EXTENDS ContainerLifecycle, TLAPS

-----------------------------------------------------------------------------
(* The functions on call records keep them call records.                   *)

\* The hooks that a handle has for a phase are a sequence of tasks.
LEMMA HooksOfType ==
  ASSUME NEW h \in Handles, NEW phase \in Phases
  PROVE  HooksOf(h, phase) \in Seq(Tasks)
<1>1. <<>> \in Seq(Tasks) /\ \A t \in Tasks : <<t>> \in Seq(Tasks)
  OBVIOUS
<1>2. \A s, t \in Seq(Tasks) : s \o t \in Seq(Tasks)
  OBVIOUS
<1>3. {"preCreate", "copy", "wait", "user", "pull"} \subseteq Tasks
  BY DEF Tasks, Hooks
<1>4. DefaultHooks(phase) \in Seq(Tasks)
  BY <1>1, <1>3 DEF DefaultHooks
<1>5. User(phase) \in Seq(Tasks)
  BY <1>1, <1>3 DEF User
<1>6. CombinedHooks(phase) \in Seq(Tasks)
  BY <1>1, <1>2, <1>3, <1>4, <1>5 DEF CombinedHooks
<1>7. QED
  BY <1>1, <1>6 DEF HooksOf

\* Entering a phase, moving, returning, noting an error or a passed task and going
\* to the next task keep a call record.
LEMMA CallRecords ==
  ASSUME NEW r \in Call
  PROVE  /\ \A phase \in Phases : Enter(r, phase) \in Call
         /\ \A place \in Places : Goto(r, place) \in Call
         /\ \A errs \in SUBSET ErrKinds : Return(r, errs) \in Call
         /\ \A e \in ErrKinds : AddErr(r, e) \in Call
         /\ \A task \in Tasks \cup {"engine"} : Pass(r, task) \in Call
         /\ Faulted(r) \in Call
         /\ Forgive(r) \in Call
         /\ LastTask(r) \in Call
         /\ r.todo # <<>> => NextTask(r) \in Call /\ Head(r.todo) \in Tasks
<1>1. ASSUME NEW phase \in Phases PROVE Enter(r, phase) \in Call
  <2>1. HooksOf(r.h, phase) \in Seq(Tasks)
    BY HooksOfType DEF Call
  <2>2. phase \in Places
    BY DEF Places
  <2>3. QED
    BY <2>1, <2>2 DEF Enter, Call
<1>2. \A place \in Places : Goto(r, place) \in Call
  BY DEF Goto, Call
<1>3. \A errs \in SUBSET ErrKinds : Return(r, errs) \in Call
  <2>1. "idle" \in Places /\ <<>> \in Seq(Tasks)
    BY DEF Places
  <2>2. QED
    BY <2>1 DEF Return, Call
<1>4. \A e \in ErrKinds : AddErr(r, e) \in Call
  BY DEF AddErr, Call
<1>5. \A task \in Tasks \cup {"engine"} : Pass(r, task) \in Call
  BY DEF Pass, Call
<1>6. Faulted(r) \in Call /\ Forgive(r) \in Call
  BY DEF Faulted, Forgive, Call
<1>7. LastTask(r) \in Call
  <2>1. <<>> \in Seq(Tasks)
    OBVIOUS
  <2>2. QED
    BY <2>1 DEF LastTask, Call
<1>8. r.todo # <<>> => NextTask(r) \in Call /\ Head(r.todo) \in Tasks
  <2>1. r.todo \in Seq(Tasks)
    BY DEF Call
  <2>2. r.todo # <<>> => Tail(r.todo) \in Seq(Tasks) /\ Head(r.todo) \in Tasks
    BY <2>1
  <2>3. QED
    BY <2>2 DEF NextTask, Call
<1>9. QED
  BY <1>1, <1>2, <1>3, <1>4, <1>5, <1>6, <1>7, <1>8

\* However Stop ends, what follows is a call record.
LEMMA AfterStopType ==
  ASSUME NEW r \in Call, NEW errs \in SUBSET ErrKinds
  PROVE  AfterStop(r, errs) \in Call
<1>1. Forgive(r) \in Call
  BY CallRecords
<1>2. Enter(Forgive(r), "PreTerminates") \in Call
  BY <1>1, CallRecords DEF Phases
<1>3. QED
  BY <1>2, CallRecords DEF AfterStop

-----------------------------------------------------------------------------
(* Type correctness.                                                       *)

\* Goroutine c goes on to some call record.
Moves(c) == \E r \in Call : Step(c, r) \/ StepNoHandle(c, r)

\* A step of a goroutine to a call record keeps the types of call and known.
LEMMA MovesType ==
  ASSUME TypeOK, NEW c \in Callers, Moves(c)
  PROVE  call' \in [Callers -> Call] /\ known' \subseteq Handles
<1>1. PICK r \in Call : Step(c, r) \/ StepNoHandle(c, r)
  BY DEF Moves
<1>2. call \in [Callers -> Call] /\ known \subseteq Handles
  BY DEF TypeOK
<1>3. call' = [call EXCEPT ![c] = r]
  BY <1>1 DEF Step, StepNoHandle
<1>4. known' = known \/ known' = known \cup {r.h}
  BY <1>1 DEF Step, StepNoHandle
<1>5. r.h \in Handles
  BY DEF Call
<1>6. QED
  BY <1>2, <1>3, <1>4, <1>5

\* The budget of faults is kept.
LEMMA FaultsType ==
  ASSUME TypeOK, NoFault \/ MayFail
  PROVE  faults' \in 0..MaxFaults
BY ConstantsAssumption DEF TypeOK, NoFault, MayFail

\* A step that moves a goroutine and leaves all but the faults alone.
LEMMA MoveOnlyType ==
  ASSUME TypeOK, NEW c \in Callers, Moves(c), NoFault \/ MayFail,
         UNCHANGED <<engineVars, ghostAndFlag, image, calls>>
  PROVE  TypeOK'
BY MovesType, FaultsType DEF TypeOK, engineVars, ghostAndFlag

\* The records that a step of Run, Start, Stop or Terminate goes on with.
LEMMA NextRecords ==
  ASSUME TypeOK, NEW c \in Callers
  PROVE  /\ \A phase \in Phases : Enter(call[c], phase) \in Call
         /\ \A place \in Places : Goto(call[c], place) \in Call
         /\ Return(call[c], call[c].errs) \in Call
         /\ \A errs \in SUBSET ErrKinds :
              /\ Return(call[c], errs) \in Call
              /\ Return(Faulted(call[c]), errs) \in Call
              /\ AfterStop(call[c], errs) \in Call
              /\ AfterStop(Faulted(call[c]), errs) \in Call
         /\ call[c].errs \in SUBSET ErrKinds
         /\ \A e \in ErrKinds : {e} \in SUBSET ErrKinds /\ call[c].errs \cup {e} \in SUBSET ErrKinds
         /\ call[c].h \in Handles
<1>1. call[c] \in Call
  BY DEF TypeOK
<1>2. Faulted(call[c]) \in Call
  BY <1>1, CallRecords
<1>3. call[c].errs \in SUBSET ErrKinds /\ call[c].h \in Handles
  BY <1>1 DEF Call
<1>4. QED
  BY <1>1, <1>2, <1>3, CallRecords, AfterStopType

\* A hook that passes leads to a call record.
LEMMA HookRecords ==
  ASSUME TypeOK, NEW c \in Callers, call[c].todo # <<>>
  PROVE  /\ Head(call[c].todo) \in Tasks
         /\ NextTask(call[c]) \in Call
         /\ NextTask(Pass(call[c], Head(call[c].todo))) \in Call
         /\ \A e \in ErrKinds : /\ NextTask(AddErr(call[c], e)) \in Call
                                /\ NextTask(Faulted(AddErr(call[c], e))) \in Call
                                /\ LastTask(Faulted(AddErr(call[c], e))) \in Call
<1>1. call[c] \in Call
  BY DEF TypeOK
<1>2. Head(call[c].todo) \in Tasks /\ NextTask(call[c]) \in Call
  BY <1>1, CallRecords
<1>3. NextTask(Pass(call[c], Head(call[c].todo))) \in Call
  <2>1. Pass(call[c], Head(call[c].todo)) \in Call
    BY <1>1, <1>2, CallRecords
  <2>2. Pass(call[c], Head(call[c].todo)).todo # <<>>
    BY <1>1 DEF Pass, Call
  <2>3. QED
    BY <2>1, <2>2, CallRecords
<1>4. ASSUME NEW e \in ErrKinds
      PROVE  /\ NextTask(AddErr(call[c], e)) \in Call
             /\ NextTask(Faulted(AddErr(call[c], e))) \in Call
             /\ LastTask(Faulted(AddErr(call[c], e))) \in Call
  <2>1. AddErr(call[c], e) \in Call
    BY <1>1, CallRecords
  <2>2. Faulted(AddErr(call[c], e)) \in Call
    BY <2>1, CallRecords
  <2>3. AddErr(call[c], e).todo # <<>> /\ Faulted(AddErr(call[c], e)).todo # <<>>
    BY <1>1 DEF AddErr, Faulted, Call
  <2>4. QED
    BY <2>1, <2>2, <2>3, CallRecords
<1>5. QED
  BY <1>2, <1>3, <1>4

\* The steps of Run around the creation.
LEMMA CreateStepType ==
  ASSUME TypeOK, NEW c \in Callers, CreateStep(c)
  PROVE  TypeOK'
<1>1. {"fail", "notfound"} \subseteq ErrKinds
  BY DEF ErrKinds
<1>2. {"PreCreates", "PostCreates", "PreStarts"} \subseteq Phases
  BY DEF Phases
<1>3. {"substitute", "ContainerCreate", "NetworkConnect"} \subseteq Places
  BY DEF Places, EngineCalls
<1>4. CASE Prepare(c)
  <2>1. Moves(c) /\ (NoFault \/ MayFail)
    BY <1>1, <1>2, NextRecords, <1>4 DEF Prepare, Moves
  <2>2. QED
    BY <2>1, <1>4, MoveOnlyType DEF Prepare
<1>5. CASE DefinitionHookPasses(c)
  <2>1. Moves(c) /\ NoFault
    BY <1>5, HookRecords DEF DefinitionHookPasses, Moves
  <2>2. images' \subseteq Images /\ image' \in Images
    BY <1>5 DEF DefinitionHookPasses, TypeOK, Images
  <2>3. QED
    BY <1>5, <2>1, <2>2, MovesType, FaultsType DEF DefinitionHookPasses, TypeOK, ghostAndFlag
<1>6. CASE DefinitionHookFails(c)
  <2>1. Moves(c) /\ (NoFault \/ MayFail)
    BY <1>1, HookRecords, <1>6 DEF DefinitionHookFails, Moves
  <2>2. QED
    BY <2>1, <1>6, MoveOnlyType DEF DefinitionHookFails
<1>7. CASE CreatingHookReturns(c)
  <2>1. Moves(c) /\ (NoFault \/ MayFail)
    BY <1>3, NextRecords, <1>7 DEF CreatingHookReturns, Moves
  <2>2. QED
    BY <2>1, <1>7, MoveOnlyType DEF CreatingHookReturns
<1>8. CASE Substitute(c)
  <2>1. Moves(c) /\ (NoFault \/ MayFail)
    BY <1>1, <1>3, <1>8, NextRecords DEF Substitute, Moves
  <2>2. image' \in Images
    BY <1>8 DEF Substitute, TypeOK, Images
  <2>3. QED
    BY <1>8, <2>1, <2>2, MovesType, FaultsType DEF Substitute, TypeOK, engineVars, ghostAndFlag
<1>9. CASE CreateFails(c)
  <2>1. Moves(c) /\ (NoFault \/ MayFail)
    BY <1>1, NextRecords, <1>9 DEF CreateFails, Moves
  <2>2. QED
    BY <2>1, <1>9, MoveOnlyType DEF CreateFails
<1>10. CASE CreateUnseen(c)
  <2>1. Moves(c) /\ MayFail
    BY <1>1, <1>10, NextRecords DEF CreateUnseen, Moves
  <2>2. box' \in BoxStates /\ unseen' \in BOOLEAN
    BY <1>10 DEF CreateUnseen, BoxStates
  <2>3. QED
    BY <1>10, <2>1, <2>2, MovesType, FaultsType DEF CreateUnseen, TypeOK, ghostAndFlag
<1>11. CASE Create(c)
  <2>1. [i \in 1..ExtraNetworks |-> "network"] \in Seq(Tasks)
    BY ConstantsAssumption DEF Tasks
  <2>2. [Goto(call[c], "NetworkConnect")
          EXCEPT !.todo = [i \in 1..ExtraNetworks |-> "network"]] \in Call
    BY <1>3, <2>1, NextRecords, ZenonT(40) DEF Call
  <2>3. Moves(c) /\ NoFault
    BY <1>11, <2>2 DEF Create, Moves
  <2>4. box' \in BoxStates
    BY <1>11 DEF Create, BoxStates
  <2>5. QED
    BY <1>11, <2>3, <2>4, MovesType, FaultsType DEF Create, TypeOK, ghostAndFlag
<1>12. CASE NetworkConnect(c)
  <2>1. Moves(c) /\ (NoFault \/ MayFail)
    BY <1>1, NextRecords, HookRecords, <1>12 DEF NetworkConnect, Moves
  <2>2. QED
    BY <2>1, <1>12, MoveOnlyType DEF NetworkConnect
<1>13. CASE NetworksDone(c)
  <2>1. Moves(c) /\ (NoFault \/ MayFail)
    BY <1>2, NextRecords, <1>13 DEF NetworksDone, Moves
  <2>2. QED
    BY <2>1, <1>13, MoveOnlyType DEF NetworksDone
<1>14. CASE CreatedHookReturns(c)
  <2>1. Moves(c) /\ (NoFault \/ MayFail)
    BY <1>2, NextRecords, <1>14 DEF CreatedHookReturns, Moves
  <2>2. QED
    BY <2>1, <1>14, MoveOnlyType DEF CreatedHookReturns
<1>15. QED
  BY <1>4, <1>5, <1>6, <1>7, <1>8, <1>9, <1>10, <1>11, <1>12, <1>13, <1>14 DEF CreateStep

\* The hooks of every phase but PreCreates.
LEMMA HookStepType ==
  ASSUME TypeOK, NEW c \in Callers, HookStep(c)
  PROVE  TypeOK'
<1>1. {"fail", "notfound"} \subseteq ErrKinds
  BY DEF ErrKinds
<1>2. CASE ContainerHookPasses(c)
  <2>1. Moves(c) /\ (NoFault \/ MayFail)
    BY HookRecords, <1>2 DEF ContainerHookPasses, Moves
  <2>2. isRunning' \in [Handles -> BOOLEAN]
    BY <1>2, NextRecords DEF ContainerHookPasses, TypeOK, Handles
  <2>3. QED
    BY <1>2, <2>1, <2>2, MovesType, FaultsType DEF ContainerHookPasses, TypeOK, engineVars
<1>3. CASE ContainerHookFails(c)
  <2>1. Moves(c) /\ (NoFault \/ MayFail)
    BY <1>1, HookRecords, <1>3 DEF ContainerHookFails, Moves
  <2>2. QED
    BY <2>1, <1>3, MoveOnlyType DEF ContainerHookFails
<1>4. QED
  BY <1>2, <1>3 DEF HookStep

\* The steps of Start.
LEMMA StartStepType ==
  ASSUME TypeOK, NEW c \in Callers, StartStep(c)
  PROVE  TypeOK'
<1>1. {"fail", "notfound", "conflict"} \subseteq ErrKinds
  BY DEF ErrKinds
<1>2. {"PostStarts", "PostReadies"} \subseteq Phases /\ "ContainerStart" \in Places
  BY DEF Phases, Places, EngineCalls
<1>3. Enter(Pass(call[c], "engine"), "PostStarts") \in Call
  <2>1. call[c] \in Call
    BY DEF TypeOK
  <2>2. Pass(call[c], "engine") \in Call
    BY <2>1, CallRecords
  <2>3. QED
    BY <1>2, <2>2, CallRecords
<1>4. CASE StartingHookReturns(c)
  <2>1. Moves(c) /\ (NoFault \/ MayFail)
    BY <1>2, NextRecords, <1>4 DEF StartingHookReturns, Moves
  <2>2. QED
    BY <2>1, <1>4, MoveOnlyType DEF StartingHookReturns
<1>5. CASE ContainerStart(c)
  <2>1. Moves(c) /\ (NoFault \/ MayFail)
    BY <1>1, <1>3, NextRecords, <1>5 DEF ContainerStart, Moves
  <2>2. box' \in BoxStates /\ behind' \in [Handles -> BOOLEAN]
    BY <1>5, NextRecords DEF ContainerStart, TypeOK, BoxStates
  <2>3. QED
    BY <1>5, <2>1, <2>2, MovesType, FaultsType DEF ContainerStart, TypeOK, engineVars
<1>6. CASE StartFails(c)
  <2>1. Moves(c) /\ (NoFault \/ MayFail)
    BY <1>1, NextRecords, <1>6 DEF StartFails, Moves
  <2>2. QED
    BY <2>1, <1>6, MoveOnlyType DEF StartFails
<1>7. CASE StartedHookReturns(c)
  <2>1. Moves(c) /\ (NoFault \/ MayFail)
    BY <1>2, NextRecords, <1>7 DEF StartedHookReturns, Moves
  <2>2. isRunning' \in [Handles -> BOOLEAN]
    BY <1>7, NextRecords DEF StartedHookReturns, TypeOK, Handles
  <2>3. QED
    BY <1>7, <2>1, <2>2, MovesType, FaultsType DEF StartedHookReturns, TypeOK, engineVars
<1>8. CASE ReadiedHookReturns(c)
  <2>1. Moves(c) /\ (NoFault \/ MayFail)
    BY NextRecords, <1>8 DEF ReadiedHookReturns, Moves
  <2>2. QED
    BY <2>1, <1>8, MoveOnlyType DEF ReadiedHookReturns
<1>9. QED
  BY <1>4, <1>5, <1>6, <1>7, <1>8 DEF StartStep

\* The steps of Stop.
LEMMA StopStepType ==
  ASSUME TypeOK, NEW c \in Callers, StopStep(c)
  PROVE  TypeOK'
<1>1. {"fail", "notfound"} \subseteq ErrKinds
  BY DEF ErrKinds
<1>2. "PostStops" \in Phases /\ "ContainerStop" \in Places /\ "stopped" \in Places
  BY DEF Phases, Places, EngineCalls
<1>3. CASE StoppingHookReturns(c)
  <2>1. Moves(c) /\ (NoFault \/ MayFail)
    BY <1>2, NextRecords, <1>3 DEF StoppingHookReturns, Moves
  <2>2. QED
    BY <2>1, <1>3, MoveOnlyType DEF StoppingHookReturns
<1>4. CASE ContainerStop(c)
  <2>1. Moves(c) /\ (NoFault \/ MayFail)
    BY <1>1, <1>2, NextRecords, <1>4 DEF ContainerStop, Moves
  <2>2. box' \in BoxStates /\ behind' \in [Handles -> BOOLEAN]
    BY <1>4, NextRecords DEF ContainerStop, TypeOK, BoxStates, LeavesRunning
  <2>3. QED
    BY <1>4, <2>1, <2>2, MovesType, FaultsType DEF ContainerStop, TypeOK, engineVars
<1>5. CASE StopFails(c)
  <2>1. Moves(c) /\ (NoFault \/ MayFail)
    BY <1>1, NextRecords, <1>5 DEF StopFails, Moves
  <2>2. QED
    BY <2>1, <1>5, MoveOnlyType DEF StopFails
<1>6. CASE MarkStopped(c)
  <2>1. Moves(c) /\ (NoFault \/ MayFail)
    BY <1>2, NextRecords, <1>6 DEF MarkStopped, Moves
  <2>2. isRunning' \in [Handles -> BOOLEAN]
    BY <1>6, NextRecords DEF MarkStopped, TypeOK, Handles
  <2>3. QED
    BY <1>6, <2>1, <2>2, MovesType, FaultsType DEF MarkStopped, TypeOK, engineVars
<1>7. CASE StoppedHookReturns(c)
  <2>1. Moves(c) /\ (NoFault \/ MayFail)
    BY NextRecords, <1>7 DEF StoppedHookReturns, Moves
  <2>2. QED
    BY <2>1, <1>7, MoveOnlyType DEF StoppedHookReturns
<1>8. QED
  BY <1>3, <1>4, <1>5, <1>6, <1>7 DEF StopStep

\* The steps of Terminate after its Stop.
LEMMA TerminateStepType ==
  ASSUME TypeOK, NEW c \in Callers, TerminateStep(c)
  PROVE  TypeOK'
<1>1. {"fail", "notfound", "conflict", "inprogress"} \subseteq ErrKinds
  BY DEF ErrKinds
<1>2. "PostTerminates" \in Phases /\ {"ContainerRemove", "removing", "VolumeRemove"} \subseteq Places
  BY DEF Phases, Places, EngineCalls
<1>3. \A e \in ErrKinds : /\ Enter(AddErr(call[c], e), "PostTerminates") \in Call
                          /\ Enter(Faulted(AddErr(call[c], e)), "PostTerminates") \in Call
  <2>1. call[c] \in Call
    BY DEF TypeOK
  <2>2. \A e \in ErrKinds : AddErr(call[c], e) \in Call
    BY <2>1, CallRecords
  <2>3. \A e \in ErrKinds : Faulted(AddErr(call[c], e)) \in Call
    BY <2>2, CallRecords
  <2>4. QED
    BY <1>2, <2>2, <2>3, CallRecords
<1>4. CASE TerminatingHookReturns(c)
  <2>1. Moves(c) /\ (NoFault \/ MayFail)
    BY <1>2, NextRecords, <1>4 DEF TerminatingHookReturns, Moves
  <2>2. QED
    BY <2>1, <1>4, MoveOnlyType DEF TerminatingHookReturns
<1>5. CASE ContainerRemove(c)
  <2>1. Moves(c) /\ (NoFault \/ MayFail)
    BY <1>2, NextRecords, <1>5 DEF ContainerRemove, Moves
  <2>2. box' \in BoxStates /\ behind' \in [Handles -> BOOLEAN]
    BY <1>5, NextRecords DEF ContainerRemove, TypeOK, BoxStates, LeavesRunning
  <2>3. QED
    BY <1>5, <2>1, <2>2, MovesType, FaultsType DEF ContainerRemove, TypeOK, engineVars
<1>6. CASE RemoveFails(c)
  <2>1. Moves(c) /\ (NoFault \/ MayFail)
    BY <1>1, <1>3, <1>6 DEF RemoveFails, Moves
  <2>2. QED
    BY <2>1, <1>6, MoveOnlyType DEF RemoveFails
<1>7. CASE RemovalEnds(c)
  <2>1. Moves(c) /\ (NoFault \/ MayFail)
    BY <1>1, <1>2, <1>3, NextRecords, <1>7 DEF RemovalEnds, Moves
  <2>2. box' \in BoxStates
    BY <1>7, NextRecords DEF RemovalEnds, TypeOK, BoxStates
  <2>3. QED
    BY <1>7, <2>1, <2>2, MovesType, FaultsType DEF RemovalEnds, TypeOK, engineVars, ghostAndFlag
<1>8. CASE TerminatedHookReturns(c)
  <2>1. Moves(c) /\ (NoFault \/ MayFail)
    BY <1>2, NextRecords, <1>8 DEF TerminatedHookReturns, Moves
  <2>2. isRunning' \in [Handles -> BOOLEAN]
    BY <1>8, NextRecords DEF TerminatedHookReturns, TypeOK, Handles
  <2>3. QED
    BY <1>8, <2>1, <2>2, MovesType, FaultsType DEF TerminatedHookReturns, TypeOK, engineVars
<1>9. CASE VolumeRemove(c)
  <2>1. Moves(c) /\ (NoFault \/ MayFail)
    BY <1>1, NextRecords, <1>9 DEF VolumeRemove, Moves
  <2>2. volume' \in BOOLEAN
    BY <1>9, NextRecords DEF VolumeRemove, TypeOK, Handles
  <2>3. QED
    BY <1>9, <2>1, <2>2, MovesType, FaultsType DEF VolumeRemove, TypeOK, engineVars, ghostAndFlag
<1>10. QED
  BY <1>4, <1>5, <1>6, <1>7, <1>8, <1>9 DEF TerminateStep

\* A new call, with or without a handle.
LEMMA BeginType ==
  ASSUME TypeOK, NEW c \in Callers,
         \/ \E op \in {"Run", "Create"} : BeginRun(c, op)
         \/ \E op \in {"Start", "Stop", "Terminate"}, h \in Handles : BeginCall(c, op, h)
  PROVE  TypeOK'
<1>1. NoCall \in Call
  <2>1. "run" \in Handles /\ "idle" \in Places /\ "none" \in BoxStates /\ <<>> \in Seq(Tasks)
    BY DEF Handles, Places, BoxStates
  <2>2. QED
    BY <2>1 DEF NoCall, Call
<1>2. ASSUME NEW op \in {"Run", "Create"}, BeginRun(c, op) PROVE TypeOK'
  <2>1. [NoCall EXCEPT !.op = op, !.at = "prepare"] \in Call
    BY <1>1 DEF Call, Places
  <2>2. Moves(c) /\ NoFault
    BY <1>2, <2>1 DEF BeginRun, Moves, NoFault
  <2>3. calls' \in 0..MaxCalls
    BY <1>2, ConstantsAssumption DEF BeginRun
  <2>4. QED
    BY <1>2, <2>2, <2>3, MovesType, FaultsType DEF BeginRun, TypeOK, engineVars, ghostAndFlag
<1>3. ASSUME NEW op \in {"Start", "Stop", "Terminate"}, NEW h \in Handles, BeginCall(c, op, h)
      PROVE  TypeOK'
  <2>1. [NoCall EXCEPT !.op = op, !.h = h] \in Call
    BY <1>1 DEF Call, TypeOK
  <2>2. Enter([NoCall EXCEPT !.op = op, !.h = h], FirstPhase(op)) \in Call
    BY <2>1, CallRecords DEF FirstPhase, Phases
  <2>3. Moves(c) /\ NoFault
    BY <1>3, <2>2 DEF BeginCall, Moves
  <2>4. calls' \in 0..MaxCalls /\ behind' \in [Handles -> BOOLEAN]
    <3>1. calls' \in 0..MaxCalls
      <4>1. calls < MaxCalls /\ calls' = calls + 1
        BY <1>3 DEF BeginCall
      <4>2. QED
        BY <4>1, ConstantsAssumption DEF TypeOK
    <3>2. behind' \in [Handles -> BOOLEAN]
      BY <1>3 DEF BeginCall, TypeOK
    <3>3. QED
      BY <3>1, <3>2
  <2>5. QED
    BY <1>3, <2>3, <2>4, MovesType, FaultsType DEF BeginCall, TypeOK, engineVars
<1>4. QED
  BY <1>2, <1>3

\* Every variable always holds a value of its kind.
THEOREM TypeCorrect == Spec => []TypeOK
<1>1. Init => TypeOK
  <2>1. NoCall \in Call
    <3>1. "run" \in Handles /\ "idle" \in Places /\ "none" \in BoxStates /\ <<>> \in Seq(Tasks)
      BY DEF Handles, Places, BoxStates
    <3>2. QED
      BY <3>1 DEF NoCall, Call
  <2>2. 0 \in 0..MaxCalls /\ 0 \in 0..MaxFaults
    BY ConstantsAssumption
  <2>3. QED
    BY <2>1, <2>2 DEF Init, TypeOK, BoxStates, Images
<1>2. TypeOK /\ [Next]_vars => TypeOK'
  <2> SUFFICES ASSUME TypeOK, [Next]_vars PROVE TypeOK'
    OBVIOUS
  <2>1. ASSUME NEW c \in Callers, CallStep(c) PROVE TypeOK'
    BY <2>1, CreateStepType, HookStepType, StartStepType, StopStepType, TerminateStepType
       DEF CallStep
  <2>2. CASE FromID
    BY <2>2 DEF FromID, TypeOK, engineVars, Handles
  <2>3. CASE Exit
    BY <2>3 DEF Exit, TypeOK, BoxStates
  <2>4. CASE UNCHANGED vars
    BY <2>4 DEF vars, TypeOK
  <2>5. QED
    BY <2>1, <2>2, <2>3, <2>4, BeginType DEF Next
<1>3. QED
  BY <1>1, <1>2, PTL DEF Spec

-----------------------------------------------------------------------------
(* What a step of a call amounts to: for the container, its handles and    *)
(* the goroutine's place in its call.                                      *)

\* Where the call of goroutine c may be next, before the creation and after it.
Early(c) == {r \in Call : /\ r.op = call[c].op /\ r.h = call[c].h
                          /\ r.at \in BeforeCreation \cup {"idle"}}
Late(c) == {r \in Call : /\ r.op = call[c].op /\ r.h = call[c].h
                         /\ r.at \notin BeforeCreation \cup {"removing"}}

\* Goroutine c goes on in Run before the creation.
GoesOnEarly(c) ==
  /\ call[c].at \in BeforeCreation
  /\ \E r \in Early(c) : StepNoHandle(c, r)

\* Goroutine c goes on in its call after the creation: it keeps the handle, and gives it
\* to callers when it returns.
GoesOn(c) ==
  /\ call[c].at \notin BeforeCreation \cup {"idle"}
  /\ \E r \in Late(c) : Step(c, r)

\* The states of a container that can be started, stopped and removed.
Alive == {"created", "running", "exited"}

\* What a call after the creation does to the container, short of beginning its removal.
BoxMoves(c) ==
  \/ box' = box
  \/ box \in Alive /\ box' \in Alive
  \/ call[c].at = "removing" /\ box' \in {"removed", "exited"} /\ ~Idle(c)'

\* What a step of a call amounts to.
Progress(c) ==
  /\ calls' = calls
  /\ \/ GoesOnEarly(c) /\ UNCHANGED <<box, unseen>>
     \/ Create(c) \/ CreateUnseen(c)
     \/ GoesOn(c) /\ BoxMoves(c) /\ UNCHANGED unseen
     \/ ContainerRemove(c)

\* What the functions on call records keep of the record, and where they lead.
LEMMA NextFields ==
  ASSUME NEW r \in Call
  PROVE  /\ \A phase \in Phases : /\ Enter(r, phase).op = r.op /\ Enter(r, phase).h = r.h
                                  /\ Enter(r, phase).at = phase
         /\ \A place \in Places : /\ Goto(r, place).op = r.op /\ Goto(r, place).h = r.h
                                  /\ Goto(r, place).at = place
         /\ \A errs : /\ Return(r, errs).op = r.op /\ Return(r, errs).h = r.h
                      /\ Return(r, errs).at = "idle"
         /\ \A e : /\ AddErr(r, e).op = r.op /\ AddErr(r, e).h = r.h
                   /\ AddErr(r, e).at = r.at
         /\ \A task : /\ Pass(r, task).op = r.op /\ Pass(r, task).h = r.h
                      /\ Pass(r, task).at = r.at
         /\ Faulted(r).op = r.op /\ Faulted(r).h = r.h /\ Faulted(r).at = r.at
         /\ Forgive(r).op = r.op /\ Forgive(r).h = r.h /\ Forgive(r).at = r.at
         /\ LastTask(r).op = r.op /\ LastTask(r).h = r.h /\ LastTask(r).at = r.at
         /\ NextTask(r).op = r.op /\ NextTask(r).h = r.h /\ NextTask(r).at = r.at
BY DEF Enter, Goto, Return, AddErr, Pass, Faulted, Forgive, LastTask, NextTask, Call

\* However Stop ends, its call goes on with the same handle.
LEMMA AfterStopFields ==
  ASSUME NEW r \in Call, NEW errs \in SUBSET ErrKinds
  PROVE  /\ AfterStop(r, errs).op = r.op /\ AfterStop(r, errs).h = r.h
         /\ AfterStop(r, errs).at \in {"PreTerminates", "idle"}
<1>1. Forgive(r) \in Call
  BY CallRecords
<1>2. /\ Enter(Forgive(r), "PreTerminates").op = r.op
      /\ Enter(Forgive(r), "PreTerminates").h = r.h
      /\ Enter(Forgive(r), "PreTerminates").at = "PreTerminates"
  BY <1>1, NextFields DEF Phases
<1>3. QED
  BY <1>2, NextFields DEF AfterStop

\* The records a step goes on with, before the creation and after it.
LEMMA NextCalls ==
  ASSUME TypeOK, NEW c \in Callers
  PROVE  /\ Enter(call[c], "PreCreates") \in Early(c)
         /\ Goto(call[c], "substitute") \in Early(c)
         /\ Goto(call[c], "ContainerCreate") \in Early(c)
         /\ \A phase \in Phases \ {"PreCreates"} : Enter(call[c], phase) \in Late(c)
         /\ \A place \in EngineCalls \ {"ContainerCreate", "removing"} : Goto(call[c], place) \in Late(c)
         /\ Goto(call[c], "stopped") \in Late(c)
         /\ Return(call[c], call[c].errs) \in Early(c) \cap Late(c)
         /\ \A errs \in SUBSET ErrKinds :
              /\ Return(call[c], errs) \in Early(c) \cap Late(c)
              /\ Return(Faulted(call[c]), errs) \in Early(c) \cap Late(c)
              /\ AfterStop(call[c], errs) \in Late(c)
              /\ AfterStop(Faulted(call[c]), errs) \in Late(c)
<1>1. call[c] \in Call /\ call[c].errs \in SUBSET ErrKinds
  BY DEF TypeOK, Call
<1>2. Faulted(call[c]) \in Call
  BY <1>1, CallRecords
<1>3. /\ Enter(call[c], "PreCreates") \in Early(c)
      /\ \A phase \in Phases \ {"PreCreates"} : Enter(call[c], phase) \in Late(c)
  <2>1. "PreCreates" \in Phases \cap BeforeCreation
    BY DEF Phases, BeforeCreation
  <2>2. \A phase \in Phases \ {"PreCreates"} : phase \notin BeforeCreation \cup {"removing"}
    BY DEF Phases, BeforeCreation
  <2>3. \A phase \in Phases : Enter(call[c], phase) \in Call
    BY <1>1, CallRecords
  <2>4. \A phase \in Phases : /\ Enter(call[c], phase).op = call[c].op
                              /\ Enter(call[c], phase).h = call[c].h
                              /\ Enter(call[c], phase).at = phase
    BY <1>1, NextFields
  <2>5. Enter(call[c], "PreCreates") \in Early(c)
    BY <2>1, <2>3, <2>4 DEF Early
  <2>6. QED
    BY <2>2, <2>3, <2>4, <2>5 DEF Late
<1>4. Goto(call[c], "substitute") \in Early(c) /\ Goto(call[c], "ContainerCreate") \in Early(c)
  <2>1. {"substitute", "ContainerCreate"} \subseteq Places \cap BeforeCreation
    BY DEF Places, EngineCalls, BeforeCreation
  <2>2. QED
    BY <1>1, <2>1, CallRecords, NextFields DEF Early
<1>5. /\ \A place \in EngineCalls \ {"ContainerCreate", "removing"} : Goto(call[c], place) \in Late(c)
      /\ Goto(call[c], "stopped") \in Late(c)
  <2>1. \A place \in EngineCalls \ {"ContainerCreate", "removing"} :
          place \in Places \ (BeforeCreation \cup {"removing"})
    BY DEF Places, EngineCalls, BeforeCreation
  <2>2. "stopped" \in Places \ (BeforeCreation \cup {"removing"})
    BY DEF Places, BeforeCreation
  <2>3. \A place \in Places : /\ Goto(call[c], place).op = call[c].op
                              /\ Goto(call[c], place).h = call[c].h
                              /\ Goto(call[c], place).at = place
    BY <1>1, NextFields
  <2>4. QED
    BY <2>1, <2>2, <2>3, NextRecords DEF Late
<1>6. \A errs \in SUBSET ErrKinds :
        /\ Return(call[c], errs) \in Early(c) \cap Late(c)
        /\ Return(Faulted(call[c]), errs) \in Early(c) \cap Late(c)
  <2>1. "idle" \notin BeforeCreation
    BY DEF BeforeCreation
  <2>2. \A errs : /\ Return(call[c], errs).op = call[c].op
                  /\ Return(call[c], errs).h = call[c].h
                  /\ Return(call[c], errs).at = "idle"
    BY <1>1, NextFields
  <2>3. \A errs : /\ Return(Faulted(call[c]), errs).op = Faulted(call[c]).op
                  /\ Return(Faulted(call[c]), errs).h = Faulted(call[c]).h
                  /\ Return(Faulted(call[c]), errs).at = "idle"
    BY <1>2, NextFields
  <2>4. Faulted(call[c]).op = call[c].op /\ Faulted(call[c]).h = call[c].h
    BY <1>1, NextFields
  <2>5. QED
    BY <2>1, <2>2, <2>3, <2>4, NextRecords DEF Early, Late
<1>7. \A errs \in SUBSET ErrKinds :
        /\ AfterStop(call[c], errs) \in Late(c)
        /\ AfterStop(Faulted(call[c]), errs) \in Late(c)
  <2>1. "idle" \notin BeforeCreation /\ "PreTerminates" \notin BeforeCreation
    BY DEF BeforeCreation
  <2>2. Faulted(call[c]).op = call[c].op /\ Faulted(call[c]).h = call[c].h
    BY <1>1, NextFields
  <2>3. \A errs \in SUBSET ErrKinds : AfterStop(call[c], errs) \in Late(c)
    BY <1>1, <2>1, AfterStopType, AfterStopFields DEF Late
  <2>4. \A errs \in SUBSET ErrKinds : AfterStop(Faulted(call[c]), errs) \in Late(c)
    BY <1>2, <2>1, <2>2, AfterStopType, AfterStopFields DEF Late
  <2>5. QED
    BY <2>3, <2>4
<1>8. QED
  BY <1>1, <1>3, <1>4, <1>5, <1>6, <1>7

\* The steps of hooks keep the call, its handle and its phase.
LEMMA HookCalls ==
  ASSUME TypeOK, NEW c \in Callers, call[c].todo # <<>>,
         NEW r, \/ r \in {NextTask(call[c]), NextTask(Pass(call[c], Head(call[c].todo)))}
                \/ \E e \in ErrKinds : r \in {NextTask(AddErr(call[c], e)),
                                              NextTask(Faulted(AddErr(call[c], e))),
                                              LastTask(Faulted(AddErr(call[c], e)))}
  PROVE  /\ call[c].at \in BeforeCreation => r \in Early(c)
         /\ call[c].at \notin BeforeCreation \cup {"removing"} => r \in Late(c)
<1>1. call[c] \in Call
  BY DEF TypeOK
<1>2. Head(call[c].todo) \in Tasks
  BY <1>1, CallRecords
<1>3. Pass(call[c], Head(call[c].todo)) \in Call
  BY <1>1, <1>2, CallRecords
<1>4. \A e \in ErrKinds : AddErr(call[c], e) \in Call
  BY <1>1, CallRecords
<1>5. \A e \in ErrKinds : Faulted(AddErr(call[c], e)) \in Call
  BY <1>4, CallRecords
<1>6. r \in Call
  BY HookRecords
<1>7. r.op = call[c].op /\ r.h = call[c].h /\ r.at = call[c].at
  <2>1. CASE r \in {NextTask(call[c]), NextTask(Pass(call[c], Head(call[c].todo)))}
    BY <2>1, <1>1, <1>3, NextFields
  <2>2. ASSUME NEW e \in ErrKinds,
               r \in {NextTask(AddErr(call[c], e)), NextTask(Faulted(AddErr(call[c], e))),
                      LastTask(Faulted(AddErr(call[c], e)))}
        PROVE  r.op = call[c].op /\ r.h = call[c].h /\ r.at = call[c].at
    BY <2>2, <1>1, <1>4, <1>5, NextFields
  <2>3. QED
    BY <2>1, <2>2
<1>8. QED
  BY <1>6, <1>7 DEF Early, Late

\* The steps of Run around the creation.
LEMMA CreateStepProgress ==
  ASSUME TypeOK, NEW c \in Callers, CreateStep(c)
  PROVE  Progress(c)
<1>1. \A e \in {"fail", "notfound"} : e \in ErrKinds /\ {e} \in SUBSET ErrKinds
  BY DEF ErrKinds
<1>2. {"PostCreates", "PreStarts"} \subseteq Phases \ {"PreCreates"}
  BY DEF Phases
<1>3. /\ {"prepare", "PreCreates", "substitute", "ContainerCreate"} \subseteq BeforeCreation
      /\ \A place \in {"NetworkConnect", "PostCreates"} : place \notin BeforeCreation \cup {"idle", "removing"}
  BY DEF BeforeCreation
<1>4. CASE Prepare(c)
  <2>1. GoesOnEarly(c)
    BY <1>1, <1>2, <1>3, NextCalls, <1>4 DEF Prepare, GoesOnEarly, At, HooksDone
  <2>2. QED
    BY <2>1, <1>4 DEF Prepare, Progress, BoxMoves, Alive, engineVars
<1>5. CASE DefinitionHookPasses(c)
  <2>1. GoesOnEarly(c)
    BY <1>3, HookCalls, <1>5 DEF DefinitionHookPasses, GoesOnEarly, At, HooksDone
  <2>2. QED
    BY <2>1, <1>5 DEF DefinitionHookPasses, Progress, BoxMoves, Alive, engineVars
<1>6. CASE DefinitionHookFails(c)
  <2>1. GoesOnEarly(c)
    BY <1>1, <1>3, HookCalls, <1>6 DEF DefinitionHookFails, GoesOnEarly, At, HooksDone
  <2>2. QED
    BY <2>1, <1>6 DEF DefinitionHookFails, Progress, BoxMoves, Alive, engineVars
<1>7. CASE CreatingHookReturns(c)
  <2>1. GoesOnEarly(c)
    BY <1>1, <1>2, <1>3, NextCalls, <1>7 DEF CreatingHookReturns, GoesOnEarly, At, HooksDone
  <2>2. QED
    BY <2>1, <1>7 DEF CreatingHookReturns, Progress, BoxMoves, Alive, engineVars
<1>8. CASE Substitute(c)
  <2>1. GoesOnEarly(c)
    BY <1>1, <1>2, <1>3, NextCalls, <1>8 DEF Substitute, GoesOnEarly, At, HooksDone
  <2>2. QED
    BY <2>1, <1>8 DEF Substitute, Progress, BoxMoves, Alive, engineVars
<1>9. CASE CreateFails(c)
  <2>1. GoesOnEarly(c)
    BY <1>1, <1>2, <1>3, NextCalls, <1>9 DEF CreateFails, GoesOnEarly, At, HooksDone
  <2>2. QED
    BY <2>1, <1>9 DEF CreateFails, Progress, BoxMoves, Alive, engineVars
<1>10. CASE CreateUnseen(c)
  BY <1>10 DEF CreateUnseen, Progress
<1>11. CASE Create(c)
  BY <1>11 DEF Create, Progress
<1>12. CASE NetworkConnect(c)
  <2>1. GoesOn(c)
    BY <1>1, <1>2, <1>3, NextCalls, HookCalls, <1>12 DEF NetworkConnect, GoesOn, At, HooksDone
  <2>2. QED
    BY <2>1, <1>12 DEF NetworkConnect, Progress, BoxMoves, Alive, engineVars
<1>13. CASE NetworksDone(c)
  <2>1. GoesOn(c)
    BY <1>1, <1>2, <1>3, NextCalls, <1>13 DEF NetworksDone, GoesOn, At, HooksDone
  <2>2. QED
    BY <2>1, <1>13 DEF NetworksDone, Progress, BoxMoves, Alive, engineVars
<1>14. CASE CreatedHookReturns(c)
  <2>1. GoesOn(c)
    BY <1>1, <1>2, <1>3, NextCalls, <1>14 DEF CreatedHookReturns, GoesOn, At, HooksDone
  <2>2. QED
    BY <2>1, <1>14 DEF CreatedHookReturns, Progress, BoxMoves, Alive, engineVars
<1>15. QED
  BY <1>4, <1>5, <1>6, <1>7, <1>8, <1>9, <1>10, <1>11, <1>12, <1>13, <1>14 DEF CreateStep

\* The steps of hooks.
LEMMA HookStepProgress ==
  ASSUME TypeOK, NEW c \in Callers, HookStep(c)
  PROVE  Progress(c)
<1>1. {"fail", "notfound"} \subseteq ErrKinds
  BY DEF ErrKinds
<1>2. \A phase \in Phases \ {"PreCreates"} : phase \notin BeforeCreation \cup {"idle", "removing"}
  BY DEF Phases, BeforeCreation
<1>3. CASE ContainerHookPasses(c)
  <2>1. GoesOn(c)
    BY <1>2, HookCalls, <1>3 DEF ContainerHookPasses, GoesOn, At, HooksDone
  <2>2. QED
    BY <2>1, <1>3 DEF ContainerHookPasses, Progress, BoxMoves, Alive, engineVars
<1>4. CASE ContainerHookFails(c)
  <2>1. GoesOn(c)
    BY <1>1, <1>2, HookCalls, <1>4 DEF ContainerHookFails, GoesOn, At, HooksDone
  <2>2. QED
    BY <2>1, <1>4 DEF ContainerHookFails, Progress, BoxMoves, Alive, engineVars
<1>5. QED
  BY <1>3, <1>4 DEF HookStep

\* The steps of Start.
LEMMA StartStepProgress ==
  ASSUME TypeOK, NEW c \in Callers, StartStep(c)
  PROVE  Progress(c)
<1>1. \A e \in {"fail", "notfound", "conflict"} : {e} \in SUBSET ErrKinds
  BY DEF ErrKinds
<1>2. /\ "PostReadies" \in Phases \ {"PreCreates"}
      /\ "ContainerStart" \in EngineCalls \ {"ContainerCreate", "removing"}
  BY DEF Phases, EngineCalls
<1>3. \A place \in {"PreStarts", "ContainerStart", "PostStarts", "PostReadies"} :
        place \notin BeforeCreation \cup {"idle", "removing"}
  BY DEF BeforeCreation
<1>4. Enter(Pass(call[c], "engine"), "PostStarts") \in Late(c)
  <2>1. call[c] \in Call
    BY DEF TypeOK
  <2>2. Pass(call[c], "engine") \in Call
    BY <2>1, CallRecords
  <2>3. "PostStarts" \in Phases /\ "PostStarts" \notin BeforeCreation \cup {"removing"}
    BY DEF Phases, BeforeCreation
  <2>4. /\ Pass(call[c], "engine").op = call[c].op
        /\ Pass(call[c], "engine").h = call[c].h
    BY <2>1, NextFields
  <2>5. QED
    BY <2>2, <2>3, <2>4, CallRecords, NextFields DEF Late
<1>5. CASE StartingHookReturns(c)
  <2>1. GoesOn(c)
    BY <1>1, <1>2, <1>3, NextCalls, <1>5 DEF StartingHookReturns, GoesOn, At, HooksDone
  <2>2. QED
    BY <2>1, <1>5 DEF StartingHookReturns, Progress, BoxMoves, Alive, engineVars
<1>6. CASE ContainerStart(c)
  <2>1. GoesOn(c)
    BY <1>1, <1>2, <1>3, NextCalls, <1>4, <1>6 DEF ContainerStart, GoesOn, At, HooksDone
  <2>2. QED
    BY <2>1, <1>6 DEF ContainerStart, Progress, BoxMoves, Alive, engineVars
<1>7. CASE StartFails(c)
  <2>1. GoesOn(c)
    BY <1>1, <1>2, <1>3, NextCalls, <1>7 DEF StartFails, GoesOn, At, HooksDone
  <2>2. QED
    BY <2>1, <1>7 DEF StartFails, Progress, BoxMoves, Alive, engineVars
<1>8. CASE StartedHookReturns(c)
  <2>1. GoesOn(c)
    BY <1>1, <1>2, <1>3, NextCalls, <1>8 DEF StartedHookReturns, GoesOn, At, HooksDone
  <2>2. QED
    BY <2>1, <1>8 DEF StartedHookReturns, Progress, BoxMoves, Alive, engineVars
<1>9. CASE ReadiedHookReturns(c)
  <2>1. GoesOn(c)
    BY <1>1, <1>2, <1>3, NextCalls, <1>9 DEF ReadiedHookReturns, GoesOn, At, HooksDone
  <2>2. QED
    BY <2>1, <1>9 DEF ReadiedHookReturns, Progress, BoxMoves, Alive, engineVars
<1>10. QED
  BY <1>5, <1>6, <1>7, <1>8, <1>9 DEF StartStep

\* The steps of Stop.
LEMMA StopStepProgress ==
  ASSUME TypeOK, NEW c \in Callers, StopStep(c)
  PROVE  Progress(c)
<1>1. \A e \in {"fail", "notfound"} : {e} \in SUBSET ErrKinds
  BY DEF ErrKinds
<1>2. /\ "PostStops" \in Phases \ {"PreCreates"}
      /\ "ContainerStop" \in EngineCalls \ {"ContainerCreate", "removing"}
      /\ call[c].errs \in SUBSET ErrKinds
  BY DEF Phases, EngineCalls, TypeOK, Call
<1>3. \A place \in {"PreStops", "ContainerStop", "stopped", "PostStops"} :
        place \notin BeforeCreation \cup {"idle", "removing"}
  BY DEF BeforeCreation
<1>4. CASE StoppingHookReturns(c)
  <2>1. GoesOn(c)
    BY <1>1, <1>2, <1>3, NextCalls, <1>4 DEF StoppingHookReturns, GoesOn, At, HooksDone
  <2>2. QED
    BY <2>1, <1>4 DEF StoppingHookReturns, Progress, BoxMoves, Alive, engineVars
<1>5. CASE ContainerStop(c)
  <2>1. GoesOn(c)
    BY <1>1, <1>2, <1>3, NextCalls, <1>5 DEF ContainerStop, GoesOn, At, HooksDone
  <2>2. QED
    BY <2>1, <1>5 DEF ContainerStop, Progress, BoxMoves, Alive, engineVars
<1>6. CASE StopFails(c)
  <2>1. GoesOn(c)
    BY <1>1, <1>2, <1>3, NextCalls, <1>6 DEF StopFails, GoesOn, At, HooksDone
  <2>2. QED
    BY <2>1, <1>6 DEF StopFails, Progress, BoxMoves, Alive, engineVars
<1>7. CASE MarkStopped(c)
  <2>1. GoesOn(c)
    BY <1>1, <1>2, <1>3, NextCalls, <1>7 DEF MarkStopped, GoesOn, At, HooksDone
  <2>2. QED
    BY <2>1, <1>7 DEF MarkStopped, Progress, BoxMoves, Alive, engineVars
<1>8. CASE StoppedHookReturns(c)
  <2>1. GoesOn(c)
    BY <1>1, <1>2, <1>3, NextCalls, <1>8 DEF StoppedHookReturns, GoesOn, At, HooksDone
  <2>2. QED
    BY <2>1, <1>8 DEF StoppedHookReturns, Progress, BoxMoves, Alive, engineVars
<1>9. QED
  BY <1>4, <1>5, <1>6, <1>7, <1>8 DEF StopStep

\* The steps of Terminate after its Stop.
LEMMA TerminateStepProgress ==
  ASSUME TypeOK, NEW c \in Callers, TerminateStep(c)
  PROVE  Progress(c)
<1>1. /\ \A e \in {"fail", "notfound", "conflict", "inprogress"} : e \in ErrKinds
      /\ \A e \in {"fail", "conflict"} : call[c].errs \cup {e} \in SUBSET ErrKinds
      /\ call[c].errs \in SUBSET ErrKinds
  BY NextRecords DEF ErrKinds
<1>2. /\ "PostTerminates" \in Phases \ {"PreCreates"}
      /\ {"ContainerRemove", "VolumeRemove"} \subseteq EngineCalls \ {"ContainerCreate", "removing"}
  BY DEF Phases, EngineCalls
<1>3. \A place \in {"PreTerminates", "ContainerRemove", "removing", "PostTerminates",
                    "VolumeRemove"} :
        place \notin BeforeCreation \cup {"idle"}
  BY DEF BeforeCreation
<1>4. \A e \in ErrKinds : /\ Enter(AddErr(call[c], e), "PostTerminates") \in Late(c)
                          /\ Enter(Faulted(AddErr(call[c], e)), "PostTerminates") \in Late(c)
  <2> SUFFICES ASSUME NEW e \in ErrKinds
               PROVE  /\ Enter(AddErr(call[c], e), "PostTerminates") \in Late(c)
                      /\ Enter(Faulted(AddErr(call[c], e)), "PostTerminates") \in Late(c)
    OBVIOUS
  <2>1. call[c] \in Call
    BY DEF TypeOK
  <2>2. /\ AddErr(call[c], e) \in Call
        /\ AddErr(call[c], e).op = call[c].op /\ AddErr(call[c], e).h = call[c].h
    <3>1. AddErr(call[c], e) \in Call
      BY <2>1, CallRecords
    <3>2. AddErr(call[c], e).op = call[c].op /\ AddErr(call[c], e).h = call[c].h
      BY <2>1, NextFields
    <3>3. QED
      BY <3>1, <3>2
  <2>3. /\ Faulted(AddErr(call[c], e)) \in Call
        /\ Faulted(AddErr(call[c], e)).op = call[c].op
        /\ Faulted(AddErr(call[c], e)).h = call[c].h
    BY <2>2, CallRecords, NextFields
  <2>4. "PostTerminates" \in Phases /\ "PostTerminates" \notin BeforeCreation \cup {"removing"}
    BY <1>2, <1>3
  <2>5. Enter(AddErr(call[c], e), "PostTerminates") \in Late(c)
    BY <2>2, <2>4, CallRecords, NextFields DEF Late
  <2>6. Enter(Faulted(AddErr(call[c], e)), "PostTerminates") \in Late(c)
    BY <2>3, <2>4, CallRecords, NextFields DEF Late
  <2>7. QED
    BY <2>5, <2>6
<1>5. CASE TerminatingHookReturns(c)
  <2>1. GoesOn(c)
    BY <1>1, <1>2, <1>3, NextCalls, <1>5 DEF TerminatingHookReturns, GoesOn, At, HooksDone
  <2>2. QED
    BY <2>1, <1>5 DEF TerminatingHookReturns, Progress, BoxMoves, Alive, engineVars
<1>6. CASE ContainerRemove(c)
  BY <1>6 DEF ContainerRemove, Progress
<1>7. CASE RemoveFails(c)
  <2>1. GoesOn(c)
    BY <1>1, <1>2, <1>3, NextCalls, <1>4, <1>7 DEF RemoveFails, GoesOn, At, HooksDone
  <2>2. QED
    BY <2>1, <1>7 DEF RemoveFails, Progress, BoxMoves, Alive, engineVars
<1>8. CASE RemovalEnds(c)
  <2>1. GoesOn(c)
    BY <1>1, <1>2, <1>3, NextCalls, <1>4, <1>8 DEF RemovalEnds, GoesOn, At, HooksDone
  <2>2. ~Idle(c)'
    <3>1. \/ Step(c, Enter(call[c], "PostTerminates"))
          \/ Step(c, Enter(Faulted(AddErr(call[c], "fail")), "PostTerminates"))
      BY <1>8 DEF RemovalEnds
    <3>2. call'[c].at = "PostTerminates"
      <4>1. Faulted(AddErr(call[c], "fail")) \in Call /\ "PostTerminates" \in Phases
        BY <1>1, <1>2, CallRecords DEF TypeOK
      <4>2. QED
        BY <3>1, <4>1, NextFields DEF Step, TypeOK
    <3>3. QED
      BY <3>2 DEF Idle
  <2>3. QED
    BY <2>1, <2>2, <1>8 DEF RemovalEnds, Progress, BoxMoves, Alive, At, engineVars
<1>9. CASE TerminatedHookReturns(c)
  <2>1. GoesOn(c)
    BY <1>1, <1>2, <1>3, NextCalls, <1>9 DEF TerminatedHookReturns, GoesOn, At, HooksDone
  <2>2. QED
    BY <2>1, <1>9 DEF TerminatedHookReturns, Progress, BoxMoves, Alive, engineVars
<1>10. CASE VolumeRemove(c)
  <2>1. GoesOn(c)
    BY <1>1, <1>2, <1>3, NextCalls, <1>10 DEF VolumeRemove, GoesOn, At, HooksDone
  <2>2. QED
    BY <2>1, <1>10 DEF VolumeRemove, Progress, BoxMoves, Alive, engineVars
<1>11. QED
  BY <1>5, <1>6, <1>7, <1>8, <1>9, <1>10 DEF TerminateStep

\* Any step of a call amounts to one of these.
LEMMA CallProgress ==
  ASSUME TypeOK, NEW c \in Callers, CallStep(c)
  PROVE  Progress(c)
BY CreateStepProgress, HookStepProgress, StartStepProgress, StopStepProgress,
   TerminateStepProgress DEF CallStep

\* A step of a call keeps its operation and its handle.
LEMMA SameCall ==
  ASSUME TypeOK, NEW c \in Callers, Progress(c)
  PROVE  call'[c].op = call[c].op /\ call'[c].h = call[c].h /\ ~Idle(c)
<1>1. CASE GoesOnEarly(c)
  BY <1>1 DEF GoesOnEarly, Early, StepNoHandle, TypeOK, Idle, BeforeCreation
<1>2. CASE GoesOn(c)
  BY <1>2 DEF GoesOn, Late, Step, TypeOK, Idle
<1>3. CASE Create(c)
  BY <1>3 DEF Create, StepNoHandle, Goto, TypeOK, Call, Idle, At
<1>4. CASE CreateUnseen(c)
  BY <1>4 DEF CreateUnseen, StepNoHandle, Return, Faulted, TypeOK, Call, Idle, At
<1>5. CASE ContainerRemove(c)
  BY <1>5 DEF ContainerRemove, Step, Goto, TypeOK, Call, Idle, At
<1>6. QED
  BY <1>1, <1>2, <1>3, <1>4, <1>5 DEF Progress

\* A step of a call leaves the others where they are.
LEMMA OthersStay ==
  ASSUME TypeOK, NEW c \in Callers, Progress(c)
  PROVE  \A d \in Callers \ {c} : call'[d] = call[d]
<1>1. PICK r : call' = [call EXCEPT ![c] = r]
  BY DEF Progress, GoesOnEarly, GoesOn, Create, CreateUnseen, ContainerRemove, Step, StepNoHandle
<1>2. QED
  BY <1>1 DEF TypeOK

-----------------------------------------------------------------------------
(* No container is lost.                                                   *)

\* Going on after the creation loses nothing.
LEMMA GoesOnKeeps ==
  ASSUME TypeOK, Ownership, NEW c \in Callers, NEW r \in Call, Step(c, r),
         r.op = call[c].op, r.h = call[c].h, r.at \notin BeforeCreation,
         call[c].at \notin BeforeCreation \cup {"idle"},
         box # "none" => box' # "none", UNCHANGED <<calls, unseen>>
  PROVE  Ownership'
<1>1. /\ Step(c, r) /\ r.op = call[c].op /\ r.h = call[c].h
      /\ r.at \notin BeforeCreation
  OBVIOUS
<1>2. /\ call \in [Callers -> Call] /\ call' = [call EXCEPT ![c] = r]
      /\ known' = IF r.at = "idle" THEN known \cup {r.h} ELSE known
  BY <1>1 DEF TypeOK, Step
<1>3. box # "none" /\ box' # "none"
  BY DEF Ownership
<1>4. \A d \in Callers : call'[d].op = call[d].op /\ call'[d].h = call[d].h
  BY <1>1, <1>2
<1>5. \A d \in Callers : call'[d].at \notin BeforeCreation
  BY <1>1, <1>2, <1>3 DEF Ownership
<1>6. NoOrphan'
  <2>1. CASE call[c].op \in {"Run", "Create"} /\ r.at = "idle"
    BY <1>1, <1>2, <2>1 DEF Ownership, NoOrphan
  <2>2. CASE ~(call[c].op \in {"Run", "Create"} /\ r.at = "idle")
    <3>1. RunUnderWay => RunUnderWay'
      <4>1. SUFFICES ASSUME NEW d \in Callers, call[d].op \in {"Run", "Create"}, ~Idle(d)
                     PROVE  RunUnderWay'
        BY DEF RunUnderWay
      <4>2. call'[d].op \in {"Run", "Create"} /\ call'[d].at # "idle"
        BY <1>1, <1>2, <1>4, <2>2, <4>1 DEF Idle
      <4>3. QED
        BY <4>2 DEF RunUnderWay, Idle
    <3>2. known \subseteq known'
      BY <1>2
    <3>3. QED
      BY <1>3, <3>1, <3>2 DEF Ownership, NoOrphan
  <2>3. QED
    BY <2>1, <2>2
<1>7. QED
  BY <1>3, <1>4, <1>5, <1>6 DEF Ownership

\* Going on before the creation, which has not taken place, loses nothing.
LEMMA GoesOnEarlyKeeps ==
  ASSUME TypeOK, Ownership, NEW c \in Callers, GoesOnEarly(c), UNCHANGED <<box, calls, unseen>>
  PROVE  Ownership'
<1>1. PICK r \in Call : /\ StepNoHandle(c, r) /\ r.op = call[c].op /\ r.h = call[c].h
                        /\ r.at \in BeforeCreation \cup {"idle"}
  BY DEF GoesOnEarly, Early
<1>2. call \in [Callers -> Call] /\ call' = [call EXCEPT ![c] = r] /\ known' = known
  BY <1>1 DEF TypeOK, StepNoHandle
<1>3. box = "none" /\ box' = "none" /\ call[c].op \in {"Run", "Create"}
  BY DEF GoesOnEarly, Ownership
<1>4. \A d \in Callers : call'[d].op = call[d].op /\ call'[d].h = call[d].h
  BY <1>1, <1>2
<1>5. \A d \in Callers : call'[d].at = call[d].at \/ (d = c /\ call'[d].at = r.at)
  BY <1>2
<1>6. NoOrphan'
  BY <1>3 DEF NoOrphan
<1>7. \A d \in Callers : call'[d].at \in BeforeCreation => call'[d].op \in {"Run", "Create"}
  BY <1>3, <1>4, <1>5 DEF Ownership
<1>8. QED
  BY <1>1, <1>2, <1>3, <1>4, <1>5, <1>6, <1>7 DEF Ownership

\* The creation loses no container: either Run goes on with it, or its answer is lost.
LEMMA CreationKeeps ==
  ASSUME TypeOK, Ownership, NEW c \in Callers, NEW r, StepNoHandle(c, r),
         r.op = call[c].op, r.h = call[c].h, call[c].at = "ContainerCreate",
         r.at \notin BeforeCreation, box' = "created", calls' = calls,
         unseen' \/ (unseen' = unseen /\ r.at # "idle")
  PROVE  Ownership'
<1>1. call \in [Callers -> Call] /\ call' = [call EXCEPT ![c] = r] /\ known' = known
  BY DEF TypeOK, StepNoHandle
<1>2. call[c].op \in {"Run", "Create"}
  BY DEF Ownership, BeforeCreation
<1>3. \A d \in Callers : call'[d].op = call[d].op /\ call'[d].h = call[d].h
  BY <1>1
<1>4. \A d \in Callers : call'[d].at \notin BeforeCreation
  BY <1>1, <1>2 DEF Ownership
<1>5. NoOrphan'
  <2>1. CASE unseen'
    BY <2>1 DEF NoOrphan
  <2>2. CASE r.at # "idle"
    BY <1>1, <1>2, <1>3, <2>2 DEF NoOrphan, RunUnderWay, Idle
  <2>3. QED
    BY <2>1, <2>2
<1>6. box' # "none"
  OBVIOUS
<1>7. QED
  BY <1>3, <1>4, <1>5, <1>6 DEF Ownership

\* No step of a call loses the container.
LEMMA ProgressKeeps ==
  ASSUME TypeOK, Ownership, NEW c \in Callers, Progress(c)
  PROVE  Ownership'
<1>1. CASE GoesOnEarly(c) /\ UNCHANGED <<box, unseen>>
  BY <1>1, GoesOnEarlyKeeps DEF Progress
<1>2. CASE Create(c)
  <2>1. DEFINE r == [Goto(call[c], "NetworkConnect")
                      EXCEPT !.todo = [i \in 1..ExtraNetworks |-> "network"]]
  <2>2. r.op = call[c].op /\ r.h = call[c].h /\ r.at = "NetworkConnect"
    BY DEF Goto, TypeOK, Call
  <2>3. StepNoHandle(c, r) /\ box' = "created" /\ UNCHANGED <<unseen, calls>>
    BY <1>2 DEF Create
  <2>4. call[c].at = "ContainerCreate"
    BY <1>2 DEF Create, At
  <2> HIDE DEF r
  <2>5. r.at \notin BeforeCreation \cup {"idle"}
    BY <2>2 DEF BeforeCreation
  <2>6. QED
    BY <2>2, <2>3, <2>4, <2>5, CreationKeeps
<1>3. CASE CreateUnseen(c)
  <2>1. StepNoHandle(c, Return(Faulted(call[c]), {"fail"}))
    BY <1>3 DEF CreateUnseen
  <2>2. /\ Return(Faulted(call[c]), {"fail"}).op = call[c].op
        /\ Return(Faulted(call[c]), {"fail"}).h = call[c].h
        /\ Return(Faulted(call[c]), {"fail"}).at \notin BeforeCreation
    <3>1. call[c] \in Call /\ Faulted(call[c]) \in Call
      BY CallRecords DEF TypeOK
    <3>2. QED
      BY <3>1, NextFields DEF BeforeCreation
  <2>3. QED
    BY <1>3, <2>1, <2>2, CreationKeeps DEF CreateUnseen, At
<1>4. CASE GoesOn(c) /\ BoxMoves(c) /\ UNCHANGED unseen
  BY <1>4, GoesOnKeeps DEF Progress, GoesOn, Late, BoxMoves, Alive
<1>5. CASE ContainerRemove(c)
  <2>1. /\ Step(c, Goto(call[c], "removing")) /\ call[c].at = "ContainerRemove"
        /\ box' = "removing" /\ UNCHANGED <<calls, unseen>>
    BY <1>5 DEF ContainerRemove, At
  <2>2. /\ Goto(call[c], "removing") \in Call /\ Goto(call[c], "removing").op = call[c].op
        /\ Goto(call[c], "removing").h = call[c].h /\ Goto(call[c], "removing").at = "removing"
    BY NextRecords, NextFields DEF Places, EngineCalls, TypeOK
  <2>3. "removing" \notin BeforeCreation /\ "ContainerRemove" \notin BeforeCreation \cup {"idle"}
    BY DEF BeforeCreation
  <2>4. QED
    BY <2>1, <2>2, <2>3, GoesOnKeeps
<1>6. QED
  BY <1>1, <1>2, <1>3, <1>4, <1>5 DEF Progress

\* Nor does a new call: the one Run comes first, and the other calls need a handle.
LEMMA BeginKeeps ==
  ASSUME TypeOK, Ownership, NEW c \in Callers,
         \/ \E op \in {"Run", "Create"} : BeginRun(c, op)
         \/ \E op \in {"Start", "Stop", "Terminate"}, h \in Handles : BeginCall(c, op, h)
  PROVE  Ownership'
<1>1. ASSUME NEW op \in {"Run", "Create"}, BeginRun(c, op) PROVE Ownership'
  <2>1. /\ calls = 0 /\ calls' = 1
        /\ call' = [call EXCEPT ![c] = [NoCall EXCEPT !.op = op, !.at = "prepare"]]
        /\ UNCHANGED <<known, box, unseen>>
    BY <1>1 DEF BeginRun, StepNoHandle, engineVars
  <2>2. /\ call'[c].op = op /\ call'[c].h = "run" /\ call'[c].at = "prepare"
        /\ \A d \in Callers \ {c} : call'[d] = call[d]
    BY <2>1 DEF TypeOK, NoCall
  <2>3. box = "none" /\ \A d \in Callers : call[d].op = "none"
    BY <2>1 DEF Ownership
  <2>4. \A d \in Callers \ {c} : call'[d].op = "none" /\ call'[d].at \in BeforeCreation \cup {"idle"}
                                /\ call'[d].at \notin BeforeCreation
    BY <2>2, <2>3 DEF Ownership
  <2>5. "prepare" \in BeforeCreation
    BY DEF BeforeCreation
  <2>6. known' = {} /\ box' = "none" /\ NoOrphan'
    BY <2>1, <2>3 DEF Ownership, NoOrphan
  <2>7. QED
    BY <2>1, <2>2, <2>4, <2>5, <2>6 DEF Ownership
<1>2. ASSUME NEW op \in {"Start", "Stop", "Terminate"}, NEW h \in Handles, BeginCall(c, op, h)
      PROVE  Ownership'
  <2>1. DEFINE r == Enter([NoCall EXCEPT !.op = op, !.h = h], FirstPhase(op))
  <2>2. r.op = op /\ r.h = h /\ r.at \in {"PreStarts", "PreStops"}
    BY DEF Enter, NoCall, FirstPhase
  <2>3. Step(c, r) /\ call[c].at = "idle" /\ h \in known /\ calls' = calls + 1
        /\ UNCHANGED <<box, unseen>>
    BY <1>2 DEF BeginCall, Idle, engineVars
  <2> HIDE DEF r
  <2>4. /\ call'[c] = r /\ known' = known
        /\ \A d \in Callers \ {c} : call'[d] = call[d]
    BY <2>2, <2>3 DEF TypeOK, Step
  <2>5. box # "none" /\ calls' # 0
    BY <2>3 DEF Ownership, TypeOK
  <2>6. r.at \notin BeforeCreation \cup {"idle"} /\ r.op \notin {"Run", "Create"}
    BY <2>2 DEF BeforeCreation
  <2>7. NoOrphan'
    <3>1. RunUnderWay => RunUnderWay'
      BY <2>3, <2>4 DEF RunUnderWay, Idle
    <3>2. QED
      BY <2>3, <2>4, <3>1 DEF Ownership, NoOrphan
  <2>8. QED
    BY <2>3, <2>4, <2>5, <2>6, <2>7 DEF Ownership
<1>3. QED
  BY <1>1, <1>2

\* The container exists exactly after the creation of the one Run, and is never lost.
LEMMA OwnershipHolds == Spec => []Ownership
<1>1. Init => Ownership
  BY DEF Init, Ownership, NoOrphan, NoCall, BeforeCreation
<1>2. TypeOK /\ Ownership /\ [Next]_vars => Ownership'
  <2> SUFFICES ASSUME TypeOK, Ownership, [Next]_vars PROVE Ownership'
    OBVIOUS
  <2>1. ASSUME NEW c \in Callers, CallStep(c) PROVE Ownership'
    BY <2>1, CallProgress, ProgressKeeps
  <2>2. CASE FromID
    BY <2>2 DEF FromID, Ownership, NoOrphan, RunUnderWay, Idle, engineVars
  <2>3. CASE Exit
    BY <2>3 DEF Exit, Ownership, NoOrphan, RunUnderWay, Idle
  <2>4. CASE UNCHANGED vars
    BY <2>4 DEF vars, Ownership, NoOrphan, RunUnderWay, Idle
  <2>5. QED
    BY <2>1, <2>2, <2>3, <2>4, BeginKeeps DEF Next
<1>3. QED
  BY <1>1, <1>2, TypeCorrect, PTL DEF Spec

\* While no Run is under way, a container that exists has a handle that callers hold,
\* unless the Engine's answer to its creation was lost.
THEOREM ContainerNeverLost == Spec => []NoOrphan
<1>1. Ownership => NoOrphan
  BY DEF Ownership
<1>2. QED
  BY <1>1, OwnershipHolds, PTL

-----------------------------------------------------------------------------
(* Refinement: the ownership that OwnedContainer states.                   *)

\* An answer is lost at the creation, at the end of the one Run; other calls have the
\* handle that Run left; and one goroutine at a time removes the container.
Answerable ==
  /\ \A c \in Callers : call[c].op = "none" => Idle(c)
  /\ unseen => box # "none" /\ ~RunUnderWay /\ "run" \notin known
  /\ \A c \in Callers :
       call[c].op \in {"Start", "Stop", "Terminate"} /\ call[c].h = "run" => "run" \in known
  /\ \A c \in Callers : At(c, "removing") => box = "removing"
  /\ \A c, d \in Callers : At(c, "removing") /\ At(d, "removing") => c = d

\* Going on after the creation keeps who answers for the container, but that a Run which
\* returns hands it over; and a container that is gone stays gone.
LEMMA GoesOnAnswers ==
  ASSUME TypeOK, Ownership, Answerable, NEW c \in Callers, NEW r \in Call, Step(c, r),
         r.op = call[c].op, r.h = call[c].h, r.at \notin BeforeCreation,
         call[c].at \notin BeforeCreation \cup {"idle"}, unseen' = unseen,
         \/ BoxMoves(c) /\ r.at # "removing"
         \/ box \in Alive /\ box' = "removing" /\ r.at = "removing"
  PROVE  Answerable' /\ [Owned!Next]_Owned!vars
<1>1. /\ call \in [Callers -> Call] /\ call' = [call EXCEPT ![c] = r]
      /\ known' = IF r.at = "idle" THEN known \cup {r.h} ELSE known
  BY DEF TypeOK, Step
<1>2. /\ box \in Alive \cup {"removing", "removed"}
      /\ box' = box \/ box \in Alive \/ (box = "removing" /\ r.at # "idle")
      /\ box' \in Alive \cup {"removing", "removed"}
  <2>1. box \in Alive \cup {"removing", "removed"}
    BY DEF Ownership, TypeOK, BoxStates, Alive
  <2>2. CASE BoxMoves(c)
    BY <1>1, <2>1, <2>2 DEF BoxMoves, Answerable, At, Idle, Alive
  <2>3. QED
    BY <2>1, <2>2
<1>3. \A d \in Callers : /\ call'[d].op = call[d].op /\ call'[d].h = call[d].h
                         /\ d # c => call'[d].at = call[d].at
                         /\ d = c => call'[d].at = r.at
  BY <1>1
<1>4. known \subseteq known' /\ ("run" \in known' => "run" \in known \/ (r.at = "idle" /\ r.h = "run"))
  BY <1>1
<1>5. RunUnderWay' => RunUnderWay
  <2> SUFFICES ASSUME NEW d \in Callers, call'[d].op \in {"Run", "Create"}, call'[d].at # "idle"
               PROVE  call[d].op \in {"Run", "Create"} /\ call[d].at # "idle"
    BY DEF RunUnderWay, Idle
  <2>1. QED
    BY <1>3
<1>6. Answerable'
  <2>1. (unseen => box # "none" /\ ~RunUnderWay /\ "run" \notin known)'
    <3> SUFFICES ASSUME unseen PROVE box' # "none" /\ ~RunUnderWay' /\ "run" \notin known'
      OBVIOUS
    <3>1. "run" \notin known /\ ~RunUnderWay
      BY DEF Answerable
    <3>2. call[c].op \notin {"Run", "Create"}
      BY <3>1 DEF RunUnderWay, Idle
    <3>3. "run" \notin known'
      <4>1. call[c].op \in {"none", "Start", "Stop", "Terminate"}
        BY <3>2 DEF TypeOK, Call
      <4>2. call[c].op # "none"
        BY DEF Answerable, Idle
      <4>3. QED
        BY <1>4, <3>1, <4>1, <4>2 DEF Answerable
    <3>4. QED
      BY <1>2, <1>5, <3>1, <3>3 DEF Alive
  <2>2. \A d \in Callers : call'[d].op \in {"Start", "Stop", "Terminate"} /\ call'[d].h = "run"
                            => "run" \in known'
    BY <1>3, <1>4 DEF Answerable
  <2>3. \A d \in Callers : call'[d].at = "removing" => box' = "removing"
    <3> SUFFICES ASSUME NEW d \in Callers, call'[d].at = "removing" PROVE box' = "removing"
      OBVIOUS
    <3>1. CASE d = c
      BY <1>3, <3>1
    <3>2. CASE d # c
      <4>1. call[d].at = "removing"
        BY <1>3, <3>2
      <4>2. box = "removing"
        BY <4>1 DEF Answerable, At
      <4>3. call[c].at # "removing"
        BY <3>2, <4>1 DEF Answerable, At
      <4>4. QED
        BY <4>2, <4>3 DEF BoxMoves, Alive
    <3>3. QED
      BY <3>1, <3>2
  <2>4. \A d, e \in Callers : call'[d].at = "removing" /\ call'[e].at = "removing" => d = e
    <3> SUFFICES ASSUME NEW d \in Callers, NEW e \in Callers, call'[d].at = "removing",
                        call'[e].at = "removing", d # e
                 PROVE  FALSE
      OBVIOUS
    <3>1. CASE d # c /\ e # c
      BY <1>3, <3>1 DEF Answerable, At
    <3>2. CASE d = c \/ e = c
      <4>1. PICK f \in Callers : call[f].at = "removing"
        BY <1>3, <3>2
      <4>2. r.at = "removing"
        BY <1>3, <3>2
      <4>3. QED
        BY <4>1, <4>2 DEF Answerable, At, Alive
    <3>3. QED
      BY <3>1, <3>2
  <2>5. \A d \in Callers : call'[d].op = "none" => call'[d].at = "idle"
    <3>1. call[c].op # "none"
      BY DEF Answerable, Idle
    <3>2. QED
      BY <1>3, <3>1 DEF Answerable, Idle
  <2>6. QED
    BY <2>1, <2>2, <2>3, <2>4, <2>5 DEF Answerable, At, Idle
<1>7. CASE call[c].op \in {"Run", "Create"} /\ r.at = "idle"
  <2>1. box' = box \/ (box \in Alive /\ box' \in Alive)
    BY <1>2, <1>3, <1>7 DEF BoxMoves, Idle, Alive
  <2>2. container' = container /\ container # "absent"
    BY <1>2, <2>1 DEF container, Alive
  <2>3. RunUnderWay /\ ~unseen
    BY <1>7 DEF RunUnderWay, Idle, Answerable
  <2>4. "run" \in known'
    BY <1>1, <1>7 DEF Ownership
  <2>5. holder' = "caller" /\ holder \in {"caller", "run"}
    BY <2>3, <2>4 DEF holder
  <2>6. QED
    BY <1>6, <2>2, <2>5 DEF Owned!Next, Owned!vars, Owned!HandOver
<1>8. CASE ~(call[c].op \in {"Run", "Create"} /\ r.at = "idle")
  <2>1. RunUnderWay => RunUnderWay'
    <3> SUFFICES ASSUME NEW d \in Callers, call[d].op \in {"Run", "Create"}, call[d].at # "idle"
                 PROVE  call'[d].op \in {"Run", "Create"} /\ call'[d].at # "idle"
      BY DEF RunUnderWay, Idle
    <3>1. QED
      BY <1>3, <1>8
  <2>2. "run" \in known' => "run" \in known
    <3> SUFFICES ASSUME "run" \notin known, r.at = "idle", r.h = "run" PROVE FALSE
      BY <1>4
    <3>1. call[c].op \in {"none", "Start", "Stop", "Terminate"}
      BY <1>8 DEF TypeOK, Call
    <3>2. call[c].op # "none"
      BY DEF Answerable, Idle
    <3>3. QED
      BY <3>1, <3>2 DEF Answerable
  <2>3. holder' = holder
    BY <1>4, <1>5, <2>1, <2>2 DEF holder
  <2>4. container' = container \/ (container = "present" /\ container' = "gone")
    BY <1>2 DEF container, Alive
  <2>5. QED
    BY <1>6, <2>3, <2>4 DEF Owned!Next, Owned!vars, Owned!Remove
<1>9. QED
  BY <1>7, <1>8

\* Before the creation, Run goes on with nothing to answer for, or gives up.
LEMMA GoesOnEarlyAnswers ==
  ASSUME TypeOK, Ownership, Answerable, NEW c \in Callers, GoesOnEarly(c),
         UNCHANGED <<box, unseen>>
  PROVE  Answerable' /\ [Owned!Next]_Owned!vars
<1>1. PICK r \in Call : /\ StepNoHandle(c, r) /\ r.op = call[c].op /\ r.h = call[c].h
                        /\ r.at \in BeforeCreation \cup {"idle"}
  BY DEF GoesOnEarly, Early
<1>2. /\ call'[c] = r /\ known' = known /\ \A d \in Callers \ {c} : call'[d] = call[d]
  BY <1>1 DEF TypeOK, StepNoHandle
<1>3. /\ box = "none" /\ known = {} /\ ~unseen
      /\ call[c].op \in {"Run", "Create"} /\ call[c].at # "idle" /\ r.at # "removing"
  BY <1>1 DEF GoesOnEarly, Ownership, Answerable, BeforeCreation
<1>4. Answerable'
  <2>1. \A d \in Callers : call'[d].at = "removing" => call[d].at = "removing"
    BY <1>2, <1>3
  <2>2. \A d \in Callers : call'[d].op = call[d].op /\ call'[d].h = call[d].h
    BY <1>1, <1>2
  <2>3. \A d \in Callers : call'[d].op = "none" => call'[d].at = "idle"
    BY <1>1, <1>2, <1>3 DEF Answerable, Idle
  <2>4. QED
    BY <1>2, <1>3, <2>1, <2>2, <2>3 DEF Answerable, At, Idle
<1>5. RunUnderWay
  BY <1>3 DEF RunUnderWay, Idle
<1>6. container' = container /\ container = "absent" /\ holder = "run"
  BY <1>3, <1>5 DEF container, holder
<1>7. holder' \in {"run", "nobody"}
  BY <1>2, <1>3 DEF holder
<1>8. QED
  BY <1>4, <1>6, <1>7 DEF Owned!Next, Owned!vars, Owned!GiveUp

\* The creation is Create, or Lose when its answer does not arrive.
LEMMA CreationAnswers ==
  ASSUME TypeOK, Ownership, Answerable, NEW c \in Callers, Create(c) \/ CreateUnseen(c)
  PROVE  Answerable' /\ [Owned!Next]_Owned!vars
<1>1. /\ call[c].at = "ContainerCreate" /\ box' = "created" /\ known' = known
  BY DEF Create, CreateUnseen, At, StepNoHandle
<1>2. /\ call[c].op \in {"Run", "Create"} /\ box = "none" /\ known = {} /\ ~unseen
  BY <1>1 DEF Ownership, BeforeCreation, Answerable
<1>3. /\ \A d \in Callers : call'[d].op = call[d].op /\ call'[d].h = call[d].h
      /\ \A d \in Callers \ {c} : call'[d] = call[d]
      /\ \/ call'[c].at = "NetworkConnect" /\ unseen' = unseen
         \/ call'[c].at = "idle" /\ unseen'
  <2>1. CASE Create(c)
    <3>1. call' = [call EXCEPT ![c] = [Goto(call[c], "NetworkConnect")
                     EXCEPT !.todo = [i \in 1..ExtraNetworks |-> "network"]]]
          /\ unseen' = unseen
      BY <2>1 DEF Create, StepNoHandle
    <3>2. QED
      BY <3>1 DEF Goto, TypeOK, Call
  <2>2. CASE CreateUnseen(c)
    <3>1. call' = [call EXCEPT ![c] = Return(Faulted(call[c]), {"fail"})] /\ unseen'
      BY <2>2 DEF CreateUnseen, StepNoHandle
    <3>2. QED
      BY <3>1 DEF Return, Faulted, TypeOK, Call
  <2>3. QED
    BY <2>1, <2>2
<1>4. \A d \in Callers : call'[d].at # "removing" /\ (d # c => call'[d].op \notin {"Run", "Create"})
  BY <1>2, <1>3 DEF Ownership, BeforeCreation, Answerable, At
<1>5. RunUnderWay /\ (unseen' => ~RunUnderWay') /\ (~unseen' => RunUnderWay')
  BY <1>1, <1>2, <1>3, <1>4 DEF RunUnderWay, Idle
<1>6. Answerable'
  <2>1. \A d \in Callers : call'[d].op = "none" => call'[d].at = "idle"
    BY <1>2, <1>3 DEF Answerable, Idle
  <2>2. QED
    BY <1>1, <1>2, <1>3, <1>4, <1>5, <2>1 DEF Answerable, At, Idle
<1>7. container = "absent" /\ container' = "present" /\ holder = "run"
  BY <1>1, <1>2, <1>5 DEF container, holder
<1>8. holder' \in {"run", "lost"}
  BY <1>1, <1>2, <1>5 DEF holder
<1>9. QED
  BY <1>6, <1>7, <1>8 DEF Owned!Next, Owned!vars, Owned!Create, Owned!Lose

\* A step of a call is a step of OwnedContainer, or none.
LEMMA ProgressAnswers ==
  ASSUME TypeOK, Ownership, Answerable, NEW c \in Callers, Progress(c)
  PROVE  Answerable' /\ [Owned!Next]_Owned!vars
<1>1. CASE GoesOnEarly(c) /\ UNCHANGED <<box, unseen>>
  BY <1>1, GoesOnEarlyAnswers
<1>2. CASE Create(c) \/ CreateUnseen(c)
  BY <1>2, CreationAnswers
<1>3. CASE GoesOn(c) /\ BoxMoves(c) /\ UNCHANGED unseen
  <2>1. PICK r \in Call : /\ Step(c, r) /\ r.op = call[c].op /\ r.h = call[c].h
                          /\ r.at \notin BeforeCreation \cup {"removing"}
    BY <1>3 DEF GoesOn, Late
  <2>2. QED
    BY <1>3, <2>1, GoesOnAnswers DEF GoesOn
<1>4. CASE ContainerRemove(c)
  <2>1. /\ Step(c, Goto(call[c], "removing")) /\ call[c].at = "ContainerRemove"
        /\ box \in Alive /\ box' = "removing" /\ unseen' = unseen
    BY <1>4 DEF ContainerRemove, At, Alive
  <2>2. /\ Goto(call[c], "removing") \in Call /\ Goto(call[c], "removing").op = call[c].op
        /\ Goto(call[c], "removing").h = call[c].h /\ Goto(call[c], "removing").at = "removing"
    BY NextRecords, NextFields DEF Places, EngineCalls, TypeOK
  <2>3. "removing" \notin BeforeCreation /\ "ContainerRemove" \notin BeforeCreation \cup {"idle"}
    BY DEF BeforeCreation
  <2>4. QED
    BY <2>1, <2>2, <2>3, GoesOnAnswers
<1>5. QED
  BY <1>1, <1>2, <1>3, <1>4 DEF Progress

\* A new Run is Begin; the other calls, which need a handle, change nobody's duty.
LEMMA BeginAnswers ==
  ASSUME TypeOK, Ownership, Answerable, NEW c \in Callers,
         \/ \E op \in {"Run", "Create"} : BeginRun(c, op)
         \/ \E op \in {"Start", "Stop", "Terminate"}, h \in Handles : BeginCall(c, op, h)
  PROVE  Answerable' /\ [Owned!Next]_Owned!vars
<1>1. ASSUME NEW op \in {"Run", "Create"}, BeginRun(c, op)
      PROVE  Answerable' /\ [Owned!Next]_Owned!vars
  <2>1. /\ calls = 0 /\ UNCHANGED <<known, box, unseen>>
        /\ call' = [call EXCEPT ![c] = [NoCall EXCEPT !.op = op, !.at = "prepare"]]
    BY <1>1 DEF BeginRun, StepNoHandle, engineVars
  <2>2. /\ call'[c].op = op /\ call'[c].h = "run" /\ call'[c].at = "prepare"
        /\ \A d \in Callers \ {c} : call'[d] = call[d]
    BY <2>1 DEF TypeOK, NoCall
  <2>3. box = "none" /\ known = {} /\ ~unseen /\ \A d \in Callers : call[d].op = "none"
    BY <2>1 DEF Ownership, Answerable
  <2>4. ~RunUnderWay /\ RunUnderWay'
    BY <2>2, <2>3 DEF RunUnderWay, Idle
  <2>5. Answerable'
    BY <2>1, <2>2, <2>3 DEF Answerable, At, Idle
  <2>6. /\ container = "absent" /\ container' = container
        /\ holder = "nobody" /\ holder' = "run"
    BY <2>1, <2>3, <2>4 DEF container, holder
  <2>7. QED
    BY <2>5, <2>6 DEF Owned!Next, Owned!Begin
<1>2. ASSUME NEW op \in {"Start", "Stop", "Terminate"}, NEW h \in Handles, BeginCall(c, op, h)
      PROVE  Answerable' /\ [Owned!Next]_Owned!vars
  <2>1. DEFINE r == Enter([NoCall EXCEPT !.op = op, !.h = h], FirstPhase(op))
  <2>2. r.op = op /\ r.h = h /\ r.at \in {"PreStarts", "PreStops"}
    BY DEF Enter, NoCall, FirstPhase
  <2>3. Step(c, r) /\ call[c].at = "idle" /\ h \in known /\ UNCHANGED <<box, unseen>>
    BY <1>2 DEF BeginCall, Idle, engineVars
  <2> HIDE DEF r
  <2>4. /\ call'[c] = r /\ known' = known
        /\ \A d \in Callers \ {c} : call'[d] = call[d]
    BY <2>2, <2>3 DEF TypeOK, Step
  <2>5. RunUnderWay' <=> RunUnderWay
    BY <2>2, <2>3, <2>4 DEF RunUnderWay, Idle
  <2>6. Answerable'
    BY <2>2, <2>3, <2>4, <2>5 DEF Answerable, At, Idle
  <2>7. container' = container /\ holder' = holder
    BY <2>3, <2>4, <2>5 DEF container, holder
  <2>8. QED
    BY <2>6, <2>7 DEF Owned!vars
<1>3. QED
  BY <1>1, <1>2

\* So are all steps.
LEMMA OwnedStep ==
  ASSUME TypeOK, Ownership, Answerable, [Next]_vars
  PROVE  Answerable' /\ [Owned!Next]_Owned!vars
<1>1. ASSUME NEW c \in Callers, CallStep(c) PROVE Answerable' /\ [Owned!Next]_Owned!vars
  BY <1>1, CallProgress, ProgressAnswers
<1>2. CASE FromID
  <2>1. /\ UNCHANGED <<box, call, unseen>> /\ known' = known \cup {"found"}
    BY <1>2 DEF FromID, engineVars
  <2>2. QED
    BY <2>1 DEF Answerable, RunUnderWay, Idle, At, container, holder, Owned!vars
<1>3. CASE Exit
  BY <1>3 DEF Exit, Answerable, RunUnderWay, Idle, At, container, holder, Owned!vars
<1>4. CASE UNCHANGED vars
  BY <1>4 DEF vars, Answerable, RunUnderWay, Idle, At, container, holder, Owned!vars
<1>5. QED
  BY <1>1, <1>2, <1>3, <1>4, BeginAnswers DEF Next

\* One answers for the container at a time.
LEMMA AnswerableHolds == Spec => []Answerable
<1>1. Init => Answerable
  BY DEF Init, Answerable, NoCall, RunUnderWay, Idle, At
<1>2. TypeOK /\ Ownership /\ Answerable /\ [Next]_vars => Answerable'
  BY OwnedStep
<1>3. QED
  BY <1>1, <1>2, TypeCorrect, OwnershipHolds, PTL DEF Spec

\* The container is handed over, lost or gone only as OwnedContainer allows it.
THEOREM OwnershipImplemented == Spec => OwnershipKept
<1>1. Init => Owned!Init
  BY DEF Init, NoCall, RunUnderWay, Idle, Owned!Init, container, holder
<1>2. TypeOK /\ Ownership /\ Answerable /\ [Next]_vars => [Owned!Next]_Owned!vars
  BY OwnedStep
<1>3. QED
  BY <1>1, <1>2, TypeCorrect, OwnershipHolds, AnswerableHolds, PTL
     DEF Spec, OwnershipKept, Owned!Spec

-----------------------------------------------------------------------------
(* A call is where its operation takes it, and readiness means started.    *)

StartPlaces == {"PreStarts", "ContainerStart", "PostStarts", "PostReadies"}
StopPlaces == {"PreStops", "ContainerStop", "stopped", "PostStops"}
TerminatePlaces == {"PreTerminates", "ContainerRemove", "removing", "PostTerminates",
                    "VolumeRemove"}

\* The places of a call are those of its operation.
InPlace(r) ==
  /\ r.at \in BeforeCreation \cup {"NetworkConnect", "PostCreates"} => r.op \in {"Run", "Create"}
  /\ r.at \in StartPlaces => r.op \in {"Run", "Start"}
  /\ r.at \in StopPlaces => r.op \in {"Stop", "Terminate"}
  /\ r.at \in TerminatePlaces => r.op = "Terminate"

\* The hooks of Run's handle in a phase, and those that a call has still to run.
Required(phase) == {<<phase, HooksOf("run", phase)[i]>> : i \in DOMAIN HooksOf("run", phase)}
Due(r) == {<<r.at, r.todo[i]>> : i \in DOMAIN r.todo}

Confirmed == <<"ContainerStart", "engine">>

\* A start without an error has run every hook that is not due; it asks the Engine after
\* the PreStarts hooks, and is ready after the PostStarts hooks.
StartsInOrder(r) ==
  r.h = "run" =>
    /\ r.at \in {"PreStarts", "PostStarts"} /\ r.errs = {} => Required(r.at) \subseteq r.passed \cup Due(r)
    /\ r.at \in {"ContainerStart", "PostStarts", "PostReadies"} => Required("PreStarts") \subseteq r.passed
    /\ r.at \in {"PostStarts", "PostReadies"} => Confirmed \in r.passed
    /\ r.at = "PostReadies" => Required("PostStarts") \subseteq r.passed
    /\ r.at = "idle" /\ r.op \in {"Run", "Start"} /\ r.errs = {} =>
         Required("PreStarts") \cup Required("PostStarts") \cup {Confirmed} \subseteq r.passed

Sound(r) == InPlace(r) /\ StartsInOrder(r)

\* A call that returns an error, or that is no start, is sound.
LEMMA ReturnSound ==
  ASSUME NEW r \in Call, NEW errs, errs # {} \/ r.op \notin {"Run", "Start"}
  PROVE  Sound(Return(r, errs)) /\ Sound(Return(Faulted(r), errs))
<1>1. /\ Return(r, errs).at = "idle" /\ Return(r, errs).op = r.op /\ Return(r, errs).errs = errs
      /\ Return(Faulted(r), errs).at = "idle" /\ Return(Faulted(r), errs).op = r.op
      /\ Return(Faulted(r), errs).errs = errs
  BY DEF Return, Faulted, Call
<1>2. QED
  BY <1>1 DEF Sound, InPlace, StartsInOrder, BeforeCreation, StartPlaces, StopPlaces, TerminatePlaces

\* Nor does the end of Stop say anything about a start.
LEMMA AfterStopSound ==
  ASSUME NEW r \in Call, NEW errs \in SUBSET ErrKinds, r.op \in {"Stop", "Terminate"}
  PROVE  Sound(AfterStop(r, errs))
<1>1. CASE r.op = "Terminate" /\ IsCleanupSafe(errs)
  <2>1. Forgive(r) \in Call /\ Forgive(r).op = r.op
    BY CallRecords, NextFields
  <2>2. /\ Enter(Forgive(r), "PreTerminates").op = r.op
        /\ Enter(Forgive(r), "PreTerminates").at = "PreTerminates"
    BY <2>1, NextFields DEF Phases
  <2>3. QED
    BY <1>1, <2>2 DEF AfterStop, Sound, InPlace, StartsInOrder, BeforeCreation, StartPlaces,
                      StopPlaces, TerminatePlaces
<1>2. CASE ~(r.op = "Terminate" /\ IsCleanupSafe(errs))
  <2>1. AfterStop(r, errs) = Return(r, errs)
    BY <1>2 DEF AfterStop
  <2>2. QED
    BY <2>1, ReturnSound
<1>3. QED
  BY <1>1, <1>2

\* What is due: every hook on entering a phase, then all but the first, finally none.
LEMMA DueHooks ==
  ASSUME NEW r \in Call
  PROVE  /\ \A phase \in Phases : r.h = "run" => Due(Enter(r, phase)) = Required(phase)
         /\ r.todo # <<>> => Due(r) \subseteq Due(NextTask(r)) \cup {<<r.at, Head(r.todo)>>}
         /\ r.todo = <<>> => Due(r) = {}
<1>1. ASSUME NEW phase \in Phases, r.h = "run" PROVE Due(Enter(r, phase)) = Required(phase)
  <2>1. Enter(r, phase).at = phase /\ Enter(r, phase).todo = HooksOf("run", phase)
    BY <1>1 DEF Enter, Call
  <2>2. QED
    BY <2>1 DEF Due, Required
<1>2. ASSUME r.todo # <<>>
      PROVE  Due(r) \subseteq Due(NextTask(r)) \cup {<<r.at, Head(r.todo)>>}
  <2>1. r.todo \in Seq(Tasks) /\ NextTask(r).todo = Tail(r.todo) /\ NextTask(r).at = r.at
    BY DEF NextTask, Call
  <2>2. ASSUME NEW i \in DOMAIN r.todo, i # 1
        PROVE  i - 1 \in DOMAIN Tail(r.todo) /\ Tail(r.todo)[i - 1] = r.todo[i]
    BY <1>2, <2>1, <2>2
  <2>3. Head(r.todo) = r.todo[1]
    BY <1>2, <2>1
  <2>4. ASSUME NEW i \in DOMAIN r.todo
        PROVE  <<r.at, r.todo[i]>> \in Due(NextTask(r)) \cup {<<r.at, Head(r.todo)>>}
    <3>1. CASE i = 1
      BY <2>3, <3>1
    <3>2. CASE i # 1
      <4>1. /\ i - 1 \in DOMAIN NextTask(r).todo
            /\ <<r.at, r.todo[i]>> = <<NextTask(r).at, NextTask(r).todo[i - 1]>>
        BY <2>1, <2>2, <3>2
      <4>2. QED
        BY <4>1 DEF Due
    <3>3. QED
      BY <3>1, <3>2
  <2>5. QED
    BY <2>4 DEF Due
<1>3. r.todo = <<>> => Due(r) = {}
  BY DEF Due
<1>4. QED
  BY <1>1, <1>2, <1>3

\* A hook that passes is no longer due, and one that fails leaves an error.
LEMMA HookSound ==
  ASSUME NEW r \in Call, r.todo # <<>>, Sound(r)
  PROVE  /\ r.at \notin StartPlaces => Sound(NextTask(r))
         /\ Sound(NextTask(Pass(r, Head(r.todo))))
         /\ \A e \in ErrKinds : /\ Sound(NextTask(AddErr(r, e)))
                                /\ Sound(NextTask(Faulted(AddErr(r, e))))
                                /\ Sound(LastTask(Faulted(AddErr(r, e))))
<1>1. /\ NextTask(r).at = r.at /\ NextTask(r).op = r.op /\ NextTask(r).errs = r.errs
      /\ NextTask(r).h = r.h /\ NextTask(r).passed = r.passed
  BY DEF NextTask, Call
<1>2. r.at \notin StartPlaces => Sound(NextTask(r))
  BY <1>1 DEF Sound, InPlace, StartsInOrder, StartPlaces
<1>3. Sound(NextTask(Pass(r, Head(r.todo))))
  <2>1. DEFINE p == NextTask(Pass(r, Head(r.todo)))
  <2>2. /\ p.at = r.at /\ p.op = r.op /\ p.errs = r.errs /\ p.h = r.h
        /\ p.passed = r.passed \cup {<<r.at, Head(r.todo)>>} /\ p.todo = NextTask(r).todo
    BY DEF NextTask, Pass, Call
  <2>3. Due(p) = Due(NextTask(r))
    BY <1>1, <2>2 DEF Due
  <2>4. Due(r) \subseteq Due(p) \cup p.passed
    BY <2>2, <2>3, DueHooks
  <2> HIDE DEF p
  <2>5. InPlace(p)
    BY <2>2 DEF Sound, InPlace
  <2>6. r.passed \subseteq p.passed
    BY <2>2
  <2>7. Required(r.at) \subseteq r.passed \cup Due(r)
          => Required(r.at) \subseteq p.passed \cup Due(p)
    BY <2>4, <2>6
  <2>8. StartsInOrder(p)
    BY <2>2, <2>6, <2>7 DEF Sound, StartsInOrder
  <2>9. QED
    BY <2>5, <2>8 DEF Sound, p
<1>4. ASSUME NEW e \in ErrKinds,
             NEW p \in {NextTask(AddErr(r, e)), NextTask(Faulted(AddErr(r, e))),
                        LastTask(Faulted(AddErr(r, e)))}
      PROVE  Sound(p)
  <2>1. /\ p.at = r.at /\ p.op = r.op /\ p.errs # {} /\ p.h = r.h /\ p.passed = r.passed
    <3>1. CASE p = NextTask(AddErr(r, e))
      BY <3>1 DEF NextTask, AddErr, Call
    <3>2. CASE p = NextTask(Faulted(AddErr(r, e)))
      BY <3>2 DEF NextTask, Faulted, AddErr, Call
    <3>3. CASE p = LastTask(Faulted(AddErr(r, e)))
      BY <3>3 DEF LastTask, Faulted, AddErr, Call
    <3>4. QED
      BY <1>4, <3>1, <3>2, <3>3
  <2>2. QED
    BY <2>1 DEF Sound, InPlace, StartsInOrder
<1>5. QED
  BY <1>2, <1>3, <1>4

\* Goroutine c goes on with a call that is sound.
GoesOnSound(c) == \E r \in Call : Sound(r) /\ (Step(c, r) \/ StepNoHandle(c, r))

\* The moves between the places of a call, on the ways a start takes.
LEMMA MoveSound ==
  ASSUME TypeOK, NEW c \in Callers, Sound(call[c])
  PROVE  /\ At(c, "prepare") => Sound(Enter(call[c], "PreCreates"))
         /\ At(c, "PreCreates") => Sound(Goto(call[c], "substitute"))
         /\ At(c, "substitute") => Sound(Goto(call[c], "ContainerCreate"))
         /\ At(c, "NetworkConnect") => Sound(Enter(call[c], "PostCreates"))
         /\ At(c, "PostCreates") /\ call[c].op = "Run" => Sound(Enter(call[c], "PreStarts"))
         /\ HooksDone(c, "PreStarts") /\ call[c].errs = {} => Sound(Goto(call[c], "ContainerStart"))
         /\ At(c, "ContainerStart") => Sound(Enter(Pass(call[c], "engine"), "PostStarts"))
         /\ HooksDone(c, "PostStarts") /\ call[c].errs = {} => Sound(Enter(call[c], "PostReadies"))
         /\ At(c, "PostReadies") => Sound(Return(call[c], call[c].errs))
<1> DEFINE r == call[c]
<1>1. r \in Call /\ Sound(r)
  BY DEF TypeOK
<1>2. /\ \A phase \in Phases : /\ Enter(r, phase).at = phase /\ Enter(r, phase).op = r.op
                               /\ Enter(r, phase).h = r.h /\ Enter(r, phase).errs = r.errs
                               /\ Enter(r, phase).passed = r.passed
      /\ \A place \in Places : /\ Goto(r, place).at = place /\ Goto(r, place).op = r.op
                               /\ Goto(r, place).h = r.h /\ Goto(r, place).errs = r.errs
                               /\ Goto(r, place).passed = r.passed
      /\ Return(r, r.errs).at = "idle" /\ Return(r, r.errs).op = r.op
      /\ Return(r, r.errs).h = r.h /\ Return(r, r.errs).errs = r.errs
      /\ Return(r, r.errs).passed = r.passed
  BY <1>1 DEF Enter, Goto, Return, Call
<1>3. /\ {"PreCreates", "PostCreates", "PreStarts", "PostStarts", "PostReadies"} \subseteq Phases
      /\ {"substitute", "ContainerCreate", "ContainerStart"} \subseteq Places
  BY DEF Phases, Places, EngineCalls
<1>4. r.todo = <<>> => Due(r) = {}
  BY <1>1, DueHooks
<1>5. r.h = "run" => /\ Due(Enter(r, "PreStarts")) = Required("PreStarts")
                     /\ Due(Enter(Pass(r, "engine"), "PostStarts")) = Required("PostStarts")
  <2>1. Pass(r, "engine") \in Call /\ Pass(r, "engine").h = r.h
    BY <1>1, CallRecords DEF Pass, Call
  <2>2. QED
    BY <1>1, <1>3, <2>1, DueHooks
<1>6. LET p == Enter(Pass(r, "engine"), "PostStarts") IN
      /\ p.at = "PostStarts" /\ p.op = r.op /\ p.h = r.h /\ p.errs = r.errs
      /\ p.passed = r.passed \cup {<<r.at, "engine">>}
  BY <1>1 DEF Enter, Pass, Call
<1> HIDE DEF r
<1>7. At(c, "prepare") => Sound(Enter(r, "PreCreates"))
  BY <1>1, <1>2, <1>3, <1>4, <1>5, <1>6
     DEF r, At, HooksDone, Sound, InPlace, StartsInOrder, Confirmed, BeforeCreation, StartPlaces,
         StopPlaces, TerminatePlaces
<1>8. At(c, "PreCreates") => Sound(Goto(r, "substitute"))
  BY <1>1, <1>2, <1>3, <1>4, <1>5, <1>6
     DEF r, At, HooksDone, Sound, InPlace, StartsInOrder, Confirmed, BeforeCreation, StartPlaces,
         StopPlaces, TerminatePlaces
<1>9. At(c, "substitute") => Sound(Goto(r, "ContainerCreate"))
  BY <1>1, <1>2, <1>3, <1>4, <1>5, <1>6
     DEF r, At, HooksDone, Sound, InPlace, StartsInOrder, Confirmed, BeforeCreation, StartPlaces,
         StopPlaces, TerminatePlaces
<1>10. At(c, "NetworkConnect") => Sound(Enter(r, "PostCreates"))
  BY <1>1, <1>2, <1>3, <1>4, <1>5, <1>6
     DEF r, At, HooksDone, Sound, InPlace, StartsInOrder, Confirmed, BeforeCreation, StartPlaces,
         StopPlaces, TerminatePlaces
<1>11. At(c, "PostCreates") /\ r.op = "Run" => Sound(Enter(r, "PreStarts"))
  BY <1>1, <1>2, <1>3, <1>4, <1>5, <1>6
     DEF r, At, HooksDone, Sound, InPlace, StartsInOrder, Confirmed, BeforeCreation, StartPlaces,
         StopPlaces, TerminatePlaces
<1>12. HooksDone(c, "PreStarts") /\ r.errs = {} => Sound(Goto(r, "ContainerStart"))
  BY <1>1, <1>2, <1>3, <1>4, <1>5, <1>6
     DEF r, At, HooksDone, Sound, InPlace, StartsInOrder, Confirmed, BeforeCreation, StartPlaces,
         StopPlaces, TerminatePlaces
<1>13. At(c, "ContainerStart") => Sound(Enter(Pass(r, "engine"), "PostStarts"))
  BY <1>1, <1>2, <1>3, <1>4, <1>5, <1>6
     DEF r, At, HooksDone, Sound, InPlace, StartsInOrder, Confirmed, BeforeCreation, StartPlaces,
         StopPlaces, TerminatePlaces
<1>14. HooksDone(c, "PostStarts") /\ r.errs = {} => Sound(Enter(r, "PostReadies"))
  BY <1>1, <1>2, <1>3, <1>4, <1>5, <1>6
     DEF r, At, HooksDone, Sound, InPlace, StartsInOrder, Confirmed, BeforeCreation, StartPlaces,
         StopPlaces, TerminatePlaces
<1>15. At(c, "PostReadies") => Sound(Return(r, r.errs))
  BY <1>1, <1>2, <1>3, <1>4, <1>5, <1>6
     DEF r, At, HooksDone, Sound, InPlace, StartsInOrder, Confirmed, BeforeCreation, StartPlaces,
         StopPlaces, TerminatePlaces
<1>16. QED
  BY <1>7, <1>8, <1>9, <1>10, <1>11, <1>12, <1>13, <1>14, <1>15 DEF r

\* The steps of Run around the creation.
LEMMA CreateStepSound ==
  ASSUME TypeOK, NEW c \in Callers, Sound(call[c]), CreateStep(c)
  PROVE  GoesOnSound(c)
<1>1. call[c] \in Call /\ call[c].errs \in SUBSET ErrKinds
  BY DEF TypeOK, Call
<1>2. \A e \in {"fail", "notfound", "conflict", "inprogress"} : e \in ErrKinds /\ {e} \in SUBSET ErrKinds
  BY DEF ErrKinds
<1>3. CASE Prepare(c)
  BY <1>1, <1>2, <1>3, ReturnSound, MoveSound, NextRecords DEF Prepare, GoesOnSound, At, HooksDone, Phases, Places, EngineCalls
<1>4. CASE DefinitionHookPasses(c)
  BY <1>1, <1>2, <1>4, HookSound, HookRecords DEF DefinitionHookPasses, GoesOnSound
<1>5. CASE DefinitionHookFails(c)
  BY <1>1, <1>2, <1>5, HookSound, HookRecords DEF DefinitionHookFails, GoesOnSound
<1>6. CASE CreatingHookReturns(c)
  BY <1>1, <1>2, <1>6, ReturnSound, MoveSound, NextRecords DEF CreatingHookReturns, GoesOnSound, At, HooksDone, Phases, Places, EngineCalls
<1>7. CASE Substitute(c)
  BY <1>1, <1>2, <1>7, ReturnSound, MoveSound, NextRecords DEF Substitute, GoesOnSound, At, HooksDone, Phases, Places, EngineCalls
<1>8. CASE CreateFails(c)
  BY <1>1, <1>2, <1>8, ReturnSound, NextRecords DEF CreateFails, GoesOnSound
<1>9. CASE CreateUnseen(c)
  BY <1>1, <1>2, <1>9, ReturnSound, NextRecords DEF CreateUnseen, GoesOnSound
<1>10. CASE Create(c)
  <2>1. DEFINE r == [Goto(call[c], "NetworkConnect")
                      EXCEPT !.todo = [i \in 1..ExtraNetworks |-> "network"]]
  <2>2. r.op = call[c].op /\ r.at = "NetworkConnect"
    BY <1>1 DEF Goto, Call
  <2>3. call[c].op \in {"Run", "Create"}
    BY <1>10 DEF Create, At, Sound, InPlace, BeforeCreation
  <2>4. Sound(r)
    BY <2>2, <2>3 DEF Sound, InPlace, StartsInOrder, StartPlaces, StopPlaces, TerminatePlaces
  <2>5. r \in Call
    <3>1. [i \in 1..ExtraNetworks |-> "network"] \in Seq(Tasks)
      BY ConstantsAssumption DEF Tasks
    <3>2. Goto(call[c], "NetworkConnect") \in Call
      BY <1>1, CallRecords DEF Places, EngineCalls
    <3>3. QED
      BY <3>1, <3>2 DEF Call
  <2>6. QED
    BY <1>10, <2>4, <2>5 DEF Create, GoesOnSound
<1>11. CASE NetworkConnect(c)
  <2>1. call[c].at \notin StartPlaces
    BY <1>11 DEF NetworkConnect, At, StartPlaces
  <2>2. QED
    BY <1>1, <1>2, <2>1, <1>11, ReturnSound, HookSound, HookRecords, NextRecords
       DEF NetworkConnect, GoesOnSound
<1>12. CASE NetworksDone(c)
  BY <1>1, <1>2, <1>12, ReturnSound, MoveSound, NextRecords DEF NetworksDone, GoesOnSound, At, HooksDone, Phases, Places, EngineCalls
<1>13. CASE CreatedHookReturns(c)
  <2>1. call[c].op \in {"Run", "Create"}
    BY <1>13 DEF CreatedHookReturns, HooksDone, Sound, InPlace
  <2>2. CASE call[c].errs = {} /\ call[c].op = "Run"
    BY <1>13, <2>2, MoveSound, NextRecords DEF CreatedHookReturns, GoesOnSound, At, HooksDone, Phases
  <2>3. CASE ~(call[c].errs = {} /\ call[c].op = "Run")
    BY <1>1, <1>13, <2>1, <2>3, ReturnSound, NextRecords DEF CreatedHookReturns, GoesOnSound
  <2>4. QED
    BY <2>2, <2>3
<1>14. QED
  BY <1>3, <1>4, <1>5, <1>6, <1>7, <1>8, <1>9, <1>10, <1>11, <1>12, <1>13 DEF CreateStep

\* The steps of hooks.
LEMMA HookStepSound ==
  ASSUME TypeOK, NEW c \in Callers, Sound(call[c]), HookStep(c)
  PROVE  GoesOnSound(c)
<1>1. call[c] \in Call /\ call[c].errs \in SUBSET ErrKinds
  BY DEF TypeOK, Call
<1>2. \A e \in {"fail", "notfound", "conflict", "inprogress"} : e \in ErrKinds /\ {e} \in SUBSET ErrKinds
  BY DEF ErrKinds
<1>3. CASE ContainerHookPasses(c)
  BY <1>1, <1>2, <1>3, HookSound, HookRecords DEF ContainerHookPasses, GoesOnSound
<1>4. CASE ContainerHookFails(c)
  BY <1>1, <1>2, <1>4, HookSound, HookRecords DEF ContainerHookFails, GoesOnSound
<1>5. QED
  BY <1>3, <1>4 DEF HookStep

\* The steps of Start.
LEMMA StartStepSound ==
  ASSUME TypeOK, NEW c \in Callers, Sound(call[c]), StartStep(c)
  PROVE  GoesOnSound(c)
<1>1. call[c] \in Call /\ call[c].errs \in SUBSET ErrKinds
  BY DEF TypeOK, Call
<1>2. \A e \in {"fail", "notfound", "conflict", "inprogress"} : e \in ErrKinds /\ {e} \in SUBSET ErrKinds
  BY DEF ErrKinds
<1>3. CASE StartingHookReturns(c)
  BY <1>1, <1>2, <1>3, ReturnSound, MoveSound, NextRecords DEF StartingHookReturns, GoesOnSound, At, HooksDone, Phases, Places, EngineCalls
<1>4. CASE ContainerStart(c)
  <2>1. Enter(Pass(call[c], "engine"), "PostStarts") \in Call
    <3>1. Pass(call[c], "engine") \in Call
      BY <1>1, CallRecords
    <3>2. QED
      BY <3>1, CallRecords DEF Phases
  <2>2. QED
    BY <1>1, <1>2, <2>1, <1>4, ReturnSound, MoveSound, NextRecords DEF ContainerStart, GoesOnSound
<1>5. CASE StartFails(c)
  BY <1>1, <1>2, <1>5, ReturnSound, NextRecords DEF StartFails, GoesOnSound
<1>6. CASE StartedHookReturns(c)
  BY <1>1, <1>2, <1>6, ReturnSound, MoveSound, NextRecords DEF StartedHookReturns, GoesOnSound, At, HooksDone, Phases, Places, EngineCalls
<1>7. CASE ReadiedHookReturns(c)
  BY <1>1, <1>2, <1>7, ReturnSound, MoveSound, NextRecords DEF ReadiedHookReturns, GoesOnSound, At, HooksDone, Phases, Places, EngineCalls
<1>8. QED
  BY <1>3, <1>4, <1>5, <1>6, <1>7 DEF StartStep

\* The steps of Stop.
LEMMA StopStepSound ==
  ASSUME TypeOK, NEW c \in Callers, Sound(call[c]), StopStep(c)
  PROVE  GoesOnSound(c)
<1>1. call[c] \in Call /\ call[c].errs \in SUBSET ErrKinds
  BY DEF TypeOK, Call
<1>2. \A e \in {"fail", "notfound", "conflict", "inprogress"} : e \in ErrKinds /\ {e} \in SUBSET ErrKinds
  BY DEF ErrKinds
<1>3. call[c].op \in {"Stop", "Terminate"} =>
        /\ Faulted(call[c]) \in Call /\ Faulted(call[c]).op = call[c].op
        /\ Sound(Goto(call[c], "ContainerStop")) /\ Sound(Goto(call[c], "stopped"))
        /\ Sound(Enter(call[c], "PostStops"))
  <2>1. /\ \A phase \in Phases : /\ Enter(call[c], phase).at = phase
                                 /\ Enter(call[c], phase).op = call[c].op
        /\ \A place \in Places : /\ Goto(call[c], place).at = place
                                 /\ Goto(call[c], place).op = call[c].op
    BY <1>1, NextFields
  <2>2. "PostStops" \in Phases /\ {"ContainerStop", "stopped"} \subseteq Places
    BY DEF Phases, Places, EngineCalls
  <2>3. \A place \in StopPlaces : \A r : r.op \in {"Stop", "Terminate"} /\ r.at = place => Sound(r)
    BY DEF Sound, InPlace, StartsInOrder, BeforeCreation, StartPlaces, StopPlaces, TerminatePlaces
  <2>4. Faulted(call[c]) \in Call /\ Faulted(call[c]).op = call[c].op
    BY <1>1, CallRecords, NextFields
  <2>5. QED
    BY <2>1, <2>2, <2>3, <2>4 DEF StopPlaces
<1>4. CASE StoppingHookReturns(c)
  <2>1. call[c].op \in {"Stop", "Terminate"}
    BY <1>4 DEF StoppingHookReturns, At, HooksDone, Sound, InPlace, StopPlaces
  <2>2. QED
    BY <1>1, <1>2, <1>3, <1>4, <2>1, AfterStopSound, NextRecords
       DEF StoppingHookReturns, GoesOnSound, Phases, Places, EngineCalls
<1>5. CASE ContainerStop(c)
  <2>1. call[c].op \in {"Stop", "Terminate"}
    BY <1>5 DEF ContainerStop, At, HooksDone, Sound, InPlace, StopPlaces
  <2>2. QED
    BY <1>1, <1>2, <1>3, <1>5, <2>1, AfterStopSound, NextRecords
       DEF ContainerStop, GoesOnSound, Phases, Places, EngineCalls
<1>6. CASE StopFails(c)
  <2>1. call[c].op \in {"Stop", "Terminate"}
    BY <1>6 DEF StopFails, At, HooksDone, Sound, InPlace, StopPlaces
  <2>2. QED
    BY <1>1, <1>2, <1>3, <1>6, <2>1, AfterStopSound, NextRecords
       DEF StopFails, GoesOnSound, Phases, Places, EngineCalls
<1>7. CASE MarkStopped(c)
  <2>1. call[c].op \in {"Stop", "Terminate"}
    BY <1>7 DEF MarkStopped, At, HooksDone, Sound, InPlace, StopPlaces
  <2>2. QED
    BY <1>1, <1>2, <1>3, <1>7, <2>1, AfterStopSound, NextRecords
       DEF MarkStopped, GoesOnSound, Phases, Places, EngineCalls
<1>8. CASE StoppedHookReturns(c)
  <2>1. call[c].op \in {"Stop", "Terminate"}
    BY <1>8 DEF StoppedHookReturns, At, HooksDone, Sound, InPlace, StopPlaces
  <2>2. QED
    BY <1>1, <1>2, <1>3, <1>8, <2>1, AfterStopSound, NextRecords
       DEF StoppedHookReturns, GoesOnSound, Phases, Places, EngineCalls
<1>9. QED
  BY <1>4, <1>5, <1>6, <1>7, <1>8 DEF StopStep

\* The steps of Terminate after its Stop.
LEMMA TerminateStepSound ==
  ASSUME TypeOK, NEW c \in Callers, Sound(call[c]), TerminateStep(c)
  PROVE  GoesOnSound(c)
<1>1. call[c] \in Call /\ call[c].errs \in SUBSET ErrKinds
  BY DEF TypeOK, Call
<1>2. \A e \in {"fail", "notfound", "conflict", "inprogress"} : e \in ErrKinds /\ {e} \in SUBSET ErrKinds
  BY DEF ErrKinds
<1>3. call[c].op = "Terminate" =>
        /\ \A place \in {"ContainerRemove", "removing", "VolumeRemove"} : Sound(Goto(call[c], place))
        /\ Sound(Enter(call[c], "PostTerminates"))
        /\ \A e \in ErrKinds : \A r \in {AddErr(call[c], e), Faulted(AddErr(call[c], e))} :
             Enter(r, "PostTerminates") \in Call /\ Sound(Enter(r, "PostTerminates"))
  <2>1. /\ \A place \in Places : /\ Goto(call[c], place).at = place
                                 /\ Goto(call[c], place).op = call[c].op
    BY <1>1, NextFields
  <2>2. /\ "PostTerminates" \in Phases
        /\ {"ContainerRemove", "removing", "VolumeRemove"} \subseteq Places
    BY DEF Phases, Places, EngineCalls
  <2>3. \A place \in TerminatePlaces : \A r : r.op = "Terminate" /\ r.at = place => Sound(r)
    BY DEF Sound, InPlace, StartsInOrder, BeforeCreation, StartPlaces, StopPlaces, TerminatePlaces
  <2>4. ASSUME NEW e \in ErrKinds, NEW r \in {AddErr(call[c], e), Faulted(AddErr(call[c], e))}
        PROVE  r \in Call /\ r.op = call[c].op
    <3>1. AddErr(call[c], e) \in Call /\ AddErr(call[c], e).op = call[c].op
      BY <1>1, CallRecords, NextFields, ZenonT(40)
    <3>2. Faulted(AddErr(call[c], e)) \in Call /\ Faulted(AddErr(call[c], e)).op = call[c].op
      BY <3>1, CallRecords, NextFields
    <3>3. QED
      BY <2>4, <3>1, <3>2
  <2>5. \A r \in Call : /\ Enter(r, "PostTerminates") \in Call
                       /\ Enter(r, "PostTerminates").op = r.op
                       /\ Enter(r, "PostTerminates").at = "PostTerminates"
    BY <2>2, CallRecords, NextFields
  <2>6. QED
    BY <1>1, <2>1, <2>2, <2>3, <2>4, <2>5 DEF TerminatePlaces
<1>4. CASE TerminatingHookReturns(c)
  <2>1. call[c].op = "Terminate"
    BY <1>4 DEF TerminatingHookReturns, At, HooksDone, Sound, InPlace, TerminatePlaces
  <2>2. QED
    BY <1>1, <1>2, <1>3, <1>4, <2>1, ReturnSound, NextRecords
       DEF TerminatingHookReturns, GoesOnSound, Phases, Places, EngineCalls
<1>5. CASE ContainerRemove(c)
  <2>1. call[c].op = "Terminate"
    BY <1>5 DEF ContainerRemove, At, HooksDone, Sound, InPlace, TerminatePlaces
  <2>2. QED
    BY <1>1, <1>2, <1>3, <1>5, <2>1, ReturnSound, NextRecords
       DEF ContainerRemove, GoesOnSound, Phases, Places, EngineCalls
<1>6. CASE RemoveFails(c)
  <2>1. call[c].op = "Terminate"
    BY <1>6 DEF RemoveFails, At, HooksDone, Sound, InPlace, TerminatePlaces
  <2>2. QED
    BY <1>1, <1>2, <1>3, <1>6, <2>1, ReturnSound, NextRecords
       DEF RemoveFails, GoesOnSound, Phases, Places, EngineCalls
<1>7. CASE RemovalEnds(c)
  <2>1. call[c].op = "Terminate"
    BY <1>7 DEF RemovalEnds, At, HooksDone, Sound, InPlace, TerminatePlaces
  <2>2. QED
    BY <1>1, <1>2, <1>3, <1>7, <2>1, ReturnSound, NextRecords
       DEF RemovalEnds, GoesOnSound, Phases, Places, EngineCalls
<1>8. CASE TerminatedHookReturns(c)
  <2>1. call[c].op = "Terminate"
    BY <1>8 DEF TerminatedHookReturns, At, HooksDone, Sound, InPlace, TerminatePlaces
  <2>2. QED
    BY <1>1, <1>2, <1>3, <1>8, <2>1, ReturnSound, NextRecords
       DEF TerminatedHookReturns, GoesOnSound, Phases, Places, EngineCalls
<1>9. CASE VolumeRemove(c)
  <2>1. call[c].op = "Terminate"
    BY <1>9 DEF VolumeRemove, At, HooksDone, Sound, InPlace, TerminatePlaces
  <2>2. QED
    BY <1>1, <1>2, <1>3, <1>9, <2>1, ReturnSound, NextRecords
       DEF VolumeRemove, GoesOnSound, Phases, Places, EngineCalls
<1>10. QED
  BY <1>4, <1>5, <1>6, <1>7, <1>8, <1>9 DEF TerminateStep

\* Every call is always in its place, and in order.
LEMMA CallsSound == Spec => [](\A c \in Callers : Sound(call[c]))
<1> DEFINE AllSound == \A c \in Callers : Sound(call[c])
<1>1. \A r : r.at = "idle" /\ r.op \notin {"Run", "Start"} => Sound(r)
  BY DEF Sound, InPlace, StartsInOrder, BeforeCreation, StartPlaces, StopPlaces, TerminatePlaces
<1>2. Init => AllSound
  BY <1>1 DEF Init, NoCall
<1>3. TypeOK /\ AllSound /\ [Next]_vars => AllSound'
  <2> SUFFICES ASSUME TypeOK, AllSound, [Next]_vars PROVE AllSound'
    OBVIOUS
  <2>1. ASSUME NEW c \in Callers, GoesOnSound(c) PROVE AllSound'
    BY <2>1 DEF GoesOnSound, Step, StepNoHandle, TypeOK
  <2>2. ASSUME NEW c \in Callers, CallStep(c) PROVE AllSound'
    BY <2>1, <2>2, CreateStepSound, HookStepSound, StartStepSound, StopStepSound,
       TerminateStepSound DEF CallStep
  <2>3. ASSUME NEW c \in Callers, NEW op \in {"Run", "Create"}, BeginRun(c, op) PROVE AllSound'
    <3>1. call' = [call EXCEPT ![c] = [NoCall EXCEPT !.op = op, !.at = "prepare"]]
      BY <2>3 DEF BeginRun, StepNoHandle
    <3>2. Sound([NoCall EXCEPT !.op = op, !.at = "prepare"])
      BY DEF NoCall, Sound, InPlace, StartsInOrder, BeforeCreation, StartPlaces, StopPlaces,
             TerminatePlaces
    <3>3. QED
      BY <3>1, <3>2 DEF TypeOK
  <2>4. ASSUME NEW c \in Callers, NEW op \in {"Start", "Stop", "Terminate"}, NEW h \in Handles,
               BeginCall(c, op, h)
        PROVE  AllSound'
    <3>1. DEFINE r == [NoCall EXCEPT !.op = op, !.h = h]
    <3>2. r \in Call /\ r.op = op
      <4>1. "idle" \in Places /\ <<>> \in Seq(Tasks)
        BY DEF Places
      <4>2. QED
        BY <4>1 DEF NoCall, Call, Handles
    <3>3. FirstPhase(op) \in Phases
      BY DEF FirstPhase, Phases
    <3>4. /\ Enter(r, FirstPhase(op)).at = FirstPhase(op) /\ Enter(r, FirstPhase(op)).op = op
          /\ Enter(r, FirstPhase(op)).h = r.h
          /\ r.h = "run" => Due(Enter(r, FirstPhase(op))) = Required(FirstPhase(op))
      BY <3>2, <3>3, NextFields, DueHooks
    <3>5. call' = [call EXCEPT ![c] = Enter(r, FirstPhase(op))]
      BY <2>4 DEF BeginCall, Step
    <3> HIDE DEF r
    <3>6. Sound(Enter(r, FirstPhase(op)))
      BY <3>4 DEF FirstPhase, Sound, InPlace, StartsInOrder, BeforeCreation, StartPlaces,
                  StopPlaces, TerminatePlaces
    <3>7. QED
      BY <3>5, <3>6 DEF TypeOK
  <2>5. CASE FromID \/ Exit \/ UNCHANGED vars
    BY <2>5 DEF FromID, Exit, vars
  <2>6. QED
    BY <2>2, <2>3, <2>4, <2>5 DEF Next
<1>4. QED
  BY <1>2, <1>3, TypeCorrect, PTL DEF Spec

\* The PostReadies hooks run, and Run or Start succeeds, only in a call whose start the
\* Engine confirmed and whose PreStarts and PostStarts hooks passed, the wait included.
THEOREM ReadyWasStarted == Spec => []ReadyMeansStarted
<1>1. TypeOK /\ (\A c \in Callers : Sound(call[c])) => ReadyMeansStarted
  <2> SUFFICES ASSUME NEW c \in Callers, Sound(call[c]), call[c].h = "run",
                      \/ At(c, "PostReadies")
                      \/ Idle(c) /\ call[c].op \in {"Run", "Start"} /\ call[c].errs = {}
               PROVE  StartHooks \cup {<<"ContainerStart", "engine">>} \subseteq call[c].passed
    BY DEF ReadyMeansStarted
  <2>1. Required("PreStarts") \cup Required("PostStarts") \cup {Confirmed} \subseteq call[c].passed
    BY DEF Sound, StartsInOrder, At, Idle
  <2>2. StartHooks = Required("PreStarts") \cup Required("PostStarts")
    BY DEF StartHooks, Required
  <2>3. QED
    BY <2>1, <2>2 DEF Confirmed
<1>2. QED
  BY <1>1, TypeCorrect, CallsSound, PTL

-----------------------------------------------------------------------------
(* Terminate may race with anything.                                       *)

\* A container that is gone stays gone.
LEMMA GoneStays ==
  ASSUME TypeOK, Ownership, Answerable, [Next]_vars, box = "removed"
  PROVE  box' = "removed"
<1>1. ASSUME NEW c \in Callers, CallStep(c) PROVE box' = "removed"
  <2>1. Progress(c)
    BY <1>1, CallProgress
  <2>2. ~Create(c) /\ ~CreateUnseen(c)
    BY DEF Ownership, Create, CreateUnseen, At, BeforeCreation
  <2>3. ~ContainerRemove(c) /\ (BoxMoves(c) => box' = box)
    BY DEF ContainerRemove, BoxMoves, Alive, Answerable, At
  <2>4. QED
    BY <2>1, <2>2, <2>3 DEF Progress
<1>2. QED
  BY <1>1 DEF Next, BeginRun, BeginCall, FromID, Exit, vars, engineVars

\* A Terminate in which nothing failed has met at most the absence of the container and
\* its removal by others; without an error after its removal, the container is gone.
Forgivable(r) ==
  r.op = "Terminate" /\ ~r.faulted =>
    /\ IsCleanupSafe(r.errs)
    /\ r.at \in {"PostTerminates", "VolumeRemove"} /\ r.errs = {} => box = "removed"

\* The steps of hooks: a failing hook is a fault, a missing container is not.
LEMMA HookStepForgivable ==
  ASSUME TypeOK, NEW c \in Callers, Forgivable(call[c]), HookStep(c)
  PROVE  Forgivable(call[c])'
<1>1. call[c] \in Call /\ box' = box
  BY DEF TypeOK, HookStep, ContainerHookPasses, ContainerHookFails, engineVars
<1>2. CASE ContainerHookPasses(c)
  BY <1>1, <1>2 DEF ContainerHookPasses, Step, NextTask, Pass, Call, Forgivable, TypeOK
<1>3. CASE ContainerHookFails(c)
  <2>1. CASE Step(c, NextTask(AddErr(call[c], "notfound")))
    BY <1>1, <2>1 DEF Step, NextTask, AddErr, Call, Forgivable, IsCleanupSafe, TypeOK
  <2>2. ASSUME NEW e \in {"fail", "notfound"}, Step(c, NextTask(Faulted(AddErr(call[c], e))))
        PROVE  Forgivable(call[c])'
    BY <1>1, <2>2 DEF Step, NextTask, AddErr, Faulted, Call, Forgivable, TypeOK
  <2>3. QED
    BY <1>3, <2>1, <2>2 DEF ContainerHookFails
<1>4. QED
  BY <1>2, <1>3 DEF HookStep

\* The end of Stop, inside of Terminate, is forgiven and forgotten, unless it was faulted.
LEMMA AfterStopForgivable ==
  ASSUME NEW r \in Call, NEW errs \in SUBSET ErrKinds,
         r.op = "Terminate" /\ ~r.faulted => IsCleanupSafe(errs)
  PROVE  Forgivable(AfterStop(r, errs))'
<1>1. CASE r.op = "Terminate" /\ IsCleanupSafe(errs)
  <2>1. AfterStop(r, errs) = Enter(Forgive(r), "PreTerminates")
    BY <1>1 DEF AfterStop
  <2>2. /\ Enter(Forgive(r), "PreTerminates").errs = {}
        /\ Enter(Forgive(r), "PreTerminates").at = "PreTerminates"
    BY DEF Enter, Forgive, Call
  <2>3. QED
    BY <2>1, <2>2 DEF Forgivable, IsCleanupSafe
<1>2. CASE ~(r.op = "Terminate" /\ IsCleanupSafe(errs))
  <2>1. AfterStop(r, errs) = Return(r, errs)
    BY <1>2 DEF AfterStop
  <2>2. /\ Return(r, errs).op = r.op /\ Return(r, errs).faulted = r.faulted
        /\ Return(r, errs).at = "idle"
    BY DEF Return, Call
  <2>3. QED
    BY <1>2, <2>1, <2>2 DEF Forgivable
<1>3. QED
  BY <1>1, <1>2

\* The steps of Stop, by itself or in Terminate.
LEMMA StopStepForgivable ==
  ASSUME TypeOK, NEW c \in Callers, Forgivable(call[c]), StopStep(c)
  PROVE  Forgivable(call[c])'
<1>1. /\ call[c] \in Call /\ call[c].errs \in SUBSET ErrKinds
      /\ Faulted(call[c]) \in Call /\ Faulted(call[c]).faulted
      /\ {"fail"} \in SUBSET ErrKinds /\ {"notfound"} \in SUBSET ErrKinds
  <2>1. call[c] \in Call
    BY DEF TypeOK
  <2>2. call[c].errs \in SUBSET ErrKinds /\ Faulted(call[c]).faulted
    BY <2>1 DEF Faulted, Call
  <2>3. {"fail"} \in SUBSET ErrKinds /\ {"notfound"} \in SUBSET ErrKinds
    BY DEF ErrKinds
  <2>4. QED
    BY <2>1, <2>2, <2>3, CallRecords
<1>2. \A r : Step(c, r) => call'[c] = r
  BY DEF Step, TypeOK
<1>3. ASSUME NEW r, Step(c, r), r.op = call[c].op, r.faulted = call[c].faulted,
             r.errs = call[c].errs, r.at \notin {"PostTerminates", "VolumeRemove"}
      PROVE  Forgivable(call[c])'
  BY <1>2, <1>3 DEF Forgivable
<1>4. /\ \A place \in {"ContainerStop", "stopped"} : LET r == Goto(call[c], place) IN
           /\ r.op = call[c].op /\ r.faulted = call[c].faulted /\ r.errs = call[c].errs
           /\ r.at = place
      /\ LET r == Enter(call[c], "PostStops") IN
           /\ r.op = call[c].op /\ r.faulted = call[c].faulted /\ r.errs = call[c].errs
           /\ r.at = "PostStops"
  BY <1>1 DEF Goto, Enter, Call
<1>5. ASSUME NEW errs \in SUBSET ErrKinds, NEW r \in {call[c], Faulted(call[c])},
             IsCleanupSafe(errs) \/ r.faulted \/ errs = call[c].errs, Step(c, AfterStop(r, errs))
      PROVE  Forgivable(call[c])'
  <2>1. r.op = "Terminate" /\ ~r.faulted => IsCleanupSafe(errs)
    BY <1>1, <1>5 DEF Forgivable
  <2>2. Forgivable(AfterStop(r, errs))'
    BY <1>1, <1>5, <2>1, AfterStopForgivable
  <2>3. QED
    BY <1>2, <1>5, <2>2 DEF Forgivable
<1>6. CASE StoppingHookReturns(c)
  BY <1>1, <1>3, <1>4, <1>5, <1>6 DEF StoppingHookReturns
<1>7. CASE ContainerStop(c)
  BY <1>1, <1>3, <1>4, <1>5, <1>7 DEF ContainerStop
<1>8. CASE StopFails(c)
  BY <1>1, <1>5, <1>8 DEF StopFails, IsCleanupSafe
<1>9. CASE MarkStopped(c)
  BY <1>3, <1>4, <1>9 DEF MarkStopped
<1>10. CASE StoppedHookReturns(c)
  BY <1>1, <1>5, <1>10 DEF StoppedHookReturns
<1>11. QED
  BY <1>6, <1>7, <1>8, <1>9, <1>10 DEF StopStep

\* The steps of Terminate after its Stop: the volume's conflict, which is not forgiven,
\* needs a container, which only an earlier error leaves.
LEMMA TerminateStepForgivable ==
  ASSUME TypeOK, NEW c \in Callers, Forgivable(call[c]), TerminateStep(c)
  PROVE  Forgivable(call[c])'
<1>1. call[c] \in Call
  BY DEF TypeOK
<1>2. \A r : Step(c, r) => call'[c] = r
  BY DEF Step, TypeOK
<1>3. \A e : \A place : LET r == Enter(Faulted(AddErr(call[c], e)), place) IN r.faulted
  BY <1>1 DEF Enter, Faulted, AddErr, Call
<1>4. CASE TerminatingHookReturns(c)
  BY <1>1, <1>2, <1>4 DEF TerminatingHookReturns, Goto, Call, Forgivable
<1>5. CASE ContainerRemove(c)
  BY <1>1, <1>2, <1>5 DEF ContainerRemove, Goto, Call, Forgivable
<1>6. CASE RemoveFails(c)
  <2>1. CASE Step(c, Enter(Faulted(AddErr(call[c], "fail")), "PostTerminates"))
    BY <1>2, <1>3, <2>1 DEF Forgivable
  <2>2. ASSUME NEW e \in {"inprogress", "notfound"},
               Step(c, Enter(AddErr(call[c], e), "PostTerminates"))
        PROVE  Forgivable(call[c])'
    <3>1. e \in Enter(AddErr(call[c], e), "PostTerminates").errs
      BY <1>1 DEF Enter, AddErr, Call
    <3>2. QED
      BY <1>2, <2>2, <3>1 DEF Forgivable, IsCleanupSafe
  <2>3. QED
    BY <1>6, <2>1, <2>2 DEF RemoveFails
<1>7. CASE RemovalEnds(c)
  <2>1. CASE Step(c, Enter(Faulted(AddErr(call[c], "fail")), "PostTerminates"))
    BY <1>2, <1>3, <2>1 DEF Forgivable
  <2>2. CASE box' = "removed" /\ Step(c, Enter(call[c], "PostTerminates"))
    <3>1. LET r == Enter(call[c], "PostTerminates") IN
          r.op = call[c].op /\ r.faulted = call[c].faulted /\ r.errs = call[c].errs
      BY <1>1 DEF Enter, Call
    <3>2. QED
      BY <1>2, <2>2, <3>1 DEF Forgivable
  <2>3. QED
    BY <1>7, <2>1, <2>2 DEF RemovalEnds
<1>8. CASE TerminatedHookReturns(c)
  BY <1>1, <1>2, <1>8 DEF TerminatedHookReturns, HooksDone, Goto, Call, Forgivable, engineVars
<1>9. CASE VolumeRemove(c)
  <2>1. CASE box = "removed" /\ Step(c, Return(call[c], call[c].errs))
    BY <1>1, <1>2, <2>1 DEF Return, Call, Forgivable
  <2>2. CASE box # "removed" /\ Step(c, Return(call[c], call[c].errs \cup {"conflict"}))
    <3>1. call[c].op = "Terminate" /\ ~call[c].faulted
            => IsCleanupSafe(call[c].errs \cup {"conflict"})
      BY <1>9, <2>2 DEF VolumeRemove, At, Forgivable, IsCleanupSafe
    <3>2. LET r == Return(call[c], call[c].errs \cup {"conflict"}) IN
          /\ r.op = call[c].op /\ r.faulted = call[c].faulted
          /\ r.errs = call[c].errs \cup {"conflict"} /\ r.at = "idle"
      BY <1>1 DEF Return, Call
    <3>3. QED
      BY <1>2, <2>2, <3>1, <3>2 DEF Forgivable
  <2>3. CASE Step(c, Return(Faulted(call[c]), call[c].errs \cup {"fail"}))
    BY <1>1, <1>2, <2>3 DEF Return, Faulted, Call, Forgivable
  <2>4. QED
    BY <1>9, <2>1, <2>2, <2>3 DEF VolumeRemove
<1>10. QED
  BY <1>4, <1>5, <1>6, <1>7, <1>8, <1>9 DEF TerminateStep

\* The calls that create or start are not in the places of the others.
LEMMA EarlyPlaces ==
  ASSUME NEW c \in Callers, CreateStep(c) \/ StartStep(c)
  PROVE  call[c].at \in BeforeCreation \cup {"NetworkConnect", "PostCreates"} \cup StartPlaces
<1>1. CASE CreateStep(c)
  BY <1>1 DEF CreateStep, Prepare, DefinitionHookPasses, DefinitionHookFails, CreatingHookReturns,
     Substitute, CreateFails, CreateUnseen, Create, NetworkConnect, NetworksDone,
     CreatedHookReturns, At, HooksDone, BeforeCreation
<1>2. CASE StartStep(c)
  BY <1>2 DEF StartStep, StartingHookReturns, ContainerStart, StartFails, StartedHookReturns,
     ReadiedHookReturns, At, HooksDone, StartPlaces
<1>3. QED
  BY <1>1, <1>2

\* A Terminate without a failing hook or Engine call reports no error, whatever it races
\* with: another Terminate, an exit, a removal.
THEOREM TerminatesRaceSafely == Spec => []TerminateRacesSafely
<1> DEFINE AllForgivable == \A c \in Callers : Forgivable(call[c])
<1>1. Init => AllForgivable
  BY DEF Init, NoCall, Forgivable
<1>2. TypeOK /\ Ownership /\ Answerable /\ (\A c \in Callers : Sound(call[c])) /\ AllForgivable
        /\ [Next]_vars => AllForgivable'
  <2> SUFFICES ASSUME TypeOK, Ownership, Answerable, \A c \in Callers : Sound(call[c]),
                      AllForgivable, [Next]_vars
               PROVE  AllForgivable'
    OBVIOUS
  <2>1. ASSUME NEW d \in Callers, call'[d] = call[d] PROVE Forgivable(call[d])'
    BY <2>1, GoneStays DEF Forgivable
  <2>2. ASSUME NEW c \in Callers, CallStep(c) PROVE AllForgivable'
    <3>1. \A d \in Callers \ {c} : call'[d] = call[d]
      BY <2>2, CallProgress, OthersStay
    <3>2. Forgivable(call[c])'
      <4>1. Progress(c)
        BY <2>2, CallProgress
      <4>2. CASE CreateStep(c) \/ StartStep(c)
        <5>1. call[c].op # "Terminate"
          BY <4>2, EarlyPlaces DEF Sound, InPlace
        <5>2. QED
          BY <4>1, <5>1, SameCall DEF Forgivable
      <4>3. QED
        BY <2>2, <4>2, HookStepForgivable, StopStepForgivable, TerminateStepForgivable
           DEF CallStep
    <3>3. QED
      BY <2>1, <3>1, <3>2
  <2>3. ASSUME NEW c \in Callers, NEW op \in {"Run", "Create"}, BeginRun(c, op)
        PROVE  AllForgivable'
    <3>1. /\ call'[c].op = op /\ \A d \in Callers \ {c} : call'[d] = call[d]
      BY <2>3 DEF BeginRun, StepNoHandle, NoCall, TypeOK
    <3>2. QED
      BY <2>1, <3>1 DEF Forgivable
  <2>4. ASSUME NEW c \in Callers, NEW op \in {"Start", "Stop", "Terminate"}, NEW h \in Handles,
               BeginCall(c, op, h)
        PROVE  AllForgivable'
    <3>1. /\ call'[c].errs = {} /\ call'[c].at \in {"PreStarts", "PreStops"}
          /\ \A d \in Callers \ {c} : call'[d] = call[d]
      BY <2>4 DEF BeginCall, Step, Enter, FirstPhase, NoCall, TypeOK
    <3>2. QED
      BY <2>1, <3>1 DEF Forgivable, IsCleanupSafe
  <2>5. CASE FromID \/ Exit \/ UNCHANGED vars
    BY <2>1, <2>5 DEF FromID, Exit, vars
  <2>6. QED
    BY <2>2, <2>3, <2>4, <2>5 DEF Next
<1>3. AllForgivable => TerminateRacesSafely
  BY DEF Forgivable, TerminateRacesSafely
<1>4. QED
  BY <1>1, <1>2, <1>3, TypeCorrect, OwnershipHolds, AnswerableHolds, CallsSound, PTL DEF Spec

-----------------------------------------------------------------------------
(* The image that the container is created from.                           *)

\* Before the creation, either the pull is still to come, last of the hooks, or the image
\* that the hooks chose is there.
Pulled(r) ==
  /\ r.at = "PreCreates" /\ r.errs = {} =>
       IF r.todo = <<>> THEN image \in images ELSE r.todo[Len(r.todo)] = "pull"
  /\ r.at = "substitute" => image \in images
  /\ r.at = "ContainerCreate" /\ image # "substituted" => image \in images

\* The pull is the last hook of the creation.
LEMMA PullIsLast ==
  /\ HooksOf("run", "PreCreates") # <<>>
  /\ HooksOf("run", "PreCreates")[Len(HooksOf("run", "PreCreates"))] = "pull"
<1>1. \A s \in Seq(Tasks) : /\ s \o <<"pull">> # <<>>
                            /\ (s \o <<"pull">>)[Len(s \o <<"pull">>)] = "pull"
  OBVIOUS
<1>2. <<"preCreate">> \in Seq(Tasks) /\ User("PreCreates") \in Seq(Tasks)
  <2>1. <<>> \in Seq(Tasks) /\ \A task \in Tasks : <<task>> \in Seq(Tasks)
    OBVIOUS
  <2>2. "preCreate" \in Tasks /\ "user" \in Tasks
    BY DEF Tasks, Hooks
  <2>3. QED
    BY <2>1, <2>2 DEF User
<1>3. <<"preCreate">> \o User("PreCreates") \in Seq(Tasks)
  BY <1>2
<1>4. HooksOf("run", "PreCreates") = (<<"preCreate">> \o User("PreCreates")) \o <<"pull">>
  BY DEF HooksOf, CombinedHooks, DefaultHooks, PrePhases
<1>5. QED
  BY <1>1, <1>3, <1>4

\* The image and the Engine's images change only by the hooks of the creation and by the
\* substitutors.
LEMMA ImagesStay ==
  ASSUME NEW c \in Callers, CallStep(c), ~DefinitionHookPasses(c), ~Substitute(c)
  PROVE  image' = image /\ images' = images
<1>1. CASE CreateStep(c)
  BY <1>1 DEF CreateStep, Prepare, DefinitionHookFails, CreatingHookReturns, CreateFails,
     CreateUnseen, Create, NetworkConnect, NetworksDone, CreatedHookReturns, engineVars
<1>2. CASE HookStep(c)
  BY <1>2 DEF HookStep, ContainerHookPasses, ContainerHookFails, engineVars
<1>3. CASE StartStep(c)
  BY <1>3 DEF StartStep, StartingHookReturns, ContainerStart, StartFails, StartedHookReturns,
     ReadiedHookReturns, engineVars
<1>4. CASE StopStep(c)
  BY <1>4 DEF StopStep, StoppingHookReturns, ContainerStop, StopFails, MarkStopped,
     StoppedHookReturns, engineVars
<1>5. CASE TerminateStep(c)
  BY <1>5 DEF TerminateStep, TerminatingHookReturns, ContainerRemove, RemoveFails, RemovalEnds,
     TerminatedHookReturns, VolumeRemove, engineVars
<1>6. QED
  BY <1>1, <1>2, <1>3, <1>4, <1>5 DEF CallStep

\* The steps of Run up to the creation.
LEMMA CreateStepPulled ==
  ASSUME TypeOK, Ownership, NEW c \in Callers, Pulled(call[c]), CreateStep(c),
         call'[c].at \in BeforeCreation
  PROVE  Pulled(call[c])'
<1>1. call[c] \in Call /\ \A r : (StepNoHandle(c, r) \/ Step(c, r)) => call'[c] = r
  BY DEF TypeOK, StepNoHandle, Step
<1>2. \A r \in Call : \A errs : Return(r, errs).at \notin BeforeCreation
  BY NextFields DEF BeforeCreation
<1>3. Faulted(call[c]) \in Call
  BY <1>1, CallRecords
<1>4. CASE Prepare(c)
  <2>1. call[c].h = "run"
    BY <1>4 DEF Prepare, At, Ownership, BeforeCreation
  <2>2. call'[c] = Enter(call[c], "PreCreates")
    BY <1>1, <1>2, <1>3, <1>4 DEF Prepare
  <2>3. call'[c].at = "PreCreates" /\ call'[c].todo = HooksOf("run", "PreCreates")
    BY <1>1, <2>1, <2>2 DEF Enter, Call
  <2>4. QED
    BY <2>3, PullIsLast DEF Pulled
<1>5. CASE DefinitionHookPasses(c)
  <2>1. DEFINE hook == Head(call[c].todo)
               rest == Tail(call[c].todo)
  <2>2. /\ call'[c].at = "PreCreates" /\ call'[c].todo = rest /\ call'[c].errs = call[c].errs
        /\ call[c].at = "PreCreates" /\ call[c].todo # <<>>
        /\ hook = "pull" => image' = image /\ images' = images \cup {image}
    BY <1>1, <1>5 DEF DefinitionHookPasses, At, NextTask, Pass, Call
  <2>3. call[c].todo \in Seq(Tasks)
    BY <1>1 DEF Call
  <2>4. CASE rest = <<>>
    <3>1. Len(call[c].todo) = 1 /\ hook = call[c].todo[1]
      <4>1. \A s \in Seq(Tasks) : s # <<>> => Head(s) = s[1] /\ Len(Tail(s)) = Len(s) - 1
        OBVIOUS
      <4>2. Len(rest) = 0
        <5>1. Len(<<>>) = 0
          OBVIOUS
        <5>2. QED
          BY <2>4, <5>1, Zenon
      <4>3. hook = call[c].todo[1] /\ Len(rest) = Len(call[c].todo) - 1
        BY <2>2, <2>3, <4>1
      <4>4. Len(call[c].todo) \in Nat
        BY <2>3
      <4>5. QED
        BY <4>2, <4>3, <4>4
    <3>2. QED
      BY <2>2, <2>4, <3>1 DEF Pulled
  <2>5. CASE rest # <<>>
    <3>1. rest[Len(rest)] = call[c].todo[Len(call[c].todo)]
      BY <2>2, <2>3, <2>5
    <3>2. QED
      BY <2>2, <2>5, <3>1 DEF Pulled
  <2>6. QED
    BY <2>4, <2>5
<1>6. CASE DefinitionHookFails(c)
  <2>1. PICK e \in {"fail", "notfound"} : call'[c] = LastTask(Faulted(AddErr(call[c], e)))
    BY <1>1, <1>6 DEF DefinitionHookFails
  <2>2. call'[c].errs # {} /\ call'[c].at = "PreCreates"
    BY <1>1, <1>6, <2>1 DEF DefinitionHookFails, At, LastTask, Faulted, AddErr, Call
  <2>3. QED
    BY <2>2 DEF Pulled
<1>7. CASE CreatingHookReturns(c)
  <2>1. call[c].errs = {} /\ call'[c] = Goto(call[c], "substitute")
    BY <1>1, <1>2, <1>7 DEF CreatingHookReturns
  <2>2. call'[c].at = "substitute"
    BY <1>1, <2>1 DEF Goto, Call
  <2>3. image \in images /\ image' = image /\ images' = images
    BY <1>7, <2>1 DEF CreatingHookReturns, HooksDone, Pulled, engineVars
  <2>4. QED
    BY <2>2, <2>3 DEF Pulled
<1>8. CASE Substitute(c)
  <2>1. call'[c] = Goto(call[c], "ContainerCreate") /\ image' \in {image, "substituted"}
    BY <1>1, <1>2, <1>3, <1>8 DEF Substitute
  <2>2. call'[c].at = "ContainerCreate"
    BY <1>1, <2>1 DEF Goto, Call
  <2>3. image \in images /\ images' = images
    BY <1>8 DEF Substitute, At, Pulled, engineVars
  <2>4. QED
    BY <2>1, <2>2, <2>3 DEF Pulled
<1>9. CASE CreateFails(c) \/ CreateUnseen(c)
  BY <1>1, <1>2, <1>3, <1>9 DEF CreateFails, CreateUnseen
<1>10. CASE Create(c)
  <2>1. call'[c].at = "NetworkConnect"
    BY <1>1, <1>10 DEF Create, Goto, Call
  <2>2. QED
    BY <2>1 DEF BeforeCreation
<1>11. CASE NetworkConnect(c) \/ NetworksDone(c) \/ CreatedHookReturns(c)
  <2>1. call[c].at \notin BeforeCreation
    BY <1>11 DEF NetworkConnect, NetworksDone, CreatedHookReturns, At, HooksDone, BeforeCreation
  <2>2. GoesOn(c)
    BY <1>11, <2>1, CreateStepProgress
       DEF Progress, GoesOnEarly, Create, CreateUnseen, ContainerRemove, At, BeforeCreation,
           NetworkConnect, NetworksDone, CreatedHookReturns, HooksDone
  <2>3. QED
    BY <1>1, <2>2 DEF GoesOn, Late
<1>12. QED
  BY <1>4, <1>5, <1>6, <1>7, <1>8, <1>9, <1>10, <1>11 DEF CreateStep

\* The other steps are those of calls after the creation.
LEMMA LaterStepLater ==
  ASSUME TypeOK, NEW c \in Callers, CallStep(c), ~CreateStep(c)
  PROVE  call'[c].at \notin BeforeCreation
<1>1. call[c].at \notin BeforeCreation
  <2>1. CASE HookStep(c)
    BY <2>1 DEF HookStep, ContainerHookPasses, ContainerHookFails, Phases, BeforeCreation
  <2>2. CASE StartStep(c)
    BY <2>2 DEF StartStep, StartingHookReturns, ContainerStart, StartFails, StartedHookReturns,
       ReadiedHookReturns, At, HooksDone, BeforeCreation
  <2>3. CASE StopStep(c)
    BY <2>3 DEF StopStep, StoppingHookReturns, ContainerStop, StopFails, MarkStopped,
       StoppedHookReturns, At, HooksDone, BeforeCreation
  <2>4. CASE TerminateStep(c)
    BY <2>4 DEF TerminateStep, TerminatingHookReturns, ContainerRemove, RemoveFails, RemovalEnds,
       TerminatedHookReturns, VolumeRemove, At, HooksDone, BeforeCreation
  <2>5. QED
    BY <2>1, <2>2, <2>3, <2>4 DEF CallStep
<1>2. CASE GoesOn(c)
  BY <1>2 DEF GoesOn, Late, Step, TypeOK
<1>3. CASE ContainerRemove(c)
  BY <1>3 DEF ContainerRemove, Step, Goto, TypeOK, Call, BeforeCreation
<1>4. QED
  BY <1>1, <1>2, <1>3, CallProgress
     DEF Progress, GoesOnEarly, Create, CreateUnseen, At, BeforeCreation

\* The Engine is asked to create a container from an image that it has, whichever hook
\* chose it, but for an image that was substituted after the pull.
THEOREM CreatesFromPulled == Spec => []CreatesWhatItPulled
<1> DEFINE AllPulled == \A c \in Callers : Pulled(call[c])
<1>1. Init => AllPulled
  BY DEF Init, NoCall, Pulled
<1>2. TypeOK /\ Ownership /\ AllPulled /\ [Next]_vars => AllPulled'
  <2> SUFFICES ASSUME TypeOK, Ownership, AllPulled, [Next]_vars PROVE AllPulled'
    OBVIOUS
  <2>1. ASSUME NEW d \in Callers, call'[d].at \notin BeforeCreation PROVE Pulled(call[d])'
    BY <2>1 DEF Pulled, BeforeCreation
  <2>2. ASSUME NEW d \in Callers, call'[d] = call[d], image' = image, images' = images
        PROVE  Pulled(call[d])'
    BY <2>2 DEF Pulled
  <2>3. ASSUME NEW c \in Callers, CallStep(c) PROVE AllPulled'
    <3> SUFFICES ASSUME NEW d \in Callers PROVE Pulled(call[d])'
      OBVIOUS
    <3>1. CASE d = c
      BY <2>1, <2>3, <3>1, CreateStepPulled, LaterStepLater
    <3>2. CASE d # c
      <4>1. call'[d] = call[d]
        BY <2>3, <3>2, CallProgress, OthersStay
      <4>2. CASE DefinitionHookPasses(c) \/ Substitute(c)
        <5>1. call[c].at \in BeforeCreation
          BY <4>2 DEF DefinitionHookPasses, Substitute, At, BeforeCreation
        <5>2. call[d].at \notin BeforeCreation
          BY <3>2, <5>1 DEF Ownership
        <5>3. QED
          BY <2>1, <4>1, <5>2
      <4>3. QED
        BY <2>2, <2>3, <4>1, <4>2, ImagesStay
    <3>3. QED
      BY <3>1, <3>2
  <2>4. ASSUME NEW c \in Callers, NEW op \in {"Run", "Create"}, BeginRun(c, op)
        PROVE  AllPulled'
    <3>1. /\ call'[c].at = "prepare" /\ \A d \in Callers \ {c} : call'[d] = call[d]
          /\ image' = image /\ images' = images
      BY <2>4 DEF BeginRun, StepNoHandle, NoCall, TypeOK, engineVars
    <3>2. Pulled(call[c])'
      BY <3>1 DEF Pulled
    <3>3. QED
      BY <2>2, <3>1, <3>2
  <2>5. ASSUME NEW c \in Callers, NEW op \in {"Start", "Stop", "Terminate"}, NEW h \in Handles,
               BeginCall(c, op, h)
        PROVE  AllPulled'
    <3>1. /\ call'[c].at \in {"PreStarts", "PreStops"}
          /\ \A d \in Callers \ {c} : call'[d] = call[d]
          /\ image' = image /\ images' = images
      BY <2>5 DEF BeginCall, Step, Enter, FirstPhase, NoCall, TypeOK, engineVars
    <3>2. Pulled(call[c])'
      BY <3>1 DEF Pulled
    <3>3. QED
      BY <2>2, <3>1, <3>2
  <2>6. CASE FromID \/ Exit \/ UNCHANGED vars
    BY <2>2, <2>6 DEF FromID, Exit, vars, engineVars
  <2>7. QED
    BY <2>3, <2>4, <2>5, <2>6 DEF Next
<1>3. AllPulled => CreatesWhatItPulled
  BY DEF Pulled, CreatesWhatItPulled, At
<1>4. QED
  BY <1>1, <1>2, <1>3, TypeCorrect, OwnershipHolds, PTL DEF Spec

-----------------------------------------------------------------------------
(* What IsRunning says of a running container, to users one at a time.     *)

\* The wait for readiness is a hook of PostStarts only.
Waits(r) == \E i \in DOMAIN r.todo : r.todo[i] = "wait"
WaitInPlace(r) == Waits(r) => r.at = "PostStarts"

\* Nothing but the phase PostStarts brings a wait.
LEMMA WaitPhase ==
  ASSUME NEW h \in Handles, NEW phase \in Phases, NEW i \in DOMAIN HooksOf(h, phase),
         HooksOf(h, phase)[i] = "wait"
  PROVE  phase = "PostStarts"
<1>1. \A s, t \in Seq(Tasks) : \A j \in DOMAIN (s \o t) :
        (\E k \in DOMAIN s : (s \o t)[j] = s[k]) \/ (\E k \in DOMAIN t : (s \o t)[j] = t[k])
  <2> SUFFICES ASSUME NEW s \in Seq(Tasks), NEW t \in Seq(Tasks), NEW j \in DOMAIN (s \o t)
               PROVE  (\E k \in DOMAIN s : (s \o t)[j] = s[k])
                      \/ (\E k \in DOMAIN t : (s \o t)[j] = t[k])
    OBVIOUS
  <2>1. CASE j <= Len(s)
    <3>1. j \in DOMAIN s /\ (s \o t)[j] = s[j]
      BY <2>1
    <3>2. QED
      BY <3>1
  <2>2. CASE ~(j <= Len(s))
    <3>1. j - Len(s) \in DOMAIN t /\ (s \o t)[j] = t[j - Len(s)]
      BY <2>2
    <3>2. QED
      BY <3>1
  <2>3. QED
    BY <2>1, <2>2
<1>2. <<>> \in Seq(Tasks) /\ \A task \in Tasks : <<task>> \in Seq(Tasks)
  OBVIOUS
<1>3. {"preCreate", "copy", "wait", "user", "pull"} \subseteq Tasks
  BY DEF Tasks, Hooks
<1>4. /\ DefaultHooks(phase) \in Seq(Tasks) /\ User(phase) \in Seq(Tasks)
      /\ <<"pull">> \in Seq(Tasks)
  BY <1>2, <1>3 DEF DefaultHooks, User
<1>5. /\ \A k \in DOMAIN User(phase) : User(phase)[k] # "wait"
      /\ \A k \in DOMAIN <<"pull">> : <<"pull">>[k] # "wait"
      /\ \A k \in DOMAIN <<>> : <<>>[k] # "wait"
  BY DEF User
<1>6. phase # "PostStarts" => \A k \in DOMAIN DefaultHooks(phase) : DefaultHooks(phase)[k] # "wait"
  BY DEF DefaultHooks
<1>7. \A s, t \in Seq(Tasks) :
        (\A k \in DOMAIN s : s[k] # "wait") /\ (\A k \in DOMAIN t : t[k] # "wait")
          => s \o t \in Seq(Tasks) /\ \A k \in DOMAIN (s \o t) : (s \o t)[k] # "wait"
  BY <1>1
<1>8. phase # "PostStarts" =>
        \A k \in DOMAIN CombinedHooks(phase) : CombinedHooks(phase)[k] # "wait"
  BY <1>2, <1>4, <1>5, <1>6, <1>7 DEF CombinedHooks
<1>9. QED
  BY <1>5, <1>8 DEF HooksOf

\* What the functions on call records do to the wait.
LEMMA WaitRecords ==
  ASSUME NEW r \in Call, WaitInPlace(r)
  PROVE  /\ \A phase \in Phases : WaitInPlace(Enter(r, phase))
         /\ \A errs : WaitInPlace(Return(r, errs))
         /\ \A place : r.at # "PostStarts" => WaitInPlace(Goto(r, place))
         /\ \A e : WaitInPlace(AddErr(r, e))
         /\ \A task : WaitInPlace(Pass(r, task))
         /\ WaitInPlace(Faulted(r)) /\ WaitInPlace(Forgive(r)) /\ WaitInPlace(LastTask(r))
         /\ r.todo # <<>> => WaitInPlace(NextTask(r)) /\ (Head(r.todo) = "wait" => r.at = "PostStarts")
<1>1. ASSUME NEW phase \in Phases PROVE WaitInPlace(Enter(r, phase))
  <2>1. Enter(r, phase).at = phase /\ Enter(r, phase).todo = HooksOf(r.h, phase)
    BY DEF Enter, Call
  <2>2. QED
    BY <2>1, WaitPhase DEF WaitInPlace, Waits, Call
<1>2. \A errs : WaitInPlace(Return(r, errs))
  BY DEF Return, WaitInPlace, Waits, Call
<1>3. \A place : r.at # "PostStarts" => WaitInPlace(Goto(r, place))
  BY DEF Goto, WaitInPlace, Waits, Call
<1>4. \A e : WaitInPlace(AddErr(r, e))
  BY DEF AddErr, WaitInPlace, Waits, Call
<1>5. \A task : WaitInPlace(Pass(r, task))
  BY DEF Pass, WaitInPlace, Waits, Call
<1>6. WaitInPlace(Faulted(r)) /\ WaitInPlace(Forgive(r)) /\ WaitInPlace(LastTask(r))
  BY DEF Faulted, Forgive, LastTask, WaitInPlace, Waits, Call
<1>7. ASSUME r.todo # <<>>
      PROVE  WaitInPlace(NextTask(r)) /\ (Head(r.todo) = "wait" => r.at = "PostStarts")
  <2>1. r.todo \in Seq(Tasks) /\ NextTask(r).todo = Tail(r.todo) /\ NextTask(r).at = r.at
    BY DEF NextTask, Call
  <2>2. Head(r.todo) = r.todo[1] /\ 1 \in DOMAIN r.todo
    BY <1>7, <2>1
  <2>3. ASSUME NEW i \in DOMAIN Tail(r.todo)
        PROVE  i + 1 \in DOMAIN r.todo /\ Tail(r.todo)[i] = r.todo[i + 1]
    BY <1>7, <2>1
  <2>4. QED
    BY <2>1, <2>2, <2>3 DEF WaitInPlace, Waits
<1>8. QED
  BY <1>1, <1>2, <1>3, <1>4, <1>5, <1>6, <1>7

\* Places of a call that has just started the container, and of one that has just made it
\* leave its running state and has still to tell its handle.
Started == {"PostStarts", "PostReadies"}
Excused == {"stopped", "removing", "PostTerminates"}

\* What a step of a call does to the container's running state, to the handle's flag and
\* to whether the container may have stopped behind the handle's back.
Quiet(c) ==
  /\ UNCHANGED <<isRunning, behind>>
  /\ box' = box \/ (box # "running" /\ box' # "running")
  /\ call'[c].at \in Started => call[c].at \in Started
  /\ call[c].at \in Excused => call'[c].at \in Excused
FlagUp(c) ==
  /\ call[c].at \in Started /\ UNCHANGED <<box, behind>>
  /\ isRunning' = [isRunning EXCEPT ![call[c].h] = TRUE]
FlagDown(c) ==
  /\ call'[c].at \notin Started /\ UNCHANGED <<box, behind>>
  /\ isRunning' = [isRunning EXCEPT ![call[c].h] = FALSE]
BoxUp(c) ==
  /\ box' = "running" /\ UNCHANGED isRunning
  /\ \/ behind' = behind
     \/ behind' = [behind EXCEPT ![call[c].h] = @ /\ Overlapping(c, call[c].h)]
BoxDown(c) ==
  /\ UNCHANGED isRunning /\ call'[c].at \notin Started
  /\ \A h \in Handles :
       behind'[h] \/ (h = call[c].h /\ ~behind[h] /\ call'[c].at \in Excused)
FlagMoves(c) == Quiet(c) \/ FlagUp(c) \/ FlagDown(c) \/ BoxUp(c) \/ BoxDown(c)


\* The steps of hooks keep the phase, and their wait.
LEMMA WaitHook ==
  ASSUME NEW r \in Call, WaitInPlace(r), r.todo # <<>>
  PROVE  /\ \A p \in {NextTask(r), NextTask(Pass(r, Head(r.todo)))} : p.at = r.at /\ WaitInPlace(p)
         /\ \A e \in ErrKinds :
              \A p \in {NextTask(AddErr(r, e)), NextTask(Faulted(AddErr(r, e))),
                        LastTask(Faulted(AddErr(r, e)))} : p.at = r.at /\ WaitInPlace(p)
<1>1. NextTask(r).at = r.at /\ WaitInPlace(NextTask(r))
  BY WaitRecords, NextFields
<1>2. ASSUME NEW p, p.todo = r.todo, p.at = r.at, DOMAIN p = DOMAIN r,
             p = [r EXCEPT !.errs = p.errs, !.passed = p.passed, !.faulted = p.faulted]
      PROVE  /\ NextTask(p).at = r.at /\ WaitInPlace(NextTask(p))
             /\ LastTask(p).at = r.at /\ WaitInPlace(LastTask(p))
  <2>1. /\ NextTask(p).todo = NextTask(r).todo /\ NextTask(p).at = r.at
        /\ LastTask(p).todo = <<>> /\ LastTask(p).at = r.at
    BY <1>2 DEF NextTask, LastTask, Call
  <2>2. QED
    BY <1>1, <2>1 DEF WaitInPlace, Waits
<1>3. ASSUME NEW t PROVE LET p == Pass(r, t) IN NextTask(p).at = r.at /\ WaitInPlace(NextTask(p))
  BY <1>2 DEF Pass, Call
<1>4. ASSUME NEW e \in ErrKinds
      PROVE  /\ LET p == AddErr(r, e) IN NextTask(p).at = r.at /\ WaitInPlace(NextTask(p))
             /\ LET p == Faulted(AddErr(r, e)) IN
                /\ NextTask(p).at = r.at /\ WaitInPlace(NextTask(p))
                /\ LastTask(p).at = r.at /\ WaitInPlace(LastTask(p))
  BY <1>2 DEF AddErr, Faulted, Call
<1>5. QED
  BY <1>1, <1>3, <1>4

\* The steps of Run around the creation.
LEMMA CreateStepFlag ==
  ASSUME TypeOK, NEW c \in Callers, WaitInPlace(call[c]), CreateStep(c), call[c].at \in BeforeCreation => box = "none"
  PROVE  FlagMoves(c) /\ WaitInPlace(call'[c])
<1>1. /\ call[c] \in Call /\ Faulted(call[c]) \in Call /\ WaitInPlace(Faulted(call[c]))
      /\ call[c].errs \in SUBSET ErrKinds
      /\ \A r : (Step(c, r) \/ StepNoHandle(c, r)) => call'[c] = r
      /\ \A e \in {"fail", "notfound", "inprogress"} : e \in ErrKinds /\ {e} \in SUBSET ErrKinds
  <2>1. call[c] \in Call
    BY DEF TypeOK
  <2>2. /\ \A r : (Step(c, r) \/ StepNoHandle(c, r)) => call'[c] = r
        /\ \A e \in {"fail", "notfound", "inprogress"} : e \in ErrKinds /\ {e} \in SUBSET ErrKinds
    BY DEF Step, StepNoHandle, TypeOK, ErrKinds
  <2>3. call[c].errs \in SUBSET ErrKinds
    BY <2>1 DEF Call
  <2>4. QED
    BY <2>1, <2>2, <2>3, CallRecords, WaitRecords
<1>2. /\ {"PreCreates", "PostCreates", "PreStarts", "PostStarts", "PostReadies", "PostStops",
          "PreTerminates", "PostTerminates"} \subseteq Phases
      /\ {"substitute", "ContainerCreate", "ContainerStart", "ContainerStop", "stopped",
          "ContainerRemove", "removing", "VolumeRemove"} \subseteq Places
  BY DEF Phases, Places, EngineCalls
<1>3. ASSUME call[c].todo # <<>>
      PROVE  /\ \A p \in {NextTask(call[c]), NextTask(Pass(call[c], Head(call[c].todo)))} :
                  p.at = call[c].at /\ WaitInPlace(p)
             /\ \A e \in ErrKinds :
                  \A p \in {NextTask(AddErr(call[c], e)), NextTask(Faulted(AddErr(call[c], e))),
                            LastTask(Faulted(AddErr(call[c], e)))} :
                    p.at = call[c].at /\ WaitInPlace(p)
  BY <1>1, <1>3, WaitHook
<1>4. CASE Prepare(c)
  <2>1. Quiet(c)
    BY <1>1, <1>2, <1>4, NextFields DEF Prepare, Quiet, Started, Excused, At, HooksDone, ghostAndFlag, engineVars
  <2>2. WaitInPlace(call'[c])
    BY <1>1, <1>2, <1>4, WaitRecords DEF Prepare, At, HooksDone
  <2>3. QED
    BY <2>1, <2>2 DEF FlagMoves
<1>5. CASE DefinitionHookPasses(c)
  <2>1. Quiet(c)
    BY <1>1, <1>3, <1>5 DEF DefinitionHookPasses, Quiet, ghostAndFlag, engineVars
  <2>2. WaitInPlace(call'[c])
    BY <1>1, <1>3, <1>5 DEF DefinitionHookPasses
  <2>3. QED
    BY <2>1, <2>2 DEF FlagMoves
<1>6. CASE DefinitionHookFails(c)
  <2>1. Quiet(c)
    BY <1>1, <1>3, <1>6 DEF DefinitionHookFails, Quiet, ghostAndFlag, engineVars
  <2>2. WaitInPlace(call'[c])
    BY <1>1, <1>3, <1>6 DEF DefinitionHookFails
  <2>3. QED
    BY <2>1, <2>2 DEF FlagMoves
<1>7. CASE CreatingHookReturns(c)
  <2>1. Quiet(c)
    BY <1>1, <1>2, <1>7, NextFields DEF CreatingHookReturns, Quiet, Started, Excused, At, HooksDone, ghostAndFlag, engineVars
  <2>2. WaitInPlace(call'[c])
    BY <1>1, <1>2, <1>7, WaitRecords DEF CreatingHookReturns, At, HooksDone
  <2>3. QED
    BY <2>1, <2>2 DEF FlagMoves
<1>8. CASE Substitute(c)
  <2>1. Quiet(c)
    BY <1>1, <1>2, <1>8, NextFields DEF Substitute, Quiet, Started, Excused, At, HooksDone, ghostAndFlag, engineVars
  <2>2. WaitInPlace(call'[c])
    BY <1>1, <1>2, <1>8, WaitRecords DEF Substitute, At, HooksDone
  <2>3. QED
    BY <2>1, <2>2 DEF FlagMoves
<1>9. CASE CreateFails(c)
  <2>1. Quiet(c)
    BY <1>1, <1>2, <1>9, NextFields DEF CreateFails, Quiet, Started, Excused, At, HooksDone, ghostAndFlag, engineVars
  <2>2. WaitInPlace(call'[c])
    BY <1>1, <1>2, <1>9, WaitRecords DEF CreateFails, At, HooksDone
  <2>3. QED
    BY <2>1, <2>2 DEF FlagMoves
<1>10. CASE CreateUnseen(c)
  <2>1. Quiet(c)
    BY <1>1, <1>2, <1>10, NextFields 
       DEF CreateUnseen, Quiet, Started, Excused, At, BeforeCreation, ghostAndFlag
  <2>2. WaitInPlace(call'[c])
    BY <1>1, <1>2, <1>10, WaitRecords DEF CreateUnseen, At, HooksDone
  <2>3. QED
    BY <2>1, <2>2 DEF FlagMoves
<1>11. CASE Create(c)
  <2>1. /\ call'[c].at = "NetworkConnect"
        /\ call'[c].todo = [i \in 1..ExtraNetworks |-> "network"]
        /\ call[c].at = "ContainerCreate" /\ box' = "created" /\ UNCHANGED ghostAndFlag
    BY <1>1, <1>11 DEF Create, Goto, Call, At
  <2>2. Quiet(c)
    BY <2>1 DEF Quiet, Started, Excused, BeforeCreation, ghostAndFlag
  <2>3. WaitInPlace(call'[c])
    BY <2>1 DEF WaitInPlace, Waits
  <2>4. QED
    BY <2>2, <2>3 DEF FlagMoves
<1>12. CASE NetworkConnect(c)
  <2>1. Quiet(c)
    BY <1>1, <1>3, <1>12, NextFields DEF NetworkConnect, Quiet, Started, Excused, At, ghostAndFlag, engineVars
  <2>2. WaitInPlace(call'[c])
    BY <1>1, <1>3, <1>12, WaitRecords DEF NetworkConnect, At
  <2>3. QED
    BY <2>1, <2>2 DEF FlagMoves
<1>13. CASE NetworksDone(c)
  <2>1. Quiet(c)
    BY <1>1, <1>2, <1>13, NextFields DEF NetworksDone, Quiet, Started, Excused, At, HooksDone, ghostAndFlag, engineVars
  <2>2. WaitInPlace(call'[c])
    BY <1>1, <1>2, <1>13, WaitRecords DEF NetworksDone, At, HooksDone
  <2>3. QED
    BY <2>1, <2>2 DEF FlagMoves
<1>14. CASE CreatedHookReturns(c)
  <2>1. Quiet(c)
    BY <1>1, <1>2, <1>14, NextFields DEF CreatedHookReturns, Quiet, Started, Excused, At, HooksDone, ghostAndFlag, engineVars
  <2>2. WaitInPlace(call'[c])
    BY <1>1, <1>2, <1>14, WaitRecords DEF CreatedHookReturns, At, HooksDone
  <2>3. QED
    BY <2>1, <2>2 DEF FlagMoves
<1>15. QED
  BY <1>4, <1>5, <1>6, <1>7, <1>8, <1>9, <1>10, <1>11, <1>12, <1>13, <1>14 DEF CreateStep

\* The steps of hooks: the wait that passes raises the flag.
LEMMA HookStepFlag ==
  ASSUME TypeOK, NEW c \in Callers, WaitInPlace(call[c]), HookStep(c)
  PROVE  FlagMoves(c) /\ WaitInPlace(call'[c])
<1>1. /\ call[c] \in Call /\ Faulted(call[c]) \in Call /\ WaitInPlace(Faulted(call[c]))
      /\ call[c].errs \in SUBSET ErrKinds
      /\ \A r : (Step(c, r) \/ StepNoHandle(c, r)) => call'[c] = r
      /\ \A e \in {"fail", "notfound", "inprogress"} : e \in ErrKinds /\ {e} \in SUBSET ErrKinds
  <2>1. call[c] \in Call
    BY DEF TypeOK
  <2>2. /\ \A r : (Step(c, r) \/ StepNoHandle(c, r)) => call'[c] = r
        /\ \A e \in {"fail", "notfound", "inprogress"} : e \in ErrKinds /\ {e} \in SUBSET ErrKinds
    BY DEF Step, StepNoHandle, TypeOK, ErrKinds
  <2>3. call[c].errs \in SUBSET ErrKinds
    BY <2>1 DEF Call
  <2>4. QED
    BY <2>1, <2>2, <2>3, CallRecords, WaitRecords
<1>3. ASSUME call[c].todo # <<>>
      PROVE  /\ \A p \in {NextTask(call[c]), NextTask(Pass(call[c], Head(call[c].todo)))} :
                  p.at = call[c].at /\ WaitInPlace(p)
             /\ \A e \in ErrKinds :
                  \A p \in {NextTask(AddErr(call[c], e)), NextTask(Faulted(AddErr(call[c], e))),
                            LastTask(Faulted(AddErr(call[c], e)))} :
                    p.at = call[c].at /\ WaitInPlace(p)
  BY <1>1, <1>3, WaitHook
<1>4. CASE ContainerHookPasses(c)
  <2>1. WaitInPlace(call'[c]) /\ call'[c].at = call[c].at
    BY <1>1, <1>3, <1>4 DEF ContainerHookPasses
  <2>2. Head(call[c].todo) = "wait" => call[c].at \in Started
    BY <1>1, <1>4, WaitRecords DEF ContainerHookPasses, Started
  <2>3. FlagUp(c) \/ Quiet(c)
    BY <2>1, <2>2, <1>4 DEF ContainerHookPasses, FlagUp, Quiet, engineVars
  <2>4. QED
    BY <2>1, <2>3 DEF FlagMoves
<1>5. CASE ContainerHookFails(c)
  <2>1. Quiet(c)
    BY <1>1, <1>3, <1>5 DEF ContainerHookFails, Quiet, ghostAndFlag, engineVars
  <2>2. WaitInPlace(call'[c])
    BY <1>1, <1>3, <1>5 DEF ContainerHookFails
  <2>3. QED
    BY <2>1, <2>2 DEF FlagMoves
<1>6. QED
  BY <1>4, <1>5 DEF HookStep

\* The steps of Start.
LEMMA StartStepFlag ==
  ASSUME TypeOK, NEW c \in Callers, WaitInPlace(call[c]), StartStep(c)
  PROVE  FlagMoves(c) /\ WaitInPlace(call'[c])
<1>1. /\ call[c] \in Call /\ Faulted(call[c]) \in Call /\ WaitInPlace(Faulted(call[c]))
      /\ call[c].errs \in SUBSET ErrKinds
      /\ \A r : (Step(c, r) \/ StepNoHandle(c, r)) => call'[c] = r
      /\ \A e \in {"fail", "notfound", "inprogress"} : e \in ErrKinds /\ {e} \in SUBSET ErrKinds
  <2>1. call[c] \in Call
    BY DEF TypeOK
  <2>2. /\ \A r : (Step(c, r) \/ StepNoHandle(c, r)) => call'[c] = r
        /\ \A e \in {"fail", "notfound", "inprogress"} : e \in ErrKinds /\ {e} \in SUBSET ErrKinds
    BY DEF Step, StepNoHandle, TypeOK, ErrKinds
  <2>3. call[c].errs \in SUBSET ErrKinds
    BY <2>1 DEF Call
  <2>4. QED
    BY <2>1, <2>2, <2>3, CallRecords, WaitRecords
<1>2. /\ {"PreCreates", "PostCreates", "PreStarts", "PostStarts", "PostReadies", "PostStops",
          "PreTerminates", "PostTerminates"} \subseteq Phases
      /\ {"substitute", "ContainerCreate", "ContainerStart", "ContainerStop", "stopped",
          "ContainerRemove", "removing", "VolumeRemove"} \subseteq Places
  BY DEF Phases, Places, EngineCalls
<1>4. CASE StartingHookReturns(c)
  <2>1. Quiet(c)
    BY <1>1, <1>2, <1>4, NextFields DEF StartingHookReturns, Quiet, Started, Excused, At, HooksDone, ghostAndFlag, engineVars
  <2>2. WaitInPlace(call'[c])
    BY <1>1, <1>2, <1>4, WaitRecords DEF StartingHookReturns, At, HooksDone
  <2>3. QED
    BY <2>1, <2>2 DEF FlagMoves
<1>5. CASE ContainerStart(c)
  <2>1. BoxUp(c)
    BY <1>5 DEF ContainerStart, BoxUp
  <2>2. WaitInPlace(Enter(Pass(call[c], "engine"), "PostStarts"))
    <3>1. Pass(call[c], "engine") \in Call /\ WaitInPlace(Pass(call[c], "engine"))
      BY <1>1, CallRecords, WaitRecords
    <3>2. QED
      BY <1>2, <3>1, WaitRecords
  <2>3. WaitInPlace(call'[c])
    BY <1>1, <2>2, <1>5, WaitRecords DEF ContainerStart
  <2>4. QED
    BY <2>1, <2>3 DEF FlagMoves
<1>6. CASE StartFails(c)
  <2>1. Quiet(c)
    BY <1>1, <1>2, <1>6, NextFields DEF StartFails, Quiet, Started, Excused, At, HooksDone, ghostAndFlag, engineVars
  <2>2. WaitInPlace(call'[c])
    BY <1>1, <1>2, <1>6, WaitRecords DEF StartFails, At, HooksDone
  <2>3. QED
    BY <2>1, <2>2 DEF FlagMoves
<1>7. CASE StartedHookReturns(c)
  <2>1. FlagUp(c) \/ Quiet(c)
    BY <1>1, <1>2, <1>7, NextFields
       DEF StartedHookReturns, FlagUp, Quiet, Started, Excused, HooksDone, engineVars
  <2>2. WaitInPlace(call'[c])
    BY <1>1, <1>2, <1>7, WaitRecords DEF StartedHookReturns
  <2>3. QED
    BY <2>1, <2>2 DEF FlagMoves
<1>8. CASE ReadiedHookReturns(c)
  <2>1. Quiet(c)
    BY <1>1, <1>2, <1>8, NextFields DEF ReadiedHookReturns, Quiet, Started, Excused, At, HooksDone, ghostAndFlag, engineVars
  <2>2. WaitInPlace(call'[c])
    BY <1>1, <1>2, <1>8, WaitRecords DEF ReadiedHookReturns, At, HooksDone
  <2>3. QED
    BY <2>1, <2>2 DEF FlagMoves
<1>9. QED
  BY <1>4, <1>5, <1>6, <1>7, <1>8 DEF StartStep

\* The end of Stop leaves no wait.
LEMMA AfterStopWait ==
  ASSUME NEW r \in Call, WaitInPlace(r), NEW errs
  PROVE  WaitInPlace(AfterStop(r, errs))
<1>1. Forgive(r) \in Call /\ WaitInPlace(Forgive(r))
  BY CallRecords, WaitRecords
<1>2. WaitInPlace(Enter(Forgive(r), "PreTerminates"))
  BY <1>1, WaitRecords DEF Phases
<1>3. QED
  BY <1>2, WaitRecords DEF AfterStop

\* Who stops a running container is the only one whose handle may not know.
LEMMA BehindAfter ==
  ASSUME NEW c, NEW seen \in BOOLEAN, LeavesRunning(c, seen), box = "running", NEW h \in Handles
  PROVE  behind'[h] \/ (h = call[c].h /\ ~behind[h] /\ seen)
BY DEF LeavesRunning

\* The steps of Stop.
LEMMA StopStepFlag ==
  ASSUME TypeOK, NEW c \in Callers, WaitInPlace(call[c]), StopStep(c)
  PROVE  FlagMoves(c) /\ WaitInPlace(call'[c])
<1>1. /\ call[c] \in Call /\ Faulted(call[c]) \in Call /\ WaitInPlace(Faulted(call[c]))
      /\ call[c].errs \in SUBSET ErrKinds
      /\ \A r : (Step(c, r) \/ StepNoHandle(c, r)) => call'[c] = r
      /\ \A e \in {"fail", "notfound", "inprogress"} : e \in ErrKinds /\ {e} \in SUBSET ErrKinds
  <2>1. call[c] \in Call
    BY DEF TypeOK
  <2>2. /\ \A r : (Step(c, r) \/ StepNoHandle(c, r)) => call'[c] = r
        /\ \A e \in {"fail", "notfound", "inprogress"} : e \in ErrKinds /\ {e} \in SUBSET ErrKinds
    BY DEF Step, StepNoHandle, TypeOK, ErrKinds
  <2>3. call[c].errs \in SUBSET ErrKinds
    BY <2>1 DEF Call
  <2>4. QED
    BY <2>1, <2>2, <2>3, CallRecords, WaitRecords
<1>2. /\ {"PreCreates", "PostCreates", "PreStarts", "PostStarts", "PostReadies", "PostStops",
          "PreTerminates", "PostTerminates"} \subseteq Phases
      /\ {"substitute", "ContainerCreate", "ContainerStart", "ContainerStop", "stopped",
          "ContainerRemove", "removing", "VolumeRemove"} \subseteq Places
  BY DEF Phases, Places, EngineCalls
<1>3. \A r \in {call[c], Faulted(call[c])} : \A errs \in SUBSET ErrKinds :
        /\ AfterStop(r, errs).at \in {"PreTerminates", "idle"}
        /\ WaitInPlace(AfterStop(r, errs))
  BY <1>1, AfterStopFields, AfterStopWait
<1>4. CASE StoppingHookReturns(c)
  <2>1. Quiet(c)
    BY <1>1, <1>2, <1>3, <1>4, NextFields
       DEF StoppingHookReturns, Quiet, Started, Excused, At, HooksDone, ghostAndFlag, engineVars
  <2>2. WaitInPlace(call'[c])
    BY <1>1, <1>2, <1>3, <1>4, WaitRecords DEF StoppingHookReturns, At, HooksDone
  <2>3. QED
    BY <2>1, <2>2 DEF FlagMoves
<1>5. CASE ContainerStop(c)
  <2>1. /\ call[c].at = "ContainerStop" /\ isRunning' = isRunning
        /\ box' = IF box = "running" THEN "exited" ELSE box
        /\ \/ call'[c] = Goto(call[c], "stopped") /\ LeavesRunning(c, TRUE)
           \/ call'[c] = AfterStop(Faulted(call[c]), {"fail"}) /\ LeavesRunning(c, FALSE)
    BY <1>1, <1>5 DEF ContainerStop, At
  <2>2. /\ call'[c].at \notin Started /\ WaitInPlace(call'[c])
        /\ \/ call'[c].at = "stopped" /\ LeavesRunning(c, TRUE)
           \/ LeavesRunning(c, FALSE)
    <3>1. CASE call'[c] = Goto(call[c], "stopped") /\ LeavesRunning(c, TRUE)
      <4>1. call'[c].at = "stopped"
        BY <1>1, <1>2, <3>1, NextFields
      <4>2. WaitInPlace(call'[c])
        BY <1>1, <2>1, <3>1, WaitRecords
      <4>3. QED
        BY <3>1, <4>1, <4>2 DEF Started
    <3>2. CASE call'[c] = AfterStop(Faulted(call[c]), {"fail"}) /\ LeavesRunning(c, FALSE)
      BY <1>1, <1>3, <3>2 DEF Started
    <3>3. QED
      BY <2>1, <3>1, <3>2
  <2>3. CASE box = "running"
    <3>1. ASSUME NEW h \in Handles
          PROVE  behind'[h] \/ (h = call[c].h /\ ~behind[h] /\ call'[c].at \in Excused)
      BY <2>2, <2>3, BehindAfter DEF Excused
    <3>2. QED
      BY <2>1, <2>2, <3>1 DEF FlagMoves, BoxDown
  <2>4. CASE box # "running"
    BY <2>1, <2>2, <2>4 DEF LeavesRunning, FlagMoves, Quiet, Excused
  <2>5. QED
    BY <2>3, <2>4
<1>6. CASE StopFails(c)
  <2>1. Quiet(c)
    BY <1>1, <1>2, <1>3, <1>6, NextFields
       DEF StopFails, Quiet, Started, Excused, At, HooksDone, ghostAndFlag, engineVars
  <2>2. WaitInPlace(call'[c])
    BY <1>1, <1>2, <1>3, <1>6, WaitRecords DEF StopFails, At, HooksDone
  <2>3. QED
    BY <2>1, <2>2 DEF FlagMoves
<1>7. CASE MarkStopped(c)
  <2>1. FlagDown(c)
    BY <1>1, <1>2, <1>3, <1>7, NextFields
       DEF MarkStopped, FlagDown, Started, Excused, At, HooksDone, ghostAndFlag, engineVars
  <2>2. WaitInPlace(call'[c])
    BY <1>1, <1>2, <1>3, <1>7, WaitRecords DEF MarkStopped, At, HooksDone
  <2>3. QED
    BY <2>1, <2>2 DEF FlagMoves
<1>8. CASE StoppedHookReturns(c)
  <2>1. Quiet(c)
    BY <1>1, <1>2, <1>3, <1>8, NextFields
       DEF StoppedHookReturns, Quiet, Started, Excused, At, HooksDone, ghostAndFlag, engineVars
  <2>2. WaitInPlace(call'[c])
    BY <1>1, <1>2, <1>3, <1>8, WaitRecords DEF StoppedHookReturns, At, HooksDone
  <2>3. QED
    BY <2>1, <2>2 DEF FlagMoves
<1>9. QED
  BY <1>4, <1>5, <1>6, <1>7, <1>8 DEF StopStep

\* The steps of Terminate after its Stop.
LEMMA TerminateStepFlag ==
  ASSUME TypeOK, NEW c \in Callers, WaitInPlace(call[c]), TerminateStep(c), At(c, "removing") => box = "removing"
  PROVE  FlagMoves(c) /\ WaitInPlace(call'[c])
<1>1. /\ call[c] \in Call /\ Faulted(call[c]) \in Call /\ WaitInPlace(Faulted(call[c]))
      /\ call[c].errs \in SUBSET ErrKinds
      /\ \A r : (Step(c, r) \/ StepNoHandle(c, r)) => call'[c] = r
      /\ \A e \in {"fail", "notfound", "inprogress"} : e \in ErrKinds /\ {e} \in SUBSET ErrKinds
  <2>1. call[c] \in Call
    BY DEF TypeOK
  <2>2. /\ \A r : (Step(c, r) \/ StepNoHandle(c, r)) => call'[c] = r
        /\ \A e \in {"fail", "notfound", "inprogress"} : e \in ErrKinds /\ {e} \in SUBSET ErrKinds
    BY DEF Step, StepNoHandle, TypeOK, ErrKinds
  <2>3. call[c].errs \in SUBSET ErrKinds
    BY <2>1 DEF Call
  <2>4. QED
    BY <2>1, <2>2, <2>3, CallRecords, WaitRecords
<1>2. /\ {"PreCreates", "PostCreates", "PreStarts", "PostStarts", "PostReadies", "PostStops",
          "PreTerminates", "PostTerminates"} \subseteq Phases
      /\ {"substitute", "ContainerCreate", "ContainerStart", "ContainerStop", "stopped",
          "ContainerRemove", "removing", "VolumeRemove"} \subseteq Places
  BY DEF Phases, Places, EngineCalls
<1>3. \A e \in ErrKinds : \A r \in {AddErr(call[c], e), Faulted(AddErr(call[c], e))} :
        /\ Enter(r, "PostTerminates").at = "PostTerminates"
        /\ WaitInPlace(Enter(r, "PostTerminates"))
  <2>1. ASSUME NEW e \in ErrKinds, NEW r \in {AddErr(call[c], e), Faulted(AddErr(call[c], e))}
        PROVE  r \in Call /\ WaitInPlace(r)
    <3>1. AddErr(call[c], e) \in Call /\ WaitInPlace(AddErr(call[c], e))
      BY <1>1, CallRecords, WaitRecords
    <3>2. Faulted(AddErr(call[c], e)) \in Call /\ WaitInPlace(Faulted(AddErr(call[c], e)))
      BY <3>1, CallRecords, WaitRecords
    <3>3. QED
      BY <2>1, <3>1, <3>2
  <2>2. QED
    BY <1>2, <2>1, NextFields, WaitRecords
<1>4. CASE TerminatingHookReturns(c)
  <2>1. Quiet(c)
    BY <1>1, <1>2, <1>3, <1>4, NextFields
       DEF TerminatingHookReturns, Quiet, Started, Excused, At, HooksDone, ghostAndFlag, engineVars
  <2>2. WaitInPlace(call'[c])
    BY <1>1, <1>2, <1>3, <1>4, WaitRecords DEF TerminatingHookReturns, At, HooksDone
  <2>3. QED
    BY <2>1, <2>2 DEF FlagMoves
<1>5. CASE ContainerRemove(c)
  <2>1. call'[c] = Goto(call[c], "removing") /\ call[c].at = "ContainerRemove"
    BY <1>1, <1>5 DEF ContainerRemove, At
  <2>2. call'[c].at = "removing" /\ WaitInPlace(call'[c])
    BY <1>1, <1>2, <2>1, NextFields, WaitRecords
  <2>3. CASE box = "running"
    <3>1. LeavesRunning(c, TRUE) /\ isRunning' = isRunning
      BY <1>5 DEF ContainerRemove
    <3>2. ASSUME NEW h \in Handles
          PROVE  behind'[h] \/ (h = call[c].h /\ ~behind[h] /\ call'[c].at \in Excused)
      BY <2>2, <2>3, <3>1, BehindAfter DEF Excused
    <3>3. QED
      BY <2>2, <3>1, <3>2 DEF FlagMoves, BoxDown, Started
  <2>4. CASE box # "running"
    BY <2>2, <2>4, <1>5 DEF ContainerRemove, LeavesRunning, FlagMoves, Quiet, Started, Excused
  <2>5. QED
    BY <2>3, <2>4
<1>6. CASE RemoveFails(c)
  <2>1. Quiet(c)
    BY <1>1, <1>2, <1>3, <1>6, NextFields
       DEF RemoveFails, Quiet, Started, Excused, At, HooksDone, ghostAndFlag, engineVars
  <2>2. WaitInPlace(call'[c])
    BY <1>1, <1>2, <1>3, <1>6, WaitRecords DEF RemoveFails, At, HooksDone
  <2>3. QED
    BY <2>1, <2>2 DEF FlagMoves
<1>7. CASE RemovalEnds(c)
  <2>1. Quiet(c)
    BY <1>1, <1>2, <1>3, <1>7, NextFields
       DEF RemovalEnds, Quiet, Started, Excused, At, HooksDone, ghostAndFlag, engineVars
  <2>2. WaitInPlace(call'[c])
    BY <1>1, <1>2, <1>3, <1>7, WaitRecords DEF RemovalEnds, At, HooksDone
  <2>3. QED
    BY <2>1, <2>2 DEF FlagMoves
<1>8. CASE TerminatedHookReturns(c)
  <2>1. FlagDown(c)
    BY <1>1, <1>2, <1>3, <1>8, NextFields
       DEF TerminatedHookReturns, FlagDown, Started, Excused, At, HooksDone, ghostAndFlag, engineVars
  <2>2. WaitInPlace(call'[c])
    BY <1>1, <1>2, <1>3, <1>8, WaitRecords DEF TerminatedHookReturns, At, HooksDone
  <2>3. QED
    BY <2>1, <2>2 DEF FlagMoves
<1>9. CASE VolumeRemove(c)
  <2>1. Quiet(c)
    BY <1>1, <1>2, <1>3, <1>9, NextFields
       DEF VolumeRemove, Quiet, Started, Excused, At, HooksDone, ghostAndFlag, engineVars
  <2>2. WaitInPlace(call'[c])
    BY <1>1, <1>2, <1>3, <1>9, WaitRecords DEF VolumeRemove, At, HooksDone
  <2>3. QED
    BY <2>1, <2>2 DEF FlagMoves
<1>10. QED
  BY <1>4, <1>5, <1>6, <1>7, <1>8, <1>9 DEF TerminateStep

\* Handles are shared without their calls being told of each other, so that two calls on one
\* handle count as behind its back; but for that, a raised flag means a running container,
\* or a call that has made it stop and is about to lower the flag.
FlagKept ==
  /\ \A c, d \in Callers :
       ~Idle(c) /\ ~Idle(d) /\ c # d /\ call[c].h = call[d].h => behind[call[c].h]
  /\ \A c \in Callers : call[c].at \in Started /\ ~behind[call[c].h] => box = "running"
  /\ \A h \in Handles :
       isRunning[h] /\ ~behind[h] =>
         box = "running" \/ \E c \in Callers : call[c].h = h /\ call[c].at \in Excused
  /\ \A c \in Callers : WaitInPlace(call[c])

\* A step of a call keeps the flag right.
LEMMA FlagMovesKeep ==
  ASSUME TypeOK, FlagKept, NEW c \in Callers, FlagMoves(c), WaitInPlace(call'[c]),
         ~Idle(c), call'[c].h = call[c].h, \A d \in Callers \ {c} : call'[d] = call[d]
  PROVE  FlagKept'
<1> DEFINE h == call[c].h
<1>1. /\ h \in Handles /\ behind \in [Handles -> BOOLEAN] /\ isRunning \in [Handles -> BOOLEAN]
      /\ \A d \in Callers : call[d].h \in Handles
  BY DEF TypeOK, Call
<1>2. \A d \in Callers \ {c} : call[d].h = h /\ ~Idle(d) => behind[h] /\ Overlapping(c, h)
  BY DEF FlagKept, Overlapping
<1>3. \A d \in Callers : WaitInPlace(call'[d])
  BY DEF FlagKept
<1>4. "idle" \notin Started /\ "idle" \notin Excused /\ Started \cap Excused = {}
  BY DEF Started, Excused
<1>5. \A d \in Callers : /\ call'[d].h = call[d].h
                         /\ d # c => call'[d].at = call[d].at
  OBVIOUS
<1>6. CASE Quiet(c)
  <2>1. UNCHANGED <<isRunning, behind>> /\ (box' = box \/ (box # "running" /\ box' # "running"))
    BY <1>6 DEF Quiet
  <2>2. /\ call'[c].at \in Started => call[c].at \in Started
        /\ call[c].at \in Excused => call'[c].at \in Excused
    BY <1>6 DEF Quiet
  <2>3. \A d, e \in Callers : call'[d].at # "idle" /\ call'[e].at # "idle" /\ d # e
                              /\ call'[d].h = call'[e].h => behind'[call'[d].h]
    BY <1>5, <2>1 DEF FlagKept, Idle
  <2>4. \A d \in Callers : call'[d].at \in Started /\ ~behind'[call'[d].h] => box' = "running"
    BY <1>5, <2>1, <2>2 DEF FlagKept
  <2>5. ASSUME NEW g \in Handles, isRunning'[g], ~behind'[g]
        PROVE  box' = "running" \/ \E d \in Callers : call'[d].h = g /\ call'[d].at \in Excused
    BY <1>5, <2>1, <2>2, <2>5 DEF FlagKept
  <2>6. QED
    BY <1>3, <2>3, <2>4, <2>5 DEF FlagKept, Idle
<1>7. CASE FlagUp(c)
  <2>1. /\ call[c].at \in Started /\ UNCHANGED <<box, behind>>
        /\ \A g \in Handles \ {h} : isRunning'[g] = isRunning[g]
    BY <1>1, <1>7 DEF FlagUp
  <2>2. ~behind[h] => box = "running"
    BY <2>1 DEF FlagKept
  <2>3. \A d, e \in Callers : call'[d].at # "idle" /\ call'[e].at # "idle" /\ d # e
                              /\ call'[d].h = call'[e].h => behind'[call'[d].h]
    BY <1>5, <2>1 DEF FlagKept, Idle
  <2>4. \A d \in Callers : call'[d].at \in Started /\ ~behind'[call'[d].h] => box' = "running"
    BY <1>5, <2>1, <2>2 DEF FlagKept
  <2>5. ASSUME NEW g \in Handles, isRunning'[g], ~behind'[g]
        PROVE  box' = "running" \/ \E d \in Callers : call'[d].h = g /\ call'[d].at \in Excused
    <3>1. CASE g = h
      BY <2>1, <2>2, <2>5, <3>1
    <3>2. CASE g # h
      <4>1. box = "running" \/ \E d \in Callers : call[d].h = g /\ call[d].at \in Excused
        BY <2>1, <2>5, <3>2 DEF FlagKept
      <4>2. QED
        BY <1>5, <2>1, <3>2, <4>1
    <3>3. QED
      BY <3>1, <3>2
  <2>6. QED
    BY <1>3, <2>3, <2>4, <2>5 DEF FlagKept, Idle
<1>8. CASE FlagDown(c)
  <2>1. /\ call'[c].at \notin Started /\ UNCHANGED <<box, behind>> /\ ~isRunning'[h]
        /\ \A g \in Handles \ {h} : isRunning'[g] = isRunning[g]
    BY <1>1, <1>8 DEF FlagDown
  <2>2. \A d, e \in Callers : call'[d].at # "idle" /\ call'[e].at # "idle" /\ d # e
                              /\ call'[d].h = call'[e].h => behind'[call'[d].h]
    BY <1>5, <2>1 DEF FlagKept, Idle
  <2>3. \A d \in Callers : call'[d].at \in Started /\ ~behind'[call'[d].h] => box' = "running"
    BY <1>5, <2>1 DEF FlagKept
  <2>4. ASSUME NEW g \in Handles, isRunning'[g], ~behind'[g]
        PROVE  box' = "running" \/ \E d \in Callers : call'[d].h = g /\ call'[d].at \in Excused
    <3>1. g # h /\ isRunning[g] /\ ~behind[g]
      BY <2>1, <2>4
    <3>2. box = "running" \/ \E d \in Callers : call[d].h = g /\ call[d].at \in Excused
      BY <3>1 DEF FlagKept
    <3>3. QED
      BY <1>5, <2>1, <3>1, <3>2
  <2>5. QED
    BY <1>3, <2>2, <2>3, <2>4 DEF FlagKept, Idle
<1>9. CASE BoxUp(c)
  <2>1. box' = "running" /\ isRunning' = isRunning
    BY <1>9 DEF BoxUp
  <2>2. \A g \in Handles \ {h} : behind'[g] = behind[g]
    BY <1>1, <1>9 DEF BoxUp
  <2>3. behind[h] /\ Overlapping(c, h) => behind'[h]
    BY <1>1, <1>9 DEF BoxUp
  <2>4. ASSUME NEW d \in Callers, NEW e \in Callers, call'[d].at # "idle", call'[e].at # "idle",
               d # e, call'[d].h = call'[e].h
        PROVE  behind'[call'[d].h]
    <3>1. CASE call[d].h # h
      BY <1>1, <1>5, <2>2, <2>4, <3>1 DEF FlagKept, Idle
    <3>2. CASE call[d].h = h
      <4>1. PICK f \in Callers \ {c} : call[f].h = h /\ call[f].at # "idle"
        BY <1>5, <2>4, <3>2
      <4>2. QED
        BY <1>2, <1>5, <2>3, <3>2, <4>1 DEF Idle
    <3>3. QED
      BY <3>1, <3>2
  <2>5. QED
    BY <1>3, <2>1, <2>4 DEF FlagKept, Idle
<1>10. CASE BoxDown(c)
  <2>1. isRunning' = isRunning /\ call'[c].at \notin Started
    BY <1>10 DEF BoxDown
  <2>2. \A g \in Handles : ~behind'[g] => g = h /\ ~behind[h] /\ call'[c].at \in Excused
    BY <1>10 DEF BoxDown
  <2>3. ASSUME NEW d \in Callers \ {c}, call'[d].at # "idle" PROVE behind'[call'[d].h]
    BY <1>1, <1>2, <1>5, <2>2, <2>3 DEF Idle
  <2>4. \A d, e \in Callers : call'[d].at # "idle" /\ call'[e].at # "idle" /\ d # e
                              /\ call'[d].h = call'[e].h => behind'[call'[d].h]
    BY <2>3
  <2>5. \A d \in Callers : call'[d].at \in Started /\ ~behind'[call'[d].h] => box' = "running"
    BY <1>4, <2>1, <2>3
  <2>6. \A g \in Handles : ~behind'[g] => \E d \in Callers : call'[d].h = g /\ call'[d].at \in Excused
    BY <2>2
  <2>7. QED
    BY <1>3, <2>4, <2>5, <2>6 DEF FlagKept, Idle
<1>11. QED
  BY <1>6, <1>7, <1>8, <1>9, <1>10 DEF FlagMoves

\* Between the calls on a handle, a raised flag means a running container, if the handle is
\* used by one goroutine at a time and nothing else stopped the container since its start.
THEOREM RunningWasTrue == Spec => []RunningIsTrue
<1>1. Init => FlagKept
  BY DEF Init, NoCall, FlagKept, Idle, Started, WaitInPlace, Waits
<1>2. TypeOK /\ Ownership /\ Answerable /\ FlagKept /\ [Next]_vars => FlagKept'
  <2> SUFFICES ASSUME TypeOK, Ownership, Answerable, FlagKept, [Next]_vars PROVE FlagKept'
    OBVIOUS
  <2>1. ASSUME NEW c \in Callers, CallStep(c) PROVE FlagKept'
    <3>1. Progress(c) /\ WaitInPlace(call[c])
      BY <2>1, CallProgress DEF FlagKept
    <3>2. /\ call[c].at \in BeforeCreation => box = "none"
          /\ At(c, "removing") => box = "removing"
      BY DEF Ownership, Answerable
    <3>3. FlagMoves(c) /\ WaitInPlace(call'[c])
      BY <2>1, <3>1, <3>2, CreateStepFlag, HookStepFlag, StartStepFlag, StopStepFlag,
         TerminateStepFlag DEF CallStep
    <3>4. QED
      BY <3>1, <3>3, SameCall, OthersStay, FlagMovesKeep
  <2>2. ASSUME NEW c \in Callers, NEW op \in {"Run", "Create"}, BeginRun(c, op) PROVE FlagKept'
    <3>1. /\ call'[c].at = "prepare" /\ call'[c].h = "run" /\ call'[c].todo = <<>>
          /\ \A d \in Callers \ {c} : call'[d] = call[d]
          /\ UNCHANGED <<box, isRunning, behind>>
      BY <2>2 DEF BeginRun, StepNoHandle, NoCall, TypeOK, engineVars, ghostAndFlag
    <3>2. \A d \in Callers : call[d].at = "idle"
      BY <2>2 DEF BeginRun, Ownership, Answerable, Idle
    <3>3. WaitInPlace(call'[c])
      BY <3>1 DEF WaitInPlace, Waits
    <3>4. QED
      BY <3>1, <3>2, <3>3 DEF FlagKept, Idle, Started, Excused
  <2>3. ASSUME NEW c \in Callers, NEW op \in {"Start", "Stop", "Terminate"}, NEW h \in Handles,
               BeginCall(c, op, h)
        PROVE  FlagKept'
    <3>1. DEFINE r == [NoCall EXCEPT !.op = op, !.h = h]
    <3>2. r \in Call /\ r.h = h /\ WaitInPlace(r) /\ FirstPhase(op) \in Phases
      <4>1. "idle" \in Places /\ <<>> \in Seq(Tasks)
        BY DEF Places
      <4>2. r \in Call /\ r.h = h /\ r.todo = <<>>
        BY <4>1 DEF NoCall, Call, Handles
      <4>3. QED
        BY <4>2 DEF WaitInPlace, Waits, FirstPhase, Phases
    <3>3. /\ Enter(r, FirstPhase(op)).at = FirstPhase(op) /\ Enter(r, FirstPhase(op)).h = h
          /\ WaitInPlace(Enter(r, FirstPhase(op)))
      BY <3>2, NextFields, WaitRecords, ZenonT(40)
    <3>4. /\ call' = [call EXCEPT ![c] = Enter(r, FirstPhase(op))]
          /\ behind' = [behind EXCEPT ![h] = IF Overlapping(c, h) THEN TRUE ELSE @]
          /\ UNCHANGED <<box, isRunning>> /\ Idle(c)
      BY <2>3 DEF BeginCall, Step, engineVars
    <3> HIDE DEF r
    <3>5. /\ call'[c].h = h /\ call'[c].at \notin Started \cup Excused /\ WaitInPlace(call'[c])
          /\ \A d \in Callers \ {c} : call'[d] = call[d]
      BY <3>3, <3>4 DEF TypeOK, FirstPhase, Started, Excused
    <3>6. \A g \in Handles : behind[g] => behind'[g]
      BY <3>4 DEF TypeOK
    <3>7. \A d \in Callers : call[d].h \in Handles
      BY DEF TypeOK, Call
    <3>8. ASSUME NEW d \in Callers, NEW e \in Callers, call'[d].at # "idle", call'[e].at # "idle",
                 d # e, call'[d].h = call'[e].h
          PROVE  behind'[call'[d].h]
      <4>1. CASE d # c /\ e # c
        BY <3>5, <3>6, <3>7, <3>8, <4>1 DEF FlagKept, Idle
      <4>2. CASE d = c \/ e = c
        <5>1. PICK f \in Callers \ {c} : call[f].at # "idle" /\ call[f].h = h
          BY <3>5, <3>8, <4>2
        <5>2. Overlapping(c, h)
          BY <5>1 DEF Overlapping, Idle
        <5>3. behind'[h]
          BY <3>4, <5>2 DEF TypeOK
        <5>4. QED
          BY <3>5, <3>8, <4>2, <5>3
      <4>3. QED
        BY <4>1, <4>2
    <3>9. \A d \in Callers : call'[d].at \in Started /\ ~behind'[call'[d].h] => box' = "running"
      BY <3>4, <3>5, <3>6, <3>7 DEF FlagKept
    <3>10. ASSUME NEW g \in Handles, isRunning'[g], ~behind'[g]
           PROVE  box' = "running" \/ \E d \in Callers : call'[d].h = g /\ call'[d].at \in Excused
      <4>1. box = "running" \/ \E d \in Callers : call[d].h = g /\ call[d].at \in Excused
        BY <3>4, <3>6, <3>10 DEF FlagKept
      <4>2. call[c].at \notin Excused
        BY <3>4 DEF Idle, Excused
      <4>3. QED
        BY <3>4, <3>5, <4>1, <4>2
    <3>11. QED
      BY <3>5, <3>8, <3>9, <3>10 DEF FlagKept, Idle
  <2>4. CASE FromID
    <3>1. /\ UNCHANGED <<box, call, behind>> /\ isRunning'["run"] = isRunning["run"]
          /\ isRunning'["found"] = (box = "running")
      BY <2>4 DEF FromID, engineVars, TypeOK, Handles
    <3>2. QED
      BY <3>1 DEF FlagKept, Idle, Handles
  <2>5. CASE Exit
    BY <2>5 DEF Exit, FlagKept, Idle, TypeOK, Call
  <2>6. CASE UNCHANGED vars
    BY <2>6 DEF vars, FlagKept, Idle
  <2>7. QED
    BY <2>1, <2>2, <2>3, <2>4, <2>5, <2>6 DEF Next
<1>3. FlagKept => RunningIsTrue
  BY DEF FlagKept, RunningIsTrue, Idle, Excused
<1>4. QED
  BY <1>1, <1>2, <1>3, TypeCorrect, OwnershipHolds, AnswerableHolds, PTL DEF Spec

=============================================================================
