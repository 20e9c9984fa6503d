----------------------------- MODULE Resources ------------------------------
(***************************************************************************)
(* Networks and volumes: packages network and volume make them with a      *)
(* client given or made for the purpose, inspect, find and terminate them, *)
(* and their test helpers remove them at the end of a test, ignoring some  *)
(* errors.  A network is known to the Engine by its ID, a volume by its    *)
(* name.  Other users of the Engine attach containers to both and remove   *)
(* them.                                                                   *)
(***************************************************************************)
EXTENDS ClientHandle

CONSTANTS NetworkIds,    \* the IDs the Engine gives to networks
          NetworkNames,
          VolumeNames,
          LooksLike      \* the network names that the Engine's name filter takes for another

\* The IDs of networks and the names of volumes do not meet in "store", and what the Engine
\* holds at the start are networks and volumes.
ASSUME StoresAssumption ==
  /\ NetworkIds \cap VolumeNames = {}
  /\ \A s \in Starts :
       /\ DOMAIN s.store \subseteq NetworkIds \cup VolumeNames
       /\ s.store \in [DOMAIN s.store -> [name : NetworkNames \cup VolumeNames, used : BOOLEAN]]

VARIABLES
  store,     \* the Engine's networks by ID and its volumes by name
  made,      \* the IDs it has given out
  removing,  \* what it is just removing
  cached     \* the inspection that each network's handle holds

vars == <<clientVars, store, made, removing, cached>>
resources == <<store, made, removing, cached>>
clientSide == <<env, current, up, calls, faults>>

None == "none"
Handles == made \cup VolumeNames
Networks == DOMAIN store \cap NetworkIds
Removals == {"terminate", "force", "cleanup"}
Fresh(name) == [name |-> name, used |-> FALSE]

Init ==
  /\ ClientInit
  /\ \E start \in Starts : env = start.env /\ current = start.current /\ store = start.store
  /\ made = Networks
  /\ removing = {}
  /\ cached = [i \in NetworkIds |-> None]

\* A caller that has a client goes to the Engine at once.
BeginWith(g, use, place, id) ==
  /\ Idle(g) /\ calls < MaxCalls
  /\ calls' = calls + 1
  /\ Step(g, [Begun(use, NoOptions, id) EXCEPT !.at = place])
  /\ UNCHANGED <<env, current, up, faults, resources>>

\* A package that was given no client makes one, with no options.
BeginNewClientFor(g, use) == BeginNew(g, use, NoOptions, None) /\ UNCHANGED resources

Needs(g, use) == At(g, "made") /\ call[g].use = use

-----------------------------------------------------------------------------
(* New, of both packages.                                                  *)

Make(g, id, name) ==
  /\ store' = [i \in DOMAIN store \cup {id} |-> IF i = id THEN Fresh(name) ELSE store[i]]
  /\ Step(g, Return("none"))
  /\ UNCHANGED <<clientSide, removing, cached>>

NewNetwork(g) ==
  /\ Needs(g, "network")
  /\ \E id \in NetworkIds \ made, name \in NetworkNames :
       /\ \A i \in Networks : store[i].name # name
       /\ Make(g, id, name)
       /\ made' = made \cup {id}

NewNetworkFails(g) ==
  /\ Needs(g, "network")
  /\ Networks # {}
  /\ Step(g, Return("conflict"))
  /\ UNCHANGED <<clientSide, resources>>

\* VolumeCreate hands out the volume of that name if there is one.
NewVolume(g) ==
  /\ Needs(g, "volume")
  /\ \E v \in VolumeNames :
       \/ v \notin DOMAIN store /\ Make(g, v, v) /\ UNCHANGED made
       \/ /\ v \in DOMAIN store
          /\ Step(g, Return("none"))
          /\ UNCHANGED <<clientSide, resources>>

-----------------------------------------------------------------------------
(* Inspect, FindByID, FindByName.                                          *)

\* With the cache wanted, an inspection that is there answers without the Engine.
BeginInspect(g, id, cache) ==
  BeginWith(g, "inspect", IF cache /\ cached[id] # None THEN "hit" ELSE "ask", id)

Hit(g) ==
  /\ At(g, "hit")
  /\ Step(g, Return("none"))
  /\ UNCHANGED <<clientSide, resources>>

Ask(g) ==
  /\ At(g, "ask")
  /\ Step(g, IF call[g].id \in DOMAIN store
             THEN [Goto(call[g], "keep") EXCEPT !.found = store[call[g].id].name]
             ELSE Return("notfound"))
  /\ UNCHANGED <<clientSide, resources>>

\* What was asked first may be kept last.
Keep(g) ==
  /\ At(g, "keep")
  /\ cached' = [cached EXCEPT ![call[g].id] = call[g].found]
  /\ Step(g, Return("none"))
  /\ UNCHANGED <<clientSide, store, made, removing>>

\* The networks of that ID, or those whose name contains the name.
Lists ==
  {Networks \cap {i} : i \in made}
    \cup {{i \in Networks : store[i].name \in LooksLike[n]} : n \in NetworkNames}

FindNetwork(g) ==
  /\ Needs(g, "find")
  /\ \E list \in Lists : Step(g, Return(IF list = {} THEN "notfound" ELSE "none"))
  /\ UNCHANGED <<clientSide, resources>>

FindVolume(g) ==
  /\ Needs(g, "find")
  /\ \E v \in VolumeNames : Step(g, Return(IF v \in DOMAIN store THEN "none" ELSE "notfound"))
  /\ UNCHANGED <<clientSide, resources>>

-----------------------------------------------------------------------------
(* Terminate, and the test helpers.                                        *)

\* Terminate of a handle; Cleanup calls it at the end of a test.
BeginTerminate(g, id, use) ==
  /\ use = "force" => id \in VolumeNames
  /\ BeginWith(g, use, "remove", id)

\* CleanupByID makes a client of its own first.
BeginCleanupByID(g, id) == BeginNew(g, "cleanup", NoOptions, id) /\ UNCHANGED resources

CleanupClient(g) ==
  /\ Needs(g, "cleanup")
  /\ Step(g, Goto(call[g], "remove"))
  /\ UNCHANGED <<clientSide, resources>>

\* Faulty: every conflict passes for a removal in progress.
IsCleanupSafeConflict(err) == err \in {"none", "notfound", "inprogress", "conflict"}

\* isCleanupSafe, of both packages.
IsCleanupSafe(err) == err \in {"none", "notfound", "inprogress"}

\* The call ends; a helper reports only what it may not ignore.
Removed(g, err) ==
  Step(g, Return(IF call[g].use = "cleanup" /\ IsCleanupSafe(err) THEN "none" ELSE err))

\* The Engine forgives a missing volume when forced, and nothing else.
RemoveRefused(g) ==
  /\ At(g, "remove")
  /\ LET id == call[g].id IN
     \/ id \notin DOMAIN store /\ Removed(g, IF call[g].use = "force" THEN "none" ELSE "notfound")
     \/ id \in removing /\ Removed(g, "inprogress")
     \/ id \in DOMAIN store \ removing /\ store[id].used /\ Removed(g, "conflict")
  /\ UNCHANGED <<clientSide, resources>>

BeginRemoval(g) ==
  /\ At(g, "remove")
  /\ call[g].id \in DOMAIN store \ removing
  /\ ~store[call[g].id].used
  /\ removing' = removing \cup {call[g].id}
  /\ Step(g, Goto(call[g], "removal"))
  /\ UNCHANGED <<clientSide, store, made, cached>>

EndRemoval(g) ==
  /\ At(g, "removal")
  /\ store' = [i \in DOMAIN store \ {call[g].id} |-> store[i]]
  /\ removing' = removing \ {call[g].id}
  /\ Removed(g, "none")
  /\ UNCHANGED <<clientSide, made, cached>>

-----------------------------------------------------------------------------
(* Other users of the Engine.                                              *)

Attach(id, used) ==
  /\ id \in DOMAIN store \ removing
  /\ store[id].used # used
  /\ faults < MaxFaults /\ faults' = faults + 1
  /\ store' = [store EXCEPT ![id].used = used]
  /\ UNCHANGED <<env, current, up, call, calls, made, removing, cached>>

RemovedByOthers(id) ==
  /\ id \in DOMAIN store \ removing
  /\ ~store[id].used
  /\ faults < MaxFaults /\ faults' = faults + 1
  /\ store' = [i \in DOMAIN store \ {id} |-> store[i]]
  /\ UNCHANGED <<env, current, up, call, calls, made, removing, cached>>

Next ==
  \/ \E g \in Callers :
       \/ ClientStep(g) /\ UNCHANGED resources
       \/ \E use \in {"network", "volume", "find"} : BeginNewClientFor(g, use)
       \/ NewNetwork(g) \/ NewNetworkFails(g) \/ NewVolume(g)
       \/ FindNetwork(g) \/ FindVolume(g)
       \/ \E id \in made, cache \in BOOLEAN : BeginInspect(g, id, cache)
       \/ Hit(g) \/ Ask(g) \/ Keep(g)
       \/ \E id \in Handles, use \in Removals : BeginTerminate(g, id, use)
       \/ \E id \in Handles : BeginCleanupByID(g, id)
       \/ CleanupClient(g) \/ RemoveRefused(g) \/ BeginRemoval(g) \/ EndRemoval(g)
  \/ World /\ UNCHANGED resources
  \/ \E id \in DOMAIN store : RemovedByOthers(id) \/ \E used \in BOOLEAN : Attach(id, used)

Spec == Init /\ [][Next]_vars

-----------------------------------------------------------------------------
(* Properties.                                                             *)

\* Every variable has its type, a ping is tried at most three times, what the Engine
\* holds was made, and a handle's inspection names the network it was made for
\* (client.go:34-49, network.inspect.go:60-69).
TypeOK ==
  /\ ClientTypeOK
  /\ made \subseteq NetworkIds
  /\ DOMAIN store \subseteq Handles
  /\ \A i \in DOMAIN store : store[i] \in [name : NetworkNames \cup VolumeNames, used : BOOLEAN]
  /\ removing \subseteq DOMAIN store
  /\ \A i \in NetworkIds :
       cached[i] # None => i \in made /\ (i \in DOMAIN store => cached[i] = store[i].name)
  /\ \A g \in Callers : At(g, "removal") => call[g].id \in removing

\* A Terminate or a test helper that reports no error leaves no network and no volume
\* behind, except one that somebody else is just removing: the errors it ignores never
\* hide a resource that stays (network/testing.go:76-109, volume/testing.go:77-110).
NothingLeft ==
  [][\A g \in Callers :
       call[g].use \in Removals /\ ~Idle(g) /\ Idle(g)' /\ call'[g].err = "none"
         => call[g].id \notin (DOMAIN store \ removing)']_vars

=============================================================================
