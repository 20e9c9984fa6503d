----------------------------- MODULE RunRequest -----------------------------
(***************************************************************************)
(* What becomes of the options of Run: each call applies them one by one,  *)
(* validates the definition, computes the container's configs, creates the *)
(* container, joins the further networks, copies the files, starts it and  *)
(* executes the startup commands, one of which may be the dispatcher.      *)
(*                                                                         *)
(* Several calls use the same options: what an option closes over, such as *)
(* the reader of a file, is shared by them.  What hooks and Start do on    *)
(* their own is the subject of ContainerLifecycle.                         *)
(***************************************************************************)
EXTENDS RunOptions

CONSTANTS Runs,           \* the calls
          Options,        \* the caller's options: a function from names
          Plans,          \* the sequences of names to call Run with
          NewNetworks,    \* the names that WithNewNetwork may draw
          MaxFaults       \* bound: failing calls to the Engine

\* An option is one of the package, and the lists it is given are lists.
ASSUME OptionsAssumption ==
  /\ MaxFaults \in Nat
  /\ \A p \in Plans : p \in Seq(DOMAIN Options)
  /\ \A name \in DOMAIN Options :
       /\ Options[name].opt \in OptionNames
       /\ Options[name].opt \in {"WithFiles", "WithExposedPorts"} \cup DurableOptions =>
            Options[name].arg \in Seq(ToSet(Options[name].arg))

VARIABLES
  plan,      \* the options of every call
  run,       \* each call: where it is, its definition, whether it failed
  box,       \* each call's container
  networks,  \* the networks of the Engine
  spent,     \* the files of the caller whose reader has been read
  faults     \* how many faults were injected

vars == <<plan, run, box, networks, spent, faults>>

Places == {"customize", "validate", "preCreate", "create", "connect", "copy", "start",
           "PostStarts", "wait", "PostReadies", "dispatch", "done"}

NoBox == [state |-> "none", name |-> "", cmd |-> <<>>, nets |-> Empty, bindings |-> Empty,
          publishAll |-> FALSE, files |-> Empty, ran |-> <<>>, walked |-> <<>>]

Init ==
  /\ plan \in Plans
  /\ run = [r \in Runs |-> [at |-> "customize", next |-> 1, def |-> Blank, err |-> FALSE,
                            todo |-> <<>>, walk |-> <<>>, back |-> "done"]]
  /\ box = [r \in Runs |-> NoBox]
  /\ networks = {"bridge", "app", "db"}
  /\ spent = {}
  /\ faults = 0

-----------------------------------------------------------------------------

At(r, place) == run[r].at = place
Def(r) == run[r].def
Goto(r, place) == run' = [run EXCEPT ![r].at = place, ![r].next = 1]
Fail(r) == run' = [run EXCEPT ![r].at = "done", ![r].err = TRUE]
Option(r) == Options[plan[run[r].next]]
MoreOptions(r) == At(r, "customize") /\ run[r].next <= Len(plan)

CanFault == faults < MaxFaults
Fault == CanFault /\ faults' = faults + 1

\* Run ends at the first option that returns an error.
Refuse(r) ==
  /\ MoreOptions(r)
  /\ Refused(Option(r))
  /\ Fail(r)
  /\ UNCHANGED <<plan, box, networks, spent, faults>>

Apply(r) ==
  /\ MoreOptions(r)
  /\ ~Refused(Option(r))
  /\ Option(r).opt # "WithNewNetwork"
  /\ run' = [run EXCEPT ![r].def = Customize(@, Option(r)), ![r].next = @ + 1]
  /\ UNCHANGED <<plan, box, networks, spent, faults>>

\* WithNewNetwork makes the network while the options are still being applied.
ApplyNewNetwork(r) ==
  /\ MoreOptions(r)
  /\ Option(r).opt = "WithNewNetwork"
  /\ NewNetworks \ networks # {}
  /\ LET n == CHOOSE n \in NewNetworks \ networks : TRUE
     IN  /\ networks' = networks \cup {n}
         /\ run' = [run EXCEPT ![r].def = JoinNetwork(@, n, Option(r).arg), ![r].next = @ + 1]
  /\ UNCHANGED <<plan, box, spent, faults>>

NewNetworkFails(r) ==
  /\ MoreOptions(r)
  /\ Option(r).opt = "WithNewNetwork"
  /\ Fault
  /\ Fail(r)
  /\ UNCHANGED <<plan, box, networks, spent>>

Validate(r) ==
  /\ At(r, "customize")
  /\ run[r].next > Len(plan)
  /\ IF Valid(Def(r)) THEN Goto(r, "preCreate") ELSE Fail(r)
  /\ UNCHANGED <<plan, box, networks, spent, faults>>

Aliases(d, n) == IF n \in DOMAIN d.aliases THEN d.aliases[n] ELSE <<>>
Endpoint(d, n) == [id |-> n, aliases |-> Aliases(d, n)]

\* The settings of the one network that a container can be created in.
FirstEndpoint(d) ==
  IF d.networks = <<>> THEN Empty
  ELSE With(Empty, Head(d.networks), Endpoint(d, Head(d.networks)))

\* preCreateContainerHook.
PreCreate(r) ==
  /\ At(r, "preCreate")
  /\ IF \/ Def(r).networks # <<>> /\ Head(Def(r).networks) \notin networks
        \/ ~Parses(Def(r).ports)
     THEN Fail(r) /\ UNCHANGED box
     ELSE /\ Goto(r, "create")
          /\ box' = [box EXCEPT ![r] =
                       [@ EXCEPT !.name = Def(r).name,
                                 !.cmd = Config(Def(r)).cmd,
                                 !.nets = Endpoints(Def(r), FirstEndpoint(Def(r))),
                                 !.bindings = Bindings(Def(r)),
                                 !.publishAll = PublishAll(Def(r))]]
  /\ UNCHANGED <<plan, networks, spent, faults>>

NameTaken(name) == name # "" /\ \E r \in Runs : box[r].state # "none" /\ box[r].name = name

Create(r) ==
  /\ At(r, "create")
  /\ ~NameTaken(Def(r).name)
  /\ DOMAIN box[r].nets \subseteq networks
  /\ Goto(r, "connect")
  /\ box' = [box EXCEPT ![r].state = "created"]
  /\ UNCHANGED <<plan, networks, spent, faults>>

\* Faulty: Run goes on with a container that was not created.
CreateErrorIgnored(r) ==
  /\ At(r, "create")
  /\ NameTaken(Def(r).name)
  /\ Goto(r, "connect")
  /\ UNCHANGED <<plan, box, networks, spent, faults>>

CreateFails(r) ==
  /\ At(r, "create")
  /\ \/ (NameTaken(Def(r).name) \/ ~(DOMAIN box[r].nets \subseteq networks)) /\ UNCHANGED faults
     \/ Fault
  /\ Fail(r)
  /\ UNCHANGED <<plan, box, networks, spent>>

\* The network after the ones the container is in.
FurtherNetwork(r) == Def(r).networks[run[r].next + 1]

Connect(r) ==
  /\ At(r, "connect")
  /\ run[r].next < Len(Def(r).networks)
  /\ FurtherNetwork(r) \in networks \ DOMAIN box[r].nets
  /\ run' = [run EXCEPT ![r].next = @ + 1]
  /\ box' = [box EXCEPT ![r].nets = With(@, FurtherNetwork(r), Endpoint(Def(r), FurtherNetwork(r)))]
  /\ UNCHANGED <<plan, networks, spent, faults>>

\* The network is gone, or the container is in it already.
ConnectFails(r) ==
  /\ At(r, "connect")
  /\ run[r].next < Len(Def(r).networks)
  /\ \/ FurtherNetwork(r) \notin networks \ DOMAIN box[r].nets /\ UNCHANGED faults
     \/ Fault
  /\ Fail(r)
  /\ UNCHANGED <<plan, box, networks, spent>>

Connected(r) ==
  /\ At(r, "connect")
  /\ run[r].next >= Len(Def(r).networks)
  /\ Goto(r, "copy")
  /\ UNCHANGED <<plan, box, networks, spent, faults>>

MoreFiles(r) == At(r, "copy") /\ run[r].next <= Len(Def(r).files)
NextFile(r) == Def(r).files[run[r].next]

\* A reader that another call has read yields nothing, and no error.
Content(f) == IF f.source = "shared" /\ f \in spent THEN "" ELSE f.body

\* Faulty: a file that cannot be copied is left out.
CopyFailsQuietly(r) ==
  /\ MoreFiles(r)
  /\ \/ NextFile(r).source = "nowhere" /\ UNCHANGED faults
     \/ Fault
  /\ run' = [run EXCEPT ![r].next = @ + 1]
  /\ UNCHANGED <<plan, box, networks, spent>>

Copy(r) ==
  /\ MoreFiles(r)
  /\ NextFile(r).source # "nowhere"
  /\ run' = [run EXCEPT ![r].next = @ + 1]
  /\ box' = [box EXCEPT ![r].files = With(@, Lands(NextFile(r)), Content(NextFile(r)))]
  /\ spent' = IF NextFile(r).source = "shared" THEN spent \cup {NextFile(r)} ELSE spent
  /\ UNCHANGED <<plan, networks, faults>>

\* The hook stops at the first file that is invalid or cannot be read or copied.  A
\* reader has then been read all the same.
CopyFails(r) ==
  /\ MoreFiles(r)
  /\ \/ NextFile(r).source = "nowhere" /\ UNCHANGED <<faults, spent>>
     \/ /\ Fault
        /\ spent' = IF NextFile(r).source = "shared" THEN spent \cup {NextFile(r)} ELSE spent
  /\ Fail(r)
  /\ UNCHANGED <<plan, box, networks>>

-----------------------------------------------------------------------------
(* The start and the commands.                                             *)

Commands(d, phase) ==
  FlattenSeq([i \in DOMAIN SelectSeq(d.hooks, LAMBDA h : h.phase = phase) |->
                SelectSeq(d.hooks, LAMBDA h : h.phase = phase)[i].cmds])

EnterPhase(r, phase) ==
  run' = [run EXCEPT ![r].at = phase, ![r].todo = Commands(Def(r), phase)]

\* The container is created; without auto-start that is all.
Start(r) ==
  /\ At(r, "copy")
  /\ run[r].next > Len(Def(r).files)
  /\ IF Def(r).started
     THEN EnterPhase(r, "PostStarts") /\ box' = [box EXCEPT ![r].state = "running"]
     ELSE Goto(r, "done") /\ UNCHANGED box
  /\ UNCHANGED <<plan, networks, spent, faults>>

StartFails(r) ==
  /\ At(r, "copy")
  /\ run[r].next > Len(Def(r).files)
  /\ Def(r).started
  /\ Fault
  /\ Fail(r)
  /\ UNCHANGED <<plan, box, networks, spent>>

InPhase(r) == run[r].at \in {"PostStarts", "PostReadies"} /\ run[r].todo # <<>>
Command(r) == Head(run[r].todo)

\* A hook executes its command; whether that one ended well is not asked.
Execute(r) ==
  /\ InPhase(r)
  /\ Command(r) # "run.sh"
  /\ run' = [run EXCEPT ![r].todo = Tail(@)]
  /\ box' = [box EXCEPT ![r].ran = Append(@, Command(r))]
  /\ UNCHANGED <<plan, networks, spent, faults>>

\* The hooks after a failing one are run as well.
ExecuteFails(r) ==
  /\ InPhase(r)
  /\ Fault
  /\ run' = [run EXCEPT ![r].todo = Tail(@), ![r].err = TRUE]
  /\ UNCHANGED <<plan, box, networks, spent>>

\* The dispatcher, if it has been copied, begins its walk over the scripts.
Dispatch(r) ==
  /\ InPhase(r)
  /\ Command(r) = "run.sh"
  /\ run' = IF Dispatcher \in DOMAIN box[r].files
            THEN [run EXCEPT ![r].back = run[r].at, ![r].at = "dispatch",
                             ![r].todo = Tail(@), ![r].next = 1,
                             ![r].walk = Walk(DOMAIN box[r].files)]
            ELSE [run EXCEPT ![r].todo = Tail(@)]
  /\ box' = [box EXCEPT ![r].walked = <<>>]
  /\ UNCHANGED <<plan, networks, spent, faults>>

RunScript(r) ==
  /\ At(r, "dispatch")
  /\ run[r].next <= Len(run[r].walk)
  /\ run' = [run EXCEPT ![r].next = @ + 1]
  /\ box' = [box EXCEPT ![r].walked = Append(@, box[r].files[run[r].walk[run[r].next]])]
  /\ UNCHANGED <<plan, networks, spent, faults>>

\* A failing script ends the dispatcher (set -e).  Its exit code reaches nobody.
EndDispatch(r) ==
  /\ At(r, "dispatch")
  /\ \/ run[r].next > Len(run[r].walk) /\ UNCHANGED faults
     \/ Fault
  /\ run' = [run EXCEPT ![r].at = run[r].back]
  /\ UNCHANGED <<plan, box, networks, spent>>

\* The started hooks end with the wait strategy, which runs after a failing hook too.
Wait(r) ==
  /\ At(r, "PostStarts")
  /\ run[r].todo = <<>>
  /\ \/ /\ ~run[r].err
        /\ EnterPhase(r, "PostReadies")
        /\ UNCHANGED faults
     \/ /\ run[r].err
        /\ Fail(r)
        /\ UNCHANGED faults
     \/ /\ Def(r).waits # <<>>
        /\ Fault
        /\ Fail(r)
  /\ UNCHANGED <<plan, box, networks, spent>>

Finish(r) ==
  /\ At(r, "PostReadies")
  /\ run[r].todo = <<>>
  /\ Goto(r, "done")
  /\ UNCHANGED <<plan, box, networks, spent, faults>>

\* Somebody else removes a network that no container is in.
RemoveNetwork(n) ==
  /\ Fault
  /\ n # "bridge"
  /\ \A r \in Runs : box[r].state # "none" => n \notin DOMAIN box[r].nets
  /\ networks' = networks \ {n}
  /\ UNCHANGED <<plan, run, box, spent>>

Next ==
  \/ \E r \in Runs :
       \/ Refuse(r) \/ Apply(r) \/ ApplyNewNetwork(r) \/ NewNetworkFails(r) \/ Validate(r)
       \/ PreCreate(r) \/ Create(r) \/ CreateFails(r)
       \/ Connect(r) \/ ConnectFails(r) \/ Connected(r) \/ Copy(r) \/ CopyFails(r)
       \/ Start(r) \/ StartFails(r) \/ Execute(r) \/ ExecuteFails(r)
       \/ Dispatch(r) \/ RunScript(r) \/ EndDispatch(r) \/ Wait(r) \/ Finish(r)
  \/ \E n \in networks : RemoveNetwork(n)

Spec == Init /\ [][Next]_vars

-----------------------------------------------------------------------------
(* Properties.                                                             *)

\* Every variable has its type, and a container has a state once it was created.
TypeOK ==
  /\ plan \in Plans
  /\ \A r \in Runs :
       /\ run[r].at \in Places
       /\ run[r].next \in 1..(Len(plan) + Len(Def(r).files) + Len(Def(r).networks) + 1)
       /\ box[r].state \in {"none", "created", "running"}
       /\ run[r].at \in {"customize", "preCreate", "create"} => box[r].state = "none"
       /\ run[r].at \in {"connect", "copy"} => box[r].state = "created"
  /\ networks \subseteq {"bridge", "app", "db"} \cup NewNetworks
  /\ faults \in 0..MaxFaults

\* The options of plan p that bear one of the names.
Asked(p, opts) == SelectSeq([i \in DOMAIN p |-> Options[p[i]]], LAMBDA o : o.opt \in opts)

\* The commands of one namespace, in the order of their registration.
OfNamespace(p, ns) ==
  LET its == SelectSeq(Asked(p, DurableOptions),
                       LAMBDA o : o.ns = ns)
  IN  FlattenSeq([i \in DOMAIN its |-> [j \in DOMAIN its[i].arg |-> its[i].arg[j].cmd]])

\* The named namespaces of each plan in the order of their first registration.
Registration ==
  [p \in Plans |-> FoldLeft(LAMBDA s, o : IF Contains(s, o.ns) THEN s ELSE Append(s, o.ns),
                            <<>>, Asked(p, {"WithDurableStartupCommandsFromDir"}))]

Registered ==
  [p \in Plans |->
     FlattenSeq([i \in 1..(1 + Len(Registration[p])) |->
                   OfNamespace(p, IF i = 1 THEN Default ELSE Registration[p][i - 1])])]

NumbersFit ==
  [p \in Plans |->
     /\ Len(Registration[p]) < Base ^ Width
     /\ \A ns \in ToSet(NameOrder) : Len(OfNamespace(p, ns)) <= Base ^ Width]

\* All that the options of one kind were given.
Given(p, opt) == UNION {ToSet(Options[p[i]].arg) : i \in {j \in DOMAIN p : Options[p[j]].opt = opt}}
Files == [p \in Plans |-> Given(p, "WithFiles")]
Ports == [p \in Plans |-> Given(p, "WithExposedPorts")]
Scripts ==
  [p \in Plans |-> {e.cmd : e \in UNION {Given(p, opt) : opt \in DurableOptions}}]

\* The dispatcher runs, whole and without a gap, the scripts that the options
\* registered: the reserved namespace first, the others in the order in which they were
\* first named, and each one's commands in their order over all options; also in the
\* second container made with the same options.  As long as the numbers have enough
\* digits.  (durable_startup.go:18-28, 113-115)
ScriptsInOrder ==
  NumbersFit[plan] => \A r \in Runs : IsPrefix(box[r].walked, Registered[plan])

\* A file of the caller that keeps out of the directory of the scripts.
Away(f) == {f.path.place, Lands(f).place} \cap {"script", "dispatcher"} = {}

\* Run starts no container before every file of the options is in it: each one that the
\* caller named, a directory under the parent of its path and its own base name, with
\* the content it was given unless another of the caller's lies in the same place; each
\* registered command as a script that no other one overwrote, and the dispatcher, while
\* the caller's files keep out of their directory.  One that cannot be copied keeps the
\* container from starting.  Of a reader only the place of its file is certain: it can
\* be read once, and Runs with the same options share it.
\* (lifecycle.create.go:30-86, files.go:93-122, 161-243, durable_startup.go:138-180)
FilesInPlace ==
  \A r \in Runs : box[r].state = "running" =>
    LET files == box[r].files
    IN  /\ \A f \in Files[plan] :
             /\ Lands(f) \in DOMAIN files
             /\ /\ Away(f) /\ f.source # "shared"
                /\ \A g \in Files[plan] : Lands(g) = Lands(f) => g = f
                => files[Lands(f)] = f.body
        /\ (\A f \in Files[plan] : Away(f)) =>
             /\ Scripts[plan] # {} => Dispatcher \in DOMAIN files /\ files[Dispatcher] = "run.sh"
             /\ \A cmd \in Scripts[plan] :
                  \E p \in DOMAIN files : p.place = "script" /\ files[p] = cmd

\* A network that the first modifier has its hands on.  It works on the bare settings,
\* whichever of the two options set it.
Touched(d) ==
  IF d.endpoints = <<>> THEN {}
  ELSE Head(d.endpoints).drop \cup Head(d.endpoints).null \cup DOMAIN Head(d.endpoints).set

JoinedAsNamed(r, n) ==
  /\ n \in DOMAIN box[r].nets
  /\ Aliases(Def(r), n) # <<>> => box[r].nets[n].aliases = Aliases(Def(r), n)

\* A running container is in every network that its options named, under the aliases
\* they gave, except those that the first modifier of the endpoint settings touches: the
\* modifiers after it neither take a network away nor replace its aliases, and the
\* networks after the first one are joined before the start.  (options.go:88-139,
\* lifecycle.create.go:170-232, container.run.go:140-150)
NetworksAsAsked ==
  \A r \in Runs : box[r].state = "running" =>
    \A n \in ToSet(Def(r).networks) \ Touched(Def(r)) : JoinedAsNamed(r, n)

\* The option that adds to the endpoint settings takes nothing away: a container whose
\* caller used only that one is in all its networks and under all its aliases.
\* (options.go:88-89, 116; not so when it is the first modifier, options.go:95-98)
AdditionsKeep ==
  Asked(plan, {"WithEndpointSettingsModifier"}) = <<>> =>
    \A r \in Runs : box[r].state = "running" =>
      \A n \in ToSet(Def(r).networks) : JoinedAsNamed(r, n)

\* A created container has bindings for the exposed ports and for no others, each with a
\* host port or a request for any ("0"): those of the host config, if it has the port and
\* the port was named without a host part, and at least one otherwise.  With nothing
\* exposed the Engine publishes what the image exposes, unless the container shares
\* another one's network.
PortsAsAsked ==
  \A r \in Runs : box[r].state # "none" =>
    /\ DOMAIN box[r].bindings = {spec.port : spec \in Ports[plan]}
    /\ \A p \in DOMAIN box[r].bindings :
         /\ \A i \in DOMAIN box[r].bindings[p] : box[r].bindings[p][i] # ""
         /\ IF /\ [port |-> p, host |-> ""] \in Ports[plan]
               /\ p \in DOMAIN HostConfig(Def(r)).bindings
            THEN box[r].bindings[p] = Allocated(HostConfig(Def(r)).bindings[p])
            ELSE box[r].bindings[p] # <<>>
    /\ box[r].publishAll => box[r].bindings = Empty

\* What was given by the last option of "reset" and by those of "add" after it.
Since(p, reset, add) ==
  LET its  == Asked(p, reset \cup add)
      last == SelectLastInSeq(its, LAMBDA o : o.opt \in reset)
      from == SubSeq(its, IF last = 0 THEN 1 ELSE last, Len(its))
  IN  FlattenSeq([i \in DOMAIN from |-> from[i].arg])

Strategies == [p \in Plans |-> Since(p, {"WithWaitStrategy"}, {"WithAdditionalWaitStrategy"})]
Words == [p \in Plans |-> Since(p, {"WithCmd"}, {"WithCmdArgs"})]

\* A call waits for every strategy given since the last option that replaces them all,
\* however deep the earlier ones are nested by now, and its container's command has
\* every word given since the last WithCmd unless the caller's modifier set another.
\* (options.go:340-436)
NothingForgotten ==
  \A r \in Runs : At(r, "PostStarts") =>
    /\ FlattenSeq([i \in DOMAIN Def(r).waits |-> Def(r).waits[i].list]) = Strategies[plan]
    /\ Def(r).config = <<>> => box[r].cmd = Words[plan]

\* What several options of one kind add up to comes out whole and in the order of the
\* options: the scripts the dispatcher runs, the strategies the call waits for, and the
\* words of the command.  (durable_startup.go:18-28, options.go:340-436)
OrderKept == ScriptsInOrder /\ NothingForgotten

=============================================================================
