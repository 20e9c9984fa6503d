----------------------------- MODULE RunOptions -----------------------------
(***************************************************************************)
(* The options of Run, each a function from a definition to a definition   *)
(* (package container, options.go), the validation that follows them, and  *)
(* what the pre-create hook makes of the result.                           *)
(*                                                                         *)
(* An option is a record: "opt" names it and "arg" is what it was given.   *)
(* A modifier, a function of the caller, is a record of what it sets.      *)
(***************************************************************************)
EXTENDS DurableStartup

NoES == [id |-> "none", aliases |-> <<>>]     \* a nil *EndpointSettings
Over(f, g) == [x \in DOMAIN f \cup DOMAIN g |-> IF x \in DOMAIN g THEN g[x] ELSE f[x]]
With(f, x, y) == [z \in DOMAIN f \cup {x} |-> IF z = x THEN y ELSE f[z]]
Empty == [x \in {} |-> <<>>]

\* The definition that Run starts from.  waits is nil when empty; otherwise each
\* element is a MultiStrategy around the ones before it.
Blank ==
  [image |-> "", name |-> "", started |-> TRUE, cmd |-> <<>>, entrypoint |-> <<>>,
   env |-> Empty, labels |-> Empty, ports |-> <<>>, files |-> <<>>,
   networks |-> <<>>, aliases |-> Empty,
   config |-> <<>>, host |-> <<>>, endpoints |-> <<>>,
   hooks |-> <<>>, waits |-> <<>>, checks |-> <<"image", "mounts">>]

-----------------------------------------------------------------------------
(* The options.                                                            *)

\* WithName and its neighbours overwrite one field; WithName wants a name.
SetField(d, o) ==
  CASE o.opt = "WithName"    -> [d EXCEPT !.name = o.arg]
    [] o.opt = "WithNoStart" -> [d EXCEPT !.started = FALSE]
    [] o.opt = "WithImage"   -> [d EXCEPT !.image = o.arg]

ModifyConfig(d, o) ==
  CASE o.opt = "WithConfigModifier"           -> [d EXCEPT !.config = <<o.arg>>]
    [] o.opt = "WithAdditionalConfigModifier" -> [d EXCEPT !.config = Append(@, o.arg)]

ModifyHostConfig(d, o) ==
  CASE o.opt = "WithHostConfigModifier"           -> [d EXCEPT !.host = <<o.arg>>]
    [] o.opt = "WithAdditionalHostConfigModifier" -> [d EXCEPT !.host = Append(@, o.arg)]

ModifyEndpoints(d, o) ==
  CASE o.opt = "WithEndpointSettingsModifier" -> [d EXCEPT !.endpoints = <<o.arg>>]
    [] o.opt = "WithAdditionalEndpointSettingsModifier" -> [d EXCEPT !.endpoints = Append(@, o.arg)]

MergeVars(d, o) ==
  CASE o.opt = "WithEnv"    -> [d EXCEPT !.env = Over(@, o.arg)]
    [] o.opt = "WithLabels" -> [d EXCEPT !.labels = Over(@, o.arg)]

\* WithNetworkName, also what is left of WithNewNetwork once the network exists.
JoinNetwork(d, n, aliases) ==
  [d EXCEPT !.networks = Append(@, n), !.aliases = With(@, n, aliases)]

JoinBridge(d) == [d EXCEPT !.networks = Append(@, "bridge")]

ArgvOptions == {"WithEntrypoint", "WithEntrypointArgs", "WithExposedPorts", "WithCmd", "WithCmdArgs"}
DurableOptions == {"WithDurableStartupCommand", "WithDurableStartupCommandsFromDir"}

OptionNames ==
  {"WithName", "WithNoStart", "WithImage", "WithConfigModifier", "WithAdditionalConfigModifier",
   "WithHostConfigModifier", "WithAdditionalHostConfigModifier", "WithEndpointSettingsModifier",
   "WithAdditionalEndpointSettingsModifier", "WithEnv", "WithLabels", "WithNetworkName",
   "WithNewNetwork", "WithBridgeNetwork", "WithStartupCommand", "WithAfterReadyCommand",
   "WithLifecycleHooks", "WithAdditionalLifecycleHooks", "WithWaitStrategy",
   "WithAdditionalWaitStrategy", "WithFiles", "WithValidateFuncs"} \cup ArgvOptions \cup DurableOptions

SetArgv(d, o) ==
  CASE o.opt = "WithEntrypoint"     -> [d EXCEPT !.entrypoint = o.arg]
    [] o.opt = "WithEntrypointArgs" -> [d EXCEPT !.entrypoint = @ \o o.arg]
    [] o.opt = "WithExposedPorts"   -> [d EXCEPT !.ports = @ \o o.arg]
    [] o.opt = "WithCmd"            -> [d EXCEPT !.cmd = o.arg]
    [] o.opt = "WithCmdArgs"        -> [d EXCEPT !.cmd = @ \o o.arg]

\* The commands become hooks of one phase, in their order.
AddCommands(d, o) ==
  [d EXCEPT !.hooks = Append(@, [phase |-> IF o.opt = "WithStartupCommand"
                                           THEN "PostStarts" ELSE "PostReadies",
                                 cmds  |-> o.arg])]

SetHooks(d, o) ==
  CASE o.opt = "WithLifecycleHooks"           -> [d EXCEPT !.hooks = o.arg]
    [] o.opt = "WithAdditionalLifecycleHooks" -> [d EXCEPT !.hooks = @ \o o.arg]

\* Faulty: what was waited for before is forgotten.
WaitForLast(d, o) == [d EXCEPT !.waits = <<[deadline |-> o.deadline, list |-> o.arg]>>]

\* A further strategy is put next to the one there is, inside a new MultiStrategy.
WaitFor(d, o) ==
  LET more == [deadline |-> o.deadline, list |-> o.arg]
  IN  CASE o.opt = "WithWaitStrategy"           -> [d EXCEPT !.waits = <<more>>]
        [] o.opt = "WithAdditionalWaitStrategy" -> [d EXCEPT !.waits = Append(@, more)]

AddFiles(d, o) == [d EXCEPT !.files = @ \o o.arg]

SetChecks(d, o) == [d EXCEPT !.checks = o.arg]

AddScripts(d, o) == [d EXCEPT !.files = WithScripts(@, o.ns, o.arg)]

\* The options that return an error and leave the definition as it is.
Refused(o) ==
  \/ o.opt = "WithName" /\ o.arg = ""
  \/ o.opt = "WithNetworkName" /\ o.net = "bridge"
  \/ o.opt = "WithValidateFuncs" /\ (o.arg = <<>> \/ \E i \in DOMAIN o.arg : o.arg[i] = "nil")
  \/ o.opt = "WithDurableStartupCommand" /\ ~Accepts(o.ns, o.arg)
  \/ o.opt = "WithDurableStartupCommandsFromDir"
       /\ (o.ns = Default \/ ~Accepts(o.ns, o.arg))

\* An option that needs nothing but the definition.
Customize(d, o) ==
  CASE o.opt \in {"WithName", "WithNoStart", "WithImage"} -> SetField(d, o)
    [] o.opt \in {"WithConfigModifier", "WithAdditionalConfigModifier"} -> ModifyConfig(d, o)
    [] o.opt \in {"WithHostConfigModifier", "WithAdditionalHostConfigModifier"} -> ModifyHostConfig(d, o)
    [] o.opt \in {"WithEndpointSettingsModifier", "WithAdditionalEndpointSettingsModifier"} ->
         ModifyEndpoints(d, o)
    [] o.opt \in {"WithEnv", "WithLabels"} -> MergeVars(d, o)
    [] o.opt = "WithNetworkName" -> JoinNetwork(d, o.net, o.arg)
    [] o.opt = "WithBridgeNetwork" -> JoinBridge(d)
    [] o.opt \in ArgvOptions -> SetArgv(d, o)
    [] o.opt \in {"WithStartupCommand", "WithAfterReadyCommand"} -> AddCommands(d, o)
    [] o.opt \in {"WithLifecycleHooks", "WithAdditionalLifecycleHooks"} -> SetHooks(d, o)
    [] o.opt \in {"WithWaitStrategy", "WithAdditionalWaitStrategy"} -> WaitFor(d, o)
    [] o.opt = "WithFiles" -> AddFiles(d, o)
    [] o.opt = "WithValidateFuncs" -> SetChecks(d, o)
    [] o.opt \in DurableOptions -> AddScripts(d, o)

-----------------------------------------------------------------------------
(* The modifiers, applied in order.                                        *)

BlankHost == [mode |-> "", bindings |-> Empty, binds |-> <<>>]

HostConfig(d) ==
  FoldLeft(LAMBDA h, m : [mode     |-> IF m.mode = "" THEN h.mode ELSE m.mode,
                          bindings |-> Over(h.bindings, m.bindings),
                          binds    |-> h.binds \o m.binds],
           BlankHost, d.host)

\* The container's config: its command and environment as the options left them and
\* then as the modifiers set them.
Config(d) ==
  FoldLeft(LAMBDA c, m : [cmd |-> IF m.cmd = <<>> THEN c.cmd ELSE m.cmd,
                          env |-> Over(c.env, m.env)],
           [cmd |-> d.cmd, env |-> d.env], d.config)

\* What the caller's modifier does to the settings of the networks.
Modified(settings, m) ==
  [n \in (DOMAIN settings \ m.drop) \cup DOMAIN m.set |->
     IF n \in DOMAIN m.set
     THEN [id |-> IF n \in DOMAIN settings THEN settings[n].id ELSE "", aliases |-> m.set[n]]
     ELSE IF n \in m.null THEN NoES ELSE settings[n]]

\* mergo.Merge with override: what the original says wins, what it leaves empty stays.
Merged(current, original) ==
  [id      |-> IF original.id = "" THEN current.id ELSE original.id,
   aliases |-> IF original.aliases = <<>> THEN current.aliases ELSE original.aliases]

\* Faulty: networks that the addition dropped are not put back.
KeptOnly(original, current) ==
  [n \in DOMAIN current |->
     IF n \notin DOMAIN original THEN current[n]
     ELSE IF current[n] = NoES THEN original[n] ELSE Merged(current[n], original[n])]

\* Additions shall not delete.
Restored(original, current) ==
  [n \in DOMAIN original \cup DOMAIN current |->
     IF n \notin DOMAIN original THEN current[n]
     ELSE IF n \notin DOMAIN current \/ current[n] = NoES THEN original[n]
     ELSE Merged(current[n], original[n])]

\* The first modifier works on the settings as they are, each addition is watched.
Endpoints(d, settings) ==
  LET after[k \in 0..Len(d.endpoints)] ==
        IF k = 0 THEN settings
        ELSE LET now == Modified(after[k - 1], d.endpoints[k])
             IN  IF k = 1 THEN now ELSE Restored(after[k - 1], now)
  IN  after[Len(d.endpoints)]

-----------------------------------------------------------------------------
(* Validation and ports.                                                   *)

Targets(d) == [i \in DOMAIN HostConfig(d).binds |-> HostConfig(d).binds[i].target]

\* validateMounts runs the host config modifier on a config of its own.
MountsValid(d) ==
  /\ \A i \in DOMAIN HostConfig(d).binds : HostConfig(d).binds[i].parts \in {2, 3}
  /\ IsInjective(Targets(d))

Valid(d) ==
  \A i \in DOMAIN d.checks :
    /\ d.checks[i] = "image" => d.image # ""
    /\ d.checks[i] = "mounts" => MountsValid(d)
    /\ d.checks[i] # "fails"

Parses(specs) == \A i \in DOMAIN specs : specs[i].port # "bad"

\* nat.ParsePortSpecs: every port with the bindings of its specs, "" for none.
Exposed(specs) ==
  LET after[k \in 0..Len(specs)] ==
        IF k = 0 THEN Empty
        ELSE LET port  == specs[k].port
                 hosts == IF port \in DOMAIN after[k - 1] THEN after[k - 1][port] ELSE <<>>
             IN  With(after[k - 1], port, Append(hosts, specs[k].host))
  IN  after[Len(specs)]

Allocated(hosts) == [i \in DOMAIN hosts |-> IF hosts[i] = "" THEN "0" ELSE hosts[i]]

\* Faulty: only the bindings of the host config get a port of the Engine's choice.
MergeUnallocated(config, exposed, specs) ==
  [p \in DOMAIN exposed |->
     IF p \in DOMAIN config /\ \E i \in DOMAIN specs : specs[i] = [port |-> p, host |-> ""]
     THEN Allocated(config[p]) ELSE exposed[p]]

\* mergePortBindings.  A spec with a host part does not parse as a port there, so that
\* the host config has no say over it.
MergePortBindings(config, exposed, specs) ==
  [p \in DOMAIN exposed |->
     Allocated(IF p \in DOMAIN config /\ \E i \in DOMAIN specs : specs[i] = [port |-> p, host |-> ""]
               THEN config[p] ELSE exposed[p])]

PublishAll(d) == d.ports = <<>> /\ HostConfig(d).mode # "container"

Bindings(d) ==
  IF PublishAll(d) THEN Exposed(d.ports)
  ELSE MergePortBindings(HostConfig(d).bindings, Exposed(d.ports), d.ports)

=============================================================================
