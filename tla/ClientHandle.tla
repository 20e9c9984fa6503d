---------------------------- MODULE ClientHandle ----------------------------
(***************************************************************************)
(* How package client makes a client: the Docker host is resolved from the *)
(* options, the environment, the rootless socket and the current context   *)
(* (packages client and context), and the Engine there is pinged until it  *)
(* answers.  Meanwhile another program may change the current context and  *)
(* Engines come and go.                                                    *)
(***************************************************************************)
EXTENDS Naturals, FiniteSets

CONSTANTS Callers,        \* the goroutines
          Starts,         \* the situations to start in: the environment, the current
                          \* context, and what the Engine holds
          ClientOptions,  \* the options of callers that want a client
          Contexts,       \* the contexts of the store: a function to their hosts
          SocketHosts,    \* the hosts whose URL has a scheme that parseURL accepts
          MaxCalls,       \* bound: calls made altogether
          MaxFaults       \* bound: Engines that stop, and cancelled calls

Default == "default"
Error == "error"
DefaultHost == "unix:///var/run/docker.sock"
RootlessSocket == "unix:///run/user/docker.sock"
Hosts == SocketHosts \cup {"", Error} \cup {Contexts[c] : c \in DOMAIN Contexts}
           \cup {s.env.host : s \in Starts} \cup {o.host : o \in ClientOptions}

ASSUME HostsAssumption ==
  /\ {DefaultHost, RootlessSocket} \subseteq SocketHosts
  /\ Default \notin DOMAIN Contexts /\ Error \notin SocketHosts
  /\ MaxCalls \in Nat /\ MaxFaults \in Nat

\* A start has a current context that the store holds, the default one, or no config file.
ASSUME StartsAssumption ==
  \A s \in Starts : s.current \in DOMAIN Contexts \cup {"", "absent"}

VARIABLES
  env,      \* the environment variables, and whether the rootless socket exists
  current,  \* CurrentContext in config.json; "absent" when there is no such file
  up,       \* the hosts at which an Engine answers
  call,     \* the last or current call of each goroutine
  calls, faults

clientVars == <<env, current, up, call, calls, faults>>

Idle(g) == call[g].at = "idle"
At(g, place) == call[g].at = place
Step(g, r) == call' = [call EXCEPT ![g] = r]
Goto(r, place) == [r EXCEPT !.at = place]

NoOptions == [host |-> "", context |-> "", check |-> "default", api |-> FALSE]

\* "seen" is a ghost: the values of the current context during the call.
Begun(use, o, id) ==
  [use |-> use, at |-> "resolve", opts |-> o, id |-> id, host |-> "", context |-> "",
   tries |-> 0, answered |-> FALSE, seen |-> {current}, err |-> "none", found |-> "none"]

\* A call has returned.  Handles it made are for any later call to use.
Return(err) == [Begun("none", NoOptions, "none") EXCEPT !.at = "idle", !.err = err, !.seen = {}]

-----------------------------------------------------------------------------
(* The current context and its host.                                       *)

ParseURL(host) == IF host \in SocketHosts THEN host ELSE Error

\* Faulty: only a host in the environment tells which context is the current one.
ContextByHostOnly == IF env.host # "" THEN Default ELSE ""

ContextFromEnv == IF env.host # "" THEN Default ELSE env.context

\* Current.  A missing config file is an error: os.IsNotExist does not look into the
\* wrapped error that config.Load returns.
Current ==
  IF ContextFromEnv # "" THEN ContextFromEnv
  ELSE IF current = "absent" THEN Error
  ELSE IF current = "" THEN Default ELSE current

\* store.inspect, as far as the host goes; it loads the config for the current mark.
ContextHost(name) ==
  IF name \in DOMAIN Contexts /\ current # "absent" THEN Contexts[name] ELSE Error

\* The rootless socket comes first, whatever the environment says.
CurrentDockerHost ==
  IF env.rootless = "socket" THEN ParseURL(RootlessSocket)
  ELSE IF Current = Default
       THEN ParseURL(IF env.host # "" THEN env.host ELSE DefaultHost)
       ELSE ParseURL(ContextHost(Current))

\* config.validate
Validated(host) ==
  IF env.tls /\ env.cert # "dir" THEN Error ELSE IF host = "" THEN Error ELSE host

\* newConfig: the variables of the environment overwrite what was passed.
Config(host) == Validated(IF env.host # "" THEN env.host ELSE host)

-----------------------------------------------------------------------------
(* New.                                                                    *)

ClientInit ==
  /\ \E start \in Starts : env = start.env /\ current = start.current
  /\ up \in {{}, Hosts}
  /\ call = [g \in Callers |-> Return("none")]
  /\ calls = 0 /\ faults = 0

BeginNew(g, use, o, id) ==
  /\ Idle(g) /\ calls < MaxCalls
  /\ calls' = calls + 1
  /\ Step(g, Begun(use, o, id))
  /\ UNCHANGED <<env, current, up, faults>>

\* defaultValues.  With neither host nor context given, the current host is read first
\* and the name of the current context in a second step.  An option that refuses its
\* argument has ended the call before.
Resolve(g) ==
  /\ At(g, "resolve")
  /\ LET o == call[g].opts
         r == call[g]
         host == IF o.context # "" THEN ContextHost(o.context)
                 ELSE IF o.host # "" THEN o.host ELSE CurrentDockerHost
     IN  Step(g, IF o.check = "nil" THEN Return("option")
                 ELSE IF o.api THEN Goto(r, "ping")
                 ELSE IF host = Error THEN Return("host")
                 ELSE IF o.context # "" \/ o.host # ""
                      THEN [Goto(r, "build") EXCEPT !.host = host, !.context = o.context]
                      ELSE [Goto(r, "name") EXCEPT !.host = host])
  /\ UNCHANGED <<env, current, up, calls, faults>>

NameContext(g) ==
  /\ At(g, "name")
  /\ Step(g, IF Current = Error THEN Return("context")
             ELSE [Goto(call[g], "build") EXCEPT !.context = Current])
  /\ UNCHANGED <<env, current, up, calls, faults>>

\* The rest of init.  WithHost(cfg.Host) comes after the Docker options of the caller,
\* so that a host among those has no effect.  One of them may fail, or a certificate.
Build(g) ==
  /\ At(g, "build")
  /\ \/ Config(call[g].host) = Error /\ Step(g, Return("config"))
     \/ /\ Config(call[g].host) # Error
        /\ \/ Step(g, [Goto(call[g], "ping") EXCEPT !.host = Config(call[g].host)])
           \/ Step(g, Return("api"))
  /\ UNCHANGED <<env, current, up, calls, faults>>

\* The host that a client made of the options uses; a given API has its own.
Reached(r) == IF r.opts.api THEN DefaultHost ELSE r.host

\* The check of the options, or else a ping.  Also a ping whose context has ended fails.
Ping(g) ==
  /\ At(g, "ping")
  /\ LET r == call[g] IN
     IF r.opts.check = "own" THEN Step(g, Goto(r, "made"))
     ELSE IF Reached(r) \in up
          THEN Step(g, [Goto(r, "made") EXCEPT !.answered = TRUE])
          ELSE Step(g, [Goto(r, "pause") EXCEPT !.tries = @ + 1])
  /\ UNCHANGED <<env, current, up, calls, faults>>

\* Faulty: one ping too many.
WakeOnceMore(g) ==
  /\ At(g, "pause")
  /\ Step(g, IF call[g].tries <= 3 THEN Goto(call[g], "ping") ELSE Return("notready"))
  /\ UNCHANGED <<env, current, up, calls, faults>>

\* The pause between two pings ends.  There is one after the third as well.
Wake(g) ==
  /\ At(g, "pause")
  /\ Step(g, IF call[g].tries < 3 THEN Goto(call[g], "ping") ELSE Return("notready"))
  /\ UNCHANGED <<env, current, up, calls, faults>>

\* The context of the call ends it during a pause.
Cancelled(g) ==
  /\ At(g, "pause")
  /\ faults < MaxFaults
  /\ faults' = faults + 1
  /\ Step(g, Return("cancelled"))
  /\ UNCHANGED <<env, current, up, calls>>

\* New returns the client to a caller who wanted nothing else.
Made(g) ==
  /\ At(g, "made")
  /\ call[g].use = "client"
  /\ Step(g, Return("none"))
  /\ UNCHANGED <<env, current, up, calls, faults>>

-----------------------------------------------------------------------------
(* The world around.                                                       *)

\* Another program makes another context the current one.
UseContext(name) ==
  /\ name # current /\ faults < MaxFaults
  /\ current' = name
  /\ faults' = faults + 1
  /\ call' = [g \in Callers |-> IF Idle(g) THEN call[g] ELSE [call[g] EXCEPT !.seen = @ \cup {name}]]
  /\ UNCHANGED <<env, up, calls>>

EnginesStart == up = {} /\ up' = Hosts /\ UNCHANGED <<env, current, call, calls, faults>>

EnginesStop ==
  /\ up # {} /\ faults < MaxFaults
  /\ up' = {}
  /\ faults' = faults + 1
  /\ UNCHANGED <<env, current, call, calls>>

ClientStep(g) ==
  \/ \E o \in ClientOptions : BeginNew(g, "client", o, "none")
  \/ Resolve(g) \/ NameContext(g) \/ Build(g) \/ Ping(g) \/ Wake(g) \/ Cancelled(g) \/ Made(g)

World ==
  \/ \E name \in DOMAIN Contexts \cup {""} : UseContext(name)
  \/ EnginesStart \/ EnginesStop

-----------------------------------------------------------------------------
(* Properties.                                                             *)

ClientTypeOK ==
  /\ env \in {s.env : s \in Starts}
  /\ current \in DOMAIN Contexts \cup {"", "absent"}
  /\ up \in {{}, Hosts}
  /\ \A g \in Callers :
       /\ call[g].tries \in 0..3
       /\ call[g].host \in Hosts \ {Error}
       /\ At(g, "pause") => call[g].tries > 0
  /\ calls \in 0..MaxCalls /\ faults \in 0..MaxFaults

\* What the options say of the host: a context goes before a host.
Given(o) == IF o.context # "" THEN Contexts[o.context] ELSE o.host

\* The hosts that a client can rightly use.  Of those given and DOCKER_HOST the
\* documentation and the code choose differently, see HostAsGiven; with nothing given it
\* is the host of the first place which says anything, where the current context may be
\* any there was during the call.
ExpectedHosts(r) ==
  IF r.opts.context # "" \/ r.opts.host # ""
    THEN {Given(r.opts)} \cup ({env.host} \ {""})
  ELSE IF env.host # "" THEN {env.host}
  ELSE IF env.rootless = "socket" THEN {RootlessSocket}
  ELSE IF env.context = Default THEN {DefaultHost}
  ELSE IF env.context # "" THEN {Contexts[env.context]}
  ELSE {IF c = "" THEN DefaultHost ELSE Contexts[c] : c \in r.seen \ {"absent"}}

\* New gives a client out only when the Engine has answered it in this call, unless the
\* caller brought a check of its own.  The client of a caller that gave neither host nor
\* context talks to the host of the first place that names one: DOCKER_HOST, the rootless
\* socket, DOCKER_CONTEXT, the config's current context, the default; any other to the
\* one given, or to DOCKER_HOST, and to no third one (client.go:55-86, 147-183,
\* config.go:30-44, context/current.go:38-77).
ReadyClient ==
  \A g \in Callers : At(g, "made") =>
    /\ call[g].answered \/ call[g].opts.check = "own"
    /\ ~call[g].opts.api => call[g].host \in ExpectedHosts(call[g])

\* A given host, or that of a given context, is used as it is (client.go:147-151,
\* options.go:62-66; not so when DOCKER_HOST is set, config.go:31-37).
HostAsGiven ==
  \A g \in Callers :
    LET o == call[g].opts IN
    At(g, "made") /\ ~o.api /\ (o.context # "" \/ o.host # "") => call[g].host = Given(o)

=============================================================================
