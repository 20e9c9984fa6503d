-------------------------- MODULE Resources_proofs --------------------------
(***************************************************************************)
(* Proofs about clients, networks and volumes, for any number of callers,  *)
(* contexts, hosts, options, networks, volumes, calls and faults.          *)
(***************************************************************************)
EXTENDS Resources, TLAPS

\* What a call is made of.
Places == {"idle", "resolve", "name", "build", "ping", "pause", "made", "hit", "ask", "keep",
           "remove", "removal"}
Errs == {"none", "option", "host", "context", "config", "api", "notready", "cancelled",
         "conflict", "notfound", "inprogress"}
Uses == {"none", "client", "network", "volume", "find", "inspect"} \cup Removals
Labels == NetworkNames \cup VolumeNames
Things == [name : Labels, used : BOOLEAN]
Choices == ClientOptions \cup {NoOptions}
ContextNames ==
  DOMAIN Contexts \cup {"", Default, Error} \cup {s.env.context : s \in Starts}
    \cup {o.context : o \in ClientOptions}
Marks == DOMAIN Contexts \cup {"", "absent"}

Calls == [use : Uses, at : Places, opts : Choices, id : NetworkIds \cup VolumeNames \cup {None},
          host : Hosts \ {Error}, context : ContextNames, tries : 0..3, answered : BOOLEAN,
          seen : SUBSET Marks, err : Errs, found : Labels \cup {None}]

\* How far the pings have come.
Pinged(r) ==
  /\ r.at \in {"resolve", "name", "build"} => r.tries = 0
  /\ r.at = "ping" => r.tries < 3
  /\ r.at = "pause" => r.tries > 0
  /\ r.at = "made" => r.answered \/ r.opts.check = "own"

\* The host is the right one from the moment it is resolved, unless the environment is still
\* to overwrite it.
Resolved(r) ==
  /\ r.at # "idle" => current \in r.seen
  /\ r.at \in {"name", "build"} => ~r.opts.api /\ (env.host = "" => r.host \in ExpectedHosts(r))
  /\ r.at \in {"ping", "pause", "made"} => r.opts.api \/ r.host \in ExpectedHosts(r)

\* A call without a client is at a place of its use, and what is to be kept of an inspection
\* names the network, as long as that is there.
Used(r) ==
  /\ r.at \in {"hit", "ask", "keep"} => r.use = "inspect" /\ r.id \in made
  /\ r.at \in {"remove", "removal"} => r.use \in Removals
  /\ r.use = "inspect" => r.at \in {"hit", "ask", "keep"}
  /\ r.at = "keep" /\ r.id \in DOMAIN store => r.found = store[r.id].name
  /\ r.at = "removal" => r.id \in removing

CallInv(r) == Pinged(r) /\ Resolved(r) /\ Used(r)

\* No two calls remove the same thing at once.
Alone ==
  \A g, h \in Callers :
    g # h /\ At(g, "removal") /\ At(h, "removal") => call[g].id # call[h].id

\* What the Engine holds, and what handles remember of it.
Held ==
  /\ made \subseteq NetworkIds
  /\ DOMAIN store \subseteq Handles
  /\ store \in [DOMAIN store -> Things]
  /\ removing \subseteq DOMAIN store
  /\ cached \in [NetworkIds -> Labels \cup {None}]
  /\ \A i \in NetworkIds :
       cached[i] # None => i \in made /\ (i \in DOMAIN store => cached[i] = store[i].name)

\* The world outside and the bounds.
Around ==
  /\ env \in {s.env : s \in Starts}
  /\ current \in Marks
  /\ up \in {{}, Hosts}
  /\ calls \in 0..MaxCalls /\ faults \in 0..MaxFaults

ResourcesInv ==
  /\ Around /\ Held /\ Alone
  /\ call \in [Callers -> Calls]
  /\ \A g \in Callers : CallInv(call[g])

-----------------------------------------------------------------------------
(* What a step makes of a call.                                            *)

\* A call that makes a client begins by resolving the host.
LEMMA BeginningNew ==
  ASSUME NEW use \in Uses, NEW o \in Choices, NEW id \in NetworkIds \cup VolumeNames \cup {None},
         current \in Marks
  PROVE  LET f == Begun(use, o, id) IN
         /\ f \in Calls /\ f.at = "resolve" /\ f.use = use /\ f.opts = o /\ f.id = id
         /\ f.tries = 0 /\ ~f.answered /\ f.seen = {current} /\ f.err = "none"
<1>1. "" \in Hosts \ {Error} /\ "" \in ContextNames
  BY DEF Hosts, Error, ContextNames
<1>2. /\ 0 \in 0..3 /\ "none" \in Errs /\ {current} \in SUBSET Marks /\ "none" = None
      /\ "resolve" \in Places
  BY DEF Errs, None, Places
<1>3. QED
  BY <1>1, <1>2 DEF Begun, Calls

\* A call of a caller that has a client begins at its own place.
LEMMA Beginning ==
  ASSUME NEW use \in Uses, NEW o \in Choices, NEW id \in NetworkIds \cup VolumeNames \cup {None},
         NEW place \in Places, current \in Marks
  PROVE  LET f == [Begun(use, o, id) EXCEPT !.at = place] IN
         /\ f \in Calls /\ f.at = place /\ f.use = use /\ f.opts = o /\ f.id = id
         /\ f.tries = 0 /\ ~f.answered /\ f.seen = {current} /\ f.err = "none"
<1> DEFINE b == Begun(use, o, id)
<1>1. /\ b \in Calls /\ b.use = use /\ b.opts = o /\ b.id = id
      /\ b.tries = 0 /\ ~b.answered /\ b.seen = {current} /\ b.err = "none"
  BY BeginningNew
<1> HIDE DEF b
<1>2. LET f == [b EXCEPT !.at = place] IN
      /\ f \in Calls /\ f.at = place /\ f.use = use /\ f.opts = o /\ f.id = id
      /\ f.tries = 0 /\ ~f.answered /\ f.seen = {current} /\ f.err = "none"
  BY <1>1 DEF Calls
<1>3. QED
  BY <1>2 DEF b

\* A call returns, and with it what it has worked on.
LEMMA Returning ==
  ASSUME NEW err \in Errs, current \in Marks
  PROVE  LET f == Return(err) IN
         /\ f \in Calls /\ f.at = "idle" /\ f.err = err /\ f.use = "none"
<1> DEFINE b == Begun("none", NoOptions, "none")
<1>1. "none" \in Uses /\ NoOptions \in Choices /\ "none" = None
  BY DEF Uses, Choices, None
<1>2. b \in Calls /\ b.use = "none"
  BY <1>1, BeginningNew
<1>3. "idle" \in Places
  BY DEF Places
<1> HIDE DEF b
<1>4. LET f == [b EXCEPT !.at = "idle", !.err = err, !.seen = {}] IN
      /\ f \in Calls /\ f.at = "idle" /\ f.err = err /\ f.use = "none"
  BY <1>2, <1>3 DEF Calls
<1>5. Return(err) = [b EXCEPT !.at = "idle", !.err = err, !.seen = {}]
  BY DEF Return, b
<1>6. QED
  BY <1>4, <1>5

\* A call goes to another place.
LEMMA GoingTo ==
  ASSUME NEW r \in Calls, NEW place \in Places
  PROVE  LET f == Goto(r, place) IN
         /\ f \in Calls /\ f.at = place
         /\ f.use = r.use /\ f.opts = r.opts /\ f.id = r.id /\ f.host = r.host
         /\ f.context = r.context /\ f.tries = r.tries /\ f.answered = r.answered
         /\ f.seen = r.seen /\ f.err = r.err /\ f.found = r.found
BY DEF Goto, Calls

\* A returned call has nothing left to hold.
LEMMA Returned ==
  ASSUME NEW r \in Calls, r.at = "idle", r.use = "none"
  PROVE  CallInv(r)
BY DEF CallInv, Pinged, Resolved, Used

\* The hosts that are right stay right when the current context changes.
LEMMA ExpectedGrows ==
  ASSUME NEW r, NEW s, r.opts = s.opts, r.seen \subseteq s.seen
  PROVE  ExpectedHosts(r) \subseteq ExpectedHosts(s)
BY DEF ExpectedHosts, Given

-----------------------------------------------------------------------------
(* A step of one call.                                                     *)

\* A step that leaves the Engine's things and the world alone keeps everything, if it keeps the
\* invariant of its call and begins no removal.
LEMMA CallMoves ==
  ASSUME ResourcesInv, NEW g \in Callers, NEW r \in Calls, Step(g, r),
         CallInv(r), r.at # "removal",
         calls' \in 0..MaxCalls, faults' \in 0..MaxFaults,
         UNCHANGED <<env, current, up, resources>>
  PROVE  ResourcesInv'
<1>1. UNCHANGED <<env, current, up, store, made, removing, cached>>
  BY DEF resources
<1>2. /\ call' \in [Callers -> Calls] /\ call'[g] = r
      /\ \A h \in Callers \ {g} : call'[h] = call[h]
  BY DEF ResourcesInv, Step
<1>3. Around' /\ Held'
  BY <1>1 DEF ResourcesInv, Around, Held, Handles
<1>4. Alone'
  BY <1>2 DEF ResourcesInv, Alone, At
<1>5. ASSUME NEW h \in Callers
      PROVE  CallInv(call[h])'
  <2>1. CallInv(call'[h])
    BY <1>2 DEF ResourcesInv
  <2>2. CallInv(call[h])' <=> CallInv(call'[h])
    BY <1>1 DEF CallInv, Pinged, Resolved, Used, ExpectedHosts, Given
  <2>3. QED
    BY <2>1, <2>2
<1>6. QED
  BY <1>2, <1>3, <1>4, <1>5 DEF ResourcesInv

\* What the calls share with each step: types of the world, the moving call's record.
LEMMA Facts ==
  ASSUME ResourcesInv, NEW g \in Callers
  PROVE  /\ call[g] \in Calls /\ CallInv(call[g]) /\ current \in Marks
         /\ env \in {s.env : s \in Starts}
         /\ calls \in 0..MaxCalls /\ faults \in 0..MaxFaults
BY DEF ResourcesInv, Around

\* A call that returns at once, with an error or without.
LEMMA ReturnKeeps ==
  ASSUME ResourcesInv, NEW g \in Callers, NEW err \in Errs, Step(g, Return(err)),
         calls' \in 0..MaxCalls, faults' \in 0..MaxFaults,
         UNCHANGED <<env, current, up, resources>>
  PROVE  ResourcesInv'
<1> DEFINE r == Return(err)
<1>1. r \in Calls /\ r.at = "idle" /\ r.use = "none"
  BY Facts, Returning
<1> HIDE DEF r
<1>2. CallInv(r) /\ r.at # "removal"
  BY <1>1, Returned
<1>3. QED
  BY <1>1, <1>2, CallMoves DEF r

-----------------------------------------------------------------------------
(* New makes a client.                                                     *)

\* The beginning of a call that needs a client.
LEMMA BeginNewKeeps ==
  ASSUME ResourcesInv, NEW g \in Callers, NEW use \in Uses \ {"inspect"}, NEW o \in Choices,
         NEW id \in NetworkIds \cup VolumeNames \cup {None},
         BeginNew(g, use, o, id), UNCHANGED resources
  PROVE  ResourcesInv'
<1> DEFINE r == Begun(use, o, id)
<1>1. /\ Step(g, r) /\ calls < MaxCalls /\ calls' = calls + 1
      /\ UNCHANGED <<env, current, up, faults>>
  BY DEF BeginNew
<1>2. calls' \in 0..MaxCalls /\ faults' \in 0..MaxFaults
  BY <1>1, Facts, HostsAssumption
<1>3. /\ r \in Calls /\ r.at = "resolve" /\ r.use = use /\ r.tries = 0 /\ r.seen = {current}
  BY Facts, BeginningNew
<1> HIDE DEF r
<1>4. CallInv(r)
  BY <1>3 DEF CallInv, Pinged, Resolved, Used
<1>5. QED
  BY <1>1, <1>2, <1>3, <1>4, CallMoves

\* The place a call that wants a client goes to is one where it still has none, or has it.
LEMMA ClientMoves ==
  ASSUME ResourcesInv, NEW g \in Callers, NEW r \in Calls, Step(g, r),
         r.use = call[g].use, call[g].at \in {"resolve", "name", "build", "ping", "pause"},
         r.at \in {"name", "build", "ping", "pause", "made"},
         Pinged(r), Resolved(r),
         UNCHANGED <<env, current, up, calls, faults, resources>>
  PROVE  ResourcesInv'
<1>1. Used(r)
  BY Facts DEF CallInv, Used
<1>2. calls' \in 0..MaxCalls /\ faults' \in 0..MaxFaults
  BY Facts
<1>3. QED
  BY <1>1, <1>2, CallMoves DEF CallInv

\* The places that a host may come from are known.
LEMMA KnownHosts ==
  /\ env \in {s.env : s \in Starts} => env.host \in Hosts
  /\ \A c \in DOMAIN Contexts : Contexts[c] \in Hosts
  /\ \A o \in Choices : o.host \in Hosts
  /\ SocketHosts \subseteq Hosts /\ Error \notin SocketHosts /\ DefaultHost \in SocketHosts
  /\ RootlessSocket \in SocketHosts
<1>1. "" \in Hosts
  BY DEF Hosts
<1>2. env \in {s.env : s \in Starts} => env.host \in Hosts
  BY DEF Hosts
<1>3. \A c \in DOMAIN Contexts : Contexts[c] \in Hosts
  BY DEF Hosts
<1>4. \A o \in Choices : o.host \in Hosts
  <2>1. \A o \in ClientOptions : o.host \in Hosts
    BY DEF Hosts
  <2>2. NoOptions.host = ""
    BY DEF NoOptions
  <2>3. QED
    BY <1>1, <2>1, <2>2 DEF Choices
<1>5. SocketHosts \subseteq Hosts
  BY DEF Hosts
<1>6. QED
  BY <1>2, <1>3, <1>4, <1>5, HostsAssumption

\* The host of the current context is the one of a context that was current, as long as the
\* environment says nothing else.
LEMMA CurrentIsExpected ==
  ASSUME NEW r \in Calls, r.opts.context = "", r.opts.host = "",
         current \in Marks, current \in r.seen, CurrentDockerHost # Error,
         env \in {s.env : s \in Starts}
  PROVE  /\ CurrentDockerHost \in Hosts
         /\ env.host = "" => CurrentDockerHost \in ExpectedHosts(r)
<1>1. \A h : ParseURL(h) # Error => ParseURL(h) = h /\ h \in SocketHosts
  BY DEF ParseURL
<1>2. CASE env.rootless = "socket"
  <2>1. CurrentDockerHost = RootlessSocket
    BY <1>2, KnownHosts DEF CurrentDockerHost, ParseURL
  <2>2. QED
    BY <1>2, <2>1, KnownHosts DEF ExpectedHosts, Given
<1>3. CASE env.rootless # "socket" /\ Current = Default
  <2>1. CurrentDockerHost = IF env.host # "" THEN env.host ELSE DefaultHost
    BY <1>3 DEF CurrentDockerHost, ParseURL
  <2>2. CurrentDockerHost \in Hosts
    BY <2>1, KnownHosts
  <2>3. ASSUME env.host = ""
        PROVE  DefaultHost \in ExpectedHosts(r)
    <3>1. CASE env.context # ""
      BY <1>3, <2>3, <3>1 DEF ExpectedHosts, Given, Current, ContextFromEnv
    <3>2. CASE env.context = ""
      <4>1. current = ""
        BY <1>3, <2>3, <3>2, HostsAssumption DEF Current, ContextFromEnv, Marks, Default, Error
      <4>2. "" \in r.seen \ {"absent"}
        BY <4>1
      <4>3. ExpectedHosts(r) =
              {IF c = "" THEN DefaultHost ELSE Contexts[c] : c \in r.seen \ {"absent"}}
        BY <1>3, <2>3, <3>2 DEF ExpectedHosts, Given, Default
      <4>4. QED
        BY <4>2, <4>3
    <3>3. QED
      BY <3>1, <3>2
  <2>4. QED
    BY <2>1, <2>2, <2>3
<1>4. CASE env.rootless # "socket" /\ Current # Default
  <2>1. CurrentDockerHost = ContextHost(Current) /\ ContextHost(Current) # Error
    BY <1>1, <1>4 DEF CurrentDockerHost
  <2>2. /\ Current \in DOMAIN Contexts /\ current # "absent"
        /\ CurrentDockerHost = Contexts[Current]
    BY <2>1 DEF ContextHost
  <2>3. ASSUME env.host = ""
        PROVE  CurrentDockerHost \in ExpectedHosts(r)
    <3>1. CASE env.context # ""
      <4>1. Current = env.context
        BY <2>3, <3>1 DEF Current, ContextFromEnv
      <4>2. ExpectedHosts(r) = {Contexts[env.context]}
        BY <1>4, <2>3, <3>1, <4>1 DEF ExpectedHosts, Given
      <4>3. QED
        BY <2>2, <4>1, <4>2
    <3>2. CASE env.context = ""
      <4>1. Current = current /\ current # ""
        BY <1>4, <2>2, <2>3, <3>2 DEF Current, ContextFromEnv
      <4>2. ExpectedHosts(r) =
              {IF c = "" THEN DefaultHost ELSE Contexts[c] : c \in r.seen \ {"absent"}}
        BY <1>4, <2>3, <3>2 DEF ExpectedHosts, Given, Default
      <4>3. QED
        BY <2>2, <4>1, <4>2
    <3>3. QED
      BY <3>1, <3>2
  <2>4. QED
    BY <2>2, <2>3, KnownHosts
<1>5. QED
  BY <1>2, <1>3, <1>4

\* defaultValues: the host of the options, or the current one.
LEMMA ResolveKeeps ==
  ASSUME ResourcesInv, NEW g \in Callers, Resolve(g), UNCHANGED resources
  PROVE  ResourcesInv'
<1> DEFINE q == call[g]
           o == q.opts
           host == IF o.context # "" THEN ContextHost(o.context)
                   ELSE IF o.host # "" THEN o.host ELSE CurrentDockerHost
<1>1. /\ q.at = "resolve" /\ UNCHANGED <<env, current, up, calls, faults, resources>>
      /\ q \in Calls /\ CallInv(q) /\ current \in Marks /\ env \in {s.env : s \in Starts}
      /\ calls' \in 0..MaxCalls /\ faults' \in 0..MaxFaults
  BY Facts DEF Resolve, At
<1>2. o \in Choices /\ q.tries = 0 /\ current \in q.seen
  BY <1>1 DEF Calls, CallInv, Pinged, Resolved
<1>3. Step(g, IF o.check = "nil" THEN Return("option")
              ELSE IF o.api THEN Goto(q, "ping")
              ELSE IF host = Error THEN Return("host")
              ELSE IF o.context # "" \/ o.host # ""
                   THEN [Goto(q, "build") EXCEPT !.host = host, !.context = o.context]
                   ELSE [Goto(q, "name") EXCEPT !.host = host])
  BY DEF Resolve
<1>4. {"build", "name", "ping"} \subseteq Places /\ {"option", "host"} \subseteq Errs
  BY DEF Places, Errs
<1>5. host # Error =>
        /\ host \in Hosts
        /\ env.host = "" => host \in ExpectedHosts(q)
  <2>1. CASE o.context # ""
    <3>1. host # Error => o.context \in DOMAIN Contexts /\ host = Contexts[o.context]
      BY <2>1 DEF ContextHost
    <3>2. QED
      BY <2>1, <3>1, KnownHosts DEF ExpectedHosts, Given
  <2>2. CASE o.context = "" /\ o.host # ""
    BY <1>2, <2>2, KnownHosts DEF ExpectedHosts, Given
  <2>3. CASE o.context = "" /\ o.host = ""
    BY <1>1, <1>2, <2>3, CurrentIsExpected
  <2>4. QED
    BY <2>1, <2>2, <2>3
<1>6. o.context \in ContextNames
  <2>1. NoOptions.context = ""
    BY DEF NoOptions
  <2>2. QED
    BY <1>2, <2>1 DEF Choices, ContextNames
<1> HIDE DEF host, q
<1>7. CASE o.check = "nil"
  <2>1. Step(g, Return("option"))
    BY <1>3, <1>7
  <2>2. QED
    BY <1>1, <1>4, <2>1, ReturnKeeps
<1>8. CASE o.check # "nil" /\ o.api
  <2> DEFINE r == Goto(q, "ping")
  <2>1. Step(g, r)
    BY <1>3, <1>8
  <2>2. /\ r \in Calls /\ r.at = "ping" /\ r.use = q.use /\ r.opts = o /\ r.tries = 0
        /\ r.seen = q.seen
    BY <1>1, <1>2, <1>4, GoingTo
  <2> HIDE DEF r
  <2>3. Pinged(r) /\ Resolved(r)
    BY <1>2, <1>8, <2>2 DEF Pinged, Resolved
  <2>4. QED
    BY <1>1, <2>1, <2>2, <2>3, ClientMoves DEF q
<1>9. CASE o.check # "nil" /\ ~o.api /\ host = Error
  <2>1. Step(g, Return("host"))
    BY <1>3, <1>9
  <2>2. QED
    BY <1>1, <1>4, <2>1, ReturnKeeps
<1>10. CASE o.check # "nil" /\ ~o.api /\ host # Error
  <2>1. PICK place \in {"build", "name"}, context \in ContextNames :
          Step(g, [Goto(q, place) EXCEPT !.host = host, !.context = context])
    <3>1. CASE o.context # "" \/ o.host # ""
      BY <1>3, <1>6, <1>10, <3>1
    <3>2. CASE ~(o.context # "" \/ o.host # "")
      <4> DEFINE f == Goto(q, "name")
      <4>1. Step(g, [f EXCEPT !.host = host])
        BY <1>3, <1>10, <3>2
      <4>2. f \in Calls
        BY <1>1, <1>4, GoingTo
      <4> HIDE DEF f
      <4>3. [f EXCEPT !.host = host] = [f EXCEPT !.host = host, !.context = f.context]
            /\ f.context \in ContextNames
        BY <4>2 DEF Calls
      <4>4. QED
        BY <4>1, <4>3 DEF f
    <3>3. QED
      BY <3>1, <3>2
  <2> DEFINE f == Goto(q, place)
             r == [f EXCEPT !.host = host, !.context = context]
  <2>2. Step(g, r)
    BY <2>1
  <2>3. /\ f \in Calls /\ f.at = place /\ f.use = q.use /\ f.opts = o /\ f.tries = 0
        /\ f.seen = q.seen
    BY <1>1, <1>2, <1>4, GoingTo
  <2> HIDE DEF f
  <2>4. /\ r \in Calls /\ r.at = place /\ r.use = q.use /\ r.opts = o /\ r.tries = 0
        /\ r.seen = q.seen /\ r.host = host
    BY <1>5, <1>10, <2>3 DEF Calls
  <2> HIDE DEF r
  <2>5. ExpectedHosts(q) \subseteq ExpectedHosts(r)
    BY <2>4, ExpectedGrows
  <2>6. Pinged(r) /\ Resolved(r)
    BY <1>2, <1>5, <1>10, <2>4, <2>5 DEF Pinged, Resolved
  <2>7. QED
    BY <1>1, <2>2, <2>4, <2>6, ClientMoves DEF q
<1>11. QED
  BY <1>7, <1>8, <1>9, <1>10

\* The name of the current context does not change the host.
LEMMA NameContextKeeps ==
  ASSUME ResourcesInv, NEW g \in Callers, NameContext(g), UNCHANGED resources
  PROVE  ResourcesInv'
<1> DEFINE q == call[g]
           f == Goto(q, "build")
           r == [f EXCEPT !.context = Current]
<1>1. /\ q.at = "name" /\ UNCHANGED <<env, current, up, calls, faults, resources>>
      /\ q \in Calls /\ CallInv(q) /\ current \in Marks /\ env \in {s.env : s \in Starts}
      /\ calls' \in 0..MaxCalls /\ faults' \in 0..MaxFaults
  BY Facts DEF NameContext, At
<1>2. /\ q.tries = 0 /\ current \in q.seen /\ ~q.opts.api
      /\ env.host = "" => q.host \in ExpectedHosts(q)
  BY <1>1 DEF CallInv, Pinged, Resolved
<1>3. CASE Current = Error
  <2>1. Step(g, Return("context")) /\ "context" \in Errs
    BY <1>3 DEF NameContext, Errs
  <2>2. QED
    BY <1>1, <2>1, ReturnKeeps
<1>4. CASE Current # Error
  <2>1. Step(g, r)
    BY <1>4 DEF NameContext
  <2>2. Current \in ContextNames
    BY <1>1, <1>4 DEF Current, ContextFromEnv, ContextNames, Marks
  <2>3. "build" \in Places
    BY DEF Places
  <2>4. /\ f \in Calls /\ f.at = "build" /\ f.use = q.use /\ f.opts = q.opts /\ f.tries = 0
        /\ f.seen = q.seen /\ f.host = q.host
    BY <1>1, <1>2, <2>3, GoingTo
  <2> HIDE DEF f
  <2>5. /\ r \in Calls /\ r.at = "build" /\ r.use = q.use /\ r.opts = q.opts /\ r.tries = 0
        /\ r.seen = q.seen /\ r.host = q.host
    BY <2>2, <2>4 DEF Calls
  <2> HIDE DEF r
  <2>6. ExpectedHosts(q) \subseteq ExpectedHosts(r)
    BY <2>5, ExpectedGrows
  <2>7. Pinged(r) /\ Resolved(r)
    BY <1>2, <2>5, <2>6 DEF Pinged, Resolved
  <2>8. QED
    BY <1>1, <2>1, <2>5, <2>7, ClientMoves
<1>5. QED
  BY <1>3, <1>4

\* newConfig: a host of the environment overwrites the one that was resolved.
LEMMA BuildKeeps ==
  ASSUME ResourcesInv, NEW g \in Callers, Build(g), UNCHANGED resources
  PROVE  ResourcesInv'
<1> DEFINE q == call[g]
           f == Goto(q, "ping")
           host == Config(q.host)
           r == [f EXCEPT !.host = host]
<1>1. /\ q.at = "build" /\ UNCHANGED <<env, current, up, calls, faults, resources>>
      /\ q \in Calls /\ CallInv(q) /\ current \in Marks /\ env \in {s.env : s \in Starts}
      /\ calls' \in 0..MaxCalls /\ faults' \in 0..MaxFaults
  BY Facts DEF Build, At
<1>2. /\ q.tries = 0 /\ current \in q.seen /\ q.host \in Hosts
      /\ env.host = "" => q.host \in ExpectedHosts(q)
  BY <1>1 DEF CallInv, Pinged, Resolved, Calls
<1>3. \/ \E err \in {"config", "api"} : Step(g, Return(err))
      \/ host # Error /\ Step(g, r)
  BY DEF Build
<1>4. ASSUME NEW err \in {"config", "api"}, Step(g, Return(err))
      PROVE  ResourcesInv'
  <2>1. err \in Errs
    BY DEF Errs
  <2>2. QED
    BY <1>1, <1>4, <2>1, ReturnKeeps
<1>5. ASSUME host # Error, Step(g, r)
      PROVE  ResourcesInv'
  <2>1. host = IF env.host # "" THEN env.host ELSE q.host
    BY <1>5 DEF Config, Validated
  <2>2. host \in Hosts \ {Error} /\ host \in ExpectedHosts(q)
    BY <1>1, <1>2, <1>5, <2>1, KnownHosts DEF ExpectedHosts, Given
  <2>3. "ping" \in Places
    BY DEF Places
  <2>4. /\ f \in Calls /\ f.at = "ping" /\ f.use = q.use /\ f.opts = q.opts /\ f.tries = 0
        /\ f.seen = q.seen
    BY <1>1, <1>2, <2>3, GoingTo
  <2> HIDE DEF f, host
  <2>5. /\ r \in Calls /\ r.at = "ping" /\ r.use = q.use /\ r.opts = q.opts /\ r.tries = 0
        /\ r.seen = q.seen /\ r.host = host
    BY <2>2, <2>4 DEF Calls
  <2>6. Step(g, r)
    BY <1>5
  <2> HIDE DEF r
  <2>7. ExpectedHosts(q) \subseteq ExpectedHosts(r)
    BY <2>5, ExpectedGrows
  <2>8. Pinged(r) /\ Resolved(r)
    <3>1. Pinged(r)
      BY <2>5 DEF Pinged
    <3>2. current \in r.seen /\ r.host \in ExpectedHosts(r)
      BY <1>2, <2>2, <2>5, <2>7
    <3>3. QED
      BY <2>5, <3>1, <3>2 DEF Resolved
  <2>9. QED
    BY <1>1, <2>5, <2>6, <2>8, ClientMoves
<1>6. QED
  BY <1>3, <1>4, <1>5

\* A ping answers, or is one more that did not.
LEMMA PingKeeps ==
  ASSUME ResourcesInv, NEW g \in Callers, Ping(g), UNCHANGED resources
  PROVE  ResourcesInv'
<1> DEFINE q == call[g]
<1>1. /\ q.at = "ping" /\ UNCHANGED <<env, current, up, calls, faults, resources>>
      /\ q \in Calls /\ CallInv(q)
      /\ calls' \in 0..MaxCalls /\ faults' \in 0..MaxFaults
  BY Facts DEF Ping, At
<1>2. /\ q.tries \in 0..2 /\ current \in q.seen
      /\ q.opts.api \/ q.host \in ExpectedHosts(q)
  BY <1>1 DEF CallInv, Pinged, Resolved, Calls
<1>3. {"made", "pause"} \subseteq Places
  BY DEF Places
<1>4. PICK r \in Calls :
        /\ Step(g, r) /\ r.use = q.use /\ r.opts = q.opts /\ r.seen = q.seen /\ r.host = q.host
        /\ \/ r.at = "made" /\ (r.answered \/ r.opts.check = "own")
           \/ r.at = "pause" /\ r.tries > 0
  <2>1. CASE q.opts.check = "own"
    <3>1. Step(g, Goto(q, "made"))
      BY <2>1 DEF Ping
    <3>2. LET f == Goto(q, "made") IN
          /\ f \in Calls /\ f.at = "made" /\ f.use = q.use /\ f.opts = q.opts
          /\ f.seen = q.seen /\ f.host = q.host
      BY <1>1, <1>3, GoingTo
    <3>3. QED
      BY <2>1, <3>1, <3>2
  <2>2. CASE q.opts.check # "own" /\ Reached(q) \in up
    <3> DEFINE f == Goto(q, "made")
    <3>1. Step(g, [f EXCEPT !.answered = TRUE])
      BY <2>2 DEF Ping
    <3>2. /\ f \in Calls /\ f.at = "made" /\ f.use = q.use /\ f.opts = q.opts
          /\ f.seen = q.seen /\ f.host = q.host
      BY <1>1, <1>3, GoingTo
    <3> HIDE DEF f
    <3>3. LET r == [f EXCEPT !.answered = TRUE] IN
          /\ r \in Calls /\ r.at = "made" /\ r.use = q.use /\ r.opts = q.opts
          /\ r.seen = q.seen /\ r.host = q.host /\ r.answered
      BY <3>2 DEF Calls
    <3>4. QED
      BY <3>1, <3>3
  <2>3. CASE q.opts.check # "own" /\ Reached(q) \notin up
    <3> DEFINE f == Goto(q, "pause")
    <3>1. /\ f \in Calls /\ f.at = "pause" /\ f.use = q.use /\ f.opts = q.opts
          /\ f.seen = q.seen /\ f.host = q.host /\ f.tries = q.tries
      BY <1>1, <1>3, GoingTo
    <3>2. Step(g, [f EXCEPT !.tries = @ + 1])
      BY <2>3 DEF Ping
    <3> HIDE DEF f
    <3>3. LET r == [f EXCEPT !.tries = f.tries + 1] IN
          /\ r \in Calls /\ r.at = "pause" /\ r.use = q.use /\ r.opts = q.opts
          /\ r.seen = q.seen /\ r.host = q.host /\ r.tries = q.tries + 1
      <4>1. f.tries + 1 \in 0..3
        BY <1>2, <3>1
      <4>2. QED
        BY <3>1, <4>1 DEF Calls
    <3>4. q.tries + 1 > 0
      BY <1>2
    <3>5. QED
      BY <3>2, <3>3, <3>4
  <2>4. QED
    BY <2>1, <2>2, <2>3
<1>5. ExpectedHosts(q) \subseteq ExpectedHosts(r)
  BY <1>4, ExpectedGrows
<1>6. Pinged(r)
  BY <1>4 DEF Pinged
<1>7. Resolved(r)
  BY <1>2, <1>4, <1>5 DEF Resolved
<1>8. QED
  BY <1>1, <1>4, <1>6, <1>7, ClientMoves

\* After a pause there is another ping, unless that was the third.
LEMMA WakeKeeps ==
  ASSUME ResourcesInv, NEW g \in Callers, Wake(g), UNCHANGED resources
  PROVE  ResourcesInv'
<1> DEFINE q == call[g]
           r == Goto(q, "ping")
<1>1. /\ q.at = "pause" /\ UNCHANGED <<env, current, up, calls, faults, resources>>
      /\ q \in Calls /\ CallInv(q)
      /\ calls' \in 0..MaxCalls /\ faults' \in 0..MaxFaults
  BY Facts DEF Wake, At
<1>2. /\ current \in q.seen
      /\ q.opts.api \/ q.host \in ExpectedHosts(q)
  BY <1>1 DEF CallInv, Resolved
<1>3. CASE q.tries < 3
  <2>1. Step(g, r) /\ "ping" \in Places
    BY <1>3 DEF Wake, Places
  <2>2. /\ r \in Calls /\ r.at = "ping" /\ r.use = q.use /\ r.opts = q.opts
        /\ r.seen = q.seen /\ r.host = q.host /\ r.tries = q.tries
    BY <1>1, <2>1, GoingTo
  <2> HIDE DEF r
  <2>3. ExpectedHosts(q) \subseteq ExpectedHosts(r)
    BY <2>2, ExpectedGrows
  <2>4. Pinged(r) /\ Resolved(r)
    BY <1>2, <1>3, <2>2, <2>3 DEF Pinged, Resolved
  <2>5. QED
    BY <1>1, <2>1, <2>2, <2>4, ClientMoves
<1>4. CASE ~(q.tries < 3)
  <2>1. Step(g, Return("notready")) /\ "notready" \in Errs
    BY <1>4 DEF Wake, Errs
  <2>2. QED
    BY <1>1, <2>1, ReturnKeeps
<1>5. QED
  BY <1>3, <1>4

\* Any step towards a client.
LEMMA ClientStepKeeps ==
  ASSUME ResourcesInv, NEW g \in Callers, ClientStep(g), UNCHANGED resources
  PROVE  ResourcesInv'
<1>1. ASSUME NEW o \in ClientOptions, BeginNew(g, "client", o, "none")
      PROVE  ResourcesInv'
  <2>1. "client" \in Uses \ {"inspect"} /\ o \in Choices /\ "none" = None
    BY DEF Uses, Choices, None
  <2>2. QED
    BY <1>1, <2>1, BeginNewKeeps
<1>2. CASE Cancelled(g)
  <2>1. /\ Step(g, Return("cancelled")) /\ "cancelled" \in Errs
        /\ UNCHANGED <<env, current, up, calls>> /\ faults' = faults + 1 /\ faults < MaxFaults
    BY <1>2 DEF Cancelled, Errs
  <2>2. calls' \in 0..MaxCalls /\ faults' \in 0..MaxFaults
    BY <2>1, Facts, HostsAssumption
  <2>3. QED
    BY <2>1, <2>2, ReturnKeeps
<1>3. CASE Made(g)
  <2>1. /\ Step(g, Return("none")) /\ "none" \in Errs
        /\ UNCHANGED <<env, current, up, calls, faults>>
    BY <1>3 DEF Made, Errs
  <2>2. calls' \in 0..MaxCalls /\ faults' \in 0..MaxFaults
    BY <2>1, Facts
  <2>3. QED
    BY <2>1, <2>2, ReturnKeeps
<1>4. QED
  BY <1>1, <1>2, <1>3, ResolveKeeps, NameContextKeeps, BuildKeeps, PingKeeps, WakeKeeps
     DEF ClientStep

-----------------------------------------------------------------------------
(* Networks and volumes.                                                   *)

\* A step that makes, changes or removes things of the Engine keeps everything, if the networks
\* that were made keep their names and nobody's removal is taken away.
LEMMA ThingsMove ==
  ASSUME ResourcesInv, Held', call' \in [Callers -> Calls], made \subseteq made',
         calls' \in 0..MaxCalls, faults' \in 0..MaxFaults, UNCHANGED <<env, current, up>>,
         \A i \in DOMAIN store' \cap made : i \in DOMAIN store /\ store'[i].name = store[i].name,
         \A h \in Callers :
           \/ call'[h].at = "idle" /\ call'[h].use = "none"
           \/ call'[h] = call[h] /\ (call[h].at = "removal" => call[h].id \in removing')
  PROVE  ResourcesInv'
<1>1. Around'
  BY DEF ResourcesInv, Around
<1>2. Alone'
  BY DEF ResourcesInv, Alone, At
<1>3. ASSUME NEW h \in Callers
      PROVE  CallInv(call[h])'
  <2>1. CASE call'[h].at = "idle" /\ call'[h].use = "none"
    BY <2>1 DEF CallInv, Pinged, Resolved, Used
  <2>2. CASE call'[h] = call[h] /\ (call[h].at = "removal" => call[h].id \in removing')
    <3>1. CallInv(call[h])
      BY DEF ResourcesInv
    <3>2. Pinged(call[h])' /\ Resolved(call[h])'
      BY <2>2, <3>1 DEF CallInv, Pinged, Resolved, ExpectedHosts, Given
    <3>3. Used(call[h])'
      BY <2>2, <3>1 DEF CallInv, Used
    <3>4. QED
      BY <3>2, <3>3 DEF CallInv
  <2>3. QED
    BY <2>1, <2>2
<1>4. QED
  BY <1>1, <1>2, <1>3 DEF ResourcesInv

\* A step of one call that returns.
LEMMA OneReturns ==
  ASSUME ResourcesInv, NEW g \in Callers, NEW err \in Errs, Step(g, Return(err))
  PROVE  /\ call' \in [Callers -> Calls]
         /\ call'[g].at = "idle" /\ call'[g].use = "none" /\ call'[g].err = err
         /\ \A h \in Callers \ {g} : call'[h] = call[h]
BY Facts, Returning DEF ResourcesInv, Step

\* A caller that has a client begins.
LEMMA BeginWithKeeps ==
  ASSUME ResourcesInv, NEW g \in Callers, NEW use \in Uses, NEW place \in Places,
         NEW id \in NetworkIds \cup VolumeNames, BeginWith(g, use, place, id),
         \/ use = "inspect" /\ place \in {"hit", "ask"} /\ id \in made
         \/ use \in Removals /\ place = "remove"
  PROVE  ResourcesInv'
<1> DEFINE r == [Begun(use, NoOptions, id) EXCEPT !.at = place]
<1>1. /\ Step(g, r) /\ calls < MaxCalls /\ calls' = calls + 1
      /\ UNCHANGED <<env, current, up, faults, resources>>
  BY DEF BeginWith
<1>2. calls' \in 0..MaxCalls /\ faults' \in 0..MaxFaults
  BY <1>1, Facts, HostsAssumption
<1>3. NoOptions \in Choices
  BY DEF Choices
<1>4. r \in Calls /\ r.at = place /\ r.use = use /\ r.id = id /\ r.seen = {current}
  BY <1>3, Facts, Beginning
<1> HIDE DEF r
<1>5. CallInv(r)
  BY <1>4 DEF CallInv, Pinged, Resolved, Used, Removals
<1>6. QED
  BY <1>1, <1>2, <1>4, <1>5, CallMoves

\* The Engine makes a thing and gives it a name that it had not given out.
LEMMA MakeKeeps ==
  ASSUME ResourcesInv, NEW g \in Callers, NEW id, NEW name \in Labels, Make(g, id, name),
         \/ id \in NetworkIds \ made /\ made' = made \cup {id}
         \/ id \in VolumeNames \ DOMAIN store /\ made' = made
  PROVE  ResourcesInv'
<1>1. /\ store' = [i \in DOMAIN store \cup {id} |-> IF i = id THEN Fresh(name) ELSE store[i]]
      /\ Step(g, Return("none")) /\ UNCHANGED <<env, current, up, calls, faults, removing, cached>>
  BY DEF Make, clientSide
<1>2. /\ made \subseteq NetworkIds /\ DOMAIN store \subseteq made \cup VolumeNames
      /\ store \in [DOMAIN store -> Things] /\ removing \subseteq DOMAIN store
      /\ cached \in [NetworkIds -> Labels \cup {None}]
      /\ \A i \in NetworkIds :
           cached[i] # None => i \in made /\ (i \in DOMAIN store => cached[i] = store[i].name)
  BY DEF ResourcesInv, Held, Handles
<1>3. Fresh(name) \in Things
  BY DEF Fresh, Things
<1>4. DOMAIN store' = DOMAIN store \cup {id}
      /\ \A i \in DOMAIN store \ {id} : store'[i] = store[i]
  BY <1>1
<1>5. id \notin made
  BY <1>2, StoresAssumption
<1>6. store' \in [DOMAIN store' -> Things]
  BY <1>1, <1>2, <1>3, <1>4
<1>7. \A i \in DOMAIN store' \cap made : i \in DOMAIN store /\ store'[i].name = store[i].name
  BY <1>4, <1>5
<1>8. Held'
  <2>1. DOMAIN store' \subseteq Handles' /\ made' \subseteq NetworkIds
    BY <1>2, <1>4 DEF Handles
  <2>2. ASSUME NEW i \in NetworkIds, cached[i] # None
        PROVE  i \in made' /\ (i \in DOMAIN store' => cached[i] = store'[i].name)
    BY <1>2, <1>7, <2>2
  <2>3. QED
    BY <1>1, <1>2, <1>4, <1>6, <2>1, <2>2 DEF Held
<1>9. "none" \in Errs
  BY DEF Errs
<1>10. /\ call' \in [Callers -> Calls] /\ call'[g].at = "idle" /\ call'[g].use = "none"
       /\ \A h \in Callers \ {g} : call'[h] = call[h]
  BY <1>1, <1>9, OneReturns
<1>11. \A h \in Callers : call[h].at = "removal" => call[h].id \in removing'
  BY <1>1, Facts DEF CallInv, Used
<1>12. calls' \in 0..MaxCalls /\ faults' \in 0..MaxFaults
  BY <1>1, Facts
<1>13. QED
  BY <1>1, <1>7, <1>8, <1>10, <1>11, <1>12, ThingsMove

\* What was asked first may be kept last, and still names the network.
LEMMA KeepKeeps ==
  ASSUME ResourcesInv, NEW g \in Callers, Keep(g)
  PROVE  ResourcesInv'
<1> DEFINE q == call[g]
<1>1. /\ q.at = "keep" /\ cached' = [cached EXCEPT ![q.id] = q.found]
      /\ Step(g, Return("none"))
      /\ UNCHANGED <<env, current, up, calls, faults, store, made, removing>>
      /\ q \in Calls /\ CallInv(q)
      /\ calls' \in 0..MaxCalls /\ faults' \in 0..MaxFaults
  BY Facts DEF Keep, At, clientSide
<1>2. /\ q.id \in made /\ (q.id \in DOMAIN store => q.found = store[q.id].name)
      /\ q.found \in Labels \cup {None}
  BY <1>1 DEF CallInv, Used, Calls
<1>3. Held'
  BY <1>1, <1>2 DEF ResourcesInv, Held, Handles
<1>4. "none" \in Errs
  BY DEF Errs
<1>5. /\ call' \in [Callers -> Calls] /\ call'[g].at = "idle" /\ call'[g].use = "none"
      /\ \A h \in Callers \ {g} : call'[h] = call[h]
  BY <1>1, <1>4, OneReturns
<1>6. \A h \in Callers : call[h].at = "removal" => call[h].id \in removing'
  BY <1>1, Facts DEF CallInv, Used
<1>7. QED
  BY <1>1, <1>3, <1>5, <1>6, ThingsMove

\* The Engine answers an inspection.
LEMMA AskKeeps ==
  ASSUME ResourcesInv, NEW g \in Callers, Ask(g)
  PROVE  ResourcesInv'
<1> DEFINE q == call[g]
           f == Goto(q, "keep")
           r == [f EXCEPT !.found = store[q.id].name]
<1>1. /\ q.at = "ask" /\ UNCHANGED <<env, current, up, calls, faults, resources>>
      /\ q \in Calls /\ CallInv(q)
      /\ calls' \in 0..MaxCalls /\ faults' \in 0..MaxFaults
  BY Facts DEF Ask, At, clientSide
<1>2. /\ q.id \in made /\ q.use = "inspect" /\ current \in q.seen
  BY <1>1 DEF CallInv, Used, Resolved
<1>3. CASE q.id \notin DOMAIN store
  <2>1. Step(g, Return("notfound")) /\ "notfound" \in Errs
    BY <1>3 DEF Ask, Errs
  <2>2. QED
    BY <1>1, <2>1, ReturnKeeps
<1>4. CASE q.id \in DOMAIN store
  <2>1. Step(g, r)
    BY <1>4 DEF Ask
  <2>2. store[q.id].name \in Labels /\ "keep" \in Places
    BY <1>4 DEF ResourcesInv, Held, Things, Places
  <2>3. /\ f \in Calls /\ f.at = "keep" /\ f.use = q.use /\ f.id = q.id /\ f.seen = q.seen
    BY <1>1, <2>2, GoingTo
  <2> HIDE DEF f
  <2>4. /\ r \in Calls /\ r.at = "keep" /\ r.use = "inspect" /\ r.id = q.id /\ r.seen = q.seen
        /\ r.found = store[q.id].name
    BY <1>2, <2>2, <2>3 DEF Calls
  <2> HIDE DEF r
  <2>5. CallInv(r)
    BY <1>2, <2>4 DEF CallInv, Pinged, Resolved, Used, Removals
  <2>6. QED
    BY <1>1, <2>1, <2>4, <2>5, CallMoves
<1>5. QED
  BY <1>3, <1>4

\* The client of CleanupByID is there, and the removal begins.
LEMMA CleanupClientKeeps ==
  ASSUME ResourcesInv, NEW g \in Callers, CleanupClient(g)
  PROVE  ResourcesInv'
<1> DEFINE q == call[g]
           r == Goto(q, "remove")
<1>1. /\ q.at = "made" /\ q.use = "cleanup" /\ Step(g, r)
      /\ UNCHANGED <<env, current, up, calls, faults, resources>>
      /\ q \in Calls /\ CallInv(q)
      /\ calls' \in 0..MaxCalls /\ faults' \in 0..MaxFaults
  BY Facts DEF CleanupClient, Needs, At, clientSide
<1>2. current \in q.seen /\ "remove" \in Places
  BY <1>1 DEF CallInv, Resolved, Places
<1>3. r \in Calls /\ r.at = "remove" /\ r.use = "cleanup" /\ r.seen = q.seen
  BY <1>1, <1>2, GoingTo
<1> HIDE DEF r
<1>4. CallInv(r)
  BY <1>2, <1>3 DEF CallInv, Pinged, Resolved, Used, Removals
<1>5. QED
  BY <1>1, <1>3, <1>4, CallMoves

\* What a removal reports is one of the errors.
LEMMA RemovedReturns ==
  ASSUME NEW g \in Callers, NEW err \in Errs, Removed(g, err)
  PROVE  \E e \in Errs : Step(g, Return(e))
BY DEF Removed, Errs

\* The Engine refuses a removal, or there is nothing to remove.
LEMMA RemoveRefusedKeeps ==
  ASSUME ResourcesInv, NEW g \in Callers, RemoveRefused(g)
  PROVE  ResourcesInv'
<1>1. UNCHANGED <<env, current, up, calls, faults, resources>>
  BY DEF RemoveRefused, clientSide
<1>2. PICK err \in {"none", "notfound", "inprogress", "conflict"} : Removed(g, err)
  BY DEF RemoveRefused
<1>3. err \in Errs
  BY DEF Errs
<1>4. PICK e \in Errs : Step(g, Return(e))
  BY <1>2, <1>3, RemovedReturns
<1>5. calls' \in 0..MaxCalls /\ faults' \in 0..MaxFaults
  BY <1>1, Facts
<1>6. QED
  BY <1>1, <1>4, <1>5, ReturnKeeps

\* A removal begins only where none is under way.
LEMMA BeginRemovalKeeps ==
  ASSUME ResourcesInv, NEW g \in Callers, BeginRemoval(g)
  PROVE  ResourcesInv'
<1> DEFINE q == call[g]
           r == Goto(q, "removal")
<1>1. /\ q.at = "remove" /\ q.id \in DOMAIN store \ removing /\ Step(g, r)
      /\ removing' = removing \cup {q.id}
      /\ UNCHANGED <<env, current, up, calls, faults, store, made, cached>>
      /\ q \in Calls /\ CallInv(q)
  BY Facts DEF BeginRemoval, At, clientSide
<1>2. current \in q.seen /\ q.use \in Removals /\ "removal" \in Places
  BY <1>1 DEF CallInv, Resolved, Used, Places
<1>3. r \in Calls /\ r.at = "removal" /\ r.use = q.use /\ r.seen = q.seen /\ r.id = q.id
  BY <1>1, <1>2, GoingTo
<1> HIDE DEF r
<1>4. /\ call' \in [Callers -> Calls] /\ call'[g] = r
      /\ \A h \in Callers \ {g} : call'[h] = call[h]
  BY <1>1, <1>3 DEF ResourcesInv, Step
<1>5. Around' /\ Held'
  BY <1>1 DEF ResourcesInv, Around, Held, Handles
<1>6. Alone'
  <2>1. \A h \in Callers : At(h, "removal") => call[h].id \in removing
    BY Facts DEF CallInv, Used, At
  <2>2. QED
    BY <1>1, <1>3, <1>4, <2>1 DEF ResourcesInv, Alone, At
<1>7. ASSUME NEW h \in Callers
      PROVE  CallInv(call[h])'
  <2>1. CASE h = g
    BY <1>1, <1>2, <1>3, <1>4, <2>1 DEF CallInv, Pinged, Resolved, Used, Removals
  <2>2. CASE h # g
    <3>1. CallInv(call[h]) /\ call'[h] = call[h]
      BY <1>4, <2>2 DEF ResourcesInv
    <3>2. Pinged(call[h])' /\ Resolved(call[h])'
      BY <1>1, <3>1 DEF CallInv, Pinged, Resolved, ExpectedHosts, Given
    <3>3. Used(call[h])'
      BY <1>1, <3>1 DEF CallInv, Used
    <3>4. QED
      BY <3>2, <3>3 DEF CallInv
  <2>3. QED
    BY <2>1, <2>2
<1>8. QED
  BY <1>4, <1>5, <1>6, <1>7 DEF ResourcesInv

\* The thing is gone, and nobody else was removing it.
LEMMA EndRemovalKeeps ==
  ASSUME ResourcesInv, NEW g \in Callers, EndRemoval(g)
  PROVE  ResourcesInv'
<1> DEFINE q == call[g]
<1>1. /\ q.at = "removal" /\ store' = [i \in DOMAIN store \ {q.id} |-> store[i]]
      /\ removing' = removing \ {q.id} /\ Removed(g, "none")
      /\ UNCHANGED <<env, current, up, calls, faults, made, cached>>
      /\ calls' \in 0..MaxCalls /\ faults' \in 0..MaxFaults
  BY Facts DEF EndRemoval, At, clientSide
<1>2. "none" \in Errs
  BY DEF Errs
<1>3. PICK e \in Errs : Step(g, Return(e))
  BY <1>1, <1>2, RemovedReturns
<1>4. /\ call' \in [Callers -> Calls] /\ call'[g].at = "idle" /\ call'[g].use = "none"
      /\ \A h \in Callers \ {g} : call'[h] = call[h]
  BY <1>3, OneReturns
<1>5. DOMAIN store' = DOMAIN store \ {q.id} /\ \A i \in DOMAIN store' : store'[i] = store[i]
  BY <1>1
<1>6. Held'
  <2>1. store' \in [DOMAIN store' -> Things]
    BY <1>1, <1>5 DEF ResourcesInv, Held
  <2>2. QED
    BY <1>1, <1>5, <2>1 DEF ResourcesInv, Held, Handles
<1>7. \A h \in Callers \ {g} : call[h].at = "removal" => call[h].id \in removing'
  BY <1>1, Facts DEF ResourcesInv, Alone, At, CallInv, Used
<1>8. QED
  BY <1>1, <1>4, <1>5, <1>6, <1>7, ThingsMove

\* Others attach containers, and remove what nothing uses and nobody is removing.
LEMMA OthersKeep ==
  ASSUME ResourcesInv, NEW id \in DOMAIN store,
         RemovedByOthers(id) \/ \E used \in BOOLEAN : Attach(id, used)
  PROVE  ResourcesInv'
<1>1. /\ id \notin removing /\ faults < MaxFaults /\ faults' = faults + 1
      /\ UNCHANGED <<env, current, up, call, calls, made, removing, cached>>
  BY DEF RemovedByOthers, Attach
<1>2. calls \in 0..MaxCalls /\ faults \in 0..MaxFaults
  BY DEF ResourcesInv, Around
<1>3. calls' \in 0..MaxCalls /\ faults' \in 0..MaxFaults
  BY <1>1, <1>2, HostsAssumption
<1>4. /\ DOMAIN store' \in {DOMAIN store, DOMAIN store \ {id}}
      /\ store' \in [DOMAIN store' -> Things]
      /\ \A i \in DOMAIN store' : store'[i].name = store[i].name
  <2>1. CASE RemovedByOthers(id)
    BY <2>1 DEF RemovedByOthers, ResourcesInv, Held
  <2>2. ASSUME NEW used \in BOOLEAN, Attach(id, used)
        PROVE  <1>4!:
    <3>1. store' = [store EXCEPT ![id].used = used] /\ store \in [DOMAIN store -> Things]
      BY <2>2 DEF Attach, ResourcesInv, Held
    <3>2. QED
      BY <3>1 DEF Things
  <2>3. QED
    BY <2>1, <2>2
<1>5. Held'
  BY <1>1, <1>4 DEF ResourcesInv, Held, Handles
<1>6. \A h \in Callers : call[h].at = "removal" => call[h].id \in removing'
  BY <1>1, Facts DEF CallInv, Used
<1>7. call' \in [Callers -> Calls]
  BY <1>1 DEF ResourcesInv
<1>8. \A i \in DOMAIN store' \cap made : i \in DOMAIN store /\ store'[i].name = store[i].name
  BY <1>4
<1>9. QED
  BY <1>1, <1>3, <1>5, <1>6, <1>7, <1>8, ThingsMove

\* A fault below the bound can be counted.
LEMMA OneMoreFault ==
  faults \in 0..MaxFaults /\ faults < MaxFaults /\ faults' = faults + 1 => faults' \in 0..MaxFaults
BY HostsAssumption

\* Another program changes the current context, and every call under way has seen it then.
LEMMA UseContextKeeps ==
  ASSUME ResourcesInv, NEW name \in DOMAIN Contexts \cup {""}, UseContext(name),
         UNCHANGED resources
  PROVE  ResourcesInv'
<1>1. /\ faults < MaxFaults /\ current' = name /\ faults' = faults + 1
      /\ UNCHANGED <<env, up, calls, store, made, removing, cached>>
      /\ calls \in 0..MaxCalls /\ faults \in 0..MaxFaults
  BY DEF ResourcesInv, Around, UseContext, resources
<1>2. faults' \in 0..MaxFaults /\ name \in Marks
  <2>1. faults' \in 0..MaxFaults
    BY <1>1, OneMoreFault
  <2>2. QED
    BY <2>1 DEF Marks
<1>3. \A h \in Callers :
        call'[h] = IF Idle(h) THEN call[h] ELSE [call[h] EXCEPT !.seen = @ \cup {name}]
  BY DEF UseContext
<1>4. ASSUME NEW h \in Callers
      PROVE  /\ call'[h] \in Calls
             /\ call'[h].at = call[h].at /\ call'[h].use = call[h].use
             /\ call'[h].opts = call[h].opts /\ call'[h].id = call[h].id
             /\ call'[h].host = call[h].host /\ call'[h].tries = call[h].tries
             /\ call'[h].answered = call[h].answered /\ call'[h].found = call[h].found
             /\ call[h].seen \subseteq call'[h].seen
             /\ call[h].at # "idle" => name \in call'[h].seen
  <2>1. call[h] \in Calls
    BY Facts
  <2>2. CASE Idle(h)
    BY <1>3, <2>1, <2>2 DEF Idle
  <2>3. CASE ~Idle(h)
    <3> DEFINE r == call[h]
    <3>1. r.seen \cup {name} \in SUBSET Marks
      BY <1>2, <2>1 DEF Calls
    <3>2. call'[h] = [r EXCEPT !.seen = r.seen \cup {name}]
      BY <1>3, <2>3
    <3>3. r \in Calls
      BY <2>1
    <3> HIDE DEF r
    <3>4. LET f == [r EXCEPT !.seen = r.seen \cup {name}] IN
          /\ f \in Calls
          /\ f.at = r.at /\ f.use = r.use /\ f.opts = r.opts /\ f.id = r.id
          /\ f.host = r.host /\ f.tries = r.tries /\ f.answered = r.answered
          /\ f.found = r.found /\ f.seen = r.seen \cup {name}
      BY <3>1, <3>3 DEF Calls
    <3>5. QED
      BY <3>2, <3>4 DEF r
  <2>4. QED
    BY <2>2, <2>3
<1>5. call' \in [Callers -> Calls]
  <2>1. call' = [h \in Callers |->
                   IF Idle(h) THEN call[h] ELSE [call[h] EXCEPT !.seen = @ \cup {name}]]
    BY DEF UseContext
  <2>2. QED
    BY <1>4, <2>1
<1>6. Around' /\ Held'
  BY <1>1, <1>2 DEF ResourcesInv, Around, Held, Handles
<1>7. Alone'
  <2>1. \A h \in Callers : call'[h].at = call[h].at /\ call'[h].id = call[h].id
    BY <1>4
  <2>2. QED
    BY <2>1, ZenonT(40) DEF ResourcesInv, Alone, At
<1>8. ASSUME NEW h \in Callers
      PROVE  CallInv(call[h])'
  <2>1. CallInv(call[h])
    BY Facts
  <2>2. Pinged(call[h])' /\ Used(call[h])'
    BY <1>1, <1>4, <2>1 DEF CallInv, Pinged, Used
  <2>3. ExpectedHosts(call[h]) \subseteq ExpectedHosts(call'[h])
    BY <1>4, ExpectedGrows
  <2>4. ExpectedHosts(call'[h]) = ExpectedHosts(call[h])'
    BY <1>1 DEF ExpectedHosts, Given
  <2>5. Resolved(call[h])'
    BY <1>1, <1>4, <2>1, <2>3, <2>4 DEF CallInv, Resolved
  <2>6. QED
    BY <2>2, <2>5 DEF CallInv
<1>9. QED
  BY <1>5, <1>6, <1>7, <1>8 DEF ResourcesInv

\* Engines start and stop.
LEMMA WorldKeeps ==
  ASSUME ResourcesInv, World, UNCHANGED resources
  PROVE  ResourcesInv'
<1>1. CASE EnginesStart \/ EnginesStop
  <2>1. /\ up' \in {{}, Hosts} /\ UNCHANGED <<env, current, call, calls>>
        /\ faults' = faults \/ (faults < MaxFaults /\ faults' = faults + 1)
        /\ calls \in 0..MaxCalls /\ faults \in 0..MaxFaults
    BY <1>1 DEF EnginesStart, EnginesStop, ResourcesInv, Around
  <2>2. faults' \in 0..MaxFaults
    BY <2>1, HostsAssumption
  <2>3. UNCHANGED <<store, made, removing, cached>>
    BY DEF resources
  <2>4. Around' /\ Held' /\ Alone' /\ call' \in [Callers -> Calls]
    BY <2>1, <2>2, <2>3 DEF ResourcesInv, Around, Held, Handles, Alone, At
  <2>5. ASSUME NEW h \in Callers
        PROVE  CallInv(call[h])'
    <3>1. CallInv(call[h])
      BY Facts
    <3>2. QED
      BY <2>1, <2>3, <3>1 DEF CallInv, Pinged, Resolved, Used, ExpectedHosts, Given
  <2>6. QED
    BY <2>4, <2>5 DEF ResourcesInv
<1>2. QED
  BY <1>1, UseContextKeeps DEF World

\* Initially nobody does anything, and the Engine holds what it holds.
LEMMA InitHolds == Init => ResourcesInv
<1> SUFFICES ASSUME Init
             PROVE  ResourcesInv
  OBVIOUS
<1>1. PICK start \in Starts :
        env = start.env /\ current = start.current /\ store = start.store
  BY DEF Init
<1>2. /\ up \in {{}, Hosts} /\ calls = 0 /\ faults = 0
      /\ call = [g \in Callers |-> Return("none")]
      /\ made = DOMAIN store \cap NetworkIds /\ removing = {}
      /\ cached = [i \in NetworkIds |-> None]
  BY DEF Init, ClientInit, Networks
<1>3. Around
  <2>1. current \in Marks /\ env \in {s.env : s \in Starts}
    BY <1>1, StartsAssumption DEF Marks
  <2>2. calls \in 0..MaxCalls /\ faults \in 0..MaxFaults
    BY <1>2, HostsAssumption
  <2>3. QED
    BY <1>2, <2>1, <2>2 DEF Around
<1>4. Held
  <2>1. DOMAIN store \subseteq NetworkIds \cup VolumeNames /\ store \in [DOMAIN store -> Things]
    BY <1>1, StoresAssumption DEF Things, Labels
  <2>2. QED
    BY <1>2, <2>1 DEF Held, Handles
<1>5. Return("none") \in Calls /\ Return("none").at = "idle" /\ Return("none").use = "none"
  <2>1. "none" \in Errs /\ current \in Marks
    BY <1>3 DEF Errs, Around
  <2>2. QED
    BY <2>1, Returning
<1>6. \A g \in Callers : call[g] \in Calls /\ call[g].at = "idle" /\ call[g].use = "none"
  BY <1>2, <1>5
<1>7. Alone /\ call \in [Callers -> Calls]
  BY <1>2, <1>5, <1>6 DEF Alone, At
<1>8. \A g \in Callers : CallInv(call[g])
  BY <1>6, Returned
<1>9. QED
  BY <1>3, <1>4, <1>7, <1>8 DEF ResourcesInv

\* The steps of a call that works on networks and volumes.
ResourceStep(g) ==
  \/ NewNetwork(g) \/ NewNetworkFails(g) \/ NewVolume(g) \/ FindNetwork(g) \/ FindVolume(g)
  \/ \E id \in made, cache \in BOOLEAN : BeginInspect(g, id, cache)
  \/ Hit(g) \/ Ask(g) \/ Keep(g)
  \/ \E id \in Handles, use \in Removals : BeginTerminate(g, id, use)
  \/ CleanupClient(g) \/ RemoveRefused(g) \/ BeginRemoval(g) \/ EndRemoval(g)

\* Each of them keeps the invariant.
LEMMA ResourceStepKeeps ==
  ASSUME ResourcesInv, NEW g \in Callers, ResourceStep(g)
  PROVE  ResourcesInv'
<1>1. {"none", "conflict", "notfound"} \subseteq Errs /\ made \subseteq NetworkIds
  BY DEF Errs, ResourcesInv, Held
<1>2. ASSUME NEW err \in {"none", "conflict", "notfound"}, Step(g, Return(err)),
             UNCHANGED <<clientSide, resources>>
      PROVE  ResourcesInv'
  <2>1. UNCHANGED <<env, current, up, calls, faults, resources>>
    BY <1>2 DEF clientSide
  <2>2. calls' \in 0..MaxCalls /\ faults' \in 0..MaxFaults
    BY <2>1, Facts
  <2>3. QED
    BY <1>1, <1>2, <2>1, <2>2, ReturnKeeps
<1>3. ASSUME NewNetwork(g)
      PROVE  ResourcesInv'
  <2>1. PICK id \in NetworkIds \ made, name \in NetworkNames :
          Make(g, id, name) /\ made' = made \cup {id}
    BY <1>3 DEF NewNetwork
  <2>2. name \in Labels
    BY DEF Labels
  <2>3. QED
    BY <2>1, <2>2, MakeKeeps
<1>4. ASSUME NewVolume(g)
      PROVE  ResourcesInv'
  <2>1. PICK v \in VolumeNames :
          \/ v \notin DOMAIN store /\ Make(g, v, v) /\ UNCHANGED made
          \/ Step(g, Return("none")) /\ UNCHANGED <<clientSide, resources>>
    BY <1>4 DEF NewVolume
  <2>2. v \in Labels
    BY DEF Labels
  <2>3. QED
    BY <1>2, <2>1, <2>2, MakeKeeps
<1>5. ASSUME NewNetworkFails(g) \/ FindNetwork(g) \/ FindVolume(g) \/ Hit(g)
      PROVE  ResourcesInv'
  <2>1. PICK err \in {"none", "conflict", "notfound"} : Step(g, Return(err))
    BY <1>5 DEF NewNetworkFails, FindNetwork, FindVolume, Hit
  <2>2. UNCHANGED <<clientSide, resources>>
    BY <1>5 DEF NewNetworkFails, FindNetwork, FindVolume, Hit
  <2>3. QED
    BY <1>2, <2>1, <2>2
<1>6. ASSUME NEW id \in made, NEW cache \in BOOLEAN, BeginInspect(g, id, cache)
      PROVE  ResourcesInv'
  <2>1. PICK place \in {"hit", "ask"} : BeginWith(g, "inspect", place, id)
    BY <1>6 DEF BeginInspect
  <2>2. "inspect" \in Uses /\ place \in Places
    BY DEF Uses, Places
  <2>3. QED
    BY <1>1, <2>1, <2>2, BeginWithKeeps
<1>7. ASSUME NEW id \in Handles, NEW use \in Removals, BeginTerminate(g, id, use)
      PROVE  ResourcesInv'
  <2>1. BeginWith(g, use, "remove", id)
    BY <1>7 DEF BeginTerminate
  <2>2. use \in Uses /\ "remove" \in Places /\ id \in NetworkIds \cup VolumeNames
    BY <1>1 DEF Uses, Places, Handles
  <2>3. QED
    BY <2>1, <2>2, BeginWithKeeps
<1>8. QED
  BY <1>3, <1>4, <1>5, <1>6, <1>7, AskKeeps, KeepKeeps, CleanupClientKeeps, RemoveRefusedKeeps,
     BeginRemovalKeeps, EndRemovalKeeps DEF ResourceStep

\* Next, told apart by who steps.
LEMMA NextIs ==
  Next <=>
    \/ \E g \in Callers :
         \/ ClientStep(g) /\ UNCHANGED resources
         \/ \E use \in {"network", "volume", "find"} : BeginNewClientFor(g, use)
         \/ \E id \in Handles : BeginCleanupByID(g, id)
         \/ ResourceStep(g)
    \/ World /\ UNCHANGED resources
    \/ \E id \in DOMAIN store : RemovedByOthers(id) \/ \E used \in BOOLEAN : Attach(id, used)
BY DEF Next, ResourceStep

\* Every step keeps the invariant.
LEMMA NextKeeps == ResourcesInv /\ [Next]_vars => ResourcesInv'
<1> SUFFICES ASSUME ResourcesInv, [Next]_vars
             PROVE  ResourcesInv'
  OBVIOUS
<1>1. ASSUME NEW g \in Callers, ClientStep(g), UNCHANGED resources
      PROVE  ResourcesInv'
  BY <1>1, ClientStepKeeps
<1>2. ASSUME NEW g \in Callers, NEW use \in {"network", "volume", "find"},
             BeginNewClientFor(g, use)
      PROVE  ResourcesInv'
  <2>1. use \in Uses \ {"inspect"} /\ NoOptions \in Choices
    BY DEF Uses, Choices
  <2>2. BeginNew(g, use, NoOptions, None) /\ UNCHANGED resources
    BY <1>2 DEF BeginNewClientFor
  <2>3. QED
    BY <2>1, <2>2, BeginNewKeeps
<1>3. ASSUME NEW g \in Callers, NEW id \in Handles, BeginCleanupByID(g, id)
      PROVE  ResourcesInv'
  <2>1. "cleanup" \in Uses \ {"inspect"} /\ NoOptions \in Choices
    BY DEF Uses, Removals, Choices
  <2>2. BeginNew(g, "cleanup", NoOptions, id) /\ UNCHANGED resources
    BY <1>3 DEF BeginCleanupByID
  <2>3. id \in NetworkIds \cup VolumeNames \cup {None}
    BY DEF Handles, ResourcesInv, Held
  <2>4. QED
    BY <2>1, <2>2, <2>3, BeginNewKeeps
<1>4. CASE UNCHANGED vars
  <2>1. UNCHANGED <<env, current, up, call, calls, faults, store, made, removing, cached>>
    BY <1>4 DEF vars, clientVars
  <2>2. Around' /\ Held' /\ Alone' /\ call' \in [Callers -> Calls]
    BY <2>1 DEF ResourcesInv, Around, Held, Handles, Alone, At
  <2>3. ASSUME NEW h \in Callers
        PROVE  CallInv(call[h])'
    <3>1. CallInv(call[h])
      BY Facts
    <3>2. QED
      BY <2>1, <3>1 DEF CallInv, Pinged, Resolved, Used, ExpectedHosts, Given
  <2>4. QED
    BY <2>2, <2>3 DEF ResourcesInv
<1>5. QED
  BY <1>1, <1>2, <1>3, <1>4, NextIs, ResourceStepKeeps, WorldKeeps, OthersKeep

\* The invariant holds throughout.
LEMMA ResourcesHold == Spec => []ResourcesInv
BY InitHolds, NextKeeps, PTL DEF Spec

-----------------------------------------------------------------------------
(* The theorems.                                                           *)

\* Every variable keeps its type, a ping is tried at most three times, what the Engine holds
\* was made, and a handle's inspection names its network.
THEOREM TypeCorrect == Spec => []TypeOK
<1>1. ASSUME ResourcesInv
      PROVE  TypeOK
  <2>1. ClientTypeOK
    <3>1. ASSUME NEW g \in Callers
          PROVE  /\ call[g].tries \in 0..3 /\ call[g].host \in Hosts \ {Error}
                 /\ At(g, "pause") => call[g].tries > 0
      BY <1>1, Facts DEF Calls, CallInv, Pinged, At
    <3>2. QED
      BY <1>1, <3>1 DEF ResourcesInv, Around, ClientTypeOK, Marks
  <2>2. \A i \in DOMAIN store :
          store[i] \in [name : NetworkNames \cup VolumeNames, used : BOOLEAN]
    BY <1>1 DEF ResourcesInv, Held, Things, Labels
  <2>3. \A g \in Callers : At(g, "removal") => call[g].id \in removing
    BY <1>1, Facts DEF CallInv, Used, At
  <2>4. QED
    BY <1>1, <2>1, <2>2, <2>3 DEF ResourcesInv, Held, TypeOK
<1>2. QED
  BY <1>1, ResourcesHold, PTL

\* New gives a client out only when the Engine has answered it or the caller's own check was
\* content, and its host is the one of the first place that names one; that of a caller who
\* gave a host or a context is that one, unless it is DOCKER_HOST.
THEOREM ClientIsReady == Spec => []ReadyClient
<1>1. ASSUME ResourcesInv
      PROVE  ReadyClient
  <2>1. ASSUME NEW g \in Callers, At(g, "made")
        PROVE  /\ call[g].answered \/ call[g].opts.check = "own"
               /\ ~call[g].opts.api => call[g].host \in ExpectedHosts(call[g])
    BY <1>1, <2>1, Facts DEF CallInv, Pinged, Resolved, At
  <2>2. QED
    BY <2>1 DEF ReadyClient
<1>2. QED
  BY <1>1, ResourcesHold, PTL

\* Only its own step ends a call: a step of another one leaves its record alone.
LEMMA OwnStep ==
  ASSUME ResourcesInv, NEW g \in Callers, NEW h \in Callers, NEW r, Step(h, r)
  PROVE  call'[g] = IF h = g THEN r ELSE call[g]
BY DEF ResourcesInv, Step

\* A call of a removal that is still after its client does not end without an error.
LEMMA ClientFails ==
  ASSUME ResourcesInv, NEW g \in Callers, call[g].use \in Removals, ~Idle(g), ClientStep(g)
  PROVE  call'[g].at # "idle" \/ call'[g].err # "none"
<1> DEFINE q == call[g]
<1>1. q \in Calls /\ q.use # "client" /\ current \in Marks
  BY Facts DEF Removals
<1>2. \A r : Step(g, r) => call'[g] = r
  BY OwnStep
<1>3. \A err \in Errs \ {"none"} : Step(g, Return(err)) => call'[g].err # "none"
  BY <1>1, <1>2, Returning
<1>4. /\ {"option", "host", "context", "config", "api", "notready", "cancelled"}
           \subseteq Errs \ {"none"}
      /\ {"ping", "build", "name", "made", "pause"} \subseteq Places \ {"idle"}
  BY DEF Errs, Places
<1>5. ASSUME NEW place \in {"ping", "build", "name", "made", "pause"}
      PROVE  /\ Goto(q, place) \in Calls /\ Goto(q, place).at # "idle"
             /\ Step(g, Goto(q, place)) => call'[g].at # "idle"
  <2>1. place \in Places /\ place # "idle"
    BY <1>4
  <2>2. Goto(q, place) \in Calls /\ Goto(q, place).at = place
    BY <1>1, <2>1, GoingTo
  <2>3. Step(g, Goto(q, place)) => call'[g] = Goto(q, place)
    BY <1>2
  <2> HIDE DEF q
  <2>4. QED
    BY <2>1, <2>2, <2>3
<1>6. CASE Resolve(g)
  <2> DEFINE o == q.opts
             host == IF o.context # "" THEN ContextHost(o.context)
                     ELSE IF o.host # "" THEN o.host ELSE CurrentDockerHost
  <2>1. Step(g, IF o.check = "nil" THEN Return("option")
                ELSE IF o.api THEN Goto(q, "ping")
                ELSE IF host = Error THEN Return("host")
                ELSE IF o.context # "" \/ o.host # ""
                     THEN [Goto(q, "build") EXCEPT !.host = host, !.context = o.context]
                     ELSE [Goto(q, "name") EXCEPT !.host = host])
    BY <1>6 DEF Resolve
  <2> HIDE DEF host
  <2>2. /\ [Goto(q, "build") EXCEPT !.host = host, !.context = o.context].at # "idle"
        /\ [Goto(q, "name") EXCEPT !.host = host].at # "idle"
    BY <1>5 DEF Calls
  <2>3. QED
    BY <1>2, <1>3, <1>4, <1>5, <2>1, <2>2
<1>7. CASE NameContext(g)
  <2>1. [Goto(q, "build") EXCEPT !.context = Current].at # "idle"
    BY <1>5 DEF Calls
  <2>2. QED
    BY <1>2, <1>3, <1>4, <1>7, <2>1 DEF NameContext
<1>8. CASE Build(g)
  <2>1. [Goto(q, "ping") EXCEPT !.host = Config(q.host)].at # "idle"
    BY <1>5 DEF Calls
  <2>2. QED
    BY <1>2, <1>3, <1>4, <1>8, <2>1 DEF Build
<1>9. CASE Ping(g)
  <2>1. /\ [Goto(q, "made") EXCEPT !.answered = TRUE].at # "idle"
        /\ [Goto(q, "pause") EXCEPT !.tries = @ + 1].at # "idle"
    BY <1>5 DEF Calls
  <2>2. QED
    BY <1>2, <1>5, <1>9, <2>1 DEF Ping
<1>10. CASE Wake(g) \/ Cancelled(g)
  BY <1>3, <1>4, <1>5, <1>10 DEF Wake, Cancelled
<1>11. QED
  BY <1>1, <1>6, <1>7, <1>8, <1>9, <1>10 DEF ClientStep, BeginNew, Made

\* A step on networks and volumes that ends a removal without an error finds the thing gone,
\* or somebody else removing it.
LEMMA RemovalsEnd ==
  ASSUME ResourcesInv, NEW g \in Callers, call[g].use \in Removals, ~Idle(g), ResourceStep(g),
         call'[g].at = "idle", call'[g].err = "none"
  PROVE  call[g].id \notin DOMAIN store' \ removing'
<1> DEFINE q == call[g]
<1>1. q \in Calls /\ CallInv(q) /\ current \in Marks
  BY Facts
<1>2. q.use \notin {"network", "volume", "find", "inspect", "none"} /\ q.at # "idle"
  BY DEF Removals, Idle
<1>3. q.at \notin {"hit", "ask", "keep"}
  BY <1>1, <1>2 DEF CallInv, Used
<1>4. \/ CleanupClient(g) \/ RemoveRefused(g) \/ BeginRemoval(g) \/ EndRemoval(g)
  BY <1>2, <1>3
     DEF ResourceStep, NewNetwork, NewNetworkFails, NewVolume, FindNetwork, FindVolume, Needs,
         Hit, Ask, Keep, At, BeginInspect, BeginTerminate, BeginWith, Idle
<1>5. \A r : Step(g, r) => call'[g] = r
  BY OwnStep
<1>6. {"remove", "removal"} \subseteq Places \ {"idle"}
  BY DEF Places
<1>7. ~CleanupClient(g) /\ ~BeginRemoval(g)
  BY <1>1, <1>5, <1>6, GoingTo DEF CleanupClient, BeginRemoval
<1>8. CASE EndRemoval(g)
  BY <1>8 DEF EndRemoval
<1>9. CASE RemoveRefused(g)
  <2>1. UNCHANGED <<store, removing>>
    BY <1>9 DEF RemoveRefused, resources
  <2>2. ~Removed(g, "conflict")
    <3>1. Removed(g, "conflict") => Step(g, Return("conflict"))
      BY DEF Removed, IsCleanupSafe
    <3>2. "conflict" \in Errs
      BY DEF Errs
    <3>3. QED
      BY <1>1, <1>5, <3>1, <3>2, Returning
  <2>3. q.id \notin DOMAIN store \/ q.id \in removing
    BY <1>9, <2>2 DEF RemoveRefused
  <2>4. QED
    BY <2>1, <2>3
<1>10. QED
  BY <1>4, <1>7, <1>8, <1>9

\* A Terminate or a helper that reports no error leaves nothing behind but what somebody else
\* is just removing: only its own step ends a call, the making of the client ends it with an
\* error, and of the answers to a removal those that are no error, or are ignored, leave nothing.
THEOREM NothingIsLeft == Spec => NothingLeft
<1>1. ASSUME ResourcesInv, [Next]_vars, NEW g \in Callers,
             call[g].use \in Removals, ~Idle(g), call'[g].at = "idle", call'[g].err = "none"
      PROVE  call[g].id \notin DOMAIN store' \ removing'
  <2>1. call[g].at # "idle" /\ call[g] \in Calls
    BY <1>1, Facts DEF Idle
  <2>2. ASSUME NEW h \in Callers, ClientStep(h), UNCHANGED resources
        PROVE  h = g
    BY <1>1, <2>1, <2>2, OwnStep
       DEF ClientStep, BeginNew, Resolve, NameContext, Build, Ping, Wake, Cancelled, Made
  <2>3. ASSUME NEW h \in Callers, ResourceStep(h)
        PROVE  h = g
    BY <1>1, <2>1, <2>3, OwnStep, ZenonT(40)
       DEF ResourceStep, NewNetwork, NewNetworkFails, NewVolume, Make, FindNetwork, FindVolume,
           BeginInspect, BeginTerminate, BeginWith, Hit, Ask, Keep, CleanupClient, RemoveRefused,
           Removed, BeginRemoval, EndRemoval
  <2>4. ASSUME NEW h \in Callers, NEW use, NEW o, NEW id, BeginNew(h, use, o, id)
        PROVE  FALSE
    <3>1. h # g
      BY <1>1, <2>4 DEF BeginNew
    <3>2. call'[g] = call[g]
      BY <1>1, <2>4, <3>1, OwnStep DEF BeginNew
    <3>3. QED
      BY <1>1, <2>1, <3>2
  <2>5. call'[g] # call[g]
    BY <1>1, <2>1
  <2>6. ~(World /\ UNCHANGED resources)
    <3>1. ASSUME NEW name, UseContext(name)
          PROVE  FALSE
      <4>1. call'[g] = [call[g] EXCEPT !.seen = @ \cup {name}]
        BY <1>1, <3>1 DEF UseContext
      <4>2. call'[g].at = call[g].at
        BY <2>1, <4>1 DEF Calls
      <4>3. QED
        BY <1>1, <2>1, <4>2
    <3>2. QED
      BY <2>5, <3>1 DEF World, EnginesStart, EnginesStop
  <2>7. ~UNCHANGED vars /\ ~\E id \in DOMAIN store :
                              RemovedByOthers(id) \/ \E used \in BOOLEAN : Attach(id, used)
    BY <2>5 DEF vars, clientVars, RemovedByOthers, Attach
  <2>8. \/ ClientStep(g) /\ UNCHANGED resources
        \/ ResourceStep(g)
    BY <1>1, <2>2, <2>3, <2>4, <2>6, <2>7, NextIs DEF BeginNewClientFor, BeginCleanupByID
  <2>9. QED
    BY <1>1, <2>8, ClientFails, RemovalsEnd
<1>2. ResourcesInv /\ [Next]_vars =>
        [\A g \in Callers :
           call[g].use \in Removals /\ ~Idle(g) /\ Idle(g)' /\ call'[g].err = "none"
             => call[g].id \notin (DOMAIN store \ removing)']_vars
  BY <1>1 DEF Idle
<1>3. QED
  BY <1>2, ResourcesHold, PTL DEF Spec, NothingLeft

=============================================================================
