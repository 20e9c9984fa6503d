--------------------------- MODULE RunRequest_proofs ---------------------------
(***************************************************************************)
(* Proofs about Run: for any number of calls with any options in any       *)
(* order, whatever fails and whichever networks others remove.             *)
(***************************************************************************)
EXTENDS RunRequest, SequenceTheorems, FiniteSetTheorems, NaturalsInduction, TLAPS

\* A finite sequence of whatever values.
IsList(s) == s \in Seq(ToSet(s))

\* The fields of a call, of a container and of a definition; the lists among the last.
CallFields == {"at", "next", "def", "err", "todo", "walk", "back"}
IsDefinition(d) ==
  /\ DOMAIN d = DOMAIN Blank
  /\ IsList(d.files) /\ IsList(d.ports) /\ IsList(d.networks) /\ IsList(d.endpoints)

\* Where a call is with its container, and how far it has come.
Started == {"PostStarts", "PostReadies", "dispatch"}
Bound(p, d) == Len(p) + Len(d.files) + Len(d.networks) + 1

\* Where the call is goes with what became of its container, and no index leaves its list.
Phase(p, c, b) ==
  /\ DOMAIN c = CallFields /\ DOMAIN b = DOMAIN NoBox /\ IsDefinition(c.def)
  /\ c.at \in {"customize", "preCreate", "create", "connect", "copy", "done"} \cup Started
  /\ b.state \in {"none", "created", "running"}
  /\ c.at \in {"customize", "preCreate"} => b = NoBox
  /\ c.at = "create" => b.state = "none"
  /\ c.at \in {"connect", "copy"} => b.state = "created"
  /\ c.at \in Started => b.state = "running"
  /\ c.at = "dispatch" => c.back \in {"PostStarts", "PostReadies"}
  /\ c.next \in 1..Bound(p, c.def)
  /\ c.at = "customize" => c.next <= Len(p) + 1
  /\ c.at = "connect" => c.next = 1 \/ c.next <= Len(c.def.networks)
  /\ c.at = "copy" => c.next <= Len(c.def.files) + 1
  /\ c.at = "dispatch" => Len(c.walk) \in 0..Len(c.def.files) /\ c.next <= Len(c.walk) + 1

\* What the first k options of a plan were given under one name, and the commands that
\* they registered as scripts.
GivenTo(p, k, opt) ==
  UNION {ToSet(Options[p[i]].arg) : i \in {j \in 1..k : Options[p[j]].opt = opt}}
ScriptsTo(p, k) == {e.cmd : e \in UNION {GivenTo(p, k, opt) : opt \in DurableOptions}}

\* No script lies where another one does: each has a number below the next one of its directory.
Apart(files) ==
  /\ \A i, j \in 1..Len(files) :
       IsScript(files[i]) /\ IsScript(files[j]) /\ files[i].path = files[j].path => i = j
  /\ \A i \in 1..Len(files) : IsScript(files[i]) =>
       /\ files[i].source = "own" /\ files[i].path.cmd \in Nat
       /\ files[i].path.cmd < NextCmd(files, files[i].path.index, files[i].path.ns)

\* A script of this Run, or its dispatcher.
Own(f) ==
  f.source = "own" /\ (IsScript(f) \/ (f.path = Dispatcher /\ f.body = "run.sh"))

\* The definition has what the first k options were given, and its files are of them.
Applied(p, k, d) ==
  /\ ToSet(d.ports) = GivenTo(p, k, "WithExposedPorts")
  /\ GivenTo(p, k, "WithFiles") \subseteq ToSet(d.files)
  /\ \A cmd \in ScriptsTo(p, k) : \E i \in 1..Len(d.files) :
       IsScript(d.files[i]) /\ d.files[i].source = "own" /\ d.files[i].body = cmd
  /\ ScriptsTo(p, k) # {} => \E i \in 1..Len(d.files) : d.files[i].path = Dispatcher
  /\ (\A f \in GivenTo(p, k, "WithFiles") : ~IsScript(f)) => Apart(d.files)
  /\ \A f \in ToSet(d.files) : f \in GivenTo(p, k, "WithFiles") \/ Own(f)

\* From the pre-create hook on, every option has been applied.
Whole(c, b) == c.at \in {"preCreate", "create", "connect", "copy"} \/ b.state # "none"
Kept(p, c, b) ==
  /\ c.at = "customize" => Applied(p, c.next - 1, c.def)
  /\ Whole(c, b) => Applied(p, Len(p), c.def)

\* The container is in the first k networks of the definition, as far as the caller's first
\* modifier leaves them alone.
Joined(d, nets, k) ==
  \A i \in 1..Len(d.networks) : i <= k /\ d.networks[i] \notin Touched(d) =>
    /\ d.networks[i] \in DOMAIN nets
    /\ Aliases(d, d.networks[i]) # <<>> =>
         nets[d.networks[i]].aliases = Aliases(d, d.networks[i])

\* The call joins the networks in their order.
Networked(c, b) ==
  /\ c.at = "create" => b.nets = Endpoints(c.def, FirstEndpoint(c.def))
  /\ c.at = "connect" => Joined(c.def, b.nets, c.next)
  /\ c.at = "copy" \/ b.state = "running" => Joined(c.def, b.nets, Len(c.def.networks))

\* The container is created with the bindings of the definition.
Published(c, b) ==
  c.at = "create" \/ b.state # "none" =>
    b.bindings = Bindings(c.def) /\ b.publishAll = PublishAll(c.def)

\* Some file of the definition left its content at a path, or a reader what was left in it.
Left(d, files, path) ==
  \E i \in 1..Len(d.files) :
    Lands(d.files[i]) = path /\ (d.files[i].source # "shared" => files[path] = d.files[i].body)

\* The first k files of the definition are in the container, where a file may come to lie
\* over an earlier one.
Copied(d, files, k) ==
  \A i \in 1..Len(d.files) : i <= k =>
    Lands(d.files[i]) \in DOMAIN files /\ Left(d, files, Lands(d.files[i]))

\* The call copies the files in their order, and all of them before the start.
Filled(c, b) ==
  /\ DOMAIN b.files \subseteq {Lands(c.def.files[i]) : i \in 1..Len(c.def.files)}
  /\ c.at = "copy" => Copied(c.def, b.files, c.next - 1)
  /\ b.state = "running" => Copied(c.def, b.files, Len(c.def.files))

\* The invariant, for one call with its container and for all of them.
CallInv(p, c, b) ==
  Phase(p, c, b) /\ Kept(p, c, b) /\ Networked(c, b) /\ Published(c, b) /\ Filled(c, b)

RequestInv ==
  /\ plan \in Plans
  /\ DOMAIN run = Runs /\ DOMAIN box = Runs
  /\ networks \subseteq {"bridge", "app", "db"} \cup NewNetworks
  /\ faults \in 0..MaxFaults
  /\ \A r \in Runs : CallInv(plan, run[r], box[r])
-----------------------------------------------------------------------------
(* Lists.                                                                  *)

\* A list is a function on an initial segment, and its items are what it holds.
LEMMA ListItems ==
  ASSUME NEW s, IsList(s)
  PROVE  /\ Len(s) \in Nat /\ DOMAIN s = 1..Len(s) /\ s = [i \in 1..Len(s) |-> s[i]]
         /\ \A x : x \in ToSet(s) <=> \E i \in 1..Len(s) : x = s[i]
<1>1. Len(s) \in Nat /\ DOMAIN s = 1..Len(s) /\ s = [i \in 1..Len(s) |-> s[i]]
  BY LenProperties DEF IsList
<1>2. QED
  BY <1>1 DEF ToSet

\* What is a function on an initial segment is a list.
LEMMA ListOf ==
  ASSUME NEW n \in Nat, NEW s, s = [i \in 1..n |-> s[i]]
  PROVE  IsList(s) /\ Len(s) = n
<1>1. DOMAIN s = 1..n
  OBVIOUS
<1>2. \A i \in 1..n : s[i] \in ToSet(s)
  BY <1>1 DEF ToSet
<1>3. s \in [1..n -> ToSet(s)]
  BY <1>1, <1>2
<1>4. s \in Seq(ToSet(s))
  BY <1>3, SeqDef
<1>5. QED
  BY <1>1, <1>4, LenProperties DEF IsList

\* Two lists put together.
LEMMA ListConcat ==
  ASSUME NEW s, NEW t, IsList(s), IsList(t)
  PROVE  /\ IsList(s \o t) /\ Len(s \o t) = Len(s) + Len(t)
         /\ \A i \in 1..Len(s) : (s \o t)[i] = s[i]
         /\ \A i \in 1..Len(t) : (s \o t)[Len(s) + i] = t[i]
         /\ ToSet(s \o t) = ToSet(s) \cup ToSet(t)
<1> DEFINE both == ToSet(s) \cup ToSet(t)
<1>1. /\ Len(s) \in Nat /\ s = [i \in 1..Len(s) |-> s[i]]
      /\ Len(t) \in Nat /\ t = [i \in 1..Len(t) |-> t[i]]
  BY ListItems
<1>2. s \in Seq(both) /\ t \in Seq(both)
  BY SeqMonotonic DEF IsList
<1>3. /\ s \o t \in Seq(both) /\ Len(s \o t) = Len(s) + Len(t)
      /\ \A i \in 1..Len(s) + Len(t) :
           (s \o t)[i] = IF i <= Len(s) THEN s[i] ELSE t[i - Len(s)]
  <2>1. s \o t \in Seq(both) /\ Len(s \o t) = Len(s) + Len(t)
    BY <1>2, ConcatProperties
  <2> HIDE DEF both
  <2>2. \A i \in 1..Len(s) + Len(t) :
          (s \o t)[i] = IF i <= Len(s) THEN s[i] ELSE t[i - Len(s)]
    BY <1>2, ConcatProperties
  <2>3. QED
    BY <2>1, <2>2
<1>4. IsList(s \o t)
  <2> DEFINE all == s \o t
  <2>1. all \in Seq(both)
    BY <1>3
  <2> HIDE DEF all, both
  <2>2. Len(all) \in Nat /\ all = [i \in 1..Len(all) |-> all[i]]
    BY <2>1, LenProperties
  <2>3. IsList(all)
    BY <2>2, ListOf
  <2>4. QED
    BY <2>3 DEF all
<1>5. \A i \in 1..Len(s) : (s \o t)[i] = s[i]
  BY <1>1, <1>3
<1>6. \A i \in 1..Len(t) : (s \o t)[Len(s) + i] = t[i]
  <2>1. TAKE i \in 1..Len(t)
  <2>2. Len(s) + i \in 1..Len(s) + Len(t) /\ ~(Len(s) + i <= Len(s)) /\ Len(s) + i - Len(s) = i
    BY <1>1
  <2>3. QED
    BY <1>3, <2>2
<1>7. ToSet(s \o t) \subseteq ToSet(s) \cup ToSet(t)
  BY <1>3, ListItems, <1>4, ElementOfSeq DEF ToSet
<1>8. ToSet(s) \subseteq ToSet(s \o t)
  <2>1. SUFFICES ASSUME NEW x \in ToSet(s)
                 PROVE  x \in ToSet(s \o t)
    OBVIOUS
  <2>2. PICK i \in 1..Len(s) : x = s[i]
    BY <2>1, ListItems
  <2>3. i \in 1..Len(s \o t) /\ x = (s \o t)[i]
    BY <1>1, <1>3, <1>5, <2>2
  <2>4. QED
    BY <1>4, <2>3, ListItems
<1>9. ToSet(t) \subseteq ToSet(s \o t)
  <2>1. SUFFICES ASSUME NEW x \in ToSet(t)
                 PROVE  x \in ToSet(s \o t)
    OBVIOUS
  <2>2. PICK i \in 1..Len(t) : x = t[i]
    BY <2>1, ListItems
  <2>3. Len(s) + i \in 1..Len(s \o t) /\ x = (s \o t)[Len(s) + i]
    BY <1>1, <1>3, <1>6, <2>2
  <2>4. QED
    BY <1>4, <2>3, ListItems
<1>10. QED
  BY <1>3, <1>4, <1>5, <1>6, <1>7, <1>8, <1>9

\* A list with one item more.
LEMMA ListAppend ==
  ASSUME NEW s, NEW x, IsList(s)
  PROVE  /\ IsList(Append(s, x)) /\ IsList(<<x>>) /\ IsList(<<>>)
         /\ Len(Append(s, x)) = Len(s) + 1
<1>1. IsList(<<x>>) /\ IsList(<<>>) /\ Len(<<x>>) = 1
  BY DEF IsList, ToSet
<1>2. s \in Seq(ToSet(s) \cup {x})
  BY SeqMonotonic DEF IsList
<1>3. Append(s, x) = s \o <<x>>
  BY <1>2, AppendIsConcat
<1>4. QED
  BY <1>1, <1>3, ListConcat
-----------------------------------------------------------------------------
(* The two recursive functions of the options: what the modifiers make of  *)
(* the settings, and the bindings of the specs one by one.                 *)

\* The start of either, and the value after k from the one before it.
First(what) == IF what.of = "endpoints" THEN what.from ELSE Empty
After(what, k, before) ==
  IF what.of = "endpoints"
  THEN LET now == Modified(before, what.list[k])
       IN  IF k = 1 THEN now ELSE Restored(before, now)
  ELSE LET port  == what.list[k].port
           hosts == IF port \in DOMAIN before THEN before[port] ELSE <<>>
       IN  With(before, port, Append(hosts, what.list[k].host))

Computes(f, what, n) ==
  f = [k \in 0..n |-> IF k = 0 THEN First(what) ELSE After(what, k, f[k - 1])]

\* Every set of natural numbers that has some has a least one.
LEMMA Least ==
  ASSUME NEW T \in SUBSET Nat, T # {}
  PROVE  \E n \in T : \A m \in T : n <= m
<1> DEFINE R == {ss \in Nat \X Nat : ss[1] < ss[2]}
<1>1. IsWellFoundedOn(R, Nat)
  BY NatLessThanWellFounded DEF OpToRel
<1>2. PICK x \in T : \A y \in T : <<y, x>> \notin R
  <2> HIDE DEF R
  <2> QED
    BY <1>1, WFMin
<1>3. ASSUME NEW y \in T, y < x
      PROVE  FALSE
  <2>1. <<y, x>> \in Nat \X Nat /\ <<y, x>>[1] = y /\ <<y, x>>[2] = x
    OBVIOUS
  <2>2. QED
    BY <1>2, <1>3, <2>1
<1>4. QED
  BY <1>3

\* There is a function that computes either, however long its list is.
LEMMA Computable ==
  ASSUME NEW what, NEW n \in Nat
  PROVE  \E f : Computes(f, what, n)
<1> DEFINE T == {m \in Nat : ~\E f : Computes(f, what, m)}
<1>1. SUFFICES ASSUME T # {}
               PROVE  FALSE
  OBVIOUS
<1>2. PICK m \in T : \A l \in T : m <= l
  <2>1. T \in SUBSET Nat
    OBVIOUS
  <2> HIDE DEF T
  <2>2. QED
    BY <1>1, <2>1, Least
<1>3. CASE m = 0
  <2>1. Computes([k \in 0..0 |-> First(what)], what, 0)
    BY DEF Computes
  <2>2. QED
    BY <1>3, <2>1
<1>4. CASE m # 0
  <2>1. m - 1 \in Nat /\ m - 1 \notin T
    BY <1>2, <1>4
  <2>2. PICK f : Computes(f, what, m - 1)
    BY <2>1
  <2> DEFINE g == [k \in 0..m |-> IF k < m THEN f[k] ELSE After(what, m, f[m - 1])]
  <2>3. ASSUME NEW k \in 0..m
        PROVE  g[k] = IF k = 0 THEN First(what) ELSE After(what, k, g[k - 1])
    <3>1. CASE k = 0
      BY <1>4, <2>1, <2>2, <3>1 DEF Computes
    <3>2. CASE k # 0
      <4>1. k - 1 \in 0..m /\ k - 1 < m
        BY <3>2
      <4>2. g[k - 1] = f[k - 1]
        BY <4>1
      <4>3. CASE k = m
        BY <3>2, <4>2, <4>3
      <4>4. CASE k # m
        <5>1. k \in 0..(m - 1) /\ k < m
          BY <4>4
        <5>2. f[k] = After(what, k, f[k - 1])
          BY <2>2, <3>2, <5>1 DEF Computes
        <5>3. QED
          BY <3>2, <4>2, <5>1, <5>2
      <4>5. QED
        BY <4>3, <4>4
    <3>3. QED
      BY <3>1, <3>2
  <2>4. g = [k \in 0..m |-> g[k]]
    OBVIOUS
  <2> HIDE DEF g
  <2>5. Computes(g, what, m)
    BY <2>3, <2>4 DEF Computes
  <2>6. QED
    BY <2>5
<1>5. QED
  BY <1>3, <1>4

\* What such a function is at its start and at each further argument.
LEMMA ComputedStep ==
  ASSUME NEW f, NEW what, NEW n \in Nat, Computes(f, what, n)
  PROVE  /\ f[0] = First(what)
         /\ \A k \in 1..n : f[k] = After(what, k, f[k - 1])
<1>1. f[0] = First(what)
  BY DEF Computes
<1>2. ASSUME NEW k \in 1..n
      PROVE  f[k] = After(what, k, f[k - 1])
  BY DEF Computes
<1>3. QED
  BY <1>1, <1>2

\* Endpoints is computed in this way from the modifiers.
LEMMA EndpointsComputed ==
  ASSUME NEW d, NEW settings, Len(d.endpoints) \in Nat
  PROVE  \E f : /\ Computes(f, [of |-> "endpoints", from |-> settings, list |-> d.endpoints],
                            Len(d.endpoints))
                /\ Endpoints(d, settings) = f[Len(d.endpoints)]
<1> DEFINE what == [of |-> "endpoints", from |-> settings, list |-> d.endpoints]
           n == Len(d.endpoints)
           f == CHOOSE f : f = [k \in 0..n |-> IF k = 0 THEN First(what)
                                               ELSE After(what, k, f[k - 1])]
<1>1. Computes(f, what, n)
  BY Computable DEF Computes
<1>2. Endpoints(d, settings) = f[n]
  BY DEF Endpoints, First, After
<1>3. QED
  BY <1>1, <1>2

\* So is Exposed from the specs.
LEMMA ExposedComputed ==
  ASSUME NEW specs, Len(specs) \in Nat
  PROVE  \E f : /\ Computes(f, [of |-> "ports", from |-> Empty, list |-> specs], Len(specs))
                /\ Exposed(specs) = f[Len(specs)]
<1> DEFINE what == [of |-> "ports", from |-> Empty, list |-> specs]
           n == Len(specs)
           f == CHOOSE f : f = [k \in 0..n |-> IF k = 0 THEN First(what)
                                               ELSE After(what, k, f[k - 1])]
<1>1. Computes(f, what, n)
  BY Computable DEF Computes
<1>2. Exposed(specs) = f[n]
  BY DEF Exposed, First, After
<1>3. QED
  BY <1>1, <1>2

\* The additions to the settings of the networks take away neither a network nor its
\* aliases, unless the first modifier did.
LEMMA EndpointsKeep ==
  ASSUME NEW d, IsList(d.endpoints), NEW settings, NEW n \in DOMAIN settings, n \notin Touched(d)
  PROVE  /\ n \in DOMAIN Endpoints(d, settings)
         /\ settings[n].aliases # <<>> =>
              Endpoints(d, settings)[n].aliases = settings[n].aliases
<1> DEFINE last == Len(d.endpoints)
           what == [of |-> "endpoints", from |-> settings, list |-> d.endpoints]
           Same(s) == n \in DOMAIN s /\ (settings[n].aliases # <<>> => s[n].aliases = settings[n].aliases)
<1>1. last \in Nat
  BY ListItems
<1>2. PICK f : Computes(f, what, last) /\ Endpoints(d, settings) = f[last]
  BY <1>1, EndpointsComputed
<1>3. /\ f[0] = settings
      /\ \A k \in 1..last : f[k] = LET now == Modified(f[k - 1], d.endpoints[k])
                                   IN  IF k = 1 THEN now ELSE Restored(f[k - 1], now)
  BY <1>1, <1>2, ComputedStep DEF First, After
<1> DEFINE Off == {k \in 0..last : ~Same(f[k])}
<1>4. Off = {}
  <2>1. SUFFICES ASSUME Off # {}
                 PROVE  FALSE
    OBVIOUS
  <2>2. PICK k \in Off : \A m \in Off : k <= m
    <3>1. Off \in SUBSET Nat
      BY <1>1
    <3> HIDE DEF Off
    <3>2. QED
      BY <2>1, <3>1, Least
  <2>3. k \in 0..last /\ ~Same(f[k])
    BY <2>2
  <2>4. k # 0
    BY <1>3, <2>3
  <2>5. k - 1 \in 0..last /\ Same(f[k - 1])
    BY <1>1, <2>2, <2>4
  <2> DEFINE now == Modified(f[k - 1], d.endpoints[k])
  <2>6. CASE k = 1
    <3>1. f[k] = now /\ f[k - 1] = settings
      BY <1>1, <1>3, <2>3, <2>4, <2>6
    <3>2. d.endpoints # <<>> /\ Head(d.endpoints) = d.endpoints[1]
      BY <2>3, <2>6 DEF IsList
    <3>3. LET m == d.endpoints[1] IN n \notin m.drop /\ n \notin m.null /\ n \notin DOMAIN m.set
      BY <3>2 DEF Touched
    <3>4. n \in DOMAIN now /\ now[n] = settings[n]
      BY <2>6, <3>1, <3>3 DEF Modified
    <3>5. QED
      BY <2>3, <3>1, <3>4
  <2>7. CASE k # 1
    <3>1. f[k] = Restored(f[k - 1], now)
      BY <1>3, <2>3, <2>4, <2>7
    <3> DEFINE before == f[k - 1]
    <3>2. Same(before)
      BY <2>5
    <3> HIDE DEF now, before
    <3>3. Same(Restored(before, now))
      BY <3>2 DEF Restored, Merged
    <3>4. QED
      BY <2>3, <3>1, <3>3 DEF before
  <2>8. QED
    BY <2>6, <2>7
<1>5. QED
  BY <1>1, <1>2, <1>4

\* A port is exposed when a spec names it, and then has the host part of a spec.
LEMMA ExposedPorts ==
  ASSUME NEW specs, IsList(specs)
  PROVE  /\ DOMAIN Exposed(specs) = {spec.port : spec \in ToSet(specs)}
         /\ \A p \in DOMAIN Exposed(specs) : \E s, x : Exposed(specs)[p] = Append(s, x) /\ IsList(s)
<1> DEFINE last == Len(specs)
           what == [of |-> "ports", from |-> Empty, list |-> specs]
           PortsOf(k) == {specs[i].port : i \in 1..k}
           Right(k, e) == /\ DOMAIN e = PortsOf(k)
                          /\ \A p \in DOMAIN e : \E s, x : e[p] = Append(s, x) /\ IsList(s)
<1>1. last \in Nat
  BY ListItems
<1>2. PICK f : Computes(f, what, last) /\ Exposed(specs) = f[last]
  BY <1>1, ExposedComputed
<1>3. /\ f[0] = Empty
      /\ \A k \in 1..last :
           LET port  == specs[k].port
               hosts == IF port \in DOMAIN f[k - 1] THEN f[k - 1][port] ELSE <<>>
           IN  f[k] = With(f[k - 1], port, Append(hosts, specs[k].host))
  BY <1>1, <1>2, ComputedStep DEF First, After
<1>4. Right(0, f[0])
  BY <1>3 DEF Empty
<1> HIDE DEF Right
<1> DEFINE Off == {k \in 0..last : ~Right(k, f[k])}
<1>5. Off = {}
  <2>1. SUFFICES ASSUME Off # {}
                 PROVE  FALSE
    OBVIOUS
  <2>2. PICK k \in Off : \A m \in Off : k <= m
    <3>1. Off \in SUBSET Nat
      BY <1>1
    <3> HIDE DEF Off
    <3>2. QED
      BY <2>1, <3>1, Least
  <2>3. k \in 0..last /\ ~Right(k, f[k])
    BY <2>2
  <2>4. k # 0
    BY <1>4, <2>3
  <2>5. k - 1 \in 0..last /\ Right(k - 1, f[k - 1])
    BY <1>1, <2>2, <2>4
  <2> DEFINE before == f[k - 1]
             port == specs[k].port
             hosts == IF port \in DOMAIN before THEN before[port] ELSE <<>>
             more == Append(hosts, specs[k].host)
  <2>6. f[k] = With(before, port, more)
    BY <1>3, <2>3, <2>4
  <2>7. more = Append(hosts, specs[k].host)
    OBVIOUS
  <2>8. IsList(hosts)
    <3>1. CASE port \in DOMAIN before
      <4>1. PICK s, x : before[port] = Append(s, x) /\ IsList(s)
        BY <2>5, <3>1 DEF Right
      <4>2. QED
        BY <3>1, <4>1, ListAppend
    <3>2. CASE port \notin DOMAIN before
      BY <3>2, ListAppend
    <3>3. QED
      BY <3>1, <3>2
  <2>9. PortsOf(k) = PortsOf(k - 1) \cup {port}
    BY <1>1, <2>3, <2>4
  <2>10. /\ DOMAIN before = PortsOf(k - 1)
         /\ \A p \in DOMAIN before : \E s, x : before[p] = Append(s, x) /\ IsList(s)
    BY <2>5 DEF Right
  <2> HIDE DEF before, hosts, more, PortsOf, port
  <2>11. DOMAIN With(before, port, more) = PortsOf(k)
    BY <2>7, <2>9, <2>10 DEF With
  <2>12. ASSUME NEW p \in DOMAIN With(before, port, more)
         PROVE  \E s, x : With(before, port, more)[p] = Append(s, x) /\ IsList(s)
    <3>1. CASE p = port
      <4>1. With(before, port, more)[p] = more
        BY <2>7, <3>1 DEF With
      <4>2. QED
        BY <2>7, <2>8, <4>1
    <3>2. CASE p # port
      <4>1. p \in DOMAIN before /\ With(before, port, more)[p] = before[p]
        BY <2>7, <2>12, <3>2 DEF With
      <4>2. QED
        BY <2>10, <4>1
    <3>3. QED
      BY <3>1, <3>2
  <2>13. QED
    BY <2>3, <2>6, <2>11, <2>12 DEF Right
<1>6. Right(last, f[last])
  BY <1>1, <1>5
<1>7. PortsOf(last) = {spec.port : spec \in ToSet(specs)}
  BY ListItems
<1>8. QED
  BY <1>2, <1>6, <1>7 DEF Right
-----------------------------------------------------------------------------
(* The files and scripts of a definition.                                  *)

\* The positions at which a directory has its scripts: NextCmd counts them.
ScriptsIn(files, index, ns) ==
  {i \in 1..Len(files) : IsScript(files[i]) /\ files[i].path.index = index /\ files[i].path.ns = ns}

\* They are finitely many, whose number is what NextCmd returns.
LEMMA NextCmdCounts ==
  ASSUME NEW files, IsList(files), NEW index, NEW ns
  PROVE  /\ IsFiniteSet(ScriptsIn(files, index, ns))
         /\ NextCmd(files, index, ns) = Cardinality(ScriptsIn(files, index, ns))
         /\ NextCmd(files, index, ns) \in Nat
<1>1. DOMAIN files = 1..Len(files) /\ Len(files) \in Nat
  BY ListItems
<1>2. ScriptsIn(files, index, ns) \in SUBSET (1..Len(files))
  BY DEF ScriptsIn
<1>3. IsFiniteSet(ScriptsIn(files, index, ns))
  <2>1. IsFiniteSet(1..Len(files))
    BY <1>1, FS_Interval
  <2>2. QED
    BY <1>2, <2>1, FS_Subset
<1>4. NextCmd(files, index, ns) = Cardinality(ScriptsIn(files, index, ns))
  BY <1>1 DEF NextCmd, ScriptsIn
<1>5. QED
  BY <1>3, <1>4, FS_CardinalityType

\* Files that are added make no number smaller.
LEMMA NextCmdGrows ==
  ASSUME NEW files, NEW more, IsList(files), IsList(more), NEW index, NEW ns
  PROVE  NextCmd(files, index, ns) <= NextCmd(files \o more, index, ns)
<1>1. IsList(files \o more)
  BY ListConcat
<1>2. ScriptsIn(files, index, ns) \in SUBSET ScriptsIn(files \o more, index, ns)
  <2>1. SUFFICES ASSUME NEW i \in ScriptsIn(files, index, ns)
                 PROVE  i \in ScriptsIn(files \o more, index, ns)
    OBVIOUS
  <2>2. /\ Len(files) \in Nat /\ Len(more) \in Nat /\ Len(files \o more) = Len(files) + Len(more)
        /\ i \in 1..Len(files) /\ (files \o more)[i] = files[i]
    BY ListConcat, ListItems DEF ScriptsIn
  <2>3. i \in 1..Len(files \o more)
    BY <2>2
  <2>4. QED
    BY <2>2, <2>3 DEF ScriptsIn
<1>3. QED
  BY <1>1, <1>2, NextCmdCounts, FS_Subset

\* The next number of a directory grows with every script added to it.
LEMMA NextCmdOfScripts ==
  ASSUME NEW files, NEW more, IsList(files), IsList(more), NEW index, NEW ns,
         \A i \in 1..Len(more) :
           IsScript(more[i]) /\ more[i].path.index = index /\ more[i].path.ns = ns
  PROVE  NextCmd(files \o more, index, ns) >= NextCmd(files, index, ns) + Len(more)
<1> DEFINE n == Len(files)
           m == Len(more)
           old == ScriptsIn(files, index, ns)
           new == (n + 1)..(n + m)
           all == ScriptsIn(files \o more, index, ns)
<1>1. /\ n \in Nat /\ m \in Nat /\ IsList(files \o more) /\ Len(files \o more) = n + m
      /\ \A i \in 1..n : (files \o more)[i] = files[i]
      /\ \A i \in 1..m : (files \o more)[n + i] = more[i]
  BY ListConcat, ListItems
<1>2. IsFiniteSet(old) /\ IsFiniteSet(new) /\ Cardinality(new) = m
  <2>1. n + 1 \in Int /\ n + m \in Int /\ (n + 1 > n + m => m = 0) /\ (n + m) - (n + 1) + 1 = m
    BY <1>1
  <2>2. IsFiniteSet(new) /\ Cardinality(new) = m
    BY <2>1, FS_Interval
  <2>3. QED
    BY <2>2, NextCmdCounts
<1>3. old \cap new = {}
  BY <1>1 DEF ScriptsIn
<1>4. old \subseteq all
  <2>1. \A i \in 1..n : i \in 1..Len(files \o more)
    BY <1>1
  <2>2. QED
    BY <1>1, <2>1 DEF ScriptsIn
<1>5. new \subseteq all
  <2>1. SUFFICES ASSUME NEW k \in new
                 PROVE  k \in all
    OBVIOUS
  <2>2. k - n \in 1..m /\ k = n + (k - n) /\ k \in 1..Len(files \o more)
    <3>1. n \in Nat /\ m \in Nat /\ Len(files \o more) = n + m
      BY <1>1
    <3> HIDE DEF n, m
    <3>2. k - n \in 1..m /\ k = n + (k - n) /\ k \in 1..(n + m)
      BY <3>1
    <3>3. QED
      BY <3>1, <3>2
  <2>3. (files \o more)[k] = more[k - n]
    BY <1>1, <2>2
  <2>4. IsScript(more[k - n]) /\ more[k - n].path.index = index /\ more[k - n].path.ns = ns
    BY <2>2
  <2> HIDE DEF n, m
  <2>5. QED
    BY <2>2, <2>3, <2>4 DEF ScriptsIn
<1>6. Cardinality(old \cup new) = Cardinality(old) + m
  <2> HIDE DEF old, new
  <2>1. Cardinality(old \cup new) = Cardinality(old) + Cardinality(new) - Cardinality({})
    BY <1>2, <1>3, FS_Union
  <2>2. Cardinality(old) \in Nat
    BY <1>2, FS_CardinalityType
  <2>3. QED
    BY <1>1, <1>2, <2>1, <2>2, FS_EmptySet
<1>7. Cardinality(old \cup new) <= Cardinality(all)
  <2>1. IsFiniteSet(all) /\ (old \cup new) \in SUBSET all
    BY <1>1, <1>4, <1>5, NextCmdCounts
  <2> HIDE DEF old, new, all
  <2>2. QED
    BY <2>1, FS_Subset
<1>8. NextCmd(files, index, ns) = Cardinality(old) /\ NextCmd(files \o more, index, ns) = Cardinality(all)
  BY <1>1, NextCmdCounts
<1>9. QED
  <2>1. Cardinality(old) \in Nat /\ Cardinality(all) \in Nat
    BY <1>1, <1>2, NextCmdCounts, FS_CardinalityType
  <2> HIDE DEF old, all, new
  <2>2. QED
    BY <1>1, <1>6, <1>7, <1>8, <2>1

\* Files that are no scripts leave the scripts apart.
LEMMA ApartFromOthers ==
  ASSUME NEW files, NEW more, IsList(files), IsList(more), Apart(files),
         \A i \in 1..Len(more) : ~IsScript(more[i])
  PROVE  Apart(files \o more)
<1> DEFINE n == Len(files)
           m == Len(more)
           all == files \o more
<1>1. /\ n \in Nat /\ m \in Nat /\ Len(all) = n + m
      /\ \A i \in 1..n : all[i] = files[i]
      /\ \A i \in 1..m : all[n + i] = more[i]
  BY ListConcat, ListItems
<1>2. \A i \in 1..Len(all) : IsScript(all[i]) => i \in 1..n /\ all[i] = files[i]
  <2>1. SUFFICES ASSUME NEW i \in 1..Len(all), i \notin 1..n
                 PROVE  ~IsScript(all[i])
    BY <1>1
  <2>2. i - n \in 1..m /\ n + (i - n) = i
    BY <1>1, <2>1
  <2>3. all[i] = more[i - n]
    BY <1>1, <2>2
  <2>4. QED
    BY <2>2, <2>3
<1>3. \A index, ns : NextCmd(files, index, ns) <= NextCmd(all, index, ns)
  BY NextCmdGrows
<1>4. \A index, ns : NextCmd(files, index, ns) \in Nat /\ NextCmd(all, index, ns) \in Nat
  BY ListConcat, NextCmdCounts
<1> HIDE DEF all, n
<1>5. ASSUME NEW i \in 1..Len(all), NEW j \in 1..Len(all),
             IsScript(all[i]), IsScript(all[j]), all[i].path = all[j].path
      PROVE  i = j
  <2>1. i \in 1..n /\ j \in 1..n /\ all[i] = files[i] /\ all[j] = files[j]
    BY <1>2, <1>5
  <2>2. QED
    BY <1>5, <2>1 DEF Apart, n
<1>6. ASSUME NEW i \in 1..Len(all), IsScript(all[i])
      PROVE  /\ all[i].source = "own" /\ all[i].path.cmd \in Nat
             /\ all[i].path.cmd < NextCmd(all, all[i].path.index, all[i].path.ns)
  <2>1. i \in 1..n /\ all[i] = files[i]
    BY <1>2, <1>6
  <2>2. /\ all[i].source = "own" /\ all[i].path.cmd \in Nat
        /\ all[i].path.cmd < NextCmd(files, all[i].path.index, all[i].path.ns)
    BY <1>6, <2>1 DEF Apart, n
  <2>3. QED
    BY <1>3, <1>4, <2>2
<1>7. QED
  BY <1>5, <1>6 DEF Apart, all

\* So do scripts with the next numbers of their directory.
LEMMA ApartFromScripts ==
  ASSUME NEW files, NEW more, IsList(files), IsList(more), Apart(files), NEW index, NEW ns,
         \A i \in 1..Len(more) :
           /\ more[i].path = Script(index, ns, NextCmd(files, index, ns) + i - 1)
           /\ more[i].source = "own"
  PROVE  Apart(files \o more)
<1> DEFINE n == Len(files)
           m == Len(more)
           all == files \o more
           next == NextCmd(files, index, ns)
<1>1. /\ n \in Nat /\ m \in Nat /\ Len(all) = n + m /\ IsList(all)
      /\ \A i \in 1..n : all[i] = files[i]
      /\ \A i \in 1..m : all[n + i] = more[i]
  BY ListConcat, ListItems
<1>2. /\ \A ix, name : NextCmd(files, ix, name) <= NextCmd(all, ix, name)
      /\ \A ix, name : NextCmd(files, ix, name) \in Nat /\ NextCmd(all, ix, name) \in Nat
      /\ next \in Nat
  BY <1>1, NextCmdGrows, NextCmdCounts
<1>3. \A i \in 1..m : /\ IsScript(more[i]) /\ more[i].path.index = index /\ more[i].path.ns = ns
                      /\ more[i].path.cmd = next + i - 1 /\ more[i].source = "own"
  <2>1. TAKE i \in 1..m
  <2>2. more[i].path = Script(index, ns, next + i - 1) /\ more[i].source = "own"
    OBVIOUS
  <2> HIDE DEF next
  <2>3. QED
    BY <2>2 DEF IsScript, Script
<1>4. NextCmd(all, index, ns) >= next + m
  BY <1>3, NextCmdOfScripts
<1>5. \A i \in 1..Len(all) : i \in 1..n \/ (i - n \in 1..m /\ all[i] = more[i - n])
  <2>1. SUFFICES ASSUME NEW i \in 1..Len(all), i \notin 1..n
                 PROVE  i - n \in 1..m /\ all[i] = more[i - n]
    OBVIOUS
  <2>2. i - n \in 1..m /\ n + (i - n) = i
    BY <1>1, <2>1
  <2>3. QED
    BY <1>1, <2>2
<1> HIDE DEF all, n, m, next
<1>6. ASSUME NEW i \in 1..Len(all), IsScript(all[i])
      PROVE  /\ all[i].source = "own" /\ all[i].path.cmd \in Nat
             /\ all[i].path.cmd < NextCmd(all, all[i].path.index, all[i].path.ns)
  <2>1. CASE i \in 1..n
    <3>1. all[i] = files[i]
      BY <1>1, <2>1
    <3>2. /\ all[i].source = "own" /\ all[i].path.cmd \in Nat
          /\ all[i].path.cmd < NextCmd(files, all[i].path.index, all[i].path.ns)
      BY <1>6, <2>1, <3>1 DEF Apart, n
    <3>3. QED
      BY <1>2, <3>2
  <2>2. CASE i - n \in 1..m /\ all[i] = more[i - n]
    <3>1. /\ all[i].path.index = index /\ all[i].path.ns = ns /\ all[i].source = "own"
          /\ all[i].path.cmd = next + (i - n) - 1
      BY <1>3, <2>2
    <3>2. NextCmd(all, index, ns) \in Nat
      BY <1>2
    <3>3. next + (i - n) - 1 \in Nat /\ next + (i - n) - 1 < NextCmd(all, index, ns)
      BY <1>1, <1>2, <1>4, <2>2, <3>2
    <3>4. QED
      BY <3>1, <3>3
  <2>3. QED
    BY <1>5, <2>1, <2>2
<1>7. ASSUME NEW i \in 1..Len(all), NEW j \in 1..Len(all),
             IsScript(all[i]), IsScript(all[j]), all[i].path = all[j].path
      PROVE  i = j
  <2>1. CASE i \in 1..n /\ j \in 1..n
    BY <1>1, <1>7, <2>1 DEF Apart, n
  <2>2. ASSUME NEW k \in 1..n, NEW l \in 1..m, IsScript(files[k])
        PROVE  files[k].path # more[l].path
    <3>1. files[k].path.cmd \in Nat /\
          files[k].path.cmd < NextCmd(files, files[k].path.index, files[k].path.ns)
      BY <2>2 DEF Apart, n
    <3>2. SUFFICES ASSUME files[k].path = more[l].path
                   PROVE  FALSE
      OBVIOUS
    <3>3. files[k].path.index = index /\ files[k].path.ns = ns /\ files[k].path.cmd = next + l - 1
      BY <1>3, <3>2
    <3>4. files[k].path.cmd < next
      BY <3>1, <3>3 DEF next
    <3>5. l \in Nat /\ l >= 1
      BY <1>1
    <3>6. ~(next + l - 1 < next)
      BY <1>2, <3>5
    <3>7. QED
      BY <3>3, <3>4, <3>6
  <2>3. CASE i \in 1..n /\ j \notin 1..n
    <3>1. all[i] = files[i] /\ j - n \in 1..m /\ all[j] = more[j - n]
      BY <1>1, <1>5, <2>3
    <3>2. files[i].path # more[j - n].path
      BY <1>7, <2>2, <2>3, <3>1
    <3>3. QED
      BY <1>7, <3>1, <3>2
  <2>4. CASE i \notin 1..n /\ j \in 1..n
    <3>1. all[j] = files[j] /\ i - n \in 1..m /\ all[i] = more[i - n]
      BY <1>1, <1>5, <2>4
    <3>2. files[j].path # more[i - n].path
      BY <1>7, <2>2, <2>4, <3>1
    <3>3. QED
      BY <1>7, <3>1, <3>2
  <2>5. CASE i \notin 1..n /\ j \notin 1..n
    <3>1. i - n \in 1..m /\ j - n \in 1..m /\ all[i] = more[i - n] /\ all[j] = more[j - n]
      BY <1>5, <2>5
    <3>2. next + (i - n) - 1 = next + (j - n) - 1
      BY <1>3, <1>7, <3>1
    <3>3. QED
      BY <1>1, <1>2, <3>2
  <2>6. QED
    BY <2>1, <2>3, <2>4, <2>5
<1>8. QED
  BY <1>6, <1>7 DEF Apart, all

\* What appendDurableScripts makes of a list of files: it stays a list with the old files, gets
\* a script for every command and the dispatcher, and its scripts stay apart.
LEMMA ScriptsAdded ==
  ASSUME NEW files, IsList(files), NEW ns, NEW execs, IsList(execs)
  PROVE  LET all == WithScripts(files, ns, execs) IN
         /\ IsList(all) /\ Len(files) <= Len(all)
         /\ ToSet(files) \subseteq ToSet(all)
         /\ \A e \in ToSet(execs) : \E f \in ToSet(all) :
              IsScript(f) /\ f.source = "own" /\ f.body = e.cmd
         /\ \E f \in ToSet(all) : f.path = Dispatcher
         /\ \A f \in ToSet(all) : f \in ToSet(files) \/ Own(f)
         /\ Apart(files) => Apart(all)
<1> DEFINE index == NamespaceIndex(files, ns)
           start == NextCmd(files, index, ns)
           scripts == [i \in DOMAIN execs |->
                         File(Script(index, ns, start + i - 1), "own", execs[i].cmd)]
           some == files \o scripts
           last == IF \E i \in DOMAIN files : files[i].path = Dispatcher
                   THEN <<>> ELSE <<File(Dispatcher, "own", "run.sh")>>
<1>1. WithScripts(files, ns, execs) = some \o last
  BY DEF WithScripts
<1>2. DOMAIN execs = 1..Len(execs) /\ Len(execs) \in Nat /\ Len(files) \in Nat
      /\ DOMAIN files = 1..Len(files)
  BY ListItems
<1>3. IsList(scripts) /\ Len(scripts) = Len(execs)
  BY <1>2, ListOf
<1>4. \A i \in 1..Len(scripts) :
        /\ scripts[i].path = Script(index, ns, start + i - 1)
        /\ scripts[i].source = "own" /\ scripts[i].body = execs[i].cmd /\ IsScript(scripts[i])
  BY <1>2, <1>3 DEF File, IsScript, Script
<1>5. IsList(some) /\ Len(some) = Len(files) + Len(scripts)
      /\ ToSet(some) = ToSet(files) \cup ToSet(scripts)
  BY <1>3, ListConcat
<1>6. Apart(files) => Apart(some)
  <2> HIDE DEF scripts, index
  <2>1. QED
    BY <1>3, <1>4, ApartFromScripts
<1>7. /\ IsList(last) /\ Len(last) \in Nat
      /\ \A i \in 1..Len(last) : ~IsScript(last[i])
      /\ \E f \in ToSet(files) \cup ToSet(last) : f.path = Dispatcher
      /\ \A f \in ToSet(last) : Own(f)
  <2>1. CASE \E i \in DOMAIN files : files[i].path = Dispatcher
    <3>1. last = <<>> /\ IsList(<<>>) /\ Len(<<>>) = 0
      BY <2>1, ListAppend
    <3>2. \E f \in ToSet(files) : f.path = Dispatcher
      BY <1>2, <2>1, ListItems
    <3> HIDE DEF last
    <3>3. \A f \in ToSet(last) : Own(f)
      BY <3>1, ListItems
    <3>4. QED
      BY <3>1, <3>2, <3>3
  <2>2. CASE ~\E i \in DOMAIN files : files[i].path = Dispatcher
    <3> DEFINE f == File(Dispatcher, "own", "run.sh")
    <3>1. last = <<f>> /\ f.path = Dispatcher /\ ~IsScript(f) /\ Own(f)
      BY <2>2 DEF File, IsScript, Dispatcher, Place, Own
    <3>2. IsList(<<f>>) /\ Len(<<f>>) = 1 /\ <<f>>[1] = f /\ ToSet(<<f>>) = {f}
      BY ListAppend DEF ToSet
    <3>3. QED
      BY <3>1, <3>2
  <2>3. QED
    BY <2>1, <2>2
<1> HIDE DEF scripts, last, index, some
<1>8. IsList(some \o last) /\ Len(some \o last) = Len(some) + Len(last)
      /\ ToSet(some \o last) = ToSet(files) \cup ToSet(scripts) \cup ToSet(last)
  BY <1>5, <1>7, ListConcat
<1>9. Len(files) <= Len(some \o last)
  BY <1>2, <1>3, <1>5, <1>7, <1>8
<1>10. ASSUME NEW e \in ToSet(execs)
       PROVE  \E f \in ToSet(some \o last) : IsScript(f) /\ f.source = "own" /\ f.body = e.cmd
  <2>1. PICK i \in 1..Len(scripts) : e = execs[i]
    BY <1>3, ListItems
  <2>2. scripts[i] \in ToSet(scripts)
    BY <1>3, ListItems
  <2>3. QED
    BY <1>4, <1>8, <2>1, <2>2
<1>11. Apart(files) => Apart(some \o last)
  BY <1>5, <1>6, <1>7, ApartFromOthers
<1>12. \A f \in ToSet(some \o last) : f \in ToSet(files) \/ Own(f)
  <2>1. ASSUME NEW f \in ToSet(scripts)
        PROVE  Own(f)
    <3>1. PICK i \in 1..Len(scripts) : f = scripts[i]
      BY <1>3, ListItems
    <3>2. QED
      BY <1>4, <3>1 DEF Own
  <2>2. QED
    BY <1>7, <1>8, <2>1
<1>13. QED
  BY <1>1, <1>7, <1>8, <1>9, <1>10, <1>11, <1>12
-----------------------------------------------------------------------------
(* The options.                                                            *)

\* What an option leaves of the lists that the invariant is about.
LEMMA Customized ==
  ASSUME NEW d, DOMAIN d = DOMAIN Blank, NEW o, o.opt \in OptionNames \ {"WithNewNetwork"}
  PROVE  LET e == Customize(d, o) IN
         /\ DOMAIN e = DOMAIN Blank
         /\ e.files = IF o.opt = "WithFiles" THEN d.files \o o.arg
                      ELSE IF o.opt \in DurableOptions THEN WithScripts(d.files, o.ns, o.arg)
                      ELSE d.files
         /\ e.ports = IF o.opt = "WithExposedPorts" THEN d.ports \o o.arg ELSE d.ports
         /\ e.networks \in {d.networks, Append(d.networks, o.net), Append(d.networks, "bridge")}
         /\ e.endpoints \in {d.endpoints, <<o.arg>>, Append(d.endpoints, o.arg)}
<1> DEFINE fields == DOMAIN Blank
           Same(e) == /\ DOMAIN e = fields /\ e.files = d.files /\ e.ports = d.ports
                      /\ e.networks = d.networks /\ e.endpoints = d.endpoints
<1>1. {"image", "name", "started", "cmd", "entrypoint", "env", "labels", "ports", "files",
       "networks", "aliases", "config", "host", "endpoints", "hooks", "waits", "checks"} = fields
  BY DEF Blank
<1> HIDE DEF fields
<1>2. ASSUME NEW v
      PROVE  /\ Same([d EXCEPT !.name = v]) /\ Same([d EXCEPT !.started = FALSE])
             /\ Same([d EXCEPT !.image = v]) /\ Same([d EXCEPT !.config = v])
             /\ Same([d EXCEPT !.host = v]) /\ Same([d EXCEPT !.env = v])
             /\ Same([d EXCEPT !.labels = v]) /\ Same([d EXCEPT !.entrypoint = v])
             /\ Same([d EXCEPT !.cmd = v]) /\ Same([d EXCEPT !.hooks = v])
             /\ Same([d EXCEPT !.waits = v]) /\ Same([d EXCEPT !.checks = v])
  BY <1>1 DEF fields
<1> HIDE DEF Same
<1>3. CASE o.opt \in {"WithName", "WithNoStart", "WithImage"}
  <2>1. Customize(d, o) = SetField(d, o)
    BY <1>3 DEF Customize, ArgvOptions, DurableOptions
  <2>2. \/ SetField(d, o) = [d EXCEPT !.name = o.arg]
        \/ SetField(d, o) = [d EXCEPT !.started = FALSE]
        \/ SetField(d, o) = [d EXCEPT !.image = o.arg]
    BY <1>3, ZenonT(40) DEF SetField
  <2>3. Same(Customize(d, o))
    <3>1. /\ Same([d EXCEPT !.name = o.arg]) /\ Same([d EXCEPT !.image = o.arg])
          /\ Same([d EXCEPT !.started = FALSE])
      BY <1>2
    <3>2. QED
      BY <2>1, <2>2, <3>1, ZenonT(40)
  <2>4. QED
    BY <1>3, <2>3 DEF Same, fields, DurableOptions
<1>4. CASE o.opt \in {"WithConfigModifier", "WithAdditionalConfigModifier"}
  <2>1. Customize(d, o) = ModifyConfig(d, o)
    BY <1>4 DEF Customize, ArgvOptions, DurableOptions
  <2>2. ModifyConfig(d, o) \in
       {[d EXCEPT !.config = <<o.arg>>],
        [d EXCEPT !.config = Append(@, o.arg)]}
    BY <1>4, ZenonT(40) DEF ModifyConfig
  <2>3. Same(Customize(d, o))
    BY <1>2, <2>1, <2>2
  <2>4. QED
    BY <1>4, <2>3 DEF Same, fields, DurableOptions
<1>5. CASE o.opt \in {"WithHostConfigModifier", "WithAdditionalHostConfigModifier"}
  <2>1. Customize(d, o) = ModifyHostConfig(d, o)
    BY <1>5 DEF Customize, ArgvOptions, DurableOptions
  <2>2. ModifyHostConfig(d, o) \in
       {[d EXCEPT !.host = <<o.arg>>],
        [d EXCEPT !.host = Append(@, o.arg)]}
    BY <1>5, ZenonT(40) DEF ModifyHostConfig
  <2>3. Same(Customize(d, o))
    BY <1>2, <2>1, <2>2
  <2>4. QED
    BY <1>5, <2>3 DEF Same, fields, DurableOptions
<1>6. CASE o.opt \in {"WithEnv", "WithLabels"}
  <2>1. Customize(d, o) = MergeVars(d, o)
    BY <1>6 DEF Customize, ArgvOptions, DurableOptions
  <2>2. MergeVars(d, o) \in
       {[d EXCEPT !.env = Over(@, o.arg)],
        [d EXCEPT !.labels = Over(@, o.arg)]}
    BY <1>6, ZenonT(40) DEF MergeVars
  <2>3. Same(Customize(d, o))
    BY <1>2, <2>1, <2>2
  <2>4. QED
    BY <1>6, <2>3 DEF Same, fields, DurableOptions
<1>7. CASE o.opt \in {"WithStartupCommand", "WithAfterReadyCommand"}
  <2>1. Customize(d, o) = AddCommands(d, o)
    BY <1>7 DEF Customize, ArgvOptions, DurableOptions
  <2>2. Same(Customize(d, o))
    BY <1>2, <2>1 DEF AddCommands
  <2>3. QED
    BY <1>7, <2>2 DEF Same, fields, DurableOptions
<1>8. CASE o.opt \in {"WithLifecycleHooks", "WithAdditionalLifecycleHooks"}
  <2>1. Customize(d, o) = SetHooks(d, o)
    BY <1>8 DEF Customize, ArgvOptions, DurableOptions
  <2>2. SetHooks(d, o) \in
       {[d EXCEPT !.hooks = o.arg],
        [d EXCEPT !.hooks = @ \o o.arg]}
    BY <1>8, ZenonT(40) DEF SetHooks
  <2>3. Same(Customize(d, o))
    BY <1>2, <2>1, <2>2
  <2>4. QED
    BY <1>8, <2>3 DEF Same, fields, DurableOptions
<1>9. CASE o.opt \in {"WithWaitStrategy", "WithAdditionalWaitStrategy"}
  <2> DEFINE more == [deadline |-> o.deadline, list |-> o.arg]
  <2>1. Customize(d, o) = WaitFor(d, o)
    BY <1>9 DEF Customize, ArgvOptions, DurableOptions
  <2>2. WaitFor(d, o) \in
       {[d EXCEPT !.waits = <<more>>],
        [d EXCEPT !.waits = Append(@, more)]}
    BY <1>9, ZenonT(40) DEF WaitFor
  <2>3. Same(Customize(d, o))
    BY <1>2, <2>1, <2>2
  <2>4. QED
    BY <1>9, <2>3 DEF Same, fields, DurableOptions
<1>10. CASE o.opt = "WithValidateFuncs"
  <2>1. Customize(d, o) = SetChecks(d, o)
    BY <1>10 DEF Customize, ArgvOptions, DurableOptions
  <2>2. Same(Customize(d, o))
    BY <1>2, <2>1 DEF SetChecks
  <2>3. QED
    BY <1>10, <2>2 DEF Same, fields, DurableOptions
<1>11. CASE o.opt \in {"WithEntrypoint", "WithEntrypointArgs", "WithCmd", "WithCmdArgs"}
  <2>1. Customize(d, o) = SetArgv(d, o)
    BY <1>11 DEF Customize, ArgvOptions, DurableOptions
  <2>2. PICK v : SetArgv(d, o) = [d EXCEPT !.entrypoint = v] \/ SetArgv(d, o) = [d EXCEPT !.cmd = v]
    <3>1. CASE o.opt = "WithEntrypoint"
      <4>1. SetArgv(d, o) = [d EXCEPT !.entrypoint = o.arg]
        BY <3>1, ZenonT(40) DEF SetArgv
      <4>2. QED
        BY <4>1
    <3>2. CASE o.opt = "WithEntrypointArgs"
      <4>1. SetArgv(d, o) = [d EXCEPT !.entrypoint = @ \o o.arg]
        BY <3>2, ZenonT(40) DEF SetArgv
      <4>2. QED
        BY <4>1
    <3>3. CASE o.opt = "WithCmd"
      <4>1. SetArgv(d, o) = [d EXCEPT !.cmd = o.arg]
        BY <3>3, ZenonT(40) DEF SetArgv
      <4>2. QED
        BY <4>1
    <3>4. CASE o.opt = "WithCmdArgs"
      <4>1. SetArgv(d, o) = [d EXCEPT !.cmd = @ \o o.arg]
        BY <3>4, ZenonT(40) DEF SetArgv
      <4>2. QED
        BY <4>1
    <3>5. QED
      BY <1>11, <3>1, <3>2, <3>3, <3>4
  <2>3. Same(Customize(d, o))
    <3>1. Same([d EXCEPT !.entrypoint = v]) /\ Same([d EXCEPT !.cmd = v])
      BY <1>2
    <3>2. QED
      BY <2>1, <2>2, <3>1, ZenonT(40)
  <2>4. QED
    BY <1>11, <2>3 DEF Same, fields, DurableOptions
<1>12. CASE o.opt = "WithExposedPorts"
  <2>1. Customize(d, o) = SetArgv(d, o)
    BY <1>12 DEF Customize, ArgvOptions, DurableOptions
  <2>2. SetArgv(d, o) = [d EXCEPT !.ports = @ \o o.arg]
    BY <1>12, ZenonT(40) DEF SetArgv
  <2>3. QED
    BY <1>1, <1>12, <2>1, <2>2 DEF fields, DurableOptions
<1>13. CASE o.opt \in {"WithEndpointSettingsModifier", "WithAdditionalEndpointSettingsModifier"}
  <2>1. Customize(d, o) = ModifyEndpoints(d, o)
    BY <1>13 DEF Customize, ArgvOptions, DurableOptions
  <2>2. \E v \in {<<o.arg>>, Append(d.endpoints, o.arg)} :
          ModifyEndpoints(d, o) = [d EXCEPT !.endpoints = v]
    BY <1>13, ZenonT(40) DEF ModifyEndpoints
  <2>3. QED
    BY <1>1, <1>13, <2>1, <2>2 DEF fields, DurableOptions
<1>14. CASE o.opt = "WithNetworkName"
  <2>1. Customize(d, o) = JoinNetwork(d, o.net, o.arg)
    BY <1>14 DEF Customize, ArgvOptions, DurableOptions
  <2>2. QED
    BY <1>1, <1>14, <2>1 DEF JoinNetwork, fields, DurableOptions
<1>15. CASE o.opt = "WithBridgeNetwork"
  <2>1. Customize(d, o) = JoinBridge(d)
    BY <1>15 DEF Customize, ArgvOptions, DurableOptions
  <2>2. QED
    BY <1>1, <1>15, <2>1 DEF JoinBridge, fields, DurableOptions
<1>16. CASE o.opt = "WithFiles"
  <2>1. Customize(d, o) = AddFiles(d, o)
    BY <1>16 DEF Customize, ArgvOptions, DurableOptions
  <2>2. QED
    BY <1>1, <1>16, <2>1 DEF AddFiles, fields, DurableOptions
<1>17. CASE o.opt \in DurableOptions
  <2>1. Customize(d, o) = AddScripts(d, o)
    BY <1>17 DEF Customize, ArgvOptions, DurableOptions
  <2>2. QED
    BY <1>1, <1>17, <2>1 DEF AddScripts, fields, DurableOptions
<1>18. QED
  BY <1>3, <1>4, <1>5, <1>6, <1>7, <1>8, <1>9, <1>10, <1>11, <1>12, <1>13, <1>14, <1>15, <1>16, <1>17
     DEF OptionNames, ArgvOptions
-----------------------------------------------------------------------------
(* Applying the options one by one.                                        *)

\* Every option of a plan is one of the package, with lists where it takes them.
LEMMA PlanOptions ==
  ASSUME NEW p \in Plans, NEW i \in 1..Len(p)
  PROVE  /\ p \in Seq(DOMAIN Options) /\ Len(p) \in Nat /\ DOMAIN p = 1..Len(p)
         /\ Options[p[i]].opt \in OptionNames
         /\ Options[p[i]].opt \in {"WithFiles", "WithExposedPorts"} \cup DurableOptions =>
              IsList(Options[p[i]].arg)
<1>1. p \in Seq(DOMAIN Options)
  BY OptionsAssumption
<1>2. p[i] \in DOMAIN Options
  BY <1>1, ElementOfSeq
<1>3. QED
  BY <1>1, <1>2, LenProperties, OptionsAssumption DEF IsList

\* One option more.
LEMMA GivenMore ==
  ASSUME NEW p, NEW k \in Nat, NEW opt
  PROVE  GivenTo(p, k + 1, opt) =
           GivenTo(p, k, opt) \cup (IF Options[p[k + 1]].opt = opt
                                    THEN ToSet(Options[p[k + 1]].arg) ELSE {})
<1>1. {j \in 1..(k + 1) : Options[p[j]].opt = opt} =
        {j \in 1..k : Options[p[j]].opt = opt} \cup
          (IF Options[p[k + 1]].opt = opt THEN {k + 1} ELSE {})
  OBVIOUS
<1>2. QED
  BY <1>1 DEF GivenTo

\* Nothing is given before the first option.
LEMMA NothingGiven ==
  ASSUME NEW p
  PROVE  /\ \A opt : GivenTo(p, 0, opt) = {}
         /\ ScriptsTo(p, 0) = {}
<1>1. \A opt : GivenTo(p, 0, opt) = {}
  BY DEF GivenTo
<1>2. QED
  BY <1>1 DEF ScriptsTo

\* One option more registers its commands if it is a durable one.
LEMMA ScriptsMore ==
  ASSUME NEW p, NEW k \in Nat
  PROVE  ScriptsTo(p, k + 1) =
           ScriptsTo(p, k) \cup (IF Options[p[k + 1]].opt \in DurableOptions
                                 THEN {e.cmd : e \in ToSet(Options[p[k + 1]].arg)} ELSE {})
<1> DEFINE o == Options[p[k + 1]]
           Execs(n) == UNION {GivenTo(p, n, opt) : opt \in DurableOptions}
<1>1. \A opt : GivenTo(p, k + 1, opt) = GivenTo(p, k, opt) \cup (IF o.opt = opt THEN ToSet(o.arg) ELSE {})
  BY GivenMore
<1> DEFINE more == IF o.opt \in DurableOptions THEN ToSet(o.arg) ELSE {}
<1>2. ScriptsTo(p, k + 1) = {e.cmd : e \in Execs(k + 1)} /\ ScriptsTo(p, k) = {e.cmd : e \in Execs(k)}
  BY DEF ScriptsTo
<1>3. Execs(k + 1) = Execs(k) \cup more
  <2>1. ASSUME NEW x \in Execs(k + 1)
        PROVE  x \in Execs(k) \cup more
    <3>1. PICK opt \in DurableOptions : x \in GivenTo(p, k + 1, opt)
      OBVIOUS
    <3> HIDE DEF o
    <3>2. x \in GivenTo(p, k, opt) \/ (o.opt = opt /\ x \in ToSet(o.arg))
      BY <1>1, <3>1
    <3>3. QED
      BY <3>1, <3>2
  <2>2. ASSUME NEW x \in Execs(k)
        PROVE  x \in Execs(k + 1)
    <3>1. PICK opt \in DurableOptions : x \in GivenTo(p, k, opt)
      BY <2>2
    <3>2. x \in GivenTo(p, k + 1, opt)
      BY <1>1, <3>1
    <3>3. QED
      BY <3>1, <3>2
  <2>3. ASSUME NEW x \in more
        PROVE  x \in Execs(k + 1)
    <3> HIDE DEF o
    <3>1. o.opt \in DurableOptions /\ x \in ToSet(o.arg)
      BY <2>3
    <3>2. x \in GivenTo(p, k + 1, o.opt)
      BY <1>1, <3>1
    <3>3. QED
      BY <3>1, <3>2
  <2> HIDE DEF Execs, more
  <2>4. QED
    BY <2>1, <2>2, <2>3
<1> HIDE DEF Execs, o
<1>4. {e.cmd : e \in Execs(k) \cup more} =
        {e.cmd : e \in Execs(k)} \cup (IF o.opt \in DurableOptions THEN {e.cmd : e \in ToSet(o.arg)} ELSE {})
  OBVIOUS
<1>5. QED
  BY <1>2, <1>3, <1>4 DEF o

\* What holds of the lists of a definition holds of longer ones, if the options say so.
LEMMA StillApplied ==
  ASSUME NEW p, NEW k \in Nat, NEW d, NEW e, IsDefinition(d), IsDefinition(e), Applied(p, k, d),
         ToSet(d.files) \subseteq ToSet(e.files),
         ToSet(e.ports) = ToSet(d.ports) \cup (GivenTo(p, k + 1, "WithExposedPorts")
                                                 \ GivenTo(p, k, "WithExposedPorts")),
         GivenTo(p, k + 1, "WithFiles") \subseteq GivenTo(p, k, "WithFiles") \cup ToSet(e.files),
         \A cmd \in ScriptsTo(p, k + 1) \ ScriptsTo(p, k) : \E f \in ToSet(e.files) :
           IsScript(f) /\ f.source = "own" /\ f.body = cmd,
         ScriptsTo(p, k + 1) # {} =>
           ScriptsTo(p, k) # {} \/ \E f \in ToSet(e.files) : f.path = Dispatcher,
         (\A f \in GivenTo(p, k + 1, "WithFiles") : ~IsScript(f)) /\ Apart(d.files) => Apart(e.files),
         \A f \in ToSet(e.files) : f \in ToSet(d.files) \cup GivenTo(p, k + 1, "WithFiles") \/ Own(f)
  PROVE  Applied(p, k + 1, e)
<1>0. IsList(d.files) /\ IsList(e.files)
  BY DEF IsDefinition
<1>1. \A opt : GivenTo(p, k, opt) \subseteq GivenTo(p, k + 1, opt)
  BY GivenMore
<1>2. /\ \A f \in ToSet(e.files) : \E i \in 1..Len(e.files) : f = e.files[i]
      /\ \A i \in 1..Len(d.files) : d.files[i] \in ToSet(e.files)
  <2>1. \A f \in ToSet(e.files) : \E i \in 1..Len(e.files) : f = e.files[i]
    BY <1>0, ListItems
  <2>2. \A i \in 1..Len(d.files) : d.files[i] \in ToSet(d.files)
    BY <1>0, ListItems
  <2>3. QED
    BY <2>1, <2>2
<1>3. ToSet(e.ports) = GivenTo(p, k + 1, "WithExposedPorts")
  BY <1>1 DEF Applied
<1>4. GivenTo(p, k + 1, "WithFiles") \subseteq ToSet(e.files)
  BY DEF Applied
<1>5. ASSUME NEW cmd \in ScriptsTo(p, k + 1)
      PROVE  \E i \in 1..Len(e.files) :
               IsScript(e.files[i]) /\ e.files[i].source = "own" /\ e.files[i].body = cmd
  <2>1. \E f \in ToSet(e.files) : IsScript(f) /\ f.source = "own" /\ f.body = cmd
    BY <1>2 DEF Applied
  <2>2. QED
    BY <1>2, <2>1
<1>6. ASSUME ScriptsTo(p, k + 1) # {}
      PROVE  \E i \in 1..Len(e.files) : e.files[i].path = Dispatcher
  <2>1. \E f \in ToSet(e.files) : f.path = Dispatcher
    BY <1>2, <1>6 DEF Applied
  <2>2. QED
    BY <1>2, <2>1
<1>7. (\A f \in GivenTo(p, k + 1, "WithFiles") : ~IsScript(f)) => Apart(e.files)
  BY <1>1 DEF Applied
<1>8. \A f \in ToSet(e.files) : f \in GivenTo(p, k + 1, "WithFiles") \/ Own(f)
  BY <1>1 DEF Applied
<1>9. QED
  BY <1>3, <1>4, <1>5, <1>6, <1>7, <1>8 DEF Applied

\* An option is applied.
LEMMA AppliedMore ==
  ASSUME NEW p \in Plans, NEW k \in Nat, k + 1 \in 1..Len(p), NEW d, IsDefinition(d),
         Applied(p, k, d), Options[p[k + 1]].opt # "WithNewNetwork"
  PROVE  LET e == Customize(d, Options[p[k + 1]]) IN
         /\ IsDefinition(e) /\ Applied(p, k + 1, e)
         /\ Len(d.files) <= Len(e.files) /\ Len(d.networks) <= Len(e.networks)
<1> DEFINE o == Options[p[k + 1]]
           e == Customize(d, o)
<1>1. /\ o.opt \in OptionNames \ {"WithNewNetwork"}
      /\ o.opt \in {"WithFiles", "WithExposedPorts"} \cup DurableOptions => IsList(o.arg)
  BY PlanOptions
<1>2. /\ DOMAIN e = DOMAIN Blank
      /\ e.files = IF o.opt = "WithFiles" THEN d.files \o o.arg
                   ELSE IF o.opt \in DurableOptions THEN WithScripts(d.files, o.ns, o.arg)
                   ELSE d.files
      /\ e.ports = IF o.opt = "WithExposedPorts" THEN d.ports \o o.arg ELSE d.ports
      /\ e.networks \in {d.networks, Append(d.networks, o.net), Append(d.networks, "bridge")}
      /\ e.endpoints \in {d.endpoints, <<o.arg>>, Append(d.endpoints, o.arg)}
  BY <1>1, Customized DEF IsDefinition
<1>3. /\ \A opt : GivenTo(p, k + 1, opt) =
                    GivenTo(p, k, opt) \cup (IF o.opt = opt THEN ToSet(o.arg) ELSE {})
      /\ ScriptsTo(p, k + 1) =
           ScriptsTo(p, k) \cup (IF o.opt \in DurableOptions
                                 THEN {x.cmd : x \in ToSet(o.arg)} ELSE {})
  BY GivenMore, ScriptsMore
<1> HIDE DEF e, o
<1>4. IsList(e.networks) /\ Len(d.networks) <= Len(e.networks)
  <2>1. Len(d.networks) \in Nat
    BY ListItems DEF IsDefinition
  <2>2. IsList(d.networks)
    BY DEF IsDefinition
  <2>3. \A x : IsList(Append(d.networks, x)) /\ Len(Append(d.networks, x)) = Len(d.networks) + 1
    BY <2>2, ListAppend
  <2>4. CASE e.networks = d.networks
    BY <2>1, <2>2, <2>4
  <2>5. CASE e.networks = Append(d.networks, o.net)
    BY <2>1, <2>3, <2>5
  <2>6. CASE e.networks = Append(d.networks, "bridge")
    BY <2>1, <2>3, <2>6
  <2>7. QED
    BY <1>2, <2>4, <2>5, <2>6
<1>5. IsList(e.endpoints)
  BY <1>2, ListAppend DEF IsDefinition
<1>6. /\ IsList(e.ports)
      /\ ToSet(e.ports) = ToSet(d.ports) \cup (IF o.opt = "WithExposedPorts" THEN ToSet(o.arg) ELSE {})
  BY <1>1, <1>2, ListConcat DEF IsDefinition
<1>7. ToSet(e.ports) = ToSet(d.ports) \cup (GivenTo(p, k + 1, "WithExposedPorts")
                                              \ GivenTo(p, k, "WithExposedPorts"))
  BY <1>3, <1>6 DEF Applied
<1>8. Len(d.files) \in Nat /\ IsList(d.files)
  BY ListItems DEF IsDefinition
<1>9. CASE o.opt = "WithFiles"
  <2>1. e.files = d.files \o o.arg /\ IsList(o.arg)
    BY <1>1, <1>2, <1>9
  <2>2. Len(o.arg) \in Nat
    BY <2>1, ListItems
  <2>3. /\ IsList(e.files) /\ Len(e.files) = Len(d.files) + Len(o.arg)
        /\ ToSet(e.files) = ToSet(d.files) \cup ToSet(o.arg)
    BY <1>8, <2>1, ListConcat
  <2>4. ScriptsTo(p, k + 1) = ScriptsTo(p, k)
        /\ GivenTo(p, k + 1, "WithFiles") = GivenTo(p, k, "WithFiles") \cup ToSet(o.arg)
    BY <1>3, <1>9 DEF DurableOptions
  <2>5. (\A f \in ToSet(o.arg) : ~IsScript(f)) /\ Apart(d.files) => Apart(e.files)
    <3>1. \A i \in 1..Len(o.arg) : o.arg[i] \in ToSet(o.arg)
      BY <2>1, ListItems
    <3>2. QED
      BY <1>8, <2>1, <3>1, ApartFromOthers
  <2>6. IsDefinition(e)
    BY <1>2, <1>4, <1>5, <1>6, <2>3 DEF IsDefinition
  <2>7. Applied(p, k + 1, e)
    <3>1. /\ \A cmd \in ScriptsTo(p, k + 1) \ ScriptsTo(p, k) : \E f \in ToSet(e.files) :
               IsScript(f) /\ f.source = "own" /\ f.body = cmd
          /\ ScriptsTo(p, k + 1) # {} =>
               ScriptsTo(p, k) # {} \/ \E f \in ToSet(e.files) : f.path = Dispatcher
      BY <2>4
    <3>2. GivenTo(p, k + 1, "WithFiles") \subseteq GivenTo(p, k, "WithFiles") \cup ToSet(e.files)
      BY <2>3, <2>4
    <3>3. (\A f \in GivenTo(p, k + 1, "WithFiles") : ~IsScript(f)) /\ Apart(d.files) => Apart(e.files)
      BY <2>4, <2>5
    <3>4. /\ ToSet(d.files) \subseteq ToSet(e.files)
          /\ \A f \in ToSet(e.files) : f \in ToSet(d.files) \cup GivenTo(p, k + 1, "WithFiles") \/ Own(f)
      BY <2>3, <2>4
    <3>5. QED
      BY <1>7, <2>6, <3>1, <3>2, <3>3, <3>4, StillApplied, ZenonT(40)
  <2>8. Len(d.files) <= Len(e.files)
    <3>1. Len(d.files) \in Nat /\ Len(e.files) = Len(d.files) + Len(o.arg)
      BY <1>8, <2>3
    <3>2. \A a, b \in Nat : a <= a + b
      OBVIOUS
    <3>3. QED
      BY <2>2, <3>1, <3>2, Zenon
  <2>9. QED
    BY <1>4, <2>6, <2>7, <2>8 DEF e, o
<1>10. CASE o.opt \in DurableOptions
  <2>1. e.files = WithScripts(d.files, o.ns, o.arg) /\ IsList(o.arg)
    BY <1>1, <1>2, <1>10 DEF DurableOptions
  <2>2. /\ IsList(e.files) /\ Len(d.files) <= Len(e.files)
        /\ ToSet(d.files) \subseteq ToSet(e.files)
        /\ \A x \in ToSet(o.arg) : \E f \in ToSet(e.files) :
             IsScript(f) /\ f.source = "own" /\ f.body = x.cmd
        /\ \E f \in ToSet(e.files) : f.path = Dispatcher
        /\ \A f \in ToSet(e.files) : f \in ToSet(d.files) \/ Own(f)
        /\ Apart(d.files) => Apart(e.files)
    BY <1>8, <2>1, ScriptsAdded
  <2>3. ScriptsTo(p, k + 1) = ScriptsTo(p, k) \cup {x.cmd : x \in ToSet(o.arg)}
        /\ GivenTo(p, k + 1, "WithFiles") = GivenTo(p, k, "WithFiles")
    BY <1>3, <1>10 DEF DurableOptions
  <2>4. \A cmd \in ScriptsTo(p, k + 1) \ ScriptsTo(p, k) : \E f \in ToSet(e.files) :
          IsScript(f) /\ f.source = "own" /\ f.body = cmd
    BY <2>2, <2>3
  <2>5. IsDefinition(e)
    BY <1>2, <1>4, <1>5, <1>6, <2>2 DEF IsDefinition
  <2>6. Applied(p, k + 1, e)
    BY <1>7, <2>2, <2>3, <2>4, <2>5, StillApplied
  <2>7. QED
    BY <1>4, <2>2, <2>5, <2>6 DEF e, o
<1>11. CASE o.opt \notin {"WithFiles"} \cup DurableOptions
  <2>1. e.files = d.files
    BY <1>2, <1>11
  <2>2. ScriptsTo(p, k + 1) = ScriptsTo(p, k)
        /\ GivenTo(p, k + 1, "WithFiles") = GivenTo(p, k, "WithFiles")
    BY <1>3, <1>11
  <2>3. IsDefinition(e)
    BY <1>2, <1>4, <1>5, <1>6, <1>8, <2>1 DEF IsDefinition
  <2>4. Applied(p, k + 1, e)
    <3>1. GivenTo(p, k, "WithFiles") \subseteq GivenTo(p, k, "WithFiles") \cup ToSet(e.files)
      OBVIOUS
    <3>2. QED
      BY <1>7, <2>1, <2>2, <2>3, <3>1, StillApplied
  <2>5. QED
    BY <1>4, <1>8, <2>1, <2>3, <2>4 DEF e, o
<1>12. QED
  BY <1>9, <1>10, <1>11

\* So is WithNewNetwork, once its network is there.
LEMMA AppliedNewNetwork ==
  ASSUME NEW p \in Plans, NEW k \in Nat, k + 1 \in 1..Len(p), NEW d, IsDefinition(d),
         Applied(p, k, d), Options[p[k + 1]].opt = "WithNewNetwork", NEW n, NEW aliases
  PROVE  LET e == JoinNetwork(d, n, aliases) IN
         /\ IsDefinition(e) /\ Applied(p, k + 1, e)
         /\ Len(d.files) <= Len(e.files) /\ Len(d.networks) <= Len(e.networks)
<1> DEFINE e == JoinNetwork(d, n, aliases)
<1>1. /\ DOMAIN e = DOMAIN Blank /\ e.files = d.files /\ e.ports = d.ports
      /\ e.networks = Append(d.networks, n) /\ e.endpoints = d.endpoints
  <2> DEFINE fields == DOMAIN Blank
  <2>1. {"files", "ports", "networks", "aliases", "endpoints"} \subseteq fields
    BY DEF Blank
  <2>2. DOMAIN d = fields
    BY DEF IsDefinition
  <2> HIDE DEF fields
  <2>3. QED
    BY <2>1, <2>2 DEF JoinNetwork, fields
<1>2. /\ \A opt \in {"WithExposedPorts", "WithFiles"} : GivenTo(p, k + 1, opt) = GivenTo(p, k, opt)
      /\ ScriptsTo(p, k + 1) = ScriptsTo(p, k)
  <2> DEFINE o == Options[p[k + 1]]
  <2>1. o.opt = "WithNewNetwork" /\ o.opt \notin DurableOptions /\ o.opt \notin {"WithExposedPorts", "WithFiles"}
    BY DEF DurableOptions
  <2>2. \A opt : GivenTo(p, k + 1, opt) =
                   GivenTo(p, k, opt) \cup (IF o.opt = opt THEN ToSet(o.arg) ELSE {})
    BY GivenMore
  <2>3. ScriptsTo(p, k + 1) =
          ScriptsTo(p, k) \cup (IF o.opt \in DurableOptions
                                THEN {x.cmd : x \in ToSet(o.arg)} ELSE {})
    BY ScriptsMore
  <2> HIDE DEF o
  <2>4. QED
    BY <2>1, <2>2, <2>3
<1> HIDE DEF e
<1>3. IsList(e.networks) /\ Len(e.networks) = Len(d.networks) + 1
  BY <1>1, ListAppend DEF IsDefinition
<1>4. IsDefinition(e)
  BY <1>1, <1>3 DEF IsDefinition
<1>5. Applied(p, k + 1, e)
  BY <1>1, <1>2 DEF Applied
<1>6. Len(d.files) \in Nat /\ Len(d.networks) \in Nat
  BY ListItems DEF IsDefinition
<1>7. QED
  BY <1>1, <1>3, <1>4, <1>5, <1>6 DEF e
-----------------------------------------------------------------------------
(* The steps of one call: what each makes of a call and its container.     *)

\* Numbers that bound where a call is.
LEMMA Bounds ==
  ASSUME NEW p \in Plans, NEW c, NEW b, Phase(p, c, b)
  PROVE  /\ Len(p) \in Nat /\ Len(c.def.files) \in Nat /\ Len(c.def.networks) \in Nat
         /\ c.next \in Nat \ {0} /\ 1 \in 1..Bound(p, c.def)
<1>1. Len(p) \in Nat
  BY OptionsAssumption, LenProperties
<1>2. Len(c.def.files) \in Nat /\ Len(c.def.networks) \in Nat
  BY ListItems DEF Phase, IsDefinition
<1>3. 1 \in 1..Bound(p, c.def)
  <2>1. \A l, m, n \in Nat : 1 \in 1..(l + m + n + 1)
    OBVIOUS
  <2>2. QED
    BY <1>1, <1>2, <2>1, Zenon DEF Bound
<1>4. c.next \in Nat \ {0}
  BY <1>1, <1>2 DEF Phase, Bound
<1>5. QED
  BY <1>1, <1>2, <1>3, <1>4

\* A call that has not created a container has none, without files.
LEMMA NothingInBox == NoBox.state = "none" /\ DOMAIN NoBox.files = {}
BY DEF NoBox, Empty

\* Two containers with the same state, ports, networks and files.
Alike(b, b2) ==
  /\ b2.state = b.state /\ b2.nets = b.nets /\ b2.files = b.files
  /\ b2.bindings = b.bindings /\ b2.publishAll = b.publishAll

\* A call that goes on with what it has started, or ends.
LEMMA GoesOn ==
  ASSUME NEW p, NEW c, NEW b, CallInv(p, c, b), NEW c2, NEW b2, Phase(p, c2, b2),
         c2.def = c.def, Alike(b, b2), c2.at \in Started \cup {"done"}
  PROVE  CallInv(p, c2, b2)
<1>1. /\ c2.at \notin {"customize", "preCreate", "create", "connect", "copy"}
      /\ b2.state # "none" => b.state # "none"
  BY DEF Started, Alike
<1>2. Kept(p, c2, b2)
  BY <1>1 DEF CallInv, Kept, Whole
<1>3. Networked(c2, b2)
  BY <1>1 DEF CallInv, Networked, Alike
<1>4. Published(c2, b2)
  BY <1>1 DEF CallInv, Published, Alike
<1>5. Filled(c2, b2)
  BY <1>1 DEF CallInv, Filled, Alike
<1>6. QED
  BY <1>2, <1>3, <1>4, <1>5 DEF CallInv

\* A call may end at any point.
LEMMA Ends ==
  ASSUME NEW p \in Plans, NEW c, NEW b, CallInv(p, c, b), NEW c2, DOMAIN c2 = CallFields,
         c2.def = c.def, c2.at = "done", c2.next \in {1, c.next}
  PROVE  CallInv(p, c2, b)
<1>1. c2.next \in 1..Bound(p, c2.def)
  BY Bounds DEF CallInv, Phase
<1>2. Phase(p, c2, b)
  BY <1>1 DEF CallInv, Phase, Started
<1>3. QED
  BY <1>2, GoesOn DEF Alike

\* The options.
LEMMA Customizes ==
  ASSUME NEW p \in Plans, NEW c, NEW b, CallInv(p, c, b), c.at = "customize", NEW c2,
         DOMAIN c2 = CallFields, c2.at = "customize", c2.next = c.next + 1, c.next <= Len(p),
         IsDefinition(c2.def), Applied(p, c.next, c2.def),
         Len(c.def.files) <= Len(c2.def.files), Len(c.def.networks) <= Len(c2.def.networks)
  PROVE  CallInv(p, c2, b)
<1>1. b = NoBox /\ b.state = "none" /\ DOMAIN b.files = {}
  BY NothingInBox DEF CallInv, Phase
<1>2. c2.next \in 1..Bound(p, c2.def) /\ c2.next <= Len(p) + 1 /\ c2.next - 1 = c.next
  <2>1. /\ Len(p) \in Nat /\ Len(c.def.files) \in Nat /\ Len(c.def.networks) \in Nat /\ c.next \in Nat
    BY Bounds DEF CallInv
  <2>2. Len(c2.def.files) \in Nat /\ Len(c2.def.networks) \in Nat
    BY ListItems DEF IsDefinition
  <2>3. c2.next \in Nat \ {0} /\ c2.next <= Len(p) + 1 /\ c2.next - 1 = c.next
    BY <2>1
  <2>4. \A k, l, m, n \in Nat : k # 0 /\ k <= l + 1 => k \in 1..(l + m + n + 1)
    OBVIOUS
  <2>5. QED
    BY <2>1, <2>2, <2>3, <2>4, Zenon DEF Bound
<1>3. Phase(p, c2, b)
  BY <1>1, <1>2 DEF CallInv, Phase, Started
<1>4. Kept(p, c2, b)
  BY <1>1, <1>2 DEF Kept, Whole
<1>5. Networked(c2, b) /\ Published(c2, b) /\ Filled(c2, b)
  BY <1>1 DEF Networked, Published, Filled
<1>6. QED
  BY <1>3, <1>4, <1>5 DEF CallInv

\* The definition is valid once every option has been applied.
LEMMA Validated ==
  ASSUME NEW p \in Plans, NEW c, NEW b, CallInv(p, c, b), c.at = "customize", c.next > Len(p),
         NEW c2, DOMAIN c2 = CallFields, c2.at = "preCreate", c2.next = 1, c2.def = c.def
  PROVE  CallInv(p, c2, b)
<1>1. b = NoBox /\ b.state = "none" /\ DOMAIN b.files = {}
  BY NothingInBox DEF CallInv, Phase
<1>2. Applied(p, Len(p), c.def)
  <2>1. Len(p) \in Nat /\ c.next \in Nat /\ c.next <= Len(p) + 1
    BY Bounds DEF CallInv, Phase
  <2>2. c.next - 1 = Len(p)
    BY <2>1
  <2>3. QED
    BY <2>2 DEF CallInv, Kept
<1>3. Phase(p, c2, b)
  <2>1. c2.next \in 1..Bound(p, c2.def)
    BY Bounds DEF CallInv
  <2>2. QED
    BY <1>1, <2>1 DEF CallInv, Phase, Started
<1>4. Kept(p, c2, b)
  BY <1>2 DEF Kept
<1>5. Networked(c2, b) /\ Published(c2, b) /\ Filled(c2, b)
  BY <1>1 DEF Networked, Published, Filled
<1>6. QED
  BY <1>3, <1>4, <1>5 DEF CallInv

\* The pre-create hook computes what the container is created with.
LEMMA PreCreated ==
  ASSUME NEW p \in Plans, NEW c, NEW b, CallInv(p, c, b), c.at = "preCreate",
         NEW c2, DOMAIN c2 = CallFields, c2.at = "create", c2.next = 1, c2.def = c.def,
         NEW b2, DOMAIN b2 = DOMAIN NoBox, b2.state = b.state, b2.files = b.files,
         b2.nets = Endpoints(c.def, FirstEndpoint(c.def)),
         b2.bindings = Bindings(c.def), b2.publishAll = PublishAll(c.def)
  PROVE  CallInv(p, c2, b2)
<1>1. b2.state = "none" /\ DOMAIN b2.files = {}
  BY NothingInBox DEF CallInv, Phase
<1>2. Phase(p, c2, b2)
  <2>1. c2.next \in 1..Bound(p, c2.def)
    BY Bounds DEF CallInv
  <2>2. QED
    BY <1>1, <2>1 DEF CallInv, Phase, Started
<1>3. Kept(p, c2, b2)
  BY DEF CallInv, Kept, Whole
<1>4. Networked(c2, b2) /\ Published(c2, b2) /\ Filled(c2, b2)
  BY <1>1 DEF Networked, Published, Filled
<1>5. QED
  BY <1>2, <1>3, <1>4 DEF CallInv
\* The container is created in the first network.
LEMMA Created ==
  ASSUME NEW p \in Plans, NEW c, NEW b, CallInv(p, c, b), c.at = "create",
         NEW c2, DOMAIN c2 = CallFields, c2.at = "connect", c2.next = 1, c2.def = c.def,
         NEW b2, DOMAIN b2 = DOMAIN NoBox, b2.state = "created", b2.files = b.files,
         b2.nets = b.nets, b2.bindings = b.bindings, b2.publishAll = b.publishAll
  PROVE  CallInv(p, c2, b2)
<1> DEFINE d == c.def
<1>1. Phase(p, c2, b2)
  <2>1. c2.next \in 1..Bound(p, c2.def)
    BY Bounds DEF CallInv
  <2>2. QED
    BY <2>1 DEF CallInv, Phase, Started
<1>2. Kept(p, c2, b2)
  BY DEF CallInv, Kept, Whole
<1>3. Joined(d, b2.nets, 1)
  <2>1. SUFFICES ASSUME NEW i \in 1..Len(d.networks), i <= 1, d.networks[i] \notin Touched(d)
                 PROVE  /\ d.networks[i] \in DOMAIN b2.nets
                        /\ Aliases(d, d.networks[i]) # <<>> =>
                             b2.nets[d.networks[i]].aliases = Aliases(d, d.networks[i])
    BY DEF Joined
  <2>2. IsList(d.networks) /\ IsList(d.endpoints)
    BY DEF CallInv, Phase, IsDefinition
  <2>3. Len(d.networks) \in Nat
    BY <2>2, ListItems
  <2>4. i = 1
    BY <2>1, <2>3
  <2> DEFINE n == Head(d.networks)
             settings == FirstEndpoint(d)
  <2>5. d.networks # <<>> /\ d.networks[i] = n
    BY <2>1, <2>2, <2>4 DEF IsList
  <2>6. n \in DOMAIN settings /\ settings[n] = Endpoint(d, n)
    BY <2>5 DEF FirstEndpoint, With, Empty
  <2>7. settings[n].aliases = Aliases(d, n)
    BY <2>6 DEF Endpoint
  <2>8. b2.nets = Endpoints(d, settings)
    BY DEF CallInv, Networked
  <2> HIDE DEF n, settings, d
  <2>9. /\ n \in DOMAIN Endpoints(d, settings)
        /\ settings[n].aliases # <<>> => Endpoints(d, settings)[n].aliases = settings[n].aliases
    BY <2>1, <2>2, <2>5, <2>6, EndpointsKeep
  <2>10. QED
    BY <2>5, <2>7, <2>8, <2>9
<1>4. Networked(c2, b2)
  BY <1>3 DEF Networked
<1>5. Published(c2, b2)
  BY DEF CallInv, Published
<1>6. Filled(c2, b2)
  BY DEF CallInv, Filled
<1>7. QED
  BY <1>1, <1>2, <1>4, <1>5, <1>6 DEF CallInv

\* It joins one network more, which it is not in.
LEMMA JoinsOne ==
  ASSUME NEW p \in Plans, NEW c, NEW b, CallInv(p, c, b), c.at = "connect",
         c.next < Len(c.def.networks), c.def.networks[c.next + 1] \notin DOMAIN b.nets,
         NEW c2, DOMAIN c2 = CallFields, c2.at = "connect", c2.next = c.next + 1, c2.def = c.def,
         NEW b2, DOMAIN b2 = DOMAIN NoBox, b2.state = b.state, b2.files = b.files,
         b2.bindings = b.bindings, b2.publishAll = b.publishAll,
         b2.nets = With(b.nets, c.def.networks[c.next + 1],
                        Endpoint(c.def, c.def.networks[c.next + 1]))
  PROVE  CallInv(p, c2, b2)
<1> DEFINE d == c.def
           n == d.networks[c.next + 1]
<1>1. /\ Len(p) \in Nat /\ Len(d.files) \in Nat /\ Len(d.networks) \in Nat
      /\ c.next \in Nat \ {0} /\ c.next < Len(d.networks)
  BY Bounds DEF CallInv
<1>2. c2.next \in Nat \ {0} /\ c2.next <= Len(d.networks)
  BY <1>1
<1>3. Phase(p, c2, b2)
  <2>1. \A k, l, m, q \in Nat : k # 0 /\ k <= q => k \in 1..(l + m + q + 1)
    OBVIOUS
  <2>2. c2.next \in 1..Bound(p, c2.def)
    BY <1>1, <1>2, <2>1, Zenon DEF Bound
  <2>3. QED
    BY <1>2, <2>2 DEF CallInv, Phase, Started
<1>4. Kept(p, c2, b2)
  BY DEF CallInv, Kept, Whole
<1>5. Joined(d, b2.nets, c2.next)
  <2>1. SUFFICES ASSUME NEW i \in 1..Len(d.networks), i <= c2.next, d.networks[i] \notin Touched(d)
                 PROVE  /\ d.networks[i] \in DOMAIN b2.nets
                        /\ Aliases(d, d.networks[i]) # <<>> =>
                             b2.nets[d.networks[i]].aliases = Aliases(d, d.networks[i])
    BY DEF Joined
  <2>2. b2.nets = With(b.nets, n, Endpoint(d, n)) /\ n \notin DOMAIN b.nets
    OBVIOUS
  <2>3. CASE i = c.next + 1
    <3>1. n \in DOMAIN b2.nets /\ b2.nets[n] = Endpoint(d, n) /\ d.networks[i] = n
      BY <2>2, <2>3 DEF With
    <3>2. QED
      BY <3>1 DEF Endpoint
  <2>4. CASE i # c.next + 1
    <3>1. i <= c.next
      BY <1>1, <2>1, <2>4
    <3>2. /\ d.networks[i] \in DOMAIN b.nets
          /\ Aliases(d, d.networks[i]) # <<>> =>
               b.nets[d.networks[i]].aliases = Aliases(d, d.networks[i])
      BY <2>1, <3>1 DEF CallInv, Networked, Joined
    <3>3. d.networks[i] # n
      BY <2>2, <3>2
    <3>4. d.networks[i] \in DOMAIN b2.nets /\ b2.nets[d.networks[i]] = b.nets[d.networks[i]]
      BY <2>2, <3>2, <3>3 DEF With
    <3>5. QED
      BY <3>2, <3>4
  <2>5. QED
    BY <2>3, <2>4
<1>6. Networked(c2, b2)
  BY <1>5 DEF CallInv, Phase, Networked
<1>7. Published(c2, b2)
  BY DEF CallInv, Published
<1>8. Filled(c2, b2)
  BY DEF CallInv, Filled, Phase
<1>9. QED
  BY <1>3, <1>4, <1>6, <1>7, <1>8 DEF CallInv

\* After the last network it is in all of them.
LEMMA JoinedAll ==
  ASSUME NEW p \in Plans, NEW c, NEW b, CallInv(p, c, b), c.at = "connect",
         c.next >= Len(c.def.networks),
         NEW c2, DOMAIN c2 = CallFields, c2.at = "copy", c2.next = 1, c2.def = c.def
  PROVE  CallInv(p, c2, b)
<1> DEFINE d == c.def
<1>1. /\ Len(d.files) \in Nat /\ Len(d.networks) \in Nat /\ c.next \in Nat \ {0}
      /\ c2.next \in 1..Bound(p, c2.def)
  BY Bounds DEF CallInv
<1>2. Phase(p, c2, b)
  <2>1. c2.next <= Len(d.files) + 1
    BY <1>1
  <2>2. QED
    BY <1>1, <2>1 DEF CallInv, Phase, Started
<1>3. Kept(p, c2, b)
  BY DEF CallInv, Kept, Whole
<1>4. Joined(d, b.nets, Len(d.networks))
  <2>1. Joined(d, b.nets, c.next)
    BY DEF CallInv, Networked
  <2>2. \A i \in 1..Len(d.networks) : i <= c.next
    BY <1>1
  <2>3. QED
    BY <2>1, <2>2 DEF Joined
<1>5. Networked(c2, b)
  BY <1>4 DEF Networked
<1>6. Published(c2, b)
  BY DEF CallInv, Published, Phase
<1>7. Filled(c2, b)
  <2>1. Copied(d, b.files, c2.next - 1)
    BY <1>1 DEF Copied
  <2>2. QED
    BY <2>1 DEF CallInv, Filled, Phase
<1>8. QED
  BY <1>2, <1>3, <1>5, <1>6, <1>7 DEF CallInv

\* A file is copied: a script as it is, where no other script lies.
LEMMA CopiesOne ==
  ASSUME NEW p \in Plans, NEW c, NEW b, CallInv(p, c, b), c.at = "copy",
         c.next <= Len(c.def.files), NEW content,
         c.def.files[c.next].source # "shared" => content = c.def.files[c.next].body,
         NEW c2, DOMAIN c2 = CallFields, c2.at = "copy", c2.next = c.next + 1, c2.def = c.def,
         NEW b2, DOMAIN b2 = DOMAIN NoBox, b2.state = b.state, b2.nets = b.nets,
         b2.bindings = b.bindings, b2.publishAll = b.publishAll,
         b2.files = With(b.files, Lands(c.def.files[c.next]), content)
  PROVE  CallInv(p, c2, b2)
<1> DEFINE d == c.def
           k == c.next
           path == Lands(d.files[k])
<1>1. /\ Len(p) \in Nat /\ Len(d.files) \in Nat /\ Len(d.networks) \in Nat
      /\ k \in Nat \ {0} /\ k <= Len(d.files) /\ k \in 1..Len(d.files)
  BY Bounds DEF CallInv
<1>2. c2.next \in Nat \ {0} /\ c2.next <= Len(d.files) + 1 /\ c2.next - 1 = k
  BY <1>1
<1>3. Phase(p, c2, b2)
  <2>1. \A h, l, m, q \in Nat : h # 0 /\ h <= m + 1 => h \in 1..(l + m + q + 1)
    OBVIOUS
  <2>2. c2.next \in 1..Bound(p, c2.def)
    BY <1>1, <1>2, <2>1, Zenon DEF Bound
  <2>3. QED
    BY <1>2, <2>2 DEF CallInv, Phase, Started
<1>4. Kept(p, c2, b2)
  BY DEF CallInv, Kept, Whole
<1>5. Networked(c2, b2)
  BY DEF CallInv, Networked
<1>6. Published(c2, b2)
  BY DEF CallInv, Published
<1>7. b2.files = With(b.files, path, content)
  OBVIOUS
<1>8. DOMAIN b2.files \subseteq {Lands(d.files[i]) : i \in 1..Len(d.files)}
  <2>1. DOMAIN b2.files = DOMAIN b.files \cup {path}
    BY <1>7 DEF With
  <2>2. QED
    BY <1>1, <2>1 DEF CallInv, Filled
<1>9. Copied(d, b2.files, k)
  <2>1. SUFFICES ASSUME NEW i \in 1..Len(d.files), i <= k
                 PROVE  Lands(d.files[i]) \in DOMAIN b2.files /\ Left(d, b2.files, Lands(d.files[i]))
    BY DEF Copied
  <2>2. path \in DOMAIN b2.files /\ b2.files[path] = content
    BY <1>7 DEF With
  <2>3. CASE Lands(d.files[i]) = path
    BY <1>1, <2>2, <2>3 DEF Left
  <2>4. CASE Lands(d.files[i]) # path
    <3>1. i <= k - 1
      <4>1. i # k
        BY <2>4
      <4>2. QED
        BY <1>1, <2>1, <4>1
    <3>2. Lands(d.files[i]) \in DOMAIN b.files /\ Left(d, b.files, Lands(d.files[i]))
      BY <3>1 DEF CallInv, Filled, Copied
    <3>3. Lands(d.files[i]) \in DOMAIN b2.files
          /\ b2.files[Lands(d.files[i])] = b.files[Lands(d.files[i])]
      BY <1>7, <2>4, <3>2 DEF With
    <3>4. QED
      BY <3>2, <3>3 DEF Left
  <2>5. QED
    BY <2>3, <2>4
<1>10. Filled(c2, b2)
  <2>1. b2.state # "running"
    BY DEF CallInv, Phase
  <2> HIDE DEF k, path
  <2>2. QED
    BY <1>2, <1>8, <1>9, <2>1 DEF Filled
<1>11. QED
  BY <1>3, <1>4, <1>5, <1>6, <1>10 DEF CallInv

\* With every file in it the container is started.
LEMMA Starts ==
  ASSUME NEW p \in Plans, NEW c, NEW b, CallInv(p, c, b), c.at = "copy", c.next > Len(c.def.files),
         NEW c2, DOMAIN c2 = CallFields, c2.at = "PostStarts", c2.next = c.next, c2.def = c.def,
         NEW b2, DOMAIN b2 = DOMAIN NoBox, b2.state = "running", b2.nets = b.nets,
         b2.bindings = b.bindings, b2.publishAll = b.publishAll, b2.files = b.files
  PROVE  CallInv(p, c2, b2)
<1> DEFINE d == c.def
<1>1. Phase(p, c2, b2)
  BY DEF CallInv, Phase, Started
<1>2. Kept(p, c2, b2)
  BY DEF CallInv, Kept, Whole
<1>3. Networked(c2, b2)
  BY DEF CallInv, Networked
<1>4. Published(c2, b2)
  BY DEF CallInv, Published, Phase
<1>5. Copied(d, b.files, Len(d.files))
  <2>1. Copied(d, b.files, c.next - 1)
    BY DEF CallInv, Filled
  <2>2. \A i \in 1..Len(d.files) : i <= c.next - 1
    BY Bounds DEF CallInv
  <2>3. QED
    BY <2>1, <2>2 DEF Copied
<1>6. Filled(c2, b2)
  BY <1>5 DEF CallInv, Filled
<1>7. QED
  BY <1>1, <1>2, <1>3, <1>4, <1>6 DEF CallInv

\* The dispatcher meets no more scripts than the definition has files.
LEMMA WalkLength ==
  ASSUME NEW p \in Plans, NEW c, NEW b, CallInv(p, c, b)
  PROVE  Len(Walk(DOMAIN b.files)) \in Nat /\ Len(Walk(DOMAIN b.files)) <= Len(c.def.files)
<1> DEFINE n == Len(c.def.files)
           paths == {Lands(c.def.files[i]) : i \in 1..n}
           scripts == {q \in DOMAIN b.files : q.place = "script"}
<1>1. n \in Nat
  BY Bounds DEF CallInv
<1>2. IsFiniteSet(paths) /\ Cardinality(paths) <= n
  <2> DEFINE f == [i \in 1..n |-> Lands(c.def.files[i])]
  <2>1. IsFiniteSet(1..n) /\ Cardinality(1..n) = n
    BY <1>1, FS_Interval
  <2>2. f \in Surjection(1..n, paths)
    BY DEF Surjection
  <2> HIDE DEF f, paths
  <2>3. QED
    BY <2>1, <2>2, FS_Surjection
<1>3. scripts \in SUBSET paths
  BY DEF CallInv, Filled
<1> HIDE DEF paths
<1>4. /\ IsFiniteSet(scripts) /\ Cardinality(scripts) <= Cardinality(paths)
      /\ Cardinality(scripts) \in Nat /\ Cardinality(paths) \in Nat
  BY <1>2, <1>3, FS_Subset, FS_CardinalityType
<1>5. Len(Walk(DOMAIN b.files)) = Cardinality(scripts)
  <2> DEFINE w == Walk(DOMAIN b.files)
             m == Cardinality(scripts)
             Before(q) == {x \in scripts : LexicallyBefore(Named(x), Named(q))}
             Entry(i) == CHOOSE q \in scripts : Cardinality(Before(q)) = i - 1
  <2>1. w = [i \in 1..m |-> Entry(i)]
    BY DEF Walk
  <2> HIDE DEF w, m, Entry
  <2>2. w = [i \in 1..m |-> w[i]]
    BY <2>1
  <2>3. m \in Nat
    BY <1>4 DEF m
  <2>4. QED
    BY <2>2, <2>3, ListOf DEF w, m
<1>6. \A k, l, m \in Nat : k <= l /\ l <= m => k <= m
  OBVIOUS
<1>7. QED
  BY <1>1, <1>2, <1>4, <1>5, <1>6, Zenon
-----------------------------------------------------------------------------
(* The invariant.                                                          *)

\* What the invariant says of one call, with the fields of its records.
LEMMA CallOf ==
  ASSUME RequestInv, NEW r \in Runs
  PROVE  /\ plan \in Plans /\ DOMAIN run = Runs /\ DOMAIN box = Runs
         /\ CallInv(plan, run[r], box[r]) /\ Phase(plan, run[r], box[r]) /\ IsDefinition(run[r].def)
         /\ DOMAIN run[r] = {"at", "next", "def", "err", "todo", "walk", "back"}
         /\ DOMAIN run[r] = CallFields /\ DOMAIN box[r] = DOMAIN NoBox
         /\ DOMAIN box[r] = {"state", "name", "cmd", "nets", "bindings", "publishAll",
                             "files", "ran", "walked"}
<1>1. DOMAIN NoBox = {"state", "name", "cmd", "nets", "bindings", "publishAll",
                      "files", "ran", "walked"}
  BY DEF NoBox
<1>2. QED
  BY <1>1 DEF RequestInv, CallInv, Phase, CallFields

\* What the step of one call leaves alone.
Elsewhere(r) ==
  /\ plan' = plan /\ networks' = networks
  /\ faults' = faults \/ Fault
  /\ DOMAIN run' = Runs /\ DOMAIN box' = Runs
  /\ \A s \in Runs \ {r} : run'[s] = run[s] /\ box'[s] = box[s]

\* A step of one call keeps the invariant if it does so for that call.
LEMMA OneCall ==
  ASSUME RequestInv, NEW r \in Runs, Elsewhere(r), CallInv(plan, run'[r], box'[r])
  PROVE  RequestInv'
<1>1. faults' \in 0..MaxFaults
  BY OptionsAssumption DEF RequestInv, Elsewhere, Fault, CanFault
<1>2. \A s \in Runs : CallInv(plan, run'[s], box'[s])
  BY DEF RequestInv, Elsewhere
<1>3. QED
  BY <1>1, <1>2 DEF RequestInv, Elsewhere

\* It holds at first.
LEMMA InitKeeps == ASSUME Init PROVE RequestInv
<1>1. ASSUME NEW r \in Runs
      PROVE  CallInv(plan, run[r], box[r])
  <2> DEFINE c == run[r]
  <2>1. /\ c = [at |-> "customize", next |-> 1, def |-> Blank, err |-> FALSE,
                todo |-> <<>>, walk |-> <<>>, back |-> "done"]
        /\ box[r] = NoBox /\ plan \in Plans
    BY DEF Init
  <2>2. IsDefinition(Blank) /\ Blank.files = <<>> /\ Blank.ports = <<>> /\ Blank.networks = <<>>
    <3>1. IsList(<<>>)
      BY DEF IsList, ToSet
    <3>2. QED
      BY <3>1 DEF IsDefinition, Blank
  <2>3. Phase(plan, c, box[r])
    <3>1. Len(plan) \in Nat
      BY <2>1, OptionsAssumption, LenProperties
    <3>2. 1 \in 1..Bound(plan, Blank) /\ 1 <= Len(plan) + 1
      BY <2>2, <3>1 DEF Bound
    <3>3. DOMAIN c = CallFields /\ c.at = "customize" /\ c.next = 1 /\ c.def = Blank
      BY <2>1 DEF CallFields
    <3> HIDE DEF c
    <3>4. QED
      BY <2>1, <2>2, <3>2, <3>3, NothingInBox DEF Phase, Started
  <2>4. Kept(plan, c, box[r])
    <3>1. ToSet(<<>>) = {} /\ Len(<<>>) = 0
      BY DEF ToSet
    <3>2. Apart(<<>>)
      BY <3>1 DEF Apart
    <3>3. Applied(plan, 0, Blank)
      BY <2>2, <3>1, <3>2, NothingGiven DEF Applied
    <3>4. c.next - 1 = 0 /\ c.at = "customize" /\ c.def = Blank
      BY <2>1
    <3> HIDE DEF c
    <3>5. QED
      BY <2>1, <3>3, <3>4, NothingInBox DEF Kept, Whole
  <2>5. Networked(c, box[r]) /\ Published(c, box[r]) /\ Filled(c, box[r])
    BY <2>1, NothingInBox DEF Networked, Published, Filled
  <2>6. QED
    BY <2>3, <2>4, <2>5 DEF CallInv
<1>2. faults \in 0..MaxFaults
  BY OptionsAssumption DEF Init
<1>3. plan \in Plans /\ DOMAIN run = Runs /\ DOMAIN box = Runs /\ networks = {"bridge", "app", "db"}
  BY DEF Init
<1>4. QED
  BY <1>1, <1>2, <1>3 DEF RequestInv
-----------------------------------------------------------------------------
(* Every step keeps the invariant.                                         *)

\* A call that ends, with an error or without.
LEMMA StopKeeps ==
  ASSUME RequestInv, NEW r \in Runs, Fail(r) \/ Goto(r, "done"), plan' = plan, box' = box,
         networks' = networks, faults' = faults \/ Fault
  PROVE  RequestInv'
<1>1. /\ CallInv(plan, run[r], box[r]) /\ plan \in Plans
      /\ DOMAIN run[r] = CallFields /\ DOMAIN run = Runs /\ DOMAIN box = Runs
      /\ DOMAIN run[r] = {"at", "next", "def", "err", "todo", "walk", "back"}
  BY CallOf
<1>2. /\ DOMAIN run' = Runs /\ DOMAIN run'[r] = DOMAIN run[r] /\ run'[r].def = run[r].def
      /\ run'[r].at = "done" /\ run'[r].next \in {1, run[r].next}
      /\ \A s \in Runs \ {r} : run'[s] = run[s]
  <2>1. CASE Fail(r)
    BY <1>1, <2>1 DEF Fail
  <2>2. CASE Goto(r, "done")
    BY <1>1, <2>2 DEF Goto
  <2>3. QED
    BY <2>1, <2>2
<1>3. CallInv(plan, run'[r], box[r])
  BY <1>1, <1>2, Ends
<1>4. Elsewhere(r)
  BY <1>1, <1>2 DEF Elsewhere
<1>5. QED
  BY <1>3, <1>4, OneCall

\* How far a step of the startup commands takes a call.
Advances(c, c2) ==
  /\ c.at \in Started /\ c2.at \in Started
  /\ \/ c2.next \in {1, c.next}
     \/ c2.next = c.next + 1 /\ c.next <= Len(c.def.files)
  /\ c2.at = "dispatch" =>
       /\ c2.back \in {"PostStarts", "PostReadies"}
       /\ Len(c2.walk) \in 0..Len(c.def.files)
       /\ c2.next <= Len(c2.walk) + 1

\* A step after the start that changes neither the definition nor the files.
LEMMA CommandKeeps ==
  ASSUME RequestInv, NEW r \in Runs, Elsewhere(r),
         DOMAIN run'[r] = CallFields, run'[r].def = run[r].def,
         DOMAIN box'[r] = DOMAIN NoBox, Alike(box[r], box'[r]),
         Advances(run[r], run'[r])
  PROVE  RequestInv'
<1>1. CallInv(plan, run[r], box[r]) /\ Phase(plan, run[r], box[r]) /\ plan \in Plans
  BY CallOf
<1>2. run'[r].next \in 1..Bound(plan, run[r].def)
  <2>1. /\ Len(plan) \in Nat /\ Len(run[r].def.files) \in Nat /\ Len(run[r].def.networks) \in Nat
        /\ run[r].next \in Nat \ {0} /\ 1 \in 1..Bound(plan, run[r].def)
    BY <1>1, Bounds
  <2>2. \A k, l, m, n \in Nat : k <= m => k + 1 \in 1..(l + m + n + 1)
    OBVIOUS
  <2>3. CASE run'[r].next \in {1, run[r].next}
    BY <1>1, <2>1, <2>3 DEF Phase
  <2>4. CASE run'[r].next = run[r].next + 1 /\ run[r].next <= Len(run[r].def.files)
    <3>1. run[r].next \in Nat
      BY <2>1
    <3>2. run[r].next + 1 \in 1..Bound(plan, run[r].def)
      BY <2>1, <2>2, <2>4, <3>1, Zenon DEF Bound
    <3>3. QED
      BY <2>4, <3>2
  <2>5. QED
    BY <2>3, <2>4 DEF Advances
<1>3. box[r].state = "running"
  BY <1>1 DEF Phase, Advances
<1>4. Phase(plan, run'[r], box'[r])
  BY <1>1, <1>2, <1>3 DEF Phase, Started, Alike, Advances
<1>5. CallInv(plan, run'[r], box'[r])
  BY <1>1, <1>4, GoesOn DEF Advances
<1>6. QED
  BY <1>5, OneCall

\* An option returns an error.
LEMMA RefuseKeeps == ASSUME RequestInv, NEW r \in Runs, Refuse(r) PROVE RequestInv'
BY StopKeeps DEF Refuse

\* The network of WithNewNetwork cannot be made.
LEMMA NewNetworkFailsKeeps == ASSUME RequestInv, NEW r \in Runs, NewNetworkFails(r) PROVE RequestInv'
BY StopKeeps DEF NewNetworkFails

\* The container cannot be created.
LEMMA CreateFailsKeeps == ASSUME RequestInv, NEW r \in Runs, CreateFails(r) PROVE RequestInv'
BY StopKeeps DEF CreateFails

\* A further network cannot be joined.
LEMMA ConnectFailsKeeps == ASSUME RequestInv, NEW r \in Runs, ConnectFails(r) PROVE RequestInv'
BY StopKeeps DEF ConnectFails

\* A file cannot be copied.
LEMMA CopyFailsKeeps == ASSUME RequestInv, NEW r \in Runs, CopyFails(r) PROVE RequestInv'
BY StopKeeps DEF CopyFails

\* The container cannot be started.
LEMMA StartFailsKeeps == ASSUME RequestInv, NEW r \in Runs, StartFails(r) PROVE RequestInv'
BY StopKeeps DEF StartFails

\* Run returns.
LEMMA FinishKeeps == ASSUME RequestInv, NEW r \in Runs, Finish(r) PROVE RequestInv'
BY StopKeeps DEF Finish

\* An option is applied.
LEMMA ApplyKeeps ==
  ASSUME RequestInv, NEW r \in Runs, Apply(r)
  PROVE  RequestInv'
<1> DEFINE c == run[r]
           e == Customize(c.def, Option(r))
<1>1. /\ CallInv(plan, c, box[r]) /\ Phase(plan, c, box[r]) /\ IsDefinition(c.def) /\ plan \in Plans
      /\ DOMAIN c = CallFields /\ DOMAIN run = Runs /\ DOMAIN box = Runs
      /\ DOMAIN c = {"at", "next", "def", "err", "todo", "walk", "back"}
  BY CallOf
<1>2. /\ c.at = "customize" /\ c.next <= Len(plan) /\ Option(r) = Options[plan[c.next]]
      /\ Option(r).opt # "WithNewNetwork"
      /\ plan' = plan /\ box' = box /\ networks' = networks /\ faults' = faults
      /\ run' = [run EXCEPT ![r].def = e, ![r].next = c.next + 1]
  BY DEF Apply, MoreOptions, At, Option
<1> HIDE DEF e
<1>3. /\ run'[r].def = e /\ run'[r].next = c.next + 1 /\ run'[r].at = "customize"
      /\ DOMAIN run'[r] = CallFields /\ Elsewhere(r)
  BY <1>1, <1>2 DEF Elsewhere
<1>4. /\ Len(plan) \in Nat /\ c.next \in Nat \ {0} /\ c.next - 1 \in Nat
      /\ (c.next - 1) + 1 = c.next /\ c.next \in 1..Len(plan)
  BY <1>1, <1>2, Bounds
<1>5. Applied(plan, c.next - 1, c.def)
  BY <1>1, <1>2 DEF CallInv, Kept
<1>6. /\ IsDefinition(e) /\ Applied(plan, c.next, e)
      /\ Len(c.def.files) <= Len(e.files) /\ Len(c.def.networks) <= Len(e.networks)
  <2> DEFINE k == c.next - 1
  <2>1. k \in Nat /\ k + 1 = c.next /\ k + 1 \in 1..Len(plan) /\ Applied(plan, k, c.def)
    BY <1>4, <1>5
  <2>2. e = Customize(c.def, Options[plan[k + 1]]) /\ Options[plan[k + 1]].opt # "WithNewNetwork"
    BY <1>2, <2>1 DEF e
  <2> HIDE DEF k, c
  <2>3. /\ IsDefinition(e) /\ Applied(plan, k + 1, e)
        /\ Len(c.def.files) <= Len(e.files) /\ Len(c.def.networks) <= Len(e.networks)
    BY <1>1, <2>1, <2>2, AppliedMore
  <2>4. QED
    BY <2>1, <2>3
<1>7. CallInv(plan, run'[r], box'[r])
  BY <1>1, <1>2, <1>3, <1>6, Customizes
<1>8. QED
  BY <1>3, <1>7, OneCall

\* WithNewNetwork makes its network and is applied.
LEMMA ApplyNewNetworkKeeps ==
  ASSUME RequestInv, NEW r \in Runs, ApplyNewNetwork(r)
  PROVE  RequestInv'
<1> DEFINE c == run[r]
           n == CHOOSE n \in NewNetworks \ networks : TRUE
           e == JoinNetwork(c.def, n, Option(r).arg)
<1>1. /\ CallInv(plan, c, box[r]) /\ Phase(plan, c, box[r]) /\ IsDefinition(c.def) /\ plan \in Plans
      /\ DOMAIN c = CallFields /\ DOMAIN run = Runs /\ DOMAIN box = Runs
      /\ DOMAIN c = {"at", "next", "def", "err", "todo", "walk", "back"}
  BY CallOf
<1>2. /\ c.at = "customize" /\ c.next <= Len(plan) /\ Options[plan[c.next]].opt = "WithNewNetwork"
      /\ n \in NewNetworks /\ networks' = networks \cup {n}
      /\ plan' = plan /\ box' = box /\ faults' = faults
      /\ run' = [run EXCEPT ![r].def = e, ![r].next = c.next + 1]
  BY DEF ApplyNewNetwork, MoreOptions, At, Option
<1> HIDE DEF e, n
<1>3. /\ run'[r].def = e /\ run'[r].next = c.next + 1 /\ run'[r].at = "customize"
      /\ DOMAIN run'[r] = CallFields /\ DOMAIN run' = Runs
      /\ \A s \in Runs \ {r} : run'[s] = run[s]
  BY <1>1, <1>2
<1>4. /\ Len(plan) \in Nat /\ c.next \in Nat \ {0} /\ c.next - 1 \in Nat
      /\ (c.next - 1) + 1 = c.next /\ c.next \in 1..Len(plan)
  BY <1>1, <1>2, Bounds
<1>5. Applied(plan, c.next - 1, c.def)
  BY <1>1, <1>2 DEF CallInv, Kept
<1>6. /\ IsDefinition(e) /\ Applied(plan, c.next, e)
      /\ Len(c.def.files) <= Len(e.files) /\ Len(c.def.networks) <= Len(e.networks)
  <2> DEFINE k == c.next - 1
             aliases == Option(r).arg
  <2>1. k \in Nat /\ k + 1 = c.next /\ k + 1 \in 1..Len(plan) /\ Applied(plan, k, c.def)
    BY <1>4, <1>5
  <2>2. e = JoinNetwork(c.def, n, aliases) /\ Options[plan[k + 1]].opt = "WithNewNetwork"
    BY <1>2, <2>1 DEF e
  <2> HIDE DEF k, c, aliases
  <2>3. /\ IsDefinition(e) /\ Applied(plan, k + 1, e)
        /\ Len(c.def.files) <= Len(e.files) /\ Len(c.def.networks) <= Len(e.networks)
    BY <1>1, <2>1, <2>2, AppliedNewNetwork
  <2>4. QED
    BY <2>1, <2>3
<1>7. CallInv(plan, run'[r], box[r])
  BY <1>1, <1>2, <1>3, <1>6, Customizes
<1>8. \A s \in Runs : CallInv(plan, run'[s], box[s])
  BY <1>3, <1>7 DEF RequestInv
<1>9. QED
  BY <1>1, <1>2, <1>3, <1>8 DEF RequestInv

\* The definition is validated.
LEMMA ValidateKeeps ==
  ASSUME RequestInv, NEW r \in Runs, Validate(r)
  PROVE  RequestInv'
<1> DEFINE c == run[r]
<1>1. /\ CallInv(plan, c, box[r]) /\ plan \in Plans
      /\ DOMAIN c = CallFields /\ DOMAIN run = Runs /\ DOMAIN box = Runs
      /\ DOMAIN c = {"at", "next", "def", "err", "todo", "walk", "back"}
  BY CallOf
<1>2. /\ c.at = "customize" /\ c.next > Len(plan)
      /\ plan' = plan /\ box' = box /\ networks' = networks /\ faults' = faults
  BY DEF Validate, At
<1>3. CASE Goto(r, "preCreate")
  <2>1. /\ run'[r].def = c.def /\ run'[r].next = 1 /\ run'[r].at = "preCreate"
        /\ DOMAIN run'[r] = CallFields /\ Elsewhere(r)
    BY <1>1, <1>2, <1>3 DEF Goto, Elsewhere
  <2>2. CallInv(plan, run'[r], box'[r])
    BY <1>1, <1>2, <2>1, Validated
  <2>3. QED
    BY <2>1, <2>2, OneCall
<1>4. CASE Fail(r)
  BY <1>2, <1>4, StopKeeps
<1>5. QED
  BY <1>3, <1>4 DEF Validate

\* The configs of the container are computed.
LEMMA PreCreateKeeps ==
  ASSUME RequestInv, NEW r \in Runs, PreCreate(r)
  PROVE  RequestInv'
<1> DEFINE c == run[r]
           b == box[r]
           d == c.def
<1>1. /\ CallInv(plan, c, b) /\ plan \in Plans
      /\ DOMAIN c = CallFields /\ DOMAIN run = Runs /\ DOMAIN box = Runs
      /\ DOMAIN c = {"at", "next", "def", "err", "todo", "walk", "back"}
      /\ DOMAIN b = DOMAIN NoBox
      /\ DOMAIN b = {"state", "name", "cmd", "nets", "bindings", "publishAll",
                     "files", "ran", "walked"}
  BY CallOf
<1>2. c.at = "preCreate" /\ plan' = plan /\ networks' = networks /\ faults' = faults
  BY DEF PreCreate, At
<1>3. CASE Fail(r) /\ box' = box
  BY <1>2, <1>3, StopKeeps
<1>4. CASE /\ Goto(r, "create")
           /\ box' = [box EXCEPT ![r] = [@ EXCEPT !.name = d.name,
                                                  !.cmd = Config(d).cmd,
                                                  !.nets = Endpoints(d, FirstEndpoint(d)),
                                                  !.bindings = Bindings(d),
                                                  !.publishAll = PublishAll(d)]]
  <2>1. /\ run'[r].def = d /\ run'[r].next = 1 /\ run'[r].at = "create"
        /\ DOMAIN run'[r] = CallFields /\ DOMAIN run' = Runs
        /\ \A s \in Runs \ {r} : run'[s] = run[s]
    BY <1>1, <1>2, <1>4 DEF Goto
  <2>2. /\ DOMAIN box' = Runs /\ \A s \in Runs \ {r} : box'[s] = box[s]
        /\ DOMAIN box'[r] = DOMAIN NoBox
        /\ box'[r].state = b.state /\ box'[r].files = b.files
        /\ box'[r].nets = Endpoints(d, FirstEndpoint(d))
        /\ box'[r].bindings = Bindings(d) /\ box'[r].publishAll = PublishAll(d)
    BY <1>1, <1>4
  <2>3. CallInv(plan, run'[r], box'[r])
    BY <1>1, <1>2, <2>1, <2>2, PreCreated
  <2>4. Elsewhere(r)
    BY <1>2, <2>1, <2>2 DEF Elsewhere
  <2>5. QED
    BY <2>3, <2>4, OneCall
<1>5. QED
  BY <1>3, <1>4 DEF PreCreate, Def

\* The container is created.
LEMMA CreateKeeps ==
  ASSUME RequestInv, NEW r \in Runs, Create(r)
  PROVE  RequestInv'
<1> DEFINE c == run[r]
           b == box[r]
<1>1. /\ CallInv(plan, c, b) /\ plan \in Plans
      /\ DOMAIN c = CallFields /\ DOMAIN run = Runs /\ DOMAIN box = Runs
      /\ DOMAIN c = {"at", "next", "def", "err", "todo", "walk", "back"}
      /\ DOMAIN b = DOMAIN NoBox
      /\ DOMAIN b = {"state", "name", "cmd", "nets", "bindings", "publishAll",
                     "files", "ran", "walked"}
  BY CallOf
<1>2. /\ c.at = "create" /\ plan' = plan /\ networks' = networks /\ faults' = faults
      /\ run' = [run EXCEPT ![r].at = "connect", ![r].next = 1]
      /\ box' = [box EXCEPT ![r].state = "created"]
  BY DEF Create, At, Goto
<1>3. /\ run'[r].def = c.def /\ run'[r].next = 1 /\ run'[r].at = "connect"
      /\ DOMAIN run'[r] = CallFields
  BY <1>1, <1>2
<1>4. /\ DOMAIN box'[r] = DOMAIN NoBox /\ box'[r].state = "created"
      /\ box'[r].files = b.files /\ box'[r].nets = b.nets
      /\ box'[r].bindings = b.bindings /\ box'[r].publishAll = b.publishAll
  BY <1>1, <1>2
<1>5. CallInv(plan, run'[r], box'[r])
  BY <1>1, <1>2, <1>3, <1>4, Created
<1>6. Elsewhere(r)
  BY <1>1, <1>2 DEF Elsewhere
<1>7. QED
  BY <1>5, <1>6, OneCall

\* It joins one network more.
LEMMA ConnectKeeps ==
  ASSUME RequestInv, NEW r \in Runs, Connect(r)
  PROVE  RequestInv'
<1> DEFINE c == run[r]
           b == box[r]
           n == c.def.networks[c.next + 1]
<1>1. /\ CallInv(plan, c, b) /\ plan \in Plans
      /\ DOMAIN c = CallFields /\ DOMAIN run = Runs /\ DOMAIN box = Runs
      /\ DOMAIN c = {"at", "next", "def", "err", "todo", "walk", "back"}
      /\ DOMAIN b = DOMAIN NoBox
      /\ DOMAIN b = {"state", "name", "cmd", "nets", "bindings", "publishAll",
                     "files", "ran", "walked"}
  BY CallOf
<1>2. /\ c.at = "connect" /\ plan' = plan /\ networks' = networks /\ faults' = faults
      /\ c.next < Len(c.def.networks) /\ n \notin DOMAIN b.nets
      /\ run' = [run EXCEPT ![r].next = c.next + 1]
      /\ box' = [box EXCEPT ![r].nets = With(b.nets, n, Endpoint(c.def, n))]
  BY DEF Connect, At, Def, FurtherNetwork
<1>3. /\ run'[r].def = c.def /\ run'[r].next = c.next + 1 /\ run'[r].at = "connect"
      /\ DOMAIN run'[r] = CallFields
  BY <1>1, <1>2
<1>4. /\ DOMAIN box'[r] = DOMAIN NoBox /\ box'[r].state = b.state
      /\ box'[r].files = b.files /\ box'[r].nets = With(b.nets, n, Endpoint(c.def, n))
      /\ box'[r].bindings = b.bindings /\ box'[r].publishAll = b.publishAll
  BY <1>1, <1>2
<1>5. CallInv(plan, run'[r], box'[r])
  BY <1>1, <1>2, <1>3, <1>4, JoinsOne
<1>6. Elsewhere(r)
  BY <1>1, <1>2 DEF Elsewhere
<1>7. QED
  BY <1>5, <1>6, OneCall

\* It has joined them all.
LEMMA ConnectedKeeps ==
  ASSUME RequestInv, NEW r \in Runs, Connected(r)
  PROVE  RequestInv'
<1> DEFINE c == run[r]
<1>1. /\ CallInv(plan, c, box[r]) /\ plan \in Plans
      /\ DOMAIN c = CallFields /\ DOMAIN run = Runs /\ DOMAIN box = Runs
      /\ DOMAIN c = {"at", "next", "def", "err", "todo", "walk", "back"}
  BY CallOf
<1>2. /\ c.at = "connect" /\ plan' = plan /\ networks' = networks /\ faults' = faults /\ box' = box
      /\ c.next >= Len(c.def.networks)
      /\ run' = [run EXCEPT ![r].at = "copy", ![r].next = 1]
  BY DEF Connected, At, Def, Goto
<1>3. /\ run'[r].def = c.def /\ run'[r].next = 1 /\ run'[r].at = "copy"
      /\ DOMAIN run'[r] = CallFields /\ Elsewhere(r)
  BY <1>1, <1>2 DEF Elsewhere
<1>4. CallInv(plan, run'[r], box'[r])
  BY <1>1, <1>2, <1>3, JoinedAll
<1>5. QED
  BY <1>3, <1>4, OneCall

\* A file is copied.
LEMMA CopyKeeps ==
  ASSUME RequestInv, NEW r \in Runs, Copy(r)
  PROVE  RequestInv'
<1> DEFINE c == run[r]
           b == box[r]
           f == c.def.files[c.next]
           content == Content(f)
<1>1. /\ CallInv(plan, c, b) /\ plan \in Plans
      /\ DOMAIN c = CallFields /\ DOMAIN run = Runs /\ DOMAIN box = Runs
      /\ DOMAIN c = {"at", "next", "def", "err", "todo", "walk", "back"}
      /\ DOMAIN b = DOMAIN NoBox
      /\ DOMAIN b = {"state", "name", "cmd", "nets", "bindings", "publishAll",
                     "files", "ran", "walked"}
  BY CallOf
<1>2. /\ c.at = "copy" /\ plan' = plan /\ networks' = networks /\ faults' = faults
      /\ c.next <= Len(c.def.files)
      /\ run' = [run EXCEPT ![r].next = c.next + 1]
      /\ box' = [box EXCEPT ![r].files = With(b.files, Lands(f), content)]
  BY DEF Copy, MoreFiles, NextFile, At, Def
<1>3. f.source # "shared" => content = f.body
  BY DEF Content
<1> HIDE DEF content
<1>4. /\ run'[r].def = c.def /\ run'[r].next = c.next + 1 /\ run'[r].at = "copy"
      /\ DOMAIN run'[r] = CallFields
  BY <1>1, <1>2
<1>5. /\ DOMAIN box'[r] = DOMAIN NoBox /\ box'[r].state = b.state
      /\ box'[r].files = With(b.files, Lands(f), content) /\ box'[r].nets = b.nets
      /\ box'[r].bindings = b.bindings /\ box'[r].publishAll = b.publishAll
  BY <1>1, <1>2
<1>6. CallInv(plan, run'[r], box'[r])
  BY <1>1, <1>2, <1>3, <1>4, <1>5, CopiesOne
<1>7. Elsewhere(r)
  BY <1>1, <1>2 DEF Elsewhere
<1>8. QED
  BY <1>6, <1>7, OneCall

\* The container is started, or left as it is without auto-start.
LEMMA StartKeeps ==
  ASSUME RequestInv, NEW r \in Runs, Start(r)
  PROVE  RequestInv'
<1> DEFINE c == run[r]
           b == box[r]
           todo == Commands(c.def, "PostStarts")
<1>1. /\ CallInv(plan, c, b) /\ plan \in Plans
      /\ DOMAIN c = CallFields /\ DOMAIN run = Runs /\ DOMAIN box = Runs
      /\ DOMAIN c = {"at", "next", "def", "err", "todo", "walk", "back"}
      /\ DOMAIN b = DOMAIN NoBox
      /\ DOMAIN b = {"state", "name", "cmd", "nets", "bindings", "publishAll",
                     "files", "ran", "walked"}
  BY CallOf
<1>2. /\ c.at = "copy" /\ plan' = plan /\ networks' = networks /\ faults' = faults
      /\ c.next > Len(c.def.files)
  BY DEF Start, At, Def
<1>3. CASE Goto(r, "done") /\ box' = box
  BY <1>2, <1>3, StopKeeps
<1>4. CASE EnterPhase(r, "PostStarts") /\ box' = [box EXCEPT ![r].state = "running"]
  <2>1. run' = [run EXCEPT ![r].at = "PostStarts", ![r].todo = todo]
    BY <1>4 DEF EnterPhase, Def
  <2> HIDE DEF todo
  <2>2. /\ run'[r].def = c.def /\ run'[r].next = c.next /\ run'[r].at = "PostStarts"
        /\ DOMAIN run'[r] = CallFields
    BY <1>1, <2>1
  <2>3. /\ DOMAIN box'[r] = DOMAIN NoBox /\ box'[r].state = "running"
        /\ box'[r].files = b.files /\ box'[r].nets = b.nets
        /\ box'[r].bindings = b.bindings /\ box'[r].publishAll = b.publishAll
    BY <1>1, <1>4
  <2>4. CallInv(plan, run'[r], box'[r])
    BY <1>1, <1>2, <2>2, <2>3, Starts
  <2>5. Elsewhere(r)
    BY <1>1, <1>2, <1>4, <2>1 DEF Elsewhere
  <2>6. QED
    BY <2>4, <2>5, OneCall
<1>5. QED
  BY <1>3, <1>4 DEF Start

\* A startup command is executed.
LEMMA ExecuteKeeps ==
  ASSUME RequestInv, NEW r \in Runs, Execute(r)
  PROVE  RequestInv'
<1> DEFINE c == run[r]
           b == box[r]
<1>1. /\ DOMAIN c = CallFields /\ DOMAIN run = Runs /\ DOMAIN box = Runs
      /\ DOMAIN c = {"at", "next", "def", "err", "todo", "walk", "back"}
      /\ DOMAIN b = DOMAIN NoBox
      /\ DOMAIN b = {"state", "name", "cmd", "nets", "bindings", "publishAll",
                     "files", "ran", "walked"}
  BY CallOf
<1>2. /\ c.at \in {"PostStarts", "PostReadies"}
      /\ plan' = plan /\ networks' = networks /\ faults' = faults
      /\ run' = [run EXCEPT ![r].todo = Tail(c.todo)]
      /\ box' = [box EXCEPT ![r].ran = Append(b.ran, Command(r))]
  BY DEF Execute, InPhase
<1>3. /\ run'[r].def = c.def /\ run'[r].next = c.next /\ run'[r].at = c.at
      /\ DOMAIN run'[r] = CallFields
  BY <1>1, <1>2
<1>4. DOMAIN box'[r] = DOMAIN NoBox /\ Alike(b, box'[r])
  BY <1>1, <1>2 DEF Alike
<1>5. Elsewhere(r)
  BY <1>1, <1>2 DEF Elsewhere
<1>6. Advances(c, run'[r])
  BY <1>2, <1>3 DEF Started, Advances
<1>7. QED
  BY <1>3, <1>4, <1>5, <1>6, CommandKeeps

\* A startup command cannot be executed.
LEMMA ExecuteFailsKeeps ==
  ASSUME RequestInv, NEW r \in Runs, ExecuteFails(r)
  PROVE  RequestInv'
<1> DEFINE c == run[r]
<1>1. /\ DOMAIN c = CallFields /\ DOMAIN run = Runs /\ DOMAIN box = Runs
      /\ DOMAIN c = {"at", "next", "def", "err", "todo", "walk", "back"}
      /\ DOMAIN box[r] = DOMAIN NoBox
  BY CallOf
<1>2. /\ c.at \in {"PostStarts", "PostReadies"}
      /\ plan' = plan /\ networks' = networks /\ Fault /\ box' = box
      /\ run' = [run EXCEPT ![r].todo = Tail(c.todo), ![r].err = TRUE]
  BY DEF ExecuteFails, InPhase
<1>3. /\ run'[r].def = c.def /\ run'[r].next = c.next /\ run'[r].at = c.at
      /\ DOMAIN run'[r] = CallFields
  BY <1>1, <1>2
<1>4. DOMAIN box'[r] = DOMAIN NoBox /\ Alike(box[r], box'[r])
  BY <1>1, <1>2 DEF Alike
<1>5. Elsewhere(r)
  BY <1>1, <1>2 DEF Elsewhere
<1>6. Advances(c, run'[r])
  BY <1>2, <1>3 DEF Started, Advances
<1>7. QED
  BY <1>3, <1>4, <1>5, <1>6, CommandKeeps

\* The dispatcher begins its walk, if it is there.
LEMMA DispatchKeeps ==
  ASSUME RequestInv, NEW r \in Runs, Dispatch(r)
  PROVE  RequestInv'
<1> DEFINE c == run[r]
           b == box[r]
           walk == Walk(DOMAIN b.files)
<1>1. /\ CallInv(plan, c, b) /\ plan \in Plans
      /\ DOMAIN c = CallFields /\ DOMAIN run = Runs /\ DOMAIN box = Runs
      /\ DOMAIN c = {"at", "next", "def", "err", "todo", "walk", "back"}
      /\ DOMAIN b = DOMAIN NoBox
      /\ DOMAIN b = {"state", "name", "cmd", "nets", "bindings", "publishAll",
                     "files", "ran", "walked"}
  BY CallOf
<1>2. /\ c.at \in {"PostStarts", "PostReadies"}
      /\ plan' = plan /\ networks' = networks /\ faults' = faults
      /\ \/ run' = [run EXCEPT ![r].back = c.at, ![r].at = "dispatch",
                               ![r].todo = Tail(c.todo), ![r].next = 1, ![r].walk = walk]
         \/ run' = [run EXCEPT ![r].todo = Tail(c.todo)]
      /\ box' = [box EXCEPT ![r].walked = <<>>]
  BY DEF Dispatch, InPhase
<1>3. Len(walk) \in Nat /\ Len(walk) <= Len(c.def.files)
  BY <1>1, WalkLength
<1> HIDE DEF walk
<1>4. DOMAIN box'[r] = DOMAIN NoBox /\ Alike(b, box'[r])
  BY <1>1, <1>2 DEF Alike
<1>5. Elsewhere(r)
  BY <1>1, <1>2 DEF Elsewhere
<1>6. CASE run' = [run EXCEPT ![r].back = c.at, ![r].at = "dispatch",
                              ![r].todo = Tail(c.todo), ![r].next = 1, ![r].walk = walk]
  <2>1. /\ run'[r].def = c.def /\ run'[r].next = 1 /\ run'[r].at = "dispatch"
        /\ DOMAIN run'[r] = CallFields /\ run'[r].back = c.at /\ run'[r].walk = walk
    BY <1>1, <1>6
  <2>2. c.at \in Started /\ run'[r].at \in Started /\ run'[r].back \in {"PostStarts", "PostReadies"}
    BY <1>2, <2>1 DEF Started
  <2>3. Len(run'[r].walk) \in 0..Len(c.def.files) /\ run'[r].next <= Len(run'[r].walk) + 1
    <3>1. Len(c.def.files) \in Nat
      BY <1>1, Bounds DEF CallInv
    <3>2. QED
      BY <1>3, <2>1, <3>1
  <2>4. Advances(c, run'[r])
    BY <2>1, <2>2, <2>3 DEF Advances
  <2>5. QED
    BY <1>4, <1>5, <2>1, <2>4, CommandKeeps
<1>7. CASE run' = [run EXCEPT ![r].todo = Tail(c.todo)]
  <2>1. /\ run'[r].def = c.def /\ run'[r].next = c.next /\ run'[r].at = c.at
        /\ DOMAIN run'[r] = CallFields
    BY <1>1, <1>7
  <2>2. Advances(c, run'[r])
    BY <1>2, <2>1 DEF Started, Advances
  <2>3. QED
    BY <1>4, <1>5, <2>1, <2>2, CommandKeeps
<1>8. QED
  BY <1>2, <1>6, <1>7

\* It runs the next script.
LEMMA RunScriptKeeps ==
  ASSUME RequestInv, NEW r \in Runs, RunScript(r)
  PROVE  RequestInv'
<1> DEFINE c == run[r]
           b == box[r]
           script == b.files[c.walk[c.next]]
<1>1. /\ Phase(plan, c, b) /\ plan \in Plans
      /\ DOMAIN c = CallFields /\ DOMAIN run = Runs /\ DOMAIN box = Runs
      /\ DOMAIN c = {"at", "next", "def", "err", "todo", "walk", "back"}
      /\ DOMAIN b = DOMAIN NoBox
      /\ DOMAIN b = {"state", "name", "cmd", "nets", "bindings", "publishAll",
                     "files", "ran", "walked"}
  BY CallOf
<1>2. /\ c.at = "dispatch" /\ c.next <= Len(c.walk)
      /\ plan' = plan /\ networks' = networks /\ faults' = faults
      /\ run' = [run EXCEPT ![r].next = c.next + 1]
      /\ box' = [box EXCEPT ![r].walked = Append(b.walked, script)]
  BY DEF RunScript, At
<1> HIDE DEF script
<1>3. /\ run'[r].def = c.def /\ run'[r].next = c.next + 1 /\ run'[r].at = "dispatch"
      /\ DOMAIN run'[r] = CallFields /\ run'[r].walk = c.walk /\ run'[r].back = c.back
  BY <1>1, <1>2
<1>4. DOMAIN box'[r] = DOMAIN NoBox /\ Alike(b, box'[r])
  BY <1>1, <1>2 DEF Alike
<1>5. Elsewhere(r)
  BY <1>1, <1>2 DEF Elsewhere
<1>6. /\ c.back \in {"PostStarts", "PostReadies"}
      /\ Len(c.walk) \in 0..Len(c.def.files) /\ c.next <= Len(c.walk) + 1
  BY <1>1, <1>2 DEF Phase
<1>7. c.at \in Started /\ run'[r].at \in Started
  BY <1>2, <1>3 DEF Started
<1>8. c.next <= Len(c.def.files) /\ c.next + 1 <= Len(c.walk) + 1
  <2>1. c.next \in Nat /\ Len(c.def.files) \in Nat
    BY <1>1, Bounds
  <2>2. \A k, l, m \in Nat : k <= l /\ l <= m => k <= m /\ k + 1 <= l + 1
    OBVIOUS
  <2>3. Len(c.walk) \in Nat /\ Len(c.walk) <= Len(c.def.files)
    BY <1>6, <2>1
  <2>4. QED
    BY <1>2, <2>1, <2>2, <2>3, Zenon
<1>9. Advances(c, run'[r])
  BY <1>3, <1>6, <1>7, <1>8 DEF Advances
<1>10. QED
  BY <1>3, <1>4, <1>5, <1>9, CommandKeeps

\* It ends.
LEMMA EndDispatchKeeps ==
  ASSUME RequestInv, NEW r \in Runs, EndDispatch(r)
  PROVE  RequestInv'
<1> DEFINE c == run[r]
<1>1. /\ Phase(plan, c, box[r]) /\ DOMAIN c = CallFields /\ DOMAIN run = Runs /\ DOMAIN box = Runs
      /\ DOMAIN c = {"at", "next", "def", "err", "todo", "walk", "back"}
      /\ DOMAIN box[r] = DOMAIN NoBox
  BY CallOf
<1>2. /\ c.at = "dispatch" /\ plan' = plan /\ networks' = networks /\ box' = box
      /\ faults' = faults \/ Fault
      /\ run' = [run EXCEPT ![r].at = c.back]
  BY DEF EndDispatch, At
<1>3. /\ run'[r].def = c.def /\ run'[r].next = c.next /\ run'[r].at = c.back
      /\ DOMAIN run'[r] = CallFields
  BY <1>1, <1>2
<1>4. DOMAIN box'[r] = DOMAIN NoBox /\ Alike(box[r], box'[r])
  BY <1>1, <1>2 DEF Alike
<1>5. Elsewhere(r)
  BY <1>1, <1>2 DEF Elsewhere
<1>6. Advances(c, run'[r])
  BY <1>1, <1>2, <1>3 DEF Started, Advances, Phase
<1>7. QED
  BY <1>3, <1>4, <1>5, <1>6, CommandKeeps

\* Run waits for the container.
LEMMA WaitKeeps ==
  ASSUME RequestInv, NEW r \in Runs, Wait(r)
  PROVE  RequestInv'
<1> DEFINE c == run[r]
           todo == Commands(c.def, "PostReadies")
<1>1. /\ DOMAIN c = CallFields /\ DOMAIN run = Runs /\ DOMAIN box = Runs
      /\ DOMAIN c = {"at", "next", "def", "err", "todo", "walk", "back"}
      /\ DOMAIN box[r] = DOMAIN NoBox
  BY CallOf
<1>2. c.at = "PostStarts" /\ plan' = plan /\ networks' = networks /\ box' = box
  BY DEF Wait, At
<1>3. CASE EnterPhase(r, "PostReadies") /\ faults' = faults
  <2>1. run' = [run EXCEPT ![r].at = "PostReadies", ![r].todo = todo]
    BY <1>3 DEF EnterPhase, Def
  <2> HIDE DEF todo
  <2>2. /\ run'[r].def = c.def /\ run'[r].next = c.next /\ run'[r].at = "PostReadies"
        /\ DOMAIN run'[r] = CallFields
    BY <1>1, <2>1
  <2>3. DOMAIN box'[r] = DOMAIN NoBox /\ Alike(box[r], box'[r])
    BY <1>1, <1>2 DEF Alike
  <2>4. Elsewhere(r)
    BY <1>1, <1>2, <1>3, <2>1 DEF Elsewhere
  <2>5. Advances(c, run'[r])
    BY <1>2, <2>2 DEF Started, Advances
  <2>6. QED
    BY <2>2, <2>3, <2>4, <2>5, CommandKeeps
<1>4. CASE Fail(r) /\ (faults' = faults \/ Fault)
  BY <1>2, <1>4, StopKeeps
<1>5. QED
  BY <1>3, <1>4 DEF Wait

\* Somebody else removes a network.
LEMMA RemoveNetworkKeeps ==
  ASSUME RequestInv, NEW n \in networks, RemoveNetwork(n)
  PROVE  RequestInv'
<1>1. /\ plan' = plan /\ run' = run /\ box' = box /\ networks' = networks \ {n}
      /\ faults < MaxFaults /\ faults' = faults + 1
  BY DEF RemoveNetwork, Fault, CanFault
<1>2. faults' \in 0..MaxFaults
  BY <1>1, OptionsAssumption DEF RequestInv
<1>3. QED
  BY <1>1, <1>2 DEF RequestInv

\* Every step keeps the invariant: one lemma for each action.
LEMMA NextKeeps == ASSUME RequestInv, [Next]_vars PROVE RequestInv'
<1>1. CASE UNCHANGED vars
  BY <1>1 DEF vars, RequestInv
<1>2. ASSUME NEW r \in Runs,
             \/ Refuse(r) \/ Apply(r) \/ ApplyNewNetwork(r) \/ NewNetworkFails(r) \/ Validate(r)
             \/ PreCreate(r) \/ Create(r) \/ CreateFails(r)
             \/ Connect(r) \/ ConnectFails(r) \/ Connected(r) \/ Copy(r) \/ CopyFails(r)
             \/ Start(r) \/ StartFails(r) \/ Execute(r) \/ ExecuteFails(r)
             \/ Dispatch(r) \/ RunScript(r) \/ EndDispatch(r) \/ Wait(r) \/ Finish(r)
      PROVE  RequestInv'
  BY <1>2, RefuseKeeps, ApplyKeeps, ApplyNewNetworkKeeps, NewNetworkFailsKeeps, ValidateKeeps,
     PreCreateKeeps, CreateKeeps, CreateFailsKeeps, ConnectKeeps, ConnectFailsKeeps,
     ConnectedKeeps, CopyKeeps, CopyFailsKeeps, StartKeeps, StartFailsKeeps, ExecuteKeeps,
     ExecuteFailsKeeps, DispatchKeeps, RunScriptKeeps, EndDispatchKeeps, WaitKeeps, FinishKeeps, Zenon
<1>3. ASSUME NEW n \in networks, RemoveNetwork(n)
      PROVE  RequestInv'
  BY <1>3, RemoveNetworkKeeps
<1>4. QED
  BY <1>1, <1>2, <1>3 DEF Next

\* Where the calls, their containers and the networks of the Engine always are.
THEOREM Invariant == Spec => []RequestInv
<1>1. Init => RequestInv
  BY InitKeeps
<1>2. RequestInv /\ [Next]_vars => RequestInv'
  BY NextKeeps
<1>3. QED
  BY <1>1, <1>2, PTL DEF Spec
-----------------------------------------------------------------------------
(* What the invariant says of the properties.                              *)

\* A call is where it can be, no further than its lists are long, and has a container just
\* when it has created one.
THEOREM TypeCorrect == Spec => []TypeOK
<1>1. RequestInv => TypeOK
  <2>1. SUFFICES ASSUME RequestInv, NEW r \in Runs
                 PROVE  /\ run[r].at \in Places
                        /\ run[r].next \in 1..(Len(plan) + Len(Def(r).files) + Len(Def(r).networks) + 1)
                        /\ box[r].state \in {"none", "created", "running"}
                        /\ run[r].at \in {"customize", "preCreate", "create"} => box[r].state = "none"
                        /\ run[r].at \in {"connect", "copy"} => box[r].state = "created"
    BY DEF TypeOK, RequestInv
  <2>2. Phase(plan, run[r], box[r])
    BY <2>1, CallOf
  <2>3. QED
    BY <2>2, NothingInBox DEF Phase, Places, Started, Def, Bound
<1>2. QED
  BY <1>1, Invariant, PTL

\* A running container is in every network that its options named and that the first modifier
\* of the endpoint settings does not touch, under the aliases they gave, whatever the modifiers
\* after the first one do and whichever networks others remove meanwhile.
THEOREM NetworksRight == Spec => []NetworksAsAsked
<1>1. RequestInv => NetworksAsAsked
  <2>1. SUFFICES ASSUME RequestInv, NEW r \in Runs, box[r].state = "running",
                        NEW n \in ToSet(Def(r).networks) \ Touched(Def(r))
                 PROVE  JoinedAsNamed(r, n)
    BY DEF NetworksAsAsked
  <2>2. IsList(Def(r).networks) /\ Joined(Def(r), box[r].nets, Len(Def(r).networks))
    BY <2>1, CallOf DEF CallInv, Phase, IsDefinition, Networked, Def
  <2>3. PICK i \in 1..Len(Def(r).networks) : n = Def(r).networks[i]
    BY <2>2, ListItems
  <2>4. i <= Len(Def(r).networks)
    BY <2>2, ListItems
  <2>5. QED
    BY <2>1, <2>2, <2>3, <2>4 DEF Joined, JoinedAsNamed
<1>2. QED
  BY <1>1, Invariant, PTL

\* All that the options were given is what all of them, one by one, were given.
LEMMA GivenToAll ==
  ASSUME plan \in Plans
  PROVE  /\ \A opt : GivenTo(plan, Len(plan), opt) = Given(plan, opt)
         /\ Files[plan] = GivenTo(plan, Len(plan), "WithFiles")
         /\ Ports[plan] = GivenTo(plan, Len(plan), "WithExposedPorts")
         /\ Scripts[plan] = ScriptsTo(plan, Len(plan))
<1>1. DOMAIN plan = 1..Len(plan)
  BY OptionsAssumption, LenProperties
<1>2. \A opt : GivenTo(plan, Len(plan), opt) = Given(plan, opt)
  BY <1>1 DEF GivenTo, Given
<1>3. Files[plan] = Given(plan, "WithFiles") /\ Ports[plan] = Given(plan, "WithExposedPorts")
  BY DEF Files, Ports
<1>4. Scripts[plan] = {e.cmd : e \in UNION {Given(plan, opt) : opt \in DurableOptions}}
  BY DEF Scripts
<1>5. Scripts[plan] = ScriptsTo(plan, Len(plan))
  BY <1>2, <1>4 DEF ScriptsTo
<1>6. QED
  BY <1>2, <1>3, <1>5

\* No container is started before every file of the options is in it: the caller's, where they
\* come to lie and with their content, every registered command as a script that no other
\* overwrote, and the dispatcher; for any options, any number of commands and whatever else
\* fails, as far as the caller's files keep apart and what a shared reader yields is left open.
THEOREM FilesRight == Spec => []FilesInPlace
<1>1. RequestInv => FilesInPlace
  <2>1. SUFFICES ASSUME RequestInv, NEW r \in Runs, box[r].state = "running"
                 PROVE  LET files == box[r].files
                        IN  /\ \A f \in Files[plan] :
                                 /\ Lands(f) \in DOMAIN files
                                 /\ /\ Away(f) /\ f.source # "shared"
                                    /\ \A g \in Files[plan] : Lands(g) = Lands(f) => g = f
                                    => files[Lands(f)] = f.body
                            /\ (\A f \in Files[plan] : Away(f)) =>
                                 /\ Scripts[plan] # {} =>
                                      Dispatcher \in DOMAIN files /\ files[Dispatcher] = "run.sh"
                                 /\ \A cmd \in Scripts[plan] :
                                      \E p \in DOMAIN files : p.place = "script" /\ files[p] = cmd
    BY DEF FilesInPlace
  <2> DEFINE d == run[r].def
             files == box[r].files
  <2>2. /\ plan \in Plans /\ IsList(d.files)
        /\ Applied(plan, Len(plan), d) /\ Copied(d, files, Len(d.files))
    BY <2>1, CallOf DEF CallInv, IsDefinition, Kept, Whole, Filled
  <2>3. /\ Files[plan] = GivenTo(plan, Len(plan), "WithFiles")
        /\ Scripts[plan] = ScriptsTo(plan, Len(plan))
    BY <2>2, GivenToAll
  <2>4. \A i \in 1..Len(d.files) :
          Lands(d.files[i]) \in DOMAIN files /\ Left(d, files, Lands(d.files[i]))
    <3>1. \A i \in 1..Len(d.files) : i <= Len(d.files)
      BY <2>2, ListItems
    <3> HIDE DEF d, files
    <3>2. QED
      BY <2>2, <3>1, ZenonT(40) DEF Copied
  <2> HIDE DEF d, files
  <2>5. \A i \in 1..Len(d.files) : d.files[i] \in Files[plan] \/ Own(d.files[i])
    <3>1. \A i \in 1..Len(d.files) : d.files[i] \in ToSet(d.files)
      BY <2>2, ListItems
    <3>2. QED
      BY <2>2, <2>3, <3>1 DEF Applied
  <2>6. ASSUME NEW f, Own(f)
        PROVE  /\ Lands(f) = f.path /\ f.source # "shared"
               /\ \/ f.path.place = "script"
                  \/ f.path = Dispatcher /\ f.path.place = "dispatcher"
    <3>1. f.source = "own"
      BY <2>6 DEF Own
    <3>2. Lands(f) = f.path /\ f.source # "shared"
      BY <3>1 DEF Lands
    <3>3. f.path.place = "script" \/ (f.path = Dispatcher /\ f.path.place = "dispatcher")
      <4>1. Dispatcher.place = "dispatcher"
        BY DEF Dispatcher, Place
      <4>2. f.path.place = "script" \/ f.path = Dispatcher
        BY <2>6 DEF Own, IsScript
      <4>3. QED
        BY <4>1, <4>2
    <3>4. QED
      BY <3>2, <3>3
  <2>7. ASSUME NEW f \in Files[plan]
        PROVE  Lands(f) \in DOMAIN files /\ Left(d, files, Lands(f))
    <3>1. f \in ToSet(d.files)
      BY <2>2, <2>3 DEF Applied
    <3>2. PICK i \in 1..Len(d.files) : f = d.files[i]
      BY <2>2, <3>1, ListItems
    <3>3. QED
      BY <2>4, <3>2
  <2>8. ASSUME NEW f \in Files[plan], Away(f), f.source # "shared",
               \A g \in Files[plan] : Lands(g) = Lands(f) => g = f
        PROVE  files[Lands(f)] = f.body
    <3>1. PICK i \in 1..Len(d.files) :
            /\ Lands(d.files[i]) = Lands(f)
            /\ d.files[i].source # "shared" => files[Lands(f)] = d.files[i].body
      BY <2>7 DEF Left
    <3>2. ~Own(d.files[i])
      BY <2>6, <2>8, <3>1 DEF Away
    <3>3. d.files[i] = f
      BY <2>5, <2>8, <3>1, <3>2
    <3>4. QED
      BY <2>8, <3>1, <3>3
  <2>9. ASSUME \A f \in Files[plan] : Away(f), Scripts[plan] # {}
        PROVE  Dispatcher \in DOMAIN files /\ files[Dispatcher] = "run.sh"
    <3>1. Dispatcher.place = "dispatcher"
      BY DEF Dispatcher, Place
    <3>2. PICK k \in 1..Len(d.files) : d.files[k].path = Dispatcher
      BY <2>2, <2>3, <2>9 DEF Applied
    <3>3. Own(d.files[k])
      BY <2>5, <2>9, <3>1, <3>2 DEF Away
    <3>4. Dispatcher \in DOMAIN files /\ Left(d, files, Dispatcher)
      BY <2>4, <2>6, <3>2, <3>3
    <3>5. PICK i \in 1..Len(d.files) :
            /\ Lands(d.files[i]) = Dispatcher
            /\ d.files[i].source # "shared" => files[Dispatcher] = d.files[i].body
      BY <3>4 DEF Left
    <3>6. Own(d.files[i])
      BY <2>5, <2>9, <3>1, <3>5 DEF Away
    <3>7. d.files[i].path = Dispatcher /\ d.files[i].source # "shared"
      BY <2>6, <3>5, <3>6
    <3>8. d.files[i].body = "run.sh"
      BY <3>1, <3>6, <3>7 DEF Own, IsScript
    <3>9. QED
      BY <3>4, <3>5, <3>7, <3>8
  <2>10. ASSUME \A f \in Files[plan] : Away(f), NEW cmd \in Scripts[plan]
         PROVE  \E p \in DOMAIN files : p.place = "script" /\ files[p] = cmd
    <3>1. Apart(d.files)
      BY <2>2, <2>3, <2>10 DEF Applied, Away, IsScript
    <3>2. PICK k \in 1..Len(d.files) :
            IsScript(d.files[k]) /\ d.files[k].source = "own" /\ d.files[k].body = cmd
      BY <2>2, <2>3 DEF Applied
    <3>3. Own(d.files[k]) /\ Lands(d.files[k]) = d.files[k].path
      BY <3>2 DEF Own, Lands
    <3>4. d.files[k].path \in DOMAIN files /\ Left(d, files, d.files[k].path)
      BY <2>4, <3>3
    <3>5. PICK i \in 1..Len(d.files) :
            /\ Lands(d.files[i]) = d.files[k].path
            /\ d.files[i].source # "shared" => files[d.files[k].path] = d.files[i].body
      BY <3>4 DEF Left
    <3>6. Own(d.files[i])
      BY <2>5, <2>10, <3>2, <3>5 DEF Away, IsScript
    <3>7. d.files[i].path = d.files[k].path /\ d.files[i].source # "shared"
      BY <2>6, <3>5, <3>6
    <3>8. i = k
      BY <3>1, <3>2, <3>7 DEF Apart, IsScript
    <3>9. QED
      BY <3>2, <3>4, <3>5, <3>7, <3>8 DEF IsScript
  <2>11. QED
    BY <2>7, <2>8, <2>9, <2>10 DEF files
<1>2. QED
  BY <1>1, Invariant, PTL

\* The bindings of a definition: for each exposed port, and complete.
LEMMA BindingsOfPorts ==
  ASSUME NEW d, IsList(d.ports)
  PROVE  /\ DOMAIN Bindings(d) = {spec.port : spec \in ToSet(d.ports)}
         /\ PublishAll(d) => Bindings(d) = Empty
         /\ ~PublishAll(d) => \A p \in DOMAIN Bindings(d) :
              IF [port |-> p, host |-> ""] \in ToSet(d.ports) /\ p \in DOMAIN HostConfig(d).bindings
              THEN Bindings(d)[p] = Allocated(HostConfig(d).bindings[p])
              ELSE \E s, x : Bindings(d)[p] = Allocated(Append(s, x)) /\ IsList(s)
<1> DEFINE exposed == Exposed(d.ports)
           config == HostConfig(d).bindings
<1>1. /\ DOMAIN exposed = {spec.port : spec \in ToSet(d.ports)}
      /\ \A p \in DOMAIN exposed : \E s, x : exposed[p] = Append(s, x) /\ IsList(s)
  BY ExposedPorts
<1>2. CASE PublishAll(d)
  <2>1. d.ports = <<>> /\ Len(d.ports) = 0 /\ Bindings(d) = exposed
    BY <1>2 DEF PublishAll, Bindings
  <2>2. exposed = Empty
    <3>1. PICK f : Computes(f, [of |-> "ports", from |-> Empty, list |-> d.ports], 0) /\ exposed = f[0]
      BY <2>1, ExposedComputed
    <3>2. f[0] = First([of |-> "ports", from |-> Empty, list |-> d.ports])
      BY <3>1, ComputedStep
    <3>3. QED
      BY <3>1, <3>2 DEF First
  <2>3. QED
    BY <1>1, <1>2, <2>1, <2>2
<1>3. CASE ~PublishAll(d)
  <2> HIDE DEF exposed, config
  <2>1. \A p : (\E i \in DOMAIN d.ports : d.ports[i] = [port |-> p, host |-> ""])
                 <=> [port |-> p, host |-> ""] \in ToSet(d.ports)
    <3>1. DOMAIN d.ports = 1..Len(d.ports)
          /\ \A v : v \in ToSet(d.ports) <=> \E i \in 1..Len(d.ports) : v = d.ports[i]
      BY ListItems
    <3>2. ASSUME NEW v
          PROVE  (\E i \in DOMAIN d.ports : d.ports[i] = v) <=> v \in ToSet(d.ports)
      BY <3>1, Zenon
    <3>3. QED
      BY <3>2
  <2>2. Bindings(d) = [p \in DOMAIN exposed |->
          Allocated(IF p \in DOMAIN config /\ \E i \in DOMAIN d.ports : d.ports[i] = [port |-> p, host |-> ""]
                    THEN config[p] ELSE exposed[p])]
    BY <1>3 DEF Bindings, MergePortBindings, exposed, config
  <2>3. DOMAIN Bindings(d) = DOMAIN exposed
    BY <2>2
  <2>4. ASSUME NEW p \in DOMAIN exposed,
               [port |-> p, host |-> ""] \in ToSet(d.ports), p \in DOMAIN config
        PROVE  Bindings(d)[p] = Allocated(config[p])
    BY <2>1, <2>2, <2>4
  <2>5. ASSUME NEW p \in DOMAIN exposed,
               ~([port |-> p, host |-> ""] \in ToSet(d.ports) /\ p \in DOMAIN config)
        PROVE  \E s, x : Bindings(d)[p] = Allocated(Append(s, x)) /\ IsList(s)
    <3>1. Bindings(d)[p] = Allocated(exposed[p])
      BY <2>1, <2>2, <2>5
    <3>2. PICK s, x : exposed[p] = Append(s, x) /\ IsList(s)
      BY <1>1
    <3>3. QED
      BY <3>1, <3>2
  <2>6. QED
    BY <1>1, <1>3, <2>3, <2>4, <2>5 DEF config
<1>4. QED
  BY <1>2, <1>3

\* No port that is asked for lacks a host port.
LEMMA AllocatedPorts ==
  ASSUME NEW hosts
  PROVE  /\ \A i \in DOMAIN Allocated(hosts) : Allocated(hosts)[i] # ""
         /\ \A s, x : IsList(s) => Allocated(Append(s, x)) # <<>>
<1>1. \A i \in DOMAIN Allocated(hosts) : Allocated(hosts)[i] # ""
  BY DEF Allocated
<1>2. ASSUME NEW s, NEW x, IsList(s)
      PROVE  Allocated(Append(s, x)) # <<>>
  <2> DEFINE more == Append(s, x)
  <2>1. Len(s) \in Nat /\ IsList(more) /\ Len(more) = Len(s) + 1
    BY <1>2, ListItems, ListAppend
  <2> HIDE DEF more
  <2>2. DOMAIN more = 1..Len(more)
    BY <2>1, ListItems
  <2>3. 1 \in DOMAIN more
    BY <2>1, <2>2
  <2>4. DOMAIN Allocated(more) = DOMAIN more
    BY DEF Allocated
  <2>5. DOMAIN <<>> = {}
    OBVIOUS
  <2>6. Allocated(more) # <<>>
    BY <2>3, <2>4, <2>5
  <2>7. QED
    BY <2>6 DEF more
<1>3. QED
  BY <1>1, <1>2

\* A container is created with bindings for the exposed ports and no others, each with a host
\* port or a request for any, the ones of the host config where they count.
THEOREM PortsRight == Spec => []PortsAsAsked
<1>1. RequestInv => PortsAsAsked
  <2>1. SUFFICES ASSUME RequestInv, NEW r \in Runs, box[r].state # "none"
                 PROVE  /\ DOMAIN box[r].bindings = {spec.port : spec \in Ports[plan]}
                        /\ \A p \in DOMAIN box[r].bindings :
                             /\ \A i \in DOMAIN box[r].bindings[p] : box[r].bindings[p][i] # ""
                             /\ IF /\ [port |-> p, host |-> ""] \in Ports[plan]
                                   /\ p \in DOMAIN HostConfig(Def(r)).bindings
                                THEN box[r].bindings[p] = Allocated(HostConfig(Def(r)).bindings[p])
                                ELSE box[r].bindings[p] # <<>>
                        /\ box[r].publishAll => box[r].bindings = Empty
    BY DEF PortsAsAsked
  <2> DEFINE d == Def(r)
             bindings == box[r].bindings
             config == HostConfig(d).bindings
  <2>2. /\ plan \in Plans /\ IsList(d.ports) /\ Applied(plan, Len(plan), d)
        /\ bindings = Bindings(d) /\ box[r].publishAll = PublishAll(d)
    BY <2>1, CallOf DEF CallInv, IsDefinition, Kept, Whole, Published, Def
  <2>3. Ports[plan] = ToSet(d.ports)
    BY <2>2, GivenToAll DEF Applied
  <2>4. /\ DOMAIN bindings = {spec.port : spec \in Ports[plan]}
        /\ PublishAll(d) => bindings = Empty
        /\ ~PublishAll(d) => \A p \in DOMAIN bindings :
             IF [port |-> p, host |-> ""] \in Ports[plan] /\ p \in DOMAIN config
             THEN bindings[p] = Allocated(config[p])
             ELSE \E s, x : bindings[p] = Allocated(Append(s, x)) /\ IsList(s)
    <3> HIDE DEF d, bindings
    <3>1. /\ DOMAIN Bindings(d) = {spec.port : spec \in ToSet(d.ports)}
          /\ PublishAll(d) => Bindings(d) = Empty
          /\ ~PublishAll(d) => \A p \in DOMAIN Bindings(d) :
               IF [port |-> p, host |-> ""] \in ToSet(d.ports) /\ p \in DOMAIN HostConfig(d).bindings
               THEN Bindings(d)[p] = Allocated(HostConfig(d).bindings[p])
               ELSE \E s, x : Bindings(d)[p] = Allocated(Append(s, x)) /\ IsList(s)
      BY <2>2, BindingsOfPorts
    <3> HIDE DEF config
    <3>2. QED
      BY <2>2, <2>3, <3>1, Zenon DEF config
  <2> HIDE DEF d, bindings, config
  <2>5. CASE PublishAll(d)
    <3>1. DOMAIN bindings = {}
      BY <2>4, <2>5 DEF Empty
    <3>2. QED
      BY <2>2, <2>4, <2>5, <3>1 DEF bindings
  <2>6. CASE ~PublishAll(d)
    <3>1. ASSUME NEW p \in DOMAIN bindings
          PROVE  /\ \A i \in DOMAIN bindings[p] : bindings[p][i] # ""
                 /\ IF [port |-> p, host |-> ""] \in Ports[plan] /\ p \in DOMAIN config
                    THEN bindings[p] = Allocated(config[p])
                    ELSE bindings[p] # <<>>
      <4>1. CASE [port |-> p, host |-> ""] \in Ports[plan] /\ p \in DOMAIN config
        <5>1. bindings[p] = Allocated(config[p])
          BY <2>4, <2>6, <4>1
        <5>2. QED
          BY <4>1, <5>1, AllocatedPorts
      <4>2. CASE ~([port |-> p, host |-> ""] \in Ports[plan] /\ p \in DOMAIN config)
        <5>1. PICK s, x : bindings[p] = Allocated(Append(s, x)) /\ IsList(s)
          BY <2>4, <2>6, <4>2
        <5>2. QED
          BY <4>2, <5>1, AllocatedPorts
      <4>3. QED
        BY <4>1, <4>2
    <3>2. box[r].publishAll => bindings = Empty
      BY <2>2, <2>6
    <3>3. QED
      BY <2>4, <3>1, <3>2 DEF bindings, config, d
  <2>7. QED
    BY <2>5, <2>6
<1>2. QED
  BY <1>1, Invariant, PTL

===============================================================================
