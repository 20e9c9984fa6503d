----------------------- MODULE CredentialCache_proofs -----------------------
(***************************************************************************)
(* Proofs about the shared cache of credentials, for any goroutines,       *)
(* configs, lists of images, and numbers of calls and changes.             *)
(***************************************************************************)
EXTENDS CredentialCache, TLAPS

-----------------------------------------------------------------------------
(* What the sources of credentials answer, for any registries, programs    *)
(* and configs.                                                            *)

\* The names of Docker Hub resolve to one registry, all others to themselves.
LEMMA ResolvedHost ==
  ASSUME NEW host \in Hosts
  PROVE  ResolveRegistryHost(host) \in Hosts
BY NamesAssumption DEF ResolveRegistryHost

\* A helper's answer is an AuthConfig for the registry it was asked about, and it is an
\* error for exactly the answers that are neither credentials nor their absence.
LEMMA HelperAnswers ==
  ASSUME NEW answer \in Answers, NEW host \in Hosts
  PROVE  /\ CredentialsFromHelper(answer, host) \in AuthConfigs
         /\ CredentialsFromHelper(answer, host).of \in {"nobody", host}
         /\ CredentialsFromHelper(answer, host).ok
              <=> answer \notin {"lookupFails", "noServerURL", "broken"}
BY DEF CredentialsFromHelper, Answers, AuthConfigs, Nothing, Failed, Password, Token

\* So is what the config itself holds.
LEMMA StoredAnswers ==
  ASSUME NEW fields, NEW host \in Hosts
  PROVE  /\ ProcessStored(fields, host) \in AuthConfigs
         /\ ProcessStored(fields, host).of \in {"nobody", host}
BY DEF ProcessStored, AuthConfigs, Failed, Password, Token

\* What a config leads to without its helpers: an answer, or the default helper.
LEMMA FromConfigLeads ==
  ASSUME NEW file, NEW host \in Hosts
  PROVE  LET s == FromConfig(file, host) IN
         /\ s.source \in {"none", "default"}
         /\ s.creds \in AuthConfigs /\ s.creds.of \in {"nobody", host}
<1>1. Nothing \in AuthConfigs /\ Nothing.of = "nobody"
  BY DEF Nothing, Failed, AuthConfigs
<1>2. QED
  BY <1>1, StoredAnswers DEF FromConfig

\* The first source is the helper of the registry if and only if the config names one, and
\* the store only if there is one.
LEMMA FirstSourceLeads ==
  ASSUME NEW file, NEW host \in Hosts
  PROVE  LET s == FirstSource(file, host) IN
         /\ s.source \in {"none"} \cup Sources
         /\ s.source = "helper" <=> host \in DOMAIN file.helpers
         /\ s.source = "store" => file.store # "none"
         /\ s.creds \in AuthConfigs /\ s.creds.of \in {"nobody", host}
<1>1. Nothing \in AuthConfigs /\ Nothing.of = "nobody"
  BY DEF Nothing, Failed, AuthConfigs
<1>2. CASE host \in DOMAIN file.helpers
  BY <1>1, <1>2 DEF FirstSource, Sources
<1>3. CASE host \notin DOMAIN file.helpers /\ file.store # "none"
  BY <1>1, <1>3 DEF FirstSource, Sources
<1>4. CASE host \notin DOMAIN file.helpers /\ file.store = "none"
  BY <1>4, FromConfigLeads DEF FirstSource, Sources
<1>5. QED
  BY <1>2, <1>3, <1>4

\* After an answer there is at most the default helper to ask; a helper's answer is final.
LEMMA NextSourceLeads ==
  ASSUME NEW file, NEW source \in Sources, NEW host \in Hosts,
         NEW found \in AuthConfigs, found.of \in {"nobody", host}
  PROVE  LET s == NextSource(file, source, host, found) IN
         /\ s.source \in {"none", "default"}
         /\ source = "helper" => s.source = "none" /\ s.creds = found
         /\ s.creds \in AuthConfigs /\ s.creds.of \in {"nobody", host}
BY FromConfigLeads DEF NextSource

\* The program that a source stands for is one.
LEMMA SourcePrograms ==
  ASSUME NEW file, NamesPrograms(file), NEW source \in Sources, NEW host \in Hosts,
         source = "helper" => host \in DOMAIN file.helpers,
         source = "store" => file.store # "none"
  PROVE  Program(file, source, host) \in Programs
BY NamesAssumption DEF Program, NamesPrograms, Sources

-----------------------------------------------------------------------------

Images == Hosts \cup {Malformed}
Maps == UNION {[hosts -> [creds : AuthConfigs, time : Nat]] : hosts \in SUBSET Hosts}
Calls == [op : {"none", "lookup", "clear"}, list : Seq(Images), todo : Seq(Images),
          at : Places, cache : 0..1, creds : AuthConfigs, got : Maps, failed : BOOLEAN,
          known : SUBSET Hosts, began : Nat, asked : Nat]

\* What the cache holds; before the first call there is none.
Cached == IF shared = 0 THEN NoEntries ELSE caches[1]

\* Every entry is for its own registry, ...
Own(map) == \A h \in DOMAIN map : map[h].creds.of \in {"nobody", ResolveRegistryHost(h)}
\* ... and of some time from "first" to now.
From(map, first) == \A h \in DOMAIN map : map[h].time <= epoch /\ (crossed \/ map[h].time >= first)

\* There is at most one cache, with an entry for every registry answered for; unless a lookup
\* crossed a clearing, all its entries were asked for after the last one.
CacheInv ==
  /\ config \in Configs /\ answers \in [Programs -> Answers]
  /\ shared \in 0..1 /\ caches \in Seq(Maps) /\ Len(caches) = shared
  /\ epoch \in Nat /\ crossed \in BOOLEAN
  /\ answered \subseteq DOMAIN Cached
  /\ Own(Cached) /\ From(Cached, epoch)

\* Where a call may be with what it has.
Staged(g) ==
  LET r == call[g] IN
  /\ r.at \in {"load", "init"} => r.op # "none"
  /\ r.at \in {"read", "insert"} \cup Sources => r.op = "lookup"
  /\ r.at \in {"init", "read", "insert"} \cup Sources /\ r.op = "lookup" =>
       r.todo # <<>> /\ Host(g) \in Hosts
  /\ r.at \in {"read", "insert", "clear"} \cup Sources => shared = 1 /\ r.cache = 1
  /\ r.op = "clear" => r.todo = <<>> /\ r.known = {}
  /\ r.at = "clear" => r.op = "clear"
  /\ r.at = "idle" => r.todo = <<>>
  /\ r.at = "helper" => ResolveRegistryHost(Host(g)) \in DOMAIN config.helpers
  /\ r.at = "store" => config.store # "none"

\* An image of the list is answered for, still to come, or the call has failed.
Covered(g) ==
  LET r == call[g] IN
  r.op = "lookup" /\ ~r.failed =>
    \A i \in DOMAIN r.list :
      r.list[i] \in DOMAIN r.got \/ \E j \in DOMAIN r.todo : r.todo[j] = r.list[i]

\* What a call got and is about to get is for the right registry and recent enough.
Right(g) ==
  LET r == call[g] IN
  /\ Own(r.got) /\ From(r.got, r.began)
  /\ r.began <= epoch /\ r.asked <= epoch
  /\ r.at \in {"insert"} \cup Sources => r.began <= r.asked
  /\ r.at = "insert" => r.creds.of \in {"nobody", ResolveRegistryHost(Host(g))}

\* What was answered for before a call began is in the cache, and so not asked for.
KnownCached(g) ==
  /\ call[g].known \subseteq DOMAIN Cached
  /\ call[g].at \in Sources => Host(g) \notin call[g].known

CallInv(g) == Staged(g) /\ Covered(g) /\ Right(g) /\ KnownCached(g)

Inv ==
  /\ CacheInv
  /\ call \in [Goroutines -> Calls]
  /\ \A g \in Goroutines : CallInv(g)

-----------------------------------------------------------------------------
(* Maps and lists.                                                         *)

\* An entry is put into a map; the others stay.
LEMMA WithEntry ==
  ASSUME NEW map, NEW host, NEW value
  PROVE  /\ DOMAIN With(map, host, value) = DOMAIN map \cup {host}
         /\ With(map, host, value)[host] = value
         /\ \A h \in DOMAIN map \ {host} : With(map, host, value)[h] = map[h]
BY DEF With

\* The map of a registry's entry is a map.
LEMMA WithMap ==
  ASSUME NEW map \in Maps, NEW host \in Hosts, NEW creds \in AuthConfigs, NEW time \in Nat
  PROVE  /\ With(map, host, Stamped(creds, time)) \in Maps
         /\ Stamped(creds, time).creds = creds /\ Stamped(creds, time).time = time
<1>1. PICK hosts \in SUBSET Hosts : map \in [hosts -> [creds : AuthConfigs, time : Nat]]
  BY DEF Maps
<1>2. Stamped(creds, time) \in [creds : AuthConfigs, time : Nat]
  BY DEF Stamped
<1>3. With(map, host, Stamped(creds, time))
        \in [hosts \cup {host} -> [creds : AuthConfigs, time : Nat]]
  BY <1>1, <1>2 DEF With
<1>4. hosts \cup {host} \in SUBSET Hosts
  OBVIOUS
<1>5. With(map, host, Stamped(creds, time)) \in Maps
  BY <1>3, <1>4 DEF Maps
<1>6. QED
  BY <1>5 DEF Stamped

\* Every value of a map is a stamped AuthConfig of a registry.
LEMMA MapEntries ==
  ASSUME NEW map \in Maps
  PROVE  /\ DOMAIN map \subseteq Hosts
         /\ \A h \in DOMAIN map : /\ map[h] \in [creds : AuthConfigs, time : Nat]
                                  /\ map[h] = Stamped(map[h].creds, map[h].time)
BY DEF Maps, Stamped

\* The empty map.
LEMMA NothingCached ==
  NoEntries \in Maps /\ DOMAIN NoEntries = {}
<1>1. NoEntries \in [{} -> [creds : AuthConfigs, time : Nat]] /\ DOMAIN NoEntries = {}
  BY DEF NoEntries
<1>2. QED
  BY <1>1 DEF Maps

\* The only map of a sequence is replaced.
LEMMA OneReplaced ==
  ASSUME NEW s \in Seq(Maps), Len(s) = 1, NEW map \in Maps
  PROVE  LET t == [s EXCEPT ![1] = map] IN t \in Seq(Maps) /\ Len(t) = 1 /\ t[1] = map
OBVIOUS

\* Before its first call, a goroutine has made none.
LEMMA NoCallIsCall ==
  NoCall \in Calls
<1>1. Nothing \in AuthConfigs
  BY DEF Nothing, Failed, AuthConfigs
<1>2. <<>> \in Seq(Images)
  OBVIOUS
<1>3. QED
  BY <1>1, <1>2, NothingCached DEF NoCall, Calls, Places

\* Without its first element, a list of images has the others.
LEMMA TailOfImages ==
  ASSUME NEW todo \in Seq(Images), todo # <<>>
  PROVE  /\ Tail(todo) \in Seq(Images)
         /\ Head(todo) \in Images
         /\ \A j \in DOMAIN todo :
              todo[j] = Head(todo) \/ \E k \in DOMAIN Tail(todo) : Tail(todo)[k] = todo[j]
<1>1. Len(todo) \in Nat /\ Len(todo) > 0 /\ DOMAIN todo = 1..Len(todo)
  OBVIOUS
<1>2. Tail(todo) \in Seq(Images) /\ Head(todo) \in Images /\ Head(todo) = todo[1]
  OBVIOUS
<1>3. DOMAIN Tail(todo) = 1..(Len(todo) - 1)
        /\ \A k \in 1..(Len(todo) - 1) : Tail(todo)[k] = todo[k + 1]
  BY <1>1
<1>4. ASSUME NEW j \in DOMAIN todo, j # 1
      PROVE  \E k \in DOMAIN Tail(todo) : Tail(todo)[k] = todo[j]
  <2>1. j - 1 \in DOMAIN Tail(todo) /\ Tail(todo)[j - 1] = todo[j]
    BY <1>1, <1>3, <1>4
  <2>2. QED
    BY <2>1
<1>5. QED
  BY <1>2, <1>4

-----------------------------------------------------------------------------
(* One goroutine's step and the others.                                    *)

\* The cache as the others may find it changed: it is made once, and gets entries.
Grows ==
  /\ shared = 1 => shared' = 1
  /\ DOMAIN Cached \subseteq DOMAIN Cached'
  /\ epoch' = epoch /\ crossed \in BOOLEAN /\ crossed' \in BOOLEAN /\ (crossed => crossed')
  /\ UNCHANGED config

\* A goroutine that does not move keeps what it knows while the cache grows.
LEMMA OthersStay ==
  ASSUME NEW h, CallInv(h), call'[h] = call[h], Grows
  PROVE  CallInv(h)'
<1>1. Staged(h)'
  BY DEF CallInv, Staged, Grows, Host
<1>2. Covered(h)'
  BY DEF CallInv, Covered
<1>3. Right(h)'
  BY DEF CallInv, Right, Grows, Own, From, Host
<1>4. KnownCached(h)'
  BY DEF CallInv, KnownCached, Grows, Host
<1>5. QED
  BY <1>1, <1>2, <1>3, <1>4 DEF CallInv

\* So it is enough to look at the goroutine that moves.
LEMMA OneMoves ==
  ASSUME Inv, NEW g \in Goroutines, NEW r \in Calls, Step(g, r),
         Grows, CacheInv', call'[g] = r => CallInv(g)'
  PROVE  Inv'
<1>1. call' \in [Goroutines -> Calls] /\ call'[g] = r
  BY DEF Step, Inv
<1>2. ASSUME NEW h \in Goroutines, h # g
      PROVE  CallInv(h)'
  <2>1. call'[h] = call[h]
    BY <1>2 DEF Step, Inv
  <2>2. QED
    BY <2>1, OthersStay DEF Inv
<1>3. QED
  BY <1>1, <1>2 DEF Inv

\* A step that leaves the cache alone.
LEMMA CacheStays ==
  ASSUME Inv, UNCHANGED <<config, answers, shared, caches, ghosts>>
  PROVE  Grows /\ CacheInv' /\ Cached' = Cached
<1>1. UNCHANGED <<epoch, answered, crossed>> /\ Cached' = Cached
  BY DEF ghosts, Cached
<1>2. Grows
  BY <1>1 DEF Grows, Inv, CacheInv
<1>3. CacheInv'
  BY <1>1 DEF Inv, CacheInv, Own, From
<1>4. QED
  BY <1>1, <1>2, <1>3

-----------------------------------------------------------------------------
(* What a step makes of a call.                                            *)

\* A failed image is taken from the list.
LEMMA Failing ==
  ASSUME NEW r \in Calls, r.todo # <<>>
  PROVE  LET f == FailImage(r) IN
         /\ f \in Calls /\ f.failed /\ f.at = "load" /\ f.todo = Tail(r.todo)
         /\ f.op = r.op /\ f.got = r.got /\ f.known = r.known
         /\ f.began = r.began /\ f.asked = r.asked
<1>1. Tail(r.todo) \in Seq(Images)
  BY TailOfImages DEF Calls
<1>2. QED
  BY <1>1 DEF FailImage, Calls, Places

\* Other places change nothing else.
LEMMA GoingTo ==
  ASSUME NEW r \in Calls, NEW place \in Places
  PROVE  LET f == Goto(r, place) IN
         /\ f \in Calls /\ f.at = place
         /\ f.op = r.op /\ f.list = r.list /\ f.todo = r.todo /\ f.cache = r.cache
         /\ f.creds = r.creds /\ f.got = r.got /\ f.failed = r.failed /\ f.known = r.known
         /\ f.began = r.began /\ f.asked = r.asked
BY DEF Goto, Calls

\* A call with the cache in hand goes on somewhere.
Fetched(r, place) == [r EXCEPT !.at = place, !.cache = 1]

\* A call goes on with the cache.
LEMMA Fetching ==
  ASSUME NEW r \in Calls, NEW place \in Places
  PROVE  LET f == Fetched(r, place) IN
         /\ f \in Calls /\ f.at = place /\ f.cache = 1
         /\ f.op = r.op /\ f.list = r.list /\ f.todo = r.todo /\ f.failed = r.failed
         /\ f.got = r.got /\ f.known = r.known /\ f.began = r.began /\ f.asked = r.asked
<1>1. [r EXCEPT !.cache = 1] \in Calls
  BY DEF Calls
<1>2. [[r EXCEPT !.cache = 1] EXCEPT !.at = place] = Fetched(r, place)
  BY DEF Calls, Fetched
<1>3. QED
  BY <1>1, <1>2 DEF Calls

\* An entry is got for the image at the head of the list.
LEMMA Getting ==
  ASSUME NEW r \in Calls, r.todo # <<>>, Head(r.todo) \in Hosts,
         NEW creds \in AuthConfigs, NEW time \in Nat
  PROVE  LET f == Got(r, Head(r.todo), Stamped(creds, time)) IN
         /\ f \in Calls /\ f.at = "load" /\ f.todo = Tail(r.todo)
         /\ DOMAIN f.got = DOMAIN r.got \cup {Head(r.todo)}
         /\ f.got[Head(r.todo)].creds = creds /\ f.got[Head(r.todo)].time = time
         /\ \A h \in DOMAIN r.got \ {Head(r.todo)} : f.got[h] = r.got[h]
         /\ f.op = r.op /\ f.list = r.list /\ f.failed = r.failed /\ f.known = r.known
         /\ f.began = r.began /\ f.asked = r.asked
<1> DEFINE entry == Stamped(creds, time)
           got == With(r.got, Head(r.todo), entry)
<1>1. Tail(r.todo) \in Seq(Images)
  BY TailOfImages DEF Calls
<1>2. got \in Maps /\ entry.creds = creds /\ entry.time = time
  BY WithMap DEF Calls
<1>3. /\ DOMAIN got = DOMAIN r.got \cup {Head(r.todo)} /\ got[Head(r.todo)] = entry
      /\ \A h \in DOMAIN r.got \ {Head(r.todo)} : got[h] = r.got[h]
  BY DEF With
<1>4. Got(r, Head(r.todo), entry) = [r EXCEPT !.got = got, !.todo = Tail(r.todo), !.at = "load"]
  BY DEF Got, Calls
<1> HIDE DEF got, entry
<1>5. LET f == [r EXCEPT !.got = got, !.todo = Tail(r.todo), !.at = "load"] IN
      /\ f \in Calls /\ f.at = "load" /\ f.todo = Tail(r.todo) /\ f.got = got
      /\ f.op = r.op /\ f.list = r.list /\ f.failed = r.failed /\ f.known = r.known
      /\ f.began = r.began /\ f.asked = r.asked
  BY <1>1, <1>2 DEF Calls, Places
<1>6. QED
  BY <1>2, <1>3, <1>4, <1>5, ZenonT(40) DEF entry

\* A returning call keeps what it got, unless an image failed.
LEMMA Returning ==
  ASSUME NEW r \in Calls
  PROVE  LET f == Return(r) IN
         /\ f \in Calls /\ f.at = "idle" /\ f.got \in {NoEntries, r.got}
         /\ ~r.failed => f.got = r.got
         /\ f.op = r.op /\ f.list = r.list /\ f.todo = r.todo /\ f.failed = r.failed
         /\ f.known = r.known /\ f.began = r.began /\ f.asked = r.asked
BY NothingCached DEF Return, Calls, Places

-----------------------------------------------------------------------------
(* One lemma per action.                                                   *)

\* A new lookup knows what was answered for since the cache was last cleared.
LEMMA BeginLookupKeeps ==
  ASSUME Inv, NEW g \in Goroutines, BeginLookup(g)
  PROVE  Inv'
<1>1. PICK list \in Lists :
        Step(g, [NoCall EXCEPT !.op = "lookup", !.list = list, !.todo = list, !.at = "load",
                               !.known = answered, !.began = epoch])
  BY DEF BeginLookup
<1> DEFINE r == [NoCall EXCEPT !.op = "lookup", !.list = list, !.todo = list, !.at = "load",
                               !.known = answered, !.began = epoch]
<1>2. Grows /\ CacheInv' /\ Cached' = Cached /\ epoch' = epoch
  BY CacheStays DEF BeginLookup, Grows
<1>3. list \in Seq(Images)
  BY ListsAssumption DEF Images
<1>4. answered \subseteq DOMAIN Cached /\ answered \subseteq Hosts /\ epoch \in Nat
  <2>1. Cached \in Maps
    BY NothingCached DEF Inv, CacheInv, Cached
  <2>2. QED
    BY <2>1, MapEntries DEF Inv, CacheInv
<1>5. /\ r.op = "lookup" /\ r.list = list /\ r.todo = list /\ r.at = "load" /\ r.got = NoEntries
      /\ r.known = answered /\ r.began = epoch /\ r.asked = 0
  BY DEF NoCall
<1>6. r \in Calls
  BY <1>3, <1>4, NoCallIsCall DEF Calls, Places
<1> HIDE DEF r
<1>7. ASSUME call'[g] = r
      PROVE  CallInv(g)'
  <2>1. Staged(g)'
    BY <1>5, <1>7 DEF Staged, Sources
  <2>2. Covered(g)'
    BY <1>5, <1>7 DEF Covered
  <2>3. Right(g)'
    BY <1>2, <1>4, <1>5, <1>7, NothingCached DEF Right, Own, From, Sources
  <2>4. KnownCached(g)'
    BY <1>2, <1>4, <1>5, <1>7 DEF KnownCached, Sources
  <2>5. QED
    BY <2>1, <2>2, <2>3, <2>4 DEF CallInv
<1>8. QED
  BY <1>1, <1>2, <1>6, <1>7, OneMoves DEF r

\* A clearing has no list.
LEMMA BeginClearKeeps ==
  ASSUME Inv, NEW g \in Goroutines, BeginClear(g)
  PROVE  Inv'
<1> DEFINE r == [NoCall EXCEPT !.op = "clear", !.at = "load"]
<1>1. Step(g, r)
  BY DEF BeginClear
<1>2. Grows /\ CacheInv' /\ Cached' = Cached
  BY CacheStays DEF BeginClear
<1>3. epoch' = epoch /\ epoch \in Nat
  BY <1>2 DEF Grows, Inv, CacheInv
<1>4. /\ r.op = "clear" /\ r.todo = <<>> /\ r.at = "load" /\ r.got = NoEntries
      /\ r.known = {} /\ r.began = 0 /\ r.asked = 0
  BY DEF NoCall
<1>5. r \in Calls
  BY NoCallIsCall DEF Calls, Places
<1> HIDE DEF r
<1>6. ASSUME call'[g] = r
      PROVE  CallInv(g)'
  <2>1. Staged(g)'
    BY <1>4, <1>6 DEF Staged, Sources
  <2>2. Covered(g)' /\ KnownCached(g)'
    BY <1>4, <1>6 DEF Covered, KnownCached, Sources
  <2>3. Right(g)'
    BY <1>3, <1>4, <1>6, NothingCached DEF Right, Own, From, Sources
  <2>4. QED
    BY <2>1, <2>2, <2>3 DEF CallInv
<1>7. QED
  BY <1>1, <1>2, <1>5, <1>6, OneMoves

\* A lookup that has no image left returns, a malformed name fails, and for any other image, as
\* for a clearing, the cache is fetched.
LEMMA LoadKeeps ==
  ASSUME Inv, NEW g \in Goroutines, Load(g)
  PROVE  Inv'
<1> DEFINE r == call[g]
<1>1. Grows /\ CacheInv' /\ Cached' = Cached
  BY CacheStays DEF Load
<1>2. /\ epoch' = epoch /\ crossed' = crossed /\ shared' = shared /\ config' = config
      /\ shared \in 0..1
  BY DEF Load, ghosts, Inv, CacheInv
<1>3. r \in Calls /\ CallInv(g) /\ r.at = "load"
  BY DEF Inv, Load, At
<1>4. r.op \in {"lookup", "clear"} /\ (r.op = "clear" => r.todo = <<>>)
  BY <1>3 DEF CallInv, Staged, Calls
<1>5. CASE r.op = "lookup" /\ r.todo = <<>>
  <2>1. Step(g, Return(r))
    BY <1>5 DEF Load
  <2>2. /\ Return(r) \in Calls /\ Return(r).at = "idle" /\ Return(r).got \in {NoEntries, r.got}
        /\ ~r.failed => Return(r).got = r.got
        /\ Return(r).op = r.op /\ Return(r).list = r.list /\ Return(r).todo = r.todo
        /\ Return(r).failed = r.failed /\ Return(r).known = r.known
        /\ Return(r).began = r.began /\ Return(r).asked = r.asked
    BY <1>3, Returning
  <2>3. ASSUME call'[g] = Return(r)
        PROVE  CallInv(g)'
    <3>1. Staged(g)'
      BY <1>5, <2>2, <2>3 DEF Staged, Sources
    <3>2. Covered(g)'
      BY <1>3, <2>2, <2>3 DEF CallInv, Covered
    <3>3. Right(g)'
      BY <1>2, <1>3, <2>2, <2>3, NothingCached DEF CallInv, Right, Own, From, Sources
    <3>4. KnownCached(g)'
      BY <1>1, <1>3, <2>2, <2>3 DEF CallInv, KnownCached, Sources
    <3>5. QED
      BY <3>1, <3>2, <3>3, <3>4 DEF CallInv
  <2>4. QED
    BY <1>1, <2>1, <2>2, <2>3, OneMoves
<1>6. CASE r.todo # <<>> /\ Host(g) = Malformed
  <2>1. Step(g, FailImage(r))
    BY <1>6 DEF Load
  <2>2. /\ FailImage(r) \in Calls /\ FailImage(r).failed /\ FailImage(r).at = "load"
        /\ FailImage(r).op = r.op /\ FailImage(r).got = r.got /\ FailImage(r).known = r.known
        /\ FailImage(r).began = r.began /\ FailImage(r).asked = r.asked
    BY <1>3, <1>6, Failing
  <2>3. ASSUME call'[g] = FailImage(r)
        PROVE  CallInv(g)'
    <3>1. Staged(g)'
      BY <1>4, <1>6, <2>2, <2>3 DEF Staged, Sources
    <3>2. Covered(g)'
      BY <2>2, <2>3 DEF Covered
    <3>3. Right(g)'
      BY <1>2, <1>3, <2>2, <2>3 DEF CallInv, Right, Own, From, Sources
    <3>4. KnownCached(g)'
      BY <1>1, <1>3, <2>2, <2>3 DEF CallInv, KnownCached, Sources
    <3>5. QED
      BY <3>1, <3>2, <3>3, <3>4 DEF CallInv
  <2>4. QED
    BY <1>1, <2>1, <2>2, <2>3, OneMoves
<1>7. CASE ~(r.op = "lookup" /\ r.todo = <<>>) /\ ~(r.todo # <<>> /\ Host(g) = Malformed)
  <2> DEFINE f == IF shared = 0 THEN Goto(r, "init")
                  ELSE [r EXCEPT !.at = AfterLoad(g), !.cache = shared]
  <2>1. Step(g, f)
    BY <1>7 DEF Load
  <2>2. r.op = "lookup" => r.todo # <<>> /\ Host(g) \in Hosts
    BY <1>3, <1>7, TailOfImages DEF Host, Calls, Images
  <2>3. /\ f \in Calls
        /\ IF shared = 0 THEN f.at = "init"
           ELSE f.cache = 1 /\ f.at = IF r.op = "clear" THEN "clear" ELSE "read"
        /\ f.op = r.op /\ f.list = r.list /\ f.todo = r.todo /\ f.failed = r.failed
        /\ f.got = r.got /\ f.known = r.known /\ f.began = r.began /\ f.asked = r.asked
    <3>1. AfterLoad(g) \in Places /\ AfterLoad(g) = IF r.op = "clear" THEN "clear" ELSE "read"
      BY DEF AfterLoad, Places
    <3>2. shared # 0 => shared = 1
      BY <1>2
    <3>3. CASE shared = 0
      <4>1. f = Goto(r, "init") /\ "init" \in Places
        BY <3>3 DEF Places
      <4>2. QED
        BY <1>3, <3>3, <4>1, GoingTo
    <3>4. CASE shared = 1
      <4>1. f = Fetched(r, AfterLoad(g))
        BY <3>4 DEF Fetched
      <4> HIDE DEF f
      <4>2. /\ f \in Calls /\ f.at = AfterLoad(g) /\ f.cache = 1
            /\ f.op = r.op /\ f.list = r.list /\ f.todo = r.todo /\ f.failed = r.failed
            /\ f.got = r.got /\ f.known = r.known /\ f.began = r.began /\ f.asked = r.asked
        BY <1>3, <3>1, <4>1, Fetching
      <4>3. QED
        BY <3>1, <3>4, <4>2
    <3>5. QED
      BY <3>2, <3>3, <3>4
  <2> HIDE DEF f
  <2>4. ASSUME call'[g] = f
        PROVE  CallInv(g)'
    <3>1. Host(g)' = Host(g)
      BY <2>3, <2>4 DEF Host
    <3>2. Staged(g)'
      BY <1>2, <1>3, <1>4, <2>2, <2>3, <2>4, <3>1 DEF CallInv, Staged, Sources
    <3>3. Covered(g)'
      BY <1>3, <2>3, <2>4 DEF CallInv, Covered
    <3>4. Right(g)'
      BY <1>2, <1>3, <2>3, <2>4 DEF CallInv, Right, Own, From, Sources
    <3>5. KnownCached(g)'
      BY <1>1, <1>3, <2>3, <2>4 DEF CallInv, KnownCached, Sources
    <3>6. QED
      BY <3>2, <3>3, <3>4, <3>5 DEF CallInv
  <2>5. QED
    BY <1>1, <2>1, <2>3, <2>4, OneMoves
<1>8. QED
  BY <1>5, <1>6, <1>7

\* The first goroutine makes the cache, the others find it made.
LEMMA InitCacheKeeps ==
  ASSUME Inv, NEW g \in Goroutines, InitCache(g)
  PROVE  Inv'
<1> DEFINE r == call[g]
           f == Fetched(r, AfterLoad(g))
<1>1. r \in Calls /\ CallInv(g) /\ r.at = "init"
  BY DEF Inv, InitCache, At
<1>2. /\ shared' = 1 /\ caches' \in Seq(Maps) /\ Len(caches') = 1 /\ Cached' = Cached
      /\ UNCHANGED <<config, answers, epoch, answered, crossed>>
  <2>1. UNCHANGED <<config, answers, epoch, answered, crossed>>
    BY DEF InitCache, ghosts
  <2>2. CASE shared = 0
    <3>1. caches = <<>>
      BY <2>2 DEF Inv, CacheInv
    <3>2. caches' = <<NoEntries>> /\ shared' = 1
      BY <2>2, <3>1 DEF InitCache
    <3>3. QED
      BY <2>1, <2>2, <3>2, NothingCached DEF Cached
  <2>3. CASE shared = 1
    BY <2>1, <2>3 DEF InitCache, Inv, CacheInv, Cached
  <2>4. QED
    BY <2>2, <2>3 DEF Inv, CacheInv
<1>3. Grows
  BY <1>2 DEF Grows, Inv, CacheInv
<1>4. CacheInv'
  BY <1>2 DEF Inv, CacheInv, Own, From
<1>5. Step(g, f)
  BY <1>2 DEF InitCache, Fetched
<1>6. /\ f \in Calls /\ f.cache = 1 /\ f.at = IF r.op = "clear" THEN "clear" ELSE "read"
      /\ f.op = r.op /\ f.list = r.list /\ f.todo = r.todo /\ f.failed = r.failed
      /\ f.got = r.got /\ f.known = r.known /\ f.began = r.began /\ f.asked = r.asked
  <2>1. AfterLoad(g) \in Places /\ AfterLoad(g) = IF r.op = "clear" THEN "clear" ELSE "read"
    BY DEF AfterLoad, Places
  <2>2. QED
    BY <1>1, <2>1, Fetching
<1>7. r.op \in {"lookup", "clear"}
  BY <1>1 DEF CallInv, Staged, Calls
<1> HIDE DEF f
<1>8. ASSUME call'[g] = f
      PROVE  CallInv(g)'
  <2>1. Host(g)' = Host(g)
    BY <1>6, <1>8 DEF Host
  <2>2. Staged(g)'
    BY <1>1, <1>2, <1>6, <1>7, <1>8, <2>1 DEF CallInv, Staged, Sources
  <2>3. Covered(g)'
    BY <1>1, <1>6, <1>8 DEF CallInv, Covered
  <2>4. Right(g)'
    BY <1>1, <1>2, <1>6, <1>8 DEF CallInv, Right, Own, From, Sources
  <2>5. KnownCached(g)'
    BY <1>1, <1>2, <1>6, <1>8 DEF CallInv, KnownCached, Sources
  <2>6. QED
    BY <2>2, <2>3, <2>4, <2>5 DEF CallInv
<1>9. QED
  BY <1>3, <1>4, <1>5, <1>6, <1>8, OneMoves

\* The next image of a lookup is got, with an entry for its registry that was asked for since
\* the lookup began.
LEMMA GotKeeps ==
  ASSUME NEW g \in Goroutines, CallInv(g), call[g] \in Calls,
         call[g].todo # <<>>, Host(g) \in Hosts, call[g].op = "lookup",
         NEW creds \in AuthConfigs, creds.of \in {"nobody", ResolveRegistryHost(Host(g))},
         NEW time \in Nat, time <= epoch', crossed' \/ time >= call[g].began,
         call'[g] = Got(call[g], Host(g), Stamped(creds, time)), Grows
  PROVE  CallInv(g)'
<1> DEFINE r == call[g]
           f == Got(r, Head(r.todo), Stamped(creds, time))
<1>1. Head(r.todo) = Host(g) /\ call'[g] = f
  BY DEF Host
<1>2. /\ f \in Calls /\ f.at = "load" /\ f.todo = Tail(r.todo)
      /\ DOMAIN f.got = DOMAIN r.got \cup {Host(g)}
      /\ f.got[Host(g)].creds = creds /\ f.got[Host(g)].time = time
      /\ \A h \in DOMAIN r.got \ {Host(g)} : f.got[h] = r.got[h]
      /\ f.op = r.op /\ f.list = r.list /\ f.failed = r.failed /\ f.known = r.known
      /\ f.began = r.began /\ f.asked = r.asked
  BY <1>1, Getting
<1> HIDE DEF f
<1>3. Staged(g)'
  BY <1>1, <1>2 DEF Staged, Sources
<1>4. Covered(g)'
  <2>1. \A j \in DOMAIN r.todo :
          r.todo[j] = Host(g) \/ \E k \in DOMAIN Tail(r.todo) : Tail(r.todo)[k] = r.todo[j]
    BY <1>1, TailOfImages DEF Calls
  <2>2. QED
    BY <1>1, <1>2, <2>1 DEF CallInv, Covered
<1>5. Right(g)'
  <2>1. Own(f.got)
    BY <1>2 DEF CallInv, Right, Own
  <2>2. \A h \in DOMAIN f.got :
          f.got[h].time <= epoch' /\ (crossed' \/ f.got[h].time >= f.began)
    BY <1>2 DEF CallInv, Right, From, Grows
  <2>3. QED
    BY <1>1, <1>2, <2>1, <2>2 DEF CallInv, Right, Own, From, Grows, Sources
<1>6. KnownCached(g)'
  BY <1>1, <1>2 DEF CallInv, KnownCached, Grows, Sources
<1>7. QED
  BY <1>3, <1>4, <1>5, <1>6 DEF CallInv

\* With a source or its answer, a lookup asks on, goes to insert the answer, or fails for this
\* image.
LEMMA AskKeeps ==
  ASSUME Inv, NEW g \in Goroutines,
         call[g].at \in {"read"} \cup Sources, Host(g) \notin call[g].known,
         NEW asked \in Nat, asked <= epoch, call[g].began <= asked,
         NEW s, s.source \in {"none"} \cup Sources,
         s.source = "helper" => ResolveRegistryHost(Host(g)) \in DOMAIN config.helpers,
         s.source = "store" => config.store # "none",
         s.creds \in AuthConfigs, s.creds.of \in {"nobody", ResolveRegistryHost(Host(g))},
         Step(g, Ask([call[g] EXCEPT !.asked = asked], s)),
         UNCHANGED <<config, answers, shared, caches, ghosts>>
  PROVE  Inv'
<1> DEFINE r == [call[g] EXCEPT !.asked = asked]
           f == Ask(r, s)
<1>1. Grows /\ CacheInv' /\ Cached' = Cached
  BY CacheStays
<1>2. /\ epoch' = epoch /\ crossed' = crossed /\ shared' = shared /\ config' = config
  BY DEF ghosts
<1>3. call[g] \in Calls /\ CallInv(g)
  BY DEF Inv
<1>4. /\ r \in Calls /\ r.op = call[g].op /\ r.list = call[g].list /\ r.todo = call[g].todo
      /\ r.at = call[g].at /\ r.cache = call[g].cache /\ r.got = call[g].got
      /\ r.failed = call[g].failed /\ r.known = call[g].known /\ r.began = call[g].began
      /\ r.asked = asked
  BY <1>3 DEF Calls
<1>5. /\ r.op = "lookup" /\ r.todo # <<>> /\ Host(g) \in Hosts /\ shared = 1 /\ r.cache = 1
      /\ Host(g) = Head(r.todo)
  BY <1>3, <1>4 DEF CallInv, Staged, Host
<1>6. Step(g, f)
  OBVIOUS
<1> HIDE DEF r
<1>7. CASE s.source # "none" \/ s.creds.ok
  <2>1. /\ f \in Calls /\ f.op = "lookup" /\ f.list = r.list /\ f.todo = r.todo /\ f.cache = 1
        /\ f.got = r.got /\ f.failed = r.failed /\ f.known = r.known /\ f.began = r.began
        /\ f.asked = asked
        /\ f.at = IF s.source # "none" THEN s.source ELSE "insert"
        /\ f.at = "insert" => f.creds = s.creds
    <3>1. CASE s.source # "none"
      <4>1. f = Goto(r, s.source) /\ s.source \in Places /\ s.source # "insert"
        BY <3>1 DEF Ask, Sources, Places
      <4> HIDE DEF f
      <4>2. /\ f \in Calls /\ f.at = s.source
            /\ f.op = r.op /\ f.list = r.list /\ f.todo = r.todo /\ f.cache = r.cache
            /\ f.got = r.got /\ f.failed = r.failed /\ f.known = r.known
            /\ f.began = r.began /\ f.asked = r.asked
        BY <1>4, <4>1, GoingTo
      <4>3. QED
        BY <1>4, <1>5, <3>1, <4>1, <4>2
    <3>2. CASE s.source = "none"
      <4>1. f = [r EXCEPT !.at = "insert", !.creds = s.creds]
        BY <1>7, <3>2 DEF Ask
      <4>2. QED
        BY <1>4, <1>5, <3>2, <4>1 DEF Calls, Places
    <3>3. QED
      BY <3>1, <3>2
  <2> HIDE DEF f
  <2>2. ASSUME call'[g] = f
        PROVE  CallInv(g)'
    <3>1. Host(g)' = Host(g)
      BY <1>4, <2>1, <2>2 DEF Host
    <3>2. f.at \in {"insert"} \cup Sources
      BY <2>1
    <3>3. Staged(g)'
      BY <1>2, <1>5, <2>1, <2>2, <3>1, <3>2 DEF Staged, Sources
    <3>4. Covered(g)'
      <4>1. /\ call'[g].op = call[g].op /\ call'[g].list = call[g].list
            /\ call'[g].todo = call[g].todo /\ call'[g].got = call[g].got
            /\ call'[g].failed = call[g].failed
        BY <1>4, <1>5, <2>1, <2>2
      <4>2. QED
        BY <1>3, <4>1 DEF CallInv, Covered
    <3>5. Right(g)'
      BY <1>2, <1>3, <1>4, <2>1, <2>2, <3>1, <3>2 DEF CallInv, Right, Own, From
    <3>6. KnownCached(g)'
      BY <1>1, <1>3, <1>4, <2>1, <2>2, <3>1 DEF CallInv, KnownCached
    <3>7. QED
      BY <3>3, <3>4, <3>5, <3>6 DEF CallInv
  <2>3. QED
    BY <1>1, <1>6, <2>1, <2>2, OneMoves
<1>8. CASE s.source = "none" /\ ~s.creds.ok
  <2>1. f = FailImage(r)
    BY <1>8 DEF Ask
  <2> HIDE DEF f
  <2>2. /\ f \in Calls /\ f.failed /\ f.at = "load" /\ f.op = r.op /\ f.got = r.got
        /\ f.known = r.known /\ f.began = r.began /\ f.asked = r.asked
    BY <1>4, <1>5, <2>1, Failing
  <2>3. ASSUME call'[g] = f
        PROVE  CallInv(g)'
    <3>1. Staged(g)'
      BY <1>5, <2>2, <2>3 DEF Staged, Sources
    <3>2. Covered(g)'
      BY <2>2, <2>3 DEF Covered
    <3>3. Right(g)'
      BY <1>2, <1>3, <1>4, <2>2, <2>3 DEF CallInv, Right, Own, From, Sources
    <3>4. KnownCached(g)'
      BY <1>1, <1>3, <1>4, <2>2, <2>3 DEF CallInv, KnownCached, Sources
    <3>5. QED
      BY <3>1, <3>2, <3>3, <3>4 DEF CallInv
  <2>4. QED
    BY <1>1, <1>6, <2>2, <2>3, OneMoves
<1>9. QED
  BY <1>7, <1>8

\* What is cached is got; what is not is asked for now.
LEMMA ReadCacheKeeps ==
  ASSUME Inv, NEW g \in Goroutines, ReadCache(g)
  PROVE  Inv'
<1> DEFINE r == call[g]
           entries == caches[r.cache]
<1>1. Grows /\ CacheInv' /\ Cached' = Cached
  BY CacheStays DEF ReadCache
<1>2. /\ r \in Calls /\ CallInv(g) /\ r.at = "read"
      /\ epoch \in Nat /\ epoch' = epoch /\ crossed' = crossed /\ crossed \in BOOLEAN
  BY DEF Inv, ReadCache, At, CacheInv, ghosts
<1>3. /\ r.op = "lookup" /\ r.todo # <<>> /\ Host(g) \in Hosts
      /\ shared = 1 /\ r.cache = 1 /\ entries = Cached /\ r.began <= epoch /\ r.began \in Nat
  BY <1>2 DEF CallInv, Staged, Right, Cached, Calls
<1>4. Cached \in Maps /\ Own(Cached) /\ From(Cached, epoch)
  BY NothingCached DEF Inv, CacheInv, Cached
<1>5. CASE Host(g) \in DOMAIN Cached
  <2> DEFINE entry == Cached[Host(g)]
             f == Got(r, Host(g), entry)
  <2>1. Step(g, f)
    BY <1>3, <1>5 DEF ReadCache
  <2>2. /\ entry.creds \in AuthConfigs /\ entry.time \in Nat
        /\ entry = Stamped(entry.creds, entry.time)
        /\ entry.creds.of \in {"nobody", ResolveRegistryHost(Host(g))}
        /\ entry.time <= epoch /\ (crossed \/ entry.time >= epoch)
    BY <1>4, <1>5, MapEntries DEF Own, From
  <2>3. crossed' \/ entry.time >= r.began
    BY <1>2, <1>3, <2>2
  <2>4. f \in Calls
    <3>1. Head(r.todo) = Host(g)
      BY DEF Host
    <3>2. Got(r, Head(r.todo), Stamped(entry.creds, entry.time)) \in Calls
      BY <1>2, <1>3, <2>2, <3>1, Getting
    <3>3. QED
      BY <2>2, <3>1, <3>2
  <2>5. ASSUME call'[g] = f
        PROVE  CallInv(g)'
    BY <1>1, <1>2, <1>3, <2>2, <2>3, <2>5, GotKeeps
  <2>6. QED
    BY <1>1, <2>1, <2>4, <2>5, OneMoves
<1>6. CASE Host(g) \notin DOMAIN Cached
  <2> DEFINE host == ResolveRegistryHost(Host(g))
             s == FirstSource(config, host)
  <2>1. Step(g, Ask([r EXCEPT !.asked = epoch], s))
    BY <1>3, <1>6 DEF ReadCache
  <2>2. host \in Hosts
    BY <1>3, ResolvedHost
  <2>3. /\ s.source \in {"none"} \cup Sources
        /\ s.source = "helper" => host \in DOMAIN config.helpers
        /\ s.source = "store" => config.store # "none"
        /\ s.creds \in AuthConfigs /\ s.creds.of \in {"nobody", host}
    BY <2>2, FirstSourceLeads
  <2>4. Host(g) \notin r.known
    BY <1>2, <1>6 DEF CallInv, KnownCached
  <2>5. UNCHANGED <<config, answers, shared, caches, ghosts>>
    BY DEF ReadCache
  <2> HIDE DEF s
  <2>6. QED
    BY <1>2, <1>3, <2>1, <2>3, <2>4, <2>5, AskKeeps
<1>7. QED
  BY <1>5, <1>6

\* A program's answer is followed for the registry that it was asked about.
LEMMA AskSourceKeeps ==
  ASSUME Inv, NEW g \in Goroutines, AskSource(g)
  PROVE  Inv'
<1> DEFINE r == call[g]
           host == ResolveRegistryHost(Host(g))
           answer == answers[Program(config, r.at, host)]
           found == CredentialsFromHelper(answer, host)
           s == NextSource(config, r.at, host, found)
<1>1. r \in Calls /\ CallInv(g) /\ r.at \in Sources /\ config \in Configs
  BY DEF Inv, AskSource, CacheInv
<1>2. /\ Host(g) \in Hosts /\ Host(g) \notin r.known
      /\ r.at = "helper" => host \in DOMAIN config.helpers
      /\ r.at = "store" => config.store # "none"
      /\ r.asked \in Nat /\ r.asked <= epoch /\ r.began <= r.asked
  BY <1>1 DEF CallInv, Staged, Right, KnownCached, Calls
<1>3. host \in Hosts
  BY <1>2, ResolvedHost
<1>4. answer \in Answers
  <2>1. Program(config, r.at, host) \in Programs
    BY <1>1, <1>2, <1>3, SourcePrograms, ConfigsAssumption
  <2>2. QED
    BY <2>1 DEF Inv, CacheInv
<1>5. found \in AuthConfigs /\ found.of \in {"nobody", host}
  BY <1>3, <1>4, HelperAnswers
<1>6. Step(g, Ask(r, s)) /\ UNCHANGED <<config, answers, shared, caches, ghosts>>
  BY DEF AskSource
<1> HIDE DEF found
<1>7. /\ s.source \in {"none", "default"}
      /\ s.creds \in AuthConfigs /\ s.creds.of \in {"nobody", host}
  BY <1>1, <1>3, <1>5, NextSourceLeads
<1> HIDE DEF s
<1>8. [r EXCEPT !.asked = r.asked] = r
  BY <1>1 DEF Calls
<1>9. Step(g, Ask([r EXCEPT !.asked = r.asked], s))
  BY <1>6, <1>8
<1>10. s.source \in {"none"} \cup Sources /\ s.source # "helper" /\ s.source # "store"
  BY <1>7 DEF Sources
<1>11. QED
  BY <1>1, <1>2, <1>6, <1>7, <1>9, <1>10, AskKeeps

\* An entry is inserted with the time it was asked for: if the cache was cleared since, the
\* lookup has crossed the clearing.
LEMMA InsertKeeps ==
  ASSUME Inv, NEW g \in Goroutines, Insert(g)
  PROVE  Inv'
<1> DEFINE r == call[g]
           entry == Stamped(r.creds, r.asked)
           f == Got(r, Host(g), entry)
<1>1. r \in Calls /\ CallInv(g) /\ r.at = "insert"
  BY DEF Inv, Insert, At
<1>2. /\ r.op = "lookup" /\ r.todo # <<>> /\ Host(g) \in Hosts
      /\ shared = 1 /\ r.cache = 1
      /\ r.creds \in AuthConfigs /\ r.creds.of \in {"nobody", ResolveRegistryHost(Host(g))}
      /\ r.asked \in Nat /\ r.began \in Nat /\ r.began <= r.asked /\ r.asked <= epoch
  BY <1>1 DEF CallInv, Staged, Right, Calls
<1>3. /\ epoch \in Nat /\ crossed \in BOOLEAN /\ caches \in Seq(Maps) /\ Len(caches) = 1
      /\ Cached = caches[1] /\ Cached \in Maps
  <2>1. caches \in Seq(Maps) /\ Len(caches) = 1 /\ epoch \in Nat /\ crossed \in BOOLEAN
    BY <1>2 DEF Inv, CacheInv
  <2>2. caches[1] \in Maps
    BY <2>1
  <2>3. Cached = caches[1]
    BY <1>2 DEF Cached
  <2>4. QED
    BY <2>1, <2>2, <2>3
<1>4. /\ UNCHANGED <<config, answers, shared, epoch>>
      /\ caches' = [caches EXCEPT ![1] = With(Cached, Host(g), entry)]
      /\ answered' = answered \cup {Host(g)}
      /\ crossed' = (crossed \/ r.asked < epoch) /\ (r.asked < epoch => crossed')
      /\ Step(g, f)
  BY <1>2, <1>3 DEF Insert
<1>5. /\ With(Cached, Host(g), entry) \in Maps
      /\ entry.creds = r.creds /\ entry.time = r.asked
  BY <1>2, <1>3, WithMap
<1>6. /\ DOMAIN With(Cached, Host(g), entry) = DOMAIN Cached \cup {Host(g)}
      /\ With(Cached, Host(g), entry)[Host(g)] = entry
      /\ \A h \in DOMAIN Cached \ {Host(g)} : With(Cached, Host(g), entry)[h] = Cached[h]
  BY DEF With
<1> DEFINE new == With(Cached, Host(g), entry)
<1> HIDE DEF new, entry
<1>7. /\ caches' \in Seq(Maps) /\ Len(caches') = 1 /\ Cached' = new
      /\ crossed' \in BOOLEAN
  <2>1. caches' \in Seq(Maps) /\ Len(caches') = 1 /\ caches'[1] = new
    BY <1>3, <1>4, <1>5, OneReplaced DEF new
  <2>2. shared' = 1
    BY <1>2, <1>4
  <2>3. QED
    BY <1>4, <2>1, <2>2 DEF Cached
<1>8. Grows
  BY <1>2, <1>3, <1>4, <1>6, <1>7 DEF Grows, new
<1>9. CacheInv'
  <2>1. Own(Cached) /\ From(Cached, epoch) /\ answered \subseteq DOMAIN Cached
    BY DEF Inv, CacheInv
  <2>2. Own(new)
    BY <1>2, <1>5, <1>6, <2>1 DEF Own, new
  <2>3. \A h \in DOMAIN new : new[h].time <= epoch /\ (crossed' \/ new[h].time >= epoch)
    <3>1. entry.time <= epoch /\ (r.asked < epoch \/ entry.time >= epoch)
      BY <1>2, <1>3, <1>5
    <3>2. QED
      BY <1>3, <1>4, <1>6, <2>1, <3>1 DEF From, new
  <2>4. answered' \subseteq DOMAIN new
    BY <1>4, <1>6, <2>1 DEF new
  <2>5. Own(Cached)' /\ From(Cached, epoch)'
    BY <1>4, <1>7, <2>2, <2>3 DEF Own, From
  <2>6. QED
    BY <1>2, <1>3, <1>4, <1>7, <2>4, <2>5 DEF Inv, CacheInv
<1>10. f \in Calls
  BY <1>1, <1>2, Getting DEF Host, entry
<1>11. ASSUME call'[g] = f
       PROVE  CallInv(g)'
  <2>1. r.asked <= epoch' /\ (crossed' \/ r.asked >= r.began)
    BY <1>2, <1>4
  <2>2. call'[g] = Got(call[g], Host(g), Stamped(r.creds, r.asked))
    BY <1>11 DEF entry
  <2>3. QED
    BY <1>1, <1>2, <1>8, <2>1, <2>2, GotKeeps
<1>12. QED
  BY <1>4, <1>8, <1>9, <1>10, <1>11, OneMoves

\* A clearing makes all calls forget what they knew to be cached, and begins a new time.
LEMMA ClearKeeps ==
  ASSUME Inv, NEW g \in Goroutines, Clear(g)
  PROVE  Inv'
<1>1. call[g] \in Calls /\ CallInv(g) /\ call[g].at = "clear"
  BY DEF Inv, Clear, At
<1>2. shared = 1 /\ call[g].cache = 1 /\ call[g].op = "clear" /\ call[g].todo = <<>>
        /\ call[g].known = {}
  BY <1>1 DEF CallInv, Staged
<1>3. /\ UNCHANGED <<config, answers, shared, crossed>>
      /\ epoch' = epoch + 1 /\ epoch \in Nat /\ crossed \in BOOLEAN /\ answered' = {}
      /\ caches' = [caches EXCEPT ![1] = NoEntries]
      /\ caches \in Seq(Maps) /\ Len(caches) = 1
  BY <1>2 DEF Clear, Inv, CacheInv
<1>4. caches' \in Seq(Maps) /\ Len(caches') = 1 /\ Cached' = NoEntries
  <2>1. caches' \in Seq(Maps) /\ Len(caches') = 1 /\ caches'[1] = NoEntries
    BY <1>3, NothingCached, OneReplaced
  <2>2. QED
    BY <1>2, <1>3, <2>1 DEF Cached
<1>5. CacheInv'
  <2>1. Own(NoEntries) /\ From(Cached, epoch)'
    BY <1>4, NothingCached DEF Own, From
  <2>2. Own(Cached)'
    BY <1>4, <2>1 DEF Own
  <2>3. QED
    BY <1>2, <1>3, <1>4, <2>1, <2>2, NothingCached DEF Inv, CacheInv
<1>6. call'[g] = Goto(call[g], "idle")
  BY DEF Clear
<1>7. call'[g] \in Calls /\ CallInv(g)'
  <2>1. LET f == Goto(call[g], "idle") IN
        /\ f \in Calls /\ f.at = "idle"
        /\ f.op = "clear" /\ f.todo = <<>> /\ f.got = call[g].got /\ f.known = {}
        /\ f.began = call[g].began /\ f.asked = call[g].asked
    BY <1>1, <1>2, GoingTo DEF Places
  <2>2. /\ call'[g] \in Calls /\ call'[g].at = "idle"
        /\ call'[g].op = "clear" /\ call'[g].todo = <<>> /\ call'[g].got = call[g].got
        /\ call'[g].known = {}
        /\ call'[g].began = call[g].began /\ call'[g].asked = call[g].asked
    BY <1>6, <2>1
  <2>3. Staged(g)' /\ Covered(g)' /\ KnownCached(g)'
    BY <2>2 DEF Staged, Covered, KnownCached, Sources
  <2>4. Right(g)'
    <3>1. \A h \in DOMAIN call[g].got : call[g].got[h].time \in Nat
      BY <1>1, MapEntries DEF Calls
    <3>2. QED
      BY <1>1, <1>3, <2>2, <3>1 DEF CallInv, Right, Own, From, Sources, Calls
  <2>5. QED
    BY <2>2, <2>3, <2>4 DEF CallInv
<1>8. ASSUME NEW h \in Goroutines, h # g
      PROVE  call'[h] \in Calls /\ CallInv(h)'
  <2>1. call'[h] = [call[h] EXCEPT !.known = {}] /\ call[h] \in Calls /\ CallInv(h)
    BY <1>8 DEF Clear, Inv
  <2>2. /\ call'[h] \in Calls /\ call'[h].known = {}
        /\ call'[h].op = call[h].op /\ call'[h].list = call[h].list
        /\ call'[h].todo = call[h].todo /\ call'[h].at = call[h].at
        /\ call'[h].cache = call[h].cache /\ call'[h].creds = call[h].creds
        /\ call'[h].got = call[h].got /\ call'[h].failed = call[h].failed
        /\ call'[h].began = call[h].began /\ call'[h].asked = call[h].asked
    BY <2>1 DEF Calls
  <2>3. Host(h)' = Host(h)
    BY <2>2 DEF Host
  <2>4. Staged(h)'
    BY <1>3, <2>1, <2>2, <2>3 DEF CallInv, Staged
  <2>5. Covered(h)'
    BY <2>1, <2>2 DEF CallInv, Covered
  <2>6. Right(h)'
    <3>1. \A k \in DOMAIN call[h].got : call[h].got[k].time \in Nat
      BY <2>1, MapEntries DEF Calls
    <3>2. QED
      BY <1>3, <2>1, <2>2, <2>3, <3>1 DEF CallInv, Right, Own, From, Calls
  <2>7. KnownCached(h)'
    BY <2>2 DEF KnownCached
  <2>8. QED
    BY <2>2, <2>4, <2>5, <2>6, <2>7 DEF CallInv
<1>9. call' = [h \in Goroutines |-> call'[h]]
  BY DEF Clear
<1>10. call' \in [Goroutines -> Calls]
  BY <1>7, <1>8, <1>9
<1>11. QED
  BY <1>5, <1>7, <1>8, <1>10 DEF Inv

\* What the helper programs answer from now on changes nothing that was found.
LEMMA OthersKeep ==
  ASSUME Inv, Change \/ UNCHANGED vars
  PROVE  Inv'
<1>1. UNCHANGED <<config, shared, caches, call, epoch, answered, crossed>>
  BY DEF Change, vars, ghosts
<1>2. answers' \in [Programs -> Answers]
  BY DEF Change, vars, Inv, CacheInv
<1>3. Cached' = Cached
  BY <1>1 DEF Cached
<1>4. CacheInv'
  BY <1>1, <1>2, <1>3 DEF Inv, CacheInv, Own, From
<1>5. Grows
  BY <1>1, <1>3 DEF Grows, Inv, CacheInv
<1>6. ASSUME NEW g \in Goroutines
      PROVE  CallInv(g)'
  BY <1>1, <1>5, OthersStay DEF Inv
<1>7. QED
  BY <1>1, <1>4, <1>6 DEF Inv

-----------------------------------------------------------------------------

\* At first there is no cache and no call.
LEMMA InitInv ==
  Init => Inv
<1> SUFFICES ASSUME Init PROVE Inv
  OBVIOUS
<1>1. Cached = NoEntries /\ caches = <<>>
  BY DEF Init, Cached
<1>2. answers \in [Programs -> Answers]
  BY DEF Init, Answers
<1>3. <<>> \in Seq(Maps) /\ Len(<<>>) = 0
  OBVIOUS
<1>4. CacheInv
  <2>1. Own(Cached) /\ From(Cached, epoch)
    BY <1>1, NothingCached DEF Own, From
  <2>2. config \in Configs /\ shared = 0 /\ epoch = 0 /\ answered = {} /\ crossed = FALSE
    BY DEF Init
  <2>3. shared \in 0..1 /\ caches \in Seq(Maps) /\ Len(caches) = shared /\ epoch \in Nat
    BY <1>1, <1>3, <2>2
  <2>4. crossed \in BOOLEAN /\ answered \subseteq DOMAIN Cached
    BY <2>2
  <2>5. QED
    BY <1>2, <2>1, <2>2, <2>3, <2>4 DEF CacheInv
<1>5. call \in [Goroutines -> Calls]
  BY NoCallIsCall DEF Init
<1>6. ASSUME NEW g \in Goroutines
      PROVE  CallInv(g)
  <2>1. /\ call[g].op = "none" /\ call[g].at = "idle" /\ call[g].todo = <<>>
        /\ call[g].got = NoEntries /\ call[g].known = {}
        /\ call[g].began = 0 /\ call[g].asked = 0 /\ epoch = 0
    BY DEF Init, NoCall
  <2>2. Staged(g) /\ Covered(g) /\ KnownCached(g)
    BY <2>1 DEF Staged, Covered, KnownCached, Sources
  <2>3. Right(g)
    BY <2>1, NothingCached DEF Right, Own, From, Sources
  <2>4. QED
    BY <2>2, <2>3 DEF CallInv
<1>7. QED
  BY <1>4, <1>5, <1>6 DEF Inv

\* The invariant holds in every reachable state.
LEMMA InvHolds ==
  Spec => []Inv
<1>1. ASSUME Inv, [Next]_vars
      PROVE  Inv'
  BY <1>1, BeginLookupKeeps, BeginClearKeeps, LoadKeeps, InitCacheKeeps, ReadCacheKeeps,
     AskSourceKeeps, InsertKeeps, ClearKeeps, OthersKeep DEF Next
<1>2. QED
  BY InitInv, <1>1, PTL DEF Spec

\* The numbers of calls and changes stay within their bounds.
LEMMA Bounded ==
  Spec => [](calls \in 0..MaxCalls /\ changes \in 0..MaxChanges)
<1> DEFINE B == calls \in 0..MaxCalls /\ changes \in 0..MaxChanges
<1>1. Init => B
  BY BoundsAssumption DEF Init
<1>2. ASSUME B, [Next]_vars
      PROVE  B'
  <2>1. /\ calls' = calls \/ (calls < MaxCalls /\ calls' = calls + 1)
        /\ changes' = changes \/ (changes < MaxChanges /\ changes' = changes + 1)
    BY <1>2 DEF Next, vars, BeginLookup, BeginClear, Load, InitCache, ReadCache, AskSource,
                Insert, Clear, Change
  <2>2. QED
    BY <1>2, <2>1, BoundsAssumption
<1>3. QED
  BY <1>1, <1>2, PTL DEF Spec

\* What the invariant says of the entries of a map.
LEMMA EntriesOfNow ==
  ASSUME NEW map \in Maps, NEW first, From(map, first), epoch \in Nat
  PROVE  IsCache(map)
<1>1. ASSUME NEW h \in DOMAIN map
      PROVE  map[h] \in Entries
  <2>1. map[h] \in [creds : AuthConfigs, time : Nat] /\ map[h].time <= epoch
    BY MapEntries DEF From
  <2>2. map[h].time \in 0..epoch
    BY <2>1
  <2>3. QED
    BY <2>1, <2>2 DEF Entries
<1>2. QED
  BY <1>1, MapEntries DEF IsCache

\* Every variable holds a value of its kind; in particular, however many goroutines race to
\* initCache, they make one cache and all of them use it.
THEOREM TypeCorrect ==
  Spec => []TypeOK
<1>1. ASSUME Inv, calls \in 0..MaxCalls /\ changes \in 0..MaxChanges
      PROVE  TypeOK
  <2>1. /\ config \in Configs /\ answers \in [Programs -> Answers]
        /\ shared \in 0..1 /\ caches \in Seq(Maps) /\ Len(caches) = shared
        /\ epoch \in Nat /\ crossed \in BOOLEAN /\ From(Cached, epoch)
        /\ answered \subseteq DOMAIN Cached
    BY <1>1 DEF Inv, CacheInv
  <2>2. ASSUME NEW i \in DOMAIN caches
        PROVE  caches[i] = Cached /\ caches[i] \in Maps
    BY <2>1, <2>2 DEF Cached
  <2>3. \A i \in DOMAIN caches : IsCache(caches[i])
    BY <2>1, <2>2, EntriesOfNow
  <2>4. answered \subseteq Hosts
    <3>1. Cached \in Maps
      BY <2>1, NothingCached DEF Cached
    <3>2. QED
      BY <2>1, <3>1, MapEntries
  <2>5. ASSUME NEW g \in Goroutines
        PROVE  LET r == call[g] IN
               /\ r.op \in {"none", "lookup", "clear"} /\ r.at \in Places
               /\ r.at \in {"read", "insert", "clear"} \cup Sources => r.cache = 1
               /\ r.creds \in AuthConfigs /\ IsCache(r.got) /\ r.failed \in BOOLEAN
               /\ r.known \subseteq Hosts /\ r.began \in 0..epoch /\ r.asked \in 0..epoch
    <3>1. call[g] \in Calls /\ CallInv(g)
      BY <1>1 DEF Inv
    <3>2. call[g].got \in Maps /\ From(call[g].got, call[g].began)
      BY <3>1 DEF Calls, CallInv, Right
    <3>3. IsCache(call[g].got)
      BY <2>1, <3>2, EntriesOfNow
    <3>4. call[g].began \in 0..epoch /\ call[g].asked \in 0..epoch
      BY <2>1, <3>1 DEF Calls, CallInv, Right
    <3>5. QED
      BY <3>1, <3>3, <3>4 DEF Calls, CallInv, Staged
  <2>6. QED
    BY <1>1, <2>1, <2>3, <2>4, <2>5 DEF TypeOK
<1>2. QED
  BY <1>1, InvHolds, Bounded, PTL

\* For any number of goroutines and any order of their steps: no helper program is run for a
\* registry that a lookup had answered for before this one began, unless the cache was cleared.
THEOREM CacheIsUsed ==
  Spec => []AskedOnce
<1>1. Inv => AskedOnce
  BY DEF Inv, CallInv, KnownCached, AskedOnce
<1>2. QED
  BY <1>1, InvHolds, PTL

\* For any config, stored credentials and answers of helper programs, a lookup answers for a
\* registry with credentials for that registry, the names of Docker Hub being one.
THEOREM RightRegistry ==
  Spec => []OwnCredentials
<1>1. Inv => OwnCredentials
  BY DEF Inv, CallInv, Right, Own, OwnCredentials, ResolveRegistryHost
<1>2. QED
  BY <1>1, InvHolds, PTL

\* For lists of any length, a lookup that ends without an error has an answer for every image.
THEOREM NoImageForgotten ==
  Spec => []CompleteOrError
<1>1. ASSUME Inv, NEW g \in Goroutines, Idle(g), call[g].op = "lookup", ~call[g].failed,
             NEW i \in DOMAIN call[g].list
      PROVE  call[g].list[i] \in DOMAIN call[g].got
  <2>1. call[g].todo = <<>> /\ Covered(g)
    BY <1>1 DEF Inv, CallInv, Staged, Idle
  <2>2. DOMAIN <<>> = {}
    OBVIOUS
  <2>3. QED
    BY <1>1, <2>1, <2>2 DEF Covered
<1>2. Inv => CompleteOrError
  BY <1>1 DEF CompleteOrError
<1>3. QED
  BY <1>2, InvHolds, PTL

\* What a lookup answers was asked for after the last clearing before it began, unless some
\* lookup inserted what it had begun to ask for before a clearing.
THEOREM ClearedIsGone ==
  Spec => []FreshAfterClear
<1>1. ASSUME Inv, ~crossed, NEW g \in Goroutines, NEW h \in DOMAIN call[g].got
      PROVE  call[g].got[h].time >= call[g].began
  BY <1>1 DEF Inv, CallInv, Right, From
<1>2. Inv => FreshAfterClear
  BY <1>1 DEF FreshAfterClear
<1>3. QED
  BY <1>2, InvHolds, PTL

=============================================================================
