-------------------------- MODULE CredentialCache --------------------------
(***************************************************************************)
(* A Config that goroutines share, and its cache of credentials: lookups   *)
(* for one registry or for a list of images, and clearAuthCache, while     *)
(* helper programs come and go.  What happens under a mutex is one step.   *)
(***************************************************************************)
EXTENDS Naturals, Sequences, CredentialSources

CONSTANTS Goroutines,
          Configs,      \* [helpers, store, stored], see CredentialSources
          Lists,        \* lists of images, each by its registry
          MaxCalls,     \* bound: calls altogether
          MaxChanges    \* bound: changes of a helper program's answer

ASSUME BoundsAssumption == MaxCalls \in Nat /\ MaxChanges \in Nat
ASSUME ConfigsAssumption == \A config \in Configs : NamesPrograms(config)

\* A name that does not parse.
Malformed == "malformed"

ASSUME ListsAssumption == Malformed \notin Hosts /\ Lists \subseteq Seq(Hosts \cup {Malformed})

VARIABLES
  config,     \* the Config
  answers,    \* what each helper program would answer
  shared,     \* the atomic pointer to the cache, 0 for nil
  caches,     \* the caches that were made
  call,       \* the last or current call of each goroutine
  calls,
  changes,
  epoch,      \* ghost: how often the cache was cleared
  answered,   \* ghost: hosts of successful lookups since it was last cleared
  crossed     \* ghost: a lookup inserted what it began to ask for before a clearing

ghosts == <<epoch, answered, crossed>>
vars == <<config, answers, shared, caches, call, calls, changes, ghosts>>

Places == {"idle", "load", "init", "read", "insert", "clear"} \cup Sources
NoEntries == [host \in {} |-> Nothing]
NoCall == [op |-> "none", list |-> <<>>, todo |-> <<>>, at |-> "idle", cache |-> 0,
           creds |-> Nothing, got |-> NoEntries, failed |-> FALSE, known |-> {},
           began |-> 0, asked |-> 0]

-----------------------------------------------------------------------------
Idle(g) == call[g].at = "idle"
At(g, place) == call[g].at = place
Host(g) == Head(call[g].todo)
Stamped(creds, time) == [creds |-> creds, time |-> time]
With(map, host, value) == [h \in DOMAIN map \cup {host} |-> IF h = host THEN value ELSE map[h]]

Step(g, r) == call' = [call EXCEPT ![g] = r]
Goto(r, place) == [r EXCEPT !.at = place]
\* On to the next image, with what the last one got.
Got(r, host, entry) == [r EXCEPT !.got = With(r.got, host, entry), !.todo = Tail(@), !.at = "load"]

\* Faulty: an error is taken for missing credentials.
SkipImage(r) == [r EXCEPT !.todo = Tail(@), !.at = "load"]

FailImage(r) == [r EXCEPT !.failed = TRUE, !.todo = Tail(@), !.at = "load"]
\* One failing image fails the whole list.
Return(r) == [r EXCEPT !.at = "idle", !.got = IF r.failed THEN NoEntries ELSE @]

\* Go on with a source, or with its answer.
Ask(r, s) ==
  CASE s.source # "none"                -> Goto(r, s.source)
    [] s.source = "none" /\ s.creds.ok  -> [r EXCEPT !.at = "insert", !.creds = s.creds]
    [] OTHER                            -> FailImage(r)

-----------------------------------------------------------------------------
\* The other answers come with Change.
Init ==
  /\ config \in Configs
  /\ answers \in [Programs -> {"notInstalled", "password"}]
  /\ shared = 0 /\ caches = <<>>
  /\ call = [g \in Goroutines |-> NoCall]
  /\ calls = 0 /\ changes = 0 /\ epoch = 0 /\ answered = {} /\ crossed = FALSE

\* AuthConfigForHostname, AuthConfigForImage and AuthConfigsForImages.
BeginLookup(g) ==
  \E list \in Lists :
    /\ Idle(g) /\ calls < MaxCalls
    /\ calls' = calls + 1
    /\ Step(g, [NoCall EXCEPT !.op = "lookup", !.list = list, !.todo = list, !.at = "load",
                              !.known = answered, !.began = epoch])
    /\ UNCHANGED <<config, answers, shared, caches, changes, ghosts>>

BeginClear(g) ==
  /\ Idle(g) /\ calls < MaxCalls
  /\ calls' = calls + 1
  /\ Step(g, [NoCall EXCEPT !.op = "clear", !.at = "load"])
  /\ UNCHANGED <<config, answers, shared, caches, changes, ghosts>>

AfterLoad(g) == IF call[g].op = "clear" THEN "clear" ELSE "read"

\* The loop over the images, and the fast path of initCache.
Load(g) ==
  /\ At(g, "load")
  /\ LET r == call[g] IN
     CASE r.op = "lookup" /\ r.todo = <<>>       -> Step(g, Return(r))
       [] r.todo # <<>> /\ Host(g) = Malformed   -> Step(g, FailImage(r))
       [] OTHER -> Step(g, IF shared = 0 THEN Goto(r, "init")
                           ELSE [r EXCEPT !.at = AfterLoad(g), !.cache = shared])
  /\ UNCHANGED <<config, answers, shared, caches, calls, changes, ghosts>>

\* Faulty: no second look at the pointer under the mutex.
InitCacheUnchecked(g) ==
  /\ At(g, "init")
  /\ caches' = Append(caches, NoEntries) /\ shared' = Len(caches) + 1
  /\ Step(g, [call[g] EXCEPT !.at = AfterLoad(g), !.cache = Len(caches) + 1])
  /\ UNCHANGED <<config, answers, calls, changes, ghosts>>

\* initCache under its mutex: somebody else may have made the cache by now.
InitCache(g) ==
  /\ At(g, "init")
  /\ IF shared = 0
     THEN caches' = Append(caches, NoEntries) /\ shared' = Len(caches) + 1
     ELSE UNCHANGED <<caches, shared>>
  /\ Step(g, [call[g] EXCEPT !.at = AfterLoad(g), !.cache = shared'])
  /\ UNCHANGED <<config, answers, calls, changes, ghosts>>

ReadCache(g) ==
  /\ At(g, "read")
  /\ LET r == call[g]
         entries == caches[r.cache]
     IN IF Host(g) \in DOMAIN entries
        THEN Step(g, Got(r, Host(g), entries[Host(g)]))
        ELSE Step(g, Ask([r EXCEPT !.asked = epoch],
                         FirstSource(config, ResolveRegistryHost(Host(g)))))
  /\ UNCHANGED <<config, answers, shared, caches, calls, changes, ghosts>>

\* A helper program runs, without any lock.
AskSource(g) ==
  /\ call[g].at \in Sources
  /\ LET host == ResolveRegistryHost(Host(g))
         answer == answers[Program(config, call[g].at, host)]
     IN Step(g, Ask(call[g], NextSource(config, call[g].at, host,
                                        CredentialsFromHelper(answer, host))))
  /\ UNCHANGED <<config, answers, shared, caches, calls, changes, ghosts>>

\* The result is cached under the name that was asked for.
Insert(g) ==
  /\ At(g, "insert")
  /\ LET r == call[g]
         entry == Stamped(r.creds, r.asked)
     IN /\ caches' = [caches EXCEPT ![r.cache] = With(@, Host(g), entry)]
        /\ Step(g, Got(r, Host(g), entry))
  /\ answered' = answered \cup {Host(g)}
  /\ crossed' = (crossed \/ call[g].asked < epoch)
  /\ UNCHANGED <<config, answers, shared, calls, changes, epoch>>

\* Faulty: the old entries are kept.
ClearNothing(g) ==
  /\ At(g, "clear")
  /\ epoch' = epoch + 1 /\ answered' = {} /\ crossed' = crossed
  /\ call' = [h \in Goroutines |-> IF h = g THEN Goto(call[g], "idle")
                                            ELSE [call[h] EXCEPT !.known = {}]]
  /\ UNCHANGED <<config, answers, shared, caches, calls, changes>>

Clear(g) ==
  /\ At(g, "clear")
  /\ caches' = [caches EXCEPT ![call[g].cache] = NoEntries]
  /\ epoch' = epoch + 1 /\ answered' = {} /\ crossed' = crossed
  /\ call' = [h \in Goroutines |-> IF h = g THEN Goto(call[g], "idle")
                                            ELSE [call[h] EXCEPT !.known = {}]]
  /\ UNCHANGED <<config, answers, shared, calls, changes>>

\* Somebody logs in or out, or a program is installed, removed or breaks.
Change ==
  /\ changes < MaxChanges /\ changes' = changes + 1
  /\ \E p \in Programs, a \in Answers : answers[p] # a /\ answers' = [answers EXCEPT ![p] = a]
  /\ UNCHANGED <<config, shared, caches, call, calls, ghosts>>

Next ==
  \/ \E g \in Goroutines :
       \/ BeginLookup(g) \/ BeginClear(g) \/ Load(g) \/ InitCache(g) \/ ReadCache(g)
       \/ AskSource(g) \/ Insert(g) \/ Clear(g)
  \/ Change

Spec == Init /\ [][Next]_vars

-----------------------------------------------------------------------------
(* Properties.                                                             *)

Entries == [creds : AuthConfigs, time : 0..epoch]
IsCache(map) == DOMAIN map \subseteq Hosts /\ \A h \in DOMAIN map : map[h] \in Entries

\* Every variable holds a value of its kind, and there is one cache at most.
TypeOK ==
  /\ config \in Configs /\ answers \in [Programs -> Answers]
  /\ shared \in 0..1 /\ Len(caches) = shared /\ \A i \in DOMAIN caches : IsCache(caches[i])
  /\ \A g \in Goroutines :
       LET r == call[g] IN
       /\ r.op \in {"none", "lookup", "clear"} /\ r.at \in Places
       /\ r.at \in {"read", "insert", "clear"} \cup Sources => r.cache = 1
       /\ r.creds \in AuthConfigs /\ IsCache(r.got) /\ r.failed \in BOOLEAN
       /\ r.known \subseteq Hosts /\ r.began \in 0..epoch /\ r.asked \in 0..epoch
  /\ calls \in 0..MaxCalls /\ changes \in 0..MaxChanges
  /\ answered \subseteq Hosts /\ crossed \in BOOLEAN

\* A host name that a lookup has answered for is not asked for again until the cache is
\* cleared, whichever goroutine asks: they share one cache from the first call on.  (Two
\* names of one registry have an entry each.)
AskedOnce ==
  \A g \in Goroutines : call[g].at \in Sources => Host(g) \notin call[g].known

\* A lookup never answers with the credentials of another registry, and the names of Docker
\* Hub stand for one registry.
OwnCredentials ==
  \A g \in Goroutines : \A h \in DOMAIN call[g].got :
    call[g].got[h].creds.of \in {"nobody", IF h \in IndexNames THEN IndexDockerIO ELSE h}

\* A lookup answers for every image of its list or reports an error.
CompleteOrError ==
  \A g \in Goroutines :
    Idle(g) /\ call[g].op = "lookup" /\ ~call[g].failed =>
      \A i \in DOMAIN call[g].list : call[g].list[i] \in DOMAIN call[g].got

\* A lookup that begins after the cache was cleared answers with nothing that was asked for
\* before, unless a lookup under way brought it back.
FreshAfterClear ==
  ~crossed => \A g \in Goroutines : \A h \in DOMAIN call[g].got :
                call[g].got[h].time >= call[g].began

=============================================================================
