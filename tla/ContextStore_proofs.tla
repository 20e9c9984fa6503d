------------------------ MODULE ContextStore_proofs ------------------------
(***************************************************************************)
(* Proofs about the context store, for any number of callers, contexts,    *)
(* calls and calls cut short.                                              *)
(***************************************************************************)
EXTENDS ContextStore, TLAPS

\* A call is at a place of its operation, and has a context where the operation needs one.
InPlace(p) ==
  LET r == proc[p] IN
  /\ r.op \in {"New", "Delete"} => r.name \in Names
  /\ r.at = "host" => r.op = "Host"
  /\ r.at \in Listing => r.op \in {"New", "Inspect", "Host"}
  /\ r.at \in Adding \cup {"check"} => r.op = "New"
  /\ r.at \in Removing => r.op = "Delete"
  /\ r.at \in Saving => r.op \in {"New", "Delete"}

\* What an adding call may find in its meta.json, unless another one adds it at the same time.
Adds(p) ==
  LET r == proc[p] IN
  /\ r.at = "write" => (r.linked \/ r.undone) /\ (r.linked => meta[r.name] # "absent")
  /\ r.at \in Adding /\ r.name \notin clash =>
       meta[r.name] = IF r.at = "write" /\ r.linked THEN "empty" ELSE "absent"

\* Two calls that add one context have clashed.
AddsAlone(p, q) ==
  p # q /\ proc[p].at \in Adding /\ proc[q].at \in Adding /\ proc[p].name = proc[q].name
    => proc[p].name \in clash

\* What New has written and Delete has removed, from that step on.
Effect(p) ==
  LET r == proc[p] IN
  r.at \in Saving \/ (r.at = "idle" /\ r.err = "none") =>
    /\ r.op = "New" /\ ~r.undone /\ r.name \notin clash => meta[r.name] = p
    /\ r.op = "Delete" /\ ~r.undone => ~dir[r.name]

\* A context that is there all the time is among those that the listing has still to look at
\* or has found.
Lists(p) ==
  LET r == proc[p] IN
  /\ r.at \in Listing \ {"mark"} /\ ~r.gap => meta[r.name] \notin {"absent", "empty"}
  /\ r.at \in {"walk", "read"} /\ ~r.gap => r.name \in r.todo \cup r.found
  /\ r.err = "notfound" /\ r.at = "idle" => r.gap

\* No New under way was undone, unless a Delete crossed it.
Uncrossed(p) ==
  proc[p].op = "New" /\ proc[p].at # "idle" /\ proc[p].undone => stale

CallInv(p) == InPlace(p) /\ Adds(p) /\ Effect(p) /\ Lists(p) /\ Uncrossed(p)

\* A meta.json lies in its directory, and is torn only where two calls have clashed.
DiskInv ==
  \A n \in Names : /\ meta[n] # "absent" => dir[n]
                   /\ meta[n] = "torn" => n \in clash

Writing(p, n) == proc[p].at = "write" /\ proc[p].linked /\ proc[p].name = n
Resetting(p, n) ==
  /\ proc[p].op = "Delete" /\ proc[p].use /\ proc[p].name = n
  /\ proc[p].at \in {"rmdir"} \cup Saving

\* Whatever is half done has somebody who is at it, unless a call was cut short there; a call
\* cut short anywhere may leave the config with the name of a context that it removed.
HalfDone ==
  /\ faults = 0 => cut = {}
  /\ config = "empty" => cut # {} \/ \E p \in Procs : proc[p].at = "save"
  /\ \A n \in Names \ cut : meta[n] = "empty" => \E p \in Procs : Writing(p, n)
  /\ \A n \in Names \ (clash \cup cut) : dir[n] /\ meta[n] = "absent" =>
       \E p \in Procs : proc[p].at \in {"open", "rmdir"} /\ proc[p].name = n
  /\ faults = 0 /\ ~stale /\ config \in Names \ clash =>
       \/ Whole(config)
       \/ \E p \in Procs : Writing(p, config) \/ Resetting(p, config)

StoreInv ==
  /\ TypeOK /\ DiskInv /\ HalfDone
  /\ \A p \in Procs : CallInv(p)
  /\ \A p, q \in Procs : AddsAlone(p, q)

-----------------------------------------------------------------------------
(* What a step makes of a call.                                            *)

\* A new call.
LEMMA Beginning ==
  ASSUME NEW op \in {"none", "New", "Inspect", "Delete", "Host"}, NEW n \in Names \cup {Default},
         NEW use \in BOOLEAN, NEW place \in Places
  PROVE  LET f == Begun(op, n, use, place) IN
         /\ f \in Calls /\ f.op = op /\ f.name = n /\ f.use = use /\ f.at = place
         /\ f.err = "none" /\ ~f.undone /\ f.host
         /\ n \in Names => f.gap = ~Whole(n)
BY DEF Begun, Calls, Errs, Whole

\* A call goes to another place.
LEMMA GoingTo ==
  ASSUME NEW r \in Calls, NEW place \in Places
  PROVE  LET f == Goto(r, place) IN
         /\ f \in Calls /\ f.at = place
         /\ f.op = r.op /\ f.name = r.name /\ f.use = r.use /\ f.linked = r.linked
         /\ f.err = r.err /\ f.gap = r.gap /\ f.undone = r.undone
BY DEF Goto, Calls

\* A call returns.
LEMMA Returning ==
  ASSUME NEW r \in Calls, NEW err \in Errs
  PROVE  LET f == Return(r, err) IN
         /\ f \in Calls /\ f.at = "idle" /\ f.err = err
         /\ f.op = r.op /\ f.name = r.name /\ ~f.use
         /\ f.gap = r.gap /\ f.undone = r.undone
BY DEF Return, Calls, Places

\* A listing that fails returns the error, or New goes on in spite of it.
LEMMA Failing ==
  ASSUME NEW r \in Calls, NEW err \in {"notfound", "nohost", "fail"}
  PROVE  LET f == ListingFails(r, err) IN
         /\ f \in Calls
         /\ f.op = r.op /\ f.name = r.name
         /\ f.gap = r.gap /\ f.undone = r.undone
         /\ \/ f.at = "check" /\ r.op = "New" /\ f.err = r.err
            \/ f.at = "idle" /\ r.op # "New" /\ f.err = err
<1>1. "check" \in Places /\ err \in Errs
  BY DEF Places, Errs
<1>2. CASE r.op = "New"
  BY <1>1, <1>2, GoingTo DEF ListingFails
<1>3. CASE r.op # "New"
  BY <1>1, <1>3, Returning DEF ListingFails
<1>4. QED
  BY <1>2, <1>3

\* A step of one call.
LEMMA Stepping ==
  ASSUME TypeOK, NEW p \in Procs, NEW r \in Calls, Step(p, r),
         r.at \notin {"idle", "host"} => r.name \in Names
  PROVE  /\ proc' \in [Procs -> Calls] /\ proc'[p] = r
         /\ \A q \in Procs \ {p} : proc'[q] = proc[q]
         /\ \A q \in Procs : proc'[q].at \notin {"idle", "host"} => proc'[q].name \in Names
BY DEF TypeOK, Step

-----------------------------------------------------------------------------
(* Steps of a call that change no file.                                    *)

\* A call that another one leaves alone, with its context, keeps its invariant.
LEMMA OthersStay ==
  ASSUME NEW q \in Procs, CallInv(q), proc'[q] = proc[q],
         dir'[proc[q].name] = dir[proc[q].name], meta'[proc[q].name] = meta[proc[q].name],
         clash \subseteq clash', stale => stale'
  PROVE  CallInv(q)'
<1>1. InPlace(q)' /\ Lists(q)' /\ Uncrossed(q)'
  BY DEF CallInv, InPlace, Lists, Uncrossed
<1>2. Adds(q)'
  BY DEF CallInv, Adds
<1>3. Effect(q)'
  BY DEF CallInv, Effect
<1>4. QED
  BY <1>1, <1>2, <1>3 DEF CallInv

\* Nothing is recorded as cut short before anything was.
LEMMA CutIsFault ==
  ASSUME StoreInv
  PROVE  faults = 0 => cut = {}
BY DEF StoreInv, HalfDone

\* What is half done stays so while nobody who is at it leaves and no file changes.
LEMMA HalfDoneStays ==
  ASSUME HalfDone, UNCHANGED <<files, faults, cut, stale>>, clash \subseteq clash',
         \A q \in Procs :
           /\ proc[q].at = "save" => proc'[q].at = "save"
           /\ \A n \in Names : Writing(q, n) => Writing(q, n)'
           /\ proc[q].at \in {"open", "rmdir"} =>
                proc'[q].at = proc[q].at /\ proc'[q].name = proc[q].name
           /\ config \in Names /\ Resetting(q, config) => Resetting(q, config)'
  PROVE  HalfDone'
<1>1. UNCHANGED <<dir, meta, config, faults, cut, stale>>
  BY DEF files
<1>2. ASSUME config = "empty", cut = {}
      PROVE  \E q \in Procs : proc'[q].at = "save"
  BY <1>2 DEF HalfDone
<1>3. ASSUME NEW n \in Names \ cut, meta[n] = "empty"
      PROVE  \E q \in Procs : Writing(q, n)'
  BY <1>3 DEF HalfDone
<1>4. ASSUME NEW n \in Names \ (clash \cup cut), dir[n], meta[n] = "absent"
      PROVE  \E q \in Procs : proc'[q].at \in {"open", "rmdir"} /\ proc'[q].name = n
  <2>1. PICK q \in Procs : proc[q].at \in {"open", "rmdir"} /\ proc[q].name = n
    BY <1>4 DEF HalfDone
  <2>2. QED
    BY <2>1
<1>5. ASSUME faults = 0, ~stale, config \in Names \ clash, ~Whole(config)
      PROVE  \E q \in Procs : Writing(q, config)' \/ Resetting(q, config)'
  <2>1. PICK q \in Procs : Writing(q, config) \/ Resetting(q, config)
    BY <1>5 DEF HalfDone
  <2>2. QED
    BY <1>1, <1>5, <2>1
<1>6. QED
  BY <1>1, <1>2, <1>3, <1>4, <1>5 DEF HalfDone, Whole

\* So a step that neither leaves nor enters the places where files change keeps everything, if
\* it keeps the invariant of its call.
LEMMA QuietStep ==
  ASSUME StoreInv, NEW p \in Procs, NEW r \in Calls, Step(p, r),
         r.at \notin {"idle", "host"} => r.name \in Names,
         handles' \subseteq [name : Names, isCurrent : BOOLEAN], calls' \in 0..MaxCalls,
         UNCHANGED <<files, faults, clash, cut, stale>>, bare' \subseteq Names,
         proc[p].at \notin {"write", "open", "rmdir", "save"}, r.at \notin Adding,
         \/ proc[p].at \notin Saving \/ config \notin Names
         \/ /\ r.at \in Saving
            /\ r.op = proc[p].op /\ r.use = proc[p].use /\ r.name = proc[p].name,
         proc'[p] = r => CallInv(p)'
  PROVE  StoreInv'
<1>1. UNCHANGED <<dir, meta, host, config, faults, clash, cut, stale>>
  BY DEF files
<1>2. /\ proc' \in [Procs -> Calls] /\ proc'[p] = r
      /\ \A q \in Procs \ {p} : proc'[q] = proc[q]
      /\ \A q \in Procs : proc'[q].at \notin {"idle", "host"} => proc'[q].name \in Names
  BY Stepping DEF StoreInv
<1>3. TypeOK'
  BY <1>1, <1>2 DEF StoreInv, TypeOK
<1>4. DiskInv'
  BY <1>1 DEF StoreInv, DiskInv
<1>5. ASSUME NEW q \in Procs
      PROVE  CallInv(q)'
  <2>1. CASE q = p
    BY <1>2, <2>1
  <2>2. CASE q # p
    BY <1>1, <1>2, <2>2, OthersStay DEF StoreInv
  <2>3. QED
    BY <2>1, <2>2
<1>6. ASSUME NEW q \in Procs, NEW o \in Procs
      PROVE  AddsAlone(q, o)'
  BY <1>1, <1>2 DEF StoreInv, AddsAlone
<1>7. HalfDone'
  <2>1. ASSUME NEW q \in Procs
        PROVE  /\ proc[q].at = "save" => proc'[q].at = "save"
               /\ \A n \in Names : Writing(q, n) => Writing(q, n)'
               /\ proc[q].at \in {"open", "rmdir"} =>
                    proc'[q].at = proc[q].at /\ proc'[q].name = proc[q].name
               /\ config \in Names /\ Resetting(q, config) => Resetting(q, config)'
    <3>1. CASE q = p
      BY <1>1, <1>2, <3>1 DEF Writing, Resetting
    <3>2. CASE q # p
      BY <1>1, <1>2, <3>2 DEF Writing, Resetting
    <3>3. QED
      BY <3>1, <3>2
  <2>2. QED
    BY <1>1, <2>1, HalfDoneStays DEF StoreInv
<1>8. QED
  BY <1>3, <1>4, <1>5, <1>6, <1>7 DEF StoreInv

-----------------------------------------------------------------------------
(* The beginning of a call, and the listing.                               *)

\* The assumptions keep the reserved words apart.
LEMMA Apart ==
  /\ Default \notin Names /\ "empty" \notin Names
  /\ \A p \in Procs : p \notin NotWhole
  /\ NotWhole = {"absent", "empty", "torn"}
BY ConstantsAssumption DEF NotWhole

\* Whoever begins a call works on one context, and has not seen anything yet.
LEMMA BeginKeeps ==
  ASSUME StoreInv, NEW p \in Procs, NEW r \in Calls, Begin(p, r),
         r.at \in {"host", "list", "unlink"}, r.op # "none",
         r.at = "host" => r.op = "Host", r.at = "list" => r.op # "Delete",
         r.at = "unlink" <=> r.op = "Delete", r.at # "host" => r.name \in Names,
         r.name \in Names => r.gap = ~Whole(r.name),
         r.err = "none", ~r.undone, ~r.host => r.name \in Names
  PROVE  StoreInv'
<1>1. /\ Step(p, r) /\ UNCHANGED <<files, handles, faults, clash, cut, stale>>
      /\ proc[p].at = "idle" /\ calls < MaxCalls /\ calls' = calls + 1
      /\ bare' = IF r.host THEN bare ELSE bare \cup {r.name}
  BY DEF Begin, Idle
<1>2. calls' \in 0..MaxCalls
  BY <1>1, ConstantsAssumption DEF StoreInv, TypeOK
<1>3. ASSUME proc'[p] = r
      PROVE  CallInv(p)'
  <2>1. InPlace(p)' /\ Adds(p)' /\ Effect(p)' /\ Uncrossed(p)'
    BY <1>3 DEF InPlace, Adds, Effect, Uncrossed, Listing, Adding, Removing, Saving, Calls
  <2>2. Lists(p)'
    BY <1>1, <1>3, Apart DEF Lists, Listing, Whole, files
  <2>3. QED
    BY <2>1, <2>2 DEF CallInv
<1>4. r.at \notin Adding /\ proc[p].at \notin Saving
  BY <1>1 DEF Adding, Saving
<1>5. r.at \notin {"idle", "host"} => r.name \in Names
  OBVIOUS
<1>6. handles' \subseteq [name : Names, isCurrent : BOOLEAN]
  BY <1>1 DEF StoreInv, TypeOK
<1>7. bare' \subseteq Names
  BY <1>1 DEF StoreInv, TypeOK
<1>8. QED
  BY <1>1, <1>2, <1>3, <1>4, <1>5, <1>6, <1>7, QuietStep

\* A step of a listing that leaves handles alone or adds a proper one.
LEMMA ListingStep ==
  ASSUME StoreInv, NEW p \in Procs, NEW r \in Calls, Step(p, r),
         proc[p].at \in {"host"} \cup Listing,
         r.at \in {"idle", "check"} \cup Listing, r.at # "idle" \/ r.op = "New" => r.name \in Names,
         r.at = "check" => r.op = "New", r.op \in {"New", "Inspect", "Host"},
         r.at = "idle" => r.op # "New" \/ r.err # "none",
         r.undone => r.op = proc[p].op /\ proc[p].undone,
         handles' \subseteq [name : Names, isCurrent : BOOLEAN],
         UNCHANGED <<files, calls, faults, ghosts>>, proc'[p] = r => Lists(p)'
  PROVE  StoreInv'
<1>1. ASSUME proc'[p] = r
      PROVE  CallInv(p)'
  <2>1. InPlace(p)' /\ Adds(p)'
    BY <1>1 DEF InPlace, Adds, Adding, Removing, Saving, Listing
  <2>2. Effect(p)'
    BY <1>1 DEF Effect, Saving, Listing
  <2>3. Uncrossed(p)'
    BY <1>1 DEF StoreInv, CallInv, Uncrossed, Listing, ghosts
  <2>4. QED
    BY <1>1, <2>1, <2>2, <2>3 DEF CallInv
<1>2. r.at \notin Adding /\ proc[p].at \notin Saving
        /\ proc[p].at \notin {"write", "open", "rmdir", "save"}
        /\ (r.at \notin {"idle", "host"} => r.name \in Names)
  BY DEF Adding, Saving, Listing
<1>3. calls' \in 0..MaxCalls
  BY DEF StoreInv, TypeOK
<1>4. UNCHANGED <<files, faults, clash, cut, stale>> /\ bare' \subseteq Names
  BY DEF ghosts, StoreInv, TypeOK
<1>5. QED
  BY <1>1, <1>2, <1>3, <1>4, QuietStep

\* CurrentDockerHost goes on to inspect the context that the config names.
LEMMA HostReadsKeeps ==
  ASSUME StoreInv, NEW p \in Procs, HostReads(p)
  PROVE  StoreInv'
<1>1. /\ proc[p] \in Calls /\ proc[p].at = "host" /\ config \in Names \cup {Default, "empty"}
      /\ handles' \subseteq [name : Names, isCurrent : BOOLEAN]
      /\ UNCHANGED <<files, calls, faults, ghosts>>
  BY DEF StoreInv, TypeOK, HostReads, At
<1>2. {"none", "fail"} \subseteq Errs
  BY DEF Errs
<1>3. proc[p].op = "Host"
  BY <1>1 DEF StoreInv, CallInv, InPlace
<1>4. CASE config = "empty" \/ config = Default
  <2>1. PICK err \in {"none", "fail"} : Step(p, Return(proc[p], err))
    BY <1>4 DEF HostReads
  <2> DEFINE r == Return(proc[p], err)
  <2>2. /\ r \in Calls /\ r.at = "idle" /\ r.err = err /\ r.op = "Host"
        /\ r.undone = proc[p].undone
    BY <1>1, <1>2, <1>3, Returning
  <2> HIDE DEF r
  <2>3. proc'[p] = r => Lists(p)'
    BY <2>2 DEF Lists, Listing
  <2>4. QED
    BY <1>1, <1>3, <2>1, <2>2, <2>3, ListingStep DEF r
<1>5. CASE config \in Names
  <2> DEFINE r == Begun("Host", config, FALSE, "list")
  <2>1. Step(p, r)
    BY <1>5, Apart DEF HostReads
  <2>2. r \in Calls /\ r.op = "Host" /\ r.name = config /\ r.at = "list"
        /\ r.err = "none" /\ ~r.undone /\ r.gap = ~Whole(config)
    <3>1. "list" \in Places /\ config \in Names \cup {Default}
      BY <1>5 DEF Places, Listing
    <3>2. QED
      BY <1>5, <3>1 DEF Begun, Calls, Errs, Whole
  <2> HIDE DEF r
  <2>3. proc'[p] = r => Lists(p)'
    BY <1>1, <2>2, Apart DEF Lists, Listing, Whole, files
  <2>4. r.at \in {"idle", "check"} \cup Listing /\ r.name \in Names
    BY <1>5, <2>2 DEF Listing
  <2>5. QED
    BY <1>1, <2>1, <2>2, <2>3, <2>4, ListingStep
<1>6. QED
  BY <1>1, <1>4, <1>5

\* The walk begins with all directories there are.
LEMMA ReadNamesKeeps ==
  ASSUME StoreInv, NEW p \in Procs, ReadNames(p)
  PROVE  StoreInv'
<1> DEFINE todo == {n \in Names : dir[n]}
           r == [Goto(proc[p], "walk") EXCEPT !.todo = todo]
<1>1. /\ proc[p] \in Calls /\ proc[p].at = "list" /\ proc[p].name \in Names
      /\ handles' \subseteq [name : Names, isCurrent : BOOLEAN]
      /\ UNCHANGED <<files, calls, faults, ghosts>> /\ Step(p, r)
  BY DEF StoreInv, TypeOK, ReadNames, At
<1>2. proc[p].op \in {"New", "Inspect", "Host"}
  BY <1>1 DEF StoreInv, CallInv, InPlace, Listing
<1>3. LET f == Goto(proc[p], "walk") IN
      /\ f \in Calls /\ f.at = "walk"
      /\ f.op = proc[p].op /\ f.name = proc[p].name /\ f.use = proc[p].use
      /\ f.linked = proc[p].linked
      /\ f.err = proc[p].err /\ f.gap = proc[p].gap /\ f.undone = proc[p].undone
  BY <1>1, GoingTo DEF Places, Listing
<1>4. /\ r \in Calls /\ r.at = "walk" /\ r.todo = todo
      /\ r.op = proc[p].op /\ r.name = proc[p].name
      /\ r.err = proc[p].err /\ r.gap = proc[p].gap /\ r.undone = proc[p].undone
  BY <1>3 DEF Calls
<1> HIDE DEF r
<1>5. ASSUME proc'[p] = r
      PROVE  Lists(p)'
  <2>1. ~r.gap => meta[r.name] \notin {"absent", "empty"}
    BY <1>1, <1>4 DEF StoreInv, CallInv, Lists, Listing
  <2>2. ~r.gap => r.name \in todo
    BY <1>1, <1>4, <2>1 DEF StoreInv, DiskInv
  <2>3. QED
    BY <1>1, <1>4, <1>5, <2>1, <2>2 DEF Lists, Listing, files
<1>6. r.at \in {"idle", "check"} \cup Listing /\ proc[p].at \in Listing
  BY <1>1, <1>4 DEF Listing
<1>7. QED
  BY <1>1, <1>2, <1>4, <1>5, <1>6, ListingStep

\* A listing that cannot go on: for the context itself, "notfound" only if it was not whole.
LEMMA FailingKeeps ==
  ASSUME StoreInv, NEW p \in Procs, NEW err \in {"notfound", "nohost", "fail"},
         proc[p].at \in Listing, Step(p, ListingFails(proc[p], err)),
         err = "notfound" => proc[p].gap \/ proc[p].op = "New",
         UNCHANGED <<files, handles, calls, faults, ghosts>>
  PROVE  StoreInv'
<1> DEFINE r == ListingFails(proc[p], err)
<1>1. /\ proc[p] \in Calls /\ proc[p].name \in Names
      /\ handles' \subseteq [name : Names, isCurrent : BOOLEAN]
  BY DEF StoreInv, TypeOK, Listing
<1>2. proc[p].op \in {"New", "Inspect", "Host"}
  BY DEF StoreInv, CallInv, InPlace
<1>3. /\ r \in Calls
      /\ r.op = proc[p].op /\ r.name = proc[p].name
      /\ r.gap = proc[p].gap /\ r.undone = proc[p].undone
      /\ \/ r.at = "check" /\ proc[p].op = "New" /\ r.err = proc[p].err
         \/ r.at = "idle" /\ proc[p].op # "New" /\ r.err = err
  BY <1>1, Failing
<1> HIDE DEF r
<1>4. proc'[p] = r => Lists(p)'
  BY <1>3 DEF Lists, Listing
<1>5. Step(p, r)
  BY DEF r
<1>6. QED
  BY <1>1, <1>2, <1>3, <1>4, <1>5, ListingStep

\* A directory is visited, or has vanished and fails the listing.
LEMMA VisitKeeps ==
  ASSUME StoreInv, NEW p \in Procs, Visit(p)
  PROVE  StoreInv'
<1>1. /\ proc[p] \in Calls /\ proc[p].at = "walk" /\ proc[p].at \in Listing
      /\ proc[p].name \in Names
      /\ handles' \subseteq [name : Names, isCurrent : BOOLEAN]
      /\ UNCHANGED <<files, handles, calls, faults, ghosts>>
  BY DEF StoreInv, TypeOK, Visit, At, Listing
<1>2. proc[p].op \in {"New", "Inspect", "Host"}
  BY <1>1 DEF StoreInv, CallInv, InPlace
<1>3. PICK n \in proc[p].todo :
        \/ Step(p, [proc[p] EXCEPT !.todo = @ \ {n},
                      !.found = IF meta[n] = "absent" THEN @ ELSE @ \cup {n}])
        \/ Step(p, ListingFails(proc[p], "fail"))
  BY DEF Visit
<1>4. CASE Step(p, ListingFails(proc[p], "fail"))
  BY <1>1, <1>4, FailingKeeps
<1>5. CASE Step(p, [proc[p] EXCEPT !.todo = @ \ {n},
                      !.found = IF meta[n] = "absent" THEN @ ELSE @ \cup {n}])
  <2> DEFINE found == IF meta[n] = "absent" THEN proc[p].found ELSE proc[p].found \cup {n}
             r == [proc[p] EXCEPT !.todo = proc[p].todo \ {n}, !.found = found]
  <2>1. Step(p, r)
    BY <1>1, <1>5
  <2>2. n \in Names /\ found \in SUBSET Names
    BY <1>1 DEF Calls
  <2> HIDE DEF found
  <2>3. /\ r \in Calls /\ r.at = "walk" /\ r.todo = proc[p].todo \ {n} /\ r.found = found
        /\ r.op = proc[p].op /\ r.name = proc[p].name /\ r.err = proc[p].err
        /\ r.gap = proc[p].gap /\ r.undone = proc[p].undone
    BY <1>1, <2>2 DEF Calls
  <2> HIDE DEF r
  <2>4. ASSUME proc'[p] = r
        PROVE  Lists(p)'
    BY <1>1, <2>3, <2>4 DEF StoreInv, CallInv, Lists, Listing, files, found
  <2>5. r.at \in {"idle", "check"} \cup Listing
    BY <2>3 DEF Listing
  <2>6. QED
    BY <1>1, <1>2, <2>1, <2>3, <2>4, <2>5, ListingStep
<1>6. QED
  BY <1>3, <1>4, <1>5

\* What the walk has found is then read.
LEMMA WalkDoneKeeps ==
  ASSUME StoreInv, NEW p \in Procs, WalkDone(p)
  PROVE  StoreInv'
<1> DEFINE r == [proc[p] EXCEPT !.at = "read", !.todo = proc[p].found, !.found = {}]
<1>1. /\ proc[p] \in Calls /\ proc[p].at = "walk" /\ proc[p].todo = {} /\ proc[p].name \in Names
      /\ handles' \subseteq [name : Names, isCurrent : BOOLEAN]
      /\ UNCHANGED <<files, calls, faults, ghosts>> /\ Step(p, r)
  BY DEF StoreInv, TypeOK, WalkDone, At
<1>2. proc[p].op \in {"New", "Inspect", "Host"}
  BY <1>1 DEF StoreInv, CallInv, InPlace, Listing
<1>3. "read" \in Places
  BY DEF Places, Listing
<1>4. /\ r \in Calls /\ r.at = "read" /\ r.todo = proc[p].found
      /\ r.op = proc[p].op /\ r.name = proc[p].name /\ r.err = proc[p].err
      /\ r.gap = proc[p].gap /\ r.undone = proc[p].undone
  BY <1>1, <1>3 DEF Calls
<1> HIDE DEF r
<1>5. ASSUME proc'[p] = r
      PROVE  Lists(p)'
  BY <1>1, <1>4, <1>5 DEF StoreInv, CallInv, Lists, Listing, files
<1>6. r.at \in {"idle", "check"} \cup Listing /\ proc[p].at \in Listing
  BY <1>1, <1>4 DEF Listing
<1>7. QED
  BY <1>1, <1>2, <1>4, <1>5, <1>6, ListingStep

\* A file that is gone is skipped; the caller's own context is found if it was there all along.
LEMMA ReadKeeps ==
  ASSUME StoreInv, NEW p \in Procs, Read(p)
  PROVE  StoreInv'
<1>1. /\ proc[p] \in Calls /\ proc[p].at = "read" /\ proc[p].at \in Listing
      /\ proc[p].name \in Names
      /\ handles' \subseteq [name : Names, isCurrent : BOOLEAN]
      /\ UNCHANGED <<files, handles, calls, faults, ghosts>>
  BY DEF StoreInv, TypeOK, Read, At, Listing
<1>2. proc[p].op \in {"New", "Inspect", "Host"}
  BY <1>1 DEF StoreInv, CallInv, InPlace
<1>3. PICK n \in proc[p].todo :
        Step(p, IF meta[n] \in {"empty", "torn"} THEN ListingFails(proc[p], "fail")
                ELSE [proc[p] EXCEPT !.todo = @ \ {n},
                        !.found = IF Whole(n) THEN @ \cup {n} ELSE @,
                        !.unset = @ \/ (n = proc[p].name /\ Whole(n) /\ ~host[n])])
  BY DEF Read
<1>4. CASE meta[n] \in {"empty", "torn"}
  BY <1>1, <1>3, <1>4, FailingKeeps
<1>5. CASE meta[n] \notin {"empty", "torn"}
  <2> DEFINE found == IF Whole(n) THEN proc[p].found \cup {n} ELSE proc[p].found
             unset == proc[p].unset \/ (n = proc[p].name /\ Whole(n) /\ ~host[n])
             r == [proc[p] EXCEPT !.todo = proc[p].todo \ {n}, !.found = found, !.unset = unset]
  <2>1. Step(p, r)
    BY <1>1, <1>3, <1>5
  <2>2. n \in Names /\ found \in SUBSET Names
    BY <1>1 DEF Calls
  <2>3. meta[n] # "absent" => found = proc[p].found \cup {n}
    BY <1>5, Apart DEF Whole
  <2>4. proc[p].found \subseteq found /\ unset \in BOOLEAN
    BY <1>1 DEF Calls
  <2> HIDE DEF found, unset
  <2>5. /\ r \in Calls /\ r.at = "read" /\ r.todo = proc[p].todo \ {n} /\ r.found = found
        /\ r.op = proc[p].op /\ r.name = proc[p].name /\ r.err = proc[p].err
        /\ r.gap = proc[p].gap /\ r.undone = proc[p].undone
    BY <1>1, <2>2, <2>4 DEF Calls
  <2> HIDE DEF r
  <2>6. ASSUME proc'[p] = r
        PROVE  Lists(p)'
    BY <1>1, <2>3, <2>4, <2>5, <2>6 DEF StoreInv, CallInv, Lists, Listing, files
  <2>7. r.at \in {"idle", "check"} \cup Listing
    BY <2>5 DEF Listing
  <2>8. QED
    BY <1>1, <1>2, <2>1, <2>5, <2>6, <2>7, ListingStep
<1>6. QED
  BY <1>4, <1>5

\* A context that was there all along is among those found.
LEMMA ReadDoneKeeps ==
  ASSUME StoreInv, NEW p \in Procs, ReadDone(p)
  PROVE  StoreInv'
<1>1. /\ proc[p] \in Calls /\ proc[p].at = "read" /\ proc[p].todo = {}
      /\ proc[p].at \in Listing /\ proc[p].name \in Names
      /\ handles' \subseteq [name : Names, isCurrent : BOOLEAN]
      /\ UNCHANGED <<files, handles, calls, faults, ghosts>>
  BY DEF StoreInv, TypeOK, ReadDone, At, Listing
<1>2. /\ proc[p].op \in {"New", "Inspect", "Host"}
      /\ ~proc[p].gap => proc[p].name \in proc[p].found
  BY <1>1 DEF StoreInv, CallInv, InPlace, Lists
<1>3. CASE proc[p].name \notin proc[p].found
  <2>1. Step(p, ListingFails(proc[p], "notfound"))
    BY <1>3 DEF ReadDone
  <2>2. QED
    BY <1>1, <1>2, <1>3, <2>1, FailingKeeps
<1>4. CASE proc[p].name \in proc[p].found /\ proc[p].unset
  <2>1. Step(p, ListingFails(proc[p], "nohost"))
    BY <1>4 DEF ReadDone
  <2>2. QED
    BY <1>1, <2>1, FailingKeeps
<1>5. CASE proc[p].name \in proc[p].found /\ ~proc[p].unset
  <2> DEFINE r == Goto(proc[p], "mark")
  <2>1. Step(p, r)
    BY <1>5 DEF ReadDone
  <2>2. "mark" \in Places /\ "mark" \in Listing
    BY DEF Places, Listing
  <2>3. /\ r \in Calls /\ r.at = "mark"
        /\ r.op = proc[p].op /\ r.name = proc[p].name /\ r.undone = proc[p].undone
    BY <1>1, <2>2, GoingTo
  <2> HIDE DEF r
  <2>4. proc'[p] = r => Lists(p)'
    BY <2>3 DEF Lists
  <2>5. QED
    BY <1>1, <1>2, <2>1, <2>2, <2>3, <2>4, ListingStep
<1>6. QED
  BY <1>3, <1>4, <1>5

\* The handle gets the flag that the config gives it at this moment.
LEMMA MarkCurrentKeeps ==
  ASSUME StoreInv, NEW p \in Procs, MarkCurrent(p)
  PROVE  StoreInv'
<1>1. /\ proc[p] \in Calls /\ proc[p].at = "mark" /\ proc[p].at \in Listing
      /\ proc[p].name \in Names
      /\ handles \subseteq [name : Names, isCurrent : BOOLEAN]
      /\ UNCHANGED <<files, calls, faults, ghosts>>
  BY DEF StoreInv, TypeOK, MarkCurrent, At, Listing
<1>2. proc[p].op \in {"New", "Inspect", "Host"}
  BY <1>1 DEF StoreInv, CallInv, InPlace
<1>3. CASE config = "empty"
  <2>1. Step(p, ListingFails(proc[p], "fail")) /\ UNCHANGED handles
    BY <1>3 DEF MarkCurrent
  <2>2. QED
    BY <1>1, <2>1, FailingKeeps
<1>4. CASE config # "empty"
  <2> DEFINE err == IF proc[p].op = "New" THEN "exists" ELSE "none"
             r == Return(proc[p], err)
  <2>1. Step(p, r)
    BY <1>4 DEF MarkCurrent
  <2>2. handles' \subseteq [name : Names, isCurrent : BOOLEAN]
    <3>1. [name |-> proc[p].name, isCurrent |-> config = proc[p].name]
            \in [name : Names, isCurrent : BOOLEAN]
      BY <1>1
    <3>2. QED
      BY <1>1, <1>4, <3>1 DEF MarkCurrent
  <2>3. err \in Errs /\ err # "notfound" /\ (proc[p].op = "New" => err # "none")
    BY DEF Errs
  <2> HIDE DEF err
  <2>4. /\ r \in Calls /\ r.at = "idle" /\ r.err = err
        /\ r.op = proc[p].op /\ r.name = proc[p].name /\ r.undone = proc[p].undone
    BY <1>1, <2>3, Returning
  <2> HIDE DEF r
  <2>5. proc'[p] = r => Lists(p)'
    BY <2>3, <2>4 DEF Lists, Listing
  <2>6. QED
    BY <1>1, <1>2, <2>1, <2>2, <2>3, <2>4, <2>5, ListingStep
<1>5. QED
  BY <1>3, <1>4

-----------------------------------------------------------------------------
(* Steps that change files.                                                *)

\* A step that the other calls on the context take note of.
LEMMA Seeing ==
  ASSUME TypeOK, NEW p \in Procs, NEW r \in Calls,
         r.at \notin {"idle", "host"} => r.name \in Names,
         NEW seen, StepSeen(p, r, seen),
         \A q \in Procs : seen[q] \in Calls /\ seen[q].at = proc[q].at /\ seen[q].name = proc[q].name
  PROVE  /\ proc' \in [Procs -> Calls] /\ proc'[p] = r
         /\ \A q \in Procs \ {p} :
              proc'[q] = IF proc[q].name = proc[p].name THEN seen[q] ELSE proc[q]
         /\ \A q \in Procs : proc'[q].at \notin {"idle", "host"} => proc'[q].name \in Names
BY DEF TypeOK, StepSeen

\* A New checks that there is no directory; another one that did so at the same time clashes.
LEMMA CheckKeeps ==
  ASSUME StoreInv, NEW p \in Procs, Check(p)
  PROVE  StoreInv'
<1>1. /\ proc[p] \in Calls /\ proc[p].at = "check" /\ proc[p].name \in Names
      /\ proc[p].op = "New"
      /\ UNCHANGED <<files, handles, calls, faults, cut, bare, stale>>
      /\ handles' \subseteq [name : Names, isCurrent : BOOLEAN] /\ calls' \in 0..MaxCalls
  BY DEF StoreInv, TypeOK, Check, At, CallInv, InPlace
<1>2. CASE dir[proc[p].name] /\ Step(p, Return(proc[p], "exists")) /\ clash' = clash
  <2> DEFINE r == Return(proc[p], "exists")
  <2>1. "exists" \in Errs
    BY DEF Errs
  <2>2. /\ r \in Calls /\ r.at = "idle" /\ r.err = "exists" /\ r.op = "New"
        /\ r.name = proc[p].name
    BY <1>1, <2>1, Returning
  <2> HIDE DEF r
  <2>3. proc'[p] = r => CallInv(p)'
    BY <1>1, <2>2
       DEF CallInv, InPlace, Adds, Effect, Lists, Uncrossed, Listing, Adding, Removing, Saving
  <2>4. /\ UNCHANGED <<files, faults, clash, cut, stale>> /\ Step(p, r) /\ r.at \notin Adding
        /\ bare' \subseteq Names
    BY <1>1, <1>2, <2>2 DEF r, Adding, StoreInv, TypeOK
  <2>5. proc[p].at \notin Saving /\ proc[p].at \notin {"write", "open", "rmdir", "save"}
    BY <1>1 DEF Saving
  <2>6. QED
    BY <1>1, <2>2, <2>3, <2>4, <2>5, QuietStep
<1>3. CASE ~dir[proc[p].name]
  <2> DEFINE r == Goto(proc[p], "mkdir")
             c == proc[p].name
  <2>1. Step(p, r) /\ clash' = IF OtherAdds(p, c) THEN clash \cup {c} ELSE clash
    BY <1>3 DEF Check
  <2>2. /\ r \in Calls /\ r.at = "mkdir" /\ r.op = "New" /\ r.name = c
        /\ r.undone = proc[p].undone
    BY <1>1, GoingTo DEF Places, Adding
  <2> HIDE DEF r
  <2>3. /\ proc' \in [Procs -> Calls] /\ proc'[p] = r
        /\ \A q \in Procs \ {p} : proc'[q] = proc[q]
        /\ \A q \in Procs : proc'[q].at \notin {"idle", "host"} => proc'[q].name \in Names
    BY <1>1, <2>1, <2>2, Stepping DEF StoreInv
  <2>4. clash' \subseteq Names /\ clash \subseteq clash' /\ UNCHANGED <<dir, meta, host, config>>
    BY <1>1, <2>1 DEF StoreInv, TypeOK, files
  <2>5. TypeOK'
    BY <1>1, <2>3, <2>4 DEF StoreInv, TypeOK
  <2>6. DiskInv'
    BY <2>4 DEF StoreInv, DiskInv
  <2>7. CallInv(p)'
    <3>1. meta[c] = "absent"
      BY <1>1, <1>3 DEF StoreInv, DiskInv
    <3>2. InPlace(p)' /\ Effect(p)' /\ Lists(p)'
      BY <2>2, <2>3 DEF InPlace, Effect, Lists, Listing, Adding, Removing, Saving
    <3>3. Adds(p)'
      BY <2>2, <2>3, <2>4, <3>1 DEF Adds
    <3>4. Uncrossed(p)'
      BY <1>1, <2>2, <2>3 DEF StoreInv, CallInv, Uncrossed
    <3>5. QED
      BY <3>2, <3>3, <3>4 DEF CallInv
  <2>8. ASSUME NEW q \in Procs \ {p}
        PROVE  CallInv(q)'
    BY <1>1, <2>3, <2>4, OthersStay DEF StoreInv
  <2>9. ASSUME NEW q \in Procs, NEW o \in Procs
        PROVE  AddsAlone(q, o)'
    <3>1. CASE q # p /\ o # p
      BY <2>3, <2>4, <3>1 DEF StoreInv, AddsAlone
    <3>2. CASE q = p \/ o = p
      BY <2>1, <2>2, <2>3, <3>2 DEF AddsAlone, OtherAdds
    <3>3. QED
      BY <3>1, <3>2
  <2>10. HalfDone'
    <3>1. ASSUME NEW q \in Procs
          PROVE  /\ proc[q].at = "save" => proc'[q].at = "save"
                 /\ \A n \in Names : Writing(q, n) => Writing(q, n)'
                 /\ proc[q].at \in {"open", "rmdir"} =>
                      proc'[q].at = proc[q].at /\ proc'[q].name = proc[q].name
                 /\ config \in Names /\ Resetting(q, config) => Resetting(q, config)'
      <4>1. CASE q = p
        BY <1>1, <4>1 DEF Writing, Resetting
      <4>2. CASE q # p
        BY <2>3, <2>4, <4>2 DEF Writing, Resetting
      <4>3. QED
        BY <4>1, <4>2
    <3>2. QED
      BY <1>1, <2>4, <3>1, HalfDoneStays DEF StoreInv
  <2>11. QED
    BY <2>5, <2>6, <2>7, <2>8, <2>9, <2>10 DEF StoreInv
<1>4. QED
  BY <1>2, <1>3 DEF Check

\* The directory is made: a Delete of it that had returned is undone.
LEMMA MkdirKeeps ==
  ASSUME StoreInv, NEW p \in Procs, Mkdir(p)
  PROVE  StoreInv'
<1> DEFINE c == proc[p].name
           r == Goto(proc[p], "open")
           seen == [q \in Procs |-> [proc[q] EXCEPT !.undone = @ \/ proc[q].op = "Delete"]]
<1>1. /\ proc[p] \in Calls /\ proc[p].at = "mkdir" /\ c \in Names /\ proc[p].op = "New"
      /\ dir' = [dir EXCEPT ![c] = TRUE] /\ dir \in [Names -> BOOLEAN]
      /\ StepSeen(p, r, seen)
      /\ UNCHANGED <<meta, host, config, handles, calls, faults, clash, cut, bare, stale>>
  BY DEF StoreInv, TypeOK, Mkdir, At, CallInv, InPlace, Adding, ghosts
<1>2. /\ r \in Calls /\ r.at = "open" /\ r.op = "New" /\ r.name = c
      /\ r.undone = proc[p].undone
  BY <1>1, GoingTo DEF Places, Adding
<1>3. \A q \in Procs :
        /\ seen[q] \in Calls /\ seen[q].at = proc[q].at /\ seen[q].name = proc[q].name
        /\ seen[q].op = proc[q].op /\ seen[q].use = proc[q].use /\ seen[q].err = proc[q].err
        /\ seen[q].todo = proc[q].todo /\ seen[q].found = proc[q].found
        /\ seen[q].linked = proc[q].linked /\ seen[q].gap = proc[q].gap
        /\ proc[q].op = "Delete" => seen[q].undone
        /\ proc[q].op # "Delete" => seen[q].undone = proc[q].undone
  BY ZenonT(40) DEF StoreInv, TypeOK, Calls
<1> HIDE DEF r, seen
<1>4. /\ proc' \in [Procs -> Calls] /\ proc'[p] = r
      /\ \A q \in Procs \ {p} : proc'[q] = IF proc[q].name = c THEN seen[q] ELSE proc[q]
      /\ \A q \in Procs : proc'[q].at \notin {"idle", "host"} => proc'[q].name \in Names
  BY <1>1, <1>2, <1>3, Seeing DEF StoreInv
<1>5. TypeOK'
  BY <1>1, <1>4 DEF StoreInv, TypeOK
<1>6. DiskInv'
  BY <1>1 DEF StoreInv, DiskInv
<1>7. CallInv(p)'
  <2>1. InPlace(p)' /\ Effect(p)' /\ Lists(p)'
    BY <1>2, <1>4 DEF InPlace, Effect, Lists, Listing, Adding, Removing, Saving
  <2>2. Adds(p)'
    BY <1>1, <1>2, <1>4 DEF StoreInv, CallInv, Adds, Adding
  <2>3. Uncrossed(p)'
    BY <1>1, <1>2, <1>4 DEF StoreInv, CallInv, Uncrossed
  <2>4. QED
    BY <2>1, <2>2, <2>3 DEF CallInv
<1>8. ASSUME NEW q \in Procs \ {p}
      PROVE  CallInv(q)'
  <2>1. CASE proc[q].name # c
    <3>1. dir'[proc[q].name] = dir[proc[q].name]
      BY <1>1, <2>1
    <3>2. QED
      BY <1>1, <1>4, <2>1, <3>1, OthersStay DEF StoreInv
  <2>2. CASE proc[q].name = c
    <3>1. proc'[q] = seen[q]
      BY <1>4, <2>2
    <3>2. InPlace(q)' /\ Lists(q)' /\ Uncrossed(q)'
      BY <1>1, <1>3, <3>1 DEF StoreInv, CallInv, InPlace, Lists, Uncrossed
    <3>3. Adds(q)'
      BY <1>1, <1>3, <3>1 DEF StoreInv, CallInv, InPlace, Adds, Adding
    <3>4. Effect(q)'
      BY <1>1, <1>3, <3>1 DEF StoreInv, CallInv, Effect
    <3>5. QED
      BY <3>2, <3>3, <3>4 DEF CallInv
  <2>3. QED
    BY <2>1, <2>2
<1>9. ASSUME NEW q \in Procs, NEW o \in Procs
      PROVE  AddsAlone(q, o)'
  <2>1. \A h \in Procs : proc'[h].at \in Adding =>
          proc[h].at \in Adding /\ proc'[h].name = proc[h].name
    BY <1>1, <1>2, <1>3, <1>4 DEF Adding
  <2>2. QED
    BY <1>1, <1>4, <2>1 DEF StoreInv, AddsAlone
<1>10. HalfDone'
  <2>1. \A q \in Procs \ {p} :
          /\ proc'[q].at = proc[q].at /\ proc'[q].name = proc[q].name
          /\ proc'[q].op = proc[q].op /\ proc'[q].use = proc[q].use
          /\ proc'[q].linked = proc[q].linked
    BY <1>3, <1>4
  <2>2. ASSUME config = "empty", cut = {}
        PROVE  \E q \in Procs : proc'[q].at = "save"
    BY <1>1, <2>1, <2>2 DEF StoreInv, HalfDone
  <2>3. ASSUME NEW n \in Names \ cut, meta[n] = "empty"
        PROVE  \E q \in Procs : Writing(q, n)'
    BY <1>1, <2>1, <2>3 DEF StoreInv, HalfDone, Writing
  <2>4. ASSUME NEW n \in Names \ (clash \cup cut), dir'[n], meta[n] = "absent"
        PROVE  \E q \in Procs : proc'[q].at \in {"open", "rmdir"} /\ proc'[q].name = n
    <3>1. CASE n = c
      BY <1>2, <1>4, <3>1
    <3>2. CASE n # c
      <4>1. PICK q \in Procs : proc[q].at \in {"open", "rmdir"} /\ proc[q].name = n
        BY <1>1, <2>4, <3>2 DEF StoreInv, HalfDone
      <4>2. QED
        BY <1>1, <2>1, <4>1
    <3>3. QED
      BY <3>1, <3>2
  <2>5. ASSUME faults = 0, ~stale, config \in Names \ clash, ~Whole(config)
        PROVE  \E q \in Procs : Writing(q, config)' \/ Resetting(q, config)'
    <3>1. PICK q \in Procs : Writing(q, config) \/ Resetting(q, config)
      BY <2>5 DEF StoreInv, HalfDone
    <3>2. q # p
      BY <1>1, <3>1 DEF Writing, Resetting
    <3>3. QED
      BY <1>1, <2>1, <3>1, <3>2 DEF Writing, Resetting
  <2>6. QED
    BY <1>1, CutIsFault, <2>2, <2>3, <2>4, <2>5 DEF HalfDone, Whole
<1>11. QED
  BY <1>5, <1>6, <1>7, <1>8, <1>9, <1>10 DEF StoreInv

\* The file is created or truncated, unless the directory has been removed meanwhile.
LEMMA OpenKeeps ==
  ASSUME StoreInv, NEW p \in Procs, Open(p)
  PROVE  StoreInv'
<1> DEFINE c == proc[p].name
<1>1. /\ proc[p] \in Calls /\ proc[p].at = "open" /\ c \in Names /\ proc[p].op = "New"
      /\ c \notin clash => meta[c] = "absent"
      /\ meta \in [Names -> NotWhole \cup Procs]
      /\ UNCHANGED <<dir, host, config, handles, calls, faults, clash, cut, bare, stale>>
  BY DEF StoreInv, TypeOK, Open, At, CallInv, InPlace, Adds, Adding, ghosts
<1>2. CASE ~dir[c]
  <2> DEFINE r == Return(proc[p], "fail")
  <2>1. Step(p, r) /\ meta' = meta
    BY <1>2 DEF Open
  <2>2. "fail" \in Errs
    BY DEF Errs
  <2>3. r \in Calls /\ r.at = "idle" /\ r.err = "fail" /\ r.name = c
    BY <1>1, <2>2, Returning
  <2> HIDE DEF r
  <2>4. /\ proc' \in [Procs -> Calls] /\ proc'[p] = r
        /\ \A q \in Procs \ {p} : proc'[q] = proc[q]
        /\ \A q \in Procs : proc'[q].at \notin {"idle", "host"} => proc'[q].name \in Names
    BY <2>1, <2>3, Stepping DEF StoreInv
  <2>5. TypeOK'
    BY <1>1, <2>1, <2>4 DEF StoreInv, TypeOK
  <2>6. DiskInv'
    BY <1>1, <2>1 DEF StoreInv, DiskInv
  <2>7. CallInv(p)'
    BY <1>1, <2>3, <2>4
       DEF CallInv, InPlace, Adds, Effect, Lists, Uncrossed, Listing, Adding, Removing, Saving
  <2>8. ASSUME NEW q \in Procs \ {p}
        PROVE  CallInv(q)'
    BY <1>1, <2>1, <2>4, OthersStay DEF StoreInv
  <2>9. ASSUME NEW q \in Procs, NEW o \in Procs
        PROVE  AddsAlone(q, o)'
    BY <1>1, <2>3, <2>4 DEF StoreInv, AddsAlone, Adding
  <2>10. HalfDone'
    <3>1. ASSUME config = "empty", cut = {}
          PROVE  \E q \in Procs : proc'[q].at = "save"
      BY <1>1, <2>4, <3>1 DEF StoreInv, HalfDone
    <3>2. ASSUME NEW n \in Names \ cut, meta[n] = "empty"
          PROVE  \E q \in Procs : Writing(q, n)'
      BY <1>1, <2>4, <3>2 DEF StoreInv, HalfDone, Writing
    <3>3. ASSUME NEW n \in Names \ (clash \cup cut), dir[n], meta[n] = "absent"
          PROVE  \E q \in Procs : proc'[q].at \in {"open", "rmdir"} /\ proc'[q].name = n
      <4>1. PICK q \in Procs : proc[q].at \in {"open", "rmdir"} /\ proc[q].name = n
        BY <3>3 DEF StoreInv, HalfDone
      <4>2. q # p
        BY <1>2, <3>3, <4>1
      <4>3. QED
        BY <2>4, <4>1, <4>2
    <3>4. ASSUME faults = 0, ~stale, config \in Names \ clash, ~Whole(config)
          PROVE  \E q \in Procs : Writing(q, config)' \/ Resetting(q, config)'
      <4>1. PICK q \in Procs : Writing(q, config) \/ Resetting(q, config)
        BY <3>4 DEF StoreInv, HalfDone
      <4>2. q # p
        BY <1>1, <4>1 DEF Writing, Resetting, Saving
      <4>3. QED
        BY <1>1, <2>4, <4>1, <4>2 DEF Writing, Resetting
    <3>5. QED
      BY <1>1, CutIsFault, <2>1, <3>1, <3>2, <3>3, <3>4 DEF HalfDone, Whole
  <2>11. QED
    BY <2>5, <2>6, <2>7, <2>8, <2>9, <2>10 DEF StoreInv
<1>3. CASE dir[c]
  <2> DEFINE r == [Goto(proc[p], "write") EXCEPT !.linked = TRUE]
             seen == [q \in Procs |-> [proc[q] EXCEPT !.gap = TRUE]]
  <2>1. meta' = [meta EXCEPT ![c] = "empty"] /\ StepSeen(p, r, seen)
    BY <1>3 DEF Open
  <2>2. /\ r \in Calls /\ r.at = "write" /\ r.linked /\ r.op = "New" /\ r.name = c
        /\ r.undone = proc[p].undone
    <3>1. LET f == Goto(proc[p], "write") IN
          /\ f \in Calls /\ f.at = "write"
          /\ f.op = "New" /\ f.name = c /\ f.undone = proc[p].undone
      BY <1>1, GoingTo DEF Places, Adding
    <3>2. QED
      BY <3>1 DEF Calls
  <2>3. \A q \in Procs :
          /\ seen[q] \in Calls /\ seen[q].at = proc[q].at /\ seen[q].name = proc[q].name
          /\ seen[q].op = proc[q].op /\ seen[q].use = proc[q].use /\ seen[q].err = proc[q].err
          /\ seen[q].todo = proc[q].todo /\ seen[q].found = proc[q].found
          /\ seen[q].linked = proc[q].linked /\ seen[q].gap
          /\ seen[q].undone = proc[q].undone
    <3>1. \A q \in Procs : proc[q] \in Calls
      BY DEF StoreInv, TypeOK
    <3>2. ASSUME NEW c1 \in Calls
          PROVE  LET s == [c1 EXCEPT !.gap = TRUE] IN
                 /\ s \in Calls /\ s.at = c1.at /\ s.name = c1.name /\ s.op = c1.op
                 /\ s.use = c1.use /\ s.err = c1.err /\ s.todo = c1.todo
                 /\ s.found = c1.found /\ s.linked = c1.linked /\ s.gap
                 /\ s.undone = c1.undone
      BY DEF Calls
    <3>3. QED
      BY <3>1, <3>2
  <2> HIDE DEF r, seen
  <2>4. /\ proc' \in [Procs -> Calls] /\ proc'[p] = r
        /\ \A q \in Procs \ {p} : proc'[q] = IF proc[q].name = c THEN seen[q] ELSE proc[q]
        /\ \A q \in Procs : proc'[q].at \notin {"idle", "host"} => proc'[q].name \in Names
    BY <1>1, <2>1, <2>2, <2>3, Seeing DEF StoreInv
  <2>5. meta'[c] = "empty" /\ \A n \in Names \ {c} : meta'[n] = meta[n]
    BY <1>1, <2>1
  <2>6. TypeOK'
    <3>1. meta' \in [Names -> NotWhole \cup Procs]
      BY <1>1, <2>1, Apart
    <3>2. QED
      BY <1>1, <2>4, <3>1 DEF StoreInv, TypeOK
  <2>7. DiskInv'
    BY <1>1, <1>3, <2>5 DEF StoreInv, DiskInv
  <2>8. CallInv(p)'
    <3>1. InPlace(p)' /\ Effect(p)' /\ Lists(p)'
      BY <2>2, <2>4 DEF InPlace, Effect, Lists, Listing, Adding, Removing, Saving
    <3>2. Adds(p)'
      BY <2>2, <2>4, <2>5 DEF Adds
    <3>3. Uncrossed(p)'
      BY <1>1, <2>2, <2>4 DEF StoreInv, CallInv, Uncrossed
    <3>4. QED
      BY <3>1, <3>2, <3>3 DEF CallInv
  <2>9. ASSUME NEW q \in Procs \ {p}
        PROVE  CallInv(q)'
    <3>1. CASE proc[q].name # c
      <4>1. proc[q].name \in Names => meta'[proc[q].name] = meta[proc[q].name]
        BY <2>5, <3>1
      <4>2. meta'[proc[q].name] = meta[proc[q].name]
        BY <2>1, <3>1, <4>1, <1>1
      <4>3. QED
        BY <1>1, <2>4, <3>1, <4>2, OthersStay DEF StoreInv
    <3>2. CASE proc[q].name = c
      <4>1. proc'[q] = seen[q]
        BY <2>4, <3>2
      <4>2. InPlace(q)' /\ Lists(q)' /\ Uncrossed(q)'
        BY <1>1, <2>3, <4>1 DEF StoreInv, CallInv, InPlace, Lists, Uncrossed
      <4>3. Adds(q)'
        <5>1. proc[q].at \in Adding => c \in clash
          BY <1>1, <3>2 DEF StoreInv, AddsAlone, Adding
        <5>2. QED
          BY <1>1, <2>3, <2>5, <3>2, <4>1, <5>1 DEF StoreInv, CallInv, Adds
      <4>4. Effect(q)'
        <5>1. q # "absent"
          BY Apart
        <5>2. QED
          BY <1>1, <2>3, <3>2, <4>1, <5>1 DEF StoreInv, CallInv, Effect
      <4>5. QED
        BY <4>2, <4>3, <4>4 DEF CallInv
    <3>3. QED
      BY <3>1, <3>2
  <2>10. ASSUME NEW q \in Procs, NEW o \in Procs
         PROVE  AddsAlone(q, o)'
    <3>1. \A h \in Procs : proc'[h].at \in Adding =>
            proc[h].at \in Adding /\ proc'[h].name = proc[h].name
      BY <1>1, <2>2, <2>3, <2>4 DEF Adding
    <3>2. QED
      BY <1>1, <2>4, <3>1 DEF StoreInv, AddsAlone
  <2>11. HalfDone'
    <3>1. \A q \in Procs \ {p} :
            /\ proc'[q].at = proc[q].at /\ proc'[q].name = proc[q].name
            /\ proc'[q].op = proc[q].op /\ proc'[q].use = proc[q].use
            /\ proc'[q].linked = proc[q].linked
      BY <2>3, <2>4
    <3>2. Writing(p, c)'
      BY <2>2, <2>4 DEF Writing
    <3>3. ASSUME config = "empty", cut = {}
          PROVE  \E q \in Procs : proc'[q].at = "save"
      BY <1>1, <3>1, <3>3 DEF StoreInv, HalfDone
    <3>4. ASSUME NEW n \in Names \ cut, meta'[n] = "empty", n # c
          PROVE  \E q \in Procs : Writing(q, n)'
      <4>1. PICK q \in Procs : Writing(q, n)
        BY <2>5, <3>4 DEF StoreInv, HalfDone
      <4>2. QED
        BY <1>1, <3>1, <4>1 DEF Writing
    <3>5. ASSUME NEW n \in Names \ (clash \cup cut), dir[n], meta'[n] = "absent"
          PROVE  \E q \in Procs : proc'[q].at \in {"open", "rmdir"} /\ proc'[q].name = n
      <4>1. n # c
        BY <2>5, <3>5
      <4>2. PICK q \in Procs : proc[q].at \in {"open", "rmdir"} /\ proc[q].name = n
        BY <2>5, <3>5, <4>1 DEF StoreInv, HalfDone
      <4>3. QED
        BY <3>1, <4>1, <4>2
    <3>6. ASSUME faults = 0, ~stale, config \in Names \ clash, config # c, ~Whole(config)
          PROVE  \E q \in Procs : Writing(q, config)' \/ Resetting(q, config)'
      <4>1. PICK q \in Procs : Writing(q, config) \/ Resetting(q, config)
        BY <3>6 DEF StoreInv, HalfDone
      <4>2. q # p
        BY <1>1, <4>1 DEF Writing, Resetting, Saving
      <4>3. QED
        BY <1>1, <3>1, <4>1, <4>2 DEF Writing, Resetting
    <3>7. config \in Names /\ config # c => (Whole(config) <=> Whole(config)')
      BY <1>1, <2>5 DEF Whole
    <3>8. ASSUME faults = 0, ~stale, config \in Names \ clash, ~Whole(config)'
          PROVE  \E q \in Procs : Writing(q, config)' \/ Resetting(q, config)'
      <4>1. CASE config = c
        BY <1>1, <2>2, <2>4, <4>1 DEF Writing
      <4>2. CASE config # c
        BY <3>6, <3>7, <3>8, <4>2
      <4>3. QED
        BY <4>1, <4>2
    <3>9. ASSUME NEW n \in Names \ cut, meta'[n] = "empty"
          PROVE  \E q \in Procs : Writing(q, n)'
      BY <2>2, <2>4, <3>4, <3>9 DEF Writing
    <3>10. QED
      BY <1>1, CutIsFault, <3>3, <3>5, <3>8, <3>9 DEF HalfDone
  <2>12. QED
    BY <2>6, <2>7, <2>8, <2>9, <2>10, <2>11 DEF StoreInv
<1>4. QED
  BY <1>2, <1>3

\* The file is written, if it is still linked: a file of one New only is whole then, and torn
\* only if two have clashed.
LEMMA WriteKeeps ==
  ASSUME StoreInv, NEW p \in Procs, Write(p)
  PROVE  StoreInv'
<1> DEFINE c == proc[p].name
<1>1. /\ proc[p] \in Calls /\ proc[p].at = "write" /\ c \in Names /\ proc[p].op = "New"
      /\ meta \in [Names -> NotWhole \cup Procs]
      /\ handles \subseteq [name : Names, isCurrent : BOOLEAN]
      /\ UNCHANGED <<dir, config, calls, faults, clash, cut, bare, stale>>
  BY DEF StoreInv, TypeOK, Write, At, CallInv, InPlace, Adding, ghosts
<1>2. /\ c \notin clash => meta[c] = IF proc[p].linked THEN "empty" ELSE "absent"
      /\ proc[p].linked \/ proc[p].undone
      /\ proc[p].linked => meta[c] # "absent"
  BY <1>1 DEF StoreInv, CallInv, Adds, Adding
<1>3. PICK content \in {p, "torn"} :
        /\ meta[c] = "empty" => content = p
        /\ meta' = IF proc[p].linked THEN [meta EXCEPT ![c] = content] ELSE meta
  BY DEF Write
<1>4. /\ \A n \in Names \ {c} : meta'[n] = meta[n]
      /\ proc[p].linked => meta'[c] = content
      /\ ~proc[p].linked => meta'[c] = meta[c]
  BY <1>1, <1>3
<1>5. proc[p].linked /\ c \notin clash => meta'[c] = p
  BY <1>2, <1>3, <1>4
<1>6. content \notin {"absent", "empty"}
  BY Apart
<1>7. PICK r \in Calls :
        /\ Step(p, r) /\ r.op = "New" /\ r.name = c /\ r.undone = proc[p].undone
        /\ r.at = "load" \/ (r.at = "idle" /\ r.err = "none")
  <2>1. CASE proc[p].use
    <3>1. Step(p, Goto(proc[p], "load"))
      BY <2>1 DEF Write
    <3>2. LET f == Goto(proc[p], "load") IN
          f \in Calls /\ f.at = "load" /\ f.op = "New" /\ f.name = c /\ f.undone = proc[p].undone
      BY <1>1, GoingTo DEF Places, Saving
    <3>3. QED
      BY <3>1, <3>2
  <2>2. CASE ~proc[p].use
    <3>1. Step(p, Return(proc[p], "none"))
      BY <2>2 DEF Write
    <3>2. LET f == Return(proc[p], "none") IN
          /\ f \in Calls /\ f.at = "idle" /\ f.err = "none" /\ f.op = "New" /\ f.name = c
          /\ f.undone = proc[p].undone
      BY <1>1, Returning DEF Errs
    <3>3. QED
      BY <3>1, <3>2
  <2>3. QED
    BY <2>1, <2>2
<1>8. /\ proc' \in [Procs -> Calls] /\ proc'[p] = r
      /\ \A q \in Procs \ {p} : proc'[q] = proc[q]
      /\ \A q \in Procs : proc'[q].at \notin {"idle", "host"} => proc'[q].name \in Names
  BY <1>1, <1>7, Stepping DEF StoreInv
<1>9. TypeOK'
  <2>1. meta' \in [Names -> NotWhole \cup Procs]
    BY <1>1, <1>3, Apart
  <2>2. handles' \subseteq [name : Names, isCurrent : BOOLEAN]
    <3>1. [name |-> c, isCurrent |-> FALSE] \in [name : Names, isCurrent : BOOLEAN]
      BY <1>1
    <3>2. handles' = handles \/ handles' = handles \cup {[name |-> c, isCurrent |-> FALSE]}
      BY DEF Write
    <3>3. QED
      BY <1>1, <3>1, <3>2
  <2>3. host' \in [Names -> BOOLEAN]
    BY DEF Write, StoreInv, TypeOK, Calls
  <2>4. QED
    BY <1>1, <1>8, <2>1, <2>2, <2>3 DEF StoreInv, TypeOK
<1>10. DiskInv'
  <2>1. ASSUME NEW n \in Names
        PROVE  (meta'[n] # "absent" => dir'[n]) /\ (meta'[n] = "torn" => n \in clash')
    <3>1. CASE n = c /\ proc[p].linked
      BY <1>1, <1>2, <1>5, <3>1, Apart DEF StoreInv, DiskInv
    <3>2. CASE ~(n = c /\ proc[p].linked)
      BY <1>1, <1>4, <3>2 DEF StoreInv, DiskInv
    <3>3. QED
      BY <3>1, <3>2
  <2>2. QED
    BY <2>1 DEF DiskInv
<1>11. CallInv(p)'
  <2>1. InPlace(p)' /\ Adds(p)' /\ Lists(p)'
    BY <1>1, <1>7, <1>8 DEF InPlace, Adds, Lists, Listing, Adding, Removing, Saving
  <2>2. Effect(p)'
    BY <1>1, <1>2, <1>5, <1>7, <1>8 DEF Effect, Saving
  <2>3. Uncrossed(p)'
    BY <1>1, <1>7, <1>8 DEF StoreInv, CallInv, Uncrossed
  <2>4. QED
    BY <2>1, <2>2, <2>3 DEF CallInv
<1>12. ASSUME NEW q \in Procs \ {p}
       PROVE  CallInv(q)'
  <2>1. CASE proc[q].name # c \/ ~proc[p].linked
    <3>1. meta'[proc[q].name] = meta[proc[q].name]
      BY <1>1, <1>3, <2>1
    <3>2. QED
      BY <1>1, <1>8, <3>1, OthersStay DEF StoreInv
  <2>2. CASE proc[q].name = c /\ proc[p].linked
    <3>1. InPlace(q)' /\ Uncrossed(q)'
      BY <1>1, <1>8 DEF StoreInv, CallInv, InPlace, Uncrossed
    <3>2. Lists(q)'
      BY <1>1, <1>4, <1>6, <1>8, <2>2 DEF StoreInv, CallInv, Lists
    <3>3. Adds(q)'
      <4>1. proc[q].at \in Adding => c \in clash
        BY <1>1, <2>2 DEF StoreInv, AddsAlone, Adding
      <4>2. QED
        BY <1>1, <1>4, <1>6, <1>8, <2>2, <4>1 DEF StoreInv, CallInv, Adds
    <3>4. Effect(q)'
      <4>1. c \notin clash => meta[c] = "empty" /\ q # "empty"
        BY <1>2, <2>2, Apart
      <4>2. QED
        BY <1>1, <1>8, <2>2, <4>1 DEF StoreInv, CallInv, Effect
    <3>5. QED
      BY <3>1, <3>2, <3>3, <3>4 DEF CallInv
  <2>3. QED
    BY <2>1, <2>2
<1>13. ASSUME NEW q \in Procs, NEW o \in Procs
       PROVE  AddsAlone(q, o)'
  <2>1. \A h \in Procs : proc'[h].at \in Adding =>
          proc[h].at \in Adding /\ proc'[h].name = proc[h].name
    BY <1>7, <1>8 DEF Adding
  <2>2. QED
    BY <1>1, <2>1 DEF StoreInv, AddsAlone
<1>14. HalfDone'
  <2>1. ASSUME config = "empty", cut = {}
        PROVE  \E q \in Procs : proc'[q].at = "save"
    BY <1>1, <1>8, <2>1 DEF StoreInv, HalfDone
  <2>2. ASSUME NEW n \in Names \ cut, meta'[n] = "empty"
        PROVE  \E q \in Procs : Writing(q, n)'
    <3>1. ~(n = c /\ proc[p].linked)
      BY <1>4, <1>6, <2>2
    <3>2. PICK q \in Procs : Writing(q, n)
      BY <1>4, <2>2, <3>1 DEF StoreInv, HalfDone
    <3>3. q # p
      BY <3>1, <3>2 DEF Writing
    <3>4. QED
      BY <1>8, <3>2, <3>3 DEF Writing
  <2>3. ASSUME NEW n \in Names \ (clash \cup cut), dir[n], meta'[n] = "absent"
        PROVE  \E q \in Procs : proc'[q].at \in {"open", "rmdir"} /\ proc'[q].name = n
    <3>1. meta[n] = "absent"
      BY <1>4, <1>6, <2>3
    <3>2. PICK q \in Procs : proc[q].at \in {"open", "rmdir"} /\ proc[q].name = n
      BY <2>3, <3>1 DEF StoreInv, HalfDone
    <3>3. QED
      BY <1>1, <1>8, <3>2
  <2>4. ASSUME faults = 0, ~stale, config \in Names \ clash, ~Whole(config)'
        PROVE  \E q \in Procs : Writing(q, config)' \/ Resetting(q, config)'
    <3>1. ~(config = c /\ proc[p].linked)
      BY <1>1, <1>5, <2>4, Apart DEF Whole
    <3>2. ~Whole(config)
      BY <1>1, <1>4, <2>4, <3>1 DEF Whole
    <3>3. PICK q \in Procs : Writing(q, config) \/ Resetting(q, config)
      BY <2>4, <3>2 DEF StoreInv, HalfDone
    <3>4. q # p
      BY <1>1, <3>1, <3>3 DEF Writing, Resetting, Saving
    <3>5. QED
      BY <1>1, <1>8, <3>3, <3>4 DEF Writing, Resetting
  <2>5. QED
    BY <1>1, CutIsFault, <2>1, <2>2, <2>3, <2>4 DEF HalfDone
<1>15. QED
  BY <1>9, <1>10, <1>11, <1>12, <1>13, <1>14 DEF StoreInv

-----------------------------------------------------------------------------
(* The config.                                                             *)

\* A config that cannot be read ends the call.
LEMMA LoadKeeps ==
  ASSUME StoreInv, NEW p \in Procs, Load(p)
  PROVE  StoreInv'
<1>1. /\ proc[p] \in Calls /\ proc[p].at = "load" /\ proc[p].name \in Names
      /\ proc[p].op \in {"New", "Delete"}
      /\ handles' \subseteq [name : Names, isCurrent : BOOLEAN] /\ calls' \in 0..MaxCalls
      /\ UNCHANGED <<files, faults, clash, cut, stale>> /\ bare' \subseteq Names
  BY DEF StoreInv, TypeOK, ghosts, Load, At, CallInv, InPlace, Saving
<1>2. UNCHANGED <<dir, meta, config, clash, stale>>
  BY <1>1 DEF files
<1>3. proc[p].at \notin {"write", "open", "rmdir", "save"}
  BY <1>1
<1>4. CASE config = "empty"
  <2> DEFINE r == Return(proc[p], "fail")
  <2>1. Step(p, r)
    BY <1>4 DEF Load
  <2>2. /\ r \in Calls /\ r.at = "idle" /\ r.err = "fail"
        /\ r.op = proc[p].op /\ r.name = proc[p].name
    BY <1>1, Returning DEF Errs
  <2> HIDE DEF r
  <2>3. proc'[p] = r => CallInv(p)'
    BY <1>1, <2>2
       DEF CallInv, InPlace, Adds, Effect, Lists, Uncrossed, Listing, Adding, Removing, Saving
  <2>4. r.at \notin Adding /\ config \notin Names
    BY <1>4, <2>2, Apart DEF Adding
  <2>5. QED
    BY <1>1, <1>3, <2>1, <2>2, <2>3, <2>4, QuietStep
<1>5. CASE config # "empty"
  <2> DEFINE r == Goto(proc[p], "truncate")
  <2>1. Step(p, r)
    BY <1>5 DEF Load
  <2>2. /\ r \in Calls /\ r.at = "truncate" /\ r.undone = proc[p].undone
        /\ r.op = proc[p].op /\ r.use = proc[p].use /\ r.name = proc[p].name
    BY <1>1, GoingTo DEF Places, Saving
  <2> HIDE DEF r
  <2>3. ASSUME proc'[p] = r
        PROVE  CallInv(p)'
    <3>1. InPlace(p)' /\ Adds(p)' /\ Lists(p)'
      BY <1>1, <2>2, <2>3 DEF InPlace, Adds, Lists, Listing, Adding, Removing, Saving
    <3>2. Effect(p)' /\ Uncrossed(p)'
      BY <1>1, <1>2, <2>2, <2>3 DEF StoreInv, CallInv, Effect, Uncrossed, Saving
    <3>3. QED
      BY <3>1, <3>2 DEF CallInv
  <2>4. r.at \notin Adding /\ r.at \in Saving
    BY <2>2 DEF Adding, Saving
  <2>5. QED
    BY <1>1, <1>3, <2>1, <2>2, <2>3, <2>4, QuietStep
<1>6. QED
  BY <1>4, <1>5

\* A step of the config: whoever truncates it goes on to save it.
LEMMA ConfigStep ==
  ASSUME StoreInv, NEW p \in Procs, proc[p].at \in {"truncate", "save"},
         NEW r \in Calls, Step(p, r), r.at \in {"save", "idle"}, r.at = "idle" => r.err = "none",
         r.op = proc[p].op, r.name = proc[p].name, r.undone = proc[p].undone,
         config' \in Names \cup {Default, "empty"}, config' = "empty" => r.at = "save",
         ~stale /\ config' \in Names \ clash => Whole(config'),
         handles' \subseteq [name : Names, isCurrent : BOOLEAN],
         UNCHANGED <<dir, meta, host, calls, faults, ghosts>>
  PROVE  StoreInv'
<1>1. UNCHANGED <<clash, cut, bare, stale>> /\ proc[p].name \in Names /\ proc[p].op \in {"New", "Delete"}
  BY DEF ghosts, StoreInv, TypeOK, CallInv, InPlace, Saving
<1>2. /\ proc' \in [Procs -> Calls] /\ proc'[p] = r
      /\ \A q \in Procs \ {p} : proc'[q] = proc[q]
      /\ \A q \in Procs : proc'[q].at \notin {"idle", "host"} => proc'[q].name \in Names
  BY <1>1, Stepping DEF StoreInv
<1>3. TypeOK'
  BY <1>1, <1>2 DEF StoreInv, TypeOK
<1>4. DiskInv'
  BY <1>1 DEF StoreInv, DiskInv
<1>5. CallInv(p)'
  <2>1. InPlace(p)' /\ Adds(p)' /\ Lists(p)'
    BY <1>1, <1>2 DEF InPlace, Adds, Lists, Listing, Adding, Removing, Saving
  <2>2. Effect(p)' /\ Uncrossed(p)'
    BY <1>1, <1>2 DEF StoreInv, CallInv, Effect, Uncrossed, Saving
  <2>3. QED
    BY <2>1, <2>2 DEF CallInv
<1>6. ASSUME NEW q \in Procs \ {p}
      PROVE  CallInv(q)'
  BY <1>1, <1>2, OthersStay DEF StoreInv
<1>7. ASSUME NEW q \in Procs, NEW o \in Procs
      PROVE  AddsAlone(q, o)'
  BY <1>1, <1>2 DEF StoreInv, AddsAlone, Adding
<1>8. HalfDone'
  <2>1. config' = "empty" => proc'[p].at = "save"
    BY <1>2
  <2>2. ASSUME NEW n \in Names \ cut, meta[n] = "empty"
        PROVE  \E q \in Procs : Writing(q, n)'
    BY <1>2, <2>2 DEF StoreInv, HalfDone, Writing
  <2>3. ASSUME NEW n \in Names \ (clash \cup cut), dir[n], meta[n] = "absent"
        PROVE  \E q \in Procs : proc'[q].at \in {"open", "rmdir"} /\ proc'[q].name = n
    <3>1. PICK q \in Procs : proc[q].at \in {"open", "rmdir"} /\ proc[q].name = n
      BY <2>3 DEF StoreInv, HalfDone
    <3>2. QED
      BY <1>2, <3>1
  <2>4. ~stale /\ config' \in Names \ clash => Whole(config)'
    BY DEF Whole
  <2>5. QED
    BY <1>1, CutIsFault, <2>1, <2>2, <2>3, <2>4 DEF HalfDone
<1>9. QED
  BY <1>3, <1>4, <1>5, <1>6, <1>7, <1>8 DEF StoreInv

\* Until it is saved, the config cannot be read.
LEMMA TruncateKeeps ==
  ASSUME StoreInv, NEW p \in Procs, Truncate(p)
  PROVE  StoreInv'
<1> DEFINE r == Goto(proc[p], "save")
<1>1. /\ proc[p] \in Calls /\ proc[p].at = "truncate" /\ config' = "empty" /\ Step(p, r)
      /\ handles' \subseteq [name : Names, isCurrent : BOOLEAN]
      /\ UNCHANGED <<dir, meta, host, calls, faults, ghosts>>
  BY DEF StoreInv, TypeOK, Truncate, At
<1>2. /\ r \in Calls /\ r.at = "save" /\ r.op = proc[p].op /\ r.name = proc[p].name
      /\ r.undone = proc[p].undone
  BY <1>1, GoingTo DEF Places, Saving
<1> HIDE DEF r
<1>3. config' \notin Names
  BY <1>1, Apart
<1>4. QED
  BY <1>1, <1>2, <1>3, ConfigStep

\* A New that was not undone makes its own, whole context the current one.
LEMMA SaveKeeps ==
  ASSUME StoreInv, NEW p \in Procs, Save(p)
  PROVE  StoreInv'
<1> DEFINE r == Return(proc[p], "none")
<1>1. /\ proc[p] \in Calls /\ proc[p].at = "save" /\ Step(p, r) /\ proc[p].name \in Names
      /\ config' = IF proc[p].op = "New" THEN proc[p].name ELSE Default
      /\ handles \subseteq [name : Names, isCurrent : BOOLEAN]
      /\ UNCHANGED <<dir, meta, host, calls, faults, ghosts>>
  BY DEF StoreInv, TypeOK, Save, At
<1>2. /\ r \in Calls /\ r.at = "idle" /\ r.err = "none" /\ r.op = proc[p].op
      /\ r.name = proc[p].name /\ r.undone = proc[p].undone
  BY <1>1, Returning DEF Errs
<1> HIDE DEF r
<1>3. handles' \subseteq [name : Names, isCurrent : BOOLEAN]
  <2>1. [name |-> proc[p].name, isCurrent |-> TRUE] \in [name : Names, isCurrent : BOOLEAN]
    BY <1>1
  <2>2. \/ handles' = handles
        \/ handles' = handles \cup {[name |-> proc[p].name, isCurrent |-> TRUE]}
    BY DEF Save
  <2>3. QED
    BY <1>1, <2>1, <2>2
<1>4. config' \in Names \cup {Default, "empty"} /\ config' # "empty"
  <2>1. Default # "empty"
    BY DEF Default
  <2>2. QED
    BY <1>1, <2>1, Apart
<1>5. ASSUME ~stale, config' \in Names \ clash
      PROVE  Whole(config')
  <2>1. proc[p].op = "New" /\ config' = proc[p].name
    BY <1>1, <1>5, Apart
  <2>2. ~proc[p].undone
    BY <1>1, <1>5, <2>1 DEF StoreInv, CallInv, Uncrossed
  <2>3. meta[proc[p].name] = p
    BY <1>1, <1>5, <2>1, <2>2 DEF StoreInv, CallInv, Effect, Saving
  <2>4. QED
    BY <2>1, <2>3, Apart DEF Whole
<1>6. QED
  BY <1>1, <1>2, <1>3, <1>4, <1>5, ConfigStep

-----------------------------------------------------------------------------
(* The removal.                                                            *)

\* The file is removed: what a New on the context has done is undone, and a New under way
\* has been crossed.
LEMMA UnlinkKeeps ==
  ASSUME StoreInv, NEW p \in Procs, Unlink(p)
  PROVE  StoreInv'
<1> DEFINE c == proc[p].name
           r == Goto(proc[p], "rmdir")
           seen == [q \in Procs |-> [proc[q] EXCEPT !.gap = TRUE, !.linked = FALSE,
                                                     !.undone = @ \/ proc[q].op = "New"]]
<1>1. /\ proc[p] \in Calls /\ proc[p].at = "unlink" /\ c \in Names /\ proc[p].op = "Delete"
      /\ meta' = [meta EXCEPT ![c] = "absent"] /\ meta \in [Names -> NotWhole \cup Procs]
      /\ StepSeen(p, r, seen)
      /\ stale \in BOOLEAN
      /\ UNCHANGED <<dir, host, config, handles, calls, faults, clash, cut, bare>>
  BY DEF StoreInv, TypeOK, Unlink, At, CallInv, InPlace, Removing
<1>2. stale' = (stale \/ CrossesNew(p) \/ (proc[p].use # (config = c)))
  BY DEF Unlink
<1>3. /\ r \in Calls /\ r.at = "rmdir" /\ r.op = "Delete" /\ r.name = c
      /\ r.use = proc[p].use
  BY <1>1, GoingTo DEF Places, Removing
<1>4. \A q \in Procs :
        /\ seen[q] \in Calls /\ seen[q].at = proc[q].at /\ seen[q].name = proc[q].name
        /\ seen[q].op = proc[q].op /\ seen[q].use = proc[q].use /\ seen[q].err = proc[q].err
        /\ seen[q].todo = proc[q].todo /\ seen[q].found = proc[q].found
        /\ ~seen[q].linked /\ seen[q].gap
        /\ proc[q].op = "New" => seen[q].undone
        /\ proc[q].op # "New" => seen[q].undone = proc[q].undone
  <2>1. ASSUME NEW q \in Procs
        PROVE  LET f == [proc[q] EXCEPT !.gap = TRUE, !.linked = FALSE,
                                        !.undone = @ \/ proc[q].op = "New"] IN
               /\ f \in Calls /\ f.at = proc[q].at /\ f.name = proc[q].name
               /\ f.op = proc[q].op /\ f.use = proc[q].use /\ f.err = proc[q].err
               /\ f.todo = proc[q].todo /\ f.found = proc[q].found
               /\ ~f.linked /\ f.gap
               /\ proc[q].op = "New" => f.undone
               /\ proc[q].op # "New" => f.undone = proc[q].undone
    <3>1. proc[q] \in Calls
      BY DEF StoreInv, TypeOK
    <3>2. QED
      BY <3>1 DEF Calls
  <2>2. QED
    BY <2>1
<1> HIDE DEF r, seen
<1>5. /\ proc' \in [Procs -> Calls] /\ proc'[p] = r
      /\ \A q \in Procs \ {p} : proc'[q] = IF proc[q].name = c THEN seen[q] ELSE proc[q]
      /\ \A q \in Procs : proc'[q].at \notin {"idle", "host"} => proc'[q].name \in Names
  BY <1>1, <1>3, <1>4, Seeing DEF StoreInv
<1>6. meta'[c] = "absent" /\ \A n \in Names \ {c} : meta'[n] = meta[n]
  BY <1>1
<1>7. (stale => stale') /\ (CrossesNew(p) => stale')
  BY <1>2
<1>8. TypeOK'
  <2>1. meta' \in [Names -> NotWhole \cup Procs]
    BY <1>1, Apart
  <2>2. stale' \in BOOLEAN
    BY <1>2
  <2>3. QED
    BY <1>1, <1>5, <2>1, <2>2 DEF StoreInv, TypeOK
<1>9. DiskInv'
  BY <1>1, <1>6 DEF StoreInv, DiskInv
<1>10. CallInv(p)'
  BY <1>3, <1>5
     DEF CallInv, InPlace, Adds, Effect, Lists, Uncrossed, Listing, Adding, Removing, Saving
<1>11. ASSUME NEW q \in Procs \ {p}
       PROVE  CallInv(q)'
  <2>1. CASE proc[q].name # c
    <3>1. meta'[proc[q].name] = meta[proc[q].name]
      BY <1>1, <2>1
    <3>2. QED
      BY <1>1, <1>5, <1>7, <2>1, <3>1, OthersStay DEF StoreInv
  <2>2. CASE proc[q].name = c
    <3>1. proc'[q] = seen[q]
      BY <1>5, <2>2
    <3>2. InPlace(q)' /\ Lists(q)'
      BY <1>4, <3>1 DEF StoreInv, CallInv, InPlace, Lists
    <3>3. Adds(q)'
      BY <1>4, <1>6, <2>2, <3>1 DEF StoreInv, CallInv, InPlace, Adds, Adding
    <3>4. Effect(q)'
      BY <1>1, <1>4, <2>2, <3>1 DEF StoreInv, CallInv, Effect
    <3>5. Uncrossed(q)'
      BY <1>4, <1>7, <2>2, <3>1 DEF Uncrossed, CrossesNew, Idle
    <3>6. QED
      BY <3>2, <3>3, <3>4, <3>5 DEF CallInv
  <2>3. QED
    BY <2>1, <2>2
<1>12. ASSUME NEW q \in Procs, NEW o \in Procs
       PROVE  AddsAlone(q, o)'
  <2>1. \A h \in Procs : proc'[h].at \in Adding =>
          proc[h].at \in Adding /\ proc'[h].name = proc[h].name
    BY <1>1, <1>3, <1>4, <1>5 DEF Adding
  <2>2. QED
    BY <1>1, <1>5, <2>1 DEF StoreInv, AddsAlone
<1>13. HalfDone'
  <2>1. \A q \in Procs \ {p} :
          /\ proc'[q].at = proc[q].at /\ proc'[q].name = proc[q].name
          /\ proc'[q].op = proc[q].op /\ proc'[q].use = proc[q].use
          /\ proc[q].name # c => proc'[q].linked = proc[q].linked
    BY <1>4, <1>5
  <2>2. ASSUME config = "empty", cut = {}
        PROVE  \E q \in Procs : proc'[q].at = "save"
    BY <1>1, <2>1, <2>2 DEF StoreInv, HalfDone
  <2>3. ASSUME NEW n \in Names \ cut, meta'[n] = "empty"
        PROVE  \E q \in Procs : Writing(q, n)'
    <3>1. n # c
      BY <1>6, <2>3
    <3>2. PICK q \in Procs : Writing(q, n)
      BY <1>6, <2>3, <3>1 DEF StoreInv, HalfDone
    <3>3. QED
      BY <1>1, <2>1, <3>1, <3>2 DEF Writing
  <2>4. ASSUME NEW n \in Names \ (clash \cup cut), dir[n], meta'[n] = "absent"
        PROVE  \E q \in Procs : proc'[q].at \in {"open", "rmdir"} /\ proc'[q].name = n
    <3>1. CASE n = c
      BY <1>3, <1>5, <3>1
    <3>2. CASE n # c
      <4>1. PICK q \in Procs : proc[q].at \in {"open", "rmdir"} /\ proc[q].name = n
        BY <1>6, <2>4, <3>2 DEF StoreInv, HalfDone
      <4>2. QED
        BY <2>1, <3>2, <4>1
    <3>3. QED
      BY <3>1, <3>2
  <2>5. ASSUME faults = 0, ~stale', config \in Names \ clash, ~Whole(config)'
        PROVE  \E q \in Procs : Writing(q, config)' \/ Resetting(q, config)'
    <3>1. CASE config = c
      <4>1. proc[p].use
        BY <1>1, <1>2, <2>5, <3>1 DEF Calls
      <4>2. Resetting(p, config)'
        BY <1>1, <1>3, <1>5, <3>1, <4>1 DEF Resetting
      <4>3. QED
        BY <4>2
    <3>2. CASE config # c
      <4>1. ~Whole(config)
        BY <1>1, <1>6, <2>5, <3>2 DEF Whole
      <4>2. PICK q \in Procs : Writing(q, config) \/ Resetting(q, config)
        BY <1>7, <2>5, <4>1 DEF StoreInv, HalfDone
      <4>3. q # p
        BY <3>2, <4>2 DEF Writing, Resetting
      <4>4. QED
        BY <1>1, <2>1, <3>2, <4>2, <4>3 DEF Writing, Resetting
    <3>3. QED
      BY <3>1, <3>2
  <2>6. QED
    BY <1>1, CutIsFault, <2>2, <2>3, <2>4, <2>5 DEF HalfDone
<1>14. QED
  BY <1>8, <1>9, <1>10, <1>11, <1>12, <1>13 DEF StoreInv

\* The directory is removed, unless a New has created its file meanwhile.
LEMMA RmdirKeeps ==
  ASSUME StoreInv, NEW p \in Procs, Rmdir(p)
  PROVE  StoreInv'
<1> DEFINE c == proc[p].name
<1>1. /\ proc[p] \in Calls /\ proc[p].at = "rmdir" /\ c \in Names /\ proc[p].op = "Delete"
      /\ dir \in [Names -> BOOLEAN]
      /\ UNCHANGED <<meta, host, config, handles, calls, faults, clash, cut, bare, stale>>
  BY DEF StoreInv, TypeOK, Rmdir, At, CallInv, InPlace, Removing, ghosts
<1>2. PICK r \in Calls :
        /\ Step(p, r) /\ r.op = "Delete" /\ r.name = c
        /\ r.undone = proc[p].undone
        /\ \/ /\ meta[c] = "absent" /\ dir' = [dir EXCEPT ![c] = FALSE]
              /\ \/ r.at = "load" /\ r.use = proc[p].use
                 \/ r.at = "idle" /\ r.err = "none" /\ ~proc[p].use
           \/ meta[c] # "absent" /\ dir' = dir /\ r.at = "idle" /\ r.err = "fail"
  <2>1. CASE meta[c] = "absent" /\ proc[p].use
    <3>1. Step(p, Goto(proc[p], "load")) /\ dir' = [dir EXCEPT ![c] = FALSE]
      BY <2>1 DEF Rmdir, AfterDelete
    <3>2. LET f == Goto(proc[p], "load") IN
          /\ f \in Calls /\ f.at = "load" /\ f.op = "Delete" /\ f.name = c
          /\ f.use = proc[p].use /\ f.undone = proc[p].undone
      BY <1>1, GoingTo DEF Places, Saving
    <3>3. QED
      BY <2>1, <3>1, <3>2
  <2>2. CASE meta[c] = "absent" /\ ~proc[p].use
    <3>1. Step(p, Return(proc[p], "none")) /\ dir' = [dir EXCEPT ![c] = FALSE]
      BY <2>2 DEF Rmdir, AfterDelete
    <3>2. LET f == Return(proc[p], "none") IN
          /\ f \in Calls /\ f.at = "idle" /\ f.err = "none" /\ f.op = "Delete" /\ f.name = c
          /\ f.undone = proc[p].undone
      BY <1>1, Returning DEF Errs
    <3>3. QED
      BY <2>2, <3>1, <3>2
  <2>3. CASE meta[c] # "absent"
    <3>1. Step(p, Return(proc[p], "fail")) /\ dir' = dir
      BY <2>3 DEF Rmdir
    <3>2. LET f == Return(proc[p], "fail") IN
          /\ f \in Calls /\ f.at = "idle" /\ f.err = "fail" /\ f.op = "Delete" /\ f.name = c
          /\ f.undone = proc[p].undone
      BY <1>1, Returning DEF Errs
    <3>3. QED
      BY <2>3, <3>1, <3>2
  <2>4. QED
    BY <2>1, <2>2, <2>3
<1>3. /\ proc' \in [Procs -> Calls] /\ proc'[p] = r
      /\ \A q \in Procs \ {p} : proc'[q] = proc[q]
      /\ \A q \in Procs : proc'[q].at \notin {"idle", "host"} => proc'[q].name \in Names
  BY <1>1, <1>2, Stepping DEF StoreInv
<1>4. /\ dir' \in [Names -> BOOLEAN]
      /\ \A n \in Names : dir'[n] => dir[n]
      /\ \A n \in Names : dir'[n] # dir[n] => n = c /\ meta[c] = "absent"
      /\ meta[c] = "absent" => ~dir'[c]
  BY <1>1, <1>2
<1>5. TypeOK'
  BY <1>1, <1>3, <1>4 DEF StoreInv, TypeOK
<1>6. DiskInv'
  BY <1>1, <1>4 DEF StoreInv, DiskInv
<1>7. CallInv(p)'
  <2>1. InPlace(p)' /\ Adds(p)' /\ Lists(p)' /\ Uncrossed(p)'
    BY <1>1, <1>2, <1>3 DEF InPlace, Adds, Lists, Uncrossed, Listing, Adding, Removing, Saving
  <2>2. Effect(p)'
    BY <1>2, <1>3, <1>4 DEF Effect, Saving
  <2>3. QED
    BY <2>1, <2>2 DEF CallInv
<1>8. ASSUME NEW q \in Procs \ {p}
      PROVE  CallInv(q)'
  <2>1. proc'[q] = proc[q] /\ CallInv(q)
    BY <1>3 DEF StoreInv
  <2>2. InPlace(q)' /\ Adds(q)' /\ Lists(q)' /\ Uncrossed(q)'
    BY <1>1, <2>1 DEF CallInv, InPlace, Adds, Lists, Uncrossed
  <2>3. Effect(q)'
    <3>1. CASE proc[q].name = c
      BY <1>1, <1>4, <2>1, <3>1 DEF CallInv, Effect
    <3>2. CASE proc[q].name # c
      <4>1. dir' = dir \/ dir' = [dir EXCEPT ![c] = FALSE]
        BY <1>2
      <4>2. dir'[proc[q].name] = dir[proc[q].name]
        <5>1. CASE dir' = dir
          BY <5>1
        <5>2. CASE dir' = [dir EXCEPT ![c] = FALSE]
          BY <1>1, <3>2, <5>2
        <5>3. QED
          BY <4>1, <5>1, <5>2
      <4>3. QED
        BY <1>1, <2>1, <4>2 DEF CallInv, Effect
    <3>3. QED
      BY <3>1, <3>2
  <2>4. QED
    BY <2>2, <2>3 DEF CallInv
<1>9. ASSUME NEW q \in Procs, NEW o \in Procs
      PROVE  AddsAlone(q, o)'
  <2>1. proc'[p].at \notin Adding
    BY <1>2, <1>3 DEF Adding
  <2>2. QED
    BY <1>1, <1>3, <2>1 DEF StoreInv, AddsAlone
<1>10. HalfDone'
  <2>1. ASSUME config = "empty", cut = {}
        PROVE  \E q \in Procs : proc'[q].at = "save"
    BY <1>1, <1>3, <2>1 DEF StoreInv, HalfDone
  <2>2. ASSUME NEW n \in Names \ cut, meta[n] = "empty"
        PROVE  \E q \in Procs : Writing(q, n)'
    BY <1>1, <1>3, <2>2 DEF StoreInv, HalfDone, Writing
  <2>3. ASSUME NEW n \in Names \ (clash \cup cut), dir'[n], meta[n] = "absent"
        PROVE  \E q \in Procs : proc'[q].at \in {"open", "rmdir"} /\ proc'[q].name = n
    <3>1. PICK q \in Procs : proc[q].at \in {"open", "rmdir"} /\ proc[q].name = n
      BY <1>4, <2>3 DEF StoreInv, HalfDone
    <3>2. q # p
      BY <1>4, <2>3, <3>1
    <3>3. QED
      BY <1>3, <3>1, <3>2
  <2>4. ASSUME faults = 0, ~stale, config \in Names \ clash, ~Whole(config)
        PROVE  \E q \in Procs : Writing(q, config)' \/ Resetting(q, config)'
    <3>1. PICK q \in Procs : Writing(q, config) \/ Resetting(q, config)
      BY <2>4 DEF StoreInv, HalfDone
    <3>2. CASE q # p
      BY <1>1, <1>3, <3>1, <3>2 DEF Writing, Resetting
    <3>3. CASE q = p
      <4>1. config = c /\ proc[p].use
        BY <1>1, <3>1, <3>3 DEF Writing, Resetting
      <4>2. CASE meta[c] = "absent"
        <5>1. r.at = "load"
          BY <1>2, <4>1, <4>2
        <5>2. Resetting(p, config)'
          BY <1>1, <1>2, <1>3, <4>1, <5>1 DEF Resetting, Saving
        <5>3. QED
          BY <5>2
      <4>3. CASE meta[c] # "absent"
        <5>1. meta[c] # "torn"
          BY <2>4, <4>1 DEF StoreInv, DiskInv
        <5>2. meta[c] = "empty"
          BY <2>4, <4>1, <4>3, <5>1, Apart DEF Whole
        <5>3. QED
          BY <1>1, <2>2, <2>4, <4>1, <5>2 DEF StoreInv, HalfDone
      <4>4. QED
        BY <4>2, <4>3
    <3>4. QED
      BY <3>2, <3>3
  <2>5. Whole(config)' <=> Whole(config)
    BY <1>1 DEF Whole
  <2>6. QED
    BY <1>1, CutIsFault, <2>1, <2>2, <2>3, <2>4, <2>5 DEF HalfDone
<1>11. QED
  BY <1>5, <1>6, <1>7, <1>8, <1>9, <1>10 DEF StoreInv

-----------------------------------------------------------------------------
(* All steps.                                                              *)

\* A call that is cut short leaves half done what it was at, and that is recorded.
LEMMA CutShortKeeps ==
  ASSUME StoreInv, NEW p \in Procs, CutShort(p)
  PROVE  StoreInv'
<1> DEFINE r == Return(proc[p], "fail")
<1>1. /\ proc[p] \in Calls /\ Step(p, r) /\ faults \in 0..MaxFaults /\ faults < MaxFaults
      /\ faults' = faults + 1 /\ proc[p].at # "idle"
      /\ cut' = IF proc[p].at \in HalfWay THEN cut \cup {proc[p].name} ELSE cut
      /\ UNCHANGED <<dir, meta, host, config, handles, calls, clash, bare, stale>>
  BY DEF StoreInv, TypeOK, CutShort, Idle, files
<1>2. faults' \in 0..MaxFaults /\ faults' # 0
  BY <1>1, ConstantsAssumption
<1>3. /\ r \in Calls /\ r.at = "idle" /\ r.err = "fail"
      /\ r.op = proc[p].op /\ r.name = proc[p].name
  BY <1>1, Returning DEF Errs
<1> HIDE DEF r
<1>4. /\ proc' \in [Procs -> Calls] /\ proc'[p] = r
      /\ \A q \in Procs \ {p} : proc'[q] = proc[q]
      /\ \A q \in Procs : proc'[q].at \notin {"idle", "host"} => proc'[q].name \in Names
  BY <1>1, <1>3, Stepping DEF StoreInv
<1>5. TypeOK'
  <2>1. proc[p].at \in HalfWay => proc[p].name \in Names
    BY DEF HalfWay, StoreInv, TypeOK
  <2>2. cut' \subseteq Names
    BY <1>1, <2>1 DEF StoreInv, TypeOK
  <2>3. QED
    BY <1>1, <1>2, <1>4, <2>2 DEF StoreInv, TypeOK
<1>6. DiskInv'
  BY <1>1 DEF StoreInv, DiskInv
<1>7. HalfDone'
  <2>1. cut \subseteq cut' /\ (proc[p].at \in HalfWay => proc[p].name \in cut')
    BY <1>1
  <2>2. ASSUME config = "empty", cut' = {}
        PROVE  \E q \in Procs : proc'[q].at = "save"
    <3>1. PICK q \in Procs : proc[q].at = "save"
      BY <2>1, <2>2 DEF StoreInv, HalfDone
    <3>2. q # p
      BY <2>1, <2>2, <3>1 DEF HalfWay
    <3>3. QED
      BY <1>4, <3>1, <3>2
  <2>3. ASSUME NEW n \in Names \ cut', meta[n] = "empty"
        PROVE  \E q \in Procs : Writing(q, n)'
    <3>1. PICK q \in Procs : Writing(q, n)
      BY <2>1, <2>3 DEF StoreInv, HalfDone
    <3>2. q # p
      BY <2>1, <2>3, <3>1 DEF HalfWay, Writing
    <3>3. QED
      BY <1>4, <3>1, <3>2 DEF Writing
  <2>4. ASSUME NEW n \in Names \ (clash \cup cut'), dir[n], meta[n] = "absent"
        PROVE  \E q \in Procs : proc'[q].at \in {"open", "rmdir"} /\ proc'[q].name = n
    <3>1. PICK q \in Procs : proc[q].at \in {"open", "rmdir"} /\ proc[q].name = n
      BY <2>1, <2>4 DEF StoreInv, HalfDone
    <3>2. q # p
      BY <2>1, <2>4, <3>1 DEF HalfWay
    <3>3. QED
      BY <1>4, <3>1, <3>2
  <2>5. QED
    BY <1>1, <1>2, <2>2, <2>3, <2>4 DEF HalfDone
<1>8. CallInv(p)'
  BY <1>3, <1>4
     DEF StoreInv, CallInv, InPlace, Adds, Effect, Lists, Uncrossed, Listing, Adding, Removing, Saving
<1>9. ASSUME NEW q \in Procs \ {p}
      PROVE  CallInv(q)'
  BY <1>1, <1>4, OthersStay DEF StoreInv
<1>10. ASSUME NEW q \in Procs, NEW o \in Procs
       PROVE  AddsAlone(q, o)'
  BY <1>1, <1>3, <1>4 DEF StoreInv, AddsAlone, Adding
<1>11. QED
  BY <1>5, <1>6, <1>7, <1>8, <1>9, <1>10 DEF StoreInv

\* Initially there is no context, and nobody does anything.
LEMMA InitStore == Init => StoreInv
<1> SUFFICES ASSUME Init
             PROVE  StoreInv
  OBVIOUS
<1> DEFINE b == Begun("none", Default, FALSE, "idle")
           r == Return(b, "none")
<1>1. b \in Calls /\ b.op = "none" /\ b.name = Default /\ b.err = "none"
  <2>1. "idle" \in Places /\ Default \in Names \cup {Default}
    BY DEF Places
  <2>2. QED
    BY <2>1 DEF Begun, Calls, Errs
<1>2. r \in Calls /\ r.at = "idle" /\ r.err = "none" /\ r.op = "none" /\ r.name = Default
  BY <1>1, Returning DEF Errs
<1> HIDE DEF b, r
<1>3. /\ dir = [n \in Names |-> FALSE] /\ meta = [n \in Names |-> "absent"]
      /\ host = [n \in Names |-> TRUE] /\ cut = {} /\ bare = {}
      /\ config = Default /\ handles = {} /\ calls = 0 /\ faults = 0
      /\ clash = {} /\ stale = FALSE
      /\ proc = [p \in Procs |-> r]
  BY DEF Init, b, r
<1>4. TypeOK
  <2>1. meta \in [Names -> NotWhole \cup Procs]
    BY <1>3, Apart
  <2>2. 0 \in 0..MaxCalls /\ 0 \in 0..MaxFaults
    BY ConstantsAssumption
  <2>3. QED
    BY <1>2, <1>3, <2>1, <2>2 DEF TypeOK
<1>5. DiskInv
  BY <1>3 DEF DiskInv
<1>6. HalfDone
  <2>1. config # "empty" /\ config \notin Names
    BY <1>3, Apart DEF Default
  <2>2. \A n \in Names : meta[n] # "empty" /\ ~dir[n]
    BY <1>3
  <2>3. QED
    BY <1>3, <2>1, <2>2 DEF HalfDone
<1>7. ASSUME NEW p \in Procs
      PROVE  CallInv(p)
  BY <1>2, <1>3
     DEF CallInv, InPlace, Adds, Effect, Lists, Uncrossed, Listing, Adding, Removing, Saving
<1>8. ASSUME NEW p \in Procs, NEW q \in Procs
      PROVE  AddsAlone(p, q)
  BY <1>2, <1>3 DEF AddsAlone, Adding
<1>9. QED
  BY <1>4, <1>5, <1>6, <1>7, <1>8 DEF StoreInv

\* Whoever is idle may begin any call.
LEMMA BeginCallKeeps ==
  ASSUME StoreInv, NEW p \in Procs, BeginCall(p)
  PROVE  StoreInv'
<1>1. {"host", "list", "unlink"} \subseteq Places
  BY DEF Places, Listing, Removing
<1>2. ASSUME NEW n \in Names \cup {Default}, NEW use \in BOOLEAN, NEW named \in BOOLEAN,
             BeginNew(p, n, use, named)
      PROVE  StoreInv'
  <2> DEFINE f == Begun("New", n, use, "list")
             r == [f EXCEPT !.host = named]
  <2>1. n \in Names /\ Begin(p, r)
    BY <1>2 DEF BeginNew
  <2>2. /\ f \in Calls /\ f.op = "New" /\ f.name = n /\ f.at = "list" /\ f.err = "none"
        /\ ~f.undone /\ f.gap = ~Whole(n)
    BY <1>1, <2>1, Beginning
  <2> HIDE DEF f
  <2>3. /\ r \in Calls /\ r.op = "New" /\ r.name = n /\ r.at = "list" /\ r.err = "none"
        /\ ~r.undone /\ r.gap = ~Whole(n)
    BY <2>2 DEF Calls
  <2> HIDE DEF r
  <2>4. QED
    BY <2>1, <2>3, BeginKeeps
<1>3. ASSUME NEW n \in Names, BeginInspect(p, n)
      PROVE  StoreInv'
  <2> DEFINE r == Begun("Inspect", n, FALSE, "list")
  <2>1. Begin(p, r)
    BY <1>3 DEF BeginInspect
  <2>2. /\ r \in Calls /\ r.op = "Inspect" /\ r.name = n /\ r.at = "list" /\ r.err = "none"
        /\ ~r.undone /\ r.host /\ r.gap = ~Whole(n)
    BY <1>1 DEF Begun, Calls, Errs, Whole
  <2> HIDE DEF r
  <2>3. QED
    BY <2>1, <2>2, BeginKeeps
<1>4. ASSUME NEW h \in handles, BeginDelete(p, h)
      PROVE  StoreInv'
  <2> DEFINE r == Begun("Delete", h.name, h.isCurrent, "unlink")
  <2>1. Begin(p, r)
    BY <1>4 DEF BeginDelete
  <2>2. h.name \in Names /\ h.isCurrent \in BOOLEAN
    BY DEF StoreInv, TypeOK
  <2>3. /\ r \in Calls /\ r.op = "Delete" /\ r.name = h.name /\ r.at = "unlink"
        /\ r.err = "none" /\ ~r.undone /\ r.gap = ~Whole(h.name)
    BY <1>1, <2>2, Beginning
  <2> HIDE DEF r
  <2>4. QED
    BY <2>1, <2>2, <2>3, BeginKeeps
<1>5. ASSUME BeginHost(p)
      PROVE  StoreInv'
  <2> DEFINE r == Begun("Host", Default, FALSE, "host")
  <2>1. Begin(p, r)
    BY <1>5 DEF BeginHost
  <2>2. /\ r \in Calls /\ r.op = "Host" /\ r.name = Default /\ r.at = "host"
        /\ r.err = "none" /\ ~r.undone /\ r.host
    BY <1>1 DEF Begun, Calls, Errs
  <2>3. Default \notin Names
    BY Apart
  <2> HIDE DEF r
  <2>4. QED
    BY <2>1, <2>2, <2>3, BeginKeeps
<1>6. QED
  BY <1>2, <1>3, <1>4, <1>5 DEF BeginCall

\* Every step keeps the invariant.
LEMMA NextKeeps == StoreInv /\ [Next]_vars => StoreInv'
<1> SUFFICES ASSUME StoreInv, [Next]_vars
             PROVE  StoreInv'
  OBVIOUS
<1>1. ASSUME NEW p \in Procs, BeginCall(p)
      PROVE  StoreInv'
  BY <1>1, BeginCallKeeps
<1>2. ASSUME NEW p \in Procs, InspectStep(p)
      PROVE  StoreInv'
  BY <1>2, HostReadsKeeps, ReadNamesKeeps, VisitKeeps, WalkDoneKeeps, ReadKeeps, ReadDoneKeeps,
     MarkCurrentKeeps DEF InspectStep
<1>3. ASSUME NEW p \in Procs, AddStep(p)
      PROVE  StoreInv'
  BY <1>3, CheckKeeps, MkdirKeeps, OpenKeeps, WriteKeeps DEF AddStep
<1>4. ASSUME NEW p \in Procs, SaveStep(p)
      PROVE  StoreInv'
  BY <1>4, LoadKeeps, TruncateKeeps, SaveKeeps DEF SaveStep
<1>5. ASSUME NEW p \in Procs, DeleteStep(p)
      PROVE  StoreInv'
  BY <1>5, UnlinkKeeps, RmdirKeeps DEF DeleteStep
<1>6. ASSUME NEW p \in Procs, CutShort(p)
      PROVE  StoreInv'
  BY <1>6, CutShortKeeps
<1>7. CASE UNCHANGED vars
  <2>1. UNCHANGED <<dir, meta, host, config, handles, proc, calls, faults, clash, cut, bare, stale>>
    BY <1>7 DEF vars, files, ghosts
  <2>2. TypeOK' /\ DiskInv' /\ HalfDone'
    BY <2>1 DEF StoreInv, TypeOK, DiskInv, HalfDone, Whole, Writing, Resetting
  <2>3. ASSUME NEW p \in Procs
        PROVE  CallInv(p)'
    BY <2>1, OthersStay DEF StoreInv
  <2>4. ASSUME NEW p \in Procs, NEW q \in Procs
        PROVE  AddsAlone(p, q)'
    BY <2>1 DEF StoreInv, AddsAlone
  <2>5. QED
    BY <2>2, <2>3, <2>4 DEF StoreInv
<1>8. QED
  BY <1>1, <1>2, <1>3, <1>4, <1>5, <1>6, <1>7 DEF Next

\* The invariant of the store holds throughout.
LEMMA StoreHolds == Spec => []StoreInv
BY InitStore, NextKeeps, PTL DEF Spec

-----------------------------------------------------------------------------
(* The theorems.                                                           *)

\* Every variable keeps its kind, and only a call that is asked about the config's own context
\* may have no context to work on.
THEOREM TypeCorrect == Spec => []TypeOK
<1>1. StoreInv => TypeOK
  BY DEF StoreInv
<1>2. QED
  BY <1>1, StoreHolds, PTL

\* A context has no host only if a New was called without one for it.
BareKnown ==
  /\ \A n \in Names : ~host[n] => n \in bare
  /\ \A p \in Procs : ~proc[p].host => proc[p].name \in bare

\* A step of one call that keeps its context and is not given another host.
LEMMA StepKeepsBare ==
  ASSUME TypeOK, BareKnown, NEW p \in Procs, NEW r, Step(p, r), bare \subseteq bare',
         r.host \/ r.name \in bare', \A n \in Names : ~host'[n] => n \in bare'
  PROVE  BareKnown'
BY DEF TypeOK, BareKnown, Step

\* The same, where others take note.
LEMMA SeenKeepsBare ==
  ASSUME TypeOK, BareKnown, NEW p \in Procs, NEW r, NEW seen, StepSeen(p, r, seen),
         \A q \in Procs : seen[q].host = proc[q].host /\ seen[q].name = proc[q].name,
         r.host \/ r.name \in bare, UNCHANGED <<host, bare>>
  PROVE  BareKnown'
BY DEF TypeOK, BareKnown, StepSeen

\* The ways a call goes on keep what it was given.
LEMMA SameHost ==
  ASSUME NEW r \in Calls, NEW place, NEW err
  PROVE  /\ Goto(r, place).host = r.host /\ Goto(r, place).name = r.name
         /\ Return(r, err).host
         /\ ListingFails(r, err).host \/ ListingFails(r, err).host = r.host
         /\ ListingFails(r, err).name = r.name
<1>1. Goto(r, place).host = r.host /\ Goto(r, place).name = r.name
  BY DEF Goto, Calls
<1>2. Return(r, err).host /\ Return(r, err).name = r.name
  BY DEF Return, Calls
<1>3. Goto(r, "check").host = r.host /\ Goto(r, "check").name = r.name
  BY DEF Goto, Calls
<1>4. QED
  BY <1>1, <1>2, <1>3 DEF ListingFails

\* No step but the beginning of a New brings a context without a host.
LEMMA NextKeepsBare == TypeOK /\ BareKnown /\ [Next]_vars => BareKnown'
<1> SUFFICES ASSUME TypeOK, BareKnown, [Next]_vars PROVE BareKnown'
  OBVIOUS
<1>1. ASSUME NEW p \in Procs, BeginCall(p) PROVE BareKnown'
  <2>1. PICK r : Begin(p, r)
    BY <1>1 DEF BeginCall, BeginNew, BeginInspect, BeginDelete, BeginHost
  <2>2. /\ Step(p, r) /\ UNCHANGED host
        /\ bare' = IF r.host THEN bare ELSE bare \cup {r.name}
    BY <2>1 DEF Begin, files
  <2>3. QED
    BY <2>2, StepKeepsBare DEF BareKnown
<1>2. ASSUME NEW p \in Procs, InspectStep(p) PROVE BareKnown'
  <2>1. proc[p] \in Calls /\ UNCHANGED <<host, bare>>
    BY <1>2 DEF InspectStep, HostReads, ReadNames, Visit, WalkDone, Read, ReadDone, MarkCurrent,
       files, ghosts, TypeOK
  <2>2. PICK r : Step(p, r) /\ (r.host \/ (r.host = proc[p].host /\ r.name = proc[p].name))
    <3>1. CASE HostReads(p)
      <4>1. Begun("Host", config, FALSE, "list").host
        BY DEF Begun
      <4>2. QED
        BY <2>1, <3>1, <4>1, SameHost DEF HostReads
    <3>2. CASE ReadNames(p)
      <4>1. LET r == [Goto(proc[p], "walk") EXCEPT !.todo = {n \in Names : dir[n]}] IN
            r.host = proc[p].host /\ r.name = proc[p].name
        BY <2>1 DEF Goto, Calls
      <4>2. QED
        BY <3>2, <4>1 DEF ReadNames
    <3>3. CASE Visit(p)
      <4>1. PICK n \in proc[p].todo :
              \/ Step(p, [proc[p] EXCEPT !.todo = @ \ {n},
                            !.found = IF meta[n] = "absent" THEN @ ELSE @ \cup {n}])
              \/ Step(p, ListingFails(proc[p], "fail"))
        BY <3>3 DEF Visit
      <4>2. CASE Step(p, ListingFails(proc[p], "fail"))
        BY <2>1, <4>2, SameHost
      <4> DEFINE r == [proc[p] EXCEPT !.todo = @ \ {n},
                         !.found = IF meta[n] = "absent" THEN @ ELSE @ \cup {n}]
      <4>3. r.host = proc[p].host /\ r.name = proc[p].name
        BY <2>1 DEF Calls
      <4>4. Step(p, r) \/ Step(p, ListingFails(proc[p], "fail"))
        BY <4>1
      <4> HIDE DEF r
      <4>5. QED
        BY <4>2, <4>3, <4>4
    <3>4. CASE WalkDone(p)
      <4>1. LET r == [proc[p] EXCEPT !.at = "read", !.todo = proc[p].found, !.found = {}] IN
            r.host = proc[p].host /\ r.name = proc[p].name
        BY <2>1 DEF Calls
      <4>2. QED
        BY <3>4, <4>1 DEF WalkDone
    <3>5. CASE Read(p)
      <4>1. PICK n \in proc[p].todo :
              Step(p, IF meta[n] \in {"empty", "torn"} THEN ListingFails(proc[p], "fail")
                      ELSE [proc[p] EXCEPT !.todo = @ \ {n},
                              !.found = IF Whole(n) THEN @ \cup {n} ELSE @,
                              !.unset = @ \/ (n = proc[p].name /\ Whole(n) /\ ~host[n])])
        BY <3>5 DEF Read
      <4>2. CASE Step(p, ListingFails(proc[p], "fail"))
        BY <2>1, <4>2, SameHost
      <4> DEFINE r == [proc[p] EXCEPT !.todo = @ \ {n},
                         !.found = IF Whole(n) THEN @ \cup {n} ELSE @,
                         !.unset = @ \/ (n = proc[p].name /\ Whole(n) /\ ~host[n])]
      <4>3. r.host = proc[p].host /\ r.name = proc[p].name
        BY <2>1 DEF Calls
      <4>4. Step(p, r) \/ Step(p, ListingFails(proc[p], "fail"))
        BY <4>1
      <4> HIDE DEF r
      <4>5. QED
        BY <4>2, <4>3, <4>4
    <3>6. CASE ReadDone(p)
      BY <2>1, <3>6, SameHost DEF ReadDone
    <3>7. CASE MarkCurrent(p)
      BY <2>1, <3>7, SameHost DEF MarkCurrent
    <3>8. QED
      BY <1>2, <3>1, <3>2, <3>3, <3>4, <3>5, <3>6, <3>7 DEF InspectStep
  <2>3. QED
    BY <2>1, <2>2, StepKeepsBare DEF BareKnown
<1>3. ASSUME NEW p \in Procs, AddStep(p) PROVE BareKnown'
  <2>1. proc[p] \in Calls /\ bare' = bare
    BY <1>3 DEF AddStep, Check, Mkdir, Open, Write, ghosts, TypeOK
  <2>2. CASE Check(p)
    BY <2>1, <2>2, SameHost, StepKeepsBare DEF Check, files, BareKnown
  <2>3. CASE Mkdir(p)
    <3> DEFINE seen == [q \in Procs |-> [proc[q] EXCEPT !.undone = @ \/ proc[q].op = "Delete"]]
    <3>1. StepSeen(p, Goto(proc[p], "open"), seen) /\ UNCHANGED host
      BY <2>3 DEF Mkdir
    <3>2. \A q \in Procs : seen[q].host = proc[q].host /\ seen[q].name = proc[q].name
      BY DEF TypeOK, Calls
    <3> HIDE DEF seen
    <3>3. QED
      BY <2>1, <3>1, <3>2, SameHost, SeenKeepsBare DEF BareKnown
  <2>4. CASE Open(p) /\ dir[proc[p].name]
    <3> DEFINE seen == [q \in Procs |-> [proc[q] EXCEPT !.gap = TRUE]]
               r == [Goto(proc[p], "write") EXCEPT !.linked = TRUE]
    <3>1. StepSeen(p, r, seen) /\ UNCHANGED host
      BY <2>4 DEF Open
    <3>2. \A q \in Procs : seen[q].host = proc[q].host /\ seen[q].name = proc[q].name
      BY DEF TypeOK, Calls
    <3>3. r.host = proc[p].host /\ r.name = proc[p].name
      BY <2>1 DEF Goto, Calls
    <3> HIDE DEF seen, r
    <3>4. QED
      BY <2>1, <3>1, <3>2, <3>3, SeenKeepsBare DEF BareKnown
  <2>5. CASE Open(p) /\ ~dir[proc[p].name]
    BY <2>1, <2>5, SameHost, StepKeepsBare DEF Open, BareKnown
  <2>6. CASE Write(p)
    <3>1. \A n \in Names : ~host'[n] => n \in bare
      BY <2>1, <2>6 DEF Write, BareKnown, TypeOK
    <3>2. PICK r : Step(p, r) /\ (r.host \/ (r.host = proc[p].host /\ r.name = proc[p].name))
      BY <2>1, <2>6, SameHost DEF Write
    <3>3. QED
      BY <2>1, <3>1, <3>2, StepKeepsBare DEF BareKnown
  <2>7. QED
    BY <1>3, <2>2, <2>3, <2>4, <2>5, <2>6 DEF AddStep
<1>4. ASSUME NEW p \in Procs, SaveStep(p) \/ Rmdir(p) \/ CutShort(p) PROVE BareKnown'
  <2>1. proc[p] \in Calls /\ UNCHANGED <<host, bare>>
    BY <1>4 DEF SaveStep, Load, Truncate, Save, Rmdir, CutShort, files, ghosts, TypeOK
  <2>2. PICK r : Step(p, r) /\ (r.host \/ (r.host = proc[p].host /\ r.name = proc[p].name))
    BY <1>4, <2>1, SameHost DEF SaveStep, Load, Truncate, Save, Rmdir, AfterDelete, CutShort
  <2>3. QED
    BY <2>1, <2>2, StepKeepsBare DEF BareKnown
<1>5. ASSUME NEW p \in Procs, Unlink(p) PROVE BareKnown'
  <2> DEFINE seen == [q \in Procs |-> [proc[q] EXCEPT !.gap = TRUE, !.linked = FALSE,
                                                       !.undone = @ \/ proc[q].op = "New"]]
  <2>1. proc[p] \in Calls /\ StepSeen(p, Goto(proc[p], "rmdir"), seen) /\ UNCHANGED <<host, bare>>
    BY <1>5 DEF Unlink, TypeOK
  <2>2. ASSUME NEW q \in Procs
        PROVE  seen[q].host = proc[q].host /\ seen[q].name = proc[q].name
    <3>1. proc[q] \in Calls
      BY DEF TypeOK
    <3>2. QED
      BY <3>1 DEF Calls
  <2> HIDE DEF seen
  <2>3. QED
    BY <2>1, <2>2, SameHost, SeenKeepsBare DEF BareKnown
<1>6. CASE UNCHANGED vars
  BY <1>6 DEF vars, files, ghosts, BareKnown
<1>7. QED
  BY <1>1, <1>2, <1>3, <1>4, <1>5, <1>6 DEF Next, DeleteStep

\* So a context has no host only if a New was called without one for it.
LEMMA BareHolds == Spec => []BareKnown
<1>1. Init => BareKnown
  <2> SUFFICES ASSUME Init PROVE BareKnown
    OBVIOUS
  <2> DEFINE r == Return(Begun("none", Default, FALSE, "idle"), "none")
  <2>1. r.host
    BY DEF Begun, Return
  <2>2. (\A n \in Names : host[n]) /\ \A p \in Procs : proc[p] = r
    BY DEF Init
  <2> HIDE DEF r
  <2>3. QED
    BY <2>1, <2>2 DEF BareKnown
<1>2. QED
  BY <1>1, NextKeepsBare, TypeCorrect, PTL DEF Spec

\* At rest, a directory is there just when its context is whole, where no call was cut short and
\* no two New calls clashed; if that happened nowhere, Inspect returns every context that is
\* there, but for names that a New was called with and without a host.
THEOREM NoNameStuck == Spec => []NoStuckName
<1>1. ASSUME StoreInv, BareKnown
      PROVE  NoStuckName
  <2> SUFFICES ASSUME Quiet PROVE NoStuckName
    BY DEF NoStuckName
  <2>1. ASSUME NEW n \in Names \ (clash \cup cut)
        PROVE  (dir[n] <=> Whole(n)) /\ meta[n] \notin {"empty", "torn"}
    <3>1. dir[n] \in BOOLEAN
      BY <1>1 DEF StoreInv, TypeOK
    <3>2. meta[n] # "empty"
      BY <1>1, <2>1 DEF StoreInv, HalfDone, Writing, Quiet, Idle
    <3>3. dir[n] => meta[n] # "absent"
      BY <1>1, <2>1 DEF StoreInv, HalfDone, Quiet, Idle
    <3>4. meta[n] # "torn" /\ (meta[n] # "absent" => dir[n])
      BY <1>1 DEF StoreInv, DiskInv
    <3>5. QED
      BY <3>1, <3>2, <3>3, <3>4, Apart DEF Whole
  <2>2. ASSUME clash \cup cut = {}, NEW n \in Names \ bare, dir[n]
        PROVE  Inspectable(n)
    <3>1. config # "empty"
      BY <1>1, <2>2 DEF StoreInv, HalfDone, Quiet, Idle
    <3>2. host[n]
      BY <1>1, <2>2 DEF BareKnown
    <3>3. QED
      BY <2>1, <2>2, <3>1, <3>2 DEF Inspectable
  <2>3. QED
    BY <2>1, <2>2 DEF NoStuckName
<1>2. QED
  BY <1>1, StoreHolds, BareHolds, PTL

\* What New has written stays, and what Delete has removed stays away, until another caller
\* undoes it.
THEOREM EffectsStay == Spec => []EffectStays
<1>1. ASSUME StoreInv
      PROVE  EffectStays
  <2>1. SUFFICES ASSUME NEW p \in Procs, Idle(p), proc[p].err = "none", ~proc[p].undone
                 PROVE  /\ proc[p].op = "New" /\ proc[p].name \notin clash =>
                             dir[proc[p].name] /\ meta[proc[p].name] = p
                        /\ proc[p].op = "Delete" => ~dir[proc[p].name]
    BY DEF EffectStays
  <2>2. /\ proc[p].op = "New" /\ proc[p].name \notin clash => meta[proc[p].name] = p
        /\ proc[p].op = "Delete" => ~dir[proc[p].name]
    BY <1>1, <2>1 DEF StoreInv, CallInv, Effect, Idle
  <2>3. proc[p].op = "New" => proc[p].name \in Names
    BY <1>1 DEF StoreInv, CallInv, InPlace
  <2>4. QED
    BY <1>1, <2>2, <2>3, Apart DEF StoreInv, DiskInv
<1>2. QED
  BY <1>1, StoreHolds, PTL

\* A context that was whole throughout the call is never reported as missing.
THEOREM NotFoundTrue == Spec => []NotFoundIsTrue
<1>1. StoreInv => NotFoundIsTrue
  BY DEF StoreInv, CallInv, Lists, NotFoundIsTrue, Idle
<1>2. QED
  BY <1>1, StoreHolds, PTL

\* When nothing was cut short, the config is readable and names the default or a whole context,
\* unless a Delete crossed a New or had the wrong flag.
THEOREM CurrentIsThere == Spec => []CurrentNotDangling
<1>1. ASSUME StoreInv
      PROVE  CurrentNotDangling
  <2>1. SUFFICES ASSUME Quiet, faults = 0, ~stale
                 PROVE  config = Default \/ (config \in Names /\ (config \in clash \/ Whole(config)))
    BY DEF CurrentNotDangling
  <2>2. config # "empty"
    BY <1>1, <2>1 DEF StoreInv, HalfDone, Quiet, Idle
  <2>3. config \in Names \ clash => Whole(config)
    BY <1>1, <2>1
       DEF StoreInv, HalfDone, Writing, Resetting, Saving, Quiet, Idle
  <2>4. QED
    BY <1>1, <2>2, <2>3 DEF StoreInv, TypeOK
<1>2. QED
  BY <1>1, StoreHolds, PTL

=============================================================================
