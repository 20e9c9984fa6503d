----------------------- MODULE WaitStrategies_proofs ------------------------
(***************************************************************************)
(* Proofs about waiting: for any strategies, nested to any depth, with any *)
(* timeouts, poll interval and default, and whatever fails.                *)
(***************************************************************************)
EXTENDS WaitStrategies, SequenceTheorems, TLAPS

\* What is waited for: the strategies, and the files that stand for a TLSStrategy.
Each == Strategies \cup {File({}), File({"matcher"})}
Shapes(kinds) ==
  [kind : kinds, timeout : 0..Forever, options : SUBSET Options, deadline : 0..Forever,
   list : Seq(Each)]
Frames == [all : Shapes(Groups), turn : Nat, began : Nat, limit : 0..Forever]

\* Where a strategy goes on after it slept, and where it may find that it is late: because it
\* overslept, or because its command took so long.
Resumes == {"poll", "ask", "recheck", "remap", "check", "inspect"}
Late == {"sleep", "poll", "check", "inspect", "output"}
Works == [at : Places, next : Resumes, wake : 0..MaxTime + Oversleep,
          until : 0..MaxTime + Poll + Poll, limit : 0..Forever, seen : Nat,
          checked : {"ok", "dead", "error"}]

Around ==
  /\ plan \in Plans
  /\ now \in 0..MaxTime /\ began \in 0..now
  /\ box \in {"running", "exited", "gone"}
  /\ mapped \in BOOLEAN /\ up \in BOOLEAN /\ lines \in 0..Entry
  /\ outcome \in {"none", "ready", "timeout", "dead", "error"}
  /\ faults \in 0..MaxFaults

\* The MultiStrategies: every one but the innermost waits for one of its strategies.
Stacked ==
  /\ frames \in Seq(Frames) /\ frames # <<>> /\ frames[1].all = plan
  /\ \A i \in 1..Len(frames) :
       /\ frames[i].turn \in 1..Len(frames[i].all.list) + 1
       /\ i < Len(frames) => frames[i].turn <= Len(frames[i].all.list)
       /\ frames[i].began <= now

\* Their contexts: none ends later than its deadline, than the ones around it, or than the
\* timeout that the one around it sets for those without one.
Nested ==
  \A i \in 1..Len(frames) :
    /\ frames[i].limit <= frames[i].began + frames[i].all.deadline
    /\ \A j \in 1..i : frames[i].limit <= frames[j].limit
    /\ i > 1 /\ frames[i].all.kind # "tls" /\ frames[i].all.timeout = Forever
         => frames[i].limit <= frames[i].began + frames[i - 1].all.timeout

\* A log strategy has looked through the log in vain so far.
Looking == w \in Works /\ w.seen <= lines /\ w.seen < Entry

\* No context has ended when a turn begins.  A strategy's own context is limited by all of
\* them and by its timeout; it ends while the strategy sleeps, if at all, by a sleep at most,
\* or else while its command has not ended.
Timed ==
  /\ w.at = "begin" => \A i \in 1..Len(frames) : now <= frames[i].limit
  /\ w.at # "begin" =>
       /\ Inner.turn <= Len(Inner.all.list)
       /\ w.limit <= began + Allowed(Inner.all, S)
       /\ \A i \in 1..Len(frames) : w.limit <= frames[i].limit
       /\ now <= w.limit \/ (w.at \in Late /\ now <= w.limit + Oversleep) \/ Commanded
       /\ w.at = "output" => S.kind = "exec"
  /\ w.at = "sleep" =>
       /\ w.wake <= w.limit + Oversleep /\ now <= w.wake
       /\ w.next \in {"poll", "check", "inspect"}

WaitInv == Around /\ Stacked /\ Nested /\ Looking /\ Timed /\ LogNotMissed

-----------------------------------------------------------------------------
(* Strategies and their limits.                                            *)

\* Numbers are numbers.
LEMMA Numbers ==
  /\ Poll \in Nat /\ Poll > 0 /\ DefaultTimeout \in Nat /\ Entry \in Nat /\ Entry > 0
  /\ MaxTime \in Nat /\ MaxFaults \in Nat /\ Forever \in Nat
  /\ Forever > MaxTime + DefaultTimeout + Poll
  /\ ExecPoll \in Nat /\ ExecPoll > 0
  /\ Oversleep \in Nat /\ Poll <= Oversleep /\ ExecPoll <= Oversleep
BY ConstantsAssumption DEF Oversleep

\* A file is a strategy of the kind "file".
LEMMA FileShape ==
  ASSUME NEW options \in SUBSET Options
  PROVE  File(options) \in Shapes({"file"})
<1>1. <<>> \in Seq(Each)
  BY EmptySeq
<1>2. Forever \in 0..Forever
  BY Numbers
<1>3. QED
  BY <1>1, <1>2 DEF File, Shapes

\* Everything that is waited for has the same shape, and its list holds such things again.
LEMMA EachShape == Each \subseteq Shapes(Kinds \cup Groups)
<1>1. ASSUME NEW s \in Strategies
      PROVE  s \in Shapes(Kinds \cup Groups)
  <2>1. s \in [kind : Kinds \cup Groups, timeout : 0..Forever, options : SUBSET Options,
               deadline : 0..Forever, list : Seq(Strategies)]
    BY StrategiesAssumption
  <2>2. Seq(Strategies) \subseteq Seq(Each)
    BY DEF Each
  <2>3. QED
    BY <2>1, <2>2 DEF Shapes
<1>2. File({}) \in Shapes({"file"}) /\ File({"matcher"}) \in Shapes({"file"})
  BY FileShape DEF Options
<1>3. Shapes({"file"}) \subseteq Shapes(Kinds \cup Groups)
  BY DEF Shapes, Kinds
<1>4. QED
  BY <1>1, <1>2, <1>3 DEF Each

\* A TLSStrategy becomes a group of files without a timeout of its own.
LEMMA FilesShape ==
  ASSUME NEW s \in Shapes({"tls"})
  PROVE  Files(s) \in Shapes(Groups) /\ Files(s).kind = "tls"
<1> DEFINE list == (IF "roots" \in s.options THEN <<File({"matcher"})>> ELSE <<>>) \o
                   (IF "cert" \in s.options THEN <<File({}), File({"matcher"})>> ELSE <<>>)
<1>1. File({}) \in Each /\ File({"matcher"}) \in Each
  BY DEF Each
<1>2. /\ <<File({"matcher"})>> \in Seq(Each) /\ <<File({}), File({"matcher"})>> \in Seq(Each)
      /\ <<>> \in Seq(Each)
  BY <1>1
<1>3. list \in Seq(Each)
  BY <1>2, ConcatProperties
<1>4. Files(s) = [s EXCEPT !.deadline = s.timeout, !.timeout = Forever, !.list = list]
  BY DEF Files
<1> HIDE DEF list
<1>5. Forever \in 0..Forever
  BY Numbers
<1>6. QED
  BY <1>3, <1>4, <1>5 DEF Shapes, Groups

\* A plan is a MultiStrategy.
LEMMA PlanShape ==
  ASSUME NEW p \in Plans
  PROVE  p \in Shapes(Groups)
<1>1. p \in Strategies /\ p.kind = "all"
  BY StrategiesAssumption
<1>2. p \in Shapes(Kinds \cup Groups)
  BY <1>1, EachShape DEF Each
<1>3. QED
  BY <1>1, <1>2 DEF Shapes, Groups

\* The earlier of two times is not later than either.
LEMMA Earliest ==
  ASSUME NEW a \in Nat, NEW b \in Nat
  PROVE  Earlier(a, b) \in Nat /\ Earlier(a, b) <= a /\ Earlier(a, b) <= b
         /\ (Earlier(a, b) = a \/ Earlier(a, b) = b)
BY DEF Earlier

\* After some time it is not earlier than now, nor is it ever later than Forever.
LEMMA Afterwards ==
  ASSUME now \in 0..MaxTime, NEW time \in Nat
  PROVE  After(time) \in 0..Forever /\ now <= After(time) /\ After(time) <= now + time
BY Numbers DEF After, Earlier

-----------------------------------------------------------------------------
(* The stack of MultiStrategies.                                           *)

\* What is on the stack are frames.
LEMMA StackShape ==
  ASSUME Stacked
  PROVE  /\ Len(frames) \in Nat /\ Len(frames) >= 1
         /\ \A i \in 1..Len(frames) : frames[i] \in Frames
         /\ Inner \in Frames
BY EmptySeq, LenProperties, ElementOfSeq DEF Stacked, Inner

\* The strategy whose turn it is is one of those that can be waited for.
LEMMA TurnShape ==
  ASSUME Stacked, Inner.turn <= Len(Inner.all.list)
  PROVE  S \in Each /\ S \in Shapes(Kinds \cup Groups)
<1>1. Inner \in Frames /\ Inner.turn \in 1..Len(Inner.all.list) + 1
  BY StackShape DEF Stacked, Inner
<1>2. Inner.all \in Shapes(Groups)
  BY <1>1 DEF Frames
<1>3. Inner.all.list \in Seq(Each)
  BY <1>2 DEF Shapes
<1>4. Inner.turn \in 1..Len(Inner.all.list)
  BY <1>1, <1>3, LenProperties
<1>5. S \in Each
  BY <1>3, <1>4, ElementOfSeq DEF S
<1>6. QED
  BY <1>5, EachShape

\* A frame that goes on is a frame.
LEMMA FrameGoesOn ==
  ASSUME NEW r \in Frames
  PROVE  LET f == [r EXCEPT !.turn = @ + 1] IN
         /\ f \in Frames /\ f.turn = r.turn + 1
         /\ f.all = r.all /\ f.limit = r.limit /\ f.began = r.began
BY DEF Frames

\* The innermost of the first k frames goes on to its next turn, and those inside it are left.
LEMMA TurnsOn ==
  ASSUME Stacked, Nested, UNCHANGED <<plan, now>>, NEW k \in 1..Len(frames),
         frames[k].turn <= Len(frames[k].all.list),
         frames' \in Seq(Frames), Len(frames') = k,
         \A i \in 1..k : /\ frames'[i].all = frames[i].all /\ frames'[i].limit = frames[i].limit
                         /\ frames'[i].began = frames[i].began
                         /\ frames'[i].turn = IF i = k THEN frames[i].turn + 1 ELSE frames[i].turn
  PROVE  /\ Stacked' /\ Nested'
         /\ (\A i \in 1..Len(frames) : now <= frames[i].limit)
              => (\A i \in 1..Len(frames) : now <= frames[i].limit)'
<1>1. \A i \in 1..k : i \in 1..Len(frames)
  BY StackShape
<1>2. Stacked'
  <2>1. frames' # <<>> /\ frames'[1].all = plan'
    BY <1>1 DEF Stacked
  <2>2. ASSUME NEW i \in 1..k
        PROVE  /\ frames'[i].turn \in 1..Len(frames'[i].all.list) + 1
               /\ i < k => frames'[i].turn <= Len(frames'[i].all.list)
               /\ frames'[i].began <= now'
    <3>1. /\ frames[i].turn \in 1..Len(frames[i].all.list) + 1
          /\ i < k => frames[i].turn <= Len(frames[i].all.list)
          /\ frames[i].began <= now
      BY <1>1, StackShape DEF Stacked
    <3>2. Len(frames[i].all.list) \in Nat
      <4>1. frames[i].all \in Shapes(Groups)
        BY <1>1, StackShape DEF Frames
      <4>2. QED
        BY <4>1, LenProperties DEF Shapes
    <3>3. QED
      BY <3>1, <3>2
  <2>3. QED
    BY <2>1, <2>2 DEF Stacked
<1>3. Nested'
  <2>1. ASSUME NEW i \in 1..k
        PROVE  /\ frames'[i].limit <= frames'[i].began + frames'[i].all.deadline
               /\ \A j \in 1..i : frames'[i].limit <= frames'[j].limit
               /\ i > 1 /\ frames'[i].all.kind # "tls" /\ frames'[i].all.timeout = Forever
                    => frames'[i].limit <= frames'[i].began + frames'[i - 1].all.timeout
    BY <1>1 DEF Nested
  <2>2. QED
    BY <2>1 DEF Nested
<1>4. QED
  BY <1>1, <1>2, <1>3

\* A strategy passes, and the innermost frame goes on.
LEMMA Passes ==
  ASSUME Stacked, Nested, UNCHANGED <<plan, now>>, Pass,
         Inner.turn <= Len(Inner.all.list)
  PROVE  /\ Stacked' /\ Nested'
         /\ (\A i \in 1..Len(frames) : now <= frames[i].limit)
              => (\A i \in 1..Len(frames) : now <= frames[i].limit)'
<1> DEFINE k == Len(frames)
           f == [frames[k] EXCEPT !.turn = @ + 1]
<1>1. k \in 1..Len(frames) /\ frames[k] \in Frames /\ frames \in Seq(Frames)
  BY StackShape DEF Stacked
<1>2. f \in Frames /\ f.turn = frames[k].turn + 1 /\ f.all = frames[k].all
      /\ f.limit = frames[k].limit /\ f.began = frames[k].began
  BY <1>1, FrameGoesOn
<1>3. frames' = [frames EXCEPT ![k] = f]
  BY DEF Pass
<1> HIDE DEF f
<1>4. frames' \in Seq(Frames) /\ Len(frames') = Len(frames)
      /\ \A i \in 1..Len(frames) : frames'[i] = IF i = k THEN f ELSE frames[i]
  BY <1>1, <1>2, <1>3, ExceptSeq
<1>5. frames[k].turn <= Len(frames[k].all.list)
  BY DEF Inner
<1>6. \A i \in 1..k : /\ frames'[i].all = frames[i].all /\ frames'[i].limit = frames[i].limit
                      /\ frames'[i].began = frames[i].began
                      /\ frames'[i].turn = IF i = k THEN frames[i].turn + 1 ELSE frames[i].turn
  BY <1>2, <1>4
<1> HIDE DEF k
<1>7. Len(frames') = k
  BY <1>4 DEF k
<1>8. QED
  BY <1>1, <1>4, <1>5, <1>6, <1>7, TurnsOn

\* The innermost MultiStrategy is through, and the one around it goes on.
LEMMA Returns ==
  ASSUME Stacked, Nested, UNCHANGED <<plan, now>>, Len(frames) > 1,
         frames' = [Front(frames) EXCEPT ![Len(frames) - 1].turn = @ + 1]
  PROVE  /\ Stacked' /\ Nested'
         /\ (\A i \in 1..Len(frames) : now <= frames[i].limit)
              => (\A i \in 1..Len(frames) : now <= frames[i].limit)'
<1> DEFINE k == Len(frames) - 1
           front == SubSeq(frames, 1, k)
           f == [frames[k] EXCEPT !.turn = @ + 1]
<1>1. k \in 1..Len(frames) /\ frames[k] \in Frames /\ frames \in Seq(Frames) /\ k < Len(frames)
  BY StackShape DEF Stacked
<1>2. f \in Frames /\ f.turn = frames[k].turn + 1 /\ f.all = frames[k].all
      /\ f.limit = frames[k].limit /\ f.began = frames[k].began
  BY <1>1, FrameGoesOn
<1>3. front \in Seq(Frames) /\ Len(front) = k /\ \A i \in 1..k : front[i] = frames[i]
  BY <1>1
<1>4. frames' = [front EXCEPT ![k] = f]
  BY <1>1, <1>3 DEF Front
<1>6. frames[k].turn <= Len(frames[k].all.list)
  BY <1>1 DEF Stacked
<1> HIDE DEF f, front, k
<1>5. frames' \in Seq(Frames) /\ Len(frames') = Len(front)
      /\ \A i \in 1..k : frames'[i] = IF i = k THEN f ELSE front[i]
  <2>1. k \in 1..Len(front)
    BY <1>1, <1>3
  <2>2. /\ [front EXCEPT ![k] = f] \in Seq(Frames)
        /\ Len([front EXCEPT ![k] = f]) = Len(front)
        /\ \A i \in 1..Len(front) : [front EXCEPT ![k] = f][i] = IF i = k THEN f ELSE front[i]
    BY <1>2, <1>3, <2>1, ExceptSeq
  <2>3. QED
    BY <1>3, <1>4, <2>2
<1>7. \A i \in 1..k : /\ frames'[i].all = frames[i].all /\ frames'[i].limit = frames[i].limit
                      /\ frames'[i].began = frames[i].began
                      /\ frames'[i].turn = IF i = k THEN frames[i].turn + 1 ELSE frames[i].turn
  <2>1. \A i \in 1..k : frames'[i] = IF i = k THEN f ELSE frames[i]
    BY <1>3, <1>5
  <2>2. ASSUME NEW i \in 1..k, i = k
        PROVE  /\ frames'[i].all = frames[i].all /\ frames'[i].limit = frames[i].limit
               /\ frames'[i].began = frames[i].began /\ frames'[i].turn = frames[i].turn + 1
    <3>1. frames'[i] = f
      BY <2>1, <2>2
    <3>2. QED
      BY <1>2, <2>2, <3>1
  <2>3. ASSUME NEW i \in 1..k, i # k
        PROVE  frames'[i] = frames[i]
    BY <2>1, <2>3
  <2>4. QED
    BY <1>1, <2>2, <2>3
<1>8. Len(frames') = k
  BY <1>3, <1>5
<1>9. QED
  BY <1>1, <1>5, <1>6, <1>7, <1>8, TurnsOn

\* A MultiStrategy begins inside the innermost one, with a limit that is its own or tighter.
LEMMA Enters ==
  ASSUME Stacked, Nested, UNCHANGED <<plan, now>>, now \in 0..MaxTime,
         Inner.turn <= Len(Inner.all.list),
         \A i \in 1..Len(frames) : now <= frames[i].limit,
         NEW all \in Shapes(Groups),
         all = S \/ (S.kind = "tls" /\ all = Files(S)),
         frames' = Append(frames, Frame(all, OuterLimit(S)))
  PROVE  Stacked' /\ Nested' /\ (\A i \in 1..Len(frames) : now <= frames[i].limit)'
<1> DEFINE n == Len(frames)
           f == Frame(all, OuterLimit(S))
<1>1. n \in Nat /\ n >= 1 /\ frames \in Seq(Frames) /\ Inner \in Frames /\ Inner = frames[n]
  BY StackShape DEF Stacked, Inner
<1>2. Inner.all \in Shapes(Groups) /\ Inner.limit \in 0..Forever /\ S \in Shapes(Kinds \cup Groups)
  BY <1>1, TurnShape DEF Frames
<1>3. /\ OuterLimit(S) \in 0..Forever /\ OuterLimit(S) <= Inner.limit /\ now <= OuterLimit(S)
      /\ S.timeout = Forever /\ S.kind # "tls" => OuterLimit(S) <= now + Inner.all.timeout
  <2>1. Inner.all.timeout \in Nat /\ Forever \in Nat /\ now <= Forever /\ now <= Inner.limit
    <3>1. Forever \in Nat /\ now <= Forever
      BY Numbers
    <3>2. now <= Inner.limit
      BY <1>1
    <3>3. QED
      BY <1>2, <3>1, <3>2 DEF Shapes
  <2>2. /\ After(Inner.all.timeout) \in 0..Forever /\ now <= After(Inner.all.timeout)
        /\ After(Inner.all.timeout) <= now + Inner.all.timeout
    BY <2>1, Afterwards
  <2>3. QED
    BY <1>2, <2>1, <2>2 DEF OuterLimit, Earlier
<1>4. /\ f \in Frames /\ f.all = all /\ f.turn = 1 /\ f.began = now
      /\ f.limit <= OuterLimit(S) /\ f.limit <= now + all.deadline /\ now <= f.limit
  <2>1. all.deadline \in Nat
    BY Numbers DEF Shapes
  <2>2. /\ After(all.deadline) \in 0..Forever /\ now <= After(all.deadline)
        /\ After(all.deadline) <= now + all.deadline
    BY <2>1, Afterwards
  <2>3. /\ Earlier(OuterLimit(S), After(all.deadline)) \in 0..Forever
        /\ Earlier(OuterLimit(S), After(all.deadline)) <= OuterLimit(S)
        /\ Earlier(OuterLimit(S), After(all.deadline)) <= now + all.deadline
        /\ now <= Earlier(OuterLimit(S), After(all.deadline))
    BY <1>3, <2>1, <2>2 DEF Earlier
  <2> HIDE DEF n
  <2>4. QED
    BY <2>3 DEF Frame, Frames
<1>5. all.kind # "tls" /\ all.timeout = Forever => f.limit <= f.began + Inner.all.timeout
  <2>1. all.kind # "tls" => all = S
    <3>1. S.kind = "tls" => Files(S).kind = "tls"
      BY <1>2 DEF Files, Shapes
    <3>2. QED
      BY <3>1
  <2>2. /\ f.limit \in Int /\ OuterLimit(S) \in Int /\ Inner.all.timeout \in Int /\ now \in Int
    BY <1>2, <1>3, <1>4 DEF Frames, Shapes
  <2> HIDE DEF f, n
  <2>3. QED
    BY <1>3, <1>4, <2>1, <2>2
<1> HIDE DEF f
<1>6. /\ frames' \in Seq(Frames) /\ Len(frames') = n + 1 /\ frames'[n + 1] = f
      /\ \A i \in 1..n : frames'[i] = frames[i]
  BY <1>1, <1>4, AppendProperties DEF f
<1> HIDE DEF n
<1>7. Stacked'
  <2>1. frames' # <<>> /\ frames'[1].all = plan'
    BY <1>1, <1>6 DEF Stacked
  <2>2. ASSUME NEW i \in 1..n
        PROVE  /\ frames'[i].turn \in 1..Len(frames'[i].all.list) + 1
               /\ frames'[i].turn <= Len(frames'[i].all.list)
               /\ frames'[i].began <= now'
    BY <1>1, <1>6 DEF Stacked, n
  <2>3. /\ frames'[n + 1].turn \in 1..Len(frames'[n + 1].all.list) + 1
        /\ frames'[n + 1].began <= now'
    <3>1. Len(all.list) \in Nat
      BY LenProperties DEF Shapes
    <3>2. QED
      BY <1>4, <1>6, <3>1
  <2>4. QED
    BY <1>1, <1>6, <2>1, <2>2, <2>3 DEF Stacked
<1>8. /\ \A i \in 1..n : frames[i].limit \in Nat
      /\ f.limit \in Nat /\ OuterLimit(S) \in Nat /\ frames[n].limit \in Nat
  BY <1>1, <1>3, <1>4, StackShape, SMTT(30) DEF Frames, n
<1>9. \A j \in 1..n : f.limit <= frames[j].limit
  BY <1>1, <1>3, <1>4, <1>8 DEF Nested, n
<1>10. Nested'
  <2>1. ASSUME NEW i \in 1..n
        PROVE  /\ frames'[i].limit <= frames'[i].began + frames'[i].all.deadline
               /\ \A j \in 1..i : frames'[i].limit <= frames'[j].limit
               /\ i > 1 /\ frames'[i].all.kind # "tls" /\ frames'[i].all.timeout = Forever
                    => frames'[i].limit <= frames'[i].began + frames'[i - 1].all.timeout
    BY <1>1, <1>6 DEF Nested, n
  <2>2. /\ frames'[n + 1].limit <= frames'[n + 1].began + frames'[n + 1].all.deadline
        /\ \A j \in 1..n + 1 : frames'[n + 1].limit <= frames'[j].limit
        /\ frames'[n + 1].all.kind # "tls" /\ frames'[n + 1].all.timeout = Forever
             => frames'[n + 1].limit <= frames'[n + 1].began + frames'[n].all.timeout
    <3>1. \A j \in 1..n + 1 : j \in 1..n \/ j = n + 1
      BY <1>1
    <3>2. QED
      BY <1>1, <1>4, <1>5, <1>6, <1>8, <1>9, <3>1
  <2>3. QED
    BY <1>1, <1>6, <2>1, <2>2 DEF Nested
<1>11. (\A i \in 1..Len(frames) : now <= frames[i].limit)'
  BY <1>1, <1>4, <1>6 DEF n
<1>12. QED
  BY <1>7, <1>10, <1>11

-----------------------------------------------------------------------------
(* The steps of a strategy that waits.                                     *)

Busy == Waiting /\ w.at # "begin"

\* What a strategy may come to: it stays in its frame and under its limit, and its context has
\* not ended, unless it sleeps or has just slept.
LEMMA Stays ==
  ASSUME WaitInv, Busy, UNCHANGED <<outside, frames, began>>,
         faults' \in 0..MaxFaults,
         w' \in Works, w'.seen <= lines, w'.seen < Entry, w'.limit = w.limit, w'.at # "begin",
         \/ now <= w.limit
         \/ w'.at \in Late /\ now <= w.limit + Oversleep
         \/ w'.at \in {"output", "inspect"} /\ S.kind = "exec",
         w'.at = "output" => S.kind = "exec",
         w'.at = "sleep" => /\ w'.wake <= w.limit + Oversleep /\ now <= w'.wake
                            /\ w'.next \in {"poll", "check", "inspect"},
         outcome' \in {"none", "ready", "timeout", "dead", "error"},
         outcome' = "dead" /\ S.kind = "log" => lines < Entry
  PROVE  WaitInv'
<1>1. Around'
  BY DEF WaitInv, Around, outside, box_vars
<1>2. Stacked' /\ Nested'
  BY DEF WaitInv, Stacked, Nested, outside
<1>3. Looking'
  BY DEF Looking, outside, box_vars
<1>4. Inner' = Inner /\ S' = S
  BY DEF Inner, S
<1>5. Timed'
  <2>1. /\ Inner.turn <= Len(Inner.all.list)
        /\ w.limit <= began + Allowed(Inner.all, S)
        /\ \A i \in 1..Len(frames) : w.limit <= frames[i].limit
    BY DEF WaitInv, Timed, Busy
  <2>2. Allowed(Inner.all, S)' = Allowed(Inner.all, S)
    BY <1>4 DEF Allowed
  <2>3. Commanded' <=> w'.at \in {"output", "inspect"} /\ S.kind = "exec"
    BY <1>4 DEF Commanded
  <2>4. QED
    BY <1>4, <2>1, <2>2, <2>3 DEF Timed, outside
<1>6. LogNotMissed'
  BY <1>4 DEF LogNotMissed, outside, box_vars
<1>7. QED
  BY <1>1, <1>2, <1>3, <1>5, <1>6 DEF WaitInv

\* What is known of a strategy at work.
LEMMA Working ==
  ASSUME WaitInv, Busy
  PROVE  /\ w \in Works /\ w.seen \in Nat /\ w.seen <= lines /\ w.seen < Entry /\ lines \in 0..Entry
         /\ now \in 0..MaxTime /\ w.limit \in Nat /\ w.wake \in Nat
         /\ w.at \notin Late => now <= w.limit
         /\ ~Commanded => now <= w.limit + Oversleep
         /\ \/ now <= w.limit
            \/ w.at \in Late /\ now <= w.limit + Oversleep
            \/ w.at \in {"output", "inspect"} /\ S.kind = "exec"
         /\ w.at = "output" => S.kind = "exec"
         /\ outcome = "none" /\ faults \in 0..MaxFaults
         /\ w.at = "sleep" => /\ w.wake <= w.limit + Oversleep /\ now <= w.wake
                              /\ w.next \in {"poll", "check", "inspect"}
<1>1. /\ w \in Works /\ w.seen <= lines /\ w.seen < Entry /\ lines \in 0..Entry
      /\ now \in 0..MaxTime /\ outcome = "none" /\ faults \in 0..MaxFaults
  BY DEF WaitInv, Around, Looking, Busy, Waiting
<1>2. w.seen \in Nat /\ w.limit \in Nat /\ w.wake \in Nat
  BY <1>1, Numbers DEF Works
<1>3. /\ \/ now <= w.limit
         \/ w.at \in Late /\ now <= w.limit + Oversleep
         \/ Commanded
      /\ w.at = "output" => S.kind = "exec"
      /\ w.at = "sleep" => /\ w.wake <= w.limit + Oversleep /\ now <= w.wake
                           /\ w.next \in {"poll", "check", "inspect"}
  BY DEF WaitInv, Timed, Busy
<1>4. Commanded => w.at \in {"output", "inspect"} /\ S.kind = "exec"
  BY DEF Commanded
<1>5. now <= w.limit => now <= w.limit + Oversleep
  BY <1>1, <1>2, Numbers
<1>6. w.at \notin Late => w.at \notin {"output", "inspect"}
  BY DEF Late
<1>7. QED
  BY <1>1, <1>2, <1>3, <1>4, <1>5, <1>6

\* A call that is made, or that fails, injects one fault at most.
LEMMA FaultsInBounds ==
  ASSUME WaitInv, NoFault \/ Answered \/ Fails
  PROVE  faults' \in 0..MaxFaults
BY Numbers DEF WaitInv, Around, NoFault, Answered, Fails

\* A strategy goes on at another place, where it may be late only if it has just slept, or
\* with its command.
LEMMA Goes ==
  ASSUME WaitInv, Busy, UNCHANGED outside, faults' \in 0..MaxFaults,
         NEW place \in Places \ {"begin", "sleep", "pause"}, Go(place),
         \/ now <= w.limit
         \/ now <= w.limit + Oversleep /\ place \in {"poll", "check", "inspect"}
         \/ place = "inspect" /\ S.kind = "exec",
         place = "output" => S.kind = "exec"
  PROVE  WaitInv'
<1>1. /\ w' \in Works /\ w'.at = place /\ w'.seen = w.seen /\ w'.limit = w.limit
  BY Working DEF Go, Works
<1>2. \/ now <= w.limit
      \/ w'.at \in Late /\ now <= w.limit + Oversleep
      \/ w'.at \in {"output", "inspect"} /\ S.kind = "exec"
  BY <1>1 DEF Late
<1>3. UNCHANGED <<frames, began>> /\ outcome' = "none"
  BY Working DEF Go
<1>4. QED
  BY <1>1, <1>2, <1>3, Working, Stays

\* The wait ends, and a log strategy gives up only on a log that has no entry.
LEMMA Ends ==
  ASSUME WaitInv, Busy, UNCHANGED outside, faults' \in 0..MaxFaults,
         NEW result \in {"ready", "timeout", "dead", "error"}, End(result),
         result = "dead" /\ S.kind = "log" => lines < Entry
  PROVE  WaitInv'
<1>1. UNCHANGED <<frames, began, w>> /\ outcome' = result
  BY DEF End
<1>2. \/ now <= w.limit
      \/ w.at \in Late /\ now <= w.limit + Oversleep
      \/ w.at \in {"output", "inspect"} /\ S.kind = "exec"
  BY Working
<1>3. w.at # "begin"
  BY DEF Busy
<1>4. QED
  BY <1>1, <1>2, <1>3, Working, Stays

\* A strategy sleeps, when its context has not ended before.
LEMMA Sleeps ==
  ASSUME WaitInv, Busy, UNCHANGED outside, faults' \in 0..MaxFaults, now <= w.limit,
         NEW next \in {"poll", "check"}, NEW seen \in Nat, seen <= lines, seen < Entry,
         Sleep(next, seen)
  PROVE  WaitInv'
<1>1. now + Poll \in 0..MaxTime + Oversleep
  BY Working, Numbers
<1>2. /\ w' \in Works /\ w'.at = "sleep" /\ w'.seen = seen /\ w'.limit = w.limit
      /\ w'.wake = now + Poll /\ w'.next = next
  BY <1>1, Working DEF Sleep, Works, Places, Resumes
<1>3. w'.wake <= w.limit + Oversleep /\ now <= w'.wake
  BY <1>2, Working, Numbers
<1>4. UNCHANGED <<frames, began>> /\ outcome' = "none"
  BY Working DEF Sleep
<1>5. QED
  BY <1>2, <1>3, <1>4, Working, Stays

\* Exec sleeps while its command runs, when its context has not ended before.
LEMMA Naps ==
  ASSUME WaitInv, Busy, UNCHANGED outside, faults' \in 0..MaxFaults, now <= w.limit, Nap
  PROVE  WaitInv'
<1>1. now + ExecPoll \in 0..MaxTime + Oversleep
  BY Working, Numbers
<1>2. /\ w' \in Works /\ w'.at = "sleep" /\ w'.seen = w.seen /\ w'.limit = w.limit
      /\ w'.wake = now + ExecPoll /\ w'.next = "inspect"
  BY <1>1, Working DEF Nap, Works, Places, Resumes
<1>3. w'.wake <= w.limit + Oversleep /\ now <= w'.wake
  BY <1>2, Working, Numbers
<1>4. UNCHANGED <<frames, began>> /\ outcome' = "none"
  BY Working DEF Nap
<1>5. QED
  BY <1>2, <1>3, <1>4, Working, Stays

\* A strategy pauses for a timer or for its ticker.
LEMMA Pauses ==
  ASSUME WaitInv, Busy, UNCHANGED outside, faults' \in 0..MaxFaults, now <= w.limit,
         NEW next \in Resumes, Pause(next)
  PROVE  WaitInv'
<1>1. PICK tick \in Ticks :
        w' = [w EXCEPT !.at = "pause", !.next = next, !.wake = tick, !.until = tick + Poll]
  BY DEF Pause
<1>2. tick \in 0..MaxTime + Oversleep /\ tick + Poll \in 0..MaxTime + Poll + Poll
  <2>1. now \in 0..MaxTime /\ Poll \in Nat /\ MaxTime \in Nat
    BY Working, Numbers
  <2>2. tick \in now..now + Poll
    BY <2>1 DEF Ticks
  <2>3. QED
    BY <2>1, <2>2, Numbers
<1>3. w' \in Works /\ w'.at = "pause" /\ w'.seen = w.seen /\ w'.limit = w.limit
  BY <1>1, <1>2, Working DEF Works, Places
<1>4. UNCHANGED <<frames, began>> /\ outcome' = "none"
  BY Working DEF Pause
<1>5. QED
  BY <1>3, <1>4, Working, Stays

\* A strategy is content, when its context has not ended.
LEMMA Succeeds ==
  ASSUME WaitInv, Busy, UNCHANGED outside, faults' \in 0..MaxFaults, now <= w.limit, Pass
  PROVE  WaitInv'
<1>1. Inner.turn <= Len(Inner.all.list) /\ \A i \in 1..Len(frames) : w.limit <= frames[i].limit
  BY DEF WaitInv, Timed, Busy
<1>2. \A i \in 1..Len(frames) : now <= frames[i].limit
  <2>1. ASSUME NEW i \in 1..Len(frames)
        PROVE  frames[i].limit \in Nat
    BY StackShape, Numbers DEF WaitInv, Frames
  <2>2. QED
    BY <1>1, <2>1, Working
<1>3. Stacked' /\ Nested' /\ (\A i \in 1..Len(frames) : now <= frames[i].limit)'
  BY <1>1, <1>2, Passes DEF WaitInv, outside
<1>4. /\ w' \in Works /\ w'.at = "begin" /\ w'.seen = w.seen
  BY Working DEF Pass, Works, Places
<1>5. outcome' = "none"
  BY Working DEF Pass
<1>6. Around'
  BY <1>5 DEF WaitInv, Around, outside, box_vars, Pass
<1>7. Looking' /\ Timed' /\ LogNotMissed'
  BY <1>3, <1>4, <1>5, Working DEF Looking, Timed, LogNotMissed, outside, box_vars
<1>8. QED
  BY <1>3, <1>6, <1>7 DEF WaitInv

-----------------------------------------------------------------------------
(* The actions.                                                            *)

\* A strategy that is at one of its places is at work, and if it has not just slept, its
\* context has not ended before.
LEMMA Placed ==
  ASSUME WaitInv, NEW kinds, NEW place \in Places \ {"begin"}, At(kinds, place)
  PROVE  /\ Busy /\ S.kind \in kinds /\ w.at = place
         /\ place \notin Late => now <= w.limit
         /\ Answered => now <= w.limit /\ NoFault
         /\ ~Expired => now <= w.limit
<1>1. Busy /\ S.kind \in kinds /\ w.at = place
  BY DEF At, Busy
<1>2. ~Expired => now <= w.limit
  BY <1>1, Working DEF Expired
<1>3. QED
  BY <1>1, <1>2, Working DEF Answered

\* The context is looked at before a poll.
LEMMA SelectKeeps == ASSUME WaitInv, Select PROVE WaitInv'
<1>1. At(PollFirst, "poll") /\ "poll" \in Places \ {"begin"}
  BY DEF Select, Places
<1>2. Busy /\ (~Expired => now <= w.limit)
  BY <1>1, Placed
<1>3. faults' \in 0..MaxFaults /\ UNCHANGED outside
  BY FaultsInBounds DEF Select
<1>4. CASE Expired
  <2>1. End("timeout")
    BY <1>4 DEF Select
  <2>2. QED
    BY <1>2, <1>3, <2>1, Ends
<1>5. CASE ~Expired
  <2>1. Go("state") /\ "state" \in Places \ {"begin", "sleep", "pause"}
    BY <1>5 DEF Select, Places
  <2>2. QED
    BY <1>2, <1>3, <1>5, <2>1, Goes
<1>6. QED
  BY <1>4, <1>5

\* A strategy that slept wakes where it looks at its context or at the container first.
LEMMA WakeKeeps == ASSUME WaitInv, Wake PROVE WaitInv'
<1>1. Busy /\ w.at \in {"sleep", "pause"} /\ Go(w.next) /\ UNCHANGED outside
  BY DEF Wake, Busy
<1>2. faults' \in 0..MaxFaults
  BY FaultsInBounds DEF Wake
<1>3. w.next \in Places \ {"begin", "sleep", "pause"}
  BY <1>1, Working DEF Works, Resumes, Places
<1>4. now <= w.limit \/ (now <= w.limit + Oversleep /\ w.next \in {"poll", "check", "inspect"})
  BY <1>1, Working DEF Late
<1>5. w.next # "output"
  BY <1>1, Working DEF Works, Resumes
<1>6. QED
  BY <1>1, <1>2, <1>3, <1>4, <1>5, Goes

\* A pause is cut short when the context ends.
LEMMA PauseExpiresKeeps == ASSUME WaitInv, PauseExpires PROVE WaitInv'
<1>1. Busy /\ End("timeout") /\ UNCHANGED outside /\ faults' \in 0..MaxFaults
  BY FaultsInBounds DEF PauseExpires, Busy
<1>2. QED
  BY <1>1, Ends

\* Health: what the container's state says, with a nap when it is not healthy yet.
LEMMA HealthStateKeeps == ASSUME WaitInv, HealthState PROVE WaitInv'
<1>1. At({"health"}, "state") /\ "state" \in Places \ {"begin"} /\ "state" \notin Late
  BY DEF HealthState, Places, Late
<1>2. Busy /\ S.kind = "health" /\ now <= w.limit
  BY <1>1, Placed
<1>3. faults' \in 0..MaxFaults /\ UNCHANGED outside
  BY FaultsInBounds DEF HealthState
<1>4. CASE End("error") \/ End("dead")
  BY <1>2, <1>3, <1>4, Ends
<1>5. CASE Pass
  BY <1>2, <1>3, <1>5, Succeeds
<1>6. CASE Sleep("poll", w.seen)
  BY <1>2, <1>3, <1>6, Working, Sleeps
<1>7. QED
  BY <1>4, <1>5, <1>6 DEF HealthState

\* Exit: the same, without a dead end.
LEMMA ExitStateKeeps == ASSUME WaitInv, ExitState PROVE WaitInv'
<1>1. At({"exit"}, "state") /\ "state" \in Places \ {"begin"} /\ "state" \notin Late
  BY DEF ExitState, Places, Late
<1>2. Busy /\ S.kind = "exit" /\ now <= w.limit
  BY <1>1, Placed
<1>3. faults' \in 0..MaxFaults /\ UNCHANGED outside
  BY FaultsInBounds DEF ExitState
<1>4. CASE End("error")
  BY <1>2, <1>3, <1>4, Ends
<1>5. CASE Pass
  BY <1>2, <1>3, <1>5, Succeeds
<1>6. CASE Sleep("poll", w.seen)
  BY <1>2, <1>3, <1>6, Working, Sleeps
<1>7. QED
  BY <1>4, <1>5, <1>6 DEF ExitState

\* Log: the container's state is kept for later.
LEMMA LogStateKeeps == ASSUME WaitInv, LogState PROVE WaitInv'
<1>1. At({"log"}, "state") /\ "state" \in Places \ {"begin"} /\ "state" \notin Late
  BY DEF LogState, Places, Late
<1>2. Busy /\ now <= w.limit
  BY <1>1, Placed
<1>3. PICK state \in {"ok", "dead", "error"} :
        (Fails \/ Answered) /\ w' = [w EXCEPT !.at = "read", !.checked = state]
  BY DEF LogState
<1>4. UNCHANGED <<frames, began, outcome, outside>> /\ faults' \in 0..MaxFaults
  BY <1>3, FaultsInBounds DEF LogState
<1>5. w' \in Works /\ w'.at = "read" /\ w'.seen = w.seen /\ w'.limit = w.limit
  BY <1>2, <1>3, Working DEF Works, Places
<1>6. outcome' = "none"
  BY <1>2, <1>4, Working
<1>7. QED
  BY <1>2, <1>4, <1>5, <1>6, Working, Stays

\* Log: a dead container is given up only when its log has not grown since it was last
\* looked through, in vain.
LEMMA LogReadKeeps == ASSUME WaitInv, LogRead PROVE WaitInv'
<1>1. At({"log"}, "read") /\ "read" \in Places \ {"begin"} /\ "read" \notin Late
  BY DEF LogRead, Places, Late
<1>2. Busy /\ now <= w.limit
  BY <1>1, Placed
<1>3. faults' \in 0..MaxFaults /\ UNCHANGED outside
  BY FaultsInBounds DEF LogRead
<1>4. CASE Sleep("poll", w.seen)
  BY <1>2, <1>3, <1>4, Working, Sleeps
<1>5. CASE lines = w.seen /\ w.checked # "ok" /\ End(w.checked)
  <2>1. w.checked \in {"dead", "error"}
    BY <1>2, <1>5, Working DEF Works
  <2>2. lines < Entry
    BY <1>2, <1>5, Working
  <2>3. QED
    BY <1>2, <1>3, <1>5, <2>1, <2>2, Ends
<1>6. CASE Pass
  BY <1>2, <1>3, <1>6, Succeeds
<1>7. CASE End("error")
  BY <1>2, <1>3, <1>7, Ends
<1>8. CASE lines < Entry /\ Sleep("poll", lines)
  <2>1. lines \in Nat
    BY <1>2, Working, Numbers
  <2>2. QED
    BY <1>2, <1>3, <1>8, <2>1, Sleeps
<1>9. QED
  BY <1>4, <1>5, <1>6, <1>7, <1>8 DEF LogRead

\* Exec fails: a command that takes too long is asked again.
LEMMA ExecFailsKeeps ==
  ASSUME WaitInv, NEW place \in Places \ {"begin"}, At({"exec"}, place), ExecFails,
         UNCHANGED outside
  PROVE  WaitInv'
<1>1. Busy /\ S.kind = "exec" /\ (~Expired => now <= w.limit)
  BY Placed
<1>2. faults' \in 0..MaxFaults
  BY FaultsInBounds DEF ExecFails
<1>3. CASE End("timeout") \/ End("error")
  BY <1>1, <1>2, <1>3, Ends
<1>4. CASE ~Expired /\ Pause("ask")
  <2>1. "ask" \in Resumes
    BY DEF Resumes
  <2>2. QED
    BY <1>1, <1>2, <1>4, <2>1, Pauses
<1>5. QED
  BY <1>3, <1>4 DEF ExecFails

\* Exec: the command is started.
LEMMA ExecAskKeeps == ASSUME WaitInv, ExecAsk PROVE WaitInv'
<1>1. /\ At({"exec"}, "ask") /\ "ask" \in Places \ {"begin"}
      /\ "output" \in Places \ {"begin", "sleep", "pause"}
  BY DEF ExecAsk, Places
<1>2. UNCHANGED outside
  BY DEF ExecAsk
<1>3. CASE ExecFails
  BY <1>1, <1>2, <1>3, ExecFailsKeeps
<1>4. CASE Answered /\ Go("output")
  <2>1. Busy /\ S.kind = "exec" /\ now <= w.limit
    BY <1>1, <1>4, Placed
  <2>2. QED
    BY <1>1, <1>2, <1>4, <2>1, FaultsInBounds, Goes
<1>5. QED
  BY <1>3, <1>4 DEF ExecAsk

\* The command ends its output, however late.
LEMMA OutputEndsKeeps == ASSUME WaitInv, OutputEnds PROVE WaitInv'
<1>1. /\ At({"exec"}, "output") /\ "output" \in Places \ {"begin"} /\ Go("inspect")
      /\ "inspect" \in Places \ {"begin", "sleep", "pause"}
  BY DEF OutputEnds, Places
<1>2. Busy /\ S.kind = "exec"
  BY <1>1, Placed
<1>3. faults' \in 0..MaxFaults /\ UNCHANGED outside
  BY FaultsInBounds DEF OutputEnds
<1>4. QED
  BY <1>1, <1>2, <1>3, Goes

\* Exec: the command's end is judged, unless it is too late for that.
LEMMA ExecInspectKeeps == ASSUME WaitInv, ExecInspect PROVE WaitInv'
<1>1. At({"exec"}, "inspect") /\ "inspect" \in Places \ {"begin"} /\ "ask" \in Resumes
  BY DEF ExecInspect, Places, Resumes
<1>2. UNCHANGED outside
  BY DEF ExecInspect
<1>3. CASE ExecFails
  BY <1>1, <1>2, <1>3, ExecFailsKeeps
<1>4. CASE Answered /\ (Nap \/ Pass \/ Pause("ask"))
  <2>1. Busy /\ now <= w.limit
    BY <1>1, <1>4, Placed
  <2>2. faults' \in 0..MaxFaults
    BY <1>4, FaultsInBounds
  <2>3. CASE Nap
    BY <1>2, <2>1, <2>2, <2>3, Naps
  <2>4. CASE Pass
    BY <1>2, <2>1, <2>2, <2>4, Succeeds
  <2>5. CASE Pause("ask")
    BY <1>1, <1>2, <2>1, <2>2, <2>5, Pauses
  <2>6. QED
    BY <1>4, <2>3, <2>4, <2>5
<1>5. QED
  BY <1>3, <1>4 DEF ExecInspect

\* File: asked for until it is there, and judged then.
LEMMA FileAskKeeps == ASSUME WaitInv, FileAsk PROVE WaitInv'
<1>1. At({"file"}, "ask") /\ "ask" \in Places \ {"begin"} /\ "ask" \notin Late /\ "ask" \in Resumes
  BY DEF FileAsk, Places, Late, Resumes
<1>2. Busy /\ S.kind = "file" /\ now <= w.limit
  BY <1>1, Placed
<1>3. faults' \in 0..MaxFaults /\ UNCHANGED outside
  BY FaultsInBounds DEF FileAsk
<1>4. CASE End("error")
  BY <1>2, <1>3, <1>4, Ends
<1>5. CASE Pass
  BY <1>2, <1>3, <1>5, Succeeds
<1>6. CASE Pause("ask")
  BY <1>1, <1>2, <1>3, <1>6, Pauses
<1>7. QED
  BY <1>4, <1>5, <1>6 DEF FileAsk

\* The strategies that look for a port take their steps, or give up with an error.
LEMMA PortStepsKeep == ASSUME WaitInv, Host \/ Detect \/ MapPort PROVE WaitInv'
<1>1. /\ {"host", "detect", "map", "check", "inside"} \subseteq Places \ {"begin", "sleep", "pause"}
      /\ {"recheck", "check", "remap"} \subseteq Resumes
      /\ {"host", "detect", "map"} \intersect Late = {}
  BY DEF Places, Late, Resumes
<1>2. PICK place \in {"host", "detect", "map"} : At({"service", "port"}, place)
  BY DEF Host, Detect, MapPort
<1>3. Busy /\ S.kind \in {"service", "port"} /\ now <= w.limit
  BY <1>1, <1>2, Placed
<1>4. faults' \in 0..MaxFaults /\ UNCHANGED outside
  BY FaultsInBounds DEF Host, Detect, MapPort
<1>5. ASSUME NEW next \in {"host", "check", "map", "inside"}, Go(next)
      PROVE  WaitInv'
  BY <1>1, <1>3, <1>4, <1>5, Goes
<1>6. ASSUME NEW next \in {"recheck", "check", "remap"}, Pause(next)
      PROVE  WaitInv'
  BY <1>1, <1>3, <1>4, <1>6, Pauses
<1>7. CASE End("error")
  BY <1>3, <1>4, <1>7, Ends
<1>8. CASE Pass
  BY <1>3, <1>4, <1>8, Succeeds
<1>9. CASE Host
  BY <1>5, <1>6, <1>7, <1>9 DEF Host
<1>10. CASE Detect
  BY <1>5, <1>6, <1>7, <1>10 DEF Detect
<1>11. CASE MapPort
  BY <1>5, <1>6, <1>8, <1>11 DEF MapPort, FirstCheck
<1>12. QED
  BY <1>9, <1>10, <1>11

\* checkTarget: on to the next place if the container runs.
LEMMA CheckTargetKeeps ==
  ASSUME WaitInv, NEW kinds, NEW place \in Places \ {"begin"},
         NEW next \in Places \ {"begin", "sleep", "pause"}, CheckTarget(kinds, place, next),
         "log" \notin kinds, next # "output"
  PROVE  WaitInv'
<1>1. At(kinds, place)
  BY DEF CheckTarget
<1>2. Busy /\ S.kind \in kinds /\ (Answered => now <= w.limit)
  BY <1>1, Placed
<1>3. faults' \in 0..MaxFaults /\ UNCHANGED outside
  BY FaultsInBounds DEF CheckTarget
<1>4. CASE End("error") \/ End("dead")
  BY <1>2, <1>3, <1>4, Ends
<1>5. CASE Answered /\ Go(next)
  BY <1>2, <1>3, <1>5, Goes
<1>6. QED
  BY <1>4, <1>5 DEF CheckTarget

\* The checks of the container on the way to a port.
LEMMA ChecksKeep == ASSUME WaitInv, Recheck \/ Remap \/ Check PROVE WaitInv'
<1>1. /\ {"recheck", "remap", "check"} \subseteq Places \ {"begin"}
      /\ {"detect", "map", "ask"} \subseteq Places \ {"begin", "sleep", "pause"}
      /\ "log" \notin {"service", "port"}
  BY DEF Places
<1>2. CASE Recheck
  BY <1>1, <1>2, CheckTargetKeeps DEF Recheck
<1>3. CASE Remap
  BY <1>1, <1>3, CheckTargetKeeps DEF Remap
<1>4. CASE Check
  BY <1>1, <1>4, CheckTargetKeeps DEF Check
<1>5. QED
  BY <1>2, <1>3, <1>4

\* SQL and HTTP: whatever goes wrong, they try again.
LEMMA ServiceAskKeeps == ASSUME WaitInv, ServiceAsk PROVE WaitInv'
<1>1. /\ At({"service"}, "ask") /\ "ask" \in Places \ {"begin"} /\ "ask" \notin Late
      /\ "check" \in Resumes
  BY DEF ServiceAsk, Places, Late, Resumes
<1>2. Busy /\ now <= w.limit
  BY <1>1, Placed
<1>3. faults' \in 0..MaxFaults /\ UNCHANGED outside
  BY FaultsInBounds DEF ServiceAsk
<1>4. CASE Pass
  BY <1>2, <1>3, <1>4, Succeeds
<1>5. CASE Pause("check")
  BY <1>1, <1>2, <1>3, <1>5, Pauses
<1>6. QED
  BY <1>4, <1>5 DEF ServiceAsk

\* A port is dialled, from outside and from inside.
LEMMA DialKeeps == ASSUME WaitInv, Dial PROVE WaitInv'
<1>1. /\ At({"port"}, "ask") /\ "ask" \in Places \ {"begin"} /\ "ask" \notin Late
      /\ "inside" \in Places \ {"begin", "sleep", "pause"}
  BY DEF Dial, Places, Late
<1>2. Busy /\ S.kind = "port" /\ now <= w.limit
  BY <1>1, Placed
<1>3. faults' \in 0..MaxFaults /\ UNCHANGED outside
  BY FaultsInBounds DEF Dial
<1>4. CASE End("error")
  BY <1>2, <1>3, <1>4, Ends
<1>5. CASE Sleep("check", w.seen)
  BY <1>2, <1>3, <1>5, Working, Sleeps
<1>6. CASE Pass
  BY <1>2, <1>3, <1>6, Succeeds
<1>7. CASE Go("inside")
  BY <1>1, <1>2, <1>3, <1>7, Goes
<1>8. QED
  BY <1>4, <1>5, <1>6, <1>7 DEF Dial

\* The loop of the check from inside ends with its context.
LEMMA InsideKeeps == ASSUME WaitInv, Inside PROVE WaitInv'
<1>1. /\ "inside" \in Places \ {"begin"} /\ "exec" \in Places \ {"begin", "sleep", "pause"}
      /\ "log" \notin {"port"}
  BY DEF Places
<1>2. CASE At({"port"}, "inside") /\ End("timeout") /\ NoFault /\ UNCHANGED outside
  BY <1>1, <1>2, Placed, FaultsInBounds, Ends
<1>3. CASE CheckTarget({"port"}, "inside", "exec")
  BY <1>1, <1>3, CheckTargetKeeps
<1>4. QED
  BY <1>2, <1>3 DEF Inside

\* The command that looks for the port from inside.
LEMMA InsideExecKeeps == ASSUME WaitInv, InsideExec PROVE WaitInv'
<1>1. /\ At({"port"}, "exec") /\ "exec" \in Places \ {"begin"} /\ "exec" \notin Late
      /\ "inspect" \in Places \ {"begin", "sleep", "pause"}
  BY DEF InsideExec, Places, Late
<1>2. Busy /\ S.kind = "port" /\ now <= w.limit
  BY <1>1, Placed
<1>3. faults' \in 0..MaxFaults /\ UNCHANGED outside
  BY FaultsInBounds DEF InsideExec
<1>4. CASE End("error")
  BY <1>2, <1>3, <1>4, Ends
<1>5. CASE Go("inspect")
  BY <1>1, <1>2, <1>3, <1>5, Goes
<1>6. QED
  BY <1>4, <1>5 DEF InsideExec

\* And what it found.
LEMMA InsideInspectKeeps == ASSUME WaitInv, InsideInspect PROVE WaitInv'
<1>1. /\ At({"port"}, "inspect") /\ "inspect" \in Places \ {"begin"}
      /\ "inside" \in Places \ {"begin", "sleep", "pause"}
  BY DEF InsideInspect, Places
<1>2. Busy /\ S.kind = "port" /\ (Answered => now <= w.limit)
  BY <1>1, Placed
<1>3. faults' \in 0..MaxFaults /\ UNCHANGED outside
  BY FaultsInBounds DEF InsideInspect
<1>4. CASE End("error")
  BY <1>2, <1>3, <1>4, Ends
<1>5. CASE Answered /\ Nap
  BY <1>2, <1>3, <1>5, Naps
<1>6. CASE Answered /\ Pass
  BY <1>2, <1>3, <1>6, Succeeds
<1>7. CASE Answered /\ Go("inside")
  BY <1>1, <1>2, <1>3, <1>7, Goes
<1>8. QED
  BY <1>4, <1>5, <1>6, <1>7 DEF InsideInspect

\* The user's function returns.
LEMMA UserKeeps == ASSUME WaitInv, User PROVE WaitInv'
<1>1. At({"nop"}, "user") /\ "user" \in Places \ {"begin"} /\ "user" \notin Late
  BY DEF User, Places, Late
<1>2. Busy /\ now <= w.limit
  BY <1>1, Placed
<1>3. faults' \in 0..MaxFaults /\ UNCHANGED outside
  BY FaultsInBounds DEF User
<1>4. CASE Pass
  BY <1>2, <1>3, <1>4, Succeeds
<1>5. CASE End("error")
  BY <1>2, <1>3, <1>5, Ends
<1>6. QED
  BY <1>4, <1>5 DEF User

-----------------------------------------------------------------------------
(* Turns begin and end.                                                    *)

\* At the beginning of a turn no context has ended.
LEMMA Beginning ==
  ASSUME WaitInv, Waiting, w.at = "begin"
  PROVE  /\ \A i \in 1..Len(frames) : now <= frames[i].limit
         /\ now \in 0..MaxTime /\ w \in Works /\ w.seen <= lines /\ w.seen < Entry
         /\ lines \in 0..Entry /\ faults \in 0..MaxFaults /\ outcome = "none"
         /\ now <= Inner.limit
<1>1. now <= Inner.limit
  BY StackShape DEF WaitInv, Timed, Inner
<1>2. QED
  BY <1>1 DEF WaitInv, Around, Looking, Timed, Waiting

\* The context of a strategy ends neither later than the one around it nor than its timeout
\* allows, and not before it began.
LEMMA StartsInTime ==
  ASSUME WaitInv, Waiting, w.at = "begin", Inner.turn <= Len(Inner.all.list),
         S.kind \in Kinds \ {"nil"}
  PROVE  /\ LimitOf(S) \in 0..Forever /\ now <= LimitOf(S)
         /\ LimitOf(S) <= Inner.limit /\ LimitOf(S) <= now + Allowed(Inner.all, S)
<1>1. /\ Inner.limit \in 0..Forever /\ now <= Inner.limit /\ Inner.all.timeout \in 0..Forever
      /\ S.timeout \in 0..Forever /\ now \in 0..MaxTime
  <2>1. Inner \in Frames /\ S \in Shapes(Kinds \cup Groups)
    BY StackShape, TurnShape DEF WaitInv
  <2>2. Inner.all \in Shapes(Groups)
    BY <2>1 DEF Frames
  <2>3. QED
    BY <2>1, <2>2, Beginning DEF Frames, Shapes
<1> DEFINE timeout == S.timeout
           kind == S.kind
           around == Inner.all.timeout
           inner == Inner.limit
           outer == OuterLimit(S)
<1>2. \A time \in 0..Forever :
        /\ After(time) \in 0..Forever /\ now <= After(time) /\ After(time) <= now + time
  <2>1. ASSUME NEW time \in 0..Forever
        PROVE  time \in Nat
    BY Numbers
  <2>2. QED
    BY <1>1, <2>1, Afterwards
<1>3. DefaultTimeout \in 0..Forever
  BY Numbers
<1>4. kind # "tls"
  BY DEF Kinds, PollFirst
<1>5. /\ outer \in 0..Forever /\ now <= outer /\ outer <= inner
      /\ timeout = Forever => outer <= now + around
  <2>1. /\ After(around) \in 0..Forever /\ now <= After(around) /\ After(around) <= now + around
    BY <1>1, <1>2
  <2>2. now <= Forever /\ Forever \in Nat /\ now \in Nat
    BY <1>1, Numbers
  <2>3. QED
    BY <1>1, <1>4, <2>1, <2>2 DEF OuterLimit, Earlier
<1> DEFINE own == CASE kind = "nop"                                      -> Forever
                    [] kind \notin {"nop", "exit"} /\ timeout = Forever   -> After(DefaultTimeout)
                    [] OTHER                                             -> After(timeout)
<1>6. LimitOf(S) = Earlier(outer, own)
  BY DEF LimitOf
<1> HIDE DEF outer
<1>7. /\ kind = "nop" => own = Forever
      /\ kind # "nop" /\ kind # "exit" /\ timeout = Forever => own = After(DefaultTimeout)
      /\ kind # "nop" /\ (kind = "exit" \/ timeout # Forever) => own = After(timeout)
  OBVIOUS
<1>8. own \in 0..Forever /\ now <= own
  <2>1. now <= Forever /\ Forever \in 0..Forever
    BY <1>1, Numbers
  <2>2. QED
    BY <1>1, <1>2, <1>3, <1>7, <2>1
<1> DEFINE allowed == Allowed(Inner.all, S)
<1>9. /\ timeout # Forever /\ kind # "nop" => allowed = timeout
      /\ timeout # Forever /\ kind = "nop" => allowed = Forever
      /\ timeout = Forever /\ kind \in {"exit", "nop"} => allowed = around
      /\ timeout = Forever /\ kind \notin {"exit", "nop"}
           => allowed = IF around = Forever THEN DefaultTimeout ELSE around
  BY <1>4 DEF Allowed, Kinds, PollFirst, Groups
<1> HIDE DEF own, allowed
<1>10. LimitOf(S) \in 0..Forever /\ now <= LimitOf(S) /\ LimitOf(S) <= outer /\ LimitOf(S) <= own
  BY <1>5, <1>6, <1>8 DEF Earlier
<1>11. LimitOf(S) <= now + allowed
  <2>1. /\ LimitOf(S) \in Nat /\ now \in Nat /\ around \in Nat /\ timeout \in Nat /\ Forever \in Nat
        /\ DefaultTimeout \in Nat /\ outer \in Nat /\ own \in Nat /\ inner \in Nat
    BY <1>1, <1>3, <1>5, <1>8, <1>10, Numbers
  <2> DEFINE limit == LimitOf(S)
  <2> HIDE DEF limit, timeout, kind, around, inner
  <2>2. limit \in 0..Forever /\ limit <= outer /\ limit <= own
    BY <1>10 DEF limit
  <2>3. CASE timeout # Forever /\ kind # "nop"
    <3>1. own <= now + timeout
      BY <1>1, <1>2, <1>7, <2>3 DEF timeout
    <3>2. QED
      BY <1>9, <2>1, <2>2, <2>3, <3>1 DEF limit
  <2>4. CASE timeout # Forever /\ kind = "nop"
    BY <1>9, <2>1, <2>2, <2>4 DEF limit
  <2>5. CASE timeout = Forever /\ kind \in {"exit", "nop"}
    BY <1>5, <1>9, <2>1, <2>2, <2>5 DEF limit
  <2>6. CASE timeout = Forever /\ kind \notin {"exit", "nop"}
    <3>1. own <= now + DefaultTimeout
      BY <1>2, <1>3, <1>7, <2>6
    <3>2. allowed = around \/ allowed = DefaultTimeout
      BY <1>9, <2>6
    <3>3. QED
      BY <1>5, <2>1, <2>2, <2>6, <3>1, <3>2 DEF limit
  <2>7. QED
    BY <2>3, <2>4, <2>5, <2>6
<1>12. QED
  BY <1>1, <1>5, <1>10, <1>11, Numbers DEF allowed

\* The first place of a strategy is none at which its context may have ended unseen.
LEMMA FirstPlaces ==
  ASSUME NEW s, s.kind \in Kinds \ {"nil"}
  PROVE  FirstPlace(s) \in Places \ {"begin", "sleep", "output"}
<1>1. CASE s.kind \in PollFirst
  BY <1>1 DEF FirstPlace, PollFirst, Places
<1>2. CASE s.kind \in {"exec", "file"}
  BY <1>2 DEF FirstPlace, PollFirst, Places
<1>3. CASE s.kind = "service"
  BY <1>3 DEF FirstPlace, PollFirst, Places
<1>4. CASE s.kind = "port"
  BY <1>4 DEF FirstPlace, PollFirst, Places
<1>5. CASE s.kind = "nop"
  BY <1>5 DEF FirstPlace, PollFirst, Places
<1>6. QED
  BY <1>1, <1>2, <1>3, <1>4, <1>5 DEF Kinds

\* A turn begins: nil is skipped, a group is entered, and any other strategy starts under the
\* tightest of its limits.
LEMMA BeginTurnKeeps == ASSUME WaitInv, BeginTurn PROVE WaitInv'
<1>1. /\ Waiting /\ w.at = "begin" /\ UNCHANGED outside /\ faults' = faults
      /\ Inner.turn <= Len(Inner.all.list)
  <2>1. Inner.turn <= Len(Inner.all.list)
    BY DEF BeginTurn
  <2>2. QED
    BY <2>1 DEF BeginTurn, NoFault
<1>2. S \in Shapes(Kinds \cup Groups)
  BY <1>1, TurnShape DEF WaitInv
<1>3. CASE S.kind = "nil" /\ Pass
  <2>1. Stacked' /\ Nested' /\ (\A i \in 1..Len(frames) : now <= frames[i].limit)'
    BY <1>1, <1>3, Beginning, Passes DEF WaitInv, outside
  <2>2. w' \in Works /\ w'.at = "begin" /\ w'.seen = w.seen /\ outcome' = "none" /\ began' = began
    BY <1>1, <1>3, Beginning DEF Pass, Works
  <2>3. Around' /\ Looking' /\ Timed' /\ LogNotMissed'
    BY <1>1, <2>1, <2>2, Beginning
       DEF WaitInv, Around, Looking, Timed, LogNotMissed, outside, box_vars
  <2>4. QED
    BY <2>1, <2>3 DEF WaitInv
<1>4. CASE S.kind \in Kinds \ {"nil"} /\ w' = Start(S) /\ began' = now /\ UNCHANGED <<frames, outcome>>
  <2>1. FirstPlace(S) \in Places \ {"begin", "sleep", "output"}
    BY <1>4, FirstPlaces
  <2>2. /\ LimitOf(S) \in 0..Forever /\ now <= LimitOf(S)
        /\ LimitOf(S) <= Inner.limit /\ LimitOf(S) <= now + Allowed(Inner.all, S)
    BY <1>1, <1>4, StartsInTime
  <2>3. now + Poll \in 0..MaxTime + Oversleep /\ now + Poll + Poll \in 0..MaxTime + Poll + Poll
    BY <1>1, Beginning, Numbers
  <2>4. /\ w' \in Works /\ w'.at = FirstPlace(S) /\ w'.limit = LimitOf(S) /\ w'.seen = 0
    BY <1>4, <2>1, <2>2, <2>3 DEF Start, Works, Resumes
  <2>5. Stacked' /\ Nested'
    BY <1>1, <1>4 DEF WaitInv, Stacked, Nested, outside
  <2>6. Around'
    BY <1>1, <1>4, Beginning DEF WaitInv, Around, outside, box_vars
  <2>7. Looking' /\ LogNotMissed'
    BY <1>1, <1>4, <2>4, Beginning, Numbers
       DEF Looking, LogNotMissed, outside, box_vars
  <2>8. ASSUME NEW i \in 1..Len(frames)
        PROVE  LimitOf(S) <= frames[i].limit
    <3>1. Inner.limit <= frames[i].limit
      BY StackShape DEF WaitInv, Nested, Inner
    <3>2. Inner.limit \in Int /\ frames[i].limit \in Int /\ LimitOf(S) \in Int
      BY <2>2, StackShape DEF WaitInv, Frames
    <3>3. QED
      BY <2>2, <3>1, <3>2
  <2>9. Timed'
    <3>1. Inner' = Inner /\ S' = S /\ now' = now
      BY <1>1, <1>4 DEF Inner, S, outside
    <3>2. Allowed(Inner.all, S)' = Allowed(Inner.all, S)
      BY <3>1 DEF Allowed
    <3>3. w'.at # "begin" /\ w'.at # "sleep" /\ w'.at # "output"
      BY <2>1, <2>4
    <3>4. w'.limit <= began' + Allowed(Inner.all, S)
      BY <1>4, <2>2, <2>4
    <3>5. \A i \in 1..Len(frames') : w'.limit <= frames'[i].limit
      BY <1>4, <2>4, <2>8
    <3>6. QED
      BY <1>1, <2>2, <2>4, <3>1, <3>2, <3>3, <3>4, <3>5 DEF Timed
  <2>10. QED
    BY <2>5, <2>6, <2>7, <2>9 DEF WaitInv
<1>5. CASE /\ S.kind \in Groups /\ UNCHANGED <<w, began, outcome>>
           /\ LET all == IF S.kind = "tls" THEN Files(S) ELSE S IN
              frames' = Append(frames, Frame(all, OuterLimit(S)))
  <2> DEFINE all == IF S.kind = "tls" THEN Files(S) ELSE S
  <2>1. all \in Shapes(Groups) /\ (all = S \/ (S.kind = "tls" /\ all = Files(S)))
    <3>1. CASE S.kind = "tls"
      <4>1. S \in Shapes({"tls"})
        BY <1>2, <3>1 DEF Shapes
      <4>2. QED
        BY <3>1, <4>1, FilesShape
    <3>2. CASE S.kind # "tls"
      <4>1. S \in Shapes(Groups)
        BY <1>2, <1>5 DEF Shapes
      <4>2. QED
        BY <3>2, <4>1
    <3>3. QED
      BY <3>1, <3>2
  <2>2. frames' = Append(frames, Frame(all, OuterLimit(S)))
    BY <1>5
  <2> HIDE DEF all
  <2>3. Stacked' /\ Nested' /\ (\A i \in 1..Len(frames) : now <= frames[i].limit)'
    BY <1>1, <2>1, <2>2, Beginning, Enters DEF WaitInv, outside
  <2>4. Around' /\ Looking' /\ Timed' /\ LogNotMissed'
    BY <1>1, <1>5, <2>3, Beginning
       DEF WaitInv, Around, Looking, Timed, LogNotMissed, outside, box_vars
  <2>5. QED
    BY <2>3, <2>4 DEF WaitInv
<1>6. QED
  BY <1>3, <1>4, <1>5 DEF BeginTurn

\* The last turn is over: the MultiStrategy around goes on, if there is one.
LEMMA EndTurnsKeeps == ASSUME WaitInv, EndTurns PROVE WaitInv'
<1>1. Waiting /\ w.at = "begin" /\ UNCHANGED outside /\ faults' = faults
  BY DEF EndTurns, NoFault
<1>2. ASSUME NEW result \in {"ready", "error"}, End(result)
      PROVE  WaitInv'
  <2>1. UNCHANGED <<frames, began, w>> /\ outcome' = result
    BY <1>2 DEF End
  <2>2. Stacked' /\ Nested' /\ Looking'
    BY <1>1, <2>1 DEF WaitInv, Stacked, Nested, Looking, outside, box_vars
  <2>3. Around' /\ LogNotMissed'
    BY <1>1, <2>1 DEF WaitInv, Around, LogNotMissed, outside, box_vars
  <2>4. Timed'
    BY <1>1, <2>1 DEF WaitInv, Timed, outside
  <2>5. QED
    BY <2>2, <2>3, <2>4 DEF WaitInv
<1>3. CASE /\ Len(frames) > 1
           /\ frames' = [Front(frames) EXCEPT ![Len(frames) - 1].turn = @ + 1]
           /\ UNCHANGED <<w, began, outcome>>
  <2>1. Stacked' /\ Nested' /\ (\A i \in 1..Len(frames) : now <= frames[i].limit)'
    BY <1>1, <1>3, Beginning, Returns DEF WaitInv, outside
  <2>2. Around' /\ Looking' /\ Timed' /\ LogNotMissed'
    BY <1>1, <1>3, <2>1, Beginning
       DEF WaitInv, Around, Looking, Timed, LogNotMissed, outside, box_vars
  <2>3. QED
    BY <2>1, <2>2 DEF WaitInv
<1>4. QED
  BY <1>2, <1>3 DEF EndTurns

-----------------------------------------------------------------------------
(* The container, and time.                                                *)

\* Nothing of what is waited for changes when the container does.
LEMMA ContainerMoves ==
  ASSUME WaitInv, Waiting, UNCHANGED <<plan, now, frames, began, w, outcome, faults>>,
         box' \in {"running", "exited", "gone"}, mapped' \in BOOLEAN, up' \in BOOLEAN,
         lines' \in 0..Entry, lines <= lines'
  PROVE  WaitInv'
<1>1. Around'
  BY DEF WaitInv, Around
<1>2. Stacked' /\ Nested'
  BY DEF WaitInv, Stacked, Nested
<1>3. Looking'
  <2>1. w.seen \in Nat /\ lines \in Nat /\ lines' \in Nat
    BY Numbers DEF WaitInv, Around, Looking, Works
  <2>2. QED
    BY <2>1 DEF WaitInv, Looking
<1>4. Timed'
  <2>1. Inner' = Inner /\ S' = S
    BY DEF Inner, S
  <2>2. Allowed(Inner.all, S)' = Allowed(Inner.all, S)
    BY <2>1 DEF Allowed
  <2>3. QED
    BY <2>1, <2>2 DEF WaitInv, Timed, Commanded
<1>5. LogNotMissed'
  BY DEF LogNotMissed, Waiting
<1>6. QED
  BY <1>1, <1>2, <1>3, <1>4, <1>5 DEF WaitInv

\* The container boots, writes to its log, exits and is removed.
LEMMA ContainerKeeps == ASSUME WaitInv, Boots \/ Exits PROVE WaitInv'
<1>1. /\ box \in {"running", "exited", "gone"} /\ mapped \in BOOLEAN /\ up \in BOOLEAN
      /\ lines \in 0..Entry
  BY DEF WaitInv, Around
<1>2. CASE Boots
  <2>1. /\ Waiting /\ UNCHANGED <<plan, now, box, frames, began, w, outcome, faults>>
        /\ mapped' \in BOOLEAN /\ up' \in BOOLEAN
    BY <1>1, <1>2 DEF Boots
  <2>2. lines' = lines \/ (lines < Entry /\ lines' = lines + 1)
    BY <1>2 DEF Boots
  <2>3. lines' \in 0..Entry /\ lines <= lines'
    BY <1>1, <2>2, Numbers
  <2>4. QED
    BY <1>1, <2>1, <2>3, ContainerMoves
<1>3. CASE Exits
  <2>1. /\ Waiting
        /\ UNCHANGED <<plan, now, mapped, up, lines, frames, began, w, outcome, faults>>
        /\ box' \in {"running", "exited", "gone"}
    BY <1>3 DEF Exits
  <2>2. lines <= lines'
    BY <1>1, <2>1, Numbers
  <2>3. QED
    BY <1>1, <2>1, <2>2, ContainerMoves
<1>4. QED
  BY <1>2, <1>3

\* Time passes only until a sleeper wakes or the context of a call ends, but for a command.
LEMMA TickKeeps == ASSUME WaitInv, Tick PROVE WaitInv'
<1>1. /\ Waiting /\ now < MaxTime /\ now' = now + 1
      /\ UNCHANGED <<plan, box_vars, frames, began, w, outcome, faults>>
  BY DEF Tick
<1>2. w.at \notin {"begin", "poll"}
  BY DEF Tick
<1>3. Busy
  BY <1>1, <1>2 DEF Busy
<1>4. /\ w.at = "sleep" => now < w.wake
      /\ w.at \notin {"sleep", "output"} => ~Expired
  BY <1>2 DEF Tick
<1>5. now' \in 0..MaxTime /\ now' > now /\ now \in Nat
  BY <1>1, <1>3, Working, Numbers
<1>6. Around'
  <2>1. began \in 0..now'
    BY <1>5 DEF WaitInv, Around
  <2>2. QED
    BY <1>1, <1>5, <2>1 DEF WaitInv, Around, box_vars
<1>7. Stacked' /\ Nested' /\ Looking'
  <2>1. \A i \in 1..Len(frames) : frames[i].began <= now'
    <3>1. ASSUME NEW i \in 1..Len(frames)
          PROVE  frames[i].began <= now /\ frames[i].began \in Nat
      BY StackShape DEF WaitInv, Stacked, Frames
    <3>2. QED
      BY <1>5, <3>1
  <2>2. QED
    BY <1>1, <2>1 DEF WaitInv, Stacked, Nested, Looking, box_vars
<1>8. Timed'
  <2>1. Inner' = Inner /\ S' = S
    BY <1>1 DEF Inner, S
  <2>2. Allowed(Inner.all, S)' = Allowed(Inner.all, S)
    BY <2>1 DEF Allowed
  <2>3. /\ Inner.turn <= Len(Inner.all.list)
        /\ w.limit <= began + Allowed(Inner.all, S)
        /\ \A i \in 1..Len(frames) : w.limit <= frames[i].limit
    BY <1>2 DEF WaitInv, Timed
  <2>4. CASE w.at = "sleep"
    <3>1. w.wake <= w.limit + Oversleep /\ w.next \in {"poll", "check", "inspect"}
      BY <1>3, <2>4, Working
    <3>2. now' <= w.wake /\ now' <= w.limit + Oversleep
      BY <1>1, <1>3, <1>4, <2>4, <3>1, Working, Numbers
    <3>3. QED
      BY <1>1, <2>1, <2>2, <2>3, <2>4, <3>1, <3>2 DEF Timed, Late
  <2>5. CASE w.at = "output"
    <3>1. S.kind = "exec"
      BY <1>3, <2>5, Working
    <3>2. QED
      BY <1>1, <2>1, <2>2, <2>3, <2>5, <3>1 DEF Timed, Commanded
  <2>6. CASE w.at \notin {"sleep", "output"}
    <3>1. now' <= w.limit
      BY <1>1, <1>3, <1>4, <2>6, Working DEF Expired
    <3>2. QED
      BY <1>1, <1>2, <2>1, <2>2, <2>3, <2>6, <3>1 DEF Timed
  <2>7. QED
    BY <2>4, <2>5, <2>6
<1>9. LogNotMissed'
  BY <1>1 DEF LogNotMissed, Waiting
<1>10. QED
  BY <1>6, <1>7, <1>8, <1>9 DEF WaitInv

-----------------------------------------------------------------------------
(* The theorems.                                                           *)

\* The wait begins in the plan's own frame.
LEMMA InitWait == Init => WaitInv
<1> SUFFICES ASSUME Init
             PROVE  WaitInv
  OBVIOUS
<1> DEFINE f == Frame(plan, Forever)
<1>1. now = 0 /\ now \in 0..MaxTime /\ plan \in Plans /\ w.at = "begin"
  BY Numbers DEF Init
<1>2. plan \in Shapes(Groups)
  BY <1>1, PlanShape
<1>3. plan.deadline \in Nat /\ Len(plan.list) \in Nat
  BY <1>2, LenProperties, Numbers DEF Shapes
<1>4. /\ After(plan.deadline) \in 0..Forever /\ 0 <= After(plan.deadline)
      /\ After(plan.deadline) <= plan.deadline
  BY <1>1, <1>3, Afterwards
<1>5. /\ Earlier(Forever, After(plan.deadline)) \in 0..Forever
      /\ Earlier(Forever, After(plan.deadline)) <= plan.deadline
  BY <1>3, <1>4, Numbers DEF Earlier
<1>6. f \in Frames /\ f.all = plan /\ f.turn = 1 /\ f.began = 0 /\ f.limit <= plan.deadline
  BY <1>1, <1>2, <1>5 DEF Frame, Frames
<1>7. 0 <= f.limit /\ f.limit \in Nat
  BY <1>6, Numbers DEF Frames
<1>8. frames = <<f>>
  BY DEF Init
<1> HIDE DEF f
<1>9. frames \in Seq(Frames) /\ Len(frames) = 1 /\ frames[1] = f /\ frames # <<>>
  BY <1>6, <1>8
<1>10. Stacked
  BY <1>1, <1>3, <1>6, <1>9 DEF Stacked
<1>11. Nested
  <2>1. \A i \in 1..1 : i = 1
    OBVIOUS
  <2>2. frames[1].limit <= frames[1].began + frames[1].all.deadline
    BY <1>3, <1>6, <1>7, <1>9
  <2>3. frames[1].limit <= frames[1].limit
    BY <1>7, <1>9
  <2>4. QED
    BY <1>9, <2>1, <2>2, <2>3 DEF Nested
<1>12. Around
  <2>1. began \in 0..now /\ lines \in 0..Entry /\ faults \in 0..MaxFaults
    BY <1>1, Numbers DEF Init
  <2>2. box = "running" /\ mapped = FALSE /\ up = FALSE /\ outcome = "none"
    BY DEF Init
  <2>3. QED
    BY <1>1, <2>1, <2>2 DEF Around
<1>13. Looking
  BY Numbers DEF Init, Looking, Works, Places, Resumes
<1>14. Timed
  BY <1>1, <1>7, <1>9 DEF Timed
<1>15. LogNotMissed
  BY DEF Init, LogNotMissed
<1>16. QED
  BY <1>10, <1>11, <1>12, <1>13, <1>14, <1>15 DEF WaitInv

\* Every step keeps the invariant.
LEMMA NextKeeps == WaitInv /\ [Next]_vars => WaitInv'
<1> SUFFICES ASSUME WaitInv, [Next]_vars
             PROVE  WaitInv'
  OBVIOUS
<1>1. CASE Strategy
  BY <1>1, BeginTurnKeeps, EndTurnsKeeps, SelectKeeps, WakeKeeps, PauseExpiresKeeps,
     HealthStateKeeps, ExitStateKeeps, LogStateKeeps, LogReadKeeps, ExecAskKeeps,
     ExecInspectKeeps, FileAskKeeps, PortStepsKeep, ChecksKeep, ServiceAskKeeps, DialKeeps,
     InsideKeeps, InsideExecKeeps, InsideInspectKeeps, UserKeeps DEF Strategy
<1>2. CASE OutputEnds \/ Boots \/ Exits \/ Tick
  BY <1>2, OutputEndsKeeps, ContainerKeeps, TickKeeps
<1>3. CASE UNCHANGED vars
  <2>1. UNCHANGED <<plan, now, box, mapped, up, lines, frames, began, w, outcome, faults>>
    BY <1>3 DEF vars, box_vars
  <2>2. Around' /\ Stacked' /\ Nested' /\ Looking'
    BY <2>1 DEF WaitInv, Around, Stacked, Nested, Looking
  <2>3. Timed' /\ LogNotMissed'
    BY <2>1 DEF WaitInv, Timed, LogNotMissed, Inner, S, Allowed, Commanded
  <2>4. QED
    BY <2>2, <2>3 DEF WaitInv
<1>4. QED
  BY <1>1, <1>2, <1>3 DEF Next

\* It holds of every state that is reached.
LEMMA WaitHolds == Spec => []WaitInv
BY InitWait, NextKeeps, PTL DEF Spec

\* Every variable holds a value of its kind, no frame is past its list by more than one, and
\* no context ends later than one around it.
THEOREM TypeCorrect == Spec => []TypeOK
<1>1. ASSUME WaitInv
      PROVE  TypeOK
  <2>1. DOMAIN frames = 1..Len(frames)
    BY <1>1, LenProperties DEF WaitInv, Stacked
  <2>2. ASSUME NEW i \in 1..Len(frames)
        PROVE  /\ frames[i].turn \in 1..Len(frames[i].all.list) + 1
               /\ frames[i].limit \in 0..Forever /\ frames[i].began \in 0..now
               /\ \A j \in 1..i : frames[i].limit <= frames[j].limit
    <3>1. /\ frames[i].turn \in 1..Len(frames[i].all.list) + 1
          /\ frames[i].limit \in 0..Forever /\ frames[i].began \in 0..now
      BY <1>1, StackShape, SMTT(30) DEF WaitInv, Stacked, Frames, Around
    <3>2. QED
      BY <1>1, <3>1 DEF WaitInv, Nested
  <2>3. w \in [at : Places, next : Places, wake : 0..MaxTime + Oversleep,
               until : 0..MaxTime + Poll + Poll, limit : 0..Forever, seen : 0..lines,
               checked : {"ok", "dead", "error"}]
    <3>1. Resumes \subseteq Places
      BY DEF Resumes, Places
    <3>2. w.seen \in 0..lines
      BY <1>1, Numbers DEF WaitInv, Around, Looking, Works
    <3>3. QED
      BY <1>1, <3>1, <3>2 DEF WaitInv, Looking, Works
  <2>4. w.at # "begin" => w.limit <= Inner.limit
    BY <1>1, StackShape DEF WaitInv, Timed, Inner
  <2>5. QED
    BY <1>1, <2>1, <2>2, <2>3, <2>4 DEF WaitInv, Around, Stacked, TypeOK
<1>2. QED
  BY <1>1, WaitHolds, PTL

\* What began when it had so much time, and is a sleep past it at most, has had so much.
LEMMA Overrun ==
  ASSUME NEW time \in Nat, NEW limit \in Nat, NEW start \in Nat, NEW timeout \in Nat,
         time <= limit + Oversleep, limit <= start + timeout
  PROVE  time - start <= timeout + Oversleep
BY Numbers

\* For lists nested to any depth, any timeouts and any poll intervals: no wait overruns the
\* deadline of a MultiStrategy around it, or the timeout that applies to it, by more than a
\* sleep, but in an ExecStrategy whose command has not ended its output; and nothing that comes
\* after that is late.
THEOREM WaitsInTime == Spec => []InTime
<1>1. ASSUME WaitInv, Waiting, w.at # "begin", ~Commanded
      PROVE  \A span \in Spans : span[1] <= span[2] + Oversleep
  <2>1. Busy
    BY <1>1 DEF Busy
  <2>2. /\ w.limit \in Nat /\ now \in Nat /\ now <= w.limit + Oversleep /\ began \in Nat /\ Oversleep \in Nat
        /\ Forever \in Nat /\ now <= Forever
    BY <1>1, <2>1, Working, Numbers DEF WaitInv, Around
  <2>3. now - began <= Allowed(Inner.all, S) + Oversleep
    <3>1. w.limit <= began + Allowed(Inner.all, S)
      BY <1>1 DEF WaitInv, Timed
    <3>2. Allowed(Inner.all, S) \in Nat
      <4>1. Inner \in Frames /\ S \in Shapes(Kinds \cup Groups)
        BY <1>1, StackShape, TurnShape DEF WaitInv, Timed
      <4>2. Inner.all.timeout \in Nat /\ S.timeout \in Nat
        BY <4>1, <2>2 DEF Frames, Shapes
      <4>3. QED
        BY <2>2, <4>2, Numbers DEF Allowed
    <3>3. QED
      BY <2>2, <3>1, <3>2
  <2>4. ASSUME NEW i \in 1..Len(frames)
        PROVE  /\ frames[i].limit \in Nat /\ frames[i].began \in Nat /\ frames[i].all.deadline \in Nat
               /\ frames[i].all.timeout \in Nat /\ now <= frames[i].limit + Oversleep
               /\ frames[i].limit <= frames[i].began + frames[i].all.deadline
    <3>1. frames[i] \in Frames
      BY <1>1, StackShape DEF WaitInv
    <3>2. /\ frames[i].limit \in Nat /\ frames[i].began \in Nat /\ frames[i].all.deadline \in Nat
          /\ frames[i].all.timeout \in Nat
      BY <2>2, <3>1 DEF Frames, Shapes
    <3>3. w.limit <= frames[i].limit
      BY <1>1 DEF WaitInv, Timed
    <3>4. QED
      BY <1>1, <2>2, <3>2, <3>3 DEF WaitInv, Nested
  <2>5. ASSUME NEW i \in DOMAIN frames
        PROVE  now - frames[i].began <= frames[i].all.deadline + Oversleep
    <3>1. i \in 1..Len(frames)
      BY <1>1, LenProperties DEF WaitInv, Stacked
    <3>2. /\ frames[i].limit \in Nat /\ frames[i].began \in Nat /\ frames[i].all.deadline \in Nat
          /\ now <= frames[i].limit + Oversleep
          /\ frames[i].limit <= frames[i].began + frames[i].all.deadline
      BY <2>4, <3>1
    <3>3. QED
      BY <2>2, <3>2, Overrun
  <2>6. ASSUME NEW i \in 1..Len(frames) - 1
        PROVE  now - frames[i + 1].began
                 <= (IF frames[i + 1].all.kind = "tls" THEN Forever
                     ELSE IF frames[i + 1].all.timeout = Forever THEN frames[i].all.timeout
                     ELSE Forever) + Oversleep
    <3>1. i \in 1..Len(frames) /\ i + 1 \in 1..Len(frames) /\ i + 1 > 1 /\ (i + 1) - 1 = i
      BY <1>1, StackShape DEF WaitInv
    <3>2. frames[i + 1].all.kind # "tls" /\ frames[i + 1].all.timeout = Forever
            => frames[i + 1].limit <= frames[i + 1].began + frames[i].all.timeout
      BY <1>1, <3>1 DEF WaitInv, Nested
    <3>3. /\ frames[i + 1].limit \in Nat /\ frames[i + 1].began \in Nat
          /\ frames[i].all.timeout \in Nat /\ now <= frames[i + 1].limit + Oversleep
      BY <2>4, <3>1
    <3>4. CASE frames[i + 1].all.kind # "tls" /\ frames[i + 1].all.timeout = Forever
      <4>1. now - frames[i + 1].began <= frames[i].all.timeout + Oversleep
        BY <2>2, <3>2, <3>3, <3>4, Overrun
      <4>2. QED
        BY <3>4, <4>1
    <3>5. CASE ~(frames[i + 1].all.kind # "tls" /\ frames[i + 1].all.timeout = Forever)
      <4>1. now - frames[i + 1].began <= Forever + Oversleep
        BY <2>2, <3>3
      <4>2. QED
        BY <3>5, <4>1
    <3>6. QED
      BY <3>4, <3>5
  <2>7. QED
    BY <2>3, <2>5, <2>6 DEF Spans
<1>2. WaitInv => InTime
  BY <1>1 DEF InTime
<1>3. QED
  BY <1>2, WaitHolds, PTL

\* However the container's writing and exiting interleave with the polls: a log strategy gives
\* up on a dead container only if the entry is not in its log.
THEOREM LogSeen == Spec => []LogNotMissed
<1>1. WaitInv => LogNotMissed
  BY DEF WaitInv
<1>2. QED
  BY <1>1, WaitHolds, PTL

=============================================================================
