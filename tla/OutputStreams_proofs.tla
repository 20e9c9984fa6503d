------------------------ MODULE OutputStreams_proofs ------------------------
(***************************************************************************)
(* Theorems about OutputStreams: its type invariant, and that it           *)
(* implements StreamContents.  The argument is about positions: which      *)
(* positions of what the Engine sent each buffer enumerates, in order, and *)
(* that two enumerations of the same positions are the same sequence.      *)
(***************************************************************************)
EXTENDS OutputStreams, SequenceTheorems, FiniteSetTheorems, WellFoundedInduction, TLAPS

-----------------------------------------------------------------------------
(* Enumerations.                                                           *)

\* The sequence q gives the numbers of S in their order.
Enumerates(q, S) ==
  /\ q \in Seq(Nat)
  /\ \A i, j \in 1..Len(q) : i < j => q[i] < q[j]
  /\ \A i \in 1..Len(q) : q[i] \in S
  /\ \A x \in S : \E i \in 1..Len(q) : q[i] = x

\* A is what comes first of B.
InitialPart(A, B) == A \subseteq B /\ \A x \in B, y \in A : x <= y => x \in A

\* Every set of natural numbers that has some has a least one.
LEMMA Least ==
  ASSUME NEW T \in SUBSET Nat, T # {}
  PROVE  \E n \in T : \A m \in T : n <= m
<1> DEFINE R == {ss \in Nat \X Nat : ss[1] < ss[2]}
<1>1. IsWellFoundedOn(R, Nat)
  BY NatLessThanWellFounded DEF OpToRel
<1>2. PICK x \in T : \A y \in T : <<y, x>> \notin R
  <2> HIDE DEF R
  <2> QED
    BY <1>1, WFMin
<1>3. ASSUME NEW y \in T, y < x
      PROVE  FALSE
  <2>1. <<y, x>> \in Nat \X Nat /\ <<y, x>>[1] = y /\ <<y, x>>[2] = x
    OBVIOUS
  <2>2. QED
    BY <1>2, <1>3, <2>1
<1>4. QED
  BY <1>3

\* What enumerates an initial part of a set is what comes first of the set's enumeration.
LEMMA SameStart ==
  ASSUME NEW A, NEW B, NEW p, NEW q, Enumerates(p, A), Enumerates(q, B), InitialPart(A, B)
  PROVE  Len(p) <= Len(q) /\ \A i \in 1..Len(p) : p[i] = q[i]
<1> DEFINE Off == {k \in 1..Len(p) : k > Len(q) \/ p[k] # q[k]}
<1>1. p \in Seq(Nat) /\ q \in Seq(Nat) /\ Len(p) \in Nat /\ Len(q) \in Nat
  BY DEF Enumerates
<1>2. \A i \in 1..Len(p) : p[i] \in Nat
  BY <1>1
<1>3. \A i \in 1..Len(q) : q[i] \in Nat
  BY <1>1
<1>4. Off = {}
  <2>1. SUFFICES ASSUME Off # {}
                 PROVE  FALSE
    OBVIOUS
  <2>2. PICK k \in Off : \A m \in Off : k <= m
    <3>1. Off \in SUBSET Nat
      BY <1>1
    <3>2. QED
      BY <2>1, <3>1, Least
  <2>3. /\ k \in 1..Len(p) /\ (k > Len(q) \/ p[k] # q[k])
        /\ \A i \in 1..Len(p) : i < k => i <= Len(q) /\ p[i] = q[i]
    BY <1>1, <2>2
  <2>4. PICK j \in 1..Len(q) : q[j] = p[k]
    BY <2>3 DEF Enumerates, InitialPart
  <2>5. ASSUME j < k
        PROVE  FALSE
    <3>1. j \in 1..Len(p) /\ p[j] = p[k]
      BY <1>1, <2>3, <2>4, <2>5
    <3>2. p[j] < p[k]
      BY <2>3, <2>5, <3>1 DEF Enumerates
    <3>3. QED
      BY <1>2, <3>1, <3>2
  <2>6. k <= Len(q) /\ k < j
    BY <1>1, <2>3, <2>4, <2>5
  <2>7. q[k] < p[k]
    BY <1>1, <2>3, <2>4, <2>6 DEF Enumerates
  <2>8. q[k] \in B /\ p[k] \in A
    BY <1>1, <2>3, <2>6 DEF Enumerates
  <2>9. q[k] \in A
    BY <1>2, <1>3, <1>1, <2>3, <2>6, <2>7, <2>8 DEF InitialPart
  <2>10. PICK i \in 1..Len(p) : p[i] = q[k]
    BY <2>9 DEF Enumerates
  <2>11. i < k
    <3>1. k < i => p[k] < p[i]
      BY <2>3, <2>10 DEF Enumerates
    <3>2. p[i] < p[k] /\ p[i] \in Nat /\ p[k] \in Nat
      BY <1>2, <2>3, <2>7, <2>10
    <3>3. i # k
      BY <3>2
    <3>4. QED
      BY <1>1, <2>3, <2>10, <3>1, <3>2, <3>3
  <2>12. QED
    BY <1>1, <1>2, <2>3, <2>6, <2>10, <2>11 DEF Enumerates
<1>5. QED
  BY <1>1, <1>4

\* Two enumerations of the same numbers are the same.
LEMMA SameSequence ==
  ASSUME NEW A, NEW p, NEW q, Enumerates(p, A), Enumerates(q, A)
  PROVE  p = q
<1>1. InitialPart(A, A)
  BY DEF InitialPart
<1>2. /\ Len(p) <= Len(q) /\ \A i \in 1..Len(p) : p[i] = q[i]
      /\ Len(q) <= Len(p)
  BY <1>1, SameStart
<1>3. p \in Seq(Nat) /\ q \in Seq(Nat)
  BY DEF Enumerates
<1>4. Len(p) = Len(q)
  BY <1>2, <1>3
<1>5. QED
  BY <1>2, <1>3, <1>4, SeqEqual

\* A sequence that agrees with another as far as it goes is a prefix of it.
LEMMA Prefixed ==
  ASSUME NEW S, NEW p \in Seq(S), NEW q \in Seq(S), Len(p) <= Len(q),
         \A i \in 1..Len(p) : p[i] = q[i]
  PROVE  IsPrefix(p, q) /\ SubSeq(q, 1, Len(p)) = p
<1>1. SubSeq(p, 1, Len(p)) = p
  OBVIOUS
<1>2. SubSeq(q, 1, Len(p)) \in Seq(S) /\ Len(SubSeq(q, 1, Len(p))) = Len(p)
  BY SubSeqProperties
<1>3. \A i \in 1..Len(p) : SubSeq(q, 1, Len(p))[i] = p[i]
  OBVIOUS
<1>4. SubSeq(q, 1, Len(p)) = p
  BY <1>2, <1>3, SeqEqual
<1>5. QED
  BY <1>1, <1>4 DEF IsPrefix

\* And the other way round.
LEMMA PrefixMeans ==
  ASSUME NEW S, NEW p \in Seq(S), NEW q \in Seq(S), IsPrefix(p, q)
  PROVE  Len(p) <= Len(q) /\ \A i \in 1..Len(p) : p[i] = q[i]
<1>1. Len(p) <= Len(q) /\ SubSeq(p, 1, Len(p)) = SubSeq(q, 1, Len(p))
  BY DEF IsPrefix
<1>2. \A i \in 1..Len(p) : SubSeq(p, 1, Len(p))[i] = p[i] /\ SubSeq(q, 1, Len(p))[i] = q[i]
  BY <1>1
<1>3. QED
  BY <1>1, <1>2

\* An enumeration goes on with a greater number.
LEMMA Appended ==
  ASSUME NEW A, NEW q, Enumerates(q, A), NEW x \in Nat, \A y \in A : y < x
  PROVE  Enumerates(Append(q, x), A \cup {x})
<1>1. q \in Seq(Nat) /\ Append(q, x) \in Seq(Nat) /\ Len(Append(q, x)) = Len(q) + 1 /\ Len(q) \in Nat
  BY DEF Enumerates
<1>2. /\ \A i \in 1..Len(q) : Append(q, x)[i] = q[i]
      /\ Append(q, x)[Len(q) + 1] = x
  BY <1>1
<1>3. \A i \in 1..(Len(q) + 1) : i \in 1..Len(q) \/ i = Len(q) + 1
  BY <1>1
<1>4. ASSUME NEW i \in 1..(Len(q) + 1), NEW j \in 1..(Len(q) + 1), i < j
      PROVE  Append(q, x)[i] < Append(q, x)[j]
  <2>1. i \in 1..Len(q)
    BY <1>1, <1>4
  <2>2. CASE j \in 1..Len(q)
    BY <1>2, <1>4, <2>1, <2>2 DEF Enumerates
  <2>3. CASE j = Len(q) + 1
    BY <1>2, <2>1, <2>3 DEF Enumerates
  <2>4. QED
    BY <1>3, <2>2, <2>3
<1>5. \A i \in 1..(Len(q) + 1) : Append(q, x)[i] \in A \cup {x}
  BY <1>2, <1>3 DEF Enumerates
<1>6. ASSUME NEW y \in A \cup {x}
      PROVE  \E i \in 1..(Len(q) + 1) : Append(q, x)[i] = y
  <2>1. CASE y = x
    BY <1>1, <1>2, <2>1
  <2>2. CASE y \in A
    <3>1. PICK i \in 1..Len(q) : q[i] = y
      BY <2>2 DEF Enumerates
    <3>2. i \in 1..(Len(q) + 1)
      BY <1>1
    <3>3. QED
      BY <1>2, <3>1, <3>2
  <2>3. QED
    BY <2>1, <2>2
<1>7. QED
  BY <1>1, <1>4, <1>5, <1>6 DEF Enumerates

\* And with a run of them.
LEMMA Joined ==
  ASSUME NEW A, NEW q, Enumerates(q, A), NEW t \in Nat, \A y \in A : y <= t,
         NEW c \in Seq(Nat), \A i \in 1..Len(c) : c[i] = t + i
  PROVE  Enumerates(q \o c, A \cup (t + 1)..(t + Len(c)))
<1> DEFINE n == Len(q)
           m == Len(c)
<1>1. /\ q \in Seq(Nat) /\ n \in Nat /\ m \in Nat /\ q \o c \in Seq(Nat) /\ Len(q \o c) = n + m
  BY ConcatProperties DEF Enumerates
<1>2. /\ \A i \in 1..n : (q \o c)[i] = q[i]
      /\ \A i \in 1..m : (q \o c)[n + i] = t + i
  BY <1>1, ConcatProperties
<1>3. \A i \in 1..(n + m) : i \in 1..n \/ \E k \in 1..m : i = n + k
  <2>1. TAKE i \in 1..(n + m)
  <2>2. CASE i > n
    <3>1. i - n \in 1..m /\ i = n + (i - n)
      BY <1>1, <2>2
    <3>2. QED
      BY <3>1
  <2>3. QED
    BY <1>1, <2>2
<1>4. ASSUME NEW i \in 1..(n + m), NEW j \in 1..(n + m), i < j
      PROVE  (q \o c)[i] < (q \o c)[j]
  <2>1. CASE i \in 1..n /\ j \in 1..n
    BY <1>2, <1>4, <2>1 DEF Enumerates
  <2>2. CASE i \in 1..n /\ \E k \in 1..m : j = n + k
    <3>1. PICK k \in 1..m : j = n + k
      BY <2>2
    <3>2. q[i] \in Nat /\ q[i] <= t
      <4>1. q[i] \in A
        BY <2>2 DEF Enumerates
      <4>2. q[i] \in Nat
        BY <1>1, <2>2, SMTT(30)
      <4>3. QED
        BY <4>1, <4>2
    <3>3. QED
      BY <1>1, <1>2, <2>2, <3>1, <3>2, SMTT(30)
  <2>3. CASE \E k, l \in 1..m : i = n + k /\ j = n + l
    <3>1. PICK k \in 1..m, l \in 1..m : i = n + k /\ j = n + l
      BY <2>3
    <3>2. k < l
      BY <1>1, <1>4, <3>1
    <3>3. (q \o c)[i] = t + k /\ (q \o c)[j] = t + l
      BY <1>2, <3>1
    <3>4. QED
      BY <3>2, <3>3
  <2>4. CASE j \in 1..n /\ i \notin 1..n
    BY <1>1, <1>4, <2>4
  <2>5. QED
    BY <1>3, <2>1, <2>2, <2>3, <2>4
<1>5. ASSUME NEW i \in 1..(n + m)
      PROVE  (q \o c)[i] \in A \cup (t + 1)..(t + m)
  <2>1. CASE i \in 1..n
    BY <1>2, <2>1 DEF Enumerates
  <2>2. CASE \E k \in 1..m : i = n + k
    BY <1>1, <1>2, <2>2
  <2>3. QED
    BY <1>3, <2>1, <2>2
<1>6. ASSUME NEW y \in A \cup (t + 1)..(t + m)
      PROVE  \E i \in 1..(n + m) : (q \o c)[i] = y
  <2>1. CASE y \in A
    <3>1. PICK i \in 1..n : q[i] = y
      BY <2>1 DEF Enumerates
    <3>2. i \in 1..(n + m)
      BY <1>1
    <3>3. QED
      BY <1>2, <3>1, <3>2
  <2>2. CASE y \in (t + 1)..(t + m)
    <3>1. y - t \in 1..m /\ y = t + (y - t)
      BY <1>1, <2>2
    <3>2. n + (y - t) \in 1..(n + m)
      BY <1>1, <3>1
    <3>3. QED
      BY <1>2, <3>1, <3>2
  <2>3. QED
    BY <2>1, <2>2
<1>7. QED
  BY <1>1, <1>4, <1>5, <1>6 DEF Enumerates

\* Where the data of a stream is among the first n units.
DataIn(n, stream) == {i \in 1..n : units[i].part = "data" /\ stream \in {units[i].to, "both"}}

-----------------------------------------------------------------------------
(* What holds of every state.                                              *)

\* What the Engine has to send is as the call expects it.
Shaped ==
  /\ units \in IF call = "ttyLogs" THEN Plain ELSE Framed
  /\ call = "file" => Len(units) > 1 /\ Len(units) = 2 + units[2].size

\* Where a call is, and what it has begun by then.
Phases ==
  /\ result # "none" <=> at = "returned"
  /\ call \in {"logs", "ttyLogs"} => at \in {"ask", "inspect", "returned"}
  /\ call = "file" => at \in {"ask", "wait", "returned"}
  /\ call \in Execs => at \in {"ask", "attach", "wait", "poll", "returned"}
  /\ conn = "none" => written = 0 /\ g = "none"
  /\ at \in {"ask", "attach"} => conn = "none"
  /\ at = "inspect" => conn # "none"
  /\ g # "none" => call \in {"logs", "multiplexed"}
  /\ g \in {"write", "close"} => call = "logs"
  /\ call = "logs" /\ g # "none" => result = "ok"
  /\ call = "multiplexed" /\ (at = "poll" \/ result = "ok") => g = "done"
  /\ reader # "reading" => result = "ok"
  /\ g = "none" => chunk = <<>> /\ pipeEnd = "none"
  /\ g = "none" /\ call # "file" => half = 0
  /\ result # "ok" => got = <<>>
  /\ call = "file" /\ at \in {"ask", "wait"} => half \in {0, 1}
  /\ call = "file" /\ result = "ok" => half = 2

\* What the ends are ends of.
Endings ==
  /\ pipeEnd # "none" <=> g \in {"close", "done"}
  /\ pipeEnd = "eof" => conn = "eof" /\ taken = written
  /\ pipeEnd = "error" => reader = "closed" \/ conn = "cut" \/ (conn = "eof" /\ written # Len(units))
  /\ call = "multiplexed" /\ g = "done" => taken = written /\ conn \in {"eof", "cut"}

\* The history is right.
DueRight == \A stream \in {"out", "err", "both"} : Enumerates(due[stream], DataIn(written, stream))

\* After n units comes a header, or nothing.
AtHead(n) == n = Len(units) \/ (n < Len(units) /\ units[n + 1].part = "head")

\* The parser knows where it is in a frame.
Synchronised ==
  /\ g \in {"header", "frame", "write"} => half \in {0, 1}
  /\ g \in {"frame", "write"} => half = 0
  /\ call \in {"logs", "multiplexed"} /\ g \in {"none", "header"} =>
       IF half = 0 THEN AtHead(taken) ELSE taken < Len(units) /\ units[taken + 1].part = "size"
  /\ g \in {"frame", "write"} =>
       /\ AtHead(taken + left)
       /\ \A j \in (taken + 1)..(taken + left) : units[j].part = "data" /\ units[j].to = to

\* A log: what the caller has read and what waits in the pipe is the data taken so far.
LogKept ==
  call = "logs" =>
    /\ g \in {"none", "header", "frame"} => chunk = <<>>
    /\ g \in {"close", "done"} => chunk = <<>>
    /\ reader = "reading" => Enumerates(got \o chunk, DataIn(taken, "both"))

\* How many units the collector has passed on: all but those of the frame that it is in.
Passed == taken - Len(chunk)

\* The collector: each buffer has the data of its stream among those.
Gathered ==
  call = "multiplexed" =>
    /\ g \in {"none", "header"} => chunk = <<>>
    /\ Len(chunk) <= taken
    /\ g = "frame" =>
         /\ \A i \in 1..Len(chunk) : chunk[i] = Passed + i
         /\ \A j \in (Passed + 1)..taken : units[j].part = "data" /\ units[j].to = to
    /\ Enumerates(out, DataIn(Passed, "out")) /\ Enumerates(err, DataIn(Passed, "err"))
    /\ IsPrefix(got, out \o err)

\* The data of a stream among the first n units that is in frames which end there at the latest.
WholeIn(n, stream) == {i \in DataIn(n, stream) : \E k \in i..n : AtHead(k)}

\* The collector knows where its frame begins, and drops in the end only one that is not whole.
Framing ==
  call = "multiplexed" =>
    /\ g = "header" /\ half = 1 => taken > 0 /\ units[taken].part = "head"
    /\ g = "frame" =>
         Passed > 1 /\ units[Passed].part = "size" /\ units[Passed - 1].part = "head"
    /\ g = "done" => \A stream : DataIn(Passed, stream) = WholeIn(taken, stream)

\* What comes straight from the connection.
Direct ==
  /\ call \in {"ttyLogs", "raw"} =>
       /\ Len(got) = taken
       /\ \A i \in 1..Len(got) : got[i] = i
  /\ call = "file" =>
       /\ half \in {0, 1} => taken = half /\ got = <<>>
       /\ half = 2 => taken >= 2 /\ taken + left = Len(units)
       /\ Enumerates(got, DataIn(taken, "both"))

\* The invariant.
StreamInv ==
  /\ TypeOK /\ Shaped /\ Phases /\ Endings /\ DueRight /\ Synchronised
  /\ LogKept /\ Gathered /\ Framing /\ Direct

-----------------------------------------------------------------------------
(* What was sent.                                                          *)

\* What is assumed of the bound, in the form that the steps need.
LEMMA Capacities == Capacity \in Nat /\ Capacity > 0
BY StreamAssumption

\* The units are a sequence of units.
LEMMA UnitShape ==
  ASSUME Shaped
  PROVE  units \in Seq(AUnit) /\ \A i \in 1..Len(units) : units[i] \in AUnit
BY StreamAssumption DEF Shaped

\* The data of a longer part is that of the shorter one and what follows.
LEMMA DataStarts ==
  ASSUME NEW m \in Nat, NEW n \in Nat, n <= m, NEW stream
  PROVE  /\ InitialPart(DataIn(n, stream), DataIn(m, stream))
         /\ \A y \in DataIn(n, stream) : y \in Nat /\ y <= n
BY DEF DataIn, InitialPart

\* A header is no data.
LEMMA NoData ==
  ASSUME NEW n \in Nat, units[n + 1].part # "data", NEW stream
  PROVE  DataIn(n + 1, stream) = DataIn(n, stream)
<1>1. \A i : i \in 1..(n + 1) <=> i \in 1..n \/ i = n + 1
  OBVIOUS
<1>2. QED
  BY <1>1 DEF DataIn

\* Units that are all data of a stream, or all not, add themselves to it, or nothing.
LEMMA MoreData ==
  ASSUME NEW n \in Nat, NEW m \in Nat, n <= m, NEW stream,
         \A j \in (n + 1)..m : units[j].part = "data" /\ stream \in {units[j].to, "both"}
  PROVE  DataIn(m, stream) = DataIn(n, stream) \cup (n + 1)..m
<1>1. \A i : i \in 1..m <=> i \in 1..n \/ i \in (n + 1)..m
  OBVIOUS
<1>2. QED
  BY <1>1 DEF DataIn

\* Units of the other stream add nothing to this one.
LEMMA OtherData ==
  ASSUME NEW n \in Nat, NEW m \in Nat, n <= m, NEW stream,
         \A j \in (n + 1)..m : stream \notin {units[j].to, "both"}
  PROVE  DataIn(m, stream) = DataIn(n, stream)
<1>1. \A i : i \in 1..m <=> i \in 1..n \/ i \in (n + 1)..m
  OBVIOUS
<1>2. QED
  BY <1>1 DEF DataIn

\* The same of a single unit.
LEMMA NextData ==
  ASSUME NEW n \in Nat, units[n + 1].part = "data", NEW stream
  PROVE  /\ stream \in {units[n + 1].to, "both"} =>
              DataIn(n + 1, stream) = DataIn(n, stream) \cup {n + 1}
         /\ stream \notin {units[n + 1].to, "both"} => DataIn(n + 1, stream) = DataIn(n, stream)
<1>1. \A i : i \in 1..(n + 1) <=> i \in 1..n \/ i = n + 1
  OBVIOUS
<1>2. QED
  BY <1>1 DEF DataIn

-----------------------------------------------------------------------------
(* What a step leaves alone.                                               *)

\* A part of the invariant outlives a step that leaves its variables alone.
LEMMA Untouched ==
  ASSUME StreamInv, UNCHANGED <<call, units>>
  PROVE  /\ Shaped'
         /\ UNCHANGED <<written, due>> => DueRight'
         /\ UNCHANGED <<g, half, taken, left, to>> => Synchronised'
         /\ UNCHANGED <<g, chunk, reader, got, taken>> => LogKept'
         /\ UNCHANGED <<g, chunk, taken, to, out, err, got>> => Gathered'
         /\ UNCHANGED <<g, half, chunk, taken>> \/ call # "multiplexed" => Framing'
         /\ UNCHANGED <<got, taken, half, left>> => Direct'
<1>1. Shaped'
  BY DEF StreamInv, Shaped
<1>2. UNCHANGED <<written, due>> => DueRight'
  BY DEF StreamInv, DueRight, DataIn
<1>3. UNCHANGED <<g, half, taken, left, to>> => Synchronised'
  BY DEF StreamInv, Synchronised, AtHead
<1>4. UNCHANGED <<g, chunk, reader, got, taken>> => LogKept'
  BY DEF StreamInv, LogKept, DataIn
<1>5. UNCHANGED <<g, chunk, taken, to, out, err, got>> => Gathered'
  BY DEF StreamInv, Gathered, Passed, DataIn
<1>6. UNCHANGED <<got, taken, half, left>> => Direct'
  BY DEF StreamInv, Direct, DataIn
<1>7. UNCHANGED <<g, half, chunk, taken>> \/ call # "multiplexed" => Framing'
  <2>1. CASE UNCHANGED <<g, half, chunk, taken>>
    BY <2>1 DEF StreamInv, Framing, Passed, WholeIn, DataIn, AtHead
  <2>2. CASE call # "multiplexed"
    BY <2>2 DEF Framing
  <2>3. QED
    BY <2>1, <2>2
<1>8. QED
  BY <1>1, <1>2, <1>3, <1>4, <1>5, <1>6, <1>7

\* The invariant holds before the first step.
LEMMA InitStream == Init => StreamInv
<1> SUFFICES ASSUME Init
             PROVE  StreamInv
  OBVIOUS
<1>1. Shaped
  BY DEF Init, Shaped
<1>2. units \in Seq(AUnit)
  BY <1>1, UnitShape
<1>3. <<>> \in Seq(1..Len(units)) /\ Len(units) \in Nat /\ Len(<<>>) = 0
  BY <1>2
<1>4. taken = 0 /\ written = 0 /\ half = 0 /\ left = 0 /\ Len(chunk) = 0 /\ Len(got) = 0
  <2>1. chunk = <<>> /\ got = <<>>
    BY DEF Init
  <2>2. Len(chunk) = 0 /\ Len(got) = 0
    BY <2>1
  <2>3. QED
    BY <2>2 DEF Init
<1>5. TypeOK
  <2>1. units \in Framed \cup Plain
    BY <1>1 DEF Shaped
  <2>2. due \in [{"out", "err", "both"} -> Positions]
    BY <1>3 DEF Init, Positions
  <2>3. {chunk, out, err, got} \subseteq Positions
    BY <1>3 DEF Init, Positions
  <2>4. taken \in 0..written /\ written \in 0..Len(units) /\ written - taken <= Capacity
    BY <1>4, <1>3, Capacities
  <2>5. half \in 0..2 /\ left \in Nat
    BY <1>4
  <2>6. QED
    BY <2>1, <2>2, <2>3, <2>4, <2>5 DEF Init, TypeOK
<1>6. Phases /\ Endings
  BY DEF Init, Phases, Endings, Execs, Calls
<1>7. Enumerates(<<>>, {}) /\ <<>> \o <<>> = <<>>
  BY DEF Enumerates
<1>8. \A stream : DataIn(0, stream) = {}
  BY DEF DataIn
<1>9. DueRight
  BY <1>7, <1>8 DEF Init, DueRight
<1>10. Synchronised
  <2>1. call = "logs" \/ call = "multiplexed" => AtHead(0)
    BY <1>1, <1>2, StreamAssumption DEF Shaped, WellFramed, AtHead
  <2>2. QED
    BY <2>1 DEF Init, Synchronised
<1>11. LogKept
  BY <1>7, <1>8 DEF Init, LogKept
<1>12. Gathered
  <2>1. IsPrefix(<<>>, <<>>)
    BY DEF IsPrefix
  <2>2. Passed = 0
    BY <1>4 DEF Passed
  <2>3. QED
    <3>1. out = <<>> /\ err = <<>> /\ got = <<>> /\ chunk = <<>> /\ g = "none"
      BY DEF Init
    <3>2. IsPrefix(got, out \o err)
      BY <1>7, <2>1, <3>1
    <3>3. Enumerates(out, DataIn(Passed, "out")) /\ Enumerates(err, DataIn(Passed, "err"))
      BY <1>7, <1>8, <2>2, <3>1
    <3>4. Len(chunk) <= taken
      BY <1>4
    <3>5. QED
      BY <3>1, <3>2, <3>3, <3>4 DEF Gathered
<1>13. Direct
  <2>1. Enumerates(got, {})
    BY <1>7 DEF Init
  <2>2. DataIn(taken, "both") = {}
    BY <1>4, <1>8
  <2>3. call = "file" => got = <<>>
    BY DEF Init
  <2>4. QED
    BY <1>4, <2>1, <2>2, <2>3 DEF Direct
<1>14. Framing
  BY DEF Init, Framing
<1>15. QED
  BY <1>1, <1>5, <1>6, <1>9, <1>10, <1>11, <1>12, <1>13, <1>14 DEF StreamInv

-----------------------------------------------------------------------------
(* The call.                                                               *)

\* The type invariant, conjunct by conjunct.
LEMMA OldTypes ==
  ASSUME StreamInv
  PROVE  /\ due \in [{"out", "err", "both"} -> Positions]
         /\ at \in {"ask", "inspect", "attach", "wait", "poll", "returned"}
         /\ result \in {"none", "ok", "error"} /\ running \in BOOLEAN /\ closed \in BOOLEAN
         /\ conn \in {"none", "open", "eof", "cut"}
         /\ taken \in 0..written /\ written \in 0..Len(units) /\ written - taken <= Capacity
         /\ g \in {"none", "header", "frame", "write", "close", "done"}
         /\ half \in 0..2 /\ left \in Nat /\ to \in {"", "out", "err"}
         /\ chunk \in Positions /\ out \in Positions /\ err \in Positions /\ got \in Positions
         /\ pipeEnd \in {"none", "eof", "error"}
         /\ reader \in {"reading", "end", "error", "closed"}
         /\ Len(units) \in Nat /\ taken \in Nat /\ written \in Nat /\ call \in Calls
<1>1. TypeOK /\ units \in Seq(AUnit)
  BY UnitShape DEF StreamInv
<1>2. Len(units) \in Nat
  BY <1>1
<1>3. /\ taken \in 0..written /\ written \in 0..Len(units) /\ written - taken <= Capacity
      /\ half \in 0..2 /\ left \in Nat
  BY <1>1 DEF TypeOK
<1>4. taken \in Nat /\ written \in Nat
  BY <1>2, <1>3
<1>5. chunk \in Positions /\ out \in Positions /\ err \in Positions /\ got \in Positions
  BY <1>1 DEF TypeOK
<1>6. /\ due \in [{"out", "err", "both"} -> Positions] /\ call \in Calls
      /\ at \in {"ask", "inspect", "attach", "wait", "poll", "returned"}
      /\ result \in {"none", "ok", "error"} /\ running \in BOOLEAN /\ closed \in BOOLEAN
      /\ conn \in {"none", "open", "eof", "cut"}
      /\ g \in {"none", "header", "frame", "write", "close", "done"}
      /\ to \in {"", "out", "err"} /\ pipeEnd \in {"none", "eof", "error"}
      /\ reader \in {"reading", "end", "error", "closed"}
  BY <1>1 DEF TypeOK
<1>7. QED
  BY <1>2, <1>3, <1>4, <1>5, <1>6

\* The counters are numbers, in their order.
LEMMA Counts ==
  ASSUME StreamInv
  PROVE  /\ taken \in Nat /\ written \in Nat /\ Len(units) \in Nat /\ left \in Nat
         /\ taken <= written /\ written <= Len(units) /\ written - taken <= Capacity
<1>1. /\ taken \in 0..written /\ written \in 0..Len(units) /\ Len(units) \in Nat /\ left \in Nat
      /\ written - taken <= Capacity
  BY OldTypes
<1>2. QED
  BY <1>1

\* A step keeps the type invariant when all that it changes is of its type.
LEMMA StepTypes ==
  ASSUME StreamInv, UNCHANGED <<call, units>>,
         due' = due \/ due' \in [{"out", "err", "both"} -> Positions],
         at' = at \/ at' \in {"ask", "inspect", "attach", "wait", "poll", "returned"},
         result' = result \/ result' \in {"none", "ok", "error"},
         running' = running \/ running' \in BOOLEAN, closed' = closed \/ closed' \in BOOLEAN,
         conn' = conn \/ conn' \in {"none", "open", "eof", "cut"},
         \/ taken' = taken /\ written' = written
         \/ taken' \in 0..written' /\ written' \in 0..Len(units) /\ written' - taken' <= Capacity,
         g' = g \/ g' \in {"none", "header", "frame", "write", "close", "done"},
         half' = half \/ half' \in 0..2, left' = left \/ left' \in Nat,
         to' = to \/ to' \in {"", "out", "err"},
         chunk' = chunk \/ chunk' \in Positions, out' = out \/ out' \in Positions,
         err' = err \/ err' \in Positions, got' = got \/ got' \in Positions,
         pipeEnd' = pipeEnd \/ pipeEnd' \in {"none", "eof", "error"},
         reader' = reader \/ reader' \in {"reading", "end", "error", "closed"}
  PROVE  TypeOK'
<1>1. Positions' = Positions /\ call' \in Calls /\ units' \in Framed \cup Plain
  BY DEF StreamInv, TypeOK, Positions
<1>2. {chunk, out, err, got}' \subseteq Positions'
  BY <1>1, OldTypes
<1>3. taken' \in 0..written' /\ written' \in 0..Len(units) /\ written' - taken' <= Capacity
  BY OldTypes
<1>4. (due \in [{"out", "err", "both"} -> Positions])'
  BY <1>1, OldTypes
<1>5. (/\ taken \in 0..written /\ written \in 0..Len(units) /\ written - taken <= Capacity
       /\ half \in 0..2 /\ left \in Nat)'
  BY <1>3, OldTypes
<1>6. running' \in BOOLEAN /\ closed' \in BOOLEAN
  BY OldTypes
<1>7. /\ at' \in {"ask", "inspect", "attach", "wait", "poll", "returned"}
      /\ result' \in {"none", "ok", "error"}
      /\ conn' \in {"none", "open", "eof", "cut"}
      /\ g' \in {"none", "header", "frame", "write", "close", "done"}
      /\ to' \in {"", "out", "err"} /\ pipeEnd' \in {"none", "eof", "error"}
      /\ reader' \in {"reading", "end", "error", "closed"}
  BY OldTypes
<1>8. QED
  BY ONLY <1>1, <1>2, <1>4, <1>5, <1>6, <1>7 DEF TypeOK

\* The request to the Engine: nothing has been read or sent yet.
LEMMA AskKeeps == ASSUME StreamInv, Ask PROVE StreamInv'
<1>1. /\ UNCHANGED <<call, units, due, written, taken, g, half, left, to, chunk, pipeEnd, out, err,
                     reader, got, running, closed>>
      /\ at = "ask"
      /\ \/ at' = "returned" /\ result' = "error" /\ conn' = conn
         \/ call \in Execs /\ at' = "attach" /\ result' = result /\ conn' = conn
         \/ /\ call \notin Execs /\ conn' = "open" /\ result' = result
            /\ at' = IF call = "file" THEN "wait" ELSE "inspect"
  BY DEF Ask, Return, Goto, network, parser
<1>2. TypeOK'
  BY <1>1, StepTypes
<1>3. Phases' /\ Endings'
  BY <1>1 DEF StreamInv, Phases, Endings, TypeOK, Execs, Calls
<1>4. QED
  BY <1>1, <1>2, <1>3, Untouched DEF StreamInv

\* The goroutine of a log starts at a header.
LEMMA InspectKeeps == ASSUME StreamInv, Inspect PROVE StreamInv'
<1>1. /\ UNCHANGED <<call, units, due, written, taken, half, left, to, chunk, pipeEnd, out, err,
                     reader, got, running, conn>>
      /\ at = "inspect" /\ at' = "returned"
      /\ \/ result' = "error" /\ closed' = TRUE /\ g' = g
         \/ /\ result' = "ok" /\ closed' = closed
            /\ g' = IF call = "logs" THEN "header" ELSE "none"
  BY DEF Inspect, Return, network
<1>2. g = "none" /\ g' \in {"none", "header"} /\ (g' = "header" => call = "logs")
  <2>1. g = "none"
    <3>1. result # "ok"
      BY <1>1 DEF StreamInv, Phases, TypeOK
    <3>2. g # "none" => call = "multiplexed"
      BY <3>1 DEF StreamInv, Phases
    <3>3. call # "multiplexed"
      BY <1>1 DEF StreamInv, Phases, Execs
    <3>4. QED
      BY <3>2, <3>3
  <2>2. QED
    BY <1>1, <2>1
<1>3. TypeOK'
  BY <1>1, <1>2, StepTypes
<1>4. Phases' /\ Endings'
  BY <1>1, <1>2 DEF StreamInv, Phases, Endings, TypeOK, Execs, Calls
<1>5. Synchronised'
  BY <1>1, <1>2 DEF StreamInv, Synchronised, AtHead, Phases
<1>6. LogKept' /\ Gathered'
  BY <1>1, <1>2 DEF StreamInv, LogKept, Gathered, Passed, DataIn, Phases
<1>7. Framing'
  <2>1. call # "multiplexed"
    BY <1>1 DEF StreamInv, Phases, Execs
  <2>2. QED
    BY <1>1, <2>1, Untouched
<1>8. QED
  BY <1>1, <1>3, <1>4, <1>5, <1>6, <1>7, Untouched DEF StreamInv

\* So does the collector of a command.
LEMMA AttachKeeps == ASSUME StreamInv, Attach PROVE StreamInv'
<1>1. /\ UNCHANGED <<call, units, due, written, taken, half, left, to, chunk, pipeEnd, out, err,
                     reader, got, closed>>
      /\ at = "attach"
      /\ \/ at' = "returned" /\ result' = "error" /\ UNCHANGED <<running, conn, g>>
         \/ /\ running' = TRUE /\ conn' = "open" /\ result' = result
            /\ \/ call = "multiplexed" /\ at' = "wait" /\ g' = "header"
               \/ call # "multiplexed" /\ at' = "poll" /\ g' = g
  BY DEF Attach, Return, Goto
<1>2. g = "none" /\ g' \in {"none", "header"} /\ (g' = "header" => call = "multiplexed")
  <2>1. conn = "none"
    BY <1>1 DEF StreamInv, Phases
  <2>2. g = "none"
    BY <2>1 DEF StreamInv, Phases
  <2>3. QED
    BY <1>1, <2>2
<1>3. TypeOK'
  BY <1>1, <1>2, StepTypes
<1>4. Phases' /\ Endings'
  BY <1>1, <1>2 DEF StreamInv, Phases, Endings, TypeOK, Execs, Calls
<1>5. Synchronised'
  BY <1>1, <1>2 DEF StreamInv, Synchronised, AtHead, Phases
<1>6. LogKept' /\ Gathered'
  BY <1>1, <1>2 DEF StreamInv, LogKept, Gathered, Passed, DataIn, Phases
<1>7. Framing'
  <2>1. half = 0 \/ call = "file"
    BY <1>2 DEF StreamInv, Phases
  <2>2. CASE call = "file"
    BY <1>1, <2>2, Untouched
  <2>3. CASE half = 0
    BY <1>1, <1>2, <2>3 DEF Framing
  <2>4. QED
    BY <2>1, <2>2, <2>3
<1>8. QED
  BY <1>1, <1>3, <1>4, <1>5, <1>6, <1>7, Untouched DEF StreamInv

\* A call that only waits, or returns, leaves the streams alone.
LEMMA PollKeeps == ASSUME StreamInv, Collected \/ Poll \/ PollFails PROVE StreamInv'
<1>1. /\ UNCHANGED <<call, units, due, written, taken, g, half, left, to, chunk, pipeEnd, out, err,
                     reader, got, running, closed, conn>>
      /\ \/ /\ at = "wait" /\ call = "multiplexed" /\ g = "done"
            /\ at' = "poll" /\ result' = result
         \/ at = "poll" /\ at' = "returned" /\ result' \in {"ok", "error"}
  BY DEF Collected, Poll, PollFails, Return, Goto, network, parser
<1>2. TypeOK'
  BY <1>1, StepTypes
<1>3. Phases' /\ Endings'
  BY <1>1 DEF StreamInv, Phases, Endings, TypeOK, Execs, Calls
<1>4. QED
  BY <1>1, <1>2, <1>3, Untouched DEF StreamInv

\* The archive of a copied file has a header first, and data after it.
LEMMA FileShape ==
  ASSUME Shaped, call = "file"
  PROVE  /\ Len(units) \in Nat /\ Len(units) >= 2
         /\ units[1].part = "head" /\ units[2].part = "size" /\ units[2].size \in Nat
         /\ Len(units) = 2 + units[2].size
         /\ \A j \in 3..Len(units) : units[j].part = "data"
<1>1. units \in Seq(AUnit) /\ WellFramed(units) /\ Len(units) > 1 /\ Len(units) = 2 + units[2].size
  BY StreamAssumption DEF Shaped
<1>2. Len(units) \in Nat /\ 1 \in DOMAIN units /\ 2 \in DOMAIN units /\ units # <<>>
  BY <1>1
<1>3. units[1].part = "head"
  BY <1>1, <1>2 DEF WellFramed
<1>4. units[2].part = "size"
  BY <1>1, <1>2, <1>3 DEF WellFramed
<1>5. \A j \in (2 + 1)..(2 + units[2].size) : units[j].part = "data"
  BY <1>1, <1>2, <1>4 DEF WellFramed
<1>6. units[2] \in AUnit
  BY <1>1, <1>2
<1>7. QED
  BY <1>1, <1>2, <1>3, <1>4, <1>5, <1>6 DEF AUnit

\* The entry of the archive says how much data follows.
LEMMA EntryKeeps == ASSUME StreamInv, Entry PROVE StreamInv'
<1>1. /\ UNCHANGED <<call, units, running, conn, closed, written, due, g, to, chunk, pipeEnd, out, err,
                     reader, got>>
      /\ at = "wait" /\ call = "file"
      /\ \/ /\ taken < written /\ taken' = taken + 1 /\ half' = half + 1
            /\ \/ half = 1 /\ at' = "returned" /\ result' = "ok" /\ left' = units[taken + 1].size
               \/ half # 1 /\ at' = at /\ result' = result /\ left' = left
         \/ at' = "returned" /\ result' = "error" /\ UNCHANGED <<taken, half, left>>
  BY DEF Entry, Return, Some, Unit
<1>2. /\ half \in {0, 1} /\ taken = half /\ got = <<>> /\ g = "none" /\ result = "none"
      /\ taken \in 0..written /\ written \in 0..Len(units) /\ written - taken <= Capacity
      /\ left \in Nat /\ Len(units) \in Nat
      /\ Enumerates(got, DataIn(taken, "both"))
  BY <1>1, FileShape DEF StreamInv, Phases, TypeOK, Direct
<1>3. Len(units) >= 2 /\ units[1].part = "head" /\ units[2].part = "size" /\ units[2].size \in Nat
      /\ Len(units) = 2 + units[2].size
  BY <1>1, FileShape DEF StreamInv
<1>4. /\ half' \in 0..2 /\ taken' \in 0..written' /\ written' - taken' <= Capacity
      /\ left' \in Nat /\ (taken' = half' \/ (taken' = taken /\ half' = half))
      /\ half' = 2 => result' = "ok" /\ taken' = 2 /\ taken' + left' = Len(units)
      /\ at' = "wait" => half' \in {0, 1}
      /\ result' = "ok" => half' = 2
  <2>1. CASE taken' = taken /\ half' = half /\ left' = left /\ at' = "returned" /\ result' = "error"
    BY <1>1, <1>2, <2>1
  <2>2. CASE taken < written /\ half = 0 /\ taken' = 1 /\ half' = 1 /\ at' = at /\ result' = result /\ left' = left
    BY <1>1, <1>2, <2>2, Capacities
  <2>3. CASE /\ taken < written /\ half = 1 /\ taken' = 2 /\ half' = 2
             /\ at' = "returned" /\ result' = "ok" /\ left' = units[2].size
    BY <1>1, <1>2, <1>3, <2>3, Capacities
  <2>4. QED
    BY <1>1, <1>2, <2>1, <2>2, <2>3
<1>5. TypeOK'
  <2>1. /\ at' \in {"wait", "returned"} /\ result' \in {"none", "ok", "error"}
        /\ half' \in 0..2 /\ taken' \in 0..written' /\ written' - taken' <= Capacity /\ left' \in Nat
        /\ written' \in 0..Len(units)
    BY <1>1, <1>2, <1>4
  <2>2. QED
    BY <1>1, <2>1, StepTypes
<1>6. Phases' /\ Endings'
  BY <1>1, <1>2, <1>4 DEF StreamInv, Phases, Endings, TypeOK, Execs, Calls
<1>7. Synchronised'
  BY <1>1, <1>2 DEF StreamInv, Synchronised, Phases
<1>8. Direct'
  <2>1. units[taken + 1].part # "data" \/ taken' = taken
    BY <1>1, <1>2, <1>3
  <2>2. DataIn(taken', "both") = DataIn(taken, "both")
    <3>1. CASE taken' = taken
      BY <3>1
    <3>2. CASE taken' = taken + 1 /\ units[taken + 1].part # "data"
      BY <1>2, <3>2, NoData
    <3>3. QED
      BY <1>1, <2>1, <3>1, <3>2
  <2>3. Enumerates(got, DataIn(taken', "both")) /\ DataIn(taken, "both")' = DataIn(taken', "both")
    BY <1>1, <1>2, <2>2 DEF DataIn
  <2>4. QED
    BY <1>1, <1>2, <1>4, <2>3 DEF Direct
<1>9. LogKept' /\ Gathered'
  BY <1>1 DEF LogKept, Gathered
<1>10. QED
  BY <1>1, <1>5, <1>6, <1>7, <1>8, <1>9, Untouched DEF StreamInv

-----------------------------------------------------------------------------
(* The goroutine.                                                          *)

\* Where a header's first part is, its second part follows, and then the frame.
LEMMA FrameShape ==
  ASSUME StreamInv, call \in {"logs", "multiplexed"}
  PROVE  /\ units # <<>> => units[1].part = "head"
         /\ \A i \in 1..Len(units) : units[i].part = "head" => i < Len(units) /\ units[i + 1].part = "size"
         /\ \A i \in 1..Len(units) : units[i].part = "size" =>
              /\ AtHead(i + units[i].size) /\ units[i].size \in Nat /\ units[i].to \in {"out", "err"}
              /\ \A j \in (i + 1)..(i + units[i].size) : units[j].part = "data" /\ units[j].to = units[i].to
<1>1. units \in Seq(AUnit) /\ WellFramed(units)
  BY StreamAssumption DEF StreamInv, Shaped
<1>2. DOMAIN units = 1..Len(units) /\ \A i \in 1..Len(units) : units[i] \in AUnit
  BY <1>1
<1>3. \A i \in 1..Len(units) : units[i].size \in Nat /\ units[i].to \in {"out", "err"}
  BY <1>2 DEF AUnit
<1>4. QED
  BY <1>1, <1>2, <1>3 DEF WellFramed, AtHead

\* A header read to its end says how much data follows, and of which stream.
LEMMA ReadHeaderKeeps == ASSUME StreamInv, ReadHeader PROVE StreamInv'
<1>1. /\ UNCHANGED <<call, units, at, result, running, conn, closed, written, due, reader, got, chunk,
                     pipeEnd, out, err>>
      /\ g = "header" /\ taken < written /\ taken' = taken + 1 /\ half' = 1 - half
      /\ \/ half = 1 /\ g' = "frame" /\ left' = units[taken + 1].size /\ to' = units[taken + 1].to
         \/ half # 1 /\ UNCHANGED <<g, left, to>>
  BY DEF ReadHeader, outside, collector, Some, Unit
<1>2. call \in {"logs", "multiplexed"} /\ half \in {0, 1} /\ chunk = <<>> /\ pipeEnd = "none"
  BY <1>1 DEF StreamInv, Phases, Synchronised, LogKept, Gathered, Endings, TypeOK
<1>3. /\ taken \in Nat /\ written \in Nat /\ Len(units) \in Nat /\ taken + 1 \in 1..Len(units)
      /\ taken + 1 <= written /\ written <= Len(units) /\ written - taken <= Capacity
  <2>1. /\ taken \in Nat /\ written \in Nat /\ Len(units) \in Nat /\ written \in 0..Len(units)
        /\ written - taken <= Capacity /\ taken < written
    BY <1>1, OldTypes
  <2>2. QED
    BY <2>1
<1>4. half = 0 => units[taken + 1].part = "head"
  BY <1>1, <1>2, <1>3 DEF StreamInv, Synchronised, AtHead
<1>5. half = 1 => units[taken + 1].part = "size"
  BY <1>1, <1>2 DEF StreamInv, Synchronised
<1>6. half = 1 => left' \in Nat /\ to' \in {"out", "err"}
  BY <1>1, <1>2, <1>3, <1>5, FrameShape
<1>7. TypeOK'
  <2>1. taken' \in 0..written' /\ written' \in 0..Len(units) /\ written' - taken' <= Capacity
    BY <1>1, <1>3, Capacities
  <2>2. half' \in 0..2
    BY <1>1, <1>2
  <2>3. left' = left \/ left' \in Nat
    BY <1>1, <1>6
  <2>4. to' = to \/ to' \in {"", "out", "err"}
    BY <1>1, <1>6
  <2>5. g' = g \/ g' \in {"none", "header", "frame", "write", "close", "done"}
    BY <1>1
  <2>6. QED
    BY <1>1, <2>1, <2>2, <2>3, <2>4, <2>5, StepTypes
<1>8. Phases' /\ Endings'
  BY <1>1, <1>2 DEF StreamInv, Phases, Endings, TypeOK, Execs
<1>9. Synchronised'
  <2>1. CASE half = 0
    <3>1. g' = "header" /\ half' = 1 /\ taken + 1 < Len(units) /\ units[taken + 2].part = "size"
      BY <1>1, <1>2, <1>3, <1>4, <2>1, FrameShape
    <3>2. units' = units /\ taken' = taken + 1 /\ taken' + 1 = taken + 2
      BY <1>1, <1>3
    <3>3. QED
      BY <3>1, <3>2 DEF Synchronised
  <2>2. CASE half = 1
    <3>1. g' = "frame" /\ half' = 0
      BY <1>1, <2>2
    <3>2. /\ AtHead(taken' + left')
          /\ \A j \in (taken' + 1)..(taken' + left') : units[j].part = "data" /\ units[j].to = to'
      BY <1>1, <1>2, <1>3, <1>5, <2>2, FrameShape
    <3>3. AtHead(taken + left)'
      BY <1>1, <3>2 DEF AtHead
    <3>4. QED
      BY <1>1, <3>1, <3>2, <3>3 DEF Synchronised
  <2>3. QED
    BY <1>2, <2>1, <2>2
<1>10. \A stream : DataIn(taken, stream)' = DataIn(taken, stream)
  <2>1. TAKE stream
  <2>2. DataIn(taken + 1, stream) = DataIn(taken, stream)
    BY <1>2, <1>3, <1>4, <1>5, NoData
  <2>3. DataIn(taken, stream)' = DataIn(taken + 1, stream)
    BY <1>1 DEF DataIn
  <2>4. QED
    BY <2>2, <2>3
<1>11. LogKept'
  BY <1>1, <1>2, <1>10 DEF StreamInv, LogKept
<1>12. Gathered'
  <2>1. Len(chunk) = 0
    BY <1>2
  <2>2. Passed = taken /\ Passed' = taken' /\ taken' \in Nat
    BY <1>1, <1>3, <2>1 DEF Passed
  <2>3. \A stream : DataIn(Passed, stream)' = DataIn(Passed, stream)
    <3>1. TAKE stream
    <3>2. DataIn(Passed, stream) = DataIn(taken, stream)
      BY <2>2
    <3>3. DataIn(Passed, stream)' = DataIn(taken, stream)'
      BY <2>2 DEF DataIn
    <3>4. QED
      BY <1>10, <3>2, <3>3
  <2>4. Len(chunk') <= taken' /\ \A i \in 1..Len(chunk') : FALSE
    BY <1>1, <2>1, <2>2
  <2>5. (taken' + 1)..taken' = {}
    <3>1. \A n \in Nat : (n + 1)..n = {}
      OBVIOUS
    <3>2. QED
      BY <2>2, <3>1
  <2>6. QED
    BY <1>1, <1>2, <2>2, <2>3, <2>4, <2>5 DEF StreamInv, Gathered
<1>13. Direct'
  BY <1>1, <1>2 DEF Direct
<1>14. Framing'
  <2>1. SUFFICES ASSUME call = "multiplexed"
                 PROVE  Framing'
    BY Untouched, <1>1
  <2>2. CASE half = 0
    <3>1. g' = "header" /\ taken' > 0 /\ units'[taken'].part = "head"
      BY <1>1, <1>2, <1>3, <1>4, <2>2
    <3>2. QED
      BY <3>1 DEF Framing
  <2>3. CASE half = 1
    <3>1. taken > 0 /\ units[taken].part = "head"
      BY <1>1, <2>1, <2>3 DEF StreamInv, Framing
    <3>2. Len(chunk) = 0 /\ Passed' = taken'
      BY <1>1, <1>2, <1>3 DEF Passed
    <3>3. Passed' > 1 /\ Passed' = taken + 1 /\ Passed' - 1 = taken
      BY <1>1, <1>3, <3>1, <3>2
    <3>4. units'[Passed'].part = "size" /\ units'[Passed' - 1].part = "head"
      BY <1>1, <1>5, <2>3, <3>1, <3>3
    <3>5. g' = "frame"
      BY <1>1, <2>3
    <3>6. QED
      BY <3>3, <3>4, <3>5 DEF Framing
  <2>4. QED
    BY <1>2, <2>2, <2>3
<1>15. QED
  BY <1>1, <1>7, <1>8, <1>9, <1>11, <1>12, <1>13, <1>14, Untouched DEF StreamInv

\* Where a frame has ended and no data has come since, all the data is in whole frames.
LEMMA AllWhole ==
  ASSUME NEW n \in Nat, NEW m \in Nat, m <= n, AtHead(m), NEW stream,
         \A i \in (m + 1)..n : units[i].part # "data"
  PROVE  DataIn(n, stream) = WholeIn(n, stream)
<1>1. ASSUME NEW i \in DataIn(n, stream)
      PROVE  m \in i..n
  <2>1. i \in 1..n /\ units[i].part = "data"
    BY DEF DataIn
  <2>2. i \notin (m + 1)..n
    BY <2>1
  <2>3. QED
    BY <2>1, <2>2
<1>2. QED
  BY <1>1 DEF WholeIn

\* At the end of the connection nothing is left that was not taken.
LEMMA HeaderEndsKeeps == ASSUME StreamInv, HeaderEnds PROVE StreamInv'
<1>1. /\ UNCHANGED <<call, units, at, result, running, conn, closed, written, due, reader, got, taken,
                     half, left, to, chunk, out, err>>
      /\ g = "header" /\ ~(taken < written) /\ conn \in {"eof", "cut"}
      /\ pipeEnd' = IF conn # "eof" \/ (call = "logs" /\ half = 1) THEN "error" ELSE "eof"
      /\ g' = IF call = "logs" THEN "close" ELSE "done"
  BY DEF HeaderEnds, outside, collector, Some, Ended, EndOf
<1>2. call \in {"logs", "multiplexed"} /\ half \in {0, 1} /\ chunk = <<>> /\ pipeEnd = "none"
  BY <1>1 DEF StreamInv, Phases, Synchronised, LogKept, Gathered, Endings, TypeOK
<1>3. taken = written
  <2>1. taken \in Nat /\ written \in Nat /\ taken \in 0..written
    BY OldTypes
  <2>2. QED
    BY <1>1, <2>1
<1>4. half = 1 => written # Len(units)
  <2>1. half = 1 => taken < Len(units)
    BY <1>1, <1>2 DEF StreamInv, Synchronised
  <2>2. taken \in Nat /\ Len(units) \in Nat
    BY OldTypes
  <2>3. QED
    BY <1>3, <2>1, <2>2
<1>5. TypeOK'
  BY <1>1, StepTypes
<1>6. Phases' /\ Endings'
  BY <1>1, <1>2, <1>3, <1>4 DEF StreamInv, Phases, Endings, TypeOK, Execs
<1>7. Synchronised'
  BY <1>1, <1>2 DEF Synchronised
<1>8. LogKept' /\ Gathered'
  BY <1>1, <1>2 DEF StreamInv, LogKept, Gathered, Passed, DataIn
<1>9. Framing'
  <2>1. SUFFICES ASSUME call = "multiplexed"
                 PROVE  Framing'
    BY Untouched, <1>1
  <2>2. taken \in Nat /\ Len(units) \in Nat /\ taken <= Len(units)
    BY <1>3, Counts
  <2>3. Len(chunk) = 0 /\ Passed = taken
    BY <1>2, <2>2 DEF Passed
  <2>4. ASSUME NEW stream
        PROVE  DataIn(taken, stream) = WholeIn(taken, stream)
    <3>1. CASE half = 0
      <4>1. AtHead(taken)
        BY <1>1, <2>1, <3>1 DEF StreamInv, Synchronised
      <4>2. \A i \in (taken + 1)..taken : FALSE
        BY <2>2
      <4>3. QED
        BY <2>2, <4>1, <4>2, AllWhole
    <3>2. CASE half = 1
      <4>1. taken > 0 /\ units[taken].part = "head"
        BY <1>1, <2>1, <3>2 DEF StreamInv, Framing
      <4>2. taken - 1 \in Nat /\ taken - 1 < Len(units) /\ (taken - 1) + 1 = taken
        BY <2>2, <4>1
      <4>3. AtHead(taken - 1)
        BY <4>1, <4>2 DEF AtHead
      <4>4. \A i \in ((taken - 1) + 1)..taken : i = taken
        BY <2>2, <4>1
      <4>5. \A i \in ((taken - 1) + 1)..taken : units[i].part # "data"
        BY <4>1, <4>4
      <4>6. taken - 1 <= taken
        BY <2>2
      <4>7. QED
        BY <2>2, <4>2, <4>3, <4>5, <4>6, AllWhole
    <3>3. QED
      BY <1>2, <3>1, <3>2
  <2>5. \A stream : DataIn(Passed, stream)' = WholeIn(taken, stream)'
    BY <1>1, <2>3, <2>4 DEF Passed, DataIn, WholeIn, AtHead
  <2>6. QED
    BY <1>1, <2>1, <2>5 DEF Framing
<1>10. QED
  BY <1>1, <1>5, <1>6, <1>7, <1>8, <1>9, Untouched DEF StreamInv

\* The sequences of positions are sequences of natural numbers.
LEMMA PositionsAreNumbers ==
  ASSUME StreamInv
  PROVE  Positions \subseteq Seq(Nat) /\ \A p \in Positions : Len(p) \in Nat
<1>1. Len(units) \in Nat
  BY OldTypes
<1>2. 1..Len(units) \subseteq Nat
  BY <1>1
<1>3. QED
  BY <1>2 DEF Positions

\* What is taken of a frame goes to the pipe, which was empty.
LEMMA ReadFrameKeeps == ASSUME StreamInv, ReadFrame PROVE StreamInv'
<1>1. /\ UNCHANGED <<call, units, at, result, running, conn, closed, written, due, reader, got,
                     half, to, pipeEnd, out, err>>
      /\ g = "frame" /\ call = "logs"
      /\ \/ left = 0 /\ g' = "header" /\ UNCHANGED <<taken, left, chunk>>
         \/ \E n \in 1..left : /\ taken + n <= written
                               /\ taken' = taken + n /\ left' = left - n
                               /\ chunk' = [i \in 1..n |-> taken + i] /\ g' = "write"
  BY DEF ReadFrame, outside, collector
<1>2. half = 0 /\ chunk = <<>> /\ pipeEnd = "none"
  BY <1>1 DEF StreamInv, Synchronised, LogKept, Endings
<1>3. /\ taken \in Nat /\ written \in Nat /\ Len(units) \in Nat /\ left \in Nat
      /\ written <= Len(units) /\ written - taken <= Capacity
  BY Counts
<1>4. /\ AtHead(taken + left)
      /\ \A j \in (taken + 1)..(taken + left) : units[j].part = "data" /\ units[j].to = to
  BY <1>1 DEF StreamInv, Synchronised
<1>5. Phases' /\ Endings'
  <2>1. g' \in {"header", "write"}
    BY <1>1
  <2>2. QED
    BY <1>1, <1>2, <2>1 DEF StreamInv, Phases, Endings, TypeOK, Execs
<1>6. Gathered' /\ Direct'
  BY <1>1 DEF Gathered, Direct
<1>7. CASE left = 0 /\ g' = "header" /\ UNCHANGED <<taken, left, chunk>>
  <2>1. TypeOK'
    BY <1>1, <1>7, StepTypes
  <2>2. AtHead(taken)
    BY <1>3, <1>4, <1>7
  <2>3. Synchronised'
    BY <1>1, <1>2, <1>7, <2>2 DEF Synchronised, AtHead
  <2>4. LogKept'
    BY <1>1, <1>2, <1>7 DEF StreamInv, LogKept, DataIn
  <2>5. QED
    BY <1>1, <1>5, <1>6, <2>1, <2>3, <2>4, Untouched DEF StreamInv
<1>8. ASSUME NEW n \in 1..left, taken + n <= written, taken' = taken + n, left' = left - n,
             chunk' = [i \in 1..n |-> taken + i], g' = "write"
      PROVE  StreamInv'
  <2>1. n \in Nat /\ n >= 1 /\ taken + n \in Nat /\ taken + n <= Len(units) /\ left - n \in Nat
    BY <1>3, <1>8
  <2>2. chunk' \in Positions /\ Len(chunk') = n /\ \A i \in 1..n : chunk'[i] = taken + i
    <3>1. \A i \in 1..n : taken + i \in 1..Len(units)
      BY <1>3, <2>1
    <3>2. QED
      BY <1>8, <2>1, <3>1 DEF Positions
  <2>3. TypeOK'
    <3>1. taken' \in 0..written' /\ written' \in 0..Len(units) /\ written' - taken' <= Capacity
      BY <1>1, <1>3, <1>8, <2>1, Capacities
    <3>2. left' \in Nat
      BY <1>8, <2>1
    <3>3. QED
      BY <1>1, <1>8, <2>2, <3>1, <3>2, StepTypes
  <2>4. Synchronised'
    <3>1. taken' + left' = taken + left
      BY <1>3, <1>8
    <3>2. \A j \in (taken' + 1)..(taken' + left') : j \in (taken + 1)..(taken + left)
      BY <1>3, <1>8, <2>1, <3>1
    <3>3. AtHead(taken + left)'
      BY <1>1, <1>4, <3>1 DEF AtHead
    <3>4. \A j \in (taken' + 1)..(taken' + left') : units'[j].part = "data" /\ units'[j].to = to'
      BY <1>1, <1>4, <3>2
    <3>5. QED
      BY <1>1, <1>2, <1>8, <3>3, <3>4 DEF Synchronised
  <2>5. ASSUME reader = "reading"
        PROVE  Enumerates(got \o chunk', DataIn(taken + n, "both"))
    <3>1. got \in Seq(Nat) /\ chunk' \in Seq(Nat)
      BY <2>2, OldTypes, PositionsAreNumbers
    <3>2. Enumerates(got \o chunk, DataIn(taken, "both"))
      BY <1>1, <2>5 DEF StreamInv, LogKept
    <3>3. got \o chunk = got
      BY <1>2, <3>1
    <3>4. Enumerates(got \o chunk', DataIn(taken, "both") \cup (taken + 1)..(taken + n))
      <4>1. \A y \in DataIn(taken, "both") : y <= taken
        BY <1>3, DataStarts
      <4>2. \A i \in 1..Len(chunk') : chunk'[i] = taken + i
        BY <2>2
      <4>3. QED
        BY <1>3, <2>2, <3>1, <3>2, <3>3, <4>1, <4>2, Joined
    <3>5. DataIn(taken + n, "both") = DataIn(taken, "both") \cup (taken + 1)..(taken + n)
      <4>1. \A j \in (taken + 1)..(taken + n) : j \in (taken + 1)..(taken + left)
        BY <1>3, <2>1, <1>8
      <4>2. taken <= taken + n
        BY <1>3, <2>1
      <4>3. \A j \in (taken + 1)..(taken + n) :
               units[j].part = "data" /\ "both" \in {units[j].to, "both"}
        BY <1>4, <4>1
      <4>4. QED
        BY <1>3, <2>1, <4>2, <4>3, MoreData
    <3>6. QED
      BY <3>4, <3>5
  <2>6. LogKept'
    <3>1. DataIn(taken, "both")' = DataIn(taken + n, "both")
      BY <1>1, <1>8 DEF DataIn
    <3>2. QED
      BY <1>1, <1>8, <2>5, <3>1 DEF LogKept
  <2>7. QED
    BY <1>1, <1>5, <1>6, <2>3, <2>4, <2>6, Untouched DEF StreamInv
<1>9. QED
  BY <1>1, <1>7, <1>8

\* A whole frame goes to the buffer of its stream; a part is in neither.
LEMMA CollectFrameKeeps == ASSUME StreamInv, CollectFrame PROVE StreamInv'
<1>1. /\ UNCHANGED <<call, units, at, result, running, conn, closed, written, due, reader, got,
                     half, to, pipeEnd>>
      /\ g = "frame" /\ call = "multiplexed"
      /\ \/ /\ left > 0 /\ taken < written
            /\ taken' = taken + 1 /\ left' = left - 1 /\ chunk' = Append(chunk, taken + 1)
            /\ UNCHANGED <<g, out, err>>
         \/ /\ left = 0 /\ g' = "header" /\ chunk' = <<>> /\ UNCHANGED <<taken, left>>
            /\ out' = IF to = "out" THEN out \o chunk ELSE out
            /\ err' = IF to = "err" THEN err \o chunk ELSE err
  BY DEF CollectFrame, outside, collector, Some
<1>2. half = 0 /\ pipeEnd = "none" /\ result # "ok" /\ got = <<>>
  BY <1>1 DEF StreamInv, Synchronised, Endings, Phases
<1>3. /\ taken \in Nat /\ written \in Nat /\ Len(units) \in Nat /\ left \in Nat
      /\ written <= Len(units) /\ written - taken <= Capacity
  BY Counts
<1>4. /\ AtHead(taken + left)
      /\ \A j \in (taken + 1)..(taken + left) : units[j].part = "data" /\ units[j].to = to
  BY <1>1 DEF StreamInv, Synchronised
<1>5. /\ chunk \in Positions /\ out \in Positions /\ err \in Positions
      /\ chunk \in Seq(Nat) /\ Len(chunk) \in Nat /\ Len(chunk) <= taken
      /\ \A i \in 1..Len(chunk) : chunk[i] = Passed + i
      /\ \A j \in (Passed + 1)..taken : units[j].part = "data" /\ units[j].to = to
      /\ Enumerates(out, DataIn(Passed, "out")) /\ Enumerates(err, DataIn(Passed, "err"))
  <2>1. chunk \in Positions /\ out \in Positions /\ err \in Positions
    BY OldTypes
  <2>2. chunk \in Seq(Nat) /\ Len(chunk) \in Nat
    BY <2>1, PositionsAreNumbers
  <2>3. QED
    BY <1>1, <2>1, <2>2 DEF StreamInv, Gathered
<1>6. Passed \in Nat /\ Passed + Len(chunk) = taken
  BY <1>3, <1>5 DEF Passed
<1>7. Phases' /\ Endings'
  <2>1. g' \in {"header", "frame"}
    BY <1>1
  <2>2. QED
    BY <1>1, <1>2, <2>1 DEF StreamInv, Phases, Endings, TypeOK, Execs
<1>8. LogKept' /\ Direct'
  BY <1>1 DEF LogKept, Direct
<1>9. IsPrefix(got', out' \o err')
  <2>1. out' \in Positions /\ err' \in Positions
    BY <1>1, <1>5, ConcatProperties DEF Positions
  <2>2. out' \o err' \in Seq(1..Len(units)) /\ got' = <<>> /\ <<>> \in Seq(1..Len(units))
    BY <1>1, <1>2, <2>1, ConcatProperties DEF Positions
  <2>3. Len(<<>>) = 0 /\ Len(out' \o err') \in Nat
    BY <2>2
  <2>4. Len(<<>>) <= Len(out' \o err') /\ \A i \in 1..Len(<<>>) : <<>>[i] = (out' \o err')[i]
    BY <2>3
  <2>5. QED
    BY <2>2, <2>4, Prefixed
<1>10. CASE /\ left > 0 /\ taken < written
            /\ taken' = taken + 1 /\ left' = left - 1 /\ chunk' = Append(chunk, taken + 1)
            /\ UNCHANGED <<g, out, err>>
  <2>1. /\ chunk' \in Positions /\ Len(chunk') = Len(chunk) + 1
        /\ \A i \in 1..Len(chunk) : chunk'[i] = chunk[i]
        /\ chunk'[Len(chunk) + 1] = taken + 1
    <3>1. taken + 1 \in 1..Len(units)
      BY <1>3, <1>10
    <3>2. QED
      BY <1>5, <1>10, <3>1 DEF Positions
  <2>2. TypeOK'
    <3>1. taken' \in 0..written' /\ written' \in 0..Len(units) /\ written' - taken' <= Capacity
      BY <1>1, <1>3, <1>10, Capacities
    <3>2. left' \in Nat
      BY <1>3, <1>10
    <3>3. QED
      BY <1>1, <1>10, <2>1, <3>1, <3>2, StepTypes
  <2>3. units[taken + 1].part = "data" /\ units[taken + 1].to = to
    <3>1. taken + 1 \in (taken + 1)..(taken + left)
      BY <1>3, <1>10
    <3>2. QED
      BY <1>4, <3>1
  <2>4. Synchronised'
    <3>1. taken' + left' = taken + left
      BY <1>3, <1>10
    <3>2. \A j \in (taken' + 1)..(taken' + left') : j \in (taken + 1)..(taken + left)
      BY <1>3, <1>10, <3>1
    <3>3. AtHead(taken + left)'
      BY <1>1, <1>4, <3>1 DEF AtHead
    <3>4. \A j \in (taken' + 1)..(taken' + left') : units'[j].part = "data" /\ units'[j].to = to'
      BY <1>1, <1>4, <3>2
    <3>5. QED
      BY <1>1, <1>2, <1>10, <3>3, <3>4 DEF Synchronised
  <2>5. Passed' = Passed
    BY <1>3, <1>5, <1>10, <2>1 DEF Passed
  <2>6. Len(chunk') <= taken'
    BY <1>3, <1>5, <1>10, <2>1
  <2>7. \A i \in 1..Len(chunk') : chunk'[i] = Passed + i
    <3>1. \A i \in 1..(Len(chunk) + 1) : i \in 1..Len(chunk) \/ i = Len(chunk) + 1
      BY <1>5
    <3>2. chunk'[Len(chunk) + 1] = Passed + (Len(chunk) + 1)
      BY <1>3, <1>5, <1>6, <2>1
    <3>3. QED
      BY <1>5, <2>1, <3>1, <3>2
  <2>8. \A j \in (Passed + 1)..taken' : units[j].part = "data" /\ units[j].to = to
    <3>1. \A j \in (Passed + 1)..(taken + 1) : j \in (Passed + 1)..taken \/ j = taken + 1
      BY <1>3, <1>6
    <3>2. QED
      BY <1>5, <1>10, <2>3, <3>1
  <2>9. \A stream : DataIn(Passed, stream)' = DataIn(Passed, stream)
    BY <1>1, <2>5 DEF DataIn
  <2>10. Gathered'
    BY <1>1, <1>5, <1>9, <1>10, <2>5, <2>6, <2>7, <2>8, <2>9 DEF Gathered
  <2>11. Framing'
    BY <1>1, <1>10, <2>5 DEF StreamInv, Framing
  <2>12. QED
    BY <1>1, <1>7, <1>8, <2>2, <2>4, <2>10, <2>11, Untouched DEF StreamInv
<1>11. CASE /\ left = 0 /\ g' = "header" /\ chunk' = <<>> /\ UNCHANGED <<taken, left>>
            /\ out' = IF to = "out" THEN out \o chunk ELSE out
            /\ err' = IF to = "err" THEN err \o chunk ELSE err
  <2>1. out' \in Positions /\ err' \in Positions /\ chunk' \in Positions /\ Len(chunk') = 0
    <3>1. out \o chunk \in Positions /\ err \o chunk \in Positions
      BY <1>5, ConcatProperties DEF Positions
    <3>2. <<>> \in Positions /\ Len(<<>>) = 0
      BY <1>3 DEF Positions
    <3>3. Len(chunk') = 0
      BY <1>11
    <3>4. QED
      BY <1>5, <1>11, <3>1, <3>2, <3>3
  <2>2. TypeOK'
    BY <1>1, <1>11, <2>1, StepTypes
  <2>3. AtHead(taken)
    BY <1>3, <1>4, <1>11
  <2>4. Synchronised'
    BY <1>1, <1>2, <1>11, <2>3 DEF Synchronised, AtHead
  <2>5. Passed' = taken
    BY <1>3, <1>11, <2>1 DEF Passed
  <2>6. ASSUME NEW stream
        PROVE  /\ stream \in {to, "both"} =>
                    DataIn(taken, stream) = DataIn(Passed, stream) \cup (Passed + 1)..taken
               /\ stream \notin {to, "both"} => DataIn(taken, stream) = DataIn(Passed, stream)
    <3>1. Passed <= taken
      BY <1>3, <1>5, <1>6
    <3>2. \A j \in (Passed + 1)..taken : units[j].part = "data" /\ units[j].to = to
      BY <1>5
    <3>3. CASE stream \in {to, "both"}
      <4>1. \A j \in (Passed + 1)..taken : units[j].part = "data" /\ stream \in {units[j].to, "both"}
        BY <3>2, <3>3
      <4>2. QED
        BY <1>3, <1>6, <3>1, <3>3, <4>1, MoreData
    <3>4. CASE stream \notin {to, "both"}
      <4>1. \A j \in (Passed + 1)..taken : stream \notin {units[j].to, "both"}
        BY <3>2, <3>4
      <4>2. QED
        BY <1>3, <1>6, <3>1, <3>4, <4>1, OtherData
    <3>5. QED
      BY <3>3, <3>4
  <2>7. \A stream : \A y \in DataIn(Passed, stream) : y <= Passed
    BY <1>6, DataStarts
  <2>8. ASSUME NEW stream, NEW q, Enumerates(q, DataIn(Passed, stream)), stream = to
        PROVE  Enumerates(q \o chunk, DataIn(taken, stream))
    <3>1. Enumerates(q \o chunk, DataIn(Passed, stream) \cup (Passed + 1)..(Passed + Len(chunk)))
      BY <1>5, <1>6, <2>7, <2>8, Joined
    <3>2. QED
      BY <1>6, <2>6, <2>8, <3>1
  <2>9. ASSUME NEW stream, NEW q, Enumerates(q, DataIn(Passed, stream)), stream \notin {to, "both"}
        PROVE  Enumerates(q, DataIn(taken, stream))
    BY <2>6, <2>9
  <2>10. Enumerates(out', DataIn(taken, "out"))
    <3>1. CASE to = "out"
      BY <1>5, <1>11, <2>8, <3>1
    <3>2. CASE to # "out"
      BY <1>5, <1>11, <2>9, <3>2
    <3>3. QED
      BY <3>1, <3>2
  <2>11. Enumerates(err', DataIn(taken, "err"))
    <3>1. CASE to = "err"
      BY <1>5, <1>11, <2>8, <3>1
    <3>2. CASE to # "err"
      BY <1>5, <1>11, <2>9, <3>2
    <3>3. QED
      BY <3>1, <3>2
  <2>12. \A stream : DataIn(Passed, stream)' = DataIn(taken, stream)
    BY <1>1, <2>5 DEF DataIn
  <2>13. Len(chunk') <= taken'
    BY <1>3, <1>11, <2>1
  <2>14. Gathered'
    BY <1>1, <1>9, <1>11, <2>10, <2>11, <2>12, <2>13 DEF Gathered
  <2>15. Framing'
    BY <1>1, <1>2, <1>11 DEF Framing
  <2>16. QED
    BY <1>1, <1>7, <1>8, <2>2, <2>4, <2>14, <2>15, Untouched DEF StreamInv
<1>12. QED
  BY <1>1, <1>10, <1>11

\* A frame cut short ends the stream, and the part of it that was collected is dropped.
LEMMA FrameEndsKeeps == ASSUME StreamInv, FrameEnds PROVE StreamInv'
<1>1. /\ UNCHANGED <<call, units, at, result, running, conn, closed, written, due, reader, got, taken,
                     half, left, to, chunk, out, err>>
      /\ g = "frame" /\ left > 0 /\ ~(taken < written) /\ conn \in {"eof", "cut"}
      /\ pipeEnd' = IF conn # "eof" THEN "error" ELSE "eof"
      /\ g' = IF call = "logs" THEN "close" ELSE "done"
  BY DEF FrameEnds, outside, collector, Some, Ended, EndOf
<1>2. call \in {"logs", "multiplexed"} /\ half = 0 /\ pipeEnd = "none"
  BY <1>1 DEF StreamInv, Phases, Synchronised, Endings, TypeOK
<1>3. taken \in Nat /\ written \in Nat /\ Len(units) \in Nat /\ left \in Nat /\ taken = written
  BY <1>1, Counts
<1>4. taken < Len(units)
  <2>1. AtHead(taken + left)
    BY <1>1 DEF StreamInv, Synchronised
  <2>2. QED
    BY <1>1, <1>3, <2>1 DEF AtHead
<1>5. TypeOK'
  BY <1>1, StepTypes
<1>6. Phases' /\ Endings'
  BY <1>1, <1>2, <1>3, <1>4 DEF StreamInv, Phases, Endings, TypeOK, Execs
<1>7. Synchronised'
  BY <1>1, <1>2 DEF Synchronised
<1>8. LogKept'
  BY <1>1, <1>2 DEF StreamInv, LogKept, DataIn
<1>9. Gathered'
  BY <1>1, <1>2 DEF StreamInv, Gathered, Passed, DataIn
<1>10. Framing'
  <2>1. SUFFICES ASSUME call = "multiplexed"
                 PROVE  Framing'
    BY Untouched, <1>1
  <2>2. Passed > 1 /\ units[Passed].part = "size" /\ units[Passed - 1].part = "head"
    BY <1>1, <2>1 DEF StreamInv, Framing
  <2>3. Passed \in Nat /\ Passed <= taken
    <3>1. chunk \in Seq(1..Len(units)) /\ Len(chunk) <= taken
      BY <2>1, OldTypes DEF StreamInv, Gathered, Positions
    <3>2. QED
      BY <1>3, <3>1 DEF Passed
  <2>4. \A i \in (Passed + 1)..(taken + left) : units[i].part = "data"
    <3>1. \A i \in (Passed + 1)..taken : units[i].part = "data"
      BY <1>1, <2>1 DEF StreamInv, Gathered
    <3>2. \A i \in (taken + 1)..(taken + left) : units[i].part = "data"
      BY <1>1 DEF StreamInv, Synchronised
    <3>3. \A i \in (Passed + 1)..(taken + left) : i \in (Passed + 1)..taken \/ i \in (taken + 1)..(taken + left)
      BY <1>3, <2>3
    <3>4. QED
      BY <3>1, <3>2, <3>3
  <2>5. ASSUME NEW stream
        PROVE  DataIn(Passed, stream) = WholeIn(Passed, stream)
    <3>1. Passed - 2 \in Nat /\ Passed - 2 <= Passed /\ Passed - 2 < Len(units) /\ (Passed - 2) + 1 = Passed - 1
      BY <1>3, <1>4, <2>2, <2>3
    <3>2. AtHead(Passed - 2)
      BY <2>2, <3>1 DEF AtHead
    <3>3. \A i \in ((Passed - 2) + 1)..Passed : i = Passed - 1 \/ i = Passed
      BY <2>2, <2>3
    <3>4. \A i \in ((Passed - 2) + 1)..Passed : units[i].part # "data"
      BY <2>2, <3>3
    <3>5. QED
      BY <2>3, <3>1, <3>2, <3>4, AllWhole
  <2>6. \A k \in (Passed + 1)..taken : ~AtHead(k)
    <3>1. TAKE k \in (Passed + 1)..taken
    <3>2. k # Len(units) /\ k + 1 \in (Passed + 1)..(taken + left)
      BY <1>1, <1>3, <1>4, <2>3
    <3>3. QED
      BY <2>4, <3>2 DEF AtHead
  <2>7. ASSUME NEW stream
        PROVE  DataIn(Passed, stream) = WholeIn(taken, stream)
    <3>1. ASSUME NEW i \in DataIn(Passed, stream)
          PROVE  i \in WholeIn(taken, stream)
      <4>1. PICK k \in i..Passed : AtHead(k)
        BY <2>5, <3>1 DEF WholeIn
      <4>2. i \in 1..Passed
        BY <3>1 DEF DataIn
      <4>3. i \in 1..taken /\ k \in i..taken
        BY <1>3, <2>3, <4>1, <4>2
      <4>4. QED
        BY <3>1, <4>1, <4>3 DEF DataIn, WholeIn
    <3>2. ASSUME NEW i \in WholeIn(taken, stream)
          PROVE  i \in DataIn(Passed, stream)
      <4>1. PICK k \in i..taken : AtHead(k)
        BY <3>2 DEF WholeIn
      <4>2. i \in 1..taken
        BY <3>2 DEF WholeIn, DataIn
      <4>3. k \notin (Passed + 1)..taken
        BY <2>6, <4>1
      <4>4. i \in 1..Passed
        BY <1>3, <2>3, <4>1, <4>2, <4>3
      <4>5. QED
        BY <3>2, <4>4 DEF WholeIn, DataIn
    <3>3. QED
      BY <3>1, <3>2
  <2>8. \A stream : DataIn(Passed, stream)' = WholeIn(taken, stream)'
    <3>1. TAKE stream
    <3>2. DataIn(Passed, stream)' = DataIn(Passed, stream)
      BY <1>1 DEF Passed, DataIn
    <3>3. WholeIn(taken, stream)' = WholeIn(taken, stream)
      BY <1>1 DEF DataIn, WholeIn, AtHead
    <3>4. QED
      BY <2>7, <3>2, <3>3
  <2>9. QED
    BY <1>1, <2>1, <2>8 DEF Framing
<1>11. QED
  BY <1>1, <1>5, <1>6, <1>7, <1>8, <1>9, <1>10, Untouched DEF StreamInv

\* A write is done when the pipe is empty; after a close nothing is counted any more.
LEMMA WriteDoneKeeps == ASSUME StreamInv, WriteDone PROVE StreamInv'
<1>1. /\ UNCHANGED <<call, units, at, result, running, conn, closed, written, due, reader, got, taken,
                     half, left, to, out, err>>
      /\ g = "write"
      /\ \/ chunk = <<>> /\ reader # "closed" /\ g' = "frame" /\ UNCHANGED <<chunk, pipeEnd>>
         \/ reader = "closed" /\ g' = "close" /\ chunk' = <<>> /\ pipeEnd' = "error"
  BY DEF WriteDone, outside, collector
<1>2. call = "logs" /\ half = 0 /\ pipeEnd = "none"
  BY <1>1 DEF StreamInv, Phases, Synchronised, Endings, TypeOK
<1>3. TypeOK'
  <2>1. <<>> \in Positions
    <3>1. Len(units) \in Nat
      BY Counts
    <3>2. QED
      BY <3>1 DEF Positions
  <2>2. chunk' = chunk \/ chunk' \in Positions
    BY <1>1, <2>1
  <2>3. QED
    BY <1>1, <2>2, StepTypes
<1>4. Phases' /\ Endings'
  BY <1>1, <1>2 DEF StreamInv, Phases, Endings, TypeOK, Execs
<1>5. Synchronised'
  BY <1>1, <1>2 DEF StreamInv, Synchronised, AtHead
<1>6. LogKept' /\ Gathered'
  BY <1>1, <1>2 DEF StreamInv, LogKept, Gathered, DataIn
<1>7. Framing'
  <2>1. call # "multiplexed"
    BY <1>2
  <2>2. QED
    BY <1>1, <2>1, Untouched
<1>8. QED
  BY <1>1, <1>3, <1>4, <1>5, <1>6, <1>7, Untouched DEF StreamInv

\* The goroutine ends behind the pipe.
LEMMA CloseConnectionKeeps == ASSUME StreamInv, CloseConnection PROVE StreamInv'
<1>1. /\ UNCHANGED <<call, units, at, result, running, conn, written, due, reader, got, taken,
                     half, left, to, chunk, pipeEnd, out, err>>
      /\ g = "close" /\ g' = "done" /\ closed' = TRUE
  BY DEF CloseConnection, collector
<1>2. call = "logs" /\ pipeEnd # "none"
  BY <1>1 DEF StreamInv, Phases, Endings
<1>3. TypeOK'
  BY <1>1, StepTypes
<1>4. Phases' /\ Endings'
  BY <1>1, <1>2 DEF StreamInv, Phases, Endings, TypeOK, Execs
<1>5. Synchronised'
  BY <1>1, <1>2 DEF StreamInv, Synchronised, AtHead
<1>6. LogKept' /\ Gathered'
  BY <1>1, <1>2 DEF StreamInv, LogKept, Gathered, DataIn
<1>7. Framing'
  <2>1. call # "multiplexed"
    BY <1>2
  <2>2. QED
    BY <1>1, <2>1, Untouched
<1>8. QED
  BY <1>1, <1>3, <1>4, <1>5, <1>6, <1>7, Untouched DEF StreamInv

-----------------------------------------------------------------------------
(* The caller.                                                             *)

\* From the pipe to the caller: what the two hold together stays the same.
LEMMA HandedOver ==
  ASSUME NEW p \in Seq(Nat), NEW c \in Seq(Nat), c # <<>>
  PROVE  Append(p, Head(c)) \o Tail(c) = p \o c
<1>1. c = <<Head(c)>> \o Tail(c) /\ Head(c) \in Nat /\ Tail(c) \in Seq(Nat)
  BY HeadTailProperties
<1>2. Append(p, Head(c)) = p \o <<Head(c)>> /\ <<Head(c)>> \in Seq(Nat)
  BY <1>1, AppendIsConcat
<1>3. (p \o <<Head(c)>>) \o Tail(c) = p \o (<<Head(c)>> \o Tail(c))
  BY <1>1, <1>2, ConcatAssociative, SMTT(30)
<1>4. QED
  BY <1>1, <1>2, <1>3

\* The caller takes from the pipe what comes next.
LEMMA ReadPipeKeeps == ASSUME StreamInv, ReadPipe PROVE StreamInv'
<1>1. /\ UNCHANGED <<call, units, at, result, running, conn, written, due, g, half, to, pipeEnd, out, err,
                     closed, taken, left>>
      /\ result = "ok" /\ reader = "reading" /\ call = "logs"
      /\ \/ chunk # <<>> /\ got' = Append(got, Head(chunk)) /\ chunk' = Tail(chunk) /\ reader' = reader
         \/ /\ chunk = <<>> /\ pipeEnd # "none" /\ UNCHANGED <<got, chunk>>
            /\ reader' = IF pipeEnd = "eof" THEN "end" ELSE "error"
  BY DEF ReadPipe, Reads, held, collector
<1>2. /\ chunk \in Positions /\ got \in Positions /\ chunk \in Seq(Nat) /\ got \in Seq(Nat)
      /\ Enumerates(got \o chunk, DataIn(taken, "both"))
      /\ g \in {"none", "header", "frame", "close", "done"} => chunk = <<>>
  BY <1>1, OldTypes, PositionsAreNumbers DEF StreamInv, LogKept
<1>3. /\ got' \in Positions /\ chunk' \in Positions
      /\ reader' = "reading" => got' \o chunk' = got \o chunk
      /\ chunk = <<>> => chunk' = <<>>
  <2>1. CASE chunk # <<>>
    <3>1. got' = Append(got, Head(chunk)) /\ chunk' = Tail(chunk)
      BY <1>1, <2>1
    <3>2. got' \in Positions /\ chunk' \in Positions
      BY <1>2, <2>1, <3>1, HeadTailProperties DEF Positions
    <3>3. got' \o chunk' = got \o chunk
      BY <1>2, <2>1, <3>1, HandedOver
    <3>4. QED
      BY <2>1, <3>2, <3>3
  <2>2. CASE chunk = <<>>
    BY <1>1, <1>2, <2>2
  <2>3. QED
    BY <2>1, <2>2
<1>4. TypeOK'
  BY <1>1, <1>3, StepTypes
<1>5. Phases' /\ Endings'
  BY <1>1, <1>2, <1>3 DEF StreamInv, Phases, Endings, TypeOK, Execs
<1>6. LogKept'
  <2>1. DataIn(taken, "both")' = DataIn(taken, "both")
    BY <1>1 DEF DataIn
  <2>2. QED
    BY <1>1, <1>2, <1>3, <2>1 DEF LogKept
<1>7. Gathered' /\ Direct'
  BY <1>1 DEF Gathered, Direct
<1>8. QED
  BY <1>1, <1>4, <1>5, <1>6, <1>7, Untouched DEF StreamInv

\* And from the buffers, which no longer change.
LEMMA ReadBuffersKeeps == ASSUME StreamInv, ReadBuffers PROVE StreamInv'
<1>1. /\ UNCHANGED <<call, units, at, result, running, conn, written, due, g, half, to, pipeEnd, out, err,
                     closed, taken, left, chunk>>
      /\ result = "ok" /\ reader = "reading" /\ call = "multiplexed"
      /\ \/ pipeEnd = "error" /\ reader' = "error" /\ got' = got
         \/ pipeEnd # "error" /\ got # out \o err /\ got' = Append(got, (out \o err)[Len(got) + 1]) /\ reader' = reader
         \/ reader' = "end" /\ got' = got
  BY DEF ReadBuffers, Reads, held, collector
<1>2. out \o err \in Positions /\ got \in Positions /\ IsPrefix(got, out \o err)
  <2>1. out \in Positions /\ err \in Positions /\ got \in Positions
    BY OldTypes
  <2>2. out \o err \in Positions
    BY <2>1, ConcatProperties DEF Positions
  <2>3. QED
    BY <1>1, <2>1, <2>2 DEF StreamInv, Gathered
<1>3. got' \in Positions /\ IsPrefix(got', out \o err)
  <2> DEFINE all == out \o err
  <2>1. Len(got) <= Len(all) /\ \A i \in 1..Len(got) : got[i] = all[i]
    BY <1>2, PrefixMeans DEF Positions
  <2>2. CASE got' = got
    BY <1>2, <2>2
  <2>3. CASE got # all /\ got' = Append(got, all[Len(got) + 1])
    <3> HIDE DEF all
    <3>1. Len(got) \in Nat /\ Len(all) \in Nat /\ all \in Seq(1..Len(units)) /\ got \in Seq(1..Len(units))
      BY <1>2 DEF Positions, all
    <3>2. Len(got) # Len(all)
      BY <2>1, <2>3, <3>1, SeqEqual
    <3>3. Len(got) + 1 \in 1..Len(all)
      BY <2>1, <3>1, <3>2
    <3>4. all[Len(got) + 1] \in 1..Len(units)
      BY <3>1, <3>3
    <3>5. /\ got' \in Seq(1..Len(units)) /\ Len(got') = Len(got) + 1
          /\ \A i \in 1..Len(got) : got'[i] = got[i]
          /\ got'[Len(got) + 1] = all[Len(got) + 1]
      BY <2>3, <3>1, <3>4
    <3>6. \A i \in 1..Len(got') : got'[i] = all[i]
      <4>1. \A i \in 1..Len(got') : i \in 1..Len(got) \/ i = Len(got) + 1
        BY <3>1, <3>5
      <4>2. QED
        BY <2>1, <3>5, <4>1
    <3>7. Len(got') <= Len(all)
      BY <3>1, <3>3, <3>5
    <3>8. IsPrefix(got', all)
      BY <3>1, <3>5, <3>6, <3>7, Prefixed
    <3>9. QED
      BY <3>5, <3>8 DEF Positions, all
  <2>4. QED
    BY <1>1, <2>2, <2>3
<1>4. TypeOK'
  BY <1>1, <1>3, StepTypes
<1>5. Phases' /\ Endings'
  BY <1>1 DEF StreamInv, Phases, Endings, TypeOK, Execs
<1>6. LogKept' /\ Direct'
  BY <1>1 DEF LogKept, Direct
<1>7. Gathered'
  BY <1>1, <1>3 DEF StreamInv, Gathered, Passed, DataIn
<1>8. QED
  BY <1>1, <1>4, <1>5, <1>6, <1>7, Untouched DEF StreamInv

\* Or from the connection, whose every unit is its next one.
LEMMA ReadConnectionKeeps == ASSUME StreamInv, ReadConnection PROVE StreamInv'
<1>1. /\ UNCHANGED <<call, units, at, result, running, conn, written, due, g, half, to, pipeEnd, out, err,
                     closed, chunk>>
      /\ result = "ok" /\ reader = "reading" /\ call \in {"ttyLogs", "raw", "file"}
      /\ \/ /\ call # "file" \/ left > 0
            /\ taken < written /\ taken' = taken + 1 /\ got' = Append(got, taken + 1) /\ reader' = reader
            /\ left' = IF call = "file" THEN left - 1 ELSE left
         \/ UNCHANGED <<taken, left, got>> /\ reader' \in {"end", "error"}
  BY DEF ReadConnection, Reads, held, collector, Some
<1>2. g = "none" /\ got \in Positions
  BY <1>1, OldTypes DEF StreamInv, Phases
<1>3. /\ taken \in Nat /\ written \in Nat /\ Len(units) \in Nat /\ left \in Nat
      /\ taken <= written /\ written <= Len(units) /\ written - taken <= Capacity
  BY Counts
<1>4. LogKept' /\ Gathered' /\ Synchronised'
  BY <1>1, <1>2 DEF LogKept, Gathered, Synchronised, StreamInv, Phases
<1>5. CASE UNCHANGED <<taken, left, got>> /\ reader' \in {"end", "error"}
  <2>1. TypeOK'
    BY <1>1, <1>5, StepTypes
  <2>2. Phases' /\ Endings'
    BY <1>1, <1>2, <1>5 DEF StreamInv, Phases, Endings, TypeOK, Execs
  <2>3. QED
    BY <1>1, <1>4, <1>5, <2>1, <2>2, Untouched DEF StreamInv
<1>6. CASE /\ call # "file" \/ left > 0
           /\ taken < written /\ taken' = taken + 1 /\ got' = Append(got, taken + 1) /\ reader' = reader
           /\ left' = IF call = "file" THEN left - 1 ELSE left
  <2>1. /\ got' \in Positions /\ Len(got') = Len(got) + 1 /\ Len(got) \in Nat
        /\ \A i \in 1..Len(got) : got'[i] = got[i]
        /\ got'[Len(got) + 1] = taken + 1
    <3>1. taken + 1 \in 1..Len(units)
      BY <1>3, <1>6
    <3>2. QED
      BY <1>2, <1>6, <3>1 DEF Positions
  <2>2. TypeOK'
    <3>1. taken' \in 0..written' /\ written' \in 0..Len(units) /\ written' - taken' <= Capacity
      BY <1>1, <1>3, <1>6, Capacities
    <3>2. left' = left \/ left' \in Nat
      BY <1>3, <1>6
    <3>3. QED
      BY <1>1, <1>6, <2>1, <3>1, <3>2, StepTypes
  <2>3. Phases' /\ Endings'
    BY <1>1, <1>2, <1>6 DEF StreamInv, Phases, Endings, TypeOK, Execs
  <2>4. CASE call = "file"
    <3>1. half = 2 /\ taken >= 2 /\ taken + left = Len(units) /\ Enumerates(got, DataIn(taken, "both"))
      BY <1>1, <2>4 DEF StreamInv, Phases, Direct
    <3>2. units[taken + 1].part = "data"
      <4>1. taken + 1 \in 3..Len(units)
        BY <1>3, <1>6, <3>1
      <4>2. QED
        BY <2>4, <4>1, FileShape DEF StreamInv
    <3>3. Enumerates(Append(got, taken + 1), DataIn(taken, "both") \cup {taken + 1})
      <4>1. \A y \in DataIn(taken, "both") : y < taken + 1
        BY <1>3, DataStarts
      <4>2. QED
        BY <1>3, <3>1, <4>1, Appended
    <3>4. DataIn(taken + 1, "both") = DataIn(taken, "both") \cup {taken + 1}
      BY <1>3, <3>2, NextData
    <3>5. DataIn(taken, "both")' = DataIn(taken + 1, "both")
      BY <1>1, <1>6 DEF DataIn
    <3>6. taken' >= 2 /\ taken' + left' = Len(units')
      BY <1>1, <1>3, <1>6, <2>4, <3>1
    <3>7. Enumerates(got', DataIn(taken, "both")')
      BY <1>6, <3>3, <3>4, <3>5
    <3>8. half' \notin {0, 1}
      BY <1>1, <3>1
    <3>9. Direct'
      BY <1>1, <2>4, <3>6, <3>7, <3>8 DEF Direct
    <3>10. QED
      BY <1>1, <1>4, <2>2, <2>3, <3>9, Untouched DEF StreamInv
  <2>5. CASE call # "file"
    <3>1. Len(got) = taken /\ \A i \in 1..Len(got) : got[i] = i
      BY <1>1, <2>5 DEF StreamInv, Direct
    <3>2. \A i \in 1..(Len(got) + 1) : i \in 1..Len(got) \/ i = Len(got) + 1
      BY <2>1
    <3>3. Len(got') = taken' /\ \A i \in 1..Len(got') : got'[i] = i
      BY <1>6, <2>1, <3>1, <3>2
    <3>4. Direct'
      BY <1>1, <2>5, <3>3 DEF Direct
    <3>5. QED
      BY <1>1, <1>4, <2>2, <2>3, <3>4, Untouched DEF StreamInv
  <2>6. QED
    BY <2>4, <2>5
<1>7. QED
  BY <1>1, <1>5, <1>6

\* A closed reader reads no more.
LEMMA CloseReaderKeeps == ASSUME StreamInv, CloseReader PROVE StreamInv'
<1>1. /\ UNCHANGED <<call, units, at, result, running, conn, written, due, g, half, to, pipeEnd, out, err,
                     taken, left, chunk, got>>
      /\ result = "ok" /\ call \notin Execs /\ reader' = "closed"
      /\ closed' \in BOOLEAN
  <2>1. closed \in BOOLEAN
    BY OldTypes
  <2>2. QED
    BY <2>1 DEF CloseReader, held, collector
<1>2. TypeOK'
  BY <1>1, StepTypes
<1>3. Phases' /\ Endings'
  BY <1>1 DEF StreamInv, Phases, Endings, TypeOK, Execs
<1>4. LogKept'
  BY <1>1 DEF StreamInv, LogKept
<1>5. QED
  BY <1>1, <1>2, <1>3, <1>4, Untouched DEF StreamInv

-----------------------------------------------------------------------------
(* The Engine.                                                             *)

\* What is sent is added to the history of its stream.
LEMMA SendKeeps == ASSUME StreamInv, Send PROVE StreamInv'
<1>1. /\ UNCHANGED <<call, units, at, result, running, conn, closed, taken, g, half, left, to, chunk,
                     pipeEnd, out, err, reader, got>>
      /\ conn = "open" /\ written < Len(units) /\ written - taken < Capacity
      /\ written' = written + 1
      /\ due' = [stream \in DOMAIN due |->
                   IF units[written'].part = "data" /\ stream \in {units[written'].to, "both"}
                   THEN Append(due[stream], written') ELSE due[stream]]
  BY DEF Send, beyond, parser
<1>2. /\ taken \in Nat /\ written \in Nat /\ Len(units) \in Nat
      /\ taken <= written /\ written + 1 \in 1..Len(units)
  BY <1>1, Counts
<1>3. ASSUME NEW stream \in {"out", "err", "both"}
      PROVE  due'[stream] \in Positions /\ Enumerates(due'[stream], DataIn(written + 1, stream))
  <2>1. due[stream] \in Positions /\ DOMAIN due = {"out", "err", "both"}
    BY <1>3, OldTypes
  <2>2. Enumerates(due[stream], DataIn(written, stream))
    BY <1>3 DEF StreamInv, DueRight
  <2>3. CASE units[written + 1].part = "data" /\ stream \in {units[written + 1].to, "both"}
    <3>1. due'[stream] = Append(due[stream], written + 1)
      BY <1>1, <1>3, <2>1, <2>3
    <3>2. Append(due[stream], written + 1) \in Positions
      BY <1>2, <2>1 DEF Positions
    <3>3. \A y \in DataIn(written, stream) : y < written + 1
      BY <1>2, DataStarts
    <3>4. DataIn(written + 1, stream) = DataIn(written, stream) \cup {written + 1}
      BY <1>2, <2>3, NextData
    <3>5. QED
      BY <1>2, <2>2, <3>1, <3>2, <3>3, <3>4, Appended
  <2>4. CASE ~(units[written + 1].part = "data" /\ stream \in {units[written + 1].to, "both"})
    <3>1. due'[stream] = due[stream]
      BY <1>1, <1>3, <2>1, <2>4
    <3>2. DataIn(written + 1, stream) = DataIn(written, stream)
      <4>1. CASE units[written + 1].part # "data"
        BY <1>2, <4>1, NoData
      <4>2. CASE units[written + 1].part = "data" /\ stream \notin {units[written + 1].to, "both"}
        BY <1>2, <4>2, NextData
      <4>3. QED
        BY <2>4, <4>1, <4>2
    <3>3. QED
      BY <2>1, <2>2, <3>1, <3>2
  <2>5. QED
    BY <2>3, <2>4
<1>4. TypeOK'
  <2>1. due' \in [{"out", "err", "both"} -> Positions]
    <3>1. DOMAIN due = {"out", "err", "both"}
      BY OldTypes
    <3>2. QED
      BY <1>1, <1>3, <3>1
  <2>2. taken' \in 0..written' /\ written' \in 0..Len(units) /\ written' - taken' <= Capacity
    <3>1. written - taken + 1 <= Capacity
      BY <1>1, <1>2, Capacities
    <3>2. QED
      BY <1>1, <1>2, <3>1
  <2>3. QED
    BY <1>1, <2>1, <2>2, StepTypes
<1>5. Phases' /\ Endings'
  <2>1. pipeEnd # "eof" /\ ~(call = "multiplexed" /\ g = "done")
    BY <1>1 DEF StreamInv, Endings
  <2>2. QED
    BY <1>1, <2>1 DEF StreamInv, Phases, Endings, TypeOK, Execs
<1>6. DueRight'
  <2>1. \A stream : DataIn(written, stream)' = DataIn(written + 1, stream)
    BY <1>1 DEF DataIn
  <2>2. QED
    BY <1>3, <2>1 DEF DueRight
<1>7. Gathered'
  <2>1. call = "multiplexed" => g # "done"
    BY <1>1 DEF StreamInv, Endings
  <2>2. QED
    BY <1>1, <2>1 DEF StreamInv, Gathered, Passed, DataIn
<1>8. QED
  BY <1>1, <1>4, <1>5, <1>6, <1>7, Untouched DEF StreamInv

\* The ends of the command and of the connection.
LEMMA EngineEnds == ASSUME StreamInv, Exits \/ Finish \/ Cut PROVE StreamInv'
<1>1. /\ UNCHANGED <<call, units, at, result, closed, taken, g, half, left, to, chunk, pipeEnd, out, err,
                     reader, got, written, due>>
      /\ running' \in BOOLEAN
      /\ \/ conn' = conn
         \/ conn = "open" /\ conn' \in {"eof", "cut"}
  <2>1. running \in BOOLEAN
    BY OldTypes
  <2>2. CASE Exits
    BY <2>2 DEF Exits, beyond, parser
  <2>3. CASE Finish
    BY <2>1, <2>3 DEF Finish, beyond, parser
  <2>4. CASE Cut
    BY <2>1, <2>4 DEF Cut, beyond, parser
  <2>5. QED
    BY <2>2, <2>3, <2>4
<1>2. TypeOK'
  BY <1>1, StepTypes
<1>3. Phases' /\ Endings'
  BY <1>1, ZenonT(40) DEF StreamInv, Phases, Endings, TypeOK, Execs
<1>4. QED
  BY <1>1, <1>2, <1>3, Untouched DEF StreamInv

\* So every step keeps the invariant.
LEMMA StreamStep == ASSUME StreamInv, [Next]_vars PROVE StreamInv'
<1>1. CASE Caller \/ PollFails
  BY <1>1, AskKeeps, InspectKeeps, AttachKeeps, PollKeeps, EntryKeeps DEF Caller
<1>2. CASE Goroutine
  BY <1>2, ReadHeaderKeeps, HeaderEndsKeeps, ReadFrameKeeps, CollectFrameKeeps, FrameEndsKeeps,
     WriteDoneKeeps, CloseConnectionKeeps DEF Goroutine
<1>3. CASE Reading \/ CloseReader
  BY <1>3, ReadPipeKeeps, ReadBuffersKeeps, ReadConnectionKeeps, CloseReaderKeeps DEF Reading
<1>4. CASE Engine \/ Cut
  BY <1>4, SendKeeps, EngineEnds DEF Engine
<1>5. CASE UNCHANGED vars
  <2>1. UNCHANGED <<call, units, at, result, running, conn, closed, written, due, taken, g, half, left, to,
                    chunk, pipeEnd, out, err, reader, got>>
    BY <1>5 DEF vars, network, parser
  <2>2. TypeOK'
    BY <2>1, StepTypes
  <2>3. Phases' /\ Endings'
    BY <2>1 DEF StreamInv, Phases, Endings
  <2>4. QED
    BY <2>1, <2>2, <2>3, Untouched DEF StreamInv
<1>6. QED
  BY <1>1, <1>2, <1>3, <1>4, <1>5 DEF Next

\* It holds of every state that is reached.
LEMMA StreamHolds == Spec => []StreamInv
<1>1. StreamInv /\ [Next]_vars => StreamInv'
  BY StreamStep
<1>2. QED
  BY <1>1, InitStream, PTL DEF Spec

\* Every variable holds a value of its kind, and nothing is taken off the connection that was
\* not sent, or is longer on its way than the connection holds.
THEOREM TypeCorrect == Spec => []TypeOK
<1>1. StreamInv => TypeOK
  BY DEF StreamInv
<1>2. QED
  BY <1>1, StreamHolds, PTL

-----------------------------------------------------------------------------
(* What the caller is due.                                                 *)

\* Nothing, and all of it, are prefixes of a sequence.
LEMMA PrefixOfItself ==
  ASSUME NEW S, NEW p \in Seq(S)
  PROVE  IsPrefix(p, p) /\ IsPrefix(<<>>, p)
<1>1. Len(p) \in Nat /\ <<>> \in Seq(S) /\ Len(<<>>) = 0
  OBVIOUS
<1>2. Len(<<>>) <= Len(p) /\ \A i \in 1..Len(<<>>) : <<>>[i] = p[i]
  BY <1>1
<1>3. IsPrefix(<<>>, p)
  BY <1>1, <1>2, Prefixed
<1>4. IsPrefix(p, p)
  BY <1>1, Prefixed
<1>5. QED
  BY <1>3, <1>4

\* A sequence is a prefix of a longer one.
LEMMA PrefixOfMore ==
  ASSUME NEW S, NEW p \in Seq(S), NEW x \in S
  PROVE  IsPrefix(p, Append(p, x))
<1>1. /\ Append(p, x) \in Seq(S) /\ Len(Append(p, x)) = Len(p) + 1 /\ Len(p) \in Nat
      /\ \A i \in 1..Len(p) : p[i] = Append(p, x)[i]
  OBVIOUS
<1>2. Len(p) <= Len(Append(p, x))
  BY <1>1
<1>3. QED
  BY <1>1, <1>2, Prefixed

\* The first of two parts is a prefix of what their whole is one of.
LEMMA FirstPart ==
  ASSUME NEW S, NEW p \in Seq(S), NEW c \in Seq(S), NEW q \in Seq(S), Len(p \o c) <= Len(q),
         \A i \in 1..Len(p \o c) : (p \o c)[i] = q[i]
  PROVE  IsPrefix(p, q)
<1>1. /\ Len(p) \in Nat /\ Len(c) \in Nat /\ Len(q) \in Nat /\ Len(p \o c) = Len(p) + Len(c)
      /\ \A i \in 1..Len(p) : (p \o c)[i] = p[i]
  BY ConcatProperties
<1>2. Len(p) <= Len(q)
  BY <1>1
<1>3. \A i \in 1..Len(p) : i \in 1..Len(p \o c)
  BY <1>1
<1>4. \A i \in 1..Len(p) : p[i] = q[i]
  BY <1>1, <1>3
<1>5. QED
  BY <1>2, <1>4, Prefixed

\* What a buffer of the collector has in the end is what its stream has in whole frames.
LEMMA WholeFrames ==
  ASSUME StreamInv, call = "multiplexed", g = "done",
         NEW stream \in {"out", "err"}, NEW q \in Positions,
         Enumerates(q, DataIn(Passed, stream))
  PROVE  Whole(stream) = q
<1> DEFINE D == due[stream]
           C == {i \in DOMAIN D : Complete(D[i])}
<1>1. /\ taken = written /\ taken \in Nat /\ written <= Len(units) /\ Len(units) \in Nat
      /\ Len(chunk) \in Nat /\ Len(chunk) <= taken
      /\ Enumerates(D, DataIn(written, stream))
      /\ D \in Seq(Nat) /\ q \in Seq(Nat)
  <2>1. chunk \in Positions /\ due[stream] \in Positions
    BY OldTypes
  <2>2. QED
    BY <2>1, Counts, PositionsAreNumbers DEF StreamInv, Endings, Gathered, DueRight
<1>2. Passed \in Nat /\ Passed <= written
  BY <1>1 DEF Passed
<1>3. \A x \in DataIn(written, stream) : Complete(x) <=> x \in DataIn(Passed, stream)
  <2>1. DataIn(Passed, stream) = WholeIn(written, stream)
    BY <1>1 DEF StreamInv, Framing
  <2>2. \A x \in Nat : \A k \in x..written : k # Len(units) => k < Len(units)
    BY <1>1
  <2>3. \A x \in DataIn(written, stream) : x \in Nat
    BY DEF DataIn
  <2>4. QED
    BY <2>1, <2>2, <2>3 DEF WholeIn, Complete, AtHead
<1>4. Len(q) <= Len(D) /\ \A i \in 1..Len(q) : q[i] = D[i]
  <2>1. InitialPart(DataIn(Passed, stream), DataIn(written, stream))
    BY <1>1, <1>2, DataStarts
  <2>2. QED
    BY <1>1, <2>1, SameStart
<1>5. /\ DOMAIN D = 1..Len(D) /\ Len(D) \in Nat /\ Len(q) \in Nat
      /\ \A i \in 1..Len(D) : D[i] \in DataIn(written, stream) /\ D[i] \in Nat
  BY <1>1 DEF Enumerates
<1>6. C = 1..Len(q)
  <2>1. ASSUME NEW i \in 1..Len(q)
        PROVE  i \in C
    <3>1. i \in 1..Len(D) /\ D[i] = q[i] /\ q[i] \in DataIn(Passed, stream)
      BY <1>4, <1>5 DEF Enumerates
    <3>2. QED
      BY <1>3, <1>5, <3>1
  <2>2. ASSUME NEW i \in C
        PROVE  i \in 1..Len(q)
    <3>1. i \in 1..Len(D) /\ D[i] \in DataIn(Passed, stream)
      BY <1>3, <1>5
    <3>2. PICK j \in 1..Len(q) : q[j] = D[i]
      BY <3>1 DEF Enumerates
    <3>3. j \in 1..Len(D) /\ D[j] = D[i]
      BY <1>4, <1>5, <3>2
    <3>4. j < i => D[j] < D[i]
      BY <1>1, <3>1, <3>3 DEF Enumerates
    <3>5. ~(j < i)
      BY <1>5, <3>1, <3>3, <3>4
    <3>6. QED
      BY <1>5, <3>1, <3>2, <3>5
  <2>3. QED
    BY <2>1, <2>2
<1>7. Cardinality(C) = Len(q)
  <2>1. Cardinality(1..Len(q)) = Len(q)
    <3>1. 1 \in Int /\ Len(q) \in Int
      BY <1>5
    <3>2. Cardinality(1..Len(q)) = IF 1 > Len(q) THEN 0 ELSE Len(q) - 1 + 1
      BY <3>1, FS_Interval
    <3>3. QED
      BY <1>5, <3>2
  <2>2. QED
    BY <1>6, <2>1
<1>8. SubSeq(D, 1, Len(q)) = q
  BY <1>1, <1>4, Prefixed
<1>9. QED
  BY <1>7, <1>8 DEF Whole

\* What the caller is due is a sequence, of which it has read a prefix.
Seen ==
  /\ sent \in Seq(Nat)
  /\ reader = "reading" => IsPrefix(got, sent)
  /\ call = "multiplexed" /\ g = "done" => sent = out \o err

\* The invariant says so of every way the bytes take.
LEMMA CallerSees == ASSUME StreamInv PROVE Seen
<1>1. /\ call \in Calls /\ got \in Seq(Nat) /\ out \in Seq(Nat) /\ err \in Seq(Nat) /\ chunk \in Seq(Nat)
      /\ due["both"] \in Seq(Nat) /\ out \in Positions /\ err \in Positions
      /\ Enumerates(due["both"], DataIn(written, "both"))
  <2>1. \A p \in Positions : p \in Seq(Nat)
    BY PositionsAreNumbers
  <2>2. due["both"] \in Positions
    BY OldTypes
  <2>3. QED
    BY <2>1, <2>2, OldTypes DEF StreamInv, DueRight
<1>2. taken \in Nat /\ written \in Nat /\ taken <= written
  BY Counts
<1>3. CASE call = "multiplexed"
  <2>1. CASE g = "done"
    <3>1. Whole("out") = out /\ Whole("err") = err
      BY <1>1, <1>3, <2>1, WholeFrames DEF StreamInv, Gathered
    <3>2. sent = out \o err
      BY <1>3, <2>1, <3>1 DEF sent
    <3>3. IsPrefix(got, out \o err)
      BY <1>3 DEF StreamInv, Gathered
    <3>4. out \o err \in Seq(Nat)
      BY <1>1, ConcatProperties
    <3>5. QED
      BY <3>2, <3>3, <3>4 DEF Seen
  <2>2. CASE g # "done"
    <3>1. sent = <<>>
      BY <1>3, <2>2 DEF sent
    <3>2. got = <<>>
      BY <1>3, <2>2 DEF StreamInv, Phases
    <3>3. sent \in Seq(Nat) /\ IsPrefix(got, sent)
      <4>1. <<>> \in Seq(Nat)
        OBVIOUS
      <4>2. IsPrefix(<<>>, <<>>)
        BY <4>1, PrefixOfItself
      <4>3. QED
        BY <3>1, <3>2, <4>1, <4>2
    <3>4. QED
      BY <2>2, <3>3 DEF Seen
  <2>3. QED
    BY <2>1, <2>2
<1>4. CASE call \in {"logs", "file"}
  <2>1. sent = due["both"]
    BY <1>4 DEF sent
  <2>2. InitialPart(DataIn(taken, "both"), DataIn(written, "both"))
    BY <1>2, DataStarts
  <2>3. CASE call = "logs" /\ reader = "reading"
    <3>1. Enumerates(got \o chunk, DataIn(taken, "both"))
      BY <2>3 DEF StreamInv, LogKept
    <3>2. /\ Len(got \o chunk) <= Len(due["both"])
          /\ \A i \in 1..Len(got \o chunk) : (got \o chunk)[i] = due["both"][i]
      <4>1. \A p : Enumerates(p, DataIn(taken, "both")) =>
              Len(p) <= Len(due["both"]) /\ \A i \in 1..Len(p) : p[i] = due["both"][i]
        BY <1>1, <2>2, SameStart
      <4>2. QED
        BY <3>1, <4>1
    <3>3. IsPrefix(got, due["both"])
      BY <1>1, <3>2, FirstPart
    <3>4. QED
      BY <1>1, <1>4, <2>1, <3>3 DEF Seen
  <2>4. CASE call = "file"
    <3>1. Enumerates(got, DataIn(taken, "both"))
      BY <2>4 DEF StreamInv, Direct
    <3>2. Len(got) <= Len(due["both"]) /\ \A i \in 1..Len(got) : got[i] = due["both"][i]
      BY <1>1, <2>2, <3>1, SameStart
    <3>3. IsPrefix(got, due["both"])
      BY <1>1, <3>2, Prefixed
    <3>4. QED
      BY <1>1, <1>4, <2>1, <3>3 DEF Seen
  <2>5. CASE call = "logs" /\ reader # "reading"
    BY <1>1, <2>1, <2>5 DEF Seen
  <2>6. QED
    BY <1>4, <2>3, <2>4, <2>5
<1>5. CASE call \in {"ttyLogs", "raw"}
  <2>1. sent = [i \in 1..written |-> i]
    BY <1>5 DEF sent
  <2>2. sent \in Seq(Nat) /\ Len(sent) = written /\ \A i \in 1..written : sent[i] = i
    BY <1>2, <2>1
  <2>3. Len(got) = taken /\ \A i \in 1..Len(got) : got[i] = i
    BY <1>5 DEF StreamInv, Direct
  <2>4. Len(got) <= Len(sent) /\ \A i \in 1..Len(got) : got[i] = sent[i]
    BY <1>2, <2>2, <2>3
  <2>5. IsPrefix(got, sent)
    BY <1>1, <2>2, <2>4, Prefixed
  <2>6. QED
    BY <1>5, <2>2, <2>5 DEF Seen
<1>6. QED
  BY <1>1, <1>3, <1>4, <1>5 DEF Calls

-----------------------------------------------------------------------------
(* Every step is one that StreamContents allows, or changes nothing that   *)
(* it speaks of.                                                           *)

\* What a caller is due changes only with what the Engine sends, and with the collector's end.
LEMMA DueKept ==
  ASSUME call \in Calls, UNCHANGED <<call, units, written, due>>,
         \/ call # "multiplexed" /\ (conn' = conn \/ (conn = "none" /\ conn' = "open"))
         \/ call = "multiplexed" /\ g # "done" /\ g' # "done"
         \/ call = "multiplexed" /\ g = "done" /\ UNCHANGED <<g, out, err, pipeEnd>>
  PROVE  UNCHANGED <<sent, source>>
<1>1. UNCHANGED sent
  <2>1. CASE call = "multiplexed" /\ g # "done"
    BY <2>1 DEF sent
  <2>2. CASE call = "multiplexed" /\ g = "done"
    <3>1. Whole("out")' = Whole("out") /\ Whole("err")' = Whole("err")
      BY DEF Whole, Complete
    <3>2. QED
      BY <2>2, <3>1 DEF sent
  <2>3. CASE call \in {"logs", "file"}
    BY <2>3 DEF sent
  <2>4. CASE call \in {"ttyLogs", "raw"}
    BY <2>4 DEF sent
  <2>5. QED
    BY <2>1, <2>2, <2>3, <2>4 DEF Calls
<1>2. UNCHANGED source
  BY DEF source
<1>3. QED
  BY <1>1, <1>2

\* Such a step is none for StreamContents when the caller does not read either.
LEMMA StillDue ==
  ASSUME StreamInv, UNCHANGED <<call, units, written, due, got, reader>>,
         \/ call # "multiplexed" /\ (conn' = conn \/ (conn = "none" /\ conn' = "open"))
         \/ call = "multiplexed" /\ g # "done" /\ g' # "done"
         \/ call = "multiplexed" /\ g = "done" /\ UNCHANGED <<g, out, err, pipeEnd>>
  PROVE  UNCHANGED Contents!vars
<1>1. UNCHANGED <<sent, source>>
  BY OldTypes, DueKept
<1>2. QED
  BY <1>1 DEF Contents!vars

\* No step of the call is one.
LEMMA CallSees ==
  ASSUME StreamInv, Caller \/ PollFails
  PROVE  UNCHANGED Contents!vars
<1>1. CASE Ask
  <2>1. /\ UNCHANGED <<call, units, due, written, g, reader, got>> /\ at = "ask"
        /\ conn' = conn \/ conn' = "open"
    BY <1>1 DEF Ask, Return, Goto, network, parser
  <2>2. conn = "none" /\ g = "none"
    <3>1. conn = "none"
      BY <2>1 DEF StreamInv, Phases
    <3>2. QED
      BY <3>1 DEF StreamInv, Phases
  <2>3. QED
    BY <2>1, <2>2, StillDue
<1>2. CASE Inspect
  <2>1. UNCHANGED <<call, units, due, written, reader, got, conn>> /\ at = "inspect"
    BY <1>2 DEF Inspect, Return, network
  <2>2. call # "multiplexed"
    BY <2>1 DEF StreamInv, Phases, Execs
  <2>3. QED
    BY <2>1, <2>2, StillDue
<1>3. CASE Attach
  <2>1. /\ UNCHANGED <<call, units, due, written, reader, got>> /\ at = "attach"
        /\ conn' = conn \/ conn' = "open"
        /\ g' = g \/ g' = "header"
    BY <1>3 DEF Attach, Return, Goto
  <2>2. conn = "none" /\ g = "none"
    <3>1. conn = "none"
      BY <2>1 DEF StreamInv, Phases
    <3>2. QED
      BY <3>1 DEF StreamInv, Phases
  <2>3. QED
    BY <2>1, <2>2, StillDue
<1>4. CASE Collected \/ Poll \/ PollFails
  <2>1. UNCHANGED <<call, units, due, written, reader, got, conn, g, out, err, pipeEnd>>
    BY <1>4 DEF Collected, Poll, PollFails, network, parser
  <2>2. QED
    BY <2>1, StillDue
<1>5. CASE Entry
  <2>1. UNCHANGED <<call, units, due, written, reader, got, conn>> /\ call = "file"
    BY <1>5 DEF Entry
  <2>2. QED
    BY <2>1, StillDue
<1>6. QED
  BY <1>1, <1>2, <1>3, <1>4, <1>5 DEF Caller

\* Both modules mean the same by a prefix.
LEMMA SamePrefix ==
  ASSUME NEW p, NEW q, IsPrefix(p, q)
  PROVE  Contents!IsPrefix(p, q)
BY DEF IsPrefix, Contents!IsPrefix

\* The collector has come to its end: what it collected is there at once.
LEMMA CollectionArrives ==
  ASSUME StreamInv, Seen', UNCHANGED <<call, got, reader>>, call = "multiplexed",
         g # "done", g' = "done"
  PROVE  Contents!Arrive
<1>1. sent = <<>> /\ source = "open" /\ source' \in {"ended", "stopped", "broken"}
  BY DEF sent, source
<1>2. sent' \in Seq(Nat)
  BY DEF Seen
<1>3. IsPrefix(sent, sent')
  BY <1>1, <1>2, PrefixOfItself
<1>4. QED
  BY <1>1, <1>3, SamePrefix DEF Contents!Arrive

\* Of the goroutine only the end of a collection is seen.
LEMMA GoroutineSees ==
  ASSUME StreamInv, Seen', Goroutine
  PROVE  Contents!Arrive \/ UNCHANGED Contents!vars
<1>1. CASE ReadHeader \/ ReadFrame \/ CollectFrame \/ WriteDone \/ CloseConnection
  <2>1. /\ UNCHANGED <<call, units, due, written, conn, got, reader>>
        /\ g # "done" /\ (g' # "done" \/ g = "close")
    BY <1>1 DEF ReadHeader, ReadFrame, CollectFrame, WriteDone, CloseConnection, outside, collector
  <2>2. g = "close" => call = "logs"
    BY DEF StreamInv, Phases
  <2>3. QED
    BY <2>1, <2>2, StillDue
<1>2. CASE HeaderEnds \/ FrameEnds
  <2>1. /\ UNCHANGED <<call, units, due, written, conn, got, reader>>
        /\ g # "done" /\ g' = IF call = "logs" THEN "close" ELSE "done"
        /\ g \in {"header", "frame"}
    BY <1>2 DEF HeaderEnds, FrameEnds, outside, collector
  <2>2. call \in {"logs", "multiplexed"}
    BY <2>1 DEF StreamInv, Phases
  <2>3. CASE call = "logs"
    BY <2>1, <2>3, StillDue
  <2>4. CASE call = "multiplexed"
    BY <2>1, <2>4, CollectionArrives
  <2>5. QED
    BY <2>2, <2>3, <2>4
<1>3. QED
  BY <1>1, <1>2 DEF Goroutine

\* The caller reads no more than it is due: what it has then is a prefix too.
LEMMA ReadsPrefix ==
  ASSUME StreamInv, Seen', UNCHANGED <<sent, source, reader>>, reader = "reading",
         NEW x \in Nat, got' = Append(got, x)
  PROVE  Contents!Read
<1>1. got \in Seq(Nat)
  BY OldTypes, PositionsAreNumbers
<1>2. IsPrefix(got, got')
  BY <1>1, PrefixOfMore
<1>3. IsPrefix(got', sent)
  BY DEF Seen
<1>4. QED
  BY <1>2, <1>3, SamePrefix DEF Contents!Read

\* A log that ends was read to its end; one that broke says so.
LEMMA LogSees ==
  ASSUME StreamInv, Seen, Seen', ReadPipe
  PROVE  Contents!Next
<1>1. /\ UNCHANGED <<call, units, conn, written, due, g, pipeEnd, out, err, taken>>
      /\ reader = "reading" /\ call = "logs"
      /\ \/ chunk # <<>> /\ got' = Append(got, Head(chunk)) /\ reader' = reader
         \/ /\ chunk = <<>> /\ pipeEnd # "none" /\ got' = got
            /\ reader' = IF pipeEnd = "eof" THEN "end" ELSE "error"
  BY DEF ReadPipe, Reads, held, collector
<1>2. UNCHANGED <<sent, source>> /\ sent = due["both"]
  <2>1. UNCHANGED <<sent, source>>
    BY <1>1, DueKept DEF Calls
  <2>2. QED
    BY <1>1, <2>1 DEF sent
<1>3. CASE chunk # <<>> /\ got' = Append(got, Head(chunk)) /\ reader' = reader
  <2>1. Head(chunk) \in Nat
    BY <1>3, OldTypes, PositionsAreNumbers, HeadTailProperties
  <2>2. QED
    BY <1>1, <1>2, <1>3, <2>1, ReadsPrefix DEF Contents!Next
<1>4. CASE chunk = <<>> /\ pipeEnd = "eof" /\ got' = got /\ reader' = "end"
  <2>1. conn = "eof" /\ taken = written
    BY <1>4 DEF StreamInv, Endings
  <2>2. source \in {"ended", "stopped"}
    BY <1>1, <2>1 DEF source
  <2>3. Enumerates(got \o chunk, DataIn(taken, "both")) /\ Enumerates(due["both"], DataIn(written, "both"))
    BY <1>1 DEF StreamInv, LogKept, DueRight
  <2>4. got \o chunk = got
    BY <1>4, OldTypes, ConcatEmptySeq DEF Positions
  <2>5. got = sent
    BY <1>2, <2>1, <2>3, <2>4, SameSequence
  <2>6. QED
    BY <1>1, <1>2, <1>4, <2>2, <2>5 DEF Contents!Next, Contents!End
<1>5. CASE chunk = <<>> /\ pipeEnd \notin {"none", "eof"} /\ got' = got /\ reader' = "error"
  <2>1. pipeEnd = "error"
    BY <1>5, OldTypes
  <2>2. conn = "cut" \/ (conn = "eof" /\ written # Len(units))
    BY <1>1, <2>1 DEF StreamInv, Endings
  <2>3. source \in {"stopped", "broken"}
    BY <1>1, <2>2 DEF source
  <2>4. QED
    BY <1>1, <1>2, <1>5, <2>3 DEF Contents!Next, Contents!Fail
<1>6. QED
  BY <1>1, <1>3, <1>4, <1>5

\* The same of the buffers: an error of the collector comes before what they hold.
LEMMA BuffersSee ==
  ASSUME StreamInv, Seen, Seen', ReadBuffers
  PROVE  Contents!Next
<1>1. /\ UNCHANGED <<call, units, conn, written, due, g, pipeEnd, out, err>>
      /\ result = "ok" /\ reader = "reading" /\ call = "multiplexed"
      /\ \/ pipeEnd = "error" /\ reader' = "error" /\ got' = got
         \/ /\ pipeEnd # "error" /\ got # out \o err /\ reader' = reader
            /\ got' = Append(got, (out \o err)[Len(got) + 1])
         \/ pipeEnd # "error" /\ got = out \o err /\ reader' = "end" /\ got' = got
  BY DEF ReadBuffers, Reads, held, collector
<1>2. g = "done" /\ sent = out \o err
  <2>1. g = "done"
    BY <1>1 DEF StreamInv, Phases
  <2>2. QED
    BY <1>1, <2>1 DEF Seen
<1>3. UNCHANGED <<sent, source>>
  BY <1>1, <1>2, DueKept DEF Calls
<1>4. IF pipeEnd = "error" THEN source = "broken" ELSE source \in {"ended", "stopped"}
  BY <1>1, <1>2 DEF source
<1>5. CASE pipeEnd = "error" /\ reader' = "error" /\ got' = got
  BY <1>1, <1>3, <1>4, <1>5 DEF Contents!Next, Contents!Fail
<1>6. CASE pipeEnd # "error" /\ got = out \o err /\ reader' = "end" /\ got' = got
  BY <1>1, <1>2, <1>3, <1>4, <1>6 DEF Contents!Next, Contents!End
<1>7. CASE /\ pipeEnd # "error" /\ got # out \o err /\ reader' = reader
           /\ got' = Append(got, (out \o err)[Len(got) + 1])
  <2>1. got \in Seq(Nat) /\ sent \in Seq(Nat)
    BY OldTypes, PositionsAreNumbers DEF Seen
  <2>2. IsPrefix(got, sent)
    BY <1>1 DEF Seen
  <2>3. Len(got) <= Len(sent) /\ \A i \in 1..Len(got) : got[i] = sent[i]
    BY <2>1, <2>2, PrefixMeans
  <2>4. Len(got) # Len(sent)
    BY <1>2, <1>7, <2>1, <2>3, SeqEqual
  <2>5. Len(got) + 1 \in 1..Len(sent)
    BY <2>1, <2>3, <2>4
  <2>6. sent[Len(got) + 1] \in Nat
    BY <2>1, <2>5
  <2>7. QED
    BY <1>1, <1>2, <1>3, <1>7, <2>6, ReadsPrefix DEF Contents!Next
<1>8. QED
  BY <1>1, <1>5, <1>6, <1>7

\* The same of the bare connection, and of a file, whose end is known beforehand.
LEMMA ConnectionSees ==
  ASSUME StreamInv, Seen, Seen', ReadConnection
  PROVE  Contents!Next
<1> DEFINE more == call # "file" \/ left > 0
<1>1. /\ UNCHANGED <<call, units, conn, written, due, g, pipeEnd, out, err>>
      /\ result = "ok" /\ reader = "reading" /\ call \in {"ttyLogs", "raw", "file"}
      /\ \/ got' = Append(got, taken + 1) /\ reader' = reader
         \/ /\ (more => taken >= written /\ conn \in {"eof", "cut"}) /\ got' = got
            /\ reader' = IF ~more \/ (call # "file" /\ conn = "eof") THEN "end" ELSE "error"
  <2>1. taken \in Nat /\ written \in Nat
    BY Counts
  <2>2. ~(taken < written) => taken >= written
    BY <2>1
  <2>3. QED
    BY <2>2 DEF ReadConnection, Reads, held, collector, Some, Ended
<1>2. /\ taken \in Nat /\ written \in Nat /\ Len(units) \in Nat /\ left \in Nat
      /\ taken <= written /\ written <= Len(units)
  BY Counts
<1>3. UNCHANGED <<sent, source>>
  BY <1>1, DueKept DEF Calls
<1>4. CASE got' = Append(got, taken + 1) /\ reader' = reader
  <2>1. taken + 1 \in Nat
    BY <1>2
  <2>2. QED
    BY <1>1, <1>3, <1>4, <2>1, ReadsPrefix DEF Contents!Next
<1>5. CASE call = "file" /\ got' = got /\ left = 0 /\ reader' = "end"
  <2>1. taken + left = Len(units) /\ Enumerates(got, DataIn(taken, "both"))
    BY <1>1, <1>5 DEF StreamInv, Phases, Direct
  <2>2. taken = written /\ written = Len(units)
    BY <1>2, <1>5, <2>1
  <2>3. Enumerates(due["both"], DataIn(written, "both"))
    BY DEF StreamInv, DueRight
  <2>4. sent = due["both"]
    BY <1>5 DEF sent
  <2>5. got = sent
    BY <2>1, <2>2, <2>3, <2>4, SameSequence
  <2>6. source = "ended"
    BY <1>5, <2>2 DEF source
  <2>7. QED
    BY <1>1, <1>3, <1>5, <2>5, <2>6 DEF Contents!Next, Contents!End
<1>6. CASE /\ call = "file" /\ got' = got /\ left > 0 /\ reader' = "error"
           /\ taken >= written /\ conn \in {"eof", "cut"}
  <2>1. taken + left = Len(units)
    BY <1>1, <1>6 DEF StreamInv, Phases, Direct
  <2>2. written # Len(units)
    BY <1>2, <1>6, <2>1
  <2>3. source \in {"stopped", "broken"}
    BY <1>6, <2>2 DEF source
  <2>5. QED
    BY <1>1, <1>3, <1>6, <2>3 DEF Contents!Next, Contents!Fail
<1>7. CASE /\ call \in {"ttyLogs", "raw"} /\ got' = got /\ taken >= written /\ conn \in {"eof", "cut"}
           /\ reader' = IF conn = "eof" THEN "end" ELSE "error"
  <2>1. Len(got) = taken /\ \A i \in 1..Len(got) : got[i] = i
    BY <1>7 DEF StreamInv, Direct
  <2>2. sent = [i \in 1..written |-> i]
    BY <1>7 DEF sent
  <2>3. Len(sent) = written /\ \A i \in 1..written : sent[i] = i
    BY <1>2, <2>2
  <2>4. taken = written
    BY <1>2, <1>7
  <2>5. got = sent
    <3>1. got \in Seq(Nat) /\ sent \in Seq(Nat)
      BY OldTypes, PositionsAreNumbers DEF Seen
    <3>2. QED
      BY <2>1, <2>3, <2>4, <3>1, SeqEqual
  <2>6. IF conn = "eof" THEN source \in {"ended", "stopped"} ELSE source = "broken"
    BY <1>7 DEF source
  <2>7. CASE conn = "eof"
    BY <1>1, <1>3, <1>7, <2>5, <2>6, <2>7 DEF Contents!Next, Contents!End
  <2>8. CASE conn = "cut"
    BY <1>1, <1>3, <1>7, <2>6, <2>8 DEF Contents!Next, Contents!Fail
  <2>9. QED
    BY <1>7, <2>7, <2>8
<1>8. QED
  <2>1. left = 0 \/ left > 0
    BY <1>2
  <2>2. ~(left = 0 /\ left > 0)
    BY <1>2
  <2>3. QED
    BY <1>1, <1>4, <1>5, <1>6, <1>7, <2>1, <2>2

\* The caller may close what it reads.
LEMMA CloseSees ==
  ASSUME StreamInv, CloseReader
  PROVE  Contents!Next
<1>1. /\ UNCHANGED <<call, units, conn, written, due, g, got, out, err, pipeEnd>>
      /\ reader # "closed" /\ reader' = "closed"
  BY DEF CloseReader, held, collector
<1>2. UNCHANGED <<sent, source>>
  BY <1>1, OldTypes, DueKept
<1>3. QED
  BY <1>1, <1>2 DEF Contents!Next, Contents!Close

\* What the Engine sends is due to the caller, unless a collector keeps it.
LEMMA SendSees ==
  ASSUME StreamInv, Send
  PROVE  Contents!Arrive \/ UNCHANGED Contents!vars
<1>1. /\ UNCHANGED <<call, units, conn, g, got, reader>>
      /\ conn = "open" /\ written < Len(units) /\ written' = written + 1
      /\ due' = [stream \in DOMAIN due |->
                   IF units[written'].part = "data" /\ stream \in {units[written'].to, "both"}
                   THEN Append(due[stream], written') ELSE due[stream]]
  BY DEF Send, beyond, parser
<1>2. call \in Calls /\ written \in Nat /\ Len(units) \in Nat /\ written # Len(units)
  <2>1. written < Len(units)
    BY <1>1
  <2>2. written \in Nat /\ Len(units) \in Nat
    BY Counts
  <2>3. written # Len(units)
    BY <2>1, <2>2
  <2>4. call \in Calls
    BY OldTypes
  <2>5. QED
    BY <2>2, <2>3, <2>4
<1>3. CASE call = "multiplexed"
  <2>1. g # "done"
    BY <1>1, <1>3 DEF StreamInv, Endings
  <2>2. sent = <<>> /\ sent' = <<>> /\ source = "open" /\ source' = "open"
    BY <1>1, <1>3, <2>1 DEF sent, source
  <2>3. QED
    BY <1>1, <2>2 DEF Contents!vars
<1>4. CASE call # "multiplexed"
  <2>1. source = "open" /\ source' \in {"open", "ended"}
    BY <1>1, <1>2, <1>4 DEF source
  <2>2. IsPrefix(sent, sent')
    <3>1. CASE call \in {"logs", "file"}
      <4>1. due["both"] \in Seq(Nat) /\ "both" \in DOMAIN due
        BY OldTypes, PositionsAreNumbers
      <4>2. sent = due["both"] /\ sent' = due'["both"]
        BY <1>1, <3>1 DEF sent
      <4>3. due'["both"] = due["both"] \/ due'["both"] = Append(due["both"], written + 1)
        BY <1>1, <4>1
      <4>4. written + 1 \in Nat
        BY <1>2
      <4>5. IsPrefix(due["both"], due["both"])
        BY <4>1, PrefixOfItself
      <4>6. IsPrefix(due["both"], Append(due["both"], written + 1))
        BY <4>1, <4>4, PrefixOfMore
      <4>7. QED
        BY <4>2, <4>3, <4>5, <4>6
    <3>2. CASE call \in {"ttyLogs", "raw"}
      <4>1. sent = [i \in 1..written |-> i] /\ sent' = [i \in 1..(written + 1) |-> i]
        BY <1>1, <3>2 DEF sent
      <4>2. /\ sent \in Seq(Nat) /\ Len(sent) = written /\ \A i \in 1..written : sent[i] = i
            /\ sent' \in Seq(Nat) /\ Len(sent') = written + 1
            /\ \A i \in 1..(written + 1) : sent'[i] = i
        BY <1>2, <4>1
      <4>3. Len(sent) <= Len(sent') /\ \A i \in 1..Len(sent) : sent[i] = sent'[i]
        BY <1>2, <4>2
      <4>4. QED
        BY <4>2, <4>3, Prefixed
    <3>3. QED
      BY <1>2, <1>4, <3>1, <3>2 DEF Calls
  <2>3. QED
    BY <1>1, <2>1, <2>2, SamePrefix DEF Contents!Arrive
<1>5. QED
  BY <1>3, <1>4

\* The connection ends: so does the source, if it is not known to have ended before.
LEMMA EndSees ==
  ASSUME StreamInv, Seen, Exits \/ Finish \/ Cut
  PROVE  Contents!Arrive \/ UNCHANGED Contents!vars
<1>1. /\ UNCHANGED <<call, units, written, due, g, got, reader, out, err, pipeEnd>>
      /\ conn' = conn \/ (conn = "open" /\ conn' \in {"eof", "cut"})
  BY DEF Exits, Finish, Cut, beyond, parser
<1>2. CASE conn' = conn
  BY <1>1, <1>2, OldTypes, StillDue
<1>3. CASE conn = "open" /\ conn' \in {"eof", "cut"}
  <2>1. ~(call = "multiplexed" /\ g = "done")
    BY <1>3 DEF StreamInv, Endings
  <2>2. sent' = sent
    <3>1. CASE call = "multiplexed"
      BY <1>1, <2>1, <3>1 DEF sent
    <3>2. CASE call \in {"logs", "file"}
      BY <1>1, <3>2 DEF sent
    <3>3. CASE call \in {"ttyLogs", "raw"}
      BY <1>1, <3>3 DEF sent
    <3>4. QED
      BY <3>1, <3>2, <3>3, OldTypes DEF Calls
  <2>3. IsPrefix(sent, sent')
    BY <2>2, PrefixOfItself DEF Seen
  <2>4. CASE source = "open"
    <3>1. source' \in {"open", "ended", "stopped", "broken"}
      BY <1>1, <1>3 DEF source
    <3>2. QED
      BY <1>1, <2>3, <2>4, <3>1, SamePrefix DEF Contents!Arrive
  <2>5. CASE source # "open"
    <3>1. call = "file" /\ written = Len(units)
      BY <1>3, <2>1, <2>5 DEF source
    <3>2. source = "ended" /\ source' = "ended"
      BY <1>1, <3>1 DEF source
    <3>3. QED
      BY <1>1, <2>2, <3>2 DEF Contents!vars
  <2>6. QED
    BY <2>4, <2>5
<1>4. QED
  BY <1>1, <1>2, <1>3

\* In the beginning nothing was sent or read.
LEMMA NothingDue == Init => Contents!Init
<1> SUFFICES ASSUME Init
             PROVE  Contents!Init
  OBVIOUS
<1>1. /\ call \in Calls /\ conn = "none" /\ written = 0 /\ g = "none" /\ due["both"] = <<>>
      /\ reader = "reading" /\ got = <<>>
      /\ call = "file" => Len(units) > 1
  BY DEF Init
<1>2. sent = <<>>
  <2>1. CASE call = "multiplexed"
    BY <1>1, <2>1 DEF sent
  <2>2. CASE call \in {"logs", "file"}
    BY <1>1, <2>2 DEF sent
  <2>3. CASE call \in {"ttyLogs", "raw"}
    <3>1. sent = [i \in 1..0 |-> i]
      BY <1>1, <2>3 DEF sent
    <3>2. sent \in Seq(Nat) /\ Len(sent) = 0
      BY <3>1
    <3>3. QED
      BY <3>2, EmptySeq
  <2>4. QED
    BY <1>1, <2>1, <2>2, <2>3 DEF Calls
<1>3. source = "open"
  <2>1. ~(call = "file" /\ written = Len(units))
    <3>1. 0 > 1 => FALSE
      OBVIOUS
    <3>2. QED
      BY <1>1, <3>1
  <2>2. QED
    BY <1>1, <2>1 DEF source
<1>4. QED
  BY <1>1, <1>2, <1>3 DEF Contents!Init

\* So every step is one of StreamContents, or none.
LEMMA ContentsStep ==
  ASSUME StreamInv, Seen, Seen', [Next]_vars
  PROVE  [Contents!Next]_Contents!vars
<1>1. CASE Caller \/ PollFails
  BY <1>1, CallSees
<1>2. CASE Goroutine
  BY <1>2, GoroutineSees DEF Contents!Next
<1>3. CASE Reading \/ CloseReader
  BY <1>3, LogSees, BuffersSee, ConnectionSees, CloseSees DEF Reading
<1>4. CASE Engine \/ Cut
  BY <1>4, SendSees, EndSees DEF Engine, Contents!Next
<1>5. CASE UNCHANGED vars
  <2>1. UNCHANGED <<call, units, written, due, conn, g, out, err, pipeEnd, got, reader>>
    BY <1>5 DEF vars, network, parser
  <2>2. QED
    BY <2>1, OldTypes, StillDue
<1>6. QED
  BY <1>1, <1>2, <1>3, <1>4, <1>5 DEF Next

\* Whichever way the bytes take (through the pipe of Logs, the collector and the buffers of
\* Exec's Multiplexed, or straight from the connection), whatever is sent, however it is cut
\* into frames and however much the connection holds: the caller reads what arrived, once and
\* in order (of a collected output all but a frame that the connection stopped in), before it
\* is told of an end; it is told of a connection that broke, and of no error when everything
\* was sent and the connection then ended.  A connection that stops early without an error may
\* look like one that ended.
THEOREM ContentsImplemented == Spec => ContentsKept
<1>1. StreamInv => Seen
  BY CallerSees
<1>2. Init => Contents!Init
  BY NothingDue
<1>3. Spec => []Seen
  BY <1>1, StreamHolds, PTL
<1>4. StreamInv /\ Seen /\ Seen' /\ [Next]_vars => [Contents!Next]_Contents!vars
  BY ContentsStep
<1>5. QED
  BY <1>2, <1>3, <1>4, StreamHolds, PTL DEF Spec, ContentsKept, Contents!Spec

=============================================================================
