--------------------------- MODULE DurableStartup ---------------------------
(***************************************************************************)
(* Startup commands that survive a restart: the scripts that               *)
(* WithDurableStartupCommand and WithDurableStartupCommandsFromDir add to  *)
(* the files of a definition, the names they give them, and the order in   *)
(* which the dispatcher inside the container runs them.                    *)
(*                                                                         *)
(* A path is a record: "script" is /etc/durable-startup.d/III-ns/CCC-cmd.sh*)
(* with its two numbers, "dispatcher" is run.sh, any other place is a name *)
(* of the caller's, in the directory "ns".  Numbers become digits only     *)
(* where their order counts.                                               *)
(***************************************************************************)
EXTENDS Naturals, SequencesExt, FiniteSetsExt

CONSTANTS Base,       \* 10 in the code: the digits of "%03d"
          Width,      \* 3 in the code: its least number of digits
          NameOrder   \* the names of namespaces, in the order of their bytes

ASSUME NumberAssumption == Base \in Nat \ {0, 1} /\ Width \in Nat \ {0}

Default == "default"

Place(place) == [place |-> place, index |-> 0, ns |-> "", cmd |-> 0]
Dispatcher == Place("dispatcher")
Script(index, ns, cmd) == [place |-> "script", index |-> index, ns |-> ns, cmd |-> cmd]

\* A file to copy: its content comes from a reader of the caller, which can be read
\* only once ("shared"), from one made for this Run ("own"), from a file of the host
\* ("host") or a directory of it ("dir"), whose body is its base name, or from nowhere,
\* which File.validate rejects.
File(path, source, body) == [path |-> path, source |-> source, body |-> body]

\* Where a file comes to lie.  Of the path that a directory is given only the parent
\* counts: tarDir keeps the names relative to the directory's own parent on the host.
Lands(f) == IF f.source = "dir" THEN [f.path EXCEPT !.place = f.body] ELSE f.path

-----------------------------------------------------------------------------
(* Where the next script goes.                                             *)

IsScript(f) == f.path.place = "script"
Namespaces(files) == {f.path.ns : f \in {g \in ToSet(files) : IsScript(g)}}

\* The directory of a name already seen is the one it was first seen in.
IndexSeen(files, name) ==
  files[SelectInSeq(files, LAMBDA f : IsScript(f) /\ f.path.ns = name)].path.index

\* Faulty: the first namespace shares its number with the reserved one.
IndexFromZero(files, name) ==
  IF name \in Namespaces(files) THEN IndexSeen(files, name)
  ELSE Cardinality(Namespaces(files) \ {Default})

\* resolveDurableNamespaceDir: everything follows from the files themselves.
NamespaceIndex(files, name) ==
  IF name \in Namespaces(files) THEN IndexSeen(files, name)
  ELSE IF name = Default THEN 0
  ELSE Cardinality(Namespaces(files) \ {Default}) + 1

NextCmd(files, index, ns) ==
  Cardinality({i \in DOMAIN files :
                 /\ IsScript(files[i])
                 /\ files[i].path.index = index
                 /\ files[i].path.ns = ns})

\* renderDurableScript refuses an executable that is nil or has no words, and a user
\* that su cannot resolve.  What it writes is the command under another name.
Renders(e) == e.cmd # "" /\ e.user \in {"", "login"}

\* The namespaces that the two options let through are those of NameOrder.
Accepts(name, execs) ==
  /\ name \in ToSet(NameOrder)
  /\ execs # <<>>
  /\ \A i \in DOMAIN execs : Renders(execs[i])

\* appendDurableScripts, once every executable has been rendered.
WithScripts(files, name, execs) ==
  LET index   == NamespaceIndex(files, name)
      start   == NextCmd(files, index, name)
      scripts == [i \in DOMAIN execs |->
                    File(Script(index, name, start + i - 1), "own", execs[i].cmd)]
  IN  files \o scripts
        \o (IF \E i \in DOMAIN files : files[i].path = Dispatcher
            THEN <<>> ELSE <<File(Dispatcher, "own", "run.sh")>>)

-----------------------------------------------------------------------------
(* The order of the dispatcher: a lexical sort of the names.               *)

Digits(n) ==
  LET wide == CHOOSE w \in Width..(Width + n) :
                n < Base ^ w /\ (w = Width \/ n >= Base ^ (w - 1))
  IN  [i \in 1..wide |-> 1 + ((n \div Base ^ (wide - i)) % Base)]

\* A dash sorts before every digit.
Named(path) == Digits(path.index) \o <<0, SelectInSeq(NameOrder, LAMBDA n : n = path.ns)>>
                 \o Digits(path.cmd) \o <<0>>

LexicallyBefore(s, t) ==
  \E i \in 1..Len(t) :
    /\ \A j \in 1..(i - 1) : j <= Len(s) /\ s[j] = t[j]
    /\ i > Len(s) \/ s[i] < t[i]

\* The scripts among a container's files, as run.sh meets them.
Walk(paths) ==
  LET scripts == {p \in paths : p.place = "script"}
      before(p) == {q \in scripts : LexicallyBefore(Named(q), Named(p))}
  IN  [i \in 1..Cardinality(scripts) |->
         CHOOSE p \in scripts : Cardinality(before(p)) = i - 1]

=============================================================================
