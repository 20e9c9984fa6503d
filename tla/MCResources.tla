---------------------------- MODULE MCResources -----------------------------
(* One context elsewhere and one with a host that cannot be parsed, which  *)
(* another program may make the current one.  Every environment meets      *)
(* every current context, and a plain one an Engine that holds something.  *)
(* Callers with no options are those that networks and volumes need.       *)
EXTENDS Resources, TLC

CONSTANT n1

Plain == [host |-> "", context |-> "", rootless |-> "unset", tls |-> FALSE, cert |-> ""]
MCEnvironments ==
  {Plain, [Plain EXCEPT !.host = "tcp://env", !.rootless = "socket"],
   [Plain EXCEPT !.context = "remote"], [Plain EXCEPT !.context = Default],
   [Plain EXCEPT !.rootless = "socket", !.tls = TRUE, !.cert = "dir"],
   [Plain EXCEPT !.rootless = "absent", !.tls = TRUE, !.cert = "missing"]}
MCContexts == [c \in {"remote", "odd"} |-> IF c = "remote" THEN "tcp://remote" ELSE "ssh://odd"]
Nothing == [i \in {} |-> None]
Something ==
  {[i \in {n1} |-> [name |-> "app", used |-> u]] : u \in BOOLEAN}
    \cup {[i \in {"data"} |-> [name |-> "data", used |-> u]] : u \in BOOLEAN}
MCStarts ==
  [env : MCEnvironments, current : {"remote", "", "absent"}, store : {Nothing}]
    \cup [env : {Plain}, current : {"remote"}, store : Something]
MCClientOptions ==
  {[NoOptions EXCEPT !.host = "tcp://given"], [NoOptions EXCEPT !.context = "remote", !.host = "tcp://given", !.check = "own"],
   [NoOptions EXCEPT !.context = "lost", !.host = "tcp://given"],
   [NoOptions EXCEPT !.check = "nil"], [NoOptions EXCEPT !.api = TRUE]}
MCSocketHosts == {DefaultHost, RootlessSocket, "tcp://env", "tcp://given", "tcp://remote"}
MCLooksLike == [n \in NetworkNames |-> IF n = "app" THEN NetworkNames ELSE {n}]
MCSymmetry == Permutations(Callers)

=============================================================================
