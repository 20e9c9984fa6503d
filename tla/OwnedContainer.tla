--------------------------- MODULE OwnedContainer ---------------------------
(***************************************************************************)
(* What Run promises its caller about the container, whatever the hooks,   *)
(* the Engine and other goroutines do: a container that is created is      *)
(* handed over, also when Run fails afterwards, so that it can be cleaned  *)
(* up; only an answer of the Engine that never arrives can lose one; and a *)
(* container that is gone does not come back.                              *)
(***************************************************************************)
VARIABLES container,  \* "absent", "present" or "gone"
          holder      \* who answers for it: "nobody", "run", "caller", or it is "lost"

vars == <<container, holder>>

Init == container = "absent" /\ holder = "nobody"

Begin ==
  /\ holder = "nobody" /\ container = "absent"
  /\ holder' = "run" /\ UNCHANGED container

Create ==
  /\ holder = "run" /\ container = "absent"
  /\ container' = "present" /\ UNCHANGED holder

\* The creation is done, and the one who asked for it is told that it failed.
Lose ==
  /\ holder = "run" /\ container = "absent"
  /\ container' = "present" /\ holder' = "lost"

\* Run returns an error and no container.
GiveUp ==
  /\ holder = "run" /\ container = "absent"
  /\ holder' = "nobody" /\ UNCHANGED container

\* Run returns the container, with or without an error.
HandOver ==
  /\ holder = "run" /\ container # "absent"
  /\ holder' = "caller" /\ UNCHANGED container

Remove ==
  /\ container = "present"
  /\ container' = "gone" /\ UNCHANGED holder

Next == Begin \/ Create \/ Lose \/ GiveUp \/ HandOver \/ Remove

Spec == Init /\ [][Next]_vars

=============================================================================
