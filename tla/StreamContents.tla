--------------------------- MODULE StreamContents ---------------------------
(***************************************************************************)
(* What a caller may expect of a stream that the SDK hands out (a log, a   *)
(* command's output, a file): it reads what was sent and arrived, all of   *)
(* it and in order, before it is told of an end; a stream that was sent to *)
(* its end ends without an error, and one that breaks down never ends      *)
(* without one.  A source that merely stops is not always told from one    *)
(* that ends.                                                              *)
(***************************************************************************)
EXTENDS SequencesExt

VARIABLES sent,    \* what the source has sent
          source,  \* "open", "ended"; or before its end "stopped", or "broken"
          got,     \* what the caller has read
          reader   \* "reading", "end", "error" or "closed"

vars == <<sent, source, got, reader>>

Init == sent = <<>> /\ source = "open" /\ got = <<>> /\ reader = "reading"

\* The source sends something, or comes to its end, or both.
Arrive ==
  /\ source = "open" /\ IsPrefix(sent, sent') /\ source' \in {"open", "ended", "stopped", "broken"}
  /\ UNCHANGED <<got, reader>>

Read ==
  /\ reader = "reading"
  /\ IsPrefix(got, got') /\ IsPrefix(got', sent)
  /\ UNCHANGED <<sent, source, reader>>

\* The end comes after all that was sent.
End ==
  /\ reader = "reading" /\ source \in {"ended", "stopped"} /\ got = sent
  /\ reader' = "end" /\ UNCHANGED <<sent, source, got>>

Fail ==
  /\ reader = "reading" /\ source \in {"stopped", "broken"}
  /\ reader' = "error" /\ UNCHANGED <<sent, source, got>>

Close ==
  /\ reader # "closed" /\ reader' = "closed" /\ UNCHANGED <<sent, source, got>>

Next == Arrive \/ Read \/ End \/ Fail \/ Close

Spec == Init /\ [][Next]_vars

=============================================================================
