--------------------------- MODULE MCContextStore ---------------------------
(* Interchangeable callers and interchangeable names.                      *)
EXTENDS ContextStore, TLC

CallerAndNameSymmetry == Permutations(Procs) \cup Permutations(Names)

=============================================================================
