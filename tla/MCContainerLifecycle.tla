------------------------ MODULE MCContainerLifecycle ------------------------
(* Two goroutines, hooks in the phases where they can interfere.           *)
EXTENDS ContainerLifecycle, TLC

MCUserHooks == {"PreCreates", "PostStarts", "PreStops"}

CallerSymmetry == Permutations(Callers)

=============================================================================
