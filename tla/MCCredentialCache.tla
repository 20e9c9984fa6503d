------------------------- MODULE MCCredentialCache -------------------------
(* Two names of Docker Hub and another registry; configs with and without  *)
(* helpers, a store and stored credentials.                                *)
EXTENDS CredentialCache, TLC

MCHosts == {"index", "docker.io", "registry"}
MCIndexNames == {"index", "docker.io"}

Only(host, value) == [h \in {host} |-> value]
None == [h \in {} |-> "none"]
MCConfigs ==
  {[helpers |-> None, store |-> "none", stored |-> None],
   [helpers |-> Only("index", "helper"), store |-> "none", stored |-> Only("registry", {"username"})],
   [helpers |-> None, store |-> "helper", stored |-> Only("index", {"auth"})],
   [helpers |-> None, store |-> "helper", stored |-> Only("registry", {"badAuth"})],
   [helpers |-> None, store |-> "none", stored |-> Only("index", {"identityToken", "auth"})]}

MCLists == {<<"docker.io">>, <<"index">>, <<"docker.io", "registry">>, <<"malformed", "index">>}

GoroutineSymmetry == Permutations(Goroutines)

=============================================================================
