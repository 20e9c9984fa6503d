-------------------------- MODULE MCImageTransfer --------------------------
(* Docker Hub and another registry; a helper for one or a store for both.  *)
EXTENDS ImageTransfer

Only(host, value) == [h \in {host} |-> value]
NoHelpers == [h \in {} |-> ""]
Nowhere == [h \in {} |-> {}]
MCConfigs ==
  {[helpers |-> NoHelpers, store |-> "none", stored |-> Nowhere],
   [helpers |-> Only("index", "helper"), store |-> "none", stored |-> Only("index", {"auth"})],
   [helpers |-> NoHelpers, store |-> "helper", stored |-> Only("registry", {"identityToken"})],
   [helpers |-> NoHelpers, store |-> "helper", stored |-> Only("index", {"badAuth"})]}

=============================================================================
