---------------------------- MODULE MCLibraries ----------------------------
(* Every library by itself, with names enough for two users of one thing.   *)
EXTENDS Libraries

\* Bound: the stores of the secrets are followed until the key is lost in one
\* of the four ways SigningKeysSurvive names; harmed stays TRUE then.
KeyIsNotLost == ~harmed

\* Bound: two VMs at a time have an agent or a place in the books of resources,
\* where the VMs meet in the number of free GPUs only; the cluster needs three.
FewVms ==
  Cardinality({v \in Vms : agent[v] # "none"}) <= 2 /\ Cardinality(Allocated) <= 2
=============================================================================
