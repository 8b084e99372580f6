------------------------- MODULE ClusterProperties -------------------------
(* What multi_host.py owes its callers.                                     *)
EXTENDS Cluster

CONSTANTS Memories, Cores, Gpus     \* sizes of free resources and requests

ASSUME SizesAssumption == Memories \cup Cores \cup Gpus \subseteq Nat

\* The two maps of the cluster agree where get_vm_host relies on them: the
\* host that the entry of a VM names is in the cluster and lists that VM.  No
\* sequence of registering on two hosts, evicting and removing leaves an entry
\* that points nowhere, or unregister_vm would answer True and free nothing.
\* It needs that no name is added twice: add_host forgets the list of the host
\* it replaces (multi_host.py:104-110).
Located ==
  \A v \in Vms : home[v] # NoHost => home[v] \in InCluster /\ v \in node[home[v]].vms

Free == [mem : Memories, cpu : Cores, gpu : Gpus]

Fits(h, free, need) == free.mem >= need.mem /\ free.cpu >= need.cpu

\* multi_host.py:200 "Find the best host for a new VM based on available
\* resources": a request without GPUs that some online host below the limit of
\* VMs has the memory and the cores for is never sent to a host that lacks
\* either or is full, however the weights of the score add up.  With a GPU in
\* the request this is not so: an exact fit of the memory is worth the same 20
\* points as the GPU.
PlacementFits ==
  \A free \in [Hosts -> Free], need \in {n \in Free : n.gpu = 0} :
    (\E h \in Online : node[h].count < MaxVms /\ Fits(h, free[h], need)) =>
      \A h \in FindBest(free, need) :
        node[h].count < MaxVms /\ Fits(h, free[h], need)

\* multi_host.py:233 "Rebalance VMs across hosts": with two hosts online, the
\* plan leaves their lists at most one apart.  With three it does not: two
\* hosts may both count on the room of the third (multi_host.py:248-256).
PlanBalances ==
  Cardinality(Online) = 2 =>
    \A h, other \in Online :
      LET load(k) == Cardinality(node[k].vms) - Moves(k, CHOOSE o \in Online : o # k)
                     + Moves(CHOOSE o \in Online : o # k, k) IN
      load(h) - load(other) \in -1..1
=============================================================================
