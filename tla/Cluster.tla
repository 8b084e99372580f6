------------------------------ MODULE Cluster ------------------------------
(***************************************************************************)
(* lumenos_sandbox/multi_host.py: one MultiHostManager.  It keeps two maps *)
(* of the same fact, _vm_hosts from a VM to its host and vm_ids from a     *)
(* host to its VMs, and places new VMs by a score.  The free resources of  *)
(* a host are fields its methods only read: FindBest takes them as an      *)
(* argument.  The coordinator's name is left out: only a summary shows it. *)
(***************************************************************************)
EXTENDS Guests, Integers, FiniteSets

CONSTANTS
  Hosts,
  NoHost,
  MaxVms,       \* ClusterConfig.max_vms_per_host
  ReAdd         \* add_host is also called for a name that is in the cluster

ASSUME ClusterAssumption == NoHost \notin Hosts /\ ReAdd \in BOOLEAN

VARIABLES
  node,         \* node[h]: _hosts[h], or NoNode
  home          \* home[v]: _vm_hosts[v], or NoHost

clusterVars == <<node, home>>

NoNode == [status |-> "ABSENT", vms |-> {}, count |-> 0]

\* what add_host makes
NewNode == [status |-> "ONLINE", vms |-> {}, count |-> 0]

InCluster == {h \in Hosts : node[h] # NoNode}

Online == {h \in Hosts : node[h].status = "ONLINE"}

ClusterInit ==
  /\ node = [h \in Hosts |-> NoNode]
  /\ home = [v \in Vms |-> NoHost]

\* vm_ids and vm_count are always written together
List(n, vms) == [n EXCEPT !.vms = vms, !.count = Cardinality(vms)]

-----------------------------------------------------------------------------

AddHost(h) ==
  /\ ReAdd \/ node[h] = NoNode
  /\ node' = [node EXCEPT ![h] = NewNode]
  /\ UNCHANGED home

\* a bug to catch: the entries of its VMs stay
RemoveHostOnly(h) ==
  /\ h \in InCluster
  /\ node' = [node EXCEPT ![h] = NoNode]
  /\ UNCHANGED home

\* the VMs on its list lose their entry, wherever that points
RemoveHost(h) ==
  /\ h \in InCluster
  /\ home' = [v \in Vms |-> IF v \in node[h].vms THEN NoHost ELSE home[v]]
  /\ node' = [node EXCEPT ![h] = NoNode]

\* every host of the cluster answers its ping or does not
Heartbeat ==
  /\ \E up \in SUBSET InCluster :
       node' = [h \in Hosts |->
                  IF h \notin InCluster THEN node[h]
                  ELSE [node[h] EXCEPT !.status =
                          IF h \in up THEN "ONLINE" ELSE "OFFLINE"]]
  /\ UNCHANGED home

\* nobody looks whether another host has the VM already
RegisterVm(v, h) ==
  /\ h \in Online
  /\ node' = [node EXCEPT ![h] = List(@, @.vms \cup {v})]
  /\ home' = [home EXCEPT ![v] = h]

UnregisterVm(v) ==
  /\ home[v] # NoHost
  /\ node' = [node EXCEPT ![home[v]] = List(@, @.vms \ {v})]
  /\ home' = [home EXCEPT ![v] = NoHost]

\* the lists of offline hosts; each VM on one is unregistered, which takes it
\* off the list of the host its entry names, offline or not
EvictOffline ==
  LET off == {h \in InCluster : node[h].status = "OFFLINE" /\ node[h].vms # {}}
      gone == UNION {node[h].vms : h \in off} IN
  /\ off # {}
  /\ node' = [h \in Hosts |->
                IF h \in off THEN List(node[h], {})
                ELSE List(node[h], {v \in node[h].vms : v \notin gone \/ home[v] # h})]
  /\ home' = [v \in Vms |-> IF v \in gone THEN NoHost ELSE home[v]]

ClusterNext ==
  \/ Heartbeat \/ EvictOffline
  \/ \E h \in Hosts : AddHost(h) \/ RemoveHost(h)
  \/ \E v \in Vms : UnregisterVm(v) \/ \E h \in Hosts : RegisterVm(v, h)

ClusterSpec == ClusterInit /\ [][ClusterNext]_clusterVars

-----------------------------------------------------------------------------
(* find_best_host: a request and the free resources of the hosts are        *)
(* records [mem, cpu, gpu].                                                 *)

\* a bug to catch: a full host only misses the bonus
ScoreUnpenalized(h, free, need) ==
  (IF free.mem >= need.mem
   THEN 40 + (20 * need.mem) \div (IF free.mem > 1 THEN free.mem ELSE 1) ELSE 0)
  + (IF free.cpu >= need.cpu THEN 30 ELSE 0)
  + (IF need.gpu > 0 /\ free.gpu >= need.gpu THEN 20 ELSE 0)
  + (IF node[h].count < MaxVms THEN 10 ELSE 0)

Score(h, free, need) ==
  (IF free.mem >= need.mem
   THEN 40 + (20 * need.mem) \div (IF free.mem > 1 THEN free.mem ELSE 1) ELSE 0)
  + (IF free.cpu >= need.cpu THEN 30 ELSE 0)
  + (IF need.gpu > 0 /\ free.gpu >= need.gpu THEN 20 ELSE 0)
  + (IF node[h].count < MaxVms THEN 10 ELSE -100)

\* the hosts it may answer: of equal scores, the one that joined first
FindBest(free, need) ==
  {h \in Online : /\ Score(h, free[h], need) > 0
                  /\ \A k \in Online : Score(k, free[k], need) <= Score(h, free[h], need)}

-----------------------------------------------------------------------------
(* balance_vms: a plan only, nothing is moved.                              *)

IdealPerHost ==
  LET total == Cardinality({p \in Online \X Vms : p[2] \in node[p[1]].vms})
      mean == total \div Cardinality(Online) IN
  IF mean > 1 THEN mean ELSE 1

\* a bug to catch: the whole list goes into the plan
MovesWholeList(h, other) ==
  LET excess == Cardinality(node[h].vms) - IdealPerHost
      deficit == IdealPerHost - Cardinality(node[other].vms) IN
  IF h = other \/ excess <= 0 \/ deficit <= 0 THEN 0 ELSE Cardinality(node[h].vms)

\* how many VMs the plan takes off the list of h for the sake of another host
Moves(h, other) ==
  LET excess == Cardinality(node[h].vms) - IdealPerHost
      deficit == IdealPerHost - Cardinality(node[other].vms) IN
  IF h = other \/ excess <= 0 \/ deficit <= 0 THEN 0
  ELSE IF excess < deficit THEN excess ELSE deficit
=============================================================================
