--------------------------- MODULE LibraryProofs ---------------------------
(***************************************************************************)
(* Theorems about the resource libraries, for every set of VMs, hosts,     *)
(* devices, images and contents.                                           *)
(***************************************************************************)
EXTENDS ClusterProperties, Passthrough, Resources, Images, Packages, Agent,
        FiniteSetTheorems, TLAPS

-----------------------------------------------------------------------------
(* Cluster                                                                  *)

Node == [status : {"ABSENT", "ONLINE", "OFFLINE"}, vms : SUBSET Vms,
         count : {Cardinality(S) : S \in SUBSET Vms} \cup {0}]

ClusterInv ==
  /\ node \in [Hosts -> Node]
  /\ home \in [Vms -> Hosts \cup {NoHost}]
  /\ Located

\* multi_host.py:115-124, 262-304: the entry of a VM leads to a host that
\* lists it, for every cluster in which no name is added twice.
THEOREM LocatedHolds == ~ReAdd => (ClusterSpec => []Located)
<1> SUFFICES ASSUME ~ReAdd PROVE ClusterSpec => []Located
  OBVIOUS
<1>1. ClusterInit => ClusterInv
  BY ClusterAssumption
  DEF ClusterInit, ClusterInv, Located, Node, NoNode, ClusterAssumption
<1>2. ClusterInv /\ [ClusterNext]_clusterVars => ClusterInv'
  <2> SUFFICES ASSUME ClusterInv, [ClusterNext]_clusterVars PROVE ClusterInv'
    OBVIOUS
  <2> USE ClusterAssumption DEF ClusterInv, Located, ClusterAssumption, InCluster
  <2>1. CASE Heartbeat
    BY <2>1 DEF Heartbeat, Node, NoNode
  <2>2. CASE EvictOffline
    <3> DEFINE off == {h \in InCluster : node[h].status = "OFFLINE" /\ node[h].vms # {}}
               gone == UNION {node[h].vms : h \in off}
               kept(h) == {v \in node[h].vms : v \notin gone \/ home[v] # h}
    <3>1. node' = [h \in Hosts |-> IF h \in off THEN List(node[h], {})
                                   ELSE List(node[h], kept(h))]
      BY <2>2 DEF EvictOffline
    <3>2. home' = [v \in Vms |-> IF v \in gone THEN NoHost ELSE home[v]]
      BY <2>2 DEF EvictOffline
    <3>3. node' \in [Hosts -> Node]
      <4> SUFFICES ASSUME NEW h \in Hosts, NEW S \in SUBSET Vms
                   PROVE  List(node[h], S) \in Node
        BY <3>1 DEF Node
      <4> QED BY DEF List, Node
    <3>4. ASSUME NEW v \in Vms, home'[v] # NoHost
          PROVE  home'[v] \in Hosts /\ v \in node'[home'[v]].vms
      <4>1. v \notin gone /\ home'[v] = home[v] /\ home[v] \in Hosts
        BY <3>2, <3>4
      <4>2. v \in node[home[v]].vms /\ home[v] \in InCluster
        BY <3>4, <4>1
      <4>3. home[v] \notin off
        BY <4>1, <4>2
      <4>4. v \in kept(home[v])
        BY <4>1, <4>2
      <4>5. node'[home[v]].vms = kept(home[v])
        <5> HIDE DEF off, kept
        <5> QED BY <3>1, <4>1, <4>3 DEF List, Node
      <4> QED BY <4>1, <4>4, <4>5
    <3>5. home' \in [Vms -> Hosts \cup {NoHost}]
      BY <3>2
    <3> QED
      <4> HIDE DEF off, gone
      <4> QED BY <3>3, <3>4, <3>5 DEF NoNode
  <2>3. ASSUME NEW h \in Hosts, AddHost(h) PROVE ClusterInv'
    BY <2>3 DEF AddHost, NewNode, NoNode, Node
  <2>4. ASSUME NEW h \in Hosts, RemoveHost(h) PROVE ClusterInv'
    BY <2>4 DEF RemoveHost, NoNode, Node
  <2>5. ASSUME NEW v \in Vms, UnregisterVm(v) PROVE ClusterInv'
    BY <2>5 DEF UnregisterVm, List, NoNode, Node
  <2>6. ASSUME NEW v \in Vms, NEW h \in Hosts, RegisterVm(v, h) PROVE ClusterInv'
    <3> DEFINE n == List(node[h], node[h].vms \cup {v})
    <3>1. node' = [node EXCEPT ![h] = n] /\ home' = [home EXCEPT ![v] = h]
      BY <2>6 DEF RegisterVm
    <3>2. node[h] \in Node /\ node[h].status = "ONLINE"
      BY <2>6 DEF RegisterVm, Online
    <3>3. /\ n \in Node
          /\ n.status = "ONLINE"
          /\ n.vms = node[h].vms \cup {v}
      <4> DEFINE S == node[h].vms \cup {v}
      <4>1. S \in SUBSET Vms
        BY <3>2 DEF Node
      <4> HIDE DEF S
      <4>2. List(node[h], S) \in Node
        BY <3>2, <4>1 DEF List, Node
      <4>3. List(node[h], S).status = "ONLINE" /\ List(node[h], S).vms = S
        BY <3>2 DEF List, Node
      <4> QED BY <4>2, <4>3 DEF S
    <3>4. node' \in [Hosts -> Node] /\ home' \in [Vms -> Hosts \cup {NoHost}]
      <4> HIDE DEF n
      <4> QED BY <3>1, <3>3
    <3>5. ASSUME NEW w \in Vms, home'[w] # NoHost
          PROVE  home'[w] \in Hosts /\ node'[home'[w]] # NoNode /\ w \in node'[home'[w]].vms
      <4> HIDE DEF n
      <4>1. CASE w = v
        BY <4>1, <3>1, <3>3 DEF NoNode
      <4>2. CASE w # v /\ home[w] = h
        BY <4>2, <3>1, <3>3, <3>5 DEF NoNode
      <4>3. CASE w # v /\ home[w] # h
        BY <4>3, <3>1, <3>5
      <4> QED BY <4>1, <4>2, <4>3
    <3> QED BY <3>4, <3>5
  <2>7. CASE UNCHANGED clusterVars
    BY <2>7 DEF clusterVars
  <2> QED BY <2>1, <2>2, <2>3, <2>4, <2>5, <2>6, <2>7 DEF ClusterNext
<1>3. ClusterInv => Located
  BY DEF ClusterInv
<1> QED BY <1>1, <1>2, <1>3, PTL DEF ClusterSpec


\* the share of a host's memory that a request takes is worth 20 at most
LEMMA FitBounded ==
  ASSUME NEW a \in Nat, NEW b \in Nat, a <= b, b >= 1
  PROVE  (20 * a) \div b \in 0..20
<1>1. PICK q : q = (20 * a) \div b
  OBVIOUS
<1>2. q \in Int /\ b * q <= 20 * a /\ 20 * a < b * (q + 1)
  BY <1>1
<1>3. q >= 0
  <2>1. ASSUME q <= -1 PROVE FALSE
    <3>1. b * (q + 1) <= 0
      BY <1>2, <2>1
    <3> QED BY <1>2, <3>1
  <2> QED BY <1>2, <2>1
<1>4. q <= 20
  <2>1. ASSUME q >= 21 PROVE FALSE
    <3>1. b * q >= b * 21
      BY <1>2, <2>1
    <3> QED BY <1>2, <3>1
  <2> QED BY <1>2, <2>1
<1> QED BY <1>1, <1>2, <1>3, <1>4

\* without GPUs in the request, a host that fits and is not full scores 80 at
\* least, and any other 70 at most
LEMMA ScoreSeparates ==
  ASSUME NEW h, NEW free \in Free, NEW need \in Free, need.gpu = 0
  PROVE  /\ Score(h, free, need) \in Int
         /\ IF node[h].count < MaxVms /\ free.mem >= need.mem /\ free.cpu >= need.cpu
            THEN Score(h, free, need) >= 80 ELSE Score(h, free, need) <= 70
<1>0. /\ free.mem \in Nat /\ free.cpu \in Nat /\ need.mem \in Nat /\ need.cpu \in Nat
      /\ free.gpu \in Nat
  BY SizesAssumption DEF Free
<1>1. PICK m : m = IF free.mem > 1 THEN free.mem ELSE 1
  OBVIOUS
<1>2. PICK fit : fit = (20 * need.mem) \div m
  OBVIOUS
<1>3. free.mem >= need.mem => fit \in 0..20
  <2>1. m \in Nat /\ m >= 1 /\ (free.mem >= need.mem => need.mem <= m)
    BY <1>0, <1>1
  <2> QED BY <1>0, <1>2, <2>1, FitBounded
<1>4. PICK full \in BOOLEAN : full <=> ~(node[h].count < MaxVms)
  OBVIOUS
<1>5. Score(h, free, need) =
        (IF free.mem >= need.mem THEN 40 + fit ELSE 0)
        + (IF free.cpu >= need.cpu THEN 30 ELSE 0) + 0
        + (IF full THEN -100 ELSE 10)
  BY <1>0, <1>1, <1>2, <1>4 DEF Score
<1> QED BY <1>0, <1>3, <1>4, <1>5

\* multi_host.py:200: a request without GPUs goes to a host that has room for
\* it, when one is online, for all sizes of hosts and requests.
THEOREM PlacementFitsHolds == ClusterSpec => []PlacementFits
<1>1. PlacementFits
  <2> SUFFICES ASSUME NEW free \in [Hosts -> Free], NEW need \in Free, need.gpu = 0,
                      NEW k \in Online, node[k].count < MaxVms,
                      Fits(k, free[k], need), NEW h \in FindBest(free, need)
               PROVE  node[h].count < MaxVms /\ Fits(h, free[h], need)
    BY DEF PlacementFits
  <2>1. /\ h \in Online /\ Score(k, free[k], need) <= Score(h, free[h], need)
        /\ free[h] \in Free /\ free[k] \in Free
    BY DEF FindBest, Online
  <2>2. Score(k, free[k], need) \in Int /\ Score(k, free[k], need) >= 80
    BY <2>1, ScoreSeparates DEF Fits
  <2>3. /\ Score(h, free[h], need) \in Int
        /\ ~(node[h].count < MaxVms /\ Fits(h, free[h], need)) =>
             Score(h, free[h], need) <= 70
    BY <2>1, ScoreSeparates DEF Fits
  <2> QED BY <2>1, <2>2, <2>3
<1> QED BY <1>1, PTL

\* hosts and their VMs are added one by one
FiniteInv ==
  /\ node \in [Hosts -> Node]
  /\ home \in [Vms -> Hosts \cup {NoHost}]
  /\ IsFiniteSet(InCluster)
  /\ \A h \in Hosts : IsFiniteSet(node[h].vms)

\* whatever a step makes of a list is a list
LEMMA ListType ==
  ASSUME NEW n \in Node, NEW S \in SUBSET Vms
  PROVE  /\ List(n, S) \in Node /\ List(n, S).vms = S
         /\ List(n, S).status = n.status
BY DEF List, Node

LEMMA FiniteStep ==
  ASSUME FiniteInv, ClusterNext
  PROVE  FiniteInv'
<1>0. /\ NoNode \in Node /\ NewNode \in Node /\ NoNode.vms = {} /\ NewNode.vms = {}
      /\ IsFiniteSet({}) /\ \A h \in Hosts : node[h] \in Node
  BY FS_EmptySet DEF FiniteInv, NoNode, NewNode, Node
\* it is enough to say which host may have come, and what its list may be
<1>e. ASSUME node' \in [Hosts -> Node], home' \in [Vms -> Hosts \cup {NoHost}],
             NEW k, InCluster' \subseteq InCluster \cup {k},
             \A h \in Hosts : IsFiniteSet(node'[h].vms)
      PROVE  FiniteInv'
  <2>1. IsFiniteSet(InCluster \cup {k})
    BY FS_AddElement DEF FiniteInv
  <2>2. IsFiniteSet(InCluster')
    BY <1>e, <2>1, FS_Subset
  <2> QED BY <1>e, <2>2 DEF FiniteInv
<1>1. CASE Heartbeat
  <2>1. PICK up \in SUBSET InCluster :
          node' = [h \in Hosts |->
                     IF h \notin InCluster THEN node[h]
                     ELSE [node[h] EXCEPT !.status =
                             IF h \in up THEN "ONLINE" ELSE "OFFLINE"]]
    BY <1>1 DEF Heartbeat
  <2>2. ASSUME NEW h \in Hosts
        PROVE  /\ node'[h] \in Node /\ node'[h].vms = node[h].vms
               /\ h \notin InCluster => node'[h] = node[h]
    BY <1>0, <2>1 DEF Node
  <2>3. node' \in [Hosts -> Node]
    <3>1. node' = [h \in Hosts |-> node'[h]]
      BY <2>1
    <3> QED BY <2>2, <3>1
  <2>4. InCluster' \subseteq InCluster \cup {NoHost}
    BY <2>2 DEF InCluster
  <2>5. \A h \in Hosts : IsFiniteSet(node'[h].vms)
    BY <2>2 DEF FiniteInv
  <2>6. home' \in [Vms -> Hosts \cup {NoHost}]
    BY <1>1 DEF Heartbeat, FiniteInv
  <2> QED BY <1>e, <2>3, <2>4, <2>5, <2>6
<1>2. CASE EvictOffline
  <2>a. PICK off : off = {h \in InCluster : node[h].status = "OFFLINE"
                                            /\ node[h].vms # {}}
    OBVIOUS
  <2>b. PICK gone : gone = UNION {node[h].vms : h \in off}
    OBVIOUS
  <2>0. /\ node' = [h \in Hosts |->
                IF h \in off THEN List(node[h], {})
                ELSE List(node[h], {v \in node[h].vms : v \notin gone \/ home[v] # h})]
        /\ home' = [v \in Vms |-> IF v \in gone THEN NoHost ELSE home[v]]
    BY <1>2, <2>a, <2>b DEF EvictOffline
  <2>1. ASSUME NEW h \in Hosts
        PROVE  \E S \in SUBSET node[h].vms : node'[h] = List(node[h], S)
    BY <2>0
  <2>2. ASSUME NEW h \in Hosts
        PROVE  /\ node'[h] \in Node /\ node'[h].vms \subseteq node[h].vms
               /\ node'[h].status = node[h].status
    <3>1. PICK S \in SUBSET node[h].vms : node'[h] = List(node[h], S)
      BY <2>1
    <3>2. S \in SUBSET Vms
      BY <1>0, <3>1 DEF Node
    <3> QED BY <1>0, <3>1, <3>2, ListType
  <2>3. node' \in [Hosts -> Node]
    <3>1. node' = [h \in Hosts |-> node'[h]]
      BY <2>0
    <3> QED BY <2>2, <3>1
  <2>4. InCluster' \subseteq InCluster \cup {NoHost}
    <3>1. ASSUME NEW h \in Hosts, node[h] = NoNode PROVE node'[h] = NoNode
      <4>1. PICK S \in SUBSET node[h].vms : node'[h] = List(node[h], S)
        BY <2>1
      <4>2. S = {} /\ node'[h] = [NoNode EXCEPT !.vms = {}, !.count = 0]
        BY <1>0, <3>1, <4>1, FS_EmptySet DEF List
      <4> QED BY <4>2 DEF NoNode
    <3> QED BY <3>1 DEF InCluster
  <2>5. ASSUME NEW h \in Hosts PROVE IsFiniteSet(node'[h].vms)
    BY <2>2, FS_Subset DEF FiniteInv
  <2>6. home' \in [Vms -> Hosts \cup {NoHost}]
    BY <2>0 DEF FiniteInv
  <2> QED BY <1>e, <2>3, <2>4, <2>5, <2>6
\* the other steps write the node of one host
<1>f. ASSUME NEW h \in Hosts, NEW n \in Node, node' = [node EXCEPT ![h] = n],
             IsFiniteSet(n.vms), home' \in [Vms -> Hosts \cup {NoHost}]
      PROVE  FiniteInv'
  <2>1. /\ node' \in [Hosts -> Node] /\ node'[h] = n
        /\ \A k \in Hosts \ {h} : node'[k] = node[k]
    BY <1>f DEF FiniteInv
  <2>2. InCluster' \subseteq InCluster \cup {h}
    BY <2>1 DEF InCluster
  <2>3. \A k \in Hosts : IsFiniteSet(node'[k].vms)
    BY <1>f, <2>1 DEF FiniteInv
  <2> QED BY <1>e, <1>f, <2>1, <2>2, <2>3
<1>3. ASSUME NEW h \in Hosts, AddHost(h) \/ RemoveHost(h) PROVE FiniteInv'
  <2>1. node' = [node EXCEPT ![h] = NewNode] \/ node' = [node EXCEPT ![h] = NoNode]
    BY <1>3 DEF AddHost, RemoveHost
  <2>2. home' \in [Vms -> Hosts \cup {NoHost}]
    BY <1>3 DEF AddHost, RemoveHost, FiniteInv
  <2> QED BY <1>0, <1>f, <2>1, <2>2
<1>4. ASSUME NEW v \in Vms, NEW h \in Hosts, RegisterVm(v, h) PROVE FiniteInv'
  <2>1. PICK S : S = node[h].vms \cup {v}
    OBVIOUS
  <2>2. S \in SUBSET Vms /\ IsFiniteSet(S)
    BY <1>0, <2>1, FS_AddElement DEF Node, FiniteInv
  <2>3. PICK n : n = List(node[h], S)
    OBVIOUS
  <2>4. n \in Node /\ n.vms = S
    BY <1>0, <2>2, <2>3, ListType
  <2>5. /\ node' = [node EXCEPT ![h] = n]
        /\ home' \in [Vms -> Hosts \cup {NoHost}]
    BY <1>4, <2>1, <2>3 DEF RegisterVm, FiniteInv
  <2> QED BY <1>f, <2>2, <2>4, <2>5
<1>5. ASSUME NEW v \in Vms, UnregisterVm(v) PROVE FiniteInv'
  <2>0. PICK h \in Hosts : h = home[v]
    BY <1>5 DEF UnregisterVm, FiniteInv
  <2>1. PICK S : S = node[h].vms \ {v}
    OBVIOUS
  <2>2. S \in SUBSET Vms /\ IsFiniteSet(S)
    BY <1>0, <2>1, FS_RemoveElement DEF Node, FiniteInv
  <2>3. PICK n : n = List(node[h], S)
    OBVIOUS
  <2>4. n \in Node /\ n.vms = S
    BY <1>0, <2>2, <2>3, ListType
  <2>5. /\ node' = [node EXCEPT ![h] = n]
        /\ home' \in [Vms -> Hosts \cup {NoHost}]
    BY <1>5, <2>0, <2>1, <2>3 DEF UnregisterVm, FiniteInv
  <2> QED BY <1>f, <2>2, <2>4, <2>5
<1> QED BY <1>1, <1>2, <1>3, <1>4, <1>5 DEF ClusterNext

\* the VMs on the lists of two hosts are counted host by host
LEMMA TwoLists ==
  ASSUME NEW x, NEW y, x # y, Online = {x, y},
         IsFiniteSet(node[x].vms), IsFiniteSet(node[y].vms),
         node[x].vms \subseteq Vms, node[y].vms \subseteq Vms
  PROVE  Cardinality({p \in Online \X Vms : p[2] \in node[p[1]].vms}) =
           Cardinality(node[x].vms) + Cardinality(node[y].vms)
<1>1. PICK A, B : A = node[x].vms /\ B = node[y].vms
  OBVIOUS
<1>2. {p \in Online \X Vms : p[2] \in node[p[1]].vms} = ({x} \X A) \cup ({y} \X B)
  BY <1>1
<1>3. ({x} \X A) \cap ({y} \X B) = {}
  OBVIOUS
<1>4. /\ IsFiniteSet({x}) /\ IsFiniteSet({y})
      /\ Cardinality({x}) = 1 /\ Cardinality({y}) = 1
  BY FS_Singleton
<1>5. Cardinality(A) \in Nat /\ Cardinality(B) \in Nat
  BY <1>1, FS_CardinalityType
<1>6. /\ IsFiniteSet({x} \X A) /\ Cardinality({x} \X A) = 1 * Cardinality(A)
      /\ IsFiniteSet({y} \X B) /\ Cardinality({y} \X B) = 1 * Cardinality(B)
  BY <1>1, <1>4, FS_Product
<1>7. Cardinality(({x} \X A) \cup ({y} \X B)) =
        Cardinality({x} \X A) + Cardinality({y} \X B) - Cardinality({})
  BY <1>3, <1>6, FS_Union
<1>8. Cardinality({}) = 0
  BY FS_EmptySet
<1>9. PICK a, b \in Nat : a = Cardinality(A) /\ b = Cardinality(B)
  BY <1>5
<1>10. Cardinality(({x} \X A) \cup ({y} \X B)) = a + b
  BY <1>6, <1>7, <1>8, <1>9
<1> QED BY <1>1, <1>2, <1>9, <1>10

LEMMA TwoHosts ==
  ASSUME FiniteInv, Cardinality(Online) = 2
  PROVE  \E x, y \in Hosts : x # y /\ Online = {x, y}
<1>1. IsFiniteSet(Online)
  <2>1. Online \subseteq InCluster
    BY DEF Online, InCluster, NoNode
  <2> QED BY <2>1, FS_Subset DEF FiniteInv
<1>2. PICK x : x \in Online
  BY <1>1, FS_EmptySet
<1>3. /\ IsFiniteSet(Online \ {x}) /\ Cardinality(Online \ {x}) = 2 - 1
  BY <1>1, <1>2, FS_RemoveElement
<1>4. PICK T : T = Online \ {x}
  OBVIOUS
<1>5. IsFiniteSet(T) /\ Cardinality(T) = 1
  BY <1>3, <1>4
<1>6. PICK y : T = {y}
  BY <1>5, FS_Singleton
<1> QED BY <1>2, <1>4, <1>6 DEF Online

\* multi_host.py:233: with two hosts online, the plan of balance_vms leaves
\* their lists at most one apart, however many hosts and VMs there are.
THEOREM PlanBalancesHolds == ClusterSpec => []PlanBalances
<1>1. ClusterInit => FiniteInv
  <2> SUFFICES ASSUME ClusterInit PROVE FiniteInv
    OBVIOUS
  <2>1. InCluster = {} /\ \A h \in Hosts : node[h].vms = {}
    BY DEF ClusterInit, InCluster, NoNode
  <2>2. node \in [Hosts -> Node] /\ home \in [Vms -> Hosts \cup {NoHost}]
    BY DEF ClusterInit, NoNode, Node
  <2> QED BY <2>1, <2>2, FS_EmptySet DEF FiniteInv
<1>2. FiniteInv /\ [ClusterNext]_clusterVars => FiniteInv'
  <2>1. ASSUME FiniteInv, UNCHANGED clusterVars PROVE FiniteInv'
    BY <2>1 DEF clusterVars, FiniteInv, InCluster
  <2> QED BY <2>1, FiniteStep
<1>3. FiniteInv => PlanBalances
  <2> SUFFICES ASSUME FiniteInv, Cardinality(Online) = 2, NEW h \in Online,
                      NEW other \in Online
               PROVE  LET load(k) == Cardinality(node[k].vms)
                            - Moves(k, CHOOSE o \in Online : o # k)
                            + Moves(CHOOSE o \in Online : o # k, k) IN
                      load(h) - load(other) \in -1..1
    BY DEF PlanBalances
  <2>1. PICK x, y \in Hosts : x # y /\ Online = {x, y}
    BY TwoHosts
  <2>2. /\ (CHOOSE o \in Online : o # x) = y
        /\ (CHOOSE o \in Online : o # y) = x
    BY <2>1
  <2>3. PICK a, b \in Nat : a = Cardinality(node[x].vms) /\ b = Cardinality(node[y].vms)
    BY FS_CardinalityType DEF FiniteInv
  <2>4. Cardinality({p \in Online \X Vms : p[2] \in node[p[1]].vms}) = a + b
    BY <2>1, <2>3, TwoLists DEF FiniteInv, Node
  <2>5. PICK m : m = IdealPerHost
    OBVIOUS
  <2>m. m = IF (a + b) \div 2 > 1 THEN (a + b) \div 2 ELSE 1
    BY <2>4, <2>5 DEF IdealPerHost
  <2>i. m \in Nat
    BY <2>m
  <2>6. PICK p, q : p = Moves(x, y) /\ q = Moves(y, x)
    OBVIOUS
  <2>n. /\ p = IF a - m <= 0 \/ m - b <= 0 THEN 0
              ELSE IF a - m < m - b THEN a - m ELSE m - b
        /\ q = IF b - m <= 0 \/ m - a <= 0 THEN 0
              ELSE IF b - m < m - a THEN b - m ELSE m - a
    BY <2>1, <2>3, <2>5, <2>6 DEF Moves
  <2>p. p \in Int /\ q \in Int
    BY <2>i, <2>n
  <2>7. /\ (a - p + q) - (b - q + p) \in -1..1
        /\ (b - q + p) - (a - p + q) \in -1..1
        /\ (a - p + q) - (a - p + q) \in -1..1
        /\ (b - q + p) - (b - q + p) \in -1..1
    BY <2>i, <2>m, <2>n, <2>p
  <2> DEFINE load(k) == Cardinality(node[k].vms)
                         - Moves(k, CHOOSE o \in Online : o # k)
                         + Moves(CHOOSE o \in Online : o # k, k)
  <2>8. load(x) = a - p + q /\ load(y) = b - q + p
    BY <2>2, <2>3, <2>6
  <2>9. load(h) - load(other) \in -1..1
    <3> HIDE DEF load
    <3> QED BY <2>1, <2>7, <2>8
  <2> QED BY <2>9
<1> QED BY <1>1, <1>2, <1>3, PTL DEF ClusterSpec

-----------------------------------------------------------------------------
(* Passthrough                                                              *)

GpuInv ==
  /\ device \in [Devices -> {"unknown", "available", "assigned"}]
  /\ assigned \in [Vms -> Devices \cup {NoDevice}]
  /\ place \in [Devices -> Vms \cup NoVmHas]
  /\ GpusAreBooked

\* gpu.py:47-134: the books agree with the devices through every failed step,
\* where no call that came about is taken for failed.
THEOREM GpusAreBookedHolds == ~TimesOut => (GpuSpec => []GpusAreBooked)
<1> SUFFICES ASSUME ~TimesOut PROVE GpuSpec => []GpusAreBooked
  OBVIOUS
<1>1. GpuInit => GpuInv
  BY PassthroughAssumption
  DEF GpuInit, GpuInv, GpusAreBooked, NoVmHas, PassthroughAssumption
<1>2. GpuInv /\ [GpuNext]_gpuVars => GpuInv'
  <2> SUFFICES ASSUME GpuInv, [GpuNext]_gpuVars PROVE GpuInv'
    OBVIOUS
  <2> USE PassthroughAssumption
      DEF GpuInv, GpusAreBooked, NoVmHas, PassthroughAssumption
  <2>1. CASE DetectGpus
    BY <2>1 DEF DetectGpus, Listed
  <2>2. ASSUME NEW v \in Vms, Release(v) PROVE GpuInv'
    BY <2>2 DEF Release, CanRelease
  <2>3. ASSUME NEW v \in Vms, ReleaseFails(v) PROVE GpuInv'
    BY <2>3 DEF ReleaseFails, CanRelease
  <2>4. ASSUME NEW v \in Vms, NEW d \in Devices, Assign(d, v) PROVE GpuInv'
    BY <2>4 DEF Assign, CanAssign
  <2>5. ASSUME NEW v \in Vms, NEW d \in Devices, AssignFails(d, v) PROVE GpuInv'
    BY <2>5 DEF AssignFails, CanAssign
  <2>6. CASE UNCHANGED gpuVars
    BY <2>6 DEF gpuVars
  <2> QED BY <2>1, <2>2, <2>3, <2>4, <2>5, <2>6 DEF GpuNext
<1>3. GpuInv => GpusAreBooked
  BY DEF GpuInv
<1> QED BY <1>1, <1>2, <1>3, PTL DEF GpuSpec

-----------------------------------------------------------------------------
(* Resources                                                                *)

\* MemoryInBounds with the types that its arithmetic needs.
MemoryInv ==
  /\ alloc \in [Vms -> [base : Nat, mem : Nat, gpus : Int]]
  /\ \A v \in Vms : alloc[v].mem \in MinMem(alloc[v].base)..MaxMem(alloc[v].base)

\* resource_manager.py:167-191: one report of a usage.
LEMMA BalloonedInBounds ==
  ASSUME NEW base \in Nat, NEW mem \in MinMem(base)..MaxMem(base), NEW used \in Nat
  PROVE  Ballooned(base, mem, used) \in MinMem(base)..MaxMem(base)
<1>1. CASE 2 * used < base
  BY <1>1 DEF Ballooned, MinMem, MaxMem, Larger
<1>2. CASE ~(2 * used < base) /\ 5 * used > 4 * base
  BY <1>2 DEF Ballooned, MinMem, MaxMem, Smaller
<1>3. CASE ~(2 * used < base) /\ ~(5 * used > 4 * base)
  BY <1>3 DEF Ballooned
<1> QED BY <1>1, <1>2, <1>3

\* resource_manager.py:51-52, 167-191: no order of reports leaves the bounds.
THEOREM MemoryInBoundsHolds == ResourcesSpec => []MemoryInBounds
<1>1. ResourcesInit => MemoryInv
  BY DEF ResourcesInit, MemoryInv, NoAlloc, MinMem, MaxMem
<1>2. MemoryInv /\ [ResourcesNext]_resourceVars => MemoryInv'
  <2> SUFFICES ASSUME MemoryInv, [ResourcesNext]_resourceVars PROVE MemoryInv'
    OBVIOUS
  <2> USE ResourcesAssumption DEF MemoryInv, ResourcesAssumption
  <2>1. CASE Detect
    BY <2>1 DEF Detect
  <2>2. ASSUME NEW v \in Vms, NEW base \in Profiles, NEW n \in Counts, Allocate(v, base, n)
        PROVE  MemoryInv'
    <3>1. base \in Nat /\ n \in Int /\ base \in MinMem(base)..MaxMem(base)
      BY DEF MinMem, MaxMem, Counts
    <3>2. alloc' = [alloc EXCEPT ![v] = [base |-> base, mem |-> base, gpus |-> n]]
      BY <2>2 DEF Allocate
    <3> QED BY <3>1, <3>2
  <2>3. ASSUME NEW v \in Vms, Deallocate(v) PROVE MemoryInv'
    BY <2>3 DEF Deallocate, NoAlloc, MinMem, MaxMem
  <2>4. ASSUME NEW v \in Vms, ReleaseGpu(v) PROVE MemoryInv'
    BY <2>4 DEF ReleaseGpu
  <2>5. ASSUME NEW v \in Vms, NEW n \in Counts, AllocateGpu(v, n)
        PROVE  MemoryInv'
    BY <2>5 DEF AllocateGpu, Counts
  <2>6. ASSUME NEW v \in Vms, NEW used \in Usages, Balloon(v, used)
        PROVE  MemoryInv'
    <3> DEFINE mem == Ballooned(alloc[v].base, alloc[v].mem, used)
    <3>1. mem \in MinMem(alloc[v].base)..MaxMem(alloc[v].base) /\ mem \in Nat
      <4>1. /\ alloc[v].base \in Nat /\ used \in Nat
            /\ alloc[v].mem \in MinMem(alloc[v].base)..MaxMem(alloc[v].base)
        OBVIOUS
      <4>2. mem \in MinMem(alloc[v].base)..MaxMem(alloc[v].base)
        BY <4>1, BalloonedInBounds
      <4> HIDE DEF mem
      <4> QED BY <4>1, <4>2 DEF MinMem, MaxMem
    <3>2. alloc' = [alloc EXCEPT ![v].mem = mem]
      BY <2>6 DEF Balloon
    <3> QED
      <4> HIDE DEF mem
      <4> QED BY <3>1, <3>2
  <2>7. CASE UNCHANGED resourceVars
    BY <2>7 DEF resourceVars
  <2> QED BY <2>1, <2>2, <2>3, <2>4, <2>5, <2>6, <2>7 DEF ResourcesNext
<1>3. MemoryInv => MemoryInBounds
  BY DEF MemoryInv, MemoryInBounds, Allocated
<1> QED BY <1>1, <1>2, <1>3, PTL DEF ResourcesSpec

\* The types that counting the GPUs needs.
Alloc == [base : Nat, mem : Nat, gpus : Int]

BooksInv ==
  /\ alloc \in [Vms -> Alloc]
  /\ freeGpus \in Nat
  /\ IsFiniteSet(GpusInUse)

\* the GPUs that a count stands for
Held(n) == IF n > 0 THEN n ELSE 0

\* the n GPUs of one VM
LEMMA Numbered ==
  ASSUME NEW v, NEW n \in Int
  PROVE  IsFiniteSet({v} \X (1..n)) /\ Cardinality({v} \X (1..n)) = Held(n)
<1>1. IsFiniteSet({v}) /\ Cardinality({v}) = 1
  BY FS_Singleton
<1>2. IsFiniteSet(1..n) /\ Cardinality(1..n) = Held(n)
  BY FS_Interval DEF Held
<1>3. /\ IsFiniteSet({v} \X (1..n))
      /\ Cardinality({v} \X (1..n)) = Cardinality({v}) * Cardinality(1..n)
  BY <1>1, <1>2, FS_Product
<1> QED BY <1>1, <1>2, <1>3 DEF Held

LEMMA GpusKept ==
  ASSUME BooksInv, \A w \in Vms : GpusOf(w)' = GpusOf(w)
  PROVE  GpusInUse' = GpusInUse
BY DEF GpusInUse

\* when the GPUs of one VM change, the others keep theirs
LEMMA GpusOfOne ==
  ASSUME BooksInv, NEW v \in Vms, NEW n \in Int, GpusOf(v)' = n,
         \A w \in Vms \ {v} : GpusOf(w)' = GpusOf(w)
  PROVE  /\ IsFiniteSet(GpusInUse')
         /\ Cardinality(GpusInUse') = Cardinality(GpusInUse) - Held(GpusOf(v)) + Held(n)
<1>0. PICK g : g = GpusOf(v)
  OBVIOUS
<1>g. g \in Int
  BY <1>0 DEF BooksInv, Alloc, GpusOf
<1>1. PICK old, new, rest : /\ old = {v} \X (1..g) /\ new = {v} \X (1..n)
                            /\ rest = GpusInUse \ old
  OBVIOUS
<1>2. /\ IsFiniteSet(old) /\ Cardinality(old) = Held(g)
      /\ IsFiniteSet(new) /\ Cardinality(new) = Held(n)
  BY <1>g, <1>1, Numbered
<1>3. GpusInUse \cap old = old
  BY <1>0, <1>1 DEF GpusInUse
<1>4. IsFiniteSet(rest) /\ Cardinality(rest) = Cardinality(GpusInUse) - Held(g)
  <2>0. PICK all : all = GpusInUse
    OBVIOUS
  <2>1. IsFiniteSet(all)
    BY <2>0 DEF BooksInv
  <2>2. /\ IsFiniteSet(all \ old)
        /\ Cardinality(all \ old) = Cardinality(all) - Cardinality(all \cap old)
    BY <2>1, FS_Difference
  <2> QED BY <1>1, <1>2, <1>3, <2>0, <2>2
<1>5. rest = UNION {{w} \X (1..GpusOf(w)) : w \in Vms \ {v}}
  BY <1>0, <1>1 DEF GpusInUse
<1>6. GpusInUse' = rest \cup new
  <2>1. GpusInUse' = UNION {{w} \X (1..GpusOf(w)') : w \in Vms}
    BY DEF GpusInUse
  <2> QED BY <1>1, <1>5, <2>1
<1>7. rest \cap new = {}
  BY <1>1, <1>5
<1>8. /\ IsFiniteSet(GpusInUse')
      /\ Cardinality(GpusInUse') = Cardinality(rest) + Cardinality(new) - Cardinality({})
  BY <1>2, <1>4, <1>6, <1>7, FS_Union
<1>9. Cardinality({}) = 0 /\ Cardinality(GpusInUse) \in Nat
  BY FS_EmptySet, FS_CardinalityType DEF BooksInv
<1>10. Held(g) \in Nat /\ Held(n) \in Nat
  BY <1>g DEF Held
<1> QED BY <1>0, <1>2, <1>4, <1>8, <1>9, <1>10

\* resource_manager.py:116-154, 242-262: whatever the host has and callers ask
\* for, the three calls of MakesUp are the only ones after which more GPUs are
\* promised.
THEOREM OthersPromiseNoMoreHolds == ResourcesSpec => OthersPromiseNoMore
<1> DEFINE Kept == Promised' > Promised => MakesUp
<1>1. ResourcesInit => BooksInv
  <2> SUFFICES ASSUME ResourcesInit PROVE BooksInv
    OBVIOUS
  <2>1. GpusInUse = {}
    BY DEF ResourcesInit, NoAlloc, GpusInUse, GpusOf
  <2>2. IsFiniteSet({})
    BY FS_EmptySet
  <2> QED BY <2>1, <2>2 DEF ResourcesInit, BooksInv, Alloc, NoAlloc
<1>2. BooksInv /\ [ResourcesNext]_resourceVars => BooksInv' /\ (Kept \/ UNCHANGED resourceVars)
  <2> SUFFICES ASSUME BooksInv, [ResourcesNext]_resourceVars
               PROVE  BooksInv' /\ (Kept \/ UNCHANGED resourceVars)
    OBVIOUS
  <2>0. /\ alloc \in [Vms -> Alloc]
        /\ freeGpus \in Nat
        /\ Profiles \subseteq Nat /\ MaxGpus \in Nat /\ Usages \subseteq Nat
        /\ Counts \subseteq Int /\ Cardinality(GpusInUse) \in Nat
    BY ResourcesAssumption, FS_CardinalityType DEF BooksInv, ResourcesAssumption, Counts
  <2>1. CASE Detect
    <3>1. GpusInUse' = GpusInUse
      BY <2>1, GpusKept DEF Detect, GpusOf
    <3>2. freeGpus' \in Nat /\ alloc' = alloc
      BY <2>0, <2>1 DEF Detect
    <3> QED BY <2>1, <3>1, <3>2 DEF BooksInv, MakesUp
  \* the other steps change one VM, and the free GPUs
  <2>a. ASSUME NEW v \in Vms, NEW r \in Alloc, alloc' = [alloc EXCEPT ![v] = r],
               freeGpus' \in Nat
        PROVE  /\ BooksInv'
               /\ Promised' = Promised - Held(GpusOf(v)) + Held(r.gpus)
                                - freeGpus + freeGpus'
               /\ Promised \in Int /\ GpusOf(v) \in Int /\ freeGpus \in Nat
    <3>1. /\ GpusOf(v)' = r.gpus /\ r.gpus \in Int /\ GpusOf(v) \in Int
          /\ \A w \in Vms \ {v} : GpusOf(w)' = GpusOf(w)
      BY <2>0, <2>a DEF GpusOf, Alloc
    <3>2. /\ IsFiniteSet(GpusInUse')
          /\ Cardinality(GpusInUse') = Cardinality(GpusInUse) - Held(GpusOf(v)) + Held(r.gpus)
      BY <3>1, GpusOfOne
    <3>3. alloc' \in [Vms -> Alloc]
      BY <2>0, <2>a
    <3>4. Held(GpusOf(v)) \in Nat /\ Held(r.gpus) \in Nat
      BY <3>1 DEF Held
    <3>5. /\ Promised = Cardinality(GpusInUse) + freeGpus
          /\ Promised' = Cardinality(GpusInUse') + freeGpus'
      BY DEF Promised
    <3>6. freeGpus \in Nat /\ freeGpus' \in Nat
      BY <2>0, <2>a
    <3> QED BY <2>0, <2>a, <3>1, <3>2, <3>3, <3>4, <3>5, <3>6 DEF BooksInv
  <2>2. ASSUME NEW v \in Vms, NEW base \in Profiles, NEW n \in Counts, Allocate(v, base, n)
        PROVE  BooksInv' /\ Kept
    <3>1. PICK r : r = [base |-> base, mem |-> base, gpus |-> n]
      OBVIOUS
    <3>2. alloc' = [alloc EXCEPT ![v] = r] /\ freeGpus' = freeGpus
      BY <2>2, <3>1 DEF Allocate
    <3>3. r \in Alloc /\ r.gpus = n /\ n \in Int
      BY <2>0, <3>1 DEF Alloc
    <3>4. GpusOf(v) = 0
      BY <2>2 DEF Allocate, Allocated, NoAlloc, GpusOf
    <3>5. n > 0 => MakesUp
      BY <2>2 DEF MakesUp
    <3>6. freeGpus' \in Nat
      BY <2>0, <3>2
    <3>7. /\ BooksInv' /\ Promised \in Int
          /\ Promised' = Promised - Held(GpusOf(v)) + Held(r.gpus)
                           - freeGpus + freeGpus'
      BY <2>a, <3>2, <3>3, <3>6
    <3> QED BY <2>0, <3>2, <3>3, <3>4, <3>5, <3>7 DEF Held
  <2>3. ASSUME NEW v \in Vms, Deallocate(v) PROVE BooksInv' /\ Kept
    <3>1. PICK r : r = NoAlloc
      OBVIOUS
    <3>2. alloc' = [alloc EXCEPT ![v] = r] /\ freeGpus' = freeGpus
      BY <2>3, <3>1 DEF Deallocate
    <3>3. r \in Alloc /\ r.gpus = 0
      BY <3>1 DEF NoAlloc, Alloc
    <3>4. freeGpus' \in Nat
      BY <2>0, <3>2
    <3>5. /\ BooksInv' /\ Promised \in Int /\ GpusOf(v) \in Int
          /\ Promised' = Promised - Held(GpusOf(v)) + Held(r.gpus)
                           - freeGpus + freeGpus'
      BY <2>a, <3>2, <3>3, <3>4
    <3> QED BY <2>0, <3>2, <3>3, <3>5 DEF Held
  <2>4. ASSUME NEW v \in Vms, ReleaseGpu(v) PROVE BooksInv' /\ Kept
    <3>1. PICK r : r = [alloc[v] EXCEPT !.gpus = 0]
      OBVIOUS
    <3>2. r \in Alloc /\ r.gpus = 0 /\ GpusOf(v) \in Int
      BY <2>0, <3>1 DEF Alloc, GpusOf
    <3>3. /\ alloc' = [alloc EXCEPT ![v] = r] /\ GpusOf(v) > 0
          /\ freeGpus' = freeGpus + GpusOf(v)
      BY <2>0, <2>4, <3>1 DEF ReleaseGpu, Alloc
    <3>4. /\ freeGpus' \in Nat
          /\ freeGpus' = freeGpus + GpusOf(v)
      BY <2>0, <3>2, <3>3
    <3>5. /\ BooksInv' /\ Promised \in Int /\ freeGpus \in Nat
          /\ Promised' = Promised - Held(GpusOf(v)) + Held(r.gpus)
                           - freeGpus + freeGpus'
      BY <2>a, <3>2, <3>3, <3>4
    <3> QED BY <3>2, <3>3, <3>4, <3>5 DEF Held
  <2>5. ASSUME NEW v \in Vms, NEW n \in Counts, AllocateGpu(v, n)
        PROVE  BooksInv' /\ Kept
    <3>1. PICK r : r = [alloc[v] EXCEPT !.gpus = n]
      OBVIOUS
    <3>2. r \in Alloc /\ r.gpus = n /\ n \in Int
      BY <2>0, <3>1 DEF Alloc
    <3>3. /\ alloc' = [alloc EXCEPT ![v] = r] /\ n <= freeGpus
          /\ freeGpus' = freeGpus - n
      BY <2>0, <2>5, <3>1 DEF AllocateGpu, Alloc
    <3>4. /\ freeGpus' \in Nat
          /\ freeGpus' = freeGpus - n
      BY <2>0, <3>2, <3>3
    <3>5. /\ BooksInv' /\ Promised \in Int /\ GpusOf(v) \in Int /\ freeGpus \in Nat
          /\ Promised' = Promised - Held(GpusOf(v)) + Held(r.gpus)
                           - freeGpus + freeGpus'
      BY <2>a, <3>2, <3>3, <3>4
    <3>6. n < 0 => MakesUp
      BY <2>5 DEF MakesUp
    <3>7. n >= 0 => ~(Promised' > Promised)
      BY <3>2, <3>4, <3>5 DEF Held
    <3> QED BY <3>2, <3>5, <3>6, <3>7
  <2>6. ASSUME NEW v \in Vms, NEW used \in Usages, Balloon(v, used)
        PROVE  BooksInv' /\ Kept
    <3>1. PICK r : r = [alloc[v] EXCEPT !.mem = Ballooned(alloc[v].base, @, used)]
      OBVIOUS
    <3>2. Ballooned(alloc[v].base, alloc[v].mem, used) \in Nat
      <4>1. alloc[v].base \in Nat /\ alloc[v].mem \in Nat /\ used \in Nat
        BY <2>0 DEF Alloc
      <4> QED BY <4>1 DEF Ballooned, MinMem, MaxMem, Larger, Smaller
    <3>3. r \in Alloc /\ r.gpus = GpusOf(v)
      BY <2>0, <3>1, <3>2 DEF GpusOf, Alloc
    <3>4. alloc' = [alloc EXCEPT ![v] = r] /\ freeGpus' = freeGpus
      BY <2>0, <2>6, <3>1 DEF Balloon, Alloc
    <3>5. freeGpus' \in Nat
      BY <2>0, <3>4
    <3>6. /\ BooksInv' /\ Promised \in Int /\ GpusOf(v) \in Int
          /\ Promised' = Promised - Held(GpusOf(v)) + Held(r.gpus)
                           - freeGpus + freeGpus'
      BY <2>a, <3>3, <3>4, <3>5
    <3> QED BY <2>0, <3>3, <3>4, <3>6 DEF Held
  <2>7. CASE UNCHANGED resourceVars
    <3>1. GpusInUse' = GpusInUse
      BY <2>7, GpusKept DEF resourceVars, GpusOf
    <3> QED BY <2>7, <3>1 DEF resourceVars, BooksInv
  <2> QED BY <2>1, <2>2, <2>3, <2>4, <2>5, <2>6, <2>7 DEF ResourcesNext
<1> QED BY <1>1, <1>2, PTL DEF ResourcesSpec, OthersPromiseNoMore

-----------------------------------------------------------------------------
(* Packages                                                                 *)

\* The checksum of a file is blank or that of the last create that ended.
SealInv ==
  /\ package \in [manifest : Parts \cup {"none"}, layers : Parts \cup {"none"},
                  checksum : {Blank, sealed}]
  /\ source \in Contents
  /\ creating.pc # "idle" => creating.manifest \in Contents

\* package_engine.py:210-241, 300-335: only what was sealed is found valid.
THEOREM ValidIsSealedHolds == PackagesSpec => []ValidIsSealed
<1>1. PackagesInit => SealInv
  BY DEF PackagesInit, SealInv, NoPackage, NoCreate
<1>2. SealInv /\ [PackagesNext]_packageVars => SealInv'
  <2> SUFFICES ASSUME SealInv, [PackagesNext]_packageVars PROVE SealInv'
    OBVIOUS
  <2> USE DEF SealInv, Parts
  <2>1. CASE CreateHash
    BY <2>1 DEF CreateHash, NoCreate
  <2>2. CASE CreateWrite
    BY <2>2 DEF CreateWrite
  <2>3. CASE CreateDigest
    BY <2>3 DEF CreateDigest
  <2>4. CASE CreateSeal
    BY <2>4 DEF CreateSeal, NoCreate
  <2>5. CASE CreateDies
    BY <2>5 DEF CreateDies, NoCreate
  <2>6. CASE SourceChanges
    BY <2>6 DEF SourceChanges
  <2>7. CASE Damage
    BY <2>7 DEF Damage
  <2>8. CASE UNCHANGED packageVars
    BY <2>8 DEF packageVars
  <2> QED
    BY <2>1, <2>2, <2>3, <2>4, <2>5, <2>6, <2>7, <2>8 DEF PackagesNext
<1>3. SealInv => ValidIsSealed
  BY PackagesAssumption
  DEF SealInv, ValidIsSealed, Verify, Body, Blank, Nothing, PackagesAssumption
<1> QED BY <1>1, <1>2, <1>3, PTL DEF PackagesSpec

-----------------------------------------------------------------------------
(* Agent                                                                    *)

Guest == [script : {"none", "written"}, runs : SUBSET Nat, report : Nat]

\* All that is in a guest comes from the last deploy, or the last deploy found it.
AgentInv ==
  /\ agent \in [Vms -> {"none", "RUNNING", "ERROR", "STOPPED"}]
  /\ cached \in [Vms -> Nat]
  /\ guest \in [Vms -> Guest]
  /\ last \in [Vms -> [number : Nat, found : SUBSET Nat]]
  /\ \A v \in Vms : InGuest(v) \subseteq {last[v].number} \cup last[v].found
  /\ \A v \in Vms : agent[v] = "none" => cached[v] = 0 /\ last[v].number = 0
  /\ StoppedHasItsReport

\* analysis_agent.py:224-312: STOPPED is said of a VM nothing was deployed to, or
\* of one whose cached report is of the last deploy or of a run that deploy found;
\* for every number of VMs, deploys, rebuilds and runs at work.
THEOREM StoppedHasItsReportHolds == AgentSpec => []StoppedHasItsReport
<1>1. AgentInit => AgentInv
  BY DEF AgentInit, AgentInv, Guest, NewGuest, NoDeploy, InGuest, GetStatus, StoppedHasItsReport
<1>2. AgentInv /\ [AgentNext]_agentVars => AgentInv'
  <2> SUFFICES ASSUME AgentInv, [AgentNext]_agentVars PROVE AgentInv'
    OBVIOUS
  <2> USE DEF AgentInv, StoppedHasItsReport, GetStatus, InGuest
  <2>1. ASSUME NEW v \in Vms, Deploy(v) PROVE AgentInv'
    <3> DEFINE n == last[v].number + 1
               old == InGuest(v)
    <3>1. n \in Nat /\ n # 0 /\ old \subseteq Nat /\ UNCHANGED cached
      BY <2>1 DEF Deploy, Guest
    <3>2. PICK g \in Guest, status \in {"RUNNING", "ERROR"} :
            /\ g.runs \subseteq guest[v].runs \cup {n} /\ g.report = guest[v].report
            /\ guest' = [guest EXCEPT ![v] = g]
            /\ agent' = [agent EXCEPT ![v] = status]
            /\ last' = [last EXCEPT ![v] = [number |-> n, found |-> old]]
      <4>1. PICK write \in Outcomes, start \in Outcomes :
              LET script == Written(guest[v].script, write)
                  runs   == IF start # "failed" /\ script = "written" THEN {n} ELSE {} IN
              /\ guest' = [guest EXCEPT ![v] =
                             [script |-> script, runs |-> @.runs \cup runs, report |-> @.report]]
              /\ agent' = [agent EXCEPT ![v] = IF start = "answered" THEN "RUNNING" ELSE "ERROR"]
              /\ last' = [last EXCEPT ![v] = [number |-> n, found |-> old]]
        BY <2>1, Zenon DEF Deploy
      <4> DEFINE script == Written(guest[v].script, write)
                 runs == IF start # "failed" /\ script = "written" THEN {n} ELSE {}
                 g == [script |-> script, runs |-> guest[v].runs \cup runs,
                       report |-> guest[v].report]
      <4> HIDE DEF n, old
      <4>2. script \in {"none", "written"}
        BY DEF Written, Guest
      <4>3. runs \subseteq {n}
        OBVIOUS
      <4>4. g \in Guest /\ g.runs \subseteq guest[v].runs \cup {n} /\ g.report = guest[v].report
        <5> HIDE DEF script, runs
        <5> QED BY <3>1, <4>2, <4>3 DEF Guest
      <4>5. guest' = [guest EXCEPT ![v] = g]
        BY <4>1
      <4> HIDE DEF g
      <4> QED BY <4>1, <4>4, <4>5
    <3> HIDE DEF n, old
    <3>3. /\ agent' \in [Vms -> {"none", "RUNNING", "ERROR", "STOPPED"}]
          /\ guest' \in [Vms -> Guest]
          /\ last' \in [Vms -> [number : Nat, found : SUBSET Nat]]
      BY <3>1, <3>2
    <3>4. \A w \in Vms \ {v} : agent'[w] = agent[w] /\ guest'[w] = guest[w] /\ last'[w] = last[w]
      BY <3>2
    <3>5. /\ agent'[v] \in {"RUNNING", "ERROR"} /\ guest'[v] = g
          /\ last'[v].number = n /\ last'[v].found = old
      BY <3>2
    <3>6. InGuest(v)' \subseteq {n} \cup old
      BY <3>2, <3>5 DEF old
    <3>7. AgentInv!5'
      BY <3>4, <3>5, <3>6
    <3> QED BY <3>1, <3>3, <3>4, <3>5, <3>7
  <2>2. ASSUME NEW v \in Vms, WriteReport(v) PROVE AgentInv'
    <3>1. PICK r \in guest[v].runs :
            guest' = [guest EXCEPT ![v] =
                        [script |-> @.script, runs |-> @.runs \ {r}, report |-> r]]
      BY <2>2 DEF WriteReport
    <3>2. UNCHANGED <<agent, cached, last>>
      BY <2>2 DEF WriteReport
    <3>3. guest' \in [Vms -> Guest]
      BY <3>1 DEF Guest
    <3>4. \A w \in Vms : InGuest(w)' \subseteq InGuest(w)
      BY <3>1
    <3> QED BY <3>2, <3>3, <3>4
  <2>3. ASSUME NEW v \in Vms, CollectFails(v) PROVE AgentInv'
    BY <2>3 DEF CollectFails
  <2>4. ASSUME NEW v \in Vms, CollectReport(v) PROVE AgentInv'
    <3>1. guest[v].report \in Nat
      BY DEF Guest
    <3> QED BY <2>4, <3>1 DEF CollectReport
  <2>5. ASSUME NEW v \in Vms, Rebuild(v) PROVE AgentInv'
    BY <2>5 DEF Rebuild, NewGuest, Guest
  <2>6. CASE UNCHANGED agentVars
    BY <2>6 DEF agentVars
  <2> QED BY <2>1, <2>2, <2>3, <2>4, <2>5, <2>6 DEF AgentNext
<1>3. AgentInv => StoppedHasItsReport
  BY DEF AgentInv
<1> QED BY <1>1, <1>2, <1>3, PTL DEF AgentSpec

-----------------------------------------------------------------------------
(* Images                                                                   *)

Image == [name : ImageNames, status : ImageStatus, output : {"none", "vhdx"}]

\* A name leads to an object of that name, and READY objects know their file.
DiskInv ==
  /\ image \in Seq(Image)
  /\ images \in [ImageNames -> Nat] /\ vhdx \in [ImageNames -> Nat]
  /\ \A n \in ImageNames :
       images[n] # 0 => images[n] \in Made /\ image[images[n]].name = n
  /\ ReadyIsOnDisk

\* image_builder.py:135-276: the file of a READY image is the one it built.
THEOREM ReadyIsOnDiskHolds == ImagesSpec => []ReadyIsOnDisk
<1>1. ImagesInit => DiskInv
  BY DEF ImagesInit, DiskInv, Made, ReadyIsOnDisk
<1>2. DiskInv /\ [ImagesNext]_imageVars => DiskInv'
  <2> SUFFICES ASSUME DiskInv, [ImagesNext]_imageVars PROVE DiskInv'
    OBVIOUS
  <2> USE DEF DiskInv, ReadyIsOnDisk, Made
  <2>1. ASSUME NEW n \in ImageNames, CreateImage(n) PROVE DiskInv'
    <3> DEFINE new == [name |-> n, status |-> "PENDING", output |-> "none"]
    <3>1. new \in Image /\ new.name = n /\ new.status # "READY"
      BY DEF Image, ImageStatus
    <3>2. image' = Append(image, new) /\ images' = [images EXCEPT ![n] = Len(image) + 1]
          /\ vhdx' = vhdx
      BY <2>1 DEF CreateImage
    <3> HIDE DEF new
    <3>3. /\ image' \in Seq(Image) /\ Len(image') = Len(image) + 1
          /\ image'[Len(image) + 1] = new
          /\ \A o \in 1..Len(image) : image'[o] = image[o]
      BY <3>1, <3>2
    <3> QED BY <3>1, <3>2, <3>3
  <2>2. ASSUME NEW n \in ImageNames, DeleteImage(n) PROVE DiskInv'
    BY <2>2 DEF DeleteImage
  <2>3. ASSUME NEW o \in Made, BuildImage(o) PROVE DiskInv'
    <3>1. image[o] \in Image /\ image[o].name \in ImageNames
      <4>1. image[o] \in Image
        OBVIOUS
      <4> QED BY <4>1 DEF Image
    <3>2. PICK status \in {"READY", "FAILED"} :
            image' = [image EXCEPT ![o] =
                       [name |-> image[o].name, status |-> status, output |-> "vhdx"]]
      BY <2>3 DEF BuildImage
    <3>3. /\ image' \in Seq(Image) /\ Len(image') = Len(image)
          /\ image'[o].name = image[o].name
          /\ \A p \in Made \ {o} : image'[p] = image[p]
      BY <3>1, <3>2 DEF Image, ImageStatus
    <3> QED BY <2>3, <3>1, <3>3 DEF BuildImage
  <2>4. ASSUME NEW o \in Made, BuildFails(o) PROVE DiskInv'
    <3>1. image[o] \in Image /\ image[o].name \in ImageNames
      <4>1. image[o] \in Image
        OBVIOUS
      <4> QED BY <4>1 DEF Image
    <3>2. image' = [image EXCEPT ![o] =
                       [name |-> image[o].name, status |-> "FAILED", output |-> @.output]]
      BY <2>4 DEF BuildFails
    <3>3. /\ image' \in Seq(Image) /\ Len(image') = Len(image)
          /\ image'[o].name = image[o].name /\ image'[o].status = "FAILED"
          /\ \A p \in Made \ {o} : image'[p] = image[p]
      BY <3>1, <3>2 DEF Image, ImageStatus
    <3>4. /\ vhdx' \in [ImageNames -> Nat]
          /\ \A n \in ImageNames : vhdx[n] # 0 => vhdx'[n] = vhdx[n]
      <4>1. CASE UNCHANGED vhdx
        BY <4>1
      <4>2. CASE vhdx[image[o].name] = 0 /\ vhdx' = [vhdx EXCEPT ![image[o].name] = o]
        BY <4>2, <3>1
      <4> QED BY <2>4, <4>1, <4>2 DEF BuildFails
    <3>5. UNCHANGED images
      BY <2>4 DEF BuildFails
    <3> QED BY <3>3, <3>4, <3>5
  <2>5. CASE UNCHANGED imageVars
    BY <2>5 DEF imageVars
  <2> QED BY <2>1, <2>2, <2>3, <2>4, <2>5 DEF ImagesNext
<1>3. DiskInv => ReadyIsOnDisk
  BY DEF DiskInv
<1> QED BY <1>1, <1>2, <1>3, PTL DEF ImagesSpec
=============================================================================
