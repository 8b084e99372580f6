---------------------------- MODULE BunkerProofs ----------------------------
(***************************************************************************)
(* Theorems about Bunker, for every set of objects and threads, every      *)
(* number of layers and every choice of failures.                          *)
(***************************************************************************)
EXTENDS BunkerProperties, TLAPS

Pcs == InitPcs \cup ActPcs \cup TermPcs \cup QuarPcs

FrameOK ==
  /\ frame \in [Threads -> Frame]
  /\ \A t \in Threads : frame[t].pc # "idle" => frame[t].o \in Objects

-----------------------------------------------------------------------------
(* Typing of the pieces the actions are built from.                        *)

LEMMA GotoType ==
  ASSUME FrameOK, NEW t \in Threads, frame[t].pc # "idle", NEW l \in Pcs,
         Goto(t, l)
  PROVE  FrameOK'
BY DEF FrameOK, Goto, Frame, Pcs

LEMMA FrameUpdateType ==
  ASSUME FrameOK, NEW t \in Threads, NEW f \in Frame, f.pc # "idle",
         f.o \in Objects, frame' = [frame EXCEPT ![t] = f]
  PROVE  FrameOK'
BY DEF FrameOK

LEMMA InstUpdateType ==
  ASSUME TypeOK, NEW o \in Objects, NEW v \in Instance,
         inst' = [inst EXCEPT ![o] = v]
  PROVE  inst' \in [Objects -> Instance]
BY DEF TypeOK

LEMMA ReturnType ==
  ASSUME FrameOK, NEW t \in Threads, NEW r, Return(t, r)
  PROVE  FrameOK'
<1> DEFINE answer == IF r \in Answers THEN r ELSE "none"
           back   == [Idle EXCEPT !.result = answer]
<1>1. answer \in {"none", "true", "false", "raised"}
  BY BunkerAssumption DEF BunkerAssumption
<1>2. 0 \in 0..NumLayers
  BY BunkerAssumption DEF BunkerAssumption
<1>3. back \in Frame /\ back.pc = "idle"
  <2> HIDE DEF answer
  <2> QED BY <1>1, <1>2 DEF Frame, Idle
<1>4. frame' = [frame EXCEPT ![t] = back]
  BY DEF Return
<1> QED
  <2> HIDE DEF back
  <2> QED BY <1>3, <1>4 DEF FrameOK

LEMMA TransitionToType ==
  ASSUME TypeOK, NEW o \in Objects, NEW s \in States!BunkerState,
         TransitionTo(o, s)
  PROVE  /\ state' \in [Objects -> States!BunkerState]
         /\ row' \in [Ids -> Record]
<1> DEFINE rec == [state |-> s, vm |-> inst[o].vm, switch |-> inst[o].switch]
<1>1. rec \in Record /\ idOf[o] \in Ids
  BY DEF TypeOK, Instance, Record
<1>2. row' = [row EXCEPT ![idOf[o]] = rec] \/ row' = row
  BY DEF TransitionTo, Persist
<1>3. row' \in [Ids -> Record]
  <2> HIDE DEF rec
  <2> QED BY <1>1, <1>2 DEF TypeOK
<1>4. state' = [state EXCEPT ![o] = s] \/ state' = state
  BY DEF TransitionTo, States!Move
<1> QED
  BY <1>3, <1>4 DEF TypeOK

LEMMA RemovalType ==
  ASSUME TypeOK, NEW i \in Ids, NEW res, NEW f, NEW ok \in BOOLEAN,
         Removal(i, res, f, ok)
  PROVE  host' \in [Ids -> SUBSET Resources]
BY DEF TypeOK, Removal

LEMMA RemoveVmType ==
  ASSUME TypeOK, NEW i \in Ids, NEW f, NEW ok \in BOOLEAN, RemoveVm(i, f, ok)
  PROVE  host' \in [Ids -> SUBSET Resources]
BY DEF TypeOK, RemoveVm

LEMMA DeconStepType ==
  ASSUME TypeOK, NEW t \in Threads, frame[t].pc # "idle", NEW l \in Pcs,
         NEW ok \in BOOLEAN, DeconStep(t, l, ok)
  PROVE  FrameOK'
<1> DEFINE all == frame[t].ok /\ ok
<1>1. all \in BOOLEAN
  OBVIOUS
<1> DEFINE f == [frame[t] EXCEPT !.pc = l, !.ok = all]
<1>2. frame' = [frame EXCEPT ![t] = f]
  BY DEF DeconStep
<1>3. f \in Frame /\ f.pc # "idle" /\ f.o \in Objects
  <2>1. frame[t] \in Frame /\ frame[t].o \in Objects
    BY DEF TypeOK
  <2>2. l # "idle"
    BY DEF Pcs, InitPcs, ActPcs, TermPcs, QuarPcs
  <2> HIDE DEF all
  <2> QED BY <1>1, <2>1, <2>2 DEF Frame, Pcs
<1> QED
  <2> HIDE DEF f
  <2> QED BY <1>2, <1>3, FrameUpdateType DEF TypeOK, FrameOK

-----------------------------------------------------------------------------
(* Every step keeps the types.                                             *)

LEMMA CallType ==
  ASSUME TypeOK, NEW t \in Threads, NEW o \in Objects, NEW e \in Entry,
         Call(t, o, e)
  PROVE  TypeOK'
<1>1. 0 \in 0..NumLayers
  BY BunkerAssumption DEF BunkerAssumption
<1>2. [Idle EXCEPT !.pc = e, !.o = o] \in Frame
  BY <1>1 DEF Frame, Idle, Entry, InitPcs, ActPcs, TermPcs, QuarPcs
<1>3. FrameOK'
  BY <1>2 DEF TypeOK, FrameOK, Call, Idle
<1> QED
  BY <1>3 DEF TypeOK, FrameOK, Call

LEMMA InitStepType ==
  ASSUME TypeOK, NEW t \in Threads, InitStep(t)
  PROVE  TypeOK'
<1> USE DEF At, Self
<1>f. FrameOK
  BY DEF TypeOK, FrameOK
<1>p. frame[t].pc \in InitPcs /\ frame[t].pc # "idle"
  BY DEF InitStep, InitBegin, InitRaise, InitVerify, InitSwitch, InitVm,
         InitGuest, InitReady, CleanVm, CleanSwitch, CleanDisk, InitError,
         InitPcs
<1>o. Self(t) \in Objects /\ idOf[Self(t)] \in Ids
  BY <1>p DEF TypeOK
<1>1. CASE InitBegin(t)
  <2>1. FrameOK'
    BY <1>1, <1>f, <1>p, GotoType, ReturnType
    DEF InitBegin, Transition, Pcs, InitPcs
  <2>2. "INITIALIZING" \in States!BunkerState
    BY DEF States!BunkerState
  <2>3. /\ state' \in [Objects -> States!BunkerState]
        /\ row' \in [Ids -> Record]
    BY <1>1, <1>o, <2>2, TransitionToType DEF InitBegin, Transition, TypeOK
  <2> QED BY <1>1, <2>1, <2>3 DEF InitBegin, TypeOK, FrameOK
<1>2. CASE InitRaise(t)
  <2>1. FrameOK'
    BY <1>2, <1>f, <1>p, GotoType DEF InitRaise, FrameOK, Frame, Pcs, InitPcs
  <2> QED BY <1>2, <2>1 DEF InitRaise, TypeOK, FrameOK
<1>3. CASE InitVerify(t)
  <2>1. FrameOK'
    BY <1>3, <1>f, <1>p, GotoType, ReturnType DEF InitVerify, Pcs, InitPcs
  <2> QED BY <1>3, <1>o, <2>1 DEF InitVerify, TypeOK, FrameOK, Instance
<1>4. CASE InitSwitch(t)
  <2>1. FrameOK'
    BY <1>4, <1>f, <1>p, GotoType DEF InitSwitch, Pcs, InitPcs
  <2>2. host' \in [Ids -> SUBSET Resources]
    BY <1>4, <1>o DEF InitSwitch, TypeOK, Resources
  <2> QED BY <1>4, <1>o, <2>1, <2>2 DEF InitSwitch, TypeOK, FrameOK, Instance
<1>5. CASE InitVm(t)
  <2>1. FrameOK'
    BY <1>5, <1>f, <1>p, GotoType DEF InitVm, Pcs, InitPcs
  <2>2. host' \in [Ids -> SUBSET Resources]
    <3>1. PICK disk \in SUBSET {"disk"}, vm \in SUBSET {"vm"} :
            host' = [host EXCEPT ![idOf[Self(t)]] = @ \cup vm \cup disk]
      BY <1>5 DEF InitVm
    <3> QED BY <3>1, <1>o DEF TypeOK, Resources
  <2>3. inst' \in [Objects -> Instance]
    <3>1. inst' = [inst EXCEPT ![Self(t)].vm = TRUE] \/ inst' = inst
      BY <1>5 DEF InitVm
    <3> DEFINE v == [inst[Self(t)] EXCEPT !.vm = TRUE]
    <3>2. inst[Self(t)] \in Instance
      BY <1>o DEF TypeOK
    <3>3. v \in Instance
      BY <3>2 DEF Instance
    <3>4. inst' = [inst EXCEPT ![Self(t)] = v] \/ inst' = inst
      BY <3>1
    <3> HIDE DEF v
    <3> QED BY <3>3, <3>4, <1>o, InstUpdateType DEF TypeOK
  <2> QED BY <1>5, <2>1, <2>2, <2>3 DEF InitVm, TypeOK, FrameOK
<1>6. CASE InitGuest(t)
  <2>1. FrameOK'
    BY <1>6, <1>f, <1>p, GotoType, ReturnType DEF InitGuest, Pcs, InitPcs
  <2> QED BY <1>6, <1>o, <2>1 DEF InitGuest, TypeOK, FrameOK, Instance
<1>7. CASE InitReady(t)
  <2>1. FrameOK'
    BY <1>7, <1>f, <1>p, GotoType, ReturnType
    DEF InitReady, Pcs, InitPcs
  <2>2. "READY" \in States!BunkerState
    BY DEF States!BunkerState
  <2>3. /\ state' \in [Objects -> States!BunkerState]
        /\ row' \in [Ids -> Record]
    BY <1>7, <1>o, <2>2, TransitionToType DEF InitReady, TypeOK
  <2> QED BY <1>7, <2>1, <2>3 DEF InitReady, TypeOK, FrameOK
<1>8. CASE CleanVm(t)
  <2>1. FrameOK'
    BY <1>8, <1>f, <1>p, GotoType DEF CleanVm, Pcs, InitPcs
  <2>2. host' \in [Ids -> SUBSET Resources]
    BY <1>8, <1>o, RemovalType, RemoveVmType DEF CleanVm, TypeOK
  <2> QED BY <1>8, <1>o, <2>1, <2>2 DEF CleanVm, TypeOK, FrameOK, Instance
<1>9. CASE CleanSwitch(t)
  <2>1. FrameOK'
    BY <1>9, <1>f, <1>p, GotoType DEF CleanSwitch, Pcs, InitPcs
  <2>2. host' \in [Ids -> SUBSET Resources]
    BY <1>9, <1>o, RemovalType, RemoveVmType DEF CleanSwitch, TypeOK
  <2> QED BY <1>9, <1>o, <2>1, <2>2 DEF CleanSwitch, TypeOK, FrameOK, Instance
<1>10. CASE CleanDisk(t)
  <2>1. FrameOK'
    BY <1>10, <1>f, <1>p, GotoType DEF CleanDisk, Pcs, InitPcs
  <2>2. host' \in [Ids -> SUBSET Resources]
    BY <1>10, <1>o, RemovalType, RemoveVmType DEF CleanDisk, TypeOK
  <2> QED BY <1>10, <1>o, <2>1, <2>2 DEF CleanDisk, TypeOK, FrameOK, Instance
<1>11. CASE InitError(t)
  <2>1. FrameOK'
    BY <1>11, <1>f, <1>p, GotoType, ReturnType
    DEF InitError, LastTransition, Pcs, InitPcs
  <2>2. "ERROR" \in States!BunkerState
    BY DEF States!BunkerState
  <2>3. /\ state' \in [Objects -> States!BunkerState]
        /\ row' \in [Ids -> Record]
    BY <1>11, <1>o, <2>2, TransitionToType DEF InitError, LastTransition, TypeOK
  <2> QED BY <1>11, <2>1, <2>3 DEF InitError, TypeOK, FrameOK
<1> QED
  BY <1>1, <1>2, <1>3, <1>4, <1>5, <1>6, <1>7, <1>8, <1>9, <1>10, <1>11 DEF InitStep

LEMMA ActStepType ==
  ASSUME TypeOK, NEW t \in Threads, ActStep(t)
  PROVE  TypeOK'
<1> USE DEF At, Self
<1>f. FrameOK
  BY DEF TypeOK, FrameOK
<1>p. frame[t].pc \in ActPcs /\ frame[t].pc # "idle"
  BY DEF ActStep, ActCheck, ActBegin, ActLayer, ActRollback, ActLayersDone,
         ActMonitor, ActError,
         ActPcs
<1>o. Self(t) \in Objects /\ idOf[Self(t)] \in Ids
  BY <1>p DEF TypeOK
<1>1. CASE ActCheck(t)
  <2>1. FrameOK'
    BY <1>1, <1>f, <1>p, GotoType, ReturnType DEF ActCheck, Pcs, ActPcs
  <2> QED BY <1>1, <1>o, <2>1 DEF ActCheck, TypeOK, FrameOK, Instance
<1>2. CASE ActBegin(t)
  <2>1. FrameOK'
    BY <1>2, <1>f, <1>p, GotoType, ReturnType
    DEF ActBegin, Pcs, ActPcs
  <2>2. "ACTIVE" \in States!BunkerState
    BY DEF States!BunkerState
  <2>3. /\ state' \in [Objects -> States!BunkerState]
        /\ row' \in [Ids -> Record]
    BY <1>2, <1>o, <2>2, TransitionToType DEF ActBegin, TypeOK
  <2> QED BY <1>2, <2>1, <2>3 DEF ActBegin, TypeOK, FrameOK
<1>3. CASE ActLayer(t)
  <2>1. FrameOK'
    <3>1. CASE Goto(t, "act_rollback")
      BY <3>1, <1>f, <1>p, GotoType DEF Pcs, ActPcs
    <3>2. CASE frame' = [frame EXCEPT ![t].layer = frame[t].layer + 1]
      <4>1. frame[t].layer + 1 \in 0..NumLayers
        BY <1>3, <1>f, BunkerAssumption
        DEF ActLayer, FrameOK, Frame, BunkerAssumption
      <4> QED BY <3>2, <4>1, <1>f DEF FrameOK, Frame
    <3> QED BY <3>1, <3>2, <1>3 DEF ActLayer
  <2>2. inst' \in [Objects -> Instance]
    <3> DEFINE next == frame[t].layer + 1
               v(l) == [inst[Self(t)] EXCEPT !.layers = l]
    <3>1. next \in Layers
      BY <1>3, <1>f, BunkerAssumption
      DEF ActLayer, FrameOK, Frame, Layers, BunkerAssumption
    <3>2. \E l \in SUBSET Layers : inst' = [inst EXCEPT ![Self(t)] = v(l)]
      <4>1. /\ inst[Self(t)].layers \cup {next} \in SUBSET Layers
            /\ inst[Self(t)].layers \ {next} \in SUBSET Layers
        BY <3>1, <1>o DEF TypeOK, Instance
      <4> QED BY <4>1, <1>3 DEF ActLayer
    <3>3. \A l \in SUBSET Layers : v(l) \in Instance
      BY <1>o DEF TypeOK, Instance
    <3> HIDE DEF v
    <3> QED BY <3>2, <3>3, <1>o, InstUpdateType
  <2> QED BY <1>3, <2>1, <2>2 DEF ActLayer, TypeOK, FrameOK
<1>4. CASE ActRollback(t)
  <2>1. FrameOK'
    BY <1>4, <1>f, <1>p, GotoType, BunkerAssumption
    DEF ActRollback, FrameOK, Frame, Pcs, ActPcs, BunkerAssumption
  <2>2. inst' \in [Objects -> Instance]
    BY <1>4, <1>o DEF ActRollback, TypeOK, Instance, Layers
  <2> QED BY <1>4, <2>1, <2>2 DEF ActRollback, TypeOK, FrameOK
<1>5. CASE ActLayersDone(t)
  <2>1. FrameOK'
    BY <1>5, <1>f, <1>p, GotoType, ReturnType DEF ActLayersDone, Pcs, ActPcs
  <2> QED BY <1>5, <1>o, <2>1 DEF ActLayersDone, TypeOK, FrameOK, Instance
<1>6. CASE ActMonitor(t)
  <2>1. FrameOK'
    BY <1>6, <1>f, <1>p, GotoType, ReturnType DEF ActMonitor, Pcs, ActPcs
  <2>2. inst' \in [Objects -> Instance]
    <3> DEFINE v(b) == [inst[Self(t)] EXCEPT !.monitoring = TRUE,
                                             !.session = b]
    <3>1. \E b \in BOOLEAN : inst' = [inst EXCEPT ![Self(t)] = v(b)]
      <4>1. CASE \E started \in BOOLEAN :
                   inst' = [inst EXCEPT
                              ![Self(t)].monitoring = TRUE,
                              ![Self(t)].session = started \/ @]
        <5>1. PICK started \in BOOLEAN :
                inst' = [inst EXCEPT ![Self(t)].monitoring = TRUE,
                                     ![Self(t)].session = started \/ @]
          BY <4>1
        <5>2. (started \/ inst[Self(t)].session) \in BOOLEAN
          OBVIOUS
        <5>3. inst' = [inst EXCEPT
                         ![Self(t)] = v(started \/ inst[Self(t)].session)]
          BY <5>1
        <5> HIDE DEF v
        <5> QED BY <5>2, <5>3
      <4>2. CASE inst' = [inst EXCEPT ![Self(t)].monitoring = TRUE,
                                      ![Self(t)].session = TRUE]
        <5>1. inst' = [inst EXCEPT ![Self(t)] = v(TRUE)]
          BY <4>2
        <5> HIDE DEF v
        <5> QED BY <5>1
      <4> QED BY <1>6, <4>1, <4>2 DEF ActMonitor
    <3>2. ASSUME NEW b \in BOOLEAN PROVE v(b) \in Instance
      <4>1. inst[Self(t)] \in Instance
        BY <1>o DEF TypeOK
      <4> QED BY <4>1 DEF Instance
    <3> HIDE DEF v
    <3> QED BY <3>1, <3>2, <1>o, InstUpdateType
  <2> QED BY <1>6, <2>1, <2>2 DEF ActMonitor, TypeOK, FrameOK
<1>7. CASE ActError(t)
  <2>1. FrameOK'
    BY <1>7, <1>f, <1>p, GotoType, ReturnType
    DEF ActError, LastTransition, Pcs, ActPcs
  <2>2. "ERROR" \in States!BunkerState
    BY DEF States!BunkerState
  <2>3. /\ state' \in [Objects -> States!BunkerState]
        /\ row' \in [Ids -> Record]
    BY <1>7, <1>o, <2>2, TransitionToType DEF ActError, LastTransition, TypeOK
  <2> QED BY <1>7, <2>1, <2>3 DEF ActError, TypeOK, FrameOK
<1> QED
  BY <1>1, <1>2, <1>3, <1>4, <1>5, <1>6, <1>7 DEF ActStep

LEMMA TermStepType ==
  ASSUME TypeOK, NEW t \in Threads, TermStep(t)
  PROVE  TypeOK'
<1> USE DEF At, Self
<1>f. FrameOK
  BY DEF TypeOK, FrameOK
<1>p. frame[t].pc \in TermPcs /\ frame[t].pc # "idle"
  BY DEF TermStep, TermCheck, TermBegin, TermStop, TermLayers, TermPower,
         TermDecon, DeconPower, DeconDisk, DeconSwitch, DeconVm, DeconVerify,
         TermEnd, TermError,
         TermPcs
<1>o. Self(t) \in Objects /\ idOf[Self(t)] \in Ids
  BY <1>p DEF TypeOK
<1>1. CASE TermCheck(t)
  <2>1. FrameOK'
    BY <1>1, <1>f, <1>p, GotoType, ReturnType DEF TermCheck, Pcs, TermPcs
  <2> QED BY <1>1, <1>o, <2>1 DEF TermCheck, TypeOK, FrameOK, Instance
<1>2. CASE TermBegin(t)
  <2>1. FrameOK'
    BY <1>2, <1>f, <1>p, GotoType, ReturnType
    DEF TermBegin, Transition, Pcs, TermPcs
  <2>2. "TERMINATING" \in States!BunkerState
    BY DEF States!BunkerState
  <2>3. /\ state' \in [Objects -> States!BunkerState]
        /\ row' \in [Ids -> Record]
    BY <1>2, <1>o, <2>2, TransitionToType DEF TermBegin, Transition, TypeOK
  <2> QED BY <1>2, <2>1, <2>3 DEF TermBegin, TypeOK, FrameOK
<1>3. CASE TermStop(t)
  <2>1. FrameOK'
    BY <1>3, <1>f, <1>p, GotoType, ReturnType DEF TermStop, Pcs, TermPcs
  <2> QED BY <1>3, <1>o, <2>1 DEF TermStop, TypeOK, FrameOK, Instance
<1>4. CASE TermLayers(t)
  <2>1. FrameOK'
    BY <1>4, <1>f, <1>p, GotoType, BunkerAssumption
    DEF TermLayers, FrameOK, Frame, Pcs, TermPcs, BunkerAssumption
  <2>2. inst' \in [Objects -> Instance]
    BY <1>4, <1>o DEF TermLayers, TypeOK, Instance, Layers
  <2> QED BY <1>4, <2>1, <2>2 DEF TermLayers, TypeOK, FrameOK
<1>5. CASE TermPower(t)
  <2>1. FrameOK'
    BY <1>5, <1>f, <1>p, GotoType, ReturnType DEF TermPower, Pcs, TermPcs
  <2>2. inst' \in [Objects -> Instance]
    <3>1. inst' = [inst EXCEPT ![Self(t)].session = FALSE] \/ inst' = inst
      BY <1>5 DEF TermPower
    <3> DEFINE v == [inst[Self(t)] EXCEPT !.session = FALSE]
    <3>2. inst[Self(t)] \in Instance
      BY <1>o DEF TypeOK
    <3>3. v \in Instance
      BY <3>2 DEF Instance
    <3>4. inst' = [inst EXCEPT ![Self(t)] = v] \/ inst' = inst
      BY <3>1
    <3> HIDE DEF v
    <3> QED BY <3>3, <3>4, <1>o, InstUpdateType DEF TypeOK
  <2> QED BY <1>5, <2>1, <2>2 DEF TermPower, TypeOK, FrameOK
<1>6. CASE TermDecon(t)
  <2>1. FrameOK'
    <3> DEFINE named == inst[Self(t)].vm
    <3>1. named \in BOOLEAN
      BY <1>o DEF TypeOK, Instance
    <3>2. \/ frame' = [frame EXCEPT ![t].pc = "decon_power", ![t].ok = TRUE,
                                    ![t].vm = named]
          \/ Goto(t, "term_error")
      BY <1>6 DEF TermDecon
    <3> HIDE DEF named
    <3>3. CASE Goto(t, "term_error")
      BY <3>3, <1>f, <1>p, GotoType DEF Pcs, TermPcs
    <3>4. CASE frame' = [frame EXCEPT ![t].pc = "decon_power",
                                      ![t].ok = TRUE, ![t].vm = named]
      <4> DEFINE f == [frame[t] EXCEPT !.pc = "decon_power", !.ok = TRUE,
                                       !.vm = named]
      <4>1. frame' = [frame EXCEPT ![t] = f]
        BY <3>4
      <4>2. f \in Frame /\ f.pc # "idle" /\ f.o \in Objects
        BY <3>1, <1>f, <1>o DEF FrameOK, Frame, TermPcs
      <4> HIDE DEF f
      <4> QED BY <4>1, <4>2, <1>f, FrameUpdateType
    <3> QED BY <3>2, <3>3, <3>4
  <2>2. "DECONTAMINATING" \in States!BunkerState
    BY DEF States!BunkerState
  <2>3. /\ state' \in [Objects -> States!BunkerState]
        /\ row' \in [Ids -> Record]
    BY <1>6, <1>o, <2>2, TransitionToType DEF TermDecon, TypeOK
  <2> QED BY <1>6, <2>1, <2>3 DEF TermDecon, TypeOK, FrameOK
<1>7. CASE DeconPower(t)
  <2>1. FrameOK'
    BY <1>7, <1>p, DeconStepType DEF DeconPower, Pcs, TermPcs
  <2>2. host' \in [Ids -> SUBSET Resources]
    BY <1>7, <1>o, RemovalType, RemoveVmType DEF DeconPower, TypeOK
  <2> QED BY <1>7, <2>1, <2>2 DEF DeconPower, DeconStep, TypeOK, FrameOK
<1>8. CASE DeconDisk(t)
  <2>1. FrameOK'
    BY <1>8, <1>p, DeconStepType DEF DeconDisk, Pcs, TermPcs
  <2>2. host' \in [Ids -> SUBSET Resources]
    BY <1>8, <1>o, RemovalType, RemoveVmType DEF DeconDisk, TypeOK
  <2> QED BY <1>8, <2>1, <2>2 DEF DeconDisk, DeconStep, TypeOK, FrameOK
<1>9. CASE DeconSwitch(t)
  <2>1. FrameOK'
    BY <1>9, <1>p, DeconStepType DEF DeconSwitch, Pcs, TermPcs
  <2>2. host' \in [Ids -> SUBSET Resources]
    BY <1>9, <1>o, RemovalType, RemoveVmType DEF DeconSwitch, TypeOK
  <2> QED BY <1>9, <2>1, <2>2 DEF DeconSwitch, DeconStep, TypeOK, FrameOK
<1>10. CASE DeconVm(t)
  <2>1. FrameOK'
    BY <1>10, <1>p, DeconStepType DEF DeconVm, Pcs, TermPcs
  <2>2. host' \in [Ids -> SUBSET Resources]
    <3>1. host' = host \/ \E ok \in BOOLEAN : RemoveVm(idOf[Self(t)],
          "decon_vm", ok)
      BY <1>10 DEF DeconVm
    <3> QED BY <3>1, <1>o, RemoveVmType DEF TypeOK
  <2> QED BY <1>10, <2>1, <2>2 DEF DeconVm, DeconStep, TypeOK, FrameOK
<1>11. CASE DeconVerify(t)
  <2>1. PICK ok \in BOOLEAN :
                 DeconStep(t, "term_end", ok /\ inst[Self(t)].baseline)
    BY <1>11 DEF DeconVerify
  <2>2. (ok /\ inst[Self(t)].baseline) \in BOOLEAN
    OBVIOUS
  <2>3. FrameOK'
    BY <1>p, <2>1, <2>2, DeconStepType DEF Pcs, TermPcs
  <2> QED BY <1>11, <2>3 DEF DeconVerify, DeconStep, TypeOK, FrameOK
<1>12. CASE TermEnd(t)
  <2>1. FrameOK'
    BY <1>12, <1>f, <1>p, GotoType, ReturnType DEF TermEnd, Pcs, TermPcs
  <2>2. {"DESTROYED", "ERROR"} \subseteq States!BunkerState
    BY DEF States!BunkerState
  <2>3. /\ state' \in [Objects -> States!BunkerState]
        /\ row' \in [Ids -> Record]
    BY <1>12, <1>o, <2>2, TransitionToType DEF TermEnd, TypeOK
  <2> QED BY <1>12, <2>1, <2>3 DEF TermEnd, TypeOK, FrameOK
<1>13. CASE TermError(t)
  <2>1. FrameOK'
    BY <1>13, <1>f, <1>p, GotoType, ReturnType
    DEF TermError, LastTransition, Pcs, TermPcs
  <2>2. "ERROR" \in States!BunkerState
    BY DEF States!BunkerState
  <2>3. /\ state' \in [Objects -> States!BunkerState]
        /\ row' \in [Ids -> Record]
    BY <1>13, <1>o, <2>2, TransitionToType DEF TermError, LastTransition, TypeOK
  <2> QED BY <1>13, <2>1, <2>3 DEF TermError, TypeOK, FrameOK
<1> QED
  BY <1>1, <1>2, <1>3, <1>4, <1>5, <1>6, <1>7, <1>8, <1>9, <1>10, <1>11,
     <1>12, <1>13 DEF TermStep

LEMMA QuarStepType ==
  ASSUME TypeOK, NEW t \in Threads, QuarStep(t)
  PROVE  TypeOK'
<1> USE DEF At, Self
<1>f. FrameOK
  BY DEF TypeOK, FrameOK
<1>p. frame[t].pc \in QuarPcs /\ frame[t].pc # "idle"
  BY DEF QuarStep, QuarBegin, QuarStop,
         QuarPcs
<1>o. Self(t) \in Objects /\ idOf[Self(t)] \in Ids
  BY <1>p DEF TypeOK
<1>1. CASE QuarBegin(t)
  <2>1. FrameOK'
    BY <1>1, <1>f, <1>p, GotoType, ReturnType
    DEF QuarBegin, Pcs, QuarPcs
  <2>2. "QUARANTINE" \in States!BunkerState
    BY DEF States!BunkerState
  <2>3. /\ state' \in [Objects -> States!BunkerState]
        /\ row' \in [Ids -> Record]
    BY <1>1, <1>o, <2>2, TransitionToType DEF QuarBegin, TypeOK
  <2> QED BY <1>1, <2>1, <2>3 DEF QuarBegin, TypeOK, FrameOK
<1>2. CASE QuarStop(t)
  <2>1. FrameOK'
    BY <1>2, <1>f, <1>p, GotoType, ReturnType DEF QuarStop, Pcs, QuarPcs
  <2> QED BY <1>2, <1>o, <2>1 DEF QuarStop, TypeOK, FrameOK, Instance
<1> QED
  BY <1>1, <1>2 DEF QuarStep

LEMMA NextType == TypeOK /\ [Next]_vars => TypeOK'
<1> SUFFICES ASSUME TypeOK, [Next]_vars PROVE TypeOK'
  OBVIOUS
<1>1. CASE Next
  BY <1>1, CallType, InitStepType, ActStepType, TermStepType, QuarStepType
  DEF Next, Step
<1>2. CASE UNCHANGED vars
  BY <1>2 DEF vars, TypeOK
<1> QED
  BY <1>1, <1>2

LEMMA InitType == Init => TypeOK
<1> SUFFICES ASSUME Init PROVE TypeOK
  OBVIOUS
<1>1. 0 \in 0..NumLayers
  BY BunkerAssumption DEF BunkerAssumption
<1>2. Idle \in Frame /\ Fresh \in Instance /\ NoRow \in Record
  BY <1>1 DEF Idle, Frame, Fresh, Instance, NoRow, Record
<1> QED
  BY <1>2 DEF Init, TypeOK, Idle, States!BunkerState

\* Every variable keeps its type, whatever the threads call and whatever fails.
THEOREM TypeCorrect == Spec => []TypeOK
BY InitType, NextType, PTL DEF Spec

LEMMA StepInside ==
  ASSUME TypeOK, NEW t \in Threads, Step(t)
  PROVE  frame[t].pc # "idle"
BY DEF Step, InitStep, ActStep, TermStep, QuarStep, At,
       InitBegin, InitRaise, InitVerify, InitSwitch, InitVm, InitGuest,
       InitReady, CleanVm, CleanSwitch, CleanDisk, InitError,
       ActCheck, ActBegin, ActLayer, ActRollback, ActLayersDone, ActMonitor,
       ActError, TermCheck, TermBegin, TermStop, TermLayers, TermPower,
       TermDecon, DeconPower, DeconDisk, DeconSwitch, DeconVm, DeconVerify,
       TermEnd, TermError, QuarBegin, QuarStop

-----------------------------------------------------------------------------
(* The inductive invariant behind TransientOwned and ActiveIsLayered.      *)

InitOwner == InitPcs \ {"init_begin"}

\* places from which a thread may strip layers, and leaves ACTIVE behind
Disturbing == {"act_rollback", "act_error"} \cup Terminating

\* a thread that is still switching the layers on, none of them lost so far
Arming(t) ==
  \/ At(t, "act_layers") /\ 1..frame[t].layer \subseteq inst[Self(t)].layers
  \/ At(t, "act_monitor") /\ Layers \subseteq inst[Self(t)].layers

Armed(o) == inst[o].layers = Layers /\ inst[o].session

Guarded(o) ==
  state[o] = "ACTIVE" =>
    \/ \E t \in Threads : In(t, o, Disturbing)
    \/ \E t \in Threads : Self(t) = o /\ Arming(t)
    \/ Armed(o)

\* activate has no layer done before it begins
FreshStart ==
  \A t \in Threads :
    frame[t].pc \in {"act_check", "act_begin"} => frame[t].layer = 0

BunkerInv ==
  TypeOK /\ TransientOwned /\ FreshStart /\ \A o \in Objects : Guarded(o)
-----------------------------------------------------------------------------
(* What one step of thread t, inside a method of o, does to the invariant. *)

\* only t's frame and o change
Local(t, o) ==
  /\ \A u \in Threads \ {t} : frame'[u] = frame[u]
  /\ \A p \in Objects \ {o} : state'[p] = state[p] /\ inst'[p] = inst[p]
  /\ frame'[t].pc \in {"act_check", "act_begin"} => frame'[t].layer = 0

\* a state in S after the step has t at a place of owners, or t never owned it
Owns(t, o, S, owners) ==
  state'[o] \in S =>
    \/ In(t, o, owners)'
    \/ state[o] \in S /\ frame[t].pc \notin owners

\* ACTIVE after the step is guarded by t, or as well guarded as before
KeepsGuard(t, o) ==
  /\ inst[o].layers \subseteq inst'[o].layers \/ In(t, o, Disturbing)'
  /\ state'[o] = "ACTIVE" =>
       \/ In(t, o, Disturbing)'
       \/ (Self(t) = o /\ Arming(t))'
       \/ Armed(o)'
       \/ /\ state[o] = "ACTIVE"
          /\ frame[t].pc \notin Disturbing /\ ~Arming(t)
          /\ inst[o].layers \subseteq inst'[o].layers
          /\ inst[o].session => inst'[o].session

Facts(t, o) ==
  /\ Local(t, o)
  /\ Owns(t, o, {"INITIALIZING"}, InitOwner)
  /\ Owns(t, o, {"TERMINATING", "DECONTAMINATING"}, Terminating)
  /\ KeepsGuard(t, o)

LEMMA InitStepFacts ==
  ASSUME TypeOK, FreshStart, NEW t \in Threads, InitStep(t),
         NEW o \in Objects, Self(t) = o
  PROVE  Facts(t, o)
<1> USE DEF At, Self, Goto, In
<1>p. frame[t].pc \in InitPcs /\ frame[t].pc # "idle"
  BY DEF InitStep, InitBegin, InitRaise, InitVerify, InitSwitch, InitVm,
         InitGuest, InitReady, CleanVm, CleanSwitch, CleanDisk, InitError,
         InitPcs
<1>o. /\ frame[t].o = o /\ inst[o] \in Instance /\ inst \in [Objects -> Instance]
      /\ state \in [Objects -> States!BunkerState]
      /\ frame \in [Threads -> Frame]
  BY <1>p DEF TypeOK
<1>1. CASE InitBegin(t)
  <2>1. Local(t, o)
    BY <1>1, <1>o DEF InitBegin, Transition, TransitionTo, Refused,
       States!Move, Local, Frame, FreshStart
  <2>2. /\ Owns(t, o, {"INITIALIZING"}, InitOwner)
        /\ Owns(t, o, {"TERMINATING", "DECONTAMINATING"}, Terminating)
    BY <1>1, <1>o
    DEF InitBegin, Transition, TransitionTo, Refused, States!Move, States!ValidNext,
        Owns, Frame, InitOwner, Terminating, InitPcs, TermPcs
  <2>3. KeepsGuard(t, o)
    BY <1>1, <1>o
    DEF InitBegin, Transition, TransitionTo, Refused, States!Move, States!ValidNext,
        KeepsGuard, Arming, Armed, Frame, Instance, Disturbing,
        Terminating, TermPcs
  <2> QED BY <2>1, <2>2, <2>3 DEF Facts
<1>2. CASE InitRaise(t)
  <2>1. Local(t, o)
    BY <1>2, <1>o DEF InitRaise, Local, Frame, FreshStart
  <2>2. /\ Owns(t, o, {"INITIALIZING"}, InitOwner)
        /\ Owns(t, o, {"TERMINATING", "DECONTAMINATING"}, Terminating)
    BY <1>2, <1>o
    DEF InitRaise, Owns, Frame, InitOwner, Terminating, InitPcs, TermPcs
  <2>3. KeepsGuard(t, o)
    BY <1>2, <1>o
    DEF InitRaise, KeepsGuard, Arming, Armed, Frame, Instance, Disturbing,
        Terminating, TermPcs
  <2> QED BY <2>1, <2>2, <2>3 DEF Facts
<1>3. CASE InitVerify(t)
  <2>1. Local(t, o)
    BY <1>3, <1>o DEF InitVerify, Local, Frame, FreshStart
  <2>2. /\ Owns(t, o, {"INITIALIZING"}, InitOwner)
        /\ Owns(t, o, {"TERMINATING", "DECONTAMINATING"}, Terminating)
    BY <1>3, <1>o
    DEF InitVerify, Owns, Frame, InitOwner, Terminating, InitPcs, TermPcs
  <2>3. KeepsGuard(t, o)
    BY <1>3, <1>o
    DEF InitVerify, KeepsGuard, Arming, Armed, Frame, Instance, Disturbing,
        Terminating, TermPcs
  <2> QED BY <2>1, <2>2, <2>3 DEF Facts
<1>4. CASE InitSwitch(t)
  <2>1. Local(t, o)
    BY <1>4, <1>o DEF InitSwitch, Local, Frame, FreshStart
  <2>2. /\ Owns(t, o, {"INITIALIZING"}, InitOwner)
        /\ Owns(t, o, {"TERMINATING", "DECONTAMINATING"}, Terminating)
    BY <1>4, <1>o
    DEF InitSwitch, Owns, Frame, InitOwner, Terminating, InitPcs, TermPcs
  <2>3. KeepsGuard(t, o)
    BY <1>4, <1>o
    DEF InitSwitch, KeepsGuard, Arming, Armed, Frame, Instance, Disturbing,
        Terminating, TermPcs
  <2> QED BY <2>1, <2>2, <2>3 DEF Facts
<1>5. CASE InitVm(t)
  <2>1. Local(t, o)
    BY <1>5, <1>o DEF InitVm, Local, Frame, FreshStart
  <2>2. /\ Owns(t, o, {"INITIALIZING"}, InitOwner)
        /\ Owns(t, o, {"TERMINATING", "DECONTAMINATING"}, Terminating)
    BY <1>5, <1>o
    DEF InitVm, Owns, Frame, InitOwner, Terminating, InitPcs, TermPcs
  <2>3. KeepsGuard(t, o)
    <3>1. state' = state /\ frame[t].pc = "init_vm"
      BY <1>5 DEF InitVm
    <3>2. inst' = [inst EXCEPT ![o].vm = TRUE] \/ inst' = inst
      BY <1>5, <1>o DEF InitVm
    <3>3. inst'[o].layers = inst[o].layers /\ inst'[o].session = inst[o].session
      BY <3>2, <1>o DEF Instance
    <3> QED
      BY <3>1, <3>3 DEF KeepsGuard, Arming, Disturbing, Terminating, TermPcs
  <2> QED BY <2>1, <2>2, <2>3 DEF Facts
<1>6. CASE InitGuest(t)
  <2>1. Local(t, o)
    BY <1>6, <1>o DEF InitGuest, Local, Frame, FreshStart
  <2>2. /\ Owns(t, o, {"INITIALIZING"}, InitOwner)
        /\ Owns(t, o, {"TERMINATING", "DECONTAMINATING"}, Terminating)
    BY <1>6, <1>o
    DEF InitGuest, Owns, Frame, InitOwner, Terminating, InitPcs, TermPcs
  <2>3. KeepsGuard(t, o)
    BY <1>6, <1>o
    DEF InitGuest, KeepsGuard, Arming, Armed, Frame, Instance, Disturbing,
        Terminating, TermPcs
  <2> QED BY <2>1, <2>2, <2>3 DEF Facts
<1>7. CASE InitReady(t)
  <2>1. Local(t, o)
    BY <1>7, <1>o DEF InitReady, Return, TransitionTo, Refused, States!Move,
       Idle, Local, Frame, FreshStart
  <2>2. /\ Owns(t, o, {"INITIALIZING"}, InitOwner)
        /\ Owns(t, o, {"TERMINATING", "DECONTAMINATING"}, Terminating)
    BY <1>7, <1>o
    DEF InitReady, Return, TransitionTo, Refused, States!Move, States!ValidNext,
        Idle, Owns, Frame, InitOwner, Terminating, InitPcs, TermPcs
  <2>3. KeepsGuard(t, o)
    BY <1>7, <1>o
    DEF InitReady, Return, TransitionTo, Refused, States!Move, States!ValidNext,
        Idle, KeepsGuard, Arming, Armed, Frame, Instance, Disturbing,
        Terminating, TermPcs
  <2> QED BY <2>1, <2>2, <2>3 DEF Facts
<1>8. CASE CleanVm(t)
  <2>1. Local(t, o)
    BY <1>8, <1>o DEF CleanVm, Local, Frame, FreshStart
  <2>2. /\ Owns(t, o, {"INITIALIZING"}, InitOwner)
        /\ Owns(t, o, {"TERMINATING", "DECONTAMINATING"}, Terminating)
    BY <1>8, <1>o
    DEF CleanVm, Owns, Frame, InitOwner, Terminating, InitPcs, TermPcs
  <2>3. KeepsGuard(t, o)
    BY <1>8, <1>o
    DEF CleanVm, KeepsGuard, Arming, Armed, Frame, Instance, Disturbing,
        Terminating, TermPcs
  <2> QED BY <2>1, <2>2, <2>3 DEF Facts
<1>9. CASE CleanSwitch(t)
  <2>1. Local(t, o)
    BY <1>9, <1>o DEF CleanSwitch, Local, Frame, FreshStart
  <2>2. /\ Owns(t, o, {"INITIALIZING"}, InitOwner)
        /\ Owns(t, o, {"TERMINATING", "DECONTAMINATING"}, Terminating)
    BY <1>9, <1>o
    DEF CleanSwitch, Owns, Frame, InitOwner, Terminating, InitPcs, TermPcs
  <2>3. KeepsGuard(t, o)
    BY <1>9, <1>o
    DEF CleanSwitch, KeepsGuard, Arming, Armed, Frame, Instance, Disturbing,
        Terminating, TermPcs
  <2> QED BY <2>1, <2>2, <2>3 DEF Facts
<1>10. CASE CleanDisk(t)
  <2>1. Local(t, o)
    BY <1>10, <1>o DEF CleanDisk, Local, Frame, FreshStart
  <2>2. /\ Owns(t, o, {"INITIALIZING"}, InitOwner)
        /\ Owns(t, o, {"TERMINATING", "DECONTAMINATING"}, Terminating)
    BY <1>10, <1>o
    DEF CleanDisk, Owns, Frame, InitOwner, Terminating, InitPcs, TermPcs
  <2>3. KeepsGuard(t, o)
    BY <1>10, <1>o
    DEF CleanDisk, KeepsGuard, Arming, Armed, Frame, Instance, Disturbing,
        Terminating, TermPcs
  <2> QED BY <2>1, <2>2, <2>3 DEF Facts
<1>11. CASE InitError(t)
  <2>1. Local(t, o)
    BY <1>11, <1>o DEF InitError, LastTransition, Return, TransitionTo,
       Refused, States!Move, Idle, Local, Frame, FreshStart
  <2>2. /\ Owns(t, o, {"INITIALIZING"}, InitOwner)
        /\ Owns(t, o, {"TERMINATING", "DECONTAMINATING"}, Terminating)
    BY <1>11, <1>o
    DEF InitError, LastTransition, Return, TransitionTo, Refused, States!Move,
        States!ValidNext,
        Idle, Owns, Frame, InitOwner, Terminating, InitPcs, TermPcs
  <2>3. KeepsGuard(t, o)
    BY <1>11, <1>o
    DEF InitError, LastTransition, Return, TransitionTo, Refused, States!Move,
        States!ValidNext,
        Idle, KeepsGuard, Arming, Armed, Frame, Instance, Disturbing,
        Terminating, TermPcs
  <2> QED BY <2>1, <2>2, <2>3 DEF Facts
<1> QED
  BY <1>1, <1>2, <1>3, <1>4, <1>5, <1>6, <1>7, <1>8, <1>9, <1>10, <1>11 DEF InitStep

LEMMA ActStepFacts ==
  ASSUME TypeOK, FreshStart, NEW t \in Threads, ActStep(t),
         NEW o \in Objects, Self(t) = o
  PROVE  Facts(t, o)
<1> USE DEF At, Self, Goto, In
<1>p. frame[t].pc \in ActPcs /\ frame[t].pc # "idle"
  BY DEF ActStep, ActCheck, ActBegin, ActLayer, ActRollback, ActLayersDone,
         ActMonitor, ActError,
         ActPcs
<1>o. /\ frame[t].o = o /\ inst[o] \in Instance /\ inst \in [Objects -> Instance]
      /\ state \in [Objects -> States!BunkerState]
      /\ frame \in [Threads -> Frame]
  BY <1>p DEF TypeOK
<1>1. CASE ActCheck(t)
  <2>1. Local(t, o)
    BY <1>1, <1>o DEF ActCheck, Local, Frame, FreshStart
  <2>2. /\ Owns(t, o, {"INITIALIZING"}, InitOwner)
        /\ Owns(t, o, {"TERMINATING", "DECONTAMINATING"}, Terminating)
    BY <1>1, <1>o
    DEF ActCheck, Owns, Frame, InitOwner, Terminating, InitPcs, TermPcs
  <2>3. KeepsGuard(t, o)
    BY <1>1, <1>o
    DEF ActCheck, KeepsGuard, Arming, Armed, Frame, Instance, Disturbing,
        Terminating, TermPcs
  <2> QED BY <2>1, <2>2, <2>3 DEF Facts
<1>2. CASE ActBegin(t)
  <2>1. Local(t, o)
    BY <1>2, <1>o DEF ActBegin, Return, TransitionTo, Refused, States!Move,
       Idle, Local, Frame, FreshStart
  <2>2. /\ Owns(t, o, {"INITIALIZING"}, InitOwner)
        /\ Owns(t, o, {"TERMINATING", "DECONTAMINATING"}, Terminating)
    BY <1>2, <1>o
    DEF ActBegin, Return, TransitionTo, Refused, States!Move, States!ValidNext,
        Idle, Owns, Frame, InitOwner, Terminating, InitPcs, TermPcs
  <2>3. KeepsGuard(t, o)
    <3>1. inst' = inst
      BY <1>2 DEF ActBegin
    <3>2. CASE frame' = [frame EXCEPT ![t].pc = "act_layers"]
      <4>1. frame[t].layer = 0
        BY <1>2 DEF ActBegin, FreshStart
      <4>2. /\ frame'[t].pc = "act_layers" /\ frame'[t].o = o
            /\ frame'[t].layer = 0
        BY <3>2, <4>1, <1>o DEF Frame
      <4>3. (Self(t) = o /\ Arming(t))'
        BY <4>2 DEF Arming
      <4> QED BY <4>3, <3>1 DEF KeepsGuard
    <3>3. CASE Refused(o, "ACTIVE") /\ state' = state
      BY <3>1, <3>3, <1>o DEF Refused, KeepsGuard
    <3> QED BY <1>2, <3>2, <3>3 DEF ActBegin
  <2> QED BY <2>1, <2>2, <2>3 DEF Facts
<1>3. CASE ActLayer(t)
  <2>1. Local(t, o)
    BY <1>3, <1>o DEF ActLayer, Local, Frame, FreshStart
  <2>2. /\ Owns(t, o, {"INITIALIZING"}, InitOwner)
        /\ Owns(t, o, {"TERMINATING", "DECONTAMINATING"}, Terminating)
    BY <1>3, <1>o
    DEF ActLayer, Owns, Frame, InitOwner, Terminating, InitPcs, TermPcs
  <2>3. KeepsGuard(t, o)
    <3> DEFINE next == frame[t].layer + 1
    <3>1. state' = state /\ frame[t].pc = "act_layers" /\ frame[t].layer \in Nat
      BY <1>3, <1>o, BunkerAssumption DEF ActLayer, Frame, BunkerAssumption
    <3>2. CASE /\ inst' = [inst EXCEPT ![o].layers = @ \cup {next}]
               /\ frame' = [frame EXCEPT ![t].layer = next]
      <4>1. /\ frame'[t].pc = "act_layers" /\ frame'[t].o = o
            /\ frame'[t].layer = next
        BY <3>1, <3>2, <1>o DEF Frame
      <4>2. /\ inst'[o].layers = inst[o].layers \cup {next}
            /\ inst'[o].session = inst[o].session
        BY <3>2, <1>o DEF Instance
      <4>3. CASE Arming(t)
        <5>1. 1..frame[t].layer \subseteq inst[o].layers
          BY <4>3, <3>1 DEF Arming
        <5>2. 1..next \subseteq 1..frame[t].layer \cup {next}
          BY <3>1
        <5>3. Arming(t)'
          BY <4>1, <4>2, <5>1, <5>2 DEF Arming
        <5> QED BY <4>1, <4>2, <5>3 DEF KeepsGuard
      <4>4. CASE ~Arming(t)
        BY <3>1, <4>2, <4>4
        DEF KeepsGuard, Disturbing, Terminating, TermPcs
      <4> QED BY <4>3, <4>4
    <3>3. CASE frame' = [frame EXCEPT ![t].pc = "act_rollback"]
      BY <3>3, <1>o DEF Frame, KeepsGuard, Disturbing
    <3> QED BY <1>3, <3>2, <3>3 DEF ActLayer
  <2> QED BY <2>1, <2>2, <2>3 DEF Facts
<1>4. CASE ActRollback(t)
  <2>1. Local(t, o)
    BY <1>4, <1>o DEF ActRollback, Local, Frame, FreshStart
  <2>2. /\ Owns(t, o, {"INITIALIZING"}, InitOwner)
        /\ Owns(t, o, {"TERMINATING", "DECONTAMINATING"}, Terminating)
    BY <1>4, <1>o
    DEF ActRollback, Owns, Frame, InitOwner, Terminating, InitPcs, TermPcs
  <2>3. KeepsGuard(t, o)
    BY <1>4, <1>o
    DEF ActRollback, KeepsGuard, Arming, Armed, Frame, Instance, Disturbing,
        Terminating, TermPcs
  <2> QED BY <2>1, <2>2, <2>3 DEF Facts
<1>5. CASE ActLayersDone(t)
  <2>1. Local(t, o)
    BY <1>5, <1>o DEF ActLayersDone, Local, Frame, FreshStart
  <2>2. /\ Owns(t, o, {"INITIALIZING"}, InitOwner)
        /\ Owns(t, o, {"TERMINATING", "DECONTAMINATING"}, Terminating)
    BY <1>5, <1>o
    DEF ActLayersDone, Owns, Frame, InitOwner, Terminating, InitPcs, TermPcs
  <2>3. KeepsGuard(t, o)
    <3>1. /\ frame[t].pc = "act_layers" /\ frame[t].layer = NumLayers
          /\ frame' = [frame EXCEPT ![t].pc = "act_monitor"]
          /\ UNCHANGED <<state, inst>>
      BY <1>5 DEF ActLayersDone
    <3>2. frame'[t].pc = "act_monitor" /\ frame'[t].o = o
      BY <3>1, <1>o DEF Frame
    <3>3. Arming(t) => Arming(t)'
      BY <3>1, <3>2 DEF Arming, Layers
    <3> QED
      BY <3>1, <3>2, <3>3 DEF KeepsGuard, Disturbing, Terminating, TermPcs
  <2> QED BY <2>1, <2>2, <2>3 DEF Facts
<1>6. CASE ActMonitor(t)
  <2>1. Local(t, o)
    <3>1. \A p \in Objects \ {o} : inst'[p] = inst[p]
      BY <1>6, <1>o DEF ActMonitor
    <3> QED
      BY <3>1, <1>6, <1>o DEF ActMonitor, Return, Idle, Local, Frame, FreshStart
  <2>2. /\ Owns(t, o, {"INITIALIZING"}, InitOwner)
        /\ Owns(t, o, {"TERMINATING", "DECONTAMINATING"}, Terminating)
    BY <1>6, <1>o
    DEF ActMonitor, Return, Idle, Owns, Frame, InitOwner, Terminating,
        InitPcs, TermPcs
  <2>3. KeepsGuard(t, o)
    <3> DEFINE v(b) == [inst[o] EXCEPT !.monitoring = TRUE, !.session = b]
    <3>0. \E b : inst'[o] = v(b)
      <4>1. CASE inst' = [inst EXCEPT ![o].monitoring = TRUE,
                                      ![o].session = TRUE]
        BY <4>1, <1>o
      <4>2. ASSUME NEW b, inst' = [inst EXCEPT ![o].monitoring = TRUE,
                                               ![o].session = b \/ @]
            PROVE  inst'[o] = v(b \/ inst[o].session)
        BY <4>2, <1>o
      <4> HIDE DEF v
      <4> QED BY <1>6, <1>o, <4>1, <4>2 DEF ActMonitor
    <3>1. /\ frame[t].pc = "act_monitor" /\ state' = state
          /\ inst'[o].layers = inst[o].layers
      BY <1>6, <1>o, <3>0 DEF ActMonitor, Instance
    <3>2. CASE /\ inst' = [inst EXCEPT ![o].monitoring = TRUE,
                                       ![o].session = TRUE]
      <4>1. inst'[o].session
        <5>1. inst'[o] = v(TRUE)
          BY <3>2, <1>o
        <5>2. v(TRUE).session = TRUE
          BY <1>o DEF Instance
        <5>3. inst'[o].session = TRUE
          BY <5>1, <5>2
        <5> QED BY <5>3
      <4>2. Arming(t) => Armed(o)'
        BY <3>1, <4>1, <1>o DEF Arming, Armed, Instance
      <4> QED
        BY <3>1, <4>1, <4>2 DEF KeepsGuard, Disturbing, Terminating, TermPcs
    <3>3. CASE frame' = [frame EXCEPT ![t].pc = "act_error"]
      <4>1. In(t, o, Disturbing)'
        BY <3>3, <1>o DEF Frame, Disturbing
      <4> QED BY <3>1, <4>1 DEF KeepsGuard
    <3> QED BY <1>6, <3>2, <3>3 DEF ActMonitor
  <2> QED BY <2>1, <2>2, <2>3 DEF Facts
<1>7. CASE ActError(t)
  <2>1. Local(t, o)
    BY <1>7, <1>o DEF ActError, LastTransition, Return, TransitionTo, Refused,
       States!Move, Idle, Local, Frame, FreshStart
  <2>2. /\ Owns(t, o, {"INITIALIZING"}, InitOwner)
        /\ Owns(t, o, {"TERMINATING", "DECONTAMINATING"}, Terminating)
    BY <1>7, <1>o
    DEF ActError, LastTransition, Return, TransitionTo, Refused, States!Move,
        States!ValidNext,
        Idle, Owns, Frame, InitOwner, Terminating, InitPcs, TermPcs
  <2>3. KeepsGuard(t, o)
    BY <1>7, <1>o
    DEF ActError, LastTransition, Return, TransitionTo, Refused, States!Move,
        States!ValidNext,
        Idle, KeepsGuard, Arming, Armed, Frame, Instance, Disturbing,
        Terminating, TermPcs
  <2> QED BY <2>1, <2>2, <2>3 DEF Facts
<1> QED
  BY <1>1, <1>2, <1>3, <1>4, <1>5, <1>6, <1>7 DEF ActStep

LEMMA TermStepFacts ==
  ASSUME TypeOK, FreshStart, NEW t \in Threads, TermStep(t),
         NEW o \in Objects, Self(t) = o
  PROVE  Facts(t, o)
<1> USE DEF At, Self, Goto, In
<1>p. frame[t].pc \in TermPcs /\ frame[t].pc # "idle"
  BY DEF TermStep, TermCheck, TermBegin, TermStop, TermLayers, TermPower,
         TermDecon, DeconPower, DeconDisk, DeconSwitch, DeconVm, DeconVerify,
         TermEnd, TermError,
         TermPcs
<1>o. /\ frame[t].o = o /\ inst[o] \in Instance /\ inst \in [Objects -> Instance]
      /\ state \in [Objects -> States!BunkerState]
      /\ frame \in [Threads -> Frame]
  BY <1>p DEF TypeOK
<1>1. CASE TermCheck(t)
  <2>1. Local(t, o)
    BY <1>1, <1>o DEF TermCheck, Local, Frame, FreshStart
  <2>2. /\ Owns(t, o, {"INITIALIZING"}, InitOwner)
        /\ Owns(t, o, {"TERMINATING", "DECONTAMINATING"}, Terminating)
    BY <1>1, <1>o
    DEF TermCheck, Owns, Frame, InitOwner, Terminating, InitPcs, TermPcs
  <2>3. KeepsGuard(t, o)
    BY <1>1, <1>o
    DEF TermCheck, KeepsGuard, Arming, Armed, Frame, Instance, Disturbing,
        Terminating, TermPcs
  <2> QED BY <2>1, <2>2, <2>3 DEF Facts
<1>2. CASE TermBegin(t)
  <2>1. Local(t, o)
    BY <1>2, <1>o DEF TermBegin, Transition, TransitionTo, Refused,
       States!Move, Local, Frame, FreshStart
  <2>2. /\ Owns(t, o, {"INITIALIZING"}, InitOwner)
        /\ Owns(t, o, {"TERMINATING", "DECONTAMINATING"}, Terminating)
    BY <1>2, <1>o
    DEF TermBegin, Transition, TransitionTo, Refused, States!Move, States!ValidNext,
        Owns, Frame, InitOwner, Terminating, InitPcs, TermPcs
  <2>3. KeepsGuard(t, o)
    BY <1>2, <1>o
    DEF TermBegin, Transition, TransitionTo, Refused, States!Move, States!ValidNext,
        KeepsGuard, Arming, Armed, Frame, Instance, Disturbing,
        Terminating, TermPcs
  <2> QED BY <2>1, <2>2, <2>3 DEF Facts
<1>3. CASE TermStop(t)
  <2>1. Local(t, o)
    BY <1>3, <1>o DEF TermStop, Local, Frame, FreshStart
  <2>2. /\ Owns(t, o, {"INITIALIZING"}, InitOwner)
        /\ Owns(t, o, {"TERMINATING", "DECONTAMINATING"}, Terminating)
    BY <1>3, <1>o
    DEF TermStop, Owns, Frame, InitOwner, Terminating, InitPcs, TermPcs
  <2>3. KeepsGuard(t, o)
    BY <1>3, <1>o
    DEF TermStop, KeepsGuard, Arming, Armed, Frame, Instance, Disturbing,
        Terminating, TermPcs
  <2> QED BY <2>1, <2>2, <2>3 DEF Facts
<1>4. CASE TermLayers(t)
  <2>1. Local(t, o)
    BY <1>4, <1>o DEF TermLayers, Local, Frame, FreshStart
  <2>2. /\ Owns(t, o, {"INITIALIZING"}, InitOwner)
        /\ Owns(t, o, {"TERMINATING", "DECONTAMINATING"}, Terminating)
    BY <1>4, <1>o
    DEF TermLayers, Owns, Frame, InitOwner, Terminating, InitPcs, TermPcs
  <2>3. KeepsGuard(t, o)
    BY <1>4, <1>o
    DEF TermLayers, KeepsGuard, Arming, Armed, Frame, Instance, Disturbing,
        Terminating, TermPcs
  <2> QED BY <2>1, <2>2, <2>3 DEF Facts
<1>5. CASE TermPower(t)
  <2>1. Local(t, o)
    BY <1>5, <1>o DEF TermPower, Local, Frame, FreshStart
  <2>2. /\ Owns(t, o, {"INITIALIZING"}, InitOwner)
        /\ Owns(t, o, {"TERMINATING", "DECONTAMINATING"}, Terminating)
    BY <1>5, <1>o
    DEF TermPower, Owns, Frame, InitOwner, Terminating, InitPcs, TermPcs
  <2>3. KeepsGuard(t, o)
    BY <1>5, <1>o
    DEF TermPower, KeepsGuard, Arming, Armed, Frame, Instance, Disturbing,
        Terminating, TermPcs
  <2> QED BY <2>1, <2>2, <2>3 DEF Facts
<1>6. CASE TermDecon(t)
  <2>1. Local(t, o)
    BY <1>6, <1>o DEF TermDecon, TransitionTo, Refused, States!Move, Local,
       Frame, FreshStart
  <2>2. /\ Owns(t, o, {"INITIALIZING"}, InitOwner)
        /\ Owns(t, o, {"TERMINATING", "DECONTAMINATING"}, Terminating)
    BY <1>6, <1>o
    DEF TermDecon, TransitionTo, Refused, States!Move, States!ValidNext,
        Owns, Frame, InitOwner, Terminating, InitPcs, TermPcs
  <2>3. KeepsGuard(t, o)
    BY <1>6, <1>o
    DEF TermDecon, TransitionTo, Refused, States!Move, States!ValidNext,
        KeepsGuard, Arming, Armed, Frame, Instance, Disturbing,
        Terminating, TermPcs
  <2> QED BY <2>1, <2>2, <2>3 DEF Facts
<1>7. CASE DeconPower(t)
  <2>1. Local(t, o)
    BY <1>7, <1>o DEF DeconPower, DeconStep, Local, Frame, FreshStart
  <2>2. /\ Owns(t, o, {"INITIALIZING"}, InitOwner)
        /\ Owns(t, o, {"TERMINATING", "DECONTAMINATING"}, Terminating)
    BY <1>7, <1>o
    DEF DeconPower, DeconStep, Owns, Frame, InitOwner, Terminating, InitPcs, TermPcs
  <2>3. KeepsGuard(t, o)
    BY <1>7, <1>o
    DEF DeconPower, DeconStep, KeepsGuard, Arming, Armed, Frame, Instance,
        Disturbing,
        Terminating, TermPcs
  <2> QED BY <2>1, <2>2, <2>3 DEF Facts
<1>8. CASE DeconDisk(t)
  <2>1. Local(t, o)
    BY <1>8, <1>o DEF DeconDisk, DeconStep, Local, Frame, FreshStart
  <2>2. /\ Owns(t, o, {"INITIALIZING"}, InitOwner)
        /\ Owns(t, o, {"TERMINATING", "DECONTAMINATING"}, Terminating)
    BY <1>8, <1>o
    DEF DeconDisk, DeconStep, Owns, Frame, InitOwner, Terminating, InitPcs, TermPcs
  <2>3. KeepsGuard(t, o)
    BY <1>8, <1>o
    DEF DeconDisk, DeconStep, KeepsGuard, Arming, Armed, Frame, Instance,
        Disturbing,
        Terminating, TermPcs
  <2> QED BY <2>1, <2>2, <2>3 DEF Facts
<1>9. CASE DeconSwitch(t)
  <2>1. Local(t, o)
    BY <1>9, <1>o DEF DeconSwitch, DeconStep, Local, Frame, FreshStart
  <2>2. /\ Owns(t, o, {"INITIALIZING"}, InitOwner)
        /\ Owns(t, o, {"TERMINATING", "DECONTAMINATING"}, Terminating)
    BY <1>9, <1>o
    DEF DeconSwitch, DeconStep, Owns, Frame, InitOwner, Terminating, InitPcs,
        TermPcs
  <2>3. KeepsGuard(t, o)
    BY <1>9, <1>o
    DEF DeconSwitch, DeconStep, KeepsGuard, Arming, Armed, Frame, Instance,
        Disturbing,
        Terminating, TermPcs
  <2> QED BY <2>1, <2>2, <2>3 DEF Facts
<1>10. CASE DeconVm(t)
  <2>1. Local(t, o)
    BY <1>10, <1>o DEF DeconVm, DeconStep, Local, Frame, FreshStart
  <2>2. /\ Owns(t, o, {"INITIALIZING"}, InitOwner)
        /\ Owns(t, o, {"TERMINATING", "DECONTAMINATING"}, Terminating)
    BY <1>10, <1>o
    DEF DeconVm, DeconStep, Owns, Frame, InitOwner, Terminating, InitPcs, TermPcs
  <2>3. KeepsGuard(t, o)
    BY <1>10, <1>o
    DEF DeconVm, DeconStep, KeepsGuard, Arming, Armed, Frame, Instance, Disturbing,
        Terminating, TermPcs
  <2> QED BY <2>1, <2>2, <2>3 DEF Facts
<1>11. CASE DeconVerify(t)
  <2>1. Local(t, o)
    BY <1>11, <1>o DEF DeconVerify, DeconStep, Local, Frame, FreshStart
  <2>2. /\ Owns(t, o, {"INITIALIZING"}, InitOwner)
        /\ Owns(t, o, {"TERMINATING", "DECONTAMINATING"}, Terminating)
    BY <1>11, <1>o
    DEF DeconVerify, DeconStep, Owns, Frame, InitOwner, Terminating, InitPcs,
        TermPcs
  <2>3. KeepsGuard(t, o)
    BY <1>11, <1>o
    DEF DeconVerify, DeconStep, KeepsGuard, Arming, Armed, Frame, Instance,
        Disturbing,
        Terminating, TermPcs
  <2> QED BY <2>1, <2>2, <2>3 DEF Facts
<1>12. CASE TermEnd(t)
  <2>1. Local(t, o)
    BY <1>12, <1>o DEF TermEnd, Return, TransitionTo, Refused, States!Move,
       Idle, Local, Frame, FreshStart
  <2>2. /\ Owns(t, o, {"INITIALIZING"}, InitOwner)
        /\ Owns(t, o, {"TERMINATING", "DECONTAMINATING"}, Terminating)
    BY <1>12, <1>o
    DEF TermEnd, Return, TransitionTo, Refused, States!Move, States!ValidNext,
        Idle, Owns, Frame, InitOwner, Terminating, InitPcs, TermPcs
  <2>3. KeepsGuard(t, o)
    BY <1>12, <1>o
    DEF TermEnd, Return, TransitionTo, Refused, States!Move, States!ValidNext,
        Idle, KeepsGuard, Arming, Armed, Frame, Instance, Disturbing,
        Terminating, TermPcs
  <2> QED BY <2>1, <2>2, <2>3 DEF Facts
<1>13. CASE TermError(t)
  <2>1. Local(t, o)
    BY <1>13, <1>o DEF TermError, LastTransition, Return, TransitionTo,
       Refused, States!Move, Idle, Local, Frame, FreshStart
  <2>2. /\ Owns(t, o, {"INITIALIZING"}, InitOwner)
        /\ Owns(t, o, {"TERMINATING", "DECONTAMINATING"}, Terminating)
    BY <1>13, <1>o
    DEF TermError, LastTransition, Return, TransitionTo, Refused, States!Move,
        States!ValidNext,
        Idle, Owns, Frame, InitOwner, Terminating, InitPcs, TermPcs
  <2>3. KeepsGuard(t, o)
    BY <1>13, <1>o
    DEF TermError, LastTransition, Return, TransitionTo, Refused, States!Move,
        States!ValidNext,
        Idle, KeepsGuard, Arming, Armed, Frame, Instance, Disturbing,
        Terminating, TermPcs
  <2> QED BY <2>1, <2>2, <2>3 DEF Facts
<1> QED
  BY <1>1, <1>2, <1>3, <1>4, <1>5, <1>6, <1>7, <1>8, <1>9, <1>10, <1>11,
     <1>12, <1>13 DEF TermStep

LEMMA QuarStepFacts ==
  ASSUME TypeOK, FreshStart, NEW t \in Threads, QuarStep(t),
         NEW o \in Objects, Self(t) = o
  PROVE  Facts(t, o)
<1> USE DEF At, Self, Goto, In
<1>p. frame[t].pc \in QuarPcs /\ frame[t].pc # "idle"
  BY DEF QuarStep, QuarBegin, QuarStop,
         QuarPcs
<1>o. /\ frame[t].o = o /\ inst[o] \in Instance /\ inst \in [Objects -> Instance]
      /\ state \in [Objects -> States!BunkerState]
      /\ frame \in [Threads -> Frame]
  BY <1>p DEF TypeOK
<1>1. CASE QuarBegin(t)
  <2>1. Local(t, o)
    BY <1>1, <1>o DEF QuarBegin, Return, TransitionTo, Refused, States!Move,
       Idle, Local, Frame, FreshStart
  <2>2. /\ Owns(t, o, {"INITIALIZING"}, InitOwner)
        /\ Owns(t, o, {"TERMINATING", "DECONTAMINATING"}, Terminating)
    BY <1>1, <1>o
    DEF QuarBegin, Return, TransitionTo, Refused, States!Move, States!ValidNext,
        Idle, Owns, Frame, InitOwner, Terminating, InitPcs, TermPcs
  <2>3. KeepsGuard(t, o)
    BY <1>1, <1>o
    DEF QuarBegin, Return, TransitionTo, Refused, States!Move, States!ValidNext,
        Idle, KeepsGuard, Arming, Armed, Frame, Instance, Disturbing,
        Terminating, TermPcs
  <2> QED BY <2>1, <2>2, <2>3 DEF Facts
<1>2. CASE QuarStop(t)
  <2>1. Local(t, o)
    BY <1>2, <1>o DEF QuarStop, Return, Idle, Local, Frame, FreshStart
  <2>2. /\ Owns(t, o, {"INITIALIZING"}, InitOwner)
        /\ Owns(t, o, {"TERMINATING", "DECONTAMINATING"}, Terminating)
    BY <1>2, <1>o
    DEF QuarStop, Return, Idle, Owns, Frame, InitOwner, Terminating, InitPcs,
        TermPcs
  <2>3. KeepsGuard(t, o)
    BY <1>2, <1>o
    DEF QuarStop, Return, Idle, KeepsGuard, Arming, Armed, Frame, Instance,
        Disturbing,
        Terminating, TermPcs
  <2> QED BY <2>1, <2>2, <2>3 DEF Facts
<1> QED
  BY <1>1, <1>2 DEF QuarStep

\* No step of a thread outside o disturbs what guards o.
LEMMA FactsKeepInv ==
  ASSUME BunkerInv, TypeOK', NEW t \in Threads, NEW o \in Objects,
         Self(t) = o, Facts(t, o)
  PROVE  TransientOwned' /\ FreshStart' /\ \A p \in Objects : Guarded(p)'
<1>1. /\ \A u \in Threads \ {t} : frame'[u] = frame[u]
      /\ \A p \in Objects \ {o} : state'[p] = state[p] /\ inst'[p] = inst[p]
  BY DEF Facts, Local
<1>2. FreshStart'
  BY <1>1 DEF BunkerInv, FreshStart, Facts, Local
<1>3. ASSUME NEW S, NEW owners, NEW p \in Objects,
             state[p] \in S => \E u \in Threads : In(u, p, owners),
             Owns(t, o, S, owners), state'[p] \in S
      PROVE  \E u \in Threads : In(u, p, owners)'
  <2>1. CASE p = o
    <3>1. CASE In(t, o, owners)'
      BY <2>1, <3>1
    <3>2. CASE state[o] \in S /\ frame[t].pc \notin owners
      <4>1. PICK u \in Threads : In(u, p, owners)
        BY <1>3, <2>1, <3>2
      <4>2. u # t
        BY <3>2, <4>1 DEF In
      <4> QED BY <1>1, <4>1, <4>2 DEF In
    <3> QED BY <1>3, <2>1, <3>1, <3>2 DEF Owns
  <2>2. CASE p # o
    <3>1. PICK u \in Threads : In(u, p, owners)
      BY <1>1, <1>3, <2>2
    <3>2. u # t
      BY <2>2, <3>1 DEF In, Self
    <3> QED BY <1>1, <3>1, <3>2 DEF In
  <2> QED BY <2>1, <2>2
<1>4. TransientOwned'
  <2> SUFFICES ASSUME NEW p \in Objects
               PROVE  /\ state'[p] = "INITIALIZING" =>
                           \E u \in Threads : In(u, p, InitOwner)'
                      /\ state'[p] \in {"TERMINATING", "DECONTAMINATING"} =>
                           \E u \in Threads : In(u, p, Terminating)'
    BY DEF TransientOwned, InitOwner
  <2>1. /\ state[p] \in {"INITIALIZING"} =>
             \E u \in Threads : In(u, p, InitOwner)
        /\ state[p] \in {"TERMINATING", "DECONTAMINATING"} =>
             \E u \in Threads : In(u, p, Terminating)
    BY DEF BunkerInv, TransientOwned, InitOwner
  <2>2. /\ Owns(t, o, {"INITIALIZING"}, InitOwner)
        /\ Owns(t, o, {"TERMINATING", "DECONTAMINATING"}, Terminating)
    BY DEF Facts
  <2> QED BY <1>3, <2>1, <2>2
<1>5. ASSUME NEW p \in Objects, state'[p] = "ACTIVE"
      PROVE  \/ \E u \in Threads : In(u, p, Disturbing)'
             \/ \E u \in Threads : (Self(u) = p /\ Arming(u))'
             \/ Armed(p)'
  <2>1. CASE p = o
    <3>1. CASE In(t, o, Disturbing)' \/ (Self(t) = o /\ Arming(t))' \/ Armed(o)'
      BY <2>1, <3>1
    <3>2. CASE /\ state[o] = "ACTIVE"
               /\ frame[t].pc \notin Disturbing /\ ~Arming(t)
               /\ inst[o].layers \subseteq inst'[o].layers
               /\ inst[o].session => inst'[o].session
      <4>1. CASE Armed(o)
        <5>1. inst'[o].layers \subseteq Layers
          BY <2>1 DEF TypeOK, Instance
        <5> QED BY <2>1, <3>2, <4>1, <5>1 DEF Armed
      <4>2. CASE \E u \in Threads : In(u, o, Disturbing)
        BY <1>1, <2>1, <3>2, <4>2 DEF In
      <4>3. CASE \E u \in Threads : Self(u) = o /\ Arming(u)
        <5>1. PICK u \in Threads : Self(u) = o /\ Arming(u)
          BY <4>3
        <5>2. u # t /\ frame'[u] = frame[u]
          BY <1>1, <3>2, <5>1
        <5>3. (Self(u) = o /\ Arming(u))'
          BY <3>2, <5>1, <5>2 DEF Self, Arming, At
        <5> QED BY <2>1, <5>3
      <4> QED BY <2>1, <3>2, <4>1, <4>2, <4>3 DEF BunkerInv, Guarded
    <3> QED BY <1>5, <2>1, <3>1, <3>2 DEF Facts, KeepsGuard
  <2>2. CASE p # o
    <3>1. state[p] = "ACTIVE" /\ inst'[p] = inst[p]
      BY <1>1, <1>5, <2>2
    <3>2. \A u \in Threads : Self(u) = p => u # t /\ frame'[u] = frame[u]
      BY <1>1, <2>2
    <3>3. CASE Armed(p)
      BY <3>1, <3>3 DEF Armed
    <3>4. CASE \E u \in Threads : In(u, p, Disturbing)
      BY <3>2, <3>4 DEF In, Self
    <3>5. CASE \E u \in Threads : Self(u) = p /\ Arming(u)
      BY <3>1, <3>2, <3>5 DEF Self, Arming, At
    <3> QED BY <3>1, <3>3, <3>4, <3>5 DEF BunkerInv, Guarded
  <2> QED BY <2>1, <2>2
<1>6. \A p \in Objects : Guarded(p)'
  BY <1>5 DEF Guarded
<1> QED BY <1>2, <1>4, <1>6

LEMMA CallKeepsInv ==
  ASSUME BunkerInv, NEW t \in Threads, NEW p \in Objects, NEW e \in Entry,
         Call(t, p, e)
  PROVE  TransientOwned' /\ FreshStart' /\ \A o \in Objects : Guarded(o)'
<1>1. /\ frame[t].pc = "idle" /\ frame'[t] = [Idle EXCEPT !.pc = e, !.o = p]
      /\ UNCHANGED <<state, inst>>
      /\ \A u \in Threads \ {t} : frame'[u] = frame[u]
  BY DEF Call, At, BunkerInv, TypeOK
<1>2. FreshStart'
  <2>1. frame'[t].layer = 0
    BY <1>1 DEF Idle
  <2>2. FreshStart
    BY DEF BunkerInv
  <2> QED BY <1>1, <2>1, <2>2 DEF FreshStart
<1>3. ASSUME NEW o \in Objects, NEW owners, "idle" \notin owners,
             NEW u \in Threads, In(u, o, owners)
      PROVE  In(u, o, owners)'
  BY <1>1, <1>3 DEF In
<1>4. "idle" \notin InitOwner \cup Terminating \cup Disturbing
  BY DEF InitOwner, Terminating, Disturbing, InitPcs, TermPcs
<1>5. TransientOwned'
  BY <1>1, <1>3, <1>4 DEF BunkerInv, TransientOwned, InitOwner
<1>6. ASSUME NEW u \in Threads, Arming(u)
      PROVE  Arming(u)' /\ Self(u)' = Self(u)
  BY <1>1, <1>6 DEF Arming, At, Self
<1>7. \A o \in Objects : Guarded(o)'
  BY <1>1, <1>3, <1>4, <1>6 DEF BunkerInv, Guarded, Armed
<1> QED BY <1>2, <1>5, <1>7

LEMMA InitInv == Init => BunkerInv
<1>1. Init => TypeOK
  BY InitType
<1> QED
  BY <1>1
  DEF Init, BunkerInv, TransientOwned, FreshStart, Guarded, Idle

LEMMA NextInv == BunkerInv /\ [Next]_vars => BunkerInv'
<1> SUFFICES ASSUME BunkerInv, [Next]_vars PROVE BunkerInv'
  OBVIOUS
<1>1. TypeOK'
  BY NextType DEF BunkerInv
<1>2. CASE UNCHANGED vars
  BY <1>1, <1>2
  DEF vars, BunkerInv, TransientOwned, FreshStart, Guarded, In, Self, Arming,
      At, Armed
<1>3. ASSUME NEW t \in Threads, NEW o \in Objects, NEW e \in Entry,
             Call(t, o, e)
      PROVE  BunkerInv'
  BY <1>1, <1>3, CallKeepsInv DEF BunkerInv
<1>4. ASSUME NEW t \in Threads, Step(t)
      PROVE  BunkerInv'
  <2>1. PICK o \in Objects : Self(t) = o
    BY <1>4, StepInside DEF BunkerInv, TypeOK, Self
  <2>2. Facts(t, o)
    BY <1>4, <2>1, InitStepFacts, ActStepFacts, TermStepFacts, QuarStepFacts
    DEF Step, BunkerInv
  <2> QED BY <1>1, <2>1, <2>2, FactsKeepInv DEF BunkerInv
<1> QED
  BY <1>2, <1>3, <1>4 DEF Next

LEMMA BunkerInvariant == Spec => []BunkerInv
BY InitInv, NextInv, PTL DEF Spec

\* No interleaving, refused transition or failing call leaves a bunker in a
\* transient state that no thread is at work on.
THEOREM TransientOwnedAlways == Spec => []TransientOwned
<1>1. BunkerInv => TransientOwned
  BY DEF BunkerInv
<1> QED
  BY <1>1, BunkerInvariant, PTL

\* ACTIVE with no thread inside means every layer on and the session up, for
\* any number of layers and of concurrent callers.
THEOREM ActiveIsLayeredAlways == Spec => []ActiveIsLayered
<1>1. BunkerInv => ActiveIsLayered
  BY DEF BunkerInv, ActiveIsLayered, Guarded, AtRest, In, Self, Armed
<1> QED
  BY <1>1, BunkerInvariant, PTL

-----------------------------------------------------------------------------
(* The methods implement the state machine of types.py.                    *)

LEMMA TransitionToMoves ==
  ASSUME NEW o \in Objects, NEW s \in States!BunkerState, TransitionTo(o, s)
  PROVE  [States!Next]_state
BY DEF TransitionTo, States!Next

LEMMA StepMoves ==
  ASSUME TypeOK, NEW t \in Threads, Step(t)
  PROVE  [States!Next]_state
<1> USE DEF Self
<1>o. Self(t) \in Objects
  BY StepInside DEF TypeOK
<1>s. /\ "INITIALIZING" \in States!BunkerState
      /\ "READY" \in States!BunkerState
      /\ "ACTIVE" \in States!BunkerState
      /\ "TERMINATING" \in States!BunkerState
      /\ "DECONTAMINATING" \in States!BunkerState
      /\ "DESTROYED" \in States!BunkerState
      /\ "QUARANTINE" \in States!BunkerState
      /\ "ERROR" \in States!BunkerState
  BY DEF States!BunkerState
<1>1. CASE InitStep(t)
  <2>1. CASE InitBegin(t)
    BY <1>o, <1>s, <2>1, TransitionToMoves DEF InitBegin, Transition
  <2>2. CASE InitReady(t)
    BY <1>o, <1>s, <2>2, TransitionToMoves DEF InitReady
  <2>3. CASE InitError(t)
    BY <1>o, <1>s, <2>3, TransitionToMoves DEF InitError, LastTransition
  <2> QED
    BY <1>1, <2>1, <2>2, <2>3
    DEF InitStep, InitRaise, InitVerify, InitSwitch, InitVm, InitGuest,
        CleanVm, CleanSwitch, CleanDisk
<1>2. CASE ActStep(t)
  <2>1. CASE ActBegin(t)
    BY <1>o, <1>s, <2>1, TransitionToMoves DEF ActBegin
  <2>2. CASE ActError(t)
    BY <1>o, <1>s, <2>2, TransitionToMoves DEF ActError, LastTransition
  <2> QED
    BY <1>2, <2>1, <2>2
    DEF ActStep, ActCheck, ActLayer, ActRollback, ActLayersDone, ActMonitor
<1>3. CASE TermStep(t)
  <2>1. CASE TermBegin(t)
    BY <1>o, <1>s, <2>1, TransitionToMoves DEF TermBegin, Transition
  <2>2. CASE TermDecon(t)
    BY <1>o, <1>s, <2>2, TransitionToMoves DEF TermDecon
  <2>3. CASE TermEnd(t)
    BY <1>o, <1>s, <2>3, TransitionToMoves DEF TermEnd
  <2>4. CASE TermError(t)
    BY <1>o, <1>s, <2>4, TransitionToMoves DEF TermError, LastTransition
  <2> QED
    BY <1>3, <2>1, <2>2, <2>3, <2>4
    DEF TermStep, TermCheck, TermStop, TermLayers, TermPower, DeconPower,
        DeconDisk, DeconSwitch, DeconVm, DeconVerify, DeconStep
<1>4. CASE QuarStep(t)
  BY <1>o, <1>s, <1>4, TransitionToMoves DEF QuarStep, QuarBegin, QuarStop
<1> QED
  BY <1>1, <1>2, <1>3, <1>4 DEF Step

\* Every bunker moves along VALID_STATE_TRANSITIONS only, or not at all,
\* however the steps of concurrent methods interleave.
THEOREM ImplementsStateMachine == Spec => StateMachine
<1>1. Init => States!Init
  BY DEF Init, States!Init
<1>2. TypeOK /\ [Next]_vars => [States!Next]_state
  BY StepMoves DEF Next, Call, vars
<1> QED
  BY <1>1, <1>2, TypeCorrect, PTL DEF Spec, StateMachine, States!Spec

-----------------------------------------------------------------------------
(* What a step inside a method of o reaches, for the modules that compose   *)
(* bunkers: it is one of the method's places, and it touches o alone.       *)

\* the place of t after a step, in the method or back from it
Stays(t, o, pcs) ==
  /\ frame'[t].pc \in {"idle"} \cup pcs
  /\ frame'[t].pc # "idle" => frame'[t].o = o

\* the place of a thread tells the method it is in
LEMMA StepPlace ==
  ASSUME NEW t \in Threads
  PROVE  /\ InitStep(t) => frame[t].pc \in InitPcs
         /\ ActStep(t) => frame[t].pc \in ActPcs
         /\ TermStep(t) => frame[t].pc \in TermPcs
         /\ QuarStep(t) => frame[t].pc \in QuarPcs
BY DEF InitStep, ActStep, TermStep, QuarStep, At, InitPcs, ActPcs, TermPcs,
       QuarPcs,
       InitBegin, InitRaise, InitVerify, InitSwitch, InitVm, InitGuest,
       InitReady, CleanVm, CleanSwitch, CleanDisk, InitError,
       ActCheck, ActBegin, ActLayer, ActRollback, ActLayersDone, ActMonitor,
       ActError, TermCheck, TermBegin, TermStop, TermLayers, TermPower,
       TermDecon, DeconPower, DeconDisk, DeconSwitch, DeconVm, DeconVerify,
       TermEnd, TermError, QuarBegin, QuarStop

LEMMA PlacesApart ==
  /\ InitPcs \cap (ActPcs \cup TermPcs \cup QuarPcs) = {}
  /\ ActPcs \cap (TermPcs \cup QuarPcs) = {} /\ TermPcs \cap QuarPcs = {}
  /\ "idle" \notin InitPcs \cup ActPcs \cup TermPcs \cup QuarPcs
BY DEF InitPcs, ActPcs, TermPcs, QuarPcs

\* what differs after a step is o's, or t's frame
Footprint(t, o) ==
  /\ idOf' = idOf
  /\ \A u \in Threads \ {t} : frame'[u] = frame[u]
  /\ \A p \in Objects \ {o} : state'[p] = state[p] /\ inst'[p] = inst[p]
  /\ \A i \in Ids \ {idOf[o]} : host'[i] = host[i] /\ row'[i] = row[i]

\* a row is written from the state it records, or left as it was
LEMMA TransitionToRow ==
  ASSUME TypeOK, NEW o \in Objects, NEW s, TransitionTo(o, s)
  PROVE  /\ \A i \in Ids \ {idOf[o]} : row'[i] = row[i]
         /\ row'[idOf[o]] = row[idOf[o]] \/ row'[idOf[o]].state = s
         /\ "persist" \notin Faults /\ state[o] # s => row'[idOf[o]].state = s
         /\ state'[o] = s
         /\ \A p \in Objects \ {o} : state'[p] = state[p]
<1> DEFINE rec == [state |-> s, vm |-> inst[o].vm, switch |-> inst[o].switch]
<1>1. row \in [Ids -> Record] /\ idOf[o] \in Ids /\ rec.state = s
      /\ state \in [Objects -> States!BunkerState]
  BY DEF TypeOK
<1>2. \/ row' = [row EXCEPT ![idOf[o]] = rec]
      \/ row' = row /\ ("persist" \notin Faults => state[o] = s)
  BY DEF TransitionTo, Persist, May
<1>3. state' = [state EXCEPT ![o] = s] \/ (state' = state /\ state[o] = s)
  BY DEF TransitionTo, States!Move
<1> HIDE DEF rec
<1> QED BY <1>1, <1>2, <1>3

LEMMA RemovalHost ==
  ASSUME TypeOK, NEW i \in Ids, NEW res, NEW f, NEW ok \in BOOLEAN,
         Removal(i, res, f, ok)
  PROVE  /\ \A j \in Ids \ {i} : host'[j] = host[j]
         /\ host'[i] = host[i] \/ (ok /\ host'[i] = host[i] \ {res})
         /\ f \notin Faults => ok
         /\ ok /\ (res = "switch" => "silent_switch" \notin Faults) =>
              res \notin host'[i]
BY DEF TypeOK, Removal, May

LEMMA RemoveVmHost ==
  ASSUME TypeOK, NEW i \in Ids, NEW f, NEW ok \in BOOLEAN, RemoveVm(i, f, ok)
  PROVE  /\ \A j \in Ids \ {i} : host'[j] = host[j]
         /\ host'[i] \subseteq host[i]
         /\ f \notin Faults => ok
         /\ ok => "vm" \notin host'[i]
BY DEF TypeOK, RemoveVm, May

LEMMA InitFootprint ==
  ASSUME TypeOK, NEW t \in Threads, NEW o \in Objects, Self(t) = o, InitStep(t)
  PROVE  Footprint(t, o)
<1> USE DEF Self
<1>o. /\ idOf[o] \in Ids /\ frame \in [Threads -> Frame]
      /\ inst \in [Objects -> Instance] /\ host \in [Ids -> SUBSET Resources]
  BY DEF TypeOK
<1>1. \A u \in Threads \ {t} : frame'[u] = frame[u]
  BY <1>o
  DEF InitStep, InitBegin, InitRaise, InitVerify, InitSwitch, InitVm, InitGuest,
      InitReady, CleanVm, CleanSwitch, CleanDisk, InitError, Transition,
      LastTransition, Goto, Return
<1>2. \A p \in Objects \ {o} : inst'[p] = inst[p]
  BY <1>o
  DEF InitStep, InitBegin, InitRaise, InitVerify, InitSwitch, InitVm, InitGuest,
      InitReady, CleanVm, CleanSwitch, CleanDisk, InitError
<1>3. \/ \E s : TransitionTo(o, s)
      \/ UNCHANGED <<state, row>>
  BY DEF InitStep, InitBegin, InitRaise, InitVerify, InitSwitch, InitVm,
         InitGuest, InitReady, CleanVm, CleanSwitch, CleanDisk, InitError,
         Transition, LastTransition
<1>4. /\ \A p \in Objects \ {o} : state'[p] = state[p]
      /\ \A i \in Ids \ {idOf[o]} : row'[i] = row[i]
  BY <1>3, TransitionToRow
<1>5. \A i \in Ids \ {idOf[o]} : host'[i] = host[i]
  <2>1. CASE InitSwitch(t) \/ InitVm(t)
    BY <1>o, <2>1 DEF InitSwitch, InitVm
  <2>2. CASE CleanVm(t)
    BY <1>o, <2>2, RemoveVmHost DEF CleanVm
  <2>3. CASE CleanSwitch(t) \/ CleanDisk(t)
    BY <1>o, <2>3, RemovalHost DEF CleanSwitch, CleanDisk
  <2> QED
    BY <2>1, <2>2, <2>3
    DEF InitStep, InitBegin, InitRaise, InitVerify, InitGuest, InitReady,
        InitError
<1>6. idOf' = idOf
  BY DEF InitStep, InitBegin, InitRaise, InitVerify, InitSwitch, InitVm,
         InitGuest, InitReady, CleanVm, CleanSwitch, CleanDisk, InitError
<1> QED BY <1>1, <1>2, <1>4, <1>5, <1>6 DEF Footprint

LEMMA ActFootprint ==
  ASSUME TypeOK, NEW t \in Threads, NEW o \in Objects, Self(t) = o, ActStep(t)
  PROVE  Footprint(t, o)
<1> USE DEF Self
<1>o. /\ frame \in [Threads -> Frame] /\ inst \in [Objects -> Instance]
  BY DEF TypeOK
<1>1. \A u \in Threads \ {t} : frame'[u] = frame[u]
  BY <1>o
  DEF ActStep, ActCheck, ActBegin, ActLayer, ActRollback, ActLayersDone,
      ActMonitor, ActError, LastTransition, Goto, Return
<1>2. \A p \in Objects \ {o} : inst'[p] = inst[p]
  BY <1>o
  DEF ActStep, ActCheck, ActBegin, ActLayer, ActRollback, ActLayersDone,
      ActMonitor, ActError
<1>3. \/ \E s : TransitionTo(o, s)
      \/ UNCHANGED <<state, row>>
  BY DEF ActStep, ActCheck, ActBegin, ActLayer, ActRollback, ActLayersDone,
         ActMonitor, ActError, LastTransition
<1>4. /\ \A p \in Objects \ {o} : state'[p] = state[p]
      /\ \A i \in Ids \ {idOf[o]} : row'[i] = row[i]
  BY <1>3, TransitionToRow
<1>5. idOf' = idOf /\ host' = host
  BY DEF ActStep, ActCheck, ActBegin, ActLayer, ActRollback, ActLayersDone,
         ActMonitor, ActError
<1> QED BY <1>1, <1>2, <1>4, <1>5 DEF Footprint

LEMMA TermFootprint ==
  ASSUME TypeOK, NEW t \in Threads, NEW o \in Objects, Self(t) = o, TermStep(t)
  PROVE  Footprint(t, o)
<1> USE DEF Self
<1>o. /\ idOf[o] \in Ids /\ frame \in [Threads -> Frame]
      /\ inst \in [Objects -> Instance]
  BY DEF TypeOK
<1>1. \A u \in Threads \ {t} : frame'[u] = frame[u]
  BY <1>o
  DEF TermStep, TermCheck, TermBegin, TermStop, TermLayers, TermPower,
      TermDecon, DeconPower, DeconDisk, DeconSwitch, DeconVm, DeconVerify,
      DeconStep, TermEnd, TermError, Transition, LastTransition, Goto, Return
<1>2. \A p \in Objects \ {o} : inst'[p] = inst[p]
  BY <1>o
  DEF TermStep, TermCheck, TermBegin, TermStop, TermLayers, TermPower,
      TermDecon, DeconPower, DeconDisk, DeconSwitch, DeconVm, DeconVerify,
      DeconStep, TermEnd, TermError
<1>3. \/ \E s : TransitionTo(o, s)
      \/ UNCHANGED <<state, row>>
  BY DEF TermStep, TermCheck, TermBegin, TermStop, TermLayers, TermPower,
         TermDecon, DeconPower, DeconDisk, DeconSwitch, DeconVm, DeconVerify,
         DeconStep, TermEnd, TermError, Transition, LastTransition
<1>4. /\ \A p \in Objects \ {o} : state'[p] = state[p]
      /\ \A i \in Ids \ {idOf[o]} : row'[i] = row[i]
  BY <1>3, TransitionToRow
<1>5. \A i \in Ids \ {idOf[o]} : host'[i] = host[i]
  <2>1. CASE DeconDisk(t) \/ DeconSwitch(t)
    BY <1>o, <2>1, RemovalHost DEF DeconDisk, DeconSwitch
  <2>2. CASE DeconVm(t)
    <3>1. \/ \E ok \in BOOLEAN : RemoveVm(idOf[o], "decon_vm", ok)
          \/ UNCHANGED host
      BY <2>2 DEF DeconVm
    <3> QED BY <1>o, <3>1, RemoveVmHost
  <2> QED
    BY <2>1, <2>2
    DEF TermStep, TermCheck, TermBegin, TermStop, TermLayers, TermPower,
        TermDecon, DeconPower, DeconVerify, TermEnd, TermError
<1>6. idOf' = idOf
  BY DEF TermStep, TermCheck, TermBegin, TermStop, TermLayers, TermPower,
         TermDecon, DeconPower, DeconDisk, DeconSwitch, DeconVm, DeconVerify,
         DeconStep, TermEnd, TermError
<1> QED BY <1>1, <1>2, <1>4, <1>5, <1>6 DEF Footprint
=============================================================================
