---------------------------- MODULE MethodProofs ----------------------------
(***************************************************************************)
(* How far a bunker has come at each place of a method that no other thread *)
(* interferes with: the part of the proofs that the analyses of Inspect and *)
(* the requests of BunkerService share.                                     *)
(***************************************************************************)
EXTENDS BunkerProofs

\* the callers tell every answer apart
AllAnswers == {"true", "false", "raised"} \subseteq Answers

Ready == {"act_check", "act_begin"}

Down == {"term_stop", "term_layers", "term_power", "term_decon", "term_error"}

InitPhase(t, o) ==
  /\ frame[t].pc = "init_begin" => state[o] = "DESTROYED"
  /\ frame[t].pc \in InitPcs \ {"init_begin"} => state[o] = "INITIALIZING"
  /\ frame[t].pc = "idle" =>
       \/ frame[t].result = "true" /\ state[o] = "READY"
       \/ frame[t].result \in {"false", "raised"} /\ state[o] = "ERROR"

ActPhase(t, o) ==
  /\ frame[t].pc \in Ready => state[o] = "READY"
  /\ frame[t].pc \in ActPcs \ Ready => state[o] = "ACTIVE"
  /\ frame[t].pc = "idle" =>
       \/ frame[t].result = "true" /\ state[o] = "ACTIVE"
       \/ frame[t].result = "false" /\ state[o] = "ERROR"

TermPhase(t, o) ==
  /\ frame[t].pc \in {"term_check", "term_begin"} => state[o] = "ACTIVE"
  /\ frame[t].pc \in Down => state[o] = "TERMINATING"
  /\ frame[t].pc \in TermPcs \ ({"term_check", "term_begin"} \cup Down) =>
       state[o] = "DECONTAMINATING"
  /\ frame[t].pc = "idle" =>
       \/ frame[t].result = "true" /\ state[o] = "DESTROYED"
       \/ frame[t].result = "false" /\ state[o] = "ERROR"

-----------------------------------------------------------------------------
(* A step of a bunker method moves the bunker along.                        *)

LEMMA InitPhaseStep ==
  ASSUME TypeOK, AllAnswers, NEW t \in Threads, NEW o \in Objects, Self(t) = o,
         InitStep(t), InitPhase(t, o)
  PROVE  /\ Stays(t, o, InitPcs) /\ InitPhase(t, o)'
         /\ frame'[t].pc # "init_begin"
<1> USE DEF At, Self, Goto
<1>p. frame[t].pc \in InitPcs /\ frame[t].pc # "idle"
  BY StepPlace, PlacesApart
<1>o. /\ frame[t].o = o /\ state \in [Objects -> States!BunkerState]
      /\ frame \in [Threads -> Frame]
  BY <1>p DEF TypeOK
<1>1. CASE InitBegin(t)
  <2>1. state[o] = "DESTROYED"
    BY <1>1 DEF InitBegin, InitPhase
  <2>2. /\ frame'[t].pc = "init_verify" /\ frame'[t].o = o
        /\ state'[o] = "INITIALIZING"
    BY <1>1, <1>o, <2>1
    DEF InitBegin, Transition, TransitionTo, Refused, States!Move,
        States!ValidNext, Frame
  <2> QED BY <2>2 DEF Stays, InitPhase, InitPcs
<1>2. CASE InitReady(t)
  <2>1. state[o] = "INITIALIZING"
    BY <1>2 DEF InitReady, InitPhase, InitPcs
  <2>2. Return(t, "true") /\ state'[o] = "READY"
    BY <1>2, <1>o, <2>1
    DEF InitReady, TransitionTo, Refused, States!Move, States!ValidNext
  <2>3. frame'[t].pc = "idle" /\ frame'[t].result = "true"
    BY <1>o, <2>2 DEF Return, AllAnswers, Idle
  <2> QED BY <2>2, <2>3 DEF Stays, InitPhase, InitPcs
<1>3. CASE InitError(t)
  <2>1. state[o] = "INITIALIZING"
    BY <1>3 DEF InitError, InitPhase, InitPcs
  <2>2. /\ \E r \in {"false", "raised"} : Return(t, r)
        /\ state'[o] = "ERROR"
    BY <1>3, <1>o, <2>1
    DEF InitError, LastTransition, TransitionTo, Refused, States!Move,
        States!ValidNext
  <2>3. frame'[t].pc = "idle" /\ frame'[t].result \in {"false", "raised"}
    BY <1>o, <2>2 DEF Return, AllAnswers, Idle
  <2> QED BY <2>2, <2>3 DEF Stays, InitPhase, InitPcs
<1>4. CASE \/ InitRaise(t) \/ InitVerify(t) \/ InitSwitch(t) \/ InitVm(t)
           \/ InitGuest(t) \/ CleanVm(t) \/ CleanSwitch(t) \/ CleanDisk(t)
  <2>1. /\ state' = state
        /\ frame[t].pc \in InitPcs \ {"init_begin"}
    BY <1>4
    DEF InitRaise, InitVerify, InitSwitch, InitVm, InitGuest, CleanVm,
        CleanSwitch, CleanDisk, InitPcs
  <2>2. \E l \in InitPcs \ {"init_begin"} :
          \/ frame' = [frame EXCEPT ![t].pc = l]
          \/ frame' = [frame EXCEPT ![t].pc = l, ![t].ok = FALSE]
    BY <1>4
    DEF InitRaise, InitVerify, InitSwitch, InitVm, InitGuest, CleanVm,
        CleanSwitch, CleanDisk, InitPcs
  <2>3. frame'[t].pc \in InitPcs \ {"init_begin"} /\ frame'[t].o = o
    BY <1>o, <2>2 DEF Frame
  <2> QED BY <2>1, <2>3, PlacesApart DEF Stays, InitPhase
<1> QED BY <1>1, <1>2, <1>3, <1>4 DEF InitStep

LEMMA ActPhaseStep ==
  ASSUME TypeOK, AllAnswers, NEW t \in Threads, NEW o \in Objects, Self(t) = o,
         ActStep(t), ActPhase(t, o)
  PROVE  Stays(t, o, ActPcs) /\ ActPhase(t, o)'
<1> USE DEF At, Self, Goto
<1>p. frame[t].pc \in ActPcs /\ frame[t].pc # "idle"
  BY StepPlace, PlacesApart
<1>o. /\ frame[t].o = o /\ state \in [Objects -> States!BunkerState]
      /\ frame \in [Threads -> Frame]
  BY <1>p DEF TypeOK
<1>1. CASE ActCheck(t)
  <2>1. state[o] = "READY" /\ state' = state
    BY <1>1 DEF ActCheck, ActPhase, Ready
  <2>2. frame'[t].pc = "act_begin" /\ frame'[t].o = o
    BY <1>1, <1>o, <2>1 DEF ActCheck, Frame
  <2> QED BY <2>1, <2>2 DEF Stays, ActPhase, ActPcs, Ready
<1>2. CASE ActBegin(t)
  <2>1. state[o] = "READY"
    BY <1>2 DEF ActBegin, ActPhase, Ready
  <2>2. /\ frame'[t].pc = "act_layers" /\ frame'[t].o = o
        /\ state'[o] = "ACTIVE"
    BY <1>2, <1>o, <2>1
    DEF ActBegin, TransitionTo, Refused, States!Move, States!ValidNext, Frame
  <2> QED BY <2>2 DEF Stays, ActPhase, ActPcs, Ready
<1>3. CASE ActLayer(t) \/ ActRollback(t) \/ ActLayersDone(t)
  <2>1. /\ frame'[t].pc \in ActPcs \ Ready /\ frame'[t].o = o /\ state' = state
    BY <1>3, <1>o
    DEF ActLayer, ActRollback, ActLayersDone, ActPcs, Frame, Ready
  <2>2. state[o] = "ACTIVE"
    BY <1>3 DEF ActLayer, ActRollback, ActLayersDone, ActPhase, ActPcs, Ready
  <2> QED BY <2>1, <2>2, PlacesApart DEF ActPhase, Stays
<1>4. CASE ActMonitor(t)
  <2>1. state' = state /\ state[o] = "ACTIVE"
    BY <1>4 DEF ActMonitor, ActPhase, ActPcs, Ready
  <2>2. \/ frame' = [frame EXCEPT ![t].pc = "act_error"]
        \/ Return(t, "true")
    BY <1>4 DEF ActMonitor
  <2>3. \/ frame'[t].pc = "act_error" /\ frame'[t].o = o
        \/ frame'[t].pc = "idle" /\ frame'[t].result = "true"
    BY <1>o, <2>2 DEF Return, AllAnswers, Idle, Frame
  <2> QED BY <2>1, <2>3 DEF ActPhase, Stays, ActPcs, Ready
<1>5. CASE ActError(t)
  <2>1. state[o] = "ACTIVE"
    BY <1>5 DEF ActError, ActPhase, ActPcs, Ready
  <2>2. Return(t, "false") /\ state'[o] = "ERROR"
    BY <1>5, <1>o, <2>1
    DEF ActError, LastTransition, TransitionTo, Refused, States!Move,
        States!ValidNext
  <2>3. frame'[t].pc = "idle" /\ frame'[t].result = "false"
    BY <1>o, <2>2 DEF Return, AllAnswers, Idle
  <2> QED BY <2>2, <2>3 DEF ActPhase, Stays, ActPcs, Ready
<1> QED BY <1>1, <1>2, <1>3, <1>4, <1>5 DEF ActStep

LEMMA TermPhaseStep ==
  ASSUME TypeOK, AllAnswers, NEW t \in Threads, NEW o \in Objects, Self(t) = o,
         TermStep(t), TermPhase(t, o)
  PROVE  Stays(t, o, TermPcs) /\ TermPhase(t, o)'
<1> USE DEF At, Self, Goto
<1>p. frame[t].pc \in TermPcs /\ frame[t].pc # "idle"
  BY StepPlace, PlacesApart
<1>o. /\ frame[t].o = o /\ state \in [Objects -> States!BunkerState]
      /\ frame \in [Threads -> Frame]
  BY <1>p DEF TypeOK
<1>1. CASE TermCheck(t)
  <2>1. state[o] = "ACTIVE" /\ state' = state
    BY <1>1 DEF TermCheck, TermPhase
  <2>2. frame'[t].pc = "term_begin" /\ frame'[t].o = o
    BY <1>1, <1>o, <2>1 DEF TermCheck, Frame
  <2> QED BY <2>1, <2>2 DEF Stays, TermPhase, TermPcs, Down
<1>2. CASE TermBegin(t)
  <2>1. state[o] = "ACTIVE"
    BY <1>2 DEF TermBegin, TermPhase
  <2>2. /\ frame'[t].pc = "term_stop" /\ frame'[t].o = o
        /\ state'[o] = "TERMINATING"
    BY <1>2, <1>o, <2>1
    DEF TermBegin, Transition, TransitionTo, Refused, States!Move,
        States!ValidNext, Frame
  <2> QED BY <2>2 DEF Stays, TermPhase, TermPcs, Down
<1>3. CASE TermStop(t) \/ TermLayers(t) \/ TermPower(t)
  <2>1. /\ frame'[t].pc \in Down /\ frame'[t].o = o /\ state' = state
    BY <1>3, <1>o DEF TermStop, TermLayers, TermPower, Frame, Down
  <2>2. state[o] = "TERMINATING"
    BY <1>3 DEF TermStop, TermLayers, TermPower, TermPhase, Down
  <2> QED BY <2>1, <2>2 DEF TermPhase, Stays, Down, TermPcs
<1>4. CASE TermDecon(t)
  <2>1. state[o] = "TERMINATING"
    BY <1>4 DEF TermDecon, TermPhase, Down
  <2>2. /\ frame'[t].pc = "decon_power" /\ frame'[t].o = o
        /\ state'[o] = "DECONTAMINATING"
    BY <1>4, <1>o, <2>1
    DEF TermDecon, TransitionTo, Refused, States!Move, States!ValidNext, Frame
  <2> QED BY <2>2 DEF TermPhase, Stays, Down, TermPcs
<1>5. CASE \/ DeconPower(t) \/ DeconDisk(t) \/ DeconSwitch(t) \/ DeconVm(t)
           \/ DeconVerify(t)
  <2>1. \E l \in {"decon_disk", "decon_switch", "decon_vm", "decon_verify",
                  "term_end"} : \E ok : DeconStep(t, l, ok)
    BY <1>5 DEF DeconPower, DeconDisk, DeconSwitch, DeconVm, DeconVerify
  <2>2. /\ frame'[t].pc \in TermPcs \ ({"term_check", "term_begin"} \cup Down)
        /\ frame'[t].o = o /\ state' = state
    BY <2>1, <1>o DEF DeconStep, TermPcs, Frame, Down
  <2>3. state[o] = "DECONTAMINATING"
    BY <1>5
    DEF DeconPower, DeconDisk, DeconSwitch, DeconVm, DeconVerify, TermPhase,
        TermPcs, Down
  <2> QED BY <2>2, <2>3, PlacesApart DEF TermPhase, Stays
<1>6. CASE TermEnd(t)
  <2>1. state[o] = "DECONTAMINATING"
    BY <1>6 DEF TermEnd, TermPhase, TermPcs, Down
  <2>2. \/ Return(t, "true") /\ state'[o] = "DESTROYED"
        \/ Return(t, "false") /\ state'[o] = "ERROR"
    BY <1>6, <1>o, <2>1
    DEF TermEnd, TransitionTo, Refused, States!Move, States!ValidNext
  <2>3. frame'[t].pc = "idle"
    BY <1>o, <2>2 DEF Return, Idle
  <2>4. \/ frame'[t].result = "true" /\ state'[o] = "DESTROYED"
        \/ frame'[t].result = "false" /\ state'[o] = "ERROR"
    BY <1>o, <2>2 DEF Return, AllAnswers, Idle
  <2> QED BY <2>3, <2>4 DEF TermPhase, Stays, TermPcs, Down
<1>7. CASE TermError(t)
  <2>1. state[o] = "TERMINATING"
    BY <1>7 DEF TermError, TermPhase, Down
  <2>2. Return(t, "false") /\ state'[o] = "ERROR"
    BY <1>7, <1>o, <2>1
    DEF TermError, LastTransition, TransitionTo, Refused, States!Move,
        States!ValidNext
  <2>3. frame'[t].pc = "idle" /\ frame'[t].result = "false"
    BY <1>o, <2>2 DEF Return, AllAnswers, Idle
  <2> QED BY <2>2, <2>3 DEF TermPhase, Stays, TermPcs, Down
<1> QED BY <1>1, <1>2, <1>3, <1>4, <1>5, <1>6, <1>7 DEF TermStep
-----------------------------------------------------------------------------
(* What any step of a method does, whichever it is.                         *)

LEMMA QuarFootprint ==
  ASSUME TypeOK, NEW t \in Threads, NEW o \in Objects, Self(t) = o, QuarStep(t)
  PROVE  Footprint(t, o)
<1> USE DEF Self
<1>o. /\ frame \in [Threads -> Frame] /\ inst \in [Objects -> Instance]
  BY DEF TypeOK
<1>1. /\ \A u \in Threads \ {t} : frame'[u] = frame[u]
      /\ \A p \in Objects \ {o} : inst'[p] = inst[p]
      /\ idOf' = idOf /\ host' = host
  BY <1>o DEF QuarStep, QuarBegin, QuarStop, Goto, Return
<1>2. (\E s : TransitionTo(o, s)) \/ UNCHANGED <<state, row>>
  BY DEF QuarStep, QuarBegin, QuarStop
<1>3. /\ \A p \in Objects \ {o} : state'[p] = state[p]
      /\ \A i \in Ids \ {idOf[o]} : row'[i] = row[i]
  BY <1>2, TransitionToRow
<1> QED BY <1>1, <1>3 DEF Footprint

LEMMA StepFootprint ==
  ASSUME TypeOK, NEW t \in Threads, NEW o \in Objects, Self(t) = o, Step(t)
  PROVE  Footprint(t, o)
BY InitFootprint, ActFootprint, TermFootprint, QuarFootprint DEF Step

\* a step either moves the bunker, writing the row if it can, or leaves the
\* state and the row alone; the one that moves it does nothing else
Transits(o) ==
  /\ \E s \in States!BunkerState : States!Move(o, s) /\ Persist(o, s)
  /\ UNCHANGED <<inst, idOf, host>>

LEMMA TransitionTransits ==
  ASSUME NEW o \in Objects, NEW s \in States!BunkerState, TransitionTo(o, s),
         UNCHANGED <<inst, idOf, host>>
  PROVE  Transits(o) \/ UNCHANGED <<state, row>>
BY DEF TransitionTo, Transits

LEMMA StepTransits ==
  ASSUME TypeOK, NEW t \in Threads, NEW o \in Objects, Self(t) = o, Step(t)
  PROVE  Transits(o) \/ UNCHANGED <<state, row>>
<1> USE DEF Self
<1>s. /\ "INITIALIZING" \in States!BunkerState
      /\ "READY" \in States!BunkerState
      /\ "ACTIVE" \in States!BunkerState
      /\ "TERMINATING" \in States!BunkerState
      /\ "DECONTAMINATING" \in States!BunkerState
      /\ "DESTROYED" \in States!BunkerState
      /\ "QUARANTINE" \in States!BunkerState
      /\ "ERROR" \in States!BunkerState
  BY DEF States!BunkerState
<1>1. CASE InitStep(t)
  <2>1. CASE InitBegin(t)
    BY <1>s, <2>1, TransitionTransits DEF InitBegin, Transition
  <2>2. CASE InitReady(t)
    BY <1>s, <2>2, TransitionTransits DEF InitReady
  <2>3. CASE InitError(t)
    BY <1>s, <2>3, TransitionTransits DEF InitError, LastTransition
  <2> QED
    BY <1>1, <2>1, <2>2, <2>3
    DEF InitStep, InitRaise, InitVerify, InitSwitch, InitVm, InitGuest,
        CleanVm, CleanSwitch, CleanDisk
<1>2. CASE ActStep(t)
  <2>1. CASE ActBegin(t)
    BY <1>s, <2>1, TransitionTransits DEF ActBegin
  <2>2. CASE ActError(t)
    BY <1>s, <2>2, TransitionTransits DEF ActError, LastTransition
  <2> QED
    BY <1>2, <2>1, <2>2
    DEF ActStep, ActCheck, ActLayer, ActRollback, ActLayersDone, ActMonitor
<1>3. CASE TermStep(t)
  <2>1. CASE TermBegin(t)
    BY <1>s, <2>1, TransitionTransits DEF TermBegin, Transition
  <2>2. CASE TermDecon(t)
    BY <1>s, <2>2, TransitionTransits DEF TermDecon
  <2>3. CASE TermEnd(t)
    BY <1>s, <2>3, TransitionTransits DEF TermEnd
  <2>4. CASE TermError(t)
    BY <1>s, <2>4, TransitionTransits DEF TermError, LastTransition
  <2> QED
    BY <1>3, <2>1, <2>2, <2>3, <2>4
    DEF TermStep, TermCheck, TermStop, TermLayers, TermPower, DeconPower,
        DeconDisk, DeconSwitch, DeconVm, DeconVerify, DeconStep
<1>4. CASE QuarStep(t)
  BY <1>s, <1>4, TransitionTransits DEF QuarStep, QuarBegin, QuarStop
<1> QED
  BY <1>1, <1>2, <1>3, <1>4 DEF Step

\* a thread stays with the bunker it has entered
LEMMA StepSelf ==
  ASSUME TypeOK, NEW t \in Threads, Step(t)
  PROVE  frame'[t].pc # "idle" => Self(t)' = Self(t)
<1> USE DEF Self, Goto
<1>f. frame \in [Threads -> Frame] /\ frame[t] \in Frame
  BY DEF TypeOK
<1>r. ASSUME NEW r, Return(t, r) PROVE frame'[t].pc = "idle"
  BY <1>f, <1>r DEF Return, Idle
<1>g. ASSUME NEW l, NEW v, frame' = [frame EXCEPT ![t].pc = l, ![t].ok = v]
      PROVE  frame'[t].o = frame[t].o
  BY <1>f, <1>g DEF Frame
<1>1. CASE InitStep(t)
  <2>1. CASE InitRaise(t)
    <3>1. \/ frame' = [frame EXCEPT ![t].pc = "clean_vm"]
          \/ frame' = [frame EXCEPT ![t].pc = "clean_vm", ![t].ok = FALSE]
      BY <2>1 DEF InitRaise
    <3> QED BY <1>f, <1>g, <3>1 DEF Frame
  <2>2. CASE InitReady(t) \/ InitError(t)
    <3>1. \/ frame' = [frame EXCEPT ![t].pc = "clean_vm"]
          \/ \E r \in {"true", "false", "raised"} : Return(t, r)
      BY <2>2 DEF InitReady, InitError, LastTransition
    <3> QED BY <1>f, <1>r, <3>1 DEF Frame
  <2>3. CASE ~InitRaise(t) /\ ~InitReady(t) /\ ~InitError(t)
    <3>1. \E l : frame' = [frame EXCEPT ![t].pc = l]
      BY <1>1, <2>3
      DEF InitStep, InitBegin, InitVerify, InitSwitch, InitVm, InitGuest,
          CleanVm, CleanSwitch, CleanDisk, Transition
    <3> QED BY <1>f, <3>1 DEF Frame
  <2> QED BY <2>1, <2>2, <2>3
<1>2. CASE ActStep(t)
  <2>1. \/ \E l : frame' = [frame EXCEPT ![t].pc = l]
        \/ \E v : frame' = [frame EXCEPT ![t].layer = v]
        \/ \E v : frame' = [frame EXCEPT ![t].undone = v]
        \/ \E r : Return(t, r)
    BY <1>2
    DEF ActStep, ActCheck, ActBegin, ActLayer, ActRollback, ActLayersDone,
        ActMonitor, ActError, LastTransition
  <2> QED BY <1>f, <1>r, <2>1 DEF Frame
<1>3. CASE TermStep(t)
  <2>1. CASE \/ TermCheck(t) \/ TermBegin(t) \/ TermStop(t) \/ TermLayers(t)
             \/ TermPower(t) \/ TermEnd(t) \/ TermError(t)
    <3>1. \/ \E l : frame' = [frame EXCEPT ![t].pc = l]
          \/ \E v : frame' = [frame EXCEPT ![t].layer = v]
          \/ \E r : Return(t, r)
      BY <2>1
      DEF TermCheck, TermBegin, TermStop, TermLayers, TermPower, TermEnd,
          TermError, Transition, LastTransition
    <3> QED BY <1>f, <1>r, <3>1 DEF Frame
  <2>2. CASE TermDecon(t)
    <3>1. \/ frame' = [frame EXCEPT ![t].pc = "term_error"]
          \/ frame' = [frame EXCEPT ![t].pc = "decon_power", ![t].ok = TRUE,
                                    ![t].vm = inst[Self(t)].vm]
      BY <2>2 DEF TermDecon
    <3> QED BY <1>f, <3>1 DEF Frame
  <2>3. CASE \/ DeconPower(t) \/ DeconDisk(t) \/ DeconSwitch(t) \/ DeconVm(t)
             \/ DeconVerify(t)
    <3>1. \E l, ok : DeconStep(t, l, ok)
      BY <2>3 DEF DeconPower, DeconDisk, DeconSwitch, DeconVm, DeconVerify
    <3>2. \E l, ok : frame' = [frame EXCEPT ![t].pc = l, ![t].ok = @ /\ ok]
      BY <3>1 DEF DeconStep
    <3> QED BY <1>f, <3>2 DEF Frame
  <2> QED BY <1>3, <2>1, <2>2, <2>3 DEF TermStep
<1>4. CASE QuarStep(t)
  BY <1>f, <1>r, <1>4 DEF QuarStep, QuarBegin, QuarStop, Frame
<1> QED BY <1>1, <1>2, <1>3, <1>4 DEF Step
\* activate leaves the names and the host alone
LEMMA ActKeeps ==
  ASSUME TypeOK, NEW t \in Threads, NEW o \in Objects, Self(t) = o, ActStep(t)
  PROVE  /\ idOf' = idOf /\ host' = host
         /\ inst'[o].vm = inst[o].vm /\ inst'[o].switch = inst[o].switch
<1> USE DEF Self
<1>o. inst \in [Objects -> Instance] /\ inst[o] \in Instance
  BY DEF TypeOK
<1>1. idOf' = idOf /\ host' = host
  BY DEF ActStep, ActCheck, ActBegin, ActLayer, ActRollback, ActLayersDone,
         ActMonitor, ActError
<1>2. inst'[o].vm = inst[o].vm /\ inst'[o].switch = inst[o].switch
  <2>1. CASE ActLayer(t) \/ ActRollback(t)
    <3>1. \/ inst' = inst
          \/ \E l : inst' = [inst EXCEPT ![o].layers = l]
      BY <2>1 DEF ActLayer, ActRollback
    <3> QED BY <1>o, <3>1 DEF Instance
  <2>2. CASE ActMonitor(t)
    BY <1>o, <2>2 DEF ActMonitor, Instance
  <2> QED
    BY <2>1, <2>2
    DEF ActStep, ActCheck, ActBegin, ActLayersDone, ActError
<1> QED BY <1>1, <1>2

\* terminate only removes, and keeps the names
LEMMA TermKeeps ==
  ASSUME TypeOK, NEW t \in Threads, NEW o \in Objects, Self(t) = o, TermStep(t)
  PROVE  /\ idOf' = idOf /\ host'[idOf[o]] \subseteq host[idOf[o]]
         /\ inst'[o].vm = inst[o].vm /\ inst'[o].switch = inst[o].switch
<1> USE DEF Self
<1>o. /\ idOf[o] \in Ids /\ inst \in [Objects -> Instance]
      /\ inst[o] \in Instance
  BY DEF TypeOK
<1>1. host'[idOf[o]] \subseteq host[idOf[o]]
  <2>1. CASE DeconDisk(t) \/ DeconSwitch(t)
    <3>1. \E ok \in BOOLEAN :
            \/ Removal(idOf[o], "disk", "decon_disk", ok)
            \/ Removal(idOf[o], "switch", "decon_switch", ok)
      BY <2>1 DEF DeconDisk, DeconSwitch
    <3> QED BY <1>o, <3>1, RemovalHost
  <2>2. CASE DeconVm(t)
    <3>1. \/ \E ok \in BOOLEAN : RemoveVm(idOf[o], "decon_vm", ok)
          \/ UNCHANGED host
      BY <2>2 DEF DeconVm
    <3> QED BY <1>o, <3>1, RemoveVmHost
  <2> QED
    BY <2>1, <2>2
    DEF TermStep, TermCheck, TermBegin, TermStop, TermLayers, TermPower,
        TermDecon, DeconPower, DeconVerify, TermEnd, TermError
<1>2. inst'[o].vm = inst[o].vm /\ inst'[o].switch = inst[o].switch
  <2>1. CASE TermStop(t) \/ TermPower(t)
    BY <1>o, <2>1 DEF TermStop, TermPower, Instance
  <2>2. CASE TermLayers(t)
    <3>1. \/ inst' = inst
          \/ \E l : inst' = [inst EXCEPT ![o].layers = l]
      BY <2>2 DEF TermLayers
    <3> QED BY <1>o, <3>1 DEF Instance
  <2> QED
    BY <2>1, <2>2
    DEF TermStep, TermCheck, TermBegin, TermDecon, DeconPower, DeconDisk,
        DeconSwitch, DeconVm, DeconVerify, DeconStep, TermEnd, TermError
<1>3. idOf' = idOf
  BY TermFootprint DEF Footprint
<1> QED BY <1>1, <1>2, <1>3
=============================================================================
