-------------------------- MODULE DualBunkerProofs --------------------------
(***************************************************************************)
(* Theorems about DualBunker: two bunkers under one manager, for every set *)
(* of calling threads, every number of layers and every choice of failures.*)
(***************************************************************************)
EXTENDS DualBunkerProperties, BunkerProofs

-----------------------------------------------------------------------------
(* The inductive invariant behind AtMostOneActive and SessionIsNamed.       *)

\* places of start_session that are inside a method of the bunker it starts
Starting == {"first_init", "first_act", "rot_init", "rot_act"}

\* the bunker that t is starting
Target(t) == IF mgr[t] \in {"first_init", "first_act"} THEN B1 ELSE inactive

\* states from which a bunker may turn ACTIVE without a new initialize
Hot == {"INITIALIZING", "READY", "ACTIVE"}

Replies == {"true", "false", "raised"}

\* the two fields name the two bunkers, or none
Paired ==
  \/ active = NoObject /\ inactive = NoObject
  \/ active = B1 /\ inactive = B2
  \/ active = B2 /\ inactive = B1

FieldsAt(t) ==
  /\ mgr[t] \in {"first_init", "first_act"} => active = NoObject
  /\ mgr[t] \in {"rot_begin", "rot_init", "rot_act", "end_term"} =>
       active # NoObject
  /\ mgr[t] \in {"rot_begin", "rot_init", "rot_act"} => state[active] \notin Hot

\* a bunker method of t is one that the place of t in the manager calls
Calls(t, places, pcs, o) ==
  mgr[t] \in places /\ frame[t].pc # "idle" =>
    frame[t].pc \in pcs /\ frame[t].o = o

CallAt(t) ==
  /\ Calls(t, {"first_init", "rot_init"}, InitPcs, Target(t))
  /\ Calls(t, {"first_act", "rot_act"}, ActPcs, Target(t))
  /\ Calls(t, {"end_term"}, TermPcs, active)
  /\ mgr[t] \notin Starting \cup {"end_term"} =>
       frame[t].pc \in {"idle"} \cup QuarPcs

\* how far initialize, activate and terminate have brought the bunker, whatever
\* emergency_shutdown does to it in between
InitGot(t, o) ==
  frame[t].pc = "idle" =>
    \/ frame[t].result = "true" /\ state[o] = "READY"
    \/ frame[t].result \in {"false", "raised"} /\ state[o] \notin Hot

ActGot(t, o) ==
  /\ frame[t].pc \in {"act_check", "act_begin"} => state[o] = "READY"
  /\ frame[t].pc \in ActPcs \ {"act_check", "act_begin"} =>
       state[o] \notin {"INITIALIZING", "READY"}
  /\ frame[t].pc = "idle" =>
       \/ frame[t].result = "true" /\ state[o] \notin {"INITIALIZING", "READY"}
       \/ frame[t].result \in {"false", "raised"} /\ state[o] \notin Hot

TermGot(t, o) ==
  /\ state[o] \notin {"INITIALIZING", "READY"}
  /\ frame[t].pc \notin {"term_check", "term_begin"} => state[o] \notin Hot
  /\ frame[t].pc = "idle" => frame[t].result \in Replies

ProgressAt(t) ==
  /\ mgr[t] \in {"first_init", "rot_init"} => InitGot(t, Target(t))
  /\ mgr[t] \in {"first_act", "rot_act"} => ActGot(t, Target(t))
  /\ mgr[t] = "end_term" => TermGot(t, active)

\* A bunker is on the way to ACTIVE only as the one being started, and stays
\* ACTIVE only as the one that active_bunker names.
Accounted(o) ==
  state[o] \in Hot =>
    \/ \E t \in Threads : mgr[t] \in Starting /\ o = Target(t)
    \/ state[o] = "ACTIVE" /\ active = o

ManagerInv ==
  /\ ManagerTypeOK
  /\ BunkerInv
  /\ Paired
  /\ \A t \in Threads : FieldsAt(t) /\ CallAt(t) /\ ProgressAt(t)
  /\ \A o \in Objects : Accounted(o)

-----------------------------------------------------------------------------
(* What one step inside a bunker method does to the bunker and the answer.  *)

LEMMA InitOutline ==
  ASSUME TypeOK, NEW t \in Threads, NEW o \in Objects, Self(t) = o,
         InitStep(t)
  PROVE  Stays(t, o, InitPcs) /\ InitGot(t, o)'
<1> USE DEF At, Self, Goto
<1>a. Replies \subseteq Answers
  BY DualAssumption DEF DualAssumption, Replies
<1>p. frame[t].pc \in InitPcs /\ frame[t].pc # "idle"
  BY DEF InitStep, InitBegin, InitRaise, InitVerify, InitSwitch, InitVm,
         InitGuest, InitReady, CleanVm, CleanSwitch, CleanDisk, InitError,
         InitPcs
<1>o. /\ frame[t].o = o /\ state \in [Objects -> States!BunkerState]
      /\ frame \in [Threads -> Frame]
  BY <1>p DEF TypeOK
<1>1. CASE InitReady(t)
  BY <1>1, <1>a, <1>o
  DEF InitReady, TransitionTo, States!Move, Return, Idle, Stays, InitGot,
      Replies, InitPcs, Frame
<1>2. CASE InitError(t)
  BY <1>2, <1>a, <1>o
  DEF InitError, LastTransition, TransitionTo, Refused, States!Move,
      States!ValidNext, Return, Idle, Stays, InitGot, Replies, Hot
<1>3. CASE \E l \in InitPcs : frame'[t] = [frame[t] EXCEPT !.pc = l]
  <2>1. /\ frame'[t].pc \in InitPcs /\ frame'[t].pc # "idle"
        /\ frame'[t].o = o
    BY <1>3, <1>o DEF InitPcs, Frame
  <2> QED BY <2>1 DEF Stays, InitGot
<1>4. CASE InitRaise(t)
  <2>1. frame'[t].pc = "clean_vm" /\ frame'[t].o = o
    BY <1>4, <1>o DEF InitRaise, Frame
  <2> QED BY <2>1 DEF Stays, InitGot, InitPcs
<1>5. CASE \/ InitBegin(t) \/ InitVerify(t) \/ InitSwitch(t) \/ InitVm(t)
           \/ InitGuest(t) \/ CleanVm(t) \/ CleanSwitch(t) \/ CleanDisk(t)
  <2>1. \E l \in InitPcs : frame' = [frame EXCEPT ![t].pc = l]
    BY <1>5
    DEF InitBegin, Transition, InitVerify, InitSwitch, InitVm, InitGuest,
        CleanVm, CleanSwitch, CleanDisk, InitPcs
  <2> QED BY <2>1, <1>3, <1>o
<1> QED
  BY <1>1, <1>2, <1>4, <1>5 DEF InitStep

LEMMA ActOutline ==
  ASSUME TypeOK, NEW t \in Threads, NEW o \in Objects, Self(t) = o,
         ActStep(t), ActGot(t, o)
  PROVE  Stays(t, o, ActPcs) /\ ActGot(t, o)'
<1> USE DEF At, Self, Goto
<1>a. Replies \subseteq Answers
  BY DualAssumption DEF DualAssumption, Replies
<1>p. frame[t].pc \in ActPcs /\ frame[t].pc # "idle"
  BY DEF ActStep, ActCheck, ActBegin, ActLayer, ActRollback, ActLayersDone,
         ActMonitor, ActError, ActPcs
<1>o. /\ frame[t].o = o /\ state \in [Objects -> States!BunkerState]
      /\ frame \in [Threads -> Frame]
  BY <1>p DEF TypeOK
<1>1. CASE ActCheck(t)
  BY <1>1, <1>o DEF ActCheck, Frame, ActGot, Stays, ActPcs
<1>2. CASE ActBegin(t)
  BY <1>2, <1>a, <1>o
  DEF ActBegin, TransitionTo, Refused, States!Move, States!ValidNext, Frame,
      ActGot, Stays, ActPcs
<1>3. CASE ActLayer(t) \/ ActRollback(t) \/ ActLayersDone(t)
  <2>1. /\ frame'[t].pc \in ActPcs \ {"act_check", "act_begin"}
        /\ frame'[t].pc # "idle" /\ frame'[t].o = o /\ state' = state
    BY <1>3, <1>o DEF ActLayer, ActRollback, ActLayersDone, ActPcs, Frame
  <2>2. state[o] \notin {"INITIALIZING", "READY"}
    BY <1>3 DEF ActLayer, ActRollback, ActLayersDone, ActGot, ActPcs
  <2> QED BY <2>1, <2>2 DEF ActGot, Stays
<1>4. CASE ActMonitor(t)
  <2>1. state' = state /\ state[o] \notin {"INITIALIZING", "READY"}
    BY <1>4 DEF ActMonitor, ActGot, ActPcs
  <2>2. \/ frame' = [frame EXCEPT ![t].pc = "act_error"]
        \/ Return(t, "true")
    BY <1>4 DEF ActMonitor
  <2> QED
    BY <1>a, <1>o, <2>1, <2>2
    DEF Return, Idle, Frame, ActGot, Stays, ActPcs, Replies
<1>5. CASE ActError(t)
  BY <1>5, <1>a, <1>o
  DEF ActError, LastTransition, TransitionTo, Refused, States!Move,
      States!ValidNext, Return, Idle, Stays, ActGot, Replies, Hot, ActPcs
<1> QED
  BY <1>1, <1>2, <1>3, <1>4, <1>5 DEF ActStep

LEMMA TermOutline ==
  ASSUME TypeOK, NEW t \in Threads, NEW o \in Objects, Self(t) = o,
         TermStep(t), TermGot(t, o)
  PROVE  Stays(t, o, TermPcs) /\ TermGot(t, o)'
<1> USE DEF At, Self, Goto
<1>a. Replies \subseteq Answers
  BY DualAssumption DEF DualAssumption, Replies
<1>p. frame[t].pc \in TermPcs /\ frame[t].pc # "idle"
  BY DEF TermStep, TermCheck, TermBegin, TermStop, TermLayers, TermPower,
         TermDecon, DeconPower, DeconDisk, DeconSwitch, DeconVm, DeconVerify,
         TermEnd, TermError, TermPcs
<1>o. /\ frame[t].o = o /\ state \in [Objects -> States!BunkerState]
      /\ frame \in [Threads -> Frame]
  BY <1>p DEF TypeOK
<1>1. CASE TermCheck(t)
  BY <1>1, <1>o DEF TermCheck, Frame, TermGot, Stays, TermPcs, Hot
<1>2. CASE TermBegin(t)
  BY <1>2, <1>o
  DEF TermBegin, Transition, TransitionTo, Refused, States!Move,
      States!ValidNext, Frame, TermGot, Stays, TermPcs, Hot, States!BunkerState
<1>3. CASE TermStop(t) \/ TermLayers(t) \/ TermPower(t)
  <2>1. /\ frame'[t].pc \in TermPcs /\ frame'[t].pc # "idle"
        /\ frame'[t].o = o /\ state' = state /\ state[o] \notin Hot
    BY <1>3, <1>o
    DEF TermStop, TermLayers, TermPower, TermPcs, Frame, TermGot
  <2> QED BY <2>1 DEF TermGot, Stays, Hot
<1>4. CASE TermDecon(t)
  <2>1. frame'[t].pc \in {"decon_power", "term_error"} /\ frame'[t].o = o
    BY <1>4, <1>o DEF TermDecon, Frame
  <2>2. state[o] \notin Hot
    BY <1>4 DEF TermDecon, TermGot
  <2>3. state'[o] = state[o] \/ state'[o] = "DECONTAMINATING"
    BY <1>4, <1>o DEF TermDecon, TransitionTo, States!Move
  <2> QED BY <2>1, <2>2, <2>3 DEF TermGot, Stays, TermPcs, Hot
<1>5. CASE \/ DeconPower(t) \/ DeconDisk(t) \/ DeconSwitch(t) \/ DeconVm(t)
           \/ DeconVerify(t)
  <2>1. \E l \in TermPcs : \E ok : DeconStep(t, l, ok)
    BY <1>5
    DEF DeconPower, DeconDisk, DeconSwitch, DeconVm, DeconVerify, TermPcs
  <2>2. /\ frame'[t].pc \in TermPcs /\ frame'[t].pc # "idle"
        /\ frame'[t].o = o /\ state' = state
    BY <2>1, <1>o DEF DeconStep, TermPcs, Frame
  <2>3. state[o] \notin Hot
    BY <1>5
    DEF DeconPower, DeconDisk, DeconSwitch, DeconVm, DeconVerify, TermGot
  <2> QED BY <2>2, <2>3 DEF TermGot, Stays, Hot
<1>6. CASE TermEnd(t)
  <2>1. state[o] \notin Hot
    BY <1>6 DEF TermEnd, TermGot
  <2>2. state'[o] \in {state[o], "DESTROYED", "ERROR"}
    BY <1>6, <1>o DEF TermEnd, TransitionTo, States!Move
  <2>3. \/ frame' = [frame EXCEPT ![t].pc = "term_error"]
        \/ \E r \in {"true", "false"} : Return(t, r)
    BY <1>6 DEF TermEnd
  <2> QED
    BY <1>a, <1>o, <2>1, <2>2, <2>3
    DEF Return, Idle, Frame, TermGot, Stays, TermPcs, Replies, Hot
<1>7. CASE TermError(t)
  <2>1. state'[o] \notin Hot
    BY <1>7, <1>o
    DEF TermError, LastTransition, TransitionTo, Refused, States!Move,
        States!ValidNext, TermGot, Hot
  <2>2. \E r \in {"false", "raised"} : Return(t, r)
    BY <1>7 DEF TermError, LastTransition
  <2> QED
    BY <1>a, <1>o, <2>1, <2>2 DEF Return, Idle, TermGot, Stays, Replies, Hot
<1> QED
  BY <1>1, <1>2, <1>3, <1>4, <1>5, <1>6, <1>7 DEF TermStep

\* All that force_quarantine does to a bunker is to stop it.
Stopped(p) ==
  \/ state'[p] = state[p]
  \/ state[p] = "ACTIVE" /\ state'[p] = "QUARANTINE"

LEMMA QuarOutline ==
  ASSUME TypeOK, NEW t \in Threads, NEW o \in Objects, Self(t) = o,
         QuarStep(t)
  PROVE  Stays(t, o, QuarPcs) /\ \A p \in Objects : Stopped(p)
<1> USE DEF At, Self, Goto
<1>o. /\ frame[t].o = o /\ state \in [Objects -> States!BunkerState]
      /\ frame \in [Threads -> Frame]
  BY DEF TypeOK, QuarStep, QuarBegin, QuarStop
<1>1. CASE QuarBegin(t)
  <2>1. \/ frame' = [frame EXCEPT ![t].pc = "quar_stop"]
        \/ Return(t, "true")
    BY <1>1 DEF QuarBegin
  <2>2. Stays(t, o, QuarPcs)
    BY <1>o, <2>1 DEF Return, Idle, Stays, QuarPcs, Frame
  <2>3. ASSUME NEW p \in Objects PROVE Stopped(p)
    BY <1>1, <1>o
    DEF QuarBegin, TransitionTo, States!Move, States!ValidNext, Stopped,
        States!BunkerState
  <2> QED BY <2>2, <2>3
<1>2. CASE QuarStop(t)
  BY <1>2, <1>o DEF QuarStop, Return, Idle, Stays, Stopped
<1> QED
  BY <1>1, <1>2 DEF QuarStep

-----------------------------------------------------------------------------
(* Steps inside bunker methods keep the invariant.                          *)

\* at most one thread is between the acquisition and the release
LEMMA OneHolder ==
  ASSUME ManagerTypeOK, NEW t \in Threads, NEW u \in Threads,
         mgr[t] \in Locked, mgr[u] \in Locked
  PROVE  t = u
BY DEF ManagerTypeOK

\* A step of a bunker method moves only its bunker and its thread.
LEMMA BunkerStepLocal ==
  ASSUME ManagerInv, NEW t \in Threads, Step(t), NEW o \in Objects, Self(t) = o
  PROVE  /\ BunkerInv'
         /\ \A u \in Threads \ {t} : frame'[u] = frame[u]
         /\ \A p \in Objects \ {o} : state'[p] = state[p]
<1>1. BunkerInv /\ TypeOK /\ FreshStart
  BY DEF ManagerInv, BunkerInv
<1>2. Facts(t, o)
  BY <1>1, InitStepFacts, ActStepFacts, TermStepFacts, QuarStepFacts DEF Step
<1>3. BunkerInv'
  BY <1>1, NextInv DEF Next
<1> QED BY <1>2, <1>3 DEF Facts, Local

\* The thread that holds the lock moves the bunker its place in the manager
\* names, and the other one stays as it is.
LEMMA HolderStep ==
  ASSUME ManagerInv, NEW t \in Threads, Step(t), UNCHANGED managerVars,
         mgr[t] \in Starting \cup {"end_term"},
         NEW o \in Objects, Self(t) = o,
         o = IF mgr[t] = "end_term" THEN active ELSE Target(t),
         CallAt(t)', ProgressAt(t)'
  PROVE  ManagerInv'
<1> USE DEF managerVars
<1>1. /\ BunkerInv'
      /\ \A u \in Threads \ {t} : frame'[u] = frame[u]
      /\ \A p \in Objects \ {o} : state'[p] = state[p]
  BY BunkerStepLocal
<1>2. ManagerTypeOK'
  BY <1>1 DEF ManagerInv, ManagerTypeOK, BunkerInv
<1>3. Paired' /\ Target(t)' = Target(t)
  BY DEF ManagerInv, Paired, Target
<1>4. ASSUME NEW u \in Threads, u # t
      PROVE  FieldsAt(u)' /\ CallAt(u)' /\ ProgressAt(u)'
  <2>1. mgr[u] \notin Locked
    BY <1>4, OneHolder DEF ManagerInv, Starting, Locked
  <2>2. mgr'[u] = mgr[u] /\ frame'[u] = frame[u]
    BY <1>1, <1>4
  <2>3. CallAt(u)
    BY DEF ManagerInv
  <2> QED
    BY <2>1, <2>2, <2>3
    DEF FieldsAt, CallAt, Calls, ProgressAt, Locked, Starting
<1>5. FieldsAt(t)'
  <2>1. FieldsAt(t) /\ Paired
    BY DEF ManagerInv
  <2>2. B1 # B2 /\ NoObject \notin Objects /\ Objects = {B1, B2}
    BY DualAssumption, BunkerAssumption DEF DualAssumption, BunkerAssumption
  <2>3. CASE mgr[t] \in {"rot_init", "rot_act"}
    <3>1. active \in Objects \ {o}
      BY <2>1, <2>2, <2>3 DEF FieldsAt, Paired, Target
    <3> QED BY <1>1, <2>1, <2>3, <3>1 DEF FieldsAt
  <2>4. CASE mgr[t] \in {"first_init", "first_act", "end_term"}
    BY <2>1, <2>4 DEF FieldsAt
  <2> QED BY <2>3, <2>4 DEF Starting
<1>6. ASSUME NEW p \in Objects PROVE Accounted(p)'
  <2>1. Accounted(p)
    BY DEF ManagerInv
  <2>2. CASE mgr[t] \in Starting /\ p = o
    <3>1. p = Target(t)' /\ mgr'[t] \in Starting
      BY <1>3, <2>2 DEF Starting
    <3> QED BY <3>1 DEF Accounted
  <2>3. CASE mgr[t] = "end_term" /\ p = o
    <3>1. TermGot(t, o)'
      BY <2>3 DEF ProgressAt
    <3> QED BY <2>3, <3>1 DEF TermGot, Accounted, Hot
  <2>4. CASE p # o
    <3>1. state'[p] = state[p]
      BY <1>1, <2>4
    <3>2. \A u \in Threads : mgr[u] \in Starting => u = t
      BY OneHolder DEF ManagerInv, Starting, Locked
    <3>3. CASE \E u \in Threads : mgr[u] \in Starting /\ p = Target(u)
      BY <2>4, <3>2, <3>3 DEF Starting
    <3>4. CASE state[p] = "ACTIVE" /\ active = p
      BY <3>1, <3>4 DEF Accounted
    <3>5. CASE state[p] \notin Hot
      BY <3>1, <3>5 DEF Accounted
    <3> QED BY <2>1, <3>3, <3>4, <3>5 DEF Accounted
  <2> QED BY <2>2, <2>3, <2>4
<1> QED BY <1>1, <1>2, <1>3, <1>4, <1>5, <1>6 DEF ManagerInv

\* emergency_shutdown, which takes no lock, can only stop what another thread
\* is starting, using or ending.
LEMMA StopperStep ==
  ASSUME ManagerInv, NEW t \in Threads, QuarStep(t), UNCHANGED managerVars,
         mgr[t] \notin Starting \cup {"end_term"}
  PROVE  ManagerInv'
<1> USE DEF managerVars
<1>t. TypeOK
  BY DEF ManagerInv, BunkerInv
<1>q. Step(t)
  BY DEF Step
<1>o. PICK o \in Objects : Self(t) = o
  BY <1>t, <1>q, StepInside DEF TypeOK, Self
<1>1. /\ BunkerInv'
      /\ \A u \in Threads \ {t} : frame'[u] = frame[u]
  BY <1>o, <1>q, BunkerStepLocal
<1>2. Stays(t, o, QuarPcs) /\ \A p \in Objects : Stopped(p)
  BY <1>o, <1>t, QuarOutline
<1>3. ManagerTypeOK'
  BY <1>1 DEF ManagerInv, ManagerTypeOK, BunkerInv
<1>4. Paired' /\ \A u \in Threads : Target(u)' = Target(u)
  BY DEF ManagerInv, Paired, Target
<1>5. NoObject \notin Objects /\ Objects = {B1, B2}
  BY DualAssumption, BunkerAssumption DEF DualAssumption, BunkerAssumption
<1>6. FieldsAt(t)' /\ CallAt(t)' /\ ProgressAt(t)'
  <2>1. mgr'[t] = mgr[t] /\ FieldsAt(t)
    BY DEF ManagerInv
  <2>2. CASE mgr[t] = "rot_begin"
    <3>1. active \in Objects
      BY <1>5, <2>1, <2>2 DEF ManagerInv, Paired, FieldsAt
    <3>2. FieldsAt(t)'
      BY <1>2, <2>1, <2>2, <3>1 DEF FieldsAt, Stopped, Hot
    <3> QED
      BY <1>2, <2>1, <2>2, <3>2 DEF CallAt, Calls, ProgressAt, Stays, Starting
  <2>3. CASE mgr[t] # "rot_begin"
    BY <1>2, <2>1, <2>3
    DEF FieldsAt, CallAt, Calls, ProgressAt, Stays, Starting
  <2> QED BY <2>2, <2>3
<1>7. ASSUME NEW u \in Threads, u # t
      PROVE  FieldsAt(u)' /\ CallAt(u)' /\ ProgressAt(u)'
  <2>1. /\ mgr'[u] = mgr[u] /\ frame'[u] = frame[u] /\ active' = active
        /\ Target(u)' = Target(u)
    BY <1>1, <1>4, <1>7
  <2>2. FieldsAt(u) /\ CallAt(u) /\ ProgressAt(u) /\ Paired
    BY DEF ManagerInv
  <2>3. CallAt(u)'
    BY <2>1, <2>2 DEF CallAt, Calls
  <2>4. active # NoObject => Stopped(active)
    BY <1>2, <1>5, <2>2 DEF Paired
  <2>5. FieldsAt(u)'
    BY <2>1, <2>2, <2>4 DEF FieldsAt, Stopped, Hot
  <2>6. mgr[u] \in Starting => Stopped(Target(u))
    BY <1>2, <1>5, <2>2 DEF Starting, Target, Paired, FieldsAt
  <2>7. CASE mgr[u] \in {"first_init", "rot_init"}
    <3>1. InitGot(u, Target(u))'
      BY <2>1, <2>2, <2>6, <2>7
      DEF ProgressAt, InitGot, Stopped, Hot, Starting
    <3> QED BY <2>1, <2>3, <2>5, <2>7, <3>1 DEF ProgressAt
  <2>8. CASE mgr[u] \in {"first_act", "rot_act"}
    <3>1. ActGot(u, Target(u))'
      BY <2>1, <2>2, <2>6, <2>8
      DEF ProgressAt, ActGot, Stopped, Hot, Starting
    <3> QED BY <2>1, <2>3, <2>5, <2>8, <3>1 DEF ProgressAt
  <2>9. CASE mgr[u] = "end_term"
    <3>1. TermGot(u, active)'
      BY <2>1, <2>2, <2>4, <2>9
      DEF ProgressAt, FieldsAt, TermGot, Stopped, Hot
    <3> QED BY <2>1, <2>3, <2>5, <2>9, <3>1 DEF ProgressAt
  <2> QED BY <2>1, <2>3, <2>5, <2>7, <2>8, <2>9 DEF ProgressAt
<1>8. ASSUME NEW p \in Objects PROVE Accounted(p)'
  <2>1. Stopped(p) /\ Accounted(p) /\ mgr' = mgr /\ active' = active
    BY <1>2 DEF ManagerInv
  <2> QED BY <1>4, <2>1 DEF Accounted, Stopped, Hot
<1> QED BY <1>1, <1>3, <1>4, <1>6, <1>7, <1>8 DEF ManagerInv

LEMMA BunkerStepKeepsInv ==
  ASSUME ManagerInv, NEW t \in Threads, BunkerStep(t)
  PROVE  ManagerInv'
<1>t. TypeOK /\ CallAt(t) /\ ProgressAt(t) /\ Step(t) /\ UNCHANGED managerVars
  BY DEF ManagerInv, BunkerInv, BunkerStep
<1>o. PICK o \in Objects : Self(t) = o
  BY <1>t, StepInside DEF TypeOK, Self
<1>p. frame[t].pc # "idle"
  BY <1>t, StepInside
<1>s. /\ InitStep(t) => frame[t].pc \in InitPcs
      /\ ActStep(t) => frame[t].pc \in ActPcs
      /\ TermStep(t) => frame[t].pc \in TermPcs
      /\ QuarStep(t) => frame[t].pc \in QuarPcs
  BY StepPlace
<1>d. /\ InitPcs \cap (ActPcs \cup TermPcs \cup QuarPcs) = {}
      /\ ActPcs \cap (TermPcs \cup QuarPcs) = {} /\ TermPcs \cap QuarPcs = {}
  BY PlacesApart
<1>m. mgr'[t] = mgr[t] /\ Target(t)' = Target(t) /\ active' = active
  BY <1>t DEF managerVars, Target
<1>1. CASE mgr[t] \in {"first_init", "rot_init"}
  <2>1. InitStep(t) /\ o = Target(t)
    BY <1>1, <1>t, <1>o, <1>p, <1>s, <1>d DEF CallAt, Calls, Step, Self
  <2>2. Stays(t, o, InitPcs) /\ InitGot(t, o)'
    BY <2>1, <1>t, <1>o, InitOutline
  <2>3. CallAt(t)' /\ ProgressAt(t)'
    BY <1>1, <1>m, <2>1, <2>2 DEF CallAt, Calls, ProgressAt, Stays, Starting
  <2> QED BY <1>1, <1>t, <1>o, <2>1, <2>3, HolderStep DEF Starting
<1>2. CASE mgr[t] \in {"first_act", "rot_act"}
  <2>1. ActStep(t) /\ o = Target(t)
    BY <1>2, <1>t, <1>o, <1>p, <1>s, <1>d DEF CallAt, Calls, Step, Self
  <2>2. Stays(t, o, ActPcs) /\ ActGot(t, o)'
    BY <1>2, <2>1, <1>t, <1>o, ActOutline DEF ProgressAt
  <2>3. CallAt(t)' /\ ProgressAt(t)'
    BY <1>2, <1>m, <2>1, <2>2 DEF CallAt, Calls, ProgressAt, Stays, Starting
  <2> QED BY <1>2, <1>t, <1>o, <2>1, <2>3, HolderStep DEF Starting
<1>3. CASE mgr[t] = "end_term"
  <2>1. TermStep(t) /\ o = active
    BY <1>3, <1>t, <1>o, <1>p, <1>s, <1>d DEF CallAt, Calls, Step, Self
  <2>2. Stays(t, o, TermPcs) /\ TermGot(t, o)'
    BY <1>3, <2>1, <1>t, <1>o, TermOutline DEF ProgressAt
  <2>3. CallAt(t)' /\ ProgressAt(t)'
    BY <1>3, <1>m, <2>1, <2>2 DEF CallAt, Calls, ProgressAt, Stays, Starting
  <2> QED BY <1>3, <1>t, <1>o, <2>1, <2>3, HolderStep DEF Starting
<1>4. CASE mgr[t] \notin Starting \cup {"end_term"}
  <2>1. QuarStep(t)
    BY <1>4, <1>t, <1>p, <1>s, <1>d DEF CallAt, Step
  <2> QED BY <1>4, <1>t, <2>1, StopperStep
<1> QED BY <1>1, <1>2, <1>3, <1>4 DEF Starting

-----------------------------------------------------------------------------
(* Steps of the manager itself keep the invariant.                          *)

\* t is in no bunker method: it enters one, forgets an answer, or neither
Between(t) ==
  /\ At(t, "idle")
  /\ SameBunkers
  /\ \/ frame' = frame
     \/ frame' = [frame EXCEPT ![t] = Idle]
     \/ \E o \in Objects, e \in Entry : Enter(t, o, e)

LEMMA BetweenKeepsBunkerInv ==
  ASSUME BunkerInv, NEW t \in Threads, Between(t)
  PROVE  BunkerInv' /\ \A u \in Threads \ {t} : frame'[u] = frame[u]
<1>t. TypeOK /\ frame \in [Threads -> Frame]
  BY DEF BunkerInv, TypeOK
<1>1. CASE frame' = frame
  <2>1. UNCHANGED vars
    BY <1>1 DEF Between, SameBunkers, vars
  <2> QED BY <1>1, <2>1, NextInv
<1>2. CASE \E o \in Objects, e \in Entry : Enter(t, o, e)
  <2>1. PICK o \in Objects, e \in Entry : Call(t, o, e)
    BY <1>2 DEF Between, SameBunkers, Enter, Call
  <2>2. BunkerInv'
    BY <2>1, NextInv DEF Next
  <2> QED BY <1>t, <1>2, <2>2 DEF Enter
<1>3. CASE frame' = [frame EXCEPT ![t] = Idle]
  <2>1. 0 \in 0..NumLayers
    BY BunkerAssumption DEF BunkerAssumption
  <2>2. Idle \in Frame
    BY <2>1 DEF Idle, Frame
  <2>3. /\ \A u \in Threads \ {t} : frame'[u] = frame[u]
        /\ frame[t].pc = "idle" /\ frame'[t].pc = "idle"
        /\ frame' \in [Threads -> Frame]
    BY <1>t, <1>3, <2>2 DEF Between, At, Idle
  <2>4. TypeOK'
    BY <1>t, <2>3 DEF Between, SameBunkers, TypeOK
  <2>5. ASSUME NEW o \in Objects, NEW owners, "idle" \notin owners,
               NEW u \in Threads, In(u, o, owners)
        PROVE  In(u, o, owners)'
    BY <2>3, <2>5 DEF In
  <2>6. "idle" \notin InitOwner \cup Terminating \cup Disturbing
    BY DEF InitOwner, Terminating, Disturbing, InitPcs, TermPcs
  <2>7. TransientOwned' /\ FreshStart'
    BY <2>3, <2>5, <2>6
    DEF BunkerInv, TransientOwned, InitOwner, FreshStart, Between, SameBunkers
  <2>8. ASSUME NEW u \in Threads, Arming(u)
        PROVE  Arming(u)' /\ Self(u)' = Self(u)
    BY <2>3, <2>8 DEF Arming, At, Self, Between, SameBunkers
  <2>9. \A o \in Objects : Guarded(o)'
    BY <2>5, <2>6, <2>8
    DEF BunkerInv, Guarded, Armed, Between, SameBunkers
  <2> QED BY <2>3, <2>4, <2>7, <2>9 DEF BunkerInv
<1> QED BY <1>1, <1>2, <1>3 DEF Between

\* What is left to show of a step of the manager: what it does to the fields,
\* the lock and the place of its own thread.
LEMMA OwnStepKeepsInv ==
  ASSUME ManagerInv, NEW t \in Threads, Between(t),
         NEW l \in MgrPcs, MgrGoto(t, l),
         \/ UNCHANGED <<active, inactive>>
         \/ lock = t /\ Paired',
         \/ lock' = lock /\ (l \in Locked <=> lock = t)
         \/ lock = NoThread /\ lock' = t /\ l \in Locked
         \/ lock = t /\ lock' = NoThread /\ l \notin Locked,
         FieldsAt(t)', CallAt(t)', ProgressAt(t)',
         \A o \in Objects : Accounted(o)'
  PROVE  ManagerInv'
<1>a. NoThread \notin Threads /\ NoObject \notin Objects
      /\ Objects = {B1, B2}
  BY DualAssumption, BunkerAssumption DEF DualAssumption, BunkerAssumption
<1>i. ManagerTypeOK /\ BunkerInv /\ Paired
  BY DEF ManagerInv
<1>1. BunkerInv' /\ \A u \in Threads \ {t} : frame'[u] = frame[u]
  BY <1>i, BetweenKeepsBunkerInv
<1>2. /\ mgr \in [Threads -> MgrPcs] /\ mgr' \in [Threads -> MgrPcs]
      /\ mgr'[t] = l /\ \A u \in Threads \ {t} : mgr'[u] = mgr[u]
  BY <1>i DEF MgrGoto, ManagerTypeOK
<1>3. Paired'
  BY <1>i DEF Paired
<1>4. ManagerTypeOK'
  <2>1. TypeOK' /\ {active', inactive'} \subseteq Objects \cup {NoObject}
    BY <1>1, <1>3, <1>a DEF BunkerInv, Paired
  <2>2. lock' \in Threads \cup {NoThread}
    BY <1>i DEF ManagerTypeOK
  <2>3. ASSUME NEW u \in Threads PROVE mgr'[u] \in Locked <=> lock' = u
    BY <1>a, <1>i, <1>2 DEF ManagerTypeOK
  <2> QED BY <1>2, <2>1, <2>2, <2>3 DEF ManagerTypeOK
<1>5. ASSUME NEW u \in Threads, u # t
      PROVE  FieldsAt(u)' /\ CallAt(u)' /\ ProgressAt(u)'
  <2>1. mgr'[u] = mgr[u] /\ frame'[u] = frame[u] /\ state' = state
    BY <1>1, <1>2, <1>5 DEF Between, SameBunkers
  <2>2. FieldsAt(u) /\ CallAt(u) /\ ProgressAt(u)
    BY DEF ManagerInv
  <2>3. CASE UNCHANGED <<active, inactive>>
    <3>1. Target(u)' = Target(u)
      BY <2>1, <2>3 DEF Target
    <3>2. CallAt(u)' /\ FieldsAt(u)'
      BY <2>1, <2>2, <2>3, <3>1 DEF FieldsAt, CallAt, Calls
    <3>3. ProgressAt(u)'
      BY <2>1, <2>2, <2>3, <3>1 DEF ProgressAt, InitGot, ActGot, TermGot
    <3> QED BY <3>2, <3>3
  <2>4. CASE lock = t
    <3>1. mgr[u] \notin Locked
      BY <1>a, <1>i, <1>5, <2>4 DEF ManagerTypeOK
    <3> QED
      BY <2>1, <2>2, <3>1
      DEF FieldsAt, CallAt, Calls, ProgressAt, Locked, Starting
  <2> QED BY <2>3, <2>4
<1> QED BY <1>1, <1>3, <1>4, <1>5 DEF ManagerInv

\* the other threads and their bunkers are accounted for as before
LEMMA AccountKept ==
  ASSUME ManagerInv, NEW t \in Threads, Between(t), NEW l, MgrGoto(t, l),
         UNCHANGED <<active, inactive>>,
         \/ mgr[t] \notin Starting
         \/ l \in Starting /\ Target(t)' = Target(t)
         \/ state[Target(t)] \notin Hot
  PROVE  \A o \in Objects : Accounted(o)'
<1> SUFFICES ASSUME NEW o \in Objects, state'[o] \in Hot
             PROVE  \/ \E u \in Threads :
                         mgr'[u] \in Starting /\ o = Target(u)'
                    \/ state'[o] = "ACTIVE" /\ active' = o
  BY DEF Accounted
<1>1. state' = state /\ Accounted(o) /\ mgr \in [Threads -> MgrPcs]
  BY DEF Between, SameBunkers, ManagerInv, ManagerTypeOK
<1>2. /\ mgr'[t] = l
      /\ \A u \in Threads \ {t} : mgr'[u] = mgr[u] /\ Target(u)' = Target(u)
  BY <1>1 DEF MgrGoto, Target
<1>3. CASE \E u \in Threads : mgr[u] \in Starting /\ o = Target(u)
  <2>1. PICK u \in Threads : mgr[u] \in Starting /\ o = Target(u)
    BY <1>3
  <2>2. CASE u = t
    BY <1>1, <1>2, <2>1, <2>2
  <2>3. CASE u # t
    BY <1>2, <2>1, <2>3
  <2> QED BY <2>2, <2>3
<1>4. CASE state[o] = "ACTIVE" /\ active = o
  BY <1>1, <1>4
<1> QED BY <1>1, <1>3, <1>4 DEF Accounted

\* A thread that holds the lock without starting a bunker finds only the
\* active one hot, and that one ACTIVE.
LEMMA QuietHolder ==
  ASSUME ManagerInv, NEW t \in Threads, mgr[t] \in Locked \ Starting,
         NEW o \in Objects, state[o] \in Hot
  PROVE  state[o] = "ACTIVE" /\ active = o
<1>1. \A u \in Threads : mgr[u] \in Starting => u = t
  BY OneHolder DEF ManagerInv, Starting, Locked
<1> QED BY <1>1 DEF ManagerInv, Accounted

\* The thread that starts a bunker finds only that one or the active one hot.
LEMMA StartingHolder ==
  ASSUME ManagerInv, NEW t \in Threads, mgr[t] \in Starting,
         NEW o \in Objects, state[o] \in Hot
  PROVE  o = Target(t) \/ (state[o] = "ACTIVE" /\ active = o)
<1>1. \A u \in Threads : mgr[u] \in Starting => u = t
  BY OneHolder DEF ManagerInv, Starting, Locked
<1> QED BY <1>1 DEF ManagerInv, Accounted

LEMMA StartStepKeepsInv ==
  ASSUME ManagerInv, NEW t \in Threads,
         \/ StartLock(t) \/ StartFirst(t) \/ FirstActivate(t) \/ FirstDone(t)
         \/ StartBusy(t) \/ StartRotation(t) \/ RotBegin(t) \/ RotActivate(t)
         \/ RotDone(t) \/ StartFailed(t)
  PROVE  ManagerInv'
<1>i. /\ ManagerTypeOK /\ BunkerInv /\ Paired /\ TypeOK
      /\ FieldsAt(t) /\ CallAt(t) /\ ProgressAt(t)
  BY DEF ManagerInv, BunkerInv
<1>n. /\ NoObject \notin Objects /\ Objects = {B1, B2} /\ B1 # B2
      /\ NoThread \notin Threads
  BY DualAssumption, BunkerAssumption DEF DualAssumption, BunkerAssumption
<1>h. /\ mgr[t] \in Locked <=> lock = t
      /\ mgr \in [Threads -> MgrPcs] /\ frame \in [Threads -> Frame]
  BY <1>i DEF ManagerTypeOK, TypeOK
<1>e. {"init_begin", "act_check"} \subseteq Entry
  BY DEF Entry
<1>1. CASE StartLock(t)
  <2>1. Between(t) /\ UNCHANGED <<active, inactive>> /\ mgr[t] = "start_lock"
    BY <1>1 DEF StartLock, Acquire, Between, MgrAt, SameBunkers
  <2>2. MgrGoto(t, "start_check") /\ lock = NoThread /\ lock' = t
    BY <1>1 DEF StartLock, Acquire
  <2>3. FieldsAt(t)' /\ CallAt(t)' /\ ProgressAt(t)'
    BY <2>1, <2>2, <1>h, <1>1
    DEF MgrGoto, FieldsAt, CallAt, Calls, ProgressAt, Starting, StartLock,
        Acquire, MgrAt, At
  <2>4. \A o \in Objects : Accounted(o)'
    BY <2>1, <2>2, AccountKept DEF Starting
  <2> QED BY <2>1, <2>2, <2>3, <2>4, OwnStepKeepsInv DEF MgrPcs, Locked
<1>2. CASE StartFirst(t)
  <2>1. /\ Between(t) /\ UNCHANGED <<active, inactive, lock>>
        /\ mgr[t] = "start_check" /\ active = NoObject
    BY <1>2, <1>n, <1>e DEF StartFirst, Between, MgrAt
  <2>2. MgrGoto(t, "first_init") /\ mgr'[t] = "first_init" /\ Target(t)' = B1
    BY <1>2, <1>h DEF StartFirst, MgrGoto, Target
  <2>3. frame'[t].pc = "init_begin" /\ frame'[t].o = B1
    BY <1>2, <1>h DEF StartFirst, Enter, Idle
  <2>4. FieldsAt(t)' /\ CallAt(t)' /\ ProgressAt(t)'
    BY <2>1, <2>2, <2>3
    DEF FieldsAt, CallAt, Calls, ProgressAt, Starting, InitPcs, InitGot
  <2>5. \A o \in Objects : Accounted(o)'
    BY <2>1, <2>2, AccountKept DEF Starting
  <2> QED
    BY <1>h, <2>1, <2>2, <2>4, <2>5, OwnStepKeepsInv DEF MgrPcs, Locked
<1>3. CASE FirstActivate(t)
  <2>1. /\ Between(t) /\ UNCHANGED <<active, inactive, lock>>
        /\ mgr[t] = "first_init" /\ state' = state
    BY <1>3, <1>n, <1>e
    DEF FirstActivate, Answered, Between, MgrAt, SameBunkers
  <2>2. /\ MgrGoto(t, "first_act") /\ mgr'[t] = "first_act"
        /\ Target(t)' = B1 /\ Target(t) = B1
    BY <1>3, <1>h, <2>1 DEF FirstActivate, MgrGoto, Target
  <2>3. frame'[t].pc = "act_check" /\ frame'[t].o = B1
    BY <1>3, <1>h DEF FirstActivate, Enter, Idle
  <2>4. state[B1] = "READY"
    BY <1>3, <1>i, <2>1, <2>2
    DEF FirstActivate, Answered, MgrAt, At, ProgressAt, InitGot
  <2>5. FieldsAt(t)' /\ CallAt(t)' /\ ProgressAt(t)'
    BY <1>i, <2>1, <2>2, <2>3, <2>4
    DEF FieldsAt, CallAt, Calls, ProgressAt, Starting, ActPcs, ActGot
  <2>6. \A o \in Objects : Accounted(o)'
    BY <2>1, <2>2, AccountKept DEF Starting
  <2> QED
    BY <1>h, <2>1, <2>2, <2>5, <2>6, OwnStepKeepsInv DEF MgrPcs, Locked
<1>4. CASE FirstDone(t)
  <2>1. /\ Between(t) /\ lock' = NoThread /\ active' = B1 /\ inactive' = B2
        /\ mgr[t] = "first_act" /\ state' = state /\ frame[t].pc = "idle"
        /\ frame[t].result = "true"
    BY <1>4
    DEF FirstDone, Answered, Between, MgrAt, At, SameBunkers, Release
  <2>2. MgrGoto(t, "idle") /\ mgr'[t] = "idle" /\ Target(t) = B1
    BY <1>4, <1>h, <2>1 DEF FirstDone, Release, MgrGoto, Target
  <2>3. frame'[t].pc = "idle"
    BY <1>4, <1>h DEF FirstDone, Release, Idle
  <2>4. state[B1] \notin {"INITIALIZING", "READY"} /\ active = NoObject
    BY <1>i, <2>1, <2>2 DEF ProgressAt, ActGot, FieldsAt
  <2>5. FieldsAt(t)' /\ CallAt(t)' /\ ProgressAt(t)'
    BY <2>2, <2>3 DEF FieldsAt, CallAt, Calls, ProgressAt, Starting
  <2>6. ASSUME NEW o \in Objects PROVE Accounted(o)'
    BY <1>n, <2>1, <2>2, <2>4, StartingHolder DEF Accounted, Hot, Starting
  <2> QED
    BY <1>h, <2>1, <2>2, <2>5, <2>6, OwnStepKeepsInv
    DEF MgrPcs, Locked, Paired
<1>5. CASE StartBusy(t)
  <2>1. /\ Between(t) /\ lock' = NoThread /\ UNCHANGED <<active, inactive>>
        /\ mgr[t] = "start_check"
    BY <1>5 DEF StartBusy, Between, MgrAt, Release
  <2>2. MgrGoto(t, "idle") /\ mgr'[t] = "idle" /\ frame'[t].pc = "idle"
    BY <1>5, <1>h DEF StartBusy, Release, MgrGoto, Idle
  <2>3. FieldsAt(t)' /\ CallAt(t)' /\ ProgressAt(t)'
    BY <2>2 DEF FieldsAt, CallAt, Calls, ProgressAt, Starting
  <2>4. \A o \in Objects : Accounted(o)'
    BY <2>1, <2>2, AccountKept DEF Starting
  <2> QED
    BY <1>h, <2>1, <2>2, <2>3, <2>4, OwnStepKeepsInv DEF MgrPcs, Locked
<1>6. CASE StartRotation(t)
  <2>1. /\ Between(t) /\ UNCHANGED <<active, inactive, lock>>
        /\ mgr[t] = "start_check" /\ active # NoObject
        /\ state[active] # "ACTIVE" /\ state' = state
    BY <1>6 DEF StartRotation, Between, MgrAt, SameBunkers
  <2>2. /\ MgrGoto(t, "rot_begin") /\ mgr'[t] = "rot_begin"
        /\ frame'[t].pc = "idle"
    BY <1>6, <1>h DEF StartRotation, MgrGoto, MgrAt, At
  <2>3. state[active] \notin Hot
    BY <1>i, <1>n, <2>1, QuietHolder DEF Paired, Locked, Starting
  <2>4. FieldsAt(t)' /\ CallAt(t)' /\ ProgressAt(t)'
    BY <2>1, <2>2, <2>3 DEF FieldsAt, CallAt, Calls, ProgressAt, Starting
  <2>5. \A o \in Objects : Accounted(o)'
    BY <2>1, <2>2, AccountKept DEF Starting
  <2> QED
    BY <1>h, <2>1, <2>2, <2>4, <2>5, OwnStepKeepsInv DEF MgrPcs, Locked
<1>7. CASE RotBegin(t)
  <2>1. inactive \in Objects /\ mgr[t] = "rot_begin" /\ active # NoObject
    BY <1>7, <1>i, <1>n DEF RotBegin, MgrAt, FieldsAt, Paired
  <2>2. Between(t) /\ UNCHANGED <<active, inactive, lock>> /\ state' = state
    BY <1>7, <1>e, <2>1 DEF RotBegin, Between, MgrAt, SameBunkers
  <2>3. /\ MgrGoto(t, "rot_init") /\ mgr'[t] = "rot_init"
        /\ Target(t)' = inactive
    BY <1>7, <1>h, <2>2 DEF RotBegin, MgrGoto, Target
  <2>4. frame'[t].pc = "init_begin" /\ frame'[t].o = inactive
    BY <1>7, <1>h DEF RotBegin, Enter, Idle
  <2>5. FieldsAt(t)' /\ CallAt(t)' /\ ProgressAt(t)'
    BY <1>i, <2>1, <2>2, <2>3, <2>4
    DEF FieldsAt, CallAt, Calls, ProgressAt, Starting, InitPcs, InitGot
  <2>6. \A o \in Objects : Accounted(o)'
    BY <2>1, <2>2, <2>3, AccountKept DEF Starting
  <2> QED
    BY <1>h, <2>1, <2>2, <2>3, <2>5, <2>6, OwnStepKeepsInv DEF MgrPcs, Locked
<1>8. CASE RotActivate(t)
  <2>1. inactive \in Objects /\ mgr[t] = "rot_init" /\ active # NoObject
    BY <1>8, <1>i, <1>n DEF RotActivate, Answered, MgrAt, FieldsAt, Paired
  <2>2. Between(t) /\ UNCHANGED <<active, inactive, lock>> /\ state' = state
    BY <1>8, <1>e, <2>1 DEF RotActivate, Answered, Between, MgrAt, SameBunkers
  <2>3. /\ MgrGoto(t, "rot_act") /\ mgr'[t] = "rot_act"
        /\ Target(t)' = inactive /\ Target(t) = inactive
    BY <1>8, <1>h, <2>1, <2>2 DEF RotActivate, MgrGoto, Target
  <2>4. frame'[t].pc = "act_check" /\ frame'[t].o = inactive
    BY <1>8, <1>h DEF RotActivate, Enter, Idle
  <2>5. state[inactive] = "READY"
    BY <1>8, <1>i, <2>1, <2>3
    DEF RotActivate, Answered, MgrAt, At, ProgressAt, InitGot
  <2>6. FieldsAt(t)' /\ CallAt(t)' /\ ProgressAt(t)'
    BY <1>i, <2>1, <2>2, <2>3, <2>4, <2>5
    DEF FieldsAt, CallAt, Calls, ProgressAt, Starting, ActPcs, ActGot
  <2>7. \A o \in Objects : Accounted(o)'
    BY <2>1, <2>2, <2>3, AccountKept DEF Starting
  <2> QED
    BY <1>h, <2>1, <2>2, <2>3, <2>6, <2>7, OwnStepKeepsInv DEF MgrPcs, Locked
<1>9. CASE RotDone(t)
  <2>1. /\ Between(t) /\ lock' = NoThread /\ mgr[t] = "rot_act"
        /\ active' = inactive /\ inactive' = active /\ state' = state
        /\ frame[t].pc = "idle" /\ frame[t].result = "true"
    BY <1>9 DEF RotDone, Answered, Between, MgrAt, At, SameBunkers, Release
  <2>2. MgrGoto(t, "idle") /\ mgr'[t] = "idle" /\ Target(t) = inactive
    BY <1>9, <1>h, <2>1 DEF RotDone, Release, MgrGoto, Target
  <2>3. frame'[t].pc = "idle"
    BY <1>9, <1>h DEF RotDone, Release, Idle
  <2>4. /\ state[inactive] \notin {"INITIALIZING", "READY"}
        /\ active # NoObject /\ state[active] \notin Hot
    BY <1>i, <2>1, <2>2 DEF ProgressAt, ActGot, FieldsAt
  <2>5. FieldsAt(t)' /\ CallAt(t)' /\ ProgressAt(t)'
    BY <2>2, <2>3 DEF FieldsAt, CallAt, Calls, ProgressAt, Starting
  <2>6. ASSUME NEW o \in Objects PROVE Accounted(o)'
    BY <1>n, <2>1, <2>2, <2>4, StartingHolder DEF Accounted, Hot, Starting
  <2>7. Paired'
    BY <1>i, <2>1 DEF Paired
  <2> QED
    BY <1>h, <2>1, <2>2, <2>5, <2>6, <2>7, OwnStepKeepsInv DEF MgrPcs, Locked
<1>10. CASE StartFailed(t)
  <2>1. /\ Between(t) /\ lock' = NoThread /\ UNCHANGED <<active, inactive>>
        /\ mgr[t] \in Starting /\ frame[t].pc = "idle"
        /\ frame[t].result \in {"false", "raised"}
    BY <1>10
    DEF StartFailed, Answered, Between, MgrAt, At, Release, Starting
  <2>2. MgrGoto(t, "idle") /\ mgr'[t] = "idle" /\ frame'[t].pc = "idle"
    BY <1>10, <1>h DEF StartFailed, Release, MgrGoto, Idle
  <2>3. state[Target(t)] \notin Hot
    BY <1>i, <2>1 DEF ProgressAt, InitGot, ActGot, Starting
  <2>4. FieldsAt(t)' /\ CallAt(t)' /\ ProgressAt(t)'
    BY <2>2 DEF FieldsAt, CallAt, Calls, ProgressAt, Starting
  <2>5. \A o \in Objects : Accounted(o)'
    BY <2>1, <2>2, <2>3, AccountKept
  <2> QED
    BY <1>h, <2>1, <2>2, <2>4, <2>5, OwnStepKeepsInv
    DEF MgrPcs, Locked, Starting
<1> QED
  BY <1>1, <1>2, <1>3, <1>4, <1>5, <1>6, <1>7, <1>8, <1>9, <1>10

LEMMA EndStepKeepsInv ==
  ASSUME ManagerInv, NEW t \in Threads,
         EndLock(t) \/ EndNone(t) \/ EndTerminate(t) \/ EndDone(t)
  PROVE  ManagerInv'
<1>i. /\ ManagerTypeOK /\ BunkerInv /\ Paired /\ TypeOK
      /\ FieldsAt(t) /\ CallAt(t) /\ ProgressAt(t)
  BY DEF ManagerInv, BunkerInv
<1>n. /\ NoObject \notin Objects /\ Objects = {B1, B2} /\ B1 # B2
      /\ NoThread \notin Threads
  BY DualAssumption, BunkerAssumption DEF DualAssumption, BunkerAssumption
<1>h. /\ mgr[t] \in Locked <=> lock = t
      /\ mgr \in [Threads -> MgrPcs] /\ frame \in [Threads -> Frame]
  BY <1>i DEF ManagerTypeOK, TypeOK
<1>1. CASE EndLock(t)
  <2>1. Between(t) /\ UNCHANGED <<active, inactive>> /\ mgr[t] = "end_lock"
    BY <1>1 DEF EndLock, Acquire, Between, MgrAt, SameBunkers
  <2>2. MgrGoto(t, "end_check") /\ lock = NoThread /\ lock' = t
    BY <1>1 DEF EndLock, Acquire
  <2>3. FieldsAt(t)' /\ CallAt(t)' /\ ProgressAt(t)'
    BY <2>1, <2>2, <1>h, <1>1
    DEF MgrGoto, FieldsAt, CallAt, Calls, ProgressAt, Starting, EndLock,
        Acquire, MgrAt, At
  <2>4. \A o \in Objects : Accounted(o)'
    BY <2>1, <2>2, AccountKept DEF Starting
  <2> QED BY <2>1, <2>2, <2>3, <2>4, OwnStepKeepsInv DEF MgrPcs, Locked
<1>2. CASE EndNone(t)
  <2>1. /\ Between(t) /\ lock' = NoThread /\ UNCHANGED <<active, inactive>>
        /\ mgr[t] = "end_check"
    BY <1>2 DEF EndNone, Between, MgrAt, Release
  <2>2. MgrGoto(t, "idle") /\ mgr'[t] = "idle" /\ frame'[t].pc = "idle"
    BY <1>2, <1>h DEF EndNone, Release, MgrGoto, Idle
  <2>3. FieldsAt(t)' /\ CallAt(t)' /\ ProgressAt(t)'
    BY <2>2 DEF FieldsAt, CallAt, Calls, ProgressAt, Starting
  <2>4. \A o \in Objects : Accounted(o)'
    BY <2>1, <2>2, AccountKept DEF Starting
  <2> QED
    BY <1>h, <2>1, <2>2, <2>3, <2>4, OwnStepKeepsInv DEF MgrPcs, Locked
<1>3. CASE EndTerminate(t)
  <2>1. /\ active \in Objects /\ mgr[t] = "end_check" /\ active # NoObject
        /\ "term_check" \in Entry
    BY <1>3, <1>i, <1>n DEF EndTerminate, MgrAt, Paired, Entry
  <2>2. Between(t) /\ UNCHANGED <<active, inactive, lock>> /\ state' = state
    BY <1>3, <2>1 DEF EndTerminate, Between, MgrAt, SameBunkers
  <2>3. MgrGoto(t, "end_term") /\ mgr'[t] = "end_term"
    BY <1>3, <1>h DEF EndTerminate, MgrGoto
  <2>4. frame'[t].pc = "term_check" /\ frame'[t].o = active
    BY <1>3, <1>h DEF EndTerminate, Enter, Idle
  <2>5. state[active] \notin {"INITIALIZING", "READY"}
    BY <2>1, QuietHolder DEF Locked, Starting, Hot
  <2>6. FieldsAt(t)' /\ CallAt(t)' /\ ProgressAt(t)'
    BY <2>1, <2>2, <2>3, <2>4, <2>5
    DEF FieldsAt, CallAt, Calls, ProgressAt, Starting, TermPcs, TermGot
  <2>7. \A o \in Objects : Accounted(o)'
    BY <2>1, <2>2, <2>3, AccountKept DEF Starting
  <2> QED
    BY <1>h, <2>1, <2>2, <2>3, <2>6, <2>7, OwnStepKeepsInv DEF MgrPcs, Locked
<1>4. CASE EndDone(t)
  <2>1. /\ Between(t) /\ lock' = NoThread /\ mgr[t] = "end_term"
        /\ \/ UNCHANGED <<active, inactive>>
           \/ active' = NoObject /\ inactive' = NoObject
        /\ state' = state /\ frame[t].pc = "idle"
    BY <1>4 DEF EndDone, Between, MgrAt, At, SameBunkers, Release
  <2>2. MgrGoto(t, "idle") /\ mgr'[t] = "idle" /\ frame'[t].pc = "idle"
    BY <1>4, <1>h DEF EndDone, Release, MgrGoto, Idle
  <2>3. active \in Objects /\ state[active] \notin Hot
    BY <1>i, <1>n, <2>1 DEF ProgressAt, TermGot, FieldsAt, Paired
  <2>4. FieldsAt(t)' /\ CallAt(t)' /\ ProgressAt(t)'
    BY <2>2 DEF FieldsAt, CallAt, Calls, ProgressAt, Starting
  <2>5. ASSUME NEW o \in Objects PROVE Accounted(o)'
    BY <2>1, <2>3, QuietHolder DEF Accounted, Locked, Starting
  <2>6. Paired'
    BY <1>i, <2>1 DEF Paired
  <2> QED
    BY <1>h, <2>1, <2>2, <2>4, <2>5, <2>6, OwnStepKeepsInv DEF MgrPcs, Locked
<1> QED BY <1>1, <1>2, <1>3, <1>4

LEMMA StopStepKeepsInv ==
  ASSUME ManagerInv, NEW t \in Threads,
         \/ \E l \in {"start_lock", "end_lock", "stop_active"} : Invoke(t, l)
         \/ StopActive(t) \/ StopInactive(t) \/ StopReturn(t)
  PROVE  ManagerInv'
<1> DEFINE Free == MgrPcs \ (Locked \cup Starting \cup {"end_term"})
<1>i. ManagerTypeOK /\ BunkerInv /\ Paired /\ TypeOK
  BY DEF ManagerInv, BunkerInv
<1>n. NoObject \notin Objects /\ Objects = {B1, B2}
  BY DualAssumption, BunkerAssumption DEF DualAssumption, BunkerAssumption
<1>h. /\ mgr[t] \in Locked <=> lock = t
      /\ mgr \in [Threads -> MgrPcs] /\ frame \in [Threads -> Frame]
  BY <1>i DEF ManagerTypeOK, TypeOK
<1>f. {"idle", "start_lock", "end_lock", "stop_active", "stop_active_call",
       "stop_inactive", "stop_inactive_call", "stop_done"} \subseteq Free
  BY DEF MgrPcs, Locked, Starting
<1>1. ASSUME NEW l \in Free, mgr[t] \in Free, MgrGoto(t, l), Between(t),
             UNCHANGED <<active, inactive, lock>>,
             frame'[t].pc \in {"idle", "quar_begin"}
      PROVE  ManagerInv'
  <2>1. mgr'[t] = l
    BY <1>1, <1>h DEF MgrGoto
  <2>2. l \notin {"rot_begin"} \cup Starting \cup {"end_term"} /\ l \notin Locked
        /\ l \in MgrPcs
    BY <1>1 DEF Locked
  <2>3. FieldsAt(t)' /\ CallAt(t)' /\ ProgressAt(t)'
    BY <1>1, <2>1, <2>2
    DEF FieldsAt, CallAt, Calls, ProgressAt, Starting, QuarPcs
  <2>4. \A o \in Objects : Accounted(o)'
    BY <1>1, AccountKept
  <2> HIDE DEF Free
  <2>5. mgr[t] \notin Locked
    BY <1>1 DEF Free
  <2> QED BY <1>1, <1>h, <2>2, <2>3, <2>4, <2>5, OwnStepKeepsInv
<1>2. ASSUME NEW at \in Free, NEW call \in Free, NEW next \in Free, NEW field,
             StopLook(t, at, field, call, next)
      PROVE  ManagerInv'
  <2>1. PICK l \in {call, next} : MgrGoto(t, l)
    BY <1>2 DEF StopLook
  <2>2. /\ Between(t) /\ UNCHANGED <<active, inactive, lock>> /\ mgr[t] = at
        /\ frame'[t].pc = "idle"
    BY <1>2 DEF StopLook, Between, MgrAt, At
  <2> HIDE DEF Free
  <2> QED BY <1>1, <1>2, <2>1, <2>2
<1>3. ASSUME NEW at \in Free, NEW next \in Free, NEW field,
             field \in Objects \cup {NoObject}, StopCall(t, at, field, next)
      PROVE  ManagerInv'
  <2>1. PICK l \in {"idle", next} : MgrGoto(t, l)
    BY <1>3 DEF StopCall
  <2>2. \/ frame' = frame
        \/ field \in Objects /\ Enter(t, field, "quar_begin")
    BY <1>3 DEF StopCall
  <2>3. /\ Between(t) /\ UNCHANGED <<active, inactive, lock>> /\ mgr[t] = at
    BY <1>3, <2>2 DEF StopCall, Between, MgrAt, Entry
  <2>4. frame'[t].pc \in {"idle", "quar_begin"}
    BY <1>h, <2>2, <2>3 DEF Enter, Idle, Between, At
  <2>5. l \in Free
    BY <1>f, <1>3, <2>1
  <2> HIDE DEF Free
  <2> QED BY <1>1, <1>3, <2>1, <2>3, <2>4, <2>5
<1>4. active \in Objects \cup {NoObject} /\ inactive \in Objects \cup {NoObject}
  BY <1>n, <1>i DEF Paired
<1>5. CASE \E l \in {"start_lock", "end_lock", "stop_active"} : Invoke(t, l)
  <2>1. PICK l \in {"start_lock", "end_lock", "stop_active"} : Invoke(t, l)
    BY <1>5
  <2>2. /\ Between(t) /\ UNCHANGED <<active, inactive, lock>>
        /\ mgr[t] = "idle" /\ MgrGoto(t, l) /\ frame'[t].pc = "idle"
    BY <2>1 DEF Invoke, Between, MgrAt, At
  <2>3. l \in Free /\ mgr[t] \in Free
    BY <1>f, <2>1, <2>2
  <2> HIDE DEF Free
  <2> QED BY <1>1, <2>2, <2>3
<1>6. CASE StopActive(t)
  <2> HIDE DEF Free
  <2> QED BY <1>2, <1>3, <1>4, <1>6, <1>f DEF StopActive
<1>7. CASE StopInactive(t)
  <2> HIDE DEF Free
  <2> QED BY <1>2, <1>3, <1>4, <1>7, <1>f DEF StopInactive
<1>8. CASE StopReturn(t)
  <2>1. /\ Between(t) /\ UNCHANGED <<active, inactive, lock>>
        /\ mgr[t] = "stop_done" /\ MgrGoto(t, "idle")
    BY <1>8 DEF StopReturn, Between, MgrAt
  <2>2. frame'[t].pc = "idle"
    BY <1>8, <1>h DEF StopReturn, Idle
  <2> HIDE DEF Free
  <2> QED BY <1>1, <1>f, <2>1, <2>2
<1> QED BY <1>5, <1>6, <1>7, <1>8

LEMMA ManagerInitInv == ManagerInit => ManagerInv
<1> SUFFICES ASSUME ManagerInit PROVE ManagerInv
  OBVIOUS
<1>1. BunkerInv /\ TypeOK
  BY InitInv DEF ManagerInit, BunkerInv
<1>2. NoThread \notin Threads
  BY DualAssumption DEF DualAssumption
<1>3. ManagerTypeOK
  BY <1>1, <1>2 DEF ManagerInit, ManagerTypeOK, MgrPcs, Locked
<1>4. Paired
  BY DEF ManagerInit, Paired
<1>5. ASSUME NEW t \in Threads
      PROVE  FieldsAt(t) /\ CallAt(t) /\ ProgressAt(t)
  BY DEF ManagerInit, Init, Idle, FieldsAt, CallAt, Calls, ProgressAt, Starting
<1>6. \A o \in Objects : Accounted(o)
  BY DEF ManagerInit, Init, Accounted, Hot
<1> QED BY <1>1, <1>3, <1>4, <1>5, <1>6 DEF ManagerInv

LEMMA ManagerNextInv == ManagerInv /\ [ManagerNext]_dualVars => ManagerInv'
<1> SUFFICES ASSUME ManagerInv, [ManagerNext]_dualVars PROVE ManagerInv'
  OBVIOUS
<1>1. CASE UNCHANGED dualVars
  <2>1. UNCHANGED vars /\ UNCHANGED managerVars
    BY <1>1 DEF dualVars
  <2>2. BunkerInv' /\ TypeOK'
    BY <2>1, NextInv DEF ManagerInv, BunkerInv
  <2>3. ManagerTypeOK' /\ Paired'
    BY <2>1, <2>2 DEF managerVars, ManagerInv, ManagerTypeOK, Paired
  <2>4. ASSUME NEW t \in Threads
        PROVE  FieldsAt(t)' /\ CallAt(t)' /\ ProgressAt(t)'
    <3>1. FieldsAt(t) /\ CallAt(t) /\ ProgressAt(t)
      BY DEF ManagerInv
    <3> QED
      BY <2>1, <3>1
      DEF vars, managerVars, FieldsAt, CallAt, Calls, ProgressAt, InitGot,
          ActGot, TermGot, Target
  <2>5. \A o \in Objects : Accounted(o)'
    BY <2>1 DEF vars, managerVars, ManagerInv, Accounted, Target
  <2> QED BY <2>2, <2>3, <2>4, <2>5 DEF ManagerInv
<1>2. ASSUME NEW t \in Threads,
             \/ \E l \in {"start_lock", "end_lock", "stop_active"} : Invoke(t, l)
             \/ ManagerStep(t)
      PROVE  ManagerInv'
  BY <1>2, StartStepKeepsInv, EndStepKeepsInv, StopStepKeepsInv DEF ManagerStep
<1>3. ASSUME NEW t \in Threads, BunkerStep(t)
      PROVE  ManagerInv'
  BY <1>3, BunkerStepKeepsInv
<1> QED BY <1>1, <1>2, <1>3 DEF ManagerNext

LEMMA ManagerInvariant == ManagerSpec => []ManagerInv
BY ManagerInitInv, ManagerNextInv, PTL DEF ManagerSpec

-----------------------------------------------------------------------------
(* What the invariant gives.                                                *)

\* The manager's variables keep their types, and only the thread that holds
\* the lock is past an acquisition, whatever the bunker methods answer.
THEOREM ManagerTypeCorrect == ManagerSpec => []ManagerTypeOK
<1>1. ManagerInv => ManagerTypeOK
  BY DEF ManagerInv
<1> QED
  BY <1>1, ManagerInvariant, PTL

\* Never are both bunkers ACTIVE, for any number of threads that start, end
\* and shut down sessions (manager.py:19).
THEOREM AtMostOneActiveAlways == ManagerSpec => []AtMostOneActive
<1>1. ManagerInv => AtMostOneActive
  <2> SUFFICES ASSUME ManagerInv, state[B1] = "ACTIVE", state[B2] = "ACTIVE"
               PROVE  FALSE
    BY DEF AtMostOneActive
  <2>1. B1 \in Objects /\ B2 \in Objects /\ B1 # B2 /\ NoObject \notin Objects
    BY DualAssumption, BunkerAssumption DEF DualAssumption, BunkerAssumption
  <2>2. Accounted(B1) /\ Accounted(B2)
    BY <2>1 DEF ManagerInv
  <2>3. PICK t \in Threads : mgr[t] \in Starting
    BY <2>1, <2>2 DEF Accounted, Hot
  <2>4. FieldsAt(t) /\ Paired
    BY DEF ManagerInv
  <2>5. \/ B1 = Target(t) /\ B2 = active
        \/ B2 = Target(t) /\ B1 = active
    BY <2>1, <2>3, StartingHolder DEF Hot
  <2>6. CASE mgr[t] \in {"first_init", "first_act"}
    BY <2>1, <2>4, <2>5, <2>6 DEF FieldsAt
  <2>7. CASE mgr[t] \in {"rot_init", "rot_act"}
    BY <2>4, <2>5, <2>7 DEF FieldsAt, Hot
  <2> QED BY <2>3, <2>6, <2>7 DEF Starting
<1> QED
  BY <1>1, ManagerInvariant, PTL

\* With the lock free, an ACTIVE bunker is the one that end_session would
\* stop, whatever failed or raised before.
THEOREM SessionIsNamedAlways == ManagerSpec => []SessionIsNamed
<1>1. ManagerInv => SessionIsNamed
  <2> SUFFICES ASSUME ManagerInv, NEW o \in Objects, lock = NoThread,
                      state[o] = "ACTIVE"
               PROVE  active = o
    BY DEF SessionIsNamed
  <2>1. ASSUME NEW t \in Threads PROVE mgr[t] \notin Starting
    BY DualAssumption
    DEF DualAssumption, ManagerInv, ManagerTypeOK, Starting, Locked
  <2> QED BY <2>1 DEF ManagerInv, Accounted, Hot
<1> QED
  BY <1>1, ManagerInvariant, PTL

\* _rotate_bunkers never finds the old bunker ACTIVE or READY, for any number
\* of threads: its own terminate is dead code.
THEOREM RotationFindsItStoppedAlways == ManagerSpec => []RotationFindsItStopped
<1>1. ManagerInv => RotationFindsItStopped
  BY DEF ManagerInv, FieldsAt, RotationFindsItStopped, MgrAt, Hot
<1> QED
  BY <1>1, ManagerInvariant, PTL

\* What is proved of bunkers whose methods anyone may call holds under the
\* manager too: none is left in a transient state.
THEOREM ManagedTransientOwned == ManagerSpec => []TransientOwned
<1>1. ManagerInv => TransientOwned
  BY DEF ManagerInv, BunkerInv
<1> QED
  BY <1>1, ManagerInvariant, PTL

\* The two bunkers of a manager move along VALID_STATE_TRANSITIONS only: no
\* step of the manager writes a state of its own.
THEOREM ManagerImplementsStateMachine == ManagerSpec => StateMachine
<1>1. ManagerInit => States!Init
  BY DEF ManagerInit, Init, States!Init
<1>2. ManagerInv /\ [ManagerNext]_dualVars => [States!Next]_state
  <2> SUFFICES ASSUME ManagerInv, [ManagerNext]_dualVars
               PROVE  [States!Next]_state
    OBVIOUS
  <2>1. ASSUME NEW t \in Threads, BunkerStep(t)
        PROVE  [States!Next]_state
    BY <2>1, StepMoves DEF BunkerStep, ManagerInv, BunkerInv
  <2>2. ASSUME NEW t \in Threads,
               \/ \E l \in {"start_lock", "end_lock", "stop_active"} :
                     Invoke(t, l)
               \/ ManagerStep(t)
        PROVE  UNCHANGED state
    BY <2>2
    DEF ManagerStep, Invoke, SameBunkers, StartLock, EndLock, Acquire,
        StartFirst, FirstActivate, FirstDone, StartBusy, StartRotation,
        RotBegin, RotActivate, RotDone, StartFailed, EndNone, EndTerminate,
        EndDone, StopActive, StopInactive, StopReturn, StopLook, StopCall
  <2>3. CASE UNCHANGED dualVars
    BY <2>3 DEF dualVars, vars
  <2> QED BY <2>1, <2>2, <2>3 DEF ManagerNext
<1> QED
  BY <1>1, <1>2, ManagerInvariant, PTL
  DEF ManagerSpec, StateMachine, States!Spec
=============================================================================
