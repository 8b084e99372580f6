---------------------------- MODULE InspectProofs ----------------------------
(***************************************************************************)
(* Theorems about Inspect, for every number of workers, slots, checks and  *)
(* layers.  Those that a failure can break name the failures.              *)
(***************************************************************************)
EXTENDS InspectProperties, MethodProofs, FiniteSetTheorems

LEMMA AllTold == AllAnswers
BY InspectAssumption DEF InspectAssumption, AllAnswers

-----------------------------------------------------------------------------
(* Every worker has a bunker of its own, and each place of the worker knows *)
(* how far that bunker has come.                                            *)

\* the method a worker may be in, by its place
MethodPcs(l) ==
  CASE l = "init"     -> InitPcs
    [] l = "activate" -> ActPcs
    [] l = "term"     -> TermPcs
    [] OTHER          -> {}

Cycle == {"init", "activate", "stage", "execute", "wait", "collect", "decon",
          "term", "fb_vm", "fb_switch", "fb_disk", "delete"}

Phase(t) ==
  LET l == job[t].pc
      o == job[t].o IN
  /\ frame[t].pc \in {"idle"} \cup MethodPcs(l)
  /\ l = "init" => InitPhase(t, o)
  /\ l = "activate" => ActPhase(t, o)
  /\ l = "term" => TermPhase(t, o)
  /\ l \in {"stage", "execute", "wait", "collect"} => state[o] = "ACTIVE"
  /\ l = "decon" => state[o] \in {"READY", "ACTIVE", "ERROR"}
  /\ l \in {"fb_vm", "fb_switch", "fb_disk"} => state[o] \in {"READY", "ERROR"}
  /\ l \in {"delete", "report", "answer"} /\ o # NoObject =>
       state[o] \in {"DESTROYED", "READY", "ERROR"}

\* a worker past the hash has a bunker; one that never got so far has none
Housed(t) ==
  /\ job[t].pc \in {"idle", "hash"} => job[t].o = NoObject
  /\ job[t].pc \in Cycle \cup {"dead"} => job[t].o \in Objects

Owned ==
  /\ \A t, u \in Threads : job[t].o = job[u].o /\ t # u => job[t].o = NoObject
  /\ \A o, p \in Objects : idOf[o] = idOf[p] => o = p

\* nothing was done with o yet, or all of it is forgotten
Pristine(o) ==
  /\ state[o] = "DESTROYED" /\ inst[o] = Fresh
  /\ host[idOf[o]] = {} /\ row[idOf[o]] = NoRow

Unused == \A o \in Objects : (\A t \in Threads : job[t].o # o) => Pristine(o)

-----------------------------------------------------------------------------
(* What the bunker has on the host and in the store.                        *)

\* no failure of this instance leaves r behind without the bunker's knowing
Sure(r) ==
  CASE r = "vm"     -> Faults \cap {"late_vm", "clean_vm"} = {}
    [] r = "switch" -> Faults \cap {"silent_switch", "clean_switch"} = {}
    [] OTHER        -> "clean_disk" \notin Faults

Gone(o, r) == Sure(r) => r \notin host[idOf[o]]

\* the bunker knows its VM and its switch
Named(o) ==
  /\ Sure("vm") /\ "vm" \in host[idOf[o]] => inst[o].vm
  /\ Sure("switch") /\ "switch" \in host[idOf[o]] => inst[o].switch

\* what terminate has removed so far, unless one of its steps failed
Cleared(t, o) ==
  /\ frame[t].pc \in {"decon_power", "decon_disk", "decon_switch", "decon_vm"}
       /\ Sure("vm") /\ "vm" \in host[idOf[o]] => frame[t].vm
  /\ frame[t].pc \in {"decon_switch", "decon_vm", "decon_verify", "term_end"}
       /\ frame[t].ok => Gone(o, "disk")
  /\ frame[t].pc \in {"decon_vm", "decon_verify", "term_end"} /\ frame[t].ok =>
       Gone(o, "switch")
  /\ frame[t].pc \in {"decon_verify", "term_end"} /\ frame[t].ok => Gone(o, "vm")
  /\ frame[t].pc = "idle" /\ frame[t].result = "true" =>
       \A r \in Resources : Gone(o, r)

Tracked(t) ==
  LET l == job[t].pc
      o == job[t].o IN
  /\ l \in Cycle => Named(o)
  /\ l = "init" /\ frame[t].pc = "init_begin" => host[idOf[o]] = {}
  /\ l = "term" => Cleared(t, o)
  /\ l \in {"fb_switch", "fb_disk"} => Gone(o, "vm")
  /\ l = "fb_disk" => Gone(o, "switch")
  /\ l \in {"delete", "report", "answer"} /\ o # NoObject /\ job[t].success =>
       \A r \in Resources : Gone(o, r)
  /\ l \notin {"delete", "report", "answer"} \/ o = NoObject => ~job[t].success

\* the row is there before the resources are, and goes after them
Recorded(t) ==
  LET l == job[t].pc
      i == idOf[job[t].o] IN
  "persist" \notin Faults =>
    /\ l \in Cycle /\ frame[t].pc # "init_begin" => row[i] # NoRow
    /\ l \in {"report", "answer"} /\ job[t].o # NoObject => row[i] = NoRow
    /\ l = "dead" /\ job[t].died \notin {"report", "answer"} /\ host[i] # {} =>
         row[i] # NoRow

-----------------------------------------------------------------------------
(* What the report will say.                                                *)

Told(t) ==
  /\ job[t].pc # "answer" => job[t].verdict = "none"
  /\ job[t].pc \in {"wait", "collect"} => job[t].executed
  /\ job[t].pc \in {"decon", "term", "fb_vm", "fb_switch", "fb_disk", "delete",
                    "report"} /\ job[t].error = "none" => job[t].executed

\* the slots of those at work are taken
Slots ==
  /\ IsFiniteSet({t \in Threads : Working(t)})
  /\ SlotsBalance

\* a process that has died leaves no worker
DeadAlone ==
  \A t, u \in Threads : job[t].pc = "dead" => ~Working(u)

InspectInv ==
  /\ InspectTypeOK
  /\ Owned /\ Unused /\ DeadAlone
  /\ \A t \in Threads :
       Housed(t) /\ Phase(t) /\ Tracked(t) /\ Recorded(t) /\ Told(t)
  /\ Slots

-----------------------------------------------------------------------------
(* A step of a bunker method moves the bunker of its worker along.          *)

\* initialize notes the name before it makes what bears it, and forgets it only
\* with a removal that answers
LEMMA InitNamed ==
  ASSUME TypeOK, NEW t \in Threads, NEW o \in Objects, Self(t) = o,
         InitStep(t), Named(o)
  PROVE  Named(o)'
<1> USE DEF Self
<1>o. /\ idOf[o] \in Ids /\ host \in [Ids -> SUBSET Resources]
      /\ inst \in [Objects -> Instance] /\ inst[o] \in Instance
  BY DEF TypeOK
<1>1. CASE InitSwitch(t)
  <2>1. /\ inst'[o].switch /\ inst'[o].vm = inst[o].vm /\ idOf' = idOf
        /\ "vm" \in host'[idOf[o]] => "vm" \in host[idOf[o]]
    BY <1>1, <1>o DEF InitSwitch, Instance
  <2> QED BY <2>1 DEF Named, Sure
<1>2. CASE InitVm(t)
  <2>1. /\ idOf' = idOf /\ inst'[o].switch = inst[o].switch
        /\ "switch" \in host'[idOf[o]] => "switch" \in host[idOf[o]]
    <3>1. \E vm \in SUBSET {"vm"}, disk \in SUBSET {"disk"} :
            host' = [host EXCEPT ![idOf[o]] = @ \cup vm \cup disk]
      BY <1>2 DEF InitVm
    <3>2. "switch" \in host'[idOf[o]] => "switch" \in host[idOf[o]]
      BY <1>o, <3>1
    <3>3. inst' = [inst EXCEPT ![o].vm = TRUE] \/ inst' = inst
      BY <1>2 DEF InitVm
    <3>4. inst'[o].switch = inst[o].switch
      BY <1>o, <3>3 DEF Instance
    <3> QED BY <1>2, <3>2, <3>4 DEF InitVm
  <2>2. CASE inst' = [inst EXCEPT ![o].vm = TRUE]
    <3>1. inst'[o].vm
      BY <1>o, <2>2 DEF Instance
    <3> QED BY <2>1, <3>1 DEF Named, Sure
  <2>3. CASE /\ inst' = inst
             /\ \/ "late_vm" \in Faults
                \/ "vm" \in host'[idOf[o]] => "vm" \in host[idOf[o]]
    BY <2>1, <2>3 DEF Named, Sure
  <2>4. ASSUME NEW disk \in SUBSET {"disk"}, NEW vm \in SUBSET {"vm"},
               May(IF vm = {} THEN "create_vm" ELSE "late_vm"),
               host' = [host EXCEPT ![idOf[o]] = @ \cup vm \cup disk]
        PROVE  "late_vm" \in Faults \/
                 ("vm" \in host'[idOf[o]] => "vm" \in host[idOf[o]])
    <3>1. CASE vm = {}
      BY <1>o, <2>4, <3>1
    <3>2. CASE vm # {}
      BY <2>4, <3>2 DEF May
    <3> QED BY <3>1, <3>2
  <2>5. \/ inst' = [inst EXCEPT ![o].vm = TRUE]
        \/ /\ inst' = inst
           /\ \E disk \in SUBSET {"disk"}, vm \in SUBSET {"vm"} :
                /\ May(IF vm = {} THEN "create_vm" ELSE "late_vm")
                /\ host' = [host EXCEPT ![idOf[o]] = @ \cup vm \cup disk]
    BY <1>2 DEF InitVm
  <2> QED BY <2>2, <2>3, <2>4, <2>5
<1>3. CASE CleanVm(t)
  <2>1. /\ idOf' = idOf /\ inst'[o].switch = inst[o].switch
        /\ inst' = [inst EXCEPT ![o].vm = FALSE]
    BY <1>3, <1>o DEF CleanVm, Instance
  <2>2. CASE inst[o].vm
    <3>1. PICK ok \in BOOLEAN : RemoveVm(idOf[o], "clean_vm", ok)
      BY <1>3, <2>2 DEF CleanVm
    <3>2. /\ host'[idOf[o]] \subseteq host[idOf[o]]
          /\ "clean_vm" \notin Faults => "vm" \notin host'[idOf[o]]
      BY <1>o, <3>1, RemoveVmHost
    <3> QED BY <2>1, <3>2 DEF Named, Sure
  <2>3. CASE ~inst[o].vm
    BY <1>3, <2>1, <2>3 DEF CleanVm, Named, Sure
  <2> QED BY <2>2, <2>3
<1>4. CASE CleanSwitch(t)
  <2>1. /\ idOf' = idOf /\ inst'[o].vm = inst[o].vm
        /\ inst' = [inst EXCEPT ![o].switch = FALSE]
    BY <1>4, <1>o DEF CleanSwitch, Instance
  <2>2. CASE inst[o].switch
    <3>1. PICK ok \in BOOLEAN :
            Removal(idOf[o], "switch", "clean_switch", ok)
      BY <1>4, <2>2 DEF CleanSwitch
    <3>2. /\ host'[idOf[o]] \subseteq host[idOf[o]]
          /\ Faults \cap {"silent_switch", "clean_switch"} = {} =>
               "switch" \notin host'[idOf[o]]
      BY <1>o, <3>1, RemovalHost
    <3> QED BY <2>1, <3>2 DEF Named, Sure
  <2>3. CASE ~inst[o].switch
    BY <1>4, <2>1, <2>3 DEF CleanSwitch, Named, Sure
  <2> QED BY <2>2, <2>3
<1>5. CASE CleanDisk(t)
  <2>1. PICK ok \in BOOLEAN : Removal(idOf[o], "disk", "clean_disk", ok)
    BY <1>5 DEF CleanDisk
  <2>2. host'[idOf[o]] \subseteq host[idOf[o]]
    BY <1>o, <2>1, RemovalHost
  <2> QED BY <1>5, <2>2 DEF CleanDisk, Named, Sure
<1>6. CASE InitGuest(t)
  <2>1. /\ idOf' = idOf /\ host' = host /\ inst'[o].vm = inst[o].vm
        /\ inst'[o].switch = inst[o].switch
    BY <1>6, <1>o DEF InitGuest, Instance
  <2> QED BY <2>1 DEF Named, Sure
<1>7. CASE InitBegin(t) \/ InitRaise(t) \/ InitVerify(t) \/ InitReady(t)
           \/ InitError(t)
  BY <1>7 DEF InitBegin, InitRaise, InitVerify, InitReady, InitError, Named, Sure
<1> QED BY <1>1, <1>2, <1>3, <1>4, <1>5, <1>6, <1>7 DEF InitStep

LEMMA ActNamed ==
  ASSUME TypeOK, NEW t \in Threads, NEW o \in Objects, Self(t) = o,
         ActStep(t), Named(o)
  PROVE  Named(o)'
BY ActKeeps DEF Named, Sure

LEMMA TermNamed ==
  ASSUME TypeOK, NEW t \in Threads, NEW o \in Objects, Self(t) = o,
         TermStep(t), Named(o)
  PROVE  Named(o)' /\ host'[idOf[o]] \subseteq host[idOf[o]]
BY TermKeeps DEF Named, Sure

\* A thread that is not in the last steps of terminate has cleared nothing yet.
LEMMA TermCleared ==
  ASSUME TypeOK, NEW t \in Threads, NEW o \in Objects, Self(t) = o,
         TermStep(t), Named(o), Cleared(t, o)
  PROVE  Cleared(t, o)'
<1> USE DEF At, Self, Goto
<1>o. /\ idOf[o] \in Ids /\ host \in [Ids -> SUBSET Resources]
      /\ inst[o] \in Instance /\ idOf' = idOf
      /\ frame \in [Threads -> Frame] /\ frame[t] \in Frame
      /\ host'[idOf[o]] \subseteq host[idOf[o]]
  BY TermNamed, TermFootprint DEF TypeOK, Footprint
<1>h. \A r : Gone(o, r) => Gone(o, r)'
  BY <1>o DEF Gone, Sure
<1>1. ASSUME NEW l, NEW ok \in BOOLEAN, DeconStep(t, l, ok)
      PROVE  /\ frame'[t].pc = l /\ frame'[t].vm = frame[t].vm
             /\ frame'[t].ok => frame[t].ok /\ ok
  <2>1. frame[t].ok \in BOOLEAN
    BY <1>o DEF Frame
  <2>2. frame' = [frame EXCEPT ![t].pc = l, ![t].ok = @ /\ ok]
    BY <1>1 DEF DeconStep
  <2>3. /\ frame'[t].pc = l /\ frame'[t].vm = frame[t].vm
        /\ frame'[t].ok = (frame[t].ok /\ ok)
    BY <1>o, <2>2 DEF Frame
  <2> QED BY <2>3
<1>2. CASE TermDecon(t)
  <2>1. \/ frame'[t].pc = "decon_power" /\ frame'[t].vm = inst[o].vm
        \/ frame'[t].pc = "term_error"
    BY <1>2, <1>o DEF TermDecon, Frame
  <2>2. host' = host
    BY <1>2 DEF TermDecon
  <2> QED BY <1>o, <2>1, <2>2 DEF Cleared, Named, Sure
<1>3. CASE DeconPower(t)
  <2>1. PICK ok \in BOOLEAN : DeconStep(t, "decon_disk", ok) /\ host' = host
    BY <1>3 DEF DeconPower
  <2>2. frame'[t].pc = "decon_disk" /\ frame'[t].vm = frame[t].vm
    BY <1>1, <2>1
  <2> QED BY <1>3, <1>o, <2>1, <2>2 DEF DeconPower, Cleared, Sure
<1>4. CASE DeconDisk(t)
  <2>1. PICK ok \in BOOLEAN : /\ DeconStep(t, "decon_switch", ok)
                              /\ Removal(idOf[o], "disk", "decon_disk", ok)
    BY <1>4 DEF DeconDisk
  <2>2. ok => "disk" \notin host'[idOf[o]]
    BY <1>o, <2>1, RemovalHost
  <2>3. /\ frame'[t].pc = "decon_switch" /\ frame'[t].vm = frame[t].vm
        /\ frame'[t].ok => ok
    BY <1>1, <2>1
  <2>4. frame'[t].ok => Gone(o, "disk")'
    BY <1>o, <2>2, <2>3 DEF Gone
  <2> QED BY <1>4, <1>o, <2>3, <2>4 DEF DeconDisk, Cleared, Sure
<1>5. CASE DeconSwitch(t)
  <2>1. PICK ok \in BOOLEAN :
          /\ DeconStep(t, "decon_vm", ok)
          /\ Removal(idOf[o], "switch", "decon_switch", ok)
    BY <1>5 DEF DeconSwitch
  <2>2. ok /\ Sure("switch") => "switch" \notin host'[idOf[o]]
    BY <1>o, <2>1, RemovalHost DEF Sure
  <2>3. /\ frame'[t].pc = "decon_vm" /\ frame'[t].vm = frame[t].vm
        /\ frame'[t].ok => ok /\ frame[t].ok
    BY <1>1, <2>1
  <2>4. frame'[t].ok => Gone(o, "switch")'
    BY <1>o, <2>2, <2>3 DEF Gone, Sure
  <2>5. frame'[t].ok => Gone(o, "disk")'
    BY <1>5, <1>h, <2>3 DEF DeconSwitch, Cleared
  <2> QED BY <1>5, <1>o, <2>3, <2>4, <2>5 DEF DeconSwitch, Cleared, Sure
<1>6. CASE DeconVm(t)
  <2>1. PICK ok \in BOOLEAN :
          /\ DeconStep(t, "decon_verify", ok)
          /\ \/ frame[t].vm /\ RemoveVm(idOf[o], "decon_vm", ok)
             \/ ~frame[t].vm /\ host' = host
    BY <1>6 DEF DeconVm
  <2>2. ok /\ Sure("vm") => "vm" \notin host'[idOf[o]]
    <3>1. CASE frame[t].vm
      BY <1>o, <2>1, <3>1, RemoveVmHost
    <3>2. CASE ~frame[t].vm
      BY <1>6, <2>1, <3>2 DEF DeconVm, Cleared
    <3> QED BY <3>1, <3>2
  <2>3. /\ frame'[t].pc = "decon_verify"
        /\ frame'[t].ok => ok /\ frame[t].ok
    BY <1>1, <2>1
  <2>4. frame'[t].ok => Gone(o, "vm")'
    BY <1>o, <2>2, <2>3 DEF Gone, Sure
  <2>5. frame'[t].ok => Gone(o, "disk")' /\ Gone(o, "switch")'
    BY <1>6, <1>h, <2>3 DEF DeconVm, Cleared
  <2> QED BY <2>3, <2>4, <2>5 DEF Cleared
<1>7. CASE DeconVerify(t)
  <2>1. PICK ok \in BOOLEAN :
          DeconStep(t, "term_end", ok /\ inst[o].baseline)
    BY <1>7 DEF DeconVerify
  <2>2. (ok /\ inst[o].baseline) \in BOOLEAN
    OBVIOUS
  <2>3. frame'[t].pc = "term_end" /\ (frame'[t].ok => frame[t].ok)
    BY <1>1, <2>1, <2>2
  <2> QED BY <1>7, <1>h, <2>3 DEF DeconVerify, Cleared
<1>8. CASE TermEnd(t)
  <2>1. \/ frame' = [frame EXCEPT ![t].pc = "term_error"]
        \/ Return(t, IF frame[t].ok THEN "true" ELSE "false")
    BY <1>8 DEF TermEnd
  <2>2. \/ frame'[t].pc = "term_error"
        \/ /\ frame'[t].pc = "idle"
           /\ frame'[t].result = "true" => frame[t].ok
    BY <1>o, <2>1, AllTold DEF Return, Idle, Frame, AllAnswers
  <2>3. frame[t].ok => \A r \in Resources : Gone(o, r)'
    BY <1>8, <1>h DEF TermEnd, Cleared, Resources
  <2> QED BY <2>2, <2>3 DEF Cleared
<1>9. CASE TermError(t)
  <2>1. \E r \in {"false", "raised"} : Return(t, r)
    BY <1>9 DEF TermError, LastTransition
  <2>2. frame'[t].pc = "idle" /\ frame'[t].result # "true"
    BY <1>o, <2>1, AllTold DEF Return, Idle, AllAnswers
  <2> QED BY <2>2 DEF Cleared
<1>10. CASE \/ TermCheck(t) \/ TermBegin(t) \/ TermStop(t) \/ TermLayers(t)
            \/ TermPower(t)
  <2>1. \E l \in {"term_begin", "term_error", "term_stop", "term_layers",
                  "term_power", "term_decon"} : frame'[t].pc = l
    BY <1>10, <1>o
    DEF TermCheck, TermBegin, Transition, TermStop, TermLayers, TermPower, Frame
  <2> QED BY <2>1 DEF Cleared
<1> QED
  BY <1>2, <1>3, <1>4, <1>5, <1>6, <1>7, <1>8, <1>9, <1>10 DEF TermStep

\* A row that is there stays, and the first transition makes one.
LEMMA RowStep ==
  ASSUME TypeOK, NEW t \in Threads, NEW o \in Objects, Self(t) = o, Step(t),
         "persist" \notin Faults,
         \/ row[idOf[o]] # NoRow
         \/ frame[t].pc = "init_begin" /\ state[o] = "DESTROYED"
  PROVE  row'[idOf[o]] # NoRow
<1> USE DEF Self
<1>1. ASSUME NEW s \in States!BunkerState, TransitionTo(o, s)
      PROVE  \/ row'[idOf[o]] # NoRow
             \/ row'[idOf[o]] = row[idOf[o]] /\ state[o] = s
  <2>1. /\ row'[idOf[o]] = row[idOf[o]] \/ row'[idOf[o]].state = s
        /\ state[o] # s => row'[idOf[o]].state = s
    BY <1>1, TransitionToRow
  <2>2. NoRow.state # s
    BY DEF NoRow, States!BunkerState
  <2> QED BY <2>1, <2>2
<1>s. {"INITIALIZING", "READY", "ACTIVE", "TERMINATING", "DECONTAMINATING",
       "DESTROYED", "QUARANTINE", "ERROR"} \subseteq States!BunkerState
  BY DEF States!BunkerState
<1>2. CASE frame[t].pc = "init_begin" /\ state[o] = "DESTROYED"
  <2>1. InitBegin(t)
    BY <1>2, StepPlace, PlacesApart
    DEF Step, InitStep, InitBegin, InitRaise, InitVerify, InitSwitch, InitVm,
        InitGuest, InitReady, CleanVm, CleanSwitch, CleanDisk, InitError, At,
        InitPcs
  <2>2. TransitionTo(o, "INITIALIZING")
    BY <1>2, <2>1
    DEF InitBegin, Transition, Refused, States!ValidNext
  <2> QED BY <1>1, <1>2, <1>s, <2>2
<1>3. CASE row[idOf[o]] # NoRow
  <2>1. (\E s \in States!BunkerState : TransitionTo(o, s)) \/ row' = row
    <3>1. CASE InitStep(t)
      BY <1>s, <3>1
      DEF InitStep, InitBegin, InitRaise, InitVerify, InitSwitch, InitVm,
          InitGuest, InitReady, CleanVm, CleanSwitch, CleanDisk, InitError,
          Transition, LastTransition
    <3>2. CASE ActStep(t)
      BY <1>s, <3>2
      DEF ActStep, ActCheck, ActBegin, ActLayer, ActRollback, ActLayersDone,
          ActMonitor, ActError, LastTransition
    <3>3. CASE TermStep(t)
      BY <1>s, <3>3
      DEF TermStep, TermCheck, TermBegin, TermStop, TermLayers, TermPower,
          TermDecon, DeconPower, DeconDisk, DeconSwitch, DeconVm, DeconVerify,
          DeconStep, TermEnd, TermError, Transition, LastTransition
    <3>4. CASE QuarStep(t)
      BY <1>s, <3>4 DEF QuarStep, QuarBegin, QuarStop
    <3> QED BY <3>1, <3>2, <3>3, <3>4 DEF Step
  <2> QED BY <1>1, <1>3, <2>1
<1> QED BY <1>2, <1>3

-----------------------------------------------------------------------------
(* A step of one worker leaves the others alone.                            *)

WorkerInv(t) == Housed(t) /\ Phase(t) /\ Tracked(t) /\ Recorded(t) /\ Told(t)

\* what differs after a step is t's, or its bunker's
Alone(t) ==
  /\ idOf' = idOf
  /\ \A u \in Threads \ {t} : frame'[u] = frame[u] /\ job'[u] = job[u]
  /\ \A p \in Objects \ {job[t].o} :
       /\ state'[p] = state[p] /\ inst'[p] = inst[p]
       /\ host'[idOf[p]] = host[idOf[p]] /\ row'[idOf[p]] = row[idOf[p]]

LEMMA OthersKept ==
  ASSUME InspectInv, NEW t \in Threads, Alone(t)
  PROVE  \A u \in Threads \ {t} : WorkerInv(u)'
<1> SUFFICES ASSUME NEW u \in Threads, u # t PROVE WorkerInv(u)'
  OBVIOUS
<1>1. WorkerInv(u) /\ Owned /\ job[u] \in Job
  BY DEF InspectInv, WorkerInv, InspectTypeOK
<1>2. job'[u] = job[u] /\ frame'[u] = frame[u] /\ idOf' = idOf
  BY DEF Alone
<1>3. CASE job[u].o \in Objects
  <2>1. job[u].o \in Objects \ {job[t].o}
    BY <1>1, <1>3, BunkerAssumption DEF Owned, BunkerAssumption
  <2>2. /\ state'[job[u].o] = state[job[u].o]
        /\ inst'[job[u].o] = inst[job[u].o]
        /\ host'[idOf[job[u].o]] = host[idOf[job[u].o]]
        /\ row'[idOf[job[u].o]] = row[idOf[job[u].o]]
    BY <2>1 DEF Alone
  <2>3. Housed(u)' /\ Told(u)'
    BY <1>1, <1>2 DEF WorkerInv, Housed, Told
  <2>4. Phase(u)'
    BY <1>1, <1>2, <2>2 DEF WorkerInv, Phase, InitPhase, ActPhase, TermPhase
  <2>5. Tracked(u)'
    BY <1>1, <1>2, <2>2
    DEF WorkerInv, Tracked, Named, Cleared, Gone, Sure
  <2>6. Recorded(u)'
    BY <1>1, <1>2, <2>2 DEF WorkerInv, Recorded
  <2> QED BY <2>3, <2>4, <2>5, <2>6 DEF WorkerInv
<1>4. CASE job[u].o = NoObject
  <2>1. job[u].pc \notin Cycle \cup {"dead"}
    BY <1>1, <1>4, BunkerAssumption DEF WorkerInv, Housed, BunkerAssumption
  <2>2. Housed(u)' /\ Told(u)'
    BY <1>1, <1>2 DEF WorkerInv, Housed, Told
  <2>3. Phase(u)'
    BY <1>1, <1>2, <1>4, <2>1 DEF WorkerInv, Phase, Cycle
  <2>4. Tracked(u)' /\ Recorded(u)'
    BY <1>1, <1>2, <1>4, <2>1 DEF WorkerInv, Tracked, Recorded, Cycle
  <2> QED BY <2>2, <2>3, <2>4 DEF WorkerInv
<1> QED BY <1>1, <1>3, <1>4 DEF Job

\* What is left to show of a step of one worker.
LEMMA WorkerKeepsRest ==
  ASSUME InspectInv, NEW t \in Threads, Alone(t), TypeOK',
         job' \in [Threads -> Job], monitor' \in [Threads -> Monitor],
         slots' \in 0..MaxInFlight, Slots', DeadAlone',
         \/ job'[t].o = job[t].o
         \/ /\ job[t].o = NoObject
            /\ \A u \in Threads : job[u].o # job'[t].o
         \/ /\ job'[t].o = NoObject
            /\ \A p \in Objects : p = job[t].o => Pristine(p)',
         ~At(t, "idle")' => frame'[t].o = job'[t].o,
         WorkerInv(t)'
  PROVE  InspectInv'
<1>1. InspectTypeOK /\ Owned /\ Unused /\ Slots
  BY DEF InspectInv
<1>2. /\ \A u \in Threads \ {t} : job'[u] = job[u] /\ frame'[u] = frame[u]
      /\ idOf' = idOf
  BY DEF Alone
<1>3. InspectTypeOK'
  <2>1. ASSUME NEW u \in Threads, u # t
        PROVE  ~At(u, "idle")' => frame'[u].o = job'[u].o
    BY <1>1, <1>2, <2>1 DEF InspectTypeOK, At, Self
  <2> QED BY <1>1, <2>1 DEF InspectTypeOK, Self
<1>4. Owned'
  BY <1>1, <1>2 DEF Owned
<1>5. ASSUME NEW p \in Objects, \A u \in Threads : job'[u].o # p
      PROVE  Pristine(p)'
  <2>1. CASE job[t].o = p
    BY <1>5, <2>1, BunkerAssumption DEF BunkerAssumption
  <2>2. CASE job[t].o # p
    <3>1. \A u \in Threads : job[u].o # p
      BY <1>2, <1>5, <2>2
    <3>2. Pristine(p)
      BY <1>1, <3>1 DEF Unused
    <3> QED BY <2>2, <3>2 DEF Alone, Pristine
  <2> QED BY <2>1, <2>2
<1>6. \A u \in Threads : WorkerInv(u)'
  BY OthersKept
<1> QED BY <1>3, <1>4, <1>5, <1>6 DEF InspectInv, Unused, WorkerInv

\* The same for a worker that neither comes nor goes.
LEMMA WorkerKeepsInv ==
  ASSUME InspectInv, NEW t \in Threads, Alone(t), TypeOK',
         job' \in [Threads -> Job], monitor' \in [Threads -> Monitor],
         slots' = slots, Working(t)' <=> Working(t),
         job'[t].pc = "dead" <=> job[t].pc = "dead",
         \/ job'[t].o = job[t].o
         \/ /\ job[t].o = NoObject
            /\ \A u \in Threads : job[u].o # job'[t].o,
         ~At(t, "idle")' => frame'[t].o = job'[t].o,
         WorkerInv(t)'
  PROVE  InspectInv'
<1>1. \A u \in Threads : /\ Working(u)' <=> Working(u)
                         /\ job'[u].pc = "dead" <=> job[u].pc = "dead"
  BY DEF Alone, Working
<1>2. DeadAlone'
  BY <1>1 DEF InspectInv, DeadAlone
<1>3. Slots'
  <2>1. {u \in Threads : Working(u)}' = {u \in Threads : Working(u)}
    BY <1>1
  <2> QED BY <2>1 DEF InspectInv, Slots, SlotsBalance
<1>4. slots' \in 0..MaxInFlight
  BY DEF InspectInv, InspectTypeOK
<1> QED BY <1>2, <1>3, <1>4, WorkerKeepsRest

-----------------------------------------------------------------------------
(* The steps of the cycle.                                                  *)

\* what a worker that keeps its bunker finds before and after
LEMMA WorkerFacts ==
  ASSUME InspectInv, NEW t \in Threads
  PROVE  /\ WorkerInv(t) /\ job \in [Threads -> Job] /\ job[t] \in Job
         /\ monitor \in [Threads -> Monitor] /\ TypeOK
         /\ frame \in [Threads -> Frame] /\ NoObject \notin Objects
         /\ job[t].pc \in Cycle => job[t].o \in Objects /\ idOf[job[t].o] \in Ids
BY BunkerAssumption
DEF InspectInv, WorkerInv, InspectTypeOK, TypeOK, Housed, BunkerAssumption

\* A worker that only moves its own record keeps the invariant if its place
\* suits the bunker as it is.
LEMMA QuietStep ==
  ASSUME InspectInv, NEW t \in Threads, SameBunker, UNCHANGED <<frame, slots>>,
         monitor' \in [Threads -> Monitor], job' \in [Threads -> Job],
         \A u \in Threads \ {t} : job'[u] = job[u],
         job'[t].o = job[t].o, Working(t)' <=> Working(t),
         job'[t].pc = "dead" <=> job[t].pc = "dead", WorkerInv(t)'
  PROVE  InspectInv'
<1>1. Alone(t) /\ TypeOK'
  BY DEF Alone, SameBunker, InspectInv, InspectTypeOK, TypeOK
<1>2. ~At(t, "idle")' => frame'[t].o = job'[t].o
  BY DEF InspectInv, InspectTypeOK, At, Self
<1> QED BY <1>1, <1>2, WorkerKeepsInv

LEMMA ExpireKeepsInv ==
  ASSUME InspectInv, NEW t \in Threads, Expire(t) \/ GiveUp(t)
  PROVE  InspectInv'
<1>i. WorkerInv(t) /\ job \in [Threads -> Job] /\ monitor \in [Threads -> Monitor]
  BY WorkerFacts
<1>1. /\ job' \in [Threads -> Job] /\ \A u \in Threads \ {t} : job'[u] = job[u]
      /\ job'[t].o = job[t].o /\ job'[t].pc = job[t].pc
      /\ job'[t].success = job[t].success /\ job'[t].verdict = job[t].verdict
      /\ job'[t].executed = job[t].executed /\ job'[t].error = job[t].error
      /\ job'[t].died = job[t].died
  <2>1. \/ job' = [job EXCEPT ![t].expired = TRUE]
        \/ job' = [job EXCEPT ![t].waiting = FALSE]
    BY DEF Expire, GiveUp
  <2>2. CASE job' = [job EXCEPT ![t].expired = TRUE]
    <3>1. job' \in [Threads -> Job]
      BY <1>i, <2>2 DEF Job
    <3> QED BY <1>i, <2>2, <3>1 DEF Job
  <2>3. CASE job' = [job EXCEPT ![t].waiting = FALSE]
    <3>1. job' \in [Threads -> Job]
      BY <1>i, <2>3 DEF Job
    <3> QED BY <1>i, <2>3, <3>1 DEF Job
  <2> QED BY <2>1, <2>2, <2>3
<1>2. UNCHANGED <<state, inst, idOf, host, row, frame, slots, monitor>>
  BY DEF Expire, GiveUp, SameBunker
<1>3. Housed(t)' /\ Told(t)'
  BY <1>i, <1>1 DEF WorkerInv, Housed, Told
<1>4. Phase(t)'
  BY <1>i, <1>1, <1>2 DEF WorkerInv, Phase, InitPhase, ActPhase, TermPhase
<1>5. Tracked(t)' /\ Recorded(t)'
  BY <1>i, <1>1, <1>2
  DEF WorkerInv, Tracked, Recorded, Named, Cleared, Gone, Sure
<1> QED
  BY <1>i, <1>1, <1>2, <1>3, <1>4, <1>5, QuietStep
  DEF WorkerInv, SameBunker, Working

\* A worker between two methods goes on in the cycle, or gives it up.
LEMMA AdvanceKeepsInv ==
  ASSUME InspectInv, NEW t \in Threads, SameBunker,
         UNCHANGED <<frame, slots, monitor>>, At(t, "idle"),
         job[t].pc \in {"init", "activate", "stage", "execute", "wait", "collect"},
         job' \in [Threads -> Job], \A u \in Threads \ {t} : job'[u] = job[u],
         job'[t].pc \in {"stage", "execute", "wait", "collect", "decon"},
         job'[t].o = job[t].o, job'[t].success = job[t].success,
         job'[t].verdict = job[t].verdict,
         job'[t].pc # "decon" => state[job[t].o] = "ACTIVE",
         job'[t].pc \in {"wait", "collect"} => job'[t].executed,
         job'[t].pc = "decon" /\ job'[t].error = "none" => job'[t].executed
  PROVE  InspectInv'
<1>i. WorkerInv(t) /\ frame[t].pc = "idle"
  BY WorkerFacts DEF At
<1>1. Housed(t)'
  BY <1>i DEF WorkerInv, Housed, Cycle
<1>2. Phase(t)'
  <2>1. state[job[t].o] \in {"READY", "ACTIVE", "ERROR"}
    BY <1>i DEF WorkerInv, Phase, InitPhase, ActPhase
  <2> QED BY <1>i, <2>1 DEF Phase, SameBunker
<1>3. Tracked(t)'
  <2>1. Named(job[t].o) /\ ~job[t].success
    BY <1>i DEF WorkerInv, Tracked, Cycle
  <2> QED BY <2>1 DEF Tracked, Named, Sure, SameBunker
<1>4. Recorded(t)'
  BY <1>i DEF WorkerInv, Recorded, Cycle, SameBunker
<1>5. Told(t)'
  BY <1>i DEF WorkerInv, Told
<1> QED BY <1>1, <1>2, <1>3, <1>4, <1>5, QuietStep, WorkerFacts
        DEF WorkerInv, Working

\* what the deadline or an exception leaves of the analysis
LEMMA FailFacts ==
  ASSUME job \in [Threads -> Job], NEW t \in Threads,
         NEW why \in {"cycle", "deadline"}, Fail(t, why)
  PROVE  /\ job' \in [Threads -> Job] /\ \A u \in Threads \ {t} : job'[u] = job[u]
         /\ job'[t].pc = "decon" /\ job'[t].o = job[t].o
         /\ job'[t].success = job[t].success /\ job'[t].verdict = job[t].verdict
         /\ job'[t].error # "none"
<1> DEFINE r == [job[t] EXCEPT !.pc = "decon", !.error = why]
<1>1. job[t] \in Job
  OBVIOUS
<1>2. r \in Job
  BY <1>1 DEF Job, JobPcs
<1>3. /\ r.pc = "decon" /\ r.error # "none" /\ r.o = job[t].o
      /\ r.success = job[t].success /\ r.verdict = job[t].verdict
  BY <1>1 DEF Job
<1>4. job' = [job EXCEPT ![t] = r]
  BY DEF Fail
<1> HIDE DEF r
<1> QED BY <1>2, <1>3, <1>4

LEMMA GotoFacts ==
  ASSUME job \in [Threads -> Job], NEW t \in Threads, NEW l \in JobPcs,
         JobGoto(t, l)
  PROVE  /\ job' \in [Threads -> Job] /\ \A u \in Threads \ {t} : job'[u] = job[u]
         /\ job'[t].pc = l /\ job'[t].o = job[t].o
         /\ job'[t].success = job[t].success /\ job'[t].verdict = job[t].verdict
         /\ job'[t].error = job[t].error /\ job'[t].executed = job[t].executed
         /\ job'[t].died = job[t].died
BY DEF JobGoto, Job

LEMMA ActivatedKeepsInv ==
  ASSUME InspectInv, NEW t \in Threads, Activated(t)
  PROVE  InspectInv'
<1>i. /\ WorkerInv(t) /\ job \in [Threads -> Job] /\ job[t].pc = "activate"
      /\ frame[t].pc = "idle"
  BY WorkerFacts DEF Activated, JobAt, At
<1>s. SameBunker /\ UNCHANGED <<frame, slots, monitor>> /\ At(t, "idle")
  BY DEF Activated, JobAt
<1>1. CASE frame[t].result = "true" /\ JobGoto(t, "stage")
  <2>1. state[job[t].o] = "ACTIVE"
    BY <1>i, <1>1 DEF WorkerInv, Phase, ActPhase
  <2> QED BY <1>i, <1>s, <1>1, <2>1, GotoFacts, AdvanceKeepsInv DEF JobPcs
<1>2. CASE Fail(t, "cycle") \/ Fail(t, "deadline")
  BY <1>i, <1>s, <1>2, FailFacts, AdvanceKeepsInv
<1> QED BY <1>1, <1>2 DEF Activated, Proceed

LEMMA GuestStepKeepsInv ==
  ASSUME InspectInv, NEW t \in Threads, Stage(t) \/ Execute(t) \/ Wait(t)
  PROVE  InspectInv'
<1>i. /\ WorkerInv(t) /\ job \in [Threads -> Job] /\ frame[t].pc = "idle"
      /\ job[t].pc \in {"stage", "execute", "wait"}
  BY WorkerFacts DEF Stage, Execute, Wait, JobAt, At
<1>s. SameBunker /\ UNCHANGED <<frame, slots, monitor>> /\ At(t, "idle")
  BY DEF Stage, Execute, Wait, JobAt
<1>a. state[job[t].o] = "ACTIVE" /\ (job[t].pc = "wait" => job[t].executed)
  BY <1>i DEF WorkerInv, Phase, Told
<1>1. CASE Fail(t, "cycle") \/ Fail(t, "deadline")
  BY <1>i, <1>s, <1>1, FailFacts, AdvanceKeepsInv
<1>2. CASE Stage(t) /\ JobGoto(t, "execute")
  BY <1>i, <1>s, <1>a, <1>2, GotoFacts, AdvanceKeepsInv DEF JobPcs
<1>3. CASE Wait(t) /\ JobGoto(t, "collect")
  <2>1. job[t].executed
    BY <1>a, <1>3 DEF Wait, JobAt
  <2> QED BY <1>i, <1>s, <1>a, <1>3, <2>1, GotoFacts, AdvanceKeepsInv DEF JobPcs
<1>4. CASE job' = [job EXCEPT ![t].executed = TRUE, ![t].pc = "wait"]
  <2> DEFINE r == [job[t] EXCEPT !.executed = TRUE, !.pc = "wait"]
  <2>r. r \in Job /\ job' = [job EXCEPT ![t] = r]
    <3>1. job[t] \in Job
      BY <1>i
    <3> QED BY <1>4, <3>1 DEF Job, JobPcs
  <2>1. /\ job' \in [Threads -> Job] /\ job'[t].executed
        /\ job'[t].pc = "wait" /\ job'[t].o = job[t].o
    <3>1. r.executed /\ r.pc = "wait" /\ r.o = job[t].o
      BY <1>i DEF Job
    <3> HIDE DEF r
    <3> QED BY <1>i, <2>r, <3>1
  <2>2. /\ \A u \in Threads \ {t} : job'[u] = job[u]
        /\ job'[t].success = job[t].success /\ job'[t].verdict = job[t].verdict
    BY <1>i, <1>4 DEF Job
  <2> QED BY <1>i, <1>s, <1>a, <2>1, <2>2, AdvanceKeepsInv
<1>5. CASE job' = [job EXCEPT ![t].executed = TRUE, ![t].pc = "decon",
                              ![t].error = "deadline"]
  <2>1. /\ job' \in [Threads -> Job] /\ job'[t].executed
        /\ job'[t].pc = "decon" /\ job'[t].o = job[t].o
    BY <1>i, <1>5 DEF Job, JobPcs
  <2>2. /\ \A u \in Threads \ {t} : job'[u] = job[u]
        /\ job'[t].success = job[t].success /\ job'[t].verdict = job[t].verdict
    BY <1>i, <1>5 DEF Job
  <2> QED BY <1>i, <1>s, <1>a, <2>1, <2>2, AdvanceKeepsInv
<1> QED
  <2>1. CASE Execute(t)
    BY <2>1, <1>1, <1>4, <1>5 DEF Execute
  <2> QED BY <2>1, <1>1, <1>2, <1>3 DEF Stage, Wait, Proceed

LEMMA CollectKeepsInv ==
  ASSUME InspectInv, NEW t \in Threads, Collect(t)
  PROVE  InspectInv'
<1>i. /\ WorkerInv(t) /\ job \in [Threads -> Job] /\ job[t].pc = "collect"
      /\ monitor \in [Threads -> Monitor] /\ monitor[t].events \subseteq Severities
  BY WorkerFacts DEF Collect, JobAt, Monitor
<1>s. SameBunker /\ UNCHANGED <<frame, slots, monitor>> /\ At(t, "idle")
  BY DEF Collect, JobAt
<1>1. PICK static \in SUBSET Severities :
        job' = [job EXCEPT ![t].pc = "decon",
                           ![t].iocs = static \cup monitor[t].events]
  BY DEF Collect
<1>2. static \cup monitor[t].events \in SUBSET Severities
  BY <1>i
<1> DEFINE r == [job[t] EXCEPT !.pc = "decon",
                               !.iocs = static \cup monitor[t].events]
<1>r. r \in Job /\ job' = [job EXCEPT ![t] = r]
  <2>1. job[t] \in Job
    BY <1>i
  <2> QED BY <1>1, <1>2, <2>1 DEF Job, JobPcs
<1>3. /\ job' \in [Threads -> Job] /\ \A u \in Threads \ {t} : job'[u] = job[u]
      /\ job'[t].pc = "decon" /\ job'[t].o = job[t].o
  <2>1. r.pc = "decon" /\ r.o = job[t].o
    BY <1>i DEF Job
  <2> HIDE DEF r
  <2> QED BY <1>i, <1>r, <2>1
<1>4. /\ job'[t].success = job[t].success /\ job'[t].verdict = job[t].verdict
      /\ job'[t].executed = job[t].executed
  BY <1>i, <1>1 DEF Job
<1>5. job[t].executed
  BY <1>i DEF WorkerInv, Told
<1> QED BY <1>i, <1>s, <1>3, <1>4, <1>5, AdvanceKeepsInv

\* A worker calls a method of its bunker.
LEMMA MethodEntered ==
  ASSUME TypeOK, NEW t \in Threads, NEW o \in Objects, NEW e \in Entry,
         CallMethod(t, o, e)
  PROVE  /\ FrameOK' /\ frame'[t].pc = e /\ frame'[t].o = o
         /\ \A u \in Threads \ {t} : frame'[u] = frame[u]
<1> DEFINE f == [Idle EXCEPT !.pc = e, !.o = o]
<1>1. 0 \in 0..NumLayers
  BY BunkerAssumption DEF BunkerAssumption
<1>2. f \in Frame /\ f.pc = e /\ f.o = o /\ e # "idle"
  BY <1>1 DEF Frame, Idle, Entry, InitPcs, ActPcs, TermPcs, QuarPcs
<1>3. frame' = [frame EXCEPT ![t] = f] /\ FrameOK
  BY DEF CallMethod, TypeOK, FrameOK
<1> HIDE DEF f
<1> QED BY <1>2, <1>3 DEF FrameOK

LEMMA HashKeepsInv ==
  ASSUME InspectInv, NEW t \in Threads, Hash(t)
  PROVE  InspectInv'
<1>i. /\ WorkerInv(t) /\ job \in [Threads -> Job] /\ job[t].pc = "hash"
      /\ monitor \in [Threads -> Monitor] /\ TypeOK /\ frame[t].pc = "idle"
      /\ job[t].o = NoObject /\ ~job[t].success /\ job[t].verdict = "none"
  BY WorkerFacts DEF Hash, JobAt, At, WorkerInv, Housed, Tracked, Told
<1>s. SameBunker /\ UNCHANGED <<slots, monitor>> /\ At(t, "idle")
  BY DEF Hash, JobAt
<1>1. ASSUME NEW o \in Objects, \A u \in Threads : job[u].o # o,
             job' = [job EXCEPT ![t].pc = "init", ![t].o = o],
             CallMethod(t, o, "init_begin")
      PROVE  InspectInv'
  <2> DEFINE r == [job[t] EXCEPT !.pc = "init", !.o = o]
  <2>1. r \in Job /\ job' = [job EXCEPT ![t] = r]
    <3>1. job[t] \in Job
      BY <1>i
    <3> QED BY <1>1, <3>1 DEF Job, JobPcs
  <2>2. /\ r.pc = "init" /\ r.o = o /\ r.success = job[t].success
        /\ r.verdict = job[t].verdict
    BY <1>i DEF Job
  <2> HIDE DEF r
  <2>3. job' \in [Threads -> Job] /\ job'[t] = r
        /\ \A u \in Threads \ {t} : job'[u] = job[u]
    BY <1>i, <2>1
  <2>4. /\ FrameOK' /\ frame'[t].pc = "init_begin" /\ frame'[t].o = o
        /\ \A u \in Threads \ {t} : frame'[u] = frame[u]
    BY <1>i, <1>1, MethodEntered DEF Entry
  <2>5. Alone(t) /\ TypeOK'
    BY <1>i, <1>s, <2>3, <2>4 DEF Alone, SameBunker, TypeOK, FrameOK
  <2>6. Pristine(o)' /\ o # NoObject
    BY <1>1, <1>s, BunkerAssumption
    DEF InspectInv, Unused, Pristine, SameBunker, BunkerAssumption
  <2>7. Housed(t)' /\ Told(t)'
    BY <1>i, <2>2, <2>3, <2>6 DEF Housed, Told
  <2>8. Phase(t)'
    BY <2>2, <2>3, <2>4, <2>6
    DEF Phase, InitPhase, MethodPcs, InitPcs, Pristine
  <2>9. Tracked(t)' /\ Recorded(t)'
    BY <1>i, <2>2, <2>3, <2>4, <2>6
    DEF Tracked, Recorded, Named, Sure, Pristine
  <2> QED
    BY <1>1, <1>i, <1>s, <2>2, <2>3, <2>4, <2>5, <2>7, <2>8, <2>9,
       WorkerKeepsInv
    DEF WorkerInv, Working
<1>2. CASE /\ job' = [job EXCEPT ![t].pc = "report", ![t].error = "cycle"]
           /\ UNCHANGED frame
  <2> DEFINE r == [job[t] EXCEPT !.pc = "report", !.error = "cycle"]
  <2>1. r \in Job /\ job' = [job EXCEPT ![t] = r]
    <3>1. job[t] \in Job
      BY <1>i
    <3> QED BY <1>2, <3>1 DEF Job, JobPcs
  <2>2. /\ r.pc = "report" /\ r.o = NoObject /\ r.success = job[t].success
        /\ r.verdict = job[t].verdict /\ r.error = "cycle"
    BY <1>i DEF Job
  <2> HIDE DEF r
  <2>3. job' \in [Threads -> Job] /\ job'[t] = r
        /\ \A u \in Threads \ {t} : job'[u] = job[u]
    BY <1>i, <2>1
  <2>4. Housed(t)' /\ Told(t)' /\ Phase(t)' /\ Tracked(t)' /\ Recorded(t)'
    BY <1>i, <1>2, <2>2, <2>3
    DEF Housed, Told, Phase, Tracked, Recorded, Cycle
  <2> QED
    BY <1>i, <1>s, <1>2, <2>2, <2>3, <2>4, QuietStep
    DEF WorkerInv, Working
<1> QED BY <1>1, <1>2 DEF Hash

LEMMA InitializedKeepsInv ==
  ASSUME InspectInv, NEW t \in Threads, Initialized(t)
  PROVE  InspectInv'
<1> DEFINE o == job[t].o
<1>i. /\ WorkerInv(t) /\ job \in [Threads -> Job] /\ job[t].pc = "init"
      /\ monitor \in [Threads -> Monitor] /\ TypeOK /\ frame[t].pc = "idle"
      /\ o \in Objects
  BY WorkerFacts DEF Initialized, JobAt, At, Cycle
<1>s. SameBunker /\ UNCHANGED <<slots, monitor>> /\ At(t, "idle")
  BY DEF Initialized, JobAt
<1>1. CASE /\ frame[t].result = "true"
           /\ JobGoto(t, "activate") /\ CallMethod(t, o, "act_check")
  <2>1. /\ job' \in [Threads -> Job] /\ \A u \in Threads \ {t} : job'[u] = job[u]
        /\ job'[t].pc = "activate" /\ job'[t].o = o
        /\ job'[t].success = job[t].success /\ job'[t].verdict = job[t].verdict
    BY <1>i, <1>1, GotoFacts DEF JobPcs
  <2>2. /\ FrameOK' /\ frame'[t].pc = "act_check" /\ frame'[t].o = o
        /\ \A u \in Threads \ {t} : frame'[u] = frame[u]
    BY <1>i, <1>1, MethodEntered DEF Entry
  <2>3. Alone(t) /\ TypeOK'
    BY <1>i, <1>s, <2>1, <2>2 DEF Alone, SameBunker, TypeOK, FrameOK
  <2>4. state[o] = "READY"
    BY <1>i, <1>1 DEF WorkerInv, Phase, InitPhase
  <2>5. Named(o) /\ ~job[t].success /\ job[t].verdict = "none"
    BY <1>i DEF WorkerInv, Tracked, Told, Cycle
  <2>6. Housed(t)' /\ Told(t)'
    BY <1>i, <2>1, <2>5 DEF Housed, Told
  <2>7. Phase(t)'
    BY <1>s, <2>1, <2>2, <2>4
    DEF Phase, ActPhase, MethodPcs, ActPcs, Ready, SameBunker
  <2>8. Tracked(t)'
    BY <1>s, <2>1, <2>5 DEF Tracked, Named, Sure, SameBunker
  <2>9. Recorded(t)'
    BY <1>i, <1>s, <2>1 DEF WorkerInv, Recorded, Cycle, SameBunker
  <2> QED
    BY <1>i, <1>s, <2>1, <2>2, <2>3, <2>6, <2>7, <2>8, <2>9, WorkerKeepsInv
    DEF WorkerInv, Working
<1>2. CASE (Fail(t, "cycle") \/ Fail(t, "deadline")) /\ UNCHANGED frame
  BY <1>i, <1>s, <1>2, FailFacts, AdvanceKeepsInv
<1> QED BY <1>1, <1>2 DEF Initialized, Bkr

LEMMA DecontaminateKeepsInv ==
  ASSUME InspectInv, NEW t \in Threads, Decontaminate(t)
  PROVE  InspectInv'
<1> DEFINE o == job[t].o
           active == state[o] = "ACTIVE"
<1>i. /\ WorkerInv(t) /\ job \in [Threads -> Job] /\ job[t].pc = "decon"
      /\ monitor \in [Threads -> Monitor] /\ TypeOK /\ frame[t].pc = "idle"
      /\ o \in Objects
  BY WorkerFacts DEF Decontaminate, JobAt, At, Cycle
<1>s. UNCHANGED <<state, idOf, host, row, slots, monitor>> /\ At(t, "idle")
  BY DEF Decontaminate, JobAt
<1>1. /\ inst' \in [Objects -> Instance] /\ inst'[o].vm = inst[o].vm
      /\ inst'[o].switch = inst[o].switch
      /\ \A p \in Objects \ {o} : inst'[p] = inst[p]
  <2>1. inst' = [inst EXCEPT ![o].monitoring = FALSE]
    BY DEF Decontaminate, Bkr
  <2>2. inst \in [Objects -> Instance]
    BY <1>i DEF TypeOK
  <2>3. [inst[o] EXCEPT !.monitoring = FALSE] \in Instance
    BY <1>i, <2>2 DEF Instance
  <2>4. inst' \in [Objects -> Instance]
    BY <1>i, <2>1, <2>2, <2>3
  <2> QED BY <1>i, <2>1, <2>2, <2>4 DEF Instance
<1>2. /\ job' \in [Threads -> Job] /\ \A u \in Threads \ {t} : job'[u] = job[u]
      /\ job'[t].pc = IF active THEN "term" ELSE "fb_vm"
      /\ job'[t].o = o /\ job'[t].error = job[t].error
      /\ job'[t].success = job[t].success /\ job'[t].verdict = job[t].verdict
      /\ job'[t].executed = job[t].executed
  <2>1. JobGoto(t, IF active THEN "term" ELSE "fb_vm")
    BY DEF Decontaminate, Bkr
  <2> QED BY <1>i, <2>1, GotoFacts DEF JobPcs
<1>3. /\ FrameOK' /\ \A u \in Threads \ {t} : frame'[u] = frame[u]
      /\ frame'[t].pc = IF active THEN "term_check" ELSE "idle"
      /\ frame'[t].pc # "idle" => frame'[t].o = o
  <2>1. IF active THEN CallMethod(t, o, "term_check") ELSE UNCHANGED frame
    BY DEF Decontaminate, Bkr
  <2>2. FrameOK
    BY <1>i DEF FrameOK, TypeOK
  <2> QED BY <1>i, <2>1, <2>2, MethodEntered DEF Entry, FrameOK
<1>4. Alone(t) /\ TypeOK'
  BY <1>i, <1>s, <1>1, <1>2, <1>3 DEF Alone, TypeOK, FrameOK
<1>5. Housed(t)' /\ Told(t)'
  BY <1>i, <1>2 DEF WorkerInv, Housed, Told
<1>6. Phase(t)'
  BY <1>i, <1>s, <1>2, <1>3
  DEF WorkerInv, Phase, TermPhase, MethodPcs, TermPcs, Down
<1>7. Tracked(t)'
  <2>1. Named(o) /\ ~job[t].success
    BY <1>i DEF WorkerInv, Tracked, Cycle
  <2>2. Named(o)'
    BY <1>s, <1>1, <1>2, <2>1 DEF Named, Sure
  <2> QED BY <1>2, <1>3, <2>1, <2>2 DEF Tracked, Cleared
<1>8. Recorded(t)'
  BY <1>i, <1>s, <1>2 DEF WorkerInv, Recorded, Cycle
<1> QED
  BY <1>i, <1>s, <1>2, <1>3, <1>4, <1>5, <1>6, <1>7, <1>8, WorkerKeepsInv
  DEF WorkerInv, Working, At

LEMMA TerminatedKeepsInv ==
  ASSUME InspectInv, NEW t \in Threads, Terminated(t)
  PROVE  InspectInv'
<1> DEFINE o == job[t].o
           won == frame[t].result = "true"
           r == [job[t] EXCEPT !.pc = "delete", !.success = won]
<1>i. /\ WorkerInv(t) /\ job \in [Threads -> Job] /\ job[t].pc = "term"
      /\ monitor \in [Threads -> Monitor] /\ frame[t].pc = "idle"
      /\ o \in Objects /\ o # NoObject
  BY WorkerFacts DEF Terminated, JobAt, At, Cycle
<1>s. SameBunker /\ UNCHANGED <<frame, slots, monitor>>
  BY DEF Terminated
<1>1. job' = [job EXCEPT ![t] = r]
  BY DEF Terminated
<1>2. /\ r \in Job /\ r.pc = "delete" /\ r.o = o /\ r.success = won
      /\ r.verdict = job[t].verdict /\ r.executed = job[t].executed
      /\ r.error = job[t].error
  <2>1. won \in BOOLEAN /\ job[t] \in Job
    BY <1>i
  <2> HIDE DEF won
  <2> QED BY <2>1 DEF Job, JobPcs
<1> HIDE DEF r
<1>3. /\ job' \in [Threads -> Job] /\ job'[t] = r
      /\ \A u \in Threads \ {t} : job'[u] = job[u]
  BY <1>i, <1>1, <1>2
<1>4. Housed(t)' /\ Told(t)'
  BY <1>i, <1>2, <1>3 DEF WorkerInv, Housed, Told
<1>5. Phase(t)'
  BY <1>i, <1>s, <1>2, <1>3 DEF WorkerInv, Phase, TermPhase, SameBunker
<1>6. Tracked(t)'
  <2>1. Named(o) /\ (won => \A x \in Resources : Gone(o, x))
    BY <1>i DEF WorkerInv, Tracked, Cleared, Cycle
  <2> QED BY <1>i, <1>s, <1>2, <1>3, <2>1 DEF Tracked, Named, Gone, Sure, SameBunker
<1>7. Recorded(t)'
  BY <1>i, <1>s, <1>2, <1>3 DEF WorkerInv, Recorded, Cycle, SameBunker
<1> QED
  BY <1>i, <1>s, <1>2, <1>3, <1>4, <1>5, <1>6, <1>7, QuietStep
  DEF WorkerInv, Working

\* what the removals of the fallback have in common
LEMMA FallbackKeepsInv ==
  ASSUME InspectInv, NEW t \in Threads,
         JobAt(t, "fb_vm") \/ JobAt(t, "fb_switch") \/ JobAt(t, "fb_disk"),
         UNCHANGED <<state, idOf, row, frame, slots, monitor>>,
         inst' \in [Objects -> Instance],
         \A p \in Objects \ {job[t].o} : inst'[p] = inst[p],
         host' \in [Ids -> SUBSET Resources],
         \A i \in Ids \ {idOf[job[t].o]} : host'[i] = host[i],
         job' \in [Threads -> Job], \A u \in Threads \ {t} : job'[u] = job[u],
         job'[t].pc \in {"fb_switch", "fb_disk", "delete"},
         job'[t].o = job[t].o, job'[t].error = job[t].error,
         job'[t].verdict = job[t].verdict, job'[t].executed = job[t].executed,
         Tracked(t)'
  PROVE  InspectInv'
<1>i. /\ WorkerInv(t) /\ frame[t].pc = "idle" /\ TypeOK
      /\ job[t].pc \in {"fb_vm", "fb_switch", "fb_disk"}
      /\ job[t].o \in Objects /\ monitor \in [Threads -> Monitor]
  BY WorkerFacts DEF JobAt, At, Cycle
<1>1. Alone(t) /\ TypeOK'
  <2>1. \A p \in Objects \ {job[t].o} : host'[idOf[p]] = host[idOf[p]]
    BY <1>i DEF InspectInv, Owned, TypeOK
  <2> QED BY <1>i, <2>1 DEF Alone, TypeOK
<1>2. Housed(t)' /\ Told(t)'
  BY <1>i DEF WorkerInv, Housed, Told
<1>3. Phase(t)'
  BY <1>i DEF WorkerInv, Phase
<1>4. Recorded(t)'
  BY <1>i DEF WorkerInv, Recorded, Cycle
<1> QED BY <1>i, <1>1, <1>2, <1>3, <1>4, WorkerKeepsInv DEF WorkerInv, Working, At

LEMMA FallbackVmKeepsInv ==
  ASSUME InspectInv, NEW t \in Threads, FallbackVm(t)
  PROVE  InspectInv'
<1> DEFINE o == job[t].o
<1>i. /\ WorkerInv(t) /\ job \in [Threads -> Job] /\ job[t].pc = "fb_vm"
      /\ TypeOK /\ o \in Objects /\ idOf[o] \in Ids
      /\ inst \in [Objects -> Instance] /\ inst[o] \in Instance
  BY WorkerFacts DEF FallbackVm, JobAt, Cycle, TypeOK
<1>1. Named(o) /\ ~job[t].success
  BY <1>i DEF WorkerInv, Tracked, Cycle
<1>2. /\ host' \in [Ids -> SUBSET Resources] /\ host'[idOf[o]] \subseteq host[idOf[o]]
      /\ \A i \in Ids \ {idOf[o]} : host'[i] = host[i]
      /\ Sure("vm") => "vm" \notin host'[idOf[o]]
  <2>1. CASE inst[o].vm
    <3>1. PICK ok \in BOOLEAN : RemoveVm(idOf[o], "clean_vm", ok)
      BY <2>1 DEF FallbackVm, Bkr
    <3> QED BY <1>i, <3>1, RemoveVmHost, RemoveVmType DEF Sure
  <2>2. CASE ~inst[o].vm
    BY <1>i, <1>1, <2>2 DEF FallbackVm, Bkr, Named, TypeOK
  <2> QED BY <2>1, <2>2
<1>3. /\ inst' \in [Objects -> Instance] /\ inst'[o].switch = inst[o].switch
      /\ \A p \in Objects \ {o} : inst'[p] = inst[p]
  <2>1. inst' = [inst EXCEPT ![o].vm = FALSE]
    BY DEF FallbackVm, Bkr
  <2>2. [inst[o] EXCEPT !.vm = FALSE] \in Instance
    BY <1>i DEF Instance
  <2>3. inst' \in [Objects -> Instance]
    BY <1>i, <2>1, <2>2
  <2> QED BY <1>i, <2>1, <2>3 DEF Instance
<1>4. /\ job' \in [Threads -> Job] /\ \A u \in Threads \ {t} : job'[u] = job[u]
      /\ job'[t].pc = "fb_switch" /\ job'[t].o = o
      /\ job'[t].error = job[t].error /\ job'[t].verdict = job[t].verdict
      /\ job'[t].executed = job[t].executed /\ job'[t].success = job[t].success
  BY <1>i, GotoFacts DEF FallbackVm, JobPcs
<1>5. Tracked(t)'
  <2>1. idOf' = idOf
    BY DEF FallbackVm
  <2>2. Named(o)' /\ Gone(o, "vm")'
    BY <1>1, <1>2, <1>3, <1>4, <2>1 DEF Named, Gone, Sure
  <2> QED BY <1>1, <1>4, <2>2 DEF Tracked
<1> QED BY <1>2, <1>3, <1>4, <1>5, FallbackKeepsInv DEF FallbackVm

LEMMA FallbackSwitchKeepsInv ==
  ASSUME InspectInv, NEW t \in Threads, FallbackSwitch(t)
  PROVE  InspectInv'
<1> DEFINE o == job[t].o
<1>i. /\ WorkerInv(t) /\ job \in [Threads -> Job] /\ job[t].pc = "fb_switch"
      /\ TypeOK /\ o \in Objects /\ idOf[o] \in Ids
      /\ inst \in [Objects -> Instance] /\ inst[o] \in Instance
  BY WorkerFacts DEF FallbackSwitch, JobAt, Cycle, TypeOK
<1>1. Named(o) /\ Gone(o, "vm") /\ ~job[t].success
  BY <1>i DEF WorkerInv, Tracked, Cycle
<1>2. /\ host' \in [Ids -> SUBSET Resources] /\ host'[idOf[o]] \subseteq host[idOf[o]]
      /\ \A i \in Ids \ {idOf[o]} : host'[i] = host[i]
      /\ Sure("switch") => "switch" \notin host'[idOf[o]]
  <2>1. CASE inst[o].switch
    <3>1. PICK ok \in BOOLEAN : Removal(idOf[o], "switch", "clean_switch", ok)
      BY <2>1 DEF FallbackSwitch, Bkr
    <3> QED BY <1>i, <3>1, RemovalHost, RemovalType DEF Sure
  <2>2. CASE ~inst[o].switch
    BY <1>i, <1>1, <2>2 DEF FallbackSwitch, Bkr, Named, TypeOK
  <2> QED BY <2>1, <2>2
<1>3. /\ inst' \in [Objects -> Instance] /\ inst'[o].vm = inst[o].vm
      /\ \A p \in Objects \ {o} : inst'[p] = inst[p]
  <2>1. inst' = [inst EXCEPT ![o].switch = FALSE]
    BY DEF FallbackSwitch, Bkr
  <2>2. [inst[o] EXCEPT !.switch = FALSE] \in Instance
    BY <1>i DEF Instance
  <2>3. inst' \in [Objects -> Instance]
    BY <1>i, <2>1, <2>2
  <2> QED BY <1>i, <2>1, <2>3 DEF Instance
<1>4. /\ job' \in [Threads -> Job] /\ \A u \in Threads \ {t} : job'[u] = job[u]
      /\ job'[t].pc = "fb_disk" /\ job'[t].o = o
      /\ job'[t].error = job[t].error /\ job'[t].verdict = job[t].verdict
      /\ job'[t].executed = job[t].executed /\ job'[t].success = job[t].success
  BY <1>i, GotoFacts DEF FallbackSwitch, JobPcs
<1>5. Tracked(t)'
  <2>1. idOf' = idOf
    BY DEF FallbackSwitch
  <2>2. Named(o)' /\ Gone(o, "vm")' /\ Gone(o, "switch")'
    BY <1>1, <1>2, <1>3, <1>4, <2>1 DEF Named, Gone, Sure
  <2> QED BY <1>1, <1>4, <2>2 DEF Tracked
<1> QED BY <1>2, <1>3, <1>4, <1>5, FallbackKeepsInv DEF FallbackSwitch

LEMMA FallbackDiskKeepsInv ==
  ASSUME InspectInv, NEW t \in Threads, FallbackDisk(t)
  PROVE  InspectInv'
<1> DEFINE o == job[t].o
           r == [job[t] EXCEPT !.pc = "delete", !.success = TRUE]
<1>i. /\ WorkerInv(t) /\ job \in [Threads -> Job] /\ job[t].pc = "fb_disk"
      /\ TypeOK /\ o \in Objects /\ idOf[o] \in Ids
  BY WorkerFacts DEF FallbackDisk, JobAt, Cycle, TypeOK
<1>s. UNCHANGED <<state, inst, idOf, row, frame, slots, monitor>>
  BY DEF FallbackDisk
<1>1. Named(o) /\ Gone(o, "vm") /\ Gone(o, "switch")
  BY <1>i DEF WorkerInv, Tracked, Cycle
<1>2. /\ host' \in [Ids -> SUBSET Resources] /\ host'[idOf[o]] \subseteq host[idOf[o]]
      /\ \A i \in Ids \ {idOf[o]} : host'[i] = host[i]
      /\ Sure("disk") => "disk" \notin host'[idOf[o]]
  <2>1. PICK ok \in BOOLEAN : Removal(idOf[o], "disk", "clean_disk", ok)
    BY DEF FallbackDisk, Bkr
  <2> QED BY <1>i, <1>s, <2>1, RemovalHost, RemovalType DEF Sure
<1>3. /\ r \in Job /\ r.pc = "delete" /\ r.o = o /\ r.verdict = job[t].verdict
      /\ r.executed = job[t].executed /\ r.error = job[t].error
  <2>1. job[t] \in Job
    BY <1>i
  <2> QED BY <2>1 DEF Job, JobPcs
<1>4. job' = [job EXCEPT ![t] = r]
  BY DEF FallbackDisk
<1>5. inst \in [Objects -> Instance] /\ o # NoObject
  BY <1>i, WorkerFacts DEF TypeOK
<1> HIDE DEF r
<1>6. /\ job' \in [Threads -> Job] /\ job'[t] = r
      /\ \A u \in Threads \ {t} : job'[u] = job[u]
  BY <1>i, <1>3, <1>4
<1>7. Tracked(t)'
  <2>1. Named(o)' /\ \A x \in Resources : Gone(o, x)'
    BY <1>s, <1>1, <1>2, <1>3, <1>6 DEF Named, Gone, Sure, Resources
  <2> QED BY <1>3, <1>5, <1>6, <2>1 DEF Tracked
<1> QED BY <1>s, <1>2, <1>3, <1>5, <1>6, <1>7, FallbackKeepsInv DEF FallbackDisk

LEMMA DeleteRowKeepsInv ==
  ASSUME InspectInv, NEW t \in Threads, DeleteRow(t)
  PROVE  InspectInv'
<1> DEFINE o == job[t].o
<1>i. /\ WorkerInv(t) /\ job \in [Threads -> Job] /\ job[t].pc = "delete"
      /\ TypeOK /\ o \in Objects /\ o # NoObject /\ idOf[o] \in Ids
      /\ frame[t].pc = "idle" /\ monitor \in [Threads -> Monitor]
  BY WorkerFacts DEF DeleteRow, JobAt, At, Cycle, TypeOK
<1>s. UNCHANGED <<state, inst, idOf, host, frame, slots, monitor>>
  BY DEF DeleteRow
<1>1. /\ job' \in [Threads -> Job] /\ \A u \in Threads \ {t} : job'[u] = job[u]
      /\ job'[t].pc = "report" /\ job'[t].o = o
      /\ job'[t].error = job[t].error /\ job'[t].verdict = job[t].verdict
      /\ job'[t].executed = job[t].executed /\ job'[t].success = job[t].success
  BY <1>i, GotoFacts DEF DeleteRow, JobPcs
<1>2. /\ row' \in [Ids -> Record] /\ ("persist" \notin Faults => row'[idOf[o]] = NoRow)
      /\ \A i \in Ids \ {idOf[o]} : row'[i] = row[i]
  <2>1. NoRow \in Record
    BY DEF NoRow, Record
  <2>2. row \in [Ids -> Record]
    BY <1>i DEF TypeOK
  <2>3. row' = [row EXCEPT ![idOf[o]] = NoRow] \/ ("persist" \in Faults /\ row' = row)
    BY DEF DeleteRow, Bkr, May
  <2> QED BY <1>i, <2>1, <2>2, <2>3
<1>3. Alone(t) /\ TypeOK'
  <2>1. \A p \in Objects \ {o} : row'[idOf[p]] = row[idOf[p]]
    BY <1>i, <1>2 DEF InspectInv, Owned, TypeOK
  <2> QED BY <1>i, <1>s, <1>1, <1>2, <2>1 DEF Alone, TypeOK
<1>4. Housed(t)' /\ Told(t)'
  BY <1>i, <1>1 DEF WorkerInv, Housed, Told, Cycle
<1>5. Phase(t)'
  BY <1>i, <1>s, <1>1 DEF WorkerInv, Phase
<1>6. Tracked(t)'
  BY <1>i, <1>s, <1>1 DEF WorkerInv, Tracked, Gone, Sure, Cycle
<1>7. Recorded(t)'
  BY <1>s, <1>1, <1>2 DEF Recorded, Cycle
<1> QED
  BY <1>i, <1>s, <1>1, <1>3, <1>4, <1>5, <1>6, <1>7, WorkerKeepsInv
  DEF WorkerInv, Working, At

LEMMA ReportKeepsInv ==
  ASSUME InspectInv, NEW t \in Threads, Report(t)
  PROVE  InspectInv'
<1> DEFINE o == job[t].o
           won == job[t].success /\ job[t].error # "deadline"
           told == VerdictOf(job[t].error, TelemetryError(t), job[t].iocs)
           r == [job[t] EXCEPT !.success = won, !.verdict = told, !.pc = "answer"]
<1>i. /\ WorkerInv(t) /\ job \in [Threads -> Job] /\ job[t].pc = "report"
      /\ monitor \in [Threads -> Monitor] /\ frame[t].pc = "idle"
  BY WorkerFacts DEF Report, JobAt, At
<1>s. SameBunker /\ UNCHANGED <<frame, slots, monitor>>
  BY DEF Report
<1>1. told \in Verdicts
  BY DEF VerdictOf, Verdicts
<1>2. /\ r \in Job /\ r.pc = "answer" /\ r.o = o /\ r.success = won
  <2>1. won \in BOOLEAN /\ job[t] \in Job
    BY <1>i
  <2> HIDE DEF won, told
  <2> QED BY <1>1, <2>1 DEF Job, JobPcs
<1>3. job' = [job EXCEPT ![t] = r]
  BY DEF Report, Reported
<1> HIDE DEF r, told
<1>4. /\ job' \in [Threads -> Job] /\ job'[t] = r
      /\ \A u \in Threads \ {t} : job'[u] = job[u]
  BY <1>i, <1>2, <1>3
<1>5. Housed(t)' /\ Told(t)'
  BY <1>i, <1>2, <1>4 DEF WorkerInv, Housed, Told, Cycle
<1>6. Phase(t)'
  BY <1>i, <1>s, <1>2, <1>4 DEF WorkerInv, Phase, SameBunker
<1>7. Tracked(t)'
  BY <1>i, <1>s, <1>2, <1>4
  DEF WorkerInv, Tracked, Gone, Sure, SameBunker, Cycle
<1>8. Recorded(t)'
  BY <1>i, <1>s, <1>2, <1>4 DEF WorkerInv, Recorded, SameBunker, Cycle
<1> QED
  BY <1>i, <1>s, <1>2, <1>4, <1>5, <1>6, <1>7, <1>8, QuietStep
  DEF WorkerInv, Working

\* The monitor thread, whatever it finds, changes nothing of the worker.
LEMMA MonitorKeepsInv ==
  ASSUME InspectInv, NEW t \in Threads, MonitorWake(t) \/ MonitorCheck(t)
  PROVE  InspectInv'
<1>i. /\ WorkerInv(t) /\ job \in [Threads -> Job]
      /\ monitor \in [Threads -> Monitor] /\ NumChecks \in Nat \ {0}
      /\ Off = NumChecks + 1
  BY WorkerFacts, InspectAssumption DEF InspectAssumption, Off
<1>s. SameBunker /\ UNCHANGED <<frame, slots, job>>
  BY DEF MonitorWake, MonitorCheck
<1>1. monitor' \in [Threads -> Monitor]
  <2>1. CASE MonitorWake(t)
    <3>1. \E n \in 0..Off : monitor' = [monitor EXCEPT ![t].at = n]
      <4>1. 1 \in 0..Off /\ Off \in 0..Off
        BY <1>i
      <4>2. (IF inst[Bkr(t)].monitoring THEN 1 ELSE Off) \in 0..Off
        BY <4>1
      <4> QED BY <2>1, <4>2 DEF MonitorWake
    <3>2. PICK n \in 0..Off : monitor' = [monitor EXCEPT ![t].at = n]
      BY <3>1
    <3>3. [monitor[t] EXCEPT !.at = n] \in Monitor
      BY <1>i DEF Monitor
    <3> QED BY <1>i, <3>2, <3>3
  <2>2. CASE MonitorCheck(t)
    <3> DEFINE m == monitor[t]
               n == IF m.at = NumChecks THEN 0 ELSE m.at + 1
               looked == m.looked \/ m.at = NumChecks
               done == [m EXCEPT !.at = n, !.looked = looked]
    <3>1. m \in Monitor /\ m.events \in SUBSET Severities
      BY <1>i DEF Monitor
    <3>2. m.at \in 1..NumChecks
      BY <2>2 DEF MonitorCheck
    <3>3. n \in 0..Off
      BY <1>i, <3>2
    <3>4. looked \in BOOLEAN
      BY <3>1 DEF Monitor
    <3>5. done \in Monitor
      <4> HIDE DEF n, looked
      <4> QED BY <3>1, <3>3, <3>4 DEF Monitor
    <3>6. \E d \in Monitor : monitor' = [monitor EXCEPT ![t] = d]
      <4>1. \A s \in Severities : [done EXCEPT !.events = @ \cup {s}] \in Monitor
        <5> HIDE DEF done
        <5> QED BY <3>5 DEF Monitor
      <4>2. [done EXCEPT !.unavailable = TRUE] \in Monitor
        <5> HIDE DEF done
        <5> QED BY <3>5 DEF Monitor
      <4>3. \/ monitor' = [monitor EXCEPT ![t] = done]
            \/ \E s \in Severities :
                 monitor' = [monitor EXCEPT ![t] = [done EXCEPT !.events = @ \cup {s}]]
            \/ monitor' = [monitor EXCEPT ![t] = [done EXCEPT !.unavailable = TRUE]]
        BY <2>2 DEF MonitorCheck
      <4> HIDE DEF done
      <4> QED BY <3>5, <4>1, <4>2, <4>3
    <3> QED BY <1>i, <3>6
  <2> QED BY <2>1, <2>2
<1>2. Housed(t)' /\ Told(t)'
  BY <1>i, <1>s DEF WorkerInv, Housed, Told
<1>3. Phase(t)'
  BY <1>i, <1>s
  DEF WorkerInv, Phase, InitPhase, ActPhase, TermPhase, SameBunker
<1>4. Tracked(t)' /\ Recorded(t)'
  BY <1>i, <1>s
  DEF WorkerInv, Tracked, Recorded, Named, Cleared, Gone, Sure, SameBunker
<1> QED
  BY <1>i, <1>s, <1>1, <1>2, <1>3, <1>4, QuietStep DEF WorkerInv, Working

\* A step inside a bunker method, by the worker whose bunker it is.
LEMMA MethodKeepsInv ==
  ASSUME InspectInv, NEW t \in Threads, MethodStep(t)
  PROVE  InspectInv'
<1> DEFINE o == job[t].o
           l == job[t].pc
<1>i. /\ WorkerInv(t) /\ job \in [Threads -> Job] /\ job[t] \in Job /\ TypeOK
      /\ monitor \in [Threads -> Monitor]
  BY WorkerFacts
<1>s. UNCHANGED <<slots, job>> /\ Step(t)
  BY DEF MethodStep
<1>1. /\ frame[t].pc # "idle"
      /\ \/ InitStep(t) /\ frame[t].pc \in InitPcs
         \/ ActStep(t) /\ frame[t].pc \in ActPcs
         \/ TermStep(t) /\ frame[t].pc \in TermPcs
         \/ QuarStep(t) /\ frame[t].pc \in QuarPcs
  BY <1>s, StepPlace, PlacesApart DEF Step
<1>2. \/ l = "init" /\ InitStep(t) /\ InitPhase(t, o)
      \/ l = "activate" /\ ActStep(t) /\ ActPhase(t, o)
      \/ l = "term" /\ TermStep(t) /\ TermPhase(t, o)
  BY <1>i, <1>1, PlacesApart DEF WorkerInv, Phase, MethodPcs
<1>3. /\ o \in Objects /\ o # NoObject /\ Self(t) = o /\ l \in Cycle
      /\ idOf[o] \in Ids
  <2>1. l \in Cycle /\ o \in Objects
    BY <1>i, <1>2 DEF Cycle, WorkerInv, Housed
  <2>2. Self(t) = o
    BY <1>1 DEF InspectInv, InspectTypeOK, At
  <2> QED BY <1>i, <2>1, <2>2, BunkerAssumption DEF TypeOK, BunkerAssumption
<1>f. Footprint(t, o)
  BY <1>i, <1>2, <1>3, InitFootprint, ActFootprint, TermFootprint
<1>4. Alone(t)
  BY <1>i, <1>s, <1>3, <1>f DEF Footprint, Alone, InspectInv, Owned, TypeOK
<1>5. TypeOK'
  BY <1>i, <1>s, NextType DEF Next
<1>6. monitor' \in [Threads -> Monitor]
  <2>1. 0 \in 0..Off
    BY InspectAssumption DEF InspectAssumption, Off
  <2>2. monitor' = [monitor EXCEPT ![t].at = 0] \/ monitor' = [monitor EXCEPT ![t].at = @]
    BY DEF MethodStep
  <2> QED BY <1>i, <2>1, <2>2 DEF Monitor
<1>7. /\ frame'[t].pc \in {"idle"} \cup MethodPcs(l)
      /\ frame'[t].pc # "idle" => frame'[t].o = o
      /\ frame'[t].pc # "init_begin"
      /\ l = "init" => InitPhase(t, o)'
      /\ l = "activate" => ActPhase(t, o)'
      /\ l = "term" => TermPhase(t, o)'
  <2>1. CASE l = "init"
    <3>1. /\ Stays(t, o, InitPcs) /\ InitPhase(t, job[t].o)'
          /\ frame'[t].pc # "init_begin"
      BY <1>i, <1>2, <1>3, <1>s, <2>1, InitPhaseStep, AllTold
      DEF InitPhase
    <3> QED BY <1>s, <2>1, <3>1 DEF Stays, MethodPcs
  <2>2. CASE l = "activate"
    <3>1. Stays(t, o, ActPcs) /\ ActPhase(t, job[t].o)'
      BY <1>i, <1>2, <1>3, <1>s, <2>2, ActPhaseStep, AllTold
      DEF ActPhase
    <3> QED BY <1>s, <2>2, <3>1 DEF Stays, MethodPcs, ActPcs
  <2>3. CASE l = "term"
    <3>1. Stays(t, o, TermPcs) /\ TermPhase(t, job[t].o)'
      BY <1>i, <1>2, <1>3, <1>s, <2>3, TermPhaseStep, AllTold
      DEF TermPhase
    <3> QED BY <1>s, <2>3, <3>1 DEF Stays, MethodPcs, TermPcs
  <2> QED BY <1>2, <2>1, <2>2, <2>3
<1>8. Phase(t)'
  BY <1>s, <1>2, <1>7 DEF Phase
<1>9. Housed(t)' /\ Told(t)'
  BY <1>i, <1>s DEF WorkerInv, Housed, Told
<1>10. Tracked(t)'
  <2>1. Named(o) /\ ~job[t].success /\ (l = "term" => Cleared(t, o))
    BY <1>i, <1>2, <1>3 DEF WorkerInv, Tracked, Cycle
  <2>2. Named(o)'
    BY <1>i, <1>2, <1>3, <1>s, <2>1, InitNamed, ActNamed, TermNamed
    DEF Named, Sure
  <2>3. l = "term" => Cleared(t, o)'
    <3>1. CASE TermStep(t) /\ l = "term"
      BY <1>i, <1>3, <1>s, <2>1, <3>1, TermCleared DEF Cleared, Gone, Sure
    <3> QED BY <1>2, <3>1
  <2> QED BY <1>2, <1>s, <1>7, <2>1, <2>2, <2>3 DEF Tracked
<1>11. Recorded(t)'
  <2>1. SUFFICES ASSUME "persist" \notin Faults PROVE row'[idOf'[o]] # NoRow
    BY <1>2, <1>3, <1>s DEF Recorded, Cycle
  <2>2. idOf' = idOf
    BY <1>4 DEF Alone
  <2>3. \/ row[idOf[o]] # NoRow
        \/ frame[t].pc = "init_begin" /\ state[o] = "DESTROYED"
    <3>1. frame[t].pc = "init_begin" => l = "init"
      BY <1>1, <1>2, StepPlace, PlacesApart DEF InitPcs
    <3> QED
      BY <1>i, <1>2, <1>3, <2>1, <3>1 DEF WorkerInv, Recorded, InitPhase
  <2> QED BY <1>i, <1>s, <1>3, <2>1, <2>2, <2>3, RowStep
<1> QED
  BY <1>i, <1>s, <1>4, <1>5, <1>6, <1>7, <1>8, <1>9, <1>10, <1>11,
     WorkerKeepsInv
  DEF WorkerInv, Working, At

-----------------------------------------------------------------------------
(* Workers come and go: the slots are counted.                             *)

LEMMA SlotTaken ==
  ASSUME InspectInv, NEW t \in Threads, ~Working(t), Working(t)',
         \A u \in Threads \ {t} : Working(u)' <=> Working(u),
         slots > 0, slots' = slots - 1
  PROVE  slots' \in 0..MaxInFlight /\ Slots'
<1> DEFINE W == {u \in Threads : Working(u)}
           V == {u \in Threads : Working(u)'}
<1>1. V = W \cup {t} /\ t \notin W
  OBVIOUS
<1>2. IsFiniteSet(W) /\ slots + Cardinality(W) = MaxInFlight
  BY DEF InspectInv, Slots, SlotsBalance
<1>3. slots \in Nat /\ MaxInFlight \in Nat /\ slots <= MaxInFlight
  BY InspectAssumption DEF InspectInv, InspectTypeOK, InspectAssumption
<1>4. Cardinality(W) \in Nat
  BY <1>2, FS_CardinalityType
<1>5. IsFiniteSet(V) /\ Cardinality(V) = Cardinality(W) + 1
  BY <1>1, <1>2, FS_AddElement
<1>6. slots' + Cardinality(V) = MaxInFlight /\ slots' \in 0..MaxInFlight
  <2> HIDE DEF W, V
  <2> QED BY <1>2, <1>3, <1>4, <1>5
<1>7. {u \in Threads : Working(u)}' = V
  OBVIOUS
<1> QED
  <2> HIDE DEF V
  <2> QED BY <1>5, <1>6, <1>7 DEF Slots, SlotsBalance

LEMMA SlotFreed ==
  ASSUME InspectInv, NEW t \in Threads, Working(t), ~Working(t)',
         \A u \in Threads \ {t} : Working(u)' <=> Working(u),
         slots' = slots + 1
  PROVE  slots' \in 0..MaxInFlight /\ Slots'
<1> DEFINE W == {u \in Threads : Working(u)}
           V == {u \in Threads : Working(u)'}
<1>1. V = W \ {t} /\ t \in W
  OBVIOUS
<1>2. IsFiniteSet(W) /\ slots + Cardinality(W) = MaxInFlight
  BY DEF InspectInv, Slots, SlotsBalance
<1>3. slots \in Nat /\ MaxInFlight \in Nat
  BY InspectAssumption DEF InspectInv, InspectTypeOK, InspectAssumption
<1>4. Cardinality(W) \in Nat
  BY <1>2, FS_CardinalityType
<1>5. IsFiniteSet(V) /\ Cardinality(V) = Cardinality(W) - 1
  BY <1>1, <1>2, FS_RemoveElement
<1>6. Cardinality(V) \in Nat
  BY <1>5, FS_CardinalityType
<1>7. slots' + Cardinality(V) = MaxInFlight /\ slots' \in 0..MaxInFlight
  <2> HIDE DEF W, V
  <2> QED BY <1>2, <1>3, <1>4, <1>5, <1>6
<1>8. {u \in Threads : Working(u)}' = V
  OBVIOUS
<1> QED
  <2> HIDE DEF V
  <2> QED BY <1>5, <1>7, <1>8 DEF Slots, SlotsBalance

LEMMA NoMonitorType == NoMonitor \in Monitor
<1>1. Off \in 0..Off
  BY InspectAssumption DEF InspectAssumption, Off
<1> QED BY <1>1 DEF NoMonitor, Monitor

LEMMA IdleType == Idle \in Frame /\ Idle.pc = "idle"
<1>1. 0 \in 0..NumLayers
  BY BunkerAssumption DEF BunkerAssumption
<1> QED BY <1>1 DEF Idle, Frame

LEMMA SubmitKeepsInv ==
  ASSUME InspectInv, NEW t \in Threads, Submit(t)
  PROVE  InspectInv'
<1> DEFINE r == [NoJob EXCEPT !.pc = "hash", !.waiting = TRUE]
<1>i. /\ WorkerInv(t) /\ job \in [Threads -> Job] /\ job[t].pc = "idle"
      /\ monitor \in [Threads -> Monitor] /\ frame[t].pc = "idle"
      /\ job[t].o = NoObject /\ TypeOK
  BY WorkerFacts DEF Submit, JobAt, At, WorkerInv, Housed
<1>s. SameBunker /\ UNCHANGED frame /\ job' = [job EXCEPT ![t] = r]
  BY DEF Submit
<1>1. /\ r \in Job /\ r.pc = "hash" /\ r.o = NoObject /\ ~r.success
      /\ r.verdict = "none"
  BY DEF NoJob, Job, JobPcs, Verdicts
<1> HIDE DEF r
<1>2. /\ job' \in [Threads -> Job] /\ job'[t] = r
      /\ \A u \in Threads \ {t} : job'[u] = job[u]
  BY <1>i, <1>s, <1>1
<1>3. monitor' \in [Threads -> Monitor]
  BY <1>i, NoMonitorType DEF Submit
<1>4. /\ ~Working(t) /\ Working(t)'
      /\ \A u \in Threads \ {t} : Working(u)' <=> Working(u)
  BY <1>i, <1>1, <1>2 DEF Working
<1>5. slots' \in 0..MaxInFlight /\ Slots'
  BY <1>4, SlotTaken DEF Submit
<1>6. DeadAlone'
  BY <1>1, <1>2 DEF Submit, NobodyDead, DeadAlone
<1>7. Alone(t) /\ TypeOK'
  BY <1>i, <1>s, <1>2 DEF Alone, SameBunker, TypeOK
<1>8. Housed(t)' /\ Told(t)' /\ Phase(t)'
  BY <1>i, <1>s, <1>1, <1>2 DEF Housed, Told, Phase, Cycle
<1>9. Tracked(t)' /\ Recorded(t)'
  BY <1>1, <1>2 DEF Tracked, Recorded, Cycle
<1> QED
  BY <1>i, <1>s, <1>1, <1>2, <1>3, <1>5, <1>6, <1>7, <1>8, <1>9, WorkerKeepsRest
  DEF WorkerInv, At

\* What is forgotten with a worker is its own.
LEMMA DiscardFacts ==
  ASSUME InspectInv, NEW t \in Threads, Discard(t)
  PROVE  /\ Alone(t) /\ TypeOK' /\ job' \in [Threads -> Job]
         /\ monitor' \in [Threads -> Monitor]
         /\ job'[t] = NoJob /\ frame'[t].pc = "idle"
         /\ \A p \in Objects : p = job[t].o => Pristine(p)'
<1> DEFINE o == job[t].o
<1>i. /\ job \in [Threads -> Job] /\ monitor \in [Threads -> Monitor] /\ TypeOK
      /\ frame \in [Threads -> Frame] /\ o \in Objects \cup {NoObject} /\ Owned
  BY WorkerFacts DEF Job, InspectInv
<1>1. /\ job' = [job EXCEPT ![t] = NoJob] /\ frame' = [frame EXCEPT ![t] = Idle]
      /\ monitor' = [monitor EXCEPT ![t] = NoMonitor] /\ idOf' = idOf
      /\ state' = [p \in Objects |-> IF p = o THEN "DESTROYED" ELSE state[p]]
      /\ inst' = [p \in Objects |-> IF p = o THEN Fresh ELSE inst[p]]
      /\ host' = [i \in Ids |-> IF o \in Objects /\ i = idOf[o] THEN {} ELSE host[i]]
      /\ row' = [i \in Ids |-> IF o \in Objects /\ i = idOf[o] THEN NoRow ELSE row[i]]
  BY DEF Discard
<1>2. NoJob \in Job
  BY DEF NoJob, Job, JobPcs, Verdicts
<1>3. /\ job' \in [Threads -> Job] /\ job'[t] = NoJob
      /\ \A u \in Threads \ {t} : job'[u] = job[u]
  BY <1>i, <1>1, <1>2
<1>4. /\ frame' \in [Threads -> Frame] /\ frame'[t].pc = "idle"
      /\ \A u \in Threads \ {t} : frame'[u] = frame[u]
  BY <1>i, <1>1, IdleType
<1>5. monitor' \in [Threads -> Monitor]
  BY <1>i, <1>1, NoMonitorType
<1>6. "DESTROYED" \in States!BunkerState /\ Fresh \in Instance /\ NoRow \in Record
  BY DEF States!BunkerState, Fresh, Instance, NoRow, Record
<1>7. TypeOK'
  <2>1. state' \in [Objects -> States!BunkerState]
    BY <1>i, <1>1, <1>6 DEF TypeOK
  <2>2. inst' \in [Objects -> Instance]
    BY <1>i, <1>1, <1>6 DEF TypeOK
  <2>3. host' \in [Ids -> SUBSET Resources]
    BY <1>i, <1>1 DEF TypeOK
  <2>4. row' \in [Ids -> Record]
    BY <1>i, <1>1, <1>6 DEF TypeOK
  <2>5. \A u \in Threads : frame'[u].pc # "idle" => frame'[u].o \in Objects
    BY <1>i, <1>4 DEF TypeOK
  <2> QED BY <1>i, <1>1, <1>4, <2>1, <2>2, <2>3, <2>4, <2>5 DEF TypeOK
<1>8. \A p \in Objects \ {o} :
        /\ state'[p] = state[p] /\ inst'[p] = inst[p]
        /\ host'[idOf[p]] = host[idOf[p]] /\ row'[idOf[p]] = row[idOf[p]]
  <2> SUFFICES ASSUME NEW p \in Objects, p # o
               PROVE  /\ state'[p] = state[p] /\ inst'[p] = inst[p]
                      /\ host'[idOf[p]] = host[idOf[p]]
                      /\ row'[idOf[p]] = row[idOf[p]]
    OBVIOUS
  <2>1. idOf[p] \in Ids /\ (o \in Objects => idOf[p] # idOf[o])
    BY <1>i DEF Owned, TypeOK
  <2> QED BY <1>1, <2>1
<1>9. \A p \in Objects : p = o => Pristine(p)'
  <2> SUFFICES ASSUME NEW p \in Objects, p = o PROVE Pristine(p)'
    OBVIOUS
  <2>1. idOf[p] \in Ids
    BY <1>i DEF TypeOK
  <2> QED BY <1>1, <2>1 DEF Pristine
<1> QED BY <1>1, <1>3, <1>4, <1>5, <1>7, <1>8, <1>9 DEF Alone

LEMMA LeaveKeepsInv ==
  ASSUME InspectInv, NEW t \in Threads, Answer(t) \/ Forget(t)
  PROVE  InspectInv'
<1>1. /\ Alone(t) /\ TypeOK' /\ job' \in [Threads -> Job]
      /\ monitor' \in [Threads -> Monitor]
      /\ job'[t] = NoJob /\ frame'[t].pc = "idle"
      /\ \A p \in Objects : p = job[t].o => Pristine(p)'
  BY DiscardFacts DEF Answer, Forget
<1>2. /\ NoJob.pc = "idle" /\ NoJob.o = NoObject /\ ~NoJob.success
      /\ NoJob.verdict = "none"
  BY DEF NoJob
<1>3. ~Working(t)' /\ \A u \in Threads \ {t} : Working(u)' <=> Working(u)
  BY <1>1, <1>2 DEF Working, Alone
<1>4. slots' \in 0..MaxInFlight /\ Slots'
  <2>1. CASE Answer(t)
    <3>1. Working(t) /\ slots' = slots + 1
      BY <2>1 DEF Answer, JobAt, Working
    <3> QED BY <1>3, <3>1, SlotFreed
  <2>2. CASE Forget(t)
    <3>1. ~Working(t) /\ slots' = slots
      BY <2>2 DEF Forget, Working
    <3>2. {u \in Threads : Working(u)}' = {u \in Threads : Working(u)}
      BY <1>3, <3>1
    <3> QED BY <3>1, <3>2 DEF InspectInv, InspectTypeOK, Slots, SlotsBalance
  <2> QED BY <2>1, <2>2
<1>5. DeadAlone'
  BY <1>1, <1>2, <1>3 DEF InspectInv, DeadAlone, Alone
<1>6. WorkerInv(t)'
  BY <1>1, <1>2 DEF WorkerInv, Housed, Told, Phase, Tracked, Recorded, Cycle
<1>7. job'[t].o = NoObject /\ At(t, "idle")'
  BY <1>1, <1>2 DEF At
<1> QED BY <1>1, <1>4, <1>5, <1>6, <1>7, WorkerKeepsRest

\* The process dies: a worker with a bunker leaves it behind, and every slot is
\* free again.
LEMMA CrashKeepsInv ==
  ASSUME InspectInv, CrashApi
  PROVE  InspectInv'
<1> DEFINE left(t) == [NoJob EXCEPT !.pc = "dead", !.o = job[t].o,
                                    !.died = job[t].pc]
<1>i. /\ job \in [Threads -> Job] /\ monitor \in [Threads -> Monitor] /\ TypeOK
      /\ frame \in [Threads -> Frame] /\ Owned /\ Unused /\ DeadAlone
      /\ \A t \in Threads : WorkerInv(t)
  BY WorkerFacts DEF InspectInv, InspectTypeOK, TypeOK, WorkerInv
<1>1. /\ \A t \in Threads :
           /\ job'[t] = IF ~Working(t) \/ job[t].o = NoObject THEN NoJob
                        ELSE left(t)
           /\ frame'[t] = Idle
      /\ slots' = MaxInFlight /\ UNCHANGED <<idOf, host, row>>
      /\ state' = [o \in Objects |-> "DESTROYED"]
      /\ inst' = [o \in Objects |-> Fresh]
      /\ monitor' = [t \in Threads |-> NoMonitor]
      /\ frame' = [t \in Threads |-> Idle]
  BY DEF CrashApi
<1>2. NoJob \in Job /\ NoJob.pc = "idle" /\ NoJob.o = NoObject /\ ~NoJob.success
      /\ NoJob.verdict = "none"
  BY DEF NoJob, Job, JobPcs, Verdicts
<1>3. \A t \in Threads :
        /\ left(t) \in Job /\ left(t).pc = "dead" /\ left(t).o = job[t].o
        /\ left(t).died = job[t].pc
        /\ ~left(t).success /\ left(t).verdict = "none"
  <2> SUFFICES ASSUME NEW t \in Threads
               PROVE  /\ left(t) \in Job /\ left(t).pc = "dead"
                      /\ left(t).o = job[t].o /\ left(t).died = job[t].pc
                      /\ ~left(t).success /\ left(t).verdict = "none"
    OBVIOUS
  <2>1. job[t].pc \in JobPcs /\ job[t].o \in Objects \cup {NoObject}
    BY <1>i DEF Job
  <2> QED BY <2>1 DEF NoJob, Job, JobPcs, Verdicts
<1> HIDE DEF left
<1>4. job' \in [Threads -> Job]
  <2>1. \A t \in Threads : job'[t] \in Job
    BY <1>1, <1>2, <1>3
  <2>2. \E f \in [Threads -> Job] : job' = f
    <3>1. job' = [t \in Threads |->
                    IF ~Working(t) \/ job[t].o = NoObject THEN NoJob
                    ELSE left(t)]
      BY DEF CrashApi, left
    <3> QED BY <2>1, <3>1
  <2> QED BY <2>2
<1>5. TypeOK'
  <2>1. "DESTROYED" \in States!BunkerState /\ Fresh \in Instance
    BY DEF States!BunkerState, Fresh, Instance
  <2> QED BY <1>i, <1>1, <2>1, IdleType DEF TypeOK
<1>6. \A t \in Threads : ~Working(t)'
  BY <1>1, <1>2, <1>3 DEF Working
<1>7. InspectTypeOK'
  <2>1. monitor' \in [Threads -> Monitor]
    BY <1>1, NoMonitorType
  <2>2. slots' \in 0..MaxInFlight
    BY <1>1, InspectAssumption DEF InspectAssumption
  <2>3. \A t \in Threads : At(t, "idle")'
    BY <1>1, IdleType DEF At
  <2> QED BY <1>4, <1>5, <2>1, <2>2, <2>3 DEF InspectTypeOK
<1>8. Slots'
  <2>1. {t \in Threads : Working(t)}' = {}
    BY <1>6
  <2>2. MaxInFlight \in Nat
    BY InspectAssumption DEF InspectAssumption
  <2> QED BY <1>1, <2>1, <2>2, FS_EmptySet DEF Slots, SlotsBalance
<1>9. Owned' /\ DeadAlone'
  <2>1. \A t \in Threads : job'[t].o = job[t].o \/ job'[t].o = NoObject
    BY <1>1, <1>2, <1>3
  <2> QED BY <1>i, <1>1, <1>6, <2>1 DEF Owned, DeadAlone
<1>10. Unused'
  <2> SUFFICES ASSUME NEW p \in Objects, \A t \in Threads : job'[t].o # p
               PROVE  Pristine(p)'
    BY DEF Unused
  <2>1. \A t \in Threads : job[t].o # p
    <3> SUFFICES ASSUME NEW t \in Threads, job[t].o = p PROVE FALSE
      OBVIOUS
    <3>1. p # NoObject /\ job[t].pc \notin {"idle", "hash"}
      BY <1>i, BunkerAssumption DEF BunkerAssumption, WorkerInv, Housed
    <3>2. job[t].pc # "dead"
      BY <1>i DEF CrashApi, DeadAlone
    <3> QED BY <1>1, <1>3, <3>1, <3>2 DEF Working
  <2>2. Pristine(p)
    BY <1>i, <2>1 DEF Unused
  <2> QED BY <1>1, <2>2 DEF Pristine
<1>11. \A t \in Threads : WorkerInv(t)'
  <2> SUFFICES ASSUME NEW t \in Threads PROVE WorkerInv(t)'
    OBVIOUS
  <2>i. frame'[t].pc = "idle"
    BY <1>1, IdleType
  <2>1. CASE job'[t] = NoJob
    BY <1>2, <2>i, <2>1
    DEF WorkerInv, Housed, Told, Phase, Tracked, Recorded, Cycle
  <2>2. CASE /\ job'[t] = left(t) /\ Working(t) /\ job[t].o # NoObject
    <3>1. Housed(t)' /\ Told(t)' /\ Phase(t)' /\ Tracked(t)'
      <4>1. job[t].o \in Objects
        BY <1>i, <2>2 DEF Job
      <4> QED BY <1>3, <2>i, <2>2, <4>1 DEF Housed, Told, Phase, Tracked, Cycle
    <3>2. ASSUME "persist" \notin Faults, job[t].pc \notin {"report", "answer"},
                 host[idOf[job[t].o]] # {}
          PROVE  row[idOf[job[t].o]] # NoRow
      <4>1. job[t].pc \in Cycle
        <5>1. job[t].pc \in JobPcs \ {"idle", "dead", "hash", "report", "answer"}
          BY <1>i, <2>2, <3>2 DEF Job, Working, WorkerInv, Housed
        <5> QED BY <5>1 DEF JobPcs, Cycle
      <4>2. frame[t].pc # "init_begin"
        <5> SUFFICES ASSUME frame[t].pc = "init_begin" PROVE FALSE
          OBVIOUS
        <5>1. job[t].pc = "init"
          BY <1>i DEF WorkerInv, Phase, MethodPcs, ActPcs, TermPcs
        <5> QED BY <1>i, <3>2, <5>1 DEF WorkerInv, Tracked
      <4> QED BY <1>i, <3>2, <4>1, <4>2 DEF WorkerInv, Recorded
    <3>3. Recorded(t)'
      BY <1>1, <1>3, <2>2, <3>2 DEF Recorded, Cycle
    <3> QED BY <3>1, <3>3 DEF WorkerInv
  <2> QED BY <1>1, <2>1, <2>2
<1> QED BY <1>7, <1>8, <1>9, <1>10, <1>11 DEF InspectInv, WorkerInv

-----------------------------------------------------------------------------

LEMMA InspectInitInv == InspectInit => InspectInv
<1> SUFFICES ASSUME InspectInit PROVE InspectInv
  OBVIOUS
<1>1. TypeOK /\ \A t \in Threads : frame[t].pc = "idle"
  BY InitType, IdleType DEF InspectInit, Init
<1>2. /\ NoJob \in Job /\ NoJob.pc = "idle" /\ NoJob.o = NoObject
      /\ ~NoJob.success /\ NoJob.verdict = "none"
  BY DEF NoJob, Job, JobPcs, Verdicts
<1>3. job \in [Threads -> Job] /\ \A t \in Threads : job[t] = NoJob
  BY <1>2 DEF InspectInit
<1>4. InspectTypeOK
  BY <1>1, <1>3, NoMonitorType, InspectAssumption
  DEF InspectInit, InspectTypeOK, InspectAssumption, At
<1>5. Owned /\ Unused /\ DeadAlone
  <2>1. \A o \in Objects : idOf[o] \in Ids
    BY <1>1 DEF TypeOK
  <2> QED
    BY <1>2, <1>3, <2>1
    DEF InspectInit, Init, Owned, Unused, DeadAlone, Pristine
<1>6. Slots
  <2>1. {t \in Threads : Working(t)} = {}
    BY <1>2, <1>3 DEF Working
  <2>2. MaxInFlight \in Nat
    BY InspectAssumption DEF InspectAssumption
  <2> QED BY <2>1, <2>2, FS_EmptySet DEF InspectInit, Slots, SlotsBalance
<1>7. \A t \in Threads : WorkerInv(t)
  BY <1>1, <1>2, <1>3 DEF WorkerInv, Housed, Told, Phase, Tracked, Recorded, Cycle
<1> QED BY <1>4, <1>5, <1>6, <1>7 DEF InspectInv, WorkerInv

LEMMA InspectNextInv ==
  InspectInv /\ [InspectNext]_inspectAllVars => InspectInv'
<1> SUFFICES ASSUME InspectInv, [InspectNext]_inspectAllVars PROVE InspectInv'
  OBVIOUS
<1>1. CASE InspectNext
  <2>1. CASE CrashApi
    BY <2>1, CrashKeepsInv
  <2>2. ASSUME NEW t \in Threads,
               \/ Submit(t) \/ Expire(t) \/ GiveUp(t) \/ Work(t)
               \/ MonitorWake(t) \/ MonitorCheck(t) \/ Forget(t)
        PROVE  InspectInv'
    <3>1. CASE Work(t)
      BY <3>1, HashKeepsInv, InitializedKeepsInv, ActivatedKeepsInv,
         GuestStepKeepsInv, CollectKeepsInv, DecontaminateKeepsInv,
         TerminatedKeepsInv, FallbackVmKeepsInv, FallbackSwitchKeepsInv,
         FallbackDiskKeepsInv, DeleteRowKeepsInv, ReportKeepsInv,
         LeaveKeepsInv, MethodKeepsInv
      DEF Work
    <3> QED
      BY <2>2, <3>1, SubmitKeepsInv, ExpireKeepsInv, MonitorKeepsInv,
         LeaveKeepsInv
  <2> QED BY <1>1, <2>1, <2>2 DEF InspectNext
<1>2. CASE UNCHANGED inspectAllVars
  <2>1. UNCHANGED <<state, inst, idOf, host, row, frame, slots, job, monitor>>
    BY <1>2 DEF inspectAllVars, vars, inspectVars
  <2>2. InspectTypeOK'
    BY <2>1 DEF InspectInv, InspectTypeOK, TypeOK, At, Self
  <2>3. Owned' /\ Unused' /\ DeadAlone'
    BY <2>1 DEF InspectInv, Owned, Unused, Pristine, DeadAlone, Working
  <2>4. Slots'
    BY <2>1 DEF InspectInv, Slots, SlotsBalance, Working
  <2>5. ASSUME NEW t \in Threads PROVE WorkerInv(t)'
    <3>1. WorkerInv(t)
      BY DEF InspectInv, WorkerInv
    <3>2. Housed(t)' /\ Told(t)'
      BY <2>1, <3>1 DEF WorkerInv, Housed, Told
    <3>3. Phase(t)'
      BY <2>1, <3>1 DEF WorkerInv, Phase, InitPhase, ActPhase, TermPhase
    <3>4. Tracked(t)' /\ Recorded(t)'
      BY <2>1, <3>1 DEF WorkerInv, Tracked, Recorded, Named, Cleared, Gone, Sure
    <3> QED BY <3>2, <3>3, <3>4 DEF WorkerInv
  <2> QED BY <2>2, <2>3, <2>4, <2>5 DEF InspectInv, WorkerInv
<1> QED BY <1>1, <1>2

LEMMA InspectInvariant == InspectSpec => []InspectInv
BY InspectInitInv, InspectNextInv, PTL DEF InspectSpec

\* The variables of an analysis keep their types, and a worker in a bunker method
\* is there for its own bunker.
THEOREM InspectTypeCorrect == InspectSpec => []InspectTypeOK
<1>1. InspectInv => InspectTypeOK
  BY DEF InspectInv
<1> QED BY <1>1, InspectInvariant, PTL

\* Every analysis at work holds one slot and every other slot is free
\* (api.py:507-543), for any number of slots and workers.
THEOREM SlotsBalanceAlways == InspectSpec => []SlotsBalance
<1>1. InspectInv => SlotsBalance
  BY DEF InspectInv, Slots
<1> QED BY <1>1, InspectInvariant, PTL

\* However an analysis ended, its bunker is not up, is not reported gone with a VM
\* left, and has no row (inspect.py:684), unless the store fails, a create_vm that
\* timed out leaves a VM nobody knows, or the removal of a VM fails in a cleanup.
THEOREM AlwaysDecontaminatedAlways ==
  ASSUME Faults \cap {"persist", "late_vm", "clean_vm"} = {}
  PROVE  InspectSpec => []AlwaysDecontaminated
<1>1. InspectInv => AlwaysDecontaminated
  <2> SUFFICES ASSUME InspectInv, NEW t \in Threads,
                      job[t].pc \in {"report", "answer"}, job[t].o # NoObject
               PROVE  /\ state[job[t].o] \in {"DESTROYED", "READY", "ERROR"}
                      /\ "vm" \in host[idOf[job[t].o]] => ~job[t].success
                      /\ row[idOf[job[t].o]] = NoRow
    BY DEF AlwaysDecontaminated, Bkr
  <2>1. WorkerInv(t)
    BY WorkerFacts
  <2>2. state[job[t].o] \in {"DESTROYED", "READY", "ERROR"}
    BY <2>1 DEF WorkerInv, Phase
  <2>3. job[t].success => Gone(job[t].o, "vm")
    BY <2>1 DEF WorkerInv, Tracked, Resources
  <2>4. row[idOf[job[t].o]] = NoRow
    BY <2>1 DEF WorkerInv, Recorded
  <2> QED BY <2>2, <2>3, <2>4 DEF Gone, Sure
<1> QED BY <1>1, InspectInvariant, PTL

\* A decontamination that is reported a success left nothing on the host
\* (inspect.py:566), unless something was created that the bunker never knew, a
\* switch removal lied, or a removal of a cleanup failed: the fallback reports a
\* success whatever its removals answered.
THEOREM SuccessIsCleanAlways ==
  ASSUME Faults \cap {"late_vm", "clean_vm", "silent_switch", "clean_switch",
                      "clean_disk"} = {}
  PROVE  InspectSpec => []SuccessIsClean
<1>1. InspectInv => SuccessIsClean
  <2> SUFFICES ASSUME InspectInv, NEW t \in Threads,
                      job[t].pc = "answer", job[t].success
               PROVE  host[idOf[job[t].o]] = {}
    BY DEF SuccessIsClean, JobAt, Bkr
  <2>1. WorkerInv(t) /\ TypeOK /\ job[t] \in Job
    BY WorkerFacts
  <2>2. job[t].o # NoObject /\ job[t].o \in Objects
    BY <2>1 DEF WorkerInv, Tracked, Job
  <2>3. \A r \in Resources : Gone(job[t].o, r)
    BY <2>1, <2>2 DEF WorkerInv, Tracked
  <2>4. host[idOf[job[t].o]] \subseteq Resources
    BY <2>1, <2>2 DEF TypeOK
  <2>5. \A r \in Resources : Sure(r)
    BY DEF Sure, Resources
  <2> QED BY <2>3, <2>4, <2>5 DEF Gone
<1> QED BY <1>1, InspectInvariant, PTL

\* What a process that died in the middle of an analysis left on the host has a
\* row to be found by (bunker.py:200-210), as long as the store takes its writes.
THEOREM InterruptedIsTraceableAlways ==
  ASSUME "persist" \notin Faults
  PROVE  InspectSpec => []InterruptedIsTraceable
<1>1. InspectInv => InterruptedIsTraceable
  BY WorkerFacts DEF WorkerInv, Recorded, InterruptedIsTraceable, Bkr
<1> QED BY <1>1, InspectInvariant, PTL

\* No report is built that calls a sample clean, suspicious or malicious which was
\* never executed or whose monitor could not look, nor one clean in spite of a
\* finding (inspect.py:654-691).
THEOREM VerdictIsEarnedAlways == InspectSpec => VerdictIsEarned
<1> DEFINE Earned(t) ==
      JobAt(t, "report") /\ job'[t].verdict \notin {"none", "error"} =>
        /\ job[t].executed /\ ~monitor[t].unavailable
        /\ job'[t].verdict = "clean" => job[t].iocs = {}
<1>1. InspectInv /\ [InspectNext]_inspectAllVars => \A t \in Threads : Earned(t)
  <2> SUFFICES ASSUME InspectInv, [InspectNext]_inspectAllVars, NEW t \in Threads,
                      job[t].pc = "report", frame[t].pc = "idle",
                      job'[t].verdict \notin {"none", "error"}
               PROVE  /\ job[t].executed /\ ~monitor[t].unavailable
                      /\ job'[t].verdict = "clean" => job[t].iocs = {}
    BY DEF JobAt, At
  <2>1. /\ job \in [Threads -> Job] /\ job[t] \in Job /\ job[t].verdict = "none"
        /\ job[t].error = "none" => job[t].executed
    BY WorkerFacts DEF WorkerInv, Told
  <2>2. CASE Report(t)
    <3> DEFINE told == VerdictOf(job[t].error, monitor[t].unavailable, job[t].iocs)
    <3>1. job'[t].verdict = told
      <4>1. told \in Verdicts
        BY DEF VerdictOf, Verdicts
      <4>2. job' = [job EXCEPT ![t] =
                      [[job[t] EXCEPT
                          !.success = job[t].success /\ job[t].error # "deadline",
                          !.verdict = told] EXCEPT !.pc = "answer"]]
        BY <2>2 DEF Report, Reported, TelemetryError
      <4> HIDE DEF told
      <4> QED BY <2>1, <4>2 DEF Job
    <3>2. told # "error" => job[t].error = "none" /\ ~monitor[t].unavailable
      <4>1. CASE job[t].error # "none" \/ monitor[t].unavailable
        BY <4>1 DEF VerdictOf
      <4>2. CASE ~(job[t].error # "none" \/ monitor[t].unavailable)
        BY <4>2
      <4> QED BY <4>1, <4>2
    <3>3. told = "clean" => job[t].iocs = {}
      <4>1. job[t].iocs \subseteq {"medium", "high"}
        BY <2>1 DEF Job, Severities
      <4> QED BY <4>1 DEF VerdictOf
    <3> QED BY <2>1, <3>1, <3>2, <3>3
  <2>3. CASE ~Report(t)
    <3>1. job'[t].verdict \in {job[t].verdict, "none"}
      <4>1. NoJob.verdict = "none"
        BY DEF NoJob
      <4>2. CASE CrashApi
        <5>1. job'[t] = NoJob \/
              job'[t] = [NoJob EXCEPT !.pc = "dead", !.o = job[t].o,
                                      !.died = job[t].pc]
          BY <4>2 DEF CrashApi
        <5>2. job'[t].verdict = NoJob.verdict
          BY <5>1 DEF NoJob
        <5> QED BY <4>1, <5>2
      <4>3. CASE UNCHANGED inspectAllVars
        BY <4>3 DEF inspectAllVars, inspectVars
      <4>4. ASSUME NEW u \in Threads,
                   \/ Submit(u) \/ Expire(u) \/ GiveUp(u) \/ Work(u)
                   \/ MonitorWake(u) \/ MonitorCheck(u) \/ Forget(u)
            PROVE  job'[t].verdict \in {job[t].verdict, "none"}
        <5>1. CASE Forget(u)
          BY <2>1, <4>1, <4>4, <5>1 DEF Forget, Discard
        <5>2. CASE Expire(u)
          BY <2>1, <5>2 DEF Expire
        <5>3. CASE GiveUp(u)
          BY <2>1, <5>3 DEF GiveUp
        <5>4. CASE MonitorWake(u) \/ MonitorCheck(u)
          BY <5>4 DEF MonitorWake, MonitorCheck
        <5>5. CASE Submit(u)
          <6>1. u # t
            BY <5>5 DEF Submit, JobAt
          <6> QED BY <2>1, <5>5, <6>1 DEF Submit
        <5>6. CASE Work(u)
          <6>1. CASE u = t
            BY <2>1, <2>3, <5>6, <6>1
            DEF Work, Hash, Initialized, Activated, Stage, Execute, Wait,
                Collect, Decontaminate, Terminated, FallbackVm, FallbackSwitch,
                FallbackDisk, DeleteRow, Answer, MethodStep, JobAt
          <6>2. CASE u # t
            BY <2>1, <5>6, <6>2
            DEF Work, Hash, Initialized, Activated, Stage, Execute, Wait,
                Collect, Decontaminate, Terminated, FallbackVm, FallbackSwitch,
                FallbackDisk, DeleteRow, Report, Answer, Discard, MethodStep,
                JobGoto, Fail, Proceed
          <6> QED BY <6>1, <6>2
        <5> QED BY <4>4, <5>1, <5>2, <5>3, <5>4, <5>5, <5>6
      <4> QED BY <4>2, <4>3, <4>4 DEF InspectNext
    <3> QED BY <2>1, <3>1
  <2> QED BY <2>2, <2>3
<1> QED BY <1>1, InspectInvariant, PTL DEF InspectSpec, VerdictIsEarned
=============================================================================
