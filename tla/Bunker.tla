------------------------------- MODULE Bunker -------------------------------
(***************************************************************************)
(* lumenos_sandbox/bunker.py: Bunker objects whose public methods are      *)
(* called by concurrent threads.  A step of a method is one backend call   *)
(* or one locked transition_to, with the straight-line code up to the next *)
(* one; between two steps any other thread may run.  The hypervisor is     *)
(* seen through what its calls create, remove and answer.                  *)
(***************************************************************************)
EXTENDS Naturals

CONSTANTS
  Objects,      \* Bunker instances
  NoObject,     \* the receiver of a thread that is in no method
  Ids,          \* config.id: names the VM, the switch, the disk and the row
  Threads,      \* threads that call the methods
  NumLayers,    \* security layers, activated in the order 1..NumLayers
  GuestLayers,  \* the layers whose activation calls into the guest
  Backend,      \* the hypervisor, "kvm" or "hyperv"
  Faults,       \* the failures this instance of the model may meet
  Answers       \* the answers that the callers of this instance tell apart

\* what may fail, named for the call: "raise" is an exception out of a backend
\* call, "deadline" an exhausted analysis deadline, "silent_switch" a switch
\* removal that answers True with the switch still there
\* (kvm_backend.remove_switch always does), "late_vm" a create_vm that timed
\* out, answers False and creates the VM
FaultKinds == {"check_available", "create_switch", "create_vm", "late_vm", "raise",
               "deadline", "clean_vm", "clean_switch", "clean_disk", "layer",
               "thread", "vm_status", "decon_disk", "decon_switch",
               "silent_switch", "decon_vm", "verify_host", "reap",
               "sample", "guest", "telemetry", "persist"}

ASSUME BunkerAssumption ==
  /\ NoObject \notin Objects
  /\ NumLayers \in Nat
  /\ GuestLayers \subseteq 1..NumLayers
  /\ Backend \in {"kvm", "hyperv"}
  /\ Faults \subseteq FaultKinds
  /\ Answers \subseteq {"true", "false", "raised"}

VARIABLES
  state,    \* state[o]: self.state
  inst,     \* inst[o]: the other fields of the instance
  idOf,     \* idOf[o]: config.id
  host,     \* host[i]: the resources of bunker i that exist on the host
  row,      \* row[i]: the persisted record of bunker i
  frame     \* frame[t]: where thread t is and its local variables

vars == <<state, inst, idOf, host, row, frame>>

States == INSTANCE BunkerStates WITH Bunkers <- Objects

Layers == 1..NumLayers

Resources == {"vm", "switch", "disk"}

InitPcs == {"init_begin", "init_verify", "init_switch", "init_vm",
            "init_guest", "init_ready", "clean_vm", "clean_switch",
            "clean_disk", "init_error"}
ActPcs  == {"act_check", "act_begin", "act_layers", "act_rollback", "act_monitor",
            "act_error"}
TermPcs == {"term_check", "term_begin", "term_stop", "term_layers",
            "term_power", "term_decon", "decon_power", "decon_disk",
            "decon_switch", "decon_vm", "decon_verify", "term_end",
            "term_error"}
QuarPcs == {"quar_begin", "quar_stop"}
Entry   == {"init_begin", "act_check", "term_check", "quar_begin"}

Instance == [vm : BOOLEAN,           \* _vm_name is set
             switch : BOOLEAN,       \* _switch_name is set
             baseline : BOOLEAN,     \* the integrity baseline was taken
             creds : BOOLEAN,        \* layers and monitor know the VM
             layers : SUBSET Layers, \* the layers whose active flag is set
             monitoring : BOOLEAN,   \* SecurityMonitor._monitoring_active
             session : BOOLEAN]      \* _session_active

Fresh == [vm |-> FALSE, switch |-> FALSE, baseline |-> FALSE, creds |-> FALSE,
          layers |-> {}, monitoring |-> FALSE, session |-> FALSE]

Record == [state : States!BunkerState \cup {"none"}, vm : BOOLEAN,
           switch : BOOLEAN]

NoRow == [state |-> "none", vm |-> FALSE, switch |-> FALSE]

Frame == [pc : {"idle"} \cup InitPcs \cup ActPcs \cup TermPcs \cup QuarPcs,
          o : Objects \cup {NoObject},
          layer : 0..NumLayers,      \* layers this call is done with
          undone : 0..NumLayers,     \* layers its rollback is done with
          ok : BOOLEAN,              \* no step failed, no deadline passed
          vm : BOOLEAN,              \* the runner was given a VM name
          result : {"none", "true", "false", "raised"}]

Idle == [pc |-> "idle", o |-> NoObject, layer |-> 0, undone |-> 0,
         ok |-> TRUE, vm |-> FALSE, result |-> "none"]

Init ==
  /\ state = [o \in Objects |-> "DESTROYED"]
  /\ inst = [o \in Objects |-> Fresh]
  /\ idOf \in [Objects -> Ids]
  /\ \A o, p \in Objects : idOf[o] = idOf[p] => o = p
  /\ host = [i \in Ids |-> {}]
  /\ row = [i \in Ids |-> NoRow]
  /\ frame = [t \in Threads |-> Idle]

-----------------------------------------------------------------------------
(* Steps share these: where the thread goes next, and transition_to.       *)

May(f) == f \in Faults

At(t, l) == frame[t].pc = l

Self(t) == frame[t].o

Goto(t, l) == frame' = [frame EXCEPT ![t].pc = l]

Return(t, r) ==
  frame' = [frame EXCEPT ![t] =
              [Idle EXCEPT !.result = IF r \in Answers THEN r ELSE "none"]]

\* transition_to raises InvalidStateTransition
Refused(o, s) == s # state[o] /\ s \notin States!ValidNext(state[o])

\* _persist_state is best effort: a failed save leaves the old row
Persist(o, s) ==
  \/ row' = [row EXCEPT ![idOf[o]] =
               [state |-> s, vm |-> inst[o].vm, switch |-> inst[o].switch]]
  \/ May("persist") /\ UNCHANGED row

\* a bug to catch: the table is not looked up
MoveUnchecked(o, s) ==
  state' = [state EXCEPT ![o] = s] /\ Persist(o, s)

\* transition_to returns, True after a move and False when already there
TransitionTo(o, s) ==
  \/ state[o] = s /\ UNCHANGED <<state, row>>
  \/ States!Move(o, s) /\ Persist(o, s)

\* transition_to(s) that continues at label yes, or at label no when refused
Transition(t, s, yes, no) ==
  \/ TransitionTo(Self(t), s) /\ Goto(t, yes)
  \/ Refused(Self(t), s) /\ Goto(t, no) /\ UNCHANGED <<state, row>>

\* the last transition of a method: it returns r, or r' when refused
LastTransition(t, s, r, refused) ==
  \/ TransitionTo(Self(t), s) /\ Return(t, r)
  \/ Refused(Self(t), s) /\ Return(t, refused) /\ UNCHANGED <<state, row>>

\* a removal call that answers ok; only remove_switch answers True for nothing
Removal(i, res, fault, ok) ==
  \/ ok /\ host' = [host EXCEPT ![i] = @ \ {res}]
  \/ ok /\ res = "switch" /\ May("silent_switch") /\ UNCHANGED host
  \/ ~ok /\ May(fault) /\ UNCHANGED host

\* remove_vm leaves the disk on Hyper-V, and takes it along on KVM if it can
RemoveVm(i, fault, ok) ==
  \/ ok /\ \E disk \in SUBSET {"disk"} :
              /\ Backend = "hyperv" => disk = {}
              /\ host' = [host EXCEPT ![i] = @ \ ({"vm"} \cup disk)]
  \/ ~ok /\ May(fault) /\ UNCHANGED host

-----------------------------------------------------------------------------
(* A thread enters a public method.                                        *)

Call(t, o, entry) ==
  /\ At(t, "idle")
  /\ frame' = [frame EXCEPT ![t] = [Idle EXCEPT !.pc = entry, !.o = o]]
  /\ UNCHANGED <<state, inst, idOf, host, row>>

-----------------------------------------------------------------------------
(* initialize                                                              *)

InitBegin(t) ==
  /\ At(t, "init_begin")
  /\ Transition(t, "INITIALIZING", "init_verify", "clean_vm")
  /\ UNCHANGED <<inst, idOf, host>>

\* an exception out of a backend call, or an exhausted deadline
InitRaise(t) ==
  /\ frame[t].pc \in {"init_verify", "init_switch", "init_vm", "init_guest"}
  /\ \/ May("raise") /\ Goto(t, "clean_vm")
     \/ /\ May("deadline")
        /\ frame' = [frame EXCEPT ![t].pc = "clean_vm", ![t].ok = FALSE]
  /\ UNCHANGED <<state, inst, idOf, host, row>>

InitVerify(t) ==
  /\ At(t, "init_verify")
  /\ \/ Goto(t, "init_switch")
     \/ May("check_available") /\ Goto(t, "clean_vm")
  /\ UNCHANGED <<state, inst, idOf, host, row>>

\* the name is set before the call and the answer is ignored
InitSwitch(t) ==
  /\ At(t, "init_switch")
  /\ inst' = [inst EXCEPT ![Self(t)].switch = TRUE]
  /\ \/ host' = [host EXCEPT ![idOf[Self(t)]] = @ \cup {"switch"}]
     \/ May("create_switch") /\ UNCHANGED host
  /\ Goto(t, "init_vm")
  /\ UNCHANGED <<state, idOf, row>>

\* with or without its disk; a refused VM may still leave the disk behind
InitVm(t) ==
  /\ At(t, "init_vm")
  /\ \E disk \in SUBSET {"disk"} :
       \/ /\ host' = [host EXCEPT ![idOf[Self(t)]] = @ \cup {"vm"} \cup disk]
          /\ inst' = [inst EXCEPT ![Self(t)].vm = TRUE]
          /\ Goto(t, "init_guest")
       \/ /\ \E vm \in SUBSET {"vm"} :
               /\ May(IF vm = {} THEN "create_vm" ELSE "late_vm")
               /\ host' = [host EXCEPT ![idOf[Self(t)]] = @ \cup vm \cup disk]
          /\ Goto(t, "clean_vm")
          /\ UNCHANGED inst
  /\ UNCHANGED <<state, idOf, row>>

\* baseline, guest integration and credentials
InitGuest(t) ==
  /\ At(t, "init_guest")
  /\ inst' = [inst EXCEPT ![Self(t)].baseline = TRUE,
                          ![Self(t)].creds = inst[Self(t)].vm]
  /\ Goto(t, "init_ready")
  /\ UNCHANGED <<state, idOf, host, row>>

InitReady(t) ==
  /\ At(t, "init_ready")
  /\ \/ TransitionTo(Self(t), "READY") /\ Return(t, "true")
     \/ /\ Refused(Self(t), "READY")
        /\ Goto(t, "clean_vm")
        /\ UNCHANGED <<state, row>>
  /\ UNCHANGED <<inst, idOf, host>>

\* _cleanup_on_failure forgets each name whatever the removal answers
CleanVm(t) ==
  /\ At(t, "clean_vm")
  /\ IF inst[Self(t)].vm
     THEN \E ok \in BOOLEAN : RemoveVm(idOf[Self(t)], "clean_vm", ok)
     ELSE UNCHANGED host
  /\ inst' = [inst EXCEPT ![Self(t)].vm = FALSE]
  /\ Goto(t, "clean_switch")
  /\ UNCHANGED <<state, idOf, row>>

CleanSwitch(t) ==
  /\ At(t, "clean_switch")
  /\ IF inst[Self(t)].switch
     THEN \E ok \in BOOLEAN :
            Removal(idOf[Self(t)], "switch", "clean_switch", ok)
     ELSE UNCHANGED host
  /\ inst' = [inst EXCEPT ![Self(t)].switch = FALSE]
  /\ Goto(t, "clean_disk")
  /\ UNCHANGED <<state, idOf, row>>

\* a bug to catch: the differencing disk is forgotten
CleanDiskForgotten(t) ==
  /\ At(t, "clean_disk")
  /\ Goto(t, "init_error")
  /\ UNCHANGED <<state, inst, idOf, host, row>>

CleanDisk(t) ==
  /\ At(t, "clean_disk")
  /\ \E ok \in BOOLEAN : Removal(idOf[Self(t)], "disk", "clean_disk", ok)
  /\ Goto(t, "init_error")
  /\ UNCHANGED <<state, inst, idOf, row>>

\* a bug to catch: returns without the transition to ERROR
InitErrorSkipped(t) ==
  /\ At(t, "init_error")
  /\ Return(t, "false")
  /\ UNCHANGED <<state, inst, idOf, host, row>>

\* transition_to(ERROR), its own refusal swallowed; a deadline is re-raised
InitError(t) ==
  LET r == IF frame[t].ok THEN "false" ELSE "raised" IN
  /\ At(t, "init_error")
  /\ LastTransition(t, "ERROR", r, r)
  /\ UNCHANGED <<inst, idOf, host>>

-----------------------------------------------------------------------------
(* activate                                                                *)

ActCheck(t) ==
  /\ At(t, "act_check")
  /\ Goto(t, IF state[Self(t)] = "READY" THEN "act_begin" ELSE "act_error")
  /\ UNCHANGED <<state, inst, idOf, host, row>>

\* InvalidStateTransition is re-raised: nothing is rolled back
ActBegin(t) ==
  /\ At(t, "act_begin")
  /\ \/ TransitionTo(Self(t), "ACTIVE") /\ Goto(t, "act_layers")
     \/ /\ Refused(Self(t), "ACTIVE")
        /\ Return(t, "raised")
        /\ UNCHANGED <<state, row>>
  /\ UNCHANGED <<inst, idOf, host>>

\* the next layer; a failing one ends up inactive
ActLayer(t) ==
  LET next == frame[t].layer + 1 IN
  /\ At(t, "act_layers")
  /\ next <= NumLayers
  /\ \/ /\ inst' = [inst EXCEPT ![Self(t)].layers = @ \cup {next}]
        /\ frame' = [frame EXCEPT ![t].layer = next]
     \/ /\ May("layer") /\ next \in GuestLayers /\ inst[Self(t)].creds
        /\ inst' = [inst EXCEPT ![Self(t)].layers = @ \ {next}]
        /\ Goto(t, "act_rollback")
  /\ UNCHANGED <<state, idOf, host, row>>

\* a failure deactivates the layers this call activated, the first one first
ActRollback(t) ==
  LET next == frame[t].undone + 1 IN
  /\ At(t, "act_rollback")
  /\ IF next <= frame[t].layer
     THEN /\ inst' = [inst EXCEPT ![Self(t)].layers = @ \ {next}]
          /\ frame' = [frame EXCEPT ![t].undone = next]
     ELSE Goto(t, "act_error") /\ UNCHANGED inst
  /\ UNCHANGED <<state, idOf, host, row>>

ActLayersDone(t) ==
  /\ At(t, "act_layers")
  /\ frame[t].layer = NumLayers
  /\ Goto(t, "act_monitor")
  /\ UNCHANGED <<state, inst, idOf, host, row>>

\* the monitor thread, then the metrics thread: either start may raise
ActMonitor(t) ==
  /\ At(t, "act_monitor")
  /\ \/ /\ inst' = [inst EXCEPT ![Self(t)].monitoring = TRUE,
                                ![Self(t)].session = TRUE]
        /\ Return(t, "true")
     \/ /\ May("thread")
        /\ \E started \in BOOLEAN :
             inst' = [inst EXCEPT ![Self(t)].monitoring = TRUE,
                                  ![Self(t)].session = started \/ @]
        /\ Goto(t, "act_error")
  /\ UNCHANGED <<state, idOf, host, row>>

\* a bug to catch: the failed activation leaves the bunker ACTIVE
ActErrorSkipped(t) ==
  /\ At(t, "act_error")
  /\ Return(t, "false")
  /\ UNCHANGED <<state, inst, idOf, host, row>>

ActError(t) ==
  /\ At(t, "act_error")
  /\ LastTransition(t, "ERROR", "false", "raised")
  /\ UNCHANGED <<inst, idOf, host>>

-----------------------------------------------------------------------------
(* terminate                                                               *)

TermCheck(t) ==
  /\ At(t, "term_check")
  /\ Goto(t, IF state[Self(t)] = "ACTIVE" THEN "term_begin" ELSE "term_error")
  /\ UNCHANGED <<state, inst, idOf, host, row>>

\* the answer is ignored: a second caller goes on when already TERMINATING
TermBegin(t) ==
  /\ At(t, "term_begin")
  /\ Transition(t, "TERMINATING", "term_stop", "term_error")
  /\ UNCHANGED <<inst, idOf, host>>

TermStop(t) ==
  /\ At(t, "term_stop")
  /\ inst' = [inst EXCEPT ![Self(t)].monitoring = FALSE]
  /\ Goto(t, "term_layers")
  /\ UNCHANGED <<state, idOf, host, row>>

\* a bug to catch: the loop runs once too often
TermLayersPastEnd(t) ==
  LET next == frame[t].layer + 1 IN
  /\ At(t, "term_layers")
  /\ IF next <= NumLayers + 1
     THEN /\ inst' = [inst EXCEPT ![Self(t)].layers = @ \ {next}]
          /\ frame' = [frame EXCEPT ![t].layer = next]
     ELSE Goto(t, "term_power") /\ UNCHANGED inst
  /\ UNCHANGED <<state, idOf, host, row>>

\* the next layer that is active is deactivated
TermLayers(t) ==
  LET next == frame[t].layer + 1 IN
  /\ At(t, "term_layers")
  /\ IF next <= NumLayers
     THEN /\ inst' = [inst EXCEPT ![Self(t)].layers = @ \ {next}]
          /\ frame' = [frame EXCEPT ![t].layer = next]
     ELSE Goto(t, "term_power") /\ UNCHANGED inst
  /\ UNCHANGED <<state, idOf, host, row>>

\* checkpoint and stop_vm, their answers ignored; either may raise
TermPower(t) ==
  /\ At(t, "term_power")
  /\ \/ /\ inst' = [inst EXCEPT ![Self(t)].session = FALSE]
        /\ Goto(t, "term_decon")
     \/ May("raise") /\ Goto(t, "term_error") /\ UNCHANGED inst
  /\ UNCHANGED <<state, idOf, host, row>>

\* DECONTAMINATING, and the runner is built with the current VM name
TermDecon(t) ==
  /\ At(t, "term_decon")
  /\ \/ /\ TransitionTo(Self(t), "DECONTAMINATING")
        /\ frame' = [frame EXCEPT ![t].pc = "decon_power", ![t].ok = TRUE,
                                  ![t].vm = inst[Self(t)].vm]
     \/ /\ Refused(Self(t), "DECONTAMINATING")
        /\ Goto(t, "term_error")
        /\ UNCHANGED <<state, row>>
  /\ UNCHANGED <<inst, idOf, host>>

\* a bug to catch: the failure of a step is not noted
DeconStepUnnoted(t, l, ok) ==
  /\ Goto(t, l)
  /\ UNCHANGED <<state, inst, idOf, row>>

\* a decontamination step: a failure is noted and the next step runs
DeconStep(t, l, ok) ==
  /\ frame' = [frame EXCEPT ![t].pc = l, ![t].ok = @ /\ ok]
  /\ UNCHANGED <<state, inst, idOf, row>>

\* "Off" and "Saved" pass, as does a VM that is not found or a query that
\* fails; virsh calls a stopped VM "shut off"
DeconPower(t) ==
  /\ At(t, "decon_power")
  /\ \E ok \in BOOLEAN :
       /\ \/ May("vm_status")
          \/ ok = ~(/\ Backend = "kvm" /\ frame[t].vm
                   /\ "vm" \in host[idOf[Self(t)]])
       /\ ok \/ frame[t].vm
       /\ DeconStep(t, "decon_disk", ok)
  /\ UNCHANGED host

DeconDisk(t) ==
  /\ At(t, "decon_disk")
  /\ \E ok \in BOOLEAN : /\ Removal(idOf[Self(t)], "disk", "decon_disk", ok)
                         /\ DeconStep(t, "decon_switch", ok)

DeconSwitch(t) ==
  /\ At(t, "decon_switch")
  /\ \E ok \in BOOLEAN :
       /\ Removal(idOf[Self(t)], "switch", "decon_switch", ok)
       /\ DeconStep(t, "decon_vm", ok)

DeconVm(t) ==
  /\ At(t, "decon_vm")
  /\ \/ /\ frame[t].vm
        /\ \E ok \in BOOLEAN : /\ RemoveVm(idOf[Self(t)], "decon_vm", ok)
                               /\ DeconStep(t, "decon_verify", ok)
     \/ ~frame[t].vm /\ DeconStep(t, "decon_verify", TRUE) /\ UNCHANGED host

\* the host check and verify_all, which an empty baseline cannot pass
DeconVerify(t) ==
  /\ At(t, "decon_verify")
  /\ \E ok \in BOOLEAN :
       /\ ok \/ May("verify_host")
       /\ DeconStep(t, "term_end", ok /\ inst[Self(t)].baseline)
  /\ UNCHANGED host

TermEnd(t) ==
  /\ At(t, "term_end")
  /\ LET s == IF frame[t].ok THEN "DESTROYED" ELSE "ERROR"
         r == IF frame[t].ok THEN "true" ELSE "false" IN
     \/ TransitionTo(Self(t), s) /\ Return(t, r)
     \/ /\ Refused(Self(t), s)
        /\ Goto(t, "term_error")
        /\ UNCHANGED <<state, row>>
  /\ UNCHANGED <<inst, idOf, host>>

\* a bug to catch: the handler returns without the transition to ERROR
TermErrorSkipped(t) ==
  /\ At(t, "term_error")
  /\ Return(t, "false")
  /\ UNCHANGED <<state, inst, idOf, host, row>>

\* the handler's own transition_to(ERROR) is not caught
TermError(t) ==
  /\ At(t, "term_error")
  /\ LastTransition(t, "ERROR", "false", "raised")
  /\ UNCHANGED <<inst, idOf, host>>

-----------------------------------------------------------------------------
(* force_quarantine: every exception is swallowed                          *)

QuarBegin(t) ==
  /\ At(t, "quar_begin")
  /\ \/ TransitionTo(Self(t), "QUARANTINE") /\ Goto(t, "quar_stop")
     \/ /\ Refused(Self(t), "QUARANTINE")
        /\ Return(t, "true")
        /\ UNCHANGED <<state, row>>
  /\ UNCHANGED <<inst, idOf, host>>

QuarStop(t) ==
  /\ At(t, "quar_stop")
  /\ inst' = [inst EXCEPT ![Self(t)].monitoring = FALSE]
  /\ Return(t, "true")
  /\ UNCHANGED <<state, idOf, host, row>>

-----------------------------------------------------------------------------

InitStep(t) ==
  \/ InitBegin(t) \/ InitRaise(t) \/ InitVerify(t) \/ InitSwitch(t)
  \/ InitVm(t) \/ InitGuest(t) \/ InitReady(t)
  \/ CleanVm(t) \/ CleanSwitch(t) \/ CleanDisk(t) \/ InitError(t)

ActStep(t) ==
  \/ ActCheck(t) \/ ActBegin(t) \/ ActLayer(t) \/ ActRollback(t)
  \/ ActLayersDone(t) \/ ActMonitor(t) \/ ActError(t)

TermStep(t) ==
  \/ TermCheck(t) \/ TermBegin(t) \/ TermStop(t) \/ TermLayers(t)
  \/ TermPower(t) \/ TermDecon(t)
  \/ DeconPower(t) \/ DeconDisk(t) \/ DeconSwitch(t) \/ DeconVm(t)
  \/ DeconVerify(t) \/ TermEnd(t) \/ TermError(t)

QuarStep(t) == QuarBegin(t) \/ QuarStop(t)

Step(t) == InitStep(t) \/ ActStep(t) \/ TermStep(t) \/ QuarStep(t)

Next ==
  \E t \in Threads :
    \/ \E o \in Objects, entry \in Entry : Call(t, o, entry)
    \/ Step(t)

Spec == Init /\ [][Next]_vars

\* every method a thread has entered goes on to return: backend calls carry
\* their own timeouts, and no method waits for another thread
FairSpec == Spec /\ \A t \in Threads : WF_vars(Step(t))
=============================================================================
