----------------------------- MODULE DualBunker -----------------------------
(***************************************************************************)
(* lumenos_sandbox/manager.py: DualBunkerManager over two Bunker objects.  *)
(* start_session and end_session hold the manager's lock from end to end,  *)
(* emergency_shutdown takes none.  While a manager method is in a bunker   *)
(* method, that method runs as the steps of Bunker; the manager goes on    *)
(* with its answer.                                                        *)
(***************************************************************************)
EXTENDS BunkerProperties

CONSTANTS
  B1, B2,       \* bunker1 and bunker2
  NoThread      \* the owner of a free lock

ASSUME DualAssumption ==
  /\ Objects = {B1, B2} /\ B1 # B2
  /\ NoThread \notin Threads
  /\ {"true", "false", "raised"} \subseteq Answers

VARIABLES
  active,       \* self.active_bunker
  inactive,     \* self.inactive_bunker
  lock,         \* the thread that holds self._lock
  mgr           \* mgr[t]: where thread t is in the manager

managerVars == <<active, inactive, lock, mgr>>

dualVars == <<vars, managerVars>>

\* start_* and rot_*: start_session and _rotate_bunkers; end_*: end_session;
\* stop_*: emergency_shutdown.  A label with a call in progress is the call's.
MgrPcs == {"idle", "start_lock", "start_check", "first_init", "first_act",
           "rot_begin", "rot_init", "rot_act", "end_lock", "end_check",
           "end_term", "stop_active", "stop_active_call", "stop_inactive",
           "stop_inactive_call", "stop_done"}

ManagerInit ==
  /\ Init
  /\ active = NoObject
  /\ inactive = NoObject
  /\ lock = NoThread
  /\ mgr = [t \in Threads |-> "idle"]

-----------------------------------------------------------------------------

MgrAt(t, l) == mgr[t] = l /\ At(t, "idle")

MgrGoto(t, l) == mgr' = [mgr EXCEPT ![t] = l]

Enter(t, o, entry) ==
  frame' = [frame EXCEPT ![t] = [Idle EXCEPT !.pc = entry, !.o = o]]

\* the bunker method that t called has returned r
Answered(t, l, r) == MgrAt(t, l) /\ frame[t].result = r

\* leave the with block and the method
Release(t) ==
  /\ lock' = NoThread
  /\ mgr' = [mgr EXCEPT ![t] = "idle"]
  /\ frame' = [frame EXCEPT ![t] = Idle]

SameBunkers == UNCHANGED <<state, inst, idOf, host, row>>

Invoke(t, l) ==
  /\ MgrAt(t, "idle")
  /\ MgrGoto(t, l)
  /\ SameBunkers /\ UNCHANGED <<frame, active, inactive, lock>>

\* a bug to catch: the method runs without the lock
AcquireNothing(t, from, to) ==
  /\ MgrAt(t, from)
  /\ lock' = t
  /\ MgrGoto(t, to)
  /\ SameBunkers /\ UNCHANGED <<frame, active, inactive>>

Acquire(t, from, to) ==
  /\ MgrAt(t, from)
  /\ lock = NoThread
  /\ lock' = t
  /\ MgrGoto(t, to)
  /\ SameBunkers /\ UNCHANGED <<frame, active, inactive>>

-----------------------------------------------------------------------------
(* start_session                                                           *)

StartLock(t) == Acquire(t, "start_lock", "start_check")

StartFirst(t) ==
  /\ MgrAt(t, "start_check")
  /\ active = NoObject
  /\ Enter(t, B1, "init_begin")
  /\ MgrGoto(t, "first_init")
  /\ SameBunkers /\ UNCHANGED <<active, inactive, lock>>

FirstActivate(t) ==
  /\ Answered(t, "first_init", "true")
  /\ Enter(t, B1, "act_check")
  /\ MgrGoto(t, "first_act")
  /\ SameBunkers /\ UNCHANGED <<active, inactive, lock>>

FirstDone(t) ==
  /\ Answered(t, "first_act", "true")
  /\ active' = B1
  /\ inactive' = B2
  /\ Release(t)
  /\ SameBunkers

\* the session that is up is kept
StartBusy(t) ==
  /\ MgrAt(t, "start_check")
  /\ active # NoObject /\ state[active] = "ACTIVE"
  /\ Release(t)
  /\ SameBunkers /\ UNCHANGED <<active, inactive>>

\* a bug to catch: rotates although the session is up
StartRotationAnyway(t) ==
  /\ MgrAt(t, "start_check")
  /\ active # NoObject
  /\ MgrGoto(t, "rot_begin")
  /\ SameBunkers /\ UNCHANGED <<frame, active, inactive, lock>>

\* a bug to catch: and the old bunker is not terminated before the new one starts
StartRotationOver(t) ==
  /\ MgrAt(t, "start_check")
  /\ active # NoObject
  /\ Enter(t, inactive, "init_begin")
  /\ MgrGoto(t, "rot_init")
  /\ SameBunkers /\ UNCHANGED <<active, inactive, lock>>

StartRotation(t) ==
  /\ MgrAt(t, "start_check")
  /\ active # NoObject /\ state[active] # "ACTIVE"
  /\ MgrGoto(t, "rot_begin")
  /\ SameBunkers /\ UNCHANGED <<frame, active, inactive, lock>>

\* the old bunker is looked at again, and terminated first if it is ACTIVE or
\* READY: no manager state leads there (RotationFindsItStopped)
RotBegin(t) ==
  /\ MgrAt(t, "rot_begin")
  /\ state[active] \notin {"ACTIVE", "READY"}
  /\ Enter(t, inactive, "init_begin")
  /\ MgrGoto(t, "rot_init")
  /\ SameBunkers /\ UNCHANGED <<active, inactive, lock>>

RotActivate(t) ==
  /\ Answered(t, "rot_init", "true")
  /\ Enter(t, inactive, "act_check")
  /\ MgrGoto(t, "rot_act")
  /\ SameBunkers /\ UNCHANGED <<active, inactive, lock>>

\* a bug to catch: the two fields are not swapped
RotDoneUnswapped(t) ==
  /\ Answered(t, "rot_act", "true")
  /\ Release(t)
  /\ SameBunkers /\ UNCHANGED <<active, inactive>>

RotDone(t) ==
  /\ Answered(t, "rot_act", "true")
  /\ active' = inactive
  /\ inactive' = active
  /\ Release(t)
  /\ SameBunkers

\* a bug to catch: an early return that keeps the lock
StartFailedLocked(t) ==
  /\ \E l \in {"first_init", "first_act", "rot_init", "rot_act"},
        r \in {"false", "raised"} : Answered(t, l, r)
  /\ MgrGoto(t, "idle")
  /\ SameBunkers /\ UNCHANGED <<frame, active, inactive, lock>>

\* a False answer or an exception ends the method with the fields as they are
StartFailed(t) ==
  /\ \E l \in {"first_init", "first_act", "rot_init", "rot_act"},
        r \in {"false", "raised"} : Answered(t, l, r)
  /\ Release(t)
  /\ SameBunkers /\ UNCHANGED <<active, inactive>>

-----------------------------------------------------------------------------
(* end_session                                                             *)

EndLock(t) == Acquire(t, "end_lock", "end_check")

EndNone(t) ==
  /\ MgrAt(t, "end_check")
  /\ active = NoObject
  /\ Release(t)
  /\ SameBunkers /\ UNCHANGED <<active, inactive>>

EndTerminate(t) ==
  /\ MgrAt(t, "end_check")
  /\ active # NoObject
  /\ Enter(t, active, "term_check")
  /\ MgrGoto(t, "end_term")
  /\ SameBunkers /\ UNCHANGED <<active, inactive, lock>>

\* whatever terminate answers, unless it raises
EndDone(t) ==
  /\ MgrAt(t, "end_term")
  /\ IF frame[t].result = "raised"
     THEN UNCHANGED <<active, inactive>>
     ELSE active' = NoObject /\ inactive' = NoObject
  /\ Release(t)
  /\ SameBunkers

-----------------------------------------------------------------------------
(* emergency_shutdown: each field is read twice, without the lock          *)

StopLook(t, at, field, call, next) ==
  /\ MgrAt(t, at)
  /\ MgrGoto(t, IF field = NoObject THEN next ELSE call)
  /\ SameBunkers /\ UNCHANGED <<frame, active, inactive, lock>>

\* the second read finds None: AttributeError, and the method is over
StopCall(t, at, field, next) ==
  /\ MgrAt(t, at)
  /\ IF field = NoObject
     THEN MgrGoto(t, "idle") /\ UNCHANGED frame
     ELSE MgrGoto(t, next) /\ Enter(t, field, "quar_begin")
  /\ SameBunkers /\ UNCHANGED <<active, inactive, lock>>

StopActive(t) ==
  \/ StopLook(t, "stop_active", active, "stop_active_call", "stop_inactive")
  \/ StopCall(t, "stop_active_call", active, "stop_inactive")

StopInactive(t) ==
  \/ StopLook(t, "stop_inactive", inactive, "stop_inactive_call", "stop_done")
  \/ StopCall(t, "stop_inactive_call", inactive, "stop_done")

StopReturn(t) ==
  /\ MgrAt(t, "stop_done")
  /\ MgrGoto(t, "idle")
  /\ frame' = [frame EXCEPT ![t] = Idle]
  /\ SameBunkers /\ UNCHANGED <<active, inactive, lock>>

-----------------------------------------------------------------------------

ManagerStep(t) ==
  \/ StartLock(t) \/ StartFirst(t) \/ FirstActivate(t) \/ FirstDone(t)
  \/ StartBusy(t) \/ StartRotation(t) \/ RotBegin(t) \/ RotActivate(t)
  \/ RotDone(t) \/ StartFailed(t)
  \/ EndLock(t) \/ EndNone(t) \/ EndTerminate(t) \/ EndDone(t)
  \/ StopActive(t) \/ StopInactive(t) \/ StopReturn(t)

BunkerStep(t) == Step(t) /\ UNCHANGED managerVars

ManagerNext ==
  \E t \in Threads :
    \/ \E l \in {"start_lock", "end_lock", "stop_active"} : Invoke(t, l)
    \/ ManagerStep(t)
    \/ BunkerStep(t)

ManagerSpec == ManagerInit /\ [][ManagerNext]_dualVars

\* a method that was entered goes on when it can; nothing is assumed about
\* which of the waiting threads gets the lock, nor that any one ever does
ManagerFairSpec ==
  ManagerSpec /\ \A t \in Threads : WF_dualVars(ManagerStep(t) \/ BunkerStep(t))
=============================================================================
