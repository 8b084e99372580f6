----------------------- MODULE DualBunkerProperties -----------------------
(* What manager.py owes its callers.                                        *)
EXTENDS DualBunker

\* the places of start_session and end_session under the lock
Locked == {"start_check", "first_init", "first_act", "rot_begin", "rot_init",
           "rot_act", "end_check", "end_term"}

\* The manager's variables have their types, and a thread past the acquisition
\* in start_session or end_session is the one that holds the lock.
ManagerTypeOK ==
  /\ TypeOK
  /\ {active, inactive} \subseteq Objects \cup {NoObject}
  /\ lock \in Threads \cup {NoThread}
  /\ mgr \in [Threads -> MgrPcs]
  /\ \A t \in Threads : mgr[t] \in Locked <=> lock = t

\* manager.py:19 "Garantiza que solo un bunker esté activo a la vez": at no
\* time, also while a rotation, an end_session and an emergency_shutdown
\* overlap, are both bunkers ACTIVE.
AtMostOneActive == ~(state[B1] = "ACTIVE" /\ state[B2] = "ACTIVE")

\* With the lock free, an ACTIVE bunker is the one active_bunker names: a
\* session can always be ended and stopped through the manager, whatever
\* failed or raised in the methods that changed the fields.
SessionIsNamed ==
  \A o \in Objects : lock = NoThread /\ state[o] = "ACTIVE" => active = o

\* _rotate_bunkers looks at the old bunker again and would terminate it if it
\* were ACTIVE or READY (manager.py:90-103): start_session only gets there
\* when it is neither, so that branch is dead code.
RotationFindsItStopped ==
  \A t \in Threads :
    MgrAt(t, "rot_begin") => state[active] \notin {"ACTIVE", "READY"}

\* A thread that holds the lock lets it go: no failing or raising bunker
\* method leaves the manager locked.
LockIsReleased == \A t \in Threads : lock = t ~> lock # t

\* reaper.py:23-24 calls QUARANTINE "a forensic hold": a quarantined bunker
\* keeps what it has on the host.
ForensicHold ==
  [][\A o \in Objects :
       state[o] = "QUARANTINE" => host[idOf[o]] \subseteq host'[idOf[o]]]_dualVars
=============================================================================
