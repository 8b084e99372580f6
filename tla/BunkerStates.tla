---------------------------- MODULE BunkerStates ----------------------------
(***************************************************************************)
(* The state machine a bunker promises to its callers: the states and the  *)
(* transition table of lumenos_sandbox/types.py, for a set of bunkers that *)
(* move independently.  Detailed specifications refine Spec.               *)
(***************************************************************************)
CONSTANT Bunkers            \* the bunkers whose state is observed

VARIABLE state              \* state[b]: the state bunker b is in

BunkerState == {"INITIALIZING", "READY", "ACTIVE", "TERMINATING",
                "DECONTAMINATING", "DESTROYED", "QUARANTINE", "ERROR"}

ValidNext(s) ==
  CASE s = "INITIALIZING"    -> {"READY", "ERROR"}
    [] s = "READY"           -> {"ACTIVE", "TERMINATING", "ERROR"}
    [] s = "ACTIVE"          -> {"TERMINATING", "QUARANTINE", "ERROR"}
    [] s = "TERMINATING"     -> {"DECONTAMINATING", "ERROR"}
    [] s = "DECONTAMINATING" -> {"DESTROYED", "ERROR"}
    [] s = "DESTROYED"       -> {"INITIALIZING"}
    [] s = "QUARANTINE"      -> {"DESTROYED", "ERROR"}
    [] s = "ERROR"           -> {"DESTROYED"}

Init == state = [b \in Bunkers |-> "DESTROYED"]

Move(b, s) ==
  /\ s \in ValidNext(state[b])
  /\ state' = [state EXCEPT ![b] = s]

Next == \E b \in Bunkers, s \in BunkerState : Move(b, s)

Spec == Init /\ [][Next]_state
=============================================================================
