------------------------- MODULE BunkerProperties -------------------------
(***************************************************************************)
(* What bunker.py owes its callers, whatever the number of threads.        *)
(***************************************************************************)
EXTENDS Bunker

\* Every variable of the model has its type, and a thread that is inside a
\* method has a receiver.
TypeOK ==
  /\ state \in [Objects -> States!BunkerState]
  /\ inst \in [Objects -> Instance]
  /\ idOf \in [Objects -> Ids]
  /\ host \in [Ids -> SUBSET Resources]
  /\ row \in [Ids -> Record]
  /\ frame \in [Threads -> Frame]
  /\ \A t \in Threads : frame[t].pc # "idle" => frame[t].o \in Objects

\* Thread t is inside a method of o, at one of the given places.
In(t, o, pcs) == frame[t].o = o /\ frame[t].pc \in pcs

AtRest(o) == \A t \in Threads : frame[t].o # o

\* the steps of terminate after its first transition
Terminating == TermPcs \ {"term_check", "term_begin"}

\* A bunker is in a transient state only while some thread is inside the
\* method that put it there and will take it out again: no interleaving of
\* callers, refused transition or failing backend call leaves a bunker
\* INITIALIZING, TERMINATING or DECONTAMINATING with nobody at work on it
\* (bunker.py, initialize and terminate: every exit ends in a transition).
TransientOwned ==
  \A o \in Objects :
    /\ state[o] = "INITIALIZING" =>
         \E t \in Threads : In(t, o, InitPcs \ {"init_begin"})
    /\ state[o] \in {"TERMINATING", "DECONTAMINATING"} =>
         \E t \in Threads : In(t, o, Terminating)

\* A bunker that reads ACTIVE while no thread is in any of its methods has
\* every security layer active and its session flag up, although activate
\* publishes ACTIVE before the first layer is on, a second activate may roll
\* back layers of the first, and a late terminate may strip them
\* (bunker.py, activate 268-309 against terminate 311-368).
ActiveIsLayered ==
  \A o \in Objects :
    state[o] = "ACTIVE" /\ AtRest(o) =>
      inst[o].layers = Layers /\ inst[o].session

\* Bunkers move only along types.VALID_STATE_TRANSITIONS, each on its own:
\* the methods implement the state machine they promise.
StateMachine == States!Spec

\* Every method call returns, so a transient state is always left: no failing
\* or raising call strands a bunker in INITIALIZING, TERMINATING or
\* DECONTAMINATING (no method waits for another one).
TransientEnds ==
  \A o \in Objects :
    state[o] \in {"INITIALIZING", "TERMINATING", "DECONTAMINATING"} ~>
      state[o] \notin {"INITIALIZING", "TERMINATING", "DECONTAMINATING"}
=============================================================================
