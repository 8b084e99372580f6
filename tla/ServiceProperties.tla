------------------------- MODULE ServiceProperties -------------------------
(* What the store and the host owe each other across requests and crashes.  *)
EXTENDS BunkerService

\* The service's variables have their types, a request that is served has an
\* id, and a thread in a bunker method is there for a request.
ServiceTypeOK ==
  /\ TypeOK
  /\ registry \in [Ids -> Objects \cup {NoObject}]
  /\ req \in [Threads -> Request]
  /\ forgotten \in [Ids -> SUBSET Resources] /\ unsaved \subseteq Ids
  /\ \A t \in Threads :
       /\ req[t].pc # "idle" => req[t].id \in Ids
       /\ frame[t].pc # "idle" => req[t].pc \in {"call", "call2"}

Serving(i) == \E t \in Threads : req[t].id = i

\* Whatever exists on the host can be found through the store, whenever a
\* process died: the row is written before the first resource is created and
\* deleted after the last one is gone (bunker.py:200-210 and 226, and the
\* rollback of api.create_bunker, api.py:332-339). Only what a failed initialize
\* could not remove, or did not know of, is beyond it (bunker.py:243, 462), and
\* what was made while a save had failed (bunker.py:187), until it is gone.
Traceable ==
  \A i \in Ids \ unsaved :
    host[i] \ forgotten[i] # {} /\ ~Serving(i) => row[i] # NoRow

\* A row that says READY or ACTIVE has its VM, through restores, restarts and
\* failed requests on the same id (bunker.py:452-463, 226, 268-278, 345-361).
RunningHasVm ==
  \A i \in Ids : row[i].state \in {"READY", "ACTIVE"} => "vm" \in host[i]

\* A row that says DESTROYED has nothing left on the host: decontamination
\* answers success only when every step did (decontamination.py:51-54). It
\* removes what it has the names of: not what an earlier initialize on the same
\* id dropped. A failed save leaves the older row.
DestroyedIsClean ==
  \A i \in Ids \ unsaved : row[i].state = "DESTROYED" => host[i] \subseteq forgotten[i]

\* The registry's bunker and the row tell the same state when no request is
\* under way, also when the bunker was restored from that row, and a bunker
\* without a row is one that no request can put to use again
\* (api.py:185-212, bunker.py:147-166, reaper.py:153-159).
RegistryAgrees ==
  \A i \in Ids : registry[i] # NoObject /\ ~Serving(i) =>
    \/ row[i].state = state[registry[i]]
    \/ /\ row[i] = NoRow
       /\ state[registry[i]] \in {"ERROR", "TERMINATING", "DECONTAMINATING"}

\* docs/DEPLOYMENT.md:497-503: after the host went down, `stop` terminates and
\* decontaminates a bunker that was READY or ACTIVE.  With no failing call,
\* terminate answers True.
StopDestroys ==
  \A t \in Threads :
    ReqAt(t, "call") /\ req[t].cmd = "cli_stop" => frame[t].result = "true"
=============================================================================
