------------------------- MODULE ReaperProperties -------------------------
(* What reaper.py owes the operator and the bunkers it leaves alone.        *)
EXTENDS Reaper

\* The reaper's variables have their types, and the record a pass works on is
\* one it will not come back to.
ReaperTypeOK ==
  /\ ServiceTypeOK
  /\ reaper \in [Reapers -> Pass]
  /\ \A r \in Reapers : reaper[r].pc \notin {"idle", "next"} =>
       reaper[r].id \in Ids \ reaper[r].todo
  /\ warned \subseteq Trace /\ dropped \subseteq Trace

\* reaper.py:23-25 "Refused even when requested: a live lifecycle
\* (INITIALIZING/READY/ACTIVE), a forensic hold (QUARANTINE), and DESTROYED":
\* no step of a reaper removes a resource or deletes the row of a bunker whose
\* row says one of these at that time.  The reaper looked at the state once,
\* in its listing; only the 409 of create keeps an id it is working on from
\* being revived (reaper.py:134 and 153, api.py:312).
ReaperSparesLive ==
  [][\A r \in Reapers : reaper'[r] # reaper[r] =>
       \A i \in Ids : row[i].state \in NeverReap =>
         host'[i] = host[i] /\ row'[i] = row[i]]_reapAllVars

\* Whatever is on the host has a row, or a residual report named it, or was
\* about to when its process died (cli.py:371-374 "once the row is deleted
\* that warning is the only trace of a resource that may still be alive").
NothingLost ==
  \A i \in Ids : row[i] = NoRow /\ ~Serving(i) =>
    \A res \in host[i] :
      \/ <<i, res>> \in warned \cup dropped
      \/ \E r \in Reapers : <<i, res>> \in reaper[r].left
=============================================================================
