----------------------------- MODULE Monitoring -----------------------------
(***************************************************************************)
(* lumenos_sandbox/monitoring.py: the threads of one SecurityMonitor.      *)
(* start_monitoring and stop_monitoring take no lock and share one flag    *)
(* and one field for the thread; a loop looks at the flag between rounds.  *)
(***************************************************************************)
EXTENDS Naturals

CONSTANTS
  Callers,          \* threads that call start_monitoring and stop_monitoring
  MaxLoops          \* bound: Thread objects made

ASSUME MonitoringAssumption == MaxLoops \in Nat

VARIABLES
  active,           \* _monitoring_active
  newest,           \* _monitor_thread: the number of a loop, or 0
  loop,             \* loop[l]: where the thread l is
  calling           \* calling[c]: where the call of c is

monitorVars == <<active, newest, loop, calling>>

Loops == 1..MaxLoops

\* "made" is a Thread that is not started; "top" looks at the flag, "round" does
\* the four checks and sleeps, "leaving" saw FALSE
Alive(l) == loop[l] \in {"top", "round", "leaving"}

MonitoringInit ==
  /\ active = FALSE
  /\ newest = 0
  /\ loop = [l \in Loops |-> "none"]
  /\ calling = [c \in Callers |-> "idle"]

StartMonitoring(c) ==
  /\ calling[c] = "idle"
  /\ \E l \in Loops : loop[l] = "none"
  /\ active' = TRUE
  /\ calling' = [calling EXCEPT ![c] = "flagged"]
  /\ UNCHANGED <<newest, loop>>

\* a bug to catch: a thread that is alive is taken for the watch
MakeThreadIfNone(c) ==
  /\ calling[c] = "flagged"
  /\ \E l \in Loops :
       /\ loop[l] = "none"
       /\ \A k \in Loops : k < l => loop[k] # "none"
       /\ IF newest # 0 /\ Alive(newest)
          THEN /\ calling' = [calling EXCEPT ![c] = "idle"]
               /\ UNCHANGED <<newest, loop>>
          ELSE /\ newest' = l
               /\ loop' = [loop EXCEPT ![l] = "made"]
               /\ calling' = [calling EXCEPT ![c] = "made"]
  /\ UNCHANGED active

MakeThread(c) ==
  /\ calling[c] = "flagged"
  /\ \E l \in Loops :
       /\ loop[l] = "none"
       /\ \A k \in Loops : k < l => loop[k] # "none"
       /\ newest' = l
       /\ loop' = [loop EXCEPT ![l] = "made"]
  /\ calling' = [calling EXCEPT ![c] = "made"]
  /\ UNCHANGED active

\* start() is called on what the field has by now: another call may have put its
\* thread there, and started it, which raises
RunThread(c) ==
  /\ calling[c] = "made"
  /\ loop' = [loop EXCEPT ![newest] = IF @ = "made" THEN "top" ELSE @]
  /\ calling' = [calling EXCEPT ![c] = "idle"]
  /\ UNCHANGED <<active, newest>>

\* the join after it ends nothing: it returns after 5 seconds too, and raises on
\* a thread that is not started
StopMonitoring(c) ==
  /\ calling[c] = "idle"
  /\ active' = FALSE
  /\ UNCHANGED <<newest, loop, calling>>

\* a bug to catch: the loop does not look at the flag again
LooksOnce(l) ==
  /\ loop[l] = "top"
  /\ loop' = [loop EXCEPT ![l] = "round"]
  /\ UNCHANGED <<active, newest, calling>>

LooksAtFlag(l) ==
  /\ loop[l] = "top"
  /\ loop' = [loop EXCEPT ![l] = IF active THEN "round" ELSE "leaving"]
  /\ UNCHANGED <<active, newest, calling>>

\* every check answers for its own exceptions, and every guest call has a timeout
EndsRound(l) ==
  /\ loop[l] = "round"
  /\ loop' = [loop EXCEPT ![l] = "top"]
  /\ UNCHANGED <<active, newest, calling>>

ThreadEnds(l) ==
  /\ loop[l] = "leaving"
  /\ loop' = [loop EXCEPT ![l] = "ended"]
  /\ UNCHANGED <<active, newest, calling>>

LoopStep(l) == LooksAtFlag(l) \/ EndsRound(l) \/ ThreadEnds(l)

MonitoringNext ==
  \/ \E c \in Callers :
       StartMonitoring(c) \/ MakeThread(c) \/ RunThread(c) \/ StopMonitoring(c)
  \/ \E l \in Loops : LoopStep(l)

\* a started thread runs on; nothing says that anybody calls
LoopFairness == \A l \in Loops : WF_monitorVars(LoopStep(l))

MonitoringSpec == MonitoringInit /\ [][MonitoringNext]_monitorVars /\ LoopFairness

-----------------------------------------------------------------------------
(* What the threads of monitoring.py owe the bunker they watch.             *)

Watches(l) == loop[l] \in {"top", "round"}

\* While monitoring is on and no call is under way, a loop watches the bunker,
\* however the starts and stops of several callers came between each other and
\* whichever loop of an earlier start was just leaving: the loop of one start may
\* be run by another (self._monitor_thread.start() reads the field again,
\* monitoring.py:181).  It does not say that it is one loop only: a loop that was
\* in its round during a stop and the next start watches on beside the new one.
\* A thread that cannot be started at all is a fault of the Bunker module.
ActiveIsWatched ==
  active /\ (\A c \in Callers : calling[c] = "idle") => \E l \in Loops : Watches(l)

\* After a stop the loops end, those of earlier starts that a stop did not wait
\* for too, unless monitoring is started again.
LoopsEnd == ~active ~> active \/ ~\E l \in Loops : Alive(l)
=============================================================================
