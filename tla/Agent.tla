------------------------------- MODULE Agent -------------------------------
(***************************************************************************)
(* lumenos_sandbox/analysis_agent.py: one AnalysisAgent with the script it *)
(* starts in the guests.  A run is known by the number of the deploy that  *)
(* started it.  A guest call is PowerShell Direct and may fail.            *)
(***************************************************************************)
EXTENDS Guests, Naturals

CONSTANT MaxDeploys     \* bound: deploys per VM

ASSUME AgentAssumption == MaxDeploys \in Nat

VARIABLES
  agent,            \* agent[v]: _agents[v], or "none"
  cached,           \* cached[v]: the run of the report in _reports[v], or 0
  guest,            \* guest[v]: script written, runs at work, run in report.json
  last              \* history: last[v], the last deploy of v

agentVars == <<agent, cached, guest, last>>

NewGuest == [script |-> "none", runs |-> {}, report |-> 0]

\* its number, and the runs whose process or report it found
NoDeploy == [number |-> 0, found |-> {}]

AgentInit ==
  /\ agent = [v \in Vms |-> "none"]
  /\ cached = [v \in Vms |-> 0]
  /\ guest = [v \in Vms |-> NewGuest]
  /\ last = [v \in Vms |-> NoDeploy]

\* a VM the agent knows nothing of has the status STOPPED too
GetStatus(v) == IF agent[v] = "none" THEN "STOPPED" ELSE agent[v]

InGuest(v) == (guest[v].runs \cup {guest[v].report}) \ {0}

\* what comes of a call into the guest: "unanswered" took effect there, and the
\* answer did not come within the 30 seconds of _run_ps_direct
Outcomes == {"failed", "unanswered", "answered"}

\* the script file after a call to write it
Written(old, outcome) == IF outcome = "failed" THEN old ELSE "written"

\* what became of directory and script is not looked at: without the script the
\* process starts all the same, and ends.  Nor is it looked at whether an earlier
\* run is at work or has left its report
Deploy(v) ==
  /\ last[v].number < MaxDeploys
  /\ \E write, start \in Outcomes :
       LET number == last[v].number + 1
           script == Written(guest[v].script, write)
           runs   == IF start # "failed" /\ script = "written" THEN {number} ELSE {} IN
       /\ guest' = [guest EXCEPT ![v] =
                      [script |-> script, runs |-> @.runs \cup runs, report |-> @.report]]
       /\ agent' = [agent EXCEPT ![v] = IF start = "answered" THEN "RUNNING" ELSE "ERROR"]
       /\ last' = [last EXCEPT ![v] = [number |-> number, found |-> InGuest(v)]]
  /\ UNCHANGED cached

\* the script in the guest is at its end and writes its report
WriteReport(v) ==
  /\ \E r \in guest[v].runs :
       guest' = [guest EXCEPT ![v] = [script |-> @.script, runs |-> @.runs \ {r}, report |-> r]]
  /\ UNCHANGED <<agent, cached, last>>

\* a bug to catch: the status is set before the report is read
CollectUnread(v) ==
  /\ agent' = [agent EXCEPT ![v] = "STOPPED"]
  /\ UNCHANGED <<cached, guest, last>>

\* no answer, no report or one that cannot be parsed
CollectFails(v) ==
  /\ agent' = [agent EXCEPT ![v] = "ERROR"]
  /\ UNCHANGED <<cached, guest, last>>

CollectReport(v) ==
  /\ guest[v].report # 0
  /\ agent' = [agent EXCEPT ![v] = "STOPPED"]
  /\ cached' = [cached EXCEPT ![v] = guest[v].report]
  /\ UNCHANGED <<guest, last>>

\* the VM is made anew under its name; the agent's books are not told
Rebuild(v) ==
  /\ guest' = [guest EXCEPT ![v] = NewGuest]
  /\ UNCHANGED <<agent, cached, last>>

AgentNext ==
  \E v \in Vms :
    Deploy(v) \/ WriteReport(v) \/ CollectFails(v) \/ CollectReport(v) \/ Rebuild(v)

AgentSpec == AgentInit /\ [][AgentNext]_agentVars

-----------------------------------------------------------------------------
(* What analysis_agent.py owes its callers.                                 *)

\* STOPPED, with nothing else said, is the status of a VM that nothing was ever
\* deployed to (analysis_agent.py:312) or of one with a cached report.  That is the
\* report of the last deploy, or of a run that was at work or had left its report
\* in this very guest at the last deploy: neither what was cached for an earlier
\* VM of the same name nor a collect that failed passes for it, however many
\* deploys, rebuilds and late runs there were.
StoppedHasItsReport ==
  \A v \in Vms : GetStatus(v) = "STOPPED" =>
    \/ agent[v] = "none" /\ cached[v] = 0 /\ last[v].number = 0
    \/ cached[v] # 0 /\ cached[v] \in {last[v].number} \cup last[v].found
=============================================================================
