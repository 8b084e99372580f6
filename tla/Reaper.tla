------------------------------- MODULE Reaper -------------------------------
(***************************************************************************)
(* lumenos_sandbox/reaper.py as cmd_reap --execute runs it: processes that *)
(* share the store and the host with the requests of BunkerService and     *)
(* take no lock.  One pass lists the store once, then works off the        *)
(* records it picked, and prints its report at the very end.               *)
(***************************************************************************)
EXTENDS ServiceProperties

CONSTANTS
  Reapers,      \* processes running cmd_reap --execute
  AgeGate       \* older_than_hours > 0

ASSUME ReaperAssumption == AgeGate \in BOOLEAN

VARIABLES
  reaper,       \* reaper[r]: the pass that reaper r is in
  warned,       \* what a printed residual report names
  dropped       \* what a report named whose process died before printing it

reaperVars == <<reaper, warned, dropped>>

reapAllVars == <<allVars, reaperVars>>

DefaultStates == {"ERROR"}

NeverReap == {"INITIALIZING", "READY", "ACTIVE", "QUARANTINE", "DESTROYED"}

\* the outcomes of select_states that differ: the default, and all it accepts
Selections == {DefaultStates, States!BunkerState \ NeverReap}

Trace == Ids \X Resources

NoPass == [pc |-> "idle", keep |-> FALSE, todo |-> {}, id |-> "none",
           vm |-> FALSE, switch |-> FALSE, left |-> {}]

Pass == [pc : {"idle", "next", "vm", "switch", "disk", "row"},
         keep : BOOLEAN,            \* --keep-on-failure
         todo : SUBSET Ids,         \* the candidates not worked on yet
         id : Ids \cup {"none"},
         vm : BOOLEAN, switch : BOOLEAN,   \* the loaded record has the name
         left : SUBSET Trace]       \* residuals of the report

ReaperInit ==
  /\ ServiceInit
  /\ reaper = [r \in Reapers |-> NoPass]
  /\ warned = {}
  /\ dropped = {}

-----------------------------------------------------------------------------

ReapAt(r, l) == reaper[r].pc = l

\* what is on the host no longer needs a trace once it is gone
Existing(trace) == {x \in trace : x[2] \in host'[x[1]]}

SameTraces == warned' = Existing(warned) /\ dropped' = Existing(dropped)

SameService == UNCHANGED <<state, inst, idOf, frame, registry, req>>

\* a bug to catch: never-reap states are not left out
ReapListAny(r) ==
  /\ ReapAt(r, "idle")
  /\ \E todo \in SUBSET {i \in Ids : row[i] # NoRow /\ ~Serving(i)} :
       reaper' = [reaper EXCEPT ![r] = [NoPass EXCEPT !.pc = "next", !.todo = todo]]
  /\ SameService /\ UNCHANGED <<host, row, warned, dropped>>

\* list_all, and the records whose listed state and age select them: one that
\* is hours old has no request at work on it
ReapList(r) ==
  /\ ReapAt(r, "idle")
  /\ \E keep \in BOOLEAN, selected \in Selections :
       \E todo \in SUBSET {i \in Ids : /\ row[i].state \in selected \ NeverReap
                                       /\ AgeGate => ~Serving(i)} :
         reaper' = [reaper EXCEPT ![r] =
                      [NoPass EXCEPT !.pc = "next", !.keep = keep, !.todo = todo]]
  /\ SameService /\ UNCHANGED <<host, row, warned, dropped>>

\* a bug to catch: the candidate stays on the list
ReapLoadAgain(r) ==
  /\ ReapAt(r, "next")
  /\ \E i \in reaper[r].todo :
       reaper' = [reaper EXCEPT ![r].pc = "vm", ![r].id = i,
                                ![r].vm = row[i].vm, ![r].switch = row[i].switch]
  /\ SameService /\ UNCHANGED <<host, row, warned, dropped>>

\* the record is read again, for its names only
ReapLoad(r) ==
  /\ ReapAt(r, "next")
  /\ \E i \in reaper[r].todo :
       reaper' = [reaper EXCEPT ![r].pc = "vm", ![r].id = i, ![r].todo = @ \ {i},
                                ![r].vm = row[i].vm, ![r].switch = row[i].switch]
  /\ SameService /\ UNCHANGED <<host, row, warned, dropped>>

\* a bug to catch: a False answer counts as removed
ReapStepUnnoted(r, res, l, ok) ==
  /\ reaper' = [reaper EXCEPT ![r].pc = l]
  /\ SameService /\ UNCHANGED row
  /\ SameTraces

\* _step: what was not confirmed removed is a residual
ReapStep(r, res, l, ok) ==
  /\ reaper' = [reaper EXCEPT ![r].pc = l,
                  ![r].left = IF ok THEN @ ELSE @ \cup {<<reaper[r].id, res>>}]
  /\ SameService /\ UNCHANGED row
  /\ SameTraces

ReapVm(r) ==
  /\ ReapAt(r, "vm")
  /\ \E ok \in BOOLEAN :
       /\ IF reaper[r].vm THEN RemoveVm(reaper[r].id, "reap", ok)
          ELSE ok /\ UNCHANGED host
       /\ ReapStep(r, "vm", "switch", ok)

ReapSwitch(r) ==
  /\ ReapAt(r, "switch")
  /\ \E ok \in BOOLEAN :
       /\ IF reaper[r].switch THEN Removal(reaper[r].id, "switch", "reap", ok)
          ELSE ok /\ UNCHANGED host
       /\ ReapStep(r, "switch", "disk", ok)

\* only a disk that exists is deleted
ReapDisk(r) ==
  /\ ReapAt(r, "disk")
  /\ \E ok \in BOOLEAN :
       /\ IF "disk" \in host[reaper[r].id]
          THEN Removal(reaper[r].id, "disk", "reap", ok)
          ELSE ok /\ UNCHANGED host
       /\ ReapStep(r, "disk", "row", ok)

\* the row goes, residuals or not, unless they keep it or the delete raises
ReapRow(r) ==
  LET i == reaper[r].id
      residual == \E res \in Resources : <<i, res>> \in reaper[r].left IN
  /\ ReapAt(r, "row")
  /\ \/ row' = [row EXCEPT ![i] = NoRow] /\ ~(residual /\ reaper[r].keep)
     \/ UNCHANGED row /\ ((residual /\ reaper[r].keep) \/ May("persist"))
  /\ reaper' = [reaper EXCEPT ![r].pc = "next", ![r].id = "none",
                              ![r].vm = FALSE, ![r].switch = FALSE]
  /\ SameService /\ UNCHANGED <<host, warned, dropped>>

\* no candidate is left: cmd_reap prints the residuals and exits
ReapReport(r) ==
  /\ ReapAt(r, "next") /\ reaper[r].todo = {}
  /\ warned' = warned \cup {x \in reaper[r].left : x[2] \in host[x[1]]}
  /\ reaper' = [reaper EXCEPT ![r] = NoPass]
  /\ SameService /\ UNCHANGED <<host, row, dropped>>

CrashReaper(r) ==
  /\ Crashes
  /\ ~ReapAt(r, "idle")
  /\ dropped' = dropped \cup {x \in reaper[r].left : x[2] \in host[x[1]]}
  /\ reaper' = [reaper EXCEPT ![r] = NoPass]
  /\ SameService /\ UNCHANGED <<host, row, warned>>

-----------------------------------------------------------------------------

ReaperStep(r) ==
  \/ ReapList(r) \/ ReapLoad(r) \/ ReapVm(r) \/ ReapSwitch(r) \/ ReapDisk(r)
  \/ ReapRow(r) \/ ReapReport(r) \/ CrashReaper(r)

ReaperNext ==
  \/ (\E r \in Reapers : ReaperStep(r)) /\ Others
  \/ ServiceNext /\ UNCHANGED reaper /\ SameTraces

ReaperSpec == ReaperInit /\ [][ReaperNext]_reapAllVars
=============================================================================
