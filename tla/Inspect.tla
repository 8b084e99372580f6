------------------------------ MODULE Inspect ------------------------------
(***************************************************************************)
(* lumenos_sandbox/inspect.py, analyze_sync, as /analyze-sync of api.py    *)
(* runs it: a request takes one of the analysis slots or is refused, a     *)
(* worker takes a sample through the life of an ephemeral bunker of its    *)
(* own, and decontaminates it whatever happened.  Beside the worker run    *)
(* the monitor thread of the bunker, the clock of the deadline and the     *)
(* caller, who stops waiting some time after the deadline; the process of  *)
(* the API may die with all of it.                                         *)
(***************************************************************************)
EXTENDS BunkerProperties

CONSTANTS
  NumChecks,    \* the guest checks of one monitoring round
  MaxInFlight,  \* _ANALYSIS_MAX_IN_FLIGHT: slots, and workers of the pool
  Crashes       \* whether the process of the API may die

ASSUME InspectAssumption ==
  /\ NumChecks \in Nat \ {0}
  /\ MaxInFlight \in Nat \ {0}
  /\ {"true", "false", "raised"} \subseteq Answers
  /\ Crashes \in BOOLEAN

VARIABLES
  slots,        \* _analysis_slots: how many are free
  job,          \* job[t]: the analysis of worker t
  monitor       \* monitor[t]: the monitor thread of its bunker

inspectVars == <<slots, job, monitor>>

inspectAllVars == <<vars, inspectVars>>

\* the severities that decide a verdict: high stands for critical too
Severities == {"medium", "high"}

Verdicts == {"none", "clean", "suspicious", "malicious", "error"}

\* a label names what the worker does next, or the method it is in; one that died
\* is "dead" and known by what it was at
JobPcs == {"idle", "hash", "init", "activate", "stage", "execute", "wait",
           "collect", "decon", "term", "fb_vm", "fb_switch", "fb_disk",
           "delete", "report", "answer", "dead"}

NoJob == [pc |-> "idle", o |-> NoObject, expired |-> FALSE, waiting |-> FALSE,
          error |-> "none", executed |-> FALSE, iocs |-> {}, success |-> FALSE,
          verdict |-> "none", died |-> "idle"]

Job == [pc : JobPcs, o : Objects \cup {NoObject},
        expired : BOOLEAN,          \* the deadline has passed
        waiting : BOOLEAN,          \* the caller waits for the result
        error : {"none", "cycle", "deadline"},
        executed : BOOLEAN,         \* the sample ran in the guest
        iocs : SUBSET Severities,
        success : BOOLEAN,          \* decontamination.success
        verdict : Verdicts,
        died : JobPcs]

\* a thread is off, asleep between two rounds, or at check n
Off == NumChecks + 1

NoMonitor == [at |-> Off, looked |-> FALSE, events |-> {}, unavailable |-> FALSE]

Monitor == [at : 0..Off,
            looked : BOOLEAN,       \* every check has been made once
            events : SUBSET Severities,
            unavailable : BOOLEAN]  \* telemetry_unavailable is not empty

InspectInit ==
  /\ Init
  /\ slots = MaxInFlight
  /\ job = [t \in Threads |-> NoJob]
  /\ monitor = [t \in Threads |-> NoMonitor]

-----------------------------------------------------------------------------

JobAt(t, l) == job[t].pc = l /\ At(t, "idle")

Bkr(t) == job[t].o

JobGoto(t, l) == job' = [job EXCEPT ![t].pc = l]

\* a bug to catch: on the deadline the worker returns at once
FailAndLeave(t, why) ==
  job' = [job EXCEPT ![t].pc = IF why = "deadline" THEN "report" ELSE "decon",
                     ![t].error = why]

\* an exception in the cycle: the rest of the try block is skipped
Fail(t, why) == job' = [job EXCEPT ![t].pc = "decon", ![t].error = why]

\* the check of the deadline that closes a step
Proceed(t, l) ==
  \/ ~job[t].expired /\ JobGoto(t, l)
  \/ job[t].expired /\ Fail(t, "deadline")

CallMethod(t, o, entry) ==
  frame' = [frame EXCEPT ![t] = [Idle EXCEPT !.pc = entry, !.o = o]]

SameBunker == UNCHANGED <<state, inst, idOf, host, row>>

-----------------------------------------------------------------------------
(* Admission, and the two that race the worker.                            *)

Working(t) == job[t].pc \notin {"idle", "dead"}

NobodyDead == \A t \in Threads : job[t].pc # "dead"

\* a bug to catch: the slot is taken without asking whether there is one
SubmitUnbounded(t) ==
  /\ JobAt(t, "idle") /\ NobodyDead
  /\ slots' = slots - 1
  /\ job' = [job EXCEPT ![t] = [NoJob EXCEPT !.pc = "hash", !.waiting = TRUE]]
  /\ monitor' = [monitor EXCEPT ![t] = NoMonitor]
  /\ SameBunker /\ UNCHANGED frame

\* a request that is not refused for its token, its sample (400, 413) or for
\* want of a slot (503); a worker of the pool is free when a slot is.  Bound: none
\* comes before what a dead process left is forgotten
Submit(t) ==
  /\ JobAt(t, "idle") /\ NobodyDead
  /\ slots > 0
  /\ slots' = slots - 1
  /\ job' = [job EXCEPT ![t] = [NoJob EXCEPT !.pc = "hash", !.waiting = TRUE]]
  /\ monitor' = [monitor EXCEPT ![t] = NoMonitor]
  /\ SameBunker /\ UNCHANGED frame

Expire(t) ==
  /\ May("deadline")
  /\ Working(t) /\ ~job[t].expired
  /\ job' = [job EXCEPT ![t].expired = TRUE]
  /\ SameBunker /\ UNCHANGED <<frame, slots, monitor>>

\* 504: the caller waited longer than the deadline; the worker goes on
GiveUp(t) ==
  /\ job[t].expired /\ job[t].waiting
  /\ job' = [job EXCEPT ![t].waiting = FALSE]
  /\ SameBunker /\ UNCHANGED <<frame, slots, monitor>>

-----------------------------------------------------------------------------
(* The cycle                                                               *)

\* _hash_sample raises: the sample has gone or grown over the limit since the
\* request was admitted, or the deadline passed at the start or while reading
SampleRefused(t) == job[t].expired \/ May("sample")

\* before there is a bunker an exception ends in an error report at once
Hash(t) ==
  /\ JobAt(t, "hash")
  /\ \/ /\ ~job[t].expired
        /\ \E o \in Objects :
             /\ \A u \in Threads : job[u].o # o
             /\ job' = [job EXCEPT ![t].pc = "init", ![t].o = o]
             /\ CallMethod(t, o, "init_begin")
     \/ /\ SampleRefused(t)
        /\ job' = [job EXCEPT ![t].pc = "report", ![t].error = "cycle"]
        /\ UNCHANGED frame
  /\ SameBunker /\ UNCHANGED <<slots, monitor>>

\* initialize answered True, False or raised the deadline
Initialized(t) ==
  /\ JobAt(t, "init")
  /\ \/ /\ frame[t].result = "true" /\ ~job[t].expired
        /\ JobGoto(t, "activate")
        /\ CallMethod(t, Bkr(t), "act_check")
     \/ /\ \/ frame[t].result = "true" /\ job[t].expired
           \/ frame[t].result = "raised"
        /\ Fail(t, "deadline")
        /\ UNCHANGED frame
     \/ /\ frame[t].result = "false"
        /\ Fail(t, "cycle")
        /\ UNCHANGED frame
  /\ SameBunker /\ UNCHANGED <<slots, monitor>>

Activated(t) ==
  /\ JobAt(t, "activate")
  /\ \/ frame[t].result = "true" /\ Proceed(t, "stage")
     \/ frame[t].result # "true" /\ Fail(t, "cycle")
  /\ SameBunker /\ UNCHANGED <<frame, slots, monitor>>

\* copy the sample into the guest
Stage(t) ==
  /\ JobAt(t, "stage")
  /\ Proceed(t, "execute") \/ (May("guest") /\ Fail(t, "cycle"))
  /\ SameBunker /\ UNCHANGED <<frame, slots, monitor>>

Execute(t) ==
  LET ran == [job EXCEPT ![t].executed = TRUE] IN
  /\ JobAt(t, "execute")
  /\ \/ /\ ~job[t].expired
        /\ job' = [ran EXCEPT ![t].pc = "wait"]
     \/ /\ job[t].expired
        /\ job' = [ran EXCEPT ![t].pc = "decon", ![t].error = "deadline"]
     \/ May("guest") /\ Fail(t, "cycle")
  /\ SameBunker /\ UNCHANGED <<frame, slots, monitor>>

\* the monitor wait, of any length, none at all included
Wait(t) ==
  /\ JobAt(t, "wait")
  /\ Proceed(t, "collect")
  /\ SameBunker /\ UNCHANGED <<frame, slots, monitor>>

\* the static scan of the sample, and what the monitor has logged by now
Collect(t) ==
  /\ JobAt(t, "collect")
  /\ \E static \in SUBSET Severities :
       job' = [job EXCEPT ![t].pc = "decon",
                          ![t].iocs = static \cup monitor[t].events]
  /\ SameBunker /\ UNCHANGED <<frame, slots, monitor>>

-----------------------------------------------------------------------------
(* _decontaminate, on every path that has a bunker                         *)

\* a bug to catch: the row goes before the resources
DecontaminateUntraced(t) ==
  LET active == state[Bkr(t)] = "ACTIVE" IN
  /\ JobAt(t, "decon")
  /\ inst' = [inst EXCEPT ![Bkr(t)].monitoring = FALSE]
  /\ JobGoto(t, IF active THEN "term" ELSE "fb_vm")
  /\ IF active THEN CallMethod(t, Bkr(t), "term_check") ELSE UNCHANGED frame
  /\ row' = [row EXCEPT ![idOf[Bkr(t)]] = NoRow]
  /\ UNCHANGED <<state, idOf, host, slots, monitor>>

Decontaminate(t) ==
  LET active == state[Bkr(t)] = "ACTIVE" IN
  /\ JobAt(t, "decon")
  /\ inst' = [inst EXCEPT ![Bkr(t)].monitoring = FALSE]
  /\ JobGoto(t, IF active THEN "term" ELSE "fb_vm")
  /\ IF active THEN CallMethod(t, Bkr(t), "term_check") ELSE UNCHANGED frame
  /\ UNCHANGED <<state, idOf, host, row, slots, monitor>>

\* a bug to catch: terminate returned, hence the bunker is gone
TerminatedAnyhow(t) ==
  /\ JobAt(t, "term")
  /\ job' = [job EXCEPT ![t].pc = "delete", ![t].success = TRUE]
  /\ SameBunker /\ UNCHANGED <<frame, slots, monitor>>

\* success is that of the runner's report
Terminated(t) ==
  /\ JobAt(t, "term")
  /\ job' = [job EXCEPT ![t].pc = "delete",
                        ![t].success = frame[t].result = "true"]
  /\ SameBunker /\ UNCHANGED <<frame, slots, monitor>>

\* a removal of the fallback: its answer goes into the steps and nowhere else
FallbackVm(t) ==
  /\ JobAt(t, "fb_vm")
  /\ IF inst[Bkr(t)].vm
     THEN \E ok \in BOOLEAN : RemoveVm(idOf[Bkr(t)], "clean_vm", ok)
     ELSE UNCHANGED host
  /\ inst' = [inst EXCEPT ![Bkr(t)].vm = FALSE]
  /\ JobGoto(t, "fb_switch")
  /\ UNCHANGED <<state, idOf, row, frame, slots, monitor>>

FallbackSwitch(t) ==
  /\ JobAt(t, "fb_switch")
  /\ IF inst[Bkr(t)].switch
     THEN \E ok \in BOOLEAN :
            Removal(idOf[Bkr(t)], "switch", "clean_switch", ok)
     ELSE UNCHANGED host
  /\ inst' = [inst EXCEPT ![Bkr(t)].switch = FALSE]
  /\ JobGoto(t, "fb_disk")
  /\ UNCHANGED <<state, idOf, row, frame, slots, monitor>>

FallbackDisk(t) ==
  /\ JobAt(t, "fb_disk")
  /\ \E ok \in BOOLEAN : Removal(idOf[Bkr(t)], "disk", "clean_disk", ok)
  /\ job' = [job EXCEPT ![t].pc = "delete", ![t].success = TRUE]
  /\ UNCHANGED <<state, inst, idOf, row, frame, slots, monitor>>

\* the row goes with the ephemeral bunker
DeleteRow(t) ==
  /\ JobAt(t, "delete")
  /\ \/ row' = [row EXCEPT ![idOf[Bkr(t)]] = NoRow]
     \/ May("persist") /\ UNCHANGED row
  /\ JobGoto(t, "report")
  /\ UNCHANGED <<state, inst, idOf, host, frame, slots, monitor>>

-----------------------------------------------------------------------------

\* a bug to catch: telemetry that could not be collected is taken for silence
VerdictOfSilence(error, unavailable, iocs) ==
  IF error # "none" THEN "error"
  ELSE CASE "high" \in iocs    -> "malicious"
         [] iocs = {"medium"}  -> "suspicious"
         [] OTHER              -> "clean"

\* _telemetry_error and _verdict_from_iocs
VerdictOf(error, unavailable, iocs) ==
  IF error # "none" \/ unavailable THEN "error"
  ELSE CASE "high" \in iocs    -> "malicious"
         [] iocs = {"medium"}  -> "suspicious"
         [] OTHER              -> "clean"

TelemetryError(t) == monitor[t].unavailable

\* build_inspect_report; a deadline, and what failed before there was a bunker,
\* come as exceptions: build_error_report knows nothing of the decontamination
Reported(j, unavailable) ==
  [j EXCEPT !.success = @ /\ j.error # "deadline",
            !.verdict = VerdictOf(j.error, unavailable, j.iocs)]

Report(t) ==
  /\ JobAt(t, "report")
  /\ job' = [job EXCEPT ![t] = [Reported(@, TelemetryError(t)) EXCEPT !.pc = "answer"]]
  /\ SameBunker /\ UNCHANGED <<frame, slots, monitor>>

\* the worker is done with an object and an id that nobody uses again: both may
\* stand for those of the next analysis, and what is left of them is forgotten
Discard(t) ==
  LET o == job[t].o IN
  /\ job' = [job EXCEPT ![t] = NoJob]
  /\ frame' = [frame EXCEPT ![t] = Idle]
  /\ monitor' = [monitor EXCEPT ![t] = NoMonitor]
  /\ state' = [p \in Objects |-> IF p = o THEN "DESTROYED" ELSE state[p]]
  /\ inst' = [p \in Objects |-> IF p = o THEN Fresh ELSE inst[p]]
  /\ host' = [i \in Ids |-> IF o \in Objects /\ i = idOf[o] THEN {} ELSE host[i]]
  /\ row' = [i \in Ids |-> IF o \in Objects /\ i = idOf[o] THEN NoRow ELSE row[i]]
  /\ UNCHANGED idOf

\* a bug to catch: the endpoint releases the slot when it answers in time
AnswerInTime(t) ==
  /\ JobAt(t, "answer")
  /\ slots' = IF job[t].waiting THEN slots + 1 ELSE slots
  /\ Discard(t)

\* a bug to catch: the worker hands its report to a caller that has gone
AnswerToCaller(t) ==
  /\ JobAt(t, "answer") /\ job[t].waiting
  /\ slots' = slots + 1
  /\ Discard(t)

\* _run_analysis_and_release: the slot goes back whether or not the caller waits
Answer(t) ==
  /\ JobAt(t, "answer")
  /\ slots' = slots + 1
  /\ Discard(t)

-----------------------------------------------------------------------------
(* The process dies: what is left of the analyses is on the host and in    *)
(* the store.  The slots of the next process are all free.                 *)

CrashApi ==
  /\ Crashes
  /\ \E t \in Threads : Working(t)
  /\ job' = [t \in Threads |->
               IF ~Working(t) \/ job[t].o = NoObject THEN NoJob
               ELSE [NoJob EXCEPT !.pc = "dead", !.o = job[t].o, !.died = job[t].pc]]
  /\ slots' = MaxInFlight
  /\ frame' = [t \in Threads |-> Idle]
  /\ monitor' = [t \in Threads |-> NoMonitor]
  /\ state' = [o \in Objects |-> "DESTROYED"]
  /\ inst' = [o \in Objects |-> Fresh]
  /\ UNCHANGED <<idOf, host, row>>

Forget(t) ==
  /\ job[t].pc = "dead"
  /\ UNCHANGED slots
  /\ Discard(t)

-----------------------------------------------------------------------------
(* A step of the bunker method the worker is in.  initialize checks the    *)
(* deadline before each of its calls; start_monitoring starts the thread.  *)

DeadlineChecked(t) ==
  frame[t].pc \in {"init_verify", "init_switch", "init_vm", "init_guest"}

Aborts(t) == frame'[t].pc = "clean_vm" /\ ~frame'[t].ok

MethodStep(t) ==
  /\ Step(t)
  /\ DeadlineChecked(t) => (Aborts(t) <=> job[t].expired)
  /\ monitor' = [monitor EXCEPT ![t].at =
       IF inst'[Bkr(t)].monitoring /\ ~inst[Bkr(t)].monitoring THEN 0 ELSE @]
  /\ UNCHANGED <<slots, job>>

-----------------------------------------------------------------------------
(* _monitor_loop: the flag is read between two rounds only                 *)

MonitorWake(t) ==
  /\ monitor[t].at = 0
  /\ monitor' = [monitor EXCEPT ![t].at =
                   IF inst[Bkr(t)].monitoring THEN 1 ELSE Off]
  /\ SameBunker /\ UNCHANGED <<frame, slots, job>>

\* a check finds nothing, finds something, or could not look
MonitorCheck(t) ==
  LET m    == monitor[t]
      last == m.at = NumChecks
      done == [m EXCEPT !.at = IF last THEN 0 ELSE @ + 1, !.looked = @ \/ last] IN
  /\ m.at \in 1..NumChecks
  /\ \/ monitor' = [monitor EXCEPT ![t] = done]
     \/ \E s \in Severities :
          monitor' = [monitor EXCEPT ![t] = [done EXCEPT !.events = @ \cup {s}]]
     \/ /\ May("telemetry")
        /\ monitor' = [monitor EXCEPT ![t] = [done EXCEPT !.unavailable = TRUE]]
  /\ SameBunker /\ UNCHANGED <<frame, slots, job>>

-----------------------------------------------------------------------------

Work(t) ==
  \/ Hash(t) \/ Initialized(t) \/ Activated(t) \/ Stage(t) \/ Execute(t)
  \/ Wait(t) \/ Collect(t) \/ Decontaminate(t) \/ Terminated(t)
  \/ FallbackVm(t) \/ FallbackSwitch(t) \/ FallbackDisk(t) \/ DeleteRow(t)
  \/ Report(t) \/ Answer(t) \/ MethodStep(t)

InspectNext ==
  \/ \E t \in Threads :
       \/ Submit(t) \/ Expire(t) \/ GiveUp(t)
       \/ Work(t)
       \/ MonitorWake(t) \/ MonitorCheck(t)
       \/ Forget(t)
  \/ CrashApi

InspectSpec == InspectInit /\ [][InspectNext]_inspectAllVars

\* a worker goes on: every call into the backend has a timeout of its own
InspectFairSpec ==
  InspectSpec /\ \A t \in Threads : WF_inspectAllVars(Work(t))
=============================================================================
