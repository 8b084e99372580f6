---------------------------- MODULE GuestChecks ----------------------------
(***************************************************************************)
(* lumenos_sandbox/layers.py, the rounds of lumenos_sandbox/monitoring.py  *)
(* and the calls of lumenos_sandbox/hypervisor/hyperv_backend.py that they *)
(* rest on: what becomes of a look into a guest that was not answered.  A  *)
(* behaviour follows one asker, a layer or the monitor, and a guest that   *)
(* changes between its looks.                                              *)
(***************************************************************************)
EXTENDS Naturals, Sequences

CONSTANT ManyThreats    \* bound: several threats in the guest at one time

ASSUME GuestChecksAssumption == ManyThreats \in BOOLEAN

VARIABLES
  asker,            \* who asks
  subject,          \* the guest: whether it runs, and what is wrong in it
  credentials,      \* the asker has the name of the VM
  on,               \* active of the layer
  ask,              \* the verify or the round under way, or the last one
  unavailable       \* telemetry_unavailable of the monitor

guestCheckVars == <<asker, subject, credentials, on, ask, unavailable>>

Layers == {"network", "filesystem", "process", "memory", "hypervisor"}

\* the looks of a verify and of a round of the monitor, in their order
Looks(a) ==
  CASE a = "network"    -> <<"route">>
    [] a = "filesystem" -> <<"run", "runonce">>
    [] a = "process"    -> <<"process">>
    [] a = "memory"     -> <<"vbs", "boot">>
    [] a = "hypervisor" -> <<>>
    [] a = "monitor"    -> <<"event", "route", "process", "vbs", "boot">>

Looked(a) == {Looks(a)[i] : i \in 1..Len(Looks(a))}

\* check_guest_vbs_status looks at VBS and at Secure Boot
Capability(t) == IF t = "boot" THEN "vbs" ELSE t

\* found: what the looks so far gave. clean and mute are history: the threats that
\* were not in the guest, and it was running, when the look for them was answered,
\* and the others whose look was answered with nothing
NoAsk == [next |-> 0, answer |-> "none", found |-> {}, clean |-> {}, mute |-> {}]

GuestChecksInit ==
  /\ asker \in Layers \cup {"monitor"}
  /\ subject = [running |-> FALSE, threats |-> {}]
  /\ credentials = FALSE
  /\ on = FALSE
  /\ ask = NoAsk
  /\ unavailable = {}

Asking == ask.next > 0

\* execute_in_guest asks for the state of the VM and then calls PowerShell Direct,
\* twice if the password is empty: each may fail or time out.  In a guest that runs
\* the command may tell what there is, or end well and tell nothing: silence is what
\* the backend makes of that
Asked(t, silence) ==
  {"failed"} \cup
    (IF subject.running
     THEN {IF t \in subject.threats THEN "found" ELSE "clear", silence} ELSE {})

\* a bug to catch: a probe of the network that did not run counts as blocked
UnansweredIsBlocked(t) == (Asked(t, "empty") \ {"failed"}) \cup {"clear"}

\* "blocked" is whatever does not say True
TestGuestConnectivity(t) == Asked(t, "empty")

\* no output is not JSON and raises; an empty list is passed on
GetGuestProcesses(t) == Asked(t, "empty")

ReadGuestEventLog(t) == Asked(t, "empty")

\* what does not say that it is on is off
CheckGuestVbsStatus(t) == Asked(t, "found")

\* a key without entries gives no output, which raises; an empty list is passed on,
\* as the fakes of the tests answer
CheckGuestRegistry(t) == Asked(t, "empty") \ {"clear"}

Consult(t) ==
  CASE t = "route"             -> TestGuestConnectivity(t)
    [] t = "process"           -> GetGuestProcesses(t)
    [] t = "event"             -> ReadGuestEventLog(t)
    [] t \in {"vbs", "boot"}   -> CheckGuestVbsStatus(t)
    [] t \in {"run", "runonce"} -> CheckGuestRegistry(t)

GiveCredentials ==
  /\ ~credentials /\ ~Asking
  /\ credentials' = TRUE
  /\ ask' = NoAsk
  /\ UNCHANGED <<asker, subject, on, unavailable>>

\* the answer of the firewall calls is not looked at
ActivateLayer ==
  /\ asker \in Layers
  /\ on' = TRUE
  /\ \/ UNCHANGED subject
     \/ /\ asker = "network" /\ credentials /\ subject.running
        /\ subject' = [subject EXCEPT !.threats = @ \ {"route"}]
  /\ UNCHANGED <<asker, credentials, ask, unavailable>>

DeactivateLayer ==
  /\ asker \in Layers
  /\ on' = FALSE
  /\ UNCHANGED <<asker, subject, credentials, ask, unavailable>>

\* without the name of a VM a layer answers with its flag, and no check of a round
\* does anything; the hypervisor layer asks the host
Begin ==
  /\ ~Asking
  /\ \/ /\ credentials /\ Looks(asker) # <<>>
        /\ ask' = [NoAsk EXCEPT !.next = 1]
     \/ /\ ~credentials /\ asker \in Layers
        /\ ask' = [NoAsk EXCEPT !.answer = IF on THEN "passed" ELSE "refused"]
     \/ /\ credentials /\ Looks(asker) = <<>>
        /\ \E answer \in {"passed", "refused"} : ask' = [NoAsk EXCEPT !.answer = answer]
  /\ UNCHANGED <<asker, subject, credentials, on, unavailable>>

\* ask after a look for t that gave result
Noted(t, result) ==
  LET clean == subject.running /\ t \notin subject.threats IN
  [ask EXCEPT !.found = @ \cup {s \in {t} : result = "found"},
              !.clean = @ \cup {s \in {t} : clean /\ result # "failed"},
              !.mute  = @ \cup {s \in {t} : ~clean /\ result = "empty"}]

Ended(noted, answer) == [noted EXCEPT !.next = 0, !.answer = answer]

Quiet == {"clear", "empty"}

\* an empty list passes: of processes with "Can't verify, assume OK" (272), of
\* entries under a key as none.  The memory layer answers with VBS alone, once both
\* looks were answered
LayerLook ==
  /\ asker \in Layers /\ Asking
  /\ LET t    == Looks(asker)[ask.next]
         last == ask.next = Len(Looks(asker)) IN
     \E result \in Consult(t) :
       LET noted == Noted(t, result) IN
       \/ /\ result = "failed"
          /\ ask' = Ended(noted, "raised")
       \/ /\ result = "found" /\ asker # "memory"
          /\ ask' = Ended(noted, "refused")
       \/ /\ result # "failed" /\ last /\ asker = "memory"
          /\ ask' = Ended(noted, IF "vbs" \in noted.found THEN "refused" ELSE "passed")
       \/ /\ result \in Quiet /\ last /\ asker # "memory"
          /\ ask' = Ended(noted, "passed")
       \/ /\ result # "failed" /\ ~last /\ (result \in Quiet \/ asker = "memory")
          /\ ask' = [noted EXCEPT !.next = @ + 1]
  /\ UNCHANGED <<asker, subject, credentials, on, unavailable>>

\* each of the four checks answers for its own exceptions: the capability is noted
\* as unavailable, and a finding of the other look of the same check is lost.  A
\* check that was given an empty list returns
MonitorLook ==
  /\ asker = "monitor" /\ Asking
  /\ LET t == Looks(asker)[ask.next] IN
     \E result \in Consult(t) :
       LET lost  == IF result = "failed" THEN {s \in Looked(asker) : Capability(s) = Capability(t)} ELSE {}
           noted == [Noted(t, result) EXCEPT !.found = @ \ lost]
           next  == ask.next + (IF t = "vbs" /\ result = "failed" THEN 2 ELSE 1) IN
       /\ ask' = IF next > Len(Looks(asker)) THEN Ended(noted, "round")
                 ELSE [noted EXCEPT !.next = next]
       /\ unavailable' = unavailable \cup (IF result = "failed" THEN {Capability(t)} ELSE {})
  /\ UNCHANGED <<asker, subject, credentials, on>>

GuestChanges ==
  /\ \/ subject' = [subject EXCEPT !.running = ~@]
     \/ \E t \in Looked(asker) :
          /\ ManyThreats \/ subject.threats \subseteq {t}
          /\ subject' = [subject EXCEPT !.threats = IF t \in @ THEN @ \ {t} ELSE @ \cup {t}]
  /\ UNCHANGED <<asker, credentials, on, ask, unavailable>>

GuestChecksNext ==
  \/ GiveCredentials \/ ActivateLayer \/ DeactivateLayer \/ Begin
  \/ LayerLook \/ MonitorLook \/ GuestChanges

GuestChecksSpec == GuestChecksInit /\ [][GuestChecksNext]_guestCheckVars

-----------------------------------------------------------------------------
(* What the layers and the monitor owe whoever relies on an all-clear.      *)

\* what an answer of the layer speaks of: Secure Boot is looked at and not
\* answered for
Assures(a) == Looked(a) \ {"boot"}

\* what the looks of a give an all-clear for: of VBS and Secure Boot silence is none
ClearedBy(a) == a.clean \cup (a.mute \ {"vbs", "boot"})

PassedVerify == asker \in Layers /\ credentials /\ ask.answer = "passed"

\* A look that failed never reads as clear (hyperv_backend.py:427-431 "A probe that
\* did not run proves nothing", monitoring.py:334-338): of a verify that knows the VM
\* and passes, and of a round of the monitor, every look that found nothing was
\* answered in that call by a running guest, and the threat was absent at that moment
\* or the answer was empty ("Can't verify, assume OK", layers.py:271-272), or the
\* capability is among the unavailable ones of the monitor.  This however the guest
\* stopped, ran and changed between the looks and whichever calls failed; and of VBS
\* not even an empty answer reads as clear.
FailedIsNotClear ==
  /\ PassedVerify => Assures(asker) \subseteq ClearedBy(ask)
  /\ ask.answer = "round" =>
       \A t \in Looked(asker) :
         t \in ClearedBy(ask) \cup ask.found \/ Capability(t) \in unavailable
=============================================================================
