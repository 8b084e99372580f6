--------------------------- MODULE SupportProofs ---------------------------
(***************************************************************************)
(* Theorems about what the life of a bunker rests on beside its methods:   *)
(* secrets, the monitor's loops, the looks into a guest, the evidence, the *)
(* phone support and the factory of backends, for any processes, threads,  *)
(* files and VMs.                                                          *)
(***************************************************************************)
EXTENDS Secrets, Monitoring, GuestChecks,
        Forensics, Phone, Factory, TLAPS

-----------------------------------------------------------------------------
(* Phone                                                                    *)

PhoneInv ==
  /\ hypervisor \in {"hyper_v", "whp", "kvm", "qemu", "none"}
  /\ vm \in [Vms -> {"none", "made", "running"}]
  /\ answered \in [Vms -> {"none", "true", "false"}]
  /\ detected \in {"undetected", hypervisor}
  /\ StartTellsTheDevice

\* phone_support.py:180-207: what start_vm has returned tells the device, for
\* any VMs, and whatever times out, exits or is killed by name.
THEOREM StartTellsTheDeviceHolds == PhoneSpec => []StartTellsTheDevice
<1>1. PhoneInit => PhoneInv
  BY DEF PhoneInit, PhoneInv, StartTellsTheDevice, Platforms, Hypervisors, OnHost, AsProcess
<1>2. PhoneInv /\ [PhoneNext]_phoneVars => PhoneInv'
  <2> SUFFICES ASSUME PhoneInv, [PhoneNext]_phoneVars PROVE PhoneInv'
    OBVIOUS
  <2> USE DEF PhoneInv, StartTellsTheDevice, OnHost, AsProcess, Returns
  <2>1. CASE DetectCapabilities
    BY <2>1 DEF DetectCapabilities
  <2>2. ASSUME NEW v \in Vms, CreateConfig(v) PROVE PhoneInv'
    BY <2>2 DEF CreateConfig
  <2>3. ASSUME NEW v \in Vms, StartIsRefused(v) PROVE PhoneInv'
    BY <2>3 DEF StartIsRefused
  <2>4. ASSUME NEW v \in Vms, StartProcess(v) PROVE PhoneInv'
    BY <2>4 DEF StartProcess
  <2>5. ASSUME NEW v \in Vms, ProcessEnds(v) PROVE PhoneInv'
    BY <2>5 DEF ProcessEnds
  <2>6. ASSUME NEW v \in Vms, ProcessTimesOut(v) PROVE PhoneInv'
    BY <2>6 DEF ProcessTimesOut
  <2>7. ASSUME NEW v \in Vms, StartOnHost(v) PROVE PhoneInv'
    BY <2>7 DEF StartOnHost
  <2>8. ASSUME NEW v \in Vms, StopVm(v) PROVE PhoneInv'
    <3>0. PICK killed \in SUBSET starting : \E exit \in [killed -> {"true", "false"}] :
            /\ vm' = [w \in Vms |-> IF w \in killed THEN "none" ELSE vm[w]]
            /\ starting' = starting \ killed
            /\ answered' = [w \in Vms |-> IF w \in killed THEN exit[w] ELSE answered[w]]
      BY <2>8 DEF StopVm, Pkill
    <3>1. PICK exit \in [killed -> {"true", "false"}] :
            /\ vm' = [w \in Vms |-> IF w \in killed THEN "none" ELSE vm[w]]
            /\ starting' = starting \ killed
            /\ answered' = [w \in Vms |-> IF w \in killed THEN exit[w] ELSE answered[w]]
      BY <3>0
    <3>2. UNCHANGED <<hypervisor, detected>> /\ ~OnHost
      BY <2>8 DEF StopVm
    <3>3. \A w \in killed : exit[w] \in {"true", "false"}
      BY <3>1
    <3>4. \A w \in Vms : /\ vm'[w] = IF w \in killed THEN "none" ELSE vm[w]
                         /\ answered'[w] = IF w \in killed THEN exit[w] ELSE answered[w]
      BY <3>1
    <3>5. /\ vm' \in [Vms -> {"none", "made", "running"}]
          /\ answered' \in [Vms -> {"none", "true", "false"}]
      BY <3>1, <3>3
    <3>6. \A w \in Vms : AsProcess /\ vm'[w] = "running" => w \in starting'
      BY <3>1, <3>4
    <3> QED BY <3>2, <3>5, <3>6
  <2>9. ASSUME NEW v \in Vms, HostStopsVm(v) PROVE PhoneInv'
    BY <2>9 DEF HostStopsVm
  <2>10. CASE UNCHANGED phoneVars
    BY <2>10 DEF phoneVars
  <2> QED
    BY <2>1, <2>2, <2>3, <2>4, <2>5, <2>6, <2>7, <2>8, <2>9, <2>10 DEF PhoneNext
<1>3. PhoneInv => StartTellsTheDevice
  BY DEF PhoneInv
<1> QED BY <1>1, <1>2, <1>3, PTL DEF PhoneSpec

-----------------------------------------------------------------------------
(* Factory                                                                  *)

\* A client in the global was found available by its maker, or its maker has yet to
\* probe it, is probing it, or is about to put the mock in its place.
Pending(w) ==
  \/ stage[w] \in {"probe", "degrade"}
  \/ stage[w] = "probing" /\ target[w] = w

FactoryInv ==
  /\ backend \in Backends
  /\ stage \in [Workers -> {"idle", "make", "probe", "probing", "degrade", "serve"}]
  /\ target \in [Workers -> Backends]
  /\ probed \in SUBSET Workers
  /\ override # "kvm" => \A w \in Workers : backend = w => w \in probed \/ Pending(w)

\* hypervisor/__init__.py:9-89: for any number of threads in get_backend, what is
\* left when they are out is none, the mock, or a client that its maker found
\* available.
THEOREM SettledIsProbedHolds == FactorySpec => []SettledIsProbed
<1> USE WorkersAssumption DEF WorkersAssumption
<1>1. FactoryInit => FactoryInv
  BY DEF FactoryInit, FactoryInv, Backends
<1>2. FactoryInv /\ [FactoryNext]_factoryVars => FactoryInv'
  <2> SUFFICES ASSUME FactoryInv, [FactoryNext]_factoryVars PROVE FactoryInv'
    OBVIOUS
  <2> USE DEF FactoryInv, Pending, Goes, Backends
  <2>1. ASSUME NEW w \in Workers, GetBackend(w) PROVE FactoryInv'
    BY <2>1 DEF GetBackend
  <2>2. ASSUME NEW w \in Workers, MakeClient(w) PROVE FactoryInv'
    BY <2>2 DEF MakeClient
  <2>3. ASSUME NEW w \in Workers, Probe(w) PROVE FactoryInv'
    BY <2>3 DEF Probe
  <2>4. ASSUME NEW w \in Workers, ProbeSucceeds(w) PROVE FactoryInv'
    BY <2>4 DEF ProbeSucceeds
  <2>5. ASSUME NEW w \in Workers, ProbeFails(w) \/ ProbeRaises(w) PROVE FactoryInv'
    BY <2>5 DEF ProbeFails, ProbeRaises
  <2>6. ASSUME NEW w \in Workers, Degrade(w) PROVE FactoryInv'
    BY <2>6 DEF Degrade
  <2>7. ASSUME NEW w \in Workers, Serve(w) PROVE FactoryInv'
    BY <2>7 DEF Serve
  <2>8. CASE UNCHANGED factoryVars
    BY <2>8 DEF factoryVars
  <2> QED
    BY <2>1, <2>2, <2>3, <2>4, <2>5, <2>6, <2>7, <2>8 DEF FactoryNext
<1>3. FactoryInv => SettledIsProbed
  BY DEF FactoryInv, SettledIsProbed, Pending, Backends
<1> QED BY <1>1, <1>2, <1>3, PTL DEF FactorySpec

-----------------------------------------------------------------------------
(* Monitoring                                                               *)

\* Some loop watches, or a call is on its way to a loop that will: it has yet to
\* make its thread, or the thread in the field is made and has yet to be started.
Watched ==
  \/ \E l \in Loops : Watches(l)
  \/ \E c \in Callers : calling[c] = "flagged"
  \/ newest \in Loops /\ loop[newest] = "made" /\ \E c \in Callers : calling[c] = "made"

MonitoringInv ==
  /\ active \in BOOLEAN
  /\ newest \in Loops \cup {0}
  /\ loop \in [Loops -> {"none", "made", "top", "round", "leaving", "ended"}]
  /\ calling \in [Callers -> {"idle", "flagged", "made"}]
  /\ active => Watched

\* monitoring.py:177-205: monitoring that is on has a loop that watches once no
\* call is under way, for any number of callers and loops.
THEOREM ActiveIsWatchedHolds == MonitoringSpec => []ActiveIsWatched
<1>1. MonitoringInit => MonitoringInv
  BY DEF MonitoringInit, MonitoringInv
<1>2. MonitoringInv /\ [MonitoringNext]_monitorVars => MonitoringInv'
  <2> SUFFICES ASSUME MonitoringInv, [MonitoringNext]_monitorVars PROVE MonitoringInv'
    OBVIOUS
  <2>0. 0 \notin Loops
    BY MonitoringAssumption DEF Loops, MonitoringAssumption
  <2> USE DEF MonitoringInv, Watched, Watches
  <2>1. ASSUME NEW c \in Callers, StartMonitoring(c) PROVE MonitoringInv'
    BY <2>1 DEF StartMonitoring
  <2>2. ASSUME NEW c \in Callers, MakeThread(c) PROVE MonitoringInv'
    <3>1. PICK l \in Loops : /\ loop[l] = "none"
                             /\ newest' = l
                             /\ loop' = [loop EXCEPT ![l] = "made"]
      BY <2>2 DEF MakeThread
    <3>2. active' = active /\ calling' = [calling EXCEPT ![c] = "made"]
      BY <2>2 DEF MakeThread
    <3> QED BY <3>1, <3>2
  <2>3. ASSUME NEW c \in Callers, RunThread(c) PROVE MonitoringInv'
    <3>1. /\ calling[c] = "made"
          /\ loop' = [loop EXCEPT ![newest] = IF @ = "made" THEN "top" ELSE @]
          /\ calling' = [calling EXCEPT ![c] = "idle"]
          /\ active' = active /\ newest' = newest
      BY <2>3 DEF RunThread
    <3>2. CASE newest \in Loops /\ loop[newest] = "made"
      <4>1. loop' = [loop EXCEPT ![newest] = "top"]
        BY <3>1, <3>2
      <4> QED BY <3>1, <3>2, <4>1
    <3>3. CASE ~(newest \in Loops /\ loop[newest] = "made")
      <4>1. loop' = loop
        BY <2>0, <3>1, <3>3
      <4> QED BY <3>1, <3>3, <4>1
    <3> QED BY <3>2, <3>3
  <2>4. ASSUME NEW c \in Callers, StopMonitoring(c) PROVE MonitoringInv'
    BY <2>4 DEF StopMonitoring
  <2>5. ASSUME NEW l \in Loops, LoopStep(l) PROVE MonitoringInv'
    <3>1. CASE LooksAtFlag(l)
      BY <3>1 DEF LooksAtFlag
    <3>2. CASE EndsRound(l)
      BY <3>2 DEF EndsRound
    <3>3. CASE ThreadEnds(l)
      BY <3>3 DEF ThreadEnds
    <3> QED BY <2>5, <3>1, <3>2, <3>3 DEF LoopStep
  <2>6. CASE UNCHANGED monitorVars
    BY <2>6 DEF monitorVars
  <2> QED BY <2>1, <2>2, <2>3, <2>4, <2>5, <2>6 DEF MonitoringNext
<1>3. MonitoringInv => ActiveIsWatched
  BY DEF MonitoringInv, Watched, ActiveIsWatched
<1> QED BY <1>1, <1>2, <1>3, PTL DEF MonitoringSpec

-----------------------------------------------------------------------------
(* Forensics                                                                *)

Taken == {StateDb} \cup Reports

\* What was there all the while is in the chain or has yet to be taken, and what
\* of the chain was checked, or is as it was collected, has matched.
ChainInv ==
  /\ onDisk \in [Files -> Versions \cup {0}]
  /\ evidence \in [Files -> Versions \cup {0}]
  /\ collector.todo \subseteq Files
  /\ lasting \subseteq Present
  /\ collector.at = "reports" =>
       /\ lasting \cap {StateDb} \subseteq Chain
       /\ lasting \cap Reports \subseteq Chain \cup collector.todo
  /\ collector.at = "snapshots" =>
       /\ lasting \cap Taken \subseteq Chain
       /\ lasting \cap Snapshots \subseteq Chain \cup collector.todo
  /\ collector.at = "verify" =>
       /\ Chain \ collector.todo \subseteq matched
       /\ \A f \in Chain : onDisk[f] = evidence[f] => f \in matched
  /\ collector.at = "valid" => Chain \subseteq matched

\* forensics.py:48-144: a chain lacks no file that was there all the while, and a
\* valid one matched its files, for any files and whatever is written meanwhile.
THEOREM ChainIsWholeHolds == ForensicsSpec => []ChainIsWhole
<1>1. ForensicsInit => ChainInv
  BY DEF ForensicsInit, ChainInv, Present, Chain
<1>2. ChainInv /\ [ForensicsNext]_evidenceVars => ChainInv'
  <2> SUFFICES ASSUME ChainInv, [ForensicsNext]_evidenceVars PROVE ChainInv'
    OBVIOUS
  <2> USE ForensicsAssumption
      DEF ChainInv, Present, Chain, Goto, Add, Taken, ForensicsAssumption
  <2>1. ASSUME NEW f \in Files, WriteFile(f) PROVE ChainInv'
    BY <2>1 DEF WriteFile
  <2>2. ASSUME NEW f \in Files, RemoveFile(f) PROVE ChainInv'
    BY <2>2 DEF RemoveFile
  <2>3. CASE Collect
    BY <2>3 DEF Collect
  <2>4. CASE TakeDatabase
    BY <2>4 DEF TakeDatabase, Files
  <2>5. CASE Vanished
    BY <2>5 DEF Vanished
  <2>6. CASE SkipSnapshot
    BY <2>6 DEF SkipSnapshot
  <2>7. CASE TakeFile
    BY <2>7 DEF TakeFile
  <2>8. CASE ListSnapshots
    BY <2>8 DEF ListSnapshots
  <2>9. CASE BeginVerify
    BY <2>9 DEF BeginVerify
  <2>10. CASE VerifyFile
    BY <2>10 DEF VerifyFile
  <2>11. CASE Verified
    BY <2>11 DEF Verified
  <2>12. CASE UNCHANGED evidenceVars
    BY <2>12 DEF evidenceVars
  <2> QED
    BY <2>1, <2>2, <2>3, <2>4, <2>5, <2>6, <2>7, <2>8, <2>9, <2>10, <2>11, <2>12
    DEF ForensicsNext
<1>3. ChainInv => ChainIsWhole
  BY DEF ChainInv, ChainIsWhole, Taken, Chain, Present, Files
<1> QED BY <1>1, <1>2, <1>3, PTL DEF ForensicsSpec

-----------------------------------------------------------------------------
(* GuestChecks                                                              *)

Threats == {"route", "run", "runonce", "process", "vbs", "boot", "event"}

Answer == {"none", "passed", "refused", "raised", "round"}

AskType == [next : Nat, answer : Answer, found : SUBSET Threats, clean : SUBSET Threats,
            mute : SUBSET Threats]

\* a look that was made cleared its threat, or found it where a finding does not end
\* the call, or noted that it could not look
Covered(t) ==
  \/ t \in ClearedBy(ask)
  \/ asker \in {"memory", "monitor"} /\ t \in ask.found
  \/ asker = "monitor" /\ Capability(t) \in unavailable

CheckInv ==
  /\ asker \in Layers \cup {"monitor"}
  /\ ask \in AskType
  /\ Asking => /\ credentials
               /\ ask.answer = "none"
               /\ ask.next \in 1..Len(Looks(asker))
               /\ \A i \in 1..(ask.next - 1) : Covered(Looks(asker)[i])
  /\ FailedIsNotClear

\* The looks of each asker, in their order.
LEMMA LooksOf ==
  /\ Looks("network") = <<"route">> /\ Looks("filesystem") = <<"run", "runonce">>
  /\ Looks("process") = <<"process">> /\ Looks("memory") = <<"vbs", "boot">>
  /\ Looks("hypervisor") = <<>>
  /\ Looks("monitor") = <<"event", "route", "process", "vbs", "boot">>
BY DEF Looks

\* What an answer of a call says: "clear" of a running guest without the threat, and
\* nothing at all of anything but VBS and Secure Boot.
LEMMA ClearWasLooked ==
  ASSUME NEW t \in Threats, NEW result \in Consult(t)
  PROVE  /\ result \in {"failed", "found"} \cup Quiet
         /\ result = "clear" => subject.running /\ t \notin subject.threats
         /\ result = "empty" => t \notin {"vbs", "boot"}
<1> USE DEF Asked, Quiet
<1>1. CASE t = "route"
  BY <1>1 DEF Consult, TestGuestConnectivity
<1>2. CASE t = "process"
  BY <1>2 DEF Consult, GetGuestProcesses
<1>3. CASE t = "event"
  BY <1>3 DEF Consult, ReadGuestEventLog
<1>4. CASE t \in {"vbs", "boot"}
  BY <1>4 DEF Consult, CheckGuestVbsStatus
<1>5. CASE t \in {"run", "runonce"}
  BY <1>5 DEF Consult, CheckGuestRegistry
<1> QED BY <1>1, <1>2, <1>3, <1>4, <1>5 DEF Threats

\* What a look leaves in the books of a verify or a round.
LEMMA NotedFacts ==
  ASSUME ask \in AskType, NEW t \in Threats, NEW result \in Consult(t),
         NEW noted, noted = Noted(t, result)
  PROVE  /\ noted \in AskType /\ noted.next = ask.next /\ noted.answer = ask.answer
         /\ ask.found \subseteq noted.found /\ ClearedBy(ask) \subseteq ClearedBy(noted)
         /\ result = "found" => t \in noted.found
         /\ result \in Quiet => t \in ClearedBy(noted)
<1> DEFINE clean == subject.running /\ t \notin subject.threats
           f == {s \in {t} : result = "found"}
           c == {s \in {t} : clean /\ result # "failed"}
           m == {s \in {t} : ~clean /\ result = "empty"}
<1>1. noted = [ask EXCEPT !.found = @ \cup f, !.clean = @ \cup c, !.mute = @ \cup m]
  BY DEF Noted
<1>2. f \subseteq Threats /\ c \subseteq Threats /\ m \subseteq Threats
  OBVIOUS
<1>3. result = "found" => t \in f
  OBVIOUS
<1>4. result \in Quiet => t \in c \/ (t \in m /\ t \notin {"vbs", "boot"})
  BY ClearWasLooked DEF Quiet
<1> HIDE DEF f, c, m
<1>5. /\ noted \in AskType /\ noted.next = ask.next /\ noted.answer = ask.answer
      /\ noted.found = ask.found \cup f /\ noted.clean = ask.clean \cup c
      /\ noted.mute = ask.mute \cup m
  BY <1>1, <1>2 DEF AskType
<1> QED BY <1>3, <1>4, <1>5 DEF ClearedBy

\* Each look is for a threat, and the looked-for threats are those of the looks.
LEMMA LookedAt ==
  ASSUME asker \in Layers \cup {"monitor"}
  PROVE  /\ Len(Looks(asker)) \in Nat
         /\ \A i \in 1..Len(Looks(asker)) : Looks(asker)[i] \in Threats
         /\ Looked(asker) = {Looks(asker)[i] : i \in 1..Len(Looks(asker))}
         /\ asker = "memory" => Looks(asker) = <<"vbs", "boot">>
         /\ asker = "hypervisor" => Looked(asker) = {}
<1>1. asker \in {"network", "filesystem", "process", "memory", "hypervisor", "monitor"}
  BY DEF Layers
<1>2. Looked(asker) = {Looks(asker)[i] : i \in 1..Len(Looks(asker))}
  BY DEF Looked
<1>3. CASE asker = "network"
  BY <1>2, <1>3, LooksOf DEF Threats
<1>4. CASE asker = "filesystem"
  BY <1>2, <1>4, LooksOf DEF Threats
<1>5. CASE asker = "process"
  BY <1>2, <1>5, LooksOf DEF Threats
<1>6. CASE asker = "memory"
  BY <1>2, <1>6, LooksOf DEF Threats
<1>7. CASE asker = "hypervisor"
  BY <1>2, <1>7, LooksOf DEF Threats
<1>8. CASE asker = "monitor"
  BY <1>2, <1>8, LooksOf DEF Threats
<1> QED BY <1>1, <1>3, <1>4, <1>5, <1>6, <1>7, <1>8

\* What a layer's look does to a verify: it ends it, or goes on with the look made.
LEMMA LayerLookFacts ==
  ASSUME CheckInv, LayerLook
  PROVE  CheckInv'
<1>1. /\ asker \in Layers /\ Asking /\ asker # "monitor"
      /\ UNCHANGED <<asker, credentials, unavailable>>
  BY DEF LayerLook, Layers
<1> DEFINE t == Looks(asker)[ask.next]
           looks == Len(Looks(asker))
<1>2. PICK result \in Consult(t) :
        LET noted == Noted(t, result) IN
           \/ result = "failed" /\ ask' = Ended(noted, "raised")
           \/ result = "found" /\ asker # "memory" /\ ask' = Ended(noted, "refused")
           \/ /\ result # "failed" /\ ask.next = looks /\ asker = "memory"
              /\ ask' = Ended(noted, IF "vbs" \in noted.found THEN "refused" ELSE "passed")
           \/ /\ result \in Quiet /\ ask.next = looks /\ asker # "memory"
              /\ ask' = Ended(noted, "passed")
           \/ /\ result # "failed" /\ ask.next # looks /\ (result \in Quiet \/ asker = "memory")
              /\ ask' = [noted EXCEPT !.next = @ + 1]
  BY DEF LayerLook
<1> DEFINE noted == Noted(t, result)
<1>3. /\ ask.next \in 1..looks /\ looks \in Nat /\ t \in Threats /\ credentials
      /\ \A i \in 1..looks : Looks(asker)[i] \in Threats
      /\ Looked(asker) = {Looks(asker)[i] : i \in 1..looks}
      /\ asker = "memory" => Looks(asker) = <<"vbs", "boot">> /\ looks = 2
  BY <1>1, LookedAt DEF CheckInv
<1>4. /\ noted \in AskType /\ noted.next = ask.next /\ noted.answer = ask.answer
      /\ ask.found \subseteq noted.found /\ ClearedBy(ask) \subseteq ClearedBy(noted)
      /\ result = "found" => t \in noted.found
      /\ result \in Quiet => t \in ClearedBy(noted)
      /\ result \in {"failed", "found"} \cup Quiet
  BY <1>2, <1>3, NotedFacts, ClearWasLooked DEF CheckInv
<1>a. \/ result = "failed" /\ ask' = Ended(noted, "raised")
      \/ result = "found" /\ asker # "memory" /\ ask' = Ended(noted, "refused")
      \/ /\ result # "failed" /\ ask.next = looks /\ asker = "memory"
         /\ ask' = Ended(noted, IF "vbs" \in noted.found THEN "refused" ELSE "passed")
      \/ /\ result \in Quiet /\ ask.next = looks /\ asker # "memory"
         /\ ask' = Ended(noted, "passed")
      \/ /\ result # "failed" /\ ask.next # looks /\ (result \in Quiet \/ asker = "memory")
         /\ ask' = [noted EXCEPT !.next = @ + 1]
  BY <1>2
<1> HIDE DEF looks, noted
<1>5. ASSUME NEW i \in 1..(ask.next - 1)
      PROVE  Looks(asker)[i] \in ClearedBy(noted)
               \/ (asker = "memory" /\ Looks(asker)[i] \in noted.found)
  BY <1>1, <1>4 DEF CheckInv, Covered
<1>6. result # "failed" /\ (result \in Quiet \/ asker = "memory") =>
        t \in ClearedBy(noted) \/ (asker = "memory" /\ t \in noted.found)
  BY <1>4
<1>7. ASSUME NEW answer \in Answer \ {"round"}, ask' = Ended(noted, answer),
             answer = "passed" => Assures(asker) \subseteq ClearedBy(noted)
      PROVE  CheckInv'
  <2>1. /\ ask' \in AskType /\ ask'.next = 0 /\ ask'.answer = answer
        /\ ClearedBy(ask') = ClearedBy(noted)
    BY <1>4, <1>7 DEF Ended, AskType, ClearedBy
  <2> QED BY <1>1, <1>7, <2>1 DEF CheckInv, Asking, FailedIsNotClear, PassedVerify, Assures, Looked
<1>8. CASE result = "failed" /\ ask' = Ended(noted, "raised")
  BY <1>7, <1>8 DEF Answer
<1>9. CASE result = "found" /\ asker # "memory" /\ ask' = Ended(noted, "refused")
  BY <1>7, <1>9 DEF Answer
<1>10. CASE /\ result # "failed" /\ ask.next = looks /\ asker = "memory"
            /\ ask' = Ended(noted, IF "vbs" \in noted.found THEN "refused" ELSE "passed")
  <2>1. "vbs" \in ClearedBy(noted) \/ "vbs" \in noted.found
    BY <1>3, <1>5, <1>10
  <2>2. Assures(asker) \subseteq {"vbs"}
    BY <1>3, <1>10 DEF Assures
  <2> QED BY <1>7, <1>10, <2>1, <2>2 DEF Answer
<1>11. CASE /\ result \in Quiet /\ ask.next = looks /\ asker # "memory"
            /\ ask' = Ended(noted, "passed")
  <2>1. \A i \in 1..looks : Looks(asker)[i] \in ClearedBy(noted)
    BY <1>3, <1>4, <1>5, <1>11
  <2>2. Assures(asker) \subseteq ClearedBy(noted)
    BY <1>3, <2>1 DEF Assures
  <2> QED BY <1>7, <1>11, <2>2 DEF Answer
<1>12. CASE /\ result # "failed" /\ ask.next # looks /\ (result \in Quiet \/ asker = "memory")
            /\ ask' = [noted EXCEPT !.next = @ + 1]
  <2>1. /\ ask' \in AskType /\ ask'.next = ask.next + 1 /\ ask'.answer = "none"
        /\ ask'.found = noted.found /\ ClearedBy(ask') = ClearedBy(noted)
    <3>1. noted.answer = "none" /\ noted.next + 1 \in Nat
      BY <1>1, <1>4 DEF CheckInv, AskType
    <3> QED BY <1>4, <1>12, <3>1 DEF AskType, ClearedBy
  <2>2. \A i \in 1..ask.next :
          Looks(asker)[i] \in ClearedBy(noted)
            \/ (asker = "memory" /\ Looks(asker)[i] \in noted.found)
    <3>1. \A i \in 1..ask.next : i \in 1..(ask.next - 1) \/ i = ask.next
      BY <1>3
    <3> QED BY <1>5, <1>6, <1>12, <3>1
  <2>3. ask'.next \in 1..looks /\ 1..(ask'.next - 1) = 1..ask.next
    BY <1>3, <1>12, <2>1
  <2> QED BY <1>1, <1>3, <2>1, <2>2, <2>3
          DEF CheckInv, Asking, FailedIsNotClear, PassedVerify, Covered, looks
<1> QED BY <1>a, <1>8, <1>9, <1>10, <1>11, <1>12

\* What a look of the monitor does to its round: its threat is covered, and so are
\* those whose findings the failed check loses.
LEMMA MonitorLookFacts ==
  ASSUME CheckInv, MonitorLook
  PROVE  CheckInv'
<1>1. /\ asker = "monitor" /\ Asking /\ UNCHANGED <<asker, credentials>>
      /\ "monitor" \notin Layers
  BY DEF MonitorLook, Layers
<1> DEFINE t == Looks(asker)[ask.next]
<1>2. PICK result \in Consult(t) :
        LET lost  == IF result = "failed" THEN {s \in Looked(asker) : Capability(s) = Capability(t)}
                     ELSE {}
            noted == [Noted(t, result) EXCEPT !.found = @ \ lost]
            next  == ask.next + (IF t = "vbs" /\ result = "failed" THEN 2 ELSE 1) IN
        /\ ask' = IF next > Len(Looks(asker)) THEN Ended(noted, "round")
                  ELSE [noted EXCEPT !.next = next]
        /\ unavailable' = unavailable \cup (IF result = "failed" THEN {Capability(t)} ELSE {})
  BY DEF MonitorLook
<1> DEFINE lost  == IF result = "failed" THEN {s \in Looked(asker) : Capability(s) = Capability(t)}
                    ELSE {}
           first == Noted(t, result)
           noted == [first EXCEPT !.found = @ \ lost]
           next  == ask.next + (IF t = "vbs" /\ result = "failed" THEN 2 ELSE 1)
           Safe(s) == s \in ClearedBy(noted) \/ s \in noted.found \/ Capability(s) \in unavailable'
<1>3. /\ Looks(asker) = <<"event", "route", "process", "vbs", "boot">>
      /\ Len(Looks(asker)) = 5
      /\ Looked(asker) = {Looks(asker)[i] : i \in 1..5}
      /\ ask.next \in 1..5
  BY <1>1, LooksOf DEF CheckInv, Looked
<1>4. t \in Threats
  BY <1>3 DEF Threats
<1>5. /\ ask' = IF next > 5 THEN Ended(noted, "round") ELSE [noted EXCEPT !.next = next]
      /\ unavailable' = unavailable \cup (IF result = "failed" THEN {Capability(t)} ELSE {})
  BY <1>2, <1>3
<1>6. /\ first \in AskType /\ first.answer = ask.answer
      /\ ask.found \subseteq first.found /\ ClearedBy(ask) \subseteq ClearedBy(first)
      /\ result = "found" => t \in first.found
      /\ result \in Quiet => t \in ClearedBy(first)
      /\ result \in {"failed", "found"} \cup Quiet
  <2> HIDE DEF t
  <2> QED BY <1>4, NotedFacts, ClearWasLooked DEF CheckInv
<1>7. \A s \in lost : Capability(s) \in unavailable'
  BY <1>5
<1>8. result # "failed" => lost = {}
  OBVIOUS
<1>9. next \in Nat /\ next > ask.next /\ next - 1 \leq 5 + 1
  BY <1>3
<1>10. ASSUME NEW i \in 1..(next - 1), i \in 1..5, i > ask.next
       PROVE  Capability(Looks(asker)[i]) \in unavailable'
  <2>1. t = "vbs" /\ result = "failed"
    BY <1>3, <1>10
  <2>2. ask.next = 4 /\ i = 5
    BY <1>3, <1>10, <2>1
  <2>3. Capability(Looks(asker)[i]) = Capability(t)
    BY <1>3, <2>1, <2>2 DEF Capability
  <2> QED BY <1>5, <2>1, <2>3
<1> HIDE DEF lost, first
<1>11. /\ noted \in AskType /\ noted.answer = ask.answer
       /\ noted.found = first.found \ lost /\ ClearedBy(noted) = ClearedBy(first)
  BY <1>6 DEF AskType, ClearedBy
<1> HIDE DEF noted
<1>12. Safe(t)
  <2> HIDE DEF t
  <2>1. CASE result = "failed"
    BY <1>5, <2>1
  <2>2. CASE result # "failed"
    BY <1>6, <1>8, <1>11, <2>2
  <2> QED BY <2>1, <2>2
<1>13. ASSUME NEW s, Covered(s) PROVE Safe(s)
  <2> HIDE DEF t
  <2> QED BY <1>1, <1>5, <1>6, <1>7, <1>11, <1>13 DEF Covered
<1>14. \A i \in 1..(ask.next - 1) : Safe(Looks(asker)[i])
  <2> HIDE DEF Safe
  <2> QED BY <1>1, <1>13 DEF CheckInv
<1>15. ASSUME NEW i \in 1..(next - 1), i \in 1..5 PROVE Safe(Looks(asker)[i])
  <2>1. CASE i < ask.next
    <3> HIDE DEF Safe
    <3> QED BY <1>3, <1>14, <2>1
  <2>2. CASE i = ask.next
    BY <1>12, <2>2
  <2>3. CASE i > ask.next
    BY <1>10, <1>15, <2>3
  <2> QED BY <1>3, <2>1, <2>2, <2>3
<1> HIDE DEF t
<1>16. CASE next > 5
  <2>1. ask' = Ended(noted, "round")
    BY <1>5, <1>16
  <2>2. \A i \in 1..5 : Safe(Looks(asker)[i])
    <3> HIDE DEF Safe
    <3> QED BY <1>9, <1>15, <1>16
  <2>3. \A s \in Looked(asker) : Safe(s)
    <3> HIDE DEF Safe
    <3> QED BY <1>3, <2>2
  <2>4. /\ ask' \in AskType /\ ask'.next = 0 /\ ask'.answer = "round"
        /\ ask'.found = noted.found /\ ClearedBy(ask') = ClearedBy(noted)
    BY <1>11, <2>1 DEF Ended, AskType, ClearedBy, Answer
  <2>5. Looked(asker)' = Looked(asker)
    BY <1>1 DEF Looked
  <2> QED BY <1>1, <2>3, <2>4, <2>5 DEF CheckInv, Asking, FailedIsNotClear, PassedVerify
<1>17. CASE ~(next > 5)
  <2>1. ask' = [noted EXCEPT !.next = next]
    BY <1>5, <1>17
  <2>2. /\ ask' \in AskType /\ ask'.next = next /\ ask'.answer = "none"
        /\ ask'.found = noted.found /\ ClearedBy(ask') = ClearedBy(noted)
    <3>1. noted.answer = "none"
      BY <1>1, <1>11 DEF CheckInv
    <3> HIDE DEF next
    <3> QED BY <1>9, <1>11, <2>1, <3>1 DEF AskType, ClearedBy
  <2>3. ask'.next \in 1..5 /\ \A i \in 1..(ask'.next - 1) : i \in 1..(next - 1) /\ i \in 1..5
    BY <1>3, <1>9, <1>17, <2>2
  <2>4. \A i \in 1..(ask'.next - 1) : Safe(Looks(asker)[i])
    <3> HIDE DEF Safe, next
    <3> QED BY <1>15, <2>3
  <2> QED BY <1>1, <1>3, <2>2, <2>3, <2>4
          DEF CheckInv, Asking, FailedIsNotClear, PassedVerify, Covered
<1> QED BY <1>16, <1>17

\* layers.py:95-105, monitoring.py:207-343: a look that failed never reads as clear,
\* however the guest changes between the looks of one call.
THEOREM FailedIsNotClearHolds == GuestChecksSpec => []FailedIsNotClear
<1>1. GuestChecksInit => CheckInv
  BY DEF GuestChecksInit, CheckInv, NoAsk, Asking, FailedIsNotClear, PassedVerify, ClearedBy, AskType, Answer
<1>2. CheckInv /\ [GuestChecksNext]_guestCheckVars => CheckInv'
  <2> SUFFICES ASSUME CheckInv, [GuestChecksNext]_guestCheckVars PROVE CheckInv'
    OBVIOUS
  <2>1. CASE GiveCredentials
    BY <2>1 DEF GiveCredentials, CheckInv, NoAsk, Asking, FailedIsNotClear, PassedVerify, ClearedBy, AskType, Answer
  <2>2. CASE ActivateLayer
    BY <2>2 DEF ActivateLayer, CheckInv, Asking, Covered, FailedIsNotClear, PassedVerify
  <2>3. CASE DeactivateLayer
    BY <2>3 DEF DeactivateLayer, CheckInv, Asking, Covered, FailedIsNotClear, PassedVerify
  <2>4. CASE Begin
    <3>1. UNCHANGED <<asker, credentials, unavailable>>
      BY <2>4 DEF Begin
    <3>2. CASE credentials /\ Looks(asker) # <<>> /\ ask' = [NoAsk EXCEPT !.next = 1]
      <4>1. Len(Looks(asker)) \in Nat /\ Len(Looks(asker)) > 0
        BY <3>2, LooksOf DEF CheckInv, Layers
      <4> QED BY <3>1, <3>2, <4>1
              DEF CheckInv, NoAsk, Asking, Covered, FailedIsNotClear, PassedVerify, ClearedBy, AskType, Answer
    <3>3. CASE /\ ~credentials /\ asker \in Layers
               /\ ask' = [NoAsk EXCEPT !.answer = IF on THEN "passed" ELSE "refused"]
      BY <3>1, <3>3 DEF CheckInv, NoAsk, Asking, FailedIsNotClear, PassedVerify, ClearedBy, AskType, Answer
    <3>4. CASE /\ credentials /\ Looks(asker) = <<>>
               /\ \E answer \in {"passed", "refused"} : ask' = [NoAsk EXCEPT !.answer = answer]
      <4>1. Looked(asker) = {}
        BY <3>4 DEF Looked
      <4> QED BY <3>1, <3>4, <4>1
              DEF CheckInv, NoAsk, Asking, FailedIsNotClear, PassedVerify, ClearedBy, AskType, Assures, Answer
    <3> QED BY <2>4, <3>2, <3>3, <3>4 DEF Begin
  <2>5. CASE LayerLook
    BY <2>5, LayerLookFacts
  <2>6. CASE MonitorLook
    BY <2>6, MonitorLookFacts
  <2>7. CASE GuestChanges
    BY <2>7 DEF GuestChanges, CheckInv, Asking, Covered, FailedIsNotClear, PassedVerify
  <2>8. CASE UNCHANGED guestCheckVars
    BY <2>8 DEF guestCheckVars, CheckInv, Asking, Covered, FailedIsNotClear, PassedVerify
  <2> QED BY <2>1, <2>2, <2>3, <2>4, <2>5, <2>6, <2>7, <2>8 DEF GuestChecksNext
<1>3. CheckInv => FailedIsNotClear
  BY DEF CheckInv
<1> QED BY <1>1, <1>2, <1>3, PTL DEF GuestChecksSpec

-----------------------------------------------------------------------------
(* Secrets                                                                  *)

Held == {"none", "plain", "cipher"}

UserState == [at : {"off", "ready", "store", "read", "emptied"}, name : Names,
              text : [Names -> Nat], key : Nat, hold : Held]

SecretsTypes ==
  /\ keyring \in [Names -> Nat]
  /\ secretFile \in [whole : BOOLEAN, values : [Names -> Nat]]
  /\ ~secretFile.whole => secretFile.values = NoSecrets
  /\ saved \in [under : Nat, holds : Held]
  /\ user \in [Users -> UserState]
  /\ \A u \in Users : user[u].at # "off" => user[u].key # 0
  /\ generated \in Nat
  /\ harmed \in BOOLEAN

\* no key is in a store or in use: one process at most has generated one
Unborn ==
  /\ keyring["key"] = 0 /\ secretFile.values["key"] = 0
  /\ saved.holds = "none"
  /\ \A u \in Users :
       /\ user[u].hold # "cipher"
       /\ user[u].at = "off" \/ (Generates(u) /\ user[u].hold = "none")
       /\ InFile(u) => user[u].text["key"] = user[u].key
  /\ \A u, o \in Users : Generates(u) /\ Generates(o) => u = o

\* k is the key of all, and either the keyring has it, or the file, whenever it can
\* be parsed, and all that is to be written to the file
Kept(k, inFile) ==
  /\ k # 0 /\ inFile \in {0, k}
  /\ keyring["key"] = IF inFile = 0 THEN k ELSE 0
  /\ secretFile.whole => secretFile.values["key"] = inFile
  /\ saved.holds # "cipher" /\ (saved.holds = "plain" => saved.under = k)
  /\ \A u \in Users :
       /\ ~Generates(u) /\ user[u].hold # "cipher"
       /\ user[u].at # "off" => user[u].key = k
       /\ InFile(u) => user[u].text["key"] = inFile

KeyInv ==
  /\ SecretsTypes
  /\ harmed \/ Unborn \/ \E k \in Nat : \E inFile \in Nat : Kept(k, inFile)

\* An unharmed step from a state in which the key is not born, or is kept, leads to
\* such a state.
LEMMA KeyInvStep ==
  ASSUME SecretsTypes, SecretsTypes', harmed \in BOOLEAN, harmed => harmed',
         KeyInv,
         Unborn /\ ~harmed' => Unborn' \/ \E k \in Nat : \E f \in Nat : Kept(k, f)',
         \A k, f \in Nat : Kept(k, f) /\ ~harmed' => Kept(k, f)'
  PROVE  KeyInv'
<1>1. CASE harmed'
  BY <1>1 DEF KeyInv
<1>2. CASE Unborn /\ ~harmed'
  BY <1>2 DEF KeyInv
<1>3. ASSUME NEW k \in Nat, NEW f \in Nat, Kept(k, f), ~harmed' PROVE KeyInv'
  <2>1. Kept(k, f)'
    BY <1>3
  <2> QED BY <2>1 DEF KeyInv
<1> QED BY <1>1, <1>2, <1>3 DEF KeyInv

LEMMA OpenStoreKeeps ==
  ASSUME NEW u \in Users, KeyInv, OpenStore(u)
  PROVE  KeyInv'
<1>0. /\ SecretsTypes /\ UNCHANGED <<keyring, secretFile, saved>> /\ user[u].at = "off"
      /\ "key" \in Names
      /\ NoSecrets["key"] = 0 /\ NoSecrets \in [Names -> Nat]
  BY DEF OpenStore, KeyInv, Names, NoSecrets
<1>a. keyring["key"] \in Nat /\ secretFile.values["key"] \in Nat /\ generated + 1 \in Nat
      /\ generated + 1 # 0
  BY <1>0 DEF SecretsTypes
<1>1. PICK works \in BOOLEAN :
        LET found == IF works /\ keyring["key"] # 0
                     THEN keyring["key"] ELSE secretFile.values["key"] IN
        \/ /\ found # 0
           /\ user' = [user EXCEPT ![u] = [Off EXCEPT !.at = "ready", !.key = found]]
           /\ UNCHANGED <<generated, harmed>>
        \/ /\ found = 0
           /\ generated < MaxKeys
           /\ generated' = generated + 1
           /\ user' = [user EXCEPT ![u] = [Off EXCEPT !.at = "store", !.key = generated']]
           /\ harmed' = (harmed \/ ~secretFile.whole \/ keyring["key"] # 0
                                \/ (\E o \in Users : Generates(o)))
  BY DEF OpenStore
<1> DEFINE found == IF works /\ keyring["key"] # 0
                    THEN keyring["key"] ELSE secretFile.values["key"]
<1>2. CASE /\ found # 0
           /\ user' = [user EXCEPT ![u] = [Off EXCEPT !.at = "ready", !.key = found]]
           /\ UNCHANGED <<generated, harmed>>
  <2> DEFINE mine == [Off EXCEPT !.at = "ready", !.key = found]
  <2>1. /\ mine \in UserState /\ mine.at = "ready" /\ mine.key = found /\ mine.hold = "none"
    BY <1>0, <1>a, <1>2 DEF Off, UserState, Held
  <2>2. user' = [user EXCEPT ![u] = mine]
    BY <1>2
  <2> HIDE DEF mine
  <2>3. SecretsTypes'
    BY <1>0, <1>2, <2>1, <2>2 DEF SecretsTypes
  <2>4. ~Unborn
    BY <1>2 DEF Unborn
  <2>5. ASSUME NEW k \in Nat, NEW f \in Nat, Kept(k, f) PROVE Kept(k, f)'
    <3>1. found = k
      BY <1>0, <1>2, <2>5 DEF Kept, SecretsTypes
    <3> HIDE DEF found
    <3>2. \A o \in Users : user'[o] = IF o = u THEN mine ELSE user[o]
      BY <1>0, <2>2 DEF SecretsTypes
    <3>3. \A o \in Users : user'[o].at # "off" => user'[o].key = k
      BY <2>1, <2>5, <3>1, <3>2 DEF Kept
    <3>4. ASSUME NEW o \in Users
          PROVE  /\ ~Generates(o)' /\ user'[o].hold # "cipher"
                 /\ InFile(o)' => user'[o].text["key"] = f
      BY <2>1, <2>5, <3>2 DEF Kept, Generates, InFile
    <3> QED BY <1>0, <2>5, <3>3, <3>4 DEF Kept
  <2> QED BY <1>0, <1>2, <2>3, <2>4, <2>5, KeyInvStep DEF SecretsTypes
<1>3. CASE /\ found = 0
           /\ generated' = generated + 1
           /\ user' = [user EXCEPT ![u] = [Off EXCEPT !.at = "store", !.key = generated']]
           /\ harmed' = (harmed \/ ~secretFile.whole \/ keyring["key"] # 0
                                \/ (\E o \in Users : Generates(o)))
  <2> DEFINE mine == [Off EXCEPT !.at = "store", !.key = generated']
  <2>1. /\ mine \in UserState /\ mine.at = "store" /\ mine.key # 0 /\ mine.hold = "none"
    BY <1>0, <1>a, <1>3 DEF Off, UserState, Held
  <2>2. user' = [user EXCEPT ![u] = mine]
    BY <1>3
  <2> HIDE DEF mine
  <2>3. SecretsTypes'
    BY <1>0, <1>a, <1>3, <2>1, <2>2 DEF SecretsTypes
  <2>4. ASSUME Unborn, ~harmed' PROVE Unborn'
    <3>1. \A o \in Users : ~Generates(o)
      BY <1>3, <2>4
    <3>2. \A o \in Users : user[o].at = "off"
      BY <2>4, <3>1 DEF Unborn
    <3> HIDE DEF found
    <3> QED BY <1>0, <2>1, <2>2, <2>4, <3>2 DEF Unborn, Generates, InFile, SecretsTypes
  <2>5. ASSUME NEW k \in Nat, NEW f \in Nat, Kept(k, f), ~harmed' PROVE FALSE
    BY <1>0, <1>3, <2>5 DEF Kept
  <2> QED BY <1>0, <1>3, <2>3, <2>4, <2>5, KeyInvStep DEF SecretsTypes
<1> QED BY <1>1, <1>2, <1>3

\* A store in the keyring brings the key to it, or leaves the key as it is.
LEMMA StoreInKeyringKeeps ==
  ASSUME NEW u \in Users, NEW n \in Names, KeyInv, StoreInKeyring(u, n)
  PROVE  KeyInv'
<1>0. SecretsTypes /\ UNCHANGED <<secretFile, saved, generated, harmed>>
  BY DEF StoreInKeyring, KeyInv
<1>1. /\ user[u].at = (IF n = "key" THEN "store" ELSE "ready")
      /\ keyring' = [keyring EXCEPT ![n] = ValueOf(u, n)]
      /\ user' = [user EXCEPT ![u].at = "ready"]
  BY DEF StoreInKeyring
<1>2. ValueOf(u, n) \in Nat
  BY <1>0 DEF SecretsTypes, UserState, ValueOf
<1>3. SecretsTypes'
  BY <1>0, <1>1, <1>2 DEF SecretsTypes, UserState
<1>4. ASSUME Unborn, NEW k, k = user[u].key PROVE k \in Nat /\ Kept(k, 0)'
  <2>1. user[u].at = "store" /\ n = "key" /\ user[u].key # 0 /\ user[u].key \in Nat
    BY <1>0, <1>1, <1>4 DEF Unborn, Generates, InFile, SecretsTypes, UserState
  <2>2. keyring'["key"] = user[u].key
    BY <1>0, <1>1, <2>1 DEF SecretsTypes, ValueOf
  <2>3. \A o \in Users \ {u} : user[o].at = "off" /\ user[o].hold # "cipher"
    BY <1>4, <2>1 DEF Unborn, Generates
  <2>4. user[u].hold # "cipher"
    BY <1>4 DEF Unborn
  <2> QED BY <1>0, <1>1, <1>4, <2>1, <2>2, <2>3, <2>4
          DEF Unborn, Kept, Generates, InFile, SecretsTypes, UserState
<1>5. ASSUME NEW k \in Nat, NEW f \in Nat, Kept(k, f) PROVE Kept(k, f)'
  <2>1. n = "password" /\ user[u].at = "ready"
    BY <1>1, <1>5 DEF Kept, Generates, Names
  <2> QED BY <1>0, <1>1, <1>5, <2>1 DEF Kept, Generates, InFile, SecretsTypes, UserState
<1>6. Unborn => \E k \in Nat : \E f \in Nat : Kept(k, f)'
  BY <1>4
<1> QED BY <1>0, <1>3, <1>5, <1>6, KeyInvStep DEF SecretsTypes

\* A process that rewrites the file rewrites the key that it has.
LEMMA RewritesKeeps ==
  ASSUME NEW u \in Users, NEW n \in Names, NEW value \in Nat, KeyInv,
         Rewrites(u, n, value), user[u].at = (IF n = "key" THEN "store" ELSE "ready"),
         n = "key" => value = user[u].key,
         UNCHANGED <<keyring, secretFile, saved, generated>>,
         harmed' \in BOOLEAN, harmed => harmed', ~secretFile.whole => harmed'
  PROVE  KeyInv'
<1>0. SecretsTypes /\ user[u] \in UserState
  BY DEF KeyInv, SecretsTypes
<1> DEFINE text == [secretFile.values EXCEPT ![n] = value]
           mine == [user[u] EXCEPT !.at = "read", !.name = n, !.text = text]
<1>1. text \in [Names -> Nat] /\ text[n] = value /\ (n # "key" => text["key"] = secretFile.values["key"])
  BY <1>0 DEF SecretsTypes, Names
<1>2. user' = [user EXCEPT ![u] = mine]
  BY <1>0 DEF Rewrites, SecretsTypes
<1> HIDE DEF text
<1>3. /\ mine \in UserState /\ mine.at = "read" /\ mine.name = n /\ mine.text = text
      /\ mine.key = user[u].key /\ mine.hold = user[u].hold
  BY <1>0, <1>1 DEF UserState
<1> HIDE DEF mine
<1>4. SecretsTypes'
  BY <1>0, <1>2, <1>3 DEF SecretsTypes
<1>5. ASSUME Unborn, ~harmed' PROVE Unborn'
  <2>1. n = "key" /\ Generates(u)
    BY <1>5 DEF Unborn, Generates, InFile
  <2> QED BY <1>0, <1>1, <1>2, <1>3, <1>5, <2>1 DEF Unborn, Generates, InFile, SecretsTypes
<1>6. ASSUME NEW k \in Nat, NEW f \in Nat, Kept(k, f), ~harmed' PROVE Kept(k, f)'
  <2>1. n # "key"
    BY <1>6 DEF Kept, Generates
  <2>2. text["key"] = f
    BY <1>1, <1>6, <2>1 DEF Kept
  <2> QED BY <1>0, <1>2, <1>3, <1>6, <2>1, <2>2 DEF Kept, Generates, InFile, SecretsTypes
<1> QED BY <1>0, <1>4, <1>5, <1>6, KeyInvStep DEF SecretsTypes

\* The file that is emptied loses what it had, which the process has in mind.
LEMMA FileStoreEmptiesKeeps ==
  ASSUME NEW u \in Users, KeyInv, FileStoreEmpties(u)
  PROVE  KeyInv'
<1>0. SecretsTypes /\ UNCHANGED <<keyring, saved, generated, harmed>>
  BY DEF FileStoreEmpties, KeyInv
<1>1. /\ user[u].at = "read" /\ user' = [user EXCEPT ![u].at = "emptied"]
      /\ secretFile'.whole = FALSE /\ secretFile'.values = NoSecrets
      /\ secretFile' \in [whole : BOOLEAN, values : [Names -> Nat]]
      /\ secretFile'.values["key"] = 0
  BY DEF FileStoreEmpties, Torn, NoSecrets, Names
<1>2. SecretsTypes'
  <2>1. user' \in [Users -> UserState]
    BY <1>0, <1>1 DEF SecretsTypes, UserState
  <2>2. \A o \in Users : user'[o].at # "off" => user'[o].key # 0
    BY <1>0, <1>1 DEF SecretsTypes, UserState
  <2> QED BY <1>0, <1>1, <2>1, <2>2 DEF SecretsTypes
<1>3. ASSUME Unborn PROVE Unborn'
  BY <1>0, <1>1, <1>3 DEF Unborn, Generates, InFile, SecretsTypes, UserState
<1>4. ASSUME NEW k \in Nat, NEW f \in Nat, Kept(k, f) PROVE Kept(k, f)'
  BY <1>0, <1>1, <1>4 DEF Kept, Generates, InFile, SecretsTypes, UserState
<1> QED BY <1>0, <1>2, <1>3, <1>4, KeyInvStep DEF SecretsTypes

\* The file that is written has the key, or cannot be parsed.
LEMMA FileStoreWritesKeeps ==
  ASSUME NEW u \in Users, KeyInv, FileStoreWrites(u)
  PROVE  KeyInv'
<1>0. SecretsTypes /\ UNCHANGED <<keyring, saved, generated, harmed>> /\ user[u] \in UserState
  BY DEF FileStoreWrites, KeyInv, SecretsTypes
<1>1. user[u].at = "emptied" /\ user' = [user EXCEPT ![u].at = "ready", ![u].text = NoSecrets]
  BY DEF FileStoreWrites
<1>2. /\ secretFile' \in [whole : BOOLEAN, values : [Names -> Nat]]
      /\ ~secretFile'.whole => secretFile'.values = NoSecrets
      /\ secretFile'.whole => secretFile'.values["key"] = user[u].text["key"]
  <2>1. CASE secretFile' = [whole |-> TRUE, values |-> user[u].text]
    BY <1>0, <2>1 DEF UserState
  <2>2. CASE secretFile' = Torn
    BY <2>2 DEF Torn, NoSecrets, Names
  <2> QED BY <2>1, <2>2 DEF FileStoreWrites
<1> DEFINE mine == [user[u] EXCEPT !.at = "ready", !.text = NoSecrets]
<1>3. user' = [user EXCEPT ![u] = mine]
  BY <1>0, <1>1 DEF SecretsTypes
<1>4. /\ mine \in UserState /\ mine.at = "ready" /\ mine.key = user[u].key
      /\ mine.hold = user[u].hold
  BY <1>0 DEF UserState, NoSecrets, Names
<1> HIDE DEF mine
<1>5. SecretsTypes'
  <2>1. user[u].key # 0
    BY <1>0, <1>1 DEF SecretsTypes
  <2>2. user' \in [Users -> UserState]
    BY <1>0, <1>3, <1>4 DEF SecretsTypes
  <2>3. \A o \in Users : user'[o].at # "off" => user'[o].key # 0
    BY <1>0, <1>3, <1>4, <2>1 DEF SecretsTypes
  <2> QED BY <1>0, <1>2, <2>2, <2>3 DEF SecretsTypes
<1>6. ASSUME Unborn, NEW k, k = user[u].key PROVE k \in Nat /\ Kept(k, k)'
  <2>1. /\ Generates(u) /\ user[u].hold = "none" /\ user[u].text["key"] = user[u].key
        /\ user[u].key # 0 /\ user[u].key \in Nat
    BY <1>0, <1>1, <1>6 DEF Unborn, InFile, SecretsTypes, UserState
  <2>2. \A o \in Users \ {u} : user[o].at = "off" /\ user[o].hold # "cipher"
    BY <1>6, <2>1 DEF Unborn
  <2> QED BY <1>0, <1>2, <1>3, <1>4, <1>6, <2>1, <2>2
          DEF Unborn, Kept, Generates, InFile, SecretsTypes
<1>7. ASSUME NEW k \in Nat, NEW f \in Nat, Kept(k, f) PROVE Kept(k, f)'
  <2>1. user[u].text["key"] = f
    BY <1>1, <1>7 DEF Kept, InFile
  <2> QED BY <1>0, <1>1, <1>2, <1>3, <1>4, <1>7, <2>1
          DEF Kept, Generates, InFile, SecretsTypes
<1>8. Unborn => \E k \in Nat : \E f \in Nat : Kept(k, f)'
  BY <1>6
<1> QED BY <1>0, <1>5, <1>7, <1>8, KeyInvStep DEF SecretsTypes

\* state.py:43-51, 134-174 and secrets.py:55-116: as long as the key is not lost in
\* one of the four ways, every process that loads the signing key has it in plain,
\* for any number of processes and keys.
THEOREM SigningKeysSurviveHolds == SecretsSpec => []SigningKeysSurvive
<1>1. SecretsInit => KeyInv
  <2>1. NoSecrets \in [Names -> Nat] /\ NoSecrets["key"] = 0
    BY DEF NoSecrets, Names
  <2>2. Off \in UserState /\ Off.at = "off" /\ Off.hold = "none"
    BY <2>1 DEF Off, UserState, Held, Names
  <2>3. SecretsInit => SecretsTypes
    <3> SUFFICES ASSUME SecretsInit PROVE SecretsTypes
      OBVIOUS
    <3>1. secretFile.whole = TRUE /\ secretFile \in [whole : BOOLEAN, values : [Names -> Nat]]
      BY <2>1 DEF SecretsInit
    <3>2. saved \in [under : Nat, holds : Held]
      BY DEF SecretsInit, Held
    <3>3. user \in [Users -> UserState] /\ \A u \in Users : user[u].at = "off"
      BY <2>2 DEF SecretsInit
    <3> QED BY <2>1, <3>1, <3>2, <3>3 DEF SecretsInit, SecretsTypes
  <2>4. SecretsInit => Unborn
    BY <2>1, <2>2 DEF SecretsInit, Unborn, Generates, InFile
  <2> QED BY <2>3, <2>4 DEF KeyInv
<1>2. KeyInv /\ [SecretsNext]_secretVars => KeyInv'
  <2> SUFFICES ASSUME KeyInv, [SecretsNext]_secretVars PROVE KeyInv'
    OBVIOUS
  <2>0. SecretsTypes
    BY DEF KeyInv
  <2>1. ASSUME NEW u \in Users, OpenStore(u) PROVE KeyInv'
    BY <2>1, OpenStoreKeeps
  <2>2. ASSUME NEW u \in Users, NEW n \in Names, StoreInKeyring(u, n) PROVE KeyInv'
    BY <2>2, StoreInKeyringKeeps
  <2>3. ASSUME NEW u \in Users, NEW n \in Names, FileStoreReads(u, n) PROVE KeyInv'
    <3>1. ValueOf(u, n) \in Nat /\ (n = "key" => ValueOf(u, n) = user[u].key)
      BY <2>0 DEF SecretsTypes, UserState, ValueOf
    <3>2. /\ Rewrites(u, n, ValueOf(u, n)) /\ user[u].at = (IF n = "key" THEN "store" ELSE "ready")
          /\ harmed' = (harmed \/ ~secretFile.whole)
          /\ UNCHANGED <<keyring, secretFile, saved, generated>>
      BY <2>3 DEF FileStoreReads
    <3> QED BY <2>0, <3>1, <3>2, RewritesKeeps DEF SecretsTypes
  <2>4. ASSUME NEW u \in Users, FileStoreEmpties(u) PROVE KeyInv'
    BY <2>4, FileStoreEmptiesKeeps
  <2>5. ASSUME NEW u \in Users, FileStoreWrites(u) PROVE KeyInv'
    BY <2>5, FileStoreWritesKeeps
  <2>6. ASSUME NEW u \in Users, NEW n \in Names, DeleteSecret(u, n) PROVE KeyInv'
    <3>1. /\ user[u].at = "ready" /\ harmed' = (harmed \/ n = "key")
          /\ UNCHANGED <<secretFile, saved, generated>>
      BY <2>6 DEF DeleteSecret
    <3>2. CASE keyring' = [keyring EXCEPT ![n] = 0] /\ UNCHANGED user
      <4>1. SecretsTypes'
        BY <2>0, <3>1, <3>2 DEF SecretsTypes
      <4>2. ASSUME ~harmed' PROVE keyring'["key"] = keyring["key"]
        BY <2>0, <3>1, <3>2, <4>2 DEF SecretsTypes, Names
      <4>3. ASSUME Unborn, ~harmed' PROVE Unborn'
        BY <3>1, <3>2, <4>2, <4>3 DEF Unborn, Generates, InFile
      <4>4. ASSUME NEW k \in Nat, NEW f \in Nat, Kept(k, f), ~harmed' PROVE Kept(k, f)'
        BY <3>1, <3>2, <4>2, <4>4 DEF Kept, Generates, InFile
      <4> QED BY <2>0, <3>1, <4>1, <4>3, <4>4, KeyInvStep DEF SecretsTypes
    <3>3. CASE secretFile.values[n] # 0 /\ Rewrites(u, n, 0) /\ UNCHANGED keyring
      <4>1. secretFile.whole
        BY <2>0, <3>3 DEF SecretsTypes, NoSecrets
      <4>2. CASE n = "key"
        <5>1. SecretsTypes'
          <6>1. [secretFile.values EXCEPT ![n] = 0] \in [Names -> Nat]
            BY <2>0 DEF SecretsTypes
          <6> DEFINE text == [secretFile.values EXCEPT ![n] = 0]
                     mine == [user[u] EXCEPT !.at = "read", !.name = n, !.text = text]
          <6>2. user' = [user EXCEPT ![u] = mine]
            BY <2>0, <3>3 DEF SecretsTypes, Rewrites
          <6> HIDE DEF text
          <6>3. mine \in UserState /\ mine.key = user[u].key
            <7>1. user[u] \in UserState
              BY <2>0 DEF SecretsTypes
            <7>2. text \in [Names -> Nat]
              BY <6>1 DEF text
            <7> QED BY <7>1, <7>2 DEF UserState
          <6> HIDE DEF mine
          <6> QED BY <2>0, <3>1, <3>3, <6>2, <6>3 DEF SecretsTypes
        <5> QED BY <3>1, <4>2, <5>1 DEF KeyInv
      <4>3. CASE n # "key"
        BY <2>0, <3>1, <3>3, <4>1, <4>3, RewritesKeeps DEF SecretsTypes
      <4> QED BY <4>2, <4>3
    <3> QED BY <2>6, <3>2, <3>3 DEF DeleteSecret
  <2>7. ASSUME NEW u \in Users, SaveRow(u) PROVE KeyInv'
    <3> DEFINE hold == IF user[u].hold = "none" THEN "plain" ELSE user[u].hold
    <3>1. /\ user[u].at = "ready" /\ saved' = [under |-> user[u].key, holds |-> hold]
          /\ user' = [user EXCEPT ![u].hold = hold]
          /\ UNCHANGED <<keyring, secretFile, generated, harmed>>
      BY <2>7 DEF SaveRow
    <3>2. SecretsTypes'
      BY <2>0, <3>1 DEF SecretsTypes, UserState, Held
    <3>3. ~Unborn
      BY <3>1 DEF Unborn, Generates, InFile
    <3>4. ASSUME NEW k \in Nat, NEW f \in Nat, Kept(k, f) PROVE Kept(k, f)'
      BY <2>0, <3>1, <3>4 DEF Kept, Generates, InFile, SecretsTypes, UserState, Held
    <3> QED BY <2>0, <3>1, <3>2, <3>3, <3>4, KeyInvStep DEF SecretsTypes
  <2>8. ASSUME NEW u \in Users, LoadRow(u) PROVE KeyInv'
    <3> DEFINE hold == IF saved.under = user[u].key THEN saved.holds ELSE "cipher"
    <3>1. /\ user[u].at = "ready" /\ saved.holds # "none"
          /\ user' = [user EXCEPT ![u].hold = hold]
          /\ UNCHANGED <<keyring, secretFile, saved, generated, harmed>>
      BY <2>8 DEF LoadRow
    <3>2. SecretsTypes'
      BY <2>0, <3>1 DEF SecretsTypes, UserState, Held
    <3>3. ~Unborn
      BY <3>1 DEF Unborn
    <3>4. ASSUME NEW k \in Nat, NEW f \in Nat, Kept(k, f) PROVE Kept(k, f)'
      BY <2>0, <3>1, <3>4 DEF Kept, Generates, InFile, SecretsTypes, UserState, Held
    <3> QED BY <2>0, <3>1, <3>2, <3>3, <3>4, KeyInvStep DEF SecretsTypes
  <2>9. ASSUME NEW u \in Users, EndUser(u) PROVE KeyInv'
    <3>1. user' = [user EXCEPT ![u] = Off] /\ UNCHANGED <<keyring, secretFile, saved, generated, harmed>>
      BY <2>9 DEF EndUser
    <3>2. Off \in UserState /\ Off.at = "off" /\ Off.hold = "none"
      BY DEF Off, UserState, Held, NoSecrets, Names
    <3>3. SecretsTypes'
      BY <2>0, <3>1, <3>2 DEF SecretsTypes
    <3>4. ASSUME Unborn PROVE Unborn'
      BY <2>0, <3>1, <3>2, <3>4 DEF Unborn, Generates, InFile, SecretsTypes
    <3>5. ASSUME NEW k \in Nat, NEW f \in Nat, Kept(k, f) PROVE Kept(k, f)'
      BY <2>0, <3>1, <3>2, <3>5 DEF Kept, Generates, InFile, SecretsTypes
    <3> QED BY <2>0, <3>1, <3>3, <3>4, <3>5, KeyInvStep DEF SecretsTypes
  <2>10. CASE UNCHANGED secretVars
    BY <2>10 DEF secretVars, KeyInv, SecretsTypes, Unborn, Kept, Generates, InFile
  <2> QED
    BY <2>1, <2>2, <2>3, <2>4, <2>5, <2>6, <2>7, <2>8, <2>9, <2>10 DEF SecretsNext
<1>3. KeyInv => SigningKeysSurvive
  BY DEF KeyInv, SigningKeysSurvive, Unborn, Kept
<1> QED BY <1>1, <1>2, <1>3, PTL DEF SecretsSpec
=============================================================================
