------------------------------- MODULE Phone -------------------------------
(***************************************************************************)
(* lumenos_sandbox/phone_support.py: the VMs of one PhoneSupport on one    *)
(* device.  With KVM and QEMU a VM is a process that start_vm itself waits *)
(* for, 10 seconds at most; with Hyper-V and WHP it is made and started by *)
(* the host service, and start_vm waits for the PowerShell that asks it.   *)
(***************************************************************************)
EXTENDS Guests

VARIABLES
  hypervisor,       \* the hypervisor the device has
  detected,         \* the one in _capabilities, or "undetected"
  known,            \* the names in _vms
  vm,               \* vm[v]: "none", "made" or "running" on the device
  starting,         \* the names whose start_vm has not returned
  answered          \* answered[v]: what the last start_vm of v returned, or "none"

phoneVars == <<hypervisor, detected, known, vm, starting, answered>>

Platforms == {"windows", "linux", "android", "ios"}

\* _detect_hypervisor: on Windows a query that fails counts as no Hyper-V
Hypervisors(platform) ==
  CASE platform = "windows" -> {"hyper_v", "whp"}
    [] platform = "linux"   -> {"kvm", "qemu"}
    [] platform = "android" -> {"qemu", "none"}
    [] platform = "ios"     -> {"none"}

PhoneInit ==
  /\ hypervisor \in UNION {Hypervisors(p) : p \in Platforms}
  /\ detected = "undetected"
  /\ known = {}
  /\ vm = [v \in Vms |-> "none"]
  /\ starting = {}
  /\ answered = [v \in Vms |-> "none"]

OnHost    == hypervisor \in {"hyper_v", "whp"}
AsProcess == hypervisor \in {"kvm", "qemu"}

DetectCapabilities ==
  /\ detected' = hypervisor
  /\ UNCHANGED <<hypervisor, known, vm, starting, answered>>

\* create_config and start_vm detect first if nothing was detected
CreateConfig(v) ==
  /\ detected' = hypervisor
  /\ known' = known \cup {v}
  /\ UNCHANGED <<hypervisor, vm, starting, answered>>

Returns(v, answer) == answered' = [answered EXCEPT ![v] = answer]

\* no hypervisor, or no disk for the VM: qemu-img does not take the image of a
\* process that runs
StartIsRefused(v) ==
  /\ v \notin starting /\ ~OnHost
  /\ detected' = hypervisor
  /\ Returns(v, "false")
  /\ UNCHANGED <<hypervisor, known, vm, starting>>

\* the process of the VM, in the foreground of the call
StartProcess(v) ==
  /\ v \notin starting /\ AsProcess /\ vm[v] = "none"
  /\ detected' = hypervisor
  /\ vm' = [vm EXCEPT ![v] = "running"]
  /\ starting' = starting \cup {v}
  /\ UNCHANGED <<hypervisor, known, answered>>

\* it ends within the 10 seconds: the guest shut down, or QEMU gave up
ProcessEnds(v) ==
  /\ v \in starting /\ AsProcess
  /\ vm' = [vm EXCEPT ![v] = "none"]
  /\ starting' = starting \ {v}
  /\ \E answer \in {"true", "false"} : Returns(v, answer)
  /\ UNCHANGED <<hypervisor, detected, known>>

\* a bug to catch: the call gives up and leaves the process
TimeoutLeavesProcess(v) ==
  /\ v \in starting /\ AsProcess /\ vm[v] = "running"
  /\ starting' = starting \ {v}
  /\ Returns(v, "false")
  /\ UNCHANGED <<hypervisor, detected, known, vm>>

\* or it does not: subprocess.run kills it, and start_vm answers False
ProcessTimesOut(v) ==
  /\ v \in starting /\ AsProcess /\ vm[v] = "running"
  /\ vm' = [vm EXCEPT ![v] = "none"]
  /\ starting' = starting \ {v}
  /\ Returns(v, "false")
  /\ UNCHANGED <<hypervisor, detected, known>>

\* New-VM, Set-VM and Start-VM go on after one that failed, and the answer is that
\* of the last; after 30 seconds it is False, and the VM may be there
StartOnHost(v) ==
  /\ v \notin starting /\ OnHost
  /\ detected' = hypervisor
  /\ \/ /\ vm' = [vm EXCEPT ![v] = "running"]
        /\ \E answer \in {"true", "false"} : Returns(v, answer)
     \/ /\ \E new \in {"none", "made"} : vm' = [vm EXCEPT ![v] = IF @ = "none" THEN new ELSE @]
        /\ Returns(v, "false")
  /\ UNCHANGED <<hypervisor, known, starting>>

\* pkill -f ends each process with the name in its command line, those of longer
\* names too, and the start_vm that waits for it returns: True if QEMU exits with 0
Pkill ==
  \E killed \in SUBSET starting : \E exit \in [killed -> {"true", "false"}] :
    /\ vm' = [w \in Vms |-> IF w \in killed THEN "none" ELSE vm[w]]
    /\ starting' = starting \ killed
    /\ answered' = [w \in Vms |-> IF w \in killed THEN exit[w] ELSE answered[w]]

\* nobody looks at whether it ended any
StopVm(v) ==
  /\ v \in known /\ detected \in {"kvm", "qemu"}
  /\ Pkill
  /\ UNCHANGED <<hypervisor, detected, known>>

\* the host, or the guest, stops a VM of the host service
HostStopsVm(v) ==
  /\ OnHost /\ vm[v] = "running"
  /\ vm' = [vm EXCEPT ![v] = "made"]
  /\ Returns(v, "none")
  /\ UNCHANGED <<hypervisor, detected, known, starting>>

PhoneNext ==
  \/ DetectCapabilities
  \/ \E v \in Vms :
       \/ CreateConfig(v) \/ StartIsRefused(v) \/ StartProcess(v) \/ ProcessEnds(v)
       \/ ProcessTimesOut(v) \/ StartOnHost(v) \/ StopVm(v) \/ HostStopsVm(v)

PhoneSpec == PhoneInit /\ [][PhoneNext]_phoneVars

-----------------------------------------------------------------------------
(* What phone_support.py owes whoever starts a VM on a device.              *)

\* What start_vm returned tells the device. Where a VM is a process, none runs
\* whose start_vm has returned, after the timeout and after a stop that killed
\* others than it meant as well: the books that forget a failed start leave no
\* guest at work. Where the host service has the VM, True means that it was
\* started (and not just made); False there may leave one, which no stop_vm ends
\* (phone_support.py:198-207).
StartTellsTheDevice ==
  \A v \in Vms :
    /\ AsProcess /\ vm[v] = "running" => v \in starting
    /\ OnHost /\ answered[v] = "true" => vm[v] = "running"
=============================================================================
