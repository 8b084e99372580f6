---------------------------- MODULE Passthrough ----------------------------
(***************************************************************************)
(* lumenos_sandbox/gpu.py: one GPUPassthrough, its books on the host's     *)
(* GPUs and the VMs they are assigned to, and where each GPU really is.    *)
(* device.assigned_vm is left out: only a summary shows it.                *)
(***************************************************************************)
EXTENDS Guests

CONSTANTS
  Devices,
  NoDevice,
  Host,         \* where a GPU is that the host uses
  Disabled,     \* at the host, switched off by Disable-PnpDevice
  Dismounted,   \* taken from the host and with no VM
  TimesOut      \* a call that comes to its end may be taken for failed, because
                \* it was not back within 30 seconds

NoVmHas == {Host, Disabled, Dismounted}

ASSUME PassthroughAssumption ==
  /\ NoDevice \notin Devices
  /\ Host # Disabled /\ Host # Dismounted /\ Disabled # Dismounted
  /\ NoVmHas \cap Vms = {}
  /\ TimesOut \in BOOLEAN

VARIABLES
  device,       \* device[d]: "unknown", or the available flag of _devices[d]
  assigned,     \* assigned[v]: _assignments[v], or NoDevice
  place         \* place[d]: the VM that has the GPU, or one of NoVmHas

gpuVars == <<device, assigned, place>>

GpuInit ==
  /\ device = [d \in Devices |-> "unknown"]
  /\ assigned = [v \in Vms |-> NoDevice]
  /\ place = [d \in Devices |-> Host]

\* the host lists the GPUs that are mounted, in use or not
Listed == {d \in Devices : place[d] \in {Host, Disabled}}

\* the records are dropped first, and the listing may fail or break off
DetectGpus ==
  /\ \E seen \in SUBSET Listed :
       device' = [d \in Devices |-> IF d \in seen THEN "available" ELSE "unknown"]
  /\ UNCHANGED <<assigned, place>>

CanAssign(d, v) == device[d] = "available" /\ assigned[v] = NoDevice

\* taken from the host, then given to the VM
Assign(d, v) ==
  /\ CanAssign(d, v) /\ place[d] \in NoVmHas
  /\ place' = [place EXCEPT ![d] = v]
  /\ device' = [device EXCEPT ![d] = "assigned"]
  /\ assigned' = [assigned EXCEPT ![v] = d]

\* the second step fails, before or after its own dismount: nothing is undone
AssignFails(d, v) ==
  /\ CanAssign(d, v)
  /\ place[d] \in NoVmHas
  /\ \E p \in {Disabled, Dismounted, v} :
       /\ p = v => TimesOut
       /\ place' = [place EXCEPT ![d] = p]
  /\ UNCHANGED <<device, assigned>>

CanRelease(v) == assigned[v] # NoDevice /\ device[assigned[v]] # "unknown"

\* taken from the VM, unless an earlier attempt did that, and mounted again;
\* whether it can be enabled is not looked at
Release(v) ==
  /\ CanRelease(v) /\ place[assigned[v]] \in {v, Dismounted}
  /\ place' \in {[place EXCEPT ![assigned[v]] = p] : p \in {Host, Disabled}}
  /\ device' = [device EXCEPT ![assigned[v]] = "available"]
  /\ assigned' = [assigned EXCEPT ![v] = NoDevice]

\* a bug to catch: the assignment is dropped although the release failed
ReleaseFailsAndForgets(v) ==
  /\ CanRelease(v) /\ place[assigned[v]] = v
  /\ assigned' = [assigned EXCEPT ![v] = NoDevice]
  /\ UNCHANGED <<device, place>>

\* the VM gives it up and the host does not mount it, or not in time: the
\* answer is False, and nothing is enabled
ReleaseFails(v) ==
  /\ CanRelease(v) /\ place[assigned[v]] = v
  /\ \E p \in {Dismounted, Disabled} :
       /\ p = Disabled => TimesOut
       /\ place' = [place EXCEPT ![assigned[v]] = p]
  /\ UNCHANGED <<device, assigned>>

GpuNext ==
  \/ DetectGpus
  \/ \E v \in Vms :
       \/ Release(v) \/ ReleaseFails(v)
       \/ \E d \in Devices : Assign(d, v) \/ AssignFails(d, v)

GpuSpec == GpuInit /\ [][GpuNext]_gpuVars

-----------------------------------------------------------------------------
(* What gpu.py owes its callers.                                            *)

\* The books and the devices tell the same story through failed steps and
\* detections that drop every record: a VM that has a GPU is booked for it and
\* for no other; a booked GPU is with its VM, or on its way back after a
\* release that failed half way; no GPU is booked twice; and a booked GPU is
\* never offered (list_available, gpu.py:143).  It needs calls that are back in
\* time: one that is killed after 30 seconds counts as failed although it may
\* have come about (gpu.py:211-217, 228-232), and then a VM has a GPU it is not
\* booked for, or a booked GPU is back at the host and offered again.
GpusAreBooked ==
  /\ \A d \in Devices, v \in Vms : place[d] = v => assigned[v] = d
  /\ \A v \in Vms : assigned[v] # NoDevice =>
       /\ place[assigned[v]] \in {v, Dismounted}
       /\ device[assigned[v]] # "available"
       /\ \A w \in Vms : assigned[w] = assigned[v] => w = v
=============================================================================
