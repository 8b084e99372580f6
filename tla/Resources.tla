----------------------------- MODULE Resources -----------------------------
(***************************************************************************)
(* lumenos_sandbox/resource_manager.py: one ResourceManager, its books on  *)
(* the memory and the GPUs of every VM and the host's free GPUs.  CPUs and *)
(* disks are constants of the profile; the flags of idle VMs and the       *)
(* loading plan decide nothing here.                                       *)
(***************************************************************************)
EXTENDS Guests, Integers, FiniteSets

CONSTANTS
  Profiles,     \* the profiles and their memory in MB: PROFILE_SPECS
  Usages,       \* what a VM may be using, in MB
  MaxGpus,      \* the most GPUs a host has, and bound: of a count in a call
  Negative,     \* bound: how far below zero a count in a call is
  MaxFree       \* bound: free GPUs in the books

ASSUME ResourcesAssumption ==
  /\ Profiles \subseteq Nat \ {0} /\ Usages \subseteq Nat
  /\ MaxGpus \in Nat /\ Negative \in Nat /\ MaxFree \in Nat

VARIABLES
  alloc,        \* alloc[v]: _allocations[v], or NoAlloc
  freeGpus      \* available_gpu_count of _host; the total decides nothing

resourceVars == <<alloc, freeGpus>>

NoAlloc == [base |-> 0, mem |-> 0, gpus |-> 0]

Allocated == {v \in Vms : alloc[v] # NoAlloc}

GpusOf(v) == alloc[v].gpus

ResourcesInit ==
  /\ alloc = [v \in Vms |-> NoAlloc]
  /\ freeGpus = 0

\* a count in a call; that it is not negative is looked at nowhere
Counts == (-Negative)..MaxGpus

\* all GPUs found are free, whoever has them; a failed detection finds none
Detect ==
  /\ freeGpus' \in 0..MaxGpus
  /\ UNCHANGED alloc

\* gpu_count is noted and not taken from the free ones
Allocate(v, base, n) ==
  /\ v \notin Allocated
  /\ alloc' = [alloc EXCEPT ![v] = [base |-> base, mem |-> base, gpus |-> n]]
  /\ UNCHANGED freeGpus

\* the GPUs of the VM are not given back
Deallocate(v) ==
  /\ v \in Allocated
  /\ alloc' = [alloc EXCEPT ![v] = NoAlloc]
  /\ UNCHANGED freeGpus

\* the count replaces the one the VM had, which is not given back
AllocateGpu(v, n) ==
  /\ v \in Allocated
  /\ n <= freeGpus /\ freeGpus - n <= MaxFree
  /\ alloc' = [alloc EXCEPT ![v].gpus = n]
  /\ freeGpus' = freeGpus - n

\* a bug to catch: the VM keeps its count and can release it again
ReleaseGpuAgain(v) ==
  /\ v \in Allocated /\ GpusOf(v) > 0 /\ freeGpus + GpusOf(v) <= MaxFree
  /\ freeGpus' = freeGpus + GpusOf(v)
  /\ UNCHANGED alloc

ReleaseGpu(v) ==
  /\ v \in Allocated /\ GpusOf(v) > 0 /\ freeGpus + GpusOf(v) <= MaxFree
  /\ freeGpus' = freeGpus + GpusOf(v)
  /\ alloc' = [alloc EXCEPT ![v].gpus = 0]

-----------------------------------------------------------------------------
(* calculate_dynamic_memory: 25% to 150% of the profile, by the usage.      *)

MinMem(base) == base \div 4

MaxMem(base) == (3 * base) \div 2

Larger(a, b) == IF a > b THEN a ELSE b

Smaller(a, b) == IF a < b THEN a ELSE b

\* a bug to catch: growing has no upper limit
BalloonedFreely(base, mem, used) ==
  IF 2 * used < base THEN Larger(MinMem(base), (5 * used) \div 4)
  ELSE IF 5 * used > 4 * base THEN (3 * used) \div 2
  ELSE mem

\* below half of the profile's memory it shrinks, above 80% it grows; in
\* between what was given stays, which may be less than what is used
Ballooned(base, mem, used) ==
  IF 2 * used < base THEN Larger(MinMem(base), (5 * used) \div 4)
  ELSE IF 5 * used > 4 * base THEN Smaller(MaxMem(base), (3 * used) \div 2)
  ELSE mem

Balloon(v, used) ==
  /\ v \in Allocated
  /\ alloc' = [alloc EXCEPT ![v].mem = Ballooned(alloc[v].base, @, used)]
  /\ UNCHANGED freeGpus

ResourcesNext ==
  \/ Detect
  \/ \E v \in Vms :
       \/ \E base \in Profiles, n \in Counts : Allocate(v, base, n)
       \/ Deallocate(v) \/ ReleaseGpu(v)
       \/ \E n \in Counts : AllocateGpu(v, n)
       \/ \E used \in Usages : Balloon(v, used)

ResourcesSpec == ResourcesInit /\ [][ResourcesNext]_resourceVars

-----------------------------------------------------------------------------
(* What resource_manager.py owes its callers.                               *)

\* calculate_dynamic_memory keeps every VM between 25% and 150% of the memory
\* of its profile (resource_manager.py:51-52), however often and in whichever
\* order usages are reported: the thresholds leave no gap through which the
\* 1.25 or the 1.5 times of a usage escape the bounds that only one of the two
\* branches applies.
MemoryInBounds ==
  \A v \in Allocated :
    alloc[v].mem \in MinMem(alloc[v].base)..MaxMem(alloc[v].base)

\* the GPUs of every VM, numbered; a negative count is none
GpusInUse == UNION {{v} \X (1..GpusOf(v)) : v \in Vms}

Promised == Cardinality(GpusInUse) + freeGpus

\* the three calls that make GPUs up: a detection while VMs have some, allocate
\* with a gpu_count, and allocate_gpu with a count below zero
MakesUp ==
  \/ Detect
  \/ \E v \in Vms, base \in Profiles, n \in Counts : n > 0 /\ Allocate(v, base, n)
  \/ \E v \in Vms, n \in Counts : n < 0 /\ AllocateGpu(v, n)

\* The GPUs that VMs have and those on offer become more by these calls only
\* (resource_manager.py:116-154, 242-262).  No order of deallocate, release_gpu and
\* further allocate_gpu hands out a GPU twice: they may lose GPUs, and a release
\* takes from the VM all that it gives back.
OthersPromiseNoMore == [][Promised' > Promised => MakesUp]_resourceVars
=============================================================================
