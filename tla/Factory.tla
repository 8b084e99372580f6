------------------------------ MODULE Factory ------------------------------
(***************************************************************************)
(* lumenos_sandbox/hypervisor/__init__.py: the one backend of a process,   *)
(* and threads that call get_backend.  Nothing locks the global: it is     *)
(* read anew at every use, and a client is in it before it was probed.     *)
(* set_backend and reset_backend are called by tests only.                 *)
(***************************************************************************)
CONSTANT Workers    \* the threads that call get_backend

ASSUME WorkersAssumption == {"none", "mock"} \cap Workers = {}

VARIABLES
  override,   \* LUMENOS_HYPERVISOR, "" if it names no backend
  system,     \* "win32" or "linux"
  backend,    \* _backend: "none", "mock", or the client of the worker that made it last
  stage,      \* stage[w]: the place of w in get_backend
  target,     \* target[w]: the backend that w's probe was called on
  probed      \* the workers whose own probe found the client they made available

factoryVars == <<override, system, backend, stage, target, probed>>

Backends == {"none", "mock"} \cup Workers

FactoryInit ==
  /\ override \in {"", "mock", "hyperv", "kvm"}
  /\ system \in {"win32", "linux"}
  /\ backend = "none"
  /\ stage = [w \in Workers |-> "idle"]
  /\ target = [w \in Workers |-> "none"]
  /\ probed = {}

Goes(w, from, to) ==
  /\ stage[w] = from
  /\ stage' = [stage EXCEPT ![w] = to]

\* an override wants its own class, everybody else takes what there is
Serves == backend # "none" /\ (override \in {"hyperv", "kvm"} => backend # "mock")

GetBackend(w) ==
  /\ \/ Serves /\ Goes(w, "idle", "serve")
     \/ ~Serves /\ override # "mock" /\ Goes(w, "idle", "make")
     \/ ~Serves /\ override = "mock" /\ Goes(w, "idle", "degrade")
     \/ ~Serves /\ override = "" /\ system = "linux" /\ Goes(w, "idle", "degrade")  \* no tool at all
  /\ UNCHANGED <<override, system, backend, target, probed>>

\* the client is published; KVM that was asked for is not probed
MakeClient(w) ==
  /\ Goes(w, "make", IF override = "kvm" THEN "serve" ELSE "probe")
  /\ backend' = w
  /\ probed' = probed \ {w}
  /\ UNCHANGED <<override, system, target>>

\* _backend.check_available(): called on what is in the global by now
Probe(w) ==
  /\ Goes(w, "probe", "probing")
  /\ target' = [target EXCEPT ![w] = backend]
  /\ UNCHANGED <<override, system, backend, probed>>

ProbeSucceeds(w) ==
  /\ Goes(w, "probing", "serve")
  /\ probed' = IF target[w] = w THEN probed \cup {w} ELSE probed
  /\ UNCHANGED <<override, system, backend, target>>

\* a MockBackend is always available
ProbeFails(w) ==
  /\ target[w] # "mock" /\ Goes(w, "probing", "degrade")
  /\ UNCHANGED <<override, system, backend, target, probed>>

\* a bug to catch: the exception leaves get_backend
ProbeRaisesOut(w) ==
  /\ target[w] # "mock" /\ Goes(w, "probing", "idle")
  /\ UNCHANGED <<override, system, backend, target, probed>>

\* the handler of each branch makes it a probe that failed
ProbeRaises(w) ==
  /\ target[w] # "mock" /\ Goes(w, "probing", "degrade")
  /\ UNCHANGED <<override, system, backend, target, probed>>

Degrade(w) ==
  /\ Goes(w, "degrade", "serve")
  /\ backend' = "mock"
  /\ UNCHANGED <<override, system, target, probed>>

\* return _backend: what another thread has put there by now
Serve(w) ==
  /\ Goes(w, "serve", "idle")
  /\ UNCHANGED <<override, system, backend, target, probed>>

FactoryNext ==
  \E w \in Workers :
    \/ GetBackend(w) \/ MakeClient(w) \/ Probe(w) \/ ProbeSucceeds(w)
    \/ ProbeFails(w) \/ ProbeRaises(w) \/ Degrade(w) \/ Serve(w)

FactorySpec == FactoryInit /\ [][FactoryNext]_factoryVars

-----------------------------------------------------------------------------
(* What get_backend owes a process whose threads ask for a backend at once.  *)

\* With no thread in get_backend, the backend that the process keeps is none, the
\* mock, or a client that the thread which made it found available, however many
\* threads found none, made clients over one another's and degraded, and whatever
\* the probes answered or raised (hypervisor/__init__.py:9-89). Only while a thread
\* is in there may others be served a client that nobody has found available. KVM
\* that was asked for is never probed.
SettledIsProbed ==
  (\A w \in Workers : stage[w] = "idle") /\ override # "kvm"
    => backend \in {"none", "mock"} \cup probed
=============================================================================
