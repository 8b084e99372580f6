# Lumenos Sandbox: a TLA+ model

The program under `src/lumenos_sandbox/` runs malware samples in disposable
virtual machines. A *bunker* is one such machine: a Python object that drives a
hypervisor through a life cycle, keeps a record of itself in a state store, and
must be gone, with everything it put on the host, when it is over. This project
models the life cycle and everything in the program that drives it at the same
time: threads of the REST API, commands of the CLI, a reaper of orphans, a pool
of analysis workers, and crashes of each of them. Beside these it models twelve
libraries of the same package, each by itself: the cluster, resources, GPU
passthrough, images, packages, the guest agent and the phone support, which nothing
else in the repository calls, and the secrets, the threads of the monitor, the looks
into a guest, the collection of evidence and the factory of backends, which the life
cycle rests on.

## 1. The system

| Part | State it keeps | Operations | Shared with |
|---|---|---|---|
| Bunker (`bunker.py`, `types.py`) | `state` (under a lock per object), VM and switch names, integrity baseline, layers, monitor, session flag | `initialize`, `activate`, `terminate`, `force_quarantine`, `transition_to` | every caller below, from any thread |
| Decontamination (`decontamination.py`) | a report | seven steps, each noted as completed or failed; the run goes on after a failed one | the host |
| Layers (`layers.py`) | an active flag and the credentials for each of 5 layers | `activate`, `deactivate`, `verify` | the bunker; the guest |
| Monitoring (`monitoring.py`) | `_monitoring_active`, `_monitor_thread`, events, telemetry that was unavailable | `start_monitoring`, `stop_monitoring`, a thread that checks the guest in rounds | the bunker that starts and stops it, the analysis that reads its events |
| Hypervisor backends (`hypervisor/`) | VMs, switches, disks on the host | create and remove each, query a VM, look into its guest, verify the host | everybody |
| Backend factory (`hypervisor/__init__.py`) | `_backend`, one per process | `get_backend` | every bunker, route and command of the process |
| Dual manager (`manager.py`) | `active_bunker`, `inactive_bunker`, a lock | `start_session`, `end_session`, `emergency_shutdown` | two bunkers |
| State store (`state.py`) | one row per bunker: state, names and the encrypted signing key; the key of the store | `save`, `load`, `delete`, `list_all` | API, CLI, reaper |
| API (`api.py`) | `_bunkers`, a registry in memory; the analysis slots | create, start, stop, activate, the read routes, `/analyze-sync` | store, host |
| CLI (`cli.py`) | none: a process per command | `start`, `stop`, `reap` | store, host |
| Reaper (`reaper.py`) | a report in memory, printed at the end | one pass over the orphans of the store | store, host |
| Inspection (`inspect.py`) | one analysis: sample, deadline, IOCs, verdict | `analyze_sync` | its ephemeral bunker |
| Cluster (`multi_host.py`) | `_hosts` with a list of VMs each, `_vm_hosts` | `add_host`, `remove_host`, `heartbeat`, `register_vm`, `unregister_vm`, `evict_offline_vms`; `find_best_host`, `balance_vms` | nobody in this repository |
| Resource manager (`resource_manager.py`) | `_allocations`, the host's free GPUs | `allocate`, `deallocate`, `allocate_gpu`, `release_gpu`, `calculate_dynamic_memory`, `detect_host_resources` | nobody |
| GPU passthrough (`gpu.py`) | `_devices`, `_assignments` | `detect_gpus`, `assign_to_vm`, `release_from_vm`, two PowerShell steps each | the devices of the host |
| Image builder (`image_builder.py`) | `_images`, status and output of each object | `create`, `build`, `delete_image`, `deploy` | VHDX files, one per name; objects that callers keep |
| Package engine (`package_engine.py`) | `_packages`; the `.lva` files | `create`, `verify`, `deploy` | files |
| Analysis agent (`analysis_agent.py`) | `_agents`, `_reports` | `deploy`, `collect`, `get_status` | the script and `report.json` in the guest |
| Secrets (`secrets.py`) | the OS keyring; `secrets.json` beside it | `store_secret`, `get_secret`, `delete_secret` | every process of the user; the store's key |
| Forensics (`forensics.py`) | a chain of items in memory | `collect_evidence`, `verify` | the files of the store, the reports and the snapshots |
| Phone support (`phone_support.py`) | `_capabilities`, `_vms` | `detect_capabilities`, `create_config`, `start_vm`, `stop_vm` | processes or the host service |
| Other tools (`compliance.py`, `observability.py`) | an audit log, counters | see the components in `PROJECT.json` | mostly nobody |

What is hard here, and what the properties are about:

- *Methods of one bunker overlap.* Only `transition_to` is atomic. A method is a
  sequence of locked transitions and unlocked backend calls, it takes its guard
  from a read of `state` that may be stale, and `transition_to(s)` in state `s`
  answers False, which no caller looks at.
- *Failure in the middle.* Any backend call may raise, answer False, or have
  happened although it answers False. Each method has its own way to an end
  state, and each of those ends in a transition that may itself be refused.
- *Three places tell about one bunker*: the object, the row and the host. They
  are written at different times by different processes, and processes die.
- *Nothing locks the store*: two requests, a CLI command and a reaper may work on
  the same id, each from a read it made earlier.
- *Files are shared without locks*: the fallback file of the secrets is read,
  emptied and written by whichever process comes, and evidence is hashed where it
  lies while others write it.
- *A look that was not answered* must never read as an all-clear, whoever asked.
- *Books and things drift apart* in the libraries: a call of two steps fails in
  the middle, a name is used twice, and a new detection drops the records.
- *An analysis outlives its caller* and must still give back its slot and destroy
  its bunker; a deadline may pass at any step; the monitor logs while the verdict
  is being made.

## 2. Modules

```
BunkerStates     the promise: states and transitions of types.py
  ^ refined by
Bunker           the methods of bunker.py, one action per step, any threads
  BunkerProperties, BunkerProofs; MethodProofs (facts for the last three below)
  DualBunker     manager.py over two bunkers        DualBunkerProperties, DualBunkerProofs
  BunkerService  api.py and cli.py over the store   ServiceProperties, ServiceProofs
    Reaper       reaper.py beside them              ReaperProperties, ReaperProofs
  Inspect        analyze_sync, its slots, monitor   InspectProperties, InspectProofs
Guests           the VMs by name, shared by five of the libraries
  Cluster        the hosts and their lists          ClusterProperties
  Resources, Passthrough, Agent, Phone              properties at the end of each
Monitoring, GuestChecks                             properties at the end of each
Images, Packages, Secrets, Forensics, Factory       properties at the end of each
  Libraries      the twelve side by side           LibraryProofs, SupportProofs
MC*              one module per configuration family
```

`DualBunker`, `BunkerService` and `Inspect` extend `BunkerProperties`, and their
threads run the very actions of `Bunker` whenever the code is inside a bunker
method. `Reaper` extends `BunkerService` in turn. Definitions named `...Skipped`,
`...Forgotten`, `...Anyway` and the like, under a comment "a bug to catch", are
plausible mistakes in the definition that follows them; no specification uses
them. Each property is known to fail when one of them takes its place
(`mutants` in `PROJECT.json`).

### Bunker

A step is one backend call or one locked `transition_to`, with the straight-line
code up to the next one. `frame[t].pc` says where thread `t` is; the labels are
`init_*` and `clean_*` (`initialize` and `_cleanup_on_failure`), `act_*`
(`activate` and its rollback), `term_*` and `decon_*` (`terminate` and the
decontamination runner), `quar_*` (`force_quarantine`). `state` and `inst` are
the object, `row` the store, `host` what really exists, each of them per object
or per id.

`Faults` switches on the failures that an instance may meet, by name of the
call. What a call does, then, is nondeterministic: `RemoveVm` takes the disk along
on KVM if it can and leaves it on Hyper-V, `create_vm` may leave a disk behind or
answer False with a VM created (`late_vm`), `remove_switch` may answer True with
the switch there. `Answers` is the set of return values a composing module tells
apart; with it empty the return value is not kept.

What the model leaves out of a method: logging, metrics, the checkpoint, the
signature and file of the decontamination report, escape probabilities, event
contents. The VM of `Bunker` is created and removed; whether it runs does not
matter, because no life cycle method starts it. The layers are numbered
`1..NumLayers`; of a layer only its flag is kept, and whether its activation calls
the guest (`GuestLayers`: it does nothing that can fail until the credentials are
set, hence the guard in `ActLayer`).

### DualBunker

`mgr[t]` is the place in a manager method. `start_session` and `end_session` hold
`lock`; `emergency_shutdown` reads each field twice without it, and may find None
the second time. The branch of `_rotate_bunkers` that terminates the old bunker
is not modelled as an action because it cannot be reached: `RotBegin` is enabled
only outside of it and the invariant `RotationFindsItStopped` says that the
branch's condition is never met there.

### BunkerService

A request or command runs on a thread: `req[t]` is its place in the handler, and
while the handler is in a bunker method the thread runs `Bunker`'s steps.
Objects are reused: one that neither the registry nor a request refers to is
garbage, is forgotten (`Collect`), and may serve as the next `Bunker(...)`. Each
id is constructed under its own object, so two objects may have one id at the
same time, as in the code. `CrashApi` kills all handlers and the registry,
`CrashCli` one command; store and host survive. The command `get` stands for every
read route: it changes nothing of the bunker, but it restores one from its row and
registers it. Two history variables keep apart what the code cannot know:
`forgotten[i]` is what a cleanup of a failed `initialize` left behind when it dropped
the names, or a VM that was made after its call had timed out; `unsaved` has the ids
with a transition that could not be saved, until one is saved while nothing of
theirs is on the host.

### Reaper

A pass lists the store once, picks candidates by the listed state and age, then
reads each record again for its names only, removes VM, switch and disk, deletes
the row, and prints the residuals at the very end. `warned` and `dropped` are
history variables: what a report named, and what a report named that was lost
with its process. `AgeGate` is `older_than_hours > 0`: a row that is hours old
has no request at work on it when it is listed, since every backend call has a
timeout of minutes.

### Inspect

`slots` is the semaphore of the endpoint; a worker has a `job`, a monitor thread
`monitor[t]`, and a bunker of its own. `Expire` is the clock passing the deadline,
`GiveUp` the caller's 504. `initialize` checks the deadline before each of its calls, so
inside it the raise is tied to `job[t].expired`. Findings are kept as the set of
severities that were seen, `high` standing for critical too. When the answer is
handed over, object and id are reset (`Discard`): they stand for the fresh object
and the fresh UUID of the next analysis; whatever the analysis left on the host
is judged by the properties before that step. `CrashApi` kills workers, monitors and
slots at any moment; what an interrupted analysis left is then an orphan for the
reaper (`Forget` stands for it), and it is one crash's leftovers that are followed at
a time.

### The libraries

`Cluster`, `Resources`, `Passthrough`, `Images`, `Packages` and `Agent` each have the
object's fields as variables and one action per method (in `Packages` one per
write of `create`, since a process can die in between). Three of them add the
outside world that the fields are about: `place[d]`, where a GPU really is;
`vhdx[n]`, the image file; `guest[v]`, what was written and what runs in the guest.
`Resources` takes any count in any call, below zero too, since the code looks at none,
and a detection at any time. In `Agent` a run is known by the number of its deploy, and
`last[v]` is a history variable: the number of the last deploy of a VM, and
the runs it found in the guest, at work or in `report.json`; nothing keeps a second
deploy from a guest with an earlier run. `GetStatus` is STOPPED for a VM that was never
deployed to, as in the code.
`find_best_host` and `balance_vms` change nothing and are operators (`FindBest`,
`Moves`) whose answers the properties judge in every reachable cluster; the free
resources they read are quantified over.

`Secrets` has the keyring, the fallback file and any number of processes. Every
keyring call may fail or not; a write of the file is three steps (read, the opening
that empties it, the writing), since `write_text` truncates, and the process may die
after each. `saved` is the row of one bunker with its signing key, `user[u].hold` what
a process has of it: the plaintext, or the ciphertext that `load` takes for plaintext
when it cannot decrypt. `harmed` is a history variable: the key of the store was lost
in one of the four ways that the comment of `SigningKeysSurvive` names.

`Monitoring` has the flag, the thread field and every thread that was made;
`start_monitoring` is three steps, because it writes the flag, the field and then
calls `start` on what it reads back from the field.

`GuestChecks` follows one asker (a layer or the monitor) and a guest whose running
and threats change between any two looks. `Asked` is `execute_in_guest`, and
`TestGuestConnectivity` and the others are what each call of the backend makes of its
answers: a command that ends well in a running guest may also tell nothing, and each call
has its own way with that (`silence`): an empty list is passed on and passes ("Can't
verify, assume OK"), an output without True is a blocked network, and VBS that is not said
to be on is off. `ask.clean` and `ask.mute` are history variables: what was absent in a
running guest at the moment its look was answered, and what was there while its look
was answered with nothing.

`Forensics` has the files, which others write and remove at any time, and one call at
its steps; `lasting` and `matched` are history variables (files that were there all
the while, items that matched at some moment of the verification). `Phone` has the
device's hypervisor, the processes or VMs on it, and what the last `start_vm` of a name
answered.

`Factory` has the global of `get_backend` and the threads in it. The global is read
once to choose, again for the probe and again for the return, so `Probe` records the
`target` it was called on; a client is known by the worker that made it, and `probed`
has those whose own probe was answered True.

`Libraries` puts the twelve side by side. They share no variable and never call one
another, so interleaving them would only multiply the states: a behaviour picks one
(`library`) and works with it.

Two constants say what callers of these libraries do, or how fast PowerShell answers.
Each of them is needed: with the other value TLC finds the property violated.

| Constant | When TRUE | Needed | By |
|---|---|---|---|
| `ReAdd` | `add_host` is called for a name that is in the cluster: the new node forgets the list of the old one | FALSE | `Located` |
| `TimesOut` | a step that was given up after 30 seconds has come about | FALSE | `GpusAreBooked` |

Two simplifications: a `FileNotFoundError` that `analyze_sync` raises again, instead of
answering, is in `Inspect` an end like any other (`Fail`), and the hash of one file of
evidence is taken at one moment (`Add`), where the code reads it in pieces.

Two operations are left out because they do nothing that lasts: `deploy` of the
package engine opens the `.lva` file as a tar archive from its first byte, which is
the magic, and fails for every package; `deploy` of the image builder changes no
state of the builder.

## 3. Runs

| Run | Instance | Shows |
|---|---|---|
| `bunker` | 1 object, 2 threads, 2 layers; exceptions, deadlines, layer, thread and status failures | any two calls of the four methods, interleaved anywhere: type, owned transient states, layers of an ACTIVE bunker, refinement of `BunkerStates`, every transient state ends |
| `dual` | 2 bunkers, 2 threads | at most one ACTIVE bunker, sessions stay reachable through the manager, dead branch, the lock is released |
| `dual_hold` | as `dual` | counterexample: a rotation onto a quarantined bunker removes its VM |
| `service` | 1 thread, 2 objects, 1 id, seven commands, crashes of both kinds, 15 kinds of failure: late VMs, lost saves and failing cleanups among them | what is on the host has a row; a DESTROYED row means a clean host |
| `stop` | CLI start and stop, no failure at all | counterexample: `stop` of a bunker another process started never succeeds |
| `create_race` | 2 creates of one id, `create_vm` may fail | counterexample: the loser's rollback deletes the winner's row |
| `reaper` | API commands, crashes, 1 reaper with the age gate | the types of service and reaper (`ReaperTypeOK` contains `ServiceTypeOK`), registry and row agree, nothing is lost without a warning, a READY or ACTIVE row has its VM, live bunkers are spared |
| `reaper_race` | `lumenos start` beside the reaper | counterexample: the reaper removes a bunker that was started again after it was listed |
| `inspect` | 2 workers, 1 slot, 2 guest checks, 11 kinds of failure, crashes | slots balance, bunkers are gone, success means clean, an interrupted analysis has its row, verdicts are earned, every analysis ends |
| `libraries` | 3 VMs (2 of them at a time in the books of resources and with an agent), 2 hosts, 2 GPUs to count, counts down to -1 and 2 devices, 2 profiles with 5 usages around their thresholds, 3 image objects of 2 names, 2 contents, 2 deploys; 2 processes and 2 keys, 2 callers and 4 loops, 3 files of 2 versions, 3 threads in the factory | every library by itself keeps its books and its promises; the monitor's loops end |
| `inspect_decon` | a layer and a removal fail | counterexample: the fallback reports success with the VM still there |
| `inspect_look` | no failure | counterexample: `clean` although the monitor has made no check |

**Bounds and why they are enough.** Two threads, since the hazards of the methods
are pairwise: one thread between a read and its use, another one that moves the
bunker meanwhile; a third adds interleavings of the same pairs (and the proofs of
section 5 are for any number). Two layers where rollback order matters, one
elsewhere. Two objects for one id in `service` and `reaper`: the registered one,
and the one that is under construction or that a command holds. One id: rows and
resources of different ids never touch, except in the reaper's list, whose
candidates are worked off one at a time. `service` has one
thread, hence requests in sequence, cut anywhere by crashes; requests that overlap
are `create_race` and `reaper_race`, where overlapping breaks the property, and
`reaper`, where the reaper overlaps each request. Every failure class switched on
in a run is in its cfg. `service` has all that a failed or late call can do on Hyper-V but
for the disk that a cleanup cannot delete (`clean_disk`): no name leads to it once the
rollback of the create has deleted the row, and nothing in the code looks for it. What such a failure takes from the properties is named by `forgotten` and `unsaved`,
id by id, and nothing else is. `reaper` and `inspect` leave out the late VMs, the lost
saves and the failing cleanups: `RunningHasVm`, `NothingLost` and `SuccessIsClean` are
about rows that were written and resources that somebody knows of. `silent_switch`, a
removal that answers True and removes nothing, is off everywhere: after it no row
tells of anything. With one thread of requests, two first requests for one id after a
restart (each of which makes its own object, `api.py:195`) are not exercised together;
`create_race` has two requests at once. `bunker` checks nothing
about the host, so faults that only touch the host are off there.

`libraries` has three VMs because a balance between two hosts needs a list of two
beside an empty or a shorter one, and the limit of two VMs per host must be
exceeded; its usages lie below, between and just over the thresholds of the
smaller profile and below and above those of the larger; a
third image object is one that is created under a name whose first two holders
were deleted and kept. The cluster needs the third VM; the VMs of the resource manager
meet only in the number of free GPUs, and those of the agent not at all, so that two at a
time (`FewVms`) are enough there. Three free GPUs (`MaxFree`) are one more than a host
has, and a count of -1 (`Negative`) stands for all below zero. Two deploys are one that is
overtaken and the last one. Two processes and two keys (`MaxKeys`) are one key that is lost
and one that takes its place; the constraint `KeyIsNotLost` ends a behaviour of the
secrets at the loss, after which the property says nothing any more. Four loops
(`MaxLoops`) are two that were stopped in their round and those of two callers at
once. A look concerns one threat, hence a guest has one at a time in the run
(`ManyThreats`); a lost finding of the other look of a check is reached by exchanging
them between the looks. Three files are one of each kind. Three workers are one whose client is replaced, one
that replaces it, and one that is served in between.

Every run keeps TLC's deadlock check, but it says little, since an idle thread can
always make another call; that no method is stuck is what the liveness
properties are for.

**Fairness.** `WF` of the steps of each thread that is inside a method, and of each
loop of the monitor that was started (`LoopFairness`), nothing else. Every backend call goes through `subprocess` with a timeout, the per-object
lock covers one transition, and no method waits for another, so the scheduler
eventually runs the next step. Nothing is assumed of callers, of the clock
(`Expire`), of the monitor's rounds, nor of who gets the manager's lock. A loop waits for its guest calls, which time out, and for
its interval. Hence
`TransientEnds`, `LockIsReleased`, `AnalysisEnds` and `LoopsEnd` say that what was begun ends,
not that anything is begun.

## 4. What the checks say about the code

Holds, over all interleavings of the instances:

- a bunker in INITIALIZING, TERMINATING or DECONTAMINATING always has a thread at
  work on it that will take it out again (`TransientOwned`, `TransientEnds`);
  only the death of the process strands it, and then the reaper refuses
  INITIALIZING (hazard list);
- a resting ACTIVE bunker has all its layers, although `activate` publishes ACTIVE
  first (`ActiveIsLayered`);
- the manager has at most one ACTIVE bunker and never loses it (`AtMostOneActive`,
  `SessionIsNamed`);
- store and host agree in the direction recovery needs: a resource has a row
  (`Traceable`), a DESTROYED row has no resource (`DestroyedIsClean`), a running row
  has its VM (`RunningHasVm`), or the operator was warned (`NothingLost`);
- an analysis gives back its slot once, leaves no bunker up, and never calls an
  unexecuted or unobservable sample anything but an error (`SlotsBalance`,
  `AlwaysDecontaminated`, `VerdictIsEarned`); one that a crash cut short has a row that
  a reaper finds (`InterruptedIsTraceable`);
- monitoring that is on has a loop that watches, whatever callers start and stop at
  once, and loops end after a stop (`ActiveIsWatched`, `LoopsEnd`): two loops may watch
  side by side, none may be missing;
- a look that failed never reads as an all-clear, and of VBS an empty answer does not
  either (`FailedIsNotClear`); elsewhere an empty answer does (`layers.py:271-272`,
  `hyperv_backend.py:433-437`), which the property admits;
- the signing key of a bunker survives every order of processes, stores and deaths
  but four that the property names (`SigningKeysSurvive`); a chain of evidence is
  neither short nor wrongly valid (`ChainIsWhole`); `start_vm` tells the device
  (`StartTellsTheDevice`); a process does not keep a backend that was never found
  available, whatever threads ask for one at once (`SettledIsProbed`);
- the libraries, each under the constants above: a VM's entry leads to a host that
  lists it (`Located`), a request that fits somewhere is not sent where it does not
  (`PlacementFits`), a plan for two hosts ends at most one apart (`PlanBalances`),
  memory stays in its bounds (`MemoryInBounds`), only a detection, a `gpu_count`
  of `allocate` and a negative count promise more GPUs than before
  (`OthersPromiseNoMore`), a GPU is where its assignment says (`GpusAreBooked`), a READY
  image has its own file (`ReadyIsOnDisk`), `verify` accepts only what was sealed
  (`ValidIsSealed`), and STOPPED is said of a VM without a deploy, or of one whose
  cached report is of the last deploy or of a run which that deploy found in the guest
  (`StoppedHasItsReport`).

Limits that came up while stating these, which no sentence of the repository
denies: a request with a GPU may be sent to a host without one, because an exact
fit of the memory is worth the same 20 points; a plan for three hosts may move two
surpluses into the room of one; between 50% and 80% of the profile the memory stays
what it was, although that may be less than what is used; `deallocate` and a second
`allocate_gpu` lose GPUs for good; a VHDX that was made too late is never deleted.
A bunker object that `_get_bunker` or `lumenos start` makes has a new signing key and
saves it over that of the row (only the tests call `load_from_store`). `verify` of the
filesystem layer raises for a clean guest on Hyper-V: a Run key without entries gives no
output, which is not JSON; it passes on an empty list only, which the fakes of the tests
answer. The network layer is active although the firewall call failed; a
VBS finding is lost when the look at Secure Boot of the same check fails; the process
layer compares exact names where the monitor looks for substrings. Evidence is hashed
in place, so a chain with the live `lumenos_state.db` turns invalid with the next save,
and the pattern `{id}*` takes the snapshots of longer ids too. On KVM and QEMU `start_vm`
answers True only for a guest that has exited by itself within 10 seconds; on Hyper-V a
VM may stay after False, and `stop_vm` does nothing there; `pkill -f` ends the VMs of
longer names too.

Does not hold, against what a comment, a test or the documentation says: the six
`violation` runs, with the quotes in `PROJECT.json` under `findings`. Each of them
states the sentence it refutes as an ordinary property, so it can be turned into
a passing run when the code changes. `SuccessIsClean` and `ReaperSparesLive` appear
on both sides: they hold in `inspect` as long as the fallback's removals answer
True, and in `reaper` as long as only the API (whose create refuses an id that has
a row) revives ids; `inspect_decon` and `reaper_race` show what happens otherwise.

Three more statements are not kept and have no run of their own; the properties of
`libraries` admit these cases by name, and say that there is no other way:

- "Current host resource availability." (`resource_manager.py:79`): `allocate` with a
  `gpu_count`, as in `tests/test_resource_manager.py:109-112`, takes nothing from the free
  GPUs, and `release_gpu` gives the count back, so that a host with one GPU offers two. A
  detection while VMs have GPUs, and a count below zero, do the like (`MakesUp` in
  `OthersPromiseNoMore`).
- Deploy, "Wait for completion", collect (`analysis_agent.py:212-216`): `deploy` does not
  look whether an earlier run is at work in the guest, each run writes the same
  `report.json`, and what is collected after the run of the last deploy is over may be
  the report of the earlier one (`last[v].found` in `StoppedHasItsReport`). And STOPPED is
  the status of a VM never deployed to (`analysis_agent.py:312`), where no report is.
- "callers must not be able to mistake "could not check" for "checked and fine""
  (`layers.py:98-101`): `verify` of the process layer passes on an empty list of processes
  ("Can't verify, assume OK", `layers.py:271-272`), and the network probe counts any output
  without `True` as blocked, an empty one too (`hyperv_backend.py:433-437`). An all-clear
  therefore means only that no look failed (`ask.mute` in `FailedIsNotClear`).

## 5. Proofs

Every invariant, action property and refinement that a passing run checks is also
proved as a theorem about the specification, for all values of the constants that its
module's assumptions admit. A theorem that needs more says so: as a hypothesis on the
constants, which the run that checks the property on an instance meets, or as the
condition `Serialized`, which a run with one thread meets. No hypothesis is
there for the proof's convenience: with any one of them dropped (a fault of the list
switched on, a second reaper, no age gate, `cli_start` beside the reaper, a second
thread), TLC finds the theorem's property violated on the instance of its run.

The eight modules build on each other as the specifications do:

```
BunkerProofs
  DualBunkerProofs
  MethodProofs
    ServiceProofs
      ReaperProofs
    InspectProofs
LibraryProofs, SupportProofs
```

### BunkerProofs

It proves, for any sets of objects, ids and threads, any number of
layers, either backend and any faults, from `BunkerAssumption` alone:

| Theorem | States |
|---|---|
| `TypeCorrect` | `Spec => []TypeOK` |
| `TransientOwnedAlways` | `Spec => []TransientOwned` |
| `ActiveIsLayeredAlways` | `Spec => []ActiveIsLayered` |
| `ImplementsStateMachine` | `Spec => StateMachine`, the refinement of `BunkerStates` |

The argument is one inductive invariant, `BunkerInv`. `TypeOK` is inductive by
itself. `TransientOwned` is, relative to it: a thread may leave its method only through a
last transition, and where that one is refused the bunker is in a state that the
thread does not own. `ActiveIsLayered` is not inductive, because it speaks of
bunkers at rest only: a thread at `act_monitor` returns and leaves the bunker ACTIVE,
so the layers it activated must still be there. `Guarded` supplies this for every
state: while a bunker is ACTIVE, some thread is at a place from which it will take it
out of ACTIVE whatever it strips (`Disturbing`), or some thread is still switching
layers on and has lost none so far (`Arming`), or all layers and the session flag
are on (`Armed`). A thread that starts `Arming` must have no layer counted as done
yet, which is `FreshStart`. The proof has one lemma per method (`InitStepFacts`,
`ActStepFacts`, ...) that says what its steps do to the thread, the bunker and its
layers, and one (`FactsKeepInv`) that derives the invariant from these facts;
`ImplementsStateMachine` needs only that `state` is changed by `TransitionTo`, whose
guard is the table.

### DualBunkerProofs

For any number of threads and layers and any faults, without a hypothesis:

| Theorem | States |
|---|---|
| `ManagerTypeCorrect` | `ManagerSpec => []ManagerTypeOK` |
| `AtMostOneActiveAlways` | `ManagerSpec => []AtMostOneActive` |
| `SessionIsNamedAlways` | `ManagerSpec => []SessionIsNamed` |
| `RotationFindsItStoppedAlways` | `ManagerSpec => []RotationFindsItStopped` |
| `ManagedTransientOwned` | `ManagerSpec => []TransientOwned` |
| `ManagerImplementsStateMachine` | `ManagerSpec => StateMachine` |

`ManagerInv` contains `BunkerInv`, since the threads run the methods of `Bunker`. What
it adds rests on two facts. Only the holder of the lock is in `initialize`, `activate` or
`terminate` (`CallAt`), so nobody but `emergency_shutdown`, which has no lock and calls
`force_quarantine`, can interfere with it; and `force_quarantine` only ever takes a bunker
out of the states that lead to ACTIVE (`Hot`). Hence `ProgressAt`: how far each method of
the holder has brought its bunker, whatever quarantines come in between. The clause that
makes it inductive is `Accounted`: a bunker is in a `Hot` state only as the one that the
holder is starting, or ACTIVE and named by `active_bunker`. `AtMostOneActive` follows, as
the bunker under construction is not the one that `active_bunker` names, and that one is not
`Hot` while it is being replaced (`FieldsAt`). TLC found `ManagerInv` to hold on the 178 032
states of the instance of `dual` before it was proved.

### MethodProofs

Lemmas that the next three modules share. `InitPhase`, `ActPhase` and `TermPhase` say in
which state a bunker is at each place of a method with which no other thread interferes,
and what the answer tells of it; a step of the method keeps its phase. `Inspect` meets the
condition because every worker has a bunker of its own, `BunkerService` under
`Serialized`.

### ServiceProofs

| Theorem | States | Under |
|---|---|---|
| `ServiceTypeCorrect` | `ServiceSpec => []ServiceTypeOK` | |
| `TraceableAlways` | `ServiceSpec /\ []Serialized => []Traceable` | `clean_disk` not in `Faults` |
| `DestroyedIsCleanAlways` | `ServiceSpec /\ []Serialized => []DestroyedIsClean` | `silent_switch` not in `Faults` |

For any ids, objects, threads and commands, and crashes of API and commands at any step.
`Serialized` says that no two requests on one id are under way at a time; requests on
different ids overlap freely. It is needed: of two overlapping creates of one id the loser
deletes the row of the winner, which is the counterexample of `create_race`. The two
hypotheses on `Faults` are the failures that leave something behind that no name in the
program tells of: a disk that the cleanup of a failed `initialize` could not delete (the
rollback of the create deletes the row all the same), and a switch removal that answers
True with the switch there.

`Linked` says who refers to which object: an object that a request or the registry has is
under the id it was made for, and nobody is in a method of an object that no request
has. It needs no `Serialized`, and `ServiceTypeOK` is a part of it. `ServiceInv` follows an
id from its first row to its last resource: a bunker past `initialize` knows its VM and
switch, and so does its row (`Wired`, `WiredRow`; a row without the names would let
`terminate` skip the removals and still end DESTROYED); decontamination that is
still `ok` has removed what it has passed (`Emptied`); a cleanup has what it has not
removed still before it, or else it is `forgotten` (`Known`); a row that is gone or DESTROYED
leaves only what was forgotten (`Settled`). That `Settled` is
conditioned on `unsaved` is what the property says of a row whose save failed.

### ReaperProofs

| Theorem | States | Under |
|---|---|---|
| `ReaperTypeCorrect` | `ReaperSpec => []ReaperTypeOK` | |
| `ReaperSparesLiveAlways` | `ReaperSpec /\ []Serialized => ReaperSparesLive` | `Regular` |
| `RegistryAgreesAlways` | `ReaperSpec /\ []Serialized => []RegistryAgrees` | `Regular` |
| `RunningHasVmAlways` | `ReaperSpec /\ []Serialized => []RunningHasVm` | `Regular` |
| `NothingLostAlways` | `ReaperSpec /\ []Serialized => []NothingLost` | `Regular`, `Honest` |

`Regular` is the deployment in which the reaper is meant to run: one reaper, which
selects by age (`cmd_reap`'s default), beside the API, over a store whose saves succeed.
With `lumenos start` beside it, which revives an id that has a row, a bunker becomes live
between the listing and the removal (the counterexample of `reaper_race`); without the age
gate, a request may be at work on what was listed; of two reapers one may delete the
row, after which create accepts the id, while the other still holds it as listed.
`Honest` excludes the five failures after which nothing in the program has
the name of what is left.

The reaper looks at a state once and acts on it much later, without a lock, so
the invariant must say why the look stays good. `Watched` says for each record that a
pass has picked that its row is still in a reapable state and that no method is at work
on it (`Sheltered`). This holds because nothing wakes such a bunker: create refuses an id
with a row, and the other requests act by the object of the registry, which tells the
same state as the row (`Agreed`, `Mirrored`), and in a reapable state no method gets past its
first check. `Traced` adds, for `NothingLost`, that what is on the host is named by the row
or noted for the residual report: by the pass for what it has already tried to remove
(`Tidy`), by a cleanup for what it has yet to remove (`Remaining`), by a stop for its
phase (`Stops`).

### InspectProofs

| Theorem | States | Under |
|---|---|---|
| `InspectTypeCorrect` | `InspectSpec => []InspectTypeOK` | |
| `SlotsBalanceAlways` | `InspectSpec => []SlotsBalance` | |
| `VerdictIsEarnedAlways` | `InspectSpec => VerdictIsEarned` | |
| `AlwaysDecontaminatedAlways` | `InspectSpec => []AlwaysDecontaminated` | no `persist`, `late_vm`, `clean_vm` |
| `SuccessIsCleanAlways` | `InspectSpec => []SuccessIsClean` | no `late_vm`, `clean_vm`, `silent_switch`, `clean_switch`, `clean_disk` |
| `InterruptedIsTraceableAlways` | `InspectSpec => []InterruptedIsTraceable` | no `persist` |

For any number of workers, slots, guest checks and layers, with callers that give up,
deadlines at any step and a process that may die at any. A failing removal in the cleanup
or the fallback has to be excluded from `SuccessIsClean`, because the fallback reports a
success whatever its removals answered: the counterexample of `inspect_decon`.

`InspectInv` gives every worker a bunker of its own (`Housed`, `Owned`) that nobody else has
touched (`Unused`), and from this the phases of `MethodProofs` at each place of the
analysis (`Phase`). `Tracked` follows the resources: the bunker has the name of what is on
the host, and each removal that was reported has happened; a failure that breaks this for
one resource is confined to it (`Sure`), so the three theorems above share one invariant and
differ only in what they exclude. `Recorded` says that a row exists from before the first
resource until after the last. `SlotsBalance` needs that finitely many are at
work. `DeadAlone`, that a worker and the leftovers of an interrupted one are never there
together, was missing in the first form of the invariant, and its proof failed at
`CrashApi`: a second crash would drop the leftovers of the first unseen, and `Unused` with
them. It holds because the leftovers of one crash are followed to their end before the
next analysis. `VerdictIsEarned` needs
that an analysis without an error has executed its sample (`Told`).

### LibraryProofs

| Theorem | States | Under |
|---|---|---|
| `LocatedHolds` | `ClusterSpec => []Located` | `~ReAdd` |
| `PlacementFitsHolds` | `ClusterSpec => []PlacementFits` | |
| `PlanBalancesHolds` | `ClusterSpec => []PlanBalances` | |
| `OthersPromiseNoMoreHolds` | `ResourcesSpec => OthersPromiseNoMore` | |
| `GpusAreBookedHolds` | `GpuSpec => []GpusAreBooked` | `~TimesOut` |
| `MemoryInBoundsHolds` | `ResourcesSpec => []MemoryInBounds` | |
| `ReadyIsOnDiskHolds` | `ImagesSpec => []ReadyIsOnDisk` | |
| `ValidIsSealedHolds` | `PackagesSpec => []ValidIsSealed` | |
| `StoppedHasItsReportHolds` | `AgentSpec => []StoppedHasItsReport` | |

Each is for any sets of VMs, hosts, devices, names and contents and rests on the
assumptions of its module. `Located` and `GpusAreBooked` are inductive once the
types are known (`ClusterInv`, `GpuInv`). `MemoryInv` only adds types; the arithmetic is
the lemma `BalloonedInBounds`: below half of the profile 5/4 of the usage is under
3/2 of the profile, above 80% 3/2 of it is over a quarter. `SealInv` says, beside
the types, that the checksum in the file is blank or that of the last finished
create, which is all that `verify` needs: damaged parts match neither. `AgentInv`
says that all that runs or lies in a guest comes from its last deploy or was found by it,
and that a VM without an agent has no report and no deploy. `DiskInv`
adds to `ReadyIsOnDisk` that an object is registered under its own name only.

`PlacementFits` is a fact about `find_best_host` in any cluster: with no GPU asked for, a
host that fits and has room scores at least 80 and one that does not at most 70
(`ScoreSeparates`, with the integer division of the utilisation term bounded in
`FitBounded`). `PlanBalances` needs that hosts and lists are finite (`FiniteInv`), then two
lists of sizes a and b (`TwoLists`) end (a + b) / 2 or one more. For `OthersPromiseNoMore`
the GPUs are numbered per VM (`GpusInUse`), so that the sum over all VMs is the size of one
set and each call is one change of that set (`GpusOfOne`); `BooksInv` has the types and
that the set is finite, and the rest is arithmetic on one call.

### SupportProofs

| Theorem | States |
|---|---|
| `SigningKeysSurviveHolds` | `SecretsSpec => []SigningKeysSurvive` |
| `ActiveIsWatchedHolds` | `MonitoringSpec => []ActiveIsWatched` |
| `FailedIsNotClearHolds` | `GuestChecksSpec => []FailedIsNotClear` |
| `ChainIsWholeHolds` | `ForensicsSpec => []ChainIsWhole` |
| `StartTellsTheDeviceHolds` | `PhoneSpec => []StartTellsTheDevice` |
| `SettledIsProbedHolds` | `FactorySpec => []SettledIsProbed` |

Each rests on the assumption of its module alone, for any processes, callers, threads,
files and VMs, and any bounds (`MaxKeys`, `MaxLoops`, `ManyThreats`). `KeyInv` says that an unharmed key is
either not born (no store has one, no row needs one, and one process at most has
generated one) or kept: one key that all processes have, which is in the keyring and in
nothing that is written to the file, or in the file, whenever that can be parsed, and in
all that is to be written to it. That the steps of writers preserve the second is why a
write of what was read earlier loses passwords and no key. `Watched` closes the gap of
`ActiveIsWatched`, which speaks of moments without a call: while monitoring is on, a
loop watches, or a call has yet to make its thread, or the thread in the field has yet
to be started by a call. `CheckInv` says that each look made so far is covered: its
threat was absent, or its answer empty where that passes, or it was found, or its
capability is noted. `ChainInv` follows a lasting
file from the listing to the chain, and an item from its check, or its last match, to
the verdict. `StartTellsTheDevice` needs types, and that what was
detected is what the device has.
`FactoryInv` says of every moment what `SettledIsProbed` says of quiet ones: a client in
the global was found available by its maker, or its maker has its probe before it, is
in it, or is about to put the mock in its place (`Pending`).

### What stays with the model checker

- Liveness: `TransientEnds`, `LockIsReleased`, `AnalysisEnds` and `LoopsEnd` need `ENABLED`
  and fairness, which are out of the prover's reach.
- The six sentences of the `violation` runs: TLC's counterexamples are the
  evidence.
- What is outside the hypotheses above: two requests on one id at a time, several
  reapers, or one without the age gate, beside the API.

## 6. Not modelled, and the plan

Next, in this order:

1. Abstract specifications for two more components: an admission counter that
   `Inspect` implements, and a store of rows that `BunkerService` implements.
2. The service without `Serialized`: which of its properties hold when two requests on
   one id overlap, beside the one that `create_race` refutes.
3. Two backends in one process: a thread that `get_backend` served too early keeps its
   unprobed client when the process degrades, and one failed probe leaves `MockBackend`,
   which answers True to every removal, for the life of the process. `Bunker` and what
   extends it take one backend that stays what it is. Under a backend that answers
   wrongly none of the properties of rows and host is promised, so this needs
   properties of its own about who may act on which backend.

Left out, because nothing in it spans several steps: `compliance.py` (an append-only
log under one lock, and a pure evaluation), `observability.py` (counters under one lock
and a health check that reads), the JSON migration of `state.py`, the loading plan and
the idle flags of the resource manager, the layers of an image (applying one always
answers True), rate limits and authentication of the API, the commands of the CLI that
only read.

Left out, because there is no state in it to go wrong: `hyperv_client.py` and
`hypervisor.py` (they pass every call to the backend), `platform.py`, `exceptions.py`,
`hypervisor/mock_backend.py` (a test double; that the factory degrades to it is in
`Factory`), packaging,
scripts and configuration. Left out as data: the texts of events, findings and reports,
the patterns that event logs are searched for, escape probabilities, scores, IOCs.
