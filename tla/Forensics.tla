----------------------------- MODULE Forensics -----------------------------
(***************************************************************************)
(* lumenos_sandbox/forensics.py: one call that collects the evidence of a  *)
(* bunker and verifies it, on files that others write and remove meanwhile.*)
(* Evidence is the path of a file and the digest of what it had when it    *)
(* was collected; the file itself is not copied.                           *)
(***************************************************************************)
EXTENDS Naturals

CONSTANTS
  StateDb,          \* lumenos_state.db
  Reports,          \* decontamination reports of the bunker in logs/
  Snapshots,        \* files in snapshots/ whose names start with its id
  Versions          \* what a file may have in it

ASSUME ForensicsAssumption == 0 \notin Versions

VARIABLES
  onDisk,           \* onDisk[f]: what is in f, or 0
  collector,        \* where the call is, and the files it has yet to take or check
  evidence,         \* evidence[f]: what f had when it was added to the chain, or 0
  lasting,          \* files that were there ever since the collection began
  matched           \* those that had the collected content since it is verified

evidenceVars == <<onDisk, collector, evidence, lasting, matched>>

Files == {StateDb} \cup Reports \cup Snapshots
Present == {f \in Files : onDisk[f] # 0}
Chain == {f \in Files : evidence[f] # 0}

ForensicsInit ==
  /\ onDisk \in [Files -> Versions \cup {0}]
  /\ collector = [at |-> "idle", todo |-> {}]
  /\ evidence = [f \in Files |-> 0]
  /\ lasting = {}
  /\ matched = {}

Goto(at, todo) == collector' = [at |-> at, todo |-> todo]

\* others write, replace and remove files
WriteFile(f) ==
  /\ \E v \in Versions :
       /\ onDisk' = [onDisk EXCEPT ![f] = v]
       /\ matched' = IF collector.at = "verify" /\ evidence[f] = v
                     THEN matched \cup {f} ELSE matched
  /\ UNCHANGED <<collector, evidence, lasting>>

RemoveFile(f) ==
  /\ onDisk[f] # 0
  /\ onDisk' = [onDisk EXCEPT ![f] = 0]
  /\ lasting' = lasting \ {f}
  /\ UNCHANGED <<collector, evidence, matched>>

\* collect_evidence: a new chain, and the state database if there is one
Collect ==
  /\ collector.at \in {"idle", "raised", "valid", "invalid"}
  /\ Goto("database", {})
  /\ evidence' = [f \in Files |-> 0]
  /\ lasting' = Present
  /\ matched' = {}
  /\ UNCHANGED onDisk

Add(f) == evidence' = [evidence EXCEPT ![f] = onDisk[f]]

TakeDatabase ==
  /\ collector.at = "database"
  /\ IF onDisk[StateDb] # 0 THEN Add(StateDb) ELSE UNCHANGED evidence
  /\ Goto("reports", Present \cap Reports)
  /\ UNCHANGED <<onDisk, lasting, matched>>

\* a file that went since it was listed: opening it raises
Vanished ==
  /\ collector.at \in {"reports", "snapshots"}
  /\ \E f \in collector.todo : onDisk[f] = 0
  /\ Goto("raised", {})
  /\ UNCHANGED <<onDisk, evidence, lasting, matched>>

\* a snapshot that went before its is_file is passed over
SkipSnapshot ==
  /\ collector.at = "snapshots"
  /\ \E f \in collector.todo : onDisk[f] = 0 /\ Goto("snapshots", collector.todo \ {f})
  /\ UNCHANGED <<onDisk, evidence, lasting, matched>>

TakeFile ==
  /\ collector.at \in {"reports", "snapshots"}
  /\ \E f \in collector.todo :
       /\ onDisk[f] # 0
       /\ Add(f)
       /\ Goto(collector.at, collector.todo \ {f})
  /\ UNCHANGED <<onDisk, lasting, matched>>

ListSnapshots ==
  /\ collector.at = "reports" /\ collector.todo = {}
  /\ Goto("snapshots", Present \cap Snapshots)
  /\ UNCHANGED <<onDisk, evidence, lasting, matched>>

\* chain.verify, in to_dict and by the CLI once more after the export
BeginVerify ==
  /\ \/ collector.at = "snapshots" /\ collector.todo = {}
     \/ collector.at \in {"valid", "invalid"}
  /\ Goto("verify", Chain)
  /\ matched' = {f \in Chain : onDisk[f] = evidence[f]}
  /\ lasting' = {}
  /\ UNCHANGED <<onDisk, evidence>>

\* a bug to catch: a missing file is passed over
VerifyPresentFile ==
  /\ collector.at = "verify"
  /\ \E f \in collector.todo :
       IF onDisk[f] \in {0, evidence[f]} THEN Goto("verify", collector.todo \ {f})
       ELSE Goto("invalid", {})
  /\ UNCHANGED <<onDisk, evidence, lasting, matched>>

\* one that is missing, or has other content by now, makes the chain invalid
VerifyFile ==
  /\ collector.at = "verify"
  /\ \E f \in collector.todo :
       IF onDisk[f] = evidence[f] THEN Goto("verify", collector.todo \ {f})
       ELSE Goto("invalid", {})
  /\ UNCHANGED <<onDisk, evidence, lasting, matched>>

Verified ==
  /\ collector.at = "verify" /\ collector.todo = {}
  /\ Goto("valid", {})
  /\ UNCHANGED <<onDisk, evidence, lasting, matched>>

ForensicsNext ==
  \/ \E f \in Files : WriteFile(f) \/ RemoveFile(f)
  \/ Collect \/ TakeDatabase \/ Vanished \/ SkipSnapshot \/ TakeFile \/ ListSnapshots
  \/ BeginVerify \/ VerifyFile \/ Verified

ForensicsSpec == ForensicsInit /\ [][ForensicsNext]_evidenceVars

-----------------------------------------------------------------------------
(* What forensics.py owes whoever reads a chain of evidence.                *)

\* A chain that is ready for its verification lacks no file that was there all the
\* while, whatever was written and removed during the collection: a file that
\* vanishes may raise and leave no chain, but never a short one. And one that was
\* found valid had every item back in its file with the collected content at some
\* moment of that verification (forensics.py:48-71): a file that was missing, or
\* had other content throughout, is not passed over.
ChainIsWhole ==
  /\ collector.at = "snapshots" /\ collector.todo = {} => lasting \subseteq Chain
  /\ collector.at = "valid" => Chain \subseteq matched
=============================================================================
