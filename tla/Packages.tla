------------------------------ MODULE Packages ------------------------------
(***************************************************************************)
(* lumenos_sandbox/package_engine.py: create of one .lva file, which may   *)
(* replace an older one, step by step, with the death of the process       *)
(* between any two steps, and verify.  The hash of two parts is the pair   *)
(* of the parts.  deploy is left out: it opens the file as a tar from its  *)
(* first byte, which is the magic, and never gets further.                 *)
(***************************************************************************)
CONSTANTS
  Contents          \* what the source files may hold

\* what a file may hold is none of the marks used below
ASSUME PackagesAssumption ==
  Contents \cap {"none", "zero", "partial", "damaged"} = {}

VARIABLES
  source,           \* what the source files hold now
  package,          \* the .lva file
  creating,         \* the running create
  sealed            \* the parts the last finished create wrote its checksum of

packageVars == <<source, package, creating, sealed>>

Parts == Contents \cup {"partial", "damaged"}

Blank == <<"zero", "zero">>         \* 32 zero bytes, until the end

NoPackage == [manifest |-> "none", layers |-> "none", checksum |-> Blank]

Nothing == <<"none", "none">>

NoCreate == [pc |-> "idle", manifest |-> "none", digest |-> Nothing]

Body(p) == <<p.manifest, p.layers>>

PackagesInit ==
  /\ source \in Contents
  /\ package = NoPackage
  /\ creating = NoCreate
  /\ sealed = Nothing

\* a bug to catch: the checksum is not compared
VerifyManifest == package # NoPackage /\ package.manifest \in Contents

\* the manifest is one JSON text, and the checksum is that of what follows it
Verify ==
  /\ package # NoPackage
  /\ package.manifest \in Contents
  /\ package.checksum = Body(package)

\* the hashes of the layers go into the manifest
CreateHash ==
  /\ creating.pc = "idle"
  /\ creating' = [NoCreate EXCEPT !.pc = "hashed", !.manifest = source]
  /\ UNCHANGED <<source, package, sealed>>

\* header with a blank checksum, manifest, and the layers as they are by now
CreateWrite ==
  /\ creating.pc = "hashed"
  /\ package' = [manifest |-> creating.manifest, layers |-> source, checksum |-> Blank]
  /\ creating' = [creating EXCEPT !.pc = "written"]
  /\ sealed' = Nothing
  /\ UNCHANGED source

CreateDigest ==
  /\ creating.pc = "written"
  /\ creating' = [creating EXCEPT !.pc = "digested", !.digest = Body(package)]
  /\ UNCHANGED <<source, package, sealed>>

CreateSeal ==
  /\ creating.pc = "digested"
  /\ package' = [package EXCEPT !.checksum = creating.digest]
  /\ sealed' = creating.digest
  /\ creating' = NoCreate
  /\ UNCHANGED source

\* the file keeps what was written, which may be a part
CreateDies ==
  /\ creating.pc # "idle"
  /\ creating' = NoCreate
  /\ \/ UNCHANGED <<package, sealed>>
     \/ /\ creating.pc = "hashed"
        /\ \E p \in {creating.manifest, "partial"} :
             package' = [manifest |-> p, layers |-> "partial", checksum |-> Blank]
        /\ sealed' = Nothing
  /\ UNCHANGED source

SourceChanges ==
  /\ source' \in Contents
  /\ UNCHANGED <<package, creating, sealed>>

Damage ==
  /\ package # NoPackage
  /\ \/ package' = [package EXCEPT !.manifest = "damaged"]
     \/ package' = [package EXCEPT !.layers = "damaged"]
     \/ package' = [package EXCEPT !.checksum = Blank]
  /\ UNCHANGED <<source, creating, sealed>>

PackagesNext ==
  \/ CreateHash \/ CreateWrite \/ CreateDigest \/ CreateSeal \/ CreateDies
  \/ SourceChanges \/ Damage

PackagesSpec == PackagesInit /\ [][PackagesNext]_packageVars

-----------------------------------------------------------------------------
(* What package_engine.py owes its callers.                                 *)

\* verify (package_engine.py:210-241) answers valid only for a package whose
\* create came to its end, and whose manifest and layers are those the checksum
\* was taken of: a create that died half way, also over an older package of
\* the same name, and a file that was damaged later are refused, because the
\* checksum is blank until the last write (package_engine.py:314-335).  That
\* the layers are those the manifest hashed is not promised: nothing compares
\* them, and the sources are read twice.
ValidIsSealed == Verify => sealed # Nothing /\ Body(package) = sealed
=============================================================================
