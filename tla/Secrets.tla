------------------------------ MODULE Secrets ------------------------------
(***************************************************************************)
(* lumenos_sandbox/secrets.py and the key of lumenos_sandbox/state.py: the *)
(* API and the commands of the CLI are processes of one user that share a  *)
(* keyring, a fallback file beside it and the row of a bunker.  The names  *)
(* are "key" (state_encryption_key) and "password" (guest_password).  A    *)
(* value is the number of the key, or 1 for a password; 0 is none.         *)
(***************************************************************************)
EXTENDS Naturals

CONSTANTS
  Users,            \* the processes (or threads) that use the two stores
  MaxKeys           \* bound: encryption keys generated

ASSUME SecretsAssumption == MaxKeys \in Nat

VARIABLES
  keyring,          \* keyring[n]: the value the OS credential store has for n
  secretFile,       \* secrets.json: its values, and whether it can be parsed
  saved,            \* the row's signing key: encrypted under which key, from what
  user,             \* user[u]: a process at its steps
  generated,        \* keys generated so far
  harmed            \* the key was lost in one of the ways it can be

secretVars == <<keyring, secretFile, saved, user, generated, harmed>>

Names == {"key", "password"}

NoSecrets == [n \in Names |-> 0]
Torn      == [whole |-> FALSE, values |-> NoSecrets]

\* at: "off", "ready", "store" (a new key is to be stored), "read" and "emptied"
\* (within _file_store or _file_delete); name: which secret it stores; text: what it
\* writes; key: _encryption_key; hold: the signing key as it has it
Off == [at |-> "off", name |-> "key", text |-> NoSecrets, key |-> 0, hold |-> "none"]

SecretsInit ==
  /\ keyring = NoSecrets
  /\ secretFile = [whole |-> TRUE, values |-> NoSecrets]
  /\ saved = [under |-> 0, holds |-> "none"]
  /\ user = [u \in Users |-> Off]
  /\ generated = 0
  /\ harmed = FALSE

InFile(u) == user[u].at \in {"read", "emptied"}

\* u has generated the key and not stored it
Generates(u) == user[u].at = "store" \/ (InFile(u) /\ user[u].name = "key")

ValueOf(u, n) == IF n = "key" THEN user[u].key ELSE 1

\* u has read the file, and is to write it with this value for n
Rewrites(u, n, value) ==
  user' = [user EXCEPT ![u].at = "read", ![u].name = n,
                       ![u].text = [secretFile.values EXCEPT ![n] = value]]

\* __init__ of the store: get_secret asks the keyring, which may fail at any
\* call, then the file, where text that cannot be parsed reads as no secret; a
\* key that is not found is generated
OpenStore(u) ==
  /\ user[u].at = "off"
  /\ \E works \in BOOLEAN :
       LET found == IF works /\ keyring["key"] # 0
                    THEN keyring["key"] ELSE secretFile.values["key"] IN
       \/ /\ found # 0
          /\ user' = [user EXCEPT ![u] = [Off EXCEPT !.at = "ready", !.key = found]]
          /\ UNCHANGED <<generated, harmed>>
       \/ /\ found = 0
          /\ generated < MaxKeys
          /\ generated' = generated + 1
          /\ user' = [user EXCEPT ![u] = [Off EXCEPT !.at = "store", !.key = generated']]
          /\ harmed' = (harmed \/ ~secretFile.whole \/ keyring["key"] # 0
                               \/ (\E o \in Users : Generates(o)))
  /\ UNCHANGED <<keyring, secretFile, saved>>

\* store_secret when the keyring works
StoreInKeyring(u, n) ==
  /\ user[u].at = IF n = "key" THEN "store" ELSE "ready"
  /\ keyring' = [keyring EXCEPT ![n] = ValueOf(u, n)]
  /\ user' = [user EXCEPT ![u].at = "ready"]
  /\ UNCHANGED <<secretFile, saved, generated, harmed>>

\* a bug to catch: the file is written with the new secret alone
FileStoreAlone(u, n) ==
  /\ user[u].at = IF n = "key" THEN "store" ELSE "ready"
  /\ user' = [user EXCEPT ![u].at = "read", ![u].name = n,
                          ![u].text = [NoSecrets EXCEPT ![n] = ValueOf(u, n)]]
  /\ harmed' = (harmed \/ ~secretFile.whole)
  /\ UNCHANGED <<keyring, secretFile, saved, generated>>

\* store_secret when it fails: _file_store reads all the file has
FileStoreReads(u, n) ==
  /\ user[u].at = IF n = "key" THEN "store" ELSE "ready"
  /\ Rewrites(u, n, ValueOf(u, n))
  /\ harmed' = (harmed \/ ~secretFile.whole)
  /\ UNCHANGED <<keyring, secretFile, saved, generated>>

\* write_text opens the file and empties it
FileStoreEmpties(u) ==
  /\ user[u].at = "read"
  /\ secretFile' = Torn
  /\ user' = [user EXCEPT ![u].at = "emptied"]
  /\ UNCHANGED <<keyring, saved, generated, harmed>>

\* and writes at its start: over a longer text that another process wrote since,
\* what is left of that text follows
FileStoreWrites(u) ==
  /\ user[u].at = "emptied"
  /\ \/ secretFile' = [whole |-> TRUE, values |-> user[u].text]
     \/ secretFile.whole /\ secretFile' = Torn
  /\ user' = [user EXCEPT ![u].at = "ready", ![u].text = NoSecrets]
  /\ UNCHANGED <<keyring, saved, generated, harmed>>

\* delete_secret: from the keyring, or if it fails or has none from the file; who
\* deletes the key means it
DeleteSecret(u, n) ==
  /\ user[u].at = "ready"
  /\ \/ /\ keyring[n] # 0
        /\ keyring' = [keyring EXCEPT ![n] = 0]
        /\ UNCHANGED user
     \/ /\ secretFile.values[n] # 0
        /\ Rewrites(u, n, 0)
        /\ UNCHANGED keyring
  /\ harmed' = (harmed \/ n = "key")
  /\ UNCHANGED <<secretFile, saved, generated>>

\* a bunker is persisted with its signing key encrypted: the one of the row if it was
\* loaded with it, or else a new one, over that of the row too
SaveRow(u) ==
  /\ user[u].at = "ready"
  /\ LET hold == IF user[u].hold = "none" THEN "plain" ELSE user[u].hold IN
     /\ saved' = [under |-> user[u].key, holds |-> hold]
     /\ user' = [user EXCEPT ![u].hold = hold]
  /\ UNCHANGED <<keyring, secretFile, generated, harmed>>

\* load: what cannot be decrypted is taken for the plaintext
LoadRow(u) ==
  /\ user[u].at = "ready"
  /\ saved.holds # "none"
  /\ user' = [user EXCEPT ![u].hold =
                IF saved.under = user[u].key THEN saved.holds ELSE "cipher"]
  /\ UNCHANGED <<keyring, secretFile, saved, generated, harmed>>

\* the process ends, or is killed between any two steps, or before the first
EndUser(u) ==
  /\ user' = [user EXCEPT ![u] = Off]
  /\ UNCHANGED <<keyring, secretFile, saved, generated, harmed>>

SecretsNext ==
  \E u \in Users :
    \/ OpenStore(u) \/ FileStoreEmpties(u) \/ FileStoreWrites(u)
    \/ \E n \in Names : StoreInKeyring(u, n) \/ FileStoreReads(u, n) \/ DeleteSecret(u, n)
    \/ SaveRow(u) \/ LoadRow(u) \/ EndUser(u)

SecretsSpec == SecretsInit /\ [][SecretsNext]_secretVars

-----------------------------------------------------------------------------
(* What secrets.py owes the store that keeps signing keys with it.          *)

\* A process that loads a bunker gets its signing key, and never the ciphertext
\* in its place ("treating as plaintext", state.py:148), whichever processes
\* stored, deleted and read secrets before it, in whichever of the two stores, and
\* whenever they died. The key of the store is lost in four ways only: someone
\* deletes it; the keyring fails in a get of the key it has; two processes
\* generate it at one time; or the file is read while it is torn, by a write under
\* way or by one whose process died in it. A write of values that were read before
\* another process wrote is not among them: by itself it loses passwords only.
SigningKeysSurvive == \A u \in Users : user[u].hold = "cipher" => harmed
=============================================================================
