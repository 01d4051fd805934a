----------------------------- MODULE PrintStorage ------------------------------
(***************************************************************************)
(* FingerprintStorage: the prints in memory and the one encrypted file     *)
(* that every change rewrites in place.  The process may die between any   *)
(* two steps of a save, and the machine may lose power with the file not   *)
(* yet written back.                                                       *)
(***************************************************************************)
EXTENDS Naturals

CONSTANTS
    User, Finger,
    Key,          \* the sensor's TLS keys, from which the file is encrypted
    NoFile,       \* the file does not exist
    MaxFaults     \* bound: failed reads and writes in a behaviour

VARIABLES
    up,           \* a process has initialised the storage
    _fingerprints,
    _key,         \* the sensor's key
    saving,       \* "no", or the step of save() that comes next
    file,         \* the file as processes see it
    written,      \* the file as a power loss leaves it
    faults        \* what MaxFaults bounds

vars == <<up, _fingerprints, _key, saving, file, written, faults>>

Prints  == [User -> SUBSET Finger]
Nothing == [u \in User |-> {}]

\* An authenticated file is whole or not: what a torn one decrypts to is refused.
File == [whole : BOOLEAN, key : Key, prints : Prints]

ASSUME StorageAssumption == MaxFaults \in Nat /\ NoFile \notin File

-------------------------------------------------------------------------------
\* Mutant of decrypt: the tag is not compared.
decrypt_Unchecked(f, k) == f # NoFile /\ f.key = k

\* Mutant of decrypt: a file under any key is taken.
decrypt_AnyKey(f, k) == f # NoFile /\ f.whole

decrypt(f, k) == f # NoFile /\ f.whole /\ f.key = k

\* init() and load(): a file that is missing, that fails to open or to decrypt
\* leaves the storage empty, and this process will overwrite it.
init ==
    /\ ~up /\ up' = TRUE
    /\ \/ /\ _fingerprints' = IF decrypt(file, _key) THEN file.prints ELSE Nothing
          /\ UNCHANGED faults
       \/ /\ file # NoFile /\ faults < MaxFaults
          /\ _fingerprints' = Nothing
          /\ faults' = faults + 1
    /\ UNCHANGED <<_key, saving, file, written>>

\* Every change of the prints is followed by save() in the same handler.
Changed(prints) ==
    /\ up /\ saving = "no"
    /\ _fingerprints' = prints
    /\ saving' = "fopen"
    /\ UNCHANGED <<up, _key, file, written, faults>>

insert_or_update(user, finger) ==
    Changed([_fingerprints EXCEPT ![user] = @ \cup {finger}])

\* Mutant of delete_all: the caller forgets to save.
delete_all_Unsaved(user) ==
    /\ up /\ saving = "no"
    /\ _fingerprints' = [_fingerprints EXCEPT ![user] = {}]
    /\ UNCHANGED <<up, _key, saving, file, written, faults>>

delete_all(user) == Changed([_fingerprints EXCEPT ![user] = {}])

delete_fingerprint(user, finger) ==
    /\ finger \in _fingerprints[user]
    /\ Changed([_fingerprints EXCEPT ![user] = @ \ {finger}])

Down == up' = FALSE /\ _fingerprints' = Nothing /\ saving' = "no"

\* fopen(): truncates the file.  Its failure is logged, and the null stream is
\* written to all the same.
fopen ==
    /\ up /\ saving = "fopen"
    /\ \/ /\ file' = [whole |-> FALSE, key |-> _key, prints |-> _fingerprints]
          /\ saving' = "fwrite"
          /\ UNCHANGED <<up, _fingerprints, faults>>
       \/ /\ faults < MaxFaults /\ faults' = faults + 1
          /\ Down
          /\ UNCHANGED file
    /\ UNCHANGED <<_key, written>>

\* fwrite() and fclose(): their results are not looked at.
fwrite ==
    /\ up /\ saving = "fwrite"
    /\ saving' = "no"
    /\ \/ file' = [file EXCEPT !.whole = TRUE] /\ UNCHANGED faults
       \/ faults < MaxFaults /\ faults' = faults + 1 /\ UNCHANGED file
    /\ UNCHANGED <<up, _fingerprints, _key, written>>

\* The kernel writes the file back in its own time.
WriteBack ==
    /\ written' = file
    /\ UNCHANGED <<up, _fingerprints, _key, saving, file, faults>>

Crash == up /\ Down /\ UNCHANGED <<_key, file, written, faults>>

PowerLoss == up /\ Down /\ file' = written /\ UNCHANGED <<_key, written, faults>>

\* The sensor is provisioned with another key, for instance by another system.
Rekey ==
    /\ ~up /\ _key' \in Key \ {_key}
    /\ UNCHANGED <<up, _fingerprints, saving, file, written, faults>>

Init ==
    /\ up = FALSE /\ _fingerprints = Nothing /\ _key \in Key /\ saving = "no"
    /\ file = NoFile /\ written = NoFile /\ faults = 0

Next ==
    \/ init
    \/ \E u \in User : delete_all(u) \/ \E f \in Finger : insert_or_update(u, f) \/ delete_fingerprint(u, f)
    \/ fopen \/ fwrite
    \/ WriteBack \/ Crash \/ PowerLoss \/ Rekey

Spec == Init /\ [][Next]_vars

-------------------------------------------------------------------------------
TypeOK ==
    /\ up \in BOOLEAN /\ _fingerprints \in Prints /\ _key \in Key
    /\ saving \in {"no", "fopen", "fwrite"}
    /\ file \in File \cup {NoFile} /\ written \in File \cup {NoFile}
    /\ faults \in 0..MaxFaults

\* Between two messages memory and file agree, whatever crashed before and
\* under whichever key the file was left: reading the file now would give what
\* is served.  Only a failed read or write of the file separates them.
Synced ==
    (up /\ saving = "no" /\ faults = 0) =>
        _fingerprints = IF decrypt(file, _key) THEN file.prints ELSE Nothing

\* The storage implements PrintStore: a torn or missing file and one under another
\* key are served as nothing, never as a mixture of two versions.
Contents(f) == IF f # NoFile /\ f.whole THEN {[key |-> f.key, view |-> f.prints]} ELSE {}
Store == INSTANCE PrintStore WITH
    Version <- Prints, Empty <- Nothing,
    view <- _fingerprints, key <- _key, safe <- Contents(file) \cup Contents(written)
ImplementsStore == Store!Spec
================================================================================
