-------------------------- MODULE PrintStorage_proofs --------------------------
(***************************************************************************)
(* PrintStorage keeps memory and file in step, and implements PrintStore,  *)
(* for every set of users, fingers and keys and any number of faults.      *)
(***************************************************************************)
EXTENDS PrintStorage, TLAPS

\* A save runs in a live process, and between its two steps the file is torn.
SavingOK ==
    /\ saving # "no" => up
    /\ saving = "fwrite" => file = [whole |-> FALSE, key |-> _key, prints |-> _fingerprints]

IInv == TypeOK /\ SavingOK /\ Synced

LEMMA ChangesInPrints ==
    ASSUME TypeOK, NEW u \in User, NEW f \in Finger
    PROVE  /\ [_fingerprints EXCEPT ![u] = @ \cup {f}] \in Prints
           /\ [_fingerprints EXCEPT ![u] = @ \ {f}] \in Prints
           /\ [_fingerprints EXCEPT ![u] = {}] \in Prints
BY DEF TypeOK, Prints

LEMMA TornFile ==
    ASSUME TypeOK, NEW w \in BOOLEAN
    PROVE  /\ [whole |-> w, key |-> _key, prints |-> _fingerprints] \in File
           /\ [whole |-> w, key |-> _key, prints |-> _fingerprints] # NoFile
BY StorageAssumption DEF TypeOK, File

LEMMA WholeFile ==
    ASSUME NEW f \in File
    PROVE  [f EXCEPT !.whole = TRUE] = [whole |-> TRUE, key |-> f.key, prints |-> f.prints]
<1> DEFINE g == [f EXCEPT !.whole = TRUE]
<1>1. g \in File /\ g.whole = TRUE /\ g.key = f.key /\ g.prints = f.prints
  BY DEF File
<1> HIDE DEF g
<1>2. g = [whole |-> g.whole, key |-> g.key, prints |-> g.prints]
  BY <1>1 DEF File
<1> QED
  BY <1>1, <1>2 DEF g

\* The changes of the prints, as one.
LEMMA ChangeIsChanged ==
    ASSUME TypeOK, NEW u \in User, NEW f \in Finger,
           delete_all(u) \/ insert_or_update(u, f) \/ delete_fingerprint(u, f)
    PROVE  \E p \in Prints : Changed(p)
BY ChangesInPrints DEF delete_all, insert_or_update, delete_fingerprint

LEMMA NextCases ==
    ASSUME TypeOK, Next
    PROVE  \/ init
           \/ \E p \in Prints : Changed(p)
           \/ fopen \/ fwrite \/ WriteBack \/ Crash \/ PowerLoss \/ Rekey
<1>1. ASSUME NEW u \in User, delete_all(u) PROVE \E p \in Prints : Changed(p)
  <2>1. [_fingerprints EXCEPT ![u] = {}] \in Prints
    BY DEF TypeOK, Prints
  <2> QED
    BY <1>1, <2>1 DEF delete_all
<1> QED
  BY <1>1, ChangeIsChanged DEF Next

LEMMA InvInit == Init => IInv
<1> SUFFICES ASSUME Init PROVE IInv
  OBVIOUS
<1>1. _fingerprints \in Prints
  BY DEF Init, Nothing, Prints
<1>2. faults \in 0..MaxFaults
  BY StorageAssumption DEF Init
<1>3. TypeOK
  BY <1>1, <1>2 DEF Init, TypeOK
<1> QED
  BY <1>3 DEF Init, IInv, SavingOK, Synced

LEMMA InvStep ==
    ASSUME IInv, [Next]_vars
    PROVE  IInv'
<1> USE DEF IInv, TypeOK, SavingOK, Synced
<1>a. Nothing \in Prints /\ MaxFaults \in Nat /\ faults \in Nat
  BY StorageAssumption DEF Nothing, Prints
<1>1. CASE init
  <2>1. decrypt(file, _key) => file.prints \in Prints
    BY DEF decrypt, File
  <2> QED
    BY <1>a, <1>1, <2>1 DEF init
<1>2. ASSUME NEW p \in Prints, Changed(p) PROVE IInv'
  BY <1>2 DEF Changed
<1>3. CASE fopen
  <2> DEFINE torn == [whole |-> FALSE, key |-> _key, prints |-> _fingerprints]
  <2>1. torn \in File
    BY TornFile
  <2>2. CASE file' = torn /\ saving' = "fwrite" /\ UNCHANGED <<up, _fingerprints, faults>>
    BY <1>3, <2>1, <2>2 DEF fopen
  <2>3. CASE faults < MaxFaults /\ faults' = faults + 1 /\ Down /\ UNCHANGED file
    <3>1. UNCHANGED <<_key, written>>
      BY <1>3 DEF fopen
    <3>2. faults' \in 0..MaxFaults
      BY <1>a, <2>3
    <3> QED
      BY <1>a, <2>3, <3>1, <3>2 DEF Down
  <2> QED
    BY <1>3, <2>2, <2>3 DEF fopen
<1>4. CASE fwrite
  <2> DEFINE saved == [whole |-> TRUE, key |-> _key, prints |-> _fingerprints]
  <2>a. file \in File /\ file.key = _key /\ file.prints = _fingerprints
    <3>1. file = [whole |-> FALSE, key |-> _key, prints |-> _fingerprints]
      BY <1>4 DEF fwrite
    <3> QED
      BY <3>1, TornFile
  <2>1. [file EXCEPT !.whole = TRUE] = saved
    BY <2>a, WholeFile
  <2>2. saved \in File /\ decrypt(saved, _key) /\ saved.prints = _fingerprints
    BY TornFile DEF decrypt
  <2>3. CASE file' = saved
    BY <1>4, <2>2, <2>3 DEF fwrite
  <2>4. CASE faults < MaxFaults /\ faults' = faults + 1 /\ UNCHANGED file
    BY <1>a, <1>4, <2>4 DEF fwrite
  <2> QED
    BY <1>4, <2>1, <2>3, <2>4 DEF fwrite
<1>5. CASE WriteBack
  BY <1>5 DEF WriteBack
<1>6. CASE Crash \/ PowerLoss
  BY <1>a, <1>6 DEF Crash, PowerLoss, Down
<1>7. CASE Rekey
  BY <1>7 DEF Rekey
<1>8. CASE UNCHANGED vars
  BY <1>8 DEF vars
<1> QED
  BY <1>1, <1>2, <1>3, <1>4, <1>5, <1>6, <1>7, <1>8, NextCases

LEMMA StorageInvariant == Spec => []IInv
<1>1. IInv /\ [Next]_vars => IInv'
  BY InvStep
<1> QED
  BY <1>1, InvInit, PTL DEF Spec

\* Between two messages the file holds what is served, unless a read or a write
\* of it failed.
THEOREM AlwaysSynced == Spec => []Synced
<1>1. IInv => Synced
  BY DEF IInv
<1> QED
  BY <1>1, StorageInvariant, PTL

-------------------------------------------------------------------------------
\* Every step of the storage is a step of PrintStore or changes nothing there.

LEMMA StoreInit == Init => Store!Init
BY DEF Init, Store!Init, Contents

LEMMA StoreStep ==
    ASSUME IInv, [Next]_vars
    PROVE  [Store!Next]_Store!vars
<1> USE DEF IInv, SavingOK, Contents
<1>1. CASE init
  <2>1. ASSUME decrypt(file, _key)
        PROVE  [key |-> _key, view |-> file.prints] \in Contents(file)
    BY <2>1 DEF decrypt
  <2> QED
    BY <1>1, <2>1 DEF init, Store!Next, Store!Start
<1>2. ASSUME NEW p \in Prints, Changed(p) PROVE Store!Change
  BY <1>2 DEF Changed, Store!Change
<1>3. CASE fopen
  <2>1. CASE Down /\ UNCHANGED file
    BY <1>3, <2>1 DEF fopen, Down, Store!Next, Store!Stop
  <2>2. CASE file' = [whole |-> FALSE, key |-> _key, prints |-> _fingerprints]
             /\ UNCHANGED <<up, _fingerprints, _key>>
    <3>1. Contents(file') = {}
      BY <2>2
    <3>2. Store!Settle
      BY <1>3, <2>2, <3>1 DEF fopen, Store!Settle
    <3> QED
      BY <3>2 DEF Store!Next
  <2> QED
    BY <1>3, <2>1, <2>2 DEF fopen
<1>4. CASE fwrite
  <2>1. up /\ UNCHANGED <<up, _fingerprints, _key, written>>
    BY <1>4 DEF fwrite
  <2>2. Contents(file') \subseteq Contents(file) \cup {[key |-> _key, view |-> _fingerprints]}
    BY <1>4 DEF fwrite
  <2>3. Store!Settle
    BY <2>1, <2>2 DEF Store!Settle
  <2> QED
    BY <2>3 DEF Store!Next
<1>5. CASE WriteBack
  BY <1>5 DEF WriteBack, Store!Next, Store!Settle
<1>6. CASE Crash \/ PowerLoss
  BY <1>6 DEF Crash, PowerLoss, Down, Store!Next, Store!Stop
<1>7. CASE Rekey
  BY <1>7 DEF Rekey, Store!Next, Store!Rekey
<1>8. CASE UNCHANGED vars
  BY <1>8 DEF vars, Store!vars
<1> QED
  BY <1>1, <1>2, <1>3, <1>4, <1>5, <1>6, <1>7, <1>8, NextCases DEF Store!Next

\* The storage implements PrintStore: a torn or missing file and one under another
\* key are served as nothing, never as a mixture of two versions.
THEOREM StorageImplements == Spec => ImplementsStore
<1>1. IInv /\ [Next]_vars => [Store!Next]_Store!vars
  BY StoreStep
<1> QED
  BY <1>1, StoreInit, StorageInvariant, PTL DEF Spec, Store!Spec, ImplementsStore
================================================================================
