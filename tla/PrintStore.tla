------------------------------ MODULE PrintStore -------------------------------
(***************************************************************************)
(* What the stored fingerprints promise across crashes, short of never     *)
(* being lost: a process serves prints that some process had before under  *)
(* the same key, as a whole, or none at all.                               *)
(***************************************************************************)
CONSTANTS Version,   \* what the store may hold
          Empty,     \* holding nothing
          Key        \* the keys that prints are kept under

VARIABLES up,       \* a process serves the prints
          view,     \* what it serves
          key,      \* the key that it serves them under
          safe      \* what a later process may find, and the key of each

vars == <<up, view, key, safe>>

Init == up = FALSE /\ view = Empty /\ key \in Key /\ safe = {}

Start == /\ ~up /\ up' = TRUE
         /\ view' \in {s.view : s \in {t \in safe : t.key = key}} \cup {Empty}
         /\ UNCHANGED <<key, safe>>

Change == up /\ view' \in Version /\ UNCHANGED <<up, key, safe>>

\* Saving adds what is served, under its key; nothing else is ever added.
Settle == /\ safe' \subseteq IF up THEN safe \cup {[key |-> key, view |-> view]} ELSE safe
          /\ UNCHANGED <<up, view, key>>

Stop == up /\ up' = FALSE /\ view' = Empty /\ safe' \subseteq safe /\ UNCHANGED key

Rekey == ~up /\ key' \in Key /\ UNCHANGED <<up, view, safe>>

Next == Start \/ Change \/ Settle \/ Stop \/ Rekey
Spec == Init /\ [][Next]_vars
================================================================================
