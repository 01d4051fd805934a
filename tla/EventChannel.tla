------------------------------ MODULE EventChannel -----------------------------
(***************************************************************************)
(* What the event queue of the sensor task is promised: on each channel,   *)
(* in clear and over TLS, whole events in the order in which they were     *)
(* sent, until the link breaks.  Between channels there is no order.       *)
(***************************************************************************)
EXTENDS Naturals, Sequences

CONSTANTS Channel, Event

VARIABLES sent, received, broken

vars == <<sent, received, broken>>

Init == /\ sent = [c \in Channel |-> <<>>]
        /\ received = [c \in Channel |-> <<>>]
        /\ broken = FALSE

Send(c) == /\ \E e \in Event : sent' = [sent EXCEPT ![c] = Append(@, e)]
           /\ UNCHANGED <<received, broken>>

Deliver(c) == /\ ~broken
              /\ Len(received[c]) < Len(sent[c])
              /\ received' = [received EXCEPT ![c] = Append(@, sent[c][Len(@) + 1])]
              /\ UNCHANGED <<sent, broken>>

Break == broken' = TRUE /\ UNCHANGED <<sent, received>>

Next == Break \/ \E c \in Channel : Send(c) \/ Deliver(c)

Spec == Init /\ [][Next]_vars
================================================================================
