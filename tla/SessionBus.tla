------------------------------ MODULE SessionBus ------------------------------
(***************************************************************************)
(* The D-Bus clients, the bus and the delivery of what the bus sends.  The *)
(* bus is external: it forwards calls in order, answers the daemon's own   *)
(* calls in order and announces a client's disconnection to those that     *)
(* installed a match rule for it.  Both act while the loop polls: its      *)
(* tasks see nothing of what happens outside before the next poll.         *)
(***************************************************************************)
EXTENDS DeviceVars

Outstanding(c) ==
    \/ \E i \in DOMAIN wire : wire[i].kind = "call" /\ wire[i].sender = c
    \/ \E i \in DOMAIN messages : messages[i].kind = "call" /\ messages[i].sender = c
    \/ serving # <<>> /\ serving[1].sender = c

\* A client calls a method.  A polite one has no other call outstanding and
\* has stopped its enrollment or verification before it releases the device.
Send(c) ==
    /\ alive /\ polling /\ connected[c] /\ calls < MaxCalls
    /\ \E m \in Method : \E a \in ArgOf(m) :
        /\ Polite => /\ ~Outstanding(c)
                     /\ m = "Release" => enroll_verify_task = None
        /\ wire' = Append(wire, [kind |-> "call", method |-> m, sender |-> c, arg |-> a])
    /\ calls' = calls + 1
    /\ UNCHANGED <<alive, polling, connected, rules, requests, messages, deviceVars,
                   finger_present, listeners, workers, queueVars, event_queue, storeVars, events, signals>>

\* A client leaves the bus; unique names are not used twice.
Disconnect(c) ==
    /\ alive /\ polling /\ connected[c]
    /\ connected' = [connected EXCEPT ![c] = FALSE]
    /\ wire' = IF rules[c] > 0
               THEN Append(wire, [kind |-> "NameOwnerChanged", name |-> c])
               ELSE wire
    /\ UNCHANGED <<alive, polling, rules, requests, messages, deviceVars, finger_present,
                   listeners, workers, queueVars, event_queue, storeVars, boundVars>>

\* The daemon gets a signal that is not for one of its match rules.
OtherSignal ==
    /\ alive /\ polling /\ signals < MaxSignals
    /\ \E kind \in {"NameOwnerChanged", "Signal"} :
          wire' = Append(wire, [kind |-> kind, name |-> None])
    /\ signals' = signals + 1
    /\ UNCHANGED <<alive, polling, connected, rules, requests, messages, deviceVars, finger_present,
                   listeners, workers, queueVars, event_queue, storeVars, calls, events>>

\* The bus answers the daemon's oldest call.  A call that the bus refuses and
\* one that times out both end in an error answer.
BusAnswer ==
    /\ alive /\ polling /\ requests # <<>>
    /\ requests' = Tail(requests)
    /\ LET r == Head(requests) IN
       \/ /\ r.method = "AddMatch"
          /\ \E installed, ok \in BOOLEAN :
             /\ ok => installed
             /\ rules' = IF installed THEN [rules EXCEPT ![r.name] = @ + 1] ELSE rules
             /\ wire' = Append(wire, [kind |-> "reply", to |-> r.from, ok |-> ok])
       \/ /\ r.method = "RemoveMatch"
          /\ \E removed, ok \in BOOLEAN :
             /\ ok = removed
             /\ rules' = IF removed /\ rules[r.name] > 0
                         THEN [rules EXCEPT ![r.name] = @ - 1] ELSE rules
             /\ wire' = Append(wire, [kind |-> "reply", to |-> r.from, ok |-> ok])
       \/ /\ r.method = "GetConnectionUnixUser"
          /\ \E ok \in BOOLEAN :
             /\ ok => connected[r.name]
             /\ wire' = Append(wire, [kind |-> "uid", ok |-> ok])
          /\ UNCHANGED rules
    /\ UNCHANGED <<alive, polling, connected, messages, deviceVars, finger_present,
                   listeners, workers, queueVars, event_queue, storeVars, boundVars>>

\* The lookup of a uid times out after 5 seconds, before an older call for a match
\* rule that has 30; what the bus answers later is dropped.
LookupTimesOut ==
    /\ alive /\ polling
    /\ \E i \in DOMAIN requests :
        /\ requests[i].method = "GetConnectionUnixUser"
        /\ requests' = SubSeq(requests, 1, i - 1) \o SubSeq(requests, i + 1, Len(requests))
    /\ wire' = Append(wire, [kind |-> "uid", ok |-> FALSE])
    /\ UNCHANGED <<alive, polling, connected, rules, messages, deviceVars, finger_present,
                   listeners, workers, queueVars, event_queue, storeVars, boundVars>>

\* Mutant of FilterSignal: the filter wakes its listener and keeps the signal.
FilterSignal_Swallowed(l, signal) == listeners' = Resume(listeners, l) /\ UNCHANGED messages

\* Mutant of FilterSignal: the filter passes the signal on to the next filter.
FilterSignal_Again(l, signal) ==
    /\ listeners' = Resume(listeners, l)
    /\ messages' = messages \o <<signal, signal>>

\* filter_signal(): a listener's filter takes any signal, wakes the listener
\* and puts the signal on the device's message queue.
FilterSignal(l, signal) ==
    /\ listeners' = Resume(listeners, l)
    /\ messages' = Append(messages, signal)

\* The filters in place: from post() until the listener is finalized.
Filtering == {l \in Listener : listeners[l].pc \in {"exit", "return"}}

\* The connection dispatches the next item from the bus: a call goes to the
\* message queue, a signal to one filter if there is any, an answer to the
\* task that awaits it.
Dispatch ==
    /\ alive /\ polling /\ wire # <<>>
    /\ wire' = Tail(wire)
    /\ LET d == Head(wire) IN
       \/ /\ d.kind = "call"
          /\ messages' = Append(messages, d)
          /\ UNCHANGED <<listeners, uid>>
       \/ /\ d.kind \in {"NameOwnerChanged", "Signal"}
          /\ \/ \E l \in Filtering : FilterSignal(l, d)
             \/ Filtering = {} /\ UNCHANGED <<listeners, messages>>
          /\ UNCHANGED uid
       \/ /\ d.kind = "reply"
          /\ listeners' = [listeners EXCEPT ![d.to] =
                 [@ EXCEPT !.reply = IF d.ok THEN "ok" ELSE "error", !.ready = TRUE]]
          /\ UNCHANGED <<messages, uid>>
       \/ /\ d.kind = "uid"
          /\ uid' = IF d.ok THEN "ok" ELSE "error"
          /\ UNCHANGED <<messages, listeners>>
    /\ UNCHANGED <<alive, polling, connected, rules, requests, claimVars, enroll_verify_task,
                   name_owner_changed_task, serving, finger_present, workers, queueVars,
                   event_queue, storeVars, boundVars>>
================================================================================
