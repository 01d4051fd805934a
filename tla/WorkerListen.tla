------------------------------ MODULE WorkerListen -----------------------------
(***************************************************************************)
(* WorkerListen: the task that watches a claim's owner on the bus.  It     *)
(* installs a match rule for the owner, then a message filter, and sleeps; *)
(* whatever wakes it makes it remove the rule and end.                     *)
(***************************************************************************)
EXTENDS DeviceVars

Ask(l, method) ==
    requests' = Append(requests, [method |-> method, from |-> l, name |-> listeners[l].sender])

\* The task awaits something, after which its member function pc runs, or ends.
Await(pc, l, reply) == [listeners EXCEPT ![l] = [@ EXCEPT !.pc = pc, !.ready = FALSE, !.reply = reply]]

\* add_match(): asks the bus for the rule and awaits the answer.
add_match(l) ==
    /\ listeners[l].pc = "add_match"
    /\ Ask(l, "AddMatch")
    /\ listeners' = Await("post", l, "none")
    /\ UNCHANGED alive

\* Mutant of post: the answer is not looked at.
post_Unchecked(l) ==
    /\ listeners[l].pc = "post" /\ listeners[l].reply # "none"
    /\ listeners' = Await("exit", l, listeners[l].reply)
    /\ UNCHANGED <<alive, requests>>

\* post(): an error answer ends the task; otherwise the filter is in place and
\* the task sleeps until it is resumed in exit().
post(l) ==
    /\ listeners[l].pc = "post" /\ listeners[l].reply # "none"
    /\ listeners' = Await(IF listeners[l].reply = "ok" THEN "exit" ELSE "done", l, listeners[l].reply)
    /\ UNCHANGED <<alive, requests>>

\* exit(): asks the bus to remove the rule and awaits the answer.
exit(l) ==
    /\ listeners[l].pc = "exit"
    /\ Ask(l, "RemoveMatch")
    /\ listeners' = Await("return", l, "none")
    /\ UNCHANGED alive

\* async_return() and async_finalize(): whatever the answer, the filter goes.
return(l) ==
    /\ listeners[l].pc = "return" /\ listeners[l].reply # "none"
    /\ listeners' = Await("done", l, "none")
    /\ UNCHANGED <<alive, requests>>

\* The task was resumed while its call to the bus is still pending.
PendingCallPolled(l) ==
    /\ listeners[l].pc \in {"post", "return"} /\ listeners[l].reply = "none"
    /\ Die
    /\ UNCHANGED <<listeners, requests>>

ListenerStep(l) ==
    /\ alive /\ ~polling /\ listeners[l].ready
    /\ add_match(l) \/ post(l) \/ exit(l) \/ return(l) \/ PendingCallPolled(l)
    /\ UNCHANGED <<polling, connected, rules, wire, messages, deviceVars, finger_present,
                   workers, queueVars, event_queue, storeVars, boundVars>>
================================================================================
