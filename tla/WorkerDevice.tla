------------------------------ MODULE WorkerDevice -----------------------------
(***************************************************************************)
(* WorkerDevice: the D-Bus object of one device.  It serves its message    *)
(* queue one message at a time; only the lookup of the sender's uid makes  *)
(* it wait in the middle of a message.                                     *)
(***************************************************************************)
EXTENDS DeviceVars

taskVars == <<listeners, workers, queueVars, event_queue, finger_present>>

\* An error reply, and list_enrolled_fingers(): nothing changes.
Reject == UNCHANGED <<claimVars, enroll_verify_task, name_owner_changed_task, taskVars, storeVars>>

\* storage.delete_*() and save().
Store(stored) ==
    /\ prints' = stored /\ disk' = stored
    /\ UNCHANGED <<claimVars, enroll_verify_task, name_owner_changed_task, taskVars>>

\* delete_enrolled_fingers(): needs no claim.
delete_enrolled_fingers(user) == Store([prints EXCEPT ![user] = {}])

delete_enrolled_fingers2 == Store([prints EXCEPT ![claimed_user] = {}])

delete_enrolled_finger(finger) ==
    IF finger \in prints[claimed_user]
    THEN Store([prints EXCEPT ![claimed_user] = @ \ {finger}])
    ELSE Reject

\* claim(): spawns the listener of the sender and records the claim.
Claimed(sender, user) ==
    /\ \E l \in FreeListeners :
        /\ listeners' = [listeners EXCEPT ![l] =
              [pc |-> "add_match", ready |-> TRUE, reply |-> "none", sender |-> sender]]
        /\ name_owner_changed_task' = l
    /\ claimed' = TRUE /\ claimed_sender' = sender /\ claimed_user' = user
    /\ UNCHANGED <<enroll_verify_task, workers, queueVars, event_queue, finger_present, storeVars>>

\* Mutant of claim: a claimed device is claimed again.
claim_Again(sender, user) == Claimed(sender, user)

claim(sender, user) == IF claimed THEN Reject ELSE Claimed(sender, user)

Unclaim == claimed' = FALSE /\ claimed_sender' = None /\ claimed_user' = None

\* Mutant of release: the device object keeps its references.
release_Kept ==
    /\ listeners' = IF name_owner_changed_task = None THEN listeners
                    ELSE Resume(listeners, name_owner_changed_task)
    /\ workers' = IF enroll_verify_task = None THEN workers
                  ELSE Resume(workers, enroll_verify_task)
    /\ UNCHANGED <<name_owner_changed_task, enroll_verify_task>>
    /\ Unclaim
    /\ UNCHANGED <<queueVars, event_queue, finger_present, storeVars>>

\* release(): resumes the listener and the worker, whatever they wait for,
\* forgets them and the claim.
release ==
    /\ listeners' = IF name_owner_changed_task = None THEN listeners
                    ELSE Resume(listeners, name_owner_changed_task)
    /\ name_owner_changed_task' = None
    /\ workers' = IF enroll_verify_task = None THEN workers
                  ELSE Resume(workers, enroll_verify_task)
    /\ enroll_verify_task' = None
    /\ Unclaim
    /\ UNCHANGED <<queueVars, event_queue, finger_present, storeVars>>

\* Mutant of StartRefused: a second task may be started beside the first.
StartRefused_Twice(is_verify, finger) ==
    is_verify /\ finger # AnyFinger /\ finger \notin prints[claimed_user]

StartRefused(is_verify, finger) ==
    \/ enroll_verify_task # None
    \/ is_verify /\ finger # AnyFinger /\ finger \notin prints[claimed_user]

\* enroll_verify_start(): one task at a time, until it is stopped or released,
\* even if it has finished.
enroll_verify_start(method, finger) ==
    LET is_verify == method = "VerifyStart"
    IN  IF StartRefused(is_verify, finger)
        THEN Reject
        ELSE /\ \E w \in FreeWorkers :
                /\ workers' = [workers EXCEPT ![w] =
                      [pc |-> "enroll", ready |-> TRUE, got |-> "none", user |-> claimed_user,
                       finger |-> finger, verify |-> is_verify, count |-> 0]]
                /\ enroll_verify_task' = w
             /\ UNCHANGED <<claimVars, name_owner_changed_task, listeners, queueVars,
                            event_queue, finger_present, storeVars>>

\* Mutants of send_enroll_stop: the task is not forgotten, it is not told, or it
\* is told with an event of the other queue.
send_enroll_stop_Kept(wk, pend) ==
    UNCHANGED enroll_verify_task /\ PutImage(wk, pend, "EnrollVerifyStop")
send_enroll_stop_Silent(wk, pend) ==
    enroll_verify_task' = None /\ workers' = wk /\ pending_get' = pend /\ UNCHANGED image_queue
send_enroll_stop_Sensor(wk, pend) ==
    enroll_verify_task' = None /\ PutImage(wk, pend, "StopSensor")

\* send_enroll_stop(): forgets the task and leaves it a stop event.
send_enroll_stop(wk, pend) ==
    /\ enroll_verify_task' = None
    /\ PutImage(wk, pend, "EnrollVerifyStop")

enroll_verify_stop ==
    IF enroll_verify_task = None THEN Reject
    ELSE /\ send_enroll_stop(workers, pending_get)
         /\ UNCHANGED <<claimVars, name_owner_changed_task, listeners, event_queue,
                        finger_present, storeVars>>

\* Mutant of name_owner_changed: the cancelled task stays linked in the queue.
name_owner_changed_Linked ==
    /\ IF enroll_verify_task = None
       THEN send_enroll_stop(workers, pending_get)
       ELSE send_enroll_stop(Finish(workers, enroll_verify_task), pending_get)
    /\ Unclaim
    /\ UNCHANGED <<name_owner_changed_task, listeners, event_queue, finger_present, storeVars>>

\* name_owner_changed(): a client left.  Whoever it was, the task is cancelled,
\* the claim is dropped and a stop event is left in the image queue.
name_owner_changed ==
    /\ IF enroll_verify_task = None
       THEN send_enroll_stop(workers, pending_get)
       ELSE send_enroll_stop(Finish(workers, enroll_verify_task),
                             pending_get \ {enroll_verify_task})
    /\ Unclaim
    /\ UNCHANGED <<name_owner_changed_task, listeners, event_queue, finger_present, storeVars>>

-------------------------------------------------------------------------------
\* handle_message() and its checks.

\* The methods that ask the bus for the sender's uid first.
get_uid ==
    /\ serving = <<>> /\ messages # <<>>
    /\ Head(messages).kind = "call" /\ Head(messages).method \in UidMethods
    /\ serving' = <<Head(messages)>>
    /\ requests' = Append(requests, [method |-> "GetConnectionUnixUser",
                                     name |-> Head(messages).sender])
    /\ messages' = Tail(messages)
    /\ UNCHANGED uid
    /\ Reject

\* Mutant of UidAnswered: a failed lookup is not handled.
UidAnswered_Ok == uid = "ok"

UidAnswered == uid # "none"

\* Mutant of Denied: the caller's account is not compared.
Denied_Never(sender, username) == FALSE

Denied(sender, username) == UserOf[sender] # username /\ sender \notin Root

\* check_uid(): an empty username means the sender's own account; only root may
\* name another one.
check_uid ==
    /\ serving # <<>> /\ UidAnswered
    /\ LET m        == serving[1]
           username == IF m.arg = None THEN UserOf[m.sender] ELSE m.arg
       IN  IF uid = "error" \/ Denied(m.sender, username)
           THEN Reject
           ELSE \/ m.method = "ListEnrolledFingers" /\ Reject
                \/ m.method = "DeleteEnrolledFingers" /\ delete_enrolled_fingers(username)
                \/ m.method = "Claim" /\ claim(m.sender, username)
    /\ serving' = <<>> /\ uid' = "none"
    /\ UNCHANGED <<messages, requests>>

\* Mutant of NotOwner: any client may use the claim of another.
NotOwner_Unclaimed(sender) == ~claimed

NotOwner(sender) == ~claimed \/ claimed_sender # sender

\* check_sender(): the methods of the claim's owner.
check_sender ==
    /\ serving = <<>> /\ messages # <<>>
    /\ Head(messages).kind = "call" /\ Head(messages).method \in ClaimMethods
    /\ LET m == Head(messages) IN
       IF NotOwner(m.sender) THEN Reject
       ELSE \/ m.method \in StartMethods /\ enroll_verify_start(m.method, m.arg)
            \/ m.method \in StopMethods /\ enroll_verify_stop
            \/ m.method = "DeleteEnrolledFinger" /\ delete_enrolled_finger(m.arg)
            \/ m.method = "DeleteEnrolledFingers2" /\ delete_enrolled_fingers2
            \/ m.method = "Release" /\ release
    /\ messages' = Tail(messages)
    /\ UNCHANGED <<serving, uid, requests>>

\* A NameOwnerChanged whose new owner is empty is taken for a departure, whoever
\* sent it; other signals have no handler.
owner_left ==
    /\ serving = <<>> /\ messages # <<>>
    /\ Head(messages).kind = "NameOwnerChanged"
    /\ name_owner_changed
    /\ messages' = Tail(messages)
    /\ UNCHANGED <<serving, uid, requests>>

unhandled ==
    /\ serving = <<>> /\ messages # <<>>
    /\ Head(messages).kind = "Signal"
    /\ Reject
    /\ messages' = Tail(messages)
    /\ UNCHANGED <<serving, uid, requests>>

handle_message ==
    /\ alive /\ ~polling
    /\ get_uid \/ check_uid \/ check_sender \/ owner_left \/ unhandled
    /\ UNCHANGED <<alive, polling, connected, rules, wire, boundVars>>
================================================================================
