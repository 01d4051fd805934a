------------------------------ MODULE DeviceVars ------------------------------
(***************************************************************************)
(* The state shared by the tasks that serve one fingerprint device, and    *)
(* the primitives of the jinx coroutine loop they are written with.        *)
(*                                                                         *)
(* One thread runs every task.  A task runs until it awaits something, so  *)
(* an action of this specification is one such stretch of code.  The loop  *)
(* first lets the event engine deliver input (polling), then runs ready    *)
(* tasks, in any order, until none is ready, and polls again.  Other tasks  *)
(* than those of this module run in the same loop.                         *)
(***************************************************************************)
EXTENDS Naturals, Sequences

CONSTANTS
    Client,         \* unique D-Bus connection names
    User,           \* account names
    Finger,         \* finger names
    Listener,       \* identities of WorkerListen tasks
    Worker,         \* identities of WorkerEnrollVerify tasks
    UserOf,         \* the account that owns a client's connection
    Root,           \* the clients whose uid is 0
    MAX_TEMPLATES,  \* templates in a complete enrollment
    Method,         \* the device methods that clients call
    Username,       \* the user names that calls carry; None is the empty name
    Polite,         \* TRUE: clients await replies and stop before release
    MaxCalls,       \* bound: method calls sent in a behaviour
    MaxEvents,      \* bound: finger and image events in a behaviour
    MaxSignals,     \* bound: other signals than the bus's announcements in a behaviour
    None, AnyFinger       \* the empty argument or pointer; the "any" finger

UidMethods    == {"ListEnrolledFingers", "DeleteEnrolledFingers", "Claim"}
StartMethods  == {"EnrollStart", "VerifyStart"}
StopMethods   == {"EnrollStop", "VerifyStop"}
DeleteMethods == {"DeleteEnrolledFinger", "DeleteEnrolledFingers2"}
ClaimMethods  == StartMethods \cup StopMethods \cup DeleteMethods \cup {"Release"}

ASSUME DeviceAssumption ==
    /\ UserOf \in [Client -> User]
    /\ Root \subseteq Client
    /\ MAX_TEMPLATES \in Nat \ {0}
    /\ Method \subseteq UidMethods \cup ClaimMethods
    /\ Username \subseteq User \cup {None}
    /\ Polite \in BOOLEAN
    /\ MaxCalls \in Nat /\ MaxEvents \in Nat /\ MaxSignals \in Nat
    /\ None \notin Client \cup User \cup Finger \cup Listener \cup Worker
    /\ AnyFinger \notin Finger \cup {None}

VARIABLES
    alive,          \* the daemon process runs
    polling,        \* the event engine delivers input; no task runs
    connected,      \* clients still connected to the bus
    rules,          \* how often the daemon's match rule of a client is installed
    requests,       \* bus-bound method calls of the daemon, FIFO
    wire,           \* what the bus sends to the daemon, FIFO
    messages,       \* the device object's message queue
    serving,        \* sequence of at most one call that waits for its sender's uid
    uid,            \* the answer to it: "none", "ok" or "error"
    claimed, claimed_sender, claimed_user,
    enroll_verify_task, name_owner_changed_task,
    finger_present,
    listeners,      \* WorkerListen tasks
    workers,        \* WorkerEnrollVerify tasks
    pending_get,    \* workers linked in the image queue's list of getters
    image_queue, event_queue,
    prints,         \* fingers stored per user, in memory
    disk,           \* the same in the file
    calls, events, signals   \* what MaxCalls, MaxEvents and MaxSignals bound

busVars    == <<connected, rules, requests, wire>>
claimVars  == <<claimed, claimed_sender, claimed_user>>
deviceVars == <<claimVars, enroll_verify_task, name_owner_changed_task, serving, uid>>
queueVars  == <<pending_get, image_queue>>
storeVars  == <<prints, disk>>
boundVars  == <<calls, events, signals>>
vars == <<alive, polling, busVars, messages, deviceVars, finger_present, listeners,
          workers, queueVars, event_queue, storeVars, boundVars>>

-------------------------------------------------------------------------------
\* Messages.  Replies to clients carry no state of the daemon and are left out.

FingerArg == Finger \cup {AnyFinger}
FingerMethods == StartMethods \cup {"DeleteEnrolledFinger"}
ArgOf(m)  == IF m \in UidMethods THEN Username
             ELSE IF m \in FingerMethods THEN FingerArg
             ELSE {None}

Call == [kind : {"call"}, method : UidMethods, sender : Client, arg : User \cup {None}]
        \cup [kind : {"call"}, method : FingerMethods, sender : Client, arg : FingerArg]
        \cup [kind : {"call"}, method : ClaimMethods \ FingerMethods, sender : Client, arg : {None}]
\* A signal: the bus's announcement that a client is gone; a NameOwnerChanged of any
\* other origin, whose new owner is empty and whose name the device object does not
\* read (None); or any signal that announces no departure ("Signal").
Signal  == [kind : {"NameOwnerChanged"}, name : Client]
           \cup [kind : {"NameOwnerChanged", "Signal"}, name : {None}]
Answer  == [kind : {"reply"}, to : Listener, ok : BOOLEAN] \cup [kind : {"uid"}, ok : BOOLEAN]
Request == [method : {"AddMatch", "RemoveMatch"}, from : Listener, name : Client]
           \cup [method : {"GetConnectionUnixUser"}, name : Client]

ImageEvent  == {"FingerDown", "Image", "EnrollVerifyStop"}
SensorEvent == {"StartSensor", "StopSensor"}

-------------------------------------------------------------------------------
\* Tasks.  pc names the member function that runs next; a finished task is
\* "done" and its memory serves a later one once no TaskPtr refers to it.

ListenerState == [pc : {"add_match", "post", "exit", "return", "done"}, ready : BOOLEAN,
                  reply : {"none", "ok", "error"}, sender : Client \cup {None}]
WorkerState   == [pc : {"enroll", "parse_image", "done"}, ready : BOOLEAN,
                  got : ImageEvent \cup {"none", "cancelled"}, user : User \cup {None},
                  finger : FingerArg \cup {None}, verify : BOOLEAN, count : Nat]

NoListener == [pc |-> "done", ready |-> FALSE, reply |-> "none", sender |-> None]
NoWorker   == [pc |-> "done", ready |-> FALSE, got |-> "none", user |-> None,
               finger |-> None, verify |-> FALSE, count |-> 0]

FreeListeners == {l \in Listener : listeners[l].pc = "done" /\ l # name_owner_changed_task}
FreeWorkers   == {w \in Worker : workers[w].pc = "done" /\ w # enroll_verify_task}

\* Task::resume(): schedules a task; nothing happens to one that is scheduled
\* already, and its result is not overwritten.
Resume(tasks, t) == [tasks EXCEPT ![t].ready = @ \/ tasks[t].pc # "done"]

\* The end of a worker: async_finalize() drops its getter, its event and the
\* enrolled templates it holds.  Loop::cancel() does the same from outside.
Finish(wk, w) == [wk EXCEPT ![w] = NoWorker]

\* Resuming a task whose await is still incomplete polls that await a second
\* time, which libdbus' pending call and the queue's getter list do not allow:
\* the process ends.
Die == alive' = FALSE

-------------------------------------------------------------------------------
\* The image queue: an unbounded FIFO whose put hands the event to a waiting
\* getter if there is one.  wk and pend are the tasks and getters before the put.

Got(wk, w, e) == [wk EXCEPT ![w] = [@ EXCEPT !.got = e, !.ready = TRUE]]

PutImage(wk, pend, e) ==
    \/ /\ pend = {}
       /\ workers' = wk
       /\ pending_get' = pend
       /\ image_queue' = Append(image_queue, e)
    \/ \E w \in pend :
       /\ workers' = Got(wk, w, e)
       /\ pending_get' = pend \ {w}
       /\ UNCHANGED image_queue

\* Queue::reset(): empties the queue and resumes every waiting getter with
\* Cancelled, except those that are scheduled already.
CancelGetters(wk) ==
    [w \in Worker |-> IF w \in pending_get /\ ~wk[w].ready
                      THEN [wk[w] EXCEPT !.got = "cancelled", !.ready = TRUE]
                      ELSE wk[w]]

DeviceReady == \/ serving = <<>> /\ messages # <<>>
               \/ serving # <<>> /\ uid # "none"
AnyReady == \/ DeviceReady
            \/ \E l \in Listener : listeners[l].ready
            \/ \E w \in Worker : workers[w].ready

\* Loop::run(): input is delivered, the ready tasks run until none is left.  A
\* poll may return for a task that is not of this module.
Poll ==
    /\ alive
    /\ polling \/ ~AnyReady
    /\ polling' = ~polling
    /\ UNCHANGED <<alive, busVars, messages, deviceVars, finger_present, listeners,
                   workers, queueVars, event_queue, storeVars, boundVars>>
================================================================================
