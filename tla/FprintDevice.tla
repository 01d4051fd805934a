------------------------------ MODULE FprintDevice -----------------------------
(***************************************************************************)
(* One fingerprint device as D-Bus clients see it: the bus, the device     *)
(* object, the listeners of its claims and its enroll and verify workers   *)
(* over the image queue.  The sensor side (WorkerControl) appears as what  *)
(* it does to the two queues; SensorControl models the task itself.        *)
(***************************************************************************)
EXTENDS SessionBus, WorkerListen, WorkerEnrollVerify, WorkerDevice, FiniteSets

\* The control task puts what the sensor reports on the image queue ...
SensorReports(e) ==
    /\ alive /\ events < MaxEvents
    /\ events' = events + 1
    /\ PutImage(workers, pending_get, e)
    /\ UNCHANGED <<alive, polling, busVars, messages, deviceVars, finger_present, listeners,
                   event_queue, storeVars, calls, signals>>

\* ... and takes its orders from the event queue.
ControlTakes ==
    /\ alive /\ ~polling /\ event_queue # <<>>
    /\ event_queue' = Tail(event_queue)
    /\ UNCHANGED <<alive, polling, busVars, messages, deviceVars, finger_present, listeners,
                   workers, queueVars, storeVars, boundVars>>

Init ==
    /\ alive = TRUE /\ polling = TRUE
    /\ connected = [c \in Client |-> TRUE]
    /\ rules = [c \in Client |-> 0]
    /\ requests = <<>> /\ wire = <<>> /\ messages = <<>>
    /\ serving = <<>> /\ uid = "none"
    /\ claimed = FALSE /\ claimed_sender = None /\ claimed_user = None
    /\ enroll_verify_task = None /\ name_owner_changed_task = None
    /\ finger_present = FALSE
    /\ listeners = [l \in Listener |-> NoListener]
    /\ workers = [w \in Worker |-> NoWorker]
    /\ pending_get = {} /\ image_queue = <<>> /\ event_queue = <<>>
    /\ prints \in [User -> SUBSET Finger] /\ disk = prints
    /\ calls = 0 /\ events = 0 /\ signals = 0

Next ==
    \/ \E c \in Client : Send(c) \/ Disconnect(c)
    \/ OtherSignal
    \/ BusAnswer \/ LookupTimesOut
    \/ Dispatch
    \/ Poll
    \/ handle_message
    \/ \E l \in Listener : ListenerStep(l)
    \/ \E w \in Worker : WorkerStep(w)
    \/ \E e \in {"FingerDown", "Image"} : SensorReports(e)
    \/ ControlTakes

Spec == Init /\ [][Next]_vars

\* The loop polls and runs what is ready, and poll after poll the bus answers
\* and what it sent is dispatched.  Clients, fingers and the sensor owe nothing.
Fairness ==
    /\ SF_vars(BusAnswer) /\ SF_vars(Dispatch) /\ WF_vars(Poll)
    /\ WF_vars(handle_message)
    /\ \A l \in Listener : WF_vars(ListenerStep(l))
    /\ \A w \in Worker : WF_vars(WorkerStep(w))

FairSpec == Spec /\ Fairness

-------------------------------------------------------------------------------
BusType ==
    /\ connected \in [Client -> BOOLEAN]
    /\ rules \in [Client -> Nat]
    /\ requests \in Seq(Request)
    /\ wire \in Seq(Call \cup Signal \cup Answer)
    /\ messages \in Seq(Call \cup Signal)
DeviceType ==
    /\ serving \in Seq(Call) /\ uid \in {"none", "ok", "error"}
    /\ claimed \in BOOLEAN
    /\ claimed_sender \in Client \cup {None} /\ claimed_user \in User \cup {None}
    /\ enroll_verify_task \in Worker \cup {None}
    /\ name_owner_changed_task \in Listener \cup {None}
ListenersOK(ls) ==
    /\ ls \in [Listener -> ListenerState]
    /\ \A l \in Listener : ls[l].pc # "done" => ls[l].sender \in Client
WorkersOK(wk) ==
    /\ wk \in [Worker -> WorkerState]
    /\ \A w \in Worker : wk[w].pc # "done" => wk[w].finger \in FingerArg
TaskType ==
    /\ ListenersOK(listeners) /\ WorkersOK(workers)
    /\ pending_get \in SUBSET Worker
    /\ image_queue \in Seq(ImageEvent) /\ event_queue \in Seq(SensorEvent)
FlagType ==
    /\ alive \in BOOLEAN /\ polling \in BOOLEAN /\ finger_present \in BOOLEAN
    /\ prints \in [User -> SUBSET FingerArg] /\ disk \in [User -> SUBSET FingerArg]
    /\ calls \in Nat /\ events \in Nat /\ signals \in Nat
TypeOK == BusType /\ DeviceType /\ TaskType /\ FlagType

\* The task that the device object refers to works for the account that holds
\* the claim: neither Release nor a disconnection nor a new claim leaves a task
\* of an earlier owner bound to the device.
SessionOwned ==
    enroll_verify_task # None =>
        /\ claimed
        /\ workers[enroll_verify_task].pc # "done" =>
               workers[enroll_verify_task].user = claimed_user

\* A listener that sleeps for the claim's owner has its rule at the bus: the rule
\* of another claim that is being removed, refused or timed out takes none away,
\* so the owner's departure from here on is announced.
RuleInstalled ==
    (claimed /\ name_owner_changed_task # None) =>
        LET l == name_owner_changed_task IN
        (listeners[l].pc = "exit" /\ ~listeners[l].ready) => rules[listeners[l].sender] > 0

\* One departure ends at most one claim: it is announced at most once, although
\* several listeners filter the same connection.
GoneOnce ==
    \A c \in Client :
        Cardinality({i \in DOMAIN (wire \o messages) :
                       (wire \o messages)[i] = [kind |-> "NameOwnerChanged", name |-> c]}) <= 1

\* A stop event that an earlier session left in the image queue never reaches
\* the running task of the session: a started task meets only stops put for it,
\* and by then the device object has let it go.
NoStaleStop ==
    (enroll_verify_task # None /\ workers[enroll_verify_task].pc = "parse_image") =>
        /\ workers[enroll_verify_task].got # "EnrollVerifyStop"
        /\ \A i \in DOMAIN image_queue : image_queue[i] # "EnrollVerifyStop"

\* Whoever waits in the image queue is a started task without an event: no event
\* of a later session is handed to a task that ended or was cancelled, and a task
\* that did not start yet has none.
GettersLive ==
    /\ \A w \in pending_get : workers[w].pc = "parse_image" /\ workers[w].got = "none"
    /\ \A w \in Worker : workers[w].pc = "enroll" => workers[w].got = "none"

\* Only root names another account's user: whoever holds the claim acts on its
\* own prints, and so does every task that works for the claim.
MayName(c, user) == c \in Root \/ UserOf[c] = user
ClaimEntitled == claimed => MayName(claimed_sender, claimed_user)

\* With polite clients at most one task collects images.
OneCollector == Polite => Cardinality({w \in Worker : workers[w].pc = "parse_image"}) <= 1

-------------------------------------------------------------------------------
\* A claim is watched: the listener of its owner still waits for a signal, was
\* refused by the bus, or what woke it is in the message queue and will drop it.
Watching(l) == \/ listeners[l].pc \in {"add_match", "post"}
               \/ listeners[l].pc = "exit" /\ ~listeners[l].ready
Refused(l)  == listeners[l].pc = "done" /\ listeners[l].reply = "error"
Watched ==
    /\ name_owner_changed_task # None
    /\ LET l == name_owner_changed_task IN
       /\ listeners[l].sender = claimed_sender
       /\ \/ Watching(l) \/ Refused(l)
          \/ \E i \in DOMAIN messages : messages[i].kind = "NameOwnerChanged"

\* A claim starts watched and stays so until the filter takes a signal that is no
\* NameOwnerChanged: that one wakes the listener for good and drops no claim.  No
\* order of releases, departures, answers and later claims does the same.
ClaimWatched ==
    [][claimed' =>
         \/ Watched'
         \/ claimed /\ ~Watched
         \/ wire # <<>> /\ Head(wire).kind = "Signal" /\ wire' = Tail(wire)]_vars

\* A claim ends only by its owner's Release or by a NameOwnerChanged signal; if it
\* is the bus's, a client has left.  It is never handed over.  (The device object
\* compares neither the signal's sender nor the name with those of the claim.)
ClaimEnds ==
    [][claimed =>
         \/ claimed' /\ claimed_sender' = claimed_sender /\ claimed_user' = claimed_user
         \/ /\ messages # <<>> /\ serving = <<>>
            /\ LET m == Head(messages) IN
               \/ m.kind = "call" /\ m.method = "Release" /\ m.sender = claimed_sender
               \/ m.kind = "NameOwnerChanged" /\ (m.name # None => ~connected[m.name])]_vars

\* The daemon ends only by a task that Release has let go before its await was
\* complete, by a second signal for a listener that already leaves, or by an image
\* of another size that a task took: no order of calls, answers and signals
\* endangers the listener or the waiting task that the device object refers to.
DiesOnly ==
    [][~alive' =>
         \/ ~alive
         \/ \E l \in Listener :
               /\ listeners[l].ready /\ listeners[l].reply = "none"
               /\ \/ listeners[l].pc = "post" /\ l # name_owner_changed_task
                  \/ listeners[l].pc = "return"
         \/ \E w \in pending_get : workers[w].ready /\ w # enroll_verify_task
         \/ \E w \in Worker : workers[w].ready /\ workers[w].got = "Image"]_vars

\* A user's prints, in memory and in the file alike, change only by a delete call
\* of someone who may name the user or by a task that was started for this user,
\* which adds its finger; where one changes, the other follows in the same step.
ServedBy(c) == \/ serving # <<>> /\ serving[1].sender = c
               \/ serving = <<>> /\ messages # <<>> /\ Head(messages).kind = "call"
                  /\ Head(messages).sender = c
PrintsChange ==
    [][\A user \in User :
         prints'[user] # prints[user] \/ disk'[user] # disk[user] =>
            /\ disk'[user] = prints'[user]
            /\ \/ /\ prints'[user] \subseteq prints[user]
                  /\ \E c \in Client : ServedBy(c) /\ MayName(c, user)
               \/ \E w \in Worker :
                     /\ workers[w].user = user /\ ~workers[w].verify
                     /\ prints'[user] = prints[user] \cup {workers[w].finger}]_vars

\* The owner's disconnection, once announced to an installed filter, ends its
\* claim even if other signals and calls arrive in between.
GoneOwner(c) == /\ claimed /\ claimed_sender = c
                /\ name_owner_changed_task \in Filtering
                /\ listeners[name_owner_changed_task].pc = "exit"
                /\ [kind |-> "NameOwnerChanged", name |-> c] \in {wire[i] : i \in DOMAIN wire}
DisconnectReleases ==
    \A c \in Client : GoneOwner(c) ~> (~alive \/ ~claimed \/ claimed_sender # c)

\* Every call is handled, whatever the bus answers to the daemon's own calls.
CallsServed == \A c \in Client : Outstanding(c) ~> (~alive \/ ~Outstanding(c))

\* A task that the device object has let go ends (polite clients).
OrphansEnd ==
    Polite => \A w \in Worker :
        (workers[w].pc # "done" /\ enroll_verify_task # w) ~> (~alive \/ workers[w].pc = "done")
================================================================================
