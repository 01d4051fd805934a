--------------------------- MODULE FprintClaim_proofs --------------------------
(***************************************************************************)
(* The claim and the stored prints: who may hold a claim, how it ends and  *)
(* who may change which user's prints; the watch over the claim's owner:   *)
(* its listener, rule and notice; and that polite clients have one         *)
(* collecting task.                                                        *)
(***************************************************************************)
EXTENDS FprintDevice_proofs, FiniteSetTheorems, SequenceTheorems

\* Only the handlers of the device object touch the claim ...
LEMMA ClaimKept ==
    ASSUME [Next]_vars
    PROVE  handle_message \/ UNCHANGED claimVars
BY DEF Next, vars, deviceVars, Send, Disconnect, OtherSignal, BusAnswer, LookupTimesOut, Dispatch,
   Poll, ListenerStep,
   WorkerStep, SensorReports, ControlTakes

\* ... and only they and the tasks touch the prints.
LEMMA StoreKept ==
    ASSUME [Next]_vars
    PROVE  handle_message \/ (\E w \in Worker : WorkerStep(w)) \/ UNCHANGED storeVars
BY DEF Next, vars, Send, Disconnect, OtherSignal, BusAnswer, LookupTimesOut, Dispatch, Poll,
   ListenerStep, SensorReports,
   ControlTakes

\* What one message does to the claim and the prints.
LEMMA ServedStep ==
    ASSUME handle_message
    PROVE  \/ UNCHANGED <<claimVars, storeVars>>
           \/ /\ check_uid /\ UNCHANGED claimVars
              /\ delete_enrolled_fingers(IF serving[1].arg = None THEN UserOf[serving[1].sender]
                                         ELSE serving[1].arg)
              /\ ~Denied(serving[1].sender, IF serving[1].arg = None THEN UserOf[serving[1].sender]
                                            ELSE serving[1].arg)
           \/ /\ check_uid /\ UNCHANGED storeVars /\ ~claimed
              /\ claimed' = TRUE /\ claimed_sender' = serving[1].sender
              /\ claimed_user' = IF serving[1].arg = None THEN UserOf[serving[1].sender]
                                 ELSE serving[1].arg
              /\ ~Denied(claimed_sender', claimed_user')
           \/ /\ check_sender /\ UNCHANGED claimVars /\ ~NotOwner(Head(messages).sender)
              /\ delete_enrolled_finger(Head(messages).arg) \/ delete_enrolled_fingers2
           \/ check_sender /\ UNCHANGED storeVars /\ ~NotOwner(Head(messages).sender)
              /\ Head(messages).method = "Release" /\ Unclaim
           \/ owner_left /\ UNCHANGED storeVars /\ Unclaim
<1> DEFINE n == serving[1]
           username == IF n.arg = None THEN UserOf[n.sender] ELSE n.arg
           m == Head(messages)
<1>1. ASSUME Reject PROVE UNCHANGED <<claimVars, storeVars>>
  BY <1>1 DEF Reject
<1>2. CASE get_uid
  BY <1>1, <1>2 DEF get_uid
<1>3. CASE check_uid
  <2>1. CASE Reject
    BY <1>1, <2>1
  <2>2. CASE ~Denied(n.sender, username) /\ delete_enrolled_fingers(username)
    BY <1>3, <2>2 DEF delete_enrolled_fingers, Store
  <2>3. CASE ~Denied(n.sender, username) /\ claim(n.sender, username) /\ ~Reject
    BY <1>3, <2>3 DEF claim, Claimed
  <2> QED
    BY <1>3, <2>1, <2>2, <2>3 DEF check_uid
<1>4. CASE check_sender
  <2>1. CASE Reject
    BY <1>1, <2>1
  <2>2. CASE ~NotOwner(m.sender) /\ enroll_verify_start(m.method, m.arg) /\ ~Reject
    BY <2>2 DEF enroll_verify_start
  <2>3. CASE ~NotOwner(m.sender) /\ enroll_verify_stop /\ ~Reject
    BY <2>3 DEF enroll_verify_stop
  <2>4. CASE ~NotOwner(m.sender) /\ ~Reject /\ (delete_enrolled_finger(m.arg) \/ delete_enrolled_fingers2)
    BY <1>4, <2>4 DEF delete_enrolled_finger, delete_enrolled_fingers2, Store
  <2>5. CASE ~NotOwner(m.sender) /\ m.method = "Release" /\ release
    BY <1>4, <2>5 DEF release
  <2> QED
    BY <1>4, <2>1, <2>2, <2>3, <2>4, <2>5 DEF check_sender
<1>5. CASE owner_left
  BY <1>5 DEF owner_left, name_owner_changed
<1>6. CASE unhandled
  BY <1>1, <1>6 DEF unhandled
<1> QED
  BY <1>2, <1>3, <1>4, <1>5, <1>6 DEF handle_message

-------------------------------------------------------------------------------
LEMMA EntitledStep ==
    ASSUME ClaimEntitled, [Next]_vars
    PROVE  ClaimEntitled'
<1>1. CASE UNCHANGED claimVars
  BY <1>1 DEF ClaimEntitled, MayName, claimVars
<1>2. CASE handle_message
  BY <1>2, ServedStep DEF ClaimEntitled, MayName, Denied, Unclaim, claimVars
<1> QED
  BY <1>1, <1>2, ClaimKept

\* check_uid() lets nobody but root claim the device in another account's name,
\* and nothing changes the account of a claim afterwards.
THEOREM ClaimAlwaysEntitled == Spec => []ClaimEntitled
<1>1. Init => ClaimEntitled
  BY DEF Init, ClaimEntitled
<1>2. ClaimEntitled /\ [Next]_vars => ClaimEntitled'
  BY EntitledStep
<1> QED
  BY <1>1, <1>2, PTL DEF Spec

-------------------------------------------------------------------------------
\* What the bus announces is a departure, and names are not used twice.
Announces(e) == e.kind = "NameOwnerChanged" /\ e.name # None
GoneLeft == /\ \A i \in DOMAIN wire : Announces(wire[i]) => ~connected[wire[i].name]
            /\ \A i \in DOMAIN messages : Announces(messages[i]) => ~connected[messages[i].name]

\* A queue of which something was taken and to which something was added.
LEMMA QueueStep ==
    ASSUME NEW S, NEW s \in Seq(S), NEW e
    PROVE  /\ s # <<>> => \A i \in DOMAIN Tail(s) : \E j \in DOMAIN s : Tail(s)[i] = s[j]
           /\ s # <<>> => 1 \in DOMAIN s /\ Head(s) = s[1]
           /\ \A i \in DOMAIN Append(s, e) : Append(s, e)[i] = e \/ \E j \in DOMAIN s : Append(s, e)[i] = s[j]
<1>1. ASSUME s # <<>>, NEW i \in DOMAIN Tail(s) PROVE \E j \in DOMAIN s : Tail(s)[i] = s[j]
  <2>1. i + 1 \in DOMAIN s /\ Tail(s)[i] = s[i + 1]
    BY <1>1
  <2> QED
    BY <2>1
<1>2. ASSUME NEW i \in DOMAIN Append(s, e)
      PROVE  Append(s, e)[i] = e \/ \E j \in DOMAIN s : Append(s, e)[i] = s[j]
  BY <1>2
<1> QED
  BY <1>1, <1>2

LEMMA GoneStep ==
    ASSUME TypeOK, GoneLeft, [Next]_vars
    PROVE  GoneLeft'
<1>a. wire \in Seq(Call \cup Signal \cup Answer) /\ messages \in Seq(Call \cup Signal)
  BY DEF TypeOK, BusType
<1>1. ASSUME NEW c \in Client, Send(c) PROVE GoneLeft'
  <2>1. PICK e : wire' = Append(wire, e) /\ ~Announces(e)
    BY <1>1 DEF Send, Announces
  <2> QED
    BY <1>a, <1>1, <2>1, QueueStep DEF Send, GoneLeft
<1>2. ASSUME NEW c \in Client, Disconnect(c) PROVE GoneLeft'
  <2>1. \A d \in Client : connected'[d] => connected[d]
    BY <1>2 DEF Disconnect, TypeOK, BusType
  <2>2. ~connected'[c]
    BY <1>2 DEF Disconnect, TypeOK, BusType
  <2>3. /\ \A i \in DOMAIN wire : Announces(wire[i]) => wire[i].name \in Client
        /\ \A i \in DOMAIN messages : Announces(messages[i]) => messages[i].name \in Client
    BY <1>a DEF Call, Signal, Answer, Announces
  <2>4. \/ wire' = wire
        \/ wire' = Append(wire, [kind |-> "NameOwnerChanged", name |-> c])
    BY <1>2 DEF Disconnect
  <2> QED
    BY <1>a, <1>2, <2>1, <2>2, <2>3, <2>4, QueueStep DEF Disconnect, GoneLeft
<1>3. CASE BusAnswer
  <2> DEFINE r == Head(requests)
  <2>a. \A ok \in BOOLEAN : /\ [kind |-> "reply", to |-> r.from, ok |-> ok].kind # "NameOwnerChanged"
                            /\ [kind |-> "uid", ok |-> ok].kind # "NameOwnerChanged"
    OBVIOUS
  <2>b. \E ok \in BOOLEAN : \/ wire' = Append(wire, [kind |-> "reply", to |-> r.from, ok |-> ok])
                            \/ wire' = Append(wire, [kind |-> "uid", ok |-> ok])
    BY <1>3 DEF BusAnswer
  <2>1. PICK e : wire' = Append(wire, e) /\ ~Announces(e)
    BY <2>a, <2>b DEF Announces
  <2> QED
    BY <1>a, <1>3, <2>1, QueueStep DEF BusAnswer, GoneLeft
<1>4. CASE Dispatch
  <2>1. wire # <<>> /\ wire' = Tail(wire) /\ UNCHANGED connected
    BY <1>4 DEF Dispatch
  <2>2. UNCHANGED messages \/ messages' = Append(messages, Head(wire))
    BY <1>4 DEF Dispatch, FilterSignal
  <2>3. Announces(Head(wire)) => ~connected[Head(wire).name]
    BY <1>a, <2>1, QueueStep DEF GoneLeft
  <2>4. \A i \in DOMAIN wire' : Announces(wire'[i]) => ~connected[wire'[i].name]
    BY <1>a, <2>1, QueueStep DEF GoneLeft
  <2>5. \A i \in DOMAIN messages' : Announces(messages'[i]) => ~connected[messages'[i].name]
    BY <1>a, <2>2, <2>3, QueueStep DEF GoneLeft
  <2> QED
    BY <2>1, <2>4, <2>5 DEF GoneLeft
<1>5. CASE handle_message
  <2>1. UNCHANGED <<wire, connected>> /\ (UNCHANGED messages \/ (messages # <<>> /\ messages' = Tail(messages)))
    BY <1>5 DEF handle_message, get_uid, check_uid, check_sender, owner_left, unhandled
  <2> QED
    BY <1>a, <2>1, QueueStep DEF GoneLeft
<1>6. CASE UNCHANGED <<wire, messages, connected>>
  BY <1>6 DEF GoneLeft
<1>7. ASSUME \/ Poll \/ ControlTakes \/ UNCHANGED vars
             \/ \E l \in Listener : ListenerStep(l)
             \/ \E w \in Worker : WorkerStep(w)
             \/ \E e \in {"FingerDown", "Image"} : SensorReports(e)
      PROVE  UNCHANGED <<wire, messages, connected>>
  BY <1>7 DEF Poll, ControlTakes, ListenerStep, WorkerStep, SensorReports, vars, busVars
<1>8. CASE OtherSignal
  <2>1. PICK kind : wire' = Append(wire, [kind |-> kind, name |-> None])
    BY <1>8 DEF OtherSignal
  <2> QED
    BY <1>a, <1>8, <2>1, QueueStep DEF OtherSignal, GoneLeft, Announces
<1>9. CASE LookupTimesOut
  <2>1. wire' = Append(wire, [kind |-> "uid", ok |-> FALSE])
    BY <1>9 DEF LookupTimesOut
  <2> QED
    BY <1>a, <1>9, <2>1, QueueStep DEF LookupTimesOut, GoneLeft, Announces
<1> QED
  BY <1>1, <1>2, <1>3, <1>4, <1>5, <1>6, <1>7, <1>8, <1>9 DEF Next

LEMMA GoneInvariant == Spec => []GoneLeft
<1>1. Init => GoneLeft
  BY DEF Init, GoneLeft
<1>2. TypeOK /\ GoneLeft /\ [Next]_vars => GoneLeft'
  BY GoneStep
<1> QED
  BY <1>1, <1>2, TypeCorrect, PTL DEF Spec

LEMMA EndsStep ==
    ASSUME TypeOK, GoneLeft, [Next]_vars, claimed
    PROVE  \/ claimed' /\ claimed_sender' = claimed_sender /\ claimed_user' = claimed_user
           \/ /\ messages # <<>> /\ serving = <<>>
              /\ LET m == Head(messages) IN
                 \/ m.kind = "call" /\ m.method = "Release" /\ m.sender = claimed_sender
                 \/ m.kind = "NameOwnerChanged" /\ (m.name # None => ~connected[m.name])
<1>1. CASE UNCHANGED claimVars
  BY <1>1 DEF claimVars
<1>2. CASE check_sender /\ ~NotOwner(Head(messages).sender) /\ Head(messages).method = "Release"
  BY <1>2 DEF check_sender, NotOwner
<1>3. CASE owner_left
  <2>1. messages # <<>> /\ serving = <<>> /\ Head(messages).kind = "NameOwnerChanged"
    BY <1>3 DEF owner_left
  <2>2. Head(messages).name # None => ~connected[Head(messages).name]
    BY <2>1, QueueStep DEF GoneLeft, Announces, TypeOK, BusType
  <2> QED
    BY <2>1, <2>2
<1> QED
  BY <1>1, <1>2, <1>3, ClaimKept, ServedStep

\* A claim ends only by its owner's Release or by a NameOwnerChanged signal, which
\* if it is the bus's means that a client has left.
THEOREM ClaimOnlyEnds == Spec => ClaimEnds
<1>1. TypeOK /\ GoneLeft /\ [Next]_vars =>
        [claimed =>
         \/ claimed' /\ claimed_sender' = claimed_sender /\ claimed_user' = claimed_user
         \/ /\ messages # <<>> /\ serving = <<>>
            /\ LET m == Head(messages) IN
               \/ m.kind = "call" /\ m.method = "Release" /\ m.sender = claimed_sender
               \/ m.kind = "NameOwnerChanged" /\ (m.name # None => ~connected[m.name])]_vars
  BY EndsStep
<1> QED
  BY <1>1, GoneInvariant, TypeCorrect, PTL DEF Spec, ClaimEnds

-------------------------------------------------------------------------------
LEMMA PrintsStep ==
    ASSUME TypeOK, ClaimEntitled, [Next]_vars, NEW user \in User,
           prints'[user] # prints[user]
    PROVE  \/ /\ prints'[user] \subseteq prints[user]
              /\ \E c \in Client : ServedBy(c) /\ MayName(c, user)
           \/ \E w \in Worker :
                 /\ workers[w].user = user /\ ~workers[w].verify
                 /\ prints'[user] = prints[user] \cup {workers[w].finger}
<1>a. prints \in [User -> SUBSET FingerArg]
  BY DEF TypeOK, FlagType
<1>1. ASSUME NEW w \in Worker, WorkerStep(w)
      PROVE  /\ workers[w].user = user /\ ~workers[w].verify
             /\ prints'[user] = prints[user] \cup {workers[w].finger}
  <2>1. EnrollCompleted(w)
    BY <1>1 DEF WorkerStep, enroll, parse_image, FingerDown, VerifyMatch, Retry, StagePassed,
       Stopped, Cancelled, GetPolled, WrongSize, storeVars
  <2>2. /\ ~workers[w].verify
        /\ prints' = [prints EXCEPT ![workers[w].user] = @ \cup {workers[w].finger}]
    BY <2>1 DEF EnrollCompleted, EnrollImage, Commit
  <2> QED
    BY <1>a, <2>2
<1>2. CASE handle_message
  <2> DEFINE n == serving[1]
             username == IF n.arg = None THEN UserOf[n.sender] ELSE n.arg
             m == Head(messages)
  <2>1. CASE check_uid /\ delete_enrolled_fingers(username) /\ ~Denied(n.sender, username)
    <3>1. serving # <<>> /\ n.sender \in Client
      BY <2>1, CallParts DEF check_uid, TypeOK, DeviceType
    <3>2. prints' = [prints EXCEPT ![username] = {}]
      BY <2>1 DEF delete_enrolled_fingers, Store
    <3>3. username = user /\ prints'[user] = {}
      BY <1>a, <3>2
    <3>4. ServedBy(n.sender) /\ MayName(n.sender, user)
      BY <2>1, <3>1, <3>3 DEF ServedBy, MayName, Denied
    <3> QED
      BY <3>1, <3>3, <3>4
  <2>2. CASE /\ check_sender /\ ~NotOwner(m.sender)
             /\ delete_enrolled_finger(m.arg) \/ delete_enrolled_fingers2
    <3>1. m.sender = claimed_sender /\ MayName(m.sender, claimed_user)
      BY <2>2 DEF NotOwner, ClaimEntitled
    <3>2. m.sender \in Client /\ ServedBy(m.sender)
      BY <2>2, HeadTail, MessageParts, CallParts DEF check_sender, ServedBy, TypeOK, BusType
    <3>3. \/ prints' = prints
          \/ prints' = [prints EXCEPT ![claimed_user] = @ \ {m.arg}]
          \/ prints' = [prints EXCEPT ![claimed_user] = {}]
      BY <2>2 DEF delete_enrolled_finger, delete_enrolled_fingers2, Store, Reject, storeVars
    <3>4. claimed_user = user /\ prints'[user] \subseteq prints[user]
      BY <1>a, <3>3
    <3> QED
      BY <3>1, <3>2, <3>4
  <2>3. ~ UNCHANGED storeVars
    BY DEF storeVars
  <2> QED
    BY <1>2, <2>1, <2>2, <2>3, ServedStep
<1>3. ~ UNCHANGED storeVars
  BY DEF storeVars
<1> QED
  BY <1>1, <1>2, <1>3, StoreKept

\* What a handler or a task writes to memory it writes to the file.
LEMMA SavedStep ==
    ASSUME disk = prints, [Next]_vars
    PROVE  disk' = prints'
<1>1. CASE UNCHANGED storeVars
  BY <1>1 DEF storeVars
<1>2. CASE handle_message
  <2>1. ASSUME NEW finger, delete_enrolled_finger(finger) PROVE disk' = prints'
    BY <1>1, <2>1 DEF delete_enrolled_finger, Reject, Store
  <2> QED
    BY <1>1, <1>2, <2>1, ServedStep DEF delete_enrolled_fingers, delete_enrolled_fingers2, Store, storeVars
<1>3. ASSUME NEW w \in Worker, WorkerStep(w) PROVE disk' = prints'
  BY <1>1, <1>3 DEF WorkerStep, enroll, parse_image, FingerDown, VerifyMatch, Retry, StagePassed,
     EnrollCompleted, Commit, Stopped, Cancelled, GetPolled, WrongSize
<1> QED
  BY <1>1, <1>2, <1>3, StoreKept

LEMMA SavedInvariant == Spec => [](disk = prints)
<1>1. Init => disk = prints
  BY DEF Init
<1>2. disk = prints /\ [Next]_vars => (disk = prints)'
  BY SavedStep
<1> QED
  BY <1>1, <1>2, PTL DEF Spec

\* A user's prints, in memory and in the file, change only by a delete call of
\* someone who may name the user, or by a task that was started for this user and
\* adds its finger; neither changes without the other.
THEOREM PrintsOnlyChange == Spec => PrintsChange
<1>1. TypeOK /\ ClaimEntitled /\ disk = prints /\ [Next]_vars =>
        [\A user \in User :
         prints'[user] # prints[user] \/ disk'[user] # disk[user] =>
            /\ disk'[user] = prints'[user]
            /\ \/ /\ prints'[user] \subseteq prints[user]
                  /\ \E c \in Client : ServedBy(c) /\ MayName(c, user)
               \/ \E w \in Worker :
                     /\ workers[w].user = user /\ ~workers[w].verify
                     /\ prints'[user] = prints[user] \cup {workers[w].finger}]_vars
  <2>1. ASSUME disk = prints, [Next]_vars PROVE disk' = prints'
    BY <2>1, SavedStep
  <2> QED
    BY <2>1, PrintsStep
<1> QED
  BY <1>1, ClaimAlwaysEntitled, SavedInvariant, TypeCorrect, PTL DEF Spec, PrintsChange

-------------------------------------------------------------------------------
(***************************************************************************)
(* The claim's listener: its calls to the bus and their answers, its rule  *)
(* at the bus, and the one notice of the owner's departure that it passes  *)
(* on to the device object.                                                *)
(***************************************************************************)

\* A call of listener l that the bus has not answered, and an answer to it on
\* the way to the daemon.
AskedAt(l, i)    == i \in DOMAIN requests /\ requests[i].method # "GetConnectionUnixUser" /\ requests[i].from = l
AnsweredAt(l, i) == i \in DOMAIN wire /\ wire[i].kind = "reply" /\ wire[i].to = l

\* A listener has one call under way at most, and awaits it.
Awaiting(l) == listeners[l].pc \in {"post", "return"} /\ listeners[l].reply = "none"
AskedOnce == \A l \in Listener, i, j \in DOMAIN requests : AskedAt(l, i) /\ AskedAt(l, j) => i = j
AnsweredOnce == \A l \in Listener, i, j \in DOMAIN wire : AnsweredAt(l, i) /\ AnsweredAt(l, j) => i = j
AskedAwaits ==
    \A l \in Listener, i \in DOMAIN requests :
        AskedAt(l, i) => /\ Awaiting(l) /\ requests[i].name = listeners[l].sender
                         /\ requests[i].method = IF listeners[l].pc = "post" THEN "AddMatch" ELSE "RemoveMatch"
                         /\ \A j \in DOMAIN wire : ~AnsweredAt(l, j)
AnsweredAwaits == \A l \in Listener, i \in DOMAIN wire : AnsweredAt(l, i) => Awaiting(l)
ReplyKept == \A l \in Listener : /\ listeners[l].pc = "exit" => listeners[l].reply = "ok"
                                 /\ listeners[l].pc = "add_match" => listeners[l].reply = "none"
CallsPaired == AskedOnce /\ AnsweredOnce /\ AskedAwaits /\ AnsweredAwaits /\ ReplyKept

\* The listeners of a client whose rule the bus has accepted and not been asked
\* to remove yet; the bus holds the rule at least as often.
Accepted(l) == \E i \in DOMAIN wire : AnsweredAt(l, i) /\ wire[i].ok
Leaving(l)  == \E i \in DOMAIN requests : AskedAt(l, i) /\ requests[i].method = "RemoveMatch"
Granted(l)  == \/ listeners[l].pc = "exit"
               \/ listeners[l].pc = "post" /\ (listeners[l].reply = "ok" \/ Accepted(l))
               \/ Leaving(l)
Holding(c) == {l \in Listener : listeners[l].sender = c /\ Granted(l)}
RulesCounted == \A c \in Client : IsFiniteSet(Holding(c)) /\ Cardinality(Holding(c)) <= rules[c]

\* The notice of a client's departure is in one place.
NoticeOf(e, c) == e.kind = "NameOwnerChanged" /\ e.name = c
OneNotice ==
    \A c \in Client :
        /\ \A i, j \in DOMAIN wire : NoticeOf(wire[i], c) /\ NoticeOf(wire[j], c) => i = j
        /\ \A i, j \in DOMAIN messages : NoticeOf(messages[i], c) /\ NoticeOf(messages[j], c) => i = j
        /\ \A i \in DOMAIN wire, j \in DOMAIN messages : ~(NoticeOf(wire[i], c) /\ NoticeOf(messages[j], c))

-------------------------------------------------------------------------------
\* The positions of a queue that grows, and of one whose head is taken.
LEMMA Grown ==
    ASSUME NEW S, NEW q \in Seq(S), NEW e
    PROVE  /\ DOMAIN Append(q, e) = DOMAIN q \cup {Len(q) + 1} /\ Len(q) + 1 \notin DOMAIN q
           /\ \A i \in DOMAIN q : Append(q, e)[i] = q[i]
           /\ Append(q, e)[Len(q) + 1] = e
  OBVIOUS

LEMMA Shrunk ==
    ASSUME NEW S, NEW q \in Seq(S), q # <<>>
    PROVE  /\ Head(q) = q[1] /\ 1 \in DOMAIN q /\ DOMAIN q \subseteq Nat \ {0} /\ DOMAIN Tail(q) \subseteq Nat \ {0}
           /\ \A i \in DOMAIN Tail(q) : i + 1 \in DOMAIN q /\ Tail(q)[i] = q[i + 1]
           /\ \A i \in DOMAIN q : i = 1 \/ (i - 1 \in DOMAIN Tail(q) /\ Tail(q)[i - 1] = q[i])
  OBVIOUS

\* A step that neither makes nor answers a call of a listener.
SameTasks == \A l \in Listener : /\ listeners'[l].pc = listeners[l].pc /\ listeners'[l].reply = listeners[l].reply
                                 /\ listeners'[l].sender = listeners[l].sender
LEMMA CallsUntouched ==
    ASSUME TypeOK, CallsPaired, SameTasks,
           requests' = requests \/ \E r : requests' = Append(requests, r) /\ r.method = "GetConnectionUnixUser",
           wire' = wire \/ \E e : wire' = Append(wire, e) /\ e.kind # "reply"
    PROVE  CallsPaired' /\ \A l \in Listener : Granted(l)' <=> Granted(l)
<1>a. requests \in Seq(Request) /\ wire \in Seq(Call \cup Signal \cup Answer)
  BY DEF TypeOK, BusType
<1>1. /\ DOMAIN requests \subseteq DOMAIN requests'
      /\ \A i \in DOMAIN requests : requests'[i] = requests[i]
      /\ \A i \in DOMAIN requests' \ DOMAIN requests : requests'[i].method = "GetConnectionUnixUser"
  <2>1. CASE requests' = requests
    BY <2>1
  <2>2. ASSUME NEW r, requests' = Append(requests, r), r.method = "GetConnectionUnixUser"
        PROVE <1>1
    BY <1>a, <2>2, Grown
  <2> QED
    BY <2>1, <2>2
<1>2. /\ DOMAIN wire \subseteq DOMAIN wire'
      /\ \A i \in DOMAIN wire : wire'[i] = wire[i]
      /\ \A i \in DOMAIN wire' \ DOMAIN wire : wire'[i].kind # "reply"
  <2>1. CASE wire' = wire
    BY <2>1
  <2>2. ASSUME NEW e, wire' = Append(wire, e), e.kind # "reply"
        PROVE <1>2
    BY <1>a, <2>2, Grown
  <2> QED
    BY <2>1, <2>2
<1>3. AskedOnce' /\ AnsweredOnce'
  BY <1>1, <1>2 DEF CallsPaired, AskedOnce, AnsweredOnce, AskedAt, AnsweredAt
<1>4. AskedAwaits'
  BY <1>1, <1>2 DEF CallsPaired, AskedAwaits, SameTasks, AskedAt, AnsweredAt, Awaiting
<1>5. AnsweredAwaits' /\ ReplyKept'
  BY <1>2 DEF CallsPaired, AnsweredAwaits, ReplyKept, SameTasks, AnsweredAt, Awaiting
<1>6. \A l \in Listener : Granted(l)' <=> Granted(l)
  <2>1. \A l \in Listener : Accepted(l)' <=> Accepted(l)
    BY <1>2 DEF Accepted, AnsweredAt
  <2>2. \A l \in Listener : Leaving(l)' <=> Leaving(l)
    BY <1>1 DEF Leaving, AskedAt
  <2> QED
    BY <2>1, <2>2 DEF Granted, SameTasks
<1> QED
  BY <1>3, <1>4, <1>5, <1>6 DEF CallsPaired

\* Dispatch takes the oldest answer to its listener, which awaits it.
LEMMA DispatchCalls ==
    ASSUME TypeOK, CallsPaired, Dispatch
    PROVE  /\ CallsPaired'
           /\ \A l \in Listener : (Granted(l)' <=> Granted(l)) /\ listeners'[l].sender = listeners[l].sender
<1> DEFINE d == Head(wire)
<1>a. wire \in Seq(Call \cup Signal \cup Answer) /\ wire # <<>> /\ wire' = Tail(wire) /\ requests' = requests
  BY DEF TypeOK, BusType, Dispatch
<1>b. listeners \in [Listener -> ListenerState]
  BY DEF TypeOK, TaskType, ListenersOK
<1>1. /\ d = wire[1] /\ 1 \in DOMAIN wire /\ DOMAIN wire \subseteq Nat \ {0} /\ DOMAIN wire' \subseteq Nat \ {0}
      /\ \A i \in DOMAIN wire' : i + 1 \in DOMAIN wire /\ wire'[i] = wire[i + 1]
      /\ \A i \in DOMAIN wire : i = 1 \/ (i - 1 \in DOMAIN wire' /\ wire'[i - 1] = wire[i])
  BY <1>a, Shrunk
<1>2. AnsweredOnce'
  BY <1>1 DEF CallsPaired, AnsweredOnce, AnsweredAt
<1>5. \A l \in Listener : Leaving(l)' <=> Leaving(l)
  BY <1>a DEF Leaving, AskedAt
<1>3. CASE d.kind # "reply"
  <2>1. SameTasks
    <3>1. UNCHANGED listeners \/ \E l \in Filtering : listeners' = Resume(listeners, l)
      BY <1>3 DEF Dispatch, FilterSignal
    <3> QED
      BY <1>b, <3>1 DEF SameTasks, Resume, ListenerState
  <2>2. AskedOnce' /\ AskedAwaits'
    BY <1>a, <1>1, <2>1 DEF CallsPaired, AskedOnce, AskedAwaits, SameTasks, AskedAt, AnsweredAt, Awaiting
  <2>3. AnsweredAwaits' /\ ReplyKept'
    BY <1>1, <2>1 DEF CallsPaired, AnsweredAwaits, ReplyKept, SameTasks, AnsweredAt, Awaiting
  <2>4. ASSUME NEW l \in Listener PROVE Granted(l)' <=> Granted(l)
    <3>1. Accepted(l)' <=> Accepted(l)
      BY <1>1, <1>3 DEF Accepted, AnsweredAt
    <3> QED
      BY <1>5, <2>1, <3>1 DEF Granted, SameTasks
  <2> QED
    BY <1>2, <2>1, <2>2, <2>3, <2>4 DEF CallsPaired, SameTasks
<1>4. CASE d.kind = "reply"
  <2>0. d.to \in Listener
    BY <1>a, <1>4, HeadTail, WireKinds
  <2>1. PICK to \in Listener : to = d.to
    BY <2>0
  <2>2. listeners' = [listeners EXCEPT ![to] =
                 [@ EXCEPT !.reply = IF d.ok THEN "ok" ELSE "error", !.ready = TRUE]]
    BY <1>4, <2>1 DEF Dispatch
  <2>3. AnsweredAt(to, 1) /\ Awaiting(to)
    BY <1>1, <1>4, <2>1 DEF CallsPaired, AnsweredAwaits, AnsweredAt
  <2>4. /\ \A i \in DOMAIN requests : ~AskedAt(to, i)
        /\ \A i \in DOMAIN wire' : ~AnsweredAt(to, i)'
        /\ \A i \in DOMAIN wire : AnsweredAt(to, i) => i = 1
    <3>1. \A i \in DOMAIN requests : ~AskedAt(to, i)
      BY <1>1, <2>1, <2>3 DEF CallsPaired, AskedAwaits
    <3>2. \A i \in DOMAIN wire : AnsweredAt(to, i) => i = 1
      BY <1>1, <2>1, <2>3 DEF CallsPaired, AnsweredOnce
    <3>3. \A i \in DOMAIN wire' : ~AnsweredAt(to, i)'
      BY <1>1, <2>1, <2>3 DEF CallsPaired, AnsweredOnce, AnsweredAt
    <3> QED
      BY <3>1, <3>2, <3>3
  <2>5. /\ \A l \in Listener : listeners'[l].pc = listeners[l].pc /\ listeners'[l].sender = listeners[l].sender
        /\ \A l \in Listener \ {to} : listeners'[l].reply = listeners[l].reply
        /\ listeners'[to].reply = IF d.ok THEN "ok" ELSE "error"
    BY <1>b, <2>1, <2>2 DEF ListenerState
  <2>6. AskedOnce' /\ AskedAwaits'
    BY <1>a, <1>1, <2>4, <2>5 DEF CallsPaired, AskedOnce, AskedAwaits, AskedAt, AnsweredAt, Awaiting
  <2>7. AnsweredAwaits' /\ ReplyKept'
    BY <1>1, <2>3, <2>4, <2>5 DEF CallsPaired, AnsweredAwaits, ReplyKept, AnsweredAt, Awaiting
  <2>8. ASSUME NEW l \in Listener \ {to} PROVE Granted(l)' <=> Granted(l)
    <3>1. Accepted(l)' <=> Accepted(l)
      BY <1>1, <1>4, <2>1 DEF Accepted, AnsweredAt
    <3> QED
      BY <1>5, <2>5, <3>1 DEF Granted
  <2>9. Granted(to)' <=> Granted(to)
    <3>1. ~Leaving(to)
      BY <2>4 DEF Leaving, AskedAt
    <3>2. Accepted(to) <=> d.ok
      BY <1>1, <2>3, <2>4 DEF Accepted
    <3>3. ~Accepted(to)'
      BY <2>4 DEF Accepted, AnsweredAt
    <3> QED
      BY <1>5, <2>1, <2>3, <2>5, <3>1, <3>2, <3>3 DEF Granted, Awaiting
  <2> QED
    BY <1>2, <2>5, <2>6, <2>7, <2>8, <2>9 DEF CallsPaired
<1> QED
  BY <1>3, <1>4

\* What Await leaves of a listener.
LEMMA AwaitParts ==
    ASSUME TypeOK, NEW l \in Listener, NEW next, NEW reply, listeners' = Await(next, l, reply)
    PROVE  /\ listeners'[l].pc = next /\ listeners'[l].reply = reply /\ listeners'[l].ready = FALSE
           /\ \A k \in Listener : listeners'[k].sender = listeners[k].sender
           /\ \A k \in Listener \ {l} : listeners'[k] = listeners[k]
<1>1. listeners \in [Listener -> ListenerState]
  BY DEF TypeOK, TaskType, ListenersOK
<1> QED
  BY <1>1 DEF Await, ListenerState

\* A listener that asks the bus has nothing under way yet.
LEMMA AskCalls ==
    ASSUME TypeOK, CallsPaired, NEW l \in Listener, wire' = wire,
           \/ listeners[l].pc = "add_match" /\ Ask(l, "AddMatch") /\ listeners' = Await("post", l, "none")
           \/ listeners[l].pc = "exit" /\ Ask(l, "RemoveMatch") /\ listeners' = Await("return", l, "none")
    PROVE  CallsPaired' /\ \A k \in Listener : Granted(k)' <=> Granted(k)
<1>a. requests \in Seq(Request)
  BY DEF TypeOK, BusType
<1> DEFINE method == IF listeners[l].pc = "add_match" THEN "AddMatch" ELSE "RemoveMatch"
           sender == listeners[l].sender
<1>1. /\ method \in {"AddMatch", "RemoveMatch"}
      /\ sender = listeners[l].sender
      /\ requests' = Append(requests, [method |-> method, from |-> l, name |-> sender])
      /\ IF method = "AddMatch" THEN listeners[l].pc = "add_match" /\ listeners' = Await("post", l, "none")
         ELSE listeners[l].pc = "exit" /\ listeners' = Await("return", l, "none")
  BY DEF Ask
<1> HIDE DEF method, sender
<1> DEFINE next == IF method = "AddMatch" THEN "post" ELSE "return"
           n == Len(requests) + 1
<1>2. /\ listeners'[l].pc = next /\ listeners'[l].reply = "none"
      /\ \A k \in Listener : listeners'[k].sender = listeners[k].sender
      /\ \A k \in Listener \ {l} : listeners'[k] = listeners[k]
  <2>1. listeners' = Await(next, l, "none")
    BY <1>1
  <2> HIDE DEF next
  <2> QED
    BY <2>1, AwaitParts
<1>3. /\ DOMAIN requests' = DOMAIN requests \cup {n} /\ n \notin DOMAIN requests
      /\ \A i \in DOMAIN requests : requests'[i] = requests[i]
      /\ requests'[n].method = method /\ requests'[n].from = l /\ requests'[n].name = sender
  BY <1>a, <1>1, Grown
<1>4. /\ \A i \in DOMAIN requests : ~AskedAt(l, i)
      /\ \A i \in DOMAIN wire : ~AnsweredAt(l, i)
  BY <1>1 DEF CallsPaired, AskedAwaits, AnsweredAwaits, Awaiting
<1>5. AskedOnce'
  BY <1>3, <1>4 DEF CallsPaired, AskedOnce, AskedAt
<1>6. AnsweredOnce' /\ AnsweredAwaits' /\ ReplyKept'
  BY <1>2, <1>4 DEF CallsPaired, AnsweredOnce, AnsweredAwaits, ReplyKept, AnsweredAt, Awaiting
<1>7. AskedAwaits'
  <2>1. ASSUME NEW k \in Listener \ {l}, NEW i \in DOMAIN requests', AskedAt(k, i)'
        PROVE  /\ Awaiting(k)' /\ requests'[i].name = listeners'[k].sender
               /\ requests'[i].method = IF listeners'[k].pc = "post" THEN "AddMatch" ELSE "RemoveMatch"
               /\ \A j \in DOMAIN wire' : ~AnsweredAt(k, j)'
    <3>1. i \in DOMAIN requests /\ AskedAt(k, i) /\ requests'[i] = requests[i]
      BY <1>1, <1>3, <2>1 DEF AskedAt
    <3> QED
      BY <1>2, <3>1 DEF CallsPaired, AskedAwaits, Awaiting, AnsweredAt
  <2>2. ASSUME NEW i \in DOMAIN requests', AskedAt(l, i)'
        PROVE  /\ Awaiting(l)' /\ requests'[i].name = listeners'[l].sender
               /\ requests'[i].method = IF listeners'[l].pc = "post" THEN "AddMatch" ELSE "RemoveMatch"
               /\ \A j \in DOMAIN wire' : ~AnsweredAt(l, j)'
    <3>1. i = n
      BY <1>3, <1>4, <2>2 DEF AskedAt
    <3> QED
      BY <1>1, <1>2, <1>3, <1>4, <3>1 DEF Awaiting, AnsweredAt
  <2> QED
    BY <2>1, <2>2 DEF AskedAwaits
<1>8. ASSUME NEW k \in Listener PROVE Granted(k)' <=> Granted(k)
  <2>1. Accepted(k)' <=> Accepted(k)
    BY DEF Accepted, AnsweredAt
  <2>2. CASE k # l
    <3>1. Leaving(k)' <=> Leaving(k)
      BY <1>3, <2>2 DEF Leaving, AskedAt
    <3> QED
      BY <1>2, <2>1, <2>2, <3>1 DEF Granted
  <2>3. CASE k = l
    <3>1. ~Accepted(k) /\ ~Leaving(k)
      BY <1>4, <2>3 DEF Accepted, Leaving
    <3>2. Leaving(k)' <=> method = "RemoveMatch"
      BY <1>3, <1>4, <2>3 DEF Leaving, AskedAt
    <3> QED
      BY <1>1, <1>2, <2>1, <2>3, <3>1, <3>2 DEF Granted
  <2> QED
    BY <2>2, <2>3
<1> QED
  BY <1>5, <1>6, <1>7, <1>8 DEF CallsPaired

\* A listener that has its answer goes on; one that is polled too early kills
\* the daemon and changes nothing else.
LEMMA AnsweredCalls ==
    ASSUME TypeOK, CallsPaired, NEW l \in Listener, post(l) \/ return(l), wire' = wire
    PROVE  CallsPaired' /\ \A k \in Listener : Granted(k)' <=> Granted(k)
<1>1. requests' = requests /\ listeners[l].pc \in {"post", "return"} /\ listeners[l].reply # "none"
  BY DEF post, return
<1>2. listeners[l].reply \in {"ok", "error"}
  BY <1>1 DEF TypeOK, TaskType, ListenersOK, ListenerState
<1>3. /\ listeners'[l].pc = IF listeners[l].pc = "post" /\ listeners[l].reply = "ok" THEN "exit" ELSE "done"
      /\ listeners'[l].pc = "exit" => listeners'[l].reply = "ok"
      /\ \A k \in Listener : listeners'[k].sender = listeners[k].sender
      /\ \A k \in Listener \ {l} : listeners'[k] = listeners[k]
  <2>1. PICK next, reply :
          /\ next \in {"exit", "done"}
          /\ listeners' = Await(next, l, reply)
          /\ next = IF listeners[l].pc = "post" /\ listeners[l].reply = "ok" THEN "exit" ELSE "done"
          /\ next = "exit" => reply = "ok"
    BY <1>2 DEF post, return
  <2> QED
    BY <2>1, AwaitParts
<1>4. /\ \A i \in DOMAIN requests : ~AskedAt(l, i)
      /\ \A i \in DOMAIN wire : ~AnsweredAt(l, i)
  BY <1>1 DEF CallsPaired, AskedAwaits, AnsweredAwaits, Awaiting
<1>5. AskedOnce' /\ AnsweredOnce'
  BY <1>1 DEF CallsPaired, AskedOnce, AnsweredOnce, AskedAt, AnsweredAt
<1>6. AskedAwaits'
  BY <1>1, <1>3, <1>4 DEF CallsPaired, AskedAwaits, AskedAt, AnsweredAt, Awaiting
<1>7. AnsweredAwaits' /\ ReplyKept'
  BY <1>3, <1>4 DEF CallsPaired, AnsweredAwaits, ReplyKept, AnsweredAt, Awaiting
<1>8. ASSUME NEW k \in Listener PROVE Granted(k)' <=> Granted(k)
  <2>1. (Accepted(k)' <=> Accepted(k)) /\ (Leaving(k)' <=> Leaving(k))
    BY <1>1 DEF Accepted, Leaving, AnsweredAt, AskedAt
  <2>2. CASE k # l
    BY <1>3, <2>1, <2>2 DEF Granted
  <2>3. CASE k = l
    <3>1. ~Accepted(k) /\ ~Leaving(k)
      BY <1>4, <2>3 DEF Accepted, Leaving
    <3> QED
      BY <1>1, <1>2, <1>3, <2>1, <2>3, <3>1 DEF Granted
  <2> QED
    BY <2>2, <2>3
<1> QED
  BY <1>5, <1>6, <1>7, <1>8 DEF CallsPaired

LEMMA ListenerCalls ==
    ASSUME TypeOK, CallsPaired, NEW l \in Listener, ListenerStep(l)
    PROVE  /\ CallsPaired'
           /\ \A k \in Listener : (Granted(k)' <=> Granted(k)) /\ listeners'[k].sender = listeners[k].sender
<1>1. wire' = wire
  BY DEF ListenerStep
<1>2. CASE add_match(l) \/ exit(l)
  BY <1>1, <1>2, AskCalls, AwaitParts DEF add_match, exit
<1>3. CASE post(l) \/ return(l)
  <2>1. \A k \in Listener : listeners'[k].sender = listeners[k].sender
    BY <1>3, AwaitParts DEF post, return
  <2> QED
    BY <1>1, <1>3, <2>1, AnsweredCalls
<1>4. CASE PendingCallPolled(l)
  <2>1. UNCHANGED <<requests, listeners>>
    BY <1>4 DEF PendingCallPolled
  <2>2. SameTasks
    BY <2>1 DEF SameTasks
  <2> QED
    BY <1>1, <2>1, <2>2, CallsUntouched
<1> QED
  BY <1>2, <1>3, <1>4 DEF ListenerStep

-------------------------------------------------------------------------------
\* The rules stay counted when each listener keeps what it has been granted.
LEMMA HoldingKept ==
    ASSUME RulesCounted, rules' = rules,
           \A l \in Listener : (Granted(l)' <=> Granted(l))
                               /\ (Granted(l) => listeners'[l].sender = listeners[l].sender)
    PROVE  RulesCounted'
<1>1. \A c \in Client : Holding(c)' = Holding(c)
  BY DEF Holding
<1> QED
  BY <1>1 DEF RulesCounted

\* The bus's answer to a listener's call takes the place of the call, and is the
\* only moment at which its rule is counted in or out.
LEMMA BusAnswerCalls ==
    ASSUME TypeOK, CallsPaired, RulesCounted, BusAnswer
    PROVE  CallsPaired' /\ RulesCounted'
<1>a. /\ requests \in Seq(Request) /\ requests # <<>> /\ requests' = Tail(requests) /\ listeners' = listeners
      /\ wire \in Seq(Call \cup Signal \cup Answer) /\ rules \in [Client -> Nat]
  BY DEF TypeOK, BusType, BusAnswer
<1>1. PICK r \in Request : r = Head(requests)
  BY <1>a, HeadTail
<1>2. /\ requests[1] = r /\ 1 \in DOMAIN requests /\ DOMAIN requests \subseteq Nat \ {0} /\ DOMAIN requests' \subseteq Nat \ {0}
      /\ \A i \in DOMAIN requests' : i + 1 \in DOMAIN requests /\ requests'[i] = requests[i + 1]
      /\ \A i \in DOMAIN requests : i = 1 \/ (i - 1 \in DOMAIN requests' /\ requests'[i - 1] = requests[i])
  BY <1>a, <1>1, Shrunk
<1>3. AskedOnce' /\ ReplyKept'
  BY <1>a, <1>2 DEF CallsPaired, AskedOnce, AskedAt, ReplyKept
<1>4. CASE r.method = "GetConnectionUnixUser"
  <2>1. rules' = rules /\ \E e : wire' = Append(wire, e) /\ e.kind = "uid"
    <3>1. rules' = rules /\ \E ok \in BOOLEAN : wire' = Append(wire, [kind |-> "uid", ok |-> ok])
      BY <1>1, <1>4 DEF BusAnswer
    <3>2. \A ok \in BOOLEAN : [kind |-> "uid", ok |-> ok].kind = "uid"
      OBVIOUS
    <3> QED
      BY <3>1, <3>2
  <2>2. PICK e : wire' = Append(wire, e) /\ e.kind = "uid"
    BY <2>1
  <2> DEFINE n == Len(wire) + 1
  <2>3. /\ DOMAIN wire' = DOMAIN wire \cup {n} /\ n \notin DOMAIN wire
        /\ (\A i \in DOMAIN wire : wire'[i] = wire[i]) /\ wire'[n] = e
    BY <1>a, <2>2, Grown
  <2>4. AnsweredOnce' /\ AnsweredAwaits'
    BY <1>a, <2>2, <2>3 DEF CallsPaired, AnsweredOnce, AnsweredAwaits, AnsweredAt, Awaiting
  <2>5. AskedAwaits'
    BY <1>a, <1>2, <2>2, <2>3 DEF CallsPaired, AskedAwaits, AskedAt, AnsweredAt, Awaiting
  <2>6. \A l \in Listener : Granted(l)' <=> Granted(l)
    <3>1. \A l \in Listener : Accepted(l)' <=> Accepted(l)
      BY <2>2, <2>3 DEF Accepted, AnsweredAt
    <3>2. \A l \in Listener : Leaving(l)' <=> Leaving(l)
      BY <1>2, <1>4 DEF Leaving, AskedAt
    <3> QED
      BY <1>a, <3>1, <3>2 DEF Granted
  <2>7. RulesCounted'
    BY <1>a, <2>1, <2>6, HoldingKept
  <2> QED
    BY <1>3, <2>4, <2>5, <2>7 DEF CallsPaired
<1>5. CASE r.method # "GetConnectionUnixUser"
  <2>1. r.method \in {"AddMatch", "RemoveMatch"} /\ r.from \in Listener /\ r.name \in Client
    BY <1>5, RequestName DEF Request
  <2>2. PICK l \in Listener, c \in Client : l = r.from /\ c = r.name
    BY <2>1
  <2>3. AskedAt(l, 1)
    BY <1>2, <1>5, <2>2 DEF AskedAt
  <2>4. /\ Awaiting(l) /\ c = listeners[l].sender
        /\ r.method = IF listeners[l].pc = "post" THEN "AddMatch" ELSE "RemoveMatch"
        /\ \A j \in DOMAIN wire : ~AnsweredAt(l, j)
        /\ \A i \in DOMAIN requests : AskedAt(l, i) => i = 1
    BY <1>2, <2>2, <2>3 DEF CallsPaired, AskedAwaits, AskedOnce
  <2>5. PICK done \in BOOLEAN, ok \in BOOLEAN :
          /\ ok => done /\ (r.method = "RemoveMatch" => ok = done)
          /\ wire' = Append(wire, [kind |-> "reply", to |-> l, ok |-> ok])
          /\ rules' = IF r.method = "AddMatch" THEN IF done THEN [rules EXCEPT ![c] = @ + 1] ELSE rules
                      ELSE IF done /\ rules[c] > 0 THEN [rules EXCEPT ![c] = @ - 1] ELSE rules
    <3>1. CASE r.method = "AddMatch"
      BY <1>1, <2>2, <3>1 DEF BusAnswer
    <3>2. CASE r.method = "RemoveMatch"
      BY <1>1, <2>2, <3>2 DEF BusAnswer
    <3> QED
      BY <2>1, <3>1, <3>2
  <2> DEFINE n == Len(wire) + 1
  <2>6. /\ DOMAIN wire' = DOMAIN wire \cup {n} /\ n \notin DOMAIN wire
        /\ (\A i \in DOMAIN wire : wire'[i] = wire[i])
        /\ wire'[n].kind = "reply" /\ wire'[n].to = l /\ wire'[n].ok = ok
    BY <1>a, <2>5, Grown
  <2>7. AnsweredOnce'
    BY <2>4, <2>6 DEF CallsPaired, AnsweredOnce, AnsweredAt
  <2>8. AnsweredAwaits'
    BY <1>a, <2>4, <2>6 DEF CallsPaired, AnsweredAwaits, AnsweredAt, Awaiting
  <2>9. AskedAwaits'
    <3>1. ASSUME NEW k \in Listener, NEW i \in DOMAIN requests', AskedAt(k, i)'
          PROVE  k # l /\ i + 1 \in DOMAIN requests /\ AskedAt(k, i + 1) /\ requests'[i] = requests[i + 1]
      BY <1>2, <2>4, <3>1 DEF AskedAt
    <3>2. ASSUME NEW k \in Listener, NEW i \in DOMAIN requests', AskedAt(k, i)'
          PROVE  /\ Awaiting(k)' /\ requests'[i].name = listeners'[k].sender
                 /\ requests'[i].method = IF listeners'[k].pc = "post" THEN "AddMatch" ELSE "RemoveMatch"
                 /\ \A j \in DOMAIN wire' : ~AnsweredAt(k, j)'
      BY <1>a, <2>6, <3>1, <3>2 DEF CallsPaired, AskedAwaits, AnsweredAt, Awaiting
    <3> QED
      BY <3>2 DEF AskedAwaits
  <2>10. \A k \in Listener \ {l} : Granted(k)' <=> Granted(k)
    <3>1. ASSUME NEW k \in Listener \ {l} PROVE Accepted(k)' <=> Accepted(k)
      BY <2>6 DEF Accepted, AnsweredAt
    <3>2. ASSUME NEW k \in Listener \ {l} PROVE Leaving(k)' <=> Leaving(k)
      BY <1>2, <2>2 DEF Leaving, AskedAt
    <3> QED
      BY <1>a, <3>1, <3>2 DEF Granted
  <2>11. ~Accepted(l) /\ (Leaving(l) <=> r.method = "RemoveMatch") /\ ~Leaving(l)' /\ (Accepted(l)' <=> ok)
    <3>1. ~Accepted(l)
      BY <2>4 DEF Accepted
    <3>2. Leaving(l) <=> r.method = "RemoveMatch"
      BY <1>2, <2>3, <2>4 DEF Leaving
    <3>3. ~Leaving(l)'
      BY <1>2, <2>4 DEF Leaving, AskedAt
    <3>4. Accepted(l)' <=> ok
      BY <2>4, <2>6 DEF Accepted, AnsweredAt
    <3> QED
      BY <3>1, <3>2, <3>3, <3>4
  <2>12. Granted(l) <=> r.method = "RemoveMatch"
    BY <2>4, <2>11 DEF Granted, Awaiting
  <2>13. Granted(l)' <=> r.method = "AddMatch" /\ ok
    BY <1>a, <2>1, <2>4, <2>11 DEF Granted, Awaiting
  <2>14. \A d \in Client \ {c} : Holding(d)' = Holding(d) /\ rules'[d] = rules[d]
    <3>1. \A d \in Client \ {c} : Holding(d)' = Holding(d)
      BY <1>a, <2>4, <2>10 DEF Holding
    <3> QED
      BY <1>a, <2>5, <3>1
  <2>15. Holding(c)' = IF r.method = "RemoveMatch" THEN Holding(c) \ {l}
                      ELSE IF ok THEN Holding(c) \cup {l} ELSE Holding(c)
    BY <1>a, <2>1, <2>4, <2>10, <2>12, <2>13 DEF Holding
  <2>16. (l \in Holding(c)) <=> r.method = "RemoveMatch"
    BY <2>4, <2>12 DEF Holding
  <2>17. IsFiniteSet(Holding(c)) /\ Cardinality(Holding(c)) <= rules[c] /\ Cardinality(Holding(c)) \in Nat
    BY FS_CardinalityType DEF RulesCounted
  <2>18. IsFiniteSet(Holding(c)') /\ Cardinality(Holding(c)') <= rules'[c]
    <3>1. CASE r.method = "RemoveMatch"
      <4>1. IsFiniteSet(Holding(c) \ {l}) /\ Cardinality(Holding(c) \ {l}) = Cardinality(Holding(c)) - 1
        BY <2>16, <2>17, <3>1, FS_RemoveElement
      <4>2. rules'[c] >= rules[c] - 1 /\ rules'[c] \in Nat
        BY <1>a, <2>5, <3>1
      <4> QED
        BY <1>a, <2>15, <2>17, <3>1, <4>1, <4>2
    <3>2. CASE r.method = "AddMatch" /\ ok
      <4>1. IsFiniteSet(Holding(c) \cup {l}) /\ Cardinality(Holding(c) \cup {l}) = Cardinality(Holding(c)) + 1
        BY <2>16, <2>17, <3>2, FS_AddElement
      <4>2. rules'[c] = rules[c] + 1
        BY <1>a, <2>5, <3>2
      <4> QED
        BY <1>a, <2>15, <2>17, <3>2, <4>1, <4>2
    <3>3. CASE r.method = "AddMatch" /\ ~ok
      <4>1. rules'[c] >= rules[c] /\ rules'[c] \in Nat
        BY <1>a, <2>5, <3>3
      <4> QED
        BY <1>a, <2>15, <2>17, <3>3, <4>1
    <3> QED
      BY <2>1, <3>1, <3>2, <3>3
  <2>19. RulesCounted'
    BY <2>14, <2>18 DEF RulesCounted
  <2> QED
    BY <1>3, <2>7, <2>8, <2>9, <2>19 DEF CallsPaired
<1> QED
  BY <1>4, <1>5

\* A sequence without its k-th element.
WithoutAt(q, k) == SubSeq(q, 1, k - 1) \o SubSeq(q, k + 1, Len(q))

LEMMA WithoutElements ==
    ASSUME NEW S, NEW q \in Seq(S), NEW k \in 1..Len(q)
    PROVE  /\ Len(WithoutAt(q, k)) = Len(q) - 1 /\ WithoutAt(q, k) \in Seq(S)
           /\ \A i \in 1..(Len(q) - 1) : WithoutAt(q, k)[i] = IF i < k THEN q[i] ELSE q[i + 1]
<1> DEFINE a == SubSeq(q, 1, k - 1)
           b == SubSeq(q, k + 1, Len(q))
<1>1. Len(q) \in Nat /\ k \in Nat /\ 1 <= k /\ k <= Len(q)
  OBVIOUS
<1>2. a \in Seq(S) /\ Len(a) = k - 1 /\ \A i \in 1..(k - 1) : a[i] = q[i]
  BY <1>1
<1>3. b \in Seq(S) /\ Len(b) = Len(q) - k /\ \A i \in 1..(Len(q) - k) : b[i] = q[k + i]
  BY <1>1
<1>4. WithoutAt(q, k) = a \o b
  BY DEF WithoutAt
<1> HIDE DEF a, b
<1>5. Len(a \o b) = Len(a) + Len(b) /\ a \o b \in Seq(S)
  <2>1. a \in Seq(S) /\ b \in Seq(S)
    BY <1>2, <1>3
  <2> QED
    BY <2>1, ConcatProperties
<1>6. ASSUME NEW i \in 1..(Len(q) - 1) PROVE (a \o b)[i] = IF i < k THEN q[i] ELSE q[i + 1]
  <2>1. CASE i < k
    <3>1. i \in 1..Len(a) /\ i \in 1..(k - 1)
      BY <1>1, <1>2, <1>6, <2>1
    <3>2. (a \o b)[i] = a[i]
      BY <1>2, <1>3, <3>1
    <3> QED
      BY <1>2, <2>1, <3>1, <3>2
  <2>2. CASE ~(i < k)
    <3>1. /\ i - Len(a) \in 1..Len(b) /\ i - Len(a) \in 1..(Len(q) - k)
          /\ k + (i - Len(a)) = i + 1 /\ i \in 1..(Len(a) + Len(b)) /\ ~(i <= Len(a))
      BY <1>1, <1>2, <1>3, <1>6, <2>2
    <3>2. (a \o b)[i] = b[i - Len(a)]
      BY <1>2, <1>3, <3>1
    <3>3. b[i - Len(a)] = q[k + (i - Len(a))]
      BY <1>3, <3>1
    <3> QED
      BY <2>2, <3>1, <3>2, <3>3
  <2> QED
    BY <2>1, <2>2
<1> QED
  BY <1>1, <1>2, <1>3, <1>4, <1>5, <1>6

LEMMA Without ==
    ASSUME NEW S, NEW q \in Seq(S), NEW k \in DOMAIN q
    PROVE  LET p == WithoutAt(q, k) IN
           /\ DOMAIN p \subseteq Nat \ {0} /\ DOMAIN q \subseteq Nat \ {0}
           /\ \A i \in DOMAIN p : IF i < k THEN i \in DOMAIN q /\ p[i] = q[i]
                                  ELSE i + 1 \in DOMAIN q /\ p[i] = q[i + 1]
           /\ \A i \in DOMAIN q : \/ i = k
                                  \/ i < k /\ i \in DOMAIN p /\ p[i] = q[i]
                                  \/ i > k /\ i - 1 \in DOMAIN p /\ p[i - 1] = q[i]
<1> DEFINE p == WithoutAt(q, k)
<1>1. k \in 1..Len(q) /\ Len(q) \in Nat /\ DOMAIN q = 1..Len(q)
  OBVIOUS
<1>2. /\ Len(p) = Len(q) - 1 /\ p \in Seq(S)
      /\ \A i \in 1..(Len(q) - 1) : p[i] = IF i < k THEN q[i] ELSE q[i + 1]
  BY <1>1, WithoutElements
<1> HIDE DEF p
<1>l. DOMAIN p = 1..(Len(q) - 1)
  BY <1>1, <1>2
<1>6. ASSUME NEW i \in DOMAIN p
      PROVE  IF i < k THEN i \in DOMAIN q /\ p[i] = q[i]
             ELSE i + 1 \in DOMAIN q /\ p[i] = q[i + 1]
  <2>1. i \in 1..(Len(q) - 1) /\ i \in 1..Len(q) /\ i + 1 \in 1..Len(q)
    BY <1>1, <1>l, <1>6
  <2> QED
    BY <1>1, <1>2, <2>1
<1>7. ASSUME NEW i \in DOMAIN q, i # k
      PROVE  \/ i < k /\ i \in DOMAIN p /\ p[i] = q[i]
             \/ i > k /\ i - 1 \in DOMAIN p /\ p[i - 1] = q[i]
  <2>i. i \in Nat /\ 1 <= i /\ i <= Len(q) /\ (i < k \/ i > k)
    BY <1>1, <1>7
  <2>1. CASE i < k
    <3>1. i \in 1..(Len(q) - 1)
      BY <1>1, <2>i, <2>1
    <3> QED
      BY <1>l, <1>2, <2>1, <3>1
  <2>2. CASE i > k
    <3>1. i - 1 \in 1..(Len(q) - 1) /\ ~(i - 1 < k) /\ (i - 1) + 1 = i
      BY <1>1, <2>i, <2>2
    <3>2. p[i - 1] = q[(i - 1) + 1]
      BY <1>2, <3>1
    <3> QED
      BY <1>l, <2>2, <3>1, <3>2
  <2> QED
    BY <2>i, <2>1, <2>2
<1>8. DOMAIN p \subseteq Nat \ {0} /\ DOMAIN q \subseteq Nat \ {0}
  BY <1>1, <1>l
<1> QED
  BY <1>6, <1>7, <1>8 DEF p

\* A lookup that times out leaves the listeners' calls in their order.
LEMMA LookupCalls ==
    ASSUME TypeOK, CallsPaired, RulesCounted, LookupTimesOut
    PROVE  CallsPaired' /\ RulesCounted'
<1>a. /\ requests \in Seq(Request) /\ wire \in Seq(Call \cup Signal \cup Answer)
      /\ listeners' = listeners /\ rules' = rules
  BY DEF TypeOK, BusType, LookupTimesOut
<1>1. PICK k \in DOMAIN requests :
        /\ requests[k].method = "GetConnectionUnixUser"
        /\ requests' = WithoutAt(requests, k)
  BY DEF LookupTimesOut, WithoutAt
<1>w. /\ DOMAIN requests' \subseteq Nat \ {0} /\ DOMAIN requests \subseteq Nat \ {0}
      /\ \A i \in DOMAIN requests' :
            IF i < k THEN i \in DOMAIN requests /\ requests'[i] = requests[i]
            ELSE i + 1 \in DOMAIN requests /\ requests'[i] = requests[i + 1]
      /\ \A i \in DOMAIN requests :
            \/ i = k
            \/ i < k /\ i \in DOMAIN requests' /\ requests'[i] = requests[i]
            \/ i > k /\ i - 1 \in DOMAIN requests' /\ requests'[i - 1] = requests[i]
  BY <1>a, <1>1, Without
<1> DEFINE From(i) == IF i < k THEN i ELSE i + 1
<1>2. \A i \in DOMAIN requests' : From(i) \in DOMAIN requests /\ requests'[i] = requests[From(i)]
  BY <1>w
<1>3. \A i, j \in DOMAIN requests' : From(i) = From(j) => i = j
  <2>1. DOMAIN requests' \subseteq Nat /\ k \in Nat
    BY <1>w
  <2> QED
    BY <2>1
<1>4. \A i \in DOMAIN requests : i = k \/ \E j \in DOMAIN requests' : i = From(j) /\ requests'[j] = requests[i]
  <2> SUFFICES ASSUME NEW i \in DOMAIN requests, i # k
               PROVE  \E j \in DOMAIN requests' : i = From(j) /\ requests'[j] = requests[i]
    OBVIOUS
  <2>1. \/ i < k /\ i \in DOMAIN requests' /\ requests'[i] = requests[i]
        \/ i > k /\ i - 1 \in DOMAIN requests' /\ requests'[i - 1] = requests[i]
    BY <1>w
  <2>2. i \in Nat /\ k \in Nat
    BY <1>w
  <2>3. CASE i < k
    BY <2>1, <2>2, <2>3
  <2>4. CASE i > k
    <3>1. From(i - 1) = i
      BY <2>2, <2>4
    <3> QED
      BY <2>1, <2>2, <2>4, <3>1
  <2> QED
    BY <2>1, <2>3, <2>4
<1> HIDE DEF From
<1> DEFINE n == Len(wire) + 1
<1>5. /\ DOMAIN wire' = DOMAIN wire \cup {n} /\ n \notin DOMAIN wire
      /\ (\A i \in DOMAIN wire : wire'[i] = wire[i]) /\ wire'[n].kind = "uid"
  <2>1. wire' = Append(wire, [kind |-> "uid", ok |-> FALSE])
    BY DEF LookupTimesOut
  <2> QED
    BY <1>a, <2>1, Grown
<1>6. \A l \in Listener, i \in DOMAIN requests' : AskedAt(l, i)' => AskedAt(l, From(i))
  BY <1>2 DEF AskedAt
<1>7. AskedOnce' /\ ReplyKept'
  BY <1>a, <1>3, <1>6 DEF CallsPaired, AskedOnce, ReplyKept, AskedAt
<1>8. AnsweredOnce' /\ AnsweredAwaits'
  BY <1>a, <1>5 DEF CallsPaired, AnsweredOnce, AnsweredAwaits, AnsweredAt, Awaiting
<1>9. AskedAwaits'
  <2>1. \A l \in Listener, j \in DOMAIN wire' : AnsweredAt(l, j)' => j \in DOMAIN wire /\ AnsweredAt(l, j)
    BY <1>5 DEF AnsweredAt
  <2> QED
    BY <1>a, <1>2, <1>6, <2>1 DEF CallsPaired, AskedAwaits, AskedAt, Awaiting
<1>10. \A l \in Listener : Granted(l)' <=> Granted(l)
  <2>1. \A l \in Listener : Accepted(l)' <=> Accepted(l)
    BY <1>5 DEF Accepted, AnsweredAt
  <2>2. ASSUME NEW l \in Listener PROVE Leaving(l)' <=> Leaving(l)
    BY <1>1, <1>2, <1>4 DEF Leaving, AskedAt
  <2> QED
    BY <1>a, <2>1, <2>2 DEF Granted
<1> QED
  BY <1>a, <1>7, <1>8, <1>9, <1>10, HoldingKept DEF CallsPaired

\* What one message does to the listeners: Claim starts one, Release wakes the
\* claim's and forgets it, and nothing else touches them.
Spawned(l) == /\ l \in FreeListeners /\ name_owner_changed_task' = l
              /\ listeners' = [listeners EXCEPT ![l] = [pc |-> "add_match", ready |-> TRUE, reply |-> "none",
                                                       sender |-> claimed_sender']]
LEMMA ServedListeners ==
    ASSUME handle_message
    PROVE  /\ UNCHANGED <<wire, rules, connected>>
           /\ requests' = requests \/ \E r : requests' = Append(requests, r) /\ r.method = "GetConnectionUnixUser"
           /\ \/ UNCHANGED <<listeners, name_owner_changed_task>> /\ (claimed' = FALSE \/ UNCHANGED claimVars)
              \/ /\ claimed' = FALSE /\ name_owner_changed_task' = None
                 /\ listeners' = listeners \/ listeners' = Resume(listeners, name_owner_changed_task)
              \/ /\ check_uid /\ claimed_sender' = serving[1].sender /\ \E l \in Listener : Spawned(l)
<1> DEFINE n == serving[1]
           username == IF n.arg = None THEN UserOf[n.sender] ELSE n.arg
           m == Head(messages)
           Kept == UNCHANGED <<listeners, name_owner_changed_task>> /\ (claimed' = FALSE \/ UNCHANGED claimVars)
           Left == /\ claimed' = FALSE /\ name_owner_changed_task' = None
                   /\ listeners' = listeners \/ listeners' = Resume(listeners, name_owner_changed_task)
           Taken == check_uid /\ claimed_sender' = serving[1].sender /\ \E l \in Listener : Spawned(l)
<1>1. UNCHANGED <<wire, rules, connected>>
  BY DEF handle_message
<1>2. requests' = requests \/ \E r : requests' = Append(requests, r) /\ r.method = "GetConnectionUnixUser"
  <2>1. CASE get_uid
    <3> DEFINE r == [method |-> "GetConnectionUnixUser", name |-> m.sender]
    <3>1. requests' = Append(requests, r) /\ r.method = "GetConnectionUnixUser"
      BY <2>1 DEF get_uid
    <3> QED
      BY <3>1
  <2>2. CASE ~get_uid
    BY <2>2 DEF handle_message, check_uid, check_sender, owner_left, unhandled
  <2> QED
    BY <2>1, <2>2
<1>3. ASSUME Reject PROVE Kept
  BY <1>3 DEF Reject, taskVars
<1>4. ASSUME NEW stored, Store(stored) PROVE Kept
  BY <1>4 DEF Store, taskVars
<1>5. ASSUME get_uid PROVE Kept \/ Left \/ Taken
  BY <1>3, <1>5 DEF get_uid
<1>6. ASSUME check_uid PROVE Kept \/ Left \/ Taken
  <2>1. CASE Reject
    BY <1>3, <2>1
  <2>2. CASE delete_enrolled_fingers(username)
    BY <1>4, <2>2 DEF delete_enrolled_fingers
  <2>3. CASE claim(n.sender, username) /\ ~Reject
    <3>1. Claimed(n.sender, username)
      BY <2>3 DEF claim
    <3>2. PICK l \in FreeListeners :
            /\ listeners' = [listeners EXCEPT ![l] =
                  [pc |-> "add_match", ready |-> TRUE, reply |-> "none", sender |-> n.sender]]
            /\ name_owner_changed_task' = l
      BY <3>1 DEF Claimed
    <3>3. claimed_sender' = n.sender /\ l \in Listener
      BY <3>1 DEF Claimed, FreeListeners
    <3>4. Spawned(l)
      BY <3>2, <3>3 DEF Spawned
    <3> QED
      BY <1>6, <3>3, <3>4
  <2> QED
    BY <1>6, <2>1, <2>2, <2>3 DEF check_uid
<1>7. ASSUME check_sender PROVE Kept \/ Left \/ Taken
  <2>1. CASE Reject
    BY <1>3, <2>1
  <2>2. CASE enroll_verify_start(m.method, m.arg)
    BY <1>3, <2>2 DEF enroll_verify_start
  <2>3. CASE enroll_verify_stop
    BY <1>3, <2>3 DEF enroll_verify_stop
  <2>4. CASE delete_enrolled_finger(m.arg) \/ delete_enrolled_fingers2
    BY <1>3, <1>4, <2>4 DEF delete_enrolled_finger, delete_enrolled_fingers2
  <2>5. CASE release
    BY <2>5 DEF release, Unclaim
  <2> QED
    BY <1>7, <2>1, <2>2, <2>3, <2>4, <2>5 DEF check_sender
<1>8. ASSUME owner_left PROVE Kept \/ Left \/ Taken
  BY <1>8 DEF owner_left, name_owner_changed, Unclaim
<1>9. ASSUME unhandled PROVE Kept \/ Left \/ Taken
  BY <1>3, <1>9 DEF unhandled
<1> QED
  BY <1>1, <1>2, <1>5, <1>6, <1>7, <1>8, <1>9 DEF handle_message

\* A listener that is spawned in the place of a finished one has no call under
\* way: no late answer to the earlier task reaches it.
LEMMA SpawnCalls ==
    ASSUME TypeOK, CallsPaired, NEW l \in Listener, Spawned(l), wire' = wire, requests' = requests
    PROVE  CallsPaired' /\ \A k \in Listener :
            (Granted(k)' <=> Granted(k)) /\ (Granted(k) => listeners'[k].sender = listeners[k].sender)
<1>1. listeners \in [Listener -> ListenerState]
  BY DEF TypeOK, TaskType, ListenersOK
<1>2. /\ listeners[l].pc = "done" /\ listeners'[l].pc = "add_match" /\ listeners'[l].reply = "none"
      /\ \A k \in Listener \ {l} : listeners'[k] = listeners[k]
  BY <1>1 DEF Spawned, FreeListeners
<1>3. /\ \A i \in DOMAIN requests : ~AskedAt(l, i)
      /\ \A i \in DOMAIN wire : ~AnsweredAt(l, i)
  BY <1>2 DEF CallsPaired, AskedAwaits, AnsweredAwaits, Awaiting
<1>4. AskedOnce' /\ AnsweredOnce'
  BY DEF CallsPaired, AskedOnce, AnsweredOnce, AskedAt, AnsweredAt
<1>5. AskedAwaits'
  BY <1>2, <1>3 DEF CallsPaired, AskedAwaits, AskedAt, AnsweredAt, Awaiting
<1>6. AnsweredAwaits' /\ ReplyKept'
  BY <1>2, <1>3 DEF CallsPaired, AnsweredAwaits, ReplyKept, AnsweredAt, Awaiting
<1>7. ASSUME NEW k \in Listener
      PROVE  (Granted(k)' <=> Granted(k)) /\ (Granted(k) => listeners'[k].sender = listeners[k].sender)
  <2>1. (Accepted(k)' <=> Accepted(k)) /\ (Leaving(k)' <=> Leaving(k))
    BY DEF Accepted, Leaving, AnsweredAt, AskedAt
  <2>2. CASE k # l
    BY <1>2, <2>1, <2>2 DEF Granted
  <2>3. CASE k = l
    <3>1. ~Accepted(k) /\ ~Leaving(k)
      BY <1>3, <2>3 DEF Accepted, Leaving
    <3> QED
      BY <1>2, <2>1, <2>3, <3>1 DEF Granted
  <2> QED
    BY <2>2, <2>3
<1> QED
  BY <1>4, <1>5, <1>6, <1>7 DEF CallsPaired

LEMMA WatchStep ==
    ASSUME TypeOK, CallsPaired, RulesCounted, [Next]_vars
    PROVE  CallsPaired' /\ RulesCounted'
<1>1. ASSUME SameTasks, rules' = rules,
             requests' = requests \/ \E r : requests' = Append(requests, r) /\ r.method = "GetConnectionUnixUser",
             wire' = wire \/ \E e : wire' = Append(wire, e) /\ e.kind # "reply"
      PROVE  CallsPaired' /\ RulesCounted'
  BY <1>1, CallsUntouched, HoldingKept DEF SameTasks
<1>2. ASSUME NEW c \in Client, Send(c) PROVE CallsPaired' /\ RulesCounted'
  <2>1. \E e : wire' = Append(wire, e) /\ e.kind # "reply"
    <3>1. PICK m \in Method : \E a \in ArgOf(m) :
            wire' = Append(wire, [kind |-> "call", method |-> m, sender |-> c, arg |-> a])
      BY <1>2 DEF Send
    <3>2. PICK a \in ArgOf(m) : wire' = Append(wire, [kind |-> "call", method |-> m, sender |-> c, arg |-> a])
      BY <3>1
    <3>3. [kind |-> "call", method |-> m, sender |-> c, arg |-> a].kind # "reply"
      OBVIOUS
    <3> QED
      BY <3>2, <3>3
  <2>2. SameTasks /\ rules' = rules /\ requests' = requests
    BY <1>2 DEF Send, SameTasks
  <2> QED
    BY <1>1, <2>1, <2>2
<1>3. ASSUME NEW c \in Client, Disconnect(c) PROVE CallsPaired' /\ RulesCounted'
  <2>1. wire' = wire \/ wire' = Append(wire, [kind |-> "NameOwnerChanged", name |-> c])
    BY <1>3 DEF Disconnect
  <2>2. [kind |-> "NameOwnerChanged", name |-> c].kind # "reply"
    OBVIOUS
  <2>3. SameTasks /\ rules' = rules /\ requests' = requests
    BY <1>3 DEF Disconnect, SameTasks
  <2> QED
    BY <1>1, <2>1, <2>2, <2>3
<1>4. CASE BusAnswer \/ LookupTimesOut
  BY <1>4, BusAnswerCalls, LookupCalls
<1>5. CASE Dispatch
  <2>1. rules' = rules
    BY <1>5 DEF Dispatch
  <2> QED
    BY <1>5, <2>1, DispatchCalls, HoldingKept
<1>6. CASE handle_message
  <2>1. CASE \E l \in Listener : check_uid /\ Spawned(l)
    <3>1. requests' = requests /\ wire' = wire /\ rules' = rules
      BY <1>6, <2>1, ServedListeners DEF check_uid
    <3>2. CallsPaired' /\ \A k \in Listener :
            (Granted(k)' <=> Granted(k)) /\ (Granted(k) => listeners'[k].sender = listeners[k].sender)
      BY <2>1, <3>1, SpawnCalls
    <3> QED
      BY <3>1, <3>2, HoldingKept
  <2>2. CASE listeners' = listeners \/ listeners' = Resume(listeners, name_owner_changed_task)
    <3>1. SameTasks
      BY <2>2 DEF SameTasks, Resume, TypeOK, TaskType, ListenersOK, ListenerState
    <3> QED
      BY <1>1, <1>6, <3>1, ServedListeners
  <2> QED
    BY <1>6, <2>1, <2>2, ServedListeners
<1>7. ASSUME NEW l \in Listener, ListenerStep(l) PROVE CallsPaired' /\ RulesCounted'
  <2>1. rules' = rules
    BY <1>7 DEF ListenerStep
  <2> QED
    BY <1>7, <2>1, ListenerCalls, HoldingKept
<1>8. ASSUME \/ Poll \/ ControlTakes \/ UNCHANGED vars
             \/ \E w \in Worker : WorkerStep(w)
             \/ \E e \in {"FingerDown", "Image"} : SensorReports(e)
      PROVE  CallsPaired' /\ RulesCounted'
  <2>1. UNCHANGED <<wire, requests, rules, listeners>>
    BY <1>8 DEF Poll, ControlTakes, WorkerStep, SensorReports, vars, busVars
  <2> QED
    BY <1>1, <2>1 DEF SameTasks
<1>9. CASE OtherSignal
  <2>1. PICK kind \in {"NameOwnerChanged", "Signal"} : wire' = Append(wire, [kind |-> kind, name |-> None])
    BY <1>9 DEF OtherSignal
  <2>2. [kind |-> kind, name |-> None].kind # "reply"
    OBVIOUS
  <2>3. SameTasks /\ rules' = rules /\ requests' = requests
    BY <1>9 DEF OtherSignal, SameTasks
  <2> QED
    BY <1>1, <2>1, <2>2, <2>3
<1> QED
  BY <1>2, <1>3, <1>4, <1>5, <1>6, <1>7, <1>8, <1>9 DEF Next

LEMMA WatchInit == Init => CallsPaired /\ RulesCounted
<1> SUFFICES ASSUME Init PROVE CallsPaired /\ RulesCounted
  OBVIOUS
<1>1. CallsPaired
  BY DEF Init, CallsPaired, AskedOnce, AnsweredOnce, AskedAwaits, AnsweredAwaits, ReplyKept, AskedAt, AnsweredAt, NoListener
<1>2. \A l \in Listener : ~Granted(l)
  BY DEF Init, Granted, Accepted, Leaving, NoListener
<1>3. \A c \in Client : Holding(c) = {}
  BY <1>2 DEF Holding
<1>4. \A c \in Client : rules[c] = 0
  BY DEF Init
<1>5. IsFiniteSet({}) /\ Cardinality({}) = 0
  BY FS_EmptySet
<1> QED
  BY <1>1, <1>3, <1>4, <1>5 DEF RulesCounted

LEMMA WatchInvariant == Spec => [](CallsPaired /\ RulesCounted)
<1>1. TypeOK /\ CallsPaired /\ RulesCounted /\ [Next]_vars => CallsPaired' /\ RulesCounted'
  BY WatchStep
<1> QED
  BY <1>1, WatchInit, TypeCorrect, PTL DEF Spec

\* However the bus's answers to the calls of several listeners interleave, and
\* whichever of them it refuses or drops, a listener that sleeps in exit() for the
\* owner of the claim has its match rule at the bus.
THEOREM RuleAlwaysInstalled == Spec => []RuleInstalled
<1>1. TypeOK /\ RulesCounted => RuleInstalled
  <2> SUFFICES ASSUME TypeOK, RulesCounted, NEW l \in Listener, listeners[l].pc = "exit"
               PROVE  rules[listeners[l].sender] > 0
    BY DEF RuleInstalled, TypeOK, DeviceType
  <2>1. PICK c \in Client : c = listeners[l].sender
    BY DEF TypeOK, TaskType, ListenersOK
  <2>2. l \in Holding(c)
    BY <2>1 DEF Holding, Granted
  <2>3. IsFiniteSet(Holding(c)) /\ Cardinality(Holding(c)) \in Nat /\ Cardinality(Holding(c)) <= rules[c]
    BY FS_CardinalityType DEF RulesCounted
  <2>4. Cardinality(Holding(c)) # 0
    BY <2>2, <2>3, FS_EmptySet
  <2>5. rules[c] \in Nat
    BY DEF TypeOK, BusType
  <2> QED
    BY <2>1, <2>3, <2>4, <2>5
<1> QED
  BY <1>1, WatchInvariant, TypeCorrect, PTL

-------------------------------------------------------------------------------
\* What one message does to the queue of messages.
LEMMA ServedMessages ==
    ASSUME handle_message
    PROVE  \/ messages' = messages
           \/ /\ messages # <<>> /\ messages' = Tail(messages)
              /\ Head(messages).kind # "NameOwnerChanged" \/ claimed' = FALSE
  BY DEF handle_message, get_uid, check_uid, check_sender, owner_left, unhandled, name_owner_changed, Unclaim

SignalQueued == \E i \in DOMAIN messages : messages[i].kind = "NameOwnerChanged"

LEMMA SignalKept ==
    ASSUME TypeOK, SignalQueued,
           \/ messages' = messages \/ \E e : messages' = Append(messages, e)
           \/ messages # <<>> /\ messages' = Tail(messages) /\ Head(messages).kind # "NameOwnerChanged"
    PROVE  SignalQueued'
<1>a. messages \in Seq(Call \cup Signal)
  BY DEF TypeOK, BusType
<1>1. CASE messages' = messages
  BY <1>1 DEF SignalQueued
<1>2. ASSUME NEW e, messages' = Append(messages, e) PROVE SignalQueued'
  BY <1>a, <1>2, Grown DEF SignalQueued
<1>3. CASE messages # <<>> /\ messages' = Tail(messages) /\ Head(messages).kind # "NameOwnerChanged"
  <2>1. PICK i \in DOMAIN messages : messages[i].kind = "NameOwnerChanged"
    BY DEF SignalQueued
  <2>2. i # 1 /\ i - 1 \in DOMAIN messages' /\ messages'[i - 1] = messages[i]
    BY <1>a, <1>3, <2>1, Shrunk
  <2> QED
    BY <2>1, <2>2 DEF SignalQueued
<1> QED
  BY <1>1, <1>2, <1>3

\* The listener of the claim moves on, or it has passed its signal on.
WatchState(l) == Watching(l) \/ Refused(l) \/ SignalQueued
LEMMA SleepKept ==
    ASSUME TypeOK, CallsPaired, NEW l \in Listener, WatchState(l), Dispatch,
           Head(wire).kind # "Signal"
    PROVE  WatchState(l)'
<1> DEFINE d == Head(wire)
<1>a. listeners \in [Listener -> ListenerState] /\ wire \in Seq(Call \cup Signal \cup Answer)
  BY DEF TypeOK, BusType, TaskType, ListenersOK
<1>1. messages' = messages \/ messages' = Append(messages, d)
  BY DEF Dispatch, FilterSignal
<1>2. CASE SignalQueued
  BY <1>1, <1>2, SignalKept DEF WatchState
<1>3. CASE listeners' = listeners /\ ~SignalQueued
  BY <1>3 DEF WatchState, Watching, Refused
<1>4. ASSUME NEW k \in Filtering, FilterSignal(k, d), d.kind = "NameOwnerChanged"
      PROVE  WatchState(l)'
  <2>1. SignalQueued'
    <3>1. messages \in Seq(Call \cup Signal) /\ messages' = Append(messages, d)
      BY <1>4 DEF FilterSignal, TypeOK, BusType
    <3> QED
      BY <1>4, <3>1, Grown DEF SignalQueued
  <2> QED
    BY <2>1 DEF WatchState
<1>5. CASE d.kind = "reply" /\ ~SignalQueued
  <2>0. d.to \in Listener
    BY <1>a, <1>5, HeadTail, WireKinds DEF Dispatch
  <2>1. PICK to \in Listener : to = d.to
    BY <2>0
  <2>2. listeners' = [listeners EXCEPT ![to] =
               [@ EXCEPT !.reply = IF d.ok THEN "ok" ELSE "error", !.ready = TRUE]]
    BY <1>5, <2>1 DEF Dispatch
  <2>3. Awaiting(to)
    <3>1. AnsweredAt(to, 1) /\ 1 \in DOMAIN wire
      BY <1>a, <1>5, <2>1, Shrunk DEF Dispatch, AnsweredAt
    <3> QED
      BY <3>1 DEF CallsPaired, AnsweredAwaits
  <2>4. listeners'[l].pc = listeners[l].pc /\ (l # to => listeners'[l] = listeners[l])
    BY <1>a, <2>1, <2>2 DEF ListenerState
  <2> QED
    BY <1>5, <2>3, <2>4 DEF WatchState, Watching, Refused, Awaiting
<1> QED
  BY <1>2, <1>3, <1>4, <1>5 DEF Dispatch

LEMMA OwnStepKept ==
    ASSUME TypeOK, CallsPaired, NEW l \in Listener, WatchState(l), NEW k \in Listener, ListenerStep(k)
    PROVE  WatchState(l)' /\ listeners'[l].sender = listeners[l].sender
<1>a. messages' = messages /\ listeners[k].ready
  BY DEF ListenerStep
<1>1. SignalQueued' <=> SignalQueued
  BY <1>a DEF SignalQueued
<1>2. CASE PendingCallPolled(k)
  BY <1>1, <1>2 DEF PendingCallPolled, WatchState, Watching, Refused
<1>3. ASSUME NEW next, NEW reply, listeners' = Await(next, k, reply),
             Watching(k) => next \in {"post", "exit"} \/ (next = "done" /\ reply = "error"),
             Refused(k) => FALSE
      PROVE  WatchState(l)' /\ listeners'[l].sender = listeners[l].sender
  <2>1. /\ listeners'[k].pc = next /\ listeners'[k].reply = reply /\ listeners'[k].ready = FALSE
        /\ listeners'[l].sender = listeners[l].sender /\ (l # k => listeners'[l] = listeners[l])
    <3>1. listeners' = Await(next, k, reply)
      BY <1>3
    <3> QED
      BY <3>1, AwaitParts
  <2> QED
    BY <1>1, <1>3, <2>1 DEF WatchState, Watching, Refused
<1>4. CASE add_match(k)
  BY <1>3, <1>4 DEF add_match, Refused
<1>5. CASE post(k)
  <2>1. listeners[k].reply \in {"ok", "error"}
    BY <1>5 DEF post, TypeOK, TaskType, ListenersOK, ListenerState
  <2>2. PICK next, reply : /\ listeners' = Await(next, k, reply)
                           /\ next = "exit" \/ (next = "done" /\ reply = "error")
    BY <1>5, <2>1 DEF post
  <2> QED
    BY <1>3, <1>5, <2>2 DEF post, Refused
<1>6. CASE exit(k) \/ return(k)
  <2>1. ~Watching(k) /\ ~Refused(k)
    BY <1>a, <1>6 DEF exit, return, Watching, Refused
  <2> QED
    BY <1>3, <1>6, <2>1 DEF exit, return
<1> QED
  BY <1>2, <1>4, <1>5, <1>6 DEF ListenerStep

\* The filter takes a signal that is no NameOwnerChanged.
Stray == wire # <<>> /\ Head(wire).kind = "Signal" /\ wire' = Tail(wire)

LEMMA WatchedStep ==
    ASSUME TypeOK, CallsPaired, [Next]_vars, claimed', claimed => Watched, ~Stray
    PROVE  Watched'
<1>1. ASSUME claimed, NEW l \in Listener, l = name_owner_changed_task, listeners[l].sender = claimed_sender, WatchState(l),
             name_owner_changed_task' = l, claimed_sender' = claimed_sender, WatchState(l)',
             listeners'[l].sender = listeners[l].sender
      PROVE  Watched'
  <2>1. l # None
    BY DeviceAssumption
  <2> QED
    BY <1>1, <2>1 DEF Watched, WatchState, SignalQueued, Watching, Refused
<1>2. ASSUME claimed
      PROVE  /\ name_owner_changed_task \in Listener /\ WatchState(name_owner_changed_task)
             /\ listeners[name_owner_changed_task].sender = claimed_sender
  BY <1>2 DEF Watched, WatchState, SignalQueued, TypeOK, DeviceType
<1>3. CASE handle_message
  <2>1. ASSUME NEW l \in Listener, Spawned(l) PROVE Watched'
    <3>1. /\ name_owner_changed_task' = l /\ listeners'[l].pc = "add_match" /\ listeners'[l].sender = claimed_sender'
          /\ l # None
      BY <2>1, DeviceAssumption DEF Spawned, TypeOK, TaskType, ListenersOK
    <3> QED
      BY <3>1 DEF Watched, Watching
  <2>2. CASE UNCHANGED <<listeners, name_owner_changed_task>> /\ UNCHANGED claimVars
    <3>1. PICK l \in Listener : l = name_owner_changed_task
      BY <1>2, <2>2 DEF claimVars
    <3>2. SignalQueued => SignalQueued'
      BY <1>3, ServedMessages, SignalKept
    <3>3. WatchState(l)'
      BY <1>2, <2>2, <3>1, <3>2 DEF WatchState, Watching, Refused, claimVars
    <3> QED
      BY <1>1, <1>2, <2>2, <3>1, <3>3 DEF claimVars
  <2> QED
    BY <1>3, <2>1, <2>2, ServedListeners
<1>4. CASE UNCHANGED <<claimVars, name_owner_changed_task>>
  <2>1. claimed /\ claimed_sender' = claimed_sender
    BY <1>4 DEF claimVars
  <2>2. PICK l \in Listener : l = name_owner_changed_task
    BY <1>2, <2>1
  <2>3. WatchState(l) /\ listeners[l].sender = claimed_sender /\ name_owner_changed_task' = l
    BY <1>2, <1>4, <2>1, <2>2
  <2>4. CASE Dispatch
    BY <1>1, <2>1, <2>2, <2>3, <2>4, SleepKept, DispatchCalls DEF Stray, Dispatch
  <2>5. ASSUME NEW k \in Listener, ListenerStep(k) PROVE Watched'
    BY <1>1, <2>1, <2>2, <2>3, <2>5, OwnStepKept
  <2>6. CASE UNCHANGED <<listeners, messages>>
    <3>1. WatchState(l)'
      BY <2>3, <2>6 DEF WatchState, Watching, Refused, SignalQueued
    <3> QED
      BY <1>1, <2>1, <2>2, <2>3, <2>6, <3>1
  <2>7. handle_message \/ Dispatch \/ (\E k \in Listener : ListenerStep(k)) \/ UNCHANGED <<listeners, messages>>
    BY DEF Next, vars, Send, Disconnect, OtherSignal, BusAnswer, LookupTimesOut, Poll, WorkerStep,
       SensorReports, ControlTakes
  <2> QED
    BY <1>3, <2>4, <2>5, <2>6, <2>7
<1>5. handle_message \/ UNCHANGED <<claimVars, name_owner_changed_task>>
  BY DEF Next, vars, deviceVars, Send, Disconnect, OtherSignal, BusAnswer, LookupTimesOut, Dispatch,
     Poll, ListenerStep, WorkerStep, SensorReports, ControlTakes
<1> QED
  BY <1>3, <1>4, <1>5

\* The listener that claim() spawned for this owner either still waits for a signal,
\* or was refused by the bus, or has put the signal that will drop the claim on the
\* message queue, until a signal of another kind wakes it.
THEOREM ClaimAlwaysWatched == Spec => ClaimWatched
<1> DEFINE A == claimed' =>
         \/ Watched'
         \/ claimed /\ ~Watched
         \/ wire # <<>> /\ Head(wire).kind = "Signal" /\ wire' = Tail(wire)
<1>1. TypeOK /\ CallsPaired /\ [Next]_vars => [A]_vars
  BY WatchedStep DEF Stray
<1>2. [][A]_vars <=> ClaimWatched
  BY DEF ClaimWatched
<1> HIDE DEF A
<1> QED
  BY <1>1, <1>2, WatchInvariant, TypeCorrect, PTL DEF Spec

-------------------------------------------------------------------------------
\* The positions of two queues in a row.
LEMMA Joined ==
    ASSUME NEW S, NEW T, NEW s \in Seq(S), NEW t \in Seq(T)
    PROVE  \A i \in DOMAIN (s \o t) :
              \/ i \in DOMAIN s /\ (s \o t)[i] = s[i]
              \/ i - Len(s) \in DOMAIN t /\ (s \o t)[i] = t[i - Len(s)]
<1>1. s \in Seq(S \cup T) /\ t \in Seq(S \cup T)
  OBVIOUS
<1>2. DOMAIN (s \o t) = 1..(Len(s) + Len(t)) /\ DOMAIN s = 1..Len(s) /\ DOMAIN t = 1..Len(t)
  BY <1>1
<1>3. \A i \in 1..(Len(s) + Len(t)) : (s \o t)[i] = IF i <= Len(s) THEN s[i] ELSE t[i - Len(s)]
  BY <1>1
<1>4. Len(s) \in Nat /\ Len(t) \in Nat
  BY <1>1
<1>5. ASSUME NEW m \in Nat, NEW n \in Nat, NEW i \in 1..(m + n) PROVE i \in 1..m \/ (i - m \in 1..n /\ ~(i <= m))
  <2>1. i \in Int /\ 1 <= i /\ i <= m + n
    OBVIOUS
  <2> QED
    BY <2>1
<1>6. ASSUME NEW i \in DOMAIN (s \o t)
      PROVE  \/ i \in DOMAIN s /\ (s \o t)[i] = s[i]
             \/ i - Len(s) \in DOMAIN t /\ (s \o t)[i] = t[i - Len(s)]
  <2>1. (s \o t)[i] = IF i <= Len(s) THEN s[i] ELSE t[i - Len(s)]
    BY <1>2, <1>3, <1>6
  <2>2. CASE i \in 1..Len(s)
    BY <1>2, <1>4, <2>1, <2>2
  <2>3. CASE i - Len(s) \in 1..Len(t) /\ ~(i <= Len(s))
    BY <1>2, <2>1, <2>3
  <2> QED
    BY <1>2, <1>4, <1>5, <1>6, <2>2, <2>3
<1> QED
  BY <1>6

\* A notice is put on the wire for a client of which there is none, dispatched
\* to the message queue at most once, and served.
LEMMA NoticeSent ==
    ASSUME TypeOK, OneNotice, messages' = messages, NEW e, wire' = Append(wire, e),
           \A c \in Client : NoticeOf(e, c) =>
               /\ \A i \in DOMAIN wire : ~NoticeOf(wire[i], c)
               /\ \A i \in DOMAIN messages : ~NoticeOf(messages[i], c)
    PROVE  OneNotice'
<1>a. wire \in Seq(Call \cup Signal \cup Answer)
  BY DEF TypeOK, BusType
<1> DEFINE n == Len(wire) + 1
<1>1. /\ DOMAIN wire' = DOMAIN wire \cup {n} /\ n \notin DOMAIN wire
      /\ (\A i \in DOMAIN wire : wire'[i] = wire[i]) /\ wire'[n] = e
  BY <1>a, Grown
<1> QED
  BY <1>1 DEF OneNotice

LEMMA NoticeDispatched ==
    ASSUME TypeOK, OneNotice, wire # <<>>, wire' = Tail(wire),
           messages' = messages \/ messages' = Append(messages, Head(wire))
    PROVE  OneNotice'
<1>a. wire \in Seq(Call \cup Signal \cup Answer) /\ messages \in Seq(Call \cup Signal)
  BY DEF TypeOK, BusType
<1>1. /\ Head(wire) = wire[1] /\ 1 \in DOMAIN wire /\ DOMAIN wire' \subseteq Nat \ {0}
      /\ \A i \in DOMAIN wire' : i + 1 \in DOMAIN wire /\ wire'[i] = wire[i + 1] /\ i + 1 # 1
  BY <1>a, Shrunk
<1>2. CASE messages' = messages
  BY <1>1, <1>2 DEF OneNotice
<1>3. CASE messages' = Append(messages, Head(wire))
  <2> DEFINE n == Len(messages) + 1
  <2>1. /\ DOMAIN messages' = DOMAIN messages \cup {n} /\ n \notin DOMAIN messages
        /\ (\A i \in DOMAIN messages : messages'[i] = messages[i]) /\ messages'[n] = wire[1]
    BY <1>a, <1>1, <1>3, Grown
  <2> QED
    BY <1>1, <2>1 DEF OneNotice
<1> QED
  BY <1>2, <1>3

LEMMA NoticeServed ==
    ASSUME TypeOK, OneNotice, wire' = wire,
           messages' = messages \/ (messages # <<>> /\ messages' = Tail(messages))
    PROVE  OneNotice'
<1>1. CASE messages' = messages
  BY <1>1 DEF OneNotice
<1>2. CASE messages # <<>> /\ messages' = Tail(messages)
  <2>1. /\ DOMAIN messages' \subseteq Nat \ {0}
        /\ \A i \in DOMAIN messages' : i + 1 \in DOMAIN messages /\ messages'[i] = messages[i + 1]
    BY <1>2, Shrunk DEF TypeOK, BusType
  <2> QED
    BY <2>1 DEF OneNotice
<1> QED
  BY <1>1, <1>2

LEMMA NoticeStep ==
    ASSUME TypeOK, GoneLeft, OneNotice, [Next]_vars
    PROVE  OneNotice'
<1>1. ASSUME NEW c \in Client, Send(c) PROVE OneNotice'
  <2>1. PICK e : wire' = Append(wire, e) /\ e.kind = "call"
    BY <1>1 DEF Send
  <2>2. messages' = messages
    BY <1>1 DEF Send
  <2> QED
    BY <2>1, <2>2, NoticeSent DEF NoticeOf
<1>2. ASSUME NEW c \in Client, Disconnect(c) PROVE OneNotice'
  <2> DEFINE e == [kind |-> "NameOwnerChanged", name |-> c]
  <2>1. connected[c] /\ messages' = messages /\ (wire' = wire \/ wire' = Append(wire, e))
    BY <1>2 DEF Disconnect
  <2>2. \A d \in Client : NoticeOf(e, d) =>
               /\ \A i \in DOMAIN wire : ~NoticeOf(wire[i], d)
               /\ \A i \in DOMAIN messages : ~NoticeOf(messages[i], d)
    BY <2>1, DeviceAssumption DEF NoticeOf, GoneLeft, Announces
  <2> QED
    BY <2>1, <2>2, NoticeSent, NoticeServed
<1>3. CASE BusAnswer
  <2> DEFINE r == Head(requests)
  <2>a. \A ok \in BOOLEAN : /\ [kind |-> "reply", to |-> r.from, ok |-> ok].kind # "NameOwnerChanged"
                            /\ [kind |-> "uid", ok |-> ok].kind # "NameOwnerChanged"
    OBVIOUS
  <2>b. \E ok \in BOOLEAN : \/ wire' = Append(wire, [kind |-> "reply", to |-> r.from, ok |-> ok])
                            \/ wire' = Append(wire, [kind |-> "uid", ok |-> ok])
    BY <1>3 DEF BusAnswer
  <2>1. PICK e : wire' = Append(wire, e) /\ e.kind # "NameOwnerChanged"
    BY <2>a, <2>b
  <2>2. messages' = messages
    BY <1>3 DEF BusAnswer
  <2> QED
    BY <2>1, <2>2, NoticeSent DEF NoticeOf
<1>4. CASE Dispatch
  BY <1>4, NoticeDispatched DEF Dispatch, FilterSignal
<1>5. CASE handle_message
  BY <1>5, ServedMessages, ServedListeners, NoticeServed
<1>6. ASSUME \/ Poll \/ ControlTakes \/ UNCHANGED vars
             \/ \E l \in Listener : ListenerStep(l)
             \/ \E w \in Worker : WorkerStep(w)
             \/ \E e \in {"FingerDown", "Image"} : SensorReports(e)
      PROVE  OneNotice'
  <2>1. UNCHANGED <<wire, messages>>
    BY <1>6 DEF Poll, ControlTakes, ListenerStep, WorkerStep, SensorReports, vars, busVars
  <2> QED
    BY <2>1, NoticeServed
<1>7. CASE OtherSignal
  <2>1. PICK kind : wire' = Append(wire, [kind |-> kind, name |-> None])
    BY <1>7 DEF OtherSignal
  <2>2. messages' = messages
    BY <1>7 DEF OtherSignal
  <2>3. \A c \in Client : ~NoticeOf([kind |-> kind, name |-> None], c)
    BY DeviceAssumption DEF NoticeOf
  <2> QED
    BY <2>1, <2>2, <2>3, NoticeSent
<1>8. CASE LookupTimesOut
  <2>1. wire' = Append(wire, [kind |-> "uid", ok |-> FALSE]) /\ messages' = messages
    BY <1>8 DEF LookupTimesOut
  <2> QED
    BY <2>1, NoticeSent DEF NoticeOf
<1> QED
  BY <1>1, <1>2, <1>3, <1>4, <1>5, <1>6, <1>7, <1>8 DEF Next

LEMMA NoticeInvariant == Spec => []OneNotice
<1>1. Init => OneNotice
  <2>1. Init => DOMAIN wire = {} /\ DOMAIN messages = {}
    BY DEF Init
  <2> QED
    BY <2>1 DEF OneNotice
<1>2. TypeOK /\ GoneLeft /\ OneNotice /\ [Next]_vars => OneNotice'
  BY NoticeStep
<1> QED
  BY <1>1, <1>2, GoneInvariant, TypeCorrect, PTL DEF Spec

\* A client's departure is announced once and filter_signal() of one listener
\* takes it: between the bus and the device object it never appears twice.
THEOREM GoneAtMostOnce == Spec => []GoneOnce
<1>1. TypeOK /\ OneNotice => GoneOnce
  <2> SUFFICES ASSUME TypeOK, OneNotice, NEW c \in Client
               PROVE  Cardinality({i \in DOMAIN (wire \o messages) :
                         (wire \o messages)[i] = [kind |-> "NameOwnerChanged", name |-> c]}) <= 1
    BY DEF GoneOnce
  <2> DEFINE q == wire \o messages
             S == {i \in DOMAIN q : q[i] = [kind |-> "NameOwnerChanged", name |-> c]}
  <2>1. wire \in Seq(Call \cup Signal \cup Answer) /\ messages \in Seq(Call \cup Signal)
    BY DEF TypeOK, BusType
  <2>2. \A i \in DOMAIN q : \/ i \in DOMAIN wire /\ q[i] = wire[i]
                            \/ i - Len(wire) \in DOMAIN messages /\ q[i] = messages[i - Len(wire)]
    BY <2>1, Joined
  <2>3. DOMAIN q \subseteq Nat /\ Len(wire) \in Nat
    BY <2>1
  <2>4. ASSUME NEW i \in S, NEW j \in S PROVE i = j
    <3>1. q[i] = [kind |-> "NameOwnerChanged", name |-> c] /\ q[j] = [kind |-> "NameOwnerChanged", name |-> c]
      OBVIOUS
    <3>2. NoticeOf(q[i], c) /\ NoticeOf(q[j], c)
      BY <3>1 DEF NoticeOf
    <3> HIDE DEF q
    <3> QED
      BY <2>2, <2>3, <3>2 DEF OneNotice
  <2>5. Cardinality(S) <= 1
    <3> HIDE DEF S
    <3>1. S = {} \/ \E x : S = {x}
      BY <2>4
    <3>2. CASE S = {}
      BY <3>2, FS_EmptySet
    <3>3. ASSUME NEW x, S = {x} PROVE Cardinality(S) <= 1
      <4>1. Cardinality({x}) = 1
        BY FS_Singleton
      <4> QED
        BY <3>3, <4>1
    <3> QED
      BY <3>1, <3>2, <3>3
  <2> QED
    BY <2>5
<1> QED
  BY <1>1, NoticeInvariant, TypeCorrect, PTL


-------------------------------------------------------------------------------
(***************************************************************************)
(* Polite clients await each reply and stop their task before they release *)
(* the device.  Then a call is in one place at a time, a Release never     *)
(* meets a task, and a task that was let go runs before its owner is heard *)
(* again: no second task is started beside it.                             *)
(***************************************************************************)

\* A call of client c on the wire, in the message queue, and being served.
OnWire(c, i)  == i \in DOMAIN wire /\ wire[i].kind = "call" /\ wire[i].sender = c
InQueue(c, i) == i \in DOMAIN messages /\ messages[i].kind = "call" /\ messages[i].sender = c
Served(c)     == serving # <<>> /\ serving[1].sender = c

\* A client's call is in one place.
WireOnce  == \A c \in Client, i, j \in DOMAIN wire : OnWire(c, i) /\ OnWire(c, j) => i = j
QueueOnce == \A c \in Client, i, j \in DOMAIN messages : InQueue(c, i) /\ InQueue(c, j) => i = j
Apart     == \A c \in Client, i \in DOMAIN wire, j \in DOMAIN messages : ~(OnWire(c, i) /\ InQueue(c, j))
Alone     == \A c \in Client : Served(c) => /\ \A i \in DOMAIN wire : ~OnWire(c, i)
                                            /\ \A i \in DOMAIN messages : ~InQueue(c, i)
OneCall   == WireOnce /\ QueueOnce /\ Apart /\ Alone

\* There is no task when the owner's Release arrives.
ReleaseSent(c) == \/ \E i \in DOMAIN wire : OnWire(c, i) /\ wire[i].method = "Release"
                  \/ \E i \in DOMAIN messages : InQueue(c, i) /\ messages[i].method = "Release"
ReleaseIdle ==
    \A c \in Client : claimed /\ claimed_sender = c /\ enroll_verify_task # None => ~ReleaseSent(c)

\* There is one task at a time.  It is ready unless it waits in the image queue;
\* one that was let go has its stop event or will find it in the queue.
OneTask == \A v, w \in Worker : workers[v].pc # "done" /\ workers[w].pc # "done" => v = w
TaskReady ==
    \A w \in Worker :
        /\ workers[w].pc = "enroll" => w = enroll_verify_task /\ workers[w].ready
        /\ workers[w].pc = "parse_image" => IF w \in pending_get THEN ~workers[w].ready
                                            ELSE workers[w].ready /\ workers[w].got # "none"
LetGo(w)   == workers[w].pc = "parse_image" /\ w # enroll_verify_task
StopQueued == \E i \in DOMAIN image_queue : image_queue[i] = "EnrollVerifyStop"
StopComes  ==
    \A w \in Worker : LetGo(w) => /\ w \notin pending_get
                                  /\ workers[w].got = "EnrollVerifyStop" \/ StopQueued

\* A task that was just started or let go runs before the owner is heard again.
Unheard     == /\ ~polling
               /\ \A c \in Client : claimed /\ claimed_sender = c => ~Outstanding(c)
BusyUnheard == \A w \in Worker : workers[w].pc = "enroll" \/ LetGo(w) => Unheard

TaskInv   == OneTask /\ TaskReady /\ StopComes /\ BusyUnheard
PoliteInv == OneCall /\ ReleaseIdle /\ TaskInv

LEMMA OutstandingWhere ==
    ASSUME NEW c
    PROVE  /\ Outstanding(c) <=> \/ \E i \in DOMAIN wire : OnWire(c, i)
                                 \/ \E i \in DOMAIN messages : InQueue(c, i)
                                 \/ Served(c)
           /\ ReleaseSent(c) => Outstanding(c)
  BY DEF Outstanding, ReleaseSent, OnWire, InQueue, Served

LEMMA CallsStill ==
    ASSUME OneCall, UNCHANGED <<wire, messages, serving>>
    PROVE  /\ OneCall'
           /\ \A c \in Client : (Outstanding(c)' <=> Outstanding(c)) /\ (ReleaseSent(c)' <=> ReleaseSent(c))
<1>1. \A c : /\ \A i : (OnWire(c, i)' <=> OnWire(c, i)) /\ (InQueue(c, i)' <=> InQueue(c, i))
             /\ Served(c)' <=> Served(c)
  BY DEF OnWire, InQueue, Served
<1>2. OneCall'
  BY <1>1 DEF OneCall, WireOnce, QueueOnce, Apart, Alone
<1> QED
  BY <1>2 DEF Outstanding, ReleaseSent, OnWire, InQueue

\* A polite client sends its only call, and Release only when no task is held.
LEMMA SendCalls ==
    ASSUME TypeOK, Polite, OneCall, ReleaseIdle, NEW c \in Client, Send(c)
    PROVE  OneCall' /\ ReleaseIdle'
<1>1. PICK m, a : /\ ~Outstanding(c)
                  /\ m = "Release" => enroll_verify_task = None
                  /\ wire' = Append(wire, [kind |-> "call", method |-> m, sender |-> c, arg |-> a])
  BY DEF Send
<1> DEFINE n == Len(wire) + 1
<1>2. wire \in Seq(Call \cup Signal \cup Answer)
  BY DEF TypeOK, BusType
<1>3. /\ DOMAIN wire' = DOMAIN wire \cup {n} /\ n \notin DOMAIN wire
      /\ \A i \in DOMAIN wire : wire'[i] = wire[i]
      /\ wire'[n] = [kind |-> "call", method |-> m, sender |-> c, arg |-> a]
  BY <1>1, <1>2, Grown
<1> HIDE DEF n
<1>4. /\ messages' = messages /\ serving' = serving /\ claimed' = claimed
      /\ claimed_sender' = claimed_sender /\ enroll_verify_task' = enroll_verify_task
  BY DEF Send, deviceVars, claimVars
<1>5. \A d \in Client : /\ \A i \in DOMAIN wire' : OnWire(d, i)' <=> (OnWire(d, i) \/ (i = n /\ d = c))
                        /\ \A i : InQueue(d, i)' <=> InQueue(d, i)
                        /\ Served(d)' <=> Served(d)
  BY <1>3, <1>4 DEF OnWire, InQueue, Served
<1>6. /\ \A i \in DOMAIN wire : ~OnWire(c, i)
      /\ \A i \in DOMAIN messages : ~InQueue(c, i)
      /\ ~Served(c)
  BY <1>1, OutstandingWhere
<1>7. WireOnce'
  BY <1>3, <1>5, <1>6 DEF OneCall, WireOnce, OnWire
<1>8. QueueOnce' /\ Apart'
  BY <1>3, <1>4, <1>5, <1>6 DEF OneCall, QueueOnce, Apart, OnWire
<1>9. Alone'
  BY <1>3, <1>4, <1>5, <1>6 DEF OneCall, Alone, OnWire
<1>10. ReleaseIdle'
  <2>1. \A d \in Client : ReleaseSent(d)' => ReleaseSent(d) \/ m = "Release"
    BY <1>3, <1>4 DEF ReleaseSent, OnWire, InQueue
  <2> QED
    BY <1>1, <1>4, <2>1 DEF ReleaseIdle
<1> QED
  BY <1>7, <1>8, <1>9, <1>10 DEF OneCall


\* The dispatch of a call moves it from the wire to the message queue.
LEMMA DispatchPolite ==
    ASSUME TypeOK, OneCall, ReleaseIdle, Dispatch
    PROVE  OneCall' /\ ReleaseIdle'
<1> DEFINE d == Head(wire)
           n == Len(messages) + 1
<1>1. /\ wire \in Seq(Call \cup Signal \cup Answer) /\ messages \in Seq(Call \cup Signal)
      /\ wire # <<>> /\ wire' = Tail(wire)
  BY DEF TypeOK, BusType, Dispatch
<1>2. /\ d = wire[1] /\ 1 \in DOMAIN wire /\ DOMAIN wire \subseteq Nat \ {0} /\ DOMAIN wire' \subseteq Nat \ {0}
      /\ \A i \in DOMAIN wire' : i + 1 \in DOMAIN wire /\ wire'[i] = wire[i + 1]
      /\ \A i \in DOMAIN wire : i = 1 \/ (i - 1 \in DOMAIN wire' /\ wire'[i - 1] = wire[i])
  BY <1>1, Shrunk
<1>3. /\ DOMAIN Append(messages, d) = DOMAIN messages \cup {n} /\ n \notin DOMAIN messages
      /\ \A i \in DOMAIN messages : Append(messages, d)[i] = messages[i]
      /\ Append(messages, d)[n] = d
  BY <1>1, Grown
<1>4. /\ serving' = serving /\ claimed' = claimed
      /\ claimed_sender' = claimed_sender /\ enroll_verify_task' = enroll_verify_task
      /\ \/ messages' = Append(messages, d)
         \/ messages' = messages /\ d.kind # "call"
  BY DEF Dispatch, FilterSignal, claimVars
<1> HIDE DEF d, n
<1>5. \A c \in Client : /\ \A i \in DOMAIN wire' : OnWire(c, i)' <=> OnWire(c, i + 1)
                        /\ Served(c)' <=> Served(c)
  BY <1>2, <1>4 DEF OnWire, Served
<1>6. \A c \in Client, i \in DOMAIN messages' :
          InQueue(c, i)' => \/ i \in DOMAIN messages /\ InQueue(c, i) /\ messages'[i] = messages[i]
                            \/ i = n /\ OnWire(c, 1) /\ messages'[i] = wire[1]
  BY <1>2, <1>3, <1>4 DEF InQueue, OnWire
<1>7. \A i \in DOMAIN wire' : i \in Nat \ {0} /\ i + 1 \in DOMAIN wire /\ i + 1 # 1
  BY <1>2
<1>8. \A c \in Client, i, j \in DOMAIN wire' : OnWire(c, i)' /\ OnWire(c, j)' => i = j
  BY <1>2, <1>5, <1>7 DEF OneCall, WireOnce
<1>9. QueueOnce'
  BY <1>2, <1>6 DEF OneCall, QueueOnce, Apart
<1>10. Apart'
  BY <1>2, <1>5, <1>6, <1>7 DEF OneCall, WireOnce, Apart
<1>11. Alone'
  BY <1>2, <1>5, <1>6, <1>7 DEF OneCall, Alone
<1>12. \A c \in Client : ReleaseSent(c)' => ReleaseSent(c)
  BY <1>2, <1>5, <1>6, <1>7 DEF ReleaseSent, OnWire, InQueue
<1>13. ReleaseIdle'
  BY <1>4, <1>12 DEF ReleaseIdle
<1> QED
  BY <1>8, <1>9, <1>10, <1>11, <1>13 DEF OneCall, WireOnce

\* What handle_message() does with the calls: the served client has none left.
LEMMA HandleCalls ==
    ASSUME TypeOK, OneCall, handle_message
    PROVE  /\ OneCall'
           /\ \A c \in Client : /\ Outstanding(c)' => Outstanding(c)
                                /\ ReleaseSent(c)' => ReleaseSent(c)
                                /\ ServedBy(c) /\ (serving # <<>> \/ Head(messages).method \notin UidMethods)
                                   => Outstanding(c) /\ ~Outstanding(c)'
<1>1. /\ wire \in Seq(Call \cup Signal \cup Answer) /\ messages \in Seq(Call \cup Signal)
      /\ serving \in Seq(Call) /\ wire' = wire
  BY DEF TypeOK, BusType, DeviceType, handle_message
<1>2. ASSUME messages # <<>>, serving = <<>>, messages' = Tail(messages),
             \/ serving' = <<>> /\ (Head(messages).kind = "call" => Head(messages).method \notin UidMethods)
             \/ serving' = <<Head(messages)>> /\ Head(messages).kind = "call" /\ Head(messages).method \in UidMethods
      PROVE  /\ OneCall'
             /\ \A c \in Client : /\ Outstanding(c)' => Outstanding(c)
                                  /\ ReleaseSent(c)' => ReleaseSent(c)
                                  /\ ServedBy(c) /\ (serving # <<>> \/ Head(messages).method \notin UidMethods)
                                     => Outstanding(c) /\ ~Outstanding(c)'
  <2> DEFINE d == Head(messages)
  <2>1. /\ d = messages[1] /\ 1 \in DOMAIN messages /\ DOMAIN messages' \subseteq Nat \ {0}
        /\ \A i \in DOMAIN messages' : i + 1 \in DOMAIN messages /\ messages'[i] = messages[i + 1]
        /\ \A i \in DOMAIN messages : i = 1 \/ (i - 1 \in DOMAIN messages' /\ messages'[i - 1] = messages[i])
    BY <1>1, <1>2, Shrunk
  <2>2. <<d>> # <<>> /\ <<d>>[1] = d
    OBVIOUS
  <2> HIDE DEF d
  <2>3. \A c \in Client : /\ \A i \in DOMAIN messages' : InQueue(c, i)' <=> InQueue(c, i + 1)
                          /\ \A i : OnWire(c, i)' <=> OnWire(c, i)
    BY <1>1, <2>1 DEF InQueue, OnWire
  <2>4. \A i \in DOMAIN messages' : i \in Nat \ {0} /\ i + 1 \in DOMAIN messages /\ i + 1 # 1
    BY <2>1
  <2>5. \A c \in Client : Served(c)' => InQueue(c, 1)
    BY <1>2, <2>1, <2>2 DEF Served, InQueue, d
  <2>6. WireOnce'
    BY <1>1, <2>3 DEF OneCall, WireOnce
  <2>7. \A c \in Client, i, j \in DOMAIN messages' : InQueue(c, i)' /\ InQueue(c, j)' => i = j
    BY <2>3, <2>4 DEF OneCall, QueueOnce
  <2>8. Apart'
    BY <1>1, <2>3, <2>4 DEF OneCall, Apart
  <2>9. Alone'
    BY <1>1, <2>1, <2>3, <2>4, <2>5 DEF OneCall, Alone, QueueOnce, Apart
  <2>10. \A c \in Client : Outstanding(c)' => Outstanding(c)
    <3>1. \A c \in Client : Outstanding(c)' => \/ \E i \in DOMAIN wire' : OnWire(c, i)'
                                               \/ \E i \in DOMAIN messages' : InQueue(c, i)'
                                               \/ Served(c)'
      BY DEF Outstanding, OnWire, InQueue, Served
    <3> QED
      BY <1>1, <2>1, <2>3, <2>4, <2>5, <3>1, OutstandingWhere
  <2>11. \A c \in Client : ReleaseSent(c)' => ReleaseSent(c)
    BY <1>1, <2>1, <2>3, <2>4 DEF ReleaseSent
  <2>12. ASSUME NEW c \in Client, ServedBy(c), d.method \notin UidMethods
         PROVE  Outstanding(c) /\ ~Outstanding(c)'
    <3>1. InQueue(c, 1) /\ serving' = <<>>
      BY <1>2, <2>1, <2>12 DEF ServedBy, InQueue, d
    <3>2. /\ \A i \in DOMAIN wire' : ~OnWire(c, i)'
          /\ \A i \in DOMAIN messages' : ~InQueue(c, i)'
          /\ ~Served(c)'
      BY <1>1, <2>1, <2>3, <2>4, <3>1 DEF OneCall, QueueOnce, Apart, Served
    <3> QED
      BY <2>1, <3>1, <3>2 DEF Outstanding, OnWire, InQueue, Served
  <2> QED
    BY <1>2, <2>6, <2>7, <2>8, <2>9, <2>10, <2>11, <2>12 DEF OneCall, QueueOnce, d
<1>3. ASSUME serving # <<>>, serving' = <<>>, messages' = messages
      PROVE  /\ OneCall'
             /\ \A c \in Client : /\ Outstanding(c)' => Outstanding(c)
                                  /\ ReleaseSent(c)' => ReleaseSent(c)
                                  /\ ServedBy(c) => Outstanding(c) /\ ~Outstanding(c)'
  <2>1. \A c : /\ \A i : (OnWire(c, i)' <=> OnWire(c, i)) /\ (InQueue(c, i)' <=> InQueue(c, i))
               /\ ~Served(c)'
    BY <1>1, <1>3 DEF OnWire, InQueue, Served
  <2>2. OneCall'
    BY <1>1, <1>3, <2>1 DEF OneCall, WireOnce, QueueOnce, Apart, Alone
  <2>3. \A c \in Client : (Outstanding(c)' => Outstanding(c)) /\ (ReleaseSent(c)' => ReleaseSent(c))
    BY <1>1, <1>3 DEF Outstanding, ReleaseSent, OnWire, InQueue
  <2>4. ASSUME NEW c \in Client, ServedBy(c) PROVE Outstanding(c) /\ ~Outstanding(c)'
    <3>1. Served(c)
      BY <1>3, <2>4 DEF ServedBy, Served
    <3> QED
      BY <1>1, <1>3, <3>1 DEF OneCall, Alone, Outstanding, OnWire, InQueue, Served
  <2> QED
    BY <2>2, <2>3, <2>4
<1>4. CASE get_uid
  BY <1>2, <1>4 DEF get_uid
<1>5. CASE check_sender
  <2>1. ClaimMethods \cap UidMethods = {}
    BY DEF ClaimMethods, UidMethods, StartMethods, StopMethods, DeleteMethods
  <2> QED
    BY <1>2, <1>5, <2>1 DEF check_sender
<1>6. CASE owner_left
  BY <1>2, <1>6 DEF owner_left
<1>7. CASE check_uid
  BY <1>3, <1>7 DEF check_uid
<1>8. CASE unhandled
  BY <1>2, <1>8 DEF unhandled
<1> QED
  BY <1>4, <1>5, <1>6, <1>7, <1>8 DEF handle_message

-------------------------------------------------------------------------------
\* The tasks of polite clients.

\* A task that runs, or will, is not asleep.
LEMMA BusyReady ==
    ASSUME TaskInv, NEW w \in Worker, workers[w].pc = "enroll" \/ LetGo(w)
    PROVE  workers[w].ready
  BY DEF TaskInv, TaskReady, StopComes, LetGo

LEMMA TasksStill ==
    ASSUME TaskInv, UNCHANGED <<workers, pending_get, image_queue, enroll_verify_task>>,
           \A w \in Worker : workers[w].pc = "enroll" \/ LetGo(w) => Unheard'
    PROVE  TaskInv'
<1>1. OneTask' /\ TaskReady'
  BY DEF TaskInv, OneTask, TaskReady
<1>2. \A w \in Worker : LetGo(w)' <=> LetGo(w)
  BY DEF LetGo
<1>3. StopComes'
  BY <1>2 DEF TaskInv, StopComes, StopQueued
<1>4. BusyUnheard'
  BY <1>2 DEF BusyUnheard
<1> QED
  BY <1>1, <1>3, <1>4 DEF TaskInv

\* A task that ends leaves the others as they were.
LEMMA FinishTasks ==
    ASSUME TypeOK, TaskInv, NEW w \in Worker, workers' = Finish(workers, w),
           UNCHANGED <<pending_get, image_queue, enroll_verify_task>>, Unheard => Unheard'
    PROVE  TaskInv'
<1>1. /\ workers'[w].pc = "done"
      /\ \A v \in Worker \ {w} : workers'[v] = workers[v]
  BY DEF Finish, NoWorker, TypeOK, TaskType, WorkersOK
<1>2. \A v \in Worker : LetGo(v)' => v # w /\ LetGo(v)
  BY <1>1 DEF LetGo
<1>3. OneTask' /\ TaskReady'
  BY <1>1 DEF TaskInv, OneTask, TaskReady
<1>4. StopComes'
  BY <1>1, <1>2 DEF TaskInv, StopComes, StopQueued
<1>5. BusyUnheard'
  BY <1>1, <1>2 DEF TaskInv, BusyUnheard
<1> QED
  BY <1>3, <1>4, <1>5 DEF TaskInv

\* A task that waits for its next event takes it or sleeps; one that was let go
\* still has its stop event before it.
LEMMA WaitTasks ==
    ASSUME TypeOK, TaskInv, NEW w \in Worker, workers[w].pc = "parse_image",
           workers[w].ready, workers[w].got # "EnrollVerifyStop",
           NEW wk, WorkersOK(wk), wk[w].pc = workers[w].pc, \A v \in Worker \ {w} : wk[v] = workers[v],
           wait_image(wk, w), UNCHANGED enroll_verify_task, Unheard => Unheard'
    PROVE  TaskInv'
<1>1. wk \in [Worker -> WorkerState] /\ image_queue \in Seq(ImageEvent)
  BY DEF WorkersOK, TypeOK, TaskType
<1>2. /\ workers'[w].pc = "parse_image"
      /\ \A v \in Worker \ {w} : workers'[v] = workers[v]
      /\ \/ /\ image_queue # <<>> /\ image_queue' = Tail(image_queue)
            /\ pending_get' = pending_get \ {w}
            /\ workers'[w].got = Head(image_queue) /\ workers'[w].ready
         \/ /\ image_queue = <<>> /\ image_queue' = image_queue
            /\ pending_get' = pending_get \cup {w} /\ ~workers'[w].ready
  <2>1. CASE image_queue # <<>>
    <3>1. /\ workers' = Got(wk, w, Head(image_queue))
          /\ image_queue' = Tail(image_queue) /\ pending_get' = pending_get \ {w}
      BY <2>1 DEF wait_image
    <3>2. Got(wk, w, Head(image_queue))[w].ready
      BY <1>1 DEF Got, WorkerState
    <3> QED
      BY <2>1, <3>1, <3>2, GotParts
  <2>2. CASE image_queue = <<>>
    <3> DEFINE r == [wk[w] EXCEPT !.got = "none", !.ready = FALSE]
    <3>1. r.pc = wk[w].pc /\ ~r.ready
      BY <1>1 DEF WorkerState
    <3>2. /\ workers' = [wk EXCEPT ![w] = r]
          /\ pending_get' = pending_get \cup {w} /\ UNCHANGED image_queue
      BY <2>2 DEF wait_image
    <3> HIDE DEF r
    <3> QED
      BY <1>1, <2>2, <3>1, <3>2
  <2> QED
    BY <2>1, <2>2
<1>3. w \notin pending_get /\ (LetGo(w) => StopQueued)
  BY DEF TaskInv, TaskReady, StopComes
<1>4. \A v \in Worker : /\ LetGo(v)' <=> LetGo(v)
                        /\ workers'[v].pc = workers[v].pc
  BY <1>2 DEF LetGo
<1>5. OneTask'
  BY <1>4 DEF TaskInv, OneTask
<1>6. TaskReady'
  <2>1. image_queue # <<>> => Head(image_queue) # "none"
    BY <1>1 DEF ImageEvent
  <2> QED
    BY <1>2, <2>1 DEF TaskInv, TaskReady
<1>7. StopComes'
  <2> SUFFICES ASSUME NEW v \in Worker, LetGo(v)
               PROVE  v \notin pending_get' /\ (workers'[v].got = "EnrollVerifyStop" \/ StopQueued')
    BY <1>4 DEF StopComes
  <2>1. v = w
    BY DEF TaskInv, OneTask, LetGo
  <2>2. PICK i \in DOMAIN image_queue : image_queue[i] = "EnrollVerifyStop"
    BY <1>3, <2>1 DEF StopQueued
  <2>3. image_queue # <<>>
    BY <1>1, <2>2
  <2>4. CASE i = 1
    BY <1>1, <1>2, <2>1, <2>2, <2>3, <2>4
  <2>5. CASE i # 1
    <3>1. i - 1 \in DOMAIN Tail(image_queue) /\ Tail(image_queue)[i - 1] = "EnrollVerifyStop"
      BY <1>1, <2>2, <2>3, <2>5, Shrunk
    <3> QED
      BY <1>2, <2>1, <2>3, <3>1 DEF StopQueued
  <2> QED
    BY <2>4, <2>5
<1>8. BusyUnheard'
  BY <1>4 DEF TaskInv, BusyUnheard
<1> QED
  BY <1>5, <1>6, <1>7, <1>8 DEF TaskInv

\* The only task empties the queue and sleeps in it.
LEMMA EnrollTasks ==
    ASSUME TypeOK, SessionInv, TaskInv, NEW w \in Worker, enroll(w),
           UNCHANGED enroll_verify_task, Unheard => Unheard'
    PROVE  TaskInv'
<1> DEFINE wk == [workers EXCEPT ![w].pc = "parse_image"]
<1>1. /\ pending_get' = {w} /\ workers' = [CancelGetters(wk) EXCEPT ![w].ready = FALSE]
      /\ workers[w].pc = "enroll" /\ w = enroll_verify_task
  BY DEF enroll, reset, TaskInv, TaskReady
<1>2. pending_get = {}
  BY <1>1 DEF SessionInv, GettersLive, TaskInv, OneTask, TypeOK, TaskType
<1>3. workers \in [Worker -> WorkerState]
  BY DEF TypeOK, TaskType, WorkersOK
<1>4. /\ wk \in [Worker -> WorkerState] /\ wk[w].pc = "parse_image"
      /\ \A v \in Worker \ {w} : wk[v] = workers[v]
  BY <1>3 DEF WorkerState
<1> HIDE DEF wk
<1>5. CancelGetters(wk) = wk
  BY <1>2, <1>4 DEF CancelGetters
<1>6. /\ workers'[w].pc = "parse_image" /\ ~workers'[w].ready
      /\ \A v \in Worker \ {w} : workers'[v] = workers[v]
  BY <1>1, <1>4, <1>5 DEF WorkerState
<1>7. \A v \in Worker \ {w} : workers[v].pc = "done"
  BY <1>1 DEF TaskInv, OneTask
<1>8. \A v \in Worker : ~LetGo(v)' /\ workers'[v].pc # "enroll"
  BY <1>1, <1>6, <1>7 DEF LetGo
<1>9. OneTask' /\ TaskReady'
  BY <1>1, <1>6, <1>7 DEF OneTask, TaskReady
<1> QED
  BY <1>8, <1>9 DEF TaskInv, StopComes, BusyUnheard

LEMMA WorkerStepTasks ==
    ASSUME TypeOK, SessionInv, TaskInv, NEW w \in Worker, WorkerStep(w)
    PROVE  TaskInv'
<1>1. /\ UNCHANGED <<enroll_verify_task, polling, claimed, claimed_sender, wire, messages, serving>>
      /\ workers[w].ready
  BY DEF WorkerStep, busVars, deviceVars, claimVars
<1>2. Unheard => Unheard'
  BY <1>1 DEF Unheard, Outstanding
<1>3. CASE enroll(w)
  BY <1>1, <1>2, <1>3, EnrollTasks
<1>4. CASE workers[w].pc = "parse_image" /\ (parse_image(w) \/ GetPolled(w))
  <2>1. WorkersOK(workers)
    BY DEF TypeOK, TaskType
  <2>2. CASE FingerDown(w) \/ Retry(w)
    <3>1. wait_image(workers, w) /\ workers[w].got # "EnrollVerifyStop"
      BY <2>2 DEF FingerDown, Retry
    <3> QED
      BY <1>1, <1>2, <1>4, <2>1, <3>1, WaitTasks
  <2>3. CASE VerifyMatch(w) \/ EnrollCompleted(w) \/ Stopped(w) \/ Cancelled(w)
    <3>1. workers' = Finish(workers, w) /\ UNCHANGED <<pending_get, image_queue>>
      BY <2>3 DEF VerifyMatch, EnrollCompleted, Stopped, Cancelled, End, queueVars
    <3> QED
      BY <1>1, <1>2, <3>1, FinishTasks
  <2>4. CASE StagePassed(w)
    <3> DEFINE r  == [workers[w] EXCEPT !.count = @ + 1]
               wk == [workers EXCEPT ![w].count = @ + 1]
    <3>1. workers \in [Worker -> WorkerState] /\ workers[w] \in WorkerState
          /\ workers[w].finger \in FingerArg
      BY <1>4 DEF TypeOK, TaskType, WorkersOK
    <3>2. r \in WorkerState /\ r.pc = workers[w].pc /\ r.finger = workers[w].finger
      BY <3>1 DEF WorkerState
    <3>3. WorkersOK([workers EXCEPT ![w] = r])
      BY <2>1, <3>1, <3>2, WorkerReplaced
    <3>4. /\ [workers EXCEPT ![w] = r][w].pc = workers[w].pc
          /\ \A v \in Worker \ {w} : [workers EXCEPT ![w] = r][v] = workers[v]
      BY <3>1, <3>2
    <3>5. wait_image(wk, w) /\ workers[w].got # "EnrollVerifyStop"
      BY <2>4 DEF StagePassed, EnrollImage
    <3> QED
      BY <1>1, <1>2, <1>4, <3>3, <3>4, <3>5, WaitTasks
  <2>5. CASE GetPolled(w)
    BY <1>1, <1>4, <2>5 DEF GetPolled, TaskInv, TaskReady, SessionInv, GettersLive
  <2>6. CASE WrongSize(w)
    BY <1>1, <1>2, <2>6, TasksStill DEF WrongSize, TaskInv, BusyUnheard, queueVars
  <2> QED
    BY <1>4, <2>2, <2>3, <2>4, <2>5, <2>6 DEF parse_image
<1> QED
  BY <1>3, <1>4 DEF WorkerStep

\* A put hands its event to the one task that waits in the queue, or leaves it.
LEMMA PutTasks ==
    ASSUME NEW wk, WorkersOK(wk), NEW pend \in SUBSET Worker, image_queue \in Seq(ImageEvent),
           NEW e \in ImageEvent, PutImage(wk, pend, e)
    PROVE  /\ \A v \in Worker : workers'[v].pc = wk[v].pc
           /\ \/ /\ pend = {} /\ pending_get' = {} /\ workers' = wk
                 /\ image_queue' = Append(image_queue, e)
              \/ \E w \in pend : /\ workers'[w].got = e /\ workers'[w].ready
                                 /\ \A v \in Worker \ {w} : workers'[v] = wk[v]
                                 /\ pending_get' = pend \ {w} /\ image_queue' = image_queue
<1>1. ASSUME NEW w \in pend, workers' = Got(wk, w, e), pending_get' = pend \ {w}, UNCHANGED image_queue
      PROVE  /\ \A v \in Worker : workers'[v].pc = wk[v].pc
             /\ workers'[w].got = e /\ workers'[w].ready
             /\ \A v \in Worker \ {w} : workers'[v] = wk[v]
  <2>1. workers'[w].ready
    BY <1>1 DEF Got, WorkersOK, WorkerState
  <2> QED
    BY <1>1, <2>1, GotParts
<1> QED
  BY <1>1 DEF PutImage

LEMMA ReportTasks ==
    ASSUME TypeOK, TaskInv, NEW e \in {"FingerDown", "Image"}, SensorReports(e)
    PROVE  TaskInv'
<1>1. /\ PutImage(workers, pending_get, e)
      /\ UNCHANGED <<enroll_verify_task, polling, claimed, claimed_sender, wire, messages, serving>>
  BY DEF SensorReports, deviceVars, claimVars, busVars
<1>2. /\ \A v \in Worker : workers'[v].pc = workers[v].pc
      /\ \/ /\ pending_get = {} /\ pending_get' = {} /\ workers' = workers
            /\ image_queue' = Append(image_queue, e)
         \/ \E w \in pending_get : /\ workers'[w].got = e /\ workers'[w].ready
                                   /\ \A v \in Worker \ {w} : workers'[v] = workers[v]
                                   /\ pending_get' = pending_get \ {w} /\ image_queue' = image_queue
  BY <1>1, PutTasks DEF ImageEvent, TypeOK, TaskType
<1>3. Unheard => Unheard'
  BY <1>1 DEF Unheard, Outstanding
<1>4. \A v \in Worker : LetGo(v)' <=> LetGo(v)
  BY <1>1, <1>2 DEF LetGo
<1>5. OneTask'
  BY <1>2 DEF TaskInv, OneTask
<1>6. TaskReady'
  <2>1. pending_get \in SUBSET Worker
    BY DEF TypeOK, TaskType
  <2> QED
    BY <1>1, <1>2, <2>1 DEF TaskInv, TaskReady
<1>7. StopQueued => StopQueued'
  BY <1>2 DEF StopQueued, TypeOK, TaskType
<1>8. StopComes'
  BY <1>2, <1>4, <1>7 DEF TaskInv, StopComes
<1>9. BusyUnheard'
  BY <1>2, <1>3, <1>4 DEF TaskInv, BusyUnheard
<1> QED
  BY <1>5, <1>6, <1>8, <1>9 DEF TaskInv

\* EnrollStop or VerifyStop: the task is let go with its stop event, and the
\* owner, who awaits the answer, is not heard before it runs.
LEMMA StopTasks ==
    ASSUME TypeOK, SessionInv, TaskInv, enroll_verify_stop, Unheard',
           ~Unheard, UNCHANGED <<polling, claimed, claimed_sender>>
    PROVE  TaskInv'
<1> DEFINE t == enroll_verify_task
<1>1. \A v \in Worker : workers[v].pc # "enroll" /\ ~LetGo(v)
  BY DEF TaskInv, BusyUnheard
<1>2. CASE t = None
  BY <1>1, <1>2, TasksStill DEF enroll_verify_stop, Reject, taskVars, queueVars
<1>3. CASE t # None
  <2>1. t \in Worker /\ enroll_verify_task' = None /\ PutImage(workers, pending_get, "EnrollVerifyStop")
    BY <1>3 DEF enroll_verify_stop, send_enroll_stop, TypeOK, DeviceType
  <2>2. pending_get \subseteq {t} /\ \A v \in Worker : v # t => workers[v].pc = "done"
    BY <1>1 DEF LetGo, SessionInv, GettersLive, TypeOK, TaskType, WorkersOK, WorkerState
  <2>3. /\ \A v \in Worker : workers'[v].pc = workers[v].pc
        /\ \/ /\ pending_get = {} /\ pending_get' = {} /\ workers' = workers
              /\ image_queue' = Append(image_queue, "EnrollVerifyStop")
           \/ \E w \in pending_get : /\ workers'[w].got = "EnrollVerifyStop" /\ workers'[w].ready
                                     /\ \A v \in Worker \ {w} : workers'[v] = workers[v]
                                     /\ pending_get' = pending_get \ {w} /\ image_queue' = image_queue
    BY <2>1, PutTasks DEF ImageEvent, TypeOK, TaskType
  <2>4. OneTask'
    BY <2>3 DEF TaskInv, OneTask
  <2>5. pending_get' = {}
    BY <2>2, <2>3
  <2>6. \A v \in Worker : LetGo(v)' => v = t
    BY <2>2, <2>3 DEF LetGo
  <2>7. TaskReady'
    BY <1>1, <2>2, <2>3, <2>5 DEF TaskInv, TaskReady
  <2>8. workers'[t].got = "EnrollVerifyStop" \/ StopQueued'
    BY <2>2, <2>3 DEF StopQueued, TypeOK, TaskType
  <2>9. StopComes'
    BY <2>5, <2>6, <2>8 DEF StopComes
  <2> QED
    BY <2>4, <2>7, <2>9 DEF TaskInv, BusyUnheard
<1> QED
  BY <1>2, <1>3

\* EnrollStart or VerifyStart: when the owner is heard no task is left behind.
LEMMA StartTasks ==
    ASSUME TypeOK, TaskInv, NEW method, NEW finger, enroll_verify_start(method, finger),
           ~Unheard, Unheard'
    PROVE  TaskInv'
<1> DEFINE is_verify == method = "VerifyStart"
           r == [pc |-> "enroll", ready |-> TRUE, got |-> "none", user |-> claimed_user,
                 finger |-> finger, verify |-> is_verify, count |-> 0]
<1>1. \A v \in Worker : workers[v].pc # "enroll" /\ ~LetGo(v)
  BY DEF TaskInv, BusyUnheard
<1>2. CASE StartRefused(is_verify, finger)
  BY <1>1, <1>2, TasksStill DEF enroll_verify_start, Reject, taskVars, queueVars
<1>3. CASE ~StartRefused(is_verify, finger)
  <2>1. /\ enroll_verify_task = None
        /\ \E w \in FreeWorkers : workers' = [workers EXCEPT ![w] = r] /\ enroll_verify_task' = w
    BY <1>3 DEF enroll_verify_start, StartRefused
  <2>2. PICK w \in FreeWorkers : workers' = [workers EXCEPT ![w] = r] /\ enroll_verify_task' = w
    BY <2>1
  <2>3. \A v \in Worker : workers[v].pc = "done"
    BY <1>1, <2>1, DeviceAssumption DEF LetGo, TypeOK, TaskType, WorkersOK, WorkerState
  <2>4. r.pc = "enroll" /\ r.ready
    OBVIOUS
  <2> HIDE DEF r
  <2>5. w \in Worker /\ workers'[w] = r /\ \A v \in Worker \ {w} : workers'[v] = workers[v]
    BY <2>2 DEF FreeWorkers, TypeOK, TaskType, WorkersOK
  <2>6. OneTask' /\ TaskReady'
    BY <2>2, <2>3, <2>4, <2>5 DEF OneTask, TaskReady
  <2>7. \A v \in Worker : ~LetGo(v)'
    BY <2>3, <2>4, <2>5 DEF LetGo
  <2> QED
    BY <2>6, <2>7 DEF TaskInv, StopComes, BusyUnheard
<1> QED
  BY <1>2, <1>3

\* A client left: the task is cancelled, and one that was let go before keeps
\* its stop event.
LEMMA OwnerLeftTasks ==
    ASSUME TypeOK, SessionInv, TaskInv, name_owner_changed, ~polling, UNCHANGED polling
    PROVE  TaskInv'
<1> DEFINE t    == enroll_verify_task
           wk   == IF t = None THEN workers ELSE Finish(workers, t)
           pend == IF t = None THEN pending_get ELSE pending_get \ {t}
<1>1. \A v \in pending_get : v = t
  BY DEF SessionInv, GettersLive, TaskInv, StopComes, LetGo, TypeOK, TaskType
<1>2. t \in Worker \cup {None} /\ None \notin Worker /\ pending_get \in SUBSET Worker
  BY DeviceAssumption DEF TypeOK, DeviceType, TaskType
<1>3. pend = {}
  BY <1>1, <1>2
<1>4. WorkersOK(wk)
  BY <1>2, FinishWorker DEF TypeOK, TaskType
<1>5. /\ t # None => wk[t].pc = "done"
      /\ \A v \in Worker : v # t => wk[v] = workers[v]
  BY <1>2 DEF Finish, NoWorker, TypeOK, TaskType, WorkersOK
<1>6. PutImage(wk, pend, "EnrollVerifyStop") /\ enroll_verify_task' = None /\ claimed' = FALSE
  BY DEF name_owner_changed, send_enroll_stop, Unclaim
<1> HIDE DEF wk, pend
<1>7. workers' = wk /\ pending_get' = {} /\ image_queue' = Append(image_queue, "EnrollVerifyStop")
  BY <1>3, <1>6 DEF PutImage
<1>8. StopQueued'
  BY <1>7 DEF StopQueued, TypeOK, TaskType
<1>9. OneTask'
  BY <1>2, <1>5, <1>7 DEF TaskInv, OneTask
<1>10. TaskReady'
  <2> SUFFICES ASSUME NEW v \in Worker, workers'[v].pc \in {"enroll", "parse_image"}
               PROVE  workers'[v].pc = "parse_image" /\ workers'[v].ready /\ workers'[v].got # "none"
    BY <1>7 DEF TaskReady
  <2>1. v # t /\ workers'[v] = workers[v]
    BY <1>2, <1>5, <1>7
  <2> QED
    BY <1>1, <2>1 DEF TaskInv, TaskReady
<1>11. StopComes'
  BY <1>7, <1>8 DEF StopComes
<1>12. BusyUnheard'
  BY <1>6 DEF BusyUnheard, Unheard
<1> QED
  BY <1>9, <1>10, <1>11, <1>12 DEF TaskInv

\* Every message: a call of the owner finds it heard, so nothing runs or was let
\* go, and its Release finds no task.
LEMMA HandlePolite ==
    ASSUME TypeOK, SessionInv, PoliteInv, handle_message
    PROVE  PoliteInv'
<1> USE DEF claimVars, taskVars, queueVars
<1>1. /\ OneCall'
      /\ \A c \in Client : /\ Outstanding(c)' => Outstanding(c)
                           /\ ReleaseSent(c)' => ReleaseSent(c)
                           /\ ServedBy(c) /\ (serving # <<>> \/ Head(messages).method \notin UidMethods)
                              => Outstanding(c) /\ ~Outstanding(c)'
  BY HandleCalls DEF PoliteInv
<1>2. ~polling /\ UNCHANGED polling
  BY DEF handle_message
<1>3. TaskInv /\ ReleaseIdle
  BY DEF PoliteInv
<1>4. \A c \in Client : ReleaseSent(c)' => Outstanding(c)'
  BY DEF Outstanding, ReleaseSent, OnWire, InQueue
<1>5. ASSUME UNCHANGED <<workers, pending_get, image_queue, enroll_verify_task, claimed, claimed_sender>>
      PROVE  PoliteInv'
  <2>1. Unheard => Unheard'
    BY <1>1, <1>2, <1>5 DEF Unheard
  <2>2. TaskInv'
    BY <1>3, <1>5, <2>1, TasksStill DEF TaskInv, BusyUnheard
  <2>3. ReleaseIdle'
    BY <1>1, <1>3, <1>5 DEF ReleaseIdle
  <2> QED
    BY <1>1, <2>2, <2>3 DEF PoliteInv
<1>6. ASSUME NEW c \in Client, ~Outstanding(c)', claimed_sender' = c,
             UNCHANGED <<workers, pending_get, image_queue, enroll_verify_task>>
      PROVE  PoliteInv'
  <2>1. Unheard'
    BY <1>2, <1>6 DEF Unheard
  <2>2. TaskInv'
    BY <1>3, <1>6, <2>1, TasksStill
  <2>3. ReleaseIdle'
    BY <1>4, <1>6 DEF ReleaseIdle
  <2> QED
    BY <1>1, <2>2, <2>3 DEF PoliteInv
<1>7. CASE get_uid
  BY <1>5, <1>7 DEF get_uid, Reject
<1>8. CASE check_uid
  <2>1. serving \in Seq(Call) /\ serving # <<>>
    BY <1>8 DEF check_uid, TypeOK, DeviceType
  <2>2. PICK c \in Client : c = serving[1].sender
    BY <2>1 DEF Call
  <2>3. ~Outstanding(c)'
    BY <1>1, <2>1, <2>2 DEF ServedBy
  <2>4. ASSUME NEW user, claim(c, user) PROVE PoliteInv'
    BY <1>5, <1>6, <2>2, <2>3, <2>4 DEF claim, Claimed, Reject
  <2> QED
    BY <1>5, <1>8, <2>2, <2>4 DEF check_uid, Reject, delete_enrolled_fingers, Store
<1>9. CASE check_sender
  <2> DEFINE m == Head(messages)
  <2>1. /\ serving = <<>> /\ messages # <<>> /\ m.kind = "call" /\ m.method \in ClaimMethods
        /\ messages \in Seq(Call \cup Signal)
    BY <1>9 DEF check_sender, TypeOK, BusType
  <2>2. m = messages[1] /\ 1 \in DOMAIN messages /\ m \in Call \cup Signal
    BY <2>1
  <2>3. PICK c \in Client : c = m.sender
    BY <2>1, <2>2 DEF Call, Signal
  <2>4. ServedBy(c) /\ m.method \notin UidMethods
    BY <2>1, <2>3 DEF ServedBy, ClaimMethods, UidMethods, StartMethods, StopMethods, DeleteMethods
  <2>5. Outstanding(c) /\ ~Outstanding(c)'
    BY <1>1, <2>3, <2>4
  <2>6. CASE NotOwner(c)
    BY <1>5, <1>9, <2>3, <2>6 DEF check_sender, Reject
  <2>7. CASE ~NotOwner(c)
    <3>1. claimed /\ claimed_sender = c /\ ~Unheard
      BY <2>3, <2>5, <2>7 DEF NotOwner, Unheard
    <3>2. ASSUME UNCHANGED <<claimed, claimed_sender>> PROVE Unheard' /\ ReleaseIdle'
      <4>1. Unheard'
        BY <1>2, <2>5, <3>1, <3>2 DEF Unheard
      <4>2. ReleaseIdle'
        BY <1>4, <2>5, <3>1, <3>2 DEF ReleaseIdle
      <4> QED
        BY <4>1, <4>2
    <3>3. ASSUME NEW method, NEW finger, enroll_verify_start(method, finger) PROVE PoliteInv'
      <4>1. UNCHANGED <<claimed, claimed_sender>>
        BY <3>3 DEF enroll_verify_start, Reject
      <4> QED
        BY <1>1, <1>3, <3>1, <3>2, <3>3, <4>1, StartTasks DEF PoliteInv
    <3>4. ASSUME enroll_verify_stop PROVE PoliteInv'
      <4>1. UNCHANGED <<claimed, claimed_sender>>
        BY <3>4 DEF enroll_verify_stop, Reject
      <4> QED
        BY <1>1, <1>2, <1>3, <3>1, <3>2, <3>4, <4>1, StopTasks DEF PoliteInv
    <3>5. ASSUME release, m.method = "Release" PROVE PoliteInv'
      <4>1. enroll_verify_task = None
        BY <1>3, <2>1, <2>2, <2>3, <3>1, <3>5 DEF ReleaseIdle, ReleaseSent, InQueue
      <4>2. UNCHANGED <<workers, pending_get, image_queue, enroll_verify_task>> /\ claimed' = FALSE
        BY <3>5, <4>1 DEF release, Unclaim
      <4>3. TaskInv' /\ ReleaseIdle'
        BY <1>2, <1>3, <4>2, TasksStill DEF Unheard, ReleaseIdle
      <4> QED
        BY <1>1, <4>3 DEF PoliteInv
    <3>6. ASSUME NEW finger, delete_enrolled_finger(finger) \/ delete_enrolled_fingers2 PROVE PoliteInv'
      BY <1>5, <3>6 DEF delete_enrolled_finger, delete_enrolled_fingers2, Store, Reject
    <3> QED
      BY <1>9, <2>3, <2>7, <3>3, <3>4, <3>5, <3>6 DEF check_sender
  <2> QED
    BY <2>6, <2>7
<1>10. CASE owner_left
  <2>1. name_owner_changed /\ claimed' = FALSE
    BY <1>10 DEF owner_left, name_owner_changed, Unclaim
  <2>2. TaskInv' /\ ReleaseIdle'
    BY <1>2, <1>3, <2>1, OwnerLeftTasks DEF ReleaseIdle
  <2> QED
    BY <1>1, <2>2 DEF PoliteInv
<1>11. CASE unhandled
  BY <1>5, <1>11 DEF unhandled, Reject
<1> QED
  BY <1>7, <1>8, <1>9, <1>10, <1>11 DEF handle_message

LEMMA PoliteStep ==
    ASSUME TypeOK, SessionInv, Polite, PoliteInv, [Next]_vars
    PROVE  PoliteInv'
<1> USE DEF claimVars, deviceVars, queueVars, busVars
<1>1. OneCall /\ ReleaseIdle /\ TaskInv
  BY DEF PoliteInv
<1>2. ASSUME polling, OneCall', ReleaseIdle',
             UNCHANGED <<workers, pending_get, image_queue, enroll_verify_task>>
      PROVE  PoliteInv'
  <2>1. \A w \in Worker : ~(workers[w].pc = "enroll" \/ LetGo(w))
    BY <1>1, <1>2 DEF TaskInv, BusyUnheard, Unheard
  <2> QED
    BY <1>1, <1>2, <2>1, TasksStill DEF PoliteInv
<1>3. ASSUME UNCHANGED <<wire, messages, serving, claimed, claimed_sender, enroll_verify_task>>
      PROVE  OneCall' /\ ReleaseIdle'
  BY <1>1, <1>3, CallsStill DEF ReleaseIdle
<1>4. ASSUME UNCHANGED <<wire, messages, serving, claimed, claimed_sender, enroll_verify_task, polling,
                         workers, pending_get, image_queue>>
      PROVE  PoliteInv'
  <2>1. Unheard => Unheard'
    BY <1>4 DEF Unheard, Outstanding
  <2> QED
    BY <1>1, <1>3, <1>4, <2>1, TasksStill DEF PoliteInv, TaskInv, BusyUnheard
<1>5. ASSUME NEW c \in Client, Send(c) PROVE PoliteInv'
  BY <1>1, <1>2, <1>5, SendCalls DEF Send
<1>6. ASSUME \/ \E c \in Client : Disconnect(c)
             \/ OtherSignal \/ BusAnswer \/ LookupTimesOut
      PROVE  PoliteInv'
  <2>1. /\ polling /\ \/ wire' = wire
                      \/ \E e : wire' = Append(wire, e) /\ e.kind # "call"
        /\ UNCHANGED <<messages, serving, claimed, claimed_sender, enroll_verify_task,
                       workers, pending_get, image_queue>>
    <3>1. ASSUME NEW c \in Client, Disconnect(c)
          PROVE  wire' = wire \/ \E e : wire' = Append(wire, e) /\ e.kind # "call"
      <4>1. wire' = wire \/ wire' = Append(wire, [kind |-> "NameOwnerChanged", name |-> c])
        BY <3>1 DEF Disconnect
      <4> QED
        BY <4>1
    <3>2. ASSUME BusAnswer PROVE \E e : wire' = Append(wire, e) /\ e.kind # "call"
      <4>1. PICK to, ok : \/ wire' = Append(wire, [kind |-> "reply", to |-> to, ok |-> ok])
                          \/ wire' = Append(wire, [kind |-> "uid", ok |-> ok])
        BY <3>2 DEF BusAnswer
      <4>2. [kind |-> "reply", to |-> to, ok |-> ok].kind # "call" /\ [kind |-> "uid", ok |-> ok].kind # "call"
        OBVIOUS
      <4> QED
        BY <4>1, <4>2, Zenon
    <3>3. ASSUME OtherSignal PROVE \E e : wire' = Append(wire, e) /\ e.kind # "call"
      <4>1. PICK kind \in {"NameOwnerChanged", "Signal"} : wire' = Append(wire, [kind |-> kind, name |-> None])
        BY <3>3 DEF OtherSignal
      <4>2. [kind |-> kind, name |-> None].kind # "call"
        OBVIOUS
      <4> QED
        BY <4>1, <4>2, Zenon
    <3>4. ASSUME LookupTimesOut PROVE \E e : wire' = Append(wire, e) /\ e.kind # "call"
      <4>1. wire' = Append(wire, [kind |-> "uid", ok |-> FALSE]) /\ [kind |-> "uid", ok |-> FALSE].kind # "call"
        BY <3>4 DEF LookupTimesOut
      <4> QED
        BY <4>1, Zenon
    <3> QED
      BY <1>6, <3>1, <3>2, <3>3, <3>4 DEF Disconnect, OtherSignal, BusAnswer, LookupTimesOut
  <2>2. CASE wire' = wire
    BY <1>2, <1>3, <2>1, <2>2
  <2>3. ASSUME NEW e, wire' = Append(wire, e), e.kind # "call" PROVE PoliteInv'
    <3>1. /\ DOMAIN wire' = DOMAIN wire \cup {Len(wire) + 1}
          /\ \A i \in DOMAIN wire : wire'[i] = wire[i]
          /\ wire'[Len(wire) + 1] = e
      BY <2>3, Grown DEF TypeOK, BusType
    <3>2. /\ \A c \in Client, i \in DOMAIN wire' : OnWire(c, i)' => i \in DOMAIN wire /\ OnWire(c, i) /\ wire'[i] = wire[i]
          /\ \A c, i : InQueue(c, i)' <=> InQueue(c, i)
          /\ \A c : Served(c)' <=> Served(c)
      BY <2>1, <2>3, <3>1 DEF OnWire, InQueue, Served
    <3>3. OneCall'
      BY <1>1, <2>1, <3>2 DEF OneCall, WireOnce, QueueOnce, Apart, Alone
    <3>4. ReleaseIdle'
      BY <1>1, <2>1, <3>2 DEF ReleaseIdle, ReleaseSent
    <3> QED
      BY <1>2, <2>1, <3>3, <3>4
  <2> QED
    BY <2>1, <2>2, <2>3
<1>7. CASE Dispatch
  BY <1>1, <1>2, <1>7, DispatchPolite DEF Dispatch
<1>8. CASE Poll
  <2>1. /\ polling \/ \A w \in Worker : ~workers[w].ready
        /\ UNCHANGED <<wire, messages, serving, claimed, claimed_sender, enroll_verify_task,
                       workers, pending_get, image_queue>>
    BY <1>8 DEF Poll, AnyReady
  <2>2. \A w \in Worker : ~(workers[w].pc = "enroll" \/ LetGo(w))
    BY <1>1, <2>1, BusyReady DEF TaskInv, BusyUnheard, Unheard
  <2> QED
    BY <1>1, <1>3, <2>1, <2>2, TasksStill DEF PoliteInv
<1>9. ASSUME NEW w \in Worker, WorkerStep(w) PROVE PoliteInv'
  BY <1>1, <1>3, <1>9, WorkerStepTasks DEF WorkerStep, PoliteInv
<1>10. ASSUME NEW e \in {"FingerDown", "Image"}, SensorReports(e) PROVE PoliteInv'
  BY <1>1, <1>3, <1>10, ReportTasks DEF SensorReports, PoliteInv
<1>11. ASSUME \/ \E l \in Listener : ListenerStep(l)
              \/ ControlTakes \/ UNCHANGED vars
       PROVE  PoliteInv'
  BY <1>4, <1>11 DEF ListenerStep, ControlTakes, vars
<1> QED
  BY <1>5, <1>6, <1>7, <1>8, <1>9, <1>10, <1>11, HandlePolite DEF Next

LEMMA PoliteInvariant == Spec => [](Polite => PoliteInv)
<1>1. Init => PoliteInv
  <2> SUFFICES ASSUME Init PROVE PoliteInv
    OBVIOUS
  <2>1. DOMAIN wire = {} /\ DOMAIN messages = {} /\ serving = <<>> /\ ~claimed
    BY DEF Init
  <2>2. \A w \in Worker : workers[w].pc = "done"
    BY DEF Init, NoWorker
  <2> QED
    BY <2>1, <2>2 DEF PoliteInv, OneCall, WireOnce, QueueOnce, Apart, Alone, Served, ReleaseIdle,
                      TaskInv, OneTask, TaskReady, StopComes, BusyUnheard, LetGo
<1>2. TypeOK /\ SessionInv /\ (Polite => PoliteInv) /\ [Next]_vars => (Polite => PoliteInv)'
  BY PoliteStep
<1> QED
  BY <1>1, <1>2, SessionInvariant, TypeCorrect, PTL DEF Spec

\* Of clients that await their replies and stop a task before they release the
\* device, no matter how many there are, at most one task collects images: an
\* image is never handed to a task that EnrollStop or VerifyStop has let go.
THEOREM OneCollectorAlways == Spec => []OneCollector
<1>1. TypeOK /\ (Polite => PoliteInv) => OneCollector
  <2> SUFFICES ASSUME TypeOK, PoliteInv
               PROVE  Cardinality({w \in Worker : workers[w].pc = "parse_image"}) <= 1
    BY DEF OneCollector
  <2> DEFINE S == {w \in Worker : workers[w].pc = "parse_image"}
  <2>1. \A v, w \in S : v = w
    BY DEF PoliteInv, TaskInv, OneTask
  <2> HIDE DEF S
  <2>2. S = {} \/ \E x : S = {x}
    BY <2>1
  <2>3. CASE S = {}
    BY <2>3, FS_EmptySet DEF S
  <2>4. ASSUME NEW x, S = {x} PROVE Cardinality(S) <= 1
    BY <2>4, FS_Singleton
  <2> QED
    BY <2>2, <2>3, <2>4 DEF S
<1> QED
  BY <1>1, PoliteInvariant, TypeCorrect, PTL

================================================================================
