-------------------------- MODULE FprintDevice_proofs --------------------------
(***************************************************************************)
(* Proofs about FprintDevice, for every number of clients, users, fingers  *)
(* and tasks, and without the bounds on calls and events.                  *)
(***************************************************************************)
EXTENDS FprintDevice, TLAPS

\* The head and the rest of a queue, and a queue that grows.
LEMMA HeadTail ==
    ASSUME NEW S, NEW s \in Seq(S), s # <<>>
    PROVE  Head(s) \in S /\ Tail(s) \in Seq(S)
OBVIOUS

LEMMA AppendIn ==
    ASSUME NEW S, NEW s \in Seq(S), NEW e \in S
    PROVE  Append(s, e) \in Seq(S)
OBVIOUS

\* A call carries the arguments of its method.
LEMMA CallIn ==
    ASSUME NEW m \in Method, NEW c \in Client, NEW a \in ArgOf(m)
    PROVE  [kind |-> "call", method |-> m, sender |-> c, arg |-> a] \in Call
BY DeviceAssumption DEF Call, ArgOf, FingerMethods, StartMethods, UidMethods, ClaimMethods,
   StopMethods, DeleteMethods

-------------------------------------------------------------------------------
\* Updates of the tasks.

LEMMA ListenerUpdate ==
    ASSUME NEW r \in ListenerState, NEW p \in {"post", "exit", "return", "done"}, NEW b \in BOOLEAN,
           NEW reply \in {"none", "ok", "error"}
    PROVE  /\ [r EXCEPT !.pc = p, !.ready = b, !.reply = reply] \in ListenerState
           /\ [r EXCEPT !.pc = p, !.ready = b, !.reply = reply].sender = r.sender
           /\ [r EXCEPT !.reply = reply, !.ready = b] \in ListenerState
           /\ [r EXCEPT !.reply = reply, !.ready = b].pc = r.pc
           /\ [r EXCEPT !.reply = reply, !.ready = b].sender = r.sender
BY DEF ListenerState

LEMMA WorkerUpdate ==
    ASSUME NEW r \in WorkerState, NEW g \in ImageEvent \cup {"none", "cancelled"}, NEW b \in BOOLEAN
    PROVE  /\ [r EXCEPT !.got = g, !.ready = b] \in WorkerState
           /\ [r EXCEPT !.got = g, !.ready = b].pc = r.pc
           /\ [r EXCEPT !.got = g, !.ready = b].finger = r.finger
BY DEF WorkerState

\* A table stays well-formed when one entry is replaced by a well-formed one.
LEMMA ListenerReplaced ==
    ASSUME NEW ls, ListenersOK(ls), NEW l \in Listener, NEW r \in ListenerState,
           r.pc # "done" => r.sender \in Client
    PROVE  ListenersOK([ls EXCEPT ![l] = r])
BY DEF ListenersOK

LEMMA WorkerReplaced ==
    ASSUME NEW wk, WorkersOK(wk), NEW w \in Worker, NEW r \in WorkerState,
           r.pc # "done" => r.finger \in FingerArg
    PROVE  WorkersOK([wk EXCEPT ![w] = r])
BY DEF WorkersOK

LEMMA AwaitOK ==
    ASSUME ListenersOK(listeners), NEW l \in Listener, NEW p \in {"post", "exit", "return", "done"},
           NEW reply \in {"none", "ok", "error"}, listeners[l].pc # "done"
    PROVE  ListenersOK(Await(p, l, reply))
<1> DEFINE r == [listeners[l] EXCEPT !.pc = p, !.ready = FALSE, !.reply = reply]
<1>1. listeners[l] \in ListenerState /\ listeners[l].sender \in Client
  BY DEF ListenersOK
<1>2. r \in ListenerState /\ r.sender = listeners[l].sender
  BY <1>1 DEF ListenerState
<1>3. ListenersOK([listeners EXCEPT ![l] = r])
  BY <1>1, <1>2, ListenerReplaced
<1> QED
  BY <1>3 DEF Await

LEMMA ResumeListener ==
    ASSUME NEW ls, ListenersOK(ls), NEW l \in Listener
    PROVE  ListenersOK(Resume(ls, l))
BY DEF ListenersOK, ListenerState, Resume

LEMMA ResumeWorker ==
    ASSUME NEW wk, WorkersOK(wk), NEW w \in Worker
    PROVE  WorkersOK(Resume(wk, w))
BY DEF WorkersOK, WorkerState, Resume

LEMMA FinishWorker ==
    ASSUME NEW wk, WorkersOK(wk), NEW w \in Worker
    PROVE  WorkersOK(Finish(wk, w))
BY DEF WorkersOK, WorkerState, Finish, NoWorker

LEMMA GotWorker ==
    ASSUME NEW wk, WorkersOK(wk), NEW w \in Worker, NEW e \in ImageEvent
    PROVE  WorkersOK(Got(wk, w, e))
<1> DEFINE r == [wk[w] EXCEPT !.got = e, !.ready = TRUE]
<1>1. r \in WorkerState /\ r.pc = wk[w].pc /\ r.finger = wk[w].finger
  BY WorkerUpdate DEF WorkersOK
<1>2. WorkersOK([wk EXCEPT ![w] = r])
  BY <1>1, WorkerReplaced DEF WorkersOK
<1> QED
  BY <1>2 DEF Got

LEMMA CancelWorkers ==
    ASSUME NEW wk, WorkersOK(wk), pending_get \subseteq Worker
    PROVE  WorkersOK(CancelGetters(wk))
<1>1. \A w \in Worker : /\ CancelGetters(wk)[w] \in WorkerState
                        /\ CancelGetters(wk)[w].pc = wk[w].pc
                        /\ CancelGetters(wk)[w].finger = wk[w].finger
  BY WorkerUpdate DEF WorkersOK, CancelGetters
<1> QED
  BY <1>1 DEF WorkersOK, CancelGetters

\* A put leaves the tasks, the getters and the queue well-formed.
LEMMA PutImageOK ==
    ASSUME image_queue \in Seq(ImageEvent), NEW wk, WorkersOK(wk), NEW pend \in SUBSET Worker,
           NEW e \in ImageEvent, PutImage(wk, pend, e)
    PROVE  WorkersOK(workers') /\ pending_get' \in SUBSET Worker /\ image_queue' \in Seq(ImageEvent)
<1>1. CASE pend = {} /\ workers' = wk /\ pending_get' = pend /\ image_queue' = Append(image_queue, e)
  BY <1>1, AppendIn
<1>2. ASSUME NEW w \in pend, workers' = Got(wk, w, e),
             pending_get' = pend \ {w}, UNCHANGED image_queue
      PROVE  WorkersOK(workers') /\ pending_get' \in SUBSET Worker /\ image_queue' \in Seq(ImageEvent)
  BY <1>2, GotWorker
<1> QED
  BY <1>1, <1>2 DEF PutImage

\* So does a get.
LEMMA WaitImageOK ==
    ASSUME image_queue \in Seq(ImageEvent), pending_get \in SUBSET Worker, NEW wk, WorkersOK(wk),
           NEW w \in Worker, wait_image(wk, w)
    PROVE  WorkersOK(workers') /\ pending_get' \in SUBSET Worker /\ image_queue' \in Seq(ImageEvent)
<1>1. ASSUME image_queue # <<>>, image_queue' = Tail(image_queue), pending_get' = pending_get \ {w},
             workers' = Got(wk, w, Head(image_queue))
      PROVE  WorkersOK(workers') /\ pending_get' \in SUBSET Worker /\ image_queue' \in Seq(ImageEvent)
  <2>1. Head(image_queue) \in ImageEvent /\ image_queue' \in Seq(ImageEvent)
    BY <1>1, HeadTail
  <2> QED
    BY <1>1, <2>1, GotWorker
<1>2. ASSUME workers' = [wk EXCEPT ![w] = [@ EXCEPT !.got = "none", !.ready = FALSE]],
             pending_get' = pending_get \cup {w}, UNCHANGED image_queue
      PROVE  WorkersOK(workers') /\ pending_get' \in SUBSET Worker /\ image_queue' \in Seq(ImageEvent)
  <2> DEFINE r == [wk[w] EXCEPT !.got = "none", !.ready = FALSE]
  <2>1. r \in WorkerState /\ r.pc = wk[w].pc /\ r.finger = wk[w].finger
    BY WorkerUpdate DEF WorkersOK
  <2>2. WorkersOK([wk EXCEPT ![w] = r])
    BY <2>1, WorkerReplaced DEF WorkersOK
  <2> QED
    BY <1>2, <2>2
<1> QED
  BY <1>1, <1>2 DEF wait_image

-------------------------------------------------------------------------------
\* Type correctness, one lemma per action.

LEMMA SendType ==
    ASSUME TypeOK, NEW c \in Client, Send(c)
    PROVE  TypeOK'
<1>a. PICK m \in Method : \E a \in ArgOf(m) :
          wire' = Append(wire, [kind |-> "call", method |-> m, sender |-> c, arg |-> a])
  BY DEF Send
<1>1. PICK a \in ArgOf(m) :
          wire' = Append(wire, [kind |-> "call", method |-> m, sender |-> c, arg |-> a])
  BY <1>a
<1>2. [kind |-> "call", method |-> m, sender |-> c, arg |-> a] \in Call \cup Signal \cup Answer
  BY CallIn
<1>3. wire' \in Seq(Call \cup Signal \cup Answer)
  BY <1>1, <1>2, AppendIn DEF TypeOK, BusType
<1>4. BusType'
  BY <1>3 DEF TypeOK, BusType, Send
<1>5. calls' \in Nat
  BY DEF TypeOK, FlagType, Send
<1> QED
  BY <1>4, <1>5 DEF TypeOK, DeviceType, TaskType, FlagType, Send, deviceVars, claimVars,
     queueVars, storeVars

LEMMA DisconnectType ==
    ASSUME TypeOK, NEW c \in Client, Disconnect(c)
    PROVE  TypeOK'
<1>1. [kind |-> "NameOwnerChanged", name |-> c] \in Call \cup Signal \cup Answer
  BY DEF Signal
<1>2. wire' \in Seq(Call \cup Signal \cup Answer)
  BY <1>1, AppendIn DEF TypeOK, BusType, Disconnect
<1>3. connected' \in [Client -> BOOLEAN]
  BY DEF TypeOK, BusType, Disconnect
<1> QED
  BY <1>2, <1>3 DEF TypeOK, BusType, DeviceType, TaskType, FlagType, Disconnect, deviceVars,
     claimVars, queueVars, storeVars, boundVars

LEMMA OtherSignalType ==
    ASSUME TypeOK, OtherSignal
    PROVE  TypeOK'
<1>1. PICK kind \in {"NameOwnerChanged", "Signal"} :
          wire' = Append(wire, [kind |-> kind, name |-> None])
  BY DEF OtherSignal
<1>2. [kind |-> kind, name |-> None] \in Call \cup Signal \cup Answer
  BY DEF Signal
<1>3. wire' \in Seq(Call \cup Signal \cup Answer)
  BY <1>1, <1>2, AppendIn DEF TypeOK, BusType
<1>4. signals' \in Nat
  BY DEF TypeOK, FlagType, OtherSignal
<1> QED
  BY <1>3, <1>4 DEF TypeOK, BusType, DeviceType, TaskType, FlagType, OtherSignal, deviceVars,
     claimVars, queueVars, storeVars

\* The items on the wire and the requests by kind.
LEMMA WireKinds ==
    ASSUME NEW d \in Call \cup Signal \cup Answer
    PROVE  /\ d.kind = "call" => d \in Call
           /\ d.kind \in {"NameOwnerChanged", "Signal"} => d \in Signal
           /\ d.kind = "reply" => d.to \in Listener
BY DEF Call, Signal, Answer

LEMMA RequestName ==
    ASSUME NEW r \in Request
    PROVE  /\ r.name \in Client
           /\ r.method # "GetConnectionUnixUser" => r.from \in Listener
BY DEF Request

LEMMA BusAnswerType ==
    ASSUME TypeOK, BusAnswer
    PROVE  TypeOK'
<1> DEFINE r == Head(requests)
<1>1. r \in Request /\ requests' \in Seq(Request)
  BY HeadTail DEF TypeOK, BusType, BusAnswer
<1>2. r.name \in Client /\ (r.method # "GetConnectionUnixUser" => r.from \in Listener)
  BY <1>1, RequestName
<1>3. \A ok \in BOOLEAN, l \in Listener : [kind |-> "reply", to |-> l, ok |-> ok] \in Answer
  BY DEF Answer
<1>4. \A ok \in BOOLEAN : [kind |-> "uid", ok |-> ok] \in Answer
  BY DEF Answer
<1>5. rules' \in [Client -> Nat] /\ wire' \in Seq(Call \cup Signal \cup Answer)
  <2>1. CASE r.method = "AddMatch"
    <3>1. PICK installed \in BOOLEAN, ok \in BOOLEAN :
            /\ rules' = IF installed THEN [rules EXCEPT ![r.name] = @ + 1] ELSE rules
            /\ wire' = Append(wire, [kind |-> "reply", to |-> r.from, ok |-> ok])
      BY <2>1 DEF BusAnswer
    <3>2. rules' \in [Client -> Nat]
      BY <1>2, <3>1 DEF TypeOK, BusType
    <3>3. wire' \in Seq(Call \cup Signal \cup Answer)
      BY <1>2, <1>3, <2>1, <3>1, AppendIn DEF TypeOK, BusType
    <3> QED
      BY <3>2, <3>3
  <2>2. CASE r.method = "RemoveMatch"
    <3>1. PICK removed \in BOOLEAN, ok \in BOOLEAN :
            /\ rules' = IF removed /\ rules[r.name] > 0
                        THEN [rules EXCEPT ![r.name] = @ - 1] ELSE rules
            /\ wire' = Append(wire, [kind |-> "reply", to |-> r.from, ok |-> ok])
      BY <2>2 DEF BusAnswer
    <3>2. rules' \in [Client -> Nat]
      BY <1>2, <3>1 DEF TypeOK, BusType
    <3>3. wire' \in Seq(Call \cup Signal \cup Answer)
      BY <1>2, <1>3, <2>2, <3>1, AppendIn DEF TypeOK, BusType
    <3> QED
      BY <3>2, <3>3
  <2>3. CASE r.method = "GetConnectionUnixUser"
    <3>1. PICK ok \in BOOLEAN : wire' = Append(wire, [kind |-> "uid", ok |-> ok])
      BY <2>3 DEF BusAnswer
    <3>2. wire' \in Seq(Call \cup Signal \cup Answer)
      BY <1>4, <3>1, AppendIn DEF TypeOK, BusType
    <3>3. rules' \in [Client -> Nat]
      BY <2>3 DEF TypeOK, BusType, BusAnswer
    <3> QED
      BY <3>2, <3>3
  <2> QED
    BY <2>1, <2>2, <2>3 DEF BusAnswer
<1> QED
  BY <1>1, <1>5 DEF TypeOK, BusType, DeviceType, TaskType, FlagType, BusAnswer, deviceVars,
     claimVars, queueVars, storeVars, boundVars

\* A sequence without its i-th element.
LEMMA WithoutIn ==
    ASSUME NEW S, NEW q \in Seq(S), NEW i \in 1..Len(q)
    PROVE  SubSeq(q, 1, i - 1) \o SubSeq(q, i + 1, Len(q)) \in Seq(S)
<1>1. SubSeq(q, 1, i - 1) \in Seq(S) /\ SubSeq(q, i + 1, Len(q)) \in Seq(S)
  OBVIOUS
<1> QED
  BY <1>1

LEMMA LookupTimesOutType ==
    ASSUME TypeOK, LookupTimesOut
    PROVE  TypeOK'
<1>1. PICK i \in DOMAIN requests :
          requests' = SubSeq(requests, 1, i - 1) \o SubSeq(requests, i + 1, Len(requests))
  BY DEF LookupTimesOut
<1>2. requests' \in Seq(Request)
  BY <1>1, WithoutIn DEF TypeOK, BusType
<1>3. [kind |-> "uid", ok |-> FALSE] \in Call \cup Signal \cup Answer
  BY DEF Answer
<1>4. wire' \in Seq(Call \cup Signal \cup Answer)
  BY <1>3, AppendIn DEF TypeOK, BusType, LookupTimesOut
<1> QED
  BY <1>2, <1>4 DEF TypeOK, BusType, DeviceType, TaskType, FlagType, LookupTimesOut, deviceVars,
     claimVars, queueVars, storeVars, boundVars

LEMMA DispatchType ==
    ASSUME TypeOK, Dispatch
    PROVE  TypeOK'
<1> DEFINE d == Head(wire)
<1>1. d \in Call \cup Signal \cup Answer /\ wire' \in Seq(Call \cup Signal \cup Answer)
  BY HeadTail DEF TypeOK, BusType, Dispatch
<1>2. /\ messages' \in Seq(Call \cup Signal)
      /\ ListenersOK(listeners')
      /\ uid' \in {"none", "ok", "error"}
  <2>1. CASE d.kind = "call"
    <3>1. messages' = Append(messages, d) /\ UNCHANGED <<listeners, uid>>
      BY <2>1 DEF Dispatch
    <3> QED
      BY <1>1, <2>1, <3>1, WireKinds, AppendIn DEF TypeOK, BusType, DeviceType, TaskType
  <2>2. CASE d.kind \in {"NameOwnerChanged", "Signal"}
    <3>1. UNCHANGED uid
      BY <2>2 DEF Dispatch
    <3>2. d \in Signal
      BY <1>1, <2>2, WireKinds
    <3>3. ASSUME NEW l \in Filtering, FilterSignal(l, d)
          PROVE  messages' \in Seq(Call \cup Signal) /\ ListenersOK(listeners')
      BY <3>2, <3>3, AppendIn, ResumeListener DEF TypeOK, BusType, TaskType, FilterSignal, Filtering
    <3> QED
      BY <2>2, <3>1, <3>3 DEF Dispatch, TypeOK, BusType, DeviceType, TaskType
  <2>3. CASE d.kind = "reply"
    <3>1. d.to \in Listener
      BY <1>1, <2>3, WireKinds
    <3>2. /\ listeners' = [listeners EXCEPT ![d.to] =
                 [@ EXCEPT !.reply = IF d.ok THEN "ok" ELSE "error", !.ready = TRUE]]
          /\ UNCHANGED <<messages, uid>>
      BY <2>3 DEF Dispatch
    <3>3. ListenersOK(listeners')
      <4> DEFINE ok == IF d.ok THEN "ok" ELSE "error"
                 r  == [listeners[d.to] EXCEPT !.reply = ok, !.ready = TRUE]
      <4>1. listeners[d.to] \in ListenerState /\ ok \in {"none", "ok", "error"}
        BY <3>1 DEF TypeOK, TaskType, ListenersOK
      <4>2. r \in ListenerState /\ r.pc = listeners[d.to].pc /\ r.sender = listeners[d.to].sender
        BY <4>1, ListenerUpdate
      <4>3. ListenersOK([listeners EXCEPT ![d.to] = r])
        BY <3>1, <4>2, ListenerReplaced DEF TypeOK, TaskType, ListenersOK
      <4> QED
        BY <3>2, <4>3
    <3> QED
      BY <3>2, <3>3 DEF TypeOK, BusType, DeviceType
  <2>4. CASE d.kind = "uid"
    BY <2>4 DEF Dispatch, TypeOK, BusType, DeviceType, TaskType
  <2> QED
    BY <2>1, <2>2, <2>3, <2>4 DEF Dispatch
<1> QED
  BY <1>1, <1>2 DEF TypeOK, BusType, DeviceType, TaskType, FlagType, Dispatch, claimVars,
     queueVars, storeVars, boundVars

LEMMA PollType ==
    ASSUME TypeOK, Poll
    PROVE  TypeOK'
BY DEF TypeOK, BusType, DeviceType, TaskType, FlagType, Poll, busVars, deviceVars, claimVars,
   queueVars, storeVars, boundVars

LEMMA ControlTakesType ==
    ASSUME TypeOK, ControlTakes
    PROVE  TypeOK'
<1>1. event_queue' \in Seq(SensorEvent)
  BY HeadTail DEF TypeOK, TaskType, ControlTakes
<1> QED
  BY <1>1 DEF TypeOK, BusType, DeviceType, TaskType, FlagType, ControlTakes, busVars,
     deviceVars, claimVars, queueVars, storeVars, boundVars

LEMMA SensorReportsType ==
    ASSUME TypeOK, NEW e \in {"FingerDown", "Image"}, SensorReports(e)
    PROVE  TypeOK'
<1>1. WorkersOK(workers') /\ pending_get' \in SUBSET Worker /\ image_queue' \in Seq(ImageEvent)
  BY PutImageOK DEF TypeOK, TaskType, SensorReports, ImageEvent
<1> QED
  BY <1>1 DEF TypeOK, BusType, DeviceType, TaskType, FlagType, SensorReports, busVars,
     deviceVars, claimVars, storeVars

-------------------------------------------------------------------------------
LEMMA AskType ==
    ASSUME TypeOK, NEW l \in Listener, listeners[l].pc # "done",
           NEW method \in {"AddMatch", "RemoveMatch"}, Ask(l, method)
    PROVE  requests' \in Seq(Request)
<1>1. listeners[l].sender \in Client
  BY DEF TypeOK, TaskType, ListenersOK
<1>2. [method |-> method, from |-> l, name |-> listeners[l].sender] \in Request
  BY <1>1 DEF Request
<1> QED
  BY <1>2, AppendIn DEF Ask, TypeOK, BusType

LEMMA ListenerStepType ==
    ASSUME TypeOK, NEW l \in Listener, ListenerStep(l)
    PROVE  TypeOK'
<1>1. requests' \in Seq(Request) /\ ListenersOK(listeners') /\ alive' \in BOOLEAN
  <2>1. CASE add_match(l)
    BY <2>1, AskType, AwaitOK DEF add_match, TypeOK, TaskType, FlagType
  <2>2. CASE post(l)
    <3>1. listeners[l].reply \in {"none", "ok", "error"}
      BY DEF TypeOK, TaskType, ListenersOK, ListenerState
    <3> QED
      BY <2>2, <3>1, AwaitOK DEF post, TypeOK, BusType, TaskType, FlagType
  <2>3. CASE exit(l)
    BY <2>3, AskType, AwaitOK DEF exit, TypeOK, TaskType, FlagType
  <2>4. CASE return(l)
    BY <2>4, AwaitOK DEF return, TypeOK, BusType, TaskType, FlagType
  <2>5. CASE PendingCallPolled(l)
    BY <2>5 DEF PendingCallPolled, Die, TypeOK, BusType, TaskType, ListenersOK
  <2> QED
    BY <2>1, <2>2, <2>3, <2>4, <2>5 DEF ListenerStep
<1> QED
  BY <1>1 DEF TypeOK, BusType, DeviceType, TaskType, FlagType, ListenerStep, deviceVars,
     claimVars, queueVars, storeVars, boundVars

-------------------------------------------------------------------------------
\* A worker that starts to wait after a reset.
LEMMA ResetType ==
    ASSUME TypeOK, NEW w \in Worker, NEW wk, WorkersOK(wk), reset(wk, w)
    PROVE  WorkersOK(workers') /\ pending_get' \in SUBSET Worker /\ image_queue' \in Seq(ImageEvent)
<1> DEFINE ck == CancelGetters(wk)
           r  == [ck[w] EXCEPT !.ready = FALSE]
<1>1. WorkersOK(ck)
  BY CancelWorkers DEF TypeOK, TaskType
<1> HIDE DEF ck
<1>a. ck[w] \in WorkerState
  BY <1>1 DEF WorkersOK
<1>2. r \in WorkerState /\ r.pc = ck[w].pc /\ r.finger = ck[w].finger
  BY <1>a DEF WorkerState
<1>3. WorkersOK([ck EXCEPT ![w] = r])
  BY <1>1, <1>2, WorkerReplaced DEF WorkersOK
<1> QED
  BY <1>3 DEF reset, ck

LEMMA EnrollType ==
    ASSUME TypeOK, NEW w \in Worker, enroll(w)
    PROVE  /\ WorkersOK(workers') /\ pending_get' \in SUBSET Worker
           /\ image_queue' \in Seq(ImageEvent) /\ event_queue' \in Seq(SensorEvent)
<1> DEFINE r == [workers[w] EXCEPT !.pc = "parse_image"]
           wk == [workers EXCEPT ![w] = r]
<1>1. workers[w] \in WorkerState /\ workers[w].finger \in FingerArg
  BY DEF enroll, TypeOK, TaskType, WorkersOK
<1>2. r \in WorkerState /\ r.finger = workers[w].finger
  BY <1>1 DEF WorkerState
<1>3. WorkersOK(wk)
  BY <1>1, <1>2, WorkerReplaced DEF TypeOK, TaskType
<1>4. reset(wk, w) /\ Put("StartSensor")
  BY DEF enroll
<1>5. event_queue' \in Seq(SensorEvent)
  BY <1>4, AppendIn DEF Put, SensorEvent, TypeOK, TaskType
<1> QED
  BY <1>3, <1>4, <1>5, ResetType

\* What the steps of a worker leave well-formed.
StoreType == prints \in [User -> SUBSET FingerArg] /\ disk \in [User -> SUBSET FingerArg]
QueueType == pending_get \in SUBSET Worker /\ image_queue \in Seq(ImageEvent)

LEMMA EndType ==
    ASSUME TypeOK, NEW w \in Worker, End(w)
    PROVE  WorkersOK(workers') /\ QueueType' /\ event_queue' \in Seq(SensorEvent)
<1>1. event_queue' \in Seq(SensorEvent)
  BY AppendIn DEF End, Put, SensorEvent, TypeOK, TaskType
<1> QED
  BY <1>1, FinishWorker DEF End, QueueType, queueVars, TypeOK, TaskType

LEMMA CommitType ==
    ASSUME TypeOK, NEW w \in Worker, workers[w].pc = "parse_image", Commit(w)
    PROVE  StoreType'
<1>1. workers[w].finger \in FingerArg
  BY DEF TypeOK, TaskType, WorkersOK
<1>2. [prints EXCEPT ![workers[w].user] = @ \cup {workers[w].finger}] \in [User -> SUBSET FingerArg]
  BY <1>1 DEF TypeOK, FlagType
<1> QED
  BY <1>2 DEF Commit, StoreType

LEMMA ParseImageType ==
    ASSUME TypeOK, NEW w \in Worker, workers[w].pc = "parse_image", parse_image(w) \/ GetPolled(w)
    PROVE  /\ WorkersOK(workers') /\ QueueType' /\ event_queue' \in Seq(SensorEvent)
           /\ StoreType' /\ alive' \in BOOLEAN /\ finger_present' \in BOOLEAN
<1> USE DEF StoreType, QueueType
<1>1. WorkersOK(workers) /\ QueueType /\ event_queue \in Seq(SensorEvent) /\ StoreType
      /\ alive \in BOOLEAN /\ finger_present \in BOOLEAN
  BY DEF TypeOK, TaskType, FlagType
<1>2. CASE FingerDown(w)
  BY <1>1, <1>2, WaitImageOK DEF FingerDown, storeVars
<1>3. CASE VerifyMatch(w)
  BY <1>1, <1>3, EndType DEF VerifyMatch, storeVars
<1>4. CASE Retry(w)
  BY <1>1, <1>4, WaitImageOK DEF Retry, storeVars
<1>5. CASE StagePassed(w)
  <2> DEFINE r  == [workers[w] EXCEPT !.count = @ + 1]
             wk == [workers EXCEPT ![w].count = @ + 1]
  <2>1. workers[w] \in WorkerState /\ workers[w].finger \in FingerArg
    BY <1>1 DEF WorkersOK
  <2>2. r \in WorkerState /\ r.finger = workers[w].finger
    BY <2>1 DEF WorkerState
  <2>3. WorkersOK(wk)
    BY <1>1, <2>1, <2>2, WorkerReplaced
  <2> QED
    BY <1>1, <1>5, <2>3, WaitImageOK DEF StagePassed, storeVars
<1>6. CASE EnrollCompleted(w)
  BY <1>1, <1>6, EndType, CommitType DEF EnrollCompleted
<1>7. CASE Stopped(w)
  BY <1>1, <1>7, EndType DEF Stopped, storeVars
<1>8. CASE Cancelled(w)
  BY <1>1, <1>8, FinishWorker DEF Cancelled, storeVars, queueVars
<1>9. CASE GetPolled(w)
  <2>1. CASE wait_image(workers, w) /\ UNCHANGED alive
    BY <1>1, <1>9, <2>1, WaitImageOK DEF GetPolled, storeVars
  <2>2. CASE Die /\ UNCHANGED <<workers, queueVars>>
    BY <1>1, <1>9, <2>2 DEF GetPolled, Die, storeVars, queueVars
  <2> QED
    BY <1>9, <2>1, <2>2 DEF GetPolled
<1>10. CASE WrongSize(w)
  BY <1>1, <1>10 DEF WrongSize, Die, storeVars, queueVars
<1> QED
  BY <1>2, <1>3, <1>4, <1>5, <1>6, <1>7, <1>8, <1>9, <1>10 DEF parse_image

LEMMA WorkerStepType ==
    ASSUME TypeOK, NEW w \in Worker, WorkerStep(w)
    PROVE  TypeOK'
<1>1. /\ WorkersOK(workers') /\ QueueType' /\ event_queue' \in Seq(SensorEvent)
      /\ StoreType' /\ alive' \in BOOLEAN /\ finger_present' \in BOOLEAN
  <2>1. CASE enroll(w)
    BY <2>1, EnrollType DEF enroll, storeVars, StoreType, QueueType, TypeOK, FlagType
  <2>2. CASE workers[w].pc = "parse_image" /\ (parse_image(w) \/ GetPolled(w))
    BY <2>2, ParseImageType
  <2> QED
    BY <2>1, <2>2 DEF WorkerStep
<1> QED
  BY <1>1 DEF TypeOK, BusType, DeviceType, TaskType, FlagType, StoreType, QueueType, WorkerStep,
     busVars, deviceVars, claimVars, boundVars

-------------------------------------------------------------------------------
\* What the handlers of the device object change.
ClaimType == /\ claimed \in BOOLEAN /\ claimed_sender \in Client \cup {None}
             /\ claimed_user \in User \cup {None}
             /\ enroll_verify_task \in Worker \cup {None}
             /\ name_owner_changed_task \in Listener \cup {None}
ServedType == /\ ClaimType /\ TaskType /\ StoreType /\ finger_present \in BOOLEAN

LEMMA CallParts ==
    ASSUME NEW m \in Call
    PROVE  /\ m.sender \in Client
           /\ m.method \in UidMethods => m.arg \in User \cup {None}
           /\ m.method \in FingerMethods => m.arg \in FingerArg
BY DEF Call, FingerMethods, StartMethods, UidMethods, ClaimMethods, StopMethods, DeleteMethods

LEMMA MessageParts ==
    ASSUME NEW m \in Call \cup Signal, m.kind = "call"
    PROVE  m \in Call
BY DEF Call, Signal

LEMMA RejectType ==
    ASSUME TypeOK, Reject
    PROVE  ServedType'
BY DEF TypeOK, DeviceType, TaskType, FlagType, ServedType, ClaimType, StoreType, Reject, taskVars,
   claimVars, queueVars, storeVars

LEMMA StoreStepType ==
    ASSUME TypeOK, NEW stored \in [User -> SUBSET FingerArg], Store(stored)
    PROVE  ServedType'
BY DEF TypeOK, DeviceType, TaskType, FlagType, ServedType, ClaimType, StoreType, Store, taskVars,
   claimVars, queueVars

LEMMA DeleteTypes ==
    ASSUME TypeOK, NEW user, NEW finger,
           \/ delete_enrolled_fingers(user)
           \/ delete_enrolled_fingers2
           \/ delete_enrolled_finger(finger)
    PROVE  ServedType'
<1>1. prints \in [User -> SUBSET FingerArg]
  BY DEF TypeOK, FlagType
<1>2. CASE delete_enrolled_fingers(user)
  <2>1. [prints EXCEPT ![user] = {}] \in [User -> SUBSET FingerArg]
    BY <1>1
  <2> QED
    BY <1>2, <2>1, StoreStepType DEF delete_enrolled_fingers
<1>3. CASE delete_enrolled_fingers2
  <2>1. [prints EXCEPT ![claimed_user] = {}] \in [User -> SUBSET FingerArg]
    BY <1>1
  <2> QED
    BY <1>3, <2>1, StoreStepType DEF delete_enrolled_fingers2
<1>4. CASE delete_enrolled_finger(finger)
  <2>1. [prints EXCEPT ![claimed_user] = @ \ {finger}] \in [User -> SUBSET FingerArg]
    BY <1>1
  <2> QED
    BY <1>4, <2>1, StoreStepType, RejectType DEF delete_enrolled_finger
<1> QED
  BY <1>2, <1>3, <1>4

LEMMA ClaimStepType ==
    ASSUME TypeOK, NEW sender \in Client, NEW user \in User \cup {None}, claim(sender, user)
    PROVE  ServedType'
<1>1. CASE claimed
  BY <1>1, RejectType DEF claim
<1>2. CASE ~claimed
  <2>1. Claimed(sender, user)
    BY <1>2 DEF claim
  <2> DEFINE r == [pc |-> "add_match", ready |-> TRUE, reply |-> "none", sender |-> sender]
  <2>2. PICK l \in FreeListeners : listeners' = [listeners EXCEPT ![l] = r] /\ name_owner_changed_task' = l
    BY <2>1 DEF Claimed
  <2>3. l \in Listener /\ r \in ListenerState /\ r.sender \in Client
    BY DEF FreeListeners, ListenerState
  <2> HIDE DEF r
  <2>4. ListenersOK(listeners')
    BY <2>2, <2>3, ListenerReplaced DEF TypeOK, TaskType
  <2> QED
    BY <2>1, <2>2, <2>3, <2>4 DEF Claimed, TypeOK, DeviceType, TaskType, FlagType, ServedType,
       ClaimType, StoreType, queueVars, storeVars
<1> QED
  BY <1>1, <1>2

LEMMA ReleaseType ==
    ASSUME TypeOK, release
    PROVE  ServedType'
<1>1. ListenersOK(listeners')
  BY ResumeListener DEF release, TypeOK, DeviceType, TaskType
<1>2. WorkersOK(workers')
  BY ResumeWorker DEF release, TypeOK, DeviceType, TaskType
<1> QED
  BY <1>1, <1>2 DEF release, Unclaim, TypeOK, DeviceType, TaskType, FlagType, ServedType,
     ClaimType, StoreType, queueVars, storeVars

LEMMA StartType ==
    ASSUME TypeOK, NEW method, NEW finger \in FingerArg, enroll_verify_start(method, finger)
    PROVE  ServedType'
<1> DEFINE v == method = "VerifyStart"
           r == [pc |-> "enroll", ready |-> TRUE, got |-> "none", user |-> claimed_user,
                 finger |-> finger, verify |-> v, count |-> 0]
<1>1. CASE StartRefused(v, finger)
  BY <1>1, RejectType DEF enroll_verify_start
<1>2. CASE ~StartRefused(v, finger)
  <2>1. PICK w \in FreeWorkers : workers' = [workers EXCEPT ![w] = r] /\ enroll_verify_task' = w
    BY <1>2 DEF enroll_verify_start
  <2>2. w \in Worker /\ r \in WorkerState /\ r.finger \in FingerArg
    BY DEF FreeWorkers, WorkerState, TypeOK, DeviceType
  <2>3. UNCHANGED <<claimVars, name_owner_changed_task, listeners, queueVars,
                    event_queue, finger_present, storeVars>>
    BY <1>2 DEF enroll_verify_start
  <2> HIDE DEF r
  <2>4. WorkersOK(workers')
    BY <2>1, <2>2, WorkerReplaced DEF TypeOK, TaskType
  <2> QED
    BY <2>1, <2>2, <2>3, <2>4 DEF TypeOK, DeviceType, TaskType, FlagType, ServedType, ClaimType,
       StoreType, claimVars, queueVars, storeVars
<1> QED
  BY <1>1, <1>2

\* The stop event of enroll_verify_stop() and name_owner_changed().
LEMMA SendStopType ==
    ASSUME TypeOK, NEW wk, WorkersOK(wk), NEW pend \in SUBSET Worker, send_enroll_stop(wk, pend)
    PROVE  WorkersOK(workers') /\ QueueType' /\ enroll_verify_task' = None
<1>1. PutImage(wk, pend, "EnrollVerifyStop") /\ "EnrollVerifyStop" \in ImageEvent
  BY DEF send_enroll_stop, ImageEvent
<1>2. WorkersOK(workers') /\ pending_get' \in SUBSET Worker /\ image_queue' \in Seq(ImageEvent)
  BY <1>1, PutImageOK DEF TypeOK, TaskType
<1> QED
  BY <1>2 DEF send_enroll_stop, QueueType

LEMMA StopType ==
    ASSUME TypeOK, enroll_verify_stop
    PROVE  ServedType'
<1>1. CASE enroll_verify_task = None
  BY <1>1, RejectType DEF enroll_verify_stop
<1>2. CASE enroll_verify_task # None
  BY <1>2, SendStopType DEF enroll_verify_stop, TypeOK, DeviceType, TaskType, FlagType, QueueType,
     ServedType, ClaimType, StoreType, claimVars, storeVars
<1> QED
  BY <1>1, <1>2

LEMMA NameOwnerChangedType ==
    ASSUME TypeOK, name_owner_changed
    PROVE  ServedType'
<1>1. WorkersOK(workers') /\ QueueType' /\ enroll_verify_task' = None
  BY SendStopType, FinishWorker DEF name_owner_changed, TypeOK, DeviceType, TaskType
<1> QED
  BY <1>1 DEF name_owner_changed, Unclaim, TypeOK, DeviceType, TaskType, FlagType, QueueType,
     ServedType, ClaimType, StoreType, storeVars

LEMMA HandleMessageType ==
    ASSUME TypeOK, handle_message
    PROVE  TypeOK'
<1>1. /\ ServedType' /\ requests' \in Seq(Request) /\ messages' \in Seq(Call \cup Signal)
      /\ serving' \in Seq(Call) /\ uid' \in {"none", "ok", "error"}
  <2> DEFINE m == Head(messages)
  <2>a. /\ requests \in Seq(Request) /\ messages \in Seq(Call \cup Signal)
        /\ serving \in Seq(Call) /\ uid \in {"none", "ok", "error"}
    BY DEF TypeOK, BusType, DeviceType
  <2>b. ASSUME messages # <<>>, m.kind = "call"
        PROVE  m \in Call
    BY <2>a, <2>b, HeadTail, MessageParts
  <2>c. messages # <<>> => Tail(messages) \in Seq(Call \cup Signal)
    BY <2>a, HeadTail
  <2>1. CASE get_uid
    <3>1. m \in Call
      BY <2>1, <2>b DEF get_uid
    <3>2. [method |-> "GetConnectionUnixUser", name |-> m.sender] \in Request
      BY <3>1, CallParts DEF Request
    <3>3. requests' \in Seq(Request)
      BY <2>1, <2>a, <3>2, AppendIn DEF get_uid
    <3> QED
      BY <2>1, <2>a, <2>c, <3>1, <3>3, RejectType DEF get_uid
  <2>2. CASE check_uid
    <3> DEFINE n == serving[1]
               username == IF n.arg = None THEN UserOf[n.sender] ELSE n.arg
    <3>1. n \in Call
      BY <2>2, <2>a DEF check_uid
    <3>2. ServedType'
      <4>1. CASE Reject
        BY <4>1, RejectType
      <4>2. CASE delete_enrolled_fingers(username)
        BY <4>2, DeleteTypes
      <4>3. CASE n.method = "Claim" /\ claim(n.sender, username)
        <5>1. n.sender \in Client /\ n.arg \in User \cup {None}
          BY <3>1, <4>3, CallParts DEF UidMethods
        <5>2. username \in User \cup {None}
          BY <5>1, DeviceAssumption
        <5> QED
          BY <4>3, <5>1, <5>2, ClaimStepType
      <4> QED
        BY <2>2, <4>1, <4>2, <4>3 DEF check_uid
    <3> QED
      BY <2>2, <2>a, <3>2 DEF check_uid
  <2>3. CASE check_sender
    <3>1. m \in Call
      BY <2>3, <2>b DEF check_sender
    <3>2. ServedType'
      <4>1. CASE Reject
        BY <4>1, RejectType
      <4>2. CASE m.method \in StartMethods /\ enroll_verify_start(m.method, m.arg)
        <5>1. m.arg \in FingerArg
          BY <3>1, <4>2, CallParts DEF FingerMethods
        <5> QED
          BY <4>2, <5>1, StartType
      <4>3. CASE enroll_verify_stop
        BY <4>3, StopType
      <4>4. CASE delete_enrolled_finger(m.arg) \/ delete_enrolled_fingers2
        BY <4>4, DeleteTypes
      <4>5. CASE release
        BY <4>5, ReleaseType
      <4> QED
        BY <2>3, <4>1, <4>2, <4>3, <4>4, <4>5 DEF check_sender
    <3> QED
      BY <2>3, <2>a, <2>c, <3>2 DEF check_sender
  <2>4. CASE owner_left
    BY <2>4, <2>a, <2>c, NameOwnerChangedType DEF owner_left
  <2>5. CASE unhandled
    BY <2>5, <2>a, <2>c, RejectType DEF unhandled
  <2> QED
    BY <2>1, <2>2, <2>3, <2>4, <2>5 DEF handle_message
<1> QED
  BY <1>1 DEF TypeOK, BusType, DeviceType, TaskType, FlagType, ServedType, ClaimType, StoreType,
     handle_message, boundVars

LEMMA InitType == Init => TypeOK
<1> SUFFICES ASSUME Init PROVE TypeOK
  OBVIOUS
<1>1. ListenersOK(listeners)
  BY DEF Init, ListenersOK, NoListener, ListenerState
<1>2. WorkersOK(workers)
  BY DEF Init, WorkersOK, NoWorker, WorkerState
<1>3. TaskType
  BY <1>1, <1>2 DEF Init, TaskType
<1>4. BusType
  BY DEF Init, BusType
<1>a. serving = <<>> /\ uid = "none"
  BY DEF Init
<1>b. serving \in Seq(Call)
  BY <1>a
<1>5. DeviceType
  <2>1. uid \in {"none", "ok", "error"}
    BY <1>a
  <2>2. /\ claimed = FALSE /\ claimed_sender = None /\ claimed_user = None
        /\ enroll_verify_task = None /\ name_owner_changed_task = None
    BY DEF Init
  <2> QED
    BY <1>b, <2>1, <2>2 DEF DeviceType
<1>6. prints \in [User -> SUBSET FingerArg]
  BY DEF Init, FingerArg
<1>7. FlagType
  BY <1>6 DEF Init, FlagType
<1> QED
  BY <1>3, <1>4, <1>5, <1>7 DEF TypeOK

LEMMA NextType ==
    ASSUME TypeOK, [Next]_vars
    PROVE  TypeOK'
<1>1. ASSUME NEW c \in Client, Send(c) \/ Disconnect(c) PROVE TypeOK'
  BY <1>1, SendType, DisconnectType
<1>2. CASE OtherSignal \/ BusAnswer \/ LookupTimesOut
  BY <1>2, OtherSignalType, BusAnswerType, LookupTimesOutType
<1>3. CASE Dispatch
  BY <1>3, DispatchType
<1>4. CASE Poll
  BY <1>4, PollType
<1>5. CASE handle_message
  BY <1>5, HandleMessageType
<1>6. ASSUME NEW l \in Listener, ListenerStep(l) PROVE TypeOK'
  BY <1>6, ListenerStepType
<1>7. ASSUME NEW w \in Worker, WorkerStep(w) PROVE TypeOK'
  BY <1>7, WorkerStepType
<1>8. ASSUME NEW e \in {"FingerDown", "Image"}, SensorReports(e) PROVE TypeOK'
  BY <1>8, SensorReportsType
<1>9. CASE ControlTakes
  BY <1>9, ControlTakesType
<1>10. CASE UNCHANGED vars
  BY <1>10 DEF TypeOK, BusType, DeviceType, TaskType, FlagType, vars, busVars, deviceVars,
     claimVars, queueVars, storeVars, boundVars
<1> QED
  BY <1>1, <1>2, <1>3, <1>4, <1>5, <1>6, <1>7, <1>8, <1>9, <1>10 DEF Next

\* Every variable keeps its type: the queues hold only what their readers
\* expect, and a live task has the finger or the client it works for.
THEOREM TypeCorrect == Spec => []TypeOK
<1>1. TypeOK /\ [Next]_vars => TypeOK'
  BY NextType
<1> QED
  BY <1>1, InitType, PTL DEF Spec

-------------------------------------------------------------------------------
(***************************************************************************)
(* The enroll and verify sessions: the device object, the tasks and the    *)
(* image queue agree on whose session it is, and no event of one session   *)
(* reaches another.  SessionOwned is inductive alone; NoStaleStop needs    *)
(* GettersLive, which says where the queue may hand an event.              *)
(***************************************************************************)

SessionInv  == GettersLive /\ SessionOwned /\ NoStaleStop
sessionVars == <<claimed, claimed_user, enroll_verify_task, workers, pending_get, image_queue>>

\* What the session's properties see of a task.
Alike(wk) == \A v \in Worker : /\ wk[v].pc = workers[v].pc /\ wk[v].user = workers[v].user
                               /\ wk[v].got = workers[v].got

LEMMA SessionUnchanged ==
    ASSUME SessionInv, UNCHANGED sessionVars
    PROVE  SessionInv'
BY DEF SessionInv, sessionVars, GettersLive, SessionOwned, NoStaleStop

LEMMA GotParts ==
    ASSUME NEW wk, WorkersOK(wk), NEW w \in Worker, NEW e
    PROVE  /\ Got(wk, w, e)[w].pc = wk[w].pc /\ Got(wk, w, e)[w].user = wk[w].user
           /\ Got(wk, w, e)[w].got = e
           /\ \A v \in Worker \ {w} : Got(wk, w, e)[v] = wk[v]
<1> DEFINE r == [wk[w] EXCEPT !.got = e, !.ready = TRUE]
<1>1. wk \in [Worker -> WorkerState] /\ wk[w] \in WorkerState
  BY DEF WorkersOK
<1>2. r.pc = wk[w].pc /\ r.user = wk[w].user /\ r.got = e
  BY <1>1 DEF WorkerState
<1> HIDE DEF r
<1>3. /\ [wk EXCEPT ![w] = r][w] = r
      /\ \A v \in Worker \ {w} : [wk EXCEPT ![w] = r][v] = wk[v]
  BY <1>1
<1> QED
  BY <1>2, <1>3 DEF Got, r

\* A put gives its event to one getter or leaves it at the end of the queue.
LEMMA PutEvent ==
    ASSUME NEW wk, WorkersOK(wk), NEW pend \in SUBSET Worker, image_queue \in Seq(ImageEvent),
           NEW e \in ImageEvent, PutImage(wk, pend, e)
    PROVE  /\ \A v \in Worker : workers'[v].pc = wk[v].pc /\ workers'[v].user = wk[v].user
           /\ \A v \in Worker : workers'[v].got = wk[v].got \/ (v \in pend /\ workers'[v].got = e)
           /\ \A v \in pending_get' : v \in pend /\ workers'[v] = wk[v]
           /\ \/ UNCHANGED image_queue
              \/ image_queue' = Append(image_queue, e)
<1>1. CASE pend = {} /\ workers' = wk /\ pending_get' = pend /\ image_queue' = Append(image_queue, e)
  BY <1>1
<1>2. ASSUME NEW w \in pend, workers' = Got(wk, w, e), pending_get' = pend \ {w}, UNCHANGED image_queue
      PROVE  /\ \A v \in Worker : workers'[v].pc = wk[v].pc /\ workers'[v].user = wk[v].user
             /\ \A v \in Worker : workers'[v].got = wk[v].got \/ (v \in pend /\ workers'[v].got = e)
             /\ \A v \in pending_get' : v \in pend /\ workers'[v] = wk[v]
             /\ UNCHANGED image_queue
  BY <1>2, GotParts
<1> QED
  BY <1>1, <1>2 DEF PutImage

\* A stop event reaches the image queue when the device object lets its task go.
LEMMA StopSent ==
    ASSUME TypeOK, NEW wk, WorkersOK(wk), NEW pend \in SUBSET Worker, send_enroll_stop(wk, pend),
           \A v \in pend : wk[v].pc = "parse_image" /\ wk[v].got = "none",
           \A v \in Worker : wk[v].pc = "enroll" => wk[v].got = "none"
    PROVE  SessionInv'
<1>1. PutImage(wk, pend, "EnrollVerifyStop") /\ enroll_verify_task' = None
  BY DEF send_enroll_stop
<1>2. /\ \A v \in Worker : workers'[v].pc = wk[v].pc /\ workers'[v].user = wk[v].user
      /\ \A v \in Worker : workers'[v].got = wk[v].got \/ v \in pend
      /\ \A v \in pending_get' : v \in pend /\ workers'[v] = wk[v]
  BY <1>1, PutEvent DEF ImageEvent, TypeOK, TaskType
<1> QED
  BY <1>1, <1>2 DEF SessionInv, GettersLive, SessionOwned, NoStaleStop

LEMMA ReportSession ==
    ASSUME TypeOK, SessionInv, NEW e \in {"FingerDown", "Image"}, SensorReports(e)
    PROVE  SessionInv'
<1>1. PutImage(workers, pending_get, e) /\ UNCHANGED <<claimed, claimed_user, enroll_verify_task>>
  BY DEF SensorReports, deviceVars, claimVars
<1>2. /\ \A v \in Worker : workers'[v].pc = workers[v].pc /\ workers'[v].user = workers[v].user
      /\ \A v \in Worker : workers'[v].got = workers[v].got \/ (v \in pending_get /\ workers'[v].got = e)
      /\ \A v \in pending_get' : v \in pending_get /\ workers'[v] = workers[v]
      /\ \/ UNCHANGED image_queue
         \/ image_queue' = Append(image_queue, e)
  BY <1>1, PutEvent DEF ImageEvent, TypeOK, TaskType
<1>3. GettersLive'
  BY <1>2 DEF SessionInv, GettersLive
<1>4. SessionOwned'
  BY <1>1, <1>2 DEF SessionInv, SessionOwned, TypeOK, DeviceType
<1>5. NoStaleStop'
  <2> SUFFICES ASSUME enroll_verify_task # None, workers[enroll_verify_task].pc = "parse_image"
               PROVE  /\ workers'[enroll_verify_task].got # "EnrollVerifyStop"
                      /\ \A i \in DOMAIN image_queue' : image_queue'[i] # "EnrollVerifyStop"
    BY <1>1, <1>2 DEF NoStaleStop, TypeOK, DeviceType
  <2>1. workers'[enroll_verify_task].got # "EnrollVerifyStop"
    BY <1>2 DEF SessionInv, NoStaleStop, TypeOK, DeviceType
  <2>2. \A i \in DOMAIN image_queue' : image_queue'[i] # "EnrollVerifyStop"
    BY <1>2 DEF SessionInv, NoStaleStop, TypeOK, TaskType
  <2> QED
    BY <2>1, <2>2
<1> QED
  BY <1>3, <1>4, <1>5 DEF SessionInv

-------------------------------------------------------------------------------
\* The steps of the tasks.

\* wait_image() on a table that differs from workers in the counts only.
LEMMA WaitSession ==
    ASSUME TypeOK, SessionInv, NEW w \in Worker, workers[w].pc = "parse_image",
           NEW wk, WorkersOK(wk), Alike(wk), wait_image(wk, w),
           UNCHANGED <<claimed, claimed_user, enroll_verify_task>>
    PROVE  SessionInv'
<1>1. /\ \A v \in Worker : workers'[v].pc = workers[v].pc /\ workers'[v].user = workers[v].user
      /\ \A v \in Worker \ {w} : workers'[v].got = workers[v].got
      /\ \A v \in pending_get' : IF v = w THEN workers'[v].got = "none" ELSE v \in pending_get
      /\ \/ workers'[w].got = "none"
         \/ image_queue # <<>> /\ workers'[w].got = Head(image_queue)
      /\ image_queue' = IF image_queue = <<>> THEN image_queue ELSE Tail(image_queue)
  <2>1. CASE image_queue # <<>>
    <3>1. /\ image_queue' = Tail(image_queue) /\ pending_get' = pending_get \ {w}
          /\ workers' = Got(wk, w, Head(image_queue))
      BY <2>1 DEF wait_image
    <3>2. /\ workers'[w].pc = wk[w].pc /\ workers'[w].user = wk[w].user
          /\ workers'[w].got = Head(image_queue)
          /\ \A v \in Worker \ {w} : workers'[v] = wk[v]
      BY <3>1, GotParts
    <3>3. /\ \A v \in Worker : workers'[v].pc = workers[v].pc /\ workers'[v].user = workers[v].user
          /\ \A v \in Worker \ {w} : workers'[v].got = workers[v].got
      BY <3>2 DEF Alike
    <3>4. \A v \in pending_get' : v # w /\ v \in pending_get
      BY <3>1
    <3> QED
      BY <2>1, <3>1, <3>2, <3>3, <3>4
  <2>2. CASE image_queue = <<>>
    <3> DEFINE r == [wk[w] EXCEPT !.got = "none", !.ready = FALSE]
    <3>1. wk \in [Worker -> WorkerState] /\ wk[w] \in WorkerState
      BY DEF WorkersOK
    <3>2. r.pc = wk[w].pc /\ r.user = wk[w].user /\ r.got = "none"
      BY <3>1 DEF WorkerState
    <3>3. /\ workers' = [wk EXCEPT ![w] = r]
          /\ pending_get' = pending_get \cup {w} /\ UNCHANGED image_queue
      BY <2>2 DEF wait_image
    <3> HIDE DEF r
    <3> QED
      BY <2>2, <3>1, <3>2, <3>3 DEF Alike, TypeOK, TaskType
  <2> QED
    BY <2>1, <2>2
<1>2. GettersLive'
  BY <1>1 DEF SessionInv, GettersLive, TypeOK, TaskType
<1>3. SessionOwned'
  BY <1>1 DEF SessionInv, SessionOwned, TypeOK, DeviceType
<1>4. NoStaleStop'
  <2> DEFINE t == enroll_verify_task
  <2> SUFFICES ASSUME t # None, workers[t].pc = "parse_image"
               PROVE  /\ workers'[t].got # "EnrollVerifyStop"
                      /\ \A i \in DOMAIN image_queue' : image_queue'[i] # "EnrollVerifyStop"
    BY <1>1 DEF NoStaleStop, TypeOK, DeviceType
  <2>1. /\ workers[t].got # "EnrollVerifyStop"
        /\ \A i \in DOMAIN image_queue : image_queue[i] # "EnrollVerifyStop"
    BY DEF SessionInv, NoStaleStop
  <2>2. image_queue \in Seq(ImageEvent)
    BY DEF TypeOK, TaskType
  <2>3. image_queue # <<>> => /\ Head(image_queue) # "EnrollVerifyStop"
                              /\ \A i \in DOMAIN Tail(image_queue) : Tail(image_queue)[i] # "EnrollVerifyStop"
    BY <2>1, <2>2
  <2>4. workers'[t].got # "EnrollVerifyStop"
    BY <1>1, <2>1, <2>3 DEF TypeOK, DeviceType
  <2> QED
    BY <1>1, <2>1, <2>3, <2>4
<1> QED
  BY <1>2, <1>3, <1>4 DEF SessionInv

\* A task that ends while it holds an event waits in no queue.
LEMMA FinishSession ==
    ASSUME TypeOK, SessionInv, NEW w \in Worker, workers[w].got # "none",
           workers' = Finish(workers, w), UNCHANGED queueVars,
           UNCHANGED <<claimed, claimed_user, enroll_verify_task>>
    PROVE  SessionInv'
<1>1. /\ workers'[w].pc = "done"
      /\ \A v \in Worker \ {w} : workers'[v] = workers[v]
  BY DEF Finish, NoWorker, TypeOK, TaskType, WorkersOK
<1>2. GettersLive'
  BY <1>1 DEF SessionInv, GettersLive, queueVars, TypeOK, TaskType
<1>3. SessionOwned'
  BY <1>1 DEF SessionInv, SessionOwned, TypeOK, DeviceType
<1>4. NoStaleStop'
  BY <1>1 DEF SessionInv, NoStaleStop, queueVars, TypeOK, DeviceType
<1> QED
  BY <1>2, <1>3, <1>4 DEF SessionInv

\* enroll() empties the queue and cancels whoever waits in it.
LEMMA EnrollSession ==
    ASSUME TypeOK, SessionInv, NEW w \in Worker, enroll(w),
           UNCHANGED <<claimed, claimed_user, enroll_verify_task>>
    PROVE  SessionInv'
<1> DEFINE wk == [workers EXCEPT ![w].pc = "parse_image"]
<1>1. /\ image_queue' = <<>> /\ pending_get' = {w}
      /\ workers' = [CancelGetters(wk) EXCEPT ![w].ready = FALSE]
      /\ workers[w].pc = "enroll" /\ workers[w].got = "none" /\ w \notin pending_get
  BY DEF enroll, reset, SessionInv, GettersLive
<1>2. workers \in [Worker -> WorkerState]
  BY DEF TypeOK, TaskType, WorkersOK
<1>3. /\ wk[w].pc = "parse_image" /\ wk[w].got = "none" /\ wk[w].user = workers[w].user
      /\ \A v \in Worker \ {w} : wk[v] = workers[v]
      /\ wk \in [Worker -> WorkerState]
  BY <1>1, <1>2 DEF WorkerState
<1> HIDE DEF wk
<1>4. /\ CancelGetters(wk)[w] = wk[w]
      /\ \A v \in Worker : /\ CancelGetters(wk)[v].pc = wk[v].pc
                           /\ CancelGetters(wk)[v].user = wk[v].user
                           /\ \/ CancelGetters(wk)[v].got = wk[v].got
                              \/ v \in pending_get /\ CancelGetters(wk)[v].got = "cancelled"
      /\ CancelGetters(wk) \in [Worker -> WorkerState]
  BY <1>1, <1>3 DEF CancelGetters, WorkerState
<1>5. /\ workers'[w].pc = "parse_image" /\ workers'[w].got = "none"
      /\ workers'[w].user = workers[w].user
      /\ \A v \in Worker \ {w} : /\ workers'[v].pc = workers[v].pc
                                 /\ workers'[v].user = workers[v].user
                                 /\ \/ workers'[v].got = workers[v].got
                                    \/ v \in pending_get /\ workers'[v].got = "cancelled"
  BY <1>1, <1>3, <1>4 DEF WorkerState
<1>6. GettersLive'
  BY <1>1, <1>5 DEF SessionInv, GettersLive
<1>7. SessionOwned'
  BY <1>1, <1>5 DEF SessionInv, SessionOwned, TypeOK, DeviceType
<1>8. NoStaleStop'
  BY <1>1, <1>5 DEF SessionInv, NoStaleStop, TypeOK, DeviceType
<1> QED
  BY <1>6, <1>7, <1>8 DEF SessionInv

LEMMA WorkerStepSession ==
    ASSUME TypeOK, SessionInv, NEW w \in Worker, WorkerStep(w)
    PROVE  SessionInv'
<1>1. UNCHANGED <<claimed, claimed_user, enroll_verify_task>>
  BY DEF WorkerStep, deviceVars, claimVars
<1>2. CASE enroll(w)
  BY <1>1, <1>2, EnrollSession
<1>3. CASE workers[w].pc = "parse_image" /\ (parse_image(w) \/ GetPolled(w))
  <2>1. WorkersOK(workers) /\ Alike(workers)
    BY DEF TypeOK, TaskType, Alike
  <2>2. CASE FingerDown(w) \/ Retry(w)
    BY <1>1, <1>3, <2>1, <2>2, WaitSession DEF FingerDown, Retry
  <2>3. CASE VerifyMatch(w) \/ EnrollCompleted(w) \/ Stopped(w) \/ Cancelled(w)
    BY <1>1, <2>3, FinishSession DEF VerifyMatch, EnrollCompleted, EnrollImage, Stopped, Cancelled, End
  <2>4. CASE StagePassed(w)
    <3> DEFINE r  == [workers[w] EXCEPT !.count = @ + 1]
               wk == [workers EXCEPT ![w].count = @ + 1]
    <3>1. workers \in [Worker -> WorkerState] /\ workers[w] \in WorkerState
          /\ workers[w].finger \in FingerArg
      BY <1>3 DEF TypeOK, TaskType, WorkersOK
    <3>2. r \in WorkerState /\ r.pc = workers[w].pc /\ r.user = workers[w].user
          /\ r.got = workers[w].got /\ r.finger = workers[w].finger
      BY <3>1 DEF WorkerState
    <3>3. WorkersOK([workers EXCEPT ![w] = r])
      BY <2>1, <3>1, <3>2, WorkerReplaced
    <3>4. Alike([workers EXCEPT ![w] = r])
      BY <3>1, <3>2 DEF Alike
    <3>5. wait_image(wk, w)
      BY <2>4 DEF StagePassed
    <3> QED
      BY <1>1, <1>3, <3>3, <3>4, <3>5, WaitSession
  <2>5. CASE GetPolled(w)
    <3>1. CASE wait_image(workers, w)
      BY <1>1, <1>3, <2>1, <3>1, WaitSession
    <3>2. CASE UNCHANGED <<workers, queueVars>>
      BY <1>1, <3>2, SessionUnchanged DEF sessionVars, queueVars
    <3> QED
      BY <2>5, <3>1, <3>2 DEF GetPolled
  <2>6. CASE WrongSize(w)
    BY <1>1, <2>6, SessionUnchanged DEF WrongSize, sessionVars, queueVars
  <2> QED
    BY <1>3, <2>2, <2>3, <2>4, <2>5, <2>6 DEF parse_image
<1> QED
  BY <1>2, <1>3 DEF WorkerStep

-------------------------------------------------------------------------------
\* The handlers of the device object.

LEMMA ClaimSession ==
    ASSUME TypeOK, SessionInv, NEW sender, NEW user, claim(sender, user)
    PROVE  SessionInv'
<1>1. CASE claimed
  BY <1>1, SessionUnchanged DEF claim, Reject, sessionVars, claimVars, taskVars, queueVars
<1>2. CASE ~claimed
  <2>1. enroll_verify_task = None
    BY <1>2 DEF SessionInv, SessionOwned
  <2>2. UNCHANGED <<enroll_verify_task, workers, pending_get, image_queue>>
    BY <1>2 DEF claim, Claimed, queueVars
  <2> QED
    BY <2>1, <2>2 DEF SessionInv, GettersLive, SessionOwned, NoStaleStop
<1> QED
  BY <1>1, <1>2

LEMMA ReleaseSession ==
    ASSUME TypeOK, SessionInv, release
    PROVE  SessionInv'
<1>1. enroll_verify_task' = None /\ UNCHANGED queueVars
  BY DEF release
<1>2. \A v \in Worker : workers'[v].pc = workers[v].pc /\ workers'[v].got = workers[v].got
  BY DEF release, Resume, TypeOK, TaskType, DeviceType, WorkersOK, WorkerState
<1> QED
  BY <1>1, <1>2 DEF SessionInv, GettersLive, SessionOwned, NoStaleStop, queueVars, TypeOK, TaskType

\* A start takes a task of which nothing is left, for the holder of the claim.
LEMMA StartSession ==
    ASSUME TypeOK, SessionInv, claimed, NEW method, NEW finger, enroll_verify_start(method, finger)
    PROVE  SessionInv'
<1> DEFINE v == method = "VerifyStart"
           r == [pc |-> "enroll", ready |-> TRUE, got |-> "none", user |-> claimed_user,
                 finger |-> finger, verify |-> v, count |-> 0]
<1>1. CASE StartRefused(v, finger)
  BY <1>1, SessionUnchanged DEF enroll_verify_start, Reject, sessionVars, claimVars, taskVars, queueVars
<1>2. CASE ~StartRefused(v, finger)
  <2>1. PICK w \in FreeWorkers : workers' = [workers EXCEPT ![w] = r] /\ enroll_verify_task' = w
    BY <1>2 DEF enroll_verify_start
  <2>2. UNCHANGED <<claimed, claimed_user, queueVars>>
    BY <1>2 DEF enroll_verify_start, claimVars
  <2>3. w \in Worker /\ workers[w].pc = "done" /\ w \notin pending_get
    BY DEF FreeWorkers, SessionInv, GettersLive
  <2>4. r.pc = "enroll" /\ r.got = "none" /\ r.user = claimed_user
    OBVIOUS
  <2> HIDE DEF r
  <2>5. workers'[w] = r /\ \A x \in Worker \ {w} : workers'[x] = workers[x]
    BY <2>1, <2>3 DEF TypeOK, TaskType, WorkersOK
  <2>6. GettersLive'
    BY <2>2, <2>3, <2>4, <2>5 DEF SessionInv, GettersLive, queueVars, TypeOK, TaskType
  <2>7. SessionOwned' /\ NoStaleStop'
    BY <2>1, <2>2, <2>4, <2>5 DEF SessionOwned, NoStaleStop
  <2> QED
    BY <2>6, <2>7 DEF SessionInv
<1> QED
  BY <1>1, <1>2

LEMMA StopSession ==
    ASSUME TypeOK, SessionInv, enroll_verify_stop
    PROVE  SessionInv'
<1>1. CASE enroll_verify_task = None
  BY <1>1, SessionUnchanged DEF enroll_verify_stop, Reject, sessionVars, claimVars, taskVars, queueVars
<1>2. CASE enroll_verify_task # None
  BY <1>2, StopSent DEF enroll_verify_stop, SessionInv, GettersLive, TypeOK, TaskType
<1> QED
  BY <1>1, <1>2

\* The cancelled task leaves the queue before the stop event is put there.
LEMMA NameOwnerChangedSession ==
    ASSUME TypeOK, SessionInv, name_owner_changed
    PROVE  SessionInv'
<1> DEFINE t    == enroll_verify_task
           wk   == Finish(workers, t)
           pend == pending_get \ {t}
<1>1. CASE t = None
  BY <1>1, StopSent DEF name_owner_changed, SessionInv, GettersLive, TypeOK, TaskType
<1>2. CASE t # None
  <2>1. t \in Worker /\ workers \in [Worker -> WorkerState] /\ pend \in SUBSET Worker
    BY <1>2 DEF TypeOK, DeviceType, TaskType, WorkersOK
  <2>2. wk[t].pc = "done" /\ \A v \in Worker \ {t} : wk[v] = workers[v]
    BY <2>1 DEF Finish, NoWorker
  <2>3. WorkersOK(wk)
    BY <2>1, FinishWorker DEF TypeOK, TaskType
  <2>4. send_enroll_stop(wk, pend)
    BY <1>2 DEF name_owner_changed
  <2>5. /\ \A v \in pend : wk[v].pc = "parse_image" /\ wk[v].got = "none"
        /\ \A v \in Worker : wk[v].pc = "enroll" => wk[v].got = "none"
    BY <2>1, <2>2 DEF SessionInv, GettersLive
  <2> HIDE DEF wk, pend
  <2> QED
    BY <2>1, <2>3, <2>4, <2>5, StopSent
<1> QED
  BY <1>1, <1>2

LEMMA HandleMessageSession ==
    ASSUME TypeOK, SessionInv, handle_message
    PROVE  SessionInv'
<1>1. ASSUME Reject PROVE SessionInv'
  BY <1>1, SessionUnchanged DEF Reject, sessionVars, claimVars, taskVars, queueVars
<1>2. ASSUME NEW stored, Store(stored) PROVE SessionInv'
  BY <1>2, SessionUnchanged DEF Store, sessionVars, claimVars, taskVars, queueVars
<1>3. CASE get_uid
  BY <1>1, <1>3 DEF get_uid
<1>4. CASE check_uid
  BY <1>1, <1>2, <1>4, ClaimSession DEF check_uid, delete_enrolled_fingers
<1>5. CASE check_sender
  <2> DEFINE m == Head(messages)
  <2>1. CASE NotOwner(m.sender)
    BY <1>1, <1>5, <2>1 DEF check_sender
  <2>2. CASE ~NotOwner(m.sender)
    <3>1. claimed
      BY <2>2 DEF NotOwner
    <3>2. ASSUME delete_enrolled_finger(m.arg) \/ delete_enrolled_fingers2 PROVE SessionInv'
      BY <1>1, <1>2, <3>2 DEF delete_enrolled_finger, delete_enrolled_fingers2
    <3> QED
      BY <1>5, <2>2, <3>1, <3>2, StartSession, StopSession, ReleaseSession DEF check_sender
  <2> QED
    BY <2>1, <2>2
<1>6. CASE owner_left
  BY <1>6, NameOwnerChangedSession DEF owner_left
<1>7. CASE unhandled
  BY <1>1, <1>7 DEF unhandled
<1> QED
  BY <1>3, <1>4, <1>5, <1>6, <1>7 DEF handle_message

LEMMA SessionStep ==
    ASSUME TypeOK, SessionInv, [Next]_vars
    PROVE  SessionInv'
<1> USE DEF sessionVars, deviceVars, claimVars, queueVars
<1>1. ASSUME NEW c \in Client, Send(c) \/ Disconnect(c) PROVE SessionInv'
  BY <1>1, SessionUnchanged DEF Send, Disconnect
<1>2. CASE OtherSignal \/ BusAnswer \/ LookupTimesOut
  BY <1>2, SessionUnchanged DEF OtherSignal, BusAnswer, LookupTimesOut
<1>3. CASE Dispatch
  BY <1>3, SessionUnchanged DEF Dispatch
<1>4. CASE Poll
  BY <1>4, SessionUnchanged DEF Poll
<1>5. CASE handle_message
  BY <1>5, HandleMessageSession
<1>6. ASSUME NEW l \in Listener, ListenerStep(l) PROVE SessionInv'
  BY <1>6, SessionUnchanged DEF ListenerStep
<1>7. ASSUME NEW w \in Worker, WorkerStep(w) PROVE SessionInv'
  BY <1>7, WorkerStepSession
<1>8. ASSUME NEW e \in {"FingerDown", "Image"}, SensorReports(e) PROVE SessionInv'
  BY <1>8, ReportSession
<1>9. CASE ControlTakes
  BY <1>9, SessionUnchanged DEF ControlTakes
<1>10. CASE UNCHANGED vars
  BY <1>10, SessionUnchanged DEF vars
<1> QED
  BY <1>1, <1>2, <1>3, <1>4, <1>5, <1>6, <1>7, <1>8, <1>9, <1>10 DEF Next

LEMMA SessionInit == Init => SessionInv
BY DEF Init, SessionInv, GettersLive, SessionOwned, NoStaleStop, NoWorker

LEMMA SessionInvariant == Spec => []SessionInv
<1>1. TypeOK /\ SessionInv /\ [Next]_vars => SessionInv'
  BY SessionStep
<1> QED
  BY <1>1, SessionInit, TypeCorrect, PTL DEF Spec

\* Tasks that wait in the image queue are live and hold no event: none is handed
\* to a task that ended or was cancelled by name_owner_changed().
THEOREM GettersAlwaysLive == Spec => []GettersLive
<1>1. SessionInv => GettersLive
  BY DEF SessionInv
<1> QED
  BY <1>1, SessionInvariant, PTL

\* The task that the device object refers to works for the holder of the claim.
THEOREM SessionAlwaysOwned == Spec => []SessionOwned
<1>1. SessionInv => SessionOwned
  BY DEF SessionInv
<1> QED
  BY <1>1, SessionInvariant, PTL

\* A stop event left by an earlier session never ends the running one.
THEOREM NeverStaleStop == Spec => []NoStaleStop
<1>1. SessionInv => NoStaleStop
  BY DEF SessionInv
<1> QED
  BY <1>1, SessionInvariant, PTL

-------------------------------------------------------------------------------
\* How the daemon can end.  No task that the device object refers to is woken
\* while the bus or the image queue owes it something.
ListenerAsleep ==
    \A l \in Listener : (l = name_owner_changed_task /\ listeners[l].pc = "post" /\ listeners[l].reply = "none")
                            => ~listeners[l].ready
GetterAsleep == enroll_verify_task \in pending_get => ~workers[enroll_verify_task].ready
HeldAsleep   == ListenerAsleep /\ GetterAsleep

LEMMA ListenerAsleepStep ==
    ASSUME TypeOK, ListenerAsleep, [Next]_vars
    PROVE  ListenerAsleep'
<1> USE DEF deviceVars
<1>a. listeners \in [Listener -> ListenerState]
  BY DEF TypeOK, TaskType, ListenersOK
<1>1. ASSUME UNCHANGED <<listeners, name_owner_changed_task>> PROVE ListenerAsleep'
  BY <1>1 DEF ListenerAsleep
<1>2. CASE Dispatch
  <2> DEFINE d == Head(wire)
  <2>1. name_owner_changed_task' = name_owner_changed_task
    BY <1>2 DEF Dispatch
  <2>2. ASSUME NEW l \in Filtering, listeners' = Resume(listeners, l) PROVE ListenerAsleep'
    BY <1>a, <2>1, <2>2 DEF ListenerAsleep, Filtering, Resume, ListenerState
  <2>3. CASE d.kind = "reply"
    <3>1. PICK to, reply : /\ reply \in {"ok", "error"}
                           /\ listeners' = [listeners EXCEPT ![to] = [@ EXCEPT !.reply = reply, !.ready = TRUE]]
      BY <1>2, <2>3 DEF Dispatch
    <3> QED
      BY <1>a, <2>1, <3>1 DEF ListenerAsleep, ListenerState
  <2> QED
    BY <1>1, <1>2, <2>1, <2>2, <2>3 DEF Dispatch, FilterSignal
<1>3. ASSUME NEW k \in Listener, ListenerStep(k) PROVE ListenerAsleep'
  <2>1. name_owner_changed_task' = name_owner_changed_task
    BY <1>3 DEF ListenerStep
  <2>2. listeners' = listeners \/ \E next, reply : listeners' = Await(next, k, reply)
    BY <1>3 DEF ListenerStep, add_match, post, exit, return, PendingCallPolled
  <2> QED
    BY <1>a, <1>1, <2>1, <2>2 DEF ListenerAsleep, Await, ListenerState
<1>4. CASE handle_message
  <2> USE DEF claimVars, taskVars
  <2>1. ASSUME release PROVE ListenerAsleep'
    BY <2>1, DeviceAssumption DEF release, ListenerAsleep
  <2>2. ASSUME NEW sender, NEW user, claim(sender, user) PROVE ListenerAsleep'
    <3>1. CASE claimed
      BY <1>1, <2>2, <3>1 DEF claim, Reject
    <3>2. CASE ~claimed
      <4>1. PICK l \in FreeListeners :
                /\ name_owner_changed_task' = l
                /\ listeners' = [listeners EXCEPT ![l] =
                      [pc |-> "add_match", ready |-> TRUE, reply |-> "none", sender |-> sender]]
        BY <2>2, <3>2 DEF claim, Claimed
      <4> QED
        BY <1>a, <4>1 DEF ListenerAsleep, FreeListeners
    <3> QED
      BY <3>1, <3>2
  <2>3. CASE get_uid
    BY <1>1, <2>3 DEF get_uid, Reject
  <2>4. CASE check_uid
    BY <1>1, <2>2, <2>4 DEF check_uid, Reject, delete_enrolled_fingers, Store
  <2>5. CASE check_sender
    BY <1>1, <2>1, <2>5 DEF check_sender, Reject, Store, enroll_verify_start, enroll_verify_stop,
                            delete_enrolled_finger, delete_enrolled_fingers2
  <2>6. CASE owner_left
    BY <1>1, <2>6 DEF owner_left, name_owner_changed
  <2>7. CASE unhandled
    BY <1>1, <2>7 DEF unhandled, Reject
  <2> QED
    BY <1>4, <2>3, <2>4, <2>5, <2>6, <2>7 DEF handle_message
<1>5. ASSUME \/ \E c \in Client : Send(c) \/ Disconnect(c)
             \/ OtherSignal \/ BusAnswer \/ LookupTimesOut \/ Poll \/ ControlTakes \/ UNCHANGED vars
             \/ \E w \in Worker : WorkerStep(w)
             \/ \E e \in {"FingerDown", "Image"} : SensorReports(e)
      PROVE  ListenerAsleep'
  BY <1>1, <1>5 DEF Send, Disconnect, OtherSignal, BusAnswer, LookupTimesOut, Poll, ControlTakes,
     WorkerStep, SensorReports, vars
<1> QED
  BY <1>2, <1>3, <1>4, <1>5 DEF Next

LEMMA GetterAsleepStep ==
    ASSUME TypeOK, SessionInv, GetterAsleep, [Next]_vars
    PROVE  GetterAsleep'
<1> USE DEF deviceVars
<1>a. pending_get \in SUBSET Worker /\ None \notin Worker /\ WorkersOK(workers)
  BY DeviceAssumption DEF TypeOK, TaskType
<1>b. workers \in [Worker -> WorkerState]
  BY <1>a DEF WorkersOK
<1>1. ASSUME UNCHANGED <<enroll_verify_task, workers, pending_get>> PROVE GetterAsleep'
  BY <1>1 DEF GetterAsleep
<1>2. ASSUME NEW w \in Worker, WorkerStep(w) PROVE GetterAsleep'
  <2>0. enroll_verify_task' = enroll_verify_task
    BY <1>2 DEF WorkerStep
  <2>1. ASSUME NEW wk \in [Worker -> WorkerState], \A v \in Worker \ {w} : wk[v] = workers[v], wait_image(wk, w)
        PROVE  GetterAsleep'
    BY <1>a, <2>0, <2>1 DEF wait_image, GetterAsleep, Got, WorkerState
  <2>2. CASE enroll(w)
    BY <1>b, <2>0, <2>2 DEF enroll, reset, GetterAsleep, CancelGetters, WorkerState
  <2>3. CASE VerifyMatch(w) \/ EnrollCompleted(w) \/ Stopped(w) \/ Cancelled(w)
    <3>1. workers' = Finish(workers, w) /\ UNCHANGED queueVars
      BY <2>3 DEF VerifyMatch, EnrollCompleted, Stopped, Cancelled, End
    <3> QED
      BY <1>a, <1>b, <2>0, <3>1 DEF Finish, NoWorker, GetterAsleep, queueVars
  <2>4. CASE FingerDown(w) \/ Retry(w)
    BY <1>b, <2>1, <2>4 DEF FingerDown, Retry
  <2>5. CASE StagePassed(w)
    <3> DEFINE wk == [workers EXCEPT ![w].count = @ + 1]
    <3>1. wk \in [Worker -> WorkerState] /\ \A v \in Worker \ {w} : wk[v] = workers[v]
      BY <1>b DEF WorkerState
    <3>2. wait_image(wk, w)
      BY <2>5 DEF StagePassed
    <3> HIDE DEF wk
    <3> QED
      BY <2>1, <3>1, <3>2
  <2>6. CASE GetPolled(w)
    BY <1>1, <1>b, <2>0, <2>1, <2>6 DEF GetPolled, queueVars
  <2>7. CASE WrongSize(w)
    BY <1>1, <2>0, <2>7 DEF WrongSize, queueVars
  <2> QED
    BY <1>2, <2>2, <2>3, <2>4, <2>5, <2>6, <2>7 DEF WorkerStep, parse_image
<1>3. ASSUME NEW e \in {"FingerDown", "Image"}, SensorReports(e) PROVE GetterAsleep'
  <2>1. \A v \in pending_get' : v \in pending_get /\ workers'[v] = workers[v]
    BY <1>3, <1>a, PutEvent DEF SensorReports, ImageEvent, TypeOK, TaskType
  <2> QED
    BY <1>3, <2>1 DEF SensorReports, GetterAsleep
<1>4. CASE handle_message
  <2> USE DEF claimVars, taskVars, queueVars
  <2>0. ASSUME enroll_verify_task' = None, pending_get' \subseteq Worker PROVE GetterAsleep'
    BY <1>a, <2>0 DEF GetterAsleep
  <2>1. ASSUME release PROVE GetterAsleep'
    BY <1>a, <2>0, <2>1 DEF release
  <2>2. ASSUME NEW wk, NEW pend \in SUBSET Worker, send_enroll_stop(wk, pend) PROVE GetterAsleep'
    BY <2>0, <2>2 DEF send_enroll_stop, PutImage
  <2>3. ASSUME NEW method, NEW finger, enroll_verify_start(method, finger) PROVE GetterAsleep'
    <3> DEFINE v == method = "VerifyStart"
    <3>1. CASE StartRefused(v, finger)
      BY <1>1, <2>3, <3>1 DEF enroll_verify_start, Reject
    <3>2. CASE ~StartRefused(v, finger)
      <4>1. pending_get' = pending_get /\ \E w \in FreeWorkers : enroll_verify_task' = w
        BY <2>3, <3>2 DEF enroll_verify_start
      <4> QED
        BY <4>1 DEF FreeWorkers, SessionInv, GettersLive, GetterAsleep
    <3> QED
      BY <3>1, <3>2
  <2>4. ASSUME enroll_verify_stop \/ name_owner_changed PROVE GetterAsleep'
    BY <1>1, <1>a, <2>2, <2>4 DEF enroll_verify_stop, name_owner_changed, Reject
  <2>5. ASSUME NEW sender, NEW user, claim(sender, user) PROVE GetterAsleep'
    BY <1>1, <2>5 DEF claim, Claimed, Reject
  <2>6. CASE get_uid \/ check_uid
    BY <1>1, <2>5, <2>6 DEF get_uid, check_uid, Reject, delete_enrolled_fingers, Store
  <2>7. CASE check_sender
    BY <1>1, <2>1, <2>3, <2>4, <2>7 DEF check_sender, Reject, Store, delete_enrolled_finger, delete_enrolled_fingers2
  <2>8. CASE unhandled
    BY <1>1, <2>8 DEF unhandled, Reject
  <2> QED
    BY <1>4, <2>4, <2>6, <2>7, <2>8 DEF handle_message, owner_left
<1>5. ASSUME \/ \E c \in Client : Send(c) \/ Disconnect(c)
             \/ OtherSignal \/ BusAnswer \/ LookupTimesOut \/ Dispatch \/ Poll \/ ControlTakes
             \/ UNCHANGED vars
             \/ \E l \in Listener : ListenerStep(l)
      PROVE  GetterAsleep'
  BY <1>1, <1>5 DEF Send, Disconnect, OtherSignal, BusAnswer, LookupTimesOut, Dispatch, Poll,
     ControlTakes, ListenerStep, vars, queueVars
<1> QED
  BY <1>2, <1>3, <1>4, <1>5 DEF Next

LEMMA AsleepInvariant == Spec => []HeldAsleep
<1>1. Init => HeldAsleep
  BY DEF Init, HeldAsleep, ListenerAsleep, GetterAsleep, NoListener
<1>2. TypeOK /\ SessionInv /\ HeldAsleep /\ [Next]_vars => HeldAsleep'
  BY ListenerAsleepStep, GetterAsleepStep DEF HeldAsleep
<1> QED
  BY <1>1, <1>2, SessionInvariant, TypeCorrect, PTL DEF Spec

\* What a step that ends the daemon does: it polls an await that is not complete.
LEMMA DiesStep ==
    ASSUME TypeOK, HeldAsleep, [Next]_vars, alive, ~alive'
    PROVE  \/ \E l \in Listener :
                 /\ listeners[l].ready /\ listeners[l].reply = "none"
                 /\ \/ listeners[l].pc = "post" /\ l # name_owner_changed_task
                    \/ listeners[l].pc = "return"
           \/ \E w \in pending_get : workers[w].ready /\ w # enroll_verify_task
           \/ \E w \in Worker : workers[w].ready /\ workers[w].got = "Image"
<1>1. CASE \E l \in Listener : ListenerStep(l)
  <2>1. PICK l \in Listener : ListenerStep(l)
    BY <1>1
  <2>2. PendingCallPolled(l) /\ listeners[l].ready
    BY <2>1 DEF ListenerStep, add_match, post, exit, return
  <2> QED
    BY <2>2 DEF PendingCallPolled, HeldAsleep, ListenerAsleep
<1>2. CASE \E w \in Worker : WorkerStep(w)
  <2>1. PICK w \in Worker : WorkerStep(w)
    BY <1>2
  <2>2. workers[w].ready
    BY <2>1 DEF WorkerStep
  <2>3. WrongSize(w) \/ (GetPolled(w) /\ w \in pending_get)
    BY <2>1 DEF WorkerStep, parse_image, enroll, GetPolled, FingerDown, VerifyMatch, Retry, StagePassed,
                EnrollCompleted, Stopped, Cancelled
  <2> QED
    BY <2>2, <2>3 DEF HeldAsleep, GetterAsleep, WrongSize
<1>3. ASSUME \/ \E c \in Client : Send(c) \/ Disconnect(c)
             \/ OtherSignal \/ BusAnswer \/ LookupTimesOut \/ Dispatch \/ Poll \/ handle_message
             \/ ControlTakes \/ UNCHANGED vars
             \/ \E e \in {"FingerDown", "Image"} : SensorReports(e)
      PROVE  FALSE
  BY <1>3 DEF Send, Disconnect, OtherSignal, BusAnswer, LookupTimesOut, Dispatch, Poll,
     handle_message, ControlTakes, SensorReports, vars
<1> QED
  BY <1>1, <1>2, <1>3 DEF Next

\* The daemon ends only by polling an await of a task that the device object has
\* let go (Release resumes both), of a listener that leaves and is signalled
\* again, or with an image of another size; a task that the object still refers to is never polled early.
THEOREM DiesOnlyLetGo == Spec => DiesOnly
<1> DEFINE A == ~alive' =>
         \/ ~alive
         \/ \E l \in Listener :
               /\ listeners[l].ready /\ listeners[l].reply = "none"
               /\ \/ listeners[l].pc = "post" /\ l # name_owner_changed_task
                  \/ listeners[l].pc = "return"
         \/ \E w \in pending_get : workers[w].ready /\ w # enroll_verify_task
         \/ \E w \in Worker : workers[w].ready /\ workers[w].got = "Image"
<1>1. TypeOK /\ HeldAsleep /\ [Next]_vars => [A]_vars
  BY DiesStep
<1>2. [][A]_vars <=> DiesOnly
  BY DEF DiesOnly
<1> HIDE DEF A
<1> QED
  BY <1>1, <1>2, AsleepInvariant, TypeCorrect, PTL DEF Spec

================================================================================
