--------------------------- MODULE FprintSystem_proofs --------------------------
(***************************************************************************)
(* FprintDevice is right about the sensor's task: every step of the        *)
(* composed system is a step of FprintDevice alone, in which the event     *)
(* queue is what the real one holds of orders.  What is proved about       *)
(* FprintDevice then holds for the system: the theorems at the end.        *)
(***************************************************************************)
EXTENDS FprintSystem, SequenceTheorems, WellFoundedInduction, TLAPS

-------------------------------------------------------------------------------
\* Orders, by the least number for which a claim about its prefixes fails.

Less == {p \in Nat \X Nat : p[1] < p[2]}

LEMMA Least ==
    ASSUME NEW S, S \subseteq Nat, S # {}
    PROVE  \E m \in S : \A n \in S : m <= n
<1>1. Less = OpToRel(<, Nat)
  BY DEF Less, OpToRel
<1>2. IsWellFoundedOn(Less, Nat)
  BY <1>1, NatLessThanWellFounded
<1>3. PICK m \in S : \A n \in S : ~(<<n, m>> \in Less)
  BY <1>2, WFMin
<1>4. ASSUME NEW n \in S PROVE m <= n
  <2>1. n \in Nat /\ m \in Nat /\ ~(<<n, m>> \in Nat \X Nat /\ n < m)
    BY <1>3 DEF Less
  <2> QED
    BY <2>1
<1> QED
  BY <1>4

\* t has the orders among the first n entries of q, for every n up to m.
Taking(t, q, m) ==
    t = [n \in 0..m |-> IF n = 0 THEN <<>>
                        ELSE IF q[n] \in SensorEvent THEN Append(t[n - 1], q[n]) ELSE t[n - 1]]
Taken(q) == CHOOSE t : Taking(t, q, Len(q))

LEMMA TakingExists ==
    ASSUME NEW q, NEW m \in Nat
    PROVE  \E t : Taking(t, q, m)
<1> DEFINE Bad == {n \in Nat : ~\E t : Taking(t, q, n)}
<1> SUFFICES ASSUME m \in Bad PROVE FALSE
  OBVIOUS
<1>1. PICK n \in Bad : \A k \in Bad : n <= k
  BY Least
<1>2. CASE n = 0
  <2>1. Taking([k \in 0..0 |-> <<>>], q, 0)
    BY DEF Taking
  <2> QED
    BY <1>2, <2>1
<1>3. CASE n # 0
  <2>1. n - 1 \in Nat /\ n - 1 \notin Bad
    BY <1>1, <1>3
  <2>2. PICK t : Taking(t, q, n - 1)
    BY <2>1
  <2> DEFINE last == IF q[n] \in SensorEvent THEN Append(t[n - 1], q[n]) ELSE t[n - 1]
             u == [k \in 0..n |-> IF k = n THEN last ELSE t[k]]
  <2>3. \A k \in 0..(n - 1) : u[k] = t[k]
    BY <2>1
  <2>4. ASSUME NEW k \in 0..n
        PROVE  u[k] = IF k = 0 THEN <<>>
                      ELSE IF q[k] \in SensorEvent THEN Append(u[k - 1], q[k]) ELSE u[k - 1]
    <3>1. CASE k = n
      BY <1>3, <2>1, <2>3, <3>1
    <3>2. CASE k # n
      <4>1. k \in 0..(n - 1) /\ (k # 0 => k - 1 \in 0..(n - 1))
        BY <2>1, <3>2
      <4>2. t[k] = IF k = 0 THEN <<>>
                   ELSE IF q[k] \in SensorEvent THEN Append(t[k - 1], q[k]) ELSE t[k - 1]
        BY <2>2, <4>1 DEF Taking
      <4> HIDE DEF u
      <4> QED
        BY <2>3, <4>1, <4>2
    <3> QED
      BY <3>1, <3>2
  <2>5. Taking(u, q, n)
    BY <2>4 DEF Taking
  <2> QED
    BY <1>1, <2>5
<1> QED
  BY <1>2, <1>3

LEMMA TakenParts ==
    ASSUME NEW S, NEW q \in Seq(S)
    PROVE  /\ Orders(q) = Taken(q)[Len(q)]
           /\ Taken(q)[0] = <<>>
           /\ \A n \in 1..Len(q) : Taken(q)[n] = IF q[n] \in SensorEvent THEN Append(Taken(q)[n - 1], q[n])
                                                 ELSE Taken(q)[n - 1]
<1>1. Len(q) \in Nat
  OBVIOUS
<1>2. Taking(Taken(q), q, Len(q))
  <2>1. \E t : Taking(t, q, Len(q))
    BY <1>1, TakingExists
  <2> QED
    BY <2>1 DEF Taken
<1>3. Orders(q) = Taken(q)[Len(q)]
  BY DEF Orders, Taken, Taking
<1>4. \A n \in 0..Len(q) : Taken(q)[n] = IF n = 0 THEN <<>>
            ELSE IF q[n] \in SensorEvent THEN Append(Taken(q)[n - 1], q[n]) ELSE Taken(q)[n - 1]
  BY <1>2 DEF Taking
<1> QED
  BY <1>1, <1>3, <1>4

LEMMA TakenType ==
    ASSUME NEW S, NEW q \in Seq(S), NEW n \in 0..Len(q)
    PROVE  Taken(q)[n] \in Seq(SensorEvent) /\ Len(Taken(q)[n]) <= n
<1> DEFINE Bad == {k \in 0..Len(q) : ~(Taken(q)[k] \in Seq(SensorEvent) /\ Len(Taken(q)[k]) <= k)}
<1> SUFFICES ASSUME Bad # {} PROVE FALSE
  OBVIOUS
<1>1. Bad \subseteq Nat
  OBVIOUS
<1>2. PICK k \in Bad : \A j \in Bad : k <= j
  BY <1>1, Least
<1>3. k # 0
  <2>1. Taken(q)[0] = <<>>
    BY TakenParts
  <2>2. <<>> \in Seq(SensorEvent) /\ Len(<<>>) <= 0
    OBVIOUS
  <2>3. Taken(q)[0] \in Seq(SensorEvent) /\ Len(Taken(q)[0]) <= 0
    BY <2>1, <2>2
  <2> QED
    BY <2>3
<1>4. k \in 1..Len(q) /\ k - 1 \in 0..Len(q) /\ k - 1 \notin Bad
  BY <1>1, <1>2, <1>3
<1>5. Taken(q)[k] = IF q[k] \in SensorEvent THEN Append(Taken(q)[k - 1], q[k]) ELSE Taken(q)[k - 1]
  BY <1>4, TakenParts
<1>6. Taken(q)[k - 1] \in Seq(SensorEvent) /\ Len(Taken(q)[k - 1]) <= k - 1
  BY <1>4
<1>7. Taken(q)[k] \in Seq(SensorEvent) /\ Len(Taken(q)[k]) <= k
  <2> DEFINE t == Taken(q)[k - 1]
             e == q[k]
  <2> HIDE DEF t, e
  <2>1. e \in SensorEvent => Append(t, e) \in Seq(SensorEvent) /\ Len(Append(t, e)) = Len(t) + 1
    BY <1>6 DEF t
  <2>2. Len(t) \in Nat
    BY <1>6 DEF t
  <2> QED
    BY <1>4, <1>5, <1>6, <2>1, <2>2 DEF t, e
<1> QED
  BY <1>7

LEMMA OrdersType ==
    ASSUME NEW S, NEW q \in Seq(S)
    PROVE  Orders(q) \in Seq(SensorEvent) /\ Len(Orders(q)) <= Len(q)
<1>1. Len(q) \in 0..Len(q)
  OBVIOUS
<1> QED
  BY <1>1, TakenParts, TakenType

\* Put() adds an order to the orders and no other event does.
LEMMA OrdersAppend ==
    ASSUME NEW S, NEW q \in Seq(S), NEW e \in S
    PROVE  Orders(Append(q, e)) = IF e \in SensorEvent THEN Append(Orders(q), e) ELSE Orders(q)
<1> DEFINE r == Append(q, e)
           Bad == {k \in 0..Len(q) : Taken(r)[k] # Taken(q)[k]}
<1>1. r \in Seq(S) /\ Len(r) = Len(q) + 1 /\ Len(q) \in Nat /\ r[Len(r)] = e
      /\ \A k \in 1..Len(q) : r[k] = q[k]
  OBVIOUS
<1> HIDE DEF r
<1>2. Bad = {}
  <2> SUFFICES ASSUME Bad # {} PROVE FALSE
    OBVIOUS
  <2>1. PICK k \in Bad : \A j \in Bad : k <= j
    <3>1. Bad \subseteq Nat
      OBVIOUS
    <3> QED
      BY <3>1, Least
  <2>2. k # 0
    BY <1>1, TakenParts
  <2>3. k \in 1..Len(q) /\ k - 1 \in 0..Len(q) /\ k - 1 \notin Bad /\ k \in 1..Len(r)
    BY <1>1, <2>1, <2>2
  <2>4. /\ Taken(r)[k] = IF r[k] \in SensorEvent THEN Append(Taken(r)[k - 1], r[k]) ELSE Taken(r)[k - 1]
        /\ Taken(q)[k] = IF q[k] \in SensorEvent THEN Append(Taken(q)[k - 1], q[k]) ELSE Taken(q)[k - 1]
    BY <1>1, <2>3, TakenParts
  <2> QED
    BY <1>1, <2>3, <2>4
<1>3. Taken(r)[Len(q)] = Taken(q)[Len(q)]
  BY <1>1, <1>2
<1>4. Taken(r)[Len(r)] = IF r[Len(r)] \in SensorEvent THEN Append(Taken(r)[Len(r) - 1], r[Len(r)])
                         ELSE Taken(r)[Len(r) - 1]
  <2>1. Len(r) \in 1..Len(r)
    BY <1>1
  <2> QED
    BY <1>1, <2>1, TakenParts
<1>5. Len(r) - 1 = Len(q)
  BY <1>1
<1>6. Orders(r) = Taken(r)[Len(r)] /\ Orders(q) = Taken(q)[Len(q)]
  BY <1>1, TakenParts
<1>7. Orders(r) = IF e \in SensorEvent THEN Append(Orders(q), e) ELSE Orders(q)
  BY <1>1, <1>3, <1>4, <1>5, <1>6
<1> QED
  BY <1>7 DEF r

\* Whoever takes an order from the queue takes the first of the orders, and no
\* order is lost with another event.
LEMMA OrdersTail ==
    ASSUME NEW S, NEW q \in Seq(S), q # <<>>
    PROVE  /\ Orders(q) \in Seq(SensorEvent)
           /\ IF Head(q) \in SensorEvent THEN Orders(q) # <<>> /\ Orders(Tail(q)) = Tail(Orders(q))
              ELSE Orders(Tail(q)) = Orders(q) /\ Len(Orders(q)) < Len(q)
<1> DEFINE r == Tail(q)
           first == IF q[1] \in SensorEvent THEN <<q[1]>> ELSE <<>>
           Bad == {k \in 0..Len(r) : Taken(q)[k + 1] # first \o Taken(r)[k]}
<1>1. r \in Seq(S) /\ Len(r) = Len(q) - 1 /\ Len(r) \in Nat /\ Len(q) \in Nat /\ Head(q) = q[1]
      /\ \A k \in 1..Len(r) : r[k] = q[k + 1]
  OBVIOUS
<1> HIDE DEF r
<1>2. first \in Seq(SensorEvent)
  OBVIOUS
<1>3. /\ \A k \in 0..Len(q) : Taken(q)[k] \in Seq(SensorEvent)
      /\ \A k \in 0..Len(r) : Taken(r)[k] \in Seq(SensorEvent) /\ Len(Taken(r)[k]) <= k
  BY <1>1, TakenType
<1>4. Taken(q)[1] = first
  <2>1. 1 \in 1..Len(q) /\ 1 - 1 = 0
    BY <1>1
  <2>2. Taken(q)[1] = IF q[1] \in SensorEvent THEN Append(Taken(q)[0], q[1]) ELSE Taken(q)[0]
    BY <2>1, TakenParts
  <2>3. Taken(q)[0] = <<>>
    BY TakenParts
  <2>4. Append(<<>>, q[1]) = <<q[1]>>
    OBVIOUS
  <2> QED
    BY <2>2, <2>3, <2>4
<1> HIDE DEF first
<1>5. Bad = {}
  <2> SUFFICES ASSUME Bad # {} PROVE FALSE
    OBVIOUS
  <2>1. PICK k \in Bad : \A j \in Bad : k <= j
    <3>1. Bad \subseteq Nat
      OBVIOUS
    <3> QED
      BY <3>1, Least
  <2>2. k # 0
    <3>1. Taken(r)[0] = <<>>
      BY <1>1, TakenParts
    <3>2. first \o <<>> = first
      BY <1>2, ConcatEmptySeq
    <3>3. Taken(q)[0 + 1] = first \o Taken(r)[0]
      BY <1>4, <3>1, <3>2
    <3> QED
      BY <3>3
  <2>3. /\ k \in 1..Len(r) /\ k - 1 \in 0..Len(r) /\ k + 1 \in 1..Len(q)
        /\ (k - 1) + 1 = k /\ (k + 1) - 1 = k
    BY <1>1, <2>2
  <2>4. Taken(q)[k] = first \o Taken(r)[k - 1]
    <3>1. ~(k <= k - 1)
      BY <2>3
    <3>2. k - 1 \notin Bad
      BY <2>1, <3>1
    <3> QED
      BY <2>3, <3>2
  <2>5. Taken(r)[k] = IF r[k] \in SensorEvent THEN Append(Taken(r)[k - 1], r[k]) ELSE Taken(r)[k - 1]
    BY <1>1, <2>3, TakenParts
  <2>6. Taken(q)[k + 1] = IF q[k + 1] \in SensorEvent THEN Append(Taken(q)[k], q[k + 1]) ELSE Taken(q)[k]
    BY <2>3, TakenParts
  <2>7. r[k] = q[k + 1]
    BY <1>1, <2>3
  <2>8. ASSUME NEW t \in Seq(SensorEvent), NEW e \in SensorEvent PROVE Append(first \o t, e) = first \o Append(t, e)
    <3> DEFINE a == Append(first \o t, e)
               b == first \o Append(t, e)
    <3>1. a \in Seq(SensorEvent) /\ b \in Seq(SensorEvent) /\ Len(a) = Len(b)
      BY <1>2, SMTT(30)
    <3>2. ASSUME NEW i \in 1..Len(a) PROVE a[i] = b[i]
      <4>1. PICK m \in Nat, n \in Nat : m = Len(first) /\ n = Len(t)
        BY <1>2
      <4>2. Len(a) = m + n + 1
        BY <1>2, <4>1, SMTT(30)
      <4>3. CASE i <= m
        BY <1>2, <4>1, <4>2, <4>3, SMTT(30)
      <4>4. CASE i > m /\ i <= m + n
        BY <1>2, <4>1, <4>2, <4>4, SMTT(30)
      <4>5. CASE i = m + n + 1
        BY <1>2, <4>1, <4>2, <4>5, SMTT(60)
      <4> HIDE DEF a, b
      <4>6. i \in Nat /\ i <= m + n + 1
        BY <4>2
      <4> QED
        BY <4>3, <4>4, <4>5, <4>6
    <3> HIDE DEF a, b
    <3>3. a = b
      BY <3>1, <3>2, SeqEqual
    <3> QED
      BY <3>3 DEF a, b
  <2>9. Taken(q)[k + 1] = first \o Taken(r)[k]
    BY <1>3, <2>3, <2>4, <2>5, <2>6, <2>7, <2>8
  <2> QED
    BY <2>1, <2>9
<1>6. Orders(q) = Taken(q)[Len(q)] /\ Orders(r) = Taken(r)[Len(r)]
  BY <1>1, TakenParts
<1>7. Orders(q) = first \o Orders(r)
  <2>1. Len(r) \in 0..Len(r) /\ Len(r) + 1 = Len(q)
    BY <1>1
  <2> QED
    BY <1>5, <1>6, <2>1
<1>8. Orders(q) \in Seq(SensorEvent) /\ Orders(r) \in Seq(SensorEvent) /\ Len(Orders(r)) <= Len(r)
  <2>1. Len(r) \in 0..Len(r) /\ Len(q) \in 0..Len(q)
    BY <1>1
  <2> QED
    BY <1>3, <1>6, <2>1
<1>9. CASE q[1] \in SensorEvent
  <2>1. first = <<q[1]>>
    BY <1>9 DEF first
  <2> DEFINE o == Orders(r)
  <2>2. o \in Seq(SensorEvent)
    BY <1>8
  <2> HIDE DEF o
  <2>3. <<q[1]>> \o o # <<>> /\ Tail(<<q[1]>> \o o) = o
    BY <1>9, <2>2
  <2>4. Orders(q) # <<>> /\ Orders(r) = Tail(Orders(q))
    BY <1>7, <2>1, <2>3 DEF o
  <2> QED
    BY <1>1, <1>8, <1>9, <2>4 DEF r
<1>10. CASE q[1] \notin SensorEvent
  <2> DEFINE o == Orders(r)
  <2>1. o \in Seq(SensorEvent)
    BY <1>8
  <2> HIDE DEF o
  <2>2. <<>> \o o = o
    BY <2>1
  <2>3. Orders(q) = Orders(r)
    BY <1>7, <1>10, <2>2 DEF first, o
  <2>4. Len(Orders(q)) < Len(q)
    BY <1>1, <1>8, <2>3
  <2> QED
    BY <1>1, <1>8, <1>10, <2>3, <2>4 DEF r
<1> QED
  BY <1>9, <1>10

LEMMA OrdersEmpty == Orders(<<>>) = <<>>
<1>1. <<>> \in Seq({}) /\ Len(<<>>) = 0
  OBVIOUS
<1> QED
  BY <1>1, TakenParts

-------------------------------------------------------------------------------
\* The steps of the bus, the device object and its tasks, as FprintDevice has them.

LEMMA SendMaps ==
    ASSUME NEW c \in Client, Send(c)
    PROVE  Device!Send(c)
  BY DEF Send, Device!Send, Outstanding, Device!Outstanding, ArgOf, Device!ArgOf, UidMethods, Device!UidMethods,
         FingerMethods, Device!FingerMethods, StartMethods, Device!StartMethods, FingerArg, Device!FingerArg,
         deviceVars, Device!deviceVars, claimVars, Device!claimVars,
         queueVars, Device!queueVars, storeVars, Device!storeVars

LEMMA DisconnectMaps ==
    ASSUME NEW c \in Client, Disconnect(c)
    PROVE  Device!Disconnect(c)
  BY DEF Disconnect, Device!Disconnect, deviceVars, Device!deviceVars, claimVars, Device!claimVars,
         queueVars, Device!queueVars, storeVars, Device!storeVars, boundVars, Device!boundVars

LEMMA BusAnswerMaps ==
    ASSUME BusAnswer
    PROVE  Device!BusAnswer
  BY DEF BusAnswer, Device!BusAnswer, deviceVars, Device!deviceVars, claimVars, Device!claimVars,
         queueVars, Device!queueVars, storeVars, Device!storeVars, boundVars, Device!boundVars

LEMMA SignalMaps ==
    ASSUME OtherSignal
    PROVE  Device!OtherSignal
  BY DEF OtherSignal, Device!OtherSignal, deviceVars, Device!deviceVars, claimVars, Device!claimVars,
         queueVars, Device!queueVars, storeVars, Device!storeVars

LEMMA LookupMaps ==
    ASSUME LookupTimesOut
    PROVE  Device!LookupTimesOut
  BY DEF LookupTimesOut, Device!LookupTimesOut, deviceVars, Device!deviceVars, claimVars, Device!claimVars,
         queueVars, Device!queueVars, storeVars, Device!storeVars, boundVars, Device!boundVars

LEMMA DispatchMaps ==
    ASSUME Dispatch
    PROVE  Device!Dispatch
  BY DEF Dispatch, Device!Dispatch, FilterSignal, Device!FilterSignal, Filtering, Device!Filtering,
         Resume, Device!Resume, claimVars, Device!claimVars,
         queueVars, Device!queueVars, storeVars, Device!storeVars, boundVars, Device!boundVars

LEMMA PollMaps ==
    ASSUME Poll
    PROVE  Device!Poll
  BY DEF Poll, Device!Poll, AnyReady, Device!AnyReady, DeviceReady, Device!DeviceReady,
         busVars, Device!busVars, deviceVars, Device!deviceVars, claimVars, Device!claimVars,
         queueVars, Device!queueVars, storeVars, Device!storeVars, boundVars, Device!boundVars

LEMMA ListenerStepMaps ==
    ASSUME NEW l \in Listener, ListenerStep(l)
    PROVE  Device!ListenerStep(l)
<1>1. /\ add_match(l) <=> Device!add_match(l)
      /\ post(l) <=> Device!post(l)
      /\ exit(l) <=> Device!exit(l)
      /\ return(l) <=> Device!return(l)
      /\ PendingCallPolled(l) <=> Device!PendingCallPolled(l)
  BY DEF add_match, Device!add_match, post, Device!post, exit, Device!exit, return, Device!return,
         PendingCallPolled, Device!PendingCallPolled, Ask, Device!Ask, Await, Device!Await, Die, Device!Die
<1> QED
  BY <1>1 DEF ListenerStep, Device!ListenerStep, deviceVars, Device!deviceVars, claimVars, Device!claimVars,
         queueVars, Device!queueVars, storeVars, Device!storeVars, boundVars, Device!boundVars

\* What the event queue holds: orders, and what the sensor reports.
QueueEvent == SensorEvent \cup {"finger_down", "image"}

LEMMA PutMaps ==
    ASSUME event_queue \in Seq(QueueEvent), NEW e \in SensorEvent, Put(e)
    PROVE  Device!Put(e)
<1>1. Orders(event_queue)' = Append(Orders(event_queue), e)
  BY OrdersAppend DEF Put, QueueEvent
<1> QED
  BY <1>1 DEF Device!Put

LEMMA WorkerStepMaps ==
    ASSUME event_queue \in Seq(QueueEvent), NEW w \in Worker, WorkerStep(w)
    PROVE  Device!WorkerStep(w)
<1> USE DEF queueVars, Device!queueVars, storeVars, Device!storeVars
<1>0. \A e \in SensorEvent : Put(e) => Device!Put(e)
  BY PutMaps
<1>1. \A wk : wait_image(wk, w) <=> Device!wait_image(wk, w)
  BY DEF wait_image, Device!wait_image, Got, Device!Got
<1>2. ASSUME enroll(w) PROVE Device!enroll(w)
  BY <1>0, <1>2 DEF enroll, Device!enroll, reset, Device!reset, CancelGetters, Device!CancelGetters, SensorEvent
<1>3. ASSUME End(w) PROVE Device!End(w)
  BY <1>0, <1>3 DEF End, Device!End, Finish, Device!Finish, NoWorker, Device!NoWorker, SensorEvent
<1>4. ASSUME UNCHANGED event_queue PROVE Device!FingerDown(w) <=> FingerDown(w)
  BY <1>1, <1>4 DEF FingerDown, Device!FingerDown
<1>5. ASSUME VerifyMatch(w) PROVE Device!VerifyMatch(w)
  BY <1>3, <1>5 DEF VerifyMatch, Device!VerifyMatch, Candidates, Device!Candidates
<1>6. ASSUME Retry(w) PROVE Device!Retry(w)
  BY <1>1, <1>6 DEF Retry, Device!Retry
<1>7. ASSUME StagePassed(w) PROVE Device!StagePassed(w)
  BY <1>1, <1>7 DEF StagePassed, Device!StagePassed, EnrollImage, Device!EnrollImage
<1>8. ASSUME EnrollCompleted(w) PROVE Device!EnrollCompleted(w)
  BY <1>3, <1>8 DEF EnrollCompleted, Device!EnrollCompleted, EnrollImage, Device!EnrollImage, Commit, Device!Commit
<1>9. ASSUME Stopped(w) PROVE Device!Stopped(w)
  BY <1>3, <1>9 DEF Stopped, Device!Stopped
<1>10. ASSUME Cancelled(w) PROVE Device!Cancelled(w)
  BY <1>10 DEF Cancelled, Device!Cancelled, Finish, Device!Finish, NoWorker, Device!NoWorker
<1>11. ASSUME GetPolled(w) PROVE Device!GetPolled(w)
  BY <1>1, <1>11 DEF GetPolled, Device!GetPolled, Die, Device!Die
<1>12. ASSUME WrongSize(w) PROVE Device!WrongSize(w)
  BY <1>12 DEF WrongSize, Device!WrongSize, Die, Device!Die
<1>13. ASSUME parse_image(w) PROVE Device!parse_image(w)
  <2>1. FingerDown(w) => UNCHANGED event_queue
    BY DEF FingerDown
  <2> QED
    BY <1>4, <1>5, <1>6, <1>7, <1>8, <1>9, <1>10, <1>12, <1>13, <2>1 DEF parse_image, Device!parse_image
<1> QED
  BY <1>2, <1>11, <1>13 DEF WorkerStep, Device!WorkerStep, busVars, Device!busVars,
         deviceVars, Device!deviceVars, claimVars, Device!claimVars, boundVars, Device!boundVars

LEMMA HandleMessageMaps ==
    ASSUME handle_message
    PROVE  Device!handle_message
<1> USE DEF claimVars, Device!claimVars, taskVars, Device!taskVars, queueVars, Device!queueVars,
            storeVars, Device!storeVars
<1>0. event_queue' = event_queue
  BY DEF handle_message, get_uid, check_uid, check_sender, owner_left, unhandled, Reject, Store, delete_enrolled_fingers,
         delete_enrolled_finger, delete_enrolled_fingers2, claim, Claimed, release, enroll_verify_start,
         enroll_verify_stop, name_owner_changed
<1>1. Reject => Device!Reject
  BY DEF Reject, Device!Reject
<1>2. \A stored : Store(stored) => Device!Store(stored)
  BY DEF Store, Device!Store
<1>3. ASSUME NEW sender, NEW user, claim(sender, user) PROVE Device!claim(sender, user)
  BY <1>1, <1>3 DEF claim, Device!claim, Claimed, Device!Claimed, FreeListeners, Device!FreeListeners
<1>4. ASSUME release PROVE Device!release
  BY <1>4 DEF release, Device!release, Resume, Device!Resume, Unclaim, Device!Unclaim
<1>5. ASSUME NEW method, NEW finger, enroll_verify_start(method, finger) PROVE Device!enroll_verify_start(method, finger)
  BY <1>1, <1>5 DEF enroll_verify_start, Device!enroll_verify_start, StartRefused, Device!StartRefused,
                    FreeWorkers, Device!FreeWorkers
<1>6. \A wk, pend : send_enroll_stop(wk, pend) => Device!send_enroll_stop(wk, pend)
  BY DEF send_enroll_stop, Device!send_enroll_stop, PutImage, Device!PutImage, Got, Device!Got
<1>7. ASSUME enroll_verify_stop PROVE Device!enroll_verify_stop
  BY <1>1, <1>6, <1>7 DEF enroll_verify_stop, Device!enroll_verify_stop
<1>8. ASSUME name_owner_changed PROVE Device!name_owner_changed
  BY <1>6, <1>8 DEF name_owner_changed, Device!name_owner_changed, Finish, Device!Finish, NoWorker, Device!NoWorker,
                    Unclaim, Device!Unclaim
<1>9. ASSUME get_uid PROVE Device!get_uid
  BY <1>1, <1>9 DEF get_uid, Device!get_uid, UidMethods, Device!UidMethods
<1>10. ASSUME check_uid PROVE Device!check_uid
  BY <1>1, <1>2, <1>3, <1>10 DEF check_uid, Device!check_uid, UidAnswered, Device!UidAnswered, Denied, Device!Denied,
         delete_enrolled_fingers, Device!delete_enrolled_fingers
<1>11. ASSUME check_sender PROVE Device!check_sender
  BY <1>1, <1>2, <1>4, <1>5, <1>7, <1>11 DEF check_sender, Device!check_sender, NotOwner, Device!NotOwner,
         ClaimMethods, Device!ClaimMethods, StartMethods, Device!StartMethods, StopMethods, Device!StopMethods,
         DeleteMethods, Device!DeleteMethods, delete_enrolled_finger, Device!delete_enrolled_finger,
         delete_enrolled_fingers2, Device!delete_enrolled_fingers2
<1>12. ASSUME owner_left PROVE Device!owner_left
  BY <1>8, <1>12 DEF owner_left, Device!owner_left
<1>13. ASSUME unhandled PROVE Device!unhandled
  BY <1>1, <1>13 DEF unhandled, Device!unhandled
<1> QED
  BY <1>9, <1>10, <1>11, <1>12, <1>13 DEF handle_message, Device!handle_message, boundVars, Device!boundVars

-------------------------------------------------------------------------------
\* The steps of the sensor's task.  What FprintDevice calls an event of the sensor
\* is one that the sensor has reported and that is not in the event queue any more.

LinkInv ==
    /\ event_queue \in Seq(QueueEvent) /\ reported \in Seq({"FingerDown", "Image"})
    /\ events \in Nat /\ reports \in Nat /\ reports <= MaxEvents
    /\ events + Len(event_queue) <= reports + Len(Orders(event_queue))

LEMMA SensorSendsMaps ==
    ASSUME LinkInv, SensorSends
    PROVE  UNCHANGED Device!vars /\ LinkInv'
<1>1. PICK e \in {"finger_down", "image"} : Control!Report(e)
  BY DEF SensorSends
<1>2. /\ event_queue' = Append(event_queue, e) /\ reports' = reports + 1 /\ reports < MaxEvents
      /\ reported' = reported
  BY <1>1 DEF Control!Report
<1>3. e \notin SensorEvent /\ e \in QueueEvent /\ event_queue \in Seq(QueueEvent)
  BY DEF SensorEvent, QueueEvent, LinkInv
<1>4. Orders(event_queue)' = Orders(event_queue)
  BY <1>2, <1>3, OrdersAppend
<1>5. UNCHANGED Device!vars
  BY <1>4 DEF SensorSends, deviceRest, Device!vars, busVars, Device!busVars, deviceVars, Device!deviceVars,
              claimVars, Device!claimVars, queueVars, Device!queueVars, storeVars, Device!storeVars, Device!boundVars
<1>6. Len(Orders(event_queue)) \in Nat
  BY <1>3, OrdersType
<1>7. LinkInv'
  <2>1. Len(Append(event_queue, e)) = Len(event_queue) + 1 /\ Len(event_queue) \in Nat
        /\ Append(event_queue, e) \in Seq(QueueEvent)
    BY <1>3
  <2>2. events' = events
    BY DEF SensorSends
  <2>3. MaxEvents \in Nat
    BY DeviceAssumption
  <2> QED
    BY <1>2, <1>4, <1>6, <2>1, <2>2, <2>3 DEF LinkInv
<1> QED
  BY <1>5, <1>7

LEMMA TransferMaps ==
    ASSUME LinkInv, TransferDone
    PROVE  UNCHANGED Device!vars /\ LinkInv'
<1>1. UNCHANGED <<event_queue, reported, events, reports>>
  BY DEF TransferDone, Control!TransferDone, Control!delay_get_image, Control!queueVars
<1>2. UNCHANGED Device!vars
  BY <1>1 DEF TransferDone, deviceRest, Device!vars, busVars, Device!busVars, deviceVars, Device!deviceVars,
              claimVars, Device!claimVars, queueVars, Device!queueVars, storeVars, Device!storeVars, Device!boundVars
<1> QED
  BY <1>1, <1>2 DEF LinkInv

LEMMA HandleEventMaps ==
    ASSUME LinkInv, handle_event
    PROVE  /\ LinkInv'
           /\ \/ Device!ControlTakes
              \/ \E e \in {"FingerDown", "Image"} : Device!SensorReports(e)
              \/ UNCHANGED Device!vars
<1> DEFINE h == Head(event_queue)
           o == Orders(event_queue)
<1> USE DEF deviceRest, busVars, Device!busVars, deviceVars, Device!deviceVars, claimVars, Device!claimVars,
            queueVars, Device!queueVars, storeVars, Device!storeVars, boundVars, Device!boundVars
<1>1. event_queue \in Seq(QueueEvent) /\ event_queue # <<>> /\ h \in QueueEvent /\ alive /\ ~polling
  BY DEF LinkInv, handle_event, Control!handle_event
<1>2. event_queue' = Tail(event_queue) /\ (Control!Order \/ Control!FingerReport)
  BY <1>1 DEF handle_event, Control!handle_event, Control!TLSReady, QueueEvent, SensorEvent
<1>3. /\ o \in Seq(SensorEvent)
      /\ IF h \in SensorEvent THEN o # <<>> /\ Orders(event_queue)' = Tail(o)
         ELSE Orders(event_queue)' = o /\ Len(o) < Len(event_queue)
  BY <1>1, <1>2, OrdersTail
<1>4. /\ Len(event_queue) \in Nat /\ Len(o) \in Nat /\ Len(Tail(event_queue)) = Len(event_queue) - 1
      /\ Tail(event_queue) \in Seq(QueueEvent)
      /\ o # <<>> => Len(Tail(o)) = Len(o) - 1
  BY <1>1, <1>3
<1>5. reports' = reports /\ events \in Nat /\ reports \in Nat /\ MaxEvents \in Nat /\ reported \in Seq({"FingerDown", "Image"})
      /\ reports <= MaxEvents /\ events + Len(event_queue) <= reports + Len(o)
  BY DeviceAssumption DEF handle_event, LinkInv
<1>6. ASSUME UNCHANGED <<events, reported>> PROVE LinkInv'
  BY <1>2, <1>3, <1>4, <1>5, <1>6 DEF LinkInv
<1>7. CASE h \in SensorEvent
  <2>1. reported' = reported
    BY <1>2, <1>7 DEF Control!Order, Control!FingerReport, SensorEvent
  <2>2. UNCHANGED <<workers, queueVars, events>>
    BY <2>1 DEF handle_event, Delivered
  <2>3. Device!ControlTakes
    BY <1>1, <1>3, <1>7, <2>2 DEF handle_event, Device!ControlTakes
  <2> QED
    BY <1>6, <2>1, <2>2, <2>3
<1>8. CASE h \notin SensorEvent /\ reported' = reported
  <2>1. UNCHANGED <<workers, queueVars, events>>
    BY <1>8 DEF handle_event, Delivered
  <2>2. UNCHANGED Device!vars
    BY <1>3, <1>8, <2>1 DEF handle_event, Device!vars
  <2> QED
    BY <1>6, <1>8, <2>1, <2>2
<1>9. CASE h \notin SensorEvent /\ reported' # reported
  <2>1. PICK e \in {"FingerDown", "Image"} : reported' = Append(reported, e)
    BY <1>2, <1>9 DEF Control!Order, Control!FingerReport, Control!put_image
  <2>2. reported'[Len(reported')] = e /\ reported' \in Seq({"FingerDown", "Image"})
    BY <1>5, <2>1
  <2>3. PutImage(workers, pending_get, e) /\ events' = events + 1
    BY <1>9, <2>2 DEF handle_event, Delivered
  <2>4. events < MaxEvents
    BY <1>3, <1>4, <1>5, <1>9
  <2>5. Device!PutImage(workers, pending_get, e)
    BY <2>3 DEF PutImage, Device!PutImage, Got, Device!Got
  <2>6. Device!SensorReports(e)
    BY <1>1, <1>3, <1>9, <2>3, <2>4, <2>5 DEF handle_event, Device!SensorReports
  <2>7. LinkInv'
    BY <1>2, <1>3, <1>4, <1>5, <1>9, <2>2, <2>3 DEF LinkInv
  <2> QED
    BY <2>6, <2>7
<1> QED
  BY <1>7, <1>8, <1>9

-------------------------------------------------------------------------------
\* A step of the device object, the bus or a task adds at most an order to the
\* event queue and leaves the reports alone.
LEMMA DeviceLink ==
    ASSUME LinkInv, DeviceStep \/ (Poll /\ UNCHANGED controlVars) \/ UNCHANGED systemVars
    PROVE  LinkInv'
<1>1. UNCHANGED <<reported, reports, events>>
  BY DEF DeviceStep, controlVars, systemVars, vars, Send, Disconnect, OtherSignal, BusAnswer, LookupTimesOut, Dispatch, Poll,
         handle_message, ListenerStep, WorkerStep, boundVars
<1>2. event_queue' = event_queue \/ \E e \in SensorEvent : Put(e)
  <2>1. ASSUME handle_message PROVE event_queue' = event_queue
    BY <2>1 DEF handle_message, get_uid, check_uid, check_sender, owner_left, unhandled, Reject, Store, delete_enrolled_fingers,
         delete_enrolled_finger, delete_enrolled_fingers2, claim, Claimed, release, enroll_verify_start,
         enroll_verify_stop, name_owner_changed, taskVars
  <2>2. ASSUME NEW w \in Worker, WorkerStep(w) PROVE event_queue' = event_queue \/ \E e \in SensorEvent : Put(e)
    BY <2>2 DEF WorkerStep, enroll, parse_image, FingerDown, VerifyMatch, Retry, StagePassed, EnrollCompleted,
                Stopped, Cancelled, WrongSize, GetPolled, End, SensorEvent
  <2> QED
    BY <2>1, <2>2 DEF DeviceStep, systemVars, vars, Send, Disconnect, OtherSignal, BusAnswer, LookupTimesOut,
                      Dispatch, Poll, ListenerStep
<1>3. CASE event_queue' = event_queue
  BY <1>1, <1>3 DEF LinkInv
<1>4. ASSUME NEW e \in SensorEvent, Put(e) PROVE LinkInv'
  <2> DEFINE o == Orders(event_queue)
  <2>1. event_queue \in Seq(QueueEvent) /\ e \in QueueEvent /\ event_queue' = Append(event_queue, e)
    BY <1>4 DEF LinkInv, QueueEvent, Put
  <2>2. Orders(event_queue)' = Append(o, e)
    BY <1>4, <2>1, OrdersAppend
  <2>3. o \in Seq(SensorEvent)
    BY <2>1, OrdersType
  <2>4. Len(Append(o, e)) = Len(o) + 1 /\ Len(o) \in Nat /\ Len(Append(event_queue, e)) = Len(event_queue) + 1
        /\ Append(event_queue, e) \in Seq(QueueEvent) /\ Len(event_queue) \in Nat
    BY <2>1, <2>3
  <2> QED
    BY <1>1, <2>1, <2>2, <2>4 DEF LinkInv
<1> QED
  BY <1>2, <1>3, <1>4

LEMMA DeviceMaps ==
    ASSUME LinkInv, DeviceStep
    PROVE  Device!Next
<1>1. event_queue \in Seq(QueueEvent)
  BY DEF LinkInv
<1>2. ASSUME NEW c \in Client, Send(c) \/ Disconnect(c) PROVE Device!Send(c) \/ Device!Disconnect(c)
  BY <1>2, SendMaps, DisconnectMaps
<1>3. ASSUME OtherSignal \/ BusAnswer \/ LookupTimesOut \/ Dispatch
      PROVE  Device!OtherSignal \/ Device!BusAnswer \/ Device!LookupTimesOut \/ Device!Dispatch
  BY <1>3, SignalMaps, BusAnswerMaps, LookupMaps, DispatchMaps
<1>4. ASSUME NEW l \in Listener, ListenerStep(l) PROVE Device!ListenerStep(l)
  BY <1>4, ListenerStepMaps
<1>5. ASSUME NEW w \in Worker, WorkerStep(w) PROVE Device!WorkerStep(w)
  BY <1>1, <1>5, WorkerStepMaps
<1>6. ASSUME handle_message PROVE Device!handle_message
  BY <1>6, HandleMessageMaps
<1> QED
  BY <1>2, <1>3, <1>4, <1>5, <1>6 DEF DeviceStep, Device!Next

LEMMA SystemStep ==
    ASSUME LinkInv, [SystemNext]_systemVars
    PROVE  LinkInv' /\ [Device!Next]_(Device!vars)
<1>1. CASE SystemPoll
  BY <1>1, DeviceLink, PollMaps DEF SystemPoll, Device!Next
<1>2. CASE DeviceStep
  BY <1>2, DeviceLink, DeviceMaps
<1>3. CASE SensorSends
  BY <1>3, SensorSendsMaps
<1>4. CASE TransferDone
  BY <1>4, TransferMaps
<1>5. CASE handle_event
  BY <1>5, HandleEventMaps DEF Device!Next
<1>6. CASE UNCHANGED systemVars
  <2>1. UNCHANGED Device!vars
    BY <1>6 DEF systemVars, vars, Device!vars, busVars, Device!busVars, deviceVars, Device!deviceVars,
              claimVars, Device!claimVars, queueVars, Device!queueVars, storeVars, Device!storeVars,
              boundVars, Device!boundVars
  <2> QED
    BY <1>6, <2>1, DeviceLink
<1> QED
  BY <1>1, <1>2, <1>3, <1>4, <1>5, <1>6 DEF SystemNext

LEMMA SystemStarts ==
    ASSUME SystemInit
    PROVE  LinkInv /\ Device!Init
<1>1. Orders(event_queue) = <<>>
  BY OrdersEmpty DEF SystemInit, Init
<1>2. LinkInv
  BY <1>1, DeviceAssumption DEF SystemInit, Init, LinkInv
<1>3. Device!Init
  BY <1>1 DEF SystemInit, Init, Device!Init, NoListener, Device!NoListener, NoWorker, Device!NoWorker
<1> QED
  BY <1>2, <1>3

\* The device object, its tasks and the sensor's task, each with the queues it
\* really has, do nothing that FprintDevice does not allow: for any numbers of
\* clients, tasks, calls and reports its invariants and step properties hold in
\* the composed system.
THEOREM SystemImplementsDevice == SystemSpec => ImplementsDevice
<1>1. SystemInit => LinkInv /\ Device!Init
  BY SystemStarts
<1>2. LinkInv /\ [SystemNext]_systemVars => LinkInv' /\ [Device!Next]_(Device!vars)
  BY SystemStep
<1> QED
  BY <1>1, <1>2, PTL DEF SystemSpec, ImplementsDevice, Device!Spec

-------------------------------------------------------------------------------
\* What is proved of FprintDevice, of the system.  Proved has the definitions of
\* Device and the theorems about them, with the same meaning of event_queue.
Proved == INSTANCE FprintClaim_proofs WITH event_queue <- Orders(event_queue)

LEMMA ProvedAssumption == Proved!DeviceAssumption
BY DeviceAssumption DEF UidMethods, Proved!UidMethods, ClaimMethods, Proved!ClaimMethods,
   StartMethods, Proved!StartMethods, StopMethods, Proved!StopMethods,
   DeleteMethods, Proved!DeleteMethods

\* Device and Proved are two instances of the same definitions: once all of them are
\* expanded both sides are one formula.
LEMMA ProvedInit == Device!Init => Proved!Init
BY DEF Device!Init, Proved!Init, Device!NoListener, Proved!NoListener,
   Device!NoWorker, Proved!NoWorker

LEMMA ProvedVars == UNCHANGED Device!vars => UNCHANGED Proved!vars
BY DEF Device!busVars, Proved!busVars, Device!claimVars, Proved!claimVars, Device!deviceVars,
   Proved!deviceVars, Device!queueVars, Proved!queueVars, Device!storeVars, Proved!storeVars,
   Device!boundVars, Proved!boundVars, Device!vars, Proved!vars

LEMMA ProvedNext == Device!Next => Proved!Next
BY Zenon DEF
   Device!UidMethods, Proved!UidMethods, Device!StartMethods, Proved!StartMethods,
   Device!StopMethods, Proved!StopMethods, Device!DeleteMethods, Proved!DeleteMethods,
   Device!ClaimMethods, Proved!ClaimMethods, Device!busVars, Proved!busVars, Device!claimVars,
   Proved!claimVars, Device!deviceVars, Proved!deviceVars, Device!queueVars, Proved!queueVars,
   Device!storeVars, Proved!storeVars, Device!boundVars, Proved!boundVars, Device!vars,
   Proved!vars, Device!FingerArg, Proved!FingerArg, Device!FingerMethods, Proved!FingerMethods,
   Device!ArgOf, Proved!ArgOf, Device!Signal, Proved!Signal, Device!NoWorker, Proved!NoWorker,
   Device!FreeListeners, Proved!FreeListeners, Device!FreeWorkers, Proved!FreeWorkers,
   Device!Resume, Proved!Resume, Device!Finish, Proved!Finish, Device!Die, Proved!Die,
   Device!Got, Proved!Got, Device!PutImage, Proved!PutImage, Device!CancelGetters,
   Proved!CancelGetters, Device!DeviceReady, Proved!DeviceReady, Device!AnyReady,
   Proved!AnyReady, Device!Poll, Proved!Poll, Device!Outstanding, Proved!Outstanding,
   Device!Send, Proved!Send, Device!Disconnect, Proved!Disconnect, Device!OtherSignal,
   Proved!OtherSignal, Device!BusAnswer, Proved!BusAnswer, Device!LookupTimesOut,
   Proved!LookupTimesOut, Device!FilterSignal, Proved!FilterSignal, Device!Filtering,
   Proved!Filtering, Device!Dispatch, Proved!Dispatch, Device!Ask, Proved!Ask, Device!Await,
   Proved!Await, Device!add_match, Proved!add_match, Device!post, Proved!post, Device!exit,
   Proved!exit, Device!return, Proved!return, Device!PendingCallPolled,
   Proved!PendingCallPolled, Device!ListenerStep, Proved!ListenerStep, Device!Put, Proved!Put,
   Device!wait_image, Proved!wait_image, Device!reset, Proved!reset, Device!enroll,
   Proved!enroll, Device!End, Proved!End, Device!Commit, Proved!Commit, Device!Candidates,
   Proved!Candidates, Device!EnrollImage, Proved!EnrollImage, Device!FingerDown,
   Proved!FingerDown, Device!VerifyMatch, Proved!VerifyMatch, Device!Retry, Proved!Retry,
   Device!StagePassed, Proved!StagePassed, Device!EnrollCompleted, Proved!EnrollCompleted,
   Device!Stopped, Proved!Stopped, Device!Cancelled, Proved!Cancelled, Device!WrongSize,
   Proved!WrongSize, Device!parse_image, Proved!parse_image, Device!GetPolled, Proved!GetPolled,
   Device!WorkerStep, Proved!WorkerStep, Device!taskVars, Proved!taskVars, Device!Reject,
   Proved!Reject, Device!Store, Proved!Store, Device!delete_enrolled_fingers,
   Proved!delete_enrolled_fingers, Device!delete_enrolled_fingers2,
   Proved!delete_enrolled_fingers2, Device!delete_enrolled_finger,
   Proved!delete_enrolled_finger, Device!Claimed, Proved!Claimed, Device!claim, Proved!claim,
   Device!Unclaim, Proved!Unclaim, Device!release, Proved!release, Device!StartRefused,
   Proved!StartRefused, Device!enroll_verify_start, Proved!enroll_verify_start,
   Device!send_enroll_stop, Proved!send_enroll_stop, Device!enroll_verify_stop,
   Proved!enroll_verify_stop, Device!name_owner_changed, Proved!name_owner_changed,
   Device!get_uid, Proved!get_uid, Device!UidAnswered, Proved!UidAnswered, Device!Denied,
   Proved!Denied, Device!check_uid, Proved!check_uid, Device!NotOwner, Proved!NotOwner,
   Device!check_sender, Proved!check_sender, Device!owner_left, Proved!owner_left,
   Device!unhandled, Proved!unhandled, Device!handle_message, Proved!handle_message,
   Device!SensorReports, Proved!SensorReports, Device!ControlTakes, Proved!ControlTakes,
   Device!Next, Proved!Next

LEMMA SystemProved == SystemSpec => Proved!Spec
<1>1. [Device!Next]_(Device!vars) => [Proved!Next]_(Proved!vars)
  BY ProvedNext, ProvedVars
<1> QED
  BY <1>1, ProvedInit, SystemImplementsDevice, PTL DEF ImplementsDevice, Device!Spec, Proved!Spec

\* With the real task of the sensor behind the queues: the task of a session works
\* for the account that holds the claim, only started tasks without an event wait
\* for one, and no stop event of an earlier session reaches a running task.
THEOREM SystemSessions == SystemSpec => [](SessionOwned /\ GettersLive /\ NoStaleStop)
<1>1. Proved!SessionOwned /\ Proved!GettersLive /\ Proved!NoStaleStop
      => SessionOwned /\ GettersLive /\ NoStaleStop
  BY DEF SessionOwned, Proved!SessionOwned, GettersLive, Proved!GettersLive,
     NoStaleStop, Proved!NoStaleStop
<1> QED
  BY <1>1, SystemProved, ProvedAssumption, Proved!SessionAlwaysOwned, Proved!GettersAlwaysLive,
     Proved!NeverStaleStop, PTL

\* Nothing that the sensor does, at whatever pace it reports and its task runs,
\* takes the rule of a sleeping listener from the bus or doubles the notice of the
\* owner's departure; and only those hold a claim who may.
THEOREM SystemClaims == SystemSpec => [](RuleInstalled /\ GoneOnce /\ ClaimEntitled)
<1>1. Proved!RuleInstalled /\ Proved!GoneOnce /\ Proved!ClaimEntitled
      => RuleInstalled /\ GoneOnce /\ ClaimEntitled
  BY DEF Cardinality, Proved!Cardinality, RuleInstalled, Proved!RuleInstalled,
     GoneOnce, Proved!GoneOnce, ClaimEntitled, Proved!ClaimEntitled, MayName, Proved!MayName
<1> QED
  BY <1>1, SystemProved, ProvedAssumption, Proved!RuleAlwaysInstalled,
     Proved!GoneAtMostOnce, Proved!ClaimAlwaysEntitled, PTL

\* In the composed system too a claim is watched until the filter takes a signal
\* that is no NameOwnerChanged.
THEOREM SystemWatched == SystemSpec => ClaimWatched
<1> DEFINE A == claimed' =>
         \/ Watched'
         \/ claimed /\ ~Watched
         \/ wire # <<>> /\ Head(wire).kind = "Signal" /\ wire' = Tail(wire)
           B == claimed' =>
         \/ Proved!Watched'
         \/ claimed /\ ~Proved!Watched
         \/ wire # <<>> /\ Head(wire).kind = "Signal" /\ wire' = Tail(wire)
<1>1. [B]_(Proved!vars) => [A]_vars
  <2>1. (Watched <=> Proved!Watched) /\ (Watched' <=> Proved!Watched')
    BY DEF Watched, Proved!Watched, Watching, Proved!Watching, Refused, Proved!Refused
  <2>2. B => A
    BY <2>1
  <2>3. UNCHANGED Proved!vars => A
    <3> HAVE UNCHANGED Proved!vars
    <3>1. Watched' <=> Watched
      BY DEF Proved!vars, Proved!busVars, Proved!deviceVars, Proved!claimVars, Watched, Watching, Refused
    <3>2. claimed' = claimed
      BY DEF Proved!vars, Proved!deviceVars, Proved!claimVars
    <3> QED
      BY <3>1, <3>2
  <2> QED
    BY <2>2, <2>3
<1> QED
  BY <1>1, SystemProved, ProvedAssumption, Proved!ClaimAlwaysWatched, PTL DEF ClaimWatched, Proved!ClaimWatched

\* Events from the real chains of transfers wake at most one collecting task when
\* clients are polite.
THEOREM SystemTasks == SystemSpec => []OneCollector
<1>1. Proved!OneCollector => OneCollector
  BY DEF OneCollector, Proved!OneCollector, Cardinality, Proved!Cardinality
<1> QED
  BY <1>1, SystemProved, ProvedAssumption, Proved!OneCollectorAlways, PTL

\* The sensor's reports and transfers add no way for the daemon to die: it dies of
\* a task that Release has let go, of a second signal to a listener that leaves or
\* of an image of another size.
THEOREM SystemDies == SystemSpec => DiesOnly
<1> DEFINE A == ~alive' =>
         \/ ~alive
         \/ \E l \in Listener :
               /\ listeners[l].ready /\ listeners[l].reply = "none"
               /\ \/ listeners[l].pc = "post" /\ l # name_owner_changed_task
                  \/ listeners[l].pc = "return"
         \/ \E w \in pending_get : workers[w].ready /\ w # enroll_verify_task
         \/ \E w \in Worker : workers[w].ready /\ workers[w].got = "Image"
<1>1. [A]_(Proved!vars) => [A]_vars
  BY DEF Proved!vars, Proved!busVars, Proved!deviceVars, Proved!claimVars, Proved!queueVars,
     Proved!storeVars, Proved!boundVars
<1> QED
  BY <1>1, SystemProved, ProvedAssumption, Proved!DiesOnlyLetGo, PTL DEF DiesOnly, Proved!DiesOnly

\* A claim of the composed system ends by its owner's Release or by a
\* NameOwnerChanged signal only.
THEOREM SystemClaimEnds == SystemSpec => ClaimEnds
<1> DEFINE A == claimed =>
         \/ claimed' /\ claimed_sender' = claimed_sender /\ claimed_user' = claimed_user
         \/ /\ messages # <<>> /\ serving = <<>>
            /\ LET m == Head(messages) IN
               \/ m.kind = "call" /\ m.method = "Release" /\ m.sender = claimed_sender
               \/ m.kind = "NameOwnerChanged" /\ (m.name # None => ~connected[m.name])
<1>1. [A]_(Proved!vars) => [A]_vars
  BY DEF Proved!vars, Proved!busVars, Proved!deviceVars, Proved!claimVars, Proved!queueVars,
     Proved!storeVars, Proved!boundVars
<1> QED
  BY <1>1, SystemProved, ProvedAssumption, Proved!ClaimOnlyEnds, PTL DEF ClaimEnds, Proved!ClaimEnds

\* In the composed system too a user's prints change, in memory and in the file, only
\* by a delete call of someone who may name the user or by a task of this user.
THEOREM SystemPrints == SystemSpec => PrintsChange
<1> DEFINE A == \A user \in User :
         prints'[user] # prints[user] \/ disk'[user] # disk[user] =>
            /\ disk'[user] = prints'[user]
            /\ \/ /\ prints'[user] \subseteq prints[user]
                  /\ \E c \in Client : ServedBy(c) /\ MayName(c, user)
               \/ \E w \in Worker :
                     /\ workers[w].user = user /\ ~workers[w].verify
                     /\ prints'[user] = prints[user] \cup {workers[w].finger}
           B == \A user \in User :
         prints'[user] # prints[user] \/ disk'[user] # disk[user] =>
            /\ disk'[user] = prints'[user]
            /\ \/ /\ prints'[user] \subseteq prints[user]
                  /\ \E c \in Client : Proved!ServedBy(c) /\ Proved!MayName(c, user)
               \/ \E w \in Worker :
                     /\ workers[w].user = user /\ ~workers[w].verify
                     /\ prints'[user] = prints[user] \cup {workers[w].finger}
<1>1. [B]_(Proved!vars) => [A]_vars
  <2>1. B => A
    BY DEF ServedBy, Proved!ServedBy, MayName, Proved!MayName
  <2>2. UNCHANGED Proved!vars => A
    BY DEF Proved!vars, Proved!busVars, Proved!deviceVars, Proved!claimVars, Proved!queueVars,
       Proved!storeVars, Proved!boundVars
  <2> QED
    BY <2>1, <2>2
<1> QED
  BY <1>1, SystemProved, ProvedAssumption, Proved!PrintsOnlyChange, PTL
     DEF PrintsChange, Proved!PrintsChange

-------------------------------------------------------------------------------
\* The sensor's task in the system.

\* After TLS_Ready the task stays in the event loop and its chains: it never
\* initialises the sensor again, and what the chains leave alone keeps its value.
EventLoop == {"get_event", "stop_sensor", "fpc_abort", "end_session", "start_sensor",
              "delay_get_image", "get_image"}
Served ==
    /\ control_pc \in EventLoop
    /\ control_pc \in {"get_event", "delay_get_image", "get_image"} => armed = 17
    /\ _ready /\ keyed /\ tls = "up" /\ controls = 1 /\ _attached /\ loaded
    /\ device /\ _running /\ _devices = {0}

LEMMA TransferServed ==
    ASSUME Served, TransferDone
    PROVE  Served'
<1>1. CASE Control!TransferDone
  <2>1. DOMAIN Control!Chain = {"indicate_s_state", "get_state", "init", "get_tls_key", "tls_init",
          "stop_sensor", "fpc_abort", "end_session", "start_sensor", "get_image"}
    BY DEF Control!Chain
  <2>2. control_pc \in {"stop_sensor", "fpc_abort", "end_session", "start_sensor", "get_image"}
    BY <1>1, <2>1 DEF Served, EventLoop, Control!TransferDone
  <2>3. /\ control_pc = "stop_sensor" => control_pc' = "fpc_abort"
        /\ control_pc = "fpc_abort" => control_pc' = "end_session"
        /\ control_pc = "end_session" => control_pc' = "start_sensor"
        /\ control_pc \in {"start_sensor", "get_image"} => control_pc' = "get_event"
    BY <1>1 DEF Control!TransferDone, Control!After, Control!Chain
  <2>4. /\ control_pc = "start_sensor" => armed' = 17
        /\ control_pc = "get_image" => armed' = armed
    BY <1>1 DEF Control!TransferDone, Control!Executed
  <2>5. keyed' /\ tls' = "up"
    BY <1>1, Zenon DEF Served, Control!TransferDone, Control!Executed, Control!parse_tls_key
  <2>6. UNCHANGED <<_ready, controls, _attached, loaded, device, _running, _devices>>
    BY <1>1 DEF Control!TransferDone, Control!managerVars
  <2> QED
    BY <2>2, <2>3, <2>4, <2>5, <2>6 DEF Served, EventLoop
<1>2. CASE Control!delay_get_image
  BY <1>2 DEF Served, EventLoop, Control!delay_get_image, Control!sessionVars, Control!managerVars
<1> QED
  BY <1>1, <1>2 DEF TransferDone

LEMMA EventServed ==
    ASSUME LinkInv, Served, handle_event
    PROVE  Served'
<1>1. event_queue # <<>> /\ Head(event_queue) \in QueueEvent
  BY DEF LinkInv, handle_event, Control!handle_event
<1>2. control_pc = "get_event" /\ armed' = 17 /\ (Control!Order \/ Control!FingerReport)
      /\ UNCHANGED <<controls, _attached, keyed, tls>>
  BY <1>1 DEF Served, handle_event, Control!handle_event, Control!TLSReady, QueueEvent, SensorEvent
<1>3. CASE Control!Order
  BY <1>1, <1>2, <1>3 DEF Served, EventLoop, Control!Order, Control!Ignored, Control!managerVars,
     QueueEvent, SensorEvent
<1>4. CASE Control!FingerReport
  BY <1>2, <1>4 DEF Served, EventLoop, Control!FingerReport, Control!managerVars
<1> QED
  BY <1>2, <1>3, <1>4

\* Between the device object's orders and the sensor's reports, in whatever order
\* the one queue brings them, the task that waits for the next has left the sensor
\* armed; it is the only one, its key was set before TLS, and the device is listed.
THEOREM SystemServing ==
    SystemSpec => [](Control!IdleArmed /\ Control!OneControl /\ Control!KeyBeforeTLS
                     /\ Control!NoEarlyImages /\ Control!DeviceListed)
<1>1. SystemInit => LinkInv /\ Served
  BY SystemStarts DEF SystemInit, Served, EventLoop
<1>2. LinkInv /\ Served /\ [SystemNext]_systemVars => LinkInv' /\ Served'
  <2> SUFFICES ASSUME LinkInv, Served, [SystemNext]_systemVars PROVE Served'
    BY SystemStep
  <2>1. CASE UNCHANGED controlVars
    BY <2>1 DEF Served, controlVars, restVars
  <2>2. CASE SensorSends
    BY <2>2 DEF Served, SensorSends, Control!Report, Control!sessionVars, Control!managerVars
  <2>3. CASE TransferDone
    BY <2>3, TransferServed
  <2>4. CASE handle_event
    BY <2>4, EventServed
  <2> QED
    BY <2>1, <2>2, <2>3, <2>4 DEF SystemNext, SystemPoll, DeviceStep, systemVars
<1>3. Served => /\ Control!IdleArmed /\ Control!OneControl /\ Control!KeyBeforeTLS
                /\ Control!NoEarlyImages /\ Control!DeviceListed
  BY DEF Served, EventLoop, Control!IdleArmed, Control!OneControl, Control!KeyBeforeTLS,
     Control!NoEarlyImages, Control!DeviceListed, Control!get_default_device
<1> QED
  BY <1>1, <1>2, <1>3, PTL DEF SystemSpec

================================================================================
