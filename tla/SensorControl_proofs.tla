-------------------------- MODULE SensorControl_proofs --------------------------
(***************************************************************************)
(* Proofs about the task that runs the sensor: one task at a time, the TLS *)
(* key before TLS, no image before the storage, an armed sensor while the  *)
(* task waits, and a manager that lists the device that runs.              *)
(***************************************************************************)
EXTENDS SensorControl, TLAPS

Steps == {"indicate_s_state", "get_state", "init", "get_tls_key", "tls_init", "stop_sensor", "fpc_abort",
          "end_session", "start_sensor", "get_image", "get_event", "delay_get_image", "none"}
Reports == {"init_result", "dead_pixel", "finger_down", "image", "ignored", "unknown"}
Orders == {"StartSensor", "StopSensor"}
Events == Reports \cup Orders \cup {"TLS_Ready"}

ControlType ==
    /\ alive \in BOOLEAN /\ usable \in BOOLEAN /\ _attached \in BOOLEAN
    /\ spawned \in BOOLEAN /\ initialised \in BOOLEAN /\ keyed \in BOOLEAN
    /\ _ready \in BOOLEAN /\ loaded \in BOOLEAN /\ device \in BOOLEAN /\ _running \in BOOLEAN
    /\ notices \in Seq({"arrived", "left"})
    /\ controls \in Nat /\ pc \in Steps /\ tls \in {"off", "on", "up"}
    /\ event_queue \in Seq(Events) /\ image_queue \in Seq({"FingerDown", "Image"})

\* A session that has not come to spawn() has heard nothing from its sensor;
\* "none" stands for the time between two sessions.
BeforeSpawn == {"none", "indicate_s_state", "get_state", "init"}
FreshSession == pc \in BeforeSpawn => ~spawned /\ tls = "off" /\ event_queue = <<>> /\ ~_ready

\* The key is in place from the transfer that starts TLS on.
KeyInPlace == (pc = "tls_init" \/ tls # "off") => keyed

\* One task, known by its mark and by what it awaits.
TaskMarked == OneControl /\ (pc = "none" <=> controls = 0)

\* TLSReady raises four flags at once, and they fall together.
ReadyTogether ==
    /\ (loaded <=> _ready) /\ (device <=> _ready) /\ (_running <=> _ready)
    /\ IF _ready THEN _devices = {0} /\ _next_id = 1 ELSE _devices = {} /\ _next_id = 0

\* TLS_Ready is queued once a session, and every image behind it.
ReadyAt(i) == i \in DOMAIN event_queue /\ event_queue[i] = "TLS_Ready"
HandshakeFirst ==
    /\ \A i \in DOMAIN event_queue : ReadyAt(i) => ~_ready
    /\ \A i, j \in DOMAIN event_queue : ReadyAt(i) /\ ReadyAt(j) => i = j
    /\ (tls = "up") <=> (_ready \/ \E i \in DOMAIN event_queue : ReadyAt(i))
    /\ \A j \in DOMAIN event_queue :
        event_queue[j] = "image" => _ready \/ \E i \in DOMAIN event_queue : i < j /\ ReadyAt(i)

\* Between two stops the sensor stays armed, whatever is served meanwhile.
Serving == {"get_event", "get_tls_key", "tls_init", "delay_get_image", "get_image"}
ServingArmed == (_ready /\ pc \in Serving) => armed = 17

SensorInv == /\ ControlType /\ FreshSession /\ KeyInPlace /\ TaskMarked /\ ReadyTogether
             /\ HandshakeFirst /\ NoEarlyImages /\ ServingArmed

-------------------------------------------------------------------------------
\* What Append and Tail do to a queue, element by element.
LEMMA AppendAt ==
    ASSUME NEW S, NEW q \in Seq(S), NEW e \in S
    PROVE  /\ Append(q, e) \in Seq(S)
           /\ DOMAIN q \subseteq Nat /\ DOMAIN Append(q, e) = DOMAIN q \cup {Len(q) + 1}
           /\ \A i \in DOMAIN q : i < Len(q) + 1 /\ Append(q, e)[i] = q[i]
           /\ Append(q, e)[Len(q) + 1] = e
  OBVIOUS

LEMMA TailAt ==
    ASSUME NEW S, NEW q \in Seq(S), q # <<>>
    PROVE  /\ Tail(q) \in Seq(S) /\ Head(q) = q[1] /\ 1 \in DOMAIN q /\ Head(q) \in S
           /\ DOMAIN q \subseteq Nat \ {0}
           /\ \A i \in DOMAIN Tail(q) : i + 1 \in DOMAIN q /\ Tail(q)[i] = q[i + 1]
           /\ \A i \in DOMAIN q : i = 1 \/ (i - 1 \in DOMAIN Tail(q) /\ Tail(q)[i - 1] = q[i])
  OBVIOUS

\* Neither value that USBInput::handle_error() looks for is in the category it
\* is looked for in, so that the daemon dies of every failed read.
LEMMA NeverVanished == ASSUME NEW error \in ReadError PROVE ~Vanished(error)
  BY DEF ReadError, Vanished

\* The invariant is about the session: hotplug and the daemon's end leave it alone.
LEMMA SessionUntouched ==
    ASSUME SensorInv, alive' \in BOOLEAN, usable' \in BOOLEAN, notices' \in Seq({"arrived", "left"}),
           UNCHANGED <<_attached, controls, pc, sessionVars, managerVars, queueVars, armed>>
    PROVE  SensorInv'
<1>1. UNCHANGED <<_attached, controls, pc, spawned, initialised, keyed, tls, _ready, loaded, device, _running,
                  _devices, _next_id, event_queue, image_queue, armed>>
  BY DEF sessionVars, managerVars, queueVars
<1>2. ControlType'
  BY <1>1 DEF SensorInv, ControlType
<1>3. HandshakeFirst'
  BY <1>1 DEF SensorInv, HandshakeFirst, ReadyAt
<1>4. /\ FreshSession' /\ KeyInPlace' /\ TaskMarked' /\ ReadyTogether' /\ NoEarlyImages' /\ ServingArmed'
  BY <1>1 DEF SensorInv, FreshSession, KeyInPlace, TaskMarked, OneControl, ReadyTogether, NoEarlyImages, ServingArmed
<1> QED
  BY <1>2, <1>3, <1>4 DEF SensorInv

\* What death leaves behind.
LEMMA DieKept == SensorInv /\ Die => SensorInv'
  BY SessionUntouched DEF Die, SensorInv, ControlType

\* Hotplug notices queue up beside everything else.
LEMMA PlugKept == SensorInv /\ (Plug \/ Unplug) => SensorInv'
<1> SUFFICES ASSUME SensorInv, Plug \/ Unplug PROVE SensorInv'
  OBVIOUS
<1>1. notices' \in Seq({"arrived", "left"})
  BY AppendAt DEF Plug, Unplug, SensorInv, ControlType
<1> QED
  BY <1>1, SessionUntouched DEF Plug, Unplug, SensorInv, ControlType

\* A task is started only where none runs, and starts from nothing.
LEMMA HotplugKept == SensorInv /\ hotplug_callback => SensorInv'
<1> SUFFICES ASSUME SensorInv, hotplug_callback PROVE SensorInv'
  OBVIOUS
<1> USE DEF SensorInv
<1>1. CASE Die
  BY <1>1, DieKept
<1>2. notices # <<>> /\ Tail(notices) \in Seq({"arrived", "left"})
  BY TailAt, Zenon DEF hotplug_callback, ControlType
<1>3. CASE Noticed /\ start /\ notices' = Tail(notices) /\ UNCHANGED <<alive, plugged, managerVars, boundVars>>
  <2>1. controls = 0 /\ pc = "none" /\ ~_ready
    BY <1>3 DEF Noticed, TaskMarked, OneControl, FreshSession, BeforeSpawn, ControlType
  <2>2. ControlType'
    <3>1. /\ alive' = alive /\ _running' = _running /\ usable' = TRUE /\ _attached' = TRUE /\ controls' = 1
          /\ pc' = "indicate_s_state" /\ spawned' = FALSE /\ initialised' = FALSE /\ keyed' = FALSE
          /\ tls' = "off" /\ _ready' = FALSE /\ loaded' = FALSE /\ device' = FALSE
      BY <1>3, <2>1 DEF start, started, managerVars
    <3>2. event_queue' = <<>> /\ image_queue' = <<>>
      BY <1>3 DEF start, started
    <3>3. event_queue' \in Seq(Events) /\ image_queue' \in Seq({"FingerDown", "Image"})
      BY <3>2
    <3>4. controls' \in Nat /\ pc' \in Steps /\ tls' \in {"off", "on", "up"}
      BY <3>1 DEF Steps
    <3> QED
      BY <1>2, <1>3, <3>1, <3>3, <3>4 DEF ControlType
  <2>3. FreshSession' /\ KeyInPlace' /\ NoEarlyImages' /\ ServingArmed'
    BY <1>3 DEF start, started, FreshSession, KeyInPlace, NoEarlyImages, ServingArmed
  <2>4. HandshakeFirst'
    BY <1>3 DEF start, started, HandshakeFirst, ReadyAt
  <2>5. TaskMarked' /\ ReadyTogether'
    BY <1>3, <2>1 DEF start, started, TaskMarked, OneControl, ReadyTogether, managerVars
  <2> QED
    BY <2>2, <2>3, <2>4, <2>5
<1>4. CASE UNCHANGED <<alive, usable, _attached, controls, pc, sessionVars, queueVars, armed, managerVars>>
           /\ notices' = Tail(notices)
  BY <1>2, <1>4, SessionUntouched DEF ControlType
<1> QED
  BY <1>1, <1>3, <1>4, Zenon DEF hotplug_callback

\* A failed transfer of either reader task ends the daemon.
LEMMA ReadersKept == SensorInv /\ (ReadFails \/ WriteFails) => SensorInv'
  <1>1. ReadFails => Die
    BY NeverVanished, Zenon DEF ReadFails, ReadFailed
  <1> QED
    BY <1>1, DieKept DEF WriteFails

\* The member function that runs after each transfer.
LEMMA ChainSteps ==
    /\ DOMAIN Chain = {"indicate_s_state", "get_state", "init", "get_tls_key", "tls_init", "stop_sensor",
                       "fpc_abort", "end_session", "start_sensor", "get_image"}
    /\ Chain["indicate_s_state"] = "get_state" /\ Chain["get_state"] = "init" /\ Chain["init"] = "get_event"
    /\ Chain["get_tls_key"] = "tls_init" /\ Chain["tls_init"] = "get_event"
    /\ Chain["stop_sensor"] = "fpc_abort" /\ Chain["fpc_abort"] = "end_session"
    /\ Chain["end_session"] = "start_sensor" /\ Chain["start_sensor"] = "get_event"
    /\ Chain["get_image"] = "get_event"
  BY DEF Chain

\* A transfer moves the task along its chain: the readers start on the way, the
\* key is in place before TLS, and a stop ends in an armed sensor.
LEMMA TransferKept == SensorInv /\ TransferDone => SensorInv'
<1> SUFFICES ASSUME SensorInv, TransferDone PROVE SensorInv'
  OBVIOUS
<1> USE DEF SensorInv, TransferDone
<1>1. UNCHANGED <<alive, plugged, usable, notices, _attached, controls, _ready, loaded, device, _running,
                  _devices, _next_id, event_queue, image_queue>>
  BY DEF queueVars, managerVars
<1>2. pc' \in Steps \ {"none", "indicate_s_state"} /\ pc # "none"
  BY DEF After, Chain, Steps
<1>3. tls' \in {"off", "on", "up"} /\ (tls' = "up" <=> tls = "up")
  BY DEF ControlType, Executed
<1>4. ControlType'
  BY <1>1, <1>2, <1>3 DEF ControlType, Executed, parse_tls_key
<1>5. FreshSession'
  <2>1. pc' \in BeforeSpawn => pc \in BeforeSpawn /\ pc # "init"
    BY DEF After, Chain, BeforeSpawn
  <2> QED
    BY <1>1, <2>1 DEF FreshSession, Executed, BeforeSpawn, ControlType
<1>6. KeyInPlace'
  <2>1. pc' = "tls_init" => pc = "get_tls_key"
    BY ChainSteps DEF After
  <2>2. tls' # "off" => tls # "off" \/ pc = "tls_init"
    BY DEF Executed
  <2> QED
    BY <2>1, <2>2, Zenon DEF KeyInPlace, parse_tls_key
<1>7. TaskMarked' /\ ReadyTogether' /\ NoEarlyImages'
  BY <1>1, <1>2 DEF TaskMarked, OneControl, ReadyTogether, NoEarlyImages
<1>8. HandshakeFirst'
  BY <1>1, <1>3 DEF HandshakeFirst, ReadyAt
<1>9. ServingArmed'
  <2>1. _ready => pc \notin BeforeSpawn
    BY DEF FreshSession
  <2> QED
    BY <1>1, <2>1 DEF ServingArmed, Serving, BeforeSpawn, Executed, After, Chain
<1> QED
  BY <1>4, <1>5, <1>6, <1>7, <1>8, <1>9

\* Another firmware ends the task before it has touched anything but its mark.
LEMMA MismatchKept == SensorInv /\ FirmwareMismatch => SensorInv'
<1> SUFFICES ASSUME SensorInv, FirmwareMismatch PROVE SensorInv'
  OBVIOUS
<1>1. controls = 1 /\ ~_ready /\ ~device /\ tls = "off"
  BY DEF SensorInv, FirmwareMismatch, TaskMarked, OneControl, FreshSession, BeforeSpawn, ReadyTogether, ControlType
<1>2. ControlType'
  <2>1. /\ UNCHANGED <<alive, usable, notices, initialised, tls, _ready, loaded, _running>>
        /\ _attached' = FALSE /\ controls' = 0 /\ pc' = "none"
        /\ spawned' = FALSE /\ keyed' = FALSE /\ device' = FALSE
    BY <1>1 DEF FirmwareMismatch, Finalize, unregister_device
  <2>2. event_queue' = <<>> /\ image_queue' = <<>>
    BY DEF FirmwareMismatch, Finalize
  <2>3. event_queue' \in Seq(Events) /\ image_queue' \in Seq({"FingerDown", "Image"})
    BY <2>2
  <2>4. controls' \in Nat /\ pc' \in Steps
    BY <2>1 DEF Steps
  <2> QED
    BY <2>1, <2>3, <2>4 DEF SensorInv, ControlType
<1>3. FreshSession' /\ KeyInPlace' /\ NoEarlyImages' /\ ServingArmed'
  BY <1>1 DEF SensorInv, FirmwareMismatch, Finalize, FreshSession, KeyInPlace, NoEarlyImages, ServingArmed
<1>4. HandshakeFirst'
  BY <1>1 DEF FirmwareMismatch, Finalize, HandshakeFirst, ReadyAt
<1>5. TaskMarked' /\ ReadyTogether'
  BY <1>1 DEF SensorInv, FirmwareMismatch, Finalize, unregister_device, TaskMarked, OneControl, ReadyTogether
<1> QED
  BY <1>2, <1>3, <1>4, <1>5 DEF SensorInv

-------------------------------------------------------------------------------
\* A report or an order behind the others: an image comes after the handshake.
LEMMA EventQueued ==
    ASSUME SensorInv, NEW e \in Reports \cup Orders, event_queue' = Append(event_queue, e),
           e = "image" => tls = "up", UNCHANGED <<tls, _ready>>
    PROVE  HandshakeFirst' /\ event_queue' \in Seq(Events)
<1>1. event_queue \in Seq(Events) /\ e \in Events /\ e # "TLS_Ready"
  BY DEF SensorInv, ControlType, Events, Reports, Orders
<1>2. /\ DOMAIN event_queue \subseteq Nat
      /\ DOMAIN event_queue' = DOMAIN event_queue \cup {Len(event_queue) + 1}
      /\ \A i \in DOMAIN event_queue : i < Len(event_queue) + 1 /\ event_queue'[i] = event_queue[i]
      /\ event_queue'[Len(event_queue) + 1] = e /\ event_queue' \in Seq(Events)
  BY <1>1, AppendAt
<1>3. \A i \in DOMAIN event_queue' : ReadyAt(i)' <=> ReadyAt(i)
  BY <1>1, <1>2 DEF ReadyAt
<1>4. \A i : ReadyAt(i) => i \in DOMAIN event_queue
  BY DEF ReadyAt
<1>5. ASSUME NEW j \in DOMAIN event_queue', event_queue'[j] = "image"
      PROVE  _ready \/ \E i \in DOMAIN event_queue' : i < j /\ ReadyAt(i)'
  <2>1. CASE j \in DOMAIN event_queue
    BY <1>2, <1>3, <1>5, <2>1 DEF SensorInv, HandshakeFirst
  <2>2. CASE j = Len(event_queue) + 1
    BY <1>2, <1>3, <1>5, <2>2 DEF SensorInv, HandshakeFirst
  <2> QED
    BY <1>2, <2>1, <2>2
<1> QED
  BY <1>2, <1>3, <1>4, <1>5 DEF SensorInv, HandshakeFirst

LEMMA ReportKept == ASSUME SensorInv, NEW e \in Reports, Report(e) PROVE SensorInv'
<1>1. HandshakeFirst' /\ event_queue' \in Seq(Events)
  BY EventQueued DEF Report, sessionVars
<1>2. UNCHANGED <<alive, plugged, usable, notices, _attached, controls, pc, sessionVars, image_queue, managerVars, armed>>
  BY DEF Report
<1>3. pc \notin BeforeSpawn
  BY DEF Report, SensorInv, FreshSession
<1> QED
  BY <1>1, <1>2, <1>3 DEF SensorInv, ControlType, FreshSession, KeyInPlace, TaskMarked, OneControl, ReadyTogether,
     NoEarlyImages, ServingArmed, sessionVars, managerVars

LEMMA OrderKept == ASSUME SensorInv, NEW e \in Orders, PutOrder(e) PROVE SensorInv'
<1>1. HandshakeFirst' /\ event_queue' \in Seq(Events)
  BY EventQueued DEF PutOrder, sessionVars, Orders
<1>2. UNCHANGED <<alive, plugged, usable, notices, _attached, controls, pc, sessionVars, image_queue, managerVars, armed>>
  BY DEF PutOrder
<1>3. pc \notin BeforeSpawn
  BY DEF PutOrder, SensorInv, FreshSession, ReadyTogether
<1> QED
  BY <1>1, <1>2, <1>3 DEF SensorInv, ControlType, FreshSession, KeyInPlace, TaskMarked, OneControl, ReadyTogether,
     NoEarlyImages, ServingArmed, sessionVars, managerVars

\* The handshake is done once a session, before the task knows.
LEMMA AcceptKept == SensorInv /\ accept => SensorInv'
<1> SUFFICES ASSUME SensorInv, accept PROVE SensorInv'
  OBVIOUS
<1>1. event_queue \in Seq(Events) /\ "TLS_Ready" \in Events
  BY DEF SensorInv, ControlType, Events
<1>2. /\ DOMAIN event_queue \subseteq Nat
      /\ DOMAIN event_queue' = DOMAIN event_queue \cup {Len(event_queue) + 1}
      /\ \A i \in DOMAIN event_queue : i < Len(event_queue) + 1 /\ event_queue'[i] = event_queue[i]
      /\ event_queue'[Len(event_queue) + 1] = "TLS_Ready" /\ event_queue' \in Seq(Events)
  BY <1>1, AppendAt DEF accept
<1>3. ~_ready /\ (\A i \in DOMAIN event_queue : ~ReadyAt(i)) /\ pc \notin BeforeSpawn
  BY DEF SensorInv, HandshakeFirst, FreshSession, accept
<1>4. \A i \in DOMAIN event_queue' : ReadyAt(i)' <=> i = Len(event_queue) + 1
  BY <1>2, <1>3 DEF ReadyAt
<1>5. HandshakeFirst'
  <2>1. \A j \in DOMAIN event_queue' : event_queue'[j] # "image"
    BY <1>2, <1>3 DEF SensorInv, HandshakeFirst
  <2> QED
    BY <1>2, <1>3, <1>4, <2>1 DEF HandshakeFirst, accept
<1> QED
  BY <1>2, <1>3, <1>5 DEF SensorInv, accept, ControlType, FreshSession, KeyInPlace, TaskMarked, OneControl,
     ReadyTogether, NoEarlyImages, ServingArmed, managerVars

-------------------------------------------------------------------------------
\* Taking the first event: what it leaves is in the same order.
LEMMA EventTaken ==
    ASSUME SensorInv, event_queue # <<>>, event_queue' = Tail(event_queue), tls' = tls,
           _ready' = (_ready \/ Head(event_queue) = "TLS_Ready")
    PROVE  HandshakeFirst' /\ event_queue' \in Seq(Events)
<1>1. /\ event_queue' \in Seq(Events) /\ Head(event_queue) = event_queue[1] /\ 1 \in DOMAIN event_queue
      /\ DOMAIN event_queue \subseteq Nat \ {0} /\ DOMAIN event_queue' \subseteq Nat
      /\ \A i \in DOMAIN event_queue' : i + 1 \in DOMAIN event_queue /\ event_queue'[i] = event_queue[i + 1]
      /\ \A i \in DOMAIN event_queue : i = 1 \/ (i - 1 \in DOMAIN event_queue' /\ event_queue'[i - 1] = event_queue[i])
  BY TailAt DEF SensorInv, ControlType
<1>2. \A i \in DOMAIN event_queue' : ReadyAt(i)' <=> ReadyAt(i + 1)
  BY <1>1 DEF ReadyAt
<1>3. CASE Head(event_queue) = "TLS_Ready"
  <2>1. \A i \in DOMAIN event_queue' : ~ReadyAt(i)'
    <3>1. ReadyAt(1)
      BY <1>1, <1>3 DEF ReadyAt
    <3> QED
      BY <1>1, <1>2, <3>1 DEF SensorInv, HandshakeFirst
  <2> QED
    BY <1>1, <1>3, <2>1 DEF SensorInv, HandshakeFirst, ReadyAt
<1>4. CASE Head(event_queue) # "TLS_Ready"
  <2>1. \A i \in DOMAIN event_queue : ReadyAt(i) => i - 1 \in DOMAIN event_queue' /\ ReadyAt(i - 1)'
    BY <1>1, <1>4 DEF ReadyAt
  <2>2. \A i, j \in DOMAIN event_queue' : ReadyAt(i)' /\ ReadyAt(j)' => i = j
    BY <1>1, <1>2 DEF SensorInv, HandshakeFirst
  <2>3. (tls' = "up") <=> (_ready' \/ \E i \in DOMAIN event_queue' : ReadyAt(i)')
    BY <1>1, <1>2, <1>4, <2>1 DEF SensorInv, HandshakeFirst
  <2>4. ASSUME NEW j \in DOMAIN event_queue', event_queue'[j] = "image"
        PROVE  _ready' \/ \E i \in DOMAIN event_queue' : i < j /\ ReadyAt(i)'
    <3>1. _ready \/ \E i \in DOMAIN event_queue : i < j + 1 /\ ReadyAt(i)
      BY <1>1, <2>4 DEF SensorInv, HandshakeFirst
    <3>2. ASSUME NEW i \in DOMAIN event_queue, i < j + 1, ReadyAt(i)
          PROVE  i - 1 \in DOMAIN event_queue' /\ i - 1 < j /\ ReadyAt(i - 1)'
      BY <1>1, <2>1, <3>2
    <3> QED
      BY <3>1, <3>2
  <2>5. \A i \in DOMAIN event_queue' : ReadyAt(i)' => ~_ready'
    BY <1>1, <1>2, <1>4 DEF SensorInv, HandshakeFirst
  <2> QED
    BY <1>1, <2>2, <2>3, <2>4, <2>5 DEF HandshakeFirst
<1> QED
  BY <1>3, <1>4

\* The first image comes after TLS_Ready was served, an early finger is ignored.
LEMMA EarlyImage ==
    ASSUME SensorInv, event_queue # <<>>, Head(event_queue) = "image" PROVE _ready
<1>1. /\ Head(event_queue) = event_queue[1] /\ 1 \in DOMAIN event_queue /\ DOMAIN event_queue \subseteq Nat \ {0}
  BY TailAt DEF SensorInv, ControlType
<1> QED
  BY <1>1 DEF SensorInv, HandshakeFirst

\* What an event that is served leaves as it is.
LEMMA ServedFrame ==
    ASSUME SensorInv, alive, pc = "get_event", event_queue # <<>>, event_queue' = Tail(event_queue),
           TLSReady \/ Order \/ FingerReport,
           UNCHANGED <<alive, plugged, usable, notices, _attached, controls, spawned, initialised, keyed, tls, armed>>
    PROVE  SensorInv'
<1>1. Head(event_queue) = "TLS_Ready" => ~_ready
  <2>1. Head(event_queue) = event_queue[1] /\ 1 \in DOMAIN event_queue
    BY TailAt DEF SensorInv, ControlType
  <2> QED
    BY <2>1 DEF SensorInv, HandshakeFirst, ReadyAt
<1>2. _ready' \in BOOLEAN /\ _ready' = (_ready \/ Head(event_queue) = "TLS_Ready")
  <2>1. CASE TLSReady
    BY <2>1 DEF TLSReady
  <2>2. CASE Order \/ FingerReport
    BY <2>2 DEF Order, FingerReport, Ignored, SensorInv, ControlType
  <2> QED
    BY <2>1, <2>2
<1>3. HandshakeFirst' /\ event_queue' \in Seq(Events)
  BY <1>2, EventTaken
<1>4. pc' \in {"get_event", "start_sensor", "stop_sensor", "get_tls_key", "delay_get_image"}
      /\ (_ready' /\ pc' \in Serving => _ready)
  BY DEF TLSReady, Order, FingerReport, Serving
<1>5. ReadyTogether' /\ loaded' \in BOOLEAN /\ device' \in BOOLEAN /\ _running' \in BOOLEAN
  <2>1. CASE TLSReady
    BY <1>1, <2>1 DEF TLSReady, register_device, SensorInv, ReadyTogether
  <2>2. CASE Order \/ FingerReport
    BY <2>2 DEF Order, FingerReport, managerVars, SensorInv, ReadyTogether, ControlType
  <2> QED
    BY <2>1, <2>2
<1>6. NoEarlyImages' /\ image_queue' \in Seq({"FingerDown", "Image"})
  <2>1. CASE TLSReady
    BY <2>1 DEF TLSReady, SensorInv, NoEarlyImages, ControlType
  <2>2. CASE Order
    BY <2>2 DEF Order, SensorInv, NoEarlyImages, ControlType
  <2>3. CASE FingerReport
    <3>1. image_queue' = image_queue
          \/ (_ready /\ \E e \in {"FingerDown", "Image"} : image_queue' = Append(image_queue, e))
      BY <2>3, EarlyImage DEF FingerReport, put_image, Unready
    <3>2. image_queue' \in Seq({"FingerDown", "Image"})
      <4>1. image_queue \in Seq({"FingerDown", "Image"})
        BY DEF SensorInv, ControlType
      <4>2. \A e \in {"FingerDown", "Image"} : Append(image_queue, e) \in Seq({"FingerDown", "Image"})
        BY <4>1
      <4> QED
        BY <3>1, <4>1, <4>2, Zenon
    <3>3. loaded' = loaded /\ (_ready => loaded)
      BY <2>3 DEF FingerReport, SensorInv, ReadyTogether
    <3> QED
      BY <3>1, <3>2, <3>3 DEF SensorInv, NoEarlyImages
  <2> QED
    BY <2>1, <2>2, <2>3
<1>7. ControlType'
  <2>1. pc' \in Steps
    BY <1>4 DEF Steps
  <2> QED
    BY <1>2, <1>3, <1>5, <1>6, <2>1 DEF SensorInv, ControlType
<1>8. FreshSession' /\ KeyInPlace' /\ TaskMarked'
  BY <1>4 DEF SensorInv, FreshSession, BeforeSpawn, KeyInPlace, TaskMarked, OneControl
<1>9. ServingArmed'
  BY <1>4 DEF SensorInv, ServingArmed, Serving
<1> QED
  BY <1>3, <1>5, <1>6, <1>7, <1>8, <1>9 DEF SensorInv

LEMMA EventKept == SensorInv /\ handle_event => SensorInv'
  BY ServedFrame, DieKept DEF handle_event

LEMMA DelayKept == SensorInv /\ delay_get_image => SensorInv'
<1> SUFFICES ASSUME SensorInv, delay_get_image PROVE SensorInv'
  OBVIOUS
<1>1. UNCHANGED <<alive, usable, notices, _attached, controls, spawned, initialised, keyed, tls, _ready, loaded,
                  device, _running, _devices, _next_id, event_queue, image_queue, armed>>
      /\ pc = "delay_get_image" /\ pc' = "get_image"
  BY DEF delay_get_image, sessionVars, managerVars, queueVars
<1>2. HandshakeFirst'
  BY <1>1 DEF SensorInv, HandshakeFirst, ReadyAt
<1> QED
  BY <1>1, <1>2 DEF SensorInv, ControlType, Steps, FreshSession, BeforeSpawn, KeyInPlace, TaskMarked, OneControl,
     ReadyTogether, NoEarlyImages, ServingArmed, Serving

-------------------------------------------------------------------------------
LEMMA SensorInit == Init => SensorInv
<1> SUFFICES ASSUME Init PROVE SensorInv
  OBVIOUS
<1>1. ControlType
  <2>1. event_queue \in Seq(Events) /\ image_queue \in Seq({"FingerDown", "Image"}) /\ notices \in Seq({"arrived", "left"})
    BY DEF Init
  <2> QED
    BY <2>1 DEF Init, ControlType, Steps
<1>2. HandshakeFirst
  BY DEF Init, HandshakeFirst, ReadyAt
<1> QED
  BY <1>1, <1>2 DEF Init, SensorInv, FreshSession, KeyInPlace, TaskMarked, OneControl, ReadyTogether, NoEarlyImages, ServingArmed

LEMMA SensorNext == SensorInv /\ [Next]_vars => SensorInv'
<1> SUFFICES ASSUME SensorInv, [Next]_vars PROVE SensorInv'
  OBVIOUS
<1>1. CASE Plug \/ Unplug
  BY <1>1, PlugKept
<1>2. CASE hotplug_callback
  BY <1>2, HotplugKept
<1>3. CASE TransferDone \/ FirmwareMismatch
  BY <1>3, TransferKept, MismatchKept
<1>4. CASE TransferFails
  BY <1>4, DieKept DEF TransferFails
<1>5. CASE handle_event \/ delay_get_image
  BY <1>5, EventKept, DelayKept
<1>6. CASE ReadFails \/ WriteFails
  BY <1>6, ReadersKept
<1>7. CASE accept
  BY <1>7, AcceptKept
<1>8. CASE \E e \in Reports : Report(e)
  BY <1>8, ReportKept
<1>9. CASE \E e \in Orders : PutOrder(e)
  BY <1>9, OrderKept
<1>10. CASE UNCHANGED vars
  <2>1. alive' \in BOOLEAN /\ usable' \in BOOLEAN /\ notices' \in Seq({"arrived", "left"})
    BY <1>10 DEF vars, SensorInv, ControlType
  <2> QED
    BY <1>10, <2>1, SessionUntouched DEF vars
<1> QED
  BY <1>1, <1>2, <1>3, <1>4, <1>5, <1>6, <1>7, <1>8, <1>9, <1>10 DEF Next, ControlStep, Reports, Orders

THEOREM SensorInvariant == Spec => []SensorInv
<1>1. Init => SensorInv
  BY SensorInit
<1>2. SensorInv /\ [Next]_vars => SensorInv'
  BY SensorNext
<1> QED
  BY <1>1, <1>2, PTL DEF Spec

\* However hotplug_callback(), Finalize and restart() are ordered, one
\* WorkerControl runs at a time, and _attached is set exactly while it does.
THEOREM OneControlAlways == Spec => []OneControl
<1>1. SensorInv => OneControl
  BY DEF SensorInv, TaskMarked
<1> QED
  BY <1>1, SensorInvariant, PTL

\* tls_init is sent, and TLS runs at the sensor, only once parse_tls_key() has
\* accepted a key.
THEOREM KeyAlwaysBeforeTLS == Spec => []KeyBeforeTLS
<1>1. SensorInv => KeyBeforeTLS
  BY DEF SensorInv, KeyInPlace, KeyBeforeTLS
<1> QED
  BY <1>1, SensorInvariant, PTL

\* put_image() is not called before TLS_Ready has loaded the storage.
THEOREM NeverEarlyImages == Spec => []NoEarlyImages
<1>1. SensorInv => NoEarlyImages
  BY DEF SensorInv
<1> QED
  BY <1>1, SensorInvariant, PTL

\* start_sensor ends every chain of transfers that stop_sensor began, before the
\* task awaits the next event.
THEOREM IdleAlwaysArmed == Spec => []IdleArmed
<1>1. SensorInv => IdleArmed
  BY DEF SensorInv, ServingArmed, Serving, IdleArmed
<1> QED
  BY <1>1, SensorInvariant, PTL

\* The manager object and the device object come up together in TLS_Ready, and
\* get_default_device() returns the path of the device that runs.
THEOREM DeviceAlwaysListed == Spec => []DeviceListed
<1>1. SensorInv => DeviceListed
  BY DEF SensorInv, ReadyTogether, DeviceListed, get_default_device
<1> QED
  BY <1>1, SensorInvariant, PTL

\* Finalize: a task ends, and the daemon survives it, only before the sensor has
\* been initialised.  A later unplug ends the daemon, as no error of USBInput
\* passes for a vanished sensor.
EndsEarly == controls' # controls => (controls = 0 \/ pc = "get_state")
THEOREM TaskEndsEarly == Spec => [][EndsEarly]_vars
<1>1. SensorInv /\ [Next]_vars => [EndsEarly]_vars
  <2> SUFFICES ASSUME SensorInv, Next, ~(pc = "get_state"), controls # 0 PROVE controls' = controls
    BY DEF EndsEarly
  <2>1. _attached
    BY DEF SensorInv, TaskMarked, OneControl, ControlType
  <2>2. hotplug_callback => controls' = controls
    BY <2>1 DEF hotplug_callback, Noticed, Die
  <2>3. ReadFails \/ WriteFails => controls' = controls
    BY NeverVanished DEF ReadFails, ReadFailed, WriteFails, Die
  <2> QED
    BY <2>2, <2>3 DEF Next, ControlStep, Plug, Unplug, TransferDone, FirmwareMismatch, TransferFails, handle_event,
       delay_get_image, accept, Report, PutOrder, Die
<1> QED
  BY <1>1, SensorInvariant, PTL DEF Spec

================================================================================
