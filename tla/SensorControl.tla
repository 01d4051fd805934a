----------------------------- MODULE SensorControl -----------------------------
(***************************************************************************)
(* The USB side: hotplug notices, the WorkerControl task that runs a       *)
(* sensor, its reader tasks, and the manager that lists the device.        *)
(* WorkerControl serves its event queue one event at a time, each with a   *)
(* chain of control transfers.  The sensor and libusb are external.        *)
(***************************************************************************)
EXTENDS Naturals, Sequences

CONSTANTS MaxPlugs,      \* bound: times the sensor is plugged in
          MaxReports,    \* bound: events the sensor sends
          MaxOrders      \* bound: orders of the device object

ASSUME ControlAssumption == MaxPlugs \in Nat /\ MaxReports \in Nat /\ MaxOrders \in Nat

VARIABLES
    alive,         \* the daemon process runs
    plugged,       \* the sensor is on the bus
    usable,        \* the task's handle is that of the plugged sensor
    notices,       \* hotplug events that libusb has not delivered
    _attached,
    controls,      \* running WorkerControl tasks; the rest is the latest one's
    pc,            \* the member function that awaits, "none" before there is a task
    spawned,       \* the reader tasks run
    initialised,   \* the sensor has executed cmd_init
    keyed,         \* the TLS key was read and checked
    tls,           \* TLS at the sensor: "off", "on" once told to, "up" once accepted
    _ready,
    loaded,        \* the storage is initialised
    device,        \* the device object runs
    _running,      \* the manager object runs
    _devices, _next_id,       \* numbers of the registered object paths, the next one
    event_queue,
    image_queue,
    armed,         \* the code of the last arm command the sensor executed, 0 before
    plugs, reports, orders    \* what the bounds bound

sessionVars == <<spawned, initialised, keyed, tls, _ready, loaded, device>>
managerVars == <<_running, _devices, _next_id>>
queueVars   == <<event_queue, image_queue>>
boundVars   == <<plugs, reports, orders>>
vars == <<alive, plugged, usable, notices, _attached, controls, pc, sessionVars, managerVars, queueVars, armed, boundVars>>

\* An error that no handle_error() takes, abort() and a failed assertion alike.
Die == /\ alive' = FALSE
       /\ UNCHANGED <<plugged, usable, notices, _attached, controls, pc, sessionVars, managerVars,
                      queueVars, armed, boundVars>>

-------------------------------------------------------------------------------
\* Hotplug.

Plug == /\ alive /\ ~plugged /\ plugs < MaxPlugs
        /\ plugged' = TRUE /\ plugs' = plugs + 1
        /\ notices' = Append(notices, "arrived")
        /\ UNCHANGED <<alive, usable, _attached, controls, pc, sessionVars, managerVars, queueVars, armed,
                       reports, orders>>

Unplug == /\ alive /\ plugged
          /\ plugged' = FALSE /\ usable' = FALSE
          /\ notices' = Append(notices, "left")
          /\ UNCHANGED <<alive, _attached, controls, pc, sessionVars, managerVars, queueVars, armed, boundVars>>

\* start(): a new task marks the sensor attached and awaits its first transfer.
started(mark, running) ==
    /\ usable' = TRUE /\ _attached' = mark /\ controls' = running
    /\ pc' = "indicate_s_state"
    /\ spawned' = FALSE /\ initialised' = FALSE /\ keyed' = FALSE /\ tls' = "off"
    /\ _ready' = FALSE /\ loaded' = FALSE /\ device' = FALSE
    /\ event_queue' = <<>> /\ image_queue' = <<>> /\ armed' = 0

start == started(TRUE, controls + 1)

\* Mutant of Noticed: an attached sensor is started again.
Noticed_Always == Head(notices) = "arrived"

Noticed == ~_attached /\ Head(notices) = "arrived"

\* hotplug_callback() and device_attached(): an arrival is acted on unless a
\* task runs already; a sensor that cannot be opened any more aborts the daemon.
hotplug_callback ==
    /\ alive /\ notices # <<>>
    /\ \/ /\ Noticed /\ \E i \in DOMAIN Tail(notices) : Tail(notices)[i] = "left"
          /\ Die
       \/ /\ Noticed /\ \A i \in DOMAIN Tail(notices) : Tail(notices)[i] # "left"
          /\ start
          /\ notices' = Tail(notices)
          /\ UNCHANGED <<alive, plugged, managerVars, boundVars>>
       \/ /\ ~Noticed
          /\ notices' = Tail(notices)
          /\ UNCHANGED <<alive, plugged, usable, _attached, controls, pc, sessionVars, queueVars,
                         armed, managerVars, boundVars>>

-------------------------------------------------------------------------------
\* async_finalize() of the device object: its path is unregistered.
unregister_device ==
    /\ _devices' = IF device THEN _devices \ {_next_id - 1} ELSE _devices
    /\ UNCHANGED <<_running, _next_id>>

\* The end of a task: async_finalize() empties the queues, cancels the device
\* object and the readers and clears the key and the attached mark.
Finalize ==
    /\ unregister_device
    /\ _attached' = FALSE /\ controls' = controls - 1 /\ pc' = "none"
    /\ spawned' = FALSE /\ keyed' = FALSE /\ device' = FALSE
    /\ event_queue' = <<>> /\ image_queue' = <<>>
    /\ UNCHANGED <<alive, plugged, usable, notices, initialised, tls, _ready, loaded, armed, boundVars>>

\* handle_error() on a cancelled await: restart() opens the sensor again and
\* starts a task, if the sensor is there; then the old one is finalized, which
\* clears the mark that the new one has set.
Restart ==
    IF usable THEN /\ started(FALSE, controls)
                   /\ unregister_device
                   /\ UNCHANGED <<alive, plugged, notices, boundVars>>
    ELSE Finalize

\* Errors of the reading task: the category and value of a transfer that is not
\* accepted and of one that is accepted and fails.
ReadError == {<<"usb", "LIBUSB_ERROR_NO_DEVICE">>, <<"transfer", "LIBUSB_TRANSFER_NO_DEVICE">>,
              <<"transfer", "LIBUSB_TRANSFER_STALL">>}

\* USBInput::handle_error() looks for both values, each in the category of
\* transfers, and for the second only outside it.
Vanished(error) ==
    IF error[1] = "transfer" THEN error[2] = "LIBUSB_ERROR_NO_DEVICE"
    ELSE error[1] = "transfer" /\ error[2] = "LIBUSB_TRANSFER_NO_DEVICE"

\* Mutant of ReadFailed: the reader ends and tells nobody.
ReadFailed_Quiet(error) ==
    /\ spawned' = FALSE
    /\ UNCHANGED <<alive, plugged, usable, notices, _attached, controls, pc, initialised, keyed, tls,
                   _ready, loaded, device, queueVars, armed, managerVars, boundVars>>

\* Mutant of ReadFailed: the task ends with its reader.
ReadFailed_Finalized(error) == Finalize

\* A vanished sensor ends the reader and resets the event queue, which cancels
\* the await of the control task; every other error ends the daemon.
ReadFailed(error) ==
    IF ~Vanished(error) THEN Die
    ELSE IF pc = "get_event" THEN Restart
    ELSE /\ spawned' = FALSE /\ event_queue' = <<>>
         /\ UNCHANGED <<alive, plugged, usable, notices, _attached, controls, pc, initialised, keyed,
                        tls, _ready, loaded, device, image_queue, armed, managerVars, boundVars>>

\* USBInput's transfer fails.
ReadFails ==
    /\ alive /\ spawned
    /\ \E error \in ReadError :
        /\ error[2] # "LIBUSB_TRANSFER_STALL" => ~usable
        /\ ReadFailed(error)

\* USBOutput's transfer fails; it looks for a vanished sensor in both categories
\* and ends quietly then.
WriteFails == alive /\ spawned /\ tls = "on" /\ usable /\ Die

-------------------------------------------------------------------------------
\* WorkerControl's transfers: pc awaits one, and After(pc) is what runs next.

Chain == [indicate_s_state |-> "get_state", get_state |-> "init", init |-> "get_event",
          get_tls_key |-> "tls_init", tls_init |-> "get_event",
          stop_sensor |-> "fpc_abort", fpc_abort |-> "end_session", end_session |-> "start_sensor",
          start_sensor |-> "get_event", get_image |-> "get_event"]

\* Mutants of After: the sensor stays stopped; images are taken for ever.
After_Stopped(step) == IF step = "end_session" THEN "get_event" ELSE Chain[step]
After_Looping(step) == IF step = "get_image" THEN "delay_get_image" ELSE Chain[step]

After(step) == Chain[step]

\* Mutant of parse_tls_key: TLS starts before the key is in place.
parse_tls_key_Unset(step) == UNCHANGED keyed

\* parse_tls_key(): a valid key is handed to TLS before the sensor starts it.
parse_tls_key(step) == keyed' = (keyed \/ step = "get_tls_key")

\* What the sensor does with a command.
Executed(step) ==
    /\ initialised' = (initialised \/ step = "init")
    /\ tls' = IF step = "tls_init" /\ tls = "off" THEN "on" ELSE tls
    /\ armed' = IF step = "start_sensor" THEN 17 ELSE IF step = "stop_sensor" THEN 18 ELSE armed

\* A transfer is done and the next member function runs; spawn() starts the readers.
TransferDone ==
    /\ alive /\ usable /\ pc \in DOMAIN Chain
    /\ pc' = After(pc)
    /\ Executed(pc) /\ parse_tls_key(pc)
    /\ spawned' = (spawned \/ pc = "init")
    /\ UNCHANGED <<alive, plugged, usable, notices, _attached, controls, _ready, loaded, device,
                   queueVars, managerVars, boundVars>>

\* parse_state(): a sensor with other firmware is left alone.
FirmwareMismatch == alive /\ usable /\ pc = "get_state" /\ Finalize

\* A transfer that fails or times out, and a TLS key that is not valid.
TransferFails == alive /\ pc \in DOMAIN Chain /\ Die

-------------------------------------------------------------------------------
\* handle_event()

put_image(e) == image_queue' = Append(image_queue, e)

\* Mutant of Unready: a finger that comes early is reported.
Unready_Never == FALSE

Unready == ~_ready

\* Manager::register_device(), called by the device object.
register_device == _devices' = _devices \cup {_next_id} /\ _next_id' = _next_id + 1

\* TLS_Ready: loads the storage, starts the manager object and the device object.
TLSReady ==
    /\ Head(event_queue) = "TLS_Ready"
    /\ _ready' = TRUE /\ loaded' = TRUE /\ device' = TRUE
    /\ _running' = TRUE
    /\ register_device
    /\ pc' = "stop_sensor"
    /\ UNCHANGED image_queue

\* hello, arm_result, finger_up, usb_logs, tls_key, refresh_sensor
Ignored == {"ignored"}

Order ==
    /\ \/ Head(event_queue) = "StartSensor" /\ pc' = "start_sensor"
       \/ Head(event_queue) \in {"StopSensor", "dead_pixel"} /\ pc' = "stop_sensor"
       \/ Head(event_queue) = "init_result" /\ pc' = "get_tls_key"
       \/ Head(event_queue) \in Ignored /\ UNCHANGED pc
    /\ UNCHANGED <<_ready, loaded, device, managerVars, image_queue>>

FingerReport ==
    /\ \/ /\ Head(event_queue) = "finger_down"
          /\ IF Unready THEN UNCHANGED <<pc, image_queue>>
             ELSE put_image("FingerDown") /\ pc' = "delay_get_image"
       \/ Head(event_queue) = "image" /\ put_image("Image") /\ pc' = "delay_get_image"
    /\ UNCHANGED <<_ready, loaded, device, managerVars>>

\* Another code, and ev_tls inside TLS, abort the daemon.
handle_event ==
    /\ alive /\ pc = "get_event" /\ event_queue # <<>>
    /\ \/ /\ TLSReady \/ Order \/ FingerReport
          /\ event_queue' = Tail(event_queue)
          /\ UNCHANGED <<alive, plugged, usable, notices, _attached, controls, spawned, initialised,
                         keyed, tls, armed, boundVars>>
       \/ Head(event_queue) = "unknown" /\ Die

delay_get_image ==
    /\ alive /\ pc = "delay_get_image" /\ pc' = "get_image"
    /\ UNCHANGED <<alive, plugged, usable, notices, _attached, controls, sessionVars, queueVars, armed, managerVars, boundVars>>

-------------------------------------------------------------------------------
\* What enters the event queue: events in clear, TLS_Ready when the handshake
\* is done, images over TLS, and the orders of the device object.

Report(e) ==
    /\ alive /\ usable /\ spawned /\ reports < MaxReports
    /\ e = "init_result" => initialised
    /\ e = "image" => tls = "up"
    /\ event_queue' = Append(event_queue, e)
    /\ reports' = reports + 1
    /\ UNCHANGED <<alive, plugged, usable, notices, _attached, controls, pc, sessionVars, image_queue,
                   managerVars, armed, plugs, orders>>

\* TLSEventReader::accept() and ready()
accept ==
    /\ alive /\ usable /\ spawned /\ tls = "on"
    /\ tls' = "up"
    /\ event_queue' = Append(event_queue, "TLS_Ready")
    /\ UNCHANGED <<alive, plugged, usable, notices, _attached, controls, pc, spawned, initialised, keyed,
                   _ready, loaded, device, image_queue, armed, managerVars, boundVars>>

PutOrder(e) ==
    /\ alive /\ device /\ orders < MaxOrders
    /\ event_queue' = Append(event_queue, e)
    /\ orders' = orders + 1
    /\ UNCHANGED <<alive, plugged, usable, notices, _attached, controls, pc, sessionVars, image_queue,
                   managerVars, armed, plugs, reports>>

Init ==
    /\ alive = TRUE /\ plugged = FALSE /\ usable = FALSE /\ notices = <<>> /\ _attached = FALSE
    /\ controls = 0 /\ pc = "none" /\ spawned = FALSE /\ initialised = FALSE /\ keyed = FALSE
    /\ tls = "off" /\ _ready = FALSE /\ loaded = FALSE /\ device = FALSE
    /\ _running = FALSE /\ _devices = {} /\ _next_id = 0
    /\ event_queue = <<>> /\ image_queue = <<>> /\ armed = 0
    /\ plugs = 0 /\ reports = 0 /\ orders = 0

ControlStep == TransferDone \/ FirmwareMismatch \/ TransferFails \/ handle_event \/ delay_get_image

Next ==
    \/ Plug \/ Unplug \/ hotplug_callback
    \/ ControlStep \/ ReadFails \/ WriteFails \/ accept
    \/ \E e \in {"init_result", "dead_pixel", "finger_down", "image", "ignored", "unknown"} : Report(e)
    \/ \E e \in {"StartSensor", "StopSensor"} : PutOrder(e)

Spec == Init /\ [][Next]_vars

\* libusb completes every transfer, one way or the other, and delivers its notices.
Fairness == /\ WF_vars(ControlStep) /\ WF_vars(hotplug_callback)
            /\ WF_vars(ReadFails /\ ~usable)
FairSpec == Spec /\ Fairness

-------------------------------------------------------------------------------
\* However hotplug notices are timed, one task at a time runs the sensor, and
\* the mark that keeps a second one away is set as long as it does.
OneControl == controls <= 1 /\ (controls = 1 <=> _attached)

\* The sensor is told to start TLS only when the callback that hands out the
\* pre-shared key has the key.
KeyBeforeTLS == (controls = 1 /\ tls # "off") => keyed

\* Nothing is put on the image queue before the storage is loaded, though the
\* sensor may report a finger at any time.
NoEarlyImages == image_queue # <<>> => loaded

\* Whatever order or report came last, a task that waits for the next event has
\* left the sensor armed: stopping ends in arming it again.
IdleArmed == (_ready /\ pc = "get_event") => armed = 17

\* A client that reaches the manager object is given the device that runs: no replug
\* or error leaves the object without a device, or a path without its object.
get_default_device == IF _devices = {} THEN "NoSuchDevice" ELSE CHOOSE path \in _devices : TRUE
DeviceListed == (alive /\ _running) => device /\ _devices = {get_default_device}

\* An order to stop is carried out however many reports surround it.
StopOrdered == \E i \in DOMAIN event_queue : event_queue[i] = "StopSensor"
OrdersServed == StopOrdered ~> (~alive \/ pc = "stop_sensor")

\* A task does not outlive its sensor for ever.
GoneNoticed == (controls = 1 /\ ~usable) ~> (~alive \/ controls # 1 \/ usable)
================================================================================
