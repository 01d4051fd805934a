------------------------------ MODULE FprintSystem -----------------------------
(***************************************************************************)
(* The device object and its tasks composed with the task that runs the    *)
(* sensor, over the two queues they share, from TLS_Ready on.  FprintDevice *)
(* has the sensor task as what it may do to the queues; here each of its   *)
(* steps is one of SensorControl.  The sensor stays plugged in and its     *)
(* transfers succeed: SensorControl has what happens when they do not,     *)
(* which ends the daemon.                                                  *)
(***************************************************************************)
EXTENDS FprintDevice

VARIABLES
    control_pc,   \* WorkerControl's pc
    reported,     \* everything WorkerControl has put on the image queue
    armed, reports,
    \* the rest of SensorControl, which keeps the value it has after TLS_Ready
    plugged, usable, notices, _attached, controls, spawned, initialised, keyed, tls,
    _ready, loaded, device, _running, _devices, _next_id, plugs, orders

restVars    == <<plugged, usable, notices, _attached, controls, spawned, initialised, keyed, tls,
                 _ready, loaded, device, _running, _devices, _next_id, plugs, orders>>
controlVars == <<control_pc, reported, armed, reports, restVars>>
systemVars  == <<vars, controlVars>>

Control == INSTANCE SensorControl WITH
    pc <- control_pc, image_queue <- reported, MaxPlugs <- 1, MaxOrders <- 0, MaxReports <- MaxEvents

\* What does not concern the device object and its tasks.
deviceRest == <<alive, polling, busVars, messages, deviceVars, finger_present, listeners,
                storeVars, calls, signals>>

SystemInit ==
    /\ Init
    /\ control_pc = "stop_sensor" /\ armed = 0
    /\ reported = <<>> /\ reports = 0
    /\ plugged = TRUE /\ usable = TRUE /\ notices = <<>> /\ _attached = TRUE /\ controls = 1
    /\ spawned = TRUE /\ initialised = TRUE /\ keyed = TRUE /\ tls = "up"
    /\ _ready = TRUE /\ loaded = TRUE /\ device = TRUE
    /\ _running = TRUE /\ _devices = {0} /\ _next_id = 1
    /\ plugs = 1 /\ orders = 0

\* The sensor reports, with USBInput and TLSEventReader between it and the queue.
SensorSends ==
    /\ \E e \in {"finger_down", "image"} : Control!Report(e)
    /\ UNCHANGED <<deviceRest, workers, queueVars, events>>

\* A transfer or the delay of an image is over.
TransferDone ==
    /\ Control!TransferDone \/ Control!delay_get_image
    /\ UNCHANGED <<deviceRest, workers, queueVars, events, reports>>

\* Mutant of Delivered: the queue keeps the event although a task waits for it.
Delivered_Unawaited ==
    IF reported' = reported THEN UNCHANGED <<workers, queueVars, events>>
    ELSE /\ image_queue' = Append(image_queue, reported'[Len(reported')])
         /\ events' = events + 1
         /\ UNCHANGED <<workers, pending_get>>

\* _put_image(): what the control task reports goes to the image queue.
Delivered ==
    IF reported' = reported THEN UNCHANGED <<workers, queueVars, events>>
    ELSE PutImage(workers, pending_get, reported'[Len(reported')]) /\ events' = events + 1

handle_event ==
    /\ ~polling
    /\ Control!handle_event
    /\ Delivered
    /\ UNCHANGED <<deviceRest, armed, reports>>

ControlReady == control_pc = "get_event" /\ event_queue # <<>>

SystemPoll ==
    /\ polling \/ ~ControlReady
    /\ Poll
    /\ UNCHANGED controlVars

DeviceStep ==
    /\ \/ \E c \in Client : Send(c) \/ Disconnect(c)
       \/ OtherSignal
       \/ BusAnswer \/ LookupTimesOut \/ Dispatch
       \/ handle_message
       \/ \E l \in Listener : ListenerStep(l)
       \/ \E w \in Worker : WorkerStep(w)
    /\ UNCHANGED controlVars

SystemNext == SystemPoll \/ DeviceStep \/ SensorSends \/ TransferDone \/ handle_event

SystemSpec == SystemInit /\ [][SystemNext]_systemVars

\* The loop polls and runs the control task, when it has an event, and the ready
\* workers; transfers are over some time.  What is asked here needs nothing of the
\* bus, of clients or of the device object.
SystemFairness ==
    /\ WF_systemVars(SystemPoll) /\ WF_systemVars(TransferDone) /\ WF_systemVars(handle_event)
    /\ \A w \in Worker : WF_systemVars(WorkerStep(w) /\ UNCHANGED controlVars)

FairSystemSpec == SystemSpec /\ SystemFairness

-------------------------------------------------------------------------------
\* What a queue holds of orders, oldest first.
Orders(q) ==
    LET taken[n \in 0..Len(q)] ==
            IF n = 0 THEN <<>>
            ELSE IF q[n] \in SensorEvent THEN Append(taken[n - 1], q[n]) ELSE taken[n - 1]
    IN  taken[Len(q)]

\* FprintDevice is right about the control task: what it does to the queues in the
\* real chains of transfers is what FprintDevice lets it do, so every property that
\* holds there in all behaviours holds here.
Device == INSTANCE FprintDevice WITH event_queue <- Orders(event_queue)
ImplementsDevice == Device!Spec

\* The end of an enrollment or verification reaches the sensor: when the client
\* stops it, the sensor is told, behind whatever reports and transfers come first.
StopReachesSensor ==
    Polite => \A w \in Worker :
        (workers[w].pc = "parse_image" /\ enroll_verify_task # w)
            ~> (control_pc = "stop_sensor" \/ ~alive)

\* A report that is in the event queue reaches the task that waits for one, through
\* the control task's transfers; the task is not left waiting.
ReportReaches ==
    Polite => \A w \in Worker :
        (w \in pending_get /\ \E i \in DOMAIN event_queue : event_queue[i] \in {"finger_down", "image"})
            ~> (w \notin pending_get \/ ~alive)
================================================================================
