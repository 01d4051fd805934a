# A verification project for fingerprint-ocv

fingerprint-ocv is a user-space daemon for FPC 9201 fingerprint sensors. It talks to the
sensor over USB and TLS, keeps enrolled prints in an encrypted file, and offers the
`net.reactivated.Fprint.Device` interface on the system bus, in the place of fprintd.
This directory holds TLA+ specifications of it, the TLC configurations that check them, and
proofs that TLAPS checks. Line numbers are those of `src/src/drv_fpc/fpc9201.cpp` unless
another file is named.

## 1. The system

One thread runs everything: a jinx event loop with coroutine-like tasks. A task runs from one
await to the next without interruption, so a step of the specifications is such a stretch.

| part | state | operations | talks to |
|---|---|---|---|
| `WorkerDevice` 457-1106 | claim (flag, sender, user), its task and its listener | the 11 D-Bus methods, `NameOwnerChanged` | the bus; puts stops on the image queue; spawns the next two |
| `WorkerListen` 363-455 | match rule, message filter | `add_match`, `post`, `exit`, `filter_signal` | the bus, the device's message queue |
| `WorkerEnrollVerify` 139-336 | print being enrolled, stage | `enroll`, `parse_image`, `stop` | takes from the image queue, puts on the event queue, storage |
| `WorkerControl` 1440-1918 | `_ready`, TLS key, endpoints, both queues | initialisation, `handle_event`, transfer chains | sensor; takes from the event queue, puts on the image queue |
| `USBInput`, `TLSEventReader` 1108-1361 | half-received events | `recv`, `parse`, `accept`, `process` | put on the event queue; their errors end `WorkerControl` |
| `USBOutput`, `BIOPipe` | TLS records to send | copy to a transfer | sensor |
| `FingerprintStorage` (`fingerprint.hpp/cpp`) | prints per user and finger; one file | load, save, insert, delete | file system |
| `Fingerprint` (`fingerprint.cpp`) | up to 5 templates | `merge`, `match`, `write`, `read` | `cvext` |
| `Manager`, `WorkerManager` (`manager.*`) | object paths, `_attached` | hotplug, `GetDevices` | libusb, the bus |

Main flows. *Start*: a hotplug notice starts `WorkerControl`, which initialises the sensor,
reads the TLS key, starts TLS, and at `TLS_Ready` loads the storage and starts `WorkerDevice`.
*Session*: a client claims; the claim asks the bus for the sender's uid and spawns a listener
for the sender's departure; Start spawns a worker, which resets the image queue, orders the
sensor to start and consumes images; Stop forgets the worker and leaves it a stop event;
Release or the departure ends the claim.

What is hard: everything that waits. The device object serves one message at a time, so nothing is
claimed while a uid lookup is pending, but calls, signals and departures queue up behind it;
signals, replies, images and stop events are consumed by whoever waits first; `Queue::reset()`
throws away events that others still need; a resumed task may still have an await pending; a
save may be cut short; the sensor may go away in any state. `PROJECT.json` lists each such
hazard at its line with the properties aimed at it.

### The jinx library

jinx is a submodule whose sources the repository does not carry. Its semantics were taken from
how this code uses it and from the built binary that the repository ships
(`src/fingerprint-ocv`), and everything about it is marked external in the map:

- `Queue` has no size limit. A put hands the event to a waiting getter if there is one.
  Polling a getter that is already linked, on an empty queue, is an error. `reset()` empties
  the queue and resumes the getters with `Cancelled`.
- Resuming a task schedules it; resuming a scheduled or a finished task does nothing.
- The loop polls for input only when no task is ready (`Poll`), and the connection dispatches
  what the bus sent before tasks run. External actions therefore need `polling`.
- Scheduled tasks run in an order that the specifications leave open.
- An error that no `handle_error` takes ends the daemon, and so does polling
  `AsyncDBusSendWithReply` while its call is pending. Both are `Die`: `alive` becomes FALSE.

## 2. Modules

`DeviceVars` declares the shared state of one device and the primitives of the loop and the
image queue. Over it, one module per actor, each a set of actions:

- `SessionBus`: clients (`Send`, `Disconnect`), the bus (`BusAnswer`, with refusals and
  time-outs, and lost answers to an `AddMatch` that took effect), the uid lookup whose 5 seconds are over
  before an older call's 30 (`LookupTimesOut`), other signals (`OtherSignal`), and `Dispatch`. There are three
  kinds of signals: the bus's announcement that a client left; a `NameOwnerChanged` with an empty new owner of
  any other origin, which the handler takes the same way; and any signal that announces no departure, which
  wakes a listener just the same (441) and has no handler.
- `WorkerListen`: `pc` names the member function that runs next.
- `WorkerEnrollVerify`: `enroll`, and `parse_image` split by event and outcome. Whether an
  image merges or matches is a nondeterministic choice, and so is whether it has the size that the
  code asserts (`WrongSize`, 254).
- `WorkerDevice`: `handle_message` with the uid lookup as two steps (`get_uid`, `check_uid`),
  and one operator per method.

`FprintDevice` composes them, with the sensor as what it does to the two queues. Replies to
clients, signals to them, wording, and the read-only properties are left out: nothing reads them.
`finger_present` is kept as the code keeps it.

`FprintSystem` composes `FprintDevice` with the steps of `SensorControl` from `TLS_Ready` on: reports,
transfers, `handle_event`. The control task's `put_image` becomes the put that hands an event to a waiting
worker, its event queue is the one that workers put orders on. The property `ImplementsDevice` is the
refinement: with the reports filtered out of the event queue, every step is a step of `FprintDevice` or
a stutter, so what holds there without fairness holds here. The sensor stays plugged in and its transfers
succeed: `SensorControl` has every failure, and each that is reached ends the daemon.

- `PrintStorage`: memory, the file as processes see it, the file as a power loss leaves it, and
  the steps of `save()`. A file is whole or torn and belongs to a key. `PrintStore` is the
  abstract specification: a process serves a version that some process had under the same key, as a
  whole, or nothing. `ImplementsStore` is the refinement.
- `FingerprintMerge`: a scan is its validity and its similarity to each template taken before;
  a scan without a valid code has similarity 0 to everything, as in `cvext`.
- `FingerprintMatch`: score and alignment outcome per template; one action per try.
- `SensorControl`: hotplug, `WorkerControl` with its chains of transfers as a function from a
  step to the next, its readers and their errors. An image that arrives before the storage is
  loaded is excluded by TLS, not by a guard; a finger is excluded by `_ready`. The manager's list of object
  paths and its object belong to it, as the sensor task registers and unregisters the device.
- `SensorLink`: bytes from the sensor to the event queue and back. The sensor cuts writes into packets,
  with or without a zero-length packet at the end, and seals TLS records where it likes; libusb completes a
  transfer at a short packet or when its buffer is full; `parse`, `handle_tls_data` and `process` are the
  handlers. A byte is the number of the event it belongs to, so an event put together wrongly is visible.
  `USBOutput` runs during the handshake only, as nothing calls `_ssl_server.write`. `EventChannel` is the
  abstract specification: on each channel whole events in the order sent, until the link breaks.
  `ImplementsChannel` is the refinement.

### Names

Definitions carry the names of the source where TLA+ has room for them: `claim`, `release`,
`send_enroll_stop`, `_attached`, `_templates`. An operator whose name has a suffix
(`reset_Forgotten`) is a mutant: the version of the operator with a plausible bug that one
property must find. No specification uses them.

## 3. Runs

| run | asks | bounds |
|---|---|---|
| `claim` | is an announced departure of the owner ever forgotten, a claim ever handed over or left unwatched, a call ever left unserved? what ends the daemon? | 2 clients, 2 calls, 1 other signal, 2 listeners, fairness |
| `session` | do sessions disturb each other, whatever the client does? what ends the daemon? | 1 client, 5 calls, 2 workers, 1 sensor event |
| `polite` | one collector, and orphans end | 1 client, 5 calls, 2 workers, `Polite`, fairness |
| `prints` | who may claim for, delete or enroll, whose prints? | 2 accounts, one client is root, 2 calls, 2 templates, 2 sensor events |
| `storage` | crash, power loss, failed I/O, another key | 2 users, 2 keys, 2 faults |
| `merge` | order of scans, limit, file round trip | 4 templates, 4 similarities around the gate |
| `match` | ranking, ties, what is overlooked | 4 templates (one more than is tried), 4 scores around the threshold |
| `sensor` | replugs, early and late reports, orders, errors, object paths | 2 plugs, 3 reports, 2 orders |
| `link` | framing of transfers and records, handshake output | packet 3, buffer 6 (two packets), header 2; 3 events on the bus, 2 inside TLS |
| `system` | do stops and reports get through the control task? does it do only what `FprintDevice` allows? | 1 client, 3 calls, 2 reports, `Polite`, fairness |

The bounds let each hazard happen. In `claim` two calls hold a claim and its release, or claims of both
clients, the first ended by its owner's departure or by the other signal with its listener still running; that signal
and the departures come before, between or after everything else. In `session` five calls hold three claims
of one client with two releases, and so listeners that share a match rule, or Claim, Start,
Stop, Start, Stop, with the two workers alive at once: with a sensor event these fill the queue
that the second session must not inherit. Two calls and two images hold a whole enrollment for another
account, and a verification or a delete against what is stored. Four templates exceed the three tries. Two plugs hold a
replug with the departure undelivered. In `link` the lengths in clear are one packet and one buffer, so that
the zero-length packet comes in the same transfer or alone in a new buffer; an `ev_tls` event of 8 takes two
buffers; inside TLS a bare header and an event longer than a buffer, each cut into records anywhere.
In `system` three calls hold Claim, Start and Stop, and two reports the second one behind the chain of the first.

`MaxCalls`, `MaxEvents`, `MaxSignals`, `MaxPlugs`, `MaxReports`, `MaxOrders` and `MaxSecure` guard actions of the environment,
`MaxFaults` the failing alternative of
a read or a write. The pools `Listener` and `Worker` are identities, used again once a task has
finished and no `TaskPtr` refers to it. A pool that is exhausted would hold up `claim` or a start,
which the code does not: `claim`, `prints` and `system` have as many listeners as their
calls can use, and every run as many workers, in `polite` and `system` because a stopped one is done before the
next call; in `session` and `polite` the third claim of five calls
waits until one of two earlier listeners has ended; two at a time are what it takes to share a rule.
Only `claim` has a signal of another origin (`MaxSignals`); the theorems of section 4 have any number of them everywhere.
Symmetry is used over the task identities and the templates, only in runs without
liveness, and not over clients, whose accounts differ.

Two runs show that a document or a comment is wrong about the code:

- `merge_pairwise`: `fingerprint.hpp:36` calls `_enroll_min_similarity` the minimum pairwise
  similarity; the code keeps that of the latest scan. Nothing decides by the value.
- `match_threshold`: `README.md:130` gives an acceptance threshold of 0.90; the default of
  `min-score` is 0.5.

All runs switch deadlock checking off: the daemon may end, calls and reports are bounded, and a
match or an enrollment returns.

### Fairness

`FprintDevice!Fairness`: weak fairness of the loop's steps, `Poll`, `handle_message` and every listener and
worker: the loop runs a ready task until none is left. Strong fairness of `BusAnswer` and `Dispatch`: both need
the loop to poll, which it does again and again without staying there, as other tasks share the loop and a poll may
return for them; at each poll the connection dispatches what has come, and libdbus answers a call by an error when
its time is over. Clients, fingers and the sensor owe nothing. `SensorControl!Fairness`: libusb
completes every transfer, by success, error or time-out (`ControlStep`), delivers its notices, and
fails the pending read once the sensor is gone. A read need not fail while the sensor is there.
`SensorLink!Fairness`: libusb completes the transfer that a short packet or a full buffer ends, and the readers run;
the sensor need not send anything, nor close a record. `FprintSystem!SystemFairness` takes of the first two
the polls, the workers and the control task with its transfers, `handle_event` being one more task that the loop does not poll
before it has run; its properties need no fairness of the bus, which makes them say more.

### Polite clients

`enroll()` resets the image queue in the task's first step (218). A client that sends Start and
Stop together has its stop put there before that step, and lost: the task then runs without an owner,
and the next one collects images beside it. `OneCollector` and `OrphansEnd` are therefore about
clients that await each reply and stop before they release, the way the library clients of this
interface do; the constant `Polite` says so in both, and in the two liveness properties of `FprintSystem`. The other properties hold for all clients.

### Behaviours to know of

The models show these too. The repository states nothing that they contradict, so they are
not findings, and no property excludes them:

- `Release` resumes the listener and the worker whatever they wait for. With `AddMatch` not
  answered yet, or with a worker that waits for a finger, the daemon ends (848-869). `DiesOnly` says that
  apart from a task that is no longer referred to, only the next two cases end it.
- A listener's filter stays until its listener has left (431-455). A second signal in that time, for which another
  claim's client is enough, resumes the listener while its `RemoveMatch` is pending, and the daemon ends.
- An image of another size than the sensor's ends the daemon, in a build with assertions (254).
- `filter_signal` has a match rule to do (442): it takes any signal. One that announces no departure
  wakes the listener, which removes its rule and leaves, while the claim stays: from then on nobody watches
  its owner. `ClaimWatched` says that nothing else has this effect.
- `name_owner_changed` looks neither at who sent the signal nor at who left (526, 774-813): the late signal of an
  earlier owner, or one that the bus did not send, ends the claim. `ClaimEnds` says what remains true.
- A signal that arrives while no filter is in place is dropped.
- A claim whose owner left before its match rule was installed stays (409-418).
- An event whose last packet is full and not followed by a zero-length one runs into the next event: the assertions
  at 1180 and 1329 end the daemon, or, in a build without assertions, the framing is lost.
- A TLS record with less than a header ends the daemon (1166), while a transfer with less is waited for.
- Events in clear may overtake events inside TLS.
- A departure during an enrollment cancels the worker without `StopSensor` (803).
- Outside of sessions the image queue only grows; the next session's reset empties it.
- `USBInput::handle_error` tests the category of completed transfers twice (1264, 1269), first with a
  value of the other category. An unplugged sensor thus ends the daemon, and `restart()` is not
  reached. `SensorControl` keeps both paths (`Vanished`, `Restart`).
- A sensor that arrives and leaves before its notice is delivered cannot be opened: `abort()` (1925).
- A file that cannot be read or decrypted is served as empty and overwritten by the next change.
- The first scan of an enrollment is taken without a test of its validity (`fingerprint.cpp:26`).

## 4. Proofs

TLAPS proves these for every value of the constants that the named assumptions allow
(`DeviceAssumption`, `StorageAssumption`, `MergeAssumption`, `MatchAssumption`, `ControlAssumption`, `LinkAssumption`),
without any bound on clients, tasks, calls, events, templates, plugs or sizes.

| module | theorems | argument |
|---|---|---|
| `FprintDevice_proofs` | `TypeCorrect` | `TypeOK` is inductive. The queue operations `reset` and `wait_image` and the primitives have a typing lemma each; then one step per action |
| | `GettersAlwaysLive`, `SessionAlwaysOwned`, `NeverStaleStop` | `SessionInv`, their conjunction with `TypeOK` known, is inductive |
| | `DiesOnlyLetGo` | from `HeldAsleep`: what the device object refers to is not scheduled before its await is complete |
| `FprintClaim_proofs` | `ClaimAlwaysEntitled`, `ClaimOnlyEnds`, `PrintsOnlyChange` | the first is inductive with `SessionInv`, and so is that file and memory agree (`SavedInvariant`); the action properties follow, the second with `GoneLeft` |
| | `RuleAlwaysInstalled`, `ClaimAlwaysWatched` | from `CallsPaired` and `RulesCounted`; the second step by step (`WatchedStep`) |
| | `GoneAtMostOnce` | from `OneNotice`: a client that left has at most one notice, on the wire or in the message queue |
| | `OneCollectorAlways` | from `PoliteInv` |
| `FprintSystem_proofs` | `SystemImplementsDevice` | each step of the system, under the mapping, is a step of `FprintDevice` or a stutter, from `LinkInv` |
| | `SystemSessions`, `SystemClaims`, `SystemWatched`, `SystemTasks`, `SystemDies`, `SystemClaimEnds`, `SystemPrints` | the safety properties of `FprintDevice`, of the composed system: the theorems above, instantiated with the mapping, and `SystemImplementsDevice` |
| | `SystemServing` | the safety properties of `SensorControl`, of the composed system: `Served`, with `LinkInv`, is inductive |
| `SensorControl_proofs` | `SensorInvariant`, `OneControlAlways`, `KeyAlwaysBeforeTLS`, `NeverEarlyImages`, `IdleAlwaysArmed`, `DeviceAlwaysListed`, `TaskEndsEarly` | `SensorInv` is inductive |
| `SensorLink_proofs` | `AlwaysSentInOrder` | `OutputInv`: what has arrived, the payload and the bytes still to be read are the numbers from 1 on |
| | `AlwaysFramed`, `AlwaysImplementsChannel` | `Framed`: some number of events is taken whole; buffers, bus, records and TLSEventReader hold together the bytes of the others. Each step that changes a queue is one of `EventChannel` |
| | `AlwaysTidyAccepted` | `TidyFramed`: besides, no buffer is filled in part, the packets of an event not yet taken are the last of it, and each record has bytes of one event and starts it with a header |
| `PrintStorage_proofs` | `AlwaysSynced`, `StorageImplements` | `SavingOK` (a save under way runs in a living process and its file has the prints of memory) and `Synced`; each step maps to a step of `PrintStore` or a stutter |
| `FingerprintMerge_proofs` | `MergeTypeCorrect`, `AlwaysPairwiseGate`, `AlwaysRoundTrip` | a step at a time, over what a scan's least similarity says of the others (`MinSim`) |
| `FingerprintMatch_proofs` | `AlwaysComplete` | the templates tried are at most three and rank above the rest |

Why the strengthenings:

- `NoStaleStop` is not inductive: a stop event is put only while the device
  object lets its task go, but that the put does not reach the next task needs
  `GettersLive` (a getter is a started task without an event) and, at a departure, that the
  cancelled task is unlinked before the put. `SessionOwned` makes a claim's end let its task go.
- `PrintsChange` needs `SessionOwned` for enrollments, as what a worker adds is for the account it was started
  for, and `ClaimEntitled` for the deletes. `ClaimOnlyEnds` has an auxiliary invariant (`GoneLeft`): whoever
  the bus announces as gone, on the wire or in the message queue, has left. Signals of another origin carry no name.
- `RuleInstalled` needs two invariants. `CallsPaired`: a listener has at most one call at the bus or one answer on its
  way, and only while it awaits one, so an answer that arrives is the answer to what the listener asked last.
  `RulesCounted`: a client's rules are at least as many as the listeners that hold one for it (`Granted`: asleep, or
  with an accepting answer under way, or leaving with the request not answered). Listeners of successive claims of
  one client share the bus's count, so one rule per sleeping listener is all that can be said of each.
- `ClaimWatched` is about steps, as no invariant says that a claim is watched: a signal that announces no departure
  ends the watch. A watched listener goes on waiting, is refused, or is woken by a filter, which queues the signal in the
  same step; a queued `NameOwnerChanged` stays in the queue until it is handled (`SignalKept`) and then drops the claim. That an answer reaches
  the listener that asked is `CallsPaired`.
- `DiesOnly` needs that a listener or a worker that the device object refers to is woken only with its result.
  `release` resumes both, but forgets them in the same step. A task that took an image may end it too (`WrongSize`).
- `OneCollector` is about clients that await replies. `PoliteInv` says that a client's call is in one place, on the wire,
  in the message queue or being served; so the owner's `Release`, sent without a task, meets none. A task that was started or let go in a phase of the loop runs before the
  loop polls, and until then its owner is not heard, having no other call under way: so when Start is served nothing
  is left behind. A task that was let go has its stop event or finds it in the queue, and never sleeps in it.
- `ImplementsDevice` maps the event queue to the orders in it (`Orders`). A report that the control task takes maps to a stutter,
  one that it puts to the sensor's put in `FprintDevice`. The latter has a bound, `MaxEvents`, so `LinkInv` counts: what
  has been put on the image queue and what is still to be put are at most what the sensor reported.
- The theorems about `FprintDevice` speak of its own event queue. `FprintSystem_proofs!Proved` is their module with the
  mapping, so they hold of the system's behaviours as `SystemImplementsDevice` maps them; none of the properties carried over
  reads the event queue, so they are the system's own. `SystemServing` does not come this way, as the task of the
  sensor there takes orders that `SensorControl` does not put. `Served` says that the task stays in the event loop and its
  chains, leaves what TLS_Ready has set, and has the sensor armed wherever it is not in the chain that stops it; that nothing
  but orders and reports is in the queue (`LinkInv`) keeps it from initialising the sensor again.
- `SensorInv` says, per step of the initialisation and of the event loop, which of key, TLS, storage, device object and armed
  mode are in place (`FreshSession`, `KeyInPlace`, `TaskMarked`, `ReadyTogether`, `HandshakeFirst`, `ServingArmed`); each property reads
  only the end of that chain.
- `PairwiseGate`: that the least of a scan's similarities is below each of them is the lemma `MinOf`, as `Min` only chooses
  one that is. `ReadWritten` says that reading what was written gives the templates back.

- `ImplementsChannel` says nothing of where the bytes are in between. `Framed` does: there is a number `n` of events such
  that the bytes in the buffers and on the bus, put together, are those of the events after the `n`-th (`Buffered`), the events in
  clear among them are those not received (`Delivered`), and what TLSEventReader has, the records that wait and what is not sealed
  are the bytes of the events inside TLS not received (`Sealed`). A handler that takes an event cuts both sides at the same
  length (`CatSplit`), so what it takes is the event; this is where the assertions are needed.
- `TidyAccepted` needs more than `Framed`, which also holds of an untidy sensor. Packets: a transfer takes full packets only, as many as a
  buffer holds, because the buffer has the size of a number of packets, or ends with the event's short packet
  (`PartTaken`); or the event has filled its transfer, its empty packet is left (`LeftPacket`), and it makes a transfer that holds
  nothing. So a new transfer starts in an empty buffer and nothing overflows it. Records: each has bytes of one event, with a header's length if
  it starts it (`TidyRecords`), and what is not sealed starts with an event unless the last record has its begin
  (`TidyPlain`). The second half is needed for the next record, the first for TLSEventReader, which aborts on less than a header.

Where a fact about all lengths of a queue or all counts is needed (`Orders` of a longer queue, the minimum of a set, what
`FlattenSeq` is of a concatenation), the proof takes a least
counterexample, from the well-foundedness of `<` on the naturals, instead of an induction theorem.

Only model-checked is every liveness property (`DisconnectReleases`, `CallsServed`, `OrphansEnd`, `OrdersServed`, `GoneNoticed`, `EventsArrive`,
`StopReachesSensor`, `ReportReaches`): fairness and ENABLED are beyond the prover.

Proofs about `FprintDevice` take the jinx semantics of section 1 as given.

## 5. Not modelled

- Image processing in `cvext`: floating point; its outcomes are inputs.
- Cryptography: `decrypt` is modelled by what it accepts, the TLS key by whether it is valid.
  libdbus, libusb, OpenSSL and jinx are external and modelled from how the code uses them.
- What a build without assertions does after its framing is lost: `SensorLink` ends there.
- The sizes of buffers and packets are scaled down in `link`; running out of memory ends the daemon in the code
  and is left out.
- The composition with a sensor that fails or leaves: every such path that the code reaches ends the daemon, as
  `SensorControl` shows, and nothing of a session is left to relate.
- Answers of the bus out of order: it answers the daemon's calls in order, only the time-out of a uid lookup may come
  before the answer to an older call.
- The contents of signals beyond what the handlers read, and who sent them: no handler looks at the sender.
- `main`: options and the bus name, once, before anything runs; the test programs and `inotify.hpp`, which the daemon
  does not use; replies and signals to clients and the properties of the D-Bus object, which carry no state.
- `docs/fpc.c`, a stand-alone program that the build does not use.

## 6. Plan

All parts of the daemon's own logic are modelled, and all safety properties of the runs are proved, those of
`FprintDevice` (but the types, as its queue has no reports) and `SensorControl` of their composition too. What is left is beyond the prover: the liveness properties,
which stay with TLC's bounds.
