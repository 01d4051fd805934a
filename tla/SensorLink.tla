------------------------------- MODULE SensorLink ------------------------------
(***************************************************************************)
(* The byte streams between the sensor and the daemon: first what TLS      *)
(* writes in the handshake, it writes nothing later, then the events.      *)
(* USBInput puts events together from bulk transfers and passes ev_tls     *)
(* events on to TLS; TLSEventReader puts events together from what TLS     *)
(* gives; USBOutput carries TLS output to the sensor.  A byte is the       *)
(* number of the event that it belongs to.  Sizes are scaled down; the     *)
(* sensor, libusb and TLS are external.                                    *)
(***************************************************************************)
EXTENDS Naturals, Sequences, SequencesExt

CONSTANTS HEADER,      \* sizeof(fpc_event)
          PACKET,      \* wMaxPacketSize of the endpoint
          BUFFER,      \* FPCBufferConfig::Size
          ClearLength, \* lengths of events in clear
          TLSLength,   \* lengths of ev_tls events
          InnerLength, \* lengths of events inside TLS
          HANDSHAKE,   \* bytes that the daemon's TLS writes
          MaxEvents,   \* bound: events on the bus
          MaxSecure    \* bound: events inside TLS

Length == ClearLength \cup TLSLength \cup InnerLength

ASSUME LinkAssumption ==
    /\ {HEADER, PACKET, BUFFER, HANDSHAKE, MaxEvents, MaxSecure} \subseteq Nat
    /\ HEADER > 0 /\ PACKET > 0 /\ HEADER < BUFFER /\ BUFFER % PACKET = 0
    /\ \A n \in Length : n \in Nat /\ n >= HEADER

VARIABLES
    tidy,            \* the sensor ends each event with a short packet and starts
                     \* a TLS record with each event
    failed,          \* "none", or what has ended the daemon or its framing
    sent, received,  \* whole events per channel, in order
    usb,             \* packets on the bus
    onBus,           \* the events on the bus: their length and TLS record
    plain,           \* bytes that the sensor has not sealed in a record yet
    \* USBInput
    pc, _buffers, _received_length, _buffer_index,
    \* TLSEventReader
    bio,             \* records that TLS can read
    tls_buffers,
    \* USBOutput
    bio_out,         \* bytes that TLS has written
    _payload, output,
    arrived          \* bytes that the sensor has got

inputVars  == <<pc, _buffers, _received_length, _buffer_index>>
outputVars == <<bio_out, _payload, output, arrived>>
sensorVars == <<usb, onBus, plain, sent>>
vars == <<tidy, failed, received, sensorVars, inputVars, bio, tls_buffers, outputVars>>

Bytes(n, length) == [i \in 1..length |-> n]
Channels == {"clear", "secure"}
Fail(how) == failed' = how

-------------------------------------------------------------------------------
\* The sensor.

\* The packets of one write; a closed one ends in a short packet.
Packets(b, closed) ==
    LET full == Len(b) \div PACKET
    IN  [i \in 1..full |-> SubSeq(b, (i - 1) * PACKET + 1, i * PACKET)]
        \o (IF Len(b) % PACKET # 0 THEN <<SubSeq(b, full * PACKET + 1, Len(b))>>
            ELSE IF closed THEN << <<>> >> ELSE <<>>)

Writes(b) ==
    IF tidy THEN {Packets(b, TRUE)}
    ELSE {Packets(b, FALSE)} \cup
         {Packets(SubSeq(b, 1, k), TRUE) \o Packets(SubSeq(b, k + 1, Len(b)), TRUE) :
             k \in 1..HEADER}

\* The handshake is over: the sensor has everything that TLS wrote.
Established == Len(arrived) = HANDSHAKE /\ output = "read_bio_stream"

PutOnBus(length, record) ==
    /\ failed = "none" /\ Established /\ Len(onBus) < MaxEvents
    /\ onBus' = Append(onBus, [length |-> length, record |-> record])
    /\ \E packets \in Writes(Bytes(Len(onBus'), length)) : usb' = usb \o packets

SendClear ==
    /\ \E length \in ClearLength :
        /\ PutOnBus(length, <<>>)
        /\ sent' = [sent EXCEPT !.clear = Append(@, Bytes(Len(onBus'), length))]
    /\ UNCHANGED <<tidy, failed, received, plain, inputVars, bio, tls_buffers, outputVars>>

SendSecure ==
    /\ failed = "none" /\ Established /\ Len(sent.secure) < MaxSecure
    /\ \E length \in InnerLength :
        LET e == Bytes(Len(sent.secure) + 1, length)
        IN  plain' = plain \o e /\ sent' = [sent EXCEPT !.secure = Append(@, e)]
    /\ UNCHANGED <<tidy, failed, received, usb, onBus, inputVars, bio, tls_buffers, outputVars>>

\* A record of a tidy sensor holds bytes of one event, its header among the first.
TidyRecord(r) ==
    /\ r[Len(r)] = r[1]
    /\ IsPrefix(sent.secure[r[1]], plain) => Len(r) >= HEADER

\* The sensor's TLS seals a record; it travels as one ev_tls event.
Seal ==
    /\ plain # <<>>
    /\ \E k \in 1..Len(plain), length \in TLSLength :
        LET r == SubSeq(plain, 1, k) IN
        /\ tidy => TidyRecord(r)
        /\ PutOnBus(length, r)
        /\ plain' = SubSeq(plain, k + 1, Len(plain))
    /\ UNCHANGED <<tidy, failed, received, sent, inputVars, bio, tls_buffers, outputVars>>

-------------------------------------------------------------------------------
\* USBInput.

\* prepare(): a transfer goes into the room that is left in the last buffer, or
\* into a new one.
Room == BUFFER - Len(Last(_buffers))
Transfer == IF Room = 0 THEN Append(_buffers, <<>>) ELSE _buffers
Wanted   == IF Room = 0 THEN BUFFER ELSE Room

\* A bulk transfer takes full packets up to and including a short one, or until
\* it is full.
Before(k) == /\ \A i \in 1..(k - 1) : Len(usb[i]) = PACKET
             /\ (k - 1) * PACKET < Wanted
Total(k) == (k - 1) * PACKET + Len(usb[k])
Done(k) == /\ Before(k) /\ Total(k) <= Wanted
           /\ Len(usb[k]) < PACKET \/ Total(k) = Wanted

\* A packet that does not fit is an error of the transfer, which nobody handles.
Overflow ==
    /\ failed = "none" /\ pc = "recv"
    /\ \E k \in DOMAIN usb : Before(k) /\ Total(k) > Wanted
    /\ Fail("overflow")
    /\ UNCHANGED <<tidy, received, sensorVars, inputVars, bio, tls_buffers, outputVars>>

\* Mutant of Excess: the assertion is not compiled in.
Excess_Unchecked(have, length) == FALSE

\* assert(_received_length == _event_length); a build without assertions takes
\* the rest for the head of an event from here on, which is not followed.
Excess(have, length) == have > length

\* Mutant of NextCount: the count of the last event is kept.
NextCount_Kept(have) == have

\* _received_length = 0 for the next event.
NextCount(have) == 0

\* prepare() with no buffers left.
Emptied == _buffers' = << <<>> >>

\* parse(): the first buffer has to hold a header, and all of them the length it
\* names.  The mode is ModeRecv when the header is there.
parse ==
    /\ failed = "none" /\ pc = "recv"
    /\ \E k \in DOMAIN usb :
        LET data  == FlattenSeq(SubSeq(usb, 1, k))
            bufs  == [Transfer EXCEPT ![Len(Transfer)] = @ \o data]
            have  == _received_length + Len(data)
            event == onBus[bufs[1][1]]
            whole == IF Len(bufs[1]) < HEADER THEN FALSE ELSE have >= event.length
        IN
        /\ Done(k)
        /\ usb' = SubSeq(usb, k + 1, Len(usb))
        /\ \/ /\ ~whole
              /\ _buffers' = bufs /\ _received_length' = have
              /\ UNCHANGED <<failed, received, pc, _buffer_index>>
           \/ /\ whole /\ Excess(have, event.length)
              /\ Fail("misframed")
              /\ UNCHANGED <<received, inputVars>>
           \/ /\ whole /\ ~Excess(have, event.length)
              /\ \/ /\ event.record = <<>>
                    /\ received' = [received EXCEPT !.clear = Append(@, FlattenSeq(bufs))]
                    /\ Emptied
                    /\ UNCHANGED <<pc, _buffer_index>>
                 \/ /\ event.record # <<>>
                    /\ pc' = "handle_tls_data" /\ _buffer_index' = 1
                    /\ _buffers' = bufs
                    /\ UNCHANGED received
              /\ _received_length' = NextCount(have)
              /\ UNCHANGED failed
    /\ UNCHANGED <<tidy, onBus, plain, sent, bio, tls_buffers, outputVars>>

\* Mutant of Passed: the last buffer is not written.
Passed_Early == _buffer_index >= Len(_buffers)

\* handle_tls_data(): the buffers are written one by one.
Passed == _buffer_index > Len(_buffers)

\* TLS can read the record when its last byte is there, at the latest with the
\* last buffer of the event.
handle_tls_data ==
    /\ failed = "none" /\ pc = "handle_tls_data"
    /\ \/ /\ Passed
          /\ pc' = "recv" /\ _buffer_index' = 0 /\ Emptied
          /\ UNCHANGED <<_received_length, bio>>
       \/ /\ ~Passed
          /\ _buffer_index' = _buffer_index + 1
          /\ bio' = IF _buffer_index = Len(_buffers)
                    THEN Append(bio, onBus[_buffers[1][1]].record) ELSE bio
          /\ UNCHANGED <<pc, _buffers, _received_length>>
    /\ UNCHANGED <<tidy, failed, received, sensorVars, tls_buffers, outputVars>>

-------------------------------------------------------------------------------
\* TLSEventReader.  SSL_read gives bytes of one record, as many as a buffer holds.

Shorter(a, b) == IF a < b THEN a ELSE b

\* process(): unlike USBInput it does not wait for the rest of a header.
process ==
    /\ failed = "none" /\ bio # <<>>
    /\ LET n      == Shorter(BUFFER, Len(bio[1]))
           data   == SubSeq(bio[1], 1, n)
           bytes  == tls_buffers \o data
           length == Len(sent.secure[bytes[1]])
       IN
       /\ bio' = IF n = Len(bio[1]) THEN Tail(bio)
                 ELSE [bio EXCEPT ![1] = SubSeq(@, n + 1, Len(@))]
       /\ \/ /\ tls_buffers = <<>> /\ n < HEADER
             /\ Fail("abort")
             /\ UNCHANGED <<received, tls_buffers>>
          \/ /\ tls_buffers # <<>> \/ n >= HEADER
             /\ \/ /\ Len(bytes) < length
                   /\ tls_buffers' = bytes
                   /\ UNCHANGED <<failed, received>>
                \/ /\ Excess(Len(bytes), length)
                   /\ Fail("misframed")
                   /\ UNCHANGED <<received, tls_buffers>>
                \/ /\ Len(bytes) >= length /\ ~Excess(Len(bytes), length)
                   /\ received' = [received EXCEPT !.secure = Append(@, bytes)]
                   /\ tls_buffers' = <<>>
                   /\ UNCHANGED failed
    /\ UNCHANGED <<tidy, sensorVars, inputVars, outputVars>>

-------------------------------------------------------------------------------
\* USBOutput: what TLS writes, byte by byte in order, to control transfers.

Left    == Len(_payload.bytes) - _payload.consumed
Written == Len(arrived) + Left + Len(bio_out)

TLSWrites ==
    /\ failed = "none"
    /\ \E n \in 1..HANDSHAKE :
        /\ Written + n <= HANDSHAKE
        /\ bio_out' = bio_out \o [i \in 1..n |-> Written + i]
    /\ UNCHANGED <<tidy, failed, received, sensorVars, inputVars, bio, tls_buffers,
                   _payload, output, arrived>>

\* Mutant of Capacity: the payload holds a whole buffer.
Capacity_Buffer == BUFFER

\* The payload holds one packet.
Capacity == PACKET

read_bio_stream ==
    /\ failed = "none" /\ output = "read_bio_stream" /\ bio_out # <<>>
    /\ LET n == Shorter(Capacity, Len(bio_out)) IN
       /\ _payload' = [bytes |-> SubSeq(bio_out, 1, n), consumed |-> 0]
       /\ bio_out' = SubSeq(bio_out, n + 1, Len(bio_out))
    /\ output' = "send"
    /\ UNCHANGED <<tidy, failed, received, sensorVars, inputVars, bio, tls_buffers, arrived>>

\* send(): a transfer starts at the begin of the buffer, whatever was consumed.
\* It fails without a trace if the sensor is gone, and ends the daemon otherwise.
send ==
    /\ failed = "none" /\ output = "send"
    /\ LET size == Shorter(Left, PACKET)
       IN  \/ /\ Left = 0
              /\ output' = "read_bio_stream"
              /\ _payload' = [bytes |-> <<>>, consumed |-> 0]
              /\ UNCHANGED <<failed, arrived>>
           \/ /\ Left > 0
              /\ _payload' = [_payload EXCEPT !.consumed = @ + size]
              /\ arrived' = arrived \o SubSeq(_payload.bytes, 1, size)
              /\ UNCHANGED <<failed, output>>
           \/ /\ Left > 0
              /\ \/ output' = "done" /\ UNCHANGED failed
                 \/ Fail("transfer") /\ UNCHANGED output
              /\ UNCHANGED <<_payload, arrived>>
    /\ UNCHANGED <<tidy, received, sensorVars, inputVars, bio, tls_buffers, bio_out>>

-------------------------------------------------------------------------------
Init ==
    /\ tidy \in BOOLEAN /\ failed = "none"
    /\ sent = [c \in Channels |-> <<>>] /\ received = [c \in Channels |-> <<>>]
    /\ usb = <<>> /\ onBus = <<>> /\ plain = <<>>
    /\ pc = "recv" /\ _buffers = << <<>> >> /\ _received_length = 0 /\ _buffer_index = 0
    /\ bio = <<>> /\ tls_buffers = <<>>
    /\ bio_out = <<>> /\ _payload = [bytes |-> <<>>, consumed |-> 0]
    /\ output = "read_bio_stream" /\ arrived = <<>>

USBInput == Overflow \/ parse \/ handle_tls_data

Next == \/ SendClear \/ SendSecure \/ Seal
        \/ USBInput \/ process
        \/ TLSWrites \/ read_bio_stream \/ send

Spec == Init /\ [][Next]_vars

\* libusb completes transfers and the loop runs the readers.
Fairness == WF_vars(USBInput) /\ WF_vars(process)
FairSpec == Spec /\ Fairness

-------------------------------------------------------------------------------
\* However writes, packets, buffers and records are cut, the event queue gets
\* whole events of each channel in the order sent, until an assertion or an error
\* stops it: no byte of one event is taken for one of the next, even from an untidy
\* sensor.
Events == {Bytes(n, length) : n \in 1..(MaxEvents + MaxSecure), length \in Length}
Channel == INSTANCE EventChannel WITH
    Channel <- Channels, Event <- Events, broken <- failed # "none"
ImplementsChannel == Channel!Spec

\* The framing assertions and checks never end the daemon if the sensor is tidy,
\* whatever the lengths: events of a whole number of packets or buffers included.
Tolerated == {"none", "transfer"}
TidyAccepted == tidy => failed \in Tolerated

Behind(c) == /\ failed = "none"
             /\ \E n \in DOMAIN sent[c] :
                   n > Len(received[c]) /\ (c = "secure" => ~Contains(plain, n))

\* Each event of a tidy sensor comes out: none that the sensor has sent waits in a
\* transfer or a record for its end.
EventsArrive ==
    tidy => \A c \in Channels : Behind(c) ~> ~Behind(c)

\* The sensor gets what TLS wrote, each byte once and in order.
SentInOrder == \A i \in DOMAIN arrived : arrived[i] = i
================================================================================
