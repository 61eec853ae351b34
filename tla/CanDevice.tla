------------------------------- MODULE CanDevice -------------------------------
(***************************************************************************)
(* A CAN device (csp_lib/equipment/device/can_device.py) on its client:    *)
(* the frame buffer that several signals share and the scheduler that      *)
(* sends it, the frames that arrive unasked, the requests that wait for    *)
(* one, the snapshot loop that notices silence, and the state that the     *)
(* subscriber of its events shows.  External: the bus, the device, Redis.  *)
(*                                                                         *)
(* A unit of time is one round of the snapshot loop.                       *)
(***************************************************************************)
EXTENDS Integers, Sequences, SequencesExt, Bitwise

CONSTANTS
    Signals,      \* signal of the frame -> [start, bits, low, high], low and high in raw units
    Writes,       \* raw values that are written
    Readings,     \* what the device reports
    Readers,      \* tasks that call read_once
    Evaluators,   \* alarm evaluators of the device
    RxTimeout,
    MaxEvents,    \* bound: events in the emitter's queue
    MaxCalls      \* bound: calls of the device, and breaks of the bus

VARIABLES
    client,       \* _connected, listening, handlers of the frame, pending future
    device,       \* _client_connected, _device_responsive
    silence,      \* time since _last_rx_time, up to RxTimeout + 1
    snapshots,    \* snapshot loops that run
    due,          \* their next round
    emitter,      \* running, queue
    shown,        \* link as told by the last event of it; online key of Redis
    values,       \* _latest_values
    frame,        \* _frame_buffer
    written,      \* the last raw value written to each signal
    sender,       \* the scheduler: running, paused
    wire,         \* the frame the bus saw last
    asking,       \* reader -> where it is
    overtaken,    \* readers whose request met another's
    closing,      \* disconnect is under way, or was crossed by another call
    calls

canVars == <<client, device, silence, snapshots, due, emitter, shown, values, frame, written,
             sender, wire, asking, overtaken, closing, calls>>

Nobody == "nobody"
Never == -1
AskStates == {"idle", "sending", "sent", "got", "late", "done", "failed"}

CanTypes ==
    /\ client.handlers \in 0..MaxCalls /\ client.pending \in Readers \cup {Nobody}
    /\ client.listening => client.connected
    /\ silence \in -1..(RxTimeout + 1)
    /\ snapshots \in 0..MaxCalls
    /\ emitter.queue # <<>> => Len(emitter.queue) <= MaxEvents
    /\ \A r \in Readers : asking[r] \in AskStates
    /\ calls \in 0..MaxCalls

Init ==
    /\ client = [connected |-> FALSE, listening |-> FALSE, handlers |-> 0, pending |-> Nobody]
    /\ device = [connected |-> FALSE, responsive |-> FALSE]
    /\ silence = Never
    /\ snapshots = 0 /\ due = FALSE
    /\ emitter = [running |-> FALSE, queue |-> <<>>]
    /\ shown = [link |-> FALSE, online |-> FALSE]
    /\ values = Never
    /\ frame = 0
    /\ written = [s \in DOMAIN Signals |-> Never]
    /\ sender = [running |-> FALSE, paused |-> FALSE]
    /\ wire = Never
    /\ asking = [r \in Readers |-> "idle"]
    /\ overtaken = {}
    /\ closing = [now |-> FALSE, crossed |-> FALSE]
    /\ calls = 0

Call == calls < MaxCalls /\ calls' = calls + 1

tx == <<frame, written, sender, wire>>
rx == <<values, asking, overtaken>>
life == <<snapshots, due, closing>>

-----------------------------------------------------------------------------
(* The events of the device                                                *)

\* emit: what an emitter that is stopped is given is lost.
Emit(e) == IF emitter.running THEN Append(emitter.queue, e) ELSE emitter.queue

\* StateSyncManager: a reading says that the device is online, as a connection does.
Shows(e) == [link |-> IF e = "read" THEN shown.link ELSE e = "connected",
             online |-> e \in {"read", "connected"}]

\* The worker of the emitter.
Handle ==
    /\ emitter.queue # <<>>
    /\ shown' = Shows(Head(emitter.queue))
    /\ emitter' = [emitter EXCEPT !.queue = Tail(@)]
    /\ UNCHANGED <<client, device, silence, life, rx, tx, calls>>

-----------------------------------------------------------------------------
(* connect, start, stop, disconnect                                        *)

\* The handlers are subscribed once more by every connect; CONNECTED is awaited
\* and may overtake what is queued.
Connect ==
    /\ Call
    /\ client' = [client EXCEPT !.connected = TRUE, !.listening = TRUE, !.handlers = @ + 1]
    /\ emitter' = [emitter EXCEPT !.running = TRUE]
    /\ device' = [connected |-> TRUE, responsive |-> TRUE]
    /\ silence' = 0
    /\ shown' = Shows("connected")
    /\ closing' = [closing EXCEPT !.crossed = @ \/ closing.now \/ emitter.queue # <<>>]
    /\ UNCHANGED <<snapshots, due, rx, tx>>

\* client.connect raises.
ConnectFails == ~client.connected /\ Call /\ UNCHANGED <<client, device, silence, life, emitter, shown, rx, tx>>

\* A second start leaves the loop of the first one running.
Start ==
    /\ Call
    /\ sender' = [sender EXCEPT !.running = TRUE]
    /\ snapshots' = snapshots + 1 /\ due' = TRUE
    /\ closing' = [closing EXCEPT !.crossed = @ \/ snapshots > 0 \/ closing.now \/ ~device.connected]
    /\ UNCHANGED <<client, device, silence, emitter, shown, rx, frame, written, wire>>

\* Mutant: stop leaves the scheduler running.
StillSending == sender

\* PeriodicSendScheduler.stop.
SenderStopped == [sender EXCEPT !.running = FALSE]

StopTasks ==
    /\ snapshots' = IF snapshots > 0 THEN snapshots - 1 ELSE 0
    /\ due' = (due /\ snapshots > 1)
    /\ sender' = SenderStopped

Stop ==
    /\ Call /\ StopTasks
    /\ UNCHANGED <<client, device, silence, emitter, shown, closing, rx, frame, written, wire>>

\* Up to the await of stop_listener; every subscription is taken back.
Disconnect ==
    /\ Call /\ StopTasks
    /\ client' = [client EXCEPT !.handlers = 0]
    /\ closing' = IF device.connected THEN [closing EXCEPT !.now = TRUE, !.crossed = @ \/ closing.now]
                  ELSE closing
    /\ UNCHANGED <<device, silence, emitter, shown, rx, frame, written, wire>>

\* The bus is shut; DISCONNECTED is awaited before the emitter drains its queue.
Disconnected ==
    /\ closing.now
    /\ client' = [client EXCEPT !.connected = FALSE, !.listening = FALSE]
    /\ device' = [connected |-> FALSE, responsive |-> FALSE]
    /\ shown' = IF emitter.queue = <<>> THEN Shows("disconnected") ELSE Shows(Last(emitter.queue))
    /\ emitter' = [running |-> FALSE, queue |-> <<>>]
    /\ closing' = [closing EXCEPT !.now = FALSE]
    /\ UNCHANGED <<silence, snapshots, due, rx, tx, calls>>

-----------------------------------------------------------------------------
(* Frames that arrive                                                      *)

\* Mutant: a device that is heard again is not announced.
Silently(q) == q

\* _process_rx_frame announces a device that is heard again.
Announced(q) == IF emitter.running THEN Append(q, "connected") ELSE q

Process(value) ==
    /\ silence' = 0
    /\ values' = value
    /\ IF ~device.responsive /\ device.connected
       THEN /\ Len(emitter.queue) < MaxEvents
            /\ device' = [device EXCEPT !.responsive = TRUE]
            /\ emitter' = [emitter EXCEPT !.queue = Announced(@)]
       ELSE UNCHANGED <<device, emitter>>

\* A periodic frame, handed to its subscribers.
Receive(value) ==
    /\ client.listening /\ client.handlers > 0
    /\ Process(value)
    /\ UNCHANGED <<client, shown, life, asking, overtaken, tx, calls>>

Pass ==
    /\ ~due
    /\ silence \in 0..RxTimeout
    /\ silence' = silence + 1
    /\ due' = (snapshots > 0)
    /\ UNCHANGED <<client, device, snapshots, closing, emitter, shown, rx, tx, calls>>

\* _snapshot_loop: _evaluate_alarm reads _disabled_points, which a CAN device does not have;
\* the exception ends the loop of a device that has evaluators.
Round ==
    /\ due /\ due' = FALSE
    /\ Len(emitter.queue) + 2 <= MaxEvents
    /\ LET read == Emit("read")
           gone == Evaluators = {} /\ silence > RxTimeout /\ device.responsive
       IN  /\ device' = [device EXCEPT !.responsive = @ /\ ~gone]
           /\ emitter' = [emitter EXCEPT !.queue =
                  IF gone /\ emitter.running THEN Append(read, "disconnected") ELSE read]
    /\ snapshots' = IF Evaluators = {} THEN snapshots ELSE 0
    /\ UNCHANGED <<client, silence, shown, closing, rx, tx, calls>>

-----------------------------------------------------------------------------
(* Requests                                                                *)

\* Mutant: the future is not in place before the request is sent.
TooLate(slot, r) == slot

\* request: one future for each response id; a second request takes the place of the first.
Registered(slot, r) == r

Ask(r) ==
    /\ asking[r] = "idle" /\ Call
    /\ asking' = [asking EXCEPT ![r] = "sending"]
    /\ client' = [client EXCEPT !.pending = Registered(@, r)]
    /\ LET others == {s \in Readers : asking[s] \in {"sending", "sent", "got", "late"}}
       IN  overtaken' = overtaken \cup others \cup (IF others = {} THEN {} ELSE {r})
    /\ UNCHANGED <<device, silence, life, emitter, shown, values, tx>>

\* send: raises when the client is not connected.
Sent(r) ==
    /\ asking[r] = "sending"
    /\ asking' = [asking EXCEPT ![r] = IF client.connected THEN "sent" ELSE "failed"]
    /\ client' = IF client.connected THEN client ELSE [client EXCEPT !.pending = Nobody]
    /\ UNCHANGED <<device, silence, life, emitter, shown, values, overtaken, tx, calls>>

\* The response comes; the future it finds is completed, the subscribers have none of it.
Answer ==
    /\ client.listening
    /\ \E r \in Readers : asking[r] = "sent"
    /\ asking' = [r \in Readers |-> IF asking[r] = "sent"
                                    THEN IF client.pending = r THEN "got" ELSE "late"
                                    ELSE asking[r]]
    /\ UNCHANGED <<client, device, silence, life, emitter, shown, values, overtaken, tx, calls>>

\* The reader goes on with the frame, and takes whatever future is pending out.
Got(r, value) ==
    /\ asking[r] = "got"
    /\ asking' = [asking EXCEPT ![r] = "done"]
    /\ client' = [client EXCEPT !.pending = Nobody]
    /\ Process(value)
    /\ UNCHANGED <<shown, life, overtaken, tx, calls>>

\* wait_for runs out: no response, or one that found another's future.
TimesOut(r) ==
    /\ asking[r] \in {"sent", "late"}
    /\ asking' = [asking EXCEPT ![r] = "failed"]
    /\ client' = [client EXCEPT !.pending = Nobody]
    /\ UNCHANGED <<device, silence, life, emitter, shown, values, overtaken, tx, calls>>

AskAgain(r) ==
    /\ asking[r] \in {"done", "failed"}
    /\ asking' = [asking EXCEPT ![r] = "idle"] /\ overtaken' = overtaken \ {r}
    /\ UNCHANGED <<client, device, silence, life, emitter, shown, values, tx, calls>>

-----------------------------------------------------------------------------
(* Signals                                                                 *)

Bits(s) == 2^Signals[s].bits - 1

\* encode_physical: into the range of the signal, and of its bits.
Encoded(s, raw) ==
    LET high == IF Signals[s].high < Bits(s) THEN Signals[s].high ELSE Bits(s)
    IN  IF raw > high THEN IF high < Signals[s].low THEN Signals[s].low ELSE high
        ELSE IF raw < Signals[s].low THEN Signals[s].low ELSE raw

\* CANFrameParser._extract_field.
Extracted(buffer, s) == (buffer \div 2^Signals[s].start) % (Bits(s) + 1)

\* Mutant: the bits of the value are set, those of the last one stay.
OredIn(buffer, s, raw) == buffer | (raw * 2^Signals[s].start)

\* pack_field: the field is cleared, then set.
Packed(buffer, s, raw) ==
    buffer + ((raw % (Bits(s) + 1)) - Extracted(buffer, s)) * 2^Signals[s].start

\* write: a value whose immediate sending fails stays in the buffer.
Write(s, raw, immediate) ==
    /\ Call
    /\ frame' = Packed(frame, s, Encoded(s, raw))
    /\ written' = [written EXCEPT ![s] = raw]
    /\ wire' = IF immediate /\ client.connected THEN frame' ELSE wire
    /\ UNCHANGED <<client, device, silence, life, emitter, shown, rx, sender>>

\* _send_loop.
Send ==
    /\ sender.running /\ ~sender.paused /\ client.connected
    /\ wire' = frame
    /\ UNCHANGED <<client, device, silence, life, emitter, shown, rx, frame, written, sender, calls>>

PauseOrResume ==
    /\ Call
    /\ sender' = [sender EXCEPT !.paused = ~@]
    /\ UNCHANGED <<client, device, silence, life, emitter, shown, rx, frame, written, wire>>

Next ==
    \/ Handle \/ Connect \/ ConnectFails \/ Start \/ Stop \/ Disconnect \/ Disconnected
    \/ Pass \/ Round \/ Answer \/ Send \/ PauseOrResume
    \/ \E value \in Readings : Receive(value)
    \/ \E r \in Readers : Ask(r) \/ Sent(r) \/ TimesOut(r) \/ AskAgain(r)
    \/ \E r \in Readers, value \in Readings : Got(r, value)
    \/ \E s \in DOMAIN Signals, raw \in Writes, immediate \in BOOLEAN : Write(s, raw, immediate)

Spec == Init /\ [][Next]_canVars

-----------------------------------------------------------------------------
(* Properties                                                              *)

\* Signals that share a frame keep apart: whatever was written to the others since, each
\* decodes to the value written last, brought into its range.
SignalsApart ==
    \A s \in DOMAIN Signals : written[s] # Never => Extracted(frame, s) = Encoded(s, written[s])

\* What the events say of the link is what the device knows, once they are handled; and a
\* device that is disconnected runs nothing, unless calls crossed or came twice.
LinkTold ==
    /\ device.connected /\ ~closing.crossed /\ emitter.queue = <<>> => shown.link = device.responsive
    /\ ~device.connected /\ ~closing.crossed =>
         snapshots = 0 /\ ~sender.running /\ client.handlers = 0 /\ ~client.listening

\* A response in time reaches the reader that asked, unless another asked for it meanwhile.
AnswerArrives == \A r \in Readers : asking[r] = "late" => r \in overtaken

CanSound == SignalsApart /\ LinkTold /\ AnswerArrives

\* A device with a running loop that was silent for longer than rx_timeout is not responsive
\* (docs/04-Equipment/AsyncCANDevice.md).
TimeoutNoticed ==
    device.connected /\ ~closing.crossed /\ ~due /\ sender.running /\ silence > RxTimeout
        => ~device.responsive
=============================================================================
