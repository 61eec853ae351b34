-------------------------------- MODULE Device --------------------------------
(***************************************************************************)
(* One device of csp_lib/equipment/device, what reads it, and the alarm    *)
(* records the outside keeps of it.  A device is read by a task of its own *)
(* (AsyncModbusDevice._read_loop) or in turn with others by a group        *)
(* (DeviceGroup._sequential_loop); failures in a row make it unresponsive, *)
(* an alarm bit goes through a hysteresis (AlarmStateManager), and each    *)
(* change is told with emit_await to AlarmPersistenceManager, which awaits *)
(* its repository.  Stopping cancels the reader wherever it is suspended.  *)
(*                                                                         *)
(* The device and the repository are external: any connect or read fails   *)
(* or succeeds, a read finds the alarm bit set or not.                     *)
(***************************************************************************)
EXTENDS Naturals, Sequences, FiniteSetsExt

CONSTANTS
    Readers,        \* who may read the device, of "loop", "group"
    Threshold,      \* disconnect_threshold
    ActivateAfter,  \* activate_threshold and
    ClearAfter,     \* clear_threshold of the alarm
    MayFail         \* what may happen, of "repository"

\* HysteresisConfig and DeviceConfig accept no threshold below 1.
ASSUME DeviceAssumption ==
    Threshold \in Nat \ {0} /\ ActivateAfter \in Nat \ {0} /\ ClearAfter \in Nat \ {0}

VARIABLES
    reader,      \* "loop" or "group"
    connected,   \* _client_connected
    responsive,  \* _device_responsive
    failures,    \* _consecutive_failures, up to the threshold
    alarm,       \* the AlarmState: active, activate_count, clear_count
    reading,     \* where the reader is, what it has read, what it emits
    app,         \* where the application's call is, what it emits
    record,      \* the records that are ACTIVE in the repository
    everUp,      \* history: the device was responsive once
    bits,        \* history: the last readings of the alarm bit
    cut          \* history: what went wrong with a handler

deviceVars == <<reader, connected, responsive, failures, alarm, reading, app,
                record, everUp, bits, cut>>
status == <<connected, responsive, failures, everUp>>

Events == {"connected", "disconnected", "triggered", "cleared"}
NoEvent == "none"

\* A task that emits is suspended in the handler, before its find, its insert or its
\* update; then tells what it does afterwards.
At(p) == [at |-> p, event |-> NoEvent, step |-> "none", then |-> "none", bit |-> FALSE]

DeviceTypes ==
    /\ reader \in Readers
    /\ connected \in BOOLEAN /\ responsive \in BOOLEAN
    /\ failures \in 0..Threshold
    /\ alarm \in [active : BOOLEAN, up : 0..ActivateAfter, down : 0..ClearAfter]
    /\ \A t \in {reading, app} :
         /\ t.at \in {"off", "sleeping", "connecting", "reading", "disconnecting", "emitting"}
         /\ t.event \in Events \cup {NoEvent}
         /\ t.step \in {"none", "find", "insert", "update"}
         /\ t.then \in {"none", "read", "evaluate", "sleeping", "off"}
         /\ t.bit \in BOOLEAN
    /\ record \in [down : BOOLEAN, alarm : BOOLEAN]
    /\ everUp \in BOOLEAN /\ bits \in Seq(BOOLEAN)
    /\ cut \subseteq {"cancelled", "raised", "raced"}
    /\ responsive => everUp
    \* the loop's own reader is never unresponsive without having connected
    /\ responsive => connected

DeviceInit ==
    /\ reader \in Readers
    /\ connected = FALSE /\ responsive = FALSE /\ failures = 0
    /\ alarm = [active |-> FALSE, up |-> 0, down |-> 0]
    /\ reading = At("off") /\ app = At("off")
    /\ record = [down |-> FALSE, alarm |-> FALSE]
    /\ everUp = FALSE /\ bits = <<>> /\ cut = {}

-----------------------------------------------------------------------------
(* Events and the repository (external)                                    *)

\* A task that has emitted e with emit_await, and goes on with k: the handlers of
\* disconnections and alarms call upsert, the others resolve.
Emitting(e, k, bit) ==
    [at |-> "emitting", event |-> e,
     step |-> IF e \in {"disconnected", "triggered"} THEN "find" ELSE "update",
     then |-> k, bit |-> bit]

\* The record an event is about.
About(e) == IF e \in {"connected", "disconnected"} THEN "down" ELSE "alarm"

\* What the repository has once the call the task t is suspended in has been carried
\* out there.
Performed(t) ==
    IF t.step = "none" \/ t.step = "find" THEN record
    ELSE [record EXCEPT ![About(t.event)] = (t.step = "insert")]

-----------------------------------------------------------------------------
(* The alarm's hysteresis                                                  *)

\* Mutant: a reading that clears the bit leaves the count of those that set it.
KeepsCount(a, bit) ==
    LET up == IF bit THEN Min({a.up + 1, ActivateAfter}) ELSE a.up
        down == IF bit THEN 0 ELSE Min({a.down + 1, ClearAfter})
    IN  [active |-> IF bit THEN a.active \/ up >= ActivateAfter
                    ELSE a.active /\ down < ClearAfter,
         up |-> up, down |-> down]

\* AlarmState.update; the counts are told apart up to their thresholds.
Evaluated(a, bit) ==
    LET up == IF bit THEN Min({a.up + 1, ActivateAfter}) ELSE 0
        down == IF bit THEN 0 ELSE Min({a.down + 1, ClearAfter})
    IN  [active |-> IF bit THEN a.active \/ up >= ActivateAfter
                    ELSE a.active /\ down < ClearAfter,
         up |-> up, down |-> down]

\* The readings that are remembered to compare the hysteresis with.
Remembered == Max({ActivateAfter, ClearAfter})
Remember(s, bit) ==
    LET all == Append(s, bit)
    IN  SubSeq(all, Max({1, Len(all) + 1 - Remembered}), Len(all))

\* _evaluate_alarm, of the bit that was read: it emits what has changed, and the
\* reader goes to sleep; gone is what has gone wrong with a handler so far.
Evaluate(bit, gone) ==
    LET a == Evaluated(alarm, bit)
    IN  /\ alarm' = a
        /\ bits' = Remember(bits, bit)
        /\ reading' =
             IF a.active = alarm.active THEN At("sleeping")
             ELSE Emitting(IF a.active THEN "triggered" ELSE "cleared", "sleeping", FALSE)
        /\ cut' = IF a.active # alarm.active /\ app.event = "cleared"
                  THEN gone \cup {"raced"} ELSE gone

-----------------------------------------------------------------------------
(* The reader                                                              *)

\* A round begins: the loop connects a client that is not connected, read_once does
\* so for a group.
Wake ==
    /\ reading.at = "sleeping"
    /\ reading' = At(IF connected THEN "reading" ELSE "connecting")
    /\ UNCHANGED <<reader, status, alarm, bits, app, record, cut>>

\* The client connects.  The loop takes the device to be responsive and says so;
\* read_once waits for the answer of the read.
ReaderConnects ==
    /\ reading.at = "connecting"
    /\ connected' = TRUE
    /\ failures' = 0
    /\ IF reader = "loop"
       THEN /\ responsive' = TRUE /\ everUp' = TRUE
            /\ reading' = Emitting("connected", "read", FALSE)
       ELSE /\ reading' = At("reading")
            /\ UNCHANGED <<responsive, everUp>>
    /\ UNCHANGED <<reader, alarm, bits, app, record, cut>>

ReaderConnectFails ==
    /\ reading.at = "connecting"
    /\ reading' = At("sleeping")
    /\ UNCHANGED <<reader, status, alarm, bits, app, record, cut>>

\* Mutant: an answer of an unresponsive device is not told.
SilentReturn == FALSE

WasUnresponsive == ~responsive

\* read_once has its values.
ReadOk ==
    /\ reading.at = "reading"
    /\ failures' = 0
    /\ responsive' = TRUE /\ everUp' = TRUE
    /\ \E bit \in BOOLEAN :
         IF WasUnresponsive
         THEN /\ reading' = Emitting("connected", "evaluate", bit)
              /\ UNCHANGED <<alarm, bits, cut>>
         ELSE Evaluate(bit, cut)
    /\ UNCHANGED <<reader, connected, app, record>>

\* _handle_read_failure and _check_disconnect_threshold.
ReadFails ==
    /\ reading.at = "reading"
    /\ failures' = Min({failures + 1, Threshold})
    /\ IF failures' >= Threshold /\ responsive
       THEN /\ responsive' = FALSE
            /\ reading' = Emitting("disconnected", "sleeping", FALSE)
       ELSE /\ UNCHANGED responsive
            /\ reading' = At("sleeping")
    /\ UNCHANGED <<reader, connected, everUp, alarm, bits, app, record, cut>>

\* The handlers have returned: the reader goes on.
GoOn(gone) ==
    IF reading.then = "evaluate" THEN Evaluate(reading.bit, gone)
    ELSE /\ reading' = At(IF reading.then = "read" THEN "reading" ELSE "sleeping")
         /\ cut' = gone
         /\ UNCHANGED <<alarm, bits>>

\* upsert: an active record of the key is not inserted again.
Found(t) == t.step = "find" /\ ~record[About(t.event)]

\* The repository has answered the reader's handler.
ReaderAnswered ==
    /\ reading.at = "emitting"
    /\ record' = Performed(reading)
    /\ IF Found(reading)
       THEN reading' = [reading EXCEPT !.step = "insert"] /\ UNCHANGED <<alarm, bits, cut>>
       ELSE GoOn(cut)
    /\ UNCHANGED <<reader, status, app>>

\* The repository raises; _process_event logs it and the event is not repeated.
ReaderRaises ==
    /\ "repository" \in MayFail
    /\ reading.at = "emitting"
    /\ record' \in {record, Performed(reading)}
    /\ GoOn(cut \cup {"raised"})
    /\ UNCHANGED <<reader, status, app>>

-----------------------------------------------------------------------------
(* The application                                                         *)

\* The reader's task is cancelled: a handler it was suspended in ends there, whatever
\* becomes of the call it was waiting for, and the event is not repeated.
Cancelled ==
    /\ reading' = At("off")
    /\ IF reading.at = "emitting"
       THEN record' \in {record, Performed(reading)} /\ cut' = cut \cup {"cancelled"}
       ELSE UNCHANGED <<record, cut>>

\* connect, by a manager that has not started the reader yet; it may fail, and the
\* reader is started all the same.
Connect ==
    /\ app.at = "off" /\ reading.at = "off"
    /\ app' = At("connecting")
    /\ UNCHANGED <<reader, status, alarm, bits, reading, record, cut>>

ConnectOk ==
    /\ app.at = "connecting"
    /\ connected' = TRUE /\ responsive' = TRUE /\ failures' = 0 /\ everUp' = TRUE
    /\ app' = Emitting("connected", "off", FALSE)
    /\ UNCHANGED <<reader, alarm, bits, reading, record, cut>>

ConnectFails ==
    /\ app.at = "connecting"
    /\ app' = At("off")
    /\ UNCHANGED <<reader, status, alarm, bits, reading, record, cut>>

Start ==
    /\ app.at = "off" /\ reading.at = "off"
    /\ reading' = At("sleeping")
    /\ UNCHANGED <<reader, status, alarm, bits, app, record, cut>>

\* stop, also as the first half of restart and reconfigure; DeviceGroup.stop.
Stop ==
    /\ app.at = "off" /\ reading.at # "off"
    /\ Cancelled
    /\ UNCHANGED <<reader, status, alarm, bits, app>>

\* disconnect, which stops the reader first.
Disconnect ==
    /\ app.at = "off" /\ connected
    /\ Cancelled
    /\ app' = At("disconnecting")
    /\ UNCHANGED <<reader, status, alarm, bits>>

Disconnected ==
    /\ app.at = "disconnecting"
    /\ connected' = FALSE /\ responsive' = FALSE /\ failures' = 0
    /\ app' = Emitting("disconnected", "off", FALSE)
    /\ UNCHANGED <<reader, everUp, alarm, bits, reading, record, cut>>

DisconnectFails ==
    /\ app.at = "disconnecting"
    /\ app' = At("off")
    /\ UNCHANGED <<reader, status, alarm, bits, reading, record, cut>>

\* clear_alarm, by an operator, while the reader goes on.
ClearAlarm ==
    /\ app.at = "off" /\ alarm.active
    /\ alarm' = [active |-> FALSE, up |-> 0, down |-> 0]
    /\ app' = Emitting("cleared", "off", FALSE)
    /\ cut' = IF reading.event \in {"triggered", "cleared"} THEN cut \cup {"raced"} ELSE cut
    /\ UNCHANGED <<reader, status, bits, reading, record>>

AppAnswered ==
    /\ app.at = "emitting"
    /\ record' = Performed(app)
    /\ app' = IF Found(app) THEN [app EXCEPT !.step = "insert"] ELSE At("off")
    /\ UNCHANGED <<reader, status, alarm, bits, reading, cut>>

AppRaises ==
    /\ "repository" \in MayFail
    /\ app.at = "emitting"
    /\ record' \in {record, Performed(app)}
    /\ app' = At("off")
    /\ cut' = cut \cup {"raised"}
    /\ UNCHANGED <<reader, status, alarm, bits, reading>>

-----------------------------------------------------------------------------
DeviceNext ==
    \/ Wake \/ ReaderConnects \/ ReaderConnectFails \/ ReadOk \/ ReadFails
    \/ ReaderAnswered \/ ReaderRaises
    \/ Connect \/ ConnectOk \/ ConnectFails \/ Start \/ Stop
    \/ Disconnect \/ Disconnected \/ DisconnectFails
    \/ ClearAlarm \/ AppAnswered \/ AppRaises

DeviceSpec == DeviceInit /\ [][DeviceNext]_deviceVars

-----------------------------------------------------------------------------
(* Properties                                                              *)

\* Between events the repository says of the device what the device says of itself:
\* its disconnection is on record exactly while it is unresponsive, its alarm exactly
\* while it is active, through reconnections by either reader, thresholds, stops and
\* disconnections.  Each change is told once and never repeated, so that the records
\* stay wrong once a handler was cancelled or raised, or an operator's clear crossed
\* an evaluation.
RecordsAgree ==
    cut = {} /\ reading.at # "emitting" /\ app.at # "emitting" =>
      /\ everUp => (record.down <=> ~responsive)
      /\ record.alarm <=> alarm.active

\* An alarm comes only after as many readings in a row with its bit set as its
\* hysteresis asks for, and goes only after as many without, or when an operator
\* clears it; reconnections and restarts between the readings do not count.
InARow(n, bit) == /\ Len(bits') >= n
                  /\ \A i \in 0..(n - 1) : bits'[Len(bits') - i] = bit

Debounced ==
    [][/\ alarm'.active /\ ~alarm.active => InARow(ActivateAfter, TRUE)
       /\ alarm.active /\ ~alarm'.active => InARow(ClearAfter, FALSE) \/ ClearAlarm
      ]_deviceVars
=============================================================================
