------------------------------ MODULE Strategies ------------------------------
(***************************************************************************)
(* The control strategies (csp_lib/controller/strategies, calibration.py)  *)
(* and their composition in layers (controller/system/cascading.py): in    *)
(* every cycle the strategies in charge make a command of what is measured *)
(* and of the last command.  A missing measurement, a strategy switched    *)
(* off and a change of strategies may come in any cycle.                   *)
(*                                                                         *)
(* Frequencies and voltages count in steps from their nominal value, power *)
(* in whole units, rounded toward zero.  External: the grid, the relay and *)
(* what the meters show.                                                   *)
(***************************************************************************)
EXTENDS Integers, Sequences, SequencesExt, FiniteSets

CONSTANTS
    Offsets, Percents,     \* f1..f6 and p1..p6 of FPConfig
    PBase, QBase,          \* SystemBase
    FullDroop, DroopBand, DroopMax, ScheduleP,   \* DroopConfig, f_base * droop
    VoltBand, VoltSpan, QMax,                    \* QVConfig, 2 * v_set * droop
    PQ,                    \* PQModeConfig
    RampLimit, PvLoss, MinHistory, MaxHistory,   \* PVSmoothConfig, HistoryBuffer
    RampStep,              \* what RampStopStrategy takes off in a unit of time
    SMax, PFirst,          \* CapacityConfig, ClampPriority
    CalBins, SteadyCycles, SettleCycles, SteadyPercent,   \* FFCalibrationConfig
    Freqs, Volts, Solars, Shares,   \* what is measured; None for nothing
    Layerings,             \* the layers there may be, in order
    Switchable,            \* strategies with an enabled_key
    MaxGap,                \* bound: time between two cycles
    SyncLooks,             \* sync_timeout / check_interval
    MaxSwitches            \* bound: changes of the layers

VARIABLES
    layers,      \* the strategies in charge
    freq, volt,  \* context.extra of the last cycle, as far as the layers look at it
    history,     \* the HistoryBuffer
    off,         \* strategies whose enabled_key says no
    last,        \* context.last_command
    ramp,        \* RampStopStrategy: _current_p, the time since _last_time
    relay,       \* open or not, in sync or not, looks left before leaving the island
    next,        \* the layers a change waits to put in charge
    cal,         \* FFCalibrationStrategy
    table,       \* the factors it has written into the compensator, in thousandths
    switches

strategyVars == <<layers, freq, volt, history, off, last, ramp, relay, next, cal, table,
                  switches>>
measured == <<freq, volt, history>>

None == 1000            \* no measurement
Never == -1             \* no time, no look
Magnitude(x) == IF x < 0 THEN -x ELSE x
Clamp(x, low, high) == IF x < low THEN low ELSE IF x > high THEN high ELSE x
Ratio(x, n, d) == IF x * n < 0 THEN -((-x * n) \div d) ELSE (x * n) \div d
Command(p, q) == [p |-> p, q |-> q]
Zero == Command(0, 0)
Idle == [state |-> "idle", index |-> 1, steady |-> 0, settle |-> 0, sum |-> 0, results |-> <<>>]
Begun == [Idle EXCEPT !.state = "stepping", !.settle = SettleCycles]

StrategyTypes ==
    /\ layers \in Layerings /\ next \in Layerings \cup {<<>>}
    /\ freq \in Freqs \cup {None} /\ volt \in Volts \cup {None}
    /\ Len(history) <= MaxHistory /\ \A i \in DOMAIN history : history[i] \in Solars \cup {None}
    /\ off \subseteq Switchable
    /\ last.p \in Int /\ last.q \in Int
    /\ ramp.p \in Int /\ ramp.since \in Never..MaxGap
    /\ relay.open \in BOOLEAN /\ relay.synced \in BOOLEAN /\ relay.looks \in Never..SyncLooks
    /\ cal.state \in {"idle", "stepping", "done"} /\ cal.index \in 1..(Len(CalBins) + 1)
    /\ cal.steady \in 0..SteadyCycles /\ cal.settle \in 0..SettleCycles
    /\ \A i \in DOMAIN table : table[i] \in 800..1500
    /\ switches \in 0..MaxSwitches

Init ==
    /\ layers \in Layerings
    /\ freq = None /\ volt = None /\ history = <<>>
    /\ off = {} /\ last = Zero
    /\ ramp = [p |-> 0, since |-> Never]
    /\ relay = [open |-> \E i \in DOMAIN layers : layers[i] = "island",
                synced |-> FALSE, looks |-> Never]
    /\ next = <<>>
    /\ cal = IF \E i \in DOMAIN layers : layers[i] = "calibrate" THEN Begun ELSE Idle
    /\ table = <<>> /\ switches = 0

-----------------------------------------------------------------------------
(* What each strategy asks for                                             *)

\* Mutant: between two points of the curve, toward the wrong one.
Backwards(x, x1, x2, y1, y2) == y2 + Ratio(y1 - y2, x - x1, x2 - x1)

\* _interpolate.
Interpolate(x, x1, x2, y1, y2) == y1 + Ratio(y2 - y1, x - x1, x2 - x1)

\* FPStrategy._calculate_power: a curve through six points, flat in its middle.
FrequencyPower(f) ==
    LET middle == (Percents[3] + Percents[4]) \div 2
        level == [i \in 1..6 |-> IF i \in {3, 4} THEN middle ELSE Percents[i]]
    IN  IF f < Offsets[1] THEN Percents[1]
        ELSE IF f >= Offsets[6] THEN Percents[6]
        ELSE LET i == CHOOSE i \in 1..5 : Offsets[i] <= f /\ f < Offsets[i + 1]
             IN  Interpolate(f, Offsets[i], Offsets[i + 1], level[i], level[i + 1])

\* The droop alone, without the schedule's power.
DroopPower(f) ==
    LET share == IF Magnitude(f) <= DroopBand THEN 0
                 ELSE Clamp(-Ratio(PBase, f, FullDroop), -PBase, PBase)
    IN  IF DroopMax > 0 THEN Clamp(share, -DroopMax, DroopMax) ELSE share

\* QVStrategy._calculate_q_ratio: too low a voltage asks for reactive power.
VoltagePower(v) ==
    IF v <= -VoltBand THEN Clamp(Ratio(QBase, -VoltBand - v, VoltSpan), 0, QMax)
    ELSE IF v >= VoltBand THEN Clamp(Ratio(QBase, VoltBand - v, VoltSpan), -QMax, 0)
    ELSE 0

\* PVSmoothStrategy: toward the mean of the solar power, by its rate at most; a value that
\* was missing counts as history.
Smoothed(p) ==
    LET valid == SelectSeq(history, LAMBDA v : v # None)
        mean == FoldSeq(LAMBDA v, sum : v + sum, 0, valid) \div Len(valid)
        wanted == IF mean > PvLoss THEN mean - PvLoss ELSE 0
    IN  IF Len(history) < MinHistory \/ valid = <<>> THEN 0
        ELSE Clamp(wanted, p - RampLimit, p + RampLimit)

\* RampStopStrategy: what is left of _current_p after the time since the last cycle.
Ramped(p) ==
    LET elapsed == IF ramp.since = Never THEN 0 ELSE ramp.since
        current == IF ramp.p = 0 /\ elapsed = 0 THEN p ELSE ramp.p
        down == RampStep * elapsed
    IN  IF Magnitude(current) <= down THEN 0
        ELSE IF current > 0 THEN current - down ELSE current + down

\* FFCalibrationStrategy: the power of the range it is at, until it is steady there.
Setpoint == Ratio(PBase, CalBins[cal.index], 100)

Calibrated(share) ==
    LET meter == Ratio(last.p, share, 100)
        steady == share # None /\ Magnitude(Setpoint - meter) * 100 < SteadyPercent * Magnitude(Setpoint)
        sum == cal.sum + meter
        factor == Clamp(Ratio(Setpoint, 1000 * SteadyCycles, 1) \div sum, 800, 1500)
    IN  IF cal.state # "stepping" \/ share = None THEN cal
        ELSE IF cal.settle > 0 THEN [cal EXCEPT !.settle = @ - 1]
        ELSE IF ~steady THEN [cal EXCEPT !.steady = 0, !.sum = 0]
        ELSE IF cal.steady + 1 < SteadyCycles THEN [cal EXCEPT !.steady = @ + 1, !.sum = sum]
        ELSE [cal EXCEPT !.index = @ + 1, !.steady = 0, !.sum = 0, !.settle = SettleCycles,
                         !.results = Append(@, factor),
                         !.state = IF cal.index = Len(CalBins) THEN "done" ELSE @]

\* execute of each strategy, for the last command it is given and what is measured;
\* without a measurement it keeps that command.
PQMode == PQ
StopMode == Zero
Kept(given) == given
FP(given, f) ==
    IF "fp" \in off THEN Zero ELSE IF f = None THEN given
    ELSE Command(Ratio(PBase, FrequencyPower(f), 100), 0)
Droop(given, f) ==
    IF "droop" \in off THEN Command(ScheduleP, 0) ELSE IF f = None THEN given
    ELSE Command(Clamp(ScheduleP + DroopPower(f), -PBase, PBase), 0)
QV(given, v) ==
    IF "qv" \in off THEN Zero ELSE IF v = None THEN given ELSE Command(0, VoltagePower(v))
PVSmooth(given) == IF "smooth" \in off THEN Zero ELSE Command(Smoothed(given.p), 0)
RampStop(given) == IF "ramp" \in off THEN given ELSE Command(Ramped(given.p), 0)
Calibration(share) ==
    IF Calibrated(share).state = "done" THEN Zero ELSE Command(Setpoint, 0)

Asked(s, given, f, v, share) ==
    CASE s = "pq" -> PQMode
      [] s = "stop" -> StopMode
      [] s \in {"bypass", "island"} -> Kept(given)
      [] s = "fp" -> FP(given, f)
      [] s = "droop" -> Droop(given, f)
      [] s = "qv" -> QV(given, v)
      [] s = "smooth" -> PVSmooth(given)
      [] s = "ramp" -> RampStop(given)
      [] s = "calibrate" -> Calibration(share)

-----------------------------------------------------------------------------
(* Layers                                                                  *)

Root(n) == CHOOSE r \in 0..SMax : r * r <= n /\ n < (r + 1) * (r + 1)
Toward(x, limit) == Clamp(x, -limit, limit)

\* Mutant: the other axis gets the whole capacity, too.
Each(c) == Command(Toward(c.p, SMax), Toward(c.q, SMax))

\* Beyond the capacity one axis is kept, the other gets the room that is left.
Capped(c) ==
    LET first == Toward(IF PFirst THEN c.p ELSE c.q, SMax)
        room == Root(SMax * SMax - first * first)
    IN  IF c.p * c.p + c.q * c.q <= SMax * SMax THEN c
        ELSE IF PFirst THEN Command(first, Toward(c.q, room))
        ELSE Command(Toward(c.p, room), first)

\* CascadingStrategy.execute: each layer adds to what those before it have asked for,
\* which is the last command it is given.
Total(f, v, share, n) ==
    FoldLeft(LAMBDA total, s :
        LET more == Asked(s, total, f, v, share) IN Command(total.p + more.p, total.q + more.q),
        Zero, SubSeq(layers, 1, n))

Given(f, v, share, n) == IF Len(layers) = 1 THEN last ELSE Total(f, v, share, n - 1)

Place(s) == {n \in DOMAIN layers : layers[n] = s}
In(s) == Place(s) # {}

Execute(f, v, share) ==
    /\ f # None => In("fp") \/ In("droop")
    /\ v # None => In("qv")
    /\ share # None => In("calibrate")
    /\ freq' = f /\ volt' = v
    /\ last' = IF Len(layers) = 1 THEN Asked(layers[1], last, f, v, share)
               ELSE Capped(Total(f, v, share, Len(layers)))
    /\ ramp' = IF "ramp" \in off \/ ~In("ramp") THEN ramp
               ELSE LET n == CHOOSE n \in Place("ramp") : TRUE
                    IN  [p |-> Ramped(Given(f, v, share, n).p), since |-> 0]
    /\ cal' = IF In("calibrate") THEN Calibrated(share) ELSE cal
    /\ table' = IF cal'.state = "done" /\ cal.state # "done" THEN cal'.results ELSE table
    /\ UNCHANGED <<layers, history, off, relay, next, switches>>

-----------------------------------------------------------------------------
(* Changes of strategy                                                     *)

\* on_deactivate of the layers, on_activate of the next ones; a calibration that was cut
\* short writes nothing.
TakeCharge(l, open) ==
    /\ layers' = l /\ next' = <<>>
    /\ ramp' = [p |-> 0, since |-> Never]
    /\ cal' = IF \E i \in DOMAIN l : l[i] = "calibrate" THEN Begun ELSE Idle
    /\ relay' = [relay EXCEPT !.looks = Never,
                    !.open = open \/ \E i \in DOMAIN l : l[i] = "island"]
    /\ UNCHANGED <<measured, off, last, table>>

Switch(l) ==
    /\ switches < MaxSwitches /\ switches' = switches + 1
    /\ next = <<>> /\ l # layers
    /\ IF In("island")
       THEN /\ next' = l
            /\ relay' = [relay EXCEPT !.looks = SyncLooks]
            /\ UNCHANGED <<layers, measured, off, last, ramp, cal, table>>
       ELSE TakeCharge(l, relay.open)

\* IslandModeStrategy.on_deactivate waits until the relay is in sync and closes it; after
\* its timeout it leaves it open.
Look ==
    /\ next # <<>>
    /\ IF relay.synced \/ relay.looks = 0 THEN TakeCharge(next, ~relay.synced)
       ELSE /\ relay' = [relay EXCEPT !.looks = @ - 1]
            /\ UNCHANGED <<layers, measured, off, last, ramp, next, cal, table>>
    /\ UNCHANGED switches

-----------------------------------------------------------------------------
(* External                                                                *)

Aside == <<layers, off, last, next, cal, table, switches>>

\* HistoryBuffer.append.
Sample(v) ==
    /\ In("smooth")
    /\ history' = IF Len(history) = MaxHistory THEN Append(Tail(history), v) ELSE Append(history, v)
    /\ UNCHANGED <<freq, volt, ramp, relay, Aside>>

Synced ==
    /\ relay.open
    /\ relay' = [relay EXCEPT !.synced = ~@]
    /\ UNCHANGED <<measured, ramp, Aside>>

Tick ==
    /\ In("ramp") /\ ramp.since \in 0..(MaxGap - 1)
    /\ ramp' = [ramp EXCEPT !.since = @ + 1]
    /\ UNCHANGED <<measured, relay, Aside>>

TurnOff(s) ==
    /\ In(s)
    /\ off' = IF s \in off THEN off \ {s} ELSE {s}
    /\ UNCHANGED <<layers, measured, last, ramp, relay, next, cal, table, switches>>

Next ==
    \/ \E f \in Freqs \cup {None}, v \in Volts \cup {None}, share \in Shares \cup {None} :
           Execute(f, v, share)
    \/ \E l \in Layerings : Switch(l)
    \/ Look
    \/ \E v \in Solars \cup {None} : Sample(v)
    \/ Synced \/ Tick
    \/ \E s \in Switchable : TurnOff(s)

Spec == Init /\ [][Next]_strategyVars

-----------------------------------------------------------------------------
(* Properties                                                              *)

Executed == UNCHANGED <<layers, history, off, relay, next, switches>>

\* What the strategies ask for in a cycle is something the plant and the grid can take: layers
\* keep within the capacity together; a frequency that is higher never asks for more
\* power; the power of a plant that stops only falls; solar power is smoothed.
OutputsSound ==
    [][Executed =>
        /\ Len(layers) > 1 => last'.p * last'.p + last'.q * last'.q <= SMax * SMax
        /\ layers = <<"fp">> /\ freq' # None /\ "fp" \notin off =>
               \A f \in Freqs : f <= freq' => Ratio(PBase, FrequencyPower(f), 100) >= last'.p
        /\ layers = <<"droop">> /\ freq' # None /\ "droop" \notin off =>
               \A f \in Freqs : f <= freq' =>
                   Clamp(ScheduleP + DroopPower(f), -PBase, PBase) >= last'.p
        /\ layers = <<"ramp">> =>
               /\ Magnitude(last'.p) <= Magnitude(last.p)
               /\ last'.p * last.p >= 0
        /\ layers = <<"smooth">> /\ last' # Zero =>
               Magnitude(last'.p - last.p) <= RampLimit]_strategyVars
=============================================================================
