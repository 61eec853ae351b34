------------------------------ MODULE Compensator ------------------------------
(***************************************************************************)
(* The power compensator (csp_lib/controller/compensator.py): in every     *)
(* control cycle a feed-forward from a table learnt per power range, and   *)
(* an integral of what is still missing, make the command that brings the  *)
(* meter to the setpoint.  The table is saved whenever something is        *)
(* learnt and read when the process starts.                                *)
(*                                                                         *)
(* Power counts in whole units, the factors of the table in thousandths,   *)
(* and a cycle is the unit of time; what the code keeps as floating point  *)
(* is rounded toward zero.  External: the plant, which delivers a fixed    *)
(* share of what it is told, its meter, and the file.                      *)
(***************************************************************************)
EXTENDS Integers, FiniteSets

CONSTANTS
    Rated, OutMin, OutMax,
    Ki,            \* effective_ki for a cycle, in thousandths
    IntegralMax,   \* what the integral contributes at most
    Deadband,      \* _effective_deadband_kw
    SetpointPercent,    \* deadband_setpoint_ratio
    Steps,         \* ranges of the table in either direction (100 / power_bin_step_pct)
    SteadyPercent, \* steady_state_threshold
    SteadyCycles, HoldCycles, EscapeCycles,
    FFMin, FFMax, LearnStep,
    RateLimit,     \* change of the output in a cycle, 0 for none
    Gains,         \* what share of a command the plant delivers, in thousandths
    Setpoints,
    Tunings,       \* factors an operator sets
    MaxChanges,    \* bound: changes of the setpoint
    MaxTroubles    \* bound: cycles without a meter, switches off and on, restarts

VARIABLES
    gain, setpoint, changes, troubles,
    enabled,
    sent,          \* the command after the compensator
    integral, steady, hold, holdInitial, inHold, lastError, escapes,
    lastSetpoint, lastOutput,
    table,         \* _ff_table
    kept           \* the table in the file

learning == <<table, kept>>
cycle == <<integral, steady, hold, holdInitial, inHold, lastError, escapes,
           lastSetpoint, lastOutput>>
compensatorVars == <<gain, setpoint, changes, troubles, enabled, sent, cycle, learning>>

Bins == -Steps..Steps
Magnitude(x) == IF x < 0 THEN -x ELSE x
Sign(x) == IF x < 0 THEN -1 ELSE 1
Clamp(x, low, high) == IF x < low THEN low ELSE IF x > high THEN high ELSE x
Ratio(x, n, d) == Sign(x) * Sign(d) * ((Magnitude(x) * n) \div Magnitude(d))
Most(x, y) == IF x < y THEN y ELSE x
Infinite == 10 * Rated
Initial == [b \in Bins |-> 1000]

CompensatorTypes ==
    /\ gain \in Gains /\ setpoint \in Setpoints
    /\ changes \in 0..MaxChanges /\ troubles \in 0..MaxTroubles
    /\ enabled \in BOOLEAN
    /\ sent \in Int /\ integral \in Int /\ lastOutput \in Int
    /\ steady \in 0..SteadyCycles
    /\ hold \in 0..HoldCycles /\ holdInitial \in 0..HoldCycles
    /\ inHold \in 0..(3 * HoldCycles)
    /\ lastError \in 0..Infinite
    /\ escapes \in 0..EscapeCycles
    /\ lastSetpoint \in Setpoints \cup {0}
    /\ table \in [Bins -> FFMin..FFMax] /\ kept \in [Bins -> FFMin..FFMax]

Rest ==
    /\ integral = 0 /\ steady = 0 /\ hold = 0 /\ holdInitial = 0 /\ inHold = 0
    /\ lastError = 0 /\ escapes = 0 /\ lastSetpoint = 0 /\ lastOutput = 0

Init ==
    /\ gain \in Gains /\ setpoint \in Setpoints
    /\ changes = 0 /\ troubles = 0
    /\ enabled = TRUE /\ sent = 0
    /\ Rest
    /\ table = Initial /\ kept = Initial

\* What the meter shows of the last command.
Measured == Ratio(sent, gain, 1000)

-----------------------------------------------------------------------------
(* The table                                                               *)

\* round, which takes a half to the even neighbour.
Nearest(x, d) ==
    LET n == (2 * x + d) \div (2 * d)
    IN  IF (2 * x + d) % (2 * d) = 0 /\ n % 2 = 1 THEN n - 1 ELSE n

BinOf(s) == Clamp(Nearest(s * Steps, Rated), -Steps, Steps)

\* The factor for a setpoint, between the two ranges around it.
FactorOf(t, s) ==
    LET low == Clamp((s * Steps) \div Rated, -Steps, Steps)
        high == Clamp((s * Steps + Rated - 1) \div Rated, -Steps, Steps)
        part == s * Steps - low * Rated
    IN  IF low = high THEN t[low]
        ELSE (t[low] * (Rated - part) + t[high] * part) \div Rated

\* A range never learnt takes over what the one before it has.
Inherited(s) ==
    LET old == BinOf(lastSetpoint)
        new == BinOf(s)
    IN  IF old # new /\ old * new >= 0 /\ table[new] = 1000
        THEN [table EXCEPT ![new] = table[old]] ELSE table

\* Mutant: when charging, too, a larger factor is taken for more power.
BothWays(factor, s) == Ratio(s, factor, 1000)

\* When discharging the plant's losses ask for more, when charging for less.
Forward(factor, s) ==
    IF s >= 0 THEN Ratio(s, factor, 1000) ELSE Ratio(s, 1000, factor)

-----------------------------------------------------------------------------
(* A cycle                                                                 *)

Least(x, y) == IF x < y THEN x ELSE y
DeadbandFor(s) == Least(Deadband, (Magnitude(s) * SetpointPercent) \div 100)

\* The integral takes part when the output is free, or moves away from its limit.
Integrates(high, low, e, db) ==
    \/ high /\ e < -db
    \/ low /\ e > db
    \/ ~high /\ ~low /\ Magnitude(e) >= db

Limit == IF Ki = 0 THEN Infinite ELSE (IntegralMax * 1000) \div Ki
Contribution(i) == Ratio(i, Ki, 1000)

\* Learning in the steady state: the integral's share goes into the factor.
Learnt(t, s, i) ==
    LET b == BinOf(s)
        asked == IF s >= 0 THEN Ratio(s, t[b], 1000) + Contribution(i)
                           ELSE Ratio(s, 1000, t[b]) + Contribution(i)
        new == IF s >= 0 THEN Ratio(asked, 1000, s)
               ELSE IF asked # 0 THEN Ratio(s, 1000, asked) ELSE t[b]
    IN  [t EXCEPT ![b] = Clamp(new, FFMin, FFMax)]

\* Learning at the limit: by steps toward what the plant really delivers.
LearntAtLimit(t, s, high, out) ==
    LET b == BinOf(s)
        m == Measured
        real == IF high THEN Ratio(out, 1000, m) ELSE Ratio(m, 1000, out)
        toward == (real + t[b]) \div 2
    IN  IF \/ Magnitude(m) < Most(Deadband, 1) \/ Magnitude(out) < Most(Deadband, 1)
           \/ high /\ m <= 0
           \/ ~high /\ m >= 0
        THEN t
        ELSE [t EXCEPT ![b] = Clamp(Clamp(toward, t[b] - LearnStep, t[b] + LearnStep),
                                    FFMin, FFMax)]

Trouble == troubles < MaxTroubles /\ troubles' = troubles + 1

\* A setpoint of nothing starts over; hold and table stay.
Nothing ==
    /\ integral' = 0 /\ lastSetpoint' = 0 /\ lastOutput' = 0 /\ steady' = 0
    /\ sent' = 0
    /\ UNCHANGED <<hold, holdInitial, inHold, lastError, escapes, learning>>

\* compensate; a save that fails is logged and the table stays as learnt.
Compensate(fails) ==
    LET s == setpoint
        db == DeadbandFor(s)
        changed == s # lastSetpoint
        t == IF changed THEN Inherited(s) ELSE table
        i0 == IF changed THEN 0 ELSE integral
        n0 == IF changed THEN 0 ELSE steady
        h0 == IF changed THEN HoldCycles ELSE hold
        first == IF changed THEN HoldCycles ELSE holdInitial
        in0 == IF changed THEN 0 ELSE inHold
        e0 == IF changed THEN Infinite ELSE lastError
        e == s - Measured
        forward == Forward(FactorOf(t, s), s)
        high == forward >= OutMax
        low == forward <= OutMin
        holding == h0 > 0
        i == IF ~holding /\ Integrates(high, low, e, db)
             THEN Clamp(i0 + e, -Limit, Limit) ELSE i0
        h == IF ~holding THEN h0
             ELSE IF in0 + 1 >= 3 * first THEN 0
             ELSE IF Magnitude(e) < e0 - db THEN h0 ELSE h0 - 1
        free == Clamp(forward + Contribution(i), OutMin, OutMax)
        out == IF RateLimit > 0 /\ Magnitude(free - lastOutput) > RateLimit
               THEN lastOutput + Sign(free - lastOutput) * RateLimit ELSE free
        calm == Magnitude(e) < Most((SteadyPercent * Magnitude(s)) \div 100, db)
        due == calm /\ n0 + 1 >= SteadyCycles
        after == IF high \/ low
                 THEN IF h = 0 /\ escapes + 1 >= EscapeCycles
                      THEN LearntAtLimit(t, s, high, out) ELSE t
                 ELSE IF due /\ Magnitude(Contribution(i)) >= db THEN Learnt(t, s, i) ELSE t
    IN  /\ sent' = out /\ lastOutput' = out /\ lastSetpoint' = s
        /\ hold' = h /\ holdInitial' = first
        /\ inHold' = IF holding THEN in0 + 1 ELSE in0
        /\ lastError' = IF holding THEN Magnitude(e) ELSE e0
        /\ escapes' = IF high \/ low THEN Least(escapes + 1, EscapeCycles) ELSE 0
        /\ steady' = IF high \/ low \/ ~calm \/ due THEN 0 ELSE n0 + 1
        /\ integral' = IF ~high /\ ~low /\ after # t THEN 0 ELSE i
        /\ table' = after
        /\ fails => after # t
        /\ kept' = IF after # t /\ ~fails THEN after ELSE kept

\* process, with a meter that answers.
Cycle ==
    /\ enabled
    /\ IF setpoint = 0 THEN Nothing /\ UNCHANGED troubles
       ELSE \E fails \in BOOLEAN :
                Compensate(fails) /\ IF fails THEN Trouble ELSE UNCHANGED troubles
    /\ UNCHANGED <<gain, setpoint, changes, enabled>>

\* Off, or without a meter: the command goes through as it is.
Through ==
    /\ sent' = setpoint
    /\ UNCHANGED <<gain, setpoint, changes, enabled, cycle, learning>>

Off == ~enabled /\ Through /\ UNCHANGED troubles

Blind == enabled /\ Trouble /\ Through

\* reset.
Cleared ==
    /\ integral' = 0 /\ steady' = 0 /\ hold' = 0 /\ holdInitial' = 0 /\ inHold' = 0
    /\ lastError' = 0 /\ escapes' = 0 /\ lastSetpoint' = 0 /\ lastOutput' = 0

\* Switching it off resets all but the table.
Switch ==
    /\ Trouble
    /\ enabled' = ~enabled
    /\ IF enabled THEN Cleared ELSE UNCHANGED cycle
    /\ UNCHANGED <<gain, setpoint, changes, sent, learning>>

\* A new process reads the file.
Restart ==
    /\ Trouble
    /\ enabled' = TRUE /\ sent' = 0
    /\ Cleared
    /\ table' = kept
    /\ UNCHANGED <<gain, setpoint, changes, kept>>

\* update_ff_bin: an operator sets a factor of the table, kept only when asked for.
Tune(b, f, persist) ==
    /\ Trouble
    /\ table' = [table EXCEPT ![b] = Clamp(f, FFMin, FFMax)]
    /\ kept' = IF persist THEN table' ELSE kept
    /\ UNCHANGED <<gain, setpoint, changes, enabled, sent, cycle>>

\* reset_ff_table, which removes the file.
ForgetTable ==
    /\ Trouble
    /\ table' = Initial /\ kept' = Initial
    /\ UNCHANGED <<gain, setpoint, changes, enabled, sent, cycle>>

Ask(s) ==
    /\ changes < MaxChanges /\ s # setpoint
    /\ setpoint' = s /\ changes' = changes + 1
    /\ UNCHANGED <<gain, troubles, enabled, sent, cycle, learning>>

-----------------------------------------------------------------------------
Next ==
    \/ \E s \in Setpoints : Ask(s)
    \/ Cycle \/ Off \/ Blind \/ Switch \/ Restart \/ ForgetTable
    \/ \E b \in Bins, f \in Tunings, persist \in BOOLEAN : Tune(b, f, persist)

Spec == Init /\ [][Next]_compensatorVars

\* The control loop goes on.
FairSpec == Spec /\ WF_compensatorVars(Cycle \/ Off)

-----------------------------------------------------------------------------
(* Properties                                                              *)

\* The plant delivers what is asked for, within the band in which nothing more is
\* learnt, as far as its limit allows.
OnTarget ==
    \/ Magnitude(setpoint - Measured) <= Most((SteadyPercent * Magnitude(setpoint)) \div 100, Deadband)
    \/ setpoint > 0 /\ sent = OutMax
    \/ setpoint < 0 /\ sent = OutMin

\* Whatever was learnt before, for other powers, without a meter or after a restart, the
\* compensator brings the plant to the last setpoint and holds it there.
Converges == <>[](enabled => OnTarget)
=============================================================================
