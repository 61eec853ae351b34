------------------------------- MODULE Microgrid -------------------------------
(***************************************************************************)
(* The simulated plant (csp_lib/modbus_server): a SimulationServer whose   *)
(* clients write the registers of the simulators and whose tick task runs  *)
(* MicrogridSimulator.update, which moves every simulator and spreads the  *)
(* power over the meters.  A tick lasts one unit of time and never yields. *)
(* External: the Modbus clients, the sun and the base load.                *)
(*                                                                         *)
(* Powers are whole numbers; meters count hundredths, for the losses.      *)
(***************************************************************************)
EXTENDS Integers, Sequences, SequencesExt, FiniteSetsExt

CONSTANTS
    Pcs, Generators, Solars, Loads,   \* device ids
    Battery,      \* the PCSs linked to a BMS
    AlarmModes,   \* alarm of a PCS -> "auto", "manual" or "latched"
    Meters,       \* the first is the default meter
    Losses,       \* loss factors of a link, in hundredths
    Aggregations, \* MeterAggregationConfigs: [target, sources]
    Setpoints, Ramp, StartupDelay, ShutdownDelay, Sun, Full, Efficiency,
    MaxChanges    \* bound: writes, links and other calls

VARIABLES
    serving,      \* _running of the server
    registers,    \* setpoint and start_cmd as the clients see them
    pcs,          \* running, the target of the ramp, p_actual, soc
    alarms,       \* alarm -> set of the PCSs where it is active
    gen,          \* state, timer, target and value of the ramp, p_actual
    solar,        \* state, target_dc_power, ac_power
    load,         \* target of the ramp, p_actual
    links,        \* device -> [meter, loss]
    aggs,         \* aggregations in force
    raw,          \* _raw_net_p of each meter
    changes

gridVars == <<serving, registers, pcs, alarms, gen, solar, load, links, aggs, raw, changes>>

Devices == Pcs \cup Generators \cup Solars \cup Loads
MeterIds == ToSet(Meters)
Default == Meters[1]

MicrogridTypes ==
    /\ serving \in BOOLEAN
    /\ \A d \in DOMAIN registers : registers[d].start \in {0, 1}
    /\ \A d \in Pcs : pcs[d].running \in BOOLEAN /\ pcs[d].soc \in 0..Full
    /\ \A d \in Generators :
         /\ gen[d].state \in {"STANDBY", "STARTING", "RUNNING", "STOPPING"}
         /\ gen[d].state \in {"STANDBY", "STARTING"} => gen[d].p = 0
    /\ \A d \in Solars : solar[d].state \in {"STANDBY", "RUNNING", "FAULT"}
    /\ DOMAIN links \subseteq Devices /\ aggs \subseteq Aggregations
    /\ changes \in 0..MaxChanges

Init ==
    /\ serving = FALSE
    /\ registers = [d \in Pcs \cup Generators \cup Loads |-> [setpoint |-> 0, start |-> 0]]
    /\ pcs = [d \in Pcs |-> [running |-> FALSE, target |-> 0, p |-> 0, soc |-> Full \div 2]]
    /\ alarms = [a \in DOMAIN AlarmModes |-> {}]
    /\ gen = [d \in Generators |-> [state |-> "STANDBY", timer |-> 0, target |-> 0, ramp |-> 0, p |-> 0]]
    /\ solar = [d \in Solars |-> [state |-> "STANDBY", target |-> 0, p |-> 0]]
    /\ load = [d \in Loads |-> [target |-> 0, p |-> 0]]
    /\ links = <<>> /\ aggs = {}
    /\ raw = [m \in MeterIds |-> 0]
    /\ changes = 0

Change == changes < MaxChanges /\ changes' = changes + 1

-----------------------------------------------------------------------------
(* SimulationServer and the registers                                      *)

Start ==
    /\ ~serving /\ serving' = TRUE
    /\ UNCHANGED <<registers, pcs, alarms, gen, solar, load, links, aggs, raw, changes>>

Stop ==
    /\ serving /\ Change /\ serving' = FALSE
    /\ UNCHANGED <<registers, pcs, alarms, gen, solar, load, links, aggs, raw>>

\* SimulatorDataBlock.setValues: a register that keeps its value is no write.
Write(d, point, value) ==
    /\ serving /\ Change
    /\ registers[d][point] # value
    /\ registers' = [registers EXCEPT ![d][point] = value]
    /\ UNCHANGED <<serving, alarms, solar, links, aggs, raw>>

\* PCSSimulator.on_write.
PcsWrite(d, point, value) ==
    /\ Write(d, point, value)
    /\ pcs' = [pcs EXCEPT ![d] =
           IF point = "setpoint" THEN [@ EXCEPT !.target = value]
           ELSE [@ EXCEPT !.running = (value = 1), !.target = IF value = 1 THEN @ ELSE 0]]
    /\ UNCHANGED <<gen, load>>

\* trigger_alarm, clear_alarm_condition: only an automatic alarm goes with its condition.
Condition(d, a, present) ==
    /\ Change
    /\ alarms' = [alarms EXCEPT ![a] =
           IF present THEN @ \cup {d} ELSE IF AlarmModes[a] = "auto" THEN @ \ {d} ELSE @]
    /\ UNCHANGED <<serving, registers, pcs, gen, solar, load, links, aggs, raw>>

\* alarm_reset_cmd = 1: the others go, whether or not their condition does.
ResetAlarms(d) ==
    /\ serving /\ Change
    /\ alarms' = [a \in DOMAIN alarms |-> IF AlarmModes[a] = "auto" THEN alarms[a] ELSE alarms[a] \ {d}]
    /\ UNCHANGED <<serving, registers, pcs, gen, solar, load, links, aggs, raw>>

\* GeneratorSimulator.on_write: commands out of place are passed over.
GenWrite(d, point, value) ==
    /\ Write(d, point, value)
    /\ gen' = [gen EXCEPT ![d] =
           CASE point = "setpoint" /\ @.state = "RUNNING" -> [@ EXCEPT !.target = value]
             [] point = "start" /\ value = 1 /\ @.state = "STANDBY" ->
                    [@ EXCEPT !.state = "STARTING", !.timer = StartupDelay]
             [] point = "start" /\ value = 0 /\ @.state = "RUNNING" ->
                    [@ EXCEPT !.state = "STOPPING", !.timer = ShutdownDelay, !.target = 0]
             [] OTHER -> @]
    /\ UNCHANGED <<pcs, load>>

LoadWrite(d, value) ==
    /\ Write(d, "setpoint", value)
    /\ load' = [load EXCEPT ![d].target = value]
    /\ UNCHANGED <<pcs, gen>>

\* set_target_power.
SetSun(d, power) ==
    /\ Change
    /\ solar' = [solar EXCEPT ![d].target = power,
           ![d].state = IF @ = "FAULT" THEN @ ELSE IF power > 0 THEN "RUNNING" ELSE "STANDBY"]
    /\ UNCHANGED <<serving, registers, pcs, alarms, gen, load, links, aggs, raw>>

\* set_fault, clear_fault: what is cleared stands by until the next target.
Fault(d) ==
    /\ Change
    /\ solar' = [solar EXCEPT ![d].state = IF @ = "FAULT" THEN "STANDBY" ELSE "FAULT"]
    /\ UNCHANGED <<serving, registers, pcs, alarms, gen, load, links, aggs, raw>>

-----------------------------------------------------------------------------
(* The wiring of the meters                                                *)

Link(d, m, loss) ==
    /\ Change
    /\ d \notin DOMAIN links
    /\ links' = [e \in DOMAIN links \cup {d} |->
                     IF e = d THEN [meter |-> m, loss |-> loss] ELSE links[e]]
    /\ UNCHANGED <<serving, registers, pcs, alarms, gen, solar, load, aggs, raw>>

\* _build_aggregation_order: the meters can be taken one after the other.
Ordered(as) ==
    \E order \in SetToSeqs(as) :
        \A i, j \in DOMAIN order : order[i].target \in order[j].sources => i < j

OrderOf(as) ==
    CHOOSE order \in SetToSeqs(as) :
        \A i, j \in DOMAIN order : order[i].target \in order[j].sources => i < j

\* One rule for each target; a rule that closes a cycle is taken back.
Aggregate(a) ==
    /\ Change
    /\ \A b \in aggs : b.target # a.target
    /\ Ordered(aggs \cup {a})
    /\ aggs' = aggs \cup {a}
    /\ UNCHANGED <<serving, registers, pcs, alarms, gen, solar, load, links, raw>>

-----------------------------------------------------------------------------
(* update                                                                  *)

Lowest(a, b) == IF a < b THEN a ELSE b
Highest(a, b) == IF a < b THEN b ELSE a

\* RampBehavior.update.
Toward(value, target) ==
    IF value < target THEN Lowest(target, value + Ramp) ELSE Highest(target, value - Ramp)

SolarNow(d) ==
    LET p == IF solar[d].state = "RUNNING" THEN solar[d].target ELSE 0
    IN  [solar[d] EXCEPT !.p = p]

\* GeneratorSimulator.update.
GenNow(d) ==
    LET g == gen[d]
        ramp == Toward(g.ramp, g.target)
        over == g.timer <= 1
    IN  CASE g.state = "STARTING" -> IF over THEN [g EXCEPT !.timer = 0, !.state = "RUNNING"]
                                     ELSE [g EXCEPT !.timer = @ - 1]
          [] g.state = "STOPPING" ->
               IF over THEN [g EXCEPT !.state = "STANDBY", !.timer = 0, !.ramp = ramp, !.p = 0]
               ELSE [g EXCEPT !.timer = @ - 1, !.ramp = ramp, !.p = ramp]
          [] g.state = "RUNNING" -> [g EXCEPT !.ramp = ramp, !.p = ramp]
          [] g.state = "STANDBY" -> g

LoadNow(d) == [load[d] EXCEPT !.p = Toward(@, load[d].target)]

Within(x) == Highest(0, Lowest(Full, x))

\* BMSSimulator.update_power: charging loses some.
BmsCharge(soc, p) == Within(IF p < 0 THEN soc - (p * Efficiency) \div 100 ELSE soc - p)

\* PCSSimulator.update_soc: "soc or 50.0" is 50 when the battery is empty.
PcsCharge(soc, p) ==
    IF p = 0 THEN soc ELSE Within((IF soc = 0 THEN Full \div 2 ELSE soc) - p)

\* A PCS that is stopped forgets the target that was written meanwhile.
PcsNow(d) ==
    LET c == pcs[d]
        target == IF c.running \/ c.p = 0 THEN c.target ELSE 0
        p == IF c.running \/ c.p # 0 THEN Toward(c.p, target) ELSE 0
    IN  [c EXCEPT !.target = target, !.p = p,
                  !.soc = IF d \in Battery THEN BmsCharge(@, p) ELSE PcsCharge(@, p)]

\* _get_device_power: what a device takes from the grid.
Taken(d, pc, ge, so, lo) ==
    CASE d \in Loads -> lo[d].p
      [] d \in Pcs -> -pc[d].p
      [] d \in Generators -> -ge[d].p
      [] d \in Solars -> -so[d].p

\* Mutant: the default meter takes in the linked devices too.
Everything == Devices

\* _compute_unlinked_net_power.
Unlinked == Devices \ DOMAIN links

Leaf(m, pc, ge, so, lo) ==
    LET Linked(d) == Taken(d, pc, ge, so, lo) * (100 - links[d].loss)
        Direct(d) == Taken(d, pc, ge, so, lo) * 100
    IN  MapThenSumSet(Linked, {d \in DOMAIN links : links[d].meter = m})
          + (IF m = Default THEN MapThenSumSet(Direct, Unlinked) ELSE 0)

\* The aggregations, one after the other: a target's own reading is replaced.
Aggregated(leaves) ==
    LET Sum(readings, a) ==
            LET Reading(m) == readings[m]
            IN  [readings EXCEPT ![a.target] = MapThenSumSet(Reading, a.sources)]
    IN  FoldLeft(Sum, leaves, OrderOf(aggs))

Tick ==
    /\ serving
    /\ solar' = [d \in Solars |-> SolarNow(d)]
    /\ gen' = [d \in Generators |-> GenNow(d)]
    /\ load' = [d \in Loads |-> LoadNow(d)]
    /\ pcs' = [d \in Pcs |-> PcsNow(d)]
    /\ raw' = Aggregated([m \in MeterIds |-> Leaf(m, pcs', gen', solar', load')])
    /\ UNCHANGED <<serving, registers, alarms, links, aggs, changes>>

Next ==
    \/ Start \/ Stop \/ Tick
    \/ \E v \in Setpoints : (\E d \in Pcs : PcsWrite(d, "setpoint", v))
                            \/ (\E d \in Generators : GenWrite(d, "setpoint", v))
                            \/ (\E d \in Loads : LoadWrite(d, v))
    \/ \E v \in {0, 1} : (\E d \in Pcs : PcsWrite(d, "start", v))
                         \/ (\E d \in Generators : GenWrite(d, "start", v))
    \/ \E d \in Pcs : ResetAlarms(d) \/ \E a \in DOMAIN AlarmModes, b \in BOOLEAN : Condition(d, a, b)
    \/ \E d \in Solars : Fault(d) \/ \E power \in Sun : SetSun(d, power)
    \/ \E d \in Devices, m \in MeterIds, loss \in Losses : Link(d, m, loss)
    \/ \E a \in Aggregations : Aggregate(a)

Spec == Init /\ [][Next]_gridVars

-----------------------------------------------------------------------------
(* Properties                                                              *)

\* Every watt is metered once.  Without losses the meters that are summed by no other hold
\* together what the devices take, whatever the order in which links and aggregations were
\* added, unless a sum replaced a meter's own devices or a meter is summed twice.
Metered ==
    LET Own(m) == (\E d \in DOMAIN links : links[d].meter = m) \/ (m = Default /\ Unlinked # {})
        Roots == {m \in MeterIds : \A a \in aggs : m \notin a.sources}
        Once == \A a, b \in aggs : a # b => a.sources \cap b.sources = {}
        Read(m) == raw'[m]
        Grid(d) == 100 * Taken(d, pcs', gen', solar', load')
    IN  (\A a \in aggs : ~Own(a.target)) /\ Once /\ (\A d \in DOMAIN links : links[d].loss = 0)
          => MapThenSumSet(Read, Roots) = MapThenSumSet(Grid, Devices)

\* A tick moves no power faster than its ramp, but for a generator that has come to its end;
\* and a battery with a BMS changes by the power of its PCS, never beyond empty and full.
Physical ==
    /\ \A d \in Pcs : pcs'[d].p - pcs[d].p \in -Ramp..Ramp
    /\ \A d \in Loads : load'[d].p - load[d].p \in -Ramp..Ramp
    /\ \A d \in Generators : gen'[d].state = "STANDBY" \/ gen[d].ramp # gen[d].p
                             \/ gen'[d].p - gen[d].p \in -Ramp..Ramp
    /\ \A d \in Battery : pcs'[d].soc - pcs[d].soc \in
           IF pcs'[d].p > 0 THEN -pcs'[d].p..0 ELSE 0..-pcs'[d].p

TicksSound == [][serving /\ serving' /\ changes' = changes => Metered /\ Physical]_gridVars
=============================================================================
