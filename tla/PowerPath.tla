------------------------------ MODULE PowerPath ------------------------------
(***************************************************************************)
(* The way of one active power from the strategy to the devices:           *)
(* SystemController._on_command lets the protection rules limit it one     *)
(* after the other (csp_lib/controller/system), hands it to the            *)
(* processors, shares it among the devices that can take it                *)
(* (SOCBalancingDistributor) and writes the shares one by one.             *)
(*                                                                         *)
(* Power counts in whole units; what the code divides in floating point is *)
(* rounded toward zero.  Positive power discharges.  The reactive power    *)
(* takes the same way.  The rules read their parameters at the moment they *)
(* are asked, and other threads set them; the rest of the context is what  *)
(* it was when the strategy was executed.  External: the plant.            *)
(***************************************************************************)
EXTENDS Integers, Sequences, FiniteSets, SequencesExt

CONSTANTS
    Registry,      \* in the order of the registry, a sequence
    Rated,         \* rated power of each
    Gain,          \* of the balancing, in percent of power for a percent of charge
    MaxEach,       \* per_device_max_p
    Rules,         \* the chain, a sequence of "fixed", "soc", "reverse", "grid", "alarm", "ramp"
    Targets,       \* what strategies ask for
    Fleets,        \* the states of charge, one for each device or NoSoc
    Meters,        \* powers the meter shows
    Percents,      \* values of the parameter grid_limit_pct
    Band, SocLow, SocHigh,  \* of SOCProtection, and of DynamicSOCProtection at first
    Boosts         \* powers the processors may make of a command

VARIABLES
    plant,         \* meter, and whether there is an alarm
    params,        \* the parameters: grid limit, soc_min, ramp trigger
    charge,        \* state of charge of each device, NoSoc if it is not known
    able,          \* the devices that respond and are not protected
    phase,         \* idle, guarding, processing, distributing or routing
    at,            \* the next rule
    context,       \* the context the strategy was executed with
    p,             \* the command on its way; keep: it leaves the active power as it is
    keep,
    limit,         \* ghost: the range the rules asked so far allow
    shares         \* per_device_commands

pathVars == <<plant, params, charge, able, phase, at, context, p, keep, limit, shares>>

Names == ToSet(Registry)
NoSoc == -1
Sign(x) == IF x < 0 THEN -1 ELSE 1
Magnitude(x) == IF x < 0 THEN -x ELSE x
Part(x, n, d) == Sign(x) * ((Magnitude(x) * n) \div d)
Least(x, y) == IF x < y THEN x ELSE y
Most(x, y) == IF x < y THEN y ELSE x
Total(f, S) == FoldSet(LAMBDA d, sum : sum + f[d], 0, S)
TotalRated == Total(Rated, Names)

PathTypes ==
    /\ plant \in [meter : Meters, alarm : BOOLEAN]
    /\ params \in [percent : Percents, low : {SocLow, SocHigh + 1}, ramp : BOOLEAN]
    /\ charge \in Fleets
    /\ able \subseteq Names
    /\ phase \in {"idle", "guarding", "processing", "distributing", "routing"}
    /\ at \in 1..(Len(Rules) + 1)
    /\ context \in [soc : -1..100, meter : Meters \cup {0}, alarm : BOOLEAN]
    /\ p \in Int /\ keep \in BOOLEAN
    /\ limit \in [low : Int, high : Int]
    /\ DOMAIN shares \subseteq Names /\ \A d \in DOMAIN shares : shares[d] \in Int

\* The average over the devices whose charge is known.
Average(c, S) ==
    LET known == {d \in S : c[d] # NoSoc}
    IN  IF known = {} THEN NoSoc ELSE Total(c, known) \div Cardinality(known)

AverageSoc(S) == Average(charge, S)

\* What the proofs need of the constants: whole numbers, also where they are summed up.
ASSUME PathAssumption ==
    /\ {Band, SocLow, SocHigh} \subseteq Int
    /\ Targets \subseteq Int /\ Meters \subseteq Int /\ Percents \subseteq Nat
    /\ Rules \in Seq({"fixed", "soc", "reverse", "grid", "alarm", "ramp"})
    /\ TotalRated \in Nat
    /\ \A c \in Fleets, S \in SUBSET Names : Average(c, S) \in Int

\* What is between nothing and a power.
UpTo(x) == [low |-> Least(x, 0), high |-> Most(x, 0)]

Unknown == [soc |-> NoSoc, meter |-> 0, alarm |-> FALSE]

Init ==
    /\ plant \in [meter : Meters, alarm : {FALSE}]
    /\ params = [percent |-> 100, low |-> SocLow, ramp |-> FALSE]
    /\ charge \in Fleets
    /\ able = Names
    /\ phase = "idle" /\ at = 1
    /\ context = Unknown
    /\ p = 0 /\ keep = TRUE
    /\ limit = UpTo(0)
    /\ shares = [d \in {} |-> 0]

-----------------------------------------------------------------------------
(* The plant and the parameters                                            *)

PlantChanges ==
    /\ phase = "idle"
    /\ plant' \in [meter : Meters, alarm : BOOLEAN]
    /\ UNCHANGED <<params, charge, able, phase, at, context, p, keep, limit, shares>>

\* Any thread sets a parameter, also one with which a rule cannot work.
ParameterSet ==
    /\ phase \in {"idle", "guarding"}
    /\ params' \in {[params EXCEPT !.percent = x] : x \in Percents}
                   \cup {[params EXCEPT !.low = x] : x \in {SocLow, SocHigh + 1}}
                   \cup {[params EXCEPT !.ramp = ~@]}
    /\ UNCHANGED <<plant, charge, able, phase, at, context, p, keep, limit, shares>>

\* A device stops answering, is protected, or comes back.
DeviceChanges(d) ==
    /\ phase \in {"idle", "processing"}
    /\ able' = IF d \in able THEN able \ {d} ELSE able \cup {d}
    /\ UNCHANGED <<plant, params, charge, phase, at, context, p, keep, limit, shares>>

-----------------------------------------------------------------------------
(* The protection chain                                                    *)

\* The devices whose charge the context is made of: those that respond, protected ones
\* too, and none when too few do (min_device_ratio).
Heard == {able, Names, {}}

\* The strategy is executed; its command may leave the active power as it is.
Execute(target, same) ==
    /\ phase = "idle"
    /\ phase' = "guarding" /\ at' = 1
    /\ \E S \in Heard :
         context' = [soc |-> AverageSoc(S), meter |-> plant.meter, alarm |-> plant.alarm]
    /\ p' = (IF same THEN 0 ELSE target) /\ keep' = same
    /\ limit' = UpTo(p')
    /\ UNCHANGED <<plant, params, charge, able, shares>>

\* SOCProtection: no charging from soc_high on, no discharging down from soc_low, and in
\* the band before them in proportion to what is left of it.
ChargeLimited(x, low) ==
    LET soc == context.soc
    IN  CASE soc = NoSoc -> x
          [] soc # NoSoc /\ soc >= SocHigh -> Most(x, 0)
          [] soc # NoSoc /\ soc < SocHigh /\ soc <= low -> Least(x, 0)
          [] OTHER ->
               IF x < 0 /\ soc >= SocHigh - Band THEN Part(x, SocHigh - soc, Band)
               ELSE IF x > 0 /\ soc <= low + Band THEN Part(x, soc - low, Band)
               ELSE x

\* DynamicSOCProtection: the same with parameters.
SocLimited(x) == ChargeLimited(x, params.low)

\* Mutant: a plant that draws from the grid's side more than the threshold has the
\* battery charged.
Surplus == context.meter

\* ReversePowerProtection: what may be discharged is what the site takes, not less than 0.
Dischargeable == Most(context.meter, 0)

ReverseLimited(x) == IF x < 0 THEN x ELSE Least(x, Dischargeable)

\* GridLimitProtection, for both directions.
GridLimit == (TotalRated * params.percent) \div 100
GridLimited(x) == Least(Most(x, -GridLimit), GridLimit)

\* RampStopProtection goes down from the last command in the context it is given.  That
\* is the context before the executor put the last command in: it holds none.
LastOfContext == 0
Ramped == LastOfContext

\* soc_max < soc_min: the rule raises, and the chain goes on with no power at all.
CannotWork(rule) ==
    rule = "soc" /\ ~keep /\ context.soc # NoSoc /\ params.low > SocHigh

\* What a rule makes of the command.
Limited(rule) ==
    CASE CannotWork(rule) -> 0
      [] rule = "soc" /\ ~CannotWork(rule) -> IF keep THEN p ELSE SocLimited(p)
      [] rule = "fixed" -> IF keep THEN p ELSE ChargeLimited(p, SocLow)
      [] rule = "reverse" -> IF keep THEN p ELSE ReverseLimited(p)
      [] rule = "grid" -> IF keep THEN p ELSE GridLimited(p)
      [] rule = "alarm" -> IF context.alarm THEN 0 ELSE p
      [] rule = "ramp" -> IF params.ramp THEN Ramped ELSE p

\* A rule that does not look at the command sets the active power in any case.
Sets(rule) ==
    \/ CannotWork(rule)
    \/ rule = "alarm" /\ context.alarm
    \/ rule = "ramp" /\ params.ramp

\* The range a rule stands for at this moment, the present one where it has no say.
Allows(rule) ==
    LET soc == context.soc
        nothing == [low |-> 0, high |-> 0]
        AtCharge(low) == [low |-> IF soc # NoSoc /\ soc >= SocHigh THEN 0 ELSE limit.low,
                          high |-> IF soc # NoSoc /\ soc < SocHigh /\ soc <= low THEN 0
                                   ELSE limit.high]
    IN  CASE Sets(rule) -> nothing
          [] rule = "fixed" -> AtCharge(SocLow)
          [] ~Sets(rule) /\ rule = "soc" -> AtCharge(params.low)
          [] ~Sets(rule) /\ rule = "reverse" ->
               [low |-> limit.low, high |-> Dischargeable]
          [] ~Sets(rule) /\ rule = "grid" -> [low |-> -GridLimit, high |-> GridLimit]
          [] OTHER -> limit

\* A rule of ProtectionGuard.apply.
Evaluate ==
    /\ phase = "guarding" /\ at <= Len(Rules)
    /\ LET rule == Rules[at]
       IN  /\ p' = Limited(rule)
           /\ keep' = (keep /\ ~Sets(rule))
           /\ limit' = [low |-> Most(limit.low, Allows(rule).low),
                        high |-> Least(limit.high, Allows(rule).high)]
    /\ at' = at + 1
    /\ UNCHANGED <<plant, params, charge, able, phase, context, shares>>

Protected ==
    /\ phase = "guarding" /\ at > Len(Rules)
    /\ phase' = "processing"
    /\ UNCHANGED <<plant, params, charge, able, at, context, p, keep, limit, shares>>

\* The processors come after the protection, and nothing limits what they make of the
\* command; one that raises is skipped.
Process ==
    /\ phase = "processing"
    /\ phase' = "distributing"
    /\ p' \in {p} \cup (IF keep THEN {} ELSE Boosts)
    /\ UNCHANGED <<plant, params, charge, able, at, context, keep, limit, shares>>

-----------------------------------------------------------------------------
(* The distributor, on magnitudes                                          *)

ByRating(S) == [d \in S |-> (Magnitude(p) * Rated[d]) \div Total(Rated, S)]

\* Weights: the rating, more of it for the fuller device when discharging, for the
\* emptier one when charging; a device whose charge is not known counts as average.
Weight(d, S) ==
    LET deviation == IF charge[d] = NoSoc THEN 0 ELSE charge[d] - AverageSoc(S)
    IN  Rated[d] * Most(100 + Sign(p) * Gain * deviation, 0)

\* Mutant: what is above the maximum is dropped, and counted for the others twice.
Twice(x) == 2 * x

\* What is above the maximum is handed on.
Overflow(x) == x

\* Pass 1 and 2: clamp, and hand what is above the maximum to the others, in proportion
\* to what they have.
HandOn(v) ==
    LET S == DOMAIN v
        full == {d \in S : v[d] > MaxEach}
        rest == S \ full
        overflow == Overflow(Total([d \in S |-> v[d] - MaxEach], full))
        taken == Total(v, rest)
    IN  [d \in S |->
           IF d \in full THEN MaxEach
           ELSE v[d] + (IF taken > 0 THEN (overflow * v[d]) \div taken
                                     ELSE overflow \div Cardinality(rest))]

\* Pass 3 and 4: clamp again, and hand what is above to those with room, in proportion to
\* their room, of what the ones before have left over.
FillUp(first, v) ==
    LET S == DOMAIN v
        full == {d \in S : v[d] > MaxEach \/ first[d] > MaxEach}
        over == Total([d \in S |-> Most(v[d] - MaxEach, 0)], S)
        room == Total([d \in S |-> MaxEach - v[d]], S \ full)
        order == SelectSeq(Registry, LAMBDA d : d \in S \ full)
        Give(acc, d) ==
            LET share == Least(MaxEach - v[d], (acc.left * (MaxEach - v[d])) \div room)
            IN  [left |-> acc.left - share, given |-> [acc.given EXCEPT ![d] = share]]
        given == FoldLeft(Give, [left |-> over, given |-> [d \in S |-> 0]], order).given
    IN  [d \in S |-> IF v[d] > MaxEach THEN MaxEach
                     ELSE v[d] + (IF over > 0 /\ room > 0 THEN given[d] ELSE 0)]

\* Without any charge known the ratings decide, and no maximum is applied.
Fallback(S) ==
    AverageSoc(S) = NoSoc \/ Total([d \in S |-> Weight(d, S)], S) = 0

Magnitudes(S) ==
    IF Fallback(S) THEN ByRating(S)
    ELSE LET weights == [d \in S |-> Weight(d, S)]
             first == [d \in S |-> (Magnitude(p) * weights[d]) \div Total(weights, S)]
         IN  FillUp(first, HandOn(first))

\* The devices that can take a command now share it.
Distribute ==
    /\ phase = "distributing"
    /\ shares' = IF keep THEN [d \in {} |-> 0]
                 ELSE LET m == Magnitudes(able) IN [d \in able |-> Sign(p) * m[d]]
    /\ phase' = "routing" /\ at' = 1
    /\ UNCHANGED <<plant, params, charge, able, context, p, keep, limit>>

\* route_per_device writes the shares of those still able; the next command begins anew.
Route ==
    /\ phase = "routing"
    /\ phase' = "idle" /\ at' = 1
    /\ p' = 0 /\ keep' = TRUE /\ limit' = UpTo(0)
    /\ context' = Unknown /\ shares' = [d \in {} |-> 0]
    /\ UNCHANGED <<plant, params, charge, able>>

-----------------------------------------------------------------------------
Next ==
    \/ PlantChanges \/ ParameterSet
    \/ \E d \in Names : DeviceChanges(d)
    \/ \E target \in Targets, same \in BOOLEAN : Execute(target, same)
    \/ Evaluate \/ Protected \/ Process \/ Distribute \/ Route

Spec == Init /\ [][Next]_pathVars

-----------------------------------------------------------------------------
(* Properties                                                              *)

\* No rule of the chain undoes another, in whatever order they stand and whatever sets
\* the parameters meanwhile: the command stays between nothing and what the strategy
\* asked for and in the range of every rule asked so far, and a rule that cannot work
\* leaves no power at all.
Guarded ==
    phase \in {"guarding", "processing"} /\ ~keep => limit.low <= p /\ p <= limit.high

\* The shares have the direction of the command and do not add up to more than it;
\* a device's maximum holds where balancing is by charge; and nothing is lost beyond
\* rounding as long as none of them is at its maximum.
SharesFit ==
    phase = "routing" /\ DOMAIN shares # {} =>
      LET S == DOMAIN shares
          sum == Total(shares, S)
          n == Cardinality(S)
      IN  /\ \A d \in S : shares[d] * Sign(p) >= 0
          /\ Magnitude(sum) <= Magnitude(p)
          /\ AverageSoc(S) # NoSoc => \A d \in S : Magnitude(shares[d]) <= MaxEach
          /\ (\A d \in S : Magnitude(shares[d]) < MaxEach) => Magnitude(p) - Magnitude(sum) < n
=============================================================================
