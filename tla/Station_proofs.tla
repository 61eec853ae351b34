--------------------------- MODULE Station_proofs ---------------------------
(***************************************************************************)
(* The protection chain never lets a command out of the range of a rule it *)
(* has asked, for any chain of the six rules, any limits, fleets, meters   *)
(* and commands, while other threads set the parameters.                   *)
(*                                                                         *)
(* Guarded is not inductive: a rule that gives up sets the command to 0,   *)
(* and that is in range only because every rule so far left 0 in range.    *)
(*                                                                         *)
(* The queue of device events hands its events over in their order, for    *)
(* any number of events and any size: what was handed over and what waits  *)
(* ascends together.  And no sentinel stays behind, unless a stop went     *)
(* past its timeout: a worker ends on an empty queue only.                 *)
(***************************************************************************)
EXTENDS PowerPath, EventEmitter, TLAPS

Inputs ==
    /\ plant.meter \in Int
    /\ params \in [percent : Nat, low : Int, ramp : BOOLEAN]
    /\ charge \in Fleets /\ able \subseteq Names
    /\ at \in Nat \ {0}
    /\ context.soc \in Int /\ context.meter \in Int

Between(y, low, high) ==
    /\ y \in Int /\ low \in Int /\ high \in Int
    /\ low <= 0 /\ 0 <= high
    /\ low <= y /\ y <= high

\* The command is in range, and so is no power at all.
InRange ==
    phase \in {"guarding", "processing"} =>
      Between(p, limit.low, limit.high) /\ (keep => p = 0)

IInv == Inputs /\ InRange

\* y is between nothing and x.
Toward(y, x) ==
    /\ y \in Int
    /\ x >= 0 => 0 <= y /\ y <= x
    /\ x < 0 => x <= y /\ y <= 0

\* What the charge forbids.
KeepsCharge(y, soc, low) ==
    /\ soc # NoSoc /\ soc >= SocHigh => y >= 0
    /\ soc # NoSoc /\ soc < SocHigh /\ soc <= low => y <= 0

-----------------------------------------------------------------------------
(* What the helpers return.                                                *)

\* A part of a number is between nothing and the number.
LEMMA PartBetween ==
    ASSUME NEW x \in Int, NEW d \in Nat \ {0}, NEW n \in 0..d
    PROVE  Toward(Part(x, n, d), x)
<1> DEFINE m == Magnitude(x)
           q == (m * n) \div d
<1>1. m \in Nat
  BY DEF Magnitude
<1>2. m * n \in Nat /\ m * n <= m * d
  <2>1. \A a, b, c \in Nat : b <= c => a * b \in Nat /\ a * b <= a * c
    BY SMT
  <2> QED
    BY <1>1, <2>1
<1>3. q \in Nat /\ d * q <= m * n
  BY <1>2
<1>4. q <= m
  <2>1. SUFFICES ASSUME q >= m + 1 PROVE FALSE
    BY <1>1, <1>3
  <2>2. d * q >= d * (m + 1)
    BY <1>1, <1>3, <2>1
  <2>3. d * (m + 1) = m * d + d
    BY <1>1
  <2> QED
    BY <1>1, <1>2, <1>3, <2>2, <2>3
<1>5. Part(x, n, d) = Sign(x) * q
  BY DEF Part
<1> HIDE DEF q
<1>6. x >= 0 => Part(x, n, d) = q /\ m = x
  BY <1>3, <1>5 DEF Sign, Magnitude
<1>7. x < 0 => Part(x, n, d) = -q /\ m = -x
  BY <1>3, <1>5 DEF Sign, Magnitude
<1> QED
  BY <1>1, <1>3, <1>4, <1>6, <1>7 DEF Toward

\* A limit by the state of charge leaves a command between nothing and what it was, and
\* takes away all of it in the direction the charge forbids.
LEMMA ChargeLimits ==
    ASSUME context.soc \in Int, NEW x \in Int, NEW low \in Int
    PROVE  /\ Toward(ChargeLimited(x, low), x)
           /\ KeepsCharge(ChargeLimited(x, low), context.soc, low)
<1> DEFINE soc == context.soc
           y == ChargeLimited(x, low)
<1>0. soc \in Int /\ Band \in Int /\ SocHigh \in Int
  BY PathAssumption
<1> SUFFICES Toward(y, x) /\ KeepsCharge(y, soc, low)
  OBVIOUS
<1> USE DEF Toward, KeepsCharge
<1> HIDE DEF soc
<1>1. CASE soc = NoSoc
  <2>1. y = x
    BY <1>1 DEF ChargeLimited, NoSoc, soc
  <2> QED
    BY <1>1, <2>1
<1>2. CASE soc # NoSoc /\ soc >= SocHigh
  <2>1. y = Most(x, 0)
    BY <1>0, <1>2 DEF ChargeLimited, NoSoc, soc
  <2> QED
    BY <1>0, <1>2, <2>1 DEF Most
<1>3. CASE soc # NoSoc /\ soc < SocHigh /\ soc <= low
  <2>1. y = Least(x, 0)
    BY <1>0, <1>3 DEF ChargeLimited, NoSoc, soc
  <2> QED
    BY <1>0, <1>3, <2>1 DEF Least
<1>4. CASE soc # NoSoc /\ soc < SocHigh /\ soc > low
  <2>1. y = IF x < 0 /\ soc >= SocHigh - Band THEN Part(x, SocHigh - soc, Band)
            ELSE IF x > 0 /\ soc <= low + Band THEN Part(x, soc - low, Band) ELSE x
    BY <1>0, <1>4 DEF ChargeLimited, NoSoc, soc
  <2>2. CASE x < 0 /\ soc >= SocHigh - Band
    <3>1. Band \in Nat \ {0} /\ SocHigh - soc \in 0..Band
      BY <1>0, <1>4, <2>2
    <3>2. y = Part(x, SocHigh - soc, Band)
      BY <2>1, <2>2
    <3>3. Toward(y, x)
      BY <3>1, <3>2, PartBetween
    <3> QED
      BY <1>0, <1>4, <3>3
  <2>3. CASE ~(x < 0 /\ soc >= SocHigh - Band) /\ x > 0 /\ soc <= low + Band
    <3>1. Band \in Nat \ {0} /\ soc - low \in 0..Band
      BY <1>0, <1>4, <2>3
    <3>2. y = Part(x, soc - low, Band)
      BY <2>1, <2>3
    <3>3. Toward(y, x)
      BY <3>1, <3>2, PartBetween
    <3> QED
      BY <1>0, <1>4, <3>3
  <2>4. CASE ~(x < 0 /\ soc >= SocHigh - Band) /\ ~(x > 0 /\ soc <= low + Band)
    <3>1. y = x
      BY <2>1, <2>4
    <3> QED
      BY <1>0, <1>4, <3>1
  <2> QED
    BY <2>2, <2>3, <2>4
<1> QED
  BY <1>0, <1>1, <1>2, <1>3, <1>4

\* The limit of the grid connection is a number, and not negative.
LEMMA GridLimitNat ==
    ASSUME params.percent \in Nat
    PROVE  GridLimit \in Nat
<1>1. TotalRated \in Nat
  BY PathAssumption
<1>2. \A a, b \in Nat : a * b \in Nat
  BY SMT
<1>3. TotalRated * params.percent \in Nat
  BY <1>1, <1>2
<1> QED
  BY <1>3 DEF GridLimit

-----------------------------------------------------------------------------
(* The rules.                                                              *)

Kinds == {"fixed", "soc", "reverse", "grid", "alarm", "ramp"}

\* A rule leaves the command, and no power at all, in the range of the rules before it
\* and in its own.
LEMMA RuleInRange ==
    ASSUME IInv, phase = "guarding", NEW rule \in Kinds
    PROVE  Between(Limited(rule), Most(limit.low, Allows(rule).low),
                                  Least(limit.high, Allows(rule).high))
<1>1. Between(p, limit.low, limit.high) /\ (keep => p = 0)
  BY DEF IInv, InRange
<1>2. context.soc \in Int /\ context.meter \in Int /\ params.low \in Int
  BY DEF IInv, Inputs
<1>3. SocLow \in Int /\ SocHigh \in Int
  BY PathAssumption
<1>4. CASE Sets(rule)
  <2>1. Limited(rule) = 0
    BY <1>4 DEF Sets, Limited, CannotWork, Ramped, LastOfContext
  <2>2. Allows(rule).low = 0 /\ Allows(rule).high = 0
    BY <1>4 DEF Allows, Sets, CannotWork
  <2> QED
    BY <1>1, <2>1, <2>2 DEF Between, Most, Least
<1>5. ASSUME ~Sets(rule), NEW low \in Int, NEW y \in Int,
             y = IF keep THEN p ELSE ChargeLimited(p, low),
             Allows(rule).low = IF context.soc # NoSoc /\ context.soc >= SocHigh THEN 0
                                ELSE limit.low,
             Allows(rule).high = IF context.soc # NoSoc /\ context.soc < SocHigh
                                    /\ context.soc <= low THEN 0 ELSE limit.high
      PROVE  Between(y, Most(limit.low, Allows(rule).low), Least(limit.high, Allows(rule).high))
  <2>1. CASE keep
    BY <1>1, <1>5, <2>1 DEF Between, Most, Least
  <2>2. CASE ~keep
    <3>1. p \in Int
      BY <1>1 DEF Between
    <3>2. Toward(y, p) /\ KeepsCharge(y, context.soc, low)
      BY <1>2, <1>5, <2>2, <3>1, ChargeLimits
    <3> QED
      BY <1>1, <1>2, <1>3, <1>5, <3>1, <3>2 DEF Between, Most, Least, Toward, KeepsCharge
  <2> QED
    BY <2>1, <2>2
<1>6. CASE ~Sets(rule) /\ rule = "fixed"
  <2>1. Limited(rule) = IF keep THEN p ELSE ChargeLimited(p, SocLow)
    BY <1>6 DEF Limited, CannotWork
  <2>2. Limited(rule) \in Int
    BY <1>1, <1>2, <1>3, <2>1, ChargeLimits DEF Between, Toward
  <2>3. /\ Allows(rule).low = IF context.soc # NoSoc /\ context.soc >= SocHigh THEN 0
                              ELSE limit.low
        /\ Allows(rule).high = IF context.soc # NoSoc /\ context.soc < SocHigh
                                  /\ context.soc <= SocLow THEN 0 ELSE limit.high
    BY <1>6 DEF Allows
  <2> QED
    BY <1>3, <1>5, <1>6, <2>1, <2>2, <2>3
<1>7. CASE ~Sets(rule) /\ rule = "soc"
  <2>1. Limited(rule) = IF keep THEN p ELSE ChargeLimited(p, params.low)
    BY <1>7 DEF Sets, Limited, SocLimited
  <2>2. Limited(rule) \in Int
    BY <1>1, <1>2, <2>1, ChargeLimits DEF Between, Toward
  <2>3. /\ Allows(rule).low = IF context.soc # NoSoc /\ context.soc >= SocHigh THEN 0
                              ELSE limit.low
        /\ Allows(rule).high = IF context.soc # NoSoc /\ context.soc < SocHigh
                                  /\ context.soc <= params.low THEN 0 ELSE limit.high
    BY <1>7 DEF Allows
  <2> QED
    BY <1>2, <1>5, <1>7, <2>1, <2>2, <2>3
<1>8. CASE ~Sets(rule) /\ rule = "reverse"
  <2>1. Limited(rule) = IF keep THEN p ELSE ReverseLimited(p)
    BY <1>8 DEF Limited, CannotWork
  <2>2. Allows(rule).low = limit.low /\ Allows(rule).high = Dischargeable
    BY <1>8 DEF Allows
  <2> QED
    BY <1>1, <1>2, <2>1, <2>2 DEF Between, Most, Least, ReverseLimited, Dischargeable
<1>9. CASE ~Sets(rule) /\ rule = "grid"
  <2>1. Limited(rule) = IF keep THEN p ELSE GridLimited(p)
    BY <1>9 DEF Limited, CannotWork
  <2>2. Allows(rule).low = -GridLimit /\ Allows(rule).high = GridLimit
    BY <1>9 DEF Allows
  <2>3. GridLimit \in Nat
    BY GridLimitNat DEF IInv, Inputs
  <2> QED
    BY <1>1, <2>1, <2>2, <2>3 DEF Between, Most, Least, GridLimited
<1>10. CASE ~Sets(rule) /\ rule \in {"alarm", "ramp"}
  <2>1. Limited(rule) = p
    BY <1>10 DEF Sets, Limited, CannotWork
  <2>2. Allows(rule) = limit
    BY <1>10 DEF Allows
  <2> QED
    BY <1>1, <2>1, <2>2 DEF Between, Most, Least
<1> QED
  BY <1>4, <1>6, <1>7, <1>8, <1>9, <1>10 DEF Kinds

-----------------------------------------------------------------------------
(* The invariant.                                                          *)

LEMMA InitInv == Init => IInv
<1> SUFFICES ASSUME Init PROVE IInv
  OBVIOUS
<1>1. Inputs
  <2>1. plant.meter \in Int
    BY PathAssumption DEF Init
  <2>2. SocLow \in Int
    BY PathAssumption
  <2>3. params \in [percent : Nat, low : Int, ramp : BOOLEAN]
    BY <2>2 DEF Init
  <2>4. context.soc \in Int /\ context.meter \in Int
    BY DEF Init, Unknown, NoSoc
  <2> QED
    BY <2>1, <2>3, <2>4 DEF Init, Inputs
<1>2. InRange
  BY DEF Init, InRange
<1> QED
  BY <1>1, <1>2 DEF IInv

\* The range from nothing to a command holds both.
LEMMA UpToBetween ==
    ASSUME NEW x \in Int
    PROVE  Between(x, UpTo(x).low, UpTo(x).high)
BY DEF Between, UpTo, Least, Most

LEMMA NextInv == IInv /\ [Next]_pathVars => IInv'
<1> SUFFICES ASSUME IInv, [Next]_pathVars PROVE IInv'
  OBVIOUS
<1> USE DEF IInv
<1>1. CASE PlantChanges
  <2>1. Inputs'
    BY <1>1, PathAssumption DEF PlantChanges, Inputs
  <2>2. InRange'
    BY <1>1 DEF PlantChanges, InRange
  <2> QED
    BY <2>1, <2>2
<1>2. CASE ParameterSet
  <2>1. params' \in [percent : Nat, low : Int, ramp : BOOLEAN]
    <3>1. params \in [percent : Nat, low : Int, ramp : BOOLEAN]
      BY DEF Inputs
    <3>2. SocLow \in Int /\ SocHigh + 1 \in Int
      BY PathAssumption
    <3>3. CASE \E x \in Percents : params' = [params EXCEPT !.percent = x]
      BY <3>1, <3>3, PathAssumption
    <3>4. CASE \E x \in {SocLow, SocHigh + 1} : params' = [params EXCEPT !.low = x]
      BY <3>1, <3>2, <3>4
    <3>5. CASE params' = [params EXCEPT !.ramp = ~@]
      BY <3>1, <3>5
    <3> QED
      BY <1>2, <3>3, <3>4, <3>5 DEF ParameterSet
  <2>2. Inputs'
    BY <1>2, <2>1 DEF ParameterSet, Inputs
  <2>3. InRange'
    BY <1>2 DEF ParameterSet, InRange, Between
  <2> QED
    BY <2>2, <2>3
<1>3. ASSUME NEW d \in Names, DeviceChanges(d) PROVE IInv'
  <2>1. Inputs'
    BY <1>3 DEF DeviceChanges, Inputs
  <2>2. InRange'
    BY <1>3 DEF DeviceChanges, InRange, Between
  <2> QED
    BY <2>1, <2>2
<1>4. ASSUME NEW target \in Targets, NEW same \in BOOLEAN, Execute(target, same)
      PROVE  IInv'
  <2>1. p' \in Int /\ (keep' => p' = 0)
    BY <1>4, PathAssumption DEF Execute
  <2>2. Between(p', limit'.low, limit'.high)
    BY <1>4, <2>1, UpToBetween DEF Execute
  <2>3. context'.soc \in Int /\ context'.meter \in Int
    <3>1. PICK S \in Heard :
            context' = [soc |-> AverageSoc(S), meter |-> plant.meter, alarm |-> plant.alarm]
      BY <1>4 DEF Execute
    <3>2. S \in SUBSET Names
      BY <3>1 DEF Heard, Inputs
    <3> QED
      BY <3>1, <3>2, PathAssumption DEF AverageSoc, Inputs
  <2>4. Inputs'
    BY <1>4, <2>3 DEF Execute, Inputs
  <2>5. InRange'
    BY <2>1, <2>2 DEF InRange
  <2> QED
    BY <2>4, <2>5
<1>5. CASE Evaluate
  <2> DEFINE rule == Rules[at]
  <2>1. rule \in Kinds
    BY <1>5, PathAssumption DEF Evaluate, Inputs, Kinds
  <2>2. Between(p', limit'.low, limit'.high)
    BY <1>5, <2>1, RuleInRange DEF Evaluate
  <2>3. keep' => p' = 0
    <3>1. keep' => keep /\ p = 0 /\ ~Sets(rule)
      BY <1>5 DEF Evaluate, InRange
    <3>2. keep' => Limited(rule) = 0
      BY <2>1, <3>1 DEF Limited, Sets, Kinds
    <3> QED
      BY <1>5, <3>2 DEF Evaluate
  <2>4. Inputs'
    BY <1>5 DEF Evaluate, Inputs
  <2>5. InRange'
    BY <2>2, <2>3 DEF InRange
  <2> QED
    BY <2>4, <2>5
<1>6. CASE Protected
  <2>1. Inputs'
    BY <1>6 DEF Protected, Inputs
  <2>2. InRange'
    BY <1>6 DEF Protected, InRange, Between
  <2> QED
    BY <2>1, <2>2
<1>7. CASE Process
  BY <1>7 DEF Process, Inputs, InRange
<1>8. CASE Distribute
  BY <1>8 DEF Distribute, Inputs, InRange
<1>9. CASE Route
  BY <1>9 DEF Route, Inputs, InRange, Unknown, NoSoc
<1>10. CASE UNCHANGED pathVars
  <2>1. Inputs'
    BY <1>10 DEF pathVars, Inputs
  <2>2. InRange'
    BY <1>10 DEF pathVars, InRange, Between
  <2> QED
    BY <2>1, <2>2
<1> QED
  BY <1>1, <1>2, <1>3, <1>4, <1>5, <1>6, <1>7, <1>8, <1>9, <1>10 DEF Next

\* The inductive invariant holds in every state.
THEOREM PathInvariance == Spec => []IInv
BY InitInv, NextInv, PTL DEF Spec

\* ProtectionGuard.apply: no rule undoes another, whatever the chain, the limits and the
\* parameters set meanwhile.
THEOREM ChainGuards == Spec => []Guarded
<1>1. IInv => Guarded
  BY DEF IInv, InRange, Between, Guarded
<1> QED
  BY <1>1, PathInvariance, PTL

-----------------------------------------------------------------------------
(* EventEmitter                                                            *)

Places == {"none", "main", "handling", "drain", "draining", "done"}

\* What the proofs need of the kinds of the variables.
EmitterKinds ==
    /\ running \in BOOLEAN /\ expired \in BOOLEAN
    /\ line \in Seq(EventIds \cup {Sentinel}) /\ Len(line) <= QueueSize
    /\ worker \in [at : Places, event : EventIds \cup {Sentinel}]
    /\ stopper \in {"off", "waiting", "cancelling"}
    /\ handed \in Seq(EventIds)
    /\ emitted \in EventIds \cup {0}

\* The events handed over and those in the queue, one after the other, are in the order
\* they were emitted in.
Ascends ==
    /\ \A i, j \in 1..Len(handed) : i < j => handed[i] < handed[j]
    /\ \A k, l \in 1..Len(line) :
         k < l /\ line[k] # Sentinel /\ line[l] # Sentinel => line[k] < line[l]
    /\ \A i \in 1..Len(handed), k \in 1..Len(line) : line[k] # Sentinel => handed[i] < line[k]
    /\ \A i \in 1..Len(handed) : handed[i] <= emitted
    /\ \A k \in 1..Len(line) : line[k] <= emitted

\* As long as no stop has gone past its timeout: an emitter that runs has its worker, and
\* no sentinel in its queue; a stop waits for the worker, which leaves an empty queue.
Served ==
    ~expired =>
      /\ running => /\ worker.at \in {"main", "handling"} /\ stopper = "off"
                    /\ \A k \in 1..Len(line) : line[k] # Sentinel
      /\ ~running /\ stopper = "off" => worker.at = "none" /\ line = <<>>
      /\ stopper # "off" => worker.at # "none"
      /\ worker.at = "done" => line = <<>>

\* The inductive invariant of the event queue.
EmitterInv == EmitterKinds /\ Ascends /\ Served

\* The event queue begins empty, without a worker.
LEMMA EmitterBegins == EmitterInit => EmitterInv
<1> SUFFICES ASSUME EmitterInit PROVE EmitterInv
  OBVIOUS
<1>1. /\ running = FALSE /\ line = <<>> /\ worker = Worker("none", Sentinel)
      /\ stopper = "off" /\ handed = <<>> /\ emitted = 0 /\ expired = FALSE
  BY DEF EmitterInit
<1>2. /\ <<>> \in Seq(EventIds) /\ <<>> \in Seq(EventIds \cup {Sentinel}) /\ Len(<<>>) = 0
  OBVIOUS
<1>3. worker \in [at : Places, event : EventIds \cup {Sentinel}] /\ worker.at = "none"
  BY <1>1 DEF Worker, Places
<1>4. EmitterKinds
  <2>1. Len(line) <= QueueSize
    BY <1>1, <1>2, EmitterAssumption
  <2> QED BY <1>1, <1>2, <1>3, <2>1 DEF EmitterKinds
<1>5. Ascends /\ Served
  BY <1>1, <1>2, <1>3 DEF Ascends, Served
<1> QED BY <1>4, <1>5 DEF EmitterInv

\* Events are numbers.
LEMMA EventNumbers ==
  ASSUME EmitterKinds
  PROVE  /\ Len(line) \in Nat /\ Len(handed) \in Nat /\ emitted \in Nat
         /\ \A k \in 1..Len(line) : line[k] \in EventIds \cup {Sentinel} /\ line[k] \in Nat
         /\ \A i \in 1..Len(handed) : handed[i] \in EventIds /\ handed[i] \in Nat
<1>1. line \in Seq(EventIds \cup {Sentinel}) /\ handed \in Seq(EventIds) /\ emitted \in EventIds \cup {0}
  BY DEF EmitterKinds
<1>2. \A e \in EventIds \cup {Sentinel} : e \in Nat
  BY EmitterAssumption DEF Sentinel
<1>3. \A k \in 1..Len(line) : line[k] \in EventIds \cup {Sentinel}
  BY <1>1
<1>4. \A i \in 1..Len(handed) : handed[i] \in EventIds
  BY <1>1
<1> QED BY <1>1, <1>2, <1>3, <1>4 DEF Sentinel

\* The first of the queue goes: it is handed over, or it is a sentinel.
LEMMA TakenKeeps ==
  ASSUME EmitterKinds, Ascends, line # <<>>, line' = Tail(line), UNCHANGED emitted,
         IF Head(line) = Sentinel THEN UNCHANGED handed ELSE handed' = Append(handed, Head(line))
  PROVE  /\ line' \in Seq(EventIds \cup {Sentinel}) /\ Len(line') <= QueueSize
         /\ \A k \in 1..Len(line') : k + 1 \in 1..Len(line) /\ line'[k] = line[k + 1]
         /\ handed' \in Seq(EventIds) /\ Ascends'
<1> DEFINE n == Len(handed)
           e == Head(line)
<1>1. /\ Len(line) \in Nat /\ Len(line) > 0 /\ e = line[1] /\ e \in EventIds \cup {Sentinel}
      /\ line' \in Seq(EventIds \cup {Sentinel}) /\ Len(line') = Len(line) - 1
      /\ \A k \in 1..Len(line') : line'[k] = line[k + 1]
  BY DEF EmitterKinds
<1>2. \A k \in 1..Len(line') : k + 1 \in 1..Len(line)
  BY <1>1
<1>3. Len(line') <= QueueSize
  BY <1>1, EmitterAssumption DEF EmitterKinds
<1>4. /\ handed' \in Seq(EventIds) /\ n \in Nat
      /\ e # Sentinel => /\ Len(handed') = n + 1 /\ handed'[n + 1] = e
                         /\ \A i \in 1..n : handed'[i] = handed[i]
  <2>1. handed \in Seq(EventIds) /\ n \in Nat
    BY DEF EmitterKinds
  <2>2. CASE e = Sentinel
    BY <2>1, <2>2
  <2>3. CASE e # Sentinel
    <3>1. e \in EventIds /\ handed' = Append(handed, e)
      BY <1>1, <2>3
    <3> HIDE DEF e
    <3> QED BY <2>1, <3>1
  <2> QED BY <2>2, <2>3
<1>5. 1 \in 1..Len(line)
  BY <1>1
<1>6. \A k \in 1..Len(line) : line[k] \in Nat
  BY EventNumbers
<1>7. \A i \in 1..n : handed[i] \in Nat
  BY EventNumbers
<1>8. /\ \A k, l \in 1..Len(line') :
           k < l /\ line'[k] # Sentinel /\ line'[l] # Sentinel => line'[k] < line'[l]
      /\ \A k \in 1..Len(line') : line'[k] <= emitted
  <2>1. ASSUME NEW k \in 1..Len(line'), NEW l \in 1..Len(line'), k < l,
               line'[k] # Sentinel, line'[l] # Sentinel
        PROVE  line'[k] < line'[l]
    <3>1. k + 1 < l + 1
      BY <1>1, <2>1
    <3> QED BY <1>1, <1>2, <2>1, <3>1 DEF Ascends
  <2>2. \A k \in 1..Len(line') : line'[k] <= emitted
    BY <1>1, <1>2 DEF Ascends
  <2> QED BY <2>1, <2>2
<1>9. CASE e = Sentinel
  <2>1. handed' = handed
    BY <1>9
  <2>2. \A i \in 1..n, k \in 1..Len(line') : line'[k] # Sentinel => handed[i] < line'[k]
    BY <1>1, <1>2 DEF Ascends
  <2>3. Ascends'
    BY <1>8, <2>1, <2>2 DEF Ascends
  <2> QED BY <1>1, <1>2, <1>3, <1>4, <2>3
<1>10. CASE e # Sentinel
  <2> USE <1>10
  <2>1. \A i, j \in 1..(n + 1) : i < j => handed'[i] < handed'[j]
    <3> SUFFICES ASSUME NEW i \in 1..(n + 1), NEW j \in 1..(n + 1), i < j
                 PROVE  handed'[i] < handed'[j]
      OBVIOUS
    <3>1. i \in 1..n /\ handed'[i] = handed[i]
      BY <1>4
    <3>2. CASE j = n + 1
      <4>1. handed[i] < line[1]
        BY <1>1, <1>5, <3>1 DEF Ascends
      <4> QED BY <1>1, <1>4, <3>1, <3>2, <4>1
    <3>3. CASE j \in 1..n
      BY <1>4, <3>1, <3>3 DEF Ascends
    <3> QED BY <1>4, <3>2, <3>3
  <2>2. \A i \in 1..(n + 1) : handed'[i] <= emitted
    <3> SUFFICES ASSUME NEW i \in 1..(n + 1) PROVE handed'[i] <= emitted
      OBVIOUS
    <3>1. CASE i = n + 1
      BY <1>1, <1>4, <1>5, <3>1 DEF Ascends
    <3>2. CASE i \in 1..n
      BY <1>4, <3>2 DEF Ascends
    <3> QED BY <1>4, <3>1, <3>2
  <2>3. \A i \in 1..(n + 1), k \in 1..Len(line') : line'[k] # Sentinel => handed'[i] < line'[k]
    <3> SUFFICES ASSUME NEW i \in 1..(n + 1), NEW k \in 1..Len(line'), line'[k] # Sentinel
                 PROVE  handed'[i] < line'[k]
      OBVIOUS
    <3>1. k + 1 \in 1..Len(line) /\ line'[k] = line[k + 1] /\ 1 < k + 1
      BY <1>1, <1>2
    <3>2. CASE i = n + 1
      <4>1. line[1] < line[k + 1]
        BY <1>1, <1>5, <3>1 DEF Ascends
      <4> QED BY <1>1, <1>4, <3>1, <3>2, <4>1
    <3>3. CASE i \in 1..n
      BY <1>4, <3>1, <3>3 DEF Ascends
    <3> QED BY <1>4, <3>2, <3>3
  <2>4. Len(handed') = n + 1
    BY <1>4
  <2>5. Ascends'
    BY <1>8, <2>1, <2>2, <2>3, <2>4 DEF Ascends
  <2> QED BY <1>1, <1>2, <1>3, <1>4, <2>5
<1> QED BY <1>9, <1>10

\* Something is put at the end of the queue: the next event, or a sentinel.
LEMMA PutKeeps ==
  ASSUME EmitterKinds, Ascends, Len(line) < QueueSize, NEW e \in EventIds \cup {Sentinel},
         line' = Append(line, e), UNCHANGED handed,
         \/ e = Sentinel /\ UNCHANGED emitted
         \/ e = emitted + 1 /\ emitted' = e
  PROVE  /\ line' \in Seq(EventIds \cup {Sentinel}) /\ Len(line') <= QueueSize
         /\ Len(line') = Len(line) + 1 /\ line'[Len(line) + 1] = e
         /\ \A k \in 1..Len(line) : line'[k] = line[k]
         /\ Ascends'
<1> DEFINE n == Len(line)
<1>1. /\ n \in Nat /\ line' \in Seq(EventIds \cup {Sentinel}) /\ Len(line') = n + 1
      /\ line'[n + 1] = e /\ \A k \in 1..n : line'[k] = line[k]
  BY DEF EmitterKinds
<1>2. Len(line') <= QueueSize
  BY <1>1, EmitterAssumption
<1>3. emitted \in Nat /\ emitted' \in Nat /\ emitted <= emitted' /\ e <= emitted'
  BY EmitterAssumption DEF EmitterKinds, Sentinel
<1>4. e # Sentinel => emitted < e
  BY <1>3 DEF Sentinel
<1>5. \A k \in 1..n : line[k] \in Nat
  BY EventNumbers
<1>6. \A i \in 1..Len(handed) : handed[i] \in Nat
  BY EventNumbers
<1>7. \A k \in 1..(n + 1) : line'[k] <= emitted'
  <2> SUFFICES ASSUME NEW k \in 1..(n + 1) PROVE line'[k] <= emitted'
    OBVIOUS
  <2>1. CASE k = n + 1
    BY <1>1, <1>3, <2>1
  <2>2. CASE k \in 1..n
    <3>1. line[k] <= emitted
      BY <2>2 DEF Ascends
    <3> QED BY <1>1, <1>3, <1>5, <2>2, <3>1
  <2> QED BY <1>1, <2>1, <2>2
<1>8. \A i \in 1..Len(handed) : handed[i] <= emitted'
  BY <1>3, <1>6 DEF Ascends
<1>9. ASSUME NEW k \in 1..(n + 1), NEW l \in 1..(n + 1), k < l, line'[k] # Sentinel, line'[l] # Sentinel
      PROVE  line'[k] < line'[l]
  <2>1. k \in 1..n /\ line'[k] = line[k] /\ line[k] <= emitted
    BY <1>1, <1>9 DEF Ascends
  <2>2. CASE l = n + 1
    BY <1>1, <1>3, <1>4, <1>5, <1>9, <2>1, <2>2
  <2>3. CASE l \in 1..n
    BY <1>1, <1>9, <2>1, <2>3 DEF Ascends
  <2> QED BY <1>1, <2>2, <2>3
<1>10. ASSUME NEW i \in 1..Len(handed), NEW k \in 1..(n + 1), line'[k] # Sentinel
       PROVE  handed[i] < line'[k]
  <2>1. CASE k = n + 1
    <3>1. handed[i] <= emitted
      BY DEF Ascends
    <3> QED BY <1>1, <1>3, <1>4, <1>6, <1>10, <2>1, <3>1
  <2>2. CASE k \in 1..n
    BY <1>1, <1>10, <2>2 DEF Ascends
  <2> QED BY <1>1, <2>1, <2>2
<1>11. Ascends'
  BY <1>1, <1>7, <1>8, <1>9, <1>10 DEF Ascends
<1> QED BY <1>1, <1>2, <1>11

\* Where the worker is, and with what.
LEMMA WorkerKinds ==
  \A a \in Places, e \in EventIds \cup {Sentinel} :
    /\ Worker(a, e) \in [at : Places, event : EventIds \cup {Sentinel}]
    /\ Worker(a, e).at = a
BY DEF Worker

\* An event goes into the queue of an emitter that runs.
LEMMA EmitKeeps ==
  ASSUME EmitterInv, Emit
  PROVE  EmitterInv'
<1>1. /\ emitted + 1 \in EventIds /\ emitted' = emitted + 1
      /\ line' = IF running /\ Len(line) < QueueSize THEN Append(line, emitted') ELSE line
      /\ UNCHANGED <<running, worker, stopper, handed, expired>>
  BY DEF Emit
<1>2. EmitterKinds /\ Ascends /\ Served
  BY DEF EmitterInv
<1>3. emitted \in Nat /\ emitted + 1 \in Nat \ {0}
  BY <1>2, EmitterAssumption DEF EmitterKinds
<1>4. CASE running /\ Len(line) < QueueSize
  <2>1. line' = Append(line, emitted + 1)
    BY <1>1, <1>4
  <2>2. /\ line' \in Seq(EventIds \cup {Sentinel}) /\ Len(line') <= QueueSize
        /\ Len(line') = Len(line) + 1 /\ line'[Len(line) + 1] = emitted + 1
        /\ \A k \in 1..Len(line) : line'[k] = line[k]
        /\ Ascends'
    BY <1>1, <1>2, <1>4, <2>1, PutKeeps
  <2>3. EmitterKinds'
    BY <1>1, <1>2, <2>2 DEF EmitterKinds
  <2>4. Served'
    <3>1. Len(line) \in Nat
      BY <1>2 DEF EmitterKinds
    <3>2. ASSUME ~expired, NEW k \in 1..Len(line') PROVE line'[k] # Sentinel
      <4>1. CASE k = Len(line) + 1
        BY <1>3, <2>2, <4>1 DEF Sentinel
      <4>2. CASE k \in 1..Len(line)
        BY <1>2, <1>4, <2>2, <3>2, <4>2 DEF Served
      <4> QED BY <2>2, <3>1, <4>1, <4>2
    <3> QED BY <1>1, <1>2, <1>4, <3>2 DEF Served
  <2> QED BY <2>2, <2>3, <2>4 DEF EmitterInv
<1>5. CASE ~(running /\ Len(line) < QueueSize)
  <2>1. line' = line
    BY <1>1, <1>5
  <2>2. EmitterKinds'
    BY <1>1, <1>2, <2>1 DEF EmitterKinds
  <2>3. Ascends'
    <3>1. emitted < emitted'
      BY <1>1, <1>3
    <3>2. \A i \in 1..Len(handed) : handed[i] \in Nat
      BY <1>2, EventNumbers
    <3>3. \A k \in 1..Len(line) : line[k] \in Nat
      BY <1>2, EventNumbers
    <3>4. /\ \A i \in 1..Len(handed) : handed[i] <= emitted'
          /\ \A k \in 1..Len(line) : line[k] <= emitted'
      BY <1>1, <1>2, <1>3, <3>1, <3>2, <3>3 DEF Ascends
    <3> QED BY <1>1, <1>2, <2>1, <3>4 DEF Ascends
  <2>4. Served'
    BY <1>1, <1>2, <2>1 DEF Served
  <2> QED BY <2>2, <2>3, <2>4 DEF EmitterInv
<1> QED BY <1>4, <1>5

\* Starting and stopping: the worker comes to an empty queue, the sentinel behind what
\* there is.
LEMMA StartStopKeeps ==
  ASSUME EmitterInv, Start \/ Stop
  PROVE  EmitterInv'
<1>1. EmitterKinds /\ Ascends /\ Served
  BY DEF EmitterInv
<1>2. Sentinel \in EventIds \cup {Sentinel} /\ "main" \in Places
  BY DEF Places
<1>3. CASE Start
  <2>1. /\ ~running /\ stopper = "off" /\ running' = TRUE
        /\ worker' = Worker("main", Sentinel)
        /\ UNCHANGED <<line, stopper, handed, emitted, expired>>
    BY <1>3 DEF Start
  <2>2. worker' \in [at : Places, event : EventIds \cup {Sentinel}] /\ worker'.at = "main"
    BY <1>2, <2>1, WorkerKinds
  <2>3. EmitterKinds'
    BY <1>1, <2>1, <2>2 DEF EmitterKinds
  <2>4. Ascends'
    BY <1>1, <2>1 DEF Ascends
  <2>5. Served'
    <3>1. ASSUME ~expired PROVE \A k \in 1..Len(line') : line'[k] # Sentinel
      <4>1. line' = <<>> /\ Len(<<>>) = 0
        BY <1>1, <2>1, <3>1 DEF Served
      <4> QED BY <4>1
    <3> QED BY <2>1, <2>2, <3>1 DEF Served
  <2> QED BY <2>3, <2>4, <2>5 DEF EmitterInv
<1>4. CASE Stop
  <2>1. /\ running /\ running' = FALSE /\ line' = WithSentinel /\ stopper' = "waiting"
        /\ UNCHANGED <<worker, handed, emitted, expired>>
    BY <1>4 DEF Stop
  <2>2. line' \in Seq(EventIds \cup {Sentinel}) /\ Len(line') <= QueueSize /\ Ascends'
    <3>1. CASE Len(line) < QueueSize
      <4>1. line' = Append(line, Sentinel)
        BY <2>1, <3>1 DEF WithSentinel
      <4> QED BY <1>1, <1>2, <2>1, <3>1, <4>1, PutKeeps
    <3>2. CASE ~(Len(line) < QueueSize)
      <4>1. line' = line
        BY <2>1, <3>2 DEF WithSentinel
      <4>2. Ascends'
        BY <1>1, <2>1, <4>1 DEF Ascends
      <4> QED BY <1>1, <4>1, <4>2 DEF EmitterKinds
    <3> QED BY <3>1, <3>2
  <2>3. EmitterKinds'
    BY <1>1, <2>1, <2>2 DEF EmitterKinds
  <2>4. Served'
    BY <1>1, <2>1 DEF Served
  <2> QED BY <2>2, <2>3, <2>4 DEF EmitterInv
<1> QED BY <1>3, <1>4

\* The worker takes the next of the queue, in its main loop or draining.
LEMMA WorkKeeps ==
  ASSUME EmitterInv, Take \/ Drain
  PROVE  EmitterInv'
<1>1. EmitterKinds /\ Ascends /\ Served
  BY DEF EmitterInv
<1>2. UNCHANGED <<running, stopper, emitted, expired>>
  BY DEF Take, Drain
<1>3. "main" \in Places /\ "handling" \in Places /\ "drain" \in Places /\ "draining" \in Places
      /\ "done" \in Places /\ Sentinel \in EventIds \cup {Sentinel}
  BY DEF Places
<1>4. line # <<>> => Head(line) = line[1] /\ 1 \in 1..Len(line) /\ Head(line) \in EventIds \cup {Sentinel}
  BY <1>1 DEF EmitterKinds
\* What is left of the queue of an emitter that runs has no sentinel either.
<1>5. ASSUME line # <<>>, line' = Tail(line),
             IF Head(line) = Sentinel THEN UNCHANGED handed ELSE handed' = Append(handed, Head(line)),
             worker' \in [at : Places, event : EventIds \cup {Sentinel}],
             ~expired /\ running => worker'.at \in {"main", "handling"},
             worker'.at # "done", worker'.at = "none" => worker.at = "none",
             worker.at # "none"
      PROVE  EmitterInv'
  <2>1. /\ line' \in Seq(EventIds \cup {Sentinel}) /\ Len(line') <= QueueSize
        /\ \A k \in 1..Len(line') : k + 1 \in 1..Len(line) /\ line'[k] = line[k + 1]
        /\ handed' \in Seq(EventIds) /\ Ascends'
    BY <1>1, <1>2, <1>5, TakenKeeps
  <2>2. EmitterKinds'
    BY <1>1, <1>2, <1>5, <2>1 DEF EmitterKinds
  <2>3. Served'
    <3>1. ASSUME ~expired, running, NEW k \in 1..Len(line') PROVE line'[k] # Sentinel
      BY <1>1, <2>1, <3>1 DEF Served
    <3> QED BY <1>1, <1>2, <1>5, <3>1 DEF Served
  <2> QED BY <2>1, <2>2, <2>3 DEF EmitterInv
\* The worker goes on without taking anything.
<1>6. ASSUME UNCHANGED <<line, handed>>,
             worker' \in [at : Places, event : EventIds \cup {Sentinel}],
             ~expired => ~running, worker.at # "none", worker'.at # "none",
             worker'.at = "done" => line = <<>>
      PROVE  EmitterInv'
  <2>1. EmitterKinds'
    BY <1>1, <1>2, <1>6 DEF EmitterKinds
  <2>2. Ascends'
    BY <1>1, <1>2, <1>6 DEF Ascends
  <2>3. Served'
    BY <1>1, <1>2, <1>6 DEF Served
  <2> QED BY <2>1, <2>2, <2>3 DEF EmitterInv
<1>7. CASE Take /\ running /\ Head(line) # Sentinel
  <2>1. /\ worker.at = "main" /\ line # <<>> /\ worker' = Worker("handling", Head(line))
        /\ handed' = Append(handed, Head(line)) /\ line' = Tail(line)
    BY <1>7 DEF Take
  <2>2. worker' \in [at : Places, event : EventIds \cup {Sentinel}] /\ worker'.at = "handling"
    BY <1>3, <1>4, <2>1, WorkerKinds
  <2> QED BY <1>5, <1>7, <2>1, <2>2
<1>8. CASE Take /\ running /\ Head(line) = Sentinel
  <2>1. /\ worker.at = "main" /\ line # <<>> /\ worker' = Worker("drain", Sentinel)
        /\ UNCHANGED handed /\ line' = Tail(line)
    BY <1>8 DEF Take
  <2>2. worker' \in [at : Places, event : EventIds \cup {Sentinel}] /\ worker'.at = "drain"
    BY <1>3, <2>1, WorkerKinds
  <2>3. expired
    BY <1>1, <1>4, <1>8, <2>1 DEF Served, EmitterKinds
  <2> QED BY <1>5, <1>8, <2>1, <2>2, <2>3
<1>9. CASE Take /\ ~running
  <2>1. /\ worker.at = "main" /\ worker' = Worker("drain", Sentinel) /\ UNCHANGED <<line, handed>>
    BY <1>9 DEF Take
  <2>2. worker' \in [at : Places, event : EventIds \cup {Sentinel}] /\ worker'.at = "drain"
    BY <1>3, <2>1, WorkerKinds
  <2> QED BY <1>6, <1>9, <2>1, <2>2
<1>10. CASE Drain
  <2>1. worker.at = "drain" /\ (~expired => ~running)
    BY <1>1, <1>10 DEF Drain, Served
  <2>2. CASE line = <<>>
    <3>1. worker' = Worker("done", Sentinel) /\ UNCHANGED <<line, handed>>
      BY <1>10, <2>2 DEF Drain, Drained
    <3>2. worker' \in [at : Places, event : EventIds \cup {Sentinel}] /\ worker'.at = "done"
      BY <1>3, <3>1, WorkerKinds
    <3> QED BY <1>6, <2>1, <2>2, <3>1, <3>2
  <2>3. CASE line # <<>> /\ Head(line) = Sentinel
    <3>1. line' = Tail(line) /\ UNCHANGED <<worker, handed>>
      BY <1>10, <2>3 DEF Drain, Drained
    <3>2. worker \in [at : Places, event : EventIds \cup {Sentinel}]
      BY <1>1 DEF EmitterKinds
    <3> QED BY <1>5, <2>1, <2>3, <3>1, <3>2
  <2>4. CASE line # <<>> /\ Head(line) # Sentinel
    <3>1. /\ line' = Tail(line) /\ worker' = Worker("draining", Head(line))
          /\ handed' = Append(handed, Head(line))
      BY <1>10, <2>4 DEF Drain, Drained
    <3>2. worker' \in [at : Places, event : EventIds \cup {Sentinel}] /\ worker'.at = "draining"
      BY <1>3, <1>4, <2>4, <3>1, WorkerKinds
    <3> QED BY <1>5, <2>1, <2>4, <3>1, <3>2
  <2> QED BY <2>2, <2>3, <2>4
<1> QED BY <1>7, <1>8, <1>9, <1>10

\* The handlers return, or the stop gives up on them, or has the worker's end.
LEMMA ReturnKeeps ==
  ASSUME EmitterInv, Handled \/ Timeout \/ StopReturns
  PROVE  EmitterInv'
<1>1. EmitterKinds /\ Ascends /\ Served
  BY DEF EmitterInv
<1>2. UNCHANGED <<running, line, handed, emitted>>
  BY DEF Handled, Timeout, StopReturns
<1>3. "main" \in Places /\ "drain" \in Places /\ "done" \in Places /\ "none" \in Places
      /\ Sentinel \in EventIds \cup {Sentinel}
  BY DEF Places
<1>4. Ascends'
  BY <1>1, <1>2 DEF Ascends
<1>5. CASE Handled
  <2> DEFINE a == IF worker.at = "handling" /\ running THEN "main" ELSE "drain"
  <2>1. /\ worker.at \in {"handling", "draining"} /\ worker' = Worker(a, Sentinel)
        /\ UNCHANGED <<stopper, expired>>
    BY <1>5 DEF Handled
  <2>2. worker' \in [at : Places, event : EventIds \cup {Sentinel}] /\ worker'.at = a
    BY <1>3, <2>1, WorkerKinds
  <2>3. EmitterKinds'
    BY <1>1, <1>2, <2>1, <2>2 DEF EmitterKinds
  <2>4. Served'
    BY <1>1, <1>2, <2>1, <2>2 DEF Served
  <2> QED BY <1>4, <2>3, <2>4 DEF EmitterInv
<1>6. CASE Timeout
  <2> DEFINE a == IF worker.at = "handling" THEN "drain" ELSE "done"
  <2>1. /\ stopper' = "cancelling" /\ expired' = TRUE /\ worker' = Worker(a, Sentinel)
    BY <1>6 DEF Timeout
  <2>2. worker' \in [at : Places, event : EventIds \cup {Sentinel}]
    BY <1>3, <2>1, WorkerKinds
  <2>3. EmitterKinds'
    BY <1>1, <1>2, <2>1, <2>2 DEF EmitterKinds
  <2>4. Served'
    BY <2>1 DEF Served
  <2> QED BY <1>4, <2>3, <2>4 DEF EmitterInv
<1>7. CASE StopReturns
  <2>1. /\ stopper # "off" /\ worker.at = "done" /\ stopper' = "off"
        /\ worker' = Worker("none", Sentinel) /\ UNCHANGED expired
    BY <1>7 DEF StopReturns
  <2>2. worker' \in [at : Places, event : EventIds \cup {Sentinel}] /\ worker'.at = "none"
    BY <1>3, <2>1, WorkerKinds
  <2>3. EmitterKinds'
    BY <1>1, <1>2, <2>1, <2>2 DEF EmitterKinds
  <2>4. Served'
    BY <1>1, <1>2, <2>1, <2>2 DEF Served
  <2> QED BY <1>4, <2>3, <2>4 DEF EmitterInv
<1> QED BY <1>5, <1>6, <1>7

\* Every step of the event queue keeps the invariant.
LEMMA EmitterSteps == EmitterInv /\ [EmitterNext]_emitterVars => EmitterInv'
<1> SUFFICES ASSUME EmitterInv, [EmitterNext]_emitterVars PROVE EmitterInv'
  OBVIOUS
<1>1. CASE EmitterNext
  BY <1>1, EmitKeeps, StartStopKeeps, WorkKeeps, ReturnKeeps DEF EmitterNext
<1>2. CASE UNCHANGED emitterVars
  <2>1. UNCHANGED <<running, line, worker, stopper, handed, emitted, expired>>
    BY <1>2 DEF emitterVars
  <2>2. EmitterKinds'
    BY <2>1 DEF EmitterInv, EmitterKinds
  <2>3. Ascends' /\ Served'
    BY <2>1 DEF EmitterInv, Ascends, Served
  <2> QED BY <2>2, <2>3 DEF EmitterInv
<1> QED BY <1>1, <1>2

\* The invariant of the event queue holds in every state, for any number of events and
\* any size of the queue, whenever stops run out and wherever they find the worker.
THEOREM EmitterInvariance == EmitterSpec => []EmitterInv
<1> QED BY EmitterBegins, EmitterSteps, PTL DEF EmitterSpec

\* The handlers are given the events in the order of emit, none twice, across stops cut
\* short and restarts; and without a stop past its timeout an emitter that runs has a
\* worker, and one that is stopped leaves nothing in its queue.
THEOREM EventsAttended == EmitterSpec => []Attended
<1>1. EmitterInv => Attended
  <2> SUFFICES ASSUME EmitterInv PROVE Attended
    OBVIOUS
  <2>1. DOMAIN handed = 1..Len(handed)
    BY DEF EmitterInv, EmitterKinds
  <2> QED BY <2>1 DEF EmitterInv, Ascends, Served, Attended
<1> QED BY <1>1, EmitterInvariance, PTL
=============================================================================
