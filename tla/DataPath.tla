-------------------------------- MODULE DataPath --------------------------------
(***************************************************************************)
(* The data path of a Modbus device: points are sorted into read groups    *)
(* (PointGrouper), the groups take turns (ReadScheduler), each is one      *)
(* request whose words are decoded and scaled (GroupReader), and what was  *)
(* read becomes the latest values and the alarms (read_once).  Meanwhile   *)
(* points are written and verified (ValidatedWriter), outputs toggled and  *)
(* pulsed (WriteMixin), points disabled and the device reconfigured.       *)
(* The device of this repository reads one group after the other: its      *)
(* max_concurrent_reads does not reach the GroupReader.                    *)
(* External: the registers, a request on the bus.                          *)
(***************************************************************************)
EXTENDS Integers, Sequences, SequencesExt, FiniteSetsExt, Functions, TLC

CONSTANTS
    Points,       \* name -> [addr, size, low (LOW_FIRST), signed, float, scale, offset, turn, guarded]
                  \*   turn 0: read always; guarded: reject_non_finite
    Layouts,      \* the sets of names that the device is configured with in turn
    Turns,        \* how many rotating groups there are
    Word,         \* values of a register
    MaxLength,    \* registers of a request
    Switch,       \* the point of the outputs, on = 1, off = 0
    Readers,      \* tasks that call read_once
    Togglers,     \* tasks that toggle the output
    Inputs,       \* name -> raw values that the device itself puts there
    Settings,     \* name -> values written, in units
    Limit,        \* the validator's upper bound, and the threshold of the alarm
    MaxFail, MaxCalls \* bounds: requests that fail; writes, toggles, changes

VARIABLES
    registers,    \* address -> word
    layout,       \* index into Layouts
    turn,         \* _rotating_index
    reading,      \* reader -> [groups left, values so far], or Idle
    since,        \* reader -> point -> what it was since the read began, while it lasts
    latest,       \* _latest_values
    disabled,     \* _disabled_points
    raised,       \* points above the threshold at the last evaluation
    writing,      \* the verified write under way, or Nothing
    toggling,     \* the toggle of each task: what it has chosen, and whether the device has carried it out
    pulses,       \* pulses whose end is to come
    wanted,       \* what the toggles make of the output; whether this is certain
    broken,       \* a reading that its own group was too short for
    failed, calls

dataVars == <<registers, layout, turn, reading, since, latest, disabled, raised, writing, toggling,
              pulses, wanted, broken, failed, calls>>

Idle == [busy |-> FALSE, groups |-> <<>>, values |-> <<>>]
Nothing == [stage |-> "none", point |-> "none", raw |-> 0]
Off == [busy |-> FALSE]
NaN == 1000
NotYet == [n \in DOMAIN Points |-> {}]

Size(n) == Points[n].size
First(n) == Points[n].addr
End(n) == First(n) + Size(n)

-----------------------------------------------------------------------------
(* Words and values                                                        *)

\* assemble_from_registers; two's complement of the width; the pattern of ones is NaN.
Raw(n, words) ==
    LET two == Size(n) = 2
        high == IF two /\ Points[n].low THEN words[2] ELSE words[1]
        lower == IF Points[n].low THEN words[1] ELSE words[2]
        all == IF two THEN high * Word + lower ELSE high
        width == Word^Size(n)
    IN  IF Points[n].float /\ all = width - 1 THEN NaN
        ELSE IF Points[n].signed /\ 2 * all >= width THEN all - width ELSE all

\* ScaleTransform.
Scaled(n, raw) == IF raw = NaN THEN NaN ELSE raw * Points[n].scale + Points[n].offset

InRange(n, raw) ==
    LET width == Word^Size(n)
    IN  IF Points[n].signed THEN -width <= 2 * raw /\ 2 * raw < width ELSE 0 <= raw /\ raw < width

\* Mutant: the words of a point are always written high word first.
HighFirst(n, high, lower) == IF Size(n) = 1 THEN <<high>> ELSE <<high, lower>>

\* split_to_registers.
Ordered(n, high, lower) ==
    IF Size(n) = 1 THEN <<high>> ELSE IF Points[n].low THEN <<lower, high>> ELSE <<high, lower>>

Encoded(n, raw) ==
    LET all == IF raw < 0 THEN raw + Word^Size(n) ELSE raw
    IN  IF Size(n) = 1 THEN Ordered(n, all, 0) ELSE Ordered(n, all \div Word, all % Word)

Held(n) == Scaled(n, Raw(n, [i \in 1..Size(n) |-> registers[First(n) + i - 1]]))

-----------------------------------------------------------------------------
(* Groups                                                                  *)

\* Mutant: a group ends where its last point ends.
EndsAtLast(g, n) == End(n)

\* A point may end before one that begins earlier.
Extent(g, n) == IF End(n) > g.end THEN End(n) ELSE g.end

\* _merge_consecutive: as long as the request stays short enough.
Merge(groups, n) ==
    IF groups # <<>> /\ End(n) - Last(groups).start <= MaxLength
    THEN [groups EXCEPT ![Len(groups)] = [@ EXCEPT !.points = @ \cup {n}, !.end = Extent(groups[Len(groups)], n)]]
    ELSE Append(groups, [points |-> {n}, start |-> First(n), end |-> End(n)])

\* group: by address (of two at one address the longer is defined first).
Before(m, n) == First(m) < First(n) \/ (First(m) = First(n) /\ Size(m) > Size(n))

GroupsOf(names) == FoldLeft(Merge, <<>>, SetToSortSeq(names, Before))

Names == Layouts[layout]

\* get_next_groups.
NextGroups ==
    GroupsOf({n \in Names : Points[n].turn = 0}) \o GroupsOf({n \in Names : Points[n].turn = turn})

\* _decode: the words of a point, cut out of what the group brought.
Decoded(g) ==
    [n \in g.points |->
        Scaled(n, Raw(n, [i \in 1..Size(n) |-> registers[g.start + (First(n) - g.start) + i - 1]]))]

Short(g) == \E n \in g.points : End(n) > g.end

-----------------------------------------------------------------------------
DataTypes ==
    /\ \A a \in DOMAIN registers : registers[a] \in 0..(Word - 1)
    /\ layout \in DOMAIN Layouts /\ turn \in 1..Turns
    /\ DOMAIN latest \subseteq DOMAIN Points /\ raised \subseteq DOMAIN Points
    /\ \A r \in Readers : ~reading[r].busy => reading[r] = Idle
    /\ writing.stage \in {"none", "send", "verify"}
    /\ toggling \in [Togglers -> [on : BOOLEAN, reached : BOOLEAN] \cup {Off}]
    /\ pulses \in 0..MaxCalls /\ failed \in 0..MaxFail /\ calls \in 0..MaxCalls

Addresses == UNION {First(n)..(End(n) - 1) : n \in DOMAIN Points}

Init ==
    /\ registers = [a \in Addresses |-> 0]
    /\ layout = 1 /\ turn = 1
    /\ reading = [r \in Readers |-> Idle]
    /\ since = [r \in Readers |-> NotYet]
    /\ latest = <<>> /\ disabled = {} /\ raised = {}
    /\ writing = Nothing /\ toggling = [t \in Togglers |-> Off] /\ pulses = 0
    /\ wanted = [on |-> FALSE, sure |-> TRUE]
    /\ broken = FALSE /\ failed = 0 /\ calls = 0

Call == calls < MaxCalls /\ calls' = calls + 1
Fail == failed < MaxFail /\ failed' = failed + 1

Put(n, words) ==
    registers' = [a \in DOMAIN registers |->
                      IF a \in First(n)..(End(n) - 1) THEN words[a - First(n) + 1] ELSE registers[a]]

\* What each read under way may see, now that the registers have changed.
Seen == since' = [r \in Readers |-> IF reading[r].busy
                                    THEN [n \in DOMAIN Points |-> since[r][n] \cup {Held(n)'}]
                                    ELSE since[r]]

\* The device changes a value of its own.
Changes(n, raw) ==
    /\ Call
    /\ Put(n, Encoded(n, raw)) /\ Seen
    /\ UNCHANGED <<toggling, layout, turn, reading, latest, disabled, raised, writing, pulses, wanted, broken, failed>>

-----------------------------------------------------------------------------
(* read_once                                                               *)

Begin(r) ==
    /\ ~reading[r].busy
    /\ reading' = [reading EXCEPT ![r] = [busy |-> TRUE, groups |-> NextGroups, values |-> <<>>]]
    /\ since' = [since EXCEPT ![r] = [n \in DOMAIN Points |-> {Held(n)}]]
    /\ turn' = (turn % Turns) + 1
    /\ UNCHANGED <<toggling, registers, layout, latest, disabled, raised, writing, pulses, wanted, broken, failed, calls>>

\* read: one request for one group.
ReadGroup(r) ==
    /\ reading[r].groups # <<>>
    /\ LET g == Head(reading[r].groups)
       IN  /\ broken' = (broken \/ Short(g))
           /\ reading' = [reading EXCEPT ![r] =
                  [@ EXCEPT !.groups = Tail(@), !.values = Decoded(g) @@ @]]
    /\ UNCHANGED <<toggling, registers, layout, turn, since, latest, disabled, raised, writing, pulses, wanted, failed, calls>>

\* A request that fails takes the readings of the other groups with it.
ReadFails(r) ==
    /\ reading[r].groups # <<>> /\ Fail
    /\ reading' = [reading EXCEPT ![r] = Idle]
    /\ since' = [since EXCEPT ![r] = NotYet]
    /\ UNCHANGED <<toggling, registers, layout, turn, latest, disabled, raised, writing, pulses, wanted, broken, calls>>

\* _should_reject_non_finite.
Rejected(n, value) == value = NaN /\ Points[n].guarded

\* Mutant: the alarms see what was read.
AsRead(n, value) == value

\* _resolve_effective_values, after _process_values has stored the others.
Effective(n, value) == IF Rejected(n, value) /\ n \in DOMAIN latest THEN latest[n] ELSE value

\* ThresholdCondition.check: a comparison with NaN does not hold.
Above(value) == value # NaN /\ value > Limit

\* Tasks in the middle of a toggle.
Toggles == {t \in Togglers : toggling[t] # Off}

\* A reading of the output that is as old as a later write leaves the latest value wrong; one
\* that shows the output as it is sets it right, whatever has failed before.
Process(r) ==
    /\ reading[r].busy /\ reading[r].groups = <<>>
    /\ LET read == reading[r].values
           taken == {n \in DOMAIN read : n \notin disabled /\ ~Rejected(n, read[n])}
           told == DOMAIN read \ disabled
           true == Switch \in taken => read[Switch] = Held(Switch)
           settled == Switch \in taken /\ true /\ Toggles = {} /\ pulses = 0
       IN  /\ latest' = [n \in taken |-> read[n]] @@ latest
           /\ raised' = (raised \ told) \cup {n \in told : Above(Effective(n, read[n]))}
           /\ wanted' = IF settled THEN [on |-> read[Switch] = 1, sure |-> TRUE]
                        ELSE [wanted EXCEPT !.sure = @ /\ true]
    /\ reading' = [reading EXCEPT ![r] = Idle]
    /\ since' = [since EXCEPT ![r] = NotYet]
    /\ UNCHANGED <<toggling, registers, layout, turn, disabled, writing, pulses, broken, failed, calls>>

-----------------------------------------------------------------------------
(* write                                                                   *)

\* InverseTransform: a value between two steps of the scale cannot be encoded.
Unscaled(n, value) == (value - Points[n].offset) \div Points[n].scale
Exact(n, value) == (value - Points[n].offset) % Points[n].scale = 0

\* Refused: disabled, beyond the validator's bound, or not to be encoded.
WriteBegins(n, value) ==
    /\ writing = Nothing /\ Call
    /\ writing' = IF n \in disabled \/ value > Limit \/ ~Exact(n, value) \/ ~InRange(n, Unscaled(n, value))
                  THEN Nothing
                  ELSE [stage |-> "send", point |-> n, raw |-> Unscaled(n, value)]
    /\ UNCHANGED <<toggling, registers, layout, turn, reading, since, latest, disabled, raised, pulses, wanted, broken, failed>>

WriteSent ==
    /\ writing.stage = "send"
    /\ Put(writing.point, Encoded(writing.point, writing.raw)) /\ Seen
    /\ writing' = [writing EXCEPT !.stage = "verify"]
    /\ UNCHANGED <<toggling, layout, turn, reading, latest, disabled, raised, pulses, wanted, broken, failed, calls>>

\* The request fails, or its answer is lost after the device has carried it out.
WriteFails ==
    /\ writing.stage \in {"send", "verify"} /\ Fail
    /\ writing' = Nothing
    /\ UNCHANGED <<toggling, registers, layout, turn, reading, since, latest, disabled, raised, pulses, wanted, broken, calls>>

\* _read_back and _values_equal; either result ends the write.
Verified ==
    /\ writing.stage = "verify"
    /\ writing' = Nothing
    /\ UNCHANGED <<toggling, registers, layout, turn, reading, since, latest, disabled, raised, pulses, wanted, broken, failed, calls>>

-----------------------------------------------------------------------------
(* Outputs                                                                 *)

Outputs == Switch \in Names \ disabled

Output(on) == Put(Switch, <<IF on THEN 1 ELSE 0>>) /\ Seen

LatestOn == Switch \in DOMAIN latest /\ latest[Switch] = 1

\* Mutant: a toggle leaves the latest value to the next reading.
AsLast(on) == latest

\* A toggle that was answered notes what it has switched to.
Noted(on) == (Switch :> (IF on THEN 1 ELSE 0)) @@ latest

\* A write of the output, which may fail before or after the device has carried it out.
Writes(on, reached, answered) ==
    /\ answered => reached
    /\ IF answered THEN UNCHANGED failed ELSE Fail
    /\ IF reached THEN Output(on) ELSE UNCHANGED <<registers, since>>

\* execute_do_action, TOGGLE: the new state is chosen before the write is awaited, and
\* nothing keeps another task from choosing meanwhile.
Toggle(t) ==
    /\ Outputs /\ toggling[t] = Off /\ Call
    /\ toggling' = [toggling EXCEPT ![t] = [on |-> ~LatestOn, reached |-> FALSE]]
    /\ wanted' = [on |-> ~wanted.on, sure |-> wanted.sure /\ pulses = 0 /\ Toggles = {}]
    /\ UNCHANGED <<registers, since, layout, turn, reading, latest, disabled, raised, writing, pulses, broken, failed>>

ToggleReaches(t) ==
    /\ toggling[t] # Off /\ ~toggling[t].reached
    /\ Output(toggling[t].on)
    /\ toggling' = [toggling EXCEPT ![t].reached = TRUE]
    /\ UNCHANGED <<layout, turn, reading, latest, disabled, raised, writing, pulses, wanted, broken, failed, calls>>

Toggled(t) ==
    /\ toggling[t] # Off /\ toggling[t].reached
    /\ latest' = Noted(toggling[t].on)
    /\ toggling' = [toggling EXCEPT ![t] = Off]
    /\ UNCHANGED <<registers, since, layout, turn, reading, disabled, raised, writing, pulses, wanted, broken, failed, calls>>

\* Without an answer the latest value stays, and the next toggle may choose the same again.
ToggleFails(t) ==
    /\ toggling[t] # Off /\ Fail
    /\ toggling' = [toggling EXCEPT ![t] = Off]
    /\ wanted' = [wanted EXCEPT !.sure = FALSE]
    /\ UNCHANGED <<registers, since, layout, turn, reading, latest, disabled, raised, writing, pulses, broken, calls>>

\* SUSTAINED: on, or off, and the latest value is left to the readings.
Sustain(on, reached, answered) ==
    /\ Outputs /\ Call /\ Writes(on, reached, answered)
    /\ wanted' = [wanted EXCEPT !.sure = FALSE]
    /\ UNCHANGED <<toggling, layout, turn, reading, latest, disabled, raised, writing, pulses, broken>>

\* PULSE: on, and if that was answered a task that switches off.
Pulse(reached, answered) ==
    /\ Outputs /\ Call /\ Writes(TRUE, reached, answered)
    /\ pulses' = IF answered THEN pulses + 1 ELSE pulses
    /\ wanted' = [wanted EXCEPT !.sure = FALSE]
    /\ UNCHANGED <<toggling, layout, turn, reading, latest, disabled, raised, writing, broken>>

\* _pulse_off; a point that was disabled meanwhile is not written, and stays on, as does one
\* whose write fails.
PulseOff(reached, answered) ==
    /\ pulses > 0 /\ pulses' = pulses - 1
    /\ IF Switch \in disabled THEN answered /\ UNCHANGED <<registers, since, failed>>
                              ELSE Writes(FALSE, reached, answered)
    /\ UNCHANGED <<toggling, layout, turn, reading, latest, disabled, raised, writing, wanted, broken, calls>>

\* cancel_pending_pulses, configure_do_actions: the output stays on.
CancelPulses ==
    /\ pulses > 0 /\ Call /\ pulses' = 0
    /\ UNCHANGED <<toggling, registers, layout, turn, reading, since, latest, disabled, raised, writing, wanted, broken, failed>>

-----------------------------------------------------------------------------
(* disable_point, enable_point, reconfigure                                *)

Flip(n) ==
    /\ n \in Names /\ Call
    /\ disabled' = IF n \in disabled THEN disabled \ {n} ELSE disabled \cup {n}
    /\ UNCHANGED <<toggling, registers, layout, turn, reading, since, latest, raised, writing, pulses, wanted, broken, failed>>

\* The reading loop is stopped meanwhile; another reader goes on, and the latest values of
\* points that have gone stay.
Reconfigure(l) ==
    /\ l # layout /\ Call
    /\ layout' = l /\ turn' = 1
    /\ disabled' = disabled \cap Layouts[l]
    /\ reading' = [reading EXCEPT !["loop"] = Idle]
    /\ since' = [since EXCEPT !["loop"] = NotYet]
    /\ UNCHANGED <<toggling, registers, latest, raised, writing, pulses, wanted, broken, failed>>

Next ==
    \/ \E r \in Readers : Begin(r) \/ ReadGroup(r) \/ ReadFails(r) \/ Process(r)
    \/ \E n \in DOMAIN Inputs : \E raw \in Inputs[n] : Changes(n, raw)
    \/ \E n \in DOMAIN Settings : \E value \in Settings[n] : WriteBegins(n, value)
    \/ WriteSent \/ WriteFails \/ Verified
    \/ \E t \in Togglers : Toggle(t) \/ ToggleReaches(t) \/ Toggled(t) \/ ToggleFails(t)
    \/ \E reached, answered \in BOOLEAN :
           \/ \E on \in BOOLEAN : Sustain(on, reached, answered)
           \/ Pulse(reached, answered) \/ PulseOff(reached, answered)
    \/ CancelPulses
    \/ \E n \in DOMAIN Points : Flip(n)
    \/ \E l \in DOMAIN Layouts : Reconfigure(l)

Spec == Init /\ [][Next]_dataVars

-----------------------------------------------------------------------------
(* Properties                                                              *)

\* Every value that a read brings is one that its point had since the read began: whatever
\* the groups, the order of its words and the writes meanwhile, none is torn or displaced,
\* and no group is too short for its points.
ReadsCoherent ==
    /\ ~broken
    /\ \A r \in Readers : \A n \in DOMAIN reading[r].values : reading[r].values[n] \in since[r][n]

\* What was sent is what the read-back decodes, until something else changes the point.
WritesArrive ==
    [][WriteSent => Raw(writing.point,
           [i \in 1..Size(writing.point) |-> registers'[First(writing.point) + i - 1]]) = writing.raw]_dataVars

\* Toggles that do not overlap alternate, whatever readings are under way beside them.  Where
\* a toggle has failed, overlapped or met a pulse or an older reading they may repeat a state,
\* until a reading that shows the output as it is, which sets them right for good.
TogglesAlternate == wanted.sure /\ Toggles = {} => Held(Switch) = (IF wanted.on THEN 1 ELSE 0)

\* A guarded point shows no NaN, and one that reads NaN keeps its alarm.
NaNHarmless ==
    \A n \in DOMAIN latest : Points[n].guarded /\ n \notin disabled =>
        latest[n] # NaN /\ (latest[n] > Limit /\ n \in Names \ {Switch} => n \in raised)
=============================================================================
