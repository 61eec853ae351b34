----------------------------- MODULE ControlInputs -----------------------------
(***************************************************************************)
(* What a strategy is given to decide with: the history that               *)
(* DeviceDataFeed collects from read_complete events, the context that     *)
(* ContextBuilder reads out of the DeviceRegistry and RuntimeParameters,   *)
(* the group registry GroupControllerManager copies, and the context that  *)
(* a cluster follower builds from published states.  Parameters and        *)
(* statuses are set by several threads, and observers are called after     *)
(* the lock is released.  External: the devices and the callers.           *)
(***************************************************************************)
EXTENDS Integers, Sequences, SequencesExt, FiniteSets, FiniteSetsExt

CONSTANTS
    Order,        \* device ids, sorted
    Readings,     \* natural numbers, NaN, Nothing
    Trait,        \* devices registered with the trait
    Group,        \* device ids of the group
    Feed,         \* DataFeedMapping: [device] or [trait, aggregate]
    Fields,       \* context_field -> [source, device, aggregate, default, fails, ratio]:
                  \* source "param", "device", "trait", "group" or "capability"
    Params,       \* values of the runtime parameter
    Threads, MaxHistory,
    MaxEvents, MaxCalls     \* bounds

VARIABLES
    device,       \* device -> [up, latest, able]
    registered,   \* devices of the registry
    traits,       \* devices the registry holds under the trait
    queue,        \* read_complete payloads the emitter has not yet delivered
    feeds,        \* times each device is subscribed
    buffer,       \* deque of the HistoryBuffer
    param, setting, heard,     \* the parameter, what each thread is about to tell, what the observer knows
    lastUp, calling, status,   \* _last_responsive, status calls under way, what the observer knows
    context,      \* the fields last built
    group,        \* devices of the group registry under the trait
    remote,       \* device_states of the cluster subscriber
    fed, crossed, events, calls   \* history: samples delivered; what overlapped, was attached
                                  \* twice, or set in silence since the parameter was last told

inputVars == <<device, registered, traits, queue, feeds, buffer, param, setting, heard,
               lastUp, calling, status, context, group, remote, fed, crossed, events, calls>>
buses == <<param, setting, heard, lastUp, calling, status, crossed>>
devs == <<device, registered, traits>>
feeding == <<queue, feeds, buffer, fed>>

Devices == ToSet(Order)
Nothing == -1
NaN == -2
Unknown == -3
Number(v) == v \notin {Nothing, Unknown}
Quiet == [old |-> Unknown, new |-> Unknown]

InputTypes ==
    /\ \A d \in Devices : device[d].latest \in Readings \cup {Nothing}
    /\ traits \subseteq registered /\ registered \subseteq Devices
    /\ Len(buffer) <= MaxHistory
    /\ group \subseteq Group
    /\ events \in 0..MaxEvents /\ calls \in 0..MaxCalls

Init ==
    /\ device = [d \in Devices |-> [up |-> FALSE, latest |-> Nothing, able |-> TRUE]]
    /\ registered = Devices
    /\ traits = Trait
    /\ queue = <<>>
    /\ feeds = [d \in Devices |-> 0]
    /\ buffer = <<>> /\ fed = <<>>
    /\ param = Nothing /\ heard = Nothing
    /\ setting = [t \in Threads |-> Quiet]
    /\ lastUp = [d \in Devices |-> Unknown]
    /\ calling = [t \in Threads |-> <<>>]
    /\ status = [d \in Devices |-> Unknown]
    /\ context = [f \in DOMAIN Fields |-> Nothing]
    /\ group = {}
    /\ remote = [d \in Devices |-> Nothing]
    /\ crossed = {}
    /\ events = 0 /\ calls = 0

Happen == events < MaxEvents /\ events' = events + 1 /\ UNCHANGED calls
Call == calls < MaxCalls /\ calls' = calls + 1 /\ UNCHANGED events

-----------------------------------------------------------------------------
\* The registry.

Under(index) == SelectSeq(Order, LAMBDA d : d \in index)
Responsive(index) == SelectSeq(Under(index), LAMBDA d : device[d].up)
Latest(index) == [i \in DOMAIN Responsive(index) |-> device[Responsive(index)[i]].latest]
Present(index) == SelectSeq(Latest(index), Number)

Less(a, b) == a # NaN /\ b # NaN /\ a < b
TotalOf(values) == IF NaN \in ToSet(values) THEN NaN ELSE FoldSeq(+, 0, values)

\* The built-in functions, with the comparisons of Python on NaN.
Aggregate(func, values) ==
    CASE values = <<>> -> Nothing
      [] values # <<>> /\ func = "sum" -> TotalOf(values)
      [] values # <<>> /\ func = "average" ->
           IF TotalOf(values) = NaN THEN NaN ELSE TotalOf(values) \div Len(values)
      [] values # <<>> /\ func = "min" -> FoldLeft(LAMBDA a, v : IF Less(v, a) THEN v ELSE a, values[1], values)
      [] values # <<>> /\ func = "max" -> FoldLeft(LAMBDA a, v : IF Less(a, v) THEN v ELSE a, values[1], values)
      [] OTHER -> values[1]

\* Registry calls of the integrator; the group registry is not told.
AddTrait(d) ==
    /\ Call /\ d \in registered \ traits
    /\ traits' = traits \cup {d}
    /\ UNCHANGED <<device, registered, feeding, buses, context, group, remote>>
RemoveTrait(d) ==
    /\ Call /\ d \in traits
    /\ traits' = traits \ {d}
    /\ UNCHANGED <<device, registered, feeding, buses, context, group, remote>>

About(d) == \E t \in Threads : calling[t] # <<>> /\ calling[t][1].device = d
Unregister(d) ==
    /\ Call /\ d \in registered
    /\ registered' = registered \ {d}
    /\ traits' = traits \ {d}
    /\ lastUp' = [lastUp EXCEPT ![d] = Unknown]
    /\ status' = [status EXCEPT ![d] = Unknown]
    /\ crossed' = IF About(d) THEN crossed \cup {d} ELSE crossed
    /\ UNCHANGED <<device, feeding, param, setting, heard, calling, context, group, remote>>
Register(d) ==
    /\ Call /\ d \notin registered
    /\ registered' = registered \cup {d}
    /\ traits' = traits \cup ({d} \cap Trait)
    /\ UNCHANGED <<device, feeding, buses, context, group, remote>>

\* A group must name registered devices.
MakeGroup ==
    /\ Call /\ Group \subseteq registered
    /\ group' = traits \cap Group
    /\ UNCHANGED <<devs, feeding, buses, context, remote>>

-----------------------------------------------------------------------------
\* The devices, and the events their emitters deliver.

Read(d, v) ==
    /\ Happen
    /\ device' = [device EXCEPT ![d].up = TRUE, ![d].latest = v]
    /\ queue' = IF feeds[d] > 0 THEN Append(queue, [device |-> d, value |-> v]) ELSE queue
    /\ UNCHANGED <<registered, traits, feeds, buffer, fed, buses, context, group, remote>>
GoSilent(d) ==
    /\ Happen /\ device[d].up
    /\ device' = [device EXCEPT ![d].up = FALSE]
    /\ UNCHANGED <<registered, traits, feeding, buses, context, group, remote>>
LoseCapability(d) ==
    /\ Happen /\ device[d].able
    /\ device' = [device EXCEPT ![d].able = FALSE]
    /\ UNCHANGED <<registered, traits, feeding, buses, context, group, remote>>

\* Mutant: a deque without maxlen.
AnyLength(sequence) == sequence
Bounded(sequence) == IF Len(sequence) > MaxHistory THEN Tail(sequence) ELSE sequence

\* What one subscription adds for a payload.
Sample(payload) ==
    IF Feed.device # "none" THEN payload.value ELSE Aggregate(Feed.aggregate, Present(traits))
Added(payload) == FoldLeft(LAMBDA b, i : Bounded(Append(b, Sample(payload))), buffer,
                           [i \in 1..feeds[payload.device] |-> i])
Deliver ==
    /\ queue # <<>>
    /\ queue' = Tail(queue)
    /\ buffer' = Added(Head(queue))
    /\ fed' = IF feeds[Head(queue).device] = 0 THEN fed ELSE Append(fed, Sample(Head(queue)))
    /\ UNCHANGED <<devs, feeds, buses, context, group, remote, events, calls>>

\* Devices the mapping names, as the registry knows them now.
Sources == IF Feed.device # "none" THEN {Feed.device} \cap registered ELSE traits
Attach ==
    /\ Call
    /\ feeds' = [d \in Devices |-> feeds[d] + (IF d \in Sources THEN 1 ELSE 0)]
    /\ crossed' = IF \E d \in Devices : feeds'[d] > 1 THEN crossed \cup {"feed"} ELSE crossed
    /\ UNCHANGED <<devs, queue, buffer, fed, param, setting, heard, lastUp, calling, status, context, group, remote>>
Detach ==
    /\ Call
    /\ feeds' = [d \in Devices |-> 0]
    /\ UNCHANGED <<devs, queue, buffer, fed, buses, context, group, remote>>
Clear ==
    /\ Call
    /\ buffer' = <<>> /\ fed' = <<>>
    /\ UNCHANGED <<devs, queue, feeds, buses, context, group, remote>>

History == SelectSeq(buffer, LAMBDA v : v # Nothing)

-----------------------------------------------------------------------------
\* Runtime parameters and statuses: changed under the lock, told after it.

Telling == {t \in Threads : setting[t] # Quiet}
Set(t, v) ==
    /\ Call /\ setting[t] = Quiet
    /\ param' = v
    /\ setting' = IF v = param THEN setting ELSE [setting EXCEPT ![t] = [old |-> param, new |-> v]]
    /\ crossed' = IF v = param THEN crossed
                  ELSE (crossed \ {"silent"}) \cup IF Telling # {} THEN {"param"} ELSE {}
    /\ UNCHANGED <<devs, feeding, heard, lastUp, calling, status, context, group, remote>>
Delete(t) == Set(t, Nothing)

\* setdefault of a parameter that is not there, under the lock as well: nobody is told.
SetDefault(v) ==
    /\ Call /\ param = Nothing
    /\ param' = v
    /\ crossed' = crossed \cup {"silent"}
    /\ UNCHANGED <<devs, feeding, setting, heard, lastUp, calling, status, context, group, remote>>

Notify(t) ==
    /\ setting[t] # Quiet
    /\ heard' = setting[t].new
    /\ setting' = [setting EXCEPT ![t] = Quiet]
    /\ UNCHANGED <<devs, feeding, param, lastUp, calling, status, crossed, context, group, remote, events, calls>>

Flag(b) == IF b THEN 1 ELSE 0
\* Mutant: only recoveries are told.
ToldUp(d) == lastUp[d] # Unknown /\ device[d].up
Told(d) == lastUp[d] # Unknown /\ lastUp[d] # Flag(device[d].up)
NotifyStatus(t, d) ==
    /\ Call /\ calling[t] = <<>> /\ d \in registered
    /\ lastUp' = [lastUp EXCEPT ![d] = Flag(device[d].up)]
    /\ calling' = IF Told(d) THEN [calling EXCEPT ![t] = <<[device |-> d, up |-> Flag(device[d].up)]>>] ELSE calling
    /\ crossed' = IF Told(d) /\ About(d) THEN crossed \cup {d} ELSE crossed
    /\ UNCHANGED <<devs, feeding, param, setting, heard, status, context, group, remote>>
TellStatus(t) ==
    /\ calling[t] # <<>>
    /\ status' = [status EXCEPT ![calling[t][1].device] = calling[t][1].up]
    /\ calling' = [calling EXCEPT ![t] = <<>>]
    /\ UNCHANGED <<devs, feeding, param, setting, heard, lastUp, crossed, context, group, remote, events, calls>>

-----------------------------------------------------------------------------
\* Contexts.

Single(d) == IF d \in registered /\ device[d].up THEN device[d].latest ELSE Nothing
Capable(f) == {d \in IF Fields[f].source = "capability" THEN registered ELSE traits : device[d].able}
Enough(f) ==
    Fields[f].ratio * Cardinality(Capable(f)) <= 100 * Len(Responsive(Capable(f)))
Raw(f) ==
    CASE Fields[f].source = "param" -> param
      [] Fields[f].source = "device" -> Single(Fields[f].device)
      [] Fields[f].source = "trait" -> Aggregate(Fields[f].aggregate, Present(traits))
      [] Fields[f].source = "group" -> Aggregate(Fields[f].aggregate, Present(group))
      [] OTHER -> IF Enough(f) THEN Aggregate(Fields[f].aggregate, Present(Capable(f))) ELSE Nothing

\* The default stands in for nothing and for a transform that raises, not for NaN.
Resolved(f, raw) == IF raw = Nothing \/ raw \in Fields[f].fails THEN Fields[f].default ELSE raw
\* Mutant: no filter.
AsIs(v) == v
Finite(v) == IF v = NaN THEN Nothing ELSE v
Build ==
    /\ context' = [f \in DOMAIN Fields |-> Finite(Resolved(f, Raw(f)))]
    /\ context' # context
    /\ UNCHANGED <<devs, feeding, buses, group, remote, events, calls>>

\* The context of a cluster follower: from whatever was last published.
Publish(d) ==
    /\ Happen
    /\ remote' = [remote EXCEPT ![d] = device[d].latest]
    /\ UNCHANGED <<devs, feeding, buses, context, group>>
States(index) == SelectSeq([i \in DOMAIN Under(index) |-> remote[Under(index)[i]]], Number)
RawRemote(f) ==
    IF Fields[f].source = "device" THEN remote[Fields[f].device]
    ELSE Aggregate(Fields[f].aggregate, States(Trait))
BuildRemote ==
    /\ context' = [f \in DOMAIN Fields |->
                     IF Fields[f].source \in {"device", "trait"} THEN Resolved(f, RawRemote(f)) ELSE context[f]]
    /\ context' # context
    /\ UNCHANGED <<devs, feeding, buses, group, remote, events, calls>>

Next ==
    \/ \E d \in Devices : \/ AddTrait(d) \/ RemoveTrait(d) \/ Unregister(d) \/ Register(d)
                          \/ GoSilent(d) \/ LoseCapability(d) \/ Publish(d)
                          \/ \E v \in Readings : Read(d, v)
                          \/ \E t \in Threads : NotifyStatus(t, d)
    \/ Deliver \/ Attach \/ Detach \/ Clear \/ MakeGroup \/ Build \/ BuildRemote
    \/ \E t \in Threads : \/ Notify(t) \/ TellStatus(t) \/ Delete(t)
                          \/ \E v \in Params : Set(t, v)
    \/ \E v \in Params : SetDefault(v)

Spec == Init /\ [][Next]_inputVars
-----------------------------------------------------------------------------
\* A strategy is never handed NaN by a local context, nor the value of a
\* device that does not answer; an aggregate lies within what the answering
\* devices of the registry or of the group read, even when one of them reads NaN.
Within(f) ==
    LET seen == ToSet(Present(IF Fields[f].source = "trait" THEN traits ELSE group)) IN
    context'[f] \in {Nothing, Fields[f].default} \/ \E a, b \in seen \ {NaN} : a <= context'[f] /\ context'[f] <= b
ContextSound ==
    Build => \A f \in DOMAIN Fields :
               /\ context'[f] # NaN
               /\ Fields[f].source \in {"trait", "group"} /\ Fields[f].aggregate # "sum" => Within(f)

\* The history of a feed attached once is what was delivered to it: the values
\* among the last MaxHistory samples in their order, none twice, none lost.
Recent == SubSeq(fed, Max({1, Len(fed) - MaxHistory + 1}), Len(fed))
HistoryTrue == "feed" \notin crossed => History = SelectSeq(Recent, LAMBDA v : v # Nothing)

\* When no two notifications of one thing overlapped, an observer that only
\* listens knows the parameter, and the status it was last told; but a default
\* that setdefault has put where no parameter was stays unknown to it, until a
\* change of it is told.
MirrorsAgree ==
    /\ Telling = {} /\ "param" \notin crossed =>
         heard = IF "silent" \in crossed THEN Nothing ELSE param
    /\ \A d \in registered \ crossed :
         status[d] # Unknown /\ (\A t \in Threads : calling[t] = <<>>) => status[d] = lastUp[d]
=============================================================================
