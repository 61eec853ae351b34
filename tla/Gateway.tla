-------------------------------- MODULE Gateway --------------------------------
(***************************************************************************)
(* The Modbus gateway (csp_lib/modbus_gateway): clients write holding      *)
(* registers through a pipeline of checks; every change is handed to the   *)
(* hooks in a task of its own, and StatePersistHook keeps it in a Redis    *)
(* hash, from which a start of the server restores the registers.  A       *)
(* watchdog tells the application when clients have gone silent and when   *)
(* they are back.  The input registers get their values from sources:      *)
(* RegistryAggregatingSource combines the latest values of the devices of  *)
(* a trait, RedisSubscriptionSource listens to a channel,                  *)
(* PollingCallbackSource asks the application; the server starts and stops *)
(* them, and none may write a holding register.  The two sides share no    *)
(* register, so each has registers of its own here.                        *)
(*                                                                         *)
(* Of the pipeline's register map only writable holding registers are      *)
(* kept, as values they hold; a value that is no number cannot be put into *)
(* a register and raises.  The sources' numbers count halves, so that an   *)
(* average may be no whole number; an integer register takes whole numbers *)
(* up to Highest.  External: clients, Redis, the application that is told. *)
(* Time counts in units, and all lives in one event loop.                  *)
(***************************************************************************)
EXTENDS Integers, Sequences, FiniteSets, SequencesExt

CONSTANTS
    Registers,     \* the order in which the registers were declared, a sequence
    Top,           \* the largest value of each register its rule lets pass
    Clamps,        \* the registers whose rule clamps a larger value
    Requests,      \* what clients write: functions from registers to values
    Own,           \* the registers the application sets itself
    Timeout, Interval,  \* of the watchdog
    MaxSaving,     \* bound: hook tasks under way
    MayFail,       \* of "redis", "overtake", "callback", "crash"
    Listed,        \* the devices of the trait, in the order of the registry
    Holding, Input,    \* names of the registers
    Highest,       \* of an input register
    Mappings,      \* a sequence of [register, aggregate, fallback, param]
    Readings,      \* what the point of a device shows
    Messages,      \* [form |-> "list" or "dict", items |-> <<[register, value], ...>>]
    Answers,       \* what the application's callback returns, item sequences
    MaxChannel, MaxChanges   \* bounds

Names == ToSet(Registers)
NaN == -1          \* also a text that is no number
Values == 0..2
None == -2
Unasked == [n \in {} |-> None]

Devices == ToSet(Listed)
Nothing == -2      \* None, or no such point
Known == Holding \cup Input
Sources == {"aggregate", "redis", "poll"}

VARIABLES
    server,        \* off; restoring (it serves already); up; stopping
    answer,        \* what Redis has answered to restore_all
    reg,           \* the holding registers
    saving,        \* the hook tasks under way, oldest first: what each is to keep
    stored,        \* the hash in Redis
    astray,        \* ghost: registers whose last value Redis did not get, and why not
    idle,          \* time since a client was heard, capped
    timed,         \* _timed_out
    watch,         \* _check_loop: off, asleep, or awaiting the callbacks
    due,           \* time to the next tick of its anchored schedule
    told,          \* what the application was told last: "back" or "silent"
    unpaired,      \* ghost: it missed a call, or the watchdog was stopped when it was due
    phase,         \* off, up, stopping
    loop,          \* source -> "off", "running", "ended"
    device,        \* device -> [responsive, value]
    regs,          \* register -> its value
    params,        \* RuntimeParameters, by the register of the mapping
    channel,       \* messages the subscription has and the loop has not got
    asked,         \* the callback is awaited
    written, said, lost, quiet, changes   \* history

registers == <<answer, reg, saving, stored, astray>>
dog == <<idle, timed, watch, due, told, unpaired>>
gatewayVars == <<server, registers, dog>>

Cap == Timeout + 2 * Interval

GatewayTypes ==
    /\ server \in {"off", "restoring", "up", "stopping"}
    /\ reg \in [Names -> Values]
    /\ saving \in Seq([name : Names, value : Values]) /\ Len(saving) <= MaxSaving
    /\ \A n \in Names : stored[n] \in Values \cup {None}
    /\ answer = Unasked \/ \A n \in Names : answer[n] \in Values \cup {None}
    /\ astray \subseteq Names
    /\ idle \in 0..Cap
    /\ timed \in BOOLEAN /\ unpaired \in BOOLEAN
    /\ watch \in {"off", "asleep", "silent", "back"}
    /\ due \in -Interval..Interval
    /\ told \in {"back", "silent"}

PipelineInit ==
    /\ server = "off"
    /\ reg = [n \in Names |-> 0]
    /\ saving = <<>>
    /\ answer = Unasked
    /\ stored = [n \in Names |-> None]
    /\ astray = {}
    /\ idle = 0 /\ timed = FALSE
    /\ watch = "off" /\ due = 0
    /\ told = "back" /\ unpaired = FALSE

-----------------------------------------------------------------------------
(* The pipeline                                                            *)

\* What a rule makes of a value: a clamped value, or NaN for one it refuses.
Ruled(n, v) ==
    CASE v <= Top[n] -> [value |-> v, refused |-> FALSE]
      [] n \in Clamps -> [value |-> Top[n], refused |-> FALSE]
      [] OTHER -> [value |-> v, refused |-> TRUE]

\* The registers a write reaches, in order, before one of them raises.
Reached(words) ==
    LET covered == SelectSeq(Registers, LAMBDA n : n \in DOMAIN words)
        raising == {i \in 1..Len(covered) : words[covered[i]] = NaN}
    IN  IF raising = {} THEN covered
        ELSE SubSeq(covered, 1, (CHOOSE i \in raising : \A j \in raising : i <= j) - 1)

Raises(words) == \E n \in DOMAIN words : words[n] = NaN

\* The registers after a write.
Written(words) ==
    [n \in Names |->
       IF n \in ToSet(Reached(words)) /\ ~Ruled(n, words[n]).refused
       THEN Ruled(n, words[n]).value ELSE reg[n]]

\* Mutant: everything written goes to the hooks, as the client sent it.
AsSent(words) ==
    LET changed == SelectSeq(Reached(words), LAMBDA n : reg[n] # words[n])
    IN  [i \in 1..Len(changed) |-> [name |-> changed[i], value |-> words[changed[i]]]]

\* The changes handed to the hooks: the value the register got, where it is another.
Changes(words) ==
    LET changed == SelectSeq(Reached(words), LAMBDA n : Written(words)[n] # reg[n])
    IN  [i \in 1..Len(changed) |-> [name |-> changed[i], value |-> Written(words)[changed[i]]]]

Serving == server # "off"

\* A client writes.  When a register raises, the ones before it have been set, but the
\* list of changes is lost with the exception.
ClientWrites(words) ==
    /\ Serving
    /\ Len(saving) + Len(Changes(words)) <= MaxSaving
    /\ reg' = Written(words)
    /\ idle' = 0
    /\ LET changed == {n \in Names : Written(words)[n] # reg[n]}
       IN  IF Raises(words)
           THEN saving' = saving /\ astray' = astray \cup changed
           ELSE /\ saving' = saving \o Changes(words)
                /\ astray' = IF server = "restoring" THEN astray \cup changed ELSE astray \ changed
    /\ UNCHANGED <<server, answer, stored, timed, watch, due, told, unpaired>>

ClientReads ==
    /\ Serving
    /\ idle' = 0
    /\ UNCHANGED <<server, registers, timed, watch, due, told, unpaired>>

\* The application sets a register itself (the heartbeat does); no hook hears of it.
SetRegister(n, v) ==
    /\ reg' = [reg EXCEPT ![n] = v]
    /\ astray' = astray \cup (IF v # reg[n] THEN {n} ELSE {})
    /\ UNCHANGED <<server, answer, saving, stored, dog>>

\* A later task of the same register goes on: what this one writes is not the last word.
Later(i) == \E j \in (i + 1)..Len(saving) : saving[j].name = saving[i].name
Earlier(i) == \E j \in 1..(i - 1) : saving[j].name = saving[i].name

\* on_write of the hook; the calls of two tasks may be answered in either order, and an
\* exception is swallowed.
Persist(i) ==
    /\ i \in 1..Len(saving)
    /\ i = 1 \/ "overtake" \in MayFail
    /\ saving' = RemoveAt(saving, i)
    /\ LET s == saving[i]
           behind == (IF Later(i) THEN {} ELSE {s.name})
       IN  \/ /\ stored' = [stored EXCEPT ![s.name] = s.value]
              /\ astray' = IF Earlier(i) THEN astray \cup {s.name} ELSE astray
           \/ /\ "redis" \in MayFail
              /\ astray' = astray \cup behind
              /\ UNCHANGED stored
    /\ UNCHANGED <<server, answer, reg, dog>>

-----------------------------------------------------------------------------
(* The server's life                                                       *)

\* It listens first, and restores then.
Start ==
    /\ server = "off"
    /\ server' = "restoring"
    /\ UNCHANGED <<registers, dog>>

\* Redis reads the hash for restore_all.
Answer ==
    /\ server = "restoring" /\ answer = Unasked
    /\ answer' = stored
    /\ UNCHANGED <<server, reg, saving, stored, astray, dog>>

\* restore_all: what the hash had goes into the registers, nothing when Redis raises;
\* then the watchdog is started, as if a client had just been heard.
Restore ==
    /\ server = "restoring"
    /\ server' = "up"
    /\ answer' = Unasked
    /\ \/ /\ answer # Unasked
          /\ reg' = [n \in Names |-> IF answer[n] = None THEN reg[n] ELSE answer[n]]
          /\ astray' = {n \in astray : answer[n] = None}
                       \cup {n \in Names : answer[n] # None /\ answer[n] # stored[n]}
                       \cup {saving[i].name : i \in 1..Len(saving)}
       \/ /\ "redis" \in MayFail
          /\ astray' = {n \in Names : stored[n] # None /\ stored[n] # reg[n]} \cup astray
          /\ UNCHANGED reg
    /\ idle' = 0 /\ timed' = FALSE
    /\ watch' = "asleep" /\ due' = 0
    /\ unpaired' = (told = "silent")
    /\ UNCHANGED <<saving, stored, told>>

\* The watchdog's task is cancelled, also in a callback, which may have done its work.
Stop ==
    /\ server = "up"
    /\ server' = "stopping"
    /\ watch' = "off"
    /\ told' \in IF watch \in {"silent", "back"} THEN {told, watch} ELSE {told}
    /\ UNCHANGED <<registers, idle, timed, due, unpaired>>

Shutdown ==
    /\ server = "stopping"
    /\ server' = "off"
    /\ UNCHANGED <<registers, dog>>

\* The process dies with its tasks; the next one begins with the declared values.
Crash ==
    /\ "crash" \in MayFail
    /\ server # "off"
    /\ server' = "off"
    /\ answer' = Unasked
    /\ reg' = [n \in Names |-> 0]
    /\ saving' = <<>>
    /\ astray' = {}
    /\ idle' = 0 /\ timed' = FALSE /\ watch' = "off" /\ due' = 0
    /\ told' = "back" /\ unpaired' = FALSE
    /\ UNCHANGED stored

-----------------------------------------------------------------------------
(* The watchdog                                                            *)

\* next_tick_delay: ticks are counted from an anchor, which moves to the present when
\* a whole period was missed.
NextTick(d) == IF d <= -Interval THEN Interval ELSE d + Interval

\* Mutant: the watchdog has seen a silence only once it is longer by one more period.
SilentLate == idle > Timeout + Interval

\* Nobody was heard for longer than the timeout.
Silent == idle > Timeout

\* A round of _check_loop: a change is noted first, then the callbacks are awaited.
Check ==
    /\ watch = "asleep" /\ due <= 0
    /\ due' = NextTick(due)
    /\ timed' = Silent
    /\ watch' = CASE Silent /\ ~timed -> "silent"
                  [] ~Silent /\ timed -> "back"
                  [] OTHER -> "asleep"
    /\ UNCHANGED <<server, registers, idle, told, unpaired>>

\* The callbacks return; one that raises is passed over.
Told ==
    /\ watch \in {"silent", "back"}
    /\ watch' = "asleep"
    /\ \/ told' = watch /\ unpaired' = FALSE
       \/ "callback" \in MayFail /\ unpaired' = (told # watch) /\ UNCHANGED told
    /\ UNCHANGED <<server, registers, idle, timed, due>>

\* Time passes; a sleep that is over is over.
Tick ==
    /\ ~(watch = "asleep" /\ due <= 0)
    /\ idle' = IF idle < Cap THEN idle + 1 ELSE idle
    /\ due' = IF watch # "off" /\ due > -Interval THEN due - 1 ELSE due
    /\ UNCHANGED <<server, registers, timed, watch, told, unpaired>>

-----------------------------------------------------------------------------
PipelineNext ==
    \/ \E words \in Requests : ClientWrites(words)
    \/ ClientReads
    \/ \E n \in Own, v \in Values : SetRegister(n, v)
    \/ \E i \in 1..Len(saving) : Persist(i)
    \/ Start \/ Answer \/ Restore \/ Stop \/ Shutdown \/ Crash
    \/ Check \/ Told \/ Tick

-----------------------------------------------------------------------------
(* The sources of the input registers                                      *)

syncVars == <<phase, loop, device, regs, params, channel, asked, written, said, lost, quiet, changes>>

SyncTypes ==
    /\ phase \in {"off", "up", "stopping"}
    /\ loop \in [Sources -> {"off", "running", "ended"}]
    /\ \A r \in Known : regs[r] % 2 = 0 /\ regs[r] \in 0..Highest
    /\ Len(channel) <= MaxChannel
    /\ asked => loop["poll"] = "running"
    /\ changes \in 0..MaxChanges

FeedInit ==
    /\ phase = "off"
    /\ loop = [s \in Sources |-> "off"]
    /\ device = [d \in Devices |-> [responsive |-> TRUE, value |-> Nothing]]
    /\ regs = [r \in Known |-> 0]
    /\ params = [r \in Known |-> Nothing]
    /\ channel = <<>> /\ asked = FALSE
    /\ written = [r \in Holding |-> 0]
    /\ said = [r \in Input |-> Nothing]
    /\ lost = {} /\ quiet = FALSE
    /\ changes = 0

Change == changes < MaxChanges /\ changes' = changes + 1

-----------------------------------------------------------------------------
(* What an update of a register comes to                                   *)

Encodable(v) == v # NaN /\ v % 2 = 0 /\ v \in 0..Highest
\* Mutant: a holding register is one of the registers.
AnyRegister(r, v) ==
    CASE r \notin Known -> "refused"
      [] v = Nothing -> "TypeError"
      [] Encodable(v) -> "set"
      [] OTHER -> "raises"
\* _dispatch passes over an unknown register and a holding one; what cannot be
\* encoded is an exception of the round.
Outcome(r, v) ==
    CASE r \notin Input -> "refused"
      [] v = Nothing -> "TypeError"
      [] Encodable(v) -> "set"
      [] OTHER -> "raises"

\* The items before the first that raises.
Broken(items) == {i \in 1..Len(items) : Outcome(items[i].register, items[i].value) \in {"raises", "TypeError"}}
FirstRaising(items) ==
    SelectInSeq(items, LAMBDA m : Outcome(m.register, m.value) \in {"raises", "TypeError"})
Applied(items) ==
    LET before == IF FirstRaising(items) = 0 THEN items ELSE SubSeq(items, 1, FirstRaising(items) - 1)
        about(r) == SelectSeq(before, LAMBDA m : m.register = r /\ Outcome(r, m.value) = "set")
    IN  [r \in Known |-> IF about(r) = <<>> THEN regs[r] ELSE Last(about(r)).value]

-----------------------------------------------------------------------------
(* The aggregating source                                                  *)

\* Mutant: a silent device is asked for its last value, too.
AllListed(latest) == SelectSeq(Listed, LAMBDA d : latest[d].value # Nothing)
\* Devices that answer and have the point.
Heard(latest) == SelectSeq(Listed, LAMBDA d : latest[d].responsive /\ latest[d].value # Nothing)

Sum(values) == IF NaN \in ToSet(values) THEN NaN ELSE FoldLeft(+, 0, values)
Less(a, b) == IF a # NaN /\ b # NaN /\ b < a THEN b ELSE a
More(a, b) == IF a # NaN /\ b # NaN /\ b > a THEN b ELSE a
Aggregate(how, values) ==
    CASE how = "average" -> IF Sum(values) = NaN THEN NaN ELSE Sum(values) \div Len(values)
      [] how = "sum" -> Sum(values)
      [] how = "min" -> FoldLeft(Less, Head(values), Tail(values))
      [] how = "max" -> FoldLeft(More, Head(values), Tail(values))

\* What the mapping gives, Nothing when it is passed over.
Result(m) ==
    LET heard == Heard(device)
        values == [i \in 1..Len(heard) |-> device[heard[i]].value]
    IN  IF values # <<>> THEN Aggregate(m.aggregate, values) ELSE m.fallback

\* The mappings that give something, one after the other, until one raises; a parameter
\* is set after its register, also when that was refused.
Round ==
    LET given == SelectSeq(Mappings, LAMBDA m : Result(m) # Nothing)
        items == [i \in 1..Len(given) |-> [register |-> given[i].register, value |-> Result(given[i])]]
        done == IF FirstRaising(items) = 0 THEN Len(items) ELSE FirstRaising(items) - 1
        toldOf(r) == {i \in 1..done : given[i].param /\ given[i].register = r}
    IN  /\ loop["aggregate"] = "running"
        /\ regs' = Applied(items)
        /\ params' = [r \in Known |->
                        IF toldOf(r) = {} THEN params[r] ELSE items[CHOOSE i \in toldOf(r) : \A j \in toldOf(r) : j <= i].value]
        /\ quiet' = (Broken(items) = {})
        /\ UNCHANGED <<phase, loop, device, channel, asked, written, said, lost, changes>>

-----------------------------------------------------------------------------
(* The subscription                                                        *)

\* A list leaves out what has no value.
Items(m) == IF m.form = "list" THEN SelectSeq(m.items, LAMBDA x : x.value # Nothing) ELSE m.items
\* Redis hands a message to those who have subscribed.
Publish(m) ==
    /\ Change /\ Len(channel) < MaxChannel
    /\ loop["redis"] = "running"
    /\ channel' = Append(channel, m)
    /\ LET items == Items(m)
           about(r) == SelectSeq(items, LAMBDA x : x.register = r /\ Outcome(r, x.value) = "set")
           spoilt == {i \in 1..Len(items) : \E j \in 1..i : j \in Broken(items)}
       IN  /\ said' = [r \in Input |-> IF about(r) = <<>> THEN said[r] ELSE Last(about(r)).value]
           /\ lost' = (lost \ {items[i].register : i \in 1..Len(items)}) \cup {items[i].register : i \in spoilt}
    /\ UNCHANGED <<phase, loop, device, regs, params, asked, written, quiet>>

\* A value that is None is a TypeError, which ends the message; any other exception ends
\* the loop for good.
Receive ==
    /\ loop["redis"] = "running" /\ channel # <<>>
    /\ LET items == Items(Head(channel))
           k == FirstRaising(items)
       IN  /\ regs' = Applied(items)
           /\ loop' = IF k # 0 /\ Outcome(items[k].register, items[k].value) = "raises"
                      THEN [loop EXCEPT !["redis"] = "ended"] ELSE loop
    /\ channel' = Tail(channel)
    /\ UNCHANGED <<phase, device, params, asked, written, said, lost, quiet, changes>>

\* subscribe or get_message raises: nobody subscribes again.
ConnectionLost ==
    /\ Change
    /\ loop["redis"] = "running"
    /\ loop' = [loop EXCEPT !["redis"] = "ended"]
    /\ UNCHANGED <<phase, device, regs, params, channel, asked, written, said, lost, quiet>>

-----------------------------------------------------------------------------
(* The polled callback                                                     *)

Ask ==
    /\ loop["poll"] = "running" /\ ~asked
    /\ asked' = TRUE
    /\ UNCHANGED <<phase, loop, device, regs, params, channel, written, said, lost, quiet, changes>>
\* It returns values or raises, which gives none; the loop goes on either way.
CallbackReturns(items) ==
    /\ asked
    /\ asked' = FALSE
    /\ regs' = Applied(SelectSeq(items, LAMBDA x : x.value # Nothing))
    /\ UNCHANGED <<phase, loop, device, params, channel, written, said, lost, quiet, changes>>

-----------------------------------------------------------------------------
(* The server and its surroundings                                         *)

StartSources ==
    /\ Change
    /\ phase = "off"
    /\ phase' = "up"
    /\ loop' = [s \in Sources |-> "running"]
    /\ channel' = <<>>
    /\ said' = [r \in Input |-> Nothing] /\ lost' = {} /\ quiet' = FALSE
    /\ UNCHANGED <<device, regs, params, asked, written>>

\* Sources are stopped in turn; a loop that has ended is left as it is.
StopSources ==
    /\ phase = "up"
    /\ phase' = "stopping"
    /\ UNCHANGED <<loop, device, regs, params, channel, asked, written, said, lost, quiet, changes>>
StopSource(s) ==
    /\ phase = "stopping" /\ loop[s] = "running"
    /\ loop' = [loop EXCEPT ![s] = "off"]
    /\ asked' = (asked /\ s # "poll")
    /\ UNCHANGED <<phase, device, regs, params, channel, written, said, lost, quiet, changes>>
SourcesStopped ==
    /\ phase = "stopping" /\ \A s \in Sources : loop[s] # "running"
    /\ phase' = "off"
    /\ UNCHANGED <<loop, device, regs, params, channel, asked, written, said, lost, quiet, changes>>

DeviceChanges(d, responsive, value) ==
    /\ Change
    /\ device' = [device EXCEPT ![d] = [responsive |-> responsive, value |-> value]]
    /\ quiet' = FALSE
    /\ UNCHANGED <<phase, loop, regs, params, channel, asked, written, said, lost>>

ClientSets(r, v) ==
    /\ phase # "off"
    /\ Change
    /\ regs' = [regs EXCEPT ![r] = v]
    /\ written' = [written EXCEPT ![r] = v]
    /\ UNCHANGED <<phase, loop, device, params, channel, asked, said, lost, quiet>>

FeedNext ==
    \/ Round \/ Receive \/ ConnectionLost \/ Ask
    \/ \E m \in Messages : Publish(m)
    \/ \E items \in Answers : CallbackReturns(items)
    \/ StartSources \/ StopSources \/ SourcesStopped
    \/ \E s \in Sources : StopSource(s)
    \/ \E d \in Devices, up \in BOOLEAN, v \in Readings : DeviceChanges(d, up, v)
    \/ \E r \in Holding : ClientSets(r, Highest)

-----------------------------------------------------------------------------
vars == <<gatewayVars, syncVars>>

Init == PipelineInit /\ FeedInit
Next ==
    \/ PipelineNext /\ UNCHANGED syncVars
    \/ FeedNext /\ UNCHANGED gatewayVars

Spec == Init /\ [][Next]_vars

-----------------------------------------------------------------------------
(* Properties                                                              *)

\* A restart gives a register the value it has now: with no hook under way, Redis keeps
\* the value of every register, unless the application set it itself, Redis refused it
\* or answered two tasks in the other order, a register further on in the same write
\* raised, or the client wrote before the server had restored its state, or its hooks
\* were still under way when it did.
RegistersKept ==
    \A n \in Names \ astray :
      server = "up" /\ (\A i \in 1..Len(saving) : saving[i].name # n)
      => stored[n] \in {reg[n]} \cup (IF reg[n] = 0 THEN {None} ELSE {})

\* Clients that were silent for the whole timeout when the watchdog last looked are
\* noticed, those that came back too, and the application has been told, unless a
\* callback raised or the server was stopped in a silence.
SilenceNoticed ==
    watch = "asleep" /\ due > 0 =>
      /\ idle - (Interval - due) > Timeout => timed
      /\ idle > Interval - due /\ idle <= Timeout => ~timed
      /\ ~unpaired => told = (IF timed THEN "silent" ELSE "back")

\* Who else feeds a register.
Mapped == {Mappings[i].register : i \in 1..Len(Mappings)}
Polled == UNION {{items[i].register : i \in 1..Len(items)} : items \in Answers}
Announced == UNION {{m.items[i].register : i \in 1..Len(m.items)} : m \in Messages}

\* The input registers show what their sources say: while the subscription lives and
\* has handed on its messages, the value published last, unless something before it in
\* its message was unfit; and after a round in which every value could be encoded, the
\* value of every mapping that devices which answer give one for lies between what those
\* devices show, or is their sum, and is the parameter's value too.  No source ever
\* changes a holding register, and none runs when the server is off.
SyncFollows ==
    /\ loop["redis"] = "running" /\ channel = <<>> =>
         \A r \in Input \ (lost \cup Mapped \cup Polled) : said[r] = Nothing \/ regs[r] = said[r]
    /\ quiet =>
         \A i \in 1..Len(Mappings) :
           LET r == Mappings[i].register
               shown == {device[d].value : d \in {x \in Devices : device[x].responsive}} \ {Nothing}
           IN  r \in Input \ (Announced \cup Polled) /\ shown # {} =>
                 /\ Mappings[i].param => params[r] = regs[r]
                 /\ NaN \notin shown /\ Mappings[i].aggregate # "sum"
                    => (\E v \in shown : v <= regs[r]) /\ (\E v \in shown : regs[r] <= v)
    /\ \A r \in Holding : regs[r] = written[r]
    /\ phase = "off" => \A s \in Sources : loop[s] # "running"
=============================================================================
