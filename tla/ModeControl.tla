---------------------------- MODULE ModeControl ----------------------------
(***************************************************************************)
(* Which strategy commands the plant: ModeManager (a set of base modes and *)
(* a stack of overrides), SystemController, which turns the modes into a   *)
(* strategy and pushes and pops overrides when alarms and other conditions *)
(* come and go, and StrategyExecutor, whose run task executes the strategy *)
(* and whose set_strategy awaits the hooks of the old and the new one.     *)
(*                                                                         *)
(* Operators call the mode operations from their own tasks; the run task   *)
(* calls them too, in the middle of a cycle.  An action is what a task     *)
(* does between two suspensions.  A strategy is the set of the modes whose *)
(* strategies it is made of: none, one, or the layers of a cascade.        *)
(***************************************************************************)
EXTENDS Naturals, Sequences, FiniteSets

CONSTANTS
    Modes,      \* the registered modes, each with a strategy of its own
    Priority,   \* of each mode
    Kind,       \* ExecutionMode of each mode's strategy
    Slow,       \* the modes whose hooks suspend
    Suppress,   \* the modes whose strategy sets suppress_heartbeat
    BaseModes,  \* the modes that operators use as base modes
    Manual,     \* the modes that operators push as overrides
    Events,     \* the registered event overrides, in order: mode names
    Cooldown,   \* cooldown_seconds of each, in ticks
    Operators,  \* the tasks that call the mode operations
    Run,        \* the executor's run task
    Cascades,   \* capacity_kva is configured
    EarlyStop,  \* stop may come before the run task has run
    Faults,     \* what may raise, of "execute", "hook"
    NotSet      \* deactivate_at is None

EventModes == {Events[i] : i \in DOMAIN Events}
Tasks == Operators \cup {Run}

ASSUME ModeControlAssumption ==
    /\ IsFiniteSet(Modes)
    /\ Priority \in [Modes -> Nat]
    /\ \A m, n \in Modes : Priority[m] = Priority[n] => m = n
    /\ Kind \in [Modes -> {"periodic", "triggered", "hybrid"}]
    /\ Slow \subseteq Modes /\ Suppress \subseteq Modes
    /\ BaseModes \subseteq Modes /\ Manual \subseteq Modes
    /\ Events \in Seq(Modes) /\ Cooldown \in [EventModes -> Nat]
    /\ Run \notin Operators /\ Cascades \in BOOLEAN /\ EarlyStop \in BOOLEAN
    /\ Faults \subseteq {"execute", "hook"}
    /\ NotSet \notin Nat

VARIABLES
    base,       \* _base_mode_names
    overrides,  \* _override_names
    condition,  \* whether the condition of each event override holds
    active,     \* _event_override_states
    strategy,   \* the executor's strategy
    call,       \* the set_strategy each task is in
    changed,    \* _strategy_changed_event
    trigger,    \* _trigger_event
    stop,       \* _stop_event
    run,        \* where the run task is suspended
    kind,       \* ExecutionMode its last turn was executed under
    seen,       \* the conditions in its context
    next,       \* the event override it evaluates next
    ctl,        \* the controller: down, up or stopping
    paused,     \* the heartbeat is paused
    muddled     \* the last switch of strategy met another one, or a hook raised

modes == <<base, overrides>>
switching == <<strategy, call, changed, paused, muddled>>
loop == <<run, kind, seen, next>>
vars == <<modes, condition, active, switching, trigger, stop, loop, ctl>>

Idle == [at |-> "idle", to |-> {}]

\* Every variable holds a value of its kind, and only the run task's evaluation
\* leaves it in a switch.
TypeOK ==
    /\ base \subseteq BaseModes /\ overrides \subseteq Manual \cup EventModes
    /\ condition \in [EventModes -> BOOLEAN] /\ seen \in [EventModes -> BOOLEAN]
    /\ \A o \in EventModes :
         /\ active[o].on \in BOOLEAN
         /\ active[o].wait \in {NotSet} \cup (0..Cooldown[o])
         /\ active[o].wait # NotSet => active[o].on
    /\ strategy \subseteq Modes
    /\ call \in [Tasks -> [at : {"idle", "leaving", "entering"}, to : SUBSET Modes]]
    /\ changed \in BOOLEAN /\ trigger \in BOOLEAN /\ stop \in BOOLEAN
    /\ run \in {"off", "created", "dozing", "waiting", "processing", "evaluating",
                "routing", "done"}
    /\ kind \in {"periodic", "triggered", "hybrid"}
    /\ next \in 1..Len(Events) + 1
    /\ ctl \in {"down", "up", "stopping"}
    /\ paused \in BOOLEAN /\ muddled \in BOOLEAN
    /\ call[Run] # Idle => run = "evaluating"
    /\ ctl = "down" <=> run = "off"

Init ==
    /\ base = {} /\ overrides = {}
    /\ condition = [o \in EventModes |-> FALSE]
    /\ active = [o \in EventModes |-> [on |-> FALSE, wait |-> NotSet]]
    /\ strategy = {} /\ call = [t \in Tasks |-> Idle]
    /\ changed = FALSE /\ trigger = FALSE /\ stop = FALSE
    /\ run = "off" /\ kind = "periodic" /\ next = 1
    /\ seen = [o \in EventModes |-> FALSE]
    /\ ctl = "down" /\ paused = FALSE /\ muddled = FALSE

\* The run task evaluates the event overrides without a suspension, but for the
\* hooks of a switch: nobody else moves meanwhile.
Evaluating == run = "evaluating" /\ call[Run] = Idle

-----------------------------------------------------------------------------
(* Modes and strategies                                                    *)

Top(S) == {m \in S : \A n \in S : Priority[m] >= Priority[n]}

\* effective_strategy, which _notify_change compares.
Effective(b, o) ==
    IF o # {} THEN Top(o) ELSE IF Cardinality(b) = 1 THEN b ELSE {}

\* _resolve_strategy, which the executor gets.
Resolve(b, o) ==
    IF o # {} THEN Top(o) ELSE IF Cascades THEN b ELSE Top(b)

\* A cascade is periodic and does not suppress the heartbeat.
KindOf(s) == IF Cardinality(s) = 1 THEN Kind[CHOOSE m \in s : TRUE] ELSE "periodic"
Suppresses(s) == Cardinality(s) = 1 /\ s \subseteq Suppress

\* Mutant: the heartbeat is resumed by no one.
NeverResumed(s) == paused' = (paused \/ Suppresses(s))

\* _on_strategy_change's last part.
Heartbeat(s) == paused' = IF s = {} THEN paused ELSE Suppresses(s)

\* set_strategy has got through: wake the run task.
Conclude(t, s) ==
    /\ call' = [call EXCEPT ![t] = Idle]
    /\ changed' = TRUE
    /\ Heartbeat(s)

Install(t, s) ==
    /\ strategy' = s
    /\ IF s \cap Slow = {}
       THEN Conclude(t, s)
       ELSE /\ call' = [call EXCEPT ![t] = [at |-> "entering", to |-> s]]
            /\ UNCHANGED <<changed, paused>>

\* set_strategy(s), called by t.
SetStrategy(t, s) ==
    /\ muddled' = \E u \in Tasks : call[u] # Idle
    /\ IF strategy \cap Slow = {}
       THEN Install(t, s)
       ELSE /\ call' = [call EXCEPT ![t] = [at |-> "leaving", to |-> s]]
            /\ UNCHANGED <<strategy, changed, paused>>

\* Mutant: only a change of the topmost override counts.
OverridesOnly(t, b, o) ==
    /\ base' = b /\ overrides' = o
    /\ IF Top(overrides) = Top(o) THEN UNCHANGED switching
       ELSE SetStrategy(t, Resolve(b, o))

\* The mode operations end in _notify_change.
SetModes(t, b, o) ==
    /\ base' = b /\ overrides' = o
    /\ IF Effective(base, overrides) = Effective(b, o) THEN UNCHANGED switching
       ELSE SetStrategy(t, Resolve(b, o))

Quiet == UNCHANGED <<condition, active, trigger, stop, loop, ctl>>

May(t) == call[t] = Idle /\ ~Evaluating

SetBase(t) ==
    /\ May(t)
    /\ \E b \in {{}} \cup {{m} : m \in BaseModes} : SetModes(t, b, overrides)
    /\ Quiet

AddBase(t) ==
    /\ May(t)
    /\ \E m \in BaseModes \ base : SetModes(t, base \cup {m}, overrides)
    /\ Quiet

RemoveBase(t) ==
    /\ May(t)
    /\ \E m \in base : SetModes(t, base \ {m}, overrides)
    /\ Quiet

PushOverride(t) ==
    /\ May(t)
    /\ \E m \in Manual \ overrides : SetModes(t, base, overrides \cup {m})
    /\ Quiet

PopOverride(t) ==
    /\ May(t)
    /\ \E m \in overrides : SetModes(t, base, overrides \ {m})
    /\ Quiet

ClearOverrides(t) ==
    /\ May(t)
    /\ SetModes(t, base, {})
    /\ Quiet

\* on_deactivate returns.
Left(t) ==
    /\ call[t].at = "leaving" /\ ~Evaluating
    /\ Install(t, call[t].to)
    /\ UNCHANGED <<modes, muddled>> /\ Quiet

\* on_activate returns.
Entered(t) ==
    /\ call[t].at = "entering" /\ ~Evaluating
    /\ Conclude(t, call[t].to)
    /\ UNCHANGED <<modes, strategy, muddled>> /\ Quiet

-----------------------------------------------------------------------------
(* The run task: StrategyExecutor.run                                      *)

Steady == UNCHANGED <<modes, condition, active, strategy, call, ctl, paused, muddled>>

\* _execute_strategy up to on_command: the context is built, the strategy executed
\* on it; then the post-protection processors are awaited.
Execute ==
    /\ run' = "processing"
    /\ seen' = condition
    /\ next' = 1

\* The context is not used any more.
Unseen ==
    /\ seen' = [o \in EventModes |-> FALSE]
    /\ next' = 1

\* Another turn of the loop: doze without a strategy, wait for a trigger, or
\* execute.  (changed is not read while dozing.)
GoOn ==
    /\ changed' = FALSE
    /\ IF strategy = {} THEN run' = "dozing" /\ Unseen /\ UNCHANGED kind
       ELSE /\ kind' = KindOf(strategy)
            /\ IF KindOf(strategy) = "triggered" THEN run' = "waiting" /\ Unseen
               ELSE Execute

\* Mutant: the loop does not look at the stop event.
NeverHalts(halt) == GoOn

\* The top of the loop.
Turn(halt) ==
    IF halt THEN run' = "done" /\ Unseen /\ UNCHANGED <<changed, kind>> ELSE GoOn

\* run() starts by clearing the stop event.
Begin ==
    /\ run = "created"
    /\ stop' = FALSE
    /\ GoOn
    /\ UNCHANGED trigger /\ Steady

Wake ==
    /\ run = "dozing"
    /\ Turn(stop)
    /\ UNCHANGED <<trigger, stop>> /\ Steady

\* Mutant: triggered strategies do not wait for the trigger.
HybridOnly == trigger /\ kind = "hybrid"

\* Whether trigger() can end the wait.
Triggered == trigger /\ kind # "periodic"

\* _wait_triggered or _wait_periodic returns: the wait was for the trigger, whose
\* event is then cleared, or for a switch, the stop or, under a periodic or hybrid
\* strategy, the time.  When several come together the trigger may be left set.
Woken ==
    /\ run = "waiting"
    /\ \E early \in BOOLEAN :
         /\ early => Triggered
         /\ kind = "triggered" => early \/ changed \/ stop
         /\ trigger' = (trigger /\ ~early)
    /\ IF kind = "triggered" /\ ~changed /\ ~stop
       THEN Execute /\ UNCHANGED <<changed, kind>>
       ELSE Turn(stop)
    /\ UNCHANGED stop /\ Steady

\* _execute_strategy is over, done or failed.
Executed ==
    IF kind = "triggered" THEN Turn(stop)
    ELSE /\ run' = IF stop THEN "done" ELSE "waiting"
         /\ Unseen /\ UNCHANGED <<changed, kind>>

Processed ==
    /\ run = "processing"
    /\ run' = "evaluating"
    /\ UNCHANGED <<kind, seen, next, trigger, stop, changed>> /\ Steady

\* The strategy, or what follows it, raises: no override is evaluated.
Raises ==
    /\ "execute" \in Faults /\ run = "processing"
    /\ Executed
    /\ UNCHANGED <<trigger, stop>> /\ Steady

Routed ==
    /\ run = "routing"
    /\ Executed
    /\ UNCHANGED <<trigger, stop>> /\ Steady

\* A hook raises: the switch ends there, and with it the cycle if it is the run
\* task's, unless the evaluation swallows it (a KeyError or a ValueError).
\* set_strategy does not get to wake the run task.
HookRaises(t) ==
    /\ "hook" \in Faults /\ call[t] # Idle /\ ~Evaluating
    /\ call' = [call EXCEPT ![t] = Idle]
    /\ muddled' = TRUE
    /\ \/ t = Run /\ Executed
       \/ UNCHANGED <<loop, changed>>
    /\ UNCHANGED <<modes, condition, active, strategy, trigger, stop, ctl, paused>>

-----------------------------------------------------------------------------
(* _evaluate_event_overrides                                               *)

\* Mutant: one tick too many.
OneLonger(o) == IF active[o].wait = NotSet THEN Cooldown[o] + 1 ELSE active[o].wait

\* Mutant: every evaluation starts the cooldown anew.
Anew(o) == Cooldown[o]

\* The cooldown left: it begins with the first evaluation that finds the
\* condition gone.
CoolingLeft(o) == IF active[o].wait = NotSet THEN Cooldown[o] ELSE active[o].wait

\* Mutant: the override is marked but not taken off the stack.
OnlyMarked(o) ==
    /\ active' = [active EXCEPT ![o] = [on |-> FALSE, wait |-> NotSet]]
    /\ UNCHANGED <<modes, switching>>

Lower(o) ==
    /\ active' = [active EXCEPT ![o] = [on |-> FALSE, wait |-> NotSet]]
    /\ SetModes(Run, base, overrides \ {o})

\* (An override that is on the stack already stays there.)
Raise(o) ==
    /\ active' = [active EXCEPT ![o] = [on |-> TRUE, wait |-> NotSet]]
    /\ SetModes(Run, base, overrides \cup {o})

\* One event override is evaluated on the context.
Evaluate ==
    /\ Evaluating /\ next \in DOMAIN Events
    /\ LET o == Events[next] IN
       \/ seen[o] /\ ~active[o].on /\ Raise(o)
       \/ ~seen[o] /\ active[o].on /\ CoolingLeft(o) = 0 /\ Lower(o)
       \/ /\ ~seen[o] /\ active[o].on /\ CoolingLeft(o) > 0
          /\ active' = [active EXCEPT ![o].wait = CoolingLeft(o)]
          /\ UNCHANGED <<modes, switching>>
       \/ seen[o] = active[o].on /\ UNCHANGED <<active, modes, switching>>
    /\ next' = next + 1
    /\ UNCHANGED <<condition, trigger, stop, run, kind, seen, ctl>>

\* All are: the command goes to the devices.
Route ==
    /\ Evaluating /\ next \notin DOMAIN Events
    /\ run' = "routing" /\ next' = 1
    /\ UNCHANGED <<kind, seen, trigger, stop, changed>> /\ Steady

-----------------------------------------------------------------------------
(* The controller and its surroundings                                     *)

\* start(): the heartbeat starts unpaused, the run task is created.
Start ==
    /\ ctl = "down"
    /\ ctl' = "up" /\ run' = "created" /\ paused' = FALSE
    /\ UNCHANGED <<modes, condition, active, strategy, call, changed, trigger, stop,
                   kind, seen, next, muddled>>

\* stop(): the executor is told, and its run task awaited.
Stop ==
    /\ ctl = "up" /\ ~Evaluating
    /\ EarlyStop \/ run # "created"
    /\ ctl' = "stopping"
    /\ stop' = TRUE /\ trigger' = TRUE /\ changed' = TRUE
    /\ UNCHANGED <<modes, condition, active, strategy, call, loop, paused, muddled>>

Stopped ==
    /\ ctl = "stopping" /\ run = "done"
    /\ ctl' = "down" /\ run' = "off"
    /\ UNCHANGED <<modes, condition, active, switching, trigger, stop, kind, seen, next>>

\* A device enters or leaves its alarm; any condition an override watches.
Flip(o) ==
    /\ ~Evaluating
    /\ condition' = [condition EXCEPT ![o] = ~@]
    /\ UNCHANGED <<modes, active, switching, trigger, stop, loop, ctl>>

\* trigger(), which the read trigger of a device calls too.
Trigger ==
    /\ ctl = "up" /\ ~Evaluating
    /\ trigger' = TRUE
    /\ UNCHANGED <<modes, condition, active, switching, stop, loop, ctl>>

Cooling(o) == active[o].wait \notin {NotSet, 0}

Tick ==
    /\ ~Evaluating /\ \E o \in EventModes : Cooling(o)
    /\ active' = [o \in EventModes |->
                     IF Cooling(o) THEN [active[o] EXCEPT !.wait = @ - 1] ELSE active[o]]
    /\ UNCHANGED <<modes, condition, switching, trigger, stop, loop, ctl>>

Cycle == Begin \/ Wake \/ Woken \/ Processed \/ Evaluate \/ Route \/ Routed \/ Stopped

Operate(t) ==
    \/ SetBase(t) \/ AddBase(t) \/ RemoveBase(t)
    \/ PushOverride(t) \/ PopOverride(t) \/ ClearOverrides(t)

Next ==
    \/ \E t \in Operators : Operate(t)
    \/ \E t \in Tasks : Left(t) \/ Entered(t) \/ HookRaises(t)
    \/ Cycle \/ Raises
    \/ Start \/ Stop \/ Trigger \/ Tick
    \/ \E o \in EventModes : Flip(o)

Spec == Init /\ [][Next]_vars

\* The run task goes on, hooks return or raise, and time passes.
FairSpec ==
    /\ Spec
    /\ WF_vars(Cycle) /\ SF_vars(Tick)
    /\ \A t \in Tasks : SF_vars(Left(t) \/ Entered(t))

-----------------------------------------------------------------------------
(* Properties                                                              *)

Still == \A t \in Tasks : call[t] = Idle

\* When no switch is under way and the last one was undisturbed, the executor runs
\* the strategy of the effective mode, whatever mode operations, by operators and
\* by alarms, came before.
EffectiveRuns ==
    Still /\ ~muddled /\ Effective(base, overrides) # {}
        => strategy = Effective(base, overrides)

\* When no switch is under way and an alarm (or another event) has put the topmost
\* override on the stack, the executor runs it.
EventWins == \A o \in EventModes : Still /\ Top(overrides) = {o} => strategy = {o}

\* The devices' heartbeat is not left paused by a strategy that has gone.
NoStrayPause ==
    Still /\ ~muddled /\ strategy # {} /\ paused => Suppresses(strategy)

\* An event override on the stack is one that the evaluation will take off.
NoStrayOverride == \A o \in EventModes \ Manual : o \in overrides => active[o].on

\* Nothing stays behind: no pause of a strategy that has gone, no override of an event
\* that has been evaluated.
NoStray == NoStrayPause /\ NoStrayOverride

Evaluated(o) == Evaluate /\ Events[next] = o

\* As long as cycles go on, an override ends up on the stack for good if its
\* condition stays (unless an operator takes it off), and off the stack for good
\* if the condition stays away.
EventsFollow ==
    \A o \in EventModes :
        []<><<Evaluated(o)>>_vars =>
            /\ <>[]condition[o] /\ [](active[o].on => o \in overrides)
                   => <>[](o \in overrides)
            /\ <>[]~condition[o] => <>[](o \notin overrides)

\* A trigger that comes while the run task waits under a triggered strategy, or is
\* about to, is followed by an execution, unless the strategy is switched or the
\* controller stopped.
TriggerServed ==
    trigger /\ kind = "triggered" /\ run \in {"waiting", "routing"} /\ ctl = "up"
        ~> run = "processing" \/ changed \/ ctl # "up"

\* stop() returns: it ends the loop.
StopReturns == ctl = "stopping" ~> ctl = "down"
=============================================================================
