------------------------- MODULE ModeControl_proofs -------------------------
(***************************************************************************)
(* The executor ends up with the strategy of the effective mode, for any   *)
(* modes, priorities, event overrides and operators.                       *)
(*                                                                         *)
(* As long as no switch met another one and no hook raised, one task at    *)
(* most is in set_strategy, and it is taking the executor where the modes  *)
(* say: an operation that changes the effective mode calls set_strategy    *)
(* itself, and all others leave the target as it is.                       *)
(***************************************************************************)
EXTENDS ModeControl, FiniteSetTheorems, TLAPS

Target == Effective(base, overrides)

\* The record of each event override.
Records == active \in [EventModes -> [on : BOOLEAN, wait : {NotSet} \cup Nat]]

\* How switch, modes and executor go together.
OneSwitch == \A t, u \in Tasks : call[t] # Idle /\ call[u] # Idle => t = u
OnItsWay == \A t \in Tasks : call[t] # Idle /\ Target # {} => call[t].to = Target
Entering == \A t \in Tasks : call[t].at = "entering" => strategy = call[t].to
Arrived == Still /\ Target # {} => strategy = Target
Pausing == Still /\ strategy # {} /\ paused => Suppresses(strategy)

Switch == ~muddled => OneSwitch /\ OnItsWay /\ Entering /\ Arrived /\ Pausing

IInv == TypeOK /\ Records /\ Switch /\ NoStrayOverride

\* What a switch may change is of its kind.
SwitchTypes ==
    /\ strategy \subseteq Modes
    /\ call \in [Tasks -> [at : {"idle", "leaving", "entering"}, to : SUBSET Modes]]
    /\ changed \in BOOLEAN /\ paused \in BOOLEAN /\ muddled \in BOOLEAN

-----------------------------------------------------------------------------
(* Modes and strategies                                                    *)

\* What operators and events use are registered modes.
LEMMA RegisteredModes ==
  BaseModes \subseteq Modes /\ Manual \cup EventModes \subseteq Modes
BY ModeControlAssumption DEF EventModes

\* What the executor gets is the effective strategy, if there is one.
LEMMA Chosen ==
  ASSUME NEW b \in SUBSET Modes, NEW o \in SUBSET Modes
  PROVE  /\ Resolve(b, o) \subseteq Modes
         /\ Effective(b, o) # {} => Resolve(b, o) = Effective(b, o)
<1>1. Resolve(b, o) \subseteq Modes
  BY DEF Resolve, Top
<1>2. ASSUME Effective(b, o) # {} PROVE Resolve(b, o) = Effective(b, o)
  <2>1. CASE o # {}
    BY <2>1 DEF Resolve, Effective
  <2>2. CASE o = {}
    <3>1. Cardinality(b) = 1 /\ Effective(b, o) = b
      BY <1>2, <2>2 DEF Effective
    <3>2. IsFiniteSet(b)
      BY ModeControlAssumption, FS_Subset
    <3>3. PICK m : b = {m}
      BY <3>1, <3>2, FS_Singleton
    <3>4. m \in Modes /\ Priority[m] \in Nat
      BY <3>3, ModeControlAssumption
    <3>5. Top(b) = b
      BY <3>3, <3>4 DEF Top
    <3> QED BY <2>2, <3>1, <3>5 DEF Resolve
  <2> QED BY <2>1, <2>2
<1> QED BY <1>1, <1>2

\* The executor always finds a kind for its strategy.
LEMMA KindTyped ==
  ASSUME NEW s \in SUBSET Modes
  PROVE  KindOf(s) \in {"periodic", "triggered", "hybrid"}
<1>1. CASE Cardinality(s) = 1
  <2>1. s # {}
    BY <1>1, FS_EmptySet
  <2>2. (CHOOSE m \in s : TRUE) \in Modes
    BY <2>1
  <2> QED BY <1>1, <2>2, ModeControlAssumption DEF KindOf
<1>2. CASE Cardinality(s) # 1
  BY <1>2 DEF KindOf
<1> QED BY <1>1, <1>2

\* A strategy pauses the heartbeat or resumes it; none leaves it alone.
LEMMA HeartbeatTyped ==
  ASSUME paused \in BOOLEAN, NEW s, Heartbeat(s)
  PROVE  paused' \in BOOLEAN /\ (s # {} => paused' = Suppresses(s))
BY DEF Heartbeat, Suppresses

-----------------------------------------------------------------------------
(* set_strategy                                                            *)

\* The switch of t to s goes on to its hook or gets through.
LEMMA Installs ==
  ASSUME SwitchTypes, NEW t \in Tasks, NEW s \in SUBSET Modes, Install(t, s),
         muddled' \in BOOLEAN
  PROVE  /\ SwitchTypes' /\ strategy' = s
         /\ \A u \in Tasks \ {t} : call'[u] = call[u]
         /\ \/ call'[t] = Idle /\ (s # {} => paused' = Suppresses(s))
            \/ call'[t] = [at |-> "entering", to |-> s]
<1>1. CASE s \cap Slow = {}
  <2>1. Conclude(t, s) /\ strategy' = s
    BY <1>1 DEF Install
  <2>2. paused' \in BOOLEAN /\ (s # {} => paused' = Suppresses(s))
    BY <2>1, HeartbeatTyped DEF Conclude, SwitchTypes
  <2> QED BY <2>1, <2>2 DEF Conclude, SwitchTypes, Idle
<1>2. CASE s \cap Slow # {}
  BY <1>2 DEF Install, SwitchTypes
<1> QED BY <1>1, <1>2

\* The only switch under way keeps the parts together.
LEMMA AloneInSwitch ==
  ASSUME SwitchTypes', NEW t \in Tasks, NEW s \in SUBSET Modes,
         \A u \in Tasks \ {t} : call'[u] = Idle,
         (Target # {})' => s = Target',
         \/ call'[t] = Idle /\ strategy' = s /\ (s # {} => paused' = Suppresses(s))
         \/ call'[t] = [at |-> "entering", to |-> s] /\ strategy' = s
         \/ call'[t] = [at |-> "leaving", to |-> s]
  PROVE  Switch'
<1>1. OneSwitch' /\ OnItsWay'
  BY DEF OneSwitch, OnItsWay, Idle
<1>2. Entering'
  BY DEF Entering, Idle
<1>3. Arrived'
  BY DEF Arrived, Still, Idle
<1>4. Pausing'
  <2>1. CASE call'[t] = Idle /\ strategy' = s /\ (s # {} => paused' = Suppresses(s))
    <3>1. ASSUME strategy' # {}, paused' PROVE Suppresses(s)
      BY <2>1, <3>1
    <3> QED BY <2>1, <3>1 DEF Pausing, Suppresses
  <2>2. CASE call'[t].at \in {"entering", "leaving"}
    <3>1. ~Still'
      BY <2>2 DEF Still, Idle
    <3> QED BY <3>1 DEF Pausing
  <2> QED BY <2>1, <2>2
<1> QED BY <1>1, <1>2, <1>3, <1>4 DEF Switch

\* set_strategy starts a switch, and is alone unless it met another one.
LEMMA Switches ==
  ASSUME SwitchTypes, NEW t \in Tasks, NEW s \in SUBSET Modes, call[t] = Idle,
         SetStrategy(t, s), (Target # {})' => s = Target'
  PROVE  /\ SwitchTypes' /\ Switch'
         /\ \A u \in Tasks \ {t} : call'[u] = call[u]
<1>1. muddled' \in BOOLEAN /\ (~muddled' => \A u \in Tasks : call[u] = Idle)
  BY DEF SetStrategy
<1>2. /\ SwitchTypes'
      /\ \A u \in Tasks \ {t} : call'[u] = call[u]
      /\ \/ call'[t] = Idle /\ strategy' = s /\ (s # {} => paused' = Suppresses(s))
         \/ call'[t] = [at |-> "entering", to |-> s] /\ strategy' = s
         \/ call'[t] = [at |-> "leaving", to |-> s]
  <2>1. CASE strategy \cap Slow = {}
    <3>1. Install(t, s)
      BY <2>1 DEF SetStrategy
    <3> QED BY <1>1, <3>1, Installs
  <2>2. CASE strategy \cap Slow # {}
    BY <1>1, <2>2 DEF SetStrategy, SwitchTypes
  <2> QED BY <2>1, <2>2
<1>3. CASE muddled'
  BY <1>2, <1>3 DEF Switch
<1>4. CASE ~muddled'
  BY <1>1, <1>2, <1>4, AloneInSwitch
<1> QED BY <1>1, <1>2, <1>3, <1>4

\* Modes change, and what they say is not what they said: the switch goes there.
LEMMA ChangesModes ==
  ASSUME SwitchTypes, Switch, NEW t \in Tasks, call[t] = Idle,
         NEW b \in SUBSET Modes, NEW o \in SUBSET Modes, SetModes(t, b, o)
  PROVE  /\ SwitchTypes' /\ Switch' /\ base' = b /\ overrides' = o
         /\ \A u \in Tasks \ {t} : call'[u] = call[u]
<1>1. base' = b /\ overrides' = o /\ Target' = Effective(b, o)
  BY DEF SetModes, Target
<1>2. CASE Target = Effective(b, o)
  <2>1. UNCHANGED switching /\ Target' = Target
    BY <1>1, <1>2 DEF SetModes, Target
  <2>2. SwitchTypes'
    BY <2>1 DEF SwitchTypes, switching
  <2>3. Switch'
    BY <2>1
       DEF Switch, OneSwitch, OnItsWay, Entering, Arrived, Pausing, Still, switching
  <2> QED BY <1>1, <2>1, <2>2, <2>3 DEF switching
<1>3. CASE Target # Effective(b, o)
  <2>1. SetStrategy(t, Resolve(b, o))
    BY <1>3 DEF SetModes, Target
  <2>2. (Target # {})' => Resolve(b, o) = Target'
    BY <1>1, Chosen
  <2> QED BY <1>1, <2>1, <2>2, Switches, Chosen
<1> QED BY <1>2, <1>3

\* Steps that touch neither modes nor switches keep them together.
LEMMA NothingSwitches ==
  ASSUME Switch, UNCHANGED <<modes, strategy, call, paused, muddled>>
  PROVE  Switch'
BY DEF Switch, OneSwitch, OnItsWay, Entering, Arrived, Pausing, Still, Target, modes

-----------------------------------------------------------------------------
(* The invariant                                                           *)

ModeTypes == base \subseteq BaseModes /\ overrides \subseteq Manual \cup EventModes

RecordTypes ==
    /\ Records
    /\ \A o \in EventModes :
         /\ active[o].wait # NotSet => active[o].wait <= Cooldown[o] /\ active[o].on

LoopTypes ==
    /\ condition \in [EventModes -> BOOLEAN] /\ seen \in [EventModes -> BOOLEAN]
    /\ trigger \in BOOLEAN /\ stop \in BOOLEAN
    /\ run \in {"off", "created", "dozing", "waiting", "processing", "evaluating",
                "routing", "done"}
    /\ kind \in {"periodic", "triggered", "hybrid"}
    /\ next \in 1..Len(Events) + 1
    /\ ctl \in {"down", "up", "stopping"}
    /\ ctl = "down" <=> run = "off"

RunSwitches == call[Run] # Idle => run = "evaluating"

\* The events as a sequence and as modes.
LEMMA EventsListed ==
  /\ Len(Events) \in Nat /\ DOMAIN Events = 1..Len(Events)
  /\ \A i \in DOMAIN Events : Events[i] \in EventModes
  /\ \A o \in EventModes : Cooldown[o] \in Nat
BY ModeControlAssumption DEF EventModes

\* The invariant by the parts that actions touch.
LEMMA InParts ==
  IInv <=> /\ ModeTypes /\ RecordTypes /\ SwitchTypes /\ LoopTypes /\ RunSwitches
           /\ Switch /\ NoStrayOverride
<1>1. ASSUME IInv PROVE RecordTypes
  BY <1>1, EventsListed, ModeControlAssumption DEF IInv, TypeOK, RecordTypes, Records
<1>2. ASSUME RecordTypes
      PROVE  \A o \in EventModes :
               /\ active[o].on \in BOOLEAN
               /\ active[o].wait \in {NotSet} \cup (0..Cooldown[o])
               /\ active[o].wait # NotSet => active[o].on
  BY <1>2, EventsListed DEF RecordTypes, Records
<1>3. ASSUME IInv PROVE ModeTypes /\ SwitchTypes /\ LoopTypes /\ RunSwitches
  BY <1>3 DEF IInv, TypeOK, ModeTypes, SwitchTypes, LoopTypes, RunSwitches
<1>4. ASSUME ModeTypes, RecordTypes, SwitchTypes, LoopTypes, RunSwitches
      PROVE  TypeOK /\ Records
  BY <1>2, <1>4 DEF TypeOK, ModeTypes, SwitchTypes, LoopTypes, RunSwitches, RecordTypes
<1> QED BY <1>1, <1>3, <1>4 DEF IInv

\* The same of the next state.
LEMMA FromParts ==
  ASSUME ModeTypes', RecordTypes', SwitchTypes', LoopTypes', RunSwitches', Switch',
         NoStrayOverride'
  PROVE  IInv'
BY InParts, PTL

\* The evaluation begins with the first event, if there is one.
LEMMA FirstNext == 1 \in 1..Len(Events) + 1
BY EventsListed

\* Nothing runs, no mode is set and no event override is on.
LEMMA InitHolds == Init => IInv
<1> SUFFICES ASSUME Init PROVE IInv
  OBVIOUS
<1>1. ModeTypes /\ SwitchTypes /\ RunSwitches
  BY DEF Init, ModeTypes, SwitchTypes, RunSwitches, Idle, Tasks
<1>2. RecordTypes
  BY DEF Init, RecordTypes, Records
<1>3. Target = {}
  BY FS_EmptySet DEF Init, Target, Effective
<1>4. Switch
  BY <1>3 DEF Init, Switch, OneSwitch, OnItsWay, Entering, Arrived, Pausing, Idle
<1>5. NoStrayOverride
  BY DEF Init, NoStrayOverride
<1>6. LoopTypes
  BY FirstNext DEF Init, LoopTypes
<1> QED BY <1>1, <1>2, <1>4, <1>5, <1>6, InParts

\* The records of the events stay, and so does what depends on them and the stack.
LEMMA SameRecords ==
  ASSUME RecordTypes, NoStrayOverride, UNCHANGED active,
         \A o \in EventModes \ Manual : o \in overrides' => o \in overrides
  PROVE  RecordTypes' /\ NoStrayOverride'
BY DEF RecordTypes, Records, NoStrayOverride

\* Only the run task's evaluation leaves the run task in a switch.
LEMMA OtherTask ==
  ASSUME RunSwitches, NEW t \in Tasks, t # Run \/ run = "evaluating", UNCHANGED run,
         \A u \in Tasks \ {t} : call'[u] = call[u]
  PROVE  RunSwitches'
BY DEF RunSwitches, Tasks

-----------------------------------------------------------------------------
(* The mode operations and the hooks                                       *)

\* set_base_mode and the other mode operations.
LEMMA OperateKeeps ==
  ASSUME IInv, NEW t \in Operators, Operate(t)
  PROVE  IInv'
<1> USE InParts, FromParts
<1>1. t \in Tasks /\ t # Run /\ call[t] = Idle /\ Quiet
  BY ModeControlAssumption
     DEF Operate, SetBase, AddBase, RemoveBase, PushOverride, PopOverride,
         ClearOverrides, May, Tasks
<1>2. PICK b \in SUBSET BaseModes, o \in SUBSET (overrides \cup Manual) : SetModes(t, b, o)
  <2>1. base \subseteq BaseModes
    BY DEF ModeTypes
  <2>2. CASE SetBase(t)
    BY <2>2 DEF SetBase
  <2>3. CASE AddBase(t)
    BY <2>1, <2>3 DEF AddBase
  <2>4. CASE RemoveBase(t)
    BY <2>1, <2>4 DEF RemoveBase
  <2>5. CASE PushOverride(t)
    BY <2>1, <2>5 DEF PushOverride
  <2>6. CASE PopOverride(t)
    BY <2>1, <2>6 DEF PopOverride
  <2>7. CASE ClearOverrides(t)
    BY <2>1, <2>7 DEF ClearOverrides
  <2> QED BY <2>2, <2>3, <2>4, <2>5, <2>6, <2>7 DEF Operate
<1>3. b \in SUBSET Modes /\ o \in SUBSET Modes /\ o \subseteq Manual \cup EventModes
  BY RegisteredModes DEF ModeTypes
<1>4. /\ SwitchTypes' /\ Switch' /\ base' = b /\ overrides' = o
      /\ \A u \in Tasks \ {t} : call'[u] = call[u]
  BY <1>1, <1>2, <1>3, ChangesModes
<1>5. ModeTypes' /\ LoopTypes'
  BY <1>1, <1>3, <1>4 DEF ModeTypes, LoopTypes, Quiet, loop
<1>6. RecordTypes' /\ NoStrayOverride'
  BY <1>1, <1>4, SameRecords DEF Quiet
<1>7. RunSwitches'
  BY <1>1, <1>4, OtherTask DEF Quiet, loop
<1> QED BY <1>4, <1>5, <1>6, <1>7

\* on_deactivate returns.
LEMMA LeftKeeps ==
  ASSUME IInv, NEW t \in Tasks, Left(t)
  PROVE  IInv'
<1> USE InParts, FromParts
<1>1. /\ call[t].at = "leaving" /\ Install(t, call[t].to) /\ Quiet
      /\ UNCHANGED <<base, overrides, muddled, run>>
  BY DEF Left, modes, Quiet, loop
<1>2. call[t].to \in SUBSET Modes /\ call[t] # Idle /\ muddled' \in BOOLEAN
  BY <1>1 DEF SwitchTypes, Idle
<1>3. /\ SwitchTypes' /\ strategy' = call[t].to
      /\ \A u \in Tasks \ {t} : call'[u] = call[u]
      /\ \/ call'[t] = Idle /\ (call[t].to # {} => paused' = Suppresses(call[t].to))
         \/ call'[t] = [at |-> "entering", to |-> call[t].to]
  BY <1>1, <1>2, Installs
<1>4. Switch'
  <2>1. CASE muddled
    BY <1>1, <2>1 DEF Switch
  <2>2. CASE ~muddled
    <3>1. \A u \in Tasks \ {t} : call'[u] = Idle
      BY <1>2, <1>3, <2>2 DEF Switch, OneSwitch
    <3>2. (Target # {})' => call[t].to = Target'
      BY <1>1, <1>2, <2>2 DEF Switch, OnItsWay, Target
    <3> QED BY <1>2, <1>3, <3>1, <3>2, AloneInSwitch
  <2> QED BY <2>1, <2>2
<1>5. ModeTypes' /\ LoopTypes'
  BY <1>1 DEF ModeTypes, LoopTypes, Quiet, loop
<1>6. RecordTypes' /\ NoStrayOverride'
  BY <1>1, SameRecords DEF Quiet
<1>7. RunSwitches'
  BY <1>1, <1>2, <1>3, OtherTask DEF RunSwitches
<1> QED BY <1>3, <1>4, <1>5, <1>6, <1>7

\* on_activate returns.
LEMMA EnteredKeeps ==
  ASSUME IInv, NEW t \in Tasks, Entered(t)
  PROVE  IInv'
<1> USE InParts, FromParts
<1>1. /\ call[t].at = "entering" /\ Conclude(t, call[t].to) /\ Quiet
      /\ UNCHANGED <<base, overrides, strategy, muddled, run>>
  BY DEF Entered, modes, Quiet, loop
<1>2. call[t].to \in SUBSET Modes /\ call[t] # Idle
  BY <1>1 DEF SwitchTypes, Idle
<1>3. paused' \in BOOLEAN /\ (call[t].to # {} => paused' = Suppresses(call[t].to))
  BY <1>1, HeartbeatTyped DEF Conclude, SwitchTypes
<1>4. /\ SwitchTypes' /\ call'[t] = Idle
      /\ \A u \in Tasks \ {t} : call'[u] = call[u]
  BY <1>1, <1>3 DEF Conclude, SwitchTypes, Idle
<1>5. Switch'
  <2>1. CASE muddled
    BY <1>1, <2>1 DEF Switch
  <2>2. CASE ~muddled
    <3>1. \A u \in Tasks \ {t} : call'[u] = Idle
      BY <1>2, <1>4, <2>2 DEF Switch, OneSwitch
    <3>2. (Target # {})' => call[t].to = Target'
      BY <1>1, <1>2, <2>2 DEF Switch, OnItsWay, Target
    <3>3. strategy' = call[t].to
      BY <1>1, <2>2 DEF Switch, Entering
    <3> QED BY <1>2, <1>3, <1>4, <3>1, <3>2, <3>3, AloneInSwitch
  <2> QED BY <2>1, <2>2
<1>6. ModeTypes' /\ LoopTypes'
  BY <1>1 DEF ModeTypes, LoopTypes, Quiet, loop
<1>7. RecordTypes' /\ NoStrayOverride'
  BY <1>1, SameRecords DEF Quiet
<1>8. RunSwitches'
  BY <1>1, <1>2, <1>4, OtherTask DEF RunSwitches
<1> QED BY <1>4, <1>5, <1>6, <1>7, <1>8

-----------------------------------------------------------------------------
(* The run task                                                            *)

\* What the loop does at the end of a wait or a cycle.
LEMMA LoopGoesOn ==
  ASSUME LoopTypes, SwitchTypes, NEW halt \in BOOLEAN, run # "off", UNCHANGED ctl,
         UNCHANGED condition, trigger' \in BOOLEAN, stop' \in BOOLEAN,
         Turn(halt) \/ Executed
  PROVE  LoopTypes' /\ changed' \in BOOLEAN
<1>1. KindOf(strategy) \in {"periodic", "triggered", "hybrid"}
  BY KindTyped DEF SwitchTypes
<1>2. ASSUME GoOn PROVE LoopTypes' /\ changed' \in BOOLEAN
  BY <1>1, <1>2, FirstNext DEF GoOn, Execute, Unseen, LoopTypes
<1>3. ASSUME NEW h \in BOOLEAN, Turn(h) PROVE LoopTypes' /\ changed' \in BOOLEAN
  BY <1>2, <1>3, FirstNext DEF Turn, Unseen, LoopTypes, SwitchTypes
<1>4. ASSUME Executed PROVE LoopTypes' /\ changed' \in BOOLEAN
  BY <1>3, <1>4, FirstNext DEF Executed, Unseen, LoopTypes, SwitchTypes
<1> QED BY <1>3, <1>4

\* A step of the run task outside of a switch.
LEMMA RunMoves ==
  ASSUME IInv, Steady, LoopTypes', changed' \in BOOLEAN, call[Run] = Idle
  PROVE  IInv'
<1> USE InParts, FromParts
<1>1. ModeTypes' /\ SwitchTypes' /\ RunSwitches'
  BY DEF Steady, modes, ModeTypes, SwitchTypes, RunSwitches
<1>2. Switch'
  BY NothingSwitches DEF Steady
<1>3. RecordTypes' /\ NoStrayOverride'
  BY SameRecords DEF Steady, modes
<1> QED BY <1>1, <1>2, <1>3

\* StrategyExecutor.run but for the evaluation.
LEMMA CycleKeeps ==
  ASSUME IInv, Begin \/ Wake \/ Woken \/ Processed \/ Route \/ Routed \/ Raises
  PROVE  IInv'
<1> USE InParts, FromParts
<1>1. Steady /\ call[Run] = Idle /\ run # "off" /\ UNCHANGED <<ctl, condition>>
  <2>1. Steady /\ (run # "evaluating" \/ call[Run] = Idle) /\ run # "off"
    BY DEF Begin, Wake, Woken, Processed, Route, Routed, Raises, Evaluating
  <2> QED BY <2>1 DEF RunSwitches, Steady
<1>2. LoopTypes' /\ changed' \in BOOLEAN
  <2>1. CASE Begin
    <3>1. Turn(FALSE) /\ stop' \in BOOLEAN /\ trigger' \in BOOLEAN
      BY <2>1 DEF Begin, Turn, LoopTypes
    <3> QED BY <1>1, <3>1, LoopGoesOn
  <2>2. CASE Wake
    <3>1. Turn(stop) /\ stop' \in BOOLEAN /\ trigger' \in BOOLEAN /\ stop \in BOOLEAN
      BY <2>2 DEF Wake, LoopTypes
    <3> QED BY <1>1, <3>1, LoopGoesOn
  <2>3. CASE Woken
    <3>1. stop' \in BOOLEAN /\ trigger' \in BOOLEAN /\ stop \in BOOLEAN
      BY <2>3 DEF Woken, LoopTypes
    <3>2. CASE Turn(stop)
      BY <1>1, <3>1, <3>2, LoopGoesOn
    <3>3. CASE Execute /\ UNCHANGED <<changed, kind>>
      BY <1>1, <3>1, <3>3, EventsListed DEF Execute, LoopTypes, SwitchTypes
    <3> QED BY <2>3, <3>2, <3>3 DEF Woken
  <2>4. CASE Processed
    BY <1>1, <2>4 DEF Processed, LoopTypes, SwitchTypes
  <2>5. CASE Route
    BY <1>1, <2>5, EventsListed DEF Route, LoopTypes, SwitchTypes
  <2>6. CASE Routed \/ Raises
    <3>1. Executed /\ stop' \in BOOLEAN /\ trigger' \in BOOLEAN
      BY <2>6 DEF Routed, Raises, LoopTypes
    <3> QED BY <1>1, <3>1, LoopGoesOn
  <2> QED BY <2>1, <2>2, <2>3, <2>4, <2>5, <2>6
<1> QED BY <1>1, <1>2, RunMoves

\* on_activate or on_deactivate raises.
LEMMA HookRaisesKeeps ==
  ASSUME IInv, NEW t \in Tasks, HookRaises(t)
  PROVE  IInv'
<1> USE InParts, FromParts
<1>1. /\ call[t] # Idle /\ call' = [call EXCEPT ![t] = Idle] /\ muddled' = TRUE
      /\ (t = Run /\ Executed) \/ UNCHANGED <<run, kind, seen, next, changed>>
      /\ UNCHANGED <<base, overrides, condition, active, strategy, trigger, stop, ctl, paused>>
  BY DEF HookRaises, modes, loop
<1>2. LoopTypes' /\ changed' \in BOOLEAN
  <2>1. CASE t = Run /\ Executed
    <3>1. run = "evaluating" /\ stop' \in BOOLEAN /\ trigger' \in BOOLEAN
      BY <1>1, <2>1 DEF RunSwitches, LoopTypes
    <3> QED BY <1>1, <2>1, <3>1, LoopGoesOn
  <2>2. CASE UNCHANGED <<run, kind, seen, next, changed>>
    BY <1>1, <2>2 DEF LoopTypes, SwitchTypes
  <2> QED BY <1>1, <2>1, <2>2
<1>3. ModeTypes' /\ SwitchTypes'
  BY <1>1, <1>2 DEF ModeTypes, SwitchTypes, Idle
<1>4. Switch'
  BY <1>1 DEF Switch
<1>5. RunSwitches'
  BY <1>1 DEF RunSwitches, SwitchTypes
<1>6. RecordTypes' /\ NoStrayOverride'
  BY <1>1, SameRecords
<1> QED BY <1>2, <1>3, <1>4, <1>5, <1>6

-----------------------------------------------------------------------------
(* The evaluation of the event overrides                                   *)

\* _evaluate_event_overrides, one override at a time.
LEMMA EvaluateKeeps ==
  ASSUME IInv, Evaluate
  PROVE  IInv'
<1> USE InParts, FromParts
<1> DEFINE o == Events[next]
<1>1. /\ o \in EventModes /\ run = "evaluating" /\ call[Run] = Idle /\ Run \in Tasks
      /\ next \in 1..Len(Events) /\ next' = next + 1
      /\ UNCHANGED <<condition, trigger, stop, run, kind, seen, ctl>>
  BY EventsListed DEF Evaluate, Evaluating, Tasks
<1>2. LoopTypes'
  BY <1>1, EventsListed DEF LoopTypes
<1>3. base \in SUBSET Modes /\ o \in Modes /\ overrides \in SUBSET Modes
  BY <1>1, RegisteredModes DEF ModeTypes
<1>4. ASSUME NEW on \in BOOLEAN, active' = [active EXCEPT ![o] = [on |-> on, wait |-> NotSet]]
      PROVE  /\ RecordTypes' /\ active'[o].on = on
             /\ \A p \in EventModes \ {o} : active'[p] = active[p]
  BY <1>1, <1>4 DEF RecordTypes, Records
<1>5. CASE Raise(o)
  <2>1. SetModes(Run, base, overrides \cup {o}) /\ overrides \cup {o} \in SUBSET Modes
    BY <1>3, <1>5 DEF Raise
  <2>2. /\ SwitchTypes' /\ Switch' /\ base' = base /\ overrides' = overrides \cup {o}
        /\ \A u \in Tasks \ {Run} : call'[u] = call[u]
    BY <1>1, <1>3, <2>1, ChangesModes
  <2>3. ModeTypes'
    BY <1>1, <2>2 DEF ModeTypes
  <2>4. RecordTypes' /\ NoStrayOverride'
    BY <1>4, <1>5, <2>2 DEF Raise, NoStrayOverride
  <2>5. RunSwitches'
    BY <1>1, <2>2, OtherTask
  <2> QED BY <1>2, <2>2, <2>3, <2>4, <2>5
<1>6. CASE Lower(o)
  <2>1. SetModes(Run, base, overrides \ {o}) /\ overrides \ {o} \in SUBSET Modes
    BY <1>3, <1>6 DEF Lower
  <2>2. /\ SwitchTypes' /\ Switch' /\ base' = base /\ overrides' = overrides \ {o}
        /\ \A u \in Tasks \ {Run} : call'[u] = call[u]
    BY <1>1, <1>3, <2>1, ChangesModes
  <2>3. ModeTypes'
    BY <1>1, <2>2 DEF ModeTypes
  <2>4. RecordTypes' /\ NoStrayOverride'
    BY <1>4, <1>6, <2>2 DEF Lower, NoStrayOverride
  <2>5. RunSwitches'
    BY <1>1, <2>2, OtherTask
  <2> QED BY <1>2, <2>2, <2>3, <2>4, <2>5
<1>7. ASSUME UNCHANGED <<modes, switching>>, RecordTypes', 
             \A p \in EventModes : active'[p].on = active[p].on
      PROVE  IInv'
  <2>1. ModeTypes' /\ SwitchTypes' /\ RunSwitches'
    BY <1>1, <1>7 DEF modes, switching, ModeTypes, SwitchTypes, RunSwitches
  <2>2. Switch'
    BY <1>7, NothingSwitches DEF switching
  <2>3. NoStrayOverride'
    BY <1>7 DEF NoStrayOverride, modes
  <2> QED BY <1>2, <1>7, <2>1, <2>2, <2>3
<1>8. CASE /\ active[o].on /\ CoolingLeft(o) > 0
           /\ active' = [active EXCEPT ![o].wait = CoolingLeft(o)]
           /\ UNCHANGED <<modes, switching>>
  <2>1. CoolingLeft(o) \in 0..Cooldown[o]
    BY <1>1, EventsListed DEF CoolingLeft, RecordTypes, Records
  <2>2. RecordTypes' /\ \A p \in EventModes : active'[p].on = active[p].on
    BY <1>1, <1>8, <2>1, EventsListed DEF RecordTypes, Records
  <2> QED BY <1>7, <1>8, <2>2
<1>9. CASE UNCHANGED <<active, modes, switching>>
  BY <1>7, <1>9 DEF RecordTypes, Records
<1> QED BY <1>5, <1>6, <1>8, <1>9 DEF Evaluate

-----------------------------------------------------------------------------
(* The controller and its surroundings                                     *)

\* start, stop, trigger, conditions and time.
LEMMA SurroundingsKeep ==
  ASSUME IInv,
         Start \/ Stop \/ Stopped \/ Trigger \/ Tick \/ \E o \in EventModes : Flip(o)
  PROVE  IInv'
<1> USE InParts, FromParts
<1>1. /\ UNCHANGED <<base, overrides, strategy, call, muddled>>
      /\ UNCHANGED paused \/ paused' = FALSE
  BY DEF Start, Stop, Stopped, Trigger, Tick, Flip, modes, switching
<1>2. ModeTypes'
  BY <1>1 DEF ModeTypes
<1>3. SwitchTypes'
  BY <1>1 DEF SwitchTypes, Start, Stop, Stopped, Trigger, Tick, Flip, switching
<1>4. Switch'
  <2>1. CASE UNCHANGED paused
    BY <1>1, <2>1, NothingSwitches DEF modes
  <2>2. CASE paused' = FALSE
    BY <1>1, <2>2
       DEF Switch, OneSwitch, OnItsWay, Entering, Arrived, Pausing, Still, Target
  <2> QED BY <1>1, <2>1, <2>2
<1>5. RunSwitches'
  BY <1>1 DEF RunSwitches, LoopTypes, Start, Stop, Stopped, Trigger, Tick, Flip, loop
<1>6. LoopTypes'
  BY EventsListed DEF LoopTypes, Start, Stop, Stopped, Trigger, Tick, Flip, loop
<1>7. RecordTypes' /\ NoStrayOverride'
  <2>1. CASE UNCHANGED active
    BY <1>1, <2>1, SameRecords
  <2>2. CASE Tick
    BY <1>1, <2>2, EventsListed DEF Tick, Cooling, RecordTypes, Records, NoStrayOverride
  <2> QED BY <2>1, <2>2 DEF Start, Stop, Stopped, Trigger, Flip
<1> QED BY <1>2, <1>3, <1>4, <1>5, <1>6, <1>7

-----------------------------------------------------------------------------
(* The theorems                                                            *)

\* Every step keeps the invariant.
LEMMA NextKeeps == IInv /\ [Next]_vars => IInv'
<1> SUFFICES ASSUME IInv, [Next]_vars PROVE IInv'
  OBVIOUS
<1>1. CASE \E t \in Operators : Operate(t)
  BY <1>1, OperateKeeps
<1>2. CASE \E t \in Tasks : Left(t) \/ Entered(t) \/ HookRaises(t)
  BY <1>2, LeftKeeps, EnteredKeeps, HookRaisesKeeps
<1>3. CASE Cycle \/ Raises
  BY <1>3, CycleKeeps, EvaluateKeeps, SurroundingsKeep DEF Cycle
<1>4. CASE Start \/ Stop \/ Trigger \/ Tick \/ \E o \in EventModes : Flip(o)
  BY <1>4, SurroundingsKeep
<1>5. CASE UNCHANGED vars
  BY <1>5, SameRecords, NothingSwitches, InParts, FromParts
     DEF vars, modes, switching, loop, ModeTypes, SwitchTypes, LoopTypes, RunSwitches
<1> QED BY <1>1, <1>2, <1>3, <1>4, <1>5 DEF Next

\* The inductive invariant holds in every state: types, records of the event overrides,
\* and one switch at a time that takes the executor where the modes say, unless one met
\* another (SystemController, ModeManager, StrategyExecutor.set_strategy).
THEOREM ModesInvariance == Spec => []IInv
BY InitHolds, NextKeeps, PTL DEF Spec

\* Type correctness, for any modes, event overrides and operators.
THEOREM ModesTyped == Spec => []TypeOK
<1>1. IInv => TypeOK
  BY DEF IInv
<1> QED BY <1>1, ModesInvariance, PTL

\* The executor runs the strategy of the effective mode when no switch is under way and
\* the last one met no other, whatever operators and alarms did before.
THEOREM EffectiveModeRuns == Spec => []EffectiveRuns
<1>1. IInv => EffectiveRuns
  BY DEF IInv, Switch, Arrived, EffectiveRuns, Target
<1> QED BY <1>1, ModesInvariance, PTL

\* No pause of the heartbeat outlives its strategy, and no event override on the stack is
\* one the evaluation has forgotten (_evaluate_event_overrides, _on_strategy_change).
THEOREM NothingStrays == Spec => []NoStray
<1>1. IInv => NoStray
  BY DEF IInv, Switch, Pausing, NoStray, NoStrayPause
<1> QED BY <1>1, ModesInvariance, PTL

-----------------------------------------------------------------------------
(* Hooks that do not suspend                                               *)

\* A switch without a hook that suspends is over at once.
LEMMA PromptSwitch ==
  ASSUME Slow = {}, Still, ~muddled, NEW t \in Tasks, NEW s, SetStrategy(t, s)
  PROVE  Still' /\ ~muddled'
<1>1. Conclude(t, s) /\ ~muddled'
  BY DEF SetStrategy, Install, Still
<1> QED BY <1>1 DEF Conclude, Still

\* When no hook suspends (those of IslandModeStrategy and LoadSheddingStrategy do, the
\* library's others do not), no switch meets another one, and the strategy of an alarm is in
\* charge as soon as its override is on top: no operator's switch takes its place.
THEOREM AlarmsTakeCharge == Slow = {} => (Spec => []EventWins)
<1> SUFFICES ASSUME Slow = {} PROVE Spec => []EventWins
  OBVIOUS
<1>1. Init => Still /\ ~muddled
  BY DEF Init, Still
<1>2. IInv /\ Still /\ ~muddled /\ [Next]_vars => Still' /\ ~muddled'
  <2> SUFFICES ASSUME IInv, Still, ~muddled, [Next]_vars PROVE Still' /\ ~muddled'
    OBVIOUS
  <2>1. ASSUME NEW t \in Tasks, NEW b, NEW o, SetModes(t, b, o) PROVE Still' /\ ~muddled'
    BY <2>1, PromptSwitch DEF SetModes, Still, switching
  <2>2. CASE \E t \in Operators : Operate(t)
    BY <2>1, <2>2
       DEF Operate, SetBase, AddBase, RemoveBase, PushOverride, PopOverride,
           ClearOverrides, Tasks
  <2>3. CASE Evaluate
    BY <2>1, <2>3 DEF Evaluate, Raise, Lower, Tasks, Still, switching
  <2>4. CASE UNCHANGED <<call, muddled>>
    BY <2>4 DEF Still
  <2>5. ~ \E t \in Tasks : Left(t) \/ Entered(t) \/ HookRaises(t)
    BY DEF Still, Left, Entered, HookRaises, Idle
  <2> QED
    BY <2>2, <2>3, <2>4, <2>5
       DEF Next, Cycle, Begin, Wake, Woken, Processed, Route, Routed, Stopped, Raises,
           Start, Stop, Trigger, Tick, Flip, Steady, switching, vars
<1>3. IInv /\ Still /\ ~muddled => EventWins
  BY DEF IInv, Switch, Arrived, Target, Effective, EventWins, Top
<1> QED BY <1>1, <1>2, <1>3, ModesInvariance, PTL DEF Spec
=============================================================================
