----------------------------- MODULE LoadShedding -----------------------------
(***************************************************************************)
(* LoadSheddingStrategy of csp_lib/controller/strategies/load_shedding.py. *)
(* execute decides in every cycle which stages are shed, with a minimum    *)
(* holding time and a delay before they are restored; a task of its own    *)
(* carries the decisions out on the circuits of a stage, one after another *)
(* (_action_loop); on_deactivate cancels that task and restores what is    *)
(* shed.  The executor may call execute while on_deactivate awaits.        *)
(*                                                                         *)
(* Circuits are external: shedding and restoring one fails or succeeds.    *)
(* Time passes in ticks; the restore delay and the holding time are counts *)
(* of them, and a stage's condition is one value with two thresholds.      *)
(***************************************************************************)
EXTENDS Naturals, SequencesExt, FiniteSetsExt

CONSTANTS
    Stages,         \* by priority, 1 first
    CircuitsOf,     \* the circuits of each stage, a sequence
    ShedBelow, RestoreAbove,   \* the thresholds of each stage
    Levels,         \* values of the context that are compared with them
    MaxPending,     \* bound: decisions waiting when a cycle makes new ones
    MinHold,        \* min_hold_seconds
    RestoreDelay,   \* restore_delay
    MayFail         \* of "circuit"

VARIABLES
    strategy,    \* "off", "on", or restoring: on_deactivate is in _restore_all
    shed,        \* state.is_shed of each stage
    held,        \* ticks since shed_at, up to MinHold
    asked,       \* ticks since restore_requested_at, up to RestoreDelay; or None
    pending,     \* _pending_actions
    acting,      \* what the action loop has still to do, circuit by circuit
    leaving,     \* the circuits _restore_all has still to look at
    open,        \* is_shed of each circuit
    calm,        \* history: ticks since a cycle that did not ask to restore the stage
    wrong        \* history: the circuits whose last step failed, or was to restore them
                 \* and was dropped with the action loop

sheddingVars == <<strategy, shed, held, asked, pending, acting, leaving, open, calm, wrong>>

None == RestoreDelay + 1

Circuits == UNION {Range(CircuitsOf[s]) : s \in Stages}
Action(s, do) == [stage |-> s, do |-> do]
Step(c, do) == [circuit |-> c, do |-> do]

SheddingTypes ==
    /\ strategy \in {"off", "on", "restoring"}
    /\ shed \in [Stages -> BOOLEAN]
    /\ held \in [Stages -> 0..MinHold]
    /\ asked \in [Stages -> 0..None]
    /\ \A s \in Stages : ~shed[s] => asked[s] = None
    /\ \A i \in DOMAIN pending : pending[i].stage \in Stages
    /\ Range(acting) \subseteq [circuit : Circuits, do : {"shed", "restore"}]
    /\ Range(leaving) \subseteq Circuits
    /\ strategy # "on" => acting = <<>>
    /\ open \in [Circuits -> BOOLEAN] /\ wrong \subseteq Circuits
    /\ calm \in [Stages -> 0..RestoreDelay]

Init ==
    /\ strategy = "off"
    /\ shed = [s \in Stages |-> FALSE]
    /\ held = [s \in Stages |-> 0]
    /\ asked = [s \in Stages |-> None]
    /\ pending = <<>> /\ acting = <<>> /\ leaving = <<>>
    /\ open = [c \in Circuits |-> FALSE]
    /\ calm = [s \in Stages |-> 0]
    /\ wrong = {}

-----------------------------------------------------------------------------
(* execute                                                                 *)

ShouldShed(s, level) == level < ShedBelow[s]
ShouldRestore(s, level) == level > RestoreAbove[s]

\* Mutant: a request to restore survives a cycle without the condition.
KeptRequest(s) == asked[s]

\* The request to restore of a stage whose condition has gone again.
Withdrawn(s) == None

\* The stages this cycle sheds, and those it restores: not before the holding time is
\* over, and a restore delay after the first cycle that asked for it.  A stage that
\* is shed in the cycle does not ask to be restored in it, as its thresholds exclude
\* each other.
ToShed(level) == {s \in Stages : ~shed[s] /\ ShouldShed(s, level)}
ToAsk(level) ==
    {s \in Stages : shed[s] /\ ShouldRestore(s, level) /\ held[s] >= MinHold}
ToRestore(level) == {s \in ToAsk(level) : asked[s] # None /\ asked[s] >= RestoreDelay}

InOrder(ss) == SetToSortSeq(ss, <)

\* A cycle of the executor, which still has the strategy while it is deactivated.
Execute(level) ==
    LET down == ToShed(level)
        up == ToRestore(level)
    IN  /\ strategy # "off" /\ Len(pending) <= MaxPending
        /\ shed' = [s \in Stages |-> (shed[s] \/ s \in down) /\ s \notin up]
        /\ held' = [s \in Stages |-> IF s \in down THEN 0 ELSE held[s]]
        /\ asked' = [s \in Stages |->
             CASE s \in down \cup up -> None
               [] s \in ToAsk(level) \ up -> IF asked[s] = None THEN 0 ELSE asked[s]
               [] shed[s] /\ ~ShouldRestore(s, level) -> Withdrawn(s)
               [] OTHER -> asked[s]]
        /\ pending' = pending
             \o [i \in 1..Cardinality(down) |-> Action(InOrder(down)[i], "shed")]
             \o [i \in 1..Cardinality(up) |-> Action(Reverse(InOrder(up))[i], "restore")]
        /\ calm' = [s \in Stages |-> IF ShouldRestore(s, level) THEN calm[s] ELSE 0]
        /\ UNCHANGED <<strategy, acting, leaving, open, wrong>>

Tick ==
    /\ strategy # "off"
    /\ held' = [s \in Stages |-> Min({held[s] + 1, MinHold})]
    /\ asked' = [s \in Stages |->
         IF asked[s] = None THEN None ELSE Min({asked[s] + 1, RestoreDelay})]
    /\ calm' = [s \in Stages |-> Min({calm[s] + 1, RestoreDelay})]
    /\ UNCHANGED <<strategy, shed, pending, acting, leaving, open, wrong>>

-----------------------------------------------------------------------------
(* The action loop                                                         *)

\* The circuits of the decisions, in their order.
Steps(actions) ==
    FoldLeft(LAMBDA q, a : q \o [i \in DOMAIN CircuitsOf[a.stage] |->
                                   Step(CircuitsOf[a.stage][i], a.do)],
             <<>>, actions)

\* It takes all decisions that wait.
TakeActions ==
    /\ strategy = "on" /\ acting = <<>> /\ pending # <<>>
    /\ acting' = Steps(pending)
    /\ pending' = <<>>
    /\ UNCHANGED <<strategy, shed, held, asked, leaving, open, calm, wrong>>

\* What a circuit is after the step, which may have failed.
Obeyed(c, state) ==
    \/ open' = [open EXCEPT ![c] = state] /\ wrong' = wrong \ {c}
    \/ "circuit" \in MayFail /\ UNCHANGED open /\ wrong' = wrong \cup {c}

Act ==
    /\ acting # <<>>
    /\ Obeyed(Head(acting).circuit, Head(acting).do = "shed")
    /\ acting' = Tail(acting)
    /\ UNCHANGED <<strategy, shed, held, asked, pending, leaving, calm>>

-----------------------------------------------------------------------------
(* on_activate and on_deactivate                                           *)

Activate ==
    /\ strategy = "off"
    /\ strategy' = "on"
    /\ UNCHANGED <<shed, held, asked, pending, acting, leaving, open, calm, wrong>>

\* Mutant: _restore_all goes through the circuits of the stages that are not shed.
Others == {s \in Stages : ~shed[s]}

\* _restore_all goes through the circuits of the stages that are shed, the last stage
\* first.
ShedStages == {s \in Stages : shed[s]}

\* The circuits that were to be restored.
Forgotten ==
    {c \in Circuits : \/ Contains(acting, Step(c, "restore"))
                     \/ \E s \in Stages : /\ c \in Range(CircuitsOf[s])
                                          /\ Contains(pending, Action(s, "restore"))}

\* The action loop is cancelled, in the middle of a step or between them, and what it
\* had to do is forgotten.
Deactivate ==
    /\ strategy = "on"
    /\ strategy' = "restoring"
    /\ \/ UNCHANGED open
       \/ acting # <<>> /\ open' = [open EXCEPT ![Head(acting).circuit] =
                                      (Head(acting).do = "shed")]
    /\ wrong' = wrong \cup Forgotten
    /\ acting' = <<>>
    /\ leaving' = FoldLeft(LAMBDA q, s : q \o CircuitsOf[s], <<>>,
                           Reverse(InOrder(ShedStages)))
    /\ UNCHANGED <<shed, held, asked, pending, calm>>

\* The next circuit, if it is shed, is restored.
RestoreNext ==
    /\ leaving # <<>>
    /\ LET c == Head(leaving)
       IN  IF open[c] THEN Obeyed(c, FALSE) ELSE UNCHANGED <<open, wrong>>
    /\ leaving' = Tail(leaving)
    /\ UNCHANGED <<strategy, shed, held, asked, pending, acting, calm>>

\* All states and decisions are cleared.
Deactivated ==
    /\ strategy = "restoring" /\ leaving = <<>>
    /\ strategy' = "off"
    /\ shed' = [s \in Stages |-> FALSE]
    /\ held' = [s \in Stages |-> 0]
    /\ asked' = [s \in Stages |-> None]
    /\ pending' = <<>>
    /\ UNCHANGED <<acting, leaving, open, calm, wrong>>

-----------------------------------------------------------------------------
Next ==
    \/ \E level \in Levels : Execute(level)
    \/ Tick \/ TakeActions \/ Act
    \/ Activate \/ Deactivate \/ RestoreNext \/ Deactivated

Spec == Init /\ [][Next]_sheddingVars

-----------------------------------------------------------------------------
(* Properties                                                              *)

\* The circuits follow the stages.
CircuitsFollow ==
    \A s \in Stages, c \in Circuits :
      c \in Range(CircuitsOf[s]) \ wrong =>
        \* When the action loop has carried everything out, those of a stage that is
        \* shed are shed, and the others are not;
        /\ strategy = "on" /\ pending = <<>> /\ acting = <<>> => (open[c] <=> shed[s])
        \* and none is left shed by a strategy that is not active any more
        \* ("停用時是否自動恢復所有已卸載負載"), except where the restoring had been
        \* decided and was dropped with the action loop: its stage is not shed any more.
        /\ strategy = "off" => ~open[c]

\* A stage is restored only after the holding time, and after the restore delay
\* without a cycle that did not ask for it.
Settled ==
    [][\A s \in Stages : shed[s] /\ ~shed'[s] /\ strategy' # "off"
         => held[s] >= MinHold /\ calm[s] >= RestoreDelay]_sheddingVars
=============================================================================
