--------------------------- MODULE ScheduleService ---------------------------
(***************************************************************************)
(* The schedule of a site (csp_lib/manager/schedule): a task polls the     *)
(* repository for the rules that match the clock, and has the system       *)
(* controller run the strategy of the first of them as a base mode of its  *)
(* own, "__schedule__".  It remembers a key of the rule it has activated   *)
(* and does nothing while the key stays the same.                          *)
(*                                                                         *)
(* Each switch awaits hooks of strategies, one suspension per call: the    *)
(* other base modes and the executor are in ModeControl.  The repository   *)
(* and the hooks may raise, which ends the poll; operators change the base *)
(* modes and the rules at any time.  A poll that is left out (another node *)
(* is the leader) is a step that is not taken.                             *)
(***************************************************************************)
EXTENDS Naturals, SequencesExt

CONSTANTS
    Versions,    \* the rules operators save; a rule replaces the one of its name
    NoRule,
    Built,       \* strategy types whose dependencies the factory was given
    Hours,       \* the length of a day
    Week,        \* the length of a week
    LastDay,     \* bounds of the instance: the days run from 0 to LastDay,
    MaxEdits,    \* and rules are saved MaxEdits times
    MayFail      \* what may raise, of "repository", "hook"

VARIABLES
    day, hour,   \* the clock
    rules,       \* the repository's rules of the site, in the order they came
    edits,       \* how often rules were saved
    poll,        \* where the task is, the time it looked at, the rule it installs
    stopping,    \* _stop_event
    key,         \* _current_rule_key
    mode,        \* the rule whose strategy the schedule mode has; NoRule: not registered
    inBase,      \* the schedule mode is a base mode
    due,         \* history: the rule due at the last poll that came to an end
    strayed       \* history: an operator changed the base modes, or a switch raised

scheduleVars ==
    <<day, hour, rules, edits, poll, stopping, key, mode, inBase, due, strayed>>
clock == <<day, hour>>

NoKey == [name |-> "", type |-> "", priority |-> 0, config |-> ""]

\* The task: none; waiting for the next poll; in the repository; in a hook of an update
\* of the mode (of the old strategy, of the new one), or of a change of the base modes.
At(p) == [at |-> p, day |-> 0, hour |-> 0, rule |-> NoRule]
Switching == {"leaving", "entering", "adding", "removing"}

ScheduleTypes ==
    /\ day \in 0..LastDay /\ hour \in 0..(Hours - 1)
    /\ Range(rules) \subseteq Versions /\ edits \in 0..MaxEdits
    /\ \A i, j \in DOMAIN rules : rules[i].name = rules[j].name => i = j
    /\ poll.at \in {"off", "waiting", "finding"} \cup Switching
    /\ poll.rule # NoRule <=> poll.at \in {"leaving", "entering", "adding"}
    /\ stopping \in BOOLEAN /\ inBase \in BOOLEAN /\ strayed \in BOOLEAN
    /\ mode \in Versions \cup {NoRule} /\ due \in Versions \cup {NoRule}
    /\ inBase => mode # NoRule

Init ==
    /\ day = 0 /\ hour = 0
    /\ rules = <<>> /\ edits = 0
    /\ poll = At("off") /\ stopping = FALSE
    /\ key = NoKey /\ mode = NoRule /\ inBase = FALSE
    /\ due = NoRule /\ strayed = FALSE

-----------------------------------------------------------------------------
(* Which rule is due                                                       *)

\* Mutant: a window that crosses midnight is taken for one within the day.
MatchesTimeToday(r, h) == r.start <= h /\ h <= r.end

\* matches_time
MatchesTime(r, h) ==
    IF r.start <= r.end THEN r.start <= h /\ h <= r.end
    ELSE h >= r.start \/ h <= r.end

\* matches_schedule
MatchesSchedule(r, d) ==
    CASE r.type = "daily"  -> TRUE
      [] r.type = "weekly" -> (d % Week) \in r.days
      [] r.type = "once"   -> r.first <= d /\ d <= r.last

\* find_active_rules, sorted by falling priority; the sort is stable.
Active(d, h) ==
    LET ok == SelectSeq(rules, LAMBDA r : /\ r.enabled /\ MatchesTime(r, h)
                                          /\ MatchesSchedule(r, d))
        order == SetToSortSeq(DOMAIN ok, LAMBDA i, j :
                   \/ ok[i].priority > ok[j].priority
                   \/ ok[i].priority = ok[j].priority /\ i < j)
    IN  [n \in DOMAIN order |-> ok[order[n]]]

\* _make_rule_key
RuleKey(r) ==
    [name |-> r.name, type |-> r.type, priority |-> r.priority, config |-> r.config]

\* The same by another way, for the property: a window reaches from its start as far
\* as its end is away, around the clock, and no rule comes before the one due.
Ahead(from, to) == (to + Hours - from) % Hours
DueAt(d, h) ==
    LET ok == {i \in DOMAIN rules : /\ rules[i].enabled
                                    /\ Ahead(rules[i].start, h)
                                         <= Ahead(rules[i].start, rules[i].end)
                                    /\ MatchesSchedule(rules[i], d)}
        Beats(i, j) == \/ rules[i].priority > rules[j].priority
                       \/ rules[i].priority = rules[j].priority /\ i <= j
    IN  IF ok = {} THEN NoRule ELSE rules[CHOOSE i \in ok : \A j \in ok : Beats(i, j)]

-----------------------------------------------------------------------------
(* The poll                                                                *)

Start ==
    /\ poll.at = "off"
    /\ poll' = At("waiting")
    /\ stopping' = FALSE
    /\ UNCHANGED <<clock, rules, edits, key, mode, inBase, due, strayed>>

\* stop awaits the task, which looks at the event between polls.
Stop ==
    /\ poll.at # "off" /\ ~stopping
    /\ stopping' = TRUE
    /\ UNCHANGED <<clock, rules, edits, poll, key, mode, inBase, due, strayed>>

Stopped ==
    /\ poll.at = "waiting" /\ stopping
    /\ poll' = At("off")
    /\ UNCHANGED <<clock, rules, edits, stopping, key, mode, inBase, due, strayed>>

\* It looks at the clock and asks the repository.
Poll ==
    /\ poll.at = "waiting" /\ ~stopping
    /\ poll' = [At("finding") EXCEPT !.day = day, !.hour = hour]
    /\ UNCHANGED <<clock, rules, edits, stopping, key, mode, inBase, due, strayed>>

\* deactivate_schedule_mode takes the mode off the base, if it is there, and awaits
\* the hooks of the change.
Deactivate ==
    /\ inBase' = FALSE
    /\ strayed' = FALSE
    /\ IF inBase THEN poll' = At("removing") /\ UNCHANGED key
                 ELSE poll' = At("waiting") /\ key' = NoKey
    /\ UNCHANGED mode

\* activate_schedule_mode: the first rule registers the mode, later ones give it
\* another strategy; a mode in use awaits the hook of the old strategy first.
Activate(r) ==
    /\ strayed' = FALSE
    /\ UNCHANGED key
    /\ IF inBase
       THEN poll' = [At("leaving") EXCEPT !.rule = r] /\ UNCHANGED <<mode, inBase>>
       ELSE /\ poll' = [At("adding") EXCEPT !.rule = r]
            /\ mode' = r /\ inBase' = TRUE

\* The repository has answered: _reconcile_work compares keys.
Found ==
    LET found == Active(poll.day, poll.hour)
    IN  /\ poll.at = "finding"
        /\ due' = DueAt(poll.day, poll.hour)
        /\ CASE found = <<>> /\ key # NoKey -> Deactivate
             [] found # <<>> /\ RuleKey(Head(found)) # key /\ Head(found).strategy \in Built
                  -> Activate(Head(found))
             [] OTHER -> poll' = At("waiting") /\ UNCHANGED <<key, mode, inBase, strayed>>
        /\ UNCHANGED <<clock, rules, edits, stopping>>

\* A base mode is added once; meanwhile an operator may have added or dropped it.
BackInBase == poll.at = "entering" /\ ~inBase

\* Mutant: the key is kept when the schedule is left.
KeyAfterKept == IF poll.at = "removing" THEN key ELSE RuleKey(poll.rule)

\* The key once the switch is complete.
KeyAfter == IF poll.at = "removing" THEN NoKey ELSE RuleKey(poll.rule)

\* The hooks have returned.
HooksReturn ==
    /\ poll.at \in Switching
    /\ IF poll.at = "leaving"
       THEN poll' = [poll EXCEPT !.at = "entering"] /\ mode' = poll.rule
            /\ UNCHANGED <<key, inBase>>
       ELSE /\ UNCHANGED mode
            /\ inBase' = (inBase \/ BackInBase)
            /\ IF BackInBase THEN poll' = [poll EXCEPT !.at = "adding"] /\ UNCHANGED key
                             ELSE poll' = At("waiting") /\ key' = KeyAfter
    /\ UNCHANGED <<clock, rules, edits, stopping, due, strayed>>

\* The repository or a hook raises: the poll ends where it is.
Raises ==
    /\ \/ poll.at = "finding" /\ "repository" \in MayFail /\ UNCHANGED strayed
       \/ poll.at \in Switching /\ "hook" \in MayFail /\ strayed' = TRUE
    /\ poll' = At("waiting")
    /\ UNCHANGED <<clock, rules, edits, stopping, key, mode, inBase, due>>

-----------------------------------------------------------------------------
(* Operators and the clock                                                 *)

\* set_base_mode, remove_base_mode: the schedule's mode is one of them.
OperatorTakesOff ==
    /\ inBase
    /\ inBase' = FALSE /\ strayed' = TRUE
    /\ UNCHANGED <<clock, rules, edits, poll, stopping, key, mode, due>>

\* upsert
Save(r) ==
    /\ edits < MaxEdits
    /\ edits' = edits + 1
    /\ LET same == {i \in DOMAIN rules : rules[i].name = r.name}
       IN  rules' = IF same = {} THEN Append(rules, r)
                    ELSE [i \in DOMAIN rules |-> IF i \in same THEN r ELSE rules[i]]
    /\ UNCHANGED <<clock, poll, stopping, key, mode, inBase, due, strayed>>

Tick ==
    /\ hour' = (hour + 1) % Hours
    /\ day' = IF hour' = 0 THEN day + 1 ELSE day
    /\ day' <= LastDay
    /\ UNCHANGED <<rules, edits, poll, stopping, key, mode, inBase, due, strayed>>

-----------------------------------------------------------------------------
Next ==
    \/ Start \/ Stop \/ Stopped \/ Poll \/ Found \/ HooksReturn \/ Raises
    \/ OperatorTakesOff \/ Tick
    \/ \E r \in Versions : Save(r)

Spec == Init /\ [][Next]_scheduleVars

-----------------------------------------------------------------------------
(* Properties                                                              *)

\* Between polls the schedule mode runs exactly while a rule is remembered, with the
\* strategy made of that rule, and the rule is the one that was due at the last poll
\* (as far as the key tells: the strategy's type is not part of it), unless an
\* operator took the mode off the base or a switch raised half-way, from which the
\* service recovers with the next change of the rule only.
ScheduleFollows ==
    poll.at \in {"off", "waiting"} /\ ~strayed =>
      /\ inBase <=> key # NoKey
      /\ inBase => RuleKey(mode) = key
      /\ IF due = NoRule THEN key = NoKey
         ELSE due.strategy \in Built => key = RuleKey(due)
=============================================================================
