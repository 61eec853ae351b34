------------------------------- MODULE LogLevels -------------------------------
(***************************************************************************)
(* The log levels of csp_lib/core/logging: LogFilter holds a level for     *)
(* some modules, SinkManager lets a remote source set them, at once when   *)
(* it is attached, by the messages a listener receives, and by polling.    *)
(* RedisLogLevelSource keeps the levels in a hash and announces changes on *)
(* a channel.  External: who changes the hash, and Redis.                  *)
(***************************************************************************)
EXTENDS Integers, Sequences, SequencesExt, FiniteSets, FiniteSetsExt

CONSTANTS
    Modules,       \* sequence of module paths, each a sequence of names; <<>> is the default
    Levels, Broken,          \* valid level numbers; levels no validation accepts
    MaxListeners, MaxChanges, MaxTroubles      \* bounds

VARIABLES
    levels,       \* _default_level and _module_levels
    remote,       \* the hash
    attaching,    \* attach_remote_source: "no", "fetching", "applying", "subscribing"
    answer,       \* what its fetch was answered
    polling,      \* _poll_remote: "off", "asleep", "fetching"
    fetched,      \* what its fetch was answered
    listeners,    \* listener tasks: [alive, queue]
    changes, troubles,
    polled, touched   \* history: has a poll applied the present hash, and no listener ended since; modules set locally since

levelVars == <<levels, remote, attaching, answer, polling, fetched, listeners, changes, troubles, polled, touched>>
manager == <<attaching, answer, polling, fetched>>
bounds == <<changes, troubles>>

Paths == ToSet(Modules)
NoLevel == -1

\* Levels are the numbers loguru ranks them by, the default one the lowest here.
ASSUME LevelsAssumption ==
    /\ Modules \in Seq(Seq(STRING)) /\ <<>> \in Paths
    /\ Levels \subseteq Nat /\ 0 \in Levels
    /\ Levels \cap Broken = {} /\ NoLevel \notin Broken
    /\ MaxListeners \in Nat /\ MaxChanges \in Nat /\ MaxTroubles \in Nat

Unknown == [m \in Paths |-> NoLevel]
Silent == [alive |-> TRUE, queue |-> <<>>]

LevelTypes ==
    /\ \A m \in Paths : levels[m] \in Levels \cup {NoLevel}
    /\ levels[<<>>] \in Levels
    /\ attaching \in {"no", "fetching", "applying", "subscribing"}
    /\ polling \in {"off", "asleep", "fetching"}
    /\ Len(listeners) <= MaxListeners
    /\ changes \in 0..MaxChanges /\ troubles \in 0..MaxTroubles

LevelsInit ==
    /\ levels = [m \in Paths |-> IF m = <<>> THEN 0 ELSE NoLevel]
    /\ remote = Unknown
    /\ attaching = "no" /\ answer = Unknown
    /\ polling = "off" /\ fetched = Unknown
    /\ listeners = <<>>
    /\ changes = 0 /\ troubles = 0
    /\ polled = FALSE /\ touched = {}

Change == changes < MaxChanges /\ changes' = changes + 1 /\ UNCHANGED troubles
Trouble == troubles < MaxTroubles /\ troubles' = troubles + 1 /\ UNCHANGED changes

-----------------------------------------------------------------------------
\* LogFilter.

\* The level of the closest registered module above.
Effective(m) ==
    LET above == {a \in Paths : IsPrefix(a, m) /\ levels[a] # NoLevel} IN
    levels[CHOOSE a \in above : \A b \in above : Len(b) <= Len(a)]
Passes(m, number) == number >= Effective(m)

SetLevel(m, l) ==
    /\ Change
    /\ levels' = [levels EXCEPT ![m] = l]
    /\ touched' = touched \cup {m}
    /\ UNCHANGED <<remote, manager, listeners, polled>>
RemoveLevel(m) ==
    /\ Change /\ m # <<>>
    /\ levels' = [levels EXCEPT ![m] = NoLevel]
    /\ touched' = touched \cup {m}
    /\ UNCHANGED <<remote, manager, listeners, polled>>

-----------------------------------------------------------------------------
\* The hash and its channel.

RemoteSet(m, l) ==
    /\ Change
    /\ remote' = [remote EXCEPT ![m] = l]
    /\ listeners' = [i \in DOMAIN listeners |->
                       IF listeners[i].alive
                       THEN [listeners[i] EXCEPT !.queue = Append(@, [module |-> m, level |-> l])]
                       ELSE listeners[i]]
    /\ polled' = FALSE
    /\ UNCHANGED <<levels, manager, touched>>
RemoteDelete(m) ==
    /\ Change /\ remote[m] # NoLevel
    /\ remote' = [remote EXCEPT ![m] = NoLevel]
    /\ UNCHANGED <<levels, manager, listeners, polled, touched>>

\* A level that is not valid raises: a listener ends, a fetch is applied up to it.
Listen(i) ==
    /\ listeners[i].alive /\ listeners[i].queue # <<>>
    /\ LET word == Head(listeners[i].queue) IN
         /\ levels' = IF word.level \in Broken THEN levels ELSE [levels EXCEPT ![word.module] = word.level]
         /\ listeners' = [listeners EXCEPT ![i] =
                            IF word.level \in Broken THEN [alive |-> FALSE, queue |-> <<>>]
                            ELSE [listeners[i] EXCEPT !.queue = Tail(@)]]
         /\ polled' = (polled /\ word.level \notin Broken)
    /\ UNCHANGED <<remote, manager, bounds, touched>>

Reached(new) ==
    LET bad == {i \in DOMAIN Modules : new[Modules[i]] \in Broken} IN
    {Modules[i] : i \in {j \in DOMAIN Modules : new[Modules[j]] # NoLevel /\ \A b \in bad : j < b}}
Raises(new) == \E m \in Paths : new[m] \in Broken
\* Mutant: levels that are set already are kept.
OnlyNew(new) == [m \in Paths |-> IF m \in Reached(new) /\ levels[m] = NoLevel THEN new[m] ELSE levels[m]]
Applied(new) == [m \in Paths |-> IF m \in Reached(new) THEN new[m] ELSE levels[m]]

-----------------------------------------------------------------------------
\* Attaching: the poll of an earlier source is cancelled, its listener is not.

Attach ==
    /\ Change /\ attaching = "no"
    /\ polling' = "off" /\ fetched' = Unknown
    /\ attaching' = "fetching"
    /\ UNCHANGED <<levels, remote, answer, listeners, polled, touched>>
AttachAnswered ==
    /\ attaching = "fetching"
    /\ answer' = remote
    /\ attaching' = "applying"
    /\ UNCHANGED <<levels, remote, polling, fetched, listeners, bounds, polled, touched>>
AttachApply ==
    /\ attaching = "applying"
    /\ levels' = Applied(answer)
    /\ attaching' = IF Raises(answer) THEN "no" ELSE "subscribing"
    /\ answer' = Unknown
    /\ UNCHANGED <<remote, polling, fetched, listeners, bounds, polled, touched>>
Subscribe ==
    /\ attaching = "subscribing" /\ Len(listeners) < MaxListeners
    /\ listeners' = Append(listeners, Silent)
    /\ polling' = "asleep"
    /\ attaching' = "no"
    /\ UNCHANGED <<levels, remote, answer, fetched, bounds, polled, touched>>
AttachFails ==
    /\ Trouble /\ attaching \in {"fetching", "subscribing"}
    /\ attaching' = "no"
    /\ UNCHANGED <<levels, remote, answer, polling, fetched, listeners, polled, touched>>

Detach ==
    /\ Change /\ polling # "off" /\ attaching = "no"
    /\ polling' = "off" /\ fetched' = Unknown
    /\ UNCHANGED <<levels, remote, attaching, answer, listeners, polled, touched>>

\* close of the source stops the listener it started last.
CloseSource ==
    /\ Change /\ listeners # <<>>
    /\ listeners' = Front(listeners)
    /\ polled' = (polled /\ Last(listeners).queue = <<>>)
    /\ UNCHANGED <<levels, remote, manager, touched>>

-----------------------------------------------------------------------------
\* Polling.

PollAnswered ==
    /\ polling = "asleep"
    /\ fetched' = remote
    /\ polling' = "fetching"
    /\ UNCHANGED <<levels, remote, attaching, answer, listeners, bounds, polled, touched>>
PollApply ==
    /\ polling = "fetching"
    /\ levels' = Applied(fetched)
    /\ polled' = (fetched = remote /\ ~Raises(fetched))
    /\ touched' = IF Raises(fetched) THEN touched ELSE {}
    /\ polling' = "asleep" /\ fetched' = Unknown
    /\ UNCHANGED <<remote, attaching, answer, listeners, bounds>>
PollFails ==
    /\ Trouble /\ polling = "asleep"
    /\ UNCHANGED <<levels, remote, manager, listeners, polled, touched>>

LevelsNext ==
    \/ \E m \in Paths : \/ RemoveLevel(m) \/ RemoteDelete(m)
                        \/ \E l \in Levels : SetLevel(m, l)
                        \/ \E l \in Levels \cup Broken : RemoteSet(m, l)
    \/ \E i \in DOMAIN listeners : Listen(i)
    \/ Attach \/ AttachAnswered \/ AttachApply \/ Subscribe \/ AttachFails \/ Detach \/ CloseSource
    \/ PollAnswered \/ PollApply \/ PollFails

\* The poll sleeps between rounds, it does not end; a listener reads on.
LevelsFairness == WF_levelVars(PollAnswered) /\ WF_levelVars(PollApply)
            /\ \A i \in 1..MaxListeners : WF_levelVars(i \in DOMAIN listeners /\ Listen(i))
LevelsSpec == LevelsInit /\ [][LevelsNext]_levelVars /\ LevelsFairness
-----------------------------------------------------------------------------
\* The filter lets the records through that the remote level does.
Agree ==
    \A m \in Paths : remote[m] # NoLevel =>
        \A number \in Levels : Passes(m, number) <=> number >= remote[m]
Quiet == \A i \in DOMAIN listeners : listeners[i].queue = <<>>

\* Once a poll has applied the hash as it is and every announced change has
\* been heard, the levels are the remote ones, but for those set locally
\* since; messages and polls may cross as they like.
LevelsFollow == polled /\ Quiet /\ touched = {} /\ ~Raises(remote) => Agree

\* While a source stays attached, every level the hash ends up with is taken.
LevelsArrive == <>[](polling # "off" /\ ~Raises(remote)) => <>[]Agree
=============================================================================
