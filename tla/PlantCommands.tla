----------------------------- MODULE PlantCommands -----------------------------
(***************************************************************************)
(* Commands to the devices of a plant, in two ways.                        *)
(*                                                                         *)
(* Those from outside (csp_lib/manager/command): on every node a task      *)
(* (RedisCommandAdapter) takes the messages of a channel one by one, and   *)
(* WriteCommandManager.execute carries a write out: a record is made in    *)
(* the repository, the write is validated, announced, sent to the device   *)
(* and its result recorded, then published.  Actions go to the device      *)
(* without a record and without asking who leads.  A message reaches every *)
(* node that listens, and who sent it may send it again.  External: the    *)
(* repository of MongoDB, where command_id is unique, the device, Redis,   *)
(* and who leads; a call that raises may have taken effect.                *)
(*                                                                         *)
(* And SystemCommandOrchestrator (csp_lib/integration/orchestrator.py): a  *)
(* system command is a list of steps, each an action of the devices of a   *)
(* trait, or named one by one, with a check that may follow.  Executions   *)
(* of the same command may overlap, the devices come and go in the         *)
(* registry, and a device answers an action in any way.                    *)
(***************************************************************************)
EXTENDS Naturals, Sequences, FiniteSets

CONSTANTS
    Nodes,
    WriteCommands, \* write commands, by command_id
    Actions,       \* action commands
    Invalid,       \* the writes a validation rule refuses
    MaxSent,       \* bound: how many messages are sent
    CommandFaults  \* what may fail, of "repository", "device", "redis", "crash", "cancel"

CONSTANTS
    PlantDevices,
    Capable,      \* devices with an execute_action
    CommandSteps, \* [trait |-> BOOLEAN, devices |-> SUBSET PlantDevices, check |-> BOOLEAN]
    Executions,   \* calls of execute
    Polls,        \* how often a check looks before its timeout
    MaxChanges    \* bound: registrations and removals

\* A command is a WriteCommand or an ActionCommand; what a step names are devices.  (Of a
\* system command without steps there is nothing to say: it succeeds.)
ASSUME CommandsAssumption ==
    /\ WriteCommands \cap Actions = {} /\ MaxSent \in Nat
    /\ CommandSteps \in Seq([trait : BOOLEAN, devices : SUBSET PlantDevices, check : BOOLEAN])
    /\ CommandSteps # <<>>

VARIABLES
    sent,          \* how many messages were sent
    inbox,         \* messages each node has not looked at
    task,          \* where the task of each node is, and with which command
    leaders,       \* the nodes that hold themselves for the leader
    journal,       \* CommandStatus of each write in the repository
    taken,         \* how often the device took each write, capped at 2
    heard          \* the results published for each write

executionVars == <<sent, inbox, task, leaders, journal, taken, heard>>

VARIABLES
    known,        \* the devices in the registry
    execution,    \* what each execute is doing
    performed,    \* devices that have carried out the action of each step, last
    sound,        \* devices that pass a check
    totals,       \* _total_executions, _total_aborts, _last_result_status
    changes,
    told          \* history: the answers each execution had

systemCommandVars == <<known, execution, performed, sound, totals, changes, told>>

-----------------------------------------------------------------------------
(* WriteCommands and actions from outside                                         *)

Commands == WriteCommands \cup Actions
Terminal == {"success", "failed", "device_not_found", "validation_failed"}
Statuses == {"none", "pending", "executing"} \cup Terminal

\* A task is off; reads the channel; awaits the repository (to make the record, to
\* announce the write, to record how it ended), the device, or Redis.
Doing(p, c, s) == [at |-> p, command |-> c, result |-> s]
Off == [at |-> "off"]
Reading == [at |-> "reading"]
Busy(n) == task[n].at \notin {"off", "reading"}

ExecutionTypes ==
    /\ sent \in 0..MaxSent
    /\ inbox \in [Nodes -> Seq(Commands)]
    /\ \A n \in Nodes :
         \/ task[n] \in {Off, Reading}
         \/ task[n] \in [at : {"creating", "announcing", "writing", "recording", "publishing"},
                         command : Commands, result : Terminal \cup {"none"}]
    /\ leaders \subseteq Nodes
    /\ journal \in [WriteCommands -> Statuses]
    /\ taken \in [WriteCommands -> 0..2]
    /\ heard \in [WriteCommands -> SUBSET Terminal]

ExecutionInit ==
    /\ sent = 0
    /\ inbox = [n \in Nodes |-> <<>>]
    /\ task = [n \in Nodes |-> Off]
    /\ leaders = {}
    /\ journal = [c \in WriteCommands |-> "none"]
    /\ taken = [c \in WriteCommands |-> 0]
    /\ heard = [c \in WriteCommands |-> {}]

To(n, p) == task' = [task EXCEPT ![n] = p]
Outside == <<sent, inbox, leaders>>

-----------------------------------------------------------------------------
(* Around the task                                                         *)

\* A message goes to those who listen.
Send(c) ==
    /\ sent < MaxSent
    /\ sent' = sent + 1
    /\ inbox' = [n \in Nodes |->
                   IF task[n].at = "off" THEN inbox[n] ELSE Append(inbox[n], c)]
    /\ UNCHANGED <<task, leaders, journal, taken, heard>>

Listen(n) ==
    /\ task[n] = Off
    /\ To(n, Reading)
    /\ UNCHANGED <<Outside, journal, taken, heard>>

Lead(n) ==
    /\ leaders' \in {leaders \cup {n}, leaders \ {n}} \ {leaders}
    /\ UNCHANGED <<sent, inbox, task, journal, taken, heard>>

\* The device takes c, who sent it hears of s.  (Of actions nothing is kept.)
TakenBy(c) ==
    taken' = [d \in WriteCommands |-> IF d = c /\ taken[d] < 2 THEN taken[d] + 1 ELSE taken[d]]
HeardOf(c, s) ==
    heard' = [d \in WriteCommands |-> IF d = c THEN heard[d] \cup {s} ELSE heard[d]]

\* What the call under way may have done although its answer is not waited for.
Landed(n) ==
    LET c == task[n].command
    IN  \/ UNCHANGED <<journal, taken, heard>>
        \/ /\ task[n].at = "creating" /\ journal[c] = "none"
           /\ journal' = [journal EXCEPT ![c] = "pending"]
           /\ UNCHANGED <<taken, heard>>
        \/ /\ task[n].at = "announcing"
           /\ journal' = [journal EXCEPT ![c] = "executing"]
           /\ UNCHANGED <<taken, heard>>
        \/ /\ task[n].at = "writing" /\ TakenBy(c)
           /\ UNCHANGED <<journal, heard>>
        \/ /\ task[n].at = "recording"
           /\ journal' = [journal EXCEPT ![c] = task[n].result]
           /\ UNCHANGED <<taken, heard>>
        \/ /\ task[n].at = "publishing" /\ HeardOf(c, task[n].result)
           /\ UNCHANGED <<journal, taken>>

\* The process dies, or stop cancels the task; either loses the messages that wait.
BreaksOff(n) ==
    /\ CommandFaults \cap {"crash", "cancel"} # {}
    /\ task[n] # Off
    /\ IF Busy(n) THEN Landed(n) ELSE UNCHANGED <<journal, taken, heard>>
    /\ To(n, Off)
    /\ inbox' = [inbox EXCEPT ![n] = <<>>]
    /\ UNCHANGED <<sent, leaders>>

-----------------------------------------------------------------------------
(* _handle_message                                                         *)

\* A write is for the leader; who is not, raises, and nothing is published.
Take(n) ==
    /\ task[n] = Reading /\ inbox[n] # <<>>
    /\ inbox' = [inbox EXCEPT ![n] = Tail(@)]
    /\ LET c == Head(inbox[n])
       IN  CASE c \in Actions -> To(n, Doing("writing", c, "none"))
             [] c \in WriteCommands /\ n \in leaders -> To(n, Doing("creating", c, "none"))
             [] OTHER -> UNCHANGED task
    /\ UNCHANGED <<sent, leaders, journal, taken, heard>>

\* Mutant: a command_id that is there already is taken for the record just made.
AnyRecord(c) == TRUE

\* The repository refuses a command_id it has (ensure_indexes).
New(c) == journal[c] = "none"

\* The record is made.  The device may not be registered, a rule may refuse the value.
Created(n) ==
    /\ task[n].at = "creating"
    /\ LET c == task[n].command
       IN  IF New(c)
           THEN /\ journal' = [journal EXCEPT ![c] = "pending"]
                /\ \/ To(n, Doing("recording", c, "device_not_found"))
                   \/ To(n, IF c \in Invalid THEN Doing("recording", c, "validation_failed")
                                             ELSE Doing("announcing", c, "none"))
           ELSE To(n, Reading) /\ UNCHANGED journal
    /\ UNCHANGED <<Outside, taken, heard>>

Announced(n) ==
    /\ task[n].at = "announcing"
    /\ journal' = [journal EXCEPT ![task[n].command] = "executing"]
    /\ To(n, [task[n] EXCEPT !.at = "writing"])
    /\ UNCHANGED <<Outside, taken, heard>>

\* The end of a write has to be recorded, that of an action is published at once.
AfterWrite(n, s) ==
    To(n, Doing(IF task[n].command \in Actions THEN "publishing" ELSE "recording",
             task[n].command, s))

\* Mutant: a write the device did not confirm counts as done.
Hopeful == "success"

\* A device that refuses, is not reached or does not read back what was written.
Unconfirmed == "failed"

Written(n) ==
    /\ task[n].at = "writing"
    /\ \/ TakenBy(task[n].command) /\ AfterWrite(n, "success")
       \/ /\ "device" \in CommandFaults
          /\ TakenBy(task[n].command) \/ UNCHANGED taken
          /\ AfterWrite(n, Unconfirmed)
    /\ UNCHANGED <<Outside, journal, heard>>

ResultRecorded(n) ==
    /\ task[n].at = "recording"
    /\ journal' = [journal EXCEPT ![task[n].command] = task[n].result]
    /\ To(n, [task[n] EXCEPT !.at = "publishing"])
    /\ UNCHANGED <<Outside, taken, heard>>

Published(n) ==
    /\ task[n].at = "publishing"
    /\ HeardOf(task[n].command, task[n].result)
    /\ To(n, Reading)
    /\ UNCHANGED <<Outside, journal, taken>>

\* The repository or Redis raises: _handle_message gives the message up.
GivesUp(n) ==
    /\ \/ /\ task[n].at \in {"creating", "announcing", "recording"}
          /\ "repository" \in CommandFaults
       \/ task[n].at = "publishing" /\ "redis" \in CommandFaults
    /\ Landed(n)
    /\ To(n, Reading)
    /\ UNCHANGED Outside

-----------------------------------------------------------------------------
ExecutionNext ==
    \/ \E c \in Commands : Send(c)
    \/ \E n \in Nodes :
         \/ Listen(n) \/ Lead(n) \/ BreaksOff(n) \/ Take(n) \/ Created(n) \/ Announced(n)
         \/ Written(n) \/ ResultRecorded(n) \/ Published(n) \/ GivesUp(n)

-----------------------------------------------------------------------------
(* System commands                                                         *)

Answers == {"success", "refused", "raised", "cancelled"}

Execution(at, step) == [at |-> at, step |-> step, waits |-> {}, bad |-> FALSE, looks |-> 0]

SystemCommandTypes ==
    /\ known \subseteq PlantDevices /\ sound \subseteq PlantDevices
    /\ \A e \in Executions :
         /\ execution[e].at \in {"idle", "delay", "acting", "checking", "success", "aborted"}
         /\ execution[e].step \in DOMAIN CommandSteps
         /\ execution[e].waits \subseteq PlantDevices
         /\ execution[e].looks \in 0..Polls
    /\ performed \in [PlantDevices -> 0..Len(CommandSteps)]
    /\ totals.executions = Cardinality({e \in Executions :
                                          execution[e].at \in {"success", "aborted"}})
    /\ totals.aborts = Cardinality({e \in Executions : execution[e].at = "aborted"})
    /\ changes \in 0..MaxChanges
    /\ told \in [Executions ->
                    [DOMAIN CommandSteps -> [PlantDevices -> Answers \cup {"none"}]]]

SystemInit ==
    /\ known = PlantDevices /\ sound = PlantDevices
    /\ execution = [e \in Executions |-> Execution("idle", 1)]
    /\ performed = [d \in PlantDevices |-> 0]
    /\ totals = [executions |-> 0, aborts |-> 0, last |-> "none"]
    /\ changes = 0
    /\ told = [e \in Executions |-> [i \in DOMAIN CommandSteps |-> [d \in PlantDevices |-> "none"]]]

-----------------------------------------------------------------------------
\* _resolve_devices: those named are left out when the registry does not have them.
Resolved(step) == IF step.trait THEN known ELSE step.devices \cap known

\* _record_result, whose state health reports.
Record(status) ==
    totals' = [executions |-> totals.executions + 1,
               aborts |-> totals.aborts + (IF status = "aborted" THEN 1 ELSE 0),
               last |-> status]

\* execute has the result of a step: it aborts, goes on, or is through.
After(e, ok) ==
    LET x == execution[e]
        at == IF ~ok THEN "aborted"
              ELSE IF x.step = Len(CommandSteps) THEN "success" ELSE "delay"
    IN  /\ execution' = [execution EXCEPT ![e] =
                Execution(at, IF at = "delay" THEN x.step + 1 ELSE x.step)]
        /\ IF at = "delay" THEN UNCHANGED totals ELSE Record(at)

Execute(e) ==
    /\ execution[e].at = "idle"
    /\ execution' = [execution EXCEPT ![e] = Execution("delay", 1)]
    /\ UNCHANGED <<known, performed, sound, totals, changes, told>>

\* After the delay the step's devices are looked up and told at once; none is a failure,
\* one without actions is passed over.
Tell(e) ==
    /\ execution[e].at = "delay"
    /\ LET x == execution[e]
           devices == Resolved(CommandSteps[x.step])
       IN  IF devices = {} THEN After(e, FALSE)
           ELSE /\ execution' = [execution EXCEPT ![e] =
                                    [x EXCEPT !.at = "acting", !.waits = devices \cap Capable]]
                /\ UNCHANGED totals
    /\ UNCHANGED <<known, performed, sound, changes, told>>

\* A device answers: it has carried the action out, refuses, or raises; an action that
\* was cancelled is an answer that is no Exception, and counts as none that failed.
Answer(e, d, a) ==
    LET x == execution[e]
    IN  /\ x.at = "acting" /\ d \in x.waits
        /\ execution' = [execution EXCEPT ![e] =
                [x EXCEPT !.waits = @ \ {d}, !.bad = @ \/ a \in {"refused", "raised"}]]
        /\ performed' = IF a = "success" THEN [performed EXCEPT ![d] = x.step] ELSE performed
        /\ told' = [told EXCEPT ![e][x.step][d] = a]
        /\ UNCHANGED <<known, sound, totals, changes>>

\* Mutant: only what is raised fails a step.
OnlyRaised(e) == \E d \in PlantDevices : told[e][execution[e].step][d] = "raised"

\* Any answer that is an exception, or has another status than success, fails the step.
Failed(e) == execution[e].bad

\* gather returns.
Gathered(e) ==
    LET x == execution[e]
    IN  /\ x.at = "acting" /\ x.waits = {}
        /\ IF Failed(e) THEN After(e, FALSE)
           ELSE IF CommandSteps[x.step].check
           THEN /\ execution' = [execution EXCEPT ![e] =
                        [x EXCEPT !.at = "checking", !.waits = Resolved(CommandSteps[x.step])]]
                /\ UNCHANGED totals
           ELSE After(e, TRUE)
        /\ UNCHANGED <<known, performed, sound, changes, told>>

\* _run_check looks at the devices it has found at first until all pass, and once more
\* after the timeout; nothing to look at passes.
Passed(e) == execution[e].waits \subseteq sound

Look(e) ==
    LET x == execution[e]
    IN  /\ x.at = "checking"
        /\ IF Passed(e) THEN After(e, TRUE)
           ELSE IF x.looks = Polls THEN After(e, FALSE)
           ELSE /\ execution' = [execution EXCEPT ![e] = [x EXCEPT !.looks = @ + 1]]
                /\ UNCHANGED totals
        /\ UNCHANGED <<known, performed, sound, changes, told>>

\* External: devices are unregistered and registered, or lose and regain their health.
ComeOrGo(d) ==
    /\ changes < MaxChanges /\ changes' = changes + 1
    /\ known' = IF d \in known THEN known \ {d} ELSE known \cup {d}
    /\ UNCHANGED <<execution, performed, sound, totals, told>>

Turn(d) ==
    /\ sound' = IF d \in sound THEN sound \ {d} ELSE sound \cup {d}
    /\ UNCHANGED <<known, execution, performed, totals, changes, told>>

SystemNext ==
    \/ \E e \in Executions :
         \/ Execute(e) \/ Tell(e) \/ Gathered(e) \/ Look(e)
         \/ \E d \in PlantDevices, a \in Answers : Answer(e, d, a)
    \/ \E d \in PlantDevices : ComeOrGo(d) \/ Turn(d)

ExecutionSpec == ExecutionInit /\ [][ExecutionNext]_executionVars
SystemSpec == SystemInit /\ [][SystemNext]_systemCommandVars

-----------------------------------------------------------------------------
(* Properties                                                              *)

\* The journal of writes can be relied upon, however often a command is sent, on
\* however many nodes that take themselves for the leader, and wherever they crash:
JournalTruthful ==
    \A c \in WriteCommands :
      \* the device takes a write once at most;
      /\ taken[c] <= 1
      \* not before the record announces it, and never one that was refused;
      /\ taken[c] = 1 => journal[c] \in {"executing", "success", "failed"}
      \* a success was one;
      /\ journal[c] = "success" => taken[c] = 1
      \* and what was published is what is recorded.
      /\ heard[c] \subseteq {journal[c]}

\* A step is taken up only when every answer to the steps before it was a success, and a
\* system command that reports success had no other answer at all; what an aborted one
\* began is left as it is.  An action that was cancelled passes for a success.
StepsInTurn ==
    \A e \in Executions, i \in DOMAIN CommandSteps, d \in PlantDevices :
        /\ told[e][i][d] \in {"refused", "raised"} =>
               /\ execution[e].step = i
               /\ execution[e].at \notin {"success", "checking"}
        /\ told[e][i][d] # "none" /\ i > 1 =>
               \E x \in PlantDevices :
                   x \notin Capable \/ told[e][i - 1][x] \in {"success", "cancelled"}
=============================================================================
