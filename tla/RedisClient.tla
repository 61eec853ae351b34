----------------------------- MODULE RedisClient -----------------------------
(***************************************************************************)
(* RedisClient of csp_lib/redis/client.py, which the tasks of a process    *)
(* share: connect makes a handle of redis-py (one server, or the master a  *)
(* sentinel names) and pings; disconnect closes it; every command goes to  *)
(* the handle there is, and a pipeline or a subscription keeps the one it  *)
(* was made from.  redis-py opens a connection when a command needs one,   *)
(* even on a handle that was closed.  A hash holds JSON or plain text.     *)
(***************************************************************************)
EXTENDS Integers, FiniteSets

CONSTANTS
    Callers,             \* the tasks
    SentinelMode,        \* is_sentinel_mode
    Texts, Numbers,      \* what is written to a field of a hash
    Json,                \* the JSON of each number, a text
    MaxCalls, MaxTroubles   \* bounds

VARIABLES
    client,      \* _client: a handle; None
    sentinel,    \* _sentinel is set
    made,        \* handles made so far
    linked,      \* handles with an open connection
    up,          \* Redis answers
    field,       \* the field as Redis has it; Absent
    call,        \* task -> the call it awaits: [op, handle, value]
    borrowed,    \* task -> the handle of its pipeline; None
    read, meant, tangled, calls, troubles   \* history

clientVars == <<client, sentinel, made, linked, up, field, call, borrowed, read, meant, tangled, calls, troubles>>

None == 0
Absent == [text |-> "absent"]
Idle == [op |-> "idle", handle |-> None, value |-> Absent]
JsonTexts == {Json[n] : n \in Numbers}
Busy == {t \in Callers : call[t] # Idle}
Text(s) == [text |-> s]
Number(n) == [number |-> n]
Writes == {Text(s) : s \in Texts} \cup {Number(n) : n \in Numbers}

ClientTypes ==
    /\ client \in 0..made /\ linked \subseteq 1..made
    /\ sentinel => SentinelMode /\ client # None
    /\ \A t \in Callers : call[t].op \in {"idle", "ping", "close", "hset", "hgetall", "hdel", "command"}
    /\ calls \in 0..MaxCalls /\ troubles \in 0..MaxTroubles

Init ==
    /\ client = None /\ sentinel = FALSE /\ made = 0 /\ linked = {}
    /\ up = TRUE /\ field = Absent
    /\ call = [t \in Callers |-> Idle] /\ borrowed = [t \in Callers |-> None]
    /\ read = [was |-> Absent, got |-> Absent] /\ meant = Absent
    /\ tangled = FALSE
    /\ calls = 0 /\ troubles = 0

Call(t) == call[t] = Idle /\ calls < MaxCalls /\ calls' = calls + 1
Awaits(t, op, h, v) == call' = [call EXCEPT ![t] = [op |-> op, handle |-> h, value |-> v]]

\* Mutant: a client that has not answered a ping yet is made anew.
Answered == client # None /\ \A t \in Callers : call[t].op # "ping"
Connected == client # None

\* The handle is there before the ping, and stays when the ping fails.
Connect(t) ==
    /\ Call(t) /\ ~Connected
    /\ made' = made + 1
    /\ client' = made' /\ sentinel' = SentinelMode
    /\ Awaits(t, "ping", made', Absent)
    /\ tangled' = (tangled \/ \E u \in Busy : call[u].op = "close")
    /\ UNCHANGED <<linked, up, field, borrowed, read, meant, troubles>>

\* aclose is awaited; the handle stays until it is done.
Disconnect(t) ==
    /\ Call(t) /\ Connected
    /\ Awaits(t, "close", client, Absent)
    /\ tangled' = (tangled \/ Busy # {} \/ \E u \in Callers : borrowed[u] # None)
    /\ UNCHANGED <<client, sentinel, made, linked, up, field, borrowed, read, meant, troubles>>
Disconnected(t) ==
    /\ call[t].op = "close"
    /\ linked' = linked \ {call[t].handle}
    /\ client' = None /\ sentinel' = FALSE
    /\ call' = [call EXCEPT ![t] = Idle]
    /\ UNCHANGED <<made, up, field, borrowed, read, meant, tangled, calls, troubles>>

\* A value that is no text is stored as JSON; without a client all raise.
Hset(t) ==
    /\ Call(t) /\ Connected
    /\ \E v \in Writes : Awaits(t, "hset", client, v)
    /\ tangled' = (tangled \/ \E u \in Busy : call[u].op = "close")
    /\ UNCHANGED <<client, sentinel, made, linked, up, field, borrowed, read, meant, troubles>>
Operate(t, op) ==
    /\ Call(t) /\ Connected
    /\ Awaits(t, op, client, Absent)
    /\ tangled' = (tangled \/ \E u \in Busy : call[u].op = "close")
    /\ UNCHANGED <<client, sentinel, made, linked, up, field, borrowed, read, meant, troubles>>
Command(t) == Operate(t, "command")
Pipeline(t) ==
    /\ Call(t) /\ Connected /\ borrowed[t] = None
    /\ borrowed' = [borrowed EXCEPT ![t] = client]
    /\ tangled' = (tangled \/ \E u \in Busy : call[u].op = "close")
    /\ UNCHANGED <<client, sentinel, made, linked, up, field, call, read, meant, troubles>>
Execute(t) ==
    /\ call[t] = Idle /\ borrowed[t] # None
    /\ Awaits(t, "command", borrowed[t], Absent)
    /\ borrowed' = [borrowed EXCEPT ![t] = None]
    /\ UNCHANGED <<client, sentinel, made, linked, up, field, read, meant, tangled, calls, troubles>>

Encode(v) == IF "number" \in DOMAIN v THEN Text(Json[v.number]) ELSE v
\* Mutant: what hgetall reads is not parsed.
Unparsed(v) == v
Decode(v) == IF v.text \in JsonTexts THEN Number(CHOOSE n \in Numbers : Json[n] = v.text) ELSE v

\* The server has carried the command out and the answer is there.
Answer(t) ==
    /\ up /\ call[t].op \in {"ping", "hset", "hgetall", "hdel", "command"}
    /\ linked' = linked \cup {call[t].handle}
    /\ LET op == call[t].op IN
         /\ field' = CASE op = "hset" -> Encode(call[t].value) [] op = "hdel" -> Absent [] OTHER -> field
         /\ meant' = CASE op = "hset" -> call[t].value [] op = "hdel" -> Absent [] OTHER -> meant
         /\ read' = IF op = "hgetall" THEN [was |-> meant, got |-> Decode(field)] ELSE read
    /\ call' = [call EXCEPT ![t] = Idle]
    /\ UNCHANGED <<client, sentinel, made, up, borrowed, tangled, calls, troubles>>

\* Redis is away: the command raises, and its connection is gone.
Fail(t) ==
    /\ ~up /\ call[t].op \in {"ping", "hset", "hgetall", "hdel", "command"}
    /\ linked' = linked \ {call[t].handle}
    /\ call' = [call EXCEPT ![t] = Idle]
    /\ UNCHANGED <<client, sentinel, made, up, field, borrowed, read, meant, tangled, calls, troubles>>
GoOrCome ==
    /\ up => troubles < MaxTroubles
    /\ troubles' = IF up THEN troubles + 1 ELSE troubles
    /\ up' = ~up
    /\ UNCHANGED <<client, sentinel, made, linked, field, call, borrowed, read, meant, tangled, calls>>

Next ==
    \/ GoOrCome
    \/ \E t \in Callers :
        \/ Connect(t) \/ Disconnect(t) \/ Disconnected(t) \/ Hset(t)
        \/ \E op \in {"hgetall", "hdel"} : Operate(t, op)
        \/ Command(t) \/ Pipeline(t) \/ Execute(t) \/ Answer(t) \/ Fail(t)

Spec == Init /\ [][Next]_clientVars
-----------------------------------------------------------------------------
\* However many tasks connect, there is one handle, and no connection but its
\* own, unless a disconnect ran while another call was in progress or a
\* pipeline was outstanding.
OneConnection == tangled \/ linked \subseteq {client}

\* What hgetall reads is what was written last, but for text that looks like
\* JSON, which comes back as what it looks like.
HashTrue ==
    \/ read.got = read.was
    \/ "text" \in DOMAIN read.was /\ read.was.text \in JsonTexts
=============================================================================
