---------------------------- MODULE Plant_proofs ----------------------------
(***************************************************************************)
(* SharedClient, CommandRouting, Device and PlantCommands, the field side. *)
(*                                                                         *)
(* Shared connections are held, for any clients, endpoints and instances,  *)
(* when every client has one task at most that connects and disconnects    *)
(* it.  (With two, both pass the check of _resources_acquired: the second  *)
(* connect counts the client again and the second disconnect takes away    *)
(* the count of another one.)                                              *)
(*                                                                         *)
(* A client that is not counted any more has a claim to its endpoint all   *)
(* the same while the release of its failed connect is still to come.  The *)
(* count covers all claims; so the user with whom a release closes the     *)
(* connection is the only one with a claim, and nobody else uses or        *)
(* connects what is closed.                                                *)
(*                                                                         *)
(* Commands persist, for any devices, points and mappings: the desired     *)
(* state of a point is its last command, whatever the reconcilers write    *)
(* between the commands.  What carries this is that every copy of the      *)
(* desired state they have taken, listed or already issued, is of the last *)
(* command too, unless that came after the copy; the order in which the    *)
(* writes of the tasks are carried out is arbitrary.                       *)
(*                                                                         *)
(* The records of a device agree with it, for any readers and thresholds:  *)
(* an event that is still emitted is of the present state, and no second   *)
(* task emits one about the same record meanwhile; so the last call of an  *)
(* event leaves the record right.                                          *)
(*                                                                         *)
(* The journal of the writes is truthful, for any nodes and leaders: since *)
(* a command_id is unique in the repository, one task at most is between   *)
(* the record of a write and its result, and what it does next is settled  *)
(* by the record.  A system command goes on only after a step whose every  *)
(* answer passes: it has noted each other one, with the answer.            *)
(***************************************************************************)
EXTENDS SharedClient, CommandRouting, Device, PlantCommands, FiniteSetTheorems,
        SequenceTheorems, WellFoundedInduction, TLAPS

\* What the theorems suppose of those who call.
OneTaskEach ==
    /\ IsFiniteSet(Clients)
    /\ \A s, t \in Callers : ClientOf[s] = ClientOf[t] => s = t

\* The release of client c's failed connect is still to come, or is going on.
Leaving(c) == \E t \in Callers : ClientOf[t] = c /\ pc[t] \in {"failing", "abandoning"}

Claims(e) == {c \in Clients : EndpointOf[c] = e /\ (acquired[c] \/ Leaving(c))}

\* No instance is registered twice.
Distinct ==
    \A d, e \in Endpoints : entry[d] = entry[e] /\ entry[d] # Vacant => d = e

Covered == \A e \in Endpoints : Cardinality(Claims(e)) <= refs[e]

\* How the parts of a task and its client go together.
Coherent(t) ==
    /\ pc[t] \in {"connecting", "releasing", "stopping"} => acquired[ClientOf[t]]
    /\ pc[t] \in {"acquiring", "failing", "abandoning"} => ~acquired[ClientOf[t]]
    /\ up[ClientOf[t]] => pc[t] = "idle"
    /\ mine[t] = IF pc[t] = "connecting" THEN entry[Place(t)] ELSE Vacant
    /\ pc[t] \in {"stopping", "abandoning"} <=> lock = t
    /\ lock = t => refs[Place(t)] <= 1

\* A client that has connected is counted, and its queue runs.
Served(c) == up[c] => acquired[c] /\ queue[entry[EndpointOf[c]]] = "running"

IInv ==
    /\ TypeOK
    /\ Distinct
    /\ Covered
    /\ \A t \in Callers : Coherent(t)
    /\ \A c \in Clients : Served(c)
    /\ NoOrphan

\* Task t has a claim for its client.
Claiming(t) == acquired[ClientOf[t]] \/ pc[t] \in {"failing", "abandoning"}

\* A step of task t touches neither other tasks nor their clients.
Moves(t) ==
    /\ \A s \in Callers \ {t} : pc'[s] = pc[s] /\ mine'[s] = mine[s]
    /\ \A c \in Clients \ {ClientOf[t]} : acquired'[c] = acquired[c] /\ up'[c] = up[c]

-----------------------------------------------------------------------------
(* Counting                                                                *)

LEMMA Counting ==
  ASSUME IsFiniteSet(Clients)
  PROVE  /\ \A S \in SUBSET Clients : Cardinality(S) \in Nat
         /\ \A S, T \in SUBSET Clients : S \subseteq T => Cardinality(S) <= Cardinality(T)
         /\ \A S \in SUBSET Clients, c \in Clients :
               Cardinality(S \cup {c}) <= Cardinality(S) + 1
         /\ \A S \in SUBSET Clients, c \in Clients :
               c \in S => Cardinality(S \ {c}) = Cardinality(S) - 1
         /\ \A S \in SUBSET Clients, c \in Clients : c \in S => Cardinality(S) >= 1
         /\ \A S \in SUBSET Clients, c, d \in Clients :
               c \in S /\ d \in S /\ Cardinality(S) <= 1 => c = d
<1>1. \A S \in SUBSET Clients : IsFiniteSet(S) /\ Cardinality(S) \in Nat
  BY FS_Subset, FS_CardinalityType
<1>2. \A S, T \in SUBSET Clients : S \subseteq T => Cardinality(S) <= Cardinality(T)
  BY <1>1, FS_Subset
<1>3. \A S \in SUBSET Clients, c \in Clients :
        /\ Cardinality(S \cup {c}) <= Cardinality(S) + 1
        /\ c \in S => Cardinality(S \ {c}) = Cardinality(S) - 1
  <2> SUFFICES ASSUME NEW S \in SUBSET Clients, NEW c \in Clients
               PROVE  /\ Cardinality(S \cup {c}) <= Cardinality(S) + 1
                      /\ c \in S => Cardinality(S \ {c}) = Cardinality(S) - 1
    OBVIOUS
  <2>1. c \in S => Cardinality(S \cup {c}) = Cardinality(S)
    <3>1. c \in S => S \cup {c} = S
      OBVIOUS
    <3> QED
      BY <3>1
  <2>2. c \notin S => Cardinality(S \cup {c}) = Cardinality(S) + 1
    BY <1>1, FS_AddElement
  <2>3. c \in S => Cardinality(S \ {c}) = Cardinality(S) - 1
    BY <1>1, FS_RemoveElement
  <2>4. Cardinality(S) \in Nat
    BY <1>1
  <2> QED
    BY <2>1, <2>2, <2>3, <2>4
<1>4. \A S \in SUBSET Clients, c \in Clients : c \in S => Cardinality(S) >= 1
  <2> SUFFICES ASSUME NEW S \in SUBSET Clients, NEW c \in Clients, c \in S
               PROVE  Cardinality(S) >= 1
    OBVIOUS
  <2>1. Cardinality(S \ {c}) = Cardinality(S) - 1 /\ S \ {c} \in SUBSET Clients
    BY <1>3
  <2> QED
    BY <1>1, <2>1
<1>5. \A S \in SUBSET Clients, c, d \in Clients :
        c \in S /\ d \in S /\ Cardinality(S) <= 1 => c = d
  <2> SUFFICES ASSUME NEW S \in SUBSET Clients, NEW c \in Clients, NEW d \in Clients,
                      c \in S, d \in S, Cardinality(S) <= 1, c # d
               PROVE  FALSE
    OBVIOUS
  <2>1. Cardinality(S \ {c}) = Cardinality(S) - 1 /\ S \ {c} \in SUBSET Clients
    BY <1>3
  <2>2. Cardinality(S \ {c}) >= 1
    BY <1>4, <2>1
  <2> QED
    BY <1>1, <2>1, <2>2
<1> QED
  BY <1>1, <1>2, <1>3, <1>4, <1>5

\* An endpoint with a claim to it is counted and registered.
LEMMA ClaimsCounted ==
  ASSUME TypeOK, Covered, OneTaskEach, NEW c \in Clients, acquired[c] \/ Leaving(c)
  PROVE  refs[EndpointOf[c]] >= 1 /\ entry[EndpointOf[c]] \in Instances
<1> DEFINE e == EndpointOf[c]
<1>1. e \in Endpoints /\ c \in Claims(e) /\ Claims(e) \in SUBSET Clients
  BY SharedAssumption DEF SharedAssumption, Claims
<1>2. Cardinality(Claims(e)) >= 1 /\ Cardinality(Claims(e)) \in Nat
  BY <1>1, Counting DEF OneTaskEach
<1>3. refs[e] \in Nat /\ Cardinality(Claims(e)) <= refs[e]
  BY <1>1 DEF Covered, TypeOK
<1>4. refs[e] >= 1
  BY <1>2, <1>3
<1>5. entry[e] \in Instances \cup {Vacant} /\ (refs[e] = 0 <=> entry[e] = Vacant)
  BY <1>1 DEF TypeOK
<1> QED
  BY <1>3, <1>4, <1>5

\* The last user of an endpoint is the only one with a claim to it.
LEMMA Alone ==
  ASSUME TypeOK, Covered, OneTaskEach, NEW c \in Clients, NEW d \in Clients,
         acquired[c] \/ Leaving(c), acquired[d] \/ Leaving(d),
         EndpointOf[c] = EndpointOf[d], refs[EndpointOf[c]] <= 1
  PROVE  c = d
<1> DEFINE e == EndpointOf[c]
<1>1. /\ e \in Endpoints /\ c \in Claims(e) /\ d \in Claims(e)
      /\ Claims(e) \in SUBSET Clients
  BY SharedAssumption DEF SharedAssumption, Claims
<1>2. Cardinality(Claims(e)) \in Nat
  BY <1>1, Counting DEF OneTaskEach
<1>3. refs[e] \in Nat /\ Cardinality(Claims(e)) <= refs[e]
  BY <1>1 DEF Covered, TypeOK
<1>4. Cardinality(Claims(e)) <= 1
  BY <1>2, <1>3
<1> QED
  BY <1>1, <1>4, Counting DEF OneTaskEach

\* The claims after a step of one task.
LEMMA ClaimsMove ==
  ASSUME OneTaskEach, NEW t \in Callers, Moves(t)
  PROVE  \A e \in Endpoints :
           Claims(e)' = (Claims(e) \ {ClientOf[t]})
                        \cup {c \in {ClientOf[t]} : EndpointOf[c] = e /\ Claiming(t)'}
<1>1. ClientOf[t] \in Clients /\ \A s \in Callers : ClientOf[s] \in Clients
  BY SharedAssumption DEF SharedAssumption
<1>2. ASSUME NEW c \in Clients, c # ClientOf[t]
      PROVE  (acquired[c] \/ Leaving(c))' <=> (acquired[c] \/ Leaving(c))
  BY <1>2 DEF Moves, Leaving
<1>3. (acquired[ClientOf[t]] \/ Leaving(ClientOf[t]))' <=> Claiming(t)'
  BY <1>1 DEF OneTaskEach, Leaving, Claiming
<1> QED
  BY <1>1, <1>2, <1>3 DEF Claims

\* The count covers the claims when it follows them at the endpoint of the task
\* that takes a step.
LEMMA CoveredStep ==
  ASSUME TypeOK, TypeOK', Covered, OneTaskEach, NEW t \in Callers, Moves(t),
         \A e \in Endpoints \ {Place(t)} : refs'[e] = refs[e],
         \/ refs'[Place(t)] >= refs[Place(t)] /\ (Claiming(t)' => Claiming(t))
         \/ refs'[Place(t)] = refs[Place(t)] + 1
         \/ refs'[Place(t)] = refs[Place(t)] - 1 /\ Claiming(t) /\ ~Claiming(t)'
         \/ refs[Place(t)] <= 1 /\ Claiming(t) /\ ~Claiming(t)'
  PROVE  Covered'
<1> SUFFICES ASSUME NEW e \in Endpoints
             PROVE  Cardinality(Claims(e)') <= refs'[e]
  BY DEF Covered
<1> DEFINE c == ClientOf[t]  S == Claims(e)  T == Claims(e)'
<1>1. /\ c \in Clients /\ Place(t) = EndpointOf[c] /\ Place(t) \in Endpoints
      /\ S \in SUBSET Clients
  BY SharedAssumption DEF SharedAssumption, Place, Claims
<1>2. T = (S \ {c}) \cup {d \in {c} : EndpointOf[d] = e /\ Claiming(t)'}
  BY ClaimsMove
<1>3. T \in SUBSET Clients
  BY <1>1, <1>2
<1>4. c \in S <=> EndpointOf[c] = e /\ Claiming(t)
  BY <1>1 DEF Claims, Claiming, Leaving, OneTaskEach
<1>5. refs[e] \in Nat /\ refs'[e] \in Nat /\ Cardinality(S) <= refs[e]
  BY DEF TypeOK, Covered
<1>6. Cardinality(S) \in Nat /\ Cardinality(T) \in Nat
  BY <1>1, <1>3, Counting DEF OneTaskEach
<1> HIDE DEF S, T, c
<1>7. CASE refs'[e] >= refs[e] /\ T \subseteq S
  <2>1. Cardinality(T) <= Cardinality(S)
    BY <1>1, <1>3, <1>7, Counting DEF OneTaskEach
  <2> QED
    BY <1>5, <1>6, <1>7, <2>1 DEF T
<1>8. CASE refs'[e] = refs[e] + 1
  <2>1. Cardinality(S \cup {c}) <= Cardinality(S) + 1 /\ Cardinality(S \cup {c}) \in Nat
    BY <1>1, Counting DEF OneTaskEach
  <2>2. Cardinality(T) <= Cardinality(S \cup {c})
    BY <1>1, <1>2, <1>3, Counting DEF OneTaskEach
  <2> QED
    BY <1>5, <1>6, <1>8, <2>1, <2>2 DEF T
<1>9. CASE e = Place(t) /\ Claiming(t) /\ ~Claiming(t)'
  <2>1. c \in S /\ T = S \ {c}
    BY <1>1, <1>2, <1>4, <1>9
  <2>2. Cardinality(T) = Cardinality(S) - 1
    BY <1>1, <2>1, Counting DEF OneTaskEach
  <2>3. \/ refs'[e] = refs[e] - 1 \/ refs[e] <= 1
        \/ refs'[e] >= refs[e] \/ refs'[e] = refs[e] + 1
    BY <1>9
  <2> QED
    BY <1>5, <1>6, <2>2, <2>3 DEF T
<1>10. e # Place(t) => T \subseteq S /\ refs'[e] = refs[e]
  BY <1>1, <1>2
<1>11. e = Place(t) /\ (Claiming(t)' => Claiming(t)) => T \subseteq S
  BY <1>1, <1>2, <1>4
<1> QED
  BY <1>5, <1>7, <1>8, <1>9, <1>10, <1>11

-----------------------------------------------------------------------------
(* What a step of one task leaves alone                                    *)

LEMMA OthersCoherent ==
  ASSUME OneTaskEach, NEW t \in Callers, Moves(t), NEW s \in Callers, s # t, Coherent(s),
         lock' = s <=> lock = s,
         pc[s] = "connecting" => entry'[Place(s)] = entry[Place(s)],
         lock = s => refs'[Place(s)] <= 1
  PROVE  Coherent(s)'
<1>1. ClientOf[s] \in Clients /\ ClientOf[s] # ClientOf[t]
  BY SharedAssumption DEF SharedAssumption, OneTaskEach
<1>2. /\ pc'[s] = pc[s] /\ mine'[s] = mine[s]
      /\ acquired'[ClientOf[s]] = acquired[ClientOf[s]]
      /\ up'[ClientOf[s]] = up[ClientOf[s]]
  BY <1>1 DEF Moves
<1> QED
  BY <1>2 DEF Coherent, Place

LEMMA OthersServed ==
  ASSUME NEW t \in Callers, Moves(t), NEW c \in Clients, c # ClientOf[t], Served(c),
         up[c] /\ acquired[c] /\ queue[entry[EndpointOf[c]]] = "running" =>
            queue'[entry'[EndpointOf[c]]] = "running"
  PROVE  Served(c)'
BY DEF Served, Moves

\* Where task t works.
LEMMA Places ==
  \A t \in Callers :
    ClientOf[t] \in Clients /\ Place(t) \in Endpoints /\ Place(t) = EndpointOf[ClientOf[t]]
BY SharedAssumption DEF SharedAssumption, Place

\* Who holds the last count of his endpoint is there alone.
LEMMA LastOfPlace ==
  ASSUME IInv, OneTaskEach, NEW t \in Callers, Claiming(t)
  PROVE  /\ entry[Place(t)] \in Instances /\ refs[Place(t)] >= 1
         /\ refs[Place(t)] <= 1 =>
              \A d \in Clients \ {ClientOf[t]} : EndpointOf[d] = Place(t) => ~acquired[d]
<1>1. /\ ClientOf[t] \in Clients /\ Place(t) = EndpointOf[ClientOf[t]]
      /\ acquired[ClientOf[t]] \/ Leaving(ClientOf[t])
  BY Places DEF Claiming, Leaving
<1>2. TypeOK /\ Covered
  BY DEF IInv
<1> QED
  BY <1>1, <1>2, ClaimsCounted, Alone

\* A step of a task that leaves the registry and the instances as they are.
LEMMA QuietStep ==
  ASSUME IInv, OneTaskEach, NEW t \in Callers, Moves(t), UNCHANGED <<registry, instances>>,
         TypeOK', Claiming(t)' => Claiming(t), Coherent(t)', Served(ClientOf[t])'
  PROVE  IInv'
<1>1. /\ lock' = lock /\ entry' = entry /\ refs' = refs
      /\ socket' = socket /\ queue' = queue
  BY DEF registry, instances
<1>2. Covered'
  <2>1. refs'[Place(t)] >= refs[Place(t)]
    BY <1>1, Places DEF IInv, TypeOK
  <2> QED
    BY <1>1, <2>1, CoveredStep DEF IInv
<1>3. ASSUME NEW s \in Callers PROVE Coherent(s)'
  BY <1>1, OthersCoherent DEF IInv, Coherent
<1>4. ASSUME NEW c \in Clients PROVE Served(c)'
  BY <1>1, OthersServed DEF IInv
<1>5. Distinct' /\ NoOrphan'
  BY <1>1 DEF IInv, Distinct, NoOrphan
<1> QED
  BY <1>2, <1>3, <1>4, <1>5 DEF IInv

-----------------------------------------------------------------------------
(* connect                                                                 *)

LEMMA WaitToConnectStep ==
  ASSUME IInv, OneTaskEach, NEW t \in Callers, WaitToConnect(t)
  PROVE  IInv'
<1> USE DEF WaitToConnect
<1>1. TypeOK /\ Coherent(t) /\ Served(ClientOf[t]) /\ ClientOf[t] \in Clients
  BY Places DEF IInv
<1>2. TypeOK'
  BY <1>1 DEF TypeOK, registry, instances
<1>3. Moves(t) /\ UNCHANGED <<registry, instances>>
  BY <1>1 DEF Moves, TypeOK
<1>4. pc'[t] = "acquiring" /\ pc[t] = "idle" /\ ~up[ClientOf[t]] /\ ~acquired[ClientOf[t]]
  BY <1>1 DEF TypeOK, Served
<1>5. Coherent(t)' /\ (Claiming(t)' => Claiming(t)) /\ Served(ClientOf[t])'
  BY <1>1, <1>4 DEF Coherent, Claiming, Served, Place, registry, instances
<1> QED
  BY <1>2, <1>3, <1>5, QuietStep

LEMMA AcquireStep ==
  ASSUME IInv, OneTaskEach, NEW t \in Callers, Acquire(t)
  PROVE  IInv'
<1> DEFINE c == ClientOf[t]  e == Place(t)
<1>1. /\ TypeOK /\ Coherent(t) /\ Served(c) /\ Distinct /\ NoOrphan
      /\ c \in Clients /\ e \in Endpoints /\ e = EndpointOf[c] /\ Vacant \notin Instances
      /\ Vacant \notin Callers
  BY Places, SharedAssumption DEF IInv, SharedAssumption
<1>2. PICK i \in Instances :
        /\ IF entry[e] = Vacant THEN Unused(i) ELSE i = entry[e]
        /\ entry' = [entry EXCEPT ![e] = i]
        /\ refs' = [refs EXCEPT ![e] = IF entry[e] = Vacant THEN 1 ELSE Counted(@)]
        /\ IF socket[i]
           THEN /\ queue' = Started(i)
                /\ pc' = [pc EXCEPT ![t] = "idle"]
                /\ up' = [up EXCEPT ![c] = TRUE]
                /\ UNCHANGED mine
           ELSE /\ pc' = [pc EXCEPT ![t] = "connecting"]
                /\ mine' = [mine EXCEPT ![t] = i]
                /\ UNCHANGED <<queue, up>>
  BY DEF Acquire
<1>3. /\ lock = Vacant /\ lock' = lock /\ acquired' = [acquired EXCEPT ![c] = TRUE]
      /\ socket' = socket /\ backlog' = backlog /\ work' = work
      /\ pc[t] = "acquiring" \/ (pc[t] = "idle" /\ ~acquired[c])
  BY DEF Acquire
<1>4. ~up[c] /\ mine[t] = Vacant /\ lock # t
  BY <1>1, <1>3 DEF Coherent, Served
<1>5. refs'[e] = refs[e] + 1 /\ refs' \in [Endpoints -> Nat]
  <2>1. refs[e] \in Nat /\ (refs[e] = 0 <=> entry[e] = Vacant)
    BY <1>1 DEF TypeOK
  <2> QED
    BY <1>1, <1>2, <2>1 DEF TypeOK, Counted
<1>6. /\ entry'[e] = i /\ entry' \in [Endpoints -> Instances \cup {Vacant}]
      /\ \A d \in Endpoints \ {e} : entry'[d] = entry[d] /\ refs'[d] = refs[d]
      /\ \A d \in Endpoints : entry[d] \in Instances => entry'[d] = entry[d]
  BY <1>1, <1>2 DEF TypeOK
<1>7. TypeOK'
  <2>1. \A d \in Endpoints : refs'[d] = 0 <=> entry'[d] = Vacant
    <3>1. refs[e] \in Nat
      BY <1>1 DEF TypeOK
    <3> QED
      BY <1>1, <1>5, <1>6, <3>1 DEF TypeOK
  <2>2. pc' \in [Callers -> {"idle", "acquiring", "connecting", "failing",
                             "releasing", "abandoning", "stopping"}]
    BY <1>1, <1>2 DEF TypeOK
  <2>3. mine' \in [Callers -> Instances \cup {Vacant}]
    BY <1>1, <1>2 DEF TypeOK
  <2>4. queue' \in [Instances -> {"idle", "running", "draining"}]
    BY <1>1, <1>2 DEF TypeOK, Started
  <2>5. up' \in [Clients -> BOOLEAN] /\ acquired' \in [Clients -> BOOLEAN]
    BY <1>1, <1>2, <1>3 DEF TypeOK
  <2> QED
    BY <1>1, <1>3, <1>5, <1>6, <2>1, <2>2, <2>3, <2>4, <2>5 DEF TypeOK
<1>8. Moves(t)
  BY <1>1, <1>2, <1>3 DEF Moves, TypeOK
<1>9. Distinct'
  BY <1>1, <1>2, <1>6 DEF Distinct, Unused
<1>10. Covered'
  BY <1>1, <1>5, <1>6, <1>7, <1>8, CoveredStep DEF IInv
<1>11. Coherent(t)'
  <2>1. acquired'[c] /\ lock' # t
    BY <1>1, <1>3, <1>4 DEF TypeOK
  <2>2. CASE socket[i]
    <3>1. pc'[t] = "idle" /\ mine'[t] = Vacant
      BY <1>1, <1>2, <1>4, <2>2 DEF TypeOK
    <3> QED
      BY <2>1, <3>1 DEF Coherent, Place
  <2>3. CASE ~socket[i]
    <3>1. pc'[t] = "connecting" /\ mine'[t] = entry'[e] /\ ~up'[c]
      BY <1>1, <1>2, <1>4, <1>6, <2>3 DEF TypeOK
    <3> QED
      BY <2>1, <3>1 DEF Coherent, Place
  <2> QED
    BY <2>2, <2>3
<1>12. ASSUME NEW s \in Callers, s # t PROVE Coherent(s)'
  <2>1. Coherent(s) /\ ClientOf[s] \in Clients /\ Place(s) = EndpointOf[ClientOf[s]]
    BY Places DEF IInv
  <2>2. pc[s] = "connecting" => entry[Place(s)] \in Instances
    BY <2>1, ClaimsCounted DEF IInv, Coherent
  <2>3. lock # s
    BY <1>1, <1>3
  <2> QED
    BY <1>3, <1>6, <1>8, <1>12, <2>1, <2>2, <2>3, Places, OthersCoherent
<1>13. Served(c)'
  <2>1. CASE socket[i]
    BY <1>1, <1>2, <1>3, <1>6, <2>1 DEF TypeOK, Served, Started
  <2>2. CASE ~socket[i]
    BY <1>2, <1>4, <2>2 DEF Served
  <2> QED
    BY <2>1, <2>2
<1>14. ASSUME NEW d \in Clients, d # c PROVE Served(d)'
  <2>1. Served(d) /\ EndpointOf[d] \in Endpoints
    BY SharedAssumption DEF IInv, SharedAssumption
  <2>2. acquired[d] => entry[EndpointOf[d]] \in Instances
    BY ClaimsCounted DEF IInv
  <2>3. \A j \in Instances : queue[j] = "running" => queue'[j] = "running"
    BY <1>1, <1>2 DEF TypeOK, Started
  <2> QED
    BY <1>6, <1>8, <1>14, <2>1, <2>2, <2>3, OthersServed
<1>15. NoOrphan'
  <2> SUFFICES ASSUME NEW j \in Instances, socket'[j] \/ queue'[j] # "idle", j # i
               PROVE  \E d \in Endpoints : entry'[d] = j
    BY <1>1, <1>6 DEF NoOrphan
  <2>1. socket[j] \/ queue[j] # "idle"
    BY <1>1, <1>2, <1>3 DEF TypeOK, Started
  <2>2. PICK d \in Endpoints : entry[d] = j
    BY <1>1, <2>1 DEF NoOrphan
  <2> QED
    BY <1>6, <2>2
<1> QED
  BY <1>7, <1>9, <1>10, <1>11, <1>12, <1>13, <1>14, <1>15 DEF IInv

LEMMA ConnectedStep ==
  ASSUME IInv, OneTaskEach, NEW t \in Callers, Connected(t)
  PROVE  IInv'
<1> DEFINE c == ClientOf[t]  e == Place(t)
<1> USE DEF Connected
<1>1. /\ TypeOK /\ Coherent(t) /\ Distinct /\ NoOrphan
      /\ c \in Clients /\ e \in Endpoints /\ e = EndpointOf[c] /\ Vacant \notin Instances
  BY Places, SharedAssumption DEF IInv, SharedAssumption
<1>2. acquired[c] /\ mine[t] = entry[e] /\ lock # t /\ Claiming(t)
  BY <1>1 DEF Coherent, Claiming
<1>3. entry[e] \in Instances
  BY <1>2, LastOfPlace
<1>4. lock' = lock /\ entry' = entry /\ refs' = refs /\ acquired' = acquired
  BY DEF registry
<1>5. TypeOK'
  BY <1>1, <1>2, <1>3, <1>4 DEF TypeOK, Started
<1>6. Moves(t)
  BY <1>1, <1>4 DEF Moves, TypeOK
<1>7. Covered'
  <2>1. refs'[e] >= refs[e]
    BY <1>1, <1>4 DEF TypeOK
  <2> QED
    BY <1>1, <1>2, <1>4, <1>5, <1>6, <2>1, CoveredStep DEF IInv
<1>8. Coherent(t)'
  BY <1>1, <1>2, <1>4 DEF Coherent, TypeOK
<1>9. ASSUME NEW s \in Callers, s # t PROVE Coherent(s)'
  BY <1>4, <1>6, <1>9, OthersCoherent DEF IInv, Coherent
<1>10. Served(c)'
  BY <1>1, <1>2, <1>3, <1>4 DEF TypeOK, Served, Started
<1>11. ASSUME NEW d \in Clients, d # c PROVE Served(d)'
  <2>1. Served(d)
    BY DEF IInv
  <2>2. acquired[d] => entry[EndpointOf[d]] \in Instances
    BY ClaimsCounted DEF IInv
  <2>3. \A j \in Instances : queue[j] = "running" => queue'[j] = "running"
    BY <1>1 DEF TypeOK, Started
  <2> QED
    BY <1>4, <1>6, <1>11, <2>1, <2>2, <2>3, OthersServed
<1>12. NoOrphan'
  BY <1>1, <1>2, <1>4 DEF NoOrphan, TypeOK, Started
<1>13. Distinct'
  BY <1>1, <1>4 DEF Distinct
<1> QED
  BY <1>5, <1>7, <1>8, <1>9, <1>10, <1>11, <1>12, <1>13 DEF IInv

-----------------------------------------------------------------------------
(* disconnect, a failed connect and the release                            *)

LEMMA WaitToReleaseStep ==
  ASSUME IInv, OneTaskEach, NEW t \in Callers, WaitToRelease(t)
  PROVE  IInv'
<1> DEFINE c == ClientOf[t]
<1> USE DEF WaitToRelease
<1>1. TypeOK /\ Coherent(t) /\ Served(c) /\ c \in Clients
  BY Places DEF IInv
<1>2. TypeOK'
  BY <1>1 DEF TypeOK, registry, instances
<1>3. Moves(t) /\ UNCHANGED <<registry, instances>>
  BY <1>1 DEF Moves, TypeOK
<1>4. Claiming(t) /\ lock' = lock /\ lock # t
  BY <1>1 DEF Coherent, Claiming, registry
<1>5. Coherent(t)' /\ Served(c)'
  <2>1. CASE pc[t] = "idle" /\ acquired[c]
    <3>1. pc'[t] = "releasing" /\ acquired'[c] /\ ~up'[c] /\ mine'[t] = Vacant
      BY <1>1, <2>1 DEF TypeOK, Coherent
    <3> QED
      BY <1>4, <3>1 DEF Coherent, Served
  <2>2. CASE pc[t] = "connecting"
    <3>1. pc'[t] = "failing" /\ ~acquired'[c] /\ ~up'[c] /\ mine'[t] = Vacant
      BY <1>1, <2>2 DEF TypeOK, Coherent
    <3> QED
      BY <1>4, <3>1 DEF Coherent, Served
  <2> QED
    BY <2>1, <2>2
<1> QED
  BY <1>2, <1>3, <1>4, <1>5, QuietStep

\* Who is at the release has a claim, and none when it is through.
LEMMA ReleaseMoves ==
  ASSUME IInv, OneTaskEach, NEW t \in Callers, Released(t), lock' # t,
         Claiming(t), pc[t] # "acquiring",
         pc[t] = "idle" => acquired[ClientOf[t]]
  PROVE  /\ Moves(t) /\ ~Claiming(t)' /\ Coherent(t)' /\ Served(ClientOf[t])'
         /\ pc' \in [Callers -> {"idle", "acquiring", "connecting", "failing",
                                 "releasing", "abandoning", "stopping"}]
         /\ mine' \in [Callers -> Instances \cup {Vacant}]
         /\ acquired' \in [Clients -> BOOLEAN] /\ up' \in [Clients -> BOOLEAN]
<1> DEFINE c == ClientOf[t]
<1>1. TypeOK /\ Coherent(t) /\ c \in Clients
  BY Places DEF IInv
<1>2. /\ pc' \in [Callers -> {"idle", "acquiring", "connecting", "failing",
                              "releasing", "abandoning", "stopping"}]
      /\ mine' \in [Callers -> Instances \cup {Vacant}]
      /\ acquired' \in [Clients -> BOOLEAN] /\ up' \in [Clients -> BOOLEAN]
  BY <1>1 DEF Released, TypeOK
<1>3. pc'[t] = "idle" /\ mine'[t] = Vacant
  BY <1>1 DEF Released, TypeOK
<1>4. ~acquired'[c]
  BY <1>1 DEF Released, TypeOK, Coherent
<1>5. ~up'[c]
  BY <1>1 DEF Released, TypeOK, Coherent, FailedConnect
<1>6. Moves(t)
  BY <1>1 DEF Released, Moves, TypeOK
<1> QED
  BY <1>2, <1>3, <1>4, <1>5, <1>6 DEF Coherent, Served, Claiming

\* Who comes to a release has a claim.
LEMMA ReleasingClaims ==
  ASSUME IInv, NEW t \in Callers, Releasing(t)
  PROVE  /\ Claiming(t) /\ lock = Vacant /\ lock # t
         /\ pc[t] \in {"idle", "releasing", "failing", "connecting"}
         /\ pc[t] = "idle" => acquired[ClientOf[t]]
BY SharedAssumption DEF IInv, Coherent, Claiming, Releasing, SharedAssumption

LEMMA ReleaseOneStep ==
  ASSUME IInv, OneTaskEach, NEW t \in Callers, ReleaseOne(t)
  PROVE  IInv'
<1> DEFINE c == ClientOf[t]  e == Place(t)
<1>1. /\ TypeOK /\ Distinct /\ NoOrphan
      /\ c \in Clients /\ e \in Endpoints /\ e = EndpointOf[c] /\ Vacant \notin Instances
      /\ Vacant \notin Callers
  BY Places, SharedAssumption DEF IInv, SharedAssumption
<1>2. /\ Claiming(t) /\ lock = Vacant /\ lock # t
      /\ pc[t] \in {"idle", "releasing", "failing", "connecting"}
      /\ pc[t] = "idle" => acquired[c]
  BY ReleasingClaims DEF ReleaseOne
<1>3. entry[e] \in Instances /\ refs[e] > 1 /\ refs[e] \in Nat
  BY <1>1, <1>2, LastOfPlace DEF ReleaseOne, LastUser, TypeOK
<1>4. /\ lock' = lock /\ entry' = entry /\ socket' = socket /\ queue' = queue
      /\ backlog' = backlog /\ work' = work /\ Released(t)
      /\ refs' = [refs EXCEPT ![e] = refs[e] - 1]
  BY <1>1, <1>3 DEF ReleaseOne, instances
<1>5. /\ Moves(t) /\ ~Claiming(t)' /\ Coherent(t)' /\ Served(c)'
      /\ pc' \in [Callers -> {"idle", "acquiring", "connecting", "failing",
                              "releasing", "abandoning", "stopping"}]
      /\ mine' \in [Callers -> Instances \cup {Vacant}]
      /\ acquired' \in [Clients -> BOOLEAN] /\ up' \in [Clients -> BOOLEAN]
  BY <1>2, <1>4, ReleaseMoves
<1>6. /\ refs'[e] = refs[e] - 1 /\ refs' \in [Endpoints -> Nat]
      /\ \A d \in Endpoints \ {e} : refs'[d] = refs[d]
  BY <1>1, <1>3, <1>4 DEF TypeOK
<1>7. TypeOK'
  <2>1. \A d \in Endpoints : refs'[d] = 0 <=> entry'[d] = Vacant
    BY <1>1, <1>3, <1>4, <1>6 DEF TypeOK
  <2> QED
    BY <1>1, <1>4, <1>5, <1>6, <2>1 DEF TypeOK
<1>8. Covered'
  BY <1>1, <1>2, <1>5, <1>6, <1>7, CoveredStep DEF IInv
<1>9. ASSUME NEW s \in Callers, s # t PROVE Coherent(s)'
  BY <1>1, <1>2, <1>4, <1>5, <1>9, OthersCoherent DEF IInv
<1>10. ASSUME NEW d \in Clients, d # c PROVE Served(d)'
  BY <1>4, <1>5, <1>10, OthersServed DEF IInv
<1>11. Distinct' /\ NoOrphan'
  BY <1>1, <1>4 DEF Distinct, NoOrphan
<1> QED
  BY <1>5, <1>7, <1>8, <1>9, <1>10, <1>11 DEF IInv

\* The last user of an endpoint closes its connection and forgets it.
LEMMA LastStep ==
  ASSUME IInv, OneTaskEach, NEW t \in Callers, Claiming(t), refs[Place(t)] <= 1,
         Forget(Place(t)), Moves(t), TypeOK', ~Claiming(t)', Coherent(t)',
         Served(ClientOf[t])', lock' = Vacant, lock \in {Vacant, t},
         queue'[entry[Place(t)]] = "idle",
         \A j \in Instances \ {entry[Place(t)]} : queue'[j] = queue[j]
  PROVE  IInv'
<1> DEFINE c == ClientOf[t]  e == Place(t)  i == entry[Place(t)]
<1>1. /\ TypeOK /\ Distinct /\ NoOrphan
      /\ c \in Clients /\ e \in Endpoints /\ e = EndpointOf[c] /\ Vacant \notin Instances
      /\ Vacant \notin Callers
  BY Places, SharedAssumption DEF IInv, SharedAssumption
<1>2. /\ i \in Instances
      /\ \A d \in Clients \ {c} : EndpointOf[d] = e => ~acquired[d]
  BY LastOfPlace
<1>3. /\ entry'[e] = Vacant /\ ~socket'[i]
      /\ \A d \in Endpoints \ {e} : entry'[d] = entry[d] /\ refs'[d] = refs[d]
      /\ \A j \in Instances \ {i} : socket'[j] = socket[j]
  <2>1. /\ entry' = [entry EXCEPT ![e] = Vacant] /\ refs' = [refs EXCEPT ![e] = 0]
        /\ socket' = [socket EXCEPT ![i] = FALSE]
    BY DEF Forget, Closed
  <2>2. entry'[e] = Vacant /\ ~socket'[i]
    BY <1>1, <1>2, <2>1 DEF TypeOK
  <2>3. \A d \in Endpoints \ {e} : entry'[d] = entry[d] /\ refs'[d] = refs[d]
    BY <1>1, <2>1 DEF TypeOK
  <2>4. \A j \in Instances \ {i} : socket'[j] = socket[j]
    <3> HIDE DEF i
    <3>1. socket \in [Instances -> BOOLEAN]
      BY <1>1 DEF TypeOK
    <3> QED
      BY <2>1, <3>1
  <2> QED
    BY <2>2, <2>3, <2>4
<1>4. Distinct'
  BY <1>1, <1>3 DEF Distinct
<1>5. Covered'
  BY <1>3, CoveredStep DEF IInv
<1>6. ASSUME NEW s \in Callers, s # t PROVE Coherent(s)'
  <2>1. /\ ClientOf[s] \in Clients \ {c} /\ Place(s) = EndpointOf[ClientOf[s]]
        /\ Place(s) \in Endpoints
    BY <1>6, Places DEF OneTaskEach
  <2>2. Coherent(s) /\ (pc[s] = "connecting" => acquired[ClientOf[s]])
    BY DEF IInv, Coherent
  <2>3. pc[s] = "connecting" => entry'[Place(s)] = entry[Place(s)]
    BY <1>2, <1>3, <2>1, <2>2
  <2> QED
    BY <1>1, <1>6, <2>2, <2>3, OthersCoherent
<1>7. ASSUME NEW d \in Clients, d # c PROVE Served(d)'
  <2>1. Served(d) /\ EndpointOf[d] \in Endpoints
    BY SharedAssumption DEF IInv, SharedAssumption
  <2>2. acquired[d] => EndpointOf[d] # e /\ entry[EndpointOf[d]] \in Instances
    BY <1>2, <1>7, ClaimsCounted DEF IInv
  <2>3. acquired[d] =>
          entry[EndpointOf[d]] # i /\ entry'[EndpointOf[d]] = entry[EndpointOf[d]]
    BY <1>1, <1>2, <1>3, <2>1, <2>2 DEF Distinct
  <2> QED
    BY <1>7, <2>1, <2>2, <2>3, OthersServed
<1>8. NoOrphan'
  <2> SUFFICES ASSUME NEW j \in Instances, socket'[j] \/ queue'[j] # "idle"
               PROVE  \E d \in Endpoints : entry'[d] = j
    BY DEF NoOrphan
  <2>1. j # i /\ (socket[j] \/ queue[j] # "idle")
    BY <1>3
  <2>2. PICK d \in Endpoints : entry[d] = j
    BY <1>1, <2>1 DEF NoOrphan
  <2> QED
    BY <1>3, <2>1, <2>2
<1> QED
  BY <1>4, <1>5, <1>6, <1>7, <1>8 DEF IInv

LEMMA ReleaseLastStep ==
  ASSUME IInv, OneTaskEach, NEW t \in Callers, ReleaseLast(t)
  PROVE  IInv'
<1> DEFINE c == ClientOf[t]  e == Place(t)
<1>1. TypeOK /\ e \in Endpoints /\ Vacant \notin Callers
  BY Places, SharedAssumption DEF IInv, SharedAssumption
<1>2. /\ Claiming(t) /\ lock = Vacant /\ lock # t
      /\ pc[t] \in {"idle", "releasing", "failing", "connecting"}
      /\ pc[t] = "idle" => acquired[c]
  BY ReleasingClaims DEF ReleaseLast
<1>3. /\ refs[e] <= 1 /\ Forget(e) /\ Released(t) /\ queue[entry[e]] = "idle"
      /\ lock' = lock /\ queue' = queue /\ backlog' = backlog /\ work' = work
  BY DEF ReleaseLast, LastUser
<1>4. /\ Moves(t) /\ ~Claiming(t)' /\ Coherent(t)' /\ Served(c)'
      /\ pc' \in [Callers -> {"idle", "acquiring", "connecting", "failing",
                              "releasing", "abandoning", "stopping"}]
      /\ mine' \in [Callers -> Instances \cup {Vacant}]
      /\ acquired' \in [Clients -> BOOLEAN] /\ up' \in [Clients -> BOOLEAN]
  BY <1>2, <1>3, ReleaseMoves
<1>5. TypeOK'
  BY <1>1, <1>3, <1>4 DEF TypeOK, Forget, Closed
<1> QED
  BY <1>2, <1>3, <1>4, <1>5, LastStep

LEMMA EndStopStep ==
  ASSUME IInv, OneTaskEach, NEW t \in Callers, EndStop(t)
  PROVE  IInv'
<1> DEFINE c == ClientOf[t]  e == Place(t)
<1>1. TypeOK /\ Coherent(t) /\ e \in Endpoints /\ Vacant \notin Callers
  BY Places, SharedAssumption DEF IInv, SharedAssumption
<1>2. /\ lock = t /\ lock' = Vacant /\ Forget(e) /\ Released(t) /\ Halted(entry[e])
  BY DEF EndStop
<1>3. Claiming(t) /\ refs[e] <= 1 /\ pc[t] \in {"stopping", "abandoning"}
  BY <1>1, <1>2 DEF Coherent, Claiming
<1>4. entry[e] \in Instances
  BY <1>3, LastOfPlace
<1>5. /\ Moves(t) /\ ~Claiming(t)' /\ Coherent(t)' /\ Served(c)'
      /\ pc' \in [Callers -> {"idle", "acquiring", "connecting", "failing",
                              "releasing", "abandoning", "stopping"}]
      /\ mine' \in [Callers -> Instances \cup {Vacant}]
      /\ acquired' \in [Clients -> BOOLEAN] /\ up' \in [Clients -> BOOLEAN]
  BY <1>1, <1>2, <1>3, ReleaseMoves
<1>6. /\ queue'[entry[e]] = "idle"
      /\ \A j \in Instances \ {entry[e]} : queue'[j] = queue[j]
  BY <1>1, <1>2, <1>4 DEF Halted, TypeOK
<1>7. TypeOK'
  <2>1. 0 \in 0..MaxBacklog
    BY SharedAssumption DEF SharedAssumption
  <2>2. backlog' \in [Instances -> 0..MaxBacklog]
    BY <1>1, <1>2, <2>1 DEF TypeOK, Halted
  <2>3. /\ queue' \in [Instances -> {"idle", "running", "draining"}]
        /\ work' \in [Instances -> {"none", "locking", "bus"}]
    BY <1>1, <1>2 DEF TypeOK, Halted
  <2> QED
    BY <1>1, <1>2, <1>5, <2>2, <2>3 DEF TypeOK, Forget, Closed
<1> QED
  BY <1>2, <1>3, <1>5, <1>6, <1>7, LastStep

LEMMA BeginStopStep ==
  ASSUME IInv, OneTaskEach, NEW t \in Callers, BeginStop(t)
  PROVE  IInv'
<1> DEFINE c == ClientOf[t]  e == Place(t)  i == entry[Place(t)]
<1>1. /\ TypeOK /\ Coherent(t) /\ Distinct /\ NoOrphan /\ Served(c)
      /\ c \in Clients /\ e \in Endpoints /\ e = EndpointOf[c] /\ Vacant \notin Callers
  BY Places, SharedAssumption DEF IInv, SharedAssumption
<1>2. /\ Claiming(t) /\ lock = Vacant /\ lock # t
      /\ pc[t] \in {"idle", "releasing", "failing", "connecting"}
      /\ pc[t] = "idle" => acquired[c]
  BY ReleasingClaims DEF BeginStop
<1>3. /\ refs[e] <= 1 /\ lock' = t /\ queue' = [queue EXCEPT ![i] = "draining"]
      /\ queue[i] = "running"
      /\ entry' = entry /\ refs' = refs /\ socket' = socket
      /\ backlog' = backlog /\ work' = work
  BY DEF BeginStop, LastUser
<1>4. /\ i \in Instances
      /\ \A d \in Clients \ {c} : EndpointOf[d] = e => ~acquired[d]
  BY <1>2, <1>3, LastOfPlace
<1>5. TypeOK'
  <2>1. pc' \in [Callers -> {"idle", "acquiring", "connecting", "failing",
                            "releasing", "abandoning", "stopping"}]
    BY <1>1 DEF BeginStop, TypeOK
  <2>2. /\ mine' \in [Callers -> Instances \cup {Vacant}]
        /\ acquired' \in [Clients -> BOOLEAN] /\ up' \in [Clients -> BOOLEAN]
    BY <1>1 DEF BeginStop, TypeOK
  <2> QED
    BY <1>1, <1>3, <2>1, <2>2 DEF TypeOK
<1>6. Moves(t)
  BY <1>1 DEF BeginStop, Moves, TypeOK
<1>7. mine'[t] = Vacant /\ ~up'[c]
  BY <1>1, <1>2 DEF BeginStop, TypeOK, Coherent, FailedConnect
<1>8. \/ pc'[t] = "stopping" /\ acquired'[c]
      \/ pc'[t] = "abandoning" /\ ~acquired'[c]
  <2>1. CASE pc[t] \in {"idle", "releasing"}
    BY <1>1, <1>2, <2>1 DEF BeginStop, TypeOK, Coherent, FailedConnect
  <2>2. CASE pc[t] \in {"connecting", "failing"}
    BY <1>1, <1>2, <2>2 DEF BeginStop, TypeOK, Coherent, FailedConnect
  <2> QED
    BY <1>2, <2>1, <2>2
<1>9. Coherent(t)' /\ Served(c)'
  BY <1>3, <1>7, <1>8 DEF Coherent, Served, Place
<1>10. Covered'
  <2>1. refs'[e] >= refs[e]
    BY <1>1, <1>3 DEF TypeOK
  <2> QED
    BY <1>1, <1>2, <1>3, <1>5, <1>6, <2>1, CoveredStep DEF IInv
<1>11. ASSUME NEW s \in Callers, s # t PROVE Coherent(s)'
  BY <1>1, <1>2, <1>3, <1>6, <1>11, OthersCoherent DEF IInv
<1>12. ASSUME NEW d \in Clients, d # c PROVE Served(d)'
  <2>1. Served(d) /\ EndpointOf[d] \in Endpoints
    BY SharedAssumption DEF IInv, SharedAssumption
  <2>2. acquired[d] => EndpointOf[d] # e /\ entry[EndpointOf[d]] \in Instances
    BY <1>4, <1>12, ClaimsCounted DEF IInv
  <2>3. acquired[d] => entry[EndpointOf[d]] # i
    BY <1>1, <2>1, <2>2, SharedAssumption DEF Distinct, SharedAssumption
  <2>4. \A j \in Instances : j # i => queue'[j] = queue[j]
    BY <1>1, <1>3 DEF TypeOK
  <2> QED
    BY <1>3, <1>6, <1>12, <2>1, <2>2, <2>3, <2>4, OthersServed
<1>13. Distinct'
  BY <1>1, <1>3 DEF Distinct
<1>14. NoOrphan'
  BY <1>1, <1>3 DEF NoOrphan, TypeOK
<1> QED
  BY <1>5, <1>9, <1>10, <1>11, <1>12, <1>13, <1>14 DEF IInv

-----------------------------------------------------------------------------
(* Cancellation                                                            *)

LEMMA CancelStep ==
  ASSUME IInv, OneTaskEach, NEW t \in Callers, Cancel(t)
  PROVE  IInv'
<1> DEFINE c == ClientOf[t]
<1> USE DEF Cancel
<1>1. TypeOK /\ Coherent(t) /\ Served(c) /\ c \in Clients
  BY Places DEF IInv
<1>2. TypeOK'
  BY <1>1 DEF TypeOK, registry, instances
<1>3. Moves(t) /\ UNCHANGED <<registry, instances>>
  BY <1>1 DEF Moves, TypeOK
<1>4. lock' = lock /\ lock # t /\ pc[t] # "idle" /\ acquired' = acquired /\ up' = up
  BY <1>1 DEF Coherent, registry
<1>5. pc'[t] = "idle" /\ mine'[t] = Vacant /\ ~up'[c]
  BY <1>1, <1>4 DEF TypeOK, Coherent
<1>6. Coherent(t)' /\ Served(c)' /\ (Claiming(t)' => Claiming(t))
  BY <1>4, <1>5 DEF Coherent, Served, Claiming
<1> QED
  BY <1>2, <1>3, <1>6, QuietStep

LEMMA CancelStopStep ==
  ASSUME IInv, OneTaskEach, NEW t \in Callers, CancelStop(t)
  PROVE  IInv'
<1> DEFINE c == ClientOf[t]  e == Place(t)  i == entry[Place(t)]
<1>1. /\ TypeOK /\ Coherent(t) /\ Distinct /\ NoOrphan
      /\ c \in Clients /\ e \in Endpoints /\ e = EndpointOf[c] /\ Vacant \notin Callers
  BY Places, SharedAssumption DEF IInv, SharedAssumption
<1>2. /\ lock = t /\ lock' = Vacant /\ Halted(i) /\ pc' = [pc EXCEPT ![t] = "idle"]
      /\ entry' = entry /\ refs' = refs /\ acquired' = acquired /\ mine' = mine
      /\ socket' = socket /\ up' = up
  BY DEF CancelStop
<1>3. /\ Claiming(t) /\ refs[e] <= 1 /\ pc[t] \in {"stopping", "abandoning"}
      /\ mine[t] = Vacant /\ ~up[c]
  BY <1>1, <1>2 DEF Coherent, Claiming
<1>4. /\ i \in Instances
      /\ \A d \in Clients \ {c} : EndpointOf[d] = e => ~acquired[d]
  BY <1>3, LastOfPlace
<1>5. \A j \in Instances : queue'[j] = IF j = i THEN "idle" ELSE queue[j]
  BY <1>1, <1>2 DEF Halted, TypeOK
<1>6. TypeOK'
  <2>1. 0 \in 0..MaxBacklog
    BY SharedAssumption DEF SharedAssumption
  <2>2. backlog' \in [Instances -> 0..MaxBacklog]
    BY <1>1, <1>2, <2>1 DEF TypeOK, Halted
  <2>3. /\ queue' \in [Instances -> {"idle", "running", "draining"}]
        /\ work' \in [Instances -> {"none", "locking", "bus"}]
    BY <1>1, <1>2 DEF TypeOK, Halted
  <2> QED
    BY <1>1, <1>2, <2>2, <2>3 DEF TypeOK
<1>7. Moves(t) /\ pc'[t] = "idle"
  BY <1>1, <1>2 DEF Moves, TypeOK
<1>8. Coherent(t)' /\ Served(c)'
  BY <1>1, <1>2, <1>3, <1>7 DEF Coherent, Served
<1>9. Covered'
  <2>1. refs'[e] >= refs[e]
    BY <1>1, <1>2 DEF TypeOK
  <2> QED
    BY <1>1, <1>2, <1>3, <1>6, <1>7, <2>1, CoveredStep DEF IInv
<1>10. ASSUME NEW s \in Callers, s # t PROVE Coherent(s)'
  BY <1>1, <1>2, <1>7, <1>10, OthersCoherent DEF IInv
<1>11. ASSUME NEW d \in Clients, d # c PROVE Served(d)'
  <2>1. Served(d) /\ EndpointOf[d] \in Endpoints
    BY SharedAssumption DEF IInv, SharedAssumption
  <2>2. acquired[d] => EndpointOf[d] # e /\ entry[EndpointOf[d]] \in Instances
    BY <1>4, <1>11, ClaimsCounted DEF IInv
  <2>3. acquired[d] => entry[EndpointOf[d]] # i
    BY <1>1, <2>1, <2>2, SharedAssumption DEF Distinct, SharedAssumption
  <2> QED
    BY <1>2, <1>5, <1>7, <1>11, <2>1, <2>2, <2>3, OthersServed
<1>12. Distinct'
  BY <1>1, <1>2 DEF Distinct
<1>13. NoOrphan'
  BY <1>1, <1>2, <1>5 DEF NoOrphan
<1> QED
  BY <1>6, <1>8, <1>9, <1>10, <1>11, <1>12, <1>13 DEF IInv

-----------------------------------------------------------------------------
(* The queues and the network                                              *)

LEMMA SurroundingStep ==
  ASSUME IInv, OneTaskEach,
         \/ \E e \in Endpoints : SubmitRequest(e)
         \/ \E i \in Instances :
              TakeRequest(i) \/ LookUp(i) \/ RequestEnds(i) \/ Dropped(i)
  PROVE  IInv'
<1>1. TypeOK /\ MaxBacklog \in Nat
  BY SharedAssumption DEF IInv, SharedAssumption
<1>2. /\ UNCHANGED <<registry, acquired, pc, mine, queue, up>>
      /\ \A i \in Instances : socket'[i] => socket[i]
  BY <1>1 DEF SubmitRequest, TakeRequest, LookUp, RequestEnds, Dropped, TypeOK
<1>3. TypeOK'
  <2>1. socket' \in [Instances -> BOOLEAN]
    BY <1>1 DEF SubmitRequest, TakeRequest, LookUp, RequestEnds, Dropped, TypeOK
  <2>2. backlog' \in [Instances -> 0..MaxBacklog]
    <3>1. CASE \E e \in Endpoints : SubmitRequest(e)
      <4>1. PICK e \in Endpoints : SubmitRequest(e)
        BY <3>1
      <4>2. entry[e] \in Instances /\ backlog[entry[e]] + 1 \in 0..MaxBacklog
        BY <1>1, <4>1 DEF SubmitRequest, TypeOK
      <4> QED
        BY <1>1, <4>1, <4>2 DEF SubmitRequest, TypeOK
    <3>2. CASE \E i \in Instances : TakeRequest(i)
      <4>1. PICK i \in Instances : TakeRequest(i)
        BY <3>2
      <4>2. backlog[i] - 1 \in 0..MaxBacklog
        BY <1>1, <4>1 DEF TakeRequest, TypeOK
      <4> QED
        BY <1>1, <4>1, <4>2 DEF TakeRequest, TypeOK
    <3>3. CASE \E i \in Instances : LookUp(i) \/ RequestEnds(i) \/ Dropped(i)
      BY <1>1, <3>3 DEF LookUp, RequestEnds, Dropped, TypeOK
    <3> QED
      BY <3>1, <3>2, <3>3
  <2>3. work' \in [Instances -> {"none", "locking", "bus"}]
    BY <1>1 DEF SubmitRequest, TakeRequest, LookUp, RequestEnds, Dropped, TypeOK
  <2> QED
    BY <1>1, <1>2, <2>1, <2>2, <2>3 DEF TypeOK, registry
<1>4. /\ lock' = lock /\ entry' = entry /\ refs' = refs /\ acquired' = acquired
      /\ pc' = pc /\ mine' = mine /\ queue' = queue /\ up' = up
  BY <1>2 DEF registry
<1>5. Distinct' /\ NoOrphan'
  BY <1>2, <1>4 DEF IInv, Distinct, NoOrphan
<1>6. Covered'
  BY <1>4 DEF IInv, Covered, Claims, Leaving
<1>7. (\A t \in Callers : Coherent(t)') /\ \A c \in Clients : Served(c)'
  BY <1>4 DEF IInv, Coherent, Served, Place
<1> QED
  BY <1>3, <1>5, <1>6, <1>7 DEF IInv

-----------------------------------------------------------------------------
(* The theorems                                                            *)

LEMMA Initially ==
  ASSUME Init, OneTaskEach
  PROVE  IInv
<1>1. Vacant \notin Instances \cup Callers /\ 0 \in 0..MaxBacklog
  BY SharedAssumption DEF SharedAssumption
<1>2. TypeOK
  BY <1>1 DEF Init, TypeOK
<1>3. Covered
  <2> SUFFICES ASSUME NEW e \in Endpoints PROVE Cardinality(Claims(e)) <= refs[e]
    BY DEF Covered
  <2>1. Claims(e) = {}
    BY DEF Init, Claims, Leaving
  <2> QED
    BY <2>1, FS_EmptySet DEF Init
<1>4. ASSUME NEW t \in Callers PROVE Coherent(t)
  BY <1>1, Places DEF Init, Coherent
<1>5. ASSUME NEW c \in Clients PROVE Served(c)
  BY DEF Init, Served
<1>6. Distinct /\ NoOrphan
  BY DEF Init, Distinct, NoOrphan
<1> QED
  BY <1>2, <1>3, <1>4, <1>5, <1>6 DEF IInv

LEMMA Inductive ==
  ASSUME IInv, OneTaskEach, [Next]_vars
  PROVE  IInv'
<1>1. CASE \E t \in Callers :
           \/ WaitToConnect(t) \/ Acquire(t) \/ Connected(t)
           \/ WaitToRelease(t) \/ ReleaseOne(t) \/ ReleaseLast(t)
           \/ BeginStop(t) \/ EndStop(t)
           \/ Cancel(t) \/ CancelStop(t)
  BY <1>1, WaitToConnectStep, AcquireStep, ConnectedStep, WaitToReleaseStep,
     ReleaseOneStep, ReleaseLastStep, BeginStopStep, EndStopStep, CancelStep,
     CancelStopStep
<1>2. CASE \/ \E e \in Endpoints : SubmitRequest(e)
           \/ \E i \in Instances :
                TakeRequest(i) \/ LookUp(i) \/ RequestEnds(i) \/ Dropped(i)
  BY <1>2, SurroundingStep
<1>3. CASE UNCHANGED vars
  <2>1. /\ lock' = lock /\ entry' = entry /\ refs' = refs /\ acquired' = acquired
        /\ pc' = pc /\ mine' = mine /\ socket' = socket /\ queue' = queue
        /\ backlog' = backlog /\ work' = work /\ up' = up
    BY <1>3 DEF vars
  <2>2. TypeOK' /\ Distinct' /\ NoOrphan'
    BY <2>1 DEF IInv, TypeOK, Distinct, NoOrphan
  <2>3. Covered'
    BY <2>1 DEF IInv, Covered, Claims, Leaving
  <2>4. (\A t \in Callers : Coherent(t)') /\ \A c \in Clients : Served(c)'
    BY <2>1 DEF IInv, Coherent, Served, Place
  <2> QED
    BY <2>2, <2>3, <2>4 DEF IInv
<1> QED
  BY <1>1, <1>2, <1>3 DEF Next

LEMMA Holds ==
  ASSUME IInv, OneTaskEach
  PROVE  ConnectionsHeld
<1>1. EveryUserCounted
  <2> SUFFICES ASSUME NEW e \in Endpoints PROVE refs[e] >= Cardinality(Users(e))
    BY DEF EveryUserCounted
  <2>1. /\ Users(e) \in SUBSET Clients /\ Claims(e) \in SUBSET Clients
        /\ Users(e) \subseteq Claims(e)
    BY DEF Users, Claims
  <2>2. /\ Cardinality(Users(e)) <= Cardinality(Claims(e))
        /\ Cardinality(Users(e)) \in Nat /\ Cardinality(Claims(e)) \in Nat
    BY <2>1, Counting DEF OneTaskEach
  <2>3. Cardinality(Claims(e)) <= refs[e] /\ refs[e] \in Nat
    BY DEF IInv, Covered, TypeOK
  <2> QED
    BY <2>2, <2>3
<1>2. NobodyCutOff
  BY ClaimsCounted, SharedAssumption DEF IInv, NobodyCutOff, Served, SharedAssumption
<1>3. ConnectsTheShared
  BY DEF IInv, Coherent, ConnectsTheShared
<1> QED
  BY <1>1, <1>2, <1>3 DEF IInv, ConnectionsHeld

\* The inductive invariant holds in every state that clients with one task each can reach,
\* whatever is cancelled, refused or dropped (client.py, _acquire_resources and
\* _release_shared_resources).
THEOREM SharingInvariance == OneTaskEach => (Spec => []IInv)
<1>1. OneTaskEach /\ Init => IInv
  BY Initially
<1>2. OneTaskEach /\ IInv /\ [Next]_vars => IInv'
  BY Inductive
<1> SUFFICES ASSUME OneTaskEach PROVE Spec => []IInv
  OBVIOUS
<1>3. Init => IInv
  BY <1>1
<1>4. IInv /\ [Next]_vars => IInv'
  BY <1>2
<1> QED
  BY <1>3, <1>4, PTL DEF Spec

\* Every user of a shared connection is counted, nobody is cut off by another one's
\* disconnect, failed connect or cancellation, what is open or runs is registered, and
\* who connects connects what is registered.
THEOREM ConnectionsStayHeld == OneTaskEach => (Spec => []ConnectionsHeld)
<1> SUFFICES ASSUME OneTaskEach PROVE Spec => []ConnectionsHeld
  OBVIOUS
<1>1. Spec => []IInv
  BY SharingInvariance
<1>2. IInv => ConnectionsHeld
  BY Holds
<1> QED
  BY <1>1, <1>2, PTL

-----------------------------------------------------------------------------
(* Command routing                                                         *)

\* q is a sequence, of whatever.
IsSequence(q) == \E S : q \in Seq(S)

\* The entries of q about points outside X have the values N.
Fresh(q, N, X) == \A e \in Range(q) : e.point \in Points \ X => e.to = N[e.point]

\* So have the copies the reconcilers have taken, and their writes in the queues of the
\* devices.
TasksFresh(ts, N, X) ==
    /\ DOMAIN ts = Tasks
    /\ \A t \in Reconcilers :
         IsSequence(ts[t].list) /\ IsSequence(ts[t].left) /\ Fresh(ts[t].list, N, X)

BusFresh(bs, N, X) ==
    /\ DOMAIN bs = Targeted
    /\ \A d \in Targeted :
         /\ IsSequence(bs[d])
         /\ \A w \in Range(bs[d]) :
              /\ w.task \in Tasks /\ DeviceOf[w.point] = d
              /\ w.task \in Reconcilers /\ w.point \in Points \ X => w.to = N[w.point]

TableFresh(tab, N, X) == \A p \in Points \ X : tab[p] = N[p] \/ tab[p] = None

RoutingInv ==
    /\ DOMAIN table = Points /\ DOMAIN newest = Points
    /\ TableFresh(table, newest, crossed)
    /\ TasksFresh(tasks, newest, crossed)
    /\ BusFresh(bus, newest, crossed)

-----------------------------------------------------------------------------
(* Sequences                                                               *)

\* What Append adds is the element.
LEMMA Appended ==
  ASSUME NEW q, IsSequence(q), NEW x
  PROVE  IsSequence(Append(q, x)) /\ Range(Append(q, x)) \subseteq Range(q) \cup {x}
<1>1. PICK S : q \in Seq(S)
  BY DEF IsSequence
<1>2. q \in Seq(S \cup {x}) /\ x \in S \cup {x}
  BY <1>1, SeqMonotonic
<1>3. /\ Append(q, x) \in Seq(S \cup {x}) /\ Len(Append(q, x)) = Len(q) + 1
      /\ \A i \in 1..Len(q) : Append(q, x)[i] = q[i]
      /\ Append(q, x)[Len(q) + 1] = x
  BY <1>2, AppendProperties
<1>4. /\ Len(q) \in Nat /\ DOMAIN q = 1..Len(q)
      /\ DOMAIN Append(q, x) = 1..(Len(q) + 1)
  BY <1>2, <1>3, LenProperties
<1>5. ASSUME NEW i \in DOMAIN Append(q, x) PROVE Append(q, x)[i] \in Range(q) \cup {x}
  <2>1. i \in 1..Len(q) \/ i = Len(q) + 1
    BY <1>4, <1>5
  <2> QED BY <2>1, <1>3, <1>4 DEF Range
<1>6. Range(Append(q, x)) \subseteq Range(q) \cup {x}
  BY <1>5 DEF Range
<1> QED BY <1>3, <1>6 DEF IsSequence

\* The rest of a sequence has no other elements.
LEMMA Rest ==
  ASSUME NEW q, IsSequence(q), NEW m \in Nat \ {0}
  PROVE  IsSequence(SubSeq(q, m, Len(q))) /\ Range(SubSeq(q, m, Len(q))) \subseteq Range(q)
<1> DEFINE r == SubSeq(q, m, Len(q))
<1>1. PICK S : q \in Seq(S)
  BY DEF IsSequence
<1>2. Len(q) \in Nat /\ DOMAIN q = 1..Len(q) /\ \A i \in m..Len(q) : q[i] \in S
  BY <1>1, LenProperties, ElementOfSeq
<1>3. /\ r \in Seq(S) /\ Len(r) = IF m <= Len(q) THEN Len(q) - m + 1 ELSE 0
      /\ \A i \in 1..(Len(q) - m + 1) : r[i] = q[m + i - 1]
  BY <1>2, SubSeqProperties
<1>4. DOMAIN r = 1..Len(r)
  BY <1>3, LenProperties
<1> HIDE DEF r
<1>5. ASSUME NEW i \in DOMAIN r PROVE r[i] \in Range(q)
  <2>1. i \in 1..(Len(q) - m + 1) /\ m + i - 1 \in DOMAIN q
    <3>1. i \in 1..Len(r) /\ Len(q) \in Nat
      BY <1>2, <1>4, <1>5
    <3>2. m <= Len(q) /\ Len(r) = Len(q) - m + 1
      BY <3>1, <1>3
    <3>3. i \in 1..(Len(q) - m + 1) /\ m + i - 1 \in 1..Len(q)
      BY <3>1, <3>2
    <3> QED BY <3>3, <1>2
  <2>2. r[i] = q[m + i - 1]
    BY <2>1, <1>3
  <2> QED BY <2>1, <2>2 DEF Range
<1>6. Range(r) \subseteq Range(q)
  BY <1>5 DEF Range
<1> QED BY <1>3, <1>6 DEF IsSequence, r

\* A queue that is not empty has a head and a tail.
LEMMA HeadAndTail ==
  ASSUME NEW q, IsSequence(q), q # <<>>
  PROVE  Head(q) \in Range(q) /\ IsSequence(Tail(q)) /\ Range(Tail(q)) \subseteq Range(q)
<1>1. PICK S : q \in Seq(S)
  BY DEF IsSequence
<1>2. Tail(q) = SubSeq(q, 2, Len(q))
  BY <1>1, TailIsSubSeq
<1>3. Len(q) \in Nat \ {0} /\ DOMAIN q = 1..Len(q)
  BY <1>1, LenProperties, EmptySeq
<1>4. Head(q) = q[1] /\ 1 \in DOMAIN q
  BY <1>1, <1>3
<1>5. Head(q) \in Range(q)
  BY <1>4 DEF Range
<1>6. 2 \in Nat \ {0}
  OBVIOUS
<1>7. IsSequence(SubSeq(q, 2, Len(q))) /\ Range(SubSeq(q, 2, Len(q))) \subseteq Range(q)
  BY <1>6, Rest
<1> QED BY <1>2, <1>5, <1>7

\* SetToSeq of a finite set is a sequence of its elements.
LEMMA SetSequence ==
  ASSUME NEW S, IsFiniteSet(S)
  PROVE  SetToSeq(S) \in Seq(S)
<1> DEFINE n == Cardinality(S)
<1>1. n \in Nat /\ ExistsBijection(1..n, S)
  BY FS_CardinalityType
<1>2. PICK f \in [1..n -> S] : IsInjective(f)
  BY <1>1 DEF ExistsBijection, Bijection, Injection
<1>3. SetToSeq(S) \in [1..n -> S]
  BY <1>2 DEF SetToSeq
<1> QED BY <1>1, <1>3, SeqDef

\* A set of natural numbers has a least one.
LEMMA Least ==
  ASSUME NEW T \in SUBSET Nat, T # {}
  PROVE  \E k \in T : \A j \in T : k <= j
<1> DEFINE Segments == {1..k : k \in T}
<1>1. Segments \subseteq FiniteSubsetsOf(Nat)
  <2> SUFFICES ASSUME NEW k \in T PROVE 1..k \in FiniteSubsetsOf(Nat)
    OBVIOUS
  <2>1. 1..k \in SUBSET Nat /\ IsFiniteSet(1..k)
    BY FS_Interval
  <2> QED BY <2>1 DEF FiniteSubsetsOf
<1>2. Segments # {}
  OBVIOUS
<1>3. PICK U \in Segments : \A V \in Segments : <<V, U>> \notin StrictSubsetOrdering(Nat)
  BY <1>1, <1>2, WFMin, FS_StrictSubsetOrderingWellFounded
<1>4. PICK k \in T : U = 1..k
  OBVIOUS
<1>5. ASSUME NEW j \in T, j < k PROVE FALSE
  <2>1. 1..j \subseteq U /\ k \in U /\ k \notin 1..j
    BY <1>4, <1>5
  <2>2. <<1..j, U>> \in StrictSubsetOrdering(Nat)
    BY <1>4, <2>1 DEF StrictSubsetOrdering
  <2> QED BY <1>3, <2>2
<1> QED BY <1>5

\* Of some places in lists one is the first.
LEMMA FirstIsOne ==
  ASSUME NEW places \in SUBSET (Nat \X Nat), places # {}
  PROVE  FirstOf(places) \in places
<1> DEFINE rows == {a[1] : a \in places}
<1>1. rows \in SUBSET Nat /\ rows # {}
  OBVIOUS
<1>2. PICK i \in rows : \A r \in rows : i <= r
  BY <1>1, Least
<1> DEFINE columns == {a[2] : a \in {b \in places : b[1] = i}}
<1>3. columns \in SUBSET Nat /\ columns # {}
  OBVIOUS
<1>4. PICK j \in columns : \A c \in columns : j <= c
  BY <1>3, Least
<1>5. PICK a \in places : a[1] = i /\ a[2] = j
  OBVIOUS
<1>6. ASSUME NEW b \in places PROVE a[1] < b[1] \/ (a[1] = b[1] /\ a[2] <= b[2])
  <2>1. i \in Nat /\ b[1] \in Nat /\ i <= b[1]
    BY <1>2
  <2>2. CASE b[1] = i
    <3>1. b[2] \in columns
      BY <2>2
    <3> QED BY <3>1, <2>2, <1>4, <1>5
  <2> QED BY <2>1, <2>2, <1>5
<1> QED BY <1>5, <1>6 DEF FirstOf

-----------------------------------------------------------------------------
(* What a task goes on with                                                *)

\* What a reconciler takes up of a device is the desired state.
LEMMA TakenFresh ==
  ASSUME NEW t \in Reconcilers, NEW x, NEW tab, NEW cool, NEW N, NEW X,
         TableFresh(tab, N, X)
  PROVE  IsSequence(Taken(t, x, tab, cool)) /\ Fresh(Taken(t, x, tab, cool), N, X)
<1>1. ASSUME NEW S \in SUBSET {p \in Points : tab[p] # None}, NEW q,
             q = [i \in DOMAIN SetToSeq(S) |-> Entry(SetToSeq(S)[i], tab[SetToSeq(S)[i]])]
      PROVE  IsSequence(q) /\ Fresh(q, N, X)
  <2> DEFINE ps == SetToSeq(S)
  <2>1. ps \in Seq(S)
    <3>1. IsFiniteSet(S)
      BY FS_Subset, RoutingAssumption
    <3> QED BY <3>1, SetSequence
  <2>2. Len(ps) \in Nat /\ DOMAIN ps = 1..Len(ps) /\ \A i \in DOMAIN ps : ps[i] \in S
    BY <2>1, LenProperties, ElementOfSeq
  <2> HIDE DEF ps
  <2>3. q = [i \in DOMAIN ps |-> Entry(ps[i], tab[ps[i]])]
    BY <1>1 DEF ps
  <2>4. IsSequence(q)
    <3>1. q \in [1..Len(ps) -> {Entry(p, tab[p]) : p \in S}]
      BY <2>2, <2>3
    <3>2. q \in Seq({Entry(p, tab[p]) : p \in S})
      BY <3>1, <2>2, SeqDef
    <3> QED BY <3>2 DEF IsSequence
  <2>5. Fresh(q, N, X)
    <3> SUFFICES ASSUME NEW i \in DOMAIN q, q[i].point \in Points \ X
                 PROVE  q[i].to = N[q[i].point]
      BY DEF Fresh, Range
    <3>1. q[i] = Entry(ps[i], tab[ps[i]]) /\ ps[i] \in S
      BY <2>2, <2>3
    <3>2. q[i].point = ps[i] /\ q[i].to = tab[ps[i]]
      BY <3>1 DEF Entry
    <3>3. tab[ps[i]] # None /\ ps[i] \in Points \ X
      BY <3>1, <3>2
    <3> QED BY <3>2, <3>3 DEF TableFresh
  <2> QED BY <2>4, <2>5
<1>2. CASE t = "refresh"
  <2> DEFINE S == {p \in Points : DeviceOf[p] = x /\ tab[p] # None}
             q == [i \in DOMAIN SetToSeq(S) |-> Entry(SetToSeq(S)[i], tab[SetToSeq(S)[i]])]
  <2>1. Taken(t, x, tab, cool) = q
    BY <1>2 DEF Taken
  <2>2. S \in SUBSET {p \in Points : tab[p] # None}
    OBVIOUS
  <2> HIDE DEF S
  <2>3. IsSequence(q) /\ Fresh(q, N, X)
    BY <2>2, <1>1
  <2> QED BY <2>1, <2>3
<1>3. CASE t = "drift"
  <2> DEFINE S == {p \in Points : /\ DeviceOf[p] = x /\ Reachable(p)
                                  /\ tab[p] # None /\ latest[p] # tab[p]
                                  /\ p \notin cool}
             q == [i \in DOMAIN SetToSeq(S) |-> Entry(SetToSeq(S)[i], tab[SetToSeq(S)[i]])]
  <2>1. Taken(t, x, tab, cool) = q
    BY <1>3 DEF Taken
  <2>2. S \in SUBSET {p \in Points : tab[p] # None}
    OBVIOUS
  <2> HIDE DEF S
  <2>3. IsSequence(q) /\ Fresh(q, N, X)
    BY <2>2, <1>1
  <2> QED BY <2>1, <2>3
<1> QED BY <1>2, <1>3 DEF Reconcilers

\* So are all lists it goes on with, if the one it has begun is.
LEMMA ListsAreFresh ==
  ASSUME NEW t \in Reconcilers, NEW list, NEW left, NEW tab, NEW cool, NEW N, NEW X,
         IsSequence(list), Fresh(list, N, X), IsSequence(left), TableFresh(tab, N, X),
         NEW lists, lists = Lists(t, list, left, tab, cool)
  PROVE  /\ DOMAIN lists \subseteq Nat \ {0}
         /\ \A i \in DOMAIN lists : IsSequence(lists[i]) /\ Fresh(lists[i], N, X)
<1> DEFINE after == [i \in DOMAIN left |-> Taken(t, left[i], tab, cool)]
           All == {list} \cup {Taken(t, left[i], tab, cool) : i \in DOMAIN left}
<1>1. PICK S : left \in Seq(S)
  BY DEF IsSequence
<1>2. Len(left) \in Nat /\ DOMAIN left = 1..Len(left)
  BY <1>1, LenProperties
<1>3. after \in Seq(All)
  <2>1. after \in [1..Len(left) -> All]
    BY <1>2
  <2> HIDE DEF after, All
  <2> QED BY <2>1, <1>2, SeqDef
<1>4. <<list>> \in Seq(All)
  OBVIOUS
<1>5. lists \in Seq(All)
  <2>1. lists = <<list>> \o after
    BY DEF Lists
  <2> HIDE DEF after, All
  <2> QED BY <2>1, <1>3, <1>4, ConcatProperties
<1>6. DOMAIN lists = 1..Len(lists) /\ \A i \in DOMAIN lists : lists[i] \in All
  <2> HIDE DEF All
  <2> QED BY <1>5, LenProperties, ElementOfSeq
<1>7. \A q \in All : IsSequence(q) /\ Fresh(q, N, X)
  BY TakenFresh
<1> QED BY <1>6, <1>7

\* A task that goes on leaves what the reconcilers hold and have issued fresh.
LEMMA ContinueKeeps ==
  ASSUME NEW t \in Tasks, NEW list, NEW left, NEW tab, NEW cool, NEW bs, NEW N, NEW X,
         t \in Reconcilers =>
           IsSequence(list) /\ Fresh(list, N, X) /\ IsSequence(left),
         TableFresh(tab, N, X), TasksFresh(tasks, N, X), BusFresh(bs, N, X),
         Continue(t, list, left, tab, cool, bs)
  PROVE  TasksFresh(tasks', N, X) /\ BusFresh(bus', N, X)
<1> DEFINE lists == Lists(t, list, left, tab, cool)
           open == Open(t, lists)
           c == FirstOf(open)
           e == lists[c[1]][c[2]]
<1>1. CASE open = {}
  <2>1. tasks' = [tasks EXCEPT ![t] = Idle] /\ bus' = bs
    BY <1>1 DEF Continue, Ended
  <2>2. TasksFresh(tasks', N, X)
    <3>1. IsSequence(<<>>)
      BY EmptySeq DEF IsSequence
    <3>2. IsSequence(Idle.list) /\ IsSequence(Idle.left) /\ Fresh(Idle.list, N, X)
      BY <3>1 DEF Idle, Fresh, Range
    <3> QED BY <2>1, <3>2 DEF TasksFresh, Reconcilers, Tasks
  <2> QED BY <2>1, <2>2
<1>2. CASE open # {}
  <2> DEFINE rest == SubSeq(lists[c[1]], c[2] + 1, Len(lists[c[1]]))
             then == SubSeq(left, c[1], Len(left))
             d == DeviceOf[e.point]
             w == [task |-> t, point |-> e.point, to |-> e.to]
  <2>1. /\ tasks' = [tasks EXCEPT ![t] = [list |-> rest, left |-> then, busy |-> TRUE]]
        /\ bus' = [bs EXCEPT ![d] = Append(bs[d], w)]
    BY <1>2 DEF Continue
  <2>2. ASSUME t \in Reconcilers
        PROVE  /\ IsSequence(rest) /\ IsSequence(then) /\ Fresh(rest, N, X)
               /\ e.point \in Points \ X => e.to = N[e.point]
    <3>1. /\ DOMAIN lists \subseteq Nat \ {0}
          /\ \A i \in DOMAIN lists : IsSequence(lists[i]) /\ Fresh(lists[i], N, X)
      <4> HIDE DEF lists
      <4> QED BY <2>2, ListsAreFresh DEF lists
    <3> HIDE DEF lists
    <3>2. \A i \in DOMAIN lists : DOMAIN lists[i] \subseteq Nat
      BY <3>1, LenProperties DEF IsSequence
    <3>3. open \in SUBSET (Nat \X Nat)
      BY <3>1, <3>2 DEF Open
    <3>4. c \in open
      <4> HIDE DEF open
      <4> QED BY <1>2, <3>3, FirstIsOne
    <3>5. c[1] \in DOMAIN lists /\ c[2] \in DOMAIN lists[c[1]]
      <4> HIDE DEF c
      <4> QED BY <3>4 DEF Open
    <3> HIDE DEF c, open
    <3>6. c[1] \in Nat \ {0} /\ c[2] + 1 \in Nat \ {0}
      BY <3>1, <3>2, <3>5
    <3>7. IsSequence(lists[c[1]]) /\ Fresh(lists[c[1]], N, X)
      BY <3>1, <3>5
    <3>8. IsSequence(rest) /\ Range(rest) \subseteq Range(lists[c[1]])
      BY <3>6, <3>7, Rest
    <3>9. IsSequence(then)
      BY <2>2, <3>6, Rest
    <3>10. e \in Range(lists[c[1]])
      BY <3>5 DEF Range
    <3> HIDE DEF rest, then, e
    <3>11. Fresh(rest, N, X)
      BY <3>7, <3>8 DEF Fresh
    <3>12. e.point \in Points \ X => e.to = N[e.point]
      BY <3>7, <3>10 DEF Fresh
    <3> QED BY <3>8, <3>9, <3>11, <3>12
  <2> HIDE DEF rest, then, e
  <2>3. TasksFresh(tasks', N, X)
    BY <2>1, <2>2 DEF TasksFresh
  <2>4. BusFresh(bus', N, X)
    <3>1. w.task = t /\ w.point = e.point /\ w.to = e.to
      OBVIOUS
    <3>2. t \in Reconcilers /\ w.point \in Points \ X => w.to = N[w.point]
      BY <3>1, <2>2
    <3>3. w.task \in Tasks /\ DeviceOf[w.point] = d
      BY <3>1
    <3> HIDE DEF w, d
    <3> SUFFICES ASSUME NEW a \in Targeted
                 PROVE  /\ IsSequence(bus'[a])
                        /\ \A v \in Range(bus'[a]) :
                             /\ v.task \in Tasks /\ DeviceOf[v.point] = a
                             /\ v.task \in Reconcilers /\ v.point \in Points \ X
                                => v.to = N[v.point]
      BY <2>1 DEF BusFresh
    <3>4. CASE a = d
      <4>1. bus'[a] = Append(bs[a], w)
        BY <2>1, <3>4 DEF BusFresh
      <4>2. IsSequence(bus'[a]) /\ Range(bus'[a]) \subseteq Range(bs[a]) \cup {w}
        BY <4>1, Appended DEF BusFresh
      <4> QED BY <4>2, <3>1, <3>2, <3>3, <3>4 DEF BusFresh
    <3>5. CASE a # d
      BY <3>5, <2>1 DEF BusFresh
    <3> QED BY <3>4, <3>5
  <2> QED BY <2>3, <2>4
<1> QED BY <1>1, <1>2

-----------------------------------------------------------------------------
(* The steps                                                               *)

LEMMA RoutingBegins ==
  ASSUME RoutingInit
  PROVE  RoutingInv
<1>1. IsSequence(<<>>) /\ Range(<<>>) = {}
  BY EmptySeq DEF IsSequence, Range
<1>2. TasksFresh(tasks, newest, crossed)
  BY <1>1 DEF RoutingInit, TasksFresh, Idle, Fresh, Tasks
<1>3. BusFresh(bus, newest, crossed)
  BY <1>1 DEF RoutingInit, BusFresh
<1>4. TableFresh(table, newest, crossed) /\ DOMAIN table = Points /\ DOMAIN newest = Points
  BY DEF RoutingInit, TableFresh
<1> QED BY <1>2, <1>3, <1>4 DEF RoutingInv

\* A command or a round begins with the table as it is.
LEMMA BeginKeeps ==
  ASSUME RoutingInv, NEW t \in Tasks, NEW left,
         t \in Reconcilers => IsSequence(left),
         Continue(t, <<>>, left, table, cooling, bus),
         UNCHANGED <<table, newest, crossed>>
  PROVE  RoutingInv'
<1>1. IsSequence(<<>>) /\ Fresh(<<>>, newest, crossed)
  BY EmptySeq DEF IsSequence, Fresh, Range
<1>2. /\ TableFresh(table, newest, crossed) /\ TasksFresh(tasks, newest, crossed)
      /\ BusFresh(bus, newest, crossed)
  BY DEF RoutingInv
<1>3. TasksFresh(tasks', newest, crossed) /\ BusFresh(bus', newest, crossed)
  BY <1>1, <1>2, ContinueKeeps
<1>4. DOMAIN table = Points /\ DOMAIN newest = Points
  BY DEF RoutingInv
<1> QED BY <1>2, <1>3, <1>4 DEF RoutingInv

\* Nobody holds a copy of a point that Copied does not find.
LEMMA NoCopy ==
  ASSUME RoutingInv, NEW p \in Points, ~Copied(p)
  PROVE  /\ \A t \in Reconcilers : \A e \in Range(tasks[t].list) : e.point # p
         /\ \A d \in Targeted : \A w \in Range(bus[d]) :
              w.task \in Reconcilers => w.point # p
<1>1. ASSUME NEW t \in Reconcilers, NEW e \in Range(tasks[t].list) PROVE e.point # p
  BY DEF Copied, Range
<1>2. ASSUME NEW d \in Targeted, NEW w \in Range(bus[d]), w.task \in Reconcilers, w.point = p
      PROVE  FALSE
  <2>1. DeviceOf[p] = d
    BY <1>2 DEF RoutingInv, BusFresh
  <2>2. PICK i \in DOMAIN bus[d] : bus[d][i] = w
    BY DEF Range
  <2> QED BY <2>1, <2>2, <1>2 DEF Copied
<1> QED BY <1>1, <1>2

\* A write of a device is carried out, and its task goes on.
LEMMA FinishKeeps ==
  ASSUME RoutingInv, NEW d \in Targeted, NEW result, Finish(d, result)
  PROVE  RoutingInv'
<1> DEFINE w == Head(bus[d])
           t == w.task
           tab == IF result = "raised" THEN table ELSE Recorded(w.point, w.to)
           cool == IF t = "drift" /\ result # "raised" THEN cooling \cup {w.point} ELSE cooling
           bs == [bus EXCEPT ![d] = Tail(bus[d])]
<1>1. /\ bus[d] # <<>> /\ table' = tab
      /\ IF t = "route" /\ result # "raised"
         THEN /\ newest' = [newest EXCEPT ![w.point] = w.to]
              /\ crossed' = IF Copied(w.point) THEN crossed \cup {w.point}
                            ELSE crossed \ {w.point}
         ELSE UNCHANGED <<newest, crossed>>
      /\ Continue(t, tasks[t].list, tasks[t].left, tab, cool, bs)
  BY DEF Finish
<1>2. /\ DOMAIN table = Points /\ DOMAIN newest = Points
      /\ TableFresh(table, newest, crossed) /\ TasksFresh(tasks, newest, crossed)
      /\ BusFresh(bus, newest, crossed)
  BY DEF RoutingInv
<1>3. w \in Range(bus[d]) /\ IsSequence(Tail(bus[d])) /\ Range(Tail(bus[d])) \subseteq Range(bus[d])
  BY <1>1, <1>2, HeadAndTail DEF BusFresh
<1>4. /\ t \in Tasks /\ DeviceOf[w.point] = d
      /\ t \in Reconcilers /\ w.point \in Points \ crossed => w.to = newest[w.point]
  BY <1>2, <1>3 DEF BusFresh
<1> HIDE DEF w, t
<1>5. DOMAIN table' = Points /\ DOMAIN newest' = Points
  BY <1>1, <1>2 DEF Recorded
<1>6. BusFresh(bs, newest, crossed)
  BY <1>2, <1>3 DEF BusFresh
<1>7. /\ TableFresh(tab, newest', crossed') /\ TasksFresh(tasks, newest', crossed')
      /\ BusFresh(bs, newest', crossed')
  <2>1. CASE t = "route" /\ result # "raised"
    <3>1. /\ newest' = [newest EXCEPT ![w.point] = w.to]
          /\ tab = [table EXCEPT ![w.point] = w.to]
          /\ crossed' = IF Copied(w.point) THEN crossed \cup {w.point}
                        ELSE crossed \ {w.point}
      BY <1>1, <2>1 DEF Recorded
    <3>2. \A p \in Points : p # w.point =>
            newest'[p] = newest[p] /\ tab[p] = table[p] /\ (p \in crossed' <=> p \in crossed)
      BY <1>2, <3>1
    <3>3. w.point \in Points => tab[w.point] = newest'[w.point]
      BY <1>2, <3>1
    <3>4. w.point \in crossed' \/ ~Copied(w.point)
      BY <3>1
    <3> HIDE DEF tab, bs
    <3>5. TableFresh(tab, newest', crossed')
      BY <1>2, <3>2, <3>3 DEF TableFresh
    <3>6. TasksFresh(tasks, newest', crossed')
      <4>1. ASSUME NEW s \in Reconcilers, NEW e \in Range(tasks[s].list),
                   e.point \in Points \ crossed'
            PROVE  e.to = newest'[e.point]
        <5>1. e.point # w.point
          BY <3>4, <4>1, NoCopy
        <5> QED BY <5>1, <4>1, <3>2, <1>2 DEF TasksFresh, Fresh
      <4> QED BY <4>1, <1>2 DEF TasksFresh, Fresh
    <3>7. BusFresh(bs, newest', crossed')
      <4>1. ASSUME NEW a \in Targeted, NEW v \in Range(bs[a]), v.task \in Reconcilers,
                   v.point \in Points \ crossed'
            PROVE  v.to = newest'[v.point]
        <5>1. v \in Range(bus[a])
          BY <1>2, <1>3, <4>1 DEF bs, BusFresh
        <5>2. v.point # w.point
          BY <3>4, <4>1, <5>1, NoCopy
        <5> QED BY <5>1, <5>2, <4>1, <3>2, <1>2 DEF BusFresh
      <4> QED BY <4>1, <1>6 DEF BusFresh
    <3> QED BY <3>5, <3>6, <3>7
  <2>2. CASE ~(t = "route" /\ result # "raised")
    <3>1. newest' = newest /\ crossed' = crossed
      BY <1>1, <2>2
    <3>2. CASE result = "raised"
      BY <1>2, <1>6, <3>1, <3>2
    <3>3. CASE result # "raised"
      <4>1. t \in Reconcilers /\ tab = [table EXCEPT ![w.point] = w.to]
        BY <1>4, <2>2, <3>3 DEF Tasks, Recorded
      <4>2. TableFresh(tab, newest, crossed)
        BY <1>2, <1>4, <4>1 DEF TableFresh
      <4> QED BY <1>2, <1>6, <3>1, <4>2
    <3> QED BY <3>2, <3>3
  <2> QED BY <2>1, <2>2
<1>8. t \in Reconcilers =>
        /\ IsSequence(tasks[t].list) /\ IsSequence(tasks[t].left)
        /\ Fresh(tasks[t].list, newest', crossed')
  BY <1>7 DEF TasksFresh
<1>9. TasksFresh(tasks', newest', crossed') /\ BusFresh(bus', newest', crossed')
  <2> HIDE DEF tab, cool, bs
  <2> QED BY <1>1, <1>4, <1>7, <1>8, ContinueKeeps
<1> QED BY <1>1, <1>5, <1>7, <1>9 DEF RoutingInv

\* A device is dropped: nothing is known of its points but what is still under way.
LEMMA UnregisterKeeps ==
  ASSUME RoutingInv, NEW d \in Targeted, Unregister(d)
  PROVE  RoutingInv'
<1>1. /\ table' = [p \in Points |-> IF DeviceOf[p] = d THEN None ELSE table[p]]
      /\ newest' = [p \in Points |-> IF DeviceOf[p] = d THEN None ELSE newest[p]]
      /\ crossed' = crossed \cup {p \in Points : DeviceOf[p] = d /\ Copied(p)}
      /\ tasks' = tasks /\ bus' = bus
  BY DEF Unregister
<1>2. \A p \in Points : p \notin crossed' =>
        p \notin crossed /\ (DeviceOf[p] # d \/ ~Copied(p))
  BY <1>1
<1>3. DOMAIN table' = Points /\ DOMAIN newest' = Points
  BY <1>1
<1>4. TableFresh(table', newest', crossed')
  BY <1>1, <1>2 DEF TableFresh, RoutingInv
<1>5. TasksFresh(tasks', newest', crossed')
  <2>1. ASSUME NEW s \in Reconcilers, NEW e \in Range(tasks[s].list),
               e.point \in Points \ crossed'
        PROVE  e.to = newest'[e.point]
    <3>1. DeviceOf[e.point] # d /\ e.point \notin crossed
      BY <1>2, <2>1, NoCopy
    <3>2. e.to = newest[e.point]
      BY <2>1, <3>1 DEF RoutingInv, TasksFresh, Fresh
    <3> QED BY <1>1, <2>1, <3>1, <3>2
  <2> QED BY <1>1, <2>1 DEF RoutingInv, TasksFresh, Fresh
<1>6. BusFresh(bus', newest', crossed')
  <2>1. ASSUME NEW a \in Targeted, NEW v \in Range(bus[a]), v.task \in Reconcilers,
               v.point \in Points \ crossed'
        PROVE  v.to = newest'[v.point]
    <3>1. DeviceOf[v.point] # d /\ v.point \notin crossed
      BY <1>2, <2>1, NoCopy
    <3>2. v.to = newest[v.point]
      BY <2>1, <3>1 DEF RoutingInv, BusFresh
    <3> QED BY <1>1, <2>1, <3>1, <3>2
  <2> QED BY <1>1, <2>1 DEF RoutingInv, BusFresh
<1> QED BY <1>3, <1>4, <1>5, <1>6 DEF RoutingInv

\* Every step keeps what is known fresh.
LEMMA RoutingStep ==
  ASSUME RoutingInv, [RoutingNext]_routingVars
  PROVE  RoutingInv'
<1>1. ASSUME UNCHANGED <<table, newest, crossed, tasks, bus>> PROVE RoutingInv'
  BY <1>1 DEF RoutingInv
<1>2. CASE Route
  <2>1. PICK fields \in SUBSET (DOMAIN Mappings) \ {{}} :
          Continue("route", <<>>, SetToSortSeq(fields, <), table, cooling, bus)
    BY <1>2 DEF Route
  <2>2. UNCHANGED <<table, newest, crossed>> /\ "route" \in Tasks /\ "route" \notin Reconcilers
    BY <1>2 DEF Route, Tasks, Reconcilers
  <2> QED BY <2>1, <2>2, BeginKeeps
<1>3. ASSUME NEW t \in Reconcilers, Round(t) PROVE RoutingInv'
  <2> DEFINE S == {DeviceOf[p] : p \in {q \in Points : table[q] # None}}
  <2>1. Continue(t, <<>>, SetToSeq(S), table, cooling, bus) /\ UNCHANGED <<table, newest, crossed>>
    BY <1>3 DEF Round
  <2>2. IsSequence(SetToSeq(S))
    <3>1. S \in SUBSET Targeted
      BY RoutingAssumption
    <3> HIDE DEF S
    <3>2. IsFiniteSet(S)
      BY <3>1, FS_Subset, RoutingAssumption
    <3> QED BY <3>2, SetSequence DEF IsSequence
  <2> HIDE DEF S
  <2> QED BY <2>1, <2>2, BeginKeeps DEF Tasks
<1>4. ASSUME NEW p \in Points, CooledDown(p) PROVE RoutingInv'
  BY <1>1, <1>4 DEF CooledDown
<1>5. ASSUME NEW d \in Targeted PROVE Done(d) \/ Refuses(d) \/ Raises(d) => RoutingInv'
  BY FinishKeeps DEF Done, Refuses, Raises
<1>6. ASSUME NEW d \in Targeted PROVE Unregister(d) => RoutingInv'
  BY UnregisterKeeps
<1>7. ASSUME NEW d \in Targeted,
             ReadAll(d) \/ Resets(d) \/ Reachability(d) \/ Protection(d) \/ Register(d)
      PROVE  RoutingInv'
  BY <1>1, <1>7 DEF ReadAll, Resets, Reachability, Protection, Register
<1>8. CASE UNCHANGED routingVars
  BY <1>1, <1>8 DEF routingVars
<1> QED BY <1>2, <1>3, <1>4, <1>5, <1>6, <1>7, <1>8 DEF RoutingNext

\* In every state what reconcilers hold and write of a point is its last command, unless
\* it came while they had a copy of its former state.
THEOREM RoutingInvariance == RoutingSpec => []RoutingInv
<1>1. RoutingInit => RoutingInv
  BY RoutingBegins
<1>2. RoutingInv /\ [RoutingNext]_routingVars => RoutingInv'
  BY RoutingStep
<1> QED BY <1>1, <1>2, PTL DEF RoutingSpec

\* The refresh service and the drift reconciler of integration/command_refresh.py and
\* integration/setpoint_drift_reconciler.py never undo a command in the desired state of
\* CommandRouter, whatever they write, is refused or raises, and whichever devices go and
\* come back, unless they had a copy of the state before it.
THEOREM CommandsAlwaysPersist == RoutingSpec => []CommandsPersist
<1>1. RoutingInv => CommandsPersist
  BY DEF RoutingInv, TableFresh, CommandsPersist
<1> QED BY <1>1, RoutingInvariance, PTL

-----------------------------------------------------------------------------
(* A device and the records that are kept of it.                           *)

AlarmStates == [active : BOOLEAN, up : 0..ActivateAfter, down : 0..ClearAfter]

DeviceTasks ==
    [at : {"off", "sleeping", "connecting", "reading", "disconnecting", "emitting"},
     event : Events \cup {NoEvent}, step : {"none", "find", "insert", "update"},
     then : {"none", "read", "evaluate", "sleeping", "off"}, bit : BOOLEAN]

\* A task that emits is before a call of its event's handler, another one has no event.
Emits(p) ==
    /\ p \in DeviceTasks
    /\ p.at = "emitting" <=> p.event # NoEvent
    /\ p.event \in {"disconnected", "triggered"} => p.step \in {"find", "insert"}
    /\ p.event \in {"connected", "cleared"} => p.step = "update"

OfLink(p) == p.event \in {"connected", "disconnected"}
OfAlarm(p) == p.event \in {"triggered", "cleared"}

\* The reader reads over a connection, and evaluates only after the event of one; the
\* application connects and disconnects while no reader runs.
Roles ==
    /\ Emits(reading) /\ Emits(app)
    /\ reading.at # "disconnecting" /\ app.event # "triggered"
    /\ reading.at \in {"reading", "emitting"} => connected
    /\ reading.then = "evaluate" => reading.event = "connected" /\ responsive
    /\ app.at \in {"connecting", "disconnecting"} \/ OfLink(app) => reading.at = "off"

\* A connection event that is still emitted is of the present state; when none is, the
\* record of the disconnection is.
LinkAgrees ==
    /\ \A p \in {reading, app} : OfLink(p) => (p.event = "connected" <=> responsive)
    /\ ~OfLink(reading) /\ ~OfLink(app) /\ everUp => (record.down <=> ~responsive)

\* One task at most emits an event of the alarm, and of its present state; when none
\* does, the record of the alarm is.
AlarmAgrees ==
    /\ ~(OfAlarm(reading) /\ OfAlarm(app))
    /\ \A p \in {reading, app} : OfAlarm(p) => (p.event = "triggered" <=> alarm.active)
    /\ ~OfAlarm(reading) /\ ~OfAlarm(app) => (record.alarm <=> alarm.active)

\* The alarm's counts are of the last readings.
Ends(s, n, bit) == n <= Len(s) /\ \A i \in 0..(n - 1) : s[Len(s) - i] = bit
CountsTrue == Ends(bits, alarm.up, TRUE) /\ Ends(bits, alarm.down, FALSE)

DeviceKinds ==
    /\ reader \in Readers /\ connected \in BOOLEAN /\ responsive \in BOOLEAN
    /\ failures \in 0..Threshold /\ everUp \in BOOLEAN
    /\ alarm \in AlarmStates /\ bits \in Seq(BOOLEAN)
    /\ record \in [down : BOOLEAN, alarm : BOOLEAN]
    /\ cut \subseteq {"cancelled", "raised", "raced"}
    /\ responsive => everUp /\ connected

DeviceInv ==
    /\ DeviceKinds /\ Roles /\ CountsTrue
    /\ cut = {} => LinkAgrees /\ AlarmAgrees

\* Of two numbers Min is the lesser one, Max the greater one.
LEMMA LeastOfTwo ==
  ASSUME NEW x \in Nat, NEW y \in Nat
  PROVE  Min({x, y}) = IF x <= y THEN x ELSE y
<1>1. PICK m \in {x, y} : \A z \in {x, y} : m =< z
  OBVIOUS
<1>2. /\ Min({x, y}) \in {x, y}
      /\ \A z \in {x, y} : Min({x, y}) =< z
  BY <1>1 DEF Min
<1> QED BY <1>2

LEMMA GreatestOfTwo ==
  ASSUME NEW x \in Int, NEW y \in Int
  PROVE  Max({x, y}) = IF x >= y THEN x ELSE y
<1>1. PICK m \in {x, y} : \A z \in {x, y} : m >= z
  OBVIOUS
<1>2. /\ Max({x, y}) \in {x, y}
      /\ \A z \in {x, y} : Max({x, y}) >= z
  BY <1>1 DEF Max
<1> QED BY <1>2

\* What a reading makes of an alarm.
LEMMA EvaluatedAlarm ==
  ASSUME NEW a \in AlarmStates, NEW bit \in BOOLEAN
  PROVE  /\ Evaluated(a, bit) \in AlarmStates
         /\ Evaluated(a, bit).up <= IF bit THEN a.up + 1 ELSE 0
         /\ Evaluated(a, bit).down <= IF bit THEN 0 ELSE a.down + 1
         /\ Evaluated(a, bit).active /\ ~a.active =>
              bit /\ Evaluated(a, bit).up = ActivateAfter
         /\ ~Evaluated(a, bit).active /\ a.active =>
              ~bit /\ Evaluated(a, bit).down = ClearAfter
<1> DEFINE u == IF bit THEN Min({a.up + 1, ActivateAfter}) ELSE 0
           d == IF bit THEN 0 ELSE Min({a.down + 1, ClearAfter})
           act == IF bit THEN a.active \/ u >= ActivateAfter ELSE a.active /\ d < ClearAfter
<1>1. Evaluated(a, bit) = [active |-> act, up |-> u, down |-> d]
  BY DEF Evaluated
<1>2. /\ ActivateAfter \in Nat \ {0} /\ ClearAfter \in Nat \ {0}
      /\ a.up \in 0..ActivateAfter /\ a.down \in 0..ClearAfter /\ a.active \in BOOLEAN
  BY DeviceAssumption DEF AlarmStates
<1>3. bit => u = IF a.up + 1 <= ActivateAfter THEN a.up + 1 ELSE ActivateAfter
  BY <1>2, LeastOfTwo
<1>4. ~bit => d = IF a.down + 1 <= ClearAfter THEN a.down + 1 ELSE ClearAfter
  BY <1>2, LeastOfTwo
<1>5. u \in 0..ActivateAfter /\ d \in 0..ClearAfter
  BY <1>2, <1>3, <1>4
<1>6. act \in BOOLEAN
  BY <1>2
<1>7. /\ u <= IF bit THEN a.up + 1 ELSE 0
      /\ d <= IF bit THEN 0 ELSE a.down + 1
  BY <1>2, <1>3, <1>4
<1>8. /\ act /\ ~a.active => bit /\ u = ActivateAfter
      /\ ~act /\ a.active => ~bit /\ d = ClearAfter
  BY <1>2, <1>5
<1> HIDE DEF u, d, act
<1> QED BY <1>1, <1>5, <1>6, <1>7, <1>8 DEF AlarmStates

\* As many readings are remembered as either threshold asks for.
LEMMA RememberedMany == Remembered \in Nat /\ ActivateAfter <= Remembered /\ ClearAfter <= Remembered
<1>1. ActivateAfter \in Nat /\ ClearAfter \in Nat
  BY DeviceAssumption
<1>2. ActivateAfter \in Int /\ ClearAfter \in Int
  BY <1>1
<1>3. Max({ActivateAfter, ClearAfter}) =
        IF ActivateAfter >= ClearAfter THEN ActivateAfter ELSE ClearAfter
  BY <1>2, GreatestOfTwo
<1> QED BY <1>1, <1>3 DEF Remembered

\* What is remembered is the end of all readings.
LEMMA RememberedEnd ==
  ASSUME NEW s \in Seq(BOOLEAN), NEW bit \in BOOLEAN
  PROVE  /\ Remember(s, bit) \in Seq(BOOLEAN)
         /\ Len(Remember(s, bit)) =
              IF Len(s) + 1 <= Remembered THEN Len(s) + 1 ELSE Remembered
         /\ Len(Remember(s, bit)) > 0 => Remember(s, bit)[Len(Remember(s, bit))] = bit
         /\ \A i \in 1..(Len(Remember(s, bit)) - 1) :
              Remember(s, bit)[Len(Remember(s, bit)) - i] = s[Len(s) + 1 - i]
<1> DEFINE all == Append(s, bit)
           n == Len(s) + 1
           m == Max({1, n + 1 - Remembered})
           r == Remember(s, bit)
<1>1. /\ all \in Seq(BOOLEAN) /\ Len(all) = n /\ n \in Nat /\ Len(s) = n - 1
      /\ all[n] = bit /\ \A i \in 1..(n - 1) : all[i] = s[i]
  OBVIOUS
<1>2. r = SubSeq(all, m, n)
  BY <1>1 DEF Remember
<1>3. Remembered \in Nat
  BY RememberedMany
<1>4. m = IF n <= Remembered THEN 1 ELSE n + 1 - Remembered
  <2>1. 1 \in Int /\ n + 1 - Remembered \in Int
    BY <1>1, <1>3
  <2>2. m = IF 1 >= n + 1 - Remembered THEN 1 ELSE n + 1 - Remembered
    BY <2>1, GreatestOfTwo
  <2> HIDE DEF m, n
  <2> QED BY <1>1, <1>3, <2>2
<1>5. /\ r \in Seq(BOOLEAN)
      /\ Len(r) = IF n <= Remembered THEN n ELSE Remembered
      /\ Len(r) > 0 => r[Len(r)] = bit
      /\ \A i \in 1..(Len(r) - 1) : r[Len(r) - i] = s[n - i]
  <2> HIDE DEF all, n, m, r
  <2>1. m \in Int /\ n \in Int /\ m >= 1
    BY <1>1, <1>3, <1>4
  <2>2. ASSUME NEW i \in m..n PROVE all[i] \in BOOLEAN
    <3>1. i \in 1..Len(all)
      BY <1>1, <2>1, <2>2
    <3> QED BY <1>1, <3>1, ElementOfSeq
  <2>3. /\ SubSeq(all, m, n) \in Seq(BOOLEAN)
        /\ Len(SubSeq(all, m, n)) = IF m <= n THEN n - m + 1 ELSE 0
        /\ \A i \in 1 .. n - m + 1 : SubSeq(all, m, n)[i] = all[m + i - 1]
    BY <2>1, <2>2, SubSeqProperties
  <2>4. /\ r \in Seq(BOOLEAN) /\ Len(r) = IF m <= n THEN n - m + 1 ELSE 0
        /\ \A i \in 1 .. n - m + 1 : r[i] = all[m + i - 1]
    BY <1>2, <2>3
  <2>5. Len(r) = IF n <= Remembered THEN n ELSE Remembered
    BY <1>1, <1>3, <1>4, <2>1, <2>4
  <2>6. ASSUME Len(r) > 0 PROVE r[Len(r)] = bit
    <3>1. m <= n /\ Len(r) = n - m + 1
      BY <2>4, <2>6
    <3>2. n - m + 1 \in 1..(n - m + 1) /\ m + (n - m + 1) - 1 = n
      BY <2>1, <3>1
    <3>3. r[n - m + 1] = all[n]
      BY <2>4, <3>2
    <3> QED BY <1>1, <3>1, <3>3
  <2>7. ASSUME NEW i \in 1..(Len(r) - 1) PROVE r[Len(r) - i] = s[n - i]
    <3>1. Len(r) = n - m + 1
      BY <2>1, <2>4, <2>7
    <3>2. /\ Len(r) - i \in 1..(n - m + 1) /\ m + (Len(r) - i) - 1 = n - i
          /\ n - i \in 1..(n - 1)
      BY <2>1, <2>7, <3>1
    <3>3. r[Len(r) - i] = all[m + (Len(r) - i) - 1]
      BY <2>4, <3>2
    <3> QED BY <1>1, <3>2, <3>3
  <2> QED BY <2>4, <2>5, <2>6, <2>7
<1> QED BY <1>5

\* A count that the bit advances by one, or starts again, is of what is remembered then.
LEMMA EndsOn ==
  ASSUME NEW s \in Seq(BOOLEAN), NEW bit \in BOOLEAN, NEW which \in BOOLEAN,
         NEW n \in Nat, NEW k \in Nat, Ends(s, n, which), k <= Remembered,
         k <= IF bit = which THEN n + 1 ELSE 0
  PROVE  Ends(Remember(s, bit), k, which)
<1> DEFINE r == Remember(s, bit)
<1>1. /\ r \in Seq(BOOLEAN)
      /\ Len(r) = IF Len(s) + 1 <= Remembered THEN Len(s) + 1 ELSE Remembered
      /\ Len(r) > 0 => r[Len(r)] = bit
      /\ \A i \in 1..(Len(r) - 1) : r[Len(r) - i] = s[Len(s) + 1 - i]
  BY RememberedEnd
<1>2. Remembered \in Nat /\ Len(s) \in Nat
  BY RememberedMany
<1>3. n <= Len(s) /\ \A i \in 0..(n - 1) : s[Len(s) - i] = which
  BY DEF Ends
<1> HIDE DEF r
<1>4. k <= Len(r) /\ Len(r) \in Nat
  BY <1>1, <1>2, <1>3
<1>5. ASSUME NEW i \in 0..(k - 1) PROVE r[Len(r) - i] = which
  <2>1. bit = which /\ Len(r) > 0
    BY <1>4, <1>5
  <2>2. CASE i = 0
    <3>1. Len(r) - i = Len(r)
      BY <1>4, <2>2
    <3> QED BY <1>1, <2>1, <3>1
  <2>3. CASE i # 0
    <3>1. k <= n + 1
      BY <2>1
    <3>2. /\ i \in 1..(Len(r) - 1) /\ i - 1 \in 0..(n - 1)
          /\ Len(s) + 1 - i = Len(s) - (i - 1)
      BY <1>2, <1>4, <1>5, <2>3, <3>1
    <3> QED BY <1>1, <1>3, <3>2
  <2> QED BY <2>2, <2>3
<1> QED BY <1>4, <1>5 DEF Ends, r

\* An alarm that comes or goes had its readings.
Turned ==
    /\ alarm'.active /\ ~alarm.active => InARow(ActivateAfter, TRUE)
    /\ ~alarm'.active /\ alarm.active => InARow(ClearAfter, FALSE)

\* What an evaluation does.
LEMMA EvaluateKeeps ==
  ASSUME DeviceInv, NEW bit \in BOOLEAN, NEW gone, Evaluate(bit, gone)
  PROVE  /\ alarm' \in AlarmStates /\ bits' \in Seq(BOOLEAN)
         /\ CountsTrue' /\ Turned
         /\ reading' = IF alarm'.active = alarm.active THEN At("sleeping")
                       ELSE Emitting(IF alarm'.active THEN "triggered" ELSE "cleared",
                                     "sleeping", FALSE)
         /\ cut' = IF alarm'.active # alarm.active /\ app.event = "cleared"
                   THEN gone \cup {"raced"} ELSE gone
<1>1. alarm \in AlarmStates /\ bits \in Seq(BOOLEAN)
  BY DEF DeviceInv, DeviceKinds
<1>2. Ends(bits, alarm.up, TRUE) /\ Ends(bits, alarm.down, FALSE)
  BY DEF DeviceInv, CountsTrue
<1>3. alarm' = Evaluated(alarm, bit) /\ bits' = Remember(bits, bit)
  BY DEF Evaluate
<1>4. /\ reading' = IF alarm'.active = alarm.active THEN At("sleeping")
                    ELSE Emitting(IF alarm'.active THEN "triggered" ELSE "cleared",
                                  "sleeping", FALSE)
      /\ cut' = IF alarm'.active # alarm.active /\ app.event = "cleared"
                THEN gone \cup {"raced"} ELSE gone
  BY DEF Evaluate
<1>5. /\ alarm' \in AlarmStates
      /\ alarm'.up <= IF bit THEN alarm.up + 1 ELSE 0
      /\ alarm'.down <= IF bit THEN 0 ELSE alarm.down + 1
      /\ alarm'.active /\ ~alarm.active => alarm'.up = ActivateAfter
      /\ ~alarm'.active /\ alarm.active => alarm'.down = ClearAfter
  BY <1>1, <1>3, EvaluatedAlarm
<1>6. bits' \in Seq(BOOLEAN)
  BY <1>1, <1>3, RememberedEnd
<1>7. /\ alarm.up \in Nat /\ alarm.down \in Nat /\ alarm'.up \in Nat /\ alarm'.down \in Nat
      /\ alarm'.up <= Remembered /\ alarm'.down <= Remembered
  BY <1>1, <1>5, RememberedMany, DeviceAssumption DEF AlarmStates
<1>8. Ends(bits', alarm'.up, TRUE)
  <2>1. alarm'.up <= IF bit = TRUE THEN alarm.up + 1 ELSE 0
    BY <1>5
  <2>2. TRUE \in BOOLEAN
    OBVIOUS
  <2> QED BY <1>1, <1>2, <1>3, <1>7, <2>1, <2>2, EndsOn
<1>9. Ends(bits', alarm'.down, FALSE)
  <2>1. alarm'.down <= IF bit = FALSE THEN alarm.down + 1 ELSE 0
    BY <1>5
  <2>2. FALSE \in BOOLEAN
    OBVIOUS
  <2> QED BY <1>1, <1>2, <1>3, <1>7, <2>1, <2>2, EndsOn
<1>10. Turned
  <2>1. ActivateAfter \in Nat /\ ClearAfter \in Nat /\ Len(bits') \in Nat
    BY <1>6, DeviceAssumption
  <2> QED BY <1>5, <1>8, <1>9, <2>1 DEF Turned, Ends, InARow
<1> QED BY <1>4, <1>5, <1>6, <1>8, <1>9, <1>10 DEF CountsTrue

\* What a task is that goes to sleep, reads or stops.
LEMMA QuietTask ==
  ASSUME NEW where \in {"off", "sleeping", "connecting", "reading", "disconnecting"}
  PROVE  /\ Emits(At(where)) /\ At(where).at = where /\ At(where).event = NoEvent
         /\ At(where).then = "none"
BY DEF At, Emits, DeviceTasks, NoEvent

\* What the repository has after a call.
LEMMA CallPerformed ==
  ASSUME NEW p, Emits(p), p.at = "emitting",
         record \in [down : BOOLEAN, alarm : BOOLEAN]
  PROVE  /\ Performed(p) \in [down : BOOLEAN, alarm : BOOLEAN]
         /\ Found(p) => Performed(p) = record
         /\ ~Found(p) /\ OfLink(p) =>
              /\ Performed(p).down = (p.event = "disconnected")
              /\ Performed(p).alarm = record.alarm
         /\ ~Found(p) /\ OfAlarm(p) =>
              /\ Performed(p).alarm = (p.event = "triggered")
              /\ Performed(p).down = record.down
         /\ OfLink(p) \/ OfAlarm(p)
         /\ ~(OfLink(p) /\ OfAlarm(p))
         /\ Found(p) => Emits([p EXCEPT !.step = "insert"]) /\ p.event \in {"disconnected", "triggered"}
<1>1. p.event \in Events /\ p.step \in {"find", "insert", "update"} /\ p \in DeviceTasks
  BY DEF Emits, DeviceTasks, Events, NoEvent
<1>2. PICK x \in BOOLEAN, y \in BOOLEAN : record = [down |-> x, alarm |-> y]
  OBVIOUS
<1>3. CASE p.event = "disconnected"
  BY <1>1, <1>2, <1>3 DEF Performed, Found, About, OfLink, OfAlarm, Emits, DeviceTasks
<1>4. CASE p.event = "triggered"
  BY <1>1, <1>2, <1>4 DEF Performed, Found, About, OfLink, OfAlarm, Emits, DeviceTasks
<1>5. CASE p.event = "connected"
  BY <1>1, <1>2, <1>5 DEF Performed, Found, About, OfLink, OfAlarm, Emits, DeviceTasks
<1>6. CASE p.event = "cleared"
  BY <1>1, <1>2, <1>6 DEF Performed, Found, About, OfLink, OfAlarm, Emits, DeviceTasks
<1> QED BY <1>1, <1>3, <1>4, <1>5, <1>6 DEF Events

\* A device starts with nothing emitted and nothing on record.
LEMMA DeviceBegins == DeviceInit => DeviceInv
<1> SUFFICES ASSUME DeviceInit PROVE DeviceInv
  OBVIOUS
<1>1. DeviceKinds
  <2>1. alarm \in AlarmStates /\ failures \in 0..Threshold
    BY DeviceAssumption DEF DeviceInit, AlarmStates
  <2>2. bits \in Seq(BOOLEAN)
    BY DEF DeviceInit
  <2> QED BY <2>1, <2>2 DEF DeviceInit, DeviceKinds
<1>2. Emits(At("off")) /\ At("off").at = "off" /\ At("off").event = NoEvent
      /\ At("off").then = "none"
  BY QuietTask
<1>3. Roles /\ LinkAgrees /\ AlarmAgrees
  BY <1>2 DEF DeviceInit, Roles, LinkAgrees, AlarmAgrees, OfLink, OfAlarm, NoEvent
<1>4. CountsTrue
  BY DEF DeviceInit, CountsTrue, Ends
<1> QED BY <1>1, <1>3, <1>4 DEF DeviceInv

\* Nothing of the link or of the alarm changes but, perhaps, between tasks without an event
\* and the connection that a reader looks for.
LEMMA WakeKeeps ==
  ASSUME DeviceInv, Wake \/ ReaderConnectFails
  PROVE  DeviceInv'
<1>1. /\ \/ reading' = At("sleeping") \/ reading' = At("connecting")
         \/ reading' = At("reading") /\ connected
      /\ reading.at \in {"sleeping", "connecting"}
      /\ UNCHANGED <<reader, status, alarm, bits, app, record, cut>>
  BY DEF Wake, ReaderConnectFails
<1>2. /\ Emits(reading') /\ reading'.at \in {"sleeping", "reading", "connecting"}
      /\ reading'.event = NoEvent /\ reading'.then = "none"
      /\ reading'.at = "reading" => connected
  BY <1>1, QuietTask
<1>3. DeviceKinds' /\ CountsTrue'
  BY <1>1 DEF DeviceInv, DeviceKinds, CountsTrue, Ends, status
<1>4. reading.event = NoEvent
  BY <1>1 DEF DeviceInv, Roles, Emits
<1>5. Roles'
  BY <1>1, <1>2 DEF DeviceInv, Roles, Emits, status, NoEvent, OfLink
<1>6. cut' = {} => LinkAgrees' /\ AlarmAgrees'
  BY <1>1, <1>2, <1>4 DEF DeviceInv, LinkAgrees, AlarmAgrees, OfLink, OfAlarm, NoEvent, status
<1> QED BY <1>3, <1>5, <1>6 DEF DeviceInv

\* The loop's connection is told as the state it makes; a group's is not told yet.
LEMMA ReaderConnectsKeeps ==
  ASSUME DeviceInv, ReaderConnects
  PROVE  DeviceInv'
<1>1. /\ reading.at = "connecting" /\ connected' = TRUE /\ failures' = 0
      /\ UNCHANGED <<reader, alarm, bits, app, record, cut>>
  BY DEF ReaderConnects
<1>2. /\ Emits(reading) /\ Emits(app) /\ reading.event = NoEvent
      /\ ~OfLink(app) /\ app.at \notin {"connecting", "disconnecting"}
      /\ reading.at # "off"
  BY <1>1 DEF DeviceInv, Roles, Emits
<1>3. CountsTrue'
  BY <1>1 DEF DeviceInv, CountsTrue, Ends
<1>4. CASE reader = "loop"
  <2>1. /\ responsive' = TRUE /\ everUp' = TRUE
        /\ reading' = Emitting("connected", "read", FALSE)
    BY <1>4 DEF ReaderConnects
  <2>2. /\ Emits(reading') /\ reading'.at = "emitting" /\ reading'.event = "connected"
        /\ reading'.then = "read"
    BY <2>1 DEF Emitting, Emits, DeviceTasks, Events, NoEvent
  <2>3. DeviceKinds'
    BY <1>1, <2>1, DeviceAssumption DEF DeviceInv, DeviceKinds
  <2>4. Roles'
    BY <1>1, <1>2, <2>2 DEF DeviceInv, Roles, OfLink
  <2>5. cut' = {} => LinkAgrees' /\ AlarmAgrees'
    BY <1>1, <1>2, <2>1, <2>2 DEF DeviceInv, LinkAgrees, AlarmAgrees, OfLink, OfAlarm, NoEvent
  <2> QED BY <1>3, <2>3, <2>4, <2>5 DEF DeviceInv
<1>5. CASE reader # "loop"
  <2>1. reading' = At("reading") /\ responsive' = responsive /\ everUp' = everUp
    BY <1>5 DEF ReaderConnects
  <2>2. /\ Emits(reading') /\ reading'.at = "reading" /\ reading'.event = NoEvent
        /\ reading'.then = "none"
    BY <2>1, QuietTask
  <2>3. DeviceKinds'
    BY <1>1, <2>1, DeviceAssumption DEF DeviceInv, DeviceKinds
  <2>4. Roles'
    BY <1>1, <1>2, <2>2 DEF DeviceInv, Roles, OfLink, NoEvent
  <2>5. cut' = {} => LinkAgrees' /\ AlarmAgrees'
    BY <1>1, <1>2, <2>1, <2>2 DEF DeviceInv, LinkAgrees, AlarmAgrees, OfLink, OfAlarm, NoEvent
  <2> QED BY <1>3, <2>3, <2>4, <2>5 DEF DeviceInv
<1> QED BY <1>4, <1>5

\* After an evaluation, of a reader that has told of the connection or has no need to.
LEMMA EvaluatedKeeps ==
  ASSUME DeviceInv, NEW bit \in BOOLEAN, NEW gone, Evaluate(bit, gone),
         gone \subseteq {"cancelled", "raised", "raced"},
         reading.at \in {"reading", "emitting"}, ~OfAlarm(reading),
         reader' = reader, connected' = connected, responsive' = TRUE, everUp' = TRUE,
         failures' \in 0..Threshold, app' = app,
         record' \in [down : BOOLEAN, alarm : BOOLEAN], cut \subseteq gone,
         gone = {} => ~record'.down /\ record'.alarm = record.alarm
  PROVE  DeviceInv'
<1>1. /\ alarm' \in AlarmStates /\ bits' \in Seq(BOOLEAN) /\ CountsTrue'
      /\ reading' = IF alarm'.active = alarm.active THEN At("sleeping")
                    ELSE Emitting(IF alarm'.active THEN "triggered" ELSE "cleared",
                                  "sleeping", FALSE)
      /\ cut' = IF alarm'.active # alarm.active /\ app.event = "cleared"
                THEN gone \cup {"raced"} ELSE gone
  BY EvaluateKeeps
<1>2. /\ Emits(app) /\ ~OfLink(app) /\ app.at \notin {"connecting", "disconnecting"}
      /\ app.event # "triggered" /\ connected
  BY DEF DeviceInv, Roles
<1>3. DeviceKinds'
  BY <1>1, <1>2 DEF DeviceInv, DeviceKinds
<1>4. alarm'.active \in BOOLEAN /\ alarm.active \in BOOLEAN
  BY <1>1 DEF DeviceInv, DeviceKinds, AlarmStates
<1>5. CASE alarm'.active = alarm.active
  <2>1. /\ Emits(reading') /\ reading'.at = "sleeping" /\ reading'.event = NoEvent
        /\ reading'.then = "none" /\ cut' = gone
    BY <1>1, <1>5, QuietTask
  <2>2. Roles'
    BY <1>2, <2>1 DEF Roles, NoEvent, OfLink
  <2>3. cut' = {} => LinkAgrees' /\ AlarmAgrees'
    BY <1>2, <1>4, <1>5, <2>1
    DEF DeviceInv, DeviceKinds, LinkAgrees, AlarmAgrees, OfLink, OfAlarm, NoEvent
  <2> QED BY <1>1, <1>3, <2>2, <2>3 DEF DeviceInv
<1>6. CASE alarm'.active # alarm.active
  <2> DEFINE e == IF alarm'.active THEN "triggered" ELSE "cleared"
  <2>1. /\ reading' = Emitting(e, "sleeping", FALSE)
        /\ e \in {"connected", "disconnected", "triggered", "cleared"}
    BY <1>1, <1>6
  <2>2. /\ Emits(reading') /\ reading'.at = "emitting" /\ reading'.event = e
        /\ reading'.then = "sleeping"
    BY <2>1 DEF Emitting, Emits, DeviceTasks, Events, NoEvent
  <2>3. Roles'
    BY <1>2, <2>2 DEF Roles, NoEvent, OfLink
  <2>4. cut' = {} => app.event # "cleared"
    BY <1>1, <1>6
  <2>5. cut' = {} => LinkAgrees' /\ AlarmAgrees'
    BY <1>1, <1>2, <1>4, <1>6, <2>2, <2>4
    DEF DeviceInv, DeviceKinds, LinkAgrees, AlarmAgrees, OfLink, OfAlarm, NoEvent
  <2> QED BY <1>1, <1>3, <2>3, <2>5 DEF DeviceInv
<1> QED BY <1>5, <1>6

\* An answer is told where the device was unresponsive, and evaluated at once where not.
LEMMA ReadOkKeeps ==
  ASSUME DeviceInv, ReadOk
  PROVE  DeviceInv'
<1>1. /\ reading.at = "reading" /\ failures' = 0 /\ responsive' = TRUE /\ everUp' = TRUE
      /\ UNCHANGED <<reader, connected, app, record>>
  BY DEF ReadOk
<1>2. /\ Emits(app) /\ ~OfLink(app) /\ app.at \notin {"connecting", "disconnecting"}
      /\ connected /\ reading.event = NoEvent /\ app.event # "triggered"
  BY <1>1 DEF DeviceInv, Roles, Emits
<1>3. PICK bit \in BOOLEAN :
        IF WasUnresponsive
        THEN /\ reading' = Emitting("connected", "evaluate", bit)
             /\ UNCHANGED <<alarm, bits, cut>>
        ELSE Evaluate(bit, cut)
  BY DEF ReadOk
<1>4. failures' \in 0..Threshold
  BY <1>1, DeviceAssumption
<1>5. CASE WasUnresponsive
  <2>1. /\ Emits(reading') /\ reading'.at = "emitting" /\ reading'.event = "connected"
        /\ reading'.then = "evaluate" /\ UNCHANGED <<alarm, bits, cut>>
    BY <1>3, <1>5 DEF Emitting, Emits, DeviceTasks, Events, NoEvent
  <2>2. DeviceKinds' /\ CountsTrue'
    BY <1>1, <1>2, <1>4, <2>1 DEF DeviceInv, DeviceKinds, CountsTrue, Ends
  <2>3. Roles'
    BY <1>1, <1>2, <2>1 DEF Roles, OfLink
  <2>4. cut' = {} => LinkAgrees' /\ AlarmAgrees'
    BY <1>1, <1>2, <2>1 DEF DeviceInv, LinkAgrees, AlarmAgrees, OfLink, OfAlarm, NoEvent
  <2> QED BY <2>2, <2>3, <2>4 DEF DeviceInv
<1>6. CASE ~WasUnresponsive
  <2>1. Evaluate(bit, cut) /\ responsive /\ ~OfAlarm(reading) /\ ~OfLink(reading)
    BY <1>2, <1>3, <1>6 DEF WasUnresponsive, OfAlarm, OfLink, NoEvent
  <2>2. /\ everUp /\ record \in [down : BOOLEAN, alarm : BOOLEAN]
        /\ cut \subseteq {"cancelled", "raised", "raced"}
    BY <2>1 DEF DeviceInv, DeviceKinds
  <2>3. cut = {} => ~record'.down /\ record'.alarm = record.alarm
    BY <1>1, <1>2, <2>1, <2>2 DEF DeviceInv, LinkAgrees
  <2> QED BY <1>1, <1>4, <2>1, <2>2, <2>3, EvaluatedKeeps
<1> QED BY <1>5, <1>6

\* A failure is told where it is the one that makes the device unresponsive.
LEMMA ReadFailsKeeps ==
  ASSUME DeviceInv, ReadFails
  PROVE  DeviceInv'
<1>1. /\ reading.at = "reading" /\ failures' = Min({failures + 1, Threshold})
      /\ UNCHANGED <<reader, connected, everUp, alarm, bits, app, record, cut>>
  BY DEF ReadFails
<1>2. failures' \in 0..Threshold
  <2>1. failures + 1 \in Nat /\ Threshold \in Nat /\ failures \in 0..Threshold
    BY DeviceAssumption DEF DeviceInv, DeviceKinds
  <2>2. failures' = IF failures + 1 <= Threshold THEN failures + 1 ELSE Threshold
    BY <1>1, <2>1, LeastOfTwo
  <2> QED BY <2>1, <2>2
<1>3. /\ Emits(app) /\ ~OfLink(app) /\ app.at \notin {"connecting", "disconnecting"}
      /\ connected /\ reading.event = NoEvent
  BY <1>1 DEF DeviceInv, Roles, Emits
<1>4. CountsTrue'
  BY <1>1 DEF DeviceInv, CountsTrue, Ends
<1>5. CASE failures' >= Threshold /\ responsive
  <2>1. responsive' = FALSE /\ reading' = Emitting("disconnected", "sleeping", FALSE)
    BY <1>5 DEF ReadFails
  <2>2. /\ Emits(reading') /\ reading'.at = "emitting" /\ reading'.event = "disconnected"
        /\ reading'.then = "sleeping"
    BY <2>1 DEF Emitting, Emits, DeviceTasks, Events, NoEvent
  <2>3. DeviceKinds'
    BY <1>1, <1>2, <2>1 DEF DeviceInv, DeviceKinds
  <2>4. Roles'
    BY <1>1, <1>3, <2>2 DEF DeviceInv, Roles, OfLink
  <2>5. cut' = {} => LinkAgrees' /\ AlarmAgrees'
    BY <1>1, <1>3, <2>1, <2>2 DEF DeviceInv, LinkAgrees, AlarmAgrees, OfLink, OfAlarm, NoEvent
  <2> QED BY <1>4, <2>3, <2>4, <2>5 DEF DeviceInv
<1>6. CASE ~(failures' >= Threshold /\ responsive)
  <2>1. responsive' = responsive /\ reading' = At("sleeping")
    BY <1>6 DEF ReadFails
  <2>2. /\ Emits(reading') /\ reading'.at = "sleeping" /\ reading'.event = NoEvent
        /\ reading'.then = "none"
    BY <2>1, QuietTask
  <2>3. DeviceKinds'
    BY <1>1, <1>2, <2>1 DEF DeviceInv, DeviceKinds
  <2>4. Roles'
    BY <1>1, <1>3, <2>2 DEF DeviceInv, Roles, OfLink, NoEvent
  <2>5. cut' = {} => LinkAgrees' /\ AlarmAgrees'
    BY <1>1, <1>3, <2>1, <2>2 DEF DeviceInv, LinkAgrees, AlarmAgrees, OfLink, OfAlarm, NoEvent
  <2> QED BY <1>4, <2>3, <2>4, <2>5 DEF DeviceInv
<1> QED BY <1>5, <1>6

\* The reader goes on after the handler of its event, which ended in one way or another.
LEMMA GoOnKeeps ==
  ASSUME DeviceInv, NEW gone, reading.at = "emitting", GoOn(gone),
         gone \subseteq {"cancelled", "raised", "raced"}, cut \subseteq gone,
         record' \in [down : BOOLEAN, alarm : BOOLEAN],
         gone = {} => record' = Performed(reading) /\ ~Found(reading),
         UNCHANGED <<reader, status, app>>
  PROVE  DeviceInv'
<1>1. UNCHANGED <<reader, connected, responsive, failures, everUp, app>>
  BY DEF status
<1>2. /\ Emits(reading) /\ Emits(app) /\ app.event # "triggered" /\ connected
      /\ reading.then = "evaluate" => reading.event = "connected" /\ responsive
      /\ ~OfLink(app) /\ app.at \notin {"connecting", "disconnecting"}
  BY DEF DeviceInv, Roles
<1>3. /\ record \in [down : BOOLEAN, alarm : BOOLEAN]
      /\ failures \in 0..Threshold /\ responsive \in BOOLEAN /\ (responsive => everUp)
      /\ alarm.active \in BOOLEAN
  BY DEF DeviceInv, DeviceKinds, AlarmStates
<1>4. gone = {} =>
        /\ OfLink(reading) => /\ record'.down = (reading.event = "disconnected")
                              /\ record'.alarm = record.alarm
        /\ OfAlarm(reading) => /\ record'.alarm = (reading.event = "triggered")
                               /\ record'.down = record.down
        /\ OfLink(reading) \/ OfAlarm(reading)
        /\ ~(OfLink(reading) /\ OfAlarm(reading))
  <2>1. /\ ~Found(reading) /\ OfLink(reading) =>
             /\ Performed(reading).down = (reading.event = "disconnected")
             /\ Performed(reading).alarm = record.alarm
        /\ ~Found(reading) /\ OfAlarm(reading) =>
             /\ Performed(reading).alarm = (reading.event = "triggered")
             /\ Performed(reading).down = record.down
        /\ OfLink(reading) \/ OfAlarm(reading)
        /\ ~(OfLink(reading) /\ OfAlarm(reading))
    BY <1>2, <1>3, CallPerformed
  <2> QED BY <2>1
<1>5. gone = {} => LinkAgrees /\ AlarmAgrees
  BY DEF DeviceInv
<1>6. CASE reading.then # "evaluate"
  <2>1. /\ reading' = At("reading") \/ reading' = At("sleeping")
        /\ cut' = gone /\ UNCHANGED <<alarm, bits>>
    BY <1>6 DEF GoOn
  <2>2. /\ Emits(reading') /\ reading'.at \in {"reading", "sleeping"}
        /\ reading'.event = NoEvent /\ reading'.then = "none"
    BY <2>1, QuietTask
  <2>3. DeviceKinds' /\ CountsTrue'
    BY <1>1, <2>1 DEF DeviceInv, DeviceKinds, CountsTrue, Ends
  <2>4. Roles'
    BY <1>1, <1>2, <2>2 DEF Roles, OfLink, NoEvent
  <2>5. gone = {} => LinkAgrees'
    BY <1>1, <1>2, <1>3, <1>4, <1>5, <2>2 DEF LinkAgrees, OfLink, NoEvent
  <2>6. gone = {} => AlarmAgrees'
    BY <1>1, <1>2, <1>3, <1>4, <1>5, <2>1, <2>2 DEF AlarmAgrees, OfAlarm, NoEvent
  <2> QED BY <2>1, <2>3, <2>4, <2>5, <2>6 DEF DeviceInv
<1>7. CASE reading.then = "evaluate"
  <2>1. Evaluate(reading.bit, gone) /\ reading.event = "connected" /\ reading.bit \in BOOLEAN
    BY <1>2, <1>7 DEF GoOn, Emits, DeviceTasks
  <2>2. ~OfAlarm(reading) /\ OfLink(reading)
    BY <2>1 DEF OfAlarm, OfLink
  <2>3. gone = {} => ~record'.down /\ record'.alarm = record.alarm
    BY <1>4, <2>1, <2>2
  <2>4. responsive' = TRUE /\ everUp' = TRUE
    BY <1>1, <1>2, <1>3, <1>7
  <2> QED BY <1>1, <1>3, <2>1, <2>2, <2>3, <2>4, EvaluatedKeeps
<1> QED BY <1>6, <1>7

\* The last call of an event leaves the record right, a find only leads to it.
LEMMA ReaderAnsweredKeeps ==
  ASSUME DeviceInv, ReaderAnswered
  PROVE  DeviceInv'
<1>1. /\ reading.at = "emitting" /\ record' = Performed(reading)
      /\ UNCHANGED <<reader, status, app>>
  BY DEF ReaderAnswered
<1>2. /\ Emits(reading) /\ Emits(app) /\ app.event # "triggered" /\ connected
      /\ ~OfLink(app) /\ app.at \notin {"connecting", "disconnecting"}
      /\ reading.at # "disconnecting"
      /\ reading.then = "evaluate" => reading.event = "connected" /\ responsive
  BY <1>1 DEF DeviceInv, Roles
<1>3. /\ record \in [down : BOOLEAN, alarm : BOOLEAN]
      /\ cut \subseteq {"cancelled", "raised", "raced"}
  BY DEF DeviceInv, DeviceKinds
<1>4. /\ record' \in [down : BOOLEAN, alarm : BOOLEAN]
      /\ Found(reading) => record' = record /\ Emits([reading EXCEPT !.step = "insert"])
  BY <1>1, <1>2, <1>3, CallPerformed
<1>5. CASE Found(reading)
  <2>1. reading' = [reading EXCEPT !.step = "insert"] /\ UNCHANGED <<alarm, bits, cut>>
    BY <1>5 DEF ReaderAnswered
  <2>2. /\ reading'.at = "emitting" /\ reading'.event = reading.event
        /\ reading'.then = reading.then /\ Emits(reading')
    BY <1>1, <1>2, <1>4, <1>5, <2>1 DEF Emits, DeviceTasks
  <2>3. DeviceKinds' /\ CountsTrue'
    BY <1>1, <1>4, <1>5, <2>1 DEF DeviceInv, DeviceKinds, CountsTrue, Ends, status
  <2>4. Roles'
    BY <1>1, <1>2, <2>2 DEF Roles, OfLink, status
  <2>5. cut' = {} => LinkAgrees' /\ AlarmAgrees'
    BY <1>1, <1>4, <1>5, <2>1, <2>2
    DEF DeviceInv, LinkAgrees, AlarmAgrees, OfLink, OfAlarm, status
  <2> QED BY <2>3, <2>4, <2>5 DEF DeviceInv
<1>6. CASE ~Found(reading)
  <2>1. GoOn(cut)
    BY <1>6 DEF ReaderAnswered
  <2> QED BY <1>1, <1>3, <1>4, <1>6, <2>1, GoOnKeeps
<1> QED BY <1>5, <1>6

\* A handler that raises counts as cut.
LEMMA ReaderRaisesKeeps ==
  ASSUME DeviceInv, ReaderRaises
  PROVE  DeviceInv'
<1>1. /\ reading.at = "emitting" /\ record' \in {record, Performed(reading)}
      /\ GoOn(cut \cup {"raised"}) /\ UNCHANGED <<reader, status, app>>
  BY DEF ReaderRaises
<1>2. /\ record \in [down : BOOLEAN, alarm : BOOLEAN] /\ Emits(reading)
      /\ cut \subseteq {"cancelled", "raised", "raced"}
  BY DEF DeviceInv, DeviceKinds, Roles
<1>3. record' \in [down : BOOLEAN, alarm : BOOLEAN]
  BY <1>1, <1>2, CallPerformed
<1>4. /\ cut \cup {"raised"} \subseteq {"cancelled", "raised", "raced"}
      /\ cut \subseteq cut \cup {"raised"} /\ cut \cup {"raised"} # {}
  BY <1>2
<1> QED BY <1>1, <1>3, <1>4, GoOnKeeps

\* A cancelled reader is off, and has cut what it emitted.
LEMMA CancelledReader ==
  ASSUME DeviceInv, Cancelled
  PROVE  /\ Emits(reading') /\ reading'.at = "off" /\ reading'.event = NoEvent
         /\ reading'.then = "none"
         /\ record' \in [down : BOOLEAN, alarm : BOOLEAN]
         /\ cut' \subseteq {"cancelled", "raised", "raced"}
         /\ cut' = {} => cut = {} /\ reading.event = NoEvent /\ record' = record
<1>1. Emits(reading) /\ record \in [down : BOOLEAN, alarm : BOOLEAN]
      /\ cut \subseteq {"cancelled", "raised", "raced"}
  BY DEF DeviceInv, DeviceKinds, Roles
<1>2. /\ Emits(reading') /\ reading'.at = "off" /\ reading'.event = NoEvent
      /\ reading'.then = "none"
  BY QuietTask DEF Cancelled
<1>3. CASE reading.at = "emitting"
  <2>1. record' \in {record, Performed(reading)} /\ cut' = cut \cup {"cancelled"}
    BY <1>3 DEF Cancelled
  <2>2. Performed(reading) \in [down : BOOLEAN, alarm : BOOLEAN]
    BY <1>1, <1>3, CallPerformed
  <2> QED BY <1>1, <1>2, <2>1, <2>2
<1>4. CASE reading.at # "emitting"
  <2>1. record' = record /\ cut' = cut /\ reading.event = NoEvent
    BY <1>1, <1>4 DEF Cancelled, Emits
  <2> QED BY <1>1, <1>2, <2>1
<1> QED BY <1>3, <1>4

\* A stop cuts the event that is emitted, or none is.
LEMMA StopKeeps ==
  ASSUME DeviceInv, Stop
  PROVE  DeviceInv'
<1>1. Cancelled /\ UNCHANGED <<reader, status, alarm, bits, app>>
  BY DEF Stop
<1>2. /\ Emits(reading') /\ reading'.at = "off" /\ reading'.event = NoEvent
      /\ reading'.then = "none"
      /\ record' \in [down : BOOLEAN, alarm : BOOLEAN]
      /\ cut' \subseteq {"cancelled", "raised", "raced"}
      /\ cut' = {} => cut = {} /\ reading.event = NoEvent /\ record' = record
  BY <1>1, CancelledReader
<1>3. DeviceKinds' /\ CountsTrue'
  BY <1>1, <1>2 DEF DeviceInv, DeviceKinds, CountsTrue, Ends, status
<1>4. Roles'
  BY <1>1, <1>2 DEF DeviceInv, Roles, Emits, OfLink, NoEvent, status
<1>5. cut' = {} => LinkAgrees' /\ AlarmAgrees'
  BY <1>1, <1>2 DEF DeviceInv, LinkAgrees, AlarmAgrees, OfLink, OfAlarm, NoEvent, status
<1> QED BY <1>3, <1>4, <1>5 DEF DeviceInv

\* A disconnection begins without a reader.
LEMMA DisconnectKeeps ==
  ASSUME DeviceInv, Disconnect
  PROVE  DeviceInv'
<1>1. /\ app.at = "off" /\ Cancelled /\ app' = At("disconnecting")
      /\ UNCHANGED <<reader, status, alarm, bits>>
  BY DEF Disconnect
<1>2. /\ Emits(reading') /\ reading'.at = "off" /\ reading'.event = NoEvent
      /\ reading'.then = "none"
      /\ record' \in [down : BOOLEAN, alarm : BOOLEAN]
      /\ cut' \subseteq {"cancelled", "raised", "raced"}
      /\ cut' = {} => cut = {} /\ reading.event = NoEvent /\ record' = record
  BY <1>1, CancelledReader
<1>3. /\ Emits(app') /\ app'.at = "disconnecting" /\ app'.event = NoEvent
  BY <1>1, QuietTask
<1>4. app.event = NoEvent
  BY <1>1 DEF DeviceInv, Roles, Emits
<1>5. DeviceKinds' /\ CountsTrue'
  BY <1>1, <1>2 DEF DeviceInv, DeviceKinds, CountsTrue, Ends, status
<1>6. Roles'
  BY <1>1, <1>2, <1>3 DEF Roles, OfLink, NoEvent
<1>7. cut' = {} => LinkAgrees' /\ AlarmAgrees'
  BY <1>1, <1>2, <1>3, <1>4
  DEF DeviceInv, LinkAgrees, AlarmAgrees, OfLink, OfAlarm, NoEvent, status
<1> QED BY <1>5, <1>6, <1>7 DEF DeviceInv

\* Where the application's call, or a start of the reader, moves no state.
LEMMA AppMovesKeeps ==
  ASSUME DeviceInv, Connect \/ ConnectFails \/ Start \/ DisconnectFails
  PROVE  DeviceInv'
<1>1. UNCHANGED <<reader, status, alarm, bits, record, cut>>
  BY DEF Connect, ConnectFails, Start, DisconnectFails
<1>2. DeviceKinds' /\ CountsTrue'
  BY <1>1 DEF DeviceInv, DeviceKinds, CountsTrue, Ends, status
<1>3. CASE Connect \/ ConnectFails \/ DisconnectFails
  <2>1. /\ app.at \in {"off", "connecting", "disconnecting"} /\ reading' = reading
        /\ \/ app' = At("off")
           \/ app' = At("connecting") /\ reading.at = "off"
    BY <1>3 DEF Connect, ConnectFails, DisconnectFails
  <2>2. /\ Emits(app') /\ app'.at \in {"off", "connecting"} /\ app'.event = NoEvent
        /\ app'.at = "connecting" => reading.at = "off"
    BY <2>1, QuietTask
  <2>3. app.event = NoEvent
    BY <2>1 DEF DeviceInv, Roles, Emits
  <2>4. Roles'
    BY <1>1, <2>1, <2>2 DEF DeviceInv, Roles, Emits, OfLink, NoEvent, status
  <2>5. cut' = {} => LinkAgrees' /\ AlarmAgrees'
    BY <1>1, <2>1, <2>2, <2>3
    DEF DeviceInv, LinkAgrees, AlarmAgrees, OfLink, OfAlarm, NoEvent, status
  <2> QED BY <1>2, <2>4, <2>5 DEF DeviceInv
<1>4. CASE Start
  <2>1. /\ app.at = "off" /\ reading.at = "off" /\ reading' = At("sleeping") /\ app' = app
    BY <1>4 DEF Start
  <2>2. /\ Emits(reading') /\ reading'.at = "sleeping" /\ reading'.event = NoEvent
        /\ reading'.then = "none"
    BY <2>1, QuietTask
  <2>3. app.event = NoEvent /\ reading.event = NoEvent
    BY <2>1 DEF DeviceInv, Roles, Emits
  <2>4. Roles'
    BY <1>1, <2>1, <2>2, <2>3 DEF DeviceInv, Roles, Emits, OfLink, NoEvent, status
  <2>5. cut' = {} => LinkAgrees' /\ AlarmAgrees'
    BY <1>1, <2>1, <2>2, <2>3
    DEF DeviceInv, LinkAgrees, AlarmAgrees, OfLink, OfAlarm, NoEvent, status
  <2> QED BY <1>2, <2>4, <2>5 DEF DeviceInv
<1> QED BY <1>3, <1>4

\* The application has connected or disconnected, while no reader ran.
LEMMA AppLinksKeeps ==
  ASSUME DeviceInv, ConnectOk \/ Disconnected
  PROVE  DeviceInv'
<1>1. /\ app.at \in {"connecting", "disconnecting"} /\ failures' = 0
      /\ UNCHANGED <<reader, alarm, bits, reading, record, cut>>
  BY DEF ConnectOk, Disconnected
<1>2. /\ Emits(reading) /\ Emits(app) /\ reading.at = "off" /\ app.event = NoEvent
      /\ reading.event = NoEvent
      /\ reading.then = "evaluate" => reading.event = "connected"
  BY <1>1 DEF DeviceInv, Roles, Emits
<1>3. CountsTrue' /\ failures' \in 0..Threshold
  BY <1>1, DeviceAssumption DEF DeviceInv, CountsTrue, Ends
<1>4. CASE ConnectOk
  <2>1. /\ connected' = TRUE /\ responsive' = TRUE /\ everUp' = TRUE
        /\ app' = Emitting("connected", "off", FALSE)
    BY <1>4 DEF ConnectOk
  <2>2. Emits(app') /\ app'.at = "emitting" /\ app'.event = "connected"
    BY <2>1 DEF Emitting, Emits, DeviceTasks, Events, NoEvent
  <2>3. DeviceKinds'
    BY <1>1, <1>3, <2>1 DEF DeviceInv, DeviceKinds
  <2>4. Roles'
    BY <1>1, <1>2, <2>1, <2>2 DEF Roles, NoEvent
  <2>5. cut' = {} => LinkAgrees' /\ AlarmAgrees'
    BY <1>1, <1>2, <2>1, <2>2 DEF DeviceInv, LinkAgrees, AlarmAgrees, OfLink, OfAlarm, NoEvent
  <2> QED BY <1>3, <2>3, <2>4, <2>5 DEF DeviceInv
<1>5. CASE Disconnected
  <2>1. /\ connected' = FALSE /\ responsive' = FALSE /\ everUp' = everUp
        /\ app' = Emitting("disconnected", "off", FALSE)
    BY <1>5 DEF Disconnected
  <2>2. Emits(app') /\ app'.at = "emitting" /\ app'.event = "disconnected"
    BY <2>1 DEF Emitting, Emits, DeviceTasks, Events, NoEvent
  <2>3. DeviceKinds'
    BY <1>1, <1>3, <2>1 DEF DeviceInv, DeviceKinds
  <2>4. Roles'
    BY <1>1, <1>2, <2>1, <2>2 DEF Roles, NoEvent
  <2>5. cut' = {} => LinkAgrees' /\ AlarmAgrees'
    BY <1>1, <1>2, <2>1, <2>2 DEF DeviceInv, LinkAgrees, AlarmAgrees, OfLink, OfAlarm, NoEvent
  <2> QED BY <1>3, <2>3, <2>4, <2>5 DEF DeviceInv
<1> QED BY <1>4, <1>5

\* An operator's clear is told as the state it makes, or crosses an evaluation.
LEMMA ClearAlarmKeeps ==
  ASSUME DeviceInv, ClearAlarm
  PROVE  DeviceInv'
<1>1. /\ app.at = "off" /\ alarm.active /\ alarm' = [active |-> FALSE, up |-> 0, down |-> 0]
      /\ app' = Emitting("cleared", "off", FALSE)
      /\ cut' = IF reading.event \in {"triggered", "cleared"} THEN cut \cup {"raced"} ELSE cut
      /\ UNCHANGED <<reader, status, bits, reading, record>>
  BY DEF ClearAlarm
<1>2. Emits(app') /\ app'.at = "emitting" /\ app'.event = "cleared"
  BY <1>1 DEF Emitting, Emits, DeviceTasks, Events, NoEvent
<1>3. app.event = NoEvent
  BY <1>1 DEF DeviceInv, Roles, Emits
<1>4. alarm' \in AlarmStates
  BY <1>1, DeviceAssumption DEF AlarmStates
<1>5. DeviceKinds'
  BY <1>1, <1>4 DEF DeviceInv, DeviceKinds, status
<1>6. CountsTrue'
  <2>1. alarm'.up = 0 /\ alarm'.down = 0 /\ bits' = bits /\ bits \in Seq(BOOLEAN)
    BY <1>1 DEF DeviceInv, DeviceKinds
  <2> QED BY <2>1 DEF CountsTrue, Ends
<1>7. Roles'
  BY <1>1, <1>2 DEF DeviceInv, Roles, Emits, OfLink, NoEvent, status
<1>8. cut' = {} => LinkAgrees' /\ AlarmAgrees'
  <2>1. cut' = {} => cut = {} /\ ~OfAlarm(reading)
    BY <1>1 DEF OfAlarm
  <2> QED BY <1>1, <1>2, <1>3, <2>1
      DEF DeviceInv, LinkAgrees, AlarmAgrees, OfLink, OfAlarm, NoEvent, status
<1> QED BY <1>5, <1>6, <1>7, <1>8 DEF DeviceInv

\* The same of the application's own events.
LEMMA AppAnsweredKeeps ==
  ASSUME DeviceInv, AppAnswered \/ AppRaises
  PROVE  DeviceInv'
<1>1. /\ app.at = "emitting" /\ record' \in {record, Performed(app)}
      /\ UNCHANGED <<reader, status, alarm, bits, reading>>
      /\ cut' \subseteq cut \cup {"raised"}
      /\ cut' = {} => cut = {} /\ AppAnswered
  BY DEF AppAnswered, AppRaises
<1>2. /\ Emits(app) /\ Emits(reading) /\ app.event # "triggered"
      /\ OfLink(app) => reading.at = "off"
      /\ reading.at = "off" => reading.event = NoEvent
  BY DEF DeviceInv, Roles, Emits
<1>3. record \in [down : BOOLEAN, alarm : BOOLEAN] /\ alarm.active \in BOOLEAN
      /\ responsive \in BOOLEAN
      /\ cut \subseteq {"cancelled", "raised", "raced"}
  BY DEF DeviceInv, DeviceKinds, AlarmStates
<1>4. /\ Performed(app) \in [down : BOOLEAN, alarm : BOOLEAN]
      /\ Found(app) => Performed(app) = record /\ Emits([app EXCEPT !.step = "insert"])
      /\ ~Found(app) /\ OfLink(app) =>
           /\ Performed(app).down = (app.event = "disconnected")
           /\ Performed(app).alarm = record.alarm
      /\ ~Found(app) /\ OfAlarm(app) =>
           /\ Performed(app).alarm = (app.event = "triggered")
           /\ Performed(app).down = record.down
      /\ OfLink(app) \/ OfAlarm(app)
      /\ ~(OfLink(app) /\ OfAlarm(app))
  BY <1>1, <1>2, <1>3, CallPerformed
<1>5. DeviceKinds' /\ CountsTrue'
  BY <1>1, <1>3, <1>4 DEF DeviceInv, DeviceKinds, CountsTrue, Ends, status
<1>6. CASE AppAnswered /\ Found(app)
  <2>1. app' = [app EXCEPT !.step = "insert"] /\ record' = record /\ cut' = cut
    BY <1>4, <1>6 DEF AppAnswered
  <2>2. Emits(app') /\ app'.at = "emitting" /\ app'.event = app.event
    BY <1>1, <1>2, <1>4, <1>6, <2>1 DEF Emits, DeviceTasks
  <2>3. Roles'
    BY <1>1, <2>2 DEF DeviceInv, Roles, Emits, OfLink, status
  <2>4. cut' = {} => LinkAgrees' /\ AlarmAgrees'
    BY <1>1, <2>1, <2>2 DEF DeviceInv, LinkAgrees, AlarmAgrees, OfLink, OfAlarm, status
  <2> QED BY <1>5, <2>3, <2>4 DEF DeviceInv
<1>7. CASE ~(AppAnswered /\ Found(app))
  <2>1. /\ app' = At("off")
        /\ cut' = {} => cut = {} /\ record' = Performed(app) /\ ~Found(app)
    BY <1>1, <1>7 DEF AppAnswered, AppRaises
  <2>2. Emits(app') /\ app'.at = "off" /\ app'.event = NoEvent
    BY <2>1, QuietTask
  <2>3. Roles'
    BY <1>1, <2>2 DEF DeviceInv, Roles, Emits, OfLink, NoEvent, status
  <2>4. ASSUME cut' = {} PROVE LinkAgrees'
    BY <1>1, <1>2, <1>3, <1>4, <2>1, <2>2, <2>4
    DEF DeviceInv, LinkAgrees, OfLink, OfAlarm, NoEvent, status
  <2>5. ASSUME cut' = {} PROVE AlarmAgrees'
    BY <1>1, <1>2, <1>3, <1>4, <2>1, <2>2, <2>5
    DEF DeviceInv, AlarmAgrees, OfLink, OfAlarm, NoEvent, status
  <2> QED BY <1>5, <2>3, <2>4, <2>5 DEF DeviceInv
<1> QED BY <1>6, <1>7

\* Every step keeps the records in accord with the device.
LEMMA DeviceStep ==
  ASSUME DeviceInv, [DeviceNext]_deviceVars
  PROVE  DeviceInv'
<1>1. CASE UNCHANGED deviceVars
  <2>1. DeviceKinds' /\ CountsTrue'
    BY <1>1 DEF DeviceInv, DeviceKinds, CountsTrue, Ends, deviceVars
  <2>2. Roles' /\ (cut' = {} => LinkAgrees' /\ AlarmAgrees')
    BY <1>1 DEF DeviceInv, Roles, LinkAgrees, AlarmAgrees, Emits, OfLink, OfAlarm, deviceVars
  <2> QED BY <2>1, <2>2 DEF DeviceInv
<1>2. CASE Wake \/ ReaderConnectFails
  BY <1>2, WakeKeeps
<1>3. CASE ReaderConnects
  BY <1>3, ReaderConnectsKeeps
<1>4. CASE ReadOk
  BY <1>4, ReadOkKeeps
<1>5. CASE ReadFails
  BY <1>5, ReadFailsKeeps
<1>6. CASE ReaderAnswered
  BY <1>6, ReaderAnsweredKeeps
<1>7. CASE ReaderRaises
  BY <1>7, ReaderRaisesKeeps
<1>8. CASE Stop
  BY <1>8, StopKeeps
<1>9. CASE Disconnect
  BY <1>9, DisconnectKeeps
<1>10. CASE Connect \/ ConnectFails \/ Start \/ DisconnectFails
  BY <1>10, AppMovesKeeps
<1>11. CASE ConnectOk \/ Disconnected
  BY <1>11, AppLinksKeeps
<1>12. CASE ClearAlarm
  BY <1>12, ClearAlarmKeeps
<1>13. CASE AppAnswered \/ AppRaises
  BY <1>13, AppAnsweredKeeps
<1> QED BY <1>1, <1>2, <1>3, <1>4, <1>5, <1>6, <1>7, <1>8, <1>9, <1>10, <1>11, <1>12,
           <1>13 DEF DeviceNext

\* In every state a connection or alarm event that is still emitted is of the device's
\* present state, and the records are once it is not, unless a handler was cut short.
THEOREM DeviceInvariance == DeviceSpec => []DeviceInv
<1>1. DeviceInv /\ [DeviceNext]_deviceVars => DeviceInv'
  BY DeviceStep
<1> QED BY <1>1, DeviceBegins, PTL DEF DeviceSpec

\* Every variable of a device of equipment/device/base.py holds a value of its kind, and a
\* responsive device is a connected one.
THEOREM DeviceTyped == DeviceSpec => []DeviceTypes
<1>1. DeviceInv => DeviceTypes
  <2> SUFFICES ASSUME DeviceInv PROVE DeviceTypes
    OBVIOUS
  <2>1. alarm \in [active : BOOLEAN, up : 0..ActivateAfter, down : 0..ClearAfter]
    BY DEF DeviceInv, DeviceKinds, AlarmStates
  <2>2. reading \in DeviceTasks /\ app \in DeviceTasks
    BY DEF DeviceInv, Roles, Emits
  <2> QED BY <2>1, <2>2 DEF DeviceInv, DeviceKinds, DeviceTypes, DeviceTasks
<1> QED BY <1>1, DeviceInvariance, PTL

\* AlarmPersistenceManager has the disconnection of a device on record exactly while
\* _device_responsive is false and its alarm exactly while AlarmState is active, whatever
\* the readers, thresholds, reconnections and stops, between events that all ended.
THEOREM RecordsAlwaysAgree == DeviceSpec => []RecordsAgree
<1>1. DeviceInv => RecordsAgree
  <2> SUFFICES ASSUME DeviceInv, cut = {}, reading.at # "emitting", app.at # "emitting"
               PROVE  /\ everUp => (record.down <=> ~responsive)
                      /\ record.alarm <=> alarm.active
    BY DEF RecordsAgree
  <2>1. reading.event = NoEvent /\ app.event = NoEvent
    BY DEF DeviceInv, Roles, Emits
  <2> QED BY <2>1 DEF DeviceInv, LinkAgrees, AlarmAgrees, OfLink, OfAlarm, NoEvent
<1> QED BY <1>1, DeviceInvariance, PTL

\* AlarmState.update of equipment/alarm/state.py activates and clears an alarm after as many
\* readings in a row as its hysteresis asks for, however the readings are spread over
\* connections and restarts.
THEOREM AlarmsDebounced == DeviceSpec => Debounced
<1> DEFINE Step == /\ alarm'.active /\ ~alarm.active => InARow(ActivateAfter, TRUE)
                   /\ alarm.active /\ ~alarm'.active => InARow(ClearAfter, FALSE) \/ ClearAlarm
<1>1. ASSUME NEW bit \in BOOLEAN, NEW gone, DeviceInv, Evaluate(bit, gone) PROVE Step
  BY <1>1, EvaluateKeeps DEF Turned
<1>2. ASSUME alarm' = alarm PROVE Step
  BY <1>2
<1>3. ASSUME DeviceInv, [DeviceNext]_deviceVars PROVE Step
  <2>1. CASE ReadOk
    <3>1. PICK bit \in BOOLEAN : alarm' = alarm \/ Evaluate(bit, cut)
      BY <2>1 DEF ReadOk
    <3> QED BY <1>1, <1>2, <1>3, <3>1
  <2>2. CASE ReaderAnswered \/ ReaderRaises
    <3>1. reading.bit \in BOOLEAN
      BY <1>3 DEF DeviceInv, Roles, Emits, DeviceTasks
    <3>2. alarm' = alarm \/ \E gone \in {cut, cut \cup {"raised"}} : Evaluate(reading.bit, gone)
      BY <2>2 DEF ReaderAnswered, ReaderRaises, GoOn
    <3> QED BY <1>1, <1>2, <1>3, <3>1, <3>2
  <2>3. CASE ClearAlarm
    BY <2>3 DEF ClearAlarm
  <2>4. CASE ~(ReadOk \/ ReaderAnswered \/ ReaderRaises \/ ClearAlarm)
    <3>1. alarm' = alarm
      BY <1>3, <2>4 DEF DeviceNext, deviceVars, Wake, ReaderConnects, ReaderConnectFails,
         ReadFails, Connect, ConnectOk, ConnectFails, Start, Stop, Disconnect, Disconnected,
         DisconnectFails, AppAnswered, AppRaises
    <3> QED BY <1>2, <3>1
  <2> QED BY <2>1, <2>2, <2>3, <2>4
<1>4. DeviceInv /\ [DeviceNext]_deviceVars => [Step]_deviceVars
  BY <1>3
<1> QED BY <1>4, DeviceInvariance, PTL DEF DeviceSpec, Debounced

-----------------------------------------------------------------------------
(* The journal of the writes.                                              *)

TaskStates ==
    {Off, Reading} \cup
    [at : {"creating", "announcing", "writing", "recording", "publishing"},
     command : Commands, result : Terminal \cup {"none"}]

\* A task that has made the record of write c, and is not through with it.
Carries(p, c) ==
    p.at \in {"announcing", "writing", "recording", "publishing"} /\ p.command = c

\* Nothing is kept of an action; who works at one has its answer still to come, or has it.
Apart(p) ==
    p.at \in {"announcing", "recording", "publishing", "writing"} =>
        p.command \in Actions /\ p.at \in {"writing", "publishing"}

\* What a task that carries a write out finds: its status s, how often the device took it,
\* and the results published.
Finds(p, s, k, h) ==
    /\ p.at = "announcing" => s = "pending" /\ k = 0 /\ h = {}
    /\ p.at = "writing" => s = "executing" /\ k = 0 /\ h = {}
    /\ p.at = "recording" =>
           /\ h = {} /\ p.result \in Terminal
           /\ p.result \in {"device_not_found", "validation_failed"} => s = "pending" /\ k = 0
           /\ p.result = "success" => s = "executing" /\ k = 1
           /\ p.result = "failed" => s = "executing"
    /\ p.at = "publishing" => s = p.result /\ s # "none"

\* JournalTruthful of one write, and a write without a record was not sent to the device.
Truthful(s, k, h) ==
    /\ s \in Statuses /\ k \in 0..1 /\ h \subseteq Terminal
    /\ k = 1 => s \in {"executing", "success", "failed"}
    /\ s = "success" => k = 1
    /\ h \subseteq {s}
    /\ s = "none" => k = 0 /\ h = {}

JournalKinds ==
    /\ inbox \in [Nodes -> Seq(Commands)]
    /\ task \in [Nodes -> TaskStates]
    /\ \A n \in Nodes : task[n].at \in {"creating", "announcing", "recording"} =>
                            task[n].command \in WriteCommands
    /\ journal \in [WriteCommands -> Statuses]
    /\ taken \in [WriteCommands -> 0..2]
    /\ heard \in [WriteCommands -> SUBSET Terminal]

\* One task at most carries a write out, and it finds the write as it supposes.
JournalInv ==
    /\ JournalKinds
    /\ \A c \in WriteCommands :
         /\ Truthful(journal[c], taken[c], heard[c])
         /\ \A n \in Nodes : Carries(task[n], c) =>
                /\ journal[c] # "none"
                /\ Finds(task[n], journal[c], taken[c], heard[c])
         /\ \A m, n \in Nodes : Carries(task[m], c) /\ Carries(task[n], c) => m = n

\* The step of a task that touches no write.
LEMMA ApartKeeps ==
  ASSUME JournalInv, NEW n \in Nodes, NEW p \in TaskStates, To(n, p), Apart(p),
         p.at = "creating" => p.command \in WriteCommands,
         inbox' \in [Nodes -> Seq(Commands)], UNCHANGED <<journal, taken, heard>>
  PROVE  JournalInv'
<1>1. task \in [Nodes -> TaskStates] /\ task' = [task EXCEPT ![n] = p]
  BY DEF JournalInv, JournalKinds, To
<1>2. \A m \in Nodes : task'[m] = IF m = n THEN p ELSE task[m]
  BY <1>1
<1>3. p.command \in Actions => p.command \notin WriteCommands
  BY CommandsAssumption
<1>4. p.at \in {"announcing", "recording"} => FALSE
  BY DEF Apart
<1>5. JournalKinds'
  BY <1>1, <1>2, <1>4 DEF JournalInv, JournalKinds
<1>6. ASSUME NEW c \in WriteCommands
      PROVE  ~Carries(p, c)
  BY <1>3 DEF Apart, Carries
<1>7. ASSUME NEW c \in WriteCommands, NEW m \in Nodes, Carries(task'[m], c)
      PROVE  task'[m] = task[m]
  BY <1>2, <1>6, <1>7
<1>8. ASSUME NEW c \in WriteCommands
      PROVE  /\ Truthful(journal'[c], taken'[c], heard'[c])
             /\ \A m \in Nodes : Carries(task'[m], c) =>
                   /\ journal'[c] # "none"
                   /\ Finds(task'[m], journal'[c], taken'[c], heard'[c])
             /\ \A l, m \in Nodes : Carries(task'[l], c) /\ Carries(task'[m], c) => l = m
  BY <1>7 DEF JournalInv
<1> QED BY <1>5, <1>8 DEF JournalInv

\* Of the data kept of each write those of c alone change.
Within(c, old, new, S) ==
    new \in [WriteCommands -> S] /\ \A d \in WriteCommands \ {c} : new[d] = old[d]

\* The step of the one task that carries write c out, or of one that begins to.
LEMMA WriteKeeps ==
  ASSUME JournalInv, NEW n \in Nodes, NEW p \in TaskStates, NEW c \in WriteCommands,
         To(n, p), inbox' \in [Nodes -> Seq(Commands)],
         Within(c, journal, journal', Statuses), Within(c, taken, taken', 0..2),
         Within(c, heard, heard', SUBSET Terminal),
         Carries(task[n], c) \/ journal[c] = "none",
         Truthful(journal'[c], taken'[c], heard'[c]),
         \/ p.at = "off" \/ p.at = "reading"
         \/ /\ Carries(p, c) /\ journal'[c] # "none"
            /\ Finds(p, journal'[c], taken'[c], heard'[c])
  PROVE  JournalInv'
<1>1. task \in [Nodes -> TaskStates] /\ task' = [task EXCEPT ![n] = p]
  BY DEF JournalInv, JournalKinds, To
<1>2. \A m \in Nodes : task'[m] = IF m = n THEN p ELSE task[m]
  BY <1>1
<1>3. \A d \in WriteCommands : d # c => /\ journal'[d] = journal[d]
                                        /\ taken'[d] = taken[d]
                                        /\ heard'[d] = heard[d]
  BY DEF Within
<1>4. JournalKinds'
  <2>1. task' \in [Nodes -> TaskStates]
    BY <1>1
  <2>2. /\ journal' \in [WriteCommands -> Statuses]
        /\ taken' \in [WriteCommands -> 0..2]
        /\ heard' \in [WriteCommands -> SUBSET Terminal]
    BY DEF Within
  <2>3. \A m \in Nodes : task'[m].at \in {"creating", "announcing", "recording"} =>
                            task'[m].command \in WriteCommands
    BY <1>2 DEF JournalInv, JournalKinds, Carries
  <2> QED BY <2>1, <2>2, <2>3 DEF JournalKinds
<1>5. ASSUME NEW d \in WriteCommands, NEW m \in Nodes, Carries(task'[m], d)
      PROVE  IF m = n THEN d = c /\ task'[m] = p /\ journal'[c] # "none"
                              /\ Finds(p, journal'[c], taken'[c], heard'[c])
                      ELSE d # c /\ task'[m] = task[m]
  <2>1. CASE m = n
    BY <1>2, <1>5, <2>1 DEF Carries
  <2>2. CASE m # n
    <3>1. task'[m] = task[m] /\ Carries(task[m], d)
      BY <1>2, <1>5, <2>2
    <3>2. d # c
      BY <3>1, <2>2 DEF JournalInv
    <3> QED BY <2>2, <3>1, <3>2
  <2> QED BY <2>1, <2>2
<1>6. ASSUME NEW d \in WriteCommands
      PROVE  Truthful(journal'[d], taken'[d], heard'[d])
  BY <1>3 DEF JournalInv
<1>7. ASSUME NEW d \in WriteCommands, NEW m \in Nodes, Carries(task'[m], d)
      PROVE  /\ journal'[d] # "none"
             /\ Finds(task'[m], journal'[d], taken'[d], heard'[d])
  <2>1. CASE m = n
    BY <1>3, <1>5, <1>7, <2>1
  <2>2. CASE m # n
    BY <1>3, <1>5, <1>7, <2>2 DEF JournalInv
  <2> QED BY <2>1, <2>2
<1>8. ASSUME NEW d \in WriteCommands, NEW l \in Nodes, NEW m \in Nodes,
             Carries(task'[l], d), Carries(task'[m], d)
      PROVE  l = m
  <2>1. CASE d = c
    BY <1>5, <1>8, <2>1
  <2>2. CASE d # c
    BY <1>5, <1>8, <2>2 DEF JournalInv
  <2> QED BY <2>1, <2>2
<1> QED BY <1>4, <1>6, <1>7, <1>8 DEF JournalInv

\* What is written of a write leaves the others alone, and of an action all of them.
LEMMA OneWrite ==
  ASSUME JournalInv, NEW c \in WriteCommands
  PROVE  /\ UNCHANGED journal => Within(c, journal, journal', Statuses)
         /\ UNCHANGED taken => Within(c, taken, taken', 0..2)
         /\ UNCHANGED heard => Within(c, heard, heard', SUBSET Terminal)
         /\ \A s \in Statuses : journal' = [journal EXCEPT ![c] = s] =>
                Within(c, journal, journal', Statuses) /\ journal'[c] = s
         /\ taken[c] = 0 /\ TakenBy(c) => Within(c, taken, taken', 0..2) /\ taken'[c] = 1
         /\ \A s \in Terminal : HeardOf(c, s) =>
                /\ Within(c, heard, heard', SUBSET Terminal)
                /\ heard'[c] = heard[c] \cup {s}
<1>1. /\ journal \in [WriteCommands -> Statuses]
      /\ taken \in [WriteCommands -> 0..2]
      /\ heard \in [WriteCommands -> SUBSET Terminal]
  BY DEF JournalInv, JournalKinds
<1>2. UNCHANGED journal => Within(c, journal, journal', Statuses)
  BY <1>1 DEF Within
<1>3. UNCHANGED taken => Within(c, taken, taken', 0..2)
  BY <1>1 DEF Within
<1>4. UNCHANGED heard => Within(c, heard, heard', SUBSET Terminal)
  BY <1>1 DEF Within
<1>5. \A s \in Statuses : journal' = [journal EXCEPT ![c] = s] =>
          Within(c, journal, journal', Statuses) /\ journal'[c] = s
  BY <1>1 DEF Within
<1>6. taken[c] = 0 /\ TakenBy(c) => Within(c, taken, taken', 0..2) /\ taken'[c] = 1
  BY <1>1 DEF Within, TakenBy
<1>7. ASSUME NEW s \in Terminal, HeardOf(c, s)
      PROVE  Within(c, heard, heard', SUBSET Terminal) /\ heard'[c] = heard[c] \cup {s}
  BY <1>1, <1>7 DEF Within, HeardOf
<1> QED BY <1>2, <1>3, <1>4, <1>5, <1>6, <1>7

LEMMA NoWrite ==
  ASSUME JournalInv, NEW c \in Actions
  PROVE  /\ TakenBy(c) => taken' = taken
         /\ \A s : HeardOf(c, s) => heard' = heard
<1>1. taken \in [WriteCommands -> 0..2] /\ heard \in [WriteCommands -> SUBSET Terminal]
  BY DEF JournalInv, JournalKinds
<1>2. \A d \in WriteCommands : d # c
  BY CommandsAssumption
<1>3. TakenBy(c) => taken' = taken
  BY <1>1, <1>2 DEF TakenBy
<1>4. \A s : HeardOf(c, s) => heard' = heard
  BY <1>1, <1>2 DEF HeardOf
<1> QED BY <1>3, <1>4

\* A task at work carries a write out, is about to make its record, or works at an action.
LEMMA AtWork ==
  ASSUME JournalInv, NEW n \in Nodes, Busy(n)
  PROVE  /\ task[n] \in [at : {"creating", "announcing", "writing", "recording", "publishing"},
                         command : Commands, result : Terminal \cup {"none"}]
         /\ \/ /\ task[n].command \in WriteCommands
               /\ task[n].at = "creating" \/ Carries(task[n], task[n].command)
            \/ /\ task[n].command \in Actions
               /\ task[n].at \in {"writing", "publishing"}
<1>1. task[n] \in [at : {"creating", "announcing", "writing", "recording", "publishing"},
                   command : Commands, result : Terminal \cup {"none"}]
  BY DEF JournalInv, JournalKinds, TaskStates, Busy, Off, Reading
<1> QED BY <1>1 DEF JournalInv, JournalKinds, Carries, Commands

\* The data of a write that is carried out.
LEMMA Carried ==
  ASSUME JournalInv, NEW n \in Nodes, NEW c \in WriteCommands, Carries(task[n], c)
  PROVE  /\ journal[c] \in Statuses \ {"none"} /\ taken[c] \in 0..1
         /\ heard[c] \in SUBSET Terminal
         /\ Truthful(journal[c], taken[c], heard[c])
         /\ Finds(task[n], journal[c], taken[c], heard[c])
BY DEF JournalInv, Truthful

\* A call whose answer is not waited for, having had its effect or not.
LEMMA LandedKeeps ==
  ASSUME JournalInv, NEW n \in Nodes, Busy(n), Landed(n), NEW p \in {Off, Reading}, To(n, p),
         inbox' \in [Nodes -> Seq(Commands)]
  PROVE  JournalInv'
<1> DEFINE c == task[n].command
<1>1. p \in TaskStates /\ (p.at = "off" \/ p.at = "reading") /\ Apart(p) /\ p.at # "creating"
  BY DEF TaskStates, Apart, Off, Reading
<1>2. CASE UNCHANGED <<journal, taken, heard>>
  BY <1>1, <1>2, ApartKeeps
<1>3. CASE c \in Actions
  <2>1. task[n].at \in {"writing", "publishing"}
    BY <1>3, AtWork, CommandsAssumption
  <2>2. /\ TakenBy(c) => taken' = taken
        /\ HeardOf(c, task[n].result) => heard' = heard
    BY <1>3, NoWrite
  <2>3. UNCHANGED <<journal, taken, heard>>
    BY <2>1, <2>2 DEF Landed
  <2> QED BY <1>2, <2>3
<1>4. CASE c \in WriteCommands /\ task[n].at = "creating" /\ journal[c] = "none"
                               /\ journal' = [journal EXCEPT ![c] = "pending"]
                               /\ UNCHANGED <<taken, heard>>
  <2>1. taken'[c] = 0 /\ heard'[c] = {}
    BY <1>4 DEF JournalInv, Truthful
  <2>2. Truthful("pending", 0, {})
    BY DEF Truthful, Statuses
  <2>3. /\ Within(c, journal, journal', Statuses) /\ journal'[c] = "pending"
        /\ Within(c, taken, taken', 0..2) /\ Within(c, heard, heard', SUBSET Terminal)
    BY <1>4, OneWrite DEF Statuses
  <2>4. c \in WriteCommands /\ journal[c] = "none"
    BY <1>4
  <2> HIDE DEF c
  <2> QED BY <1>1, <2>1, <2>2, <2>3, <2>4, WriteKeeps
<1>5. CASE c \in WriteCommands /\ Carries(task[n], c) /\ ~UNCHANGED <<journal, taken, heard>>
  <2>1. /\ Truthful(journal[c], taken[c], heard[c])
        /\ Finds(task[n], journal[c], taken[c], heard[c])
        /\ task[n].result \in Terminal \cup {"none"}
        /\ task[n].at \in {"announcing", "writing", "recording", "publishing"}
    BY <1>5, Carried, AtWork DEF Carries
  <2>2. /\ Within(c, journal, journal', Statuses) /\ Within(c, taken, taken', 0..2)
        /\ Within(c, heard, heard', SUBSET Terminal)
        /\ Truthful(journal'[c], taken'[c], heard'[c])
    <3>1. CASE /\ task[n].at = "announcing"
               /\ journal' = [journal EXCEPT ![c] = "executing"]
               /\ UNCHANGED <<taken, heard>>
      <4>1. Truthful("executing", taken[c], heard[c]) /\ "executing" \in Statuses
        BY <2>1, <3>1 DEF Truthful, Finds, Statuses
      <4> QED BY <1>5, <3>1, <4>1, OneWrite
    <3>2. CASE task[n].at = "writing" /\ TakenBy(c) /\ UNCHANGED <<journal, heard>>
      <4>1. taken[c] = 0 /\ Truthful(journal[c], 1, heard[c])
        BY <2>1, <3>2 DEF Truthful, Finds
      <4> QED BY <1>5, <3>2, <4>1, OneWrite
    <3>3. CASE /\ task[n].at = "recording"
               /\ journal' = [journal EXCEPT ![c] = task[n].result]
               /\ UNCHANGED <<taken, heard>>
      <4>1. Truthful(task[n].result, taken[c], heard[c]) /\ task[n].result \in Statuses
        BY <2>1, <3>3 DEF Truthful, Finds, Statuses, Terminal
      <4> QED BY <1>5, <3>3, <4>1, OneWrite
    <3>4. CASE task[n].at = "publishing" /\ HeardOf(c, task[n].result)
                                         /\ UNCHANGED <<journal, taken>>
      <4>1. journal[c] = task[n].result /\ task[n].result \in Terminal
        BY <2>1, <3>4 DEF Finds
      <4>2. Truthful(journal[c], taken[c], heard[c] \cup {task[n].result})
        BY <2>1, <4>1 DEF Truthful, Terminal
      <4> QED BY <1>5, <3>4, <4>1, <4>2, OneWrite
    <3> QED BY <1>5, <3>1, <3>2, <3>3, <3>4 DEF Landed, Carries
  <2>3. c \in WriteCommands /\ Carries(task[n], c)
    BY <1>5
  <2> HIDE DEF c
  <2> QED BY <1>1, <2>2, <2>3, WriteKeeps
<1> QED BY <1>2, <1>3, <1>4, <1>5, AtWork DEF Landed, Carries

LEMMA JournalBegins == ExecutionInit => JournalInv
<1> SUFFICES ASSUME ExecutionInit PROVE JournalInv
  OBVIOUS
<1>1. JournalKinds
  BY DEF ExecutionInit, JournalKinds, TaskStates, Off, Statuses
<1>2. \A n \in Nodes, c \in WriteCommands : ~Carries(task[n], c)
  BY DEF ExecutionInit, Carries, Off
<1>3. \A c \in WriteCommands : Truthful(journal[c], taken[c], heard[c])
  BY DEF ExecutionInit, Truthful, Statuses
<1> QED BY <1>1, <1>2, <1>3 DEF JournalInv

\* A message arrives, who leads changes, or nothing does.
LEMMA AroundKeeps ==
  ASSUME JournalInv, UNCHANGED <<task, journal, taken, heard>>,
         inbox' \in [Nodes -> Seq(Commands)]
  PROVE  JournalInv'
BY DEF JournalInv, JournalKinds

\* Who has looked at a message lets it be, works at the action, or makes a record.
LEMMA TakeKeeps ==
  ASSUME JournalInv, NEW n \in Nodes, Take(n)
  PROVE  JournalInv'
<1>1. inbox \in [Nodes -> Seq(Commands)] /\ inbox[n] # <<>>
  BY DEF JournalInv, JournalKinds, Take
<1>2. Head(inbox[n]) \in Commands /\ Tail(inbox[n]) \in Seq(Commands)
  BY <1>1
<1>3. inbox' \in [Nodes -> Seq(Commands)]
  BY <1>1, <1>2 DEF Take
<1> DEFINE c == Head(inbox[n])
<1>4. CASE c \in Actions
  <2>1. To(n, Doing("writing", c, "none")) /\ UNCHANGED <<journal, taken, heard>>
    BY <1>4, CommandsAssumption DEF Take
  <2>2. Doing("writing", c, "none") \in TaskStates /\ Apart(Doing("writing", c, "none"))
    BY <1>2, <1>4 DEF Doing, TaskStates, Apart
  <2> HIDE DEF c
  <2> QED BY <1>3, <2>1, <2>2, ApartKeeps DEF Doing
<1>5. CASE c \in WriteCommands /\ c \notin Actions /\ n \in leaders
  <2>1. To(n, Doing("creating", c, "none")) /\ UNCHANGED <<journal, taken, heard>>
    BY <1>5 DEF Take
  <2>2. Doing("creating", c, "none") \in TaskStates /\ Apart(Doing("creating", c, "none"))
    BY <1>2 DEF Doing, TaskStates, Apart
  <2>3. c \in WriteCommands
    BY <1>5
  <2> HIDE DEF c
  <2> QED BY <1>3, <2>1, <2>2, <2>3, ApartKeeps DEF Doing
<1>6. CASE c \notin Actions /\ n \notin leaders
  BY <1>3, <1>6, AroundKeeps DEF Take
<1> QED BY <1>2, <1>4, <1>5, <1>6 DEF Commands

\* The record of a write is made only when there is none, so nobody carries it out yet.
LEMMA CreatedKeeps ==
  ASSUME JournalInv, NEW n \in Nodes, Created(n)
  PROVE  JournalInv'
<1> DEFINE c == task[n].command
<1>1. Busy(n) /\ task[n].at = "creating" /\ c \in WriteCommands /\ c \in Commands
  BY DEF Created, Busy, JournalInv, JournalKinds, Commands
<1>2. inbox' \in [Nodes -> Seq(Commands)]
  BY DEF Created, Outside, JournalInv, JournalKinds
<1>3. CASE ~New(c)
  <2>1. To(n, Reading) /\ UNCHANGED <<journal, taken, heard>>
    BY <1>3 DEF Created
  <2>2. Reading \in TaskStates /\ Apart(Reading) /\ Reading.at # "creating"
    BY DEF TaskStates, Reading, Apart
  <2> QED BY <1>2, <2>1, <2>2, ApartKeeps
<1>4. CASE New(c)
  <2>1. PICK p \in {Doing("recording", c, "device_not_found"),
                    Doing("recording", c, "validation_failed"),
                    Doing("announcing", c, "none")} : To(n, p)
    BY <1>4 DEF Created
  <2>2. journal[c] = "none"
    BY <1>4 DEF New
  <2>3. taken'[c] = 0 /\ heard'[c] = {}
    BY <1>1, <2>2 DEF Created, JournalInv, Truthful
  <2>4. /\ Within(c, journal, journal', Statuses) /\ journal'[c] = "pending"
        /\ Within(c, taken, taken', 0..2) /\ Within(c, heard, heard', SUBSET Terminal)
    BY <1>1, <1>4, OneWrite DEF Created, Statuses
  <2>5. Truthful("pending", 0, {})
    BY DEF Truthful, Statuses
  <2>6. /\ p \in TaskStates /\ p.command = c /\ p.at \in {"announcing", "recording"}
        /\ p.at = "recording" => p.result \in {"device_not_found", "validation_failed"}
    BY <1>1, <2>1 DEF TaskStates, Doing, Terminal
  <2>8. Carries(p, c) /\ Finds(p, "pending", 0, {})
    BY <2>6 DEF Carries, Finds, Terminal
  <2>7. c \in WriteCommands
    BY <1>1
  <2> HIDE DEF c
  <2> QED BY <1>2, <2>1, <2>2, <2>3, <2>4, <2>5, <2>6, <2>7, <2>8, WriteKeeps
<1> QED BY <1>3, <1>4

LEMMA AnnouncedKeeps ==
  ASSUME JournalInv, NEW n \in Nodes, Announced(n)
  PROVE  JournalInv'
<1> DEFINE c == task[n].command
           p == [task[n] EXCEPT !.at = "writing"]
<1>1. Busy(n) /\ task[n].at = "announcing" /\ inbox' \in [Nodes -> Seq(Commands)]
  BY DEF Announced, Busy, Outside, JournalInv, JournalKinds
<1>2. c \in WriteCommands /\ Carries(task[n], c)
  BY <1>1, AtWork
<1>3. journal[c] = "pending" /\ taken[c] = 0 /\ heard[c] = {}
  BY <1>1, <1>2, Carried DEF Finds
<1>4. /\ Within(c, journal, journal', Statuses) /\ journal'[c] = "executing"
      /\ Within(c, taken, taken', 0..2) /\ Within(c, heard, heard', SUBSET Terminal)
  BY <1>2, OneWrite DEF Announced, Statuses
<1>5. taken'[c] = 0 /\ heard'[c] = {} /\ To(n, p)
  BY <1>3 DEF Announced
<1>6. p \in TaskStates /\ p.at = "writing" /\ p.command = c
  BY <1>1, AtWork DEF TaskStates
<1>7. Truthful("executing", 0, {}) /\ Carries(p, c) /\ Finds(p, "executing", 0, {})
  BY <1>6 DEF Truthful, Statuses, Carries, Finds
<1> HIDE DEF c, p
<1> QED BY <1>1, <1>2, <1>4, <1>5, <1>6, <1>7, WriteKeeps

\* The device takes what only one task can still send it.
LEMMA WrittenKeeps ==
  ASSUME JournalInv, NEW n \in Nodes, Written(n)
  PROVE  JournalInv'
<1> DEFINE c == task[n].command
           Then(s) == Doing(IF c \in Actions THEN "publishing" ELSE "recording", c, s)
<1>1. Busy(n) /\ task[n].at = "writing" /\ inbox' \in [Nodes -> Seq(Commands)]
  BY DEF Written, Busy, Outside, JournalInv, JournalKinds
<1>2. c \in Commands
  BY <1>1, AtWork
<1>3. PICK s \in {"success", "failed"} :
        /\ To(n, Then(s)) /\ UNCHANGED <<journal, heard>>
        /\ TakenBy(c) \/ (s = "failed" /\ UNCHANGED taken)
  <2>1. \A s : AfterWrite(n, s) <=> To(n, Then(s))
    BY DEF AfterWrite
  <2>2. CASE TakenBy(c) /\ AfterWrite(n, "success")
    BY <2>1, <2>2 DEF Written
  <2>3. CASE (TakenBy(c) \/ UNCHANGED taken) /\ AfterWrite(n, "failed")
    BY <2>1, <2>3 DEF Written
  <2> QED BY <2>2, <2>3 DEF Written, Unconfirmed
<1>4. Then(s) \in TaskStates
  BY <1>2 DEF Doing, TaskStates, Terminal
<1>5. CASE c \in Actions
  <2>1. UNCHANGED <<journal, taken, heard>>
    BY <1>3, <1>5, NoWrite
  <2>2. Apart(Then(s)) /\ Then(s).at = "publishing"
    BY <1>5 DEF Apart, Doing
  <2> HIDE DEF Then
  <2> QED BY <1>1, <1>3, <1>4, <2>1, <2>2, ApartKeeps
<1>6. CASE c \in WriteCommands
  <2>1. Carries(task[n], c)
    BY <1>1, <1>6, AtWork, CommandsAssumption
  <2>2. journal'[c] = "executing" /\ taken[c] = 0 /\ heard'[c] = {}
    BY <1>1, <1>3, <1>6, <2>1, Carried DEF Finds
  <2>3. /\ Within(c, journal, journal', Statuses) /\ Within(c, taken, taken', 0..2)
        /\ Within(c, heard, heard', SUBSET Terminal)
        /\ taken'[c] = 1 \/ (s = "failed" /\ taken'[c] = 0)
    BY <1>3, <1>6, <2>2, OneWrite
  <2>4. Truthful("executing", taken'[c], {})
    BY <2>3 DEF Truthful, Statuses
  <2>5. c \notin Actions
    BY <1>6, CommandsAssumption
  <2>6. Carries(Then(s), c) /\ Finds(Then(s), "executing", taken'[c], {})
    BY <2>3, <2>5 DEF Carries, Finds, Doing, Terminal
  <2>7. c \in WriteCommands
    BY <1>6
  <2> HIDE DEF Then, c
  <2> QED BY <1>1, <1>3, <1>4, <2>1, <2>2, <2>3, <2>4, <2>6, <2>7, WriteKeeps
<1> QED BY <1>2, <1>5, <1>6 DEF Commands

LEMMA ResultRecordedKeeps ==
  ASSUME JournalInv, NEW n \in Nodes, ResultRecorded(n)
  PROVE  JournalInv'
<1> DEFINE c == task[n].command
           s == task[n].result
           p == [task[n] EXCEPT !.at = "publishing"]
<1>1. Busy(n) /\ task[n].at = "recording" /\ inbox' \in [Nodes -> Seq(Commands)]
  BY DEF ResultRecorded, Busy, Outside, JournalInv, JournalKinds
<1>2. c \in WriteCommands /\ Carries(task[n], c)
  BY <1>1, AtWork
<1>3. /\ Truthful(journal[c], taken[c], heard[c])
      /\ Finds(task[n], journal[c], taken[c], heard[c])
  BY <1>2, Carried
<1>4. s \in Terminal /\ s \in Statuses /\ Truthful(s, taken[c], heard[c])
  BY <1>1, <1>3 DEF Finds, Truthful, Statuses, Terminal
<1>5. /\ Within(c, journal, journal', Statuses) /\ journal'[c] = s
      /\ Within(c, taken, taken', 0..2) /\ Within(c, heard, heard', SUBSET Terminal)
      /\ taken'[c] = taken[c] /\ heard'[c] = heard[c] /\ To(n, p)
  BY <1>2, <1>4, OneWrite DEF ResultRecorded
<1>6. p \in TaskStates /\ p.at = "publishing" /\ p.command = c /\ p.result = s
  BY <1>1, AtWork DEF TaskStates
<1>7. Carries(p, c) /\ s # "none" /\ Finds(p, s, taken[c], heard[c])
  BY <1>4, <1>6 DEF Carries, Finds, Terminal
<1> HIDE DEF c, p, s
<1> QED BY <1>1, <1>2, <1>4, <1>5, <1>6, <1>7, WriteKeeps

LEMMA PublishedKeeps ==
  ASSUME JournalInv, NEW n \in Nodes, Published(n)
  PROVE  JournalInv'
<1>1. Busy(n) /\ inbox' \in [Nodes -> Seq(Commands)]
  BY DEF Published, Busy, Outside, JournalInv, JournalKinds
<1>2. Landed(n) /\ To(n, Reading)
  BY DEF Published, Landed
<1> QED BY <1>1, <1>2, LandedKeeps

\* Every step keeps what the tasks suppose of the writes they carry out.
LEMMA JournalStep ==
  ASSUME JournalInv, [ExecutionNext]_executionVars
  PROVE  JournalInv'
<1>1. inbox \in [Nodes -> Seq(Commands)]
  BY DEF JournalInv, JournalKinds
<1>2. CASE UNCHANGED executionVars
  BY <1>1, <1>2, AroundKeeps DEF executionVars
<1>3. ASSUME NEW c \in Commands, Send(c) PROVE JournalInv'
  <2>1. inbox' \in [Nodes -> Seq(Commands)]
    BY <1>1, <1>3 DEF Send
  <2> QED BY <1>3, <2>1, AroundKeeps DEF Send
<1>4. ASSUME NEW n \in Nodes, Lead(n) PROVE JournalInv'
  BY <1>1, <1>4, AroundKeeps DEF Lead
<1>5. ASSUME NEW n \in Nodes, Listen(n) PROVE JournalInv'
  <2>1. Reading \in TaskStates /\ Apart(Reading) /\ Reading.at # "creating"
    BY DEF TaskStates, Reading, Apart
  <2> QED BY <1>1, <1>5, <2>1, ApartKeeps DEF Listen, Outside
<1>6. ASSUME NEW n \in Nodes, BreaksOff(n) PROVE JournalInv'
  <2>1. To(n, Off) /\ inbox' \in [Nodes -> Seq(Commands)]
    BY <1>1, <1>6 DEF BreaksOff
  <2>2. CASE Busy(n)
    BY <1>6, <2>1, <2>2, LandedKeeps DEF BreaksOff
  <2>3. CASE ~Busy(n)
    <3>1. Off \in TaskStates /\ Apart(Off) /\ Off.at # "creating"
      BY DEF TaskStates, Off, Apart
    <3> QED BY <1>6, <2>1, <2>3, <3>1, ApartKeeps DEF BreaksOff
  <2> QED BY <2>2, <2>3
<1>7. ASSUME NEW n \in Nodes, GivesUp(n) PROVE JournalInv'
  <2>1. Busy(n) /\ inbox' \in [Nodes -> Seq(Commands)]
    BY <1>1, <1>7 DEF GivesUp, Busy, Outside
  <2> QED BY <1>7, <2>1, LandedKeeps DEF GivesUp
<1> QED BY <1>2, <1>3, <1>4, <1>5, <1>6, <1>7, TakeKeeps, CreatedKeeps, AnnouncedKeeps,
           WrittenKeeps, ResultRecordedKeeps, PublishedKeeps DEF ExecutionNext

\* In every state one task at most is between the record of a write and its result, and the
\* record, the device and the published results are as that task supposes.
THEOREM JournalInvariance == ExecutionSpec => []JournalInv
<1>1. JournalInv /\ [ExecutionNext]_executionVars => JournalInv'
  BY JournalStep
<1> QED BY <1>1, JournalBegins, PTL DEF ExecutionSpec

\* WriteCommandManager.execute carries a write out once at most, and its record tells what
\* happened to it, whatever the nodes, commands, leaders, crashes and failed calls.
THEOREM JournalAlwaysTruthful == ExecutionSpec => []JournalTruthful
<1>1. JournalInv => JournalTruthful
  BY DEF JournalInv, Truthful, JournalTruthful
<1> QED BY <1>1, JournalInvariance, PTL

-----------------------------------------------------------------------------
(* The steps of a system command.                                          *)

ExecutionStates ==
    [at : {"idle", "delay", "acting", "checking", "success", "aborted"},
     step : DOMAIN CommandSteps, waits : SUBSET PlantDevices, bad : BOOLEAN, looks : Nat]
Tellings == [DOMAIN CommandSteps -> [PlantDevices -> Answers \cup {"none"}]]

\* An answer that is one, and fails no step.
Fine == {"success", "cancelled"}

\* What an execution x knows by the answers t it had: none to the steps to come; none that
\* is bad to those behind it, and a fine one unless a device had nothing to carry out; those
\* to the step it is at are bad only when it has noted so.
InTurn(x, t) ==
    /\ x.at = "idle" => x.step = 1
    /\ \A i \in DOMAIN CommandSteps, d \in PlantDevices :
         /\ i > x.step \/ (i = x.step /\ x.at \in {"idle", "delay"}) => t[i][d] = "none"
         /\ t[i][d] \in {"refused", "raised"} =>
                i = x.step /\ x.at \notin {"success", "checking"}
    /\ \A i \in DOMAIN CommandSteps :
         i < x.step \/ (i = x.step /\ x.at \in {"success", "checking"}) =>
             \E y \in PlantDevices : y \notin Capable \/ t[i][y] \in Fine
    /\ x.at = "acting" =>
         /\ \A d \in PlantDevices : t[x.step][d] \in {"refused", "raised"} => x.bad
         /\ \E y \in PlantDevices :
                y \notin Capable \/ y \in x.waits \/ t[x.step][y] # "none"

SystemInv ==
    /\ known \subseteq PlantDevices
    /\ execution \in [Executions -> ExecutionStates]
    /\ told \in [Executions -> Tellings]
    /\ \A e \in Executions : InTurn(execution[e], told[e])

LEMMA CommandLength ==
  /\ Len(CommandSteps) \in Nat \ {0} /\ DOMAIN CommandSteps = 1..Len(CommandSteps)
  /\ \A i \in DOMAIN CommandSteps : CommandSteps[i].devices \subseteq PlantDevices
  /\ 1 \in DOMAIN CommandSteps
<1> DEFINE S == [trait : BOOLEAN, devices : SUBSET PlantDevices, check : BOOLEAN]
<1>1. CommandSteps \in Seq(S) /\ CommandSteps # <<>>
  BY CommandsAssumption
<1>2. Len(CommandSteps) \in Nat \ {0} /\ DOMAIN CommandSteps = 1..Len(CommandSteps)
  BY <1>1
<1>3. ASSUME NEW i \in DOMAIN CommandSteps
      PROVE  CommandSteps[i] \in S
  <2> HIDE DEF S
  <2> QED BY <1>1, <1>2, ElementOfSeq
<1>4. \A i \in DOMAIN CommandSteps : CommandSteps[i].devices \subseteq PlantDevices
  BY <1>3
<1>5. 1 \in DOMAIN CommandSteps
  BY <1>2
<1> QED BY <1>2, <1>4, <1>5

LEMMA SystemBegins == SystemInit => SystemInv
<1> SUFFICES ASSUME SystemInit PROVE SystemInv
  OBVIOUS
<1>1. Execution("idle", 1) \in ExecutionStates
  BY CommandLength DEF Execution, ExecutionStates
<1>2. told \in [Executions -> Tellings] /\ known \subseteq PlantDevices
      /\ execution \in [Executions -> ExecutionStates]
  BY <1>1 DEF SystemInit, Tellings
<1>3. ASSUME NEW e \in Executions PROVE InTurn(execution[e], told[e])
  BY CommandLength DEF SystemInit, InTurn, Execution
<1> QED BY <1>2, <1>3 DEF SystemInv

\* One execution moves to x and has had the answers t.
LEMMA ExecutionMoves ==
  ASSUME SystemInv, NEW e \in Executions, NEW x \in ExecutionStates, NEW t \in Tellings,
         execution' = [execution EXCEPT ![e] = x], told' = [told EXCEPT ![e] = t],
         UNCHANGED known, InTurn(x, t)
  PROVE  SystemInv'
<1>1. ASSUME NEW f \in Executions PROVE InTurn(execution'[f], told'[f])
  <2>1. CASE f = e
    BY <2>1 DEF SystemInv
  <2>2. CASE f # e
    BY <2>2 DEF SystemInv
  <2> QED BY <2>1, <2>2
<1> QED BY <1>1 DEF SystemInv

\* After a step that went well nothing is left of it that is bad.
LEMMA AfterKeeps ==
  ASSUME SystemInv, NEW e \in Executions, NEW ok \in BOOLEAN, After(e, ok),
         UNCHANGED <<known, told>>,
         ok => /\ \A d \in PlantDevices :
                      told[e][execution[e].step][d] \notin {"refused", "raised"}
               /\ \E y \in PlantDevices :
                      y \notin Capable \/ told[e][execution[e].step][y] \in Fine
  PROVE  SystemInv'
<1> DEFINE x == execution[e]
           t == told[e]
           at == IF ~ok THEN "aborted"
                 ELSE IF x.step = Len(CommandSteps) THEN "success" ELSE "delay"
           y == Execution(at, IF at = "delay" THEN x.step + 1 ELSE x.step)
<1>1. x \in ExecutionStates /\ t \in Tellings /\ InTurn(x, t) /\ told = [told EXCEPT ![e] = t]
  BY DEF SystemInv
<1>2. x.step \in 1..Len(CommandSteps)
  BY <1>1, CommandLength DEF ExecutionStates
<1>3. execution' = [execution EXCEPT ![e] = y]
  BY DEF After
<1>4. CASE at = "delay"
  <2>1. ok /\ x.step + 1 \in DOMAIN CommandSteps
    BY <1>2, <1>4, CommandLength
  <2>2. y \in ExecutionStates /\ y.at = "delay" /\ y.step = x.step + 1
    BY <1>4, <2>1 DEF Execution, ExecutionStates
  <2>3. /\ \A d \in PlantDevices : t[x.step][d] \notin {"refused", "raised"}
        /\ \E z \in PlantDevices : z \notin Capable \/ t[x.step][z] \in Fine
    BY <2>1
  <2> HIDE DEF x, t, at, y
  <2>4. ASSUME NEW i \in DOMAIN CommandSteps, NEW d \in PlantDevices
        PROVE  /\ i > x.step => t[i][d] = "none"
               /\ t[i][d] \notin {"refused", "raised"}
    BY <1>1, <1>2, <2>3, CommandLength DEF InTurn
  <2>5. ASSUME NEW i \in DOMAIN CommandSteps, i < x.step + 1
        PROVE  \E z \in PlantDevices : z \notin Capable \/ t[i][z] \in Fine
    <3>1. i < x.step \/ i = x.step
      BY <1>2, <2>5, CommandLength
    <3> QED BY <1>1, <2>3, <3>1 DEF InTurn
  <2>6. InTurn(y, t)
    BY <1>2, <2>2, <2>4, <2>5, CommandLength DEF InTurn
  <2> QED BY <1>1, <1>3, <2>2, <2>6, ExecutionMoves
<1>5. CASE at # "delay"
  <2>1. at = "aborted" \/ (at = "success" /\ ok)
    BY <1>5
  <2>2. y \in ExecutionStates /\ y.at = at /\ y.step = x.step
    BY <1>1, <1>5, <2>1 DEF Execution, ExecutionStates
  <2>3. InTurn(y, t)
    BY <1>1, <1>2, <2>1, <2>2, CommandLength DEF InTurn
  <2> HIDE DEF x, t, at, y
  <2> QED BY <1>1, <1>3, <2>2, <2>3, ExecutionMoves
<1> QED BY <1>4, <1>5

LEMMA ExecuteKeeps ==
  ASSUME SystemInv, NEW e \in Executions, Execute(e)
  PROVE  SystemInv'
<1> DEFINE x == execution[e]
           y == Execution("delay", 1)
<1>1. x \in ExecutionStates /\ told[e] \in Tellings /\ InTurn(x, told[e])
  BY DEF SystemInv
<1>2. y \in ExecutionStates /\ y.at = "delay" /\ y.step = 1
  BY CommandLength DEF Execution, ExecutionStates
<1>3. \A i \in DOMAIN CommandSteps, d \in PlantDevices : told[e][i][d] = "none"
  BY <1>1, CommandLength DEF Execute, InTurn
<1>4. InTurn(y, told[e])
  BY <1>2, <1>3, CommandLength DEF InTurn
<1>5. execution' = [execution EXCEPT ![e] = y] /\ told' = [told EXCEPT ![e] = told[e]]
  BY DEF Execute, SystemInv
<1> HIDE DEF x, y
<1> QED BY <1>1, <1>2, <1>4, <1>5, ExecutionMoves DEF Execute

LEMMA TellKeeps ==
  ASSUME SystemInv, NEW e \in Executions, Tell(e)
  PROVE  SystemInv'
<1> DEFINE x == execution[e]
           devices == Resolved(CommandSteps[x.step])
           y == [x EXCEPT !.at = "acting", !.waits = devices \cap Capable]
<1>1. x \in ExecutionStates /\ told[e] \in Tellings /\ InTurn(x, told[e])
  BY DEF SystemInv
<1>2. devices \subseteq PlantDevices /\ x.step \in DOMAIN CommandSteps
  BY <1>1, CommandLength DEF Resolved, SystemInv, ExecutionStates
<1>3. CASE devices = {}
  BY <1>3, AfterKeeps DEF Tell
<1>4. CASE devices # {}
  <2>1. /\ y \in ExecutionStates /\ y.at = "acting" /\ y.step = x.step
        /\ y.waits = devices \cap Capable
    BY <1>1, <1>2 DEF ExecutionStates
  <2>2. x.at = "delay"
    BY DEF Tell
  <2>3. PICK d \in PlantDevices : d \notin Capable \/ d \in y.waits
    BY <1>2, <1>4, <2>1
  <2>4. InTurn(y, told[e])
    BY <1>1, <1>2, <2>1, <2>2, <2>3, CommandLength DEF InTurn
  <2>5. execution' = [execution EXCEPT ![e] = y] /\ told' = [told EXCEPT ![e] = told[e]]
    BY <1>4 DEF Tell, SystemInv
  <2> HIDE DEF y
  <2> QED BY <1>1, <2>1, <2>4, <2>5, ExecutionMoves DEF Tell
<1> QED BY <1>3, <1>4

LEMMA AnswerKeeps ==
  ASSUME SystemInv, NEW e \in Executions, NEW d \in PlantDevices, NEW a \in Answers,
         Answer(e, d, a)
  PROVE  SystemInv'
<1> DEFINE x == execution[e]
           t == told[e]
           y == [x EXCEPT !.waits = @ \ {d}, !.bad = @ \/ a \in {"refused", "raised"}]
           u == [t EXCEPT ![x.step][d] = a]
<1>1. x \in ExecutionStates /\ t \in Tellings /\ InTurn(x, t) /\ x.at = "acting"
  BY DEF SystemInv, Answer
<1>2. x.step \in DOMAIN CommandSteps /\ x.bad \in BOOLEAN
  BY <1>1 DEF ExecutionStates
<1>3. /\ y \in ExecutionStates /\ y.at = "acting" /\ y.step = x.step
      /\ y.waits = x.waits \ {d}
      /\ x.bad \/ a \in {"refused", "raised"} => y.bad
  BY <1>1 DEF ExecutionStates
<1>4. /\ u \in Tellings
      /\ \A i \in DOMAIN CommandSteps, c \in PlantDevices :
           u[i][c] = IF i = x.step /\ c = d THEN a ELSE t[i][c]
  BY <1>1, <1>2 DEF Tellings
<1>5. InTurn(y, u)
  <2>1. ASSUME NEW i \in DOMAIN CommandSteps, NEW c \in PlantDevices
        PROVE  /\ i > y.step \/ (i = y.step /\ y.at \in {"idle", "delay"}) => u[i][c] = "none"
               /\ u[i][c] \in {"refused", "raised"} =>
                      i = y.step /\ y.at \notin {"success", "checking"}
    <3>1. CASE i = x.step
      BY <1>2, <1>3, <3>1, CommandLength
    <3>2. CASE i # x.step
      <4>1. u[i][c] = t[i][c]
        BY <1>4, <3>2
      <4> HIDE DEF x, t, y, u
      <4> QED BY <1>1, <1>3, <3>2, <4>1, CommandLength DEF InTurn
    <3> QED BY <3>1, <3>2
  <2>2. ASSUME NEW i \in DOMAIN CommandSteps,
               i < y.step \/ (i = y.step /\ y.at \in {"success", "checking"})
        PROVE  \E c \in PlantDevices : c \notin Capable \/ u[i][c] \in Fine
    <3>1. i < x.step /\ i # x.step
      BY <1>2, <1>3, <2>2, CommandLength
    <3>2. PICK c \in PlantDevices : c \notin Capable \/ t[i][c] \in Fine
      BY <1>1, <3>1 DEF InTurn
    <3> QED BY <1>4, <3>1, <3>2
  <2>3. ASSUME NEW c \in PlantDevices, u[y.step][c] \in {"refused", "raised"}
        PROVE  y.bad
    <3>1. CASE c = d
      BY <1>2, <1>3, <1>4, <2>3, <3>1
    <3>2. CASE c # d
      <4>1. t[x.step][c] \in {"refused", "raised"}
        BY <1>2, <1>3, <1>4, <2>3, <3>2
      <4> HIDE DEF x, t, y, u
      <4> QED BY <1>1, <1>3, <4>1 DEF InTurn
    <3> QED BY <3>1, <3>2
  <2>4. u[y.step][d] # "none"
    BY <1>2, <1>3, <1>4 DEF Answers
  <2> HIDE DEF x, t, y, u
  <2> QED BY <1>3, <2>1, <2>2, <2>3, <2>4 DEF InTurn
<1>6. execution' = [execution EXCEPT ![e] = y] /\ told' = [told EXCEPT ![e] = u]
  BY DEF Answer, SystemInv
<1> HIDE DEF x, t, y, u
<1> QED BY <1>3, <1>4, <1>5, <1>6, ExecutionMoves DEF Answer

\* All answers are there; none that is bad was noted, so there is none.
LEMMA GatheredKeeps ==
  ASSUME SystemInv, NEW e \in Executions, Gathered(e)
  PROVE  SystemInv'
<1> DEFINE x == execution[e]
           t == told[e]
           y == [x EXCEPT !.at = "checking", !.waits = Resolved(CommandSteps[x.step])]
<1>1. /\ x \in ExecutionStates /\ t \in Tellings /\ InTurn(x, t)
      /\ x.at = "acting" /\ x.waits = {} /\ x.step \in DOMAIN CommandSteps
  BY DEF SystemInv, Gathered, ExecutionStates
<1>2. CASE x.bad
  BY <1>2, AfterKeeps DEF Gathered, Failed
<1>3. CASE ~x.bad
  <2>1. \A d \in PlantDevices : t[x.step][d] \notin {"refused", "raised"}
    BY <1>1, <1>3 DEF InTurn
  <2>2. PICK c \in PlantDevices : c \notin Capable \/ t[x.step][c] # "none"
    BY <1>1 DEF InTurn
  <2>3. c \notin Capable \/ t[x.step][c] \in Fine
    <3>1. t[x.step][c] \in Answers \cup {"none"}
      BY <1>1 DEF Tellings
    <3> QED BY <2>1, <2>2, <3>1 DEF Answers, Fine
  <2>4. CASE ~CommandSteps[x.step].check
    BY <1>3, <2>1, <2>3, <2>4, AfterKeeps DEF Gathered, Failed
  <2>5. CASE CommandSteps[x.step].check
    <3>1. Resolved(CommandSteps[x.step]) \subseteq PlantDevices
      BY <1>1, CommandLength DEF Resolved, SystemInv
    <3>2. y \in ExecutionStates /\ y.at = "checking" /\ y.step = x.step
      BY <1>1, <3>1 DEF ExecutionStates
    <3> HIDE DEF x, t, y
    <3>3. InTurn(y, t)
      <4>1. ASSUME NEW i \in DOMAIN CommandSteps, NEW d \in PlantDevices
            PROVE  /\ i > x.step => t[i][d] = "none"
                   /\ t[i][d] \notin {"refused", "raised"}
        BY <1>1, <2>1 DEF InTurn
      <4>2. ASSUME NEW i \in DOMAIN CommandSteps, i < x.step \/ i = x.step
            PROVE  \E z \in PlantDevices : z \notin Capable \/ t[i][z] \in Fine
        BY <1>1, <2>3, <4>2 DEF InTurn
      <4> QED BY <3>2, <4>1, <4>2 DEF InTurn
    <3>4. execution' = [execution EXCEPT ![e] = y] /\ told' = [told EXCEPT ![e] = t]
      BY <1>3, <2>5 DEF Gathered, Failed, SystemInv, x, t, y
    <3> QED BY <1>1, <3>2, <3>3, <3>4, ExecutionMoves DEF Gathered
  <2> QED BY <2>4, <2>5
<1> QED BY <1>2, <1>3

LEMMA LookKeeps ==
  ASSUME SystemInv, NEW e \in Executions, Look(e)
  PROVE  SystemInv'
<1> DEFINE x == execution[e]
           t == told[e]
           y == [x EXCEPT !.looks = @ + 1]
<1>1. /\ x \in ExecutionStates /\ t \in Tellings /\ InTurn(x, t)
      /\ x.at = "checking" /\ x.step \in DOMAIN CommandSteps
  BY DEF SystemInv, Look, ExecutionStates
<1>2. CASE Passed(e)
  <2>1. \A d \in PlantDevices : t[x.step][d] \notin {"refused", "raised"}
    BY <1>1 DEF InTurn
  <2>2. \E c \in PlantDevices : c \notin Capable \/ t[x.step][c] \in Fine
    BY <1>1 DEF InTurn
  <2> QED BY <1>2, <2>1, <2>2, AfterKeeps DEF Look
<1>3. CASE ~Passed(e) /\ x.looks = Polls
  BY <1>3, AfterKeeps DEF Look
<1>4. CASE ~Passed(e) /\ x.looks # Polls
  <2>1. /\ y \in ExecutionStates /\ y.at = x.at /\ y.step = x.step
        /\ y.waits = x.waits /\ y.bad = x.bad
    BY <1>1 DEF ExecutionStates
  <2>2. InTurn(y, t)
    BY <1>1, <2>1 DEF InTurn
  <2>3. execution' = [execution EXCEPT ![e] = y] /\ told' = [told EXCEPT ![e] = t]
    BY <1>4 DEF Look, SystemInv
  <2> HIDE DEF x, t, y
  <2> QED BY <1>1, <2>1, <2>2, <2>3, ExecutionMoves DEF Look
<1> QED BY <1>2, <1>3, <1>4

LEMMA SystemStep ==
  ASSUME SystemInv, [SystemNext]_systemCommandVars
  PROVE  SystemInv'
<1>1. ASSUME NEW d \in PlantDevices, ComeOrGo(d) PROVE SystemInv'
  BY <1>1 DEF ComeOrGo, SystemInv
<1>2. ASSUME NEW d \in PlantDevices, Turn(d) PROVE SystemInv'
  BY <1>2 DEF Turn, SystemInv
<1>3. CASE UNCHANGED systemCommandVars
  BY <1>3 DEF systemCommandVars, SystemInv
<1> QED BY <1>1, <1>2, <1>3, ExecuteKeeps, TellKeeps, AnswerKeeps, GatheredKeeps, LookKeeps
        DEF SystemNext

\* SystemCommandOrchestrator.execute takes a step up only when no device refused or raised
\* at the ones before it, for any steps, devices and overlapping executions, while the
\* devices come and go.
THEOREM StepsAlwaysInTurn == SystemSpec => []StepsInTurn
<1>1. SystemInv /\ [SystemNext]_systemCommandVars => SystemInv'
  BY SystemStep
<1>2. SystemInv => StepsInTurn
  <2> SUFFICES ASSUME SystemInv, NEW e \in Executions, NEW i \in DOMAIN CommandSteps,
                      NEW d \in PlantDevices
               PROVE  /\ told[e][i][d] \in {"refused", "raised"} =>
                             /\ execution[e].step = i
                             /\ execution[e].at \notin {"success", "checking"}
                      /\ told[e][i][d] # "none" /\ i > 1 =>
                             \E x \in PlantDevices : x \notin Capable \/ told[e][i - 1][x] \in Fine
    BY DEF StepsInTurn, Fine
  <2>1. InTurn(execution[e], told[e]) /\ execution[e].step \in DOMAIN CommandSteps
    BY DEF SystemInv, ExecutionStates
  <2>2. told[e][i][d] # "none" /\ i > 1 =>
            i - 1 \in DOMAIN CommandSteps /\ i - 1 < execution[e].step
    BY <2>1, CommandLength DEF InTurn
  <2> QED BY <2>1, <2>2 DEF InTurn
<1> QED BY <1>1, <1>2, SystemBegins, PTL DEF SystemSpec
=============================================================================
