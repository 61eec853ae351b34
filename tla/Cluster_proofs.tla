--------------------------- MODULE Cluster_proofs ---------------------------
(***************************************************************************)
(* Who commands has devices and the lead, as long as no promotion raises;  *)
(* and at most one node commands, for any nodes, lease, intervals and      *)
(* patience that are Timely, when calls fail, nodes crash and stop at any  *)
(* point.  A promotion that raises leaves a node that commands behind, and *)
(* resign() gives the lease away before the node stops commanding: neither *)
(* theorem can do without leaving them out.                                *)
(*                                                                         *)
(* A node that commands, or will without asking etcd again, is in office.  *)
(* Each such node has a time by which it leaves office at the latest, and  *)
(* a time before which it does not command.  The lease is what keeps the   *)
(* times of two nodes apart: who holds it leaves office within the lease   *)
(* and the grace period, who does not, within the grace period, and the    *)
(* next one waits the grace period out before it commands.                 *)
(*                                                                         *)
(* In the end, what the nodes tell each other over Redis: the base modes   *)
(* survive their leader, for any nodes, modes, terms and switches.         *)
(***************************************************************************)
EXTENDS MCControl, FiniteSetTheorems, TLAPS

\* What may fail here: calls, nodes, and the leader's term by a stop.
Survivable == Faults \subseteq {"rpc", "crash", "stop"}

\* How long failing keepalives take to fence a node with f of them behind it, if
\* it has just begun to wait for the next one.
Fencing(f) == (MaxFailures - f) * (Interval + Patience)

\* A node that commands or is on the way to it.
InOffice(n) == live[n] \/ task[n] \in {"won", "starting", "grace"}

\* The ticks after which a leader that is up is out of office at the latest, unless
\* a keepalive succeeds: what is left of its wait and all that may follow.
TermLeading(n) ==
    LET rest == Fencing(fails[n]) + 2 * Patience IN
    CASE keep[n] = "waiting" -> rest - age[n].keep
      [] keep[n] = "failing" -> rest - Interval - age[n].keep
      [] keep[n] = "renewed" -> Patience - age[n].keep + (Fencing(0) + 2 * Patience)
      [] OTHER -> 2 * Patience - age[n].keep

\* The same of a node that may still have to be promoted.
TermUp(n) ==
    LET whole == Fencing(0) + 2 * Patience IN
    CASE task[n] = "won" -> 3 * Patience - age[n].task + Grace + whole
      [] task[n] = "starting" -> 2 * Patience - age[n].task + Grace + whole
      [] task[n] = "grace" -> Grace - age[n].task + Patience + whole
      [] task[n] = "announcing" -> Patience - age[n].task + whole
      [] OTHER -> TermLeading(n)

\* The same, whatever its controller does.
Term(n) ==
    CASE ctl[n] = "closing" -> Patience - age[n].ctl
      [] ctl[n] = "resigning" -> 2 * Patience - age[n].ctl
      [] OTHER -> TermUp(n)

\* The ticks before which a node in office does not command.
Respite(n) ==
    CASE task[n] \in {"won", "starting"} -> Grace
      [] task[n] = "grace" -> Grace - age[n].task
      [] OTHER -> 0

\* Nobody waits longer than allowed.
InTime(n) ==
    /\ Waits(n).task => age[n].task <= TaskLimit(n)
    /\ Waits(n).keep => age[n].keep <= KeepLimit(n)
    /\ Waits(n).ctl => age[n].ctl <= Patience

\* How the parts of a node go together.
Coherent(n) ==
    /\ ctl[n] \in {"down", "draining"} => ~live[n]
    /\ ctl[n] \in {"down", "closing", "draining"} =>
          task[n] = "off" /\ keep[n] = "off" /\ state[n] = "stopped"
    /\ ctl[n] = "resigning" => task[n] \in {"starting", "grace", "announcing", "off"}
    /\ ctl[n] = "up" /\ state[n] = "leader" =>
          task[n] \in {"starting", "grace", "announcing", "leading"}
    /\ task[n] \in {"starting", "grace", "announcing"} => state[n] = "leader"
    /\ keep[n] # "off" => task[n] \in {"leading", "off"}
    /\ keep[n] \in {"demoting", "closing"} => state[n] # "leader"

\* A node that commands has the lead or is being demoted, its devices are on, and
\* its keepalive is there to end its term.
Commands(n) ==
    /\ live[n] =>
          /\ task[n] \in {"announcing", "leading", "off"}
          /\ task[n] = "leading" => keep[n] # "off"
          /\ task[n] = "off" => ctl[n] # "up"
          /\ keep[n] # "closing"
          /\ ctl[n] # "closing" => state[n] = "leader" \/ keep[n] = "demoting"
    /\ live[n] \/ task[n] \in {"grace", "announcing"} => devices[n] = "on"

\* A term ends within the grace period after the lease that carries it.
Covered(n) == InOffice(n) => Term(n) < Grace + (IF owner = n THEN left ELSE 0)

\* Of two nodes in office one is out before the other commands, and it is not
\* the one that holds the lease which stays.
Apart(n, m) ==
    InOffice(n) /\ InOffice(m) =>
        \/ Term(m) < Respite(n)
        \/ owner # n /\ Term(n) < Respite(m)

Sound(n) == InTime(n) /\ Coherent(n) /\ Commands(n)

\* What holds whatever the proportions of the configuration.
Orderly == TypeOK /\ \A n \in Nodes : Sound(n)

IInv ==
    /\ Orderly
    /\ \A n \in Nodes : Covered(n)
    /\ \A n, m \in Nodes : n # m => Apart(n, m)

-----------------------------------------------------------------------------
(* The arithmetic of the keepalives                                        *)

LEMMA FencingFacts ==
    /\ \A f \in 0..MaxFailures - 1 :
          /\ Fencing(f) \in Nat
          /\ Interval + Patience <= Fencing(f) /\ Fencing(f) <= Fencing(0)
          /\ f + 1 < MaxFailures => Fencing(f + 1) = Fencing(f) - (Interval + Patience)
    /\ Timely => Fencing(0) + 6 * Patience < TTL
<1> DEFINE C == Interval + Patience
<1>1. C \in Nat /\ MaxFailures \in Nat \ {0}
  BY ClusterAssumption
<1> HIDE DEF C
<1>2. \A a, b \in Nat : a * C \in Nat /\ (a + b) * C = a * C + b * C
  BY <1>1
<1>3. ASSUME NEW f \in 0..MaxFailures - 1
      PROVE  /\ (MaxFailures - f) * C \in Nat
             /\ C <= (MaxFailures - f) * C
             /\ (MaxFailures - f) * C <= (MaxFailures - 0) * C
             /\ f + 1 < MaxFailures =>
                  (MaxFailures - (f + 1)) * C = (MaxFailures - f) * C - C
  <2>1. PICK a \in Nat : a = MaxFailures - (f + 1)
    BY <1>1
  <2>2. MaxFailures - f = a + 1 /\ MaxFailures - 0 = (a + 1) + f
    BY <1>1, <2>1
  <2>3. (a + 1) * C = a * C + C /\ ((a + 1) + f) * C = (a + 1) * C + f * C
    BY <1>1, <1>2
  <2>4. a * C \in Nat /\ f * C \in Nat /\ (a + 1) * C \in Nat
    BY <1>1, <1>2
  <2> QED
    BY <1>1, <2>1, <2>2, <2>3, <2>4
<1>4. (MaxFailures - 0) * C = MaxFailures * C
  BY <1>1
<1> QED
  BY <1>1, <1>3, <1>4, ClusterAssumption DEF C, Fencing, Timely

\* What Term and Respite count are numbers of ticks.
LEMMA TermInt ==
    ASSUME NEW n \in Nodes
    PROVE  /\ TypeOK => Term(n) \in Int /\ Respite(n) \in Int
           /\ TypeOK' => Term(n)' \in Int /\ Respite(n)' \in Int
<1>1. \A f \in 0..MaxFailures - 1 : Fencing(f) \in Nat /\ Fencing(0) \in Nat
  BY FencingFacts, ClusterAssumption
<1>2. TypeOK => Term(n) \in Int /\ Respite(n) \in Int
  BY <1>1, ClusterAssumption DEF TypeOK, Term, TermUp, TermLeading, Respite
<1>3. TypeOK' => Term(n)' \in Int /\ Respite(n)' \in Int
  BY <1>1, ClusterAssumption DEF TypeOK, Term, TermUp, TermLeading, Respite
<1> QED
  BY <1>2, <1>3

-----------------------------------------------------------------------------
(* What a step of one node leaves of the others                            *)

SameElse(n) ==
    \A m \in Nodes \ {n} :
        /\ state'[m] = state[m] /\ ctl'[m] = ctl[m] /\ task'[m] = task[m]
        /\ keep'[m] = keep[m] /\ age'[m] = age[m] /\ fails'[m] = fails[m]
        /\ live'[m] = live[m] /\ devices'[m] = devices[m]

LEMMA ElseKept ==
    ASSUME NEW n \in Nodes, NEW m \in Nodes \ {n}, SameElse(n)
    PROVE  /\ InTime(m) => InTime(m)'
           /\ Coherent(m) => Coherent(m)'
           /\ Commands(m) => Commands(m)'
           /\ InOffice(m)' = InOffice(m)
           /\ Term(m)' = Term(m)
           /\ Respite(m)' = Respite(m)
<1> USE DEF SameElse
<1>1. InTime(m) => InTime(m)'
  BY DEF InTime, Waits, TaskLimit, KeepLimit
<1>2. Coherent(m) => Coherent(m)'
  BY DEF Coherent
<1>3. Commands(m) => Commands(m)'
  BY DEF Commands
<1>4. InOffice(m)' = InOffice(m)
  BY DEF InOffice
<1>5. Term(m)' = Term(m)
  BY DEF Term, TermUp, TermLeading, Fencing
<1>6. Respite(m)' = Respite(m)
  BY DEF Respite
<1> QED
  BY <1>1, <1>2, <1>3, <1>4, <1>5, <1>6

\* A step of n that leaves n sound leaves all nodes sound.
LEMMA SoundStep ==
    ASSUME Orderly, NEW n \in Nodes, SameElse(n), TypeOK', Sound(n)'
    PROVE  Orderly'
<1>1. ASSUME NEW m \in Nodes \ {n} PROVE Sound(m)'
  BY ElseKept DEF Orderly, Sound
<1> QED
  BY <1>1 DEF Orderly

\* It keeps the invariant if it brings nobody into office, prolongs no term, shortens
\* no respite and takes the lease from nobody but n itself.
Shorter(n) ==
    InOffice(n)' => InOffice(n) /\ Term(n)' <= Term(n) /\ Respite(n)' >= Respite(n)

LEMMA NodeStep ==
    ASSUME IInv, NEW n \in Nodes, SameElse(n), TypeOK', Sound(n)', Shorter(n),
           \/ owner' = owner /\ left' \in {left, TTL}
           \/ owner = n /\ owner' = None /\ (InOffice(n)' => Term(n)' < Grace)
    PROVE  IInv'
<1>0. /\ TypeOK /\ Grace \in Nat /\ TTL \in Nat /\ None \notin Nodes
      /\ left \in 0..TTL /\ left' \in 0..TTL
  BY ClusterAssumption DEF IInv, Orderly, TypeOK
<1>1. \A m \in Nodes : /\ Term(m) \in Int /\ Respite(m) \in Int
                       /\ Term(m)' \in Int /\ Respite(m)' \in Int
  BY <1>0, TermInt
<1>2. \A m \in Nodes \ {n} : /\ InOffice(m)' = InOffice(m)
                             /\ Term(m)' = Term(m) /\ Respite(m)' = Respite(m)
  BY ElseKept
<1>3. ASSUME NEW m \in Nodes PROVE Covered(m)'
  <2>1. Covered(m)
    BY DEF IInv
  <2>2. CASE m = n
    BY <1>0, <1>1, <2>1, <2>2 DEF Covered, Shorter
  <2>3. CASE m # n
    BY <1>0, <1>1, <1>2, <2>1, <2>3 DEF Covered
  <2> QED
    BY <2>2, <2>3
<1>4. ASSUME NEW m \in Nodes, NEW k \in Nodes, m # k PROVE Apart(m, k)'
  <2>1. Apart(m, k)
    BY <1>4 DEF IInv
  <2>2. owner' = m => owner = m
    BY <1>0, <1>4
  <2>3. \A j \in Nodes : InOffice(j)' => /\ InOffice(j) /\ Term(j)' <= Term(j)
                                       /\ Respite(j)' >= Respite(j)
    BY <1>1, <1>2 DEF Shorter
  <2> QED
    BY <1>1, <2>1, <2>2, <2>3 DEF Apart
<1>5. Orderly'
  BY SoundStep DEF IInv
<1> QED
  BY <1>3, <1>4, <1>5 DEF IInv

-----------------------------------------------------------------------------
(* The steps that leave the lease as it is.  Each keeps its node sound,    *)
(* brings it into no office and prolongs no term.                          *)

\* The clocks of a node begin again with its next wait.
LEMMA AgeReset ==
    ASSUME TypeOK, NEW n \in Nodes
    PROVE  LET Ages == [Nodes -> [task : Nat, keep : Nat, ctl : Nat]] IN
           /\ [age EXCEPT ![n].task = 0] \in Ages
           /\ [age EXCEPT ![n].keep = 0] \in Ages
           /\ [age EXCEPT ![n].ctl = 0] \in Ages
           /\ [age EXCEPT ![n].task = 0, ![n].keep = 0] \in Ages
           /\ [age EXCEPT ![n] = [task |-> 0, keep |-> 0, ctl |-> 0]] \in Ages
<1> DEFINE Ages == [Nodes -> [task : Nat, keep : Nat, ctl : Nat]]
<1>1. [age EXCEPT ![n].task = 0] \in Ages
  BY DEF TypeOK
<1>2. [age EXCEPT ![n].keep = 0] \in Ages
  BY DEF TypeOK
<1>3. [age EXCEPT ![n].ctl = 0] \in Ages
  BY DEF TypeOK
<1>4. [age EXCEPT ![n].task = 0, ![n].keep = 0] \in Ages
  <2> DEFINE reset == [age EXCEPT ![n].task = 0]
  <2>1. reset \in Ages
    BY <1>1
  <2>2. [age EXCEPT ![n].task = 0, ![n].keep = 0] = [reset EXCEPT ![n].keep = 0]
    OBVIOUS
  <2> HIDE DEF reset
  <2>3. [reset EXCEPT ![n].keep = 0] \in Ages
    BY <2>1
  <2> QED
    BY <2>2, <2>3
<1>5. [age EXCEPT ![n] = [task |-> 0, keep |-> 0, ctl |-> 0]] \in Ages
  BY DEF TypeOK
<1> QED
  BY <1>1, <1>2, <1>3, <1>4, <1>5

\* A call is awaited no longer than Patience.
LEMMA CallInTime ==
    ASSUME TypeOK, NEW n \in Nodes, InTime(n), task[n] \in Calling
    PROVE  age[n].task \in 0..Patience
<1>1. Waits(n).task /\ TaskLimit(n) = Patience
  BY DEF Waits, TaskLimit, Calling
<1>2. age[n].task \in Nat /\ Patience \in Nat
  BY ClusterAssumption DEF TypeOK
<1> QED
  BY <1>1, <1>2 DEF InTime

\* Nor is a keepalive, and between two of them no longer than Interval.
LEMMA KeepInTime ==
    ASSUME TypeOK, NEW n \in Nodes, InTime(n), keep[n] # "off"
    PROVE  age[n].keep \in 0..(IF keep[n] = "waiting" THEN Interval ELSE Patience)
<1>1. Waits(n).keep /\ KeepLimit(n) = IF keep[n] = "waiting" THEN Interval ELSE Patience
  BY DEF Waits, KeepLimit
<1>2. age[n].keep \in Nat /\ Patience \in Nat /\ Interval \in Nat
  BY ClusterAssumption DEF TypeOK
<1> QED
  BY <1>1, <1>2 DEF InTime

LEMMA WinStep ==
    ASSUME Orderly, NEW n \in Nodes, Win(n)
    PROVE  /\ SameElse(n) /\ owner' = owner /\ left' = left
           /\ TypeOK' /\ Sound(n)' /\ Shorter(n)
<1>0. TypeOK /\ InTime(n) /\ Coherent(n) /\ Commands(n)
  BY DEF Orderly, Sound
<1>1. SameElse(n) /\ owner' = owner /\ left' = left
  BY <1>0 DEF SameElse, TypeOK, Win, TaskTo, key, lease
<1>2. TypeOK'
  BY <1>0, AgeReset, ClusterAssumption DEF TypeOK, Calling, Win, TaskTo, key, lease
<1>3. InTime(n)'
  BY <1>0, ClusterAssumption
     DEF InTime, Waits, TaskLimit, KeepLimit, TypeOK, Win, TaskTo, key, lease
<1>4. Coherent(n)'
  BY <1>0 DEF Coherent, TypeOK, Win, TaskTo, key, lease
<1>5. Commands(n)'
  BY <1>0 DEF Commands, Coherent, TypeOK, Win, TaskTo, key, lease
<1>6. Shorter(n)
  <2>1. ctl[n] = "up" /\ ctl'[n] = "up" /\ task[n] = "won" /\ task'[n] = "starting"
    BY <1>0 DEF Coherent, Win, TaskTo, TypeOK
  <2>2. age[n].task \in 0..Patience /\ age'[n].task = 0
    BY <1>0, <2>1, CallInTime DEF Calling, Win, TaskTo, TypeOK
  <2>3. Fencing(0) \in Nat
    BY FencingFacts, ClusterAssumption
  <2> QED
    BY <2>1, <2>2, <2>3, ClusterAssumption DEF Shorter, InOffice, Term, TermUp, Respite
<1> QED
  BY <1>1, <1>2, <1>3, <1>4, <1>5, <1>6 DEF Sound

LEMMA LoseStep ==
    ASSUME Orderly, NEW n \in Nodes, Lose(n)
    PROVE  /\ SameElse(n) /\ owner' = owner /\ left' = left
           /\ TypeOK' /\ Sound(n)' /\ Shorter(n)
<1>0. TypeOK /\ InTime(n) /\ Coherent(n) /\ Commands(n)
  BY DEF Orderly, Sound
<1>1. SameElse(n) /\ owner' = owner /\ left' = left
  BY <1>0 DEF SameElse, TypeOK, Lose, TaskTo, key, lease
<1>2. TypeOK'
  BY <1>0, AgeReset, ClusterAssumption DEF TypeOK, Calling, Lose, TaskTo, key, lease
<1>3. InTime(n)'
  BY <1>0, ClusterAssumption
     DEF InTime, Waits, TaskLimit, KeepLimit, TypeOK, Lose, TaskTo, key, lease
<1>4. Coherent(n)'
  BY <1>0 DEF Coherent, TypeOK, Lose, TaskTo, key, lease
<1>5. Commands(n)'
  BY <1>0 DEF Commands, Coherent, TypeOK, Lose, TaskTo, key, lease
<1>6. Shorter(n)
  BY <1>0, FencingFacts, ClusterAssumption
     DEF Shorter, InOffice, Term, TermUp, TermLeading, Respite, InTime, Waits,
         TaskLimit, KeepLimit, Calling, Coherent, Commands, TypeOK, Lose, TaskTo, key,
         lease
<1> QED
  BY <1>1, <1>2, <1>3, <1>4, <1>5, <1>6 DEF Sound

LEMMA FollowStep ==
    ASSUME Orderly, NEW n \in Nodes, Follow(n)
    PROVE  /\ SameElse(n) /\ owner' = owner /\ left' = left
           /\ TypeOK' /\ Sound(n)' /\ Shorter(n)
<1>0. TypeOK /\ InTime(n) /\ Coherent(n) /\ Commands(n)
  BY DEF Orderly, Sound
<1>1. SameElse(n) /\ owner' = owner /\ left' = left
  BY <1>0 DEF SameElse, TypeOK, Follow, TaskTo, key, lease
<1>2. TypeOK'
  BY <1>0, AgeReset, ClusterAssumption DEF TypeOK, Calling, Follow, TaskTo, key, lease
<1>3. InTime(n)'
  BY <1>0, ClusterAssumption
     DEF InTime, Waits, TaskLimit, KeepLimit, TypeOK, Follow, TaskTo, key, lease
<1>4. Coherent(n)'
  BY <1>0 DEF Coherent, TypeOK, Follow, TaskTo, key, lease
<1>5. Commands(n)'
  BY <1>0 DEF Commands, Coherent, TypeOK, Follow, TaskTo, key, lease
<1>6. Shorter(n)
  BY <1>0, FencingFacts, ClusterAssumption
     DEF Shorter, InOffice, Term, TermUp, TermLeading, Respite, InTime, Waits,
         TaskLimit, KeepLimit, Calling, Coherent, Commands, TypeOK, Follow, TaskTo, key,
         lease
<1> QED
  BY <1>1, <1>2, <1>3, <1>4, <1>5, <1>6 DEF Sound

LEMMA LookStep ==
    ASSUME Orderly, NEW n \in Nodes, Look(n)
    PROVE  /\ SameElse(n) /\ owner' = owner /\ left' = left
           /\ TypeOK' /\ Sound(n)' /\ Shorter(n)
<1>0. TypeOK /\ InTime(n) /\ Coherent(n) /\ Commands(n)
  BY DEF Orderly, Sound
<1>1. SameElse(n) /\ owner' = owner /\ left' = left
  BY <1>0 DEF SameElse, TypeOK, Look, TaskTo, key, lease
<1>2. TypeOK'
  BY <1>0, AgeReset, ClusterAssumption DEF TypeOK, Calling, Look, TaskTo, key, lease
<1>3. InTime(n)'
  BY <1>0, ClusterAssumption
     DEF InTime, Waits, TaskLimit, KeepLimit, TypeOK, Look, TaskTo, key, lease
<1>4. Coherent(n)'
  BY <1>0 DEF Coherent, TypeOK, Look, TaskTo, key, lease
<1>5. Commands(n)'
  BY <1>0 DEF Commands, Coherent, TypeOK, Look, TaskTo, key, lease
<1>6. Shorter(n)
  BY <1>0, FencingFacts, ClusterAssumption
     DEF Shorter, InOffice, Term, TermUp, TermLeading, Respite, InTime, Waits,
         TaskLimit, KeepLimit, Calling, Coherent, Commands, TypeOK, Look, TaskTo, key,
         lease
<1> QED
  BY <1>1, <1>2, <1>3, <1>4, <1>5, <1>6 DEF Sound

LEMMA SeenStep ==
    ASSUME Orderly, NEW n \in Nodes, Seen(n)
    PROVE  /\ SameElse(n) /\ owner' = owner /\ left' = left
           /\ TypeOK' /\ Sound(n)' /\ Shorter(n)
<1>0. TypeOK /\ InTime(n) /\ Coherent(n) /\ Commands(n)
  BY DEF Orderly, Sound
<1>1. SameElse(n) /\ owner' = owner /\ left' = left
  BY <1>0 DEF SameElse, TypeOK, Seen, TaskTo, key, lease
<1>2. TypeOK'
  <2>1. age' \in [Nodes -> [task : Nat, keep : Nat, ctl : Nat]]
    <3>1. age' = [age EXCEPT ![n].task = 0]
      BY DEF Seen, TaskTo
    <3> QED
      BY <1>0, <3>1, AgeReset
  <2>2. /\ state' \in [Nodes -> {"candidate", "leader", "follower", "stopped"}]
        /\ task' \in [Nodes -> Calling \cup {"off", "polling", "grace", "leading", "retrying"}]
    BY <1>0 DEF TypeOK, Calling, Seen, TaskTo
  <2>3. UNCHANGED <<owner, left, holds, ctl, keep, fails, live, devices>>
    BY DEF Seen, key, lease
  <2> QED
    BY <1>0, <2>1, <2>2, <2>3 DEF TypeOK
<1>3. InTime(n)'
  BY <1>0, ClusterAssumption
     DEF InTime, Waits, TaskLimit, KeepLimit, TypeOK, Seen, TaskTo, key, lease
<1>4. Coherent(n)'
  BY <1>0 DEF Coherent, TypeOK, Seen, TaskTo, key, lease
<1>5. Commands(n)'
  BY <1>0 DEF Commands, Coherent, TypeOK, Seen, TaskTo, key, lease
<1>6. Shorter(n)
  BY <1>0, FencingFacts, ClusterAssumption
     DEF Shorter, InOffice, Term, TermUp, TermLeading, Respite, InTime, Waits,
         TaskLimit, KeepLimit, Calling, Coherent, Commands, TypeOK, Seen, TaskTo, key,
         lease
<1> QED
  BY <1>1, <1>2, <1>3, <1>4, <1>5, <1>6 DEF Sound

LEMMA CallFailsStep ==
    ASSUME Orderly, NEW n \in Nodes, CallFails(n)
    PROVE  /\ SameElse(n) /\ owner' = owner /\ left' = left
           /\ TypeOK' /\ Sound(n)' /\ Shorter(n)
<1>0. TypeOK /\ InTime(n) /\ Coherent(n) /\ Commands(n)
  BY DEF Orderly, Sound
<1>1. SameElse(n) /\ owner' = owner /\ left' = left
  BY <1>0 DEF SameElse, TypeOK, CallFails, TaskTo, key, lease
<1>2. TypeOK'
  <2>1. age' \in [Nodes -> [task : Nat, keep : Nat, ctl : Nat]]
    <3>1. age' = [age EXCEPT ![n].task = 0]
      BY DEF CallFails, TaskTo
    <3> QED
      BY <1>0, <3>1, AgeReset
  <2> QED
    BY <1>0, <2>1, ClusterAssumption DEF TypeOK, Calling, CallFails, TaskTo, key, lease
<1>3. InTime(n)'
  BY <1>0, ClusterAssumption
     DEF InTime, Waits, TaskLimit, KeepLimit, TypeOK, CallFails, TaskTo, key, lease
<1>4. Coherent(n)'
  BY <1>0 DEF Coherent, TypeOK, CallFails, TaskTo, key, lease
<1>5. Commands(n)'
  BY <1>0 DEF Commands, Coherent, TypeOK, CallFails, TaskTo, key, lease
<1>6. Shorter(n)
  BY <1>0, FencingFacts, ClusterAssumption
     DEF Shorter, InOffice, Term, TermUp, TermLeading, Respite, InTime, Waits,
         TaskLimit, KeepLimit, Calling, Coherent, Commands, TypeOK, CallFails, TaskTo,
         key, lease
<1> QED
  BY <1>1, <1>2, <1>3, <1>4, <1>5, <1>6 DEF Sound

LEMMA RetryStep ==
    ASSUME Orderly, NEW n \in Nodes, Retry(n)
    PROVE  /\ SameElse(n) /\ owner' = owner /\ left' = left
           /\ TypeOK' /\ Sound(n)' /\ Shorter(n)
<1>0. TypeOK /\ InTime(n) /\ Coherent(n) /\ Commands(n)
  BY DEF Orderly, Sound
<1>1. SameElse(n) /\ owner' = owner /\ left' = left
  BY <1>0 DEF SameElse, TypeOK, Retry, TaskTo, key, lease
<1>2. TypeOK'
  BY <1>0, AgeReset, ClusterAssumption DEF TypeOK, Calling, Retry, TaskTo, key, lease
<1>3. InTime(n)'
  BY <1>0, ClusterAssumption
     DEF InTime, Waits, TaskLimit, KeepLimit, TypeOK, Retry, TaskTo, key, lease
<1>4. Coherent(n)'
  BY <1>0 DEF Coherent, TypeOK, Retry, TaskTo, key, lease
<1>5. Commands(n)'
  BY <1>0 DEF Commands, Coherent, TypeOK, Retry, TaskTo, key, lease
<1>6. Shorter(n)
  BY <1>0, FencingFacts, ClusterAssumption
     DEF Shorter, InOffice, Term, TermUp, TermLeading, Respite, InTime, Waits,
         TaskLimit, KeepLimit, Calling, Coherent, Commands, TypeOK, Retry, TaskTo, key,
         lease
<1> QED
  BY <1>1, <1>2, <1>3, <1>4, <1>5, <1>6 DEF Sound

LEMMA DevicesStartedStep ==
    ASSUME Orderly, NEW n \in Nodes, DevicesStarted(n)
    PROVE  /\ SameElse(n) /\ owner' = owner /\ left' = left
           /\ TypeOK' /\ Sound(n)' /\ Shorter(n)
<1>0. TypeOK /\ InTime(n) /\ Coherent(n) /\ Commands(n)
  BY DEF Orderly, Sound
<1>1. SameElse(n) /\ owner' = owner /\ left' = left
  BY <1>0 DEF SameElse, TypeOK, DevicesStarted, TaskTo, key, lease
<1>2. TypeOK'
  BY <1>0, AgeReset, ClusterAssumption
     DEF TypeOK, Calling, DevicesStarted, TaskTo, key, lease
<1>3. InTime(n)'
  BY <1>0, ClusterAssumption
     DEF InTime, Waits, TaskLimit, KeepLimit, TypeOK, DevicesStarted, TaskTo, key, lease
<1>4. Coherent(n)'
  BY <1>0 DEF Coherent, TypeOK, DevicesStarted, TaskTo, key, lease
<1>5. Commands(n)'
  BY <1>0 DEF Commands, Coherent, TypeOK, DevicesStarted, TaskTo, key, lease
<1>6. Shorter(n)
  <2>1. /\ ctl'[n] = ctl[n] /\ ctl[n] \in {"up", "resigning"} /\ age'[n].ctl = age[n].ctl
        /\ task[n] = "starting" /\ task'[n] = "grace"
    BY <1>0 DEF Coherent, DevicesStarted, TaskTo, TypeOK
  <2>2. age[n].task \in 0..Patience /\ age'[n].task = 0 /\ age[n].ctl \in Nat
    BY <1>0, <2>1, CallInTime DEF Calling, DevicesStarted, TaskTo, TypeOK
  <2>3. Fencing(0) \in Nat
    BY FencingFacts, ClusterAssumption
  <2> QED
    BY <2>1, <2>2, <2>3, ClusterAssumption DEF Shorter, InOffice, Term, TermUp, Respite
<1> QED
  BY <1>1, <1>2, <1>3, <1>4, <1>5, <1>6 DEF Sound

LEMMA GoLiveStep ==
    ASSUME Orderly, NEW n \in Nodes, GoLive(n)
    PROVE  /\ SameElse(n) /\ owner' = owner /\ left' = left
           /\ TypeOK' /\ Sound(n)' /\ Shorter(n)
<1>0. TypeOK /\ InTime(n) /\ Coherent(n) /\ Commands(n)
  BY DEF Orderly, Sound
<1>1. SameElse(n) /\ owner' = owner /\ left' = left
  BY <1>0 DEF SameElse, TypeOK, GoLive, TaskTo, key, lease
<1>2. TypeOK'
  BY <1>0, AgeReset, ClusterAssumption DEF TypeOK, Calling, GoLive, TaskTo, key, lease
<1>3. InTime(n)'
  BY <1>0, ClusterAssumption
     DEF InTime, Waits, TaskLimit, KeepLimit, TypeOK, GoLive, TaskTo, key, lease
<1>4. Coherent(n)'
  BY <1>0 DEF Coherent, TypeOK, GoLive, TaskTo, key, lease
<1>5. Commands(n)'
  BY <1>0 DEF Commands, Coherent, TypeOK, GoLive, TaskTo, key, lease
<1>6. Shorter(n)
  BY <1>0, FencingFacts, ClusterAssumption
     DEF Shorter, InOffice, Term, TermUp, TermLeading, Respite, InTime, Waits,
         TaskLimit, KeepLimit, Calling, Coherent, Commands, TypeOK, GoLive, TaskTo, key,
         lease
<1> QED
  BY <1>1, <1>2, <1>3, <1>4, <1>5, <1>6 DEF Sound

LEMMA AnnouncedStep ==
    ASSUME Orderly, NEW n \in Nodes, Announced(n)
    PROVE  /\ SameElse(n) /\ owner' = owner /\ left' = left
           /\ TypeOK' /\ Sound(n)' /\ Shorter(n)
<1>0. TypeOK /\ InTime(n) /\ Coherent(n) /\ Commands(n)
  BY DEF Orderly, Sound
<1>1. SameElse(n) /\ owner' = owner /\ left' = left
  BY <1>0 DEF SameElse, TypeOK, Announced, key, lease
<1>2. TypeOK'
  <2>1. age' \in [Nodes -> [task : Nat, keep : Nat, ctl : Nat]]
    <3>1. age' = [age EXCEPT ![n].task = 0, ![n].keep = 0]
      BY DEF Announced
    <3> QED
      BY <1>0, <3>1, AgeReset
  <2> QED
    BY <1>0, <2>1, ClusterAssumption DEF TypeOK, Calling, Announced, key, lease
<1>3. InTime(n)'
  BY <1>0, ClusterAssumption
     DEF InTime, Waits, TaskLimit, KeepLimit, TypeOK, Announced, key, lease
<1>4. Coherent(n)'
  BY <1>0 DEF Coherent, TypeOK, Announced, key, lease
<1>5. Commands(n)'
  BY <1>0 DEF Commands, Coherent, TypeOK, Announced, key, lease
<1>6. Shorter(n)
  BY <1>0, FencingFacts, ClusterAssumption
     DEF Shorter, InOffice, Term, TermUp, TermLeading, Respite, InTime, Waits,
         TaskLimit, KeepLimit, Calling, Coherent, Commands, TypeOK, Announced, key,
         lease
<1> QED
  BY <1>1, <1>2, <1>3, <1>4, <1>5, <1>6 DEF Sound

LEMMA RenewOkStep ==
    ASSUME Orderly, NEW n \in Nodes, RenewOk(n)
    PROVE  /\ SameElse(n) /\ owner' = owner /\ left' = left
           /\ TypeOK' /\ Sound(n)' /\ Shorter(n)
<1>0. TypeOK /\ InTime(n) /\ Coherent(n) /\ Commands(n)
  BY DEF Orderly, Sound
<1>1. SameElse(n) /\ owner' = owner /\ left' = left
  BY <1>0 DEF SameElse, TypeOK, RenewOk, KeepTo, key, lease
<1>2. TypeOK'
  <2>1. age' \in [Nodes -> [task : Nat, keep : Nat, ctl : Nat]]
    <3>1. age' = [age EXCEPT ![n].keep = 0]
      BY DEF RenewOk, KeepTo
    <3> QED
      BY <1>0, <3>1, AgeReset
  <2> QED
    BY <1>0, <2>1, ClusterAssumption DEF TypeOK, Calling, RenewOk, KeepTo, key, lease
<1>3. InTime(n)'
  BY <1>0, ClusterAssumption
     DEF InTime, Waits, TaskLimit, KeepLimit, TypeOK, RenewOk, KeepTo, key, lease
<1>4. Coherent(n)'
  BY <1>0 DEF Coherent, TypeOK, RenewOk, KeepTo, key, lease
<1>5. Commands(n)'
  BY <1>0 DEF Commands, Coherent, TypeOK, RenewOk, KeepTo, key, lease
<1>6. Shorter(n)
  BY <1>0, FencingFacts, ClusterAssumption
     DEF Shorter, InOffice, Term, TermUp, TermLeading, Respite, InTime, Waits,
         TaskLimit, KeepLimit, Calling, Coherent, Commands, TypeOK, RenewOk, KeepTo,
         key, lease
<1> QED
  BY <1>1, <1>2, <1>3, <1>4, <1>5, <1>6 DEF Sound

LEMMA RenewFailsStep ==
    ASSUME Orderly, NEW n \in Nodes, RenewFails(n)
    PROVE  /\ SameElse(n) /\ owner' = owner /\ left' = left
           /\ TypeOK' /\ Sound(n)' /\ Shorter(n)
<1>0. TypeOK /\ InTime(n) /\ Coherent(n) /\ Commands(n)
  BY DEF Orderly, Sound
<1>1. SameElse(n) /\ owner' = owner /\ left' = left
  BY <1>0 DEF SameElse, TypeOK, RenewFails, KeepTo, TooMany, key, lease
<1>2. TypeOK'
  <2>1. age' \in [Nodes -> [task : Nat, keep : Nat, ctl : Nat]]
    <3>1. age' = [age EXCEPT ![n].keep = 0]
      BY DEF RenewFails, KeepTo
    <3> QED
      BY <1>0, <3>1, AgeReset
  <2>2. fails' \in [Nodes -> 0..MaxFailures - 1]
    BY <1>0, ClusterAssumption DEF RenewFails, TooMany, TypeOK
  <2>3. keep' \in [Nodes -> {"off", "waiting", "renewed", "failing", "demoting", "closing"}]
    BY <1>0 DEF RenewFails, KeepTo, TypeOK
  <2>4. state' \in [Nodes -> {"candidate", "leader", "follower", "stopped"}]
    BY <1>0 DEF RenewFails, TypeOK
  <2> QED
    BY <1>0, <2>1, <2>2, <2>3, <2>4 DEF TypeOK, RenewFails, key, lease
<1>3. InTime(n)'
  <2>1. /\ age'[n].keep = 0 /\ age'[n].task = age[n].task /\ age'[n].ctl = age[n].ctl
        /\ task' = task /\ ctl' = ctl
    BY <1>0 DEF TypeOK, RenewFails, KeepTo
  <2> QED
    BY <1>0, <2>1, ClusterAssumption DEF InTime, Waits, TaskLimit, KeepLimit
<1>4. Coherent(n)'
  BY <1>0 DEF Coherent, TypeOK, RenewFails, KeepTo, TooMany, key, lease
<1>5. Commands(n)'
  BY <1>0 DEF Commands, Coherent, TypeOK, RenewFails, KeepTo, TooMany, key, lease
<1>6. Shorter(n)
  <2>1. /\ ctl' = ctl /\ task' = task /\ live' = live /\ keep[n] = "failing"
        /\ age'[n].ctl = age[n].ctl /\ age'[n].keep = 0
        /\ task[n] \in {"leading", "off"} /\ (ctl[n] = "up" => task[n] = "leading" \/ ~live[n])
        /\ ctl[n] \in {"up", "resigning"}
    BY <1>0 DEF RenewFails, KeepTo, TypeOK, Coherent, Commands
  <2>2. age[n].keep \in 0..Patience /\ age[n].ctl \in Nat
    BY <1>0, <2>1, KeepInTime DEF TypeOK
  <2>3. fails[n] \in 0..MaxFailures - 1
    BY <1>0 DEF TypeOK
  <2>4. InOffice(n)' = InOffice(n) /\ Respite(n)' = Respite(n) /\ Respite(n) = 0
    BY <2>1 DEF InOffice, Respite
  <2>5. CASE ctl[n] # "up"
    BY <2>1, <2>2, <2>4, <2>5, TermInt, <1>0, ClusterAssumption DEF Shorter, Term
  <2>6. CASE ctl[n] = "up" /\ live[n]
    <3>1. Term(n) = Fencing(fails[n]) + 2 * Patience - Interval - age[n].keep
      BY <2>1, <2>2, <2>3, <2>6, FencingFacts, ClusterAssumption
         DEF Term, TermUp, TermLeading
    <3>2. Fencing(fails[n]) \in Nat /\ Interval + Patience <= Fencing(fails[n])
      BY <2>3, FencingFacts
    <3>3. CASE TooMany(n)
      <4>1. keep'[n] = "demoting"
        BY <1>0, <3>3 DEF RenewFails, KeepTo, TypeOK
      <4>2. Term(n)' = 2 * Patience - 0
        BY <2>1, <2>6, <4>1 DEF Term, TermUp, TermLeading
      <4> QED
        BY <2>2, <2>4, <3>1, <3>2, <4>2, ClusterAssumption DEF Shorter
    <3>4. CASE ~TooMany(n)
      <4>1. keep'[n] = "waiting" /\ fails'[n] = fails[n] + 1 /\ fails[n] + 1 < MaxFailures
        BY <1>0, <2>3, <2>6, <3>4, ClusterAssumption
           DEF RenewFails, TooMany, KeepTo, TypeOK
      <4>2. Term(n)' = Fencing(fails[n] + 1) + 2 * Patience - 0
        <5>1. Fencing(fails[n] + 1) \in Nat
          BY <2>3, <4>1, FencingFacts, ClusterAssumption
        <5> QED
          BY <2>1, <2>6, <4>1, <5>1, ClusterAssumption DEF Term, TermUp, TermLeading
      <4>3. Fencing(fails[n] + 1) = Fencing(fails[n]) - (Interval + Patience)
        BY <2>3, <4>1, FencingFacts
      <4> QED
        BY <2>2, <2>4, <3>1, <3>2, <4>2, <4>3, ClusterAssumption DEF Shorter
    <3> QED
      BY <3>3, <3>4
  <2>7. CASE ctl[n] = "up" /\ ~live[n]
    BY <2>1, <2>7 DEF Shorter, InOffice
  <2> QED
    BY <2>5, <2>6, <2>7
<1> QED
  BY <1>1, <1>2, <1>3, <1>4, <1>5, <1>6 DEF Sound

LEMMA FencedStep ==
    ASSUME Orderly, NEW n \in Nodes, Fenced(n)
    PROVE  /\ SameElse(n) /\ owner' = owner /\ left' = left
           /\ TypeOK' /\ Sound(n)' /\ Shorter(n)
<1>0. TypeOK /\ InTime(n) /\ Coherent(n) /\ Commands(n)
  BY DEF Orderly, Sound
<1>1. SameElse(n) /\ owner' = owner /\ left' = left
  BY <1>0 DEF SameElse, TypeOK, Fenced, KeepTo, key, lease
<1>2. TypeOK'
  BY <1>0, AgeReset, ClusterAssumption DEF TypeOK, Calling, Fenced, KeepTo, key, lease
<1>3. InTime(n)'
  BY <1>0, ClusterAssumption
     DEF InTime, Waits, TaskLimit, KeepLimit, TypeOK, Fenced, KeepTo, key, lease
<1>4. Coherent(n)'
  BY <1>0 DEF Coherent, TypeOK, Fenced, KeepTo, key, lease
<1>5. Commands(n)'
  BY <1>0 DEF Commands, Coherent, TypeOK, Fenced, KeepTo, key, lease
<1>6. Shorter(n)
  BY <1>0, FencingFacts, ClusterAssumption
     DEF Shorter, InOffice, Term, TermUp, TermLeading, Respite, InTime, Waits,
         TaskLimit, KeepLimit, Calling, Coherent, Commands, TypeOK, Fenced, KeepTo, key,
         lease
<1> QED
  BY <1>1, <1>2, <1>3, <1>4, <1>5, <1>6 DEF Sound

LEMMA DemotedStep ==
    ASSUME Orderly, NEW n \in Nodes, Demoted(n)
    PROVE  /\ SameElse(n) /\ owner' = owner /\ left' = left
           /\ TypeOK' /\ Sound(n)' /\ Shorter(n)
<1>0. TypeOK /\ InTime(n) /\ Coherent(n) /\ Commands(n)
  BY DEF Orderly, Sound
<1>1. SameElse(n) /\ owner' = owner /\ left' = left
  BY <1>0 DEF SameElse, TypeOK, Demoted, KeepTo, key, lease
<1>2. TypeOK'
  BY <1>0, AgeReset, ClusterAssumption DEF TypeOK, Calling, Demoted, KeepTo, key, lease
<1>3. InTime(n)'
  BY <1>0, ClusterAssumption
     DEF InTime, Waits, TaskLimit, KeepLimit, TypeOK, Demoted, KeepTo, key, lease
<1>4. Coherent(n)'
  BY <1>0 DEF Coherent, TypeOK, Demoted, KeepTo, key, lease
<1>5. Commands(n)'
  BY <1>0 DEF Commands, Coherent, TypeOK, Demoted, KeepTo, key, lease
<1>6. Shorter(n)
  BY <1>0, FencingFacts, ClusterAssumption
     DEF Shorter, InOffice, Term, TermUp, TermLeading, Respite, InTime, Waits,
         TaskLimit, KeepLimit, Calling, Coherent, Commands, TypeOK, Demoted, KeepTo,
         key, lease
<1> QED
  BY <1>1, <1>2, <1>3, <1>4, <1>5, <1>6 DEF Sound

LEMMA StartStep ==
    ASSUME Orderly, NEW n \in Nodes, Start(n)
    PROVE  /\ SameElse(n) /\ owner' = owner /\ left' = left
           /\ TypeOK' /\ Sound(n)' /\ Shorter(n)
<1>0. TypeOK /\ InTime(n) /\ Coherent(n) /\ Commands(n)
  BY DEF Orderly, Sound
<1>1. SameElse(n) /\ owner' = owner /\ left' = left
  BY <1>0 DEF SameElse, TypeOK, Start, CtlTo, key, lease
<1>2. TypeOK'
  BY <1>0, AgeReset, ClusterAssumption DEF TypeOK, Calling, Start, CtlTo, key, lease
<1>3. InTime(n)'
  BY <1>0, ClusterAssumption
     DEF InTime, Waits, TaskLimit, KeepLimit, TypeOK, Start, CtlTo, key, lease
<1>4. Coherent(n)'
  BY <1>0 DEF Coherent, TypeOK, Start, CtlTo, key, lease
<1>5. Commands(n)'
  BY <1>0 DEF Commands, Coherent, TypeOK, Start, CtlTo, key, lease
<1>6. Shorter(n)
  BY <1>0, FencingFacts, ClusterAssumption
     DEF Shorter, InOffice, Term, TermUp, TermLeading, Respite, InTime, Waits,
         TaskLimit, KeepLimit, Calling, Coherent, Commands, TypeOK, Start, CtlTo, key,
         lease
<1> QED
  BY <1>1, <1>2, <1>3, <1>4, <1>5, <1>6 DEF Sound

LEMMA StopFollowerStep ==
    ASSUME Orderly, NEW n \in Nodes, StopFollower(n)
    PROVE  /\ SameElse(n) /\ owner' = owner /\ left' = left
           /\ TypeOK' /\ Sound(n)' /\ Shorter(n)
<1>0. TypeOK /\ InTime(n) /\ Coherent(n) /\ Commands(n)
  BY DEF Orderly, Sound
<1>1. SameElse(n) /\ owner' = owner /\ left' = left
  BY <1>0
     DEF SameElse, TypeOK, StopFollower, ElectorStopped, Interrupted, CtlTo, Drop, key,
         lease
<1>2. TypeOK'
  BY <1>0, AgeReset, ClusterAssumption
     DEF TypeOK, Calling, StopFollower, ElectorStopped, Interrupted, CtlTo, Drop, key,
         lease
<1>3. InTime(n)'
  BY <1>0, ClusterAssumption
     DEF InTime, Waits, TaskLimit, KeepLimit, TypeOK, StopFollower, ElectorStopped,
         Interrupted, CtlTo, Drop, key, lease
<1>4. Coherent(n)'
  BY <1>0
     DEF Coherent, TypeOK, StopFollower, ElectorStopped, Interrupted, CtlTo, Drop, key,
         lease
<1>5. Commands(n)'
  BY <1>0
     DEF Commands, Coherent, TypeOK, StopFollower, ElectorStopped, Interrupted, CtlTo,
         Drop, key, lease
<1>6. Shorter(n)
  BY <1>0, FencingFacts, ClusterAssumption
     DEF Shorter, InOffice, Term, TermUp, TermLeading, Respite, InTime, Waits,
         TaskLimit, KeepLimit, Calling, Coherent, Commands, TypeOK, StopFollower,
         ElectorStopped, Interrupted, CtlTo, Drop, key, lease
<1> QED
  BY <1>1, <1>2, <1>3, <1>4, <1>5, <1>6 DEF Sound

LEMMA ResignedStep ==
    ASSUME Orderly, NEW n \in Nodes, Resigned(n)
    PROVE  /\ SameElse(n) /\ owner' = owner /\ left' = left
           /\ TypeOK' /\ Sound(n)' /\ Shorter(n)
<1>0. TypeOK /\ InTime(n) /\ Coherent(n) /\ Commands(n)
  BY DEF Orderly, Sound
<1>1. SameElse(n) /\ owner' = owner /\ left' = left
  BY <1>0
     DEF SameElse, TypeOK, Resigned, ElectorStopped, Interrupted, CtlTo, Drop, key,
         lease
<1>2. TypeOK'
  BY <1>0, AgeReset, ClusterAssumption
     DEF TypeOK, Calling, Resigned, ElectorStopped, Interrupted, CtlTo, Drop, key, lease
<1>3. InTime(n)'
  BY <1>0, ClusterAssumption
     DEF InTime, Waits, TaskLimit, KeepLimit, TypeOK, Resigned, ElectorStopped,
         Interrupted, CtlTo, Drop, key, lease
<1>4. Coherent(n)'
  BY <1>0
     DEF Coherent, TypeOK, Resigned, ElectorStopped, Interrupted, CtlTo, Drop, key,
         lease
<1>5. Commands(n)'
  BY <1>0
     DEF Commands, Coherent, TypeOK, Resigned, ElectorStopped, Interrupted, CtlTo, Drop,
         key, lease
<1>6. Shorter(n)
  BY <1>0, FencingFacts, ClusterAssumption
     DEF Shorter, InOffice, Term, TermUp, TermLeading, Respite, InTime, Waits,
         TaskLimit, KeepLimit, Calling, Coherent, Commands, TypeOK, Resigned,
         ElectorStopped, Interrupted, CtlTo, Drop, key, lease
<1> QED
  BY <1>1, <1>2, <1>3, <1>4, <1>5, <1>6 DEF Sound

LEMMA ExecutorStoppedStep ==
    ASSUME Orderly, NEW n \in Nodes, ExecutorStopped(n)
    PROVE  /\ SameElse(n) /\ owner' = owner /\ left' = left
           /\ TypeOK' /\ Sound(n)' /\ Shorter(n)
<1>0. TypeOK /\ InTime(n) /\ Coherent(n) /\ Commands(n)
  BY DEF Orderly, Sound
<1>1. SameElse(n) /\ owner' = owner /\ left' = left
  BY <1>0 DEF SameElse, TypeOK, ExecutorStopped, CtlTo, key, lease
<1>2. TypeOK'
  BY <1>0, AgeReset, ClusterAssumption
     DEF TypeOK, Calling, ExecutorStopped, CtlTo, key, lease
<1>3. InTime(n)'
  BY <1>0, ClusterAssumption
     DEF InTime, Waits, TaskLimit, KeepLimit, TypeOK, ExecutorStopped, CtlTo, key, lease
<1>4. Coherent(n)'
  BY <1>0 DEF Coherent, TypeOK, ExecutorStopped, CtlTo, key, lease
<1>5. Commands(n)'
  BY <1>0 DEF Commands, Coherent, TypeOK, ExecutorStopped, CtlTo, key, lease
<1>6. Shorter(n)
  BY <1>0, FencingFacts, ClusterAssumption
     DEF Shorter, InOffice, Term, TermUp, TermLeading, Respite, InTime, Waits,
         TaskLimit, KeepLimit, Calling, Coherent, Commands, TypeOK, ExecutorStopped,
         CtlTo, key, lease
<1> QED
  BY <1>1, <1>2, <1>3, <1>4, <1>5, <1>6 DEF Sound

LEMMA StoppedStep ==
    ASSUME Orderly, NEW n \in Nodes, Stopped(n)
    PROVE  /\ SameElse(n) /\ owner' = owner /\ left' = left
           /\ TypeOK' /\ Sound(n)' /\ Shorter(n)
<1>0. TypeOK /\ InTime(n) /\ Coherent(n) /\ Commands(n)
  BY DEF Orderly, Sound
<1>1. SameElse(n) /\ owner' = owner /\ left' = left
  BY <1>0 DEF SameElse, TypeOK, Stopped, CtlTo, key, lease
<1>2. TypeOK'
  BY <1>0, AgeReset, ClusterAssumption DEF TypeOK, Calling, Stopped, CtlTo, key, lease
<1>3. InTime(n)'
  BY <1>0, ClusterAssumption
     DEF InTime, Waits, TaskLimit, KeepLimit, TypeOK, Stopped, CtlTo, key, lease
<1>4. Coherent(n)'
  BY <1>0 DEF Coherent, TypeOK, Stopped, CtlTo, key, lease
<1>5. Commands(n)'
  BY <1>0 DEF Commands, Coherent, TypeOK, Stopped, CtlTo, key, lease
<1>6. Shorter(n)
  BY <1>0, FencingFacts, ClusterAssumption
     DEF Shorter, InOffice, Term, TermUp, TermLeading, Respite, InTime, Waits,
         TaskLimit, KeepLimit, Calling, Coherent, Commands, TypeOK, Stopped, CtlTo, key,
         lease
<1> QED
  BY <1>1, <1>2, <1>3, <1>4, <1>5, <1>6 DEF Sound

LEMMA CrashStep ==
    ASSUME Orderly, NEW n \in Nodes, Crash(n)
    PROVE  /\ SameElse(n) /\ owner' = owner /\ left' = left
           /\ TypeOK' /\ Sound(n)' /\ Shorter(n)
<1>0. TypeOK /\ InTime(n) /\ Coherent(n) /\ Commands(n)
  BY DEF Orderly, Sound
<1>1. SameElse(n) /\ owner' = owner /\ left' = left
  BY <1>0 DEF SameElse, TypeOK, Crash, CtlTo, Drop, key, lease
<1>2. TypeOK'
  BY <1>0, AgeReset, ClusterAssumption
     DEF TypeOK, Calling, Crash, CtlTo, Drop, key, lease
<1>3. InTime(n)'
  BY <1>0, ClusterAssumption
     DEF InTime, Waits, TaskLimit, KeepLimit, TypeOK, Crash, CtlTo, Drop, key, lease
<1>4. Coherent(n)'
  BY <1>0 DEF Coherent, TypeOK, Crash, CtlTo, Drop, key, lease
<1>5. Commands(n)'
  BY <1>0 DEF Commands, Coherent, TypeOK, Crash, CtlTo, Drop, key, lease
<1>6. Shorter(n)
  BY <1>0, FencingFacts, ClusterAssumption
     DEF Shorter, InOffice, Term, TermUp, TermLeading, Respite, InTime, Waits,
         TaskLimit, KeepLimit, Calling, Coherent, Commands, TypeOK, Crash, CtlTo, Drop,
         key, lease
<1> QED
  BY <1>1, <1>2, <1>3, <1>4, <1>5, <1>6 DEF Sound

-----------------------------------------------------------------------------
(* The steps that change the lease, and time                               *)

LEMMA PutStep ==
    ASSUME Orderly, NEW n \in Nodes, Put(n)
    PROVE  SameElse(n) /\ TypeOK' /\ Sound(n)'
<1>0. TypeOK /\ InTime(n) /\ Coherent(n) /\ Commands(n)
  BY DEF Orderly, Sound
<1>1. SameElse(n)
  BY <1>0 DEF SameElse, TypeOK, Put, TaskTo
<1>2. ctl[n] = "up" /\ ctl' = ctl /\ ~live[n] /\ live' = live
  BY <1>0 DEF Coherent, Commands, Put, TypeOK
<1>3. age[n].task \in 0..Patience /\ age'[n].task = 0
  BY <1>0, CallInTime DEF Calling, Put, TaskTo, TypeOK
<1>4. age' \in [Nodes -> [task : Nat, keep : Nat, ctl : Nat]]
  <2>1. age' = [age EXCEPT ![n].task = 0]
    BY DEF Put, TaskTo
  <2> QED
    BY <1>0, <2>1, AgeReset
<1>5. left' \in 0..TTL /\ (left' = 0 <=> owner' = None)
  BY <1>0, <1>3, ClusterAssumption DEF Put, TypeOK, lease
<1>6. TypeOK'
  <2>1. task' \in [Nodes -> Calling \cup {"off", "polling", "grace", "leading", "retrying"}]
    BY <1>0 DEF TypeOK, Put, TaskTo, Calling
  <2>2. owner' \in Nodes \cup {None} /\ holds' \in [Nodes -> BOOLEAN]
    BY <1>0 DEF TypeOK, Put, Drop, lease
  <2>3. UNCHANGED <<state, ctl, keep, fails, live, devices>>
    BY DEF Put
  <2> QED
    BY <1>0, <1>4, <1>5, <2>1, <2>2, <2>3 DEF TypeOK
<1>7. InTime(n)'
  <2>1. /\ age'[n].keep = age[n].keep /\ age'[n].ctl = age[n].ctl
        /\ keep' = keep /\ task'[n] \in Calling
    BY <1>0 DEF Put, TaskTo, TypeOK, Calling
  <2> QED
    BY <1>0, <1>2, <1>3, <2>1, ClusterAssumption DEF InTime, Waits, TaskLimit, KeepLimit
<1>8. Coherent(n)' /\ Commands(n)'
  BY <1>0 DEF Coherent, Commands, Put, TaskTo, TypeOK
<1> QED
  BY <1>1, <1>6, <1>7, <1>8 DEF Sound

\* A call to etcd takes effect late, but within Patience, and the lease that was
\* granted counts from the call: a node that gets the key has time to be promoted,
\* fail and be fenced, and the others are out before its grace period is over.
LEMMA PutInv ==
    ASSUME IInv, Timely, NEW n \in Nodes, Put(n)
    PROVE  IInv'
<1>0. TypeOK /\ InTime(n) /\ Coherent(n) /\ Commands(n)
  BY DEF IInv, Orderly, Sound
<1>1. SameElse(n) /\ TypeOK' /\ Sound(n)'
  BY PutStep DEF IInv
<1>2. ctl[n] = "up" /\ ctl' = ctl /\ ~live[n] /\ live' = live
  BY <1>0 DEF Coherent, Commands, Put, TypeOK
<1>3. age[n].task \in 0..Patience /\ age'[n].task = 0
  BY <1>0, CallInTime DEF Calling, Put, TaskTo, TypeOK
<1>4. CASE owner' = owner
  <2>1. ~InOffice(n)' /\ left' = left
    BY <1>0, <1>2, <1>4, ClusterAssumption DEF InOffice, Put, TaskTo, lease, TypeOK
  <2> QED
    BY <1>1, <1>4, <2>1, NodeStep DEF Shorter
<1>5. CASE owner' # owner
  <2>1. /\ owner = None /\ owner' = n /\ left' = TTL - age[n].task
        /\ task'[n] = "won" /\ n # None
    BY <1>0, <1>5, ClusterAssumption DEF Put, TaskTo, lease, TypeOK
  <2>2. Term(n)' = 3 * Patience + Grace + Fencing(0) + 2 * Patience /\ Respite(n)' = Grace
    BY <1>2, <1>3, <2>1, FencingFacts, ClusterAssumption DEF Term, TermUp, Respite
  <2>3. Covered(n)'
    BY <1>3, <2>1, <2>2, FencingFacts, ClusterAssumption DEF Covered
  <2>4. \A m \in Nodes \ {n} : /\ InOffice(m)' = InOffice(m)
                               /\ Term(m)' = Term(m) /\ Respite(m)' = Respite(m)
    BY <1>1, ElseKept
  <2>5. \A m \in Nodes : Term(m) \in Int
    BY <1>0, TermInt
  <2>6. \A m \in Nodes \ {n} : InOffice(m)' => Term(m)' < Grace
    BY <2>1, <2>4, <2>5, ClusterAssumption DEF IInv, Covered
  <2>7. \A m \in Nodes \ {n} : Covered(m)' /\ Apart(n, m)' /\ Apart(m, n)'
    BY <2>1, <2>2, <2>6, ClusterAssumption DEF Covered, Apart
  <2>8. \A m, k \in Nodes \ {n} : m # k => Apart(m, k)'
    BY <2>1, <2>4, ClusterAssumption DEF IInv, Apart
  <2> QED
    BY <1>1, <2>3, <2>7, <2>8, SoundStep DEF IInv
<1> QED
  BY <1>4, <1>5

LEMMA RenewStep ==
    ASSUME Orderly, NEW n \in Nodes, Renew(n)
    PROVE  SameElse(n) /\ TypeOK' /\ Sound(n)'
<1>0. TypeOK /\ InTime(n) /\ Coherent(n) /\ Commands(n)
  BY DEF Orderly, Sound
<1>1. /\ SameElse(n) /\ owner' = owner /\ left' \in {left, TTL}
      /\ ctl' = ctl /\ task' = task /\ live' = live /\ fails' = fails
      /\ keep[n] = "waiting" /\ age[n].keep = Interval
      /\ keep'[n] \in {"renewed", "failing"} /\ age'[n].keep = 0
      /\ age'[n].task = age[n].task /\ age'[n].ctl = age[n].ctl
      /\ ctl[n] \in {"up", "resigning"}
  BY <1>0 DEF SameElse, Renew, KeepTo, TypeOK, Coherent
<1>2. age' \in [Nodes -> [task : Nat, keep : Nat, ctl : Nat]]
  <2>1. age' = [age EXCEPT ![n].keep = 0]
    BY DEF Renew, KeepTo
  <2> QED
    BY <1>0, <2>1, AgeReset
<1>3. left' \in 0..TTL /\ (left' = 0 <=> owner' = None)
  BY <1>0, ClusterAssumption DEF Renew, TypeOK
<1>4. TypeOK'
  BY <1>0, <1>2, <1>3 DEF TypeOK, Renew, KeepTo
<1>5. InTime(n)'
  BY <1>0, <1>1, ClusterAssumption DEF InTime, Waits, TaskLimit, KeepLimit
<1>6. Coherent(n)' /\ Commands(n)'
  BY <1>0, <1>1 DEF Coherent, Commands, Renew, KeepTo, TypeOK
<1> QED
  BY <1>1, <1>4, <1>5, <1>6 DEF Sound

\* A keepalive that succeeds prolongs the term, but then nobody else is on the way
\* who would not wait.
LEMMA RenewInv ==
    ASSUME IInv, Timely, NEW n \in Nodes, Renew(n)
    PROVE  IInv'
<1>0. TypeOK /\ InTime(n) /\ Coherent(n) /\ Commands(n)
  BY DEF IInv, Orderly, Sound
<1>1. /\ owner' = owner /\ left' \in {left, TTL}
      /\ ctl' = ctl /\ task' = task /\ live' = live /\ fails' = fails
      /\ keep[n] = "waiting" /\ age[n].keep = Interval
      /\ keep'[n] \in {"renewed", "failing"} /\ age'[n].keep = 0
      /\ age'[n].task = age[n].task /\ age'[n].ctl = age[n].ctl
      /\ ctl[n] \in {"up", "resigning"}
  BY <1>0 DEF Renew, KeepTo, TypeOK, Coherent
<1>2. SameElse(n) /\ TypeOK' /\ Sound(n)'
  BY RenewStep DEF IInv
<1>3. InOffice(n)' = InOffice(n) /\ Respite(n)' = Respite(n)
  BY <1>1 DEF InOffice, Respite
<1>4. Term(n) \in Int /\ Term(n)' \in Int /\ Respite(n) \in Int
  BY <1>0, <1>2, TermInt
<1>5. fails[n] \in 0..MaxFailures - 1 /\ age[n].ctl \in Nat
  BY <1>0 DEF TypeOK
<1>6. task[n] \in {"leading", "off"}
  BY <1>0, <1>1 DEF Coherent
<1>7. CASE ctl[n] # "up" \/ keep'[n] = "failing" \/ ~live[n]
  <2>1. Shorter(n)
    <3>1. CASE ~live[n]
      BY <1>1, <1>6, <3>1 DEF Shorter, InOffice
    <3>2. CASE ctl[n] # "up"
      BY <1>0, <1>1, <1>3, <1>4, <3>2 DEF Shorter, Term, Coherent
    <3>3. CASE ctl[n] = "up" /\ keep'[n] = "failing" /\ live[n]
      <4>0. Fencing(fails[n]) \in Nat /\ task[n] = "leading"
        BY <1>0, <1>5, <1>6, <3>3, FencingFacts DEF Commands
      <4>1. Term(n) = Fencing(fails[n]) + 2 * Patience - Interval
        BY <1>1, <1>5, <1>6, <3>3, <4>0, ClusterAssumption DEF Term, TermUp, TermLeading
      <4>2. Term(n)' = Fencing(fails[n]) + 2 * Patience - Interval - 0
        BY <1>1, <1>5, <1>6, <3>3, <4>0, ClusterAssumption DEF Term, TermUp, TermLeading
      <4> QED
        BY <1>3, <1>4, <1>5, <4>1, <4>2, FencingFacts, ClusterAssumption DEF Shorter
    <3> QED
      BY <1>7, <3>1, <3>2, <3>3
  <2> QED
    BY <1>1, <1>2, <2>1, NodeStep
<1>8. CASE ctl[n] = "up" /\ keep'[n] = "renewed" /\ live[n]
  <2>1. owner = n /\ left' = TTL
    BY <1>0, <1>8 DEF Renew, KeepTo, TypeOK
  <2>2. Term(n)' = Patience - 0 + (Fencing(0) + 2 * Patience)
    BY <1>0, <1>1, <1>6, <1>8 DEF Term, TermUp, TermLeading, Commands
  <2>3. Fencing(0) \in Nat /\ Fencing(0) + 6 * Patience < TTL
    BY FencingFacts, ClusterAssumption
  <2>4. Covered(n)'
    BY <1>1, <2>1, <2>2, <2>3, ClusterAssumption DEF Covered
  <2>5. \A m \in Nodes \ {n} : /\ InOffice(m)' = InOffice(m)
                               /\ Term(m)' = Term(m) /\ Respite(m)' = Respite(m)
    BY <1>2, ElseKept
  <2>6. \A m \in Nodes \ {n} : Covered(m)'
    BY <1>1, <2>1, <2>5 DEF IInv, Covered
  <2>7. \A m \in Nodes \ {n} : Apart(n, m)' /\ Apart(m, n)'
    BY <1>1, <1>3, <2>1, <2>5 DEF IInv, Apart
  <2>8. \A m, k \in Nodes \ {n} : m # k => Apart(m, k)'
    BY <1>1, <2>5 DEF IInv, Apart
  <2> QED
    BY <1>2, <2>4, <2>6, <2>7, <2>8, SoundStep DEF IInv
<1> QED
  BY <1>1, <1>7, <1>8

LEMMA StopLeaderStep ==
    ASSUME Orderly, NEW n \in Nodes, StopLeader(n)
    PROVE  SameElse(n) /\ TypeOK' /\ Sound(n)'
<1>0. TypeOK /\ InTime(n) /\ Coherent(n) /\ Commands(n)
  BY DEF Orderly, Sound
<1>1. /\ SameElse(n) /\ ctl[n] = "up" /\ ctl'[n] = "resigning"
      /\ age'[n].ctl = 0 /\ age'[n].task = age[n].task /\ age'[n].keep = age[n].keep
      /\ live' = live /\ state' = state /\ state[n] = "leader" /\ devices' = devices
      /\ task[n] \in {"starting", "grace", "announcing", "leading"}
      /\ task'[n] = IF task[n] = "leading" THEN "off" ELSE task[n]
      /\ keep'[n] = IF keep[n] = "waiting" THEN "off" ELSE keep[n]
  BY <1>0 DEF SameElse, StopLeader, TypeOK, Coherent
<1>2. \/ owner' = owner /\ left' = left
      \/ owner = n /\ owner' = None /\ left' = 0
  BY DEF StopLeader, Revoked, Drop, lease
<1>3. age' \in [Nodes -> [task : Nat, keep : Nat, ctl : Nat]]
  <2>1. age' = [age EXCEPT ![n].ctl = 0]
    BY DEF StopLeader
  <2> QED
    BY <1>0, <2>1, AgeReset
<1>4. TypeOK'
  BY <1>0, <1>2, <1>3, ClusterAssumption DEF TypeOK, StopLeader, Revoked, Drop, Calling
<1>5. InTime(n)'
  <2>1. /\ Waits(n)'.task => Waits(n).task /\ TaskLimit(n)' = TaskLimit(n)
        /\ Waits(n)'.keep => Waits(n).keep /\ KeepLimit(n)' = KeepLimit(n)
    BY <1>1 DEF Waits, TaskLimit, KeepLimit, Calling
  <2> QED
    BY <1>0, <1>1, <2>1, ClusterAssumption DEF InTime
<1>6. Coherent(n)' /\ Commands(n)'
  BY <1>0, <1>1 DEF Coherent, Commands
<1> QED
  BY <1>1, <1>4, <1>5, <1>6 DEF Sound

\* resign() touches nothing but the lease.
LEMMA ResignStep ==
    ASSUME Orderly, NEW n \in Nodes, Resign(n)
    PROVE  Orderly'
<1>1. /\ state' = state /\ ctl' = ctl /\ task' = task /\ keep' = keep /\ age' = age
      /\ fails' = fails /\ live' = live /\ devices' = devices
  BY DEF Resign
<1>2. SameElse(n) /\ Sound(n)'
  BY <1>1
     DEF SameElse, Orderly, Sound, InTime, Waits, TaskLimit, KeepLimit, Coherent,
         Commands
<1>3. TypeOK'
  BY <1>1, ClusterAssumption DEF Orderly, TypeOK, Resign, Revoked, Drop, lease
<1> QED
  BY <1>2, <1>3, SoundStep

\* A leader that stops gives the lease back first; it is out of office before the
\* grace period of its successor is over.
LEMMA StopLeaderInv ==
    ASSUME IInv, Timely, NEW n \in Nodes, StopLeader(n)
    PROVE  IInv'
<1>0. TypeOK /\ InTime(n) /\ Coherent(n) /\ Commands(n)
  BY DEF IInv, Orderly, Sound
<1>1. /\ SameElse(n) /\ ctl[n] = "up" /\ ctl'[n] = "resigning"
      /\ age'[n].ctl = 0 /\ age'[n].task = age[n].task /\ age'[n].keep = age[n].keep
      /\ live' = live /\ state' = state /\ state[n] = "leader" /\ devices' = devices
      /\ task[n] \in {"starting", "grace", "announcing", "leading"}
      /\ task'[n] = IF task[n] = "leading" THEN "off" ELSE task[n]
      /\ keep'[n] = IF keep[n] = "waiting" THEN "off" ELSE keep[n]
  BY <1>0 DEF SameElse, StopLeader, TypeOK, Coherent
<1>2. \/ owner' = owner /\ left' = left
      \/ owner = n /\ owner' = None /\ left' = 0
  BY DEF StopLeader, Revoked, Drop, lease
<1>3. SameElse(n) /\ TypeOK' /\ Sound(n)'
  BY StopLeaderStep DEF IInv
<1>4. Term(n)' = 2 * Patience
  BY <1>1, ClusterAssumption DEF Term
<1>5. Shorter(n)
  <2>1. task[n] # "leading" =>
           age[n].task \in 0..(IF task[n] = "grace" THEN Grace ELSE Patience)
    <3>1. task[n] # "leading" =>
             Waits(n).task /\ TaskLimit(n) = IF task[n] = "grace" THEN Grace ELSE Patience
      BY <1>1 DEF Waits, TaskLimit, Calling
    <3>2. age[n].task \in Nat
      BY <1>0 DEF TypeOK
    <3> QED
      BY <1>0, <3>1, <3>2, ClusterAssumption DEF InTime
  <2>2. keep[n] # "off" =>
           age[n].keep \in 0..(IF keep[n] = "waiting" THEN Interval ELSE Patience)
    BY <1>0, KeepInTime
  <2>3. fails[n] \in 0..MaxFailures - 1 /\ Term(n) \in Int
    BY <1>0, TermInt DEF TypeOK
  <2>4. /\ Fencing(fails[n]) \in Nat /\ Interval + Patience <= Fencing(fails[n])
        /\ Fencing(0) \in Nat
    BY <2>3, FencingFacts, ClusterAssumption
  <2>5. InOffice(n)' => InOffice(n) /\ Respite(n)' >= Respite(n)
    BY <1>1, <2>1, ClusterAssumption DEF InOffice, Respite
  <2>6. InOffice(n) => Term(n)' <= Term(n)
    <3>1. CASE task[n] # "leading"
      BY <1>0, <1>1, <1>4, <2>1, <2>4, <3>1, ClusterAssumption DEF Term, TermUp
    <3>2. CASE task[n] = "leading" /\ InOffice(n)
      <4>1. keep[n] \in {"waiting", "renewed", "failing"}
        BY <1>0, <1>1, <3>2 DEF InOffice, Coherent, Commands, TypeOK
      <4> QED
        BY <1>1, <1>4, <2>2, <2>3, <2>4, <3>2, <4>1, ClusterAssumption
           DEF Term, TermUp, TermLeading
    <3> QED
      BY <3>1, <3>2
  <2> QED
    BY <2>5, <2>6 DEF Shorter
<1> QED
  BY <1>1, <1>2, <1>3, <1>4, <1>5, NodeStep, ClusterAssumption DEF Timely

\* What a tick changes, and that nobody waits longer for it than allowed.
LEMMA TickStep ==
    ASSUME Orderly, Tick
    PROVE  /\ ctl' = ctl /\ task' = task /\ keep' = keep /\ fails' = fails
           /\ live' = live /\ state' = state /\ devices' = devices
           /\ \A n \in Nodes :
                 /\ age'[n].task = IF Waits(n).task THEN age[n].task + 1 ELSE 0
                 /\ age'[n].keep = IF Waits(n).keep THEN age[n].keep + 1 ELSE 0
                 /\ age'[n].ctl = IF Waits(n).ctl THEN age[n].ctl + 1 ELSE 0
                 /\ age[n].task \in Nat /\ age[n].keep \in Nat /\ age[n].ctl \in Nat
           /\ Orderly'
<1>0. TypeOK /\ TypeOK'
  <2>1. TypeOK
    BY DEF Orderly
  <2>2. age' \in [Nodes -> [task : Nat, keep : Nat, ctl : Nat]]
    BY <2>1 DEF Tick, TypeOK
  <2>3. left' \in 0..TTL /\ owner' \in Nodes \cup {None} /\ (left' = 0 <=> owner' = None)
    BY <2>1, ClusterAssumption DEF Tick, TypeOK
  <2> QED
    BY <2>1, <2>2, <2>3 DEF Tick, TypeOK
<1>1. /\ ctl' = ctl /\ task' = task /\ keep' = keep /\ fails' = fails
      /\ live' = live /\ state' = state /\ devices' = devices
  BY DEF Tick
<1>2. ASSUME NEW n \in Nodes
      PROVE  /\ age'[n].task = IF Waits(n).task THEN age[n].task + 1 ELSE 0
             /\ age'[n].keep = IF Waits(n).keep THEN age[n].keep + 1 ELSE 0
             /\ age'[n].ctl = IF Waits(n).ctl THEN age[n].ctl + 1 ELSE 0
  BY DEF Tick
<1>3. ASSUME NEW n \in Nodes
      PROVE  age[n].task \in Nat /\ age[n].keep \in Nat /\ age[n].ctl \in Nat
  BY <1>0 DEF TypeOK
<1>4. ASSUME NEW n \in Nodes PROVE Sound(n)'
  <2>1. Idle(n) /\ Coherent(n) /\ Commands(n)
    BY DEF Orderly, Sound, Tick
  <2>2. TaskLimit(n)' = TaskLimit(n) /\ KeepLimit(n)' = KeepLimit(n) /\ Waits(n)' = Waits(n)
    BY <1>1 DEF TaskLimit, KeepLimit, Waits
  <2>3. TaskLimit(n) \in Nat /\ KeepLimit(n) \in Nat
    BY ClusterAssumption DEF TaskLimit, KeepLimit
  <2>4. InTime(n)'
    BY <1>2, <1>3, <2>1, <2>2, <2>3, ClusterAssumption DEF Idle, InTime
  <2> QED
    BY <1>1, <2>1, <2>4 DEF Sound, Coherent, Commands
<1> QED
  BY <1>0, <1>1, <1>2, <1>3, <1>4 DEF Orderly

\* A tick brings the end of every term nearer by one, and no respite by more.
LEMMA TickInv == ASSUME IInv, Tick PROVE IInv'
<1>0. Orderly /\ Orderly' /\ TypeOK /\ TypeOK'
  BY TickStep DEF IInv, Orderly
<1>1. /\ ctl' = ctl /\ task' = task /\ keep' = keep /\ fails' = fails
      /\ live' = live /\ state' = state /\ devices' = devices
  BY DEF Tick
<1>2. ASSUME NEW n \in Nodes
      PROVE  /\ age'[n].task = IF Waits(n).task THEN age[n].task + 1 ELSE 0
             /\ age'[n].keep = IF Waits(n).keep THEN age[n].keep + 1 ELSE 0
             /\ age'[n].ctl = IF Waits(n).ctl THEN age[n].ctl + 1 ELSE 0
  BY <1>0, TickStep
<1>3. ASSUME NEW n \in Nodes
      PROVE  age[n].task \in Nat /\ age[n].keep \in Nat /\ age[n].ctl \in Nat
  BY <1>0, TickStep
<1>4. ASSUME NEW n \in Nodes
      PROVE  /\ InOffice(n)' = InOffice(n)
             /\ InOffice(n) => Term(n)' = Term(n) - 1
             /\ Respite(n)' >= Respite(n) - 1
  <2>1. Coherent(n) /\ Commands(n)
    BY <1>0 DEF Orderly, Sound
  <2>2. /\ fails[n] \in 0..MaxFailures - 1 /\ Fencing(fails[n]) \in Nat /\ Fencing(0) \in Nat
        /\ ctl[n] \in {"down", "up", "resigning", "closing", "draining"}
    BY <1>0, FencingFacts, ClusterAssumption DEF TypeOK
  <2>3. InOffice(n)' = InOffice(n)
    BY <1>1 DEF InOffice
  <2>4. Respite(n)' >= Respite(n) - 1
    BY <1>1, <1>2, <1>3, ClusterAssumption DEF Respite, Waits
  <2>5. ASSUME InOffice(n) PROVE Term(n)' = Term(n) - 1
    <3>1. CASE ctl[n] \in {"closing", "resigning"}
      <4>1. age'[n].ctl = age[n].ctl + 1
        BY <1>2, <3>1 DEF Waits
      <4> QED
        BY <1>1, <1>3, <3>1, <4>1, ClusterAssumption DEF Term
    <3>2. CASE ctl[n] \in {"down", "draining"}
      BY <2>1, <2>5, <3>2 DEF Coherent, Commands, InOffice
    <3>3. CASE ctl[n] = "up" /\ task[n] \in {"won", "starting", "grace", "announcing"}
      <4>1. age'[n].task = age[n].task + 1
        BY <1>2, <3>3 DEF Waits
      <4> QED
        BY <1>1, <1>3, <2>2, <3>3, <4>1, ClusterAssumption DEF Term, TermUp
    <3>4. CASE ctl[n] = "up" /\ task[n] \notin {"won", "starting", "grace", "announcing"}
      <4>1. live[n] /\ task[n] = "leading" /\ keep[n] # "off"
        BY <2>1, <2>5, <3>4 DEF Commands, InOffice
      <4>2. age'[n].keep = age[n].keep + 1
        BY <1>2, <4>1 DEF Waits
      <4> QED
        BY <1>1, <1>3, <2>2, <3>4, <4>1, <4>2, ClusterAssumption
           DEF Term, TermUp, TermLeading
    <3> QED
      BY <2>2, <3>1, <3>2, <3>3, <3>4
  <2> QED
    BY <2>3, <2>4, <2>5
<1>5. \A n \in Nodes : /\ Term(n) \in Int /\ Respite(n) \in Int
                       /\ Term(n)' \in Int /\ Respite(n)' \in Int
  BY <1>0, TermInt
<1>6. ASSUME NEW n \in Nodes PROVE Covered(n)'
  <2>1. InOffice(n) => Term(n) < Grace + (IF owner = n THEN left ELSE 0)
    BY DEF IInv, Covered
  <2>2. left \in Nat /\ left' = (IF left > 0 THEN left - 1 ELSE 0) /\ n # None
    BY <1>0, ClusterAssumption DEF Tick, TypeOK
  <2>3. owner' = IF left > 1 THEN owner ELSE None
    BY DEF Tick
  <2> QED
    BY <1>4, <1>5, <2>1, <2>2, <2>3, ClusterAssumption DEF Covered
<1>7. ASSUME NEW n \in Nodes, NEW m \in Nodes, n # m PROVE Apart(n, m)'
  <2>1. Apart(n, m)
    BY <1>7 DEF IInv
  <2>2. owner' = n => owner = n
    BY ClusterAssumption DEF Tick
  <2> QED
    BY <1>4, <1>5, <2>1, <2>2 DEF Apart
<1> QED
  BY <1>0, <1>6, <1>7 DEF IInv

-----------------------------------------------------------------------------
(* The theorems                                                            *)

\* The steps that leave the lease as it is, together.
Quiet(n) ==
    \/ Win(n) \/ Lose(n) \/ Follow(n) \/ Look(n) \/ Seen(n) \/ Retry(n) \/ CallFails(n)
    \/ DevicesStarted(n) \/ GoLive(n) \/ Announced(n)
    \/ RenewOk(n) \/ RenewFails(n) \/ Fenced(n) \/ Demoted(n)
    \/ Start(n) \/ StopFollower(n) \/ Shutdown(n) \/ Crash(n)

LEMMA QuietStep ==
    ASSUME Orderly, NEW n \in Nodes, Quiet(n)
    PROVE  /\ SameElse(n) /\ owner' = owner /\ left' = left
           /\ TypeOK' /\ Sound(n)' /\ Shorter(n)
<1>1. CASE Win(n) \/ Lose(n) \/ Follow(n) \/ Look(n) \/ Seen(n) \/ Retry(n) \/ CallFails(n)
  BY <1>1, WinStep, LoseStep, FollowStep, LookStep, SeenStep, RetryStep, CallFailsStep
<1>2. CASE DevicesStarted(n) \/ GoLive(n) \/ Announced(n)
  BY <1>2, DevicesStartedStep, GoLiveStep, AnnouncedStep
<1>3. CASE RenewOk(n) \/ RenewFails(n) \/ Fenced(n) \/ Demoted(n)
  BY <1>3, RenewOkStep, RenewFailsStep, FencedStep, DemotedStep
<1>4. CASE Start(n) \/ StopFollower(n) \/ Crash(n)
  BY <1>4, StartStep, StopFollowerStep, CrashStep
<1>5. CASE Shutdown(n)
  BY <1>5, ResignedStep, ExecutorStoppedStep, StoppedStep DEF Shutdown
<1> QED
  BY <1>1, <1>2, <1>3, <1>4, <1>5 DEF Quiet

LEMMA Steps ==
    ASSUME Next, "promotion" \notin Faults
    PROVE  \/ Tick
           \/ \E n \in Nodes : Quiet(n) \/ Put(n) \/ Renew(n) \/ StopLeader(n) \/ Resign(n)
BY DEF Next, Campaign, Keepalive, Quiet, PromotionFails

LEMMA InitInv == Init => IInv
<1> SUFFICES ASSUME Init PROVE IInv
  OBVIOUS
<1>1. TypeOK
  BY ClusterAssumption DEF Init, TypeOK, Calling
<1>2. \A n \in Nodes : InTime(n) /\ Coherent(n) /\ Commands(n) /\ ~InOffice(n)
  BY DEF Init, InTime, Waits, Coherent, Commands, InOffice
<1> QED
  BY <1>1, <1>2 DEF IInv, Orderly, Sound, Covered, Apart

LEMMA NextOrderly ==
    ASSUME "promotion" \notin Faults, Orderly, [Next]_vars
    PROVE  Orderly'
<1>1. ASSUME NEW n \in Nodes, Quiet(n) PROVE Orderly'
  BY <1>1, QuietStep, SoundStep
<1>2. ASSUME NEW n \in Nodes, Put(n) \/ Renew(n) \/ StopLeader(n) PROVE Orderly'
  BY <1>2, PutStep, RenewStep, StopLeaderStep, SoundStep
<1>3. ASSUME NEW n \in Nodes, Resign(n) PROVE Orderly'
  BY <1>3, ResignStep
<1>4. CASE Tick
  BY <1>4, TickStep
<1>5. CASE UNCHANGED vars
  BY <1>5
     DEF vars, Orderly, TypeOK, Sound, InTime, Waits, TaskLimit, KeepLimit, Coherent,
         Commands
<1> QED
  BY <1>1, <1>2, <1>3, <1>4, <1>5, Steps

LEMMA NextInv ==
    ASSUME Timely, Survivable, IInv, [Next]_vars
    PROVE  IInv'
<1>1. ASSUME NEW n \in Nodes, Quiet(n) PROVE IInv'
  <2>1. /\ SameElse(n) /\ owner' = owner /\ left' = left
        /\ TypeOK' /\ Sound(n)' /\ Shorter(n)
    BY <1>1, QuietStep DEF IInv
  <2> QED
    BY <2>1, NodeStep
<1>2. ASSUME NEW n \in Nodes, Put(n) \/ Renew(n) \/ StopLeader(n) PROVE IInv'
  BY <1>2, PutInv, RenewInv, StopLeaderInv
<1>3. ASSUME NEW n \in Nodes, Resign(n) PROVE IInv'
  BY <1>3 DEF Resign, Survivable
<1>4. CASE Tick
  BY <1>4, TickInv
<1>5. CASE UNCHANGED vars
  BY <1>5
     DEF vars, IInv, Orderly, TypeOK, Sound, InTime, Waits, TaskLimit, KeepLimit,
         Coherent, Commands, Covered, Apart, InOffice, Term, TermUp, TermLeading,
         Respite, Fencing
<1>6. "promotion" \notin Faults
  BY DEF Survivable
<1> QED
  BY <1>1, <1>2, <1>3, <1>4, <1>5, <1>6, Steps

\* A term is not over before it ends: nobody in office is past its time.
LEMMA TermNat ==
    ASSUME IInv, NEW n \in Nodes, live[n]
    PROVE  Term(n) >= 0 /\ Respite(n) = 0
<1>0. TypeOK /\ InTime(n) /\ Coherent(n) /\ Commands(n)
  BY DEF IInv, Orderly, Sound
<1>1. ctl[n] \in {"up", "resigning", "closing"} /\ task[n] \in {"announcing", "leading", "off"}
  BY <1>0 DEF Coherent, Commands, TypeOK
<1>2. Respite(n) = 0
  BY <1>1 DEF Respite
<1>3. CASE ctl[n] # "up"
  <2>1. age[n].ctl \in 0..Patience
    BY <1>0, <1>1, <1>3, ClusterAssumption DEF InTime, Waits, TypeOK
  <2> QED
    BY <1>1, <1>2, <1>3, <2>1, ClusterAssumption DEF Term
<1>4. CASE ctl[n] = "up"
  <2>1. fails[n] \in 0..MaxFailures - 1
    BY <1>0 DEF TypeOK
  <2>2. /\ Fencing(0) \in Nat /\ Fencing(fails[n]) \in Nat
        /\ Interval + Patience <= Fencing(fails[n])
    BY <2>1, FencingFacts, ClusterAssumption
  <2>3. CASE task[n] = "announcing"
    BY <1>0, <1>2, <1>4, <2>2, <2>3, CallInTime, ClusterAssumption
       DEF Calling, Term, TermUp
  <2>4. CASE task[n] = "leading"
    <3>1. age[n].keep \in 0..(IF keep[n] = "waiting" THEN Interval ELSE Patience)
      BY <1>0, <2>4, KeepInTime DEF Commands
    <3> QED
      BY <1>2, <1>4, <2>2, <2>4, <3>1, ClusterAssumption DEF Term, TermUp, TermLeading
  <2> QED
    BY <1>0, <1>1, <1>4, <2>3, <2>4 DEF Commands
<1> QED
  BY <1>3, <1>4

\* The parts of a node and the times it waits go together as the code lets them, as
\* long as promotions do not raise, whatever the lease, the grace period and the faults.
THEOREM ClusterOrder == "promotion" \notin Faults => (Spec => []Orderly)
<1> SUFFICES ASSUME "promotion" \notin Faults PROVE Spec => []Orderly
  OBVIOUS
<1>1. Init => Orderly
  BY InitInv DEF IInv
<1>2. Orderly /\ [Next]_vars => Orderly'
  BY NextOrderly
<1> QED
  BY <1>1, <1>2, PTL DEF Spec

\* The order of _handle_elected, _handle_demotion and stop: who commands has devices that
\* run, and the lead or is being demoted.
THEOREM CommandsAlwaysArrive == "promotion" \notin Faults => (Spec => []CommandsArrive)
<1> SUFFICES ASSUME "promotion" \notin Faults PROVE Spec => []CommandsArrive
  OBVIOUS
<1>1. Orderly => CommandsArrive
  BY
     DEF Orderly, Sound, Commands, Coherent, TypeOK, CommandsArrive,
         CommandsReachDevices, FollowerNeverCommands
<1> QED
  BY <1>1, ClusterOrder, PTL

\* Terms, respites and the lease keep the nodes apart, whatever the nodes, the lease
\* and the intervals, if they are Timely.
THEOREM ClusterInvariance == Timely /\ Survivable => (Spec => []IInv)
<1> SUFFICES ASSUME Timely, Survivable PROVE Spec => []IInv
  OBVIOUS
<1>1. IInv /\ [Next]_vars => IInv'
  BY NextInv
<1> QED
  BY InitInv, <1>1, PTL DEF Spec

\* LeaderElector's self-fencing and the grace period of ClusterController: no two nodes
\* command the devices at a time, whatever calls fail, nodes crash or stop.
THEOREM OneController == Timely /\ Survivable => (Spec => []AtMostOneController)
<1> SUFFICES ASSUME Timely, Survivable PROVE Spec => []AtMostOneController
  OBVIOUS
<1>1. IInv => AtMostOneController
  <2> SUFFICES ASSUME IInv PROVE AtMostOneController
    OBVIOUS
  <2>1. ASSUME NEW n \in Nodes, NEW m \in Nodes, live[n], live[m] PROVE n = m
    <3> SUFFICES ASSUME n # m PROVE FALSE
      OBVIOUS
    <3>1. Apart(n, m) /\ InOffice(n) /\ InOffice(m)
      BY <2>1 DEF IInv, InOffice
    <3>2. Term(n) \in Int /\ Term(m) \in Int
      BY TermInt DEF IInv, Orderly
    <3>3. Term(n) >= 0 /\ Respite(n) = 0 /\ Term(m) >= 0 /\ Respite(m) = 0
      BY <2>1, TermNat
    <3>4. Term(m) < Respite(n) \/ Term(n) < Respite(m)
      BY <3>1 DEF Apart
    <3> QED
      BY <3>2, <3>3, <3>4
  <2>2. CASE \E n \in Nodes : live[n]
    <3>1. PICK n \in Nodes : live[n]
      BY <2>2
    <3>2. {m \in Nodes : live[m]} = {n}
      BY <2>1, <3>1
    <3>3. Cardinality({n}) = 1
      BY FS_Singleton
    <3> QED
      BY <3>2, <3>3 DEF AtMostOneController
  <2>3. CASE ~ \E n \in Nodes : live[n]
    <3>1. {m \in Nodes : live[m]} = {}
      BY <2>3
    <3> QED
      BY <3>1, FS_EmptySet DEF AtMostOneController
  <2> QED
    BY <2>2, <2>3
<1> QED
  BY <1>1, ClusterInvariance, PTL
-----------------------------------------------------------------------------
(* What the nodes tell each other (ClusterSync, the part "sync" of MCControl) *)

\* On the way to leading, or there.
Promoted(n) == term[n] \in {"announcing", "adding", "leading"}

OnePromoted == \A n, m \in Nodes : Promoted(n) /\ Promoted(m) => n = m

\* Until a promoted node has announced itself, whoever it is has the modes to inherit, and
\* nothing that is still written lacks them.
Inheritable ==
    ~missed /\ (\A n \in Nodes : term[n] \notin {"adding", "leading"}) =>
      /\ wanted \subseteq modeKey
      /\ \A m \in Nodes : term[m] \in {"follower", "announcing"}
                          => wanted \subseteq snapshot[m].modes
      /\ \A m \in Nodes : Sync!Publishing(m) => wanted \subseteq modes[m]

\* What a node has not added yet, it will.
Adding ==
    \A n \in Nodes : term[n] = "adding" /\ ~missed => wanted \subseteq modes[n] \cup taking[n]

\* SyncTypes, as far as it matters here.
SyncKinds ==
    /\ term \in [Nodes -> Sync!Terms]
    /\ modes \in [Nodes -> SUBSET Modes] /\ taking \in [Nodes -> SUBSET Modes]
    /\ snapshot \in [Nodes -> [leader : Nodes \cup {None}, modes : SUBSET Modes]]
    /\ leaderKey \in Nodes \cup {None} /\ modeKey \subseteq Modes

SyncInv == SyncKinds /\ OnePromoted /\ Inheritable /\ Adding /\ ModesSurvive

LEMMA SyncInitInv ==
  ASSUME Sync!Init
  PROVE  SyncInv
BY ControlAssumption
   DEF Sync!Init, SyncInv, SyncKinds, OnePromoted, Inheritable, Adding,
       ModesSurvive, Sync!ModesSurvive, Promoted, Sync!Publishing, Sync!Terms,
       Sync!Nothing

\* Electing and announcing: who is promoted takes the modes that everybody has.
LEMMA PromotionKeeps ==
  ASSUME SyncInv, NEW n \in Nodes, Sync!Elected(n) \/ Sync!Announced(n)
  PROVE  SyncInv'
<1> USE DEF SyncInv, SyncKinds, OnePromoted, Inheritable, Adding, ModesSurvive,
            Sync!ModesSurvive, Promoted, Sync!Publishing, Sync!Terms
<1>1. CASE Sync!Elected(n)
  BY <1>1 DEF Sync!Elected, Sync!redis
<1>2. CASE Sync!Announced(n)
  BY <1>2 DEF Sync!Announced, Sync!Inherited, Sync!bounds
<1> QED BY <1>1, <1>2

\* Adding the modes, and leading with them.
LEMMA LeadingKeeps ==
  ASSUME SyncInv, NEW n \in Nodes, Sync!Leads(n) \/ \E m \in Modes : Sync!Takes(n, m)
  PROVE  SyncInv'
<1> USE DEF SyncInv, SyncKinds, OnePromoted, Inheritable, Adding, ModesSurvive,
            Sync!ModesSurvive, Promoted, Sync!Publishing, Sync!Terms
<1>1. CASE Sync!Leads(n)
  BY <1>1 DEF Sync!Leads, Sync!redis, Sync!bounds
<1>2. ASSUME NEW m \in Modes, Sync!Takes(n, m)
      PROVE  SyncInv'
  BY <1>2 DEF Sync!Takes, Sync!redis, Sync!bounds
<1> QED BY <1>1, <1>2

\* Leaving in any way.
LEMMA LeavingKeeps ==
  ASSUME SyncInv, NEW n \in Nodes,
         Sync!Fenced(n) \/ Sync!Retire(n) \/ Sync!Retired(n) \/ Sync!Crash(n)
  PROVE  SyncInv'
<1> USE DEF SyncInv, SyncKinds, OnePromoted, Inheritable, Adding, ModesSurvive,
            Sync!ModesSurvive, Promoted, Sync!Publishing, Sync!Terms, Sync!Leaves, Sync!HandedOn
<1>1. CASE Sync!Fenced(n)
  BY <1>1 DEF Sync!Fenced, Sync!redis, Sync!bounds
<1>2. CASE Sync!Retire(n)
  BY <1>2 DEF Sync!Retire, Sync!redis, Sync!bounds
<1>3. CASE Sync!Retired(n)
  BY <1>3 DEF Sync!Retired, Sync!ModesStay, Sync!redis, Sync!bounds
<1>4. CASE Sync!Crash(n)
  BY <1>4, ControlAssumption DEF Sync!Crash, Sync!Nothing, Sync!redis, Sync!bounds
<1> QED BY <1>1, <1>2, <1>3, <1>4

\* Coming back, and operators.
LEMMA ComingKeeps ==
  ASSUME SyncInv, NEW n \in Nodes, Sync!Restart(n) \/ Sync!Boot(n) \/ Sync!Switch(n)
  PROVE  SyncInv'
<1> USE DEF SyncInv, SyncKinds, OnePromoted, Inheritable, Adding, ModesSurvive,
            Sync!ModesSurvive, Promoted, Sync!Publishing, Sync!Terms
<1>1. CASE Sync!Restart(n)
  BY <1>1 DEF Sync!Restart, Sync!Nothing, Sync!redis, Sync!bounds
<1>2. CASE Sync!Boot(n)
  BY <1>2 DEF Sync!Boot, Sync!redis, Sync!bounds
<1>3. CASE Sync!Switch(n)
  BY <1>3 DEF Sync!Switch, Sync!redis
<1> QED BY <1>1, <1>2, <1>3

\* Redis: what is published, polled and expires.
LEMMA RedisKeeps ==
  ASSUME SyncInv, (\E n \in Nodes : Sync!Publish(n) \/ Sync!PollAll(n)) \/ Sync!Expire
  PROVE  SyncInv'
<1> USE DEF SyncInv, SyncKinds, OnePromoted, Inheritable, Adding, ModesSurvive,
            Sync!ModesSurvive, Promoted, Sync!Publishing, Sync!Terms
<1>1. ASSUME NEW n \in Nodes, Sync!Publish(n)
      PROVE  SyncInv'
  BY <1>1
     DEF Sync!Publish, Sync!PublishIdentity, Sync!PublishModes, Sync!ModesFail,
         Sync!Identity, Sync!RoundTo, Sync!redis, Sync!bounds
<1>2. ASSUME NEW n \in Nodes, Sync!PollAll(n)
      PROVE  SyncInv'
  BY <1>2 DEF Sync!PollAll, Sync!redis, Sync!bounds
<1>3. CASE Sync!Expire
  BY <1>3 DEF Sync!Expire, Sync!redis, Sync!bounds
<1> QED BY <1>1, <1>2, <1>3

LEMMA SyncNextInv ==
  ASSUME SyncInv, [Sync!Next]_sync
  PROVE  SyncInv'
<1>1. CASE UNCHANGED sync
  BY <1>1
     DEF sync, SyncInv, SyncKinds, OnePromoted, Inheritable, Adding, ModesSurvive,
         Sync!ModesSurvive, Promoted, Sync!Publishing
<1>2. CASE Sync!Next
  BY <1>2, PromotionKeeps, LeadingKeeps, LeavingKeeps, ComingKeeps, RedisKeeps
     DEF Sync!Next, Sync!Promote
<1> QED BY <1>1, <1>2

\* Base modes survive their leader (ClusterController._sync_mode_state_from_snapshot), for
\* any nodes, modes, terms and switches, whatever fails, crashes or expires.
THEOREM ModesAlwaysSurvive == ControlSpec => []ModesSurvive
<1>1. ControlInit => SyncInv
  BY SyncInitInv DEF ControlInit
<1>2. SyncInv /\ [ControlNext]_<<part, vars, takeover, sync>> => SyncInv'
  BY SyncNextInv DEF ControlNext
<1>3. SyncInv => ModesSurvive
  BY DEF SyncInv
<1> QED BY <1>1, <1>2, <1>3, PTL DEF ControlSpec
=============================================================================
