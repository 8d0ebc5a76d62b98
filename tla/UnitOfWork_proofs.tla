-------------------------- MODULE UnitOfWork_proofs --------------------------
(***************************************************************************)
(* Proofs about UnitOfWork, for any set of tasks and any bounds: the type  *)
(* invariant, mutual exclusion of the operations, and that run implements  *)
(* the safety part of SerialStore.                                         *)
(*                                                                         *)
(* Everything follows from the shape of the chain: a prefix of it is       *)
(* released, the task after the prefix has its turn, and all tasks behind  *)
(* that one are waiting.                                                   *)
(***************************************************************************)
EXTENDS UnitOfWork, SequenceTheorems, TLAPS

Unsettled(t) == stage[t] \in {"waiting", "running"}

\* Position n is the turn: before it all settled, behind it all waiting.
Shape(n) ==
  /\ IsTurn(n)
  /\ \A m \in 1..Len(chain) :
       /\ m < n => ~Unsettled(chain[m])
       /\ m = n => Unsettled(chain[m])
       /\ m > n => stage[chain[m]] = "waiting"

\* The chain has every task that is in progress or has been.
Members ==
  /\ \A t \in Task : Unsettled(t) => \E m \in 1..Len(chain) : chain[m] = t
  /\ \A t \in released : \E m \in 1..Len(chain) : chain[m] = t
  /\ \A m \in 1..Len(chain) : stage[chain[m]] # "idle"

QueueInv ==
  /\ TypeOK
  /\ Members
  /\ \E n \in 1..(Len(chain) + 1) : Shape(n)

-----------------------------------------------------------------------------
LEMMA InitQueue == Init => QueueInv
<1> SUFFICES ASSUME Init PROVE QueueInv
  OBVIOUS
<1>1. TypeOK
  BY BoundsAreNatural DEF Init, TypeOK, Stage
<1>2. Members
  BY DEF Init, Members, Unsettled
<1>3. 1 \in 1..(Len(chain) + 1) /\ Shape(1)
  BY DEF Init, Shape, IsTurn
<1> QED
  BY <1>1, <1>2, <1>3 DEF QueueInv

\* A task with its turn is the one at the turn's position.
LEMMA RunningHasTurn ==
  ASSUME QueueInv, NEW n \in 1..(Len(chain) + 1), Shape(n),
         NEW t \in Task, Running(t)
  PROVE  n \in 1..Len(chain) /\ chain[n] = t
<1>1. PICK m \in 1..Len(chain) : chain[m] = t
  BY DEF QueueInv, Members, Unsettled, Running
<1> QED
  BY <1>1 DEF Shape, Unsettled, Running

\* A waiting task whose predecessor settled is the one at the turn's position.
LEMMA EnteringHasTurn ==
  ASSUME QueueInv, NEW n \in 1..(Len(chain) + 1), Shape(n),
         NEW t \in Task, stage[t] = "waiting", PreviousReleased(t)
  PROVE  n \in 1..Len(chain) /\ chain[n] = t
<1>1. PICK m \in 1..Len(chain) : chain[m] = t /\ (m > 1 => chain[m - 1] \in released)
  BY DEF PreviousReleased
<1>2. ~(m < n)
  BY <1>1 DEF Shape, Unsettled
<1>3. m - 1 < n
  <2>1. CASE m = 1
    BY <2>1
  <2>2. CASE m > 1
    <3>1. m - 1 \in 1..Len(chain)
      BY <2>2
    <3> QED
      BY <1>1, <2>2, <3>1 DEF Shape, IsTurn
  <2> QED
    BY <2>1, <2>2
<1> QED
  BY <1>1, <1>2, <1>3

LEMMA OneRuns == QueueInv => OneAtATime
<1> SUFFICES ASSUME QueueInv, NEW t \in Task, NEW u \in Task, Running(t), Running(u)
             PROVE  t = u
  BY DEF OneAtATime
<1>1. PICK n \in 1..(Len(chain) + 1) : Shape(n)
  BY DEF QueueInv
<1> QED
  BY <1>1, RunningHasTurn

-----------------------------------------------------------------------------
\* The turn moves on when its task settles.
LEMMA SettleStep ==
  ASSUME QueueInv, NEW t \in Task, Running(t), UNCHANGED chain,
         released' = released \cup {t},
         \E s \in {"committed", "failed"} : stage' = [stage EXCEPT ![t] = s]
  PROVE  /\ Members'
         /\ \E n \in 1..Len(chain) :
              /\ Shape(n) /\ Shape(n + 1)'
<1>1. PICK n \in 1..(Len(chain) + 1) : Shape(n)
  BY DEF QueueInv
<1>2. n \in 1..Len(chain) /\ chain[n] = t
  BY <1>1, RunningHasTurn
<1> USE DEF TypeOK, QueueInv
<1>3. \A m \in 1..Len(chain) : chain[m] \in Task /\ (chain[m] = t <=> m = n)
  BY <1>2
<1>4. \A u \in Task : stage'[u] = IF u = t THEN stage'[t] ELSE stage[u]
  OBVIOUS
<1>5. stage'[t] \in {"committed", "failed"}
  OBVIOUS
<1>6. IsTurn(n + 1)'
  BY <1>1, <1>2, <1>3 DEF Shape, IsTurn
<1>7. Shape(n + 1)'
  <2> SUFFICES ASSUME NEW m \in 1..Len(chain)
               PROVE  /\ m < n + 1 => ~Unsettled(chain[m])'
                      /\ m = n + 1 => Unsettled(chain[m])'
                      /\ m > n + 1 => stage'[chain[m]] = "waiting"
    BY <1>6 DEF Shape
  <2>1. CASE m = n
    BY <1>2, <1>5, <2>1 DEF Unsettled
  <2>2. CASE m # n
    <3>1. stage'[chain[m]] = stage[chain[m]]
      BY <1>3, <1>4, <2>2
    <3> QED
      BY <1>1, <2>2, <3>1 DEF Shape, Unsettled
  <2> QED
    BY <2>1, <2>2
<1>8. Members'
  <2>1. \A u \in Task : Unsettled(u)' => \E m \in 1..Len(chain) : chain[m] = u
    BY <1>4, <1>5 DEF Members, Unsettled
  <2>2. \A u \in released' : \E m \in 1..Len(chain) : chain[m] = u
    BY <1>2 DEF Members
  <2>3. \A m \in 1..Len(chain) : stage'[chain[m]] # "idle"
    BY <1>3, <1>4, <1>5 DEF Members
  <2> QED
    BY <2>1, <2>2, <2>3 DEF Members
<1> QED
  BY <1>1, <1>2, <1>7, <1>8

\* The turn stays where it is when no task enters, settles or joins.
LEMMA SameQueue ==
  ASSUME QueueInv, UNCHANGED <<chain, released>>,
         \A u \in Task : \/ stage'[u] = stage[u]
                         \/ ~Unsettled(u) /\ ~Unsettled(u)' /\ stage'[u] # "idle",
         NEW n \in 1..(Len(chain) + 1), Shape(n)
  PROVE  Members' /\ Shape(n)'
<1>1. \A m \in 1..Len(chain) : chain[m] \in Task
  BY DEF QueueInv, TypeOK
<1>2. IsTurn(n)'
  BY DEF Shape, IsTurn
<1>3. Shape(n)'
  BY <1>1, <1>2 DEF Shape, Unsettled
<1> QED
  BY <1>1, <1>3 DEF QueueInv, Members, Unsettled

\* A task that joins stands at the end; the turn does not move.
LEMMA RunStep ==
  ASSUME QueueInv, NEW t \in Task, Run(t), NEW n \in 1..(Len(chain) + 1), Shape(n)
  PROVE  Members' /\ Shape(n)' /\ n \in 1..(Len(chain') + 1)
<1> USE DEF Run
<1>1. /\ chain \in Seq(Task) /\ chain' \in Seq(Task) /\ Len(chain') = Len(chain) + 1
      /\ \A m \in 1..Len(chain) : chain'[m] = chain[m] /\ chain[m] \in Task
      /\ chain'[Len(chain) + 1] = t
  BY AppendProperties DEF QueueInv, TypeOK
<1>2. \A m \in 1..Len(chain) : chain[m] # t
  BY DEF QueueInv, Members
<1>3. /\ stage'[t] = "waiting"
      /\ \A u \in Task \ {t} : stage'[u] = stage[u]
  BY DEF QueueInv, TypeOK, Stage
<1>4. t \notin released
  BY <1>2 DEF QueueInv, Members
<1>5. \A m \in 1..Len(chain') : m \in 1..Len(chain) \/ m = Len(chain) + 1
  BY <1>1
<1>6. IsTurn(n)'
  BY <1>1, <1>4, <1>5 DEF Shape, IsTurn
<1>7. Shape(n)'
  BY <1>1, <1>2, <1>3, <1>5, <1>6 DEF Shape, Unsettled
<1>8. Members'
  <2>1. ASSUME NEW u \in Task, Unsettled(u)'
        PROVE  \E m \in 1..Len(chain') : chain'[m] = u
    <3>1. CASE u = t
      BY <1>1, <3>1
    <3>2. CASE u # t
      <4>1. PICK m \in 1..Len(chain) : chain[m] = u
        BY <1>3, <2>1, <3>2 DEF QueueInv, Members, Unsettled
      <4> QED
        BY <1>1, <4>1
    <3> QED
      BY <3>1, <3>2
  <2>2. ASSUME NEW u \in released'
        PROVE  \E m \in 1..Len(chain') : chain'[m] = u
    <3>1. PICK m \in 1..Len(chain) : chain[m] = u
      BY DEF QueueInv, Members
    <3> QED
      BY <1>1, <3>1
  <2>3. \A m \in 1..Len(chain') : stage'[chain'[m]] # "idle"
    BY <1>1, <1>2, <1>3, <1>5 DEF QueueInv, Members
  <2> QED
    BY <2>1, <2>2, <2>3 DEF Members
<1> QED
  BY <1>1, <1>7, <1>8

\* The task whose turn it is starts to run.
LEMMA EnterStep ==
  ASSUME QueueInv, NEW t \in Task, Enter(t), NEW n \in 1..(Len(chain) + 1), Shape(n)
  PROVE  Members' /\ Shape(n)'
<1> USE DEF Enter
<1>1. n \in 1..Len(chain) /\ chain[n] = t
  BY EnteringHasTurn
<1>2. \A m \in 1..Len(chain) : chain[m] \in Task /\ (chain[m] = t <=> m = n)
  BY <1>1 DEF QueueInv, TypeOK
<1>3. stage'[t] = "running" /\ \A u \in Task \ {t} : stage'[u] = stage[u]
  BY DEF QueueInv, TypeOK
<1>4. IsTurn(n)'
  BY DEF Shape, IsTurn
<1>5. Shape(n)'
  BY <1>2, <1>3, <1>4 DEF Shape, Unsettled
<1>6. Members'
  BY <1>2, <1>3 DEF QueueInv, Members, Unsettled
<1> QED
  BY <1>5, <1>6

\* Types, action by action.
LEMMA TypeStep ==
  ASSUME TypeOK, Members, [Next]_vars
  PROVE  TypeOK'
<1> USE DEF TypeOK
<1>1. CASE UNCHANGED vars
  BY <1>1 DEF vars
<1>2. ASSUME NEW t \in Task, Run(t)
      PROVE  TypeOK'
  <2>1. /\ chain' \in Seq(Task) /\ Len(chain') = Len(chain) + 1
        /\ \A m \in 1..Len(chain) : chain'[m] = chain[m]
        /\ chain'[Len(chain) + 1] = t
    BY <1>2, AppendProperties DEF Run
  <2>2. \A m \in 1..Len(chain) : chain[m] # t
    BY <1>2 DEF Run, Members
  <2>3. \A m, n \in 1..Len(chain') : chain'[m] = chain'[n] => m = n
    <3>1. \A m \in 1..Len(chain') : m \in 1..Len(chain) \/ m = Len(chain) + 1
      BY <2>1
    <3> QED
      BY <2>1, <2>2, <3>1
  <2>4. stage' \in [Task -> Stage]
    BY <1>2 DEF Run, Stage
  <2> QED
    BY <1>2, <2>1, <2>3, <2>4 DEF Run
<1>3. ASSUME NEW t \in Task, Enter(t)
      PROVE  TypeOK'
  BY <1>3 DEF Enter, Stage
<1>4. ASSUME NEW t \in Task, Write(t)
      PROVE  TypeOK'
  BY <1>4, AppendProperties DEF Write
<1>5. ASSUME NEW t \in Task, Nest(t)
      PROVE  TypeOK'
  BY <1>5, BoundsAreNatural DEF Nest
<1>6. ASSUME NEW t \in Task, ReturnNested(t)
      PROVE  TypeOK'
  BY <1>6, BoundsAreNatural DEF ReturnNested
<1>7. ASSUME NEW t \in Task, Return(t)
      PROVE  TypeOK'
  BY <1>7 DEF Return, Stage
<1>8. ASSUME NEW t \in Task, Throw(t)
      PROVE  TypeOK'
  BY <1>8, BoundsAreNatural DEF Throw, Stage
<1>9. ASSUME NEW t \in Task, RefuseWithAudit(t) \/ DenyWithAudit(t)
      PROVE  TypeOK'
  <2>1. stage' \in [Task -> Stage]
    BY <1>9 DEF RefuseWithAudit, DenyWithAudit, Stage
  <2>2. store' \in Seq(Task)
    <3>1. store' = Append(store, t)
      BY <1>9 DEF RefuseWithAudit, DenyWithAudit
    <3> QED
      BY <3>1, AppendProperties
  <2> QED
    BY <1>9, <2>1, <2>2 DEF RefuseWithAudit, DenyWithAudit
<1> QED
  BY <1>1, <1>2, <1>3, <1>4, <1>5, <1>6, <1>7, <1>8, <1>9 DEF Next

LEMMA QueueStep ==
  ASSUME QueueInv, [Next]_vars
  PROVE  QueueInv'
<1> DEFINE Good == Members' /\ \E n \in 1..(Len(chain') + 1) : Shape(n)'
<1> SUFFICES Good
  BY TypeStep DEF QueueInv
<1>1. PICK n \in 1..(Len(chain) + 1) : Shape(n)
  BY DEF QueueInv
<1>2. ASSUME UNCHANGED <<chain, released, stage>>
      PROVE  Good
  BY <1>1, <1>2, SameQueue
<1>3. ASSUME NEW t \in Task, Run(t)
      PROVE  Good
  BY <1>1, <1>3, RunStep
<1>4. ASSUME NEW t \in Task, Enter(t)
      PROVE  Good
  BY <1>1, <1>4, EnterStep DEF Enter
<1>5. ASSUME NEW t \in Task, Return(t) \/ Throw(t)
      PROVE  Good
  <2>1. /\ Running(t) /\ UNCHANGED chain /\ released' = released \cup {t}
        /\ \E s \in {"committed", "failed"} : stage' = [stage EXCEPT ![t] = s]
    BY <1>5 DEF Return, Throw, Running
  <2>2. /\ Members'
        /\ \E m \in 1..Len(chain) : Shape(m) /\ Shape(m + 1)'
    BY <2>1, SettleStep
  <2>3. PICK m \in 1..Len(chain) : Shape(m + 1)'
    BY <2>2
  <2>4. m + 1 \in 1..(Len(chain') + 1)
    BY <2>1 DEF QueueInv, TypeOK
  <2> QED
    BY <2>2, <2>3, <2>4
<1>6. ASSUME NEW t \in Task, RefuseWithAudit(t) \/ DenyWithAudit(t)
      PROVE  Good
  <2>1. UNCHANGED <<chain, released>>
    BY <1>6 DEF RefuseWithAudit, DenyWithAudit
  <2>2. \A u \in Task : \/ stage'[u] = stage[u]
                        \/ ~Unsettled(u) /\ ~Unsettled(u)' /\ stage'[u] # "idle"
    <3>1. stage[t] \in {"idle", "failed"} /\ stage' = [stage EXCEPT ![t] = "refused"]
      BY <1>6 DEF RefuseWithAudit, DenyWithAudit
    <3>2. stage \in [Task -> Stage]
      BY DEF QueueInv, TypeOK
    <3>3. stage'[t] = "refused" /\ \A u \in Task \ {t} : stage'[u] = stage[u]
      BY <3>1, <3>2
    <3> QED
      BY <3>1, <3>3 DEF Unsettled
  <2> QED
    BY <1>1, <2>1, <2>2, SameQueue
<1> QED
  BY <1>2, <1>3, <1>4, <1>5, <1>6 DEF Next, vars, Write, Nest, ReturnNested

LEMMA QueueAlways == SafeSpec => []QueueInv
<1>1. Init => QueueInv
  BY InitQueue
<1>2. QueueInv /\ [Next]_vars => QueueInv'
  BY QueueStep
<1> QED
  BY <1>1, <1>2, PTL DEF SafeSpec

\* Type correctness of the chain, the stages and the snapshots of run.
THEOREM TypeCorrect == SafeSpec => []TypeOK
<1>1. QueueInv => TypeOK
  BY DEF QueueInv
<1> QED
  BY <1>1, QueueAlways, PTL

\* At most one operation is running, whatever the number of calls, however
\* deep they nest and whether audit events are written on the side (store.ts, run).
THEOREM MutualExclusion == SafeSpec => []OneAtATime
BY OneRuns, QueueAlways, PTL

-----------------------------------------------------------------------------
\* A running operation sees the store of its start and its own writes only.
Held ==
  \A t \in Task : Running(t) =>
    \E k \in 0..MaxWrites : store = snapshot[t] \o Serial!Writes(t, k)

\* The turn is the only position that splits the chain into settled and unsettled.
LEMMA TurnAt ==
  ASSUME NEW c, NEW r, Len(c) \in Nat, NEW n \in 1..(Len(c) + 1),
         \A m \in 1..Len(c) : m < n <=> c[m] \in r
  PROVE  (CHOOSE k \in 1..(Len(c) + 1) : \A m \in 1..Len(c) : m < k <=> c[m] \in r) = n
<1> DEFINE Splits(k) == \A m \in 1..Len(c) : m < k <=> c[m] \in r
<1>1. ASSUME NEW k \in 1..(Len(c) + 1), Splits(k)
      PROVE  k = n
  <2>1. CASE k < n
    <3>1. k \in 1..Len(c)
      BY <2>1
    <3> QED
      BY <1>1, <2>1, <3>1
  <2>2. CASE n < k
    <3>1. n \in 1..Len(c)
      BY <2>2
    <3> QED
      BY <1>1, <2>2, <3>1
  <2> QED
    BY <2>1, <2>2
<1>2. Splits(n)
  OBVIOUS
<1> HIDE DEF Splits
<1>3. (CHOOSE k \in 1..(Len(c) + 1) : Splits(k)) = n
  BY <1>1, <1>2
<1> QED
  BY <1>3 DEF Splits

\* A sequence followed by writes of one task, position by position.
LEMMA ThenWrites ==
  ASSUME NEW s \in Seq(Task), NEW t \in Task, NEW k \in Nat
  PROVE  /\ s \o Serial!Writes(t, k) \in Seq(Task)
         /\ Len(s \o Serial!Writes(t, k)) = Len(s) + k
         /\ \A i \in 1..(Len(s) + k) :
              (s \o Serial!Writes(t, k))[i] = IF i <= Len(s) THEN s[i] ELSE t
<1> DEFINE w == Serial!Writes(t, k)
<1>1. w \in Seq(Task) /\ Len(w) = k /\ \A i \in 1..k : w[i] = t
  BY DEF Serial!Writes
<1> HIDE DEF w
<1>2. /\ s \o w \in Seq(Task)
      /\ Len(s \o w) = Len(s) + k
      /\ \A i \in 1..(Len(s) + k) :
           (s \o w)[i] = IF i <= Len(s) THEN s[i] ELSE w[i - Len(s)]
  BY <1>1, ConcatProperties
<1>3. ASSUME NEW i \in 1..(Len(s) + k)
      PROVE  (s \o w)[i] = IF i <= Len(s) THEN s[i] ELSE t
  <2>1. CASE i <= Len(s)
    BY <1>2, <2>1
  <2>2. CASE ~(i <= Len(s))
    <3>1. i - Len(s) \in 1..k
      BY <2>2
    <3> QED
      BY <1>1, <1>2, <2>2, <3>1
  <2> QED
    BY <2>1, <2>2
<1> QED
  BY <1>2, <1>3 DEF w

\* One more write of the running task.
LEMMA OneMoreWrite ==
  ASSUME NEW s \in Seq(Task), NEW t \in Task, NEW k \in Nat
  PROVE  Append(s \o Serial!Writes(t, k), t) = s \o Serial!Writes(t, k + 1)
<1> DEFINE a == Append(s \o Serial!Writes(t, k), t)
           b == s \o Serial!Writes(t, k + 1)
<1>1. /\ a \in Seq(Task) /\ Len(a) = Len(s) + k + 1
      /\ \A i \in 1..(Len(s) + k + 1) : a[i] = IF i <= Len(s) THEN s[i] ELSE t
  <2>1. /\ s \o Serial!Writes(t, k) \in Seq(Task)
        /\ Len(s \o Serial!Writes(t, k)) = Len(s) + k
        /\ \A i \in 1..(Len(s) + k) :
             (s \o Serial!Writes(t, k))[i] = IF i <= Len(s) THEN s[i] ELSE t
    BY ThenWrites
  <2> QED
    BY <2>1, AppendProperties
<1>2. /\ b \in Seq(Task) /\ Len(b) = Len(s) + k + 1
      /\ \A i \in 1..(Len(s) + k + 1) : b[i] = IF i <= Len(s) THEN s[i] ELSE t
  <2>1. k + 1 \in Nat /\ Len(s) + (k + 1) = Len(s) + k + 1
    OBVIOUS
  <2>2. /\ b \in Seq(Task) /\ Len(b) = Len(s) + (k + 1)
        /\ \A i \in 1..(Len(s) + (k + 1)) : b[i] = IF i <= Len(s) THEN s[i] ELSE t
    BY <2>1, ThenWrites, Zenon
  <2> QED
    BY <2>1, <2>2, Zenon
<1> HIDE DEF a, b
<1>3. a = b
  BY <1>1, <1>2, SeqEqual
<1> QED
  BY <1>3 DEF a, b

LEMMA HeldStep ==
  ASSUME ~BareAudits, TypeOK, OneAtATime, OneAtATime', Held, [Next]_vars
  PROVE  Held'
<1> SUFFICES ASSUME NEW t \in Task, Running(t)'
             PROVE  \E k \in 0..MaxWrites : store' = snapshot'[t] \o Serial!Writes(t, k)
  BY DEF Held
<1> USE DEF TypeOK
<1>1. CASE Enter(t)
  <2>1. snapshot'[t] = store /\ store' = store
    BY <1>1 DEF Enter
  <2>2. Serial!Writes(t, 0) = << >>
    BY DEF Serial!Writes
  <2>3. store \o << >> = store
    BY ConcatEmptySeq
  <2> QED
    BY <2>1, <2>2, <2>3, BoundsAreNatural
<1>2. CASE Write(t)
  <2>1. PICK k \in 0..MaxWrites : store = snapshot[t] \o Serial!Writes(t, k)
    BY <1>2 DEF Write, Held, Running
  <2>2. Len(store) = Len(snapshot[t]) + k
    BY <2>1, ThenWrites, BoundsAreNatural
  <2>3. k + 1 \in 0..MaxWrites
    BY <1>2, <2>2, BoundsAreNatural DEF Write
  <2>4. store' = snapshot'[t] \o Serial!Writes(t, k + 1)
    <3>1. snapshot[t] \in Seq(Task) /\ k \in Nat
      BY BoundsAreNatural
    <3>2. Append(store, t) = snapshot[t] \o Serial!Writes(t, k + 1)
      BY <2>1, <3>1, OneMoreWrite
    <3> QED
      BY <1>2, <3>2 DEF Write
  <2> QED
    BY <2>3, <2>4
<1>3. CASE Running(t) /\ UNCHANGED <<snapshot, store>>
  BY <1>3 DEF Held
<1>4. ASSUME NEW u \in Task, Run(u) \/ Nest(u) \/ ReturnNested(u)
      PROVE  Running(t) /\ UNCHANGED <<snapshot, store>>
  BY <1>4 DEF Run, Nest, ReturnNested, Running
<1>5. ASSUME NEW u \in Task, Enter(u) \/ Write(u)
      PROVE  u = t
  <2>1. Running(u)'
    BY <1>5 DEF Enter, Write, Running
  <2> QED
    BY <2>1 DEF OneAtATime
<1>6. ASSUME NEW u \in Task, Return(u) \/ Throw(u)
      PROVE  FALSE
  <2>1. Running(u) /\ stage'[u] # "running" /\ (u # t => stage'[t] = stage[t])
    BY <1>6 DEF Return, Throw, Running
  <2>2. Running(t) /\ u # t
    BY <2>1 DEF Running
  <2> QED
    BY <2>1, <2>2 DEF OneAtATime
<1>7. CASE UNCHANGED vars
  BY <1>3, <1>7 DEF vars, Running
<1> QED
  BY <1>1, <1>2, <1>3, <1>4, <1>5, <1>6, <1>7 DEF Next, RefuseWithAudit, DenyWithAudit

-----------------------------------------------------------------------------
LEMMA SubSeqOfAppend ==
  ASSUME NEW c \in Seq(Task), NEW t \in Task, NEW n \in 1..(Len(c) + 1)
  PROVE  SubSeq(Append(c, t), n, Len(c) + 1) = Append(SubSeq(c, n, Len(c)), t)
<1> DEFINE d == Append(c, t)
<1>1. /\ d \in Seq(Task) /\ Len(d) = Len(c) + 1 /\ Len(c) \in Nat
      /\ \A i \in 1..Len(c) : d[i] = c[i]
      /\ d[Len(c) + 1] = t
  BY AppendProperties
<1> HIDE DEF d
<1>2. SubSeq(d, n, Len(c) + 1) = SubSeq(d, n, Len(c)) \o <<t>>
  BY <1>1, SubSeqRecursiveSecond
<1>3. SubSeq(d, n, Len(c)) = SubSeq(c, n, Len(c))
  BY <1>1
<1>4. SubSeq(c, n, Len(c)) \in Seq(Task)
  BY <1>1, SubSeqProperties
<1> QED
  BY <1>2, <1>3, <1>4, AppendIsConcat DEF d

\* What the refinement mapping shows in a state whose turn is at n.
LEMMA LineAt ==
  ASSUME NEW n \in 1..(Len(chain) + 1), Shape(n), TypeOK
  PROVE  Line = SubSeq(chain, n, Len(chain))
<1>1. Turn = n
  BY TurnAt DEF Turn, IsTurn, Shape, TypeOK
<1> QED
  BY <1>1 DEF Line

LEMMA NextLineAt ==
  ASSUME NEW n \in 1..(Len(chain') + 1), Shape(n)', TypeOK'
  PROVE  Line' = SubSeq(chain', n, Len(chain'))
<1>1. Turn' = n
  BY TurnAt DEF Turn, IsTurn, Shape, TypeOK
<1> QED
  BY <1>1 DEF Line

LEMMA CommittedAt ==
  ASSUME OneAtATime, NEW t \in Task, Running(t)
  PROVE  Committed = snapshot[t]
BY DEF OneAtATime, Committed

LEMMA InitialStates == Init => Serial!Init
<1> SUFFICES ASSUME Init PROVE Serial!Init
  OBVIOUS
<1>1. Line = << >>
  BY SubSeqEmpty, LineAt, InitQueue DEF Init, Line
<1>2. Committed = << >>
  BY DEF Init, Committed, Running
<1>3. Outcome = [t \in Task |-> "none"]
  BY DEF Init, Outcome
<1> QED
  BY <1>1, <1>2, <1>3 DEF Serial!Init

\* Joining the chain submits the operation.
LEMMA RunSubmits ==
  ASSUME QueueInv, TypeOK', NEW t \in Task, Run(t)
  PROVE  Serial!Submit(t)
<1>1. PICK n \in 1..(Len(chain) + 1) : Shape(n)
  BY DEF QueueInv
<1>2. Line = SubSeq(chain, n, Len(chain))
  BY <1>1, LineAt DEF QueueInv
<1>3. Line' = SubSeq(Append(chain, t), n, Len(chain) + 1)
  <2>1. n \in 1..(Len(chain') + 1) /\ Shape(n)'
    BY <1>1, RunStep
  <2>2. chain' = Append(chain, t) /\ Len(chain') = Len(chain) + 1
    BY AppendProperties DEF Run, QueueInv, TypeOK
  <2> QED
    BY <2>1, <2>2, NextLineAt
<1>4. Line' = Append(Line, t)
  BY <1>2, <1>3, SubSeqOfAppend DEF QueueInv, TypeOK
<1>5. stage[t] = "idle" /\ stage'[t] = "waiting" /\ \A u \in Task \ {t} : stage'[u] = stage[u]
  BY DEF Run, QueueInv, TypeOK
<1>6. Outcome[t] = "none" /\ Outcome' = [Outcome EXCEPT ![t] = "pending"]
  BY <1>5 DEF Outcome
<1>7. Committed' = Committed
  <2>1. \A u \in Task : Running(u)' <=> Running(u)
    BY <1>5 DEF Running
  <2> QED
    BY <2>1 DEF Committed, Run
<1> QED
  BY <1>4, <1>6, <1>7 DEF Serial!Submit

\* Taking the turn, writing and nesting change nothing a reader could see.
LEMMA EnterStutters ==
  ASSUME QueueInv, TypeOK', OneAtATime', NEW t \in Task, Enter(t)
  PROVE  UNCHANGED Serial!vars
<1>1. PICK n \in 1..(Len(chain) + 1) : Shape(n)
  BY DEF QueueInv
<1>2. Line' = Line
  BY DEF Enter, Line, Turn, IsTurn
<1>3. /\ stage[t] = "waiting" /\ stage'[t] = "running"
      /\ \A u \in Task \ {t} : stage'[u] = stage[u]
  BY DEF Enter, QueueInv, TypeOK
<1>4. Outcome' = Outcome
  BY <1>3 DEF Outcome
<1>5. \A u \in Task : ~Running(u)
  BY <1>1, <1>3, EnteringHasTurn, RunningHasTurn DEF Enter, Running
<1>6. Committed = store
  BY <1>5 DEF Committed
<1>7. Committed' = store
  <2>1. Running(t)' /\ snapshot'[t] = store
    BY <1>3 DEF Enter, Running, QueueInv, TypeOK
  <2>2. (CHOOSE u \in Task : Running(u)') = t
    BY <2>1 DEF OneAtATime
  <2> QED
    BY <2>1, <2>2 DEF Committed
<1> QED
  BY <1>2, <1>4, <1>6, <1>7 DEF Serial!vars

LEMMA OperationStutters ==
  ASSUME OneAtATime, NEW t \in Task, Write(t) \/ Nest(t) \/ ReturnNested(t)
  PROVE  UNCHANGED Serial!vars
<1>1. UNCHANGED <<chain, released, stage, snapshot>> /\ Running(t)
  BY DEF Write, Nest, ReturnNested, Running
<1>2. Line' = Line
  BY <1>1 DEF Line, Turn, IsTurn
<1>3. Outcome' = Outcome
  BY <1>1 DEF Outcome
<1>4. Committed' = Committed
  BY <1>1 DEF Committed, Running
<1> QED
  BY <1>2, <1>3, <1>4 DEF Serial!vars

\* Returning commits the operation's writes, throwing aborts it.
LEMMA SettleEndsHead ==
  ASSUME QueueInv, TypeOK', OneAtATime, NEW t \in Task, Return(t) \/ Throw(t)
  PROVE  /\ Line # << >> /\ Head(Line) = t /\ Line' = Tail(Line)
         /\ Committed = snapshot[t] /\ Committed' = store'
<1>1. /\ Running(t) /\ UNCHANGED chain /\ released' = released \cup {t}
      /\ \E s \in {"committed", "failed"} : stage' = [stage EXCEPT ![t] = s]
  BY DEF Return, Throw, Running
<1>2. \E n \in 1..Len(chain) : Shape(n) /\ Shape(n + 1)'
  BY <1>1, SettleStep
<1>3. PICK n \in 1..Len(chain) : Shape(n) /\ Shape(n + 1)'
  BY <1>2
<1>4. chain \in Seq(Task) /\ Len(chain) \in Nat
  BY DEF QueueInv, TypeOK
<1>5. Line = SubSeq(chain, n, Len(chain))
  BY <1>3, <1>4, LineAt DEF QueueInv
<1>6. chain[n] = t
  BY <1>1, <1>3, <1>4, RunningHasTurn
<1>7. Head(Line) = t /\ Tail(Line) = SubSeq(chain, n + 1, Len(chain))
  BY <1>4, <1>5, <1>6, HeadTailOfSubSeq
<1>8. Line # << >>
  <2>1. \A i \in n..Len(chain) : chain[i] \in Task
    BY <1>4
  <2>2. Len(Line) = Len(chain) - n + 1
    BY <1>4, <1>5, <2>1, SubSeqProperties
  <2> QED
    BY <1>4, <2>2
<1>9. Line' = SubSeq(chain, n + 1, Len(chain))
  <2>1. n + 1 \in 1..(Len(chain') + 1)
    BY <1>1, <1>4
  <2> QED
    BY <1>1, <1>3, <2>1, NextLineAt
<1>10. Committed = snapshot[t]
  BY <1>1, CommittedAt
<1>11. Committed' = store'
  <2>1. stage'[t] # "running" /\ \A u \in Task \ {t} : stage'[u] = stage[u]
    BY <1>1 DEF QueueInv, TypeOK
  <2>2. \A u \in Task : ~Running(u)'
    BY <1>1, <2>1 DEF OneAtATime, Running
  <2> QED
    BY <2>2 DEF Committed
<1> QED
  BY <1>7, <1>8, <1>9, <1>10, <1>11

LEMMA ReturnCommits ==
  ASSUME QueueInv, TypeOK', OneAtATime, Held, NEW t \in Task, Return(t)
  PROVE  Serial!Commit(t)
<1>1. /\ Line # << >> /\ Head(Line) = t /\ Line' = Tail(Line)
      /\ Committed = snapshot[t] /\ Committed' = store'
  BY SettleEndsHead
<1>2. stage'[t] = "committed" /\ \A u \in Task \ {t} : stage'[u] = stage[u]
  BY DEF Return, QueueInv, TypeOK
<1>3. Outcome' = [Outcome EXCEPT ![t] = "committed"]
  BY <1>2 DEF Outcome
<1>4. \E k \in 0..MaxWrites : Committed' = Committed \o Serial!Writes(t, k)
  BY <1>1 DEF Return, Held, Running
<1> QED
  BY <1>1, <1>3, <1>4 DEF Serial!Commit

LEMMA ThrowAborts ==
  ASSUME QueueInv, TypeOK', OneAtATime, NEW t \in Task, Throw(t)
  PROVE  Serial!Abort(t)
<1>1. /\ Line # << >> /\ Head(Line) = t /\ Line' = Tail(Line)
      /\ Committed = snapshot[t] /\ Committed' = store'
  BY SettleEndsHead
<1>2. stage'[t] = "failed" /\ \A u \in Task \ {t} : stage'[u] = stage[u]
  BY DEF Throw, QueueInv, TypeOK
<1>3. Outcome' = [Outcome EXCEPT ![t] = "failed"]
  BY <1>2 DEF Outcome
<1>4. Committed' = Committed
  BY <1>1 DEF Throw
<1> QED
  BY <1>1, <1>3, <1>4 DEF Serial!Abort

LEMMA Simulation ==
  ASSUME ~BareAudits, QueueInv, TypeOK', OneAtATime, OneAtATime', Held, [Next]_vars
  PROVE  [Serial!Next]_(Serial!vars)
<1>1. ASSUME NEW t \in Task, Run(t)
      PROVE  Serial!Next
  BY <1>1, RunSubmits DEF Serial!Next
<1>2. ASSUME NEW t \in Task, Enter(t) \/ Write(t) \/ Nest(t) \/ ReturnNested(t)
      PROVE  UNCHANGED Serial!vars
  BY <1>2, EnterStutters, OperationStutters
<1>3. ASSUME NEW t \in Task, Return(t)
      PROVE  Serial!Next
  BY <1>3, ReturnCommits DEF Serial!Next
<1>4. ASSUME NEW t \in Task, Throw(t)
      PROVE  Serial!Next
  BY <1>4, ThrowAborts DEF Serial!Next
<1>5. CASE UNCHANGED vars
  BY <1>5 DEF vars, Serial!vars, Line, Turn, IsTurn, Committed, Running, Outcome
<1> QED
  BY <1>1, <1>2, <1>3, <1>4, <1>5 DEF Next, RefuseWithAudit, DenyWithAudit

\* Where no refusal is audited on the side, run is a serial store: whatever
\* the calls, the operations commit one at a time in the order of their calls,
\* each with all its own writes or with none (store.ts, run).
THEOREM ImplementsSerialStore ==
  ASSUME ~BareAudits
  PROVE  SafeSpec => Serial!SafeSpec
<1>1. Init => Held
  BY DEF Init, Held, Running
<1>2. TypeOK /\ OneAtATime /\ OneAtATime' /\ Held /\ [Next]_vars => Held'
  BY HeldStep
<1>3. SafeSpec => []TypeOK /\ []OneAtATime /\ []QueueInv
  BY TypeCorrect, MutualExclusion, QueueAlways
<1>4. SafeSpec => []Held
  BY <1>1, <1>2, <1>3, PTL DEF SafeSpec
<1>5. QueueInv /\ TypeOK' /\ OneAtATime /\ OneAtATime' /\ Held /\ [Next]_vars
        => [Serial!Next]_(Serial!vars)
  BY Simulation
<1> QED
  BY <1>3, <1>4, <1>5, InitialStates, PTL DEF SafeSpec, Serial!SafeSpec

-----------------------------------------------------------------------------
(* What the shape of the chain says about waiting. *)

LEMMA TurnCanGo == QueueInv => NobodyStuck
<1> SUFFICES ASSUME QueueInv, NEW t \in Task, stage[t] = "waiting"
             PROVE  \E u \in Task : Running(u) \/ (stage[u] = "waiting" /\ PreviousReleased(u))
  BY DEF NobodyStuck
<1>1. PICK n \in 1..(Len(chain) + 1) : Shape(n)
  BY DEF QueueInv
<1>2. PICK m \in 1..Len(chain) : chain[m] = t
  BY DEF QueueInv, Members, Unsettled
<1>3. n \in 1..Len(chain)
  BY <1>1, <1>2 DEF Shape, Unsettled
<1>4. chain[n] \in Task /\ Unsettled(chain[n])
  BY <1>1, <1>3 DEF Shape, QueueInv, TypeOK
<1>5. n > 1 => n - 1 \in 1..Len(chain) /\ n - 1 < n
  BY <1>3
<1>6. n > 1 => chain[n - 1] \in released
  BY <1>1, <1>5 DEF Shape, IsTurn
<1> QED
  BY <1>3, <1>4, <1>6 DEF Unsettled, Running, PreviousReleased

LEMMA EarlierSettled == QueueInv => FirstComeFirstServed
<1> SUFFICES ASSUME QueueInv, NEW m \in 1..Len(chain), NEW n \in 1..Len(chain),
                    m < n, stage[chain[n]] # "waiting"
             PROVE  stage[chain[m]] \in {"committed", "failed", "refused"}
  BY DEF FirstComeFirstServed
<1>1. PICK k \in 1..(Len(chain) + 1) : Shape(k)
  BY DEF QueueInv
<1>2. n <= k
  BY <1>1 DEF Shape
<1>3. ~Unsettled(chain[m]) /\ stage[chain[m]] # "idle"
  BY <1>1, <1>2 DEF Shape, QueueInv, Members
<1>4. stage[chain[m]] \in Stage
  BY DEF QueueInv, TypeOK
<1> QED
  BY <1>3, <1>4 DEF Unsettled, Stage

\* While somebody waits, somebody can go on: the chain of promises never jams
\* (store.ts, run).
THEOREM ChainNeverJams == SafeSpec => []NobodyStuck
BY TurnCanGo, QueueAlways, PTL

\* Operations have their turns in the order of their calls (store.ts, run).
THEOREM TurnsInOrder == SafeSpec => []FirstComeFirstServed
BY EarlierSettled, QueueAlways, PTL

-----------------------------------------------------------------------------
(* Committed data, with bare audits on the side. *)

Extends(s, t) == Len(s) <= Len(t) /\ \A n \in 1..Len(s) : t[n] = s[n]

\* A running operation, and the audits beside it, only add to its snapshot.
Grown == \A t \in Task : Running(t) => Extends(snapshot[t], store)

LEMMA AppendExtends ==
  ASSUME NEW s \in Seq(Task), NEW r \in Seq(Task), NEW t \in Task, Extends(s, r)
  PROVE  Extends(s, Append(r, t))
BY AppendProperties DEF Extends

LEMMA GrownStep ==
  ASSUME TypeOK, OneAtATime, OneAtATime', Grown, [Next]_vars
  PROVE  Grown'
<1> SUFFICES ASSUME NEW t \in Task, Running(t)'
             PROVE  Extends(snapshot'[t], store')
  BY DEF Grown
<1> USE DEF TypeOK
<1>1. CASE Enter(t)
  BY <1>1 DEF Enter, Extends
<1>2. ASSUME Running(t), snapshot'[t] = snapshot[t],
             store' = store \/ \E u \in Task : store' = Append(store, u)
      PROVE  Extends(snapshot'[t], store')
  <2>1. Extends(snapshot[t], store) /\ snapshot[t] \in Seq(Task) /\ store \in Seq(Task)
    BY <1>2 DEF Grown
  <2>2. CASE store' = store
    BY <1>2, <2>1, <2>2
  <2>3. ASSUME NEW u \in Task, store' = Append(store, u)
        PROVE  Extends(snapshot'[t], store')
    <3>1. Extends(snapshot[t], Append(store, u))
      BY <2>1, AppendExtends
    <3> QED
      BY <1>2, <2>3, <3>1
  <2> QED
    BY <1>2, <2>2, <2>3
<1>3. ASSUME NEW u \in Task, Run(u) \/ Write(u) \/ Nest(u) \/ ReturnNested(u)
                              \/ RefuseWithAudit(u) \/ DenyWithAudit(u)
      PROVE  Running(t) /\ UNCHANGED snapshot /\ (store' = store \/ store' = Append(store, u))
  BY <1>3 DEF Run, Write, Nest, ReturnNested, RefuseWithAudit, DenyWithAudit, Running
<1>4. ASSUME NEW u \in Task, Enter(u)
      PROVE  u = t
  BY <1>4 DEF Enter, Running, OneAtATime
<1>5. ASSUME NEW u \in Task, Return(u) \/ Throw(u)
      PROVE  FALSE
  <2>1. Running(u) /\ stage'[u] # "running" /\ (u # t => stage'[t] = stage[t])
    BY <1>5 DEF Return, Throw, Running
  <2> QED
    BY <2>1 DEF OneAtATime, Running
<1>6. CASE UNCHANGED vars
  BY <1>2, <1>6 DEF vars, Running
<1> QED
  BY <1>1, <1>2, <1>3, <1>4, <1>5, <1>6 DEF Next

LEMMA NobodyRuns ==
  ASSUME \A t \in Task : ~Running(t)
  PROVE  Committed = store
BY DEF Committed

LEMMA KeptStep ==
  ASSUME TypeOK, OneAtATime, OneAtATime', Grown, [Next]_vars
  PROVE  Kept
<1> USE DEF TypeOK
<1> SUFFICES Extends(Committed, Committed')
  BY DEF Kept, Extends
<1>1. \A t \in Task : Running(t) => Committed = snapshot[t]
  BY CommittedAt
<1>2. \A t \in Task : Running(t)' => Committed' = snapshot'[t]
  BY DEF OneAtATime, Committed
<1>3. (\A t \in Task : ~Running(t)) => Committed = store
  BY NobodyRuns
<1>4. (\A t \in Task : ~Running(t)') => Committed' = store'
  BY DEF Committed
<1>5. Committed \in Seq(Task)
  BY <1>1, <1>3
<1> HIDE DEF Committed
<1>6. Extends(Committed, Committed)
  BY <1>5 DEF Extends
<1>7. ASSUME NEW u \in Task, Enter(u)
      PROVE  Extends(Committed, Committed')
  <2>1. Running(u)' /\ snapshot'[u] = store
    BY <1>7 DEF Enter, Running
  <2>2. \A t \in Task : ~Running(t)
    BY <1>7, <2>1 DEF Enter, Running, OneAtATime
  <2> QED
    BY <1>2, <1>3, <1>6, <2>1, <2>2
<1>8. ASSUME NEW u \in Task, Return(u) \/ Throw(u)
      PROVE  Extends(Committed, Committed')
  <2>1. Running(u) /\ (store' = store \/ store' = snapshot[u])
    BY <1>8 DEF Return, Throw, Running
  <2>2. \A t \in Task : ~Running(t)'
    BY <1>8, <2>1 DEF Return, Throw, Running, OneAtATime
  <2>3. Committed = snapshot[u] /\ Committed' = store' /\ Extends(snapshot[u], store)
    BY <1>1, <1>4, <2>1, <2>2 DEF Grown
  <2> QED
    BY <1>6, <2>1, <2>3
<1>9. ASSUME \A t \in Task : Running(t)' <=> Running(t), UNCHANGED snapshot,
             store' = store \/ \E u \in Task : store' = Append(store, u)
      PROVE  Extends(Committed, Committed')
  <2>1. CASE \E t \in Task : Running(t)
    BY <1>1, <1>2, <1>6, <1>9, <2>1
  <2>2. CASE \A t \in Task : ~Running(t)
    <3>1. Committed = store /\ Committed' = store'
      BY <1>3, <1>4, <1>9, <2>2
    <3>2. ASSUME NEW u \in Task, store' = Append(store, u)
          PROVE  Extends(Committed, Committed')
      <4>1. Extends(store, Append(store, u))
        BY <1>6, <3>1, AppendExtends
      <4> QED
        BY <3>1, <3>2, <4>1
    <3> QED
      BY <1>6, <1>9, <3>1, <3>2
  <2> QED
    BY <2>1, <2>2
<1>10. ASSUME NEW u \in Task, Run(u) \/ Write(u) \/ Nest(u) \/ ReturnNested(u)
                               \/ RefuseWithAudit(u) \/ DenyWithAudit(u)
       PROVE  /\ \A t \in Task : Running(t)' <=> Running(t)
              /\ UNCHANGED snapshot /\ (store' = store \/ store' = Append(store, u))
  BY <1>10 DEF Run, Write, Nest, ReturnNested, RefuseWithAudit, DenyWithAudit, Running
<1>11. CASE UNCHANGED vars
  BY <1>9, <1>11 DEF vars, Running
<1> QED
  BY <1>7, <1>8, <1>9, <1>10, <1>11 DEF Next

\* Committed data only grows, with bare audits and without: what bare_audit
\* loses are audits written into the middle of an operation (store.ts,
\* restoreStoreState).
THEOREM CommittedNeverLost == SafeSpec => CommittedKept
<1>1. Init => Grown
  BY DEF Init, Grown, Running
<1>2. TypeOK /\ OneAtATime /\ OneAtATime' /\ Grown /\ [Next]_vars => Grown'
  BY GrownStep
<1>3. TypeOK /\ OneAtATime /\ OneAtATime' /\ Grown /\ [Next]_vars => [Kept]_vars
  BY KeptStep
<1> QED
  BY <1>1, <1>2, <1>3, TypeCorrect, MutualExclusion, PTL DEF SafeSpec, CommittedKept
=============================================================================
