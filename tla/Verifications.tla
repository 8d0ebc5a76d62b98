---------------------------- MODULE Verifications ----------------------------
(***************************************************************************)
(* What any flow may do to the stored one-time challenges: create one, use  *)
(* it up, cancel it, or let a new one take its place.  Each acts at a time  *)
(* it has read, which is not after now and may be long before.  Who calls,  *)
(* what waits for what and what else is written is left to the modules     *)
(* Challenges, CurrentAccount and LinkSignIn, which all implement this.     *)
(***************************************************************************)
EXTENDS Naturals, TLAPS

CONSTANTS
  Id,              \* of challenges
  Ttl, Cooldown,
  None

VARIABLES
  now,
  records    \* id -> whether it is consumed, its times, and what it replaces

vars == <<now, records>>

Put(f, k, v) == [x \in DOMAIN f \cup {k} |-> IF x = k THEN v ELSE f[x]]
New(t, old) ==
  [status |-> "pending", createdAt |-> t, expiresAt |-> t + Ttl, replaces |-> old]

isUsable(x, t) == x \in DOMAIN records /\ records[x].status = "pending" /\ t < records[x].expiresAt

-----------------------------------------------------------------------------
Create(x, t) ==
  /\ x \in Id \ DOMAIN records
  /\ records' = Put(records, x, New(t, None))

Consume(x, t) ==
  /\ isUsable(x, t)
  /\ records' = [records EXCEPT ![x].status = "consumed"]

Cancel(x, t) ==
  /\ isUsable(x, t)
  /\ records' = [records EXCEPT ![x].expiresAt = t]

Replace(x, t, new) ==
  /\ isUsable(x, t) /\ records[x].createdAt + Cooldown <= t
  /\ new \in Id \ DOMAIN records
  /\ records' = Put([records EXCEPT ![x].expiresAt = t], new, New(t, x))

Tick == now' = now + 1 /\ UNCHANGED records

\* Some challenges were created just before.
Init == now = 0 /\ \E S \in SUBSET Id : records = [x \in S |-> New(0, None)]

Next ==
  \/ /\ UNCHANGED now /\ records' # records
     /\ \E t \in 0..now, x \in Id :
          Create(x, t) \/ Consume(x, t) \/ Cancel(x, t) \/ \E y \in Id : Replace(x, t, y)
  \/ Tick

Spec == Init /\ [][Next]_vars

-----------------------------------------------------------------------------
TypeOK ==
  /\ now \in Nat
  /\ DOMAIN records \subseteq Id
  /\ \A x \in DOMAIN records :
       records[x] \in [status : {"pending", "consumed"}, createdAt : Nat, expiresAt : Nat,
                       replaces : Id \cup {None}]

\* No challenge was created in the future or outlives its lifetime.  One that
\* replaces another was created at least a cooldown later and when the other had
\* expired, so no time is within the lifetimes of both.
LifetimesApart ==
  \A x \in DOMAIN records :
    /\ records[x].createdAt <= now /\ records[x].expiresAt <= records[x].createdAt + Ttl
    /\ LET old == records[x].replaces
       IN  old # None =>
             /\ old \in DOMAIN records
             /\ records[old].createdAt + Cooldown <= records[x].createdAt
             /\ records[old].expiresAt <= records[x].createdAt

\* A stored challenge stays; once used it is frozen, its expiry is never put off,
\* its creation and ancestry never change.
Tightens ==
  \A x \in DOMAIN records :
    /\ x \in DOMAIN records'
    /\ records[x].status = "consumed" => records'[x] = records[x]
    /\ records'[x].expiresAt <= records[x].expiresAt
    /\ records'[x].createdAt = records[x].createdAt
    /\ records'[x].replaces = records[x].replaces
OnlyTightens == [][Tightens]_vars

-----------------------------------------------------------------------------
LEMMA TypeStep ==
  ASSUME Ttl \in Nat, TypeOK, [Next]_vars
  PROVE  TypeOK'
<1> USE DEF TypeOK
<1>1. ASSUME NEW t \in 0..now, NEW x \in Id, UNCHANGED now, Create(x, t)
      PROVE  TypeOK'
  BY <1>1 DEF Create, Put, New
<1>2. ASSUME NEW t \in 0..now, NEW x \in Id, UNCHANGED now, Consume(x, t)
      PROVE  TypeOK'
  BY <1>2 DEF Consume, isUsable
<1>3. ASSUME NEW t \in 0..now, NEW x \in Id, UNCHANGED now, Cancel(x, t)
      PROVE  TypeOK'
  BY <1>3 DEF Cancel, isUsable
<1>4. ASSUME NEW t \in 0..now, NEW x \in Id, NEW y \in Id, UNCHANGED now, Replace(x, t, y)
      PROVE  TypeOK'
  BY <1>4 DEF Replace, isUsable, Put, New
<1> QED
  BY <1>1, <1>2, <1>3, <1>4 DEF Next, Tick, vars

LEMMA TightensStep ==
  ASSUME Ttl \in Nat, TypeOK, [Next]_vars
  PROVE  Tightens
<1> USE DEF TypeOK, Tightens
<1>1. ASSUME NEW t \in 0..now, NEW x \in Id, Create(x, t)
      PROVE  Tightens
  BY <1>1 DEF Create, Put, New
<1>2. ASSUME NEW t \in 0..now, NEW x \in Id, Consume(x, t)
      PROVE  Tightens
  BY <1>2 DEF Consume, isUsable
<1>3. ASSUME NEW t \in 0..now, NEW x \in Id, Cancel(x, t)
      PROVE  Tightens
  BY <1>3 DEF Cancel, isUsable
<1>4. ASSUME NEW t \in 0..now, NEW x \in Id, NEW y \in Id, Replace(x, t, y)
      PROVE  Tightens
  BY <1>4 DEF Replace, isUsable, Put, New
<1> QED
  BY <1>1, <1>2, <1>3, <1>4 DEF Next, Tick, vars

LEMMA ApartStep ==
  ASSUME Ttl \in Nat, Cooldown \in Nat, None \notin Id, TypeOK, LifetimesApart, [Next]_vars
  PROVE  LifetimesApart'
<1> USE DEF TypeOK
<1>1. TypeOK' /\ Tightens
  BY TypeStep, TightensStep
<1>2. now <= now'
  BY DEF Next, Tick, vars
<1>3. ASSUME NEW x \in DOMAIN records
      PROVE  /\ records'[x].createdAt <= now'
             /\ records'[x].expiresAt <= records'[x].createdAt + Ttl
             /\ LET old == records'[x].replaces
                IN  old # None =>
                      /\ old \in DOMAIN records'
                      /\ records'[old].createdAt + Cooldown <= records'[x].createdAt
                      /\ records'[old].expiresAt <= records'[x].createdAt
  BY <1>1, <1>2, <1>3 DEF Tightens, LifetimesApart
<1>4. ASSUME NEW x \in DOMAIN records' \ DOMAIN records
      PROVE  \E t \in 0..now, old \in DOMAIN records \cup {None} :
               /\ now' = now /\ records'[x] = New(t, old)
               /\ old # None => /\ records[old].createdAt + Cooldown <= t
                                /\ records'[old].expiresAt = t
  <2>1. ASSUME NEW t \in 0..now, NEW y \in Id, UNCHANGED now, Create(y, t)
        PROVE  records'[x] = New(t, None)
    BY <1>4, <2>1 DEF Create, Put
  <2>2. ASSUME NEW t \in 0..now, NEW y \in Id, Consume(y, t) \/ Cancel(y, t)
        PROVE  FALSE
    BY <1>4, <2>2 DEF Consume, Cancel
  <2>3. ASSUME NEW t \in 0..now, NEW y \in Id, NEW z \in Id, UNCHANGED now, Replace(y, t, z)
        PROVE  /\ y \in DOMAIN records /\ records'[x] = New(t, y)
               /\ records[y].createdAt + Cooldown <= t
               /\ records'[y].expiresAt = t
    BY <1>4, <2>3 DEF Replace, Put, isUsable
  <2>4. ~UNCHANGED records
    BY <1>4
  <2> QED
    BY <2>1, <2>2, <2>3, <2>4 DEF Next, Tick, vars
<1>5. ASSUME NEW x \in DOMAIN records' \ DOMAIN records
      PROVE  /\ records'[x].createdAt <= now'
             /\ records'[x].expiresAt <= records'[x].createdAt + Ttl
             /\ LET old == records'[x].replaces
                IN  old # None =>
                      /\ old \in DOMAIN records'
                      /\ records'[old].createdAt + Cooldown <= records'[x].createdAt
                      /\ records'[old].expiresAt <= records'[x].createdAt
  <2>1. PICK t \in 0..now, old \in DOMAIN records \cup {None} :
               /\ now' = now /\ records'[x] = New(t, old)
               /\ old # None => /\ records[old].createdAt + Cooldown <= t
                                /\ records'[old].expiresAt = t
    BY <1>4, <1>5
  <2> QED
    BY <1>1, <2>1 DEF New, Tightens
<1> QED
  BY <1>3, <1>5 DEF LifetimesApart

\* Whatever the flows do, and at whatever times they read, the lifetimes of a
\* challenge and of its replacement lie apart (verifications.ts, views.ts).
THEOREM LifetimesAlwaysApart ==
  ASSUME Ttl \in Nat, Cooldown \in Nat, None \notin Id
  PROVE  Spec => [](TypeOK /\ LifetimesApart)
<1>1. Init => TypeOK /\ LifetimesApart
  BY DEF Init, TypeOK, LifetimesApart, New
<1>2. TypeOK /\ LifetimesApart /\ [Next]_vars => (TypeOK /\ LifetimesApart)'
  BY TypeStep, ApartStep
<1> QED
  BY <1>1, <1>2, PTL DEF Spec

\* Nothing loosens a stored challenge or touches a used one (verifications.ts).
THEOREM AlwaysTightens ==
  ASSUME Ttl \in Nat
  PROVE  Spec => OnlyTightens
<1>1. Init => TypeOK
  BY DEF Init, TypeOK, New
<1>2. TypeOK /\ [Next]_vars => TypeOK' /\ Tightens
  BY TypeStep, TightensStep
<1> QED
  BY <1>1, <1>2, PTL DEF Spec, OnlyTightens
=============================================================================
