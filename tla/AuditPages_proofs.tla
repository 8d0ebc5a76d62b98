-------------------------- MODULE AuditPages_proofs --------------------------
(***************************************************************************)
(* Proofs about AuditPages, for any ids, subjects, queries and limit: that *)
(* a walk misses nothing and repeats nothing, and that failed operations   *)
(* leave no event behind.                                                  *)
(*                                                                         *)
(* What the log does (LogEffect) and what a page does are kept apart.  An  *)
(* event that enters the log has an id nobody had, so it is in none of the *)
(* histories; an event that leaves it concerns no invariant.  A page moves *)
(* the cursor down by exactly the matching events it shows.                *)
(***************************************************************************)
EXTENDS AuditPages, FiniteSetTheorems, TLAPS

\* The cursor is at or below everything the walk has shown.
SeenAboveCursor ==
  walk.more => \A e \in seen : walk.before # None /\ ~Older(e, walk.before)

Inv ==
  /\ TypeOK /\ IsFiniteSet(log)
  /\ FailedLeaveNoTrace /\ SeenAboveCursor /\ NothingSkipped /\ NoRepeats

-----------------------------------------------------------------------------
\* Times and ids are numbers, so Older is a strict order.
LEMMA EventNumbers ==
  ASSUME NEW e \in Event
  PROVE  e.at \in Nat /\ e.id \in Nat
<1>1. e.at \in 0..MaxTime /\ e.id \in Id
  BY DEF Event
<1>2. e.at \in Nat
  BY <1>1, LimitPositive
<1>3. e.id \in Nat
  BY <1>1, IdsOrdered
<1> QED
  BY <1>2, <1>3

LEMMA OlderIsTransitive ==
  ASSUME NEW e \in Event, NEW f \in Event, NEW g \in Event, Older(e, f), Older(f, g)
  PROVE  Older(e, g)
<1>1. {e.at, e.id, f.at, f.id, g.at, g.id} \subseteq Nat
  BY EventNumbers
<1> QED
  BY <1>1 DEF Older

LEMMA OlderIsAsymmetric ==
  ASSUME NEW e \in Event, NEW f \in Event, Older(e, f)
  PROVE  ~Older(f, e)
<1>1. {e.at, e.id, f.at, f.id} \subseteq Nat
  BY EventNumbers
<1> QED
  BY <1>1 DEF Older

LEMMA NotOlderThanItself ==
  ASSUME NEW e \in Event
  PROVE  ~Older(e, e)
BY OlderIsAsymmetric

\* A list that is not full is the whole of what it was cut from.
LEMMA ShortListIsAll ==
  ASSUME NEW S, IsFiniteSet(S), NEW P, NEW n \in Nat, IsNewest(P, S, n),
         Cardinality(P) < n \/ Cardinality(S) <= n
  PROVE  P = S
<1>1. P \in SUBSET S
  BY DEF IsNewest
<1>2. Cardinality(S) \in Nat
  BY FS_CardinalityType
<1>3. Cardinality(P) = IF Cardinality(S) < n THEN Cardinality(S) ELSE n
  BY DEF IsNewest
<1>4. Cardinality(S) = Cardinality(P)
  BY <1>2, <1>3
<1> QED
  BY <1>1, <1>4, FS_Subset

-----------------------------------------------------------------------------
\* An event of a new id enters the log.
Recorded ==
  \E e \in Event :
    /\ e.id \in Id \ used
    /\ log' = log \cup {e} /\ used' = used \cup {e.id}

\* What a step other than one of the client does.
LogEffect ==
  /\ UNCHANGED <<walk, atStart, seen, repeated>>
  /\ Recorded \/ (log' \subseteq log /\ used' = used)

LEMMA RecordIsRecorded ==
  ASSUME NEW e \in Event, Record(e)
  PROVE  Recorded
BY DEF Record, Recorded, Event

LEMMA LogStep ==
  ASSUME TypeOK, [Next]_vars, ~NextPage,
         ~\E about \in Queries, after \in seen \cup {None} : Ask(about, after)
  PROVE  LogEffect
<1>1. ASSUME NEW e \in Event, Audit(e) \/ Deny(e) \/ BareAudit(e)
      PROVE  LogEffect
  BY <1>1, RecordIsRecorded DEF Audit, Deny, BareAudit, LogEffect
<1>2. CASE Rollback
  BY <1>2 DEF Rollback, LogEffect, TypeOK
<1> QED
  BY <1>1, <1>2 DEF Next, vars, Begin, Commit, Tick, LogEffect

LEMMA LogStepInv ==
  ASSUME Inv, LogEffect
  PROVE  SeenAboveCursor' /\ NothingSkipped' /\ NoRepeats' /\ IsFiniteSet(log')
<1> USE DEF LogEffect
<1>1. SeenAboveCursor' /\ NoRepeats'
  BY DEF Inv, SeenAboveCursor, NoRepeats
<1>2. IsFiniteSet(log')
  BY FS_AddElement, FS_Subset DEF Inv, Recorded
<1>3. \A e \in atStart : e.id \in used
  BY DEF Inv, TypeOK, Ids
<1>4. atStart \cap log' \subseteq atStart \cap log
  BY <1>3 DEF Recorded
<1>5. \A e : Asked(e)' = Asked(e)
  BY DEF Asked
<1>6. NothingSkipped'
  BY <1>4, <1>5 DEF Inv, NothingSkipped
<1> QED
  BY <1>1, <1>2, <1>6

-----------------------------------------------------------------------------
\* Types, and what failed operations leave, by the actions that touch them.
LEMMA RecordTypes ==
  ASSUME TypeOK, FailedLeaveNoTrace, Recorded
  PROVE  /\ log' \subseteq Event /\ Ids(log') \subseteq used' /\ used' \subseteq Id
         /\ \A e, f \in log' : e.id = f.id => e = f
         /\ used \subseteq used'
         /\ undone \cap log' = {}
<1>1. PICK e \in Event : /\ e.id \in Id \ used
                         /\ log' = log \cup {e} /\ used' = used \cup {e.id}
  BY DEF Recorded
<1>2. \A f \in log \cup undone : f.id \in used
  BY DEF TypeOK, Ids
<1>3. \A f, g \in log' : f.id = g.id => f = g
  BY <1>1, <1>2 DEF TypeOK
<1>4. undone \cap log' = {}
  BY <1>1, <1>2 DEF FailedLeaveNoTrace
<1> QED
  BY <1>1, <1>3, <1>4 DEF TypeOK, Ids

LEMMA OpStep ==
  ASSUME TypeOK, FailedLeaveNoTrace, NEW e \in Event, Record(e), op # None,
         NEW failing \in BOOLEAN,
         op' = [op EXCEPT !.appended = @ \cup {e}, !.failing = failing]
  PROVE  /\ op' \in [saved : SUBSET Event, appended : SUBSET Event, failing : BOOLEAN]
         /\ op'.saved \subseteq log' /\ op'.appended \subseteq log' \ op'.saved
<1>1. e \notin log /\ log' = log \cup {e}
  BY DEF Record, TypeOK, Ids
<1>2. /\ op \in [saved : SUBSET Event, appended : SUBSET Event, failing : BOOLEAN]
      /\ op.saved \subseteq log /\ op.appended \subseteq log \ op.saved
  BY DEF TypeOK
<1>3. op' = [saved |-> op.saved, appended |-> op.appended \cup {e}, failing |-> failing]
  BY <1>2
<1> QED
  BY <1>1, <1>2, <1>3

\* The step of an operation that logs something.
LEMMA RecordKeepsTypes ==
  ASSUME TypeOK, FailedLeaveNoTrace, NEW e \in Event, Record(e),
         UNCHANGED <<now, undone, walk, atStart, seen, repeated>>,
         op' # None =>
           /\ op' \in [saved : SUBSET Event, appended : SUBSET Event, failing : BOOLEAN]
           /\ op'.saved \subseteq log' /\ op'.appended \subseteq log' \ op'.saved
  PROVE  TypeOK' /\ FailedLeaveNoTrace'
<1>1. Recorded
  BY RecordIsRecorded
<1>2. Ids(undone') \subseteq used' /\ Ids(atStart') \subseteq used'
  BY <1>1, RecordTypes DEF TypeOK, Ids
<1> QED
  BY <1>1, <1>2, RecordTypes DEF TypeOK, FailedLeaveNoTrace

LEMMA TypeStep ==
  ASSUME TypeOK, FailedLeaveNoTrace, [Next]_vars
  PROVE  TypeOK' /\ FailedLeaveNoTrace'
<1>1. CASE Begin
  <2>1. op' \in [saved : SUBSET Event, appended : SUBSET Event, failing : BOOLEAN]
    BY <1>1 DEF Begin, TypeOK
  <2>2. op'.saved \subseteq log' /\ op'.appended \subseteq log' \ op'.saved
    BY <1>1 DEF Begin
  <2> QED
    BY <1>1, <2>1, <2>2 DEF Begin, TypeOK, FailedLeaveNoTrace, Ids
<1>2. ASSUME NEW e \in Event, Audit(e)
      PROVE  TypeOK' /\ FailedLeaveNoTrace'
  <2>1. /\ Record(e) /\ op # None /\ UNCHANGED <<now, undone, walk, atStart, seen, repeated>>
        /\ op' = [op EXCEPT !.appended = @ \cup {e}]
    BY <1>2 DEF Audit
  <2>2. op' = [op EXCEPT !.appended = @ \cup {e}, !.failing = op.failing] /\ op.failing \in BOOLEAN
    BY <2>1 DEF TypeOK
  <2> QED
    BY <2>1, <2>2, OpStep, RecordKeepsTypes
<1>3. ASSUME NEW e \in Event, Deny(e)
      PROVE  TypeOK' /\ FailedLeaveNoTrace'
  <2>1. /\ Record(e) /\ op # None /\ UNCHANGED <<now, undone, walk, atStart, seen, repeated>>
        /\ op' = [op EXCEPT !.appended = @ \cup {e}, !.failing = TRUE]
    BY <1>3 DEF Deny
  <2> QED
    BY <2>1, OpStep, RecordKeepsTypes
<1>4. CASE Commit
  BY <1>4 DEF Commit, TypeOK, FailedLeaveNoTrace, Ids
<1>5. CASE Rollback
  <2>1. /\ op.saved \subseteq log /\ op.appended \subseteq log \ op.saved
        /\ log' = op.saved /\ undone' = undone \cup op.appended /\ op' = None /\ used' = used
        /\ UNCHANGED <<now, used, walk, atStart, seen, repeated>>
    BY <1>5 DEF Rollback, TypeOK
  <2>2. Ids(log') \subseteq used' /\ Ids(undone') \subseteq used' /\ Ids(atStart') \subseteq used'
    BY <2>1 DEF TypeOK, Ids
  <2>3. FailedLeaveNoTrace'
    BY <2>1 DEF FailedLeaveNoTrace
  <2> QED
    BY <2>1, <2>2, <2>3 DEF TypeOK
<1>6. ASSUME NEW e \in Event, BareAudit(e)
      PROVE  TypeOK' /\ FailedLeaveNoTrace'
  <2>1. Record(e) /\ UNCHANGED <<now, op, undone, walk, atStart, seen, repeated>> /\ log \subseteq log'
    BY <1>6 DEF BareAudit, Record
  <2>2. op' # None =>
           /\ op' \in [saved : SUBSET Event, appended : SUBSET Event, failing : BOOLEAN]
           /\ op'.saved \subseteq log' /\ op'.appended \subseteq log' \ op'.saved
    BY <2>1 DEF TypeOK
  <2> QED
    BY <2>1, <2>2, RecordKeepsTypes
<1>7. CASE Tick
  <2>1. now' \in 0..MaxTime
    BY <1>7, LimitPositive DEF Tick, TypeOK
  <2> QED
    BY <1>7, <2>1 DEF Tick, TypeOK, FailedLeaveNoTrace, Ids
<1>8. ASSUME NEW about \in Queries, NEW after \in seen \cup {None}, Ask(about, after)
      PROVE  TypeOK' /\ FailedLeaveNoTrace'
  <2>1. /\ walk' = [about |-> about, after |-> after, before |-> None, more |-> TRUE]
        /\ after \in Cursor /\ None \in Cursor
        /\ seen' = {} /\ repeated' = {} /\ atStart' = log /\ UNCHANGED <<now, log, used, op, undone>>
    BY <1>8 DEF Ask, TypeOK, Cursor
  <2>2. walk' \in [about : Queries \cup {None}, after : Cursor, before : Cursor, more : BOOLEAN]
    BY <2>1
  <2>3. Ids(atStart') \subseteq used' /\ atStart' \subseteq Event
    BY <2>1 DEF TypeOK, Ids
  <2> QED
    BY <2>1, <2>2, <2>3 DEF TypeOK, FailedLeaveNoTrace, Ids
<1>9. CASE NextPage
  <2>1. Matching \subseteq Event
    BY DEF Matching, TypeOK
  <2>2. seen' \subseteq Event /\ repeated' \subseteq seen'
    BY <1>9, <2>1 DEF NextPage, TypeOK
  <2>3. walk' \in [about : Queries \cup {None}, after : Cursor, before : Cursor, more : BOOLEAN]
    <3>1. \/ walk' = [walk EXCEPT !.more = FALSE]
          \/ \E last \in Event : walk' = [walk EXCEPT !.before = last]
      BY <1>9, <2>1 DEF NextPage
    <3>2. Event \subseteq Cursor
      BY DEF Cursor
    <3> QED
      BY <3>1, <3>2 DEF TypeOK
  <2> QED
    BY <1>9, <2>2, <2>3 DEF NextPage, TypeOK, FailedLeaveNoTrace, Ids
<1>10. CASE UNCHANGED vars
  BY <1>10 DEF vars, TypeOK, FailedLeaveNoTrace, Ids
<1> QED
  BY <1>1, <1>2, <1>3, <1>4, <1>5, <1>6, <1>7, <1>8, <1>9, <1>10 DEF Next

-----------------------------------------------------------------------------
\* What a page shows is new to the walk.
LEMMA PageIsNew ==
  ASSUME Inv, walk.more, NEW page \in SUBSET Matching
  PROVE  seen \cap page = {}
BY DEF Inv, SeenAboveCursor, Matching, BeforeCursor

LEMMA PageStep ==
  ASSUME Inv, NextPage
  PROVE  SeenAboveCursor' /\ NothingSkipped' /\ NoRepeats'
<1>1. PICK listed \in SUBSET Matching, page \in SUBSET Matching :
        /\ IsNewest(listed, Matching, Limit + 1)
        /\ IsNewest(page, listed, Limit)
        /\ seen' = seen \cup page
        /\ repeated' = repeated \cup (seen \cap page)
        /\ IF Cardinality(listed) > Limit
           THEN \E last \in page :
                  /\ \A e \in page \ {last} : Older(last, e)
                  /\ walk' = [walk EXCEPT !.before = last]
           ELSE walk' = [walk EXCEPT !.more = FALSE]
  BY DEF NextPage
<1>2. /\ walk.more /\ UNCHANGED <<log, atStart>>
      /\ walk \in [about : Queries \cup {None}, after : Cursor, before : Cursor, more : BOOLEAN]
      /\ log \subseteq Event /\ seen \subseteq Event
  BY DEF NextPage, Inv, TypeOK
<1>3. NoRepeats'
  BY <1>1, <1>2, PageIsNew DEF Inv, NoRepeats
<1>4. Matching \subseteq log /\ page \subseteq Event /\ IsFiniteSet(Matching) /\ IsFiniteSet(listed)
  <2>1. Matching \in SUBSET log
    BY DEF Matching
  <2>2. IsFiniteSet(Matching)
    BY <2>1, FS_Subset DEF Inv
  <2> QED
    BY <1>2, <2>1, <2>2, FS_Subset
<1>5. \A e \in atStart \cap log : Asked(e) => e \in seen \/ e \in Matching
  BY <1>2 DEF Inv, NothingSkipped, Matching, BeforeCursor
<1>6. CASE Cardinality(listed) > Limit
  <2>1. PICK last \in page : /\ \A e \in page \ {last} : Older(last, e)
                             /\ walk' = [walk EXCEPT !.before = last]
    BY <1>1, <1>6
  <2>2. /\ last \in Event /\ last # None
        /\ walk'.about = walk.about /\ walk'.after = walk.after
        /\ walk'.before = last /\ walk'.more
    BY <1>2, <1>4, <2>1, NoneIsNothing DEF Event
  <2>3. \A e \in Matching \ page : Older(e, last)
    BY <1>1, <2>1 DEF IsNewest
  <2>4. NothingSkipped'
    BY <1>1, <1>2, <1>5, <2>2, <2>3 DEF NothingSkipped, Asked
  <2>5. \A e \in page : ~Older(e, last)
    BY <1>4, <2>1, <2>2, OlderIsAsymmetric, NotOlderThanItself
  <2>6. \A e \in seen : ~Older(e, last)
    <3> SUFFICES ASSUME NEW e \in seen, Older(e, last) PROVE FALSE
      OBVIOUS
    <3>1. walk.before # None /\ ~Older(e, walk.before)
      BY <1>2 DEF Inv, SeenAboveCursor
    <3>2. walk.before \in Event /\ Older(last, walk.before)
      BY <1>2, <2>1, <3>1 DEF Cursor, Matching, BeforeCursor
    <3> QED
      BY <1>2, <2>2, <3>1, <3>2, OlderIsTransitive
  <2>7. SeenAboveCursor'
    BY <1>1, <2>2, <2>5, <2>6 DEF SeenAboveCursor
  <2> QED
    BY <1>3, <2>4, <2>7
<1>7. CASE ~(Cardinality(listed) > Limit)
  <2>1. /\ walk'.about = walk.about /\ walk'.after = walk.after /\ ~walk'.more
    BY <1>1, <1>2, <1>7
  <2>2. Cardinality(listed) \in Nat /\ Limit \in Nat
    BY <1>4, LimitPositive, FS_CardinalityType
  <2>3. listed = Matching
    BY <1>1, <1>4, <1>7, <2>2, ShortListIsAll
  <2>4. page = listed
    BY <1>1, <1>4, <1>7, <2>2, ShortListIsAll
  <2>5. NothingSkipped'
    BY <1>1, <1>2, <1>5, <2>1, <2>3, <2>4 DEF NothingSkipped, Asked
  <2> QED
    BY <1>3, <2>1, <2>5 DEF SeenAboveCursor
<1> QED
  BY <1>6, <1>7

LEMMA AskStep ==
  ASSUME NEW about, NEW after, Ask(about, after)
  PROVE  SeenAboveCursor' /\ NothingSkipped' /\ NoRepeats'
BY DEF Ask, SeenAboveCursor, NothingSkipped, NoRepeats

LEMMA InitInv == Init => Inv
<1> SUFFICES ASSUME Init PROVE Inv
  OBVIOUS
<1>1. TypeOK
  BY LimitPositive DEF Init, TypeOK, Ids, Cursor
<1> QED
  BY <1>1, FS_EmptySet
  DEF Init, Inv, FailedLeaveNoTrace, SeenAboveCursor, NothingSkipped, NoRepeats

LEMMA InvStep ==
  ASSUME Inv, [Next]_vars
  PROVE  Inv'
<1>1. TypeOK' /\ FailedLeaveNoTrace'
  BY TypeStep DEF Inv
<1>2. CASE NextPage
  BY <1>1, <1>2, PageStep DEF Inv, NextPage
<1>3. ASSUME NEW about \in Queries, NEW after \in seen \cup {None}, Ask(about, after)
      PROVE  Inv'
  BY <1>1, <1>3, AskStep DEF Inv, Ask
<1>4. CASE ~NextPage /\ ~\E about \in Queries, after \in seen \cup {None} : Ask(about, after)
  BY <1>1, <1>4, LogStep, LogStepInv DEF Inv
<1> QED
  BY <1>2, <1>3, <1>4

LEMMA InvAlways == Spec => []Inv
<1>1. Inv /\ [Next]_vars => Inv'
  BY InvStep
<1> QED
  BY <1>1, InitInv, PTL DEF Spec

-----------------------------------------------------------------------------
\* The log, the snapshot of the running operation and the client's cursor are
\* well-formed, and ids of events are unique (audit-events.ts).
THEOREM TypeCorrect == Spec => []TypeOK
<1>1. Inv => TypeOK
  BY DEF Inv
<1> QED
  BY <1>1, InvAlways, PTL

\* A rolled-back operation has nothing in the log, ever after (store.ts, run).
THEOREM RolledBackLeavesNoTrace == Spec => []FailedLeaveNoTrace
<1>1. Inv => FailedLeaveNoTrace
  BY DEF Inv
<1> QED
  BY <1>1, InvAlways, PTL

\* Following the cursors of getAuditEventPage misses no event that was in the
\* log when the walk began and still is, whatever the limit.
THEOREM WalkMissesNothing == Spec => []NothingSkipped
<1>1. Inv => NothingSkipped
  BY DEF Inv
<1> QED
  BY <1>1, InvAlways, PTL

\* Following the cursors shows no event twice.
THEOREM WalkRepeatsNothing == Spec => []NoRepeats
<1>1. Inv => NoRepeats
  BY DEF Inv
<1> QED
  BY <1>1, InvAlways, PTL

-----------------------------------------------------------------------------
\* What is older than an event is older than whatever is not older than that event.
LEMMA OlderThanAllAbove ==
  ASSUME NEW e \in Event, NEW b \in Event, NEW f \in Event, Older(e, b), ~Older(f, b)
  PROVE  Older(e, f)
<1>1. {e.at, e.id, b.at, b.id, f.at, f.id} \subseteq Nat
  BY EventNumbers
<1> QED
  BY <1>1 DEF Older

LEMMA DescendsStep ==
  ASSUME Inv, [Next]_vars
  PROVE  Descends
<1> SUFFICES ASSUME walk.more, <<walk, seen>>' # <<walk, seen>> PROVE Descends
  BY DEF Descends
<1>1. CASE ~NextPage
  <2>1. ~\E about \in Queries, after \in seen \cup {None} : Ask(about, after)
    BY DEF Ask
  <2> QED
    BY <1>1, <2>1, LogStep DEF LogEffect, Inv
<1>2. CASE NextPage
  <2>1. PICK listed \in SUBSET Matching, page \in SUBSET Matching :
          /\ seen' = seen \cup page
          /\ IF Cardinality(listed) > Limit
             THEN \E last \in page : walk' = [walk EXCEPT !.before = last]
             ELSE walk' = [walk EXCEPT !.more = FALSE]
    BY <1>2 DEF NextPage
  <2>2. /\ walk \in [about : Queries \cup {None}, after : Cursor, before : Cursor, more : BOOLEAN]
        /\ log \subseteq Event /\ seen \subseteq Event
    BY DEF Inv, TypeOK
  <2>3. \A e \in page : /\ e \in Event /\ Asked(e)
                        /\ walk.before # None => Older(e, walk.before)
    BY <2>2 DEF Matching, BeforeCursor
  <2>4. \A f \in seen : walk.before \in Event /\ walk.before # None /\ ~Older(f, walk.before)
    BY <2>2 DEF Inv, SeenAboveCursor, Cursor
  <2>5. \A e \in page, f \in seen : Older(e, f)
    BY <2>2, <2>3, <2>4, OlderThanAllAbove
  <2>6. \A e \in page : e \notin seen
    BY <2>3, <2>5, NotOlderThanItself
  <2>7. \A e \in seen' \ seen : Asked(e) /\ \A f \in seen : Older(e, f)
    BY <2>1, <2>3, <2>5
  <2>8. ASSUME walk'.more
        PROVE  walk'.before \in page
    <3>1. Cardinality(listed) > Limit
      BY <2>1, <2>2, <2>8
    <3> QED
      BY <2>1, <2>2, <3>1
  <2> QED
    BY <2>1, <2>3, <2>6, <2>7, <2>8 DEF Descends
<1> QED
  BY <1>1, <1>2

\* Pages go down through what was asked for and each that is not the last shows
\* something new; that a walk ends needs, beyond this, that events are finitely
\* many (audit-events.ts, getAuditEventPage).
THEOREM WalkDescends == Spec => PagesDescend
<1>1. Inv /\ [Next]_vars => [Descends]_vars
  BY DescendsStep
<1> QED
  BY <1>1, InvAlways, PTL DEF Spec, PagesDescend
=============================================================================
