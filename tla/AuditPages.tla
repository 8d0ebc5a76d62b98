----------------------------- MODULE AuditPages -----------------------------
(***************************************************************************)
(* The audit log and a client that reads it page by page, the newest event *)
(* first, passing on the cursor of each page, while operations append      *)
(* events.  An event carries the time its operation read or was given,     *)
(* which may be earlier than that of events already there; ids are random  *)
(* and break ties.  Events of a transaction are in the log, for readers    *)
(* too, before it commits, and leave it when the operation fails.          *)
(***************************************************************************)
EXTENDS Naturals, FiniteSets

CONSTANTS
  Id,        \* event ids: only their order matters
  Subject,   \* the users events are about
  Queries,   \* whose events the client asks for; None: everybody's
  Limit,     \* limit of a page
  MaxTime,   \* bound of the clock
  None

ASSUME IdsOrdered == Id \subseteq Nat
ASSUME LimitPositive == Limit \in Nat \ {0} /\ MaxTime \in Nat
ASSUME NoneIsNothing ==
  /\ None \notin [id : Id, at : 0..MaxTime, about : Subject]
  /\ None \notin [saved : SUBSET [id : Id, at : 0..MaxTime, about : Subject],
                 appended : SUBSET [id : Id, at : 0..MaxTime, about : Subject],
                 failing : BOOLEAN]
  /\ None \notin Subject /\ Queries \subseteq Subject \cup {None}

VARIABLES
  now,      \* clock
  log,      \* state.auditEvents
  used,     \* history: the ids events have had
  op,       \* the operation whose transaction runs, or None
  undone,   \* history: what failed operations had appended
  walk,     \* the client's query, and whether there is another page to get
  atStart,  \* history: the log when the walk began
  seen,     \* history: what the pages of this walk contained
  repeated  \* history: what was on more than one of them

vars == <<now, log, used, op, undone, walk, atStart, seen, repeated>>

Event == [id : Id, at : 0..MaxTime, about : Subject]
\* A cursor is the time and the id of an event; only its form is checked.
Cursor == Event \cup {None}
Older(e, f) == e.at < f.at \/ (e.at = f.at /\ e.id < f.id)

-----------------------------------------------------------------------------
\* Faulty variant: an id is given out again.
RecordAnyId(e) ==
  /\ e \in Event /\ e.at <= now
  /\ log' = log \cup {e}
  /\ UNCHANGED used

\* An event under a fresh id, at a time that has come.
Record(e) ==
  /\ e \in Event /\ e.at <= now /\ e.id \notin used
  /\ log' = log \cup {e}
  /\ used' = used \cup {e.id}

Begin ==
  /\ op = None
  /\ op' = [saved |-> log, appended |-> {}, failing |-> FALSE]
  /\ UNCHANGED <<now, log, used, undone, walk, atStart, seen, repeated>>

Audit(e) ==
  /\ op # None /\ ~op.failing
  /\ Record(e)
  /\ op' = [op EXCEPT !.appended = @ \cup {e}]
  /\ UNCHANGED <<now, undone, walk, atStart, seen, repeated>>

\* The policy turns the operation away: a denial is logged, then it throws.
Deny(e) ==
  /\ op # None /\ ~op.failing
  /\ Record(e)
  /\ op' = [op EXCEPT !.appended = @ \cup {e}, !.failing = TRUE]
  /\ UNCHANGED <<now, undone, walk, atStart, seen, repeated>>

Commit ==
  /\ op # None /\ ~op.failing
  /\ op' = None
  /\ UNCHANGED <<now, log, used, undone, walk, atStart, seen, repeated>>

\* Faulty variant: the audit log is left out of the rollback.
RollbackKeepsAudit ==
  /\ op # None
  /\ undone' = undone \cup op.appended /\ op' = None
  /\ UNCHANGED <<now, log, used, walk, atStart, seen, repeated>>

Rollback ==
  /\ op # None
  /\ log' = op.saved
  /\ undone' = undone \cup op.appended /\ op' = None
  /\ UNCHANGED <<now, used, walk, atStart, seen, repeated>>

\* enforceRateLimit, or mergeAccounts after its rollback: in no transaction,
\* whether or not one runs.
BareAudit(e) ==
  /\ Record(e)
  /\ UNCHANGED <<now, op, undone, walk, atStart, seen, repeated>>

Tick ==
  /\ now < MaxTime
  /\ now' = now + 1
  /\ UNCHANGED <<log, used, op, undone, walk, atStart, seen, repeated>>

-----------------------------------------------------------------------------
\* Faulty variant: only times are compared.
BeforeCursorByTime(e, c) == e.at < c.at
\* Faulty variant: the event of the cursor comes again.
BeforeCursorOrAt(e, c) == e = c \/ Older(e, c)
BeforeCursor(e, c) == Older(e, c)

\* Events of the query before the cursor is applied, with the client's window.
Asked(e) ==
  /\ walk.about \in {None, e.about}
  /\ walk.after # None => Older(walk.after, e)

Matching == {e \in log : Asked(e) /\ (walk.before # None => BeforeCursor(e, walk.before))}

\* P is the first n of the events S, sorted from the newest, or all of them.
IsNewest(P, S, n) ==
  /\ P \subseteq S
  /\ Cardinality(P) = IF Cardinality(S) < n THEN Cardinality(S) ELSE n
  /\ \A e \in P, f \in S \ P : Older(f, e)

\* The first page of a query: about a user or about everybody, of all events
\* or of those newer than one the client has.
Ask(about, after) ==
  /\ ~walk.more
  /\ walk' = [about |-> about, after |-> after, before |-> None, more |-> TRUE]
  /\ atStart' = log /\ seen' = {} /\ repeated' = {}
  /\ UNCHANGED <<now, log, used, op, undone>>

\* getAuditEventPage: one event more than the page tells whether there is a
\* next page; its cursor is the last event of this one.
NextPage ==
  /\ walk.more
  /\ \E listed \in SUBSET Matching, page \in SUBSET Matching :
       /\ IsNewest(listed, Matching, Limit + 1)
       /\ IsNewest(page, listed, Limit)
       /\ seen' = seen \cup page
       /\ repeated' = repeated \cup (seen \cap page)
       /\ IF Cardinality(listed) > Limit
          THEN \E last \in page :
                 /\ \A e \in page \ {last} : Older(last, e)
                 /\ walk' = [walk EXCEPT !.before = last]
          ELSE walk' = [walk EXCEPT !.more = FALSE]
  /\ UNCHANGED <<now, log, used, op, undone, atStart>>

-----------------------------------------------------------------------------
Init ==
  /\ now = 0 /\ log = {} /\ used = {} /\ op = None /\ undone = {}
  /\ walk = [about |-> None, after |-> None, before |-> None, more |-> FALSE]
  /\ atStart = {} /\ seen = {} /\ repeated = {}

Next ==
  \/ Begin
  \/ \E e \in Event : Audit(e)
  \/ \E e \in Event : Deny(e)
  \/ Commit
  \/ Rollback
  \/ \E e \in Event : BareAudit(e)
  \/ Tick
  \/ \E about \in Queries, after \in seen \cup {None} : Ask(about, after)
  \/ NextPage

\* The client does not leave off in the middle of a walk.
Fairness == WF_vars(NextPage)

Spec == Init /\ [][Next]_vars /\ Fairness

-----------------------------------------------------------------------------
Ids(S) == {e.id : e \in S}

\* Every event ever held anywhere is a well-formed one, under an id that was
\* handed out, one event to an id; a transaction only adds to the log.
TypeOK ==
  /\ now \in 0..MaxTime
  /\ log \subseteq Event /\ Ids(log) \subseteq used
  /\ \A e, f \in log : e.id = f.id => e = f
  /\ used \subseteq Id
  /\ op # None =>
       /\ op \in [saved : SUBSET Event, appended : SUBSET Event, failing : BOOLEAN]
       /\ op.saved \subseteq log /\ op.appended \subseteq log \ op.saved
  /\ undone \subseteq Event /\ Ids(undone) \subseteq used
  /\ walk \in [about : Queries \cup {None}, after : Cursor, before : Cursor,
               more : BOOLEAN]
  /\ atStart \subseteq Event /\ Ids(atStart) \subseteq used
  /\ seen \subseteq Event /\ repeated \subseteq seen

\* Whatever is appended or rolled back between two pages, and however many
\* events share a time, an event that was there when the walk began and still
\* is has been on a page or is yet to come; after the last page it has been.
NothingSkipped ==
  \A e \in atStart \cap log :
    Asked(e) => e \in seen \/ (walk.more /\ (walk.before # None => Older(e, walk.before)))

\* A walk shows no event twice.
NoRepeats == repeated = {}

\* Every page shows asked-for events that are older than all the walk has shown,
\* and unless it is the last page it shows at least the one its cursor names: the
\* cursor goes down all the time, whatever is appended or rolled back meanwhile
\* (audit-events.ts, getAuditEventPage).
Descends ==
  walk.more /\ <<walk, seen>>' # <<walk, seen>> =>
    /\ \A e \in seen' \ seen : Asked(e) /\ \A f \in seen : Older(e, f)
    /\ walk'.more => /\ walk'.before \in seen' \ seen
                     /\ walk.before # None => Older(walk'.before, walk.before)
PagesDescend == [][Descends]_vars

\* No event of a failed operation stays in the log, its denial included; only
\* denials logged outside of the transaction can be found afterwards.
FailedLeaveNoTrace == undone \cap log = {}

\* The client gets to the last page although events are appended meanwhile.
WalkEnds == walk.more ~> ~walk.more

=============================================================================
