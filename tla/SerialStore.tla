----------------------------- MODULE SerialStore -----------------------------
(***************************************************************************)
(* What UnitOfWork.run promises its callers: the operations take effect    *)
(* one at a time in the order in which they were submitted, each with all  *)
(* of its writes or with none.                                             *)
(***************************************************************************)
EXTENDS Naturals, Sequences

CONSTANTS
  Task,      \* calls of run
  MaxWrites  \* bound on the writes of one operation

VARIABLES
  line,      \* the submitted operations without an outcome, oldest first
  db,        \* the committed writes in order, each by the task that made it
  outcome    \* what came of each task

vars == <<line, db, outcome>>

Writes(t, n) == [w \in 1..n |-> t]

Submit(t) ==
  /\ outcome[t] = "none"
  /\ line' = Append(line, t)
  /\ outcome' = [outcome EXCEPT ![t] = "pending"]
  /\ UNCHANGED db

Commit(t) ==
  /\ line # << >> /\ Head(line) = t
  /\ line' = Tail(line)
  /\ outcome' = [outcome EXCEPT ![t] = "committed"]
  /\ \E n \in 0..MaxWrites : db' = db \o Writes(t, n)

Abort(t) ==
  /\ line # << >> /\ Head(line) = t
  /\ line' = Tail(line)
  /\ outcome' = [outcome EXCEPT ![t] = "failed"]
  /\ UNCHANGED db

Init ==
  /\ line = << >> /\ db = << >>
  /\ outcome = [t \in Task |-> "none"]

Next == \E t \in Task : Submit(t) \/ Commit(t) \/ Abort(t)

Settles(t) == WF_vars(Commit(t) \/ Abort(t))
SafeSpec == Init /\ [][Next]_vars
Spec == SafeSpec /\ \A t \in Task : Settles(t)
=============================================================================
