----------------------------- MODULE UnitOfWork -----------------------------
(***************************************************************************)
(* UnitOfWork.run of the in-memory store: the chain of promises that puts  *)
(* the operations one behind the other, the snapshot that undoes a failed  *)
(* one, and the async scope that lets a nested run join the outer one.     *)
(*                                                                         *)
(* run replaces the tail of the chain by a promise of its own and awaits   *)
(* the old tail, so the chain is the list of the tasks in the order of     *)
(* their calls, and each waits for its predecessor.  The store is the list *)
(* of the writes it holds, each by the task that made it.                  *)
(***************************************************************************)
EXTENDS Naturals, Sequences

CONSTANTS
  Task,       \* calls of run, and of operations that only write an audit event
  MaxWrites,  \* bound on the writes of one operation
  MaxNesting, \* bound on the nested runs an operation has open
  BareAudits  \* whether calls audit their refusal outside run

ASSUME BoundsAreNatural == MaxWrites \in Nat /\ MaxNesting \in Nat
ASSUME BareAuditsIsBoolean == BareAudits \in BOOLEAN

VARIABLES
  chain,     \* the tasks that called run, in order; the last one is transactionQueue
  released,  \* the tasks whose promise is resolved
  stage,     \* where each task is
  nesting,   \* how many nested runs it has open
  snapshot,  \* snapshotStoreState at the start of its operation
  store      \* the writes in the store

vars == <<chain, released, stage, nesting, snapshot, store>>

-----------------------------------------------------------------------------
Stage == {"idle", "waiting", "running", "committed", "failed", "refused"}

\* Faulty variant: a task that is in the chain goes ahead without waiting.
SkipsTheLine(t) == \E n \in 1..Len(chain) : chain[n] = t

\* The promise task t awaits is resolved: that of the task before it in the chain.
PreviousReleased(t) ==
  \E n \in 1..Len(chain) : chain[n] = t /\ (n > 1 => chain[n - 1] \in released)

-----------------------------------------------------------------------------
\* run is called outside any transaction and joins the chain.
Run(t) ==
  /\ stage[t] = "idle"
  /\ stage' = [stage EXCEPT ![t] = "waiting"]
  /\ chain' = Append(chain, t)
  /\ UNCHANGED <<released, nesting, snapshot, store>>

\* The awaited promise is resolved; the snapshot is taken and the operation starts.
Enter(t) ==
  /\ stage[t] = "waiting" /\ PreviousReleased(t)
  /\ stage' = [stage EXCEPT ![t] = "running"]
  /\ snapshot' = [snapshot EXCEPT ![t] = store]
  /\ UNCHANGED <<chain, released, nesting, store>>

\* One repository write of the operation; it awaits between its writes.
Write(t) ==
  /\ stage[t] = "running"
  /\ Len(store) < Len(snapshot[t]) + MaxWrites
  /\ store' = Append(store, t)
  /\ UNCHANGED <<chain, released, stage, nesting, snapshot>>

\* Faulty variant: a nested run does not see the scope and takes a turn of its own.
NestInNewTurn(t) ==
  /\ stage[t] = "running" /\ nesting[t] < MaxNesting
  /\ nesting' = [nesting EXCEPT ![t] = @ + 1]
  /\ stage' = [stage EXCEPT ![t] = "waiting"]
  /\ chain' = Append(chain, t)
  /\ UNCHANGED <<released, snapshot, store>>

\* The operation calls run: the scope is set, so it goes on in the same turn.
Nest(t) ==
  /\ stage[t] = "running" /\ nesting[t] < MaxNesting
  /\ nesting' = [nesting EXCEPT ![t] = @ + 1]
  /\ UNCHANGED <<chain, released, stage, snapshot, store>>

ReturnNested(t) ==
  /\ stage[t] = "running" /\ nesting[t] > 0
  /\ nesting' = [nesting EXCEPT ![t] = @ - 1]
  /\ UNCHANGED <<chain, released, stage, snapshot, store>>

\* The operation returns.
Return(t) ==
  /\ stage[t] = "running" /\ nesting[t] = 0
  /\ stage' = [stage EXCEPT ![t] = "committed"]
  /\ released' = released \cup {t}
  /\ UNCHANGED <<chain, nesting, snapshot, store>>

\* Faulty variants: nothing is undone; the next task is let in on success only.
ThrowKeepsWrites(t) ==
  /\ stage[t] = "running"
  /\ stage' = [stage EXCEPT ![t] = "failed"]
  /\ nesting' = [nesting EXCEPT ![t] = 0]
  /\ released' = released \cup {t}
  /\ UNCHANGED <<chain, snapshot, store>>

ThrowWithoutRelease(t) ==
  /\ stage[t] = "running"
  /\ stage' = [stage EXCEPT ![t] = "failed"]
  /\ nesting' = [nesting EXCEPT ![t] = 0]
  /\ store' = snapshot[t]
  /\ UNCHANGED <<chain, released, snapshot>>

\* It throws, at any depth: the snapshot is restored before the next task is let in.
Throw(t) ==
  /\ stage[t] = "running"
  /\ stage' = [stage EXCEPT ![t] = "failed"]
  /\ nesting' = [nesting EXCEPT ![t] = 0]
  /\ store' = snapshot[t]
  /\ released' = released \cup {t}
  /\ UNCHANGED <<chain, snapshot>>

\* enforceRateLimit before run: the refusal is audited outside any transaction.
RefuseWithAudit(t) ==
  /\ BareAudits
  /\ stage[t] = "idle"
  /\ stage' = [stage EXCEPT ![t] = "refused"]
  /\ store' = Append(store, t)
  /\ UNCHANGED <<chain, released, nesting, snapshot>>

\* mergeAccounts audits a denial after its transaction was rolled back.
DenyWithAudit(t) ==
  /\ BareAudits
  /\ stage[t] = "failed"
  /\ stage' = [stage EXCEPT ![t] = "refused"]
  /\ store' = Append(store, t)
  /\ UNCHANGED <<chain, released, nesting, snapshot>>

-----------------------------------------------------------------------------
Init ==
  /\ chain = << >> /\ store = << >> /\ released = {}
  /\ stage = [t \in Task |-> "idle"]
  /\ nesting = [t \in Task |-> 0]
  /\ snapshot = [t \in Task |-> << >>]

Next ==
  \E t \in Task :
    \/ Run(t) \/ Enter(t) \/ Write(t)
    \/ Nest(t) \/ ReturnNested(t)
    \/ Return(t) \/ Throw(t)
    \/ RefuseWithAudit(t) \/ DenyWithAudit(t)

\* A resolved promise resumes its awaiter, and every operation settles.
Fairness == \A t \in Task : WF_vars(Enter(t)) /\ WF_vars(Return(t) \/ Throw(t))

SafeSpec == Init /\ [][Next]_vars
Spec == SafeSpec /\ Fairness

-----------------------------------------------------------------------------
\* Every task is in the chain once it asked for its turn, and there only once.
TypeOK ==
  /\ chain \in Seq(Task) /\ store \in Seq(Task)
  /\ released \subseteq Task
  /\ stage \in [Task -> Stage]
  /\ nesting \in [Task -> 0..MaxNesting]
  /\ snapshot \in [Task -> Seq(Task)]
  /\ \A m, n \in 1..Len(chain) : chain[m] = chain[n] => m = n

Running(t) == stage[t] = "running"

\* No two operations run at once, however the calls, returns, failures and
\* nested runs interleave: between two reads of an operation no other
\* operation has written (store.ts, "run").
OneAtATime == \A t, u \in Task : Running(t) /\ Running(u) => t = u

\* The chain never jams: while somebody waits, an operation is running or the
\* promise of some waiting call is resolved, also after failures, behind nested
\* runs and with audits in between (store.ts, the finally of "run").
NobodyStuck ==
  (\E t \in Task : stage[t] = "waiting") =>
    \E u \in Task : Running(u) \/ (stage[u] = "waiting" /\ PreviousReleased(u))

\* Nobody overtakes: whoever has its turn, or had it, finds every earlier call of
\* run settled (store.ts: run awaits the previous transactionQueue).
FirstComeFirstServed ==
  \A m, n \in 1..Len(chain) :
    m < n /\ stage[chain[n]] # "waiting" => stage[chain[m]] \in {"committed", "failed", "refused"}

\* Every call of run settles: no task waits for a promise nobody resolves,
\* not after a failure and not behind a nested run.
EveryRunSettles ==
  \A t \in Task : stage[t] = "waiting" ~> stage[t] \in {"committed", "failed"}

MadeBy(t) == {n \in 1..Len(store) : store[n] = t}

\* A refusal that was audited stays in the audit log (tests/unit/rate-limit.test.ts
\* reads the RateLimited event back; docs/architecture.md calls the log a timeline).
BareAuditKept == \A t \in Task : stage[t] = "refused" => MadeBy(t) # {}

-----------------------------------------------------------------------------
\* Position n of the chain is the first whose promise is not resolved.
IsTurn(n) == \A m \in 1..Len(chain) : m < n <=> chain[m] \in released
Turn == CHOOSE n \in 1..(Len(chain) + 1) : IsTurn(n)

\* The tasks in the chain that are not yet settled.
Line == SubSeq(chain, Turn, Len(chain))

\* What a reader of committed data sees: the store before the running operation.
Committed ==
  IF \E t \in Task : Running(t) THEN snapshot[CHOOSE t \in Task : Running(t)] ELSE store

\* What was committed is never lost again, whatever fails later and whoever audits
\* on the side: committed data only grows at its end.  A bare audit that was not
\* written into the middle of an operation is committed data (store.ts,
\* restoreStoreState).
Kept ==
  /\ Len(Committed) <= Len(Committed')
  /\ \A n \in 1..Len(Committed) : Committed'[n] = Committed[n]
CommittedKept == [][Kept]_vars

Outcome ==
  [t \in Task |-> CASE stage[t] \in {"idle", "refused"} -> "none"
                    [] stage[t] \in {"waiting", "running"} -> "pending"
                    [] OTHER -> stage[t]]

\* Without bare audits, run implements SerialStore: first come first served,
\* all or nothing, and every submission gets its outcome.
Serial == INSTANCE SerialStore WITH line <- Line, db <- Committed, outcome <- Outcome
SerialSpec == Serial!Spec
=============================================================================
