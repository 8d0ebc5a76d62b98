# Verification of uniauth-core

TLA+ modules, TLC runs and TLAPS proofs for the authentication core in
`src/src`: who owns which sign-in identity, credential and session, how one-time
challenges live and end, what the holder of a session may do to the account and
after which proof, what the audit log shows to those who page through it, what
the store's `UnitOfWork.run` guarantees to the operations that run in it, and
what is left of that when there is no such store. Paths below are relative to
`src/src/core/application/` unless they start with `docs/`, `tests/` or
`testing/`.

## The system

The library is a service of some sixty operations over repositories that the
application supplies. Its own store (`testing/in-memory/store.ts`) is the
reference for what the repositories do.

| component | state it keeps | operations |
| --- | --- | --- |
| accounts (`sign-in.ts`, `accounts/*`, `current-account-actions.ts`) | users, identities and the index of their keys | sign in (exact, auto-link, new user), link, unlink, merge, close |
| sessions (`sessions.ts`, `session-context.ts`, `current-account-security.ts`) | sessions by token hash, their expiry, last activity and recent-authentication markers | create, resolve, touch, revoke one, others, all |
| passwords (`passwords/*`) | credentials and two indexes | set, change, sign in, recover |
| one-time challenges (`verifications.ts`, `otp.ts`, `magic-link.ts`, `passwords/recovery.ts`) | verifications: status, creation, expiry | start, finish, resend, cancel, consume |
| current-account flows (`current-account-contact-change.ts`, `current-account-re-auth.ts`) | none of their own: metadata on challenges and sessions | start, finish, resend, cancel a challenge that belongs to a session; confirm a password |
| policy and recent authentication (`policy.ts`, `support.ts`) | markers in the metadata of a session | requiresReAuth, issue and resolve a marker |
| rate limiting (`support.ts`) | behind a port | consume an attempt, audit a refusal |
| audit (`support.ts`, `audit-events.ts`) | the append-only event list | append, query by page |
| unit of work (`testing/in-memory/store.ts`) | the tail of a promise chain, an async scope, a snapshot per operation | run |

How they interact: nearly every operation wraps its reads and writes in
`runtime.transaction.run`, and operations call operations (an OTP finish signs
in, a close revokes sessions), so runs nest. Before `run` an operation may read
the clock, look a record up, and await the rate limiter; those steps see and
write shared state outside of any transaction. Delivery of a code follows the
commit. There are no threads: concurrency is the interleaving of async calls at
their awaits.

What is hard here:

* **time that is read early and used late**: most challenge operations capture
  `now` first and act under it after awaiting checks and their turn;
* **order of the queue against order of the times** the queued calls carry;
* **indexes kept by hand** in the store, also when a merge re-keys a credential;
* **two ways of ending an account** that look alike (`disabledAt`) but differ in
  everything else: closing keeps the identities, merging moves them away;
* **rollback of a shared store**, which undoes whatever happened since the
  snapshot, whoever did it;
* **nesting**, where a run inside a run must not wait for its own outer run;
* **checks before the rate limiter** that may be stale inside the transaction:
  the session is revoked, the identity unlinked, the challenge replaced meanwhile;
* **one record, many operations**: the generic resend, finish and consumption
  accept challenges that belong to the flows of a session or to a recovery;
* **no isolation at all** when the application's store offers no `run`: then
  every repository call of one operation may meet the ones of another;
* **paging over a log that changes**: equal times, events that arrive with an
  earlier time than the newest, events that a rollback takes away again.

`PROJECT.json` lists every such hazard at its line with the properties that
would catch it.

## Modules

| module | models | checked by | proved in |
| --- | --- | --- | --- |
| `Ownership` | whose sign-in keys, sessions and passwords are (abstract) | `accounts`, as the property | `Ownership` |
| `Accounts` | accounts, sessions, passwords as committed operations | `accounts`, `auto_link` | `Accounts_proofs` |
| `Verifications` | what any flow may do to the stored one-time challenges (abstract) | `challenges_owned`, as the property | `Verifications` |
| `Challenges` | the steps of overlapping challenge calls | `challenges`, `challenges_owned`, `double_resend`, `cancel_race` | `Challenges_proofs` |
| `CurrentAccount` | what the holder of a session does: re-authentication and its markers, contact change, password, recovery, unlink, revocation, closure, next to the generic challenge operations | `current_account` | `CurrentAccount_proofs` |
| `AtomicSignIn` | the magic-link operations and unlink as indivisible changes (abstract) | `link_sign_in`, as the property | `LinkSignIn_proofs` |
| `LinkSignIn` | the same operations one repository call at a time, with transactions and without | `link_sign_in` | `LinkSignIn_proofs` |
| `AuditPages` | the audit log and a client that walks its pages | `audit_pages` | `AuditPages_proofs` |
| `SerialStore` | what `run` promises (abstract) | `uow_serial`, as the property | `UnitOfWork_proofs` |
| `UnitOfWork` | how `run` does it (promise chain, scope, snapshot) | `uow_serial`, `uow_audits`, `bare_audit` | `UnitOfWork_proofs` |

The `MC...` modules only add model values, values of constants and symmetry. The
layers fit together like this: `UnitOfWork` implements `SerialStore`, so a
committed operation may be taken as one atomic step, which is what an action of
`Accounts` and a `Commit...` action of `Challenges` and `CurrentAccount` is.
`LinkSignIn` shows for one family of operations, down to the single repository
call, that this granularity is right (it implements `AtomicSignIn`), and says
which invariants survive when the service runs without a transaction.
`Accounts` implements `Ownership`, the rules of who holds what without records
and indexes. `Challenges`, `CurrentAccount` and `LinkSignIn` model three sets of
flows over the same stored challenges in different detail; what they have in
common is stated once, in `Verifications`, and each is shown to implement it.
`CurrentAccount` composes challenges with sessions, users, identities and
passwords; it takes the life of a challenge from the same code as `Challenges`,
but keeps of it what its own properties need.

### Ownership

Which accounts are in use (`open`) or over (`ended`), which account a key signs
in to (`holder`) or was given up by (`retired`), whose password an e-mail names,
and which session signs in whom. `Register`, `Attach`, `Retire`, `GetPassword`,
`Merge`, `Close`, `SignIn` and `SignOut` are the only changes; every one is a
whole operation of the account. The refinement mapping of `Accounts` reads this
off the records, where the same facts are spread over users, identities,
credentials, sessions and three indexes. The invariant of `Ownership`
(`AlwaysConsistent`) and its action property (`KeysAlwaysFaithful`) are proved
there once and hold of the account operations by refinement.

### Accounts

The store's maps are partial functions and its secondary indexes
(`identityKeys`, `credentialKeys`, `credentialUserKeys`) are variables of their
own, because the code looks things up through them: a lookup that goes wrong in
the code goes wrong in the model too. `create` and `update` of the repositories
are the operators `CreateIdentity`, `CreateCredential`, `Rekey`.

| action | code |
| --- | --- |
| `SignInExact`, `SignInAutoLink`, `SignInNewUser` | the three branches of `signInWithAssertion` |
| `Link`, `Unlink` | `accounts/link.ts`, `accounts/unlink.ts` with `disableForUserIfAnotherActive` |
| `MergeAccounts`, `AlreadyMerged` | `accounts/merge.ts` |
| `SetPassword`, `SignInWithPassword` | `passwords/credentials.ts`, `passwords/sign-in.ts` |
| `CreateSession`, `RevokeSession`, `RevokeAllSessions` | `sessions.ts` |
| `RevokeOtherSessionsByToken`, `RevokeOwnedSessionByToken` | `current-account-security.ts`, `current-account-actions.ts` |
| `CloseCurrentAccount` | `closeCurrentAccountByToken` |
| `Lapse` | time passes the `expiresAt` of a session |

Abstractions. An assertion is a key and the set of verified contacts it carries.
A session is active or revoked and lapsed or not. The answers of the policy are
free, except that a refusal simply means the action is not taken. The variants
of link, unlink and set-password that take a session token are the same changes
under a stronger guard. Password hashes, profile fields, contacts on the user
record and metadata are not told apart. Assertions may carry the key of a
password identity: nothing in `sign-in/assertion.ts` keeps a provider from
using the provider id `password`, so `AssertedKey` may contain e-mails. The
merge judges the expiry of the source session by a time it read before it
waited for its turn, so `MergeAccounts` accepts a session that has lapsed since.
Unlinking never gives a key back: the identity is disabled and stays in the
index, in the model as in the code. `Accounts` keeps of the audit log only the
`AccountsMerged` events, which are the record of what the idempotent answer of
a merge claims.

### Challenges

A call is `Begin` (the clock is read, the challenge is found), then `Enqueue` or
`Refuse` (ownership checks and the rate limiter, awaited outside of any
transaction), then its turn in the queue: `CommitStart`, `CommitFinish`,
`CommitResend`, `CommitCancel` or `EndWithoutEffect`. Which time it acts under
is `ActsAt`: the plain cancellations and `consumeVerification` read the clock
inside their turn, everything else carries the time of its `Begin`. Plain
resends await nothing between the two (`otp.ts:122-124`), so they are queued in
the step in which they begin. OTP, magic-link, password-recovery, contact-change
and re-authentication challenges all go through these same records and steps.
Callers may pass `now` themselves; the model takes the clock, or a caller that
passes the time at which it calls.

### Verifications

The contract of the table of challenges: `Create`, `Consume`, `Cancel`,
`Replace`, each under a time that is not after the clock and may be long before.
A cancel or use needs a challenge usable at that time; a replacement also that
the cooldown has passed, and it ends what it replaces. Queue, limiter, owners,
purposes and secrets do not occur. In `Challenges` and `CurrentAccount` the
mapping (`Lifetimes`) forgets them; in `LinkSignIn` it also looks at the
committed store only, since a replacement is two writes there, and the claim is
made for transactions (`isolated`). The contract allows the two findings on
challenges: a use or a second replacement that carries a time from before the
end of the challenge.

### CurrentAccount

A call that awaits the rate limiter is a record in `calls` from its first checks
to its transaction: `StartContactChange`, `FinishOtpReAuth`, ... make it,
`CommitStart`, `CommitContactChange`, ... take it, under the time it read, or
`Fail` ends it. The finishes check session, owner and target again in their
commit, the owned resends and cancellations do not, as in the code. Calls reach
their commit in any order: which of several waiting calls is next is not told
apart from how long each waits for the limiter.

| action | code |
| --- | --- |
| `StartContactChange` ... `CommitContactChange` | `current-account-contact-change.ts` |
| `StartOtpReAuth` ... `CommitOtpReAuth`, `ConfirmPassword` | `current-account-re-auth.ts` |
| `IssueMarker`, `EnsureReAuth`, `ResolvesMarker`, `Stored` | `support.ts`: markers in the metadata of a session |
| `RequiresReAuth` | `policy.ts` |
| `StartOtp`, `FinishOtp`, `CommitFinishOtp`, `ResendOtp`, `CancelVerification`, `ConsumeVerification` | the generic operations of `otp.ts` and `verifications.ts` |
| `StartRecovery`, `FinishRecovery`, `CommitRecovery`, `ResendRecovery`, `CancelRecovery` | `passwords/recovery.ts` |
| `SetPassword`, `ChangePassword`, `UnlinkIdentity`, `RevokeOwnedSession`, `CloseAccount` | `current-account-actions.ts` |

A marker is the place it has in the list `issued` of all markers, a history
variable; a session stores the list of the markers it accepts. `Proof` is what a
caller may present: a marker, with the session and the time it claims, right or
wrong, whose secret was issued to somebody; or nothing. Two variables more are
history: who last changed a contact and who set the password in force
(`contactBy`, `passwordBy`), and, on a challenge, when its chain of resends
began and what it replaces. The variable `offered` never changes: it is the set
of features an application may offer, and each set of `Applications` is explored
on its own. A challenge the application starts itself (`StartOtp`) has no owner;
an application that writes the reserved owner metadata itself is not modelled.
A generic resend could do so: it merges the metadata of its caller over those of
the challenge (`otp.ts:159-162`), and `Replace` always keeps the owner. What
`ResendKeepsClaim` and the properties about owners say is said of applications
that leave these keys alone.

### LinkSignIn and AtomicSignIn

Each call performs one operation: `StartEmailMagicLink`, `FinishEmailMagicLink`,
`ResendEmailMagicLink`, `CancelEmailMagicLink` or `Unlink`. It goes through the
limiter (`Admit`, `Limited`), the queue (`Enter`), and then one repository call
per step: `ReadLink`, `ConsumeLink`, `FindIdentity`, `CreateUser`,
`CreateIdentity`, `CreateSession`; `CreateLink`; `ReadForResend`,
`CreateReplacement`, `ExpireLink`; `ReadForCancel`, `ExpireLink`;
`ReadForUnlink`, `Disable`. `Fail` throws at any of them. `isolated` never
changes: TRUE is the in-memory store's `run`, FALSE is `immediateUnitOfWork`,
where `Enter` waits for nobody and `Fail` undoes nothing. The uniqueness check
of `identityRepo.create` and the count of `disableForUserIfAnotherActive` are
made in the same step as the write: these two repository functions await
nothing, and their contracts promise as much of any adapter.

The refinement mapping is `Committed`: the snapshot while a transaction runs,
the store otherwise. `ImplementsAtomic` says that every step leaves it alone or
is one whole operation of `AtomicSignIn`. Auto-link is off here, as it is by
default; `Accounts` has it.

### AuditPages

`Begin`, `Audit`, `Deny`, `Commit` and `Rollback` are an operation that appends
events inside its transaction; `BareAudit` is one that appends outside of any.
`Record` gives a fresh id and a time that has come, not necessarily the newest:
an event carries the time its operation read. `Ask` and `NextPage` are a client
that asks for a user's events or everybody's, all of them or those newer than
one it has seen, and passes on the cursor of each page. Pages are read from the
shared log, so they show events that are later rolled back, as the code does.

### UnitOfWork and SerialStore

`run` replaces `transactionQueue` by a promise of its own and awaits the old
one. The chain of these promises is a sequence of tasks; `released` says whose
promise is resolved. `Enter` takes the snapshot, `Throw` restores it before the
next task is let in, `Nest` and `ReturnNested` are runs inside the async scope.
The store is the list of its writes, each by the task that made it: enough to
tell a lost, a foreign and a surviving write apart. `RefuseWithAudit` and
`DenyWithAudit` are the audit events that `enforceRateLimit` and `mergeAccounts`
append outside of `run`; the constant `BareAudits` switches them on.

The refinement mapping: the abstract line is the part of the chain from the
`Turn` on, the first position whose promise is not resolved; the abstract
database is the snapshot of the running operation when there is one and the
store otherwise.

## Runs and bounds

| run | bounds | shows |
| --- | --- | --- |
| `accounts` | 3 users, 3 identities, 2 credentials, 3 sessions, 1 provider key, 2 e-mails, one of them asserted | two merges in a row, merge into a merge's target, closing before and after, password on both sides; that `Accounts` implements `Ownership` |
| `auto_link` | 2 users, 3 identities, 3 sessions, 3 keys, an e-mail and a phone, no passwords | evidence that points at two accounts, at a closed one, at one that another was merged into |
| `challenges` | 3 challenges, 2 calls, clock 0..2, ttl 2, cooldown 1 | a start and two generations of resends; expiry and cooldown both at their boundary |
| `challenges_owned` | the same with owned resends and cancellations | what holds although queue order and time order differ; that `Challenges` implements `Verifications` |
| `double_resend`, `cancel_race` | the operations the scenario needs | the two findings on challenges |
| `current_account` | 1 user, 2 sessions, one of them expiring, 2 challenges, 2 targets, clock 0..2, ttl 2, cooldown 1, age limit 1, at most 1 marker per session, 2 issued | the flows of a session, up to two calls in flight, next to generic operations, revocation and closure |
| `link_sign_in` | 3 calls, 2 links, 2 users, an address and another key, clock 0..1, ttl 2, cooldown 1, `isolated` both ways | sign-in, resend, cancel and unlink in every interleaving of their repository calls |
| `audit_pages` | 3 ids, 2 times, 2 subjects, pages of 1 | equal times at the border of a page, late events, rollbacks between pages, with fairness of the client |
| `uow_serial` | 4 tasks, 2 writes each, nesting 1 | the refinement, with fairness |
| `uow_audits` | 3 tasks, bare audits on | mutual exclusion and settling do not depend on them |
| `bare_audit` | the same, safety only | the finding on the audit log |

Why this is enough: a violation of the account invariants needs at most a
source, a target and a third party that competes for a key; of the challenge
invariants, two overlapping calls and a replacement of a replacement; of the
queue, a task that fails between one that waits and one that arrives; of the
sign-in by link, two calls that race and a third that cancels or resends; of the
walk, an event on either side of a page's border and one that comes in between.
`current_account` has one user: markers and challenges belong to sessions, so a
second session of that user is as foreign to them as somebody else's, and who
owns an e-mail is the business of `Accounts`; the proofs are about any number of
users. The
applications of `MCCurrentAccount` pair each flow with the operations that can
get in its way, and only contact change with re-authentication has two calls in
flight (`MaxCalls`); the others have one next to the one-step operations. With
the times of `audit_pages` and `link_sign_in` two instants suffice: properties
compare times, they do not count them. Deadlock
checking is off because every system here may stop: the ids run out, the clock
reaches `MaxTime`, all tasks are done.

Every property has a mutant in `PROJECT.json`: a plausible slip in a modelled
function under which TLC finds the property violated. The operators commented
"Faulty variant" are these slips; no specification uses them.

**Fairness** is assumed in two places. In `UnitOfWork`: `WF(Enter)`, since a
resolved promise resumes the function that awaits it, and `WF(Return \/ Throw)`,
since the operations consist of finitely many awaits of repositories that
answer. An operation that hangs for ever would block the queue; that is true of
the code as well. In `AuditPages`: `WF(NextPage)`, a client that does not leave
off in the middle of a walk; nothing is assumed of those who append. Then
`WalkEnds` says that the client is not kept busy by events that arrive.

## Findings

1. `double_resend`: the owned resends capture `now` before they await session
   and challenge; two of them can create two replacements of one challenge
   (`current-account-contact-change.ts:104`), where
   `tests/unit/resend-execution.test.ts:106` states that only one is allowed.
2. `cancel_race`: a finish that captured its time earlier consumes a challenge
   whose cancellation (or replacement) was already committed (`otp.ts:205` and
   the other finishes), where `docs/abuse-control.md:165` has it fall back to
   the expired path. What does hold is `LateFinishFails`: a finish that *begins*
   after the cancellation fails, even within the same instant.
3. `bare_audit`: a rollback erases audit events that other calls appended
   outside of any transaction in the meantime (`testing/in-memory/store.ts:319`).

## Proofs

`Accounts_proofs` proves, for any sets of ids, keys and contacts, every
property that the runs `accounts` and `auto_link` check, and `NothingRevives`. The assumptions are
those of `Accounts`: provider keys are not e-mails, assertions arrive under
known keys, the answers of the policy are Boolean.

The inductive invariant `IInv` is the conjunction of the invariants with `Core`,
the typing of the records. None of them is inductive alone. `NeverLockedOut`
needs `MergedAccountIsEmpty` and `RetryOnlyAfterMerge` to know that the account
that loses its identities is the one on record as merged; `RetryOnlyAfterMerge`
needs `NeverLockedOut` in turn, since only that says that a closed account never
looks merged; `PasswordFollowsIdentity` needs `IndexesAgree`, since credential
and identity are found through the indexes, and a merge moves them by owner.

The proof goes through the *effect* of an action rather than its text: sixteen
actions have nine kinds of effect on the maps (a session is opened, sessions
only end, an identity is added, ...). The lemma `NextSteps` maps `Next` to
these effects once, and each invariant is then proved to survive each effect
that can touch it. `EndsWholeStep`, `EndedStep` and `UnambiguousStep` prove the
action properties from the same invariant.

`AccountsImplementOwnership` maps every action to a step of `Ownership` or a
stutter. The mapped state is read off records that the invariant ties together,
so `IInv` is needed at nearly every step: that the index finds an identity of an
account in use (`SignIn`), that what a merge moves is everything the account has
(`Merge`), that a password set for an e-mail does not take it from anybody
(`GetPassword`). `SignInKeysFaithful` is then `KeysAlwaysFaithful` of `Ownership`
through the mapping: a key that signs in to an account leaves it only in a
merge, with everything else the account holds, and a key once unlinked never
signs in again.

`Verifications` proves its own two theorems. `AlwaysTightens`: a stored
challenge stays, a used one is frozen, an expiry is never put off.
`LifetimesAlwaysApart`, by induction with `AlwaysTightens` at each step: a
replacement was created at least a cooldown after what it replaces and when that
had expired, so no instant is within the lifetimes of both. The three models
implement this contract (`ChallengesKeepContract`, `FlowsKeepContract`,
`LinksKeepContract`). What makes that more than a renaming is the times: a
step of the contract acts at a time not after now, and that a call which read
the clock long ago still carries such a time is an invariant of each model
(`PastTimes`); in `LinkSignIn` it takes `Progress` besides, since only that says
that the difference a transaction makes in the end is one whole operation.
`LifetimesStayApart` and `LinkLifetimesApart` are the consequences for the other
two models, `ReplacementsFollow` for `Challenges`.

`Challenges_proofs` proves, for any ids, any number of calls in flight and any
lifetime, cooldown and clock, every property of the runs `challenges` and
`challenges_owned`. Again the steps are reduced to an effect (`Effect`,
`CallEffect`): at a time the acting call carries, and that is not after now, a
challenge usable at that time is consumed or expires, or a new one is created.
The invariant `Inv` adds to the checked ones that no call acts in the future
(`PastTimes`), that what is replaced is stored (`Ancestry`), and that a call that
began after the end of its challenge finds it unusable at its own time
(`EndedSeen`), which is what makes late finishes fail. `OnlyOneReplacement` is
proved from the assumption that `ownedResend` is not among the operations: then
the queue holds the resends in the order of their times (`ResendsInOrder`), so
that whoever comes second comes later. The finding `double_resend` is exactly
what is left when that assumption is dropped. The finding `cancel_race` has its
boundary proved from both sides: `EndedConsumedByOlderFinish` says that a finish
which consumes an ended challenge began no later than the end, and
`EndedStaysUnconsumed` that without the finishes that read the clock before
their turn, an ended challenge is never consumed.

`UnitOfWork_proofs` proves mutual exclusion for any number of tasks, with bare
audits and without, from the shape of the chain (`QueueInv`): a resolved prefix,
one task that has its turn, and waiting tasks behind it. With `Held` (the store
is the running operation's snapshot and its own writes) this gives
`ImplementsSerialStore`: without bare audits, `SafeSpec` implements the safety
part of `SerialStore` under the mapping above. The assumption is needed: with
bare audits the store holds writes of tasks that are not running, and the
finding `bare_audit` is the consequence. Three properties hold with bare
audits and without: `ChainNeverJams` (while a task waits in the chain, some task
of it can take a step, so nobody waits for a promise that nobody will resolve;
this is the safety half of `EveryRunSettles`, stated without ENABLED by the
guards of the steps), `TurnsInOrder` (tasks are let in in the order in which they
replaced the tail of the chain) and `CommittedNeverLost` (committed data only
grows at its end: no later failure takes back what an operation wrote before it
returned, so that audit events of others are all a rollback can erase).

`CurrentAccount_proofs` proves all nine properties of the run `current_account`
for any users, sessions, targets, ids, number of calls in flight, cap of
markers, age limit, lifetimes and policy. The invariant `Inv` adds to the
checked ones what a call in flight stands for (`CallsSound`): between the check
of a marker and the challenge that is created there is only the call to remember
that its session authenticated in time. `MarkerLists` says that the list of a
session is ordered, newest first, which `NewestMarkersKept` alone does not and
the cut at its end relies on. The steps are reduced to what they do to each kind
of record (`ChallengeEffect`, `CallEffect`, `AccountEffect`, `MarkerEffect`),
and each conjunct is proved from the effects it depends on. The two action
properties follow from the same effects.

`LinkSignIn_proofs` proves the six properties of `link_sign_in` for any number
of calls, links, keys and users. Four of them must hold without transactions, so
the invariant has two layers. `Reliable` holds in every mode: the store is sound
and so is the snapshot (keys are unique, whoever has an identity has an active
one, sessions come of used-up links) and every call knows what its reads and
writes have made true that no other call can undo (`CallKnows`: a link keeps its
address and stays used up, a user that was created stays). `Transactional` is
what transactions add: `Progress` relates the store to the snapshot for each
place the running call may be at, so that with its last write the difference is
exactly one operation of `AtomicSignIn`; `UsedOnce` and `ReplacedEnded` are what
that operation's guards need, and `QueueTimes` that the resends in the queue are
ordered by their times. The steps are reduced to four effects on the control
state (a call goes on, leaves, waits or enters) and one relation on stores
(`Keeps`).

`AuditPages_proofs` proves the safety properties of `audit_pages` for any limit,
any ids and any clock. The invariant adds that the log
is finite and that the cursor is at or below every event the walk has shown
(`SeenAboveCursor`). What makes the cursor safe is that the order by time and id
is total on the log, and that an event that enters it has an id nobody had.
`WalkDescends` adds that every page is older than all the pages before it.

Only model-checked, and for good: `EveryRunSettles`, `WalkEnds` and the liveness
half of `SerialSpec`, since liveness under fairness is out of the prover's reach.
Everything else a passing run checks is proved, except that the finite instances
of the runs also show that the situations in question do occur.

The other way round, some theorems state what no run of `PROJECT.json` checks;
each was model-checked on the instance of its module before it was proved:
`NothingRevives` and the faithful keys of `Accounts`; `OnlyTightens`,
`ReplacementFollows` and `OnlyOlderFinishes` of `Challenges`; `NobodyStuck`,
`FirstComeFirstServed` and `CommittedKept` of `UnitOfWork`; `PagesDescend` of
`AuditPages`; `KeepsContract` of `CurrentAccount` and of `LinkSignIn`.
`EndedStaysUnconsumed` proves, without finishes that carry an earlier time, the
very property that the run `cancel_race` finds violated.

## Not modelled

* Secrets and hashing (cryptography), delivery (output after the commit, no
  state of its own), the service facade and its option checks (delegation),
  views and error wording, trimming and case folding of contacts.
* `touchSession` and `updateCurrentAccountProfileByToken`: nothing reads
  `lastSeenAt` or the display name back. `linkCurrentIdentityByToken` is `Link`
  of `Accounts` behind the checks that `UnlinkIdentity` of `CurrentAccount`
  shows.
* The counting of attempts, which is up to the adapter of the rate limiter: its
  refusal may come at any time.
* Merges, closures and passwords without a transaction. `LinkSignIn` covers
  sign-in and unlinking at that granularity; the other operations touch more
  records per call and would need a model of their own.
* Filters of audit queries other than the user and the two cursors, and the
  completeness of polling with the cursor `after`, which the code does not
  promise: an event may be appended with a time earlier than the newest.

The adapters of an application are outside the repository: everything here is
said of the in-memory store, or of an adapter that keeps the contract of
`SerialStore` and the uniqueness of keys.
