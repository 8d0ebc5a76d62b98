----------------------------- MODULE Challenges -----------------------------
(***************************************************************************)
(* One-time challenges (OTP codes, magic links, password-recovery links,   *)
(* contact-change and re-authentication codes): started, finished, resent, *)
(* cancelled, by calls that overlap.                                       *)
(*                                                                         *)
(* A call is several steps.  Most read the clock first, then await checks  *)
(* and the rate limiter outside any transaction, then wait for their turn  *)
(* in the store's queue, and act under the time they read at the start.    *)
(* The plain resends ask for their turn in the step that reads the clock;  *)
(* cancellations and raw consumption read the clock inside their turn.     *)
(***************************************************************************)
EXTENDS Naturals, Sequences, FiniteSets

CONSTANTS
  ChallengeId,  \* verification ids the generator hands out
  CallId,       \* slots for calls in flight; a slot is used again once its call ends
  Ops,          \* the operations callers use, out of AllOps
  Ttl,          \* verificationTtlSeconds
  Cooldown,     \* verificationResendCooldownSeconds
  MaxTime,      \* bound of the clock
  None

AllOps == {"start", "finish", "consume", "resend", "ownedResend", "cancel", "ownedCancel"}

ASSUME OpsKnown == Ops \subseteq AllOps
ASSUME TimesAreNatural == Ttl \in Nat /\ Cooldown \in Nat /\ MaxTime \in Nat
ASSUME NoneIsNoChallenge == None \notin ChallengeId

VARIABLES
  now,         \* runtime.clock.now()
  challenges,  \* the stored verifications, by id
  calls,       \* the calls in flight
  queue,       \* the calls waiting for UnitOfWork.run, first in first out
  cancelled    \* the VerificationCancelled audit events, by challenge

vars == <<now, challenges, calls, queue, cancelled>>

-----------------------------------------------------------------------------
Time == 0..MaxTime

\* replaces records which challenge a resend superseded with this one.
Challenge == [status : {"pending", "consumed"}, createdAt : Time, expiresAt : 0..(MaxTime + Ttl),
              consumedAt : Time \cup {None}, replaces : ChallengeId \cup {None}]

\* at is the captured time; ended says that the challenge was cancelled or
\* superseded already when the call began.
Call == [op : AllOps, id : ChallengeId \cup {None}, at : Time, stage : {"checking", "queued"},
         ended : BOOLEAN]

Put(f, k, v) == [x \in DOMAIN f \cup {k} |-> IF x = k THEN v ELSE f[x]]
Drop(f, k) == [x \in DOMAIN f \ {k} |-> f[x]]

Unused == ChallengeId \ DOMAIN challenges
Fresh == CHOOSE x \in Unused : TRUE

Superseded(x) == \E y \in DOMAIN challenges : challenges[y].replaces = x
Ended(x) == x \in cancelled \/ Superseded(x)

\* Faulty variant: a challenge is still good in the instant it expires.
ExpiredOnlyAfter(x, t) == challenges[x].expiresAt < t
isExpired(x, t) == challenges[x].expiresAt <= t
isUsable(x, t) == challenges[x].status = "pending" /\ ~isExpired(x, t)

\* toVerificationResendWindow.resendAllowed, in whole seconds.
ResendAllowed(x, t) == isUsable(x, t) /\ challenges[x].createdAt + Cooldown <= t

-----------------------------------------------------------------------------
\* Operations that ask for the transaction in the step in which they begin.
BeginsQueued == {"consume", "resend", "cancel"}

\* A call begins; the lookup before the checks has found the challenge.
Begin(c, op, id) ==
  /\ c \notin DOMAIN calls
  /\ IF op = "start" THEN id = None ELSE id \in DOMAIN challenges
  /\ LET stage == IF op \in BeginsQueued THEN "queued" ELSE "checking"
     IN  /\ calls' = Put(calls, c, [op |-> op, id |-> id, at |-> now, stage |-> stage,
                                    ended |-> id # None /\ Ended(id)])
         /\ queue' = IF stage = "queued" THEN Append(queue, c) ELSE queue
  /\ UNCHANGED <<now, challenges, cancelled>>

\* Faulty variant: a call that is queued already is queued again.
EnqueueAgain(c) ==
  /\ c \in DOMAIN calls
  /\ calls' = [calls EXCEPT ![c].stage = "queued"]
  /\ queue' = Append(queue, c)
  /\ UNCHANGED <<now, challenges, cancelled>>

\* The ownership checks and the rate limiter let the call through to the queue.
Enqueue(c) ==
  /\ c \in DOMAIN calls /\ calls[c].stage = "checking"
  /\ calls' = [calls EXCEPT ![c].stage = "queued"]
  /\ queue' = Append(queue, c)
  /\ UNCHANGED <<now, challenges, cancelled>>

\* They refuse it.
Refuse(c) ==
  /\ c \in DOMAIN calls /\ calls[c].stage = "checking"
  /\ calls' = Drop(calls, c)
  /\ UNCHANGED <<now, challenges, queue, cancelled>>

\* The time the call acts under when its turn comes.
ActsAt(c) == IF calls[c].op \in {"cancel", "consume"} THEN now ELSE calls[c].at

\* The turn of call c in the queue comes and goes.
TakesTurn(c, ops) ==
  /\ queue # << >> /\ Head(queue) = c /\ calls[c].op \in ops
  /\ queue' = Tail(queue)
  /\ calls' = Drop(calls, c)
  /\ UNCHANGED now

\* createVerificationRecord
Created(t, old) ==
  [status |-> "pending", createdAt |-> t, expiresAt |-> t + Ttl, consumedAt |-> None,
   replaces |-> old]

CommitStart(c) ==
  /\ TakesTurn(c, {"start"})
  /\ Unused # {}
  /\ challenges' = Put(challenges, Fresh, Created(ActsAt(c), None))
  /\ UNCHANGED cancelled

\* consumeVerificationRecord with the right secret, and the flow's own writes succeed.
CommitFinish(c) ==
  LET x == calls[c].id
  IN  /\ TakesTurn(c, {"finish", "consume"})
      /\ isUsable(x, ActsAt(c))
      /\ challenges' = [challenges EXCEPT ![x].status = "consumed", ![x].consumedAt = ActsAt(c)]
      /\ UNCHANGED cancelled

\* Faulty variant: the old challenge is left as it was.
ResendWithoutExpiry(c) ==
  LET x == calls[c].id
  IN  /\ TakesTurn(c, {"resend", "ownedResend"})
      /\ ResendAllowed(x, ActsAt(c))
      /\ Unused # {}
      /\ challenges' = Put(challenges, Fresh, Created(ActsAt(c), x))
      /\ UNCHANGED cancelled

\* The replacement is created and the old challenge expires at the resend's time.
CommitResend(c) ==
  LET x == calls[c].id
  IN  /\ TakesTurn(c, {"resend", "ownedResend"})
      /\ ResendAllowed(x, ActsAt(c))
      /\ Unused # {}
      /\ challenges' = Put([challenges EXCEPT ![x].expiresAt = ActsAt(c)],
                           Fresh, Created(ActsAt(c), x))
      /\ UNCHANGED cancelled

\* Faulty variant: a cancellation does not look at what it cancels.
CancelAnything(c) ==
  LET x == calls[c].id
  IN  /\ TakesTurn(c, {"cancel", "ownedCancel"})
      /\ challenges' = [challenges EXCEPT ![x].expiresAt = ActsAt(c)]
      /\ cancelled' = cancelled \cup {x}

\* cancelVerificationRecord of a challenge that is still usable.
CommitCancel(c) ==
  LET x == calls[c].id
  IN  /\ TakesTurn(c, {"cancel", "ownedCancel"})
      /\ isUsable(x, ActsAt(c))
      /\ challenges' = [challenges EXCEPT ![x].expiresAt = ActsAt(c)]
      /\ cancelled' = cancelled \cup {x}

\* The turn ends in an error and is rolled back (wrong secret, rate limit, a
\* failing sign-in), or a cancellation found nothing to cancel.
EndWithoutEffect(c) ==
  /\ TakesTurn(c, AllOps)
  /\ UNCHANGED <<challenges, cancelled>>

Tick ==
  /\ now < MaxTime
  /\ now' = now + 1
  /\ UNCHANGED <<challenges, calls, queue, cancelled>>

-----------------------------------------------------------------------------
Init ==
  /\ now = 0
  /\ challenges = << >> /\ calls = << >> /\ queue = << >>
  /\ cancelled = {}

Next ==
  \/ \E c \in CallId, op \in Ops, id \in ChallengeId \cup {None} : Begin(c, op, id)
  \/ \E c \in CallId : Enqueue(c)
  \/ \E c \in CallId : Refuse(c)
  \/ \E c \in CallId : CommitStart(c)
  \/ \E c \in CallId : CommitFinish(c)
  \/ \E c \in CallId : CommitResend(c)
  \/ \E c \in CallId : CommitCancel(c)
  \/ \E c \in CallId : EndWithoutEffect(c)
  \/ Tick

Spec == Init /\ [][Next]_vars

-----------------------------------------------------------------------------
\* Records of their types; the queue holds each queued call once.
TypeOK ==
  /\ now \in Time
  /\ DOMAIN challenges \subseteq ChallengeId
  /\ \A x \in DOMAIN challenges : challenges[x] \in Challenge
  /\ DOMAIN calls \subseteq CallId
  /\ \A c \in DOMAIN calls :
       calls[c] \in Call /\ (calls[c].id \in DOMAIN challenges \/ calls[c].op = "start")
  /\ queue \in Seq(CallId)
  /\ \A n \in 1..Len(queue) : queue[n] \in DOMAIN calls /\ calls[queue[n]].stage = "queued"
  /\ \A m, n \in 1..Len(queue) : queue[m] = queue[n] => m = n
  /\ cancelled \subseteq DOMAIN challenges

\* The stored record of a consumed challenge always reads as a consumption
\* before the expiry, although cancel and resend move the expiry back while
\* finish calls that act under an older time are still waiting.
ConsumedBeforeExpiry ==
  \A x \in DOMAIN challenges :
    challenges[x].status = "consumed" =>
      challenges[x].consumedAt \in Time /\ challenges[x].consumedAt < challenges[x].expiresAt

\* Cancelling or superseding a challenge takes it out of use at once: whoever
\* holds the older code cannot start to use it (together with OneReplacement,
\* one code of a start is usable at a time).
EndedIsUnusable ==
  \A x \in DOMAIN challenges : Ended(x) => ~isUsable(x, now)

\* However many resends of a challenge are in flight, one replaces it
\* ("allows only one concurrent resend replacement for the same OTP challenge").
OneReplacement ==
  \A x, y \in DOMAIN challenges :
    challenges[x].replaces = challenges[y].replaces /\ challenges[x].replaces # None => x = y

\* The lifetimes of a challenge and of what replaces it do not overlap, on the
\* records, and lie a cooldown apart at their beginnings, although the resends
\* in flight act under times of their own and not in the order of these
\* (verifications.ts, toVerificationResendWindow).
ReplacementFollows ==
  \A x, y \in DOMAIN challenges :
    challenges[y].replaces = x =>
      /\ challenges[x].createdAt + Cooldown <= challenges[y].createdAt
      /\ challenges[x].expiresAt <= challenges[y].createdAt

-----------------------------------------------------------------------------
\* A stored challenge only ever tightens: it is consumed once and then frozen,
\* its expiry is never put off, its creation and ancestry never change.
Tightens ==
  \A x \in DOMAIN challenges :
    /\ x \in DOMAIN challenges'
    /\ challenges[x].status = "consumed" => challenges'[x] = challenges[x]
    /\ challenges'[x].expiresAt <= challenges[x].expiresAt
    /\ challenges'[x].createdAt = challenges[x].createdAt
    /\ challenges'[x].replaces = challenges[x].replaces
OnlyTightens == [][Tightens]_vars

Consumes(x) == challenges[x].status = "pending" /\ challenges'[x].status = "consumed"

\* A finish that begins after the challenge was cancelled or superseded never
\* consumes it, not even within the same instant.
LateFinishFails ==
  [][\A x \in DOMAIN challenges :
       Consumes(x) => ~calls[Head(queue)].ended]_vars

\* A challenge whose cancellation or replacement has been committed is not
\* consumed after that ("the previously active verification becomes unusable
\* for later finish attempts"; "cancelled verifications should fall back to
\* the existing expired path for later finish/resend attempts").
EndedNeverConsumed ==
  [][\A x \in DOMAIN challenges : Ended(x) => ~Consumes(x)]_vars

\* How far EndedNeverConsumed can fail: what consumes an ended challenge is a
\* finish that read its time, at which the challenge was good, before the end was
\* committed, and has waited since (otp.ts, magic-link.ts, passwords/recovery.ts:
\* a finish reads the clock before it asks for the transaction).
OnlyOlderFinishes ==
  [][\A x \in DOMAIN challenges :
       Ended(x) /\ Consumes(x) =>
         LET call == calls[Head(queue)]
         IN  call.op = "finish" /\ ~call.ended /\ call.at < challenges[x].expiresAt]_vars

-----------------------------------------------------------------------------
\* The stored challenges without their flows: what the contract is about.
Lifetimes ==
  [x \in DOMAIN challenges |->
     [status |-> challenges[x].status, createdAt |-> challenges[x].createdAt,
      expiresAt |-> challenges[x].expiresAt, replaces |-> challenges[x].replaces]]
Contract == INSTANCE Verifications WITH Id <- ChallengeId, records <- Lifetimes

\* However calls overlap, and whatever times they carry to their turn, the stored
\* challenges change by one step of the contract at a time, at a time not after
\* now (verifications.ts, otp.ts, magic-link.ts, passwords/recovery.ts).
KeepsContract == Contract!Spec
=============================================================================
