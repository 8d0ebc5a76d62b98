-------------------------- MODULE Challenges_proofs --------------------------
(***************************************************************************)
(* Proofs about Challenges, for any sets of ids and calls, any lifetimes   *)
(* and any bound of the clock.                                             *)
(*                                                                         *)
(* Every step has one kind of effect on the stored challenges (Effect): at *)
(* a time t, not after now, that the acting call carries, a challenge that *)
(* was usable at t is consumed or expires at t, or a new one is created.   *)
(* The invariants are proved from this effect.                             *)
(***************************************************************************)
EXTENDS Challenges, SequenceTheorems, TLAPS

\* No call acts under a time that has not come.
PastTimes == \A c \in DOMAIN calls : calls[c].at <= now

\* A replacement replaces a stored challenge.
Ancestry ==
  \A x \in DOMAIN challenges : challenges[x].replaces \in DOMAIN challenges \cup {None}

\* A call that began after the end of its challenge finds it unusable.
EndedSeen ==
  \A c \in DOMAIN calls :
    calls[c].ended => /\ calls[c].id \in DOMAIN challenges
                      /\ ~isUsable(calls[c].id, calls[c].at)

Inv ==
  /\ TypeOK /\ PastTimes /\ Ancestry
  /\ ConsumedBeforeExpiry /\ EndedIsUnusable /\ EndedSeen

-----------------------------------------------------------------------------
\* The call whose turn it is acts on challenge x at time t.
ActsOn(ops, x, t) ==
  \E c \in CallId : TakesTurn(c, ops) /\ x = calls[c].id /\ t = ActsAt(c)

ConsumedAt(x, t) ==
  /\ isUsable(x, t)
  /\ ActsOn({"finish", "consume"}, x, t)
  /\ challenges'[x] = [challenges[x] EXCEPT !.status = "consumed", !.consumedAt = t]

ExpiredAt(x, t) ==
  /\ isUsable(x, t)
  /\ challenges'[x] = [challenges[x] EXCEPT !.expiresAt = t]

CreatedAt(y, t) ==
  /\ y \in ChallengeId
  /\ \E old \in DOMAIN challenges \cup {None} :
       /\ challenges'[y] = Created(t, old)
       /\ old # None => /\ ExpiredAt(old, t) /\ challenges[old].createdAt + Cooldown <= t
                        /\ ActsOn({"resend", "ownedResend"}, old, t)

Effect(t) ==
  /\ DOMAIN challenges \subseteq DOMAIN challenges'
  /\ \A x \in DOMAIN challenges :
       challenges'[x] = challenges[x] \/ ConsumedAt(x, t) \/ ExpiredAt(x, t)
  /\ \A y \in DOMAIN challenges' \ DOMAIN challenges : CreatedAt(y, t)
  /\ \A y, z \in DOMAIN challenges' \ DOMAIN challenges : y = z
  /\ cancelled \subseteq cancelled'
  /\ \A x \in cancelled' \ cancelled : x \in DOMAIN challenges /\ ExpiredAt(x, t)

\* What a turn in the queue does to calls and queue.
LEMMA TurnStep ==
  ASSUME TypeOK, PastTimes, NEW c, NEW ops, TakesTurn(c, ops)
  PROVE  /\ c \in DOMAIN calls /\ c \in CallId /\ calls[c].op \in ops
         /\ calls[c].op # "start" => calls[c].id \in DOMAIN challenges
         /\ ActsAt(c) \in Time /\ ActsAt(c) <= now
         /\ DOMAIN calls' = DOMAIN calls \ {c}
         /\ \A d \in DOMAIN calls' : calls'[d] = calls[d]
         /\ queue' \in Seq(CallId) /\ Len(queue') = Len(queue) - 1
         /\ \A n \in 1..Len(queue') : n + 1 \in 1..Len(queue) /\ queue'[n] = queue[n + 1]
         /\ queue # << >> /\ 1 \in 1..Len(queue) /\ queue[1] = c
<1> USE DEF TypeOK, TakesTurn
<1>1. /\ queue # << >> /\ 1 \in 1..Len(queue) /\ queue[1] = c
  BY EmptySeq
<1>2. c \in DOMAIN calls /\ c \in CallId /\ calls[c].op \in ops
  BY <1>1
<1>3. calls[c].op # "start" => calls[c].id \in DOMAIN challenges
  BY <1>2
<1>4. ActsAt(c) \in Time /\ ActsAt(c) <= now
  BY <1>2, TimesAreNatural DEF ActsAt, PastTimes, Call, Time
<1>5. DOMAIN calls' = DOMAIN calls \ {c} /\ \A d \in DOMAIN calls' : calls'[d] = calls[d]
  BY DEF Drop
<1>6. /\ queue' \in Seq(CallId) /\ Len(queue') = Len(queue) - 1
      /\ \A n \in 1..Len(queue') : queue'[n] = queue[n + 1]
  BY <1>1, HeadTailProperties
<1>7. \A n \in 1..Len(queue') : n + 1 \in 1..Len(queue)
  BY <1>6
<1> QED
  BY <1>1, <1>2, <1>3, <1>4, <1>5, <1>6, <1>7

LEMMA FreshIsUnused ==
  ASSUME Unused # {}
  PROVE  Fresh \in ChallengeId /\ Fresh \notin DOMAIN challenges
BY DEF Fresh, Unused

\* The effect of every step on the challenges.
LEMMA StepEffect ==
  ASSUME TypeOK, PastTimes, [Next]_vars
  PROVE  \E t \in Time : t <= now /\ Effect(t)
<1>1. now \in Time /\ now <= now
  BY DEF TypeOK, Time
<1>2. CASE UNCHANGED <<challenges, cancelled>>
  BY <1>1, <1>2 DEF Effect
<1>3. ASSUME NEW c \in CallId, CommitStart(c)
      PROVE  ActsAt(c) \in Time /\ ActsAt(c) <= now /\ Effect(ActsAt(c))
  <2>1. ActsAt(c) \in Time /\ ActsAt(c) <= now
    BY <1>3, TurnStep DEF CommitStart
  <2>2. Fresh \in ChallengeId /\ Fresh \notin DOMAIN challenges
    BY <1>3, FreshIsUnused DEF CommitStart
  <2>3. /\ DOMAIN challenges' = DOMAIN challenges \cup {Fresh}
        /\ \A x \in DOMAIN challenges : challenges'[x] = challenges[x]
        /\ challenges'[Fresh] = Created(ActsAt(c), None)
    BY <1>3, <2>2 DEF CommitStart, Put
  <2>4. CreatedAt(Fresh, ActsAt(c))
    BY <2>2, <2>3 DEF CreatedAt
  <2> QED
    BY <1>3, <2>1, <2>3, <2>4 DEF Effect, CommitStart
<1>4. ASSUME NEW c \in CallId, CommitFinish(c)
      PROVE  ActsAt(c) \in Time /\ ActsAt(c) <= now /\ Effect(ActsAt(c))
  <2>1. /\ ActsAt(c) \in Time /\ ActsAt(c) <= now
        /\ calls[c].id \in DOMAIN challenges
    <3>1. TakesTurn(c, {"finish", "consume"})
      BY <1>4 DEF CommitFinish
    <3>2. calls[c].op \in {"finish", "consume"}
      BY <3>1, TurnStep
    <3> QED
      BY <3>1, <3>2, TurnStep
  <2>2. /\ DOMAIN challenges' = DOMAIN challenges
        /\ \A x \in DOMAIN challenges : x # calls[c].id => challenges'[x] = challenges[x]
        /\ challenges'[calls[c].id] =
             [challenges[calls[c].id] EXCEPT !.status = "consumed", !.consumedAt = ActsAt(c)]
    BY <1>4, <2>1 DEF CommitFinish
  <2>3. ConsumedAt(calls[c].id, ActsAt(c))
    BY <1>4, <2>2 DEF CommitFinish, ConsumedAt, ActsOn
  <2> QED
    BY <1>4, <2>1, <2>2, <2>3 DEF Effect, CommitFinish
<1>5. ASSUME NEW c \in CallId, CommitResend(c)
      PROVE  ActsAt(c) \in Time /\ ActsAt(c) <= now /\ Effect(ActsAt(c))
  <2>1. /\ ActsAt(c) \in Time /\ ActsAt(c) <= now
        /\ calls[c].id \in DOMAIN challenges
    <3>1. TakesTurn(c, {"resend", "ownedResend"})
      BY <1>5 DEF CommitResend
    <3>2. calls[c].op \in {"resend", "ownedResend"}
      BY <3>1, TurnStep
    <3> QED
      BY <3>1, <3>2, TurnStep
  <2>2. Fresh \in ChallengeId /\ Fresh \notin DOMAIN challenges
    BY <1>5, FreshIsUnused DEF CommitResend
  <2>3. /\ DOMAIN challenges' = DOMAIN challenges \cup {Fresh}
        /\ \A x \in DOMAIN challenges : x # calls[c].id => challenges'[x] = challenges[x]
        /\ challenges'[calls[c].id] = [challenges[calls[c].id] EXCEPT !.expiresAt = ActsAt(c)]
        /\ challenges'[Fresh] = Created(ActsAt(c), calls[c].id)
    BY <1>5, <2>1, <2>2 DEF CommitResend, Put
  <2>4. ExpiredAt(calls[c].id, ActsAt(c))
    BY <1>5, <2>3 DEF CommitResend, ResendAllowed, ExpiredAt
  <2>5. CreatedAt(Fresh, ActsAt(c))
    BY <1>5, <2>1, <2>2, <2>3, <2>4 DEF CreatedAt, CommitResend, ResendAllowed, ActsOn
  <2> QED
    BY <1>5, <2>1, <2>3, <2>4, <2>5 DEF Effect, CommitResend
<1>6. ASSUME NEW c \in CallId, CommitCancel(c)
      PROVE  ActsAt(c) \in Time /\ ActsAt(c) <= now /\ Effect(ActsAt(c))
  <2>1. /\ ActsAt(c) \in Time /\ ActsAt(c) <= now
        /\ calls[c].id \in DOMAIN challenges
    <3>1. TakesTurn(c, {"cancel", "ownedCancel"})
      BY <1>6 DEF CommitCancel
    <3>2. calls[c].op \in {"cancel", "ownedCancel"}
      BY <3>1, TurnStep
    <3> QED
      BY <3>1, <3>2, TurnStep
  <2>2. /\ DOMAIN challenges' = DOMAIN challenges
        /\ \A x \in DOMAIN challenges : x # calls[c].id => challenges'[x] = challenges[x]
        /\ challenges'[calls[c].id] = [challenges[calls[c].id] EXCEPT !.expiresAt = ActsAt(c)]
    BY <1>6, <2>1 DEF CommitCancel
  <2>3. ExpiredAt(calls[c].id, ActsAt(c))
    BY <1>6, <2>2 DEF CommitCancel, ExpiredAt
  <2> QED
    BY <1>6, <2>1, <2>2, <2>3 DEF Effect, CommitCancel
<1> QED
  BY <1>2, <1>3, <1>4, <1>5, <1>6
  DEF Next, vars, Begin, Enqueue, Refuse, EndWithoutEffect, Tick

-----------------------------------------------------------------------------
\* What follows from the effect: types, and that challenges only tighten.
LEMMA EffectTypes ==
  ASSUME TypeOK, NEW t \in Time, Effect(t)
  PROVE  /\ DOMAIN challenges' \subseteq ChallengeId
         /\ \A x \in DOMAIN challenges' : challenges'[x] \in Challenge
         /\ cancelled' \subseteq DOMAIN challenges'
<1> USE DEF TypeOK, Effect
<1>1. DOMAIN challenges' \subseteq ChallengeId
  BY DEF CreatedAt
<1>2. ASSUME NEW x \in DOMAIN challenges
      PROVE  challenges'[x] \in Challenge
  <2>1. t \in 0..(MaxTime + Ttl)
    BY TimesAreNatural DEF Time
  <2>2. CASE ConsumedAt(x, t)
    BY <2>2 DEF ConsumedAt, Challenge
  <2>3. CASE ExpiredAt(x, t)
    BY <2>1, <2>3 DEF ExpiredAt, Challenge
  <2> QED
    BY <2>2, <2>3
<1>3. ASSUME NEW y \in DOMAIN challenges' \ DOMAIN challenges
      PROVE  challenges'[y] \in Challenge
  <2>1. t + Ttl \in 0..(MaxTime + Ttl)
    BY TimesAreNatural DEF Time
  <2>2. PICK old \in ChallengeId \cup {None} : challenges'[y] = Created(t, old)
    BY DEF CreatedAt
  <2> QED
    BY <2>1, <2>2 DEF Created, Challenge
<1> QED
  BY <1>1, <1>2, <1>3

LEMMA EffectTightens ==
  ASSUME TypeOK, NEW t \in Time, Effect(t)
  PROVE  Tightens
<1> SUFFICES ASSUME NEW x \in DOMAIN challenges
             PROVE  /\ x \in DOMAIN challenges'
                    /\ challenges[x].status = "consumed" => challenges'[x] = challenges[x]
                    /\ challenges'[x].expiresAt <= challenges[x].expiresAt
                    /\ challenges'[x].createdAt = challenges[x].createdAt
                    /\ challenges'[x].replaces = challenges[x].replaces
  BY DEF Tightens
<1>1. x \in DOMAIN challenges' /\ challenges[x] \in Challenge
  BY DEF Effect, TypeOK
<1>2. challenges[x].expiresAt \in Nat /\ t \in Nat
  BY <1>1, TimesAreNatural DEF Challenge, Time
<1>3. CASE challenges'[x] = challenges[x]
  BY <1>1, <1>2, <1>3
<1>4. CASE ConsumedAt(x, t)
  BY <1>1, <1>2, <1>4 DEF ConsumedAt, isUsable, Challenge
<1>5. CASE ExpiredAt(x, t)
  BY <1>1, <1>2, <1>5 DEF ExpiredAt, isUsable, isExpired, Challenge
<1> QED
  BY <1>3, <1>4, <1>5 DEF Effect

\* What was unusable at a time stays so at that time and later.
LEMMA StaysUnusable ==
  ASSUME TypeOK, NEW t \in Time, Effect(t), NEW x \in DOMAIN challenges,
         NEW u \in Time, NEW w \in Time, u <= w, ~isUsable(x, u)
  PROVE  ~(challenges'[x].status = "pending" /\ ~(challenges'[x].expiresAt <= w))
<1>1. Tightens
  BY EffectTightens
<1>2. challenges[x] \in Challenge /\ challenges'[x] \in Challenge
  BY EffectTypes DEF TypeOK, Effect
<1>3. /\ challenges[x].expiresAt \in Nat /\ challenges'[x].expiresAt \in Nat
      /\ u \in Nat /\ w \in Nat
      /\ challenges[x].status \in {"pending", "consumed"}
  BY <1>2, TimesAreNatural DEF Challenge, Time
<1> QED
  BY <1>1, <1>3 DEF Tightens, isUsable, isExpired

LEMMA ConsumedStep ==
  ASSUME TypeOK, ConsumedBeforeExpiry, NEW t \in Time, Effect(t)
  PROVE  ConsumedBeforeExpiry'
<1> SUFFICES ASSUME NEW x \in DOMAIN challenges', challenges'[x].status = "consumed"
             PROVE  /\ challenges'[x].consumedAt \in Time
                    /\ challenges'[x].consumedAt < challenges'[x].expiresAt
  BY DEF ConsumedBeforeExpiry
<1>1. CASE x \notin DOMAIN challenges
  BY <1>1 DEF Effect, CreatedAt, Created
<1>2. CASE x \in DOMAIN challenges
  <2>1. challenges[x] \in Challenge
    BY <1>2 DEF TypeOK
  <2>2. challenges[x].expiresAt \in Nat /\ t \in Nat
    BY <2>1, TimesAreNatural DEF Challenge, Time
  <2>3. CASE challenges'[x] = challenges[x]
    BY <1>2, <2>3 DEF ConsumedBeforeExpiry
  <2>4. CASE ConsumedAt(x, t)
    BY <2>1, <2>2, <2>4 DEF ConsumedAt, isUsable, isExpired, Challenge
  <2>5. CASE ExpiredAt(x, t)
    BY <2>1, <2>5 DEF ExpiredAt, isUsable, Challenge
  <2> QED
    BY <1>2, <2>3, <2>4, <2>5 DEF Effect
<1> QED
  BY <1>1, <1>2

LEMMA AncestryStep ==
  ASSUME TypeOK, Ancestry, NEW t \in Time, Effect(t)
  PROVE  Ancestry'
<1> SUFFICES ASSUME NEW x \in DOMAIN challenges'
             PROVE  challenges'[x].replaces \in DOMAIN challenges' \cup {None}
  BY DEF Ancestry
<1>1. CASE x \in DOMAIN challenges
  BY <1>1, EffectTightens DEF Tightens, Ancestry, Effect
<1>2. CASE x \notin DOMAIN challenges
  BY <1>2 DEF Effect, CreatedAt, Created
<1> QED
  BY <1>1, <1>2

\* The end of a challenge is an expiry at a time that is not after now.
LEMMA EndedStep ==
  ASSUME TypeOK, Ancestry, EndedIsUnusable, now' \in Time, now <= now',
         NEW t \in Time, t <= now, Effect(t)
  PROVE  EndedIsUnusable'
<1> SUFFICES ASSUME NEW x \in DOMAIN challenges', Ended(x)'
             PROVE  ~(challenges'[x].status = "pending" /\ ~(challenges'[x].expiresAt <= now'))
  BY DEF EndedIsUnusable, isUsable, isExpired
<1>1. now \in Time /\ x # None
  BY EffectTypes, NoneIsNoChallenge DEF TypeOK
<1>2. CASE x \in DOMAIN challenges /\ Ended(x)
  <2>1. ~isUsable(x, now)
    BY <1>2 DEF EndedIsUnusable
  <2> QED
    BY <1>1, <1>2, <2>1, StaysUnusable
<1>3. CASE x \in DOMAIN challenges /\ ExpiredAt(x, t)
  <2>1. challenges[x] \in Challenge /\ t \in Nat /\ now \in Nat /\ now' \in Nat
    BY <1>1, <1>3, TimesAreNatural DEF TypeOK, Time
  <2> QED
    BY <1>3, <2>1 DEF ExpiredAt, Challenge
<1>4. CASE x \in cancelled'
  BY <1>2, <1>3, <1>4 DEF Ended, Effect, TypeOK
<1>5. CASE Superseded(x)'
  <2>1. PICK y \in DOMAIN challenges' : challenges'[y].replaces = x
    BY <1>5 DEF Superseded
  <2>2. CASE y \in DOMAIN challenges
    <3>1. challenges[y].replaces = x
      BY <2>1, <2>2, EffectTightens DEF Tightens
    <3> QED
      BY <1>1, <1>2, <2>2, <3>1 DEF Ancestry, Ended, Superseded
  <2>3. CASE y \notin DOMAIN challenges
    BY <1>1, <1>3, <2>1, <2>3 DEF Effect, CreatedAt, Created
  <2> QED
    BY <2>2, <2>3
<1> QED
  BY <1>4, <1>5 DEF Ended

-----------------------------------------------------------------------------
\* A call in flight keeps its operation, challenge and time; one that begins
\* takes them from the state in which it begins.
Begun(c) ==
  /\ calls'[c].op \in Ops
  /\ calls'[c].id \in DOMAIN challenges \/ calls'[c].op = "start"
  /\ calls'[c].at = now
  /\ calls'[c].ended => calls'[c].id \in DOMAIN challenges /\ Ended(calls'[c].id)

SameCall(c) ==
  /\ c \in DOMAIN calls
  /\ calls'[c].op = calls[c].op
  /\ calls'[c].id = calls[c].id
  /\ calls'[c].at = calls[c].at
  /\ calls'[c].ended = calls[c].ended

Waiting ==
  /\ queue \in Seq(CallId)
  /\ \A n \in 1..Len(queue) : queue[n] \in DOMAIN calls /\ calls[queue[n]].stage = "queued"
  /\ \A m, n \in 1..Len(queue) : queue[m] = queue[n] => m = n

\* What a step may do to the calls in flight and to the queue.
CallEffect ==
  /\ DOMAIN calls' \subseteq CallId
  /\ \A c \in DOMAIN calls' : calls'[c] \in Call /\ (Begun(c) \/ SameCall(c))
  /\ Waiting'

\* A call that was not queued goes to the end of the queue.
LEMMA QueueUp ==
  ASSUME TypeOK, NEW c \in CallId, \A n \in 1..Len(queue) : queue[n] # c,
         c \in DOMAIN calls', calls'[c].stage = "queued",
         DOMAIN calls \subseteq DOMAIN calls',
         \A d \in DOMAIN calls : d # c => calls'[d] = calls[d],
         queue' = Append(queue, c)
  PROVE  Waiting'
<1>1. /\ queue' \in Seq(CallId) /\ Len(queue') = Len(queue) + 1 /\ Len(queue) \in Nat
      /\ \A n \in 1..Len(queue) : queue'[n] = queue[n]
      /\ queue'[Len(queue) + 1] = c
  BY AppendProperties DEF TypeOK
<1>2. \A n \in 1..Len(queue') : n \in 1..Len(queue) \/ n = Len(queue) + 1
  BY <1>1
<1>3. \A n \in 1..Len(queue') : queue'[n] \in DOMAIN calls' /\ calls'[queue'[n]].stage = "queued"
  BY <1>1, <1>2 DEF TypeOK
<1>4. \A m, n \in 1..Len(queue') : queue'[m] = queue'[n] => m = n
  BY <1>1, <1>2 DEF TypeOK
<1> QED
  BY <1>1, <1>3, <1>4 DEF Waiting

\* A turn leaves the other calls as they were.
LEMMA TurnCalls ==
  ASSUME TypeOK, PastTimes, NEW c, NEW ops, TakesTurn(c, ops)
  PROVE  CallEffect
<1>1. /\ DOMAIN calls' = DOMAIN calls \ {c}
      /\ \A d \in DOMAIN calls' : calls'[d] = calls[d]
      /\ queue' \in Seq(CallId) /\ Len(queue') = Len(queue) - 1
      /\ \A n \in 1..Len(queue') : n + 1 \in 1..Len(queue) /\ queue'[n] = queue[n + 1]
      /\ 1 \in 1..Len(queue) /\ queue[1] = c
  BY TurnStep
<1>2. \A d \in DOMAIN calls' : d \in CallId /\ calls'[d] \in Call /\ SameCall(d)
  BY <1>1 DEF TypeOK, SameCall
<1>3. \A n \in 1..Len(queue') : queue'[n] \in DOMAIN calls' /\ calls'[queue'[n]].stage = "queued"
  <2> SUFFICES ASSUME NEW n \in 1..Len(queue')
               PROVE  queue'[n] \in DOMAIN calls' /\ calls'[queue'[n]].stage = "queued"
    OBVIOUS
  <2>1. queue[n + 1] # c
    BY <1>1 DEF TypeOK
  <2> QED
    BY <1>1, <2>1 DEF TypeOK
<1>4. \A m, n \in 1..Len(queue') : queue'[m] = queue'[n] => m = n
  BY <1>1 DEF TypeOK
<1> QED
  BY <1>1, <1>2, <1>3, <1>4 DEF CallEffect, Waiting

LEMMA StepCalls ==
  ASSUME TypeOK, PastTimes, [Next]_vars
  PROVE  CallEffect
<1>1. CASE UNCHANGED <<calls, queue>>
  BY <1>1 DEF CallEffect, SameCall, Waiting, TypeOK
<1>2. ASSUME NEW c \in CallId, NEW op \in Ops, NEW id \in ChallengeId \cup {None},
             Begin(c, op, id)
      PROVE  CallEffect
  <2> DEFINE stage == IF op \in BeginsQueued THEN "queued" ELSE "checking"
  <2>1. /\ DOMAIN calls' = DOMAIN calls \cup {c} /\ c \notin DOMAIN calls
        /\ calls'[c] = [op |-> op, id |-> id, at |-> now, stage |-> stage,
                        ended |-> id # None /\ Ended(id)]
        /\ \A d \in DOMAIN calls : calls'[d] = calls[d]
        /\ queue' = IF stage = "queued" THEN Append(queue, c) ELSE queue
    BY <1>2 DEF Begin, Put
  <2>2. (id # None /\ Ended(id)) \in BOOLEAN
    BY DEF Ended, Superseded
  <2>3. calls'[c] \in Call
    BY <2>1, <2>2, OpsKnown DEF Call, TypeOK
  <2>4. Begun(c)
    <3> DEFINE end == id # None /\ Ended(id)
    <3>1. IF op = "start" THEN id = None ELSE id \in DOMAIN challenges
      BY <1>2 DEF Begin
    <3>2. end => id \in DOMAIN challenges /\ Ended(id)
      BY <3>1
    <3> HIDE DEF end
    <3>3. /\ calls'[c].op = op /\ calls'[c].id = id /\ calls'[c].at = now
          /\ calls'[c].ended = end
      BY <2>1 DEF end
    <3> QED
      BY <3>1, <3>2, <3>3 DEF Begun
  <2>5. \A d \in DOMAIN calls : calls'[d] \in Call /\ SameCall(d)
    BY <2>1 DEF SameCall, TypeOK
  <2>6. \A n \in 1..Len(queue) : queue[n] # c
    BY <2>1 DEF TypeOK
  <2>7. Waiting'
    <3>1. CASE stage = "queued"
      BY <2>1, <2>6, <3>1, QueueUp
    <3>2. CASE stage # "queued"
      BY <2>1, <3>2 DEF Waiting, TypeOK
    <3> QED
      BY <3>1, <3>2
  <2> QED
    BY <2>1, <2>3, <2>4, <2>5, <2>7 DEF CallEffect, TypeOK
<1>3. ASSUME NEW c \in CallId, Enqueue(c)
      PROVE  CallEffect
  <2>1. /\ DOMAIN calls' = DOMAIN calls /\ c \in DOMAIN calls
        /\ calls'[c] = [calls[c] EXCEPT !.stage = "queued"]
        /\ \A d \in DOMAIN calls : d # c => calls'[d] = calls[d]
        /\ calls[c] \in Call
    BY <1>3 DEF Enqueue, TypeOK
  <2>2. calls'[c] \in Call /\ SameCall(c) /\ calls'[c].stage = "queued"
    BY <2>1 DEF Call, SameCall
  <2>3. \A d \in DOMAIN calls : d # c => calls'[d] \in Call /\ SameCall(d)
    BY <2>1 DEF SameCall, TypeOK
  <2>4. \A n \in 1..Len(queue) : queue[n] # c
    BY <1>3 DEF Enqueue, TypeOK
  <2>5. Waiting'
    BY <1>3, <2>1, <2>2, <2>4, QueueUp DEF Enqueue
  <2> QED
    BY <2>1, <2>2, <2>3, <2>5 DEF CallEffect, TypeOK
<1>4. ASSUME NEW c \in CallId, Refuse(c)
      PROVE  CallEffect
  <2>1. /\ DOMAIN calls' = DOMAIN calls \ {c}
        /\ \A d \in DOMAIN calls' : calls'[d] = calls[d]
        /\ queue' = queue
    BY <1>4 DEF Refuse, Drop
  <2>2. \A n \in 1..Len(queue) : queue[n] # c
    BY <1>4 DEF Refuse, TypeOK
  <2> QED
    BY <2>1, <2>2 DEF CallEffect, SameCall, Waiting, TypeOK
<1>5. ASSUME NEW c \in CallId, NEW ops, TakesTurn(c, ops)
      PROVE  CallEffect
  BY <1>5, TurnCalls
<1> QED
  BY <1>1, <1>2, <1>3, <1>4, <1>5
  DEF Next, vars, CommitStart, CommitFinish, CommitResend, CommitCancel, EndWithoutEffect, Tick

-----------------------------------------------------------------------------
LEMMA StepClock ==
  ASSUME TypeOK, [Next]_vars
  PROVE  now' \in Time /\ now <= now' /\ now \in Nat
<1>1. now \in 0..MaxTime
  BY DEF TypeOK, Time
<1>2. now' = now \/ (now < MaxTime /\ now' = now + 1)
  BY DEF Next, vars, Begin, Enqueue, Refuse, TakesTurn, CommitStart, CommitFinish,
     CommitResend, CommitCancel, EndWithoutEffect, Tick
<1> QED
  BY <1>1, <1>2, TimesAreNatural DEF Time

LEMMA InitInv == Init => Inv
<1> SUFFICES ASSUME Init PROVE Inv
  OBVIOUS
<1>1. /\ now \in Time /\ DOMAIN challenges = {} /\ DOMAIN calls = {}
      /\ cancelled = {} /\ queue \in Seq(CallId) /\ Len(queue) = 0
  BY TimesAreNatural DEF Init, Time
<1> QED
  BY <1>1 DEF Inv, TypeOK, PastTimes, Ancestry, ConsumedBeforeExpiry, EndedIsUnusable, EndedSeen

LEMMA InvStep ==
  ASSUME Inv, [Next]_vars
  PROVE  Inv'
<1> USE DEF Inv
<1>1. PICK t \in Time : t <= now /\ Effect(t)
  BY StepEffect
<1>2. CallEffect
  BY StepCalls
<1>3. now' \in Time /\ now <= now' /\ now \in Time /\ now \in Nat
  BY StepClock DEF TypeOK
<1>4. TypeOK'
  <2>1. /\ DOMAIN challenges' \subseteq ChallengeId
        /\ \A x \in DOMAIN challenges' : challenges'[x] \in Challenge
        /\ cancelled' \subseteq DOMAIN challenges'
    BY <1>1, EffectTypes
  <2>2. \A c \in DOMAIN calls' : calls'[c].id \in DOMAIN challenges' \/ calls'[c].op = "start"
    BY <1>1, <1>2 DEF CallEffect, Begun, SameCall, TypeOK, Effect
  <2> QED
    BY <1>2, <1>3, <2>1, <2>2 DEF CallEffect, Waiting, TypeOK
<1>5. PastTimes'
  <2> SUFFICES ASSUME NEW c \in DOMAIN calls'
               PROVE  calls'[c].at <= now'
    BY DEF PastTimes
  <2>1. CASE Begun(c)
    BY <1>3, <2>1 DEF Begun
  <2>2. CASE SameCall(c)
    BY <1>3, <2>2 DEF SameCall, PastTimes, TypeOK, Call, Time
  <2> QED
    BY <1>2, <2>1, <2>2 DEF CallEffect
<1>6. Ancestry'
  BY <1>1, AncestryStep
<1>7. ConsumedBeforeExpiry'
  BY <1>1, ConsumedStep
<1>8. EndedIsUnusable'
  BY <1>1, <1>3, EndedStep
<1>9. EndedSeen'
  <2> SUFFICES ASSUME NEW c \in DOMAIN calls', calls'[c].ended
               PROVE  /\ calls'[c].id \in DOMAIN challenges'
                      /\ ~(/\ challenges'[calls'[c].id].status = "pending"
                           /\ ~(challenges'[calls'[c].id].expiresAt <= calls'[c].at))
    BY DEF EndedSeen, isUsable, isExpired
  <2>1. /\ calls'[c].id \in DOMAIN challenges
        /\ ~isUsable(calls'[c].id, calls'[c].at)
        /\ calls'[c].at \in Time /\ calls'[c].at <= calls'[c].at
    <3>1. CASE Begun(c)
      BY <1>3, <3>1 DEF Begun, EndedIsUnusable
    <3>2. CASE SameCall(c)
      BY <3>2 DEF SameCall, EndedSeen, TypeOK, Call, Time
    <3> QED
      BY <1>2, <3>1, <3>2 DEF CallEffect
  <2> QED
    BY <1>1, <2>1, StaysUnusable DEF Effect
<1> QED
  BY <1>4, <1>5, <1>6, <1>7, <1>8, <1>9

LEMMA InvAlways == Spec => []Inv
<1>1. Inv /\ [Next]_vars => Inv'
  BY InvStep
<1> QED
  BY <1>1, InitInv, PTL DEF Spec

\* Type correctness of challenges, calls in flight and the queue.
THEOREM TypeCorrect == Spec => []TypeOK
<1>1. Inv => TypeOK
  BY DEF Inv
<1> QED
  BY <1>1, InvAlways, PTL

\* The record of a consumed challenge reads as a consumption before its
\* expiry, whatever calls move the expiry meanwhile (verifications.ts).
THEOREM ConsumptionPrecedesExpiry == Spec => []ConsumedBeforeExpiry
<1>1. Inv => ConsumedBeforeExpiry
  BY DEF Inv
<1> QED
  BY <1>1, InvAlways, PTL

\* A cancelled or replaced challenge is out of use from then on.
THEOREM EndedStaysUnusable == Spec => []EndedIsUnusable
<1>1. Inv => EndedIsUnusable
  BY DEF Inv
<1> QED
  BY <1>1, InvAlways, PTL

\* No operation ever loosens a stored challenge or touches a consumed one.
THEOREM ChallengesOnlyTighten == Spec => OnlyTightens
<1>1. Inv /\ [Next]_vars => Tightens
  BY StepEffect, EffectTightens DEF Inv
<1> QED
  BY <1>1, InvAlways, PTL DEF Spec, OnlyTightens

LEMMA LateFinishStep ==
  ASSUME Inv, [Next]_vars, NEW x \in DOMAIN challenges, Consumes(x)
  PROVE  ~calls[Head(queue)].ended
<1> SUFFICES ASSUME calls[Head(queue)].ended PROVE FALSE
  OBVIOUS
<1> USE DEF Inv
<1>1. PICK t \in Time : t <= now /\ Effect(t)
  BY StepEffect
<1>2. challenges[x] \in Challenge
  BY DEF TypeOK
<1>3. ConsumedAt(x, t)
  BY <1>1, <1>2 DEF Effect, ExpiredAt, Consumes, Challenge
<1>4. PICK c \in CallId : /\ TakesTurn(c, {"finish", "consume"})
                          /\ x = calls[c].id /\ t = ActsAt(c)
  BY <1>3 DEF ConsumedAt, ActsOn
<1>5. Head(queue) = c /\ c \in DOMAIN calls
  BY <1>4, TurnStep DEF TakesTurn
<1>6. ~isUsable(x, calls[c].at)
  BY <1>4, <1>5 DEF EndedSeen
<1>7. calls[c].at <= t /\ calls[c].at \in Nat /\ t \in Nat /\ challenges[x].expiresAt \in Nat
  BY <1>2, <1>4, <1>5, TimesAreNatural DEF ActsAt, PastTimes, TypeOK, Call, Challenge, Time
<1> QED
  BY <1>3, <1>6, <1>7 DEF ConsumedAt, isUsable, isExpired

\* A finish that begins after the end of its challenge fails, whatever time it
\* acts under and however long it waits in the queue.
THEOREM LateFinishAlwaysFails == Spec => LateFinishFails
<1>1. Inv /\ [Next]_vars
        => \A x \in DOMAIN challenges : Consumes(x) => ~calls[Head(queue)].ended
  BY LateFinishStep
<1> QED
  BY <1>1, InvAlways, PTL DEF Spec, LateFinishFails

\* The calls in flight are of the operations callers use.
OpsOnly == \A c \in DOMAIN calls : calls[c].op \in Ops

LEMMA OpsStep ==
  ASSUME Inv, OpsOnly, [Next]_vars
  PROVE  OpsOnly'
BY StepCalls DEF Inv, OpsOnly, CallEffect, Begun, SameCall

LEMMA OpsAlways == Spec => []OpsOnly
<1>1. Init => OpsOnly
  BY DEF Init, OpsOnly
<1> QED
  BY <1>1, OpsStep, InvAlways, PTL DEF Spec

LEMMA EndedConsumedStep ==
  ASSUME Inv, [Next]_vars, NEW x \in DOMAIN challenges, Ended(x), Consumes(x)
  PROVE  /\ calls[Head(queue)].op = "finish" /\ Head(queue) \in DOMAIN calls
         /\ ~calls[Head(queue)].ended
         /\ calls[Head(queue)].at < challenges[x].expiresAt
<1> USE DEF Inv
<1>1. PICK t \in Time : t <= now /\ Effect(t)
  BY StepEffect
<1>2. challenges[x] \in Challenge
  BY DEF TypeOK
<1>3. ConsumedAt(x, t)
  BY <1>1, <1>2 DEF Effect, ExpiredAt, Consumes, Challenge
<1>4. PICK c \in CallId : /\ TakesTurn(c, {"finish", "consume"})
                          /\ x = calls[c].id /\ t = ActsAt(c)
  BY <1>3 DEF ConsumedAt, ActsOn
<1>5. /\ Head(queue) = c /\ c \in DOMAIN calls
      /\ calls[c].op \in {"finish", "consume"} /\ calls[c] \in Call
  BY <1>4, TurnStep DEF TakesTurn, TypeOK
<1>6. ~isUsable(x, now)
  BY DEF EndedIsUnusable
<1>7. calls[c].op = "finish" /\ t = calls[c].at
  BY <1>3, <1>4, <1>5, <1>6 DEF ConsumedAt, ActsAt
<1>8. calls[c].at < challenges[x].expiresAt
  BY <1>2, <1>3, <1>7, TimesAreNatural DEF ConsumedAt, isUsable, isExpired, Challenge, Time
<1> QED
  BY <1>5, <1>7, <1>8, LateFinishStep

\* The only thing that consumes an ended challenge is an older finish that was
\* still waiting for its turn (otp.ts, magic-link.ts, passwords/recovery.ts).
THEOREM EndedConsumedByOlderFinish == Spec => OnlyOlderFinishes
<1>1. Inv /\ [Next]_vars
        => \A x \in DOMAIN challenges :
             Ended(x) /\ Consumes(x) =>
               LET call == calls[Head(queue)]
               IN  call.op = "finish" /\ ~call.ended /\ call.at < challenges[x].expiresAt
  BY EndedConsumedStep
<1> QED
  BY <1>1, InvAlways, PTL DEF Spec, OnlyOlderFinishes

\* Where every consumption reads the clock in its own turn, as that of
\* consumeVerification does, what the documentation says of cancelled and
\* superseded challenges holds; cancel_race is about the finishes, which do not.
THEOREM EndedStaysUnconsumed ==
  ASSUME "finish" \notin Ops
  PROVE  Spec => EndedNeverConsumed
<1>1. Inv /\ OpsOnly /\ [Next]_vars
        => \A x \in DOMAIN challenges : Ended(x) => ~Consumes(x)
  BY EndedConsumedStep DEF OpsOnly
<1> QED
  BY <1>1, InvAlways, OpsAlways, PTL DEF Spec, EndedNeverConsumed

-----------------------------------------------------------------------------
\* Where no resend reads the clock before it is queued, the queue holds the
\* resends in the order of their times, and the first of two wins.
ResendsQueued ==
  \A c \in DOMAIN calls : calls[c].op = "resend" => \E n \in 1..Len(queue) : queue[n] = c

ResendsInOrder ==
  \A m, n \in 1..Len(queue) :
    /\ m < n
    /\ calls[queue[m]].op = "resend" /\ calls[queue[n]].op = "resend"
    => calls[queue[m]].at <= calls[queue[n]].at

LaterResendsFail ==
  \A c \in DOMAIN calls :
    calls[c].op = "resend" /\ Superseded(calls[c].id) => ~isUsable(calls[c].id, calls[c].at)

ResendInv ==
  OpsOnly /\ ResendsQueued /\ ResendsInOrder /\ LaterResendsFail /\ OneReplacement

\* The queue, step by step.
LEMMA OrderOfAppend ==
  ASSUME Inv, ResendsInOrder, NEW c \in CallId, queue' = Append(queue, c),
         \A d \in DOMAIN calls : d # c =>
           calls'[d].op = calls[d].op /\ calls'[d].at = calls[d].at,
         \A n \in 1..Len(queue) : queue[n] # c,
         calls'[c].op = "resend" => calls'[c].at = now
  PROVE  /\ ResendsInOrder'
         /\ \E n \in 1..Len(queue') : queue'[n] = c
         /\ \A n \in 1..Len(queue) : n \in 1..Len(queue') /\ queue'[n] = queue[n]
<1>1. /\ Len(queue') = Len(queue) + 1 /\ Len(queue) \in Nat
      /\ \A n \in 1..Len(queue) : queue'[n] = queue[n]
      /\ queue'[Len(queue) + 1] = c
  BY AppendProperties DEF Inv, TypeOK
<1>2. \A n \in 1..Len(queue') : n \in 1..Len(queue) \/ n = Len(queue) + 1
  BY <1>1
<1>3. \A n \in 1..Len(queue) :
        /\ calls'[queue[n]].op = calls[queue[n]].op
        /\ calls'[queue[n]].at = calls[queue[n]].at
        /\ calls[queue[n]].at <= now
  BY DEF Inv, TypeOK, PastTimes
<1>4. ResendsInOrder'
  <2> SUFFICES ASSUME NEW m \in 1..Len(queue'), NEW n \in 1..Len(queue'), m < n,
                      calls'[queue'[m]].op = "resend", calls'[queue'[n]].op = "resend"
               PROVE  calls'[queue'[m]].at <= calls'[queue'[n]].at
    BY DEF ResendsInOrder
  <2>1. m \in 1..Len(queue)
    BY <1>1, <1>2
  <2>2. CASE n \in 1..Len(queue)
    BY <1>1, <1>3, <2>1, <2>2 DEF ResendsInOrder
  <2>3. CASE n = Len(queue) + 1
    BY <1>1, <1>3, <2>1, <2>3
  <2> QED
    BY <1>2, <2>2, <2>3
<1>5. \A n \in 1..Len(queue) : n \in 1..Len(queue')
  BY <1>1
<1>6. Len(queue) + 1 \in 1..Len(queue')
  BY <1>1
<1> QED
  BY <1>1, <1>4, <1>5, <1>6

LEMMA ResendOrderStep ==
  ASSUME Inv, OpsOnly, ResendsQueued, ResendsInOrder, [Next]_vars
  PROVE  OpsOnly' /\ ResendsQueued' /\ ResendsInOrder'
<1>1. OpsOnly'
  BY OpsStep
<1>2. CASE UNCHANGED <<calls, queue>>
  BY <1>1, <1>2 DEF ResendsQueued, ResendsInOrder
<1>3. ASSUME NEW c \in CallId, NEW op \in Ops, NEW id \in ChallengeId \cup {None},
             Begin(c, op, id)
      PROVE  ResendsQueued' /\ ResendsInOrder'
  <2>1. /\ DOMAIN calls' = DOMAIN calls \cup {c} /\ c \notin DOMAIN calls
        /\ calls'[c].op = op /\ calls'[c].at = now
        /\ \A d \in DOMAIN calls : calls'[d] = calls[d]
    BY <1>3 DEF Begin, Put
  <2>2. \A n \in 1..Len(queue) : queue[n] # c
    BY <2>1 DEF Inv, TypeOK
  <2>3. CASE op \in BeginsQueued
    <3>1. queue' = Append(queue, c)
      BY <1>3, <2>3 DEF Begin
    <3>2. /\ ResendsInOrder'
          /\ \E n \in 1..Len(queue') : queue'[n] = c
          /\ \A n \in 1..Len(queue) : n \in 1..Len(queue') /\ queue'[n] = queue[n]
      BY <2>1, <2>2, <3>1, OrderOfAppend
    <3> QED
      BY <2>1, <3>2 DEF ResendsQueued
  <2>4. CASE op \notin BeginsQueued
    <3>1. queue' = queue /\ op # "resend"
      BY <1>3, <2>4 DEF Begin, BeginsQueued
    <3> QED
      BY <2>1, <3>1 DEF ResendsQueued, ResendsInOrder, Inv, TypeOK
  <2> QED
    BY <2>3, <2>4
<1>4. ASSUME NEW c \in CallId, Enqueue(c)
      PROVE  ResendsQueued' /\ ResendsInOrder'
  <2>1. /\ c \in DOMAIN calls /\ DOMAIN calls' = DOMAIN calls
        /\ \A d \in DOMAIN calls : calls'[d].op = calls[d].op /\ calls'[d].at = calls[d].at
        /\ queue' = Append(queue, c)
    BY <1>4 DEF Enqueue, Inv, TypeOK, Call
  <2>2. \A n \in 1..Len(queue) : queue[n] # c
    BY <1>4 DEF Enqueue, Inv, TypeOK
  <2>3. calls[c].op # "resend"
    BY <2>1, <2>2 DEF ResendsQueued
  <2>4. /\ ResendsInOrder'
        /\ \A n \in 1..Len(queue) : n \in 1..Len(queue') /\ queue'[n] = queue[n]
    BY <2>1, <2>2, <2>3, OrderOfAppend
  <2> QED
    BY <2>1, <2>3, <2>4 DEF ResendsQueued
<1>5. ASSUME NEW c \in CallId, Refuse(c)
      PROVE  ResendsQueued' /\ ResendsInOrder'
  <2>1. /\ DOMAIN calls' = DOMAIN calls \ {c} /\ queue' = queue
        /\ \A d \in DOMAIN calls' : calls'[d] = calls[d]
    BY <1>5 DEF Refuse, Drop
  <2>2. \A n \in 1..Len(queue) : queue[n] # c /\ queue[n] \in DOMAIN calls
    BY <1>5 DEF Refuse, Inv, TypeOK
  <2> QED
    BY <2>1, <2>2 DEF ResendsQueued, ResendsInOrder
<1>6. ASSUME NEW c \in CallId, NEW ops, TakesTurn(c, ops)
      PROVE  ResendsQueued' /\ ResendsInOrder'
  <2>1. /\ DOMAIN calls' = DOMAIN calls \ {c}
        /\ \A d \in DOMAIN calls' : calls'[d] = calls[d]
        /\ Len(queue') = Len(queue) - 1 /\ Len(queue) \in Nat
        /\ \A n \in 1..Len(queue') : n + 1 \in 1..Len(queue) /\ queue'[n] = queue[n + 1]
        /\ 1 \in 1..Len(queue) /\ queue[1] = c
    <3>1. Len(queue) \in Nat
      BY DEF Inv, TypeOK
    <3> QED
      BY <1>6, <3>1, TurnStep DEF Inv
  <2>2. \A n \in 1..Len(queue') : queue'[n] \in DOMAIN calls'
    BY StepCalls DEF Inv, CallEffect, Waiting
  <2>3. ResendsInOrder'
    <3> SUFFICES ASSUME NEW m \in 1..Len(queue'), NEW n \in 1..Len(queue'), m < n,
                        calls'[queue'[m]].op = "resend", calls'[queue'[n]].op = "resend"
                 PROVE  calls'[queue'[m]].at <= calls'[queue'[n]].at
      BY DEF ResendsInOrder
    <3>1. m + 1 \in 1..Len(queue) /\ n + 1 \in 1..Len(queue) /\ m + 1 < n + 1
      BY <2>1
    <3>2. /\ queue'[m] = queue[m + 1] /\ queue'[n] = queue[n + 1]
          /\ calls'[queue'[m]] = calls[queue[m + 1]]
          /\ calls'[queue'[n]] = calls[queue[n + 1]]
      BY <2>1, <2>2
    <3>3. calls[queue[m + 1]].at <= calls[queue[n + 1]].at
      BY <3>1, <3>2 DEF ResendsInOrder
    <3> QED
      BY <3>2, <3>3
  <2>4. ResendsQueued'
    <3> SUFFICES ASSUME NEW d \in DOMAIN calls', calls'[d].op = "resend"
                 PROVE  \E n \in 1..Len(queue') : queue'[n] = d
      BY DEF ResendsQueued
    <3>1. PICK n \in 1..Len(queue) : queue[n] = d
      BY <2>1 DEF ResendsQueued
    <3>2. n # 1
      BY <2>1, <3>1
    <3>3. n - 1 \in 1..Len(queue') /\ (n - 1) + 1 = n
      BY <2>1, <3>2
    <3> QED
      BY <2>1, <3>1, <3>3
  <2> QED
    BY <2>3, <2>4
<1> QED
  BY <1>1, <1>2, <1>3, <1>4, <1>5, <1>6
  DEF Next, vars, CommitStart, CommitFinish, CommitResend, CommitCancel, EndWithoutEffect, Tick

\* A challenge that is replaced in this step expires at the time of the
\* resend at the head of the queue.
LEMMA NewlyReplaced ==
  ASSUME Inv, OpsOnly, "ownedResend" \notin Ops, NEW t \in Time, Effect(t),
         NEW y \in DOMAIN challenges' \ DOMAIN challenges,
         NEW x \in DOMAIN challenges, challenges'[y].replaces = x
  PROVE  /\ isUsable(x, t) /\ challenges'[x].expiresAt = t
         /\ \E c \in DOMAIN calls :
              /\ c \notin DOMAIN calls' /\ 1 \in 1..Len(queue) /\ queue[1] = c
              /\ calls[c].op = "resend" /\ calls[c].id = x /\ calls[c].at = t
<1>1. x # None /\ challenges[x] \in Challenge
  BY NoneIsNoChallenge DEF Inv, TypeOK
<1>2. ExpiredAt(x, t) /\ ActsOn({"resend", "ownedResend"}, x, t)
  BY <1>1 DEF Effect, CreatedAt, Created
<1>3. isUsable(x, t) /\ challenges'[x].expiresAt = t
  BY <1>1, <1>2 DEF ExpiredAt, Challenge
<1>4. PICK c \in CallId : /\ TakesTurn(c, {"resend", "ownedResend"})
                          /\ x = calls[c].id /\ t = ActsAt(c)
  BY <1>2 DEF ActsOn
<1>5. /\ c \in DOMAIN calls /\ calls[c].op \in {"resend", "ownedResend"}
      /\ c \notin DOMAIN calls' /\ 1 \in 1..Len(queue) /\ queue[1] = c
  BY <1>4, TurnStep DEF Inv
<1>6. calls[c].op = "resend"
  BY <1>5 DEF OpsOnly
<1>7. calls[c].at = t
  BY <1>4, <1>6 DEF ActsAt
<1> QED
  BY <1>3, <1>4, <1>5, <1>6, <1>7

LEMMA LaterResendsStep ==
  ASSUME Inv, ResendInv, "ownedResend" \notin Ops, [Next]_vars
  PROVE  LaterResendsFail'
<1> SUFFICES ASSUME NEW c \in DOMAIN calls', calls'[c].op = "resend",
                    NEW y \in DOMAIN challenges', challenges'[y].replaces = calls'[c].id
             PROVE  ~(/\ challenges'[calls'[c].id].status = "pending"
                      /\ ~(challenges'[calls'[c].id].expiresAt <= calls'[c].at))
  BY DEF LaterResendsFail, Superseded, isUsable, isExpired
<1> USE DEF Inv, ResendInv
<1>1. PICK t \in Time : t <= now /\ Effect(t)
  BY StepEffect
<1>2. CallEffect /\ TypeOK
  BY StepCalls
<1> DEFINE x == calls'[c].id
<1>3. x \in DOMAIN challenges /\ calls'[c].at \in Time /\ calls'[c].at <= calls'[c].at
  BY <1>2 DEF CallEffect, Begun, SameCall, TypeOK, Call, Time
<1> HIDE DEF x
<1>4. CASE y \in DOMAIN challenges
  <2>1. challenges[y].replaces = x
    BY <1>1, <1>4, EffectTightens DEF Tightens, x
  <2>2. Superseded(x) /\ Ended(x)
    BY <1>4, <2>1 DEF Superseded, Ended
  <2>3. ~isUsable(x, calls'[c].at)
    <3>1. CASE Begun(c)
      BY <1>3, <2>2, <3>1 DEF Begun, EndedIsUnusable
    <3>2. CASE SameCall(c)
      BY <2>2, <3>2 DEF SameCall, LaterResendsFail, x
    <3> QED
      BY <1>2, <3>1, <3>2 DEF CallEffect
  <2> QED
    BY <1>1, <1>3, <2>3, StaysUnusable DEF x
<1>5. CASE y \notin DOMAIN challenges
  <2>1. /\ challenges'[x].expiresAt = t
        /\ \E d \in DOMAIN calls :
             /\ d \notin DOMAIN calls' /\ 1 \in 1..Len(queue) /\ queue[1] = d
             /\ calls[d].op = "resend" /\ calls[d].id = x /\ calls[d].at = t
    BY <1>1, <1>3, <1>5, NewlyReplaced DEF x
  <2>2. t <= calls'[c].at
    <3>1. CASE Begun(c)
      BY <1>1, <3>1 DEF Begun
    <3>2. CASE SameCall(c)
      <4>1. PICK n \in 1..Len(queue) : queue[n] = c
        BY <3>2 DEF SameCall, ResendsQueued
      <4>2. PICK d \in DOMAIN calls :
              /\ d \notin DOMAIN calls' /\ 1 \in 1..Len(queue) /\ queue[1] = d
              /\ calls[d].op = "resend" /\ calls[d].at = t
        BY <2>1
      <4>3. 1 < n
        BY <4>1, <4>2
      <4> QED
        BY <3>2, <4>1, <4>2, <4>3 DEF SameCall, ResendsInOrder
    <3> QED
      BY <1>2, <3>1, <3>2 DEF CallEffect
  <2> QED
    BY <2>1, <2>2 DEF x
<1> QED
  BY <1>4, <1>5

LEMMA OneReplacementStep ==
  ASSUME Inv, ResendInv, "ownedResend" \notin Ops, [Next]_vars
  PROVE  OneReplacement'
<1> USE DEF Inv, ResendInv
<1>1. PICK t \in Time : t <= now /\ Effect(t)
  BY StepEffect
<1>2. \A x \in DOMAIN challenges :
        /\ challenges'[x].replaces = challenges[x].replaces
        /\ challenges[x].replaces \in DOMAIN challenges \cup {None}
  BY <1>1, EffectTightens DEF Tightens, Ancestry
<1>3. ASSUME NEW x \in DOMAIN challenges, NEW y \in DOMAIN challenges' \ DOMAIN challenges,
             challenges'[x].replaces = challenges'[y].replaces, challenges'[x].replaces # None
      PROVE  FALSE
  <2> DEFINE old == challenges[x].replaces
  <2>1. old \in DOMAIN challenges /\ challenges'[y].replaces = old /\ Superseded(old)
    BY <1>2, <1>3 DEF Superseded
  <2> HIDE DEF old
  <2>2. /\ isUsable(old, t)
        /\ \E c \in DOMAIN calls :
             /\ c \notin DOMAIN calls' /\ 1 \in 1..Len(queue) /\ queue[1] = c
             /\ calls[c].op = "resend" /\ calls[c].id = old /\ calls[c].at = t
    BY <1>1, <2>1, NewlyReplaced
  <2> QED
    BY <2>1, <2>2 DEF LaterResendsFail
<1>4. ASSUME NEW x \in DOMAIN challenges, NEW y \in DOMAIN challenges,
             challenges'[x].replaces = challenges'[y].replaces, challenges'[x].replaces # None
      PROVE  x = y
  BY <1>2, <1>4 DEF OneReplacement
<1>5. ASSUME NEW x \in DOMAIN challenges' \ DOMAIN challenges,
             NEW y \in DOMAIN challenges' \ DOMAIN challenges
      PROVE  x = y
  BY <1>1 DEF Effect
<1> QED
  BY <1>3, <1>4, <1>5 DEF OneReplacement

\* However many resends of a challenge are in flight, one replaces it, as long
\* as callers use only the resends that read the clock when they join the
\* queue (otp.ts, magic-link.ts); the owned ones are the finding double_resend.
THEOREM OnlyOneReplacement ==
  ASSUME "ownedResend" \notin Ops
  PROVE  Spec => []OneReplacement
<1>1. Init => ResendInv
  <2> SUFFICES ASSUME Init PROVE ResendInv
    OBVIOUS
  <2>1. DOMAIN challenges = {} /\ DOMAIN calls = {} /\ Len(queue) = 0
    BY DEF Init
  <2> QED
    BY <2>1 DEF ResendInv, OpsOnly, ResendsQueued, ResendsInOrder, LaterResendsFail,
                OneReplacement
<1>2. Inv /\ ResendInv /\ [Next]_vars => ResendInv'
  BY ResendOrderStep, LaterResendsStep, OneReplacementStep DEF ResendInv
<1>3. ResendInv => OneReplacement
  BY DEF ResendInv
<1> QED
  BY <1>1, <1>2, <1>3, InvAlways, PTL DEF Spec

-----------------------------------------------------------------------------
LEMMA ContractStep ==
  ASSUME TypeOK, PastTimes, [Next]_vars
  PROVE  [Contract!Next]_(Contract!vars)
<1> USE DEF Contract!Next, Contract!vars
<1>1. /\ DOMAIN Lifetimes = DOMAIN challenges /\ DOMAIN Lifetimes' = DOMAIN challenges'
      /\ \A x \in DOMAIN challenges :
           Lifetimes[x] = [status |-> challenges[x].status,
                           createdAt |-> challenges[x].createdAt,
                           expiresAt |-> challenges[x].expiresAt,
                           replaces |-> challenges[x].replaces]
      /\ \A x \in DOMAIN challenges' :
           Lifetimes'[x] = [status |-> challenges'[x].status,
                            createdAt |-> challenges'[x].createdAt,
                            expiresAt |-> challenges'[x].expiresAt,
                            replaces |-> challenges'[x].replaces]
  BY DEF Lifetimes
<1>2. CASE UNCHANGED challenges
  <2>1. UNCHANGED Lifetimes
    BY <1>2 DEF Lifetimes
  <2>2. Tick \/ UNCHANGED now
    BY DEF Next, vars, Begin, Enqueue, Refuse, TakesTurn, CommitStart, CommitFinish, CommitResend,
           CommitCancel, EndWithoutEffect
  <2> QED
    BY <2>1, <2>2 DEF Tick, Contract!Tick
<1>3. ASSUME NEW c \in CallId, NEW ops, TakesTurn(c, ops), "start" \notin ops
      PROVE  calls[c].id \in DOMAIN challenges
  <2>1. calls[c].op \in ops
    BY <1>3, TurnStep
  <2>2. calls[c].op # "start"
    BY <1>3, <2>1
  <2> QED
    BY <1>3, <2>2, TurnStep
<1>4. ASSUME NEW c \in CallId, NEW ops, TakesTurn(c, ops)
      PROVE  ActsAt(c) \in 0..now /\ UNCHANGED now
  <2>1. ActsAt(c) \in Time /\ ActsAt(c) <= now /\ now \in Time
    BY <1>4, TurnStep DEF TypeOK
  <2> QED
    BY <1>4, <2>1, TimesAreNatural DEF TakesTurn, Time
<1>5. \A x \in DOMAIN challenges :
        /\ challenges[x] \in Challenge /\ challenges[x].expiresAt \in Nat
        /\ challenges[x].createdAt \in Nat
  BY TimesAreNatural DEF TypeOK, Challenge, Time
<1>6. now \in Nat
  BY TimesAreNatural DEF TypeOK, Time
<1>7. ASSUME NEW c \in CallId, CommitStart(c)
      PROVE  [Contract!Next]_(Contract!vars)
  <2>1. ActsAt(c) \in 0..now /\ UNCHANGED now
    BY <1>4, <1>7 DEF CommitStart
  <2>2. Fresh \in ChallengeId /\ Fresh \notin DOMAIN challenges
    BY <1>7, FreshIsUnused DEF CommitStart
  <2>3. Lifetimes' = Contract!Put(Lifetimes, Fresh, Contract!New(ActsAt(c), None))
    BY <1>1, <1>7, <2>2 DEF CommitStart, Put, Created, Lifetimes, Contract!Put, Contract!New
  <2>4. Contract!Create(Fresh, ActsAt(c)) /\ Lifetimes' # Lifetimes
    BY <1>1, <2>2, <2>3 DEF Contract!Create, Contract!Put
  <2> QED
    BY <2>1, <2>2, <2>4
<1>8. ASSUME NEW c \in CallId, CommitFinish(c)
      PROVE  [Contract!Next]_(Contract!vars)
  <2> DEFINE x == calls[c].id
  <2>1. /\ ActsAt(c) \in 0..now /\ UNCHANGED now
        /\ x \in DOMAIN challenges /\ x \in ChallengeId
    BY <1>3, <1>4, <1>8 DEF CommitFinish, TypeOK
  <2>2. Lifetimes' = [Lifetimes EXCEPT ![x].status = "consumed"]
    <3>1. /\ DOMAIN challenges' = DOMAIN challenges
          /\ \A y \in DOMAIN challenges : y # x => challenges'[y] = challenges[y]
          /\ challenges'[x] = [challenges[x] EXCEPT !.status = "consumed", !.consumedAt = ActsAt(c)]
      BY <1>8, <2>1 DEF CommitFinish
    <3>2. Lifetimes'[x] = [Lifetimes[x] EXCEPT !.status = "consumed"]
      <4>1. /\ challenges'[x].status = "consumed"
            /\ challenges'[x].createdAt = challenges[x].createdAt
            /\ challenges'[x].expiresAt = challenges[x].expiresAt
            /\ challenges'[x].replaces = challenges[x].replaces
        BY <1>5, <2>1, <3>1 DEF Challenge
      <4>2. x \in DOMAIN challenges'
        BY <2>1, <3>1
      <4>3. Lifetimes'[x] = [status |-> "consumed", createdAt |-> challenges[x].createdAt,
                             expiresAt |-> challenges[x].expiresAt,
                             replaces |-> challenges[x].replaces]
        BY <1>1, <4>1, <4>2
      <4> QED
        BY <1>1, <2>1, <4>3
    <3>3. \A y \in DOMAIN challenges : y # x => Lifetimes'[y] = Lifetimes[y]
      BY <1>1, <3>1
    <3> QED
      BY <1>1, <2>1, <3>1, <3>2, <3>3 DEF Lifetimes
  <2>3. Contract!isUsable(x, ActsAt(c))
    BY <1>1, <1>8, <1>5, <1>6, <2>1 DEF CommitFinish, isUsable, isExpired, Contract!isUsable
  <2>4. Contract!Consume(x, ActsAt(c))
    BY <2>2, <2>3 DEF Contract!Consume
  <2> QED
    BY <2>1, <2>4
<1>9. ASSUME NEW c \in CallId, CommitCancel(c)
      PROVE  [Contract!Next]_(Contract!vars)
  <2> DEFINE x == calls[c].id
  <2>1. /\ ActsAt(c) \in 0..now /\ UNCHANGED now
        /\ x \in DOMAIN challenges /\ x \in ChallengeId
    BY <1>3, <1>4, <1>9 DEF CommitCancel, TypeOK
  <2>2. Lifetimes' = [Lifetimes EXCEPT ![x].expiresAt = ActsAt(c)]
    <3>1. /\ DOMAIN challenges' = DOMAIN challenges
          /\ \A y \in DOMAIN challenges : y # x => challenges'[y] = challenges[y]
          /\ challenges'[x] = [challenges[x] EXCEPT !.expiresAt = ActsAt(c)]
      BY <1>9, <2>1 DEF CommitCancel
    <3>2. Lifetimes'[x] = [Lifetimes[x] EXCEPT !.expiresAt = ActsAt(c)]
      BY <1>1, <1>5, <2>1, <3>1 DEF Challenge
    <3>3. \A y \in DOMAIN challenges : y # x => Lifetimes'[y] = Lifetimes[y]
      BY <1>1, <3>1
    <3> QED
      BY <1>1, <2>1, <3>1, <3>2, <3>3 DEF Lifetimes
  <2>3. Contract!isUsable(x, ActsAt(c))
    BY <1>1, <1>9, <1>5, <1>6, <2>1 DEF CommitCancel, isUsable, isExpired, Contract!isUsable
  <2>4. Contract!Cancel(x, ActsAt(c))
    BY <2>2, <2>3 DEF Contract!Cancel
  <2> QED
    BY <2>1, <2>4
<1>10. ASSUME NEW c \in CallId, CommitResend(c)
      PROVE  [Contract!Next]_(Contract!vars)
  <2> DEFINE x == calls[c].id
  <2>1. /\ ActsAt(c) \in 0..now /\ UNCHANGED now
        /\ x \in DOMAIN challenges /\ x \in ChallengeId
    BY <1>3, <1>4, <1>10 DEF CommitResend, TypeOK
  <2>2. Fresh \in ChallengeId /\ Fresh \notin DOMAIN challenges
    BY <1>10, FreshIsUnused DEF CommitResend
  <2>3. Lifetimes' = Contract!Put([Lifetimes EXCEPT ![x].expiresAt = ActsAt(c)], Fresh,
                                  Contract!New(ActsAt(c), x))
    <3>1. /\ DOMAIN challenges' = DOMAIN challenges \cup {Fresh}
          /\ \A y \in DOMAIN challenges : y # x => challenges'[y] = challenges[y]
          /\ challenges'[x] = [challenges[x] EXCEPT !.expiresAt = ActsAt(c)]
          /\ challenges'[Fresh] = Created(ActsAt(c), x)
      BY <1>10, <2>1, <2>2 DEF CommitResend, Put
    <3>2. Lifetimes'[x] = [Lifetimes[x] EXCEPT !.expiresAt = ActsAt(c)]
      BY <1>1, <1>5, <2>1, <3>1 DEF Challenge
    <3>3. \A y \in DOMAIN challenges : y # x => Lifetimes'[y] = Lifetimes[y]
      BY <1>1, <3>1
    <3>4. Lifetimes'[Fresh] = Contract!New(ActsAt(c), x)
      <4>1. Fresh \in DOMAIN challenges'
        BY <3>1
      <4>2. /\ challenges'[Fresh].status = "pending" /\ challenges'[Fresh].createdAt = ActsAt(c)
            /\ challenges'[Fresh].expiresAt = ActsAt(c) + Ttl /\ challenges'[Fresh].replaces = x
        BY <3>1 DEF Created
      <4> QED
        BY <1>1, <4>1, <4>2 DEF Contract!New
    <3> QED
      BY <1>1, <2>1, <2>2, <3>1, <3>2, <3>3, <3>4 DEF Lifetimes, Contract!Put
  <2>4. Contract!isUsable(x, ActsAt(c)) /\ Lifetimes[x].createdAt + Cooldown <= ActsAt(c)
    BY <1>1, <1>10, <1>5, <1>6, <2>1
    DEF CommitResend, ResendAllowed, isUsable, isExpired, Contract!isUsable
  <2>5. Contract!Replace(x, ActsAt(c), Fresh) /\ Lifetimes' # Lifetimes
    BY <1>1, <2>2, <2>3, <2>4 DEF Contract!Replace, Contract!Put
  <2> QED
    BY <2>1, <2>2, <2>5
<1> QED
  BY <1>2, <1>7, <1>8, <1>9, <1>10
  DEF Next, vars, Begin, Enqueue, Refuse, EndWithoutEffect, Tick

\* Overlapping calls keep the contract of the stored challenges (verifications.ts,
\* otp.ts, magic-link.ts, passwords/recovery.ts).
THEOREM ChallengesKeepContract == Spec => KeepsContract
<1>1. Init => Contract!Init
  <2>1. {} \in SUBSET ChallengeId
    OBVIOUS
  <2>2. Init => Lifetimes = [x \in {} |-> Contract!New(0, None)]
    BY DEF Init, Lifetimes
  <2> QED
    BY <2>1, <2>2 DEF Init, Contract!Init
<1>2. TypeOK /\ PastTimes /\ [Next]_vars => [Contract!Next]_(Contract!vars)
  BY ContractStep
<1>3. Inv => TypeOK /\ PastTimes
  BY DEF Inv
<1> QED
  BY <1>1, <1>2, <1>3, InvAlways, PTL DEF Spec, KeepsContract, Contract!Spec

\* A replacement begins after a cooldown, and when its predecessor is over
\* (verifications.ts, otp.ts, magic-link.ts).
THEOREM ReplacementsFollow == Spec => []ReplacementFollows
<1>1. Contract!Spec => [](Contract!TypeOK /\ Contract!LifetimesApart)
  BY Contract!LifetimesAlwaysApart, TimesAreNatural, NoneIsNoChallenge
<1>2. Contract!TypeOK /\ Contract!LifetimesApart => ReplacementFollows
  <2> SUFFICES ASSUME Contract!TypeOK, Contract!LifetimesApart,
                      NEW x \in DOMAIN challenges, NEW y \in DOMAIN challenges,
                      challenges[y].replaces = x
               PROVE  /\ challenges[x].createdAt + Cooldown <= challenges[y].createdAt
                      /\ challenges[x].expiresAt <= challenges[y].createdAt
    BY DEF ReplacementFollows
  <2>1. DOMAIN Lifetimes = DOMAIN challenges
    BY DEF Lifetimes
  <2>2. x \in ChallengeId /\ x # None
    BY <2>1, NoneIsNoChallenge DEF Contract!TypeOK
  <2>3. /\ Lifetimes[y].replaces = x /\ Lifetimes[y].createdAt = challenges[y].createdAt
        /\ Lifetimes[x].createdAt = challenges[x].createdAt
        /\ Lifetimes[x].expiresAt = challenges[x].expiresAt
    BY DEF Lifetimes
  <2> QED
    BY <2>1, <2>2, <2>3 DEF Contract!LifetimesApart
<1> QED
  BY <1>1, <1>2, ChallengesKeepContract, PTL DEF KeepsContract
=============================================================================
