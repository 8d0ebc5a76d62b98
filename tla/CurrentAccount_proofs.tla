------------------------ MODULE CurrentAccount_proofs ------------------------
(***************************************************************************)
(* Proofs about CurrentAccount, for any users, sessions, targets, policy,  *)
(* lifetimes and cap of the markers.                                       *)
(*                                                                         *)
(* A step is looked at through what it does to each part of the state: the *)
(* stored challenges (ChallengeEffect), the calls in flight (CallEffect),  *)
(* the accounts (AccountEffect), the markers (MarkerEffect).  Each         *)
(* invariant follows from the effects on the parts it is about.            *)
(***************************************************************************)
EXTENDS CurrentAccount, SequenceTheorems, FiniteSetTheorems, TLAPS

ReAuthenticated(s, t) ==
  \E n \in 1..Len(issued) :
    issued[n].session = s /\ issued[n].at <= t /\ t <= issued[n].at + MaxAge

\* What is known of a call when it has passed its checks.
CallSound(c) ==
  /\ c \in Call
  /\ c.op \in Starts => c.target \in Target
  /\ c.op \notin Starts => c.id \in DOMAIN challenges
  /\ c.op = "finish" /\ c.purpose # "recovery" => c.session \in SessionId
  /\ "updateContact" \in RequireReAuthFor /\ c.op \in Starts
       /\ c.purpose = "contactChange" /\ c.session # None
     => ReAuthenticated(c.session, c.at)
CallsSound == \A c \in calls : CallSound(c)

Elements(L) == {L[n] : n \in 1..Len(L)}

\* L has the last ones of the markers I: the newest first, MaxMarkers if any
\* is missing.
Lists(L, I) ==
  /\ Len(L) <= MaxMarkers
  /\ \A m, n \in 1..Len(L) : m < n => L[n] < L[m]
  /\ Elements(L) \subseteq I
  /\ IsFiniteSet(Elements(L)) /\ Cardinality(Elements(L)) = Len(L)
  /\ \A m \in I \ Elements(L) : Len(L) = MaxMarkers /\ \A n \in Elements(L) : m < n

MarkerLists == \A s \in SessionId : Lists(sessions[s].markers, IssuedTo(s))

Inv ==
  /\ TypeOK /\ CallsSound /\ MarkerLists
  /\ ContactWasProven /\ ContactChangeIsReAuthenticated /\ OneMarkerPerCode
  /\ RecoveredByOwnLink /\ ResendKeepsClaim

-----------------------------------------------------------------------------
\* Use and expiry are all that changes in a stored challenge, and use is final.
SameClaim(x) ==
  /\ challenges'[x] \in Challenge
  /\ challenges'[x].purpose = challenges[x].purpose
  /\ challenges'[x].provider = challenges[x].provider
  /\ challenges'[x].session = challenges[x].session
  /\ challenges'[x].target = challenges[x].target
  /\ challenges'[x].startedAt = challenges[x].startedAt
  /\ challenges'[x].replaces = challenges[x].replaces
  /\ challenges[x].consumed => challenges'[x].consumed

StartedBy(x, c) == c \in calls /\ c.op \in Starts /\ challenges'[x] = Created(c)

Successor(x, y) ==
  /\ y \in DOMAIN challenges
  /\ challenges'[x].purpose = challenges[y].purpose
  /\ challenges'[x].session = challenges[y].session
  /\ challenges'[x].target = challenges[y].target
  /\ challenges'[x].startedAt = challenges[y].startedAt
  /\ challenges'[x].replaces = y

ChallengeEffect ==
  /\ DOMAIN challenges \subseteq DOMAIN challenges'
  /\ \A x \in DOMAIN challenges : SameClaim(x)
  /\ \A x \in DOMAIN challenges' \ DOMAIN challenges :
       /\ x \in ChallengeId /\ challenges'[x] \in Challenge
       /\ (\E c \in calls : StartedBy(x, c)) \/ (\E y \in DOMAIN challenges : Successor(x, y))

LEMMA FreshIsUnused ==
  ASSUME Unused # {}
  PROVE  Fresh \in ChallengeId /\ Fresh \notin DOMAIN challenges
BY DEF Fresh, Unused

LEMMA ConsumeEffect ==
  ASSUME TypeOK, NEW x \in DOMAIN challenges, NEW t, Consume(x, t)
  PROVE  ChallengeEffect /\ ~challenges[x].consumed /\ challenges'[x].consumed
<1>1. /\ DOMAIN challenges' = DOMAIN challenges
      /\ challenges'[x] = [challenges[x] EXCEPT !.consumed = TRUE]
      /\ \A y \in DOMAIN challenges : y # x => challenges'[y] = challenges[y]
      /\ \A y \in DOMAIN challenges : challenges[y] \in Challenge
  BY DEF Consume, TypeOK
<1>2. SameClaim(x) /\ challenges'[x].consumed
  BY <1>1 DEF SameClaim, Challenge
<1>3. \A y \in DOMAIN challenges : SameClaim(y)
  BY <1>1, <1>2 DEF SameClaim
<1> QED
  BY <1>1, <1>2, <1>3 DEF ChallengeEffect, Consume, isUsable

LEMMA CancelEffect ==
  ASSUME TypeOK, NEW x \in DOMAIN challenges, NEW t \in Time, Cancel(x, t)
  PROVE  ChallengeEffect
<1>1. /\ DOMAIN challenges' = DOMAIN challenges
      /\ challenges'[x] = [challenges[x] EXCEPT !.expiresAt = t]
      /\ \A y \in DOMAIN challenges : y # x => challenges'[y] = challenges[y]
      /\ \A y \in DOMAIN challenges : challenges[y] \in Challenge
  BY DEF Cancel, TypeOK
<1>2. t \in 0..(MaxTime + Ttl)
  BY NumbersAreNatural DEF Time
<1>3. SameClaim(x)
  BY <1>1, <1>2 DEF SameClaim, Challenge
<1>4. \A y \in DOMAIN challenges : SameClaim(y)
  BY <1>1, <1>3 DEF SameClaim
<1> QED
  BY <1>1, <1>4 DEF ChallengeEffect

LEMMA ReplaceEffect ==
  ASSUME TypeOK, NEW x \in DOMAIN challenges, NEW t \in Time,
         NEW provider \in {"otp", "password"}, Replace(x, provider, t)
  PROVE  ChallengeEffect
<1>1. Fresh \in ChallengeId /\ Fresh \notin DOMAIN challenges
  BY FreshIsUnused DEF Replace
<1>2. /\ DOMAIN challenges' = DOMAIN challenges \cup {Fresh}
      /\ challenges'[x] = [challenges[x] EXCEPT !.expiresAt = t]
      /\ challenges'[Fresh] = [challenges[x] EXCEPT !.provider = provider, !.createdAt = t,
                                                    !.expiresAt = t + Ttl, !.replaces = x]
      /\ \A y \in DOMAIN challenges : y # x => challenges'[y] = challenges[y]
  BY <1>1 DEF Replace, Put
<1>3. \A y \in DOMAIN challenges : challenges[y] \in Challenge
  BY DEF TypeOK
<1>4. t \in 0..(MaxTime + Ttl) /\ t + Ttl \in 0..(MaxTime + Ttl)
  BY NumbersAreNatural DEF Time
<1>5. SameClaim(x)
  BY <1>2, <1>3, <1>4 DEF SameClaim, Challenge
<1>6. \A y \in DOMAIN challenges : SameClaim(y)
  BY <1>2, <1>3, <1>5 DEF SameClaim
<1>7. x \in ChallengeId
  BY DEF TypeOK
<1>8. challenges'[Fresh] \in Challenge
  <2>1. challenges[x] \in Challenge
    BY <1>3
  <2> QED
    BY <1>2, <1>4, <1>7, <2>1 DEF Challenge
<1>9. Successor(Fresh, x)
  BY <1>2, <1>3 DEF Challenge, Successor
<1> QED
  BY <1>1, <1>2, <1>6, <1>8, <1>9 DEF ChallengeEffect

LEMMA StartEffect ==
  ASSUME TypeOK, CallsSound, NEW c \in calls, c.op \in Starts, Unused # {},
         challenges' = Put(challenges, Fresh, Created(c))
  PROVE  ChallengeEffect
<1>1. Fresh \in ChallengeId /\ Fresh \notin DOMAIN challenges
  BY FreshIsUnused
<1>2. /\ DOMAIN challenges' = DOMAIN challenges \cup {Fresh}
      /\ challenges'[Fresh] = Created(c)
      /\ \A y \in DOMAIN challenges : challenges'[y] = challenges[y]
  BY <1>1 DEF Put
<1>3. \A y \in DOMAIN challenges : SameClaim(y)
  BY <1>2 DEF SameClaim, TypeOK
<1>4. /\ c.purpose \in Purpose /\ c.session \in SessionId \cup {None}
      /\ c.target \in Target /\ c.at \in Time
  BY DEF CallsSound, CallSound, Call
<1>5. c.at + Ttl \in 0..(MaxTime + Ttl)
  BY <1>4, NumbersAreNatural DEF Time
<1>6. Created(c) \in Challenge
  BY <1>4, <1>5 DEF Created, Challenge
<1> QED
  BY <1>1, <1>2, <1>3, <1>6 DEF ChallengeEffect, StartedBy

LEMMA NoChallengeEffect ==
  ASSUME TypeOK, UNCHANGED challenges
  PROVE  ChallengeEffect
BY DEF ChallengeEffect, SameClaim, TypeOK

\* What a call brings to its transaction.
LEMMA TakenCall ==
  ASSUME TypeOK, CallsSound, NEW c, NEW op, NEW purpose, Takes(c, op, purpose)
  PROVE  /\ c \in calls /\ c.op = op /\ c.purpose = purpose /\ c.at \in Time
         /\ CallSound(c) /\ calls' \subseteq calls
         /\ op \notin Starts => c.id \in DOMAIN challenges
BY DEF TypeOK, Takes, CallsSound, CallSound, Call

LEMMA StepChallenges ==
  ASSUME TypeOK, CallsSound, [Next]_vars
  PROVE  ChallengeEffect
<1>1. ASSUME NEW c \in calls, CommitStart(c)
      PROVE  ChallengeEffect
  BY <1>1, StartEffect DEF CommitStart, Takes
<1>2. ASSUME NEW c \in calls, CommitContactChange(c)
      PROVE  ChallengeEffect
  BY <1>2, ConsumeEffect DEF CommitContactChange, ResolvesOwnedContact, FindOtp
<1>3. ASSUME NEW c \in calls, CommitOtpReAuth(c)
      PROVE  ChallengeEffect
  BY <1>3, ConsumeEffect DEF CommitOtpReAuth, ResolvesOwnedReAuth, FindOtp
<1>4. ASSUME NEW c \in calls, CommitFinishOtp(c)
      PROVE  ChallengeEffect
  <2>1. c.id \in DOMAIN challenges
    BY <1>4, TakenCall DEF CommitFinishOtp, Starts
  <2> QED
    BY <1>4, <2>1, ConsumeEffect DEF CommitFinishOtp
<1>5. ASSUME NEW c \in calls, CommitRecovery(c)
      PROVE  ChallengeEffect
  BY <1>5, ConsumeEffect DEF CommitRecovery, IsRecoveryLink, FindOtp
<1>6. ASSUME NEW c \in calls, CommitOwnedResend(c)
      PROVE  ChallengeEffect
  <2>1. c.id \in DOMAIN challenges /\ c.at \in Time
    BY <1>6, TakenCall DEF CommitOwnedResend, Starts
  <2> QED
    BY <1>6, <2>1, ReplaceEffect DEF CommitOwnedResend
<1>7. ASSUME NEW c \in calls, CommitOwnedCancel(c)
      PROVE  ChallengeEffect
  <2>1. c.id \in DOMAIN challenges /\ c.at \in Time
    BY <1>7, TakenCall DEF CommitOwnedCancel, Starts
  <2> QED
    BY <1>7, <2>1, CancelEffect DEF CommitOwnedCancel
<1>8. ASSUME NEW x \in ChallengeId,
             ResendOtp(x) \/ ResendRecovery(x) \/ CancelVerification(x) \/ CancelRecovery(x)
               \/ ConsumeVerification(x)
      PROVE  ChallengeEffect
  <2>1. now \in Time
    BY DEF TypeOK
  <2>2. CASE ResendOtp(x)
    BY <2>1, <2>2, ReplaceEffect DEF ResendOtp
  <2>3. CASE ResendRecovery(x)
    BY <2>1, <2>3, ReplaceEffect DEF ResendRecovery, IsRecoveryLink, FindOtp
  <2>4. CASE CancelVerification(x) \/ CancelRecovery(x)
    BY <2>1, <2>4, CancelEffect DEF CancelVerification, CancelRecovery
  <2>5. CASE ConsumeVerification(x)
    BY <2>5, ConsumeEffect DEF ConsumeVerification
  <2> QED
    BY <1>8, <2>2, <2>3, <2>4, <2>5
<1>9. CASE UNCHANGED challenges
  BY <1>9, NoChallengeEffect
<1> QED
  BY <1>1, <1>2, <1>3, <1>4, <1>5, <1>6, <1>7, <1>8, <1>9
  DEF Next, vars, Await, StartContactChange, ResendContactChange, CancelContactChange,
      FinishContactChange, StartOtpReAuth, ResendOtpReAuth, CancelOtpReAuth, FinishOtpReAuth,
      StartOtp, FinishOtp, StartRecovery, FinishRecovery, Fail, ConfirmPassword, SetPassword,
      ChangePassword, UnlinkIdentity, RevokeOwnedSession, CloseAccount, Tick

-----------------------------------------------------------------------------
\* Presenting a marker that the policy accepts shows a recent authentication.
LEMMA AcceptedMarker ==
  ASSUME TypeOK, MarkerLists, NEW s \in SessionId, NEW p \in Proof, NEW t \in Time,
         NEW action \in RequireReAuthFor, EnsureReAuth(action, p, s, t)
  PROVE  ReAuthenticated(s, t)
<1>1. p # None /\ ~(p.at + MaxAge < t)
  BY DEF EnsureReAuth, RequiresReAuth
<1>2. p \in Marker /\ p.at <= t /\ p.session = s /\ Stored(p)
  BY <1>1 DEF EnsureReAuth, ResolvesMarker, Proof
<1>3. p.id \in Elements(sessions[s].markers) /\ issued[p.id].at = p.at
  BY <1>2 DEF Stored, Elements
<1>4. p.id \in 1..Len(issued) /\ issued[p.id].session = s
  BY <1>3 DEF MarkerLists, Lists, IssuedTo
<1>5. p.at \in Nat /\ t \in Nat /\ MaxAge \in Nat
  BY <1>2, NumbersAreNatural DEF Marker, Time
<1>6. t <= p.at + MaxAge
  BY <1>1, <1>5
<1> QED
  BY <1>2, <1>3, <1>4, <1>6 DEF ReAuthenticated

CallEffect == \A c \in calls' \ calls : CallSound(c)

\* A call on a stored challenge.
LEMMA CallOnIsSound ==
  ASSUME TypeOK, NEW op \in {"finish", "finishOtp", "resend", "cancel"},
         NEW s \in SessionId \cup {None}, NEW x \in DOMAIN challenges,
         op = "finish" => s \in SessionId \/ challenges[x].purpose = "recovery",
         Await(CallOn(op, s, x))
  PROVE  CallEffect
<1>1. x \in ChallengeId /\ challenges[x].purpose \in Purpose /\ now \in Time
  BY DEF TypeOK, Challenge
<1>2. CallSound(CallOn(op, s, x))
  BY <1>1 DEF CallSound, CallOn, Call, Starts
<1> QED
  BY <1>2 DEF CallEffect, Await

LEMMA StartIsSound ==
  ASSUME TypeOK, NEW op \in Starts, NEW purpose \in Purpose, NEW s \in SessionId \cup {None},
         NEW target \in Target,
         "updateContact" \in RequireReAuthFor /\ purpose = "contactChange" /\ s # None
           => ReAuthenticated(s, now),
         Await(StartCall(op, purpose, s, target))
  PROVE  CallEffect
<1>1. now \in Time
  BY DEF TypeOK
<1>2. CallSound(StartCall(op, purpose, s, target))
  BY <1>1 DEF CallSound, StartCall, Call, Starts
<1> QED
  BY <1>2 DEF CallEffect, Await

LEMMA StepCalls ==
  ASSUME TypeOK, MarkerLists, [Next]_vars
  PROVE  CallEffect
<1>1. ASSUME NEW s \in SessionId, NEW p \in Proof, NEW t \in Target, StartContactChange(s, p, t)
      PROVE  CallEffect
  <2>1. now \in Time
    BY DEF TypeOK
  <2>2. "updateContact" \in RequireReAuthFor => ReAuthenticated(s, now)
    BY <1>1, <2>1, AcceptedMarker DEF StartContactChange
  <2> QED
    BY <1>1, <2>2, StartIsSound DEF StartContactChange, Starts, Purpose
<1>2. ASSUME NEW s \in SessionId, NEW i \in identities, StartOtpReAuth(s, i)
      PROVE  CallEffect
  <2>1. i.target \in Target
    BY DEF TypeOK, Identity
  <2> QED
    BY <1>2, <2>1, StartIsSound DEF StartOtpReAuth, Starts, Purpose
<1>3. ASSUME NEW purpose \in PublicPurposes, NEW t \in Target, StartOtp(purpose, t)
      PROVE  CallEffect
  BY <1>3, PurposesKnown, StartIsSound DEF StartOtp, Starts
<1>4. ASSUME NEW t \in Target, StartRecovery(t)
      PROVE  CallEffect
  BY <1>4, StartIsSound DEF StartRecovery, Starts, Purpose
<1>5. ASSUME NEW s \in SessionId, NEW x \in ChallengeId,
             ResendContactChange(s, x) \/ CancelContactChange(s, x) \/ FinishContactChange(s, x)
      PROVE  CallEffect
  <2>1. x \in DOMAIN challenges
    BY <1>5 DEF ResendContactChange, CancelContactChange, FinishContactChange,
                ResolvesOwnedContact, FindOtp
  <2> QED
    BY <1>5, <2>1, CallOnIsSound DEF ResendContactChange, CancelContactChange, FinishContactChange
<1>6. ASSUME NEW s \in SessionId, NEW x \in ChallengeId,
             ResendOtpReAuth(s, x) \/ CancelOtpReAuth(s, x) \/ FinishOtpReAuth(s, x)
      PROVE  CallEffect
  <2>1. x \in DOMAIN challenges
    BY <1>6 DEF ResendOtpReAuth, CancelOtpReAuth, FinishOtpReAuth, ResolvesOwnedReAuth, FindOtp
  <2> QED
    BY <1>6, <2>1, CallOnIsSound DEF ResendOtpReAuth, CancelOtpReAuth, FinishOtpReAuth
<1>7. ASSUME NEW x \in ChallengeId, FinishOtp(x)
      PROVE  CallEffect
  BY <1>7, CallOnIsSound DEF FinishOtp
<1>8. ASSUME NEW x \in ChallengeId, FinishRecovery(x)
      PROVE  CallEffect
  BY <1>8, CallOnIsSound DEF FinishRecovery, IsRecoveryLink, FindOtp
<1>9. CASE calls' \subseteq calls
  BY <1>9 DEF CallEffect
<1> QED
  BY <1>1, <1>2, <1>3, <1>4, <1>5, <1>6, <1>7, <1>8, <1>9
  DEF Next, vars, Takes, CommitStart, CommitContactChange, CommitOtpReAuth, CommitFinishOtp,
      CommitRecovery, CommitOwnedResend, CommitOwnedCancel, Fail, ResendOtp, ResendRecovery,
      CancelVerification, CancelRecovery, ConsumeVerification, ConfirmPassword, SetPassword,
      ChangePassword, UnlinkIdentity, RevokeOwnedSession, CloseAccount, Tick

-----------------------------------------------------------------------------
\* The contact of u is its previous one, or the target of a code of u's.
ContactEffect(u) ==
  \/ accounts'[u].contact = accounts[u].contact /\ accounts'[u].contactBy = accounts[u].contactBy
  \/ \E x \in DOMAIN challenges :
       /\ accounts'[u].contactBy = x /\ accounts'[u].contact = challenges[x].target
       /\ challenges[x].purpose = "contactChange" /\ challenges'[x].consumed
       /\ challenges[x].session \in SessionId /\ UserOf[challenges[x].session] = u
       /\ ~accounts[u].closed /\ sessions[challenges[x].session].active

PasswordEffect(u) ==
  \/ accounts'[u].password = accounts[u].password /\ accounts'[u].passwordBy = accounts[u].passwordBy
  \/ accounts'[u].passwordBy = None
  \/ \E x \in DOMAIN challenges :
       /\ accounts'[u].passwordBy = x /\ accounts'[u].password = challenges[x].target
       /\ challenges[x].purpose = "recovery" /\ challenges[x].provider = "password"
       /\ challenges'[x].consumed

AccountEffect ==
  /\ accounts' \in [User -> Account]
  /\ \A u \in User : ContactEffect(u) /\ PasswordEffect(u)

LEMMA OneAccountChanged ==
  ASSUME NEW v \in User, accounts' \in [User -> Account],
         \A u \in User : u # v => accounts'[u] = accounts[u],
         ContactEffect(v), PasswordEffect(v)
  PROVE  AccountEffect
<1>1. \A u \in User : u # v => ContactEffect(u) /\ PasswordEffect(u)
  BY DEF ContactEffect, PasswordEffect
<1> QED
  BY <1>1 DEF AccountEffect

LEMMA StepAccounts ==
  ASSUME TypeOK, CallsSound, [Next]_vars
  PROVE  AccountEffect
<1>1. accounts \in [User -> Account] /\ UserOf \in [SessionId -> User]
  BY SessionsHaveUsers DEF TypeOK
<1>2. ASSUME NEW c \in calls, CommitContactChange(c)
      PROVE  AccountEffect
  <2>1. /\ c.session \in SessionId /\ c.id \in DOMAIN challenges
        /\ challenges[c.id].purpose = "contactChange" /\ challenges[c.id].session = c.session
        /\ Resolves(c.session, c.at)
        /\ accounts' = [accounts EXCEPT ![UserOf[c.session]].contact = challenges[c.id].target,
                                        ![UserOf[c.session]].contactBy = c.id]
    <3>1. Takes(c, "finish", "contactChange") /\ ResolvesOwnedContact(c.session, c.id, c.at)
      BY <1>2 DEF CommitContactChange
    <3>2. CallSound(c) /\ c.op = "finish" /\ c.purpose = "contactChange"
      BY <3>1, TakenCall
    <3> QED
      BY <1>2, <3>1, <3>2 DEF CommitContactChange, ResolvesOwnedContact, FindOtp, CallSound
  <2>2. challenges'[c.id].consumed
    BY <1>2, <2>1, ConsumeEffect DEF CommitContactChange
  <2>3. c.id \in ChallengeId /\ challenges[c.id].target \in Target
    BY <2>1 DEF TypeOK, Challenge
  <2> DEFINE v == UserOf[c.session]
  <2>4. /\ v \in User
        /\ accounts'[v] = [accounts[v] EXCEPT !.contact = challenges[c.id].target,
                                              !.contactBy = c.id]
        /\ \A u \in User : u # v => accounts'[u] = accounts[u]
        /\ DOMAIN accounts' = User
    BY <1>1, <2>1
  <2>5. accounts' \in [User -> Account]
    BY <1>1, <2>1, <2>3 DEF Account
  <2>6. accounts'[v].contact = challenges[c.id].target /\ accounts'[v].contactBy = c.id
    BY <1>1, <2>4 DEF Account
  <2>7. ContactEffect(v)
    BY <2>1, <2>2, <2>6 DEF ContactEffect, Resolves
  <2>8. PasswordEffect(v)
    BY <1>1, <2>4 DEF PasswordEffect, Account
  <2> QED
    BY <1>1, <2>1, <2>4, <2>5, <2>7, <2>8, OneAccountChanged
<1>3. ASSUME NEW c \in calls, CommitRecovery(c)
      PROVE  AccountEffect
  <2>1. /\ c.id \in DOMAIN challenges /\ c.id \in ChallengeId
        /\ challenges[c.id].purpose = "recovery" /\ challenges[c.id].provider = "password"
    BY <1>3 DEF CommitRecovery, IsRecoveryLink, FindOtp, TypeOK
  <2>2. challenges'[c.id].consumed
    BY <1>3, <2>1, ConsumeEffect DEF CommitRecovery
  <2>3. PICK v \in User : /\ accounts[v].password = challenges[c.id].target
                          /\ accounts' = [accounts EXCEPT ![v].passwordBy = c.id]
    BY <1>3 DEF CommitRecovery
  <2>4. /\ accounts'[v] = [accounts[v] EXCEPT !.passwordBy = c.id]
        /\ \A u \in User : u # v => accounts'[u] = accounts[u]
    BY <1>1, <2>3
  <2>5. accounts' \in [User -> Account]
    BY <1>1, <2>1, <2>3 DEF Account
  <2>6. ContactEffect(v) /\ PasswordEffect(v)
    BY <1>1, <2>1, <2>2, <2>3, <2>4 DEF ContactEffect, PasswordEffect, Account
  <2> QED
    BY <1>1, <2>1, <2>4, <2>5, <2>6, OneAccountChanged
<1>4. ASSUME NEW s \in SessionId, NEW p \in Proof, SetPassword(s, p)
      PROVE  AccountEffect
  <2> DEFINE v == UserOf[s]
  <2>1. v \in User
    BY <1>1
  <2>2. /\ accounts[v].contact # None
        /\ accounts' = [accounts EXCEPT ![v].password = accounts[v].contact, ![v].passwordBy = None]
    BY <1>4 DEF SetPassword
  <2>3. /\ accounts'[v] = [accounts[v] EXCEPT !.password = accounts[v].contact, !.passwordBy = None]
        /\ \A u \in User : u # v => accounts'[u] = accounts[u]
    BY <1>1, <2>1, <2>2
  <2>4. accounts' \in [User -> Account]
    <3>1. accounts[v] \in Account /\ accounts[v].contact \in Target
      BY <1>1, <2>1, <2>2 DEF Account
    <3>2. accounts'[v] \in Account
      BY <2>3, <3>1 DEF Account
    <3>3. DOMAIN accounts' = User /\ accounts' = [u \in User |-> accounts'[u]]
      BY <1>1, <2>2
    <3> QED
      BY <1>1, <2>3, <3>2, <3>3
  <2>5. ContactEffect(v)
    BY <1>1, <2>1, <2>3 DEF ContactEffect, Account
  <2>6. PasswordEffect(v)
    BY <1>1, <2>1, <2>3 DEF PasswordEffect, Account
  <2> QED
    BY <2>1, <2>3, <2>4, <2>5, <2>6, OneAccountChanged
<1>5. ASSUME NEW s \in SessionId, NEW p \in Proof, ChangePassword(s, p)
      PROVE  AccountEffect
  <2> DEFINE v == UserOf[s]
  <2>1. v \in User /\ accounts' = [accounts EXCEPT ![v].passwordBy = None]
    BY <1>1, <1>5 DEF ChangePassword, ReplacePassword
  <2>2. /\ accounts'[v] = [accounts[v] EXCEPT !.passwordBy = None]
        /\ \A u \in User : u # v => accounts'[u] = accounts[u]
    BY <1>1, <2>1
  <2>3. accounts' \in [User -> Account]
    BY <1>1, <2>1 DEF Account
  <2>4. ContactEffect(v) /\ PasswordEffect(v)
    BY <1>1, <2>1, <2>2 DEF ContactEffect, PasswordEffect, Account
  <2> QED
    BY <2>1, <2>2, <2>3, <2>4, OneAccountChanged
<1>6. ASSUME NEW s \in SessionId, NEW p \in Proof, CloseAccount(s, p)
      PROVE  AccountEffect
  <2> DEFINE v == UserOf[s]
  <2>1. v \in User /\ accounts' = [accounts EXCEPT ![v].closed = TRUE]
    BY <1>1, <1>6 DEF CloseAccount
  <2>2. /\ accounts'[v] = [accounts[v] EXCEPT !.closed = TRUE]
        /\ \A u \in User : u # v => accounts'[u] = accounts[u]
    BY <1>1, <2>1
  <2>3. accounts' \in [User -> Account]
    BY <1>1, <2>1 DEF Account
  <2>4. ContactEffect(v) /\ PasswordEffect(v)
    BY <1>1, <2>1, <2>2 DEF ContactEffect, PasswordEffect, Account
  <2> QED
    BY <2>1, <2>2, <2>3, <2>4, OneAccountChanged
<1>7. CASE UNCHANGED accounts
  BY <1>1, <1>7 DEF AccountEffect, ContactEffect, PasswordEffect
<1> QED
  BY <1>2, <1>3, <1>4, <1>5, <1>6, <1>7
  DEF Next, vars, Await, StartContactChange, ResendContactChange, CancelContactChange,
      FinishContactChange, StartOtpReAuth, ResendOtpReAuth, CancelOtpReAuth, FinishOtpReAuth,
      StartOtp, FinishOtp, StartRecovery, FinishRecovery, CommitStart, CommitOtpReAuth,
      CommitFinishOtp, CommitOwnedResend, CommitOwnedCancel, Fail, ResendOtp, ResendRecovery,
      CancelVerification, CancelRecovery, ConsumeVerification, ConfirmPassword, UnlinkIdentity,
      RevokeOwnedSession, Tick

-----------------------------------------------------------------------------
\* A marker is issued in the live session s, for the code of challenge x if any.
MarkerFrom(s, t, x) ==
  /\ IssueMarker(s, t, x) /\ Resolves(s, t)
  /\ x # None =>
       /\ x \in DOMAIN challenges /\ ~challenges[x].consumed /\ challenges'[x].consumed
       /\ challenges[x].purpose = "reAuth" /\ challenges[x].session = s
       /\ OwnsTarget(UserOf[s], challenges[x].target)

MarkersKept ==
  /\ issued' = issued
  /\ sessions' \in [SessionId -> [active : BOOLEAN, markers : Seq(1..MaxIssued)]]
  /\ \A s \in SessionId : sessions'[s].markers = sessions[s].markers

MarkerEffect ==
  \/ MarkersKept
  \/ \E s \in SessionId, t \in Time, x \in ChallengeId \cup {None} : MarkerFrom(s, t, x)

LEMMA StepMarkers ==
  ASSUME TypeOK, CallsSound, [Next]_vars
  PROVE  MarkerEffect
<1>1. ASSUME NEW c \in calls, CommitOtpReAuth(c)
      PROVE  MarkerEffect
  <2>1. /\ Takes(c, "finish", "reAuth") /\ ResolvesOwnedReAuth(c.session, c.id, c.at)
        /\ Consume(c.id, c.at) /\ IssueMarker(c.session, c.at, c.id)
    BY <1>1 DEF CommitOtpReAuth
  <2>2. /\ CallSound(c) /\ c.op = "finish" /\ c.purpose = "reAuth" /\ c.at \in Time
    BY <2>1, TakenCall
  <2>3. c.session \in SessionId /\ c.id \in DOMAIN challenges /\ c.id \in ChallengeId
    BY <2>1, <2>2 DEF CallSound, ResolvesOwnedReAuth, FindOtp, TypeOK
  <2>4. ~challenges[c.id].consumed /\ challenges'[c.id].consumed
    BY <2>1, <2>3, ConsumeEffect
  <2>5. MarkerFrom(c.session, c.at, c.id)
    BY <2>1, <2>3, <2>4 DEF MarkerFrom, ResolvesOwnedReAuth, FindOtp
  <2> QED
    BY <2>2, <2>3, <2>5 DEF MarkerEffect
<1>2. ASSUME NEW s \in SessionId, ConfirmPassword(s)
      PROVE  MarkerEffect
  <2>1. MarkerFrom(s, now, None) /\ now \in Time
    BY <1>2 DEF ConfirmPassword, MarkerFrom, TypeOK
  <2> QED
    BY <2>1 DEF MarkerEffect
<1>3. sessions \in [SessionId -> [active : BOOLEAN, markers : Seq(1..MaxIssued)]]
  BY DEF TypeOK
<1>4. ASSUME NEW s \in SessionId, NEW r \in SessionId, RevokeOwnedSession(s, r)
      PROVE  MarkerEffect
  BY <1>3, <1>4 DEF RevokeOwnedSession, MarkerEffect, MarkersKept
<1>5. ASSUME NEW s \in SessionId, NEW p \in Proof, CloseAccount(s, p)
      PROVE  MarkerEffect
  <2>1. /\ issued' = issued
        /\ sessions' = [r \in SessionId |->
             IF UserOf[r] = UserOf[s] THEN [sessions[r] EXCEPT !.active = FALSE] ELSE sessions[r]]
    BY <1>5 DEF CloseAccount
  <2>2. \A r \in SessionId :
          /\ sessions'[r] \in [active : BOOLEAN, markers : Seq(1..MaxIssued)]
          /\ sessions'[r].markers = sessions[r].markers
    BY <1>3, <2>1
  <2>3. sessions' \in [SessionId -> [active : BOOLEAN, markers : Seq(1..MaxIssued)]]
    BY <2>1, <2>2
  <2> QED
    BY <2>1, <2>2, <2>3 DEF MarkerEffect, MarkersKept
<1>6. CASE UNCHANGED <<sessions, issued>>
  BY <1>3, <1>6 DEF MarkerEffect, MarkersKept
<1> QED
  BY <1>1, <1>2, <1>4, <1>5, <1>6
  DEF Next, vars, Await, StartContactChange, ResendContactChange, CancelContactChange,
      FinishContactChange, StartOtpReAuth, ResendOtpReAuth, CancelOtpReAuth, FinishOtpReAuth,
      StartOtp, FinishOtp, StartRecovery, FinishRecovery, CommitStart, CommitContactChange,
      CommitFinishOtp, CommitRecovery, CommitOwnedResend, CommitOwnedCancel, Fail, ResendOtp,
      ResendRecovery, CancelVerification, CancelRecovery, ConsumeVerification, SetPassword,
      ChangePassword, UnlinkIdentity, Tick

\* What putting a marker in front of a list and cutting the list gives.
LEMMA KeepFront ==
  ASSUME NEW L \in Seq(1..MaxIssued), Len(L) <= MaxMarkers, NEW k \in 1..MaxIssued,
         NEW K, K = Keep(<<k>> \o L)
  PROVE  /\ K \in Seq(1..MaxIssued)
         /\ Len(K) = IF Len(L) < MaxMarkers THEN Len(L) + 1 ELSE MaxMarkers
         /\ Len(K) \in Nat \ {0} /\ Len(K) <= Len(L) + 1 /\ Len(L) \in Nat
         /\ K[1] = k
         /\ \A n \in 1..Len(K) : n # 1 => n - 1 \in 1..Len(L) /\ K[n] = L[n - 1]
<1> DEFINE M == <<k>> \o L
           size == IF Len(M) < MaxMarkers THEN Len(M) ELSE MaxMarkers
<1>1. /\ M \in Seq(1..MaxIssued) /\ Len(M) = 1 + Len(L) /\ Len(L) \in Nat
      /\ \A i \in 1..(1 + Len(L)) : M[i] = IF i <= 1 THEN k ELSE L[i - 1]
  <2>1. /\ <<k>> \in Seq(1..MaxIssued) /\ Len(<<k>>) = 1 /\ <<k>>[1] = k
    OBVIOUS
  <2> HIDE DEF M
  <2>2. /\ M \in Seq(1..MaxIssued) /\ Len(M) = Len(<<k>>) + Len(L)
        /\ \A i \in 1..(Len(<<k>>) + Len(L)) :
             M[i] = IF i <= Len(<<k>>) THEN <<k>>[i] ELSE L[i - Len(<<k>>)]
    BY <2>1, ConcatProperties DEF M
  <2>3. Len(L) \in Nat
    BY LenProperties
  <2>4. \A i \in 1..(1 + Len(L)) : i <= 1 => i = 1
    BY <2>3
  <2> QED
    BY <2>1, <2>2, <2>3, <2>4
<1>2. size \in 1..Len(M) /\ size = IF Len(L) < MaxMarkers THEN Len(L) + 1 ELSE MaxMarkers
  BY <1>1, NumbersAreNatural
<1>3. K = SubSeq(M, 1, size)
  BY DEF Keep
<1> HIDE DEF M, size
<1>4. ASSUME NEW i \in 1..size
      PROVE  M[i] \in 1..MaxIssued
  <2>1. Len(M) \in Nat /\ size \in 1..Len(M)
    BY <1>1, <1>2
  <2>2. i \in 1..Len(M)
    BY <2>1
  <2> QED
    BY <1>1, <2>2, ElementOfSeq
<1>5. /\ SubSeq(M, 1, size) \in Seq(1..MaxIssued)
      /\ Len(SubSeq(M, 1, size)) = IF 1 <= size THEN size - 1 + 1 ELSE 0
      /\ \A i \in 1..(size - 1 + 1) : SubSeq(M, 1, size)[i] = M[1 + i - 1]
  BY <1>1, <1>2, <1>4, SubSeqProperties
<1>6. size \in Nat \ {0} /\ size - 1 + 1 = size /\ size <= 1 + Len(L)
  BY <1>1, <1>2
<1>7. Len(K) = size /\ \A i \in 1..size : K[i] = M[i]
  BY <1>3, <1>5, <1>6
<1>8. \A i \in 1..size : i # 1 => i - 1 \in 1..Len(L) /\ K[i] = L[i - 1]
  BY <1>1, <1>6, <1>7
<1>9. K[1] = k
  BY <1>1, <1>6, <1>7
<1>10. Len(K) = IF Len(L) < MaxMarkers THEN Len(L) + 1 ELSE MaxMarkers
  BY <1>2, <1>7
<1>11. Len(K) \in Nat \ {0} /\ Len(K) <= Len(L) + 1 /\ Len(L) \in Nat
  BY <1>1, <1>6, <1>7
<1>12. \A n \in 1..Len(K) : n # 1 => n - 1 \in 1..Len(L) /\ K[n] = L[n - 1]
  BY <1>7, <1>8
<1> QED
  BY <1>3, <1>5, <1>9, <1>10, <1>11, <1>12

\* The history of markers grows by one, and so does the list of session s.
LEMMA IssueStep ==
  ASSUME TypeOK, NEW s \in SessionId, NEW t \in Time, NEW x \in ChallengeId \cup {None},
         IssueMarker(s, t, x)
  PROVE  /\ issued' \in Seq([session : SessionId, at : Time, by : ChallengeId \cup {None}])
         /\ Len(issued) \in Nat /\ Len(issued') = Len(issued) + 1 /\ Len(issued') <= MaxIssued
         /\ Len(issued') \in 1..MaxIssued
         /\ \A n \in 1..Len(issued) : n \in 1..Len(issued') /\ issued'[n] = issued[n]
         /\ \A n \in 1..Len(issued') : n \in 1..Len(issued) \/ n = Len(issued')
         /\ issued'[Len(issued')] = [session |-> s, at |-> t, by |-> x]
         /\ sessions'[s].markers = Keep(<<Len(issued')>> \o sessions[s].markers)
         /\ \A r \in SessionId : r # s => sessions'[r] = sessions[r]
<1> DEFINE e == [session |-> s, at |-> t, by |-> x]
           R == [session : SessionId, at : Time, by : ChallengeId \cup {None}]
<1>1. issued \in Seq(R) /\ e \in R /\ issued' = Append(issued, e) /\ Len(issued) < MaxIssued
  BY DEF IssueMarker, TypeOK
<1> HIDE DEF R
<1>2. /\ issued' \in Seq(R) /\ Len(issued') = Len(issued) + 1
      /\ \A n \in 1..Len(issued) : issued'[n] = issued[n]
      /\ issued'[Len(issued) + 1] = e
  BY <1>1, AppendProperties
<1>3. Len(issued) \in Nat
  BY <1>1, LenProperties
<1>4. Len(issued') \in 1..MaxIssued /\ Len(issued') <= MaxIssued
  BY <1>1, <1>2, <1>3, NumbersAreNatural
<1>5. /\ \A n \in 1..Len(issued) : n \in 1..Len(issued')
      /\ \A n \in 1..Len(issued') : n \in 1..Len(issued) \/ n = Len(issued')
  BY <1>2, <1>3
<1>6. /\ sessions'[s].markers = Keep(<<Len(issued')>> \o sessions[s].markers)
      /\ \A r \in SessionId : r # s => sessions'[r] = sessions[r]
  BY <1>2 DEF IssueMarker, TypeOK
<1> QED
  BY <1>2, <1>3, <1>4, <1>5, <1>6 DEF R

\* A list that gets marker k in front, and is cut, lists the markers with k.
LEMMA ListKept ==
  ASSUME NEW N \in Nat, NEW I \in SUBSET (1..N), NEW L \in Seq(1..MaxIssued), Lists(L, I),
         NEW k \in 1..MaxIssued, k = N + 1, NEW K, K = Keep(<<k>> \o L)
  PROVE  K \in Seq(1..MaxIssued) /\ Lists(K, I \cup {k})
<1> DEFINE S == Elements(L)
<1>1. Len(L) <= MaxMarkers
  BY DEF Lists
<1>2. /\ K \in Seq(1..MaxIssued)
      /\ Len(K) = IF Len(L) < MaxMarkers THEN Len(L) + 1 ELSE MaxMarkers
      /\ Len(K) \in Nat \ {0} /\ Len(K) <= Len(L) + 1 /\ Len(L) \in Nat
      /\ K[1] = k
      /\ \A n \in 1..Len(K) : n # 1 => n - 1 \in 1..Len(L) /\ K[n] = L[n - 1]
  BY <1>1, KeepFront
<1>3. /\ \A n \in 1..Len(L) : L[n] \in S
      /\ \A x \in S : \E n \in 1..Len(L) : x = L[n]
      /\ \A n \in 1..Len(K) : K[n] \in Elements(K)
      /\ \A x \in Elements(K) : \E n \in 1..Len(K) : x = K[n]
  BY DEF Elements
<1>4. \A m, n \in 1..Len(L) : m < n => L[n] < L[m]
  BY DEF Lists
<1>5. /\ S \subseteq I /\ IsFiniteSet(S) /\ Cardinality(S) = Len(L)
      /\ \A m \in I \ S : Len(L) = MaxMarkers /\ \A n \in S : m < n
  BY DEF Lists
<1>6. MaxMarkers \in Nat \ {0}
  BY NumbersAreNatural
<1> HIDE DEF S
<1>7. \A m \in I : m < k /\ m \in Nat
  OBVIOUS
<1>8. k \notin S /\ \A n \in S : n < k /\ n \in Nat
  BY <1>5, <1>7
<1>9. Len(K) <= MaxMarkers
  BY <1>1, <1>2, <1>6
<1>10. \A m, n \in 1..Len(K) : m < n => K[n] < K[m]
  <2> SUFFICES ASSUME NEW m \in 1..Len(K), NEW n \in 1..Len(K), m < n
               PROVE  K[n] < K[m]
    OBVIOUS
  <2>1. n # 1 /\ n - 1 \in 1..Len(L) /\ K[n] = L[n - 1]
    BY <1>2
  <2>2. CASE m = 1
    BY <1>2, <1>3, <1>8, <2>1, <2>2
  <2>3. CASE m # 1
    <3>1. m - 1 \in 1..Len(L) /\ K[m] = L[m - 1] /\ m - 1 < n - 1
      BY <1>2, <2>3
    <3> QED
      BY <1>4, <2>1, <3>1
  <2> QED
    BY <2>2, <2>3
<1>11. IsFiniteSet(S \cup {k}) /\ Cardinality(S \cup {k}) = Len(L) + 1
  BY <1>5, <1>8, FS_AddElement
<1>12. 1 \in 1..Len(K) /\ k \in Elements(K) /\ Elements(K) \subseteq S \cup {k}
  <2>1. 1 \in 1..Len(K)
    BY <1>2
  <2>2. \A n \in 1..Len(K) : K[n] \in S \cup {k}
    BY <1>2, <1>3
  <2>3. k \in Elements(K)
    BY <1>2, <1>3, <2>1
  <2>4. Elements(K) \subseteq S \cup {k}
    BY <2>2 DEF Elements
  <2> QED
    BY <2>1, <2>3, <2>4
<1>13. CASE Len(L) < MaxMarkers
  <2>1. Len(K) = Len(L) + 1
    BY <1>2, <1>13
  <2>2. ASSUME NEW x \in S PROVE x \in Elements(K)
    <3>1. PICK n \in 1..Len(L) : x = L[n]
      BY <1>3
    <3>2. n + 1 \in 1..Len(K) /\ n + 1 # 1 /\ n + 1 - 1 = n
      BY <1>2, <2>1
    <3>3. K[n + 1] = x
      BY <1>2, <3>1, <3>2
    <3> QED
      BY <1>3, <3>2, <3>3
  <2>3. Elements(K) = S \cup {k}
    BY <1>12, <2>2
  <2>4. I \subseteq S
    BY <1>2, <1>5, <1>6, <1>13
  <2> QED
    BY <1>2, <1>5, <1>9, <1>10, <1>11, <2>1, <2>3, <2>4 DEF Lists
<1>14. CASE ~(Len(L) < MaxMarkers)
  <2>1. Len(K) = MaxMarkers /\ Len(L) = MaxMarkers /\ MaxMarkers \in 1..Len(L)
    BY <1>1, <1>2, <1>6, <1>14
  <2> DEFINE old == L[MaxMarkers]
  <2>2. old \in S /\ old < k /\ old \in Nat
    BY <1>3, <1>8, <2>1
  <2>3. \A n \in 1..Len(L) : n # MaxMarkers => old < L[n]
    <3>1. \A n \in 1..Len(L) : n # MaxMarkers => n < MaxMarkers
      BY <1>2, <2>1
    <3> QED
      BY <1>4, <2>1, <3>1
  <2>4. \A n \in S : n # old => old < n
    BY <1>3, <2>3
  <2> HIDE DEF old
  <2>5. old \notin Elements(K)
    <3> SUFFICES ASSUME NEW n \in 1..Len(K), K[n] = old PROVE FALSE
      BY <1>3
    <3>1. n # 1
      BY <1>2, <2>2
    <3>2. n - 1 \in 1..Len(L) /\ n - 1 # MaxMarkers /\ L[n - 1] = old
      BY <1>2, <2>1, <3>1
    <3> QED
      BY <2>2, <2>3, <3>2
  <2>6. ASSUME NEW x \in S, x # old PROVE x \in Elements(K)
    <3>1. PICK n \in 1..Len(L) : x = L[n]
      BY <1>3
    <3>2. n # MaxMarkers
      BY <2>6, <3>1 DEF old
    <3>3. n + 1 \in 1..Len(K) /\ n + 1 # 1 /\ n + 1 - 1 = n
      BY <1>2, <2>1, <3>2
    <3>4. K[n + 1] = x
      BY <1>2, <3>1, <3>3
    <3> QED
      BY <1>3, <3>3, <3>4
  <2>7. Elements(K) = (S \cup {k}) \ {old}
    BY <1>12, <2>5, <2>6
  <2>8. IsFiniteSet((S \cup {k}) \ {old}) /\ Cardinality((S \cup {k}) \ {old}) = Len(L) + 1 - 1
    <3> DEFINE T == S \cup {k}
    <3>1. old \in T /\ IsFiniteSet(T) /\ Cardinality(T) = Len(L) + 1
      BY <1>11, <2>2
    <3> HIDE DEF T
    <3>2. IsFiniteSet(T \ {old}) /\ Cardinality(T \ {old}) = Cardinality(T) - 1
      BY <3>1, FS_RemoveElement
    <3> QED
      BY <3>1, <3>2 DEF T
  <2>9. Len(L) + 1 - 1 = Len(K)
    BY <1>2, <2>1
  <2>10. \A m \in (I \cup {k}) \ Elements(K) : \A n \in Elements(K) : m < n
    <3>1. \A m \in (I \cup {k}) \ Elements(K) : m = old \/ m \in I \ S
      BY <2>7
    <3>2. \A n \in Elements(K) : old < n
      BY <2>2, <2>4, <2>7
    <3>3. \A m \in I \ S : \A n \in Elements(K) : m < n
      BY <1>5, <1>7, <1>12
    <3> QED
      BY <3>1, <3>2, <3>3
  <2>11. Elements(K) \subseteq I \cup {k}
    BY <1>5, <1>12
  <2> QED
    BY <1>2, <1>9, <1>10, <2>1, <2>7, <2>8, <2>9, <2>10, <2>11 DEF Lists
<1> QED
  BY <1>13, <1>14

LEMMA MarkerListsStep ==
  ASSUME TypeOK, MarkerLists, MarkerEffect
  PROVE  /\ MarkerLists'
         /\ sessions' \in [SessionId -> [active : BOOLEAN, markers : Seq(1..MaxIssued)]]
<1>1. CASE MarkersKept
  <2>1. \A s \in SessionId : IssuedTo(s)' = IssuedTo(s)
    BY <1>1 DEF MarkersKept, IssuedTo
  <2>2. ASSUME NEW s \in SessionId
        PROVE  Lists(sessions[s].markers, IssuedTo(s))'
    <3>1. sessions'[s].markers = sessions[s].markers /\ IssuedTo(s)' = IssuedTo(s)
      BY <1>1, <2>1 DEF MarkersKept
    <3>2. Lists(sessions[s].markers, IssuedTo(s))
      BY DEF MarkerLists
    <3> QED
      BY <3>1, <3>2 DEF Lists, Elements
  <2> QED
    BY <1>1, <2>2 DEF MarkersKept, MarkerLists
<1>2. ASSUME NEW s \in SessionId, NEW t \in Time, NEW x \in ChallengeId \cup {None},
             IssueMarker(s, t, x)
      PROVE  /\ MarkerLists'
             /\ sessions' \in [SessionId -> [active : BOOLEAN, markers : Seq(1..MaxIssued)]]
  <2> DEFINE L == sessions[s].markers
             K == sessions'[s].markers
             k == Len(issued')
             I == IssuedTo(s)
  <2>1. /\ k \in 1..MaxIssued /\ k = Len(issued) + 1 /\ Len(issued) \in Nat
        /\ K = Keep(<<k>> \o L)
        /\ \A r \in SessionId : r # s => sessions'[r] = sessions[r]
        /\ \A n \in 1..Len(issued) : n \in 1..k /\ issued'[n] = issued[n]
        /\ \A n \in 1..k : n \in 1..Len(issued) \/ n = k
        /\ issued'[k] = [session |-> s, at |-> t, by |-> x]
    BY <1>2, IssueStep
  <2>2. L \in Seq(1..MaxIssued) /\ Lists(L, I) /\ I \in SUBSET (1..Len(issued))
    BY DEF TypeOK, MarkerLists, IssuedTo
  <2>3. IssuedTo(s)' = I \cup {k}
    <3>1. \A n \in 1..k : issued'[n].session = s <=> n \in I \cup {k}
      BY <2>1 DEF IssuedTo
    <3>2. I \cup {k} \subseteq 1..k
      BY <2>1 DEF IssuedTo
    <3> HIDE DEF I
    <3> QED
      BY <3>1, <3>2 DEF IssuedTo
  <2>4. \A r \in SessionId : r # s => IssuedTo(r)' = IssuedTo(r)
    <3> SUFFICES ASSUME NEW r \in SessionId, r # s PROVE IssuedTo(r)' = IssuedTo(r)
      OBVIOUS
    <3>1. \A n \in 1..k : issued'[n].session = r <=> n \in IssuedTo(r)
      BY <2>1 DEF IssuedTo
    <3>2. IssuedTo(r) \subseteq 1..k
      BY <2>1 DEF IssuedTo
    <3> QED
      BY <3>1, <3>2 DEF IssuedTo
  <2>5. K \in Seq(1..MaxIssued) /\ Lists(K, I \cup {k})
    <3> HIDE DEF K, L, k, I
    <3> QED
      BY <2>1, <2>2, ListKept
  <2>6. Lists(sessions[s].markers, IssuedTo(s))'
    BY <2>3, <2>5 DEF Lists, Elements
  <2>7. ASSUME NEW r \in SessionId, r # s
        PROVE  Lists(sessions[r].markers, IssuedTo(r))'
    <3>1. sessions'[r].markers = sessions[r].markers /\ IssuedTo(r)' = IssuedTo(r)
      BY <2>1, <2>4, <2>7
    <3>2. Lists(sessions[r].markers, IssuedTo(r))
      BY DEF MarkerLists
    <3> QED
      BY <3>1, <3>2 DEF Lists, Elements
  <2>8. sessions' \in [SessionId -> [active : BOOLEAN, markers : Seq(1..MaxIssued)]]
    <3>1. sessions' = [sessions EXCEPT ![s].markers = K]
      BY <1>2 DEF IssueMarker, TypeOK
    <3> HIDE DEF K
    <3> QED
      BY <2>5, <3>1 DEF TypeOK
  <2> QED
    BY <2>6, <2>7, <2>8 DEF MarkerLists
<1> QED
  BY <1>1, <1>2 DEF MarkerEffect, MarkerFrom

-----------------------------------------------------------------------------
\* The history of markers keeps what it has.
LEMMA IssuedGrows ==
  ASSUME TypeOK, MarkerEffect
  PROVE  /\ issued' \in Seq([session : SessionId, at : Time, by : ChallengeId \cup {None}])
         /\ Len(issued') <= MaxIssued
         /\ \A n \in 1..Len(issued) : n \in 1..Len(issued') /\ issued'[n] = issued[n]
<1>1. CASE MarkersKept
  BY <1>1 DEF MarkersKept, TypeOK
<1>2. ASSUME NEW s \in SessionId, NEW t \in Time, NEW x \in ChallengeId \cup {None},
             IssueMarker(s, t, x)
      PROVE  /\ issued' \in Seq([session : SessionId, at : Time, by : ChallengeId \cup {None}])
             /\ Len(issued') <= MaxIssued
             /\ \A n \in 1..Len(issued) : n \in 1..Len(issued') /\ issued'[n] = issued[n]
  BY <1>2, IssueStep
<1> QED
  BY <1>1, <1>2 DEF MarkerEffect, MarkerFrom

LEMMA ReAuthenticationLasts ==
  ASSUME TypeOK, MarkerEffect, NEW s, NEW t, ReAuthenticated(s, t)
  PROVE  ReAuthenticated(s, t)'
<1>1. PICK n \in 1..Len(issued) :
        issued[n].session = s /\ issued[n].at <= t /\ t <= issued[n].at + MaxAge
  BY DEF ReAuthenticated
<1>2. n \in 1..Len(issued') /\ issued'[n] = issued[n]
  BY IssuedGrows
<1> QED
  BY <1>1, <1>2 DEF ReAuthenticated

LEMMA CallsSoundStep ==
  ASSUME TypeOK, CallsSound, MarkerEffect, ChallengeEffect, CallEffect
  PROVE  CallsSound'
<1> SUFFICES ASSUME NEW c \in calls' PROVE CallSound(c)'
  BY DEF CallsSound
<1>1. CallSound(c)
  BY DEF CallsSound, CallEffect
<1>2. ReAuthenticated(c.session, c.at) => ReAuthenticated(c.session, c.at)'
  BY ReAuthenticationLasts
<1>3. DOMAIN challenges \subseteq DOMAIN challenges'
  BY DEF ChallengeEffect
<1> QED
  BY <1>1, <1>2, <1>3 DEF CallSound

LEMMA StepRest ==
  ASSUME TypeOK, [Next]_vars
  PROVE  now' \in Time /\ identities' \subseteq Identity /\ offered' \in Applications
<1>1. now \in Time /\ identities \subseteq Identity /\ offered \in Applications
  BY DEF TypeOK
<1>2. CASE Tick
  <2>1. now' \in Time
    BY <1>1, <1>2, NumbersAreNatural DEF Tick, Time
  <2> QED
    BY <1>1, <1>2, <2>1 DEF Tick
<1>3. ASSUME NEW s \in SessionId, NEW p \in Proof, SetPassword(s, p)
      PROVE  now' = now /\ offered' = offered /\ identities' \subseteq Identity
  <2>1. /\ now' = now /\ offered' = offered
        /\ accounts[UserOf[s]].contact # None
        /\ identities' \subseteq identities \cup
             {[user |-> UserOf[s], provider |-> "password",
               target |-> accounts[UserOf[s]].contact, active |-> TRUE]}
    BY <1>3 DEF SetPassword
  <2>2. UserOf[s] \in User
    BY SessionsHaveUsers
  <2>3. accounts[UserOf[s]].contact \in Target
    BY <2>1, <2>2 DEF TypeOK, Account
  <2>4. [user |-> UserOf[s], provider |-> "password",
         target |-> accounts[UserOf[s]].contact, active |-> TRUE] \in Identity
    BY <2>2, <2>3 DEF Identity
  <2> QED
    BY <1>1, <2>1, <2>4
<1>4. ASSUME NEW s \in SessionId, NEW i \in identities, NEW p \in Proof, UnlinkIdentity(s, i, p)
      PROVE  now' = now /\ offered' = offered /\ identities' \subseteq Identity
  BY <1>1, <1>4 DEF UnlinkIdentity, Identity
<1>5. CASE UNCHANGED <<now, identities, offered>>
  BY <1>1, <1>5
<1> QED
  BY <1>1, <1>2, <1>3, <1>4, <1>5
  DEF Next, vars, Await, StartContactChange, ResendContactChange, CancelContactChange,
      FinishContactChange, StartOtpReAuth, ResendOtpReAuth, CancelOtpReAuth, FinishOtpReAuth,
      StartOtp, FinishOtp, StartRecovery, FinishRecovery, CommitStart, CommitContactChange,
      CommitOtpReAuth, CommitFinishOtp, CommitRecovery, CommitOwnedResend, CommitOwnedCancel,
      Fail, ResendOtp, ResendRecovery, CancelVerification, CancelRecovery, ConsumeVerification,
      ConfirmPassword, ChangePassword, RevokeOwnedSession, CloseAccount

\* All effects of a step.
Effects ==
  /\ ChallengeEffect /\ CallEffect /\ AccountEffect /\ MarkerEffect
  /\ now' \in Time /\ identities' \subseteq Identity /\ offered' \in Applications

LEMMA StepEffects ==
  ASSUME TypeOK, CallsSound, MarkerLists, [Next]_vars
  PROVE  Effects
BY StepChallenges, StepCalls, StepAccounts, StepMarkers, StepRest DEF Effects

LEMMA TypeStep ==
  ASSUME TypeOK, CallsSound, MarkerLists, Effects
  PROVE  TypeOK'
<1>1. accounts' \in [User -> Account]
  BY DEF Effects, AccountEffect
<1>2. sessions' \in [SessionId -> [active : BOOLEAN, markers : Seq(1..MaxIssued)]]
  BY MarkerListsStep DEF Effects
<1>3. /\ issued' \in Seq([session : SessionId, at : Time, by : ChallengeId \cup {None}])
      /\ Len(issued') <= MaxIssued
  BY IssuedGrows DEF Effects
<1>4. /\ DOMAIN challenges' \subseteq ChallengeId
      /\ \A x \in DOMAIN challenges' : challenges'[x] \in Challenge
  BY DEF Effects, ChallengeEffect, SameClaim, TypeOK
<1>5. \A c \in calls' : CallSound(c)
  BY DEF Effects, CallEffect, CallsSound
<1>6. /\ calls' \subseteq Call
      /\ \A c \in calls' : c.op \notin Starts => c.id \in DOMAIN challenges'
  BY <1>5 DEF Effects, ChallengeEffect, CallSound
<1> QED
  BY <1>1, <1>2, <1>3, <1>4, <1>6 DEF Effects, TypeOK

-----------------------------------------------------------------------------
LEMMA ContactStep ==
  ASSUME ContactWasProven, ChallengeEffect, AccountEffect
  PROVE  ContactWasProven'
<1> SUFFICES ASSUME NEW u \in User, NEW x, x = accounts'[u].contactBy, x # None
             PROVE  /\ x \in DOMAIN challenges'
                    /\ challenges'[x].purpose = "contactChange" /\ challenges'[x].consumed
                    /\ challenges'[x].target = accounts'[u].contact
                    /\ challenges'[x].session \in SessionId
                    /\ UserOf[challenges'[x].session] = u
  BY DEF ContactWasProven
<1>1. /\ x \in DOMAIN challenges
      /\ challenges[x].purpose = "contactChange" /\ challenges'[x].consumed
      /\ challenges[x].target = accounts'[u].contact
      /\ challenges[x].session \in SessionId /\ UserOf[challenges[x].session] = u
  <2>1. ContactEffect(u)
    BY DEF AccountEffect
  <2>2. CASE /\ accounts'[u].contact = accounts[u].contact
             /\ accounts'[u].contactBy = accounts[u].contactBy
    <3>1. /\ x \in DOMAIN challenges
          /\ challenges[x].purpose = "contactChange" /\ challenges[x].consumed
          /\ challenges[x].target = accounts[u].contact
          /\ challenges[x].session \in SessionId /\ UserOf[challenges[x].session] = u
      BY <2>2 DEF ContactWasProven
    <3> QED
      BY <2>2, <3>1 DEF ChallengeEffect, SameClaim
  <2> QED
    BY <2>1, <2>2 DEF ContactEffect
<1> QED
  BY <1>1 DEF ChallengeEffect, SameClaim

LEMMA RecoveryStep ==
  ASSUME RecoveredByOwnLink, ChallengeEffect, AccountEffect
  PROVE  RecoveredByOwnLink'
<1> SUFFICES ASSUME NEW u \in User, NEW x, x = accounts'[u].passwordBy, x # None
             PROVE  /\ x \in DOMAIN challenges'
                    /\ challenges'[x].purpose = "recovery" /\ challenges'[x].provider = "password"
                    /\ challenges'[x].consumed /\ challenges'[x].target = accounts'[u].password
  BY DEF RecoveredByOwnLink
<1>1. /\ x \in DOMAIN challenges
      /\ challenges[x].purpose = "recovery" /\ challenges[x].provider = "password"
      /\ challenges'[x].consumed /\ challenges[x].target = accounts'[u].password
  <2>1. PasswordEffect(u)
    BY DEF AccountEffect
  <2>2. CASE /\ accounts'[u].password = accounts[u].password
             /\ accounts'[u].passwordBy = accounts[u].passwordBy
    <3>1. /\ x \in DOMAIN challenges
          /\ challenges[x].purpose = "recovery" /\ challenges[x].provider = "password"
          /\ challenges[x].consumed /\ challenges[x].target = accounts[u].password
      BY <2>2 DEF RecoveredByOwnLink
    <3> QED
      BY <2>2, <3>1 DEF ChallengeEffect, SameClaim
  <2> QED
    BY <2>1, <2>2 DEF PasswordEffect
<1> QED
  BY <1>1 DEF ChallengeEffect, SameClaim

LEMMA ResendStep ==
  ASSUME ResendKeepsClaim, ChallengeEffect
  PROVE  ResendKeepsClaim'
<1> SUFFICES ASSUME NEW x \in DOMAIN challenges', NEW y, y = challenges'[x].replaces, y # None
             PROVE  /\ y \in DOMAIN challenges'
                    /\ challenges'[x].purpose = challenges'[y].purpose
                    /\ challenges'[x].target = challenges'[y].target
                    /\ challenges'[x].session = challenges'[y].session
                    /\ challenges'[x].startedAt = challenges'[y].startedAt
  BY DEF ResendKeepsClaim
<1>1. /\ y \in DOMAIN challenges
      /\ challenges'[x].purpose = challenges[y].purpose
      /\ challenges'[x].target = challenges[y].target
      /\ challenges'[x].session = challenges[y].session
      /\ challenges'[x].startedAt = challenges[y].startedAt
  <2>1. CASE x \in DOMAIN challenges
    BY <2>1 DEF ResendKeepsClaim, ChallengeEffect, SameClaim
  <2>2. CASE x \notin DOMAIN challenges
    BY <2>2 DEF ChallengeEffect, StartedBy, Created, Successor
  <2> QED
    BY <2>1, <2>2
<1> QED
  BY <1>1 DEF ChallengeEffect, SameClaim

LEMMA ContactReAuthStep ==
  ASSUME TypeOK, CallsSound, ContactChangeIsReAuthenticated, ChallengeEffect, MarkerEffect
  PROVE  ContactChangeIsReAuthenticated'
<1> SUFFICES ASSUME "updateContact" \in RequireReAuthFor, NEW x \in DOMAIN challenges',
                    challenges'[x].purpose = "contactChange", challenges'[x].session # None
             PROVE  \E n \in 1..Len(issued') :
                      /\ issued'[n].session = challenges'[x].session
                      /\ issued'[n].at <= challenges'[x].startedAt
                      /\ challenges'[x].startedAt <= issued'[n].at + MaxAge
  BY DEF ContactChangeIsReAuthenticated
<1>1. ReAuthenticated(challenges'[x].session, challenges'[x].startedAt)
  <2>1. \A y \in DOMAIN challenges :
          challenges[y].purpose = "contactChange" /\ challenges[y].session # None
            => ReAuthenticated(challenges[y].session, challenges[y].startedAt)
    BY DEF ContactChangeIsReAuthenticated, ReAuthenticated
  <2>2. CASE x \in DOMAIN challenges
    BY <2>1, <2>2 DEF ChallengeEffect, SameClaim
  <2>3. ASSUME NEW c \in calls, StartedBy(x, c)
        PROVE  ReAuthenticated(challenges'[x].session, challenges'[x].startedAt)
    <3>1. /\ c.op \in Starts /\ challenges'[x].purpose = c.purpose
          /\ challenges'[x].session = c.session /\ challenges'[x].startedAt = c.at
      BY <2>3 DEF StartedBy, Created
    <3> QED
      BY <3>1 DEF CallsSound, CallSound
  <2>4. ASSUME NEW y \in DOMAIN challenges, Successor(x, y)
        PROVE  ReAuthenticated(challenges'[x].session, challenges'[x].startedAt)
    BY <2>1, <2>4 DEF Successor
  <2> QED
    BY <2>2, <2>3, <2>4 DEF ChallengeEffect
<1> DEFINE s == challenges'[x].session
           t == challenges'[x].startedAt
<1>2. PICK n \in 1..Len(issued) :
        issued[n].session = s /\ issued[n].at <= t /\ t <= issued[n].at + MaxAge
  BY <1>1 DEF ReAuthenticated
<1>3. n \in 1..Len(issued') /\ issued'[n] = issued[n]
  BY IssuedGrows
<1> QED
  BY <1>2, <1>3

LEMMA OneMarkerStep ==
  ASSUME TypeOK, OneMarkerPerCode, ChallengeEffect, MarkerEffect
  PROVE  OneMarkerPerCode'
<1> DEFINE Spent(x, s) ==
      /\ x \in DOMAIN challenges'
      /\ challenges'[x].purpose = "reAuth" /\ challenges'[x].consumed
      /\ challenges'[x].session = s
<1>1. \A n \in 1..Len(issued) : issued[n].by # None =>
        /\ issued[n].by \in DOMAIN challenges /\ challenges[issued[n].by].consumed
        /\ Spent(issued[n].by, issued[n].session)
        /\ \A m \in 1..Len(issued) : issued[m].by = issued[n].by => m = n
  BY DEF OneMarkerPerCode, ChallengeEffect, SameClaim
<1>2. CASE MarkersKept
  <2>1. issued' = issued
    BY <1>2 DEF MarkersKept
  <2> QED
    BY <1>1, <2>1 DEF OneMarkerPerCode
<1>3. ASSUME NEW s \in SessionId, NEW t \in Time, NEW x \in ChallengeId \cup {None},
             MarkerFrom(s, t, x)
      PROVE  OneMarkerPerCode'
  <2> DEFINE k == Len(issued')
  <2>1. /\ \A n \in 1..Len(issued) : n \in 1..k /\ issued'[n] = issued[n]
        /\ \A n \in 1..k : n \in 1..Len(issued) \/ n = k
        /\ issued'[k].session = s /\ issued'[k].by = x
    <3>1. IssueMarker(s, t, x)
      BY <1>3 DEF MarkerFrom
    <3>2. issued'[k] = [session |-> s, at |-> t, by |-> x]
      BY <3>1, IssueStep
    <3>3. /\ \A n \in 1..Len(issued) : n \in 1..k /\ issued'[n] = issued[n]
          /\ \A n \in 1..k : n \in 1..Len(issued) \/ n = k
      BY <3>1, IssueStep
    <3> QED
      BY <3>2, <3>3
  <2>2. x # None => x \in DOMAIN challenges /\ ~challenges[x].consumed /\ Spent(x, s)
    BY <1>3 DEF MarkerFrom, ChallengeEffect, SameClaim
  <2>3. \A n \in 1..Len(issued) : x # None => issued'[n].by # x
    BY <1>1, <2>1, <2>2
  <2>4. \A n \in 1..k : issued'[n].by # None => Spent(issued'[n].by, issued'[n].session)
    BY <1>1, <2>1, <2>2
  <2>5. \A m, n \in 1..k : issued'[n].by # None /\ issued'[m].by = issued'[n].by => m = n
    BY <1>1, <2>1, <2>3
  <2> HIDE DEF k
  <2> QED
    BY <2>4, <2>5 DEF OneMarkerPerCode, k
<1> QED
  BY <1>2, <1>3 DEF MarkerEffect

-----------------------------------------------------------------------------
LEMMA InitInv == Init => Inv
<1> SUFFICES ASSUME Init PROVE Inv
  OBVIOUS
<1>1. now \in Time /\ offered \in Applications /\ DOMAIN challenges = {} /\ calls = {}
  BY NumbersAreNatural DEF Init, Time
<1>2. /\ accounts \in [User -> Account] /\ identities \subseteq Identity
      /\ \A u \in User : accounts[u].contactBy = None /\ accounts[u].passwordBy = None
  <2>1. PICK home \in [User -> Target], withPassword \in SUBSET User :
          /\ accounts = [u \in User |->
               [closed |-> FALSE, contact |-> home[u], contactBy |-> None, passwordBy |-> None,
                password |-> IF u \in withPassword THEN home[u] ELSE None]]
          /\ identities =
               {[user |-> u, provider |-> "otp", target |-> home[u], active |-> TRUE] : u \in User}
               \cup {[user |-> u, provider |-> "password", target |-> home[u], active |-> TRUE] :
                        u \in withPassword}
    BY DEF Init
  <2>2. accounts \in [User -> Account]
    BY <2>1 DEF Account
  <2>3. identities \subseteq Identity
    <3>1. \A u \in User, provider \in {"otp", "password"} :
            [user |-> u, provider |-> provider, target |-> home[u], active |-> TRUE] \in Identity
      BY DEF Identity
    <3> QED
      BY <2>1, <3>1
  <2> QED
    BY <2>1, <2>2, <2>3
<1>3. /\ issued \in Seq([session : SessionId, at : Time, by : ChallengeId \cup {None}])
      /\ Len(issued) = 0 /\ 1..Len(issued) = {}
  BY DEF Init
<1>4. \A s \in SessionId : /\ sessions[s].markers = << >>
                           /\ sessions[s] \in [active : BOOLEAN, markers : Seq(1..MaxIssued)]
  BY DEF Init
<1>5. sessions \in [SessionId -> [active : BOOLEAN, markers : Seq(1..MaxIssued)]]
  BY <1>4 DEF Init
<1>6. MarkerLists
  <2> SUFFICES ASSUME NEW s \in SessionId PROVE Lists(sessions[s].markers, IssuedTo(s))
    BY DEF MarkerLists
  <2>1. Len(sessions[s].markers) = 0 /\ Elements(sessions[s].markers) = {} /\ IssuedTo(s) = {}
    BY <1>3, <1>4 DEF Elements, IssuedTo
  <2> QED
    BY <2>1, NumbersAreNatural, FS_EmptySet DEF Lists
<1>7. TypeOK
  BY <1>1, <1>2, <1>3, <1>5, NumbersAreNatural DEF TypeOK
<1>8. ContactWasProven /\ RecoveredByOwnLink
  BY <1>2 DEF ContactWasProven, RecoveredByOwnLink
<1> QED
  BY <1>1, <1>3, <1>6, <1>7, <1>8
  DEF Inv, CallsSound, ContactChangeIsReAuthenticated, OneMarkerPerCode, ResendKeepsClaim

LEMMA InvStep ==
  ASSUME Inv, [Next]_vars
  PROVE  Inv'
<1> USE DEF Inv
<1>1. Effects
  BY StepEffects
<1>2. ChallengeEffect /\ CallEffect /\ AccountEffect /\ MarkerEffect
  BY <1>1 DEF Effects
<1>3. TypeOK'
  BY <1>1, TypeStep
<1>4. CallsSound'
  BY <1>2, CallsSoundStep
<1>5. MarkerLists'
  BY <1>2, MarkerListsStep
<1>6. ContactWasProven' /\ RecoveredByOwnLink'
  BY <1>2, ContactStep, RecoveryStep
<1>7. ResendKeepsClaim' /\ ContactChangeIsReAuthenticated' /\ OneMarkerPerCode'
  BY <1>2, ResendStep, ContactReAuthStep, OneMarkerStep
<1> QED
  BY <1>3, <1>4, <1>5, <1>6, <1>7

LEMMA InvAlways == Spec => []Inv
<1>1. Inv /\ [Next]_vars => Inv'
  BY InvStep
<1> QED
  BY <1>1, InitInv, PTL DEF Spec

-----------------------------------------------------------------------------
\* Type correctness of accounts, sessions, challenges and calls in flight.
THEOREM TypeCorrect == Spec => []TypeOK
<1>1. Inv => TypeOK
  BY DEF Inv
<1> QED
  BY <1>1, InvAlways, PTL

\* A changed contact is the target of a used-up contact-change code of one of
\* the user's own sessions (current-account-contact-change.ts).
THEOREM ContactAlwaysProven == Spec => []ContactWasProven
<1>1. Inv => ContactWasProven
  BY DEF Inv
<1> QED
  BY <1>1, InvAlways, PTL

\* Over any chain of resends, a contact change was started within the age limit
\* of an authentication of its session (policy.ts, support.ts).
THEOREM ContactChangeAlwaysReAuthenticated == Spec => []ContactChangeIsReAuthenticated
<1>1. Inv => ContactChangeIsReAuthenticated
  BY DEF Inv
<1> QED
  BY <1>1, InvAlways, PTL

\* However finishes of one code overlap, it buys at most one marker
\* (current-account-re-auth.ts).
THEOREM CodeBuysOneMarker == Spec => []OneMarkerPerCode
<1>1. Inv => OneMarkerPerCode
  BY DEF Inv
<1> QED
  BY <1>1, InvAlways, PTL

\* A session accepts the markers issued to it last, whatever the cap
\* (issueCurrentAccountRecentAuthMarker).
THEOREM NewestMarkersAlwaysKept == Spec => []NewestMarkersKept
<1>1. Inv => NewestMarkersKept
  BY DEF Inv, MarkerLists, Lists, Elements, NewestMarkersKept
<1> QED
  BY <1>1, InvAlways, PTL

\* A password set by recovery was set with a used-up recovery link that was
\* sent to the e-mail of that password.
THEOREM RecoveryByOwnLink == Spec => []RecoveredByOwnLink
<1>1. Inv => RecoveredByOwnLink
  BY DEF Inv
<1> QED
  BY <1>1, InvAlways, PTL

\* No resend, generic or owned, changes what a challenge is for, whom it was
\* sent to or whose it is.
THEOREM ClaimSurvivesResend == Spec => []ResendKeepsClaim
<1>1. Inv => ResendKeepsClaim
  BY DEF Inv
<1> QED
  BY <1>1, InvAlways, PTL

LEMMA LiveSessionStep ==
  ASSUME Inv, [Next]_vars
  PROVE  EffectNeedsLiveSession
<1>1. AccountEffect /\ MarkerEffect /\ TypeOK
  BY StepEffects DEF Effects, Inv
<1>2. ASSUME NEW u \in User, accounts'[u].contact # accounts[u].contact
      PROVE  LET x == accounts'[u].contactBy
             IN  ~accounts[u].closed /\ sessions[challenges[x].session].active
  BY <1>1, <1>2 DEF AccountEffect, ContactEffect
<1>3. ASSUME NEW n \in DOMAIN issued' \ DOMAIN issued
      PROVE  /\ sessions[issued'[n].session].active
             /\ ~accounts[UserOf[issued'[n].session]].closed
             /\ issued'[n].by # None =>
                  OwnsTarget(UserOf[issued'[n].session], challenges[issued'[n].by].target)
  <2>1. ~MarkersKept
    BY <1>3 DEF MarkersKept
  <2>2. PICK s \in SessionId, t \in Time, x \in ChallengeId \cup {None} : MarkerFrom(s, t, x)
    BY <1>1, <2>1 DEF MarkerEffect
  <2>3. IssueMarker(s, t, x)
    BY <2>2 DEF MarkerFrom
  <2>4. /\ issued' \in Seq([session : SessionId, at : Time, by : ChallengeId \cup {None}])
        /\ issued'[Len(issued')] = [session |-> s, at |-> t, by |-> x]
        /\ \A m \in 1..Len(issued') : m \in 1..Len(issued) \/ m = Len(issued')
    BY <1>1, <2>3, IssueStep
  <2>5. DOMAIN issued' = 1..Len(issued') /\ DOMAIN issued = 1..Len(issued)
    BY <1>1, <2>4, LenProperties DEF TypeOK
  <2>6. n = Len(issued')
    BY <1>3, <2>4, <2>5
  <2>7. issued'[n].session = s /\ issued'[n].by = x
    BY <2>4, <2>6
  <2> QED
    BY <2>2, <2>7 DEF MarkerFrom, Resolves
<1> QED
  BY <1>2, <1>3 DEF EffectNeedsLiveSession

\* Revoking a session or closing the account takes effect on calls that passed
\* their checks before and wait for the rate limiter.
THEOREM RevocationTakesEffect == Spec => RevocationIsImmediate
<1>1. Inv /\ [Next]_vars => [EffectNeedsLiveSession]_vars
  BY LiveSessionStep
<1> QED
  BY <1>1, InvAlways, PTL DEF Spec, RevocationIsImmediate

\* Only closing closes an account.
LEMMA ClosingStep ==
  ASSUME TypeOK, [Next]_vars, NEW u \in User, ~accounts[u].closed, accounts'[u].closed
  PROVE  \E s \in SessionId, p \in Proof : CloseAccount(s, p) /\ UserOf[s] = u
<1>1. accounts \in [User -> Account]
  BY DEF TypeOK
<1>2. ASSUME NEW v, NEW t, NEW b,
             \/ accounts' = [accounts EXCEPT ![v].contact = t, ![v].contactBy = b]
             \/ accounts' = [accounts EXCEPT ![v].password = t, ![v].passwordBy = b]
             \/ accounts' = [accounts EXCEPT ![v].passwordBy = b]
             \/ accounts' = accounts
      PROVE  FALSE
  BY <1>1, <1>2 DEF Account
<1>3. \A c \in calls : ~CommitContactChange(c) /\ ~CommitRecovery(c)
  BY <1>2 DEF CommitContactChange, CommitRecovery
<1>4. ASSUME NEW s \in SessionId, NEW p \in Proof, SetPassword(s, p) \/ ChangePassword(s, p)
      PROVE  FALSE
  <2>1. CASE SetPassword(s, p)
    <3>1. accounts' = [accounts EXCEPT ![UserOf[s]].password = accounts[UserOf[s]].contact,
                                       ![UserOf[s]].passwordBy = None]
      BY <2>1 DEF SetPassword
    <3> QED
      BY <1>2, <3>1
  <2>2. CASE ChangePassword(s, p)
    <3>1. accounts' = [accounts EXCEPT ![UserOf[s]].passwordBy = None]
      BY <2>2 DEF ChangePassword, ReplacePassword
    <3> QED
      BY <1>2, <3>1
  <2> QED
    BY <1>4, <2>1, <2>2
<1>5. ~UNCHANGED accounts
  BY <1>2
<1>6. PICK s \in SessionId, p \in Proof : CloseAccount(s, p)
  BY <1>3, <1>4, <1>5
  DEF Next, vars, Await, StartContactChange, ResendContactChange, CancelContactChange,
      FinishContactChange, StartOtpReAuth, ResendOtpReAuth, CancelOtpReAuth, FinishOtpReAuth,
      StartOtp, FinishOtp, StartRecovery, FinishRecovery, CommitStart, CommitOtpReAuth,
      CommitFinishOtp, CommitOwnedResend, CommitOwnedCancel, Fail, ResendOtp, ResendRecovery,
      CancelVerification, CancelRecovery, ConsumeVerification, ConfirmPassword, UnlinkIdentity,
      RevokeOwnedSession, Tick
<1>7. accounts' = [accounts EXCEPT ![UserOf[s]].closed = TRUE]
  BY <1>6 DEF CloseAccount
<1>8. UserOf[s] = u
  BY <1>1, <1>7
<1> QED
  BY <1>6, <1>8

\* An account is closed by one of its own live sessions, within the age limit
\* of an authentication of that session.
THEOREM CloseAlwaysReAuthenticated == Spec => CloseIsReAuthenticated
<1> DEFINE Recent ==
      \A u \in User :
        ~accounts[u].closed /\ accounts'[u].closed /\ "closeAccount" \in RequireReAuthFor =>
          \E s \in SessionId, n \in 1..Len(issued) :
            /\ UserOf[s] = u /\ sessions[s].active
            /\ issued[n].session = s /\ issued[n].at <= now /\ now <= issued[n].at + MaxAge
<1>1. Inv /\ [Next]_vars => [Recent]_vars
  <2> SUFFICES ASSUME Inv, [Next]_vars, NEW u \in User, ~accounts[u].closed,
                      accounts'[u].closed, "closeAccount" \in RequireReAuthFor
               PROVE  \E s \in SessionId, n \in 1..Len(issued) :
                        /\ UserOf[s] = u /\ sessions[s].active
                        /\ issued[n].session = s /\ issued[n].at <= now
                        /\ now <= issued[n].at + MaxAge
    OBVIOUS
  <2>1. TypeOK /\ MarkerLists /\ now \in Time
    BY DEF Inv, TypeOK
  <2>2. PICK s \in SessionId, p \in Proof : CloseAccount(s, p) /\ UserOf[s] = u
    BY <2>1, ClosingStep
  <2>3. sessions[s].active /\ EnsureReAuth("closeAccount", p, s, now)
    BY <2>2 DEF CloseAccount, Resolves
  <2>4. ReAuthenticated(s, now)
    BY <2>1, <2>3, AcceptedMarker
  <2> QED
    BY <2>2, <2>3, <2>4 DEF ReAuthenticated
<1> QED
  BY <1>1, InvAlways, PTL DEF Spec, CloseIsReAuthenticated

-----------------------------------------------------------------------------
\* No call acts under a time that has not come.
PastTimes == \A c \in calls : c.at <= now

LEMMA PastTimesStep ==
  ASSUME TypeOK, PastTimes, [Next]_vars
  PROVE  PastTimes'
<1>1. now \in Nat /\ \A c \in calls : c.at \in Nat
  BY NumbersAreNatural DEF TypeOK, Call, Time
<1>2. ASSUME NEW c, c.at = now, Await(c)
      PROVE  PastTimes'
  BY <1>1, <1>2 DEF Await, PastTimes
<1>3. ASSUME NEW op, NEW purpose, NEW s, NEW target, Await(StartCall(op, purpose, s, target))
      PROVE  PastTimes'
  BY <1>2, <1>3 DEF StartCall
<1>4. ASSUME NEW op, NEW s, NEW x, Await(CallOn(op, s, x))
      PROVE  PastTimes'
  BY <1>2, <1>4 DEF CallOn
<1>5. ASSUME calls' \subseteq calls, now' \in {now, now + 1}
      PROVE  PastTimes'
  BY <1>1, <1>5 DEF PastTimes
<1> QED
  BY <1>3, <1>4, <1>5
  DEF Next, vars, StartContactChange, ResendContactChange, CancelContactChange,
      FinishContactChange, StartOtpReAuth, ResendOtpReAuth, CancelOtpReAuth, FinishOtpReAuth,
      StartOtp, FinishOtp, StartRecovery, FinishRecovery, Fail, ConfirmPassword, SetPassword,
      ChangePassword, UnlinkIdentity, RevokeOwnedSession, CloseAccount, Tick, Takes, CommitStart,
      CommitContactChange, CommitOtpReAuth, CommitFinishOtp, CommitRecovery, CommitOwnedResend,
      CommitOwnedCancel, ResendOtp, ResendRecovery, CancelVerification, CancelRecovery,
      ConsumeVerification

\* What a reader of the contract sees of a stored challenge.
Seen(ch) ==
  [status |-> IF ch.consumed THEN "consumed" ELSE "pending", createdAt |-> ch.createdAt,
   expiresAt |-> ch.expiresAt, replaces |-> ch.replaces]

LEMMA SeenLifetimes ==
  /\ Lifetimes = [x \in DOMAIN challenges |-> Seen(challenges[x])]
  /\ Lifetimes' = [x \in DOMAIN challenges' |-> Seen(challenges'[x])]
BY DEF Lifetimes, Seen

LEMMA SeenUsable ==
  ASSUME NEW x \in DOMAIN challenges, NEW t, isUsable(x, t)
  PROVE  Contract!isUsable(x, t)
BY SeenLifetimes DEF isUsable, Contract!isUsable, Seen

LEMMA ConsumeKeeps ==
  ASSUME TypeOK, UNCHANGED now, NEW x \in DOMAIN challenges, NEW t \in 0..now, Consume(x, t)
  PROVE  [Contract!Next]_(Contract!vars)
<1>1. x \in ChallengeId /\ challenges[x] \in Challenge
  BY DEF TypeOK
<1>2. /\ DOMAIN challenges' = DOMAIN challenges
      /\ challenges'[x] = [challenges[x] EXCEPT !.consumed = TRUE]
      /\ \A y \in DOMAIN challenges : y # x => challenges'[y] = challenges[y]
  BY DEF Consume
<1>3. Seen(challenges'[x]) = [Seen(challenges[x]) EXCEPT !.status = "consumed"]
  BY <1>1, <1>2 DEF Seen, Challenge
<1>4. Lifetimes' = [Lifetimes EXCEPT ![x].status = "consumed"]
  BY <1>2, <1>3, SeenLifetimes
<1>5. Contract!Consume(x, t)
  BY <1>4, SeenUsable DEF Consume, Contract!Consume
<1> QED
  BY <1>1, <1>5 DEF Contract!Next, Contract!vars

LEMMA CancelKeeps ==
  ASSUME TypeOK, UNCHANGED now, NEW x \in DOMAIN challenges, NEW t \in 0..now, Cancel(x, t)
  PROVE  [Contract!Next]_(Contract!vars)
<1>1. x \in ChallengeId /\ challenges[x] \in Challenge
  BY DEF TypeOK
<1>2. /\ DOMAIN challenges' = DOMAIN challenges
      /\ challenges'[x] = [challenges[x] EXCEPT !.expiresAt = t]
      /\ \A y \in DOMAIN challenges : y # x => challenges'[y] = challenges[y]
  BY DEF Cancel
<1>3. Seen(challenges'[x]) = [Seen(challenges[x]) EXCEPT !.expiresAt = t]
  BY <1>1, <1>2 DEF Seen, Challenge
<1>4. Lifetimes' = [Lifetimes EXCEPT ![x].expiresAt = t]
  BY <1>2, <1>3, SeenLifetimes
<1>5. Contract!Cancel(x, t)
  BY <1>4, SeenUsable DEF Cancel, Contract!Cancel
<1> QED
  BY <1>1, <1>5 DEF Contract!Next, Contract!vars

LEMMA ReplaceKeeps ==
  ASSUME TypeOK, UNCHANGED now, NEW x \in DOMAIN challenges, NEW t \in 0..now, NEW provider,
         Replace(x, provider, t)
  PROVE  [Contract!Next]_(Contract!vars)
<1>1. x \in ChallengeId /\ challenges[x] \in Challenge
  BY DEF TypeOK
<1>2. Fresh \in ChallengeId /\ Fresh \notin DOMAIN challenges
  BY FreshIsUnused DEF Replace
<1>3. /\ DOMAIN challenges' = DOMAIN challenges \cup {Fresh}
      /\ challenges'[x] = [challenges[x] EXCEPT !.expiresAt = t]
      /\ challenges'[Fresh] = [challenges[x] EXCEPT !.provider = provider, !.createdAt = t,
                                                    !.expiresAt = t + Ttl, !.replaces = x]
      /\ \A y \in DOMAIN challenges : y # x => challenges'[y] = challenges[y]
  BY <1>2 DEF Replace, Put
<1>4. Seen(challenges'[x]) = [Seen(challenges[x]) EXCEPT !.expiresAt = t]
  BY <1>1, <1>3 DEF Seen, Challenge
<1>5. ~challenges[x].consumed
  BY DEF Replace, ResendAllowed, isUsable
<1>6. Seen(challenges'[Fresh]) = Contract!New(t, x)
  BY <1>1, <1>3, <1>5 DEF Seen, Challenge, Contract!New
<1>7. Lifetimes' = Contract!Put([Lifetimes EXCEPT ![x].expiresAt = t], Fresh, Contract!New(t, x))
  BY <1>2, <1>3, <1>4, <1>6, SeenLifetimes DEF Contract!Put
<1>8. Contract!isUsable(x, t) /\ Lifetimes[x].createdAt + Cooldown <= t
  BY SeenLifetimes, SeenUsable DEF Replace, ResendAllowed, Seen
<1>9. Contract!Replace(x, t, Fresh) /\ Lifetimes' # Lifetimes
  BY <1>2, <1>7, <1>8, SeenLifetimes DEF Contract!Replace, Contract!Put
<1> QED
  BY <1>1, <1>2, <1>9 DEF Contract!Next, Contract!vars

LEMMA StartKeeps ==
  ASSUME UNCHANGED now, NEW c, c.at \in 0..now, Unused # {},
         challenges' = Put(challenges, Fresh, Created(c))
  PROVE  [Contract!Next]_(Contract!vars)
<1>1. Fresh \in ChallengeId /\ Fresh \notin DOMAIN challenges
  BY FreshIsUnused
<1>2. Seen(Created(c)) = Contract!New(c.at, None)
  BY DEF Seen, Created, Contract!New
<1>3. Lifetimes' = Contract!Put(Lifetimes, Fresh, Contract!New(c.at, None))
  BY <1>1, <1>2, SeenLifetimes DEF Put, Contract!Put
<1>4. Contract!Create(Fresh, c.at) /\ Lifetimes' # Lifetimes
  BY <1>1, <1>3, SeenLifetimes DEF Contract!Create, Contract!Put
<1> QED
  BY <1>1, <1>4 DEF Contract!Next, Contract!vars

LEMMA ContractStep ==
  ASSUME TypeOK, CallsSound, PastTimes, [Next]_vars
  PROVE  [Contract!Next]_(Contract!vars)
<1>1. /\ now \in 0..now
      /\ \A c \in calls : /\ c.at \in 0..now
                          /\ c.op \notin Starts => c.id \in DOMAIN challenges
  BY NumbersAreNatural DEF TypeOK, Call, Time, PastTimes
<1>2. ASSUME NEW c \in calls, CommitStart(c)
      PROVE  [Contract!Next]_(Contract!vars)
  BY <1>1, <1>2, StartKeeps DEF CommitStart
<1>3. ASSUME NEW c \in calls,
             CommitContactChange(c) \/ CommitOtpReAuth(c) \/ CommitFinishOtp(c) \/ CommitRecovery(c)
      PROVE  [Contract!Next]_(Contract!vars)
  <2>1. Consume(c.id, c.at) /\ UNCHANGED now /\ c.op \notin Starts
    BY <1>3 DEF CommitContactChange, CommitOtpReAuth, CommitFinishOtp, CommitRecovery, Takes, Starts
  <2> QED
    BY <1>1, <2>1, ConsumeKeeps
<1>4. ASSUME NEW c \in calls, CommitOwnedResend(c)
      PROVE  [Contract!Next]_(Contract!vars)
  BY <1>1, <1>4, ReplaceKeeps DEF CommitOwnedResend, Takes, Starts
<1>5. ASSUME NEW c \in calls, CommitOwnedCancel(c)
      PROVE  [Contract!Next]_(Contract!vars)
  BY <1>1, <1>5, CancelKeeps DEF CommitOwnedCancel, Takes, Starts
<1>6. ASSUME NEW x \in ChallengeId, ResendOtp(x) \/ ResendRecovery(x)
      PROVE  [Contract!Next]_(Contract!vars)
  BY <1>1, <1>6, ReplaceKeeps DEF ResendOtp, ResendRecovery, IsRecoveryLink, FindOtp
<1>7. ASSUME NEW x \in ChallengeId, CancelVerification(x) \/ CancelRecovery(x)
      PROVE  [Contract!Next]_(Contract!vars)
  BY <1>1, <1>7, CancelKeeps DEF CancelVerification, CancelRecovery
<1>8. ASSUME NEW x \in ChallengeId, ConsumeVerification(x)
      PROVE  [Contract!Next]_(Contract!vars)
  BY <1>1, <1>8, ConsumeKeeps DEF ConsumeVerification
<1>9. CASE UNCHANGED challenges /\ (UNCHANGED now \/ Tick)
  BY <1>9, SeenLifetimes DEF Tick, Contract!Tick, Contract!Next, Contract!vars
<1> QED
  BY <1>2, <1>3, <1>4, <1>5, <1>6, <1>7, <1>8, <1>9
  DEF Next, vars, Await, StartContactChange, ResendContactChange, CancelContactChange,
      FinishContactChange, StartOtpReAuth, ResendOtpReAuth, CancelOtpReAuth, FinishOtpReAuth,
      StartOtp, FinishOtp, StartRecovery, FinishRecovery, Fail, ConfirmPassword, SetPassword,
      ChangePassword, UnlinkIdentity, RevokeOwnedSession, CloseAccount, Tick

\* The flows of a session, recovery and the generic operations together keep the
\* contract of the stored challenges (verifications.ts, otp.ts).
THEOREM FlowsKeepContract == Spec => KeepsContract
<1>1. Init => Contract!Init /\ PastTimes
  <2>1. {} \in SUBSET ChallengeId
    OBVIOUS
  <2>2. Init => Lifetimes = [x \in {} |-> Contract!New(0, None)]
    BY DEF Init, Lifetimes
  <2> QED
    BY <2>1, <2>2 DEF Init, Contract!Init, PastTimes
<1>2. TypeOK /\ PastTimes /\ [Next]_vars => PastTimes'
  BY PastTimesStep
<1>3. TypeOK /\ CallsSound /\ PastTimes /\ [Next]_vars => [Contract!Next]_(Contract!vars)
  BY ContractStep
<1>4. Inv => TypeOK /\ CallsSound
  BY DEF Inv
<1> QED
  BY <1>1, <1>2, <1>3, <1>4, InvAlways, PTL DEF Spec, KeepsContract, Contract!Spec

\* Over any chain of resends, owned or generic, the lifetimes of a challenge and of
\* its replacement lie apart (verifications.ts).
THEOREM LifetimesStayApart == Spec => []Contract!LifetimesApart
<1>1. Contract!Spec => [](Contract!TypeOK /\ Contract!LifetimesApart)
  BY Contract!LifetimesAlwaysApart, NumbersAreNatural, NoneIsNothing
<1> QED
  BY <1>1, FlowsKeepContract, PTL DEF KeepsContract
=============================================================================
