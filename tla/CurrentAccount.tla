--------------------------- MODULE CurrentAccount ---------------------------
(***************************************************************************)
(* What the holder of a session does to the account of that session:       *)
(* authenticate again for a recent-authentication marker, change a contact *)
(* with a code sent to the new one, set, change and recover the password,  *)
(* unlink an identity, revoke sessions, close the account; next to the     *)
(* public challenge operations, which reach the same stored challenges.    *)
(*                                                                         *)
(* A call that awaits the rate limiter reads the clock, checks session and *)
(* ownership, and later acts in a transaction under the time it read: it   *)
(* is a record in calls between the two.  Calls reach their transaction in *)
(* any order.  The other operations are one transaction.  Sessions were    *)
(* opened by earlier sign-ins; codes are presented by whoever got them.    *)
(***************************************************************************)
EXTENDS Naturals, Sequences, FiniteSets

CONSTANTS
  User, SessionId, ChallengeId,
  Target,            \* the values contacts and identities have, normalised
  UserOf,            \* the user of each session
  SessionEnd,        \* its expiresAt
  RequireReAuthFor,  \* policy: the actions that need recent authentication
  MaxAge,            \* policy: reAuthMaxAgeSeconds
  MaxMarkers,        \* MAX_CURRENT_ACCOUNT_RECENT_AUTH_MARKERS
  Ttl, Cooldown,     \* of verifications
  PublicPurposes,    \* purposes the application starts generic OTP challenges with
  Applications,      \* the sets of features an application may offer
  MaxTime, MaxIssued,  \* bounds of the clock and of the markers issued
  MaxCalls,          \* bound of the calls in flight, for each application
  None

ASSUME SessionsHaveUsers == UserOf \in [SessionId -> User] /\ SessionEnd \in [SessionId -> Nat]
ASSUME NumbersAreNatural ==
  /\ MaxAge \in Nat /\ Ttl \in Nat /\ Cooldown \in Nat
  /\ MaxTime \in Nat /\ MaxIssued \in Nat /\ MaxCalls \in [Applications -> Nat]
  /\ MaxMarkers \in Nat \ {0}
Feature == {"contactChange", "otpReAuth", "confirmPassword", "password", "recovery", "unlink",
            "otp", "generic"}
ASSUME FeaturesKnown == Applications \subseteq SUBSET Feature
ASSUME NoneIsNothing ==
  None \notin SessionId /\ None \notin ChallengeId /\ None \notin Target /\ None \notin Nat

VARIABLES
  now,         \* runtime.clock.now()
  accounts,    \* the users and their password credentials
  identities,  \* the identities, all with a verified e-mail
  sessions,    \* status and recent-authentication metadata of each session
  issued,      \* history: every marker ever issued, in order; a marker id is a place in it
  challenges,  \* the stored verifications, by id
  calls,       \* the calls between their checks and their transaction
  offered      \* the features of the application at hand; fixed

vars == <<now, accounts, identities, sessions, issued, challenges, calls, offered>>

-----------------------------------------------------------------------------
Time == 0..MaxTime
Purpose == {"contactChange", "reAuth", "recovery"}
ASSUME PurposesKnown == PublicPurposes \subseteq Purpose

\* contactBy and passwordBy are history: the challenge that last changed the
\* contact, and the recovery that set the password in force.
Account == [closed : BOOLEAN, contact : Target \cup {None}, password : Target \cup {None},
            contactBy : ChallengeId \cup {None}, passwordBy : ChallengeId \cup {None}]

Identity == [user : User, provider : {"otp", "password"}, target : Target, active : BOOLEAN]

\* session is the one the owner metadata names; startedAt and replaces are
\* history: when the first challenge of a chain of resends was created.
Challenge == [purpose : Purpose, provider : {"otp", "password"}, session : SessionId \cup {None},
              target : Target, consumed : BOOLEAN, createdAt : Time,
              expiresAt : 0..(MaxTime + Ttl), startedAt : Time,
              replaces : ChallengeId \cup {None}]

\* What the application stores and presents as proof of recent authentication.
Marker == [session : SessionId, at : Time, id : 1..MaxIssued]

Call == [op : {"start", "startRecovery", "finish", "finishOtp", "resend", "cancel"},
         purpose : Purpose, session : SessionId \cup {None}, id : ChallengeId \cup {None},
         target : Target \cup {None}, at : Time]

Put(f, k, v) == [x \in DOMAIN f \cup {k} |-> IF x = k THEN v ELSE f[x]]

Unused == ChallengeId \ DOMAIN challenges
Fresh == CHOOSE x \in Unused : TRUE

-----------------------------------------------------------------------------
\* resolveSessionContext: the session is live at time t and its user is open.
Resolves(s, t) == sessions[s].active /\ t < SessionEnd[s] /\ ~accounts[UserOf[s]].closed

isUsable(x, t) == ~challenges[x].consumed /\ t < challenges[x].expiresAt
ResendAllowed(x, t) == isUsable(x, t) /\ challenges[x].createdAt + Cooldown <= t

\* Faulty variant: recent is counted one step too generously.
RequiresReAuthLate(action, p, t) ==
  action \in RequireReAuthFor /\ (p = None \/ p.at + MaxAge + 1 < t)
\* Recent authentication is missing, or older than the age limit.
RequiresReAuth(action, p, t) ==
  action \in RequireReAuthFor /\ (p = None \/ p.at + MaxAge < t)

\* Marker p is among the ones stored in its session, with its time.
Stored(p) ==
  /\ \E n \in 1..Len(sessions[p.session].markers) : sessions[p.session].markers[n] = p.id
  /\ issued[p.id].at = p.at

\* Faulty variant: the time a marker claims is taken on trust.
TrustsMarker(p, s, t) == p.at <= t /\ p.session = s
ResolvesMarker(p, s, t) == p.at <= t /\ p.session = s /\ Stored(p)

\* A marker may be left out; one that is presented has to be good even where
\* the policy asks for none.
EnsureReAuth(action, p, s, t) ==
  (p # None => ResolvesMarker(p, s, t)) /\ ~RequiresReAuth(action, p, t)

\* The owner metadata of the re-authentication challenge names the session.
IsOwnedReAuth(x) == challenges[x].purpose = "reAuth" /\ challenges[x].session # None

FindOtp(x, purpose) == x \in DOMAIN challenges /\ challenges[x].purpose = purpose

OwnsTarget(u, t) == \E i \in identities : i.user = u /\ i.active /\ i.target = t

ResolvesOwnedContact(s, x, t) ==
  Resolves(s, t) /\ FindOtp(x, "contactChange") /\ challenges[x].session = s

ResolvesOwnedReAuth(s, x, t) ==
  /\ Resolves(s, t) /\ FindOtp(x, "reAuth") /\ challenges[x].session = s
  /\ OwnsTarget(UserOf[s], challenges[x].target)

\* Faulty variant: a code of the generic OTP operations will do.
AnyRecovery(x) == FindOtp(x, "recovery")
IsRecoveryLink(x) ==
  FindOtp(x, "recovery") /\ challenges[x].provider = "password"

\* findUsablePasswordIdentity
UsablePassword(u) ==
  /\ accounts[u].password # None
  /\ \E i \in identities :
       i.provider = "password" /\ i.target = accounts[u].password /\ i.active /\ i.user = u

-----------------------------------------------------------------------------
\* The call goes on to the rate limiter.
Await(call) ==
  /\ Cardinality(calls) < MaxCalls[offered]
  /\ calls' = calls \cup {call}
  /\ UNCHANGED <<now, accounts, identities, sessions, issued, challenges, offered>>

\* The kinds of calls that will create a challenge, where all others act on one.
Starts == {"start", "startRecovery"}

\* What a call carries past the limiter: the time it read, and for whom it acts
\* on what.
StartCall(op, purpose, s, target) ==
  [op |-> op, purpose |-> purpose, session |-> s, id |-> None, target |-> target, at |-> now]
CallOn(op, s, x) ==
  [op |-> op, purpose |-> challenges[x].purpose, session |-> s, id |-> x, target |-> None,
   at |-> now]

StartContactChange(s, p, target) ==
  /\ Resolves(s, now)
  /\ EnsureReAuth("updateContact", p, s, now)
  /\ accounts[UserOf[s]].contact # target
  /\ Await(StartCall("start", "contactChange", s, target))

ResendContactChange(s, x) ==
  ResolvesOwnedContact(s, x, now) /\ Await(CallOn("resend", s, x))

CancelContactChange(s, x) ==
  ResolvesOwnedContact(s, x, now) /\ Await(CallOn("cancel", s, x))

FinishContactChange(s, x) ==
  ResolvesOwnedContact(s, x, now) /\ Await(CallOn("finish", s, x))

StartOtpReAuth(s, i) ==
  /\ Resolves(s, now)
  /\ i \in identities /\ i.user = UserOf[s] /\ i.active
  /\ Await(StartCall("start", "reAuth", s, i.target))

ResendOtpReAuth(s, x) ==
  ResolvesOwnedReAuth(s, x, now) /\ Await(CallOn("resend", s, x))

CancelOtpReAuth(s, x) ==
  ResolvesOwnedReAuth(s, x, now) /\ Await(CallOn("cancel", s, x))

FinishOtpReAuth(s, x) ==
  ResolvesOwnedReAuth(s, x, now) /\ Await(CallOn("finish", s, x))

\* The public operations; their challenges have no owner.
StartOtp(purpose, target) == Await(StartCall("start", purpose, None, target))

FinishOtp(x) ==
  x \in DOMAIN challenges /\ ~IsOwnedReAuth(x) /\ Await(CallOn("finishOtp", None, x))

StartRecovery(target) == Await(StartCall("startRecovery", "recovery", None, target))

FinishRecovery(x) == IsRecoveryLink(x) /\ Await(CallOn("finish", None, x))
-----------------------------------------------------------------------------
\* Call c of kind op reaches its transaction and ends.
Takes(c, op, purpose) ==
  c \in calls /\ c.op = op /\ c.purpose = purpose /\ calls' = calls \ {c}

\* Faulty variant: the lifetime is added twice.
CreatedLongLived(c) ==
  [purpose |-> c.purpose, provider |-> IF c.op = "startRecovery" THEN "password" ELSE "otp",
   session |-> c.session, target |-> c.target, consumed |-> FALSE, createdAt |-> c.at,
   expiresAt |-> c.at + Ttl + Ttl, startedAt |-> c.at, replaces |-> None]

\* createVerificationRecord
Created(c) ==
  [purpose |-> c.purpose, provider |-> IF c.op = "startRecovery" THEN "password" ELSE "otp",
   session |-> c.session, target |-> c.target, consumed |-> FALSE, createdAt |-> c.at,
   expiresAt |-> c.at + Ttl, startedAt |-> c.at, replaces |-> None]

\* consumeVerificationRecord with the right secret.
Consume(x, t) ==
  /\ isUsable(x, t)
  /\ challenges' = [challenges EXCEPT ![x].consumed = TRUE]

\* Faulty variant: the replacement belongs to the session that asks, or nobody.
ReplaceDisowned(x, provider, t) ==
  /\ ResendAllowed(x, t)
  /\ Unused # {}
  /\ challenges' = Put([challenges EXCEPT ![x].expiresAt = t], Fresh,
       [challenges[x] EXCEPT !.provider = provider, !.createdAt = t, !.expiresAt = t + Ttl,
                             !.session = None, !.replaces = x])

\* The replacement has the purpose, target and owner of x, whose time is over.
Replace(x, provider, t) ==
  /\ ResendAllowed(x, t)
  /\ Unused # {}
  /\ challenges' = Put([challenges EXCEPT ![x].expiresAt = t], Fresh,
       [challenges[x] EXCEPT !.provider = provider, !.createdAt = t, !.expiresAt = t + Ttl,
                             !.replaces = x])

Cancel(x, t) ==
  /\ isUsable(x, t)
  /\ challenges' = [challenges EXCEPT ![x].expiresAt = t]

Keep(markers) == SubSeq(markers, 1, IF Len(markers) < MaxMarkers THEN Len(markers) ELSE MaxMarkers)

\* Faulty variant: a full list turns the new marker away.
IssueUnlessFull(s, t, x) ==
  /\ Len(issued) < MaxIssued
  /\ issued' = Append(issued, [session |-> s, at |-> t, by |-> x])
  /\ sessions' = [sessions EXCEPT ![s].markers = Keep(Append(@, Len(issued) + 1))]

\* The new marker is put in front of the ones the session has; the oldest go.
IssueMarker(s, t, x) ==
  /\ Len(issued) < MaxIssued
  /\ issued' = Append(issued, [session |-> s, at |-> t, by |-> x])
  /\ sessions' = [sessions EXCEPT ![s].markers = Keep(<<Len(issued) + 1>> \o @)]

\* startOtpChallenge and startEmailPasswordRecovery, after the rate limiter.
CommitStart(c) ==
  /\ \E op \in Starts, purpose \in Purpose : Takes(c, op, purpose)
  /\ Unused # {}
  /\ challenges' = Put(challenges, Fresh, Created(c))
  /\ UNCHANGED <<now, accounts, identities, sessions, issued, offered>>

\* Faulty variant: the checks before the rate limiter are not made again.
CommitUncheckedContactChange(c) ==
  /\ Takes(c, "finish", "contactChange")
  /\ Consume(c.id, c.at)
  /\ accounts' = [accounts EXCEPT ![UserOf[c.session]].contact = challenges[c.id].target,
                                  ![UserOf[c.session]].contactBy = c.id]
  /\ UNCHANGED <<now, identities, sessions, issued, offered>>

\* Faulty variant: the code is compared, and stays good.
CommitUnconsumedContactChange(c) ==
  /\ Takes(c, "finish", "contactChange")
  /\ ResolvesOwnedContact(c.session, c.id, c.at)
  /\ isUsable(c.id, c.at)
  /\ accounts' = [accounts EXCEPT ![UserOf[c.session]].contact = challenges[c.id].target,
                                  ![UserOf[c.session]].contactBy = c.id]
  /\ UNCHANGED <<now, identities, sessions, issued, challenges, offered>>

CommitContactChange(c) ==
  /\ Takes(c, "finish", "contactChange")
  /\ ResolvesOwnedContact(c.session, c.id, c.at)
  /\ Consume(c.id, c.at)
  /\ accounts' = [accounts EXCEPT ![UserOf[c.session]].contact = challenges[c.id].target,
                                  ![UserOf[c.session]].contactBy = c.id]
  /\ UNCHANGED <<now, identities, sessions, issued, offered>>

\* Faulty variant: the code is compared, and stays good.
CommitUnconsumedReAuth(c) ==
  /\ Takes(c, "finish", "reAuth")
  /\ ResolvesOwnedReAuth(c.session, c.id, c.at)
  /\ isUsable(c.id, c.at)
  /\ IssueMarker(c.session, c.at, c.id)
  /\ UNCHANGED <<now, accounts, identities, challenges, offered>>

CommitOtpReAuth(c) ==
  /\ Takes(c, "finish", "reAuth")
  /\ ResolvesOwnedReAuth(c.session, c.id, c.at)
  /\ Consume(c.id, c.at)
  /\ IssueMarker(c.session, c.at, c.id)
  /\ UNCHANGED <<now, accounts, identities, offered>>

CommitFinishOtp(c) ==
  /\ \E purpose \in Purpose : Takes(c, "finishOtp", purpose)
  /\ ~IsOwnedReAuth(c.id)
  /\ Consume(c.id, c.at)
  /\ UNCHANGED <<now, accounts, identities, sessions, issued, offered>>

\* Consumption and new password are one transaction: an e-mail without a
\* usable password leaves the link as it was.
CommitRecovery(c) ==
  /\ Takes(c, "finish", "recovery")
  /\ IsRecoveryLink(c.id) /\ Consume(c.id, c.at)
  /\ \E u \in User :
       /\ accounts[u].password = challenges[c.id].target
       /\ UsablePassword(u) /\ ~accounts[u].closed
       /\ accounts' = [accounts EXCEPT ![u].passwordBy = c.id]
  /\ UNCHANGED <<now, identities, sessions, issued, offered>>

\* The owned resends, under the time of their checks; nothing is checked again.
CommitOwnedResend(c) ==
  /\ \E purpose \in {"contactChange", "reAuth"} : Takes(c, "resend", purpose)
  /\ Replace(c.id, "otp", c.at)
  /\ UNCHANGED <<now, accounts, identities, sessions, issued, offered>>

CommitOwnedCancel(c) ==
  /\ \E purpose \in {"contactChange", "reAuth"} : Takes(c, "cancel", purpose)
  /\ Cancel(c.id, c.at)
  /\ UNCHANGED <<now, accounts, identities, sessions, issued, offered>>

\* The rate limiter, a wrong secret or any other error ends the call; what its
\* transaction did is rolled back.
Fail(c) ==
  /\ c \in calls
  /\ calls' = calls \ {c}
  /\ UNCHANGED <<now, accounts, identities, sessions, issued, challenges, offered>>

-----------------------------------------------------------------------------
\* Operations that are one transaction.
ResendOtp(x) ==
  /\ x \in DOMAIN challenges
  /\ Replace(x, "otp", now)
  /\ UNCHANGED <<now, accounts, identities, sessions, issued, calls, offered>>

ResendRecovery(x) ==
  /\ IsRecoveryLink(x)
  /\ Replace(x, "password", now)
  /\ UNCHANGED <<now, accounts, identities, sessions, issued, calls, offered>>

\* cancelVerification and cancelOtpChallenge.
CancelVerification(x) ==
  /\ x \in DOMAIN challenges
  /\ Cancel(x, now)
  /\ UNCHANGED <<now, accounts, identities, sessions, issued, calls, offered>>

CancelRecovery(x) == IsRecoveryLink(x) /\ CancelVerification(x)

ConsumeVerification(x) ==
  /\ x \in DOMAIN challenges
  /\ Consume(x, now)
  /\ UNCHANGED <<now, accounts, identities, sessions, issued, calls, offered>>

ConfirmPassword(s) ==
  /\ Resolves(s, now)
  /\ UsablePassword(UserOf[s])
  /\ IssueMarker(s, now, None)
  /\ UNCHANGED <<now, accounts, identities, challenges, calls, offered>>

\* The password's e-mail is the account's contact of this moment; a password
\* that exists keeps its e-mail, and e-mails are not shared.
SetPassword(s, p) ==
  LET u == UserOf[s]
      email == accounts[u].contact
      same == {i \in identities : i.provider = "password" /\ i.target = email}
  IN  /\ Resolves(s, now)
      /\ EnsureReAuth("setPassword", p, s, now)
      /\ email # None
      /\ \A v \in User \ {u} : accounts[v].password # email
      /\ accounts[u].password \in {None, email}
      /\ \A i \in same : i.user = u /\ i.active
      /\ accounts' = [accounts EXCEPT ![u].password = email, ![u].passwordBy = None]
      /\ identities' = IF same = {} THEN identities \cup
                         {[user |-> u, provider |-> "password", target |-> email, active |-> TRUE]}
                       ELSE identities
      /\ UNCHANGED <<now, sessions, issued, challenges, calls, offered>>

\* With the current password: a recovery no longer set the one in force.
ReplacePassword(u) ==
  /\ UsablePassword(u)
  /\ accounts' = [accounts EXCEPT ![u].passwordBy = None]

ChangePassword(s, p) ==
  /\ Resolves(s, now)
  /\ EnsureReAuth("changePassword", p, s, now)
  /\ ReplacePassword(UserOf[s])
  /\ UNCHANGED <<now, identities, sessions, issued, challenges, calls, offered>>

UnlinkIdentity(s, i, p) ==
  /\ Resolves(s, now)
  /\ EnsureReAuth("unlink", p, s, now)
  /\ i \in identities /\ i.active /\ i.user = UserOf[s]
  /\ \E j \in identities \ {i} : j.active /\ j.user = i.user
  /\ identities' = (identities \ {i}) \cup {[i EXCEPT !.active = FALSE]}
  /\ UNCHANGED <<now, accounts, sessions, issued, challenges, calls, offered>>

\* The session, or by its id any other session of the same user.
RevokeOwnedSession(s, r) ==
  /\ Resolves(s, now)
  /\ UserOf[r] = UserOf[s] /\ sessions[r].active /\ now < SessionEnd[r]
  /\ sessions' = [sessions EXCEPT ![r].active = FALSE]
  /\ UNCHANGED <<now, accounts, identities, issued, challenges, calls, offered>>

CloseAccount(s, p) ==
  /\ Resolves(s, now)
  /\ EnsureReAuth("closeAccount", p, s, now)
  /\ accounts' = [accounts EXCEPT ![UserOf[s]].closed = TRUE]
  /\ sessions' = [r \in SessionId |->
       IF UserOf[r] = UserOf[s] THEN [sessions[r] EXCEPT !.active = FALSE] ELSE sessions[r]]
  /\ UNCHANGED <<now, identities, issued, challenges, calls, offered>>

Tick ==
  /\ now < MaxTime
  /\ now' = now + 1
  /\ UNCHANGED <<accounts, identities, sessions, issued, challenges, calls, offered>>

-----------------------------------------------------------------------------
\* Users sign in with a one-time code sent to their contact; some have a password too.
Init ==
  /\ now = 0 /\ offered \in Applications
  /\ \E home \in [User -> Target], withPassword \in SUBSET User :
       /\ \A u, v \in User : home[u] = home[v] => u = v
       /\ accounts = [u \in User |->
            [closed |-> FALSE, contact |-> home[u], contactBy |-> None, passwordBy |-> None,
             password |-> IF u \in withPassword THEN home[u] ELSE None]]
       /\ identities =
            {[user |-> u, provider |-> "otp", target |-> home[u], active |-> TRUE] : u \in User}
            \cup {[user |-> u, provider |-> "password", target |-> home[u], active |-> TRUE] :
                     u \in withPassword}
  /\ sessions = [s \in SessionId |-> [active |-> TRUE, markers |-> << >>]]
  /\ issued = << >> /\ challenges = << >> /\ calls = {}

\* With a marker or without.
Proof == {p \in Marker : p.id \in DOMAIN issued} \cup {None}

Next ==
  \/ /\ "contactChange" \in offered
     /\ \/ \E s \in SessionId, p \in Proof, t \in Target : StartContactChange(s, p, t)
        \/ \E s \in SessionId, x \in ChallengeId : ResendContactChange(s, x)
        \/ \E s \in SessionId, x \in ChallengeId : CancelContactChange(s, x)
        \/ \E s \in SessionId, x \in ChallengeId : FinishContactChange(s, x)
  \/ /\ "otpReAuth" \in offered
     /\ \/ \E s \in SessionId, i \in identities : StartOtpReAuth(s, i)
        \/ \E s \in SessionId, x \in ChallengeId : ResendOtpReAuth(s, x)
        \/ \E s \in SessionId, x \in ChallengeId : CancelOtpReAuth(s, x)
        \/ \E s \in SessionId, x \in ChallengeId : FinishOtpReAuth(s, x)
  \/ "otp" \in offered /\ \E purpose \in PublicPurposes, t \in Target : StartOtp(purpose, t)
  \/ /\ "generic" \in offered
     /\ \/ \E x \in ChallengeId : FinishOtp(x)
        \/ \E x \in ChallengeId : ResendOtp(x)
        \/ \E x \in ChallengeId : CancelVerification(x)
        \/ \E x \in ChallengeId : ConsumeVerification(x)
  \/ /\ "recovery" \in offered
     /\ \/ \E t \in Target : StartRecovery(t)
        \/ \E x \in ChallengeId : FinishRecovery(x)
        \/ \E x \in ChallengeId : ResendRecovery(x)
        \/ \E x \in ChallengeId : CancelRecovery(x)
  \/ \E c \in calls :
       \/ CommitStart(c)
       \/ CommitContactChange(c)
       \/ CommitOtpReAuth(c)
       \/ CommitFinishOtp(c)
       \/ CommitRecovery(c)
       \/ CommitOwnedResend(c)
       \/ CommitOwnedCancel(c)
       \/ Fail(c)
  \/ "confirmPassword" \in offered /\ \E s \in SessionId : ConfirmPassword(s)
  \/ /\ "password" \in offered
     /\ \E s \in SessionId, p \in Proof : SetPassword(s, p) \/ ChangePassword(s, p)
  \/ /\ "unlink" \in offered
     /\ \E s \in SessionId, i \in identities, p \in Proof : UnlinkIdentity(s, i, p)
  \/ \E s, r \in SessionId : RevokeOwnedSession(s, r)
  \/ \E s \in SessionId, p \in Proof : CloseAccount(s, p)
  \/ Tick

Spec == Init /\ [][Next]_vars

-----------------------------------------------------------------------------
\* Records of their types; stored markers and challenges in use exist.
TypeOK ==
  /\ now \in Time
  /\ accounts \in [User -> Account]
  /\ identities \subseteq Identity
  /\ sessions \in [SessionId -> [active : BOOLEAN, markers : Seq(1..MaxIssued)]]
  /\ issued \in Seq([session : SessionId, at : Time, by : ChallengeId \cup {None}])
  /\ Len(issued) <= MaxIssued
  /\ DOMAIN challenges \subseteq ChallengeId
  /\ \A x \in DOMAIN challenges : challenges[x] \in Challenge
  /\ calls \subseteq Call
  /\ \A c \in calls : c.op \notin Starts => c.id \in DOMAIN challenges
  /\ offered \in Applications

\* A contact other than the first one is the target of a contact-change
\* challenge of a session of that user whose code was used up, whatever else
\* was resent, cancelled or finished meanwhile.
ContactWasProven ==
  \A u \in User : LET x == accounts[u].contactBy IN
    x # None =>
      /\ x \in DOMAIN challenges
      /\ challenges[x].purpose = "contactChange" /\ challenges[x].consumed
      /\ challenges[x].target = accounts[u].contact
      /\ challenges[x].session \in SessionId /\ UserOf[challenges[x].session] = u

\* Every contact-change challenge goes back, over any resends, to a start
\* within MaxAge of an authentication of the session that owns it.
ContactChangeIsReAuthenticated ==
  "updateContact" \in RequireReAuthFor =>
    \A x \in DOMAIN challenges :
      challenges[x].purpose = "contactChange" /\ challenges[x].session # None =>
        \E n \in 1..Len(issued) :
          /\ issued[n].session = challenges[x].session
          /\ issued[n].at <= challenges[x].startedAt
          /\ challenges[x].startedAt <= issued[n].at + MaxAge

\* One code buys one marker: two markers never come from the same challenge,
\* and that challenge was a re-authentication of the marker's session.
OneMarkerPerCode ==
  \A m \in 1..Len(issued) : LET x == issued[m].by IN
    x # None =>
      /\ x \in DOMAIN challenges
      /\ challenges[x].purpose = "reAuth" /\ challenges[x].consumed
      /\ challenges[x].session = issued[m].session
      /\ \A n \in 1..Len(issued) : issued[n].by = x => n = m

IssuedTo(s) == {n \in 1..Len(issued) : issued[n].session = s}

\* A session always accepts the MaxMarkers markers issued to it last, and no
\* others: the list is cut at its old end, and nothing else drops a marker.
NewestMarkersKept ==
  \A s \in SessionId :
    LET stored == {sessions[s].markers[n] : n \in 1..Len(sessions[s].markers)}
    IN  /\ stored \subseteq IssuedTo(s)
        /\ \A m \in IssuedTo(s) \ stored :
             Cardinality(stored) = MaxMarkers /\ \A n \in stored : m < n

\* The password in force, when a recovery set it, was set with a recovery
\* link sent to the password's own e-mail, and that link is used up.
RecoveredByOwnLink ==
  \A u \in User : LET x == accounts[u].passwordBy IN
    x # None =>
      /\ x \in DOMAIN challenges
      /\ challenges[x].purpose = "recovery" /\ challenges[x].provider = "password"
      /\ challenges[x].consumed /\ challenges[x].target = accounts[u].password

\* A resend, by whichever operation, keeps purpose, target and owner.
ResendKeepsClaim ==
  \A x \in DOMAIN challenges : LET y == challenges[x].replaces IN
    y # None =>
      /\ y \in DOMAIN challenges
      /\ challenges[x].purpose = challenges[y].purpose
      /\ challenges[x].target = challenges[y].target
      /\ challenges[x].session = challenges[y].session
      /\ challenges[x].startedAt = challenges[y].startedAt

-----------------------------------------------------------------------------
\* Whatever was checked before the rate limiter, a contact changes and a marker
\* is issued only while the session is unrevoked, its user open, and, for a
\* marker from a code, the target of the code still the user's.
EffectNeedsLiveSession ==
  /\ \A u \in User : accounts'[u].contact # accounts[u].contact =>
       LET x == accounts'[u].contactBy
       IN  ~accounts[u].closed /\ sessions[challenges[x].session].active
  /\ \A n \in DOMAIN issued' \ DOMAIN issued :
       /\ sessions[issued'[n].session].active
       /\ ~accounts[UserOf[issued'[n].session]].closed
       /\ issued'[n].by # None =>
            OwnsTarget(UserOf[issued'[n].session], challenges[issued'[n].by].target)
RevocationIsImmediate == [][EffectNeedsLiveSession]_vars

\* An account is closed only in a live session of it that authenticated again
\* within MaxAge, itself and not a session next to it.
CloseIsReAuthenticated ==
  [][\A u \in User :
       ~accounts[u].closed /\ accounts'[u].closed /\ "closeAccount" \in RequireReAuthFor =>
         \E s \in SessionId, n \in 1..Len(issued) :
           /\ UserOf[s] = u /\ sessions[s].active
           /\ issued[n].session = s /\ issued[n].at <= now /\ now <= issued[n].at + MaxAge]_vars

-----------------------------------------------------------------------------
\* The stored challenges without purposes, targets and owners.
Lifetimes ==
  [x \in DOMAIN challenges |->
     [status |-> IF challenges[x].consumed THEN "consumed" ELSE "pending",
      createdAt |-> challenges[x].createdAt, expiresAt |-> challenges[x].expiresAt,
      replaces |-> challenges[x].replaces]]
Contract == INSTANCE Verifications WITH Id <- ChallengeId, records <- Lifetimes

\* Owned flows, recovery and generic operations together keep the contract of
\* the stored challenges that Challenges keeps (verifications.ts).
KeepsContract == Contract!Spec
=============================================================================
