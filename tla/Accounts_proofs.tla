--------------------------- MODULE Accounts_proofs ---------------------------
(***************************************************************************)
(* Proofs about module Accounts, for any sets of ids, keys and contacts    *)
(* and any policy.  The inductive invariant is the conjunction of the      *)
(* state properties of Accounts; it is built up in layers, since the types *)
(* need the indexes and the other properties need both.                    *)
(***************************************************************************)
EXTENDS Accounts, TLAPS

-----------------------------------------------------------------------------
(* TypeOK and IndexesAgree together, by the variables they are about. *)

\* The users and the audit events of merges.
UsersTyped ==
  /\ DOMAIN users \subseteq UserId
  /\ \A u \in DOMAIN users : users[u] \in {"active", "disabled"}
LogTyped ==
  /\ mergeLog \subseteq MergeEvent
  /\ \A e \in mergeLog : e.source \in DOMAIN users

\* The identity records and their index.
IdentitiesTyped ==
  /\ DOMAIN identities \subseteq IdentityId
  /\ \A i \in DOMAIN identities :
       identities[i] \in Identity /\ identities[i].user \in DOMAIN users
  /\ DOMAIN identityKeys \subseteq Key
  /\ \A k \in DOMAIN identityKeys :
       identityKeys[k] \in DOMAIN identities /\ identities[identityKeys[k]].key = k
  /\ \A i \in DOMAIN identities :
       identities[i].key \in DOMAIN identityKeys /\ identityKeys[identities[i].key] = i

\* The credential records and their two indexes.
CredentialsTyped ==
  /\ DOMAIN credentials \subseteq CredentialId
  /\ \A c \in DOMAIN credentials :
       credentials[c] \in Credential /\ credentials[c].user \in DOMAIN users
  /\ DOMAIN credentialKeys \subseteq Email
  /\ \A e \in DOMAIN credentialKeys :
       credentialKeys[e] \in DOMAIN credentials /\ credentials[credentialKeys[e]].subject = e
  /\ DOMAIN credentialUserKeys \subseteq UserId
  /\ \A u \in DOMAIN credentialUserKeys :
       credentialUserKeys[u] \in DOMAIN credentials /\ credentials[credentialUserKeys[u]].user = u
  /\ \A c \in DOMAIN credentials :
       /\ credentials[c].subject \in DOMAIN credentialKeys
       /\ credentialKeys[credentials[c].subject] = c
       /\ credentials[c].user \in DOMAIN credentialUserKeys
       /\ credentialUserKeys[credentials[c].user] = c

\* The sessions.
SessionsTyped ==
  /\ DOMAIN sessions \subseteq SessionId
  /\ \A s \in DOMAIN sessions : sessions[s] \in Session /\ sessions[s].user \in DOMAIN users

Core == UsersTyped /\ LogTyped /\ IdentitiesTyped /\ CredentialsTyped /\ SessionsTyped

\* Core says what the two invariants say.
LEMMA CoreParts == Core <=> TypeOK /\ IndexesAgree
<1>1. Core => TypeOK
  BY DEF Core, TypeOK, UsersTyped, IdentitiesTyped, CredentialsTyped, SessionsTyped, LogTyped
<1>2. Core => IndexesAgree
  BY DEF Core, IndexesAgree, IdentitiesTyped, CredentialsTyped
<1>3. TypeOK /\ IndexesAgree => UsersTyped /\ SessionsTyped /\ LogTyped
  BY DEF TypeOK, UsersTyped, SessionsTyped, LogTyped
<1>4. TypeOK /\ IndexesAgree => IdentitiesTyped
  BY DEF TypeOK, IndexesAgree, IdentitiesTyped
<1>5. TypeOK /\ IndexesAgree => CredentialsTyped
  BY DEF TypeOK, IndexesAgree, CredentialsTyped
<1> QED
  BY <1>1, <1>2, <1>3, <1>4, <1>5 DEF Core


-----------------------------------------------------------------------------
\* A fresh id is one that no record has.
LEMMA FreshFacts ==
  ASSUME NEW S, NEW f, Unused(S, f) # {}
  PROVE  Fresh(S, f) \in S /\ Fresh(S, f) \notin DOMAIN f
<1> DEFINE x == CHOOSE y \in Unused(S, f) : TRUE
<1>1. x \in Unused(S, f)
  OBVIOUS
<1> QED
  BY <1>1 DEF Unused, Fresh

-----------------------------------------------------------------------------
(* The effects the actions share. *)

\* A session is opened for an active user.
OpensSession ==
  \E u \in DOMAIN users, s \in SessionId :
    /\ ActiveUser(u) /\ s \notin DOMAIN sessions
    /\ sessions' = Put(sessions, s, [user |-> u, status |-> "active", lapsed |-> FALSE])

\* Sessions are kept with their users; an active one was active before.
SessionsOnlyEnd ==
  /\ DOMAIN sessions' = DOMAIN sessions
  /\ \A s \in DOMAIN sessions :
       /\ sessions'[s] \in Session
       /\ sessions'[s].user = sessions[s].user
       /\ sessions'[s].status = "active" => sessions[s].status = "active"

\* One identity is created, for user u under the free key k.
CreatesIdentity(u, k) ==
  \E i \in IdentityId, v \in SUBSET (Email \cup Phone) :
    /\ i \notin DOMAIN identities /\ k \notin DOMAIN identityKeys
    /\ identities' = Put(identities, i, [user |-> u, key |-> k, status |-> "active",
                                         verified |-> v])
    /\ identityKeys' = Put(identityKeys, k, i)

\* One credential is created, for user u under the e-mail e.
CreatesCredential(u, e) ==
  \E c \in CredentialId :
    /\ c \notin DOMAIN credentials
    /\ e \notin DOMAIN credentialKeys /\ u \notin DOMAIN credentialUserKeys
    /\ credentials' = Put(credentials, c, [user |-> u, subject |-> e])
    /\ credentialKeys' = Put(credentialKeys, e, c)
    /\ credentialUserKeys' = Put(credentialUserKeys, u, c)

LEMMA OpenSessionOpens ==
  ASSUME NEW u, ActiveUser(u), OpenSession(u)
  PROVE  OpensSession
BY FreshFacts DEF OpenSession, OpensSession, ActiveUser

LEMMA RevokeEnds ==
  ASSUME TypeOK, NEW S, Revoke(S)
  PROVE  /\ SessionsOnlyEnd
         /\ \A s \in S \cap DOMAIN sessions : sessions'[s].status = "revoked"
BY DEF TypeOK, Session, Revoke, SessionsOnlyEnd

LEMMA CreateIdentityCreates ==
  ASSUME NEW u, NEW k, NEW v \in SUBSET (Email \cup Phone), CreateIdentity(u, k, v)
  PROVE  CreatesIdentity(u, k)
BY FreshFacts DEF CreateIdentity, CreatesIdentity

LEMMA CreateCredentialCreates ==
  ASSUME NEW u, NEW e, CreateCredential(u, e)
  PROVE  CreatesCredential(u, e)
BY FreshFacts DEF CreateCredential, CreatesCredential

LEMMA EvidenceType == Evidence \subseteq SUBSET (Email \cup Phone)
BY DEF Evidence, AtMostOne

-----------------------------------------------------------------------------
(* The steps, by what they change. *)

\* Sessions are opened or ended, nothing else happens.
SessionEffect ==
  /\ OpensSession \/ SessionsOnlyEnd
  /\ UNCHANGED <<users, identityVars, credentialVars, mergeLog>>

\* An active user gets one more identity, perhaps while signing in.
LinkEffect ==
  /\ \E u \in DOMAIN users, k \in Key : ActiveUser(u) /\ CreatesIdentity(u, k)
  /\ OpensSession \/ UNCHANGED sessions
  /\ UNCHANGED <<users, credentialVars, mergeLog>>

\* A user is created with an identity and a session.
NewAccountEffect ==
  /\ \E u \in UserId \ DOMAIN users :
       /\ users' = Put(users, u, "active")
       /\ \E k \in Key : CreatesIdentity(u, k)
       /\ \E s \in SessionId \ DOMAIN sessions :
            sessions' = Put(sessions, s, [user |-> u, status |-> "active", lapsed |-> FALSE])
  /\ UNCHANGED <<credentialVars, mergeLog>>

\* An active user gets a credential and the identity that goes with it,
\* as far as they are missing.
PasswordEffect(u, e) ==
  /\ ActiveUser(u)
  /\ \/ e \in DOMAIN identityKeys /\ identityKeys[e] \in ActiveIdentitiesOf(u)
        /\ UNCHANGED identityVars
     \/ CreatesIdentity(u, e)
  /\ UNCHANGED credentialVars \/ CreatesCredential(u, e)
  /\ UNCHANGED <<users, sessions, mergeLog>>

\* An active user is disabled and all sessions of the user end.
CloseEffect ==
  /\ \E u \in DOMAIN users :
       /\ ActiveUser(u)
       /\ users' = [users EXCEPT ![u] = "disabled"]
       /\ SessionsOnlyEnd
       /\ \A s \in ActiveSessionsOf(u) : sessions'[s].status = "revoked"
  /\ UNCHANGED <<identityVars, credentialVars, mergeLog>>

Steps ==
  \/ SessionEffect
  \/ LinkEffect
  \/ NewAccountEffect
  \/ \E u \in UserId, e \in Email : PasswordEffect(u, e)
  \/ \E u \in UserId, i \in IdentityId : Unlink(u, i)
  \/ \E s \in SessionId, u, w \in UserId : MergeAccounts(s, u, w)
  \/ \E u, w \in UserId : AlreadyMerged(u, w)
  \/ CloseEffect
  \/ UNCHANGED vars

\* Every step of the specification has one of these effects.
LEMMA NextSteps ==
  ASSUME TypeOK, [Next]_vars
  PROVE  Steps
<1>1. ASSUME NEW k \in AssertedKey, SignInExact(k)
      PROVE  SessionEffect
  BY <1>1, OpenSessionOpens DEF SignInExact, SessionEffect
<1>2. ASSUME NEW k \in AssertedKey, NEW v \in Evidence, SignInAutoLink(k, v)
      PROVE  LinkEffect
  <2>1. PICK u \in DOMAIN users : /\ IsAutoLinkTarget(u, v)
                                 /\ CreateIdentity(u, k, v)
                                 /\ OpenSession(u)
    BY <1>2 DEF SignInAutoLink
  <2>2. ActiveUser(u)
    BY <2>1 DEF IsAutoLinkTarget
  <2>3. CreatesIdentity(u, k) /\ OpensSession
    BY <2>1, <2>2, CreateIdentityCreates, OpenSessionOpens, EvidenceType
  <2> QED
    BY <1>2, <2>2, <2>3, AssertedAreKeys DEF SignInAutoLink, LinkEffect, Key
<1>3. ASSUME NEW k \in AssertedKey, NEW v \in Evidence, SignInNewUser(k, v)
      PROVE  NewAccountEffect
  <2> DEFINE u == Fresh(UserId, users)
  <2>1. /\ users' = Put(users, u, "active")
        /\ CreateIdentity(u, k, v)
        /\ OpenSession(u)
        /\ Unused(UserId, users) # {}
    BY <1>3 DEF SignInNewUser
  <2>2. u \in UserId \ DOMAIN users
    BY <2>1, FreshFacts
  <2>3. CreatesIdentity(u, k)
    BY <2>1, CreateIdentityCreates, EvidenceType
  <2>4. \E s \in SessionId \ DOMAIN sessions :
          sessions' = Put(sessions, s, [user |-> u, status |-> "active", lapsed |-> FALSE])
    BY <2>1, FreshFacts DEF OpenSession
  <2> HIDE DEF u
  <2> QED
    BY <1>3, <2>1, <2>2, <2>3, <2>4, AssertedAreKeys DEF SignInNewUser, NewAccountEffect, Key
<1>4. ASSUME NEW u \in UserId, NEW k \in AssertedKey, NEW v \in Evidence, Link(u, k, v)
      PROVE  LinkEffect
  <2>1. CreatesIdentity(u, k)
    BY <1>4, CreateIdentityCreates, EvidenceType DEF Link
  <2> QED
    BY <1>4, <2>1, AssertedAreKeys DEF Link, LinkEffect, Key, ActiveUser
<1>5. ASSUME NEW u \in UserId, NEW e \in Email, SetPassword(u, e)
      PROVE  PasswordEffect(u, e)
  <2>1. {e} \in SUBSET (Email \cup Phone)
    OBVIOUS
  <2>2. CreateIdentity(u, e, {e}) => CreatesIdentity(u, e)
    BY <2>1, CreateIdentityCreates
  <2>3. CreateCredential(u, e) => CreatesCredential(u, e)
    BY CreateCredentialCreates
  <2> QED
    BY <1>5, <2>2, <2>3 DEF SetPassword, EnsurePasswordIdentity, PasswordEffect
<1>6. ASSUME NEW e \in Email, SignInWithPassword(e)
      PROVE  SessionEffect
  BY <1>6, OpenSessionOpens DEF SignInWithPassword, UsablePassword, SessionEffect
<1>7. ASSUME NEW u \in UserId, CreateSession(u)
      PROVE  SessionEffect
  BY <1>7, OpenSessionOpens DEF CreateSession, SessionEffect
<1>8. ASSUME NEW s \in SessionId, RevokeSession(s)
      PROVE  SessionEffect
  BY <1>8, RevokeEnds DEF RevokeSession, SessionEffect
<1>9. ASSUME NEW u \in UserId, RevokeAllSessions(u)
      PROVE  SessionEffect
  BY <1>9, RevokeEnds DEF RevokeAllSessions, RevokeUserSessions, SessionEffect
<1>10. ASSUME NEW s \in SessionId, RevokeOtherSessionsByToken(s)
       PROVE  SessionEffect
  BY <1>10, RevokeEnds DEF RevokeOtherSessionsByToken, RevokeUserSessions, SessionEffect
<1>11. ASSUME NEW s \in SessionId, NEW t \in SessionId, RevokeOwnedSessionByToken(s, t)
       PROVE  SessionEffect
  BY <1>11, RevokeEnds DEF RevokeOwnedSessionByToken, SessionEffect
<1>12. ASSUME NEW s \in SessionId, CloseCurrentAccount(s)
       PROVE  CloseEffect
  <2> DEFINE u == sessions[s].user
  <2>1. ActiveUser(u) /\ Revoke(ActiveSessionsOf(u) \ {})
    BY <1>12 DEF CloseCurrentAccount, RevokeUserSessions
  <2>2. SessionsOnlyEnd /\ \A t \in ActiveSessionsOf(u) : sessions'[t].status = "revoked"
    BY <2>1, RevokeEnds DEF ActiveSessionsOf
  <2> QED
    BY <1>12, <2>1, <2>2 DEF CloseCurrentAccount, CloseEffect, ActiveUser
<1>13. ASSUME NEW s \in SessionId, Lapse(s)
       PROVE  SessionEffect
  BY <1>13 DEF Lapse, SessionEffect, SessionsOnlyEnd, TypeOK, Session
<1> QED
  BY <1>1, <1>2, <1>3, <1>4, <1>5, <1>6, <1>7, <1>8, <1>9, <1>10, <1>11, <1>12, <1>13
     DEF Next, Steps

-----------------------------------------------------------------------------
(* Type correctness and the indexes. *)

LEMMA CoreInit ==
  ASSUME Init
  PROVE  Core
BY DEF Init, Core, UsersTyped, LogTyped, IdentitiesTyped, CredentialsTyped, SessionsTyped

LEMMA SessionsStayTyped ==
  ASSUME SessionsTyped, OpensSession \/ SessionsOnlyEnd \/ UNCHANGED sessions,
         DOMAIN users \subseteq DOMAIN users', DOMAIN users \subseteq UserId
  PROVE  SessionsTyped'
<1>1. CASE OpensSession
  <2>1. PICK u \in DOMAIN users, s \in SessionId :
          /\ s \notin DOMAIN sessions
          /\ sessions' = Put(sessions, s, [user |-> u, status |-> "active", lapsed |-> FALSE])
    BY <1>1 DEF OpensSession
  <2>2. [user |-> u, status |-> "active", lapsed |-> FALSE] \in Session
    BY DEF Session
  <2> QED
    BY <2>1, <2>2 DEF Put, SessionsTyped
<1>2. CASE SessionsOnlyEnd
  BY <1>2 DEF SessionsOnlyEnd, SessionsTyped
<1>3. CASE UNCHANGED sessions
  BY <1>3 DEF SessionsTyped
<1> QED
  BY <1>1, <1>2, <1>3

LEMMA IdentitiesStayTyped ==
  ASSUME IdentitiesTyped, DOMAIN users \subseteq DOMAIN users', DOMAIN users' \subseteq UserId,
         UNCHANGED identityVars \/ \E u \in DOMAIN users', k \in Key : CreatesIdentity(u, k)
  PROVE  IdentitiesTyped'
<1>1. CASE UNCHANGED identityVars
  BY <1>1 DEF identityVars, IdentitiesTyped
<1>2. ASSUME NEW u \in DOMAIN users', NEW k \in Key, CreatesIdentity(u, k)
      PROVE  IdentitiesTyped'
  <2>1. PICK i \in IdentityId, v \in SUBSET (Email \cup Phone) :
          /\ i \notin DOMAIN identities /\ k \notin DOMAIN identityKeys
          /\ identities' = Put(identities, i, [user |-> u, key |-> k, status |-> "active",
                                               verified |-> v])
          /\ identityKeys' = Put(identityKeys, k, i)
    BY <1>2 DEF CreatesIdentity
  <2> DEFINE r == [user |-> u, key |-> k, status |-> "active", verified |-> v]
  <2>2. r \in Identity /\ r.user = u /\ r.key = k
    BY DEF Identity
  <2> HIDE DEF r
  <2>3. /\ DOMAIN identities' = DOMAIN identities \cup {i} /\ identities'[i] = r
        /\ \A j \in DOMAIN identities : identities'[j] = identities[j]
    BY <2>1 DEF Put, r
  <2>4. /\ DOMAIN identityKeys' = DOMAIN identityKeys \cup {k} /\ identityKeys'[k] = i
        /\ \A x \in DOMAIN identityKeys : identityKeys'[x] = identityKeys[x]
    BY <2>1 DEF Put
  <2> QED
    BY <2>1, <2>2, <2>3, <2>4 DEF IdentitiesTyped
<1> QED
  BY <1>1, <1>2

LEMMA CredentialsStayTyped ==
  ASSUME CredentialsTyped, DOMAIN users \subseteq DOMAIN users', DOMAIN users' \subseteq UserId,
         UNCHANGED credentialVars \/ \E u \in DOMAIN users, e \in Email : CreatesCredential(u, e)
  PROVE  CredentialsTyped'
<1>1. CASE UNCHANGED credentialVars
  BY <1>1 DEF credentialVars, CredentialsTyped
<1>2. ASSUME NEW u \in DOMAIN users, NEW e \in Email, CreatesCredential(u, e)
      PROVE  CredentialsTyped'
  <2>1. PICK c \in CredentialId :
          /\ c \notin DOMAIN credentials
          /\ e \notin DOMAIN credentialKeys /\ u \notin DOMAIN credentialUserKeys
          /\ credentials' = Put(credentials, c, [user |-> u, subject |-> e])
          /\ credentialKeys' = Put(credentialKeys, e, c)
          /\ credentialUserKeys' = Put(credentialUserKeys, u, c)
    BY <1>2 DEF CreatesCredential
  <2> DEFINE r == [user |-> u, subject |-> e]
  <2>2. r \in Credential /\ r.user = u /\ r.subject = e
    BY DEF Credential
  <2> HIDE DEF r
  <2>3. /\ DOMAIN credentials' = DOMAIN credentials \cup {c} /\ credentials'[c] = r
        /\ \A d \in DOMAIN credentials : credentials'[d] = credentials[d]
    BY <2>1 DEF Put, r
  <2>4. /\ DOMAIN credentialKeys' = DOMAIN credentialKeys \cup {e} /\ credentialKeys'[e] = c
        /\ \A x \in DOMAIN credentialKeys : credentialKeys'[x] = credentialKeys[x]
    BY <2>1 DEF Put
  <2>5. /\ DOMAIN credentialUserKeys' = DOMAIN credentialUserKeys \cup {u}
        /\ credentialUserKeys'[u] = c
        /\ \A x \in DOMAIN credentialUserKeys : credentialUserKeys'[x] = credentialUserKeys[x]
    BY <2>1 DEF Put
  <2>6. /\ DOMAIN credentials' \subseteq CredentialId
        /\ \A d \in DOMAIN credentials' :
             credentials'[d] \in Credential /\ credentials'[d].user \in DOMAIN users'
    BY <2>1, <2>2, <2>3 DEF CredentialsTyped
  <2>7. /\ DOMAIN credentialKeys' \subseteq Email
        /\ \A x \in DOMAIN credentialKeys' :
             /\ credentialKeys'[x] \in DOMAIN credentials'
             /\ credentials'[credentialKeys'[x]].subject = x
    BY <2>2, <2>3, <2>4 DEF CredentialsTyped
  <2>8. /\ DOMAIN credentialUserKeys' \subseteq UserId
        /\ \A x \in DOMAIN credentialUserKeys' :
             /\ credentialUserKeys'[x] \in DOMAIN credentials'
             /\ credentials'[credentialUserKeys'[x]].user = x
    BY <2>2, <2>3, <2>5 DEF CredentialsTyped
  <2>9. \A d \in DOMAIN credentials' :
          /\ credentials'[d].subject \in DOMAIN credentialKeys'
          /\ credentialKeys'[credentials'[d].subject] = d
          /\ credentials'[d].user \in DOMAIN credentialUserKeys'
          /\ credentialUserKeys'[credentials'[d].user] = d
    BY <2>2, <2>3, <2>4, <2>5 DEF CredentialsTyped
  <2> QED
    BY <2>6, <2>7, <2>8, <2>9 DEF CredentialsTyped
<1> QED
  BY <1>1, <1>2

\* What Unlink does to the identity records.
LEMMA UnlinkEffect ==
  ASSUME Core, NEW u, NEW i, Unlink(u, i)
  PROVE  /\ i \in ActiveIdentitiesOf(u)
         /\ DOMAIN identities' = DOMAIN identities
         /\ \A j \in DOMAIN identities :
              /\ identities'[j] \in Identity
              /\ identities'[j].user = identities[j].user
              /\ identities'[j].key = identities[j].key
              /\ identities'[j].verified = identities[j].verified
              /\ identities'[j].status = IF j = i THEN "disabled" ELSE identities[j].status
         /\ UNCHANGED identityKeys
BY DEF Unlink, ActiveIdentitiesOf, Core, IdentitiesTyped, Identity

\* What a merge does to identities, credentials and sessions.
LEMMA MergeIdentities ==
  ASSUME Core, NEW u \in UserId, NEW w \in UserId, MoveIdentities(u, w)
  PROVE  /\ DOMAIN identities' = DOMAIN identities
         /\ \A j \in DOMAIN identities :
              /\ identities'[j] \in Identity
              /\ identities'[j].key = identities[j].key
              /\ identities'[j].status = identities[j].status
              /\ identities'[j].verified = identities[j].verified
              /\ identities'[j].user = IF j \in ActiveIdentitiesOf(u) THEN w ELSE identities[j].user
         /\ UNCHANGED identityKeys
BY DEF MoveIdentities, Core, IdentitiesTyped, Identity

LEMMA MergeCredentials ==
  ASSUME Core, NEW u \in UserId, NEW w \in UserId, MoveCredentials(u, w)
  PROVE  /\ DOMAIN credentials' = DOMAIN credentials
         /\ \A c \in DOMAIN credentials :
              /\ credentials'[c] \in Credential
              /\ credentials'[c].subject = credentials[c].subject
              /\ credentials'[c].user = IF c \in CredentialsOf(u) THEN w ELSE credentials[c].user
         /\ UNCHANGED credentialKeys
BY DEF MoveCredentials, Core, CredentialsTyped, Credential

\* The per-user index of credentials follows the merge.
LEMMA MergeCredentialIndex ==
  ASSUME Core, NEW u \in UserId, NEW w \in UserId, u # w, MoveCredentials(u, w)
  PROVE  \/ CredentialsOf(u) = {} /\ UNCHANGED credentialUserKeys
         \/ \E c \in DOMAIN credentials :
              /\ CredentialsOf(u) = {c}
              /\ w \notin DOMAIN credentialUserKeys
              /\ DOMAIN credentialUserKeys' = (DOMAIN credentialUserKeys \ {u}) \cup {w}
              /\ credentialUserKeys'[w] = c
              /\ \A x \in DOMAIN credentialUserKeys \ {u} :
                   credentialUserKeys'[x] = credentialUserKeys[x]
<1>1. CASE CredentialsOf(u) = {}
  BY <1>1 DEF MoveCredentials
<1>2. CASE CredentialsOf(u) # {}
  <2>1. PICK c \in CredentialsOf(u) : TRUE
    BY <1>2
  <2>2. CredentialsOf(u) = {c}
    BY <2>1 DEF CredentialsOf, Core, CredentialsTyped
  <2>3. (CHOOSE x \in CredentialsOf(u) : TRUE) = c
    BY <2>2
  <2>4. credentialUserKeys' = Rekey(credentialUserKeys, u, w, c) /\ w \notin DOMAIN credentialUserKeys
    BY <1>2, <2>3 DEF MoveCredentials
  <2>5. c \in DOMAIN credentials
    BY <2>1 DEF CredentialsOf
  <2> QED
    BY <2>2, <2>4, <2>5 DEF Rekey
<1> QED
  BY <1>1, <1>2

\* The users a merge leaves, and the sessions.
LEMMA MergeEffect ==
  ASSUME Core, NEW s \in SessionId, NEW u \in UserId, NEW w \in UserId, MergeAccounts(s, u, w)
  PROVE  /\ u # w /\ ActiveUser(u) /\ ActiveUser(w)
         /\ s \in ActiveSessionsOf(u)
         /\ users' = [users EXCEPT ![u] = "disabled"]
         /\ MoveIdentities(u, w) /\ MoveCredentials(u, w)
         /\ SessionsOnlyEnd
         /\ \A t \in ActiveSessionsOf(u) : sessions'[t].status = "revoked"
         /\ mergeLog' = mergeLog \cup {[source |-> u, target |-> w, decision |-> "merged"]}
<1>1. SessionsOnlyEnd /\ \A t \in ActiveSessionsOf(u) : sessions'[t].status = "revoked"
  BY RevokeEnds, CoreParts DEF MergeAccounts, ActiveSessionsOf
<1> QED
  BY <1>1 DEF MergeAccounts

LEMMA CoreStep ==
  ASSUME Core, Steps
  PROVE  Core'
<1> USE DEF Core
<1>1. CASE SessionEffect
  <2>1. UsersTyped' /\ IdentitiesTyped' /\ CredentialsTyped' /\ LogTyped'
    BY <1>1 DEF SessionEffect, identityVars, credentialVars, UsersTyped, IdentitiesTyped,
                CredentialsTyped, LogTyped
  <2>2. SessionsTyped'
    BY <1>1, SessionsStayTyped DEF SessionEffect, UsersTyped
  <2> QED
    BY <2>1, <2>2
<1>2. CASE LinkEffect
  <2>1. UsersTyped' /\ CredentialsTyped' /\ LogTyped'
    BY <1>2 DEF LinkEffect, credentialVars, UsersTyped, CredentialsTyped, LogTyped
  <2>2. SessionsTyped'
    BY <1>2, SessionsStayTyped DEF LinkEffect, UsersTyped
  <2>3. IdentitiesTyped'
    BY <1>2, IdentitiesStayTyped DEF LinkEffect, UsersTyped
  <2> QED
    BY <2>1, <2>2, <2>3
<1>3. CASE NewAccountEffect
  <2>1. PICK u \in UserId \ DOMAIN users, k \in Key, s \in SessionId \ DOMAIN sessions :
          /\ users' = Put(users, u, "active")
          /\ CreatesIdentity(u, k)
          /\ sessions' = Put(sessions, s, [user |-> u, status |-> "active", lapsed |-> FALSE])
    BY <1>3 DEF NewAccountEffect
  <2>2. /\ DOMAIN users' = DOMAIN users \cup {u} /\ users'[u] = "active"
        /\ \A w \in DOMAIN users : users'[w] = users[w]
    BY <2>1 DEF Put
  <2>3. UsersTyped' /\ LogTyped'
    BY <1>3, <2>2 DEF NewAccountEffect, UsersTyped, LogTyped
  <2>4. IdentitiesTyped'
    BY <2>1, <2>2, IdentitiesStayTyped DEF UsersTyped
  <2>5. CredentialsTyped'
    BY <1>3, <2>2, CredentialsStayTyped DEF NewAccountEffect, UsersTyped
  <2>6. SessionsTyped'
    <3>1. [user |-> u, status |-> "active", lapsed |-> FALSE] \in Session
      BY DEF Session
    <3> QED
      BY <2>1, <2>2, <3>1 DEF Put, SessionsTyped
  <2> QED
    BY <2>3, <2>4, <2>5, <2>6
<1>4. ASSUME NEW u \in UserId, NEW e \in Email, PasswordEffect(u, e)
      PROVE  Core'
  <2>1. u \in DOMAIN users /\ UNCHANGED <<users, sessions, mergeLog>> /\ e \in Key
    BY <1>4 DEF PasswordEffect, ActiveUser, Key
  <2>2. UsersTyped' /\ SessionsTyped' /\ LogTyped'
    BY <2>1 DEF UsersTyped, SessionsTyped, LogTyped
  <2>3. IdentitiesTyped'
    BY <1>4, <2>1, IdentitiesStayTyped DEF PasswordEffect, UsersTyped
  <2>4. CredentialsTyped'
    BY <1>4, <2>1, CredentialsStayTyped DEF PasswordEffect, UsersTyped
  <2> QED
    BY <2>2, <2>3, <2>4
<1>5. ASSUME NEW u \in UserId, NEW i \in IdentityId, Unlink(u, i)
      PROVE  Core'
  <2>1. UNCHANGED <<users, credentialVars, sessions, mergeLog>>
    BY <1>5 DEF Unlink
  <2>2. UsersTyped' /\ SessionsTyped' /\ LogTyped' /\ CredentialsTyped'
    BY <2>1 DEF UsersTyped, SessionsTyped, LogTyped, CredentialsTyped, credentialVars
  <2>3. IdentitiesTyped'
    BY <1>5, <2>1, UnlinkEffect DEF IdentitiesTyped
  <2> QED
    BY <2>2, <2>3
<1>6. ASSUME NEW s \in SessionId, NEW u \in UserId, NEW w \in UserId, MergeAccounts(s, u, w)
      PROVE  Core'
  <2>1. /\ u # w /\ u \in DOMAIN users /\ w \in DOMAIN users
        /\ DOMAIN users' = DOMAIN users
        /\ MoveIdentities(u, w) /\ MoveCredentials(u, w)
    BY <1>6, MergeEffect DEF ActiveUser
  <2>2. UsersTyped' /\ LogTyped'
    BY <1>6, <2>1, MergeEffect DEF UsersTyped, LogTyped, MergeEvent
  <2>3. SessionsTyped'
    BY <1>6, <2>1, MergeEffect, SessionsStayTyped DEF UsersTyped
  <2>4. IdentitiesTyped'
    BY <2>1, MergeIdentities DEF IdentitiesTyped
  <2>5. CredentialsTyped'
    <3>1. /\ DOMAIN credentials' = DOMAIN credentials /\ UNCHANGED credentialKeys
          /\ \A c \in DOMAIN credentials :
               /\ credentials'[c] \in Credential
               /\ credentials'[c].subject = credentials[c].subject
               /\ credentials'[c].user = IF c \in CredentialsOf(u) THEN w ELSE credentials[c].user
      BY <2>1, MergeCredentials
    <3>2. CASE CredentialsOf(u) = {} /\ UNCHANGED credentialUserKeys
      BY <2>1, <3>1, <3>2 DEF CredentialsTyped
    <3>3. ASSUME NEW c \in DOMAIN credentials,
                 /\ CredentialsOf(u) = {c}
                 /\ w \notin DOMAIN credentialUserKeys
                 /\ DOMAIN credentialUserKeys' = (DOMAIN credentialUserKeys \ {u}) \cup {w}
                 /\ credentialUserKeys'[w] = c
                 /\ \A x \in DOMAIN credentialUserKeys \ {u} :
                      credentialUserKeys'[x] = credentialUserKeys[x]
          PROVE  CredentialsTyped'
      <4>1. /\ credentials'[c].user = w
            /\ \A d \in DOMAIN credentials \ {c} :
                 credentials'[d].user = credentials[d].user /\ credentials[d].user # u
        BY <3>1, <3>3 DEF CredentialsOf
      <4>2. \A d \in DOMAIN credentials \ {c} : credentials[d].user # w
        BY <3>3 DEF CredentialsTyped
      <4>3. /\ DOMAIN credentials' \subseteq CredentialId
            /\ \A d \in DOMAIN credentials' :
                 credentials'[d] \in Credential /\ credentials'[d].user \in DOMAIN users'
        BY <2>1, <3>1 DEF CredentialsTyped
      <4>4. /\ DOMAIN credentialKeys' \subseteq Email
            /\ \A e \in DOMAIN credentialKeys' :
                 /\ credentialKeys'[e] \in DOMAIN credentials'
                 /\ credentials'[credentialKeys'[e]].subject = e
            /\ \A d \in DOMAIN credentials' :
                 /\ credentials'[d].subject \in DOMAIN credentialKeys'
                 /\ credentialKeys'[credentials'[d].subject] = d
        BY <3>1 DEF CredentialsTyped
      <4>5. /\ DOMAIN credentialUserKeys' \subseteq UserId
            /\ \A x \in DOMAIN credentialUserKeys' :
                 /\ credentialUserKeys'[x] \in DOMAIN credentials'
                 /\ credentials'[credentialUserKeys'[x]].user = x
        <5>1. ASSUME NEW x \in DOMAIN credentialUserKeys \ {u}
              PROVE  /\ x \in UserId
                     /\ credentialUserKeys'[x] \in DOMAIN credentials'
                     /\ credentials'[credentialUserKeys'[x]].user = x
          <6>1. /\ x \in UserId /\ credentialUserKeys[x] \in DOMAIN credentials
                /\ credentials[credentialUserKeys[x]].user = x
            BY DEF CredentialsTyped
          <6>2. credentialUserKeys[x] # c
            BY <3>3, <6>1 DEF CredentialsOf
          <6> QED
            BY <3>1, <3>3, <4>1, <6>1, <6>2
        <5>2. w \in UserId /\ credentialUserKeys'[w] = c /\ credentials'[c].user = w
          BY <3>3, <4>1
        <5> QED
          BY <3>1, <3>3, <5>1, <5>2
      <4>6. ASSUME NEW d \in DOMAIN credentials'
            PROVE  /\ credentials'[d].user \in DOMAIN credentialUserKeys'
                   /\ credentialUserKeys'[credentials'[d].user] = d
        <5>1. CASE d = c
          BY <3>3, <4>1, <5>1
        <5>2. CASE d # c
          <6>1. /\ credentials[d].user \in DOMAIN credentialUserKeys
                /\ credentialUserKeys[credentials[d].user] = d
            BY <3>1 DEF CredentialsTyped
          <6>2. credentials'[d].user = credentials[d].user /\ credentials[d].user # u
            BY <3>1, <4>1, <5>2
          <6> QED
            BY <3>3, <6>1, <6>2
        <5> QED
          BY <5>1, <5>2
      <4> QED
        BY <4>3, <4>4, <4>5, <4>6 DEF CredentialsTyped
    <3> QED
      BY <2>1, <3>2, <3>3, MergeCredentialIndex
  <2> QED
    BY <2>2, <2>3, <2>4, <2>5
<1>7. ASSUME NEW u \in UserId, NEW w \in UserId, AlreadyMerged(u, w)
      PROVE  Core'
  <2>1. UsersTyped' /\ SessionsTyped' /\ IdentitiesTyped' /\ CredentialsTyped'
    BY <1>7 DEF AlreadyMerged, identityVars, credentialVars, UsersTyped, SessionsTyped,
                IdentitiesTyped, CredentialsTyped
  <2>2. LogTyped'
    BY <1>7 DEF AlreadyMerged, LogTyped, MergeEvent
  <2> QED
    BY <2>1, <2>2
<1>8. CASE CloseEffect
  <2>1. DOMAIN users' = DOMAIN users /\ UsersTyped'
    BY <1>8 DEF CloseEffect, UsersTyped
  <2>2. SessionsTyped'
    BY <1>8, <2>1, SessionsStayTyped DEF CloseEffect, UsersTyped
  <2>3. IdentitiesTyped' /\ CredentialsTyped' /\ LogTyped'
    BY <1>8, <2>1 DEF CloseEffect, identityVars, credentialVars, IdentitiesTyped, CredentialsTyped,
                      LogTyped
  <2> QED
    BY <2>1, <2>2, <2>3
<1>9. CASE UNCHANGED vars
  BY <1>9 DEF vars, identityVars, credentialVars, UsersTyped, SessionsTyped, IdentitiesTyped,
              CredentialsTyped, LogTyped
<1> QED
  BY <1>1, <1>2, <1>3, <1>4, <1>5, <1>6, <1>7, <1>8, <1>9 DEF Steps

-----------------------------------------------------------------------------
(* The store's growth, seen through its lookups. *)

LEMMA IdentityAdded ==
  ASSUME NEW u, NEW k, CreatesIdentity(u, k)
  PROVE  \E i \in IdentityId :
           /\ i \notin DOMAIN identities /\ k \notin DOMAIN identityKeys
           /\ DOMAIN identities' = DOMAIN identities \cup {i}
           /\ identities'[i].user = u /\ identities'[i].key = k
           /\ identities'[i].status = "active"
           /\ \A j \in DOMAIN identities : identities'[j] = identities[j]
           /\ DOMAIN identityKeys' = DOMAIN identityKeys \cup {k} /\ identityKeys'[k] = i
           /\ \A x \in DOMAIN identityKeys : identityKeys'[x] = identityKeys[x]
<1>1. PICK i \in IdentityId, v \in SUBSET (Email \cup Phone) :
        /\ i \notin DOMAIN identities /\ k \notin DOMAIN identityKeys
        /\ identities' = Put(identities, i, [user |-> u, key |-> k, status |-> "active",
                                             verified |-> v])
        /\ identityKeys' = Put(identityKeys, k, i)
  BY DEF CreatesIdentity
<1> QED
  BY <1>1 DEF Put

\* Creating an identity takes none away.
LEMMA ActiveIdentitiesGrow ==
  ASSUME NEW u, NEW k, CreatesIdentity(u, k), NEW w
  PROVE  /\ ActiveIdentitiesOf(w) \subseteq ActiveIdentitiesOf(w)'
         /\ w # u => ActiveIdentitiesOf(w)' = ActiveIdentitiesOf(w)
         /\ w = u => ActiveIdentitiesOf(w)' # {}
<1>1. PICK i \in IdentityId :
        /\ i \notin DOMAIN identities /\ k \notin DOMAIN identityKeys
        /\ DOMAIN identities' = DOMAIN identities \cup {i}
        /\ identities'[i].user = u /\ identities'[i].key = k
        /\ identities'[i].status = "active"
        /\ \A j \in DOMAIN identities : identities'[j] = identities[j]
        /\ DOMAIN identityKeys' = DOMAIN identityKeys \cup {k} /\ identityKeys'[k] = i
        /\ \A x \in DOMAIN identityKeys : identityKeys'[x] = identityKeys[x]
  BY IdentityAdded
<1>2. ActiveIdentitiesOf(w) \subseteq ActiveIdentitiesOf(w)'
  BY <1>1 DEF ActiveIdentitiesOf
<1>3. ActiveIdentitiesOf(w)' \subseteq ActiveIdentitiesOf(w) \cup {i}
  BY <1>1 DEF ActiveIdentitiesOf
<1>4. i \in ActiveIdentitiesOf(w)' <=> w = u
  BY <1>1 DEF ActiveIdentitiesOf
<1> QED
  BY <1>2, <1>3, <1>4

\* Opening a session for an active user gives no other user one.
LEMMA ActiveSessionsChange ==
  ASSUME SessionsTyped, OpensSession \/ SessionsOnlyEnd \/ UNCHANGED sessions,
         NEW u, ~ActiveUser(u)
  PROVE  ActiveSessionsOf(u)' \subseteq ActiveSessionsOf(u)
<1>1. CASE OpensSession
  BY <1>1 DEF OpensSession, ActiveSessionsOf, Put
<1>2. CASE SessionsOnlyEnd
  BY <1>2 DEF SessionsOnlyEnd, ActiveSessionsOf
<1>3. CASE UNCHANGED sessions
  BY <1>3 DEF ActiveSessionsOf
<1> QED
  BY <1>1, <1>2, <1>3

\* Both ways an account ends leave it without an active session.
LEMMA AllSessionsRevoked ==
  ASSUME SessionsOnlyEnd, NEW u, \A s \in ActiveSessionsOf(u) : sessions'[s].status = "revoked"
  PROVE  ActiveSessionsOf(u)' = {}
BY DEF SessionsOnlyEnd, ActiveSessionsOf

-----------------------------------------------------------------------------
(* Accounts keep an identity, ended accounts have no session. *)

LEMMA NeverLockedOutStep ==
  ASSUME Core, NeverLockedOut, Steps
  PROVE  NeverLockedOut'
<1>1. CASE SessionEffect \/ CloseEffect \/ UNCHANGED vars
  <2>1. DOMAIN users' = DOMAIN users /\ UNCHANGED <<identities, mergeLog>>
    BY <1>1 DEF SessionEffect, CloseEffect, vars, identityVars
  <2> QED
    BY <2>1 DEF NeverLockedOut, ActiveIdentitiesOf
<1>2. CASE LinkEffect
  BY <1>2, ActiveIdentitiesGrow DEF LinkEffect, NeverLockedOut
<1>3. CASE NewAccountEffect
  <2>1. PICK u \in UserId \ DOMAIN users, k \in Key :
          users' = Put(users, u, "active") /\ CreatesIdentity(u, k)
    BY <1>3 DEF NewAccountEffect
  <2>2. DOMAIN users' = DOMAIN users \cup {u} /\ UNCHANGED mergeLog
    BY <1>3, <2>1 DEF Put, NewAccountEffect
  <2> QED
    BY <2>1, <2>2, ActiveIdentitiesGrow DEF NeverLockedOut
<1>4. ASSUME NEW u \in UserId, NEW e \in Email, PasswordEffect(u, e)
      PROVE  NeverLockedOut'
  <2>1. UNCHANGED <<users, mergeLog>>
    BY <1>4 DEF PasswordEffect
  <2>2. CASE UNCHANGED identities
    BY <2>1, <2>2 DEF NeverLockedOut, ActiveIdentitiesOf
  <2>3. CASE CreatesIdentity(u, e)
    BY <2>1, <2>3, ActiveIdentitiesGrow DEF NeverLockedOut
  <2> QED
    BY <1>4, <2>2, <2>3 DEF PasswordEffect, identityVars
<1>5. ASSUME NEW u \in UserId, NEW i \in IdentityId, Unlink(u, i)
      PROVE  NeverLockedOut'
  <2>1. UNCHANGED <<users, mergeLog>> /\ ActiveIdentitiesOf(u) \ {i} # {}
    BY <1>5 DEF Unlink
  <2>2. \A w \in DOMAIN users : ActiveIdentitiesOf(w) \ {i} \subseteq ActiveIdentitiesOf(w)'
    BY <1>5, UnlinkEffect DEF ActiveIdentitiesOf
  <2>3. \A w \in DOMAIN users \ {u} : i \notin ActiveIdentitiesOf(w)
    BY <1>5 DEF Unlink, ActiveIdentitiesOf
  <2> QED
    BY <2>1, <2>2, <2>3 DEF NeverLockedOut
<1>6. ASSUME NEW s \in SessionId, NEW u \in UserId, NEW w \in UserId, MergeAccounts(s, u, w)
      PROVE  NeverLockedOut'
  <2>1. DOMAIN users' = DOMAIN users /\ MoveIdentities(u, w)
    BY <1>6, MergeEffect
  <2>2. mergeLog' = mergeLog \cup {[source |-> u, target |-> w, decision |-> "merged"]}
    BY <1>6, MergeEffect
  <2>3. \E e \in mergeLog' : e.source = u /\ e.decision = "merged"
    <3> DEFINE event == [source |-> u, target |-> w, decision |-> "merged"]
    <3>1. event.source = u /\ event.decision = "merged" /\ event \in mergeLog'
      BY <2>2
    <3> QED
      BY <3>1
  <2>4. \A x \in DOMAIN users \ {u} : ActiveIdentitiesOf(x) \subseteq ActiveIdentitiesOf(x)'
    BY <2>1, MergeIdentities DEF ActiveIdentitiesOf
  <2> QED
    BY <2>1, <2>2, <2>3, <2>4 DEF NeverLockedOut
<1>7. ASSUME NEW u \in UserId, NEW w \in UserId, AlreadyMerged(u, w)
      PROVE  NeverLockedOut'
  BY <1>7 DEF AlreadyMerged, identityVars, NeverLockedOut, ActiveIdentitiesOf
<1> QED
  BY <1>1, <1>2, <1>3, <1>4, <1>5, <1>6, <1>7 DEF Steps

\* No step gives a user that is or becomes disabled an active session.
LEMMA NoSessionStep ==
  ASSUME Core, EndedAccountHasNoSession, Steps
  PROVE  EndedAccountHasNoSession'
<1> USE DEF Core
<1>1. CASE SessionEffect \/ LinkEffect \/ UNCHANGED vars
  <2>1. UNCHANGED users
    BY <1>1 DEF SessionEffect, LinkEffect, vars
  <2>2. OpensSession \/ SessionsOnlyEnd \/ UNCHANGED sessions
    BY <1>1 DEF SessionEffect, LinkEffect, vars
  <2> QED
    BY <2>1, <2>2, ActiveSessionsChange DEF EndedAccountHasNoSession, ActiveUser
<1>2. CASE NewAccountEffect
  <2>1. PICK u \in UserId \ DOMAIN users, s \in SessionId \ DOMAIN sessions :
          /\ users' = Put(users, u, "active")
          /\ sessions' = Put(sessions, s, [user |-> u, status |-> "active", lapsed |-> FALSE])
    BY <1>2 DEF NewAccountEffect
  <2>2. /\ DOMAIN users' = DOMAIN users \cup {u} /\ users'[u] = "active"
        /\ \A w \in DOMAIN users : users'[w] = users[w]
    BY <2>1 DEF Put
  <2>3. \A w \in DOMAIN users : ActiveSessionsOf(w)' = ActiveSessionsOf(w)
    BY <2>1 DEF Put, ActiveSessionsOf
  <2> QED
    BY <2>2, <2>3 DEF EndedAccountHasNoSession
<1>3. ASSUME NEW u \in UserId, NEW e \in Email, PasswordEffect(u, e)
      PROVE  EndedAccountHasNoSession'
  BY <1>3 DEF PasswordEffect, EndedAccountHasNoSession, ActiveSessionsOf
<1>4. ASSUME NEW u \in UserId, NEW i \in IdentityId, Unlink(u, i)
      PROVE  EndedAccountHasNoSession'
  BY <1>4 DEF Unlink, EndedAccountHasNoSession, ActiveSessionsOf
<1>5. ASSUME NEW u \in DOMAIN users,
             /\ users' = [users EXCEPT ![u] = "disabled"]
             /\ SessionsOnlyEnd
             /\ \A t \in ActiveSessionsOf(u) : sessions'[t].status = "revoked"
      PROVE  EndedAccountHasNoSession'
  <2>1. ActiveSessionsOf(u)' = {}
    BY <1>5, AllSessionsRevoked
  <2>2. \A w \in DOMAIN users : users[w] = "disabled" => ActiveSessionsOf(w)' = {}
    BY <1>5, ActiveSessionsChange DEF EndedAccountHasNoSession, ActiveUser
  <2> QED
    BY <1>5, <2>1, <2>2 DEF EndedAccountHasNoSession
<1>6. ASSUME NEW s \in SessionId, NEW u \in UserId, NEW w \in UserId, MergeAccounts(s, u, w)
      PROVE  EndedAccountHasNoSession'
  BY <1>5, <1>6, MergeEffect DEF ActiveUser
<1>7. ASSUME NEW u \in UserId, NEW w \in UserId, AlreadyMerged(u, w)
      PROVE  EndedAccountHasNoSession'
  BY <1>7 DEF AlreadyMerged, EndedAccountHasNoSession, ActiveSessionsOf
<1>8. CASE CloseEffect
  BY <1>5, <1>8 DEF CloseEffect
<1> QED
  BY <1>1, <1>2, <1>3, <1>4, <1>6, <1>7, <1>8 DEF Steps

-----------------------------------------------------------------------------
(* The password credential and the identity of its e-mail stay together. *)

LEMMA CredentialAdded ==
  ASSUME NEW u, NEW e, CreatesCredential(u, e)
  PROVE  \E c \in CredentialId :
           /\ c \notin DOMAIN credentials
           /\ DOMAIN credentials' = DOMAIN credentials \cup {c}
           /\ credentials'[c].user = u /\ credentials'[c].subject = e
           /\ \A d \in DOMAIN credentials : credentials'[d] = credentials[d]
<1>1. PICK c \in CredentialId :
        /\ c \notin DOMAIN credentials
        /\ credentials' = Put(credentials, c, [user |-> u, subject |-> e])
  BY DEF CreatesCredential
<1> QED
  BY <1>1 DEF Put

\* Creating an identity under a free key disturbs no credential.
LEMMA PasswordKeptByNewIdentity ==
  ASSUME Core, PasswordFollowsIdentity, UNCHANGED credentials,
         NEW u, NEW k, CreatesIdentity(u, k)
  PROVE  PasswordFollowsIdentity'
<1>1. PICK i \in IdentityId :
        /\ i \notin DOMAIN identities /\ k \notin DOMAIN identityKeys
        /\ DOMAIN identities' = DOMAIN identities \cup {i}
        /\ identities'[i].user = u /\ identities'[i].key = k
        /\ identities'[i].status = "active"
        /\ \A j \in DOMAIN identities : identities'[j] = identities[j]
        /\ DOMAIN identityKeys' = DOMAIN identityKeys \cup {k} /\ identityKeys'[k] = i
        /\ \A x \in DOMAIN identityKeys : identityKeys'[x] = identityKeys[x]
  BY IdentityAdded
<1> QED
  BY <1>1 DEF Core, IdentitiesTyped, PasswordFollowsIdentity, LinkedAndActive

LEMMA PasswordFollowsStep ==
  ASSUME Core, PasswordFollowsIdentity, Steps
  PROVE  PasswordFollowsIdentity'
<1>1. CASE SessionEffect \/ CloseEffect \/ UNCHANGED vars
  BY <1>1 DEF SessionEffect, CloseEffect, vars, identityVars, credentialVars,
              PasswordFollowsIdentity, LinkedAndActive
<1>2. CASE LinkEffect \/ NewAccountEffect
  <2>1. UNCHANGED credentials /\ \E u \in UserId, k \in Key : CreatesIdentity(u, k)
    BY <1>2 DEF LinkEffect, NewAccountEffect, credentialVars, Core, UsersTyped
  <2> QED
    BY <2>1, PasswordKeptByNewIdentity
<1>3. ASSUME NEW u \in UserId, NEW e \in Email, PasswordEffect(u, e)
      PROVE  PasswordFollowsIdentity'
  <2>1. /\ e \in DOMAIN identityKeys'
        /\ identities'[identityKeys'[e]].user = u
        /\ \A x \in DOMAIN identityKeys :
             x \in DOMAIN identityKeys' /\ identityKeys'[x] = identityKeys[x]
        /\ \A j \in DOMAIN identities : j \in DOMAIN identities' /\ identities'[j] = identities[j]
    <3>1. CASE CreatesIdentity(u, e)
      <4>1. PICK i \in IdentityId :
              /\ i \notin DOMAIN identities /\ e \notin DOMAIN identityKeys
              /\ DOMAIN identities' = DOMAIN identities \cup {i}
              /\ identities'[i].user = u /\ identities'[i].key = e
              /\ identities'[i].status = "active"
              /\ \A j \in DOMAIN identities : identities'[j] = identities[j]
              /\ DOMAIN identityKeys' = DOMAIN identityKeys \cup {e} /\ identityKeys'[e] = i
              /\ \A x \in DOMAIN identityKeys : identityKeys'[x] = identityKeys[x]
        BY <3>1, IdentityAdded
      <4> QED
        BY <4>1
    <3>2. CASE /\ e \in DOMAIN identityKeys /\ identityKeys[e] \in ActiveIdentitiesOf(u)
               /\ UNCHANGED identityVars
      BY <3>2 DEF ActiveIdentitiesOf, identityVars
    <3> QED
      BY <1>3, <3>1, <3>2 DEF PasswordEffect
  <2>2. \A c \in DOMAIN credentials :
          /\ credentials[c].subject \in DOMAIN identityKeys'
          /\ \A x \in DOMAIN identityKeys : x = credentials[c].subject =>
               (LinkedAndActive(x)' => identities'[identityKeys'[x]].user = credentials[c].user)
    <3>1. \A x \in DOMAIN identityKeys :
            /\ x \in DOMAIN identityKeys'
            /\ identities'[identityKeys'[x]] = identities[identityKeys[x]]
      BY <2>1 DEF Core, IdentitiesTyped
    <3>2. \A x \in DOMAIN identityKeys : LinkedAndActive(x)' <=> LinkedAndActive(x)
      BY <3>1 DEF LinkedAndActive
    <3> QED
      BY <3>1, <3>2 DEF PasswordFollowsIdentity
  <2>3. CASE UNCHANGED credentialVars
    BY <2>2, <2>3 DEF credentialVars, PasswordFollowsIdentity
  <2>4. CASE CreatesCredential(u, e)
    <3>1. PICK c \in CredentialId :
            /\ c \notin DOMAIN credentials
            /\ DOMAIN credentials' = DOMAIN credentials \cup {c}
            /\ credentials'[c].user = u /\ credentials'[c].subject = e
            /\ \A d \in DOMAIN credentials : credentials'[d] = credentials[d]
      BY <2>4, CredentialAdded
    <3> QED
      BY <2>1, <2>2, <3>1 DEF PasswordFollowsIdentity
  <2> QED
    BY <1>3, <2>3, <2>4 DEF PasswordEffect
<1>4. ASSUME NEW u \in UserId, NEW i \in IdentityId, Unlink(u, i)
      PROVE  PasswordFollowsIdentity'
  <2>1. UNCHANGED <<credentials, identityKeys>>
    BY <1>4 DEF Unlink, credentialVars
  <2>2. \A x \in DOMAIN identityKeys :
          /\ identities'[identityKeys[x]].user = identities[identityKeys[x]].user
          /\ LinkedAndActive(x)' => LinkedAndActive(x)
    <3>1. \A x \in DOMAIN identityKeys : identityKeys[x] \in DOMAIN identities
      BY DEF Core, IdentitiesTyped
    <3>2. \A j \in DOMAIN identities :
            /\ identities'[j].user = identities[j].user
            /\ identities'[j].status = IF j = i THEN "disabled" ELSE identities[j].status
      BY <1>4, UnlinkEffect
    <3> QED
      BY <2>1, <3>1, <3>2 DEF LinkedAndActive
  <2> QED
    BY <2>1, <2>2 DEF PasswordFollowsIdentity
<1>5. ASSUME NEW s \in SessionId, NEW u \in UserId, NEW w \in UserId, MergeAccounts(s, u, w)
      PROVE  PasswordFollowsIdentity'
  <2>1. u # w /\ MoveIdentities(u, w) /\ MoveCredentials(u, w)
    BY <1>5, MergeEffect
  <2>2. /\ UNCHANGED identityKeys
        /\ \A x \in DOMAIN identityKeys :
             LET i == identityKeys[x]
             IN  /\ i \in DOMAIN identities /\ DOMAIN identities' = DOMAIN identities
                 /\ LinkedAndActive(x)' <=> LinkedAndActive(x)
                 /\ LinkedAndActive(x) =>
                      identities'[i].user = IF identities[i].user = u THEN w
                                            ELSE identities[i].user
    BY <2>1, MergeIdentities DEF LinkedAndActive, ActiveIdentitiesOf, Core, IdentitiesTyped
  <2>3. /\ DOMAIN credentials' = DOMAIN credentials
        /\ \A c \in DOMAIN credentials :
             /\ credentials'[c].subject = credentials[c].subject
             /\ credentials'[c].user = IF credentials[c].user = u THEN w ELSE credentials[c].user
    BY <2>1, MergeCredentials DEF CredentialsOf
  <2> QED
    BY <2>2, <2>3 DEF PasswordFollowsIdentity
<1>6. ASSUME NEW u \in UserId, NEW w \in UserId, AlreadyMerged(u, w)
      PROVE  PasswordFollowsIdentity'
  BY <1>6 DEF AlreadyMerged, identityVars, credentialVars, PasswordFollowsIdentity,
              LinkedAndActive
<1> QED
  BY <1>1, <1>2, <1>3, <1>4, <1>5, <1>6 DEF Steps

-----------------------------------------------------------------------------
(* Merged accounts. *)

\* Every step leaves an ended account ended and an empty one empty.
LEMMA EmptyStaysEmpty ==
  ASSUME Core, Steps, NEW x \in DOMAIN users, ~ActiveUser(x), LooksMerged(x)
  PROVE  x \in DOMAIN users' /\ ~ActiveUser(x)' /\ LooksMerged(x)'
<1> USE DEF Core
<1>1. CASE SessionEffect \/ LinkEffect \/ UNCHANGED vars
  <2>1. UNCHANGED <<users, credentials>> /\ (OpensSession \/ SessionsOnlyEnd \/ UNCHANGED sessions)
    BY <1>1 DEF SessionEffect, LinkEffect, vars, credentialVars
  <2>2. ActiveSessionsOf(x)' = {}
    BY <2>1, ActiveSessionsChange DEF LooksMerged
  <2>3. ActiveIdentitiesOf(x)' = {}
    <3>1. CASE UNCHANGED identities
      BY <3>1 DEF LooksMerged, ActiveIdentitiesOf
    <3>2. ASSUME NEW u \in DOMAIN users, NEW k \in Key, ActiveUser(u), CreatesIdentity(u, k)
          PROVE  ActiveIdentitiesOf(x)' = {}
      BY <3>2, ActiveIdentitiesGrow DEF LooksMerged
    <3> QED
      BY <1>1, <3>1, <3>2 DEF SessionEffect, LinkEffect, vars, identityVars
  <2> QED
    BY <2>1, <2>2, <2>3 DEF ActiveUser, LooksMerged, CredentialsOf
<1>2. CASE NewAccountEffect
  <2>1. PICK u \in UserId \ DOMAIN users, k \in Key, s \in SessionId \ DOMAIN sessions :
          /\ users' = Put(users, u, "active")
          /\ CreatesIdentity(u, k)
          /\ sessions' = Put(sessions, s, [user |-> u, status |-> "active", lapsed |-> FALSE])
    BY <1>2 DEF NewAccountEffect
  <2>2. x \in DOMAIN users' /\ users'[x] = users[x] /\ UNCHANGED credentials
    BY <1>2, <2>1 DEF Put, NewAccountEffect, credentialVars
  <2>3. ActiveSessionsOf(x)' = ActiveSessionsOf(x)
    BY <2>1 DEF Put, ActiveSessionsOf
  <2>4. ActiveIdentitiesOf(x)' = ActiveIdentitiesOf(x)
    BY <2>1, ActiveIdentitiesGrow
  <2> QED
    BY <2>2, <2>3, <2>4 DEF ActiveUser, LooksMerged, CredentialsOf
<1>3. ASSUME NEW u \in UserId, NEW e \in Email, PasswordEffect(u, e)
      PROVE  x \in DOMAIN users' /\ ~ActiveUser(x)' /\ LooksMerged(x)'
  <2>1. UNCHANGED <<users, sessions>> /\ x # u
    BY <1>3 DEF PasswordEffect
  <2>2. ActiveIdentitiesOf(x)' = ActiveIdentitiesOf(x)
    <3>1. CASE UNCHANGED identities
      BY <3>1 DEF ActiveIdentitiesOf
    <3>2. CASE CreatesIdentity(u, e)
      BY <2>1, <3>2, ActiveIdentitiesGrow
    <3> QED
      BY <1>3, <3>1, <3>2 DEF PasswordEffect, identityVars
  <2>3. CredentialsOf(x)' = {}
    <3>1. CASE UNCHANGED credentials
      BY <3>1 DEF CredentialsOf, LooksMerged
    <3>2. CASE CreatesCredential(u, e)
      <4>1. PICK c \in CredentialId :
              /\ c \notin DOMAIN credentials
              /\ DOMAIN credentials' = DOMAIN credentials \cup {c}
              /\ credentials'[c].user = u /\ credentials'[c].subject = e
              /\ \A d \in DOMAIN credentials : credentials'[d] = credentials[d]
        BY <3>2, CredentialAdded
      <4> QED
        BY <2>1, <4>1 DEF CredentialsOf, LooksMerged
    <3> QED
      BY <1>3, <3>1, <3>2 DEF PasswordEffect, credentialVars
  <2> QED
    BY <2>1, <2>2, <2>3 DEF ActiveUser, LooksMerged, ActiveSessionsOf
<1>4. ASSUME NEW u \in UserId, NEW i \in IdentityId, Unlink(u, i)
      PROVE  x \in DOMAIN users' /\ ~ActiveUser(x)' /\ LooksMerged(x)'
  <2>1. UNCHANGED <<users, credentials, sessions>>
    BY <1>4 DEF Unlink, credentialVars
  <2>2. ActiveIdentitiesOf(x)' \subseteq ActiveIdentitiesOf(x)
    BY <1>4, UnlinkEffect DEF ActiveIdentitiesOf
  <2> QED
    BY <2>1, <2>2 DEF ActiveUser, LooksMerged, CredentialsOf, ActiveSessionsOf
<1>5. ASSUME NEW s \in SessionId, NEW u \in UserId, NEW w \in UserId, MergeAccounts(s, u, w)
      PROVE  x \in DOMAIN users' /\ ~ActiveUser(x)' /\ LooksMerged(x)'
  <2>1. /\ x # u /\ x # w /\ users' = [users EXCEPT ![u] = "disabled"] /\ SessionsOnlyEnd
        /\ MoveIdentities(u, w) /\ MoveCredentials(u, w)
    BY <1>5, MergeEffect
  <2>2. ActiveIdentitiesOf(x)' = {}
    BY <2>1, MergeIdentities DEF ActiveIdentitiesOf, LooksMerged
  <2>3. CredentialsOf(x)' = {}
    BY <2>1, MergeCredentials DEF CredentialsOf, LooksMerged
  <2>4. ActiveSessionsOf(x)' = {}
    BY <2>1, ActiveSessionsChange DEF LooksMerged
  <2> QED
    BY <2>1, <2>2, <2>3, <2>4 DEF ActiveUser, LooksMerged
<1>6. ASSUME NEW u \in UserId, NEW w \in UserId, AlreadyMerged(u, w)
      PROVE  x \in DOMAIN users' /\ ~ActiveUser(x)' /\ LooksMerged(x)'
  BY <1>6 DEF AlreadyMerged, identityVars, credentialVars, ActiveUser, LooksMerged,
              ActiveIdentitiesOf, CredentialsOf, ActiveSessionsOf
<1>7. CASE CloseEffect
  <2>1. x \in DOMAIN users' /\ ~ActiveUser(x)' /\ SessionsOnlyEnd /\ UNCHANGED <<identities, credentials>>
    BY <1>7 DEF CloseEffect, ActiveUser, identityVars, credentialVars
  <2>2. ActiveSessionsOf(x)' = {}
    BY <2>1, ActiveSessionsChange DEF LooksMerged
  <2> QED
    BY <2>1, <2>2 DEF LooksMerged, ActiveIdentitiesOf, CredentialsOf
<1> QED
  BY <1>1, <1>2, <1>3, <1>4, <1>5, <1>6, <1>7 DEF Steps

\* A merge empties its source.
LEMMA MergeEmpties ==
  ASSUME Core, NEW s \in SessionId, NEW u \in UserId, NEW w \in UserId, MergeAccounts(s, u, w)
  PROVE  ~ActiveUser(u)' /\ LooksMerged(u)'
<1>1. u # w /\ MoveIdentities(u, w) /\ MoveCredentials(u, w) /\ ~ActiveUser(u)'
  BY MergeEffect DEF ActiveUser
<1>2. ActiveIdentitiesOf(u)' = {}
  BY <1>1, MergeIdentities DEF ActiveIdentitiesOf
<1>3. CredentialsOf(u)' = {}
  BY <1>1, MergeCredentials DEF CredentialsOf
<1>4. ActiveSessionsOf(u)' = {}
  BY MergeEffect, AllSessionsRevoked
<1> QED
  BY <1>1, <1>2, <1>3, <1>4 DEF LooksMerged

\* The events that a step adds to the log.
LEMMA NewEvents ==
  ASSUME Steps, NEW e \in mergeLog', e \notin mergeLog
  PROVE  \/ \E s \in SessionId, u, w \in UserId :
              MergeAccounts(s, u, w) /\ e = [source |-> u, target |-> w, decision |-> "merged"]
         \/ \E u, w \in UserId :
              /\ AlreadyMerged(u, w)
              /\ e = [source |-> u, target |-> w, decision |-> "already-merged"]
BY DEF Steps, SessionEffect, LinkEffect, NewAccountEffect, PasswordEffect, Unlink, MergeAccounts,
       AlreadyMerged, CloseEffect, vars

LEMMA MergedEmptyStep ==
  ASSUME Core, MergedAccountIsEmpty, Steps
  PROVE  MergedAccountIsEmpty'
<1>1. ASSUME NEW e \in mergeLog, e.decision = "merged"
      PROVE  ~ActiveUser(e.source)' /\ LooksMerged(e.source)'
  BY <1>1, EmptyStaysEmpty DEF MergedAccountIsEmpty, Core, LogTyped
<1>2. ASSUME NEW e \in mergeLog', e \notin mergeLog, e.decision = "merged"
      PROVE  ~ActiveUser(e.source)' /\ LooksMerged(e.source)'
  BY <1>2, NewEvents, MergeEmpties
<1> QED
  BY <1>1, <1>2 DEF MergedAccountIsEmpty

LEMMA RetryStep ==
  ASSUME Core, NeverLockedOut, RetryOnlyAfterMerge, Steps
  PROVE  RetryOnlyAfterMerge'
<1>1. mergeLog \subseteq mergeLog'
  BY DEF Steps, SessionEffect, LinkEffect, NewAccountEffect, PasswordEffect, Unlink, MergeAccounts,
         AlreadyMerged, CloseEffect, vars
<1>2. ASSUME NEW e \in mergeLog', e \notin mergeLog, e.decision = "already-merged"
      PROVE  \E m \in mergeLog : m.decision = "merged" /\ m.source = e.source
  <2>1. PICK u \in UserId, w \in UserId :
          /\ AlreadyMerged(u, w)
          /\ e = [source |-> u, target |-> w, decision |-> "already-merged"]
    BY <1>2, NewEvents
  <2>2. u \in DOMAIN users /\ ActiveIdentitiesOf(u) = {} /\ e.source = u
    BY <2>1 DEF AlreadyMerged, LooksMerged
  <2> QED
    BY <2>2 DEF NeverLockedOut
<1> QED
  BY <1>1, <1>2 DEF RetryOnlyAfterMerge

-----------------------------------------------------------------------------
IInv ==
  Core /\ NeverLockedOut /\ EndedAccountHasNoSession /\ PasswordFollowsIdentity
  /\ MergedAccountIsEmpty /\ RetryOnlyAfterMerge

LEMMA Invariance == Spec => []IInv
<1>1. Init => IInv
  BY CoreInit DEF Init, IInv, NeverLockedOut, EndedAccountHasNoSession, PasswordFollowsIdentity,
                  MergedAccountIsEmpty, RetryOnlyAfterMerge
<1>2. IInv /\ [Next]_vars => IInv'
  <2> SUFFICES ASSUME IInv, [Next]_vars
               PROVE  IInv'
    OBVIOUS
  <2>1. Steps
    BY NextSteps, CoreParts DEF IInv
  <2> QED
    BY <2>1, CoreStep, NeverLockedOutStep, NoSessionStep, PasswordFollowsStep, MergedEmptyStep,
       RetryStep DEF IInv
<1> QED
  BY <1>1, <1>2, PTL DEF Spec

-----------------------------------------------------------------------------
(* What a step may never do. *)

\* The sessions' part of Ended.
LEMMA SessionsNeverRevive ==
  ASSUME SessionsTyped, OpensSession \/ SessionsOnlyEnd \/ UNCHANGED sessions,
         NEW s \in DOMAIN sessions
  PROVE  s \in DOMAIN sessions' /\ (sessions[s].status = "revoked" => sessions'[s].status = "revoked")
<1>1. CASE OpensSession
  BY <1>1 DEF OpensSession, Put
<1>2. CASE SessionsOnlyEnd
  BY <1>2 DEF SessionsOnlyEnd, Session
<1>3. CASE UNCHANGED sessions
  BY <1>3
<1> QED
  BY <1>1, <1>2, <1>3

\* A disabled identity is left alone by every step.
LEMMA IdentitiesNeverRevive ==
  ASSUME Core, Steps, NEW i \in DOMAIN identities
  PROVE  i \in DOMAIN identities'
         /\ (identities[i].status = "disabled" => identities'[i] = identities[i])
<1>1. CASE UNCHANGED identities
  BY <1>1
<1>2. ASSUME NEW u, NEW k, CreatesIdentity(u, k)
      PROVE  i \in DOMAIN identities' /\ identities'[i] = identities[i]
  BY <1>2 DEF CreatesIdentity, Put
<1>3. ASSUME NEW u \in UserId, NEW j \in IdentityId, Unlink(u, j)
      PROVE  i \in DOMAIN identities'
             /\ (identities[i].status = "disabled" => identities'[i] = identities[i])
  BY <1>3 DEF Unlink, ActiveIdentitiesOf
<1>4. ASSUME NEW s \in SessionId, NEW u \in UserId, NEW w \in UserId, MergeAccounts(s, u, w)
      PROVE  i \in DOMAIN identities'
             /\ (identities[i].status = "disabled" => identities'[i] = identities[i])
  BY <1>4 DEF MergeAccounts, MoveIdentities, ActiveIdentitiesOf
<1>5. ASSUME ~UNCHANGED identities
      PROVE  \/ \E u, k : CreatesIdentity(u, k)
             \/ \E u \in UserId, j \in IdentityId : Unlink(u, j)
             \/ \E s \in SessionId, u \in UserId, w \in UserId : MergeAccounts(s, u, w)
  BY <1>5 DEF Steps, SessionEffect, LinkEffect, NewAccountEffect, PasswordEffect, AlreadyMerged,
              CloseEffect, vars, identityVars
<1> QED
  BY <1>1, <1>2, <1>3, <1>4, <1>5

\* A disabled user is left disabled by every step.
LEMMA UsersNeverRevive ==
  ASSUME Steps, NEW u \in DOMAIN users
  PROVE  u \in DOMAIN users' /\ (users[u] = "disabled" => ~ActiveUser(u)')
<1>1. CASE UNCHANGED users
  BY <1>1 DEF ActiveUser
<1>2. CASE NewAccountEffect
  BY <1>2 DEF NewAccountEffect, Put, ActiveUser
<1>3. ASSUME NEW w, users' = [users EXCEPT ![w] = "disabled"]
      PROVE  u \in DOMAIN users' /\ (users[u] = "disabled" => ~ActiveUser(u)')
  BY <1>3 DEF ActiveUser
<1> QED
  BY <1>1, <1>2, <1>3 DEF Steps, SessionEffect, LinkEffect, PasswordEffect, Unlink, MergeAccounts,
     AlreadyMerged, CloseEffect, vars

LEMMA EndedStep ==
  ASSUME Core, Steps
  PROVE  Ended
<1>1. ASSUME NEW s \in DOMAIN sessions
      PROVE  s \in DOMAIN sessions'
             /\ (sessions[s].status = "revoked" => sessions'[s].status = "revoked")
  <2>1. CASE NewAccountEffect
    BY <2>1 DEF NewAccountEffect, Put
  <2>2. CASE \E t \in SessionId, u, w \in UserId : MergeAccounts(t, u, w)
    BY <2>2, MergeEffect, SessionsNeverRevive DEF Core
  <2>3. CASE SessionEffect \/ LinkEffect \/ CloseEffect
    <3>1. OpensSession \/ SessionsOnlyEnd \/ UNCHANGED sessions
      BY <2>3 DEF SessionEffect, LinkEffect, CloseEffect
    <3> QED
      BY <3>1, SessionsNeverRevive DEF Core
  <2>4. CASE UNCHANGED sessions
    BY <2>4
  <2> QED
    BY <2>1, <2>2, <2>3, <2>4 DEF Steps, PasswordEffect, Unlink, AlreadyMerged, vars
<1> QED
  BY <1>1, IdentitiesNeverRevive, UsersNeverRevive DEF Ended

\* Of an account that ends, everything stays or everything goes to one place.
LEMMA EndsWholeStep ==
  ASSUME Core, [Next]_vars
  PROVE  EndsWhole
<1> SUFFICES ASSUME NEW u \in DOMAIN users, ActiveUser(u), ~ActiveUser(u)'
             PROVE  /\ ActiveSessionsOf(u) # {}
                    /\ \E w \in DOMAIN users :
                         /\ w = u \/ ActiveUser(w)'
                         /\ \A i \in ActiveIdentitiesOf(u) : i \in ActiveIdentitiesOf(w)'
                         /\ \A c \in CredentialsOf(u) : c \in CredentialsOf(w)'
  BY DEF EndsWhole
<1>1. \/ \E s \in SessionId : CloseCurrentAccount(s)
      \/ \E s \in SessionId, w \in UserId : MergeAccounts(s, u, w)
  <2>1. users' # users
    BY DEF ActiveUser
  <2>2. ASSUME NEW k, NEW v, SignInNewUser(k, v)
        PROVE  FALSE
    BY <2>2 DEF SignInNewUser, Put, ActiveUser
  <2>3. ASSUME NEW s \in SessionId, NEW x \in UserId, NEW w \in UserId, MergeAccounts(s, x, w)
        PROVE  x = u
    BY <2>3 DEF MergeAccounts, ActiveUser
  <2> QED
    BY <2>1, <2>2, <2>3
       DEF Next, vars, SignInExact, SignInAutoLink, Link, Unlink, AlreadyMerged, SetPassword,
           SignInWithPassword, CreateSession, RevokeSession, RevokeAllSessions,
           RevokeOtherSessionsByToken, RevokeOwnedSessionByToken, Lapse
<1>2. ASSUME NEW s \in SessionId, CloseCurrentAccount(s)
      PROVE  /\ s \in ActiveSessionsOf(u)
             /\ ActiveIdentitiesOf(u)' = ActiveIdentitiesOf(u)
             /\ CredentialsOf(u)' = CredentialsOf(u)
  BY <1>2 DEF CloseCurrentAccount, Resolves, ActiveUser, identityVars, credentialVars,
              ActiveIdentitiesOf, CredentialsOf, ActiveSessionsOf
<1>3. ASSUME NEW s \in SessionId, NEW w \in UserId, MergeAccounts(s, u, w)
      PROVE  /\ s \in ActiveSessionsOf(u)
             /\ w \in DOMAIN users /\ ActiveUser(w)'
             /\ \A i \in ActiveIdentitiesOf(u) : i \in ActiveIdentitiesOf(w)'
             /\ \A c \in CredentialsOf(u) : c \in CredentialsOf(w)'
  <2>1. /\ u # w /\ ActiveUser(w) /\ users' = [users EXCEPT ![u] = "disabled"]
        /\ s \in ActiveSessionsOf(u)
        /\ MoveIdentities(u, w) /\ MoveCredentials(u, w)
    BY <1>3, MergeEffect DEF Core, UsersTyped
  <2>2. \A i \in ActiveIdentitiesOf(u) : i \in ActiveIdentitiesOf(w)'
    BY <2>1, MergeIdentities DEF ActiveIdentitiesOf, Core, UsersTyped
  <2>3. \A c \in CredentialsOf(u) : c \in CredentialsOf(w)'
    BY <2>1, MergeCredentials DEF CredentialsOf, Core, UsersTyped
  <2> QED
    BY <2>1, <2>2, <2>3 DEF ActiveUser
<1> QED
  BY <1>1, <1>2, <1>3

\* Only an auto-link attaches an identity to an account while signing in.
LEMMA UnambiguousStep ==
  ASSUME [Next]_vars
  PROVE  Unambiguous
<1> SUFFICES ASSUME identities' # identities, sessions' # sessions, users' = users,
                    NEW i \in DOMAIN identities' \ DOMAIN identities
             PROVE  LET u == identities'[i].user
                    IN  /\ \E j \in ActiveIdentitiesOf(u) :
                             identities[j].verified \cap identities'[i].verified # {}
                        /\ \A w \in DOMAIN users \ {u} : \A j \in ActiveIdentitiesOf(w) :
                             identities[j].verified \cap identities'[i].verified = {}
  BY DEF Unambiguous
<1>1. PICK k \in AssertedKey, v \in Evidence : SignInAutoLink(k, v)
  <2>1. ASSUME NEW k, NEW v, SignInNewUser(k, v)
        PROVE  FALSE
    BY <2>1, FreshFacts DEF SignInNewUser, Put
  <2>2. ASSUME NEW s, NEW x, NEW w, MergeAccounts(s, x, w)
        PROVE  FALSE
    BY <2>2 DEF MergeAccounts, MoveIdentities
  <2> QED
    BY <2>1, <2>2
       DEF Next, vars, identityVars, SignInExact, Link, Unlink, AlreadyMerged, SetPassword,
           SignInWithPassword, CreateSession, RevokeSession, RevokeAllSessions,
           RevokeOtherSessionsByToken, RevokeOwnedSessionByToken, Lapse, CloseCurrentAccount
<1>2. PICK u \in DOMAIN users : IsAutoLinkTarget(u, v) /\ CreateIdentity(u, k, v)
  BY <1>1 DEF SignInAutoLink
<1>3. identities'[i].user = u /\ identities'[i].verified = v
  BY <1>2 DEF CreateIdentity, Put
<1>4. Candidates(v) = {u}
  BY <1>2 DEF IsAutoLinkTarget
<1>5. \E j \in ActiveIdentitiesOf(u) : identities[j].verified \cap v # {}
  BY <1>4 DEF Candidates, ActiveIdentitiesOf
<1>6. \A w \in DOMAIN users \ {u} : \A j \in ActiveIdentitiesOf(w) : identities[j].verified \cap v = {}
  BY <1>4 DEF Candidates, ActiveIdentitiesOf
<1> QED
  BY <1>3, <1>5, <1>6

-----------------------------------------------------------------------------
(* The theorems. *)

\* Every map of the store holds records of its entity, with owners that exist.
THEOREM TypeCorrect == Spec => []TypeOK
<1>1. IInv => TypeOK
  BY CoreParts DEF IInv
<1> QED
  BY <1>1, Invariance, PTL

\* Each secondary index of the store names exactly the records that are
\* stored, through every create, update and merge (store.ts).
THEOREM IndexesCorrect == Spec => []IndexesAgree
<1>1. IInv => IndexesAgree
  BY CoreParts DEF IInv
<1> QED
  BY <1>1, Invariance, PTL

\* No sequence of links, unlinks, merges and closures leaves an account
\* that was not merged away without an active identity (unlink.ts, merge.ts).
THEOREM NobodyLockedOut == Spec => []NeverLockedOut
<1>1. IInv => NeverLockedOut
  BY DEF IInv
<1> QED
  BY <1>1, Invariance, PTL

\* A closed or merged account never has an active session again.
THEOREM EndedStaysSignedOut == Spec => []EndedAccountHasNoSession
<1>1. IInv => EndedAccountHasNoSession
  BY DEF IInv
<1> QED
  BY <1>1, Invariance, PTL

\* A password credential is never on another account than the active
\* identity of its e-mail (passwords/shared.ts, merge-support.ts).
THEOREM PasswordWithIdentity == Spec => []PasswordFollowsIdentity
<1>1. IInv => PasswordFollowsIdentity
  BY DEF IInv
<1> QED
  BY <1>1, Invariance, PTL

\* mergeAccounts only answers "already merged" for what a merge emptied.
THEOREM RetryIsHonest == Spec => []RetryOnlyAfterMerge
<1>1. IInv => RetryOnlyAfterMerge
  BY DEF IInv
<1> QED
  BY <1>1, Invariance, PTL

\* What a merge emptied stays disabled and empty.
THEOREM MergedStaysEmpty == Spec => []MergedAccountIsEmpty
<1>1. IInv => MergedAccountIsEmpty
  BY DEF IInv
<1> QED
  BY <1>1, Invariance, PTL

\* Accounts end under a session of their own, and whole (merge.ts,
\* current-account-actions.ts).
THEOREM EndsWholeAlways == Spec => AccountsEndWhole
<1>1. IInv /\ [Next]_vars => [EndsWhole]_vars
  BY EndsWholeStep DEF IInv
<1> QED
  BY <1>1, Invariance, PTL DEF Spec, AccountsEndWhole

\* No step brings back a disabled user or identity or a revoked session.
THEOREM NothingEverRevives == Spec => NothingRevives
<1>1. IInv /\ [Next]_vars => [Ended]_vars
  BY NextSteps, CoreParts, EndedStep DEF IInv
<1> QED
  BY <1>1, Invariance, PTL DEF Spec, NothingRevives

\* An auto-link has evidence for one account and for no other (auto-link.ts).
THEOREM AutoLinkAlwaysUnambiguous == Spec => AutoLinkIsUnambiguous
<1>1. [Next]_vars => [Unambiguous]_vars
  BY UnambiguousStep
<1> QED
  BY <1>1, PTL DEF Spec, AutoLinkIsUnambiguous

-----------------------------------------------------------------------------
(* The accounts implement module Ownership. *)

\* The keys an account holds are those of its active identities.
LEMMA HeldKeys ==
  ASSUME Core, NEW u
  PROVE  Owners!HeldBy(Holder, u) = {identities[i].key : i \in ActiveIdentitiesOf(u)}
BY DEF Owners!HeldBy, Holder, KeyHolders, LinkedAndActive, ActiveIdentitiesOf, Core,
       IdentitiesTyped

\* The e-mails an account has a password for are those of its credentials.
LEMMA HeldPasswords ==
  ASSUME Core, NEW u
  PROVE  Owners!HeldBy(PasswordHolder, u) = {credentials[c].subject : c \in CredentialsOf(u)}
BY DEF Owners!HeldBy, PasswordHolder, CredentialsOf, Core, CredentialsTyped

\* The sessions an account is signed in with are its active ones.
LEMMA HeldSessions ==
  ASSUME NEW u
  PROVE  Owners!HeldBy(SignedIn, u) = ActiveSessionsOf(u)
BY DEF Owners!HeldBy, SignedIn, ActiveSessionsOf

LEMMA MappedStays ==
  /\ UNCHANGED users => UNCHANGED Owners!accountVars
  /\ UNCHANGED identityVars => UNCHANGED Owners!keyVars
  /\ UNCHANGED credentialVars => UNCHANGED PasswordHolder
  /\ UNCHANGED sessions => UNCHANGED Owners!sessionVars
BY DEF Owners!accountVars, Owners!keyVars, Owners!sessionVars, OpenAccounts, EndedAccounts,
       identityVars, credentialVars, KeyHolders, LinkedAndActive, Holder, Retired,
       PasswordHolder, SignedIn, SignedOut

LEMMA OpenIsActive ==
  ASSUME NEW u
  PROVE  u \in OpenAccounts <=> ActiveUser(u)
BY DEF OpenAccounts, ActiveUser

-----------------------------------------------------------------------------
(* The effects the actions share. *)

LEMMA SessionStarts ==
  ASSUME NEW u, OpenSession(u)
  PROVE  Owners!Starts(u)
<1>1. PICK s \in SessionId :
        /\ s \notin DOMAIN sessions
        /\ sessions' = Put(sessions, s, [user |-> u, status |-> "active", lapsed |-> FALSE])
  BY FreshFacts DEF OpenSession
<1>2. /\ DOMAIN sessions' = DOMAIN sessions \cup {s}
      /\ sessions'[s].user = u /\ sessions'[s].status = "active"
      /\ \A t \in DOMAIN sessions : sessions'[t] = sessions[t]
  BY <1>1 DEF Put
<1>3. SignedIn' = Owners!Give(SignedIn, s, u)
  BY <1>1, <1>2 DEF SignedIn, Owners!Give
<1>4. SignedOut' = SignedOut
  BY <1>1, <1>2 DEF SignedOut
<1>5. s \in SessionId \ (DOMAIN SignedIn \cup SignedOut)
  BY <1>1 DEF SignedIn, SignedOut
<1> QED
  BY <1>3, <1>4, <1>5 DEF Owners!Starts

LEMMA SessionsAreOver ==
  ASSUME Core, NEW S, Revoke(S)
  PROVE  Owners!Over(S \cap DOMAIN SignedIn)
<1>1. /\ DOMAIN sessions' = DOMAIN sessions
      /\ \A s \in DOMAIN sessions :
           /\ sessions'[s].user = sessions[s].user
           /\ sessions'[s].status = IF s \in S THEN "revoked" ELSE sessions[s].status
           /\ sessions[s].status \in {"active", "revoked"}
  BY DEF Revoke, Core, SessionsTyped, Session
<1>2. SignedIn' = Owners!Without(SignedIn, S \cap DOMAIN SignedIn)
  BY <1>1 DEF SignedIn, Owners!Without
<1>3. SignedOut' = SignedOut \cup (S \cap DOMAIN SignedIn)
  BY <1>1 DEF SignedOut, SignedIn
<1> QED
  BY <1>2, <1>3 DEF Owners!Over

LEMMA KeyIsTaken ==
  ASSUME Core, NEW u, NEW k \in Key, NEW v, CreateIdentity(u, k, v)
  PROVE  Owners!Takes(u, k)
<1>1. PICK i \in IdentityId :
        /\ i \notin DOMAIN identities /\ k \notin DOMAIN identityKeys
        /\ identities' = Put(identities, i, [user |-> u, key |-> k, status |-> "active",
                                             verified |-> v])
        /\ identityKeys' = Put(identityKeys, k, i)
  BY FreshFacts DEF CreateIdentity
<1>2. /\ DOMAIN identities' = DOMAIN identities \cup {i}
      /\ identities'[i].user = u /\ identities'[i].status = "active"
      /\ \A j \in DOMAIN identities : identities'[j] = identities[j]
  BY <1>1 DEF Put
<1>3. /\ DOMAIN identityKeys' = DOMAIN identityKeys \cup {k} /\ identityKeys'[k] = i
      /\ \A x \in DOMAIN identityKeys :
           identityKeys'[x] = identityKeys[x] /\ identityKeys[x] \in DOMAIN identities
  BY <1>1 DEF Put, Core, IdentitiesTyped
<1>4. Holder' = Owners!Give(Holder, k, u)
  BY <1>1, <1>2, <1>3 DEF Holder, KeyHolders, LinkedAndActive, Owners!Give
<1>5. Retired' = Retired
  BY <1>1, <1>2, <1>3 DEF Retired, KeyHolders, LinkedAndActive
<1>6. k \in Key \ (DOMAIN Holder \cup DOMAIN Retired)
  BY <1>1 DEF Holder, Retired, KeyHolders
<1> QED
  BY <1>4, <1>5, <1>6 DEF Owners!Takes

LEMMA PasswordIsGiven ==
  ASSUME Core, NEW u, NEW e \in Email, CreateCredential(u, e)
  PROVE  /\ Owners!HeldBy(PasswordHolder, u) = {} /\ e \notin DOMAIN PasswordHolder
         /\ PasswordHolder' = Owners!Give(PasswordHolder, e, u)
<1>1. PICK c \in CredentialId :
        /\ c \notin DOMAIN credentials
        /\ e \notin DOMAIN credentialKeys /\ u \notin DOMAIN credentialUserKeys
        /\ credentials' = Put(credentials, c, [user |-> u, subject |-> e])
        /\ credentialKeys' = Put(credentialKeys, e, c)
  BY FreshFacts DEF CreateCredential
<1>2. /\ credentials'[c].user = u
      /\ \A d \in DOMAIN credentials : credentials'[d] = credentials[d]
  BY <1>1 DEF Put
<1>3. /\ DOMAIN credentialKeys' = DOMAIN credentialKeys \cup {e} /\ credentialKeys'[e] = c
      /\ \A x \in DOMAIN credentialKeys :
           credentialKeys'[x] = credentialKeys[x] /\ credentialKeys[x] \in DOMAIN credentials
  BY <1>1 DEF Put, Core, CredentialsTyped
<1>4. PasswordHolder' = Owners!Give(PasswordHolder, e, u)
  BY <1>1, <1>2, <1>3 DEF PasswordHolder, Owners!Give
<1>5. CredentialsOf(u) = {}
  BY <1>1 DEF CredentialsOf, Core, CredentialsTyped
<1> QED
  BY <1>1, <1>4, <1>5, HeldPasswords DEF PasswordHolder

-----------------------------------------------------------------------------
(* The operations, by the step of Ownership they take. *)

\* Everything that only concerns sessions signs somebody in, or signs out.
SessionsMove ==
  /\ (\E u : ActiveUser(u) /\ OpenSession(u)) \/ (\E S : Revoke(S)) \/ UNCHANGED Owners!sessionVars
  /\ UNCHANGED <<users, identityVars, credentialVars>>

LEMMA SessionsMoveSteps ==
  ASSUME Core, SessionsMove
  PROVE  [Owners!Next]_Owners!vars
<1>1. UNCHANGED <<Owners!accountVars, Owners!keyVars, PasswordHolder>>
  BY MappedStays DEF SessionsMove
<1>2. ASSUME NEW u, ActiveUser(u), OpenSession(u)
      PROVE  Owners!Next
  <2>1. u \in UserId /\ Owners!SignIn(u)
    BY <1>1, <1>2, OpenIsActive, SessionStarts
       DEF Owners!SignIn, ActiveUser, Core, UsersTyped
  <2> QED
    BY <2>1 DEF Owners!Next
<1>3. ASSUME NEW S, Revoke(S)
      PROVE  Owners!Next
  <2> DEFINE T == S \cap DOMAIN SignedIn
  <2>1. T \in SUBSET SessionId
    BY DEF SignedIn, Core, SessionsTyped
  <2>2. Owners!SignOut(T)
    BY <1>1, <1>3, SessionsAreOver DEF Owners!SignOut
  <2> HIDE DEF T
  <2> QED
    BY <2>1, <2>2 DEF Owners!Next
<1> QED
  BY <1>1, <1>2, <1>3 DEF SessionsMove, Owners!vars

LEMMA RegisterStep ==
  ASSUME Core, NEW k \in AssertedKey, NEW v \in Evidence, SignInNewUser(k, v)
  PROVE  Owners!Next
<1> DEFINE u == Fresh(UserId, users)
<1>1. /\ users' = Put(users, u, "active")
      /\ CreateIdentity(u, k, v) /\ OpenSession(u)
      /\ UNCHANGED credentialVars
      /\ Unused(UserId, users) # {}
  BY DEF SignInNewUser
<1>2. u \in UserId \ DOMAIN users
  BY <1>1, FreshFacts
<1> HIDE DEF u
<1>3. OpenAccounts' = OpenAccounts \cup {u} /\ EndedAccounts' = EndedAccounts
  BY <1>1, <1>2 DEF OpenAccounts, EndedAccounts, Put
<1>4. u \in UserId \ (OpenAccounts \cup EndedAccounts)
  BY <1>2 DEF OpenAccounts, EndedAccounts
<1>5. k \in Key
  BY AssertedAreKeys DEF Key
<1>6. Owners!Register(u, k)
  BY <1>1, <1>3, <1>4, <1>5, KeyIsTaken, SessionStarts, MappedStays DEF Owners!Register
<1> QED
  BY <1>2, <1>5, <1>6 DEF Owners!Next

\* A link, and a sign-in that finds the account by evidence.
LEMMA AttachStep ==
  ASSUME Core, NEW u, NEW k \in AssertedKey, NEW v, ActiveUser(u), CreateIdentity(u, k, v),
         OpenSession(u) \/ UNCHANGED sessions,
         UNCHANGED <<users, credentialVars>>
  PROVE  Owners!Next
<1>1. k \in Key /\ u \in UserId
  BY AssertedAreKeys DEF Key, ActiveUser, Core, UsersTyped
<1>2. Owners!Attach(u, k)
  BY <1>1, OpenIsActive, KeyIsTaken, SessionStarts, MappedStays DEF Owners!Attach
<1> QED
  BY <1>1, <1>2 DEF Owners!Next

LEMMA RetireStep ==
  ASSUME Core, NEW u \in UserId, NEW i \in IdentityId, Unlink(u, i)
  PROVE  Owners!Next
<1> DEFINE k == identities[i].key
<1>1. /\ i \in ActiveIdentitiesOf(u) /\ UNCHANGED identityKeys
      /\ DOMAIN identities' = DOMAIN identities
      /\ \A j \in DOMAIN identities :
           /\ identities'[j].user = identities[j].user
           /\ identities'[j].status = IF j = i THEN "disabled" ELSE identities[j].status
  BY UnlinkEffect
<1>2. /\ k \in DOMAIN identityKeys /\ identityKeys[k] = i /\ k \in Key
      /\ identities[i].status = "active" /\ identities[i].user = u
      /\ \A x \in DOMAIN identityKeys :
           /\ identityKeys[x] \in DOMAIN identities
           /\ identityKeys[x] = i => x = k
  BY <1>1 DEF ActiveIdentitiesOf, Core, IdentitiesTyped
<1>3. Holder' = Owners!Without(Holder, {k})
  BY <1>1, <1>2 DEF Holder, KeyHolders, LinkedAndActive, Owners!Without
<1>4. Retired' = Owners!Give(Retired, k, u)
  BY <1>1, <1>2 DEF Retired, KeyHolders, LinkedAndActive, Owners!Give
<1>5. PICK j \in ActiveIdentitiesOf(u) : j # i
  BY DEF Unlink
<1>6. identities[j].key # k
  BY <1>2, <1>5 DEF ActiveIdentitiesOf, Core, IdentitiesTyped
<1>7. k \in Owners!HeldBy(Holder, u) /\ Owners!HeldBy(Holder, u) \ {k} # {}
  BY <1>1, <1>5, <1>6, HeldKeys
<1>8. u \in OpenAccounts /\ UNCHANGED <<users, credentialVars, sessions>>
  BY OpenIsActive DEF Unlink
<1> HIDE DEF k
<1>9. Owners!Retire(u, k)
  BY <1>3, <1>4, <1>7, <1>8, MappedStays DEF Owners!Retire
<1> QED
  BY <1>2, <1>9 DEF Owners!Next

\* A first password; a further one changes nothing that Ownership speaks of.
LEMMA GetPasswordStep ==
  ASSUME Core, PasswordFollowsIdentity, NEW u \in UserId, NEW e \in Email, SetPassword(u, e)
  PROVE  [Owners!Next]_Owners!vars
<1>1. u \in OpenAccounts /\ UNCHANGED <<users, sessions>> /\ e \in Key
  BY OpenIsActive DEF SetPassword, Key
<1>2. CASE u \in DOMAIN credentialUserKeys
  <2>1. credentialUserKeys[u] \in DOMAIN credentials
        /\ credentials[credentialUserKeys[u]].subject = e
    BY <1>2 DEF SetPassword, Core, CredentialsTyped
  <2>2. e \in DOMAIN identityKeys
    BY <2>1 DEF PasswordFollowsIdentity
  <2>3. UNCHANGED <<identityVars, credentialVars>>
    BY <1>2, <2>2 DEF SetPassword, EnsurePasswordIdentity
  <2> QED
    BY <1>1, <2>3, MappedStays DEF Owners!vars
<1>3. CASE u \notin DOMAIN credentialUserKeys
  <2>1. CreateCredential(u, e)
    BY <1>3 DEF SetPassword
  <2>2. \/ e \in Owners!HeldBy(Holder, u) /\ UNCHANGED Owners!keyVars
        \/ Owners!Takes(u, e)
    <3>1. CASE e \in DOMAIN identityKeys
      <4>1. identityKeys[e] \in ActiveIdentitiesOf(u) /\ UNCHANGED identityVars
        BY <3>1 DEF SetPassword, EnsurePasswordIdentity
      <4>2. identities[identityKeys[e]].key = e
        BY <3>1 DEF Core, IdentitiesTyped
      <4> QED
        BY <4>1, <4>2, HeldKeys, MappedStays
    <3>2. CASE e \notin DOMAIN identityKeys
      <4>1. CreateIdentity(u, e, {e})
        BY <3>2 DEF SetPassword, EnsurePasswordIdentity
      <4> QED
        BY <1>1, <4>1, KeyIsTaken
    <3> QED
      BY <3>1, <3>2
  <2>3. /\ Owners!HeldBy(PasswordHolder, u) = {} /\ e \notin DOMAIN PasswordHolder
        /\ PasswordHolder' = Owners!Give(PasswordHolder, e, u)
    BY <2>1, PasswordIsGiven
  <2>4. Owners!GetPassword(u, e)
    BY <1>1, <2>2, <2>3, MappedStays DEF Owners!GetPassword
  <2> QED
    BY <2>4 DEF Owners!Next
<1> QED
  BY <1>2, <1>3

\* An account is disabled and exactly its sessions end.
LEMMA AccountEnds ==
  ASSUME Core, NEW u \in UserId, ActiveUser(u), Revoke(ActiveSessionsOf(u)),
         users' = [users EXCEPT ![u] = "disabled"]
  PROVE  Owners!Ends(u)
<1>1. Owners!Over(ActiveSessionsOf(u) \cap DOMAIN SignedIn)
  BY SessionsAreOver
<1>2. ActiveSessionsOf(u) \cap DOMAIN SignedIn = Owners!HeldBy(SignedIn, u)
  BY HeldSessions DEF ActiveSessionsOf, SignedIn
<1>3. OpenAccounts' = OpenAccounts \ {u} /\ EndedAccounts' = EndedAccounts \cup {u}
  BY DEF OpenAccounts, EndedAccounts, ActiveUser
<1> QED
  BY <1>1, <1>2, <1>3 DEF Owners!Ends

LEMMA CloseStep ==
  ASSUME Core, NEW s \in SessionId, CloseCurrentAccount(s)
  PROVE  Owners!Next
<1> DEFINE u == sessions[s].user
<1>1. /\ ActiveUser(u) /\ s \in ActiveSessionsOf(u)
      /\ Revoke(ActiveSessionsOf(u) \ {})
      /\ users' = [users EXCEPT ![u] = "disabled"]
      /\ UNCHANGED <<identityVars, credentialVars>>
  BY DEF CloseCurrentAccount, RevokeUserSessions, Resolves, ActiveSessionsOf
<1>2. ActiveSessionsOf(u) \ {} = ActiveSessionsOf(u) /\ u \in UserId
  BY <1>1 DEF ActiveUser, Core, UsersTyped
<1> HIDE DEF u
<1>3. Owners!Ends(u) /\ Owners!HeldBy(SignedIn, u) # {}
  BY <1>1, <1>2, AccountEnds, HeldSessions
<1>4. Owners!Close(u)
  BY <1>1, <1>3, OpenIsActive, MappedStays DEF Owners!Close
<1> QED
  BY <1>2, <1>4 DEF Owners!Next

LEMMA MergeStep ==
  ASSUME Core, NEW s \in SessionId, NEW u \in UserId, NEW w \in UserId, MergeAccounts(s, u, w)
  PROVE  Owners!Next
<1>1. /\ ActiveUser(u) /\ ActiveUser(w) /\ u # w
      /\ s \in ActiveSessionsOf(u)
      /\ CredentialsOf(u) = {} \/ CredentialsOf(w) = {}
      /\ users' = [users EXCEPT ![u] = "disabled"]
      /\ Revoke(ActiveSessionsOf(u))
      /\ MoveIdentities(u, w) /\ MoveCredentials(u, w)
  BY DEF MergeAccounts
<1>2. Owners!Ends(u) /\ Owners!HeldBy(SignedIn, u) # {}
  BY <1>1, AccountEnds, HeldSessions
<1>3. Owners!HeldBy(PasswordHolder, u) = {} \/ Owners!HeldBy(PasswordHolder, w) = {}
  BY <1>1, HeldPasswords
<1>4. /\ DOMAIN identities' = DOMAIN identities /\ UNCHANGED identityKeys
      /\ \A i \in DOMAIN identities :
           /\ identities'[i].status = identities[i].status
           /\ identities'[i].user = IF i \in ActiveIdentitiesOf(u) THEN w ELSE identities[i].user
      /\ \A k \in DOMAIN identityKeys : identityKeys[k] \in DOMAIN identities
  BY <1>1, MergeIdentities DEF Core, IdentitiesTyped
<1>5. Holder' = Owners!HandOver(Holder, u, w)
  BY <1>4 DEF Holder, KeyHolders, LinkedAndActive, ActiveIdentitiesOf, Owners!HandOver
<1>6. Retired' = Retired
  BY <1>4 DEF Retired, KeyHolders, LinkedAndActive, ActiveIdentitiesOf
<1>7. /\ UNCHANGED credentialKeys
      /\ \A c \in DOMAIN credentials :
           credentials'[c].user = IF c \in CredentialsOf(u) THEN w ELSE credentials[c].user
      /\ \A e \in DOMAIN credentialKeys : credentialKeys[e] \in DOMAIN credentials
  BY <1>1, MergeCredentials DEF Core, CredentialsTyped
<1>8. PasswordHolder' = Owners!HandOver(PasswordHolder, u, w)
  BY <1>7 DEF PasswordHolder, CredentialsOf, Owners!HandOver
<1>9. u \in OpenAccounts /\ w \in OpenAccounts \ {u}
  BY <1>1, OpenIsActive
<1>10. Owners!Merge(u, w)
  BY <1>2, <1>3, <1>5, <1>6, <1>8, <1>9 DEF Owners!Merge
<1> QED
  BY <1>10 DEF Owners!Next

LEMMA OwnershipStep ==
  ASSUME Core, PasswordFollowsIdentity, [Next]_vars
  PROVE  [Owners!Next]_Owners!vars
<1>1. ASSUME SessionsMove
      PROVE  [Owners!Next]_Owners!vars
  BY <1>1, SessionsMoveSteps
<1>2. ASSUME NEW k \in AssertedKey, SignInExact(k)
      PROVE  SessionsMove
  BY <1>2 DEF SignInExact, SessionsMove
<1>3. ASSUME NEW k \in AssertedKey, NEW v \in Evidence, SignInAutoLink(k, v)
      PROVE  Owners!Next
  BY <1>3, AttachStep DEF SignInAutoLink, IsAutoLinkTarget
<1>4. ASSUME NEW u \in UserId, NEW k \in AssertedKey, NEW v \in Evidence, Link(u, k, v)
      PROVE  Owners!Next
  BY <1>4, AttachStep DEF Link
<1>5. ASSUME NEW u \in UserId, NEW w \in UserId, AlreadyMerged(u, w)
      PROVE  SessionsMove
  BY <1>5, MappedStays DEF AlreadyMerged, SessionsMove
<1>6. ASSUME NEW e \in Email, SignInWithPassword(e)
      PROVE  SessionsMove
  BY <1>6 DEF SignInWithPassword, UsablePassword, SessionsMove
<1>7. ASSUME NEW u \in UserId, CreateSession(u) \/ RevokeAllSessions(u)
      PROVE  SessionsMove
  BY <1>7 DEF CreateSession, RevokeAllSessions, RevokeUserSessions, SessionsMove
<1>8. ASSUME NEW s \in SessionId, NEW t \in SessionId,
             RevokeSession(s) \/ RevokeOtherSessionsByToken(s) \/ RevokeOwnedSessionByToken(s, t)
      PROVE  SessionsMove
  BY <1>8 DEF RevokeSession, RevokeOtherSessionsByToken, RevokeUserSessions,
              RevokeOwnedSessionByToken, SessionsMove
<1>9. ASSUME NEW s \in SessionId, Lapse(s)
      PROVE  SessionsMove
  <2>1. /\ DOMAIN sessions' = DOMAIN sessions
        /\ \A t \in DOMAIN sessions : /\ sessions'[t].user = sessions[t].user
                                      /\ sessions'[t].status = sessions[t].status
    BY <1>9 DEF Lapse, Core, SessionsTyped, Session
  <2>2. UNCHANGED Owners!sessionVars
    BY <2>1 DEF Owners!sessionVars, SignedIn, SignedOut
  <2> QED
    BY <1>9, <2>2 DEF Lapse, SessionsMove
<1>10. ASSUME UNCHANGED vars
       PROVE  SessionsMove
  BY <1>10, MappedStays DEF vars, identityVars, credentialVars, SessionsMove
<1> QED
  BY <1>1, <1>2, <1>3, <1>4, <1>5, <1>6, <1>7, <1>8, <1>9, <1>10, RegisterStep, RetireStep,
     GetPasswordStep, CloseStep, MergeStep
     DEF Next

\* The store's records say who may sign in as whom the way Ownership allows
\* (sign-in.ts, link.ts, merge.ts, passwords, sessions, current-account-actions.ts).
THEOREM AccountsImplementOwnership == Spec => ImplementsOwnership
<1>1. Init => Owners!Init
  BY DEF Init, Owners!Init, OpenAccounts, EndedAccounts, Holder, Retired, KeyHolders,
         LinkedAndActive, PasswordHolder, SignedIn, SignedOut
<1>2. IInv /\ [Next]_vars => [Owners!Next]_Owners!vars
  BY OwnershipStep DEF IInv
<1> QED
  BY <1>1, <1>2, Invariance, PTL DEF Spec, ImplementsOwnership, Owners!Spec

\* The key of a sign-in identity changes hands only when its whole account is
\* merged, and never after it was unlinked or its account ended (merge.ts, link.ts).
THEOREM SignInKeysFaithful == Spec => Owners!KeysStayFaithful
<1>1. Owners!Spec => Owners!KeysStayFaithful
  BY Owners!KeysAlwaysFaithful
<1> QED
  BY <1>1, AccountsImplementOwnership, PTL DEF ImplementsOwnership
=============================================================================
