------------------------------ MODULE Accounts ------------------------------
(***************************************************************************)
(* Users, sign-in identities, password credentials and sessions, as the    *)
(* service's operations change them through the store.                     *)
(*                                                                         *)
(* The store serialises UnitOfWork.run and restores its snapshot when the  *)
(* operation throws (module UnitOfWork), so one committed operation is one *)
(* action here and a failed one leaves every variable as it was.  The maps *)
(* of the store are partial functions: DOMAIN is the set of present keys.  *)
(* The store's secondary indexes are state of their own, because lookups   *)
(* read them and not the records.                                          *)
(***************************************************************************)
EXTENDS Naturals, FiniteSets

CONSTANTS
  UserId, IdentityId, CredentialId, SessionId,  \* the ids the generator hands out
  ProviderKey,      \* (provider, providerUserId) pairs of external and OTP providers
  AssertedKey,      \* the keys under which assertions arrive: nothing keeps a provider
                    \* from asserting the key of a password identity
  Email, Phone,     \* normalised contacts; an Email is also the key of a password identity
  AutoLinkAnswers   \* the answers AuthPolicy.canAutoLink may give

ASSUME KeysDisjoint == ProviderKey \cap Email = {}
ASSUME AssertedAreKeys == AssertedKey \subseteq ProviderKey \cup Email
ASSUME AnswersAreBoolean == AutoLinkAnswers \subseteq BOOLEAN

VARIABLES
  users,               \* UserId -> "active" | "disabled" (disabledAt is set)
  identities,          \* IdentityId -> record
  identityKeys,        \* index: key -> IdentityId
  credentials,         \* CredentialId -> record
  credentialKeys,      \* index: subject -> CredentialId
  credentialUserKeys,  \* index: UserId -> CredentialId
  sessions,            \* SessionId -> record
  mergeLog             \* the AccountsMerged audit events

vars == <<users, identities, identityKeys, credentials, credentialKeys,
          credentialUserKeys, sessions, mergeLog>>
credentialVars == <<credentials, credentialKeys, credentialUserKeys>>
identityVars == <<identities, identityKeys>>

-----------------------------------------------------------------------------
Key == ProviderKey \cup Email

AtMostOne(S) == {{}} \cup {{x} : x \in S}

\* The verified contacts an assertion carries: no more than one e-mail, one phone.
Evidence == {e \cup p : e \in AtMostOne(Email), p \in AtMostOne(Phone)}

Identity ==
  [user : UserId, key : Key, status : {"active", "disabled"}, verified : SUBSET (Email \cup Phone)]
Credential == [user : UserId, subject : Email]
Session == [user : UserId, status : {"active", "revoked"}, lapsed : BOOLEAN]
MergeEvent == [source : UserId, target : UserId, decision : {"merged", "already-merged"}]

\* Map.set on a partial function.
Put(f, k, v) == [x \in DOMAIN f \cup {k} |-> IF x = k THEN v ELSE f[x]]

\* Faulty variant: the old key is left in the index.
RekeyKeepsOld(f, old, new, v) == Put(f, new, v)

\* Moving an index entry: the old key is deleted, the new one set.
Rekey(f, old, new, v) ==
  [x \in (DOMAIN f \ {old}) \cup {new} |-> IF x = new THEN v ELSE f[x]]

\* An unused id; ids are interchangeable, so which one is taken does not matter.
Unused(S, f) == S \ DOMAIN f
Fresh(S, f) == CHOOSE x \in Unused(S, f) : TRUE

ActiveUser(u) == u \in DOMAIN users /\ users[u] = "active"

\* listActiveIdentitiesForUser
ActiveIdentitiesOf(u) ==
  {i \in DOMAIN identities : identities[i].user = u /\ identities[i].status = "active"}

\* Faulty variant: a merge does not look for password credentials.
CredentialsForgotten(u) == {}
CredentialsOf(u) == {c \in DOMAIN credentials : credentials[c].user = u}

ActiveSessionsOf(u) ==
  {s \in DOMAIN sessions : sessions[s].user = u /\ sessions[s].status = "active"}

\* resolveSessionContext accepts the token of session s.
Resolves(s) ==
  /\ s \in DOMAIN sessions
  /\ sessions[s].status = "active" /\ ~sessions[s].lapsed
  /\ ActiveUser(sessions[s].user)

-----------------------------------------------------------------------------
OpenSession(u) ==
  /\ Unused(SessionId, sessions) # {}
  /\ sessions' = Put(sessions, Fresh(SessionId, sessions),
                     [user |-> u, status |-> "active", lapsed |-> FALSE])

\* revokeSessionRecord for each of a set of sessions.
Revoke(S) ==
  sessions' = [s \in DOMAIN sessions |->
                 IF s \in S THEN [sessions[s] EXCEPT !.status = "revoked"] ELSE sessions[s]]

\* identityRepo.create: the key must be free, whatever became of its holder.
CreateIdentity(u, k, verified) ==
  /\ k \notin DOMAIN identityKeys
  /\ Unused(IdentityId, identities) # {}
  /\ LET i == Fresh(IdentityId, identities)
     IN  /\ identities' = Put(identities, i, [user |-> u, key |-> k, status |-> "active",
                                              verified |-> verified])
         /\ identityKeys' = Put(identityKeys, k, i)

\* credentialRepo.create, after the lookups of setPassword found none.
CreateCredential(u, e) ==
  /\ e \notin DOMAIN credentialKeys /\ u \notin DOMAIN credentialUserKeys
  /\ Unused(CredentialId, credentials) # {}
  /\ LET c == Fresh(CredentialId, credentials)
     IN  /\ credentials' = Put(credentials, c, [user |-> u, subject |-> e])
         /\ credentialKeys' = Put(credentialKeys, e, c)
         /\ credentialUserKeys' = Put(credentialUserKeys, u, c)

-----------------------------------------------------------------------------
\* findByProviderUserId found an active identity.
LinkedAndActive(k) ==
  k \in DOMAIN identityKeys /\ identities[identityKeys[k]].status = "active"

\* The owners of active identities that share a verified contact (collectCandidateIdentities).
Candidates(verified) ==
  {identities[i].user : i \in {j \in DOMAIN identities :
      identities[j].status = "active" /\ identities[j].verified \cap verified # {}}}

\* Faulty variant: any owner of a matching identity will do.
IsAnyCandidate(u, verified) == u \in Candidates(verified) /\ ActiveUser(u)

\* findAutoLinkTarget before the policy is asked: one owner, and an active one.
IsAutoLinkTarget(u, verified) == Candidates(verified) = {u} /\ ActiveUser(u)

\* Faulty variant: the owner of the identity is not checked.
SignInExactUnchecked(k) ==
  /\ LinkedAndActive(k)
  /\ OpenSession(identities[identityKeys[k]].user)
  /\ UNCHANGED <<users, identityVars, credentialVars, mergeLog>>

\* signInWithAssertion: the key belongs to an active identity.
SignInExact(k) ==
  /\ LinkedAndActive(k)
  /\ LET u == identities[identityKeys[k]].user
     IN  ActiveUser(u) /\ OpenSession(u)
  /\ UNCHANGED <<users, identityVars, credentialVars, mergeLog>>

\* The key is new, and the policy accepts the one account the evidence points at.
SignInAutoLink(k, verified) ==
  /\ ~LinkedAndActive(k)
  /\ TRUE \in AutoLinkAnswers
  /\ \E u \in DOMAIN users :
       /\ IsAutoLinkTarget(u, verified)
       /\ CreateIdentity(u, k, verified)
       /\ OpenSession(u)
  /\ UNCHANGED <<users, credentialVars, mergeLog>>

\* Faulty variant: the user is made but not stored.
SignInUserNotSaved(k, verified) ==
  /\ ~LinkedAndActive(k)
  /\ Unused(UserId, users) # {}
  /\ CreateIdentity(Fresh(UserId, users), k, verified)
  /\ OpenSession(Fresh(UserId, users))
  /\ UNCHANGED <<users, credentialVars, mergeLog>>

\* The key is new, and there is no such account or the policy says no.
SignInNewUser(k, verified) ==
  /\ ~LinkedAndActive(k)
  /\ \/ FALSE \in AutoLinkAnswers
     \/ \A u \in DOMAIN users : ~IsAutoLinkTarget(u, verified)
  /\ Unused(UserId, users) # {}
  /\ LET u == Fresh(UserId, users)
     IN  /\ users' = Put(users, u, "active")
         /\ CreateIdentity(u, k, verified)
         /\ OpenSession(u)
  /\ UNCHANGED <<credentialVars, mergeLog>>

\* link, when the key is not taken; a link to an identity the user holds changes nothing.
Link(u, k, verified) ==
  /\ ActiveUser(u)
  /\ CreateIdentity(u, k, verified)
  /\ UNCHANGED <<users, credentialVars, sessions, mergeLog>>

\* Faulty variant: disabled without looking for another active identity.
UnlinkEvenTheLast(u, i) ==
  /\ ActiveUser(u)
  /\ i \in ActiveIdentitiesOf(u)
  /\ identities' = [identities EXCEPT ![i].status = "disabled"]
  /\ UNCHANGED <<users, identityKeys, credentialVars, sessions, mergeLog>>

\* unlink through disableForUserIfAnotherActive; the key stays in the index.
Unlink(u, i) ==
  /\ ActiveUser(u)
  /\ i \in ActiveIdentitiesOf(u)
  /\ ActiveIdentitiesOf(u) \ {i} # {}
  /\ identities' = [identities EXCEPT ![i].status = "disabled"]
  /\ UNCHANGED <<users, identityKeys, credentialVars, sessions, mergeLog>>

-----------------------------------------------------------------------------
\* Faulty variants: identities without a verified contact stay; disabled ones move too.
MoveVerifiedIdentities(source, target) ==
  /\ identities' = [i \in DOMAIN identities |->
                      IF i \in ActiveIdentitiesOf(source) /\ identities[i].verified # {}
                      THEN [identities[i] EXCEPT !.user = target] ELSE identities[i]]
  /\ UNCHANGED identityKeys

MoveAllIdentities(source, target) ==
  /\ identities' = [i \in DOMAIN identities |->
                      IF identities[i].user = source
                      THEN [identities[i] EXCEPT !.user = target] ELSE identities[i]]
  /\ UNCHANGED identityKeys

\* moveIdentitiesToTarget: the active ones change owner, disabled ones stay behind.
MoveIdentities(source, target) ==
  /\ identities' = [i \in DOMAIN identities |->
                      IF i \in ActiveIdentitiesOf(source)
                      THEN [identities[i] EXCEPT !.user = target] ELSE identities[i]]
  /\ UNCHANGED identityKeys

\* moveCredentialsToTarget: credentialRepo.update re-keys the per-user index.
MoveCredentials(source, target) ==
  LET moved == CredentialsOf(source)
  IN  /\ moved # {} => target \notin DOMAIN credentialUserKeys
      /\ credentials' = [c \in DOMAIN credentials |->
                           IF c \in moved THEN [credentials[c] EXCEPT !.user = target]
                           ELSE credentials[c]]
      /\ credentialUserKeys' =
           IF moved = {} THEN credentialUserKeys
           ELSE Rekey(credentialUserKeys, source, target, CHOOSE c \in moved : TRUE)
      /\ UNCHANGED credentialKeys

\* Faulty variant: identities are not looked at.
LooksMergedByCredentials(u) == CredentialsOf(u) = {} /\ ActiveSessionsOf(u) = {}

\* isAlreadyMergedSource
LooksMerged(u) ==
  /\ ActiveIdentitiesOf(u) = {}
  /\ CredentialsOf(u) = {}
  /\ ActiveSessionsOf(u) = {}

\* mergeAccounts with the token of session s.  The expiry of s is judged by the
\* time read before the call waited for its turn, so s may have lapsed since.
MergeAccounts(s, source, target) ==
  /\ ActiveUser(target) /\ ActiveUser(source) /\ source # target
  /\ s \in ActiveSessionsOf(source)
  /\ CredentialsOf(source) = {} \/ CredentialsOf(target) = {}
  /\ MoveIdentities(source, target)
  /\ MoveCredentials(source, target)
  /\ users' = [users EXCEPT ![source] = "disabled"]
  /\ Revoke(ActiveSessionsOf(source))
  /\ mergeLog' = mergeLog \cup {[source |-> source, target |-> target, decision |-> "merged"]}

\* mergeAccounts again: a disabled source that looks merged is answered as a retry.
AlreadyMerged(source, target) ==
  /\ source \in DOMAIN users /\ ~ActiveUser(source) /\ ActiveUser(target)
  /\ LooksMerged(source)
  /\ mergeLog' = mergeLog \cup
                   {[source |-> source, target |-> target, decision |-> "already-merged"]}
  /\ UNCHANGED <<users, identityVars, credentialVars, sessions>>

\* The e-mail's identity exists, active and with this user, or is created.
EnsurePasswordIdentity(u, e) ==
  IF e \in DOMAIN identityKeys
  THEN identityKeys[e] \in ActiveIdentitiesOf(u) /\ UNCHANGED identityVars
  ELSE CreateIdentity(u, e, {e})

\* Faulty variant: the user is only looked up.
SetPasswordForAnyone(u, e) ==
  /\ u \in DOMAIN users
  /\ e \in DOMAIN credentialKeys => credentials[credentialKeys[e]].user = u
  /\ u \in DOMAIN credentialUserKeys => credentials[credentialUserKeys[u]].subject = e
  /\ EnsurePasswordIdentity(u, e)
  /\ IF u \in DOMAIN credentialUserKeys
     THEN UNCHANGED credentialVars
     ELSE CreateCredential(u, e)
  /\ UNCHANGED <<users, sessions, mergeLog>>

\* setPassword: the first password of an account creates what is missing.
SetPassword(u, e) ==
  /\ ActiveUser(u)
  /\ e \in DOMAIN credentialKeys => credentials[credentialKeys[e]].user = u
  /\ u \in DOMAIN credentialUserKeys => credentials[credentialUserKeys[u]].subject = e
  /\ EnsurePasswordIdentity(u, e)
  /\ IF u \in DOMAIN credentialUserKeys
     THEN UNCHANGED credentialVars
     ELSE CreateCredential(u, e)
  /\ UNCHANGED <<users, sessions, mergeLog>>

\* findPasswordCredentialByEmail, findUsablePasswordIdentity and findUsableCredentialUser.
UsablePassword(e) ==
  /\ e \in DOMAIN credentialKeys
  /\ LinkedAndActive(e)
  /\ identities[identityKeys[e]].user = credentials[credentialKeys[e]].user
  /\ ActiveUser(credentials[credentialKeys[e]].user)

SignInWithPassword(e) ==
  /\ UsablePassword(e)
  /\ OpenSession(credentials[credentialKeys[e]].user)
  /\ UNCHANGED <<users, identityVars, credentialVars, mergeLog>>

-----------------------------------------------------------------------------
CreateSession(u) ==
  /\ ActiveUser(u)
  /\ OpenSession(u)
  /\ UNCHANGED <<users, identityVars, credentialVars, mergeLog>>

RevokeSession(s) ==
  /\ s \in DOMAIN sessions
  /\ Revoke({s})
  /\ UNCHANGED <<users, identityVars, credentialVars, mergeLog>>

\* revokeUserSessions; keep holds the excepted session, when there is one.
RevokeUserSessions(u, keep) ==
  /\ ActiveUser(u)
  /\ \A s \in keep : s \in DOMAIN sessions /\ sessions[s].user = u
  /\ Revoke(ActiveSessionsOf(u) \ keep)

RevokeAllSessions(u) ==
  /\ RevokeUserSessions(u, {})
  /\ UNCHANGED <<users, identityVars, credentialVars, mergeLog>>

RevokeOtherSessionsByToken(s) ==
  /\ Resolves(s)
  /\ RevokeUserSessions(sessions[s].user, {s})
  /\ UNCHANGED <<users, identityVars, credentialVars, mergeLog>>

\* revokeOwnedSessionByToken; with t = s it is revokeCurrentSessionByToken.
RevokeOwnedSessionByToken(s, t) ==
  /\ Resolves(s)
  /\ Resolves(t) /\ sessions[t].user = sessions[s].user
  /\ Revoke({t})
  /\ UNCHANGED <<users, identityVars, credentialVars, mergeLog>>

\* closeCurrentAccountByToken: the identities stay active and keep their keys.
CloseCurrentAccount(s) ==
  /\ Resolves(s)
  /\ LET u == sessions[s].user
     IN  /\ RevokeUserSessions(u, {})
         /\ users' = [users EXCEPT ![u] = "disabled"]
  /\ UNCHANGED <<identityVars, credentialVars, mergeLog>>

\* Time reaches the expiry of a session; unobservable once it is revoked.
Lapse(s) ==
  /\ s \in DOMAIN sessions /\ sessions[s].status = "active"
  /\ sessions' = [sessions EXCEPT ![s].lapsed = TRUE]
  /\ UNCHANGED <<users, identityVars, credentialVars, mergeLog>>

-----------------------------------------------------------------------------
Init ==
  /\ users = << >> /\ sessions = << >>
  /\ identities = << >> /\ identityKeys = << >>
  /\ credentials = << >> /\ credentialKeys = << >> /\ credentialUserKeys = << >>
  /\ mergeLog = {}

Next ==
  \/ \E k \in AssertedKey : SignInExact(k)
  \/ \E k \in AssertedKey, v \in Evidence : SignInAutoLink(k, v)
  \/ \E k \in AssertedKey, v \in Evidence : SignInNewUser(k, v)
  \/ \E u \in UserId, k \in AssertedKey, v \in Evidence : Link(u, k, v)
  \/ \E u \in UserId, i \in IdentityId : Unlink(u, i)
  \/ \E s \in SessionId, u, w \in UserId : MergeAccounts(s, u, w)
  \/ \E u, w \in UserId : AlreadyMerged(u, w)
  \/ \E u \in UserId, e \in Email : SetPassword(u, e)
  \/ \E e \in Email : SignInWithPassword(e)
  \/ \E u \in UserId : CreateSession(u)
  \/ \E s \in SessionId : RevokeSession(s)
  \/ \E u \in UserId : RevokeAllSessions(u)
  \/ \E s \in SessionId : RevokeOtherSessionsByToken(s)
  \/ \E s, t \in SessionId : RevokeOwnedSessionByToken(s, t)
  \/ \E s \in SessionId : CloseCurrentAccount(s)
  \/ \E s \in SessionId : Lapse(s)

Spec == Init /\ [][Next]_vars

-----------------------------------------------------------------------------
\* Every map holds records of its entity under keys of its index.
TypeOK ==
  /\ DOMAIN users \subseteq UserId
  /\ \A u \in DOMAIN users : users[u] \in {"active", "disabled"}
  /\ DOMAIN identities \subseteq IdentityId
  /\ \A i \in DOMAIN identities :
       identities[i] \in Identity /\ identities[i].user \in DOMAIN users
  /\ DOMAIN identityKeys \subseteq Key
  /\ \A k \in DOMAIN identityKeys : identityKeys[k] \in IdentityId
  /\ DOMAIN credentials \subseteq CredentialId
  /\ \A c \in DOMAIN credentials :
       credentials[c] \in Credential /\ credentials[c].user \in DOMAIN users
  /\ DOMAIN credentialKeys \subseteq Email
  /\ \A e \in DOMAIN credentialKeys : credentialKeys[e] \in CredentialId
  /\ DOMAIN credentialUserKeys \subseteq UserId
  /\ \A u \in DOMAIN credentialUserKeys : credentialUserKeys[u] \in CredentialId
  /\ DOMAIN sessions \subseteq SessionId
  /\ \A s \in DOMAIN sessions : sessions[s] \in Session /\ sessions[s].user \in DOMAIN users
  /\ mergeLog \subseteq MergeEvent
  /\ \A e \in mergeLog : e.source \in DOMAIN users

\* The indexes name exactly the stored records: a lookup by provider key, by
\* e-mail or by user finds the record, and the only one, that has it
\* (store.ts keeps them by hand in create and update, also when a merge moves
\* a credential from one user to another).
IndexesAgree ==
  /\ \A k \in DOMAIN identityKeys :
       identityKeys[k] \in DOMAIN identities /\ identities[identityKeys[k]].key = k
  /\ \A i \in DOMAIN identities :
       identities[i].key \in DOMAIN identityKeys /\ identityKeys[identities[i].key] = i
  /\ \A e \in DOMAIN credentialKeys :
       credentialKeys[e] \in DOMAIN credentials /\ credentials[credentialKeys[e]].subject = e
  /\ \A u \in DOMAIN credentialUserKeys :
       credentialUserKeys[u] \in DOMAIN credentials /\ credentials[credentialUserKeys[u]].user = u
  /\ \A c \in DOMAIN credentials :
       /\ credentials[c].subject \in DOMAIN credentialKeys
       /\ credentialKeys[credentials[c].subject] = c
       /\ credentials[c].user \in DOMAIN credentialUserKeys
       /\ credentialUserKeys[credentials[c].user] = c

\* Nobody is locked out: an active account always has an active sign-in
\* identity, whatever it linked, unlinked, merged or had merged into it.  A
\* closed account has one too, so it is never taken for a merged one.
NeverLockedOut ==
  \A u \in DOMAIN users :
    ActiveIdentitiesOf(u) # {} \/ \E e \in mergeLog : e.source = u /\ e.decision = "merged"

\* Closing or merging an account ends all its sessions, and no later sign-in
\* or issued session brings one back (current-account-actions.ts, merge-support.ts).
EndedAccountHasNoSession ==
  \A u \in DOMAIN users : users[u] = "disabled" => ActiveSessionsOf(u) = {}

\* The password credential of an e-mail and the identity of that e-mail stay
\* with one account through merges: where the identity is active, both name
\* the same user, so a password never signs in to somebody else's account.
PasswordFollowsIdentity ==
  \A c \in DOMAIN credentials :
    LET e == credentials[c].subject
    IN  /\ e \in DOMAIN identityKeys
        /\ LinkedAndActive(e) => identities[identityKeys[e]].user = credentials[c].user

\* The idempotent answer of mergeAccounts is only given for a source that a
\* merge really emptied; a closed account is not reported as merged.
RetryOnlyAfterMerge ==
  \A e \in mergeLog :
    e.decision = "already-merged" =>
      \E m \in mergeLog : m.decision = "merged" /\ m.source = e.source

\* A merged account is disabled and keeps nothing a sign-in could reach.
MergedAccountIsEmpty ==
  \A e \in mergeLog : e.decision = "merged" => ~ActiveUser(e.source) /\ LooksMerged(e.source)

-----------------------------------------------------------------------------
\* An account ends only under an unrevoked session of its own, and ends whole:
\* its active identities and its credentials either all stay with it (close) or
\* all go to one account that remains active (merge).
EndsWhole ==
  \A u \in DOMAIN users :
    (ActiveUser(u) /\ ~ActiveUser(u)') =>
      /\ ActiveSessionsOf(u) # {}
      /\ \E w \in DOMAIN users :
           /\ w = u \/ ActiveUser(w)'
           /\ \A i \in ActiveIdentitiesOf(u) : i \in ActiveIdentitiesOf(w)'
           /\ \A c \in CredentialsOf(u) : c \in CredentialsOf(w)'
AccountsEndWhole == [][EndsWhole]_vars

\* Nothing that was ended comes back: disabled users and identities and
\* revoked sessions stay so, and no record leaves the store.
Ended ==
  /\ \A u \in DOMAIN users : u \in DOMAIN users' /\ (users[u] = "disabled" => ~ActiveUser(u)')
  /\ \A i \in DOMAIN identities :
       i \in DOMAIN identities'
       /\ (identities[i].status = "disabled" => identities'[i] = identities[i])
  /\ \A s \in DOMAIN sessions :
       s \in DOMAIN sessions'
       /\ (sessions[s].status = "revoked" => sessions'[s].status = "revoked")
NothingRevives == [][Ended]_vars

\* A sign-in that attaches a new identity to an existing account has verified
\* evidence that points at that account and at no other, open or closed.
Unambiguous ==
  (identities' # identities /\ sessions' # sessions /\ users' = users) =>
    \A i \in DOMAIN identities' \ DOMAIN identities :
      LET u == identities'[i].user
      IN  /\ \E j \in ActiveIdentitiesOf(u) :
               identities[j].verified \cap identities'[i].verified # {}
          /\ \A w \in DOMAIN users \ {u} : \A j \in ActiveIdentitiesOf(w) :
               identities[j].verified \cap identities'[i].verified = {}
AutoLinkIsUnambiguous == [][Unambiguous]_vars

-----------------------------------------------------------------------------
(* Who may sign in as whom, as module Ownership describes it: identities   *)
(* and credentials count by their keys, sessions until they are revoked.   *)

OpenAccounts == {u \in DOMAIN users : users[u] = "active"}
EndedAccounts == {u \in DOMAIN users : users[u] = "disabled"}

KeyHolders(K) == [k \in K |-> identities[identityKeys[k]].user]
Holder == KeyHolders({k \in DOMAIN identityKeys : LinkedAndActive(k)})
Retired == KeyHolders({k \in DOMAIN identityKeys : ~LinkedAndActive(k)})
PasswordHolder == [e \in DOMAIN credentialKeys |-> credentials[credentialKeys[e]].user]

SignedIn == [s \in {t \in DOMAIN sessions : sessions[t].status = "active"} |-> sessions[s].user]
SignedOut == {s \in DOMAIN sessions : sessions[s].status = "revoked"}

Owners == INSTANCE Ownership WITH
  Account <- UserId, Session <- SessionId,
  open <- OpenAccounts, ended <- EndedAccounts,
  holder <- Holder, retired <- Retired, password <- PasswordHolder,
  signedIn <- SignedIn, signedOut <- SignedOut

\* Through whatever operations and in whatever order, the store's records say
\* who may sign in as whom the way Ownership allows: keys are taken once, given
\* up for good or moved with the whole account, and ended accounts keep quiet
\* (sign-in.ts, link.ts, merge.ts, passwords, sessions, current-account-actions.ts).
ImplementsOwnership == Owners!Spec
=============================================================================
