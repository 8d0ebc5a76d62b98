----------------------------- MODULE LinkSignIn -----------------------------
(***************************************************************************)
(* Sign-in by e-mail link, and the unlinking of identities, one repository *)
(* call at a time.  With a store that offers run, operations queue for     *)
(* their transaction and a failing one is undone; without one, run is the  *)
(* operation itself (immediateUnitOfWork): steps of different calls        *)
(* interleave and what a failing call has done stays.                      *)
(* Every call of the model performs one operation.  Auto-link is off, as   *)
(* by default; closing and merging accounts are in Accounts.               *)
(***************************************************************************)
EXTENDS Naturals, Sequences, FiniteSets

CONSTANTS
  Call, LinkId, User,
  Key,             \* provider and normalised id of an identity
  LinkKey,         \* the ones of the e-mail-link provider: addresses
  Ttl, Cooldown,   \* of links
  MaxTime,         \* bound of the clock
  None

ASSUME NumbersNatural == Ttl \in Nat /\ Cooldown \in Nat /\ MaxTime \in Nat
ASSUME LinksReachIdentities == LinkKey \subseteq Key
ASSUME NoneIsNoValue == None \notin Call \cup LinkId \cup User \cup Key

VARIABLES
  now,       \* clock
  isolated,  \* whether the store offers run; fixed
  store,     \* the repositories: links, users, identities, sessions
  queue,     \* calls waiting for their transaction, in order
  turn,      \* the call whose transaction runs
  saved,     \* its snapshot of the store
  calls      \* the local state of each call

vars == <<now, isolated, store, queue, turn, saved, calls>>

Committed == IF turn = None THEN store ELSE saved
Atomic == INSTANCE AtomicSignIn WITH store <- Committed
Current == INSTANCE AtomicSignIn

Identity == [key : Key, user : User, active : BOOLEAN]
Store == [links : UNION {[L -> Current!Link] : L \in SUBSET LinkId}, users : SUBSET User,
          identities : SUBSET Identity,
          sessions : SUBSET [user : User, link : LinkId, by : Call]]

\* Where a call is: which repository call or await comes next.
InTransaction == {"read", "consume", "find", "newUser", "newIdentity", "session", "create",
                  "expire", "disable"}
Local == [at : {"idle", "limiter", "queued", "done"} \cup InTransaction,
          op : {"start", "finish", "resend", "cancel", "unlink", "none"},
          link : LinkId \cup {None}, key : Key \cup {None}, user : User \cup {None},
          time : 0..MaxTime]

Idle == [at |-> "idle", op |-> "none", link |-> None, key |-> None, user |-> None, time |-> 0]
Done == [Idle EXCEPT !.at = "done"]

Fresh(S) == CHOOSE x \in S : TRUE

-----------------------------------------------------------------------------
\* Call c goes on from place p of one of the operations ops to place q.
Moves(c, ops, p, q) ==
  /\ calls[c].at = p /\ calls[c].op \in ops
  /\ calls' = [calls EXCEPT ![c].at = q]
  /\ UNCHANGED <<now, isolated, queue, turn, saved>>

\* The operation returns at place p; its transaction, if it has one, is committed.
Returns(c, ops, p) ==
  /\ calls[c].at = p /\ calls[c].op \in ops
  /\ calls' = [calls EXCEPT ![c] = Done]
  /\ turn' = None /\ saved' = None
  /\ UNCHANGED <<now, isolated, queue>>

\* Faulty variant: a failing operation is not undone.
FailKeepsWrites(c) ==
  /\ calls[c].at \in InTransaction
  /\ calls' = [calls EXCEPT ![c] = Done]
  /\ turn' = None /\ saved' = None
  /\ UNCHANGED <<now, isolated, store, queue>>

\* It throws: what its transaction did is undone, without one it stays.
Fail(c) ==
  /\ calls[c].at \in InTransaction
  /\ calls' = [calls EXCEPT ![c] = Done]
  /\ store' = IF isolated THEN saved ELSE store
  /\ turn' = None /\ saved' = None
  /\ UNCHANGED <<now, isolated, queue>>

-----------------------------------------------------------------------------
\* The call is made: it stops at the rate limiter, or goes on to the queue.
Called(c, local) ==
  /\ calls[c].at = "idle"
  /\ calls' = [calls EXCEPT ![c] = local]
Queues(c) ==
  /\ queue' = IF isolated THEN Append(queue, c) ELSE queue
  /\ UNCHANGED <<now, isolated, store, turn, saved>>

\* With a rate limiter in front the clock is read before it.
StartEmailMagicLink(c, key) ==
  /\ Called(c, [Idle EXCEPT !.at = "limiter", !.op = "start", !.key = key, !.time = now])
  /\ UNCHANGED <<now, isolated, store, queue, turn, saved>>

FinishEmailMagicLink(c, l) ==
  /\ l \in DOMAIN store.links
  /\ Called(c, [Idle EXCEPT !.at = "limiter", !.op = "finish", !.link = l, !.time = now])
  /\ UNCHANGED <<now, isolated, store, queue, turn, saved>>

Admit(c) ==
  /\ calls[c].at = "limiter"
  /\ calls' = [calls EXCEPT ![c].at = "queued"]
  /\ Queues(c)

Limited(c) ==
  /\ calls[c].at = "limiter"
  /\ calls' = [calls EXCEPT ![c] = Done]
  /\ UNCHANGED <<now, isolated, store, queue, turn, saved>>

\* A resend reads the clock as it queues, a cancellation inside its transaction.
ResendEmailMagicLink(c, l) ==
  /\ l \in DOMAIN store.links
  /\ Called(c, [Idle EXCEPT !.at = "queued", !.op = "resend", !.link = l, !.time = now])
  /\ Queues(c)

CancelEmailMagicLink(c, l) ==
  /\ l \in DOMAIN store.links
  /\ Called(c, [Idle EXCEPT !.at = "queued", !.op = "cancel", !.link = l])
  /\ Queues(c)

Unlink(c, i) ==
  /\ i \in store.identities
  /\ Called(c, [Idle EXCEPT !.at = "queued", !.op = "unlink", !.key = i.key, !.user = i.user])
  /\ Queues(c)

\* The first place of the operation, and the time it acts under.
Entered(local) ==
  [local EXCEPT !.at = IF local.op = "start" THEN "create" ELSE "read",
                !.time = IF local.op = "cancel" THEN now ELSE @]

\* Faulty variant: the call does not wait for the one before it.
EnterAtOnce(c) ==
  /\ calls[c].at = "queued"
  /\ calls' = [calls EXCEPT ![c] = Entered(@)]
  /\ IF isolated
     THEN /\ queue # << >> /\ c = Head(queue) /\ queue' = Tail(queue)
          /\ turn' = c /\ saved' = store
     ELSE UNCHANGED <<queue, turn, saved>>
  /\ UNCHANGED <<now, isolated, store>>

\* run of the store, or immediateUnitOfWork.
Enter(c) ==
  /\ calls[c].at = "queued"
  /\ calls' = [calls EXCEPT ![c] = Entered(@)]
  /\ IF isolated
     THEN /\ turn = None /\ queue # << >> /\ c = Head(queue) /\ queue' = Tail(queue)
          /\ turn' = c /\ saved' = store
     ELSE UNCHANGED <<queue, turn, saved>>
  /\ UNCHANGED <<now, isolated, store>>

-----------------------------------------------------------------------------
Exists(c) == calls[c].link \in DOMAIN store.links
Usable(c) == Exists(c) /\ Current!isUsable(store.links, calls[c].link, calls[c].time)
ActiveOf(u) == Current!ActiveOf(store.identities, u)
NewLink(c, replaced) == Current!NewLink(calls[c].key, calls[c].time, replaced)

\* The call reads its link, and goes on with the address the link was sent to.
ReadsLink(c, q) ==
  /\ calls[c].at = "read" /\ Exists(c)
  /\ calls' = [calls EXCEPT ![c].at = q, ![c].key = store.links[calls[c].link].key]
  /\ UNCHANGED <<now, isolated, store, queue, turn, saved>>

\* Faulty variant: whether the link was used before is not looked at.
ReadLinkUnused(c) ==
  /\ calls[c].op = "finish" /\ ReadsLink(c, "consume")
  /\ calls[c].time < store.links[calls[c].link].expiresAt

\* consumeVerificationRecord reads the link; then the secret is compared.
ReadLink(c) ==
  /\ calls[c].op = "finish" /\ ReadsLink(c, "consume")
  /\ Usable(c)

ConsumeLink(c) ==
  /\ Moves(c, {"finish"}, "consume", "find")
  /\ store' = [store EXCEPT !.links[calls[c].link].consumed = TRUE]

\* signInWithAssertion: the identity of the address and its user are read.
FindIdentity(c) ==
  /\ calls[c].at = "find"
  /\ LET own == {i \in store.identities : i.key = calls[c].key /\ i.active}
     IN  IF own = {} THEN calls' = [calls EXCEPT ![c].at = "newUser"]
         ELSE \E i \in own :
                calls' = [calls EXCEPT ![c].at = "session", ![c].user = i.user]
  /\ UNCHANGED <<now, isolated, store, queue, turn, saved>>

CreateUser(c) ==
  /\ calls[c].at = "newUser" /\ User \ store.users # {}
  /\ LET u == Fresh(User \ store.users)
     IN  /\ calls' = [calls EXCEPT ![c].at = "newIdentity", ![c].user = u]
         /\ store' = [store EXCEPT !.users = @ \cup {u}]
  /\ UNCHANGED <<now, isolated, queue, turn, saved>>

Own(c) == [key |-> calls[c].key, user |-> calls[c].user, active |-> TRUE]

\* Faulty variant: the key is not checked again when the identity is stored.
CreateIdentityUnchecked(c) ==
  /\ Moves(c, {"finish"}, "newIdentity", "session")
  /\ store' = [store EXCEPT !.identities = @ \cup {Own(c)}]
\* Faulty variant: that the key is taken is passed over.
CreateIdentityOrNot(c) ==
  /\ Moves(c, {"finish"}, "newIdentity", "session")
  /\ store' = IF \A i \in store.identities : i.key # calls[c].key
              THEN [store EXCEPT !.identities = @ \cup {Own(c)}] ELSE store

\* A key that is taken, if only by a disabled identity, is an error.
CreateIdentity(c) ==
  /\ Moves(c, {"finish"}, "newIdentity", "session")
  /\ \A i \in store.identities : i.key # calls[c].key
  /\ store' = [store EXCEPT !.identities = @ \cup {Own(c)}]

CreateSession(c) ==
  /\ Returns(c, {"finish"}, "session")
  /\ store' = [store EXCEPT !.sessions =
       @ \cup {[user |-> calls[c].user, link |-> calls[c].link, by |-> c]}]

\* createVerificationRecord of a start.
CreateLink(c) ==
  /\ Returns(c, {"start"}, "create")
  /\ LinkId \ DOMAIN store.links # {}
  /\ store' = [store EXCEPT !.links =
       Current!Put(@, Fresh(LinkId \ DOMAIN store.links), NewLink(c, None))]

ReadForResend(c) ==
  /\ calls[c].op = "resend" /\ ReadsLink(c, "create")
  /\ Current!ResendAllowed(store.links, calls[c].link, calls[c].time)

\* The new link first, then the end of the old one.
CreateReplacement(c) ==
  /\ Moves(c, {"resend"}, "create", "expire")
  /\ LinkId \ DOMAIN store.links # {}
  /\ store' = [store EXCEPT !.links =
       Current!Put(@, Fresh(LinkId \ DOMAIN store.links), NewLink(c, calls[c].link))]

ReadForCancel(c) ==
  /\ Moves(c, {"cancel"}, "read", "expire") /\ UNCHANGED store
  /\ Usable(c)

ExpireLink(c) ==
  /\ Returns(c, {"resend", "cancel"}, "expire")
  /\ store' = [store EXCEPT !.links[calls[c].link].expiresAt = calls[c].time]

\* The user's identities are read, and the policy is asked.
ReadForUnlink(c) ==
  /\ Moves(c, {"unlink"}, "read", "disable") /\ UNCHANGED store
  /\ Own(c) \in store.identities
  /\ Cardinality(ActiveOf(calls[c].user)) > 1

\* Faulty variant: the number of identities read before is relied on.
DisableUnchecked(c) ==
  /\ Returns(c, {"unlink"}, "disable")
  /\ Own(c) \in store.identities
  /\ store' = [store EXCEPT !.identities = (@ \ {Own(c)}) \cup {[Own(c) EXCEPT !.active = FALSE]}]

\* disableForUserIfAnotherActive looks again, and is one step.
Disable(c) ==
  /\ Returns(c, {"unlink"}, "disable")
  /\ Own(c) \in store.identities
  /\ Cardinality(ActiveOf(calls[c].user)) > 1
  /\ store' = [store EXCEPT !.identities = (@ \ {Own(c)}) \cup {[Own(c) EXCEPT !.active = FALSE]}]

Tick ==
  /\ now < MaxTime
  /\ now' = now + 1
  /\ UNCHANGED <<isolated, store, queue, turn, saved, calls>>

-----------------------------------------------------------------------------
\* Links were sent just before; some keys have an identity, with its user.
Init ==
  /\ now = 0 /\ isolated \in BOOLEAN
  /\ \E holders \in [Key -> User \cup {None}], sent \in SUBSET LinkId :
     \E to \in [sent -> LinkKey] :
       store = [links |-> [l \in sent |-> Current!NewLink(to[l], 0, None)],
                users |-> {holders[k] : k \in Key} \ {None},
                identities |-> {[key |-> k, user |-> holders[k], active |-> TRUE] :
                                  k \in {k \in Key : holders[k] # None}},
                sessions |-> {}]
  /\ queue = << >> /\ turn = None /\ saved = None
  /\ calls = [c \in Call |-> Idle]

Begins(c) ==
  \/ \E key \in LinkKey : StartEmailMagicLink(c, key)
  \/ \E l \in LinkId : FinishEmailMagicLink(c, l)
  \/ \E l \in LinkId : ResendEmailMagicLink(c, l)
  \/ \E l \in LinkId : CancelEmailMagicLink(c, l)
  \/ \E i \in store.identities : Unlink(c, i)

\* The repository calls.
Acts(c) ==
  \/ ReadLink(c)
  \/ ConsumeLink(c)
  \/ FindIdentity(c)
  \/ CreateUser(c)
  \/ CreateIdentity(c)
  \/ CreateSession(c)
  \/ CreateLink(c)
  \/ ReadForResend(c)
  \/ CreateReplacement(c)
  \/ ReadForCancel(c)
  \/ ExpireLink(c)
  \/ ReadForUnlink(c)
  \/ Disable(c)

Next ==
  \/ \E c \in Call :
       \/ Begins(c)
       \/ Admit(c)
       \/ Limited(c)
       \/ Enter(c)
       \/ Acts(c)
       \/ Fail(c)
  \/ Tick

Spec == Init /\ [][Next]_vars

-----------------------------------------------------------------------------
\* Well-formed records; the queue holds the calls that wait, each once, and
\* exactly the call whose turn it is stands inside a transaction.
TypeOK ==
  /\ now \in 0..MaxTime /\ isolated \in BOOLEAN
  /\ store \in Store
  /\ calls \in [Call -> Local]
  /\ queue \in Seq(Call)
  /\ \A m, n \in 1..Len(queue) : queue[m] = queue[n] => m = n
  /\ isolated => {queue[n] : n \in 1..Len(queue)} = {c \in Call : calls[c].at = "queued"}
  /\ isolated => {c \in Call : calls[c].at \in InTransaction} = {turn} \ {None}
  /\ (turn = None /\ saved = None) \/ (turn \in Call /\ saved \in Store /\ isolated)

\* Two calls that sign in a new address at once, even without transactions,
\* never both create its identity.
OneIdentityPerKey ==
  \A i, j \in store.identities : i.key = j.key => i = j

\* Unlinks of different identities at once, even without transactions, never
\* take the last one of an account.
NeverLockedOut ==
  \A i \in store.identities : ActiveOf(i.user) # {}

\* A session belongs to the user who has the identity of the address its link
\* was sent to, and that link is used up.
SignedInByOwnLink ==
  \A s \in store.sessions :
    /\ s.link \in DOMAIN store.links /\ store.links[s.link].consumed
    /\ \E i \in store.identities : i.user = s.user /\ i.key = store.links[s.link].key

\* With transactions, two finishes of one link never both sign in.
OneSessionPerLink ==
  isolated => \A s, r \in store.sessions : s.link = r.link => s = r

\* With transactions, whatever interleaves and fails, the store only changes
\* by whole operations: what is committed implements AtomicSignIn.
ImplementsAtomic == [][isolated => Atomic!Next]_<<Committed>>

-----------------------------------------------------------------------------
\* The committed links without their addresses.
Lifetimes ==
  [l \in DOMAIN Committed.links |->
     [status |-> IF Committed.links[l].consumed THEN "consumed" ELSE "pending",
      createdAt |-> Committed.links[l].createdAt, expiresAt |-> Committed.links[l].expiresAt,
      replaces |-> Committed.links[l].replaces]]
Contract == INSTANCE Verifications WITH Id <- LinkId, records <- Lifetimes

\* With transactions, what is committed of the links keeps the contract of
\* one-time challenges, although a replacement is two writes (magic-link.ts).
KeepsContract == isolated => Contract!Spec
=============================================================================
