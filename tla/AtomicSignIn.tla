---------------------------- MODULE AtomicSignIn ----------------------------
(***************************************************************************)
(* What the operations on e-mail sign-in links and identities promise when *)
(* each is one indivisible change of the store: the granularity at which   *)
(* Accounts, Challenges and CurrentAccount look at the service.            *)
(***************************************************************************)
EXTENDS Naturals, FiniteSets

CONSTANTS Call, LinkId, Key, User, Ttl, Cooldown, MaxTime, None

VARIABLES now, store

Time == 0..MaxTime

\* replaces is history: the link a resend has replaced by this one.
Link == [key : Key, consumed : BOOLEAN, createdAt : Time, expiresAt : 0..(MaxTime + Ttl),
         replaces : LinkId \cup {None}]

\* isUsableVerification and the resend window, at time t.
isUsable(links, l, t) == ~links[l].consumed /\ t < links[l].expiresAt
ResendAllowed(links, l, t) == isUsable(links, l, t) /\ links[l].createdAt + Cooldown <= t

Put(f, k, v) == [x \in DOMAIN f \cup {k} |-> IF x = k THEN v ELSE f[x]]
NewLink(key, t, replaced) ==
  [key |-> key, consumed |-> FALSE, createdAt |-> t, expiresAt |-> t + Ttl, replaces |-> replaced]

ActiveOf(identities, u) == {i \in identities : i.user = u /\ i.active}

-----------------------------------------------------------------------------
Start(key, t, l) ==
  /\ l \notin DOMAIN store.links
  /\ store' = [store EXCEPT !.links = Put(@, l, NewLink(key, t, None))]

\* A link is used up and a session opened, both or neither: for the user who
\* has the identity, or for a new one when nobody ever had it.
Finish(l, t, u, c) ==
  /\ l \in DOMAIN store.links /\ isUsable(store.links, l, t)
  /\ LET key == store.links[l].key
         own == [key |-> key, user |-> u, active |-> TRUE]
     IN  /\ \/ own \in store.identities
            \/ u \notin store.users /\ \A i \in store.identities : i.key # key
         /\ store' = [links |-> [store.links EXCEPT ![l].consumed = TRUE],
                      users |-> store.users \cup {u},
                      identities |-> store.identities \cup {own},
                      sessions |-> store.sessions \cup {[user |-> u, link |-> l, by |-> c]}]

\* At any time at most one successor takes the place of a link.
Resend(l, t, new) ==
  /\ l \in DOMAIN store.links /\ ResendAllowed(store.links, l, t)
  /\ new \notin DOMAIN store.links
  /\ \A x \in DOMAIN store.links : store.links[x].replaces # l
  /\ store' = [store EXCEPT !.links =
       Put([@ EXCEPT ![l].expiresAt = t], new, NewLink(store.links[l].key, t, l))]

Cancel(l, t) ==
  /\ l \in DOMAIN store.links /\ isUsable(store.links, l, t)
  /\ store' = [store EXCEPT !.links[l].expiresAt = t]

Unlink(i) ==
  /\ i \in store.identities /\ i.active
  /\ Cardinality(ActiveOf(store.identities, i.user)) > 1
  /\ store' = [store EXCEPT !.identities = (@ \ {i}) \cup {[i EXCEPT !.active = FALSE]}]

Next ==
  \/ \E t \in 0..now :
       \/ \E key \in Key, l \in LinkId : Start(key, t, l)
       \/ \E l \in LinkId, u \in User, c \in Call : Finish(l, t, u, c)
       \/ \E l, new \in LinkId : Resend(l, t, new)
       \/ \E l \in LinkId : Cancel(l, t)
  \/ \E i \in store.identities : Unlink(i)

=============================================================================
