-------------------------- MODULE LinkSignIn_proofs --------------------------
(***************************************************************************)
(* Proofs about LinkSignIn, for any calls, links, users, keys and times.   *)
(*                                                                         *)
(* Whether transactions exist or not, what a call has read about its link  *)
(* and its user stays true: the other calls only add to the store, or      *)
(* disable identities (Keeps).  With transactions, Progress says how far   *)
(* the running call has brought the store from its snapshot, and so which  *)
(* operation of AtomicSignIn its last step commits.                        *)
(***************************************************************************)
EXTENDS LinkSignIn, SequenceTheorems, FiniteSetTheorems, TLAPS

-----------------------------------------------------------------------------
(* What holds of the store, at any moment and of a snapshot. *)

\* Every identity has a user, an active identity next to it if it is disabled
\* itself, and no other identity has its key.
IdentitiesSound(st) ==
  /\ \A i \in st.identities : i.user \in st.users
  /\ \A i, j \in st.identities : i.key = j.key => i = j
  /\ \A i \in st.identities : \E j \in st.identities : j.user = i.user /\ j.active

\* A session was opened with a link that is used up, for whom its address is.
Opened(st, l, u) ==
  /\ l \in DOMAIN st.links /\ st.links[l].consumed
  /\ \E i \in st.identities : i.user = u /\ i.key = st.links[l].key

SessionsSound(st) == \A s \in st.sessions : Opened(st, s.link, s.user)

Sound(st) == IdentitiesSound(st) /\ SessionsSound(st)

\* One link, one session.
UsedOnce(st) == \A s, r \in st.sessions : s.link = r.link => s = r

\* The link that x replaces has come to its end before any resend that is left
\* acts, and before now.
ReplacedEnded(st) ==
  \A x \in DOMAIN st.links : LET l == st.links[x].replaces IN
    l # None =>
      /\ l \in DOMAIN st.links /\ st.links[l].expiresAt <= now
      /\ \A d \in Call : calls[d].op = "resend" => st.links[l].expiresAt <= calls[d].time

-----------------------------------------------------------------------------
(* What holds of the calls. *)

\* The places of each operation.
Places(op) ==
  CASE op = "finish" -> {"read", "consume", "find", "newUser", "newIdentity", "session"}
    [] op = "start"  -> {"create"}
    [] op = "resend" -> {"read", "create", "expire"}
    [] op = "cancel" -> {"read", "expire"}
    [] op = "unlink" -> {"read", "disable"}
    [] op = "none"   -> {}

\* What a call has read and not lost since, with transactions and without.
CallKnows(c) ==
  LET me == calls[c] IN
  /\ me.at \in InTransaction => me.at \in Places(me.op)
  /\ me.at \in {"idle", "done"} <=> me.op = "none"
  /\ me.at = "limiter" => me.op \in {"start", "finish"}
  /\ me.time <= now
  /\ me.op \in {"start", "unlink"} => me.key \in Key
  /\ me.op \in {"finish", "resend", "cancel"} => me.link \in LinkId
  /\ me.op = "unlink" => me.user \in User
  /\ me.at \in {"consume", "find", "newUser", "newIdentity", "session", "create", "expire"}
       /\ me.op # "start" => me.link \in DOMAIN store.links
  /\ me.at \in {"consume", "find", "newUser", "newIdentity", "session"}
       \/ (me.op = "resend" /\ me.at \in {"create", "expire"})
     => me.key = store.links[me.link].key
  /\ me.at \in {"find", "newUser", "newIdentity", "session"} => store.links[me.link].consumed
  /\ me.at \in {"newIdentity", "session"} => me.user \in store.users
  /\ me.at = "session" => Opened(store, me.link, me.user)

\* Resends queue in the order of their times.
Behind(c, d) ==
  \/ turn = c /\ \E n \in 1..Len(queue) : queue[n] = d
  \/ \E m, n \in 1..Len(queue) : m < n /\ queue[m] = c /\ queue[n] = d
QueueTimes ==
  \A c, d \in Call :
    Behind(c, d) /\ calls[c].op = "resend" /\ calls[d].op = "resend"
      => calls[c].time <= calls[d].time

-----------------------------------------------------------------------------
(* How far the call whose transaction runs has brought the store from saved. *)

UsableThen(c) ==
  /\ calls[c].link \in DOMAIN saved.links
  /\ Current!isUsable(saved.links, calls[c].link, calls[c].time)
  /\ calls[c].key = saved.links[calls[c].link].key

UsedUp(c) == [saved EXCEPT !.links[calls[c].link].consumed = TRUE]
Known(c) == Own(c) \in saved.identities
NewHere(c) == calls[c].user \notin saved.users /\ \A i \in saved.identities : i.key # calls[c].key

FinishProgress(c) ==
  LET at == calls[c].at IN
  /\ at # "read" => UsableThen(c)
  /\ at \in {"read", "consume"} => store = saved
  /\ at \in {"find", "newUser"} => store = UsedUp(c)
  /\ at = "newIdentity" =>
       /\ calls[c].user \notin saved.users
       /\ store = [UsedUp(c) EXCEPT !.users = @ \cup {calls[c].user}]
  /\ at = "session" =>
       \/ Known(c) /\ store = UsedUp(c)
       \/ /\ NewHere(c)
          /\ store = [UsedUp(c) EXCEPT !.users = @ \cup {calls[c].user},
                                       !.identities = @ \cup {Own(c)}]

ReplaceableThen(c) ==
  /\ calls[c].link \in DOMAIN saved.links
  /\ Current!ResendAllowed(saved.links, calls[c].link, calls[c].time)

ResendProgress(c) ==
  LET at == calls[c].at IN
  /\ at # "read" => ReplaceableThen(c) /\ calls[c].key = saved.links[calls[c].link].key
  /\ at # "expire" => store = saved
  /\ at = "expire" =>
       \E l \in LinkId \ DOMAIN saved.links :
         store = [saved EXCEPT !.links = Current!Put(@, l, NewLink(c, calls[c].link))]

CancelProgress(c) ==
  /\ store = saved
  /\ calls[c].at = "expire" =>
       /\ calls[c].link \in DOMAIN saved.links
       /\ Current!isUsable(saved.links, calls[c].link, calls[c].time)

ProgressOf(c) ==
  /\ calls[c].op = "finish" => FinishProgress(c)
  /\ calls[c].op = "resend" => ResendProgress(c)
  /\ calls[c].op = "cancel" => CancelProgress(c)
  /\ calls[c].op \in {"start", "unlink"} => store = saved

Progress == \A c \in Call : turn = c => ProgressOf(c)

\* The part that needs no transactions, and the part that is about them.
Reliable ==
  /\ TypeOK
  /\ \A c \in Call : CallKnows(c)
  /\ Sound(store) /\ Sound(Committed)

Transactional ==
  UsedOnce(Committed) /\ ReplacedEnded(Committed) /\ QueueTimes /\ Progress

Inv == Reliable /\ (isolated => Transactional)

-----------------------------------------------------------------------------
(* Stores and their parts. *)

Link == Current!Link
Links == UNION {[L -> Link] : L \in SUBSET LinkId}
Session == [user : User, link : LinkId, by : Call]

LEMMA LinksParts ==
  ASSUME NEW f \in Links
  PROVE  DOMAIN f \subseteq LinkId /\ f \in [DOMAIN f -> Link]
BY DEF Links

LEMMA LinksFrom ==
  ASSUME NEW D \in SUBSET LinkId, NEW f \in [D -> Link]
  PROVE  f \in Links
BY DEF Links

LEMMA StoreParts ==
  ASSUME NEW st \in Store
  PROVE  /\ st.links \in Links /\ st.users \in SUBSET User
         /\ st.identities \in SUBSET Identity /\ st.sessions \in SUBSET Session
         /\ st = [links |-> st.links, users |-> st.users,
                  identities |-> st.identities, sessions |-> st.sessions]
BY DEF Store, Links, Link, Session

LEMMA StoreFrom ==
  ASSUME NEW l \in Links, NEW u \in SUBSET User,
         NEW i \in SUBSET Identity, NEW s \in SUBSET Session
  PROVE  [links |-> l, users |-> u, identities |-> i, sessions |-> s] \in Store
BY DEF Store, Links, Link, Session

\* One part of a store is replaced.
LEMMA StoreWith ==
  ASSUME NEW st \in Store, NEW x
  PROVE  /\ [st EXCEPT !.links = x] = [links |-> x, users |-> st.users,
               identities |-> st.identities, sessions |-> st.sessions]
         /\ [st EXCEPT !.users = x] = [links |-> st.links, users |-> x,
               identities |-> st.identities, sessions |-> st.sessions]
         /\ [st EXCEPT !.identities = x] = [links |-> st.links, users |-> st.users,
               identities |-> x, sessions |-> st.sessions]
         /\ [st EXCEPT !.sessions = x] = [links |-> st.links, users |-> st.users,
               identities |-> st.identities, sessions |-> x]
BY DEF Store

LEMMA LinkNumbers ==
  ASSUME NEW r \in Link
  PROVE  /\ r.key \in Key /\ r.consumed \in BOOLEAN
         /\ r.createdAt \in Nat /\ r.expiresAt \in Nat
         /\ r.replaces \in LinkId \cup {None}
BY NumbersNatural DEF Link, Current!Link, Current!Time

LEMMA FreshIsIn ==
  ASSUME NEW S, S # {}
  PROVE  Fresh(S) \in S
BY DEF Fresh

\* A new link is put into the links.
LEMMA NewLinkTyped ==
  ASSUME NEW key \in Key, NEW t \in 0..MaxTime, NEW replaced \in LinkId \cup {None}
  PROVE  /\ Current!NewLink(key, t, replaced) \in Link
         /\ Current!NewLink(key, t, replaced).replaces = replaced
<1>1. t + Ttl \in 0..(MaxTime + Ttl)
  BY NumbersNatural
<1> QED
  BY <1>1 DEF Link, Current!Link, Current!NewLink, Current!Time

LEMMA PutLink ==
  ASSUME NEW f \in Links, NEW l \in LinkId \ DOMAIN f, NEW r \in Link
  PROVE  /\ Current!Put(f, l, r) \in Links
         /\ DOMAIN Current!Put(f, l, r) = DOMAIN f \cup {l}
         /\ Current!Put(f, l, r)[l] = r
         /\ \A x \in DOMAIN f : Current!Put(f, l, r)[x] = f[x]
<1> DEFINE g == Current!Put(f, l, r)
<1>1. DOMAIN f \subseteq LinkId /\ f \in [DOMAIN f -> Link]
  BY LinksParts
<1>2. g = [x \in DOMAIN f \cup {l} |-> IF x = l THEN r ELSE f[x]]
  BY DEF Current!Put
<1> HIDE DEF g
<1>3. g \in [DOMAIN f \cup {l} -> Link]
  BY <1>1, <1>2
<1>4. g \in Links
  BY <1>1, <1>3, LinksFrom
<1>5. DOMAIN g = DOMAIN f \cup {l} /\ g[l] = r /\ \A x \in DOMAIN f : g[x] = f[x]
  BY <1>2
<1> QED
  BY <1>4, <1>5 DEF g

\* A link is used up.
LEMMA UsedLink ==
  ASSUME NEW f \in Links, NEW l \in DOMAIN f
  PROVE  /\ [f EXCEPT ![l].consumed = TRUE] \in Links
         /\ DOMAIN [f EXCEPT ![l].consumed = TRUE] = DOMAIN f
         /\ \A x \in DOMAIN f \ {l} : [f EXCEPT ![l].consumed = TRUE][x] = f[x]
         /\ [f EXCEPT ![l].consumed = TRUE][l] = [f[l] EXCEPT !.consumed = TRUE]
         /\ [f EXCEPT ![l].consumed = TRUE][l].consumed
         /\ [f EXCEPT ![l].consumed = TRUE][l].key = f[l].key
         /\ [f EXCEPT ![l].consumed = TRUE][l].expiresAt = f[l].expiresAt
         /\ [f EXCEPT ![l].consumed = TRUE][l].replaces = f[l].replaces
<1>1. DOMAIN f \subseteq LinkId /\ f \in [DOMAIN f -> Link] /\ f[l] \in Link
  BY LinksParts
<1>2. [f[l] EXCEPT !.consumed = TRUE] \in Link
  BY <1>1 DEF Link, Current!Link
<1>3. [f EXCEPT ![l].consumed = TRUE] \in [DOMAIN f -> Link]
  BY <1>1, <1>2
<1>4. [f EXCEPT ![l].consumed = TRUE] \in Links
  BY <1>1, <1>3, LinksFrom
<1>5. f[l] = [key |-> f[l].key, consumed |-> f[l].consumed, createdAt |-> f[l].createdAt,
              expiresAt |-> f[l].expiresAt, replaces |-> f[l].replaces]
  BY <1>1 DEF Link, Current!Link
<1> QED
  BY <1>1, <1>4, <1>5

\* The time of a link is ended.
LEMMA EndedLink ==
  ASSUME NEW f \in Links, NEW l \in DOMAIN f, NEW t \in 0..MaxTime
  PROVE  /\ [f EXCEPT ![l].expiresAt = t] \in Links
         /\ DOMAIN [f EXCEPT ![l].expiresAt = t] = DOMAIN f
         /\ \A x \in DOMAIN f \ {l} : [f EXCEPT ![l].expiresAt = t][x] = f[x]
         /\ [f EXCEPT ![l].expiresAt = t][l] = [f[l] EXCEPT !.expiresAt = t]
         /\ [f EXCEPT ![l].expiresAt = t][l].expiresAt = t
         /\ [f EXCEPT ![l].expiresAt = t][l].key = f[l].key
         /\ [f EXCEPT ![l].expiresAt = t][l].consumed = f[l].consumed
         /\ [f EXCEPT ![l].expiresAt = t][l].replaces = f[l].replaces
<1>1. DOMAIN f \subseteq LinkId /\ f \in [DOMAIN f -> Link] /\ f[l] \in Link
  BY LinksParts
<1>2. [f[l] EXCEPT !.expiresAt = t] \in Link
  <2>1. t \in 0..(MaxTime + Ttl)
    BY NumbersNatural
  <2> QED
    BY <1>1, <2>1 DEF Link, Current!Link
<1>3. [f EXCEPT ![l].expiresAt = t] \in [DOMAIN f -> Link]
  BY <1>1, <1>2
<1>4. [f EXCEPT ![l].expiresAt = t] \in Links
  BY <1>1, <1>3, LinksFrom
<1>5. f[l] = [key |-> f[l].key, consumed |-> f[l].consumed, createdAt |-> f[l].createdAt,
              expiresAt |-> f[l].expiresAt, replaces |-> f[l].replaces]
  BY <1>1 DEF Link, Current!Link
<1> QED
  BY <1>1, <1>4, <1>5

-----------------------------------------------------------------------------
(* Steps of the store that keep what calls have read. *)

Keeps(st, new) ==
  /\ \A l \in DOMAIN st.links :
       /\ l \in DOMAIN new.links /\ new.links[l].key = st.links[l].key
       /\ st.links[l].consumed => new.links[l].consumed
  /\ st.users \subseteq new.users
  /\ \A i \in st.identities : \E j \in new.identities : j.key = i.key /\ j.user = i.user

\* A step that keeps, from a sound store to a sound store.
KeepsSound(st, new) == new \in Store /\ Keeps(st, new) /\ Sound(new)

LEMMA OpenedStays ==
  ASSUME NEW st, NEW new, NEW l, NEW u, Keeps(st, new), Opened(st, l, u)
  PROVE  Opened(new, l, u)
<1>1. PICK i \in st.identities : i.user = u /\ i.key = st.links[l].key
  BY DEF Opened
<1>2. PICK j \in new.identities : j.key = i.key /\ j.user = i.user
  BY DEF Keeps
<1>3. l \in DOMAIN new.links /\ new.links[l].key = st.links[l].key /\ new.links[l].consumed
  BY DEF Keeps, Opened
<1> QED
  BY <1>1, <1>2, <1>3 DEF Opened

LEMMA SameStoreKeeps ==
  ASSUME NEW st \in Store, Sound(st)
  PROVE  KeepsSound(st, st)
BY DEF KeepsSound, Keeps

LEMMA LinksChange ==
  ASSUME NEW st \in Store, Sound(st), NEW g \in Links,
         \A l \in DOMAIN st.links :
           /\ l \in DOMAIN g /\ g[l].key = st.links[l].key
           /\ st.links[l].consumed => g[l].consumed
  PROVE  KeepsSound(st, [st EXCEPT !.links = g])
<1> DEFINE new == [st EXCEPT !.links = g]
<1>1. new = [links |-> g, users |-> st.users, identities |-> st.identities,
             sessions |-> st.sessions]
  BY StoreWith
<1>2. new \in Store
  BY <1>1, StoreParts, StoreFrom
<1>3. /\ new.links = g /\ new.users = st.users
      /\ new.identities = st.identities /\ new.sessions = st.sessions
  BY <1>1
<1> HIDE DEF new
<1>4. Keeps(st, new)
  BY <1>3 DEF Keeps
<1>5. SessionsSound(new)
  BY <1>3, <1>4, OpenedStays DEF Sound, SessionsSound
<1>6. IdentitiesSound(new)
  BY <1>3 DEF Sound, IdentitiesSound
<1>7. KeepsSound(st, new)
  BY <1>2, <1>4, <1>5, <1>6 DEF KeepsSound, Sound
<1> QED
  BY <1>7 DEF new

LEMMA UserAdded ==
  ASSUME NEW st \in Store, Sound(st), NEW u \in User
  PROVE  KeepsSound(st, [st EXCEPT !.users = st.users \cup {u}])
<1> DEFINE new == [st EXCEPT !.users = st.users \cup {u}]
<1>1. new = [links |-> st.links, users |-> st.users \cup {u}, identities |-> st.identities,
             sessions |-> st.sessions]
  BY StoreWith
<1>2. new \in Store
  BY <1>1, StoreParts, StoreFrom
<1>3. /\ new.links = st.links /\ new.users = st.users \cup {u}
      /\ new.identities = st.identities /\ new.sessions = st.sessions
  BY <1>1
<1> HIDE DEF new
<1>4. Keeps(st, new)
  BY <1>3 DEF Keeps
<1>5. SessionsSound(new)
  BY <1>3, <1>4, OpenedStays DEF Sound, SessionsSound
<1>6. IdentitiesSound(new)
  BY <1>3 DEF Sound, IdentitiesSound
<1>7. KeepsSound(st, new)
  BY <1>2, <1>4, <1>5, <1>6 DEF KeepsSound, Sound
<1> QED
  BY <1>7 DEF new

LEMMA IdentityAdded ==
  ASSUME NEW st \in Store, Sound(st), NEW own \in Identity,
         own.active, own.user \in st.users, \A i \in st.identities : i.key # own.key
  PROVE  KeepsSound(st, [st EXCEPT !.identities = st.identities \cup {own}])
<1> DEFINE new == [st EXCEPT !.identities = st.identities \cup {own}]
<1>1. new = [links |-> st.links, users |-> st.users, identities |-> st.identities \cup {own},
             sessions |-> st.sessions]
  BY StoreWith
<1>2. new \in Store
  BY <1>1, StoreParts, StoreFrom
<1>3. /\ new.links = st.links /\ new.users = st.users
      /\ new.identities = st.identities \cup {own} /\ new.sessions = st.sessions
  BY <1>1
<1> HIDE DEF new
<1>4. Keeps(st, new)
  BY <1>3 DEF Keeps
<1>5. SessionsSound(new)
  BY <1>3, <1>4, OpenedStays DEF Sound, SessionsSound
<1>6. IdentitiesSound(new)
  BY <1>3 DEF Sound, IdentitiesSound
<1>7. KeepsSound(st, new)
  BY <1>2, <1>4, <1>5, <1>6 DEF KeepsSound, Sound
<1> QED
  BY <1>7 DEF new

LEMMA SessionAdded ==
  ASSUME NEW st \in Store, Sound(st), NEW s \in Session, Opened(st, s.link, s.user)
  PROVE  KeepsSound(st, [st EXCEPT !.sessions = st.sessions \cup {s}])
<1> DEFINE new == [st EXCEPT !.sessions = st.sessions \cup {s}]
<1>1. new = [links |-> st.links, users |-> st.users, identities |-> st.identities,
             sessions |-> st.sessions \cup {s}]
  BY StoreWith
<1>2. new \in Store
  BY <1>1, StoreParts, StoreFrom
<1>3. /\ new.links = st.links /\ new.users = st.users
      /\ new.identities = st.identities /\ new.sessions = st.sessions \cup {s}
  BY <1>1
<1> HIDE DEF new
<1>4. Keeps(st, new)
  BY <1>3 DEF Keeps
<1>5. SessionsSound(new)
  BY <1>3, <1>4, OpenedStays DEF Sound, SessionsSound
<1>6. IdentitiesSound(new)
  BY <1>3 DEF Sound, IdentitiesSound
<1>7. KeepsSound(st, new)
  BY <1>2, <1>4, <1>5, <1>6 DEF KeepsSound, Sound
<1> QED
  BY <1>7 DEF new

\* Of more than one identity, another than the one disabled stays active.
LEMMA IdentityDisabled ==
  ASSUME NEW st \in Store, Sound(st), NEW own \in st.identities, own.active,
         Cardinality(Current!ActiveOf(st.identities, own.user)) > 1
  PROVE  KeepsSound(st, [st EXCEPT !.identities =
           (st.identities \ {own}) \cup {[own EXCEPT !.active = FALSE]}])
<1> DEFINE off == [own EXCEPT !.active = FALSE]
           ids == (st.identities \ {own}) \cup {off}
           new == [st EXCEPT !.identities = ids]
<1>1. own \in Identity
  BY StoreParts
<1>2. off \in Identity /\ off.key = own.key /\ off.user = own.user
  BY <1>1 DEF Identity
<1>3. own \in Current!ActiveOf(st.identities, own.user)
  BY DEF Current!ActiveOf
<1>4. Cardinality({own}) = 1
  BY FS_Singleton
<1>5. Current!ActiveOf(st.identities, own.user) # {own}
  BY <1>4
<1>6. PICK other \in st.identities : other # own /\ other.user = own.user /\ other.active
  BY <1>3, <1>5 DEF Current!ActiveOf
<1> HIDE DEF off
<1>7. new = [links |-> st.links, users |-> st.users, identities |-> ids,
             sessions |-> st.sessions]
  BY StoreWith
<1>8. ids \in SUBSET Identity
  BY <1>2, StoreParts
<1>9. new \in Store
  BY <1>7, <1>8, StoreParts, StoreFrom
<1>10. /\ new.links = st.links /\ new.users = st.users
       /\ new.identities = ids /\ new.sessions = st.sessions
  BY <1>7
<1> HIDE DEF new
<1>11. Keeps(st, new)
  <2>1. \A i \in st.identities : \E j \in ids : j.key = i.key /\ j.user = i.user
    BY <1>2
  <2> QED
    BY <2>1, <1>10 DEF Keeps
<1>12. SessionsSound(new)
  BY <1>10, <1>11, OpenedStays DEF Sound, SessionsSound
<1>13. IdentitiesSound(new)
  <2>1. \A i \in ids : i.user \in st.users
    BY <1>2 DEF Sound, IdentitiesSound
  <2>2. \A i, j \in ids : i.key = j.key => i = j
    BY <1>2 DEF Sound, IdentitiesSound
  <2>3. \A i \in ids : \E j \in ids : j.user = i.user /\ j.active
    BY <1>2, <1>6 DEF Sound, IdentitiesSound
  <2> HIDE DEF ids
  <2> QED
    BY <2>1, <2>2, <2>3, <1>10 DEF IdentitiesSound
<1>14. KeepsSound(st, new)
  BY <1>9, <1>11, <1>12, <1>13 DEF KeepsSound, Sound
<1> QED
  BY <1>14 DEF new, off
-----------------------------------------------------------------------------
(* Steps of the calls. *)

\* The call goes on inside its transaction, if it has one.
Goes(c, me) ==
  /\ calls[c].at \in InTransaction /\ me \in Local /\ me.at \in InTransaction
  /\ me.op = calls[c].op /\ me.time = calls[c].time
  /\ calls' = [calls EXCEPT ![c] = me]
  /\ UNCHANGED <<now, isolated, queue, turn, saved>>

\* It leaves it.
Leaves(c) ==
  /\ calls[c].at \in InTransaction
  /\ calls' = [calls EXCEPT ![c] = Done]
  /\ turn' = None /\ saved' = None
  /\ UNCHANGED <<now, isolated, queue>>

\* It begins, or goes on from the rate limiter, or ends there.
Waits(c, me) ==
  /\ calls[c].at \in {"idle", "limiter"} /\ me \in Local /\ me.at \notin InTransaction
  /\ calls' = [calls EXCEPT ![c] = me]
  /\ queue' = IF isolated /\ me.at = "queued" THEN Append(queue, c) ELSE queue
  /\ UNCHANGED <<now, isolated, store, turn, saved>>

LEMMA DoneTyped == Idle \in Local /\ Done \in Local /\ Done.at = "done" /\ Done.op = "none"
BY NumbersNatural DEF Idle, Done, Local

LEMMA TheTurn ==
  ASSUME TypeOK, NEW c \in Call, calls[c].at \in InTransaction
  PROVE  /\ isolated => turn = c /\ turn # None /\ saved \in Store /\ Committed = saved
         /\ isolated => \A d \in Call \ {c} : calls[d].at \notin InTransaction
         /\ ~isolated => turn = None /\ saved = None /\ Committed = store
<1>1. c # None
  BY NoneIsNoValue
<1>2. (turn = None /\ saved = None) \/ (turn \in Call /\ saved \in Store /\ isolated)
  BY DEF TypeOK
<1>3. isolated => {d \in Call : calls[d].at \in InTransaction} = {turn} \ {None}
  BY DEF TypeOK
<1>4. c \in {d \in Call : calls[d].at \in InTransaction}
  OBVIOUS
<1>5. isolated => turn = c /\ turn # None /\ saved \in Store
  BY <1>1, <1>2, <1>3, <1>4
<1>6. ASSUME isolated, NEW d \in Call \ {c}
      PROVE  calls[d].at \notin InTransaction
  BY <1>3, <1>5, <1>6
<1>7. ~isolated => turn = None /\ saved = None
  BY <1>2
<1> QED
  BY <1>5, <1>6, <1>7 DEF Committed

LEMMA TheCalls ==
  ASSUME TypeOK, NEW c \in Call, NEW me \in Local, calls' = [calls EXCEPT ![c] = me]
  PROVE  /\ calls' \in [Call -> Local] /\ calls'[c] = me
         /\ \A d \in Call \ {c} : calls'[d] = calls[d]
BY DEF TypeOK

LEMMA GoesTyped ==
  ASSUME TypeOK, NEW c \in Call, NEW me, Goes(c, me), store' \in Store
  PROVE  TypeOK'
<1>1. /\ calls' \in [Call -> Local] /\ calls'[c] = me
      /\ \A d \in Call \ {c} : calls'[d] = calls[d]
  BY TheCalls DEF Goes
<1>2. calls[c].at \in InTransaction /\ me.at \in InTransaction
  BY DEF Goes
<1>3. calls[c].at # "queued" /\ me.at # "queued"
  BY <1>2 DEF InTransaction
<1>4. {d \in Call : calls'[d].at = "queued"} = {d \in Call : calls[d].at = "queued"}
  BY <1>1, <1>3
<1>5. {d \in Call : calls'[d].at \in InTransaction} = {d \in Call : calls[d].at \in InTransaction}
  BY <1>1, <1>2
<1>6. UNCHANGED <<now, isolated, queue, turn, saved>>
  BY DEF Goes
<1> QED
  BY <1>1, <1>4, <1>5, <1>6 DEF TypeOK

LEMMA LeavesTyped ==
  ASSUME TypeOK, NEW c \in Call, Leaves(c), store' \in Store
  PROVE  TypeOK'
<1>1. /\ calls' \in [Call -> Local] /\ calls'[c] = Done
      /\ \A d \in Call \ {c} : calls'[d] = calls[d]
  BY TheCalls, DoneTyped DEF Leaves
<1>2. calls[c].at \in InTransaction
  BY DEF Leaves
<1>3. calls[c].at # "queued" /\ calls'[c].at # "queued" /\ calls'[c].at \notin InTransaction
  BY <1>1, <1>2, DoneTyped DEF InTransaction
<1>4. {d \in Call : calls'[d].at = "queued"} = {d \in Call : calls[d].at = "queued"}
  BY <1>1, <1>3
<1>5. isolated => {d \in Call : calls'[d].at \in InTransaction} = {}
  BY <1>1, <1>2, <1>3, TheTurn
<1>6. turn' = None /\ saved' = None /\ UNCHANGED <<now, isolated, queue>>
  BY DEF Leaves
<1> QED
  BY <1>1, <1>4, <1>5, <1>6 DEF TypeOK

\* A call joins the queue, or the first of it leaves it.
LEMMA Joined ==
  ASSUME NEW S, NEW q \in Seq(S), NEW c \in S, \A n \in 1..Len(q) : q[n] # c,
         \A m, n \in 1..Len(q) : q[m] = q[n] => m = n
  PROVE  LET p == Append(q, c) IN
         /\ p \in Seq(S) /\ Len(p) = Len(q) + 1 /\ p[Len(q) + 1] = c
         /\ \A n \in 1..Len(q) : p[n] = q[n]
         /\ \A m, n \in 1..Len(p) : p[m] = p[n] => m = n
         /\ {p[n] : n \in 1..Len(p)} = {q[n] : n \in 1..Len(q)} \cup {c}
<1> DEFINE p == Append(q, c)
<1>1. p \in Seq(S) /\ Len(p) = Len(q) + 1
  BY AppendProperties
<1>2. p[Len(q) + 1] = c /\ \A n \in 1..Len(q) : p[n] = q[n]
  BY AppendProperties
<1>3. Len(q) \in Nat
  BY LenProperties
<1> HIDE DEF p
<1>4. \A n \in 1..Len(p) : n \in 1..Len(q) \/ n = Len(q) + 1
  BY <1>1, <1>3
<1>5. 1..Len(q) \subseteq 1..Len(p) /\ Len(q) + 1 \in 1..Len(p)
  BY <1>1, <1>3
<1>6. \A m, n \in 1..Len(p) : p[m] = p[n] => m = n
  BY <1>2, <1>4
<1>7. {p[n] : n \in 1..Len(p)} = {q[n] : n \in 1..Len(q)} \cup {c}
  BY <1>2, <1>4, <1>5
<1> QED
  BY <1>1, <1>2, <1>6, <1>7 DEF p

LEMMA Left ==
  ASSUME NEW S, NEW q \in Seq(S), q # << >>,
         \A m, n \in 1..Len(q) : q[m] = q[n] => m = n
  PROVE  LET p == Tail(q) IN
         /\ p \in Seq(S) /\ Head(q) = q[1] /\ 1 \in 1..Len(q)
         /\ \A n \in 1..Len(p) : n + 1 \in 1..Len(q) /\ n + 1 > 1 /\ p[n] = q[n + 1]
         /\ \A m, n \in 1..Len(p) : p[m] = p[n] => m = n
         /\ {p[n] : n \in 1..Len(p)} = {q[n] : n \in 1..Len(q)} \ {Head(q)}
<1> DEFINE p == Tail(q)
<1>1. p \in Seq(S) /\ Len(p) = Len(q) - 1 /\ \A n \in 1..Len(p) : p[n] = q[n + 1]
  BY HeadTailProperties
<1>2. Head(q) = q[1]
  OBVIOUS
<1>3. Len(q) \in Nat /\ Len(q) # 0
  BY EmptySeq, LenProperties
<1> HIDE DEF p
<1>4. 1 \in 1..Len(q)
  BY <1>3
<1>5. \A n \in 1..Len(p) : n + 1 \in 1..Len(q) /\ n + 1 > 1
  BY <1>1, <1>3
<1>6. \A n \in 1..Len(q) : n # 1 => n - 1 \in 1..Len(p) /\ (n - 1) + 1 = n
  BY <1>1, <1>3
<1>7. \A m, n \in 1..Len(p) : p[m] = p[n] => m = n
  <2> TAKE m, n \in 1..Len(p)
  <2> HAVE p[m] = p[n]
  <2>1. m + 1 = n + 1
    BY <1>1, <1>5
  <2> QED
    BY <2>1
<1>8. ASSUME NEW x \in {p[n] : n \in 1..Len(p)}
      PROVE  x \in {q[n] : n \in 1..Len(q)} \ {Head(q)}
  <2>1. PICK n \in 1..Len(p) : x = q[n + 1]
    BY <1>1
  <2>2. n + 1 \in 1..Len(q) /\ n + 1 # 1
    BY <1>5
  <2>3. q[n + 1] # q[1]
    BY <2>2, <1>4
  <2> QED
    BY <1>2, <2>1, <2>2, <2>3
<1>9. ASSUME NEW x \in {q[n] : n \in 1..Len(q)} \ {Head(q)}
      PROVE  x \in {p[n] : n \in 1..Len(p)}
  <2>1. PICK n \in 1..Len(q) : x = q[n] /\ n # 1
    BY <1>2
  <2>2. n - 1 \in 1..Len(p) /\ p[n - 1] = q[n]
    BY <1>1, <1>6, <2>1
  <2> QED
    BY <2>1, <2>2
<1> QED
  BY <1>1, <1>2, <1>4, <1>5, <1>7, <1>8, <1>9 DEF p
LEMMA WaitsTyped ==
  ASSUME TypeOK, NEW c \in Call, NEW me, Waits(c, me)
  PROVE  /\ TypeOK'
         /\ turn # c
         /\ isolated => \A n \in 1..Len(queue) : queue[n] # c
<1>1. /\ calls' \in [Call -> Local] /\ calls'[c] = me
      /\ \A d \in Call \ {c} : calls'[d] = calls[d]
  BY TheCalls DEF Waits
<1>2. /\ calls[c].at \notin InTransaction /\ calls[c].at # "queued"
      /\ me.at \notin InTransaction
  BY DEF Waits, InTransaction
<1>3. isolated => {queue[n] : n \in 1..Len(queue)} = {d \in Call : calls[d].at = "queued"}
  BY DEF TypeOK
<1>4. isolated => \A n \in 1..Len(queue) : queue[n] # c
  BY <1>2, <1>3
<1>5. turn # c
  <2>1. isolated => {d \in Call : calls[d].at \in InTransaction} = {turn} \ {None}
    BY DEF TypeOK
  <2>2. ~isolated => turn = None
    BY DEF TypeOK
  <2> QED
    BY <1>2, <2>1, <2>2, NoneIsNoValue
<1>6. UNCHANGED <<now, isolated, store, turn, saved>>
  BY DEF Waits
<1>7. {d \in Call : calls'[d].at \in InTransaction} = {d \in Call : calls[d].at \in InTransaction}
  BY <1>1, <1>2
<1>8. /\ queue' \in Seq(Call)
      /\ \A m, n \in 1..Len(queue') : queue'[m] = queue'[n] => m = n
      /\ isolated => {queue'[n] : n \in 1..Len(queue')} = {d \in Call : calls'[d].at = "queued"}
  <2>1. queue \in Seq(Call) /\ \A m, n \in 1..Len(queue) : queue[m] = queue[n] => m = n
    BY DEF TypeOK
  <2>2. CASE isolated /\ me.at = "queued"
    <3>1. queue' = Append(queue, c)
      BY <2>2 DEF Waits
    <3>2. {d \in Call : calls'[d].at = "queued"} = {d \in Call : calls[d].at = "queued"} \cup {c}
      BY <1>1, <2>2
    <3> QED
      BY <1>3, <1>4, <2>1, <2>2, <3>1, <3>2, Joined
  <2>3. CASE ~(isolated /\ me.at = "queued")
    <3>1. queue' = queue
      BY <2>3 DEF Waits
    <3>2. isolated => {d \in Call : calls'[d].at = "queued"} = {d \in Call : calls[d].at = "queued"}
      BY <1>1, <1>2, <2>3
    <3> QED
      BY <1>3, <2>1, <3>1, <3>2
  <2> QED
    BY <2>2, <2>3
<1>9. TypeOK'
  BY <1>1, <1>6, <1>7, <1>8 DEF TypeOK
<1> QED
  BY <1>4, <1>5, <1>9

LEMMA TwoFields ==
  ASSUME NEW A, NEW O, NEW L, NEW K, NEW U, NEW T,
         NEW local \in [at : A, op : O, link : L, key : K, user : U, time : T],
         NEW a \in A, NEW t \in T, NEW me, me = [local EXCEPT !.at = a, !.time = t]
  PROVE  /\ me \in [at : A, op : O, link : L, key : K, user : U, time : T]
         /\ me.at = a /\ me.op = local.op /\ me.link = local.link /\ me.key = local.key
         /\ me.user = local.user /\ me.time = t
OBVIOUS

LEMMA EnteredTyped ==
  ASSUME TypeOK, NEW c \in Call, CallKnows(c), Enter(c)
  PROVE  LET me == Entered(calls[c]) IN
         /\ me \in Local /\ me.at \in InTransaction /\ me.at \in Places(me.op)
         /\ me.at \in {"read", "create"} /\ (me.at = "create" => me.op = "start")
         /\ me.op = calls[c].op /\ me.op # "none" /\ me.link = calls[c].link
         /\ me.key = calls[c].key /\ me.user = calls[c].user
         /\ me.time \in {calls[c].time, now}
         /\ me.op # "cancel" => me.time = calls[c].time
<1> DEFINE me == Entered(calls[c])
<1>1. calls[c] \in Local /\ calls[c].at = "queued" /\ now \in 0..MaxTime
  BY DEF TypeOK, Enter
<1>2. calls[c].op \in {"start", "finish", "resend", "cancel", "unlink"}
  BY <1>1 DEF CallKnows, Local
<1>3. /\ calls[c].link \in LinkId \cup {None} /\ calls[c].key \in Key \cup {None}
      /\ calls[c].user \in User \cup {None} /\ calls[c].time \in 0..MaxTime
  BY <1>1 DEF Local
<1> DEFINE a == IF calls[c].op = "start" THEN "create" ELSE "read"
           t == IF calls[c].op = "cancel" THEN now ELSE calls[c].time
<1>4. a \in {"read", "create"} /\ t \in 0..MaxTime /\ t \in {calls[c].time, now}
  BY <1>1, <1>3
<1>5. /\ me \in Local /\ me.at = a /\ me.time = t
      /\ me.op = calls[c].op /\ me.link = calls[c].link
      /\ me.key = calls[c].key /\ me.user = calls[c].user
  <2>1. me = [calls[c] EXCEPT !.at = a, !.time = t]
    BY DEF Entered
  <2> HIDE DEF me, a, t
  <2>2. a \in {"idle", "limiter", "queued", "done"} \cup InTransaction
    BY <1>4 DEF InTransaction
  <2> QED
    BY <1>1, <1>4, <2>1, <2>2, TwoFields DEF Local
<1> HIDE DEF me
<1>6. me.at \in InTransaction /\ me.at \in Places(me.op)
  BY <1>2, <1>5 DEF InTransaction, Places
<1> QED
  BY <1>2, <1>4, <1>5, <1>6 DEF me

LEMMA EnterTyped ==
  ASSUME TypeOK, NEW c \in Call, CallKnows(c), Enter(c)
  PROVE  TypeOK' /\ Committed' = Committed
<1> DEFINE me == Entered(calls[c])
<1>1. me \in Local /\ me.at \in InTransaction /\ me.at # "queued"
  BY EnteredTyped DEF InTransaction
<1>2. calls' = [calls EXCEPT ![c] = me]
  BY DEF Enter
<1> HIDE DEF me
<1>3. /\ calls' \in [Call -> Local] /\ calls'[c] = me
      /\ \A d \in Call \ {c} : calls'[d] = calls[d]
  BY <1>1, <1>2, TheCalls
<1>4. calls[c].at = "queued" /\ UNCHANGED <<now, isolated, store>>
  BY DEF Enter
<1>5. CASE isolated
  <2>1. /\ turn = None /\ queue # << >> /\ c = Head(queue) /\ queue' = Tail(queue)
        /\ turn' = c /\ saved' = store
    BY <1>5 DEF Enter
  <2>2. queue \in Seq(Call) /\ \A m, n \in 1..Len(queue) : queue[m] = queue[n] => m = n
    BY DEF TypeOK
  <2>3. /\ queue' \in Seq(Call)
        /\ \A m, n \in 1..Len(queue') : queue'[m] = queue'[n] => m = n
        /\ {queue'[n] : n \in 1..Len(queue')} = {queue[n] : n \in 1..Len(queue)} \ {c}
    BY <2>1, <2>2, Left
  <2>4. {queue[n] : n \in 1..Len(queue)} = {d \in Call : calls[d].at = "queued"}
    BY <1>5 DEF TypeOK
  <2>5. {queue'[n] : n \in 1..Len(queue')} = {d \in Call : calls'[d].at = "queued"}
    BY <1>1, <1>3, <2>3, <2>4
  <2>6. {d \in Call : calls[d].at \in InTransaction} = {}
    BY <1>5, <2>1 DEF TypeOK
  <2>7. {d \in Call : calls'[d].at \in InTransaction} = {turn'} \ {None}
    BY <1>1, <1>3, <2>1, <2>6, NoneIsNoValue
  <2>8. store \in Store /\ now \in 0..MaxTime
    BY DEF TypeOK
  <2>9. TypeOK'
    BY <1>3, <1>4, <1>5, <2>1, <2>3, <2>5, <2>7, <2>8 DEF TypeOK
  <2> QED
    BY <1>4, <2>1, <2>9, NoneIsNoValue DEF Committed
<1>6. CASE ~isolated
  <2>1. UNCHANGED <<queue, turn, saved>>
    BY <1>6 DEF Enter
  <2>2. TypeOK'
    BY <1>3, <1>4, <1>6, <2>1 DEF TypeOK
  <2> QED
    BY <1>4, <2>1, <2>2 DEF Committed
<1> QED
  BY <1>5, <1>6
-----------------------------------------------------------------------------
(* Reliable is kept by each kind of step. *)

\* What a call knows is not lost by what others do to the store.
LEMMA OthersKnow ==
  ASSUME TypeOK, NEW d \in Call, CallKnows(d), Keeps(store, store'),
         calls'[d] = calls[d], now' \in Nat, now <= now'
  PROVE  CallKnows(d)'
<1> DEFINE me == calls[d]
<1>1. me.time <= now'
  <2>1. me.time \in Nat /\ now \in Nat /\ me.time <= now
    BY NumbersNatural DEF TypeOK, Local, CallKnows
  <2> QED
    BY <2>1
<1>2. me.at \in {"consume", "find", "newUser", "newIdentity", "session", "create", "expire"}
        /\ me.op # "start" =>
           /\ me.link \in DOMAIN store'.links
           /\ store'.links[me.link].key = store.links[me.link].key
           /\ store.links[me.link].consumed => store'.links[me.link].consumed
  BY DEF CallKnows, Keeps
<1>3. me.at \in {"consume", "find", "newUser", "newIdentity", "session"} => me.op # "start"
  BY DEF CallKnows, Places, InTransaction
<1>4. me.at \in {"newIdentity", "session"} => me.user \in store'.users
  BY DEF CallKnows, Keeps
<1>5. me.at = "session" => Opened(store', me.link, me.user)
  BY OpenedStays DEF CallKnows
<1> QED
  BY <1>1, <1>2, <1>3, <1>4, <1>5 DEF CallKnows

\* A call outside of any transaction relies on nothing in the store.
LEMMA IdleKnows ==
  ASSUME TypeOK, NEW d \in Call, CallKnows(d), calls'[d] = calls[d], now' = now,
         calls[d].at \notin InTransaction
  PROVE  CallKnows(d)'
BY DEF CallKnows, InTransaction

LEMMA DoneKnows ==
  ASSUME TypeOK, NEW c \in Call, calls'[c] = Done, now' = now
  PROVE  CallKnows(c)'
<1>1. Done.at = "done" /\ Done.op = "none" /\ Done.time = 0
  BY DEF Done, Idle
<1>2. 0 <= now
  BY NumbersNatural DEF TypeOK
<1> QED
  BY <1>1, <1>2 DEF CallKnows, InTransaction, Places

LEMMA GoesReliable ==
  ASSUME Reliable, NEW c \in Call, NEW me, Goes(c, me), KeepsSound(store, store'), CallKnows(c)'
  PROVE  Reliable' /\ Committed' = (IF isolated THEN Committed ELSE store')
<1>1. TypeOK /\ Sound(store) /\ Sound(Committed) /\ \A d \in Call : CallKnows(d)
  BY DEF Reliable
<1>2. store' \in Store /\ Keeps(store, store') /\ Sound(store')
  BY DEF KeepsSound
<1>3. TypeOK'
  BY <1>1, <1>2, GoesTyped
<1>4. /\ calls[c].at \in InTransaction /\ UNCHANGED <<now, isolated, turn, saved>>
      /\ \A d \in Call \ {c} : calls'[d] = calls[d]
  BY <1>1, TheCalls DEF Goes
<1>5. now' \in Nat /\ now <= now'
  BY <1>1, <1>4, NumbersNatural DEF TypeOK
<1>6. \A d \in Call : CallKnows(d)'
  BY <1>1, <1>2, <1>4, <1>5, OthersKnow
<1>7. Committed' = IF isolated THEN Committed ELSE store'
  BY <1>1, <1>4, TheTurn DEF Committed
<1>8. Sound(Committed')
  BY <1>1, <1>2, <1>7
<1> HIDE DEF Committed
<1> QED
  BY <1>2, <1>3, <1>6, <1>7, <1>8 DEF Reliable, Sound, IdentitiesSound, SessionsSound, Opened

LEMMA LeavesReliable ==
  ASSUME Reliable, NEW c \in Call, Leaves(c), store' \in Store, Sound(store'),
         isolated \/ Keeps(store, store')
  PROVE  Reliable' /\ Committed' = store'
<1>1. TypeOK /\ \A d \in Call : CallKnows(d)
  BY DEF Reliable
<1>2. TypeOK'
  BY <1>1, LeavesTyped
<1>3. /\ calls[c].at \in InTransaction /\ UNCHANGED <<now, isolated>> /\ turn' = None
      /\ calls'[c] = Done /\ \A d \in Call \ {c} : calls'[d] = calls[d]
  BY <1>1, TheCalls, DoneTyped DEF Leaves
<1>4. now' \in Nat /\ now <= now'
  BY <1>1, <1>3, NumbersNatural DEF TypeOK
<1>5. ASSUME NEW d \in Call \ {c}
      PROVE  CallKnows(d)'
  <2>1. CASE isolated
    <3>1. calls[d].at \notin InTransaction
      BY <1>1, <1>3, <2>1, TheTurn
    <3> QED
      BY <1>1, <1>3, <3>1, IdleKnows
  <2>2. CASE Keeps(store, store')
    BY <1>1, <1>3, <1>4, <2>2, OthersKnow
  <2> QED
    BY <2>1, <2>2
<1>6. CallKnows(c)'
  BY <1>1, <1>3, DoneKnows
<1>7. Committed' = store'
  BY <1>3 DEF Committed
<1>8. Sound(Committed')
  BY <1>7
<1> HIDE DEF Committed
<1> QED
  BY <1>2, <1>5, <1>6, <1>7, <1>8 DEF Reliable, Sound, IdentitiesSound, SessionsSound, Opened

LEMMA WaitsReliable ==
  ASSUME Reliable, NEW c \in Call, NEW me, Waits(c, me), CallKnows(c)'
  PROVE  Reliable' /\ Committed' = Committed
<1>1. TypeOK /\ Sound(store) /\ \A d \in Call : CallKnows(d)
  BY DEF Reliable
<1>2. /\ UNCHANGED <<now, isolated, store, turn, saved>>
      /\ \A d \in Call \ {c} : calls'[d] = calls[d]
  BY <1>1, TheCalls DEF Waits
<1>3. TypeOK'
  BY <1>1, WaitsTyped
<1>4. store' = store /\ Keeps(store, store')
  BY <1>1, <1>2, SameStoreKeeps DEF KeepsSound, TypeOK
<1>5. now' \in Nat /\ now <= now'
  BY <1>1, <1>2, NumbersNatural DEF TypeOK
<1>6. \A d \in Call : CallKnows(d)'
  BY <1>1, <1>2, <1>4, <1>5, OthersKnow
<1>7. Committed' = Committed
  BY <1>2 DEF Committed
<1> HIDE DEF Committed
<1> QED
  BY <1>3, <1>4, <1>6, <1>7 DEF Reliable, Sound, IdentitiesSound, SessionsSound, Opened

LEMMA EnterReliable ==
  ASSUME Reliable, NEW c \in Call, Enter(c)
  PROVE  Reliable' /\ Committed' = Committed
<1>1. TypeOK /\ Sound(store) /\ \A d \in Call : CallKnows(d)
  BY DEF Reliable
<1> DEFINE me == Entered(calls[c])
<1>2. /\ me \in Local /\ me.at \in InTransaction /\ me.at \in Places(me.op)
      /\ me.at \in {"read", "create"} /\ (me.at = "create" => me.op = "start")
      /\ me.op = calls[c].op /\ me.op # "none" /\ me.link = calls[c].link
      /\ me.key = calls[c].key /\ me.user = calls[c].user
      /\ me.time \in {calls[c].time, now}
  BY <1>1, EnteredTyped
<1>3. calls' = [calls EXCEPT ![c] = me] /\ UNCHANGED <<now, isolated, store>>
  BY DEF Enter
<1> HIDE DEF me
<1>4. calls'[c] = me /\ \A d \in Call \ {c} : calls'[d] = calls[d]
  BY <1>1, <1>2, <1>3, TheCalls
<1>5. TypeOK' /\ Committed' = Committed
  BY <1>1, EnterTyped
<1>6. now' \in Nat /\ now <= now'
  BY <1>1, <1>3, NumbersNatural DEF TypeOK
<1>7. store' = store /\ Keeps(store, store')
  BY <1>1, <1>3, SameStoreKeeps DEF KeepsSound, TypeOK
<1>8. \A d \in Call \ {c} : CallKnows(d)'
  BY <1>1, <1>4, <1>6, <1>7, OthersKnow
<1>9. me.time <= now'
  BY <1>1, <1>2, <1>3, <1>6 DEF CallKnows
<1>10. CallKnows(c)'
  BY <1>1, <1>2, <1>4, <1>9 DEF CallKnows
<1> HIDE DEF Committed
<1> QED
  BY <1>1, <1>5, <1>7, <1>8, <1>10 DEF Reliable, Sound, IdentitiesSound, SessionsSound, Opened

LEMMA TickReliable ==
  ASSUME Reliable, Tick
  PROVE  Reliable' /\ Committed' = Committed
<1>1. TypeOK /\ Sound(store) /\ \A d \in Call : CallKnows(d)
  BY DEF Reliable
<1>2. now' \in 0..MaxTime /\ now' \in Nat /\ now <= now'
  BY <1>1, NumbersNatural DEF TypeOK, Tick
<1>3. UNCHANGED <<isolated, store, queue, turn, saved, calls>>
  BY DEF Tick
<1>4. TypeOK'
  BY <1>1, <1>2, <1>3 DEF TypeOK
<1>5. store' = store /\ Keeps(store, store')
  BY <1>1, <1>3, SameStoreKeeps DEF KeepsSound, TypeOK
<1>6. \A d \in Call : CallKnows(d)'
  BY <1>1, <1>2, <1>3, <1>5, OthersKnow
<1>7. Committed' = Committed
  BY <1>3 DEF Committed
<1> HIDE DEF Committed
<1> QED
  BY <1>4, <1>5, <1>6, <1>7 DEF Reliable, Sound, IdentitiesSound, SessionsSound, Opened
-----------------------------------------------------------------------------
(* The repository calls inside of an operation. *)

\* The call goes on, with what it knows and with the progress it has made.
GoesWell(c) ==
  /\ \E me : Goes(c, me)
  /\ KeepsSound(store, store')
  /\ CallKnows(c)'
  /\ isolated => ProgressOf(c)'

LEMMA CallFields ==
  ASSUME TypeOK, NEW c \in Call
  PROVE  /\ calls[c] \in Local /\ calls[c].time \in 0..MaxTime /\ calls[c].time \in Nat
         /\ calls[c].link \in LinkId \cup {None}
         /\ calls[c].key \in Key \cup {None} /\ calls[c].user \in User \cup {None}
BY NumbersNatural DEF TypeOK, Local

\* The place of a call changes, alone or with one more field.
WithKey(f, c, a, k) == [f EXCEPT ![c].at = a, ![c].key = k]
WithUser(f, c, a, u) == [f EXCEPT ![c].at = a, ![c].user = u]

LEMMA OneField ==
  ASSUME NEW c \in Call, NEW f \in [Call -> Local], NEW a \in InTransaction
  PROVE  \E me \in Local :
           /\ [f EXCEPT ![c].at = a] = [f EXCEPT ![c] = me]
           /\ me.at = a /\ me.op = f[c].op /\ me.time = f[c].time
           /\ me.link = f[c].link /\ me.key = f[c].key /\ me.user = f[c].user
<1> DEFINE A == {"idle", "limiter", "queued", "done"} \cup InTransaction
           O == {"start", "finish", "resend", "cancel", "unlink", "none"}
           L == LinkId \cup {None}
           K == Key \cup {None}
           U == User \cup {None}
           T == 0..MaxTime
           here == [f[c] EXCEPT !.at = a]
<1>1. Local = [at : A, op : O, link : L, key : K, user : U, time : T] /\ a \in A
  BY DEF Local
<1>2. Key \subseteq K /\ User \subseteq U
  OBVIOUS
<1> HIDE DEF A, O, L, K, U, T
<1>3. /\ here \in [at : A, op : O, link : L, key : K, user : U, time : T]
      /\ here.at = a /\ here.op = f[c].op /\ here.time = f[c].time
      /\ here.link = f[c].link /\ here.key = f[c].key /\ here.user = f[c].user
  BY <1>1
<1>4. [f EXCEPT ![c].at = a] = [f EXCEPT ![c] = here]
  BY <1>1
<1> HIDE DEF here
<1> QED
  BY <1>1, <1>3, <1>4

LEMMA FieldAndKey ==
  ASSUME NEW c \in Call, NEW f \in [Call -> Local], NEW a \in InTransaction, NEW k \in Key
  PROVE  \E me \in Local :
           /\ WithKey(f, c, a, k) = [f EXCEPT ![c] = me]
           /\ me.at = a /\ me.op = f[c].op /\ me.time = f[c].time
           /\ me.link = f[c].link /\ me.key = k /\ me.user = f[c].user
<1> DEFINE A == {"idle", "limiter", "queued", "done"} \cup InTransaction
           O == {"start", "finish", "resend", "cancel", "unlink", "none"}
           L == LinkId \cup {None}
           K == Key \cup {None}
           U == User \cup {None}
           T == 0..MaxTime
           here == [f[c] EXCEPT !.at = a]
<1>1. Local = [at : A, op : O, link : L, key : K, user : U, time : T] /\ a \in A
  BY DEF Local
<1>2. Key \subseteq K /\ User \subseteq U
  OBVIOUS
<1> HIDE DEF A, O, L, K, U, T
<1>3. /\ here \in [at : A, op : O, link : L, key : K, user : U, time : T]
      /\ here.at = a /\ here.op = f[c].op /\ here.time = f[c].time
      /\ here.link = f[c].link /\ here.key = f[c].key /\ here.user = f[c].user
  BY <1>1
<1>4. WithKey(f, c, a, k) = [f EXCEPT ![c] = [here EXCEPT !.key = k]]
  BY <1>1 DEF WithKey
<1> HIDE DEF here
<1>5. LET me == [here EXCEPT !.key = k] IN
      /\ me \in [at : A, op : O, link : L, key : K, user : U, time : T]
      /\ me.at = a /\ me.op = f[c].op /\ me.time = f[c].time
      /\ me.link = f[c].link /\ me.key = k /\ me.user = f[c].user
  BY <1>1, <1>2, <1>3
<1> QED
  BY <1>1, <1>4, <1>5

LEMMA FieldAndUser ==
  ASSUME NEW c \in Call, NEW f \in [Call -> Local], NEW a \in InTransaction, NEW u \in User
  PROVE  \E me \in Local :
           /\ WithUser(f, c, a, u) = [f EXCEPT ![c] = me]
           /\ me.at = a /\ me.op = f[c].op /\ me.time = f[c].time
           /\ me.link = f[c].link /\ me.key = f[c].key /\ me.user = u
<1> DEFINE A == {"idle", "limiter", "queued", "done"} \cup InTransaction
           O == {"start", "finish", "resend", "cancel", "unlink", "none"}
           L == LinkId \cup {None}
           K == Key \cup {None}
           U == User \cup {None}
           T == 0..MaxTime
           here == [f[c] EXCEPT !.at = a]
<1>1. Local = [at : A, op : O, link : L, key : K, user : U, time : T] /\ a \in A
  BY DEF Local
<1>2. Key \subseteq K /\ User \subseteq U
  OBVIOUS
<1> HIDE DEF A, O, L, K, U, T
<1>3. /\ here \in [at : A, op : O, link : L, key : K, user : U, time : T]
      /\ here.at = a /\ here.op = f[c].op /\ here.time = f[c].time
      /\ here.link = f[c].link /\ here.key = f[c].key /\ here.user = f[c].user
  BY <1>1
<1>4. WithUser(f, c, a, u) = [f EXCEPT ![c] = [here EXCEPT !.user = u]]
  BY <1>1 DEF WithUser
<1> HIDE DEF here
<1>5. LET me == [here EXCEPT !.user = u] IN
      /\ me \in [at : A, op : O, link : L, key : K, user : U, time : T]
      /\ me.at = a /\ me.op = f[c].op /\ me.time = f[c].time
      /\ me.link = f[c].link /\ me.key = f[c].key /\ me.user = u
  BY <1>1, <1>2, <1>3
<1> QED
  BY <1>1, <1>4, <1>5

LEMMA Place ==
  ASSUME TypeOK, NEW c \in Call, calls[c].at \in InTransaction, NEW q \in InTransaction,
         calls' = [calls EXCEPT ![c].at = q],
         UNCHANGED <<now, isolated, queue, turn, saved>>
  PROVE  /\ \E me : Goes(c, me)
         /\ calls'[c].at = q /\ calls'[c].op = calls[c].op /\ calls'[c].time = calls[c].time
         /\ calls'[c].link = calls[c].link /\ calls'[c].key = calls[c].key
         /\ calls'[c].user = calls[c].user
<1>1. calls \in [Call -> Local]
  BY DEF TypeOK
<1>2. PICK me \in Local :
        /\ [calls EXCEPT ![c].at = q] = [calls EXCEPT ![c] = me]
        /\ me.at = q /\ me.op = calls[c].op /\ me.time = calls[c].time
        /\ me.link = calls[c].link /\ me.key = calls[c].key /\ me.user = calls[c].user
  BY <1>1, OneField, ZenonT(30)
<1>3. Goes(c, me)
  BY <1>2 DEF Goes
<1>4. calls'[c] = me
  BY <1>2, TheCalls
<1> QED
  BY <1>2, <1>3, <1>4

LEMMA PlaceAndKey ==
  ASSUME TypeOK, NEW c \in Call, calls[c].at \in InTransaction, NEW q \in InTransaction,
         NEW k \in Key, calls' = WithKey(calls, c, q, k),
         UNCHANGED <<now, isolated, queue, turn, saved>>
  PROVE  /\ \E me : Goes(c, me)
         /\ calls'[c].at = q /\ calls'[c].op = calls[c].op /\ calls'[c].time = calls[c].time
         /\ calls'[c].link = calls[c].link /\ calls'[c].key = k
         /\ calls'[c].user = calls[c].user
<1>1. calls \in [Call -> Local]
  BY DEF TypeOK
<1>2. PICK me \in Local :
        /\ calls' = [calls EXCEPT ![c] = me]
        /\ me.at = q /\ me.op = calls[c].op /\ me.time = calls[c].time
        /\ me.link = calls[c].link /\ me.key = k /\ me.user = calls[c].user
  BY <1>1, FieldAndKey
<1>3. Goes(c, me)
  BY <1>2 DEF Goes
<1>4. calls'[c] = me
  BY <1>2, TheCalls
<1> QED
  BY <1>2, <1>3, <1>4

LEMMA PlaceAndUser ==
  ASSUME TypeOK, NEW c \in Call, calls[c].at \in InTransaction, NEW q \in InTransaction,
         NEW u \in User, calls' = WithUser(calls, c, q, u),
         UNCHANGED <<now, isolated, queue, turn, saved>>
  PROVE  /\ \E me : Goes(c, me)
         /\ calls'[c].at = q /\ calls'[c].op = calls[c].op /\ calls'[c].time = calls[c].time
         /\ calls'[c].link = calls[c].link /\ calls'[c].key = calls[c].key
         /\ calls'[c].user = u
<1>1. calls \in [Call -> Local]
  BY DEF TypeOK
<1>2. PICK me \in Local :
        /\ calls' = [calls EXCEPT ![c] = me]
        /\ me.at = q /\ me.op = calls[c].op /\ me.time = calls[c].time
        /\ me.link = calls[c].link /\ me.key = calls[c].key /\ me.user = u
  BY <1>1, FieldAndUser
<1>3. Goes(c, me)
  BY <1>2 DEF Goes
<1>4. calls'[c] = me
  BY <1>2, TheCalls
<1> QED
  BY <1>2, <1>3, <1>4
LEMMA InsideFacts ==
  ASSUME Reliable, isolated => Progress, NEW c \in Call, calls[c].at \in InTransaction
  PROVE  /\ TypeOK /\ store \in Store /\ Sound(store) /\ CallKnows(c)
         /\ now \in 0..MaxTime
         /\ isolated => turn = c /\ saved \in Store /\ Sound(saved) /\ ProgressOf(c)
<1>1. TypeOK /\ store \in Store /\ Sound(store) /\ CallKnows(c) /\ now \in 0..MaxTime
  BY DEF Reliable, TypeOK
<1>2. isolated => turn = c /\ turn # None /\ saved \in Store /\ Committed = saved
  BY <1>1, TheTurn
<1> QED
  BY <1>1, <1>2 DEF Progress, Reliable

\* A step that only reads the call's link, and learns its key.
LEMMA ReadsLinkGoes ==
  ASSUME Reliable, NEW c \in Call, calls[c].op \in {"finish", "resend"},
         NEW q \in {"consume", "create"}, q \in Places(calls[c].op), ReadsLink(c, q)
  PROVE  /\ \E me : Goes(c, me)
         /\ KeepsSound(store, store') /\ store' = store /\ saved' = saved
         /\ CallKnows(c)'
         /\ calls'[c].at = q /\ calls'[c].op = calls[c].op /\ calls'[c].time = calls[c].time
         /\ calls'[c].link = calls[c].link
         /\ calls'[c].key = store.links[calls[c].link].key
<1> DEFINE l == calls[c].link
           k == store.links[l].key
<1>1. TypeOK /\ store \in Store /\ Sound(store) /\ CallKnows(c)
  BY DEF Reliable, TypeOK
<1>2. /\ calls[c].at = "read" /\ l \in DOMAIN store.links
      /\ UNCHANGED <<now, isolated, store, queue, turn, saved>>
  BY DEF ReadsLink, Exists
<1>3. calls' = WithKey(calls, c, q, k)
  BY DEF ReadsLink, WithKey
<1>4. k \in Key /\ l \in LinkId
  <2>1. store.links \in Links
    BY <1>1, StoreParts
  <2>2. store.links[l] \in Link /\ l \in LinkId
    BY <1>2, <2>1, LinksParts
  <2> QED
    BY <2>2, LinkNumbers
<1>5. q \in InTransaction /\ calls[c].at \in InTransaction
  BY <1>2 DEF InTransaction
<1>6. /\ \E me : Goes(c, me)
      /\ calls'[c].at = q /\ calls'[c].op = calls[c].op /\ calls'[c].time = calls[c].time
      /\ calls'[c].link = l /\ calls'[c].key = k
  BY <1>1, <1>2, <1>3, <1>4, <1>5, PlaceAndKey
<1>7. KeepsSound(store, store')
  BY <1>1, <1>2, SameStoreKeeps
<1>8. CallKnows(c)'
  BY <1>1, <1>2, <1>4, <1>6 DEF CallKnows, Places
<1> QED
  BY <1>2, <1>6, <1>7, <1>8

LEMMA ReadLinkGoes ==
  ASSUME Reliable, isolated => Progress, NEW c \in Call, ReadLink(c)
  PROVE  GoesWell(c)
<1>1. calls[c].op = "finish" /\ ReadsLink(c, "consume") /\ Usable(c) /\ calls[c].at = "read"
  BY DEF ReadLink, ReadsLink
<1>2. "consume" \in Places(calls[c].op)
  BY <1>1 DEF Places
<1>3. /\ \E me : Goes(c, me)
      /\ KeepsSound(store, store') /\ store' = store /\ saved' = saved
      /\ CallKnows(c)'
      /\ calls'[c].at = "consume" /\ calls'[c].op = calls[c].op
      /\ calls'[c].time = calls[c].time /\ calls'[c].link = calls[c].link
      /\ calls'[c].key = store.links[calls[c].link].key
  BY <1>1, <1>2, ReadsLinkGoes
<1>4. ASSUME isolated
      PROVE  ProgressOf(c)'
  <2>1. ProgressOf(c)
    BY <1>1, <1>4, InsideFacts DEF InTransaction
  <2>2. store = saved
    BY <1>1, <2>1 DEF ProgressOf, FinishProgress
  <2>3. UsableThen(c)'
    BY <1>1, <1>3, <2>2 DEF UsableThen, Usable, Exists
  <2> QED
    BY <1>1, <1>3, <2>2, <2>3 DEF ProgressOf, FinishProgress
<1> QED
  BY <1>3, <1>4 DEF GoesWell

LEMMA ReadForResendGoes ==
  ASSUME Reliable, isolated => Progress, NEW c \in Call, ReadForResend(c)
  PROVE  GoesWell(c)
<1>1. /\ calls[c].op = "resend" /\ ReadsLink(c, "create") /\ calls[c].at = "read"
      /\ Current!ResendAllowed(store.links, calls[c].link, calls[c].time)
      /\ calls[c].link \in DOMAIN store.links
  BY DEF ReadForResend, ReadsLink, Exists
<1>2. "create" \in Places(calls[c].op)
  BY <1>1 DEF Places
<1>3. /\ \E me : Goes(c, me)
      /\ KeepsSound(store, store') /\ store' = store /\ saved' = saved
      /\ CallKnows(c)'
      /\ calls'[c].at = "create" /\ calls'[c].op = calls[c].op
      /\ calls'[c].time = calls[c].time /\ calls'[c].link = calls[c].link
      /\ calls'[c].key = store.links[calls[c].link].key
  BY <1>1, <1>2, ReadsLinkGoes
<1>4. ASSUME isolated
      PROVE  ProgressOf(c)'
  <2>1. ProgressOf(c)
    BY <1>1, <1>4, InsideFacts DEF InTransaction
  <2>2. store = saved
    BY <1>1, <2>1 DEF ProgressOf, ResendProgress
  <2>3. ReplaceableThen(c)'
    BY <1>1, <1>3, <2>2 DEF ReplaceableThen
  <2> QED
    BY <1>1, <1>3, <2>2, <2>3 DEF ProgressOf, ResendProgress
<1> QED
  BY <1>3, <1>4 DEF GoesWell

LEMMA ReadForCancelGoes ==
  ASSUME Reliable, isolated => Progress, NEW c \in Call, ReadForCancel(c)
  PROVE  GoesWell(c)
<1>1. /\ calls[c].op = "cancel" /\ calls[c].at = "read" /\ Usable(c)
      /\ calls' = [calls EXCEPT ![c].at = "expire"] /\ store' = store
      /\ UNCHANGED <<now, isolated, queue, turn, saved>>
  BY DEF ReadForCancel, Moves
<1>2. "expire" \in InTransaction /\ calls[c].at \in InTransaction
  BY <1>1 DEF InTransaction
<1>3. /\ TypeOK /\ store \in Store /\ Sound(store) /\ CallKnows(c)
      /\ isolated => ProgressOf(c)
  BY <1>2, InsideFacts
<1>4. /\ \E me : Goes(c, me)
      /\ calls'[c].at = "expire" /\ calls'[c].op = calls[c].op
      /\ calls'[c].time = calls[c].time /\ calls'[c].link = calls[c].link
      /\ calls'[c].key = calls[c].key
  BY <1>1, <1>2, <1>3, Place
<1>5. KeepsSound(store, store')
  BY <1>1, <1>3, SameStoreKeeps
<1>6. CallKnows(c)'
  BY <1>1, <1>3, <1>4 DEF CallKnows, Places, Usable, Exists
<1>7. ASSUME isolated
      PROVE  ProgressOf(c)'
  <2>1. store = saved
    BY <1>1, <1>3, <1>7 DEF ProgressOf, CancelProgress
  <2> QED
    BY <1>1, <1>4, <2>1 DEF ProgressOf, CancelProgress, Usable, Exists
<1> QED
  BY <1>4, <1>5, <1>6, <1>7 DEF GoesWell

LEMMA ReadForUnlinkGoes ==
  ASSUME Reliable, isolated => Progress, NEW c \in Call, ReadForUnlink(c)
  PROVE  GoesWell(c)
<1>1. /\ calls[c].op = "unlink" /\ calls[c].at = "read"
      /\ calls' = [calls EXCEPT ![c].at = "disable"] /\ store' = store
      /\ UNCHANGED <<now, isolated, queue, turn, saved>>
  BY DEF ReadForUnlink, Moves
<1>2. "disable" \in InTransaction /\ calls[c].at \in InTransaction
  BY <1>1 DEF InTransaction
<1>3. /\ TypeOK /\ store \in Store /\ Sound(store) /\ CallKnows(c)
      /\ isolated => ProgressOf(c)
  BY <1>2, InsideFacts
<1>4. /\ \E me : Goes(c, me)
      /\ calls'[c].at = "disable" /\ calls'[c].op = calls[c].op
      /\ calls'[c].time = calls[c].time /\ calls'[c].link = calls[c].link
      /\ calls'[c].key = calls[c].key /\ calls'[c].user = calls[c].user
  BY <1>1, <1>2, <1>3, Place
<1>5. KeepsSound(store, store')
  BY <1>1, <1>3, SameStoreKeeps
<1>6. CallKnows(c)'
  BY <1>1, <1>3, <1>4 DEF CallKnows, Places
<1>7. isolated => ProgressOf(c)'
  BY <1>1, <1>3, <1>4 DEF ProgressOf
<1> QED
  BY <1>4, <1>5, <1>6, <1>7 DEF GoesWell
\* An update of one link is one of the links.
LEMMA OneLink ==
  ASSUME NEW st \in Store, NEW l \in DOMAIN st.links, NEW t
  PROVE  /\ [st EXCEPT !.links[l].consumed = TRUE]
              = [st EXCEPT !.links = [st.links EXCEPT ![l].consumed = TRUE]]
         /\ [st EXCEPT !.links[l].expiresAt = t]
              = [st EXCEPT !.links = [st.links EXCEPT ![l].expiresAt = t]]
BY DEF Store

LEMMA ConsumeLinkGoes ==
  ASSUME Reliable, isolated => Progress, NEW c \in Call, ConsumeLink(c)
  PROVE  GoesWell(c)
<1> DEFINE l == calls[c].link
           g == [store.links EXCEPT ![l].consumed = TRUE]
<1>1. /\ calls[c].op = "finish" /\ calls[c].at = "consume"
      /\ calls' = [calls EXCEPT ![c].at = "find"]
      /\ store' = [store EXCEPT !.links[l].consumed = TRUE]
      /\ UNCHANGED <<now, isolated, queue, turn, saved>>
  BY DEF ConsumeLink, Moves
<1>2. "find" \in InTransaction /\ calls[c].at \in InTransaction
  BY <1>1 DEF InTransaction
<1>3. /\ TypeOK /\ store \in Store /\ Sound(store) /\ CallKnows(c) /\ now \in 0..MaxTime
      /\ isolated => ProgressOf(c)
  BY <1>2, InsideFacts
<1>4. /\ \E me : Goes(c, me)
      /\ calls'[c].at = "find" /\ calls'[c].op = calls[c].op
      /\ calls'[c].time = calls[c].time /\ calls'[c].link = calls[c].link
      /\ calls'[c].key = calls[c].key
  BY <1>1, <1>2, <1>3, Place
<1>5. l \in DOMAIN store.links /\ calls[c].key = store.links[l].key
  BY <1>1, <1>3 DEF CallKnows
<1>6. store' = [store EXCEPT !.links = g]
  BY <1>1, <1>3, <1>5, OneLink
<1>7. /\ g \in Links /\ DOMAIN g = DOMAIN store.links
      /\ \A x \in DOMAIN store.links \ {l} : g[x] = store.links[x]
      /\ g[l].consumed /\ g[l].key = store.links[l].key
  <2>1. store.links \in Links
    BY <1>3, StoreParts
  <2> QED
    BY <1>3, <1>5, <2>1, UsedLink
<1> HIDE DEF g
<1>8. KeepsSound(store, store')
  <2>1. \A x \in DOMAIN store.links :
          /\ x \in DOMAIN g /\ g[x].key = store.links[x].key
          /\ store.links[x].consumed => g[x].consumed
    BY <1>7
  <2> QED
    BY <1>3, <1>6, <1>7, <2>1, LinksChange
<1>9. store'.links = g
  BY <1>3, <1>6, StoreWith
<1>10. CallKnows(c)'
  <2>1. /\ calls'[c].link \in DOMAIN store'.links /\ store'.links[calls'[c].link].consumed
        /\ calls'[c].key = store'.links[calls'[c].link].key
    BY <1>4, <1>5, <1>7, <1>9
  <2>2. calls[c].op = "finish" /\ now' = now
    BY <1>1
  <2> QED
    BY <1>3, <1>4, <2>1, <2>2 DEF CallKnows, Places
<1>11. ASSUME isolated
       PROVE  ProgressOf(c)'
  <2>1. store = saved /\ UsableThen(c)
    BY <1>1, <1>3, <1>11 DEF ProgressOf, FinishProgress
  <2>2. UsableThen(c)'
    BY <1>1, <1>4, <2>1 DEF UsableThen
  <2>3. store' = UsedUp(c)'
    BY <1>1, <1>4, <2>1 DEF UsedUp
  <2> QED
    BY <1>1, <1>4, <2>2, <2>3 DEF ProgressOf, FinishProgress
<1> QED
  BY <1>4, <1>8, <1>10, <1>11 DEF GoesWell

\* What the finish of a link has left of the snapshot.
LEMMA UsedUpParts ==
  ASSUME NEW c \in Call, saved \in Store, UsableThen(c)
  PROVE  LET g == [saved.links EXCEPT ![calls[c].link].consumed = TRUE] IN
         /\ UsedUp(c) = [links |-> g, users |-> saved.users,
                         identities |-> saved.identities, sessions |-> saved.sessions]
         /\ g \in Links /\ DOMAIN g = DOMAIN saved.links
         /\ \A x \in DOMAIN g : /\ g[x].replaces = saved.links[x].replaces
                                /\ g[x].expiresAt = saved.links[x].expiresAt
         /\ UsedUp(c).links = g /\ UsedUp(c).users = saved.users
         /\ UsedUp(c).identities = saved.identities /\ UsedUp(c).sessions = saved.sessions
         /\ UsedUp(c) \in Store
<1> DEFINE l == calls[c].link
           g == [saved.links EXCEPT ![l].consumed = TRUE]
<1>1. l \in DOMAIN saved.links
  BY DEF UsableThen
<1>2. UsedUp(c) = [saved EXCEPT !.links = g]
  BY <1>1, OneLink DEF UsedUp
<1>3. /\ g \in Links /\ DOMAIN g = DOMAIN saved.links
      /\ \A x \in DOMAIN saved.links \ {l} : g[x] = saved.links[x]
      /\ g[l].replaces = saved.links[l].replaces
      /\ g[l].expiresAt = saved.links[l].expiresAt
  BY <1>1, StoreParts, UsedLink
<1> HIDE DEF g
<1>4. UsedUp(c) = [links |-> g, users |-> saved.users,
                   identities |-> saved.identities, sessions |-> saved.sessions]
  BY <1>2, StoreWith
<1>5. UsedUp(c) \in Store
  BY <1>3, <1>4, StoreParts, StoreFrom
<1>6. /\ UsedUp(c).links = g /\ UsedUp(c).users = saved.users
      /\ UsedUp(c).identities = saved.identities /\ UsedUp(c).sessions = saved.sessions
  BY <1>4
<1> QED
  BY <1>3, <1>4, <1>5, <1>6 DEF g

LEMMA FindIdentityGoes ==
  ASSUME Reliable, isolated => Progress, NEW c \in Call, FindIdentity(c)
  PROVE  GoesWell(c)
<1> DEFINE own == {i \in store.identities : i.key = calls[c].key /\ i.active}
<1>1. /\ calls[c].at = "find" /\ store' = store
      /\ UNCHANGED <<now, isolated, queue, turn, saved>>
  BY DEF FindIdentity
<1>2. calls[c].at \in InTransaction /\ {"newUser", "session"} \subseteq InTransaction
  BY <1>1 DEF InTransaction
<1>3. /\ TypeOK /\ store \in Store /\ Sound(store) /\ CallKnows(c)
      /\ isolated => ProgressOf(c) /\ saved \in Store
  BY <1>2, InsideFacts
<1>4. calls[c].op = "finish"
  BY <1>1, <1>2, <1>3 DEF CallKnows, Places, TypeOK, Local
<1>5. KeepsSound(store, store')
  BY <1>1, <1>3, SameStoreKeeps
<1>6. isolated => UsableThen(c) /\ store = UsedUp(c)
  BY <1>1, <1>3, <1>4 DEF ProgressOf, FinishProgress
<1>7. CASE calls' = [calls EXCEPT ![c].at = "newUser"]
  <2>1. /\ \E me : Goes(c, me)
        /\ calls'[c].at = "newUser" /\ calls'[c].op = calls[c].op
        /\ calls'[c].time = calls[c].time /\ calls'[c].link = calls[c].link
        /\ calls'[c].key = calls[c].key
    BY <1>1, <1>2, <1>3, <1>7, Place
  <2>2. CallKnows(c)'
    BY <1>1, <1>3, <1>4, <2>1 DEF CallKnows, Places
  <2>3. ASSUME isolated
        PROVE  ProgressOf(c)'
    <3>1. UsableThen(c)' /\ UsedUp(c)' = UsedUp(c)
      BY <1>1, <1>6, <2>1, <2>3 DEF UsableThen, UsedUp
    <3> QED
      BY <1>1, <1>4, <1>6, <2>1, <2>3, <3>1 DEF ProgressOf, FinishProgress
  <2> QED
    BY <1>5, <2>1, <2>2, <2>3 DEF GoesWell
<1>8. ASSUME NEW i \in own, calls' = WithUser(calls, c, "session", i.user)
      PROVE  GoesWell(c)
  <2>1. i \in Identity /\ i \in store.identities /\ i.key = calls[c].key /\ i.active
    BY <1>3, StoreParts
  <2>2. i.user \in User /\ i.active = TRUE
    BY <2>1 DEF Identity
  <2>3. /\ \E me : Goes(c, me)
        /\ calls'[c].at = "session" /\ calls'[c].op = calls[c].op
        /\ calls'[c].time = calls[c].time /\ calls'[c].link = calls[c].link
        /\ calls'[c].key = calls[c].key /\ calls'[c].user = i.user
    BY <1>1, <1>2, <1>3, <1>8, <2>2, PlaceAndUser
  <2>4. /\ calls[c].link \in DOMAIN store.links /\ store.links[calls[c].link].consumed
        /\ calls[c].key = store.links[calls[c].link].key
    BY <1>1, <1>3, <1>4 DEF CallKnows
  <2>5. i.user \in store.users
    BY <1>3, <2>1 DEF Sound, IdentitiesSound
  <2>6. Opened(store, calls[c].link, i.user)
    BY <2>1, <2>4 DEF Opened
  <2>7. CallKnows(c)'
    BY <1>1, <1>3, <1>4, <2>3, <2>4, <2>5, <2>6 DEF CallKnows, Places
  <2>8. ASSUME isolated
        PROVE  ProgressOf(c)'
    <3>1. UsableThen(c)' /\ UsedUp(c)' = UsedUp(c)
      BY <1>1, <1>6, <2>3, <2>8 DEF UsableThen, UsedUp
    <3>2. store.identities = saved.identities
      BY <1>3, <1>6, <2>8, UsedUpParts
    <3>3. i = [key |-> i.key, user |-> i.user, active |-> TRUE]
      BY <2>1, <2>2 DEF Identity
    <3>4. Own(c)' = i
      BY <2>1, <2>3, <3>3 DEF Own
    <3>5. Known(c)'
      BY <1>1, <2>1, <3>2, <3>4 DEF Known
    <3> QED
      BY <1>1, <1>4, <1>6, <2>3, <2>8, <3>1, <3>5 DEF ProgressOf, FinishProgress
  <2> QED
    BY <1>5, <2>3, <2>7, <2>8 DEF GoesWell
<1> QED
  BY <1>7, <1>8 DEF FindIdentity, WithUser

LEMMA CreateUserGoes ==
  ASSUME Reliable, isolated => Progress, NEW c \in Call, CreateUser(c)
  PROVE  GoesWell(c)
<1> DEFINE u == Fresh(User \ store.users)
<1>1. /\ calls[c].at = "newUser" /\ User \ store.users # {}
      /\ store' = [store EXCEPT !.users = store.users \cup {u}]
      /\ calls' = WithUser(calls, c, "newIdentity", u)
      /\ UNCHANGED <<now, isolated, queue, turn, saved>>
  BY DEF CreateUser, WithUser
<1>2. u \in User \ store.users
  BY <1>1, FreshIsIn
<1> HIDE DEF u
<1>3. calls[c].at \in InTransaction /\ "newIdentity" \in InTransaction
  BY <1>1 DEF InTransaction
<1>4. /\ TypeOK /\ store \in Store /\ Sound(store) /\ CallKnows(c)
      /\ isolated => ProgressOf(c) /\ saved \in Store
  BY <1>3, InsideFacts
<1>5. calls[c].op = "finish"
  BY <1>1, <1>3, <1>4 DEF CallKnows, Places, TypeOK, Local
<1>6. KeepsSound(store, store')
  BY <1>1, <1>2, <1>4, UserAdded
<1>7. /\ \E me : Goes(c, me)
      /\ calls'[c].at = "newIdentity" /\ calls'[c].op = calls[c].op
      /\ calls'[c].time = calls[c].time /\ calls'[c].link = calls[c].link
      /\ calls'[c].key = calls[c].key /\ calls'[c].user = u
  BY <1>1, <1>2, <1>3, <1>4, PlaceAndUser
<1>8. store'.links = store.links /\ store'.users = store.users \cup {u}
  BY <1>1, <1>4, StoreWith
<1>9. CallKnows(c)'
  BY <1>1, <1>4, <1>5, <1>7, <1>8 DEF CallKnows, Places
<1>10. ASSUME isolated
       PROVE  ProgressOf(c)'
  <2>1. UsableThen(c) /\ store = UsedUp(c)
    BY <1>1, <1>4, <1>5, <1>10 DEF ProgressOf, FinishProgress
  <2>2. UsableThen(c)' /\ UsedUp(c)' = UsedUp(c)
    BY <1>1, <1>7, <2>1 DEF UsableThen, UsedUp
  <2>3. u \notin saved.users
    BY <1>2, <1>4, <1>10, <2>1, UsedUpParts
  <2>4. store' = [UsedUp(c)' EXCEPT !.users = UsedUp(c)'.users \cup {u}]
    BY <1>1, <2>1, <2>2
  <2> HIDE DEF UsedUp
  <2> QED
    BY <1>1, <1>5, <1>7, <2>2, <2>3, <2>4 DEF ProgressOf, FinishProgress
<1> QED
  BY <1>6, <1>7, <1>9, <1>10 DEF GoesWell
LEMMA CreateIdentityGoes ==
  ASSUME Reliable, isolated => Progress, NEW c \in Call, CreateIdentity(c)
  PROVE  GoesWell(c)
<1> DEFINE own == Own(c)
<1>1. /\ calls[c].op = "finish" /\ calls[c].at = "newIdentity"
      /\ calls' = [calls EXCEPT ![c].at = "session"]
      /\ \A i \in store.identities : i.key # calls[c].key
      /\ store' = [store EXCEPT !.identities = store.identities \cup {own}]
      /\ UNCHANGED <<now, isolated, queue, turn, saved>>
  BY DEF CreateIdentity, Moves
<1>2. calls[c].at \in InTransaction /\ "session" \in InTransaction
  BY <1>1 DEF InTransaction
<1>3. /\ TypeOK /\ store \in Store /\ Sound(store) /\ CallKnows(c)
      /\ isolated => ProgressOf(c) /\ saved \in Store
  BY <1>2, InsideFacts
<1>4. /\ \E me : Goes(c, me)
      /\ calls'[c].at = "session" /\ calls'[c].op = calls[c].op
      /\ calls'[c].time = calls[c].time /\ calls'[c].link = calls[c].link
      /\ calls'[c].key = calls[c].key /\ calls'[c].user = calls[c].user
  BY <1>1, <1>2, <1>3, Place
<1>5. /\ calls[c].link \in DOMAIN store.links /\ store.links[calls[c].link].consumed
      /\ calls[c].key = store.links[calls[c].link].key
      /\ calls[c].user \in store.users
  BY <1>1, <1>3 DEF CallKnows
<1>6. calls[c].key \in Key /\ calls[c].user \in User
  <2>1. store.links[calls[c].link] \in Link
    BY <1>3, <1>5, StoreParts, LinksParts
  <2>2. store.users \subseteq User
    BY <1>3, StoreParts
  <2> QED
    BY <1>5, <2>1, <2>2, LinkNumbers
<1>7. own \in Identity /\ own.active /\ own.key = calls[c].key /\ own.user = calls[c].user
  BY <1>6 DEF Own, Identity
<1>8. own' = own
  BY <1>4 DEF Own
<1> HIDE DEF own
<1>9. KeepsSound(store, store')
  BY <1>1, <1>3, <1>5, <1>7, IdentityAdded
<1>10. /\ store'.links = store.links /\ store'.users = store.users
       /\ store'.identities = store.identities \cup {own}
  BY <1>1, <1>3, StoreWith
<1>11. Opened(store', calls[c].link, calls[c].user)
  BY <1>5, <1>7, <1>10 DEF Opened
<1>12. CallKnows(c)'
  <2>1. /\ calls'[c].link \in DOMAIN store'.links /\ store'.links[calls'[c].link].consumed
        /\ calls'[c].key = store'.links[calls'[c].link].key
        /\ calls'[c].user \in store'.users /\ Opened(store', calls'[c].link, calls'[c].user)
    BY <1>4, <1>5, <1>10, <1>11
  <2>2. calls[c].op = "finish" /\ now' = now
    BY <1>1
  <2> QED
    BY <1>3, <1>4, <2>1, <2>2 DEF CallKnows, Places
<1>13. ASSUME isolated
       PROVE  ProgressOf(c)'
  <2>1. /\ UsableThen(c) /\ calls[c].user \notin saved.users
        /\ store = [UsedUp(c) EXCEPT !.users = UsedUp(c).users \cup {calls[c].user}]
    BY <1>1, <1>3, <1>13 DEF ProgressOf, FinishProgress
  <2>2. UsableThen(c)' /\ UsedUp(c)' = UsedUp(c)
    BY <1>1, <1>4, <2>1 DEF UsableThen, UsedUp
  <2>3. UsedUp(c) \in Store /\ UsedUp(c).identities = saved.identities
    BY <1>3, <1>13, <2>1, UsedUpParts
  <2>4. store.identities = saved.identities
    BY <2>1, <2>3, StoreWith
  <2>5. NewHere(c)'
    BY <1>1, <1>4, <2>1, <2>4 DEF NewHere
  <2>6. store' = [UsedUp(c) EXCEPT !.users = UsedUp(c).users \cup {calls[c].user},
                                   !.identities = UsedUp(c).identities \cup {own}]
    <3>1. store.identities = UsedUp(c).identities
      BY <2>3, <2>4
    <3> HIDE DEF UsedUp
    <3> QED
      BY <1>1, <2>1, <2>3, <3>1
  <2>7. store' = [UsedUp(c)' EXCEPT !.users = UsedUp(c)'.users \cup {calls'[c].user},
                                    !.identities = UsedUp(c)'.identities \cup {own'}]
    BY <1>4, <1>8, <2>2, <2>6
  <2> HIDE DEF UsedUp, NewHere
  <2> QED
    BY <1>1, <1>4, <2>2, <2>5, <2>7 DEF ProgressOf, FinishProgress, own
<1> QED
  BY <1>4, <1>9, <1>12, <1>13 DEF GoesWell

LEMMA CreateReplacementGoes ==
  ASSUME Reliable, isolated => Progress, NEW c \in Call, CreateReplacement(c)
  PROVE  GoesWell(c)
<1> DEFINE l == calls[c].link
           x == Fresh(LinkId \ DOMAIN store.links)
           r == NewLink(c, l)
           g == Current!Put(store.links, x, r)
<1>1. /\ calls[c].op = "resend" /\ calls[c].at = "create"
      /\ calls' = [calls EXCEPT ![c].at = "expire"]
      /\ LinkId \ DOMAIN store.links # {}
      /\ store' = [store EXCEPT !.links = g]
      /\ UNCHANGED <<now, isolated, queue, turn, saved>>
  BY DEF CreateReplacement, Moves
<1>2. x \in LinkId \ DOMAIN store.links
  BY <1>1, FreshIsIn
<1> HIDE DEF x
<1>3. calls[c].at \in InTransaction /\ "expire" \in InTransaction
  BY <1>1 DEF InTransaction
<1>4. /\ TypeOK /\ store \in Store /\ Sound(store) /\ CallKnows(c)
      /\ isolated => ProgressOf(c) /\ saved \in Store
  BY <1>3, InsideFacts
<1>5. /\ \E me : Goes(c, me)
      /\ calls'[c].at = "expire" /\ calls'[c].op = calls[c].op
      /\ calls'[c].time = calls[c].time /\ calls'[c].link = calls[c].link
      /\ calls'[c].key = calls[c].key
  BY <1>1, <1>3, <1>4, Place
<1>6. l \in DOMAIN store.links /\ calls[c].key = store.links[l].key
  BY <1>1, <1>4 DEF CallKnows
<1>7. calls[c].key \in Key /\ l \in LinkId /\ calls[c].time \in 0..MaxTime
  <2>1. store.links \in Links
    BY <1>4, StoreParts
  <2>2. store.links[l] \in Link /\ l \in LinkId
    BY <1>6, <2>1, LinksParts
  <2> QED
    BY <1>4, <1>6, <2>2, LinkNumbers, CallFields
<1>8. /\ g \in Links /\ DOMAIN g = DOMAIN store.links \cup {x}
      /\ \A y \in DOMAIN store.links : g[y] = store.links[y]
  <2> DEFINE f == store.links
             put == Current!Put(f, x, r)
  <2>1. f \in Links /\ x \in LinkId \ DOMAIN f
    BY <1>2, <1>4, StoreParts
  <2>2. r \in Link
    BY <1>7, NewLinkTyped DEF NewLink
  <2> HIDE DEF f, r, put
  <2>3. /\ put \in Links /\ DOMAIN put = DOMAIN f \cup {x}
        /\ \A y \in DOMAIN f : put[y] = f[y]
    BY <2>1, <2>2, PutLink, ZenonT(30) DEF put
  <2> QED
    BY <2>3, Zenon DEF f, put
<1>9. r' = r
  BY <1>5 DEF NewLink
<1> HIDE DEF g
<1>10. KeepsSound(store, store')
  BY <1>1, <1>4, <1>8, LinksChange
<1>11. store'.links = g
  BY <1>1, <1>4, StoreWith
<1>12. CallKnows(c)'
  <2>1. /\ calls'[c].link \in DOMAIN store'.links
        /\ calls'[c].key = store'.links[calls'[c].link].key
    BY <1>5, <1>6, <1>8, <1>11
  <2>2. calls[c].op = "resend" /\ now' = now
    BY <1>1
  <2> QED
    BY <1>4, <1>5, <2>1, <2>2 DEF CallKnows, Places
<1>13. ASSUME isolated
       PROVE  ProgressOf(c)'
  <2>1. ReplaceableThen(c) /\ store = saved /\ calls[c].key = saved.links[l].key
    BY <1>1, <1>4, <1>13 DEF ProgressOf, ResendProgress
  <2>2. ReplaceableThen(c)'
    BY <1>1, <1>5, <2>1 DEF ReplaceableThen
  <2>3. /\ x \in LinkId \ DOMAIN saved'.links
        /\ store' = [saved' EXCEPT !.links = Current!Put(saved'.links, x, NewLink(c, l)')]
    BY <1>1, <1>2, <1>9, <2>1 DEF g
  <2>4. /\ calls'[c].op = "resend" /\ calls'[c].at = "expire" /\ calls'[c].link = l
        /\ calls'[c].key = saved'.links[l].key
    BY <1>1, <1>5, <2>1
  <2>5. NewLink(c, l)' = NewLink(c, calls[c].link)'
    BY <2>4
  <2> QED
    BY <2>2, <2>3, <2>4, <2>5 DEF ProgressOf, ResendProgress
<1> QED
  BY <1>5, <1>10, <1>12, <1>13 DEF GoesWell
-----------------------------------------------------------------------------
(* The last repository call of an operation, and what it commits. *)

\* ReplacedEnded without call c, which is done.
EndedBut(c, st) ==
  \A x \in DOMAIN st.links : LET l == st.links[x].replaces IN
    l # None =>
      /\ l \in DOMAIN st.links /\ st.links[l].expiresAt <= now
      /\ \A d \in Call \ {c} : calls[d].op = "resend" => st.links[l].expiresAt <= calls[d].time

LeavesWell(c) ==
  /\ Leaves(c)
  /\ store' \in Store /\ Sound(store')
  /\ isolated \/ Keeps(store, store')
  /\ isolated => /\ UsedOnce(store') /\ EndedBut(c, store')
                 /\ Atomic!Next \/ UNCHANGED Committed

\* Replaced links stay ended when links are added that replace none, used up, or ended.
LEMMA EndedFrame ==
  ASSUME TypeOK, NEW c \in Call, NEW st \in Store, NEW new \in Store, EndedBut(c, st),
         \A x \in DOMAIN st.links :
           /\ x \in DOMAIN new.links /\ new.links[x].replaces = st.links[x].replaces
           /\ new.links[x].expiresAt <= st.links[x].expiresAt,
         \A x \in DOMAIN new.links \ DOMAIN st.links : new.links[x].replaces = None
  PROVE  EndedBut(c, new)
<1> SUFFICES ASSUME NEW x \in DOMAIN new.links, new.links[x].replaces # None
             PROVE  LET l == new.links[x].replaces IN
                    /\ l \in DOMAIN new.links /\ new.links[l].expiresAt <= now
                    /\ \A d \in Call \ {c} : calls[d].op = "resend" =>
                         new.links[l].expiresAt <= calls[d].time
  BY DEF EndedBut
<1> DEFINE l == new.links[x].replaces
<1>1. x \in DOMAIN st.links /\ l = st.links[x].replaces
  OBVIOUS
<1>2. /\ l \in DOMAIN st.links /\ st.links[l].expiresAt <= now
      /\ \A d \in Call \ {c} : calls[d].op = "resend" => st.links[l].expiresAt <= calls[d].time
  BY <1>1 DEF EndedBut
<1> HIDE DEF l
<1>3. l \in DOMAIN new.links /\ new.links[l].expiresAt <= st.links[l].expiresAt
  BY <1>2
<1>4. st.links[l].expiresAt \in Nat /\ new.links[l].expiresAt \in Nat
  <2>1. st.links[l] \in Link /\ new.links[l] \in Link
    BY <1>2, <1>3, StoreParts, LinksParts
  <2> QED
    BY <2>1, LinkNumbers
<1>5. now \in Nat /\ \A d \in Call : calls[d].time \in Nat
  BY NumbersNatural DEF TypeOK, Local
<1>6. new.links[l].expiresAt <= now
  BY <1>2, <1>3, <1>4, <1>5
<1>7. ASSUME NEW d \in Call \ {c}, calls[d].op = "resend"
      PROVE  new.links[l].expiresAt <= calls[d].time
  BY <1>2, <1>3, <1>4, <1>5, <1>7
<1> QED
  BY <1>3, <1>6, <1>7 DEF l

\* What a step outside relies on of the snapshot when it commits.
LEMMA CommitFacts ==
  ASSUME Reliable, isolated, Transactional, NEW c \in Call, calls[c].at \in InTransaction
  PROVE  /\ TypeOK /\ CallKnows(c) /\ calls[c].time \in 0..now /\ calls[c].time \in Nat
         /\ now \in Nat
         /\ saved \in Store /\ Sound(saved) /\ UsedOnce(saved) /\ EndedBut(c, saved)
         /\ Committed = saved /\ ProgressOf(c)
         /\ \A x \in DOMAIN saved.links : calls[c].op = "resend" /\ calls[c].link # None
              /\ saved.links[x].replaces = calls[c].link
                => saved.links[calls[c].link].expiresAt <= calls[c].time
<1>1. TypeOK /\ CallKnows(c)
  BY DEF Reliable
<1>2. turn = c /\ turn # None /\ saved \in Store /\ Committed = saved
  BY <1>1, TheTurn
<1>3. Sound(saved)
  BY <1>2 DEF Reliable
<1>4. calls[c].time <= now /\ now \in Nat /\ calls[c].time \in Nat
  BY <1>1, CallFields, NumbersNatural DEF CallKnows, TypeOK
<1>5. calls[c].time \in 0..now
  BY <1>4
<1>6. UsedOnce(saved) /\ ReplacedEnded(saved) /\ ProgressOf(c)
  BY <1>2 DEF Transactional, Progress
<1>7. EndedBut(c, saved)
  BY <1>6 DEF EndedBut, ReplacedEnded
<1>8. \A x \in DOMAIN saved.links : calls[c].op = "resend" /\ calls[c].link # None
              /\ saved.links[x].replaces = calls[c].link
                => saved.links[calls[c].link].expiresAt <= calls[c].time
  BY <1>6 DEF ReplacedEnded
<1> QED
  BY <1>1, <1>2, <1>3, <1>4, <1>5, <1>6, <1>7, <1>8

\* The store before the last step of a finish, whether the user is new or not.
LEMMA FinishedButSession ==
  ASSUME Reliable, isolated, Transactional, NEW c \in Call,
         calls[c].op = "finish", calls[c].at = "session"
  PROVE  /\ UsableThen(c) /\ store.links = UsedUp(c).links
         /\ store.users = saved.users \cup {calls[c].user}
         /\ store.identities = saved.identities \cup {Own(c)}
         /\ store.sessions = saved.sessions
         /\ Known(c) \/ NewHere(c)
<1>1. calls[c].at \in InTransaction
  BY DEF InTransaction
<1>2. saved \in Store /\ Sound(saved) /\ ProgressOf(c)
  BY <1>1, CommitFacts
<1>3. /\ UsableThen(c)
      /\ \/ Known(c) /\ store = UsedUp(c)
         \/ /\ NewHere(c)
            /\ store = [UsedUp(c) EXCEPT !.users = UsedUp(c).users \cup {calls[c].user},
                                         !.identities = UsedUp(c).identities \cup {Own(c)}]
  BY <1>2 DEF ProgressOf, FinishProgress
<1>4. /\ UsedUp(c).users = saved.users /\ UsedUp(c) \in Store
      /\ UsedUp(c).identities = saved.identities /\ UsedUp(c).sessions = saved.sessions
  BY <1>2, <1>3, UsedUpParts
<1>5. CASE Known(c) /\ store = UsedUp(c)
  <2>1. Own(c) \in saved.identities /\ Own(c).user = calls[c].user
    BY <1>5 DEF Known, Own
  <2>2. calls[c].user \in saved.users
    BY <1>2, <2>1 DEF Sound, IdentitiesSound
  <2> QED
    BY <1>3, <1>4, <1>5, <2>1, <2>2
<1>6. CASE /\ NewHere(c)
           /\ store = [UsedUp(c) EXCEPT !.users = UsedUp(c).users \cup {calls[c].user},
                                        !.identities = UsedUp(c).identities \cup {Own(c)}]
  <2> HIDE DEF UsedUp
  <2>1. /\ store.links = UsedUp(c).links /\ store.sessions = UsedUp(c).sessions
        /\ store.users = UsedUp(c).users \cup {calls[c].user}
        /\ store.identities = UsedUp(c).identities \cup {Own(c)}
    BY <1>4, <1>6 DEF Store
  <2> QED
    BY <1>3, <1>4, <1>6, <2>1
<1> QED
  BY <1>3, <1>5, <1>6
LEMMA CreateSessionLeaves ==
  ASSUME Reliable, isolated => Transactional, NEW c \in Call, CreateSession(c)
  PROVE  LeavesWell(c)
<1> DEFINE l == calls[c].link
           u == calls[c].user
           s == [user |-> u, link |-> l, by |-> c]
<1>1. /\ calls[c].op = "finish" /\ calls[c].at = "session"
      /\ store' = [store EXCEPT !.sessions = store.sessions \cup {s}]
      /\ calls' = [calls EXCEPT ![c] = Done] /\ turn' = None /\ saved' = None
      /\ UNCHANGED <<now, isolated, queue>>
  BY DEF CreateSession, Returns
<1>2. calls[c].at \in InTransaction
  BY <1>1 DEF InTransaction
<1>3. Leaves(c)
  BY <1>1, <1>2 DEF Leaves
<1>4. TypeOK /\ store \in Store /\ Sound(store) /\ CallKnows(c)
  BY DEF Reliable, TypeOK
<1>5. Opened(store, l, u) /\ l \in LinkId /\ u \in store.users
  BY <1>1, <1>4 DEF CallKnows
<1>6. u \in User
  BY <1>4, <1>5, StoreParts
<1>7. s \in Session /\ s.link = l /\ s.user = u
  BY <1>5, <1>6 DEF Session
<1>8. KeepsSound(store, store')
  BY <1>1, <1>4, <1>5, <1>7, SessionAdded
<1>9. /\ store'.links = store.links /\ store'.users = store.users
      /\ store'.identities = store.identities /\ store'.sessions = store.sessions \cup {s}
      /\ store' = [links |-> store.links, users |-> store.users,
                   identities |-> store.identities, sessions |-> store.sessions \cup {s}]
  BY <1>1, <1>4, StoreWith
<1>10. ASSUME isolated
       PROVE  UsedOnce(store') /\ EndedBut(c, store') /\ Atomic!Next
  <2> DEFINE g == [saved.links EXCEPT ![l].consumed = TRUE]
  <2>1. /\ saved \in Store /\ Sound(saved) /\ UsedOnce(saved) /\ EndedBut(c, saved)
        /\ Committed = saved /\ calls[c].time \in 0..now
    BY <1>2, <1>10, CommitFacts
  <2>2. /\ UsableThen(c) /\ store.links = UsedUp(c).links
        /\ store.users = saved.users \cup {u}
        /\ store.identities = saved.identities \cup {Own(c)}
        /\ store.sessions = saved.sessions
        /\ Known(c) \/ NewHere(c)
    BY <1>1, <1>10, FinishedButSession
  <2>3. /\ store.links = g /\ DOMAIN g = DOMAIN saved.links
        /\ \A x \in DOMAIN g : /\ g[x].replaces = saved.links[x].replaces
                               /\ g[x].expiresAt = saved.links[x].expiresAt
    BY <2>1, <2>2, UsedUpParts
  <2>4. l \in DOMAIN saved.links /\ calls[c].key = saved.links[l].key
    BY <2>2 DEF UsableThen
  <2>5. ~saved.links[l].consumed
    BY <2>2 DEF UsableThen, Current!isUsable
  <2>6. Atomic!isUsable(Committed.links, l, calls[c].time)
    BY <2>1, <2>2 DEF UsableThen, Current!isUsable, Atomic!isUsable
  <2> HIDE DEF g
  <2>7. UsedOnce(store')
    <3>1. \A r \in saved.sessions : r.link # l
      BY <2>1, <2>5 DEF Sound, SessionsSound, Opened
    <3>2. store'.sessions = saved.sessions \cup {s}
      BY <1>9, <2>2
    <3> QED
      BY <1>7, <2>1, <3>1, <3>2 DEF UsedOnce
  <2>8. EndedBut(c, store')
    <3>1. store' \in Store
      BY <1>8 DEF KeepsSound
    <3>2. \A x \in DOMAIN saved.links : saved.links[x].expiresAt \in Nat
      BY <2>1, StoreParts, LinksParts, LinkNumbers
    <3>3. \A x \in DOMAIN saved.links :
            /\ x \in DOMAIN store'.links /\ store'.links[x].replaces = saved.links[x].replaces
            /\ store'.links[x].expiresAt <= saved.links[x].expiresAt
      BY <1>9, <2>3, <3>2
    <3>4. DOMAIN store'.links = DOMAIN saved.links
      BY <1>9, <2>3
    <3> QED
      BY <1>4, <2>1, <3>1, <3>3, <3>4, EndedFrame
  <2>9. Atomic!Finish(l, calls[c].time, u, c)
    <3>1. Committed' = store'
      BY <1>1 DEF Committed
    <3>2. Own(c) = [key |-> Committed.links[l].key, user |-> u, active |-> TRUE]
      BY <2>1, <2>4 DEF Own
    <3>3. \/ Own(c) \in Committed.identities
          \/ u \notin Committed.users
             /\ \A i \in Committed.identities : i.key # Committed.links[l].key
      BY <2>1, <2>2, <2>4 DEF Known, NewHere
    <3>4. Committed' = [links |-> [Committed.links EXCEPT ![l].consumed = TRUE],
                        users |-> Committed.users \cup {u},
                        identities |-> Committed.identities \cup {Own(c)},
                        sessions |-> Committed.sessions \cup {s}]
      BY <1>9, <2>1, <2>2, <2>3, <3>1 DEF g
    <3> QED
      BY <2>1, <2>4, <2>6, <3>2, <3>3, <3>4 DEF Atomic!Finish
  <2>10. Atomic!Next
    BY <1>5, <1>6, <2>1, <2>9 DEF Atomic!Next
  <2> QED
    BY <2>7, <2>8, <2>10
<1> QED
  BY <1>3, <1>8, <1>10 DEF LeavesWell, KeepsSound

LEMMA CreateLinkLeaves ==
  ASSUME Reliable, isolated => Transactional, NEW c \in Call, CreateLink(c)
  PROVE  LeavesWell(c)
<1> DEFINE x == Fresh(LinkId \ DOMAIN store.links)
           r == NewLink(c, None)
           g == Current!Put(store.links, x, r)
<1>1. /\ calls[c].op = "start" /\ calls[c].at = "create"
      /\ LinkId \ DOMAIN store.links # {}
      /\ store' = [store EXCEPT !.links = g]
      /\ calls' = [calls EXCEPT ![c] = Done] /\ turn' = None /\ saved' = None
      /\ UNCHANGED <<now, isolated, queue>>
  BY DEF CreateLink, Returns
<1>2. calls[c].at \in InTransaction
  BY <1>1 DEF InTransaction
<1>3. Leaves(c)
  BY <1>1, <1>2 DEF Leaves
<1>4. TypeOK /\ store \in Store /\ Sound(store) /\ CallKnows(c) /\ store.links \in Links
  BY StoreParts DEF Reliable, TypeOK
<1>5. calls[c].key \in Key /\ calls[c].time \in 0..MaxTime
  BY <1>1, <1>4, CallFields DEF CallKnows
<1>6. r \in Link /\ r.replaces = None
  BY <1>5, NewLinkTyped DEF NewLink
<1>7. x \in LinkId \ DOMAIN store.links
  BY <1>1, FreshIsIn
<1> HIDE DEF x, r
<1>8. /\ g \in Links /\ DOMAIN g = DOMAIN store.links \cup {x} /\ g[x] = r
      /\ \A y \in DOMAIN store.links : g[y] = store.links[y]
  <2> DEFINE f == store.links
             put == Current!Put(f, x, r)
  <2>1. f \in Links /\ x \in LinkId \ DOMAIN f /\ r \in Link
    BY <1>4, <1>6, <1>7
  <2> HIDE DEF f, put
  <2>2. /\ put \in Links /\ DOMAIN put = DOMAIN f \cup {x} /\ put[x] = r
        /\ \A y \in DOMAIN f : put[y] = f[y]
    BY <2>1, PutLink, ZenonT(30) DEF put
  <2> QED
    BY <2>2, Zenon DEF f, put
<1> HIDE DEF g
<1>9. KeepsSound(store, store')
  BY <1>1, <1>4, <1>8, LinksChange
<1>10. store'.links = g /\ store'.sessions = store.sessions
  BY <1>1, <1>4, StoreWith
<1>11. ASSUME isolated
       PROVE  UsedOnce(store') /\ EndedBut(c, store') /\ Atomic!Next
  <2>1. /\ saved \in Store /\ UsedOnce(saved) /\ EndedBut(c, saved)
        /\ Committed = saved /\ calls[c].time \in 0..now /\ ProgressOf(c)
    BY <1>2, <1>11, CommitFacts
  <2>2. store = saved
    BY <1>1, <2>1 DEF ProgressOf
  <2>3. UsedOnce(store')
    BY <1>10, <2>1, <2>2 DEF UsedOnce
  <2>4. EndedBut(c, store')
    <3>1. store' \in Store
      BY <1>9 DEF KeepsSound
    <3>2. \A y \in DOMAIN saved.links : saved.links[y].expiresAt \in Nat
      BY <2>1, StoreParts, LinksParts, LinkNumbers
    <3>3. \A y \in DOMAIN saved.links :
            /\ y \in DOMAIN store'.links /\ store'.links[y].replaces = saved.links[y].replaces
            /\ store'.links[y].expiresAt <= saved.links[y].expiresAt
      BY <1>8, <1>10, <2>2, <3>2
    <3>4. \A y \in DOMAIN store'.links \ DOMAIN saved.links : store'.links[y].replaces = None
      BY <1>6, <1>8, <1>10, <2>2
    <3> QED
      BY <1>4, <2>1, <3>1, <3>3, <3>4, EndedFrame
  <2>5. Atomic!Start(calls[c].key, calls[c].time, x)
    <3>1. Committed' = store'
      BY <1>1 DEF Committed
    <3>2. g = Atomic!Put(Committed.links, x, Atomic!NewLink(calls[c].key, calls[c].time, None))
      BY <2>1, <2>2 DEF g, r, NewLink, Current!NewLink, Atomic!NewLink, Current!Put, Atomic!Put
    <3>3. Committed' = [Committed EXCEPT !.links = g]
      BY <1>1, <2>1, <2>2, <3>1
    <3>4. x \notin DOMAIN Committed.links
      BY <1>7, <2>1, <2>2
    <3> QED
      BY <3>2, <3>3, <3>4 DEF Atomic!Start
  <2>6. Atomic!Next
    BY <1>5, <1>7, <2>1, <2>5 DEF Atomic!Next
  <2> QED
    BY <2>3, <2>4, <2>6
<1> QED
  BY <1>3, <1>9, <1>11 DEF LeavesWell, KeepsSound
\* It does not matter whether the new link is put first or the old one ended.
LEMMA PutThenEnd ==
  ASSUME NEW f \in Links, NEW l \in DOMAIN f, NEW n \in LinkId \ DOMAIN f, NEW r \in Link,
         NEW t \in 0..MaxTime
  PROVE  [Current!Put(f, n, r) EXCEPT ![l].expiresAt = t]
           = Current!Put([f EXCEPT ![l].expiresAt = t], n, r)
<1> DEFINE p == Current!Put(f, n, r)
           e == [f EXCEPT ![l].expiresAt = t]
           lhs == [p EXCEPT ![l].expiresAt = t]
           rhs == Current!Put(e, n, r)
<1> HIDE DEF lhs, rhs
<1>1. p \in Links /\ DOMAIN p = DOMAIN f \cup {n} /\ p[n] = r /\ \A x \in DOMAIN f : p[x] = f[x]
  <2> HIDE DEF e
  <2> QED
    BY PutLink, ZenonT(30) DEF p
<1>2. e \in Links /\ DOMAIN e = DOMAIN f /\ \A x \in DOMAIN f \ {l} : e[x] = f[x]
  BY EndedLink
<1>3. e[l] = [f[l] EXCEPT !.expiresAt = t]
  OBVIOUS
<1> USE DEF rhs
<1> HIDE DEF e
<1>4. /\ rhs \in Links /\ DOMAIN rhs = DOMAIN e \cup {n} /\ rhs[n] = r
      /\ \A x \in DOMAIN e : rhs[x] = e[x]
  BY <1>2, PutLink
<1> HIDE DEF rhs
<1> USE DEF lhs
<1>5. /\ lhs \in Links /\ DOMAIN lhs = DOMAIN p /\ lhs[l] = [p[l] EXCEPT !.expiresAt = t]
      /\ \A x \in DOMAIN p \ {l} : lhs[x] = p[x]
  <2>1. l \in DOMAIN p
    BY <1>1
  <2> HIDE DEF p
  <2> QED
    BY <1>1, <2>1, EndedLink
<1> HIDE DEF p, lhs
<1>6. DOMAIN lhs = DOMAIN rhs
  BY <1>1, <1>2, <1>4, <1>5
<1>7. \A x \in DOMAIN lhs : lhs[x] = rhs[x]
  <2>1. lhs[l] = rhs[l]
    BY <1>1, <1>2, <1>3, <1>4, <1>5
  <2>2. lhs[n] = rhs[n]
    BY <1>1, <1>4, <1>5
  <2> QED
    BY <1>1, <1>2, <1>4, <1>5, <2>1, <2>2
<1>8. lhs \in [DOMAIN lhs -> Link] /\ rhs \in [DOMAIN rhs -> Link]
  BY <1>4, <1>5, LinksParts
<1>9. lhs = rhs
  BY <1>6, <1>7, <1>8
<1> QED
  BY <1>9 DEF lhs, rhs, p, e

\* A resend that is left queues behind the call whose transaction runs.
LEMMA ResendsWait ==
  ASSUME Reliable, isolated, Transactional, NEW c \in Call, calls[c].at \in InTransaction,
         calls[c].op = "resend", NEW d \in Call \ {c}, calls[d].op = "resend"
  PROVE  calls[c].time <= calls[d].time
<1>1. TypeOK /\ CallKnows(d)
  BY DEF Reliable
<1>2. turn = c /\ calls[d].at \notin InTransaction
  BY <1>1, TheTurn
<1>3. calls[d].at = "queued"
  BY <1>1, <1>2 DEF TypeOK, Local, CallKnows
<1>4. d \in {queue[n] : n \in 1..Len(queue)}
  BY <1>1, <1>3 DEF TypeOK
<1>5. Behind(c, d)
  BY <1>2, <1>4 DEF Behind
<1> QED
  BY <1>5 DEF Transactional, QueueTimes

LEMMA ExpireLinkLeaves ==
  ASSUME Reliable, isolated => Transactional, NEW c \in Call, ExpireLink(c)
  PROVE  LeavesWell(c)
<1> DEFINE l == calls[c].link
           t == calls[c].time
           g == [store.links EXCEPT ![l].expiresAt = t]
<1>1. /\ calls[c].op \in {"resend", "cancel"} /\ calls[c].at = "expire"
      /\ store' = [store EXCEPT !.links[l].expiresAt = t]
      /\ calls' = [calls EXCEPT ![c] = Done] /\ turn' = None /\ saved' = None
      /\ UNCHANGED <<now, isolated, queue>>
  BY DEF ExpireLink, Returns
<1>2. calls[c].at \in InTransaction
  BY <1>1 DEF InTransaction
<1>3. Leaves(c)
  BY <1>1, <1>2 DEF Leaves
<1>4. TypeOK /\ store \in Store /\ Sound(store) /\ CallKnows(c) /\ store.links \in Links
  BY StoreParts DEF Reliable, TypeOK
<1>5. l \in DOMAIN store.links /\ l \in LinkId /\ t \in 0..MaxTime
  BY <1>1, <1>4, CallFields DEF CallKnows
<1>6. store' = [store EXCEPT !.links = g]
  BY <1>1, <1>4, <1>5, OneLink
<1>7. /\ g \in Links /\ DOMAIN g = DOMAIN store.links
      /\ \A x \in DOMAIN store.links \ {l} : g[x] = store.links[x]
      /\ g[l].expiresAt = t /\ g[l].key = store.links[l].key
      /\ g[l].consumed = store.links[l].consumed /\ g[l].replaces = store.links[l].replaces
  BY <1>4, <1>5, EndedLink
<1> HIDE DEF g
<1>8. KeepsSound(store, store')
  <2>1. \A x \in DOMAIN store.links :
          /\ x \in DOMAIN g /\ g[x].key = store.links[x].key
          /\ store.links[x].consumed => g[x].consumed
    BY <1>7
  <2> QED
    BY <1>4, <1>6, <1>7, <2>1, LinksChange
<1>9. store'.links = g /\ store'.sessions = store.sessions /\ store' \in Store
  BY <1>4, <1>6, <1>8, StoreWith DEF KeepsSound
<1>10. Committed' = store'
  BY <1>1 DEF Committed
<1>11. CASE isolated /\ calls[c].op = "cancel"
  <2>1. /\ saved \in Store /\ UsedOnce(saved) /\ EndedBut(c, saved)
        /\ Committed = saved /\ t \in 0..now /\ ProgressOf(c)
    BY <1>2, <1>11, CommitFacts
  <2>2. store = saved /\ Current!isUsable(saved.links, l, t)
    BY <1>1, <1>11, <2>1 DEF ProgressOf, CancelProgress
  <2>3. UsedOnce(store')
    BY <1>9, <2>1, <2>2 DEF UsedOnce
  <2>4. EndedBut(c, store')
    <3>1. \A x \in DOMAIN saved.links : saved.links[x].expiresAt \in Nat
      BY <2>1, StoreParts, LinksParts, LinkNumbers
    <3>2. t \in Nat /\ t < saved.links[l].expiresAt
      BY <1>4, <2>2, CallFields DEF Current!isUsable
    <3>3. \A x \in DOMAIN saved.links :
            /\ x \in DOMAIN g /\ g[x].replaces = saved.links[x].replaces
            /\ g[x].expiresAt <= saved.links[x].expiresAt
      BY <1>5, <1>7, <2>2, <3>1, <3>2
    <3>4. DOMAIN g = DOMAIN saved.links
      BY <1>7, <2>2
    <3> QED
      BY <1>4, <1>9, <2>1, <3>3, <3>4, EndedFrame
  <2>5. Atomic!Cancel(l, t)
    <3>1. Committed' = [Committed EXCEPT !.links[l].expiresAt = t]
      BY <1>1, <1>10, <2>1, <2>2
    <3>2. l \in DOMAIN Committed.links /\ Atomic!isUsable(Committed.links, l, t)
      BY <1>5, <2>1, <2>2 DEF Current!isUsable, Atomic!isUsable
    <3> QED
      BY <3>1, <3>2 DEF Atomic!Cancel
  <2>6. Atomic!Next
    BY <1>5, <2>1, <2>5 DEF Atomic!Next
  <2> QED
    BY <1>3, <1>8, <2>3, <2>4, <2>6 DEF LeavesWell, KeepsSound
<1>12. CASE isolated /\ calls[c].op = "resend"
  <2>1. /\ saved \in Store /\ UsedOnce(saved) /\ EndedBut(c, saved) /\ Sound(saved)
        /\ Committed = saved /\ t \in 0..now /\ t \in Nat /\ now \in Nat /\ ProgressOf(c)
    BY <1>2, <1>12, CommitFacts
  <2>2. /\ l \in DOMAIN saved.links /\ Current!ResendAllowed(saved.links, l, t)
        /\ calls[c].key = saved.links[l].key
    BY <1>1, <1>12, <2>1 DEF ProgressOf, ResendProgress, ReplaceableThen
  <2> DEFINE r == NewLink(c, l)
             old == [saved.links EXCEPT ![l].expiresAt = t]
             mid == [saved EXCEPT !.links = old]
  <2>3. PICK n \in LinkId \ DOMAIN saved.links :
          store = [saved EXCEPT !.links = Current!Put(saved.links, n, r)]
    BY <1>1, <1>12, <2>1 DEF ProgressOf, ResendProgress
  <2>4. saved.links \in Links /\ \A x \in DOMAIN saved.links : saved.links[x].expiresAt \in Nat
    BY <2>1, StoreParts, LinksParts, LinkNumbers
  <2>5. calls[c].key \in Key
    <3>1. saved.links[l] \in Link
      BY <2>2, <2>4, LinksParts
    <3> QED
      BY <2>2, <3>1, LinkNumbers
  <2>6. r \in Link /\ r.replaces = l
    BY <1>5, <2>5, NewLinkTyped DEF NewLink
  <2> HIDE DEF r
  <2>7. t < saved.links[l].expiresAt
    BY <2>2 DEF Current!ResendAllowed, Current!isUsable
  <2>8. /\ old \in Links /\ DOMAIN old = DOMAIN saved.links
        /\ \A x \in DOMAIN saved.links \ {l} : old[x] = saved.links[x]
        /\ old[l].expiresAt = t /\ old[l].key = saved.links[l].key
        /\ old[l].consumed = saved.links[l].consumed /\ old[l].replaces = saved.links[l].replaces
    BY <1>5, <2>2, <2>4, EndedLink
  <2>9. store.links = Current!Put(saved.links, n, r) /\ store.sessions = saved.sessions
    BY <2>1, <2>3, StoreWith
  <2>10. g = Current!Put(old, n, r)
    BY <1>5, <2>2, <2>4, <2>6, <2>9, PutThenEnd DEF g
  <2> HIDE DEF old
  <2>11. mid.links = old
    BY <2>1, StoreWith
  <2>12. KeepsSound(saved, mid)
    <3>1. \A x \in DOMAIN saved.links :
            /\ x \in DOMAIN old /\ old[x].key = saved.links[x].key
            /\ saved.links[x].consumed => old[x].consumed
      BY <2>8
    <3> QED
      BY <2>1, <2>8, <3>1, LinksChange
  <2>13. mid \in Store
    BY <2>12 DEF KeepsSound
  <2> HIDE DEF mid
  <2>14. EndedBut(c, mid)
    <3>1. \A x \in DOMAIN saved.links :
            /\ x \in DOMAIN old /\ old[x].replaces = saved.links[x].replaces
            /\ old[x].expiresAt <= saved.links[x].expiresAt
      BY <2>1, <2>4, <2>7, <2>8
    <3> QED
      BY <1>4, <2>1, <2>8, <2>11, <2>13, <3>1, EndedFrame
  <2>15. /\ DOMAIN g = DOMAIN old \cup {n} /\ g[n] = r
         /\ \A x \in DOMAIN old : g[x] = old[x]
    BY <2>6, <2>8, <2>3, <2>10, PutLink
  <2>16. EndedBut(c, store')
    <3> SUFFICES ASSUME NEW x \in DOMAIN g, g[x].replaces # None
                 PROVE  LET y == g[x].replaces IN
                        /\ y \in DOMAIN g /\ g[y].expiresAt <= now
                        /\ \A d \in Call \ {c} : calls[d].op = "resend" =>
                             g[y].expiresAt <= calls[d].time
      BY <1>9 DEF EndedBut
    <3>1. CASE x = n
      <4>1. g[x].replaces = l /\ l \in DOMAIN g /\ g[l].expiresAt = t
        BY <2>2, <2>6, <2>8, <2>15, <3>1
      <4>2. t <= now
        BY <2>1
      <4>3. \A d \in Call \ {c} : calls[d].op = "resend" => t <= calls[d].time
        BY <1>2, <1>12, ResendsWait
      <4> QED
        BY <4>1, <4>2, <4>3
    <3>2. CASE x \in DOMAIN old
      <4>1. g[x].replaces = old[x].replaces
        BY <2>15, <3>2
      <4>2. LET y == old[x].replaces IN
            /\ y \in DOMAIN old /\ old[y].expiresAt <= now
            /\ \A d \in Call \ {c} : calls[d].op = "resend" => old[y].expiresAt <= calls[d].time
        BY <2>11, <2>14, <3>2, <4>1 DEF EndedBut
      <4> QED
        BY <2>15, <4>1, <4>2
    <3> QED
      BY <2>15, <3>1, <3>2
  <2>17. UsedOnce(store')
    BY <1>9, <2>1, <2>9 DEF UsedOnce
  <2>18. Atomic!Resend(l, t, n)
    <3>1. \A x \in DOMAIN Committed.links : Committed.links[x].replaces # l
      <4>1. ASSUME NEW x \in DOMAIN saved.links, saved.links[x].replaces = l
            PROVE  saved.links[l].expiresAt <= t
        <5>1. l # None
          BY <1>5, NoneIsNoValue
        <5> QED
          BY <1>2, <1>12, <4>1, <5>1, CommitFacts
      <4>2. saved.links[l].expiresAt \in Nat
        BY <2>2, <2>4
      <4> QED
        BY <2>1, <2>7, <4>1, <4>2
    <3>2. /\ l \in DOMAIN Committed.links /\ n \notin DOMAIN Committed.links
          /\ Atomic!ResendAllowed(Committed.links, l, t)
      BY <2>1, <2>2, <2>3 DEF Current!ResendAllowed, Current!isUsable,
                              Atomic!ResendAllowed, Atomic!isUsable
    <3>3. g = Atomic!Put([Committed.links EXCEPT ![l].expiresAt = t], n,
                         Atomic!NewLink(Committed.links[l].key, t, l))
      <4>1. r = Atomic!NewLink(Committed.links[l].key, t, l)
        BY <2>1, <2>2 DEF r, NewLink, Current!NewLink, Atomic!NewLink
      <4>2. old = [Committed.links EXCEPT ![l].expiresAt = t]
        BY <2>1 DEF old
      <4> QED
        BY <2>10, <4>1, <4>2 DEF Current!Put, Atomic!Put
    <3>4. Committed' = [Committed EXCEPT !.links = g]
      <4>1. store' = [links |-> g, users |-> store.users, identities |-> store.identities,
                      sessions |-> store.sessions]
        BY <1>4, <1>6, StoreWith
      <4>2. store.users = saved.users /\ store.identities = saved.identities
        BY <2>1, <2>3, StoreWith
      <4>3. [saved EXCEPT !.links = g] = [links |-> g, users |-> saved.users,
               identities |-> saved.identities, sessions |-> saved.sessions]
        BY <2>1, StoreWith
      <4> QED
        BY <1>10, <2>1, <2>9, <4>1, <4>2, <4>3
    <3> QED
      BY <3>1, <3>2, <3>3, <3>4 DEF Atomic!Resend
  <2>19. Atomic!Next
    BY <1>5, <2>1, <2>3, <2>18 DEF Atomic!Next
  <2> QED
    BY <1>3, <1>8, <2>16, <2>17, <2>19 DEF LeavesWell, KeepsSound
<1>13. CASE ~isolated
  BY <1>3, <1>8, <1>13 DEF LeavesWell, KeepsSound
<1> QED
  BY <1>1, <1>11, <1>12, <1>13
\* The instance counts as this module does.
LEMMA SameCount ==
  ASSUME NEW S
  PROVE  Atomic!Cardinality(S) = Cardinality(S)
BY DEF Atomic!Cardinality, Cardinality

LEMMA DisableLeaves ==
  ASSUME Reliable, isolated => Transactional, NEW c \in Call, Disable(c)
  PROVE  LeavesWell(c)
<1> DEFINE own == Own(c)
           ids == (store.identities \ {own}) \cup {[own EXCEPT !.active = FALSE]}
<1>1. /\ calls[c].op = "unlink" /\ calls[c].at = "disable"
      /\ own \in store.identities
      /\ Cardinality(Current!ActiveOf(store.identities, calls[c].user)) > 1
      /\ store' = [store EXCEPT !.identities = ids]
      /\ calls' = [calls EXCEPT ![c] = Done] /\ turn' = None /\ saved' = None
      /\ UNCHANGED <<now, isolated, queue>>
  BY DEF Disable, Returns, ActiveOf
<1>2. own.active /\ own.user = calls[c].user
  BY DEF Own
<1>3. calls[c].at \in InTransaction
  BY <1>1 DEF InTransaction
<1>4. Leaves(c)
  BY <1>1, <1>3 DEF Leaves
<1>5. store \in Store /\ Sound(store)
  BY DEF Reliable, TypeOK
<1> HIDE DEF own
<1>6. KeepsSound(store, store')
  BY <1>1, <1>2, <1>5, IdentityDisabled
<1> HIDE DEF ids
<1>7. store'.links = store.links /\ store'.sessions = store.sessions
  BY <1>1, <1>5, StoreWith
<1>8. ASSUME isolated
      PROVE  UsedOnce(store') /\ EndedBut(c, store') /\ Atomic!Next
  <2>1. /\ UsedOnce(saved) /\ EndedBut(c, saved) /\ Committed = saved /\ ProgressOf(c)
    BY <1>3, <1>8, CommitFacts
  <2>2. store = saved
    BY <1>1, <2>1 DEF ProgressOf
  <2>3. UsedOnce(store') /\ EndedBut(c, store')
    BY <1>7, <2>1, <2>2 DEF UsedOnce, EndedBut
  <2>4. Committed' = store'
    BY <1>1 DEF Committed
  <2>5. Atomic!ActiveOf(Committed.identities, own.user)
          = Current!ActiveOf(store.identities, calls[c].user)
    BY <1>2, <2>1, <2>2 DEF Atomic!ActiveOf, Current!ActiveOf
  <2>6. Atomic!Unlink(own)
    <3>1. /\ own \in Committed.identities /\ own.active
          /\ Atomic!Cardinality(Atomic!ActiveOf(Committed.identities, own.user)) > 1
      BY <1>1, <1>2, <2>1, <2>2, <2>5, SameCount
    <3>2. Committed' = [Committed EXCEPT !.identities =
             (Committed.identities \ {own}) \cup {[own EXCEPT !.active = FALSE]}]
      BY <1>1, <2>1, <2>2, <2>4 DEF ids
    <3> QED
      BY <3>1, <3>2 DEF Atomic!Unlink
  <2>7. Atomic!Next
    BY <1>1, <2>1, <2>2, <2>6 DEF Atomic!Next
  <2> QED
    BY <2>3, <2>7
<1> QED
  BY <1>4, <1>6, <1>8 DEF LeavesWell, KeepsSound

\* The snapshot of a failing operation is what was committed before.
LEMMA FailLeaves ==
  ASSUME Reliable, isolated => Transactional, NEW c \in Call, Fail(c)
  PROVE  LeavesWell(c)
<1>1. Leaves(c) /\ store' = (IF isolated THEN saved ELSE store) /\ turn' = None
  BY DEF Fail, Leaves
<1>2. calls[c].at \in InTransaction
  BY DEF Fail
<1>3. CASE isolated
  <2>1. /\ saved \in Store /\ Sound(saved) /\ UsedOnce(saved) /\ EndedBut(c, saved)
        /\ Committed = saved
    BY <1>2, <1>3, CommitFacts
  <2>2. Committed' = saved
    BY <1>1, <1>3 DEF Committed
  <2> QED
    BY <1>1, <1>3, <2>1, <2>2 DEF LeavesWell
<1>4. CASE ~isolated
  <2>1. store \in Store /\ Sound(store) /\ store' = store
    BY <1>1, <1>4 DEF Reliable, TypeOK
  <2>2. KeepsSound(store, store')
    BY <2>1, SameStoreKeeps
  <2> QED
    BY <1>1, <1>4, <2>2 DEF LeavesWell, KeepsSound
<1> QED
  BY <1>3, <1>4

-----------------------------------------------------------------------------
(* Transactional is kept by each kind of step. *)

LEMMA ProgressFrame ==
  ASSUME NEW d \in Call, ProgressOf(d), calls'[d] = calls[d], store' = store, saved' = saved
  PROVE  ProgressOf(d)'
BY DEF ProgressOf, FinishProgress, ResendProgress, CancelProgress, UsableThen, ReplaceableThen,
       UsedUp, Known, NewHere, Own, NewLink

LEMMA GoesTransactional ==
  ASSUME Reliable, isolated, Transactional, NEW c \in Call, GoesWell(c)
  PROVE  Transactional' /\ Committed' = Committed
<1>1. TypeOK
  BY DEF Reliable
<1>2. PICK me : Goes(c, me)
  BY DEF GoesWell
<1>3. /\ calls[c].at \in InTransaction /\ UNCHANGED <<now, isolated, queue, turn, saved>>
      /\ calls'[c] = me /\ \A d \in Call \ {c} : calls'[d] = calls[d]
      /\ me.op = calls[c].op /\ me.time = calls[c].time
  BY <1>1, <1>2, TheCalls DEF Goes
<1>4. turn = c /\ turn # None /\ Committed = saved
  BY <1>1, <1>3, TheTurn
<1>5. Committed' = Committed
  BY <1>3, <1>4 DEF Committed
<1>6. \A d \in Call : calls'[d].op = calls[d].op /\ calls'[d].time = calls[d].time
  BY <1>3
<1>7. Progress'
  BY <1>3, <1>4 DEF Progress, GoesWell
<1>8. QueueTimes'
  BY <1>3, <1>6 DEF Transactional, QueueTimes, Behind
<1> HIDE DEF Committed
<1>9. UsedOnce(Committed)' /\ ReplacedEnded(Committed)'
  BY <1>3, <1>5, <1>6 DEF Transactional, UsedOnce, ReplacedEnded
<1> QED
  BY <1>5, <1>7, <1>8, <1>9 DEF Transactional

LEMMA LeavesTransactional ==
  ASSUME Reliable, isolated, Transactional, NEW c \in Call, LeavesWell(c)
  PROVE  Transactional'
<1>1. TypeOK
  BY DEF Reliable
<1>2. /\ calls[c].at \in InTransaction /\ UNCHANGED <<now, queue>> /\ turn' = None
      /\ calls'[c] = Done /\ \A d \in Call \ {c} : calls'[d] = calls[d]
  BY <1>1, TheCalls, DoneTyped DEF LeavesWell, Leaves
<1>3. calls'[c].op = "none"
  BY <1>2, DoneTyped
<1>4. Committed' = store'
  BY <1>2 DEF Committed
<1>5. UsedOnce(store') /\ EndedBut(c, store')
  BY DEF LeavesWell
<1>6. Progress'
  BY <1>2, NoneIsNoValue DEF Progress
<1>7. QueueTimes'
  <2>1. \A a, b \in Call : Behind(a, b)' => Behind(a, b)
    BY <1>2, NoneIsNoValue DEF Behind
  <2>2. \A a \in Call : calls'[a].op = "resend" => calls'[a] = calls[a]
    BY <1>2, <1>3
  <2> QED
    BY <2>1, <2>2 DEF Transactional, QueueTimes
<1> HIDE DEF Committed
<1>8. UsedOnce(Committed)'
  BY <1>4, <1>5 DEF UsedOnce
<1>9. ReplacedEnded(Committed)'
  BY <1>2, <1>3, <1>4, <1>5 DEF EndedBut, ReplacedEnded
<1> QED
  BY <1>6, <1>7, <1>8, <1>9 DEF Transactional

LEMMA WaitsTransactional ==
  ASSUME Reliable, isolated, Transactional, NEW c \in Call, NEW me, Waits(c, me),
         me.op = "resend" => me.time = now
  PROVE  Transactional'
<1>1. TypeOK /\ \A d \in Call : CallKnows(d)
  BY DEF Reliable
<1>2. /\ UNCHANGED <<now, isolated, store, turn, saved>> /\ calls'[c] = me /\ me \in Local
      /\ \A d \in Call \ {c} : calls'[d] = calls[d]
  BY <1>1, TheCalls DEF Waits
<1>3. turn # c /\ \A n \in 1..Len(queue) : queue[n] # c
  BY <1>1, WaitsTyped
<1>4. Committed' = Committed
  BY <1>2 DEF Committed
<1>5. Progress'
  <2>1. \A d \in Call \ {c} : ProgressOf(d) => ProgressOf(d)'
    BY <1>2, ProgressFrame
  <2> QED
    BY <1>2, <1>3, <2>1 DEF Transactional, Progress
<1>6. QueueTimes'
  <2>1. /\ queue \in Seq(Call) /\ \A m, n \in 1..Len(queue) : queue[m] = queue[n] => m = n
    BY <1>1 DEF TypeOK
  <2>2. \A a, b \in Call : Behind(a, b)' => b = c \/ (a # c /\ Behind(a, b))
    <3>1. CASE queue' = queue
      BY <1>2, <1>3, <3>1 DEF Behind
    <3>2. CASE queue' = Append(queue, c)
      <4>1. /\ Len(queue') = Len(queue) + 1 /\ queue'[Len(queue) + 1] = c
            /\ \A n \in 1..Len(queue) : queue'[n] = queue[n]
        BY <1>3, <2>1, <3>2, Joined
      <4>2. \A n \in 1..Len(queue') : n \in 1..Len(queue) \/ n = Len(queue) + 1
        BY <2>1, <4>1
      <4>3. ASSUME NEW a \in Call, NEW b \in Call, Behind(a, b)', b # c
            PROVE  a # c /\ Behind(a, b)
        <5>1. CASE turn' = a /\ \E n \in 1..Len(queue') : queue'[n] = b
          BY <1>2, <1>3, <4>1, <4>2, <4>3, <5>1 DEF Behind
        <5>2. CASE \E m, n \in 1..Len(queue') : m < n /\ queue'[m] = a /\ queue'[n] = b
          <6>1. PICK m, n \in 1..Len(queue') : m < n /\ queue'[m] = a /\ queue'[n] = b
            BY <5>2
          <6>2. n \in 1..Len(queue)
            BY <4>1, <4>2, <4>3, <6>1
          <6>3. m \in 1..Len(queue)
            BY <2>1, <4>1, <6>1, <6>2
          <6> QED
            BY <1>3, <4>1, <6>1, <6>2, <6>3 DEF Behind
        <5> QED
          BY <4>3, <5>1, <5>2 DEF Behind
      <4> QED
        BY <4>3
    <3> QED
      BY <3>1, <3>2 DEF Waits
  <2>3. \A d \in Call : calls'[d].op = "resend" => calls'[d].time <= now
    BY <1>1, <1>2, NumbersNatural DEF CallKnows, TypeOK
  <2> QED
    BY <1>2, <2>2, <2>3 DEF Transactional, QueueTimes
<1> HIDE DEF Committed
<1>7. UsedOnce(Committed)'
  BY <1>4 DEF Transactional, UsedOnce
<1>8. ReplacedEnded(Committed)'
  BY <1>2, <1>4 DEF Transactional, ReplacedEnded
<1> QED
  BY <1>5, <1>6, <1>7, <1>8 DEF Transactional

LEMMA EnterTransactional ==
  ASSUME Reliable, isolated, Transactional, NEW c \in Call, Enter(c)
  PROVE  Transactional'
<1> DEFINE me == Entered(calls[c])
<1>1. TypeOK /\ CallKnows(c)
  BY DEF Reliable
<1>2. /\ me \in Local /\ me.op = calls[c].op
      /\ me.at \in {"read", "create"} /\ (me.at = "create" => me.op = "start")
      /\ me.op # "cancel" => me.time = calls[c].time
  BY <1>1, EnteredTyped
<1>3. /\ calls' = [calls EXCEPT ![c] = me] /\ UNCHANGED <<now, isolated, store>>
      /\ queue # << >> /\ c = Head(queue) /\ queue' = Tail(queue)
      /\ turn = None /\ turn' = c /\ saved' = store
  BY DEF Enter
<1> HIDE DEF me
<1>4. calls'[c] = me /\ \A d \in Call \ {c} : calls'[d] = calls[d]
  BY <1>1, <1>2, <1>3, TheCalls
<1>5. Committed' = Committed
  BY <1>1, EnterTyped
<1>6. \A d \in Call : /\ calls'[d].op = "resend" <=> calls[d].op = "resend"
                      /\ calls'[d].op = "resend" => calls'[d].time = calls[d].time
  BY <1>2, <1>4
<1>7. Progress'
  <2>1. ProgressOf(c)'
    BY <1>2, <1>3, <1>4 DEF ProgressOf, FinishProgress, ResendProgress, CancelProgress
  <2> QED
    BY <1>3, <2>1 DEF Progress
<1>8. QueueTimes'
  <2>1. /\ queue \in Seq(Call) /\ \A m, n \in 1..Len(queue) : queue[m] = queue[n] => m = n
    BY <1>1 DEF TypeOK
  <2>2. /\ c = queue[1] /\ 1 \in 1..Len(queue)
        /\ \A n \in 1..Len(queue') : /\ n + 1 \in 1..Len(queue) /\ n + 1 > 1
                                     /\ queue'[n] = queue[n + 1]
    BY <1>3, <2>1, Left
  <2>3. ASSUME NEW a \in Call, NEW b \in Call, Behind(a, b)'
        PROVE  Behind(a, b)
    <3>1. CASE turn' = a /\ \E n \in 1..Len(queue') : queue'[n] = b
      <4>1. PICK n \in 1..Len(queue') : queue'[n] = b
        BY <3>1
      <4>2. /\ 1 \in 1..Len(queue) /\ n + 1 \in 1..Len(queue) /\ 1 < n + 1
            /\ queue[1] = a /\ queue[n + 1] = b
        BY <1>3, <2>2, <3>1, <4>1
      <4> QED
        BY <4>2 DEF Behind
    <3>2. CASE \E m, n \in 1..Len(queue') : m < n /\ queue'[m] = a /\ queue'[n] = b
      <4>1. PICK m, n \in 1..Len(queue') : m < n /\ queue'[m] = a /\ queue'[n] = b
        BY <3>2
      <4>2. /\ m + 1 \in 1..Len(queue) /\ n + 1 \in 1..Len(queue) /\ m + 1 < n + 1
            /\ queue[m + 1] = a /\ queue[n + 1] = b
        BY <2>2, <4>1
      <4> QED
        BY <4>2 DEF Behind
    <3> QED
      BY <2>3, <3>1, <3>2 DEF Behind
  <2> QED
    BY <1>6, <2>3 DEF Transactional, QueueTimes
<1> HIDE DEF Committed
<1>9. UsedOnce(Committed)'
  BY <1>5 DEF Transactional, UsedOnce
<1>10. ReplacedEnded(Committed)'
  BY <1>3, <1>5, <1>6 DEF Transactional, ReplacedEnded
<1> QED
  BY <1>7, <1>8, <1>9, <1>10 DEF Transactional

LEMMA TickTransactional ==
  ASSUME Reliable, isolated, Transactional, Tick
  PROVE  Transactional'
<1>1. TypeOK
  BY DEF Reliable
<1>2. now \in Nat /\ now' = now + 1 /\ UNCHANGED <<isolated, store, queue, turn, saved, calls>>
  BY <1>1, NumbersNatural DEF TypeOK, Tick
<1>3. Committed' = Committed /\ Committed \in Store
  BY <1>1, <1>2 DEF Committed, TypeOK
<1>4. Progress'
  BY <1>2, ProgressFrame DEF Transactional, Progress
<1>5. QueueTimes'
  BY <1>2 DEF Transactional, QueueTimes, Behind
<1> HIDE DEF Committed
<1>6. UsedOnce(Committed)'
  BY <1>3 DEF Transactional, UsedOnce
<1>7. ReplacedEnded(Committed)'
  <2>1. \A l \in DOMAIN Committed.links : Committed.links[l].expiresAt \in Nat
    BY <1>3, StoreParts, LinksParts, LinkNumbers
  <2>2. \A l \in DOMAIN Committed.links :
          Committed.links[l].expiresAt <= now => Committed.links[l].expiresAt <= now'
    BY <1>2, <2>1
  <2> QED
    BY <1>2, <1>3, <2>2 DEF Transactional, ReplacedEnded
<1> QED
  BY <1>4, <1>5, <1>6, <1>7 DEF Transactional
-----------------------------------------------------------------------------
\* A call that is made keeps what there is.
LEMMA BeginsWaits ==
  ASSUME Reliable, NEW c \in Call, Begins(c)
  PROVE  \E me : Waits(c, me) /\ CallKnows(c)' /\ (me.op = "resend" => me.time = now)
<1>1. TypeOK /\ now \in 0..MaxTime /\ store \in Store
  BY DEF Reliable, TypeOK
<1>2. now <= now
  BY <1>1, NumbersNatural
<1>3. ASSUME NEW me \in Local, calls[c].at = "idle", calls' = [calls EXCEPT ![c] = me],
             me.at \in {"limiter", "queued"},
             queue' = IF isolated /\ me.at = "queued" THEN Append(queue, c) ELSE queue,
             UNCHANGED <<now, isolated, store, turn, saved>>,
             me.op # "none", me.time <= now,
             me.at = "limiter" => me.op \in {"start", "finish"},
             me.op = "start" => me.key \in Key,
             me.op = "unlink" => me.key \in Key /\ me.user \in User,
             me.op \in {"finish", "resend", "cancel"} => me.link \in LinkId,
             me.op = "resend" => me.time = now
      PROVE  \E m : Waits(c, m) /\ CallKnows(c)' /\ (m.op = "resend" => m.time = now)
  <2>1. me.at \notin InTransaction
    BY <1>3 DEF InTransaction
  <2>2. Waits(c, me)
    BY <1>3, <2>1 DEF Waits
  <2>3. calls'[c] = me
    BY <1>1, <1>3, TheCalls
  <2>4. CallKnows(c)'
    BY <1>3, <2>1, <2>3 DEF CallKnows
  <2> QED
    BY <1>3, <2>2, <2>4
<1>4. ASSUME NEW key \in LinkKey, StartEmailMagicLink(c, key)
      PROVE  \E me : Waits(c, me) /\ CallKnows(c)' /\ (me.op = "resend" => me.time = now)
  <2> DEFINE called == [Idle EXCEPT !.at = "limiter", !.op = "start", !.key = key, !.time = now]
             me == [at |-> "limiter", op |-> "start", link |-> None, key |-> key,
                    user |-> None, time |-> now]
  <2>1. called = me
    <3>1. ASSUME NEW x, x = called
          PROVE  x = me
      BY <3>1 DEF Idle
    <3> QED
      BY <3>1
  <2>2. /\ calls[c].at = "idle" /\ calls' = [calls EXCEPT ![c] = called]
        /\ UNCHANGED <<now, isolated, store, queue, turn, saved>>
    BY <1>4 DEF StartEmailMagicLink, Called
  <2> HIDE DEF called
  <2>3. key \in Key
    BY LinksReachIdentities
  <2>4. me \in Local
    BY <1>1, <2>3 DEF Local
  <2> QED
    BY <1>2, <1>3, <2>1, <2>2, <2>3, <2>4
<1>5. ASSUME NEW l \in LinkId, FinishEmailMagicLink(c, l)
      PROVE  \E me : Waits(c, me) /\ CallKnows(c)' /\ (me.op = "resend" => me.time = now)
  <2> DEFINE called == [Idle EXCEPT !.at = "limiter", !.op = "finish", !.link = l, !.time = now]
             me == [at |-> "limiter", op |-> "finish", link |-> l, key |-> None,
                    user |-> None, time |-> now]
  <2>1. called = me
    <3>1. ASSUME NEW x, x = called
          PROVE  x = me
      BY <3>1 DEF Idle
    <3> QED
      BY <3>1
  <2>2. /\ calls[c].at = "idle" /\ calls' = [calls EXCEPT ![c] = called]
        /\ UNCHANGED <<now, isolated, store, queue, turn, saved>>
    BY <1>5 DEF FinishEmailMagicLink, Called
  <2> HIDE DEF called
  <2>3. me \in Local
    BY <1>1 DEF Local
  <2> QED
    BY <1>2, <1>3, <2>1, <2>2, <2>3
<1>6. ASSUME NEW l \in LinkId, ResendEmailMagicLink(c, l)
      PROVE  \E me : Waits(c, me) /\ CallKnows(c)' /\ (me.op = "resend" => me.time = now)
  <2> DEFINE called == [Idle EXCEPT !.at = "queued", !.op = "resend", !.link = l, !.time = now]
             me == [at |-> "queued", op |-> "resend", link |-> l, key |-> None,
                    user |-> None, time |-> now]
  <2>1. called = me
    <3>1. ASSUME NEW x, x = called
          PROVE  x = me
      BY <3>1 DEF Idle
    <3> QED
      BY <3>1
  <2>2. /\ calls[c].at = "idle" /\ calls' = [calls EXCEPT ![c] = called]
        /\ queue' = IF isolated THEN Append(queue, c) ELSE queue
        /\ UNCHANGED <<now, isolated, store, turn, saved>>
    BY <1>6 DEF ResendEmailMagicLink, Called, Queues
  <2> HIDE DEF called
  <2>3. me \in Local
    BY <1>1 DEF Local
  <2> QED
    BY <1>2, <1>3, <2>1, <2>2, <2>3
<1>7. ASSUME NEW l \in LinkId, CancelEmailMagicLink(c, l)
      PROVE  \E me : Waits(c, me) /\ CallKnows(c)' /\ (me.op = "resend" => me.time = now)
  <2> DEFINE called == [Idle EXCEPT !.at = "queued", !.op = "cancel", !.link = l]
             me == [at |-> "queued", op |-> "cancel", link |-> l, key |-> None,
                    user |-> None, time |-> 0]
  <2>1. called = me
    <3>1. ASSUME NEW x, x = called
          PROVE  x = me
      BY <3>1 DEF Idle
    <3> QED
      BY <3>1
  <2>2. /\ calls[c].at = "idle" /\ calls' = [calls EXCEPT ![c] = called]
        /\ queue' = IF isolated THEN Append(queue, c) ELSE queue
        /\ UNCHANGED <<now, isolated, store, turn, saved>>
    BY <1>7 DEF CancelEmailMagicLink, Called, Queues
  <2> HIDE DEF called
  <2>3. me \in Local /\ 0 <= now
    BY <1>1, NumbersNatural DEF Local
  <2> QED
    BY <1>2, <1>3, <2>1, <2>2, <2>3
<1>8. ASSUME NEW i \in store.identities, Unlink(c, i)
      PROVE  \E me : Waits(c, me) /\ CallKnows(c)' /\ (me.op = "resend" => me.time = now)
  <2> DEFINE called == [Idle EXCEPT !.at = "queued", !.op = "unlink", !.key = i.key, !.user = i.user]
             me == [at |-> "queued", op |-> "unlink", link |-> None, key |-> i.key,
                    user |-> i.user, time |-> 0]
  <2>1. called = me
    <3>1. ASSUME NEW x, x = called
          PROVE  x = me
      BY <3>1 DEF Idle
    <3> QED
      BY <3>1
  <2>2. /\ calls[c].at = "idle" /\ calls' = [calls EXCEPT ![c] = called]
        /\ queue' = IF isolated THEN Append(queue, c) ELSE queue
        /\ UNCHANGED <<now, isolated, store, turn, saved>>
    BY <1>8 DEF Unlink, Called, Queues
  <2> HIDE DEF called
  <2>3. i.key \in Key /\ i.user \in User
    <3>1. i \in Identity
      BY <1>1, StoreParts
    <3> QED
      BY <3>1 DEF Identity
  <2>4. me \in Local /\ 0 <= now
    BY <1>1, <2>3, NumbersNatural DEF Local
  <2> QED
    BY <1>2, <1>3, <2>1, <2>2, <2>3, <2>4
<1> QED
  BY <1>4, <1>5, <1>6, <1>7, <1>8 DEF Begins

LEMMA AdmitWaits ==
  ASSUME Reliable, NEW c \in Call, Admit(c)
  PROVE  \E me : Waits(c, me) /\ CallKnows(c)' /\ (me.op = "resend" => me.time = now)
<1>1. TypeOK /\ CallKnows(c) /\ calls \in [Call -> Local] /\ "queued" \notin InTransaction
  BY DEF Reliable, TypeOK, InTransaction
<1>2. /\ calls[c].at = "limiter" /\ calls' = [calls EXCEPT ![c].at = "queued"]
      /\ queue' = IF isolated THEN Append(queue, c) ELSE queue
      /\ UNCHANGED <<now, isolated, store, turn, saved>>
  BY DEF Admit, Queues
<1> DEFINE me == [calls[c] EXCEPT !.at = "queued"]
<1>3. /\ me \in Local /\ me.at = "queued" /\ me.op = calls[c].op /\ me.time = calls[c].time
      /\ me.key = calls[c].key /\ me.link = calls[c].link /\ me.user = calls[c].user
  BY <1>1 DEF Local
<1>4. calls' = [calls EXCEPT ![c] = me]
  BY <1>1, <1>2
<1> HIDE DEF me
<1>5. Waits(c, me)
  BY <1>1, <1>2, <1>3, <1>4 DEF Waits
<1>6. calls'[c] = me
  BY <1>1, <1>3, <1>4, TheCalls
<1>7. CallKnows(c)'
  BY <1>1, <1>2, <1>3, <1>6 DEF CallKnows
<1>8. me.op # "resend"
  BY <1>1, <1>2, <1>3 DEF CallKnows
<1> QED
  BY <1>5, <1>7, <1>8

LEMMA LimitedWaits ==
  ASSUME Reliable, NEW c \in Call, Limited(c)
  PROVE  \E me : Waits(c, me) /\ CallKnows(c)' /\ (me.op = "resend" => me.time = now)
<1>1. TypeOK
  BY DEF Reliable
<1>2. Done.at \notin InTransaction /\ Done.at # "queued" /\ Done.op # "resend"
  BY DoneTyped DEF InTransaction
<1>3. Waits(c, Done)
  BY <1>2, DoneTyped DEF Limited, Waits
<1>4. calls'[c] = Done /\ now' = now
  BY <1>1, DoneTyped, TheCalls DEF Limited
<1> QED
  BY <1>1, <1>2, <1>3, <1>4, DoneKnows

\* Every repository call is one inside of its operation, or the last one.
LEMMA ActsWell ==
  ASSUME Reliable, isolated => Transactional, NEW c \in Call, Acts(c)
  PROVE  GoesWell(c) \/ LeavesWell(c)
<1>1. isolated => Progress
  BY DEF Transactional
<1> QED
  BY <1>1, ReadLinkGoes, ConsumeLinkGoes, FindIdentityGoes, CreateUserGoes, CreateIdentityGoes,
     ReadForResendGoes, CreateReplacementGoes, ReadForCancelGoes, ReadForUnlinkGoes,
     CreateSessionLeaves, CreateLinkLeaves, ExpireLinkLeaves, DisableLeaves DEF Acts

\* What one step does: to the invariant, and to what is committed.
StepWell ==
  /\ Reliable' /\ (isolated => Transactional') /\ isolated' = isolated
  /\ isolated => Atomic!Next \/ Committed' = Committed

LEMMA GoesStep ==
  ASSUME Inv, NEW c \in Call, GoesWell(c)
  PROVE  StepWell
<1>1. PICK me : Goes(c, me)
  BY DEF GoesWell
<1>2. Reliable' /\ isolated' = isolated
  BY <1>1, GoesReliable DEF Inv, GoesWell, Goes
<1>3. isolated => Transactional' /\ Committed' = Committed
  BY GoesTransactional DEF Inv
<1> QED
  BY <1>2, <1>3 DEF StepWell

LEMMA LeavesStep ==
  ASSUME Inv, NEW c \in Call, LeavesWell(c)
  PROVE  StepWell
<1>1. Reliable' /\ isolated' = isolated
  BY LeavesReliable DEF Inv, LeavesWell, Leaves
<1>2. isolated => Transactional'
  BY LeavesTransactional DEF Inv
<1>3. isolated => Atomic!Next \/ Committed' = Committed
  BY DEF LeavesWell
<1> QED
  BY <1>1, <1>2, <1>3 DEF StepWell

LEMMA WaitsStep ==
  ASSUME Inv, NEW c \in Call,
         \E me : Waits(c, me) /\ CallKnows(c)' /\ (me.op = "resend" => me.time = now)
  PROVE  StepWell
<1>1. PICK me : Waits(c, me) /\ CallKnows(c)' /\ (me.op = "resend" => me.time = now)
  OBVIOUS
<1>2. Reliable' /\ Committed' = Committed /\ isolated' = isolated
  BY <1>1, WaitsReliable DEF Inv, Waits
<1>3. isolated => Transactional'
  BY <1>1, WaitsTransactional DEF Inv
<1> QED
  BY <1>2, <1>3 DEF StepWell

LEMMA Step ==
  ASSUME Inv, Next
  PROVE  StepWell
<1>1. Reliable /\ (isolated => Transactional)
  BY DEF Inv
<1>2. ASSUME NEW c \in Call, Begins(c) \/ Admit(c) \/ Limited(c)
      PROVE  StepWell
  BY <1>1, <1>2, BeginsWaits, AdmitWaits, LimitedWaits, WaitsStep
<1>3. ASSUME NEW c \in Call, Enter(c)
      PROVE  StepWell
  <2>1. Reliable' /\ Committed' = Committed /\ isolated' = isolated
    BY <1>1, <1>3, EnterReliable DEF Enter
  <2>2. isolated => Transactional'
    BY <1>1, <1>3, EnterTransactional
  <2> QED
    BY <2>1, <2>2 DEF StepWell
<1>4. ASSUME NEW c \in Call, Acts(c) \/ Fail(c)
      PROVE  StepWell
  BY <1>1, <1>4, ActsWell, FailLeaves, GoesStep, LeavesStep
<1>5. ASSUME Tick
      PROVE  StepWell
  <2>1. Reliable' /\ Committed' = Committed /\ isolated' = isolated
    BY <1>1, <1>5, TickReliable DEF Tick
  <2>2. isolated => Transactional'
    BY <1>1, <1>5, TickTransactional
  <2> QED
    BY <2>1, <2>2 DEF StepWell
<1> QED
  BY <1>2, <1>3, <1>4, <1>5 DEF Next
-----------------------------------------------------------------------------
\* Links just sent, and an identity of its own user for some keys.
LEMMA InitialStore ==
  ASSUME NEW holders \in [Key -> User \cup {None}], NEW sent \in SUBSET LinkId,
         NEW to \in [sent -> LinkKey], NEW st,
         st = [links |-> [l \in sent |-> Current!NewLink(to[l], 0, None)],
               users |-> {holders[k] : k \in Key} \ {None},
               identities |-> {[key |-> k, user |-> holders[k], active |-> TRUE] :
                                 k \in {k \in Key : holders[k] # None}},
               sessions |-> {}]
  PROVE  /\ st \in Store /\ Sound(st) /\ UsedOnce(st)
         /\ \A x \in DOMAIN st.links : st.links[x].replaces = None
<1> DEFINE links == [l \in sent |-> Current!NewLink(to[l], 0, None)]
           users == {holders[k] : k \in Key} \ {None}
           ids == {[key |-> k, user |-> holders[k], active |-> TRUE] :
                     k \in {k \in Key : holders[k] # None}}
<1>1. st = [links |-> links, users |-> users, identities |-> ids, sessions |-> {}]
  OBVIOUS
<1>2. \A l \in sent : links[l] \in Link /\ links[l].replaces = None
  <2> TAKE l \in sent
  <2>1. to[l] \in Key /\ 0 \in 0..MaxTime
    BY LinksReachIdentities, NumbersNatural
  <2> QED
    BY <2>1, NewLinkTyped
<1>3. links \in Links
  <2>1. DOMAIN links = sent /\ links = [l \in sent |-> links[l]]
    OBVIOUS
  <2> HIDE DEF links
  <2>2. links \in [sent -> Link]
    BY <1>2, <2>1
  <2> QED
    BY <2>2, LinksFrom
<1>4. users \in SUBSET User
  OBVIOUS
<1>5. \A i \in ids : /\ i \in Identity /\ i.user \in users /\ i.active
                     /\ i.user = holders[i.key] /\ i = [key |-> i.key, user |-> i.user, active |-> TRUE]
  <2> TAKE i \in ids
  <2>1. PICK k \in Key : holders[k] # None /\ i = [key |-> k, user |-> holders[k], active |-> TRUE]
    OBVIOUS
  <2>2. holders[k] \in User /\ holders[k] \in users
    BY <2>1
  <2>3. i.key = k /\ i.user = holders[k] /\ i.active = TRUE
    BY <2>1
  <2>4. i \in Identity
    BY <2>1, <2>2 DEF Identity
  <2> QED
    BY <2>1, <2>2, <2>3, <2>4
<1>6. DOMAIN links = sent
  OBVIOUS
<1> HIDE DEF links, users, ids
<1>7. st \in Store
  BY <1>1, <1>3, <1>4, <1>5, StoreFrom
<1>8. IdentitiesSound(st)
  <2>1. st.users = users /\ st.identities = ids
    BY <1>1
  <2>2. \A i, j \in ids : i.key = j.key => i = j
    <3> TAKE i, j \in ids
    <3> HAVE i.key = j.key
    <3>1. i.user = j.user
      BY <1>5
    <3> QED
      BY <1>5, <3>1
  <2>3. \A i \in ids : i.user \in users /\ i.active
    BY <1>5
  <2> QED
    BY <2>1, <2>2, <2>3 DEF IdentitiesSound
<1> QED
  BY <1>1, <1>2, <1>6, <1>7, <1>8 DEF Sound, SessionsSound, UsedOnce

LEMMA InitInv ==
  ASSUME Init
  PROVE  Inv
<1>1. store \in Store /\ Sound(store) /\ UsedOnce(store)
      /\ \A x \in DOMAIN store.links : store.links[x].replaces = None
  <2>1. PICK holders \in [Key -> User \cup {None}], sent \in SUBSET LinkId :
          \E to \in [sent -> LinkKey] :
            store = [links |-> [l \in sent |-> Current!NewLink(to[l], 0, None)],
                     users |-> {holders[k] : k \in Key} \ {None},
                     identities |-> {[key |-> k, user |-> holders[k], active |-> TRUE] :
                                       k \in {k \in Key : holders[k] # None}},
                     sessions |-> {}]
    BY DEF Init
  <2>2. PICK to \in [sent -> LinkKey] :
            store = [links |-> [l \in sent |-> Current!NewLink(to[l], 0, None)],
                     users |-> {holders[k] : k \in Key} \ {None},
                     identities |-> {[key |-> k, user |-> holders[k], active |-> TRUE] :
                                       k \in {k \in Key : holders[k] # None}},
                     sessions |-> {}]
    BY <2>1
  <2> QED
    BY <2>2, InitialStore
<1>2. /\ now = 0 /\ isolated \in BOOLEAN /\ queue = << >> /\ turn = None /\ saved = None
      /\ calls = [c \in Call |-> Idle]
  BY DEF Init
<1>3. /\ Idle.at = "idle" /\ Idle.op = "none" /\ Idle.time = 0
      /\ "idle" \notin InTransaction /\ Idle \in Local
  BY DoneTyped DEF Idle, InTransaction
<1>4. calls \in [Call -> Local] /\ \A c \in Call : calls[c] = Idle
  BY <1>2, <1>3
<1>5. TypeOK
  <2>1. 0 \in 0..MaxTime
    BY NumbersNatural
  <2>2. queue \in Seq(Call) /\ 1..Len(queue) = {}
    BY <1>2
  <2>3. /\ {c \in Call : calls[c].at = "queued"} = {}
        /\ {c \in Call : calls[c].at \in InTransaction} = {}
    BY <1>3, <1>4
  <2> QED
    BY <1>1, <1>2, <1>4, <2>1, <2>2, <2>3 DEF TypeOK
<1>6. \A c \in Call : CallKnows(c)
  BY <1>2, <1>3, <1>4 DEF CallKnows, InTransaction
<1>7. Committed = store
  BY <1>2 DEF Committed
<1>8. QueueTimes
  BY <1>3, <1>4 DEF QueueTimes
<1>9. Progress
  BY <1>2, NoneIsNoValue DEF Progress
<1> HIDE DEF Committed
<1>10. ReplacedEnded(Committed)
  BY <1>1, <1>7 DEF ReplacedEnded
<1> QED
  BY <1>1, <1>5, <1>6, <1>7, <1>8, <1>9, <1>10 DEF Inv, Reliable, Transactional

LEMMA NextInv ==
  ASSUME Inv, [Next]_vars
  PROVE  Inv' /\ (isolated => Atomic!Next \/ Committed' = Committed)
<1>1. CASE Next
  <2>1. StepWell
    BY <1>1, Step
  <2>2. Inv'
    BY <2>1 DEF StepWell, Inv
  <2> QED
    BY <2>1, <2>2 DEF StepWell
<1>2. CASE UNCHANGED vars
  <2>1. UNCHANGED <<now, isolated, store, queue, turn, saved, calls>>
    BY <1>2 DEF vars
  <2>2. Committed' = Committed
    BY <2>1 DEF Committed
  <2>3. TypeOK'
    BY <2>1 DEF Inv, Reliable, TypeOK
  <2>4. \A c \in Call : CallKnows(c)'
    BY <2>1 DEF Inv, Reliable, CallKnows
  <2>5. isolated => Progress'
    BY <2>1, ProgressFrame DEF Inv, Transactional, Progress
  <2>6. QueueTimes => QueueTimes'
    BY <2>1 DEF QueueTimes, Behind
  <2> HIDE DEF Committed
  <2>7. Sound(store)' /\ Sound(Committed)'
    BY <2>1, <2>2 DEF Inv, Reliable, Sound, IdentitiesSound, SessionsSound, Opened
  <2>8. isolated => UsedOnce(Committed)' /\ ReplacedEnded(Committed)'
    BY <2>1, <2>2 DEF Inv, Transactional, UsedOnce, ReplacedEnded
  <2> QED
    BY <2>1, <2>2, <2>3, <2>4, <2>5, <2>6, <2>7, <2>8 DEF Inv, Reliable, Transactional
<1> QED
  BY <1>1, <1>2

\* Until its last step a transaction leaves the sessions alone.
LEMMA SessionsAsSaved ==
  ASSUME Inv, isolated, turn \in Call, saved \in Store
  PROVE  store.sessions = saved.sessions
<1> DEFINE c == turn
<1>1. c \in Call /\ ProgressOf(c) /\ CallKnows(c) /\ TypeOK
  BY DEF Inv, Reliable, Transactional, Progress
<1> HIDE DEF c
<1>2. calls[c].op \in {"start", "finish", "resend", "cancel", "unlink", "none"}
  BY <1>1 DEF TypeOK, Local
<1>3. calls[c].at \in InTransaction
  <2>1. {d \in Call : calls[d].at \in InTransaction} = {turn} \ {None}
    BY <1>1 DEF TypeOK
  <2> QED
    BY <2>1, NoneIsNoValue DEF c
<1>4. CASE calls[c].op = "finish"
  <2>1. CASE calls[c].at \in {"read", "consume"}
    BY <1>1, <1>4, <2>1 DEF ProgressOf, FinishProgress
  <2>2. CASE calls[c].at \in {"find", "newUser", "newIdentity", "session"}
    <3>1. UsableThen(c)
      BY <1>1, <1>4, <2>2 DEF ProgressOf, FinishProgress
    <3>2. UsedUp(c) \in Store /\ UsedUp(c).sessions = saved.sessions
      BY <1>1, <3>1, UsedUpParts
    <3>3. \/ store = UsedUp(c)
          \/ store = [UsedUp(c) EXCEPT !.users = UsedUp(c).users \cup {calls[c].user}]
          \/ store = [UsedUp(c) EXCEPT !.users = UsedUp(c).users \cup {calls[c].user},
                                       !.identities = UsedUp(c).identities \cup {Own(c)}]
      BY <1>1, <1>4, <2>2 DEF ProgressOf, FinishProgress
    <3> HIDE DEF UsedUp
    <3> QED
      BY <3>2, <3>3 DEF Store
  <2> QED
    BY <1>1, <1>3, <1>4, <2>1, <2>2 DEF CallKnows, Places
<1>5. CASE calls[c].op = "resend"
  <2>1. \/ store = saved
        \/ \E l \in LinkId \ DOMAIN saved.links :
             store = [saved EXCEPT !.links =
               Current!Put(saved.links, l, NewLink(c, calls[c].link))]
    BY <1>1, <1>5 DEF ProgressOf, ResendProgress
  <2> QED
    BY <2>1, StoreWith
<1>6. CASE calls[c].op \in {"cancel", "start", "unlink"}
  BY <1>1, <1>6 DEF ProgressOf, CancelProgress
<1>7. calls[c].op # "none"
  BY <1>1, <1>3 DEF CallKnows, Places
<1> QED
  BY <1>2, <1>4, <1>5, <1>6, <1>7

\* The inductive invariant holds in every state.
THEOREM InvAlways == Spec => []Inv
<1>1. Init => Inv
  BY InitInv
<1>2. Inv /\ [Next]_vars => Inv'
  BY NextInv
<1> QED
  BY <1>1, <1>2, PTL DEF Spec

\* The store is well formed, the queue holds the calls that wait, and one call
\* at a time is inside a transaction.
THEOREM TypeCorrect == Spec => []TypeOK
<1>1. Inv => TypeOK
  BY DEF Inv, Reliable
<1> QED
  BY <1>1, InvAlways, PTL

\* Sign-ins of one new address at once never both create its identity, with or
\* without transactions.
THEOREM IdentitiesUnique == Spec => []OneIdentityPerKey
<1>1. Inv => OneIdentityPerKey
  BY DEF Inv, Reliable, Sound, IdentitiesSound, OneIdentityPerKey
<1> QED
  BY <1>1, InvAlways, PTL

\* Unlinks at once never take the last identity of an account, with or without
\* transactions.
THEOREM NobodyLockedOut == Spec => []NeverLockedOut
<1>1. ASSUME Inv
      PROVE  NeverLockedOut
  <2>1. \A i \in store.identities : \E j \in store.identities : j.user = i.user /\ j.active
    BY <1>1 DEF Inv, Reliable, Sound, IdentitiesSound
  <2> QED
    BY <2>1 DEF NeverLockedOut, ActiveOf, Current!ActiveOf
<1>2. Inv => NeverLockedOut
  BY <1>1
<1> QED
  BY <1>2, InvAlways, PTL

\* A session is the work of a used-up link to an address of its user, with or
\* without transactions.
THEOREM SignInByOwnLink == Spec => []SignedInByOwnLink
<1>1. Inv => SignedInByOwnLink
  BY DEF Inv, Reliable, Sound, SessionsSound, Opened, SignedInByOwnLink
<1> QED
  BY <1>1, InvAlways, PTL

\* With transactions a link opens at most one session.
THEOREM LinkOpensOneSession == Spec => []OneSessionPerLink
<1>1. ASSUME Inv
      PROVE  OneSessionPerLink
  <2> SUFFICES ASSUME isolated
               PROVE  UsedOnce(store)
    BY DEF OneSessionPerLink, UsedOnce
  <2>1. TypeOK /\ UsedOnce(Committed) /\ Progress
    BY <1>1 DEF Inv, Reliable, Transactional
  <2>2. CASE turn = None
    BY <2>1, <2>2 DEF Committed
  <2>3. CASE turn \in Call
    <3> DEFINE c == turn
    <3>1. saved \in Store /\ turn # None
      BY <2>1, <2>3, NoneIsNoValue DEF TypeOK
    <3>2. UsedOnce(saved)
      BY <2>1, <3>1 DEF Committed
    <3>3. store.sessions = saved.sessions
      BY <1>1, <2>1, <2>3, <3>1, SessionsAsSaved
    <3> QED
      BY <3>2, <3>3 DEF UsedOnce
  <2> QED
    BY <2>1, <2>2, <2>3 DEF TypeOK
<1>2. Inv => OneSessionPerLink
  BY <1>1
<1> QED
  BY <1>2, InvAlways, PTL

\* With transactions every change of what is committed is one whole operation.
THEOREM OperationsAtomic == Spec => ImplementsAtomic
<1>1. Inv /\ [Next]_vars => [isolated => Atomic!Next]_<<Committed>>
  <2> SUFFICES ASSUME Inv, [Next]_vars
               PROVE  (isolated => Atomic!Next) \/ Committed' = Committed
    OBVIOUS
  <2> QED
    BY NextInv
<1> QED
  BY <1>1, InvAlways, PTL DEF Spec, ImplementsAtomic

-----------------------------------------------------------------------------
(* The contract of one-time challenges. *)

\* What a reader of the contract sees of a link, and of all.
Seen(r) ==
  [status |-> IF r.consumed THEN "consumed" ELSE "pending", createdAt |-> r.createdAt,
   expiresAt |-> r.expiresAt, replaces |-> r.replaces]
SeenOf(f) == [l \in DOMAIN f |-> Seen(f[l])]

LEMMA SeenLifetimes == Lifetimes = SeenOf(Committed.links) /\ Lifetimes' = SeenOf(Committed'.links)
BY DEF Lifetimes, Seen, SeenOf

LEMMA SeenUsable ==
  ASSUME NEW l \in DOMAIN Committed.links, NEW t, Atomic!isUsable(Committed.links, l, t)
  PROVE  Contract!isUsable(l, t)
BY SeenLifetimes DEF Atomic!isUsable, Contract!isUsable, Seen, SeenOf

LEMMA SeenConsumed ==
  ASSUME NEW f \in Links, NEW l \in DOMAIN f
  PROVE  SeenOf([f EXCEPT ![l].consumed = TRUE]) = [SeenOf(f) EXCEPT ![l].status = "consumed"]
<1> DEFINE g == [f EXCEPT ![l].consumed = TRUE]
<1>1. /\ DOMAIN g = DOMAIN f
      /\ g[l] = [f[l] EXCEPT !.consumed = TRUE]
      /\ \A x \in DOMAIN f \ {l} : g[x] = f[x]
  BY UsedLink
<1>2. f[l] \in Link
  BY LinksParts
<1> HIDE DEF g
<1>3. Seen(g[l]) = [Seen(f[l]) EXCEPT !.status = "consumed"]
  BY <1>1, <1>2 DEF Seen, Link, Current!Link
<1>4. SeenOf(g) = [SeenOf(f) EXCEPT ![l].status = "consumed"]
  BY <1>1, <1>3 DEF SeenOf
<1> QED
  BY <1>4 DEF g

LEMMA SeenEnded ==
  ASSUME NEW f \in Links, NEW l \in DOMAIN f, NEW t \in 0..MaxTime
  PROVE  SeenOf([f EXCEPT ![l].expiresAt = t]) = [SeenOf(f) EXCEPT ![l].expiresAt = t]
<1> DEFINE g == [f EXCEPT ![l].expiresAt = t]
<1>1. f[l] \in Link
  BY LinksParts
<1>2. /\ DOMAIN g = DOMAIN f
      /\ g[l] = [f[l] EXCEPT !.expiresAt = t]
      /\ \A x \in DOMAIN f \ {l} : g[x] = f[x]
  OBVIOUS
<1> HIDE DEF g
<1>3. Seen(g[l]) = [Seen(f[l]) EXCEPT !.expiresAt = t]
  BY <1>1, <1>2 DEF Seen, Link, Current!Link
<1>4. SeenOf(g) = [SeenOf(f) EXCEPT ![l].expiresAt = t]
  BY <1>2, <1>3 DEF SeenOf
<1> QED
  BY <1>4 DEF g

LEMMA SeenPut ==
  ASSUME NEW f, NEW l, l \notin DOMAIN f, NEW key, NEW t, NEW old
  PROVE  SeenOf(Atomic!Put(f, l, Atomic!NewLink(key, t, old)))
           = Contract!Put(SeenOf(f), l, Contract!New(t, old))
<1>1. Seen(Atomic!NewLink(key, t, old)) = Contract!New(t, old)
  BY DEF Seen, Atomic!NewLink, Contract!New
<1> QED
  BY <1>1 DEF SeenOf, Atomic!Put, Contract!Put

\* A committed operation is one step of the contract, or none.
LEMMA AtomicKeeps ==
  ASSUME now \in 0..MaxTime, Committed \in Store, UNCHANGED now, Atomic!Next
  PROVE  [Contract!Next]_(Contract!vars)
<1> DEFINE f == Committed.links
<1>1. f \in Links /\ DOMAIN f \subseteq LinkId
  BY StoreParts, LinksParts
<1>2. 0..now \subseteq 0..MaxTime
  BY NumbersNatural
<1>3. ASSUME Committed'.links = f
      PROVE  [Contract!Next]_(Contract!vars)
  BY <1>3, SeenLifetimes DEF Contract!vars
<1>4. ASSUME NEW t \in 0..now, NEW key \in Key, NEW l \in LinkId, Atomic!Start(key, t, l)
      PROVE  [Contract!Next]_(Contract!vars)
  <2>1. l \notin DOMAIN f /\ Committed'.links = Atomic!Put(f, l, Atomic!NewLink(key, t, None))
    BY <1>4, StoreWith DEF Atomic!Start
  <2>2. Lifetimes' = Contract!Put(Lifetimes, l, Contract!New(t, None))
    BY <2>1, SeenPut, SeenLifetimes
  <2>3. l \notin DOMAIN Lifetimes
    BY <2>1, SeenLifetimes DEF SeenOf
  <2>4. Contract!Create(l, t) /\ Lifetimes' # Lifetimes
    BY <2>2, <2>3 DEF Contract!Create, Contract!Put
  <2> QED
    BY <2>4 DEF Contract!Next
<1>5. ASSUME NEW t \in 0..now, NEW l \in LinkId, NEW u \in User, NEW c \in Call,
             Atomic!Finish(l, t, u, c)
      PROVE  [Contract!Next]_(Contract!vars)
  <2>1. /\ l \in DOMAIN f /\ Atomic!isUsable(f, l, t)
        /\ Committed'.links = [f EXCEPT ![l].consumed = TRUE]
    BY <1>5 DEF Atomic!Finish
  <2>2. Lifetimes' = [Lifetimes EXCEPT ![l].status = "consumed"]
    BY <1>1, <2>1, SeenConsumed, SeenLifetimes
  <2>3. Contract!Consume(l, t)
    BY <2>1, <2>2, SeenUsable DEF Contract!Consume
  <2> QED
    BY <2>3 DEF Contract!Next, Contract!vars
<1>6. ASSUME NEW t \in 0..now, NEW l \in LinkId, Atomic!Cancel(l, t)
      PROVE  [Contract!Next]_(Contract!vars)
  <2>1. /\ l \in DOMAIN f /\ Atomic!isUsable(f, l, t)
        /\ Committed'.links = [f EXCEPT ![l].expiresAt = t]
    BY <1>6, StoreWith DEF Atomic!Cancel
  <2>2. Lifetimes' = [Lifetimes EXCEPT ![l].expiresAt = t]
    BY <1>1, <1>2, <2>1, SeenEnded, SeenLifetimes
  <2>3. Contract!Cancel(l, t)
    BY <2>1, <2>2, SeenUsable DEF Contract!Cancel
  <2> QED
    BY <2>3 DEF Contract!Next, Contract!vars
<1>7. ASSUME NEW t \in 0..now, NEW l \in LinkId, NEW new \in LinkId, Atomic!Resend(l, t, new)
      PROVE  [Contract!Next]_(Contract!vars)
  <2> DEFINE g == [f EXCEPT ![l].expiresAt = t]
  <2>1. /\ l \in DOMAIN f /\ new \notin DOMAIN f
        /\ Atomic!isUsable(f, l, t) /\ f[l].createdAt + Cooldown <= t
        /\ Committed'.links = Atomic!Put(g, new, Atomic!NewLink(f[l].key, t, l))
    BY <1>7, StoreWith DEF Atomic!Resend, Atomic!ResendAllowed
  <2>2. SeenOf(g) = [Lifetimes EXCEPT ![l].expiresAt = t] /\ new \notin DOMAIN g
    <3>1. t \in 0..MaxTime /\ f \in Links /\ l \in DOMAIN f
      BY <1>1, <1>2, <2>1
    <3>2. SeenOf(g) = [SeenOf(f) EXCEPT ![l].expiresAt = t]
      BY <3>1, SeenEnded
    <3>3. Lifetimes = SeenOf(f)
      BY SeenLifetimes
    <3>4. DOMAIN g = DOMAIN f
      OBVIOUS
    <3> QED
      BY <2>1, <3>2, <3>3, <3>4
  <2> HIDE DEF g
  <2>3. Lifetimes' = Contract!Put([Lifetimes EXCEPT ![l].expiresAt = t], new, Contract!New(t, l))
    BY <2>1, <2>2, SeenPut, SeenLifetimes
  <2>4. new \notin DOMAIN Lifetimes /\ Lifetimes[l].createdAt + Cooldown <= t
    BY <2>1, SeenLifetimes DEF Seen, SeenOf
  <2>5. Contract!Replace(l, t, new) /\ Lifetimes' # Lifetimes
    BY <2>1, <2>3, <2>4, SeenUsable DEF Contract!Replace, Contract!Put
  <2> QED
    BY <2>5 DEF Contract!Next
<1>8. ASSUME NEW i \in Committed.identities, Atomic!Unlink(i)
      PROVE  [Contract!Next]_(Contract!vars)
  <2>1. Committed'.links = f
    BY <1>8, StoreWith DEF Atomic!Unlink
  <2> QED
    BY <1>3, <2>1
<1> QED
  BY <1>4, <1>5, <1>6, <1>7, <1>8 DEF Atomic!Next

LEMMA ContractStep ==
  ASSUME Inv, isolated, [Next]_vars
  PROVE  [Contract!Next]_(Contract!vars) /\ isolated'
<1>1. isolated' = isolated /\ (Tick \/ UNCHANGED now)
  <2>1. ASSUME NEW c \in Call, Begins(c) \/ Admit(c) \/ Limited(c) \/ Enter(c)
        PROVE  UNCHANGED <<now, isolated>>
    BY <2>1 DEF Begins, StartEmailMagicLink, FinishEmailMagicLink, ResendEmailMagicLink,
                CancelEmailMagicLink, Unlink, Queues, Admit, Limited, Enter
  <2>2. ASSUME NEW c \in Call, ReadLink(c) \/ ConsumeLink(c) \/ FindIdentity(c) \/ CreateUser(c)
        PROVE  UNCHANGED <<now, isolated>>
    BY <2>2 DEF ReadsLink, ReadLink, ConsumeLink, FindIdentity, CreateUser, Moves, Returns
  <2>3. ASSUME NEW c \in Call, CreateIdentity(c) \/ CreateSession(c) \/ CreateLink(c)
        PROVE  UNCHANGED <<now, isolated>>
    BY <2>3 DEF CreateIdentity, CreateSession, CreateLink, Moves, Returns
  <2>4. ASSUME NEW c \in Call, ReadForResend(c) \/ CreateReplacement(c) \/ ReadForCancel(c)
        PROVE  UNCHANGED <<now, isolated>>
    BY <2>4 DEF ReadsLink, ReadForResend, CreateReplacement, ReadForCancel, Moves, Returns
  <2>5. ASSUME NEW c \in Call, ExpireLink(c) \/ ReadForUnlink(c) \/ Disable(c) \/ Fail(c)
        PROVE  UNCHANGED <<now, isolated>>
    BY <2>5 DEF ExpireLink, ReadForUnlink, Disable, Fail, Moves, Returns
  <2>6. Tick => UNCHANGED isolated
    BY DEF Tick
  <2> QED
    BY <2>1, <2>2, <2>3, <2>4, <2>5, <2>6 DEF Next, Acts, vars
<1>2. now \in 0..MaxTime /\ Committed \in Store
  BY DEF Inv, Reliable, TypeOK, Committed
<1>3. CASE Tick
  <2>1. Committed' = Committed
    BY <1>3 DEF Tick, Committed
  <2> QED
    BY <1>1, <1>3, <2>1, SeenLifetimes DEF Tick, Contract!Tick, Contract!Next
<1>4. CASE UNCHANGED now
  <2>1. Atomic!Next \/ Committed' = Committed
    BY NextInv
  <2>2. CASE Committed' = Committed
    BY <1>1, <1>4, <2>2, SeenLifetimes DEF Contract!vars
  <2> QED
    BY <1>1, <1>2, <1>4, <2>1, <2>2, AtomicKeeps
<1> QED
  BY <1>1, <1>3, <1>4

\* With transactions the links keep the contract of one-time challenges
\* (magic-link.ts), as the challenges of Challenges and CurrentAccount do.
THEOREM LinksKeepContract == Spec => KeepsContract
<1>1. Init /\ isolated => Contract!Init
  <2> SUFFICES ASSUME Init
               PROVE  Contract!Init
    OBVIOUS
  <2>1. PICK holders \in [Key -> User \cup {None}], sent \in SUBSET LinkId :
          \E to \in [sent -> LinkKey] :
            store = [links |-> [l \in sent |-> Current!NewLink(to[l], 0, None)],
                     users |-> {holders[k] : k \in Key} \ {None},
                     identities |-> {[key |-> k, user |-> holders[k], active |-> TRUE] :
                                       k \in {k \in Key : holders[k] # None}},
                     sessions |-> {}]
    BY DEF Init
  <2>2. Committed = store /\ now = 0
    BY DEF Init, Committed
  <2>3. PICK to \in [sent -> LinkKey] :
          store.links = [l \in sent |-> Current!NewLink(to[l], 0, None)]
    BY <2>1
  <2>4. Lifetimes = [l \in sent |-> Contract!New(0, None)]
    BY <2>2, <2>3 DEF Lifetimes, Current!NewLink, Contract!New
  <2> QED
    BY <2>2, <2>4 DEF Contract!Init
<1>2. Inv /\ isolated /\ [Next]_vars => [Contract!Next]_(Contract!vars) /\ isolated'
  BY ContractStep
<1> QED
  BY <1>1, <1>2, InvAlways, PTL DEF Spec, KeepsContract, Contract!Spec

\* With transactions the lifetimes of a link and of its replacement lie apart.
THEOREM LinkLifetimesApart == Spec => (isolated => []Contract!LifetimesApart)
<1>1. Contract!Spec => [](Contract!TypeOK /\ Contract!LifetimesApart)
  BY Contract!LifetimesAlwaysApart, NumbersNatural, NoneIsNoValue
<1> QED
  BY <1>1, LinksKeepContract, PTL DEF KeepsContract
=============================================================================
