------------------------------ MODULE Ownership ------------------------------
(***************************************************************************)
(* What the account operations promise about who may sign in as whom: a    *)
(* key is free, held by one account, or retired for good; accounts end     *)
(* once, and either keep what they hold or hand all of it to one other     *)
(* account.  How identities, credentials, their indexes, evidence and      *)
(* policy bring this about is left to module Accounts, which implements    *)
(* this one.                                                               *)
(***************************************************************************)
EXTENDS TLAPS

CONSTANTS
  Account,    \* the accounts there may be
  Key,        \* what an account can be signed in to with
  Email,      \* the keys a password can stand for
  Session

VARIABLES
  open, ended,           \* the accounts in use, and those closed or merged away
  holder,                \* key -> the account it signs in to
  retired,               \* key -> the account that gave it up
  password,              \* e-mail -> the account whose password it names
  signedIn, signedOut    \* session -> its account; the sessions that are over

accountVars == <<open, ended>>
keyVars == <<holder, retired>>
sessionVars == <<signedIn, signedOut>>
vars == <<accountVars, keyVars, password, sessionVars>>

-----------------------------------------------------------------------------
Give(f, k, u) == [x \in DOMAIN f \cup {k} |-> IF x = k THEN u ELSE f[x]]
Without(f, S) == [x \in DOMAIN f \ S |-> f[x]]
HandOver(f, u, w) == [x \in DOMAIN f |-> IF f[x] = u THEN w ELSE f[x]]

HeldBy(f, u) == {x \in DOMAIN f : f[x] = u}

\* A session that was never used starts for u.
Starts(u) ==
  /\ \E s \in Session \ (DOMAIN signedIn \cup signedOut) : signedIn' = Give(signedIn, s, u)
  /\ UNCHANGED signedOut

\* The sessions of S are over.
Over(S) ==
  /\ signedIn' = Without(signedIn, S)
  /\ signedOut' = signedOut \cup S

\* A key nobody has, and nobody had, goes to u.
Takes(u, k) ==
  /\ k \in Key \ (DOMAIN holder \cup DOMAIN retired)
  /\ holder' = Give(holder, k, u)
  /\ UNCHANGED retired

Ends(u) ==
  /\ open' = open \ {u}
  /\ ended' = ended \cup {u}
  /\ Over(HeldBy(signedIn, u))

-----------------------------------------------------------------------------
SignIn(u) ==
  /\ u \in open
  /\ Starts(u)
  /\ UNCHANGED <<accountVars, keyVars, password>>

SignOut(S) ==
  /\ S \subseteq DOMAIN signedIn
  /\ Over(S)
  /\ UNCHANGED <<accountVars, keyVars, password>>

Register(u, k) ==
  /\ u \in Account \ (open \cup ended)
  /\ open' = open \cup {u}
  /\ Takes(u, k)
  /\ Starts(u)
  /\ UNCHANGED <<ended, password>>

\* Linked by the owner, or by a sign-in that found the account.
Attach(u, k) ==
  /\ u \in open
  /\ Takes(u, k)
  /\ Starts(u) \/ UNCHANGED sessionVars
  /\ UNCHANGED <<accountVars, password>>

\* A key is given up, never the last one.
Retire(u, k) ==
  /\ u \in open
  /\ k \in HeldBy(holder, u) /\ HeldBy(holder, u) \ {k} # {}
  /\ holder' = Without(holder, {k})
  /\ retired' = Give(retired, k, u)
  /\ UNCHANGED <<accountVars, password, sessionVars>>

\* An account gets its one password, for an e-mail it holds or takes.
GetPassword(u, e) ==
  /\ u \in open
  /\ HeldBy(password, u) = {} /\ e \notin DOMAIN password
  /\ \/ e \in HeldBy(holder, u) /\ UNCHANGED keyVars
     \/ Takes(u, e)
  /\ password' = Give(password, e, u)
  /\ UNCHANGED <<accountVars, sessionVars>>

\* Somebody signed in to u lets it end, and everything it holds go to w.
Merge(u, w) ==
  /\ u \in open /\ w \in open \ {u}
  /\ HeldBy(signedIn, u) # {}
  /\ HeldBy(password, u) = {} \/ HeldBy(password, w) = {}
  /\ Ends(u)
  /\ holder' = HandOver(holder, u, w)
  /\ password' = HandOver(password, u, w)
  /\ UNCHANGED retired

\* u ends and keeps what it holds, so that nobody else can take it.
Close(u) ==
  /\ u \in open
  /\ HeldBy(signedIn, u) # {}
  /\ Ends(u)
  /\ UNCHANGED <<keyVars, password>>

Init ==
  /\ open = {} /\ ended = {}
  /\ holder = << >> /\ retired = << >> /\ password = << >>
  /\ signedIn = << >> /\ signedOut = {}

Next ==
  \/ \E u \in Account : SignIn(u) \/ Close(u)
  \/ \E S \in SUBSET Session : SignOut(S)
  \/ \E u \in Account, k \in Key : Register(u, k) \/ Attach(u, k) \/ Retire(u, k)
  \/ \E u \in Account, e \in Email : GetPassword(u, e)
  \/ \E u, w \in Account : Merge(u, w)

Spec == Init /\ [][Next]_vars

-----------------------------------------------------------------------------
\* Whoever is signed in is signed in to an account in use, each such account
\* can be signed in to, and no e-mail's password opens another account than
\* the e-mail does as a key.
Consistent ==
  /\ open \cap ended = {} /\ DOMAIN holder \cap DOMAIN retired = {}
  /\ \A s \in DOMAIN signedIn : signedIn[s] \in open
  /\ \A u \in open : HeldBy(holder, u) # {}
  /\ \A e \in DOMAIN password :
       \/ e \in DOMAIN holder /\ holder[e] = password[e]
       \/ e \in DOMAIN retired
  /\ \A e, d \in DOMAIN password : password[e] = password[d] => e = d

\* A key changes hands only with everything else its account holds, to one
\* account in use, and then its account has ended.  A key that is out of use,
\* or whose account has ended, stays as it is.
Faithful ==
  /\ \A k \in DOMAIN holder :
       \/ k \in DOMAIN holder' /\ holder'[k] = holder[k]
       \/ k \in DOMAIN retired' /\ retired'[k] = holder[k] /\ holder[k] \in open
       \/ /\ holder[k] \in open /\ holder[k] \in ended'
          /\ \E w \in open' :
               /\ \A j \in HeldBy(holder, holder[k]) : j \in HeldBy(holder', w)
               /\ \A e \in HeldBy(password, holder[k]) : e \in HeldBy(password', w)
  /\ \A k \in DOMAIN retired : k \in DOMAIN retired' /\ retired'[k] = retired[k]
KeysStayFaithful == [][Faithful]_vars

-----------------------------------------------------------------------------
LEMMA ConsistentStep ==
  ASSUME Consistent, [Next]_vars
  PROVE  Consistent'
<1> USE DEF Consistent, accountVars, keyVars, sessionVars
<1>1. ASSUME NEW u \in Account, SignIn(u)
      PROVE  Consistent'
  BY <1>1 DEF SignIn, Starts, Give, HeldBy
<1>2. ASSUME NEW u \in Account, Close(u)
      PROVE  Consistent'
  BY <1>2 DEF Close, Ends, Over, Without, HeldBy
<1>3. ASSUME NEW S \in SUBSET Session, SignOut(S)
      PROVE  Consistent'
  BY <1>3 DEF SignOut, Over, Without, HeldBy
<1>4. ASSUME NEW u \in Account, NEW k \in Key, Register(u, k)
      PROVE  Consistent'
  BY <1>4 DEF Register, Starts, Takes, Give, HeldBy
<1>5. ASSUME NEW u \in Account, NEW k \in Key, Attach(u, k)
      PROVE  Consistent'
  <2>1. \A s \in DOMAIN signedIn' : signedIn'[s] \in open'
    <3>1. CASE Starts(u)
      BY <1>5, <3>1 DEF Attach, Starts, Give
    <3>2. CASE UNCHANGED sessionVars
      BY <1>5, <3>2 DEF Attach
    <3> QED
      BY <1>5, <3>1, <3>2 DEF Attach
  <2>2. \A v \in open' : HeldBy(holder', v) # {}
    BY <1>5 DEF Attach, Takes, Give, HeldBy
  <2> QED
    BY <1>5, <2>1, <2>2 DEF Attach, Takes, Give
<1>6. ASSUME NEW u \in Account, NEW k \in Key, Retire(u, k)
      PROVE  Consistent'
  BY <1>6 DEF Retire, Give, Without, HeldBy
<1>7. ASSUME NEW u \in Account, NEW e \in Email, GetPassword(u, e)
      PROVE  Consistent'
  BY <1>7 DEF GetPassword, Takes, Give, HeldBy
<1>8. ASSUME NEW u \in Account, NEW w \in Account, Merge(u, w)
      PROVE  Consistent'
  BY <1>8 DEF Merge, Ends, Over, Without, HandOver, HeldBy
<1>9. CASE UNCHANGED vars
  BY <1>9 DEF vars, HeldBy
<1> QED
  BY <1>1, <1>2, <1>3, <1>4, <1>5, <1>6, <1>7, <1>8, <1>9 DEF Next

LEMMA FaithfulStep ==
  ASSUME Consistent, [Next]_vars
  PROVE  [Faithful]_vars
<1> USE DEF accountVars, keyVars, sessionVars
<1>1. ASSUME UNCHANGED keyVars
      PROVE  Faithful
  BY <1>1 DEF Faithful
<1>2. ASSUME NEW u, NEW k, Takes(u, k)
      PROVE  Faithful
  BY <1>2 DEF Takes, Give, Faithful
<1>3. ASSUME NEW u \in Account, NEW k \in Key, Retire(u, k)
      PROVE  Faithful
  BY <1>3 DEF Retire, Give, Without, HeldBy, Faithful, Consistent
<1>4. ASSUME NEW u \in Account, NEW w \in Account, Merge(u, w)
      PROVE  Faithful
  BY <1>4 DEF Merge, Ends, HandOver, HeldBy, Faithful
<1> QED
  BY <1>1, <1>2, <1>3, <1>4
     DEF Next, SignIn, Close, SignOut, Register, Attach, GetPassword, vars

\* Ownership keeps the accounts consistent: nobody is signed in to an account
\* that has ended, nobody in use is locked out.
THEOREM AlwaysConsistent == Spec => []Consistent
<1>1. Init => Consistent
  BY DEF Init, Consistent
<1> QED
  BY <1>1, ConsistentStep, PTL DEF Spec

\* Keys move only with their whole account, and stay where it ended.
THEOREM KeysAlwaysFaithful == Spec => KeysStayFaithful
<1> QED
  BY AlwaysConsistent, FaithfulStep, PTL DEF Spec, KeysStayFaithful
=============================================================================
