---------------------------- MODULE IdentityProofs ----------------------------
(***************************************************************************)
(* Theorems about accounts, sessions, roles and the role cache, for any    *)
(* users, sessions, number of requests in flight and any durations.  The   *)
(* invariant says of what a request carries between two statements, and of *)
(* every cache entry, when it was read and that it was true then.          *)
(***************************************************************************)
EXTENDS Identity, FiniteSetTheorems, TLAPS

Acct == [pw : Passwords, must : BOOLEAN, fails : 0..MaxRequests, lock : Times,
         active : BOOLEAN]
SessionRow == [user : Users, expires : Times, revoked : BOOLEAN, cookie : BOOLEAN]
Entry == [roles : (SUBSET Roles) \ {{}}, expires : Times]
Phases == {"idle", "login", "session", "resolve", "act", "load", "store", "roles",
           "invalidate", "revoke"}

-----------------------------------------------------------------------------
(* The inductive invariant.                                                *)

\* A counter counts wrong passwords, and a lock has had enough of them.
AcctOK(u, x) ==
  x = NoIdentity \/ (/\ x \in Acct /\ x.fails <= wrong[u]
                     /\ x.lock > 0 => wrong[u] >= MaxFailed)
IdentsOK ==
  /\ DOMAIN ident = Users /\ wrong \in [Users -> Nat]
  /\ \A u \in Users : AcctOK(u, ident[u])

\* Every wrong password was sent by a request: those that are still being
\* compared count as well.
Logins(u) == {r \in Requests : req[r].phase = "login" /\ req[r].u = u}
CountOK ==
  /\ sent \in 0..MaxRequests
  /\ \A u \in Users : wrong[u] + Cardinality(Logins(u)) <= sent

\* The history has the roles of now.
RolesOK ==
  /\ now \in 0..MaxTime
  /\ roles \in [Users -> SUBSET Roles]
  /\ held \in [Users -> [0..MaxTime -> SUBSET SUBSET Roles]]
  /\ \A u \in Users : roles[u] \in held[u][now]

SessOK ==
  /\ DOMAIN sess = Sessions
  /\ \A s \in Sessions : sess[s] # NoSession => sess[s] \in SessionRow /\ sess[s].user \in Known

\* An entry lives for CacheTTL from before its roles were read.
EntryOK(u, x) ==
  x = NoEntry \/ (/\ x \in Entry
                  /\ \E t \in 0..now : t + CacheTTL >= x.expires /\ x.roles \in held[u][t])
CacheOK == DOMAIN cache = Users /\ \A u \in Users : EntryOK(u, cache[u])

\* What a request carries was so when it was read.
ReqOK(q) ==
  /\ q.phase \in Phases
  /\ q.phase # "idle" => q.u \in Users
  /\ q.phase = "login" => q.u \in Known /\ q.id \in Acct /\ q.id.fails <= wrong[q.u]
  /\ q.phase = "session" => q.u \in Known
  /\ q.phase \in {"resolve", "load", "store"} => q.since \in 0..now
  /\ q.phase = "store" => /\ q.roles \in (SUBSET Roles) \ {{}}
                          /\ \E t \in 0..now : t >= q.since /\ q.roles \in held[q.u][t]
  /\ q.phase = "roles" => q.roles \in SUBSET Roles
  /\ q.phase = "act" => /\ q.at \in 0..now
                        /\ \E t \in 0..q.at : /\ t + CacheTTL > q.since
                                              /\ q.roles \in held[q.u][t]
ReqsOK == DOMAIN req = Requests /\ \A r \in Requests : ReqOK(req[r])

AdminOK == boot \in {"check", "assign", "up", "unchecked"} /\ AdminAfterBoot

IdInv == IdentsOK /\ CountOK /\ RolesOK /\ SessOK /\ CacheOK /\ ReqsOK /\ AdminOK

-----------------------------------------------------------------------------
(* Time passes, accounts are not deleted, wrong passwords are not          *)
(* forgotten and the history of the past only grows.                       *)
Later ==
  /\ now <= now' /\ now' \in 0..MaxTime
  /\ Known \subseteq Known'
  /\ \A u \in Users : wrong[u] <= wrong'[u] /\ wrong'[u] \in Nat
  /\ \A u \in Users : \A t \in 0..now : held[u][t] \subseteq held'[u][t]

(* The markers for "none" are no rows.                                     *)
LEMMA NotNone ==
  /\ \A x \in Acct : x # NoIdentity
  /\ \A x \in SessionRow : x # NoSession
  /\ \A x \in Entry : x # NoEntry
BY DEF Acct, NoIdentity, SessionRow, NoSession, Entry, NoEntry

LEMMA IdleOK == Idle.phase = "idle" /\ ReqOK(Idle)'
BY DEF Idle, ReqOK, Phases

(* The durations and bounds are numbers.                                   *)
LEMMA Numbers ==
  /\ MaxFailed \in Nat /\ MaxFailed > 0 /\ LockDuration \in Nat /\ SessionTTL \in Nat
  /\ CacheTTL \in Nat /\ CacheTTL > 0 /\ MaxTime \in Nat /\ MaxRequests \in Nat
BY IdentityAssumption

(* What a request carries stays true of the time it was read at.           *)
LEMMA ReqKept ==
  ASSUME NEW q, ReqOK(q), IdentsOK, RolesOK, Later
  PROVE  ReqOK(q)'
<1>1. now \in Int /\ now' \in Int /\ now <= now'
  BY Numbers DEF RolesOK, Later
<1>2. q.phase = "login" => q.u \in Known' /\ q.id \in Acct /\ q.id.fails <= wrong'[q.u]
  <2> SUFFICES ASSUME q.phase = "login"
               PROVE  q.u \in Known' /\ q.id \in Acct /\ q.id.fails <= wrong'[q.u]
    OBVIOUS
  <2>1. /\ q.u \in Known /\ q.u \in Users /\ q.id \in Acct /\ q.id.fails <= wrong[q.u]
    BY DEF ReqOK, Phases
  <2>2. q.id.fails \in Int
    BY <2>1, Numbers DEF Acct
  <2>3. wrong[q.u] \in Int /\ wrong'[q.u] \in Int /\ wrong[q.u] <= wrong'[q.u]
    BY <2>1 DEF IdentsOK, Later
  <2> QED
    BY <2>1, <2>2, <2>3 DEF Later
<1>3. q.phase = "store" => \E t \in 0..now' : t >= q.since /\ q.roles \in held'[q.u][t]
  <2> SUFFICES ASSUME q.phase = "store"
               PROVE  \E t \in 0..now' : t >= q.since /\ q.roles \in held'[q.u][t]
    OBVIOUS
  <2>1. q.u \in Users
    BY DEF ReqOK, Phases
  <2>2. PICK t \in 0..now : t >= q.since /\ q.roles \in held[q.u][t]
    BY DEF ReqOK
  <2> QED
    BY <1>1, <2>1, <2>2 DEF Later
<1>4. q.phase = "act" => /\ q.at \in 0..now'
                         /\ \E t \in 0..q.at : /\ t + CacheTTL > q.since
                                               /\ q.roles \in held'[q.u][t]
  <2> SUFFICES ASSUME q.phase = "act"
               PROVE  /\ q.at \in 0..now'
                      /\ \E t \in 0..q.at : /\ t + CacheTTL > q.since
                                            /\ q.roles \in held'[q.u][t]
    OBVIOUS
  <2>1. q.u \in Users /\ q.at \in 0..now
    BY DEF ReqOK, Phases
  <2>2. PICK t \in 0..q.at : t + CacheTTL > q.since /\ q.roles \in held[q.u][t]
    BY DEF ReqOK
  <2>3. t \in 0..now
    BY <1>1, <2>1
  <2> QED
    BY <1>1, <2>1, <2>2, <2>3 DEF Later
<1>5. q.phase \in {"resolve", "load", "store"} => q.since \in 0..now'
  BY <1>1 DEF ReqOK
<1>6. q.phase = "session" => q.u \in Known'
  BY DEF ReqOK, Later
<1>7. /\ q.phase \in Phases
      /\ q.phase # "idle" => q.u \in Users
      /\ q.phase = "store" => q.roles \in (SUBSET Roles) \ {{}}
      /\ q.phase = "roles" => q.roles \in SUBSET Roles
  BY DEF ReqOK
<1> QED
  BY <1>2, <1>3, <1>4, <1>5, <1>6, <1>7 DEF ReqOK

(* The requests after one of them takes a step, and when none does.        *)
LEMMA ReqsStep ==
  ASSUME IdentsOK, RolesOK, ReqsOK, Later, NEW r \in Requests, NEW y,
         req' = [req EXCEPT ![r] = y], ReqOK(y)'
  PROVE  ReqsOK'
<1>1. DOMAIN req' = Requests
  BY DEF ReqsOK
<1>2. ASSUME NEW s \in Requests PROVE ReqOK(req[s])'
  <2>1. CASE s = r
    <3>1. req'[s] = y
      BY <2>1 DEF ReqsOK
    <3> QED
      BY <3>1
  <2>2. CASE s # r
    <3>1. PICK x : x = req[s]
      OBVIOUS
    <3>2. req'[s] = x
      BY <2>2, <3>1 DEF ReqsOK
    <3>3. ReqOK(x)'
      BY <3>1, ReqKept DEF ReqsOK
    <3> QED
      BY <3>2, <3>3
  <2> QED
    BY <2>1, <2>2
<1> QED
  BY <1>1, <1>2 DEF ReqsOK

LEMMA ReqsKept ==
  ASSUME IdentsOK, RolesOK, ReqsOK, Later, UNCHANGED req
  PROVE  ReqsOK'
<1>1. ASSUME NEW s \in Requests PROVE ReqOK(req[s])'
  <2>1. PICK x : x = req[s]
    OBVIOUS
  <2>2. ReqOK(x)'
    BY <2>1, ReqKept DEF ReqsOK
  <2> QED
    BY <2>1, <2>2
<1> QED
  BY <1>1 DEF ReqsOK

(* Cache entries stay within their time, too.                              *)
LEMMA EntryKept ==
  ASSUME NEW u \in Users, NEW x, EntryOK(u, x), RolesOK, Later
  PROVE  EntryOK(u, x)'
<1>1. now \in Int /\ now' \in Int /\ now <= now'
  BY Numbers DEF RolesOK, Later
<1>2. CASE x = NoEntry
  BY <1>2 DEF EntryOK
<1>3. CASE x # NoEntry
  <2>1. x \in Entry
    BY <1>3 DEF EntryOK
  <2>2. PICK t \in 0..now : t + CacheTTL >= x.expires /\ x.roles \in held[u][t]
    BY <1>3 DEF EntryOK
  <2>3. t \in 0..now' /\ x.roles \in held'[u][t]
    BY <1>1, <2>2 DEF Later
  <2> QED
    BY <2>1, <2>2, <2>3 DEF EntryOK
<1> QED
  BY <1>2, <1>3

LEMMA CacheSet ==
  ASSUME RolesOK, CacheOK, Later, NEW u \in Users, NEW x,
         cache' = [cache EXCEPT ![u] = x], EntryOK(u, x)'
  PROVE  CacheOK'
<1>1. DOMAIN cache' = Users
  BY DEF CacheOK
<1>2. ASSUME NEW v \in Users PROVE EntryOK(v, cache[v])'
  <2>1. CASE v = u
    <3>1. cache'[v] = x
      BY <2>1 DEF CacheOK
    <3> QED
      BY <2>1, <3>1
  <2>2. CASE v # u
    <3>1. PICK y : y = cache[v]
      OBVIOUS
    <3>2. cache'[v] = y
      BY <2>2, <3>1 DEF CacheOK
    <3>3. EntryOK(v, y)'
      BY <3>1, EntryKept DEF CacheOK
    <3> QED
      BY <3>2, <3>3
  <2> QED
    BY <2>1, <2>2
<1> QED
  BY <1>1, <1>2 DEF CacheOK

LEMMA CacheKept ==
  ASSUME RolesOK, CacheOK, Later, UNCHANGED cache
  PROVE  CacheOK'
<1>1. ASSUME NEW v \in Users PROVE EntryOK(v, cache[v])'
  <2>1. PICK y : y = cache[v]
    OBVIOUS
  <2>2. EntryOK(v, y)'
    BY <2>1, EntryKept DEF CacheOK
  <2> QED
    BY <2>1, <2>2
<1> QED
  BY <1>1 DEF CacheOK

(* Accounts, when one is written or none is.                               *)
LEMMA AcctKept ==
  ASSUME NEW u \in Users, NEW x, AcctOK(u, x), IdentsOK,
         wrong[u] <= wrong'[u], wrong'[u] \in Nat
  PROVE  AcctOK(u, x)'
<1>1. CASE x = NoIdentity
  BY <1>1 DEF AcctOK
<1>2. CASE x # NoIdentity
  <2>1. x \in Acct /\ x.fails <= wrong[u] /\ (x.lock > 0 => wrong[u] >= MaxFailed)
    BY <1>2 DEF AcctOK
  <2>2. x.fails \in Int /\ wrong[u] \in Int /\ wrong'[u] \in Int /\ MaxFailed \in Int
    BY <2>1, Numbers DEF Acct, IdentsOK
  <2> QED
    BY <2>1, <2>2 DEF AcctOK
<1> QED
  BY <1>1, <1>2

LEMMA IdentSet ==
  ASSUME IdentsOK, NEW u \in Users, NEW x, ident' = [ident EXCEPT ![u] = x],
         AcctOK(u, x)', ident[u] # NoIdentity => x # NoIdentity,
         wrong' \in [Users -> Nat], \A v \in Users : wrong[v] <= wrong'[v]
  PROVE  IdentsOK' /\ Known \subseteq Known'
<1>1. DOMAIN ident' = Users
  BY DEF IdentsOK
<1>2. ident'[u] = x /\ \A v \in Users \ {u} : ident'[v] = ident[v]
  BY DEF IdentsOK
<1>3. ASSUME NEW v \in Users PROVE AcctOK(v, ident[v])'
  <2>1. CASE v = u
    BY <1>2, <2>1
  <2>2. CASE v # u
    <3>1. PICK y : y = ident[v]
      OBVIOUS
    <3>2. ident'[v] = y
      BY <1>2, <2>2, <3>1
    <3>3. AcctOK(v, y)
      BY <3>1 DEF IdentsOK
    <3>4. wrong[v] <= wrong'[v] /\ wrong'[v] \in Nat
      OBVIOUS
    <3>5. AcctOK(v, y)'
      BY <3>3, <3>4, AcctKept
    <3> QED
      BY <3>2, <3>5
  <2> QED
    BY <2>1, <2>2
<1>4. Known \subseteq Known'
  BY <1>2 DEF Known
<1> QED
  BY <1>1, <1>3, <1>4 DEF IdentsOK

LEMMA IdentKept ==
  ASSUME IdentsOK, UNCHANGED <<ident, wrong>>
  PROVE  IdentsOK' /\ Known \subseteq Known'
BY DEF IdentsOK, AcctOK, Known

LEMMA SessKept ==
  ASSUME SessOK, Known \subseteq Known', UNCHANGED sess
  PROVE  SessOK'
BY DEF SessOK

(* The wrong passwords so far, with those being compared, are requests.    *)
LEMMA LoginsFinite ==
  ASSUME NEW S \in SUBSET Requests
  PROVE  IsFiniteSet(S) /\ Cardinality(S) \in Nat
BY FS_Subset, FS_CardinalityType, IdentityAssumption

LEMMA CountKept ==
  ASSUME IdentsOK, CountOK, UNCHANGED wrong, sent <= sent', sent' \in 0..MaxRequests,
         \A u \in Users : Logins(u)' \subseteq Logins(u)
  PROVE  CountOK'
<1>1. ASSUME NEW u \in Users PROVE wrong'[u] + Cardinality(Logins(u)') <= sent'
  <2>1. PICK S : S = Logins(u)
    OBVIOUS
  <2>2. PICK T : T = Logins(u)'
    OBVIOUS
  <2>3. S \in SUBSET Requests /\ T \in SUBSET S
    BY <2>1, <2>2 DEF Logins
  <2>4. IsFiniteSet(S) /\ Cardinality(S) \in Nat /\ Cardinality(T) \in Nat
    BY <2>3, LoginsFinite
  <2>5. Cardinality(T) <= Cardinality(S)
    BY <2>3, <2>4, FS_Subset
  <2>6. wrong[u] \in Nat /\ sent \in Int /\ sent' \in Int
    BY Numbers DEF IdentsOK, CountOK
  <2>7. wrong[u] + Cardinality(S) <= sent
    BY <2>1 DEF CountOK
  <2>8. wrong[u] + Cardinality(T) <= sent'
    BY <2>4, <2>5, <2>6, <2>7
  <2> QED
    BY <2>2, <2>8
<1> QED
  BY <1>1 DEF CountOK

(* A step of a request that is not the start of a login.                   *)
LEMMA CountStep ==
  ASSUME IdentsOK, CountOK, ReqsOK, UNCHANGED wrong, sent <= sent',
         sent' \in 0..MaxRequests, NEW r \in Requests, NEW y,
         req' = [req EXCEPT ![r] = y], y.phase # "login"
  PROVE  CountOK'
<1>1. req'[r] = y /\ \A s \in Requests \ {r} : req'[s] = req[s]
  BY DEF ReqsOK
<1>2. \A u \in Users : Logins(u)' \subseteq Logins(u)
  BY <1>1 DEF Logins
<1> QED
  BY <1>2, CountKept

LEMMA CountBegin ==
  ASSUME IdentsOK, CountOK, ReqsOK, UNCHANGED wrong, sent' = sent + 1,
         sent < MaxRequests, NEW r \in Requests, NEW y,
         req' = [req EXCEPT ![r] = y]
  PROVE  CountOK'
<1>1. req'[r] = y /\ \A s \in Requests \ {r} : req'[s] = req[s]
  BY DEF ReqsOK
<1>2. sent \in Int /\ sent' \in 0..MaxRequests
  BY Numbers DEF CountOK
<1>3. ASSUME NEW u \in Users PROVE wrong'[u] + Cardinality(Logins(u)') <= sent'
  <2>1. PICK S : S = Logins(u)
    OBVIOUS
  <2>2. PICK T : T = Logins(u)'
    OBVIOUS
  <2>3. S \in SUBSET Requests /\ T \in SUBSET (S \cup {r}) /\ T \in SUBSET Requests
    BY <1>1, <2>1, <2>2 DEF Logins
  <2>4. IsFiniteSet(S) /\ Cardinality(S) \in Nat /\ Cardinality(T) \in Nat
    BY <2>3, LoginsFinite
  <2>5. IsFiniteSet(S \cup {r}) /\ Cardinality(S \cup {r}) <= Cardinality(S) + 1
    <3>1. /\ IsFiniteSet(S \cup {r})
          /\ Cardinality(S \cup {r}) = IF r \in S THEN Cardinality(S) ELSE Cardinality(S) + 1
      BY <2>4, FS_AddElement
    <3>2. PICK m : m = Cardinality(S \cup {r})
      OBVIOUS
    <3>3. PICK n : n = Cardinality(S)
      OBVIOUS
    <3>4. n \in Nat /\ (m = n \/ m = n + 1)
      BY <2>4, <3>1, <3>2, <3>3
    <3>5. m <= n + 1
      BY <3>4
    <3> QED
      BY <3>1, <3>2, <3>3, <3>5
  <2>6. Cardinality(T) <= Cardinality(S \cup {r})
    BY <2>3, <2>5, FS_Subset
  <2>7. Cardinality(S \cup {r}) \in Nat
    BY <2>5, FS_CardinalityType
  <2>8. wrong[u] \in Nat
    BY DEF IdentsOK
  <2>9. wrong[u] + Cardinality(S) <= sent
    BY <2>1 DEF CountOK
  <2>10. wrong[u] + Cardinality(T) <= sent'
    BY <1>2, <2>4, <2>5, <2>6, <2>7, <2>8, <2>9
  <2> QED
    BY <2>2, <2>10
<1> QED
  BY <1>2, <1>3 DEF CountOK

(* A wrong password is counted once: the request that sent it has ended.   *)
LEMMA CountFailed ==
  ASSUME IdentsOK, CountOK, ReqsOK, UNCHANGED sent, NEW r \in Requests,
         req[r].phase = "login", req' = [req EXCEPT ![r] = Idle],
         req[r].u \in Users, wrong' = [wrong EXCEPT ![req[r].u] = @ + 1]
  PROVE  CountOK' /\ wrong'[req[r].u] <= MaxRequests
<1>1. req'[r] = Idle /\ \A s \in Requests \ {r} : req'[s] = req[s]
  BY DEF ReqsOK
<1>2. sent \in Int /\ sent <= MaxRequests /\ MaxRequests \in Int
  BY Numbers DEF CountOK
<1>3. ASSUME NEW u \in Users
      PROVE  /\ wrong'[u] + Cardinality(Logins(u)') <= sent'
             /\ wrong'[u] <= MaxRequests
  <2>1. PICK S : S = Logins(u)
    OBVIOUS
  <2>2. PICK T : T = Logins(u)'
    OBVIOUS
  <2>3. /\ S \in SUBSET Requests /\ T = S \ {r} /\ T \in SUBSET Requests
        /\ (r \in S <=> req[r].u = u)
    BY <1>1, <2>1, <2>2, IdleOK DEF Logins
  <2>4. IsFiniteSet(S) /\ Cardinality(S) \in Nat /\ Cardinality(T) \in Nat
    BY <2>3, LoginsFinite
  <2>5. Cardinality(T) = IF r \in S THEN Cardinality(S) - 1 ELSE Cardinality(S)
    BY <2>3, <2>4, FS_RemoveElement
  <2>6. wrong[u] \in Nat /\ wrong'[u] = IF req[r].u = u THEN wrong[u] + 1 ELSE wrong[u]
    BY DEF IdentsOK
  <2>7. wrong[u] + Cardinality(S) <= sent
    BY <2>1 DEF CountOK
  <2>8. wrong'[u] + Cardinality(T) <= sent
    BY <1>2, <2>3, <2>4, <2>5, <2>6, <2>7
  <2>9. wrong'[u] <= MaxRequests
    BY <1>2, <2>4, <2>6, <2>8
  <2> QED
    BY <2>2, <2>8, <2>9
<1> QED
  BY <1>3 DEF CountOK

(* When nothing of the history is written, the past is what it was.        *)
LEMMA LaterKept ==
  ASSUME IdentsOK, RolesOK, Known \subseteq Known', UNCHANGED <<now, held, wrong>>
  PROVE  Later
<1>1. now \in Int
  BY Numbers DEF RolesOK
<1> QED
  BY <1>1 DEF Later, IdentsOK, RolesOK

LEMMA RolesKept ==
  ASSUME RolesOK, UNCHANGED <<now, roles, held>>
  PROVE  RolesOK'
BY DEF RolesOK

LEMMA AdminKept ==
  ASSUME AdminOK, UNCHANGED <<boot, roles, demoted>>
  PROVE  AdminOK'
BY DEF AdminOK, AdminAfterBoot, Admins

-----------------------------------------------------------------------------
(* Steps of requests that write nothing but what they carry.               *)

Quiet == UNCHANGED <<now, ident, roles, sess, cache, boot, held, wrong, demoted>>

LEMMA QuietStep ==
  ASSUME IdInv, Quiet, NEW r \in Requests, NEW y, To(r, y), ReqOK(y)', CountOK'
  PROVE  IdInv'
<1>1. IdentsOK' /\ Known \subseteq Known'
  BY IdentKept DEF IdInv, Quiet
<1>2. Later
  BY <1>1, LaterKept DEF IdInv, Quiet
<1>3. RolesOK' /\ SessOK' /\ AdminOK'
  BY <1>1, RolesKept, SessKept, AdminKept DEF IdInv, Quiet
<1>4. CacheOK' /\ ReqsOK'
  BY <1>2, CacheKept, ReqsStep DEF IdInv, Quiet, To
<1> QED
  BY <1>1, <1>3, <1>4 DEF IdInv

LEMMA BeginStep ==
  ASSUME IdInv, Quiet, NEW r \in Requests, NEW y, To(r, y), ReqOK(y)', Start(r)
  PROVE  IdInv'
<1>1. CountOK'
  BY CountBegin DEF IdInv, Quiet, Start, To
<1> QED
  BY <1>1, QuietStep

LEMMA SentSame ==
  ASSUME CountOK, UNCHANGED sent
  PROVE  sent <= sent' /\ sent' \in 0..MaxRequests
<1>1. sent \in Int
  BY Numbers DEF CountOK
<1> QED
  BY <1>1 DEF CountOK

LEMMA OngoingStep ==
  ASSUME IdInv, Quiet, NEW r \in Requests, NEW y, To(r, y), ReqOK(y)',
         y.phase # "login", UNCHANGED sent
  PROVE  IdInv'
<1>1. CountOK'
  BY CountStep, SentSame DEF IdInv, Quiet, To
<1> QED
  BY <1>1, QuietStep

LEMMA DropStep ==
  ASSUME IdInv, Quiet, NEW r \in Requests, To(r, Idle), UNCHANGED sent
  PROVE  IdInv'
BY OngoingStep, IdleOK

(* The clock is a number.                                                  *)
LEMMA NowType ==
  ASSUME IdInv
  PROVE  now \in Nat /\ now <= MaxTime /\ now \in 0..now
<1>1. now \in 0..MaxTime
  BY DEF IdInv, RolesOK
<1> QED
  BY <1>1, Numbers

(* A request in a phase has what that phase carries.                       *)
LEMMA ReqFacts ==
  ASSUME IdInv, NEW r \in Requests
  PROVE  ReqOK(req[r])
BY DEF IdInv, ReqsOK

LEMMA KnownAcct ==
  ASSUME IdInv, NEW u \in Known
  PROVE  u \in Users /\ ident[u] \in Acct /\ ident[u].fails <= wrong[u]
BY DEF IdInv, IdentsOK, AcctOK, Known

LEMMA AuthenticateStep ==
  ASSUME IdInv, NEW r \in Requests, NEW u \in Users, NEW pw, Authenticate(r, u, pw)
  PROVE  IdInv'
<1>1. Quiet
  BY DEF Authenticate, Quiet, db, history
<1>2. u \in Known /\ ident[u] \in Acct /\ ident[u].fails <= wrong[u]
  BY KnownAcct DEF Authenticate
<1>3. PICK x : x = ident[u]
  OBVIOUS
<1>4. PICK y : y = [phase |-> "login", u |-> u, pw |-> pw, id |-> x]
  OBVIOUS
<1>5. y.phase = "login" /\ y.u = u /\ y.id = x
  BY <1>4
<1>6. u \in Known'
  BY <1>1, <1>2 DEF Quiet, Known
<1>7. wrong' = wrong
  BY <1>1 DEF Quiet
<1>8. ReqOK(y)'
  BY <1>2, <1>3, <1>5, <1>6, <1>7 DEF ReqOK, Phases
<1>9. To(r, y) /\ Start(r)
  BY <1>3, <1>4 DEF Authenticate
<1> QED
  BY <1>1, <1>8, <1>9, BeginStep

LEMMA FindSessionStep ==
  ASSUME IdInv, NEW r \in Requests, NEW s \in Sessions, NEW route, FindSession(r, s, route)
  PROVE  IdInv'
<1>1. Quiet
  BY DEF FindSession, Quiet, db, history
<1>2. PICK u : u = sess[s].user
  OBVIOUS
<1>3. u \in Users
  BY <1>2 DEF FindSession, IdInv, SessOK, Known
<1>4. PICK n : n = now
  OBVIOUS
<1>5. n \in 0..now'
  BY <1>1, <1>4, NowType DEF Quiet
<1>6. PICK y : y = [phase |-> "resolve", u |-> u, route |-> route, since |-> n]
  OBVIOUS
<1>7. y.phase = "resolve" /\ y.u = u /\ y.since = n
  BY <1>6
<1>8. ReqOK(y)'
  BY <1>3, <1>5, <1>7 DEF ReqOK, Phases
<1>9. To(r, y) /\ Start(r)
  BY <1>2, <1>4, <1>6 DEF FindSession
<1> QED
  BY <1>1, <1>8, <1>9, BeginStep

(* What an admitted request carries: roles that were held at a time that   *)
(* is recent enough for the moment the request began.                      *)
LEMMA ActOK ==
  ASSUME RolesOK, UNCHANGED <<now, held>>, NEW u \in Users, NEW rs, NEW must, NEW route,
         NEW since, NEW t \in 0..now, t + CacheTTL > since, rs \in held[u][t],
         NEW y, y = [phase |-> "act", u |-> u, roles |-> rs, must |-> must,
                     route |-> route, since |-> since, at |-> now]
  PROVE  ReqOK(y)' /\ y.phase # "login"
<1>1. /\ y.phase = "act" /\ y.u = u /\ y.roles = rs /\ y.since = since /\ y.at = now
  OBVIOUS
<1>2. now \in 0..now'
  BY Numbers DEF RolesOK
<1>3. t \in 0..y.at /\ t + CacheTTL > y.since /\ y.roles \in held'[y.u][t]
  BY <1>1
<1> QED
  BY <1>1, <1>2, <1>3 DEF ReqOK, Phases

LEMMA BuildCurrentUserStep ==
  ASSUME IdInv, NEW r \in Requests, BuildCurrentUser(r)
  PROVE  IdInv'
<1>1. Quiet /\ UNCHANGED sent /\ req[r].phase = "resolve"
  BY DEF BuildCurrentUser, Quiet, db, history
<1>2. PICK u : u = req[r].u
  OBVIOUS
<1>3. PICK since : since = req[r].since
  OBVIOUS
<1>4. u \in Users /\ since \in 0..now
  BY <1>1, <1>2, <1>3, ReqFacts DEF ReqOK, Phases
<1>5. PICK y : y = [phase |-> "act", u |-> u, roles |-> roles[u], must |-> ident[u].must,
                    route |-> req[r].route, since |-> since, at |-> now]
  OBVIOUS
<1>6. now \in 0..now /\ now + CacheTTL > since
  BY <1>4, NowType, Numbers
<1>7. roles[u] \in held[u][now] /\ RolesOK
  BY <1>4 DEF IdInv, RolesOK
<1>8. ReqOK(y)' /\ y.phase # "login"
  <2>1. PICK n : n = now
    OBVIOUS
  <2>2. PICK rs : rs = roles[u]
    OBVIOUS
  <2>3. PICK must : must = ident[u].must
    OBVIOUS
  <2>4. PICK route : route = req[r].route
    OBVIOUS
  <2>5. n \in 0..now /\ n + CacheTTL > since /\ rs \in held[u][n]
    BY <1>6, <1>7, <2>1, <2>2
  <2>6. y = [phase |-> "act", u |-> u, roles |-> rs, must |-> must,
             route |-> route, since |-> since, at |-> now]
    BY <1>5, <2>2, <2>3, <2>4
  <2> QED
    BY <1>1, <1>4, <1>7, <2>5, <2>6, ActOK DEF Quiet
<1>9. To(r, y)
  BY <1>2, <1>3, <1>5 DEF BuildCurrentUser, Admitted, RolesByUserID
<1> QED
  BY <1>1, <1>8, <1>9, OngoingStep

LEMMA LegacyHitStep ==
  ASSUME IdInv, NEW r \in Requests, NEW u \in Users, NEW route, LegacyHit(r, u, route)
  PROVE  IdInv'
<1>1. Quiet /\ Start(r)
  BY DEF LegacyHit, Quiet, db, history
<1>2. PICK x : x = cache[u]
  OBVIOUS
<1>3. x \in Entry /\ \E t \in 0..now : t + CacheTTL >= x.expires /\ x.roles \in held[u][t]
  BY <1>2 DEF LegacyHit, IdInv, CacheOK, EntryOK
<1>4. PICK t \in 0..now : t + CacheTTL >= x.expires /\ x.roles \in held[u][t]
  BY <1>3
<1>5. PICK n : n = now
  OBVIOUS
<1>6. t + CacheTTL > n
  <2>1. x.expires \in Int /\ n \in Int /\ CacheTTL \in Int
    BY <1>3, <1>5, NowType, Numbers DEF Entry, Times
  <2>2. n < x.expires
    BY <1>2, <1>5 DEF LegacyHit
  <2> QED
    BY <1>4, <2>1, <2>2
<1>7. PICK y : y = [phase |-> "act", u |-> u, roles |-> x.roles, must |-> FALSE,
                    route |-> route, since |-> n, at |-> now]
  OBVIOUS
<1>8. RolesOK
  BY DEF IdInv
<1>9. ReqOK(y)'
  BY <1>1, <1>4, <1>6, <1>7, <1>8, ActOK DEF Quiet
<1>10. To(r, y)
  BY <1>2, <1>5, <1>7 DEF LegacyHit, Admitted
<1> QED
  BY <1>1, <1>9, <1>10, BeginStep

LEMMA LegacyMissStep ==
  ASSUME IdInv, NEW r \in Requests, NEW u \in Users, NEW route, LegacyMiss(r, u, route)
  PROVE  IdInv'
<1>1. Quiet /\ Start(r)
  BY DEF LegacyMiss, Quiet, db, history
<1>2. PICK n : n = now
  OBVIOUS
<1>3. n \in 0..now'
  BY <1>1, <1>2, NowType DEF Quiet
<1>4. PICK y : y = [phase |-> "load", u |-> u, route |-> route, since |-> n]
  OBVIOUS
<1>5. y.phase = "load" /\ y.u = u /\ y.since = n
  BY <1>4
<1>6. ReqOK(y)'
  BY <1>3, <1>5 DEF ReqOK, Phases
<1>7. To(r, y)
  BY <1>2, <1>4 DEF LegacyMiss
<1> QED
  BY <1>1, <1>6, <1>7, BeginStep

LEMMA LoadRolesStep ==
  ASSUME IdInv, NEW r \in Requests, LoadRoles(r)
  PROVE  IdInv'
<1>1. Quiet /\ UNCHANGED sent /\ req[r].phase = "load"
  BY DEF LoadRoles, Quiet, db, history
<1>2. PICK u : u = req[r].u
  OBVIOUS
<1>3. PICK since : since = req[r].since
  OBVIOUS
<1>4. u \in Users /\ since \in 0..now
  BY <1>1, <1>2, <1>3, ReqFacts DEF ReqOK, Phases
<1>5. PICK rs : rs = roles[u]
  OBVIOUS
<1>6. rs \in (SUBSET Roles) \ {{}} /\ rs \in held[u][now]
  <2>1. rs # {}
    BY <1>2, <1>5 DEF LoadRoles, RolesByUserID
  <2>2. rs \in SUBSET Roles /\ rs \in held[u][now]
    BY <1>4, <1>5 DEF IdInv, RolesOK
  <2> QED
    BY <2>1, <2>2
<1>7. PICK y : y = [phase |-> "store", u |-> u, route |-> req[r].route,
                    since |-> since, roles |-> rs]
  OBVIOUS
<1>8. y.phase = "store" /\ y.u = u /\ y.since = since /\ y.roles = rs
  BY <1>7
<1>9. now' = now /\ held' = held
  BY <1>1 DEF Quiet
<1>10. ReqOK(y)'
  <2>1. now \in 0..now' /\ now >= since
    BY <1>4, <1>9, NowType
  <2>2. \E t \in 0..now' : t >= y.since /\ y.roles \in held'[y.u][t]
    BY <1>6, <1>8, <1>9, <2>1
  <2> QED
    BY <1>4, <1>6, <1>8, <1>9, <2>2 DEF ReqOK, Phases
<1>11. To(r, y)
  BY <1>2, <1>3, <1>5, <1>7 DEF LoadRoles, RolesByUserID
<1> QED
  BY <1>1, <1>8, <1>10, <1>11, OngoingStep

-----------------------------------------------------------------------------
(* Steps that write the cache or a session.                                *)

(* An ongoing request that writes one cache entry.                         *)
LEMMA CacheStep ==
  ASSUME IdInv, UNCHANGED <<now, ident, roles, sess, boot, sent, held, wrong, demoted>>,
         NEW r \in Requests, NEW y, To(r, y), ReqOK(y)', y.phase # "login",
         NEW u \in Users, NEW x, cache' = [cache EXCEPT ![u] = x], EntryOK(u, x)'
  PROVE  IdInv'
<1>1. IdentsOK' /\ Known \subseteq Known'
  BY IdentKept DEF IdInv
<1>2. Later
  BY <1>1, LaterKept DEF IdInv
<1>3. RolesOK' /\ SessOK' /\ AdminOK'
  BY <1>1, RolesKept, SessKept, AdminKept DEF IdInv
<1>4. CacheOK'
  BY <1>2, CacheSet DEF IdInv
<1>5. ReqsOK'
  BY <1>2, ReqsStep DEF IdInv, To
<1>6. CountOK'
  BY CountStep, SentSame DEF IdInv, To
<1> QED
  BY <1>1, <1>3, <1>4, <1>5, <1>6 DEF IdInv

LEMMA StoreRolesStep ==
  ASSUME IdInv, NEW r \in Requests, StoreRoles(r)
  PROVE  IdInv'
<1>1. /\ UNCHANGED <<now, ident, roles, sess, boot, sent, held, wrong, demoted>>
      /\ req[r].phase = "store"
  BY DEF StoreRoles, db, history
<1>2. PICK q : q = req[r]
  OBVIOUS
<1>3. PICK u : u = q.u
  OBVIOUS
<1>4. /\ u \in Users /\ q.since \in 0..now /\ q.roles \in (SUBSET Roles) \ {{}}
      /\ \E t \in 0..now : t >= q.since /\ q.roles \in held[u][t]
  BY <1>1, <1>2, <1>3, ReqFacts DEF ReqOK, Phases
<1>5. PICK t \in 0..now : t >= q.since /\ q.roles \in held[u][t]
  BY <1>4
<1>6. t \in Nat /\ q.since \in Nat /\ now \in Nat /\ now <= MaxTime /\ q.since <= now
  BY <1>4, <1>5, NowType
<1>7. PICK x : x = [roles |-> q.roles, expires |-> q.since + CacheTTL]
  OBVIOUS
<1>8. cache' = [cache EXCEPT ![u] = x]
  BY <1>2, <1>3, <1>7 DEF StoreRoles, CacheEntry
<1>9. EntryOK(u, x)'
  <2>1. q.since + CacheTTL \in Times
    BY <1>6, Numbers DEF Times
  <2>2. x \in Entry /\ x.roles = q.roles /\ x.expires = q.since + CacheTTL
    BY <1>4, <1>7, <2>1 DEF Entry
  <2>3. t + CacheTTL >= q.since + CacheTTL
    BY <1>5, <1>6, Numbers
  <2>4. now' = now /\ held' = held
    BY <1>1
  <2> QED
    BY <1>5, <2>2, <2>3, <2>4 DEF EntryOK
<1>10. CASE To(r, Idle)
  BY <1>1, <1>4, <1>8, <1>9, <1>10, CacheStep, IdleOK
<1>11. CASE Admitted(r, q.u, q.roles, FALSE, q.route, q.since)
  <2>1. PICK rs : rs = q.roles
    OBVIOUS
  <2>2. PICK route : route = q.route
    OBVIOUS
  <2>3. PICK since : since = q.since
    OBVIOUS
  <2>4. PICK y : y = [phase |-> "act", u |-> u, roles |-> rs, must |-> FALSE,
                      route |-> route, since |-> since, at |-> now]
    OBVIOUS
  <2>5. t + CacheTTL > since /\ rs \in held[u][t]
    BY <1>5, <1>6, <2>1, <2>3, Numbers
  <2>6. RolesOK /\ UNCHANGED <<now, held>>
    BY <1>1 DEF IdInv
  <2>7. ReqOK(y)' /\ y.phase # "login"
    BY <1>4, <2>4, <2>5, <2>6, ActOK
  <2>8. To(r, y)
    BY <1>3, <1>11, <2>1, <2>2, <2>3, <2>4 DEF Admitted
  <2> QED
    BY <1>1, <1>4, <1>8, <1>9, <2>7, <2>8, CacheStep
<1> QED
  BY <1>2, <1>10, <1>11 DEF StoreRoles

LEMMA InvalidateStep ==
  ASSUME IdInv, NEW r \in Requests, Invalidate(r)
  PROVE  IdInv'
<1>1. /\ UNCHANGED <<now, ident, roles, sess, boot, sent, held, wrong, demoted>>
      /\ req[r].phase = "invalidate" /\ To(r, Idle)
  BY DEF Invalidate, db, history
<1>2. PICK u : u = req[r].u
  OBVIOUS
<1>3. u \in Users
  BY <1>1, <1>2, ReqFacts DEF ReqOK
<1>4. cache' = [cache EXCEPT ![u] = NoEntry]
  BY <1>2 DEF Invalidate, InvalidateUser
<1>5. EntryOK(u, NoEntry)'
  BY DEF EntryOK
<1> QED
  BY <1>1, <1>3, <1>4, <1>5, CacheStep, IdleOK

(* A step that writes sessions, of a request that ends or of none.         *)
LEMMA SessionStep ==
  ASSUME IdInv, UNCHANGED <<now, ident, roles, cache, boot, sent, held, wrong, demoted>>,
         SessOK', UNCHANGED req \/ \E r \in Requests : To(r, Idle)
  PROVE  IdInv'
<1>1. IdentsOK' /\ Known \subseteq Known'
  BY IdentKept DEF IdInv
<1>2. Later
  BY <1>1, LaterKept DEF IdInv
<1>3. RolesOK' /\ AdminOK' /\ CacheOK'
  BY <1>2, RolesKept, AdminKept, CacheKept DEF IdInv
<1>4. CASE UNCHANGED req
  <2>1. ReqsOK'
    BY <1>2, <1>4, ReqsKept DEF IdInv
  <2>2. \A u \in Users : Logins(u)' \subseteq Logins(u)
    BY <1>4 DEF Logins
  <2>3. CountOK'
    BY <2>2, CountKept, SentSame DEF IdInv
  <2> QED
    BY <1>1, <1>3, <2>1, <2>3 DEF IdInv
<1>5. ASSUME NEW r \in Requests, To(r, Idle) PROVE IdInv'
  <2>1. ReqsOK'
    BY <1>2, <1>5, ReqsStep, IdleOK DEF IdInv, To
  <2>2. CountOK'
    BY <1>5, CountStep, SentSame, IdleOK DEF IdInv, To
  <2> QED
    BY <1>1, <1>3, <2>1, <2>2 DEF IdInv
<1> QED
  BY <1>4, <1>5

LEMMA NewSessionStep ==
  ASSUME IdInv, NEW r \in Requests, NEW s \in Sessions, NewSession(r, s)
  PROVE  IdInv'
<1>1. /\ UNCHANGED <<now, ident, roles, cache, boot, sent, held, wrong, demoted>>
      /\ req[r].phase = "session" /\ To(r, Idle)
  BY DEF NewSession, history
<1>2. PICK u : u = req[r].u
  OBVIOUS
<1>3. u \in Known /\ u \in Users
  BY <1>1, <1>2, ReqFacts DEF ReqOK, Known
<1>4. PICK x : x = [user |-> u, expires |-> now + SessionTTL, revoked |-> FALSE,
                    cookie |-> roles[u] # {}]
  OBVIOUS
<1>5. sess' = [sess EXCEPT ![s] = x]
  BY <1>2, <1>4 DEF NewSession, CreateSession
<1>6. x \in SessionRow /\ x.user = u
  <2>1. now + SessionTTL \in Times
    BY NowType, Numbers DEF Times
  <2>2. PICK e : e = now + SessionTTL
    OBVIOUS
  <2>3. PICK b \in BOOLEAN : b = (roles[u] # {})
    <3>1. (roles[u] # {}) \in BOOLEAN
      OBVIOUS
    <3> QED
      BY <3>1, Zenon
  <2>4. x = [user |-> u, expires |-> e, revoked |-> FALSE, cookie |-> b]
    BY <1>4, <2>2, <2>3
  <2> QED
    BY <1>3, <2>1, <2>2, <2>3, <2>4 DEF SessionRow
<1>7. SessOK'
  BY <1>1, <1>3, <1>5, <1>6 DEF IdInv, SessOK, Known
<1> QED
  BY <1>1, <1>7, SessionStep

LEMMA RevokedRow ==
  ASSUME NEW x \in SessionRow
  PROVE  /\ [x EXCEPT !.revoked = TRUE] \in SessionRow
         /\ [x EXCEPT !.revoked = TRUE].user = x.user
BY DEF SessionRow

LEMMA LogoutStep ==
  ASSUME IdInv, NEW s \in Sessions, Logout(s)
  PROVE  IdInv'
<1>1. UNCHANGED <<now, ident, roles, cache, req, boot, sent, held, wrong, demoted>>
  BY DEF Logout, history
<1>2. sess[s] \in SessionRow /\ sess[s].user \in Known
  BY DEF Logout, IdInv, SessOK
<1>3. sess' = [sess EXCEPT ![s] = [sess[s] EXCEPT !.revoked = TRUE]]
  BY DEF Logout, RevokeSession
<1>4. SessOK'
  BY <1>1, <1>2, <1>3, RevokedRow DEF IdInv, SessOK, Known
<1> QED
  BY <1>1, <1>4, SessionStep

LEMMA RevokeAfterResetStep ==
  ASSUME IdInv, NEW r \in Requests, RevokeAfterReset(r)
  PROVE  IdInv'
<1>1. UNCHANGED <<now, ident, roles, cache, boot, sent, held, wrong, demoted>> /\ To(r, Idle)
  BY DEF RevokeAfterReset, history
<1>2. PICK u : u = req[r].u
  OBVIOUS
<1>3. sess' = [s \in Sessions |-> IF sess[s] # NoSession /\ sess[s].user = u
                                  THEN [sess[s] EXCEPT !.revoked = TRUE] ELSE sess[s]]
  BY <1>2 DEF RevokeAfterReset, RevokeSessionsByUserID
<1>4. ASSUME NEW s \in Sessions, sess'[s] # NoSession
      PROVE  sess'[s] \in SessionRow /\ sess'[s].user \in Known
  <2>1. CASE sess[s] # NoSession /\ sess[s].user = u
    <3>1. sess[s] \in SessionRow /\ sess[s].user \in Known
      BY <2>1 DEF IdInv, SessOK
    <3>2. sess'[s] = [sess[s] EXCEPT !.revoked = TRUE]
      BY <1>3, <2>1
    <3> QED
      BY <3>1, <3>2, RevokedRow
  <2>2. CASE ~(sess[s] # NoSession /\ sess[s].user = u)
    BY <1>3, <1>4, <2>2 DEF IdInv, SessOK
  <2> QED
    BY <2>1, <2>2
<1>5. SessOK'
  BY <1>1, <1>3, <1>4 DEF SessOK, Known
<1> QED
  BY <1>1, <1>5, SessionStep

-----------------------------------------------------------------------------
(* Steps that write an account.                                            *)

LEMMA AccountStep ==
  ASSUME IdInv, UNCHANGED <<now, roles, sess, cache, boot, held, demoted>>,
         NEW u \in Users, NEW x, ident' = [ident EXCEPT ![u] = x], AcctOK(u, x)',
         ident[u] # NoIdentity => x # NoIdentity,
         wrong' \in [Users -> Nat], \A v \in Users : wrong[v] <= wrong'[v],
         NEW r \in Requests, NEW y, To(r, y), ReqOK(y)', CountOK'
  PROVE  IdInv'
<1>1. IdentsOK' /\ Known \subseteq Known'
  BY IdentSet DEF IdInv
<1>2. Later
  <2>1. now \in Int /\ now' \in 0..MaxTime
    BY NowType DEF IdInv, RolesOK
  <2> QED
    BY <1>1, <2>1 DEF Later
<1>3. RolesOK' /\ SessOK' /\ AdminOK'
  BY <1>1, RolesKept, SessKept, AdminKept DEF IdInv
<1>4. CacheOK' /\ ReqsOK'
  BY <1>2, CacheKept, ReqsStep DEF IdInv, To
<1> QED
  BY <1>1, <1>3, <1>4 DEF IdInv

(* One in which no wrong password was presented.                           *)
LEMMA RightAccountStep ==
  ASSUME IdInv, UNCHANGED <<now, roles, sess, cache, boot, held, demoted, wrong, sent>>,
         NEW u \in Users, NEW x, ident' = [ident EXCEPT ![u] = x], AcctOK(u, x),
         ident[u] # NoIdentity => x # NoIdentity,
         NEW r \in Requests, NEW y, To(r, y), ReqOK(y)', y.phase # "login"
  PROVE  IdInv'
<1>1. wrong' \in [Users -> Nat] /\ \A v \in Users : wrong[v] <= wrong'[v]
  BY DEF IdInv, IdentsOK
<1>2. CountOK'
  BY CountStep, SentSame DEF IdInv, To
<1>3. AcctOK(u, x)'
  BY DEF AcctOK
<1> QED
  BY <1>1, <1>2, <1>3, AccountStep

LEMMA LoginFailedStep ==
  ASSUME IdInv, NEW r \in Requests, LoginFailed(r)
  PROVE  IdInv'
<1>1. /\ UNCHANGED <<now, roles, sess, cache, boot, sent, held, demoted>>
      /\ req[r].phase = "login" /\ To(r, Idle)
  BY DEF LoginFailed
<1>2. PICK q : q = req[r]
  OBVIOUS
<1>3. PICK u : u = q.u
  OBVIOUS
<1>4. u \in Known /\ u \in Users /\ q.id \in Acct /\ q.id.fails <= wrong[u]
  BY <1>1, <1>2, <1>3, ReqFacts DEF ReqOK, Known
<1>5. PICK n : n = q.id.fails + 1
  OBVIOUS
<1>6. PICK l : l = IF n >= MaxFailed THEN now + LockDuration ELSE 0
  OBVIOUS
<1>7. PICK x : x = [ident[u] EXCEPT !.fails = n, !.lock = l]
  OBVIOUS
<1>8. ident' = [ident EXCEPT ![u] = x]
  BY <1>2, <1>3, <1>5, <1>6, <1>7 DEF LoginFailed, RecordFailedLogin
<1>9. wrong' = [wrong EXCEPT ![u] = @ + 1]
  BY <1>2, <1>3 DEF LoginFailed
<1>10. wrong \in [Users -> Nat] /\ IdentsOK /\ CountOK /\ ReqsOK
  BY DEF IdInv, IdentsOK
<1>11. wrong' \in [Users -> Nat] /\ \A v \in Users : wrong[v] <= wrong'[v]
  <2>1. ASSUME NEW v \in Users PROVE wrong'[v] \in Nat /\ wrong[v] <= wrong'[v]
    <3>1. wrong[v] \in Nat /\ wrong'[v] = IF v = u THEN wrong[v] + 1 ELSE wrong[v]
      BY <1>9, <1>10
    <3>2. CASE v = u
      BY <3>1, <3>2
    <3>3. CASE v # u
      BY <3>1, <3>3
    <3> QED
      BY <3>2, <3>3
  <2>2. wrong' \in [Users -> Nat]
    BY <1>9, <1>10, <2>1
  <2> QED
    BY <2>1, <2>2
<1>12. CountOK' /\ wrong'[u] <= MaxRequests
  BY <1>1, <1>2, <1>3, <1>4, <1>9, <1>10, CountFailed DEF To
<1>13. AcctOK(u, x)' /\ x # NoIdentity
  <2>1. ident[u] \in Acct
    BY <1>4, KnownAcct
  <2>2. q.id.fails \in Nat
    BY <1>4, Numbers DEF Acct
  <2>3. wrong[u] \in Nat /\ wrong'[u] = wrong[u] + 1
    BY <1>4, <1>9, <1>10
  <2>4. n \in Nat /\ n <= wrong'[u]
    BY <1>4, <1>5, <2>2, <2>3
  <2>5. n \in 0..MaxRequests
    BY <1>12, <2>3, <2>4, Numbers
  <2>6. l \in Times /\ (l > 0 => n >= MaxFailed)
    <3>1. now + LockDuration \in Times /\ 0 \in Times
      BY NowType, Numbers DEF Times
    <3>2. CASE n >= MaxFailed
      BY <1>6, <3>1, <3>2
    <3>3. CASE ~(n >= MaxFailed)
      <4>1. l = 0
        BY <1>6, <3>3
      <4> QED
        BY <3>1, <4>1
    <3> QED
      BY <3>2, <3>3
  <2>7. x \in Acct /\ x.fails = n /\ x.lock = l
    BY <1>7, <2>1, <2>5, <2>6 DEF Acct
  <2>8. x.lock > 0 => wrong'[u] >= MaxFailed
    <3>1. MaxFailed \in Int /\ wrong'[u] \in Int
      BY <2>3, Numbers
    <3> QED
      BY <2>4, <2>6, <2>7, <3>1
  <2>9. x # NoIdentity
    BY <2>7, NotNone
  <2> QED
    BY <2>4, <2>7, <2>8, <2>9 DEF AcctOK
<1> QED
  BY <1>1, <1>4, <1>8, <1>11, <1>12, <1>13, AccountStep, IdleOK

(* An account whose counters are cleared, or stay what they are.           *)
LEMMA ClearedOK ==
  ASSUME IdInv, NEW u \in Known, NEW x \in Acct,
         \/ x.fails = 0 /\ x.lock = 0
         \/ x.fails = ident[u].fails /\ x.lock = ident[u].lock
  PROVE  AcctOK(u, x) /\ x # NoIdentity
<1>1. u \in Users /\ AcctOK(u, ident[u]) /\ ident[u] # NoIdentity /\ wrong[u] \in Nat
  BY DEF IdInv, IdentsOK, Known
<1>2. x # NoIdentity
  BY NotNone
<1> QED
  BY <1>1, <1>2 DEF AcctOK

LEMMA LoginSucceededStep ==
  ASSUME IdInv, NEW r \in Requests, LoginSucceeded(r)
  PROVE  IdInv'
<1>1. /\ UNCHANGED <<now, roles, sess, cache, boot, sent, held, wrong, demoted>>
      /\ req[r].phase = "login"
  BY DEF LoginSucceeded, history
<1>2. PICK u : u = req[r].u
  OBVIOUS
<1>3. u \in Known /\ u \in Users
  BY <1>1, <1>2, ReqFacts DEF ReqOK, Known
<1>4. PICK x : x = [ident[u] EXCEPT !.fails = 0, !.lock = 0]
  OBVIOUS
<1>5. ident' = [ident EXCEPT ![u] = x]
  BY <1>2, <1>4 DEF LoginSucceeded, RecordSuccessfulLogin
<1>6. x \in Acct /\ x.fails = 0 /\ x.lock = 0
  <2>1. 0 \in 0..MaxRequests /\ 0 \in Times
    BY Numbers DEF Times
  <2> QED
    BY <1>3, <1>4, <2>1, KnownAcct DEF Acct
<1>7. AcctOK(u, x) /\ x # NoIdentity
  BY <1>3, <1>6, ClearedOK
<1>8. PICK y : y = [phase |-> "session", u |-> u]
  OBVIOUS
<1>9. y.phase = "session" /\ y.u = u
  BY <1>8
<1>10. u \in Known'
  BY <1>3, <1>5, <1>7 DEF Known, IdInv, IdentsOK
<1>11. ReqOK(y)'
  BY <1>3, <1>9, <1>10 DEF ReqOK, Phases
<1>12. To(r, y)
  BY <1>2, <1>8 DEF LoginSucceeded
<1> QED
  BY <1>1, <1>3, <1>5, <1>7, <1>9, <1>11, <1>12, RightAccountStep

(* UpdateUser with any change that a handler decodes.                      *)
LEMMA UpdateUserOK ==
  ASSUME IdInv, NEW u \in Users, NEW change, UpdateUser(u, change),
         "pw" \in DOMAIN change => change.pw \in Passwords,
         "must" \in DOMAIN change => change.must \in BOOLEAN,
         "active" \in DOMAIN change => change.active \in BOOLEAN
  PROVE  \E x : /\ ident' = [ident EXCEPT ![u] = x] /\ AcctOK(u, x)
                /\ ident[u] # NoIdentity => x # NoIdentity
<1>1. CASE u \notin Known
  <2>1. PICK x : x = ident[u]
    OBVIOUS
  <2>2. ident' = [ident EXCEPT ![u] = x]
    BY <1>1, <2>1 DEF UpdateUser
  <2>3. AcctOK(u, x)
    BY <2>1 DEF IdInv, IdentsOK
  <2> QED
    BY <2>1, <2>2, <2>3
<1>2. CASE u \in Known
  <2>1. PICK i : i = ident[u]
    OBVIOUS
  <2>2. i \in Acct
    BY <1>2, <2>1, KnownAcct
  <2>3. PICK pw : pw = IF "pw" \in DOMAIN change THEN change.pw ELSE i.pw
    OBVIOUS
  <2>4. PICK must : must = IF "must" \in DOMAIN change THEN change.must ELSE i.must
    OBVIOUS
  <2>5. PICK active : active = IF "active" \in DOMAIN change THEN change.active ELSE i.active
    OBVIOUS
  <2>6. PICK fails : fails = IF "pw" \in DOMAIN change THEN 0 ELSE i.fails
    OBVIOUS
  <2>7. PICK lock : lock = IF "pw" \in DOMAIN change THEN 0 ELSE i.lock
    OBVIOUS
  <2>8. PICK x : x = [pw |-> pw, must |-> must, active |-> active, fails |-> fails,
                      lock |-> lock]
    OBVIOUS
  <2>9. ident' = [ident EXCEPT ![u] = x]
    BY <1>2, <2>1, <2>3, <2>4, <2>5, <2>6, <2>7, <2>8 DEF UpdateUser
  <2>10. /\ pw \in Passwords /\ must \in BOOLEAN /\ active \in BOOLEAN
    <3>1. i.pw \in Passwords /\ i.must \in BOOLEAN /\ i.active \in BOOLEAN
      BY <2>2 DEF Acct
    <3> QED
      BY <2>3, <2>4, <2>5, <3>1, Zenon
  <2>11. /\ fails \in 0..MaxRequests /\ lock \in Times
         /\ (fails = 0 /\ lock = 0) \/ (fails = i.fails /\ lock = i.lock)
    <3>1. 0 \in 0..MaxRequests /\ 0 \in Times
      BY Numbers DEF Times
    <3>2. i.fails \in 0..MaxRequests /\ i.lock \in Times
      BY <2>2 DEF Acct
    <3> QED
      BY <2>6, <2>7, <3>1, <3>2
  <2>12. x \in Acct /\ x.fails = fails /\ x.lock = lock
    BY <2>8, <2>10, <2>11 DEF Acct
  <2>13. AcctOK(u, x) /\ x # NoIdentity
    BY <1>2, <2>1, <2>11, <2>12, ClearedOK
  <2> QED
    BY <2>9, <2>13
<1> QED
  BY <1>1, <1>2

LEMMA UpdateUserStep ==
  ASSUME IdInv, UNCHANGED <<now, roles, sess, cache, boot, held, demoted, wrong, sent>>,
         NEW u \in Users, NEW change, UpdateUser(u, change),
         "pw" \in DOMAIN change => change.pw \in Passwords,
         "must" \in DOMAIN change => change.must \in BOOLEAN,
         "active" \in DOMAIN change => change.active \in BOOLEAN,
         NEW r \in Requests, NEW y, To(r, y), ReqOK(y)', y.phase # "login"
  PROVE  IdInv'
<1>1. PICK x : /\ ident' = [ident EXCEPT ![u] = x] /\ AcctOK(u, x)
               /\ ident[u] # NoIdentity => x # NoIdentity
  BY UpdateUserOK
<1> QED
  BY <1>1, RightAccountStep

(* What a request carries between the two statements of a handler.         *)
LEMMA HalfwayOK ==
  ASSUME NEW u \in Users, NEW p \in {"invalidate", "revoke"}, NEW y,
         y = [phase |-> p, u |-> u]
  PROVE  ReqOK(y)' /\ y.phase # "login"
<1>1. y.phase = p /\ y.u = u
  OBVIOUS
<1> QED
  BY <1>1 DEF ReqOK, Phases

LEMMA ChangePasswordStep ==
  ASSUME IdInv, NEW r \in Requests, NEW current, NEW new \in Passwords,
         ChangePasswordForUser(r, current, new)
  PROVE  IdInv'
<1>1. /\ UNCHANGED <<now, roles, sess, cache, boot, held, demoted, wrong, sent>>
      /\ To(r, Idle)
  BY DEF ChangePasswordForUser, history
<1>2. PICK u : u = req[r].u
  OBVIOUS
<1>3. PICK c : c = [pw |-> new, must |-> FALSE]
  OBVIOUS
<1>4. u \in Users /\ UpdateUser(u, c)
  BY <1>2, <1>3 DEF ChangePasswordForUser, Known
<1>5. DOMAIN c = {"pw", "must"} /\ c.pw \in Passwords /\ c.must \in BOOLEAN
  BY <1>3
<1> QED
  BY <1>1, <1>4, <1>5, UpdateUserStep, IdleOK

LEMMA ResetPasswordStep ==
  ASSUME IdInv, NEW r \in Requests, NEW u \in Users, NEW pw \in Passwords,
         AdminResetPassword(r, u, pw)
  PROVE  IdInv'
<1>1. PICK y : y = [phase |-> "revoke", u |-> u]
  OBVIOUS
<1>2. /\ UNCHANGED <<now, roles, sess, cache, boot, held, demoted, wrong, sent>>
      /\ To(r, y)
  BY <1>1 DEF AdminResetPassword, history
<1>3. PICK c : c = [pw |-> pw, must |-> TRUE]
  OBVIOUS
<1>4. UpdateUser(u, c)
  BY <1>3 DEF AdminResetPassword
<1>5. DOMAIN c = {"pw", "must"} /\ c.pw \in Passwords /\ c.must \in BOOLEAN
  BY <1>3
<1>6. ReqOK(y)' /\ y.phase # "login"
  BY <1>1, HalfwayOK
<1> QED
  BY <1>2, <1>4, <1>5, <1>6, UpdateUserStep

LEMMA UnlockUserStep ==
  ASSUME IdInv, NEW r \in Requests, NEW u \in Users, UnlockUser(r, u)
  PROVE  IdInv'
<1>1. /\ UNCHANGED <<now, roles, sess, cache, boot, held, demoted, wrong, sent>>
      /\ To(r, Idle)
  BY DEF UnlockUser, history
<1>2. PICK c : c = << >>
  OBVIOUS
<1>3. UpdateUser(u, c)
  BY <1>2 DEF UnlockUser
<1>4. DOMAIN c = {}
  BY <1>2
<1> QED
  BY <1>1, <1>3, <1>4, UpdateUserStep, IdleOK

LEMMA PatchUserStep ==
  ASSUME IdInv, NEW r \in Requests, HandlePatchUser(r)
  PROVE  IdInv'
<1>1. ASSUME NEW u \in Users, NEW c, PatchUser(r, u, c),
             \/ DOMAIN c = {"active"} /\ c.active \in BOOLEAN
             \/ DOMAIN c = {"pw"} /\ c.pw \in Passwords
      PROVE  IdInv'
  <2>1. /\ UNCHANGED <<now, roles, sess, cache, boot, held, demoted, wrong, sent>>
        /\ To(r, Idle) /\ UpdateUser(u, c)
    BY <1>1 DEF PatchUser, history
  <2>2. CASE DOMAIN c = {"active"} /\ c.active \in BOOLEAN
    BY <2>1, <2>2, UpdateUserStep, IdleOK
  <2>3. CASE DOMAIN c = {"pw"} /\ c.pw \in Passwords
    BY <2>1, <2>3, UpdateUserStep, IdleOK
  <2> QED
    BY <1>1, <2>2, <2>3
<1>2. ASSUME NEW u \in Users, NEW b \in BOOLEAN, PatchUser(r, u, [active |-> b])
      PROVE  IdInv'
  <2>1. PICK c : c = [active |-> b]
    OBVIOUS
  <2>2. DOMAIN c = {"active"} /\ c.active \in BOOLEAN
    BY <2>1, Zenon
  <2> QED
    BY <1>1, <1>2, <2>1, <2>2
<1>3. ASSUME NEW u \in Users, NEW pw \in Passwords, PatchUser(r, u, [pw |-> pw])
      PROVE  IdInv'
  <2>1. PICK c : c = [pw |-> pw]
    OBVIOUS
  <2>2. DOMAIN c = {"pw"} /\ c.pw \in Passwords
    BY <2>1
  <2> QED
    BY <1>1, <1>3, <2>1, <2>2
<1> QED
  BY <1>2, <1>3 DEF HandlePatchUser

(* A fresh account has no failures.                                        *)
LEMMA FreshAccount ==
  ASSUME IdInv, NEW u \in Users, NEW pw \in Passwords
  PROVE  AcctOK(u, Account(pw)) /\ Account(pw) # NoIdentity
<1>1. PICK x : x = Account(pw)
  OBVIOUS
<1>2. 0 \in 0..MaxRequests /\ 0 \in Times
  BY Numbers DEF Times
<1>3. x \in Acct /\ x.fails = 0 /\ x.lock = 0
  BY <1>1, <1>2 DEF Account, Acct
<1>4. wrong[u] \in Nat
  BY DEF IdInv, IdentsOK
<1>5. x.fails <= wrong[u] /\ ~(x.lock > 0)
  BY <1>3, <1>4
<1> QED
  BY <1>1, <1>3, <1>5, NotNone DEF AcctOK

LEMMA CreateUserStep ==
  ASSUME IdInv, NEW r \in Requests, NEW u \in Users, NEW pw \in Passwords,
         NEW rs \in RoleSets, CreateUser(r, u, pw, rs)
  PROVE  IdInv'
<1>1. PICK y : y = [phase |-> "roles", u |-> u, roles |-> rs]
  OBVIOUS
<1>2. /\ UNCHANGED <<now, roles, sess, cache, boot, held, demoted, wrong, sent>>
      /\ To(r, y)
  BY <1>1 DEF CreateUser, history
<1>3. PICK x : x = Account(pw)
  OBVIOUS
<1>4. ident' = [ident EXCEPT ![u] = x]
  BY <1>3 DEF CreateUser, InsertIdentity
<1>5. AcctOK(u, x) /\ x # NoIdentity
  BY <1>3, FreshAccount
<1>6. y.phase = "roles" /\ y.u = u /\ y.roles = rs
  BY <1>1
<1>7. rs \in SUBSET Roles
  BY IdentityAssumption
<1>8. ReqOK(y)'
  BY <1>6, <1>7 DEF ReqOK, Phases
<1> QED
  BY <1>2, <1>4, <1>5, <1>6, <1>8, RightAccountStep

-----------------------------------------------------------------------------
(* Steps that write roles.                                                 *)

(* One moment of a history is set.                                         *)
LEMMA MomentSet ==
  ASSUME NEW I, NEW S, NEW old \in [I -> S], NEW n \in I, NEW x \in S, NEW h,
         h = [old EXCEPT ![n] = x]
  PROVE  h \in [I -> S] /\ h[n] = x /\ \A t \in I : t # n => h[t] = old[t]
OBVIOUS

(* The roles of one user are set, in the history too.                      *)
LEMMA RolesSet ==
  ASSUME IdInv, NEW u \in Users, NEW rs \in SUBSET Roles, SetRoles(u, rs),
         UNCHANGED <<now, ident, sess, cache, wrong>>
  PROVE  IdentsOK' /\ RolesOK' /\ SessOK' /\ CacheOK' /\ Later
<1>1. IdentsOK' /\ Known \subseteq Known'
  BY IdentKept DEF IdInv
<1>2. RolesOK /\ now \in Int /\ now \in 0..MaxTime
  BY NowType DEF IdInv, RolesOK
<1>3. roles' \in [Users -> SUBSET Roles] /\ roles'[u] = rs
      /\ \A v \in Users \ {u} : roles'[v] = roles[v]
  BY <1>2 DEF SetRoles, RolesOK
<1>4. PICK h : h = [held[u] EXCEPT ![now] = held[u][now] \cup {rs}]
  OBVIOUS
<1>5. held' = [held EXCEPT ![u] = h]
  BY <1>4 DEF SetRoles
<1>6. /\ h \in [0..MaxTime -> SUBSET SUBSET Roles] /\ rs \in h[now]
      /\ \A t \in 0..MaxTime : held[u][t] \subseteq h[t]
  <2>1. PICK old : old = held[u]
    OBVIOUS
  <2>2. PICK x : x = old[now] \cup {rs}
    OBVIOUS
  <2>3. old \in [0..MaxTime -> SUBSET SUBSET Roles]
    BY <1>2, <2>1 DEF RolesOK
  <2>4. x \in SUBSET SUBSET Roles
    <3>1. old[now] \in SUBSET SUBSET Roles
      BY <1>2, <2>3
    <3> QED
      BY <2>2, <3>1
  <2>5. h = [old EXCEPT ![now] = x]
    BY <1>4, <2>1, <2>2
  <2>6. /\ h \in [0..MaxTime -> SUBSET SUBSET Roles] /\ h[now] = x
        /\ \A t \in 0..MaxTime : t # now => h[t] = old[t]
    BY <1>2, <2>3, <2>4, <2>5, MomentSet
  <2>7. rs \in h[now] /\ old[now] \subseteq h[now]
    BY <2>2, <2>6
  <2> QED
    BY <2>1, <2>6, <2>7
<1>7. /\ held' \in [Users -> [0..MaxTime -> SUBSET SUBSET Roles]]
      /\ held'[u] = h /\ \A v \in Users \ {u} : held'[v] = held[v]
  BY <1>2, <1>5, <1>6 DEF RolesOK
<1>8. RolesOK'
  BY <1>2, <1>3, <1>6, <1>7 DEF RolesOK
<1>9. Later
  <2>1. \A t \in 0..now : t \in 0..MaxTime
    BY <1>2, Numbers
  <2>2. \A v \in Users : \A t \in 0..now : held[v][t] \subseteq held'[v][t]
    BY <1>6, <1>7, <2>1
  <2>3. \A v \in Users : wrong[v] <= wrong'[v] /\ wrong'[v] \in Nat
    BY DEF IdInv, IdentsOK
  <2> QED
    BY <1>1, <1>2, <2>2, <2>3 DEF Later
<1> QED
  BY <1>1, <1>8, <1>9, SessKept, CacheKept DEF IdInv

(* The last administrator loses the role only to an administrator.         *)
LEMMA AdminSet ==
  ASSUME IdInv, NEW u \in Users, NEW rs \in SUBSET Roles, SetRoles(u, rs), UNCHANGED boot
  PROVE  AdminOK'
<1>1. roles'[u] = rs /\ \A v \in Users \ {u} : roles'[v] = roles[v]
  BY DEF SetRoles, IdInv, RolesOK
<1>2. ~demoted' => ~demoted /\ ~(Admins = {u} /\ "admin" \notin rs)
  BY Zenon DEF SetRoles
<1>3. ASSUME boot' = "up", ~demoted' PROVE Admins' # {}
  <2>1. ~demoted /\ ~(Admins = {u} /\ "admin" \notin rs)
    BY <1>2, <1>3
  <2>2. Admins # {}
    BY <1>3, <2>1 DEF IdInv, AdminOK, AdminAfterBoot
  <2>3. CASE "admin" \in rs
    BY <1>1, <2>3 DEF Admins
  <2>4. CASE "admin" \notin rs
    <3>1. PICK v \in Admins : v # u
      BY <2>1, <2>2, <2>4
    <3> QED
      BY <1>1, <3>1 DEF Admins
  <2> QED
    BY <2>3, <2>4
<1>4. boot' \in {"check", "assign", "up", "unchecked"}
  BY DEF IdInv, AdminOK
<1> QED
  BY <1>3, <1>4 DEF AdminOK, AdminAfterBoot

(* A request that writes roles.                                            *)
LEMMA RolesStep ==
  ASSUME IdInv, NEW u \in Users, NEW rs \in SUBSET Roles, SetRoles(u, rs),
         UNCHANGED <<now, ident, sess, cache, wrong, boot, sent>>,
         NEW r \in Requests, NEW y, To(r, y), ReqOK(y)', y.phase # "login"
  PROVE  IdInv'
<1>1. IdentsOK' /\ RolesOK' /\ SessOK' /\ CacheOK' /\ Later
  BY RolesSet
<1>2. AdminOK'
  BY AdminSet
<1>3. ReqsOK'
  BY <1>1, ReqsStep DEF IdInv, To
<1>4. CountOK'
  BY CountStep, SentSame DEF IdInv, To
<1> QED
  BY <1>1, <1>2, <1>3, <1>4 DEF IdInv

LEMMA CreateUserRolesStep ==
  ASSUME IdInv, NEW r \in Requests, CreateUserRoles(r)
  PROVE  IdInv'
<1>1. /\ UNCHANGED <<now, ident, sess, cache, wrong, boot, sent>>
      /\ To(r, Idle) /\ req[r].phase = "roles"
  BY DEF CreateUserRoles
<1>2. PICK u : u = req[r].u
  OBVIOUS
<1>3. PICK rs : rs = req[r].roles
  OBVIOUS
<1>4. u \in Users /\ rs \in SUBSET Roles
  BY <1>1, <1>2, <1>3, ReqFacts DEF ReqOK
<1>5. SetRoles(u, rs)
  BY <1>2, <1>3 DEF CreateUserRoles, ReplaceUserRoles
<1> QED
  BY <1>1, <1>4, <1>5, RolesStep, IdleOK

LEMMA AdminReplaceUserRolesStep ==
  ASSUME IdInv, NEW r \in Requests, NEW u \in Users, NEW rs \in RoleSets,
         AdminReplaceUserRoles(r, u, rs)
  PROVE  IdInv'
<1>1. PICK y : y = [phase |-> "invalidate", u |-> u]
  OBVIOUS
<1>2. /\ UNCHANGED <<now, ident, sess, cache, wrong, boot, sent>>
      /\ To(r, y) /\ SetRoles(u, rs)
  BY <1>1 DEF AdminReplaceUserRoles, ReplaceUserRoles
<1>3. rs \in SUBSET Roles
  BY IdentityAssumption
<1>4. ReqOK(y)' /\ y.phase # "login"
  BY <1>1, HalfwayOK
<1> QED
  BY <1>2, <1>3, <1>4, RolesStep

LEMMA AdminAssignRoleStep ==
  ASSUME IdInv, NEW r \in Requests, NEW u \in Users, NEW role \in Roles,
         AdminAssignRole(r, u, role)
  PROVE  IdInv'
<1>1. PICK y : y = [phase |-> "invalidate", u |-> u]
  OBVIOUS
<1>2. PICK rs : rs = roles[u] \cup {role}
  OBVIOUS
<1>3. /\ UNCHANGED <<now, ident, sess, cache, wrong, boot, sent>>
      /\ To(r, y) /\ SetRoles(u, rs)
  BY <1>1, <1>2 DEF AdminAssignRole, UpsertUserAndAssignRole
<1>4. rs \in SUBSET Roles
  BY <1>2 DEF IdInv, RolesOK
<1>5. ReqOK(y)' /\ y.phase # "login"
  BY <1>1, HalfwayOK
<1> QED
  BY <1>3, <1>4, <1>5, RolesStep

-----------------------------------------------------------------------------
(* The start of the server, crashes and the clock.                         *)

(* A step that no request takes.                                           *)
LEMMA GlobalStep ==
  ASSUME IdInv, IdentsOK', RolesOK', SessOK', CacheOK', AdminOK', Later,
         UNCHANGED <<req, sent, wrong>>
  PROVE  IdInv'
<1>1. ReqsOK'
  BY ReqsKept DEF IdInv
<1>2. \A u \in Users : Logins(u)' \subseteq Logins(u)
  BY DEF Logins
<1>3. CountOK'
  BY <1>2, CountKept, SentSame DEF IdInv
<1> QED
  BY <1>1, <1>3 DEF IdInv

LEMMA AssignBootstrapRoleStep ==
  ASSUME IdInv, AssignBootstrapRole
  PROVE  IdInv'
<1>1. PICK rs : rs = roles[Root] \cup {"admin"}
  OBVIOUS
<1>2. UNCHANGED <<now, ident, sess, cache, req, sent, wrong>> /\ SetRoles(Root, rs)
  BY <1>1 DEF AssignBootstrapRole, UpsertUserAndAssignRole
<1>3. Root \in Users /\ rs \in SUBSET Roles /\ "admin" \in rs
  BY <1>1, IdentityAssumption DEF IdInv, RolesOK, Roles
<1>4. IdentsOK' /\ RolesOK' /\ SessOK' /\ CacheOK' /\ Later
  BY <1>2, <1>3, RolesSet
<1>5. AdminOK'
  <2>1. roles'[Root] = rs
    BY <1>2, <1>3 DEF SetRoles, IdInv, RolesOK
  <2>2. Root \in Admins'
    BY <1>3, <2>1 DEF Admins
  <2>3. boot' \in {"check", "assign", "up", "unchecked"}
    BY DEF AssignBootstrapRole
  <2> QED
    BY <2>2, <2>3 DEF AdminOK, AdminAfterBoot
<1> QED
  BY <1>2, <1>4, <1>5, GlobalStep

LEMMA BootstrapLocalAdminStep ==
  ASSUME IdInv, BootstrapLocalAdmin
  PROVE  IdInv'
<1>1. UNCHANGED <<now, roles, sess, cache, req, sent, held, wrong, demoted>>
  BY DEF BootstrapLocalAdmin, history
<1>2. IdentsOK' /\ Known \subseteq Known'
  <2>1. CASE UNCHANGED ident
    BY <1>1, <2>1, IdentKept DEF IdInv
  <2>2. CASE BootstrapAdmin
    <3>1. PICK x : x = IF Root \notin Known THEN Account(RootPassword)
                       ELSE [ident[Root] EXCEPT !.pw = RootPassword, !.must = TRUE,
                                                !.active = TRUE]
      OBVIOUS
    <3>2. ident' = [ident EXCEPT ![Root] = x]
      BY <2>2, <3>1 DEF BootstrapAdmin
    <3>3. Root \in Users /\ RootPassword \in Passwords
      BY IdentityAssumption
    <3>4. AcctOK(Root, x) /\ x # NoIdentity
      <4>1. CASE Root \notin Known
        BY <3>1, <3>3, <4>1, FreshAccount
      <4>2. CASE Root \in Known
        <5>1. PICK i : i = ident[Root]
          OBVIOUS
        <5>2. i \in Acct
          BY <4>2, <5>1, KnownAcct
        <5>3. x = [i EXCEPT !.pw = RootPassword, !.must = TRUE, !.active = TRUE]
          BY <3>1, <4>2, <5>1
        <5>4. x \in Acct /\ x.fails = i.fails /\ x.lock = i.lock
          BY <3>3, <5>2, <5>3 DEF Acct
        <5> QED
          BY <4>2, <5>1, <5>4, ClearedOK
      <4> QED
        BY <4>1, <4>2
    <3>5. AcctOK(Root, x)'
      BY <1>1, <3>4 DEF AcctOK
    <3>6. wrong' \in [Users -> Nat] /\ \A v \in Users : wrong[v] <= wrong'[v]
      BY <1>1 DEF IdInv, IdentsOK
    <3> QED
      BY <3>2, <3>3, <3>4, <3>5, <3>6, IdentSet DEF IdInv
  <2> QED
    BY <2>1, <2>2 DEF BootstrapLocalAdmin
<1>3. Later
  BY <1>1, <1>2, LaterKept DEF IdInv
<1>4. RolesOK' /\ SessOK' /\ CacheOK'
  BY <1>1, <1>2, <1>3, RolesKept, SessKept, CacheKept DEF IdInv
<1>5. AdminOK'
  <2>1. Admins' = Admins
    BY <1>1 DEF Admins
  <2>2. boot' \in {"assign", "unchecked"} \/ (boot' = "up" /\ Admins # {})
    BY DEF BootstrapLocalAdmin
  <2> QED
    BY <2>1, <2>2 DEF AdminOK, AdminAfterBoot
<1> QED
  BY <1>1, <1>2, <1>3, <1>4, <1>5, GlobalStep

LEMMA CrashStep ==
  ASSUME IdInv, Crash
  PROVE  IdInv'
<1>1. UNCHANGED <<now, ident, roles, sess, sent, held, wrong, demoted>>
  BY DEF Crash, db, history
<1>2. cache' = [u \in Users |-> NoEntry] /\ req' = [r \in Requests |-> Idle]
      /\ boot' = "check"
  BY DEF Crash
<1>3. IdentsOK' /\ Known \subseteq Known'
  BY <1>1, IdentKept DEF IdInv
<1>4. RolesOK' /\ SessOK'
  BY <1>1, <1>3, RolesKept, SessKept DEF IdInv
<1>5. CacheOK'
  BY <1>2 DEF CacheOK, EntryOK
<1>6. ReqsOK'
  BY <1>2, IdleOK DEF ReqsOK
<1>7. CountOK'
  <2>1. \A u \in Users : Logins(u)' \subseteq Logins(u)
    BY <1>2, IdleOK DEF Logins
  <2> QED
    BY <1>1, <2>1, CountKept, SentSame DEF IdInv
<1>8. AdminOK'
  BY <1>2 DEF AdminOK, AdminAfterBoot
<1> QED
  BY <1>3, <1>4, <1>5, <1>6, <1>7, <1>8 DEF IdInv

LEMMA TickStep ==
  ASSUME IdInv, Tick
  PROVE  IdInv'
<1>1. UNCHANGED <<ident, roles, sess, cache, req, boot, sent, wrong, demoted>>
  BY DEF Tick, db
<1>2. IdentsOK' /\ Known \subseteq Known'
  BY <1>1, IdentKept DEF IdInv
<1>3. /\ now \in Nat /\ now + 1 \in 0..MaxTime /\ now' = now + 1 /\ now <= now'
      /\ \A t \in 0..now : t \in 0..MaxTime /\ t # now + 1
  BY NowType, Numbers DEF Tick
<1>4. held' = [u \in Users |-> [held[u] EXCEPT ![now + 1] = {roles[u]}]]
  BY DEF Tick
<1>5. RolesOK
  BY DEF IdInv
<1>6. ASSUME NEW u \in Users
      PROVE  /\ held'[u] \in [0..MaxTime -> SUBSET SUBSET Roles]
             /\ roles[u] \in held'[u][now + 1]
             /\ \A t \in 0..now : held'[u][t] = held[u][t]
  <2>1. PICK h : h = held[u]
    OBVIOUS
  <2>2. PICK n : n = now + 1
    OBVIOUS
  <2>3. held'[u] = [h EXCEPT ![n] = {roles[u]}]
    BY <1>4, <2>1, <2>2
  <2>4. h \in [0..MaxTime -> SUBSET SUBSET Roles] /\ roles[u] \in SUBSET Roles
    BY <1>5, <2>1 DEF RolesOK
  <2>5. n \in 0..MaxTime /\ \A t \in 0..now : t \in 0..MaxTime /\ t # n
    BY <1>3, <2>2
  <2>6. PICK x : x = {roles[u]}
    OBVIOUS
  <2>7. x \in SUBSET SUBSET Roles /\ roles[u] \in x
    BY <2>4, <2>6
  <2>8. PICK g : g = held'[u]
    OBVIOUS
  <2>9. g = [h EXCEPT ![n] = x]
    BY <2>3, <2>6, <2>8
  <2>10. /\ g \in [0..MaxTime -> SUBSET SUBSET Roles] /\ g[n] = x
         /\ \A t \in 0..MaxTime : t # n => g[t] = h[t]
    BY <2>4, <2>5, <2>7, <2>9, MomentSet
  <2> QED
    BY <2>1, <2>2, <2>5, <2>7, <2>8, <2>10
<1>7. RolesOK'
  BY <1>1, <1>3, <1>4, <1>5, <1>6 DEF RolesOK
<1>8. Later
  <2>1. \A v \in Users : wrong[v] <= wrong'[v] /\ wrong'[v] \in Nat
    BY <1>1 DEF IdInv, IdentsOK
  <2> QED
    BY <1>2, <1>3, <1>6, <2>1 DEF Later
<1>9. SessOK' /\ CacheOK' /\ AdminOK'
  BY <1>1, <1>2, <1>8, SessKept, CacheKept, AdminKept DEF IdInv
<1> QED
  BY <1>1, <1>2, <1>7, <1>8, <1>9, GlobalStep

-----------------------------------------------------------------------------
(* Every step keeps the invariant.                                         *)

LEMMA StutterStep ==
  ASSUME IdInv, UNCHANGED ivars
  PROVE  IdInv'
<1>1. UNCHANGED <<now, ident, roles, sess, cache, req, boot, sent, held, wrong, demoted>>
  BY DEF ivars, db, history
<1> QED
  BY <1>1, SessionStep, IdentKept, SessKept DEF IdInv

LEMMA UserRouteStep ==
  ASSUME IdInv, NEW r \in Requests, HandleUserRoute(r)
  PROVE  IdInv'
<1>1. CASE HandleCreateUser(r)
  BY <1>1, CreateUserStep DEF HandleCreateUser
<1>2. CASE HandlePatchUser(r)
  BY <1>2, PatchUserStep
<1>3. CASE HandleUserRoleUpsert(r)
  BY <1>3, AdminAssignRoleStep DEF HandleUserRoleUpsert
<1>4. CASE HandleReplaceUserRoles(r)
  BY <1>4, AdminReplaceUserRolesStep DEF HandleReplaceUserRoles
<1>5. CASE HandleResetPassword(r)
  BY <1>5, ResetPasswordStep DEF HandleResetPassword
<1>6. CASE HandleUnlockUser(r)
  BY <1>6, UnlockUserStep DEF HandleUnlockUser
<1> QED
  BY <1>1, <1>2, <1>3, <1>4, <1>5, <1>6 DEF HandleUserRoute

LEMMA MiddlewareStep ==
  ASSUME IdInv, NEW r \in Requests, AuthMiddleware(r)
  PROVE  IdInv'
<1>1. ASSUME NEW route \in Routes, NEW s \in Sessions, FindSession(r, s, route)
      PROVE  IdInv'
  BY <1>1, FindSessionStep
<1>2. ASSUME NEW route \in Routes, NEW u \in Users, LegacyHit(r, u, route)
      PROVE  IdInv'
  BY <1>2, LegacyHitStep
<1>3. ASSUME NEW route \in Routes, NEW u \in Users, LegacyMiss(r, u, route)
      PROVE  IdInv'
  BY <1>3, LegacyMissStep
<1> QED
  BY <1>1, <1>2, <1>3, BuildCurrentUserStep, LoadRolesStep, StoreRolesStep
  DEF AuthMiddleware

LEMMA IdStep ==
  ASSUME IdInv, [IdNext]_ivars
  PROVE  IdInv'
<1>1. CASE BootstrapLocalAdmin
  BY <1>1, BootstrapLocalAdminStep
<1>2. CASE AssignBootstrapRole
  BY <1>2, AssignBootstrapRoleStep
<1>3. CASE Crash
  BY <1>3, CrashStep
<1>4. CASE Tick
  BY <1>4, TickStep
<1>5. CASE HandleLogout
  BY <1>5, LogoutStep DEF HandleLogout
<1>6. ASSUME NEW r \in Requests, HandleLogin(r) PROVE IdInv'
  BY <1>6, AuthenticateStep DEF HandleLogin
<1>7. ASSUME NEW r \in Requests, LoginFailed(r) PROVE IdInv'
  BY <1>7, LoginFailedStep
<1>8. ASSUME NEW r \in Requests, LoginSucceeded(r) PROVE IdInv'
  BY <1>8, LoginSucceededStep
<1>9. ASSUME NEW r \in Requests, NEW s \in Sessions, NewSession(r, s) PROVE IdInv'
  BY <1>9, NewSessionStep
<1>10. ASSUME NEW r \in Requests, AuthMiddleware(r) PROVE IdInv'
  BY <1>10, MiddlewareStep
<1>11. ASSUME NEW r \in Requests, Drop(r) PROVE IdInv'
  <2>1. Quiet /\ UNCHANGED sent /\ To(r, Idle)
    BY <1>11 DEF Drop, Quiet, db, history
  <2> QED
    BY <2>1, DropStep
<1>12. ASSUME NEW r \in Requests, HandleChangePassword(r) PROVE IdInv'
  BY <1>12, ChangePasswordStep DEF HandleChangePassword
<1>13. ASSUME NEW r \in Requests, HandleUserRoute(r) PROVE IdInv'
  BY <1>13, UserRouteStep
<1>14. ASSUME NEW r \in Requests, CreateUserRoles(r) PROVE IdInv'
  BY <1>14, CreateUserRolesStep
<1>15. ASSUME NEW r \in Requests, Invalidate(r) PROVE IdInv'
  BY <1>15, InvalidateStep
<1>16. ASSUME NEW r \in Requests, RevokeAfterReset(r) PROVE IdInv'
  BY <1>16, RevokeAfterResetStep
<1>17. CASE UNCHANGED ivars
  BY <1>17, StutterStep
<1> QED
  BY <1>1, <1>2, <1>3, <1>4, <1>5, <1>6, <1>7, <1>8, <1>9, <1>10, <1>11, <1>12,
     <1>13, <1>14, <1>15, <1>16, <1>17 DEF IdNext

LEMMA IdStart ==
  ASSUME IdInit
  PROVE  IdInv
<1>1. IdentsOK
  BY DEF IdInit, IdentsOK, AcctOK
<1>2. CountOK
  <2>1. \A u \in Users : Logins(u) = {}
    BY IdleOK DEF IdInit, Logins
  <2>2. Cardinality({}) = 0
    BY FS_EmptySet
  <2>3. sent = 0 /\ \A u \in Users : wrong[u] = 0
    BY DEF IdInit
  <2>4. \A u \in Users : wrong[u] + Cardinality(Logins(u)) <= sent
    BY <2>1, <2>2, <2>3
  <2>5. sent \in 0..MaxRequests
    BY <2>3, Numbers
  <2> QED
    BY <2>4, <2>5 DEF CountOK
<1>3. RolesOK
  <2>1. now \in 0..MaxTime
    BY Numbers DEF IdInit
  <2>2. held \in [Users -> [0..MaxTime -> SUBSET SUBSET Roles]]
    BY DEF IdInit
  <2> QED
    BY <2>1, <2>2 DEF IdInit, RolesOK
<1>4. SessOK
  BY DEF IdInit, SessOK
<1>5. CacheOK
  BY DEF IdInit, CacheOK, EntryOK
<1>6. ReqsOK
  <2>1. ReqOK(Idle)
    BY DEF Idle, ReqOK, Phases
  <2> QED
    BY <2>1 DEF IdInit, ReqsOK
<1>7. AdminOK
  BY DEF IdInit, AdminOK, AdminAfterBoot
<1> QED
  BY <1>1, <1>2, <1>3, <1>4, <1>5, <1>6, <1>7 DEF IdInv

(* The invariant of accounts, sessions, roles and cache holds in every     *)
(* behaviour.                                                              *)
THEOREM IdInvariance == IdSpec => []IdInv
<1>1. IdInit => IdInv
  BY IdStart
<1>2. IdInv /\ [IdNext]_ivars => IdInv'
  BY IdStep
<1> QED
  BY <1>1, <1>2, PTL DEF IdSpec

-----------------------------------------------------------------------------
(* How stale an authorization may be: every request that either middleware *)
(* admits runs with roles its user held less than CacheTTL before it began *)
(* or while it was being admitted, for any number of concurrent requests,  *)
(* role changes and invalidations that come between a load of roles and    *)
(* their storing in CachedRoleProvider; and rows, sessions and cache       *)
(* entries have their types.                                               *)
THEOREM AdmittedRolesHeld == IdSpec => []AdmittedHeld
<1>1. IdInv => AdmittedHeld
  <2> SUFFICES ASSUME IdInv PROVE AdmittedHeld
    OBVIOUS
  <2>1. IdTypeOK
    <3>1. \A u \in Known : ident[u] \in Acct
      BY KnownAcct
    <3>2. \A s \in Sessions : sess[s] # NoSession =>
            sess[s] \in SessionRow /\ sess[s].user \in Known
      BY DEF IdInv, SessOK
    <3>3. \A u \in Users : cache[u] # NoEntry => cache[u] \in Entry
      BY DEF IdInv, CacheOK, EntryOK
    <3>4. now \in 0..MaxTime /\ roles \in [Users -> SUBSET Roles]
      BY DEF IdInv, RolesOK
    <3>5. boot \in {"check", "assign", "up", "unchecked"}
      BY DEF IdInv, AdminOK
    <3> QED
      BY <3>1, <3>2, <3>3, <3>4, <3>5 DEF IdTypeOK, Acct, SessionRow, Entry
  <2>2. ASSUME NEW r \in Requests, req[r].phase = "act"
        PROVE  \E t \in 0..req[r].at :
                 t + CacheTTL > req[r].since /\ req[r].roles \in held[req[r].u][t]
    BY <2>2, ReqFacts DEF ReqOK
  <2> QED
    BY <2>1, <2>2 DEF AdmittedHeld
<1> QED
  BY <1>1, IdInvariance, PTL

(* A lock is earned: although every login writes a counter it computed     *)
(* from a row it read earlier (RecordFailedLogin in service.go), the       *)
(* counter of an account never exceeds the wrong passwords presented for   *)
(* it, and an account that is locked saw at least MaxFailed of them.       *)
THEOREM LocksEarned == IdSpec => []LockEarned
<1>1. IdInv => LockEarned
  <2> SUFFICES ASSUME IdInv, NEW u \in Known
               PROVE  ident[u].fails <= wrong[u] /\ (ident[u].lock > 0 => wrong[u] >= MaxFailed)
    BY DEF LockEarned
  <2>1. u \in Users /\ ident[u] # NoIdentity /\ AcctOK(u, ident[u])
    BY DEF IdInv, IdentsOK, Known
  <2> QED
    BY <2>1 DEF AcctOK
<1> QED
  BY <1>1, IdInvariance, PTL

(* A server started with the bootstrap enabled has an administrator when it *)
(* serves, whatever crashes interrupted the two statements of               *)
(* BootstrapLocalAdmin and whatever starts had it disabled, unless an       *)
(* administrator took the role from the last one.                           *)
THEOREM AdminSurvivesBoot == IdSpec => []AdminAfterBoot
<1>1. IdInv => AdminAfterBoot
  BY DEF IdInv, AdminOK
<1> QED
  BY <1>1, IdInvariance, PTL
=============================================================================
