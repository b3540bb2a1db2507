------------------------------ MODULE Sessions ------------------------------
(***************************************************************************)
(* Logging in, refreshing and logging out.  A login starts a family of     *)
(* refresh tokens; a refresh reads its token in one statement and rotates  *)
(* it in a later transaction, which revokes the token by its id and        *)
(* inserts the next one of the family; a token found revoked is taken for  *)
(* a copy and its whole family is revoked.  Wrong passwords are counted in *)
(* Redis for each account, and the calls of some routes for each address.  *)
(*                                                                         *)
(* A family is named by its first token.  Who presents a token is open:    *)
(* two tabs, a request that is repeated, a copy.  A rest of time, of a     *)
(* token or of a counter, counts down to 0.                                *)
(***************************************************************************)
EXTENDS Naturals, FiniteSets

CONSTANTS
  Users, Ips,
  Tokens,      \* the refresh tokens that can be issued
  Calls,       \* requests that can run at the same time
  Lifetime,    \* REFRESH_TOKEN_TTL
  MaxAttempts, \* LOGIN_RATE_LIMIT_MAX
  MaxHits,     \* REGISTER_RATE_LIMIT_MAX, REFRESH_RATE_LIMIT_MAX
  Window,      \* the seconds a counter lives after its last increment
  MaxDeaths,   \* bound on the processes that die
  None

ASSUME SessionAssumption ==
  /\ Users \intersect Ips = {}
  /\ Lifetime \in Nat \ {0} /\ Window \in Nat \ {0}
  /\ MaxAttempts \in Nat \ {0} /\ MaxHits \in Nat \ {0}
  /\ MaxDeaths \in Nat
  /\ None \notin Tokens \union Users
  /\ IsFiniteSet(Calls)

Keys == Users \union Ips

VARIABLES
  users,   \* rows of users
  family,  \* family[t]: refresh_tokens.family_id, None before t is issued
  revoked, \* tokens whose revoked_at is set
  life,    \* life[t]: what is left of t until expires_at
  hits,    \* hits[k]: ratelimit:login:<email>, ratelimit:ip:<route>:<ip>
  left,    \* left[k]: the time to live of that key
  call,    \* call[c]: where a request stands, its token and its account
  burned,  \* history: families that reuse detection has revoked
  raced,   \* history: tokens that were issued for one already revoked
  late,    \* history: those of them issued after their family was burned
  deaths

tokenVars   == << family, revoked, life >>
limitVars   == << hits, left >>
historyVars == << burned, raced, late >>
sessionVars == << users, tokenVars, limitVars, call, historyVars, deaths >>

Call == [ stage : {"idle", "create", "verify", "issue", "rotate", "burn", "revoke"},
          token : Tokens \union {None}, user : Users \union {None} ]

IdleCall == [ stage |-> "idle", token |-> None, user |-> None ]

Issued == { t \in Tokens : family[t] # None }

\* Types; a token is revoked only after it was issued, a family is named by a
\* token of its own, a counter never outlives its key.
SessTypeOK ==
  /\ users \subseteq Users
  /\ family \in [Tokens -> Tokens \union {None}]
  /\ \A t \in Issued : family[t] \in Issued /\ family[family[t]] = family[t]
  /\ revoked \subseteq Issued /\ burned \subseteq Issued
  /\ raced \subseteq Issued /\ late \subseteq raced
  /\ life \in [Tokens -> 0..Lifetime]
  /\ hits \in [Keys -> Nat]
  /\ left \in [Keys -> 0..Window]
  /\ \A k \in Keys : hits[k] > 0 => left[k] > 0
  /\ call \in [Calls -> Call]
  /\ \A c \in Calls : call[c].token # None => call[c].token \in Issued
  /\ deaths \in 0..MaxDeaths

SessInit ==
  /\ users = {}
  /\ family = [t \in Tokens |-> None]
  /\ revoked = {}
  /\ life = [t \in Tokens |-> 0]
  /\ hits = [k \in Keys |-> 0]
  /\ left = [k \in Keys |-> 0]
  /\ call = [c \in Calls |-> IdleCall]
  /\ burned = {} /\ raced = {} /\ late = {}
  /\ deaths = 0

-----------------------------------------------------------------------------
(* Counters and calls.                                                     *)

\* INCR and EXPIRE in one MULTI; nothing tells counts above the limits apart.
IncrementOnly(k, cap) ==
  /\ hits' = [hits EXCEPT ![k] = IF @ < cap THEN @ + 1 ELSE cap]
  /\ UNCHANGED left

IncrementWithExpiry(k, cap) ==
  /\ hits' = [hits EXCEPT ![k] = IF @ < cap THEN @ + 1 ELSE cap]
  /\ left' = [left EXCEPT ![k] = Window]

Reset(k) ==
  /\ hits' = [hits EXCEPT ![k] = 0]
  /\ left' = [left EXCEPT ![k] = 0]

At(c, stage) == call[c].stage = stage

Goto(c, stage, token, user) ==
  call' = [call EXCEPT ![c] = [ stage |-> stage, token |-> token, user |-> user ]]

\* Bound: a request that may need a token begins while there is one for it.
TokenLeft ==
  Cardinality({ c \in Calls : call[c].stage \in {"verify", "issue", "rotate"} })
    < Cardinality(Tokens \ Issued)

End(c) == call' = [call EXCEPT ![c] = IdleCall]

\* The guard of a route counts every call of an address, the refused ones too.
Passes(ip) == hits[ip] < MaxHits
CountCall(ip) == IncrementWithExpiry(ip, MaxHits + 1)

Refused(ip) ==
  /\ ~Passes(ip)
  /\ CountCall(ip)
  /\ UNCHANGED << users, tokenVars, call, historyVars, deaths >>

-----------------------------------------------------------------------------
(* Registering and logging in.                                             *)

RegisterBegins(c, u, ip) ==
  /\ At(c, "idle") /\ Passes(ip) /\ CountCall(ip)
  /\ IF u \in users THEN UNCHANGED call ELSE Goto(c, "create", None, u)
  /\ UNCHANGED << users, tokenVars, historyVars, deaths >>

\* The unique email decides between two that have both found it free.
RegisterCreates(c) ==
  /\ At(c, "create")
  /\ users' = users \union { call[c].user }
  /\ End(c)
  /\ UNCHANGED << tokenVars, limitVars, historyVars, deaths >>

\* assertNotRateLimited: above the limit nothing is counted and nothing begins.
LoginBeginsCounted(c, u) ==
  IF hits[u] < MaxAttempts
  THEN /\ At(c, "idle") /\ TokenLeft
       /\ Goto(c, "verify", None, u)
       /\ UNCHANGED << users, tokenVars, limitVars, historyVars, deaths >>
  ELSE /\ IncrementWithExpiry(u, MaxAttempts + Cardinality(Calls))
       /\ UNCHANGED << users, tokenVars, call, historyVars, deaths >>

LoginBeginsUnchecked(c, u) ==
  /\ At(c, "idle") /\ TokenLeft
  /\ Goto(c, "verify", None, u)
  /\ UNCHANGED << users, tokenVars, limitVars, historyVars, deaths >>

LoginBegins(c, u) ==
  /\ At(c, "idle") /\ TokenLeft
  /\ hits[u] < MaxAttempts
  /\ Goto(c, "verify", None, u)
  /\ UNCHANGED << users, tokenVars, limitVars, historyVars, deaths >>

\* No such account, or another password.
LoginFails(c) ==
  /\ At(c, "verify")
  /\ IncrementWithExpiry(call[c].user, MaxAttempts + Cardinality(Calls))
  /\ End(c)
  /\ UNCHANGED << users, tokenVars, historyVars, deaths >>

LoginPasses(c) ==
  /\ At(c, "verify") /\ call[c].user \in users
  /\ Reset(call[c].user)
  /\ Goto(c, "issue", None, call[c].user)
  /\ UNCHANGED << users, tokenVars, historyVars, deaths >>

\* The row of a new token.
Insert(t, root) ==
  /\ t \notin Issued
  /\ family' = [family EXCEPT ![t] = root]
  /\ life' = [life EXCEPT ![t] = Lifetime]

LoginIssues(c, t) ==
  /\ At(c, "issue")
  /\ Insert(t, t)
  /\ End(c)
  /\ UNCHANGED << users, revoked, limitVars, historyVars, deaths >>

-----------------------------------------------------------------------------
(* Refreshing and logging out.                                             *)

\* A token nobody has issued, or one that has expired, changes nothing.
RefreshReads(c, t, ip) ==
  /\ At(c, "idle") /\ Passes(ip) /\ CountCall(ip)
  /\ t \in Issued
  /\ \/ t \in revoked /\ Goto(c, "burn", t, None)
     \/ t \notin revoked /\ life[t] > 0 /\ TokenLeft /\ Goto(c, "rotate", t, None)
     \/ t \notin revoked /\ life[t] = 0 /\ UNCHANGED call
  /\ UNCHANGED << users, tokenVars, historyVars, deaths >>

RevokeMembers(root) == revoked \union { t \in Issued : family[t] = root }

RevokeOne(c) ==
  /\ At(c, "burn")
  /\ revoked' = revoked \union { call[c].token }
  /\ burned' = burned \union { family[call[c].token] }
  /\ End(c)
  /\ UNCHANGED << users, family, life, limitVars, raced, late, deaths >>

RevokeFamily(c) ==
  /\ At(c, "burn")
  /\ revoked' = RevokeMembers(family[call[c].token])
  /\ burned' = burned \union { family[call[c].token] }
  /\ End(c)
  /\ UNCHANGED << users, family, life, limitVars, raced, late, deaths >>

\* The UPDATE names the row by its id alone: it finds the token also when it
\* was revoked since it was read.
RotateKeeping(c, t) ==
  LET old == call[c].token
  IN  /\ At(c, "rotate")
      /\ Insert(t, family[old])
      /\ raced' = IF old \in revoked THEN raced \union {t} ELSE raced
      /\ late' = IF old \in revoked /\ family[old] \in burned THEN late \union {t} ELSE late
      /\ End(c)
      /\ UNCHANGED << users, revoked, limitVars, burned, deaths >>

RotateRefreshToken(c, t) ==
  LET old == call[c].token
  IN  /\ At(c, "rotate")
      /\ Insert(t, family[old])
      /\ revoked' = revoked \union {old}
      /\ raced' = IF old \in revoked THEN raced \union {t} ELSE raced
      /\ late' = IF old \in revoked /\ family[old] \in burned THEN late \union {t} ELSE late
      /\ End(c)
      /\ UNCHANGED << users, limitVars, burned, deaths >>

LogoutReads(c, t) ==
  /\ At(c, "idle") /\ t \in Issued \ revoked
  /\ Goto(c, "revoke", t, None)
  /\ UNCHANGED << users, tokenVars, limitVars, historyVars, deaths >>

RevokeToken(c) ==
  /\ At(c, "revoke")
  /\ revoked' = revoked \union { call[c].token }
  /\ End(c)
  /\ UNCHANGED << users, family, life, limitVars, historyVars, deaths >>

-----------------------------------------------------------------------------
CallDies(c) ==
  /\ deaths < MaxDeaths
  /\ ~At(c, "idle")
  /\ End(c)
  /\ deaths' = deaths + 1
  /\ UNCHANGED << users, tokenVars, limitVars, historyVars >>

\* Time passes; a key whose time is up is gone.
Tick ==
  /\ \/ \E k \in Keys : left[k] > 0
     \/ \E t \in Tokens : life[t] > 0
  /\ left' = [k \in Keys |-> IF left[k] > 0 THEN left[k] - 1 ELSE 0]
  /\ hits' = [k \in Keys |-> IF left[k] > 1 THEN hits[k] ELSE 0]
  /\ life' = [t \in Tokens |-> IF life[t] > 0 THEN life[t] - 1 ELSE 0]
  /\ UNCHANGED << users, family, revoked, call, historyVars, deaths >>

\* What a request does once it has begun.
GoesOn(c) ==
  \/ RegisterCreates(c) \/ LoginFails(c) \/ LoginPasses(c)
  \/ RevokeFamily(c) \/ RevokeToken(c)
  \/ \E t \in Tokens : LoginIssues(c, t) \/ RotateRefreshToken(c, t)

SessNext ==
  \/ \E c \in Calls : GoesOn(c) \/ CallDies(c)
  \/ \E c \in Calls, u \in Users : LoginBegins(c, u)
  \/ \E c \in Calls, u \in Users, ip \in Ips : RegisterBegins(c, u, ip)
  \/ \E c \in Calls, t \in Tokens : LogoutReads(c, t)
  \/ \E c \in Calls, t \in Tokens, ip \in Ips : RefreshReads(c, t, ip)
  \/ \E ip \in Ips : Refused(ip)
  \/ Tick

SessSpec == SessInit /\ [][SessNext]_sessionVars

\* Time goes on, and so does a request that has begun.
SessFairness ==
  /\ WF_sessionVars(Tick)
  /\ \A c \in Calls : WF_sessionVars(GoesOn(c))

FairSessSpec == SessSpec /\ SessFairness

-----------------------------------------------------------------------------
Live == Issued \ revoked

\* A family has one token that can be used, as long as no two requests have
\* had the same token in their hands: only a rotation that overlapped with
\* another, with a logout or with reuse detection makes a second one.
OneLiveUnlessRaced ==
  \A s, t \in Live :
    s # t /\ family[s] = family[t] => \E r \in raced : family[r] = family[s]

\* A family that reuse detection has revoked stays dead, unless a refresh was
\* on its way when it was revoked.
BurnedIsDead ==
  \A t \in Live : family[t] \in burned => \E r \in late : family[r] = family[t]

\* However many wrong passwords are tried at the same time, an account counts
\* no more of them than the limit and the requests that had passed it.
AttemptsBounded == \A u \in Users : hits[u] < MaxAttempts + Cardinality(Calls)

\* An account that is locked opens again, though attempts go on.
LockEnds == \A u \in Users : hits[u] >= MaxAttempts ~> hits[u] < MaxAttempts

-----------------------------------------------------------------------------
(* What the repository says of the program and the program does not do.    *)

\* "Dù ai dùng trước, lần thứ hai luôn lộ" (phase1-auth.md): whoever uses a
\* refresh token a second time is found out, so that nobody is issued a token
\* for one that was used before.
SecondUseIsCaught == raced = {}

\* "một tài khoản vẫn chỉ chịu N lần thử mỗi phút" (auth.service.ts): an account
\* counts no more wrong passwords than the limit.
LimitIsStrict == \A u \in Users : hits[u] <= MaxAttempts

=============================================================================
