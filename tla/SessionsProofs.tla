---------------------------- MODULE SessionsProofs ----------------------------
(* What Sessions promises, for any accounts, tokens, requests and limits. *)
EXTENDS Sessions, FiniteSetTheorems, TLAPS

\* SessTypeOK in parts, and with what a request has that stands before a
\* statement.
RowTypes ==
  /\ users \subseteq Users
  /\ family \in [Tokens -> Tokens \union {None}]
  /\ \A t \in Issued : family[t] \in Issued /\ family[family[t]] = family[t]
  /\ revoked \subseteq Issued /\ burned \subseteq Issued
  /\ raced \subseteq Issued /\ late \subseteq raced
  /\ life \in [Tokens -> 0..Lifetime]

CallTypes ==
  /\ call \in [Calls -> Call]
  /\ \A c \in Calls :
       /\ call[c].token # None => call[c].token \in Issued
       /\ call[c].stage \in {"create", "verify", "issue"} => call[c].user \in Users
       /\ call[c].stage \in {"rotate", "burn", "revoke"} => call[c].token \in Issued

CountTypes ==
  /\ hits \in [Keys -> Nat] /\ left \in [Keys -> 0..Window]
  /\ \A k \in Keys : hits[k] > 0 => left[k] > 0

SessTypes == RowTypes /\ CallTypes /\ CountTypes /\ deaths \in 0..MaxDeaths

Verifying(u) == { c \in Calls : At(c, "verify") /\ call[c].user = u }

\* Wrong passwords are counted after they were let in: those let in and not
\* yet counted belong to the sum.
AttemptsCounted ==
  \A u \in Users :
    hits[u] + Cardinality(Verifying(u)) < MaxAttempts + Cardinality(Calls)

SessInv ==
  /\ SessTypes
  /\ OneLiveUnlessRaced /\ BurnedIsDead
  /\ AttemptsCounted

-----------------------------------------------------------------------------
(* Initially no token, no call and no count. *)
LEMMA SessStart == SessInit => SessInv
<1> SUFFICES ASSUME SessInit PROVE SessInv
  OBVIOUS
<1> USE SessionAssumption DEF SessInit
<1>1. SessTypes
  BY DEF SessTypes, RowTypes, CallTypes, CountTypes, Issued, Call, IdleCall, Keys
<1>3. OneLiveUnlessRaced /\ BurnedIsDead
  BY DEF OneLiveUnlessRaced, BurnedIsDead, Live, Issued
<1>4. AttemptsCounted
  <2> SUFFICES ASSUME NEW u \in Users
               PROVE  hits[u] + Cardinality(Verifying(u)) < MaxAttempts + Cardinality(Calls)
    BY DEF AttemptsCounted
  <2>1. Verifying(u) = {}
    BY DEF Verifying, At, IdleCall
  <2>2. hits[u] = 0 /\ Cardinality(Verifying(u)) = 0
    BY <2>1, FS_EmptySet DEF Keys
  <2> QED BY <2>2, FS_CardinalityType
<1> QED BY <1>1, <1>3, <1>4 DEF SessInv

-----------------------------------------------------------------------------
(* Types. *)

\* Counting and resetting keep the type of the counters.
LEMMA CountingTypes ==
  ASSUME CountTypes, NEW k \in Keys,
         \/ \E cap \in Nat : IncrementWithExpiry(k, cap)
         \/ Reset(k)
         \/ UNCHANGED limitVars
  PROVE  CountTypes'
BY SessionAssumption DEF CountTypes, IncrementWithExpiry, Reset, limitVars

\* A call goes on to a place that it has the means for, and tokens stay issued.
LEMMA GotoTypes ==
  ASSUME CallTypes, NEW c \in Calls,
         NEW stage \in {"create", "verify", "issue", "rotate", "burn", "revoke"},
         NEW token \in Issued \union {None}, NEW user \in Users \union {None},
         stage \in {"create", "verify", "issue"} => user \in Users,
         stage \in {"rotate", "burn", "revoke"} => token \in Issued,
         Goto(c, stage, token, user), Issued' = Issued
  PROVE  CallTypes'
<1>1. Issued \subseteq Tokens
  BY DEF Issued
<1>2. [ stage |-> stage, token |-> token, user |-> user ] \in Call
  BY <1>1 DEF Call
<1> QED BY <1>2, SessionAssumption DEF Goto, CallTypes

\* A call ends or stays where it is.
LEMMA EndTypes ==
  ASSUME CallTypes, NEW c \in Calls, End(c) \/ UNCHANGED call, Issued \subseteq Issued'
  PROVE  CallTypes'
<1>1. IdleCall \in Call
  BY DEF Call, IdleCall
<1> QED BY <1>1 DEF End, CallTypes, IdleCall

\* Tokens and accounts that are left alone keep their types.
LEMMA RowsStay ==
  ASSUME RowTypes, users' \subseteq Users, UNCHANGED << tokenVars, historyVars >>
  PROVE  RowTypes' /\ Issued' = Issued
BY DEF RowTypes, tokenVars, historyVars, Issued

\* A new token leaves the issued ones as they were.
LEMMA InsertIssues ==
  ASSUME RowTypes, NEW t \in Tokens, NEW root \in Issued \union {t}, Insert(t, root)
  PROVE  /\ Issued' = Issued \union {t}
         /\ t \notin Issued
         /\ \A s \in Issued : family'[s] = family[s]
         /\ family'[t] = root
         /\ family' \in [Tokens -> Tokens \union {None}]
         /\ life' \in [Tokens -> 0..Lifetime]
<1>1. root \in Tokens /\ root # None
  BY SessionAssumption DEF Issued, RowTypes
<1>2. family' = [family EXCEPT ![t] = root] /\ life' = [life EXCEPT ![t] = Lifetime]
  BY DEF Insert
<1>3. /\ family' \in [Tokens -> Tokens \union {None}]
      /\ family'[t] = root
      /\ \A s \in Tokens : s # t => family'[s] = family[s]
  BY <1>1, <1>2 DEF RowTypes
<1>4. t \notin Issued
  BY DEF Insert
<1>5. Issued' = Issued \union {t}
  BY <1>1, <1>3 DEF Issued
<1>6. life' \in [Tokens -> 0..Lifetime]
  BY <1>2, SessionAssumption DEF RowTypes
<1> QED BY <1>3, <1>4, <1>5, <1>6 DEF Issued

\* The types of the tokens when some are revoked.
LEMMA RevokingTypes ==
  ASSUME RowTypes, UNCHANGED << users, family, life, raced, late >>,
         revoked' \subseteq Issued, burned' \subseteq Issued
  PROVE  RowTypes' /\ Issued' = Issued
BY DEF RowTypes, Issued

\* The types of the tokens when one is issued.
LEMMA IssuingTypes ==
  ASSUME RowTypes, NEW t \in Tokens, NEW root \in Issued \union {t}, Insert(t, root),
         root \in Issued => family[root] = root,
         UNCHANGED << users, burned >>, revoked' \subseteq Issued,
         raced' \in { raced, raced \union {t} },
         late' = late \/ (late' = late \union {t} /\ raced' = raced \union {t})
  PROVE  RowTypes' /\ Issued \subseteq Issued'
<1>1. /\ Issued' = Issued \union {t}
      /\ t \notin Issued
      /\ \A s \in Issued : family'[s] = family[s]
      /\ family'[t] = root
      /\ family' \in [Tokens -> Tokens \union {None}]
      /\ life' \in [Tokens -> 0..Lifetime]
  BY InsertIssues
<1>2. \A s \in Issued' : family'[s] \in Issued' /\ family'[family'[s]] = family'[s]
  BY <1>1 DEF RowTypes
<1> QED BY <1>1, <1>2 DEF RowTypes

LEMMA TypesStep ==
  ASSUME SessTypes, [SessNext]_sessionVars
  PROVE  SessTypes'
<1> USE SessionAssumption
<1> USE DEF SessTypes
<1>0. /\ MaxHits + 1 \in Nat /\ MaxAttempts + Cardinality(Calls) \in Nat
      /\ Users \subseteq Keys /\ Ips \subseteq Keys
      /\ None \notin Users /\ None \notin Issued
  BY FS_CardinalityType DEF Keys, Issued
<1>1. CASE UNCHANGED sessionVars
  BY <1>1 DEF sessionVars, tokenVars, limitVars, historyVars, RowTypes, CallTypes, CountTypes, Issued
<1>2. ASSUME NEW c \in Calls, RegisterCreates(c) PROVE SessTypes'
  <2>1. RowTypes' /\ Issued' = Issued
    BY <1>2, RowsStay DEF RegisterCreates, At, CallTypes, RowTypes
  <2>2. CallTypes'
    BY <1>2, <2>1, EndTypes DEF RegisterCreates
  <2> QED BY <1>2, <2>1, <2>2 DEF RegisterCreates, limitVars, CountTypes
<1>3. ASSUME NEW c \in Calls, LoginFails(c) PROVE SessTypes'
  <2>1. RowTypes' /\ Issued' = Issued
    BY <1>3, RowsStay DEF LoginFails, RowTypes
  <2>2. CallTypes'
    BY <1>3, <2>1, EndTypes DEF LoginFails
  <2>3. call[c].user \in Keys
    BY <1>0, <1>3 DEF LoginFails, At, CallTypes
  <2>4. CountTypes'
    BY <1>0, <1>3, <2>3, CountingTypes DEF LoginFails
  <2> QED BY <1>3, <2>1, <2>2, <2>4 DEF LoginFails
<1>4. ASSUME NEW c \in Calls, LoginPasses(c) PROVE SessTypes'
  <2>1. RowTypes' /\ Issued' = Issued
    BY <1>4, RowsStay DEF LoginPasses, RowTypes
  <2>2. call[c].user \in Users
    BY <1>4 DEF LoginPasses, At, CallTypes
  <2>3. CallTypes'
    BY <1>4, <2>1, <2>2, GotoTypes DEF LoginPasses
  <2>4. CountTypes'
    BY <1>0, <1>4, <2>2, CountingTypes DEF LoginPasses
  <2> QED BY <1>4, <2>1, <2>3, <2>4 DEF LoginPasses
<1>5. ASSUME NEW c \in Calls, RevokeFamily(c) PROVE SessTypes'
  <2>1. call[c].token \in Issued
    BY <1>5 DEF RevokeFamily, At, CallTypes
  <2>2. RowTypes' /\ Issued' = Issued
    BY <1>5, <2>1, RevokingTypes DEF RevokeFamily, RevokeMembers, RowTypes
  <2>3. CallTypes'
    BY <1>5, <2>2, EndTypes DEF RevokeFamily
  <2> QED BY <1>5, <2>2, <2>3 DEF RevokeFamily, limitVars, CountTypes
<1>6. ASSUME NEW c \in Calls, RevokeToken(c) PROVE SessTypes'
  <2>1. call[c].token \in Issued
    BY <1>6 DEF RevokeToken, At, CallTypes
  <2>2. RowTypes' /\ Issued' = Issued
    BY <1>6, <2>1, RevokingTypes DEF RevokeToken, historyVars, RowTypes
  <2>3. CallTypes'
    BY <1>6, <2>2, EndTypes DEF RevokeToken
  <2> QED BY <1>6, <2>2, <2>3 DEF RevokeToken, limitVars, CountTypes
<1>7. ASSUME NEW c \in Calls, NEW t \in Tokens, LoginIssues(c, t) PROVE SessTypes'
  <2>1. RowTypes' /\ Issued \subseteq Issued'
    BY <1>7, IssuingTypes DEF LoginIssues, historyVars, RowTypes, Insert
  <2>2. CallTypes'
    BY <1>7, <2>1, EndTypes DEF LoginIssues
  <2> QED BY <1>7, <2>1, <2>2 DEF LoginIssues, limitVars, CountTypes
<1>8. ASSUME NEW c \in Calls, NEW t \in Tokens, RotateRefreshToken(c, t) PROVE SessTypes'
  <2>1. call[c].token \in Issued
    BY <1>8 DEF RotateRefreshToken, At, CallTypes
  <2>2. RowTypes' /\ Issued \subseteq Issued'
    BY <1>8, <2>1, IssuingTypes DEF RotateRefreshToken, RowTypes
  <2>3. CallTypes'
    BY <1>8, <2>2, EndTypes DEF RotateRefreshToken
  <2> QED BY <1>8, <2>2, <2>3 DEF RotateRefreshToken, limitVars, CountTypes
<1>9. ASSUME NEW c \in Calls, CallDies(c) PROVE SessTypes'
  <2>1. RowTypes' /\ Issued' = Issued
    BY <1>9, RowsStay DEF CallDies, RowTypes
  <2>2. CallTypes'
    BY <1>9, <2>1, EndTypes DEF CallDies
  <2> QED BY <1>9, <2>1, <2>2 DEF CallDies, limitVars, CountTypes
<1>10. ASSUME NEW c \in Calls, NEW u \in Users, LoginBegins(c, u) PROVE SessTypes'
  <2>1. RowTypes' /\ Issued' = Issued
    BY <1>10, RowsStay DEF LoginBegins, RowTypes
  <2>2. CallTypes'
    BY <1>10, <2>1, GotoTypes DEF LoginBegins
  <2> QED BY <1>10, <2>1, <2>2 DEF LoginBegins, limitVars, CountTypes
<1>11. ASSUME NEW c \in Calls, NEW u \in Users, NEW ip \in Ips, RegisterBegins(c, u, ip)
       PROVE SessTypes'
  <2>1. RowTypes' /\ Issued' = Issued
    BY <1>11, RowsStay DEF RegisterBegins, RowTypes
  <2>2. CallTypes'
    BY <1>11, <2>1, GotoTypes, EndTypes DEF RegisterBegins
  <2>3. CountTypes'
    BY <1>0, <1>11, CountingTypes DEF RegisterBegins, CountCall
  <2> QED BY <1>11, <2>1, <2>2, <2>3 DEF RegisterBegins
<1>12. ASSUME NEW c \in Calls, NEW t \in Tokens, LogoutReads(c, t) PROVE SessTypes'
  <2>1. RowTypes' /\ Issued' = Issued
    BY <1>12, RowsStay DEF LogoutReads, RowTypes
  <2>2. CallTypes'
    BY <1>12, <2>1, GotoTypes DEF LogoutReads
  <2> QED BY <1>12, <2>1, <2>2 DEF LogoutReads, limitVars, CountTypes
<1>13. ASSUME NEW c \in Calls, NEW t \in Tokens, NEW ip \in Ips, RefreshReads(c, t, ip)
       PROVE SessTypes'
  <2>1. RowTypes' /\ Issued' = Issued
    BY <1>13, RowsStay DEF RefreshReads, RowTypes
  <2>2. CallTypes'
    BY <1>13, <2>1, GotoTypes, EndTypes DEF RefreshReads
  <2>3. CountTypes'
    BY <1>0, <1>13, CountingTypes DEF RefreshReads, CountCall
  <2> QED BY <1>13, <2>1, <2>2, <2>3 DEF RefreshReads
<1>14. ASSUME NEW ip \in Ips, Refused(ip) PROVE SessTypes'
  <2>1. RowTypes' /\ Issued' = Issued
    BY <1>14, RowsStay DEF Refused, RowTypes
  <2>2. CallTypes'
    BY <1>14, <2>1 DEF Refused, CallTypes
  <2>3. CountTypes'
    BY <1>0, <1>14, CountingTypes DEF Refused, CountCall
  <2> QED BY <1>14, <2>1, <2>2, <2>3 DEF Refused
<1>15. CASE Tick
  <2>1. RowTypes' /\ Issued' = Issued
    BY <1>15 DEF Tick, RowTypes, Issued, historyVars
  <2>2. CallTypes'
    BY <1>15, <2>1 DEF Tick, CallTypes
  <2>3. CountTypes'
    BY <1>15 DEF Tick, CountTypes
  <2> QED BY <1>15, <2>1, <2>2, <2>3 DEF Tick
<1> QED
  BY <1>1, <1>2, <1>3, <1>4, <1>5, <1>6, <1>7, <1>8, <1>9, <1>10, <1>11, <1>12,
     <1>13, <1>14, <1>15 DEF SessNext, GoesOn

-----------------------------------------------------------------------------
(* Tokens. *)

\* Steps that issue no token and bring none back to life.
LEMMA NothingComesAlive ==
  ASSUME RowTypes, UNCHANGED << family, raced, late >>, revoked \subseteq revoked',
         burned' \subseteq burned
            \/ \E f \in Issued :
                 /\ burned' = burned \union {f}
                 /\ \A t \in Issued : family[t] = f => t \in revoked'
  PROVE  /\ OneLiveUnlessRaced => OneLiveUnlessRaced'
         /\ BurnedIsDead => BurnedIsDead'
<1>1. Issued' = Issued /\ Live' \subseteq Live /\ Live' \intersect revoked' = {}
  BY DEF Issued, Live
<1>2. OneLiveUnlessRaced => OneLiveUnlessRaced'
  BY <1>1 DEF OneLiveUnlessRaced
<1>3. BurnedIsDead => BurnedIsDead'
  <2> SUFFICES ASSUME BurnedIsDead, NEW t \in Live', family[t] \in burned'
               PROVE  \E r \in late : family[r] = family[t]
    BY DEF BurnedIsDead
  <2>1. t \in Live /\ t \in Issued /\ t \notin revoked'
    BY <1>1 DEF Live
  <2>2. family[t] \in burned
    BY <2>1
  <2> QED BY <2>1, <2>2 DEF BurnedIsDead
<1> QED BY <1>2, <1>3

\* A login starts a family of its own.
LEMMA LoginKeepsTokens ==
  ASSUME RowTypes, NEW c \in Calls, NEW t \in Tokens, LoginIssues(c, t)
  PROVE  /\ OneLiveUnlessRaced => OneLiveUnlessRaced'
         /\ BurnedIsDead => BurnedIsDead'
<1>1. /\ Insert(t, t)
      /\ UNCHANGED << revoked, burned, raced, late >>
  BY DEF LoginIssues, historyVars
<1>2. /\ Issued' = Issued \union {t} /\ t \notin Issued /\ family'[t] = t
      /\ \A s \in Issued : family'[s] = family[s]
  BY <1>1, InsertIssues
<1>3. /\ Live' = Live \union {t} /\ Live \subseteq Issued
      /\ raced \subseteq Issued /\ late \subseteq Issued /\ burned \subseteq Issued
      /\ \A s \in Issued : family[s] \in Issued
  BY <1>1, <1>2 DEF Live, RowTypes
<1>4. OneLiveUnlessRaced => OneLiveUnlessRaced'
  <2> SUFFICES ASSUME OneLiveUnlessRaced, NEW a \in Live', NEW b \in Live', a # b,
                      family'[a] = family'[b]
               PROVE  \E r \in raced' : family'[r] = family'[a]
    BY DEF OneLiveUnlessRaced
  <2>1. a \in Live /\ b \in Live
    BY <1>2, <1>3
  <2>2. PICK r \in raced : family[r] = family[a]
    BY <1>2, <1>3, <2>1 DEF OneLiveUnlessRaced
  <2> QED BY <1>1, <1>2, <1>3, <2>1, <2>2
<1>5. BurnedIsDead => BurnedIsDead'
  <2> SUFFICES ASSUME BurnedIsDead, NEW a \in Live', family'[a] \in burned'
               PROVE  \E r \in late' : family'[r] = family'[a]
    BY DEF BurnedIsDead
  <2>1. a \in Live /\ family[a] \in burned
    BY <1>1, <1>2, <1>3
  <2>2. PICK r \in late : family[r] = family[a]
    BY <2>1 DEF BurnedIsDead
  <2> QED BY <1>1, <1>2, <1>3, <2>1, <2>2
<1> QED BY <1>4, <1>5

\* A rotation puts one token in the place of another, unless that one was
\* revoked since it was read.
LEMMA RotationKeepsTokens ==
  ASSUME RowTypes, CallTypes, NEW c \in Calls, NEW t \in Tokens, RotateRefreshToken(c, t)
  PROVE  /\ OneLiveUnlessRaced => OneLiveUnlessRaced'
         /\ BurnedIsDead => BurnedIsDead'
<1> DEFINE old == call[c].token
<1>1. /\ old \in Issued
      /\ Insert(t, family[old])
      /\ revoked' = revoked \union {old} /\ burned' = burned
      /\ raced' = IF old \in revoked THEN raced \union {t} ELSE raced
      /\ late' = IF old \in revoked /\ family[old] \in burned THEN late \union {t} ELSE late
  BY DEF RotateRefreshToken, At, CallTypes
<1> HIDE DEF old
<1>2. family[old] \in Issued
  BY <1>1 DEF RowTypes
<1>3. /\ Issued' = Issued \union {t} /\ t \notin Issued /\ family'[t] = family[old]
      /\ \A s \in Issued : family'[s] = family[s]
  BY <1>1, <1>2, InsertIssues
<1>4. /\ Live' \subseteq (Live \ {old}) \union {t} /\ Live \subseteq Issued
      /\ raced \subseteq Issued /\ late \subseteq Issued
      /\ raced \subseteq raced' /\ late \subseteq late'
      /\ old \notin revoked => old \in Live
  BY <1>1, <1>3 DEF Live, RowTypes
<1>5. OneLiveUnlessRaced => OneLiveUnlessRaced'
  <2> SUFFICES ASSUME OneLiveUnlessRaced, NEW a \in Live', NEW b \in Live', a # b,
                      family'[a] = family'[b]
               PROVE  \E r \in raced' : family'[r] = family'[a]
    BY DEF OneLiveUnlessRaced
  <2>1. CASE old \in revoked /\ (a = t \/ b = t)
    BY <1>1, <2>1
  <2>2. ASSUME \E x, y \in Live : x # y /\ family[x] = family[y] /\ family[x] = family'[a]
        PROVE  \E r \in raced' : family'[r] = family'[a]
    <3>1. PICK r \in raced : family[r] = family'[a]
      BY <2>2 DEF OneLiveUnlessRaced
    <3> QED BY <1>3, <1>4, <3>1
  <2>3. CASE old \notin revoked /\ a = t
    BY <1>3, <1>4, <2>2, <2>3
  <2>4. CASE old \notin revoked /\ b = t
    BY <1>3, <1>4, <2>2, <2>4
  <2>5. CASE a # t /\ b # t
    BY <1>3, <1>4, <2>2, <2>5
  <2> QED BY <2>1, <2>3, <2>4, <2>5
<1>6. BurnedIsDead => BurnedIsDead'
  <2> SUFFICES ASSUME BurnedIsDead, NEW a \in Live', family'[a] \in burned'
               PROVE  \E r \in late' : family'[r] = family'[a]
    BY DEF BurnedIsDead
  <2>1. CASE old \in revoked /\ a = t
    BY <1>1, <1>3, <2>1
  <2>2. ASSUME \E x \in Live : family[x] = family'[a]
        PROVE  \E r \in late' : family'[r] = family'[a]
    <3>1. PICK r \in late : family[r] = family'[a]
      BY <1>1, <2>2 DEF BurnedIsDead
    <3> QED BY <1>3, <1>4, <3>1
  <2>3. CASE old \notin revoked /\ a = t
    BY <1>3, <1>4, <2>2, <2>3
  <2>4. CASE a # t
    BY <1>3, <1>4, <2>2, <2>4
  <2> QED BY <2>1, <2>3, <2>4
<1> QED BY <1>5, <1>6

LEMMA TokensStep ==
  ASSUME SessTypes, [SessNext]_sessionVars
  PROVE  /\ OneLiveUnlessRaced => OneLiveUnlessRaced'
         /\ BurnedIsDead => BurnedIsDead'
<1> USE DEF SessTypes
<1>1. CASE UNCHANGED << family, revoked, historyVars >>
  BY <1>1, NothingComesAlive DEF historyVars
<1>2. ASSUME NEW c \in Calls, RevokeFamily(c)
      PROVE  /\ OneLiveUnlessRaced => OneLiveUnlessRaced'
             /\ BurnedIsDead => BurnedIsDead'
  <2>1. call[c].token \in Issued
    BY <1>2 DEF RevokeFamily, At, CallTypes
  <2>2. family[call[c].token] \in Issued
    BY <2>1 DEF RowTypes
  <2>3. \A t \in Issued : family[t] = family[call[c].token] => t \in revoked'
    BY <1>2 DEF RevokeFamily, RevokeMembers
  <2> QED BY <1>2, <2>2, <2>3, NothingComesAlive DEF RevokeFamily, RevokeMembers
<1>3. ASSUME NEW c \in Calls, RevokeToken(c)
      PROVE  /\ OneLiveUnlessRaced => OneLiveUnlessRaced'
             /\ BurnedIsDead => BurnedIsDead'
  BY <1>3, NothingComesAlive DEF RevokeToken, historyVars
<1>4. ASSUME NEW c \in Calls, NEW t \in Tokens, LoginIssues(c, t)
      PROVE  /\ OneLiveUnlessRaced => OneLiveUnlessRaced'
             /\ BurnedIsDead => BurnedIsDead'
  BY <1>4, LoginKeepsTokens
<1>5. ASSUME NEW c \in Calls, NEW t \in Tokens, RotateRefreshToken(c, t)
      PROVE  /\ OneLiveUnlessRaced => OneLiveUnlessRaced'
             /\ BurnedIsDead => BurnedIsDead'
  BY <1>5, RotationKeepsTokens
<1>6. \/ UNCHANGED << family, revoked, historyVars >>
      \/ \E c \in Calls : RevokeFamily(c) \/ RevokeToken(c)
      \/ \E c \in Calls, t \in Tokens : LoginIssues(c, t) \/ RotateRefreshToken(c, t)
  BY DEF SessNext, GoesOn, RegisterCreates, LoginFails, LoginPasses, CallDies,
         LoginBegins, RegisterBegins, LogoutReads, RefreshReads, Refused, Tick,
         sessionVars, tokenVars, historyVars
<1> QED BY <1>1, <1>2, <1>3, <1>4, <1>5, <1>6

-----------------------------------------------------------------------------
(* Wrong passwords. *)

\* The requests that verify a password of u are finitely many.
LEMMA VerifyingFinite ==
  ASSUME NEW u
  PROVE  /\ IsFiniteSet(Verifying(u)) /\ IsFiniteSet(Calls)
         /\ Cardinality(Verifying(u)) \in Nat /\ Cardinality(Calls) \in Nat
         /\ Cardinality(Verifying(u)) <= Cardinality(Calls)
<1>1. IsFiniteSet(Calls) /\ Verifying(u) \subseteq Calls
  BY SessionAssumption DEF Verifying
<1> QED BY <1>1, FS_Subset, FS_CardinalityType

\* A smaller set has no greater cardinality, before a step and after it.
LEMMA VerifyingShrinks ==
  ASSUME NEW u, Verifying(u)' \subseteq Verifying(u)
  PROVE  /\ Cardinality(Verifying(u)') \in Nat
         /\ Cardinality(Verifying(u)') <= Cardinality(Verifying(u))
<1>1. IsFiniteSet(Verifying(u))
  BY VerifyingFinite
<1> QED BY <1>1, FS_Subset, FS_CardinalityType

LEMMA AttemptsStep ==
  ASSUME SessTypes, AttemptsCounted, [SessNext]_sessionVars
  PROVE  AttemptsCounted'
<1> USE DEF SessTypes
<1> SUFFICES ASSUME NEW u \in Users
             PROVE  hits'[u] + Cardinality(Verifying(u)') < MaxAttempts + Cardinality(Calls)
  BY DEF AttemptsCounted, Verifying, At
<1>0. /\ hits[u] \in Nat /\ MaxAttempts \in Nat \ {0}
      /\ Cardinality(Calls) \in Nat /\ Cardinality(Verifying(u)) \in Nat
      /\ hits[u] + Cardinality(Verifying(u)) < MaxAttempts + Cardinality(Calls)
      /\ \A ip \in Ips : ip # u
      /\ u \in Keys
  BY SessionAssumption, VerifyingFinite DEF CountTypes, Keys, AttemptsCounted
<1>1. ASSUME hits'[u] \in Nat, hits'[u] <= hits[u], Verifying(u)' \subseteq Verifying(u)
      PROVE  hits'[u] + Cardinality(Verifying(u)') < MaxAttempts + Cardinality(Calls)
  BY <1>0, <1>1, VerifyingShrinks
<1>2. ASSUME NEW c \in Calls, LoginFails(c)
      PROVE  hits'[u] + Cardinality(Verifying(u)') < MaxAttempts + Cardinality(Calls)
  <2>1. CASE call[c].user # u
    <3>1. hits'[u] = hits[u] /\ Verifying(u)' \subseteq Verifying(u)
      BY <1>2, <2>1 DEF LoginFails, IncrementWithExpiry, End, IdleCall, Verifying, At,
                        CountTypes, CallTypes, Keys
    <3> QED BY <1>0, <1>1, <3>1
  <2>2. CASE call[c].user = u
    <3>1. hits'[u] <= hits[u] + 1 /\ hits'[u] \in Nat
      BY <1>0, <1>2, <2>2 DEF LoginFails, IncrementWithExpiry, CountTypes
    <3>2. c \in Verifying(u)
      BY <1>2, <2>2 DEF LoginFails, Verifying
    <3>3. Verifying(u)' = Verifying(u) \ {c}
      BY <1>2 DEF LoginFails, End, IdleCall, Verifying, At, CallTypes
    <3>4. Cardinality(Verifying(u) \ {c}) = Cardinality(Verifying(u)) - 1
      BY <3>2, FS_RemoveElement, VerifyingFinite
    <3> QED BY <1>0, <3>1, <3>3, <3>4
  <2> QED BY <2>1, <2>2
<1>3. ASSUME NEW c \in Calls, LoginPasses(c)
      PROVE  hits'[u] + Cardinality(Verifying(u)') < MaxAttempts + Cardinality(Calls)
  <2>1. hits'[u] \in Nat /\ hits'[u] <= hits[u]
    BY <1>0, <1>3 DEF LoginPasses, Reset, CountTypes
  <2>2. Verifying(u)' \subseteq Verifying(u)
    BY <1>3 DEF LoginPasses, Goto, Verifying, At, CallTypes
  <2> QED BY <1>1, <2>1, <2>2
<1>4. ASSUME NEW c \in Calls, NEW v \in Users, LoginBegins(c, v)
      PROVE  hits'[u] + Cardinality(Verifying(u)') < MaxAttempts + Cardinality(Calls)
  <2>1. hits' = hits
    BY <1>4 DEF LoginBegins, limitVars
  <2>2. CASE v # u
    <3>1. Verifying(u)' \subseteq Verifying(u)
      BY <1>4, <2>2 DEF LoginBegins, Goto, Verifying, At, CallTypes
    <3> QED BY <1>0, <1>1, <2>1, <3>1
  <2>3. CASE v = u
    <3>1. hits[u] < MaxAttempts
      BY <1>4, <2>3 DEF LoginBegins
    <3>2. Verifying(u)' \subseteq Calls
      BY DEF Verifying
    <3>3. Cardinality(Verifying(u)') \in Nat /\ Cardinality(Verifying(u)') <= Cardinality(Calls)
      BY <3>2, VerifyingFinite, FS_Subset, FS_CardinalityType
    <3> QED BY <1>0, <2>1, <3>1, <3>3
  <2> QED BY <2>2, <2>3
<1>5. ASSUME hits'[u] = hits[u] \/ hits'[u] = 0,
             \/ UNCHANGED call
             \/ \E c \in Calls : End(c)
             \/ \E c \in Calls, s \in Call : s.stage # "verify" /\ call' = [call EXCEPT ![c] = s]
      PROVE  hits'[u] + Cardinality(Verifying(u)') < MaxAttempts + Cardinality(Calls)
  <2>1. Verifying(u)' \subseteq Verifying(u)
    BY <1>5 DEF Verifying, At, End, IdleCall, CallTypes
  <2> QED BY <1>0, <1>1, <1>5, <2>1
<1>6. ASSUME NEW c \in Calls,
             \/ RegisterCreates(c) \/ RevokeFamily(c) \/ RevokeToken(c) \/ CallDies(c)
             \/ \E t \in Tokens : LoginIssues(c, t) \/ RotateRefreshToken(c, t)
      PROVE  hits'[u] = hits[u] /\ End(c)
  BY <1>6 DEF RegisterCreates, RevokeFamily, RevokeToken, CallDies, LoginIssues,
              RotateRefreshToken, limitVars
<1>7. ASSUME NEW c \in Calls, NEW ip \in Ips, NEW v \in Users, RegisterBegins(c, v, ip)
      PROVE  hits'[u] + Cardinality(Verifying(u)') < MaxAttempts + Cardinality(Calls)
  <2>1. hits'[u] = hits[u]
    BY <1>0, <1>7 DEF RegisterBegins, CountCall, IncrementWithExpiry, CountTypes
  <2>2. Verifying(u)' \subseteq Verifying(u)
    BY <1>7 DEF RegisterBegins, Goto, Verifying, At, CallTypes
  <2> QED BY <1>0, <1>1, <2>1, <2>2
<1>8. ASSUME NEW c \in Calls, NEW t \in Tokens, NEW ip \in Ips, RefreshReads(c, t, ip)
      PROVE  hits'[u] + Cardinality(Verifying(u)') < MaxAttempts + Cardinality(Calls)
  <2>1. hits'[u] = hits[u]
    BY <1>0, <1>8 DEF RefreshReads, CountCall, IncrementWithExpiry, CountTypes
  <2>2. Verifying(u)' \subseteq Verifying(u)
    BY <1>8 DEF RefreshReads, Goto, Verifying, At, CallTypes
  <2> QED BY <1>0, <1>1, <2>1, <2>2
<1>9. ASSUME NEW c \in Calls, NEW t \in Tokens, LogoutReads(c, t)
      PROVE  hits'[u] + Cardinality(Verifying(u)') < MaxAttempts + Cardinality(Calls)
  <2>1. Verifying(u)' \subseteq Verifying(u)
    BY <1>9 DEF LogoutReads, Goto, Verifying, At, CallTypes
  <2> QED BY <1>0, <1>1, <1>9, <2>1 DEF LogoutReads, limitVars
<1>10. ASSUME NEW ip \in Ips, Refused(ip)
       PROVE  hits'[u] = hits[u] /\ UNCHANGED call
  BY <1>0, <1>10 DEF Refused, CountCall, IncrementWithExpiry, CountTypes
<1>11. ASSUME Tick PROVE (hits'[u] = hits[u] \/ hits'[u] = 0) /\ UNCHANGED call
  BY <1>0, <1>11 DEF Tick
<1>12. CASE UNCHANGED sessionVars
  BY <1>5, <1>12 DEF sessionVars, limitVars
<1> QED
  BY <1>2, <1>3, <1>4, <1>5, <1>6, <1>7, <1>8, <1>9, <1>10, <1>11, <1>12
     DEF SessNext, GoesOn

-----------------------------------------------------------------------------
\* SessInv is an invariant, for any accounts, tokens, requests and limits.
THEOREM SessInvariant == SessSpec => []SessInv
<1>1. SessInit => SessInv
  BY SessStart
<1>2. SessInv /\ [SessNext]_sessionVars => SessInv'
  BY TypesStep, TokensStep, AttemptsStep DEF SessInv
<1> QED BY <1>1, <1>2, PTL DEF SessSpec

\* Types: a token is revoked only after it was issued, and no counter outlives
\* the expiry that INCR and EXPIRE in one MULTI gave it.
THEOREM SessionTypes == SessSpec => []SessTypeOK
<1>1. SessInv => SessTypeOK
  BY DEF SessInv, SessTypes, RowTypes, CallTypes, CountTypes, SessTypeOK
<1> QED BY <1>1, SessInvariant, PTL

\* A family has one live token, but for rotations of a token that another
\* request had in its hands too (auth.repository.ts rotateRefreshToken).
THEOREM FamilyHasOneLive == SessSpec => []OneLiveUnlessRaced
<1>1. SessInv => OneLiveUnlessRaced
  BY DEF SessInv
<1> QED BY <1>1, SessInvariant, PTL

\* A family that reuse detection has revoked stays dead, but for a refresh that
\* was on its way (auth.repository.ts revokeFamily).
THEOREM BurnedStaysDead == SessSpec => []BurnedIsDead
<1>1. SessInv => BurnedIsDead
  BY DEF SessInv
<1> QED BY <1>1, SessInvariant, PTL

\* Requests that try passwords together pass the limit by no more than their
\* number (auth.service.ts assertNotRateLimited, recordFailedLogin).
THEOREM AttemptsAreBounded == SessSpec => []AttemptsBounded
<1>1. SessInv => AttemptsBounded
  <2> SUFFICES ASSUME SessInv, NEW u \in Users
               PROVE  hits[u] < MaxAttempts + Cardinality(Calls)
    BY DEF AttemptsBounded
  <2>1. /\ hits[u] \in Nat /\ MaxAttempts \in Nat
        /\ Cardinality(Calls) \in Nat /\ Cardinality(Verifying(u)) \in Nat
        /\ hits[u] + Cardinality(Verifying(u)) < MaxAttempts + Cardinality(Calls)
    BY SessionAssumption, VerifyingFinite
       DEF SessInv, SessTypes, CountTypes, Keys, AttemptsCounted
  <2> QED BY <2>1
<1> QED BY <1>1, SessInvariant, PTL
=============================================================================
