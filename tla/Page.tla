-------------------------------- MODULE Page --------------------------------
(***************************************************************************)
(* The demo page (public/app.js): one browser tab whose timers, clicks and *)
(* answers take turns.  A function that awaits is a call in flight plus    *)
(* what it does when the answer comes; what runs between two awaits is one *)
(* step, with whatever else it calls.                                      *)
(*                                                                         *)
(* A write carries the cookie csrf_token in a header as well, as it was    *)
(* when the call was sent.  Left out: what is drawn, and the clock that    *)
(* counts down.                                                            *)
(***************************************************************************)
EXTENDS ApiServer, Integers, Bags

CONSTANTS
  Products,  \* what GET /products lists
  MaxCalls,  \* bound on the calls in flight
  NoProduct

ASSUME PageAssumption ==
  Products # {} /\ MaxCalls \in Nat \ {0} /\ NoProduct \notin Products

VARIABLES
  screen,      \* the section that is not hidden
  chosen,      \* state.productId
  shown,       \* the product whose rows are in state.skus
  skuTimers,   \* entries of timers that call pollSkus
  orderTimers, \* entries of timers that call pollOrders
  ordered,     \* the order panel is there
  refreshed,   \* state.refreshed
  access,      \* the cookie access_token is there and valid
  token,       \* the cookie csrf_token is there and verifies
  calls,       \* bag of the calls in flight, with what goes on after them
  overtaken    \* history: the screen changed before a start had ended

cookies == << access, token >>
timers == << skuTimers, orderTimers >>
view == << screen, chosen, shown, ordered, timers, overtaken >>
pageVars == << view, refreshed, cookies, calls, serverVars >>

\* Calls by the function that awaits them; "register" is followed by "login".
Starts  == {"sale", "select", "orders"}
Reads   == Starts \union {"boot", "pollSkus", "pollOrders"}
Writes  == {"login", "register", "logout", "place", "pay", "cancel"}
OfSkus  == {"select", "pollSkus"}

\* AccessTokenGuard stands before these.
Guarded == {"boot", "orders", "pollOrders", "place", "pay", "cancel"}

Call == [ name : Reads \union Writes, stage : {"sent", "refreshing"},
          product : Products \union {NoProduct}, token : BOOLEAN ]

\* Whether readCookie found a token that verifies matters to a write alone.
Sent(name, p) ==
  [ name |-> name, stage |-> "sent", product |-> p, token |-> name \in Writes => token ]
NewCall(name) == SetToBag({ Sent(name, NoProduct) })
SkuCall(name, p) == SetToBag({ Sent(name, p) })

PageTypeOK ==
  /\ ServerTypeOK
  /\ screen \in {"none", "auth", "sale", "orders"}
  /\ chosen \in Products \union {NoProduct}
  /\ shown \in Products \union {NoProduct}
  /\ skuTimers \in 0..1 /\ orderTimers \in Nat
  /\ ordered \in BOOLEAN /\ refreshed \in BOOLEAN
  /\ access \in BOOLEAN /\ token \in BOOLEAN
  /\ IsABag(calls) /\ BagToSet(calls) \subseteq Call
  /\ overtaken \in BOOLEAN

\* The end of the script: boot().  A visitor may have been here before.
PageInit ==
  /\ ServerInit
  /\ screen = "none" /\ chosen = NoProduct /\ shown = NoProduct
  /\ skuTimers = 0 /\ orderTimers = 0
  /\ ordered = FALSE /\ refreshed = FALSE
  /\ access \in BOOLEAN
  /\ token = TRUE
  /\ calls = NewCall("boot")
  /\ overtaken = FALSE

-----------------------------------------------------------------------------
(* Screens.                                                                *)

NoCall == EmptyBag

\* show(): timers go, and the screen's own start is called.
ShowOnly(s, rest) ==
  /\ screen' = s
  /\ calls' = rest (+) IF s = "auth" THEN NoCall ELSE NewCall(s)
  /\ overtaken' = (overtaken \/ \E c \in BagToSet(calls) : c.name \in Starts)
  /\ UNCHANGED << chosen, shown, ordered, timers >>

Show(s, rest) ==
  /\ screen' = s
  /\ skuTimers' = 0 /\ orderTimers' = 0
  /\ calls' = rest (+) IF s = "auth" THEN NoCall ELSE NewCall(s)
  /\ overtaken' = (overtaken \/ \E c \in BagToSet(calls) : c.name \in Starts)
  /\ UNCHANGED << chosen, shown, ordered >>

\* Nothing but the calls changes.
Goes(next) == calls' = next /\ UNCHANGED view

\* selectProduct, up to its await.
Select(p, rest) ==
  /\ chosen' = p
  /\ calls' = rest (+) SkuCall("select", p)
  /\ UNCHANGED << screen, shown, ordered, timers, overtaken >>

-----------------------------------------------------------------------------
(* What the awaiting function does with a good answer, and without one;    *)
(* rest are the other calls.                                               *)

StartSale(rest) ==
  IF chosen = NoProduct THEN \E p \in Products : Select(p, rest)
  ELSE Goes(rest (+) SkuCall("pollSkus", chosen))

\* The end of selectProduct: clearTimers, and the one timer of 1.5 s.
SelectKeepingTimers(rest) ==
  /\ skuTimers' = skuTimers + 1
  /\ calls' = rest
  /\ UNCHANGED << screen, chosen, ordered, orderTimers, overtaken >>

SelectEnds(rest) ==
  /\ skuTimers' = 1 /\ orderTimers' = 0
  /\ calls' = rest
  /\ UNCHANGED << screen, chosen, ordered, overtaken >>

\* The end of startOrders: pollOrders has caught what went wrong.
StartOrdersEnds(rest) ==
  /\ orderTimers' = orderTimers + 1
  /\ calls' = rest
  /\ UNCHANGED << screen, chosen, shown, ordered, skuTimers, overtaken >>

RenderOrder(next) ==
  /\ ordered' = TRUE
  /\ calls' = next
  /\ UNCHANGED << screen, chosen, shown, timers, overtaken >>

Succeeds(c, rest) ==
  \/ c.name = "boot" /\ Show("sale", rest)
  \/ c.name = "register" /\ Goes(rest (+) NewCall("login"))
  \/ c.name = "login" /\ Goes(rest (+) NewCall("boot"))
  \/ c.name = "logout" /\ Show("auth", rest)
  \/ c.name = "sale" /\ StartSale(rest)
  \/ c.name = "select" /\ SelectEnds(rest) /\ shown' = c.product
  \/ /\ c.name = "pollSkus" /\ shown' = c.product /\ calls' = rest
     /\ UNCHANGED << screen, chosen, ordered, timers, overtaken >>
  \/ c.name = "orders" /\ StartOrdersEnds(rest)
  \/ c.name \in {"pollOrders", "pay"} /\ Goes(rest)
  \/ c.name = "place" /\ RenderOrder(rest (+) SkuCall("pollSkus", chosen))
  \/ c.name = "cancel" /\ Goes(rest (+) NewCall("pollOrders"))

Fails(c, rest) ==
  \/ c.name \in {"boot", "logout"} /\ Show("auth", rest)
  \/ c.name = "select" /\ SelectEnds(rest) /\ UNCHANGED shown
  \/ c.name = "orders" /\ StartOrdersEnds(rest)
  \/ c.name = "place" /\ Goes(rest (+) SkuCall("pollSkus", chosen))
  \/ /\ c.name \in {"register", "login", "sale", "pollSkus", "pollOrders", "pay", "cancel"}
     /\ Goes(rest)

\* showAuth() inside of api(), and the error it throws into the awaiting
\* function before anything else can run.
FailsAtAuth(c, rest) ==
  /\ screen' = "auth"
  /\ skuTimers' = 0 /\ orderTimers' = IF c.name = "orders" THEN 1 ELSE 0
  /\ calls' = rest (+) IF c.name = "place" THEN SkuCall("pollSkus", chosen) ELSE NoCall
  /\ overtaken' = (overtaken \/ \E d \in BagToSet(calls) : d.name \in Starts)
  /\ UNCHANGED << chosen, shown, ordered >>

-----------------------------------------------------------------------------
(* Answers.                                                                *)

Rest(c) == calls (-) SetToBag({c})

IssuesIfMissing == token' = token

\* CsrfIssueMiddleware, before any guard: an answer sets a good csrf_token
\* unless the call brought one.
IssuesToken == token' = TRUE

\* CsrfGuard comes before the guards of a route.
CsrfGuardPasses(c) == c.token

\* 2xx: the process answers and has its connections; login and logout set and
\* clear the cookies.
AnsweredWell(c) ==
  /\ c \in BagToSet(calls) /\ c.stage = "sent"
  /\ listening /\ connections = "open"
  /\ CsrfGuardPasses(c)
  /\ c.name \in Guarded => access
  /\ Succeeds(c, Rest(c))
  /\ access' = (c.name # "logout" /\ (access \/ c.name = "login"))
  /\ IssuesToken
  /\ UNCHANGED << refreshed, serverVars >>

\* 4xx but 401, or 5xx of the process; of something before it, or no answer.
AnsweredBadly(c) ==
  /\ c \in BagToSet(calls) /\ c.stage = "sent"
  /\ Fails(c, Rest(c))
  /\ (listening /\ IssuesToken) \/ UNCHANGED token
  /\ UNCHANGED << refreshed, access, serverVars >>

Is401(c) ==
  listening /\ CsrfGuardPasses(c) /\ ((c.name \in Guarded /\ ~access) \/ c.name = "login")

\* 401, and api() has tried POST /auth/refresh before.
Unauthorized(c) ==
  /\ c \in BagToSet(calls) /\ c.stage = "sent"
  /\ Is401(c) /\ refreshed
  /\ Fails(c, Rest(c))
  /\ IssuesToken
  /\ UNCHANGED << refreshed, access, serverVars >>

\* 401, and it has not.
AsksRefreshUnmarked(c) ==
  /\ c \in BagToSet(calls) /\ c.stage = "sent"
  /\ Is401(c)
  /\ calls' = Rest(c) (+) SetToBag({ [c EXCEPT !.stage = "refreshing"] })
  /\ IssuesToken
  /\ UNCHANGED << view, refreshed, access, serverVars >>

AsksRefresh(c) ==
  /\ c \in BagToSet(calls) /\ c.stage = "sent"
  /\ Is401(c) /\ ~refreshed
  /\ refreshed' = TRUE
  /\ calls' = Rest(c) (+) SetToBag({ [c EXCEPT !.stage = "refreshing"] })
  /\ IssuesToken
  /\ UNCHANGED << view, access, serverVars >>

\* The fetch of /auth/refresh, unlike that of api(), sets no header, so
\* CsrfGuard answers 403 and what would follow a good answer never runs.
RefreshRefused(c) ==
  /\ c \in BagToSet(calls) /\ c.stage = "refreshing"
  /\ FailsAtAuth(c, Rest(c))
  /\ (listening /\ IssuesToken) \/ UNCHANGED token
  /\ UNCHANGED << refreshed, access, serverVars >>

\* No answer at all: the error skips showAuth().
RefreshLost(c) ==
  /\ c \in BagToSet(calls) /\ c.stage = "refreshing"
  /\ Fails(c, Rest(c))
  /\ UNCHANGED << refreshed, cookies, serverVars >>

-----------------------------------------------------------------------------
(* The user and the timers.                                                *)

Room == BagCardinality(calls) < MaxCalls

Click(name) ==
  /\ Room
  /\ calls' = calls (+) NewCall(name)
  /\ UNCHANGED << view, refreshed, cookies, serverVars >>

SubmitAuth == screen = "auth" /\ \E kind \in {"login", "register"} : Click(kind)
ClickLogout == screen \in {"sale", "orders"} /\ Click("logout")
ClickPlace == screen = "sale" /\ shown # NoProduct /\ Click("place")
ClickPay == screen = "sale" /\ ordered /\ Click("pay")
ClickCancel == screen = "orders" /\ Click("cancel")

ClickTab(s) ==
  /\ Room /\ screen \in {"sale", "orders"}
  /\ Show(s, calls)
  /\ UNCHANGED << refreshed, cookies, serverVars >>

ClickProduct(p) ==
  /\ Room /\ screen = "sale"
  /\ Select(p, calls)
  /\ UNCHANGED << refreshed, cookies, serverVars >>

SkuTimerFiresStale ==
  /\ Room /\ skuTimers > 0
  /\ calls' = calls (+) SkuCall("pollSkus", IF shown = NoProduct THEN chosen ELSE shown)
  /\ UNCHANGED << view, refreshed, cookies, serverVars >>

SkuTimerFires ==
  /\ Room /\ skuTimers > 0
  /\ calls' = calls (+) SkuCall("pollSkus", chosen)
  /\ UNCHANGED << view, refreshed, cookies, serverVars >>

OrderTimerFires ==
  /\ orderTimers > 0
  /\ Click("pollOrders")

\* ACCESS_TOKEN_TTL.  The page has no use for the longer life of a session.
CookieExpires ==
  /\ access /\ access' = FALSE
  /\ UNCHANGED << view, refreshed, token, calls, serverVars >>

-----------------------------------------------------------------------------
\* A step of the process, not of the page.
Elsewhere(A) == A /\ UNCHANGED << view, refreshed, cookies, calls >>

GoodWrite(c) == c.name \in Writes /\ c.token

\* The calls, when no token that a write carries verifies any more.
TokensOutdated ==
  LET good == { c \in BagToSet(calls) : GoodWrite(c) }
  IN  [ c \in BagToSet(calls) \ good |-> calls[c] ]
      (+) [ c \in { [d EXCEPT !.token = FALSE] : d \in good } |-> calls[[c EXCEPT !.token = TRUE]] ]

\* The next version comes with a new CSRF_SECRET.
SecretChanges ==
  /\ Bootstrap
  /\ token' = FALSE
  /\ calls' = TokensOutdated
  /\ UNCHANGED << view, refreshed, access >>

Answer(c) ==
  \/ AnsweredWell(c) \/ AnsweredBadly(c) \/ Unauthorized(c) \/ AsksRefresh(c)
  \/ RefreshRefused(c) \/ RefreshLost(c)

PageNext ==
  \/ \E c \in BagToSet(calls) : Answer(c)
  \/ SubmitAuth \/ ClickLogout \/ ClickPlace \/ ClickPay \/ ClickCancel
  \/ \E s \in {"sale", "orders"} : ClickTab(s)
  \/ \E p \in Products : ClickProduct(p)
  \/ SkuTimerFires \/ OrderTimerFires \/ CookieExpires
  \/ SecretChanges \/ Elsewhere(ServerNext)

PageSpec == PageInit /\ [][PageNext]_pageVars

\* Timers go on firing, calls end, and where a poll can be answered again and
\* again, some poll is.
PageFairness ==
  /\ SF_pageVars(SkuTimerFires)
  /\ \A p \in Products : SF_pageVars(AnsweredWell(Sent("pollSkus", p)))
  /\ WF_pageVars(\E c \in BagToSet(calls) : Answer(c))

FairPageSpec == PageSpec /\ PageFairness

-----------------------------------------------------------------------------
Refreshing == { c \in BagToSet(calls) : c.stage = "refreshing" }

\* However many polls meet an expired access token at a time, the page never
\* has two refreshes under way, which the rotation of refresh tokens would
\* take for a stolen one (the comment on api()).
OneRefresh ==
  \A c, d \in Refreshing : c = d /\ calls[c] = 1

\* What polls belongs to the screen, once, unless the screen changed while a
\* start was still awaiting its first answer.
PollsItsScreen ==
  ~overtaken =>
    /\ skuTimers > 0 => screen = "sale"
    /\ orderTimers > 0 => screen = "orders"
    /\ skuTimers + orderTimers <= 1

\* While SKUs are polled, what is shown comes to be the chosen product's once
\* the API stays up, though answers had failed or overtaken one another:
\* "polling KHÔNG được tự tắt khi lỗi".
ShownIsChosen ==
  <>[]Readiness =>
    \A p \in Products :
      skuTimers > 0 /\ chosen = p ~> shown = p \/ skuTimers = 0 \/ chosen # p

\* A new CSRF_SECRET makes writes fail for a moment only: where SKUs are
\* polled, the answers bring the page a token that is good again
\* (env.schema.ts CSRF_SECRET: it is safe to change it).
TokenComesBack ==
  <>[]Readiness => (skuTimers > 0 ~> token \/ skuTimers = 0)

\* One refresh at a time, because there is none before the mark is set.
RefreshIsMarked == (Refreshing # {} => refreshed) /\ OneRefresh

\* Until the screen changes under a start, the starts in flight are those of
\* the screen, and one that will set the timer of orders is the only one.
StartsBelong ==
  ~overtaken =>
    \A c \in BagToSet(calls) :
      /\ c.name \in {"sale", "select"} => screen = "sale"
      /\ c.name = "orders" =>
           /\ screen = "orders" /\ orderTimers = 0
           /\ calls[c] = 1 /\ \A d \in BagToSet(calls) : d.name = "orders" => d = c

PageInv == PageTypeOK /\ RefreshIsMarked /\ StartsBelong /\ PollsItsScreen

-----------------------------------------------------------------------------
(* What the repository says of the program and the program does not do.    *)

\* "Rời tab rồi quay lại -> polling không nhân đôi" (phase5-ui-demo.md).
PollingNotDoubled == orderTimers <= 1

=============================================================================
