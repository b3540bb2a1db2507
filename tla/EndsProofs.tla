----------------------------- MODULE EndsProofs -----------------------------
(* The two ends of the shop: the page of a buyer, whatever calls are in      *)
(* flight, and the processes at the queue, however many there are.           *)
EXTENDS Page, Worker, TLAPS

USE PageAssumption

-----------------------------------------------------------------------------
(* Bags with one call more or one less.                                      *)

\* R has nothing that B has not, and no more of it.
Within(R, B) ==
  /\ IsABag(R)
  /\ BagToSet(R) \subseteq BagToSet(B)
  /\ \A x \in BagToSet(R) : R[x] <= B[x]

\* B is R with at most one more n.
WithinPlus(B, R, n) ==
  /\ IsABag(B)
  /\ BagToSet(B) \subseteq BagToSet(R) \union {n}
  /\ \A x \in BagToSet(B) :
       B[x] <= (IF x \in BagToSet(R) THEN R[x] ELSE 0) + (IF x = n THEN 1 ELSE 0)

(* One copy of a call taken out of a bag. *)
LEMMA LessOne ==
  ASSUME NEW B, IsABag(B), NEW c \in BagToSet(B)
  PROVE  LET R == B (-) SetToBag({c})
         IN  Within(R, B) /\ (B[c] = 1 => c \notin BagToSet(R))
<1> DEFINE D == [ e \in DOMAIN B |-> IF e \in {c} THEN B[e] - 1 ELSE B[e] ]
           R == [ e \in { d \in DOMAIN D : D[d] > 0 } |-> D[e] ]
<1>1. B (-) SetToBag({c}) = R
  BY DEF SetToBag, (-)
<1>2. \A e \in DOMAIN B : B[e] \in Nat /\ B[e] > 0
  BY DEF IsABag
<1>3. DOMAIN D = DOMAIN B /\ \A e \in DOMAIN B : D[e] \in Nat /\ D[e] <= B[e]
  BY <1>2
<1>4. DOMAIN R = { d \in DOMAIN B : D[d] > 0 } /\ \A e \in DOMAIN R : R[e] = D[e]
  BY <1>3
<1>5. R \in [ DOMAIN R -> { n \in Nat : n > 0 } ]
  <2>1. \A e \in DOMAIN R : R[e] \in { n \in Nat : n > 0 }
    BY <1>3, <1>4
  <2> QED BY <2>1
<1>6. B[c] = 1 => c \notin DOMAIN R
  BY <1>4, <1>2
<1> HIDE DEF D, R
<1> QED BY <1>1, <1>3, <1>4, <1>5, <1>6 DEF Within, IsABag, BagToSet

(* A call put into a bag. *)
LEMMA OneMore ==
  ASSUME NEW R, IsABag(R), NEW n
  PROVE  WithinPlus(R (+) SetToBag({n}), R, n)
<1> DEFINE B == R (+) SetToBag({n})
<1>1. B = [ e \in (DOMAIN R) \union {n} |->
              (IF e \in DOMAIN R THEN R[e] ELSE 0) + (IF e \in {n} THEN 1 ELSE 0) ]
  BY DEF SetToBag, (+)
<1>2. \A e \in DOMAIN R : R[e] \in Nat /\ R[e] > 0
  BY DEF IsABag
<1>3. DOMAIN B = (DOMAIN R) \union {n}
  BY <1>1
<1>4. \A e \in DOMAIN B : B[e] = (IF e \in DOMAIN R THEN R[e] ELSE 0) + (IF e = n THEN 1 ELSE 0)
  BY <1>1
<1>5. \A e \in DOMAIN B : B[e] \in { k \in Nat : k > 0 }
  BY <1>2, <1>3, <1>4
<1>6. B \in [ DOMAIN B -> { k \in Nat : k > 0 } ]
  BY <1>1, <1>5
<1> HIDE DEF B
<1> QED BY <1>2, <1>3, <1>4, <1>6 DEF WithinPlus, IsABag, BagToSet, B

(* The empty bag put into a bag. *)
LEMMA NoneMore ==
  ASSUME NEW R, IsABag(R)
  PROVE  R (+) NoCall = R
<1>1. NoCall = [ e \in {} |-> 1 ]
  BY DEF NoCall, EmptyBag, SetToBag
<1>2. \A e \in DOMAIN R : R[e] \in Nat
  BY DEF IsABag
<1>3. R = [ e \in DOMAIN R |-> R[e] ]
  BY DEF IsABag
<1> QED BY <1>1, <1>2, <1>3 DEF (+)

(* What an awaiting function leaves of the calls in flight, and adds.        *)
LEMMA Continues ==
  ASSUME NEW B, IsABag(B), NEW R, Within(R, B), NEW n, NEW A,
         A = R \/ A = R (+) SetToBag({n})
  PROVE  WithinPlus(A, B, n) /\ BagToSet(A) \subseteq BagToSet(R) \union {n}
<1>1. \A x \in BagToSet(B) : B[x] \in Nat /\ B[x] > 0
  BY DEF IsABag, BagToSet
<1>2. \A x \in BagToSet(R) : R[x] \in Nat /\ R[x] > 0
  BY DEF Within, IsABag, BagToSet
<1>3. CASE A = R
  BY <1>1, <1>2, <1>3 DEF Within, WithinPlus
<1>4. CASE A = R (+) SetToBag({n})
  <2>1. WithinPlus(A, R, n)
    BY <1>4, OneMore DEF Within
  <2>2. \A x \in BagToSet(A) : A[x] \in Nat
    BY <2>1 DEF WithinPlus, IsABag, BagToSet
  <2> QED BY <1>1, <1>2, <2>1, <2>2 DEF Within, WithinPlus
<1> QED BY <1>3, <1>4

LEMMA RestIsWithin ==
  ASSUME IsABag(calls), NEW c \in BagToSet(calls)
  PROVE  Within(Rest(c), calls) /\ (calls[c] = 1 => c \notin BagToSet(Rest(c)))
BY LessOne DEF Rest

LEMMA CallsAreWithin ==
  ASSUME IsABag(calls)
  PROVE  Within(calls, calls)
BY DEF Within, IsABag, BagToSet

-----------------------------------------------------------------------------
(* The page.                                                                 *)

ViewTypeOK ==
  /\ screen \in {"none", "auth", "sale", "orders"}
  /\ chosen \in Products \union {NoProduct}
  /\ shown \in Products \union {NoProduct}
  /\ skuTimers \in 0..1 /\ orderTimers \in Nat
  /\ ordered \in BOOLEAN /\ overtaken \in BOOLEAN

\* What runs between two awaits keeps the view as the invariant has it, and
\* sends one call at most.
ViewIsKept ==
  /\ ViewTypeOK' /\ StartsBelong' /\ PollsItsScreen'
  /\ \E n \in Call : n.stage = "sent" /\ WithinPlus(calls', calls, n)

LEMMA SentIsCall ==
  ASSUME PageInv, NEW name \in Reads \union Writes, NEW p \in Products \union {NoProduct}
  PROVE  Sent(name, p) \in Call /\ Sent(name, p).name = name /\ Sent(name, p).stage = "sent"
BY DEF PageInv, PageTypeOK, Sent, Call

(* A step that leaves screen and timers alone, and starts nothing the screen *)
(* has not.                                                                  *)
LEMMA QuietKeepsView ==
  ASSUME PageInv, NEW R, Within(R, calls), NEW n \in Call, n.stage = "sent",
         calls' = R \/ calls' = R (+) SetToBag({n}),
         n.name \in Starts => n.name = "select" /\ (~overtaken => screen = "sale"),
         UNCHANGED << screen, timers, overtaken >>,
         chosen' \in Products \union {NoProduct}, shown' \in Products \union {NoProduct},
         ordered' \in BOOLEAN
  PROVE  ViewIsKept
<1>1. WithinPlus(calls', calls, n)
  BY Continues DEF PageInv, PageTypeOK
<1>2. ViewTypeOK' /\ PollsItsScreen'
  BY DEF PageInv, PageTypeOK, ViewTypeOK, PollsItsScreen, timers
<1>3. StartsBelong'
  <2> SUFFICES ASSUME ~overtaken', NEW c \in BagToSet(calls')
               PROVE  /\ c.name \in {"sale", "select"} => screen = "sale"
                      /\ c.name = "orders" =>
                           /\ screen = "orders" /\ orderTimers = 0
                           /\ calls'[c] = 1
                           /\ \A d \in BagToSet(calls') : d.name = "orders" => d = c
    BY DEF StartsBelong, timers
  <2>1. ~overtaken
    OBVIOUS
  <2>2. CASE c = n
    BY <2>1, <2>2 DEF Starts
  <2>3. CASE c # n
    <3>1. c \in BagToSet(calls)
      BY <1>1, <2>3 DEF WithinPlus
    <3>2. calls'[c] <= calls[c] /\ calls'[c] \in Nat /\ calls'[c] > 0
      BY <1>1, <2>3, <3>1 DEF WithinPlus, IsABag, BagToSet, PageInv, PageTypeOK
    <3>3. \A d \in BagToSet(calls') : d.name = "orders" => d \in BagToSet(calls)
      BY <1>1 DEF WithinPlus, Starts
    <3> QED BY <2>1, <3>1, <3>2, <3>3 DEF StartsBelong, PageInv
  <2> QED BY <2>2, <2>3
<1> QED BY <1>1, <1>2, <1>3 DEF ViewIsKept

(* show(): no start goes on that ought not to have been overtaken.           *)
LEMMA ShowKeepsView ==
  ASSUME PageInv, NEW R, Within(R, calls), NEW s \in {"auth", "sale", "orders"}, Show(s, R)
  PROVE  ViewIsKept
<1> DEFINE n == Sent(IF s = "auth" THEN "boot" ELSE s, NoProduct)
<1>1. n \in Call /\ n.stage = "sent" /\ (s # "auth" => n.name = s) /\ (s = "auth" => n.name = "boot")
  BY SentIsCall DEF Reads, Starts
<1>2. s = "auth" => calls' = R
  BY NoneMore DEF Show, Within
<1>3. s # "auth" => calls' = R (+) SetToBag({n})
  BY DEF Show, NewCall
<1> HIDE DEF n
<1>4. WithinPlus(calls', calls, n)
  BY <1>2, <1>3, Continues DEF PageInv, PageTypeOK
<1>5. ViewTypeOK' /\ PollsItsScreen'
  BY DEF PageInv, PageTypeOK, ViewTypeOK, PollsItsScreen, Show
<1>6. StartsBelong'
  <2> SUFFICES ASSUME ~overtaken', NEW c \in BagToSet(calls'), c.name \in Starts
               PROVE  /\ c.name \in {"sale", "select"} => screen' = "sale"
                      /\ c.name = "orders" =>
                           /\ screen' = "orders" /\ orderTimers' = 0
                           /\ calls'[c] = 1
                           /\ \A d \in BagToSet(calls') : d.name = "orders" => d = c
    BY DEF StartsBelong, Starts
  <2>1. \A d \in BagToSet(calls) : d.name \notin Starts
    BY DEF Show
  <2>2. \A d \in BagToSet(calls') : d.name \in Starts => d = n
    BY <1>4, <2>1 DEF WithinPlus
  <2>3. c = n /\ c \notin BagToSet(calls)
    BY <2>1, <2>2
  <2>4. calls'[c] = 1
    BY <1>4, <2>3 DEF WithinPlus, IsABag, BagToSet
  <2>5. s # "auth" /\ c.name = s
    BY <1>1, <2>3 DEF Starts
  <2> QED BY <2>2, <2>3, <2>4, <2>5 DEF Show, Starts
<1> QED BY <1>1, <1>4, <1>5, <1>6 DEF ViewIsKept

(* The end of selectProduct: its timer is the only one.                      *)
LEMMA SelectEndsKeepsView ==
  ASSUME PageInv, NEW c \in BagToSet(calls), c.name = "select",
         SelectEnds(Rest(c)), shown' \in Products \union {NoProduct}
  PROVE  ViewIsKept
<1> DEFINE n == Sent("boot", NoProduct)
<1>1. n \in Call /\ n.stage = "sent"
  BY SentIsCall DEF Reads
<1>2. WithinPlus(calls', calls, n) /\ BagToSet(calls') \subseteq BagToSet(calls)
  BY RestIsWithin, Continues DEF PageInv, PageTypeOK, SelectEnds, Within
<1>3. ViewTypeOK' /\ PollsItsScreen'
  BY DEF PageInv, PageTypeOK, ViewTypeOK, PollsItsScreen, SelectEnds, StartsBelong
<1>4. StartsBelong'
  <2>1. ~overtaken' => screen = "sale" /\ screen' = "sale"
    BY DEF SelectEnds, StartsBelong, PageInv
  <2> QED BY <1>2, <2>1 DEF SelectEnds, StartsBelong, PageInv
<1> QED BY <1>1, <1>2, <1>3, <1>4 DEF ViewIsKept

(* The end of startOrders: no other start of orders goes on.                 *)
LEMMA StartOrdersEndsKeepsView ==
  ASSUME PageInv, NEW c \in BagToSet(calls), c.name = "orders", StartOrdersEnds(Rest(c))
  PROVE  ViewIsKept
<1> DEFINE n == Sent("boot", NoProduct)
<1>1. n \in Call /\ n.stage = "sent"
  BY SentIsCall DEF Reads
<1>2. /\ WithinPlus(calls', calls, n) /\ BagToSet(calls') \subseteq BagToSet(calls)
      /\ calls[c] = 1 => c \notin BagToSet(calls')
  BY RestIsWithin, Continues DEF PageInv, PageTypeOK, StartOrdersEnds, Within
<1>3. ViewTypeOK' /\ PollsItsScreen'
  BY DEF PageInv, PageTypeOK, ViewTypeOK, PollsItsScreen, StartOrdersEnds, StartsBelong
<1>4. StartsBelong'
  <2>1. ~overtaken' => screen = "orders" /\ screen' = "orders" /\ calls[c] = 1
                       /\ \A d \in BagToSet(calls) : d.name = "orders" => d = c
    BY DEF StartOrdersEnds, StartsBelong, PageInv
  <2> QED BY <1>2, <2>1 DEF StartOrdersEnds, StartsBelong, PageInv
<1> QED BY <1>1, <1>2, <1>3, <1>4 DEF ViewIsKept

(* showAuth() inside of api(): a start that goes on is overtaken by it.      *)
LEMMA FailsAtAuthKeepsView ==
  ASSUME PageInv, NEW c \in BagToSet(calls), FailsAtAuth(c, Rest(c))
  PROVE  ViewIsKept
<1> DEFINE n == Sent("pollSkus", chosen)
<1>1. n \in Call /\ n.stage = "sent" /\ n.name = "pollSkus"
  BY SentIsCall DEF Reads, PageInv, PageTypeOK
<1>2. IsABag(calls) /\ Within(Rest(c), calls)
  BY RestIsWithin DEF PageInv, PageTypeOK
<1>3. calls' = Rest(c) \/ calls' = Rest(c) (+) SetToBag({n})
  BY <1>2, NoneMore DEF FailsAtAuth, SkuCall, Within
<1> HIDE DEF n
<1>4. WithinPlus(calls', calls, n)
  BY <1>2, <1>3, Continues
<1>5. ~overtaken' => \A d \in BagToSet(calls) : d.name \notin Starts
  BY DEF FailsAtAuth
<1>6. ViewTypeOK' /\ PollsItsScreen'
  BY <1>5 DEF PageInv, PageTypeOK, ViewTypeOK, PollsItsScreen, FailsAtAuth, Starts
<1>7. StartsBelong'
  <2>1. ~overtaken' => \A d \in BagToSet(calls') : d.name \notin Starts
    BY <1>1, <1>4, <1>5 DEF WithinPlus, Starts
  <2> QED BY <2>1 DEF StartsBelong, Starts
<1> QED BY <1>1, <1>4, <1>6, <1>7 DEF ViewIsKept

(* What only changes the calls: a call is over, and a next one may be sent.  *)
LEMMA GoesKeepsView ==
  ASSUME PageInv, NEW c \in BagToSet(calls),
         NEW n \in Call, n.stage = "sent", n.name \notin Starts,
         NEW next, next = Rest(c) \/ next = Rest(c) (+) SetToBag({n}),
         Goes(next) \/ RenderOrder(next)
  PROVE  ViewIsKept
<1>1. Within(Rest(c), calls)
  BY RestIsWithin DEF PageInv, PageTypeOK
<1>2. chosen \in Products \union {NoProduct} /\ shown \in Products \union {NoProduct}
      /\ ordered \in BOOLEAN
  BY DEF PageInv, PageTypeOK
<1> QED BY <1>1, <1>2, QuietKeepsView DEF Goes, RenderOrder, view

(* What a function does with a good answer. *)
LEMMA SucceedsKeepsView ==
  ASSUME PageInv, NEW c \in BagToSet(calls), Succeeds(c, Rest(c))
  PROVE  ViewIsKept
<1>1. IsABag(calls) /\ Within(Rest(c), calls) /\ c \in Call
  BY RestIsWithin DEF PageInv, PageTypeOK
<1>2. /\ c.product \in Products \union {NoProduct} /\ chosen \in Products \union {NoProduct}
      /\ shown \in Products \union {NoProduct} /\ ordered \in BOOLEAN
  BY <1>1 DEF PageInv, PageTypeOK, Call
<1>3. ASSUME NEW s \in {"auth", "sale"}, Show(s, Rest(c)) PROVE ViewIsKept
  BY <1>1, <1>3, ShowKeepsView
<1>4. ASSUME NEW name \in {"login", "boot", "pollOrders"}, Goes(Rest(c) (+) NewCall(name))
      PROVE  ViewIsKept
  BY <1>4, SentIsCall, GoesKeepsView DEF NewCall, Reads, Writes, Starts
<1>5. ASSUME Goes(Rest(c) (+) SkuCall("pollSkus", chosen)) \/ RenderOrder(Rest(c) (+) SkuCall("pollSkus", chosen))
      PROVE  ViewIsKept
  BY <1>2, <1>5, SentIsCall, GoesKeepsView DEF SkuCall, Reads, Starts
<1>6. ASSUME NEW p \in Products, c.name = "sale", Select(p, Rest(c)) PROVE ViewIsKept
  <2> DEFINE n == Sent("select", p)
  <2>1. n \in Call /\ n.stage = "sent" /\ n.name = "select"
    BY SentIsCall DEF Reads, Starts
  <2>2. calls' = Rest(c) (+) SetToBag({n})
    BY <1>6 DEF Select, SkuCall
  <2>3. ~overtaken => screen = "sale"
    BY <1>6 DEF PageInv, StartsBelong
  <2> HIDE DEF n
  <2> QED BY <1>1, <1>2, <1>6, <2>1, <2>2, <2>3, QuietKeepsView DEF Select
<1>7. /\ Sent("boot", NoProduct) \in Call /\ Sent("boot", NoProduct).stage = "sent"
      /\ Sent("boot", NoProduct).name \notin Starts
  BY SentIsCall DEF Reads, Starts
<1>8. CASE c.name = "pollSkus"
  BY <1>1, <1>2, <1>7, <1>8, QuietKeepsView DEF Succeeds, timers
<1>9. ASSUME Goes(Rest(c)) PROVE ViewIsKept
  BY <1>7, <1>9, GoesKeepsView
<1>10. CASE c.name = "select"
  BY <1>2, <1>10, SelectEndsKeepsView DEF Succeeds
<1>11. CASE c.name = "orders"
  BY <1>11, StartOrdersEndsKeepsView DEF Succeeds
<1> QED BY <1>3, <1>4, <1>5, <1>6, <1>8, <1>9, <1>10, <1>11 DEF Succeeds, StartSale

(* What a function does without one. *)
LEMMA FailsKeepsView ==
  ASSUME PageInv, NEW c \in BagToSet(calls), Fails(c, Rest(c))
  PROVE  ViewIsKept
<1>1. Within(Rest(c), calls)
  BY RestIsWithin DEF PageInv, PageTypeOK
<1>2. chosen \in Products \union {NoProduct} /\ shown \in Products \union {NoProduct}
  BY DEF PageInv, PageTypeOK
<1>3. CASE c.name \in {"boot", "logout"}
  BY <1>1, <1>3, ShowKeepsView DEF Fails
<1>4. CASE c.name = "select"
  BY <1>2, <1>4, SelectEndsKeepsView DEF Fails
<1>5. CASE c.name = "orders"
  BY <1>5, StartOrdersEndsKeepsView DEF Fails
<1>6. CASE c.name = "place"
  BY <1>2, <1>6, SentIsCall, GoesKeepsView DEF Fails, SkuCall, Reads, Starts
<1>7. /\ Sent("boot", NoProduct) \in Call /\ Sent("boot", NoProduct).stage = "sent"
      /\ Sent("boot", NoProduct).name \notin Starts
  BY SentIsCall DEF Reads, Starts
<1>8. ASSUME Goes(Rest(c)) PROVE ViewIsKept
  BY <1>7, <1>8, GoesKeepsView
<1> QED BY <1>3, <1>4, <1>5, <1>6, <1>8 DEF Fails

(* A call that is sent does not refresh: the mark is as it was.              *)
LEMMA SentKeepsMark ==
  ASSUME PageInv, NEW n \in Call, n.stage = "sent", WithinPlus(calls', calls, n),
         refreshed' = refreshed
  PROVE  RefreshIsMarked'
<1>1. \A x \in BagToSet(calls') : calls'[x] \in Nat /\ calls'[x] > 0
  BY DEF WithinPlus, IsABag, BagToSet
<1>2. \A x \in Refreshing' : x \in Refreshing /\ calls'[x] <= calls[x]
  BY <1>1 DEF Refreshing, WithinPlus, PageInv, PageTypeOK, IsABag, BagToSet
<1>3. Refreshing' \subseteq BagToSet(calls')
  BY DEF Refreshing
<1> QED BY <1>1, <1>2, <1>3 DEF PageInv, RefreshIsMarked, OneRefresh

\* What an action of the page keeps besides of the view.
RestTypeOK ==
  /\ ServerTypeOK
  /\ refreshed \in BOOLEAN /\ access \in BOOLEAN /\ token \in BOOLEAN

LEMMA ViewSuffices ==
  ASSUME PageInv, ViewIsKept, RestTypeOK', refreshed' = refreshed
  PROVE  PageInv'
<1>1. PICK n \in Call : n.stage = "sent" /\ WithinPlus(calls', calls, n)
  BY DEF ViewIsKept
<1>2. RefreshIsMarked'
  BY <1>1, SentKeepsMark
<1>3. IsABag(calls') /\ BagToSet(calls') \subseteq Call
  BY <1>1 DEF WithinPlus, PageInv, PageTypeOK
<1>4. PageTypeOK'
  BY <1>3 DEF PageTypeOK, ViewIsKept, ViewTypeOK, RestTypeOK
<1> QED BY <1>2, <1>4 DEF PageInv, ViewIsKept

(* An answer other than the 401 that makes api() refresh. *)
LEMMA AnswerKeepsPage ==
  ASSUME PageInv, NEW c \in BagToSet(calls), Answer(c), ~AsksRefresh(c)
  PROVE  PageInv'
<1>1. ViewIsKept
  BY SucceedsKeepsView, FailsKeepsView, FailsAtAuthKeepsView
     DEF Answer, AnsweredWell, AnsweredBadly, Unauthorized, RefreshRefused, RefreshLost
<1> USE DEF Answer, AnsweredWell, AnsweredBadly, Unauthorized, RefreshRefused, RefreshLost
<1>2. UNCHANGED << refreshed, serverVars >>
  OBVIOUS
<1>3. token' \in BOOLEAN
  BY DEF PageInv, PageTypeOK, IssuesToken, cookies
<1>4. access' \in BOOLEAN
  <2>1. AnsweredWell(c) \/ access' = access
    BY DEF cookies
  <2>2. (c.name # "logout" /\ (access \/ c.name = "login")) \in BOOLEAN
    OBVIOUS
  <2>3. AnsweredWell(c) => access' = (c.name # "logout" /\ (access \/ c.name = "login"))
    OBVIOUS
  <2> QED BY <2>1, <2>2, <2>3 DEF PageInv, PageTypeOK
<1>5. RestTypeOK'
  BY <1>2, <1>3, <1>4 DEF RestTypeOK, PageInv, PageTypeOK, ServerTypeOK, serverVars
<1> QED BY <1>1, <1>2, <1>5, ViewSuffices

(* The call whose 401 makes api() refresh is the only one that refreshes.    *)
LEMMA AsksRefreshKeepsPage ==
  ASSUME PageInv, NEW c \in BagToSet(calls), AsksRefresh(c)
  PROVE  PageInv'
<1> DEFINE n == [c EXCEPT !.stage = "refreshing"]
<1>1. c \in Call /\ c.stage = "sent"
  BY DEF AsksRefresh, PageInv, PageTypeOK
<1>2. n \in Call /\ n.stage = "refreshing" /\ n.name = c.name
  BY <1>1 DEF Call
<1>3. calls' = Rest(c) (+) SetToBag({n})
  BY DEF AsksRefresh
<1> HIDE DEF n
<1>4. /\ WithinPlus(calls', calls, n) /\ BagToSet(calls') \subseteq BagToSet(Rest(c)) \union {n}
      /\ calls[c] = 1 => c \notin BagToSet(Rest(c))
      /\ BagToSet(Rest(c)) \subseteq BagToSet(calls)
  <2>1. IsABag(calls) /\ Within(Rest(c), calls) /\ (calls[c] = 1 => c \notin BagToSet(Rest(c)))
    BY RestIsWithin DEF PageInv, PageTypeOK
  <2>2. WithinPlus(calls', calls, n) /\ BagToSet(calls') \subseteq BagToSet(Rest(c)) \union {n}
    BY <1>3, <2>1, Continues
  <2> QED BY <2>1, <2>2 DEF Within
<1>5. \A x \in BagToSet(calls') : calls'[x] \in Nat /\ calls'[x] > 0
  BY <1>4 DEF WithinPlus, IsABag, BagToSet
<1>6. \A x \in BagToSet(calls) : x.stage # "refreshing"
  BY DEF AsksRefresh, PageInv, RefreshIsMarked, Refreshing
<1>7. n \notin BagToSet(calls) /\ (n \in BagToSet(calls') => calls'[n] = 1)
  BY <1>2, <1>4, <1>5, <1>6 DEF WithinPlus
<1>8. RefreshIsMarked'
  <2>1. Refreshing' \subseteq {n} /\ Refreshing' \subseteq BagToSet(calls')
    BY <1>4, <1>6 DEF Refreshing
  <2>2. refreshed' = TRUE
    BY DEF AsksRefresh
  <2> QED BY <1>7, <2>1, <2>2 DEF RefreshIsMarked, OneRefresh
<1>9. PageTypeOK'
  BY <1>2, <1>4 DEF PageInv, PageTypeOK, AsksRefresh, WithinPlus, view, timers, IssuesToken,
                    serverVars, ServerTypeOK
<1>10. PollsItsScreen'
  BY DEF PageInv, PollsItsScreen, AsksRefresh, view, timers
<1>11. StartsBelong'
  <2> SUFFICES ASSUME ~overtaken, NEW x \in BagToSet(calls')
               PROVE  /\ x.name \in {"sale", "select"} => screen = "sale"
                      /\ x.name = "orders" =>
                           /\ screen = "orders" /\ orderTimers = 0
                           /\ calls'[x] = 1
                           /\ \A d \in BagToSet(calls') : d.name = "orders" => d = x
    BY DEF StartsBelong, AsksRefresh, view, timers
  <2>1. CASE c.name = "orders"
    <3>1. screen = "orders" /\ orderTimers = 0 /\ c \notin BagToSet(Rest(c))
          /\ \A d \in BagToSet(calls) : d.name = "orders" => d = c
      BY <1>4, <2>1 DEF PageInv, StartsBelong
    <3>2. \A d \in BagToSet(calls') : d.name = "orders" => d = n
      BY <1>4, <3>1
    <3>3. x # n => x.name \notin {"sale", "select"}
      BY <1>4, <3>1 DEF PageInv, StartsBelong
    <3> QED BY <1>2, <1>7, <2>1, <3>1, <3>2, <3>3
  <2>2. CASE c.name # "orders"
    <3>1. \A d \in BagToSet(calls') : d.name = "orders" => d \in BagToSet(calls) /\ d # n
      BY <1>2, <1>4, <2>2
    <3>2. x.name = "orders" => calls'[x] <= calls[x]
      BY <1>4, <3>1 DEF WithinPlus, PageInv, PageTypeOK, IsABag, BagToSet
    <3>3. x.name \in {"sale", "select"} => screen = "sale"
      BY <1>2, <1>4 DEF PageInv, StartsBelong
    <3> QED BY <1>5, <3>1, <3>2, <3>3 DEF PageInv, StartsBelong
  <2> QED BY <2>1, <2>2
<1> QED BY <1>8, <1>9, <1>10, <1>11 DEF PageInv

\* What becomes of a call, and of the calls, when no token verifies any more.
Outdated(d) == IF GoodWrite(d) THEN [d EXCEPT !.token = FALSE] ELSE d

LEMMA OutdatedCalls ==
  ASSUME PageInv
  PROVE  LET B == TokensOutdated
         IN  /\ IsABag(B) /\ BagToSet(B) \subseteq Call
             /\ \A x \in BagToSet(B) : x.name \notin Writes => x \in BagToSet(calls) /\ B[x] = calls[x]
             /\ \A x \in BagToSet(B) : x.stage = "refreshing" =>
                  /\ B[x] = 1
                  /\ \E d \in Refreshing : x = Outdated(d)
<1> DEFINE good == { c \in BagToSet(calls) : GoodWrite(c) }
           bad == { [d EXCEPT !.token = FALSE] : d \in good }
           was(x) == [x EXCEPT !.token = TRUE]
           B == TokensOutdated
<1>1. /\ \A x \in BagToSet(calls) : x \in Call /\ calls[x] \in Nat /\ calls[x] > 0
  BY DEF PageInv, PageTypeOK, IsABag, BagToSet
<1>2. \A d \in good : d \in BagToSet(calls) /\ d.name \in Writes /\ d.token = TRUE /\ d \in Call
  BY <1>1 DEF GoodWrite, Call
<1>3. \A x \in bad : x \in Call /\ x.name \in Writes /\ x.token = FALSE /\ was(x) \in good
                     /\ was(x).stage = x.stage
  BY <1>2 DEF Call
<1>4. B = [ c \in BagToSet(calls) \ good |-> calls[c] ] (+) [ c \in bad |-> calls[was(c)] ]
  BY DEF TokensOutdated
<1> HIDE DEF good, bad, was
<1>5. B = [ x \in (BagToSet(calls) \ good) \union bad |->
              (IF x \in BagToSet(calls) \ good THEN calls[x] ELSE 0)
              + (IF x \in bad THEN calls[was(x)] ELSE 0) ]
  BY <1>4 DEF (+)
<1>6. /\ BagToSet(B) = (BagToSet(calls) \ good) \union bad
      /\ \A x \in BagToSet(B) : B[x] = (IF x \in BagToSet(calls) \ good THEN calls[x] ELSE 0)
                                        + (IF x \in bad THEN calls[was(x)] ELSE 0)
      /\ B = [ x \in BagToSet(B) |-> B[x] ]
  BY <1>5 DEF BagToSet
<1> HIDE DEF B
<1>7. \A x \in BagToSet(B) : B[x] \in { k \in Nat : k > 0 }
  BY <1>1, <1>2, <1>3, <1>6
<1>8. IsABag(B) /\ BagToSet(B) \subseteq Call
  BY <1>1, <1>3, <1>6, <1>7 DEF IsABag, BagToSet
<1>9. \A x \in BagToSet(B) : x.name \notin Writes => x \in BagToSet(calls) /\ B[x] = calls[x]
  BY <1>1, <1>3, <1>6
<1>10. ASSUME NEW x \in BagToSet(B), x.stage = "refreshing"
       PROVE  /\ B[x] = 1
              /\ \E d \in Refreshing : x = Outdated(d)
  <2>1. \A d, e \in Refreshing : d = e /\ calls[d] = 1
    BY DEF PageInv, RefreshIsMarked, OneRefresh
  <2>2. CASE x \in bad
    <3>1. was(x) \in Refreshing /\ GoodWrite(was(x)) /\ calls[was(x)] = 1
      BY <1>2, <1>3, <1>10, <2>1, <2>2 DEF Refreshing, GoodWrite
    <3>2. x \notin BagToSet(calls)
      BY <1>3, <1>10, <2>1, <2>2, <3>1 DEF Refreshing, GoodWrite
    <3>3. x = [was(x) EXCEPT !.token = FALSE]
      BY <1>3, <2>2 DEF was, Call
    <3> QED BY <1>6, <2>2, <3>1, <3>2, <3>3 DEF Outdated
  <2>3. CASE x \notin bad
    <3>1. x \in BagToSet(calls) /\ x \notin good
      BY <1>6, <2>3
    <3>2. x \in Refreshing /\ ~GoodWrite(x) /\ calls[x] = 1
      BY <1>10, <2>1, <3>1 DEF Refreshing, good
    <3> QED BY <1>1, <1>6, <2>3, <3>1, <3>2 DEF Outdated
  <2> QED BY <2>2, <2>3
<1> QED BY <1>8, <1>9, <1>10 DEF B

(* The next version with its new secret, under the page. *)
LEMMA SecretKeepsPage ==
  ASSUME PageInv, SecretChanges
  PROVE  PageInv'
<1> DEFINE B == TokensOutdated
<1>1. /\ IsABag(B) /\ BagToSet(B) \subseteq Call
      /\ \A x \in BagToSet(B) : x.name \notin Writes => x \in BagToSet(calls) /\ B[x] = calls[x]
      /\ \A x \in BagToSet(B) : x.stage = "refreshing" =>
           /\ B[x] = 1
           /\ \E d \in Refreshing : x = Outdated(d)
  BY OutdatedCalls
<1> HIDE DEF B
<1>2. calls' = B /\ UNCHANGED << view, refreshed, access >> /\ token' = FALSE /\ Bootstrap
  BY DEF SecretChanges, B
<1>3. PageTypeOK'
  BY <1>1, <1>2 DEF PageInv, PageTypeOK, view, timers, Bootstrap, Connect, ServerTypeOK
<1>4. RefreshIsMarked'
  <2>1. \A d, e \in Refreshing : d = e
    BY DEF PageInv, RefreshIsMarked, OneRefresh
  <2>2. \A x \in Refreshing' : /\ calls'[x] = 1
                               /\ \E d \in Refreshing : x = Outdated(d)
    BY <1>1, <1>2 DEF Refreshing
  <2>3. \A x, y \in Refreshing' : x = y
    BY <2>1, <2>2
  <2>4. Refreshing' # {} => Refreshing # {}
    BY <2>2
  <2> QED BY <1>2, <2>2, <2>3, <2>4 DEF PageInv, RefreshIsMarked, OneRefresh
<1>5. PollsItsScreen' /\ StartsBelong'
  BY <1>1, <1>2 DEF PageInv, PollsItsScreen, StartsBelong, view, timers, Writes
<1> QED BY <1>3, <1>4, <1>5 DEF PageInv

(* Clicks and timers. *)
LEMMA InputKeepsPage ==
  ASSUME PageInv,
         \/ SubmitAuth \/ ClickLogout \/ ClickPlace \/ ClickPay \/ ClickCancel
         \/ \E s \in {"sale", "orders"} : ClickTab(s)
         \/ \E p \in Products : ClickProduct(p)
         \/ SkuTimerFires \/ OrderTimerFires
  PROVE  PageInv'
<1>1. Within(calls, calls)
  BY CallsAreWithin DEF PageInv, PageTypeOK
<1>2. /\ chosen \in Products \union {NoProduct} /\ shown \in Products \union {NoProduct}
      /\ ordered \in BOOLEAN
  BY DEF PageInv, PageTypeOK
<1>3. ASSUME NEW name \in Writes \union {"pollOrders"}, Click(name) PROVE ViewIsKept
  <2> DEFINE n == Sent(name, NoProduct)
  <2>1. n \in Call /\ n.stage = "sent" /\ n.name \notin Starts
    BY SentIsCall DEF Reads, Writes, Starts
  <2>2. calls' = calls (+) SetToBag({n})
    BY <1>3 DEF Click, NewCall
  <2> HIDE DEF n
  <2> QED BY <1>1, <1>2, <1>3, <2>1, <2>2, QuietKeepsView DEF Click, view
<1>4. ASSUME NEW s \in {"sale", "orders"}, ClickTab(s) PROVE ViewIsKept
  BY <1>1, <1>4, ShowKeepsView DEF ClickTab
<1>5. ASSUME NEW p \in Products, ClickProduct(p) PROVE ViewIsKept
  <2> DEFINE n == Sent("select", p)
  <2>1. n \in Call /\ n.stage = "sent" /\ n.name = "select"
    BY SentIsCall DEF Reads, Starts
  <2>2. calls' = calls (+) SetToBag({n})
    BY <1>5 DEF ClickProduct, Select, SkuCall
  <2> HIDE DEF n
  <2> QED BY <1>1, <1>2, <1>5, <2>1, <2>2, QuietKeepsView DEF ClickProduct, Select
<1>6. ASSUME SkuTimerFires PROVE ViewIsKept
  <2> DEFINE n == Sent("pollSkus", chosen)
  <2>1. n \in Call /\ n.stage = "sent" /\ n.name \notin Starts
    BY <1>2, SentIsCall DEF Reads, Starts
  <2>2. calls' = calls (+) SetToBag({n})
    BY <1>6 DEF SkuTimerFires, SkuCall
  <2> HIDE DEF n
  <2> QED BY <1>1, <1>2, <1>6, <2>1, <2>2, QuietKeepsView DEF SkuTimerFires, view
<1>7. ViewIsKept
  BY <1>3, <1>4, <1>5, <1>6
     DEF SubmitAuth, ClickLogout, ClickPlace, ClickPay, ClickCancel, OrderTimerFires, Writes
<1>8. UNCHANGED << refreshed, cookies, serverVars >>
  BY DEF SubmitAuth, ClickLogout, ClickPlace, ClickPay, ClickCancel, OrderTimerFires, Click,
         ClickTab, ClickProduct, SkuTimerFires
<1> QED BY <1>7, <1>8, ViewSuffices
           DEF RestTypeOK, PageInv, PageTypeOK, ServerTypeOK, cookies, serverVars

(* A step elsewhere: the calls in flight and the view are as they were.      *)
LEMMA ElsewhereKeepsPage ==
  ASSUME PageInv, UNCHANGED << view, refreshed, token, calls >>, ServerTypeOK', access' \in BOOLEAN
  PROVE  PageInv'
BY DEF PageInv, PageTypeOK, RefreshIsMarked, OneRefresh, Refreshing, StartsBelong, PollsItsScreen,
       view, timers

(* The page of a visitor who has just come. *)
LEMMA PageBegins == PageInit => PageInv
<1> SUFFICES ASSUME PageInit PROVE PageInv
  OBVIOUS
<1> DEFINE n == [ name |-> "boot", stage |-> "sent", product |-> NoProduct,
                  token |-> "boot" \in Writes => token ]
<1>1. calls = SetToBag({n})
  BY DEF PageInit, NewCall, Sent
<1>2. n \in Call /\ n.name = "boot" /\ n.stage = "sent"
  BY DEF PageInit, Call, Reads
<1> HIDE DEF n
<1>3. calls = [ e \in {n} |-> 1 ]
  BY <1>1 DEF SetToBag
<1>4. IsABag(calls) /\ BagToSet(calls) = {n}
  BY <1>3 DEF IsABag, BagToSet
<1>5. PageTypeOK
  <2>1. ServerTypeOK
    BY DEF PageInit, ServerInit, ServerTypeOK
  <2>2. ViewTypeOK
    <3>1. screen = "none" /\ chosen = NoProduct /\ shown = NoProduct /\ skuTimers = 0 /\ orderTimers = 0
      BY DEF PageInit
    <3>2. ordered \in BOOLEAN /\ overtaken \in BOOLEAN
      BY DEF PageInit
    <3> QED BY <3>1, <3>2 DEF ViewTypeOK
  <2>3. refreshed \in BOOLEAN /\ access \in BOOLEAN /\ token \in BOOLEAN
    BY DEF PageInit
  <2> QED BY <1>2, <1>4, <2>1, <2>2, <2>3 DEF PageTypeOK, ViewTypeOK
<1>6. RefreshIsMarked
  BY <1>2, <1>4 DEF RefreshIsMarked, OneRefresh, Refreshing
<1>7. StartsBelong /\ PollsItsScreen
  BY <1>2, <1>4 DEF PageInit, StartsBelong, PollsItsScreen
<1> QED BY <1>5, <1>6, <1>7 DEF PageInv

(* The inductive invariant of the page, from which the rest follows.         *)
THEOREM PageInvariant == PageSpec => []PageInv
<1>1. PageInit => PageInv
  BY PageBegins
<1>2. PageInv /\ [PageNext]_pageVars => PageInv'
  <2> SUFFICES ASSUME PageInv, [PageNext]_pageVars PROVE PageInv'
    OBVIOUS
  <2>1. ASSUME NEW c \in BagToSet(calls), Answer(c) PROVE PageInv'
    BY <2>1, AnswerKeepsPage, AsksRefreshKeepsPage
  <2>2. CASE SecretChanges
    BY <2>2, SecretKeepsPage
  <2>3. CASE CookieExpires
    BY <2>3, ElsewhereKeepsPage DEF CookieExpires, PageInv, PageTypeOK, ServerTypeOK, serverVars
  <2>4. CASE Elsewhere(ServerNext)
    <3>1. UNCHANGED << view, refreshed, cookies, calls >> /\ ServerNext
      BY <2>4 DEF Elsewhere
    <3>2. ServerTypeOK'
      BY <3>1 DEF PageInv, PageTypeOK, ServerTypeOK, ServerNext, Outage, Recovery, BeginShutdown,
                  ShutdownHooks, CloseApp, Bootstrap, Connect, Disconnect
    <3> QED BY <3>1, <3>2, ElsewhereKeepsPage DEF cookies, PageInv, PageTypeOK
  <2>5. CASE UNCHANGED pageVars
    BY <2>5, ElsewhereKeepsPage DEF pageVars, cookies, PageInv, PageTypeOK, ServerTypeOK, serverVars
  <2> QED BY <2>1, <2>2, <2>3, <2>4, <2>5, InputKeepsPage DEF PageNext
<1> QED BY <1>1, <1>2, PTL DEF PageSpec

(* The page has one refresh under way at most, however many polls meet an    *)
(* expired token and whatever is in flight (app.js, the comment on api()).   *)
THEOREM OneRefreshAtATime == PageSpec => []OneRefresh
<1>1. PageInv => OneRefresh
  BY DEF PageInv, RefreshIsMarked
<1> QED BY PageInvariant, <1>1, PTL

(* The timers are those of the screen, one at most, unless the screen has    *)
(* changed under a start (app.js, show and the starts).                      *)
THEOREM PollsBelong == PageSpec => []PollsItsScreen
<1>1. PageInv => PollsItsScreen
  BY DEF PageInv
<1> QED BY PageInvariant, <1>1, PTL

-----------------------------------------------------------------------------
(* The processes at the queue.                                               *)

WorkerInv == WorkerTypeOK /\ GivenUpInTime

States == {"none", "waiting", "active", "delayed"} \union Ended

\* The types of the jobs, the types of the processes, and how the two agree.
JobsTypeOK ==
  /\ job \in [Jobs -> States] /\ holder \in [Jobs -> Procs \union {None}]
  /\ made \in [Jobs -> Nat] /\ stalls \in [Jobs -> 0..2]
  /\ \A j \in Jobs : made[j] <= Attempts[j]

ProcsTypeOK ==
  /\ stage \in [Procs -> {"off", "works", "taking", "closing", "dead"}]
  /\ connected \subseteq Procs
  /\ work \in [Procs -> 0..4]
  /\ deaths \in 0..MaxDeaths
  /\ scheduled \in BOOLEAN
  /\ ran \in Works \union {"none"}

HoldersWork ==
  \A j \in Jobs : holder[j] # None => /\ job[j] = "active"
                                      /\ stage[holder[j]] \in {"taking", "closing"}

(* The type invariant is the three of them. *)
LEMMA WorkerTypes ==
  /\ WorkerTypeOK <=> JobsTypeOK /\ ProcsTypeOK /\ HoldersWork
  /\ WorkerTypeOK' <=> JobsTypeOK' /\ ProcsTypeOK' /\ HoldersWork'
<1>1. Len(OnceWorks) = 4 /\ MaxStalled + 1 = 2
  BY DEF OnceWorks, MaxStalled
<1>2. WorkerTypeOK <=> JobsTypeOK /\ ProcsTypeOK /\ HoldersWork
  BY <1>1 DEF WorkerTypeOK, JobsTypeOK, ProcsTypeOK, HoldersWork, States
<1>3. WorkerTypeOK' <=> JobsTypeOK' /\ ProcsTypeOK' /\ HoldersWork'
  BY <1>1 DEF WorkerTypeOK, JobsTypeOK, ProcsTypeOK, HoldersWork, States
<1> QED BY <1>2, <1>3

LEMMA WorkerBegins == WorkerInit => WorkerInv
<1> SUFFICES ASSUME WorkerInit PROVE WorkerInv
  OBVIOUS
<1> USE WorkerAssumption DEF WorkerInit
<1>1. JobsTypeOK
  BY DEF JobsTypeOK, States
<1>2. ProcsTypeOK
  <2>1. scheduled \in BOOLEAN
    OBVIOUS
  <2>2. 0 \in 0..MaxDeaths
    OBVIOUS
  <2> QED BY <2>1, <2>2 DEF ProcsTypeOK
<1>3. HoldersWork
  BY DEF HoldersWork
<1>4. GivenUpInTime
  BY DEF GivenUpInTime, Spent, MaxStalled
<1> QED BY <1>1, <1>2, <1>3, <1>4, WorkerTypes DEF WorkerInv

(* What happens to a job. *)
LEMMA JobKeepsWorker ==
  ASSUME WorkerInv, NEW j \in Jobs,
         \/ Add(j) \/ DelayEnds(j) \/ Stalls(j)
         \/ \E p \in Procs : Take(p, j) \/ Completes(p, j) \/ Throws(p, j)
  PROVE  WorkerInv'
<1>1. ProcsTypeOK /\ JobsTypeOK /\ HoldersWork /\ GivenUpInTime
  BY WorkerTypes DEF WorkerInv
<1>2. UNCHANGED << stage, connected, work, deaths, scheduled, ran >>
  BY DEF Add, DelayEnds, Stalls, Take, Completes, Throws, procVars
<1>3. ProcsTypeOK'
  BY <1>1, <1>2 DEF ProcsTypeOK
<1>4. Attempts \in [Jobs -> Nat]
  BY WorkerAssumption
<1> USE DEF JobsTypeOK, States, Ended, Moves, Spent, MaxStalled
<1>5. ASSUME Add(j) \/ DelayEnds(j) PROVE JobsTypeOK' /\ HoldersWork' /\ GivenUpInTime'
  <2>1. UNCHANGED << holder, made, stalls >>
    BY <1>5 DEF Add, DelayEnds
  <2>2. PICK to \in {"waiting", "delayed"} : job[j] \in {"none", "delayed"} /\ job' = [job EXCEPT ![j] = to]
    BY <1>5 DEF Add, DelayEnds
  <2> QED BY <1>1, <1>2, <2>1, <2>2 DEF HoldersWork, GivenUpInTime
<1>6. ASSUME Stalls(j) PROVE JobsTypeOK' /\ HoldersWork' /\ GivenUpInTime'
  <2>1. /\ UNCHANGED << holder, made >> /\ stalls' = [stalls EXCEPT ![j] = stalls[j] + 1]
        /\ job[j] = "active" /\ holder[j] = None
        /\ job' = [job EXCEPT ![j] = IF stalls[j] < 1 THEN "waiting" ELSE "failed"]
    BY <1>6 DEF Stalls
  <2>2. stalls[j] \in 0..1 /\ made[j] # Attempts[j]
    BY <1>1, <2>1 DEF GivenUpInTime
  <2>3. JobsTypeOK'
    BY <1>1, <2>1, <2>2
  <2>4. GivenUpInTime'
    BY <1>1, <2>1, <2>2 DEF GivenUpInTime
  <2> QED BY <1>1, <1>2, <2>1, <2>3, <2>4 DEF HoldersWork
<1>7. ASSUME NEW p \in Procs, Take(p, j) PROVE JobsTypeOK' /\ HoldersWork' /\ GivenUpInTime'
  <2>1. /\ UNCHANGED << made, stalls >> /\ job[j] = "waiting" /\ job' = [job EXCEPT ![j] = "active"]
        /\ holder' = [holder EXCEPT ![j] = p] /\ stage[p] = "taking"
    BY <1>7 DEF Take
  <2> QED BY <1>1, <1>2, <2>1 DEF HoldersWork, GivenUpInTime
<1>8. ASSUME NEW p \in Procs, Completes(p, j) PROVE JobsTypeOK' /\ HoldersWork' /\ GivenUpInTime'
  <2>1. /\ UNCHANGED << made, stalls >> /\ job[j] = "active" /\ job' = [job EXCEPT ![j] = "completed"]
        /\ holder' = [holder EXCEPT ![j] = None]
    BY <1>8 DEF Completes
  <2> QED BY <1>1, <1>2, <2>1 DEF HoldersWork, GivenUpInTime
<1>9. ASSUME NEW p \in Procs, Throws(p, j) PROVE JobsTypeOK' /\ HoldersWork' /\ GivenUpInTime'
  <2>1. /\ UNCHANGED stalls /\ made' = [made EXCEPT ![j] = made[j] + 1]
        /\ holder' = [holder EXCEPT ![j] = None] /\ job[j] = "active"
    BY <1>9 DEF Throws
  <2>2. PICK to \in {"delayed", "failed"} :
           /\ job' = [job EXCEPT ![j] = to]
           /\ made'[j] < Attempts[j] => to = "delayed" \/ j \in Hopeless
           /\ ~(made'[j] < Attempts[j]) => to = "failed"
    BY <1>9 DEF Throws
  <2>3. made[j] # Attempts[j] /\ stalls[j] \in 0..1
    BY <1>1, <2>1 DEF GivenUpInTime
  <2>4. made[j] + 1 <= Attempts[j] /\ made'[j] = made[j] + 1
    BY <1>1, <1>4, <2>1, <2>3
  <2>5. JobsTypeOK'
    BY <1>1, <1>4, <2>1, <2>2, <2>4
  <2>6. GivenUpInTime'
    BY <1>1, <1>4, <2>1, <2>2, <2>3, <2>4 DEF GivenUpInTime
  <2> QED BY <1>1, <1>2, <2>1, <2>2, <2>5, <2>6 DEF HoldersWork
<1>10. JobsTypeOK' /\ HoldersWork' /\ GivenUpInTime'
  BY <1>5, <1>6, <1>7, <1>8, <1>9
<1> QED BY <1>3, <1>10, WorkerTypes DEF WorkerInv

(* The steps of a process that are no job's. *)
LEMMA ProcessKeepsWorker ==
  ASSUME WorkerInv, NEW p \in Procs,
         \/ \E k \in Works : RunRepeated(p, k)
         \/ StartLong(p) \/ StartTurn(p) \/ RunSafely(p) \/ TakesJobs(p)
         \/ StopTaking(p) \/ ModulesDestroyed(p) \/ Close(p) \/ Dies(p)
  PROVE  WorkerInv'
<1> USE DEF procVars, queueVars, GoesTo, Down, Connects, Disconnects
<1>1. ProcsTypeOK /\ JobsTypeOK /\ HoldersWork /\ GivenUpInTime
  BY WorkerTypes DEF WorkerInv
<1>2. Len(OnceWorks) = 4 /\ DOMAIN OnceWorks = 1..4
  BY DEF OnceWorks
<1>3. None \notin Procs /\ MaxDeaths \in Nat
  BY WorkerAssumption
<1>4. UNCHANGED << job, made, stalls >>
  BY DEF RunRepeated, StartLong, StartTurn, RunSafely, TakesJobs, StopTaking, ModulesDestroyed, Close, Dies
<1>5. GivenUpInTime'
  BY <1>1, <1>4 DEF GivenUpInTime, Spent
<1>6. JobsTypeOK' /\ HoldersWork'
  <2>1. CASE Dies(p)
    BY <1>1, <1>3, <1>4, <2>1 DEF Dies, JobsTypeOK, HoldersWork, ProcsTypeOK
  <2>2. ASSUME ~Dies(p) PROVE holder' = holder
    BY <2>2 DEF RunRepeated, StartLong, StartTurn, RunSafely, TakesJobs, StopTaking, ModulesDestroyed, Close
  <2>3. ASSUME ~Dies(p), NEW j \in Jobs, holder[j] # None PROVE stage'[holder[j]] \in {"taking", "closing"}
    <3>1. /\ holder[j] \in Procs /\ stage[holder[j]] \in {"taking", "closing"}
          /\ stage \in [Procs -> {"off", "works", "taking", "closing", "dead"}]
      BY <1>1, <2>3 DEF JobsTypeOK, HoldersWork, ProcsTypeOK
    <3>2. CASE StartLong(p) \/ StartTurn(p) \/ TakesJobs(p) \/ StopTaking(p)
      BY <3>1, <3>2 DEF StartLong, StartTurn, TakesJobs, StopTaking
    <3>3. CASE Close(p)
      BY <3>1, <3>3 DEF Close, Held
    <3>4. CASE RunSafely(p) \/ ModulesDestroyed(p) \/ \E k \in Works : RunRepeated(p, k)
      BY <3>1, <3>4 DEF RunSafely, ModulesDestroyed, RunRepeated
    <3> QED BY <2>3, <3>2, <3>3, <3>4
  <2> QED BY <1>1, <1>4, <2>1, <2>2, <2>3 DEF JobsTypeOK, HoldersWork
<1>7. ProcsTypeOK'
  <2> USE <1>1, <1>2 DEF ProcsTypeOK
  <2>1. ASSUME NEW k \in Works, RunRepeated(p, k) PROVE ProcsTypeOK'
    BY <2>1 DEF RunRepeated
  <2>2. CASE StartLong(p)
    BY <2>2 DEF StartLong
  <2>3. CASE StartTurn(p) \/ StopTaking(p) \/ ModulesDestroyed(p) \/ Close(p)
    BY <2>3 DEF StartTurn, StopTaking, ModulesDestroyed, Close
  <2>4. CASE RunSafely(p)
    <3>1. OnceWorks[work[p] + 1] \in Works
      BY <2>4 DEF RunSafely, Works
    <3> QED BY <2>4, <3>1 DEF RunSafely
  <2>5. CASE TakesJobs(p)
    BY <2>5 DEF TakesJobs
  <2>6. CASE Dies(p)
    BY <1>3, <2>6 DEF Dies
  <2> QED BY <2>1, <2>2, <2>3, <2>4, <2>5, <2>6
<1> QED BY <1>5, <1>6, <1>7, WorkerTypes DEF WorkerInv

(* The inductive invariant of the queue and its processes.                   *)
THEOREM WorkerInvariant == WorkerSpec => []WorkerInv
<1>1. WorkerInit => WorkerInv
  BY WorkerBegins
<1>2. WorkerInv /\ [WorkerNext]_workerVars => WorkerInv'
  <2> SUFFICES ASSUME WorkerInv, [WorkerNext]_workerVars PROVE WorkerInv'
    OBVIOUS
  <2>1. CASE UNCHANGED workerVars
    BY <2>1, WorkerTypes DEF workerVars, queueVars, procVars, WorkerInv, GivenUpInTime, Spent,
                             JobsTypeOK, ProcsTypeOK, HoldersWork
  <2>2. CASE WorkerNext
    BY <2>2, JobKeepsWorker, ProcessKeepsWorker DEF WorkerNext
  <2> QED BY <2>1, <2>2
<1> QED BY <1>1, <1>2, PTL DEF WorkerSpec

(* A job lies in the DLQ exactly when its tries are used up, or it threw     *)
(* what no retry can mend (QueueService.RETRY).                              *)
THEOREM JobsAreGivenUpInTime == WorkerSpec => []GivenUpInTime
<1>1. WorkerInv => GivenUpInTime
  BY DEF WorkerInv
<1> QED BY WorkerInvariant, <1>1, PTL

(* Every return of a job costs it one of its tries, and what has ended stays *)
(* so (worker-once.ts 10-16).                                                *)
THEOREM TriesRunOut == WorkerSpec => RetriesRunOut
<1> DEFINE Costs == \A j \in Jobs :
                      /\ TriesLeft(j)' <= TriesLeft(j)
                      /\ job[j] = "active" /\ job'[j] \in {"waiting", "delayed"}
                           => TriesLeft(j)' < TriesLeft(j)
                      /\ job[j] \in Ended => job'[j] = job[j]
<1>1. WorkerInv /\ [WorkerNext]_workerVars => [Costs]_workerVars
  <2> SUFFICES ASSUME WorkerInv, WorkerNext, NEW j \in Jobs
               PROVE  /\ TriesLeft(j)' <= TriesLeft(j)
                      /\ job[j] = "active" /\ job'[j] \in {"waiting", "delayed"}
                           => TriesLeft(j)' < TriesLeft(j)
                      /\ job[j] \in Ended => job'[j] = job[j]
    OBVIOUS
  <2>1. /\ Attempts[j] \in Nat /\ made[j] \in Nat /\ stalls[j] \in Nat /\ job \in [Jobs -> States]
        /\ made \in [Jobs -> Nat] /\ stalls \in [Jobs -> 0..2]
    BY WorkerAssumption, WorkerTypes DEF WorkerInv, JobsTypeOK
  <2>2. /\ \/ UNCHANGED << made, stalls >>
           \/ \E i \in Jobs : /\ job[i] = "active" /\ stalls' = stalls
                               /\ made' = [made EXCEPT ![i] = made[i] + 1]
           \/ \E i \in Jobs : /\ job[i] = "active" /\ made' = made
                               /\ stalls' = [stalls EXCEPT ![i] = stalls[i] + 1]
        /\ job[j] = "active" /\ job'[j] \in {"waiting", "delayed"}
             => made'[j] = made[j] + 1 \/ stalls'[j] = stalls[j] + 1
        /\ job[j] \in Ended => job'[j] = job[j]
    <3>1. ASSUME NEW i \in Jobs, Add(i) \/ DelayEnds(i) \/ \E p \in Procs : Take(p, i) \/ Completes(p, i)
          PROVE  /\ UNCHANGED << made, stalls >>
                 /\ job[j] = "active" => job'[j] \notin {"waiting", "delayed"}
                 /\ job[j] \in Ended => job'[j] = job[j]
      BY <2>1, <3>1 DEF Add, DelayEnds, Take, Completes, Moves, Ended
    <3>2. ASSUME NEW i \in Jobs, NEW p \in Procs, Throws(p, i)
          PROVE  /\ stalls' = stalls /\ made' = [made EXCEPT ![i] = made[i] + 1] /\ job[i] = "active"
                 /\ \A k \in Jobs : k # i => job'[k] = job[k]
      BY <2>1, <3>2 DEF Throws, Moves
    <3>3. ASSUME NEW i \in Jobs, Stalls(i)
          PROVE  /\ made' = made /\ stalls' = [stalls EXCEPT ![i] = stalls[i] + 1] /\ job[i] = "active"
                 /\ \A k \in Jobs : k # i => job'[k] = job[k]
      BY <2>1, <3>3 DEF Stalls, Moves
    <3>4. ASSUME NEW q \in Procs,
                 \/ \E k \in Works : RunRepeated(q, k)
                 \/ StartLong(q) \/ StartTurn(q) \/ RunSafely(q) \/ TakesJobs(q)
                 \/ StopTaking(q) \/ ModulesDestroyed(q) \/ Close(q) \/ Dies(q)
          PROVE  UNCHANGED << job, made, stalls >>
      BY <3>4 DEF RunRepeated, StartLong, StartTurn, RunSafely, TakesJobs, StopTaking, ModulesDestroyed, Close,
                  Dies, queueVars
    <3>5. ASSUME NEW i \in Jobs, Stalls(i) \/ \E p \in Procs : Throws(p, i)
          PROVE  /\ job[j] = "active" /\ job'[j] \in {"waiting", "delayed"}
                      => made'[j] = made[j] + 1 \/ stalls'[j] = stalls[j] + 1
                 /\ job[j] \in Ended => job'[j] = job[j]
      BY <2>1, <3>2, <3>3, <3>5 DEF Ended
    <3> QED BY <3>1, <3>2, <3>3, <3>4, <3>5 DEF WorkerNext
  <2>3. /\ made'[j] \in Nat /\ stalls'[j] \in Nat /\ made'[j] >= made[j] /\ stalls'[j] >= stalls[j]
    BY <2>1, <2>2
  <2>4. TriesLeft(j) = (Attempts[j] - made[j]) + (MaxStalled + 1 - stalls[j])
    BY DEF TriesLeft
  <2>5. TriesLeft(j)' = (Attempts[j] - made'[j]) + (MaxStalled + 1 - stalls'[j])
    BY DEF TriesLeft
  <2> QED BY <2>1, <2>2, <2>3, <2>4, <2>5 DEF MaxStalled
<1> QED BY WorkerInvariant, <1>1, PTL DEF WorkerSpec, RetriesRunOut
=============================================================================
