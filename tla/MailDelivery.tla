---------------------------- MODULE MailDelivery ----------------------------
(***************************************************************************)
(* What a buyer is promised about the mail that confirms an order,         *)
(* whatever relays, jobs, marks, sweeps and crashes there are: it is asked *)
(* for after the order is there, it goes out after it was asked for, and   *)
(* it goes out once.  It need not go out: a mail can be given up.          *)
(***************************************************************************)
EXTENDS Naturals

CONSTANT Orders

VARIABLES
  placed, \* orders that committed with their event
  asked,  \* those whose mail was asked for
  sent    \* sent[o]: how many mails o's buyer got

deliveryVars == << placed, asked, sent >>

DeliveryInit ==
  /\ placed = {}
  /\ asked = {}
  /\ sent = [o \in Orders |-> 0]

Place(o) ==
  /\ o \notin placed
  /\ placed' = placed \union {o}
  /\ UNCHANGED << asked, sent >>

Ask(o) ==
  /\ o \in placed \ asked
  /\ asked' = asked \union {o}
  /\ UNCHANGED << placed, sent >>

Mail(o) ==
  /\ o \in asked /\ sent[o] = 0
  /\ sent' = [sent EXCEPT ![o] = 1]
  /\ UNCHANGED << placed, asked >>

DeliveryNext == \E o \in Orders : Place(o) \/ Ask(o) \/ Mail(o)

DeliverySpec == DeliveryInit /\ [][DeliveryNext]_deliveryVars

=============================================================================
