----------------------------- MODULE Registration -----------------------------
(***************************************************************************)
(* Ticket registration for one event: the checkout, give-tickets, webhook, *)
(* cleanup, refund and check-in handlers over the state they share, with   *)
(* the admin editing the event beneath them.                               *)
(***************************************************************************)
EXTENDS Checkout, StripeWebhooks, Cleanup, Refunds, CheckIn, Sums

-----------------------------------------------------------------------------
(* The admin's edits of the event *)

\* Open and Close on the events page.
SetEventOpen ==
  /\ registration_open' = ~registration_open
  /\ UNCHANGED <<capacity, tickets_sold_count, orderVars, age, stripeVars, coVars,
                 hookVars, cleanVars, refundVars, doorVars, historyVars>>

\* The details form writes the capacity, which may not be negative here (a new
\* event's may); tickets_sold_count is not consulted.
UpdateCapacity ==
  /\ \E c \in Capacities \ {capacity} :
       /\ c >= 0
       /\ capacity' = c
       /\ offered' = IF c > offered THEN c ELSE offered
  /\ UNCHANGED <<tickets_sold_count, registration_open, orderVars, age, stripeVars,
                 coVars, hookVars, cleanVars, refundVars, doorVars, ledger,
                 fulfilments, mailed, late, admitted, hit, crashes>>

-----------------------------------------------------------------------------
(* Specification *)

\* A new event: nothing sold, registration closed.
Init ==
  /\ capacity \in Capacities
  /\ tickets_sold_count = 0
  /\ registration_open = FALSE
  /\ status = [o \in Orders |-> "none"]
  /\ quantity = [o \in Orders |-> 0]
  /\ payment_intent = [o \in Orders |-> FALSE]
  /\ checked_in = [o \in Orders |-> FALSE]
  /\ fulfillment_error = [o \in Orders |-> FALSE]
  /\ age = [o \in Orders |-> 0]
  /\ session = [o \in Orders |-> "none"]
  /\ money = [o \in Orders |-> "none"]
  /\ co = [o \in Orders |-> "idle"]
  /\ seen = [o \in Orders |-> 0]
  /\ hookAt = [h \in Hooks |-> "idle"]
  /\ hookOrder = [h \in Hooks |-> NoOrder]
  /\ cleanAt = "idle"
  /\ cleanOrder = NoOrder
  /\ batch = {}
  /\ refAt = [r \in Refunders |-> "idle"]
  /\ refOrder = [r \in Refunders |-> NoOrder]
  /\ refIntent = [r \in Refunders |-> FALSE]
  /\ doorAt = [d \in Doors |-> "idle"]
  /\ doorOrder = [d \in Doors |-> NoOrder]
  /\ ledger = [o \in Orders |-> 0]
  /\ fulfilments = [o \in Orders |-> 0]
  /\ mailed = [o \in Orders |-> FALSE]
  /\ late = [o \in Orders |-> FALSE]
  /\ admitted = [o \in Orders |-> 0]
  /\ offered = capacity
  /\ hit = [o \in Orders |-> FALSE]
  /\ crashes = 0

Next ==
  \/ SetEventOpen
  \/ UpdateCapacity
  \/ \E o \in Orders : CheckoutNext(o) \/ StripeNext(o)
  \/ \E h \in Hooks : HookNext(h)
  \/ CleanupNext
  \/ \E r \in Refunders : RefundNext(r)
  \/ \E d \in Doors : DoorNext(d)

Spec == Init /\ [][Next]_vars

-----------------------------------------------------------------------------
(* Safety *)

InProgress(o, steps) == \E h \in Hooks : hookOrder[h] = o /\ hookAt[h] \in steps

\* Once no invocation is part way through an order, its seats are counted in
\* tickets_sold_count exactly once if it is pending or paid and not at all
\* otherwise: however the checkout's rollback, both expiry paths, late
\* payments and refunds interleave, nothing is released twice or leaked.
SettledLedger ==
  \A o \in Orders :
    Quiet(o) /\ ~hit[o] => ledger[o] = IF HoldsSeats(o) THEN 1 ELSE 0

\* The seats of some orders.
Seats(S) == Cardinality(Units(S, quantity))

\* With every order settled, tickets_sold_count is the number of seats of
\* the pending and paid orders.
SeatsMatchOrders ==
  (\A o \in Orders : Quiet(o) /\ ~hit[o])
    => tickets_sold_count = Seats({o \in Orders : HoldsSeats(o)})

\* Seats of ordinary paid orders never exceed the largest capacity offered:
\* only comps and payments that arrive after expiry may oversell, as long as
\* no invocation is lost and nobody refunds a late payment.  (Its refund may
\* take its seats off the count before the webhook has put them back.)
OrdinarySeatsFit ==
  (\A o \in Orders : ~hit[o] /\ ~(late[o] /\ status[o] = "refunded"))
    => LET sold == {o \in Orders \ CompOrders : status[o] = "paid" /\ ~late[o]}
       IN  sold = {} \/ Seats(sold) <= offered

\* Every order that was paid has been mailed, is flagged for the admin, or
\* is being fulfilled right now, unless an invocation died on it.
PaidIsAnswered ==
  \A o \in Orders :
    status[o] \in {"paid", "refunded"} /\ ~hit[o] =>
      \/ mailed[o]
      \/ fulfillment_error[o]
      \/ co[o] \in {"fulfil", "flag"}
      \/ InProgress(o, {"reclaim", "fulfil", "flag"})

\* Duplicate, late and reordered deliveries, and a refund that is undone,
\* never fulfil an order a second time.
FulfilledOnce == \A o \in Orders : fulfilments[o] <= 1

\* An order that was given up (by the cleanup, the webhook or the checkout's
\* rollback) is not on a payment page that still takes the buyer's money.
GivenUpIsUnpayable ==
  \A o \in Orders :
    status[o] \in {"expired", "canceled"} => session[o] # "open" \/ co[o] # "redirected"

\* A buyer's payment is never turned away: as long as the order of a captured
\* payment is not settled, the webhook's transition to paid can still take it,
\* though the cleanup, an expiry and the checkout's own rollback give orders up.
PaymentFindsItsOrder ==
  \A o \in Orders :
    money[o] = "captured" => status[o] \in {"paid", "refunded"} \/ CanBePaid(o)

\* Between the claim and its outcome at most one invocation refunds an order.
OneRefundAtATime ==
  \A r, s \in Refunders :
    /\ refAt[r] \notin {"idle", "claim"}
    /\ refAt[s] \notin {"idle", "claim"}
    /\ refOrder[r] = refOrder[s]
    => r = s

\* With no refund under way, a ticket order is void exactly if its money is back.
RefundedIsReturned ==
  \A o \in Orders \ CompOrders :
    Quiet(o) /\ ~hit[o] => (status[o] = "refunded" <=> money[o] = "returned")

\* One party, two doors: one "checked_in" answer.
AdmittedOnce == \A o \in Orders : admitted[o] <= 1

\* An order is checked in only while it is paid.
AdmittedWhilePaid ==
  [][\A o \in Orders : admitted'[o] > admitted[o] => status[o] = "paid"]_vars

\* Seats an order no longer pays for come back to the event.
UnclaimedSeatsReturn ==
  \A o \in Orders : Quiet(o) /\ ~HoldsSeats(o) => ledger[o] <= 0

\* No order's seats are taken off tickets_sold_count more often than they
\* were added.
NeverReleasedTwice == \A o \in Orders : Quiet(o) => ledger[o] >= 0

\* The handlers implement the box office.
Stage(s) ==
  CASE s = "none" -> "none"
    [] s = "pending" -> "held"
    [] s \in {"expired", "canceled"} -> "lapsed"
    [] s = "paid" -> "sold"
    [] s = "refunded" -> "void"

Box == INSTANCE BoxOffice WITH
         Comps <- CompOrders,
         stage <- [o \in Orders |-> Stage(status[o])]

ImplementsBoxOffice == Box!BoxSpec

\* A paid order is a comp or has its buyer's money; money that went back
\* leaves its order refunded, in every state and not only at rest.
TicketsPaidFor == Box!TicketsArePaidFor

-----------------------------------------------------------------------------
(* Liveness *)

\* A request that started runs on, Stripe closes sessions and redelivers
\* events, time passes, and the cleanup is scheduled for ever.  Buyers and
\* admins owe nothing.
Fairness ==
  /\ \A o \in Orders :
       /\ WF_vars(CheckoutReserve(o) \/ CheckoutTooLate(o) \/ CheckoutPutOrder(o))
       /\ WF_vars(CheckoutCreateSession(o) \/ CheckoutSessionRaises(o))
       /\ WF_vars(CheckoutRollback(o) \/ CheckoutCancel(o) \/ CheckoutRedirect(o))
       /\ WF_vars(GivePutOrder(o) \/ GiveFulfil(o) \/ GiveFulfilRaises(o) \/ GiveFlag(o))
       /\ WF_vars(SessionExpires(o) \/ Tick(o))
       /\ SF_vars(\E h \in Hooks : MarkPaid(h, o))
  /\ \A h \in Hooks :
       WF_vars(HookReclaim(h) \/ HookFulfil(h) \/ HookFulfilRaises(h) \/ HookFlag(h)
               \/ HookRelease(h))
  /\ WF_vars(CleanupScan \/ (\E o \in Orders : CleanupExpire(o) \/ CleanupSkip(o))
             \/ CleanupRelease)

FairSpec == Spec /\ Fairness

\* A pending order does not stay pending: paid, expired or canceled.
PendingEnds == \A o \in Orders : status[o] = "pending" ~> status[o] # "pending"

\* Captured money always becomes tickets, even if the order had expired.
PaymentHonoured ==
  \A o \in Orders : money[o] = "captured" ~> status[o] \in {"paid", "refunded"}

\* An expired order's seats come back, unless its payment arrives after all.
ExpiredSeatsReturn ==
  \A o \in Orders : status[o] = "expired" ~> (ledger[o] = 0 \/ late[o])
=============================================================================
