-------------------------------- MODULE Refunds --------------------------------
(***************************************************************************)
(* POST /admin/orders/{order_id}/refund: read the order, claim the refund  *)
(* with a conditional write, call Stripe, then either put the order back   *)
(* or give its seats back.                                                 *)
(***************************************************************************)
EXTENDS OrderStore

RefundEnters(r, o) ==
  /\ refAt[r] = "idle"
  /\ refAt' = [refAt EXCEPT ![r] = "claim"]
  /\ refOrder' = [refOrder EXCEPT ![r] = o]

RefundLeaves(r) ==
  /\ refAt' = [refAt EXCEPT ![r] = "idle"]
  /\ refOrder' = [refOrder EXCEPT ![r] = NoOrder]
  /\ refIntent' = [refIntent EXCEPT ![r] = FALSE]

RefundGoes(r, at) ==
  /\ refAt' = [refAt EXCEPT ![r] = at]
  /\ UNCHANGED <<refOrder, refIntent>>

\* The payment intent that goes to Stripe later is the one read here.
RefundRead(r, o) ==
  /\ status[o] # "none"
  /\ RefundEnters(r, o)
  /\ refIntent' = [refIntent EXCEPT ![r] = payment_intent[o]]
  /\ UNCHANGED <<eventVars, orderVars, age, stripeVars, coVars, hookVars, cleanVars,
                 doorVars, historyVars>>

\* For mutation: the second click of a double-click wins too.
CanRefundTwice(o) == status[o] \in {"paid", "refunded"}
\* Whoever wins this conditional write is the only one to call Stripe.
CanRefund(o) == status[o] = "paid"

\* A comped order has no payment behind it: straight to the seats.
RefundClaim(r) ==
  LET o == refOrder[r] IN
  /\ refAt[r] = "claim"
  /\ CanRefund(o)
  /\ SetStatus(o, "refunded")
  /\ RefundGoes(r, IF o \in CompOrders THEN "release" ELSE "stripe")
  /\ UNCHANGED <<eventVars, quantity, payment_intent, checked_in, fulfillment_error,
                 age, stripeVars, coVars, hookVars, cleanVars, doorVars, historyVars>>

RefundDenied(r) ==
  /\ refAt[r] = "claim"
  /\ ~CanRefund(refOrder[r])
  /\ RefundLeaves(r)
  /\ UNCHANGED <<eventVars, orderVars, age, stripeVars, coVars, hookVars, cleanVars,
                 doorVars, historyVars>>

\* Stripe can return money only for an intent it is told of, and once.
Refundable(r) == refIntent[r] /\ money[refOrder[r]] = "captured"

RefundStripe(r) ==
  /\ refAt[r] = "stripe"
  /\ Refundable(r)
  /\ money' = [money EXCEPT ![refOrder[r]] = "returned"]
  /\ RefundGoes(r, "release")
  /\ UNCHANGED <<eventVars, orderVars, age, session, coVars, hookVars, cleanVars,
                 doorVars, historyVars>>

\* Refund.create raises; with a lost reply the money went back all the same.
RefundStripeRaises(r) ==
  /\ refAt[r] = "stripe"
  /\ RefundGoes(r, "restore")
  /\ \/ UNCHANGED money
     \/ /\ LostReplies
        /\ Refundable(r)
        /\ money' = [money EXCEPT ![refOrder[r]] = "returned"]
  /\ UNCHANGED <<eventVars, orderVars, age, session, coVars, hookVars, cleanVars,
                 doorVars, historyVars>>

\* For mutation: Stripe's error is reported and the order left refunded.
RefundRestoreForgotten(r) ==
  /\ refAt[r] = "restore"
  /\ RefundLeaves(r)
  /\ UNCHANGED <<eventVars, orderVars, age, stripeVars, coVars, hookVars, cleanVars,
                 doorVars, historyVars>>

\* The order is put back to paid, without a condition, so the admin can retry.
RefundRestore(r) ==
  /\ refAt[r] = "restore"
  /\ SetStatus(refOrder[r], "paid")
  /\ RefundLeaves(r)
  /\ UNCHANGED <<eventVars, quantity, payment_intent, checked_in, fulfillment_error,
                 age, stripeVars, coVars, hookVars, cleanVars, doorVars, historyVars>>

RefundRelease(r) ==
  /\ refAt[r] = "release"
  /\ _release_capacity(refOrder[r])
  /\ RefundLeaves(r)
  /\ UNCHANGED <<orderVars, age, stripeVars, coVars, hookVars, cleanVars, doorVars,
                 fulfilments, mailed, late, admitted, offered, hit, crashes>>

RefundLost(r) ==
  /\ refAt[r] \in {"stripe", "restore", "release"}
  /\ RefundLeaves(r)
  /\ Lose(refOrder[r])
  /\ UNCHANGED <<eventVars, orderVars, age, stripeVars, coVars, hookVars, cleanVars,
                 doorVars, ledger, fulfilments, mailed, late, admitted, offered>>

RefundNext(r) ==
  \/ \E o \in Orders : RefundRead(r, o)
  \/ RefundClaim(r) \/ RefundDenied(r) \/ RefundStripe(r) \/ RefundStripeRaises(r)
  \/ RefundRestore(r) \/ RefundRelease(r) \/ RefundLost(r)
=============================================================================
