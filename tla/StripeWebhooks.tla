---------------------------- MODULE StripeWebhooks ----------------------------
(***************************************************************************)
(* What Stripe does with a Checkout session, and the webhook that hears of *)
(* it.  Stripe delivers an event at least once, late, and in any order: an *)
(* event stays deliverable as long as the session is in the state it       *)
(* reports.  A delivery that fails the signature check, or whose           *)
(* conditional write fails, changes nothing and is no step.                *)
(***************************************************************************)
EXTENDS OrderStore

-----------------------------------------------------------------------------
(* Stripe (external), driven by the buyer and by time *)

\* The buyer pays on the hosted page while the session lives.
SessionPaid(o) ==
  /\ session[o] = "open"
  /\ co[o] = "redirected"
  /\ age[o] < SessionTTL
  /\ session' = [session EXCEPT ![o] = "paid"]
  /\ money' = [money EXCEPT ![o] = "captured"]
  /\ UNCHANGED <<eventVars, orderVars, age, coVars, hookVars, cleanVars, refundVars,
                 doorVars, historyVars>>

\* Stripe closes the session at expires_at.
SessionExpires(o) ==
  /\ session[o] = "open"
  /\ age[o] >= SessionTTL
  /\ session' = [session EXCEPT ![o] = "expired"]
  /\ UNCHANGED <<eventVars, orderVars, age, money, coVars, hookVars, cleanVars,
                 refundVars, doorVars, historyVars>>

\* Minutes pass for a pending order.  A request lives seconds, so its
\* checkout is over; and Stripe closes a session on time.
Tick(o) ==
  /\ status[o] = "pending"
  /\ co[o] \in {"redirected", "ended"}
  /\ age[o] < CleanupGrace
  /\ session[o] = "open" => age[o] < SessionTTL
  /\ age' = [age EXCEPT ![o] = @ + 1]
  /\ UNCHANGED <<eventVars, orderVars, stripeVars, coVars, hookVars, cleanVars,
                 refundVars, doorVars, historyVars>>

-----------------------------------------------------------------------------
(* POST /webhooks/stripe: checkout.session.completed *)

\* Wrong guards, for mutation: a paid order qualifies again, an expired one not.
CanBePaidTwice(o)   == status[o] \in {"pending", "expired", "paid"}
CanBePaidPending(o) == status[o] = "pending"
\* The transition is the idempotency guard: pending or expired, to paid.
CanBePaid(o)        == status[o] \in {"pending", "expired"}

\* For mutation: the order id of the delivery is not kept.
HookEntersAnonymous(h, o, at) ==
  /\ hookAt[h] = "idle"
  /\ hookAt' = [hookAt EXCEPT ![h] = at]
  /\ UNCHANGED hookOrder
HookEnters(h, o, at) ==
  /\ hookAt[h] = "idle"
  /\ hookAt' = [hookAt EXCEPT ![h] = at]
  /\ hookOrder' = [hookOrder EXCEPT ![h] = o]

HookLeaves(h) ==
  /\ hookAt' = [hookAt EXCEPT ![h] = "idle"]
  /\ hookOrder' = [hookOrder EXCEPT ![h] = NoOrder]

\* For mutation: ALL_OLD is not looked at.
AfterPaidNoReclaim(o) == "fulfil"
\* Which write follows the transition to paid: seats given up when the order
\* expired are taken back first.
AfterPaid(o) == IF status[o] = "expired" THEN "reclaim" ELSE "fulfil"

MarkPaid(h, o) ==
  /\ session[o] = "paid"
  /\ CanBePaid(o)
  /\ HookEnters(h, o, AfterPaid(o))
  /\ SetStatus(o, "paid")
  /\ payment_intent' = [payment_intent EXCEPT ![o] = TRUE]
  /\ late' = [late EXCEPT ![o] = @ \/ status[o] = "expired"]
  /\ UNCHANGED <<eventVars, quantity, checked_in, fulfillment_error, age, stripeVars,
                 coVars, cleanVars, refundVars, doorVars, ledger, fulfilments, mailed,
                 admitted, offered, hit, crashes>>

\* Seats released too early come back, over capacity if need be.
HookReclaim(h) ==
  /\ hookAt[h] = "reclaim"
  /\ AddSeats(hookOrder[h])
  /\ hookAt' = [hookAt EXCEPT ![h] = "fulfil"]
  /\ UNCHANGED <<orderVars, age, stripeVars, coVars, hookOrder, cleanVars, refundVars,
                 doorVars, fulfilments, mailed, late, admitted, offered, hit, crashes>>

\* fulfill_order: the email leaves and the delivery is done ...
HookFulfil(h) ==
  /\ hookAt[h] = "fulfil"
  /\ HookLeaves(h)
  /\ mailed' = [mailed EXCEPT ![hookOrder[h]] = TRUE]
  /\ fulfilments' = [fulfilments EXCEPT ![hookOrder[h]] = @ + 1]
  /\ UNCHANGED <<eventVars, orderVars, age, stripeVars, coVars, cleanVars, refundVars,
                 doorVars, ledger, late, admitted, offered, hit, crashes>>

\* ... or it raises and the exception is swallowed.
HookFulfilRaises(h) ==
  /\ hookAt[h] = "fulfil"
  /\ hookAt' = [hookAt EXCEPT ![h] = "flag"]
  /\ \/ UNCHANGED mailed
     \/ LostReplies /\ mailed' = [mailed EXCEPT ![hookOrder[h]] = TRUE]
  /\ fulfilments' = [fulfilments EXCEPT ![hookOrder[h]] = @ + 1]
  /\ UNCHANGED <<eventVars, orderVars, age, stripeVars, coVars, hookOrder, cleanVars,
                 refundVars, doorVars, ledger, late, admitted, offered, hit, crashes>>

\* For mutation: the exception is swallowed and nothing is left to find.
flag_nothing(o) == UNCHANGED fulfillment_error
\* flag_fulfillment_error leaves the durable marker.
flag_fulfillment_error(o) ==
  fulfillment_error' = [fulfillment_error EXCEPT ![o] = TRUE]

HookFlag(h) ==
  /\ hookAt[h] = "flag"
  /\ flag_fulfillment_error(hookOrder[h])
  /\ HookLeaves(h)
  /\ UNCHANGED <<eventVars, status, quantity, payment_intent, checked_in, age,
                 stripeVars, coVars, cleanVars, refundVars, doorVars, historyVars>>

-----------------------------------------------------------------------------
(* checkout.session.expired *)

\* For mutation: a redelivered expiry is taken for a first one.
CanExpireAgain(o) == status[o] \in {"pending", "expired"}
CanExpire(o)      == status[o] = "pending"

MarkExpired(h, o) ==
  /\ session[o] = "expired"
  /\ CanExpire(o)
  /\ HookEnters(h, o, "release")
  /\ SetStatus(o, "expired")
  /\ UNCHANGED <<eventVars, quantity, payment_intent, checked_in, fulfillment_error,
                 age, stripeVars, coVars, cleanVars, refundVars, doorVars, historyVars>>

HookRelease(h) ==
  /\ hookAt[h] = "release"
  /\ _release_capacity(hookOrder[h])
  /\ HookLeaves(h)
  /\ UNCHANGED <<orderVars, age, stripeVars, coVars, cleanVars, refundVars, doorVars,
                 fulfilments, mailed, late, admitted, offered, hit, crashes>>

\* The invocation dies, or its next write raises.  Stripe redelivers, and
\* the redelivery finds the transition already made.
HookLost(h) ==
  /\ hookAt[h] # "idle"
  /\ HookLeaves(h)
  /\ Lose(hookOrder[h])
  /\ UNCHANGED <<eventVars, orderVars, age, stripeVars, coVars, cleanVars, refundVars,
                 doorVars, ledger, fulfilments, mailed, late, admitted, offered>>

-----------------------------------------------------------------------------
StripeNext(o) == SessionPaid(o) \/ SessionExpires(o) \/ Tick(o)

HookNext(h) ==
  \/ \E o \in Orders : MarkPaid(h, o) \/ MarkExpired(h, o)
  \/ HookReclaim(h) \/ HookFulfil(h) \/ HookFulfilRaises(h) \/ HookFlag(h)
  \/ HookRelease(h) \/ HookLost(h)
=============================================================================
