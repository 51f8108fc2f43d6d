------------------------------- MODULE Checkout -------------------------------
(***************************************************************************)
(* The two requests that create an order: the public checkout (POST        *)
(* /checkout) and the admin's give-tickets form.  Each action is one call  *)
(* of the handler to DynamoDB, Stripe or SMTP.                             *)
(***************************************************************************)
EXTENDS OrderStore

\* A step of order o's own request.
CoStep(o, from, to) ==
  /\ co[o] = from
  /\ co' = [co EXCEPT ![o] = to]

-----------------------------------------------------------------------------
(* POST /checkout *)

\* pricing.validate_quantity against the seats that looked free.
validate_quantity(q, remaining) == q >= 1 /\ q <= MaxTickets /\ q <= remaining

\* The handler reads the event once; quantity and capacity below are those
\* of this read.  An invalid quantity re-renders the form: nothing happens.
CheckoutRead(o) ==
  /\ o \notin CompOrders
  /\ CoStep(o, "idle", "read")
  /\ \E q \in 1..MaxTickets :
       /\ validate_quantity(q, capacity - tickets_sold_count)
       /\ quantity' = [quantity EXCEPT ![o] = q]
  /\ seen' = [seen EXCEPT ![o] = capacity]
  /\ UNCHANGED <<eventVars, status, payment_intent, checked_in, fulfillment_error,
                 age, stripeVars, hookVars, cleanVars, refundVars, doorVars,
                 historyVars>>

\* A wrong condition, for mutation: the seats asked for are forgotten.
SeatsLeftForgetful(o) == tickets_sold_count < seen[o] /\ registration_open
\* _reserve_capacity's condition: the limit comes from the earlier read.
SeatsLeft(o) == tickets_sold_count <= seen[o] - quantity[o] /\ registration_open

CheckoutReserve(o) ==
  /\ SeatsLeft(o)
  /\ CoStep(o, "read", "reserved")
  /\ AddSeats(o)
  /\ UNCHANGED <<orderVars, age, stripeVars, seen, hookVars, cleanVars, refundVars,
                 doorVars, fulfilments, mailed, late, admitted, offered, hit, crashes>>

\* "those tickets were just claimed": the form again, and no order exists.
CheckoutTooLate(o) ==
  /\ ~SeatsLeft(o)
  /\ CoStep(o, "read", "idle")
  /\ quantity' = [quantity EXCEPT ![o] = 0]
  /\ seen' = [seen EXCEPT ![o] = 0]
  /\ UNCHANGED <<eventVars, status, payment_intent, checked_in, fulfillment_error,
                 age, stripeVars, hookVars, cleanVars, refundVars, doorVars,
                 historyVars>>

CheckoutPutOrder(o) ==
  /\ o \notin CompOrders
  /\ CoStep(o, "reserved", "placed")
  /\ SetStatus(o, "pending")
  /\ UNCHANGED <<eventVars, quantity, payment_intent, checked_in, fulfillment_error,
                 age, stripeVars, seen, hookVars, cleanVars, refundVars, doorVars,
                 historyVars>>

\* stripe.checkout.Session.create returns a session that lives SessionTTL.
CheckoutCreateSession(o) ==
  /\ CoStep(o, "placed", "opened")
  /\ session' = [session EXCEPT ![o] = "open"]
  /\ UNCHANGED <<eventVars, orderVars, age, money, seen, hookVars, cleanVars,
                 refundVars, doorVars, historyVars>>

\* Session.create raises.  With a lost reply Stripe holds the session anyway;
\* nobody is ever sent its URL.
CheckoutSessionRaises(o) ==
  /\ CoStep(o, "placed", "failed")
  /\ \/ UNCHANGED session
     \/ LostReplies /\ session' = [session EXCEPT ![o] = "open"]
  /\ UNCHANGED <<eventVars, orderVars, age, money, seen, hookVars, cleanVars,
                 refundVars, doorVars, historyVars>>

\* The except branch gives the seats back first ...
CheckoutRollback(o) ==
  /\ CoStep(o, "failed", "released")
  /\ _release_capacity(o)
  /\ UNCHANGED <<orderVars, age, stripeVars, seen, hookVars, cleanVars, refundVars,
                 doorVars, fulfilments, mailed, late, admitted, offered, hit, crashes>>

\* ... and only then marks the order, without a condition.
CheckoutCancel(o) ==
  /\ CoStep(o, "released", "ended")
  /\ SetStatus(o, "canceled")
  /\ UNCHANGED <<eventVars, quantity, payment_intent, checked_in, fulfillment_error,
                 age, stripeVars, seen, hookVars, cleanVars, refundVars, doorVars,
                 historyVars>>

\* The session id is stored and the buyer is sent to Stripe's page.
CheckoutRedirect(o) ==
  /\ CoStep(o, "opened", "redirected")
  /\ UNCHANGED <<eventVars, orderVars, age, stripeVars, seen, hookVars, cleanVars,
                 refundVars, doorVars, historyVars>>

\* The 15 s Lambda timeout, or a DynamoDB error that escapes the handler.
CheckoutLost(o) ==
  /\ co[o] \in {"reserved", "placed", "failed", "released", "opened", "fulfil", "flag"}
  /\ co' = [co EXCEPT ![o] = "ended"]
  /\ Lose(o)
  /\ UNCHANGED <<eventVars, orderVars, age, stripeVars, seen, hookVars, cleanVars,
                 refundVars, doorVars, ledger, fulfilments, mailed, late, admitted,
                 offered>>

-----------------------------------------------------------------------------
(* POST /admin/give-tickets *)

\* Comps check neither capacity nor registration_open.
GiveReserve(o) ==
  /\ o \in CompOrders
  /\ CoStep(o, "idle", "reserved")
  /\ \E q \in 1..MaxTickets :
       /\ quantity' = [quantity EXCEPT ![o] = q]
       /\ tickets_sold_count' = tickets_sold_count + q
  /\ ledger' = [ledger EXCEPT ![o] = @ + 1]
  /\ UNCHANGED <<capacity, registration_open, status, payment_intent, checked_in,
                 fulfillment_error, age, stripeVars, seen, hookVars, cleanVars,
                 refundVars, doorVars, fulfilments, mailed, late, admitted, offered,
                 hit, crashes>>

GivePutOrder(o) ==
  /\ o \in CompOrders
  /\ CoStep(o, "reserved", "fulfil")
  /\ SetStatus(o, "paid")
  /\ UNCHANGED <<eventVars, quantity, payment_intent, checked_in, fulfillment_error,
                 age, stripeVars, seen, hookVars, cleanVars, refundVars, doorVars,
                 historyVars>>

\* fulfill_order sends the email ...
GiveFulfil(o) ==
  /\ CoStep(o, "fulfil", "ended")
  /\ mailed' = [mailed EXCEPT ![o] = TRUE]
  /\ fulfilments' = [fulfilments EXCEPT ![o] = @ + 1]
  /\ UNCHANGED <<eventVars, orderVars, age, stripeVars, seen, hookVars, cleanVars,
                 refundVars, doorVars, ledger, late, admitted, offered, hit, crashes>>

\* ... or raises (with a lost reply, after SMTP already took the message).
GiveFulfilRaises(o) ==
  /\ CoStep(o, "fulfil", "flag")
  /\ \/ UNCHANGED mailed
     \/ LostReplies /\ mailed' = [mailed EXCEPT ![o] = TRUE]
  /\ fulfilments' = [fulfilments EXCEPT ![o] = @ + 1]
  /\ UNCHANGED <<eventVars, orderVars, age, stripeVars, seen, hookVars, cleanVars,
                 refundVars, doorVars, ledger, late, admitted, offered, hit, crashes>>

GiveFlag(o) ==
  /\ CoStep(o, "flag", "ended")
  /\ fulfillment_error' = [fulfillment_error EXCEPT ![o] = TRUE]
  /\ UNCHANGED <<eventVars, status, quantity, payment_intent, checked_in, age,
                 stripeVars, seen, hookVars, cleanVars, refundVars, doorVars,
                 historyVars>>

-----------------------------------------------------------------------------
CheckoutNext(o) ==
  \/ CheckoutRead(o) \/ CheckoutReserve(o) \/ CheckoutTooLate(o)
  \/ CheckoutPutOrder(o) \/ CheckoutCreateSession(o) \/ CheckoutSessionRaises(o)
  \/ CheckoutRollback(o) \/ CheckoutCancel(o) \/ CheckoutRedirect(o)
  \/ CheckoutLost(o)
  \/ GiveReserve(o) \/ GivePutOrder(o) \/ GiveFulfil(o)
  \/ GiveFulfilRaises(o) \/ GiveFlag(o)
=============================================================================
