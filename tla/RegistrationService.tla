-------------------------- MODULE RegistrationService --------------------------
(***************************************************************************)
(* What a buyer gets: an answer for every payment, one admission, and the  *)
(* money back with a refund; and what the event gets: a count that is the  *)
(* sum of its orders, and no more of them than it has room for.  Each is   *)
(* proved for every set of orders and invocations from the invariants of   *)
(* the orders' lives.                                                      *)
(***************************************************************************)
EXTENDS RegistrationRefinement, SumTheorems

-----------------------------------------------------------------------------
(* Answers *)

\* The request that puts a comp still has its fulfilment ahead.
LEMMA CheckoutAnswers ==
  ASSUME IInv, PaidIsAnswered, NEW p \in Orders, CheckoutNext(p)
  PROVE  PaidIsAnswered'
<1> USE DEF IInv, TypeOK, OrderTypeOK, HandlerTypeOK, HistoryTypeOK, Status, CheckoutStep,
        LifeInv, RequestInv, PaidIsAnswered, InProgress, CoStep, SetStatus, Lose,
        orderVars, coVars, hookVars, historyVars
<1>1. CASE CheckoutPutOrder(p) \/ CheckoutCancel(p) \/ GivePutOrder(p)
  BY <1>1 DEF CheckoutPutOrder, CheckoutCancel, GivePutOrder
<1>2. CASE CheckoutLost(p)
  BY <1>2 DEF CheckoutLost
<1>3. CASE GiveFulfil(p)
  BY <1>3 DEF GiveFulfil
<1>4. CASE GiveFulfilRaises(p)
  <2>1. CASE mailed' = mailed
    BY <1>4, <2>1 DEF GiveFulfilRaises
  <2>2. CASE mailed' = [mailed EXCEPT ![p] = TRUE]
    BY <1>4, <2>2 DEF GiveFulfilRaises
  <2> QED
    BY <1>4, <2>1, <2>2 DEF GiveFulfilRaises
<1>5. CASE GiveFlag(p)
  BY <1>5 DEF GiveFlag
<1>6. CASE CheckoutRead(p) \/ CheckoutReserve(p) \/ CheckoutTooLate(p)
  BY <1>6 DEF CheckoutRead, CheckoutReserve, CheckoutTooLate
<1>7. CASE CheckoutCreateSession(p) \/ CheckoutSessionRaises(p) \/ CheckoutRollback(p)
  BY <1>7 DEF CheckoutCreateSession, CheckoutSessionRaises, CheckoutRollback
<1>8. CASE CheckoutRedirect(p) \/ GiveReserve(p)
  BY <1>8 DEF CheckoutRedirect, GiveReserve
<1> QED
  BY <1>1, <1>2, <1>3, <1>4, <1>5, <1>6, <1>7, <1>8 DEF CheckoutNext

\* A delivery that marks an order paid mails it or flags it before it leaves.
LEMMA HookAnswers ==
  ASSUME IInv, PaidIsAnswered, NEW g \in Hooks, HookNext(g)
  PROVE  PaidIsAnswered'
<1> USE OrdersAssumption
    DEF IInv, TypeOK, OrderTypeOK, HandlerTypeOK, HistoryTypeOK, Status, HookStep,
        PaidIsAnswered, InProgress, HookEnters, HookLeaves, SetStatus, Lose,
        orderVars, coVars, hookVars, historyVars
<1>1. ASSUME NEW p \in Orders, MarkPaid(g, p) PROVE PaidIsAnswered'
  BY <1>1 DEF MarkPaid, CanBePaid, AfterPaid
<1>2. ASSUME NEW p \in Orders, MarkExpired(g, p) PROVE PaidIsAnswered'
  BY <1>2 DEF MarkExpired, CanExpire
<1>3. CASE HookReclaim(g)
  BY <1>3 DEF HookReclaim
<1>4. CASE HookFulfil(g)
  BY <1>4 DEF HookFulfil
<1>5. CASE HookFulfilRaises(g)
  <2>1. CASE mailed' = mailed
    BY <1>5, <2>1 DEF HookFulfilRaises
  <2>2. CASE mailed' = [mailed EXCEPT ![hookOrder[g]] = TRUE]
    BY <1>5, <2>2 DEF HookFulfilRaises
  <2> QED
    BY <1>5, <2>1, <2>2 DEF HookFulfilRaises
<1>6. CASE HookFlag(g)
  BY <1>6 DEF HookFlag, flag_fulfillment_error
<1>7. CASE HookRelease(g)
  BY <1>7 DEF HookRelease, LifeInv
<1>8. CASE HookLost(g)
  BY <1>8 DEF HookLost
<1> QED
  BY <1>1, <1>2, <1>3, <1>4, <1>5, <1>6, <1>7, <1>8 DEF HookNext

\* A refund puts back only orders that were paid, and answered, before.
LEMMA RefundAnswers ==
  ASSUME IInv, PaidIsAnswered, NEW q \in Refunders, RefundNext(q)
  PROVE  PaidIsAnswered'
<1> USE DEF IInv, TypeOK, OrderTypeOK, HandlerTypeOK, HistoryTypeOK, Status, LifeInv,
        RefundInv, Claimed, PaidIsAnswered, InProgress, SetStatus, Lose, orderVars,
        coVars, hookVars, historyVars
<1>1. CASE RefundClaim(q) \/ RefundRestore(q)
  BY <1>1 DEF RefundClaim, RefundRestore, CanRefund
<1>2. CASE RefundLost(q)
  BY <1>2 DEF RefundLost
<1>3. ASSUME NEW p \in Orders, RefundRead(q, p) PROVE PaidIsAnswered'
  BY <1>3 DEF RefundRead
<1>4. CASE RefundDenied(q) \/ RefundStripe(q) \/ RefundStripeRaises(q) \/ RefundRelease(q)
  BY <1>4 DEF RefundDenied, RefundStripe, RefundStripeRaises, RefundRelease
<1> QED
  BY <1>1, <1>2, <1>3, <1>4 DEF RefundNext

\* Nobody else makes an order paid or takes its answer away.
LEMMA OtherAnswers ==
  ASSUME IInv, PaidIsAnswered,
         \/ CleanupNext
         \/ \E p \in Orders : StripeNext(p)
         \/ \E d \in Doors : DoorNext(d)
         \/ SetEventOpen \/ UpdateCapacity \/ UNCHANGED vars
  PROVE  PaidIsAnswered'
<1> USE DEF IInv, TypeOK, OrderTypeOK, HistoryTypeOK, Status, PaidIsAnswered, InProgress,
        SetStatus, Lose, orderVars, coVars, hookVars, historyVars
<1>1. ASSUME NEW p \in Orders, CleanupExpire(p) PROVE PaidIsAnswered'
  BY <1>1 DEF CleanupExpire, StillPending
<1>2. CASE CleanupLost
  BY <1>2 DEF CleanupLost
<1>3. ASSUME NEW p \in Orders, CleanupSkip(p) PROVE PaidIsAnswered'
  BY <1>3 DEF CleanupSkip
<1>4. CASE CleanupScan \/ CleanupRelease
  BY <1>4 DEF CleanupScan, CleanupRelease
<1>5. ASSUME NEW p \in Orders, StripeNext(p) PROVE PaidIsAnswered'
  BY <1>5 DEF StripeNext, SessionPaid, SessionExpires, Tick
<1>6. ASSUME NEW d \in Doors, DoorNext(d) PROVE PaidIsAnswered'
  BY <1>6 DEF DoorNext, DoorRead, DoorCommit, DoorTooLate
<1>7. CASE SetEventOpen \/ UpdateCapacity \/ UNCHANGED vars
  BY <1>7 DEF SetEventOpen, UpdateCapacity, vars
<1> QED
  BY <1>1, <1>2, <1>3, <1>4, <1>5, <1>6, <1>7 DEF CleanupNext

\* Every paid order is mailed, or flagged for the admin, or its fulfilment is
\* on its way, unless an invocation was lost on it.
THEOREM PaymentsAnswered == Spec => []PaidIsAnswered
<1>1. Init => PaidIsAnswered
  BY DEF Init, PaidIsAnswered
<1>2. ASSUME IInv, PaidIsAnswered, [Next]_vars PROVE PaidIsAnswered'
  BY <1>2, CheckoutAnswers, HookAnswers, RefundAnswers, OtherAnswers DEF Next
<1> QED
  BY Inductive, <1>1, <1>2, PTL DEF Spec

-----------------------------------------------------------------------------
(* Payments *)

\* Whoever paid was redirected, so the request is past its rollback; from then
\* on nobody cancels the order.
Payable(o) == co[o] = "redirected" /\ status[o] \in {"pending", "expired", "paid", "refunded"}
PayableInv ==
  \A o \in Orders : /\ session[o] = "paid" => Payable(o)
                    /\ money[o] = "captured" => session[o] = "paid"

\* A request still at work is not redirected, so it touches no paid session.
LEMMA CheckoutPayable ==
  ASSUME IInv, PayableInv, NEW p \in Orders, CheckoutNext(p)
  PROVE  PayableInv'
<1> USE DEF IInv, TypeOK, OrderTypeOK, StripeTypeOK, HandlerTypeOK, PayableInv, Payable,
        CoStep, SetStatus, stripeVars, orderVars
<1>1. co[p] # "redirected" /\ session[p] # "paid" /\ money[p] # "captured"
  <2>1. co[p] # "redirected"
    <3>1. CASE CheckoutRead(p) \/ CheckoutReserve(p) \/ CheckoutTooLate(p)
      BY <3>1 DEF CheckoutRead, CheckoutReserve, CheckoutTooLate
    <3>2. CASE CheckoutPutOrder(p) \/ CheckoutCancel(p) \/ GivePutOrder(p)
      BY <3>2 DEF CheckoutPutOrder, CheckoutCancel, GivePutOrder
    <3>3. CASE CheckoutCreateSession(p) \/ CheckoutSessionRaises(p)
      BY <3>3 DEF CheckoutCreateSession, CheckoutSessionRaises
    <3>4. CASE CheckoutRollback(p) \/ CheckoutRedirect(p) \/ CheckoutLost(p) \/ GiveReserve(p)
      BY <3>4 DEF CheckoutRollback, CheckoutRedirect, CheckoutLost, GiveReserve
    <3>5. CASE GiveFulfil(p) \/ GiveFulfilRaises(p) \/ GiveFlag(p)
      BY <3>5 DEF GiveFulfil, GiveFulfilRaises, GiveFlag
    <3> QED
      BY <3>1, <3>2, <3>3, <3>4, <3>5 DEF CheckoutNext
  <2> QED
    BY <2>1
<1>2. /\ \A o \in Orders \ {p} : /\ co'[o] = co[o] /\ status'[o] = status[o]
                                 /\ session'[o] = session[o]
      /\ session'[p] # "paid" /\ money' = money
  <2>1. CASE CheckoutRead(p) \/ CheckoutReserve(p) \/ CheckoutTooLate(p)
    BY <1>1, <2>1 DEF CheckoutRead, CheckoutReserve, CheckoutTooLate
  <2>2. CASE CheckoutPutOrder(p) \/ CheckoutCancel(p) \/ GivePutOrder(p)
    BY <1>1, <2>2 DEF CheckoutPutOrder, CheckoutCancel, GivePutOrder
  <2>3. CASE CheckoutCreateSession(p) \/ CheckoutSessionRaises(p)
    BY <1>1, <2>3 DEF CheckoutCreateSession, CheckoutSessionRaises
  <2>4. CASE CheckoutRollback(p) \/ CheckoutRedirect(p) \/ CheckoutLost(p) \/ GiveReserve(p)
    BY <1>1, <2>4 DEF CheckoutRollback, CheckoutRedirect, CheckoutLost, GiveReserve
  <2>5. CASE GiveFulfil(p) \/ GiveFulfilRaises(p) \/ GiveFlag(p)
    BY <1>1, <2>5 DEF GiveFulfil, GiveFulfilRaises, GiveFlag
  <2> QED
    BY <2>1, <2>2, <2>3, <2>4, <2>5 DEF CheckoutNext
<1> QED
  BY <1>1, <1>2

\* Deliveries, the cleanup and refunds move an order among payable states only.
LEMMA OthersPayable ==
  ASSUME IInv, PayableInv,
         \/ \E h \in Hooks : HookNext(h)
         \/ CleanupNext
         \/ \E r \in Refunders : RefundNext(r)
  PROVE  PayableInv'
<1> USE DEF IInv, TypeOK, OrderTypeOK, StripeTypeOK, HandlerTypeOK, PayableInv, Payable,
        SetStatus, stripeVars, orderVars, coVars
<1>1. ASSUME NEW h \in Hooks, HookNext(h) PROVE PayableInv'
  <2>1. ASSUME NEW o \in Orders, MarkPaid(h, o) \/ MarkExpired(h, o) PROVE PayableInv'
    BY <2>1 DEF MarkPaid, MarkExpired
  <2>2. CASE HookReclaim(h) \/ HookRelease(h) \/ HookLost(h)
    BY <2>2 DEF HookReclaim, HookRelease, HookLost
  <2>3. CASE HookFulfil(h) \/ HookFulfilRaises(h) \/ HookFlag(h)
    BY <2>3 DEF HookFulfil, HookFulfilRaises, HookFlag
  <2> QED
    BY <1>1, <2>1, <2>2, <2>3 DEF HookNext
<1>2. CASE CleanupNext
  BY <1>2 DEF CleanupNext, CleanupScan, CleanupExpire, CleanupSkip, CleanupRelease, CleanupLost
<1>3. ASSUME NEW r \in Refunders, RefundNext(r) PROVE PayableInv'
  <2>1. CASE RefundStripe(r) \/ RefundStripeRaises(r)
    BY <2>1 DEF RefundStripe, RefundStripeRaises
  <2>2. CASE RefundClaim(r) \/ RefundRestore(r)
    BY <2>2 DEF RefundClaim, RefundRestore
  <2>3. ASSUME NEW o \in Orders, RefundRead(r, o) PROVE PayableInv'
    BY <2>3 DEF RefundRead
  <2>4. CASE RefundDenied(r) \/ RefundRelease(r) \/ RefundLost(r)
    BY <2>4 DEF RefundDenied, RefundRelease, RefundLost
  <2> QED
    BY <1>3, <2>1, <2>2, <2>3, <2>4 DEF RefundNext
<1> QED
  BY <1>1, <1>2, <1>3

\* No captured payment finds an order that can no longer become paid, for every
\* set of orders and invocations, lost or not.
THEOREM PaymentsFindTheirOrders == Spec => []PaymentFindsItsOrder
<1>1. Init => PayableInv
  BY DEF Init, PayableInv
<1>2. ASSUME IInv, PayableInv, [Next]_vars PROVE PayableInv'
  <2>1. ASSUME NEW p \in Orders, StripeNext(p) PROVE PayableInv'
    <3> USE DEF IInv, TypeOK, OrderTypeOK, StripeTypeOK, HandlerTypeOK, PayableInv, Payable,
            orderVars, stripeVars, coVars
    <3>1. CASE SessionPaid(p)
      BY <1>2, <3>1 DEF SessionPaid, LifeInv, AgeInv
    <3>2. CASE SessionExpires(p) \/ Tick(p)
      BY <1>2, <3>2 DEF SessionExpires, Tick
    <3> QED
      BY <2>1, <3>1, <3>2 DEF StripeNext
  <2>2. ASSUME NEW d \in Doors, DoorNext(d) PROVE PayableInv'
    BY <1>2, <2>2 DEF DoorNext, DoorRead, DoorCommit, DoorTooLate, PayableInv, Payable,
       orderVars, stripeVars, coVars
  <2>3. CASE SetEventOpen \/ UpdateCapacity \/ UNCHANGED vars
    BY <1>2, <2>3 DEF SetEventOpen, UpdateCapacity, vars, PayableInv, Payable, orderVars,
       stripeVars, coVars
  <2> QED
    BY <1>2, <2>1, <2>2, <2>3, CheckoutPayable, OthersPayable DEF Next
<1>3. ASSUME PayableInv PROVE PaymentFindsItsOrder
  <2>1. \A o \in Orders : money[o] = "captured" => Payable(o)
    BY <1>3 DEF PayableInv
  <2> QED
    BY <2>1 DEF Payable, PaymentFindsItsOrder, CanBePaid
<1> QED
  BY Inductive, <1>1, <1>2, <1>3, PTL DEF Spec

-----------------------------------------------------------------------------
(* Admission *)

\* An order was admitted exactly if it is marked, and then once.
AdmissionInv == \A o \in Orders : admitted[o] = Count(checked_in[o])

\* Only a door marks or admits.
LEMMA NoAdmission ==
  ASSUME \/ SetEventOpen \/ UpdateCapacity
         \/ \E o \in Orders : CheckoutNext(o) \/ StripeNext(o)
         \/ CleanupNext
         \/ UNCHANGED vars
  PROVE  UNCHANGED <<checked_in, admitted>>
<1> USE DEF orderVars, historyVars
<1>1. CASE SetEventOpen \/ UpdateCapacity \/ UNCHANGED vars
  BY <1>1 DEF SetEventOpen, UpdateCapacity, vars
<1>2. ASSUME NEW o \in Orders, CheckoutNext(o) PROVE UNCHANGED <<checked_in, admitted>>
  BY <1>2 DEF CheckoutNext, CheckoutRead, CheckoutReserve, CheckoutTooLate,
       CheckoutPutOrder, CheckoutCreateSession, CheckoutSessionRaises, CheckoutRollback,
       CheckoutCancel, CheckoutRedirect, CheckoutLost, GiveReserve, GivePutOrder,
       GiveFulfil, GiveFulfilRaises, GiveFlag
<1>3. ASSUME NEW o \in Orders, StripeNext(o) PROVE UNCHANGED <<checked_in, admitted>>
  BY <1>3 DEF StripeNext, SessionPaid, SessionExpires, Tick
<1>4. CASE CleanupNext
  BY <1>4 DEF CleanupNext, CleanupScan, CleanupExpire, CleanupSkip, CleanupRelease,
       CleanupLost
<1> QED
  BY <1>1, <1>2, <1>3, <1>4

\* Neither a delivery nor a refund does.
LEMMA NoAdmissionByHandlers ==
  ASSUME \/ \E h \in Hooks : HookNext(h)
         \/ \E r \in Refunders : RefundNext(r)
  PROVE  UNCHANGED <<checked_in, admitted>>
<1> USE DEF orderVars, historyVars
<1>1. ASSUME NEW h \in Hooks, HookNext(h) PROVE UNCHANGED <<checked_in, admitted>>
  BY <1>1 DEF HookNext, MarkPaid, MarkExpired, HookReclaim, HookFulfil, HookFulfilRaises,
       HookFlag, HookRelease, HookLost
<1>2. ASSUME NEW r \in Refunders, RefundNext(r) PROVE UNCHANGED <<checked_in, admitted>>
  BY <1>2 DEF RefundNext, RefundRead, RefundClaim, RefundDenied, RefundStripe,
       RefundStripeRaises, RefundRestore, RefundRelease, RefundLost
<1> QED
  BY <1>1, <1>2

\* Two doors, or one door twice, admit a party once.
THEOREM AdmitsOnce == Spec => []AdmittedOnce
<1>1. Init => AdmissionInv
  BY DEF Init, AdmissionInv, Count
<1>2. ASSUME TypeOK, AdmissionInv, [Next]_vars PROVE AdmissionInv'
  <2>1. ASSUME NEW d \in Doors, DoorNext(d) PROVE AdmissionInv'
    <3> USE DEF TypeOK, OrderTypeOK, HistoryTypeOK, AdmissionInv, Count, orderVars,
                historyVars
    <3>1. CASE DoorCommit(d)
      BY <1>2, <3>1 DEF DoorCommit, NotYetCheckedIn
    <3>2. CASE DoorTooLate(d) \/ \E o \in Orders : DoorRead(d, o)
      BY <1>2, <3>2 DEF DoorTooLate, DoorRead
    <3> QED
      BY <2>1, <3>1, <3>2 DEF DoorNext
  <2>2. ASSUME UNCHANGED <<checked_in, admitted>> PROVE AdmissionInv'
    BY <1>2, <2>2 DEF AdmissionInv, Count
  <2> QED
    BY <1>2, <2>1, <2>2, NoAdmission, NoAdmissionByHandlers DEF Next
<1>3. AdmissionInv => AdmittedOnce
  BY DEF AdmissionInv, AdmittedOnce, Count
<1> QED
  BY TypeCorrect, <1>1, <1>2, <1>3, PTL DEF Spec

-----------------------------------------------------------------------------
(* Refunds *)

\* A refunded order whose money is still captured is in the hands of a claimer.
RefundDueInv ==
  \A o \in Orders \ CompOrders :
    ~hit[o] /\ status[o] = "refunded" /\ money[o] # "returned" =>
      \E r \in Refunders : refOrder[r] = o /\ refAt[r] \in {"stripe", "restore"}

\* A claimer lets go of an order only once its money is back or it is put back.
LEMMA RefundDue ==
  ASSUME IInv, RefundDueInv, NEW q \in Refunders, RefundNext(q)
  PROVE  RefundDueInv'
<1> USE OrdersAssumption
    DEF IInv, TypeOK, OrderTypeOK, StripeTypeOK, HandlerTypeOK, HistoryTypeOK, Status,
        RefundStep, RefundDueInv, LifeInv, RefundInv, OneRefundAtATime, Claimed,
        RefundEnters, RefundLeaves, RefundGoes, SetStatus, Lose, orderVars, stripeVars,
        historyVars
<1>1. ASSUME NEW p \in Orders, RefundRead(q, p) PROVE RefundDueInv'
  BY <1>1 DEF RefundRead
<1>2. CASE RefundClaim(q)
  BY <1>2 DEF RefundClaim
<1>3. CASE RefundDenied(q)
  BY <1>3 DEF RefundDenied
<1>4. CASE RefundStripe(q)
  BY <1>4 DEF RefundStripe
<1>5. CASE RefundStripeRaises(q)
  <2>1. CASE money' = money
    BY <1>5, <2>1 DEF RefundStripeRaises
  <2>2. CASE money' = [money EXCEPT ![refOrder[q]] = "returned"]
    BY <1>5, <2>2 DEF RefundStripeRaises
  <2> QED
    BY <1>5, <2>1, <2>2 DEF RefundStripeRaises
<1>6. CASE RefundRestore(q)
  BY <1>6 DEF RefundRestore
<1>7. CASE RefundRelease(q)
  BY <1>7 DEF RefundRelease
<1>8. CASE RefundLost(q)
  BY <1>8 DEF RefundLost
<1> QED
  BY <1>1, <1>2, <1>3, <1>4, <1>5, <1>6, <1>7, <1>8 DEF RefundNext

\* Requests, Stripe and doors claim nothing and return nothing.
LEMMA NoRefundDue ==
  ASSUME IInv, RefundDueInv,
         \/ \E p \in Orders : CheckoutNext(p) \/ StripeNext(p)
         \/ \E d \in Doors : DoorNext(d)
         \/ SetEventOpen \/ UpdateCapacity \/ UNCHANGED vars
  PROVE  RefundDueInv'
<1> USE DEF IInv, TypeOK, OrderTypeOK, StripeTypeOK, HistoryTypeOK, Status, RefundDueInv,
        CoStep, SetStatus, Lose, orderVars, stripeVars, refundVars, historyVars
<1>1. ASSUME NEW p \in Orders, CheckoutNext(p) PROVE RefundDueInv'
  <2>1. CASE CheckoutPutOrder(p) \/ CheckoutCancel(p) \/ GivePutOrder(p)
    BY <2>1 DEF CheckoutPutOrder, CheckoutCancel, GivePutOrder
  <2>2. CASE CheckoutLost(p)
    BY <2>2 DEF CheckoutLost
  <2>3. ASSUME ~CheckoutPutOrder(p), ~CheckoutCancel(p), ~GivePutOrder(p), ~CheckoutLost(p)
        PROVE  UNCHANGED <<status, money, hit, refundVars>>
    BY <1>1, <2>3 DEF CheckoutNext, CheckoutRead, CheckoutReserve, CheckoutTooLate,
         CheckoutCreateSession, CheckoutSessionRaises, CheckoutRollback,
         CheckoutRedirect, GiveReserve, GiveFulfil, GiveFulfilRaises, GiveFlag
  <2> QED
    BY <2>1, <2>2, <2>3
<1>2. ASSUME NEW p \in Orders, StripeNext(p) PROVE RefundDueInv'
  BY <1>2 DEF StripeNext, SessionPaid, SessionExpires, Tick, LifeInv, AgeInv
<1>3. ASSUME NEW d \in Doors, DoorNext(d) PROVE RefundDueInv'
  BY <1>3 DEF DoorNext, DoorRead, DoorCommit, DoorTooLate
<1>4. CASE SetEventOpen \/ UpdateCapacity \/ UNCHANGED vars
  BY <1>4 DEF SetEventOpen, UpdateCapacity, vars
<1> QED
  BY <1>1, <1>2, <1>3, <1>4

\* Nor do deliveries and the cleanup.
LEMMA NoRefundDueByJobs ==
  ASSUME IInv, RefundDueInv, CleanupNext \/ \E h \in Hooks : HookNext(h)
  PROVE  RefundDueInv'
<1> USE DEF IInv, TypeOK, OrderTypeOK, StripeTypeOK, HandlerTypeOK, HistoryTypeOK, Status,
        RefundDueInv, SetStatus, Lose, orderVars, stripeVars, refundVars, historyVars
<1>1. ASSUME NEW p \in Orders, CleanupExpire(p) PROVE RefundDueInv'
  BY <1>1 DEF CleanupExpire
<1>2. ASSUME NEW p \in Orders, CleanupSkip(p) PROVE RefundDueInv'
  BY <1>2 DEF CleanupSkip
<1>3. CASE CleanupScan \/ CleanupRelease
  BY <1>3 DEF CleanupScan, CleanupRelease
<1>4. CASE CleanupLost
  BY <1>4 DEF CleanupLost
<1>5. ASSUME NEW h \in Hooks, NEW p \in Orders, MarkPaid(h, p) PROVE RefundDueInv'
  BY <1>5 DEF MarkPaid
<1>6. ASSUME NEW h \in Hooks, NEW p \in Orders, MarkExpired(h, p) PROVE RefundDueInv'
  BY <1>6 DEF MarkExpired
<1>7. ASSUME NEW h \in Hooks, HookLost(h) PROVE RefundDueInv'
  BY <1>7 DEF HookLost
<1>8. ASSUME NEW h \in Hooks, \/ HookReclaim(h) \/ HookFulfil(h) \/ HookFulfilRaises(h)
                              \/ HookFlag(h) \/ HookRelease(h)
      PROVE  RefundDueInv'
  BY <1>8 DEF HookReclaim, HookFulfil, HookFulfilRaises, HookFlag, HookRelease
<1> QED
  BY <1>1, <1>2, <1>3, <1>4, <1>5, <1>6, <1>7, <1>8 DEF CleanupNext, HookNext

\* If Stripe's answers arrive and no invocation is lost on it, a ticket order
\* at rest is refunded exactly if its money went back.
THEOREM RefundsReturn ==
  ASSUME LostReplies = FALSE
  PROVE  Spec => []RefundedIsReturned
<1>1. Init => RefundDueInv
  BY DEF Init, RefundDueInv
<1>2. ASSUME IInv, RefundDueInv, [Next]_vars PROVE RefundDueInv'
  BY <1>2, RefundDue, NoRefundDue, NoRefundDueByJobs DEF Next
<1>3. ASSUME MoneyInv, RefundDueInv PROVE RefundedIsReturned
  <2> SUFFICES ASSUME NEW o \in Orders \ CompOrders, Quiet(o), ~hit[o]
               PROVE  status[o] = "refunded" <=> money[o] = "returned"
    BY DEF RefundedIsReturned
  <2>1. status[o] = "refunded" => money[o] = "returned"
    BY <1>3 DEF RefundDueInv, Quiet
  <2>2. money[o] = "returned" => status[o] = "refunded"
    BY <1>3 DEF MoneyInv, Settled
  <2> QED
    BY <2>1, <2>2
<1> QED
  BY Inductive, MoneyAgrees, <1>1, <1>2, <1>3, PTL DEF Spec

-----------------------------------------------------------------------------
(* Seats counted *)

\* Multiplication, as the seats of one order need it.
LEMMA OneTimesMore ==
  ASSUME NEW i \in Int, NEW j \in Int
  PROVE  (i + 1) * j = i * j + j /\ (i - 1) * j = i * j - j /\ i * j \in Int
OBVIOUS

\* What is counted at least once is at least itself.
LEMMA AtLeastOnce ==
  ASSUME NEW i \in Nat, NEW j \in Nat
  PROVE  i * j >= 0 /\ (i > 0 => j <= i * j)
OBVIOUS

\* A write that changes what one order has in tickets_sold_count, and the
\* count by as much, keeps the count the sum.
LEMMA OneBooking ==
  ASSUME TypeOK, TypeOK', CountInv, NEW o \in Orders,
         \A p \in Orders \ {o} : ledger'[p] = ledger[p] /\ quantity'[p] = quantity[p],
         tickets_sold_count' = tickets_sold_count + ledger'[o] * quantity'[o]
                                 - ledger[o] * quantity[o]
  PROVE  Summable(Orders, Booked)' /\ tickets_sold_count' = Total(Orders, Booked)'
<1> DEFINE w == Booked
           v == Booked'
<1>1. w \in [Orders -> Int] /\ v \in [Orders -> Int]
  BY DEF TypeOK, OrderTypeOK, HistoryTypeOK, Booked
<1>2. \A p \in Orders \ {o} : v[p] = w[p]
  BY DEF Booked
<1>3. v[o] = ledger'[o] * quantity'[o] /\ w[o] = ledger[o] * quantity[o]
  BY DEF Booked
<1>4. Summable(Orders, w) /\ tickets_sold_count = Total(Orders, w)
  BY DEF CountInv
<1>5. w[o] \in Int /\ v[o] \in Int
  BY <1>1
<1>6. tickets_sold_count' = tickets_sold_count + v[o] - w[o]
  BY <1>3
<1> HIDE DEF w, v
<1>7. Summable(Orders, v) /\ Total(Orders, v) = Total(Orders, w) + v[o] - w[o]
  BY <1>1, <1>2, <1>4, TotalChange
<1>8. Summable(Orders, v) /\ tickets_sold_count' = Total(Orders, v)
  BY <1>4, <1>6, <1>7
<1> QED
  BY <1>8 DEF v

\* AddSeats is such a write, and so is _release_capacity.
LEMMA OneMoreOrLess ==
  ASSUME TypeOK, TypeOK', CountInv, NEW o \in Orders, AddSeats(o) \/ _release_capacity(o),
         quantity' = quantity
  PROVE  Summable(Orders, Booked)' /\ tickets_sold_count' = Total(Orders, Booked)'
<1>1. quantity[o] \in Int /\ ledger[o] \in Int /\ tickets_sold_count \in Int
  BY DEF TypeOK, EventTypeOK, OrderTypeOK, HistoryTypeOK
<1>2. /\ (ledger[o] + 1) * quantity[o] = ledger[o] * quantity[o] + quantity[o]
      /\ (ledger[o] - 1) * quantity[o] = ledger[o] * quantity[o] - quantity[o]
      /\ ledger[o] * quantity[o] \in Int
  BY <1>1, OneTimesMore
<1>3. \A p \in Orders \ {o} : ledger'[p] = ledger[p] /\ quantity'[p] = quantity[p]
  BY DEF AddSeats, _release_capacity, TypeOK, HistoryTypeOK
<1>4. \/ /\ ledger'[o] = ledger[o] + 1
         /\ tickets_sold_count' = tickets_sold_count + quantity[o]
      \/ /\ ledger'[o] = ledger[o] - 1
         /\ tickets_sold_count' = tickets_sold_count - quantity[o]
  BY DEF AddSeats, _release_capacity, TypeOK, HistoryTypeOK
<1>5. tickets_sold_count' = tickets_sold_count + ledger'[o] * quantity'[o]
                              - ledger[o] * quantity[o]
  <2>1. CASE /\ ledger'[o] = ledger[o] + 1
             /\ tickets_sold_count' = tickets_sold_count + quantity[o]
    BY <1>1, <1>2, <2>1
  <2>2. CASE /\ ledger'[o] = ledger[o] - 1
             /\ tickets_sold_count' = tickets_sold_count - quantity[o]
    BY <1>1, <1>2, <2>2
  <2> QED
    BY <1>4, <2>1, <2>2
<1> QED
  BY <1>3, <1>5, OneBooking

\* Most steps touch neither the count nor what makes it up.
LEMMA NoBooking ==
  ASSUME CountInv, UNCHANGED <<ledger, quantity, tickets_sold_count>>,
         \A o \in Orders : co'[o] \in {"idle", "read"} => co[o] \in {"idle", "read"}
  PROVE  CountInv'
<1>1. Booked' = Booked
  BY DEF Booked
<1> QED
  BY <1>1 DEF CountInv

\* A request books its order, and gives the booking up in its rollback.
LEMMA CheckoutCounts ==
  ASSUME TypeOK, TypeOK', CountInv, NEW p \in Orders, CheckoutNext(p)
  PROVE  CountInv'
<1> USE DEF CoStep
<1>1. /\ co \in [Orders -> CheckoutStep] /\ ledger \in [Orders -> Int]
      /\ quantity \in [Orders -> Nat] /\ tickets_sold_count \in Int
  BY DEF TypeOK, EventTypeOK, OrderTypeOK, HandlerTypeOK, HistoryTypeOK
<1>2. \A o \in Orders : co[o] \in {"idle", "read"} => ledger[o] = 0
  BY DEF CountInv
<1>3. CASE CheckoutRead(p) \/ CheckoutTooLate(p)
  <2>1. /\ ledger' = ledger /\ tickets_sold_count' = tickets_sold_count /\ ledger[p] = 0
        /\ \A o \in Orders \ {p} : quantity'[o] = quantity[o]
        /\ \A o \in Orders : co'[o] \in {"idle", "read"} => co[o] \in {"idle", "read"}
    BY <1>1, <1>2, <1>3 DEF CheckoutRead, CheckoutTooLate, eventVars, historyVars
  <2>2. quantity'[p] \in Nat
    BY DEF TypeOK, OrderTypeOK
  <2>3. ledger'[p] * quantity'[p] = 0 /\ ledger[p] * quantity[p] = 0
    BY <1>1, <2>1, <2>2
  <2>4. tickets_sold_count' = tickets_sold_count + ledger'[p] * quantity'[p]
                                - ledger[p] * quantity[p]
    BY <1>1, <2>1, <2>3
  <2>5. Summable(Orders, Booked)' /\ tickets_sold_count' = Total(Orders, Booked)'
    BY <2>1, <2>4, OneBooking
  <2> QED
    BY <1>2, <2>1, <2>5 DEF CountInv
<1>4. CASE CheckoutReserve(p) \/ CheckoutRollback(p)
  <2>1. /\ AddSeats(p) \/ _release_capacity(p)
        /\ quantity' = quantity
        /\ \A o \in Orders : co'[o] \in {"idle", "read"} => co[o] \in {"idle", "read"} /\ o # p
    BY <1>1, <1>4 DEF CheckoutReserve, CheckoutRollback, orderVars
  <2>2. Summable(Orders, Booked)' /\ tickets_sold_count' = Total(Orders, Booked)'
    BY <2>1, OneMoreOrLess
  <2> QED
    BY <1>1, <1>2, <2>1, <2>2 DEF CountInv, AddSeats, _release_capacity
<1>5. CASE GiveReserve(p)
  <2>1. PICK q \in 1..MaxTickets : /\ quantity' = [quantity EXCEPT ![p] = q]
                                   /\ tickets_sold_count' = tickets_sold_count + q
    BY <1>5 DEF GiveReserve
  <2>2. /\ ledger[p] = 0 /\ ledger'[p] = 1 /\ quantity'[p] = q /\ q \in Int
        /\ \A o \in Orders \ {p} : ledger'[o] = ledger[o] /\ quantity'[o] = quantity[o]
        /\ \A o \in Orders : co'[o] \in {"idle", "read"} => co[o] \in {"idle", "read"} /\ o # p
    BY <1>1, <1>2, <1>5, <2>1, NumbersAssumption DEF GiveReserve
  <2>3. ledger'[p] * quantity'[p] = q /\ ledger[p] * quantity[p] = 0
    BY <1>1, <2>2
  <2>4. tickets_sold_count' = tickets_sold_count + ledger'[p] * quantity'[p]
                                - ledger[p] * quantity[p]
    BY <1>1, <2>1, <2>2, <2>3
  <2>5. Summable(Orders, Booked)' /\ tickets_sold_count' = Total(Orders, Booked)'
    BY <2>2, <2>4, OneBooking
  <2> QED
    BY <1>2, <2>2, <2>5 DEF CountInv
<1>6. ASSUME ~CheckoutRead(p), ~CheckoutTooLate(p), ~CheckoutReserve(p),
             ~CheckoutRollback(p), ~GiveReserve(p)
      PROVE  /\ UNCHANGED <<ledger, quantity, tickets_sold_count>>
             /\ \A o \in Orders : co'[o] \in {"idle", "read"} => co[o] \in {"idle", "read"}
  BY <1>1, <1>6 DEF CheckoutNext, CheckoutPutOrder, CheckoutCreateSession,
     CheckoutSessionRaises, CheckoutCancel, CheckoutRedirect, CheckoutLost, GivePutOrder,
     GiveFulfil, GiveFulfilRaises, GiveFlag, eventVars, orderVars, historyVars
<1> QED
  BY <1>3, <1>4, <1>5, <1>6, NoBooking

\* The other handlers book only orders whose request is past its reservation.
LEMMA OthersCount ==
  ASSUME IInv, TypeOK', CountInv,
         \/ \E h \in Hooks : HookNext(h)
         \/ CleanupNext
         \/ \E r \in Refunders : RefundNext(r)
  PROVE  CountInv'
<1>1. \A o \in Orders : co[o] \in {"idle", "read"} => status[o] = "none"
  BY DEF IInv, LifeInv, RequestInv
<1>2. ASSUME NEW o \in Orders, status[o] # "none", AddSeats(o) \/ _release_capacity(o),
             UNCHANGED <<quantity, co>>
      PROVE  CountInv'
  <2>1. Summable(Orders, Booked)' /\ tickets_sold_count' = Total(Orders, Booked)'
    BY <1>2, OneMoreOrLess DEF IInv
  <2>2. \A p \in Orders : co'[p] \in {"idle", "read"} => ledger'[p] = 0
    BY <1>1, <1>2 DEF CountInv, AddSeats, _release_capacity, IInv, TypeOK, HistoryTypeOK
  <2> QED
    BY <2>1, <2>2 DEF CountInv
<1> USE DEF orderVars, coVars
<1>3. ASSUME NEW h \in Hooks, HookReclaim(h) \/ HookRelease(h) PROVE CountInv'
  <2>1. hookOrder[h] \in Orders /\ status[hookOrder[h]] # "none"
    BY <1>3 DEF IInv, TypeOK, SecondInv, HookInv, Begun, Settled, HookReclaim, HookRelease
  <2> QED
    BY <1>2, <1>3, <2>1 DEF HookReclaim, HookRelease
<1>4. CASE CleanupRelease
  <2>1. cleanOrder \in Orders /\ status[cleanOrder] # "none"
    BY <1>4 DEF IInv, TypeOK, SecondInv, SweepInv, Begun, CleanupRelease
  <2> QED
    BY <1>2, <1>4, <2>1 DEF CleanupRelease
<1>5. ASSUME NEW r \in Refunders, RefundRelease(r) PROVE CountInv'
  <2>1. refOrder[r] \in Orders /\ status[refOrder[r]] # "none"
    BY <1>5 DEF IInv, TypeOK, LifeInv, RefundInv, Claimed, RefundRelease
  <2> QED
    BY <1>2, <1>5, <2>1 DEF RefundRelease
<1>6. ASSUME NEW h \in Hooks, HookNext(h), ~HookReclaim(h), ~HookRelease(h)
      PROVE  UNCHANGED <<ledger, quantity, tickets_sold_count, co>>
  BY <1>6 DEF HookNext, MarkPaid, MarkExpired, HookFulfil, HookFulfilRaises, HookFlag,
     HookLost, eventVars, historyVars
<1>7. ASSUME CleanupNext, ~CleanupRelease
      PROVE  UNCHANGED <<ledger, quantity, tickets_sold_count, co>>
  BY <1>7 DEF CleanupNext, CleanupScan, CleanupExpire, CleanupSkip, CleanupLost,
     eventVars, historyVars
<1>8. ASSUME NEW r \in Refunders, RefundNext(r), ~RefundRelease(r)
      PROVE  UNCHANGED <<ledger, quantity, tickets_sold_count, co>>
  BY <1>8 DEF RefundNext, RefundRead, RefundClaim, RefundDenied, RefundStripe,
     RefundStripeRaises, RefundRestore, RefundLost, eventVars, historyVars
<1> QED
  BY <1>3, <1>4, <1>5, <1>6, <1>7, <1>8, NoBooking

\* tickets_sold_count is at all times the sum of what its orders have in it.
THEOREM CountAddsUp == Spec => []CountInv
<1>1. Init => CountInv
  <2> SUFFICES ASSUME Init PROVE CountInv
    OBVIOUS
  <2>1. Booked \in [Orders -> Int] /\ \A o \in Orders : Booked[o] = 0
    BY DEF Init, Booked
  <2>2. Summable(Orders, Booked) /\ Total(Orders, Booked) = 0
    BY <2>1, TotalZero
  <2> QED
    BY <2>2 DEF Init, CountInv
<1>2. ASSUME IInv, IInv', CountInv, [Next]_vars PROVE CountInv'
  <2>1. TypeOK /\ TypeOK'
    BY <1>2 DEF IInv
  <2>2. ASSUME \/ SetEventOpen \/ UpdateCapacity \/ UNCHANGED vars
               \/ \E o \in Orders : StripeNext(o)
               \/ \E d \in Doors : DoorNext(d)
        PROVE  UNCHANGED <<ledger, quantity, tickets_sold_count, co>>
    BY <2>2 DEF SetEventOpen, UpdateCapacity, vars, StripeNext, SessionPaid,
       SessionExpires, Tick, DoorNext, DoorRead, DoorCommit, DoorTooLate, eventVars,
       orderVars, coVars, historyVars
  <2> QED
    BY <1>2, <2>1, <2>2, CheckoutCounts, OthersCount, NoBooking DEF Next
<1> QED
  BY Inductive, <1>1, <1>2, PTL DEF Spec

\* When every order is settled, and no invocation was lost on any, the count is
\* the number of seats of the pending and paid orders, however many there are.
THEOREM SeatsMatch == Spec => []SeatsMatchOrders
<1>1. ASSUME TypeOK, CountInv, SettledLedger PROVE SeatsMatchOrders
  <2> SUFFICES ASSUME \A o \in Orders : Quiet(o) /\ ~hit[o]
               PROVE  tickets_sold_count = Seats({o \in Orders : HoldsSeats(o)})
    BY DEF SeatsMatchOrders
  <2> DEFINE held == {o \in Orders : HoldsSeats(o)}
  <2>1. /\ Booked \in [Orders -> Int] /\ quantity \in [Orders -> Nat]
        /\ Booked = [o \in Orders |-> IF HoldsSeats(o) THEN quantity[o] ELSE 0]
    BY <1>1 DEF Booked, SettledLedger, TypeOK, OrderTypeOK, HistoryTypeOK
  <2>2. \A o \in Orders : Booked[o] >= 0
    BY <2>1
  <2>3. tickets_sold_count = Cardinality(Units(Orders, Booked))
    BY <1>1, <2>1, <2>2, TotalOfNaturals DEF CountInv
  <2>4. Units(Orders, Booked) = Units(held, quantity)
    BY <2>1 DEF Units
  <2> QED
    BY <2>3, <2>4 DEF Seats
<1> QED
  BY TypeCorrect, CountAddsUp, LedgerSettles, <1>1, PTL

-----------------------------------------------------------------------------
(* Room for them *)

\* Undisturbed, no order has less than nothing in the count, and the seats let
\* in by the reservation's condition are part of it.
LEMMA AdmittedAreCounted ==
  IInv /\ CountInv /\ ReclaimsLate /\ Undisturbed =>
    IsFiniteSet(Units(Admitted, quantity)) /\ Seats(Admitted) <= tickets_sold_count
<1> SUFFICES ASSUME IInv, CountInv, ReclaimsLate, Undisturbed
             PROVE  /\ IsFiniteSet(Units(Admitted, quantity))
                    /\ Seats(Admitted) <= tickets_sold_count
  OBVIOUS
<1>1. /\ ledger \in [Orders -> Int] /\ quantity \in [Orders -> Nat]
      /\ Booked \in [Orders -> Int] /\ quantity \in [Orders -> Int]
  <2>1. ledger \in [Orders -> Int] /\ quantity \in [Orders -> Nat]
    BY DEF IInv, TypeOK, OrderTypeOK, HistoryTypeOK
  <2>2. \A o \in Orders : ledger[o] * quantity[o] \in Int
    BY <2>1, OneTimesMore
  <2> QED
    BY <2>1, <2>2 DEF Booked
<1>2. ASSUME NEW o \in Orders PROVE ledger[o] >= 0
  <2>1. ~hit[o] /\ (late[o] /\ status[o] = "refunded" => Refunding(o))
    BY DEF Undisturbed, Disturbed
  <2>2. co[o] = "released" => HoldsSeats(o)
    BY DEF IInv, LifeInv, RequestInv, HoldsSeats
  <2>3. Reclaiming(o) => late[o] /\ status[o] \in {"paid", "refunded"}
    BY DEF IInv, SecondInv, HookInv, Settled, Reclaiming, ReclaimsLate
  <2>4. Reclaiming(o) => HoldsSeats(o) \/ Refunding(o)
    BY <2>1, <2>3 DEF HoldsSeats
  <2>5. ledger[o] = Count(HoldsSeats(o)) + Count(co[o] = "reserved")
                      - Count(co[o] = "released") + Count(Releasing(o)) + Count(Sweeps(o))
                      + Count(Refunding(o)) - Count(Reclaiming(o))
    BY <2>1 DEF IInv, LedgerInv
  <2>6. co[o] = "released" => ~Reclaiming(o)
    BY <2>3 DEF IInv, LifeInv, RequestInv
  <2> QED
    BY <2>2, <2>4, <2>5, <2>6 DEF Count
<1>3. ASSUME NEW o \in Orders PROVE Booked[o] >= 0 /\ (ledger[o] > 0 => quantity[o] <= Booked[o])
  <2>1. ledger[o] \in Nat /\ quantity[o] \in Nat /\ Booked[o] = ledger[o] * quantity[o]
    BY <1>1, <1>2 DEF Booked
  <2> QED
    BY <2>1, AtLeastOnce
<1>4. Summable(Orders, Booked) /\ tickets_sold_count = Total(Orders, Booked)
  BY DEF CountInv
<1>5. Admitted \in SUBSET Orders /\ \A o \in Admitted : quantity[o] <= Booked[o]
  BY <1>3 DEF Admitted
<1>6. /\ IsFiniteSet(Units(Admitted, quantity))
      /\ Cardinality(Units(Admitted, quantity)) <= Total(Orders, Booked)
  BY <1>1, <1>3, <1>4, <1>5, PartOfTotal
<1> QED
  BY <1>4, <1>6 DEF Seats

\* As long as a step lets nobody in, and heals nothing, there is room as before.
LEMMA NobodyLetIn ==
  ASSUME IInv, CountInv, RoomInv, offered' \in Int, offered <= offered',
         \A o \in Orders : Disturbed(o) => Disturbed(o)',
         \A o \in Orders \ CompOrders :
           ~late'[o] /\ ledger'[o] > 0 =>
             ~late[o] /\ ledger[o] > 0 /\ quantity'[o] = quantity[o]
  PROVE  (Undisturbed => Admitted = {} \/ Seats(Admitted) <= offered)'
<1> SUFFICES ASSUME Undisturbed', Admitted' # {} PROVE Seats(Admitted)' <= offered'
  OBVIOUS
<1>1. Undisturbed /\ Admitted # {}
  BY DEF Undisturbed, Admitted
<1>2. /\ IsFiniteSet(Units(Admitted, quantity))
      /\ Cardinality(Units(Admitted, quantity)) <= offered
  BY <1>1, AdmittedAreCounted DEF RoomInv, Seats
<1>3. Units(Admitted, quantity)' \subseteq Units(Admitted, quantity)
  BY DEF Units, Admitted
<1>4. Cardinality(Units(Admitted, quantity)') <= Cardinality(Units(Admitted, quantity))
  BY <1>2, <1>3, FS_Subset
<1>5. /\ Cardinality(Units(Admitted, quantity)) \in Nat
      /\ Cardinality(Units(Admitted, quantity)') \in Nat
  BY <1>2, <1>3, FS_Subset, FS_CardinalityType
<1>6. offered \in Int
  BY DEF IInv, TypeOK, HistoryTypeOK
<1> QED
  BY <1>2, <1>4, <1>5, <1>6 DEF Seats

\* The reservation's condition compares the count, with the seats added, to a
\* capacity that was offered.
LEMMA ReservationFits ==
  ASSUME IInv, IInv', CountInv', RoomInv, NEW p \in Orders, CheckoutReserve(p)
  PROVE  RoomInv'
<1> USE DEF CheckoutReserve, CoStep, SeatsLeft, AddSeats, hookVars
<1>1. ReclaimsLate'
  BY DEF RoomInv, ReclaimsLate
<1>2. tickets_sold_count' <= offered'
  BY DEF RoomInv, IInv, TypeOK, EventTypeOK, OrderTypeOK, HandlerTypeOK, HistoryTypeOK
<1>3. Undisturbed' => Seats(Admitted)' <= tickets_sold_count' /\ Seats(Admitted)' \in Nat
  <2>1. (IInv /\ CountInv /\ ReclaimsLate /\ Undisturbed)' =>
          (IsFiniteSet(Units(Admitted, quantity)) /\ Seats(Admitted) <= tickets_sold_count)'
    BY AdmittedAreCounted, PTL
  <2> QED
    BY <1>1, <2>1, FS_CardinalityType DEF Seats
<1>4. (Undisturbed => Admitted = {} \/ Seats(Admitted) <= offered)'
  BY <1>2, <1>3 DEF IInv, TypeOK, EventTypeOK, HistoryTypeOK
<1>5. capacity' <= offered' /\ \A o \in Orders : co'[o] = "read" => seen'[o] <= offered'
  BY DEF RoomInv, IInv, TypeOK, HandlerTypeOK
<1> QED
  BY <1>1, <1>4, <1>5 DEF RoomInv

\* The rest of a request lets nobody in; comps are let in without a condition.
LEMMA CheckoutRoom ==
  ASSUME IInv, IInv', CountInv, RoomInv, NEW p \in Orders, CheckoutNext(p),
         ~CheckoutReserve(p)
  PROVE  RoomInv'
<1>1. /\ co \in [Orders -> CheckoutStep] /\ seen \in [Orders -> Int] /\ offered \in Int
      /\ ledger \in [Orders -> Int] /\ quantity \in [Orders -> Nat] /\ capacity \in Int
      /\ hit \in [Orders -> BOOLEAN] /\ status \in [Orders -> Status]
  BY DEF IInv, TypeOK, EventTypeOK, OrderTypeOK, HandlerTypeOK, HistoryTypeOK
<1> USE DEF CheckoutNext, CheckoutRead, CheckoutTooLate, CheckoutPutOrder,
       CheckoutCreateSession, CheckoutSessionRaises, CheckoutRollback, CheckoutCancel,
       CheckoutRedirect, CheckoutLost, GiveReserve, GivePutOrder, GiveFulfil,
       GiveFulfilRaises, GiveFlag, CoStep, Lose, SetStatus
<1>2. UNCHANGED <<hookVars, refundVars, late, offered, capacity>>
  BY DEF eventVars, historyVars, _release_capacity
<1>3. ReclaimsLate'
  BY <1>2 DEF RoomInv, ReclaimsLate, hookVars
<1>4. capacity' <= offered' /\ \A o \in Orders : co'[o] = "read" => seen'[o] <= offered'
  BY <1>1, <1>2 DEF RoomInv, coVars
<1>5. \A o \in Orders \ CompOrders :
        ledger'[o] > 0 => ledger[o] > 0 /\ quantity'[o] = quantity[o]
  BY <1>1 DEF CountInv, _release_capacity, orderVars, historyVars
<1>6. \A o \in Orders : status[o] = "refunded" => status'[o] = "refunded"
  BY <1>1 DEF IInv, LifeInv, RequestInv, CompInv, orderVars
<1>7. \A o \in Orders : hit[o] => hit'[o]
  BY <1>1 DEF historyVars
<1>8. \A o \in Orders : Disturbed(o) => Disturbed(o)'
  BY <1>2, <1>6, <1>7 DEF Disturbed, Refunding, Claimed, refundVars
<1>9. (Undisturbed => Admitted = {} \/ Seats(Admitted) <= offered)'
  BY <1>1, <1>2, <1>5, <1>8, NobodyLetIn
<1> QED
  BY <1>3, <1>4, <1>9 DEF RoomInv

\* A delivery puts back only the seats of late payments, and takes others off.
LEMMA HookRoom ==
  ASSUME IInv, CountInv, RoomInv, NEW g \in Hooks, HookNext(g)
  PROVE  RoomInv'
<1>1. /\ hookAt \in [Hooks -> HookStep] /\ hookOrder \in [Hooks -> Orders \cup {NoOrder}]
      /\ late \in [Orders -> BOOLEAN] /\ ledger \in [Orders -> Int] /\ offered \in Int
      /\ hit \in [Orders -> BOOLEAN] /\ status \in [Orders -> Status]
      /\ hookAt[g] # "idle" => hookOrder[g] \in Orders
  BY DEF IInv, TypeOK, OrderTypeOK, HandlerTypeOK, HistoryTypeOK
<1> USE DEF HookNext, MarkPaid, MarkExpired, HookReclaim, HookFulfil, HookFulfilRaises,
       HookFlag, HookRelease, HookLost, HookEnters, HookLeaves, CanBePaid, CanExpire,
       AfterPaid, flag_fulfillment_error, Lose, SetStatus
<1>2. UNCHANGED <<coVars, refundVars, quantity, offered, capacity>>
  BY DEF eventVars, orderVars, historyVars, AddSeats, _release_capacity
<1>3. ReclaimsLate'
  <2>1. \A o \in Orders : late[o] => late'[o]
    BY <1>1 DEF historyVars
  <2>2. ASSUME NEW h \in Hooks, hookAt'[h] = "reclaim", h # g PROVE late'[hookOrder'[h]]
    <3>1. hookAt[h] = "reclaim" /\ hookOrder'[h] = hookOrder[h]
      BY <1>1, <2>2
    <3> QED
      BY <2>1, <3>1 DEF RoomInv, ReclaimsLate, IInv, TypeOK
  <2>3. ASSUME hookAt'[g] = "reclaim" PROVE late'[hookOrder'[g]]
    <3>1. PICK p \in Orders : MarkPaid(g, p)
      BY <1>1, <2>3, Zenon DEF HookStep
    <3>2. hookAt'[g] = AfterPaid(p) /\ hookOrder'[g] = p
      BY <1>1, <3>1
    <3>3. status[p] = "expired"
      BY <2>3, <3>2
    <3> QED
      BY <1>1, <3>1, <3>2, <3>3
  <2> QED
    BY <2>2, <2>3 DEF ReclaimsLate
<1>4. \A o \in Orders : ~late'[o] => ~late[o] /\ (ledger'[o] > 0 => ledger[o] > 0)
  BY <1>1 DEF RoomInv, ReclaimsLate, AddSeats, _release_capacity, historyVars
<1>5. \A o \in Orders : Disturbed(o) => Disturbed(o)'
  BY <1>1, <1>2 DEF Disturbed, Refunding, Claimed, refundVars, orderVars, historyVars
<1>6. (Undisturbed => Admitted = {} \/ Seats(Admitted) <= offered)'
  BY <1>1, <1>2, <1>4, <1>5, NobodyLetIn
<1> QED
  BY <1>2, <1>3, <1>6 DEF RoomInv, coVars

\* A refund takes seats off; only its claimer makes a refunded order paid again.
LEMMA RefundRoom ==
  ASSUME IInv, CountInv, RoomInv, NEW q \in Refunders, RefundNext(q)
  PROVE  RoomInv'
<1>1. /\ refAt \in [Refunders -> RefundStep] /\ refOrder \in [Refunders -> Orders \cup {NoOrder}]
      /\ ledger \in [Orders -> Int] /\ offered \in Int
      /\ hit \in [Orders -> BOOLEAN] /\ status \in [Orders -> Status]
      /\ refAt[q] # "idle" => refOrder[q] \in Orders
  BY DEF IInv, TypeOK, OrderTypeOK, HandlerTypeOK, HistoryTypeOK
<1> USE DEF RefundNext, RefundRead, RefundClaim, RefundDenied, RefundStripe,
       RefundStripeRaises, RefundRestore, RefundRelease, RefundLost, RefundEnters,
       RefundLeaves, RefundGoes, CanRefund, Lose, SetStatus
<1>2. UNCHANGED <<hookVars, coVars, late, quantity, offered, capacity>>
  BY DEF eventVars, orderVars, historyVars, _release_capacity
<1>3. \A o \in Orders : ledger'[o] > 0 => ledger[o] > 0
  BY <1>1 DEF _release_capacity, historyVars
<1>4. \A o \in Orders : Disturbed(o) => Disturbed(o)'
  BY <1>1, <1>2 DEF Disturbed, Refunding, Claimed, orderVars, historyVars
<1>5. (Undisturbed => Admitted = {} \/ Seats(Admitted) <= offered)'
  BY <1>1, <1>2, <1>3, <1>4, NobodyLetIn
<1> QED
  BY <1>2, <1>5 DEF RoomInv, ReclaimsLate, coVars, hookVars

\* The cleanup takes seats off, and the others book none.
LEMMA OtherRoom ==
  ASSUME IInv, CountInv, RoomInv,
         \/ CleanupNext
         \/ \E p \in Orders : StripeNext(p)
         \/ \E d \in Doors : DoorNext(d)
         \/ SetEventOpen \/ UpdateCapacity \/ UNCHANGED vars
  PROVE  RoomInv'
<1>1. /\ ledger \in [Orders -> Int] /\ offered \in Int /\ capacity \in Int
      /\ hit \in [Orders -> BOOLEAN] /\ status \in [Orders -> Status]
      /\ seen \in [Orders -> Int]
  BY DEF IInv, TypeOK, EventTypeOK, OrderTypeOK, HandlerTypeOK, HistoryTypeOK
<1> USE DEF CleanupNext, CleanupScan, CleanupExpire, CleanupSkip, CleanupRelease,
       CleanupLost, StillPending, StripeNext, SessionPaid, SessionExpires, Tick, DoorNext,
       DoorRead, DoorCommit, DoorTooLate, SetEventOpen, UpdateCapacity, Lose, SetStatus
<1>2. UNCHANGED <<hookVars, coVars, refundVars, late, quantity>>
  BY DEF vars, orderVars, historyVars
<1>3. offered' \in Int /\ offered <= offered' /\ capacity' <= offered'
  <2>1. CASE UpdateCapacity
    <3>1. PICK c \in Capacities : /\ capacity' = c
                                  /\ offered' = IF c > offered THEN c ELSE offered
      BY <2>1, Zenon DEF UpdateCapacity
    <3> QED
      BY <1>1, <3>1, NumbersAssumption
  <2>2. CASE ~UpdateCapacity
    <3>1. UNCHANGED <<offered, capacity>>
      BY <2>2 DEF vars, eventVars, historyVars, _release_capacity
    <3> QED
      BY <1>1, <3>1 DEF RoomInv
  <2> QED
    BY <2>1, <2>2
<1>4. \A o \in Orders : ledger'[o] > 0 => ledger[o] > 0
  <2>1. CASE CleanupRelease
    BY <1>1, <2>1 DEF _release_capacity
  <2>2. CASE ~CleanupRelease
    BY <2>2 DEF vars, historyVars
  <2> QED
    BY <2>1, <2>2
<1>5. \A o \in Orders : /\ hit[o] => hit'[o]
                        /\ status[o] = "refunded" => status'[o] = "refunded"
  BY <1>1 DEF vars, orderVars, historyVars
<1>6. \A o \in Orders : Disturbed(o) => Disturbed(o)'
  BY <1>2, <1>5 DEF Disturbed, Refunding, Claimed, refundVars
<1>7. (Undisturbed => Admitted = {} \/ Seats(Admitted) <= offered)'
  BY <1>2, <1>3, <1>4, <1>6, NobodyLetIn
<1> QED
  BY <1>1, <1>2, <1>3, <1>7 DEF RoomInv, ReclaimsLate, coVars, hookVars

\* However reservations, expiries, late payments and refunds interleave, the
\* ordinary paid orders fit the largest capacity the event was offered with, as
\* long as no invocation is lost and no late payment is refunded.
THEOREM OrdinaryOrdersFit == Spec => []OrdinarySeatsFit
<1>1. Init => RoomInv
  <2> SUFFICES ASSUME Init PROVE RoomInv
    OBVIOUS
  <2>1. Admitted = {}
    BY DEF Init, Admitted
  <2> QED
    BY <2>1, NumbersAssumption DEF Init, RoomInv, ReclaimsLate
<1>2. ASSUME IInv, IInv', CountInv, CountInv', RoomInv, [Next]_vars PROVE RoomInv'
  BY <1>2, ReservationFits, CheckoutRoom, HookRoom, RefundRoom, OtherRoom DEF Next
<1>3. ASSUME IInv, CountInv, RoomInv PROVE OrdinarySeatsFit
  <2> DEFINE sold == {o \in Orders \ CompOrders : status[o] = "paid" /\ ~late[o]}
  <2> SUFFICES ASSUME \A o \in Orders : ~hit[o] /\ ~(late[o] /\ status[o] = "refunded")
               PROVE  sold = {} \/ Seats(sold) <= offered
    BY DEF OrdinarySeatsFit
  <2>1. Undisturbed
    BY DEF Undisturbed, Disturbed
  <2>2. sold \subseteq Admitted
    <3> SUFFICES ASSUME NEW o \in Orders \ CompOrders, status[o] = "paid", ~late[o]
                 PROVE  ledger[o] > 0
      BY DEF Admitted
    <3>1. ~Reclaiming(o) /\ co[o] # "released" /\ HoldsSeats(o) /\ ~hit[o]
      BY <1>3 DEF RoomInv, ReclaimsLate, Reclaiming, IInv, LifeInv, RequestInv, HoldsSeats
    <3> QED
      BY <1>3, <3>1 DEF IInv, LedgerInv, Count
  <2>3. /\ IsFiniteSet(Units(Admitted, quantity))
        /\ sold = {} \/ Seats(Admitted) <= offered
    BY <1>3, <2>1, <2>2, AdmittedAreCounted DEF RoomInv
  <2>4. Units(sold, quantity) \subseteq Units(Admitted, quantity)
    BY <2>2 DEF Units
  <2>5. /\ Cardinality(Units(sold, quantity)) <= Cardinality(Units(Admitted, quantity))
        /\ Cardinality(Units(sold, quantity)) \in Nat
        /\ Cardinality(Units(Admitted, quantity)) \in Nat
    BY <2>3, <2>4, FS_Subset, FS_CardinalityType
  <2> QED
    BY <1>3, <2>3, <2>5 DEF Seats, IInv, TypeOK, HistoryTypeOK
<1> QED
  BY Inductive, CountAddsUp, <1>1, <1>2, <1>3, PTL DEF Spec
=============================================================================
