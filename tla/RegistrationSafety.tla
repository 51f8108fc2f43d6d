-------------------------- MODULE RegistrationSafety --------------------------
(***************************************************************************)
(* The types and the safety properties of Registration, proved from the    *)
(* invariants of RegistrationInvariants for every set of orders,           *)
(* invocations and capacities, and every bound.                            *)
(***************************************************************************)
EXTENDS RegistrationInvariants, TLAPS

-----------------------------------------------------------------------------
(* Types *)

\* The event, orders and invocations of a new season are well typed.
LEMMA InitType == Init => TypeOK
<1> SUFFICES ASSUME Init PROVE TypeOK
  OBVIOUS
<1>1. EventTypeOK
  <2>1. capacity \in Int /\ tickets_sold_count \in Int
    BY NumbersAssumption DEF Init
  <2>2. registration_open \in BOOLEAN
    BY Zenon DEF Init
  <2> QED
    BY <2>1, <2>2 DEF EventTypeOK
<1>2. OrderTypeOK
  BY DEF Init, OrderTypeOK, Status
<1>3. StripeTypeOK
  BY DEF Init, StripeTypeOK
<1>4. HandlerTypeOK
  BY DEF Init, HandlerTypeOK, CheckoutStep, HookStep, CleanStep, RefundStep, DoorStep
<1>5. HistoryTypeOK
  BY NumbersAssumption DEF Init, HistoryTypeOK
<1> QED
  BY <1>1, <1>2, <1>3, <1>4, <1>5 DEF Init, TypeOK

\* Every step of a checkout or give-tickets request keeps the types.
LEMMA CheckoutType ==
  ASSUME TypeOK, NEW o \in Orders, CheckoutNext(o)
  PROVE  TypeOK'
<1> USE OrdersAssumption, NumbersAssumption
    DEF TypeOK, EventTypeOK, OrderTypeOK, StripeTypeOK, HandlerTypeOK, HistoryTypeOK,
        Status, CheckoutStep, HookStep, CleanStep, RefundStep, DoorStep,
        eventVars, orderVars, stripeVars, coVars, hookVars, cleanVars, refundVars,
        doorVars, historyVars, CoStep, SetStatus, AddSeats, _release_capacity, Lose
<1>1. CASE CheckoutRead(o)
  BY <1>1 DEF CheckoutRead
<1>2. CASE CheckoutReserve(o)
  BY <1>2 DEF CheckoutReserve
<1>3. CASE CheckoutTooLate(o)
  BY <1>3 DEF CheckoutTooLate
<1>4. CASE CheckoutPutOrder(o)
  BY <1>4 DEF CheckoutPutOrder
<1>5. CASE CheckoutCreateSession(o)
  BY <1>5 DEF CheckoutCreateSession
<1>6. CASE CheckoutSessionRaises(o)
  BY <1>6 DEF CheckoutSessionRaises
<1>7. CASE CheckoutRollback(o)
  BY <1>7 DEF CheckoutRollback
<1>8. CASE CheckoutCancel(o)
  BY <1>8 DEF CheckoutCancel
<1>9. CASE CheckoutRedirect(o)
  BY <1>9 DEF CheckoutRedirect
<1>10. CASE CheckoutLost(o)
  BY <1>10 DEF CheckoutLost
<1>11. CASE GiveReserve(o)
  BY <1>11 DEF GiveReserve
<1>12. CASE GivePutOrder(o)
  BY <1>12 DEF GivePutOrder
<1>13. CASE GiveFulfil(o)
  BY <1>13 DEF GiveFulfil
<1>14. CASE GiveFulfilRaises(o)
  <2>1. CASE mailed' = mailed
    BY <1>14, <2>1 DEF GiveFulfilRaises
  <2>2. CASE mailed' = [mailed EXCEPT ![o] = TRUE]
    BY <1>14, <2>2 DEF GiveFulfilRaises
  <2> QED
    BY <1>14, <2>1, <2>2 DEF GiveFulfilRaises
<1>15. CASE GiveFlag(o)
  BY <1>15 DEF GiveFlag
<1> QED
  BY <1>1, <1>2, <1>3, <1>4, <1>5, <1>6, <1>7, <1>8, <1>9, <1>10, <1>11, <1>12,
     <1>13, <1>14, <1>15 DEF CheckoutNext

\* So do the buyer, Stripe and the clock.
LEMMA StripeType ==
  ASSUME TypeOK, NEW o \in Orders, StripeNext(o)
  PROVE  TypeOK'
<1> USE OrdersAssumption, NumbersAssumption
    DEF TypeOK, EventTypeOK, OrderTypeOK, StripeTypeOK, HandlerTypeOK, HistoryTypeOK,
        Status, CheckoutStep, HookStep, CleanStep, RefundStep, DoorStep,
        eventVars, orderVars, stripeVars, coVars, hookVars, cleanVars, refundVars,
        doorVars, historyVars, SetStatus, AddSeats, _release_capacity, Lose
<1>1. CASE SessionPaid(o)
  BY <1>1 DEF SessionPaid
<1>2. CASE SessionExpires(o)
  BY <1>2 DEF SessionExpires
<1>3. CASE Tick(o)
  BY <1>3 DEF Tick
<1> QED
  BY <1>1, <1>2, <1>3 DEF StripeNext

\* So does every delivery of a webhook.
LEMMA HookType ==
  ASSUME TypeOK, NEW h \in Hooks, HookNext(h)
  PROVE  TypeOK'
<1> USE OrdersAssumption, NumbersAssumption
    DEF TypeOK, EventTypeOK, OrderTypeOK, StripeTypeOK, HandlerTypeOK, HistoryTypeOK,
        Status, CheckoutStep, HookStep, CleanStep, RefundStep, DoorStep,
        eventVars, orderVars, stripeVars, coVars, hookVars, cleanVars, refundVars,
        doorVars, historyVars, SetStatus, AddSeats, _release_capacity, Lose, HookEnters,
        HookLeaves, AfterPaid, flag_fulfillment_error
<1>1. ASSUME NEW o \in Orders, MarkPaid(h, o) PROVE TypeOK'
  BY <1>1 DEF MarkPaid
<1>2. ASSUME NEW o \in Orders, MarkExpired(h, o) PROVE TypeOK'
  BY <1>2 DEF MarkExpired
<1>3. CASE HookReclaim(h)
  BY <1>3 DEF HookReclaim
<1>4. CASE HookFulfil(h)
  BY <1>4 DEF HookFulfil
<1>5. CASE HookFulfilRaises(h)
  <2> DEFINE o == hookOrder[h]
  <2>1. CASE mailed' = mailed
    BY <1>5, <2>1 DEF HookFulfilRaises
  <2>2. CASE mailed' = [mailed EXCEPT ![o] = TRUE]
    BY <1>5, <2>2 DEF HookFulfilRaises
  <2> QED
    BY <1>5, <2>1, <2>2 DEF HookFulfilRaises
<1>6. CASE HookFlag(h)
  BY <1>6 DEF HookFlag
<1>7. CASE HookRelease(h)
  BY <1>7 DEF HookRelease
<1>8. CASE HookLost(h)
  BY <1>8 DEF HookLost
<1> QED
  BY <1>1, <1>2, <1>3, <1>4, <1>5, <1>6, <1>7, <1>8 DEF HookNext

\* So does the cleanup job.
LEMMA CleanupType ==
  ASSUME TypeOK, CleanupNext
  PROVE  TypeOK'
<1> USE OrdersAssumption, NumbersAssumption
    DEF TypeOK, EventTypeOK, OrderTypeOK, StripeTypeOK, HandlerTypeOK, HistoryTypeOK,
        Status, CheckoutStep, HookStep, CleanStep, RefundStep, DoorStep,
        eventVars, orderVars, stripeVars, coVars, hookVars, cleanVars, refundVars,
        doorVars, historyVars, SetStatus, AddSeats, _release_capacity, Lose, Sweeping
<1>1. CASE CleanupScan
  BY <1>1 DEF CleanupScan
<1>2. ASSUME NEW o \in Orders, CleanupExpire(o) PROVE TypeOK'
  BY <1>2 DEF CleanupExpire
<1>3. ASSUME NEW o \in Orders, CleanupSkip(o) PROVE TypeOK'
  BY <1>3 DEF CleanupSkip
<1>4. CASE CleanupRelease
  BY <1>4 DEF CleanupRelease
<1>5. CASE CleanupLost
  BY <1>5 DEF CleanupLost
<1> QED
  BY <1>1, <1>2, <1>3, <1>4, <1>5 DEF CleanupNext

\* So does every refund request.
LEMMA RefundType ==
  ASSUME TypeOK, NEW r \in Refunders, RefundNext(r)
  PROVE  TypeOK'
<1> USE OrdersAssumption, NumbersAssumption
    DEF TypeOK, EventTypeOK, OrderTypeOK, StripeTypeOK, HandlerTypeOK, HistoryTypeOK,
        Status, CheckoutStep, HookStep, CleanStep, RefundStep, DoorStep,
        eventVars, orderVars, stripeVars, coVars, hookVars, cleanVars, refundVars,
        doorVars, historyVars, SetStatus, AddSeats, _release_capacity, Lose,
        RefundEnters, RefundLeaves, RefundGoes
<1>1. ASSUME NEW o \in Orders, RefundRead(r, o) PROVE TypeOK'
  BY <1>1 DEF RefundRead
<1>2. CASE RefundClaim(r)
  BY <1>2 DEF RefundClaim
<1>3. CASE RefundDenied(r)
  BY <1>3 DEF RefundDenied
<1>4. CASE RefundStripe(r)
  BY <1>4 DEF RefundStripe
<1>5. CASE RefundStripeRaises(r)
  <2> DEFINE o == refOrder[r]
  <2>1. CASE money' = money
    BY <1>5, <2>1 DEF RefundStripeRaises
  <2>2. CASE money' = [money EXCEPT ![o] = "returned"]
    BY <1>5, <2>2 DEF RefundStripeRaises
  <2> QED
    BY <1>5, <2>1, <2>2 DEF RefundStripeRaises
<1>6. CASE RefundRestore(r)
  BY <1>6 DEF RefundRestore
<1>7. CASE RefundRelease(r)
  BY <1>7 DEF RefundRelease
<1>8. CASE RefundLost(r)
  BY <1>8 DEF RefundLost
<1> QED
  BY <1>1, <1>2, <1>3, <1>4, <1>5, <1>6, <1>7, <1>8 DEF RefundNext

\* So does every door.
LEMMA DoorType ==
  ASSUME TypeOK, NEW d \in Doors, DoorNext(d)
  PROVE  TypeOK'
<1> USE OrdersAssumption, NumbersAssumption
    DEF TypeOK, EventTypeOK, OrderTypeOK, StripeTypeOK, HandlerTypeOK, HistoryTypeOK,
        Status, CheckoutStep, HookStep, CleanStep, RefundStep, DoorStep,
        eventVars, orderVars, stripeVars, coVars, hookVars, cleanVars, refundVars,
        doorVars, historyVars, SetStatus, AddSeats, _release_capacity, Lose, DoorLeaves
<1>1. ASSUME NEW o \in Orders, DoorRead(d, o) PROVE TypeOK'
  BY <1>1 DEF DoorRead
<1>2. CASE DoorCommit(d)
  BY <1>2 DEF DoorCommit
<1>3. CASE DoorTooLate(d)
  BY <1>3 DEF DoorTooLate
<1> QED
  BY <1>1, <1>2, <1>3 DEF DoorNext

\* So do the admin's edits of the event, and a step in which nothing happens.
LEMMA AdminType ==
  ASSUME TypeOK, SetEventOpen \/ UpdateCapacity \/ UNCHANGED vars
  PROVE  TypeOK'
<1> USE OrdersAssumption, NumbersAssumption
    DEF TypeOK, EventTypeOK, OrderTypeOK, StripeTypeOK, HandlerTypeOK, HistoryTypeOK,
        Status, CheckoutStep, HookStep, CleanStep, RefundStep, DoorStep,
        eventVars, orderVars, stripeVars, coVars, hookVars, cleanVars, refundVars,
        doorVars, historyVars, SetStatus, AddSeats, _release_capacity, Lose, vars
<1>1. CASE SetEventOpen
  BY <1>1 DEF SetEventOpen
<1>2. CASE UpdateCapacity
  BY <1>2 DEF UpdateCapacity
<1>3. CASE UNCHANGED vars
  BY <1>3
<1> QED
  BY <1>1, <1>2, <1>3

\* So does every step.
LEMMA NextType ==
  ASSUME TypeOK, [Next]_vars
  PROVE  TypeOK'
<1> QED
  BY CheckoutType, StripeType, HookType, CleanupType, RefundType, DoorType, AdminType
     DEF Next

\* Every variable has its type in every state of every run, and an invocation
\* that is under way always works on an order.
THEOREM TypeCorrect == Spec => []TypeOK
<1> QED
  BY InitType, NextType, PTL DEF Spec

-----------------------------------------------------------------------------
(* The life of an order *)

\* A request moves only the order it makes, and nobody else moves that order.
LEMMA CheckoutLife ==
  ASSUME TypeOK, LifeInv, NEW p \in Orders, CheckoutNext(p)
  PROVE  LifeInv'
<1> USE OrdersAssumption, NumbersAssumption, GraceAssumption
    DEF TypeOK, OrderTypeOK, StripeTypeOK, HandlerTypeOK, Status, CheckoutStep,
        RefundStep, eventVars, orderVars, stripeVars, coVars, hookVars, cleanVars,
        refundVars, doorVars, LifeInv, RequestInv, AgeInv, CompInv, RefundInv,
        OneRefundAtATime, Claimed, Settled, CoStep, SetStatus
<1>1. CASE CheckoutRead(p)
  BY <1>1 DEF CheckoutRead
<1>2. CASE CheckoutReserve(p)
  BY <1>2 DEF CheckoutReserve
<1>3. CASE CheckoutTooLate(p)
  BY <1>3 DEF CheckoutTooLate
<1>4. CASE CheckoutPutOrder(p)
  BY <1>4 DEF CheckoutPutOrder
<1>5. CASE CheckoutCreateSession(p)
  BY <1>5 DEF CheckoutCreateSession
<1>6. CASE CheckoutSessionRaises(p)
  BY <1>6 DEF CheckoutSessionRaises
<1>7. CASE CheckoutRollback(p)
  BY <1>7 DEF CheckoutRollback
<1>8. CASE CheckoutCancel(p)
  BY <1>8 DEF CheckoutCancel
<1>9. CASE CheckoutRedirect(p)
  BY <1>9 DEF CheckoutRedirect
<1>10. CASE CheckoutLost(p)
  BY <1>10 DEF CheckoutLost
<1>11. CASE GiveReserve(p)
  BY <1>11 DEF GiveReserve
<1>12. CASE GivePutOrder(p)
  BY <1>12 DEF GivePutOrder
<1>13. CASE GiveFulfil(p)
  BY <1>13 DEF GiveFulfil
<1>14. CASE GiveFulfilRaises(p)
  BY <1>14 DEF GiveFulfilRaises
<1>15. CASE GiveFlag(p)
  BY <1>15 DEF GiveFlag
<1> QED
  BY <1>1, <1>2, <1>3, <1>4, <1>5, <1>6, <1>7, <1>8, <1>9, <1>10,
     <1>11, <1>12, <1>13, <1>14, <1>15 DEF CheckoutNext

\* A session is paid or expires only after its request is over.
LEMMA StripeLife ==
  ASSUME TypeOK, LifeInv, NEW p \in Orders, StripeNext(p)
  PROVE  LifeInv'
<1> USE OrdersAssumption, NumbersAssumption, GraceAssumption
    DEF TypeOK, OrderTypeOK, StripeTypeOK, HandlerTypeOK, Status, CheckoutStep,
        RefundStep, eventVars, orderVars, stripeVars, coVars, hookVars, cleanVars,
        refundVars, doorVars, LifeInv, RequestInv, AgeInv, CompInv, RefundInv,
        OneRefundAtATime, Claimed, Settled
<1>1. CASE SessionPaid(p)
  BY <1>1 DEF SessionPaid
<1>2. CASE SessionExpires(p)
  BY <1>2 DEF SessionExpires
<1>3. CASE Tick(p)
  BY <1>3 DEF Tick
<1> QED
  BY <1>1, <1>2, <1>3 DEF StripeNext

\* A delivery moves only an order whose session is over.
LEMMA HookLife ==
  ASSUME TypeOK, LifeInv, NEW g \in Hooks, HookNext(g)
  PROVE  LifeInv'
<1> USE OrdersAssumption, NumbersAssumption, GraceAssumption
    DEF TypeOK, OrderTypeOK, StripeTypeOK, HandlerTypeOK, Status, CheckoutStep,
        RefundStep, eventVars, orderVars, stripeVars, coVars, hookVars, cleanVars,
        refundVars, doorVars, LifeInv, RequestInv, AgeInv, CompInv, RefundInv,
        OneRefundAtATime, Claimed, Settled,
        HookEnters, HookLeaves, SetStatus
<1>1. ASSUME NEW p \in Orders, MarkPaid(g, p) PROVE LifeInv'
  BY <1>1 DEF MarkPaid, CanBePaid
<1>2. ASSUME NEW p \in Orders, MarkExpired(g, p) PROVE LifeInv'
  BY <1>2 DEF MarkExpired, CanExpire
<1>3. CASE HookReclaim(g)
  BY <1>3 DEF HookReclaim
<1>4. CASE HookFulfil(g)
  BY <1>4 DEF HookFulfil
<1>5. CASE HookFulfilRaises(g)
  BY <1>5 DEF HookFulfilRaises
<1>6. CASE HookFlag(g)
  BY <1>6 DEF HookFlag
<1>7. CASE HookRelease(g)
  BY <1>7 DEF HookRelease
<1>8. CASE HookLost(g)
  BY <1>8 DEF HookLost
<1> QED
  BY <1>1, <1>2, <1>3, <1>4, <1>5, <1>6, <1>7, <1>8 DEF HookNext

\* The cleanup moves only pending orders older than any session.
LEMMA CleanupLife ==
  ASSUME TypeOK, LifeInv, CleanupNext
  PROVE  LifeInv'
<1> USE OrdersAssumption, NumbersAssumption, GraceAssumption
    DEF TypeOK, OrderTypeOK, StripeTypeOK, HandlerTypeOK, Status, CheckoutStep,
        RefundStep, eventVars, orderVars, stripeVars, coVars, hookVars, cleanVars,
        refundVars, doorVars, LifeInv, RequestInv, AgeInv, CompInv, RefundInv,
        OneRefundAtATime, Claimed, Settled, SetStatus, Stale
<1>1. CASE CleanupScan
  BY <1>1 DEF CleanupScan
<1>2. ASSUME NEW p \in Orders, CleanupExpire(p) PROVE LifeInv'
  BY <1>2 DEF CleanupExpire, StillPending
<1>3. ASSUME NEW p \in Orders, CleanupSkip(p) PROVE LifeInv'
  BY <1>3 DEF CleanupSkip
<1>4. CASE CleanupRelease
  BY <1>4 DEF CleanupRelease
<1>5. CASE CleanupLost
  BY <1>5 DEF CleanupLost
<1> QED
  BY <1>1, <1>2, <1>3, <1>4, <1>5 DEF CleanupNext

\* A claim needs a paid order; the claimer alone may put it back.
LEMMA RefundLife ==
  ASSUME TypeOK, LifeInv, NEW q \in Refunders, RefundNext(q)
  PROVE  LifeInv'
<1> USE OrdersAssumption, NumbersAssumption, GraceAssumption
    DEF TypeOK, OrderTypeOK, StripeTypeOK, HandlerTypeOK, Status, CheckoutStep,
        RefundStep, eventVars, orderVars, stripeVars, coVars, hookVars, cleanVars,
        refundVars, doorVars, LifeInv, RequestInv, AgeInv, CompInv, RefundInv,
        OneRefundAtATime, Claimed, Settled,
        RefundEnters, RefundLeaves, RefundGoes, SetStatus, CanRefund
<1>1. ASSUME NEW p \in Orders, RefundRead(q, p) PROVE LifeInv'
  BY <1>1 DEF RefundRead
<1>2. CASE RefundClaim(q)
  BY <1>2 DEF RefundClaim
<1>3. CASE RefundDenied(q)
  BY <1>3 DEF RefundDenied
<1>4. CASE RefundStripe(q)
  BY <1>4 DEF RefundStripe
<1>5. CASE RefundStripeRaises(q)
  BY <1>5 DEF RefundStripeRaises
<1>6. CASE RefundRestore(q)
  BY <1>6 DEF RefundRestore
<1>7. CASE RefundRelease(q)
  BY <1>7 DEF RefundRelease
<1>8. CASE RefundLost(q)
  BY <1>8 DEF RefundLost
<1> QED
  BY <1>1, <1>2, <1>3, <1>4, <1>5, <1>6, <1>7, <1>8 DEF RefundNext

\* A door moves no order.
LEMMA DoorLife ==
  ASSUME TypeOK, LifeInv, NEW d \in Doors, DoorNext(d)
  PROVE  LifeInv'
<1> USE OrdersAssumption, NumbersAssumption, GraceAssumption
    DEF TypeOK, OrderTypeOK, StripeTypeOK, HandlerTypeOK, Status, CheckoutStep,
        RefundStep, eventVars, orderVars, stripeVars, coVars, hookVars, cleanVars,
        refundVars, doorVars, LifeInv, RequestInv, AgeInv, CompInv, RefundInv,
        OneRefundAtATime, Claimed, Settled
<1>1. ASSUME NEW p \in Orders, DoorRead(d, p) PROVE LifeInv'
  BY <1>1 DEF DoorRead
<1>2. CASE DoorCommit(d)
  BY <1>2 DEF DoorCommit
<1>3. CASE DoorTooLate(d)
  BY <1>3 DEF DoorTooLate
<1> QED
  BY <1>1, <1>2, <1>3 DEF DoorNext

\* Neither do the edits of the event.
LEMMA AdminLife ==
  ASSUME TypeOK, LifeInv, SetEventOpen \/ UpdateCapacity \/ UNCHANGED vars
  PROVE  LifeInv'
<1> USE OrdersAssumption, NumbersAssumption, GraceAssumption
    DEF TypeOK, OrderTypeOK, StripeTypeOK, HandlerTypeOK, Status, CheckoutStep,
        RefundStep, eventVars, orderVars, stripeVars, coVars, hookVars, cleanVars,
        refundVars, doorVars, LifeInv, RequestInv, AgeInv, CompInv, RefundInv,
        OneRefundAtATime, Claimed, Settled
<1>1. CASE SetEventOpen
  BY <1>1 DEF SetEventOpen
<1>2. CASE UpdateCapacity
  BY <1>2 DEF UpdateCapacity
<1>3. CASE UNCHANGED vars
  BY <1>3 DEF vars
<1> QED
  BY <1>1, <1>2, <1>3

-----------------------------------------------------------------------------
(* Second writes and fulfilment *)

\* A running request leaves the second writes of the others due.
LEMMA CheckoutSecond ==
  ASSUME TypeOK, LifeInv, SecondInv, NEW p \in Orders, CheckoutNext(p)
  PROVE  SecondInv'
<1> USE OrdersAssumption, NumbersAssumption
    DEF TypeOK, OrderTypeOK, StripeTypeOK, HandlerTypeOK, HistoryTypeOK, Status,
        CheckoutStep, HookStep, CleanStep, RefundStep, eventVars, orderVars, stripeVars,
        coVars, hookVars, cleanVars, refundVars, doorVars, historyVars, LifeInv,
        RequestInv, RefundInv, Claimed, Settled, Begun, SecondInv, HookInv, SweepInv,
        FulfilInv, CoStep, SetStatus
<1>1. CASE CheckoutRead(p)
  BY <1>1 DEF CheckoutRead
<1>2. CASE CheckoutReserve(p)
  BY <1>2 DEF CheckoutReserve
<1>3. CASE CheckoutTooLate(p)
  BY <1>3 DEF CheckoutTooLate
<1>4. CASE CheckoutPutOrder(p)
  BY <1>4 DEF CheckoutPutOrder
<1>5. CASE CheckoutCreateSession(p)
  BY <1>5 DEF CheckoutCreateSession
<1>6. CASE CheckoutSessionRaises(p)
  BY <1>6 DEF CheckoutSessionRaises
<1>7. CASE CheckoutRollback(p)
  BY <1>7 DEF CheckoutRollback
<1>8. CASE CheckoutCancel(p)
  BY <1>8 DEF CheckoutCancel
<1>9. CASE CheckoutRedirect(p)
  BY <1>9 DEF CheckoutRedirect
<1>10. CASE CheckoutLost(p)
  BY <1>10 DEF CheckoutLost
<1>11. CASE GiveReserve(p)
  BY <1>11 DEF GiveReserve
<1>12. CASE GivePutOrder(p)
  BY <1>12 DEF GivePutOrder
<1>13. CASE GiveFulfil(p)
  BY <1>13 DEF GiveFulfil
<1>14. CASE GiveFulfilRaises(p)
  BY <1>14 DEF GiveFulfilRaises
<1>15. CASE GiveFlag(p)
  BY <1>15 DEF GiveFlag
<1> QED
  BY <1>1, <1>2, <1>3, <1>4, <1>5, <1>6, <1>7, <1>8, <1>9, <1>10,
     <1>11, <1>12, <1>13, <1>14, <1>15 DEF CheckoutNext

\* So do the buyer, Stripe and the clock.
LEMMA StripeSecond ==
  ASSUME TypeOK, LifeInv, SecondInv, NEW p \in Orders, StripeNext(p)
  PROVE  SecondInv'
<1> USE OrdersAssumption, NumbersAssumption
    DEF TypeOK, OrderTypeOK, StripeTypeOK, HandlerTypeOK, HistoryTypeOK, Status,
        CheckoutStep, HookStep, CleanStep, RefundStep, eventVars, orderVars, stripeVars,
        coVars, hookVars, cleanVars, refundVars, doorVars, historyVars, LifeInv,
        RequestInv, RefundInv, Claimed, Settled, Begun, SecondInv, HookInv, SweepInv,
        FulfilInv
<1>1. CASE SessionPaid(p)
  BY <1>1 DEF SessionPaid
<1>2. CASE SessionExpires(p)
  BY <1>2 DEF SessionExpires
<1>3. CASE Tick(p)
  BY <1>3 DEF Tick
<1> QED
  BY <1>1, <1>2, <1>3 DEF StripeNext

\* The conditional write that starts a delivery's second write cannot win twice.
LEMMA HookSecond ==
  ASSUME TypeOK, LifeInv, SecondInv, NEW g \in Hooks, HookNext(g)
  PROVE  SecondInv'
<1> USE OrdersAssumption, NumbersAssumption
    DEF TypeOK, OrderTypeOK, StripeTypeOK, HandlerTypeOK, HistoryTypeOK, Status,
        CheckoutStep, HookStep, CleanStep, RefundStep, eventVars, orderVars, stripeVars,
        coVars, hookVars, cleanVars, refundVars, doorVars, historyVars, LifeInv,
        RequestInv, RefundInv, Claimed, Settled, Begun, SecondInv, HookInv, SweepInv,
        FulfilInv,
        HookEnters, HookLeaves, SetStatus
<1>1. ASSUME NEW p \in Orders, MarkPaid(g, p) PROVE SecondInv'
  BY <1>1 DEF MarkPaid, CanBePaid, AfterPaid
<1>2. ASSUME NEW p \in Orders, MarkExpired(g, p) PROVE SecondInv'
  BY <1>2 DEF MarkExpired, CanExpire
<1>3. CASE HookReclaim(g)
  BY <1>3 DEF HookReclaim
<1>4. CASE HookFulfil(g)
  BY <1>4 DEF HookFulfil
<1>5. CASE HookFulfilRaises(g)
  BY <1>5 DEF HookFulfilRaises
<1>6. CASE HookFlag(g)
  BY <1>6 DEF HookFlag
<1>7. CASE HookRelease(g)
  BY <1>7 DEF HookRelease
<1>8. CASE HookLost(g)
  BY <1>8 DEF HookLost
<1> QED
  BY <1>1, <1>2, <1>3, <1>4, <1>5, <1>6, <1>7, <1>8 DEF HookNext

\* Nor can the cleanup's.
LEMMA CleanupSecond ==
  ASSUME TypeOK, LifeInv, SecondInv, CleanupNext
  PROVE  SecondInv'
<1> USE OrdersAssumption, NumbersAssumption
    DEF TypeOK, OrderTypeOK, StripeTypeOK, HandlerTypeOK, HistoryTypeOK, Status,
        CheckoutStep, HookStep, CleanStep, RefundStep, eventVars, orderVars, stripeVars,
        coVars, hookVars, cleanVars, refundVars, doorVars, historyVars, LifeInv,
        RequestInv, RefundInv, Claimed, Settled, Begun, SecondInv, HookInv, SweepInv,
        FulfilInv, SetStatus, Stale, Sweeping
<1>1. CASE CleanupScan
  BY <1>1 DEF CleanupScan
<1>2. ASSUME NEW p \in Orders, CleanupExpire(p) PROVE SecondInv'
  BY <1>2 DEF CleanupExpire, StillPending
<1>3. ASSUME NEW p \in Orders, CleanupSkip(p) PROVE SecondInv'
  BY <1>3 DEF CleanupSkip
<1>4. CASE CleanupRelease
  BY <1>4 DEF CleanupRelease
<1>5. CASE CleanupLost
  BY <1>5 DEF CleanupLost
<1> QED
  BY <1>1, <1>2, <1>3, <1>4, <1>5 DEF CleanupNext

\* A refund and its undoing keep an order settled.
LEMMA RefundSecond ==
  ASSUME TypeOK, LifeInv, SecondInv, NEW q \in Refunders, RefundNext(q)
  PROVE  SecondInv'
<1> USE OrdersAssumption, NumbersAssumption
    DEF TypeOK, OrderTypeOK, StripeTypeOK, HandlerTypeOK, HistoryTypeOK, Status,
        CheckoutStep, HookStep, CleanStep, RefundStep, eventVars, orderVars, stripeVars,
        coVars, hookVars, cleanVars, refundVars, doorVars, historyVars, LifeInv,
        RequestInv, RefundInv, Claimed, Settled, Begun, SecondInv, HookInv, SweepInv,
        FulfilInv,
        RefundEnters, RefundLeaves, RefundGoes, SetStatus, CanRefund
<1>1. ASSUME NEW p \in Orders, RefundRead(q, p) PROVE SecondInv'
  BY <1>1 DEF RefundRead
<1>2. CASE RefundClaim(q)
  BY <1>2 DEF RefundClaim
<1>3. CASE RefundDenied(q)
  BY <1>3 DEF RefundDenied
<1>4. CASE RefundStripe(q)
  BY <1>4 DEF RefundStripe
<1>5. CASE RefundStripeRaises(q)
  BY <1>5 DEF RefundStripeRaises
<1>6. CASE RefundRestore(q)
  BY <1>6 DEF RefundRestore
<1>7. CASE RefundRelease(q)
  BY <1>7 DEF RefundRelease
<1>8. CASE RefundLost(q)
  BY <1>8 DEF RefundLost
<1> QED
  BY <1>1, <1>2, <1>3, <1>4, <1>5, <1>6, <1>7, <1>8 DEF RefundNext

\* A door changes none of it.
LEMMA DoorSecond ==
  ASSUME TypeOK, LifeInv, SecondInv, NEW d \in Doors, DoorNext(d)
  PROVE  SecondInv'
<1> USE OrdersAssumption, NumbersAssumption
    DEF TypeOK, OrderTypeOK, StripeTypeOK, HandlerTypeOK, HistoryTypeOK, Status,
        CheckoutStep, HookStep, CleanStep, RefundStep, eventVars, orderVars, stripeVars,
        coVars, hookVars, cleanVars, refundVars, doorVars, historyVars, LifeInv,
        RequestInv, RefundInv, Claimed, Settled, Begun, SecondInv, HookInv, SweepInv,
        FulfilInv
<1>1. ASSUME NEW p \in Orders, DoorRead(d, p) PROVE SecondInv'
  BY <1>1 DEF DoorRead
<1>2. CASE DoorCommit(d)
  BY <1>2 DEF DoorCommit
<1>3. CASE DoorTooLate(d)
  BY <1>3 DEF DoorTooLate
<1> QED
  BY <1>1, <1>2, <1>3 DEF DoorNext

\* Nor do the edits of the event.
LEMMA AdminSecond ==
  ASSUME TypeOK, LifeInv, SecondInv, SetEventOpen \/ UpdateCapacity \/ UNCHANGED vars
  PROVE  SecondInv'
<1> USE OrdersAssumption, NumbersAssumption
    DEF TypeOK, OrderTypeOK, StripeTypeOK, HandlerTypeOK, HistoryTypeOK, Status,
        CheckoutStep, HookStep, CleanStep, RefundStep, eventVars, orderVars, stripeVars,
        coVars, hookVars, cleanVars, refundVars, doorVars, historyVars, LifeInv,
        RequestInv, RefundInv, Claimed, Settled, Begun, SecondInv, HookInv, SweepInv,
        FulfilInv
<1>1. CASE SetEventOpen
  BY <1>1 DEF SetEventOpen
<1>2. CASE UpdateCapacity
  BY <1>2 DEF UpdateCapacity
<1>3. CASE UNCHANGED vars
  BY <1>3 DEF vars
<1> QED
  BY <1>1, <1>2, <1>3

-----------------------------------------------------------------------------
(* The ledger *)

\* A request books its seats once and takes them off at most once.
LEMMA CheckoutLedger ==
  ASSUME TypeOK, LifeInv, SecondInv, LedgerInv, NEW p \in Orders, CheckoutNext(p)
  PROVE  LedgerInv'
<1> USE OrdersAssumption, NumbersAssumption
    DEF TypeOK, EventTypeOK, OrderTypeOK, HandlerTypeOK, HistoryTypeOK, Status,
        CheckoutStep, HookStep, CleanStep, RefundStep, eventVars, orderVars, stripeVars,
        coVars, hookVars, cleanVars, refundVars, doorVars, historyVars, LifeInv,
        RequestInv, RefundInv, Claimed, SecondInv, HookInv, SweepInv, Begun, Settled,
        OneRefundAtATime, LedgerInv, Count, HoldsSeats, Releasing, Reclaiming, Sweeps,
        Refunding, CoStep, SetStatus, AddSeats, _release_capacity, Lose
<1>1. CASE CheckoutRead(p)
  BY <1>1 DEF CheckoutRead
<1>2. CASE CheckoutReserve(p)
  BY <1>2 DEF CheckoutReserve
<1>3. CASE CheckoutTooLate(p)
  BY <1>3 DEF CheckoutTooLate
<1>4. CASE CheckoutPutOrder(p)
  BY <1>4 DEF CheckoutPutOrder
<1>5. CASE CheckoutCreateSession(p)
  BY <1>5 DEF CheckoutCreateSession
<1>6. CASE CheckoutSessionRaises(p)
  BY <1>6 DEF CheckoutSessionRaises
<1>7. CASE CheckoutRollback(p)
  BY <1>7 DEF CheckoutRollback
<1>8. CASE CheckoutCancel(p)
  BY <1>8 DEF CheckoutCancel
<1>9. CASE CheckoutRedirect(p)
  BY <1>9 DEF CheckoutRedirect
<1>10. CASE CheckoutLost(p)
  BY <1>10 DEF CheckoutLost
<1>11. CASE GiveReserve(p)
  BY <1>11 DEF GiveReserve
<1>12. CASE GivePutOrder(p)
  BY <1>12 DEF GivePutOrder
<1>13. CASE GiveFulfil(p)
  BY <1>13 DEF GiveFulfil
<1>14. CASE GiveFulfilRaises(p)
  BY <1>14 DEF GiveFulfilRaises
<1>15. CASE GiveFlag(p)
  BY <1>15 DEF GiveFlag
<1> QED
  BY <1>1, <1>2, <1>3, <1>4, <1>5, <1>6, <1>7, <1>8, <1>9, <1>10,
     <1>11, <1>12, <1>13, <1>14, <1>15 DEF CheckoutNext

\* The buyer, Stripe and the clock move no seats.
LEMMA StripeLedger ==
  ASSUME TypeOK, LifeInv, SecondInv, LedgerInv, NEW p \in Orders, StripeNext(p)
  PROVE  LedgerInv'
<1> USE OrdersAssumption, NumbersAssumption
    DEF TypeOK, EventTypeOK, OrderTypeOK, HandlerTypeOK, HistoryTypeOK, Status,
        CheckoutStep, HookStep, CleanStep, RefundStep, eventVars, orderVars, stripeVars,
        coVars, hookVars, cleanVars, refundVars, doorVars, historyVars, LifeInv,
        RequestInv, RefundInv, Claimed, SecondInv, HookInv, SweepInv, Begun, Settled,
        OneRefundAtATime, LedgerInv, Count, HoldsSeats, Releasing, Reclaiming, Sweeps,
        Refunding
<1>1. CASE SessionPaid(p)
  BY <1>1 DEF SessionPaid
<1>2. CASE SessionExpires(p)
  BY <1>2 DEF SessionExpires
<1>3. CASE Tick(p)
  BY <1>3 DEF Tick
<1> QED
  BY <1>1, <1>2, <1>3 DEF StripeNext

\* A delivery moves an order's seats by what its transition left due.
LEMMA HookLedger ==
  ASSUME TypeOK, LifeInv, SecondInv, LedgerInv, NEW g \in Hooks, HookNext(g)
  PROVE  LedgerInv'
<1> USE OrdersAssumption, NumbersAssumption
    DEF TypeOK, EventTypeOK, OrderTypeOK, HandlerTypeOK, HistoryTypeOK, Status,
        CheckoutStep, HookStep, CleanStep, RefundStep, eventVars, orderVars, stripeVars,
        coVars, hookVars, cleanVars, refundVars, doorVars, historyVars, LifeInv,
        RequestInv, RefundInv, Claimed, SecondInv, HookInv, SweepInv, Begun, Settled,
        OneRefundAtATime, LedgerInv, Count, HoldsSeats, Releasing, Reclaiming, Sweeps,
        Refunding, HookEnters, HookLeaves, SetStatus, AddSeats, _release_capacity, Lose
<1>1. ASSUME NEW p \in Orders, MarkPaid(g, p) PROVE LedgerInv'
  BY <1>1 DEF MarkPaid, CanBePaid, AfterPaid
<1>2. ASSUME NEW p \in Orders, MarkExpired(g, p) PROVE LedgerInv'
  BY <1>2 DEF MarkExpired, CanExpire
<1>3. CASE HookReclaim(g)
  BY <1>3 DEF HookReclaim
<1>4. CASE HookFulfil(g)
  BY <1>4 DEF HookFulfil
<1>5. CASE HookFulfilRaises(g)
  BY <1>5 DEF HookFulfilRaises
<1>6. CASE HookFlag(g)
  BY <1>6 DEF HookFlag
<1>7. CASE HookRelease(g)
  BY <1>7 DEF HookRelease
<1>8. CASE HookLost(g)
  BY <1>8 DEF HookLost
<1> QED
  BY <1>1, <1>2, <1>3, <1>4, <1>5, <1>6, <1>7, <1>8 DEF HookNext

\* So does the cleanup.
LEMMA CleanupLedger ==
  ASSUME TypeOK, LifeInv, SecondInv, LedgerInv, CleanupNext
  PROVE  LedgerInv'
<1> USE OrdersAssumption, NumbersAssumption
    DEF TypeOK, EventTypeOK, OrderTypeOK, HandlerTypeOK, HistoryTypeOK, Status,
        CheckoutStep, HookStep, CleanStep, RefundStep, eventVars, orderVars, stripeVars,
        coVars, hookVars, cleanVars, refundVars, doorVars, historyVars, LifeInv,
        RequestInv, RefundInv, Claimed, SecondInv, HookInv, SweepInv, Begun, Settled,
        OneRefundAtATime, LedgerInv, Count, HoldsSeats, Releasing, Reclaiming, Sweeps,
        Refunding, SetStatus, Stale, Sweeping, _release_capacity, Lose
<1>1. CASE CleanupScan
  BY <1>1 DEF CleanupScan
<1>2. ASSUME NEW p \in Orders, CleanupExpire(p) PROVE LedgerInv'
  BY <1>2 DEF CleanupExpire, StillPending
<1>3. ASSUME NEW p \in Orders, CleanupSkip(p) PROVE LedgerInv'
  BY <1>3 DEF CleanupSkip
<1>4. CASE CleanupRelease
  BY <1>4 DEF CleanupRelease
<1>5. CASE CleanupLost
  BY <1>5 DEF CleanupLost
<1> QED
  BY <1>1, <1>2, <1>3, <1>4, <1>5 DEF CleanupNext

\* So does a refund.
LEMMA RefundLedger ==
  ASSUME TypeOK, LifeInv, SecondInv, LedgerInv, NEW q \in Refunders, RefundNext(q)
  PROVE  LedgerInv'
<1> USE OrdersAssumption, NumbersAssumption
    DEF TypeOK, EventTypeOK, OrderTypeOK, HandlerTypeOK, HistoryTypeOK, Status,
        CheckoutStep, HookStep, CleanStep, RefundStep, eventVars, orderVars, stripeVars,
        coVars, hookVars, cleanVars, refundVars, doorVars, historyVars, LifeInv,
        RequestInv, RefundInv, Claimed, SecondInv, HookInv, SweepInv, Begun, Settled,
        OneRefundAtATime, LedgerInv, Count, HoldsSeats, Releasing, Reclaiming, Sweeps,
        Refunding, RefundEnters, RefundLeaves, RefundGoes, SetStatus, CanRefund,
        _release_capacity, Lose
<1>1. ASSUME NEW p \in Orders, RefundRead(q, p) PROVE LedgerInv'
  BY <1>1 DEF RefundRead
<1>2. CASE RefundClaim(q)
  BY <1>2 DEF RefundClaim
<1>3. CASE RefundDenied(q)
  BY <1>3 DEF RefundDenied
<1>4. CASE RefundStripe(q)
  BY <1>4 DEF RefundStripe
<1>5. CASE RefundStripeRaises(q)
  BY <1>5 DEF RefundStripeRaises
<1>6. CASE RefundRestore(q)
  BY <1>6, SMTT(20) DEF RefundRestore
<1>7. CASE RefundRelease(q)
  BY <1>7, SMTT(20) DEF RefundRelease
<1>8. CASE RefundLost(q)
  BY <1>8 DEF RefundLost
<1> QED
  BY <1>1, <1>2, <1>3, <1>4, <1>5, <1>6, <1>7, <1>8 DEF RefundNext

\* A door moves no seats.
LEMMA DoorLedger ==
  ASSUME TypeOK, LifeInv, SecondInv, LedgerInv, NEW d \in Doors, DoorNext(d)
  PROVE  LedgerInv'
<1> USE OrdersAssumption, NumbersAssumption
    DEF TypeOK, EventTypeOK, OrderTypeOK, HandlerTypeOK, HistoryTypeOK, Status,
        CheckoutStep, HookStep, CleanStep, RefundStep, eventVars, orderVars, stripeVars,
        coVars, hookVars, cleanVars, refundVars, doorVars, historyVars, LifeInv,
        RequestInv, RefundInv, Claimed, SecondInv, HookInv, SweepInv, Begun, Settled,
        OneRefundAtATime, LedgerInv, Count, HoldsSeats, Releasing, Reclaiming, Sweeps,
        Refunding
<1>1. ASSUME NEW p \in Orders, DoorRead(d, p) PROVE LedgerInv'
  BY <1>1 DEF DoorRead
<1>2. CASE DoorCommit(d)
  BY <1>2 DEF DoorCommit
<1>3. CASE DoorTooLate(d)
  BY <1>3 DEF DoorTooLate
<1> QED
  BY <1>1, <1>2, <1>3 DEF DoorNext

\* The edits of the event leave tickets_sold_count alone.
LEMMA AdminLedger ==
  ASSUME TypeOK, LifeInv, SecondInv, LedgerInv, SetEventOpen \/ UpdateCapacity \/ UNCHANGED vars
  PROVE  LedgerInv'
<1> USE OrdersAssumption, NumbersAssumption
    DEF TypeOK, EventTypeOK, OrderTypeOK, HandlerTypeOK, HistoryTypeOK, Status,
        CheckoutStep, HookStep, CleanStep, RefundStep, eventVars, orderVars, stripeVars,
        coVars, hookVars, cleanVars, refundVars, doorVars, historyVars, LifeInv,
        RequestInv, RefundInv, Claimed, SecondInv, HookInv, SweepInv, Begun, Settled,
        OneRefundAtATime, LedgerInv, Count, HoldsSeats, Releasing, Reclaiming, Sweeps,
        Refunding
<1>1. CASE SetEventOpen
  BY <1>1 DEF SetEventOpen
<1>2. CASE UpdateCapacity
  BY <1>2 DEF UpdateCapacity
<1>3. CASE UNCHANGED vars
  BY <1>3 DEF vars
<1> QED
  BY <1>1, <1>2, <1>3

-----------------------------------------------------------------------------
(* The invariant, and what follows from it *)

\* A new season satisfies the invariant.
LEMMA InitInv == Init => IInv
<1> SUFFICES ASSUME Init PROVE IInv
  OBVIOUS
<1>1. TypeOK
  BY InitType
<1>2. LifeInv
  BY OrdersAssumption, NumbersAssumption
     DEF Init, LifeInv, RequestInv, AgeInv, CompInv, RefundInv, OneRefundAtATime, Claimed
<1>3. SecondInv
  BY DEF Init, SecondInv, HookInv, SweepInv, FulfilInv
<1>4. LedgerInv
  BY DEF Init, LedgerInv, Count, HoldsSeats, Releasing, Reclaiming, Sweeps, Refunding,
         Claimed
<1> QED
  BY <1>1, <1>2, <1>3, <1>4 DEF IInv

\* Every step keeps it.
LEMMA NextInv == IInv /\ [Next]_vars => IInv'
<1> SUFFICES ASSUME IInv, [Next]_vars PROVE IInv'
  OBVIOUS
<1> USE DEF IInv
<1>1. TypeOK'
  BY NextType
<1>2. LifeInv'
  BY CheckoutLife, StripeLife, HookLife, CleanupLife, RefundLife, DoorLife, AdminLife
     DEF Next
<1>3. SecondInv'
  BY CheckoutSecond, StripeSecond, HookSecond, CleanupSecond, RefundSecond, DoorSecond,
     AdminSecond DEF Next
<1>4. LedgerInv'
  BY CheckoutLedger, StripeLedger, HookLedger, CleanupLedger, RefundLedger,
     DoorLedger, AdminLedger DEF Next
<1> QED
  BY <1>1, <1>2, <1>3, <1>4

\* The inductive invariant holds throughout.
THEOREM Inductive == Spec => []IInv
<1> QED
  BY InitInv, NextInv, PTL DEF Spec

\* When the checkout's rollback, both expiry paths, late payments and refunds
\* are done with an order on which no invocation was lost, its seats count
\* in tickets_sold_count exactly if the order is pending or paid.
THEOREM LedgerSettles == Spec => []SettledLedger
<1>1. IInv => SettledLedger
  <2> SUFFICES ASSUME IInv, NEW o \in Orders, Quiet(o), ~hit[o]
               PROVE  ledger[o] = IF HoldsSeats(o) THEN 1 ELSE 0
    BY DEF SettledLedger
  <2>1. co[o] # "reserved" /\ co[o] # "released"
    BY DEF Quiet
  <2>2. ~Releasing(o) /\ ~Reclaiming(o) /\ ~Sweeps(o) /\ ~Refunding(o)
    BY DEF Quiet, Releasing, Reclaiming, Sweeps, Refunding, Claimed
  <2> QED
    BY <2>1, <2>2 DEF IInv, LedgerInv, Count
<1> QED
  BY Inductive, <1>1, PTL

\* However often Stripe redelivers, and whether or not a refund is undone,
\* fulfill_order runs at most once for an order.
THEOREM FulfilsOnce == Spec => []FulfilledOnce
<1>1. IInv => FulfilledOnce
  BY DEF IInv, SecondInv, FulfilInv, FulfilledOnce
<1> QED
  BY Inductive, <1>1, PTL

\* Of any number of clicks on Refund, one at a time calls Stripe or gives
\* seats back.
THEOREM RefundsOneAtATime == Spec => []OneRefundAtATime
<1>1. IInv => OneRefundAtATime
  BY DEF IInv, LifeInv, RefundInv
<1> QED
  BY Inductive, <1>1, PTL

\* Since a session is shorter than the cleanup's grace, an order that was
\* given up cannot be paid for any more.
THEOREM GivenUpUnpayable == Spec => []GivenUpIsUnpayable
<1>1. IInv => GivenUpIsUnpayable
  BY DEF IInv, LifeInv, AgeInv, GivenUpIsUnpayable
<1> QED
  BY Inductive, <1>1, PTL
=============================================================================
