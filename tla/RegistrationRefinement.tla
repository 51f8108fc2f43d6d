------------------------ MODULE RegistrationRefinement ------------------------
(***************************************************************************)
(* Registration implements BoxOffice, for every set of orders and          *)
(* invocations, if Stripe's answers arrive.  (If the answer to a refund is *)
(* lost it does not: see the run RegRefundLostReply.)                      *)
(***************************************************************************)
EXTENDS RegistrationSafety

-----------------------------------------------------------------------------
(* Money *)


\* A request takes no money, and sells comps only.
LEMMA CheckoutMoney ==
  ASSUME LostReplies = FALSE, TypeOK, LifeInv, MoneyInv, NEW p \in Orders, CheckoutNext(p)
  PROVE  MoneyInv'
<1> USE OrdersAssumption, NumbersAssumption
    DEF TypeOK, OrderTypeOK, StripeTypeOK, HandlerTypeOK, Status, CheckoutStep,
        RefundStep, eventVars, orderVars, stripeVars, coVars, hookVars, cleanVars,
        refundVars, doorVars, LifeInv, RequestInv, AgeInv, CompInv, RefundInv,
        OneRefundAtATime, Claimed, Settled, MoneyInv, CoStep, SetStatus
<1>1. CASE CheckoutRead(p)
  BY <1>1 DEF CheckoutRead
<1>2. CASE CheckoutReserve(p)
  BY <1>2 DEF CheckoutReserve
<1>3. CASE CheckoutTooLate(p)
  BY <1>3 DEF CheckoutTooLate
<1>4. CASE CheckoutPutOrder(p)
  BY <1>4 DEF CheckoutPutOrder
<1>5. CASE CheckoutCreateSession(p)
  BY <1>5 DEF CheckoutCreateSession
<1>6. CASE CheckoutSessionRaises(p)
  BY <1>6 DEF CheckoutSessionRaises
<1>7. CASE CheckoutRollback(p)
  BY <1>7 DEF CheckoutRollback
<1>8. CASE CheckoutCancel(p)
  BY <1>8 DEF CheckoutCancel
<1>9. CASE CheckoutRedirect(p)
  BY <1>9 DEF CheckoutRedirect
<1>10. CASE CheckoutLost(p)
  BY <1>10 DEF CheckoutLost
<1>11. CASE GiveReserve(p)
  BY <1>11 DEF GiveReserve
<1>12. CASE GivePutOrder(p)
  BY <1>12 DEF GivePutOrder
<1>13. CASE GiveFulfil(p)
  BY <1>13 DEF GiveFulfil
<1>14. CASE GiveFulfilRaises(p)
  BY <1>14 DEF GiveFulfilRaises
<1>15. CASE GiveFlag(p)
  BY <1>15 DEF GiveFlag
<1> QED
  BY <1>1, <1>2, <1>3, <1>4, <1>5, <1>6, <1>7, <1>8, <1>9, <1>10,
     <1>11, <1>12, <1>13, <1>14, <1>15 DEF CheckoutNext

\* Stripe captures the money of an open session.
LEMMA StripeMoney ==
  ASSUME LostReplies = FALSE, TypeOK, LifeInv, MoneyInv, NEW p \in Orders, StripeNext(p)
  PROVE  MoneyInv'
<1> USE OrdersAssumption, NumbersAssumption
    DEF TypeOK, OrderTypeOK, StripeTypeOK, HandlerTypeOK, Status, CheckoutStep,
        RefundStep, eventVars, orderVars, stripeVars, coVars, hookVars, cleanVars,
        refundVars, doorVars, LifeInv, RequestInv, AgeInv, CompInv, RefundInv,
        OneRefundAtATime, Claimed, Settled, MoneyInv
<1>1. CASE SessionPaid(p)
  BY <1>1 DEF SessionPaid
<1>2. CASE SessionExpires(p)
  BY <1>2 DEF SessionExpires
<1>3. CASE Tick(p)
  BY <1>3 DEF Tick
<1> QED
  BY <1>1, <1>2, <1>3 DEF StripeNext

\* A delivery sells an order whose session is paid.
LEMMA HookMoney ==
  ASSUME LostReplies = FALSE, TypeOK, LifeInv, MoneyInv, NEW g \in Hooks, HookNext(g)
  PROVE  MoneyInv'
<1> USE OrdersAssumption, NumbersAssumption
    DEF TypeOK, OrderTypeOK, StripeTypeOK, HandlerTypeOK, Status, CheckoutStep,
        RefundStep, eventVars, orderVars, stripeVars, coVars, hookVars, cleanVars,
        refundVars, doorVars, LifeInv, RequestInv, AgeInv, CompInv, RefundInv,
        OneRefundAtATime, Claimed, Settled, MoneyInv, HookEnters,
        HookLeaves, SetStatus
<1>1. ASSUME NEW p \in Orders, MarkPaid(g, p) PROVE MoneyInv'
  BY <1>1 DEF MarkPaid, CanBePaid
<1>2. ASSUME NEW p \in Orders, MarkExpired(g, p) PROVE MoneyInv'
  BY <1>2 DEF MarkExpired, CanExpire
<1>3. CASE HookReclaim(g)
  BY <1>3 DEF HookReclaim
<1>4. CASE HookFulfil(g)
  BY <1>4 DEF HookFulfil
<1>5. CASE HookFulfilRaises(g)
  BY <1>5 DEF HookFulfilRaises
<1>6. CASE HookFlag(g)
  BY <1>6 DEF HookFlag
<1>7. CASE HookRelease(g)
  BY <1>7 DEF HookRelease
<1>8. CASE HookLost(g)
  BY <1>8 DEF HookLost
<1> QED
  BY <1>1, <1>2, <1>3, <1>4, <1>5, <1>6, <1>7, <1>8 DEF HookNext

\* The cleanup sells nothing.
LEMMA CleanupMoney ==
  ASSUME LostReplies = FALSE, TypeOK, LifeInv, MoneyInv, CleanupNext
  PROVE  MoneyInv'
<1> USE OrdersAssumption, NumbersAssumption
    DEF TypeOK, OrderTypeOK, StripeTypeOK, HandlerTypeOK, Status, CheckoutStep,
        RefundStep, eventVars, orderVars, stripeVars, coVars, hookVars, cleanVars,
        refundVars, doorVars, LifeInv, RequestInv, AgeInv, CompInv, RefundInv,
        OneRefundAtATime, Claimed, Settled, MoneyInv, SetStatus, Stale
<1>1. CASE CleanupScan
  BY <1>1 DEF CleanupScan
<1>2. ASSUME NEW p \in Orders, CleanupExpire(p) PROVE MoneyInv'
  BY <1>2 DEF CleanupExpire, StillPending
<1>3. ASSUME NEW p \in Orders, CleanupSkip(p) PROVE MoneyInv'
  BY <1>3 DEF CleanupSkip
<1>4. CASE CleanupRelease
  BY <1>4 DEF CleanupRelease
<1>5. CASE CleanupLost
  BY <1>5 DEF CleanupLost
<1> QED
  BY <1>1, <1>2, <1>3, <1>4, <1>5 DEF CleanupNext

\* A refund returns the money of an order it claimed, or puts the order back with its
\* money still captured.
LEMMA RefundMoney ==
  ASSUME LostReplies = FALSE, TypeOK, LifeInv, MoneyInv, NEW q \in Refunders, RefundNext(q)
  PROVE  MoneyInv'
<1> USE OrdersAssumption, NumbersAssumption
    DEF TypeOK, OrderTypeOK, StripeTypeOK, HandlerTypeOK, Status, CheckoutStep,
        RefundStep, eventVars, orderVars, stripeVars, coVars, hookVars, cleanVars,
        refundVars, doorVars, LifeInv, RequestInv, AgeInv, CompInv, RefundInv,
        OneRefundAtATime, Claimed, Settled, MoneyInv,
        RefundEnters, RefundLeaves, RefundGoes, SetStatus, CanRefund, Refundable
<1>1. ASSUME NEW p \in Orders, RefundRead(q, p) PROVE MoneyInv'
  BY <1>1 DEF RefundRead
<1>2. CASE RefundClaim(q)
  BY <1>2 DEF RefundClaim
<1>3. CASE RefundDenied(q)
  BY <1>3 DEF RefundDenied
<1>4. CASE RefundStripe(q)
  BY <1>4 DEF RefundStripe
<1>5. CASE RefundStripeRaises(q)
  BY <1>5 DEF RefundStripeRaises
<1>6. CASE RefundRestore(q)
  BY <1>6 DEF RefundRestore
<1>7. CASE RefundRelease(q)
  BY <1>7 DEF RefundRelease
<1>8. CASE RefundLost(q)
  BY <1>8 DEF RefundLost
<1> QED
  BY <1>1, <1>2, <1>3, <1>4, <1>5, <1>6, <1>7, <1>8 DEF RefundNext

\* A door moves no money.
LEMMA DoorMoney ==
  ASSUME LostReplies = FALSE, TypeOK, LifeInv, MoneyInv, NEW d \in Doors, DoorNext(d)
  PROVE  MoneyInv'
<1> USE OrdersAssumption, NumbersAssumption
    DEF TypeOK, OrderTypeOK, StripeTypeOK, HandlerTypeOK, Status, CheckoutStep,
        RefundStep, eventVars, orderVars, stripeVars, coVars, hookVars, cleanVars,
        refundVars, doorVars, LifeInv, RequestInv, AgeInv, CompInv, RefundInv,
        OneRefundAtATime, Claimed, Settled, MoneyInv
<1>1. ASSUME NEW p \in Orders, DoorRead(d, p) PROVE MoneyInv'
  BY <1>1 DEF DoorRead
<1>2. CASE DoorCommit(d)
  BY <1>2 DEF DoorCommit
<1>3. CASE DoorTooLate(d)
  BY <1>3 DEF DoorTooLate
<1> QED
  BY <1>1, <1>2, <1>3 DEF DoorNext

\* Neither do the edits of the event.
LEMMA AdminMoney ==
  ASSUME LostReplies = FALSE, TypeOK, LifeInv, MoneyInv, SetEventOpen \/ UpdateCapacity \/ UNCHANGED vars
  PROVE  MoneyInv'
<1> USE OrdersAssumption, NumbersAssumption
    DEF TypeOK, OrderTypeOK, StripeTypeOK, HandlerTypeOK, Status, CheckoutStep,
        RefundStep, eventVars, orderVars, stripeVars, coVars, hookVars, cleanVars,
        refundVars, doorVars, LifeInv, RequestInv, AgeInv, CompInv, RefundInv,
        OneRefundAtATime, Claimed, Settled, MoneyInv
<1>1. CASE SetEventOpen
  BY <1>1 DEF SetEventOpen
<1>2. CASE UpdateCapacity
  BY <1>2 DEF UpdateCapacity
<1>3. CASE UNCHANGED vars
  BY <1>3 DEF vars
<1> QED
  BY <1>1, <1>2, <1>3

\* Without lost answers every order's status and money agree throughout.
LEMMA MoneyAgrees ==
  ASSUME LostReplies = FALSE
  PROVE  Spec => []MoneyInv
<1>1. Init => MoneyInv
  BY DEF Init, MoneyInv, Settled
<1>2. ASSUME IInv, MoneyInv, [Next]_vars PROVE MoneyInv'
  BY <1>2, CheckoutMoney, StripeMoney, HookMoney, CleanupMoney, RefundMoney, DoorMoney,
     AdminMoney DEF Next, IInv
<1> QED
  BY Inductive, <1>1, <1>2, PTL DEF Spec

-----------------------------------------------------------------------------
(* Steps *)

BoxStep == [Box!BoxNext]_(Box!boxVars)

\* The stage of each status.
LEMMA StageOf ==
  /\ Stage("none") = "none"
  /\ Stage("pending") = "held"
  /\ Stage("expired") = "lapsed"
  /\ Stage("canceled") = "lapsed"
  /\ Stage("paid") = "sold"
  /\ Stage("refunded") = "void"
<1> QED
  BY DEF Stage

\* A step that moves neither a status nor money is a stutter of the box office.
LEMMA Stutters ==
  ASSUME UNCHANGED <<status, money>>
  PROVE  BoxStep
<1> QED
  BY DEF BoxStep, Box!boxVars

\* A write of one status moves one stage.
LEMMA StageMoves ==
  ASSUME TypeOK, NEW o \in Orders, NEW from, NEW s \in Status, SetStatus(o, s),
         Stage(status[o]) \in from, UNCHANGED money
  PROVE  Box!Moves(o, from, Stage(s))
<1> QED
  BY DEF TypeOK, OrderTypeOK, SetStatus, Box!Moves

\* Ordinary orders are held, comps given away, and a failed checkout lapses.
LEMMA CheckoutSteps ==
  ASSUME IInv, NEW o \in Orders, CheckoutNext(o)
  PROVE  BoxStep
<1> USE DEF IInv, LifeInv, RequestInv, CoStep, Status, orderVars, stripeVars
<1>1. CASE CheckoutPutOrder(o)
  <2>1. Box!Moves(o, {"none"}, "held")
    BY <1>1, StageMoves, StageOf DEF CheckoutPutOrder
  <2> QED
    BY <1>1, <2>1 DEF CheckoutPutOrder, BoxStep, Box!BoxNext, Box!Hold
<1>2. CASE GivePutOrder(o)
  <2>1. Box!Moves(o, {"none"}, "sold")
    BY <1>2, StageMoves, StageOf DEF GivePutOrder
  <2> QED
    BY <1>2, <2>1 DEF GivePutOrder, BoxStep, Box!BoxNext, Box!GiveAway
<1>3. CASE CheckoutCancel(o)
  <2>1. Box!Moves(o, {"held"}, "lapsed")
    BY <1>3, StageMoves, StageOf DEF CheckoutCancel
  <2> QED
    BY <2>1 DEF BoxStep, Box!BoxNext, Box!Lapse
<1>4. ASSUME ~CheckoutPutOrder(o), ~GivePutOrder(o), ~CheckoutCancel(o)
      PROVE  UNCHANGED <<status, money>>
  BY <1>4 DEF CheckoutNext, CheckoutRead, CheckoutReserve, CheckoutTooLate,
              CheckoutCreateSession, CheckoutSessionRaises, CheckoutRollback,
              CheckoutRedirect, CheckoutLost, GiveReserve, GiveFulfil,
              GiveFulfilRaises, GiveFlag
<1> QED
  BY <1>1, <1>2, <1>3, <1>4, Stutters

\* Money is captured for an order that is still held.
LEMMA StripeSteps ==
  ASSUME IInv, MoneyInv, NEW o \in Orders, StripeNext(o)
  PROVE  BoxStep
<1> USE DEF IInv, TypeOK, StripeTypeOK, orderVars, stripeVars
<1>1. CASE SessionPaid(o)
  <2>1. status[o] = "pending" /\ money[o] = "none"
    BY <1>1 DEF SessionPaid, LifeInv, AgeInv, MoneyInv
  <2>2. Box!Capture(o)
    BY <1>1, <2>1, StageOf DEF SessionPaid, Box!Capture, Box!Pays
  <2> QED
    BY <2>2 DEF BoxStep, Box!BoxNext
<1>2. CASE SessionExpires(o) \/ Tick(o)
  BY <1>2, Stutters DEF SessionExpires, Tick
<1> QED
  BY <1>1, <1>2 DEF StripeNext

\* Orders are sold for captured money, even late ones; a session's expiry lapses them.
LEMMA HookSteps ==
  ASSUME IInv, MoneyInv, NEW h \in Hooks, HookNext(h)
  PROVE  BoxStep
<1> USE DEF IInv, Status, orderVars, stripeVars
<1>1. ASSUME NEW o \in Orders, MarkPaid(h, o) PROVE BoxStep
  <2>1. money[o] = "captured"
    BY <1>1 DEF MarkPaid, CanBePaid, MoneyInv, Settled, TypeOK, StripeTypeOK
  <2>2. Box!Moves(o, {"held", "lapsed"}, "sold")
    BY <1>1, StageMoves, StageOf DEF MarkPaid, CanBePaid
  <2> QED
    BY <2>1, <2>2 DEF BoxStep, Box!BoxNext, Box!Sell
<1>2. ASSUME NEW o \in Orders, MarkExpired(h, o) PROVE BoxStep
  <2>1. Box!Moves(o, {"held"}, "lapsed")
    BY <1>2, StageMoves, StageOf DEF MarkExpired, CanExpire
  <2> QED
    BY <2>1 DEF BoxStep, Box!BoxNext, Box!Lapse
<1>3. ASSUME HookReclaim(h) \/ HookFulfil(h) \/ HookFulfilRaises(h) \/ HookFlag(h)
               \/ HookRelease(h) \/ HookLost(h)
      PROVE  UNCHANGED <<status, money>>
  BY <1>3 DEF HookReclaim, HookFulfil, HookFulfilRaises, HookFlag, HookRelease, HookLost
<1> QED
  BY <1>1, <1>2, <1>3, Stutters DEF HookNext

\* The cleanup lapses orders that are still held.
LEMMA CleanupSteps ==
  ASSUME IInv, CleanupNext
  PROVE  BoxStep
<1> USE DEF IInv, Status, orderVars, stripeVars
<1>1. ASSUME NEW o \in Orders, CleanupExpire(o) PROVE BoxStep
  <2>1. Box!Moves(o, {"held"}, "lapsed")
    BY <1>1, StageMoves, StageOf DEF CleanupExpire, StillPending
  <2> QED
    BY <2>1 DEF BoxStep, Box!BoxNext, Box!Lapse
<1>2. ASSUME NEW o \in Orders, CleanupSkip(o) PROVE UNCHANGED <<status, money>>
  BY <1>2 DEF CleanupSkip
<1>3. ASSUME CleanupScan \/ CleanupRelease \/ CleanupLost
      PROVE  UNCHANGED <<status, money>>
  BY <1>3 DEF CleanupScan, CleanupRelease, CleanupLost
<1> QED
  BY <1>1, <1>2, <1>3, Stutters DEF CleanupNext

\* A refund voids the order, and then gives the money back or reinstates it.
LEMMA RefundSteps ==
  ASSUME LostReplies = FALSE, IInv, MoneyInv, NEW r \in Refunders, RefundNext(r)
  PROVE  BoxStep
<1> DEFINE o == refOrder[r]
<1> USE DEF IInv, Status, orderVars, stripeVars
<1>1. refAt[r] # "idle" => o \in Orders
  BY DEF TypeOK
<1>2. refAt[r] \in {"stripe", "restore"} =>
        /\ status[o] = "refunded"
        /\ o \notin CompOrders
        /\ money[o] = "captured"
  BY DEF MoneyInv, LifeInv, RefundInv, Claimed
<1>3. CASE RefundClaim(r)
  <2>1. Box!Moves(o, {"sold"}, "void")
    BY <1>1, <1>3, StageMoves, StageOf DEF RefundClaim, CanRefund
  <2> QED
    BY <1>1, <1>3, <2>1 DEF RefundClaim, BoxStep, Box!BoxNext, Box!Void
<1>4. CASE RefundStripe(r)
  <2>1. Box!GiveBack(o)
    BY <1>1, <1>2, <1>4, StageOf DEF RefundStripe, Box!GiveBack, Box!Pays
  <2> QED
    BY <1>1, <1>4, <2>1 DEF RefundStripe, BoxStep, Box!BoxNext
<1>5. CASE RefundRestore(r)
  <2>1. Box!Moves(o, {"void"}, "sold")
    BY <1>1, <1>2, <1>5, StageMoves, StageOf DEF RefundRestore
  <2> QED
    BY <1>1, <1>2, <1>5, <2>1 DEF RefundRestore, BoxStep, Box!BoxNext, Box!Reinstate
<1>6. ASSUME NEW p \in Orders, RefundRead(r, p) PROVE UNCHANGED <<status, money>>
  BY <1>6 DEF RefundRead
<1>7. ASSUME RefundDenied(r) \/ RefundStripeRaises(r) \/ RefundRelease(r) \/ RefundLost(r)
      PROVE  UNCHANGED <<status, money>>
  BY <1>7 DEF RefundDenied, RefundStripeRaises, RefundRelease, RefundLost
<1> QED
  BY <1>3, <1>4, <1>5, <1>6, <1>7, Stutters DEF RefundNext

\* Doors, edits of the event and steps in which nothing happens are stutters.
LEMMA OtherSteps ==
  ASSUME \/ \E d \in Doors : DoorNext(d)
         \/ SetEventOpen
         \/ UpdateCapacity
         \/ UNCHANGED vars
  PROVE  BoxStep
<1> USE DEF orderVars, stripeVars
<1>1. ASSUME NEW d \in Doors, DoorNext(d) PROVE UNCHANGED <<status, money>>
  BY <1>1 DEF DoorNext, DoorRead, DoorCommit, DoorTooLate
<1>2. ASSUME SetEventOpen \/ UpdateCapacity \/ UNCHANGED vars
      PROVE  UNCHANGED <<status, money>>
  BY <1>2 DEF SetEventOpen, UpdateCapacity, vars
<1> QED
  BY <1>1, <1>2, Stutters

-----------------------------------------------------------------------------
(* Refinement *)

\* If Stripe's answers arrive, every run of the handlers, however they
\* interleave and wherever they are lost, is a run of the box office.
THEOREM Implements ==
  ASSUME LostReplies = FALSE
  PROVE  Spec => ImplementsBoxOffice
<1>1. Init => Box!BoxInit
  BY StageOf DEF Init, Box!BoxInit
<1>2. ASSUME IInv, MoneyInv, [Next]_vars PROVE BoxStep
  BY <1>2, CheckoutSteps, StripeSteps, HookSteps, CleanupSteps, RefundSteps, OtherSteps
     DEF Next
<1> QED
  BY Inductive, MoneyAgrees, <1>1, <1>2, PTL
     DEF Spec, BoxStep, ImplementsBoxOffice, Box!BoxSpec

\* A paid order is a comp or has its buyer's money, and money that went back
\* left its order refunded, in the middle of a refund as much as at rest.
THEOREM TicketsArePaid ==
  ASSUME LostReplies = FALSE
  PROVE  Spec => []TicketsPaidFor
<1>1. ASSUME IInv, MoneyInv PROVE TicketsPaidFor
  <2> SUFFICES ASSUME NEW o \in Orders
               PROVE  /\ Stage(status[o]) = "sold" => o \in CompOrders \/ money[o] = "captured"
                      /\ money[o] = "returned" => Stage(status[o]) = "void"
    BY DEF TicketsPaidFor, Box!TicketsArePaidFor
  <2>1. status[o] \in Status
    BY <1>1 DEF IInv, TypeOK, OrderTypeOK
  <2>2. Stage(status[o]) = "sold" => status[o] = "paid"
    BY <2>1, StageOf DEF Status
  <2>3. money[o] = "returned" => Settled(o) /\ (status[o] = "paid" => o \in CompOrders)
    BY <1>1 DEF MoneyInv
  <2>4. o \in CompOrders => money[o] = "none"
    BY <1>1 DEF IInv, LifeInv, CompInv, MoneyInv
  <2> QED
    BY <1>1, <2>2, <2>3, <2>4, StageOf DEF MoneyInv, Settled
<1> QED
  BY Inductive, MoneyAgrees, <1>1, PTL
=============================================================================
