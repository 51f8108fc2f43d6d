------------------------ MODULE RegistrationInvariants ------------------------
(***************************************************************************)
(* Why Registration keeps its promises: what is true of each order at each *)
(* step of each invocation.  The conjunction is inductive; no definition   *)
(* here models code.                                                       *)
(***************************************************************************)
EXTENDS Registration

\* The status goes to pending once, and only from there to any other one.
Begun(o)   == status[o] \notin {"none", "pending"}
Settled(o) == status[o] \in {"paid", "refunded"}

Releasing(o)  == \E h \in Hooks : hookOrder[h] = o /\ hookAt[h] = "release"
Reclaiming(o) == \E h \in Hooks : hookOrder[h] = o /\ hookAt[h] = "reclaim"
Sweeps(o)     == cleanAt = "release" /\ cleanOrder = o
Claimed(r)    == refAt[r] \in {"stripe", "restore", "release"}
Refunding(o)  == \E r \in Refunders : refOrder[r] = o /\ Claimed(r)

-----------------------------------------------------------------------------
\* A request that is still running is alone with its order: the order is not
\* old enough for the cleanup, and its session neither paid nor expired.
RequestInv ==
  \A o \in Orders :
    /\ co[o] \in {"idle", "read", "reserved"} => status[o] = "none" /\ session[o] = "none"
    /\ co[o] \in {"placed", "failed", "released", "opened"} =>
         status[o] = "pending" /\ session[o] \in {"none", "open"}
    /\ co[o] \in {"fulfil", "flag"} => Settled(o)
    /\ co[o] \notin {"redirected", "ended"} => age[o] = 0

\* Time: the cleanup holds only orders whose session is over.
AgeInv ==
  \A o \in Orders :
    /\ o \in batch => age[o] >= CleanupGrace
    /\ session[o] = "open" => age[o] <= SessionTTL
    /\ session[o] = "open" /\ co[o] = "redirected" => status[o] = "pending"

\* A comp never has a session.
CompInv ==
  \A o \in CompOrders :
    /\ session[o] = "none"
    /\ co[o] \in {"idle", "reserved", "fulfil", "flag", "ended"}

\* A claimed refund owns its order.
RefundInv ==
  /\ \A r \in Refunders : Claimed(r) => status[refOrder[r]] = "refunded"
  /\ OneRefundAtATime

LifeInv == RequestInv /\ AgeInv /\ CompInv /\ RefundInv

-----------------------------------------------------------------------------
\* What made an invocation do its second write cannot happen again.
HookInv ==
  \A h \in Hooks :
    /\ hookAt[h] = "release" => Begun(hookOrder[h])
    /\ hookAt[h] \in {"reclaim", "fulfil", "flag"} => Settled(hookOrder[h])
    /\ \A k \in Hooks \ {h} : hookOrder[h] = hookOrder[k] =>
         /\ ~ (hookAt[h] = "release" /\ hookAt[k] = "release")
         /\ ~ (/\ hookAt[h] \in {"reclaim", "fulfil", "flag"}
               /\ hookAt[k] \in {"reclaim", "fulfil", "flag"})

SweepInv == cleanAt = "release" => Begun(cleanOrder)

\* An order whose fulfilment is still to come has had none.
FulfilInv ==
  /\ \A o \in Orders :
       /\ ~Settled(o) => fulfilments[o] = 0
       /\ co[o] = "fulfil" => fulfilments[o] = 0
       /\ fulfilments[o] <= 1
  /\ \A h \in Hooks :
       hookAt[h] \in {"reclaim", "fulfil"} =>
         fulfilments[hookOrder[h]] = 0 /\ co[hookOrder[h]] # "fulfil"

SecondInv == HookInv /\ SweepInv /\ FulfilInv

-----------------------------------------------------------------------------
Count(p) == IF p THEN 1 ELSE 0

\* The seats an order should count for, corrected by what is still under way.
LedgerInv ==
  \A o \in Orders : ~hit[o] =>
    ledger[o] = Count(HoldsSeats(o)) + Count(co[o] = "reserved") - Count(co[o] = "released")
                + Count(Releasing(o)) + Count(Sweeps(o)) + Count(Refunding(o))
                - Count(Reclaiming(o))

\* Money follows the status, as long as Stripe's answers arrive.
MoneyInv ==
  /\ \A o \in Orders :
       /\ money[o] # "none" <=> session[o] = "paid"
       /\ ~Settled(o) => money[o] # "returned"
       /\ o \notin CompOrders /\ status[o] = "paid" => money[o] = "captured"
  /\ \A r \in Refunders : refAt[r] \in {"stripe", "restore"} =>
       refOrder[r] \notin CompOrders /\ money[refOrder[r]] = "captured"

\* What each order has in tickets_sold_count: nothing before its reservation,
\* then its seats, once more or less with each write.
Booked == [o \in Orders |-> ledger[o] * quantity[o]]
CountInv ==
  /\ \A o \in Orders : co[o] \in {"idle", "read"} => ledger[o] = 0
  /\ Summable(Orders, Booked)
  /\ tickets_sold_count = Total(Orders, Booked)

\* Once an invocation was lost, or the refund of a late payment is through, an
\* order may have less than nothing in tickets_sold_count.
Disturbed(o) == hit[o] \/ (late[o] /\ status[o] = "refunded" /\ ~Refunding(o))
Undisturbed == \A o \in Orders : ~Disturbed(o)

\* The orders whose seats the reservation's condition let in.
Admitted == {o \in Orders \ CompOrders : ~late[o] /\ ledger[o] > 0}
ReclaimsLate == \A h \in Hooks : hookAt[h] = "reclaim" => late[hookOrder[h]]
RoomInv ==
  /\ capacity <= offered
  /\ \A o \in Orders : co[o] = "read" => seen[o] <= offered
  /\ ReclaimsLate
  /\ Undisturbed => Admitted = {} \/ Seats(Admitted) <= offered

IInv == TypeOK /\ LifeInv /\ SecondInv /\ LedgerInv
=============================================================================
