------------------------------- MODULE CheckIn -------------------------------
(***************************************************************************)
(* POST /admin/checkin/{order_id}: the door reads the order, decides       *)
(* whether it may enter, and commits the check-in with a second call.      *)
(***************************************************************************)
EXTENDS OrderStore

\* _resolve_checkin_order: anything but a paid order is "voided".
_resolve_checkin_order(o) == status[o] = "paid"

DoorRead(d, o) ==
  /\ doorAt[d] = "idle"
  /\ _resolve_checkin_order(o)
  /\ ~checked_in[o]
  /\ doorAt' = [doorAt EXCEPT ![d] = "commit"]
  /\ doorOrder' = [doorOrder EXCEPT ![d] = o]
  /\ UNCHANGED <<eventVars, orderVars, age, stripeVars, coVars, hookVars, cleanVars,
                 refundVars, historyVars>>

\* For mutation: the write trusts what DoorRead saw.
AsReadBefore(o) == status[o] \in Status
\* The condition of the write: "only one confirm may win".
NotYetCheckedIn(o) == ~checked_in[o]

DoorLeaves(d) ==
  /\ doorAt' = [doorAt EXCEPT ![d] = "idle"]
  /\ doorOrder' = [doorOrder EXCEPT ![d] = NoOrder]

DoorCommit(d) ==
  LET o == doorOrder[d] IN
  /\ doorAt[d] = "commit"
  /\ NotYetCheckedIn(o)
  /\ checked_in' = [checked_in EXCEPT ![o] = TRUE]
  /\ admitted' = [admitted EXCEPT ![o] = @ + 1]
  /\ DoorLeaves(d)
  /\ UNCHANGED <<eventVars, status, quantity, payment_intent, fulfillment_error, age,
                 stripeVars, coVars, hookVars, cleanVars, refundVars, ledger,
                 fulfilments, mailed, late, offered, hit, crashes>>

\* The other door just won: "already_checked_in".
DoorTooLate(d) ==
  /\ doorAt[d] = "commit"
  /\ ~NotYetCheckedIn(doorOrder[d])
  /\ DoorLeaves(d)
  /\ UNCHANGED <<eventVars, orderVars, age, stripeVars, coVars, hookVars, cleanVars,
                 refundVars, historyVars>>

DoorNext(d) ==
  \/ \E o \in Orders : DoorRead(d, o)
  \/ DoorCommit(d) \/ DoorTooLate(d)
=============================================================================
