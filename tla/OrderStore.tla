------------------------------ MODULE OrderStore ------------------------------
(***************************************************************************)
(* The state the registration handlers share: one event's item in the      *)
(* Events table, its orders in the Orders table, what Stripe holds for     *)
(* each order, and the points at which concurrent Lambda invocations stand.*)
(*                                                                         *)
(* DynamoDB applies every put_item / update_item atomically, so one        *)
(* conditional write is one step.  Everything between two writes of a      *)
(* handler can interleave with every other invocation.                     *)
(***************************************************************************)
EXTENDS Integers, FiniteSets

CONSTANTS
  Orders,         \* order ids: one per checkout or comp request
  CompOrders,     \* the ids minted by the admin's give-tickets page
  Hooks,          \* concurrent invocations of the Stripe webhook
  Refunders,      \* concurrent invocations of the admin's refund button
  Doors,          \* concurrent check-in confirmations
  NoOrder,        \* "this invocation works on no order"
  MaxTickets,     \* MAX_TICKETS_PER_ORDER
  Capacities,     \* bound: the capacities an admin ever types in
  SessionTTL,     \* RESERVATION_TTL_MINUTES, in ticks of an order's age
  CleanupGrace,   \* CLEANUP_GRACE_MINUTES, in the same ticks
  MaxCrashes,     \* bound: invocations lost half way (Lambda timeout, 5xx)
  LostReplies     \* may a Stripe call succeed and still raise in the caller?

ASSUME OrdersAssumption ==
  /\ CompOrders \subseteq Orders
  /\ NoOrder \notin Orders
ASSUME NumbersAssumption ==
  /\ MaxTickets \in Nat \ {0}
  /\ Capacities \subseteq Int
  /\ SessionTTL \in Nat \ {0}
  /\ CleanupGrace \in Nat
  /\ MaxCrashes \in Nat
ASSUME GraceAssumption == SessionTTL < CleanupGrace
ASSUME LostRepliesAssumption == LostReplies \in BOOLEAN

VARIABLES
  \* the event's item
  capacity, tickets_sold_count, registration_open,
  \* the orders' items; status "none" is "no such item yet"
  status, quantity, payment_intent, checked_in, fulfillment_error,
  \* ticks since an order's created_at, capped at CleanupGrace
  age,
  \* Stripe: the Checkout session of an order, and its money
  session, money,
  \* the checkout or give-tickets request that makes an order
  co, seen,
  \* the invocations of the other handlers
  hookAt, hookOrder, cleanAt, cleanOrder, batch,
  refAt, refOrder, refIntent, doorAt, doorOrder,
  \* history, read by the properties only
  ledger,         \* how often an order's seats were added, less taken off
  fulfilments,    \* runs of fulfill_order for a new order
  mailed,         \* the confirmation email was sent
  late,           \* the order was paid after it had been expired
  admitted,       \* "checked_in" answers given at the doors
  offered,        \* the largest capacity the event ever had
  hit,            \* an invocation died, or a write failed, on this order
  crashes

eventVars   == <<capacity, tickets_sold_count, registration_open>>
orderVars   == <<status, quantity, payment_intent, checked_in, fulfillment_error>>
stripeVars  == <<session, money>>
coVars      == <<co, seen>>
hookVars    == <<hookAt, hookOrder>>
cleanVars   == <<cleanAt, cleanOrder, batch>>
refundVars  == <<refAt, refOrder, refIntent>>
doorVars    == <<doorAt, doorOrder>>
historyVars == <<ledger, fulfilments, mailed, late, admitted, offered, hit, crashes>>

vars == <<eventVars, orderVars, age, stripeVars, coVars, hookVars, cleanVars,
          refundVars, doorVars, historyVars>>

-----------------------------------------------------------------------------
(* Types *)

Status == {"none", "pending", "paid", "refunded", "canceled", "expired"}

CheckoutStep == {"idle", "read", "reserved", "placed", "failed", "released",
                 "opened", "redirected", "fulfil", "flag", "ended"}
HookStep   == {"idle", "reclaim", "fulfil", "flag", "release"}
CleanStep  == {"idle", "sweep", "release"}
RefundStep == {"idle", "claim", "stripe", "restore", "release"}
DoorStep   == {"idle", "commit"}

EventTypeOK ==
  /\ capacity \in Int
  /\ tickets_sold_count \in Int
  /\ registration_open \in BOOLEAN

OrderTypeOK ==
  /\ status \in [Orders -> Status]
  /\ quantity \in [Orders -> Nat]
  /\ payment_intent \in [Orders -> BOOLEAN]
  /\ checked_in \in [Orders -> BOOLEAN]
  /\ fulfillment_error \in [Orders -> BOOLEAN]
  /\ age \in [Orders -> Nat]

StripeTypeOK ==
  /\ session \in [Orders -> {"none", "open", "paid", "expired"}]
  /\ money \in [Orders -> {"none", "captured", "returned"}]

HandlerTypeOK ==
  /\ co \in [Orders -> CheckoutStep]
  /\ seen \in [Orders -> Int]
  /\ hookAt \in [Hooks -> HookStep]
  /\ hookOrder \in [Hooks -> Orders \cup {NoOrder}]
  /\ cleanAt \in CleanStep
  /\ cleanOrder \in Orders \cup {NoOrder}
  /\ batch \in SUBSET Orders
  /\ refAt \in [Refunders -> RefundStep]
  /\ refOrder \in [Refunders -> Orders \cup {NoOrder}]
  /\ refIntent \in [Refunders -> BOOLEAN]
  /\ doorAt \in [Doors -> DoorStep]
  /\ doorOrder \in [Doors -> Orders \cup {NoOrder}]

HistoryTypeOK ==
  /\ ledger \in [Orders -> Int]
  /\ fulfilments \in [Orders -> Nat]
  /\ mailed \in [Orders -> BOOLEAN]
  /\ late \in [Orders -> BOOLEAN]
  /\ admitted \in [Orders -> Nat]
  /\ offered \in Int
  /\ hit \in [Orders -> BOOLEAN]
  /\ crashes \in 0..MaxCrashes

\* Every variable keeps its type, and an invocation that is under way
\* works on an order.
TypeOK ==
  /\ EventTypeOK
  /\ OrderTypeOK
  /\ StripeTypeOK
  /\ HandlerTypeOK
  /\ HistoryTypeOK
  /\ \A h \in Hooks : hookAt[h] # "idle" => hookOrder[h] \in Orders
  /\ cleanAt = "release" => cleanOrder \in Orders
  /\ \A r \in Refunders : refAt[r] # "idle" => refOrder[r] \in Orders
  /\ \A d \in Doors : doorAt[d] # "idle" => doorOrder[d] \in Orders

-----------------------------------------------------------------------------
(* Writes that several handlers make *)

\* tickets_sold_count = tickets_sold_count + :q, for the seats of order o
AddSeats(o) ==
  /\ tickets_sold_count' = tickets_sold_count + quantity[o]
  /\ ledger' = [ledger EXCEPT ![o] = @ + 1]
  /\ UNCHANGED <<capacity, registration_open>>

\* For mutation: the second write of an expiry is missing.
release_nothing(o) ==
  UNCHANGED <<tickets_sold_count, ledger, capacity, registration_open>>
\* tickets_sold_count = tickets_sold_count - :q
_release_capacity(o) ==
  /\ tickets_sold_count' = tickets_sold_count - quantity[o]
  /\ ledger' = [ledger EXCEPT ![o] = @ - 1]
  /\ UNCHANGED <<capacity, registration_open>>

\* An unconditional SET #s = :status
SetStatus(o, s) == status' = [status EXCEPT ![o] = s]

\* An invocation working on order o is lost between two of its calls.
Lose(o) ==
  /\ crashes < MaxCrashes
  /\ crashes' = crashes + 1
  /\ hit' = [hit EXCEPT ![o] = TRUE]

\* No checkout, give-tickets, webhook, cleanup or refund invocation is
\* part way through its writes for order o.
Quiet(o) ==
  /\ co[o] \in {"idle", "read", "redirected", "ended"}
  /\ \A h \in Hooks : hookOrder[h] # o
  /\ cleanOrder # o
  /\ \A r \in Refunders : refOrder[r] = o => refAt[r] = "claim"

\* The order counts as tickets: it holds seats of the event.
HoldsSeats(o) == status[o] \in {"pending", "paid"}
=============================================================================
