SPECIFICATION Spec
CONSTANTS
  Orders = {o1, c1}
  CompOrders = {c1}
  Hooks = {h1, h2}
  Refunders = {r1, r2}
  Doors = {}
  NoOrder = NoOrder
  MaxTickets = 1
  Capacities = {2}
  SessionTTL = 1
  CleanupGrace = 2
  MaxCrashes = 2
  LostReplies = FALSE
SYMMETRY Symmetry
INVARIANTS TypeOK FulfilledOnce RefundedIsReturned TicketsPaidFor PaymentFindsItsOrder
PROPERTY ImplementsBoxOffice
