SPECIFICATION Spec
CONSTANTS
  Orders = {o1}
  CompOrders = {}
  Hooks = {h1}
  Refunders = {}
  Doors = {}
  NoOrder = NoOrder
  MaxTickets = 1
  Capacities = {1}
  SessionTTL = 1
  CleanupGrace = 2
  MaxCrashes = 1
  LostReplies = FALSE
INVARIANT UnclaimedSeatsReturn
