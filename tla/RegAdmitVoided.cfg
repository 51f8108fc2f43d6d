SPECIFICATION Spec
CONSTANTS
  Orders = {o1}
  CompOrders = {}
  Hooks = {h1}
  Refunders = {r1}
  Doors = {d1}
  NoOrder = NoOrder
  MaxTickets = 1
  Capacities = {1}
  SessionTTL = 1
  CleanupGrace = 2
  MaxCrashes = 0
  LostReplies = FALSE
PROPERTY AdmittedWhilePaid
