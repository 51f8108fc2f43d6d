SPECIFICATION Spec
CONSTANTS
  Orders = {o1, c1}
  CompOrders = {c1}
  Hooks = {h1, h2}
  Refunders = {r1, r2}
  Doors = {d1, d2}
  NoOrder = NoOrder
  MaxTickets = 1
  Capacities = {2}
  SessionTTL = 1
  CleanupGrace = 2
  MaxCrashes = 0
  LostReplies = TRUE
SYMMETRY Symmetry
INVARIANTS SettledLedger SeatsMatchOrders OneRefundAtATime AdmittedOnce
