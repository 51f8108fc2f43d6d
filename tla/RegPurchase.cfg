SPECIFICATION FairSpec
CONSTANTS
  Orders = {o1, o2}
  CompOrders = {}
  Hooks = {h1, h2}
  Refunders = {}
  Doors = {}
  NoOrder = NoOrder
  MaxTickets = 2
  Capacities = {1, 2}
  SessionTTL = 1
  CleanupGrace = 2
  MaxCrashes = 0
  LostReplies = TRUE
INVARIANTS OrdinarySeatsFit PaidIsAnswered GivenUpIsUnpayable
PROPERTIES PendingEnds PaymentHonoured ExpiredSeatsReturn
