CONSTANTS
  c1 = c1
  p2 = p2
  x1 = x1
  x2 = x2
  o1 = o1
  o2 = o2
  w1 = w1
  None = None
  NoneYet = NoneYet
  Containers = {c1, c2}
  Secrets = {x1, x2}
  TTL = 2
  MaxEdits = 2
  Purchases = {b1}
  Clowns = {u1, u2}
  FirstAdmins = {u1}
  PkceLife = 1
  SessionLife = 2
  TicketOrders = {o1, o2}
  Waiters = {w1}
  MailboxOf <- MCMailboxOf
  Deliveries = {d1, d2}
  Attempts = 2
  MaxFaults = 1
  MaxEntries = 3
  Editors = {p1, p2}
  Buyers = {b1}
  Typed <- MCTyped
  LastDay = 3
  Quantities = {1, 3}
  Donations = {0, 5}
  MaxOffers = 2
SPECIFICATION BackstageSpec
INVARIANTS TypeOK RetiredSecretOnce SentMeansSent OncePerRun NeverLeftHalfWay FeeIsExact
PROPERTIES FlipReaches KeyMatchesBadge NeverFailsOpen PaidIsHeard RightsEnd AcceptedIsSent RenumberingHeals ChargedAsShown
CHECK_DEADLOCK FALSE
