CONSTANTS
  None = None
  Containers = {c1}
  Secrets = {x1}
  TTL = 1
  MaxEdits = 1
  Purchases = {b1}
SPECIFICATION StripeSpec
INVARIANT MissingKeyFailsLoudly
CHECK_DEADLOCK FALSE
