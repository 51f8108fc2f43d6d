CONSTANTS
  s1 = s1
  s2 = s2
  s3 = s3
  e1 = e1
  e2 = e2
  None = None
  Logins = {s1, s2, s3}
  Emails = {e1, e2}
  EmailOf <- MCEmailOf
  Verified = {s1, s2}
  Rows = {c1, c2}
  Csvs <- MCCsvs
  Requests = {p1, p2}
SPECIFICATION Spec
INVARIANT EditsOwnRow
CHECK_DEADLOCK FALSE
