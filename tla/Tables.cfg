CONSTANTS
  s1 = s1
  s2 = s2
  s3 = s3
  e1 = e1
  e2 = e2
  None = None
  Logins = {s1, s2, s3}
  Emails = {e1, e2}
  EmailOf <- MCEmailOf
  Verified = {s1, s2}
  Rows = {c1, c2, c3}
  Csvs <- MCCsvs
  Requests = {p1}
  Events = {y1, y2}
  CharitySlots = {"charity_logo"}
  Images = {i1, i2}
  Illustrated = {y1}
  Edits = {q1, q2}
  MaxSold = 1
  Nothing = Nothing
SPECIFICATION TablesSpec
SYMMETRY MCSymmetry
INVARIANTS TypeOK CatalogTypeOK OneEventOpenAlone ImagesExist OneRowPerLogin EmailVouches
PROPERTIES SoldIsKept PoolLosesOnlyRemoved KeepsLiveLogin
CHECK_DEADLOCK FALSE
