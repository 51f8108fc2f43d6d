CONSTANTS
  Events = {y1, y2}
  CharitySlots = {"charity_logo"}
  Images = {i1}
  Illustrated = {y1}
  Edits = {q1, q2}
  MaxSold = 1
  Nothing = Nothing
SPECIFICATION CatalogSpec
SYMMETRY MCEventSymmetry
INVARIANT OneEventOpen
