SPECIFICATION Spec
CONSTANTS
  u = u
  w = w
  Values <- MCValues
  MaxRows = 5
  MaxDamage = 3
SYMMETRY Symmetry
CHECK_DEADLOCK FALSE
INVARIANTS
  TypeOK
  VerifyFindsFirstUntrueRow
  AcceptedIsNumbered
  DigestNamesOneRow
