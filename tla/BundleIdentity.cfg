SPECIFICATION Spec
CONSTANTS
  policy = policy
  budget = budget
  Names <- MCNames
  Values = {"list", "tuple", "other", "set"}
  Canonical <- MCCanonical
  Unserializable = "raises"
  MaxCopies = 3
SYMMETRY Symmetry
INVARIANTS ReusedUnderSameRegime
PROPERTIES ImplementsFrozenBundles
