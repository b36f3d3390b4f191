SPECIFICATION Spec
CONSTANTS
  t = t
  u = u
  Tokens <- MCTokens
  Zero = "zero"
  NumPages = 3
  BlockSize = 2
  Writes <- MCWrites
  Reads <- MCReads
  MaxWrites = 2
INVARIANTS AttendsToLastWrites
PROPERTIES ImplementsSlotStore
