SPECIFICATION Spec
CONSTANTS
  Peers = {1, 2}
  MaxPacks = 3
INVARIANT LostOnlyInDrain
INVARIANT ShownInOrder
INVARIANT BoxWellFormed
CHECK_DEADLOCK FALSE
