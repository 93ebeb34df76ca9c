CONSTANTS
  Commands <- MCCommands
  Bounded <- MCBounded
  MainSlot <- MCMainSlot
  Relinked <- MCRelinked
  INITIAL_HASH_CAPACITY = 3
  Bits = {0, 10}
SPECIFICATION Spec
INVARIANT ActsOnChecked
PROPERTY PassedMeans
