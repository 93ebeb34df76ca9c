CONSTANTS
  Names = {a, b, c, d}
  HashValues = {0, 1, 2, 3}
  InitialCapacity = 2
  MaxSize = 5
SPECIFICATION Spec
SYMMETRY Symmetry
INVARIANT EntriesLinked
PROPERTY ImplementsBindings
