CONSTANTS
  Word = 8
  PageSize = 2
  MaxPages = 4
  Widths = {1, 2}
  Bytes = {0, 1}
SPECIFICATION Spec
INVARIANTS TypeOK HoldsStores AccessesInside DefinedUnlessWrapped
