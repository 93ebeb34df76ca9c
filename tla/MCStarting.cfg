CONSTANTS
  Names = {}
  RegisteredNames = {"M"}
  Fields = {"x"}
  MainSlot <- MCMainSlot
  INITIAL_HASH_CAPACITY = 2
  Relinked <- MCRelinked
  Sigs = {"void", "param", "result"}
  TableLimits <- MCTableLimits
  PageLimits <- MCPageLimits
  Callbacks = {"module", "assert_unlinkable", "assert_uninstantiable", "func", "memory", "export", "start", "end", "register", "action"}
  MaxLoads = 2
  MaxItems = 2
  MaxEntries = 3
  MaxPages = 4
SPECIFICATION Spec
INVARIANTS TypeOK ImportsSatisfied
PROPERTY OlderKept
