CONSTANTS
  Names = {"$M"}
  RegisteredNames = {"M"}
  Fields = {"x"}
  MainSlot <- MCMainSlot
  INITIAL_HASH_CAPACITY = 2
  Relinked <- MCRelinked
  Sigs = {"void"}
  TableLimits <- MCTableLimits
  PageLimits <- MCPageLimits
  Callbacks = {"module", "func", "table", "global", "export", "elem", "reject", "end", "register"}
  MaxLoads = 2
  MaxItems = 2
  MaxEntries = 3
  MaxPages = 3
SPECIFICATION Spec
INVARIANTS IndexSpaces ExportsLive TablesLive BindingsBelowMark NamesAgree ImportsSatisfied
