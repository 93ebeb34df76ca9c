CONSTANTS
  Names = {"$M"}
  RegisteredNames = {"M"}
  Fields = {"x"}
  MainSlot <- MCMainSlot
  INITIAL_HASH_CAPACITY = 2
  Relinked <- MCRelinked
  Sigs = {"void"}
  TableLimits <- MCTableLimits
  PageLimits <- MCPageLimits
  Callbacks = {"module", "func", "reject", "end", "action"}
  MaxLoads = 2
  MaxItems = 2
  MaxEntries = 3
  MaxPages = 2
SPECIFICATION Spec
INVARIANT ExportIndexAssertion
