CONSTANTS
  Types = {"i32", "i64"}
  Funcs <- MCCallFuncs
  NumImports = 1
  Globals <- MCNoGlobals
  Opcodes = {}
  Callbacks = {"call", "call_indirect", "const", "drop", "return"}
  MaxIstream = 6
  MaxLabels = 1
  MaxTargets = 0
  MaxDecls = 0
  MaxLocals = 0
  Table <- MCCallTable
  ArgLists <- MCCallArgs
  HostOutcomes = {"ok", "trap", "mismatch"}
  ValueStackSize = 3
  CallStackSize = 2
SPECIFICATION Spec
INVARIANTS TypeOK FixupsPending RunsDefined ResultsTyped
PROPERTY LooplessRunsEnd
