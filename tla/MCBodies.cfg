CONSTANTS
  Types = {"i32", "i64"}
  Funcs <- MCLocalFuncs
  NumImports = 0
  Globals <- MCGlobals
  Opcodes = {"i32_add", "i32_wrap_i64", "i32_load", "i64_store", "grow_memory", "current_memory"}
  Callbacks = {"local", "const", "opcode", "select", "global", "block", "end", "br_table"}
  MaxIstream = 5
  MaxLabels = 2
  MaxTargets = 1
  MaxDecls = 1
  MaxLocals = 1
  Table <- MCNoTable
  ArgLists <- MCLocalArgs
  HostOutcomes = {"ok"}
  ValueStackSize = 5
  CallStackSize = 1
SPECIFICATION Spec
INVARIANTS LoadedResolved TypeSound
