CONSTANTS
  Types = {"i32", "i64"}
  Funcs <- MCFunc
  NumImports = 0
  Globals <- MCGlobals
  Opcodes = {"i64_store", "current_memory"}
  Callbacks = {"block", "loop", "if", "else", "end", "br", "br_if", "br_table", "return", "unreachable", "const", "drop", "select", "opcode", "local", "global", "call", "call_indirect"}
  MaxIstream = 3
  MaxLabels = 3
  MaxTargets = 0
  MaxDecls = 1
  MaxLocals = 1
  Modules <- MCModules
SPECIFICATION LoadSpec
INVARIANTS ValidatedLoads ValidatedIsChecked StacksAgree
