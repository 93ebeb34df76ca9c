CONSTANTS
  Types = {"i32"}
  Funcs <- MCOneFunc
  NumImports = 0
  Globals <- MCNoGlobals
  Opcodes = {}
  Callbacks = {"block", "loop", "if", "else", "end", "br", "br_if", "return", "unreachable", "const", "drop"}
  MaxIstream = 4
  MaxLabels = 3
  MaxTargets = 0
  MaxDecls = 0
  MaxLocals = 0
  Table <- MCNoTable
  ArgLists <- MCNoArgs
  HostOutcomes = {"ok"}
  ValueStackSize = 3
  CallStackSize = 1
SPECIFICATION Spec
INVARIANTS LimitsOrdered AnyOnlyOnTop TypeSound
