CONSTANTS
  MemOps <- MCMemOps
  Barriers <- MCBarriers
  Undefs <- MCUndefs
  Globals <- MCGlobals
  InitFns <- MCTermFns
  InitGvs <- MCInitGvs
SPECIFICATION Spec
PROPERTIES
  Termination
