CONSTANTS
  MemOps <- MCMemOps
  Barriers <- MCBarriers
  Undefs <- MCUndefs
  Globals <- MCGlobals
  InitFns <- MCTermFns
  InitGvs <- MCInitGvsExtra
SPECIFICATION Spec
PROPERTIES
  Termination
