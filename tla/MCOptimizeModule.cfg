CONSTANTS
  MemOps <- MCMemOps
  Barriers <- MCBarriers
  Undefs <- MCUndefs
  Globals <- MCGlobals
  InitFns <- MCInitFns
  InitGvs <- MCInitGvs
SPECIFICATION Spec
INVARIANTS
  NoDanglingUse
  ISELsErased
  ScaffoldingRemoved
