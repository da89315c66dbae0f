CONSTANTS
  Programs <- MCPrograms
  ArgTy <- MCArgTy
  MaxBody <- MCMaxBody
INIT PInit
NEXT PNext
INVARIANTS
  WellTyped
  LoweringPreservesMeaning
  UndefWritesErased
