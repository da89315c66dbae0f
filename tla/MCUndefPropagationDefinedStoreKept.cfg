CONSTANTS
  Ids <- MCIds
  Functions <- MCFunctions
SPECIFICATION Spec
INVARIANTS
  DefinedStoreKept
