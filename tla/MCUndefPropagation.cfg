CONSTANTS
  Ids <- MCIds
  Functions <- MCFunctions
SPECIFICATION Spec
INVARIANTS
  TypeOK
  PropagationComplete
PROPERTY
  PropagationTerminates
