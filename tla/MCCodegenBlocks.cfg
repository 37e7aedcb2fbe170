\* A loop whose body returns.
CONSTANTS
  Names <- MCNames
  Units <- LoopReturnUnits
  Trees <- MCTrees
  Builtin = {"print"}
  Word = 32
SPECIFICATION Spec
INVARIANTS
  BlocksWellFormed
CHECK_DEADLOCK FALSE
