\* A number used as a statement.
CONSTANTS
  Names <- MCNames
  Units <- LiteralUnits
  Trees <- MCTrees
  Builtin = {"print"}
  Word = 32
SPECIFICATION Spec
INVARIANTS
  VoidRestores
CHECK_DEADLOCK FALSE
