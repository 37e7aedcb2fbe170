\* Any two statements the parser can leave behind, then a second function.
CONSTANTS
  Names <- MCNames
  Units <- WildUnits
  Trees <- MCTrees
  Builtin = {"print"}
  Word = 32
SPECIFICATION Spec
INVARIANTS
  TypeOK
  LabelsDefined
CHECK_DEADLOCK FALSE
