\* Texts of tidy functions: one return, at the end of the function; blocks that
\* end in a value or an assignment; at most one computed argument in a call.
\* And texts that are no programs.
CONSTANTS
  Lexemes <- MCLexemes
  Programs <- Texts
  Builtin = {"print"}
  Word = 32
SPECIFICATION CompSpec
INVARIANTS
  BlocksWellFormed
  ParamsInPlace
  VoidRestores
  ComputesItsText
  DataDefined
  Compiles
  Tidy
PROPERTIES
  VariablesKept
  OperandsKept
CHECK_DEADLOCK FALSE
