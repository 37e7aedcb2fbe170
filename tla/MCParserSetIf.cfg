\* An assignment of a conditional.
CONSTANTS
  Lexemes <- MCLexemes
  Programs <- SetByCondition
SPECIFICATION FileSpec
PROPERTIES
  SemicolonTerminates
CHECK_DEADLOCK FALSE
