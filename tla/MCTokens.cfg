\* All short token strings.
CONSTANTS
  Lexemes <- MCLexemes
  Programs <- AnyPrograms
SPECIFICATION Spec
INVARIANTS
  TypeOK
  HeldOnce
CHECK_DEADLOCK FALSE
