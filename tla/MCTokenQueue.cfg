\* One slot at first, as in lexer_init; lookahead of up to four where the
\* parser uses two, so that the array grows twice.
CONSTANTS
  InitialCap = 1
  MaxLookahead = 4
  TextLength = 8
  Junk = Junk
SPECIFICATION Spec
INVARIANTS
  TypeOK
  InOrder
PROPERTIES
  ImplementsStream
CHECK_DEADLOCK FALSE
