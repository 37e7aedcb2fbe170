\* Files of one to three declarations; expressions two operators deep, calls, and
\* statements nested in blocks twice; and texts that are no files.
CONSTANTS
  Lexemes <- MCLexemes
  Programs <- FilePrograms
SPECIFICATION FileSpec
INVARIANTS
  RoundTrip
  RegistryOK
  HeldOnceInFile
  Accepted
  StatementsFirst
PROPERTIES
  Finishes
  SemicolonTerminates
CHECK_DEADLOCK FALSE
