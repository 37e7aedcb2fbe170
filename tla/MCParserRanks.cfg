\* A declaration initialised with a sum whose second operand is a product.
CONSTANTS
  Lexemes <- MCLexemes
  Programs <- SumOfProduct
SPECIFICATION FileSpec
INVARIANTS
  RanksRespected
CHECK_DEADLOCK FALSE
