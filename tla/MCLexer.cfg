SPECIFICATION Spec
CONSTANTS
  MaxPieces = 4
  Texts <- MCTexts
  Beyonds <- MCBeyonds
  SizeMod = 64
INVARIANTS ViewIsTheRest LongestMatch LineNumber SpelledAsTold
PROPERTY ReachesTheEnd
CHECK_DEADLOCK FALSE
