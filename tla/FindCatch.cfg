SPECIFICATION Spec
CONSTANTS
  HalfWord <- MCHalfWord
  BitAnd <- MCBitAnd
  BitOr <- MCBitOr
  BitXor <- MCBitXor
  BitShr <- MCBitShr
  Programs <- CatchPrograms
  Answers <- MCAnswers
  MaxAnswers = 3
  MaxRuns = 1
INVARIANT
  OperandsPresent
