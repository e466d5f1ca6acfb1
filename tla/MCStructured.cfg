SPECIFICATION FairSpec
CONSTANTS
  HalfWord <- MCHalfWord
  BitAnd <- MCBitAnd
  BitOr <- MCBitOr
  BitXor <- MCBitXor
  BitShr <- MCBitShr
  Programs <- MCPrograms
  Answers <- MCAnswers
  MaxAnswers = 3
  MaxRuns = 1
INVARIANTS
  NoFault
  OperandsOwned
  RunsAsWritten
PROPERTIES
  CallerOperandsKept
  CallBalance
  Terminates
