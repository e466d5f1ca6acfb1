SPECIFICATION Spec
CONSTANTS
  HalfWord <- MCHalfWord
  BitAnd <- MCBitAnd
  BitOr <- MCBitOr
  BitXor <- MCBitXor
  BitShr <- MCBitShr
  Programs <- MCMachinePrograms
  Answers <- MCAnswers
  MaxAnswers = 2
  MaxRuns = 2
INVARIANTS
  BlocksNested
  BreakTerminates
  NoPtrEscapes
  IdleClean
