CONSTANTS
  XLEN = 4
  CARRY_CHAIN = 2
  ByteHalf = 1
  Programs <- MCPrograms
  PcpiTimeout = 4
  Multipliers <- MCMultipliers
SPECIFICATION FairSpec
INVARIANTS
  AnswersOffer
  LoopsKeepResult
  NeverGivenUp
PROPERTIES
  Completes
