CONSTANTS
  ByteHalf = 2
  WordBits = 8
  Insns <- AllInsns
SPECIFICATION UnitSpec
INVARIANTS
  ResultsNearest
  ShiftRoundsToNearest
