CONSTANTS
  ByteHalf = 8
  WordBits = 16
  NoiseShift = 3
  EXAMPLE_NUM_SAMPLES = 7
  Runs <- AllRuns
SPECIFICATION Spec
CHECK_DEADLOCK FALSE
INVARIANTS
  MixIsWeightedSum
