SPECIFICATION ProgramSpec
CONSTANTS
  ByteHalf = 8
  WordBits = 16
  NoiseShift = 3
  EXAMPLE_NUM_SAMPLES = 7
  Runs <- AllRuns
  Rams <- MCRams
  Faults <- MCFaults
  Repeats = 2
  Timeout = 3
  CycleRange = 8
  Durations = {1, 2}
  Number_Of_Runs = 100
  Calls <- MCCalls
  Divs = {2}
  DEFAULT_DIV = 1
  FarDiv = 2
  Bytes = {63, 255}
  MaxCount = 3
CHECK_DEADLOCK FALSE
INVARIANTS
  CleansWithinBuffer OutputIsCleanedInput
  TestSeesFaults FinalValues LibraryAgrees
PROPERTIES
  ImplementsNoiseGate PromptsOnTime DeliversSent BytesArrive
