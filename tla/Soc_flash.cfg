SPECIFICATION Spec
CONSTANTS
  Base = 4
  MaxLatency = 1
  Registers = 1
  Boards = {"HX8KDEMO", "ICEBREAKER"}
  Words4 = {4, 8}
  UsedKeys = {"1", "2", "3", "4", "5", "6", "7", "0"}
INVARIANTS FetchesRightUntilLost FlashExpectsNextByte OneSlaveAnswers
PROPERTY CommandReachesFlash
