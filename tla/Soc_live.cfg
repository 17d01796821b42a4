SPECIFICATION Spec
CONSTANTS
  Base = 4
  MaxLatency = 1
  Registers = 1
  Boards = {"ICEBREAKER"}
  Words4 = {4, 8}
  UsedKeys = {"1", "2", "3", "4", "5", "6", "7", "0"}
PROPERTY EveryFetchAnswered
