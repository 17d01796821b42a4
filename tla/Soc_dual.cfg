SPECIFICATION Spec
CONSTANTS
  Base = 4
  MaxLatency = 1
  Registers = 1
  Boards = {"HX8KDEMO"}
  Words4 = {4, 8}
  UsedKeys = {"0"}
INVARIANT FetchesRight
