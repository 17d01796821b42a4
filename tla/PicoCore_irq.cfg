SPECIFICATION Spec
CONSTANTS
  NWords = 3
  IrqVector <- MCIrqVector
  Ops <- IrqHandlerOps
  Imms <- Halfword
  ShiftAmounts = {0, 5}
  Lines = {0, 1, 2}
  IrqInputs <- TimerInput
  PcpiDrives <- Silent
  TimerLoads = {2, 5}
  PcpiTimeout = 2
  LATCHED_IRQ = {0, 1, 2}
  MASKED_IRQ = {1}
  ENABLE_IRQ = TRUE
  WITH_PCPI = FALSE
  ENABLE_REGS_DUALPORT = TRUE
  TWO_STAGE_SHIFT = TRUE
  TWO_CYCLE_COMPARE = FALSE
  TWO_CYCLE_ALU = FALSE
  STACKADDR_SET = FALSE
INVARIANTS
  LaunchesNextInsn
  OneDataAccess
  ReturnAddressSaved
  ProgramAdvances
PROPERTIES
  NoInterruptLost
