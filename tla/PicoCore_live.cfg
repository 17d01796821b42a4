SPECIFICATION FairSpec
CONSTANTS
  NWords = 3
  IrqVector <- MCIrqVector
  Ops <- LiveOps
  Imms <- OneWord
  ShiftAmounts = {0, 5}
  Lines = {0, 1, 2, 3}
  IrqInputs <- ExternInput
  PcpiDrives <- Silent
  TimerLoads = {}
  PcpiTimeout = 2
  LATCHED_IRQ = {0, 1, 2, 3}
  MASKED_IRQ = {0, 1, 2}
  ENABLE_IRQ = TRUE
  WITH_PCPI = TRUE
  ENABLE_REGS_DUALPORT = TRUE
  TWO_STAGE_SHIFT = TRUE
  TWO_CYCLE_COMPARE = FALSE
  TWO_CYCLE_ALU = FALSE
  STACKADDR_SET = FALSE
PROPERTIES
  AlwaysAdvances
  WakesUp
