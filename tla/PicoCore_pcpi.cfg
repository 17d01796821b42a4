SPECIFICATION Spec
CONSTANTS
  NWords = 3
  IrqVector <- MCIrqVector
  Ops <- PcpiOps
  Imms <- OneWord
  ShiftAmounts = {0, 5}
  Lines = {0, 1, 2}
  IrqInputs <- NoInputs
  PcpiDrives <- AnyDrive
  TimerLoads = {}
  PcpiTimeout = 2
  LATCHED_IRQ = {0, 1, 2}
  MASKED_IRQ = {0, 2}
  ENABLE_IRQ = TRUE
  WITH_PCPI = TRUE
  ENABLE_REGS_DUALPORT = FALSE
  TWO_STAGE_SHIFT = FALSE
  TWO_CYCLE_COMPARE = TRUE
  TWO_CYCLE_ALU = TRUE
  STACKADDR_SET = TRUE
INVARIANTS
  TypeOK
  WritesOwnRegister
  DecodedInsnStable
  TargetDefined
  PcpiOwned
PROPERTIES
  RequestStable
  LookAheadHonoured
