---------------------------- MODULE PicoCoreProof ----------------------------
(***************************************************************************)
(* Proofs about module PicoCore, for every program, memory, interrupt,      *)
(* co-processor and configuration.  The first half is the control of the     *)
(* core: TypeOK and ControlInv.  The second half ties its pipeline to the    *)
(* program it runs: ProgramInv is the inductive invariant, on top of those.  *)
(***************************************************************************)
EXTENDS PicoCore, TLAPS

-----------------------------------------------------------------------------
(* A program counter plus a displacement is a program counter. *)
LEMMA PlusType ==
  ASSUME NEW a \in Value, NEW b \in Value
  PROVE  Plus(a, b) \in PC
BY SizeAssumption DEF Plus, PC, Value, Undef

(* The word a program counter points into is on the bus. *)
LEMMA WordOfType ==
  ASSUME NEW pc \in Value
  PROVE  WordOf(pc) \in Addr
BY SizeAssumption DEF WordOf, PC, Value, Undef, Addr

(* The memory answers with instruction words. *)
LEMMA ReadAtType ==
  ASSUME NEW a \in Addr
  PROVE  ReadAt(a) \subseteq Word
BY SizeAssumption, ProgramAssumption
   DEF ReadAt, Word, NoInsn, DataAddr, AllOps, Jumps, Addr, PC, Undef

(* The irq port carries interrupt lines. *)
LEMMA InputsType == Inputs \subseteq SUBSET Lines
BY IrqAssumption DEF Inputs

(* The destinations that are not named by an address are registers. *)
LEMMA RegType ==
  /\ RetReg \in Reg /\ PendReg \in Reg /\ ZeroReg \in Reg /\ OtherReg \in Reg
  /\ Addr \subseteq Reg
BY SizeAssumption DEF Reg, RetReg, PendReg, ZeroReg, OtherReg, Addr, Undef

(* The pending interrupts stay interrupt lines. *)
LEMMA IrqPendingType ==
  ASSUME IrqTypeOK,
         NEW cleared, NEW raised \in SUBSET Lines, NEW irq \in SUBSET Lines,
         IrqPending(cleared, raised, irq)
  PROVE  irq_pending' \subseteq Lines
BY IrqAssumption DEF IrqTypeOK, IrqPending, CanRaise

(* The memory requests stay Boolean. *)
LEMMA MemDoType ==
  ASSUME NEW ready, NEW a, NEW b, NEW c, NEW d, NEW e, MemDo(ready, a, b, c, d, e)
  PROVE  /\ mem_do_prefetch' \in BOOLEAN /\ mem_do_rinst' \in BOOLEAN
         /\ mem_do_rdata' \in BOOLEAN /\ mem_do_wdata' \in BOOLEAN
BY DEF MemDo

(* The part of a cycle all states share keeps the types of the memory
   interface, the decoder and the pipeline registers. *)
LEMMA SharedCycleType ==
  ASSUME TypeOK,
         NEW ready \in BOOLEAN, NEW word \in Word, NEW wait,
         SharedCycle(ready, word, wait)
  PROVE  BusTypeOK'
<1> USE DEF TypeOK, MainTypeOK, BusTypeOK, CpuTypeOK, FlagTypeOK
<1>1. trap' \in BOOLEAN /\ alu_reg' \in Value /\ alu_out_q' \in Value
  BY DEF SharedCycle, alu_out, Value
<1>2. pcpi_timeout' \in BOOLEAN /\ pcpi_timeout_counter' \in 0..PcpiTimeout
  <2>1. CASE WITH_PCPI
    <3>1. pcpi_timeout' \in BOOLEAN
      BY <2>1 DEF SharedCycle, PcpiTimer
    <3>2. pcpi_timeout_counter' \in 0..PcpiTimeout
      BY <2>1, PcpiAssumption DEF SharedCycle, PcpiTimer
    <3>3. QED BY <3>1, <3>2
  <2>2. CASE ~WITH_PCPI
    BY <2>2 DEF SharedCycle, PcpiTimer
  <2>3. QED BY <2>1, <2>2
<1>3. mem_rdata_q' \in Word /\ stage1' \in Word /\ stage2' \in Word
  BY DEF SharedCycle, Decode
<1>4. mem_la_addr \in Addr
  BY WordOfType, SizeAssumption DEF mem_la_addr, next_pc, DataAddr, Addr, Undef
<1>5. /\ mem_state' \in 0..3 /\ mem_addr' \in Addr
      /\ mem_valid' \in BOOLEAN /\ mem_instr' \in BOOLEAN /\ mem_wstrb' \in BOOLEAN
  <2>1. MemStep(ready)
    BY DEF SharedCycle
  <2>2. CASE MemFrozen(ready)
    BY <2>2 DEF MemFrozen
  <2>3. CASE MemRequest
    <3>1. mem_state' \in 0..3 /\ mem_addr' \in Addr
      BY <2>3, <1>4 DEF MemRequest
    <3>2. mem_valid' \in BOOLEAN /\ mem_instr' \in BOOLEAN /\ mem_wstrb' \in BOOLEAN
      BY <2>3 DEF MemRequest
    <3>3. QED BY <3>1, <3>2
  <2>4. CASE MemTransfer(ready)
    <3>1. mem_state' \in 0..3
      BY <2>4 DEF MemTransfer
    <3>2. mem_addr' \in Addr
      BY <2>4 DEF MemTransfer
    <3>4. mem_valid' \in BOOLEAN /\ mem_instr' \in BOOLEAN /\ mem_wstrb' \in BOOLEAN
      BY <2>4 DEF MemTransfer
    <3>3. QED BY <3>1, <3>2, <3>4
  <2>5. CASE MemTakePrefetch
    BY <2>5 DEF MemTakePrefetch
  <2>6. CASE MemHold(ready)
    BY <2>6 DEF MemHold, memVars
  <2>7. QED BY <2>1, <2>2, <2>3, <2>4, <2>5, <2>6 DEF MemStep
<1>6. QED BY <1>1, <1>2, <1>3, <1>5

(* The data accesses an instruction made are loads and stores. *)
LEMMA CountAccessType ==
  ASSUME HistoryTypeOK, NEW ready, NEW launched, CountAccess(ready, launched)
  PROVE  accesses' \in Seq({"load", "store"})
BY DEF HistoryTypeOK, CountAccess

(* The trap state keeps the types. *)
LEMMA StTrapType ==
  ASSUME TypeOK, NEW ready \in BOOLEAN, NEW irq \in SUBSET Lines,
         StTrap(ready, irq)
  PROVE  MainTypeOK'
<1> USE DEF TypeOK, MainTypeOK
<1>1. CpuTypeOK'
  BY DEF CpuTypeOK, StTrap, GoTo, NoResult, NoShift, NotFetching, latchVars, CpuStates, Value
<1>2. FlagTypeOK'
  BY DEF FlagTypeOK, StTrap, KeepMemDo, MemDo, Trigger, NoWait, NotFetching, NoIrqControl, latchVars
<1>3. IrqTypeOK'
  BY IrqPendingType DEF IrqTypeOK, StTrap, TimerRuns, NotFetching, NoIrqControl
<1>4. HistoryTypeOK'
  BY CountAccessType DEF HistoryTypeOK, StTrap, NotFetching, NoIrqControl
<1>5. QED BY <1>1, <1>2, <1>3, <1>4

(* The fetch state. *)
LEMMA FetchSharedType ==
  ASSUME TypeOK, NEW ready \in BOOLEAN, NEW irq \in SUBSET Lines,
         FetchShared(ready, irq)
  PROVE  /\ current_pc \in Value /\ reg_pc' \in Value /\ reg_sh' \in Nat /\ operands' \in Value
         /\ ret_reg' \in Value /\ pend_reg' \subseteq Lines
         /\ eoi' \subseteq Lines /\ irq_mask' \subseteq Lines /\ irq_pending' \subseteq Lines
         /\ timer' \in Nat
<1> USE DEF TypeOK, MainTypeOK
<1>1. result \in Value
  BY DEF BusTypeOK, CpuTypeOK, result
<1>2. current_pc \in Value
  BY <1>1, SizeAssumption DEF CpuTypeOK, current_pc, Value
<1>3. ret_reg' \in Value
  <2>1. Plus(reg_pc, 2) \in Value
    BY SizeAssumption DEF CpuTypeOK, Plus, Value, PC, Undef
  <2>2. QED BY <1>1, <2>1 DEF FetchShared, WriteBack, CpuTypeOK, IrqTypeOK
<1>4. unmasked \subseteq Lines
  BY DEF IrqTypeOK, unmasked
<1>5. pend_reg' \subseteq Lines /\ eoi' \subseteq Lines /\ irq_mask' \subseteq Lines
  BY <1>4 DEF FetchShared, WriteBack, IrqTypeOK
<1>6. irq_pending' \subseteq Lines
  BY IrqPendingType DEF FetchShared
<1>7. timer' \in Nat /\ reg_sh' \in Nat
  BY DEF FetchShared, TimerRuns, NoShift, IrqTypeOK
<1>8. reg_pc' \in Value /\ operands' \in Value
  BY <1>2 DEF FetchShared, CpuTypeOK
<1>9. QED BY <1>2, <1>3, <1>5, <1>6, <1>7, <1>8

(* The interrupt entry keeps the types. *)
LEMMA FetchIrqType ==
  ASSUME TypeOK, NEW ready \in BOOLEAN, NEW irq \in SUBSET Lines,
         FetchIrq(ready, irq)
  PROVE  MainTypeOK'
<1> USE DEF TypeOK, MainTypeOK
<1>1. FetchShared(ready, irq)
  BY DEF FetchIrq
<1>2. CpuTypeOK'
  BY <1>1, FetchSharedType, RegType DEF CpuTypeOK, FetchIrq, GoTo, NoResult, CpuStates, Value
<1>3. FlagTypeOK'
  BY <1>1 DEF FlagTypeOK, FetchShared, FetchIrq, MemDo, Trigger, NoWait
<1>4. IrqTypeOK'
  BY <1>1, FetchSharedType DEF IrqTypeOK, FetchIrq
<1>5. HistoryTypeOK'
  BY CountAccessType, SizeAssumption DEF HistoryTypeOK, FetchIrq, Value
<1>6. QED BY <1>2, <1>3, <1>4, <1>5

(* The stall in waitirq keeps the types. *)
LEMMA FetchWaitIrqType ==
  ASSUME TypeOK, NEW ready \in BOOLEAN, NEW irq \in SUBSET Lines,
         FetchWaitIrq(ready, irq)
  PROVE  MainTypeOK'
<1> USE DEF TypeOK, MainTypeOK
<1>1. FetchShared(ready, irq)
  BY DEF FetchWaitIrq
<1>2. CpuTypeOK'
  <2>1. decoded_rd \in Reg
    BY RegType DEF decoded_rd, BusTypeOK, Word
  <2>2. Plus(current_pc, 2) \in Value
    BY <1>1, FetchSharedType, SizeAssumption DEF Plus, PC, Value, Undef
  <2>3. QED
    BY <1>1, <2>1, <2>2, FetchSharedType DEF CpuTypeOK, FetchWaitIrq, GoTo, NoResult, CpuStates, Value
<1>3. FlagTypeOK'
  BY <1>1 DEF FlagTypeOK, FetchShared, FetchWaitIrq, MemDo, Trigger, NoWait, wakes
<1>4. IrqTypeOK'
  BY <1>1, FetchSharedType DEF IrqTypeOK, FetchWaitIrq
<1>5. HistoryTypeOK'
  <2>1. arch_pc' \in Value
    BY SizeAssumption DEF HistoryTypeOK, FetchWaitIrq, Plus, PC, Value, Undef
  <2>2. QED BY <2>1, CountAccessType DEF HistoryTypeOK, FetchWaitIrq, AllOps
<1>6. QED BY <1>2, <1>3, <1>4, <1>5

(* The launch of an instruction keeps the types. *)
LEMMA FetchLaunchType ==
  ASSUME TypeOK, NEW ready \in BOOLEAN, NEW irq \in SUBSET Lines,
         FetchLaunch(ready, irq)
  PROVE  MainTypeOK'
<1> USE DEF TypeOK, MainTypeOK
<1>1. FetchShared(ready, irq)
  BY DEF FetchLaunch
<1>2. stage1.at \in Addr /\ stage1.op \in AllOps \cup {"none"} /\ stage1.imm \in PC
  BY DEF BusTypeOK, Word
<1>3. CpuTypeOK'
  <2>1. decoded_rd \in Reg
    BY <1>2, RegType DEF decoded_rd
  <2>2. reg_next_pc' \in Value
    BY <1>1, <1>2, FetchSharedType, SizeAssumption DEF FetchLaunch, Plus, PC, Value, Undef
  <2>3. QED
    BY <1>1, <2>1, <2>2, FetchSharedType DEF CpuTypeOK, FetchLaunch, GoTo, NoResult, CpuStates, Value
<1>4. FlagTypeOK'
  BY <1>1 DEF FlagTypeOK, FetchShared, FetchLaunch, MemDo, Trigger, NoWait
<1>5. IrqTypeOK'
  BY <1>1, FetchSharedType DEF IrqTypeOK, FetchLaunch
<1>6. HistoryTypeOK'
  <2>1. arch_pc' \in Value
    BY SMTT(30), <1>2, SizeAssumption DEF HistoryTypeOK, FetchLaunch, Plus, PC, Value, Undef
  <2>2. QED BY <1>2, <2>1, CountAccessType DEF HistoryTypeOK, FetchLaunch
<1>7. QED BY <1>3, <1>4, <1>5, <1>6

(* A fetch state that waits for an instruction keeps the types. *)
LEMMA FetchIdleType ==
  ASSUME TypeOK, NEW ready \in BOOLEAN, NEW irq \in SUBSET Lines,
         FetchIdle(ready, irq)
  PROVE  MainTypeOK'
<1> USE DEF TypeOK, MainTypeOK
<1>1. FetchShared(ready, irq)
  BY DEF FetchIdle
<1>2. CpuTypeOK'
  <2>1. decoded_rd \in Reg
    BY RegType DEF decoded_rd, BusTypeOK, Word
  <2>2. QED
    BY <1>1, <2>1, FetchSharedType DEF CpuTypeOK, FetchIdle, GoTo, NoResult, CpuStates, Value
<1>3. FlagTypeOK'
  BY <1>1 DEF FlagTypeOK, FetchShared, FetchIdle, MemDo, Trigger, NoWait
<1>4. IrqTypeOK'
  BY <1>1, FetchSharedType DEF IrqTypeOK, FetchIdle
<1>5. HistoryTypeOK'
  BY CountAccessType DEF HistoryTypeOK, FetchIdle
<1>6. QED BY <1>2, <1>3, <1>4, <1>5

(* The fetch state keeps the types. *)
LEMMA StFetchType ==
  ASSUME TypeOK, NEW ready \in BOOLEAN, NEW irq \in SUBSET Lines,
         StFetch(ready, irq)
  PROVE  MainTypeOK'
BY FetchIrqType, FetchWaitIrqType, FetchLaunchType, FetchIdleType DEF StFetch

(* The operand states. *)
LEMMA OperandsOfType ==
  ASSUME NEW op
  PROVE  OperandsOf(op) \subseteq Value
BY SizeAssumption DEF OperandsOf, Value, PC

(* A step of the co-processor handshake keeps the types it can change. *)
LEMMA PcpiStepType ==
  ASSUME TypeOK, NEW ready \in BOOLEAN, NEW irq \in SUBSET Lines, NEW pcpi_ready,
         NEW state \in CpuStates,
         PcpiStep(ready, irq, pcpi_ready, state)
  PROVE  /\ cpu_state' \in CpuStates /\ irq_pending' \subseteq Lines
         /\ latched_store' \in BOOLEAN /\ pcpi_valid' \in BOOLEAN
         /\ mem_do_prefetch' \in BOOLEAN /\ mem_do_rinst' \in BOOLEAN
         /\ mem_do_rdata' \in BOOLEAN /\ mem_do_wdata' \in BOOLEAN
<1> USE DEF TypeOK, MainTypeOK
<1>1. CASE PcpiAnswer(ready, irq)
  BY <1>1, IrqPendingType DEF PcpiAnswer, GoTo, CpuStates, MemDo
<1>2. CASE PcpiGiveUp(ready, irq)
  <2>1. CASE CanRaise(irq_ebreak)
    <3>1. {irq_ebreak} \subseteq Lines
      BY <2>1, IrqAssumption DEF CanRaise
    <3>2. IrqPending({}, {irq_ebreak}, irq) /\ GoTo("fetch")
      BY <1>2, <2>1 DEF PcpiGiveUp, TrapOrRaise
    <3>3. irq_pending' \subseteq Lines
      BY <3>1, <3>2, IrqPendingType
    <3>4. QED BY <1>2, <3>2, <3>3 DEF PcpiGiveUp, KeepMemDo, MemDo, GoTo, CpuStates, FlagTypeOK
  <2>2. CASE ~CanRaise(irq_ebreak)
    BY <1>2, <2>2, IrqPendingType
       DEF PcpiGiveUp, TrapOrRaise, KeepMemDo, MemDo, GoTo, CpuStates, FlagTypeOK
  <2>3. QED BY <2>1, <2>2
<1>3. CASE PcpiIssue(ready, irq, state)
  BY <1>3, IrqPendingType DEF PcpiIssue, KeepMemDo, MemDo, GoTo, CpuStates, FlagTypeOK
<1>4. QED BY <1>1, <1>2, <1>3 DEF PcpiStep

(* An ebreak, trapped or raised as an interrupt, keeps the types. *)
LEMMA TrapOrRaiseType ==
  ASSUME TypeOK, NEW irq \in SUBSET Lines, TrapOrRaise(irq)
  PROVE  cpu_state' \in CpuStates /\ irq_pending' \subseteq Lines
<1> USE DEF TypeOK, MainTypeOK
<1>1. CASE CanRaise(irq_ebreak)
  <2>1. {irq_ebreak} \subseteq Lines
    BY <1>1, IrqAssumption DEF CanRaise
  <2>2. QED BY <1>1, <2>1, IrqPendingType DEF TrapOrRaise, GoTo, CpuStates
<1>2. CASE ~CanRaise(irq_ebreak)
  BY <1>2, IrqPendingType DEF TrapOrRaise, GoTo, CpuStates
<1>3. QED BY <1>1, <1>2

(* What the instructions that go on to another state have in common. *)
LEMMA DispatchType ==
  ASSUME TypeOK, NEW ready \in BOOLEAN, NEW irq \in SUBSET Lines,
         LoadShared(ready), DispatchShared(irq)
  PROVE  /\ IrqTypeOK' /\ HistoryTypeOK'
         /\ reg_pc' \in Value /\ reg_next_pc' \in Value /\ reg_out' \in Value /\ latched_rd' \in Reg
         /\ latched_store' \in BOOLEAN /\ latched_stalu' \in BOOLEAN /\ latched_branch' \in BOOLEAN
         /\ decoder_trigger' \in BOOLEAN /\ decoder_pseudo_trigger' \in BOOLEAN
         /\ op1_misaligned' \in BOOLEAN /\ pcpi_valid' \in BOOLEAN /\ returned' \in BOOLEAN
         /\ irq_active' \in BOOLEAN /\ irq_delay' \in BOOLEAN /\ do_waitirq' \in BOOLEAN
<1> USE DEF TypeOK, MainTypeOK
<1>1. IrqTypeOK'
  BY IrqPendingType DEF IrqTypeOK, LoadShared, DispatchShared, TimerRuns, NotFetching, NoIrqControl
<1>2. HistoryTypeOK'
  BY CountAccessType DEF HistoryTypeOK, LoadShared, DispatchShared, NotFetching
<1>3. reg_pc' \in Value /\ reg_next_pc' \in Value /\ reg_out' \in Value /\ latched_rd' \in Reg
  BY DEF CpuTypeOK, LoadShared, DispatchShared, NotFetching, NoResult, Value
<1>4. /\ latched_store' \in BOOLEAN /\ latched_stalu' \in BOOLEAN /\ latched_branch' \in BOOLEAN
      /\ decoder_trigger' \in BOOLEAN /\ decoder_pseudo_trigger' \in BOOLEAN
      /\ op1_misaligned' \in BOOLEAN /\ pcpi_valid' \in BOOLEAN /\ returned' \in BOOLEAN
      /\ irq_active' \in BOOLEAN /\ irq_delay' \in BOOLEAN /\ do_waitirq' \in BOOLEAN
  BY DEF FlagTypeOK, LoadShared, DispatchShared, Trigger, NotFetching, NoIrqControl
<1>5. QED BY <1>1, <1>2, <1>3, <1>4

(* Going to the exec state keeps the types it can change. *)
LEMMA ToExecType ==
  ASSUME NEW ready, NEW two_cycles, NEW four, ToExec(ready, two_cycles, four)
  PROVE  /\ cpu_state' \in CpuStates
         /\ alu_wait_2' \in BOOLEAN
         /\ mem_do_prefetch' \in BOOLEAN /\ mem_do_rinst' \in BOOLEAN
         /\ mem_do_rdata' \in BOOLEAN /\ mem_do_wdata' \in BOOLEAN
BY DEF ToExec, GoTo, CpuStates, MemDo

(* A co-processor or illegal instruction keeps the types. *)
LEMMA LdRs1TrapType ==
  ASSUME TypeOK, NEW ready \in BOOLEAN, NEW irq \in SUBSET Lines, NEW pcpi_ready,
         LoadShared(ready), LdRs1Trap(ready, irq, pcpi_ready)
  PROVE  MainTypeOK'
<1> USE DEF TypeOK, MainTypeOK
<1>1. /\ cpu_state' \in CpuStates /\ irq_pending' \subseteq Lines
      /\ latched_store' \in BOOLEAN /\ pcpi_valid' \in BOOLEAN
      /\ mem_do_prefetch' \in BOOLEAN /\ mem_do_rinst' \in BOOLEAN
      /\ mem_do_rdata' \in BOOLEAN /\ mem_do_wdata' \in BOOLEAN
  <2>1. CASE WITH_PCPI /\ ENABLE_REGS_DUALPORT
    <3>1. PcpiStep(ready, irq, pcpi_ready, "ld_rs1") /\ "ld_rs1" \in CpuStates
      BY <2>1 DEF LdRs1Trap, CpuStates
    <3>2. QED BY <3>1, PcpiStepType
  <2>2. CASE ~(WITH_PCPI /\ ENABLE_REGS_DUALPORT)
    <3>1. cpu_state' \in CpuStates /\ irq_pending' \subseteq Lines
      BY <2>2, IrqPendingType, TrapOrRaiseType DEF LdRs1Trap, GoTo, CpuStates
    <3>2. QED BY <2>2, <3>1 DEF LdRs1Trap, KeepMemDo, MemDo, FlagTypeOK
  <2>3. QED BY <2>1, <2>2
<1>2. CpuTypeOK'
  BY <1>1 DEF LdRs1Trap, LoadShared, CpuTypeOK, NoResult, NoShift, NotFetching, Value
<1>3. FlagTypeOK'
  BY <1>1 DEF LdRs1Trap, LoadShared, FlagTypeOK, Trigger, NoWait, NotFetching, NoIrqControl
<1>4. IrqTypeOK'
  BY <1>1 DEF LdRs1Trap, LoadShared, IrqTypeOK, TimerRuns, NotFetching, NoIrqControl
<1>5. HistoryTypeOK'
  BY CountAccessType DEF LdRs1Trap, LoadShared, HistoryTypeOK, NotFetching
<1>6. QED BY <1>2, <1>3, <1>4, <1>5

(* An instruction that only delivers a value keeps the types. *)
LEMMA LdRs1ValueType ==
  ASSUME TypeOK, NEW ready \in BOOLEAN, NEW irq \in SUBSET Lines,
         LoadShared(ready), LdRs1Value(ready, irq)
  PROVE  MainTypeOK'
<1> USE DEF TypeOK, MainTypeOK
<1>1. CpuTypeOK'
  BY RegType DEF LdRs1Value, LoadShared, CpuTypeOK, GoTo, CpuStates, NoResult, NoShift, NotFetching, Value
<1>2. FlagTypeOK'
  BY DEF LdRs1Value, LoadShared, FlagTypeOK, KeepMemDo, MemDo, Trigger, NoWait, NotFetching
<1>3. IrqTypeOK'
  <2>1. irq_mask' \subseteq Lines
    BY IrqAssumption DEF LdRs1Value, IrqTypeOK
  <2>2. timer' \in Nat
    <3>1. timer' \in TimerLoads \/ TimerRuns
      BY DEF LdRs1Value
    <3>2. CASE timer' \in TimerLoads
      BY <3>2, IrqAssumption
    <3>3. CASE TimerRuns
      BY <3>3 DEF IrqTypeOK, TimerRuns
    <3>4. QED BY <3>1, <3>2, <3>3
  <2>3. QED
    BY <2>1, <2>2, IrqPendingType DEF LdRs1Value, LoadShared, IrqTypeOK, NotFetching
<1>4. HistoryTypeOK'
  BY CountAccessType DEF LdRs1Value, LoadShared, HistoryTypeOK, NotFetching
<1>5. QED BY <1>1, <1>2, <1>3, <1>4

(* retirq keeps the types. *)
LEMMA LdRs1RetIrqType ==
  ASSUME TypeOK, NEW ready \in BOOLEAN, NEW irq \in SUBSET Lines,
         LoadShared(ready), LdRs1RetIrq(ready, irq)
  PROVE  MainTypeOK'
<1> USE DEF TypeOK, MainTypeOK
<1>1. CpuTypeOK'
  BY DEF LdRs1RetIrq, LoadShared, CpuTypeOK, IrqTypeOK, GoTo, CpuStates, NoShift, NotFetching, Value
<1>2. FlagTypeOK'
  BY DEF LdRs1RetIrq, LoadShared, FlagTypeOK, KeepMemDo, MemDo, Trigger, NoWait, NotFetching
<1>3. IrqTypeOK'
  BY IrqPendingType DEF LdRs1RetIrq, LoadShared, IrqTypeOK, TimerRuns, NotFetching
<1>4. HistoryTypeOK'
  BY CountAccessType DEF LdRs1RetIrq, LoadShared, HistoryTypeOK, IrqTypeOK, NotFetching
<1>5. QED BY <1>1, <1>2, <1>3, <1>4

(* A load, dispatched, keeps the types. *)
LEMMA LdRs1LoadType ==
  ASSUME TypeOK, NEW ready \in BOOLEAN, NEW irq \in SUBSET Lines,
         LoadShared(ready), LdRs1Load(ready, irq)
  PROVE  MainTypeOK'
<1> USE DEF TypeOK, MainTypeOK
<1>1. CpuTypeOK'
  BY DispatchType DEF LdRs1Load, CpuTypeOK, GoTo, CpuStates, NoShift, Value
<1>2. FlagTypeOK'
  BY DispatchType DEF LdRs1Load, FlagTypeOK, MemDo, NoWait
<1>3. QED BY <1>1, <1>2, DispatchType DEF LdRs1Load

(* A shift by a constant, dispatched, keeps the types. *)
LEMMA LdRs1ShiftImmType ==
  ASSUME TypeOK, NEW ready \in BOOLEAN, NEW irq \in SUBSET Lines,
         LoadShared(ready), LdRs1ShiftImm(ready, irq)
  PROVE  MainTypeOK'
<1> USE DEF TypeOK, MainTypeOK
<1>1. CpuTypeOK'
  BY DispatchType, ProgramAssumption DEF LdRs1ShiftImm, CpuTypeOK, GoTo, CpuStates, Value
<1>2. FlagTypeOK'
  BY DispatchType DEF LdRs1ShiftImm, FlagTypeOK, KeepMemDo, MemDo, NoWait
<1>3. QED BY <1>1, <1>2, DispatchType DEF LdRs1ShiftImm

(* An instruction with an immediate operand, dispatched, keeps the types. *)
LEMMA LdRs1AluType ==
  ASSUME TypeOK, NEW ready \in BOOLEAN, NEW irq \in SUBSET Lines,
         LoadShared(ready), LdRs1Alu(ready, irq)
  PROVE  MainTypeOK'
<1> USE DEF TypeOK, MainTypeOK
<1>1. ToExec(ready, TWO_CYCLE_ALU, FALSE)
  BY DEF LdRs1Alu
<1>2. CpuTypeOK'
  BY <1>1, ToExecType, OperandsOfType, DispatchType DEF LdRs1Alu, CpuTypeOK, NoShift
<1>3. FlagTypeOK'
  BY <1>1, ToExecType, DispatchType, ParameterAssumption DEF FlagTypeOK, LdRs1Alu, ToExec
<1>4. QED BY <1>2, <1>3, DispatchType DEF LdRs1Alu

(* An instruction with two operands, dispatched, keeps the types it can change. *)
LEMMA BothOperandsType ==
  ASSUME TypeOK, NEW ready \in BOOLEAN, BothOperands(ready)
  PROVE  /\ cpu_state' \in CpuStates /\ operands' \in Value /\ reg_sh' \in Nat
         /\ alu_wait' \in BOOLEAN /\ alu_wait_2' \in BOOLEAN
         /\ mem_do_prefetch' \in BOOLEAN /\ mem_do_rinst' \in BOOLEAN
         /\ mem_do_rdata' \in BOOLEAN /\ mem_do_wdata' \in BOOLEAN
<1>1. /\ cpu_state' \in CpuStates
      /\ alu_wait' \in BOOLEAN /\ alu_wait_2' \in BOOLEAN
      /\ mem_do_prefetch' \in BOOLEAN /\ mem_do_rinst' \in BOOLEAN
      /\ mem_do_rdata' \in BOOLEAN /\ mem_do_wdata' \in BOOLEAN
  <2> DEFINE slow_compare == TWO_CYCLE_COMPARE /\ stage1.op = "branch"
  <2>1. \/ GoTo("stmem") /\ MemDo(ready, mem_do_prefetch, TRUE, FALSE, FALSE, FALSE) /\ NoWait
        \/ GoTo("shift") /\ KeepMemDo(ready) /\ NoWait
        \/ ToExec(ready, TWO_CYCLE_ALU \/ slow_compare, TWO_CYCLE_ALU /\ slow_compare)
    BY DEF BothOperands
  <2>2. QED BY <2>1 DEF ToExec, GoTo, CpuStates, KeepMemDo, MemDo, NoWait
<1>2. operands' \in Value
  BY OperandsOfType DEF BothOperands, Value
<1>3. reg_sh' \in Nat
  <2>1. NoShift \/ reg_sh' \in ShiftAmounts
    BY DEF BothOperands
  <2>2. ShiftAmounts \subseteq Nat
    BY ProgramAssumption
  <2>3. CASE NoShift
    BY <2>3 DEF NoShift
  <2>4. CASE reg_sh' \in ShiftAmounts
    BY <2>2, <2>4
  <2>5. QED BY <2>1, <2>3, <2>4
<1>4. QED BY <1>1, <1>2, <1>3

(* An instruction that reads a second operand keeps the types. *)
LEMMA LdRs1DefaultType ==
  ASSUME TypeOK, NEW ready \in BOOLEAN, NEW irq \in SUBSET Lines,
         LoadShared(ready), LdRs1Default(ready, irq)
  PROVE  MainTypeOK'
<1> USE DEF TypeOK, MainTypeOK
<1>1. /\ cpu_state' \in CpuStates /\ operands' \in Value /\ reg_sh' \in Nat
      /\ alu_wait' \in BOOLEAN /\ alu_wait_2' \in BOOLEAN
      /\ mem_do_prefetch' \in BOOLEAN /\ mem_do_rinst' \in BOOLEAN
      /\ mem_do_rdata' \in BOOLEAN /\ mem_do_wdata' \in BOOLEAN
  <2>1. CASE ENABLE_REGS_DUALPORT
    BY <2>1, BothOperandsType DEF LdRs1Default
  <2>2. CASE ~ENABLE_REGS_DUALPORT
    <3>1. GoTo("ld_rs2") /\ KeepMemDo(ready) /\ operands' = Undef /\ NoShift /\ NoWait
      BY <2>2 DEF LdRs1Default
    <3>2. operands' \in Value /\ reg_sh' \in Nat
      BY <3>1 DEF Value, NoShift
    <3>3. QED BY <3>1, <3>2 DEF GoTo, CpuStates, KeepMemDo, MemDo, NoWait
  <2>3. QED BY <2>1, <2>2
<1>2. CpuTypeOK'
  BY <1>1, DispatchType DEF LdRs1Default, CpuTypeOK
<1>3. FlagTypeOK'
  BY <1>1, DispatchType DEF LdRs1Default, FlagTypeOK
<1>4. QED BY <1>2, <1>3, DispatchType DEF LdRs1Default

(* The first operand state keeps the types. *)
LEMMA StLdRs1Type ==
  ASSUME TypeOK, NEW ready \in BOOLEAN, NEW irq \in SUBSET Lines, NEW pcpi_ready,
         StLdRs1(ready, irq, pcpi_ready)
  PROVE  MainTypeOK'
BY LdRs1TrapType, LdRs1ValueType, LdRs1RetIrqType, LdRs1LoadType, LdRs1ShiftImmType,
   LdRs1AluType, LdRs1DefaultType
   DEF StLdRs1

(* The second operand state keeps the types. *)
LEMMA StLdRs2Type ==
  ASSUME TypeOK, NEW ready \in BOOLEAN, NEW irq \in SUBSET Lines, NEW pcpi_ready,
         StLdRs2(ready, irq, pcpi_ready)
  PROVE  MainTypeOK'
<1> USE DEF TypeOK, MainTypeOK
<1>1. LoadShared(ready)
  BY DEF StLdRs2
<1>2. CASE BothOperands(ready) /\ DispatchShared(irq)
  <2>1. CpuTypeOK'
    BY <1>1, <1>2, BothOperandsType, DispatchType DEF CpuTypeOK
  <2>2. FlagTypeOK'
    BY <1>1, <1>2, BothOperandsType, DispatchType DEF FlagTypeOK
  <2>3. QED BY <1>1, <1>2, <2>1, <2>2, DispatchType
<1>3. CASE /\ PcpiStep(ready, irq, pcpi_ready, "ld_rs2")
           /\ NoResult /\ NoShift /\ NoWait /\ TimerRuns /\ NoIrqControl
           /\ UNCHANGED <<operands, latched_branch, latched_rd, arch_pc>>
  <2>1. /\ cpu_state' \in CpuStates /\ irq_pending' \subseteq Lines
        /\ latched_store' \in BOOLEAN /\ pcpi_valid' \in BOOLEAN
        /\ mem_do_prefetch' \in BOOLEAN /\ mem_do_rinst' \in BOOLEAN
        /\ mem_do_rdata' \in BOOLEAN /\ mem_do_wdata' \in BOOLEAN
    <3>1. "ld_rs2" \in CpuStates
      BY DEF CpuStates
    <3>2. QED BY <1>3, <3>1, PcpiStepType
  <2>2. CpuTypeOK'
    BY <1>1, <1>3, <2>1 DEF LoadShared, CpuTypeOK, NoResult, NoShift, NotFetching, Value
  <2>3. FlagTypeOK'
    BY <1>1, <1>3, <2>1 DEF LoadShared, FlagTypeOK, Trigger, NoWait, NotFetching, NoIrqControl
  <2>4. IrqTypeOK'
    BY <1>1, <1>3, <2>1 DEF LoadShared, IrqTypeOK, TimerRuns, NotFetching, NoIrqControl
  <2>5. HistoryTypeOK'
    BY <1>1, <1>3, CountAccessType DEF LoadShared, HistoryTypeOK, NotFetching
  <2>6. QED BY <2>2, <2>3, <2>4, <2>5
<1>4. QED BY <1>2, <1>3 DEF StLdRs2

(* The execution states. *)
LEMMA ExecSharedType ==
  ASSUME TypeOK, NEW ready \in BOOLEAN, NEW irq \in SUBSET Lines,
         ExecShared(ready, irq)
  PROVE  /\ IrqTypeOK'
         /\ reg_pc' \in Value /\ reg_next_pc' \in Value /\ reg_out' \in Value /\ reg_sh' \in Nat
         /\ decoder_pseudo_trigger' \in BOOLEAN /\ op1_misaligned' \in BOOLEAN /\ pcpi_valid' \in BOOLEAN
         /\ irq_active' \in BOOLEAN /\ irq_delay' \in BOOLEAN /\ do_waitirq' \in BOOLEAN
         /\ returned' \in BOOLEAN
         /\ arch_ret' \in Value /\ running' \in AllOps \cup {"none"}
         /\ accesses' \in Seq({"load", "store"})
         /\ Plus(reg_pc, stage2.imm) \in Value
<1> USE DEF TypeOK, MainTypeOK
<1>1. IrqTypeOK'
  BY IrqPendingType DEF IrqTypeOK, ExecShared, TimerRuns, NotFetching, NoIrqControl
<1>2. Plus(reg_pc, stage2.imm) \in Value
  <2>1. reg_pc \in Value /\ stage2.imm \in PC
    BY DEF BusTypeOK, CpuTypeOK, Word
  <2>2. QED BY <2>1, PlusType DEF Value
<1>3. reg_pc' \in Value /\ reg_next_pc' \in Value /\ reg_out' \in Value /\ reg_sh' \in Nat
  BY <1>2 DEF CpuTypeOK, ExecShared, NotFetching, NoShift
<1>4. /\ decoder_pseudo_trigger' \in BOOLEAN /\ op1_misaligned' \in BOOLEAN /\ pcpi_valid' \in BOOLEAN
      /\ irq_active' \in BOOLEAN /\ irq_delay' \in BOOLEAN /\ do_waitirq' \in BOOLEAN
      /\ returned' \in BOOLEAN
  BY DEF FlagTypeOK, ExecShared, NotFetching, NoIrqControl
<1>5. /\ arch_ret' \in Value /\ running' \in AllOps \cup {"none"}
      /\ accesses' \in Seq({"load", "store"})
  BY CountAccessType DEF HistoryTypeOK, ExecShared, NotFetching
<1>6. QED BY <1>1, <1>2, <1>3, <1>4, <1>5

(* The exec state keeps the types. *)
LEMMA StExecType ==
  ASSUME TypeOK, NEW ready \in BOOLEAN, NEW irq \in SUBSET Lines,
         StExec(ready, irq)
  PROVE  MainTypeOK'
<1> USE DEF TypeOK, MainTypeOK
<1>1. ExecShared(ready, irq)
  BY DEF StExec, ExecWait, ExecBranch, ExecAlu
<1>2. CpuTypeOK'
  BY <1>1, ExecSharedType, RegType
     DEF CpuTypeOK, StExec, ExecWait, ExecBranch, ExecAlu, GoTo, CpuStates, latchVars, Value
<1>3. FlagTypeOK'
  <2>1. CASE ExecWait(ready, irq)
    BY <1>1, <2>1, ExecSharedType DEF FlagTypeOK, ExecWait, MemDo, Trigger, latchVars
  <2>2. CASE ExecBranch(ready, irq)
    BY <1>1, <2>2, ExecSharedType DEF FlagTypeOK, ExecBranch, MemDo, NoWait, compare_true
  <2>3. CASE ExecAlu(ready, irq)
    BY <1>1, <2>3, ExecSharedType DEF FlagTypeOK, ExecAlu, KeepMemDo, MemDo, Trigger, NoWait
  <2>4. QED BY <2>1, <2>2, <2>3 DEF StExec
<1>4. HistoryTypeOK'
  <2>1. arch_pc' \in {arch_pc, operands, Plus(reg_pc, stage2.imm)}
    BY DEF StExec, ExecWait, ExecBranch, ExecAlu
  <2>2. QED BY <1>1, <2>1, ExecSharedType DEF HistoryTypeOK, CpuTypeOK
<1>5. QED BY <1>1, <1>2, <1>3, <1>4, ExecSharedType

(* The shift state keeps the types: reg_sh never goes below zero. *)
LEMMA StShiftType ==
  ASSUME TypeOK, NEW ready \in BOOLEAN, NEW irq \in SUBSET Lines,
         StShift(ready, irq)
  PROVE  MainTypeOK'
<1> USE DEF TypeOK, MainTypeOK
<1>1. CpuTypeOK'
  <2>1. \/ reg_sh' = 0
        \/ reg_sh > 0 /\ reg_sh' = reg_sh - 1
        \/ reg_sh >= 4 /\ reg_sh' = reg_sh - 4
    BY DEF StShift, NoShift
  <2>2. reg_sh' \in Nat
    BY <2>1 DEF CpuTypeOK
  <2>3. QED BY <2>2 DEF CpuTypeOK, StShift, GoTo, CpuStates, NoResult, NotFetching, Value
<1>2. FlagTypeOK'
  BY DEF FlagTypeOK, StShift, KeepMemDo, MemDo, Trigger, NoWait, NotFetching, NoIrqControl
<1>3. IrqTypeOK'
  BY IrqPendingType DEF IrqTypeOK, StShift, TimerRuns, NotFetching, NoIrqControl
<1>4. HistoryTypeOK'
  BY CountAccessType DEF HistoryTypeOK, StShift, NotFetching
<1>5. QED BY <1>1, <1>2, <1>3, <1>4

(* A data access keeps the types. *)
LEMMA DataAccessType ==
  ASSUME TypeOK, NEW ready \in BOOLEAN, NEW irq \in SUBSET Lines,
         NEW requested \in BOOLEAN, NEW is_store \in BOOLEAN,
         latched_store' \in BOOLEAN,
         DataAccess(ready, irq, requested, is_store)
  PROVE  MainTypeOK'
<1> USE DEF TypeOK, MainTypeOK
<1>1. CpuTypeOK'
  BY DEF CpuTypeOK, DataAccess, GoTo, CpuStates, NoResult, NoShift, NotFetching, Value
<1>2. FlagTypeOK'
  BY DEF FlagTypeOK, DataAccess, MemDo, NoWait, NotFetching, NoIrqControl
<1>3. IrqTypeOK'
  BY IrqPendingType DEF IrqTypeOK, DataAccess, TimerRuns, NotFetching, NoIrqControl
<1>4. HistoryTypeOK'
  BY CountAccessType DEF HistoryTypeOK, DataAccess, NotFetching
<1>5. QED BY <1>1, <1>2, <1>3, <1>4

(* The store state keeps the types. *)
LEMMA StStMemType ==
  ASSUME TypeOK, NEW ready \in BOOLEAN, NEW irq \in SUBSET Lines,
         StStMem(ready, irq)
  PROVE  MainTypeOK'
BY DataAccessType DEF StStMem, TypeOK, MainTypeOK, FlagTypeOK

(* The load state keeps the types. *)
LEMMA StLdMemType ==
  ASSUME TypeOK, NEW ready \in BOOLEAN, NEW irq \in SUBSET Lines,
         StLdMem(ready, irq)
  PROVE  MainTypeOK'
BY DataAccessType DEF StLdMem, TypeOK, MainTypeOK, FlagTypeOK

-----------------------------------------------------------------------------
(* A clock edge keeps the types. *)
LEMMA ClockType ==
  ASSUME TypeOK, Clock
  PROVE  TypeOK'
<1>0. PICK ready \in BOOLEAN : ClockWith(ready)
  BY DEF Clock
<1>1. PICK word \in IF mem_xfer(ready) THEN ReadAt(mem_addr) ELSE {NoInsn},
           irq \in Inputs,
           drive \in IF pcpi_valid THEN PcpiDrives ELSE {<<FALSE, FALSE>>} :
             Cycle(ready, word, irq, drive[1], drive[2])
  BY <1>0 DEF ClockWith
<1>2. word \in Word
  <2>1. NoInsn \in Word
    BY SizeAssumption DEF NoInsn, Word, DataAddr, Addr, Undef, PC
  <2>2. QED BY <1>1, <2>1, ReadAtType DEF TypeOK, BusTypeOK
<1>3. irq \in SUBSET Lines
  BY <1>1, InputsType
<1>4. BusTypeOK'
  BY <1>1, <1>2, SharedCycleType DEF Cycle
<1>5. MainTypeOK'
  BY <1>1, <1>3, StTrapType, StFetchType, StLdRs1Type, StLdRs2Type,
     StExecType, StShiftType, StStMemType, StLdMemType
     DEF Cycle
<1>6. QED BY <1>4, <1>5 DEF TypeOK

(* Reset keeps the types. *)
LEMMA ResetType ==
  ASSUME TypeOK, Reset
  PROVE  TypeOK'
<1> USE DEF TypeOK, MainTypeOK, BusTypeOK
<1>1. BusTypeOK'
  <2>1. mem_rdata_q' \in Word
    BY ReadAtType DEF Reset
  <2>2. stage1' \in Word /\ stage2' \in Word
    BY DEF Reset
  <2>3. mem_state' \in 0..3 /\ mem_addr' \in Addr /\ alu_reg' \in Value /\ alu_out_q' \in Value
    BY DEF Reset, Value
  <2>4. pcpi_timeout_counter' \in 0..PcpiTimeout
    BY PcpiAssumption DEF Reset
  <2>5. /\ mem_valid' \in BOOLEAN /\ mem_instr' \in BOOLEAN /\ mem_wstrb' \in BOOLEAN
        /\ trap' \in BOOLEAN /\ pcpi_timeout' \in BOOLEAN
    BY DEF Reset
  <2>6. QED BY <2>1, <2>2, <2>3, <2>4, <2>5
<1>2. CpuTypeOK'
  BY RegType, SizeAssumption DEF Reset, CpuTypeOK, CpuStates, Value, PC
<1>3. FlagTypeOK'
  BY ParameterAssumption DEF Reset, FlagTypeOK
<1>4. IrqTypeOK'
  <2>1. irq_pending' \subseteq Lines
    BY InputsType, IrqAssumption DEF Reset
  <2>2. QED BY <2>1 DEF Reset, IrqTypeOK
<1>5. HistoryTypeOK'
  BY SizeAssumption DEF Reset, HistoryTypeOK, Value, PC
<1>6. QED BY <1>1, <1>2, <1>3, <1>4, <1>5

(* The registers have their types at power-up. *)
LEMMA InitType ==
  ASSUME Init
  PROVE  TypeOK
<1>1. BusTypeOK
  <2>1. NoInsn \in Word
    BY SizeAssumption DEF NoInsn, Word, DataAddr, Addr, Undef, PC
  <2>2. DataAddr \in Addr
    BY SizeAssumption DEF DataAddr, Addr, Undef
  <2>3. mem_state \in 0..3 /\ pcpi_timeout_counter \in 0..PcpiTimeout
    BY PcpiAssumption DEF Init, resetting
  <2>4. QED BY <2>1, <2>2, <2>3 DEF Init, resetting, BusTypeOK, Value
<1>2. CpuTypeOK
  BY RegType, SizeAssumption DEF Init, resetting, CpuTypeOK, CpuStates, Value, PC
<1>3. FlagTypeOK
  BY ParameterAssumption DEF Init, resetting, FlagTypeOK
<1>4. IrqTypeOK
  BY InputsType, SizeAssumption DEF Init, resetting, IrqTypeOK, Value, PC
<1>5. HistoryTypeOK
  BY SizeAssumption DEF Init, resetting, HistoryTypeOK, Value, PC
<1>6. QED BY <1>1, <1>2, <1>3, <1>4, <1>5 DEF TypeOK, MainTypeOK

(* A step that changes nothing keeps the types. *)
LEMMA StutterType ==
  ASSUME TypeOK, UNCHANGED vars
  PROVE  TypeOK'
BY DEF TypeOK, MainTypeOK, BusTypeOK, CpuTypeOK, FlagTypeOK, IrqTypeOK, HistoryTypeOK, vars,
   cpuVars, memVars, doVars, decodeVars, latchVars, aluVars, irqVars, entryVars, pcpiVars, historyVars

(* Every register of the core keeps its type, for every program, memory,
   co-processor, interrupt and configuration. *)
THEOREM TypeCorrect == Spec => []TypeOK
<1>1. Init => TypeOK
  BY InitType
<1>2. TypeOK /\ [Next]_vars => TypeOK'
  BY ClockType, ResetType, StutterType DEF Next
<1>3. QED BY <1>1, <1>2, PTL DEF Spec

-----------------------------------------------------------------------------
(* The core does not withdraw a request that is not done. *)
RequestsKept(ready) ==
  ~mem_done(ready) =>
    /\ mem_do_prefetch => mem_do_prefetch'
    /\ mem_do_rinst => mem_do_rinst'
    /\ mem_do_rdata => mem_do_rdata'
    /\ mem_do_wdata => mem_do_wdata'

(* The main machine goes where it is sent, or traps. *)
LEMMA GoToState ==
  ASSUME NEW state, GoTo(state)
  PROVE  cpu_state' \in {state, "trap"}
BY DEF GoTo

(* With nothing but a prefetch requested no request completes. *)
LEMMA NotDone ==
  ASSUME NEW ready, ~mem_do_rinst, ~mem_do_rdata, ~mem_do_wdata
  PROVE  ~mem_done(ready)
BY DEF mem_done

(* Without a request nothing is misaligned. *)
LEMMA QuietAligned ==
  ASSUME Quiet, NEW state, GoTo(state)
  PROVE  cpu_state' = state
BY DEF Quiet, GoTo, misaligned

(* The memory state machine keeps its request owned while the core keeps
   asking for what is not done. *)
LEMMA MemStepOwner ==
  ASSUME TypeOK, ControlInv, NEW ready \in BOOLEAN, MemStep(ready), trap' = (cpu_state = "trap"),
         RequestsKept(ready), RequestsExclusive'
  PROVE  TransferHasOwner' /\ (mem_state' = 0 => ~mem_valid')
<1> USE DEF TypeOK, MainTypeOK, BusTypeOK, FlagTypeOK
<1>1. CASE trap
  BY <1>1 DEF ControlInv, StateRequests, TransferHasOwner, MemStep, MemFrozen, MemRequest,
     MemTransfer, MemTakePrefetch, MemHold
<1>2. CASE ~trap /\ MemRequest
  <2>1. ~mem_done(ready)
    BY <1>2 DEF ControlInv, MemRequest, mem_done, mem_xfer
  <2>2. QED
    BY <1>2, <2>1 DEF ControlInv, RequestsKept, RequestsExclusive, TransferHasOwner, MemRequest,
       mem_la_read, mem_la_write, mem_reads
<1>3. CASE ~trap /\ MemTransfer(ready)
  <2>1. CASE mem_state = 1 /\ ~mem_do_rinst /\ ~mem_do_rdata
    <3>1. mem_do_prefetch /\ ~mem_do_wdata
      BY <1>3, <2>1 DEF ControlInv, TransferHasOwner, RequestsExclusive, mem_reads
    <3>2. mem_do_prefetch'
      BY <2>1, <3>1, NotDone DEF RequestsKept
    <3>3. QED
      BY <1>3, <2>1, <3>2 DEF ControlInv, TransferHasOwner, MemTransfer
  <2>2. CASE mem_state = 2 \/ mem_do_rinst \/ mem_do_rdata
    BY <1>3, <2>2 DEF TransferHasOwner, MemTransfer
  <2>3. QED BY <1>3, <2>1, <2>2 DEF MemTransfer
<1>4. CASE ~trap /\ MemTakePrefetch
  BY <1>4 DEF ControlInv, TransferHasOwner, MemTakePrefetch
<1>5. CASE ~trap /\ MemHold(ready)
  <2>1. UNCHANGED <<mem_state, mem_valid, mem_instr, mem_wstrb>>
    BY <1>5 DEF MemHold, memVars
  <2>2. CASE mem_state = 0
    BY <2>1, <2>2 DEF ControlInv, TransferHasOwner
  <2>3. CASE mem_state # 0
    <3>1. ~mem_done(ready)
      BY <1>5, <2>3 DEF ControlInv, TransferHasOwner, MemHold, mem_done, mem_xfer
    <3>2. QED
      BY <1>5, <2>1, <2>3, <3>1
         DEF ControlInv, TransferHasOwner, RequestsExclusive, RequestsKept, mem_reads
  <2>4. QED BY <2>2, <2>3
<1>6. QED BY <1>1, <1>2, <1>3, <1>4, <1>5 DEF MemStep, MemFrozen

(* The trap state keeps the requests it has. *)
LEMMA StTrapRequests ==
  ASSUME TypeOK, ControlInv, NEW ready, NEW irq, trap' = (cpu_state = "trap"),
         StTrap(ready, irq)
  PROVE  RequestsExclusive' /\ StateRequests' /\ RequestsKept(ready)
<1> USE DEF TypeOK, MainTypeOK, FlagTypeOK
<1>1. cpu_state' = "trap"
  BY GoToState DEF StTrap
<1>2. RequestsExclusive' /\ RequestsKept(ready)
  BY DEF ControlInv, RequestsExclusive, RequestsKept, StTrap, KeepMemDo, MemDo, mem_reads
<1>3. irq_state' = irq_state /\ do_waitirq' = FALSE
  BY DEF StTrap, NotFetching
<1>4. irq_state = 0
  BY DEF ControlInv, StateRequests, StTrap
<1>5. QED BY <1>1, <1>2, <1>3, <1>4 DEF StateRequests

(* The fetch state keeps the requests in order. *)
LEMMA StFetchRequests ==
  ASSUME TypeOK, ControlInv, NEW ready, NEW irq, NEW word, Decode(ready, word),
         trap' = (cpu_state = "trap"),
         StFetch(ready, irq)
  PROVE  RequestsExclusive' /\ StateRequests' /\ RequestsKept(ready)
<1> USE DEF TypeOK, MainTypeOK, FlagTypeOK
<1>1. cpu_state = "fetch" /\ ~trap' /\ ~mem_do_rdata /\ ~mem_do_wdata
  BY DEF StFetch, FetchIrq, FetchWaitIrq, FetchLaunch, FetchIdle, FetchShared, ControlInv, StateRequests
<1>2. decoder_trigger' = (mem_do_rinst /\ mem_done(ready))
  BY DEF StFetch, FetchIrq, FetchWaitIrq, FetchLaunch, FetchIdle, FetchShared, Trigger
<1>3. Quiet => ~mem_done(ready)
  BY NotDone DEF Quiet
<1>4. CASE FetchIrq(ready, irq)
  <2>1. cpu_state' \in {"fetch", "trap"} /\ do_waitirq' = FALSE /\ ENABLE_IRQ
    BY <1>4, GoToState DEF FetchIrq, irq_taken
  <2>2. CASE irq_state = 0
    <3>1. Quiet /\ decoder_trigger
      BY <1>1, <1>4, <2>2 DEF FetchIrq, irq_taken, ControlInv, StateRequests
    <3>2. Quiet' /\ ~decoder_trigger'
      BY <1>2, <1>3, <1>4, <2>2, <3>1 DEF FetchIrq, entering, MemDo, Quiet
    <3>3. cpu_state' = "fetch"
      BY <1>4, <3>1, QuietAligned DEF FetchIrq
    <3>4. QED
      BY <1>1, <2>1, <3>1, <3>2, <3>3 DEF RequestsExclusive, RequestsKept, StateRequests, Quiet, mem_reads
  <2>3. CASE irq_state = 1
    <3>1. Quiet /\ irq_state' = 2
      BY <1>1, <1>4, <2>3 DEF FetchIrq, ControlInv, StateRequests
    <3>2. ~mem_do_prefetch' /\ ~mem_do_rdata' /\ ~mem_do_wdata' /\ ~decoder_trigger'
      BY <1>2, <1>3, <1>4, <3>1 DEF FetchIrq, MemDo, Quiet
    <3>3. cpu_state' = "fetch"
      BY <1>4, <3>1, QuietAligned DEF FetchIrq
    <3>4. QED
      BY <1>1, <2>1, <3>1, <3>2, <3>3 DEF RequestsExclusive, RequestsKept, StateRequests, Quiet, mem_reads
  <2>4. CASE irq_state = 2
    <3>1. ~decoder_trigger /\ ~do_waitirq /\ irq_state' = 0
      BY <1>4, <2>4 DEF FetchIrq, ControlInv, StateRequests
    <3>2. RequestsKept(ready) /\ ~mem_do_rdata' /\ ~mem_do_wdata'
      BY <1>1, <1>4, <3>1 DEF FetchIrq, MemDo, RequestsKept
    <3>3. decoder_trigger' => Quiet'
      BY <1>1, <1>2, <1>4 DEF FetchIrq, MemDo, Quiet
    <3>4. QED
      BY <1>1, <2>1, <3>1, <3>2, <3>3 DEF RequestsExclusive, StateRequests
  <2>5. QED BY <2>2, <2>3, <2>4 DEF IrqTypeOK
<1>5. CASE FetchWaitIrq(ready, irq)
  <2>1. Quiet /\ irq_state = 0 /\ irq_state' = 0
    BY <1>1, <1>5 DEF FetchWaitIrq, waiting, irq_taken, ControlInv, StateRequests
  <2>2. cpu_state' = "fetch" /\ ~decoder_trigger'
    BY <1>2, <1>5, <2>1, QuietAligned DEF FetchWaitIrq, Quiet
  <2>3. /\ ~mem_do_prefetch' /\ ~mem_do_rdata' /\ ~mem_do_wdata'
        /\ do_waitirq' => Quiet'
    BY <1>3, <1>5, <2>1 DEF FetchWaitIrq, MemDo, Quiet
  <2>4. QED
    BY <1>1, <2>1, <2>2, <2>3 DEF RequestsExclusive, RequestsKept, StateRequests, Quiet, mem_reads
<1>6. CASE FetchLaunch(ready, irq)
  <2>1. Quiet /\ irq_state' = 0 /\ do_waitirq' = FALSE
    BY <1>1, <1>6 DEF FetchLaunch, irq_taken, ControlInv, StateRequests
  <2>2. /\ cpu_state' = (IF stage1.op = "jal" THEN "fetch" ELSE "ld_rs1")
        /\ ~decoder_trigger' /\ stage1' = stage1
    BY <1>2, <1>3, <1>6, <2>1, QuietAligned DEF FetchLaunch, Quiet, Decode
  <2>3. ~mem_do_rdata' /\ ~mem_do_wdata'
    BY <1>6, <2>1 DEF FetchLaunch, MemDo, Quiet
  <2>4. CASE stage1.op = "jal"
    BY <1>1, <2>1, <2>2, <2>3, <2>4 DEF RequestsExclusive, RequestsKept, StateRequests, Quiet, mem_reads
  <2>5. CASE stage1.op # "jal"
    <3>1. /\ mem_do_prefetch' = (stage1.op \notin {"jalr", "retirq"})
          /\ ~mem_do_rinst'
      BY <1>3, <1>6, <2>1, <2>5 DEF FetchLaunch, MemDo
    <3>2. QED
      BY <1>1, <2>1, <2>2, <2>3, <2>5, <3>1
         DEF RequestsExclusive, RequestsKept, StateRequests, Quiet, mem_reads
  <2>6. QED BY <2>4, <2>5
<1>7. CASE FetchIdle(ready, irq)
  <2>1. irq_state = 0 /\ irq_state' = 0 /\ do_waitirq' = FALSE /\ cpu_state' \in {"fetch", "trap"}
    BY <1>7, GoToState DEF FetchIdle, irq_taken, ControlInv, StateRequests
  <2>2. RequestsKept(ready) /\ ~mem_do_rdata' /\ ~mem_do_wdata'
    BY <1>1, <1>7 DEF FetchIdle, MemDo, RequestsKept, ControlInv, StateRequests, Quiet
  <2>3. decoder_trigger' => Quiet'
    BY <1>1, <1>2, <1>7 DEF FetchIdle, MemDo, Quiet
  <2>4. QED
    BY <1>1, <2>1, <2>2, <2>3 DEF RequestsExclusive, StateRequests
<1>8. QED BY <1>4, <1>5, <1>6, <1>7 DEF StFetch

(* Where an operand state may send an instruction, and what it then asks of  *)
(* the memory.                                                               *)
Dispatched ==
  /\ mem_do_prefetch' = mem_do_prefetch /\ ~mem_do_rdata' /\ ~mem_do_wdata'
  /\ \/ cpu_state' \in {"fetch", "trap"}
     \/ cpu_state' \in {"ld_rs1", "ld_rs2", "shift", "trap"} /\ ~mem_do_rinst'
     \/ cpu_state' \in {"exec", "trap"} /\ (alu_wait' \/ alu_wait_2' => ~mem_do_rinst')
     \/ cpu_state' \in {"ldmem", "stmem", "trap"} /\ stage1.op \in {"load", "store"} /\ mem_do_rinst'
Unrequested(ready) ==
  ~mem_do_rinst /\ ~mem_do_rdata /\ ~mem_do_wdata /\ ~mem_done(ready)

(* An instruction that stays in its state, or leaves for the fetch state,     *)
(* without a new request.                                                    *)
LEMMA KeepDispatched ==
  ASSUME FlagTypeOK, NEW ready, Unrequested(ready), KeepMemDo(ready),
         NEW state \in {"fetch", "trap", "ld_rs1", "ld_rs2", "shift"}, GoTo(state)
  PROVE  Dispatched
<1>1. cpu_state' \in {state, "trap"}
  BY GoToState
<1>2. mem_do_prefetch' = mem_do_prefetch /\ ~mem_do_rinst' /\ ~mem_do_rdata' /\ ~mem_do_wdata'
  BY DEF Unrequested, KeepMemDo, MemDo, FlagTypeOK
<1>3. QED BY <1>1, <1>2 DEF Dispatched

(* A load or store goes to its state with the fetch of its successor.        *)
LEMMA AccessDispatched ==
  ASSUME FlagTypeOK, NEW ready, Unrequested(ready),
         MemDo(ready, mem_do_prefetch, TRUE, FALSE, FALSE, FALSE),
         stage1.op \in {"load", "store"}, NEW state \in {"ldmem", "stmem"}, GoTo(state)
  PROVE  Dispatched
<1>1. cpu_state' \in {state, "trap"}
  BY GoToState
<1>2. mem_do_prefetch' = mem_do_prefetch /\ mem_do_rinst' /\ ~mem_do_rdata' /\ ~mem_do_wdata'
  BY DEF Unrequested, MemDo, FlagTypeOK
<1>3. QED BY <1>1, <1>2 DEF Dispatched

(* A two-cycle variant goes to the exec state without a fetch.               *)
LEMMA ToExecDispatched ==
  ASSUME FlagTypeOK, NEW ready, Unrequested(ready), NEW two_cycles \in BOOLEAN, NEW four \in BOOLEAN,
         ToExec(ready, two_cycles, four)
  PROVE  Dispatched
<1>1. cpu_state' \in {"exec", "trap"}
  BY GoToState DEF ToExec
<1>2. mem_do_prefetch' = mem_do_prefetch /\ ~mem_do_rdata' /\ ~mem_do_wdata'
  BY DEF Unrequested, ToExec, MemDo, FlagTypeOK
<1>3. alu_wait' \/ alu_wait_2' => two_cycles
  BY DEF ToExec
<1>4. two_cycles => ~mem_do_rinst'
  BY DEF Unrequested, ToExec, MemDo
<1>5. QED BY <1>1, <1>2, <1>3, <1>4 DEF Dispatched

(* A co-processor instruction is answered, given up or waits.                *)
LEMMA PcpiDispatched ==
  ASSUME FlagTypeOK, NEW ready, Unrequested(ready), NEW irq, NEW pcpi_ready,
         NEW state \in {"ld_rs1", "ld_rs2"}, PcpiStep(ready, irq, pcpi_ready, state)
  PROVE  Dispatched
<1>1. CASE PcpiAnswer(ready, irq)
  <2>1. cpu_state' \in {"fetch", "trap"}
    BY <1>1, GoToState DEF PcpiAnswer
  <2>2. mem_do_prefetch' = mem_do_prefetch /\ ~mem_do_rdata' /\ ~mem_do_wdata'
    BY <1>1 DEF Unrequested, PcpiAnswer, MemDo, FlagTypeOK
  <2>3. QED BY <2>1, <2>2 DEF Dispatched
<1>2. CASE PcpiGiveUp(ready, irq)
  <2>1. KeepMemDo(ready) /\ (GoTo("fetch") \/ GoTo("trap"))
    BY <1>2 DEF PcpiGiveUp, TrapOrRaise
  <2>2. QED BY <2>1, KeepDispatched
<1>3. CASE PcpiIssue(ready, irq, state)
  BY <1>3, KeepDispatched DEF PcpiIssue
<1>4. QED BY <1>1, <1>2, <1>3 DEF PcpiStep

(* An instruction with both operands read.                                   *)
LEMMA BothOperandsDispatched ==
  ASSUME FlagTypeOK, NEW ready, Unrequested(ready), BothOperands(ready)
  PROVE  Dispatched
<1>1. CASE /\ stage1.op = "store" /\ GoTo("stmem")
           /\ MemDo(ready, mem_do_prefetch, TRUE, FALSE, FALSE, FALSE)
  BY <1>1, AccessDispatched
<1>2. CASE GoTo("shift") /\ KeepMemDo(ready)
  BY <1>2, KeepDispatched
<1>3. CASE \E two_cycles \in BOOLEAN, four \in BOOLEAN : ToExec(ready, two_cycles, four)
  BY <1>3, ToExecDispatched
<1>4. QED
  <2> DEFINE slow_compare == TWO_CYCLE_COMPARE /\ stage1.op = "branch"
  <2>1. (TWO_CYCLE_ALU \/ slow_compare) \in BOOLEAN /\ (TWO_CYCLE_ALU /\ slow_compare) \in BOOLEAN
    OBVIOUS
  <2>2. QED BY <1>1, <1>2, <1>3, <2>1 DEF BothOperands

(* The operand states dispatch an instruction, keep it, or finish it. *)
LEMMA LdDispatched ==
  ASSUME FlagTypeOK, NEW ready, Unrequested(ready), NEW irq, NEW pcpi_ready,
         StLdRs1(ready, irq, pcpi_ready) \/ StLdRs2(ready, irq, pcpi_ready)
  PROVE  Dispatched
<1>1. CASE LdRs1Trap(ready, irq, pcpi_ready)
  <2>1. CASE PcpiStep(ready, irq, pcpi_ready, "ld_rs1")
    BY <2>1, PcpiDispatched
  <2>2. CASE KeepMemDo(ready) /\ (GoTo("ld_rs2") \/ GoTo("fetch") \/ GoTo("trap"))
    BY <2>2, KeepDispatched
  <2>3. QED BY <1>1, <2>1, <2>2 DEF LdRs1Trap, TrapOrRaise
<1>2. CASE LdRs1Value(ready, irq)
  BY <1>2, KeepDispatched DEF LdRs1Value
<1>3. CASE LdRs1RetIrq(ready, irq)
  BY <1>3, KeepDispatched DEF LdRs1RetIrq
<1>4. CASE LdRs1Load(ready, irq)
  BY <1>4, AccessDispatched DEF LdRs1Load
<1>5. CASE LdRs1ShiftImm(ready, irq)
  BY <1>5, KeepDispatched DEF LdRs1ShiftImm
<1>6. CASE LdRs1Alu(ready, irq)
  BY <1>6, ToExecDispatched, ParameterAssumption DEF LdRs1Alu
<1>7. CASE LdRs1Default(ready, irq)
  <2>1. CASE BothOperands(ready)
    BY <2>1, BothOperandsDispatched
  <2>2. CASE GoTo("ld_rs2") /\ KeepMemDo(ready)
    BY <2>2, KeepDispatched
  <2>3. QED BY <1>7, <2>1, <2>2 DEF LdRs1Default
<1>8. CASE StLdRs2(ready, irq, pcpi_ready)
  BY <1>8, PcpiDispatched, BothOperandsDispatched DEF StLdRs2
<1>9. QED BY <1>1, <1>2, <1>3, <1>4, <1>5, <1>6, <1>7, <1>8 DEF StLdRs1

(* The operand states dispatch an instruction.                               *)
LEMMA StLdRequests ==
  ASSUME TypeOK, ControlInv, NEW ready, NEW irq, NEW pcpi_ready, NEW word, Decode(ready, word),
         trap' = (cpu_state = "trap"),
         StLdRs1(ready, irq, pcpi_ready) \/ StLdRs2(ready, irq, pcpi_ready)
  PROVE  RequestsExclusive' /\ StateRequests' /\ RequestsKept(ready)
<1> USE DEF TypeOK, MainTypeOK, FlagTypeOK
<1>1. /\ cpu_state \in {"ld_rs1", "ld_rs2"} /\ LoadShared(ready)
  BY DEF StLdRs1, StLdRs2
<1>2. ~trap' /\ ~mem_do_rinst /\ ~mem_do_rdata /\ ~mem_do_wdata /\ ~mem_done(ready)
  BY <1>1, NotDone DEF ControlInv, StateRequests
<1>3. ~decoder_trigger' /\ ~do_waitirq' /\ irq_state' = 0 /\ stage1' = stage1
  BY <1>1, <1>2 DEF LoadShared, Trigger, NotFetching, Decode, ControlInv, StateRequests
<1>4. Dispatched
  BY <1>2, LdDispatched DEF Unrequested
<1>5. RequestsExclusive' /\ RequestsKept(ready)
  BY <1>2, <1>4 DEF Dispatched, RequestsExclusive, RequestsKept
<1>6. stage1.op \in {"load", "store"} => mem_do_prefetch'
  BY <1>1, <1>4 DEF Dispatched, ControlInv, StateRequests
<1>7. QED
  BY <1>2, <1>3, <1>4, <1>5, <1>6 DEF Dispatched, StateRequests

(* The exec state keeps the requests in order. *)
LEMMA StExecRequests ==
  ASSUME TypeOK, ControlInv, NEW ready, NEW irq, trap' = (cpu_state = "trap"),
         StExec(ready, irq)
  PROVE  RequestsExclusive' /\ StateRequests' /\ RequestsKept(ready)
<1> USE DEF TypeOK, MainTypeOK, FlagTypeOK
<1>1. cpu_state = "exec" /\ cpu_state' \in {"exec", "fetch", "trap"} /\ ~trap'
  BY GoToState DEF StExec, ExecWait, ExecBranch, ExecAlu, ExecShared
<1>2. ~mem_do_rdata /\ ~mem_do_wdata /\ ~do_waitirq' /\ irq_state' = 0
  BY <1>1 DEF ControlInv, StateRequests, StExec, ExecWait, ExecBranch, ExecAlu, ExecShared, NotFetching
<1>3. CASE ExecWait(ready, irq)
  <2>1. ~mem_do_rinst /\ ~mem_done(ready)
    BY <1>1, <1>2, <1>3, NotDone DEF ExecWait, ControlInv, StateRequests
  <2>2. /\ mem_do_prefetch' = mem_do_prefetch /\ ~mem_do_rdata' /\ ~mem_do_wdata'
        /\ alu_wait' \/ alu_wait_2' => ~mem_do_rinst'
    BY <1>2, <1>3, <2>1 DEF ExecWait, MemDo
  <2>3. cpu_state' \in {"exec", "trap"}
    BY <1>3, GoToState DEF ExecWait
  <2>4. QED
    BY <1>1, <1>2, <2>1, <2>2, <2>3 DEF RequestsExclusive, RequestsKept, StateRequests
<1>4. CASE ExecBranch(ready, irq)
  <2>1. RequestsKept(ready) /\ ~mem_do_rdata' /\ ~mem_do_wdata' /\ ~alu_wait' /\ ~alu_wait_2'
    BY <1>2, <1>4 DEF ExecBranch, MemDo, RequestsKept, NoWait
  <2>2. decoder_trigger' => Quiet'
    BY <1>2, <1>4 DEF ExecBranch, MemDo, Quiet
  <2>3. QED
    BY <1>1, <1>2, <2>1, <2>2 DEF RequestsExclusive, StateRequests
<1>5. CASE ExecAlu(ready, irq)
  <2>1. RequestsKept(ready) /\ ~mem_do_rdata' /\ ~mem_do_wdata' /\ ~alu_wait' /\ ~alu_wait_2'
    BY <1>2, <1>5 DEF ExecAlu, KeepMemDo, MemDo, RequestsKept, NoWait
  <2>2. decoder_trigger' => Quiet'
    BY <1>2, <1>5 DEF ExecAlu, KeepMemDo, MemDo, Trigger, Quiet
  <2>3. QED
    BY <1>1, <1>2, <2>1, <2>2 DEF RequestsExclusive, StateRequests
<1>6. QED BY <1>3, <1>4, <1>5 DEF StExec

(* The shift state keeps the requests in order. *)
LEMMA StShiftRequests ==
  ASSUME TypeOK, ControlInv, NEW ready, NEW irq, trap' = (cpu_state = "trap"),
         StShift(ready, irq)
  PROVE  RequestsExclusive' /\ StateRequests' /\ RequestsKept(ready)
<1> USE DEF TypeOK, MainTypeOK, FlagTypeOK
<1>1. cpu_state = "shift" /\ ~trap'
  BY DEF StShift
<1>2. ~mem_do_rinst /\ ~mem_do_rdata /\ ~mem_do_wdata /\ ~mem_done(ready)
  BY <1>1, NotDone DEF ControlInv, StateRequests
<1>3. ~decoder_trigger' /\ ~do_waitirq' /\ irq_state' = 0
  BY <1>1, <1>2 DEF StShift, Trigger, NotFetching, ControlInv, StateRequests
<1>4. /\ mem_do_prefetch' = mem_do_prefetch /\ ~mem_do_rdata' /\ ~mem_do_wdata'
      /\ \/ cpu_state' \in {"fetch", "trap"}
         \/ cpu_state' \in {"shift", "trap"} /\ ~mem_do_rinst'
  <2>1. CASE GoTo("fetch") /\ MemDo(ready, mem_do_prefetch, mem_do_prefetch, FALSE, FALSE, FALSE)
    BY <1>2, <2>1, GoToState DEF MemDo
  <2>2. CASE GoTo("shift") /\ KeepMemDo(ready)
    BY <1>2, <2>2, GoToState DEF KeepMemDo, MemDo
  <2>3. QED BY <2>1, <2>2 DEF StShift
<1>5. QED
  BY <1>1, <1>2, <1>3, <1>4 DEF RequestsExclusive, RequestsKept, StateRequests

(* A load requests data only after its prefetch is done. *)
LEMMA StLdMemRequests ==
  ASSUME TypeOK, ControlInv, NEW ready, NEW irq, trap' = (cpu_state = "trap"),
         StLdMem(ready, irq)
  PROVE  RequestsExclusive' /\ StateRequests' /\ RequestsKept(ready)
<1> USE DEF TypeOK, MainTypeOK, FlagTypeOK
<1>1. cpu_state = "ldmem" /\ ~trap' /\ DataAccess(ready, irq, mem_do_rdata, FALSE)
  BY DEF StLdMem
<1>2. ~mem_do_wdata /\ ~do_waitirq' /\ irq_state' = 0
  BY <1>1 DEF ControlInv, StateRequests, DataAccess, NotFetching
<1>3. CASE mem_do_prefetch /\ mem_do_rinst /\ ~mem_do_rdata
  <2>1. cpu_state' \in {"ldmem", "trap"}
    BY <1>1, <1>3, GoToState DEF DataAccess
  <2>2. /\ mem_done(ready) => ~mem_do_prefetch' /\ ~mem_do_rinst' /\ mem_do_rdata' /\ ~mem_do_wdata'
        /\ ~mem_done(ready) => mem_do_prefetch' /\ mem_do_rinst' /\ ~mem_do_rdata' /\ ~mem_do_wdata'
    BY <1>1, <1>2, <1>3 DEF DataAccess, MemDo
  <2>3. QED
    BY <1>1, <1>2, <1>3, <2>1, <2>2 DEF RequestsExclusive, RequestsKept, StateRequests, mem_reads
<1>4. CASE ~mem_do_prefetch /\ ~mem_do_rinst /\ mem_do_rdata
  <2>1. mem_done(ready) => Quiet' /\ cpu_state' \in {"fetch", "trap"}
    <3>1. SUFFICES ASSUME mem_done(ready)
                   PROVE  Quiet' /\ cpu_state' \in {"fetch", "trap"}
      OBVIOUS
    <3>2. GoTo("fetch")
      BY <1>1, <1>4, <3>1 DEF DataAccess
    <3>3. QED BY <1>1, <1>2, <1>4, <3>1, <3>2, GoToState DEF DataAccess, MemDo, Quiet
  <2>2. ~mem_done(ready) => /\ ~mem_do_prefetch' /\ ~mem_do_rinst' /\ mem_do_rdata' /\ ~mem_do_wdata'
                            /\ cpu_state' \in {"ldmem", "trap"}
    <3>1. SUFFICES ASSUME ~mem_done(ready)
                   PROVE  /\ ~mem_do_prefetch' /\ ~mem_do_rinst' /\ mem_do_rdata' /\ ~mem_do_wdata'
                          /\ cpu_state' \in {"ldmem", "trap"}
      OBVIOUS
    <3>2. GoTo("ldmem")
      BY <1>1, <1>4, <3>1 DEF DataAccess
    <3>3. QED BY <1>1, <1>2, <1>4, <3>1, <3>2, GoToState DEF DataAccess, MemDo
  <2>3. QED
    BY <1>1, <1>2, <1>4, <2>1, <2>2 DEF RequestsExclusive, RequestsKept, StateRequests, Quiet, mem_reads
<1>5. QED BY <1>1, <1>3, <1>4 DEF ControlInv, StateRequests

(* A store writes data only after its prefetch is done. *)
LEMMA StStMemRequests ==
  ASSUME TypeOK, ControlInv, NEW ready, NEW irq, trap' = (cpu_state = "trap"),
         StStMem(ready, irq)
  PROVE  RequestsExclusive' /\ StateRequests' /\ RequestsKept(ready)
<1> USE DEF TypeOK, MainTypeOK, FlagTypeOK
<1>1. cpu_state = "stmem" /\ ~trap' /\ DataAccess(ready, irq, mem_do_wdata, TRUE)
  BY DEF StStMem
<1>2. ~mem_do_rdata /\ ~do_waitirq' /\ irq_state' = 0
  BY <1>1 DEF ControlInv, StateRequests, DataAccess, NotFetching
<1>3. CASE mem_do_prefetch /\ mem_do_rinst /\ ~mem_do_wdata
  <2>1. cpu_state' \in {"stmem", "trap"}
    BY <1>1, <1>3, GoToState DEF DataAccess
  <2>2. /\ mem_done(ready) => ~mem_do_prefetch' /\ ~mem_do_rinst' /\ ~mem_do_rdata' /\ mem_do_wdata'
        /\ ~mem_done(ready) => mem_do_prefetch' /\ mem_do_rinst' /\ ~mem_do_rdata' /\ ~mem_do_wdata'
    BY <1>1, <1>2, <1>3 DEF DataAccess, MemDo
  <2>3. QED
    BY <1>1, <1>2, <1>3, <2>1, <2>2 DEF RequestsExclusive, RequestsKept, StateRequests, mem_reads
<1>4. CASE ~mem_do_prefetch /\ ~mem_do_rinst /\ mem_do_wdata
  <2>1. mem_done(ready) => Quiet' /\ cpu_state' \in {"fetch", "trap"}
    <3>1. SUFFICES ASSUME mem_done(ready)
                   PROVE  Quiet' /\ cpu_state' \in {"fetch", "trap"}
      OBVIOUS
    <3>2. GoTo("fetch")
      BY <1>1, <1>4, <3>1 DEF DataAccess
    <3>3. QED BY <1>1, <1>2, <1>4, <3>1, <3>2, GoToState DEF DataAccess, MemDo, Quiet
  <2>2. ~mem_done(ready) => /\ ~mem_do_prefetch' /\ ~mem_do_rinst' /\ ~mem_do_rdata' /\ mem_do_wdata'
                            /\ cpu_state' \in {"stmem", "trap"}
    <3>1. SUFFICES ASSUME ~mem_done(ready)
                   PROVE  /\ ~mem_do_prefetch' /\ ~mem_do_rinst' /\ ~mem_do_rdata' /\ mem_do_wdata'
                          /\ cpu_state' \in {"stmem", "trap"}
      OBVIOUS
    <3>2. GoTo("stmem")
      BY <1>1, <1>4, <3>1 DEF DataAccess
    <3>3. QED BY <1>1, <1>2, <1>4, <3>1, <3>2, GoToState DEF DataAccess, MemDo
  <2>3. QED
    BY <1>1, <1>2, <1>4, <2>1, <2>2 DEF RequestsExclusive, RequestsKept, StateRequests, Quiet, mem_reads
<1>5. QED BY <1>1, <1>3, <1>4 DEF ControlInv, StateRequests

-----------------------------------------------------------------------------
(* A clock edge keeps the requests in order, and keeps those not yet done.   *)
LEMMA CycleRequests ==
  ASSUME TypeOK, ControlInv, NEW ready \in BOOLEAN, NEW word, NEW irq, NEW wait, NEW pcpi_ready,
         Cycle(ready, word, irq, wait, pcpi_ready)
  PROVE  RequestsExclusive' /\ StateRequests' /\ RequestsKept(ready)
<1>1. trap' = (cpu_state = "trap") /\ Decode(ready, word)
  BY DEF Cycle, SharedCycle
<1>2. CASE StLdRs1(ready, irq, pcpi_ready) \/ StLdRs2(ready, irq, pcpi_ready)
  BY <1>1, <1>2, StLdRequests
<1>3. CASE StFetch(ready, irq)
  BY <1>1, <1>3, StFetchRequests
<1>4. QED
  BY <1>1, <1>2, <1>3, StTrapRequests, StExecRequests, StShiftRequests, StStMemRequests, StLdMemRequests
     DEF Cycle

(* A clock edge preserves the inductive invariant.                           *)
LEMMA ClockControl ==
  ASSUME TypeOK, ControlInv, Clock
  PROVE  ControlInv'
<1>1. PICK ready \in BOOLEAN : ClockWith(ready)
  BY DEF Clock
<1>2. PICK word, irq, drive : Cycle(ready, word, irq, drive[1], drive[2])
  BY <1>1 DEF ClockWith
<1>3. RequestsExclusive' /\ StateRequests' /\ RequestsKept(ready)
  BY <1>2, CycleRequests
<1>4. MemStep(ready) /\ trap' = (cpu_state = "trap")
  BY <1>2 DEF Cycle, SharedCycle
<1>5. TransferHasOwner' /\ (mem_state' = 0 => ~mem_valid')
  BY <1>3, <1>4, MemStepOwner
<1>6. QED BY <1>3, <1>5 DEF ControlInv

(* Reset withdraws every request.                                            *)
LEMMA ResetControl ==
  ASSUME Reset
  PROVE  ControlInv' /\ resetting'
<1>1. resetting'
  BY DEF Reset, resetting
<1>2. RequestsExclusive' /\ TransferHasOwner' /\ (mem_state' = 0 => ~mem_valid')
  BY DEF Reset, RequestsExclusive, TransferHasOwner
<1>3. StateRequests'
  BY DEF Reset, StateRequests, Quiet
<1>4. QED BY <1>1, <1>2, <1>3 DEF ControlInv

(* Nothing is requested before the first edge.                               *)
LEMMA InitControl ==
  ASSUME Init
  PROVE  ControlInv
<1>1. RequestsExclusive /\ TransferHasOwner /\ (mem_state = 0 => ~mem_valid)
  BY DEF Init, resetting, RequestsExclusive, TransferHasOwner
<1>2. StateRequests
  BY DEF Init, resetting, StateRequests, Quiet
<1>3. QED BY <1>1, <1>2 DEF ControlInv

(* A step that changes nothing preserves the inductive invariant.            *)
LEMMA StutterControl ==
  ASSUME ControlInv, UNCHANGED vars
  PROVE  ControlInv'
BY DEF ControlInv, RequestsExclusive, TransferHasOwner, StateRequests, Quiet, mem_reads, vars,
   cpuVars, memVars, doVars, decodeVars, aluVars, irqVars, entryVars

(* The inductive invariant of the memory requests holds of every behaviour.  *)
THEOREM ControlCorrect == Spec => []ControlInv
<1>1. Init => ControlInv
  BY InitControl
<1>2. TypeOK /\ ControlInv /\ [Next]_vars => ControlInv'
  BY ClockControl, ResetControl, StutterControl DEF Next
<1>3. QED BY <1>1, <1>2, TypeCorrect, PTL DEF Spec

(* At most one of instruction fetch, data read and data write is requested:   *)
(* the assertions on mem_do_* of the code hold for every program, memory,     *)
(* co-processor, interrupt and configuration.                                *)
THEOREM RequestsAreExclusive == Spec => []RequestsExclusive
<1>1. ControlInv => RequestsExclusive
  BY DEF ControlInv
<1>2. QED BY <1>1, ControlCorrect, PTL

(* The memory state machine never works on a request the core has withdrawn:  *)
(* the assertions inside it hold.                                            *)
THEOREM TransfersHaveOwners == Spec => []TransferHasOwner
<1>1. ControlInv => TransferHasOwner
  BY DEF ControlInv
<1>2. QED BY <1>1, ControlCorrect, PTL

(* No request is announced on the look-ahead interface while one is on the    *)
(* bus.                                                                      *)
THEOREM RequestsDoNotOverlap == Spec => []NoRequestOverRequest
<1>1. ControlInv => NoRequestOverRequest
  BY DEF ControlInv, NoRequestOverRequest, mem_la_read, mem_la_write
<1>2. QED BY <1>1, ControlCorrect, PTL

(* A request on the bus keeps its address, direction and kind until it is     *)
(* answered.                                                                 *)
THEOREM RequestsAreStable == Spec => RequestStable
<1>1. ASSUME ControlInv, [Next]_vars, mem_valid, mem_valid'
      PROVE  UNCHANGED <<mem_addr, mem_instr, mem_wstrb>>
  <2>1. CASE Clock
    <3>1. PICK ready \in BOOLEAN : MemStep(ready)
      BY <2>1 DEF Clock, ClockWith, Cycle, SharedCycle
    <3>2. mem_state # 0
      BY <1>1 DEF ControlInv
    <3>3. QED BY <1>1, <3>1, <3>2 DEF MemStep, MemFrozen, MemRequest, MemTransfer, MemTakePrefetch,
                                      MemHold, memVars
  <2>2. CASE Reset
    BY <1>1, <2>2 DEF Reset
  <2>3. CASE UNCHANGED vars
    BY <2>3 DEF vars, memVars
  <2>4. QED BY <1>1, <2>1, <2>2, <2>3 DEF Next
<1>2. ControlInv /\ [Next]_vars => [mem_valid /\ mem_valid' => UNCHANGED <<mem_addr, mem_instr, mem_wstrb>>]_vars
  BY <1>1
<1>3. QED BY <1>2, ControlCorrect, PTL DEF Spec, RequestStable

(* A trapped core stays trapped, without a new request, until it is reset.    *)
THEOREM TrapIsFinal == Spec => TrapFinal
<1>1. ASSUME ControlInv, [Next]_vars, trap
      PROVE  resetting' \/ (trap' /\ cpu_state' = "trap" /\ (mem_valid' => mem_valid))
  <2>1. CASE Clock
    <3>1. cpu_state = "trap"
      BY <1>1 DEF ControlInv, StateRequests
    <3>0. PICK ready \in BOOLEAN : ClockWith(ready)
      BY <2>1 DEF Clock
    <3>2. PICK word, irq, drive : Cycle(ready, word, irq, drive[1], drive[2])
      BY <3>0 DEF ClockWith
    <3>3. trap' /\ MemStep(ready)
      BY <3>1, <3>2 DEF Cycle, SharedCycle
    <3>4. StTrap(ready, irq)
      BY <3>1, <3>2 DEF Cycle, StFetch, FetchIrq, FetchWaitIrq, FetchLaunch, FetchIdle, FetchShared,
         StLdRs1, StLdRs2, StExec, ExecWait, ExecBranch, ExecAlu, ExecShared, StShift, StStMem, StLdMem
    <3>5. cpu_state' = "trap"
      BY <3>4, GoToState DEF StTrap
    <3>6. mem_valid' => mem_valid
      BY <1>1, <3>3 DEF MemStep, MemFrozen, MemRequest, MemTransfer, MemTakePrefetch, MemHold
    <3>7. QED BY <3>3, <3>5, <3>6
  <2>2. CASE Reset
    BY <2>2, ResetControl
  <2>3. CASE UNCHANGED vars
    BY <1>1, <2>3 DEF vars, cpuVars, memVars, ControlInv, StateRequests
  <2>4. QED BY <1>1, <2>1, <2>2, <2>3 DEF Next
<1>2. ControlInv /\ [Next]_vars
        => [trap => resetting' \/ (trap' /\ cpu_state' = "trap" /\ (mem_valid' => mem_valid))]_vars
  BY <1>1
<1>3. QED BY <1>2, ControlCorrect, PTL DEF Spec, TrapFinal

-----------------------------------------------------------------------------
(* The pipeline and the program.                                             *)
Executing == {"ld_rs1", "ld_rs2", "exec", "shift"}
Accessing == {"ldmem", "stmem"}
(* The decode stages have left the instruction that runs for its successor.  *)
Left == cpu_state \in Accessing /\ ~mem_do_prefetch
(* Where the fetch under way should read. *)
Target == IF cpu_state = "fetch" THEN current_pc ELSE reg_next_pc

(* Only what memory does not hold decodes to no instruction, and the second   *)
(* decode stage follows the first, unless a taken branch drops what the first *)
(* has decoded.                                                              *)
StagesInv ==
  /\ mem_rdata_q.op = "none" => mem_rdata_q.at = DataAddr
  /\ stage1.op = "none" => stage1.at = DataAddr
  /\ cpu_state # "trap" =>
       \/ stage1 = IF decoder_trigger /\ ~decoder_pseudo_trigger THEN mem_rdata_q ELSE stage2
       \/ cpu_state = "fetch" /\ ~decoder_trigger

(* Which instructions each state runs, and the data they have accessed. *)
RunningInv ==
  /\ cpu_state \in Executing => ~decoder_trigger /\ stage1.op = running /\ accesses = <<>>
  /\ cpu_state = "ld_rs2" => /\ running \in {"store", "shift", "op", "branch", "pcpi", "ecall", "none"}
                             /\ ~ENABLE_REGS_DUALPORT
  /\ cpu_state = "exec" => running \in {"alu", "jalr", "op", "branch"}
  /\ cpu_state = "shift" => running \in {"shift", "shifti"}
  /\ cpu_state = "ldmem" => running = "load" /\ accesses = <<>>
  /\ cpu_state = "stmem" => running = "store" /\ accesses = <<>>
  /\ cpu_state = "fetch" /\ do_waitirq => running = "waitirq"
  /\ OneDataAccess

(* A write is never an instruction fetch, and a trapped core with no request on
   the bus has none to make. *)
BusInv ==
  /\ mem_state = 2 => ~mem_instr
  /\ trap /\ mem_state = 0 => Quiet

(* What the comparison and the target of a jump are when they are used. *)
OperandsInv ==
  cpu_state = "exec" =>
    /\ ~alu_wait /\ ~alu_wait_2 /\ TWO_CYCLE_ALU => alu_reg = operands
    /\ alu_wait_2 => alu_wait
    /\ running = "jalr" => operands \in PC /\ ~alu_wait_2
    /\ running = "branch" =>
         /\ TWO_CYCLE_ALU /\ TWO_CYCLE_COMPARE /\ ~alu_wait_2 => alu_reg = operands
         /\ ~alu_wait /\ ~alu_wait_2 /\ TWO_CYCLE_COMPARE => alu_out_q = operands

(* The program counter the next fetch uses is the one of the instruction set. *)
CounterInv ==
  /\ arch_pc \in PC /\ ret_reg \in PC
  /\ cpu_state = "fetch" => arch_pc = IF irq_state = 1 THEN reg_next_pc ELSE current_pc
  /\ cpu_state \notin {"fetch", "trap"} =>
       /\ arch_pc = reg_next_pc /\ ~latched_stalu
       /\ latched_branch => cpu_state = "exec" /\ running = "branch"
  /\ FetchCasesParallel

(* A jump leaves its successor unfetched; a branch has it on the way.        *)
JumpInv ==
  /\ cpu_state \in {"ld_rs1", "exec"} /\ running \in {"jalr", "retirq"} =>
       ~mem_do_prefetch /\ ~mem_do_rinst
  /\ cpu_state \in Executing /\ running = "branch" => mem_do_prefetch
  /\ cpu_state \in {"ld_rs2", "exec"} /\ running = "branch" => mem_state # 0
  /\ cpu_state = "fetch" /\ latched_store /\ latched_branch /\ latched_stalu =>
       ~mem_do_prefetch /\ ~mem_do_rinst

(* The word a fetch reads, holds or has decoded is the one at the target.    *)
FetchInv ==
  cpu_state # "trap" =>
    /\ mem_state = 1 /\ mem_instr => mem_addr = WordOf(Target)
    /\ mem_state = 3 => mem_rdata_q.at = WordOf(Target)
    /\ (cpu_state = "fetch" /\ (decoder_trigger \/ do_waitirq)) \/ Left => stage1.at = WordOf(Target)
    /\ cpu_state # "fetch" /\ ~Left =>
         ~decoder_trigger /\ stage2.at = WordOf(reg_pc) /\ stage2.op = running

(* The destinations of results and of an interrupt entry. *)
RegisterInv ==
  /\ cpu_state \notin {"fetch", "trap"} => latched_rd \in {WordOf(reg_pc), ZeroReg}
  /\ cpu_state = "fetch" /\ (latched_branch \/ latched_store) =>
       latched_rd \in {WordOf(reg_pc), ZeroReg, OtherReg, RetReg}
  /\ cpu_state = "fetch" /\ latched_store /\ latched_rd = RetReg =>
       reg_out \in PC /\ ~latched_stalu /\ ~latched_branch
  /\ irq_state = 1 => latched_rd = RetReg
  /\ irq_state = 2 => latched_rd = PendReg /\ ret_reg = arch_ret

(* Interrupts are pending only when enabled, and held back after a return.   *)
InterruptInv ==
  /\ irq_pending \cap MASKED_IRQ = {}
  /\ ~ENABLE_IRQ => irq_pending = {}
  /\ returned => irq_delay /\ irq_state = 0
  /\ cpu_state = "ld_rs1" /\ irq_active => irq_delay

(* Co-processors are asked only in a core that has them. *)
PcpiInv ==
  /\ PcpiOwned
  /\ pcpi_valid => WITH_PCPI
  /\ cpu_state = "ld_rs2" /\ running \in {"pcpi", "ecall", "none"} => WITH_PCPI

ProgramInv ==
  /\ StagesInv /\ RunningInv /\ OperandsInv /\ CounterInv /\ JumpInv /\ FetchInv
  /\ RegisterInv /\ InterruptInv /\ PcpiInv /\ BusInv

-----------------------------------------------------------------------------
(* The input of a cycle: memory answers with a word of the requested address. *)
Answer(ready, word) ==
  /\ word \in Word
  /\ word.op = "none" => word.at = DataAddr
  /\ mem_xfer(ready) => word.at = mem_addr

(* The words memory holds are instructions of the program. *)
LEMMA ReadAtAnswer ==
  ASSUME TypeOK, NEW ready \in BOOLEAN,
         NEW word \in IF mem_xfer(ready) THEN ReadAt(mem_addr) ELSE {NoInsn}
  PROVE  Answer(ready, word)
<1>1. word \in Word
  <2>1. NoInsn \in Word
    BY SizeAssumption DEF NoInsn, Word, DataAddr, Addr, Undef, PC
  <2>2. QED BY <2>1, ReadAtType DEF TypeOK, BusTypeOK
<1>2. NoInsn.at = DataAddr
  BY DEF NoInsn
<1>3. ASSUME NEW a, word \in ReadAt(a)
      PROVE  word.at = a /\ (word.op = "none" => word.at = DataAddr)
  BY <1>2, <1>3, ProgramAssumption DEF ReadAt, AllOps
<1>4. QED BY <1>1, <1>2, <1>3 DEF Answer

(* A transfer on the bus belongs to a working memory state machine; one of data
   to a load or store whose prefetch is done. *)
LEMMA TransferKind ==
  ASSUME TypeOK, ControlInv, BusInv, cpu_state # "trap", NEW ready \in BOOLEAN, mem_xfer(ready)
  PROVE  /\ mem_state \in {1, 2}
         /\ mem_instr => mem_state = 1 /\ ~mem_wstrb /\ (mem_do_prefetch \/ mem_do_rinst)
         /\ ~mem_instr => Left /\ mem_done(ready) /\ mem_wstrb = (cpu_state = "stmem")
<1> USE DEF TypeOK, MainTypeOK, BusTypeOK, FlagTypeOK
<1>1. mem_valid /\ ~trap
  BY DEF mem_xfer, ControlInv, StateRequests
<1>2. mem_state \in {1, 2}
  BY <1>1 DEF ControlInv, TransferHasOwner
<1>3. CASE mem_state = 1
  BY <1>1, <1>3 DEF ControlInv, TransferHasOwner, StateRequests, RequestsExclusive, mem_reads, Left, Accessing, mem_done
<1>4. CASE mem_state = 2
  BY <1>1, <1>4 DEF ControlInv, TransferHasOwner, StateRequests, RequestsExclusive, BusInv, Left, Accessing, mem_done
<1>5. QED BY <1>2, <1>3, <1>4

(* The fetch under way keeps reading the word at the target, when its target
   stays or no fetch is under way. *)
LEMMA FetchKept ==
  ASSUME TypeOK, ControlInv, BusInv, FetchInv, cpu_state # "trap", NEW ready \in BOOLEAN, NEW word,
         MemStep(ready), Decode(ready, word), Answer(ready, word),
         Target' = Target \/ (~mem_do_prefetch /\ ~mem_do_rinst),
         (mem_do_prefetch \/ mem_do_rinst) /\ mem_state = 0 => next_pc = Target
  PROVE  /\ mem_state' = 1 /\ mem_instr' => mem_addr' = WordOf(Target')
         /\ mem_state' = 3 => mem_rdata_q'.at = WordOf(Target')
         /\ mem_do_rinst /\ mem_done(ready) => stage1'.at = WordOf(Target)
<1> USE DEF TypeOK, MainTypeOK, BusTypeOK, FlagTypeOK
<1>1. ~trap
  BY DEF ControlInv, StateRequests
<1>2. mem_do_rinst /\ mem_done(ready) => stage1'.at = WordOf(Target)
  <2>1. SUFFICES ASSUME mem_do_rinst, mem_done(ready)
                 PROVE  stage1'.at = WordOf(Target)
    OBVIOUS
  <2>2. CASE mem_xfer(ready)
    BY <1>1, <2>1, <2>2, TransferKind DEF Decode, Answer, FetchInv, ControlInv, RequestsExclusive, mem_reads, StateRequests, Left, Accessing
  <2>3. CASE ~mem_xfer(ready)
    BY <2>1, <2>3 DEF Decode, FetchInv, mem_done
  <2>4. QED BY <2>2, <2>3
<1>3. CASE MemRequest
  BY <1>1, <1>2, <1>3 DEF MemRequest, mem_la_addr, mem_la_read, mem_la_write, mem_reads
<1>4. CASE MemTransfer(ready)
  <2>1. mem_state' \in {0, 3} /\ mem_rdata_q' = word /\ (mem_instr => word.at = mem_addr)
    BY <1>1, <1>4 DEF MemTransfer, Decode, Answer
  <2>2. mem_state' = 3 => mem_state = 1 /\ mem_instr /\ (mem_do_prefetch \/ mem_do_rinst)
    BY <1>1, <1>4, TransferKind DEF MemTransfer, mem_done, ControlInv, TransferHasOwner, Left, mem_reads
  <2>3. QED BY <1>2, <2>1, <2>2 DEF FetchInv
<1>5. CASE MemTakePrefetch
  BY <1>1, <1>2, <1>5 DEF MemTakePrefetch
<1>6. CASE MemHold(ready)
  <2>1. UNCHANGED <<mem_state, mem_instr, mem_addr, mem_valid>>
    BY <1>6 DEF MemHold, memVars
  <2>2. mem_state = 3 => mem_rdata_q' = mem_rdata_q
    BY <1>1 DEF ControlInv, TransferHasOwner, Decode, mem_xfer
  <2>3. mem_state = 3 \/ (mem_state = 1 /\ mem_instr) => mem_do_prefetch \/ mem_do_rinst
    BY <1>1 DEF ControlInv, TransferHasOwner
  <2>4. QED BY <1>1, <2>1, <2>2, <2>3, <1>2 DEF FetchInv
<1>7. QED BY <1>1, <1>2, <1>3, <1>4, <1>5, <1>6 DEF MemStep, MemFrozen

(* The decode stages agree again after a cycle that triggers the second for
   what the first has decoded. *)
LEMMA StagesKept ==
  ASSUME StagesInv, cpu_state # "trap", NEW ready, NEW word, Decode(ready, word), Answer(ready, word),
         Trigger(ready), cpu_state = "fetch" /\ ~decoder_trigger => cpu_state' \in {"fetch", "trap"}
  PROVE  StagesInv'
BY DEF StagesInv, Decode, Answer, Trigger

(* A prefetch that is not done stays under way. *)
LEMMA PrefetchUnderWay ==
  ASSUME TypeOK, ControlInv, NEW ready \in BOOLEAN, MemStep(ready), ~trap,
         mem_do_prefetch, ~mem_done(ready)
  PROVE  mem_state' # 0
BY DEF TypeOK, BusTypeOK, MainTypeOK, FlagTypeOK, ControlInv, TransferHasOwner, RequestsExclusive, mem_reads,
   MemStep, MemFrozen, MemRequest, MemTransfer, MemTakePrefetch, MemHold, memVars,
   mem_done, mem_la_read, mem_la_write

(* The memory interface never fetches instructions with a write, and a trapped
   core makes the request it has or none. *)
LEMMA BusKept ==
  ASSUME TypeOK, ControlInv, BusInv, NEW ready \in BOOLEAN, MemStep(ready),
         trap' = (cpu_state = "trap"), cpu_state = "trap" => KeepMemDo(ready)
  PROVE  BusInv'
<1> USE DEF TypeOK, MainTypeOK, BusTypeOK, FlagTypeOK
<1>1. mem_state' = 2 => ~mem_instr'
  BY DEF BusInv, MemStep, MemFrozen, MemRequest, MemTransfer, MemTakePrefetch, MemHold, memVars
<1>2. ASSUME cpu_state = "trap", mem_state' = 0
      PROVE  Quiet'
  <2>1. CASE trap
    BY <1>2, <2>1 DEF MemStep, MemFrozen, MemRequest, MemTransfer, MemTakePrefetch, MemHold, BusInv,
       KeepMemDo, MemDo, Quiet
  <2>2. CASE ~trap
    <3>1. mem_state = 0 => Quiet
      BY <1>2, <2>2 DEF MemStep, MemFrozen, MemRequest, MemTransfer, MemTakePrefetch, MemHold,
         mem_la_read, mem_la_write, mem_reads, Quiet
    <3>2. mem_state # 0 => mem_done(ready)
      BY <1>2, <2>2 DEF MemStep, MemFrozen, MemRequest, MemTransfer, MemTakePrefetch, MemHold, memVars,
         mem_done, ControlInv, TransferHasOwner
    <3>3. mem_done(ready) \/ Quiet => Quiet'
      BY <1>2 DEF KeepMemDo, MemDo, Quiet
    <3>4. QED BY <3>1, <3>2, <3>3
  <2>3. QED BY <2>1, <2>2
<1>3. QED BY <1>1, <1>2 DEF BusInv

-----------------------------------------------------------------------------
(* What every cycle of a running core does, and keeps. *)
Cycled(ready, word) ==
  /\ TypeOK /\ ControlInv /\ ProgramInv /\ TypeOK' /\ ControlInv'
  /\ cpu_state # "trap" /\ ready \in BOOLEAN /\ Answer(ready, word)
  /\ MemStep(ready) /\ Decode(ready, word)
  /\ alu_reg' = (IF TWO_CYCLE_ALU THEN operands ELSE Undef) /\ alu_out_q' = alu_out

(* The invariant without its part on the bus. *)
MainInv ==
  /\ StagesInv /\ RunningInv /\ OperandsInv /\ CounterInv /\ JumpInv /\ FetchInv
  /\ RegisterInv /\ InterruptInv /\ PcpiInv

(* Interrupts pend only when enabled and not masked by the configuration. *)
LEMMA PendingKept ==
  ASSUME NEW cleared, NEW raised, NEW irq, IrqPending(cleared, raised, irq)
  PROVE  irq_pending' \cap MASKED_IRQ = {} /\ (~ENABLE_IRQ => irq_pending' = {})
BY DEF IrqPending

(* The registers of q0 and q1, x0 and the rest are no destination of an
   instruction. *)
LEMMA RegDistinct ==
  /\ RetReg \notin Addr /\ PendReg \notin Addr
  /\ RetReg \notin {PendReg, ZeroReg, OtherReg}
  /\ PendReg \notin {ZeroReg, OtherReg}
BY SizeAssumption DEF RetReg, PendReg, ZeroReg, OtherReg, Addr, Undef

(* What each cycle of the fetch state does. *)
LEMMA FetchSharedProgram ==
  ASSUME NEW ready, NEW word, Cycled(ready, word), NEW irq, FetchShared(ready, irq),
         decoder_trigger \/ cpu_state' \in {"fetch", "trap"}
  PROVE  /\ StagesInv' /\ ret_reg' \in PC /\ current_pc \in PC /\ reg_pc' = current_pc
         /\ irq_state = 1 => ret_reg' = arch_pc
         /\ mem_xfer(ready) => mem_instr
         /\ irq_pending' \cap MASKED_IRQ = {} /\ (~ENABLE_IRQ => irq_pending' = {})
         /\ pcpi_valid' = FALSE /\ latched_stalu' = FALSE
         /\ decoder_trigger' = (mem_do_rinst /\ mem_done(ready))
<1> USE DEF Cycled, ProgramInv
<1>1. cpu_state = "fetch" /\ pcpi_valid = FALSE
  BY DEF FetchShared, PcpiInv, PcpiOwned, TypeOK, MainTypeOK, FlagTypeOK
<1>2. StagesInv'
  BY <1>1, StagesKept DEF FetchShared
<1>3. current_pc \in PC
  BY <1>1, SizeAssumption DEF CounterInv, FetchCasesParallel, current_pc, entering
<1>4. irq_state = 1 => ret_reg' = arch_pc
  BY <1>1 DEF CounterInv, FetchCasesParallel, RegisterInv, FetchShared, WriteBack, TypeOK, MainTypeOK, FlagTypeOK
<1>5. ret_reg' \in PC
  <2>1. Plus(reg_pc, 2) \in PC
    BY SizeAssumption DEF TypeOK, MainTypeOK, CpuTypeOK, Plus, Value, PC, Undef
  <2>2. CASE irq_state = 1
    BY <1>4, <2>2 DEF CounterInv
  <2>3. CASE irq_state # 1
    BY <1>1, <2>1, <2>3 DEF CounterInv, RegisterInv, FetchShared, WriteBack, result
  <2>4. QED BY <2>2, <2>3
<1>6. mem_xfer(ready) => mem_instr
  BY <1>1, TransferKind DEF Left, Accessing
<1>7. QED
  BY <1>1, <1>2, <1>3, <1>4, <1>5, <1>6, PendingKept DEF FetchShared, Trigger

(* A cycle that goes on fetching, or enters an interrupt. *)
LEMMA FetchOnProgram ==
  ASSUME NEW ready, NEW word, Cycled(ready, word), NEW irq, FetchIrq(ready, irq) \/ FetchIdle(ready, irq)
  PROVE  MainInv'
<1> USE DEF Cycled, ProgramInv
<1>1. /\ FetchShared(ready, irq) /\ cpu_state = "fetch" /\ cpu_state' \in {"fetch", "trap"}
      /\ ~latched_store' /\ ~latched_branch' /\ reg_next_pc' = current_pc /\ ~do_waitirq'
      /\ UNCHANGED <<running, irq_delay, returned>> /\ CountAccess(ready, FALSE)
  BY GoToState DEF FetchIrq, FetchIdle, FetchShared
<1>2. /\ StagesInv' /\ ret_reg' \in PC /\ current_pc \in PC /\ reg_pc' = current_pc
      /\ irq_state = 1 => ret_reg' = arch_pc
      /\ mem_xfer(ready) => mem_instr
      /\ irq_pending' \cap MASKED_IRQ = {} /\ (~ENABLE_IRQ => irq_pending' = {})
      /\ pcpi_valid' = FALSE /\ latched_stalu' = FALSE
      /\ decoder_trigger' = (mem_do_rinst /\ mem_done(ready))
  BY <1>1, FetchSharedProgram
<1>3. Target' = IF irq_state' = 1 /\ cpu_state' = "fetch" THEN IrqVector ELSE current_pc
  BY <1>1 DEF Target, current_pc, entering
<1>4. /\ irq_state' \in 0..2
      /\ irq_state' # 0 => cpu_state' = "fetch"
      /\ irq_state' = 1 => /\ irq_state = 0 /\ decoder_trigger /\ ~irq_delay
                           /\ latched_rd' = RetReg /\ arch_pc' = arch_pc
      /\ irq_state' = 2 => /\ irq_state = 1 /\ latched_rd' = PendReg
                           /\ arch_ret' = arch_pc /\ arch_pc' = IrqVector
      /\ irq_state' = 0 => irq_state # 1 /\ arch_pc' = arch_pc
  <2>1. irq_state \in 0..2 /\ irq_state' \in 0..2
    BY DEF TypeOK, MainTypeOK, IrqTypeOK
  <2>2. irq_state' # 0 => cpu_state' = "fetch"
    BY DEF ControlInv, StateRequests
  <2>3. CASE FetchIrq(ready, irq)
    <3>1. irq_state = 0 => decoder_trigger /\ ~irq_delay
      BY <2>3 DEF FetchIrq, irq_taken
    <3>2. \/ irq_state = 0 /\ irq_state' = 1
          \/ irq_state = 1 /\ irq_state' = 2
          \/ irq_state = 2 /\ irq_state' = 0
      BY <2>1, <2>3 DEF FetchIrq
    <3>3. QED BY <2>1, <2>2, <2>3, <3>1, <3>2 DEF FetchIrq
  <2>4. CASE FetchIdle(ready, irq)
    <3>1. irq_state = 0 /\ irq_state' = 0 /\ arch_pc' = arch_pc
      BY <2>4 DEF FetchIdle, irq_taken, ControlInv, StateRequests
    <3>2. QED BY <3>1
  <2>5. QED BY <2>3, <2>4
<1>5. CounterInv'
  <2>1. arch_pc' \in PC
    BY <1>4, SizeAssumption DEF CounterInv
  <2>2. ASSUME cpu_state' = "fetch"
        PROVE  arch_pc' = IF irq_state' = 1 THEN reg_next_pc' ELSE current_pc'
    <3>1. CASE irq_state' = 1
      BY <1>1, <1>4, <3>1 DEF CounterInv
    <3>2. CASE irq_state' = 2
      BY <1>1, <1>3, <1>4, <2>2, <3>2 DEF CounterInv, FetchCasesParallel, Target, current_pc, entering
    <3>3. CASE irq_state' = 0
      BY <1>1, <1>3, <1>4, <2>2, <3>3 DEF CounterInv, Target
    <3>4. QED BY <1>4, <3>1, <3>2, <3>3
  <2>3. QED BY <1>1, <1>2, <1>4, <2>1, <2>2 DEF CounterInv, FetchCasesParallel
<1>6. RunningInv'
  <2>1. accesses' = accesses
    BY <1>1, <1>2 DEF CountAccess
  <2>2. QED BY <1>1, <2>1 DEF RunningInv, OneDataAccess, Executing
<1>7. OperandsInv' /\ JumpInv' /\ PcpiInv'
  BY <1>1, <1>2 DEF OperandsInv, JumpInv, PcpiInv, PcpiOwned, Executing
<1>8. RegisterInv' /\ InterruptInv'
  BY <1>1, <1>2, <1>4 DEF RegisterInv, InterruptInv
<1>9. FetchInv'
  <2>1. Target' = Target \/ (~mem_do_prefetch /\ ~mem_do_rinst)
    BY <1>1, <1>3, <1>4 DEF Target, ControlInv, StateRequests, Quiet
  <2>2. mem_do_prefetch \/ mem_do_rinst => next_pc = Target
    BY <1>1 DEF next_pc, Target, current_pc, entering, result, JumpInv, ControlInv, StateRequests, Quiet,
       TypeOK, MainTypeOK, FlagTypeOK
  <2>3. /\ mem_state' = 1 /\ mem_instr' => mem_addr' = WordOf(Target')
        /\ mem_state' = 3 => mem_rdata_q'.at = WordOf(Target')
        /\ mem_do_rinst /\ mem_done(ready) => stage1'.at = WordOf(Target)
    BY <2>1, <2>2, FetchKept
  <2>4. ~Left'
    BY <1>1 DEF Left, Accessing
  <2>5. QED BY <1>1, <1>2, <2>1, <2>3, <2>4 DEF FetchInv
<1>10. QED BY <1>2, <1>5, <1>6, <1>7, <1>8, <1>9 DEF MainInv

(* A cycle that waits for an interrupt, or wakes up. *)
LEMMA FetchWaitProgram ==
  ASSUME NEW ready, NEW word, Cycled(ready, word), NEW irq, FetchWaitIrq(ready, irq)
  PROVE  MainInv'
<1> USE DEF Cycled, ProgramInv
<1>1. /\ FetchShared(ready, irq) /\ cpu_state = "fetch" /\ cpu_state' \in {"fetch", "trap"}
      /\ ~latched_branch' /\ running' = "waitirq" /\ CountAccess(ready, decoder_trigger)
      /\ irq_state = 0 /\ irq_state' = 0 /\ UNCHANGED <<irq_delay, returned>>
      /\ decoder_trigger \/ do_waitirq
      /\ latched_rd' = stage1.at /\ do_waitirq' = ~wakes
      /\ reg_next_pc' = IF wakes THEN Plus(current_pc, 2) ELSE current_pc
      /\ arch_pc' = IF wakes THEN Plus(arch_pc, 2) ELSE arch_pc
  BY GoToState DEF FetchWaitIrq, FetchShared, waiting, irq_taken, decoded_rd, TypeOK, MainTypeOK, IrqTypeOK,
     ControlInv, StateRequests
<1>2. /\ StagesInv' /\ ret_reg' \in PC /\ current_pc \in PC /\ reg_pc' = current_pc
      /\ mem_xfer(ready) => mem_instr
      /\ irq_pending' \cap MASKED_IRQ = {} /\ (~ENABLE_IRQ => irq_pending' = {})
      /\ pcpi_valid' = FALSE /\ latched_stalu' = FALSE
      /\ decoder_trigger' = (mem_do_rinst /\ mem_done(ready))
  BY <1>1, FetchSharedProgram
<1>3. Quiet /\ ~mem_done(ready) /\ stage1' = stage1
  BY <1>1, NotDone DEF ControlInv, StateRequests, Quiet, Decode
<1>4. arch_pc = current_pc /\ stage1.at = WordOf(current_pc) /\ current_pc' = reg_next_pc'
  BY <1>1 DEF CounterInv, FetchInv, Target, current_pc, entering
<1>5. CounterInv'
  <2>1. Plus(arch_pc, 2) \in PC
    BY <1>2, <1>4, SizeAssumption DEF Plus, PC
  <2>2. QED BY <1>1, <1>2, <1>4, <2>1 DEF CounterInv, FetchCasesParallel
<1>6. RunningInv'
  <2>1. accesses' = <<>>
    BY <1>1, <1>2 DEF CountAccess, RunningInv, OneDataAccess
  <2>2. QED BY <1>1, <2>1 DEF RunningInv, OneDataAccess, Executing
<1>7. OperandsInv' /\ JumpInv' /\ PcpiInv'
  BY <1>1, <1>2 DEF OperandsInv, JumpInv, PcpiInv, PcpiOwned, Executing
<1>8. RegisterInv' /\ InterruptInv'
  <2>1. latched_rd' = WordOf(reg_pc') /\ latched_rd' # RetReg
    BY <1>1, <1>2, <1>4, RegDistinct DEF TypeOK, BusTypeOK, Word
  <2>2. QED BY <1>1, <1>2, <2>1 DEF RegisterInv, InterruptInv
<1>9. FetchInv'
  <2>1. /\ mem_state' = 1 /\ mem_instr' => mem_addr' = WordOf(Target')
        /\ mem_state' = 3 => mem_rdata_q'.at = WordOf(Target')
    BY <1>3, FetchKept DEF Quiet
  <2>2. do_waitirq' /\ cpu_state' = "fetch" => Target' = current_pc
    BY <1>1, <1>4 DEF Target
  <2>3. ~Left' /\ ~decoder_trigger'
    BY <1>1, <1>2, <1>3 DEF Left, Accessing
  <2>4. QED BY <1>1, <1>3, <1>4, <2>1, <2>2, <2>3 DEF FetchInv
<1>10. QED BY <1>2, <1>5, <1>6, <1>7, <1>8, <1>9 DEF MainInv

(* The start of an instruction: a jal goes on fetching, the others are executed
   with the fetch of their successor under way. *)
LEMMA FetchLaunchProgram ==
  ASSUME NEW ready, NEW word, Cycled(ready, word), NEW irq, FetchLaunch(ready, irq)
  PROVE  MainInv'
<1> USE DEF Cycled, ProgramInv
<1>1. /\ FetchShared(ready, irq) /\ cpu_state = "fetch" /\ decoder_trigger
      /\ irq_state = 0 /\ irq_state' = 0 /\ irq_delay' = irq_active /\ returned' = FALSE
      /\ ~latched_store' /\ ~do_waitirq' /\ running' = stage1.op /\ accesses' = <<>>
      /\ latched_branch' = (stage1.op = "jal") /\ latched_rd' = stage1.at
      /\ irq_active' = irq_active
  BY DEF FetchLaunch, FetchShared, decoded_rd, irq_taken, entering, CountAccess, TypeOK, MainTypeOK,
     IrqTypeOK, FlagTypeOK, ControlInv, StateRequests
<1>2. /\ StagesInv' /\ ret_reg' \in PC /\ current_pc \in PC /\ reg_pc' = current_pc
      /\ irq_pending' \cap MASKED_IRQ = {} /\ (~ENABLE_IRQ => irq_pending' = {})
      /\ pcpi_valid' = FALSE /\ latched_stalu' = FALSE
      /\ decoder_trigger' = (mem_do_rinst /\ mem_done(ready))
  BY <1>1, FetchSharedProgram
<1>3. Quiet /\ ~mem_done(ready) /\ stage1' = stage1 /\ ~decoder_trigger'
  BY <1>1, <1>2, NotDone DEF ControlInv, StateRequests, Quiet, Decode
<1>4. arch_pc = current_pc /\ stage1.at = WordOf(current_pc) /\ stage2' = stage1
  BY <1>1, <1>3 DEF CounterInv, FetchInv, Target, StagesInv, Decode
<1>5. /\ cpu_state' = (IF stage1.op = "jal" THEN "fetch" ELSE "ld_rs1")
      /\ arch_pc' = reg_next_pc' /\ arch_pc' \in PC
      /\ mem_do_rinst' => stage1.op = "jal"
      /\ stage1.op # "jal" => mem_do_prefetch' = (stage1.op \notin {"jalr", "retirq"})
  <2>1. cpu_state' = (IF stage1.op = "jal" THEN "fetch" ELSE "ld_rs1")
    BY <1>3, QuietAligned DEF FetchLaunch
  <2>2. arch_pc' = reg_next_pc'
    BY <1>4 DEF FetchLaunch
  <2>3. arch_pc' \in PC
    BY <1>2, <1>4, SizeAssumption DEF FetchLaunch, Plus, PC, TypeOK, BusTypeOK, Word
  <2>4. QED BY <1>3, <2>1, <2>2, <2>3 DEF FetchLaunch, MemDo
<1>6. cpu_state' = "fetch" => current_pc' = reg_next_pc'
  BY <1>1 DEF current_pc, entering
<1>7. CounterInv'
  <2>1. latched_branch' => cpu_state' = "fetch"
    BY <1>1, <1>5
  <2>2. cpu_state' = "fetch" => arch_pc' = current_pc'
    BY <1>5, <1>6
  <2>3. QED BY <1>1, <1>2, <1>5, <2>1, <2>2 DEF CounterInv, FetchCasesParallel
<1>8. RunningInv' /\ OperandsInv' /\ PcpiInv'
  BY <1>1, <1>2, <1>3, <1>5 DEF RunningInv, OneDataAccess, OperandsInv, PcpiInv, PcpiOwned
<1>9. JumpInv'
  BY <1>1, <1>5 DEF JumpInv, Executing
<1>10. RegisterInv' /\ InterruptInv'
  BY <1>1, <1>2, <1>4, <1>5, RegDistinct DEF RegisterInv, InterruptInv, TypeOK, BusTypeOK, Word
<1>11. FetchInv'
  <2>1. /\ mem_state' = 1 /\ mem_instr' => mem_addr' = WordOf(Target')
        /\ mem_state' = 3 => mem_rdata_q'.at = WordOf(Target')
    BY <1>1, <1>3, FetchKept DEF Quiet
  <2>2. ~Left'
    BY <1>5 DEF Left, Accessing
  <2>3. QED BY <1>1, <1>2, <1>3, <1>4, <1>5, <2>1, <2>2 DEF FetchInv
<1>12. QED BY <1>2, <1>7, <1>8, <1>9, <1>10, <1>11 DEF MainInv

-----------------------------------------------------------------------------
(* What each cycle of the operand states does. *)
LEMMA LoadSharedProgram ==
  ASSUME NEW ready, NEW word, Cycled(ready, word), cpu_state \in {"ld_rs1", "ld_rs2"}, LoadShared(ready)
  PROVE  /\ Unrequested(ready) /\ ~misaligned
         /\ StagesInv' /\ stage1' = stage1 /\ stage2' = stage1 /\ stage2 = stage1 /\ ~decoder_trigger'
         /\ stage1.op = running /\ accesses' = <<>>
         /\ UNCHANGED <<reg_pc, reg_next_pc, irq_delay, ret_reg, arch_ret, running>>
         /\ irq_state = 0 /\ irq_state' = 0 /\ ~do_waitirq' /\ ~latched_stalu /\ ~latched_stalu'
         /\ mem_do_prefetch => mem_state' # 0
         /\ Target' = reg_next_pc \/ ~mem_do_prefetch =>
              /\ mem_state' = 1 /\ mem_instr' => mem_addr' = WordOf(Target')
              /\ mem_state' = 3 => mem_rdata_q'.at = WordOf(Target')
<1> USE DEF Cycled, ProgramInv
<1>1. Unrequested(ready)
  BY NotDone DEF Unrequested, ControlInv, StateRequests
<1>2. ~misaligned
  BY <1>1 DEF Unrequested, misaligned
<1>3. stage1' = stage1 /\ ~decoder_trigger' /\ ~decoder_trigger /\ stage1.op = running
  BY <1>1 DEF Unrequested, Decode, LoadShared, Trigger, RunningInv, Executing
<1>4. stage2 = stage1 /\ stage2' = stage1
  BY <1>3 DEF StagesInv, Decode
<1>5. StagesInv'
  BY StagesKept DEF LoadShared
<1>6. accesses' = <<>>
  <2>1. mem_xfer(ready) => mem_instr
    BY TransferKind DEF Left, Accessing
  <2>2. QED BY <2>1 DEF LoadShared, CountAccess, RunningInv, Executing
<1>7. /\ UNCHANGED <<reg_pc, reg_next_pc, irq_delay, ret_reg, arch_ret, running>>
      /\ irq_state = 0 /\ irq_state' = 0 /\ ~do_waitirq' /\ ~latched_stalu /\ ~latched_stalu'
  BY DEF LoadShared, NotFetching, ControlInv, StateRequests, CounterInv
<1>8. mem_do_prefetch => mem_state' # 0
  BY <1>1, PrefetchUnderWay DEF Unrequested, ControlInv, StateRequests
<1>9. ASSUME Target' = reg_next_pc \/ ~mem_do_prefetch
      PROVE  /\ mem_state' = 1 /\ mem_instr' => mem_addr' = WordOf(Target')
             /\ mem_state' = 3 => mem_rdata_q'.at = WordOf(Target')
  <2>1. Target = reg_next_pc /\ next_pc = Target
    BY DEF Target, next_pc, CounterInv
  <2>2. QED BY <1>1, <1>9, <2>1, FetchKept DEF Unrequested
<1>10. QED BY <1>1, <1>2, <1>3, <1>4, <1>5, <1>6, <1>7, <1>8, <1>9

(* An instruction that goes on to another state, or has its result, keeps the
   invariant when the state is one for it. *)
LEMMA DispatchKept ==
  ASSUME NEW ready, NEW word, Cycled(ready, word), cpu_state \in {"ld_rs1", "ld_rs2"}, LoadShared(ready),
         mem_do_prefetch' = mem_do_prefetch, ~latched_branch', arch_pc' = arch_pc,
         latched_rd' = latched_rd \/ (latched_rd' \in {RetReg, OtherReg} /\ reg_out' \in PC /\ cpu_state' = "fetch"),
         UNCHANGED <<irq_active, returned>>,
         irq_pending' \cap MASKED_IRQ = {}, ~ENABLE_IRQ => irq_pending' = {},
         cpu_state' = "fetch" => running \notin {"load", "store"},
         cpu_state' = "ld_rs1" => cpu_state = "ld_rs1" /\ running \notin {"jalr", "retirq"},
         cpu_state' = "ld_rs2" => ~ENABLE_REGS_DUALPORT,
         cpu_state' = "ld_rs2" =>
           \/ running \in {"store", "shift", "op", "branch"}
           \/ running \in {"pcpi", "ecall", "none"} /\ WITH_PCPI,
         cpu_state' = "exec" => running \in {"alu", "jalr", "op", "branch"} /\ (mem_do_rinst' => mem_do_prefetch),
         cpu_state' = "shift" => running \in {"shift", "shifti"},
         cpu_state' = "ldmem" => running = "load",
         cpu_state' = "stmem" => running = "store",
         OperandsInv',
         pcpi_valid' => /\ cpu_state' = (IF ENABLE_REGS_DUALPORT THEN "ld_rs1" ELSE "ld_rs2")
                        /\ running = "pcpi" /\ WITH_PCPI
  PROVE  MainInv'
<1> USE DEF Cycled, ProgramInv
<1>1. /\ Unrequested(ready)
      /\ StagesInv' /\ stage1' = stage1 /\ stage2' = stage1 /\ stage2 = stage1 /\ ~decoder_trigger'
      /\ stage1.op = running /\ accesses' = <<>>
      /\ UNCHANGED <<reg_pc, reg_next_pc, irq_delay, ret_reg, arch_ret, running>>
      /\ irq_state = 0 /\ irq_state' = 0 /\ ~do_waitirq' /\ ~latched_stalu /\ ~latched_stalu'
      /\ mem_do_prefetch => mem_state' # 0
      /\ Target' = reg_next_pc \/ ~mem_do_prefetch =>
            /\ mem_state' = 1 /\ mem_instr' => mem_addr' = WordOf(Target')
            /\ mem_state' = 3 => mem_rdata_q'.at = WordOf(Target')
  BY LoadSharedProgram
<1>2. arch_pc = reg_next_pc /\ arch_pc \in PC /\ ret_reg \in PC
  BY DEF CounterInv
<1>3. current_pc' = reg_next_pc /\ Target' = reg_next_pc
  BY <1>1 DEF current_pc, entering, Target
<1>4. RunningInv'
  BY <1>1 DEF RunningInv, OneDataAccess, Executing
<1>5. CounterInv'
  BY <1>1, <1>2, <1>3 DEF CounterInv, FetchCasesParallel
<1>6. JumpInv'
  BY <1>1 DEF JumpInv, Executing, RunningInv
<1>7. stage2.at = WordOf(reg_pc) /\ stage2.op = running
  BY DEF FetchInv, Left, Accessing
<1>8. FetchInv'
  <2>1. ~Left'
    BY <1>1 DEF Left, Accessing, ControlInv, StateRequests
  <2>2. QED BY <1>1, <1>3, <1>7, <2>1 DEF FetchInv
<1>9. RegisterInv' /\ InterruptInv'
  <2>1. latched_rd \in {WordOf(reg_pc), ZeroReg} /\ latched_rd # RetReg
    BY WordOfType, RegDistinct DEF RegisterInv, TypeOK, MainTypeOK, CpuTypeOK
  <2>2. WordOf(reg_pc') = WordOf(reg_pc)
    BY <1>1
  <2>3. RegisterInv'
    BY <1>1, <2>1, <2>2 DEF RegisterInv
  <2>4. InterruptInv'
    BY <1>1 DEF InterruptInv
  <2>5. QED BY <2>3, <2>4
<1>10. PcpiInv'
  BY <1>1, <1>7 DEF PcpiInv, PcpiOwned
<1>11. QED BY <1>1, <1>4, <1>5, <1>6, <1>8, <1>9, <1>10 DEF MainInv

(* Aligned, the main machine goes where it is sent. *)
LEMMA GoToAligned ==
  ASSUME ~misaligned, NEW state, GoTo(state)
  PROVE  cpu_state' = state
BY DEF GoTo

(* A prefetch that is not done is kept by every way the operand states ask for
   the fetch of the next instruction. *)
LEMMA PrefetchKept ==
  ASSUME FlagTypeOK, NEW ready, Unrequested(ready), NEW rinst,
         MemDo(ready, mem_do_prefetch, rinst, FALSE, FALSE, FALSE)
  PROVE  mem_do_prefetch' = mem_do_prefetch
BY DEF MemDo, Unrequested, FlagTypeOK

(* An instruction that is sent to the exec state finds its operands there. *)
LEMMA ToExecProgram ==
  ASSUME NEW ready, NEW word, Cycled(ready, word), cpu_state \in {"ld_rs1", "ld_rs2"}, LoadShared(ready),
         NEW irq, DispatchShared(irq), running \in {"alu", "jalr", "op", "branch"},
         operands' \in OperandsOf(running),
         NEW two_cycles \in BOOLEAN, NEW four \in BOOLEAN, ToExec(ready, two_cycles, four),
         TWO_CYCLE_ALU => two_cycles, running = "jalr" => ~four,
         running = "branch" /\ TWO_CYCLE_COMPARE => two_cycles /\ (TWO_CYCLE_ALU => four)
  PROVE  MainInv'
<1> USE DEF Cycled, ProgramInv
<1>1. Unrequested(ready) /\ ~misaligned /\ running' = running
  BY LoadSharedProgram
<1>2. cpu_state' = "exec" /\ mem_do_prefetch' = mem_do_prefetch /\ (mem_do_rinst' => mem_do_prefetch)
  BY <1>1, GoToAligned DEF ToExec, MemDo, Unrequested, TypeOK, MainTypeOK, FlagTypeOK
<1>3. OperandsInv'
  <2>1. alu_wait' = two_cycles /\ alu_wait_2' = (two_cycles /\ four)
    BY DEF ToExec
  <2>2. running = "jalr" => operands' \in PC
    BY DEF OperandsOf
  <2>3. QED BY <1>1, <2>1, <2>2 DEF OperandsInv
<1>4. /\ latched_branch' = latched_branch /\ latched_rd' = latched_rd /\ arch_pc' = arch_pc /\ ~pcpi_valid'
      /\ UNCHANGED <<irq_active, returned>>
      /\ irq_pending' \cap MASKED_IRQ = {} /\ (~ENABLE_IRQ => irq_pending' = {})
  BY PendingKept DEF DispatchShared, NoIrqControl, PcpiInv, PcpiOwned
<1>5. ~latched_branch
  BY DEF CounterInv
<1>6. QED BY <1>1, <1>2, <1>3, <1>4, <1>5, DispatchKept

(* What an operand state keeps when it does nothing but go on. *)
LEMMA DispatchProgram ==
  ASSUME NEW ready, NEW word, Cycled(ready, word), cpu_state \in {"ld_rs1", "ld_rs2"}, LoadShared(ready),
         NEW irq, DispatchShared(irq), NEW rinst, MemDo(ready, mem_do_prefetch, rinst, FALSE, FALSE, FALSE),
         NEW state \in {"ld_rs2", "shift", "ldmem", "stmem"}, GoTo(state),
         state = "ld_rs2" => running \in {"store", "shift", "op", "branch"} /\ ~ENABLE_REGS_DUALPORT,
         state = "shift" => running \in {"shift", "shifti"},
         state = "ldmem" => running = "load",
         state = "stmem" => running = "store"
  PROVE  MainInv'
<1> USE DEF Cycled, ProgramInv
<1>1. Unrequested(ready) /\ ~misaligned
  BY LoadSharedProgram
<1>2. cpu_state' = state /\ mem_do_prefetch' = mem_do_prefetch
  BY <1>1, GoToAligned, PrefetchKept DEF TypeOK, MainTypeOK
<1>3. OperandsInv'
  BY <1>2 DEF OperandsInv
<1>4. /\ ~latched_branch' /\ latched_rd' = latched_rd /\ arch_pc' = arch_pc /\ ~pcpi_valid'
      /\ UNCHANGED <<irq_active, returned>>
      /\ irq_pending' \cap MASKED_IRQ = {} /\ (~ENABLE_IRQ => irq_pending' = {})
  BY PendingKept DEF DispatchShared, NoIrqControl, CounterInv, PcpiInv, PcpiOwned
<1>5. QED BY <1>2, <1>3, <1>4, DispatchKept

(* A co-processor is offered the instruction, answers it, or is given up. *)
LEMMA PcpiStepProgram ==
  ASSUME NEW ready, NEW word, Cycled(ready, word), LoadShared(ready), instr_trap,
         cpu_state = IF ENABLE_REGS_DUALPORT THEN "ld_rs1" ELSE "ld_rs2",
         WITH_PCPI, NEW irq, NEW pcpi_ready, PcpiStep(ready, irq, pcpi_ready, cpu_state),
         UNCHANGED <<latched_branch, latched_rd, arch_pc>>, NoIrqControl
  PROVE  MainInv'
<1> USE DEF Cycled, ProgramInv
<1>1. /\ Unrequested(ready) /\ ~misaligned /\ stage2 = stage1 /\ stage1.op = running
      /\ cpu_state \in {"ld_rs1", "ld_rs2"}
  BY LoadSharedProgram
<1>2. running \in {"pcpi", "ecall"}
  <2>1. stage2.at = WordOf(reg_pc) /\ WordOf(reg_pc) \in Addr
    BY <1>1, WordOfType DEF FetchInv, Left, Accessing, TypeOK, MainTypeOK, CpuTypeOK
  <2>2. WordOf(reg_pc) # DataAddr
    BY SizeAssumption DEF TypeOK, MainTypeOK, CpuTypeOK, Value, PC, Undef, WordOf, DataAddr
  <2>3. QED BY <1>1, <2>1, <2>2 DEF StagesInv, instr_trap
<1>3. /\ ~latched_branch' /\ latched_rd' = latched_rd /\ arch_pc' = arch_pc
      /\ UNCHANGED <<irq_active, returned>>
      /\ irq_pending' \cap MASKED_IRQ = {} /\ (~ENABLE_IRQ => irq_pending' = {})
  BY <1>1, PendingKept DEF PcpiStep, PcpiAnswer, PcpiGiveUp, PcpiIssue, TrapOrRaise, NoIrqControl, CounterInv
<1>4. mem_do_prefetch' = mem_do_prefetch
  BY <1>1, PrefetchKept DEF PcpiStep, PcpiAnswer, PcpiGiveUp, PcpiIssue, KeepMemDo, TypeOK, MainTypeOK
<1>5. \/ cpu_state' \in {"fetch", "trap"} /\ ~pcpi_valid'
      \/ cpu_state' = cpu_state /\ running = "pcpi"
  BY <1>1, <1>2, GoToAligned DEF PcpiStep, PcpiAnswer, PcpiGiveUp, PcpiIssue, TrapOrRaise
<1>6. OperandsInv'
  BY <1>1, <1>5 DEF OperandsInv
<1>7. QED BY <1>1, <1>2, <1>3, <1>4, <1>5, <1>6, DispatchKept

(* An instruction with both operands read. *)
LEMMA BothOperandsProgram ==
  ASSUME NEW ready, NEW word, Cycled(ready, word), cpu_state \in {"ld_rs1", "ld_rs2"}, LoadShared(ready),
         NEW irq, DispatchShared(irq), BothOperands(ready)
  PROVE  MainInv'
<1>1. stage1.op = running /\ stage2 = stage1
  BY LoadSharedProgram
<1>2. CASE /\ stage1.op = "store" /\ GoTo("stmem")
           /\ MemDo(ready, mem_do_prefetch, TRUE, FALSE, FALSE, FALSE)
  BY <1>1, <1>2, DispatchProgram
<1>3. CASE stage2.op = "shift" /\ GoTo("shift") /\ KeepMemDo(ready)
  BY <1>1, <1>3, DispatchProgram DEF KeepMemDo
<1>4. CASE /\ stage1.op \in {"op", "branch"} /\ operands' \in OperandsOf(stage1.op)
           /\ LET slow_compare == TWO_CYCLE_COMPARE /\ stage1.op = "branch"
              IN ToExec(ready, TWO_CYCLE_ALU \/ slow_compare, TWO_CYCLE_ALU /\ slow_compare)
  <2> DEFINE slow_compare == TWO_CYCLE_COMPARE /\ stage1.op = "branch"
             two_cycles == TWO_CYCLE_ALU \/ slow_compare
             four == TWO_CYCLE_ALU /\ slow_compare
  <2>1. ToExec(ready, two_cycles, four) /\ two_cycles \in BOOLEAN /\ four \in BOOLEAN
    BY <1>4
  <2>2. /\ TWO_CYCLE_ALU => two_cycles
        /\ running = "branch" /\ TWO_CYCLE_COMPARE => two_cycles /\ (TWO_CYCLE_ALU => four)
    BY <1>1
  <2> HIDE DEF two_cycles, four
  <2>3. QED BY <1>1, <1>4, <2>1, <2>2, ToExecProgram
<1>5. QED BY <1>2, <1>3, <1>4 DEF BothOperands

(* An instruction that only delivers a value. *)
LEMMA LdRs1ValueProgram ==
  ASSUME NEW ready, NEW word, Cycled(ready, word), cpu_state = "ld_rs1", LoadShared(ready),
         NEW irq, LdRs1Value(ready, irq)
  PROVE  MainInv'
<1> USE DEF Cycled, ProgramInv
<1>1. Unrequested(ready) /\ ~misaligned /\ stage1.op = running /\ stage2 = stage1
  BY LoadSharedProgram
<1>2. cpu_state' = "fetch" /\ mem_do_prefetch' = mem_do_prefetch
  BY <1>1, GoToAligned, PrefetchKept DEF LdRs1Value, KeepMemDo, TypeOK, MainTypeOK
<1>3. /\ latched_rd' = latched_rd \/ (latched_rd' \in {RetReg, OtherReg} /\ reg_out' \in PC)
      /\ ~latched_branch' /\ arch_pc' = arch_pc
      /\ UNCHANGED <<irq_active, returned>> /\ ~pcpi_valid'
      /\ irq_pending' \cap MASKED_IRQ = {} /\ (~ENABLE_IRQ => irq_pending' = {})
  BY <1>1, PendingKept DEF LdRs1Value, CounterInv, PcpiInv, PcpiOwned
<1>4. running \notin {"load", "store"}
  BY <1>1 DEF LdRs1Value
<1>5. OperandsInv'
  BY <1>2 DEF OperandsInv
<1>6. QED BY <1>2, <1>3, <1>4, <1>5, DispatchKept

(* The return from an interrupt goes on at the address the handler leaves in q0. *)
LEMMA LdRs1RetIrqProgram ==
  ASSUME NEW ready, NEW word, Cycled(ready, word), cpu_state = "ld_rs1", LoadShared(ready),
         NEW irq, LdRs1RetIrq(ready, irq)
  PROVE  MainInv'
<1> USE DEF Cycled, ProgramInv
<1>1. /\ Unrequested(ready) /\ ~misaligned
      /\ StagesInv' /\ ~decoder_trigger' /\ stage1.op = running /\ accesses' = <<>>
      /\ UNCHANGED <<reg_pc, reg_next_pc, irq_delay, ret_reg, arch_ret, running>>
      /\ irq_state = 0 /\ irq_state' = 0 /\ ~do_waitirq' /\ ~latched_stalu'
  BY LoadSharedProgram
<1>2. running = "retirq" /\ ~mem_do_prefetch /\ ~mem_do_rinst
  BY <1>1 DEF LdRs1RetIrq, JumpInv
<1>3. /\ cpu_state' = "fetch" /\ ~mem_do_prefetch'
      /\ latched_store' /\ latched_branch' /\ reg_out' = ret_reg /\ arch_pc' = ret_reg
      /\ returned' = irq_active /\ irq_active' = FALSE /\ latched_rd' = latched_rd /\ ~pcpi_valid'
      /\ irq_pending' \cap MASKED_IRQ = {} /\ (~ENABLE_IRQ => irq_pending' = {})
  BY <1>1, <1>2, GoToAligned, PendingKept
     DEF LdRs1RetIrq, KeepMemDo, MemDo, PcpiInv, PcpiOwned
<1>4. current_pc' = ret_reg
  BY <1>1, <1>3 DEF current_pc, result
<1>5. RunningInv' /\ OperandsInv' /\ PcpiInv'
  BY <1>1, <1>2, <1>3 DEF RunningInv, OneDataAccess, OperandsInv, PcpiInv, PcpiOwned, Executing
<1>6. CounterInv'
  BY <1>1, <1>3, <1>4 DEF CounterInv, FetchCasesParallel
<1>7. JumpInv'
  BY <1>1, <1>3 DEF JumpInv, Executing
<1>8. FetchInv'
  <2>1. /\ mem_state' = 1 /\ mem_instr' => mem_addr' = WordOf(Target')
        /\ mem_state' = 3 => mem_rdata_q'.at = WordOf(Target')
    BY <1>2, LoadSharedProgram
  <2>2. QED BY <1>1, <1>3, <2>1 DEF FetchInv, Left, Accessing
<1>9. RegisterInv' /\ InterruptInv'
  <2>1. latched_rd' \in {WordOf(reg_pc'), ZeroReg} /\ latched_rd' # RetReg
    BY <1>1, <1>3, WordOfType, RegDistinct DEF RegisterInv, TypeOK, MainTypeOK, CpuTypeOK
  <2>2. QED BY <1>1, <1>3, <2>1 DEF RegisterInv, InterruptInv
<1>10. QED BY <1>1, <1>5, <1>6, <1>7, <1>8, <1>9 DEF MainInv

(* The first operand state. *)
LEMMA StLdRs1Program ==
  ASSUME NEW ready, NEW word, Cycled(ready, word), NEW irq, NEW pcpi_ready, StLdRs1(ready, irq, pcpi_ready)
  PROVE  MainInv'
<1> USE DEF Cycled, ProgramInv
<1>1. cpu_state = "ld_rs1" /\ LoadShared(ready)
  BY DEF StLdRs1
<1>2. /\ Unrequested(ready) /\ ~misaligned /\ stage1.op = running /\ stage2 = stage1
      /\ pcpi_valid => ENABLE_REGS_DUALPORT /\ WITH_PCPI
  BY <1>1, LoadSharedProgram DEF PcpiInv, PcpiOwned
<1>3. CASE LdRs1Trap(ready, irq, pcpi_ready)
  <2>1. CASE WITH_PCPI /\ ENABLE_REGS_DUALPORT
    BY <1>1, <1>3, <2>1, PcpiStepProgram DEF LdRs1Trap
  <2>2. CASE ~(WITH_PCPI /\ ENABLE_REGS_DUALPORT)
    <3>1. /\ mem_do_prefetch' = mem_do_prefetch
          /\ \/ cpu_state' = "ld_rs2" /\ WITH_PCPI /\ ~ENABLE_REGS_DUALPORT
             \/ cpu_state' \in {"fetch", "trap"}
      BY <1>2, <1>3, <2>2, GoToAligned, PrefetchKept
         DEF LdRs1Trap, TrapOrRaise, KeepMemDo, TypeOK, MainTypeOK
    <3>2. /\ ~latched_branch' /\ latched_rd' = latched_rd /\ arch_pc' = arch_pc /\ ~pcpi_valid'
          /\ UNCHANGED <<irq_active, returned>>
          /\ irq_pending' \cap MASKED_IRQ = {} /\ (~ENABLE_IRQ => irq_pending' = {})
      BY <1>1, <1>2, <1>3, <2>2, PendingKept DEF LdRs1Trap, TrapOrRaise, NoIrqControl, CounterInv
    <3>3. OperandsInv'
      BY <3>1 DEF OperandsInv
    <3>4. running \in {"pcpi", "ecall", "none"}
      BY <1>2, <1>3 DEF LdRs1Trap, instr_trap
    <3>5. QED BY <1>1, <3>1, <3>2, <3>3, <3>4, DispatchKept
  <2>3. QED BY <2>1, <2>2
<1>4. CASE LdRs1Load(ready, irq)
  BY <1>1, <1>2, <1>4, DispatchProgram DEF LdRs1Load
<1>5. CASE LdRs1ShiftImm(ready, irq)
  BY <1>1, <1>2, <1>5, DispatchProgram DEF LdRs1ShiftImm, KeepMemDo
<1>6. CASE LdRs1Alu(ready, irq)
  BY <1>1, <1>2, <1>6, ToExecProgram, ParameterAssumption DEF LdRs1Alu
<1>7. CASE LdRs1Default(ready, irq)
  <2>1. CASE BothOperands(ready)
    BY <1>1, <1>7, <2>1, BothOperandsProgram DEF LdRs1Default
  <2>2. CASE GoTo("ld_rs2") /\ KeepMemDo(ready) /\ ~ENABLE_REGS_DUALPORT
    BY <1>1, <1>2, <1>7, <2>2, DispatchProgram DEF LdRs1Default, KeepMemDo
  <2>3. QED BY <1>7, <2>1, <2>2 DEF LdRs1Default
<1>8. QED BY <1>1, <1>3, <1>4, <1>5, <1>6, <1>7, LdRs1ValueProgram, LdRs1RetIrqProgram DEF StLdRs1

(* The second operand state. *)
LEMMA StLdRs2Program ==
  ASSUME NEW ready, NEW word, Cycled(ready, word), NEW irq, NEW pcpi_ready, StLdRs2(ready, irq, pcpi_ready)
  PROVE  MainInv'
<1> USE DEF Cycled, ProgramInv
<1>1. cpu_state = "ld_rs2" /\ LoadShared(ready)
  BY DEF StLdRs2
<1>2. CASE instr_trap
  <2>1. stage1.op = running /\ stage2 = stage1
    BY <1>1, LoadSharedProgram
  <2>2. WITH_PCPI /\ ~ENABLE_REGS_DUALPORT
    BY <1>1, <1>2, <2>1 DEF instr_trap, PcpiInv, RunningInv
  <2>3. QED BY <1>1, <1>2, <2>2, PcpiStepProgram DEF StLdRs2
<1>3. CASE ~instr_trap
  BY <1>1, <1>3, BothOperandsProgram DEF StLdRs2
<1>4. QED BY <1>2, <1>3

-----------------------------------------------------------------------------
(* A fetch that is done leaves the memory interface idle. *)
LEMMA DoneIdle ==
  ASSUME TypeOK, ControlInv, ~trap, NEW ready \in BOOLEAN, MemStep(ready), mem_done(ready), mem_do_rinst
  PROVE  mem_state' = 0
BY DEF TypeOK, BusTypeOK, MainTypeOK, FlagTypeOK, ControlInv, TransferHasOwner, RequestsExclusive, mem_reads,
   MemStep, MemFrozen, MemRequest, MemTransfer, MemTakePrefetch, MemHold, memVars, mem_done, mem_xfer

(* What a cycle of the exec and shift states keeps: a fetch goes on when its
   target stays, and is done or not begun when the target changes. *)
LEMMA ExecutingKept ==
  ASSUME NEW ready, NEW word, Cycled(ready, word), cpu_state \in {"exec", "shift"},
         cpu_state' \in {cpu_state, "fetch", "trap"}, NotFetching, NoIrqControl,
         NEW irq, IrqPending({}, {}, irq), CountAccess(ready, FALSE), UNCHANGED pcpi_valid,
         latched_rd' \in {latched_rd, ZeroReg}, ~decoder_pseudo_trigger',
         decoder_trigger' => mem_do_rinst /\ mem_done(ready),
         cpu_state' = "fetch" \/ ~(mem_do_rinst /\ mem_done(ready)) \/ cpu_state' = "trap",
         \/ Target' = Target
         \/ ~decoder_trigger' /\ ((~mem_do_prefetch /\ ~mem_do_rinst) \/ mem_state' = 0)
  PROVE  /\ StagesInv' /\ RunningInv' /\ RegisterInv' /\ InterruptInv' /\ PcpiInv' /\ FetchInv'
         /\ UNCHANGED <<reg_pc, reg_next_pc, ret_reg, running>> /\ irq_state' = 0
<1> USE DEF Cycled, ProgramInv
<1>1. /\ UNCHANGED <<reg_pc, reg_next_pc, irq_delay, irq_active, ret_reg, arch_ret, running, returned>>
      /\ irq_state = 0 /\ irq_state' = 0 /\ ~do_waitirq' /\ ~pcpi_valid'
  BY DEF NotFetching, NoIrqControl, ControlInv, StateRequests, PcpiInv, PcpiOwned
<1>2. accesses' = <<>>
  <2>1. mem_xfer(ready) => mem_instr
    BY TransferKind DEF Left, Accessing
  <2>2. QED BY <2>1 DEF CountAccess, RunningInv, Executing
<1>3. ~decoder_trigger /\ stage1.op = running /\ stage2' = stage1 /\ stage2 = stage1
  BY DEF RunningInv, Executing, StagesInv, Decode
<1>4. stage1' = IF mem_do_rinst /\ mem_done(ready) THEN mem_rdata_q' ELSE stage1
  BY DEF Decode
<1>5. StagesInv'
  BY <1>3, <1>4 DEF StagesInv, Decode, Answer
<1>6. RunningInv'
  BY <1>1, <1>2, <1>3, <1>4 DEF RunningInv, OneDataAccess, Executing
<1>7. RegisterInv'
  <2>1. latched_rd' \in {WordOf(reg_pc), ZeroReg} /\ latched_rd' # RetReg
    BY WordOfType, RegDistinct DEF RegisterInv, TypeOK, MainTypeOK, CpuTypeOK
  <2>2. QED BY <1>1, <2>1 DEF RegisterInv
<1>8. InterruptInv' /\ PcpiInv'
  BY <1>1, PendingKept DEF InterruptInv, PcpiInv, PcpiOwned
<1>9. FetchInv'
  <2>1. Target = reg_next_pc
    BY DEF Target
  <2>2. (mem_do_prefetch \/ mem_do_rinst) /\ mem_state = 0 => next_pc = Target
    BY <2>1 DEF next_pc, CounterInv, JumpInv
  <2>3. ASSUME Target' = Target \/ (~mem_do_prefetch /\ ~mem_do_rinst)
        PROVE  /\ mem_state' = 1 /\ mem_instr' => mem_addr' = WordOf(Target')
               /\ mem_state' = 3 => mem_rdata_q'.at = WordOf(Target')
               /\ mem_do_rinst /\ mem_done(ready) => stage1'.at = WordOf(Target)
    BY <2>2, <2>3, FetchKept
  <2>4. ~Left' /\ ~Left
    BY DEF Left, Accessing
  <2>5. stage2.at = WordOf(reg_pc) /\ stage2.op = running
    BY <2>4 DEF FetchInv
  <2>6. QED BY <1>1, <1>3, <2>3, <2>4, <2>5 DEF FetchInv
<1>10. QED BY <1>1, <1>5, <1>6, <1>7, <1>8, <1>9

(* The exec state: the wait for the ALU. *)
LEMMA ExecWaitProgram ==
  ASSUME NEW ready, NEW word, Cycled(ready, word), NEW irq, ExecWait(ready, irq)
  PROVE  MainInv'
<1> USE DEF Cycled, ProgramInv
<1>1. /\ cpu_state = "exec" /\ cpu_state' \in {"exec", "trap"} /\ NotFetching /\ NoIrqControl
      /\ IrqPending({}, {}, irq) /\ CountAccess(ready, FALSE) /\ Trigger(ready)
      /\ UNCHANGED <<pcpi_valid, latchVars, operands, arch_pc>>
  BY GoToState DEF ExecWait, ExecShared
<1>2. ~mem_do_rinst /\ ~mem_done(ready)
  BY <1>1, NotDone DEF ExecWait, ControlInv, StateRequests
<1>3. mem_do_prefetch' = mem_do_prefetch /\ (mem_do_rinst' => mem_do_prefetch)
  BY <1>2 DEF ExecWait, MemDo, TypeOK, MainTypeOK, FlagTypeOK
<1>4. Target' = Target
  BY <1>1 DEF Target, NotFetching
<1>5. /\ StagesInv' /\ RunningInv' /\ RegisterInv' /\ InterruptInv' /\ PcpiInv' /\ FetchInv'
      /\ UNCHANGED <<reg_pc, reg_next_pc, ret_reg, running>> /\ irq_state' = 0
  BY <1>1, <1>2, <1>4, ExecutingKept DEF Trigger, latchVars
<1>6. OperandsInv'
  BY <1>1, <1>5 DEF OperandsInv, ExecWait, alu_out
<1>7. CounterInv'
  BY <1>1, <1>5 DEF CounterInv, FetchCasesParallel, latchVars
<1>8. JumpInv'
  <2>1. mem_do_prefetch => mem_state' # 0
    BY <1>2, PrefetchUnderWay DEF ControlInv, StateRequests
  <2>2. QED BY <1>1, <1>3, <1>5, <2>1 DEF JumpInv, Executing
<1>9. QED BY <1>5, <1>6, <1>7, <1>8 DEF MainInv

(* A branch that is decided when its successor is fetched. *)
LEMMA ExecBranchProgram ==
  ASSUME NEW ready, NEW word, Cycled(ready, word), NEW irq, ExecBranch(ready, irq)
  PROVE  MainInv'
<1> USE DEF Cycled, ProgramInv
<1>1. /\ cpu_state = "exec" /\ cpu_state' \in {IF mem_done(ready) THEN "fetch" ELSE "exec", "trap"}
      /\ NotFetching /\ NoIrqControl
      /\ IrqPending({}, {}, irq) /\ CountAccess(ready, FALSE) /\ ~decoder_pseudo_trigger'
      /\ UNCHANGED <<pcpi_valid, latched_stalu>> /\ latched_rd' = ZeroReg
      /\ ~alu_wait /\ ~alu_wait_2 /\ ~alu_wait' /\ ~alu_wait_2' /\ ~trap
      /\ decoder_trigger' => mem_do_rinst /\ mem_done(ready) /\ ~compare_true
  BY GoToState DEF ExecBranch, ExecShared, NoWait, ControlInv, StateRequests
<1>2. running = "branch" /\ mem_do_prefetch /\ mem_state # 0 /\ ~latched_stalu
  BY <1>1 DEF ExecBranch, RunningInv, JumpInv, CounterInv, Executing
<1>3. compare_true <=> operands = 1
  BY <1>1, <1>2 DEF compare_true, alu_out, OperandsInv
<1>4. mem_done(ready) => mem_do_rinst /\ mem_state' = 0
  BY <1>1, DoneIdle DEF mem_done, ControlInv, StateRequests
<1>5. irq_state' = 0 /\ reg_next_pc' = reg_next_pc /\ arch_pc = reg_next_pc /\ arch_pc \in PC
  BY <1>1 DEF NotFetching, ControlInv, StateRequests, CounterInv
<1>6. cpu_state' = "fetch" => current_pc' = arch_pc'
  <2>1. SUFFICES ASSUME cpu_state' = "fetch"
                 PROVE  current_pc' = arch_pc'
    OBVIOUS
  <2>2. mem_done(ready)
    BY <1>1, <2>1
  <2>3. CASE compare_true
    BY <1>1, <1>2, <1>3, <2>2, <2>3 DEF ExecBranch, ExecShared, current_pc, result
  <2>4. CASE ~compare_true
    BY <1>3, <1>5, <2>2, <2>4 DEF ExecBranch, current_pc, entering
  <2>5. QED BY <2>3, <2>4
<1>7. Target' = Target \/ (~decoder_trigger' /\ mem_state' = 0)
  <2>1. CASE cpu_state' = "fetch"
    <3>1. CASE compare_true
      BY <1>1, <1>4, <2>1, <3>1
    <3>2. CASE ~compare_true
      BY <1>1, <1>3, <1>5, <1>6, <2>1, <3>2 DEF Target, ExecBranch
    <3>3. QED BY <3>1, <3>2
  <2>2. CASE cpu_state' # "fetch"
    BY <1>1, <1>5, <2>2 DEF Target
  <2>3. QED BY <2>1, <2>2
<1>8. /\ StagesInv' /\ RunningInv' /\ RegisterInv' /\ InterruptInv' /\ PcpiInv' /\ FetchInv'
      /\ UNCHANGED <<reg_pc, reg_next_pc, ret_reg, running>> /\ irq_state' = 0
  BY <1>1, <1>7, ExecutingKept
<1>9. OperandsInv'
  <2>1. cpu_state' = "exec" => operands' = operands
    BY <1>1 DEF ExecBranch
  <2>2. QED BY <1>1, <1>2, <1>8, <2>1 DEF OperandsInv, alu_out
<1>10. CounterInv'
  <2>1. arch_pc' \in PC
    <3>1. Plus(reg_pc, stage2.imm) \in PC
      BY SizeAssumption DEF TypeOK, MainTypeOK, CpuTypeOK, BusTypeOK, Word, Plus, Value, PC, Undef
    <3>2. QED BY <1>5, <3>1 DEF ExecBranch
  <2>2. cpu_state' = "exec" => arch_pc' = arch_pc
    BY <1>1 DEF ExecBranch
  <2>3. QED BY <1>1, <1>2, <1>5, <1>6, <1>8, <2>1, <2>2 DEF CounterInv, FetchCasesParallel
<1>11. JumpInv'
  <2>1. cpu_state' = "exec" => mem_do_prefetch' /\ mem_state' # 0
    <3>1. SUFFICES ASSUME cpu_state' = "exec"
                   PROVE  mem_do_prefetch' /\ mem_state' # 0
      OBVIOUS
    <3>2. ~mem_done(ready)
      BY <1>1, <3>1
    <3>3. QED BY <1>1, <1>2, <3>2, PrefetchUnderWay DEF ExecBranch, MemDo
  <2>2. QED BY <1>1, <1>2, <1>8, <2>1 DEF JumpInv, Executing
<1>12. QED BY <1>8, <1>9, <1>10, <1>11 DEF MainInv

(* The other instructions leave the exec state at once; a jalr has no fetch
   under way. *)
LEMMA ExecAluProgram ==
  ASSUME NEW ready, NEW word, Cycled(ready, word), NEW irq, ExecAlu(ready, irq)
  PROVE  MainInv'
<1> USE DEF Cycled, ProgramInv
<1>1. /\ cpu_state = "exec" /\ cpu_state' \in {"fetch", "trap"} /\ NotFetching /\ NoIrqControl
      /\ IrqPending({}, {}, irq) /\ CountAccess(ready, FALSE) /\ Trigger(ready)
      /\ UNCHANGED <<pcpi_valid, latched_rd>> /\ ~alu_wait /\ ~alu_wait_2
      /\ latched_store' /\ latched_stalu' /\ (latched_branch' <=> stage1.op = "jalr")
  BY GoToState DEF ExecAlu, ExecShared
<1>2. stage1.op = running /\ running # "branch" /\ (running = "jalr" => ~mem_do_prefetch /\ ~mem_do_rinst)
  BY <1>1 DEF ExecAlu, RunningInv, JumpInv, Executing
<1>3. irq_state' = 0 /\ reg_next_pc' = reg_next_pc /\ arch_pc = reg_next_pc /\ arch_pc \in PC
  BY <1>1 DEF NotFetching, ControlInv, StateRequests, CounterInv
<1>4. arch_pc' \in PC /\ (cpu_state' = "fetch" => current_pc' = arch_pc')
  <2>1. CASE running = "jalr"
    <3>1. arch_pc' = operands /\ operands \in PC
      BY <1>1, <1>2, <2>1 DEF ExecAlu, OperandsInv
    <3>2. alu_out_q' = operands
      BY <1>1, <2>1 DEF alu_out, OperandsInv
    <3>3. QED BY <1>1, <1>2, <2>1, <3>1, <3>2 DEF current_pc, result
  <2>2. CASE running # "jalr"
    BY <1>1, <1>2, <1>3, <2>2 DEF ExecAlu, current_pc, entering
  <2>3. QED BY <2>1, <2>2
<1>5. Target' = Target \/ (~decoder_trigger' /\ ~mem_do_prefetch /\ ~mem_do_rinst)
  <2>1. CASE running = "jalr"
    BY <1>1, <1>2, <2>1 DEF Trigger
  <2>2. CASE running # "jalr"
    BY <1>1, <1>2, <1>3, <2>2 DEF Target, current_pc, entering
  <2>3. QED BY <2>1, <2>2
<1>6. /\ StagesInv' /\ RunningInv' /\ RegisterInv' /\ InterruptInv' /\ PcpiInv' /\ FetchInv'
      /\ UNCHANGED <<reg_pc, reg_next_pc, ret_reg, running>> /\ irq_state' = 0
  BY <1>1, <1>5, ExecutingKept DEF Trigger
<1>7. OperandsInv'
  BY <1>1 DEF OperandsInv
<1>8. CounterInv'
  BY <1>1, <1>4, <1>6 DEF CounterInv, FetchCasesParallel
<1>9. JumpInv'
  BY <1>1, <1>2 DEF JumpInv, Executing, ExecAlu, KeepMemDo, MemDo
<1>10. QED BY <1>6, <1>7, <1>8, <1>9 DEF MainInv

(* The shift state. *)
LEMMA StShiftProgram ==
  ASSUME NEW ready, NEW word, Cycled(ready, word), NEW irq, StShift(ready, irq)
  PROVE  MainInv'
<1> USE DEF Cycled, ProgramInv
<1>1. /\ cpu_state = "shift" /\ cpu_state' \in {"shift", "fetch", "trap"} /\ NotFetching /\ NoIrqControl
      /\ IrqPending({}, {}, irq) /\ CountAccess(ready, FALSE) /\ Trigger(ready)
      /\ UNCHANGED <<pcpi_valid, latched_stalu, latched_branch, latched_rd, arch_pc>>
  BY GoToState DEF StShift
<1>2. ~mem_do_rinst /\ ~mem_done(ready)
  BY <1>1, NotDone DEF ControlInv, StateRequests
<1>3. /\ running \in {"shift", "shifti"} /\ ~latched_branch /\ ~latched_stalu
      /\ irq_state' = 0 /\ reg_next_pc' = reg_next_pc /\ arch_pc = reg_next_pc /\ arch_pc \in PC
  BY <1>1 DEF NotFetching, ControlInv, StateRequests, CounterInv, RunningInv
<1>4. current_pc' = reg_next_pc /\ Target' = Target
  BY <1>1, <1>3 DEF Target, current_pc, entering
<1>5. /\ StagesInv' /\ RunningInv' /\ RegisterInv' /\ InterruptInv' /\ PcpiInv' /\ FetchInv'
      /\ UNCHANGED <<reg_pc, reg_next_pc, ret_reg, running>> /\ irq_state' = 0
  BY <1>1, <1>2, <1>4, ExecutingKept DEF Trigger
<1>6. OperandsInv' /\ JumpInv'
  BY <1>1, <1>3, <1>5 DEF OperandsInv, JumpInv, Executing
<1>7. CounterInv'
  BY <1>1, <1>3, <1>4, <1>5 DEF CounterInv, FetchCasesParallel
<1>8. QED BY <1>5, <1>6, <1>7 DEF MainInv

-----------------------------------------------------------------------------
(* A load or store waits for the fetch of its successor, then accesses memory
   once and leaves. *)
LEMMA DataAccessProgram ==
  ASSUME NEW ready, NEW word, Cycled(ready, word), NEW irq, NEW requested, NEW is_store,
         cpu_state \in Accessing, is_store <=> cpu_state = "stmem",
         DataAccess(ready, irq, requested, is_store)
  PROVE  MainInv'
<1> USE DEF Cycled, ProgramInv
<1> DEFINE done == ~mem_do_prefetch /\ mem_done(ready)
<1>1. /\ cpu_state' \in {IF done THEN "fetch" ELSE cpu_state, "trap"}
      /\ NotFetching /\ NoIrqControl /\ IrqPending({}, {}, irq) /\ CountAccess(ready, FALSE)
      /\ UNCHANGED <<latched_stalu, latched_branch, latched_rd, pcpi_valid, arch_pc>>
      /\ decoder_pseudo_trigger' = done
      /\ decoder_trigger' = ((mem_do_rinst /\ mem_done(ready)) \/ done)
      /\ mem_do_prefetch' = (mem_do_prefetch /\ ~mem_done(ready))
  BY GoToState DEF DataAccess, MemDo
<1>2. /\ UNCHANGED <<reg_pc, reg_next_pc, irq_delay, irq_active, ret_reg, arch_ret, running, returned>>
      /\ irq_state = 0 /\ irq_state' = 0 /\ ~do_waitirq' /\ ~pcpi_valid'
  BY <1>1 DEF NotFetching, NoIrqControl, ControlInv, StateRequests, PcpiInv, PcpiOwned, Accessing
<1>3. /\ arch_pc = reg_next_pc /\ arch_pc \in PC /\ ~latched_branch /\ ~latched_stalu
      /\ mem_do_rinst = mem_do_prefetch /\ accesses = <<>>
      /\ running = IF is_store THEN "store" ELSE "load"
  BY DEF CounterInv, ControlInv, StateRequests, RunningInv, Accessing, TypeOK, MainTypeOK, FlagTypeOK
<1>4. current_pc' = reg_next_pc /\ Target' = reg_next_pc /\ Target = reg_next_pc /\ next_pc = reg_next_pc
  BY <1>1, <1>2, <1>3 DEF Target, current_pc, entering, next_pc, Accessing
<1>5. StagesInv'
  <2>1. stage2' = IF mem_do_prefetch THEN stage2 ELSE stage1
    BY DEF StagesInv, FetchInv, Left, Decode, Accessing
  <2>2. stage1' = IF mem_do_prefetch /\ mem_done(ready) THEN mem_rdata_q' ELSE stage1
    BY <1>3 DEF Decode
  <2>3. mem_do_prefetch => stage2 = stage1
    BY DEF StagesInv, FetchInv, Left, Accessing
  <2>4. QED BY <1>1, <1>3, <2>1, <2>2, <2>3 DEF StagesInv, Decode, Answer
<1>6. RunningInv'
  <2>1. mem_xfer(ready) /\ ~mem_instr => done /\ mem_wstrb = is_store
    BY TransferKind DEF Left, Accessing
  <2>2. done => mem_xfer(ready) /\ ~mem_instr
    BY <1>3, TransferKind DEF mem_done
  <2>3. accesses' = IF done THEN <<running>> ELSE <<>>
    <3>1. CASE done
      BY <1>1, <1>3, <2>1, <2>2, <3>1 DEF CountAccess
    <3>2. CASE ~done
      BY <1>1, <1>3, <2>1, <3>2 DEF CountAccess
    <3>3. QED BY <3>1, <3>2
  <2>4. QED BY <1>1, <1>2, <1>3, <2>3 DEF RunningInv, OneDataAccess, Executing, Accessing
<1>7. OperandsInv' /\ JumpInv'
  BY <1>1, <1>3 DEF OperandsInv, JumpInv, Executing, Accessing
<1>8. CounterInv'
  BY <1>1, <1>2, <1>3, <1>4 DEF CounterInv, FetchCasesParallel
<1>9. RegisterInv' /\ InterruptInv' /\ PcpiInv'
  <2>1. latched_rd' \in {WordOf(reg_pc), ZeroReg} /\ latched_rd' # RetReg
    BY <1>1, WordOfType, RegDistinct DEF RegisterInv, TypeOK, MainTypeOK, CpuTypeOK, Accessing
  <2>2. QED BY <1>1, <1>2, <2>1, PendingKept DEF RegisterInv, InterruptInv, PcpiInv, PcpiOwned, Accessing
<1>10. FetchInv'
  <2>1. /\ mem_state' = 1 /\ mem_instr' => mem_addr' = WordOf(Target')
        /\ mem_state' = 3 => mem_rdata_q'.at = WordOf(Target')
        /\ mem_do_rinst /\ mem_done(ready) => stage1'.at = WordOf(Target)
    BY <1>4, FetchKept
  <2>2. CASE mem_do_prefetch
    <3>1. ~decoder_trigger /\ stage2' = stage2 /\ stage2.at = WordOf(reg_pc) /\ stage2.op = running
      BY <2>2 DEF FetchInv, Left, Decode, Accessing
    <3>2. QED BY <1>1, <1>2, <1>3, <1>4, <2>1, <2>2, <3>1 DEF FetchInv, Left, Accessing
  <2>3. CASE ~mem_do_prefetch
    <3>1. stage1' = stage1 /\ stage1.at = WordOf(Target)
      BY <1>3, <2>3 DEF FetchInv, Left, Decode
    <3>2. QED BY <1>1, <1>2, <1>4, <2>1, <2>3, <3>1 DEF FetchInv, Left, Accessing
  <2>4. QED BY <2>2, <2>3
<1>11. QED BY <1>5, <1>6, <1>7, <1>8, <1>9, <1>10 DEF MainInv

-----------------------------------------------------------------------------
(* A trapped core keeps the little that is left of the invariant. *)
LEMMA StTrapProgram ==
  ASSUME TypeOK, ControlInv, ProgramInv, NEW ready, NEW word, Decode(ready, word), Answer(ready, word),
         NEW irq, StTrap(ready, irq)
  PROVE  MainInv'
<1> USE DEF ProgramInv
<1>1. /\ cpu_state = "trap" /\ cpu_state' = "trap" /\ NotFetching /\ NoIrqControl
      /\ UNCHANGED <<pcpi_valid, arch_pc, latchVars>>
      /\ irq_pending' \cap MASKED_IRQ = {} /\ (~ENABLE_IRQ => irq_pending' = {})
  BY GoToState, PendingKept DEF StTrap
<1>2. irq_state = 0 /\ irq_state' = 0 /\ UNCHANGED <<ret_reg, arch_ret, returned, irq_delay>> /\ ~pcpi_valid'
  BY <1>1 DEF NotFetching, NoIrqControl, ControlInv, StateRequests, PcpiInv, PcpiOwned
<1>3. StagesInv' /\ FetchInv'
  BY <1>1 DEF StagesInv, FetchInv, Decode, Answer, Left, Accessing
<1>4. RunningInv' /\ OperandsInv' /\ JumpInv'
  BY <1>1 DEF RunningInv, OneDataAccess, OperandsInv, JumpInv, Executing
<1>5. CounterInv'
  BY <1>1, <1>2 DEF CounterInv, FetchCasesParallel
<1>6. RegisterInv' /\ InterruptInv' /\ PcpiInv'
  BY <1>1, <1>2 DEF RegisterInv, InterruptInv, PcpiInv, PcpiOwned
<1>7. QED BY <1>3, <1>4, <1>5, <1>6 DEF MainInv

(* A clock edge preserves the invariant. *)
LEMMA ClockProgram ==
  ASSUME TypeOK, ControlInv, ProgramInv, TypeOK', ControlInv', Clock
  PROVE  ProgramInv'
<1>1. PICK ready \in BOOLEAN : ClockWith(ready)
  BY DEF Clock
<1>2. PICK word \in IF mem_xfer(ready) THEN ReadAt(mem_addr) ELSE {NoInsn},
           irq \in Inputs,
           drive \in IF pcpi_valid THEN PcpiDrives ELSE {<<FALSE, FALSE>>} :
             Cycle(ready, word, irq, drive[1], drive[2])
  BY <1>1 DEF ClockWith
<1>3. Answer(ready, word)
  BY <1>2, ReadAtAnswer
<1>4. /\ MemStep(ready) /\ Decode(ready, word) /\ trap' = (cpu_state = "trap")
      /\ alu_reg' = (IF TWO_CYCLE_ALU THEN operands ELSE Undef) /\ alu_out_q' = alu_out
  BY <1>2 DEF Cycle, SharedCycle
<1>5. CASE cpu_state = "trap"
  <2>1. StTrap(ready, irq)
    BY <1>2, <1>5 DEF Cycle, StFetch, FetchIrq, FetchWaitIrq, FetchLaunch, FetchIdle, FetchShared,
       StLdRs1, StLdRs2, StExec, ExecWait, ExecBranch, ExecAlu, ExecShared, StShift, StStMem, StLdMem
  <2>2. MainInv'
    BY <1>3, <1>4, <2>1, StTrapProgram
  <2>3. BusInv'
    BY <1>4, <2>1, BusKept DEF ProgramInv, StTrap
  <2>4. QED BY <2>2, <2>3 DEF MainInv, ProgramInv
<1>6. CASE cpu_state # "trap"
  <2>1. Cycled(ready, word)
    BY <1>3, <1>4, <1>6 DEF Cycled
  <2>2. BusInv'
    BY <1>4, <1>6, BusKept DEF ProgramInv
  <2>3. MainInv'
    <3>1. CASE StFetch(ready, irq)
      BY <2>1, <3>1, FetchOnProgram, FetchWaitProgram, FetchLaunchProgram DEF StFetch
    <3>2. CASE StExec(ready, irq)
      BY <2>1, <3>2, ExecWaitProgram, ExecBranchProgram, ExecAluProgram DEF StExec
    <3>3. CASE StStMem(ready, irq)
      <4>1. cpu_state \in Accessing /\ (TRUE <=> cpu_state = "stmem") /\ DataAccess(ready, irq, mem_do_wdata, TRUE)
        BY <3>3 DEF StStMem, Accessing
      <4>2. QED BY <2>1, <4>1, DataAccessProgram
    <3>4. CASE StLdMem(ready, irq)
      <4>1. cpu_state \in Accessing /\ (FALSE <=> cpu_state = "stmem") /\ DataAccess(ready, irq, mem_do_rdata, FALSE)
        BY <3>4 DEF StLdMem, Accessing
      <4>2. QED BY <2>1, <4>1, DataAccessProgram
    <3>5. QED BY <1>2, <1>6, <2>1, <3>1, <3>2, <3>3, <3>4, StLdRs1Program, StLdRs2Program,
                 StShiftProgram DEF Cycle, StTrap
  <2>4. QED BY <2>2, <2>3 DEF MainInv, ProgramInv
<1>7. QED BY <1>5, <1>6

(* Reset forgets the instruction, and what its fetch leaves in the decoder is
   not triggered. *)
LEMMA ResetProgram ==
  ASSUME TypeOK, ProgramInv, Reset
  PROVE  ProgramInv'
<1> USE DEF ProgramInv
<1>1. /\ cpu_state' = "fetch" /\ ~decoder_trigger' /\ ~do_waitirq' /\ mem_state' = 0 /\ ~trap'
      /\ reg_next_pc' = 0 /\ arch_pc' = 0 /\ ~latched_branch' /\ irq_state' = 0 /\ ~pcpi_valid'
      /\ latched_store' = STACKADDR_SET /\ (STACKADDR_SET => latched_rd' = OtherReg)
      /\ ret_reg' = ret_reg /\ ~returned' /\ accesses' = <<>> /\ running' = "none"
  BY DEF Reset
<1>2. StagesInv'
  <2>1. ASSUME NEW a, NEW word \in ReadAt(a)
        PROVE  word.op = "none" => word.at = DataAddr
    BY <2>1, ProgramAssumption DEF ReadAt, AllOps, NoInsn
  <2>2. mem_rdata_q' = mem_rdata_q \/ mem_rdata_q' \in ReadAt(mem_addr)
    BY DEF Reset
  <2>3. QED BY <1>1, <2>1, <2>2 DEF StagesInv, Reset
<1>3. RunningInv' /\ OperandsInv' /\ JumpInv' /\ BusInv' /\ PcpiInv'
  BY <1>1 DEF RunningInv, OneDataAccess, OperandsInv, JumpInv, BusInv, PcpiInv, PcpiOwned, Executing
<1>4. CounterInv'
  BY <1>1, SizeAssumption DEF CounterInv, FetchCasesParallel, current_pc, entering, PC
<1>5. FetchInv'
  BY <1>1 DEF FetchInv, Left, Accessing
<1>6. RegisterInv'
  BY <1>1, RegDistinct DEF RegisterInv
<1>7. InterruptInv'
  BY <1>1 DEF InterruptInv, Reset
<1>8. QED BY <1>2, <1>3, <1>4, <1>5, <1>6, <1>7

(* Power-up. *)
LEMMA InitProgram ==
  ASSUME Init
  PROVE  ProgramInv
<1>1. /\ cpu_state = "fetch" /\ ~decoder_trigger /\ ~do_waitirq /\ mem_state = 0 /\ ~trap
      /\ reg_next_pc = 0 /\ arch_pc = 0 /\ ~latched_branch /\ irq_state = 0 /\ ~pcpi_valid
      /\ latched_store = STACKADDR_SET /\ (STACKADDR_SET => latched_rd = OtherReg)
      /\ ret_reg = 0 /\ ~returned /\ accesses = <<>> /\ running = "none"
      /\ mem_rdata_q = NoInsn /\ stage1 = NoInsn
  BY DEF Init, resetting
<1>2. StagesInv /\ RunningInv /\ OperandsInv /\ JumpInv /\ BusInv /\ PcpiInv /\ FetchInv
  BY <1>1 DEF StagesInv, RunningInv, OneDataAccess, OperandsInv, JumpInv, BusInv, PcpiInv, PcpiOwned,
     FetchInv, Left, Accessing, Executing, NoInsn
<1>3. CounterInv
  BY <1>1, SizeAssumption DEF CounterInv, FetchCasesParallel, current_pc, entering, PC
<1>4. RegisterInv
  BY <1>1, RegDistinct DEF RegisterInv
<1>5. InterruptInv
  BY <1>1 DEF InterruptInv, Init, Inputs
<1>6. QED BY <1>2, <1>3, <1>4, <1>5 DEF ProgramInv

(* A step that changes nothing preserves the invariant. *)
LEMMA StutterProgram ==
  ASSUME ProgramInv, UNCHANGED vars
  PROVE  ProgramInv'
<1> USE DEF ProgramInv, vars, cpuVars, memVars, doVars, decodeVars, latchVars, aluVars, irqVars, entryVars,
            pcpiVars, historyVars
<1>1. StagesInv' /\ RunningInv' /\ OperandsInv' /\ JumpInv' /\ BusInv' /\ PcpiInv'
  BY DEF StagesInv, RunningInv, OneDataAccess, OperandsInv, JumpInv, BusInv, PcpiInv, PcpiOwned, Quiet
<1>2. CounterInv' /\ FetchInv'
  BY DEF CounterInv, FetchInv, FetchCasesParallel, current_pc, entering, result, Target, Left
<1>3. RegisterInv' /\ InterruptInv'
  BY DEF RegisterInv, InterruptInv
<1>4. QED BY <1>1, <1>2, <1>3

(* The invariant of the program holds in every behaviour of the core. *)
THEOREM ProgramCorrect == Spec => []ProgramInv
<1>1. Init => ProgramInv
  BY InitProgram
<1>2. TypeOK /\ ControlInv /\ ProgramInv /\ TypeOK' /\ ControlInv' /\ [Next]_vars => ProgramInv'
  BY ClockProgram, ResetProgram, StutterProgram DEF Next
<1>3. QED BY <1>1, <1>2, TypeCorrect, ControlCorrect, PTL DEF Spec

-----------------------------------------------------------------------------
(* The safety properties follow.                                            *)

(* The instruction that starts is the next one of the program, and both decode
   stages hold it: prefetch, jump, branch and interrupt never run another. *)
THEOREM LaunchesTheNextInsn == Spec => []LaunchesNextInsn
<1>1. ASSUME ProgramInv, launch_next_insn, irq_state = 0
      PROVE  /\ current_pc = arch_pc /\ stage1.at = WordOf(arch_pc)
             /\ (IF decoder_pseudo_trigger THEN stage2 ELSE mem_rdata_q) = stage1
  <2>1. cpu_state = "fetch" /\ decoder_trigger
    BY <1>1 DEF launch_next_insn
  <2>2. current_pc = arch_pc
    BY <1>1, <2>1 DEF ProgramInv, CounterInv
  <2>3. stage1.at = WordOf(current_pc)
    BY <1>1, <2>1 DEF ProgramInv, FetchInv, Target
  <2>4. QED BY <1>1, <2>1, <2>2, <2>3 DEF ProgramInv, StagesInv
<1>2. ProgramInv => LaunchesNextInsn
  BY <1>1 DEF LaunchesNextInsn
<1>3. QED BY <1>2, ProgramCorrect, PTL

(* A load or a store accesses data once, and nothing else does. *)
THEOREM AccessesDataOnce == Spec => []OneDataAccess
<1>1. ProgramInv => OneDataAccess
  BY DEF ProgramInv, RunningInv
<1>2. QED BY <1>1, ProgramCorrect, PTL

(* The decode stages keep the running instruction while a state reads them. *)
THEOREM KeepsDecodedInsn == Spec => []DecodedInsnStable
<1>1. ASSUME ProgramInv, cpu_state \in Executing
      PROVE  stage1 = stage2
  BY <1>1 DEF ProgramInv, StagesInv, RunningInv, Executing
<1>2. ASSUME ProgramInv, cpu_state \notin {"fetch", "trap"}, cpu_state \in Accessing => mem_do_prefetch
      PROVE  stage2.at = WordOf(reg_pc) /\ stage2.op = running
  BY <1>2 DEF ProgramInv, FetchInv, Left
<1>3. ProgramInv => DecodedInsnStable
  BY <1>1, <1>2 DEF DecodedInsnStable, Executing, Accessing
<1>4. QED BY <1>3, ProgramCorrect, PTL

(* A result is written to the register that its own instruction names. *)
THEOREM WritesItsOwnRegister == Spec => []WritesOwnRegister
<1>1. ~(ZeroReg < DataAddr) /\ ~(OtherReg < DataAddr) /\ ~(RetReg < DataAddr)
  BY SizeAssumption DEF ZeroReg, OtherReg, RetReg, DataAddr
<1>2. ASSUME ProgramInv, cpuregs_write, irq_state = 0, latched_rd < DataAddr
      PROVE  latched_rd = WordOf(reg_pc)
  <2>1. latched_rd \in {WordOf(reg_pc), ZeroReg, OtherReg, RetReg}
    BY <1>2 DEF cpuregs_write, ProgramInv, RegisterInv
  <2>2. QED BY <1>1, <1>2, <2>1
<1>3. ProgramInv => WritesOwnRegister
  BY <1>2 DEF WritesOwnRegister
<1>4. QED BY <1>3, ProgramCorrect, PTL

(* The next program counter is never taken from an undefined result. *)
THEOREM TargetsAreDefined == Spec => []TargetDefined
<1>1. ASSUME ProgramInv, cpu_state = "fetch"
      PROVE  current_pc \in PC
  <2>1. CASE irq_state = 1
    BY <1>1, <2>1, SizeAssumption DEF ProgramInv, CounterInv, FetchCasesParallel, current_pc, entering
  <2>2. CASE irq_state # 1
    BY <1>1, <2>2 DEF ProgramInv, CounterInv
  <2>3. QED BY <2>1, <2>2
<1>2. ProgramInv => TargetDefined
  BY <1>1 DEF TargetDefined
<1>3. QED BY <1>2, ProgramCorrect, PTL

(* A co-processor is asked only for the instruction that waits for it. *)
THEOREM PcpiIsOwned == Spec => []PcpiOwned
<1>1. ProgramInv => PcpiOwned
  BY DEF ProgramInv, PcpiInv
<1>2. QED BY <1>1, ProgramCorrect, PTL

(* An interrupt saves the address of the instruction it interrupts. *)
THEOREM SavesReturnAddress == Spec => []ReturnAddressSaved
<1>1. ProgramInv => ReturnAddressSaved
  BY DEF ProgramInv, RegisterInv, ReturnAddressSaved
<1>2. QED BY <1>1, ProgramCorrect, PTL

(* Between the return from an interrupt and the next, an instruction runs. *)
THEOREM AdvancesBetweenInterrupts == Spec => []ProgramAdvances
<1>1. ProgramInv => ProgramAdvances
  BY DEF ProgramInv, InterruptInv, ProgramAdvances
<1>2. QED BY <1>1, ProgramCorrect, PTL

(* A latched interrupt stays pending until an entry stores it for the handler,
   and a timer that expires is pending, whatever is cleared in that cycle. *)
THEOREM LosesNoInterrupt == Spec => NoInterruptLost
<1>1. ASSUME ControlInv, ProgramInv, [Next]_vars, NEW line \in (irq_pending \cap LATCHED_IRQ) \ irq_pending'
      PROVE  (irq_state = 2 /\ line \in eoi' \cap pend_reg') \/ resetting'
  <2>1. ENABLE_IRQ /\ line \notin MASKED_IRQ
    BY <1>1 DEF ProgramInv, InterruptInv
  <2>2. ASSUME NEW raised, NEW irq, IrqPending({}, raised, irq)
        PROVE  FALSE
    BY <2>1, <2>2 DEF IrqPending
  <2>3. CASE Clock
    <3>1. PICK ready, irq, pcpi_ready :
            \/ StTrap(ready, irq) \/ StFetch(ready, irq)
            \/ StLdRs1(ready, irq, pcpi_ready) \/ StLdRs2(ready, irq, pcpi_ready)
            \/ StExec(ready, irq) \/ StShift(ready, irq)
            \/ StStMem(ready, irq) \/ StLdMem(ready, irq)
      BY <2>3 DEF Clock, ClockWith, Cycle
    <3>2. CASE StFetch(ready, irq)
      <4>1. FetchShared(ready, irq)
        BY <3>2 DEF StFetch, FetchIrq, FetchWaitIrq, FetchLaunch, FetchIdle
      <4>2. acknowledging /\ line \in unmasked
        BY <2>1, <4>1 DEF FetchShared, IrqPending
      <4>3. latched_rd = PendReg
        BY <1>1, <4>2 DEF acknowledging, ProgramInv, RegisterInv
      <4>4. QED BY <4>1, <4>2, <4>3 DEF FetchShared, WriteBack, acknowledging
    <3>3. CASE StTrap(ready, irq)
      BY <2>2, <3>3 DEF StTrap
    <3>4. CASE StLdRs1(ready, irq, pcpi_ready)
      BY <2>2, <3>4 DEF StLdRs1, LdRs1Trap, LdRs1Value, LdRs1RetIrq, LdRs1Load, LdRs1ShiftImm, LdRs1Alu,
         LdRs1Default, DispatchShared, PcpiStep, PcpiAnswer, PcpiGiveUp, PcpiIssue, TrapOrRaise
    <3>5. CASE StLdRs2(ready, irq, pcpi_ready)
      BY <2>2, <3>5 DEF StLdRs2, DispatchShared, PcpiStep, PcpiAnswer, PcpiGiveUp, PcpiIssue, TrapOrRaise
    <3>6. CASE StExec(ready, irq)
      BY <2>2, <3>6 DEF StExec, ExecWait, ExecBranch, ExecAlu, ExecShared
    <3>7. CASE StShift(ready, irq)
      BY <2>2, <3>7 DEF StShift
    <3>8. CASE StStMem(ready, irq)
      BY <2>2, <3>8 DEF StStMem, DataAccess
    <3>9. CASE StLdMem(ready, irq)
      BY <2>2, <3>9 DEF StLdMem, DataAccess
    <3>10. QED BY <3>1, <3>2, <3>3, <3>4, <3>5, <3>6, <3>7, <3>8, <3>9
  <2>4. CASE Reset
    BY <2>4 DEF Reset, resetting
  <2>5. CASE UNCHANGED vars
    BY <2>5 DEF vars, irqVars
  <2>6. QED BY <1>1, <2>3, <2>4, <2>5 DEF Next
<1>2. ASSUME [Next]_vars, vars' # vars, ENABLE_IRQ, timer = 1
      PROVE  irq_timer \in irq_pending' \cup MASKED_IRQ
  <2>1. ASSUME NEW cleared, NEW raised, NEW irq, IrqPending(cleared, raised, irq)
        PROVE  irq_timer \in irq_pending' \cup MASKED_IRQ
    BY <1>2, <2>1 DEF IrqPending
  <2>2. CASE Clock
    <3>1. PICK ready, irq, pcpi_ready :
            \/ StTrap(ready, irq) \/ StFetch(ready, irq)
            \/ StLdRs1(ready, irq, pcpi_ready) \/ StLdRs2(ready, irq, pcpi_ready)
            \/ StExec(ready, irq) \/ StShift(ready, irq)
            \/ StStMem(ready, irq) \/ StLdMem(ready, irq)
      BY <2>2 DEF Clock, ClockWith, Cycle
    <3>2. CASE StTrap(ready, irq)
      BY <2>1, <3>2 DEF StTrap
    <3>3. CASE StFetch(ready, irq)
      BY <2>1, <3>3 DEF StFetch, FetchIrq, FetchWaitIrq, FetchLaunch, FetchIdle, FetchShared
    <3>4. CASE StLdRs1(ready, irq, pcpi_ready)
      BY <2>1, <3>4 DEF StLdRs1, LdRs1Trap, LdRs1Value, LdRs1RetIrq, LdRs1Load, LdRs1ShiftImm, LdRs1Alu,
         LdRs1Default, DispatchShared, PcpiStep, PcpiAnswer, PcpiGiveUp, PcpiIssue, TrapOrRaise
    <3>5. CASE StLdRs2(ready, irq, pcpi_ready)
      BY <2>1, <3>5 DEF StLdRs2, DispatchShared, PcpiStep, PcpiAnswer, PcpiGiveUp, PcpiIssue, TrapOrRaise
    <3>6. CASE StExec(ready, irq)
      BY <2>1, <3>6 DEF StExec, ExecWait, ExecBranch, ExecAlu, ExecShared
    <3>7. CASE StShift(ready, irq)
      BY <2>1, <3>7 DEF StShift
    <3>8. CASE StStMem(ready, irq)
      BY <2>1, <3>8 DEF StStMem, DataAccess
    <3>9. CASE StLdMem(ready, irq)
      BY <2>1, <3>9 DEF StLdMem, DataAccess
    <3>10. QED BY <3>1, <3>2, <3>3, <3>4, <3>5, <3>6, <3>7, <3>8, <3>9
  <2>3. CASE Reset
    BY <1>2, <2>3 DEF Reset
  <2>4. QED BY <1>2, <2>2, <2>3 DEF Next
<1>3. ControlInv /\ ProgramInv /\ [Next]_vars =>
        [/\ \A line \in (irq_pending \cap LATCHED_IRQ) \ irq_pending' :
              (irq_state = 2 /\ line \in eoi' \cap pend_reg') \/ resetting'
         /\ ENABLE_IRQ /\ timer = 1 => irq_timer \in irq_pending' \cup MASKED_IRQ]_vars
  <2>1. SUFFICES ASSUME ControlInv, ProgramInv, [Next]_vars, vars' # vars
                 PROVE  /\ \A line \in (irq_pending \cap LATCHED_IRQ) \ irq_pending' :
                             (irq_state = 2 /\ line \in eoi' \cap pend_reg') \/ resetting'
                        /\ ENABLE_IRQ /\ timer = 1 => irq_timer \in irq_pending' \cup MASKED_IRQ
    OBVIOUS
  <2>2. QED BY <1>1, <1>2, <2>1
<1>4. QED BY <1>3, ProgramCorrect, ControlCorrect, PTL DEF Spec, NoInterruptLost

(* What the look-ahead interface announces is the next request on the bus. *)
THEOREM HonoursLookAhead == Spec => LookAheadHonoured
<1>1. ASSUME ControlInv, ProgramInv, [Next]_vars, mem_la_read \/ mem_la_write, ~resetting', vars' # vars
      PROVE  mem_valid' /\ mem_addr' = mem_la_addr /\ mem_wstrb' = mem_la_write
  <2>1. CASE Clock
    <3>1. PICK ready \in BOOLEAN : MemStep(ready)
      BY <2>1 DEF Clock, ClockWith, Cycle, SharedCycle
    <3>2. ~trap /\ mem_state = 0
      BY <1>1 DEF mem_la_read, mem_la_write, mem_reads, ProgramInv, BusInv, Quiet
    <3>3. mem_la_write => ~mem_reads
      BY <1>1 DEF mem_la_write, ControlInv, RequestsExclusive
    <3>4. MemRequest
      BY <1>1, <3>1, <3>2 DEF MemStep, MemFrozen, MemTransfer, MemTakePrefetch, MemHold, mem_xfer,
         mem_la_read, mem_la_write
    <3>5. QED BY <3>3, <3>4 DEF MemRequest, mem_la_write, mem_la_read
  <2>2. CASE Reset
    BY <1>1, <2>2 DEF Reset, resetting
  <2>3. QED BY <1>1, <2>1, <2>2 DEF Next
<1>2. ControlInv /\ ProgramInv /\ [Next]_vars =>
        [(mem_la_read \/ mem_la_write) /\ ~resetting' =>
           mem_valid' /\ mem_addr' = mem_la_addr /\ mem_wstrb' = mem_la_write]_vars
  BY <1>1
<1>3. QED BY <1>2, ProgramCorrect, ControlCorrect, PTL DEF Spec, LookAheadHonoured
=============================================================================
