------------------------------- MODULE PicoCore -------------------------------
(***************************************************************************)
(* The picorv32 core of src/picorv32.v: the native memory interface, the   *)
(* two decode stages, the main state machine, the interrupt and the        *)
(* co-processor handshakes.  One step is one rising clock edge; registers  *)
(* are variables and wires are state functions, so that what is assigned   *)
(* at an edge and what is read before it are kept apart as in the code.    *)
(*                                                                         *)
(* COMPRESSED_ISA is 0; CATCH_ILLINSN, CATCH_MISALIGN, ENABLE_COUNTERS and *)
(* ENABLE_IRQ_QREGS are 1, their defaults.  A program counter counts       *)
(* halfwords modulo 2*NWords, an odd one is misaligned.  An instruction    *)
(* word is the address it was read from, its class and its displacement;   *)
(* the comparison of a branch and the target of a jalr stand for operand   *)
(* values, all other data is abstracted away.                              *)
(***************************************************************************)
EXTENDS Integers, Sequences

CONSTANTS
  NWords,            \* number of instruction words
  IrqVector,         \* PROGADDR_IRQ
  Ops,               \* the instruction classes a program uses
  Imms,              \* the displacements of its jumps and branches
  ShiftAmounts,      \* the values of reg_sh a shift starts with
  Lines,             \* the interrupt lines
  IrqInputs,         \* the values the irq port may take
  PcpiDrives,        \* the <<pcpi_wait, pcpi_ready>> pairs co-processors may drive
  TimerLoads,        \* the values software writes to the timer
  PcpiTimeout,       \* the initial pcpi_timeout_counter, 15 in the code
  LATCHED_IRQ, MASKED_IRQ,
  ENABLE_IRQ, WITH_PCPI, ENABLE_REGS_DUALPORT,
  TWO_STAGE_SHIFT, TWO_CYCLE_COMPARE, TWO_CYCLE_ALU, STACKADDR_SET

AllOps == {"alu", "op", "shifti", "shift", "jal", "jalr", "branch", "load", "store",
           "csr", "setq", "retirq", "maskirq", "timer", "waitirq", "pcpi", "ecall"}
PC == 0..(2 * NWords - 1)
irq_timer == 0
irq_ebreak == 1
irq_buserror == 2

ASSUME SizeAssumption == NWords \in Nat \ {0} /\ IrqVector \in PC
IrqOps == {"setq", "retirq", "maskirq", "timer", "waitirq"}
ASSUME ProgramAssumption == /\ Ops \subseteq AllOps /\ (ENABLE_IRQ \/ Ops \cap IrqOps = {})
                            /\ Imms \subseteq PC /\ ShiftAmounts \subseteq Nat
ASSUME IrqAssumption == /\ ENABLE_IRQ => {irq_timer, irq_ebreak, irq_buserror} \subseteq Lines
                        /\ IrqInputs \subseteq SUBSET Lines
                        /\ LATCHED_IRQ \subseteq Lines /\ MASKED_IRQ \subseteq Lines
                        /\ TimerLoads \subseteq Nat
ASSUME PcpiAssumption == PcpiTimeout \in Nat /\ PcpiDrives \subseteq BOOLEAN \X BOOLEAN
ASSUME ParameterAssumption ==
  {ENABLE_IRQ, WITH_PCPI, ENABLE_REGS_DUALPORT, TWO_STAGE_SHIFT,
   TWO_CYCLE_COMPARE, TWO_CYCLE_ALU, STACKADDR_SET} \subseteq BOOLEAN

(* Undef stands for 'bx and for data where a program counter could be.      *)
Undef == -1
Value == PC \cup {Undef}

(* Addresses on the bus: an instruction word, or the one data word. *)
DataAddr == NWords
Addr == Undef..NWords
WordOf(pc) == pc \div 2
(* Mutant: the program counter has no width. *)
PlusUnbounded(pc, d) == pc + d

Plus(pc, d) == (pc + d) % (2 * NWords)

(* An instruction word and where it came from; NoInsn is what data or an    *)
(* unwritten register decodes to.                                           *)
Word == [at : Addr, op : AllOps \cup {"none"}, imm : PC]
NoInsn == [at |-> DataAddr, op |-> "none", imm |-> 0]
Jumps == {"jal", "branch"}
ReadAt(a) ==
  IF a = DataAddr THEN {NoInsn}
  ELSE {[at |-> a, op |-> o, imm |-> i] : o \in Ops \cap Jumps, i \in Imms}
       \cup {[at |-> a, op |-> o, imm |-> 0] : o \in Ops \ Jumps}

(* Destination registers.  An instruction's own rd is named by the address  *)
(* of the instruction; the others are q0, q1, x0, and sp or q1 to q3 written  *)
(* by setq.                                                                 *)
RetReg == NWords + 1
PendReg == NWords + 2
ZeroReg == NWords + 3
OtherReg == NWords + 4
Reg == Undef..(NWords + 4)

CpuStates == {"trap", "fetch", "ld_rs1", "ld_rs2", "exec", "shift", "stmem", "ldmem"}

VARIABLES
  cpu_state, trap,
  mem_state, mem_valid, mem_instr, mem_addr, mem_wstrb,
  mem_do_prefetch, mem_do_rinst, mem_do_rdata, mem_do_wdata,
  mem_rdata_q,       \* the last word read
  stage1, stage2,    \* the words the two decode stages describe
  decoder_trigger, decoder_pseudo_trigger,
  reg_pc, reg_next_pc, reg_out, reg_sh,
  op1_misaligned,    \* reg_op1 is misaligned for mem_wordsize
  latched_store, latched_stalu, latched_branch, latched_rd,
  operands,          \* what the ALU makes of reg_op1, reg_op2: a target or 0/1
  alu_reg,           \* the ALU's intermediate registers under TWO_CYCLE_ALU
  alu_out_q, alu_wait, alu_wait_2,
  irq_state, irq_active, irq_delay, irq_mask, irq_pending, eoi, timer, do_waitirq,
  ret_reg, pend_reg, \* q0, and what the interrupt entry last wrote to q1
  pcpi_valid, pcpi_timeout_counter, pcpi_timeout,
  (* History: the address of the next instruction by the instruction set's  *)
  (* rules, the one saved at interrupt entry, the class of the last launched *)
  (* instruction, the data accesses it made, and whether the handler has     *)
  (* returned with nothing launched since.                                   *)
  arch_pc, arch_ret, running, accesses, returned

cpuVars == <<cpu_state, trap, reg_pc, reg_next_pc, reg_out, reg_sh, op1_misaligned>>
memVars == <<mem_state, mem_valid, mem_instr, mem_addr, mem_wstrb>>
doVars == <<mem_do_prefetch, mem_do_rinst, mem_do_rdata, mem_do_wdata>>
decodeVars == <<mem_rdata_q, stage1, stage2, decoder_trigger, decoder_pseudo_trigger>>
latchVars == <<latched_store, latched_stalu, latched_branch, latched_rd>>
aluVars == <<operands, alu_reg, alu_out_q, alu_wait, alu_wait_2>>
entryVars == <<irq_state, eoi, do_waitirq, ret_reg, pend_reg>>
irqVars == <<irq_active, irq_delay, irq_mask, irq_pending, timer, entryVars>>
pcpiVars == <<pcpi_valid, pcpi_timeout_counter, pcpi_timeout>>
historyVars == <<arch_pc, arch_ret, running, accesses, returned>>
vars == <<cpuVars, memVars, doVars, decodeVars, latchVars, aluVars, irqVars, pcpiVars, historyVars>>

-----------------------------------------------------------------------------
(* Wires.  The parameter ready is the mem_ready input of the cycle.         *)

mem_xfer(ready) == mem_valid /\ ready
mem_done(ready) ==
  \/ mem_xfer(ready) /\ mem_state # 0 /\ (mem_do_rinst \/ mem_do_rdata \/ mem_do_wdata)
  \/ mem_state = 3 /\ mem_do_rinst
mem_reads == mem_do_prefetch \/ mem_do_rinst \/ mem_do_rdata
mem_la_write == mem_state = 0 /\ mem_do_wdata
mem_la_read == mem_state = 0 /\ mem_reads

next_pc == IF latched_store /\ latched_branch THEN reg_out ELSE reg_next_pc
mem_la_addr == IF mem_do_prefetch \/ mem_do_rinst THEN WordOf(next_pc) ELSE DataAddr

unmasked == irq_pending \ irq_mask
launch_next_insn ==
  cpu_state = "fetch" /\ decoder_trigger
    /\ (~ENABLE_IRQ \/ irq_delay \/ irq_active \/ unmasked = {})

alu_out == IF TWO_CYCLE_ALU THEN alu_reg ELSE operands
compare_true == (IF TWO_CYCLE_COMPARE THEN alu_out_q ELSE alu_out) = 1

misaligned == \/ (mem_do_rdata \/ mem_do_wdata) /\ op1_misaligned
              \/ mem_do_rinst /\ reg_pc % 2 = 1
CanRaise(line) == ENABLE_IRQ /\ line \notin irq_mask /\ ~irq_active

-----------------------------------------------------------------------------
(* The parts of a clock cycle every state of the main machine shares.       *)

(* The memory interface: one request at a time, frozen once trapped. *)
MemFrozen(ready) ==
  /\ trap
  /\ mem_valid' = (mem_valid /\ ~ready)
  /\ UNCHANGED <<mem_state, mem_instr, mem_addr, mem_wstrb>>

(* Mutant: a write request keeps the address of the last read. *)
MemRequestOldAddress ==
  /\ ~trap /\ mem_state = 0 /\ (mem_la_read \/ mem_la_write)
  /\ mem_valid' = TRUE
  /\ mem_addr' = IF mem_la_write THEN mem_addr ELSE mem_la_addr
  /\ mem_wstrb' = (mem_la_write /\ ~mem_reads)
  /\ mem_instr' = ((mem_do_prefetch \/ mem_do_rinst) /\ ~mem_do_wdata)
  /\ mem_state' = IF mem_do_wdata THEN 2 ELSE 1

MemRequest ==
  /\ ~trap /\ mem_state = 0 /\ (mem_la_read \/ mem_la_write)
  /\ mem_valid' = TRUE
  /\ mem_addr' = mem_la_addr
  /\ mem_wstrb' = (mem_la_write /\ ~mem_reads)
  /\ mem_instr' = ((mem_do_prefetch \/ mem_do_rinst) /\ ~mem_do_wdata)
  /\ mem_state' = IF mem_do_wdata THEN 2 ELSE 1

(* Mutant: mem_valid is not dropped after a transfer. *)
MemTransferKeepsValid(ready) ==
  /\ ~trap /\ mem_state \in {1, 2} /\ mem_xfer(ready)
  /\ mem_state' = IF mem_state = 2 \/ mem_do_rinst \/ mem_do_rdata THEN 0 ELSE 3
  /\ UNCHANGED <<mem_valid, mem_instr, mem_addr, mem_wstrb>>

MemTransfer(ready) ==
  /\ ~trap /\ mem_state \in {1, 2} /\ mem_xfer(ready)
  /\ mem_valid' = FALSE
  /\ mem_state' = IF mem_state = 2 \/ mem_do_rinst \/ mem_do_rdata THEN 0 ELSE 3
  /\ UNCHANGED <<mem_instr, mem_addr, mem_wstrb>>

MemTakePrefetch ==
  /\ ~trap /\ mem_state = 3 /\ mem_do_rinst
  /\ mem_state' = 0
  /\ UNCHANGED <<mem_valid, mem_instr, mem_addr, mem_wstrb>>

MemHold(ready) ==
  /\ ~trap
  /\ \/ mem_state = 0 /\ ~mem_la_read /\ ~mem_la_write
     \/ mem_state \in {1, 2} /\ ~mem_xfer(ready)
     \/ mem_state = 3 /\ ~mem_do_rinst
  /\ UNCHANGED memVars

MemStep(ready) ==
  MemFrozen(ready) \/ MemRequest \/ MemTransfer(ready) \/ MemTakePrefetch \/ MemHold(ready)

(* Mutant: mem_done leaves the data requests set. *)
MemDoKeepsData(ready, prefetch, rinst, set_rinst, set_rdata, set_wdata) ==
  /\ mem_do_prefetch' = (prefetch /\ ~mem_done(ready))
  /\ mem_do_rinst' = ((rinst /\ ~mem_done(ready)) \/ set_rinst)
  /\ mem_do_rdata' = (mem_do_rdata \/ set_rdata)
  /\ mem_do_wdata' = (mem_do_wdata \/ set_wdata)

(* The memory requests of the main machine: what the state assigns, then the *)
(* clearing by mem_done, then the set_mem_do_* flags, in that order.         *)
MemDo(ready, prefetch, rinst, set_rinst, set_rdata, set_wdata) ==
  /\ mem_do_prefetch' = (prefetch /\ ~mem_done(ready))
  /\ mem_do_rinst' = ((rinst /\ ~mem_done(ready)) \/ set_rinst)
  /\ mem_do_rdata' = ((mem_do_rdata /\ ~mem_done(ready)) \/ set_rdata)
  /\ mem_do_wdata' = ((mem_do_wdata /\ ~mem_done(ready)) \/ set_wdata)
KeepMemDo(ready) == MemDo(ready, mem_do_prefetch, mem_do_rinst, FALSE, FALSE, FALSE)

(* Mutant: stage 1 decodes a prefetch as soon as it arrives. *)
DecodeEarly(ready, word) ==
  /\ mem_rdata_q' = IF mem_xfer(ready) THEN word ELSE mem_rdata_q
  /\ stage1' = IF mem_xfer(ready) /\ mem_instr THEN word ELSE stage1
  /\ stage2' = IF decoder_trigger /\ ~decoder_pseudo_trigger THEN mem_rdata_q ELSE stage2

(* Stage 1 decodes the word that completes an instruction fetch, stage 2    *)
(* the word in mem_rdata_q one cycle later.                                 *)
Decode(ready, word) ==
  /\ mem_rdata_q' = IF mem_xfer(ready) THEN word ELSE mem_rdata_q
  /\ stage1' = IF mem_do_rinst /\ mem_done(ready)
               THEN (IF mem_xfer(ready) THEN word ELSE mem_rdata_q) ELSE stage1
  /\ stage2' = IF decoder_trigger /\ ~decoder_pseudo_trigger THEN mem_rdata_q ELSE stage2
Trigger(ready) ==
  /\ decoder_trigger' = (mem_do_rinst /\ mem_done(ready))
  /\ decoder_pseudo_trigger' = FALSE

(* Where the main machine goes, unless a misaligned access traps it. *)
GoTo(state) ==
  cpu_state' = IF misaligned /\ ~CanRaise(irq_buserror) THEN "trap" ELSE state

(* Mutant: an acknowledge clears what arrives in its cycle as well. *)
IrqPending_cleared_last(cleared, raised, irq) ==
  LET expired == IF timer = 1 THEN {irq_timer} ELSE {}
      buserror == IF misaligned /\ CanRaise(irq_buserror) THEN {irq_buserror} ELSE {}
      pending == ((irq_pending \cap LATCHED_IRQ) \cup raised \cup irq \cup expired) \ cleared
  IN irq_pending' = IF ENABLE_IRQ THEN (pending \cup buserror) \ MASKED_IRQ ELSE {}

(* The interrupts pending after the cycle: those of before that are latched, *)
(* without the cleared ones, the raised ones, the inputs, timer and bus error. *)
IrqPending(cleared, raised, irq) ==
  LET expired == IF timer = 1 THEN {irq_timer} ELSE {}
      buserror == IF misaligned /\ CanRaise(irq_buserror) THEN {irq_buserror} ELSE {}
      pending == ((irq_pending \cap LATCHED_IRQ) \ cleared) \cup raised \cup irq \cup expired
  IN irq_pending' = IF ENABLE_IRQ THEN (pending \cup buserror) \ MASKED_IRQ ELSE {}
TimerRuns == timer' = IF timer > 0 THEN timer - 1 ELSE 0

(* Mutant: the counter of unclaimed instructions does not run. *)
PcpiTimerStopped(wait) == UNCHANGED <<pcpi_timeout_counter, pcpi_timeout>>

(* The time-out of co-processor instructions nobody claims. *)
PcpiTimer(wait) ==
  IF WITH_PCPI
  THEN /\ pcpi_timeout_counter' = IF pcpi_valid /\ ~wait
                                  THEN (IF pcpi_timeout_counter > 0 THEN pcpi_timeout_counter - 1 ELSE 0)
                                  ELSE PcpiTimeout
       /\ pcpi_timeout' = (pcpi_timeout_counter = 0)
  ELSE UNCHANGED <<pcpi_timeout_counter, pcpi_timeout>>

(* History: the data accesses of the running instruction, at most two kept. *)
CountAccess(ready, launched) ==
  accesses' = IF launched THEN <<>>
              ELSE IF mem_xfer(ready) /\ ~mem_instr /\ Len(accesses) < 2
                   THEN Append(accesses, IF mem_wstrb THEN "store" ELSE "load")
                   ELSE accesses

SharedCycle(ready, word, wait) ==
  /\ trap' = (cpu_state = "trap")
  /\ MemStep(ready)
  /\ Decode(ready, word)
  /\ PcpiTimer(wait)
  /\ alu_reg' = IF TWO_CYCLE_ALU THEN operands ELSE Undef
  /\ alu_out_q' = alu_out

(* What a state does not assign: registers that default to 'bx or 0 ...     *)
NoResult == reg_out' = Undef
NoShift == reg_sh' = 0
NoWait == alu_wait' = FALSE /\ alu_wait_2' = FALSE
(* ... and those only the fetch state changes. *)
NotFetching ==
  /\ do_waitirq' = FALSE
  /\ UNCHANGED <<reg_pc, reg_next_pc, irq_delay, irq_state, ret_reg, pend_reg, arch_ret, running>>
NoIrqControl == UNCHANGED <<irq_active, irq_mask, eoi, returned>>

-----------------------------------------------------------------------------
(* cpu_state_trap *)

StTrap(ready, irq) ==
  /\ cpu_state = "trap"
  /\ GoTo("trap")
  /\ KeepMemDo(ready) /\ Trigger(ready) /\ CountAccess(ready, FALSE)
  /\ IrqPending({}, {}, irq) /\ TimerRuns
  /\ NoResult /\ NoShift /\ NoWait /\ NotFetching /\ NoIrqControl
  /\ UNCHANGED <<op1_misaligned, latchVars, operands, pcpi_valid, arch_pc>>

-----------------------------------------------------------------------------
(* cpu_state_fetch *)

result == IF latched_stalu THEN alu_out_q ELSE reg_out
entering == irq_state = 1 /\ ~latched_branch /\ ~latched_store

acknowledging == irq_state = 2 /\ ~latched_branch /\ ~latched_store
current_pc == IF latched_branch THEN (IF latched_store THEN result ELSE reg_next_pc)
              ELSE IF entering THEN IrqVector ELSE reg_next_pc

(* Mutants: an interrupt is taken right after a return, or with a fetch under way. *)
irq_taken_undelayed == ENABLE_IRQ /\ (\/ decoder_trigger /\ ~irq_active /\ unmasked # {}
                                      \/ irq_state # 0)
irq_taken_early == ENABLE_IRQ /\ (\/ ~irq_active /\ ~irq_delay /\ unmasked # {}
                                  \/ irq_state # 0)

irq_taken == ENABLE_IRQ /\ (\/ decoder_trigger /\ ~irq_active /\ ~irq_delay /\ unmasked # {}
                            \/ irq_state # 0)
(* Mutant: the destination of the instruction stage 2 still describes. *)
decoded_rd_late == stage2.at
(* Mutant: a masked interrupt does not wake the core. *)
wakes_unmasked == unmasked # {}

decoded_rd == stage1.at
wakes == irq_pending # {}
waiting == ENABLE_IRQ /\ ~irq_taken /\ (decoder_trigger \/ do_waitirq) /\ stage1.op = "waitirq"

(* The register file is written in the first cycle of the fetch state, with  *)
(* the result, the link or the return address of the interrupt.             *)
cpuregs_write == cpu_state = "fetch" /\ (latched_branch \/ latched_store \/ irq_state # 0)
(* Mutant: the return address is computed as the link of a jump. *)
WriteBackLink ==
  /\ ret_reg' = IF latched_rd # RetReg THEN ret_reg
                ELSE IF latched_branch THEN Plus(reg_pc, 2)
                ELSE IF latched_store THEN result
                ELSE IF irq_state = 1 THEN Plus(reg_pc, 2) ELSE ret_reg
  /\ pend_reg' = IF acknowledging /\ latched_rd = PendReg THEN unmasked ELSE pend_reg

WriteBack ==
  /\ ret_reg' = IF latched_rd # RetReg THEN ret_reg
                ELSE IF latched_branch THEN Plus(reg_pc, 2)
                ELSE IF latched_store THEN result
                ELSE IF irq_state = 1 THEN reg_next_pc ELSE ret_reg
  /\ pend_reg' = IF acknowledging /\ latched_rd = PendReg THEN unmasked ELSE pend_reg

FetchShared(ready, irq) ==
  /\ cpu_state = "fetch"
  /\ WriteBack
  /\ reg_pc' = current_pc
  /\ irq_active' = (irq_active \/ entering)
  /\ eoi' = IF acknowledging THEN unmasked ELSE eoi
  /\ IrqPending(IF acknowledging THEN unmasked ELSE {}, {}, irq)
  /\ TimerRuns /\ Trigger(ready) /\ NoShift /\ NoWait
  /\ latched_stalu' = FALSE
  /\ UNCHANGED <<irq_mask, op1_misaligned, operands, pcpi_valid>>

(* Interrupt entry takes three cycles: decide, save the return address, save *)
(* and acknowledge the pending interrupts.                                   *)
FetchIrq(ready, irq) ==
  /\ irq_taken
  /\ FetchShared(ready, irq)
  /\ GoTo("fetch")
  /\ irq_state' = (irq_state + 1) % 3
  /\ latched_rd' = IF irq_state = 1 THEN PendReg ELSE RetReg
  /\ latched_store' = FALSE /\ latched_branch' = FALSE
  /\ reg_next_pc' = current_pc
  /\ MemDo(ready, mem_do_prefetch, entering \/ (~decoder_trigger /\ ~do_waitirq), FALSE, FALSE, FALSE)
  /\ do_waitirq' = FALSE
  /\ NoResult /\ CountAccess(ready, FALSE)
  /\ arch_ret' = IF irq_state = 1 THEN arch_pc ELSE arch_ret
  /\ arch_pc' = IF irq_state = 1 THEN IrqVector ELSE arch_pc
  /\ UNCHANGED <<irq_delay, running, returned>>

(* waitirq stalls until an interrupt is pending, masked or not. *)
FetchWaitIrq(ready, irq) ==
  /\ waiting
  /\ FetchShared(ready, irq)
  /\ GoTo("fetch")
  /\ latched_rd' = decoded_rd
  /\ latched_store' = wakes /\ latched_branch' = FALSE
  /\ do_waitirq' = ~wakes
  /\ reg_next_pc' = IF wakes THEN Plus(current_pc, 2) ELSE current_pc
  /\ MemDo(ready, mem_do_prefetch, wakes, FALSE, FALSE, FALSE)
  /\ NoResult /\ CountAccess(ready, decoder_trigger)
  /\ running' = "waitirq"
  /\ arch_pc' = IF wakes THEN Plus(arch_pc, 2) ELSE arch_pc
  /\ UNCHANGED <<irq_state, irq_delay, arch_ret, returned>>

(* The decoded instruction starts.  A jal stays in the fetch state.         *)
FetchLaunch(ready, irq) ==
  /\ ~irq_taken /\ ~waiting /\ decoder_trigger
  /\ FetchShared(ready, irq)
  /\ GoTo(IF stage1.op = "jal" THEN "fetch" ELSE "ld_rs1")
  /\ latched_rd' = decoded_rd
  /\ latched_store' = FALSE
  /\ latched_branch' = (stage1.op = "jal")
  /\ reg_next_pc' = Plus(current_pc, IF stage1.op = "jal" THEN stage1.imm ELSE 2)
  /\ MemDo(ready, IF stage1.op = "jal" THEN mem_do_prefetch ELSE stage1.op \notin {"jalr", "retirq"},
           stage1.op = "jal", FALSE, FALSE, FALSE)
  /\ do_waitirq' = FALSE
  /\ irq_delay' = irq_active
  /\ NoResult /\ CountAccess(ready, TRUE)
  /\ running' = stage1.op
  /\ arch_pc' = Plus(arch_pc, IF stage1.op = "jal" THEN stage1.imm ELSE 2)
  /\ returned' = FALSE
  /\ UNCHANGED <<irq_state, arch_ret>>

FetchIdle(ready, irq) ==
  /\ ~irq_taken /\ ~waiting /\ ~decoder_trigger
  /\ FetchShared(ready, irq)
  /\ GoTo("fetch")
  /\ latched_rd' = decoded_rd
  /\ latched_store' = FALSE /\ latched_branch' = FALSE
  /\ reg_next_pc' = current_pc
  /\ MemDo(ready, mem_do_prefetch, ~do_waitirq, FALSE, FALSE, FALSE)
  /\ do_waitirq' = FALSE
  /\ NoResult /\ CountAccess(ready, FALSE)
  /\ UNCHANGED <<irq_state, irq_delay, arch_pc, arch_ret, running, returned>>

StFetch(ready, irq) ==
  FetchIrq(ready, irq) \/ FetchWaitIrq(ready, irq) \/ FetchLaunch(ready, irq) \/ FetchIdle(ready, irq)

-----------------------------------------------------------------------------
(* cpu_state_ld_rs1 and cpu_state_ld_rs2: the operands are read and the     *)
(* instruction is sent to the state that executes it.                       *)

(* What the ALU will find in reg_op1 and reg_op2. *)
OperandsOf(op) == IF op = "branch" THEN {0, 1} ELSE IF op = "jalr" THEN PC ELSE {Undef}

LoadShared(ready) ==
  /\ Trigger(ready) /\ CountAccess(ready, FALSE) /\ NotFetching
  /\ UNCHANGED <<op1_misaligned, latched_stalu>>

(* Mutant: the ALU's registers are not waited for. *)
ToExecAtOnce(ready, two_cycles, four) ==
  /\ GoTo("exec")
  /\ alu_wait' = FALSE /\ alu_wait_2' = FALSE
  /\ MemDo(ready, mem_do_prefetch, mem_do_prefetch, FALSE, FALSE, FALSE)

(* Two-cycle variants wait in the exec state; otherwise the prefetch is     *)
(* turned into the fetch of the next instruction at once.                   *)
ToExec(ready, two_cycles, four) ==
  /\ GoTo("exec")
  /\ alu_wait' = two_cycles /\ alu_wait_2' = (two_cycles /\ four)
  /\ MemDo(ready, mem_do_prefetch, IF two_cycles THEN mem_do_rinst ELSE mem_do_prefetch,
           FALSE, FALSE, FALSE)

(* An instruction for the co-processors, ecall, ebreak or an illegal one.   *)
TrapOrRaise(irq) ==
  IF CanRaise(irq_ebreak)
  THEN GoTo("fetch") /\ IrqPending({}, {irq_ebreak}, irq)
  ELSE GoTo("trap") /\ IrqPending({}, {}, irq)

PcpiAnswer(ready, irq) ==
  /\ MemDo(ready, mem_do_prefetch, TRUE, FALSE, FALSE, FALSE)
  /\ pcpi_valid' = FALSE
  /\ latched_store' \in BOOLEAN          \* pcpi_int_wr
  /\ GoTo("fetch") /\ IrqPending({}, {}, irq)

(* Mutant: an instruction given up is still offered to the co-processors. *)
PcpiGiveUpOffered(ready, irq) ==
  /\ KeepMemDo(ready)
  /\ TrapOrRaise(irq)
  /\ UNCHANGED <<latched_store, pcpi_valid>>

PcpiGiveUp(ready, irq) ==
  /\ KeepMemDo(ready)
  /\ pcpi_valid' = FALSE
  /\ TrapOrRaise(irq)
  /\ UNCHANGED latched_store

PcpiIssue(ready, irq, state) ==
  /\ KeepMemDo(ready)
  /\ pcpi_valid' = TRUE
  /\ GoTo(state) /\ IrqPending({}, {}, irq)
  /\ UNCHANGED latched_store

PcpiStep(ready, irq, pcpi_ready, state) ==
  LET gives_up == ~pcpi_ready /\ (pcpi_timeout \/ stage2.op = "ecall") IN
  \/ pcpi_ready /\ PcpiAnswer(ready, irq)
  \/ gives_up /\ PcpiGiveUp(ready, irq)
  \/ ~pcpi_ready /\ ~gives_up /\ PcpiIssue(ready, irq, state)

instr_trap == stage2.op \in {"pcpi", "ecall", "none"}

LdRs1Trap(ready, irq, pcpi_ready) ==
  /\ instr_trap
  /\ IF WITH_PCPI /\ ENABLE_REGS_DUALPORT THEN PcpiStep(ready, irq, pcpi_ready, "ld_rs1")
     ELSE /\ IF WITH_PCPI THEN GoTo("ld_rs2") /\ IrqPending({}, {}, irq) ELSE TrapOrRaise(irq)
          /\ KeepMemDo(ready)
          /\ UNCHANGED <<latched_store, pcpi_valid>>
  /\ operands' = Undef
  /\ NoResult /\ NoShift /\ NoWait /\ TimerRuns /\ NoIrqControl
  /\ UNCHANGED <<latched_branch, latched_rd, arch_pc>>

(* rdcycle, rdinstr, getq and the other instructions that only deliver a value. *)
LdRs1Value(ready, irq) ==
  /\ stage2.op \in {"csr", "setq", "maskirq", "timer"}
  /\ GoTo("fetch") /\ KeepMemDo(ready) /\ IrqPending({}, {}, irq)
  /\ latched_store' = TRUE
  /\ IF stage2.op = "setq"
     THEN reg_out' \in PC /\ latched_rd' \in {RetReg, OtherReg}
     ELSE NoResult /\ UNCHANGED latched_rd
  /\ IF stage2.op = "maskirq"
     THEN \E mask \in SUBSET Lines : irq_mask' = mask \cup MASKED_IRQ
     ELSE UNCHANGED irq_mask
  /\ IF stage2.op = "timer" THEN timer' \in TimerLoads ELSE TimerRuns
  /\ operands' = Undef
  /\ NoShift /\ NoWait
  /\ UNCHANGED <<irq_active, eoi, returned, latched_branch, pcpi_valid, arch_pc>>

LdRs1RetIrq(ready, irq) ==
  /\ stage1.op = "retirq"
  /\ GoTo("fetch") /\ KeepMemDo(ready) /\ IrqPending({}, {}, irq) /\ TimerRuns
  /\ latched_store' = TRUE /\ latched_branch' = TRUE
  /\ reg_out' = ret_reg
  /\ irq_active' = FALSE /\ eoi' = {}
  /\ arch_pc' = ret_reg
  /\ returned' = irq_active
  /\ operands' = Undef
  /\ NoShift /\ NoWait
  /\ UNCHANGED <<irq_mask, latched_rd, pcpi_valid>>

(* The instructions that go on to another state with their operands. *)
DispatchShared(irq) ==
  /\ IrqPending({}, {}, irq) /\ TimerRuns /\ NoIrqControl /\ NoResult
  /\ UNCHANGED <<latched_store, latched_branch, latched_rd, pcpi_valid, arch_pc>>

LdRs1Load(ready, irq) ==
  /\ stage1.op = "load"
  /\ GoTo("ldmem")
  /\ MemDo(ready, mem_do_prefetch, TRUE, FALSE, FALSE, FALSE)
  /\ operands' = Undef
  /\ NoShift /\ NoWait /\ DispatchShared(irq)

LdRs1ShiftImm(ready, irq) ==
  /\ stage2.op = "shifti"
  /\ GoTo("shift") /\ KeepMemDo(ready)
  /\ reg_sh' \in ShiftAmounts
  /\ operands' = Undef
  /\ NoWait /\ DispatchShared(irq)

LdRs1Alu(ready, irq) ==
  /\ stage2.op \in {"alu", "jalr"}
  /\ ToExec(ready, TWO_CYCLE_ALU, FALSE)
  /\ operands' \in OperandsOf(stage2.op)
  /\ NoShift /\ DispatchShared(irq)

(* With both operands read: stores, shifts by a register, and the rest.     *)
BothOperands(ready) ==
  \/ /\ stage1.op = "store"
     /\ GoTo("stmem")
     /\ MemDo(ready, mem_do_prefetch, TRUE, FALSE, FALSE, FALSE)
     /\ operands' = Undef /\ NoShift /\ NoWait
  \/ /\ stage2.op = "shift"
     /\ GoTo("shift") /\ KeepMemDo(ready)
     /\ reg_sh' \in ShiftAmounts
     /\ operands' = Undef /\ NoWait
  \/ /\ stage1.op \in {"op", "branch"}
     /\ LET slow_compare == TWO_CYCLE_COMPARE /\ stage1.op = "branch"
        IN ToExec(ready, TWO_CYCLE_ALU \/ slow_compare, TWO_CYCLE_ALU /\ slow_compare)
     /\ operands' \in OperandsOf(stage1.op)
     /\ NoShift

LdRs1Default(ready, irq) ==
  /\ stage1.op \in {"store", "shift", "op", "branch"}
  /\ IF ENABLE_REGS_DUALPORT THEN BothOperands(ready)
     ELSE GoTo("ld_rs2") /\ KeepMemDo(ready) /\ operands' = Undef /\ NoShift /\ NoWait
  /\ DispatchShared(irq)

StLdRs1(ready, irq, pcpi_ready) ==
  /\ cpu_state = "ld_rs1"
  /\ LoadShared(ready)
  /\ \/ LdRs1Trap(ready, irq, pcpi_ready)
     \/ LdRs1Value(ready, irq) \/ LdRs1RetIrq(ready, irq)
     \/ LdRs1Load(ready, irq) \/ LdRs1ShiftImm(ready, irq)
     \/ LdRs1Alu(ready, irq) \/ LdRs1Default(ready, irq)

StLdRs2(ready, irq, pcpi_ready) ==
  /\ cpu_state = "ld_rs2"
  /\ LoadShared(ready)
  /\ \/ /\ instr_trap
        /\ PcpiStep(ready, irq, pcpi_ready, "ld_rs2")
        /\ NoResult /\ NoShift /\ NoWait /\ TimerRuns /\ NoIrqControl
        /\ UNCHANGED <<operands, latched_branch, latched_rd, arch_pc>>
     \/ ~instr_trap /\ BothOperands(ready) /\ DispatchShared(irq)

-----------------------------------------------------------------------------
(* cpu_state_exec *)

ExecShared(ready, irq) ==
  /\ cpu_state = "exec"
  /\ reg_out' = Plus(reg_pc, stage2.imm)
  /\ IrqPending({}, {}, irq) /\ TimerRuns /\ NoIrqControl /\ NotFetching
  /\ decoder_pseudo_trigger' = FALSE
  /\ NoShift /\ CountAccess(ready, FALSE)
  /\ UNCHANGED <<op1_misaligned, pcpi_valid>>

ExecWait(ready, irq) ==
  /\ alu_wait \/ alu_wait_2
  /\ ExecShared(ready, irq)
  /\ GoTo("exec")
  /\ MemDo(ready, mem_do_prefetch, mem_do_prefetch /\ ~alu_wait_2, FALSE, FALSE, FALSE)
  /\ alu_wait' = alu_wait_2 /\ alu_wait_2' = FALSE
  /\ Trigger(ready)
  /\ UNCHANGED <<latchVars, operands, arch_pc>>

(* A branch leaves with the fetch of the next instruction in program order;  *)
(* when it is taken that fetch is dropped and repeated at the target.        *)
ExecBranch(ready, irq) ==
  /\ ~alu_wait /\ ~alu_wait_2 /\ stage1.op = "branch"
  /\ ExecShared(ready, irq)
  /\ GoTo(IF mem_done(ready) THEN "fetch" ELSE "exec")
  /\ latched_rd' = ZeroReg
  /\ latched_store' = compare_true /\ latched_branch' = compare_true
  /\ decoder_trigger' = (mem_do_rinst /\ mem_done(ready) /\ ~compare_true)
  /\ MemDo(ready, mem_do_prefetch, mem_do_rinst, compare_true, FALSE, FALSE)
  /\ NoWait
  /\ operands' = IF mem_done(ready) THEN Undef ELSE operands
  /\ arch_pc' = IF mem_done(ready) /\ operands = 1 THEN Plus(reg_pc, stage2.imm) ELSE arch_pc
  /\ UNCHANGED latched_stalu

ExecAlu(ready, irq) ==
  /\ ~alu_wait /\ ~alu_wait_2 /\ stage1.op # "branch"
  /\ ExecShared(ready, irq)
  /\ GoTo("fetch")
  /\ latched_branch' = (stage1.op = "jalr")
  /\ latched_store' = TRUE /\ latched_stalu' = TRUE
  /\ Trigger(ready)
  /\ KeepMemDo(ready)
  /\ NoWait
  /\ operands' = Undef
  /\ arch_pc' = IF stage1.op = "jalr" THEN operands ELSE arch_pc
  /\ UNCHANGED latched_rd

StExec(ready, irq) == ExecWait(ready, irq) \/ ExecBranch(ready, irq) \/ ExecAlu(ready, irq)

-----------------------------------------------------------------------------
(* cpu_state_shift: by four, then by one. *)

StShift(ready, irq) ==
  /\ cpu_state = "shift"
  /\ latched_store' = TRUE
  /\ \/ /\ reg_sh = 0
        /\ GoTo("fetch")
        /\ MemDo(ready, mem_do_prefetch, mem_do_prefetch, FALSE, FALSE, FALSE)
        /\ NoShift
     \/ /\ reg_sh > 0
        /\ GoTo("shift") /\ KeepMemDo(ready)
        /\ reg_sh' = IF TWO_STAGE_SHIFT /\ reg_sh >= 4 THEN reg_sh - 4 ELSE reg_sh - 1
  /\ Trigger(ready) /\ CountAccess(ready, FALSE)
  /\ IrqPending({}, {}, irq) /\ TimerRuns /\ NoIrqControl /\ NotFetching
  /\ NoResult /\ NoWait
  /\ UNCHANGED <<op1_misaligned, latched_stalu, latched_branch, latched_rd, operands, pcpi_valid, arch_pc>>

-----------------------------------------------------------------------------
(* cpu_state_stmem and cpu_state_ldmem: the fetch of the next instruction    *)
(* finishes first, then the data access is made; the decoder, triggered long *)
(* before, is triggered again without decoding anything.                     *)

DataAccess(ready, irq, requested, is_store) ==
  LET fetched == ~mem_do_prefetch \/ mem_done(ready)
      issues == fetched /\ ~requested
      done == ~mem_do_prefetch /\ mem_done(ready)
  IN
  /\ IF issues THEN op1_misaligned' \in BOOLEAN ELSE UNCHANGED op1_misaligned
  /\ MemDo(ready, mem_do_prefetch, mem_do_rinst, FALSE, issues /\ ~is_store, issues /\ is_store)
  /\ GoTo(IF done THEN "fetch" ELSE cpu_state)
  /\ decoder_trigger' = ((mem_do_rinst /\ mem_done(ready)) \/ done)
  /\ decoder_pseudo_trigger' = done
  /\ CountAccess(ready, FALSE)
  /\ IrqPending({}, {}, irq) /\ TimerRuns /\ NoIrqControl /\ NotFetching
  /\ NoResult /\ NoShift /\ NoWait
  /\ UNCHANGED <<latched_stalu, latched_branch, latched_rd, operands, pcpi_valid, arch_pc>>

StStMem(ready, irq) ==
  /\ cpu_state = "stmem"
  /\ DataAccess(ready, irq, mem_do_wdata, TRUE)
  /\ UNCHANGED latched_store

StLdMem(ready, irq) ==
  /\ cpu_state = "ldmem"
  /\ DataAccess(ready, irq, mem_do_rdata, FALSE)
  /\ latched_store' = TRUE

-----------------------------------------------------------------------------
(* Reset, and the behaviours of the core.  Registers the reset does not      *)
(* write keep their values; at power-up they hold none.  The interrupt       *)
(* inputs are taken during reset too, and so is a timer about to expire.     *)

Inputs == IF ENABLE_IRQ THEN IrqInputs ELSE {{}}

resetting ==
  /\ cpu_state = "fetch" /\ trap = FALSE
  /\ mem_state = 0 /\ mem_valid = FALSE
  /\ mem_do_prefetch = FALSE /\ mem_do_rinst = FALSE /\ mem_do_rdata = FALSE /\ mem_do_wdata = FALSE
  /\ decoder_trigger = FALSE /\ decoder_pseudo_trigger = FALSE
  /\ reg_pc = 0 /\ reg_next_pc = 0 /\ reg_out = Undef /\ reg_sh = 0
  /\ latched_store = STACKADDR_SET /\ latched_stalu = FALSE /\ latched_branch = FALSE
  /\ alu_wait = FALSE /\ alu_wait_2 = FALSE
  /\ irq_state = 0 /\ irq_active = FALSE /\ irq_delay = FALSE
  /\ irq_mask = Lines /\ eoi = {} /\ timer = 0 /\ do_waitirq = FALSE
  /\ pcpi_valid = FALSE /\ pcpi_timeout_counter = PcpiTimeout /\ pcpi_timeout = FALSE
  /\ arch_pc = 0 /\ arch_ret = 0 /\ running = "none" /\ accesses = <<>> /\ returned = FALSE

Init ==
  /\ resetting /\ irq_pending \in {irq \ MASKED_IRQ : irq \in Inputs}
  /\ latched_rd = IF STACKADDR_SET THEN OtherReg ELSE ZeroReg
  /\ mem_instr = FALSE /\ mem_addr = DataAddr /\ mem_wstrb = FALSE
  /\ mem_rdata_q = NoInsn /\ stage1 = NoInsn /\ stage2 = NoInsn
  /\ op1_misaligned = FALSE /\ operands = Undef /\ alu_reg = Undef /\ alu_out_q = Undef
  /\ ret_reg = 0 /\ pend_reg = {}

(* The words in the decoder survive a reset, the transfer in flight is dropped *)
(* although its data may still be taken; the operands are dead.              *)
Reset ==
  /\ cpu_state' = "fetch" /\ trap' = FALSE
  /\ mem_state' = 0 /\ mem_valid' = FALSE
  /\ mem_do_prefetch' = FALSE /\ mem_do_rinst' = FALSE /\ mem_do_rdata' = FALSE /\ mem_do_wdata' = FALSE
  /\ decoder_trigger' = FALSE /\ decoder_pseudo_trigger' = FALSE
  /\ reg_pc' = 0 /\ reg_next_pc' = 0 /\ reg_out' = Undef /\ reg_sh' = 0
  /\ latched_store' = STACKADDR_SET /\ latched_stalu' = FALSE /\ latched_branch' = FALSE
  /\ alu_wait' = FALSE /\ alu_wait_2' = FALSE
  /\ irq_state' = 0 /\ irq_active' = FALSE /\ irq_delay' = FALSE
  /\ irq_mask' = Lines /\ eoi' = {} /\ timer' = 0 /\ do_waitirq' = FALSE
  /\ pcpi_valid' = FALSE /\ pcpi_timeout_counter' = PcpiTimeout /\ pcpi_timeout' = FALSE
  /\ arch_pc' = 0 /\ arch_ret' = 0 /\ running' = "none" /\ accesses' = <<>> /\ returned' = FALSE
  /\ latched_rd' = IF STACKADDR_SET THEN OtherReg ELSE latched_rd
  /\ \E irq \in Inputs :
       irq_pending' = IF ENABLE_IRQ
                      THEN (irq \cup (IF timer = 1 THEN {irq_timer} ELSE {})) \ MASKED_IRQ ELSE {}
  /\ operands' = Undef /\ alu_reg' = Undef /\ alu_out_q' = Undef
  /\ mem_rdata_q' \in {mem_rdata_q} \cup (IF mem_valid THEN ReadAt(mem_addr) ELSE {})
  /\ stage2' = IF decoder_trigger /\ ~decoder_pseudo_trigger THEN mem_rdata_q ELSE stage2
  /\ UNCHANGED <<mem_instr, mem_addr, mem_wstrb, stage1, op1_misaligned, ret_reg, pend_reg>>

Cycle(ready, word, irq, wait, pcpi_ready) ==
  /\ SharedCycle(ready, word, wait)
  /\ \/ StTrap(ready, irq) \/ StFetch(ready, irq)
     \/ StLdRs1(ready, irq, pcpi_ready) \/ StLdRs2(ready, irq, pcpi_ready)
     \/ StExec(ready, irq) \/ StShift(ready, irq)
     \/ StStMem(ready, irq) \/ StLdMem(ready, irq)

(* A clock edge with some input.  The memory answers a read with a word of   *)
(* the requested address; a co-processor drives the bus only while asked.    *)
ClockWith(ready) ==
  \E word \in IF mem_xfer(ready) THEN ReadAt(mem_addr) ELSE {NoInsn},
     irq \in Inputs,
     drive \in IF pcpi_valid THEN PcpiDrives ELSE {<<FALSE, FALSE>>} :
       Cycle(ready, word, irq, drive[1], drive[2])
Clock == \E ready \in BOOLEAN : ClockWith(ready)

Next == Clock \/ Reset
Spec == Init /\ [][Next]_vars

(* The clock runs, there is no reset, and the memory answers every request. *)
MemoryAnswers == mem_valid /\ ClockWith(TRUE)
FairSpec == Init /\ [][Clock]_vars /\ WF_vars(Clock) /\ WF_vars(MemoryAnswers)

-----------------------------------------------------------------------------
(* Every register has its type: the memory interface, the decoder and the    *)
(* pipeline registers; the main machine and its flags; interrupts; history.  *)
BusTypeOK ==
  /\ mem_state \in 0..3 /\ mem_addr \in Addr
  /\ mem_valid \in BOOLEAN /\ mem_instr \in BOOLEAN /\ mem_wstrb \in BOOLEAN
  /\ mem_rdata_q \in Word /\ stage1 \in Word /\ stage2 \in Word
  /\ trap \in BOOLEAN /\ alu_reg \in Value /\ alu_out_q \in Value
  /\ pcpi_timeout \in BOOLEAN /\ pcpi_timeout_counter \in 0..PcpiTimeout
CpuTypeOK ==
  /\ cpu_state \in CpuStates
  /\ reg_pc \in Value /\ reg_next_pc \in Value /\ reg_out \in Value /\ operands \in Value
  /\ reg_sh \in Nat /\ latched_rd \in Reg
FlagTypeOK ==
  /\ latched_store \in BOOLEAN /\ latched_stalu \in BOOLEAN /\ latched_branch \in BOOLEAN
  /\ mem_do_prefetch \in BOOLEAN /\ mem_do_rinst \in BOOLEAN
  /\ mem_do_rdata \in BOOLEAN /\ mem_do_wdata \in BOOLEAN
  /\ decoder_trigger \in BOOLEAN /\ decoder_pseudo_trigger \in BOOLEAN
  /\ alu_wait \in BOOLEAN /\ alu_wait_2 \in BOOLEAN
  /\ op1_misaligned \in BOOLEAN /\ pcpi_valid \in BOOLEAN
  /\ irq_active \in BOOLEAN /\ irq_delay \in BOOLEAN /\ do_waitirq \in BOOLEAN
  /\ returned \in BOOLEAN
IrqTypeOK ==
  /\ irq_state \in 0..2
  /\ irq_mask \subseteq Lines /\ irq_pending \subseteq Lines /\ eoi \subseteq Lines
  /\ pend_reg \subseteq Lines /\ ret_reg \in Value /\ timer \in Nat
HistoryTypeOK ==
  /\ arch_pc \in Value /\ arch_ret \in Value
  /\ running \in AllOps \cup {"none"} /\ accesses \in Seq({"load", "store"})
MainTypeOK == CpuTypeOK /\ FlagTypeOK /\ IrqTypeOK /\ HistoryTypeOK
TypeOK == BusTypeOK /\ MainTypeOK

(* The assertions of the code on the memory requests (576-593): an           *)
(* instruction fetch, a data read and a data write exclude each other.      *)
RequestsExclusive ==
  /\ mem_do_wdata => ~mem_reads
  /\ mem_do_rdata => ~mem_do_prefetch /\ ~mem_do_rinst

(* The assertions inside the memory state machine (626-629, 652-653,         *)
(* 660-661): while it works on a request the core keeps asking for that       *)
(* request, so that no transfer is left without an owner.                   *)
TransferHasOwner ==
  ~trap =>
    /\ mem_state = 1 => /\ ~mem_wstrb /\ mem_reads /\ mem_valid
                        /\ mem_instr = (mem_do_prefetch \/ mem_do_rinst)
    /\ mem_state = 2 => mem_wstrb /\ mem_do_wdata /\ mem_valid
    /\ mem_state = 3 => ~mem_wstrb /\ mem_do_prefetch /\ ~mem_valid

(* The assertion of the FORMAL section on the look-ahead interface (2192-2194): *)
(* no request is announced while one is on the bus.                          *)
NoRequestOverRequest == mem_la_read \/ mem_la_write => ~mem_valid

(* An instruction that starts is the one at the address the instruction set   *)
(* prescribes: a word prefetched beyond a jump, a taken branch, an interrupt  *)
(* or a return is never executed, nor the word of a data transfer.           *)
LaunchesNextInsn ==
  launch_next_insn /\ irq_state = 0 =>
    /\ current_pc = arch_pc
    /\ stage1.at = WordOf(arch_pc)
    /\ (IF decoder_pseudo_trigger THEN stage2 ELSE mem_rdata_q) = stage1

(* Until an instruction leaves for the next, both decode stages describe it:  *)
(* the fetch of its successor never changes flags it still reads.            *)
DecodedInsnStable ==
  /\ cpu_state \in {"ld_rs1", "ld_rs2", "exec", "shift"} => stage1 = stage2
  /\ cpu_state \notin {"fetch", "trap"} /\ (cpu_state \in {"stmem", "ldmem"} => mem_do_prefetch) =>
       stage2.at = WordOf(reg_pc) /\ stage2.op = running

(* A result is written to the destination of the instruction that computed   *)
(* it, although latched_rd already follows the next decoded instruction.     *)
WritesOwnRegister ==
  cpuregs_write /\ irq_state = 0 /\ latched_rd < DataAddr => latched_rd = WordOf(reg_pc)

(* The value at the program counter is always defined: a branch, jalr or      *)
(* retirq target is taken in the one cycle reg_out or alu_out_q holds it.     *)
TargetDefined == cpu_state = "fetch" => current_pc \in PC

(* The cases of the fetch state are declared parallel_case (1527, 1344): the  *)
(* interrupt entry never meets a result that waits to be written.            *)
FetchCasesParallel == irq_state # 0 => cpu_state = "fetch" /\ ~latched_store /\ ~latched_branch

(* A load or store has accessed memory once, in its own direction, when the   *)
(* next instruction can start, and nothing else accesses data.               *)
OneDataAccess ==
  cpu_state = "fetch" => accesses = IF running \in {"load", "store"} THEN <<running>> ELSE <<>>

(* The handler finds in its return register the address of the instruction    *)
(* that was interrupted, at whatever point of a prefetch or jump.            *)
ReturnAddressSaved == irq_state = 2 => ret_reg = arch_ret

(* After a handler returns, one instruction of the interrupted program runs   *)
(* before the next entry, whatever is pending (irq_delay).                    *)
ProgramAdvances == irq_state # 0 => ~returned

(* A co-processor is asked only for the instruction being executed, which     *)
(* waits in its operand state; nothing else happens in the meantime.         *)
PcpiOwned ==
  pcpi_valid => /\ cpu_state = (IF ENABLE_REGS_DUALPORT THEN "ld_rs1" ELSE "ld_rs2")
                /\ running = "pcpi" /\ stage2.at = WordOf(reg_pc)

(* A request on the bus stays as it is until it is answered, even when the    *)
(* core traps meanwhile.                                                     *)
RequestStable == [][mem_valid /\ mem_valid' => UNCHANGED <<mem_addr, mem_instr, mem_wstrb>>]_vars

(* The other assertions of the FORMAL section (2181-2191): a request announced *)
(* on the look-ahead interface is on the bus in the next cycle.              *)
LookAheadHonoured ==
  [][(mem_la_read \/ mem_la_write) /\ ~resetting' =>
       mem_valid' /\ mem_addr' = mem_la_addr /\ mem_wstrb' = mem_la_write]_vars

(* A latched interrupt stays pending until the handler is told of it, in q1   *)
(* and on eoi: one that arrives during the entry is kept for the next entry.  *)
(* A timer that expires is pending in the next cycle, even if that is the one  *)
(* in which an earlier expiry is acknowledged and cleared.                    *)
NoInterruptLost ==
  [][/\ \A line \in (irq_pending \cap LATCHED_IRQ) \ irq_pending' :
          (irq_state = 2 /\ line \in eoi' \cap pend_reg') \/ resetting'
     /\ ENABLE_IRQ /\ timer = 1 => irq_timer \in irq_pending' \cup MASKED_IRQ]_vars

(* A trapped core makes no new request and stays trapped until it is reset.   *)
TrapFinal ==
  [][trap => resetting' \/ (trap' /\ cpu_state' = "trap" /\ (mem_valid' => mem_valid))]_vars

(* Every instruction completes: the core always comes to decode another one,  *)
(* traps, or sleeps in waitirq.                                              *)
AlwaysAdvances ==
  [](cpu_state # "trap" => <>(cpu_state = "trap" \/ do_waitirq \/ (cpu_state = "fetch" /\ decoder_trigger)))

(* A core asleep in waitirq wakes when an interrupt becomes pending.          *)
WakesUp == (do_waitirq /\ irq_pending # {}) ~> launch_next_insn

-----------------------------------------------------------------------------
(* The strengthening RequestsExclusive and TransferHasOwner need to be       *)
(* inductive: which requests each state of the main machine can have, and    *)
(* which of the memory state machine go with them.                           *)
Quiet == ~mem_do_prefetch /\ ~mem_do_rinst /\ ~mem_do_rdata /\ ~mem_do_wdata

(* Data is requested by a load or a store after its prefetch, and the fetch   *)
(* state starts an instruction, enters an interrupt or sleeps only with all   *)
(* requests served.                                                          *)
StateRequests ==
  /\ cpu_state \in {"ld_rs1", "ld_rs2", "shift"} => ~mem_do_rinst
  /\ cpu_state = "exec" /\ (alu_wait \/ alu_wait_2) => ~mem_do_rinst
  /\ cpu_state \in {"ld_rs1", "ld_rs2"} /\ stage1.op \in {"load", "store"} => mem_do_prefetch
  /\ cpu_state = "ldmem" => (mem_do_rdata <=> ~mem_do_prefetch) /\ (mem_do_rinst <=> mem_do_prefetch)
  /\ cpu_state = "stmem" => (mem_do_wdata <=> ~mem_do_prefetch) /\ (mem_do_rinst <=> mem_do_prefetch)
  /\ mem_do_rdata => cpu_state \in {"ldmem", "trap"}
  /\ mem_do_wdata => cpu_state \in {"stmem", "trap"}
  /\ cpu_state = "fetch" /\ (decoder_trigger \/ do_waitirq \/ irq_state = 1) => Quiet
  /\ irq_state # 0 => ENABLE_IRQ /\ cpu_state = "fetch" /\ ~decoder_trigger /\ ~do_waitirq
  /\ trap => cpu_state = "trap"
ControlInv == RequestsExclusive /\ TransferHasOwner /\ StateRequests /\ (mem_state = 0 => ~mem_valid)
=============================================================================
