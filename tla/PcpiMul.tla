------------------------------- MODULE PcpiMul --------------------------------
(***************************************************************************)
(* The sequential multiplier picorv32_pcpi_mul of src/picorv32.v, with      *)
(* STEPS_AT_ONCE = 1: one bit of rs1 a cycle, in a carry-save accumulator   *)
(* whose carries move one chain of CARRY_CHAIN bits a cycle.                *)
(***************************************************************************)
EXTENDS PcpiPort

CONSTANT CARRY_CHAIN
ASSUME ChainAssumption == CARRY_CHAIN \in Nat \ {0} /\ (2 * XLEN) % CARRY_CHAIN = 0

VARIABLES
  mul_insn,                  \* which of instr_mul .. instr_mulhu is set
  mul_wait, mul_wait_q,      \* pcpi_wait, pcpi_wait_q
  mul_rs1, mul_rs2,          \* rs1, rs2: shifted right, shifted left
  rd, rdx,                   \* the sum, and the carries still to be added
  mul_counter,               \* negative when its bit 6 is set
  mul_waiting, mul_finish,
  mul_ready, mul_rd          \* pcpi_ready and pcpi_wr, pcpi_rd
mulVars == <<mul_insn, mul_wait, mul_wait_q, mul_rs1, mul_rs2, rd, rdx,
             mul_counter, mul_waiting, mul_finish, mul_ready, mul_rd>>

mul_start == mul_wait /\ ~mul_wait_q
instr_any_mulh == mul_insn \in MulInsns \ {"MUL"}
instr_rs1_signed == mul_insn \in {"MULH", "MULHSU"}
instr_rs2_signed == mul_insn = "MULH"

Double(x) == x % 2^(2 * XLEN)
Extend(w, signed) == Double(IF signed THEN SignedOf(w) ELSE w)

(* The adders of the chains: a chain adds its bits of three words, keeps      *)
(* CARRY_CHAIN bits of the sum and passes one carry to the next chain.       *)
NumChains == (2 * XLEN) \div CARRY_CHAIN
Chains == 0..(NumChains - 1)
ChainBits == 2^CARRY_CHAIN
Chain(x, k) == (x \div 2^(k * CARRY_CHAIN)) % ChainBits

(* The word whose chains hold d[0], d[1], ...                                *)
Joined(d) ==
  LET from[k \in 0..NumChains] == IF k = NumChains THEN 0 ELSE d[k] + ChainBits * from[k + 1]
  IN from[0]

ChainSum(x, y, z, k) == (Chain(x, k) + Chain(y, k) + Chain(z, k)) % (2 * ChainBits)
NextRd(x, y, z) == Joined([k \in Chains |-> ChainSum(x, y, z, k) % ChainBits])
NextRdx(x, y, z) == Double(ChainBits * Joined([k \in Chains |-> ChainSum(x, y, z, k) \div ChainBits]))

MulDecode ==
  mul_insn' = IF resetn /\ pcpi_valid /\ pcpi_insn \in MulInsns THEN pcpi_insn ELSE "none"

(* A waiting unit loads the operands in every cycle, the last time when it    *)
(* starts.                                                                   *)
MulLoad ==
  /\ resetn /\ mul_waiting
  /\ mul_rs1' = Extend(pcpi_rs1, instr_rs1_signed)
  /\ mul_rs2' = Extend(pcpi_rs2, instr_rs2_signed)
  /\ rd' = 0 /\ rdx' = 0
  /\ mul_counter' = IF instr_any_mulh THEN 2 * XLEN - 2 ELSE XLEN - 2
  /\ mul_waiting' = ~mul_start /\ mul_finish' = FALSE

MulStep ==
  LET this_rs2 == IF mul_rs1 % 2 = 1 THEN mul_rs2 ELSE 0 IN
  /\ resetn /\ ~mul_waiting
  /\ rd' = NextRd(rd, rdx, this_rs2)
  /\ rdx' = NextRdx(rd, rdx, this_rs2)
  /\ mul_rs1' = mul_rs1 \div 2
  /\ mul_rs2' = Double(2 * mul_rs2)
  /\ mul_counter' = mul_counter - 1
  /\ mul_finish' = (mul_counter < 0) /\ mul_waiting' = (mul_counter < 0)

MulReset ==
  /\ ~resetn
  /\ mul_waiting' = TRUE /\ mul_finish' = FALSE
  /\ UNCHANGED <<mul_rs1, mul_rs2, rd, rdx, mul_counter>>

MulAnswer ==
  /\ mul_ready' = (mul_finish /\ resetn)
  /\ mul_rd' = IF mul_finish /\ resetn
               THEN (IF instr_any_mulh THEN rd \div 2^XLEN ELSE Low(rd)) ELSE mul_rd

(* Mutant: the unit starts as long as it waits for an instruction. *)
MulClockNoEdge ==
  /\ MulDecode
  /\ mul_wait' = (mul_insn # "none") /\ mul_wait_q' = FALSE
  /\ MulLoad \/ MulStep \/ MulReset
  /\ MulAnswer

MulClock ==
  /\ MulDecode
  /\ mul_wait' = (mul_insn # "none") /\ mul_wait_q' = mul_wait
  /\ MulLoad \/ MulStep \/ MulReset
  /\ MulAnswer

(* At power-up, once the reset has been held for the two cycles it takes to   *)
(* empty the decoder and the wait flags.                                     *)
MulInit ==
  /\ mul_insn = "none" /\ mul_wait = FALSE /\ mul_wait_q = FALSE
  /\ mul_rs1 = 0 /\ mul_rs2 = 0 /\ rd = 0 /\ rdx = 0 /\ mul_counter = 0
  /\ mul_waiting = TRUE /\ mul_finish = FALSE /\ mul_ready = FALSE /\ mul_rd = 0
=============================================================================
