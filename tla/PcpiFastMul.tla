------------------------------ MODULE PcpiFastMul ------------------------------
(***************************************************************************)
(* The multiplier picorv32_pcpi_fast_mul of src/picorv32.v: a pipeline that  *)
(* answers two cycles after the offer, or four with its additional registers *)
(* (ffs), whose registers may be clocked only when they are needed (gated).  *)
(***************************************************************************)
EXTENDS PcpiPort

VARIABLES
  active,                \* the stages that hold the instruction
  fast_rs, fast_rs_q,    \* rs1 and rs2 as signed 33-bit values, and their copies
  fast_rd, fast_rd_q,    \* the product in 64 bits, and its copy
  shift_out
fastVars == <<active, fast_rs, fast_rs_q, fast_rd, fast_rd_q, shift_out>>

LastStage(ffs) == IF ffs THEN 3 ELSE 1
fast_insn == IF resetn /\ pcpi_valid /\ pcpi_insn \in MulInsns THEN pcpi_insn ELSE "none"
Wide(w, signed) == IF signed THEN SignedOf(w) ELSE w

(* An offer is taken once: not while a stage that leads to its answer works.  *)
FastStarts(ffs) == fast_insn # "none" /\ active \cap (0..LastStage(ffs)) = {}

FastClock(ffs, gated) ==
  LET clocked(stage) == gated => stage \in active
      factors == IF ffs THEN fast_rs_q ELSE fast_rs
      started == IF FastStarts(ffs) THEN {0} ELSE {}
  IN /\ active' = IF resetn THEN started \cup {stage + 1 : stage \in active \ {3}} ELSE {}
     /\ fast_rs' = IF FastStarts(ffs)
                   THEN <<Wide(pcpi_rs1, fast_insn \in {"MULH", "MULHSU"}), Wide(pcpi_rs2, fast_insn = "MULH")>>
                   ELSE fast_rs
     /\ fast_rs_q' = IF clocked(0) THEN fast_rs ELSE fast_rs_q
     /\ fast_rd' = IF clocked(1) THEN (factors[1] * factors[2]) % 2^(2 * XLEN) ELSE fast_rd
     /\ fast_rd_q' = IF clocked(2) THEN fast_rd ELSE fast_rd_q
     /\ shift_out' = (fast_insn \in MulInsns \ {"MUL"})

fast_ready(ffs) == LastStage(ffs) \in active
fast_result(ffs) ==
  LET product == IF ffs THEN fast_rd_q ELSE fast_rd
  IN IF shift_out THEN product \div 2^XLEN ELSE Low(product)

FastInit ==
  /\ active = {} /\ fast_rs = <<0, 0>> /\ fast_rs_q = <<0, 0>>
  /\ fast_rd = 0 /\ fast_rd_q = 0 /\ shift_out = FALSE
=============================================================================
