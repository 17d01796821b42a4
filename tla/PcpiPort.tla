------------------------------- MODULE PcpiPort -------------------------------
(***************************************************************************)
(* The co-processor interface of src/picorv32.v as the internal units of    *)
(* the core see it: the reset, and the offered instruction with its         *)
(* operands.  A register of XLEN bits holds 0..2^XLEN-1.                    *)
(***************************************************************************)
EXTENDS Integers

CONSTANT XLEN          \* 32 in the code
ASSUME WidthAssumption == XLEN \in Nat \ {0}

(* What the proofs need to know of the powers of two, which arithmetic gives  *)
(* for every XLEN.                                                           *)
ASSUME PowersAssumption ==
  2^0 = 1 /\ \A n \in 0..(2 * XLEN) : 2^n \in Nat /\ 2^(n + 1) = 2 * 2^n

VARIABLES resetn, pcpi_valid, pcpi_insn, pcpi_rs1, pcpi_rs2
portVars == <<resetn, pcpi_valid, pcpi_insn, pcpi_rs1, pcpi_rs2>>

MulInsns == {"MUL", "MULH", "MULHSU", "MULHU"}
DivInsns == {"DIV", "DIVU", "REM", "REMU"}

Word == 0..(2^XLEN - 1)
Negative(w) == w >= 2^(XLEN - 1)
SignedOf(w) == IF Negative(w) THEN w - 2^XLEN ELSE w
Low(x) == x % 2^XLEN           \* what a register of XLEN bits keeps of x
=============================================================================
