------------------------------ MODULE PcpiAudio -------------------------------
(***************************************************************************)
(* The audio co-processor picorv32_pcpi_audio of src/picorv32.v on the      *)
(* signals of the co-processor interface: it answers an instruction it      *)
(* knows in the very cycle it is offered, and never any other.              *)
(***************************************************************************)
EXTENDS AudioOps

CONSTANT Insns        \* the instructions offered; the unit knows AudioInsns

VARIABLES resetn, pcpi_valid, pcpi_insn, pcpi_rs1, pcpi_rs2
unitVars == <<resetn, pcpi_valid, pcpi_insn, pcpi_rs1, pcpi_rs2>>

result_valid == resetn /\ pcpi_valid /\ pcpi_insn \in AudioInsns
result == IF result_valid THEN AudioResult(pcpi_insn, pcpi_rs1, pcpi_rs2) ELSE 0

Idle(insn) == pcpi_insn' = insn /\ pcpi_rs1' = 0 /\ pcpi_rs2' = 0

UnitInit ==
  /\ resetn = FALSE /\ pcpi_valid = FALSE
  /\ pcpi_insn = "other" /\ pcpi_rs1 = 0 /\ pcpi_rs2 = 0

(* The core offers an instruction with its operands, takes the answer or     *)
(* gives up, and may be reset meanwhile, which withdraws the offer one cycle *)
(* later.  The operands of no offer, and those of an offer in reset, are     *)
(* never used.                                                               *)
Offer ==
  /\ resetn /\ ~pcpi_valid
  /\ pcpi_valid' = TRUE
  /\ pcpi_insn' \in Insns /\ pcpi_rs1' \in Word /\ pcpi_rs2' \in Word
  /\ UNCHANGED resetn
Withdraw == pcpi_valid /\ pcpi_valid' = FALSE /\ Idle("other") /\ UNCHANGED resetn
EnterReset == resetn /\ resetn' = FALSE /\ Idle(pcpi_insn) /\ UNCHANGED pcpi_valid
LeaveReset == ~resetn /\ ~pcpi_valid /\ resetn' = TRUE /\ Idle("other") /\ UNCHANGED pcpi_valid

UnitNext == Offer \/ Withdraw \/ EnterReset \/ LeaveReset
UnitSpec == UnitInit /\ [][UnitNext]_unitVars

-----------------------------------------------------------------------------
Answers(insn) == result_valid /\ pcpi_insn = insn
a0 == Lo(pcpi_rs1)
a1 == Hi(pcpi_rs1)
b0 == Lo(pcpi_rs2)
b1 == Hi(pcpi_rs2)
Value == Signed(result, WordHalf)

(* The nearest value to x from lowest to highest.                            *)
Nearest(x, lowest, highest) == IF x < lowest THEN lowest ELSE IF x > highest THEN highest ELSE x
Magnitude(x) == IF x < 0 THEN -x ELSE x

(* The sums are exact in 32 bits, with one exception: with all lanes at their *)
(* minimum MAC16, LMSSTEP and ABS2 reach 2^31, which reads as -2^31.         *)
SumsExact ==
  /\ Answers("MAC16") \/ Answers("LMSSTEP") =>
       IF {a0, a1, b0, b1} = {MinLane} THEN Value = -WordHalf ELSE Value = a0 * b0 + a1 * b1
  /\ Answers("ABS2") => IF {a0, a1} = {MinLane} THEN Value = -WordHalf ELSE Value = a0 * a0 + a1 * a1
  /\ Answers("MSUB16") => Value = a0 * b0 - a1 * b1
  /\ Answers("CONV4") \/ Answers("CONV8") =>
       \E f \in {[i \in 0..3 |-> Byte(pcpi_rs1, i) * Byte(pcpi_rs2, i)]} : Value = f[0] + f[1] + f[2] + f[3]

(* Every lane of ABS16 and CMAC is the 16-bit value nearest to the exact one, *)
(* but for the imaginary part of CMAC when it is 2^31.                       *)
LanesSaturate ==
  /\ Answers("ABS16") =>
       /\ Lo(result) = Nearest(Magnitude(a0), MinLane, MaxLane)
       /\ Hi(result) = Nearest(Magnitude(a1), MinLane, MaxLane)
  /\ Answers("CMAC") =>
       /\ Lo(result) = Nearest(a0 * b0 - a1 * b1, MinLane, MaxLane)
       /\ a0 * b1 + a1 * b0 < WordHalf => Hi(result) = Nearest(a0 * b1 + a1 * b0, MinLane, MaxLane)

(* CLIP16 puts each lane at the nearest value within the limit, whatever its  *)
(* sign, when the limit has an absolute value in 16 bits.                    *)
ClipsToLimit ==
  Answers("CLIP16") /\ b0 # MinLane =>
    /\ Lo(result) = Nearest(a0, -Magnitude(b0), Magnitude(b0))
    /\ Hi(result) = Nearest(a1, -Magnitude(b0), Magnitude(b0))

(* What an instruction answers is the exact result of its operands, or the     *)
(* nearest one that its 32 bits or its lanes hold.                           *)
ResultsNearest == SumsExact /\ LanesSaturate /\ ClipsToLimit

(* SHIFTN rounds to the nearest multiple and away from zero between two, for  *)
(* every shift and every value, the least one included: no sum overflows.    *)
ShiftRoundsToNearest ==
  Answers("SHIFTN") =>
    LET x == Signed(pcpi_rs1, WordHalf)
        unit == 2^(pcpi_rs2 % WordBits)
        error == Magnitude(Value * unit) - Magnitude(x)
    IN /\ Magnitude(x - Value * unit) = Magnitude(error)
       /\ -unit < 2 * error /\ 2 * error <= unit
=============================================================================
