------------------------------- MODULE AudioOps -------------------------------
(***************************************************************************)
(* The functions of picorv32_pcpi_audio (src/picorv32.v): the arithmetic of *)
(* the audio instructions on 32-bit words of two signed 16-bit lanes or     *)
(* four signed 8-bit lanes.  A lane of 8 bits holds -ByteHalf..ByteHalf-1,  *)
(* and the wider fields follow from it, so that a small ByteHalf keeps the  *)
(* proportions of the code, in which ByteHalf is 128.                       *)
(***************************************************************************)
EXTENDS Integers

CONSTANTS ByteHalf,    \* half the number of values of an 8-bit lane
          WordBits     \* the number of bits of a word

LaneHalf == 2 * ByteHalf * ByteHalf
WordHalf == 2 * LaneHalf * LaneHalf
ASSUME WidthAssumption == ByteHalf \in Nat \ {0} /\ WordBits \in Nat /\ 2^WordBits = 2 * WordHalf

(* What the proofs need to know of powers, which arithmetic gives for every   *)
(* width: those of two, and those of the number of values of a byte.         *)
ASSUME PowersAssumption ==
  /\ 2^0 = 1 /\ \A n \in 0..WordBits : 2^n \in Nat /\ 2^(n + 1) = 2 * 2^n
  /\ (2 * ByteHalf)^0 = 1 /\ \A n \in 0..2 : (2 * ByteHalf)^(n + 1) = 2 * ByteHalf * (2 * ByteHalf)^n

Word == 0..(2 * WordHalf - 1)
MinLane == -LaneHalf
MaxLane == LaneHalf - 1

(* The field of a register that keeps x, and the signed value of a field.    *)
Bits(x, half) == x % (2 * half)
Signed(x, half) == IF x < half THEN x ELSE x - 2 * half

Lo(w) == Signed(w % (2 * LaneHalf), LaneHalf)
Hi(w) == Signed(w \div (2 * LaneHalf), LaneHalf)
Byte(w, i) == Signed((w \div (2 * ByteHalf)^i) % (2 * ByteHalf), ByteHalf)
Pack(hi, lo) == Bits(hi, LaneHalf) * 2 * LaneHalf + Bits(lo, LaneHalf)

(* An expression of 32 bits: the signed value the register holds.            *)
Int32(x) == Signed(Bits(x, WordHalf), WordHalf)
(* Negation in 16 bits.                                                      *)
Neg16(x) == Signed(Bits(-x, LaneHalf), LaneHalf)

(* Mutant: the bound of the saturation is off by one. *)
sat16_late(x) == IF x > MaxLane + 1 THEN MaxLane ELSE IF x < MinLane THEN MinLane ELSE x

sat16_from32(x) == IF x > MaxLane THEN MaxLane ELSE IF x < MinLane THEN MinLane ELSE x

mac16(rs1, rs2) == Bits(Lo(rs1) * Lo(rs2) + Hi(rs1) * Hi(rs2), WordHalf)
msub16(rs1, rs2) == Bits(Lo(rs1) * Lo(rs2) - Hi(rs1) * Hi(rs2), WordHalf)

abs16(x) == IF x >= 0 THEN x ELSE IF x = MinLane THEN MaxLane ELSE -x
abs16_lanes(x) == Pack(abs16(Hi(x)), abs16(Lo(x)))

conv4_8bit(rs1, rs2) ==
  Bits(Byte(rs1, 0) * Byte(rs2, 0) + Byte(rs1, 1) * Byte(rs2, 1)
         + Byte(rs1, 2) * Byte(rs2, 2) + Byte(rs1, 3) * Byte(rs2, 3), WordHalf)

cmac_complex(rs1, rs2) ==
  LET realp == Int32(Lo(rs1) * Lo(rs2) - Hi(rs1) * Hi(rs2))
      imagp == Int32(Lo(rs1) * Hi(rs2) + Hi(rs1) * Lo(rs2))
  IN Pack(sat16_from32(imagp), sat16_from32(realp))

abs2_complex(rs1) == Bits(Lo(rs1) * Lo(rs1) + Hi(rs1) * Hi(rs1), WordHalf)

(* A lane against the limit, whose absolute value is taken in 16 bits.       *)
clip16(x, rs2_lo) ==
  LET limit == IF rs2_lo < 0 THEN Neg16(rs2_lo) ELSE rs2_lo
  IN IF x > limit THEN limit ELSE IF x < Neg16(limit) THEN Neg16(limit) ELSE x
clip16_lanes(rs1, rs2) == Pack(clip16(Hi(rs1), Lo(rs2)), clip16(Lo(rs1), Lo(rs2)))

(* Mutant: the biased value is shifted as a signed number. *)
shiftn_signed(rs1, rs2) ==
  LET x == Signed(rs1, WordHalf)
      shamt == rs2 % WordBits
      bias == 2^(shamt - 1)
  IN IF shamt = 0 THEN rs1
     ELSE IF x >= 0 THEN Bits(Int32(x + bias) \div 2^shamt, WordHalf)
     ELSE Bits(-(Int32(-x + bias) \div 2^shamt), WordHalf)

(* The bias is unsigned, which makes the sums and the shifts unsigned.       *)
shiftn_round(rs1, rs2) ==
  LET x == Signed(rs1, WordHalf)
      shamt == rs2 % WordBits
      bias == 2^(shamt - 1)
  IN IF shamt = 0 THEN rs1
     ELSE IF x >= 0 THEN Bits(x + bias, WordHalf) \div 2^shamt
     ELSE Bits(-(Bits(Bits(-x, WordHalf) + bias, WordHalf) \div 2^shamt), WordHalf)

AudioInsns == {"MAC16", "MSUB16", "ABS16", "CONV4", "CONV8", "LMSSTEP", "CMAC", "ABS2", "CLIP16", "SHIFTN"}

(* The result of an instruction, funct7 by funct7.                           *)
AudioResult(insn, rs1, rs2) ==
  CASE insn \in {"MAC16", "LMSSTEP"} -> mac16(rs1, rs2)
    [] insn = "MSUB16" -> msub16(rs1, rs2)
    [] insn = "ABS16" -> abs16_lanes(rs1)
    [] insn \in {"CONV4", "CONV8"} -> conv4_8bit(rs1, rs2)
    [] insn = "CMAC" -> cmac_complex(rs1, rs2)
    [] insn = "ABS2" -> abs2_complex(rs1)
    [] insn = "CLIP16" -> clip16_lanes(rs1, rs2)
    [] insn = "SHIFTN" -> shiftn_round(rs1, rs2)
=============================================================================
