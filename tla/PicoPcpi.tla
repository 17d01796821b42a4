------------------------------- MODULE PicoPcpi -------------------------------
(***************************************************************************)
(* The internal co-processors of src/picorv32.v on one interface: the       *)
(* sequential or the fast multiplier, the divider and the audio unit, the    *)
(* multiplexer of their answers, and the part of the core that offers an     *)
(* instruction, takes the answer and gives an instruction up that nobody     *)
(* claims.  One step is one rising clock edge.                              *)
(*                                                                         *)
(* The core of module PicoCore sees these units as any co-processor that    *)
(* drives the interface only while it is asked.                             *)
(***************************************************************************)
EXTENDS PcpiMul, PcpiDiv, PcpiFastMul

CONSTANTS
  Multipliers,         \* the multipliers a core is built with
  ByteHalf,            \* half the values of an 8-bit lane of the audio unit
  Programs,            \* a record of programs: each with the instructions it offers
                       \* (insns), their pairs of operands (operands), a bound on its
                       \* offers (length) and what reg_op1 and reg_op2 may hold
                       \* between two of them (idle)
  PcpiTimeout          \* the initial pcpi_timeout_counter: 15 where XLEN is 32

(* The sequential unit (ENABLE_MUL) or a fast one (ENABLE_FAST_MUL).          *)
Sequential == [fast |-> FALSE]
Fast(ffs, gated) == [fast |-> TRUE, ffs |-> ffs, gated |-> gated]
ASSUME MultipliersAssumption ==
  Multipliers \subseteq {Sequential, Fast(FALSE, FALSE), Fast(TRUE, FALSE), Fast(TRUE, TRUE)}

ASSUME ProgramsAssumption ==
  \A p \in DOMAIN Programs :
    /\ Programs[p].operands \subseteq Word \X Word
    /\ Programs[p].idle \subseteq Word
    /\ Programs[p].length \in Nat

(* The slowest unit that never claims its instruction, the fast multiplier    *)
(* with its additional registers, answers four cycles after the offer.       *)
ASSUME TimeoutAssumption == PcpiTimeout \in Nat /\ PcpiTimeout >= 4

Audio == INSTANCE AudioOps WITH WordBits <- XLEN

(* The fewest cycles between an answer and the next offer: the result is      *)
(* written in the fetch state while the next instruction starts, and it is   *)
(* offered after its first cycle in ld_rs1.                                  *)
Pause == 2
(* A reset lasts as many cycles as the multiplier takes to forget an offer.   *)
MinReset == 2

VARIABLES
  multiplier,          \* the one the core has
  program,             \* the name of the one that runs
  pcpi_timeout_counter, pcpi_timeout,
  pause, hold,         \* cycles until an offer and the end of a reset are possible
  offers               \* the number of offers made so far
coreVars == <<multiplier, program, pcpi_timeout_counter, pcpi_timeout, pause, hold, offers>>
vars == <<portVars, mulVars, fastVars, divVars, coreVars>>

-----------------------------------------------------------------------------
(* The wires: the audio unit is combinational, the answers are merged.       *)
audio_ready == resetn /\ pcpi_valid /\ pcpi_insn \in Audio!AudioInsns
audio_rd == IF audio_ready THEN Audio!AudioResult(pcpi_insn, pcpi_rs1, pcpi_rs2) ELSE 0

pcpi_mul_ready == IF multiplier.fast THEN fast_ready(multiplier.ffs) ELSE mul_ready
pcpi_mul_rd == IF multiplier.fast THEN fast_result(multiplier.ffs) ELSE mul_rd

pcpi_int_wait == mul_wait \/ div_wait     \* the fast multiplier never claims an offer
pcpi_int_ready == pcpi_mul_ready \/ div_ready \/ audio_ready
pcpi_int_rd == IF pcpi_mul_ready THEN pcpi_mul_rd ELSE IF div_ready THEN div_rd ELSE audio_rd

(* Mutant: the multiplier does not hold the time-out off. *)
TimerIgnoresMul ==
  /\ pcpi_timeout_counter' = IF resetn /\ pcpi_valid /\ ~div_wait
                             THEN (IF pcpi_timeout_counter > 0 THEN pcpi_timeout_counter - 1 ELSE 0)
                             ELSE PcpiTimeout
  /\ pcpi_timeout' = (resetn /\ pcpi_timeout_counter = 0)

(* Mutant: the time-out runs while a unit works, not while none does. *)
TimerInverted ==
  /\ pcpi_timeout_counter' = IF resetn /\ pcpi_valid /\ pcpi_int_wait
                             THEN (IF pcpi_timeout_counter > 0 THEN pcpi_timeout_counter - 1 ELSE 0)
                             ELSE PcpiTimeout
  /\ pcpi_timeout' = (resetn /\ pcpi_timeout_counter = 0)

Timer ==
  /\ pcpi_timeout_counter' = IF resetn /\ pcpi_valid /\ ~pcpi_int_wait
                             THEN (IF pcpi_timeout_counter > 0 THEN pcpi_timeout_counter - 1 ELSE 0)
                             ELSE PcpiTimeout
  /\ pcpi_timeout' = (resetn /\ pcpi_timeout_counter = 0)

Running == Programs[program]
Idling == \E o \in Running.idle : pcpi_rs1' = o /\ pcpi_rs2' = o

Offer ==
  /\ resetn /\ ~pcpi_valid /\ pause = 0 /\ offers < Running.length
  /\ pcpi_valid' = TRUE
  /\ pcpi_insn' \in Running.insns
  /\ \E pair \in Running.operands : pcpi_rs1' = pair[1] /\ pcpi_rs2' = pair[2]
  /\ offers' = offers + 1
  /\ UNCHANGED pause
Wait ==
  /\ resetn /\ pcpi_valid /\ ~pcpi_int_ready /\ ~pcpi_timeout
  /\ UNCHANGED <<pcpi_valid, pcpi_insn, pcpi_rs1, pcpi_rs2, pause, offers>>
Take ==
  /\ resetn /\ pcpi_valid /\ (pcpi_int_ready \/ pcpi_timeout)
  /\ pcpi_valid' = FALSE /\ pause' = Pause
  /\ Idling /\ UNCHANGED <<pcpi_insn, offers>>
Compute ==
  /\ resetn /\ ~pcpi_valid
  /\ pause' = IF pause > 0 THEN pause - 1 ELSE 0
  /\ Idling /\ UNCHANGED <<pcpi_valid, pcpi_insn, offers>>
Reset ==
  /\ ~resetn
  /\ pcpi_valid' = FALSE /\ pause' = Pause
  /\ Idling /\ UNCHANGED <<pcpi_insn, offers>>

ResetLine ==
  /\ resetn' \in IF hold > 0 THEN {FALSE} ELSE BOOLEAN
  /\ hold' = IF resetn /\ ~resetn' THEN MinReset - 1 ELSE IF hold > 0 THEN hold - 1 ELSE 0

MultiplierClock ==
  IF multiplier.fast THEN FastClock(multiplier.ffs, multiplier.gated) /\ UNCHANGED mulVars
  ELSE MulClock /\ UNCHANGED fastVars

Clock ==
  /\ Offer \/ Wait \/ Take \/ Compute \/ Reset
  /\ ResetLine /\ Timer /\ MultiplierClock /\ DivClock /\ UNCHANGED <<multiplier, program>>

Init ==
  /\ multiplier \in Multipliers /\ program \in DOMAIN Programs
  /\ resetn = FALSE /\ hold = 0
  /\ pcpi_valid = FALSE /\ pcpi_insn = "other" /\ pcpi_rs1 = 0 /\ pcpi_rs2 = 0
  /\ pcpi_timeout_counter = PcpiTimeout /\ pcpi_timeout = FALSE
  /\ pause = Pause /\ offers = 0
  /\ MulInit /\ FastInit /\ DivInit

Next == Clock
Spec == Init /\ [][Next]_vars

(* The clock runs, whether or not it is ever reset again.                     *)
FairSpec == Spec /\ WF_vars(Clock /\ (resetn => resetn'))

-----------------------------------------------------------------------------
(* What the instruction set says of the M extension: products, quotients      *)
(* rounded to zero, and what division by zero and overflow give.             *)
Magnitude(x) == IF x < 0 THEN -x ELSE x
Truncated(x, y) == IF (x < 0) # (y < 0) THEN -(Magnitude(x) \div Magnitude(y))
                   ELSE Magnitude(x) \div Magnitude(y)
Reference(insn, a, b) ==
  LET sa == SignedOf(a)
      sb == SignedOf(b)
  IN CASE insn = "MUL" -> Low(a * b)
       [] insn = "MULH" -> Low((sa * sb) \div 2^XLEN)
       [] insn = "MULHSU" -> Low((sa * b) \div 2^XLEN)
       [] insn = "MULHU" -> (a * b) \div 2^XLEN
       [] insn = "DIV" -> IF b = 0 THEN 2^XLEN - 1 ELSE Low(Truncated(sa, sb))
       [] insn = "DIVU" -> IF b = 0 THEN 2^XLEN - 1 ELSE a \div b
       [] insn = "REM" -> IF b = 0 THEN a ELSE Low(sa - sb * Truncated(sa, sb))
       [] insn = "REMU" -> IF b = 0 THEN a ELSE a % b
       [] OTHER -> Audio!AudioResult(insn, a, b)
Known == MulInsns \cup DivInsns \cup Audio!AudioInsns

(* An answer belongs to the instruction that is offered, and is its result:   *)
(* no unit answers late, twice, for an instruction of before a reset, or with *)
(* operands other than the offered ones.  The multiplexer is a parallel_case  *)
(* (355), so two units must never answer at once.                            *)
OneUnitAnswers == ~(pcpi_mul_ready /\ div_ready) /\ ~(audio_ready /\ (pcpi_mul_ready \/ div_ready))
AnswersOffer ==
  pcpi_int_ready /\ resetn =>
    /\ OneUnitAnswers
    /\ pcpi_valid /\ pcpi_insn \in Known /\ pcpi_int_rd = Reference(pcpi_insn, pcpi_rs1, pcpi_rs2)

(* A unit claims its instruction before the core gives it up.                 *)
NeverGivenUp == pcpi_valid /\ pcpi_timeout => pcpi_insn \notin Known

(* The multiplier's loop: sum, carries and what is left to multiply make up   *)
(* the product, and carries sit only at the starts of chains.                *)
MulLoop ==
  ~mul_waiting /\ pcpi_valid =>
    /\ Double(rd + rdx + mul_rs1 * mul_rs2)
         = Double(Extend(pcpi_rs1, instr_rs1_signed) * Extend(pcpi_rs2, instr_rs2_signed))
    /\ \A k \in Chains : Chain(rdx, k) \in {0, 1}

(* The divider's loop: quotient and rest make up the dividend, the quotient   *)
(* has no bit yet at or below the one being decided, and the rest is below    *)
(* the divisor of the bit before.                                            *)
DivLoop ==
  running /\ pcpi_valid /\ resetn /\ ~div_start =>
    LET b == Absolute(pcpi_rs2) IN
    /\ Absolute(pcpi_rs1) = quotient * b + dividend
    /\ quotient_msk > 0 => /\ divisor = b * quotient_msk
                           /\ quotient % (2 * quotient_msk) = 0
    /\ b > 0 => dividend < (IF quotient_msk > 0 THEN 2 * divisor ELSE b)

(* Both loops keep what they work towards, in every cycle.                    *)
LoopsKeepResult == MulLoop /\ DivLoop

(* Every instruction offered is answered or given up.                         *)
Completes == pcpi_valid ~> ~pcpi_valid
=============================================================================
