------------------------------- MODULE PcpiDiv --------------------------------
(***************************************************************************)
(* The divider picorv32_pcpi_div of src/picorv32.v: restoring division of   *)
(* the absolute values, one bit of the quotient a cycle.                    *)
(***************************************************************************)
EXTENDS PcpiPort

VARIABLES
  div_insn,                  \* which of instr_div .. instr_remu is set
  div_wait, div_wait_q,      \* pcpi_wait, pcpi_wait_q
  dividend, divisor, quotient, quotient_msk, running, outsign,
  div_ready, div_rd          \* pcpi_ready and pcpi_wr, pcpi_rd
divVars == <<div_insn, div_wait, div_wait_q, dividend, divisor, quotient, quotient_msk,
             running, outsign, div_ready, div_rd>>

div_start == div_wait /\ ~div_wait_q

(* The absolute value of an operand of a signed instruction; the least one,   *)
(* negated in XLEN bits, is its own absolute value.                          *)
Absolute(w) == IF div_insn \in {"DIV", "REM"} /\ Negative(w) THEN Low(-w) ELSE w

negates ==
  \/ div_insn = "DIV" /\ Negative(pcpi_rs1) # Negative(pcpi_rs2) /\ pcpi_rs2 # 0
  \/ div_insn = "REM" /\ Negative(pcpi_rs1)

DivDecode ==
  div_insn' = IF resetn /\ pcpi_valid /\ ~div_ready /\ pcpi_insn \in DivInsns THEN pcpi_insn ELSE "none"

DivLoad ==
  /\ resetn /\ div_start
  /\ running' = TRUE
  /\ dividend' = Absolute(pcpi_rs1)
  /\ divisor' = Absolute(pcpi_rs2) * 2^(XLEN - 1)
  /\ outsign' = negates
  /\ quotient' = 0 /\ quotient_msk' = 2^(XLEN - 1)
  /\ div_ready' = FALSE /\ div_rd' = 0

DivFinish ==
  LET magnitude == IF div_insn \in {"DIV", "DIVU"} THEN quotient ELSE dividend IN
  /\ resetn /\ ~div_start /\ running /\ quotient_msk = 0
  /\ running' = FALSE
  /\ div_ready' = TRUE
  /\ div_rd' = IF outsign THEN Low(-magnitude) ELSE magnitude
  /\ UNCHANGED <<dividend, divisor, quotient, quotient_msk, outsign>>

(* Mutant: a divisor equal to the rest is not subtracted. *)
DivStepStrict ==
  /\ resetn /\ ~div_start /\ ~(running /\ quotient_msk = 0)
  /\ IF divisor < dividend
     THEN dividend' = dividend - divisor
          /\ quotient' = IF quotient_msk = 0 THEN quotient ELSE quotient + quotient_msk
     ELSE UNCHANGED <<dividend, quotient>>
  /\ divisor' = divisor \div 2
  /\ quotient_msk' = quotient_msk \div 2
  /\ div_ready' = FALSE /\ div_rd' = 0
  /\ UNCHANGED <<running, outsign>>

(* One bit; also when the unit does not run, on what is left in the registers. *)
DivStep ==
  /\ resetn /\ ~div_start /\ ~(running /\ quotient_msk = 0)
  /\ IF divisor <= dividend
     THEN /\ dividend' = dividend - divisor
          /\ quotient' = IF quotient_msk # 0 /\ (quotient \div quotient_msk) % 2 = 0
                         THEN quotient + quotient_msk ELSE quotient
     ELSE UNCHANGED <<dividend, quotient>>
  /\ divisor' = divisor \div 2
  /\ quotient_msk' = quotient_msk \div 2
  /\ div_ready' = FALSE /\ div_rd' = 0
  /\ UNCHANGED <<running, outsign>>

DivReset ==
  /\ ~resetn
  /\ running' = FALSE /\ div_ready' = FALSE /\ div_rd' = 0
  /\ UNCHANGED <<dividend, divisor, quotient, quotient_msk, outsign>>

DivClock ==
  /\ DivDecode
  /\ div_wait' = (div_insn # "none" /\ resetn) /\ div_wait_q' = (div_wait /\ resetn)
  /\ DivLoad \/ DivFinish \/ DivStep \/ DivReset

DivInit ==
  /\ div_insn = "none" /\ div_wait = FALSE /\ div_wait_q = FALSE
  /\ dividend = 0 /\ divisor = 0 /\ quotient = 0 /\ quotient_msk = 0
  /\ running = FALSE /\ outsign = FALSE /\ div_ready = FALSE /\ div_rd = 0
=============================================================================
