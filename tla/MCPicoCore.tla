----------------------------- MODULE MCPicoCore -----------------------------
(* Instances of PicoCore for TLC: three instruction words, of which the last *)
(* is the interrupt vector.                                                  *)
EXTENDS PicoCore

MCIrqVector == 4

(* The programs of the runs: co-processor instructions between slow ones;     *)
(* handlers and the code they interrupt; code that waits for memory,          *)
(* co-processors and interrupts.                                             *)
PcpiOps == {"jalr", "branch", "load", "store", "shift", "pcpi", "ecall", "setq", "retirq", "maskirq"}
IrqHandlerOps == {"alu", "jal", "load", "retirq", "maskirq", "waitirq", "timer"}
LiveOps == {"alu", "op", "shifti", "csr", "jal", "branch", "load", "store", "waitirq", "maskirq", "retirq", "pcpi", "ecall"}

OneWord == {4}
Halfword == {3}

NoInputs == {{}}
TimerInput == {{}, {0}}
ExternInput == {{}, {3}}

AnyDrive == {<<FALSE, FALSE>>, <<TRUE, FALSE>>, <<FALSE, TRUE>>, <<TRUE, TRUE>>}
Silent == {<<FALSE, FALSE>>}
=============================================================================
