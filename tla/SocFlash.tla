------------------------------- MODULE SocFlash -------------------------------
(***************************************************************************)
(* The memory bus of src/picosoc/picosoc.v between the core, the RAM and the *)
(* flash controller, one step per clock edge, while the core runs the        *)
(* firmware from the flash.  What the firmware computes is left out: between  *)
(* its writes to the controller's register it fetches words of the flash in  *)
(* any order, and uses the RAM.                                              *)
(***************************************************************************)
EXTENDS SpiMemio, FlashFirmware

CONSTANTS
  Boards,                 \* the boards the firmware is built for
  Words4,                 \* the addresses of the words the core fetches
  UsedKeys                \* the keys that are typed
ASSUME SocAssumption ==
  /\ Boards \subseteq {Hx8k, Icebreaker}
  /\ Words4 \subseteq 0..(Space - 1) /\ \A a \in Words4 : a % 4 = 0
  /\ UsedKeys \subseteq Keys

VARIABLES
  board,
  req,                    \* mem_valid with what mem_addr selects, and mem_addr
  ram_ready,
  calls, step,            \* the calls that are left of a command, the write the first is at
  fetched,                \* whether a word was fetched since the last write
  lost                    \* history: see Losing
program == <<calls, step, fetched>>
vars == <<memio, board, req, ram_ready, program, lost>>

latency(b) == IF b = Hx8k THEN [c \in WideReads |-> 8]
              ELSE [c \in WideReads |-> CASE c = DualRead -> 0 [] c = QuadRead -> 4 [] OTHER -> 7]

Init ==
  /\ board \in Boards
  /\ Reset(latency(board))
  /\ req = [kind |-> "none", addr |-> 0] /\ ram_ready = FALSE
  /\ calls = Boot(board) /\ step = 1 /\ fetched = FALSE /\ lost = FALSE

-----------------------------------------------------------------------------
spimem_valid == req.kind = "flash"
spimem_ready == ready(spimem_valid, req.addr)
cfgreg_sel == req.kind = "config"
mem_ready == spimem_ready \/ ram_ready \/ cfgreg_sel

(* Mutant: the request that is being answered is taken once more. *)
RamEdge_again == ram_ready' = (req.kind = "ram")
RamEdge == ram_ready' = (req.kind = "ram" /\ ~mem_ready)

(* The register after a write; its pin bits are those of an earlier read.    *)
Written(op) ==
  CASE op.act = "set" ->
         [en |-> TRUE, ddr |-> "ddr" \in op.bits, qspi |-> "qspi" \in op.bits, cont |-> "cont" \in op.bits,
          dummy |-> IF op.dummy = Keep THEN config.dummy ELSE op.dummy, csb |-> FALSE]
    [] op.act = "crm" -> [config EXCEPT !.cont = TRUE, !.csb = FALSE]
    [] op.act = "toggle" -> [config EXCEPT !.cont = ~@, !.csb = FALSE]
    [] op.act \in {"enter", "release"} -> [config EXCEPT !.csb = TRUE]
    [] op.act = "manual" -> [config EXCEPT !.en = FALSE]
    [] op.act = "byte" -> [config EXCEPT !.csb = FALSE]
    [] op.act = "memio" -> [config EXCEPT !.en = TRUE]

Op == Writes(Head(calls))[step]
InWorker == calls # <<>> /\ Op.act \in {"manual", "byte", "release", "memio"}

(* The core asks for a word of the flash, for the RAM, for the register; or   *)
(* it takes up the next command.                                              *)
Fetch(a) == ~InWorker /\ req' = [kind |-> "flash", addr |-> a] /\ UNCHANGED program
UseRam == req' = [req EXCEPT !.kind = "ram"] /\ UNCHANGED program
WriteConfig ==
  /\ calls # <<>> /\ (InWorker \/ fetched)
  /\ req' = [req EXCEPT !.kind = "config"]
  /\ UNCHANGED program
Key(key) ==
  /\ calls = <<>> /\ fetched
  /\ calls' = Command(board, key)
  /\ UNCHANGED <<req, step, fetched>>
Finish ==
  /\ req' = [req EXCEPT !.kind = "none"]
  /\ IF ~cfgreg_sel THEN UNCHANGED <<calls, step>>
     ELSE IF step < Len(Writes(Head(calls))) THEN step' = step + 1 /\ calls' = calls
     ELSE step' = 1 /\ calls' = Tail(calls)
  /\ fetched' = (IF cfgreg_sel THEN FALSE ELSE fetched \/ spimem_valid)

(* The second word of an instruction that is not aligned is asked for at      *)
(* once: mem_valid stays high.                                                *)
FinishOn ==
  /\ \/ spimem_ready /\ req.addr + 4 \in Words4 /\ req' = [req EXCEPT !.addr = @ + 4]
     \/ ram_ready /\ req' = req
  /\ fetched' = (fetched \/ spimem_valid)
  /\ UNCHANGED <<calls, step>>

Core ==
  \/ req.kind = "none" /\ ((\E a \in Words4 : Fetch(a)) \/ UseRam \/ WriteConfig \/ \E key \in UsedKeys : Key(key))
  \/ mem_ready /\ (Finish \/ FinishOn)
  \/ ~mem_ready /\ UNCHANGED <<req, program>>

(* The bit-banged byte of the worker: its eight bits and its reads.           *)
BitBang ==
  LET f == IF PinCsb THEN Selected(flash) ELSE flash
  IN flash' = Transferred(f, 1, 0, Op.byte)

(* What loses the flash to its controller: continuous reading on one lane,    *)
(* which the table of modes in picosoc/README.md does not have, and its end   *)
(* on two lanes, which the flash does not understand.                         *)
Losing == (config'.cont /\ ~config'.qspi /\ ~config'.ddr) \/ (cfgreg_sel /\ config.cont /\ ~config.qspi)

ClockEdge(done) ==
  /\ board' = board
  /\ IF cfgreg_sel /\ Op.act = "byte"
       THEN /\ BitBang
            /\ config' = Written(Op) /\ softreset' = TRUE /\ Held
            /\ Transfer(done)
       ELSE Edge(spimem_valid, req.addr, cfgreg_sel, IF cfgreg_sel THEN Written(Op) ELSE config, done)
  /\ RamEdge
  /\ Core
  /\ lost' = (lost \/ Losing)

ByteMayEnd == xfer.busy /\ ~xfer.fetch
Next == ClockEdge(FALSE) \/ (ByteMayEnd /\ ClockEdge(TRUE))
(* The clock runs, and a byte on the wires ends after at most 31 clocks.      *)
Progress == ClockEdge(ByteMayEnd)
Spec == Init /\ [][Next]_vars /\ WF_vars(Progress)

-----------------------------------------------------------------------------
(* A word the core is given is the word of the flash at the address it asked  *)
(* for, in every mode, whatever the controller read ahead.                    *)
FetchesRight == spimem_ready => rdata = [k \in 1..4 |-> (req.addr + k - 1) % Space]

(* The same while the flash is not lost to its controller: in all valid modes *)
(* and from each to each, but for the end of continuous reading on two lanes. *)
FetchesRightUntilLost == ~lost => FetchesRight

(* What the worker of flashio sends is taken by the flash as the command it   *)
(* is, unless the firmware left continuous reading on, or the flash is lost.  *)
CommandReachesFlash ==
  [][calls # <<>> /\ Op.act = "memio" /\ <<calls, step>>' # <<calls, step>> /\ ~config.cont /\ ~lost
       => flash.spi_cmd = Op.cmd]_vars

(* When the controller is about to begin a read the flash expects what it     *)
(* sends: a command or, in continuous reading, an address.  No dummy cycles   *)
(* are left of a read that was cut short: they would eat the byte.            *)
FlashExpectsNextByte ==
  (~lost /\ ~softreset /\ xfer.csb /\ state \in {4, 5}) =>
    /\ flash.powered_up /\ flash.dummycount = 0
    /\ flash.xip_cmd = IF state = 5 THEN ReadCommand ELSE 0

(* A slave answers only the request that is made of it: not the one before,   *)
(* though the RAM answers a cycle late.                                       *)
OneSlaveAnswers ==
  /\ ram_ready => req.kind = "ram"
  /\ spimem_ready => req.kind = "flash"

(* A word that is asked for comes.                                            *)
EveryFetchAnswered == spimem_valid ~> spimem_ready
=============================================================================
