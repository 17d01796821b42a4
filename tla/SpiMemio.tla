------------------------------- MODULE SpiMemio -------------------------------
(***************************************************************************)
(* The flash controller src/picosoc/spimemio.v and the flash on its pins,    *)
(* one step per clock edge.  The transfer unit is exact about when it takes  *)
(* and when it hands on a byte; that the byte takes 1 to 16 clocks and some  *)
(* dummy clocks becomes a byte that is on the wires for any number of edges. *)
(***************************************************************************)
EXTENDS SpiFlash, Sequences

VARIABLES
  config,                 \* the configuration register
  softreset, state,
  xfer_resetn,
  din,                    \* the byte offered to the transfer unit
  xfer,                   \* the registers of the transfer unit
  rd_addr, rd_valid, rd_wait, rd_inc, buffer, rdata,
  flash                   \* the flash, external to the chip
memio == <<config, softreset, state, xfer_resetn, din, xfer, rd_addr, rd_valid, rd_wait, rd_inc, buffer, rdata, flash>>

Unread(n) == [k \in 1..n |-> Junk]
Reset(latencies) ==
  /\ config = [en |-> TRUE, ddr |-> FALSE, qspi |-> FALSE, cont |-> FALSE, dummy |-> 8, csb |-> FALSE]
  /\ softreset = TRUE /\ state = 0 /\ xfer_resetn = FALSE
  /\ din = [valid |-> FALSE, data |-> 0, tag |-> 0, lanes |-> 1, rd |-> FALSE]
  /\ xfer = [csb |-> TRUE, busy |-> FALSE, fetch |-> TRUE, last_fetch |-> TRUE, tag |-> 0, tag_q |-> 0,
             lanes |-> 1, ddr_q |-> FALSE, data |-> 0, dummy |-> 0, ibuffer |-> Junk]
  /\ rd_addr = 0 /\ rd_valid = FALSE /\ rd_wait = FALSE /\ rd_inc = FALSE
  /\ buffer = Unread(3) /\ rdata = Unread(4)
  /\ flash = PoweredDown(latencies)

ConfiguredLanes ==
  IF config.qspi THEN IF config.ddr THEN 8 ELSE 4 ELSE IF config.ddr THEN 2 ELSE 1
ReadCommand ==
  CASE ConfiguredLanes = 8 -> QuadDdrRead [] ConfiguredLanes = 4 -> QuadRead
    [] ConfiguredLanes = 2 -> DualRead [] OTHER -> Read

ready(valid, addr) == valid /\ addr = rd_addr /\ rd_valid
jump(valid, addr) == valid /\ ~ready(valid, addr) /\ addr # rd_addr + 4 /\ rd_valid

-----------------------------------------------------------------------------
(* The transfer unit: done is whether the last clock of its byte has come.   *)
next_fetch(done) == ~xfer.busy \/ done
din_ready(done) == din.valid /\ xfer_resetn /\ next_fetch(done)
dout_valid(done) ==
  xfer_resetn /\ IF xfer.ddr_q THEN xfer.fetch /\ ~xfer.last_fetch ELSE next_fetch(done) /\ ~xfer.fetch
ReadByte == ReadBack(flash, xfer.lanes, xfer.dummy)
dout_data == IF xfer.ddr_q THEN xfer.ibuffer ELSE ReadByte

Transfer(done) ==
  IF ~xfer_resetn
    THEN xfer' = [xfer EXCEPT !.csb = TRUE, !.busy = FALSE, !.fetch = TRUE, !.last_fetch = TRUE,
                              !.tag = 0, !.tag_q = xfer.tag, !.lanes = 1, !.ddr_q = xfer.lanes = 8,
                              !.data = 0, !.dummy = 0]
    ELSE xfer' = [csb |-> xfer.csb /\ ~din_ready(done),
                  busy |-> din_ready(done) \/ (xfer.busy /\ ~done),
                  fetch |-> next_fetch(done),
                  last_fetch |-> IF xfer.lanes = 8 THEN xfer.fetch ELSE TRUE,
                  tag |-> IF din_ready(done) THEN din.tag ELSE xfer.tag,
                  tag_q |-> xfer.tag,
                  lanes |-> IF din_ready(done) THEN din.lanes ELSE xfer.lanes,
                  ddr_q |-> xfer.lanes = 8,
                  data |-> IF din_ready(done) THEN din.data ELSE xfer.data,
                  dummy |-> IF din_ready(done) THEN IF din.rd THEN din.data ELSE 0 ELSE xfer.dummy,
                  ibuffer |-> IF xfer.lanes = 8 /\ done THEN ReadByte ELSE Junk]

(* The flash sees the pins of the transfer unit, or in manual mode those of   *)
(* the configuration register.  A byte that is cut short leaves any number of *)
(* its clocks behind.                                                         *)
PinCsb == IF config.en THEN xfer.csb ELSE config.csb
LastClock == xfer.dummy + 8 \div xfer.lanes - 1
Moved(done, clocks) ==
  IF ~(config.en /\ xfer.busy) THEN flash
  ELSE IF done THEN Transferred(flash, xfer.lanes, xfer.dummy, xfer.data)
  ELSE Clocks(flash, clocks)
Pins(moved) ==
  flash' = IF PinCsb /\ ~PinCsb' THEN Selected(moved)
           ELSE IF ~PinCsb /\ PinCsb' THEN Deselected(moved) ELSE moved

-----------------------------------------------------------------------------
(* Mutant: every read asks the flash to stay in continuous reading. *)
Offered_always_stay(addr) ==
  CASE state = 0 -> [din EXCEPT !.data = LeaveXip, !.tag = 0]
    [] state = 2 -> [din EXCEPT !.data = PowerUp, !.tag = 0]
    [] state = 4 -> [din EXCEPT !.data = ReadCommand, !.tag = 0]
    [] state = 5 -> [din EXCEPT !.data = addr \div (Base * Base), !.tag = 0, !.lanes = ConfiguredLanes]
    [] state = 6 -> [din EXCEPT !.data = (addr \div Base) % Base, !.tag = 0]
    [] state = 7 -> [din EXCEPT !.data = addr % Base, !.tag = 0]
    [] state = 8 -> [din EXCEPT !.data = StayInXip, !.tag = 0]
    [] state = 9 -> [din EXCEPT !.tag = 1]
    [] state = 10 -> [din EXCEPT !.data = 0, !.tag = 2]
    [] state = 11 -> [din EXCEPT !.tag = 3]
    [] OTHER -> [din EXCEPT !.tag = 4]
(* The byte a state offers, and the state that follows when it is taken.      *)
Offered(addr) ==
  CASE state = 0 -> [din EXCEPT !.data = LeaveXip, !.tag = 0]
    [] state = 2 -> [din EXCEPT !.data = PowerUp, !.tag = 0]
    [] state = 4 -> [din EXCEPT !.data = ReadCommand, !.tag = 0]
    [] state = 5 -> [din EXCEPT !.data = addr \div (Base * Base), !.tag = 0, !.lanes = ConfiguredLanes]
    [] state = 6 -> [din EXCEPT !.data = (addr \div Base) % Base, !.tag = 0]
    [] state = 7 -> [din EXCEPT !.data = addr % Base, !.tag = 0]
    [] state = 8 -> [din EXCEPT !.data = IF config.cont THEN StayInXip ELSE LeaveXip, !.tag = 0]
    [] state = 9 -> [din EXCEPT !.tag = 1]
    [] state = 10 -> [din EXCEPT !.data = 0, !.tag = 2]
    [] state = 11 -> [din EXCEPT !.tag = 3]
    [] OTHER -> [din EXCEPT !.tag = 4]
Taken(offer) ==
  CASE state = 7 -> [offer EXCEPT !.valid = FALSE, !.data = 0]
    [] state = 8 -> [offer EXCEPT !.valid = FALSE, !.data = config.dummy, !.rd = TRUE]
    [] OTHER -> [offer EXCEPT !.valid = FALSE]
After == CASE state = 7 /\ ConfiguredLanes = 1 -> 9 [] state = 12 -> 9 [] OTHER -> state + 1
Waits(valid, addr) ==
  CASE state = 5 -> ~(valid /\ ~ready(valid, addr)) [] state = 12 -> rd_wait /\ ~valid [] OTHER -> FALSE

(* Mutant: the transfer goes on when the core jumps. *)
Sequence_no_abort(valid, addr, done) ==
  LET jumps == jump(valid, addr)
      offer == [Offered(addr) EXCEPT !.valid = TRUE]
      ends == state \in {1, 3} /\ dout_valid(done)
      next == IF state \in {1, 3} THEN [din EXCEPT !.valid = FALSE]
              ELSE IF Waits(valid, addr) THEN [din EXCEPT !.valid = FALSE]
              ELSE IF din_ready(done) THEN Taken(offer) ELSE offer
  IN /\ xfer_resetn' = ~ends
     /\ din' = IF jumps THEN [next EXCEPT !.rd = FALSE, !.lanes = IF config.cont THEN @ ELSE 1] ELSE next
     /\ state' = IF jumps THEN IF config.cont THEN 5 ELSE 4
                 ELSE IF state \in {1, 3} THEN IF ends THEN state + 1 ELSE state
                 ELSE IF ~Waits(valid, addr) /\ din_ready(done) THEN After ELSE state

Sequence(valid, addr, done) ==
  LET jumps == jump(valid, addr)
      offer == [Offered(addr) EXCEPT !.valid = TRUE]
      ends == state \in {1, 3} /\ dout_valid(done)
      next == IF state \in {1, 3} THEN [din EXCEPT !.valid = FALSE]
              ELSE IF Waits(valid, addr) THEN [din EXCEPT !.valid = FALSE]
              ELSE IF din_ready(done) THEN Taken(offer) ELSE offer
  IN /\ xfer_resetn' = (~ends /\ ~jumps)
     /\ din' = IF jumps THEN [next EXCEPT !.rd = FALSE, !.lanes = IF config.cont THEN @ ELSE 1] ELSE next
     /\ state' = IF jumps THEN IF config.cont THEN 5 ELSE 4
                 ELSE IF state \in {1, 3} THEN IF ends THEN state + 1 ELSE state
                 ELSE IF ~Waits(valid, addr) /\ din_ready(done) THEN After ELSE state

(* The word that arrives, and what is known of the words read so far.         *)
Words(valid, addr, done) ==
  LET arrives(tag) == dout_valid(done) /\ xfer.tag_q = tag
      jumps == jump(valid, addr)
  IN /\ buffer' = [k \in 1..3 |-> IF arrives(k) THEN dout_data ELSE buffer[k]]
     /\ rdata' = IF arrives(4) THEN Append(buffer, dout_data) ELSE rdata
     /\ rd_addr' = IF ~arrives(4) THEN rd_addr ELSE IF rd_inc THEN (rd_addr + 4) % Space ELSE addr
     /\ rd_valid' = ((rd_valid \/ arrives(4)) /\ ~jumps)
     /\ rd_wait' = (~valid /\ IF arrives(4) THEN rd_inc ELSE rd_wait)
     /\ rd_inc' = ((rd_inc \/ arrives(4)) /\ state # 4 /\ ~jumps)

(* The controller while it is held in reset by a write of its register.  The  *)
(* data registers keep words that rd_valid no longer vouches for; they are    *)
(* forgotten here, so that a use of them would show.                          *)
Held ==
  /\ state' = 0 /\ xfer_resetn' = FALSE /\ rd_valid' = FALSE
  /\ din' = [valid |-> FALSE, data |-> 0, tag |-> 0, lanes |-> 1, rd |-> FALSE]
  /\ buffer' = Unread(3) /\ rdata' = Unread(4)
  /\ UNCHANGED <<rd_addr, rd_wait, rd_inc>>

(* One clock edge; we is whether the register is written, with the value new. *)
Edge(valid, addr, we, new, done) ==
  /\ done => xfer.busy /\ ~xfer.fetch
  /\ config' = IF we THEN new ELSE config
  /\ softreset' = (~config.en \/ we)
  /\ IF softreset THEN Held ELSE Sequence(valid, addr, done) /\ Words(valid, addr, done)
  /\ Transfer(done)
  /\ \E clocks \in IF xfer.busy /\ ~(xfer_resetn /\ config'.en) THEN 0..LastClock ELSE {0} :
       \E moved \in {Moved(done, clocks)} : Pins(moved)
=============================================================================
