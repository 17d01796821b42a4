------------------------------- MODULE SpiFlash -------------------------------
(***************************************************************************)
(* The SPI flash of src/picosoc/spiflash.v, as the record of its registers   *)
(* and the effect of chip select and of clocks on it, whole bytes at a time  *)
(* where both sides agree on the number of lanes.  A byte of the memory is   *)
(* its own address.  A byte put together from other clocks than the sender's *)
(* is Junk, which is no command.  The simulated chip knows the read commands *)
(* only; the registers for latency and quad reads that the firmware writes   *)
(* are those of the real chips, as src/picosoc/firmware.c uses them.         *)
(***************************************************************************)
EXTENDS Integers

CONSTANT Base             \* the number of values of an address byte, 256 in the code
ASSUME BaseAssumption == Base \in Nat \ {0}

Space == Base * Base * Base
Junk == -1

(* The command bytes AB, FF, 03, BB, EB, ED, and the mode byte A5.           *)
PowerUp == 171
LeaveXip == 255
Read == 3
DualRead == 187
QuadRead == 235
QuadDdrRead == 237
WideReads == {DualRead, QuadRead, QuadDdrRead}
StayInXip == 165
(* WREN and its volatile form, WRAR and the write of status register 2, the  *)
(* address bytes of CR1V and of CR3V.                                        *)
WriteEnables == {6, 80}
WriteAnyRegister == 113
WriteStatus2 == 49
QuadRegister == 2
LatencyRegister == 4

(* The lanes of a mode, in bits per clock.                                   *)
Lanes(cmd) == CASE cmd = DualRead -> 2 [] cmd = QuadRead -> 4 [] cmd = QuadDdrRead -> 8 [] OTHER -> 1

PoweredDown(latencies) ==
  [powered_up |-> FALSE, spi_cmd |-> 0, xip_cmd |-> 0, spi_addr |-> <<0, 0, 0>>, out |-> Junk,
   mode |-> 1, bitcount |-> 0, bytecount |-> 0, dummycount |-> 0,
   latency |-> latencies, write_enabled |-> FALSE, quad |-> FALSE]

Address(f) == f.spi_addr[1] * Base * Base + f.spi_addr[2] * Base + f.spi_addr[3]
Known(f) == \A k \in 1..3 : f.spi_addr[k] \in 0..(Base - 1)
NextAddress(a) == <<a \div (Base * Base), (a \div Base) % Base, a % Base>>

Understood(f, cmd) ==
  f.powered_up /\ f.spi_cmd = cmd /\ (cmd \in {QuadRead, QuadDdrRead} => f.quad)

(* The effects of the byte that completes in task spi_action, in its order:  *)
(* a command, an address byte, the mode byte, the next byte of the memory.   *)
CommandByte(f, byte) ==
  IF f.bytecount # 1 THEN f
  ELSE LET g == [f EXCEPT !.spi_cmd = byte,
                          !.powered_up = @ \/ byte = PowerUp,
                          !.xip_cmd = IF byte = LeaveXip THEN 0 ELSE @,
                          !.write_enabled = @ \/ byte \in WriteEnables]
       IN [g EXCEPT !.mode = IF byte \in WideReads /\ Understood(g, byte) THEN Lanes(byte) ELSE @]

AddressByte(f, byte) ==
  IF f.bytecount \in 2..4 THEN [f EXCEPT !.spi_addr[f.bytecount - 1] = byte] ELSE f

ModeByte(f, byte) ==
  IF f.bytecount = 5 /\ f.spi_cmd \in WideReads /\ Understood(f, f.spi_cmd)
    THEN [f EXCEPT !.xip_cmd = IF byte = StayInXip THEN f.spi_cmd ELSE 0,
                   !.dummycount = f.latency[f.spi_cmd]]
    ELSE f

RegisterByte(f, byte) ==
  IF f.spi_cmd = WriteAnyRegister /\ f.bytecount = 5 /\ f.write_enabled
    THEN IF f.spi_addr[3] = LatencyRegister
           THEN [f EXCEPT !.latency = [c \in WideReads |-> byte], !.write_enabled = FALSE]
           ELSE [f EXCEPT !.quad = (f.spi_addr[3] = QuadRegister), !.write_enabled = FALSE]
  ELSE IF f.spi_cmd = WriteStatus2 /\ f.bytecount = 2 /\ f.write_enabled
    THEN [f EXCEPT !.quad = TRUE, !.write_enabled = FALSE]
  ELSE f

MemoryByte(f) ==
  IF \/ f.spi_cmd = Read /\ Understood(f, Read) /\ f.bytecount >= 4
     \/ f.spi_cmd \in WideReads /\ Understood(f, f.spi_cmd) /\ f.bytecount >= 5
    THEN [f EXCEPT !.out = IF Known(f) THEN Address(f) ELSE Junk,
                   !.spi_addr = IF Known(f) THEN NextAddress((Address(f) + 1) % Space) ELSE @,
                   !.bytecount = 5]
    ELSE [f EXCEPT !.out = Junk]

spi_action(f, byte) ==
  LET started == {[f EXCEPT !.bytecount = @ + 1, !.bitcount = 0]}
      commanded == {CommandByte(g, byte) : g \in started}
      addressed == {AddressByte(g, byte) : g \in commanded}
      moded == {ModeByte(g, byte) : g \in addressed}
      written == {RegisterByte(g, byte) : g \in moded}
  IN CHOOSE h \in {MemoryByte(g) : g \in written} : TRUE

(* Chip select falls: continuous reading starts behind the command.          *)
Selected(f) == IF f.xip_cmd # 0 THEN spi_action(f, f.xip_cmd) ELSE f
(* Chip select rises; the dummy cycles that are left stay.  (So does the      *)
(* address, but it is not used again before its three bytes have come.)      *)
Deselected(f) ==
  [f EXCEPT !.bitcount = 0, !.bytecount = 0, !.mode = 1, !.out = Junk, !.spi_addr = <<0, 0, 0>>]

(* One clock whose bits do not make a byte of the sender's.                  *)
Clock(f) ==
  IF f.dummycount > 0 THEN [f EXCEPT !.dummycount = @ - 1]
  ELSE IF f.bitcount + f.mode >= 8 THEN spi_action(f, Junk)
  ELSE [f EXCEPT !.bitcount = @ + f.mode]
Clocks(f, n) ==
  LET after[k \in 0..n] == IF k = 0 THEN f ELSE CHOOSE h \in {Clock(g) : g \in {after[k - 1]}} : TRUE
  IN after[n]

(* A byte of the sender behind dummy clocks, on the lanes of the sender.     *)
InStep(f, lanes, dummy) == f.bitcount = 0 /\ f.dummycount = dummy /\ f.mode = lanes
Transferred(f, lanes, dummy, byte) ==
  IF InStep(f, lanes, dummy) THEN spi_action([f EXCEPT !.dummycount = 0], byte)
  ELSE Clocks(f, dummy + 8 \div lanes)
(* What the sender reads meanwhile.                                          *)
ReadBack(f, lanes, dummy) == IF InStep(f, lanes, dummy) THEN f.out ELSE Junk
=============================================================================
