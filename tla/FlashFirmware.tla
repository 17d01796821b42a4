----------------------------- MODULE FlashFirmware -----------------------------
(***************************************************************************)
(* The programs of src/picosoc/firmware.c that reach the flash controller,   *)
(* as the sequences of their calls and the writes of each call to the         *)
(* register.  The worker of start.s runs from the RAM: it deselects the flash *)
(* (enter), takes the pins (manual), clocks bytes out and in, and gives the   *)
(* pins back (memio).                                                         *)
(***************************************************************************)
EXTENDS SpiFlash, Sequences

CONSTANTS
  MaxLatency,             \* the latency the benchmark starts from, 8 in the code
  Registers               \* the number of registers that are read, 6 in the code
ASSUME FirmwareAssumption == MaxLatency \in 1..8 /\ Registers \in 1..6

Hx8k == "HX8KDEMO"
Icebreaker == "ICEBREAKER"

Keep == -1
Bits(mode) == CASE mode = "spi" -> {} [] mode = "dual" -> {"ddr"} [] mode = "quad" -> {"qspi"}
                [] mode = "qddr" -> {"ddr", "qspi"}

(* The calls: the register is set, continuous reading is switched on or over, *)
(* or the worker sends a command of data behind wrencmd, if that is not 0.    *)
Set(bits, dummy) == [act |-> "set", bits |-> bits, dummy |-> dummy]
Crm == [act |-> "crm"]
Toggle == [act |-> "toggle"]
Send(data, wrencmd) == [act |-> "flashio", data |-> data, wrencmd |-> wrencmd]

Bytes(s) == [k \in 1..Len(s) |-> [act |-> "byte", byte |-> s[k]]]
Enter == <<[act |-> "enter"], [act |-> "manual"]>>
Memio(cmd) == <<[act |-> "memio", cmd |-> cmd]>>

(* Mutant: the chip select stays low between the two commands. *)
flashio_no_deselect(data, wrencmd) ==
  Enter \o (IF wrencmd = 0 THEN <<>> ELSE Bytes(<<wrencmd>>)) \o Bytes(data) \o Memio(data[1])
(* Mutant: the pins are not given back. *)
flashio_no_memio(data, wrencmd) ==
  Enter \o (IF wrencmd = 0 THEN <<>> ELSE Bytes(<<wrencmd>>) \o <<[act |-> "release"]>>) \o Bytes(data)
(* flashio and its worker; what the flash is meant to understand is noted     *)
(* with the last write.                                                       *)
flashio(data, wrencmd) ==
  Enter \o (IF wrencmd = 0 THEN <<>> ELSE Bytes(<<wrencmd>>) \o <<[act |-> "release"]>>)
    \o Bytes(data) \o Memio(data[1])
Writes(call) == IF call.act = "flashio" THEN flashio(call.data, call.wrencmd) ELSE <<call>>

ReadRegister(reg) == Send(<<101, 128, 0, reg, 0, 0>>, 0)
WriteRegister(reg, value) == Send(<<WriteAnyRegister, 128, 0, reg, value>>, 6)
ReadStatus(cmd) == Send(<<cmd, 0>>, 0)

set_flash_qspi_flag(board) ==
  IF board = Hx8k THEN <<ReadRegister(QuadRegister), WriteRegister(QuadRegister, 2)>>
                  ELSE <<ReadStatus(53), Send(<<WriteStatus2, 2>>, 80)>>
(* The modes are left first: the command that follows is a command again.    *)
set_flash_latency(value) == <<Set({}, value % 16), WriteRegister(LatencyRegister, value)>>
set_flash_mode(board, mode) ==
  <<Set(Bits(mode), IF board = Hx8k THEN Keep ELSE CASE mode = "quad" -> 4 [] mode = "qddr" -> 7 [] OTHER -> 0)>>
enable_flash_crm == <<Crm>>

(* A loop of n turns of three calls each.                                     *)
Loop(n, turns) == [k \in 1..(3 * n) |-> turns[(k + 2) \div 3][((k - 1) % 3) + 1]]

cmd_read_flash_id == <<Send(<<159>> \o [k \in 1..16 |-> 0], 0)>>
cmd_read_flash_regs(board) ==
  IF board = Hx8k
    THEN Loop(Registers, [reg \in 1..Registers |-> Append(set_flash_latency(8), ReadRegister(reg - 1))])
    ELSE <<ReadStatus(5), ReadStatus(53), ReadStatus(21)>>

benchmark_latencies(bits) ==
  Loop(MaxLatency, [k \in 1..MaxLatency |-> Append(set_flash_latency(MaxLatency + 1 - k), Set(bits, Keep))])
benchmark_mode(mode) == benchmark_latencies(Bits(mode)) \o benchmark_latencies(Bits(mode) \cup {"cont"})
cmd_benchmark_all(board) ==
  IF board = Hx8k
    THEN <<Set({}, Keep)>> \o benchmark_mode("dual") \o benchmark_mode("quad") \o benchmark_mode("qddr")
    ELSE set_flash_mode(board, "spi") \o set_flash_mode(board, "dual")
         \o set_flash_mode(board, "quad") \o enable_flash_crm
         \o set_flash_mode(board, "qddr") \o enable_flash_crm

(* What main does at boot and for a key of its menu.                         *)
Boot(board) == set_flash_qspi_flag(board)
Keys == {"1", "2", "3", "4", "5", "6", "7", "0"}
Command(board, key) ==
  CASE key = "1" -> cmd_read_flash_id
    [] key = "2" -> cmd_read_flash_regs(board)
    [] key = "3" -> set_flash_mode(board, "spi")
    [] key = "4" -> set_flash_mode(board, "dual")
    [] key = "5" -> set_flash_mode(board, "quad")
    [] key = "6" -> set_flash_mode(board, "qddr")
    [] key = "7" -> <<Toggle>>
    [] key = "0" -> cmd_benchmark_all(board)
=============================================================================
