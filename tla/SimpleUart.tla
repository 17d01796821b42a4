------------------------------ MODULE SimpleUart ------------------------------
(***************************************************************************)
(* The UART of src/picosoc/simpleuart.v: the transmitter behind the bus of    *)
(* src/picosoc/picosoc.v, and the receiver of another one at the far end of   *)
(* its line, whose divider is set once.  One step is one clock edge.         *)
(***************************************************************************)
EXTENDS Integers

CONSTANTS
  Divs,            \* the values software writes to the divider register
  DEFAULT_DIV,
  FarDiv,          \* the divider of the far end
  Bytes,           \* the bytes software sends
  MaxCount         \* bound: an idle divider counter, which is never read, stops here

(* A divider of 0 is left out: the receiver then samples a bit too late.      *)
ASSUME DivAssumption == MaxCount \in Nat /\ Divs \cup {DEFAULT_DIV, FarDiv} \subseteq 1..(MaxCount - 1)
ASSUME ByteAssumption == Bytes \subseteq 0..255

VARIABLES
  resetn, access,                                        \* reset and the bus
  cfg_divider,
  send_pattern, send_bitcnt, send_divcnt, send_dummy,
  recv_state, recv_divcnt, recv_pattern, recv_buf_data, recv_buf_valid,
  flight                                                 \* history: what is on the line
busVars == <<resetn, access>>
sendVars == <<send_pattern, send_bitcnt, send_divcnt, send_dummy>>
recvVars == <<recv_state, recv_divcnt, recv_pattern, recv_buf_data, recv_buf_valid>>
uartVars == <<busVars, cfg_divider, sendVars, recvVars, flight>>

-----------------------------------------------------------------------------
(* A write of the core to one of the two registers, and when it is ready; a    *)
(* reset withdraws it.  Software sets the divider before it sends, as         *)
(* src/picosoc/firmware.c does (669).                                        *)
NoAccess == [reg |-> "none", data |-> 0]
Accesses == [reg : {"div"}, data : Divs] \cup
            (IF cfg_divider \in Divs THEN [reg : {"send"}, data : Bytes] ELSE {})
reg_div_we == access.reg = "div"
reg_dat_we == access.reg = "send"
reg_dat_wait == reg_dat_we /\ (send_bitcnt # 0 \/ send_dummy)

Bus ==
  /\ resetn' \in BOOLEAN
  /\ \/ ~resetn /\ access' = NoAccess
     \/ resetn /\ access = NoAccess /\ access' \in Accesses \cup {NoAccess}
     \/ resetn /\ access # NoAccess /\ access' = IF reg_dat_wait THEN access ELSE NoAccess

Divider == cfg_divider' = IF ~resetn THEN DEFAULT_DIV ELSE IF reg_div_we THEN access.data ELSE cfg_divider

Count(n) == IF n < MaxCount THEN n + 1 ELSE n

-----------------------------------------------------------------------------
(* The transmitter.  A write to the divider asks for an idle frame.           *)
ser_tx == send_pattern % 2
dummy_asked == send_dummy \/ reg_div_we
accepts == resetn /\ reg_dat_we /\ send_bitcnt = 0 /\ ~send_dummy
bit_sent == send_bitcnt # 0 /\ send_divcnt > cfg_divider

SendReset ==
  /\ ~resetn
  /\ send_pattern' = 1023 /\ send_bitcnt' = 0 /\ send_divcnt' = 0 /\ send_dummy' = TRUE

(* Mutant: the idle frame is as short as a few bits. *)
SendDummyShort ==
  /\ resetn /\ send_dummy /\ send_bitcnt = 0
  /\ send_pattern' = 1023 /\ send_bitcnt' = 3 /\ send_divcnt' = 0 /\ send_dummy' = FALSE

(* Mutant: the idle frame asks for another one. *)
SendDummyAgain ==
  /\ resetn /\ send_dummy /\ send_bitcnt = 0
  /\ send_pattern' = 1023 /\ send_bitcnt' = 15 /\ send_divcnt' = 0 /\ UNCHANGED send_dummy

SendDummy ==
  /\ resetn /\ send_dummy /\ send_bitcnt = 0
  /\ send_pattern' = 1023 /\ send_bitcnt' = 15 /\ send_divcnt' = 0 /\ send_dummy' = FALSE
SendByte ==
  /\ accepts
  /\ send_pattern' = 512 + 2 * access.data /\ send_bitcnt' = 10 /\ send_divcnt' = 0
  /\ UNCHANGED send_dummy
SendBit ==
  /\ resetn /\ bit_sent
  /\ send_pattern' = 512 + send_pattern \div 2
  /\ send_bitcnt' = send_bitcnt - 1 /\ send_divcnt' = 0 /\ send_dummy' = dummy_asked
SendHold ==
  /\ resetn /\ ~bit_sent /\ ~accepts /\ ~(send_dummy /\ send_bitcnt = 0)
  /\ send_divcnt' = Count(send_divcnt) /\ send_dummy' = dummy_asked
  /\ UNCHANGED <<send_pattern, send_bitcnt>>
Send == SendReset \/ SendDummy \/ SendByte \/ SendBit \/ SendHold

-----------------------------------------------------------------------------
(* The receiver samples a bit in its middle, half a bit after the start and    *)
(* then a bit later each; a byte that is not read is overwritten.  It is      *)
(* running from the start, and not reset with the transmitter.               *)
ser_rx == ser_tx
delivers == recv_state = 10 /\ recv_divcnt > FarDiv
BufferRead(reg_dat_re) == recv_buf_valid' = (recv_buf_valid /\ ~reg_dat_re)

RecvIdle(reg_dat_re) ==
  /\ recv_state = 0
  /\ recv_state' = 1 - ser_rx /\ recv_divcnt' = 0
  /\ BufferRead(reg_dat_re) /\ UNCHANGED <<recv_pattern, recv_buf_data>>
RecvStart(reg_dat_re) ==
  /\ recv_state = 1
  /\ IF 2 * recv_divcnt > FarDiv
     THEN recv_state' = 2 /\ recv_divcnt' = 0
     ELSE recv_divcnt' = Count(recv_divcnt) /\ UNCHANGED recv_state
  /\ BufferRead(reg_dat_re) /\ UNCHANGED <<recv_pattern, recv_buf_data>>
RecvBit(reg_dat_re) ==
  /\ recv_state \in 2..9
  /\ IF recv_divcnt > FarDiv
     THEN /\ recv_pattern' = 128 * ser_rx + recv_pattern \div 2
          /\ recv_state' = recv_state + 1 /\ recv_divcnt' = 0
     ELSE recv_divcnt' = Count(recv_divcnt) /\ UNCHANGED <<recv_state, recv_pattern>>
  /\ BufferRead(reg_dat_re) /\ UNCHANGED recv_buf_data
RecvStop(reg_dat_re) ==
  /\ recv_state = 10
  /\ recv_divcnt' = Count(recv_divcnt) /\ UNCHANGED recv_pattern
  /\ IF delivers
     THEN recv_buf_data' = recv_pattern /\ recv_buf_valid' = TRUE /\ recv_state' = 0
     ELSE BufferRead(reg_dat_re) /\ UNCHANGED <<recv_buf_data, recv_state>>
Receive(reg_dat_re) ==
  RecvIdle(reg_dat_re) \/ RecvStart(reg_dat_re) \/ RecvBit(reg_dat_re) \/ RecvStop(reg_dat_re)

-----------------------------------------------------------------------------
(* History: the byte that was accepted and has not been delivered; Noise when  *)
(* it is sent with another divider or a reset or the divider changes under    *)
(* it, until the next one is accepted.                                       *)
None == -1
Noise == -2
Observe ==
  flight' = IF accepts THEN IF cfg_divider = FarDiv THEN access.data ELSE Noise
            ELSE IF flight \in Bytes /\ delivers THEN None
            ELSE IF flight \in Bytes /\ (~resetn \/ reg_div_we) THEN Noise
            ELSE flight

Clock == Bus /\ Divider /\ Send /\ (\E read \in BOOLEAN : Receive(read)) /\ Observe

(* After a reset of one cycle.                                               *)
UartInit ==
  /\ resetn = TRUE /\ access = NoAccess /\ cfg_divider = DEFAULT_DIV
  /\ send_pattern = 1023 /\ send_bitcnt = 0 /\ send_divcnt = 0 /\ send_dummy = TRUE
  /\ recv_state = 0 /\ recv_divcnt = 0 /\ recv_pattern = 0
  /\ recv_buf_data = 0 /\ recv_buf_valid = FALSE
  /\ flight = None

UartNext == Clock
UartSpec == UartInit /\ [][UartNext]_uartVars

(* The clock runs, whether or not it is ever reset again.                     *)
UartProgress == Clock /\ (resetn => resetn')

-----------------------------------------------------------------------------
(* What the far end delivers is the byte on the line, whole and once, also     *)
(* when software reads in the same cycle, and no byte is sent before the one  *)
(* before it arrived.  After a reset or a write to the divider in the middle  *)
(* of a byte the idle frame lets the far end finish what it believes to be    *)
(* receiving: the next byte with the right divider finds it waiting.         *)
DeliversSent ==
  [][/\ delivers /\ flight # Noise => recv_buf_data' = flight /\ recv_buf_valid'
     /\ accepts /\ cfg_divider = FarDiv => flight \notin Bytes /\ recv_state = 0]_uartVars

(* Every byte that software writes is accepted, and one sent with the right    *)
(* divider arrives, unless a reset or a new divider comes between.           *)
BytesArrive ==
  /\ reg_dat_we ~> ~reg_dat_we
  /\ (flight \in Bytes) ~> (flight \notin Bytes)
=============================================================================
