------------------------------- MODULE WbBridge -------------------------------
(***************************************************************************)
(* The bridge of picorv32_wb in src/picorv32.v to a Wishbone bus, with the   *)
(* core on one side and, on the other, the memory wb_ram of                  *)
(* src/testbench_wb.v.  That memory acknowledges after one cycle; a slower    *)
(* slave, which the bridge allows for, takes MaxWait cycles at most.         *)
(***************************************************************************)
EXTENDS NativePort, Naturals

CONSTANT MaxWait

VARIABLES
  state,                                   \* the bridge: IDLE, WBSTART or WBEND
  mem_ready, mem_rdata,
  wbm_adr_o, wbm_dat_o, wbm_sel_o, wbm_we_o, wbm_stb_o,   \* wbm_cyc_o follows wbm_stb_o
  waited, wb_ack_o, wb_dat_o, adr_r, memory               \* the memory
busVars == <<state, mem_ready, mem_rdata, wbm_adr_o, wbm_dat_o, wbm_sel_o, wbm_we_o, wbm_stb_o>>
ramVars == <<waited, wb_ack_o, wb_dat_o, adr_r, memory>>
vars == <<portVars, busVars, ramVars>>

-----------------------------------------------------------------------------
BridgeStart ==
  /\ resetn /\ state = "IDLE" /\ mem_valid
  /\ wbm_adr_o' = mem_addr /\ wbm_dat_o' = mem_wdata
  /\ wbm_we_o' = IsWrite /\ wbm_sel_o' = mem_wstrb
  /\ wbm_stb_o' = TRUE /\ state' = "WBSTART"
  /\ UNCHANGED <<mem_ready, mem_rdata>>
BridgeIdle ==
  /\ resetn /\ state = "IDLE" /\ ~mem_valid
  /\ mem_ready' = FALSE /\ wbm_stb_o' = FALSE /\ wbm_we_o' = FALSE
  /\ UNCHANGED <<state, mem_rdata, wbm_adr_o, wbm_dat_o, wbm_sel_o>>
BridgeWait == resetn /\ state = "WBSTART" /\ ~wb_ack_o /\ UNCHANGED busVars
BridgeAck ==
  /\ resetn /\ state = "WBSTART" /\ wb_ack_o
  /\ mem_rdata' = wb_dat_o /\ mem_ready' = TRUE
  /\ state' = "WBEND" /\ wbm_stb_o' = FALSE /\ wbm_we_o' = FALSE
  /\ UNCHANGED <<wbm_adr_o, wbm_dat_o, wbm_sel_o>>
(* Mutant: the bridge stays ready after the answer was taken. *)
BridgeEndReady ==
  /\ resetn /\ state = "WBEND" /\ state' = "IDLE"
  /\ UNCHANGED <<mem_ready, mem_rdata, wbm_adr_o, wbm_dat_o, wbm_sel_o, wbm_we_o, wbm_stb_o>>
(* Mutant: the bridge waits until there is no request. *)
BridgeEndWaits ==
  /\ resetn /\ state = "WBEND"
  /\ mem_ready' = FALSE /\ state' = IF mem_valid THEN "WBEND" ELSE "IDLE"
  /\ UNCHANGED <<mem_rdata, wbm_adr_o, wbm_dat_o, wbm_sel_o, wbm_we_o, wbm_stb_o>>

BridgeEnd ==
  /\ resetn /\ state = "WBEND"
  /\ mem_ready' = FALSE /\ state' = "IDLE"
  /\ UNCHANGED <<mem_rdata, wbm_adr_o, wbm_dat_o, wbm_sel_o, wbm_we_o, wbm_stb_o>>

(* A reset leaves mem_ready and mem_rdata as they are.                        *)
BridgeReset ==
  /\ ~resetn
  /\ state' = "IDLE" /\ wbm_stb_o' = FALSE /\ wbm_we_o' = FALSE /\ wbm_sel_o' = {}
  /\ wbm_adr_o' = 0 /\ wbm_dat_o' = ZeroWord
  /\ UNCHANGED <<mem_ready, mem_rdata>>
Bridge == BridgeStart \/ BridgeIdle \/ BridgeWait \/ BridgeAck \/ BridgeEnd \/ BridgeReset

-----------------------------------------------------------------------------
(* The memory acknowledges a request, and writes and answers a read on the    *)
(* edge after; reads are of the address on the bus, writes of the one before. *)
ram_we == wbm_we_o /\ wbm_stb_o /\ wb_ack_o
Acknowledge ==
  IF resetn /\ wbm_stb_o /\ ~wb_ack_o
  THEN \/ wb_ack_o' = TRUE /\ waited' = 0
       \/ waited < MaxWait /\ wb_ack_o' = FALSE /\ waited' = waited + 1
  ELSE wb_ack_o' = FALSE /\ waited' = 0
Ram ==
  /\ Acknowledge
  /\ adr_r' = IF resetn THEN wbm_adr_o ELSE 0
  /\ wb_dat_o' = memory[wbm_adr_o]
  /\ memory' = IF ~ram_we THEN memory
               ELSE [memory EXCEPT ![adr_r] = [b \in Lanes |-> IF b \in wbm_sel_o THEN wbm_dat_o[b] ELSE @[b]]]

Clock == CoreClock(mem_ready) /\ Bridge /\ Ram

(* After a reset of one cycle; mem_ready and mem_rdata have no initial value. *)
Init ==
  /\ PortInit /\ state = "IDLE"
  /\ mem_ready \in BOOLEAN /\ mem_rdata \in Words
  /\ wbm_adr_o = 0 /\ wbm_dat_o = ZeroWord /\ wbm_sel_o = {} /\ wbm_we_o = FALSE /\ wbm_stb_o = FALSE
  /\ waited = 0 /\ wb_ack_o = FALSE /\ adr_r = 0
  /\ memory \in [Addrs -> Words] /\ wb_dat_o = memory[0]

Next == Clock
Spec == Init /\ [][Next]_vars

(* The clock runs, whether or not it is ever reset again.                     *)
FairSpec == Spec /\ WF_vars(Clock /\ (resetn => resetn'))

-----------------------------------------------------------------------------
Native == INSTANCE NativeMem WITH
  request <- IF mem_valid THEN <<[addr |-> mem_addr, wstrb |-> mem_wstrb, wdata |-> mem_wdata]>> ELSE <<>>,
  answer <- IF mem_valid /\ mem_ready THEN <<mem_rdata>> ELSE <<>>

(* The bridge and the memory do what the core is promised.                    *)
ServesCore == Native!NativeSpec

(* Every request is answered.                                                *)
Answered == Native!Served
=============================================================================
