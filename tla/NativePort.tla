------------------------------ MODULE NativePort ------------------------------
(***************************************************************************)
(* The native memory interface of src/picorv32.v as a bus bridge sees it,   *)
(* and the core behind it: what PicoCore's memory state machine shows of     *)
(* itself, with the second word of a compressed core, for which mem_valid    *)
(* stays set from one read to the next.                                     *)
(***************************************************************************)
CONSTANTS Addrs, Lanes, Bytes     \* the word addresses, the lanes of a word, what a lane holds
ASSUME ZeroAssumption == 0 \in Addrs /\ 0 \in Bytes

Words == [Lanes -> Bytes]
ZeroWord == [b \in Lanes |-> 0]

VARIABLES resetn, mem_valid, mem_addr, mem_wstrb, mem_wdata
portVars == <<resetn, mem_valid, mem_addr, mem_wstrb, mem_wdata>>

IsWrite == mem_wstrb # {}

(* A rising clock edge of the core, with the memory's answer and its readiness. *)
Idle == resetn /\ ~mem_valid /\ UNCHANGED <<mem_valid, mem_addr, mem_wstrb, mem_wdata>>
Ask ==
  /\ resetn /\ ~mem_valid
  /\ mem_valid' = TRUE
  /\ mem_addr' \in Addrs /\ mem_wstrb' \in SUBSET Lanes
  /\ IF mem_wstrb' = {} THEN mem_wdata' = mem_wdata ELSE mem_wdata' \in Words
Wait(ready) == resetn /\ mem_valid /\ ~ready /\ UNCHANGED <<mem_valid, mem_addr, mem_wstrb, mem_wdata>>
Take(ready) == resetn /\ mem_valid /\ ready /\ mem_valid' = FALSE /\ UNCHANGED <<mem_addr, mem_wstrb, mem_wdata>>
SecondWord(ready) ==
  /\ resetn /\ mem_valid /\ ready /\ ~IsWrite
  /\ mem_addr' \in Addrs
  /\ UNCHANGED <<mem_valid, mem_wstrb, mem_wdata>>
Reset == ~resetn /\ mem_valid' = FALSE /\ UNCHANGED <<mem_addr, mem_wstrb, mem_wdata>>

CoreClock(ready) ==
  /\ Idle \/ Ask \/ Wait(ready) \/ Take(ready) \/ SecondWord(ready) \/ Reset
  /\ resetn' \in BOOLEAN

PortInit ==
  /\ resetn = FALSE /\ mem_valid = FALSE
  /\ mem_addr \in Addrs /\ mem_wstrb = {} /\ mem_wdata \in Words
=============================================================================
