------------------------------ MODULE AxiBridge -------------------------------
(***************************************************************************)
(* The bridge picorv32_axi_adapter of src/picorv32.v to AXI4-lite, with the *)
(* core on one side and, on the other, the memory axi4_memory of             *)
(* src/testbench.v, which accepts addresses and data in any order and        *)
(* answers in any cycle, on either clock edge.                              *)
(*                                                                         *)
(* A channel is "ar", "aw" or "w".  In the memory the ready flag of a        *)
(* channel and its fast_* flag are set and cleared together: accepted holds  *)
(* the channels whose pair is set, so that the branches for a ready flag     *)
(* without its fast_* flag (456-471) are never taken.                       *)
(***************************************************************************)
EXTENDS NativePort

VARIABLES
  ack, xfer_done,        \* the bridge: ack_arvalid, ack_awvalid, ack_wvalid; xfer_done
  phase,                 \* the clock edge to come, "rise" or "fall"
  accepted,              \* the memory: the channels that are ready
  latched_en,            \* latched_raddr_en, latched_waddr_en, latched_wdata_en
  latched_raddr, latched_waddr, latched_wstrb, latched_wdata,
  bvalid, rvalid, rdata, memory
busVars == <<ack, xfer_done, phase>>
latches == <<latched_raddr, latched_waddr, latched_wstrb, latched_wdata>>
memVars == <<accepted, latched_en, latches, bvalid, rvalid, rdata, memory>>
vars == <<portVars, busVars, memVars>>

Channels == {"ar", "aw", "w"}

-----------------------------------------------------------------------------
(* The wires of the bridge.                                                  *)
valid(c) == mem_valid /\ (IsWrite <=> c # "ar") /\ c \notin ack
mem_ready == bvalid \/ rvalid
bready == mem_valid /\ IsWrite
rready == mem_valid /\ ~IsWrite

(* Mutant: the flags are kept when a request follows another at once. *)
BridgeKeepsAck ==
  IF resetn
  THEN /\ xfer_done' = (mem_valid /\ mem_ready)
       /\ ack' = IF ~mem_valid THEN {} ELSE ack \cup {c \in accepted : valid(c)}
  ELSE ack' = ack \ {"aw"} /\ UNCHANGED xfer_done

(* Mutant: a channel counts as accepted before it is ready. *)
BridgeAcksUnready ==
  IF resetn
  THEN /\ xfer_done' = (mem_valid /\ mem_ready)
       /\ ack' = IF xfer_done \/ ~mem_valid THEN {} ELSE ack \cup {c \in Channels : valid(c)}
  ELSE ack' = ack \ {"aw"} /\ UNCHANGED xfer_done

(* The flags of a finished transfer are cleared one cycle later, also when    *)
(* the next request is already there; a reset clears one of them.            *)
Bridge ==
  IF resetn
  THEN /\ xfer_done' = (mem_valid /\ mem_ready)
       /\ ack' = IF xfer_done \/ ~mem_valid THEN {} ELSE ack \cup {c \in accepted : valid(c)}
  ELSE ack' = ack \ {"aw"} /\ UNCHANGED xfer_done

-----------------------------------------------------------------------------
(* The memory on an edge that lets it work on D, a set of channels, reads     *)
(* "r" and writes "b".                                                       *)
Work == Channels \cup {"r", "b"}
(* Mutant: a channel is accepted again while it is ready. *)
takes_again(D) == {c \in Channels \cap D : valid(c) /\ c \notin latched_en}

takes(D) == {c \in Channels \cap D : valid(c) /\ c \notin latched_en \cup accepted}
reads(D) == "r" \in D /\ ~rvalid /\ "ar" \in latched_en \cup takes(D)
(* Mutant: a write is performed before its data is there. *)
writes_early(D) == "b" \in D /\ ~bvalid /\ "aw" \in latched_en \cup takes(D)

writes(D) == "b" \in D /\ ~bvalid /\ {"aw", "w"} \subseteq latched_en \cup takes(D)

Latch(D) ==
  /\ latched_raddr' = IF "ar" \in takes(D) THEN mem_addr ELSE latched_raddr
  /\ latched_waddr' = IF "aw" \in takes(D) THEN mem_addr ELSE latched_waddr
  /\ IF "w" \in takes(D) THEN latched_wstrb' = mem_wstrb /\ latched_wdata' = mem_wdata
     ELSE UNCHANGED <<latched_wstrb, latched_wdata>>
  /\ latched_en' = (latched_en \cup takes(D)) \ ((IF reads(D) THEN {"ar"} ELSE {})
                                                   \cup (IF writes(D) THEN {"aw", "w"} ELSE {}))
Perform(D) ==
  /\ rdata' = IF reads(D) THEN memory[latched_raddr'] ELSE rdata
  /\ memory' = IF ~writes(D) THEN memory
               ELSE [memory EXCEPT ![latched_waddr'] =
                       [b \in Lanes |-> IF b \in latched_wstrb' THEN latched_wdata'[b] ELSE @[b]]]
Memory(D) ==
  /\ Latch(D) /\ Perform(D)
  /\ accepted' = (IF phase = "rise" THEN {} ELSE accepted) \cup takes(D)
  /\ rvalid' = (reads(D) \/ (rvalid /\ ~(phase = "rise" /\ rready)))
  /\ bvalid' = (writes(D) \/ (bvalid /\ ~(phase = "rise" /\ bready)))

(* A bus that is reset forgets what it was asked, as the checks of            *)
(* scripts/smtbmc/axicheck.v assume (96-102); axi4_memory has no reset and   *)
(* is only reset before the first request.                                   *)
MemoryReset ==
  /\ accepted' = {} /\ latched_en' = {} /\ rvalid' = FALSE /\ bvalid' = FALSE
  /\ UNCHANGED <<latches, rdata, memory>>

-----------------------------------------------------------------------------
Rise(D) ==
  /\ phase = "rise" /\ phase' = "fall"
  /\ CoreClock(mem_ready) /\ Bridge
  /\ IF resetn THEN Memory(D) ELSE MemoryReset
Fall(D) ==
  /\ phase = "fall" /\ phase' = "rise"
  /\ Memory(D)
  /\ UNCHANGED <<portVars, ack, xfer_done>>

(* The flags of the bridge have no initial value.                            *)
Init ==
  /\ PortInit /\ phase = "rise"
  /\ ack \in SUBSET Channels /\ xfer_done \in BOOLEAN
  /\ accepted = {} /\ latched_en = {} /\ bvalid = FALSE /\ rvalid = FALSE
  /\ memory \in [Addrs -> Words]
  /\ latched_raddr = 0 /\ latched_waddr = 0
  /\ latched_wstrb = {} /\ latched_wdata = ZeroWord /\ rdata = ZeroWord

Next == \E D \in SUBSET Work : Rise(D) \/ Fall(D)
Spec == Init /\ [][Next]_vars

(* The clock runs, whether or not it is ever reset again, and the pseudo-      *)
(* random bits let everything go ahead again and again.                      *)
FairSpec ==
  /\ Spec
  /\ WF_vars(Next /\ (resetn => resetn'))
  /\ SF_vars(Rise(Work) /\ (resetn => resetn'))

-----------------------------------------------------------------------------
Native == INSTANCE NativeMem WITH
  request <- IF mem_valid THEN <<[addr |-> mem_addr, wstrb |-> mem_wstrb, wdata |-> mem_wdata]>> ELSE <<>>,
  answer <- IF mem_valid /\ mem_ready THEN <<rdata>> ELSE <<>>

(* The bridge and the memory do what the core is promised.                    *)
ServesCore == Native!NativeSpec

(* A channel that is valid stays so, with its payload, until it is accepted.  *)
ChannelsHold ==
  [][resetn => \A c \in Channels :
       valid(c) /\ c \notin accepted =>
         valid(c)' /\ mem_addr' = mem_addr /\ mem_wdata' = mem_wdata /\ mem_wstrb' = mem_wstrb]_vars

(* Without a request nothing is on the bus or in the memory: an answer never  *)
(* comes for a request of before.                                            *)
QuietWhenIdle == ~mem_valid => latched_en = {} /\ ~rvalid /\ ~bvalid /\ accepted = {}

(* Every request is answered.                                                *)
Answered == Native!Served
=============================================================================
