---------------------------- MODULE AxiBridgeProof ----------------------------
(***************************************************************************)
(* The bridge picorv32_axi_adapter with the memory behind it implements the   *)
(* native memory interface, for every set of addresses, lanes and lane        *)
(* values and every order and delay of the memory.                           *)
(***************************************************************************)
EXTENDS AxiBridge, TLAPS

(* Every register keeps its type.                                            *)
TypeOK ==
  /\ resetn \in BOOLEAN /\ mem_valid \in BOOLEAN
  /\ mem_addr \in Addrs /\ mem_wstrb \in SUBSET Lanes /\ mem_wdata \in Words
  /\ ack \in SUBSET Channels /\ xfer_done \in BOOLEAN /\ phase \in {"rise", "fall"}
  /\ accepted \in SUBSET Channels /\ latched_en \in SUBSET Channels
  /\ latched_raddr \in Addrs /\ latched_waddr \in Addrs
  /\ latched_wstrb \in SUBSET Lanes /\ latched_wdata \in Words
  /\ bvalid \in BOOLEAN /\ rvalid \in BOOLEAN /\ rdata \in Words
  /\ memory \in [Addrs -> Words]

(* The channels a request uses, and those the memory has taken.               *)
Asks == IF IsWrite THEN {"aw", "w"} ELSE {"ar"}
Taken == ack \cup accepted

(* The cycle after a read whose successor followed at once: the flag of the   *)
(* first read holds the second one back.                                     *)
HeldBack ==
  mem_valid /\ xfer_done =>
    ~IsWrite /\ "ar" \in ack /\ accepted = {} /\ latched_en = {} /\ ~mem_ready

(* Before the answer the memory keeps what it has taken; with the answer it    *)
(* has taken everything and keeps nothing.                                   *)
InTransfer ==
  mem_valid /\ ~xfer_done =>
    /\ Taken \subseteq Asks
    /\ IF mem_ready THEN Taken = Asks /\ latched_en = {} ELSE latched_en = Taken
    /\ rvalid => ~IsWrite
    /\ bvalid => IsWrite

(* What the memory keeps is the request of the core.                         *)
KeepsRequest ==
  mem_valid =>
    /\ "ar" \in latched_en => latched_raddr = mem_addr
    /\ "aw" \in latched_en => latched_waddr = mem_addr
    /\ "w" \in latched_en => latched_wstrb = mem_wstrb /\ latched_wdata = mem_wdata

BusInv == TypeOK /\ QuietWhenIdle /\ HeldBack /\ InTransfer /\ KeepsRequest

-----------------------------------------------------------------------------
(* A word with some lanes of another is a word.                               *)
LEMMA WordsLemma ==
  /\ ZeroWord \in Words
  /\ \A w, v \in Words, s \in SUBSET Lanes :
       [b \in Lanes |-> IF b \in s THEN w[b] ELSE v[b]] \in Words
BY ZeroAssumption DEF ZeroWord, Words

(* The memory takes only channels of the request, each of them once, and       *)
(* nothing when there is no request, when it is held back or when it is        *)
(* answered.                                                                 *)
LEMMA TakesLemma ==
  ASSUME BusInv, NEW D \in SUBSET Work
  PROVE  /\ takes(D) \subseteq Channels
         /\ ~mem_valid \/ xfer_done \/ mem_ready => takes(D) = {}
         /\ takes(D) \subseteq Asks /\ takes(D) \cap Taken = {}
PROOF
<1>1. takes(D) \subseteq Channels /\ takes(D) \subseteq Asks /\ takes(D) \cap Taken = {}
  BY DEF takes, valid, Channels, Asks, Taken
<1>2. CASE ~mem_valid
  BY <1>1, <1>2 DEF takes, valid
<1>3. CASE mem_valid /\ xfer_done
  BY <1>1, <1>3 DEF takes, valid, BusInv, HeldBack, Asks
<1>4. CASE mem_valid /\ ~xfer_done /\ mem_ready
  BY <1>1, <1>4 DEF BusInv, InTransfer
<1>5. QED
  BY <1>1, <1>2, <1>3, <1>4

(* Nothing is performed but a request that is not held back and not answered.  *)
LEMMA PerformsLemma ==
  ASSUME BusInv, NEW D \in SUBSET Work
  PROVE  /\ reads(D) => mem_valid /\ ~xfer_done /\ ~mem_ready /\ ~IsWrite
         /\ writes(D) => mem_valid /\ ~xfer_done /\ ~mem_ready /\ IsWrite
PROOF
<1>1. ASSUME reads(D) \/ writes(D)
      PROVE  mem_valid /\ ~xfer_done /\ ~mem_ready
  BY <1>1, TakesLemma DEF reads, writes, BusInv, QuietWhenIdle, HeldBack, InTransfer
<1>2. QED
  BY <1>1, TakesLemma DEF reads, writes, BusInv, InTransfer, Asks

(* An edge of the memory keeps the types.                                    *)
LEMMA MemoryTypes ==
  ASSUME BusInv, NEW D \in SUBSET Work, Memory(D)
  PROVE  /\ accepted' \in SUBSET Channels /\ latched_en' \in SUBSET Channels
         /\ latched_raddr' \in Addrs /\ latched_waddr' \in Addrs
         /\ latched_wstrb' \in SUBSET Lanes /\ latched_wdata' \in Words
         /\ bvalid' \in BOOLEAN /\ rvalid' \in BOOLEAN /\ rdata' \in Words
         /\ memory' \in [Addrs -> Words]
PROOF
<1>1. /\ latched_raddr' \in Addrs /\ latched_waddr' \in Addrs
      /\ latched_wstrb' \in SUBSET Lanes /\ latched_wdata' \in Words
  BY DEF Memory, Latch, BusInv, TypeOK
<1>2. accepted' \in SUBSET Channels /\ latched_en' \in SUBSET Channels
  BY TakesLemma DEF Memory, Latch, BusInv, TypeOK
<1>3. bvalid' \in BOOLEAN /\ rvalid' \in BOOLEAN
  BY DEF Memory, reads, writes
<1>4. rdata' \in Words
  BY <1>1 DEF Memory, Perform, BusInv, TypeOK
<1>5. memory' \in [Addrs -> Words]
  BY <1>1, WordsLemma DEF Memory, Perform, BusInv, TypeOK
<1>6. QED
  BY <1>1, <1>2, <1>3, <1>4, <1>5

(* An edge of the memory for a request that it has not answered.              *)
LEMMA MemoryEdge ==
  ASSUME BusInv, NEW D \in SUBSET Work, Memory(D),
         mem_valid, ~xfer_done, ~mem_ready
  PROVE  /\ latched_en \cup takes(D) = Taken \cup takes(D)
         /\ Taken \cup takes(D) \subseteq Asks
         /\ IF mem_ready'
            THEN Taken \cup takes(D) = Asks /\ latched_en' = {}
            ELSE latched_en' = Taken \cup takes(D)
         /\ rvalid' = reads(D) /\ bvalid' = writes(D)
         /\ "ar" \in latched_en \cup takes(D) => latched_raddr' = mem_addr
         /\ "aw" \in latched_en \cup takes(D) => latched_waddr' = mem_addr
         /\ "w" \in latched_en \cup takes(D) => latched_wstrb' = mem_wstrb /\ latched_wdata' = mem_wdata
PROOF
<1>1. latched_en = Taken /\ Taken \subseteq Asks
  BY DEF BusInv, InTransfer
<1>2. Taken \cup takes(D) \subseteq Asks
  BY <1>1, TakesLemma
<1>3. rvalid' = reads(D) /\ bvalid' = writes(D)
  BY DEF Memory, mem_ready, BusInv, TypeOK, reads, writes
<1>4. CASE reads(D)
  <2>1. Asks = {"ar"} /\ Taken \cup takes(D) = Asks /\ ~writes(D)
    BY <1>1, <1>2, <1>4, PerformsLemma DEF Asks, reads
  <2>2. latched_en' = {} /\ mem_ready'
    BY <1>1, <1>3, <1>4, <2>1 DEF Memory, Latch, mem_ready
  <2>3. QED
    BY <1>1, <1>2, <1>3, <2>1, <2>2 DEF Memory, Latch, BusInv, KeepsRequest
<1>5. CASE writes(D)
  <2>1. Asks = {"aw", "w"} /\ Taken \cup takes(D) = Asks /\ ~reads(D)
    BY <1>1, <1>2, <1>5, PerformsLemma DEF Asks, writes
  <2>2. latched_en' = {} /\ mem_ready'
    BY <1>1, <1>3, <1>5, <2>1 DEF Memory, Latch, mem_ready
  <2>3. QED
    BY <1>1, <1>2, <1>3, <2>1, <2>2 DEF Memory, Latch, BusInv, KeepsRequest
<1>6. CASE ~reads(D) /\ ~writes(D)
  <2>1. ~mem_ready' /\ latched_en' = Taken \cup takes(D)
    BY <1>1, <1>3, <1>6 DEF Memory, Latch, mem_ready
  <2>2. QED
    BY <1>1, <1>2, <1>3, <2>1 DEF Memory, Latch, BusInv, KeepsRequest
<1>7. QED
  BY <1>4, <1>5, <1>6

(* An edge of the memory without a request, or for one that is held back.      *)
LEMMA MemoryRests ==
  ASSUME BusInv, NEW D \in SUBSET Work, Memory(D), ~mem_valid \/ xfer_done
  PROVE  /\ latched_en' = {} /\ accepted' = {}
         /\ ~rvalid' /\ ~bvalid' /\ memory' = memory
PROOF
<1>1. /\ takes(D) = {} /\ ~reads(D) /\ ~writes(D)
      /\ latched_en = {} /\ accepted = {} /\ ~rvalid /\ ~bvalid
  BY TakesLemma, PerformsLemma DEF BusInv, QuietWhenIdle, HeldBack, mem_ready
<1>2. QED
  BY <1>1 DEF Memory, Latch, Perform

(* An edge of the memory after the answer.                                   *)
LEMMA MemoryAnswered ==
  ASSUME BusInv, NEW D \in SUBSET Work, Memory(D), mem_valid, ~xfer_done, mem_ready
  PROVE  /\ latched_en' = {} /\ memory' = memory /\ rdata' = rdata
         /\ IF phase = "rise" THEN accepted' = {} /\ ~rvalid' /\ ~bvalid'
            ELSE accepted' = accepted /\ rvalid' = rvalid /\ bvalid' = bvalid
PROOF
<1>1. /\ takes(D) = {} /\ ~reads(D) /\ ~writes(D) /\ latched_en = {}
      /\ rvalid => ~IsWrite
      /\ bvalid => IsWrite
  BY TakesLemma, PerformsLemma DEF BusInv, InTransfer
<1>2. QED
  BY <1>1 DEF Memory, Latch, Perform, rready, bready, BusInv, TypeOK

-----------------------------------------------------------------------------
(* The invariant holds initially.                                             *)
LEMMA BusInit == Init => BusInv
BY ZeroAssumption, WordsLemma
   DEF Init, PortInit, BusInv, TypeOK, QuietWhenIdle, HeldBack, InTransfer, KeepsRequest, Channels

(* The flags of the bridge after a clock edge: what was accepted is marked.    *)
LEMMA MarksLemma ==
  ASSUME BusInv, resetn, Bridge, mem_valid, ~xfer_done
  PROVE  ack' = Taken /\ xfer_done' = mem_ready
PROOF
<1>1. accepted \subseteq Asks
  BY DEF BusInv, InTransfer, Taken
<1>2. \A c \in accepted : valid(c) \/ c \in ack
  BY <1>1 DEF valid, Asks
<1>3. QED
  BY <1>2 DEF Bridge, Taken, mem_ready, BusInv, TypeOK

(* The types after a clock edge.                                             *)
LEMMA PortTypes ==
  ASSUME BusInv, CoreClock(mem_ready), Bridge
  PROVE  /\ resetn' \in BOOLEAN /\ mem_valid' \in BOOLEAN
         /\ mem_addr' \in Addrs /\ mem_wstrb' \in SUBSET Lanes /\ mem_wdata' \in Words
         /\ ack' \in SUBSET Channels /\ xfer_done' \in BOOLEAN
BY DEF CoreClock, Idle, Ask, Wait, Take, SecondWord, Reset, Bridge, mem_ready, BusInv, TypeOK

(* A rising edge keeps the invariant.                                         *)
LEMMA RiseKeeps ==
  ASSUME BusInv, NEW D \in SUBSET Work, Rise(D)
  PROVE  BusInv'
PROOF
<1>1. phase = "rise" /\ phase' = "fall" /\ CoreClock(mem_ready) /\ Bridge
  BY DEF Rise
<1>2. CASE ~resetn
  <2>1. ~mem_valid' /\ MemoryReset
    BY <1>1, <1>2 DEF Rise, CoreClock, Idle, Ask, Wait, Take, SecondWord, Reset
  <2>2. TypeOK'
    BY <1>1, <2>1, PortTypes DEF MemoryReset, latches, BusInv, TypeOK
  <2>3. QED
    BY <2>1, <2>2 DEF MemoryReset, BusInv, QuietWhenIdle, HeldBack, InTransfer, KeepsRequest
<1>3. CASE resetn
  <2>1. Memory(D)
    BY <1>3 DEF Rise
  <2>2. TypeOK'
    BY <1>1, <2>1, PortTypes, MemoryTypes DEF BusInv, TypeOK
  <2>3. CASE ~mem_valid \/ xfer_done
    <3>1. latched_en' = {} /\ accepted' = {} /\ ~rvalid' /\ ~bvalid'
      BY <2>1, <2>3, MemoryRests
    <3>2. ack' = {} /\ ~xfer_done'
      BY <1>1, <1>3, <2>3 DEF Bridge, BusInv, HeldBack
    <3>3. QED
      BY <2>2, <3>1, <3>2
         DEF BusInv, QuietWhenIdle, HeldBack, InTransfer, KeepsRequest, Taken, mem_ready
  <2>4. CASE mem_valid /\ ~xfer_done /\ ~mem_ready
    <3>1. UNCHANGED <<mem_valid, mem_addr, mem_wstrb, mem_wdata>>
      BY <1>1, <1>3, <2>4 DEF CoreClock, Idle, Ask, Wait, Take, SecondWord, Reset
    <3>2. ack' = Taken /\ xfer_done' = FALSE /\ accepted' = takes(D)
      BY <1>1, <1>3, <2>1, <2>4, MarksLemma DEF Memory
    <3>3. Asks' = Asks /\ (IsWrite <=> IsWrite') /\ Taken' = Taken \cup takes(D)
      BY <3>1, <3>2 DEF Asks, IsWrite, Taken
    <3>4. /\ Taken \cup takes(D) \subseteq Asks
          /\ IF mem_ready' THEN Taken \cup takes(D) = Asks /\ latched_en' = {}
             ELSE latched_en' = Taken \cup takes(D)
          /\ rvalid' = reads(D) /\ bvalid' = writes(D)
      BY <2>1, <2>4, MemoryEdge
    <3>5. InTransfer'
      BY <3>3, <3>4, PerformsLemma DEF InTransfer
    <3>6. KeepsRequest'
      BY <2>1, <2>4, <3>1, <3>4, MemoryEdge DEF KeepsRequest
    <3>7. QED
      BY <2>2, <2>4, <3>1, <3>2, <3>5, <3>6 DEF BusInv, QuietWhenIdle, HeldBack
  <2>5. CASE mem_valid /\ ~xfer_done /\ mem_ready
    <3>1. latched_en' = {} /\ accepted' = {} /\ ~rvalid' /\ ~bvalid'
      BY <1>1, <2>1, <2>5, MemoryAnswered
    <3>2. ack' = Asks /\ xfer_done' = TRUE
      BY <1>1, <1>3, <2>5, MarksLemma DEF BusInv, InTransfer
    <3>3. mem_valid' => ~IsWrite /\ ~IsWrite'
      BY <1>1, <1>3, <2>5 DEF CoreClock, Idle, Ask, Wait, Take, SecondWord, Reset, IsWrite
    <3>4. QED
      BY <2>2, <3>1, <3>2, <3>3
         DEF BusInv, QuietWhenIdle, HeldBack, InTransfer, KeepsRequest, Asks, mem_ready
  <2>6. QED
    BY <2>3, <2>4, <2>5
<1>4. QED
  BY <1>2, <1>3

(* A falling edge keeps the invariant.                                        *)
LEMMA FallKeeps ==
  ASSUME BusInv, NEW D \in SUBSET Work, Fall(D)
  PROVE  BusInv'
PROOF
<1>1. /\ phase = "fall" /\ phase' = "rise" /\ Memory(D)
      /\ UNCHANGED <<portVars, ack, xfer_done>>
  BY DEF Fall
<1>2. TypeOK'
  BY <1>1, MemoryTypes DEF portVars, BusInv, TypeOK
<1>3. CASE ~mem_valid \/ xfer_done
  <2>1. latched_en' = {} /\ accepted' = {} /\ ~rvalid' /\ ~bvalid'
    BY <1>1, <1>3, MemoryRests
  <2>2. QED
    BY <1>1, <1>2, <1>3, <2>1
       DEF portVars, BusInv, QuietWhenIdle, HeldBack, InTransfer, KeepsRequest, IsWrite, mem_ready
<1>4. CASE mem_valid /\ ~xfer_done
  <2>1. Asks' = Asks /\ (IsWrite <=> IsWrite') /\ mem_valid' /\ ~xfer_done'
        /\ UNCHANGED <<mem_addr, mem_wstrb, mem_wdata>>
    BY <1>1, <1>4 DEF portVars, Asks, IsWrite
  <2>2. CASE ~mem_ready
    <3>1. Taken' = Taken \cup takes(D)
      BY <1>1 DEF Memory, Taken
    <3>2. /\ Taken \cup takes(D) \subseteq Asks
          /\ IF mem_ready' THEN Taken \cup takes(D) = Asks /\ latched_en' = {}
             ELSE latched_en' = Taken \cup takes(D)
          /\ rvalid' = reads(D) /\ bvalid' = writes(D)
      BY <1>1, <1>4, <2>2, MemoryEdge
    <3>3. InTransfer'
      BY <2>1, <3>1, <3>2, PerformsLemma DEF InTransfer
    <3>4. KeepsRequest'
      BY <1>1, <1>4, <2>1, <2>2, <3>2, MemoryEdge DEF KeepsRequest
    <3>5. QED
      BY <1>2, <2>1, <3>3, <3>4 DEF BusInv, QuietWhenIdle, HeldBack
  <2>3. CASE mem_ready
    <3>1. latched_en' = {} /\ accepted' = accepted /\ rvalid' = rvalid /\ bvalid' = bvalid
      BY <1>1, <1>4, <2>3, MemoryAnswered
    <3>2. QED
      BY <1>1, <1>2, <1>4, <2>1, <2>3, <3>1
         DEF BusInv, QuietWhenIdle, HeldBack, InTransfer, KeepsRequest, Taken, mem_ready
  <2>4. QED
    BY <2>2, <2>3
<1>5. QED
  BY <1>3, <1>4

(* Every step keeps the invariant.                                            *)
LEMMA BusStep == BusInv /\ [Next]_vars => BusInv'
PROOF
<1> SUFFICES ASSUME BusInv, [Next]_vars PROVE BusInv'
  OBVIOUS
<1>1. CASE UNCHANGED vars
  BY <1>1 DEF vars, portVars, busVars, memVars, latches, BusInv, TypeOK, QuietWhenIdle, HeldBack,
              InTransfer, KeepsRequest, Asks, Taken, IsWrite, mem_ready
<1>2. CASE Next
  BY <1>2, RiseKeeps, FallKeeps DEF Next
<1>3. QED
  BY <1>1, <1>2

(* What the bridge has marked and the memory has taken always fits the request *)
(* on the bus.                                                               *)
THEOREM BusCorrect == Spec => []BusInv
BY BusInit, BusStep, PTL DEF Spec

(* Without a request nothing is on the bus or in the memory: an answer never  *)
(* comes for a request of before.                                            *)
THEOREM QuietBetweenRequests == Spec => []QuietWhenIdle
PROOF
<1>1. BusInv => QuietWhenIdle
  BY DEF BusInv
<1>2. QED
  BY <1>1, BusCorrect, PTL

(* A request that waits for its answer stays as it is on an edge that does     *)
(* not reset the core, and what is accepted is marked.                       *)
LEMMA WaitingHolds ==
  ASSUME BusInv, Next, resetn, mem_valid, ~xfer_done, ~mem_ready
  PROVE  /\ UNCHANGED <<mem_valid, mem_addr, mem_wstrb, mem_wdata>>
         /\ ack' \subseteq Taken /\ ~xfer_done'
PROOF
<1>1. PICK D \in SUBSET Work : Rise(D) \/ Fall(D)
  BY DEF Next
<1>2. CASE Rise(D)
  <2>1. CoreClock(mem_ready) /\ Bridge
    BY <1>2 DEF Rise
  <2>2. ack' = Taken /\ ~xfer_done'
    BY <2>1, MarksLemma
  <2>3. UNCHANGED <<mem_valid, mem_addr, mem_wstrb, mem_wdata>>
    BY <2>1 DEF CoreClock, Idle, Ask, Wait, Take, SecondWord, Reset
  <2>4. QED
    BY <2>2, <2>3
<1>3. CASE Fall(D)
  BY <1>3 DEF Fall, portVars, Taken
<1>4. QED
  BY <1>1, <1>2, <1>3

(* A channel that is valid stays so, with its payload, until it is accepted.  *)
THEOREM ChannelsAreHeld == Spec => ChannelsHold
PROOF
<1> DEFINE Held == resetn => \A c \in Channels :
             valid(c) /\ c \notin accepted =>
               valid(c)' /\ mem_addr' = mem_addr /\ mem_wdata' = mem_wdata /\ mem_wstrb' = mem_wstrb
<1>1. ASSUME BusInv, [Next]_vars PROVE [Held]_vars
  <2>1. CASE UNCHANGED vars
    BY <2>1
  <2>2. CASE Next
    <3> SUFFICES ASSUME resetn, NEW c \in Channels, valid(c), c \notin accepted
                 PROVE  valid(c)' /\ mem_addr' = mem_addr /\ mem_wdata' = mem_wdata
                        /\ mem_wstrb' = mem_wstrb
      OBVIOUS
    <3>1. mem_valid /\ c \in Asks /\ c \notin Taken
      BY DEF valid, Asks, Taken, Channels
    <3>2. ~xfer_done /\ ~mem_ready
      BY <1>1, <3>1 DEF BusInv, HeldBack, InTransfer, Asks, Taken
    <3>3. UNCHANGED <<mem_valid, mem_addr, mem_wstrb, mem_wdata>> /\ c \notin ack'
      BY <1>1, <2>2, <3>1, <3>2, WaitingHolds
    <3>4. QED
      BY <3>3 DEF valid, IsWrite
  <2>3. QED
    BY <1>1, <2>1, <2>2
<1>2. QED
  BY <1>1, BusCorrect, PTL DEF Spec, ChannelsHold

-----------------------------------------------------------------------------
(* The core's request and the memory's answer, as NativeMem sees them.        *)
Asked == [addr |-> mem_addr, wstrb |-> mem_wstrb, wdata |-> mem_wdata]
request == IF mem_valid THEN <<Asked>> ELSE <<>>
answer == IF mem_valid /\ mem_ready THEN <<rdata>> ELSE <<>>

(* The initial states are initial states of the native interface.             *)
LEMMA InitServes == Init => Native!NativeInit
BY DEF Init, PortInit, Native!NativeInit, Native!Words, Words

(* What is performed is the request of the core, as it was asked for.         *)
LEMMA PerformsAsked ==
  ASSUME BusInv, NEW D \in SUBSET Work, Memory(D), mem_valid, ~xfer_done, ~mem_ready,
         reads(D) \/ writes(D)
  PROVE  /\ memory' = Native!Written(memory, Asked)
         /\ rdata' \in Native!Answers(memory, Asked)
PROOF
<1>1. Native!Written(memory, Asked)
        = [memory EXCEPT ![mem_addr] =
             [b \in Lanes |-> IF b \in mem_wstrb THEN mem_wdata[b] ELSE @[b]]]
  BY DEF Native!Written, Asked
<1>2. rdata' \in Native!Words
  BY MemoryTypes DEF Native!Words, Words
<1>3. CASE reads(D)
  <2>1. mem_wstrb = {} /\ ~writes(D) /\ "ar" \in latched_en \cup takes(D)
    BY <1>3, PerformsLemma DEF IsWrite, reads
  <2>2. rdata' = memory[mem_addr] /\ memory' = memory
    BY <1>3, <2>1, MemoryEdge DEF Memory, Perform
  <2>3. [b \in Lanes |-> IF b \in mem_wstrb THEN mem_wdata[b] ELSE memory[mem_addr][b]]
          = memory[mem_addr]
    BY <2>1 DEF BusInv, TypeOK, Words
  <2>4. memory' = Native!Written(memory, Asked)
    BY <1>1, <2>2, <2>3 DEF BusInv, TypeOK
  <2>5. QED
    BY <2>1, <2>2, <2>4 DEF Native!Answers, Asked
<1>4. CASE writes(D)
  <2>1. mem_wstrb # {} /\ {"aw", "w"} \subseteq latched_en \cup takes(D)
    BY <1>4, PerformsLemma DEF IsWrite, writes
  <2>2. latched_waddr' = mem_addr /\ latched_wstrb' = mem_wstrb /\ latched_wdata' = mem_wdata
    BY <2>1, MemoryEdge
  <2>3. memory' = Native!Written(memory, Asked)
    BY <1>1, <1>4, <2>2 DEF Memory, Perform
  <2>4. QED
    BY <1>2, <2>1, <2>3 DEF Native!Answers, Asked
<1>5. QED
  BY <1>3, <1>4

(* An edge that works on a request that has no answer.                       *)
LEMMA WaitingServes ==
  ASSUME BusInv, BusInv', NEW D \in SUBSET Work, Memory(D), mem_valid, ~xfer_done, ~mem_ready,
         UNCHANGED <<mem_valid, mem_addr, mem_wstrb, mem_wdata>>
  PROVE  [Native!NativeNext]_(Native!nativeVars)
PROOF
<1>1. request # <<>> /\ request[1] = Asked /\ request' = request /\ answer = <<>>
  BY DEF request, answer, Asked
<1>2. mem_ready' = (reads(D) \/ writes(D))
  BY MemoryEdge DEF mem_ready
<1>3. CASE reads(D) \/ writes(D)
  <2>1. memory' = Native!Written(memory, Asked) /\ rdata' \in Native!Answers(memory, Asked)
    BY <1>3, PerformsAsked
  <2>2. answer' = <<rdata'>>
    BY <1>2, <1>3 DEF answer
  <2>3. QED
    BY <1>1, <2>1, <2>2 DEF Native!NativeNext, Native!Perform, request, answer, Asked
<1>4. CASE ~reads(D) /\ ~writes(D)
  BY <1>2, <1>4 DEF Memory, Perform, Native!nativeVars
<1>5. QED
  BY <1>3, <1>4

(* A falling edge is a step of the native interface or none.                  *)
LEMMA FallServes ==
  ASSUME BusInv, BusInv', NEW D \in SUBSET Work, Fall(D)
  PROVE  [Native!NativeNext]_(Native!nativeVars)
PROOF
<1>1. /\ Memory(D) /\ phase = "fall"
      /\ UNCHANGED <<mem_valid, mem_addr, mem_wstrb, mem_wdata>>
  BY DEF Fall, portVars
<1>2. CASE ~mem_valid \/ xfer_done
  <2>1. memory' = memory /\ ~mem_ready'
    BY <1>1, <1>2, MemoryRests DEF mem_ready
  <2>2. mem_valid => ~mem_ready
    BY <1>2 DEF BusInv, HeldBack
  <2>3. QED
    BY <1>1, <2>1, <2>2 DEF Native!nativeVars
<1>3. CASE mem_valid /\ ~xfer_done /\ ~mem_ready
  BY <1>1, <1>3, WaitingServes
<1>4. CASE mem_valid /\ ~xfer_done /\ mem_ready
  <2>1. memory' = memory /\ rdata' = rdata /\ mem_ready'
    BY <1>1, <1>4, MemoryAnswered DEF mem_ready
  <2>2. QED
    BY <1>1, <1>4, <2>1 DEF Native!nativeVars
<1>5. QED
  BY <1>2, <1>3, <1>4

(* A rising edge is a step of the native interface or none.                   *)
LEMMA RiseServes ==
  ASSUME BusInv, BusInv', NEW D \in SUBSET Work, Rise(D)
  PROVE  [Native!NativeNext]_(Native!nativeVars)
PROOF
<1>1. phase = "rise" /\ CoreClock(mem_ready) /\ Bridge
  BY DEF Rise
<1>2. CASE ~resetn
  <2>1. ~mem_valid' /\ memory' = memory
    BY <1>1, <1>2 DEF Rise, MemoryReset, CoreClock, Idle, Ask, Wait, Take, SecondWord, Reset
  <2>2. CASE mem_valid
    <3>1. request # <<>> /\ request' = <<>> /\ answer' = <<>>
      BY <2>1, <2>2 DEF request, answer
    <3>2. QED
      BY <2>1, <3>1 DEF Native!NativeNext, Native!Abort, request, answer, Asked
  <2>3. CASE ~mem_valid
    BY <2>1, <2>3 DEF Native!nativeVars
  <2>4. QED
    BY <2>2, <2>3
<1>3. CASE resetn /\ ~mem_valid
  <2>1. memory' = memory /\ ~mem_ready'
    BY <1>3, MemoryRests DEF Rise, mem_ready
  <2>2. CASE mem_valid'
    <3>1. request = <<>> /\ answer = <<>> /\ answer' = <<>> /\ request' = <<Asked'>>
      BY <1>3, <2>1, <2>2 DEF request, answer
    <3>2. Asked' \in Native!Request
      BY DEF BusInv, TypeOK, Asked, Native!Request, Native!Words, Words
    <3>3. QED
      BY <2>1, <3>1, <3>2 DEF Native!NativeNext, Native!Ask, request, answer, Asked
  <2>3. CASE ~mem_valid'
    BY <1>3, <2>1, <2>3 DEF Native!nativeVars
  <2>4. QED
    BY <2>2, <2>3
<1>4. CASE resetn /\ mem_valid /\ ~mem_ready
  <2>1. Memory(D) /\ UNCHANGED <<mem_valid, mem_addr, mem_wstrb, mem_wdata>>
    BY <1>1, <1>4 DEF Rise, CoreClock, Idle, Ask, Wait, Take, SecondWord, Reset
  <2>2. CASE xfer_done
    <3>1. memory' = memory /\ ~mem_ready'
      BY <2>1, <2>2, MemoryRests DEF mem_ready
    <3>2. QED
      BY <1>4, <2>1, <3>1 DEF Native!nativeVars
  <2>3. QED
    BY <1>4, <2>1, <2>2, WaitingServes
<1>5. CASE resetn /\ mem_valid /\ mem_ready
  <2>1. ~xfer_done
    BY <1>5 DEF BusInv, HeldBack
  <2>2. memory' = memory /\ ~mem_ready'
    BY <1>1, <1>5, <2>1, MemoryAnswered DEF Rise, mem_ready
  <2>3. answer # <<>> /\ request[1] = Asked /\ answer' = <<>>
    BY <1>5, <2>2 DEF request, answer
  <2>4. CASE ~mem_valid'
    BY <2>2, <2>3, <2>4 DEF Native!NativeNext, Native!Take, request, answer, Asked
  <2>5. CASE mem_valid'
    <3>1. mem_wstrb = {} /\ mem_wstrb' = {}
      BY <1>1, <1>5, <2>5 DEF CoreClock, Idle, Ask, Wait, Take, SecondWord, Reset, IsWrite
    <3>2. Asked \in Native!Reads /\ Asked' \in Native!Reads
      BY <3>1 DEF BusInv, TypeOK, Asked, Native!Reads, Native!Request, Native!Words, Words
    <3>3. request' = <<Asked'>>
      BY <2>5 DEF request
    <3>4. QED
      BY <2>2, <2>3, <3>2, <3>3 DEF Native!NativeNext, Native!Take, request, answer, Asked
  <2>6. QED
    BY <2>4, <2>5
<1>6. QED
  BY <1>2, <1>3, <1>4, <1>5

(* The bridge and the memory do what the core is promised.                    *)
THEOREM ImplementsNative == Spec => ServesCore
PROOF
<1>1. ASSUME BusInv, BusInv', [Next]_vars PROVE [Native!NativeNext]_(Native!nativeVars)
  <2>1. CASE UNCHANGED vars
    BY <2>1 DEF vars, portVars, busVars, memVars, latches, Native!nativeVars, mem_ready
  <2>2. CASE Next
    BY <1>1, <2>2, RiseServes, FallServes DEF Next
  <2>3. QED
    BY <1>1, <2>1, <2>2
<1>2. QED
  BY BusCorrect, InitServes, <1>1, PTL DEF Spec, ServesCore, Native!NativeSpec
=============================================================================
