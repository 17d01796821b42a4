---------------------------- MODULE WbBridgeProof ----------------------------
(***************************************************************************)
(* The bridge of picorv32_wb with the memory behind it implements the native  *)
(* memory interface, for every set of addresses, lanes and lane values and    *)
(* for a slave of any bounded delay.                                         *)
(***************************************************************************)
EXTENDS WbBridge, TLAPS

(* Every register keeps its type.                                            *)
TypeOK ==
  /\ resetn \in BOOLEAN /\ mem_valid \in BOOLEAN
  /\ mem_addr \in Addrs /\ mem_wstrb \in SUBSET Lanes /\ mem_wdata \in Words
  /\ state \in {"IDLE", "WBSTART", "WBEND"}
  /\ mem_ready \in BOOLEAN /\ mem_rdata \in Words
  /\ wbm_adr_o \in Addrs /\ wbm_dat_o \in Words /\ wbm_sel_o \in SUBSET Lanes
  /\ wbm_we_o \in BOOLEAN /\ wbm_stb_o \in BOOLEAN
  /\ wb_ack_o \in BOOLEAN /\ wb_dat_o \in Words /\ adr_r \in Addrs
  /\ memory \in [Addrs -> Words]

(* Between two transfers the bus is quiet.                                   *)
Quiet == state # "WBSTART" => ~wbm_stb_o /\ ~wb_ack_o

(* During a transfer the bus carries the request of the core, and with the    *)
(* acknowledgement the memory has the address and the word of the request.    *)
Carries ==
  state = "WBSTART" =>
    /\ mem_valid /\ wbm_stb_o
    /\ wbm_adr_o = mem_addr /\ wbm_dat_o = mem_wdata /\ wbm_sel_o = mem_wstrb
    /\ wbm_we_o = IsWrite
    /\ wb_ack_o => adr_r = mem_addr /\ wb_dat_o = memory[mem_addr]

(* The bridge is ready for a request exactly after its transfer.              *)
ReadyAfter ==
  /\ state = "WBEND" => mem_valid /\ mem_ready
  /\ mem_valid /\ mem_ready => state = "WBEND"

BusInv == TypeOK /\ Quiet /\ Carries /\ ReadyAfter

-----------------------------------------------------------------------------
(* A word with some lanes of another is a word.                               *)
LEMMA WordsLemma ==
  /\ ZeroWord \in Words
  /\ \A w, v \in Words, s \in SUBSET Lanes :
       [b \in Lanes |-> IF b \in s THEN w[b] ELSE v[b]] \in Words
BY ZeroAssumption DEF ZeroWord, Words

(* What a clock edge does to the memory while it is written and when not.     *)
LEMMA RamLemma ==
  ASSUME TypeOK, Ram
  PROVE  /\ memory' \in [Addrs -> Words] /\ wb_dat_o' \in Words
         /\ adr_r' \in Addrs /\ wb_ack_o' \in BOOLEAN
         /\ wb_ack_o' => resetn /\ wbm_stb_o /\ ~wb_ack_o
         /\ ~ram_we => memory' = memory
PROOF
<1>1. memory' \in [Addrs -> Words]
  BY WordsLemma DEF TypeOK, Ram
<1>2. QED
  BY <1>1, ZeroAssumption DEF TypeOK, Ram, Acknowledge

(* The invariant holds initially.                                             *)
LEMMA BusInit == Init => BusInv
BY ZeroAssumption, WordsLemma
   DEF Init, PortInit, BusInv, TypeOK, Quiet, Carries, ReadyAfter

(* Every step keeps the invariant.                                            *)
LEMMA BusStep == BusInv /\ [Next]_vars => BusInv'
PROOF
<1> SUFFICES ASSUME BusInv, [Next]_vars PROVE BusInv'
  OBVIOUS
<1> USE DEF BusInv
<1>1. CASE UNCHANGED vars
  BY <1>1 DEF vars, portVars, busVars, ramVars, TypeOK, Quiet, Carries, ReadyAfter, IsWrite
<1>2. CASE Next
  <2>1. CoreClock(mem_ready) /\ Bridge /\ Ram
    BY <1>2 DEF Next, Clock
  <2>2. TypeOK'
    <3>1. /\ resetn' \in BOOLEAN /\ mem_valid' \in BOOLEAN
          /\ mem_addr' \in Addrs /\ mem_wstrb' \in SUBSET Lanes /\ mem_wdata' \in Words
      BY <2>1 DEF CoreClock, Idle, Ask, Wait, Take, SecondWord, Reset, TypeOK
    <3>2. /\ state' \in {"IDLE", "WBSTART", "WBEND"}
          /\ mem_ready' \in BOOLEAN /\ mem_rdata' \in Words
          /\ wbm_adr_o' \in Addrs /\ wbm_dat_o' \in Words /\ wbm_sel_o' \in SUBSET Lanes
          /\ wbm_we_o' \in BOOLEAN /\ wbm_stb_o' \in BOOLEAN
      BY <2>1, ZeroAssumption, WordsLemma
         DEF Bridge, BridgeStart, BridgeIdle, BridgeWait, BridgeAck, BridgeEnd, BridgeReset,
             TypeOK, busVars, IsWrite
    <3>3. QED
      BY <2>1, <3>1, <3>2, RamLemma DEF TypeOK
  <2>3. /\ wb_ack_o' => resetn /\ wbm_stb_o /\ ~wb_ack_o
        /\ ~ram_we => memory' = memory
    BY <2>1, RamLemma
  <2>4. Quiet'
    BY <2>1, <2>3
       DEF Bridge, BridgeStart, BridgeIdle, BridgeWait, BridgeAck, BridgeEnd, BridgeReset,
           Quiet, Carries, busVars
  <2>5. Carries'
    <3> SUFFICES ASSUME state' = "WBSTART" PROVE Carries'
      BY DEF Carries
    <3>1. BridgeStart \/ (BridgeWait /\ state = "WBSTART")
      BY <2>1 DEF Bridge, BridgeIdle, BridgeWait, BridgeAck, BridgeEnd, BridgeReset
    <3>2. mem_valid /\ ~mem_ready /\ resetn
      BY <3>1 DEF BridgeStart, BridgeWait, Carries, ReadyAfter
    <3>3. mem_valid' /\ UNCHANGED <<mem_addr, mem_wstrb, mem_wdata>>
      BY <2>1, <3>2 DEF CoreClock, Idle, Ask, Wait, Take, SecondWord, Reset
    <3>4. CASE BridgeStart
      BY <3>3, <3>4, <2>3 DEF BridgeStart, Carries, Quiet, IsWrite
    <3>5. CASE BridgeWait /\ state = "WBSTART"
      <4>1. ~ram_we /\ memory' = memory
        BY <3>5, <2>3 DEF BridgeWait, ram_we
      <4>2. adr_r' = mem_addr /\ wb_dat_o' = memory[mem_addr]
        BY <2>1, <3>2, <3>5 DEF Ram, Carries
      <4>3. QED
        BY <3>3, <3>5, <4>1, <4>2 DEF BridgeWait, busVars, Carries, IsWrite
    <3>6. QED
      BY <3>1, <3>4, <3>5
  <2>6. ReadyAfter'
    <3>1. CASE resetn /\ BridgeStart
      <4>1. mem_valid /\ ~mem_ready /\ mem_ready' = mem_ready /\ state' = "WBSTART"
        BY <3>1 DEF BridgeStart, ReadyAfter
      <4>2. QED
        BY <4>1 DEF ReadyAfter
    <3>2. CASE resetn /\ BridgeIdle
      BY <3>2 DEF BridgeIdle, ReadyAfter
    <3>3. CASE resetn /\ BridgeWait
      BY <3>3 DEF BridgeWait, busVars, Carries, ReadyAfter
    <3>4. CASE resetn /\ BridgeAck
      <4>1. mem_valid /\ ~mem_ready
        BY <3>4 DEF BridgeAck, Carries, ReadyAfter
      <4>2. mem_valid'
        BY <2>1, <3>4, <4>1 DEF CoreClock, Idle, Ask, Wait, Take, SecondWord, Reset
      <4>3. QED
        BY <3>4, <4>2 DEF BridgeAck, ReadyAfter
    <3>5. CASE resetn /\ BridgeEnd
      BY <3>5 DEF BridgeEnd, ReadyAfter
    <3>6. CASE ~resetn
      <4>1. ~mem_valid' /\ state' = "IDLE"
        BY <2>1, <3>6
           DEF CoreClock, Idle, Ask, Wait, Take, SecondWord, Reset, Bridge, BridgeStart, BridgeIdle,
               BridgeWait, BridgeAck, BridgeEnd, BridgeReset
      <4>2. QED
        BY <4>1 DEF ReadyAfter
    <3>7. QED
      BY <2>1, <3>1, <3>2, <3>3, <3>4, <3>5, <3>6 DEF Bridge, BridgeReset
  <2>7. QED
    BY <2>2, <2>4, <2>5, <2>6
<1>3. QED
  BY <1>1, <1>2

(* The bus carries one request at a time, quietly in between, and the bridge  *)
(* is ready exactly after the transfer of the request it answers.             *)
THEOREM BusCorrect == Spec => []BusInv
BY BusInit, BusStep, PTL DEF Spec

-----------------------------------------------------------------------------
(* The core's request and the memory's answer, as NativeMem sees them.        *)
Asked == [addr |-> mem_addr, wstrb |-> mem_wstrb, wdata |-> mem_wdata]
request == IF mem_valid THEN <<Asked>> ELSE <<>>
answer == IF mem_valid /\ mem_ready THEN <<mem_rdata>> ELSE <<>>

(* What the memory writes when the request of the core is on the bus, and     *)
(* that a read leaves it as it is.                                           *)
LEMMA WritesAsked ==
  ASSUME BusInv
  PROVE  /\ [memory EXCEPT ![mem_addr] =
                [b \in Lanes |-> IF b \in mem_wstrb THEN mem_wdata[b] ELSE @[b]]]
              = Native!Written(memory, Asked)
         /\ ~IsWrite => memory = Native!Written(memory, Asked)
PROOF
<1>1. Native!Written(memory, Asked)
        = [memory EXCEPT ![mem_addr] =
             [b \in Lanes |-> IF b \in mem_wstrb THEN mem_wdata[b] ELSE @[b]]]
  BY DEF Native!Written, Asked
<1>2. ASSUME mem_wstrb = {}
      PROVE  [b \in Lanes |-> IF b \in mem_wstrb THEN mem_wdata[b] ELSE memory[mem_addr][b]]
               = memory[mem_addr]
  BY <1>2 DEF BusInv, TypeOK, Words
<1>3. QED
  BY <1>1, <1>2 DEF BusInv, TypeOK, IsWrite

(* The initial states are initial states of the native interface.             *)
LEMMA InitServes == Init => Native!NativeInit
BY DEF Init, PortInit, Native!NativeInit, Native!Words, Words

(* A clock edge of the bridge is a step of the native interface or none.      *)
LEMMA StepServes ==
  ASSUME BusInv, BusInv', [Next]_vars
  PROVE  [Native!NativeNext]_(Native!nativeVars)
PROOF
<1>1. CASE UNCHANGED vars
  BY <1>1 DEF vars, portVars, busVars, ramVars, Native!nativeVars
<1>2. CASE Next
  <2>1. CoreClock(mem_ready) /\ Bridge /\ Ram
    BY <1>2 DEF Next, Clock
  <2>2. CASE resetn /\ ~mem_valid
    <3>1. ~mem_ready' /\ ~ram_we
      BY <2>1, <2>2 DEF Bridge, BridgeStart, BridgeIdle, BridgeWait, BridgeAck, BridgeEnd, BridgeReset,
                        BusInv, Quiet, Carries, ReadyAfter, ram_we
    <3>2. memory' = memory
      BY <2>1, <3>1, RamLemma DEF BusInv
    <3>3. CASE mem_valid'
      <4>1. request = <<>> /\ answer = <<>> /\ answer' = <<>> /\ request' = <<Asked'>>
        BY <2>2, <3>1, <3>3 DEF request, answer
      <4>2. Asked' \in Native!Request
        BY DEF BusInv, TypeOK, Asked, Native!Request, Native!Words, Words
      <4>3. QED
        BY <3>2, <4>1, <4>2 DEF Native!NativeNext, Native!Ask, request, answer, Asked
    <3>4. CASE ~mem_valid'
      BY <2>2, <3>2, <3>4 DEF Native!nativeVars
    <3>5. QED
      BY <3>3, <3>4
  <2>3. CASE resetn /\ mem_valid /\ ~mem_ready
    <3>1. mem_valid' /\ Asked' = Asked
      BY <2>1, <2>3 DEF CoreClock, Idle, Ask, Wait, Take, SecondWord, Reset, Asked
    <3>2. request # <<>> /\ request[1] = Asked /\ answer = <<>> /\ request' = request
      BY <2>3, <3>1 DEF request, answer
    <3>3. CASE wb_ack_o
      <4>1. BridgeAck
        BY <2>1, <2>3, <3>3
           DEF Bridge, BridgeStart, BridgeIdle, BridgeWait, BridgeAck, BridgeEnd, BridgeReset,
               BusInv, Quiet, ReadyAfter
      <4>2. /\ wbm_stb_o /\ wbm_dat_o = mem_wdata /\ wbm_sel_o = mem_wstrb /\ wbm_we_o = IsWrite
            /\ adr_r = mem_addr /\ wb_dat_o = memory[mem_addr]
        BY <3>3, <4>1 DEF BridgeAck, BusInv, Carries
      <4>3. memory' = Native!Written(memory, Asked)
        BY <2>1, <3>3, <4>2, WritesAsked DEF Ram, ram_we
      <4>4. mem_rdata' \in Native!Answers(memory, Asked) /\ answer' = <<mem_rdata'>>
        BY <3>1, <4>1, <4>2 DEF BridgeAck, answer, Asked, Native!Answers, Native!Words, Words, BusInv, TypeOK
      <4>5. QED
        BY <3>2, <4>3, <4>4 DEF Native!NativeNext, Native!Perform, request, answer, Asked
    <3>4. CASE ~wb_ack_o
      <4>1. ~mem_ready'
        BY <2>1, <2>3, <3>4
           DEF Bridge, BridgeStart, BridgeIdle, BridgeWait, BridgeAck, BridgeEnd, BridgeReset, busVars
      <4>2. memory' = memory
        BY <2>1, <3>4, RamLemma DEF BusInv, ram_we
      <4>3. QED
        BY <2>3, <3>1, <4>1, <4>2 DEF Native!nativeVars, Asked
    <3>5. QED
      BY <3>3, <3>4
  <2>4. CASE resetn /\ mem_valid /\ mem_ready
    <3>1. BridgeEnd
      BY <2>1, <2>4 DEF Bridge, BridgeStart, BridgeIdle, BridgeWait, BridgeAck, BridgeEnd, BridgeReset,
                        BusInv, ReadyAfter
    <3>2. memory' = memory
      BY <2>1, <3>1, RamLemma DEF BridgeEnd, BusInv, Quiet, ram_we
    <3>3. answer # <<>> /\ request[1] = Asked /\ answer' = <<>>
      BY <2>4, <3>1 DEF BridgeEnd, request, answer
    <3>4. CASE ~mem_valid'
      BY <3>2, <3>3, <3>4 DEF Native!NativeNext, Native!Take, request, answer, Asked
    <3>5. CASE mem_valid'
      <4>1. mem_wstrb = {} /\ mem_wstrb' = {}
        BY <2>1, <2>4, <3>5 DEF CoreClock, Idle, Ask, Wait, Take, SecondWord, Reset, IsWrite
      <4>2. Asked \in Native!Reads /\ Asked' \in Native!Reads
        BY <4>1 DEF BusInv, TypeOK, Asked, Native!Reads, Native!Request, Native!Words, Words
      <4>3. request' = <<Asked'>>
        BY <3>5 DEF request
      <4>4. QED
        BY <3>2, <3>3, <4>2, <4>3 DEF Native!NativeNext, Native!Take, request, answer, Asked
    <3>6. QED
      BY <3>4, <3>5
  <2>5. CASE ~resetn
    <3>1. ~mem_valid'
      BY <2>1, <2>5 DEF CoreClock, Idle, Ask, Wait, Take, SecondWord, Reset
    <3>2. CASE ~mem_valid
      <4>1. memory' = memory
        BY <2>1, <3>2, RamLemma DEF BusInv, Quiet, Carries, ram_we
      <4>2. QED
        BY <3>1, <3>2, <4>1 DEF Native!nativeVars
    <3>3. CASE mem_valid
      <4>1. request # <<>> /\ request[1] = Asked /\ request' = <<>> /\ answer' = <<>>
        BY <3>1, <3>3 DEF request, answer
      <4>2. CASE ~ram_we
        <5>1. memory' = memory
          BY <2>1, <4>2, RamLemma DEF BusInv
        <5>2. QED
          BY <4>1, <5>1 DEF Native!NativeNext, Native!Abort, request, answer, Asked
      <4>3. CASE ram_we
        <5>1. state = "WBSTART"
          BY <4>3 DEF ram_we, BusInv, Quiet
        <5>2. /\ wbm_dat_o = mem_wdata /\ wbm_sel_o = mem_wstrb /\ adr_r = mem_addr /\ IsWrite
              /\ answer = <<>>
          BY <4>3, <5>1 DEF ram_we, BusInv, Carries, ReadyAfter, answer
        <5>3. memory' = Native!Written(memory, Asked)
          BY <2>1, <4>3, <5>2, WritesAsked DEF Ram
        <5>4. QED
          BY <4>1, <5>2, <5>3 DEF Native!NativeNext, Native!Abort, request, answer, Asked
      <4>4. QED
        BY <4>2, <4>3
    <3>4. QED
      BY <3>2, <3>3
  <2>6. QED
    BY <2>2, <2>3, <2>4, <2>5
<1>3. QED
  BY <1>1, <1>2

(* The bridge and the memory do what the core is promised.                    *)
THEOREM ImplementsNative == Spec => ServesCore
PROOF
<1>1. BusInv /\ BusInv' /\ [Next]_vars => [Native!NativeNext]_(Native!nativeVars)
  BY StepServes
<1>2. QED
  BY BusCorrect, InitServes, <1>1, PTL DEF Spec, ServesCore, Native!NativeSpec
=============================================================================
