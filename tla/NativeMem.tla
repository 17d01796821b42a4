------------------------------ MODULE NativeMem ------------------------------
(***************************************************************************)
(* What the native memory interface of src/picorv32.v promises the core,    *)
(* whatever bus is behind it: a request that is made is performed once,      *)
(* between the request and its answer, and a read is answered with what the  *)
(* memory holds then.  The core makes one request at a time.                *)
(***************************************************************************)
CONSTANTS Addrs,      \* the word addresses
          Lanes,      \* the byte lanes of a word
          Bytes       \* what a lane may hold

Words == [Lanes -> Bytes]
Request == [addr : Addrs, wstrb : SUBSET Lanes, wdata : Words]
Reads == {r \in Request : r.wstrb = {}}

VARIABLES memory,     \* the words of the memory
          request,    \* <<r>> while r is asked for, and <<>>
          answer      \* <<w>> once the request is performed, and <<>>
nativeVars == <<memory, request, answer>>

(* The memory after a request, and the word it is answered with: the answer  *)
(* to a write means nothing.                                                 *)
Written(m, r) ==
  [m EXCEPT ![r.addr] = [b \in Lanes |-> IF b \in r.wstrb THEN r.wdata[b] ELSE @[b]]]
Answers(m, r) == IF r.wstrb = {} THEN {m[r.addr]} ELSE Words

Ask ==
  /\ request = <<>>
  /\ \E r \in Request : request' = <<r>>
  /\ UNCHANGED <<memory, answer>>
Perform ==
  /\ request # <<>> /\ answer = <<>>
  /\ memory' = Written(memory, request[1])
  /\ \E w \in Answers(memory, request[1]) : answer' = <<w>>
  /\ UNCHANGED request

(* The core takes the answer, and goes on to a second word of an instruction  *)
(* at once.                                                                  *)
Take ==
  /\ answer # <<>>
  /\ \/ request' = <<>>
     \/ request[1] \in Reads /\ \E r \in Reads : request' = <<r>>
  /\ answer' = <<>>
  /\ UNCHANGED memory

(* A reset, after which the memory has or has not performed the request.      *)
Abort ==
  /\ request # <<>>
  /\ request' = <<>> /\ answer' = <<>>
  /\ \/ UNCHANGED memory
     \/ answer = <<>> /\ memory' = Written(memory, request[1])

NativeInit == memory \in [Addrs -> Words] /\ request = <<>> /\ answer = <<>>
NativeNext == Ask \/ Perform \/ Take \/ Abort
NativeSpec == NativeInit /\ [][NativeNext]_nativeVars

(* Every request is answered, but for a reset.                               *)
Served == (request # <<>> /\ answer = <<>>) ~> (answer # <<>> \/ request = <<>>)
=============================================================================
