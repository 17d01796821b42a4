----------------------------- MODULE ProgramsProof -----------------------------
(***************************************************************************)
(* Proofs about two programs that run on the core, and the UART they print    *)
(* through.  Of module SocConsole, for every range of the cycle counter,     *)
(* time-out and duration of a print: the lamps turn over on time.  Of module *)
(* Dhrystone, for every number of runs: it leaves the values it should.  Of  *)
(* module SimpleUart, for every divider, default divider and set of bytes:   *)
(* what the far end delivers is what was sent.  While a byte is on the line  *)
(* the receiver follows the transmitter at a fixed distance; an idle frame   *)
(* lasts longer than whatever the receiver believes to receive.              *)
(***************************************************************************)
EXTENDS SocConsole, Dhrystone, SimpleUart, TLAPS

ConsoleSpec == ConsoleInit /\ [][ConsoleNext]_consoleVars

(* During a wait the counter has advanced by the cycles that really passed,   *)
(* in its width, and these are too few for it to come round again.           *)
CycleInv ==
  /\ cycle \in 0..(CycleRange - 1) /\ cycles_begin \in 0..(CycleRange - 1)
  /\ Waiting => /\ since \in 0..(Timeout + 1) /\ Timeout + 2 < CycleRange
                /\ cycle = (cycles_begin + since) % CycleRange

(* Remainders of numbers less than one turn away. *)
LEMMA Remainder ==
  ASSUME NEW m \in Nat \ {0}, NEW a \in Int
  PROVE  /\ a % m \in 0..(m - 1)
         /\ 0 <= a /\ a < m => a % m = a
         /\ m <= a /\ a < 2 * m => a % m = a - m
         /\ -m <= a /\ a < 0 => a % m = a + m
<1>1. a % m \in 0..(m - 1)
  OBVIOUS
<1>2. 0 <= a /\ a < m => a % m = a
  OBVIOUS
<1>3. m <= a /\ a < 2 * m => a % m = a - m
  OBVIOUS
<1>4. -m <= a /\ a < 0 => a % m = a + m
  OBVIOUS
<1>5. QED BY <1>1, <1>2, <1>3, <1>4

(* Less than one turn after its start a counter shows by its difference how   *)
(* long that is ago, and goes on doing so.                                   *)
LEMMA Elapsed ==
  ASSUME NEW m \in Nat \ {0}, NEW start \in 0..(m - 1), NEW s \in 0..(m - 1)
  PROVE  (((start + s) % m) - start) % m = s
<1>1. CASE start + s < m
  <2>1. (start + s) % m = start + s
    BY <1>1
  <2>2. ((start + s) % m) - start = s
    BY <2>1
  <2>3. QED BY <2>2, Remainder
<1>2. CASE start + s >= m
  <2>1. (start + s) % m = start + s - m
    BY <1>2
  <2>2. ((start + s) % m) - start = s - m
    BY <2>1
  <2>3. (s - m) % m = (s - m) + m
    BY Remainder
  <2>4. QED BY <2>2, <2>3
<1>3. QED BY <1>1, <1>2

LEMMA Onwards ==
  ASSUME NEW m \in Nat \ {0}, NEW start \in 0..(m - 1), NEW s \in 0..(m - 1), s + 1 < m
  PROVE  (((start + s) % m) + 1) % m = (start + (s + 1)) % m
<1>1. CASE start + s < m
  <2>1. (start + s) % m = start + s
    BY <1>1
  <2>2. QED BY <2>1
<1>2. CASE start + s >= m
  <2>1. (start + s) % m = start + s - m
    BY <1>2
  <2>2. (start + s - m + 1) % m = start + s - m + 1
    BY <1>2
  <2>3. (start + (s + 1)) % m = start + (s + 1) - m
    BY <1>2
  <2>4. QED BY <2>1, <2>2, <2>3
<1>3. QED BY <1>1, <1>2

LEMMA AtStart ==
  ASSUME NEW m \in Nat \ {0}, NEW start \in 0..(m - 1)
  PROVE  (start + 0) % m = start
OBVIOUS

(* In a wait the test of the firmware tells the time that really passed. *)
LEMMA TimedOutExact ==
  ASSUME CycleInv, Waiting
  PROVE  TimedOut <=> since > Timeout
<1>1. since \in 0..(CycleRange - 1) /\ CycleRange \in Nat \ {0} /\ Timeout \in Nat
  BY ConsoleAssumption DEF CycleInv
<1>2. (cycle - cycles_begin) % CycleRange = since
  BY <1>1, Elapsed DEF CycleInv
<1>3. QED BY <1>2 DEF TimedOut

(* What a turn of a waiting loop does to the times, and what starts a wait.  *)
LEMMA PollsInv ==
  ASSUME CycleInv, NEW c, Polls(c)
  PROVE  /\ cycle' \in 0..(CycleRange - 1) /\ cycles_begin' \in 0..(CycleRange - 1)
         /\ since' \in 0..(Timeout + 1) /\ Timeout + 2 < CycleRange
         /\ cycle' = (cycles_begin' + since') % CycleRange
<1>1. /\ Waiting /\ Timeout \in Nat /\ CycleRange \in Nat \ {0} /\ Timeout + 2 < CycleRange
      /\ since \in 0..(Timeout + 1) /\ cycle = (cycles_begin + since) % CycleRange
  BY ConsoleAssumption DEF CycleInv, Polls
<1>2. CASE ~TimedOut
  <2>1. cycle' = (cycle + 1) % CycleRange /\ since' = since + 1 /\ cycles_begin' = cycles_begin
    BY <1>2 DEF Polls, Passes, Later
  <2>2. since <= Timeout
    BY <1>1, <1>2, TimedOutExact
  <2>3. cycle' = (cycles_begin + (since + 1)) % CycleRange
    <3>1. since \in 0..(CycleRange - 1) /\ since + 1 < CycleRange
      BY <1>1
    <3>2. cycles_begin \in 0..(CycleRange - 1)
      BY DEF CycleInv
    <3>3. (((cycles_begin + since) % CycleRange) + 1) % CycleRange = (cycles_begin + (since + 1)) % CycleRange
      BY <1>1, <3>1, <3>2, Onwards
    <3>4. QED BY <1>1, <2>1, <3>3
  <2>4. cycle' \in 0..(CycleRange - 1)
    BY <1>1, <2>1, Remainder DEF CycleInv
  <2>5. since' \in 0..(Timeout + 1)
    BY <1>1, <2>1, <2>2
  <2>6. QED BY <1>1, <2>1, <2>3, <2>4, <2>5 DEF CycleInv
<1>3. CASE TimedOut
  <2>1. PICK d \in Durations \cup {1} : StartsBefore(d)
    BY <1>3 DEF Polls
  <2>2. d \in 0..(Timeout + 1)
    BY <1>1, <2>1, ConsoleAssumption
  <2>3. cycle' = (cycle + d) % CycleRange /\ since' = d /\ cycles_begin' = cycle
    BY <2>1 DEF StartsBefore, Later
  <2>4. cycle' \in 0..(CycleRange - 1)
    BY <1>1, <2>2, <2>3, Remainder DEF CycleInv
  <2>5. QED BY <1>1, <2>2, <2>3, <2>4 DEF CycleInv
<1>4. QED BY <1>2, <1>3

LEMMA StartsInv ==
  ASSUME CycleInv, NEW d \in Durations, StartsBefore(d) \/ StartsAfter(d)
  PROVE  CycleInv'
<1>1. Timeout \in Nat /\ CycleRange \in Nat \ {0} /\ d \in 1..Timeout /\ Timeout + 2 < CycleRange
  BY ConsoleAssumption
<1>2. cycle' = (cycle + d) % CycleRange
  BY DEF StartsBefore, StartsAfter, Later
<1>3. cycle' \in 0..(CycleRange - 1)
  BY <1>1, <1>2, Remainder DEF CycleInv
<1>4. CASE StartsBefore(d)
  BY <1>1, <1>2, <1>3, <1>4 DEF StartsBefore, CycleInv
<1>5. CASE StartsAfter(d)
  <2>1. cycles_begin' = cycle' /\ since' = 0
    BY <1>5 DEF StartsAfter
  <2>2. (cycle' + 0) % CycleRange = cycle'
    BY <1>1, <1>3, AtStart
  <2>3. cycle' = (cycles_begin' + since') % CycleRange
    BY <2>1, <2>2
  <2>4. since' \in 0..(Timeout + 1) /\ cycles_begin' \in 0..(CycleRange - 1)
    BY <1>1, <1>3, <2>1
  <2>5. QED BY <1>1, <1>3, <2>3, <2>4 DEF CycleInv
<1>6. QED BY <1>4, <1>5

(* Outside a wait only the counters run. *)
LEMMA PassesInv ==
  ASSUME CycleInv, ~Waiting', NEW d \in Durations \cup {1}, Passes(d)
  PROVE  CycleInv'
<1>1. CycleRange \in Nat /\ d \in Nat
  BY ConsoleAssumption
<1>2. CycleRange # 0
  BY <1>1 DEF CycleInv
<1>3. cycle' = (cycle + d) % CycleRange /\ cycles_begin' = cycles_begin
  BY DEF Passes, Later
<1>4. cycle' \in 0..(CycleRange - 1)
  BY <1>1, <1>2, <1>3, Remainder DEF CycleInv
<1>5. QED BY <1>3, <1>4 DEF CycleInv

LEMMA InitCycle == ConsoleInit => CycleInv
BY ConsoleAssumption DEF ConsoleInit, CycleInv, Waiting

LEMMA StepCycle == CycleInv /\ [ConsoleNext]_consoleVars => CycleInv'
<1> SUFFICES ASSUME CycleInv, [ConsoleNext]_consoleVars PROVE CycleInv'
  OBVIOUS
<1>1. ASSUME NEW c, Polls(c) PROVE CycleInv'
  BY <1>1, PollsInv DEF CycleInv
<1>2. CASE Boot
  BY <1>2, StartsInv DEF Boot
<1>3. CASE Poll
  BY <1>1, <1>3 DEF Poll
<1>4. CASE KeepBooting \/ EndBoot \/ UnknownKey \/ Work \/ Memtest \/ StartEcho \/ Echo \/ EndEcho
  BY <1>1, <1>4 DEF KeepBooting, EndBoot, UnknownKey, Work, Memtest, StartEcho, Echo, EndEcho, Gets
<1>5. CASE Menu
  BY <1>5, PassesInv DEF Menu, Waiting
<1>6. CASE Prompt
  <2>1. CASE rep > 0
    BY <1>6, <2>1, StartsInv DEF Prompt
  <2>2. CASE ~(rep > 0)
    BY <1>6, <2>2, PassesInv DEF Prompt, Waiting
  <2>3. QED BY <2>1, <2>2
<1>7. CASE Listen
  BY <1>7, StartsInv DEF Listen
<1>8. CASE Type \/ UNCHANGED consoleVars
  BY <1>8 DEF Type, consoleVars, CycleInv, Waiting
<1>9. QED BY <1>2, <1>3, <1>4, <1>5, <1>6, <1>7, <1>8 DEF ConsoleNext, Firmware

(* While nobody types the lamps turn over exactly when more than the time-out *)
(* has really passed, wherever the wait begins and wherever rdcycle wraps.   *)
THEOREM TurnsOverOnTime == ConsoleSpec => PromptsOnTime
<1>1. ASSUME CycleInv, leds \in BOOLEAN, Poll
      PROVE  (leds' # leds) <=> (since > Timeout)
  <2>1. Waiting /\ leds' = (leds # TimedOut)
    BY <1>1 DEF Poll, Polls
  <2>2. TimedOut <=> since > Timeout
    BY <1>1, <2>1, TimedOutExact
  <2>3. TimedOut \in BOOLEAN
    BY DEF TimedOut
  <2>4. QED BY <1>1, <2>1, <2>2, <2>3
<1>2. CycleInv /\ leds \in BOOLEAN => [Poll => ((leds' # leds) <=> (since > Timeout))]_consoleVars
  BY <1>1
<1>3. ConsoleInit => leds \in BOOLEAN
  BY DEF ConsoleInit
<1>4. leds \in BOOLEAN /\ [ConsoleNext]_consoleVars => (leds \in BOOLEAN)'
  BY DEF ConsoleNext, Firmware, consoleVars, Boot, Poll, KeepBooting, EndBoot, Menu, Prompt, UnknownKey, Work, Memtest,
     StartEcho, Listen, Echo, EndEcho, Gets, Type
<1>5. QED BY <1>2, <1>3, <1>4, InitCycle, StepCycle, PTL DEF ConsoleSpec, PromptsOnTime

-----------------------------------------------------------------------------
(* Dhrystone: the types of its variables.                                    *)
Texts == {NoString, "1'ST STRING", "2'ND STRING", "3'RD STRING", "SOME STRING"}
Record ==
  [Ptr_Comp : Node \cup {Null}, Discr : Int, Enum_Comp : Int, Int_Comp : Int, Str_Comp : Texts]
Globals ==
  [Int_Glob : Int, Bool_Glob : BOOLEAN, Ch_1_Glob : Int, Ch_2_Glob : Int, Arr_1 : [0..49 -> Int],
   Arr_2 : [{8, 28} -> [0..49 -> Int]], rec : [Node -> Record]]
Locals == [Int_1 : Int, Int_2 : Int, Int_3 : Int, Enum : Int, Str_1 : Texts, Str_2 : Texts]

(* The records and globals that a run leaves. *)
RecordOf(enum, int) ==
  [Ptr_Comp |-> "Next", Discr |-> 0, Enum_Comp |-> enum, Int_Comp |-> int, Str_Comp |-> "SOME STRING"]
CharsAreSet(s) == s.Bool_Glob /\ s.Ch_1_Glob = 65 /\ s.Ch_2_Glob = 66
RunLeaves(s) ==
  /\ s.Int_Glob = 5 /\ CharsAreSet(s) /\ s.Arr_1[8] = 7
  /\ s.rec["Glob"] = RecordOf(2, 17) /\ s.rec["Next"] = RecordOf(1, 18)

(* How often the last of the printed values was counted, by the place in main. *)
Counted == IF stmt = "chars" THEN Run_Index ELSE Run_Index - 1
RunIsOver == stmt = "chars" \/ (stmt \in {"test", "done"} /\ Run_Index > 1)

(* The inductive invariant: the types; what main has set up; how far the runs  *)
(* are; and the locals and globals as the comments of main give them.        *)
PlaceInv == stmt \in {"init", "test", "run", "while", "chars", "done"}
DataInv == g \in Globals /\ l \in Locals /\ Run_Index \in Int /\ Ch_Index \in Int
BeginInv ==
  stmt # "init" =>
    /\ Run_Index \in Nat \ {0} /\ l.Str_1 = "1'ST STRING"
    /\ g.rec["Glob"] = RecordOf(2, g.rec["Glob"].Int_Comp)
    /\ g.Arr_2[8][7] = 10 + Counted
CountInv ==
  /\ stmt \in {"test", "run", "while", "chars"} => Run_Index <= Number_Of_Runs + 1
  /\ stmt \in {"run", "while", "chars"} => Run_Index <= Number_Of_Runs
  /\ stmt = "done" => Run_Index = Number_Of_Runs + 1
LocalsInv ==
  /\ stmt \in {"while", "chars"} => /\ CharsAreSet(g) /\ l.Int_2 = 3 /\ l.Enum = 1 /\ l.Str_2 = "2'ND STRING"
                                    /\ l.Int_1 = 2 \/ (l.Int_1 = 3 /\ l.Int_3 = 7)
  /\ stmt = "chars" => l.Int_1 = 3 /\ l.Int_3 = 7 /\ Ch_Index \in 65..67
  /\ stmt \in {"test", "done"} /\ Run_Index > 1 =>
       l = [Int_1 |-> 5, Int_2 |-> 13, Int_3 |-> 7, Enum |-> 1,
            Str_1 |-> "1'ST STRING", Str_2 |-> "2'ND STRING"]
GlobalsInv == RunIsOver => RunLeaves(g)
DhrystoneInv == PlaceInv /\ DataInv /\ BeginInv /\ CountInv /\ LocalsInv /\ GlobalsInv

DhrystoneSpec == DhrystoneInit /\ [][Main]_dhrystone

(* The codes and texts the proofs need. *)
LEMMA LetterCodes ==
  Letter("A") = 65 /\ Letter("B") = 66 /\ Letter("C") = 67 /\ Letter("R") = 82 /\ Letter("Y") = 89
BY DEF Letter

LEMMA StringNumbers == Number("1'ST STRING") = 1 /\ Number("2'ND STRING") = 2
<1>1. Str[1] = "1'ST STRING" /\ Str[2] = "2'ND STRING" /\ Str[3] = "3'RD STRING" /\ Str[4] = "SOME STRING"
  BY DEF Str
<1>2. \A k \in 1..4 : k = 1 \/ k = 2 \/ k = 3 \/ k = 4
  OBVIOUS
<1>3. 1 \in 1..4 /\ 2 \in 1..4
  OBVIOUS
<1>4. Number("1'ST STRING") = 1
  <2>1. \A k \in 1..4 : Str[k] = "1'ST STRING" => k = 1
    BY <1>1, <1>2
  <2>2. QED BY ONLY <1>1, <1>3, <2>1, Zenon DEF Number
<1>5. Number("2'ND STRING") = 2
  <2>1. \A k \in 1..4 : Str[k] = "2'ND STRING" => k = 2
    BY <1>1, <1>2
  <2>2. QED BY ONLY <1>1, <1>3, <2>1, Zenon DEF Number
<1>6. QED BY <1>4, <1>5

(* Func_2 finds the letters different and the first string below the second, *)
(* and changes nothing: its loop ends, and Bool_Glob is set after it.        *)
LEMMA SecondIsLarger ==
  ASSUME NEW s
  PROVE  /\ Func_2_ends(s, "1'ST STRING", "2'ND STRING")
         /\ Func_2(s, "1'ST STRING", "2'ND STRING") = [bool |-> FALSE, g |-> s]
<1>1. Str_Char("1'ST STRING", 2) = 82 /\ Str_Char("2'ND STRING", 3) = 89
  <2>1. <<"D", "H", "R", "Y">>[2 + 1] = "R" /\ <<"D", "H", "R", "Y">>[3 + 1] = "Y"
    OBVIOUS
  <2>2. QED BY <2>1, LetterCodes DEF Str_Char
<1>2. Func_1(s, 82, 89) = [enum |-> Ident_1, g |-> s]
  BY DEF Func_1
<1>3. ~(Order("1'ST STRING", "2'ND STRING") > 0)
  <2> DEFINE first == Number("1'ST STRING")  second == Number("2'ND STRING")
  <2>1. first = 1 /\ second = 2
    BY StringNumbers
  <2> HIDE DEF first, second
  <2>2. ~(first - second > 0)
    BY <2>1
  <2> QED BY ONLY <2>2, Zenon DEF Order, first, second
<1>4. Letter("A") # Letter("R") /\ [enum |-> Ident_1, g |-> s].g = s /\ [enum |-> Ident_1, g |-> s].enum = Ident_1
  BY LetterCodes
<1>5. QED BY ONLY <1>1, <1>2, <1>3, <1>4, Zenon DEF Func_2_ends, Func_2

(* What the procedures that Func_2 follows do to the globals.                *)
SameButChars(t, s) == t.rec = s.rec /\ t.Arr_1 = s.Arr_1 /\ t.Arr_2 = s.Arr_2 /\ t.Int_Glob = s.Int_Glob

(* An assignment to the fields of a record of this type. *)
LEMMA FirstCharIsSet ==
  ASSUME NEW s \in Globals, NEW c \in Int, NEW b \in BOOLEAN
  PROVE  LET t == [s EXCEPT !.Ch_1_Glob = c, !.Bool_Glob = b]
         IN t \in Globals /\ t.Ch_1_Glob = c /\ SameButChars(t, s)
BY DEF Globals, SameButChars
LEMMA SecondCharIsSet ==
  ASSUME NEW s \in Globals, NEW c \in Int, NEW b \in BOOLEAN
  PROVE  LET t == [s EXCEPT !.Bool_Glob = b, !.Ch_2_Glob = c]
         IN t \in Globals /\ t.Ch_1_Glob = s.Ch_1_Glob /\ t.Ch_2_Glob = c /\ SameButChars(t, s)
BY DEF Globals, SameButChars

(* Proc_5, Proc_4 and the assignment to Bool_Glob set the characters and the  *)
(* flag; Proc_8 sets the arrays and counts the run in one of them.           *)
LEMMA CompareGlobals ==
  ASSUME NEW s \in Globals
  PROVE  LET t == [Proc_4(Proc_5(s)) EXCEPT !.Bool_Glob = TRUE]
         IN t \in Globals /\ CharsAreSet(t) /\ SameButChars(t, s)
<1> DEFINE five == Proc_5(s)  four == Proc_4(five)
<1>1. five \in Globals /\ five.Ch_1_Glob = 65 /\ SameButChars(five, s)
  <2>1. five = [s EXCEPT !.Ch_1_Glob = 65, !.Bool_Glob = FALSE]
    BY ONLY LetterCodes, Zenon DEF Proc_5
  <2>2. 65 \in Int
    OBVIOUS
  <2> HIDE DEF five
  <2>3. LET t == [s EXCEPT !.Ch_1_Glob = 65, !.Bool_Glob = FALSE]
        IN t \in Globals /\ t.Ch_1_Glob = 65 /\ SameButChars(t, s)
    BY <2>2, FirstCharIsSet
  <2> QED BY ONLY <2>1, <2>3, Zenon
<1> HIDE DEF five
<1>2. four \in Globals /\ four.Ch_1_Glob = 65 /\ four.Ch_2_Glob = 66 /\ SameButChars(four, five)
  <2>1. four = [five EXCEPT !.Bool_Glob = TRUE, !.Ch_2_Glob = 66]
    <3>1. (five.Ch_1_Glob = Letter("A") \/ five.Bool_Glob) = TRUE
      BY <1>1, LetterCodes, Zenon
    <3> QED BY ONLY <3>1, LetterCodes, Zenon DEF Proc_4
  <2>2. 66 \in Int
    OBVIOUS
  <2> HIDE DEF four
  <2>3. LET t == [five EXCEPT !.Bool_Glob = TRUE, !.Ch_2_Glob = 66]
        IN t \in Globals /\ t.Ch_1_Glob = five.Ch_1_Glob /\ t.Ch_2_Glob = 66 /\ SameButChars(t, five)
    BY <1>1, <2>2, SecondCharIsSet
  <2> QED BY ONLY <1>1, <2>1, <2>3, Zenon
<1> HIDE DEF four
<1>3. QED BY <1>1, <1>2 DEF Globals, CharsAreSet, SameButChars, five, four

LEMMA ArraysAreFilled ==
  ASSUME NEW s \in Globals
  PROVE  LET t == Proc_8(s, 3, 7)
         IN /\ t \in Globals /\ (CharsAreSet(s) => CharsAreSet(t))
            /\ t.rec = s.rec /\ t.Arr_1[8] = 7 /\ t.Arr_2[8][7] = s.Arr_2[8][7] + 1 /\ t.Int_Glob = 5
<1>0. PICK five \in Int : five = 5
  OBVIOUS
<1> DEFINE arr_1 == [s.Arr_1 EXCEPT ![8] = 7, ![9] = 7, ![38] = 8]
           row == [s.Arr_2[8] EXCEPT ![8] = 8, ![9] = 8, ![7] = @ + 1]
           far == [s.Arr_2[28] EXCEPT ![8] = 7]
           arr_2 == [s.Arr_2 EXCEPT ![8] = row, ![28] = far]
           t == [s EXCEPT !.Arr_1 = arr_1, !.Arr_2 = arr_2, !.Int_Glob = five]
<1>1. s.Arr_2[8] \in [0..49 -> Int] /\ s.Arr_2[28] \in [0..49 -> Int]
  BY DEF Globals
<1>2. row \in [0..49 -> Int] /\ row[7] = s.Arr_2[8][7] + 1
  BY <1>1
<1>3. far \in [0..49 -> Int]
  BY <1>1
<1>4. arr_1 \in [0..49 -> Int] /\ arr_1[8] = 7
  BY DEF Globals
<1>7. Proc_8(s, 3, 7) = t
  <2>1. 3 + 5 = 8 /\ 8 + 1 = 9 /\ 8 + 30 = 38 /\ 8 - 1 = 7 /\ 8 + 20 = 28
    OBVIOUS
  <2> QED BY ONLY <1>0, <2>1, Zenon DEF Proc_8
<1> HIDE DEF row, far
<1>6. arr_2 \in [{8, 28} -> [0..49 -> Int]] /\ arr_2[8] = row
  BY <1>2, <1>3 DEF Globals
<1> HIDE DEF arr_1, arr_2
<1>8. t \in Globals
  BY <1>4, <1>6 DEF Globals
<1>9. t.Arr_1 = arr_1 /\ t.Arr_2 = arr_2 /\ t.rec = s.rec /\ t.Int_Glob = five
  BY <1>4, <1>6 DEF Globals
<1>10. t.Ch_1_Glob = s.Ch_1_Glob /\ t.Ch_2_Glob = s.Ch_2_Glob /\ t.Bool_Glob = s.Bool_Glob
  BY <1>4, <1>6 DEF Globals
<1> HIDE DEF t
<1> QED BY <1>2, <1>4, <1>0, <1>6, <1>7, <1>8, <1>9, <1>10 DEF CharsAreSet

(* What the fields of a record are, and what it is with another one. *)
LEMMA RecordFields ==
  ASSUME NEW e \in Int, NEW i \in Int, NEW n \in Int
  PROVE  /\ RecordOf(e, i) \in Record
         /\ [RecordOf(e, i) EXCEPT !.Int_Comp = n] = RecordOf(e, n)
         /\ [RecordOf(e, i) EXCEPT !.Enum_Comp = n] = RecordOf(n, i)
         /\ [RecordOf(e, i) EXCEPT !.Ptr_Comp = "Next"] = RecordOf(e, i)
         /\ RecordOf(e, i).Ptr_Comp = "Next" /\ RecordOf(e, i).Discr = 0
         /\ RecordOf(e, i).Enum_Comp = e /\ RecordOf(e, i).Int_Comp = i
<1>0. PICK d \in Int : d = 0
  OBVIOUS
<1>1. PICK p, str : p = "Next" /\ str = "SOME STRING"
  OBVIOUS
<1> DEFINE R(x, y) == [Ptr_Comp |-> p, Discr |-> d, Enum_Comp |-> x, Int_Comp |-> y, Str_Comp |-> str]
<1>2. \A x, y : RecordOf(x, y) = R(x, y)
  BY <1>0, <1>1, Zenon DEF RecordOf
<1>3. d \in Int /\ str \in Texts /\ p \in Node \cup {Null}
  <2>2. str \in Texts
    BY <1>1, Zenon DEF Texts
  <2>3. p \in Node \cup {Null}
    BY <1>1, Zenon DEF Node
  <2> QED BY <2>2, <2>3
<1>4. RecordOf(e, i) \in Record
  BY <1>2, <1>3 DEF Record
<1>5. [R(e, i) EXCEPT !.Int_Comp = n] = R(e, n)
  OBVIOUS
<1>6. [R(e, i) EXCEPT !.Enum_Comp = n] = R(n, i)
  OBVIOUS
<1>7. [R(e, i) EXCEPT !.Ptr_Comp = p] = R(e, i)
  OBVIOUS
<1>8. R(e, i).Ptr_Comp = p /\ R(e, i).Discr = d /\ R(e, i).Enum_Comp = e /\ R(e, i).Int_Comp = i
  OBVIOUS
<1> HIDE DEF R
<1>9. QED BY ONLY <1>0, <1>1, <1>2, <1>4, <1>5, <1>6, <1>7, <1>8, Zenon

LEMMA CompsOf == ASSUME NEW e, NEW i PROVE RecordOf(e, i).Int_Comp = i /\ RecordOf(e, i).Ptr_Comp = "Next"
BY DEF RecordOf

LEMMA TableOfProc_6 == ASSUME NEW s PROVE Proc_6(s, 2) = 1
BY DEF Proc_6, Ident_1, Ident_2, Ident_3, Ident_4, Ident_5

(* s holds the records x and y, and else what r holds. *)
Holds(s, r, x, y) ==
  /\ s \in Globals /\ s.rec["Glob"] = x /\ s.rec["Next"] = y
  /\ s.Arr_1 = r.Arr_1 /\ s.Arr_2 = r.Arr_2 /\ s.Int_Glob = r.Int_Glob
  /\ s.Ch_1_Glob = r.Ch_1_Glob /\ s.Ch_2_Glob = r.Ch_2_Glob /\ s.Bool_Glob = r.Bool_Glob

LEMMA GlobSet ==
  ASSUME NEW r, NEW x \in Record, NEW y \in Record, NEW s, Holds(s, r, x, y), NEW v \in Record
  PROVE  Holds([s EXCEPT !.rec["Glob"] = v], r, v, y)
BY DEF Holds, Globals, Node
LEMMA NextSet ==
  ASSUME NEW r, NEW x \in Record, NEW y \in Record, NEW s, Holds(s, r, x, y), NEW v \in Record
  PROVE  Holds([s EXCEPT !.rec["Next"] = v], r, x, v)
BY DEF Holds, Globals, Node

(* Proc_1 gives the second record the fields of the first one, and both the   *)
(* values that main prints as the expected ones.                             *)
LEMMA RecordsAreFilled ==
  ASSUME NEW r \in Globals, r.rec["Glob"] = RecordOf(2, r.rec["Glob"].Int_Comp), r.Int_Glob = 5
  PROVE  Holds(Proc_1(r, "Glob"), r, RecordOf(2, 17), RecordOf(1, 18))
<1> DEFINE G == RecordOf(2, 17)  N == RecordOf(1, 18)
<1>1. PICK v \in Int, y \in Record : Holds(r, r, RecordOf(2, v), y)
  BY DEF Holds, Globals, Record, Node
<1>2. PICK two, one, five, seventeen, eighteen \in Int :
        two = 2 /\ one = 1 /\ five = 5 /\ seventeen = 17 /\ eighteen = 18
  OBVIOUS
<1> DEFINE assigned == [r EXCEPT !.rec["Next"] = RecordOf(two, v)]
           A == [assigned EXCEPT !.rec["Glob"] = RecordOf(two, five)]
           B == [A EXCEPT !.rec["Next"] = RecordOf(two, five)]
           linked == [B EXCEPT !.rec["Next"] = RecordOf(two, five)]
           C == [linked EXCEPT !.rec["Next"] = RecordOf(two, five)]
           third == [C EXCEPT !.rec["Glob"] = RecordOf(two, seventeen)]
           D == [third EXCEPT !.rec["Next"] = RecordOf(two, eighteen)]
           E == [D EXCEPT !.rec["Next"] = RecordOf(one, eighteen)]
           F == [E EXCEPT !.rec["Next"] = RecordOf(one, eighteen)]
<1>3. Holds(assigned, r, RecordOf(two, v), RecordOf(two, v))
  BY <1>1, <1>2, NextSet, RecordFields
<1> HIDE DEF assigned
<1>4. Holds(A, r, RecordOf(two, five), RecordOf(two, v))
  BY <1>1, <1>3, GlobSet, RecordFields
<1> HIDE DEF A
<1>5. Holds(B, r, RecordOf(two, five), RecordOf(two, five))
  BY <1>1, <1>4, NextSet, RecordFields
<1> HIDE DEF B
<1>6. Holds(linked, r, RecordOf(two, five), RecordOf(two, five))
  BY <1>1, <1>5, NextSet, RecordFields
<1> HIDE DEF linked
<1>7. Holds(C, r, RecordOf(two, five), RecordOf(two, five))
  BY <1>1, <1>6, NextSet, RecordFields
<1> HIDE DEF C
<1>8. Holds(third, r, RecordOf(two, seventeen), RecordOf(two, five))
  BY <1>1, <1>7, GlobSet, RecordFields
<1> HIDE DEF third
<1>9. Holds(D, r, RecordOf(two, seventeen), RecordOf(two, eighteen))
  BY <1>1, <1>8, NextSet, RecordFields
<1> HIDE DEF D
<1>10. Holds(E, r, RecordOf(two, seventeen), RecordOf(one, eighteen))
  BY <1>1, <1>9, NextSet, RecordFields
<1> HIDE DEF E
<1>11. Holds(F, r, RecordOf(two, seventeen), RecordOf(one, eighteen))
  BY <1>1, <1>10, NextSet, RecordFields
<1> HIDE DEF F
<1>12. Proc_1(r, "Glob") = F
  <2>1. assigned = [r EXCEPT !.rec["Next"] = r.rec["Glob"]] /\ r.rec["Glob"].Ptr_Comp = "Next"
    <3>1. r.rec["Glob"] = RecordOf(two, v)
      BY <1>1, <1>2 DEF Holds
    <3>2. RecordOf(two, v).Ptr_Comp = "Next"
      BY RecordFields
    <3>3. QED BY ONLY <3>1, <3>2, Zenon DEF assigned
  <2>2. A = [assigned EXCEPT !.rec["Glob"].Int_Comp = 5]
    <3>1. assigned.rec["Glob"] = RecordOf(two, v)
      BY <1>3 DEF Holds
    <3>2. [RecordOf(two, v) EXCEPT !.Int_Comp = five] = RecordOf(two, five)
      BY RecordFields
    <3>3. QED BY ONLY <1>2, <3>1, <3>2, Zenon DEF A
  <2>3. linked = [A EXCEPT !.rec["Next"].Int_Comp = A.rec["Glob"].Int_Comp,
                           !.rec["Next"].Ptr_Comp = A.rec["Glob"].Ptr_Comp]
    <3>1. A.rec["Glob"] = RecordOf(two, five) /\ A.rec["Next"] = RecordOf(two, v) /\ B.rec["Next"] = RecordOf(two, five)
      BY <1>4, <1>5 DEF Holds
    <3>2. RecordOf(two, five).Int_Comp = five /\ RecordOf(two, five).Ptr_Comp = "Next"
      BY RecordFields
    <3>3. B = [A EXCEPT !.rec["Next"].Int_Comp = A.rec["Glob"].Int_Comp]
      <4>1. [RecordOf(two, v) EXCEPT !.Int_Comp = five] = RecordOf(two, five)
        BY RecordFields
      <4>2. QED BY ONLY <3>1, <3>2, <4>1, Zenon DEF B
    <3>4. linked = [B EXCEPT !.rec["Next"].Ptr_Comp = A.rec["Glob"].Ptr_Comp]
      <4>1. [RecordOf(two, five) EXCEPT !.Ptr_Comp = "Next"] = RecordOf(two, five)
        BY RecordFields
      <4>2. QED BY ONLY <3>1, <3>2, <4>1, Zenon DEF linked
    <3>5. QED BY ONLY <3>3, <3>4, Zenon
  <2>4. third = Proc_3(linked, "Next")
    <3>1. linked.rec["Next"] = RecordOf(two, five) /\ linked.rec["Glob"] = RecordOf(two, five)
          /\ C.rec["Glob"] = RecordOf(two, five) /\ linked.Int_Glob = 5
      BY <1>6, <1>7 DEF Holds
    <3>2. RecordOf(two, five).Ptr_Comp = "Next" /\ Proc_7(10, 5) = seventeen
      BY <1>2, RecordFields DEF Proc_7
    <3>3. C = [linked EXCEPT !.rec["Next"].Ptr_Comp = linked.rec["Glob"].Ptr_Comp]
      <4>1. [RecordOf(two, five) EXCEPT !.Ptr_Comp = "Next"] = RecordOf(two, five)
        BY RecordFields
      <4>2. QED BY ONLY <3>1, <3>2, <4>1, Zenon DEF C
    <3>4. third = [C EXCEPT !.rec["Glob"].Int_Comp = Proc_7(10, linked.Int_Glob)]
      <4>1. [RecordOf(two, five) EXCEPT !.Int_Comp = seventeen] = RecordOf(two, seventeen)
        BY RecordFields
      <4>2. QED BY ONLY <3>1, <3>2, <4>1, Zenon DEF third
    <3>5. QED BY ONLY <3>3, <3>4, Zenon DEF Proc_3
  <2>5. F = [third EXCEPT !.rec["Next"].Int_Comp = Proc_7(6, 10),
                          !.rec["Next"].Enum_Comp = Proc_6(third, third.rec["Glob"].Enum_Comp),
                          !.rec["Next"].Ptr_Comp = third.rec["Glob"].Ptr_Comp]
    <3>1. third.rec["Next"] = RecordOf(two, five) /\ third.rec["Glob"] = RecordOf(two, seventeen)
          /\ D.rec["Next"] = RecordOf(two, eighteen) /\ E.rec["Next"] = RecordOf(one, eighteen)
      BY <1>8, <1>9, <1>10 DEF Holds
    <3>2. RecordOf(two, seventeen).Ptr_Comp = "Next" /\ RecordOf(two, seventeen).Enum_Comp = two
      BY RecordFields
    <3>3. Proc_7(6, 10) = eighteen
      BY <1>2 DEF Proc_7
    <3>4. Proc_6(third, two) = one
      BY <1>2, TableOfProc_6
    <3>5. D = [third EXCEPT !.rec["Next"].Int_Comp = Proc_7(6, 10)]
      <4>1. [RecordOf(two, five) EXCEPT !.Int_Comp = eighteen] = RecordOf(two, eighteen)
        BY RecordFields
      <4>2. QED BY ONLY <3>1, <3>3, <4>1, Zenon DEF D
    <3>6. E = [D EXCEPT !.rec["Next"].Enum_Comp = Proc_6(third, third.rec["Glob"].Enum_Comp)]
      <4>1. [RecordOf(two, eighteen) EXCEPT !.Enum_Comp = one] = RecordOf(one, eighteen)
        BY RecordFields
      <4>2. QED BY ONLY <3>1, <3>2, <3>4, <4>1, Zenon DEF E
    <3>7. F = [E EXCEPT !.rec["Next"].Ptr_Comp = third.rec["Glob"].Ptr_Comp]
      <4>1. [RecordOf(one, eighteen) EXCEPT !.Ptr_Comp = "Next"] = RecordOf(one, eighteen)
        BY RecordFields
      <4>2. QED BY ONLY <3>1, <3>2, <4>1, Zenon DEF F
    <3>8. QED BY ONLY <3>5, <3>6, <3>7, Zenon
  <2>6. third.rec["Next"].Discr = Ident_1
    BY ONLY <1>1, <1>2, <1>8, RecordFields DEF Holds, Ident_1
  <2>7. QED BY ONLY <2>1, <2>2, <2>3, <2>4, <2>5, <2>6, Zenon DEF Proc_1
<1>13. QED BY <1>2, <1>11, <1>12

-----------------------------------------------------------------------------
(* Every statement of main keeps the invariant.                              *)
LEMMA RunsAreCounted == Number_Of_Runs \in Nat \ {0}
BY SMT, DhrystoneAssumption

LEMMA InitData == DhrystoneInit => DhrystoneInv
<1> SUFFICES ASSUME DhrystoneInit PROVE DhrystoneInv
  OBVIOUS
<1>1. NoRecord \in Record
  <2>1. 0 \in Int
    OBVIOUS
  <2>2. NoString \in Texts /\ Null \in Node \cup {Null}
    BY Zenon DEF Texts
  <2>3. QED BY <2>1, <2>2, Zenon DEF NoRecord, Record
<1>2. g \in Globals
  <2>1. [i \in 0..49 |-> 0] \in [0..49 -> Int] /\ 0 \in Int
    OBVIOUS
  <2>2. QED BY <1>1, <2>1, Zenon DEF DhrystoneInit, Globals
<1>3. l \in Locals
  <2>1. 0 \in Int /\ NoString \in Texts
    BY DEF Texts
  <2>2. QED BY <2>1, Zenon DEF DhrystoneInit, Locals
<1>4. QED
  BY <1>2, <1>3 DEF DhrystoneInit, DhrystoneInv, PlaceInv, DataInv, BeginInv, CountInv, LocalsInv, GlobalsInv, RunIsOver

LEMMA InitializeInv == DhrystoneInv /\ Initialize => DhrystoneInv'
<1> SUFFICES ASSUME DhrystoneInv, Initialize PROVE DhrystoneInv'
  OBVIOUS
<1>1. stmt = "init" /\ stmt' = "test" /\ Run_Index' = 1 /\ Ch_Index' = Ch_Index /\ g \in Globals /\ l \in Locals
  BY DEF Initialize, Goes, DhrystoneInv, DataInv
<1>2. l' = [l EXCEPT !.Str_1 = "1'ST STRING"]
  BY Zenon DEF Initialize, Str
<1>3. l' \in Locals /\ l'.Str_1 = "1'ST STRING"
  BY <1>1, <1>2 DEF Locals, Texts
<1>4. g' \in Globals /\ g'.rec["Glob"] = RecordOf(2, 40) /\ g'.Arr_2[8][7] = 10
  <2>1. PICK forty, ten, two \in Int : forty = 40 /\ ten = 10 /\ two = 2
    OBVIOUS
  <2>2. g' = [g EXCEPT !.rec["Glob"] = RecordOf(two, forty), !.Arr_2[8][7] = ten]
    BY <2>1, Zenon DEF Initialize, RecordOf, Ident_1, Ident_3, Str
  <2>3. RecordOf(two, forty) \in Record
    BY RecordFields
  <2>4. g' \in Globals
    BY <1>1, <2>2, <2>3 DEF Globals, Node
  <2>5. g'.rec["Glob"] = RecordOf(two, forty)
    BY <1>1, <2>2, <2>3 DEF Globals, Node
  <2>6. g'.Arr_2[8][7] = ten
    BY <1>1, <2>2, <2>3 DEF Globals, Node
  <2>7. QED BY <2>1, <2>4, <2>5, <2>6
<1>5. g'.rec["Glob"].Int_Comp = 40
  BY <1>4, CompsOf
<1>6. PlaceInv' /\ DataInv'
  <2>1. Run_Index' \in Int
    BY <1>1
  <2>2. PlaceInv'
    BY <1>1 DEF PlaceInv
  <2>3. Ch_Index' \in Int
    BY <1>1 DEF DhrystoneInv, DataInv
  <2>4. QED BY <1>3, <1>4, <2>1, <2>2, <2>3 DEF DataInv
<1>7. BeginInv'
  <2>1. Counted' = 0 /\ 10 + 0 = 10
    BY <1>1 DEF Counted
  <2>2. Run_Index' \in Nat \ {0}
    BY <1>1
  <2>3. QED BY <1>3, <1>4, <1>5, <2>1, <2>2 DEF BeginInv
<1>8. CountInv'
  BY <1>1, RunsAreCounted DEF CountInv
<1>9. LocalsInv' /\ GlobalsInv'
  BY <1>1 DEF LocalsInv, GlobalsInv, RunIsOver
<1>10. QED BY <1>6, <1>7, <1>8, <1>9 DEF DhrystoneInv

LEMMA RunInv == DhrystoneInv /\ (NextRun \/ Finish) => DhrystoneInv'
<1> SUFFICES ASSUME DhrystoneInv, NextRun \/ Finish PROVE DhrystoneInv'
  OBVIOUS
<1>1. /\ stmt = "test" /\ g' = g /\ l' = l /\ Run_Index' = Run_Index /\ Ch_Index' = Ch_Index
      /\ \/ stmt' = "run" /\ Run_Index <= Number_Of_Runs
         \/ stmt' = "done" /\ Run_Index > Number_Of_Runs
  BY DEF NextRun, Finish, Goes
<1>2. Counted' = Counted
  BY <1>1 DEF Counted
<1>3. PlaceInv' /\ DataInv'
  BY <1>1 DEF DhrystoneInv, PlaceInv, DataInv
<1>4. BeginInv'
  BY <1>1, <1>2 DEF DhrystoneInv, BeginInv
<1>5. CountInv'
  BY <1>1, RunsAreCounted DEF DhrystoneInv, CountInv, DataInv
<1>6. LocalsInv' /\ GlobalsInv'
  BY <1>1 DEF DhrystoneInv, LocalsInv, GlobalsInv, RunIsOver
<1>7. QED BY <1>3, <1>4, <1>5, <1>6 DEF DhrystoneInv

LEMMA CompareInv == DhrystoneInv /\ Compare => DhrystoneInv'
<1> SUFFICES ASSUME DhrystoneInv, Compare PROVE DhrystoneInv'
  OBVIOUS
<1> DEFINE fresh == Proc_4(Proc_5(g))
<1>1. stmt = "run" /\ stmt' = "while" /\ Run_Index' = Run_Index /\ Ch_Index' = Ch_Index
  BY DEF Compare, Goes
<1>2. /\ g \in Globals /\ l \in Locals /\ Run_Index \in Nat \ {0} /\ Ch_Index \in Int /\ l.Str_1 = "1'ST STRING"
      /\ g.rec["Glob"] = RecordOf(2, g.rec["Glob"].Int_Comp) /\ g.Arr_2[8][7] = 10 + (Run_Index - 1)
      /\ Run_Index <= Number_Of_Runs
  BY <1>1 DEF DhrystoneInv, DataInv, BeginInv, CountInv, Counted
<1>3. g' = [fresh EXCEPT !.Bool_Glob = TRUE]
  <2>1. Func_2(fresh, "1'ST STRING", "2'ND STRING") = [bool |-> FALSE, g |-> fresh] /\ Str[2] = "2'ND STRING"
    BY SecondIsLarger DEF Str
  <2>2. [bool |-> FALSE, g |-> fresh].g = fresh /\ [bool |-> FALSE, g |-> fresh].bool = FALSE
    BY Zenon
  <2> HIDE DEF fresh
  <2>3. g' = [Func_2(fresh, l.Str_1, Str[2]).g EXCEPT !.Bool_Glob = ~Func_2(fresh, l.Str_1, Str[2]).bool]
    BY ONLY Compare, Zenon DEF Compare, fresh
  <2>4. (~FALSE) = TRUE
    OBVIOUS
  <2>5. QED BY ONLY <1>2, <2>1, <2>2, <2>3, <2>4, Zenon
<1>4. g' \in Globals /\ CharsAreSet(g') /\ SameButChars(g', g)
  BY <1>2, <1>3, CompareGlobals
<1>5. l' \in Locals /\ l'.Str_1 = "1'ST STRING" /\ l'.Int_1 = 2 /\ l'.Int_2 = 3 /\ l'.Str_2 = "2'ND STRING" /\ l'.Enum = 1
  <2>1. PICK two, three, one \in Int : two = 2 /\ three = 3 /\ one = 1
    OBVIOUS
  <2>2. PICK str \in Texts : str = "2'ND STRING"
    BY DEF Texts
  <2>3. l' = [l EXCEPT !.Int_1 = two, !.Int_2 = three, !.Str_2 = str, !.Enum = one]
    <3>1. Str[2] = "2'ND STRING"
      BY DEF Str
    <3>2. QED BY ONLY Compare, <2>1, <2>2, <3>1, Zenon DEF Compare, Ident_2
  <2>4. l' \in Locals
    BY <1>2, <2>3 DEF Locals
  <2>5. l'.Str_1 = l.Str_1 /\ l'.Int_1 = two /\ l'.Int_2 = three /\ l'.Str_2 = str /\ l'.Enum = one
    BY <1>2, <2>3 DEF Locals
  <2>6. l'.Int_1 = 2 /\ l'.Int_2 = 3 /\ l'.Enum = 1
    BY ONLY <2>1, <2>5, Zenon
  <2>7. l'.Str_1 = "1'ST STRING" /\ l'.Str_2 = "2'ND STRING"
    BY ONLY <1>2, <2>2, <2>5, Zenon
  <2>8. QED BY ONLY <2>4, <2>6, <2>7
<1>6. PlaceInv' /\ DataInv'
  <2>1. Run_Index' \in Int /\ Ch_Index' \in Int
    BY ONLY <1>1, DhrystoneInv DEF DhrystoneInv, DataInv
  <2>2. l' \in Locals /\ g' \in Globals
    BY ONLY <1>4, <1>5
  <2>3. PlaceInv'
    BY <1>1 DEF PlaceInv
  <2>4. QED BY ONLY <2>1, <2>2, <2>3 DEF DataInv
<1>7. BeginInv'
  <2>1. Counted' = Run_Index - 1
    BY <1>1 DEF Counted
  <2>2. g'.rec = g.rec /\ g'.Arr_2 = g.Arr_2
    BY ONLY <1>4 DEF SameButChars
  <2>3. Run_Index' \in Nat \ {0} /\ l'.Str_1 = "1'ST STRING"
    BY ONLY <1>1, <1>2, <1>5
  <2>4. QED BY ONLY <1>2, <2>1, <2>2, <2>3, Zenon DEF BeginInv
<1>8. CountInv' /\ GlobalsInv'
  <2>1. Run_Index \in Nat /\ Number_Of_Runs \in Nat /\ Run_Index <= Number_Of_Runs
    BY ONLY <1>2, RunsAreCounted
  <2>2. CountInv'
    BY ONLY <1>1, <2>1 DEF CountInv
  <2>3. GlobalsInv'
    BY ONLY <1>1 DEF GlobalsInv, RunIsOver
  <2>4. QED BY <2>2, <2>3
<1>9. LocalsInv'
  BY <1>1, <1>4, <1>5 DEF LocalsInv
<1>10. QED BY <1>6, <1>7, <1>8, <1>9 DEF DhrystoneInv

LEMMA WhileInv == DhrystoneInv /\ While => DhrystoneInv'
<1> SUFFICES ASSUME DhrystoneInv, While PROVE DhrystoneInv'
  OBVIOUS
<1>1. /\ stmt = "while" /\ stmt' = "while" /\ g' = g /\ Run_Index' = Run_Index /\ Ch_Index' = Ch_Index
      /\ l \in Locals /\ l.Int_1 = 2 /\ l.Int_2 = 3
  <2>1. /\ stmt = "while" /\ stmt' = "while" /\ g' = g /\ Run_Index' = Run_Index /\ Ch_Index' = Ch_Index
        /\ l.Int_1 < l.Int_2
    BY DEF While, Goes
  <2>2. l.Int_2 = 3 /\ (l.Int_1 = 2 \/ l.Int_1 = 3) /\ l \in Locals
    BY <2>1 DEF DhrystoneInv, DataInv, LocalsInv
  <2>3. ~(3 < 3)
    OBVIOUS
  <2>4. QED BY <2>1, <2>2, <2>3
<1>2. PICK seven, three \in Int : seven = 7 /\ three = 3
  OBVIOUS
<1>3. l' = [l EXCEPT !.Int_3 = seven, !.Int_1 = three]
  <2>1. Proc_7(2, 3) = 7 /\ 2 + 1 = 3
    BY DEF Proc_7
  <2>2. QED BY ONLY While, <1>1, <1>2, <2>1, Zenon DEF While
<1>4. /\ l' \in Locals /\ l'.Int_1 = three /\ l'.Int_3 = seven /\ l'.Int_2 = l.Int_2
      /\ l'.Str_1 = l.Str_1 /\ l'.Str_2 = l.Str_2 /\ l'.Enum = l.Enum
  BY <1>1, <1>3 DEF Locals
<1>5. Counted' = Counted
  BY <1>1 DEF Counted
<1>6. PlaceInv' /\ DataInv'
  BY <1>1, <1>4 DEF DhrystoneInv, PlaceInv, DataInv
<1>7. BeginInv'
  BY <1>1, <1>4, <1>5 DEF DhrystoneInv, BeginInv
<1>8. CountInv'
  BY <1>1 DEF DhrystoneInv, CountInv
<1>9. LocalsInv' /\ GlobalsInv'
  BY <1>1, <1>2, <1>4 DEF DhrystoneInv, LocalsInv, GlobalsInv, RunIsOver
<1>10. QED BY <1>6, <1>7, <1>8, <1>9 DEF DhrystoneInv

LEMMA RecordsInv == DhrystoneInv /\ Records => DhrystoneInv'
<1> SUFFICES ASSUME DhrystoneInv, Records PROVE DhrystoneInv'
  OBVIOUS
<1> DEFINE filled == Proc_8(g, 3, 7)
<1>1. /\ stmt = "while" /\ stmt' = "chars" /\ l' = l /\ Run_Index' = Run_Index
      /\ l \in Locals /\ l.Int_1 = 3 /\ l.Int_2 = 3 /\ l.Int_3 = 7 /\ l.Enum = 1 /\ l.Str_2 = "2'ND STRING"
      /\ CharsAreSet(g) /\ g \in Globals /\ Run_Index \in Nat \ {0}
      /\ Ch_Index' = Letter("A")
  <2>1. /\ stmt = "while" /\ stmt' = "chars" /\ l' = l /\ Run_Index' = Run_Index
        /\ l.Int_1 >= l.Int_2 /\ Ch_Index' = Letter("A")
    BY DEF Records, Goes
  <2>2. /\ l.Int_2 = 3 /\ (l.Int_1 = 2 \/ (l.Int_1 = 3 /\ l.Int_3 = 7)) /\ l \in Locals
        /\ l.Enum = 1 /\ l.Str_2 = "2'ND STRING" /\ CharsAreSet(g) /\ g \in Globals
    BY <2>1 DEF DhrystoneInv, DataInv, LocalsInv
  <2>3. Run_Index \in Nat \ {0}
    BY <2>1 DEF DhrystoneInv, BeginInv
  <2>4. ~(2 >= 3)
    OBVIOUS
  <2>5. QED BY <2>1, <2>2, <2>3, <2>4
<1>2. /\ g.rec["Glob"] = RecordOf(2, g.rec["Glob"].Int_Comp) /\ g.Arr_2[8][7] = 10 + (Run_Index - 1)
  BY <1>1 DEF DhrystoneInv, BeginInv, Counted
<1>3. g' = Proc_1(filled, "Glob")
  BY <1>1 DEF Records
<1>4. /\ filled \in Globals /\ CharsAreSet(filled) /\ filled.rec = g.rec /\ filled.Arr_1[8] = 7
      /\ filled.Arr_2[8][7] = g.Arr_2[8][7] + 1 /\ filled.Int_Glob = 5
  BY <1>1, ArraysAreFilled
<1> HIDE DEF filled
<1>5. Holds(g', filled, RecordOf(2, 17), RecordOf(1, 18))
  BY <1>2, <1>3, <1>4, RecordsAreFilled
<1>6. g' \in Globals /\ RunLeaves(g')
  BY <1>4, <1>5 DEF Holds, RunLeaves, CharsAreSet
<1>7. g'.Arr_2[8][7] = 10 + Run_Index
  <2>1. g'.Arr_2 = filled.Arr_2
    BY <1>5 DEF Holds
  <2>2. (10 + (Run_Index - 1)) + 1 = 10 + Run_Index
    <3>1. Run_Index \in Nat
      BY <1>1
    <3>2. QED BY ONLY <3>1
  <2>3. QED BY ONLY <1>2, <1>4, <2>1, <2>2, Zenon
<1>8. PlaceInv' /\ DataInv'
  <2>1. Ch_Index' = 65
    BY <1>1, LetterCodes, Zenon
  <2>2. Ch_Index' \in Int
    BY <2>1
  <2>3. l' \in Locals
    BY <1>1, Zenon
  <2>4. Run_Index' \in Int
    BY <1>1 DEF DhrystoneInv, DataInv
  <2>5. PlaceInv'
    BY <1>1 DEF PlaceInv
  <2>6. QED BY <1>6, <2>2, <2>3, <2>4, <2>5 DEF DataInv
<1>9. BeginInv'
  <2>1. Counted' = Run_Index
    BY <1>1 DEF Counted
  <2>2. g'.rec["Glob"].Int_Comp = 17
    BY <1>6, CompsOf DEF RunLeaves
  <2>3. l'.Str_1 = "1'ST STRING"
    BY <1>1 DEF DhrystoneInv, BeginInv
  <2>4. QED BY <1>1, <1>6, <1>7, <2>1, <2>2, <2>3 DEF BeginInv, RunLeaves
<1>10. CountInv'
  BY <1>1 DEF DhrystoneInv, CountInv
<1>11. LocalsInv' /\ GlobalsInv'
  <2>1. Ch_Index' = 65
    BY <1>1, LetterCodes, Zenon
  <2>2. Ch_Index' \in 65..67
    BY <2>1
  <2>3. LocalsInv'
    BY <1>1, <1>6, <2>2, Zenon DEF LocalsInv, RunLeaves
  <2>4. GlobalsInv'
    BY <1>6 DEF GlobalsInv
  <2>5. QED BY <2>3, <2>4
<1>12. QED BY <1>8, <1>9, <1>10, <1>11 DEF DhrystoneInv

(* The letters A and B differ from C, so that a turn changes no variable.     *)
LEMMA LettersInv == DhrystoneInv /\ Letters => DhrystoneInv'
<1> SUFFICES ASSUME DhrystoneInv, Letters PROVE DhrystoneInv'
  OBVIOUS
<1>1. stmt = "chars" /\ stmt' = "chars" /\ Run_Index' = Run_Index /\ Ch_Index' = Ch_Index + 1 /\ Ch_Index <= g.Ch_2_Glob
  BY DEF Letters, Goes
<1>2. g.Ch_2_Glob = 66 /\ l.Enum = 1 /\ Ch_Index \in 65..67
  BY <1>1 DEF DhrystoneInv, LocalsInv, CharsAreSet
<1>3. Ch_Index \in 65..66
  BY <1>1, <1>2
<1>4. Func_1(g, Ch_Index, Letter("C")) = [enum |-> 0, g |-> g]
  <2>1. Ch_Index # 67
    BY <1>3
  <2>2. QED BY <2>1, LetterCodes, Zenon DEF Func_1, Ident_1
<1>5. g' = g /\ l' = l
  <2>1. [enum |-> 0, g |-> g].enum = 0 /\ [enum |-> 0, g |-> g].g = g
    BY Zenon
  <2>2. 1 # 0
    OBVIOUS
  <2>3. QED BY ONLY Letters, <1>2, <1>4, <2>1, <2>2, Zenon DEF Letters
<1>6. Ch_Index' \in 65..67
  BY <1>1, <1>3
<1>7. Counted' = Counted
  BY <1>1 DEF Counted
<1>8. PlaceInv' /\ DataInv'
  BY <1>1, <1>5, <1>6 DEF DhrystoneInv, PlaceInv, DataInv
<1>9. BeginInv'
  BY <1>1, <1>5, <1>7 DEF DhrystoneInv, BeginInv
<1>10. CountInv' /\ LocalsInv' /\ GlobalsInv'
  BY <1>1, <1>5, <1>6 DEF DhrystoneInv, CountInv, LocalsInv, GlobalsInv, RunIsOver
<1>11. QED BY <1>8, <1>9, <1>10 DEF DhrystoneInv

LEMMA IntsInv == DhrystoneInv /\ Ints => DhrystoneInv'
<1> SUFFICES ASSUME DhrystoneInv, Ints PROVE DhrystoneInv'
  OBVIOUS
<1>1. /\ stmt = "chars" /\ stmt' = "test" /\ g' = g /\ Run_Index' = Run_Index + 1 /\ Ch_Index' = Ch_Index
  BY DEF Ints, Goes
<1>2. /\ l.Int_1 = 3 /\ l.Int_2 = 3 /\ l.Int_3 = 7 /\ l.Enum = 1 /\ l.Str_1 = "1'ST STRING" /\ l.Str_2 = "2'ND STRING"
      /\ l \in Locals /\ RunLeaves(g)
  BY <1>1 DEF DhrystoneInv, DataInv, BeginInv, LocalsInv, GlobalsInv, RunIsOver
<1>3. Run_Index \in Nat \ {0} /\ Run_Index <= Number_Of_Runs
  BY <1>1 DEF DhrystoneInv, BeginInv, CountInv
<1>4. PICK five, thirteen \in Int : five = 5 /\ thirteen = 13
  OBVIOUS
<1>5. l' = [l EXCEPT !.Int_2 = thirteen, !.Int_1 = five]
  <2>1. 3 * 3 = 9 /\ 9 \div 7 = 1 /\ 7 * (9 - 7) - 1 = 13 /\ 1 + 10 - 1 - 5 = 5
    OBVIOUS
  <2>2. Proc_2(g, 1) = 5
    <3>1. g.Int_Glob = 5
      BY <1>2 DEF RunLeaves
    <3>2. 1 + 10 - 1 - 5 = 5
      OBVIOUS
    <3>3. QED BY ONLY <3>1, <3>2, Zenon DEF Proc_2
  <2>3. QED BY ONLY Ints, <1>2, <1>4, <2>1, <2>2, Zenon DEF Ints
<1>6. /\ l' \in Locals /\ l'.Int_1 = five /\ l'.Int_2 = thirteen /\ l'.Int_3 = l.Int_3
      /\ l'.Str_1 = l.Str_1 /\ l'.Str_2 = l.Str_2 /\ l'.Enum = l.Enum
  BY <1>2, <1>5 DEF Locals
<1>7. l' = [Int_1 |-> five, Int_2 |-> thirteen, Int_3 |-> l'.Int_3, Enum |-> l'.Enum, Str_1 |-> l'.Str_1, Str_2 |-> l'.Str_2]
  BY <1>6 DEF Locals
<1>8. Run_Index' \in Nat \ {0} /\ Run_Index' - 1 = Run_Index /\ Run_Index' > 1 /\ Run_Index' <= Number_Of_Runs + 1
  BY <1>1, <1>3, RunsAreCounted
<1>9. PlaceInv' /\ DataInv'
  BY <1>1, <1>6, <1>8 DEF DhrystoneInv, PlaceInv, DataInv
<1>10. BeginInv'
  <2>1. Counted' = Counted
    BY <1>1, <1>8 DEF Counted
  <2>2. QED BY <1>1, <1>2, <1>6, <1>8, <2>1 DEF DhrystoneInv, BeginInv
<1>11. CountInv'
  BY <1>1, <1>8 DEF CountInv
<1>12. LocalsInv'
  BY <1>1, <1>2, <1>4, <1>6, <1>7 DEF LocalsInv
<1>13. GlobalsInv'
  BY <1>1, <1>2 DEF GlobalsInv
<1>14. QED BY <1>9, <1>10, <1>11, <1>12, <1>13 DEF DhrystoneInv

LEMMA DhrystoneStep == DhrystoneInv /\ [Main]_dhrystone => DhrystoneInv'
<1>1. DhrystoneInv /\ UNCHANGED dhrystone => DhrystoneInv'
  BY DEF dhrystone, DhrystoneInv, PlaceInv, DataInv, BeginInv, CountInv, LocalsInv, GlobalsInv, RunIsOver, Counted
<1>2. QED BY <1>1, InitializeInv, RunInv, CompareInv, WhileInv, RecordsInv, LettersInv, IntsInv DEF Main

(* The two loops of the procedures that may turn for ever end in every run.   *)
LoopsEnd ==
  /\ stmt = "run" => Func_2_ends(Proc_4(Proc_5(g)), l.Str_1, Str[2])
  /\ stmt = "chars" => Proc_2_ends(g) /\ l.Int_3 # 0

(* Whatever the number of the runs, when the benchmark has run every variable *)
(* has the value that main prints as the one it should have, and no run gets  *)
(* stuck in a procedure on the way.                                          *)
THEOREM PrintsWhatItShould == DhrystoneSpec => [](FinalValues /\ LoopsEnd)
<1>1. DhrystoneInv => FinalValues
  <2> SUFFICES ASSUME DhrystoneInv, stmt = "done" PROVE FinalValues
    BY DEF FinalValues
  <2>1. Run_Index = Number_Of_Runs + 1 /\ Run_Index > 1 /\ Run_Index - 1 = Number_Of_Runs
    BY RunsAreCounted DEF DhrystoneInv, CountInv
  <2>2. RunLeaves(g)
    BY <2>1 DEF DhrystoneInv, GlobalsInv, RunIsOver
  <2>3. g.Arr_2[8][7] = 10 + (Run_Index - 1)
    BY DEF DhrystoneInv, BeginInv, Counted
  <2>4. 10 + (Run_Index - 1) = Number_Of_Runs + 10
    BY <2>1, RunsAreCounted
  <2>5. l = [Int_1 |-> 5, Int_2 |-> 13, Int_3 |-> 7, Enum |-> 1, Str_1 |-> "1'ST STRING", Str_2 |-> "2'ND STRING"]
    BY <2>1 DEF DhrystoneInv, LocalsInv
  <2>6. g.rec["Glob"].Ptr_Comp = "Next" /\ g.rec["Next"].Ptr_Comp = "Next"
    BY <2>2, CompsOf DEF RunLeaves
  <2>7. /\ g.rec["Glob"] = [Ptr_Comp |-> "Next", Discr |-> 0, Enum_Comp |-> 2, Int_Comp |-> 17, Str_Comp |-> "SOME STRING"]
        /\ g.rec["Next"] = [Ptr_Comp |-> "Next", Discr |-> 0, Enum_Comp |-> 1, Int_Comp |-> 18, Str_Comp |-> "SOME STRING"]
    BY ONLY <2>2, Zenon DEF RunLeaves, RecordOf
  <2>8. /\ g.rec["Glob"] = [Ptr_Comp |-> g.rec["Next"].Ptr_Comp, Discr |-> 0, Enum_Comp |-> 2,
                             Int_Comp |-> 17, Str_Comp |-> "SOME STRING"]
        /\ g.rec["Next"] = [Ptr_Comp |-> g.rec["Glob"].Ptr_Comp, Discr |-> 0, Enum_Comp |-> 1,
                             Int_Comp |-> 18, Str_Comp |-> "SOME STRING"]
    BY ONLY <2>6, <2>7, Zenon
  <2>9. /\ g.Int_Glob = 5 /\ g.Bool_Glob /\ g.Ch_1_Glob = Letter("A") /\ g.Ch_2_Glob = Letter("B")
        /\ g.Arr_1[8] = 7 /\ g.Arr_2[8][7] = Number_Of_Runs + 10
    <3>1. g.Int_Glob = 5 /\ g.Bool_Glob /\ g.Arr_1[8] = 7
      BY <2>2, Zenon DEF RunLeaves, CharsAreSet
    <3>2. g.Ch_1_Glob = Letter("A") /\ g.Ch_2_Glob = Letter("B")
      <4>1. g.Ch_1_Glob = 65 /\ g.Ch_2_Glob = 66
        BY <2>2, Zenon DEF RunLeaves, CharsAreSet
      <4>2. Letter("A") = 65 /\ Letter("B") = 66
        BY LetterCodes, Zenon
      <4>3. QED BY ONLY <4>1, <4>2, Zenon
    <3>3. g.Arr_2[8][7] = Number_Of_Runs + 10
      BY ONLY <2>3, <2>4, Zenon
    <3>4. QED BY <3>1, <3>2, <3>3
  <2>10. QED BY ONLY <2>5, <2>8, <2>9, Zenon DEF FinalValues
<1>2. DhrystoneInv => LoopsEnd
  <2> SUFFICES ASSUME DhrystoneInv PROVE LoopsEnd
    OBVIOUS
  <2>1. ASSUME stmt = "run" PROVE Func_2_ends(Proc_4(Proc_5(g)), l.Str_1, Str[2])
    <3>1. l.Str_1 = "1'ST STRING" /\ Str[2] = "2'ND STRING"
      BY <2>1 DEF DhrystoneInv, BeginInv, Str
    <3>2. QED BY ONLY <3>1, SecondIsLarger, Zenon
  <2>2. ASSUME stmt = "chars" PROVE Proc_2_ends(g) /\ l.Int_3 # 0
    <3>1. g.Ch_1_Glob = 65 /\ l.Int_3 = 7
      BY <2>2 DEF DhrystoneInv, LocalsInv, CharsAreSet
    <3>2. 7 # 0
      OBVIOUS
    <3>3. QED BY ONLY <3>1, <3>2, LetterCodes, Zenon DEF Proc_2_ends
  <2>3. QED BY <2>1, <2>2 DEF LoopsEnd
<1>3. QED BY <1>1, <1>2, InitData, DhrystoneStep, PTL DEF DhrystoneSpec
-----------------------------------------------------------------------------
(* The UART: bytes, frames, and what the far end has of them.               *)

(* Bytes, frames of ten bits, and the places in a frame before the stop bit,  *)
(* all and those that are sampled.                                           *)
Octet == 0..255
Frame == 0..1023
Places == 0..8
Samples == 1..8

(* The powers of two up to the size of a frame.                              *)
Two(n) == <<1, 2, 4, 8, 16, 32, 64, 128, 256, 512, 1024>>[n + 1]

(* The cycles of a bit, and those the receiver waits in the start bit.       *)
Bit == FarDiv + 2
Half == FarDiv \div 2 + 1

(* After k bits of a frame with the byte f: the bits still to send, under      *)
(* ones; and the first j bits of f in the receiver's register.                *)
Sent(k, pattern, f) == IF k = 0 THEN pattern = 512 + 2 * f ELSE pattern = f \div Two(k - 1) + 1024 - Two(9 - k)
Received(j, pattern, f) == pattern \div Two(8 - j) = f % Two(j)

TypeInv ==
  /\ access \in {NoAccess} \cup [reg : {"div"}, data : Divs] \cup [reg : {"send"}, data : Bytes]
  /\ resetn \in BOOLEAN /\ send_dummy \in BOOLEAN
  /\ cfg_divider \in Divs \cup {DEFAULT_DIV}
  /\ send_divcnt \in 0..MaxCount
  /\ recv_state \in 0..10 /\ recv_pattern \in 0..255
  /\ recv_state # 0 => recv_divcnt \in 0..(FarDiv + 1)
  /\ recv_state = 1 => recv_divcnt <= Half
  /\ flight \in Bytes \cup {None, Noise}

(* Ones follow the byte in the shift register: the stop bit, and an idle line.*)
FrameInv ==
  /\ send_pattern \in 0..1023 /\ send_bitcnt \in 0..15
  /\ send_pattern >= (IF send_bitcnt \in 1..10 THEN 1024 - Two(send_bitcnt - 1) ELSE 1023)

(* A byte on the line: after k bits and n cycles of the next.                *)
InStep(k, n) ==
  /\ k \in 0..9 /\ n \in 0..(FarDiv + 1)
  /\ k = 0 /\ n = 0 => recv_state = 0
  /\ k = 0 /\ n \in 1..(Half + 1) => recv_state = 1 /\ recv_divcnt = n - 1
  /\ k # 0 /\ n <= Half + 1 => recv_state = k + 1 /\ recv_divcnt = n + FarDiv - Half
  /\ n > Half + 1 => k # 9 /\ recv_state = k + 2 /\ recv_divcnt = n - (Half + 2)
  /\ Sent(k, send_pattern, flight)
  /\ recv_state \in 2..10 => Received(recv_state - 2, recv_pattern, flight)
LineInv ==
  flight \in Bytes =>
    /\ cfg_divider = FarDiv /\ ~send_dummy
    /\ InStep(10 - send_bitcnt, send_divcnt)

(* The cycles for which the line stays idle before the transmitter can accept *)
(* a byte, and those the receiver takes to be ready for it.                  *)
Ahead == IF send_bitcnt = 0 THEN 0 ELSE send_bitcnt * Bit - send_divcnt
Needed ==
  IF recv_state = 0 THEN 0
  ELSE IF recv_state = 1 THEN 9 * Bit + Half + 1 - recv_divcnt
  ELSE (11 - recv_state) * Bit - recv_divcnt
IdleInv ==
  /\ cfg_divider = FarDiv /\ ~send_dummy /\ flight \notin Bytes =>
       send_pattern = 1023 /\ (send_bitcnt # 0 => send_divcnt <= FarDiv + 1) /\ Needed <= Ahead
  /\ flight = None => recv_state = 0 /\ send_pattern = 1023

Inv == TypeInv /\ FrameInv /\ LineInv /\ IdleInv

-----------------------------------------------------------------------------
LEMMA Sizes ==
  /\ FarDiv \in Nat /\ FarDiv >= 1 /\ MaxCount \in Int /\ FarDiv < MaxCount
  /\ Half \in Nat /\ Half >= 1 /\ Half <= FarDiv /\ 2 * Half > FarDiv /\ 2 * (Half - 1) <= FarDiv
  /\ Bit \in Nat /\ Bit = FarDiv + 2
  /\ None \notin Bytes /\ Noise \notin Bytes /\ None # Noise
BY DivAssumption, ByteAssumption DEF Half, Bit, None, Noise

(* A bit leaves the transmitter: the next ones move up, with a one behind.    *)
LEMMA ShiftOut ==
  \A k \in Places, p \in Frame, f \in Octet : Sent(k, p, f) => Sent(k + 1, 512 + p \div 2, f)
<1> SUFFICES ASSUME NEW k \in Places, NEW p \in Frame, NEW f \in Octet, Sent(k, p, f)
             PROVE  Sent(k + 1, 512 + p \div 2, f)
  OBVIOUS
<1>0. k \in 0..8 /\ p \in 0..1023 /\ f \in 0..255
  BY DEF Places, Frame, Octet
<1> USE <1>0
<1>1. k = 0 \/ k = 1 \/ k = 2 \/ k = 3 \/ k = 4 \/ k = 5 \/ k = 6 \/ k = 7 \/ k = 8
  OBVIOUS
<1>2. CASE k = 0
  BY <1>2 DEF Sent, Two
<1>3. CASE k = 1
  BY <1>3 DEF Sent, Two
<1>4. CASE k = 2
  BY <1>4 DEF Sent, Two
<1>5. CASE k = 3
  BY <1>5 DEF Sent, Two
<1>6. CASE k = 4
  BY <1>6 DEF Sent, Two
<1>7. CASE k = 5
  BY <1>7 DEF Sent, Two
<1>8. CASE k = 6
  BY <1>8 DEF Sent, Two
<1>9. CASE k = 7
  BY <1>9 DEF Sent, Two
<1>10. CASE k = 8
  BY <1>10 DEF Sent, Two
<1> QED BY <1>1, <1>2, <1>3, <1>4, <1>5, <1>6, <1>7, <1>8, <1>9, <1>10

(* A bit enters the receiver's register.                                     *)
LEMMA SampleIn ==
  \A k \in Samples, p \in Frame, r, f \in Octet :
    Sent(k, p, f) /\ Received(k - 1, r, f) => Received(k, 128 * (p % 2) + r \div 2, f)
<1> SUFFICES ASSUME NEW k \in Samples, NEW p \in Frame, NEW r \in Octet, NEW f \in Octet,
                    Sent(k, p, f), Received(k - 1, r, f)
             PROVE  Received(k, 128 * (p % 2) + r \div 2, f)
  OBVIOUS
<1>0. k \in 1..8 /\ p \in 0..1023 /\ r \in 0..255 /\ f \in 0..255
  BY DEF Samples, Frame, Octet
<1> USE <1>0
<1>1. k = 1 \/ k = 2 \/ k = 3 \/ k = 4 \/ k = 5 \/ k = 6 \/ k = 7 \/ k = 8
  OBVIOUS
<1>2. CASE k = 1
  <2>1. p = f \div 1 + 768 /\ r \div 256 = f % 1
    BY <1>2 DEF Sent, Received, Two
  <2>2. (128 * (p % 2) + r \div 2) \div 128 = f % 2
    BY <2>1
  <2> QED BY <1>2, <2>2 DEF Received, Two
<1>3. CASE k = 2
  <2>1. p = f \div 2 + 896 /\ r \div 128 = f % 2
    BY <1>3 DEF Sent, Received, Two
  <2> DEFINE u == f \div 2  w == r \div 2
  <2>2. u \in 0..255 /\ w \in 0..127 /\ f % 4 = 2 * (u % 2) + (f % 2) /\ w \div 64 = r \div 128
    OBVIOUS
  <2> HIDE DEF u, w
  <2>3. p % 2 = u % 2
    <3>1. p = u + 896
      BY <2>1 DEF u
    <3> QED BY <2>2, <3>1
  <2>4. (128 * (u % 2) + w) \div 64 = 2 * (u % 2) + w \div 64
    BY <2>2
  <2>5. (128 * (p % 2) + w) \div 64 = f % 4
    BY <2>1, <2>2, <2>3, <2>4
  <2> QED BY <1>3, <2>5 DEF Received, Two, w
<1>4. CASE k = 3
  <2>1. p = f \div 4 + 960 /\ r \div 64 = f % 4
    BY <1>4 DEF Sent, Received, Two
  <2> DEFINE u == f \div 4  w == r \div 2
  <2>2. u \in 0..255 /\ w \in 0..127 /\ f % 8 = 4 * (u % 2) + (f % 4) /\ w \div 32 = r \div 64
    OBVIOUS
  <2> HIDE DEF u, w
  <2>3. p % 2 = u % 2
    <3>1. p = u + 960
      BY <2>1 DEF u
    <3> QED BY <2>2, <3>1
  <2>4. (128 * (u % 2) + w) \div 32 = 4 * (u % 2) + w \div 32
    BY <2>2
  <2>5. (128 * (p % 2) + w) \div 32 = f % 8
    BY <2>1, <2>2, <2>3, <2>4
  <2> QED BY <1>4, <2>5 DEF Received, Two, w
<1>5. CASE k = 4
  <2>1. p = f \div 8 + 992 /\ r \div 32 = f % 8
    BY <1>5 DEF Sent, Received, Two
  <2> DEFINE u == f \div 8  w == r \div 2
  <2>2. u \in 0..255 /\ w \in 0..127 /\ f % 16 = 8 * (u % 2) + (f % 8) /\ w \div 16 = r \div 32
    OBVIOUS
  <2> HIDE DEF u, w
  <2>3. p % 2 = u % 2
    <3>1. p = u + 992
      BY <2>1 DEF u
    <3> QED BY <2>2, <3>1
  <2>4. (128 * (u % 2) + w) \div 16 = 8 * (u % 2) + w \div 16
    BY <2>2
  <2>5. (128 * (p % 2) + w) \div 16 = f % 16
    BY <2>1, <2>2, <2>3, <2>4
  <2> QED BY <1>5, <2>5 DEF Received, Two, w
<1>6. CASE k = 5
  <2>1. p = f \div 16 + 1008 /\ r \div 16 = f % 16
    BY <1>6 DEF Sent, Received, Two
  <2> DEFINE u == f \div 16  w == r \div 2
  <2>2. u \in 0..255 /\ w \in 0..127 /\ f % 32 = 16 * (u % 2) + (f % 16) /\ w \div 8 = r \div 16
    OBVIOUS
  <2> HIDE DEF u, w
  <2>3. p % 2 = u % 2
    <3>1. p = u + 1008
      BY <2>1 DEF u
    <3> QED BY <2>2, <3>1
  <2>4. (128 * (u % 2) + w) \div 8 = 16 * (u % 2) + w \div 8
    BY <2>2
  <2>5. (128 * (p % 2) + w) \div 8 = f % 32
    BY <2>1, <2>2, <2>3, <2>4
  <2> QED BY <1>6, <2>5 DEF Received, Two, w
<1>7. CASE k = 6
  <2>1. p = f \div 32 + 1016 /\ r \div 8 = f % 32
    BY <1>7 DEF Sent, Received, Two
  <2> DEFINE u == f \div 32  w == r \div 2
  <2>2. u \in 0..255 /\ w \in 0..127 /\ f % 64 = 32 * (u % 2) + (f % 32) /\ w \div 4 = r \div 8
    OBVIOUS
  <2> HIDE DEF u, w
  <2>3. p % 2 = u % 2
    <3>1. p = u + 1016
      BY <2>1 DEF u
    <3> QED BY <2>2, <3>1
  <2>4. (128 * (u % 2) + w) \div 4 = 32 * (u % 2) + w \div 4
    BY <2>2
  <2>5. (128 * (p % 2) + w) \div 4 = f % 64
    BY <2>1, <2>2, <2>3, <2>4
  <2> QED BY <1>7, <2>5 DEF Received, Two, w
<1>8. CASE k = 7
  <2>1. p = f \div 64 + 1020 /\ r \div 4 = f % 64
    BY <1>8 DEF Sent, Received, Two
  <2> DEFINE u == f \div 64  w == r \div 2
  <2>2. u \in 0..255 /\ w \in 0..127 /\ f % 128 = 64 * (u % 2) + (f % 64) /\ w \div 2 = r \div 4
    OBVIOUS
  <2> HIDE DEF u, w
  <2>3. p % 2 = u % 2
    <3>1. p = u + 1020
      BY <2>1 DEF u
    <3> QED BY <2>2, <3>1
  <2>4. (128 * (u % 2) + w) \div 2 = 64 * (u % 2) + w \div 2
    BY <2>2
  <2>5. (128 * (p % 2) + w) \div 2 = f % 128
    BY <2>1, <2>2, <2>3, <2>4
  <2> QED BY <1>8, <2>5 DEF Received, Two, w
<1>9. CASE k = 8
  <2>1. p = f \div 128 + 1022 /\ r \div 2 = f % 128
    BY <1>9 DEF Sent, Received, Two
  <2>2. (128 * (p % 2) + r \div 2) \div 1 = f % 256
    BY <2>1
  <2> QED BY <1>9, <2>2 DEF Received, Two
<1> QED BY <1>1, <1>2, <1>3, <1>4, <1>5, <1>6, <1>7, <1>8, <1>9

(* After eight bits the register holds the byte, and before the first any.   *)
LEMMA Whole == \A r, f \in Octet : Received(0, r, f) /\ (Received(8, r, f) => r = f)
<1> SUFFICES ASSUME NEW r \in 0..255, NEW f \in 0..255 PROVE Received(0, r, f) /\ (Received(8, r, f) => r = f)
  BY DEF Octet
<1>1. r \div 256 = 0 /\ f % 1 = 0 /\ r \div 1 = r /\ f % 256 = f
  OBVIOUS
<1>2. Two(0) = 1 /\ Two(8) = 256 /\ 8 - 0 = 8 /\ 8 - 8 = 0
  BY DEF Two
<1> QED BY <1>1, <1>2 DEF Received

-----------------------------------------------------------------------------
LEMMA InitInv == UartInit => Inv
<1> SUFFICES ASSUME UartInit PROVE Inv
  OBVIOUS
<1> USE Sizes DEF UartInit
<1>1. TypeInv
  BY DivAssumption DEF TypeInv
<1>2. FrameInv
  BY DEF FrameInv
<1>3. LineInv
  BY DEF LineInv
<1>4. IdleInv
  BY DEF IdleInv
<1> QED BY <1>1, <1>2, <1>3, <1>4 DEF Inv

LEMMA CountIs == ASSUME NEW n \in 0..MaxCount PROVE Count(n) \in 0..MaxCount /\ (n <= FarDiv => Count(n) = n + 1)
BY Sizes DEF Count

(* A bit on the line is a bit, and 1 while the line is idle.                 *)
LEMMA BitIs == ASSUME FrameInv PROVE ser_rx \in 0..1 /\ (send_pattern = 1023 => ser_rx = 1)
BY DEF FrameInv, ser_rx, ser_tx

LEMMA TypeStep == Inv /\ Clock => TypeInv'
<1> SUFFICES ASSUME Inv, Clock PROVE TypeInv'
  OBVIOUS
<1> USE DEF Inv
<1>1. access' \in {NoAccess} \cup [reg : {"div"}, data : Divs] \cup [reg : {"send"}, data : Bytes] /\ resetn' \in BOOLEAN
  <2>1. Accesses \subseteq [reg : {"div"}, data : Divs] \cup [reg : {"send"}, data : Bytes]
    BY DEF Accesses
  <2> QED BY <2>1 DEF Clock, Bus, TypeInv
<1>2. cfg_divider' \in Divs \cup {DEFAULT_DIV}
  <2>1. reg_div_we => access.data \in Divs
    BY DEF TypeInv, reg_div_we, NoAccess
  <2> QED BY <2>1 DEF Clock, Divider, TypeInv
<1>3. send_dummy' \in BOOLEAN /\ send_divcnt' \in 0..MaxCount
  <2>1. dummy_asked \in BOOLEAN
    BY DEF dummy_asked, reg_div_we, TypeInv
  <2>2. Count(send_divcnt) \in 0..MaxCount /\ 0 \in 0..MaxCount
    BY CountIs, Sizes DEF TypeInv
  <2>3. Send
    BY DEF Clock
  <2>4. send_dummy \in BOOLEAN /\ send_divcnt \in 0..MaxCount
    BY DEF TypeInv
  <2> HIDE DEF Inv
  <2>5. send_dummy' \in BOOLEAN
    <3>1. send_dummy' = TRUE \/ send_dummy' = FALSE \/ send_dummy' = dummy_asked \/ send_dummy' = send_dummy
      BY <2>3 DEF Send, SendReset, SendDummy, SendByte, SendBit, SendHold
    <3> QED BY <2>1, <2>4, <3>1, Zenon
  <2>6. send_divcnt' \in 0..MaxCount
    <3>1. send_divcnt' = 0 \/ send_divcnt' = Count(send_divcnt)
      BY <2>3 DEF Send, SendReset, SendDummy, SendByte, SendBit, SendHold
    <3> QED BY <2>2, <3>1
  <2> QED BY <2>5, <2>6
<1>4. /\ recv_state' \in 0..10 /\ recv_pattern' \in 0..255
      /\ recv_state' # 0 => recv_divcnt' \in 0..(FarDiv + 1)
      /\ recv_state' = 1 => recv_divcnt' <= Half
  <2>1. PICK taken \in BOOLEAN : Receive(taken)
    BY DEF Clock
  <2>2. recv_divcnt \in 0..FarDiv => Count(recv_divcnt) = recv_divcnt + 1
    BY CountIs, Sizes
  <2>3. CASE RecvIdle(taken)
    BY <2>3, BitIs, Sizes DEF RecvIdle, TypeInv
  <2>4. CASE RecvStart(taken)
    BY <2>2, <2>4, Sizes DEF RecvStart, TypeInv
  <2>5. CASE RecvBit(taken)
    <3>1. 128 * ser_rx + recv_pattern \div 2 \in 0..255
      BY BitIs DEF TypeInv
    <3> HIDE DEF ser_rx
    <3> QED BY <3>1, <2>2, <2>5, Sizes DEF RecvBit, TypeInv
  <2>6. CASE RecvStop(taken)
    BY <2>2, <2>6, Sizes DEF RecvStop, TypeInv, delivers
  <2> QED BY <2>1, <2>3, <2>4, <2>5, <2>6 DEF Receive
<1>5. flight' \in Bytes \cup {None, Noise}
  <2>1. accepts => access.data \in Bytes
    BY DEF TypeInv, accepts, reg_dat_we, NoAccess
  <2> QED BY <2>1 DEF Clock, Observe, TypeInv
<1> QED BY <1>1, <1>2, <1>3, <1>4, <1>5 DEF TypeInv

LEMMA FrameStep == Inv /\ Clock => FrameInv'
<1> SUFFICES ASSUME Inv, Clock PROVE FrameInv'
  OBVIOUS
<1> USE DEF Inv
<1>1. CASE SendReset
  BY <1>1 DEF SendReset, FrameInv
<1>2. CASE SendDummy
  BY <1>2 DEF SendDummy, FrameInv
<1>3. CASE SendByte
  <2>1. access.data \in 0..255
    <3>1. access.data \in Bytes
      BY <1>3 DEF SendByte, TypeInv, accepts, reg_dat_we, NoAccess
    <3> QED BY <3>1, ByteAssumption
  <2>2. Two(10 - 1) = 512
    BY DEF Two
  <2> QED BY <1>3, <2>1, <2>2 DEF SendByte, FrameInv
<1>4. CASE SendBit
  <2>1. send_bitcnt \in 1..15 /\ send_bitcnt' = send_bitcnt - 1 /\ send_pattern' = 512 + send_pattern \div 2
    BY <1>4 DEF SendBit, FrameInv, bit_sent
  <2>2. send_pattern' \in 0..1023
    BY <2>1 DEF FrameInv
  <2>3. CASE send_bitcnt \in 1..1 \cup 11..15
    <3>1. send_pattern >= 1023
      BY <2>3 DEF FrameInv, Two
    <3>2. send_pattern' = 1023
      BY <2>1, <3>1 DEF FrameInv
    <3> QED BY <2>1, <2>2, <2>3, <3>2 DEF FrameInv, Two
  <2>4. CASE send_bitcnt \in 2..10
    <3>1. send_pattern >= 1024 - Two(send_bitcnt - 1)
      BY <2>4 DEF FrameInv
    <3>2. Two(send_bitcnt - 1) = 2 * Two(send_bitcnt' - 1) /\ Two(send_bitcnt' - 1) \in 1..512
      BY <2>1, <2>4 DEF Two
    <3> DEFINE t == Two(send_bitcnt' - 1)
    <3>3. send_pattern >= 1024 - 2 * t /\ t \in Int
      BY <3>1, <3>2
    <3>4. send_bitcnt' \in 1..9
      BY <2>1, <2>4
    <3> HIDE DEF t
    <3>5. send_pattern' >= 1024 - t
      BY <2>1, <3>3 DEF FrameInv
    <3> QED BY <2>2, <3>4, <3>5 DEF FrameInv, t
  <2> QED BY <2>1, <2>3, <2>4
<1>5. CASE SendHold
  BY <1>5 DEF SendHold, FrameInv
<1> QED BY <1>1, <1>2, <1>3, <1>4, <1>5 DEF Clock, Send

-----------------------------------------------------------------------------
(* When the transmitter accepts a byte for the far end, the far end waits.   *)
LEMMA FoundWaiting ==
  ASSUME Inv, accepts, cfg_divider = FarDiv
  PROVE  flight \notin Bytes /\ recv_state = 0 /\ send_pattern = 1023
<1> USE DEF Inv
<1>1. send_bitcnt = 0 /\ ~send_dummy
  BY DEF accepts
<1>2. flight \notin Bytes
  BY <1>1 DEF LineInv, InStep
<1>3. send_pattern = 1023 /\ Needed <= 0
  BY <1>1, <1>2 DEF IdleInv, Ahead
<1>4. recv_state # 0 => Needed >= 1
  <2>1. CASE recv_state = 1
    BY <2>1, Sizes DEF TypeInv, Needed
  <2>2. CASE recv_state \in 2..10
    <3>1. recv_divcnt \in 0..(FarDiv + 1) /\ Needed = (11 - recv_state) * Bit - recv_divcnt
      BY <2>2 DEF TypeInv, Needed
    <3>2. (11 - recv_state) * Bit >= Bit
      BY <2>2, Sizes
    <3> QED BY <2>2, <3>1, <3>2, Sizes
  <2> QED BY <2>1, <2>2 DEF TypeInv
<1>5. Needed \in Int
  BY Sizes DEF TypeInv, Needed
<1> QED BY <1>2, <1>3, <1>4, <1>5

(* A byte is delivered at the middle of its stop bit, and it is the byte sent.*)
LEMMA Delivery ==
  ASSUME Inv, delivers, flight \in Bytes
  PROVE  recv_pattern = flight /\ send_bitcnt = 1 /\ send_pattern = 1023
<1> USE DEF Inv
<1> DEFINE k == 10 - send_bitcnt  n == send_divcnt
<1>1. InStep(k, n)
  BY DEF LineInv
<1>2. k = 9 /\ Received(8, recv_pattern, flight) /\ Sent(9, send_pattern, flight)
  <2>1. recv_state = 10 /\ recv_divcnt > FarDiv /\ k \in 0..9 /\ n \in 0..(FarDiv + 1) /\ Received(recv_state - 2, recv_pattern, flight)
        /\ Sent(k, send_pattern, flight)
    BY <1>1 DEF delivers, InStep
  <2>2. ~(n > Half + 1)
    BY <1>1, <2>1, Sizes DEF InStep
  <2>3. k = 9
    BY <1>1, <2>1, <2>2, Sizes DEF InStep
  <2> HIDE DEF k
  <2> QED BY <2>1, <2>3
<1>3. flight \in Octet /\ recv_pattern \in Octet
  BY ByteAssumption DEF TypeInv, Octet
<1>4. recv_pattern = flight
  BY <1>2, <1>3, Whole
<1>5. send_bitcnt = 1
  BY <1>2 DEF FrameInv
<1>6. send_pattern = 1023
  <2>1. flight \div 256 = 0
    BY <1>3 DEF Octet
  <2>2. Sent(9, send_pattern, flight)
    BY <1>2
  <2> QED BY <2>1, <2>2 DEF Sent, Two
<1> QED BY <1>4, <1>5, <1>6

(* In a bit, before its middle, the receiver only counts.                    *)
LEMMA Waits ==
  ASSUME Inv, Clock, recv_state \in 2..10, recv_divcnt \in 0..FarDiv
  PROVE  recv_state' = recv_state /\ recv_divcnt' = recv_divcnt + 1 /\ recv_pattern' = recv_pattern
<1>1. PICK taken \in BOOLEAN : Receive(taken)
  BY DEF Clock
<1>2. ~(recv_divcnt > FarDiv)
  BY Sizes
<1>3. CASE recv_state \in 2..9
  <2>1. RecvBit(taken)
    BY <1>1, <1>3 DEF Receive, RecvIdle, RecvStart, RecvStop
  <2> QED BY <1>2, <2>1, CountIs, Sizes DEF RecvBit
<1>4. CASE recv_state = 10
  <2>1. RecvStop(taken)
    BY <1>1, <1>4 DEF Receive, RecvIdle, RecvStart, RecvBit
  <2> QED BY <1>2, <2>1, CountIs, Sizes DEF RecvStop, delivers
<1> QED BY <1>3, <1>4

(* What the receiver does with a byte on the line, in a cycle that does not   *)
(* deliver it.                                                               *)
LEMMA ReceiverFollows ==
  ASSUME Inv, Clock, flight \in Bytes, ~delivers, NEW k \in 0..9, k = 10 - send_bitcnt, NEW n, n = send_divcnt
  PROVE  /\ k = 0 /\ n = 0 => recv_state' = 1 /\ recv_divcnt' = 0
         /\ k = 0 /\ n \in 1..Half => recv_state' = 1 /\ recv_divcnt' = n
         /\ k # 0 /\ n <= Half => recv_state' = k + 1 /\ recv_divcnt' = n + 1 + FarDiv - Half
         /\ n = Half + 1 => k # 9 /\ recv_state' = k + 2 /\ recv_divcnt' = 0
         /\ n > Half + 1 => k # 9 /\ recv_state' = k + 2 /\ recv_divcnt' = n - (Half + 1)
         /\ recv_state' \in 2..10 => Received(recv_state' - 2, recv_pattern', flight)
<1> USE DEF Inv
<1>1. InStep(k, n) /\ cfg_divider = FarDiv
  BY DEF LineInv
<1>2. n \in 0..(FarDiv + 1) /\ recv_state \in 0..10 /\ recv_pattern \in 0..255 /\ flight \in 0..255 /\ send_pattern \in 0..1023
  BY <1>1, ByteAssumption DEF InStep, TypeInv, FrameInv
<1>3. PICK taken \in BOOLEAN : Receive(taken)
  BY DEF Clock
<1>4. recv_divcnt \in 0..FarDiv => Count(recv_divcnt) = recv_divcnt + 1
  BY CountIs, Sizes
<1>5. CASE k = 0 /\ n = 0
  <2>1. recv_state = 0 /\ Sent(0, send_pattern, flight)
    BY <1>1, <1>5 DEF InStep
  <2>2. ser_rx = 0
    <3>1. send_pattern = 512 + 2 * flight
      BY <2>1 DEF Sent
    <3> QED BY <1>2, <3>1 DEF ser_rx, ser_tx
  <2>3. recv_state' = 1 /\ recv_divcnt' = 0
    BY <1>3, <2>1, <2>2 DEF Receive, RecvIdle, RecvStart, RecvBit, RecvStop
  <2> QED BY <1>5, <2>3, Sizes
<1>6. CASE k = 0 /\ n \in 1..(Half + 1)
  <2>1. recv_state = 1 /\ recv_divcnt = n - 1
    BY <1>1, <1>6 DEF InStep
  <2>2. /\ IF 2 * recv_divcnt > FarDiv
           THEN recv_state' = 2 /\ recv_divcnt' = 0
           ELSE recv_divcnt' = Count(recv_divcnt) /\ recv_state' = recv_state
        /\ recv_pattern' = recv_pattern
    BY <1>3, <2>1 DEF Receive, RecvIdle, RecvStart, RecvBit, RecvStop
  <2>3. CASE n = Half + 1
    <3>1. recv_state' = 2 /\ recv_divcnt' = 0
      BY <2>1, <2>2, <2>3, Sizes
    <3>2. Received(0, recv_pattern', flight)
      <4>1. recv_pattern' \in Octet /\ flight \in Octet
        BY <1>2, <2>2 DEF Octet
      <4> QED BY <4>1, Whole, Zenon
    <3> QED BY <1>6, <2>3, <3>1, <3>2, Sizes
  <2>4. CASE n \in 1..Half
    <3>1. recv_state' = 1 /\ recv_divcnt' = n
      BY <1>4, <2>1, <2>2, <2>4, Sizes
    <3> QED BY <1>6, <2>4, <3>1, Sizes
  <2> QED BY <1>6, <2>3, <2>4, Sizes
<1>7. CASE k # 0 /\ n <= Half + 1
  <2>1. recv_state = k + 1 /\ recv_divcnt = n + FarDiv - Half /\ Sent(k, send_pattern, flight)
    BY <1>1, <1>7 DEF InStep
  <2>2. Received(k - 1, recv_pattern, flight)
    <3>1. Received(recv_state - 2, recv_pattern, flight)
      BY <1>1, <1>7, <2>1 DEF InStep
    <3>2. recv_state - 2 = k - 1
      BY <2>1
    <3> QED BY <3>1, <3>2
  <2>3. CASE n = Half + 1
    <3>1. recv_divcnt > FarDiv
      BY <2>1, <2>3, Sizes
    <3>2. k # 9
      BY <2>1, <3>1 DEF delivers
    <3>3. k \in 1..8
      BY <1>7, <3>2
    <3>4. recv_state' = k + 2 /\ recv_divcnt' = 0 /\ recv_pattern' = 128 * (send_pattern % 2) + recv_pattern \div 2
      <4>1. recv_state \in 2..9 /\ recv_state + 1 = k + 2
        BY <2>1, <3>3
      <4>2. RecvBit(taken)
        BY <1>3, <4>1 DEF Receive, RecvIdle, RecvStart, RecvBit, RecvStop
      <4> QED BY <3>1, <4>1, <4>2 DEF RecvBit, ser_rx, ser_tx
    <3>5. Received(k, recv_pattern', flight)
      <4>1. send_pattern \in Frame /\ recv_pattern \in Octet /\ flight \in Octet
        BY <1>2 DEF Frame, Octet
      <4>2. k \in Samples /\ Sent(k, send_pattern, flight)
        BY <2>1, <3>3 DEF Samples
      <4>3. recv_pattern' = 128 * (send_pattern % 2) + recv_pattern \div 2
        BY <3>4
      <4>4. Received(k, 128 * (send_pattern % 2) + recv_pattern \div 2, flight)
        BY <2>2, <4>1, <4>2, SampleIn, Zenon
      <4> QED BY <4>3, <4>4
    <3>6. recv_state' - 2 = k
      BY <3>4
    <3> QED BY <1>7, <2>3, <3>2, <3>4, <3>5, <3>6, Sizes
  <2>4. CASE n \in 0..Half
    <3>1. recv_divcnt \in 0..FarDiv /\ recv_state \in 2..10
      BY <1>7, <2>1, <2>4, Sizes
    <3>2. recv_state' = recv_state /\ recv_divcnt' = recv_divcnt + 1 /\ recv_pattern' = recv_pattern
      BY <3>1, Waits
    <3>3. recv_state' = k + 1 /\ recv_divcnt' = n + 1 + FarDiv - Half
      BY <2>1, <2>4, <3>1, <3>2, Sizes
    <3>4. recv_state' - 2 = k - 1
      BY <3>3
    <3> QED BY <1>7, <2>2, <2>4, <3>2, <3>3, <3>4, Sizes
  <2> QED BY <1>2, <1>7, <2>3, <2>4, Sizes
<1>8. CASE n > Half + 1
  <2>1. k # 9 /\ recv_state = k + 2 /\ recv_divcnt = n - (Half + 2)
    BY <1>1, <1>8 DEF InStep
  <2>2. recv_divcnt \in 0..FarDiv /\ recv_state \in 2..10
    BY <1>2, <1>8, <2>1, Sizes
  <2>3. recv_state' = recv_state /\ recv_divcnt' = recv_divcnt + 1 /\ recv_pattern' = recv_pattern
    BY <2>2, Waits
  <2>4. Received(recv_state - 2, recv_pattern, flight)
    BY <1>1, <2>2 DEF InStep
  <2>5. recv_divcnt' = n - (Half + 1)
    BY <1>2, <2>1, <2>2, <2>3, Sizes
  <2> QED BY <1>2, <1>8, <2>1, <2>3, <2>4, <2>5, Sizes
<1> QED BY <1>2, <1>5, <1>6, <1>7, <1>8, Sizes

-----------------------------------------------------------------------------
(* What it takes for the receiver to be in step after a cycle.               *)
LEMMA InStepAfter ==
  ASSUME NEW k, NEW n, k = 10 - send_bitcnt', n = send_divcnt',
         k \in 0..9, n \in 0..(FarDiv + 1),
         k = 0 /\ n = 0 => recv_state' = 0,
         k = 0 /\ n \in 1..(Half + 1) => recv_state' = 1 /\ recv_divcnt' = n - 1,
         k # 0 /\ n <= Half + 1 => recv_state' = k + 1 /\ recv_divcnt' = n + FarDiv - Half,
         n > Half + 1 => k # 9 /\ recv_state' = k + 2 /\ recv_divcnt' = n - (Half + 2),
         Sent(k, send_pattern', flight'),
         recv_state' \in 2..10 => Received(recv_state' - 2, recv_pattern', flight')
  PROVE  InStep(10 - send_bitcnt, send_divcnt)'
BY DEF InStep, Half

LEMMA LineStep == Inv /\ Clock => LineInv'
<1> SUFFICES ASSUME Inv, Clock, flight' \in Bytes PROVE (cfg_divider = FarDiv /\ ~send_dummy /\ InStep(10 - send_bitcnt, send_divcnt))'
  BY DEF LineInv
<1> USE DEF Inv
<1>1. CASE accepts
  <2>1. cfg_divider = FarDiv /\ flight' = access.data
    BY <1>1, Sizes DEF Clock, Observe
  <2>2. recv_state = 0 /\ send_pattern = 1023
    BY <1>1, <2>1, FoundWaiting
  <2>3. recv_state' = 0
    BY <2>2, BitIs DEF Clock, Receive, RecvIdle, RecvStart, RecvBit, RecvStop
  <2>4. SendByte
    BY <1>1 DEF Clock, Send, SendReset, SendDummy, SendByte, SendBit, SendHold, accepts, bit_sent
  <2>5. cfg_divider' = FarDiv
    BY <1>1, <2>1 DEF Clock, Divider, accepts, reg_div_we, reg_dat_we
  <2>6. ~send_dummy' /\ send_pattern' = 512 + 2 * flight' /\ send_bitcnt' = 10 /\ send_divcnt' = 0
    BY <1>1, <2>1, <2>4 DEF SendByte, accepts
  <2>7. InStep(10 - send_bitcnt, send_divcnt)'
    <3>1. Sent(0, send_pattern', flight')
      BY <2>6 DEF Sent
    <3>2. 0 = 10 - send_bitcnt' /\ 0 = send_divcnt'
      BY <2>6
    <3> QED BY <2>3, <3>1, <3>2, Sizes, InStepAfter
  <2> QED BY <2>5, <2>6, <2>7
<1>2. CASE ~accepts
  <2>1. flight' = flight /\ flight \in Bytes /\ ~delivers /\ resetn /\ ~reg_div_we
    BY <1>2, Sizes DEF Clock, Observe
  <2>2. cfg_divider = FarDiv /\ ~send_dummy /\ InStep(10 - send_bitcnt, send_divcnt)
    BY <2>1 DEF LineInv
  <2>3. PICK k \in 0..9, n \in 0..(FarDiv + 1) : k = 10 - send_bitcnt /\ n = send_divcnt
    BY <2>2 DEF InStep
  <2>4. send_bitcnt \in 1..10 /\ Sent(k, send_pattern, flight)
    BY <2>2, <2>3 DEF InStep, FrameInv
  <2>5. cfg_divider' = FarDiv
    BY <2>1, <2>2 DEF Clock, Divider
  <2>6. SendBit \/ SendHold
    BY <1>2, <2>1, <2>2 DEF Clock, Send, SendReset, SendDummy, SendByte
  <2>7. ~send_dummy'
    BY <2>1, <2>2, <2>6 DEF SendBit, SendHold, dummy_asked
  <2>8. /\ k = 0 /\ n = 0 => recv_state' = 1 /\ recv_divcnt' = 0
        /\ k = 0 /\ n \in 1..Half => recv_state' = 1 /\ recv_divcnt' = n
        /\ k # 0 /\ n <= Half => recv_state' = k + 1 /\ recv_divcnt' = n + 1 + FarDiv - Half
        /\ n = Half + 1 => k # 9 /\ recv_state' = k + 2 /\ recv_divcnt' = 0
        /\ n > Half + 1 => k # 9 /\ recv_state' = k + 2 /\ recv_divcnt' = n - (Half + 1)
        /\ recv_state' \in 2..10 => Received(recv_state' - 2, recv_pattern', flight)
    BY <2>1, <2>3, ReceiverFollows
  <2>9. CASE SendHold
    <3>1. n \in 0..FarDiv /\ n + 1 = send_divcnt' /\ k = 10 - send_bitcnt' /\ send_pattern' = send_pattern
      BY <2>2, <2>3, <2>4, <2>9, CountIs, Sizes DEF SendHold, bit_sent
    <3>2. Sent(k, send_pattern', flight') /\ (recv_state' \in 2..10 => Received(recv_state' - 2, recv_pattern', flight'))
      BY <2>1, <2>4, <2>8, <3>1
    <3> DEFINE m == n + 1
    <3>3. m = send_divcnt' /\ k = 10 - send_bitcnt' /\ k \in 0..9 /\ m \in 0..(FarDiv + 1)
      BY <2>3, <3>1, Sizes
    <3>4. /\ k = 0 /\ m = 0 => recv_state' = 0
          /\ k = 0 /\ m \in 1..(Half + 1) => recv_state' = 1 /\ recv_divcnt' = m - 1
          /\ k # 0 /\ m <= Half + 1 => recv_state' = k + 1 /\ recv_divcnt' = m + FarDiv - Half
          /\ m > Half + 1 => k # 9 /\ recv_state' = k + 2 /\ recv_divcnt' = m - (Half + 2)
      BY <2>3, <2>8, <3>1, Sizes
    <3> HIDE DEF m
    <3>5. InStep(10 - send_bitcnt, send_divcnt)'
      BY <3>2, <3>3, <3>4, InStepAfter
    <3> QED BY <2>5, <2>7, <3>5
  <2>10. CASE SendBit
    <3>1. n = FarDiv + 1 /\ 0 = send_divcnt' /\ k + 1 = 10 - send_bitcnt' /\ send_pattern' = 512 + send_pattern \div 2
      BY <2>2, <2>3, <2>4, <2>10, Sizes DEF SendBit, bit_sent
    <3>2. k \in 0..8 /\ recv_state' = k + 2 /\ recv_divcnt' = FarDiv - Half
      BY <2>3, <2>8, <3>1, Sizes
    <3>3. Sent(k + 1, send_pattern', flight')
      <4>1. send_pattern \in Frame /\ flight \in Octet
        BY <2>1, ByteAssumption DEF FrameInv, Frame, Octet
      <4>2. k \in Places /\ Sent(k, send_pattern, flight)
        BY <2>4, <3>2 DEF Places
      <4>3. send_pattern' = 512 + send_pattern \div 2
        BY <3>1
      <4>4. Sent(k + 1, 512 + send_pattern \div 2, flight)
        BY <4>1, <4>2, ShiftOut
      <4> QED BY <2>1, <4>3, <4>4
    <3> DEFINE i == k + 1
    <3>4. 0 = send_divcnt' /\ i = 10 - send_bitcnt' /\ i \in 1..9
      BY <3>1, <3>2
    <3>5. /\ i = 0 /\ 0 = 0 => recv_state' = 0
          /\ i = 0 /\ 0 \in 1..(Half + 1) => recv_state' = 1 /\ recv_divcnt' = 0 - 1
          /\ i # 0 /\ 0 <= Half + 1 => recv_state' = i + 1 /\ recv_divcnt' = 0 + FarDiv - Half
          /\ 0 > Half + 1 => i # 9 /\ recv_state' = i + 2 /\ recv_divcnt' = 0 - (Half + 2)
      BY <3>2, <3>4, Sizes
    <3>6. Sent(i, send_pattern', flight') /\ (recv_state' \in 2..10 => Received(recv_state' - 2, recv_pattern', flight'))
      BY <2>1, <2>8, <3>3
    <3>7. i \in 0..9 /\ 0 \in 0..(FarDiv + 1)
      BY <3>4, Sizes
    <3> HIDE DEF i
    <3>8. InStep(10 - send_bitcnt, send_divcnt)'
      BY <3>4, <3>5, <3>6, <3>7, InStepAfter
    <3> QED BY <2>5, <2>7, <3>8
  <2> QED BY <2>6, <2>9, <2>10
<1> QED BY <1>1, <1>2

-----------------------------------------------------------------------------
(* While the line is idle, whatever the receiver believes to receive ends one *)
(* cycle earlier with every cycle.                                           *)
LEMMA NeededFalls ==
  ASSUME Inv, Clock, send_pattern = 1023
  PROVE  /\ recv_state = 0 => recv_state' = 0
         /\ recv_state # 0 => Needed \in Int /\ Needed >= 1 /\ Needed' \in Int /\ Needed' <= Needed - 1
<1> USE DEF Inv
<1>1. PICK taken \in BOOLEAN : Receive(taken)
  BY DEF Clock
<1>2. CASE recv_state = 0
  BY <1>1, <1>2, BitIs DEF Receive, RecvIdle, RecvStart, RecvBit, RecvStop
<1>3. CASE recv_state = 1
  <2>1. recv_divcnt \in 0..Half /\ Count(recv_divcnt) = recv_divcnt + 1
    BY <1>3, Sizes, CountIs DEF TypeInv
  <2>2. RecvStart(taken)
    BY <1>1, <1>3 DEF Receive, RecvIdle, RecvBit, RecvStop
  <2>3. Needed = 9 * Bit + Half + 1 - recv_divcnt
    BY <1>3 DEF Needed
  <2>4. CASE 2 * recv_divcnt > FarDiv
    <3>1. recv_divcnt = Half /\ recv_state' = 2 /\ recv_divcnt' = 0
      BY <2>1, <2>2, <2>4, Sizes DEF RecvStart
    <3>2. Needed' = 9 * Bit
      BY <3>1, Sizes DEF Needed
    <3> QED BY <1>3, <2>3, <3>1, <3>2, Sizes
  <2>5. CASE ~(2 * recv_divcnt > FarDiv)
    <3>1. recv_state' = 1 /\ recv_divcnt' = recv_divcnt + 1
      BY <1>3, <2>1, <2>2, <2>5 DEF RecvStart
    <3>2. Needed' = 9 * Bit + Half + 1 - (recv_divcnt + 1)
      BY <3>1 DEF Needed
    <3> QED BY <1>3, <2>1, <2>3, <3>2, Sizes
  <2> QED BY <2>4, <2>5
<1>4. CASE recv_state \in 2..10
  <2>1. recv_divcnt \in 0..(FarDiv + 1)
    BY <1>4 DEF TypeInv
  <2> DEFINE s == 11 - recv_state
  <2>2. Needed = s * Bit - recv_divcnt /\ s \in 1..9
    BY <1>4 DEF Needed
  <2>3. s * Bit \in Int /\ s * Bit >= Bit
    BY <2>2, Sizes
  <2>4. CASE recv_divcnt > FarDiv
    <3>1. recv_divcnt = FarDiv + 1
      BY <2>1, <2>4, Sizes
    <3>2. CASE recv_state = 10
      <4>1. recv_state' = 0
        BY <1>1, <2>4, <3>2 DEF Receive, RecvIdle, RecvStart, RecvBit, RecvStop, delivers
      <4>2. Needed' = 0
        BY <4>1 DEF Needed
      <4> QED BY <1>4, <2>2, <2>3, <3>1, <4>2, Sizes
    <3>3. CASE recv_state \in 2..9
      <4>1. recv_state' = recv_state + 1 /\ recv_divcnt' = 0
        BY <1>1, <2>4, <3>3 DEF Receive, RecvIdle, RecvStart, RecvBit, RecvStop
      <4>2. Needed' = (s - 1) * Bit
        BY <3>3, <4>1, Sizes DEF Needed
      <4>3. (s - 1) * Bit = s * Bit - Bit
        BY <2>2, Sizes
      <4> HIDE DEF s
      <4> QED BY <1>4, <2>2, <2>3, <3>1, <4>2, <4>3, Sizes
    <3> QED BY <1>4, <3>2, <3>3
  <2>5. CASE ~(recv_divcnt > FarDiv)
    <3>1. recv_divcnt \in 0..FarDiv
      BY <2>1, <2>5, Sizes
    <3>2. recv_state' = recv_state /\ recv_divcnt' = recv_divcnt + 1
      BY <1>4, <3>1, Waits
    <3>3. Needed' = s * Bit - (recv_divcnt + 1)
      BY <1>4, <3>2 DEF Needed
    <3> HIDE DEF s
    <3> QED BY <1>4, <2>2, <2>3, <3>1, <3>3, Sizes
  <2> QED BY <2>4, <2>5
<1> QED BY <1>2, <1>3, <1>4 DEF TypeInv

(* An idle frame lasts longer.                                               *)
LEMMA NeededBound == TypeInv => Needed <= 15 * Bit
<1> SUFFICES ASSUME TypeInv PROVE Needed <= 15 * Bit
  OBVIOUS
<1>1. CASE recv_state = 0
  BY <1>1, Sizes DEF Needed
<1>2. CASE recv_state = 1
  BY <1>2, Sizes DEF Needed, TypeInv
<1>3. CASE recv_state \in 2..10
  <2> DEFINE s == 11 - recv_state
  <2>1. s \in 1..9 /\ recv_divcnt \in Nat /\ Needed = s * Bit - recv_divcnt
    BY <1>3, Sizes DEF Needed, TypeInv
  <2> HIDE DEF s
  <2>2. s * Bit \in Int /\ s * Bit <= 9 * Bit
    BY <2>1, Sizes
  <2> QED BY <2>1, <2>2, Sizes
<1> QED BY <1>1, <1>2, <1>3 DEF TypeInv

(* No byte starts and none is on the line: it stays idle.                    *)
LEMMA StaysIdle ==
  ASSUME Inv, Clock, send_pattern = 1023, ~accepts
  PROVE  send_pattern' = 1023
<1> QED BY DEF Clock, Send, SendReset, SendDummy, SendByte, SendBit, SendHold

LEMMA IdleStep == Inv /\ Clock => IdleInv'
<1> SUFFICES ASSUME Inv, Clock PROVE IdleInv'
  OBVIOUS
<1> USE DEF Inv
<1>1. ASSUME flight' = None PROVE recv_state' = 0 /\ send_pattern' = 1023
  <2>1. ~accepts
    BY <1>1, Sizes DEF Clock, Observe, accepts, TypeInv, reg_dat_we, NoAccess
  <2>2. CASE flight \in Bytes
    <3>1. delivers
      BY <1>1, <2>1, <2>2, Sizes DEF Clock, Observe
    <3>2. recv_state' = 0
      BY <3>1 DEF delivers, Clock, Receive, RecvIdle, RecvStart, RecvBit, RecvStop
    <3> QED BY <2>1, <2>2, <3>1, <3>2, Delivery, StaysIdle
  <2>3. CASE flight \notin Bytes
    <3>1. flight = None
      BY <1>1, <2>1, <2>3 DEF Clock, Observe
    <3>2. recv_state = 0 /\ send_pattern = 1023
      BY <3>1 DEF IdleInv
    <3> QED BY <2>1, <3>2, NeededFalls, StaysIdle
  <2> QED BY <2>2, <2>3
<1>2. ASSUME cfg_divider' = FarDiv, ~send_dummy', flight' \notin Bytes
      PROVE  send_pattern' = 1023 /\ (send_bitcnt' # 0 => send_divcnt' <= FarDiv + 1) /\ Needed' <= Ahead'
  <2>1. ~accepts
    <3> SUFFICES ASSUME accepts PROVE FALSE
      OBVIOUS
    <3>1. cfg_divider' = cfg_divider
      BY DEF accepts, Clock, Divider, reg_div_we, reg_dat_we
    <3>2. flight' = access.data
      BY <1>2, <3>1 DEF Clock, Observe
    <3> QED BY <1>2, <3>2 DEF accepts, TypeInv, reg_dat_we, NoAccess
  <2>2. CASE SendDummy
    <3>1. send_pattern' = 1023 /\ send_bitcnt' = 15 /\ send_divcnt' = 0
      BY <2>2 DEF SendDummy
    <3>2. Ahead' = 15 * Bit
      BY <3>1, Sizes DEF Ahead
    <3>3. (TypeInv => Needed <= 15 * Bit)'
      BY NeededBound, PTL
    <3>4. TypeInv'
      BY TypeStep
    <3> QED BY <3>1, <3>2, <3>3, <3>4, Sizes
  <2>3. CASE ~SendDummy
    <3>1. SendBit \/ SendHold
      BY <1>2, <2>1, <2>3 DEF Clock, Send, SendReset, SendByte
    <3>2. resetn /\ ~send_dummy /\ ~reg_div_we
      BY <1>2, <3>1 DEF SendBit, SendHold, dummy_asked
    <3>3. cfg_divider = FarDiv
      BY <1>2, <3>2 DEF Clock, Divider
    <3>4. CASE flight \in Bytes
      <4>1. delivers
        BY <1>2, <2>1, <3>2, <3>4 DEF Clock, Observe
      <4>2. send_bitcnt = 1 /\ send_pattern = 1023 /\ send_divcnt \in 0..(FarDiv + 1)
        BY <3>4, <4>1, Delivery DEF LineInv, InStep
      <4>3. Needed' = 0
        BY <4>1 DEF delivers, Clock, Receive, RecvIdle, RecvStart, RecvBit, RecvStop, Needed
      <4>4. send_bitcnt' = 0 \/ (send_bitcnt' = 1 /\ send_divcnt' \in 0..(FarDiv + 1))
        <5>1. CASE SendBit
          BY <4>2, <5>1 DEF SendBit
        <5>2. CASE SendHold
          BY <3>3, <4>2, <5>2, CountIs, Sizes DEF SendHold, bit_sent
        <5> QED BY <3>1, <5>1, <5>2
      <4>5. Ahead' >= 0
        BY <4>4, Sizes DEF Ahead
      <4> QED BY <2>1, <4>2, <4>3, <4>4, <4>5, StaysIdle, Sizes
    <3>5. CASE flight \notin Bytes
      <4>1. send_pattern = 1023 /\ (send_bitcnt # 0 => send_divcnt \in 0..(FarDiv + 1)) /\ Needed <= Ahead
        BY <3>2, <3>3, <3>5, Sizes DEF IdleInv, TypeInv
      <4>2. CASE send_bitcnt = 0
        <5>1. send_bitcnt' = 0
          BY <3>1, <4>2 DEF SendBit, SendHold, bit_sent
        <5>2. Ahead = 0 /\ Ahead' = 0
          BY <4>2, <5>1 DEF Ahead
        <5>3. recv_state = 0
          BY <4>1, <5>2, NeededFalls
        <5>4. Needed' = 0
          BY <4>1, <5>3, NeededFalls DEF Needed
        <5> QED BY <2>1, <4>1, <5>1, <5>2, <5>4, StaysIdle
      <4>3. CASE send_bitcnt # 0
        <5> DEFINE b == send_bitcnt
        <5>1. b \in 1..15 /\ Ahead = b * Bit - send_divcnt /\ b * Bit \in Int /\ b * Bit >= Bit
          BY <4>3, Sizes DEF FrameInv, Ahead
        <5>2. (send_bitcnt' # 0 => send_divcnt' <= FarDiv + 1) /\ Ahead' = Ahead - 1
          <6>1. CASE SendBit
            <7>1. send_divcnt = FarDiv + 1 /\ send_bitcnt' = b - 1 /\ send_divcnt' = 0
              BY <3>3, <4>1, <4>3, <6>1, Sizes DEF SendBit, bit_sent
            <7>2. (b - 1) * Bit = b * Bit - Bit
              BY <5>1, Sizes
            <7>3. Ahead' = (b - 1) * Bit
              <8>1. b = 1 => (b - 1) * Bit = 0
                BY Sizes
              <8> QED BY <5>1, <7>1, <8>1, Sizes DEF Ahead
            <7> HIDE DEF b
            <7> QED BY <5>1, <7>1, <7>2, <7>3, Sizes
          <6>2. CASE SendHold
            <7>1. send_divcnt \in 0..FarDiv /\ send_bitcnt' = b /\ send_divcnt' = send_divcnt + 1
              BY <3>3, <4>1, <4>3, <6>2, CountIs, Sizes DEF SendHold, bit_sent
            <7>2. Ahead' = b * Bit - send_divcnt'
              BY <5>1, <7>1 DEF Ahead
            <7> HIDE DEF b
            <7> QED BY <5>1, <7>1, <7>2, Sizes
          <6> QED BY <3>1, <6>1, <6>2
        <5>3. Ahead \in Int /\ Ahead >= 1
          <6> HIDE DEF b
          <6> QED BY <4>1, <4>3, <5>1, Sizes
        <5>4. Needed' <= Ahead'
          <6>1. CASE recv_state = 0
            <7>1. Needed' = 0
              BY <4>1, <6>1, NeededFalls DEF Needed
            <7> QED BY <5>2, <5>3, <7>1
          <6>2. CASE recv_state # 0
            <7>1. Needed \in Int /\ Needed' \in Int /\ Needed' <= Needed - 1
              BY <4>1, <6>2, NeededFalls
            <7> QED BY <4>1, <5>2, <5>3, <7>1
          <6> QED BY <6>1, <6>2
        <5> QED BY <2>1, <4>1, <5>2, <5>4, StaysIdle
      <4> QED BY <4>2, <4>3
    <3> QED BY <3>4, <3>5
  <2> QED BY <2>2, <2>3
<1> QED BY <1>1, <1>2 DEF IdleInv

LEMMA Keeps == Inv /\ [UartNext]_uartVars => Inv'
<1> SUFFICES ASSUME Inv, [UartNext]_uartVars PROVE Inv'
  OBVIOUS
<1>1. CASE UartNext
  BY <1>1, TypeStep, FrameStep, LineStep, IdleStep DEF UartNext, Inv
<1>2. CASE UNCHANGED uartVars
  BY <1>2 DEF Inv, TypeInv, FrameInv, LineInv, InStep, Sent, Received, IdleInv, Ahead, Needed,
              uartVars, busVars, sendVars, recvVars
<1> QED BY <1>1, <1>2

(* src/picosoc/simpleuart.v (61-137): for every divider, whatever is written   *)
(* to the divider register and whenever the transmitter is reset, the far end *)
(* delivers the byte that was sent with its divider, and no byte is sent to   *)
(* it before it waits for one.                                               *)
THEOREM TransmitterKeepsPace == UartSpec => DeliversSent
<1>1. Inv /\ [UartNext]_uartVars =>
        [/\ delivers /\ flight # Noise => recv_buf_data' = flight /\ recv_buf_valid'
         /\ accepts /\ cfg_divider = FarDiv => flight \notin Bytes /\ recv_state = 0]_uartVars
  <2> SUFFICES ASSUME Inv, UartNext
               PROVE  /\ delivers /\ flight # Noise => recv_buf_data' = flight /\ recv_buf_valid'
                      /\ accepts /\ cfg_divider = FarDiv => flight \notin Bytes /\ recv_state = 0
    OBVIOUS
  <2>1. ASSUME delivers, flight # Noise PROVE recv_buf_data' = flight /\ recv_buf_valid'
    <3>1. recv_state = 10
      BY <2>1 DEF delivers
    <3>2. flight \in Bytes
      BY <2>1, <3>1 DEF Inv, TypeInv, IdleInv
    <3>3. recv_pattern = flight
      BY <2>1, <3>2, Delivery
    <3> QED BY <2>1, <3>1, <3>3 DEF UartNext, Clock, Receive, RecvIdle, RecvStart, RecvBit, RecvStop
  <2>2. accepts /\ cfg_divider = FarDiv => flight \notin Bytes /\ recv_state = 0
    BY FoundWaiting
  <2> QED BY <2>1, <2>2
<1>2. UartInit => Inv
  BY InitInv
<1>3. Inv /\ [UartNext]_uartVars => Inv'
  BY Keeps
<1> QED BY <1>1, <1>2, <1>3, PTL DEF UartSpec, DeliversSent
=============================================================================
