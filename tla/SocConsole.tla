------------------------------ MODULE SocConsole ------------------------------
(***************************************************************************)
(* The console of src/picosoc/firmware.c: the prompts that are repeated      *)
(* while nobody types, the menu, the echo and the memory test.  The receive   *)
(* register of the UART holds one byte: what is typed during a print or a     *)
(* command is overwritten by the next byte.  The commands that reach the     *)
(* flash controller are those of module FlashFirmware; here they are work    *)
(* that takes time.                                                          *)
(***************************************************************************)
EXTENDS SocMemtest

CONSTANTS
  Rams,                   \* the RAMs the firmware may be built for
  Faults,                 \* and the faults they may have
  Timeout,                \* cycles until the lamps turn over, 12000000 in the code
  CycleRange,             \* 2^32, the range of rdcycle
  Repeats,                \* prompts to a menu, 10 in the code
  Durations               \* what a print or a command may take
ASSUME ConsoleAssumption ==
  /\ Timeout \in Nat /\ CycleRange \in Nat /\ Repeats \in Nat \ {0}
  /\ Durations \subseteq 1..Timeout
  /\ \A d \in Durations : Timeout + d + 1 < CycleRange

Enter == "\r"
Bang == "!"
Commands == {"S", "M", "e"} \* the other keys of the menu are like S for the console
Chars == Commands \cup {Enter, Bang}
Empty == "empty"
Nothing == [says |-> "nothing"]
Reports == {cmd_memtest(ram, f) @@ [ram |-> ram, fault |-> f] : ram \in Rams, f \in Faults}

VARIABLES
  place, rep,
  cycle, cycles_begin,    \* rdcycle, and its value at the last turn of the lamps
  since,                  \* the cycles that really passed since
  leds,                   \* whether reg_leds shines
  reg_uart_data,          \* the received byte, or Empty
  report                  \* what the last command found out, while it is shown
consoleVars == <<place, rep, cycle, cycles_begin, since, leds, reg_uart_data, report>>

ConsoleInit ==
  /\ place = "boot" /\ rep = 0 /\ leds = TRUE
  /\ cycle \in 0..(CycleRange - 1) /\ cycles_begin = 0 /\ since = 0
  /\ reg_uart_data = Empty /\ report = Nothing

(* Time that passes in a step; a wait that begins before or after its print.  *)
Later(d) == cycle' = (cycle + d) % CycleRange
Passes(d) == Later(d) /\ since' = since + d /\ UNCHANGED cycles_begin
StartsBefore(d) == Later(d) /\ cycles_begin' = cycle /\ since' = d
StartsAfter(d) == Later(d) /\ cycles_begin' = cycle' /\ since' = 0

(* Mutant: the times are compared, not their difference. *)
TimedOut_compared == cycle > cycles_begin + Timeout
TimedOut == (cycle - cycles_begin) % CycleRange > Timeout

(* One turn of the loop of getchar_prompt, which takes what was received.  The *)
(* prompt that is due is printed before the key is looked for; only the wait  *)
(* for Enter has one.                                                        *)
Waiting == place \in {"enter", "key", "echo"}
Polls(c) ==
  /\ Waiting /\ reg_uart_data = c /\ reg_uart_data' = Empty
  /\ IF ~TimedOut THEN Passes(1)
     ELSE \E d \in (IF place = "enter" THEN Durations ELSE {1}) : StartsBefore(d)
Poll ==
  /\ Polls(Empty) /\ leds' = (leds # TimedOut)
  /\ UNCHANGED <<place, rep, report>>
Gets(C, label) == (\E c \in C : Polls(c)) /\ leds' = FALSE /\ place' = label

-----------------------------------------------------------------------------
(* main, up to the key that ends the boot prompt.                            *)
Boot ==
  /\ place = "boot" /\ place' = "enter" /\ leds' = TRUE
  /\ \E d \in Durations : StartsBefore(d)
  /\ UNCHANGED <<rep, reg_uart_data, report>>
KeepBooting == place = "enter" /\ Gets(Chars \ {Enter}, "boot") /\ UNCHANGED <<rep, report>>
EndBoot ==
  /\ place = "enter" /\ Gets({Enter}, "menu") /\ UNCHANGED rep
  /\ \E ram \in Rams : report' = [says |-> "size", ram |-> ram, shown |-> print_dec((4 * ram.words) \div 1024)]

Menu ==
  /\ place = "menu" /\ place' = "prompt" /\ rep' = Repeats /\ report' = Nothing
  /\ \E d \in Durations : Passes(d)
  /\ UNCHANGED <<leds, reg_uart_data>>
Prompt ==
  /\ place = "prompt"
  /\ IF rep > 0 THEN place' = "key" /\ leds' = TRUE /\ \E d \in Durations : StartsAfter(d)
     ELSE place' = "menu" /\ Passes(1) /\ UNCHANGED leds
  /\ UNCHANGED <<rep, reg_uart_data, report>>

UnknownKey == place = "key" /\ Gets(Chars \ Commands, "prompt") /\ rep' = rep - 1 /\ UNCHANGED report
Work == place = "key" /\ Gets({"S"}, "menu") /\ UNCHANGED <<rep, report>>
Memtest ==
  /\ place = "key" /\ Gets({"M"}, "menu") /\ UNCHANGED rep
  /\ report' \in Reports
StartEcho == place = "key" /\ Gets({"e"}, "listen") /\ UNCHANGED <<rep, report>>
Listen ==
  /\ place = "listen" /\ place' = "echo" /\ leds' = TRUE
  /\ \E d \in Durations : StartsAfter(d)
  /\ UNCHANGED <<rep, reg_uart_data, report>>
Echo == place = "echo" /\ Gets(Chars \ {Bang}, "listen") /\ UNCHANGED <<rep, report>>
EndEcho == place = "echo" /\ Gets({Bang}, "menu") /\ UNCHANGED <<rep, report>>

Firmware ==
  \/ Boot \/ Poll \/ KeepBooting \/ EndBoot \/ Menu \/ Prompt
  \/ UnknownKey \/ Work \/ Memtest \/ StartEcho \/ Listen \/ Echo \/ EndEcho
(* The user types a byte, over one that was not taken.                       *)
Type ==
  /\ reg_uart_data' \in Chars
  /\ UNCHANGED <<place, rep, cycle, cycles_begin, since, leds, report>>

ConsoleNext == Firmware \/ Type

-----------------------------------------------------------------------------
(* While nobody types, the lamps turn over (and the boot prompt is repeated)  *)
(* exactly when more than Timeout cycles have really passed since they last   *)
(* did or the wait began, also when the cycle counter wraps in between.      *)
PromptsOnTime == [][Poll => ((leds' # leds) <=> (since > Timeout))]_consoleVars

(* The memory test passes a sound RAM and fails one with a stuck address line *)
(* that two of its words or two of its bytes tell apart.  Where it walks more *)
(* than one word it fails every RAM with a stuck data line.  What print_hex    *)
(* shows then is the place of the failure.                                   *)
Told(ram, line) == 2^line < ram.bytes \div 4 \/ (2^line < ram.words /\ 2^line >= ram.stride)
MustFail(ram, f) ==
  \/ f.kind = "address" /\ Told(ram, f.line)
  \/ f.kind = "data" /\ ram.words > ram.stride
TestSeesFaults ==
  report.says \in {"word", "byte", "passed"} =>
    /\ MustFail(report.ram, report.fault) => report.says # "passed"
    /\ report.fault.kind = "none" => report.says = "passed"
    /\ report.says # "passed" => Reads(report.shown, 16) = report.at
=============================================================================
