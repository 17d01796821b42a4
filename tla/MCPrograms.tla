------------------------------ MODULE MCPrograms ------------------------------
(* One of the programs that run on the core: the noise cleaner with its host, *)
(* the PicoSoC console, Dhrystone or its library; or the UART they print      *)
(* through.                                                                  *)
EXTENDS MCAudioDemo, SocConsole, Dhrystone, DhryLibCalls, SimpleUart

MCRams == {Ram(128, 256, 128), Ram(2048, 256, 128)}
MCFaults == {Sound} \cup StuckData \cup StuckAddress(0..10)
StringBytes == {1, 128, 255}
MCCalls ==
  Copies(StringBytes, 5) \cup Comparisons({1, 128}, 4, <<1, 1, 1>>) \cup Moves({0, 1}, 3)
  \cup Numbers((-120..120) \cup {999, 1000, 2147483647, -2147483647})

VARIABLE program
programVars == <<program, vars, consoleVars, dhrystone, call, uartVars>>

ProgramInit ==
  /\ program \in {"cleaner", "console", "dhrystone", "library", "uart"}
  /\ run \in IF program = "cleaner" THEN Runs ELSE {CHOOSE r \in Runs : TRUE}
  /\ Init /\ ConsoleInit /\ DhrystoneInit /\ LibraryInit /\ UartInit
  /\ program # "console" => cycle = 0

CleanerStep == program = "cleaner" /\ Next /\ UNCHANGED <<program, consoleVars, dhrystone, call, uartVars>>
ConsoleStep == program = "console" /\ ConsoleNext /\ UNCHANGED <<program, vars, dhrystone, call, uartVars>>
DhrystoneStep == program = "dhrystone" /\ Main /\ UNCHANGED <<program, vars, consoleVars, call, uartVars>>
LibraryStep == program = "library" /\ LibraryNext /\ UNCHANGED <<program, vars, consoleVars, dhrystone, uartVars>>
UartStep(A) == program = "uart" /\ A /\ UNCHANGED <<program, vars, consoleVars, dhrystone, call>>
ProgramNext == CleanerStep \/ ConsoleStep \/ DhrystoneStep \/ LibraryStep \/ UartStep(UartNext)
ProgramSpec == ProgramInit /\ [][ProgramNext]_programVars /\ WF_programVars(UartStep(UartProgress))
=============================================================================
