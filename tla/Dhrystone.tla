------------------------------- MODULE Dhrystone -------------------------------
(***************************************************************************)
(* The benchmark of src/dhrystone: main, one action per statement or call,    *)
(* and the procedures as operators on g, the global variables.  The strings   *)
(* are names; they agree in their first letters, DHRY, and are ordered as     *)
(* they are numbered.  Letters are their codes.                              *)
(***************************************************************************)
EXTENDS Integers, Sequences

(* An int, 100 in the code; with the 10 that the last of the printed values    *)
(* adds to it it is still one.                                               *)
CONSTANT Number_Of_Runs
INT_MAX == 2147483647
ASSUME DhrystoneAssumption == Number_Of_Runs \in 1..(INT_MAX - 10)

Ident_1 == 0
Ident_2 == 1
Ident_3 == 2
Ident_4 == 3
Ident_5 == 4
Letter(c) == CASE c = "A" -> 65 [] c = "B" -> 66 [] c = "C" -> 67 [] c = "R" -> 82 [] c = "W" -> 87
             [] c = "Y" -> 89 [] c = "Z" -> 90
Str == <<"1'ST STRING", "2'ND STRING", "3'RD STRING", "SOME STRING">>
Str_Char(str, k) == Letter(<<"D", "H", "R", "Y">>[k + 1])
Number(str) == CHOOSE k \in 1..4 : Str[k] = str
Order(str_1, str_2) == Number(str_1) - Number(str_2)
NoString == "none"

Node == {"Glob", "Next"}  \* what Ptr_Glob and Next_Ptr_Glob point to
Null == "Null"

VARIABLES
  stmt, g, l,             \* the place in main, the globals, the locals of main
  Run_Index, Ch_Index     \* and the counters of its loops
dhrystone == <<stmt, g, l, Run_Index, Ch_Index>>

(* Globals start as zero; the fields of a record as what malloc returns.     *)
NoRecord == [Ptr_Comp |-> Null, Discr |-> 0, Enum_Comp |-> 0, Int_Comp |-> 0, Str_Comp |-> NoString]
DhrystoneInit ==
  /\ stmt = "init" /\ Run_Index = 0 /\ Ch_Index = 0
  /\ g = [Int_Glob |-> 0, Bool_Glob |-> FALSE, Ch_1_Glob |-> 0, Ch_2_Glob |-> 0,
          Arr_1 |-> [i \in 0..49 |-> 0],
          Arr_2 |-> [i \in {8, 28} |-> [j \in 0..49 |-> 0]], \* the rows that are used
          rec |-> [p \in Node |-> NoRecord]]
  /\ l = [Int_1 |-> 0, Int_2 |-> 0, Int_3 |-> 0, Enum |-> 0, Str_1 |-> NoString, Str_2 |-> NoString]

-----------------------------------------------------------------------------
(* dhry_2.c.  A procedure that has a result and an effect gives both.        *)
Func_1(s, ch_1, ch_2) ==
  IF ch_1 # ch_2 THEN [enum |-> Ident_1, g |-> s]
  ELSE [enum |-> Ident_2, g |-> [s EXCEPT !.Ch_1_Glob = ch_1]]

(* The loop of Func_2 ends when Func_1 says Ident_1, which leaves 'A' in      *)
(* Ch_Loc; so the tests for letters from 'W' and for 'R' fail.               *)
Func_2(s, str_1, str_2) ==
  LET called == Func_1(s, Str_Char(str_1, 2), Str_Char(str_2, 3))
      Ch_Loc == Letter("A")
      Int_Loc == IF Ch_Loc >= Letter("W") /\ Ch_Loc < Letter("Z") THEN 7 ELSE 3
  IN IF Ch_Loc = Letter("R") THEN [bool |-> TRUE, g |-> called.g]
     ELSE IF Order(str_1, str_2) > 0
     THEN [bool |-> TRUE, g |-> [called.g EXCEPT !.Int_Glob = Int_Loc + 7]]
     ELSE [bool |-> FALSE, g |-> called.g]
Func_2_ends(s, str_1, str_2) == Func_1(s, Str_Char(str_1, 2), Str_Char(str_2, 3)).enum = Ident_1
Func_3(enum) == enum = Ident_3

Proc_6(s, enum) ==
  LET copied == IF Func_3(enum) THEN enum ELSE Ident_4
  IN CASE enum = Ident_1 -> Ident_1
       [] enum = Ident_2 -> IF s.Int_Glob > 100 THEN Ident_1 ELSE Ident_4
       [] enum = Ident_3 -> Ident_2
       [] enum = Ident_4 -> copied
       [] enum = Ident_5 -> Ident_3

Proc_7(int_1, int_2) == int_1 + 2 + int_2

(* Mutant: the count of the runs is left out. *)
Proc_8_uncounted(s, int_1, int_2) ==
  [s EXCEPT !.Int_Glob = 5, !.Arr_1[int_1 + 5] = int_2, !.Arr_1[int_1 + 6] = int_2,
            !.Arr_1[int_1 + 35] = int_1 + 5]
Proc_8(s, int_1, int_2) ==
  LET Int_Loc == int_1 + 5
      arr_1 == [s.Arr_1 EXCEPT ![Int_Loc] = int_2, ![Int_Loc + 1] = int_2, ![Int_Loc + 30] = Int_Loc]
      row == [s.Arr_2[Int_Loc] EXCEPT ![Int_Loc] = Int_Loc, ![Int_Loc + 1] = Int_Loc, ![Int_Loc - 1] = @ + 1]
      far == [s.Arr_2[Int_Loc + 20] EXCEPT ![Int_Loc] = int_2]
  IN [s EXCEPT !.Arr_1 = arr_1, !.Arr_2 = [@ EXCEPT ![Int_Loc] = row, ![Int_Loc + 20] = far], !.Int_Glob = 5]

-----------------------------------------------------------------------------
(* dhry_1.c: the procedures that work on the globals.                        *)
Proc_5(s) == [s EXCEPT !.Ch_1_Glob = Letter("A"), !.Bool_Glob = FALSE]
Proc_4(s) == [s EXCEPT !.Bool_Glob = (s.Ch_1_Glob = Letter("A")) \/ @, !.Ch_2_Glob = Letter("B")]

(* Proc_3 stores the successor of Ptr_Glob where it is told to: in Ptr_Comp   *)
(* of the record p.                                                          *)
Proc_3(s, p) ==
  [s EXCEPT !.rec[p].Ptr_Comp = s.rec["Glob"].Ptr_Comp,
            !.rec["Glob"].Int_Comp = Proc_7(10, s.Int_Glob)]

Proc_1(s, p) ==
  LET next == s.rec[p].Ptr_Comp
      assigned == [s EXCEPT !.rec[next] = s.rec["Glob"]]
      five == [assigned EXCEPT !.rec[p].Int_Comp = 5]
      linked == [five EXCEPT !.rec[next].Int_Comp = five.rec[p].Int_Comp,
                             !.rec[next].Ptr_Comp = five.rec[p].Ptr_Comp]
      third == Proc_3(linked, next)
  IN IF third.rec[next].Discr = Ident_1
     THEN [third EXCEPT !.rec[next].Int_Comp = Proc_7(6, 10),
                        !.rec[next].Enum_Comp = Proc_6(third, third.rec[p].Enum_Comp),
                        !.rec[next].Ptr_Comp = third.rec["Glob"].Ptr_Comp]
     ELSE [third EXCEPT !.rec[p] = third.rec[third.rec[p].Ptr_Comp]]

(* The loop of Proc_2 ends at once when Ch_1_Glob is 'A', and else turns on   *)
(* an uninitialised variable.                                                *)
Proc_2_ends(s) == s.Ch_1_Glob = Letter("A")
Proc_2(s, int) == int + 10 - 1 - s.Int_Glob

-----------------------------------------------------------------------------
(* main.                                                                     *)
Goes(from, to) == stmt = from /\ stmt' = to
Initialize ==
  /\ Goes("init", "test")
  /\ g' = [g EXCEPT
             !.rec["Glob"] = [Ptr_Comp |-> "Next", Discr |-> Ident_1, Enum_Comp |-> Ident_3,
                              Int_Comp |-> 40, Str_Comp |-> Str[4]],
             !.Arr_2[8][7] = 10]
  /\ l' = [l EXCEPT !.Str_1 = Str[1]]
  /\ Run_Index' = 1 /\ UNCHANGED Ch_Index

NextRun == Goes("test", "run") /\ Run_Index <= Number_Of_Runs /\ UNCHANGED <<g, l, Run_Index, Ch_Index>>
Finish == Goes("test", "done") /\ Run_Index > Number_Of_Runs /\ UNCHANGED <<g, l, Run_Index, Ch_Index>>

Compare ==
  LET fresh == Proc_4(Proc_5(g))
  IN /\ Goes("run", "while") /\ Func_2_ends(fresh, l.Str_1, Str[2])
     /\ g' = [Func_2(fresh, l.Str_1, Str[2]).g EXCEPT !.Bool_Glob = ~Func_2(fresh, l.Str_1, Str[2]).bool]
     /\ l' = [l EXCEPT !.Int_1 = 2, !.Int_2 = 3, !.Str_2 = Str[2], !.Enum = Ident_2]
     /\ UNCHANGED <<Run_Index, Ch_Index>>

While ==
  /\ Goes("while", "while") /\ l.Int_1 < l.Int_2
  /\ l' = [l EXCEPT !.Int_3 = Proc_7(l.Int_1, l.Int_2), !.Int_1 = @ + 1]
  /\ UNCHANGED <<g, Run_Index, Ch_Index>>
Records ==
  /\ Goes("while", "chars") /\ l.Int_1 >= l.Int_2
  /\ g' = Proc_1(Proc_8(g, l.Int_1, l.Int_3), "Glob")
  /\ Ch_Index' = Letter("A")
  /\ UNCHANGED <<l, Run_Index>>

(* One turn of the loop over the letters up to Ch_2_Glob.  A letter for which  *)
(* Func_1 says what Enum_Loc holds changes the locals.                       *)
Letters ==
  LET called == Func_1(g, Ch_Index, Letter("C"))
  IN /\ Goes("chars", "chars") /\ Ch_Index <= g.Ch_2_Glob
     /\ IF l.Enum # called.enum THEN g' = called.g /\ l' = l
        ELSE /\ g' = [called.g EXCEPT !.Int_Glob = Run_Index]
             /\ l' = [l EXCEPT !.Enum = Proc_6(called.g, Ident_1), !.Str_2 = Str[3], !.Int_2 = Run_Index]
     /\ Ch_Index' = Ch_Index + 1
     /\ UNCHANGED Run_Index

Ints ==
  LET product == l.Int_2 * l.Int_1
      quotient == product \div l.Int_3
  IN /\ Goes("chars", "test") /\ Ch_Index > g.Ch_2_Glob /\ Proc_2_ends(g)
     /\ l' = [l EXCEPT !.Int_2 = 7 * (product - l.Int_3) - quotient, !.Int_1 = Proc_2(g, quotient)]
     /\ Run_Index' = Run_Index + 1
     /\ UNCHANGED <<g, Ch_Index>>

Main == Initialize \/ NextRun \/ Finish \/ Compare \/ While \/ Records \/ Letters \/ Ints

-----------------------------------------------------------------------------
(* When the benchmark has run, every variable has the value that main prints  *)
(* as the one it should have.                                                *)
FinalValues ==
  stmt = "done" =>
    /\ g.Int_Glob = 5 /\ g.Bool_Glob /\ g.Ch_1_Glob = Letter("A") /\ g.Ch_2_Glob = Letter("B")
    /\ g.Arr_1[8] = 7 /\ g.Arr_2[8][7] = Number_Of_Runs + 10
    /\ g.rec["Glob"] = [Ptr_Comp |-> g.rec["Next"].Ptr_Comp, Discr |-> 0, Enum_Comp |-> 2,
                        Int_Comp |-> 17, Str_Comp |-> "SOME STRING"]
    /\ g.rec["Next"] = [Ptr_Comp |-> g.rec["Glob"].Ptr_Comp, Discr |-> 0, Enum_Comp |-> 1,
                        Int_Comp |-> 18, Str_Comp |-> "SOME STRING"]
    /\ l = [Int_1 |-> 5, Int_2 |-> 13, Int_3 |-> 7, Enum |-> 1,
            Str_1 |-> "1'ST STRING", Str_2 |-> "2'ND STRING"]
=============================================================================
