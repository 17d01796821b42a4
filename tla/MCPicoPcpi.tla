------------------------------ MODULE MCPicoPcpi ------------------------------
EXTENDS PicoPcpi
MCMultipliers == {Sequential, Fast(FALSE, FALSE), Fast(TRUE, TRUE)}
Least == 2^(XLEN - 1)
MCPrograms ==
  [arith |-> \* one multiplication or division of every pair of operands
     [insns |-> MulInsns \cup DivInsns, operands |-> Word \X Word, length |-> 1, idle |-> {0}],
   share |-> \* every kind of instruction, operands at the boundaries, garbage in between
     [insns |-> {"MUL", "MULHSU", "DIV", "REM", "MAC16", "other"},
      operands |-> {<<Least, 2^XLEN - 1>>, <<5, 0>>, <<2^XLEN - 3, 3>>},
      length |-> 3, idle |-> {0, 2^XLEN - 1}]]
=============================================================================
