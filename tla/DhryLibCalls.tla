----------------------------- MODULE DhryLibCalls -----------------------------
(***************************************************************************)
(* Calls of the C library of src/dhrystone/stdlib.c, each with its result and *)
(* the one that the C standard asks for.                                     *)
(***************************************************************************)
EXTENDS DhryLib

CONSTANT Calls            \* a set of Call records
VARIABLE call

Call(fn, result, reference) == [fn |-> fn, result |-> result, reference |-> reference]
Strings(bytes, n) == SeqOf(bytes, n)
Tails(bytes) == {<<0, a, b, 0>> : a \in bytes, b \in bytes}

Copies(bytes, n) ==
  {Call("strcpy", strcpy(dst, src, s \o t), Append(s, 0)) :
     dst \in 0..3, src \in 0..3, s \in Strings(bytes, n), t \in Tails(bytes)}
Compared(x, y) ==
  LET m == Append(x, 0) n == Append(y, 0)
      k == CHOOSE i \in DOMAIN m : (m[i] # n[i] \/ m[i] = 0) /\ \A j \in 1..(i - 1) : m[j] = n[j]
  IN Sign(m[k], n[k])
Comparisons(bytes, n, junk) ==
  {Call("strcmp", <<strcmp(p, q, x \o <<0>> \o junk, y \o <<0, 0, 0, 0>>)>>, <<Compared(x, y)>>) :
     p \in 0..3, q \in 0..3, x \in Strings(bytes, n), y \in Strings(bytes, n)}
Moves(bytes, n) ==
  {Call("memcpy", memcpy(d, s, k), SubSeq(s, 1, k) \o SubSeq(d, k + 1, n)) :
     d \in [1..n -> bytes], s \in [1..n -> bytes], k \in 0..n}
Numbers(values) ==
  {Call("printf",
        LET out == printf(<<32, Percent, 100, 46, Percent, 99, Percent, 115, 0>>, <<v, 65, <<66, 67, 0>>>>)
            minus == out[2] = 45
            digits == SubSeq(out, IF minus THEN 3 ELSE 2, Len(out) - 4)
            value == FoldLeft(LAMBDA n, c : 10 * n + c - 48, 0, digits)
        IN <<IF minus THEN -value ELSE value>> \o SubSeq(out, Len(out) - 3, Len(out)),
        <<v, 46, 65, 66, 67>>) : v \in values}

NoCall == Call("none", <<>>, <<>>)
LibraryInit == call = NoCall
LibraryNext == call = NoCall /\ call' \in Calls

(* What the library gives is what the standard asks for: a string is copied to *)
(* its terminator and no further, whatever the alignment of the two addresses *)
(* and the bytes behind it; strings compare by their first difference, with   *)
(* unsigned characters; numbers are printed with all their digits.           *)
LibraryAgrees == call.result = call.reference
=============================================================================
