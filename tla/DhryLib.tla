-------------------------------- MODULE DhryLib --------------------------------
(***************************************************************************)
(* The small C library of src/dhrystone/stdlib.c, as functions.  Memory is a  *)
(* sequence of bytes from the address of a string on, its terminator and what *)
(* lies behind it included; an address is its value modulo 4.                *)
(***************************************************************************)
EXTENDS Integers, Sequences, SequencesExt

(* The bytes memcpy leaves at a destination.                                 *)
memcpy(dst, src, n) == [k \in DOMAIN dst |-> IF k <= n THEN src[k] ELSE dst[k]]

-----------------------------------------------------------------------------
(* (v - 0x01010101) & ~v & 0x80808080 of the word with bytes v[1..4], the     *)
(* lowest first; a byte borrows from the next one.                           *)
High(byte) == byte >= 128
borrows(v) == LET b[k \in 0..4] == IF k = 0 THEN 0 ELSE IF v[k] - 1 - b[k - 1] < 0 THEN 1 ELSE 0 IN b
less_ones(v) == [k \in 1..4 |-> (v[k] - 1 - borrows(v)[k - 1]) % 256]
(* Mutant: the mask ~v is left out. *)
has_zero_unmasked(v) == \E k \in 1..4 : High(less_ones(v)[k])
has_zero(v) == \E k \in 1..4 : High(less_ones(v)[k]) /\ ~High(v[k])

WordAt(mem, i) == SubSeq(mem, i, i + 3)
(* Where byte copies give way to words: both addresses aligned. *)
Aligned(a, b, i) == (a + i) % 4 = 0 /\ (b + i) % 4 = 0

(* The bytes strcpy writes, from its i-th on.                                *)
strcpy(dst, src, mem) ==
  LET upto(w) == SubSeq(w, 1, CHOOSE k \in 1..4 : (k = 4 \/ w[k] = 0) /\ \A j \in 1..(k - 1) : w[j] # 0)
      from[i \in Nat] ==
        IF Aligned(dst, src, i)
        THEN LET w == WordAt(mem, i + 1) IN IF has_zero(w) THEN upto(w) ELSE w \o from[i + 4]
        ELSE IF mem[i + 1] = 0 THEN <<0>> ELSE <<mem[i + 1]>> \o from[i + 1]
  IN from[0]

(* The sign strcmp returns.  In two words that differ the bytes are compared  *)
(* from the lowest on, up to a difference or a common terminator.            *)
Sign(c1, c2) == IF c1 = c2 THEN 0 ELSE IF c1 < c2 THEN -1 ELSE 1
strcmp(s1, s2, m1, m2) ==
  LET Stops(k) == m1[k] # m2[k] \/ m1[k] = 0
      sign[k \in Nat] == Sign(m1[k], m2[k])
      from[i \in Nat] ==
        IF Aligned(s1, s2, i)
        THEN IF WordAt(m1, i + 1) # WordAt(m2, i + 1)
             THEN sign[CHOOSE k \in (i + 1)..(i + 4) : (k = i + 4 \/ Stops(k)) /\ \A j \in (i + 1)..(k - 1) : ~Stops(j)]
             ELSE IF has_zero(WordAt(m1, i + 1)) THEN 0 ELSE from[i + 4]
        ELSE IF Stops(i + 1) THEN sign[i + 1] ELSE from[i + 1]
  IN from[0]

-----------------------------------------------------------------------------
(* printf knows c, s and d, and takes the first of them behind a % sign.      *)
Percent == 37
Conversions == [c |-> 99, s |-> 115, d |-> 100]
printf_c(arg) == <<arg>>
printf_s(arg) == SubSeq(arg, 1, (CHOOSE k \in DOMAIN arg : arg[k] = 0 /\ \A j \in 1..(k - 1) : arg[j] # 0) - 1)
printf_d(arg) ==
  LET digits[v \in Nat] == (IF v < 10 THEN <<>> ELSE digits[v \div 10]) \o <<48 + (v % 10)>>
  IN IF arg < 0 THEN <<45>> \o digits[-arg] ELSE digits[arg]
printf(format, args) ==
  LET kind(i) == CHOOSE j \in (i + 1)..Len(format) :
                   format[j] \in Range(Conversions) /\ \A k \in (i + 1)..(j - 1) : format[k] \notin Range(Conversions)
      shown(c, arg) == IF c = Conversions.c THEN printf_c(arg)
                       ELSE IF c = Conversions.s THEN printf_s(arg) ELSE printf_d(arg)
      from[i \in Nat, a \in Nat] ==
        IF format[i] = 0 THEN <<>>
        ELSE IF format[i] # Percent THEN printf_c(format[i]) \o from[i + 1, a]
        ELSE shown(format[kind(i)], args[a]) \o from[kind(i) + 1, a + 1]
  IN from[1, 1]

=============================================================================
