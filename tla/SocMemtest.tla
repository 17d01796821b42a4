------------------------------ MODULE SocMemtest ------------------------------
(***************************************************************************)
(* The memory test and the number printing of src/picosoc/firmware.c, as     *)
(* functions: what cmd_memtest reports of a RAM with a fault, and what       *)
(* print_hex and print_dec put on the line.  The pseudo-random words are      *)
(* the real ones, as sets of the positions of their ones.                    *)
(***************************************************************************)
EXTENDS Integers, Sequences, FiniteSetsExt, SequencesExt

(* A RAM: its size in words and the stride and the bytes of the test, which   *)
(* are MEM_TOTAL / 4, 256 and 128 in the code.                               *)
Ram(words, stride, bytes) == [words |-> words, stride |-> stride, bytes |-> bytes]
cyc_count == 5

(* Faults: a data line of the RAM always read as one or as zero, or an        *)
(* address line always low.                                                  *)
Sound == [kind |-> "none"]
StuckData == [kind : {"data"}, line : 0..31, value : BOOLEAN]
StuckAddress(lines) == [kind : {"address"}, line : lines]

(* The word of a set last written into the place of one of them.              *)
last(f, words, word) ==
  LET over == word + 2^f.line
  IN IF f.kind = "address" /\ (word \div 2^f.line) % 2 = 0 /\ over \in words THEN over ELSE word
read(f, bits) ==
  IF f.kind # "data" THEN bits ELSE IF f.value THEN bits \cup {f.line} ELSE bits \ {f.line}

-----------------------------------------------------------------------------
(* The digits the two functions send, most significant first.                *)
nibble(v, i) == (v \div 16^i) % 16
print_hex(v, digits) ==
  LET first == Max({i \in 0..7 : nibble(v, i) # 0 \/ i < digits} \cup {0})
  IN [k \in 1..(first + 1) |-> nibble(v, first + 1 - k)]
(* A tens digit of 0 is left out behind a digit of hundreds, too: 105 prints   *)
(* as 15.  What is from 1000 on prints as a text.                            *)
print_dec(v) ==
  LET digit(d) == IF d = 0 THEN <<>> ELSE <<d>>
  IN digit(v \div 100) \o digit((v \div 10) % 10) \o <<v % 10>>
Reads(digits, base) == FoldLeft(LAMBDA v, d : v * base + d, 0, digits)

-----------------------------------------------------------------------------
(* Words as sets of bit positions.                                           *)
BitsOf(v) == {k \in 0..30 : (v \div 2^k) % 2 = 1}
Shifted(x, n) == {k + n : k \in x} \cap (0..31)
Xor(x, y) == (x \ y) \cup (y \ x)
(* Mutant: the state is not stored back. *)
xorshift32_kept(x32) == x32
xorshift32(x32) ==
  LET a == Xor(x32, Shifted(x32, 13))
      b == Xor(a, Shifted(a, -17))
  IN Xor(b, Shifted(b, 5))

(* The words of a cycle, and those that do not read back: another word of    *)
(* the walk may have been written over them since.                           *)
Words(ram) == {ram.stride * k : k \in 0..((ram.words - 1) \div ram.stride)}
Walk(ram, i) ==
  LET grown == FoldLeft(LAMBDA s, k : Append(s, xorshift32(Last(s))), <<BitsOf(i)>>, [k \in 1..Cardinality(Words(ram)) |-> k])
  IN [word \in Words(ram) |-> grown[(word \div ram.stride) + 2]]
failed_words(ram, f, i) ==
  LET walk == Walk(ram, i)
  IN {word \in Words(ram) : read(f, walk[last(f, Words(ram), word)]) # walk[word]}

failed_bytes(ram, f) ==
  LET lane(byte, bits) == {(8 * (byte % 4)) + k : k \in bits}
      stored(byte) == (4 * last(f, 0..((ram.bytes \div 4) - 1), byte \div 4)) + (byte % 4)
      back(byte) == read(f, lane(byte, BitsOf(stored(byte)))) \cap lane(byte, 0..7)
  IN {byte \in 0..(ram.bytes - 1) : back(byte) # lane(byte, BitsOf(byte))}

(* What the test reports: the first failure and its place, or that it passed. *)
cmd_memtest(ram, f) ==
  LET bad == {i \in 1..cyc_count : failed_words(ram, f, i) # {}}
      Fails(what, place) == [says |-> what, at |-> place, shown |-> print_hex(place, 4)]
  IN IF bad # {} THEN Fails("word", 4 * Min(failed_words(ram, f, Min(bad))))
     ELSE IF failed_bytes(ram, f) # {} THEN Fails("byte", Min(failed_bytes(ram, f)))
     ELSE [says |-> "passed"]
=============================================================================
