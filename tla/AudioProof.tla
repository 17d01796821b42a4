------------------------------ MODULE AudioProof ------------------------------
(***************************************************************************)
(* Proofs about the audio co-processor and the firmware that uses it, for   *)
(* every width of a sample, size of the buffer and set of files.  First the  *)
(* functions of the unit: fields, lanes, bytes and sums, then each           *)
(* instruction.  Then the run of the demo: where the buffer's contents come  *)
(* from.  Then the filter, instruction by instruction, and that the whole   *)
(* firmware implements NoiseGate.  Powers of two and of the number of values *)
(* of a byte come in through PowersAssumption.                               *)
(***************************************************************************)
EXTENDS PcpiAudio, AudioDemo, SequenceTheorems, WellFoundedInduction, TLAPS

(* A set of natural numbers that is not empty has a least member.            *)
LEMMA Smallest == ASSUME NEW T, T \subseteq Nat, T # {} PROVE \E x \in T : \A y \in T : x <= y
<1>1. IsWellFoundedOn(OpToRel(<,Nat), Nat)
  BY NatLessThanWellFounded
<1>2. PICK x \in T : \A y \in T : ~ (<<y, x>> \in OpToRel(<,Nat))
  BY <1>1, WFMin, Zenon
<1>3. \A y \in T : ~ (y < x)
  BY <1>2 DEF OpToRel
<1> QED BY <1>3

(* What holds of 0 and of n + 1 whenever of n holds of every natural number; *)
(* stated with a set, which the provers can instantiate.                     *)
LEMMA Induction == ASSUME NEW T, 0 \in T, \A n \in Nat : n \in T => n + 1 \in T PROVE Nat \subseteq T
<1> SUFFICES ASSUME Nat \ T # {} PROVE FALSE
  OBVIOUS
<1>1. PICK x \in Nat \ T : \A y \in Nat \ T : x <= y
  <2>1. Nat \ T \subseteq Nat
    OBVIOUS
  <2> QED BY <2>1, Smallest
<1>2. x # 0 /\ x - 1 \in Nat
  BY <1>1
<1>3. x - 1 \in T
  BY <1>1, <1>2
<1>4. (x - 1) + 1 \in T
  BY <1>2, <1>3
<1> QED BY <1>4, <1>1

(* What quotient and rest are.                                               *)
LEMMA DivMod == ASSUME NEW x \in Int, NEW b \in Nat \ {0}
  PROVE x \div b \in Int /\ x % b \in 0..(b-1) /\ x = b * (x \div b) + (x % b)
  OBVIOUS

(* They are the only ones.                                                   *)
LEMMA DivModIs == ASSUME NEW b \in Nat \ {0}, NEW q \in Int, NEW r \in 0..(b-1), NEW x \in Int, x = b * q + r
  PROVE x \div b = q /\ x % b = r
<1>1. PICK c \in Int : c = x \div b
  BY DivMod
<1>2. PICK s \in 0..(b-1) : s = x % b
  BY DivMod
<1>3. b * c + s = b * q + r
  BY <1>1, <1>2, DivMod
<1>4. b * (c - q) = r - s
  BY <1>3
<1>5. c - q < 1
  <2> SUFFICES ASSUME c - q >= 1 PROVE FALSE
     OBVIOUS
  <2>1. b * (c - q) >= b
     OBVIOUS
  <2> QED BY <2>1, <1>4
<1>6. c - q > -1
  <2> SUFFICES ASSUME c - q <= -1 PROVE FALSE
     OBVIOUS
  <2>1. b * (c - q) <= -b
     OBVIOUS
  <2> QED BY <2>1, <1>4
<1>7. c = q
  BY <1>5, <1>6
<1> QED BY <1>1, <1>2, <1>3, <1>7

(* A multiple of the modulus changes the quotient and not the rest.          *)
LEMMA ModMul == ASSUME NEW b \in Nat \ {0}, NEW x \in Int, NEW k \in Int
  PROVE (x + b * k) % b = x % b /\ (x + b*k) \div b = x \div b + k
<1>1. PICK q \in Int : q = x \div b
  BY DivMod
<1>2. PICK r \in 0..(b-1) : r = x % b
  BY DivMod
<1>3. x = b * q + r
  BY DivMod, <1>1, <1>2
<1>4. x + b * k = b * (q + k) + r
  BY <1>3
<1>5. (x + b * k) \div b = q + k /\ (x + b * k) % b = r
  <2>1. x + b * k \in Int /\ q + k \in Int
    OBVIOUS
  <2> QED BY <1>4, <2>1, DivModIs
<1> QED BY <1>1, <1>2, <1>5

(* A number below the modulus is its own rest.                               *)
LEMMA ModSmall == ASSUME NEW m \in Nat \ {0}, NEW x \in 0..(m - 1) PROVE x % m = x /\ x \div m = 0
BY DivModIs

(* The halves of a byte, a lane and a word.                                  *)
LEMMA Halves ==
  /\ ByteHalf \in Nat \ {0} /\ LaneHalf \in Nat \ {0} /\ WordHalf \in Nat \ {0}
  /\ LaneHalf >= 2 * ByteHalf /\ LaneHalf >= 2 /\ LaneHalf = 2 * (ByteHalf * ByteHalf)
  /\ WordHalf = 2 * (LaneHalf * LaneHalf) /\ LaneHalf * LaneHalf \in Nat
  /\ LaneHalf * LaneHalf >= 2 * LaneHalf
<1> DEFINE b == ByteHalf
<1>1. b \in Nat \ {0}
  BY WidthAssumption
<1> HIDE DEF b
<1>2. b * b >= b /\ b * b \in Nat
  BY <1>1
<1> DEFINE l == 2 * (b * b)
<1>3. LaneHalf = l
  BY <1>1 DEF LaneHalf, b
<1>4. l \in Nat /\ l >= 2 * b /\ l >= 2
  BY <1>1, <1>2
<1> HIDE DEF l
<1>5. l * l >= 2 * l /\ l * l \in Nat
  BY <1>4
<1>6. WordHalf = 2 * (l * l)
  BY <1>3, <1>4 DEF WordHalf
<1>7. ByteHalf = b /\ l = 2 * (b * b)
  BY DEF b, l
<1> HIDE DEF l, b
<1> QED BY <1>1, <1>2, <1>3, <1>4, <1>5, <1>6, <1>7

(* A field holds every number modulo its size.                               *)
LEMMA BitsRange ==
  ASSUME NEW half \in Nat \ {0}, NEW x \in Int
  PROVE Bits(x, half) \in 0..(2 * half - 1)
<1> DEFINE m == 2 * half
<1>1. m \in Nat \ {0}
  OBVIOUS
<1> HIDE DEF m
<1>2. x % m \in 0..(m - 1)
  BY <1>1, DivMod
<1> QED BY <1>2 DEF Bits, m

(* A field keeps a number that it holds.                                     *)
LEMMA BitsSame ==
  ASSUME NEW half \in Nat \ {0}, NEW x \in 0..(2 * half - 1)
  PROVE Bits(x, half) = x
<1> DEFINE m == 2 * half
<1>1. m \in Nat \ {0} /\ x \in 0..(m - 1)
  OBVIOUS
<1> HIDE DEF m
<1>2. x % m = x
  BY <1>1, ModSmall
<1> QED BY <1>2 DEF Bits, m

(* The signed value of a field.                                              *)
LEMMA SignedRange ==
  ASSUME NEW half \in Nat \ {0}, NEW x \in 0..(2 * half - 1)
  PROVE Signed(x, half) \in (-half)..(half - 1)
BY DEF Signed

(* A signed field gives back what was put into it, when it holds it.          *)
LEMMA SignedBits ==
  ASSUME NEW half \in Nat \ {0}, NEW x \in (-half)..(half - 1)
  PROVE Signed(Bits(x, half), half) = x
<1>1. CASE x >= 0
  <2>1. x \in 0..(2 * half - 1)
    BY <1>1
  <2>2. Bits(x, half) = x
    BY <2>1, BitsSame
  <2> QED BY <2>2 DEF Signed
<1>2. CASE x < 0
  <2> DEFINE m == 2 * half  r == x + m  q == -1
  <2>1. m \in Nat \ {0} /\ r \in 0..(m - 1) /\ q \in Int /\ x \in Int /\ x = m * q + r
    BY <1>2
  <2> HIDE DEF m, r, q
  <2>2. x % m = r
    BY <2>1, DivModIs
  <2>3. Bits(x, half) = x + 2 * half
    BY <2>2 DEF Bits, m, r
  <2> QED BY <1>2, <2>3 DEF Signed
<1> QED BY <1>1, <1>2

(* One more than a field holds reads as its least value.                     *)
LEMMA SignedWraps ==
  ASSUME NEW half \in Nat \ {0}
  PROVE Signed(Bits(half, half), half) = -half
<1>1. half \in 0..(2 * half - 1)
  OBVIOUS
<1>2. Bits(half, half) = half
  BY <1>1, BitsSame
<1> QED BY <1>2 DEF Signed

(* The lanes of a word, and a word made of two lanes.                        *)
LEMMA LaneRange ==
  ASSUME NEW w \in Word
  PROVE Lo(w) \in MinLane..MaxLane /\ Hi(w) \in MinLane..MaxLane
<1> DEFINE l == LaneHalf  m == 2 * l
<1>1. l \in Nat \ {0} /\ m \in Nat \ {0} /\ w \in Int /\ w \in 0..(m * m - 1)
  <2>1. 2 * WordHalf = m * m
    BY Halves
  <2> QED BY Halves, <2>1 DEF Word
<1>2. w % m \in 0..(2 * l - 1)
  <2> HIDE DEF m
  <2>1. w % m \in 0..(m - 1)
    BY <1>1, DivMod
  <2> QED BY <2>1 DEF m
<1>3. w \div m \in 0..(2 * l - 1)
  <2> HIDE DEF m
  <2>1. w \div m \in Int /\ w = m * (w \div m) + (w % m) /\ w % m \in 0..(m - 1)
    BY <1>1, DivMod
  <2>2. PICK q \in Int : q = w \div m
    BY <2>1
  <2>3. PICK r \in 0..(m - 1) : w = m * q + r
    BY <2>1, <2>2
  <2>4. q >= 0
    <3> SUFFICES ASSUME q <= -1 PROVE FALSE
      BY <2>2
    <3>1. m * q <= m * (-1)
      BY <1>1
    <3> QED BY <1>1, <2>3, <3>1
  <2>5. q <= m - 1
    <3> SUFFICES ASSUME q >= m PROVE FALSE
      BY <1>1, <2>2
    <3>1. m * q >= m * m
      BY <1>1
    <3> QED BY <1>1, <2>3, <3>1
  <2> QED BY <1>1, <2>2, <2>4, <2>5 DEF m
<1> HIDE DEF m
<1>4. Signed(w % m, l) \in (-l)..(l - 1) /\ Signed(w \div m, l) \in (-l)..(l - 1)
  BY <1>1, <1>2, <1>3, SignedRange
<1> QED BY <1>4 DEF Lo, Hi, MinLane, MaxLane, l, m

(* A word made of two numbers keeps 16 bits of each.                         *)
LEMMA PackLanes ==
  ASSUME NEW hi \in Int, NEW lo \in Int
  PROVE /\ Pack(hi, lo) \in Word
        /\ Lo(Pack(hi, lo)) = Signed(Bits(lo, LaneHalf), LaneHalf)
        /\ Hi(Pack(hi, lo)) = Signed(Bits(hi, LaneHalf), LaneHalf)
<1> DEFINE l == LaneHalf  m == 2 * l  h == Bits(hi, l)  r == Bits(lo, l)  w == Pack(hi, lo)
<1>1. l \in Nat \ {0} /\ m \in Nat \ {0} /\ 2 * WordHalf = m * m
  BY Halves
<1>2. h \in 0..(m - 1) /\ r \in 0..(m - 1)
  BY <1>1, BitsRange
<1>3. w = h * 2 * l + r
  BY DEF Pack
<1>4. w = m * h + r
  <2> HIDE DEF h, r, l, w
  <2> QED BY <1>1, <1>2, <1>3
<1> HIDE DEF h, r, w, m
<1>5. h \in Int /\ w \in Int
  BY <1>1, <1>2, <1>4
<1>6. w \div m = h /\ w % m = r
  BY <1>1, <1>2, <1>4, <1>5, DivModIs
<1>7. w \in 0..(m * m - 1)
  <2>1. m * h <= m * (m - 1) /\ m * h >= 0
    BY <1>1, <1>2
  <2>2. m * (m - 1) = m * m - m /\ m * m \in Int /\ m * h \in Int
    BY <1>1, <1>5
  <2> QED BY <1>1, <1>2, <1>4, <2>1, <2>2
<1>8. w \in Word
  BY <1>1, <1>7 DEF Word
<1> QED BY <1>6, <1>8 DEF Lo, Hi, h, r, w, m

(* Two lanes packed and taken out again.                                     *)
LEMMA PackSame ==
  ASSUME NEW hi \in MinLane..MaxLane, NEW lo \in MinLane..MaxLane
  PROVE Pack(hi, lo) \in Word /\ Lo(Pack(hi, lo)) = lo /\ Hi(Pack(hi, lo)) = hi
<1> DEFINE l == LaneHalf
<1>1. l \in Nat \ {0} /\ hi \in (-l)..(l - 1) /\ lo \in (-l)..(l - 1)
  BY Halves DEF MinLane, MaxLane
<1> HIDE DEF l
<1>2. Signed(Bits(lo, l), l) = lo /\ Signed(Bits(hi, l), l) = hi /\ hi \in Int /\ lo \in Int
  BY <1>1, SignedBits
<1> QED BY <1>2, PackLanes DEF l

(* What 32 bits keep.                                                        *)
LEMMA WordValue ==
  ASSUME NEW x \in (-WordHalf)..(WordHalf - 1)
  PROVE Int32(x) = x /\ Signed(Bits(x, WordHalf), WordHalf) = x /\ Bits(x, WordHalf) \in Word
<1> DEFINE l == WordHalf
<1>1. l \in Nat \ {0} /\ x \in (-l)..(l - 1)
  BY Halves
<1> HIDE DEF l
<1>2. Signed(Bits(x, l), l) = x /\ Bits(x, l) \in 0..(2 * l - 1)
  BY <1>1, SignedBits, BitsRange
<1> QED BY <1>2 DEF l, Int32, Word

(* The product of two lanes, and of two bytes.                               *)
LEMMA Products ==
  ASSUME NEW half \in Nat \ {0}, NEW a \in (-half)..(half - 1), NEW b \in (-half)..(half - 1)
  PROVE /\ a * b \in (half - half * half)..(half * half)
        /\ a * b = half * half => a = -half /\ b = -half
        /\ a = -half /\ b = -half => a * b = half * half
        /\ half * half \in Nat
<1> DEFINE s == half * half
<1>1. s \in Nat /\ s >= half
  OBVIOUS
<1>2. ASSUME NEW x \in 0..half, NEW y \in 0..(half - 1) PROVE x * y \in 0..(s - half) /\ y * x = x * y
  <2>1. x * y >= 0 /\ x * y <= half * y /\ half * y <= half * (half - 1) /\ half * (half - 1) = s - half
    BY <1>1
  <2>2. half * y \in Int /\ x * y \in Int
    OBVIOUS
  <2> QED BY <1>1, <2>1, <2>2
<1>3. CASE a >= 0 /\ b >= 0
  BY <1>1, <1>2, <1>3
<1>4. CASE a < 0 /\ b >= 0
  <2>1. (-a) * b = -(a * b)
    OBVIOUS
  <2>2. -a \in 0..half /\ b \in 0..(half - 1)
    BY <1>4
  <2>3. (-a) * b \in 0..(s - half)
    BY <2>2, <1>2
  <2>4. a * b \in Int
    OBVIOUS
  <2> QED BY <1>1, <1>4, <2>1, <2>3, <2>4
<1>5. CASE a >= 0 /\ b < 0
  <2>1. (-b) * a = -(a * b)
    OBVIOUS
  <2>2. -b \in 0..half /\ a \in 0..(half - 1)
    BY <1>5
  <2>3. (-b) * a \in 0..(s - half)
    BY <2>2, <1>2
  <2>4. a * b \in Int
    OBVIOUS
  <2> QED BY <1>1, <1>5, <2>1, <2>3, <2>4
<1>6. CASE a < 0 /\ b < 0
  <2>1. (-a) * (-b) = a * b /\ a * b \in Int
    OBVIOUS
  <2>2. CASE a = -half /\ b = -half
    <3>1. a * b = s
      BY <2>2
    <3> QED BY <1>1, <2>2, <3>1
  <2>3. CASE a # -half
    <3>1. -b \in 0..half /\ -a \in 0..(half - 1)
      BY <1>6, <2>3
    <3>2. (-b) * (-a) \in 0..(s - half) /\ (-a) * (-b) = (-b) * (-a)
      BY <3>1, <1>2
    <3> QED BY <1>1, <2>1, <2>3, <3>2
  <2>4. CASE b # -half
    <3>1. -a \in 0..half /\ -b \in 0..(half - 1)
      BY <1>6, <2>4
    <3>2. (-a) * (-b) \in 0..(s - half)
      BY <3>1, <1>2
    <3> QED BY <1>1, <2>1, <2>4, <3>2
  <2> QED BY <2>2, <2>3, <2>4
<1> QED BY <1>1, <1>3, <1>4, <1>5, <1>6

(* The places of the bytes in a word.                                        *)
LEMMA BytePowers ==
  /\ \A k \in 0..3 : (2 * ByteHalf)^k \in Nat \ {0}
  /\ (2 * ByteHalf)^0 = 1 /\ (2 * ByteHalf)^1 = 2 * ByteHalf
  /\ \A k \in 0..2 : (2 * ByteHalf)^(k + 1) = 2 * ByteHalf * (2 * ByteHalf)^k
<1> DEFINE m == 2 * ByteHalf
<1>1. m \in Nat \ {0}
  BY WidthAssumption
<1>2. m^0 = 1 /\ \A n \in 0..2 : m^(n + 1) = m * m^n
  BY PowersAssumption
<1> HIDE DEF m
<1>3. m^1 = m /\ m^1 \in Nat \ {0}
  <2>1. m^(0 + 1) = m * m^0
    BY <1>2
  <2> QED BY <1>1, <1>2, <2>1
<1>4. m^2 \in Nat \ {0}
  <2>1. m^(1 + 1) = m * m^1
    BY <1>2
  <2> DEFINE p == m^1
  <2>2. m^2 = m * p /\ p \in Nat \ {0}
    BY <1>3, <2>1
  <2> HIDE DEF p
  <2>3. m * p \in Nat \ {0}
    BY <1>1, <2>2
  <2> QED BY <2>2, <2>3
<1>5. m^3 \in Nat \ {0}
  <2>1. m^(2 + 1) = m * m^2
    BY <1>2
  <2> DEFINE p == m^2
  <2>2. m^3 = m * p /\ p \in Nat \ {0}
    BY <1>4, <2>1
  <2> HIDE DEF p
  <2>3. m * p \in Nat \ {0}
    BY <1>1, <2>2
  <2> QED BY <2>2, <2>3
<1>6. \A k \in 0..3 : m^k \in Nat \ {0}
  <2> TAKE k \in 0..3
  <2>1. k = 0 \/ k = 1 \/ k = 2 \/ k = 3
    OBVIOUS
  <2> QED BY <1>2, <1>3, <1>4, <1>5, <2>1
<1> QED BY <1>2, <1>3, <1>6 DEF m

(* A byte of a word, and the product of two of them.                         *)
LEMMA ByteRange ==
  ASSUME NEW w \in Int, NEW k \in 0..3
  PROVE Byte(w, k) \in (-ByteHalf)..(ByteHalf - 1)
<1> DEFINE h == ByteHalf  m == 2 * h  p == m^k  q == w \div p
<1>1. h \in Nat \ {0} /\ m \in Nat \ {0} /\ p \in Nat \ {0}
  BY Halves, BytePowers
<1>2. q \in Int
  <2> HIDE DEF p
  <2> QED BY <1>1, DivMod
<1> HIDE DEF q
<1>3. q % m \in 0..(m - 1)
  <2> HIDE DEF m, h
  <2> QED BY <1>1, <1>2, DivMod
<1>4. Signed(q % m, h) \in (-h)..(h - 1)
  <2> HIDE DEF h
  <2> QED BY <1>1, <1>3, SignedRange
<1> QED BY <1>4 DEF Byte, q

(* Twice the product of two bytes is at most LaneHalf.                       *)
LEMMA ByteProducts ==
  ASSUME NEW v \in Int, NEW w \in Int, NEW k \in 0..3
  PROVE /\ Byte(v, k) * Byte(w, k) \in Int
        /\ 2 * (Byte(v, k) * Byte(w, k)) \in (-LaneHalf)..LaneHalf
<1> DEFINE h == ByteHalf  a == Byte(v, k)  b == Byte(w, k)
<1>1. h \in Nat \ {0} /\ a \in (-h)..(h - 1) /\ b \in (-h)..(h - 1) /\ LaneHalf = 2 * (h * h)
  BY Halves, ByteRange
<1> HIDE DEF h, a, b
<1>2. a * b \in (h - h * h)..(h * h) /\ h * h \in Nat
  BY <1>1, Products
<1>3. a * b \in Int /\ 2 * (a * b) \in (-LaneHalf)..LaneHalf
  BY <1>1, <1>2
<1> QED BY <1>3 DEF a, b

-----------------------------------------------------------------------------
(* The offered operands are words.                                           *)
UnitType == pcpi_rs1 \in Word /\ pcpi_rs2 \in Word

(* The operands that the core offers are always words.                       *)
THEOREM UnitTypeInvariant == UnitSpec => []UnitType
<1>1. 0 \in Word
  BY Halves DEF Word
<1>2. UnitInit => UnitType
  BY <1>1 DEF UnitInit, UnitType
<1>3. UnitType /\ [UnitNext]_unitVars => UnitType'
  BY <1>1 DEF UnitType, UnitNext, unitVars, Offer, Withdraw, EnterReset, LeaveReset, Idle
<1> QED BY <1>2, <1>3, PTL DEF UnitSpec

(* The lanes of the operands and their products.                             *)
LEMMA OperandLanes ==
  ASSUME UnitType
  PROVE /\ a0 \in MinLane..MaxLane /\ a1 \in MinLane..MaxLane
        /\ b0 \in MinLane..MaxLane /\ b1 \in MinLane..MaxLane
BY LaneRange DEF UnitType, a0, a1, b0, b1

(* The product of two lanes, and when it is the largest.                     *)
LEMMA LaneProducts ==
  ASSUME NEW a \in MinLane..MaxLane, NEW b \in MinLane..MaxLane
  PROVE /\ a * b \in (LaneHalf - LaneHalf * LaneHalf)..(LaneHalf * LaneHalf)
        /\ a * b = LaneHalf * LaneHalf => a = MinLane /\ b = MinLane
        /\ a = MinLane /\ b = MinLane => a * b = LaneHalf * LaneHalf
<1> DEFINE l == LaneHalf
<1>1. l \in Nat \ {0} /\ a \in (-l)..(l - 1) /\ b \in (-l)..(l - 1) /\ MinLane = -l
  BY Halves DEF MinLane, MaxLane
<1> HIDE DEF l
<1>2. /\ a * b \in (l - l * l)..(l * l)
      /\ a * b = l * l => a = -l /\ b = -l
      /\ a = -l /\ b = -l => a * b = l * l
  BY <1>1, Products
<1> QED BY <1>1, <1>2 DEF l

(* A sum of two products of lanes is exact in a word, but for the least lanes.*)
LEMMA ProductSums ==
  ASSUME NEW a \in MinLane..MaxLane, NEW b \in MinLane..MaxLane,
         NEW c \in MinLane..MaxLane, NEW d \in MinLane..MaxLane
  PROVE /\ a * b \in Int /\ c * d \in Int
        /\ a * b - c * d \in (-WordHalf)..(WordHalf - 1)
        /\ a * b + c * d \in (-WordHalf)..WordHalf
        /\ a * b + c * d = WordHalf <=> a = MinLane /\ b = MinLane /\ c = MinLane /\ d = MinLane
<1> DEFINE s == LaneHalf * LaneHalf  x == a * b  y == c * d
<1>1. LaneHalf \in Nat \ {0} /\ s \in Nat /\ s >= 2 * LaneHalf /\ WordHalf = 2 * s
  BY Halves
<1>2. x \in (LaneHalf - s)..s /\ y \in (LaneHalf - s)..s
  BY LaneProducts
<1>3. x + y = 2 * s <=> x = s /\ y = s
  <2> HIDE DEF s, x, y
  <2> QED BY <1>1, <1>2
<1>4. /\ x = s <=> a = MinLane /\ b = MinLane
      /\ y = s <=> c = MinLane /\ d = MinLane
  BY LaneProducts
<1>5. x \in Int /\ y \in Int /\ x - y \in (-WordHalf)..(WordHalf - 1) /\ x + y \in (-WordHalf)..WordHalf
  <2> HIDE DEF s, x, y
  <2> QED BY <1>1, <1>2
<1>6. x + y = WordHalf <=> x + y = 2 * s
  BY <1>1
<1>7. x + y = WordHalf <=> a = MinLane /\ b = MinLane /\ c = MinLane /\ d = MinLane
  <2> HIDE DEF s, x, y
  <2> QED BY <1>3, <1>4, <1>6
<1> QED BY <1>5, <1>7

(* A sum of two products in 32 bits: only 2^31 is read wrongly.              *)
LEMMA SumValue ==
  ASSUME NEW x \in (-WordHalf)..WordHalf
  PROVE Signed(Bits(x, WordHalf), WordHalf) = IF x = WordHalf THEN -WordHalf ELSE x
<1>1. CASE x = WordHalf
  BY <1>1, Halves, SignedWraps
<1>2. CASE x # WordHalf
  <2>1. x \in (-WordHalf)..(WordHalf - 1)
    BY <1>2, Halves
  <2> QED BY <1>2, <2>1, WordValue
<1> QED BY <1>1, <1>2

(* What the unit drives when it answers.                                     *)
LEMMA Driven ==
  ASSUME NEW insn, Answers(insn)
  PROVE result = AudioResult(insn, pcpi_rs1, pcpi_rs2) /\ insn \in AudioInsns
BY DEF Answers, result, result_valid

(* The sums of the unit, instruction by instruction.                         *)
LEMMA SumsAreExact == UnitType => SumsExact
<1> SUFFICES ASSUME UnitType PROVE SumsExact
  OBVIOUS
<1> DEFINE A == MinLane
<1>0. /\ a0 \in MinLane..MaxLane /\ a1 \in MinLane..MaxLane
      /\ b0 \in MinLane..MaxLane /\ b1 \in MinLane..MaxLane
  BY OperandLanes
<1>1. ASSUME Answers("MAC16") \/ Answers("LMSSTEP")
      PROVE IF {a0, a1, b0, b1} = {MinLane} THEN Value = -WordHalf ELSE Value = a0 * b0 + a1 * b1
  <2>1. result = mac16(pcpi_rs1, pcpi_rs2)
    <3>1. CASE Answers("MAC16")
      BY <3>1, Driven DEF AudioResult
    <3>2. CASE Answers("LMSSTEP")
      BY <3>2, Driven DEF AudioResult
    <3> QED BY <1>1, <3>1, <3>2
  <2>2. result = Bits(a0 * b0 + a1 * b1, WordHalf)
    BY <2>1 DEF mac16, a0, a1, b0, b1
  <2> DEFINE x == a0 * b0 + a1 * b1
  <2>3. /\ x \in (-WordHalf)..WordHalf
        /\ x = WordHalf <=> a0 = MinLane /\ b0 = MinLane /\ a1 = MinLane /\ b1 = MinLane
    BY <1>0, ProductSums
  <2> HIDE DEF x
  <2>4. Value = IF x = WordHalf THEN -WordHalf ELSE x
    BY <2>2, <2>3, SumValue DEF Value, x
  <2>5. {a0, a1, b0, b1} = {MinLane} <=> a0 = MinLane /\ b0 = MinLane /\ a1 = MinLane /\ b1 = MinLane
    OBVIOUS
  <2> QED BY <2>3, <2>4, <2>5 DEF x
<1>2. ASSUME Answers("ABS2")
      PROVE IF {a0, a1} = {MinLane} THEN Value = -WordHalf ELSE Value = a0 * a0 + a1 * a1
  <2>1. result = abs2_complex(pcpi_rs1)
    BY <1>2, Driven DEF AudioResult
  <2>2. result = Bits(a0 * a0 + a1 * a1, WordHalf)
    BY <2>1 DEF abs2_complex, a0, a1
  <2> DEFINE x == a0 * a0 + a1 * a1
  <2>3. /\ x \in (-WordHalf)..WordHalf
        /\ x = WordHalf <=> a0 = MinLane /\ a1 = MinLane
    BY <1>0, ProductSums
  <2> HIDE DEF x
  <2>4. Value = IF x = WordHalf THEN -WordHalf ELSE x
    BY <2>2, <2>3, SumValue DEF Value, x
  <2>5. {a0, a1} = {MinLane} <=> a0 = MinLane /\ a1 = MinLane
    OBVIOUS
  <2> QED BY <2>3, <2>4, <2>5 DEF x
<1>3. ASSUME Answers("MSUB16") PROVE Value = a0 * b0 - a1 * b1
  <2>1. result = msub16(pcpi_rs1, pcpi_rs2)
    BY <1>3, Driven DEF AudioResult
  <2>2. result = Bits(a0 * b0 - a1 * b1, WordHalf)
    BY <2>1 DEF msub16, a0, a1, b0, b1
  <2> DEFINE x == a0 * b0 - a1 * b1
  <2>3. x \in (-WordHalf)..(WordHalf - 1)
    BY <1>0, ProductSums
  <2> HIDE DEF x
  <2> QED BY <2>2, <2>3, WordValue DEF Value, x
<1>4. ASSUME Answers("CONV4") \/ Answers("CONV8")
      PROVE \E f \in {[k \in 0..3 |-> Byte(pcpi_rs1, k) * Byte(pcpi_rs2, k)]} : Value = f[0] + f[1] + f[2] + f[3]
  <2>1. result = conv4_8bit(pcpi_rs1, pcpi_rs2)
    <3>1. CASE Answers("CONV4")
      BY <3>1, Driven DEF AudioResult
    <3>2. CASE Answers("CONV8")
      BY <3>2, Driven DEF AudioResult
    <3> QED BY <1>4, <3>1, <3>2
  <2> DEFINE f == [k \in 0..3 |-> Byte(pcpi_rs1, k) * Byte(pcpi_rs2, k)]
  <2>2. result = Bits(f[0] + f[1] + f[2] + f[3], WordHalf)
    BY <2>1 DEF conv4_8bit
  <2>3. f[0] + f[1] + f[2] + f[3] \in (-WordHalf)..(WordHalf - 1)
    <3>1. pcpi_rs1 \in Int /\ pcpi_rs2 \in Int
      BY Halves DEF UnitType, Word
    <3>2. \A k \in 0..3 : f[k] \in Int /\ 2 * f[k] \in (-LaneHalf)..LaneHalf
      BY <3>1, ByteProducts
    <3> DEFINE c0 == f[0]  c1 == f[1]  c2 == f[2]  c3 == f[3]  l == LaneHalf  w == WordHalf
    <3>3. /\ c0 \in Int /\ c1 \in Int /\ c2 \in Int /\ c3 \in Int
          /\ 2 * c0 \in (-l)..l /\ 2 * c1 \in (-l)..l /\ 2 * c2 \in (-l)..l /\ 2 * c3 \in (-l)..l
      BY <3>2
    <3>4. 4 * l <= w /\ l \in Nat \ {0} /\ w \in Nat
      BY Halves
    <3> HIDE DEF f, c0, c1, c2, c3, l, w
    <3>5. c0 + c1 + c2 + c3 \in (-w)..(w - 1)
      BY <3>3, <3>4
    <3> QED BY <3>5 DEF c0, c1, c2, c3, w
  <2>4. Value = f[0] + f[1] + f[2] + f[3]
    <3> DEFINE x == f[0] + f[1] + f[2] + f[3]
    <3>1. x \in (-WordHalf)..(WordHalf - 1) /\ result = Bits(x, WordHalf)
      BY <2>2, <2>3
    <3> HIDE DEF x
    <3>2. Value = x
      BY <3>1, WordValue DEF Value
    <3> QED BY <3>2 DEF x
  <2> QED BY <2>4
<1> QED BY <1>1, <1>2, <1>3, <1>4 DEF SumsExact

(* The saturated lanes of ABS16 and CMAC.                                    *)
LEMMA LanesAreNearest == UnitType => LanesSaturate
<1> SUFFICES ASSUME UnitType PROVE LanesSaturate
  OBVIOUS
<1>0. /\ a0 \in MinLane..MaxLane /\ a1 \in MinLane..MaxLane
      /\ b0 \in MinLane..MaxLane /\ b1 \in MinLane..MaxLane
  BY OperandLanes
<1>1. MinLane \in Int /\ MaxLane \in Int /\ MinLane = -MaxLane - 1 /\ MaxLane >= 1
  BY Halves DEF MinLane, MaxLane
<1>2. ASSUME Answers("ABS16")
      PROVE /\ Lo(result) = Nearest(Magnitude(a0), MinLane, MaxLane)
            /\ Hi(result) = Nearest(Magnitude(a1), MinLane, MaxLane)
  <2>1. result = Pack(abs16(a1), abs16(a0))
    BY <1>2, Driven DEF AudioResult, abs16_lanes, a0, a1
  <2>2. ASSUME NEW x \in MinLane..MaxLane
        PROVE abs16(x) \in MinLane..MaxLane /\ abs16(x) = Nearest(Magnitude(x), MinLane, MaxLane)
    BY <1>1 DEF abs16, Nearest, Magnitude
  <2> QED BY <1>0, <2>1, <2>2, PackSame
<1>3. ASSUME NEW x \in Int
      PROVE sat16_from32(x) \in MinLane..MaxLane /\ sat16_from32(x) = Nearest(x, MinLane, MaxLane)
  BY <1>1 DEF sat16_from32, Nearest
<1>4. ASSUME Answers("CMAC")
      PROVE /\ Lo(result) = Nearest(a0 * b0 - a1 * b1, MinLane, MaxLane)
            /\ a0 * b1 + a1 * b0 < WordHalf => Hi(result) = Nearest(a0 * b1 + a1 * b0, MinLane, MaxLane)
  <2> DEFINE re == a0 * b0 - a1 * b1  im == a0 * b1 + a1 * b0
  <2>1. result = Pack(sat16_from32(Int32(im)), sat16_from32(Int32(re)))
    BY <1>4, Driven DEF AudioResult, cmac_complex, a0, a1, b0, b1
  <2>2. re \in (-WordHalf)..(WordHalf - 1) /\ im \in (-WordHalf)..WordHalf
    BY <1>0, ProductSums
  <2> HIDE DEF re, im
  <2>3. Int32(re) = re /\ re \in Int
    BY <2>2, Halves, WordValue
  <2>4. Int32(im) = (IF im = WordHalf THEN -WordHalf ELSE im) /\ Int32(im) \in Int
    <3>1. Int32(im) = (IF im = WordHalf THEN -WordHalf ELSE im)
      BY <2>2, SumValue DEF Int32
    <3> QED BY <2>2, <3>1, Halves
  <2>5. /\ Lo(result) = sat16_from32(Int32(re)) /\ Hi(result) = sat16_from32(Int32(im))
        /\ sat16_from32(Int32(re)) = Nearest(re, MinLane, MaxLane)
        /\ sat16_from32(Int32(im)) = Nearest(Int32(im), MinLane, MaxLane)
    BY <1>3, <2>1, <2>3, <2>4, PackSame
  <2>6. im < WordHalf => Int32(im) = im
    BY <2>2, <2>4, Halves
  <2> QED BY <2>5, <2>6 DEF re, im
<1> QED BY <1>2, <1>4 DEF LanesSaturate

(* The limit of CLIP16, in 16 bits.                                          *)
LEMMA Clipped ==
  ASSUME NEW x \in MinLane..MaxLane, NEW limit \in MinLane..MaxLane, limit # MinLane
  PROVE clip16(x, limit) \in MinLane..MaxLane
        /\ clip16(x, limit) = Nearest(x, -Magnitude(limit), Magnitude(limit))
<1>1. MinLane \in Int /\ MaxLane \in Int /\ MinLane = -MaxLane - 1 /\ MaxLane >= 1
  BY Halves DEF MinLane, MaxLane
<1>2. ASSUME NEW y \in MinLane..MaxLane, y # MinLane PROVE Neg16(y) = -y /\ -y \in MinLane..MaxLane
  <2> DEFINE l == LaneHalf  z == -y
  <2>1. l \in Nat \ {0} /\ z \in (-l)..(l - 1) /\ z \in MinLane..MaxLane
    BY <1>1, <1>2, Halves DEF MinLane, MaxLane
  <2> HIDE DEF l, z
  <2>2. Signed(Bits(z, l), l) = z
    BY <2>1, SignedBits
  <2> QED BY <2>1, <2>2 DEF Neg16, l, z
<1> DEFINE m == Magnitude(limit)
<1>3. m \in 0..MaxLane /\ m = IF limit < 0 THEN Neg16(limit) ELSE limit
  BY <1>1, <1>2 DEF Magnitude
<1>4. clip16(x, limit) = IF x > m THEN m ELSE IF x < Neg16(m) THEN Neg16(m) ELSE x
  BY <1>3 DEF clip16
<1> HIDE DEF m
<1>5. m \in MinLane..MaxLane /\ m # MinLane
  BY <1>1, <1>3
<1>6. Neg16(m) = -m
  BY <1>2, <1>5
<1> QED BY <1>1, <1>3, <1>4, <1>6 DEF Nearest, m

(* Both lanes of CLIP16.                                                     *)
LEMMA ClipsAreNearest == UnitType => ClipsToLimit
<1> SUFFICES ASSUME UnitType, Answers("CLIP16"), b0 # MinLane
             PROVE /\ Lo(result) = Nearest(a0, -Magnitude(b0), Magnitude(b0))
                   /\ Hi(result) = Nearest(a1, -Magnitude(b0), Magnitude(b0))
  BY DEF ClipsToLimit
<1>1. result = Pack(clip16(a1, b0), clip16(a0, b0))
  BY Driven DEF AudioResult, clip16_lanes, a0, a1, b0
<1> QED BY <1>1, OperandLanes, Clipped, PackSame

(* ResultsNearest, for every width: every sum, saturation and clipping of the *)
(* audio unit is the exact result or the nearest one its registers hold.     *)
THEOREM ResultsAreNearest == UnitSpec => []ResultsNearest
<1>1. UnitType => ResultsNearest
  BY SumsAreExact, LanesAreNearest, ClipsAreNearest DEF ResultsNearest
<1> QED BY <1>1, UnitTypeInvariant, PTL

(* The powers of two in a word.                                              *)
LEMMA Powers ==
  ASSUME NEW n \in 0..(WordBits - 1)
  PROVE 2^n \in Nat \ {0} /\ 2^n <= WordHalf
<1>0. WordBits \in Nat /\ WordHalf \in Nat
  BY WidthAssumption, Halves
<1>1. \A k \in 0..WordBits : 2^k \in Nat /\ 2^(k + 1) = 2 * 2^k
  BY PowersAssumption
<1> DEFINE T == {k \in Nat : k <= WordBits => 2^k \in Nat \ {0}}
<1>2. 0 \in T
  BY <1>0, PowersAssumption
<1>3. \A k \in Nat : k \in T => k + 1 \in T
  <2> SUFFICES ASSUME NEW k \in Nat, k \in T, k + 1 <= WordBits PROVE 2^(k + 1) \in Nat \ {0}
    OBVIOUS
  <2>1. k \in 0..WordBits
    BY <1>0
  <2> DEFINE p == 2^k
  <2>2. p \in Nat \ {0} /\ 2^(k + 1) = 2 * p
    BY <1>0, <1>1, <2>1
  <2> HIDE DEF p
  <2> QED BY <2>2
<1>4. Nat \subseteq T
  <2> HIDE DEF T
  <2> QED BY <1>2, <1>3, Induction
<1>5. n \in Nat /\ n \in T
  BY <1>0, <1>4
(* Downwards from WordBits: a lower power is at most half of a higher one.    *)
<1> DEFINE U == {k \in Nat : k <= WordBits - 1 => 2^(WordBits - 1 - k) <= WordHalf}
<1>6. 0 \in U
  <2> DEFINE p == 2^(WordBits - 1)
  <2>1. WordBits - 1 \in 0..WordBits /\ (WordBits - 1) + 1 = WordBits
    BY <1>0
  <2>2. p \in Nat /\ 2^WordBits = 2 * p
    BY <1>1, <2>1
  <2>3. 2^WordBits = 2 * WordHalf
    BY WidthAssumption
  <2>4. WordBits - 1 - 0 = WordBits - 1
    BY <1>0
  <2> HIDE DEF p
  <2>5. p <= WordHalf
    BY <1>0, <2>2, <2>3
  <2> QED BY <2>4, <2>5 DEF p
<1>7. \A k \in Nat : k \in U => k + 1 \in U
  <2> SUFFICES ASSUME NEW k \in Nat, k \in U, k + 1 <= WordBits - 1
               PROVE 2^(WordBits - 1 - (k + 1)) <= WordHalf
    OBVIOUS
  <2> DEFINE e == WordBits - 1 - (k + 1)  p == 2^e
  <2>1. e \in 0..WordBits /\ e + 1 = WordBits - 1 - k
    BY <1>0
  <2> HIDE DEF e
  <2>2. p \in Nat /\ 2^(WordBits - 1 - k) = 2 * p
    BY <1>1, <2>1
  <2>3. 2^(WordBits - 1 - k) <= WordHalf
    BY <1>0
  <2> HIDE DEF p
  <2>4. p <= WordHalf
    BY <1>0, <2>2, <2>3
  <2> QED BY <2>4 DEF e, p
<1>8. Nat \subseteq U
  <2> HIDE DEF U
  <2> QED BY <1>6, <1>7, Induction
<1>9. 2^n <= WordHalf
  <2> DEFINE k == WordBits - 1 - n
  <2>1. k \in Nat /\ k <= WordBits - 1 /\ WordBits - 1 - k = n
    BY <1>0
  <2>2. k \in U
    BY <1>8, <2>1
  <2> HIDE DEF k
  <2> QED BY <2>1, <2>2
<1>10. 2^n \in Nat \ {0}
  <2>1. n <= WordBits
    BY <1>0
  <2> QED BY <1>5, <2>1
<1> QED BY <1>9, <1>10

(* SHIFTN on the signed value x of a word: x in units, rounded to the nearest *)
(* number and away from zero between two.                                    *)
RoundedUp(x, unit) == (2 * x + unit) \div (2 * unit)
ShiftedValue(x, unit) == IF x >= 0 THEN RoundedUp(x, unit) ELSE -RoundedUp(-x, unit)

(* What rounding leaves.                                                     *)
LEMMA RoundedFacts ==
  ASSUME NEW x \in Nat, NEW unit \in Nat \ {0}
  PROVE /\ RoundedUp(x, unit) \in Nat
        /\ \E r \in 0..(2 * unit - 1) : 2 * x + unit = 2 * (unit * RoundedUp(x, unit)) + r
<1> DEFINE m == 2 * unit  y == 2 * x + unit
<1>1. m \in Nat \ {0} /\ y \in Nat
  OBVIOUS
<1> HIDE DEF m, y
<1>2. y \div m \in Int /\ y % m \in 0..(m - 1) /\ y = m * (y \div m) + (y % m)
  BY <1>1, DivMod
<1>3. PICK q \in Int : q = y \div m
  BY <1>2
<1>4. PICK r \in 0..(m - 1) : y = m * q + r
  BY <1>2, <1>3
<1>5. q >= 0
  <2> SUFFICES ASSUME q <= -1 PROVE FALSE
    BY <1>3
  <2>1. m * q <= m * (-1)
    BY <1>1
  <2> QED BY <1>1, <1>4, <2>1
<1>6. RoundedUp(x, unit) = q
  BY <1>3 DEF RoundedUp, m, y
<1>7. m * q = 2 * (unit * q)
  BY DEF m
<1> QED BY <1>4, <1>5, <1>6, <1>7 DEF m, y

(* With an even unit the code adds half of it before it shifts.               *)
LEMMA BiasedRounds ==
  ASSUME NEW x \in Nat, NEW bias \in Nat \ {0}
  PROVE (x + bias) \div (2 * bias) = RoundedUp(x, 2 * bias)
<1> DEFINE m == 2 * bias  y == x + bias  two == 2
<1>1. m \in Nat \ {0} /\ two \in Nat \ {0} /\ y \in Int /\ two = 2
  OBVIOUS
<1> HIDE DEF m, y, two
<1>2. PICK q \in Int : q = y \div m
  BY <1>1, DivMod
<1>3. PICK r \in 0..(m - 1) : y = m * q + r
  BY ZenonT(30), <1>1, <1>2, DivMod
<1> DEFINE m2 == 2 * m  y2 == 2 * x + m  r2 == 2 * r
<1>4. y2 = m2 * q + r2 /\ r2 \in 0..(m2 - 1) /\ m2 \in Nat \ {0} /\ y2 \in Int
  <2>1. 2 * y = 2 * x + m
    BY DEF y, m
  <2>2. m2 * q = 2 * (m * q) /\ m * q \in Int
    BY <1>1
  <2> QED BY <1>1, <1>3, <2>1, <2>2
<1> HIDE DEF m2, y2, r2
<1>5. y2 \div m2 = q
  BY <1>4, DivModIs
<1> QED BY <1>2, <1>5 DEF RoundedUp, m2, y2, m, y

(* A number counted in units is not larger than itself.                      *)
LEMMA RoundedBelow ==
  ASSUME NEW x \in Nat, NEW unit \in Nat \ {0}
  PROVE RoundedUp(x, unit) \in 0..x
<1>1. PICK q \in Nat : q = RoundedUp(x, unit)
  BY RoundedFacts
<1>2. PICK r \in 0..(2 * unit - 1) : 2 * x + unit = 2 * (unit * q) + r
  BY <1>1, RoundedFacts
<1>3. q <= x
  <2> SUFFICES ASSUME q >= x + 1 PROVE FALSE
    BY <1>1
  <2>1. unit * q >= unit * (x + 1) /\ unit * (x + 1) = unit * x + unit /\ unit * x >= x
    OBVIOUS
  <2>2. unit * q \in Int /\ unit * x \in Int
    OBVIOUS
  <2> QED BY <1>2, <2>1, <2>2
<1> QED BY <1>1, <1>3

(* Rounding to ones changes nothing.                                         *)
LEMMA RoundedToOnes == ASSUME NEW x \in Nat PROVE RoundedUp(x, 1) = x
<1>1. PICK q \in Nat : q = RoundedUp(x, 1)
  BY RoundedFacts
<1>2. PICK r \in 0..1 : 2 * x + 1 = 2 * q + r
  <2> DEFINE unit == 1
  <2>1. unit \in Nat \ {0} /\ q = RoundedUp(x, unit)
    BY <1>1
  <2> HIDE DEF unit
  <2>2. PICK r \in 0..(2 * unit - 1) : 2 * x + unit = 2 * (unit * q) + r
    BY <2>1, RoundedFacts
  <2> QED BY <2>2 DEF unit
<1> QED BY <1>1, <1>2

(* Both branches of the code, whose sums and shifts are unsigned, are this    *)
(* rounding, and the result always fits.                                     *)
LEMMA ShiftIsRounding ==
  ASSUME NEW x \in (-WordHalf)..(WordHalf - 1), NEW w, w = Bits(x, WordHalf),
         NEW n \in 0..(WordBits - 1), NEW shamt, shamt % WordBits = n
  PROVE /\ ShiftedValue(x, 2^n) \in (-WordHalf)..(WordHalf - 1)
        /\ shiftn_round(w, shamt) = Bits(ShiftedValue(x, 2^n), WordHalf)
        /\ Signed(shiftn_round(w, shamt), WordHalf) = ShiftedValue(x, 2^n)
<1> DEFINE h == WordHalf  unit == 2^n  v == ShiftedValue(x, unit)
<1>1. h \in Nat \ {0} /\ x \in (-h)..(h - 1) /\ unit \in Nat \ {0} /\ unit <= h
  BY Halves, Powers
<1>2. Signed(w, h) = x /\ w = Bits(x, h)
  BY WordValue
<1> HIDE DEF h, unit
<1>3. v \in (-h)..(h - 1)
  <2>1. CASE x >= 0
    <3>1. RoundedUp(x, unit) \in 0..x
      BY <1>1, <2>1, RoundedBelow
    <3> QED BY <1>1, <2>1, <3>1 DEF ShiftedValue
  <2>2. CASE x < 0
    <3> DEFINE y == -x
    <3>1. y \in Nat /\ y <= h /\ y = -x
      BY <1>1, <2>2
    <3>2. v = -RoundedUp(y, unit)
      BY <2>2, <1>1 DEF ShiftedValue
    <3> HIDE DEF y, v
    <3>3. RoundedUp(y, unit) \in 0..y
      BY <1>1, <3>1, RoundedBelow
    <3> QED BY <1>1, <3>1, <3>2, <3>3
  <2> QED BY <1>1, <2>1, <2>2
<1>4. shiftn_round(w, shamt) = Bits(v, h)
  <2> DEFINE bias == 2^(n - 1)
  <2>1. CASE n = 0
    <3>1. unit = 1
      BY <2>1, PowersAssumption DEF unit
    <3>2. v = x
      <4>1. CASE x >= 0
        BY <1>1, <3>1, <4>1, RoundedToOnes DEF ShiftedValue
      <4>2. CASE x < 0
        <5> DEFINE y == -x
        <5>1. y \in Nat /\ -y = x
          BY <1>1, <4>2
        <5>2. v = -RoundedUp(y, 1)
          BY <3>1, <4>2, <1>1 DEF ShiftedValue
        <5> HIDE DEF y, v
        <5>3. RoundedUp(y, 1) = y
          BY <5>1, RoundedToOnes
        <5> QED BY <5>1, <5>2, <5>3
      <4> QED BY <1>1, <4>1, <4>2
    <3>3. shiftn_round(w, shamt) = w
      BY <2>1 DEF shiftn_round
    <3> QED BY <1>2, <3>2, <3>3
  <2>2. CASE n # 0
    <3>1. bias \in Nat \ {0} /\ unit = 2 * bias
      <4>0. WordBits \in Nat
        BY WidthAssumption
      <4>1. n - 1 \in 0..WordBits /\ n - 1 \in 0..(WordBits - 1) /\ (n - 1) + 1 = n
        BY <2>2, <4>0
      <4>2. 2^(n - 1) \in Nat \ {0}
        BY <4>1, Powers
      <4>3. 2^n = 2 * 2^(n - 1)
        BY <4>1, PowersAssumption
      <4> QED BY <4>2, <4>3 DEF unit
    <3>2. shiftn_round(w, shamt) =
            IF x >= 0 THEN Bits(x + bias, h) \div unit
            ELSE Bits(-(Bits(Bits(-x, h) + bias, h) \div unit), h)
      BY <1>2, <2>2 DEF shiftn_round, h, unit
    <3> HIDE DEF bias
    <3>3. ASSUME NEW y \in 0..h PROVE Bits(y + bias, h) \div unit = RoundedUp(y, unit)
      <4> DEFINE z == y + bias
      <4>1. z \in 0..(2 * h - 1)
        BY <1>1, <3>1
      <4> HIDE DEF z
      <4>2. Bits(z, h) = z
        BY <1>1, <4>1, BitsSame
      <4>3. (y + bias) \div (2 * bias) = RoundedUp(y, 2 * bias)
        BY <1>1, <3>1, BiasedRounds
      <4> QED BY <3>1, <4>2, <4>3 DEF z
    <3>4. CASE x >= 0
      <4>1. v = RoundedUp(x, unit) /\ v \in 0..x
        BY <1>1, <3>4, RoundedBelow DEF ShiftedValue
      <4>2. v \in 0..(2 * h - 1)
        BY <1>1, <4>1
      <4>3. Bits(v, h) = v
        BY <1>1, <4>2, BitsSame
      <4>4. x \in 0..h
        BY <1>1, <3>4
      <4> QED BY <3>2, <3>3, <3>4, <4>1, <4>3, <4>4
    <3>5. CASE x < 0
      <4> DEFINE y == -x
      <4>1. y \in 0..h /\ y \in 0..(2 * h - 1)
        BY <1>1, <3>5
      <4>2. v = -RoundedUp(y, unit)
        BY <3>5, <1>1 DEF ShiftedValue
      <4>3. shiftn_round(w, shamt) = Bits(-(Bits(Bits(y, h) + bias, h) \div unit), h)
        BY <1>1, <3>2, <3>5
      <4> HIDE DEF y, v
      <4>4. Bits(y, h) = y
        BY <1>1, <4>1, BitsSame
      <4>5. Bits(y + bias, h) \div unit = RoundedUp(y, unit)
        BY <3>3, <4>1
      <4> QED BY <4>2, <4>3, <4>4, <4>5
    <3> QED BY <1>1, <3>4, <3>5
  <2> QED BY <2>1, <2>2
<1> HIDE DEF v
<1>5. Signed(Bits(v, h), h) = v
  BY <1>1, <1>3, SignedBits
<1> QED BY <1>3, <1>4, <1>5 DEF h, v, unit

(* A word is the field of its signed value.                                  *)
LEMMA FieldOfValue ==
  ASSUME NEW w \in Word
  PROVE /\ Signed(w, WordHalf) \in (-WordHalf)..(WordHalf - 1)
        /\ w = Bits(Signed(w, WordHalf), WordHalf)
<1> DEFINE h == WordHalf  m == 2 * h  x == Signed(w, h)
<1>1. h \in Nat \ {0} /\ w \in 0..(2 * h - 1) /\ m \in Nat \ {0}
  BY Halves DEF Word
<1>2. x \in (-h)..(h - 1)
  <2> HIDE DEF h
  <2> QED BY <1>1, SignedRange
<1>3. CASE w < h
  <2>1. x = w
    BY <1>3 DEF Signed
  <2> HIDE DEF h, x
  <2>2. Bits(w, h) = w
    BY <1>1, BitsSame
  <2> QED BY <1>2, <2>1, <2>2 DEF h, x
<1>4. CASE ~(w < h)
  <2>1. x = w - m
    BY <1>4 DEF Signed
  <2> DEFINE q == -1
  <2>2. x = m * q + w /\ q \in Int /\ x \in Int /\ w \in 0..(m - 1)
    BY <1>1, <2>1
  <2> HIDE DEF q, m, x
  <2>3. x % m = w
    BY <1>1, <2>2, DivModIs
  <2> QED BY <1>2, <2>3 DEF Bits, m, h, x
<1> QED BY <1>3, <1>4

(* The error of SHIFTN in one state.                                         *)
LEMMA ShiftsRight == UnitType => ShiftRoundsToNearest
<1> DEFINE x == Signed(pcpi_rs1, WordHalf)  n == pcpi_rs2 % WordBits  unit == 2^n
           error == Magnitude(Value * unit) - Magnitude(x)
<1> SUFFICES ASSUME UnitType, Answers("SHIFTN")
             PROVE /\ Magnitude(x - Value * unit) = Magnitude(error)
                   /\ -unit < 2 * error /\ 2 * error <= unit
  BY DEF ShiftRoundsToNearest
<1>1. x \in (-WordHalf)..(WordHalf - 1) /\ pcpi_rs1 = Bits(x, WordHalf)
  BY FieldOfValue DEF UnitType
<1>2. WordBits \in Nat \ {0}
  <2>1. WordHalf \in Nat \ {0} /\ WordBits \in Nat /\ 2^WordBits = 2 * WordHalf /\ 2^0 = 1
    BY Halves, WidthAssumption, PowersAssumption
  <2> SUFFICES ASSUME WordBits = 0 PROVE FALSE
    BY <2>1
  <2>2. 2 * WordHalf = 1
    BY <2>1
  <2> QED BY <2>1, <2>2
<1>3. n \in 0..(WordBits - 1)
  <2>1. pcpi_rs2 \in Int
    BY Halves DEF UnitType, Word
  <2> QED BY <1>2, <2>1, DivMod
<1>4. unit \in Nat \ {0}
  BY <1>3, Powers
<1>5. result = shiftn_round(pcpi_rs1, pcpi_rs2)
  BY Driven DEF AudioResult
<1>6. Value = ShiftedValue(x, unit)
  <2> HIDE DEF x, n
  <2>1. Signed(shiftn_round(pcpi_rs1, pcpi_rs2), WordHalf) = ShiftedValue(x, 2^n)
    BY <1>1, <1>3, ShiftIsRounding DEF n
  <2> QED BY <1>5, <2>1 DEF Value
<1>7. x \in Int
  BY <1>1, Halves
<1> HIDE DEF x, unit
<1>8. ASSUME NEW y \in Nat, y = Magnitude(x)
      PROVE /\ \E q \in Nat, r \in 0..(2 * unit - 1) :
                 q = RoundedUp(y, unit) /\ 2 * y + unit = 2 * (unit * q) + r
  BY <1>4, RoundedFacts
<1> DEFINE y == Magnitude(x)
<1>9. y \in Nat /\ (x >= 0 => x = y) /\ (x < 0 => x = -y /\ y = -x)
  BY <1>7 DEF Magnitude
<1> HIDE DEF y
<1>10. PICK q \in Nat, r \in 0..(2 * unit - 1) : q = RoundedUp(y, unit) /\ 2 * y + unit = 2 * (unit * q) + r
  BY <1>8, <1>9 DEF y
<1>11. Value = IF x >= 0 THEN q ELSE -q
  <2>1. CASE x >= 0
    <3>1. RoundedUp(x, unit) = q
      BY <1>9, <1>10, <2>1
    <3> QED BY <1>6, <2>1, <3>1 DEF ShiftedValue
  <2>2. CASE ~(x >= 0)
    <3>1. -x = y
      BY <1>7, <1>9, <2>2
    <3>2. RoundedUp(-x, unit) = q
      BY <1>10, <3>1
    <3> QED BY <1>6, <2>2, <3>2 DEF ShiftedValue
  <2> QED BY <2>1, <2>2
<1> DEFINE p == unit * q
<1>12. p \in Nat /\ q * unit = p /\ (-q) * unit = -p
  BY <1>4
<1>13. 2 * y + unit = 2 * p + r
  BY <1>10
<1> HIDE DEF p
<1>14. Value * unit = IF x >= 0 THEN p ELSE -p
  BY <1>11, <1>12
<1>15. Magnitude(Value * unit) = p /\ Magnitude(x) = y
  BY <1>7, <1>12, <1>14 DEF Magnitude, y
<1>16. error = p - y
  BY <1>15
<1>17. -unit < 2 * (p - y) /\ 2 * (p - y) <= unit
  BY <1>4, <1>9, <1>12, <1>13
<1>18. Magnitude(x - Value * unit) = Magnitude(p - y)
  BY <1>7, <1>9, <1>12, <1>14 DEF Magnitude
<1> HIDE DEF error
<1> QED BY <1>16, <1>17, <1>18

(* ShiftRoundsToNearest, for every width, value and shift: the code's         *)
(* unsigned bias and shift round to the nearest, also at the least value.    *)
THEOREM ShiftsRoundToNearest == UnitSpec => []ShiftRoundsToNearest
BY UnitTypeInvariant, ShiftsRight, PTL

Cleaned == {"report", "dump", "done"}
Shown == SubSeq(samples, 1, Least(8, num_samples))

(* Every part of the buffer comes from the input, or from the cleaning so far *)
(* as the number i says; the counts agree with the header.                   *)
BufferInv ==
  /\ run \in Runs
  /\ samples = [k \in 1..EXAMPLE_NUM_SAMPLES |-> samples[k]]
  /\ num_samples \in 0..EXAMPLE_NUM_SAMPLES /\ i \in 0..num_samples
  /\ hdr = NoHeader \/ (hdr = LoadedHeader /\ Loadable /\ run.in_wav)
  /\ hdr # NoHeader =>
       \A k \in (i + 1)..Least(EXAMPLE_NUM_SAMPLES, Len(run.payload)) : samples[k] = run.payload[k]
ProgressInv ==
  /\ pc \in {"load", "check", "clean"} \cup Cleaned
  /\ pc = "load" => hdr = NoHeader
  /\ pc \in {"load", "check"} => num_samples = 0
  /\ pc \in {"clean"} \cup Cleaned => num_samples = hdr.data_size \div 2
  /\ pc \in Cleaned => i = num_samples
  /\ pc \in {"dump", "done"} => console = [shown |-> Shown, total |-> num_samples]
  /\ output # NoOutput =>
       /\ pc = "done" /\ hdr # NoHeader /\ output.hdr = hdr
       /\ \E n \in 0..num_samples : output.samples = SubSeq(samples, 1, n)
IInv == BufferInv /\ ProgressInv

(* What is copied from the front of a buffer, nothing if that is no number.  *)
LEMMA Front ==
  ASSUME NEW s, NEW n \in Nat
  PROVE  /\ Len(SubSeq(s, 1, n)) = n
         /\ \A k \in 1..n : SubSeq(s, 1, n)[k] = s[k]
<1> DEFINE V == {s[k] : k \in 1..n}
<1>1. \A k \in 1..n : s[k] \in V
  OBVIOUS
<1> HIDE DEF V
<1>2. Len(SubSeq(s, 1, n)) = (IF 1 <= n THEN n - 1 + 1 ELSE 0)
      /\ \A k \in 1..(n - 1 + 1) : SubSeq(s, 1, n)[k] = s[1 + k - 1]
  BY <1>1, SubSeqProperties
<1> QED
  BY <1>2

(* A front of no length.                                                     *)
LEMMA NoFront == ASSUME NEW s, NEW n \in Int, n < 1 PROVE SubSeq(s, 1, n) = SubSeq(s, 1, 0)
BY SubSeqEmpty

(* A run and the header that the host leaves in the buffer have their types,  *)
(* and the size in that header is cut to what the buffer holds.              *)
LEMMA RunFacts ==
  ASSUME run \in Runs
  PROVE  /\ Len(run.payload) \in Nat /\ run.odd \in {0, 1}
         /\ run.hdr \in Header
         /\ to_read \in HeaderBytes..BufferBytes
<1>1. run \in Run
  BY RunAssumption
<1>2. Len(run.payload) \in Nat /\ run.odd \in {0, 1} /\ run.hdr \in Header
  BY <1>1, LenProperties DEF Run
<1> QED
  BY <1>2, BufferAssumption DEF to_read, fsize, Least, HeaderBytes, BufferBytes

(* What the header in the buffer says fits the buffer.                       *)
LEMMA HeaderFacts ==
  ASSUME BufferInv
  PROVE  /\ hdr.data_size \in 0..(2 * EXAMPLE_NUM_SAMPLES)
         /\ hdr.data_size \div 2 \in 0..EXAMPLE_NUM_SAMPLES
         /\ hdr = NoHeader => ~hdr.tags /\ hdr.data_size = 0
         /\ hdr # NoHeader => hdr.tags /\ hdr.pcm16mono
<1>1. CASE hdr = NoHeader
  <2>1. ~hdr.tags /\ hdr.data_size = 0
    BY <1>1 DEF NoHeader
  <2> QED
    BY <1>1, <2>1, BufferAssumption
<1>2. CASE hdr # NoHeader
  <2>1. hdr = LoadedHeader /\ run.hdr \in Header /\ to_read \in HeaderBytes..BufferBytes
    BY <1>2, RunFacts DEF BufferInv
  <2>2. hdr.data_size = Least(run.hdr.data_size, to_read - HeaderBytes) /\ run.hdr.data_size \in Nat
        /\ hdr.tags = run.hdr.tags /\ hdr.pcm16mono = run.hdr.pcm16mono
    BY <2>1 DEF LoadedHeader, Header
  <2>3. hdr.data_size \in 0..(2 * EXAMPLE_NUM_SAMPLES)
    BY <2>1, <2>2, BufferAssumption DEF Least, HeaderBytes, BufferBytes
  <2>4. run.hdr.tags /\ run.hdr.pcm16mono
    BY <1>2 DEF BufferInv, Loadable
  <2> QED
    <3>1. hdr.tags /\ hdr.pcm16mono
      BY <2>2, <2>4
    <3>2. hdr.data_size \div 2 \in 0..EXAMPLE_NUM_SAMPLES
      BY <2>3, BufferAssumption
    <3> QED
      BY <1>2, <2>3, <3>1, <3>2
<1> QED
  BY <1>1, <1>2

(* The filter writes one sample and counts it, whatever it computes.         *)
LEMMA CleanWritesOne ==
  ASSUME noise_clean_samples
  PROVE  /\ i < num_samples /\ i' = i + 1 /\ num_samples' = num_samples
         /\ \E y : samples' = [samples EXCEPT ![i + 1] = y]
BY DEF noise_clean_samples, Gate, Filter, Track

(* The invariant holds at the start, before the file is loaded.              *)
LEMMA InitInv == Init => IInv
<1> SUFFICES ASSUME Init PROVE IInv
  OBVIOUS
<1>1. BufferInv
  BY BufferAssumption DEF Init, BufferInv, FilterStart
<1>2. ProgressInv
  BY DEF Init, ProgressInv, FilterStart, Cleaned
<1> QED
  BY <1>1, <1>2 DEF IInv

(* Every step of host and firmware keeps the invariant.                      *)
LEMMA StepInv == IInv /\ [Next]_vars => IInv'
<1> SUFFICES ASSUME IInv, [Next]_vars PROVE IInv'
  OBVIOUS
<1> USE DEF IInv
<1>1. CASE LoadInput
  <2>1. hdr = NoHeader /\ i = 0 /\ num_samples = 0 /\ output = NoOutput
    BY <1>1 DEF LoadInput, BufferInv, ProgressInv, Cleaned
  <2>2. LoadedHeader' = LoadedHeader /\ Loadable' = Loadable
    BY <1>1 DEF LoadInput, LoadedHeader, Loadable, to_read, fsize
  <2>3. \A k \in 1..Least(EXAMPLE_NUM_SAMPLES, Len(run.payload)) : Loaded[k] = run.payload[k]
    <3> SUFFICES ASSUME NEW k \in 1..Least(EXAMPLE_NUM_SAMPLES, Len(run.payload))
                 PROVE  Loaded[k] = run.payload[k]
      OBVIOUS
    <3>1. Len(run.payload) \in Nat /\ run.odd \in {0, 1}
      BY RunFacts DEF BufferInv
    <3>2. k \in 1..EXAMPLE_NUM_SAMPLES /\ k <= Len(run.payload)
      BY <3>1, BufferAssumption DEF Least
    <3>3. 2 * k <= to_read - HeaderBytes
      BY <3>1, <3>2, BufferAssumption DEF to_read, fsize, Least, HeaderBytes, BufferBytes
    <3> QED
      BY <3>2, <3>3 DEF Loaded
  <2>4. BufferInv'
    <3>1. samples' = [k \in 1..EXAMPLE_NUM_SAMPLES |-> samples'[k]]
      BY <1>1 DEF LoadInput, Loaded
    <3>2. samples' = Loaded /\ run' = run /\ i' = 0 /\ num_samples' = 0 /\ hdr' = LoadedHeader
          /\ Loadable /\ run.in_wav
      BY <1>1, <2>1 DEF LoadInput
    <3>3. run' \in Runs
      BY <3>2 DEF BufferInv
    <3> QED
      BY <2>2, <2>3, <3>1, <3>2, <3>3, BufferAssumption DEF BufferInv
  <2>5. ProgressInv'
    BY <1>1, <2>1 DEF LoadInput, ProgressInv, Cleaned
  <2> QED
    BY <2>4, <2>5
<1>2. CASE RunWithoutInput
  <2>1. BufferInv'
    BY <1>2 DEF RunWithoutInput, BufferInv, firmware, filter, LoadedHeader, Loadable, to_read, fsize
  <2>2. ProgressInv'
    BY <1>2 DEF RunWithoutInput, ProgressInv, firmware, Cleaned
  <2> QED
    BY <2>1, <2>2
<1>3. CASE CheckHeader
  <2>1. /\ hdr.data_size \div 2 \in 0..EXAMPLE_NUM_SAMPLES
        /\ hdr = NoHeader => ~hdr.tags /\ hdr.data_size = 0
        /\ hdr # NoHeader => hdr.tags /\ hdr.pcm16mono
    BY HeaderFacts
  <2>2. hdr = NoHeader => hdr.data_size \div 2 = 0
    BY <2>1
  <2>3. i = 0 /\ num_samples = 0 /\ output = NoOutput
    BY <1>3 DEF CheckHeader, BufferInv, ProgressInv, Cleaned
  <2>4. num_samples' = hdr.data_size \div 2 /\ i' = i
    BY <1>3, <2>1, <2>2, <2>3 DEF CheckHeader
  <2>5. BufferInv'
    <3>1. LoadedHeader' = LoadedHeader /\ Loadable' = Loadable /\ UNCHANGED <<run, hdr, samples>>
      BY <1>3 DEF CheckHeader, LoadedHeader, Loadable, to_read, fsize
    <3>2. num_samples' \in 0..EXAMPLE_NUM_SAMPLES /\ i' \in 0..num_samples'
      BY <2>1, <2>3, <2>4, BufferAssumption
    <3>3. i' = i /\ i = 0
      BY <2>3, <2>4
    <3> QED
      BY <3>1, <3>2, <3>3 DEF BufferInv
  <2>6. ProgressInv'
    BY <1>3, <2>1, <2>2, <2>3, <2>4 DEF CheckHeader, ProgressInv, Cleaned
  <2> QED
    BY <2>5, <2>6
<1>4. CASE Clean
  <2>1. /\ i < num_samples /\ i' = i + 1 /\ num_samples' = num_samples
        /\ \E y : samples' = [samples EXCEPT ![i + 1] = y]
    BY <1>4, CleanWritesOne DEF Clean
  <2>2. BufferInv'
    <3>1. samples' = [k \in 1..EXAMPLE_NUM_SAMPLES |-> samples'[k]]
      BY <2>1 DEF BufferInv
    <3>2. \A k \in (i' + 1)..Least(EXAMPLE_NUM_SAMPLES, Len(run.payload)) : samples'[k] = samples[k]
      BY <2>1, RunFacts, BufferAssumption DEF BufferInv, Least
    <3>3. (LoadedHeader = LoadedHeader' /\ Loadable = Loadable' /\ run' = run /\ hdr' = hdr)
      BY <1>4 DEF Clean, LoadedHeader, Loadable, to_read, fsize
    <3>4. hdr # NoHeader =>
            \A k \in (i' + 1)..Least(EXAMPLE_NUM_SAMPLES, Len(run.payload)) : samples'[k] = run.payload[k]
      <4>1. run \in Runs /\ i \in Nat
        BY BufferAssumption DEF BufferInv
      <4>2. Least(EXAMPLE_NUM_SAMPLES, Len(run.payload)) \in Nat
        BY <4>1, RunFacts, BufferAssumption DEF Least
      <4> SUFFICES ASSUME hdr # NoHeader,
                          NEW k \in (i' + 1)..Least(EXAMPLE_NUM_SAMPLES, Len(run.payload))
                   PROVE  samples'[k] = run.payload[k]
        OBVIOUS
      <4>3. k \in (i + 1)..Least(EXAMPLE_NUM_SAMPLES, Len(run.payload))
        BY <2>1, <4>1, <4>2
      <4> QED
        BY <3>2, <4>3 DEF BufferInv
    <3>5. i' \in 0..num_samples'
      BY <2>1, BufferAssumption DEF BufferInv
    <3> QED
      BY <2>1, <3>1, <3>3, <3>4, <3>5 DEF BufferInv
  <2>3. ProgressInv'
    BY <1>4, <2>1 DEF Clean, ProgressInv, Cleaned
  <2> QED
    BY <2>2, <2>3
<1>5. CASE CleanDone
  <2>1. BufferInv'
    BY <1>5 DEF CleanDone, BufferInv, firmware, LoadedHeader, Loadable, to_read, fsize
  <2>2. ProgressInv'
    BY <1>5 DEF CleanDone, ProgressInv, firmware, Cleaned
  <2> QED
    BY <2>1, <2>2
<1>6. CASE Report
  <2>1. BufferInv'
    BY <1>6 DEF Report, BufferInv, firmware, LoadedHeader, Loadable, to_read, fsize
  <2>2. ProgressInv'
    BY <1>6 DEF Report, ProgressInv, firmware, Cleaned, Shown
  <2> QED
    BY <2>1, <2>2
<1>7. CASE Dump
  <2>1. BufferInv'
    BY <1>7 DEF Dump, BufferInv, firmware, LoadedHeader, Loadable, to_read, fsize
  <2>2. PICK bytes \in {0, HeaderBytes, total_bytes - 1, total_bytes} :
          output' = [hdr |-> hdr, bytes |-> bytes, samples |-> SubSeq(samples, 1, (bytes - HeaderBytes) \div 2)]
    BY <1>7 DEF Dump
  <2>3. hdr # NoHeader /\ hdr.data_size \in 0..(2 * EXAMPLE_NUM_SAMPLES)
    BY <1>7, HeaderFacts DEF Dump
  <2>4. num_samples = hdr.data_size \div 2
    BY <1>7 DEF Dump, ProgressInv, Cleaned
  <2>5. \E n \in 0..num_samples : output'.samples = SubSeq(samples, 1, n)
    <3>1. (bytes - HeaderBytes) \div 2 \in Int /\ (bytes - HeaderBytes) \div 2 <= num_samples
      BY <2>3, <2>4, BufferAssumption DEF total_bytes, Least, HeaderBytes, BufferBytes
    <3>2. output'.samples = SubSeq(samples, 1, (bytes - HeaderBytes) \div 2)
      BY <2>2
    <3>3. num_samples \in Nat
      BY DEF BufferInv
    <3>4. CASE (bytes - HeaderBytes) \div 2 < 1
      BY <3>1, <3>2, <3>3, <3>4, NoFront
    <3>5. CASE ~((bytes - HeaderBytes) \div 2 < 1)
      BY <3>1, <3>2, <3>3, <3>5
    <3> QED
      BY <3>4, <3>5
  <2>6. ProgressInv'
    BY <1>7, <2>2, <2>3, <2>5 DEF Dump, ProgressInv, firmware, Cleaned, Shown
  <2> QED
    BY <2>1, <2>6
<1>8. CASE NoDump
  <2>1. BufferInv'
    BY <1>8 DEF NoDump, BufferInv, firmware, LoadedHeader, Loadable, to_read, fsize
  <2>2. ProgressInv'
    BY <1>8 DEF NoDump, ProgressInv, firmware, Cleaned, Shown
  <2> QED
    BY <2>1, <2>2
<1>9. CASE UNCHANGED vars
  <2>1. BufferInv'
    BY <1>9 DEF vars, BufferInv, firmware, LoadedHeader, Loadable, to_read, fsize
  <2>2. ProgressInv'
    BY <1>9 DEF vars, ProgressInv, firmware, Cleaned, Shown
  <2> QED
    BY <2>1, <2>2
<1> QED
  BY <1>1, <1>2, <1>3, <1>4, <1>5, <1>6, <1>7, <1>8, <1>9 DEF Next

(* The invariant of the run.                                                 *)
LEMMA Inductive == Spec => []IInv
BY InitInv, StepInv, PTL DEF Spec

(* The firmware never cleans beyond its buffer, whatever size the header of   *)
(* the input states, however long the input is.                              *)
THEOREM StaysWithinBuffer == Spec => []CleansWithinBuffer
<1>1. IInv => CleansWithinBuffer
  BY BufferAssumption DEF IInv, BufferInv, CleansWithinBuffer
<1> QED
  BY <1>1, Inductive, PTL

(* An output, even a file cut off, is made of samples that passed all checks  *)
(* of the input and were all cleaned, and states a size the buffer holds.    *)
THEOREM OutputCameFromInput == Spec => []OutputIsCleanedInput
<1>1. IInv => OutputIsCleanedInput
  <2> SUFFICES ASSUME IInv, output # NoOutput PROVE OutputIsCleanedInput
    BY DEF OutputIsCleanedInput
  <2>1. /\ pc = "done" /\ hdr # NoHeader /\ output.hdr = hdr
        /\ \E n \in 0..num_samples : output.samples = SubSeq(samples, 1, n)
        /\ i = num_samples /\ num_samples = hdr.data_size \div 2
        /\ console = [shown |-> Shown, total |-> num_samples]
    BY DEF IInv, ProgressInv, Cleaned
  <2>2. PICK n \in 0..num_samples : output.samples = SubSeq(samples, 1, n)
    BY <2>1
  <2>3. num_samples \in 0..EXAMPLE_NUM_SAMPLES
    BY DEF IInv, BufferInv
  <2>4. Len(output.samples) = n /\ \A k \in 1..n : output.samples[k] = samples[k]
    BY <2>2, <2>3, Front, BufferAssumption DEF IInv, BufferInv
  <2>5. \A k \in 1..Least(8, num_samples) : Shown[k] = samples[k]
    BY <2>3, Front, BufferAssumption DEF IInv, BufferInv, Shown, Least
  <2>6. \A k \in 1..Least(8, Len(output.samples)) : console.shown[k] = output.samples[k]
    BY <2>1, <2>3, <2>4, <2>5 DEF Least
  <2>7. HeaderBytes + output.hdr.data_size <= BufferBytes
    BY <2>1, HeaderFacts, BufferAssumption DEF IInv, HeaderBytes, BufferBytes
  <2>8. Loadable /\ run.in_wav
        /\ \A k \in (i + 1)..Least(EXAMPLE_NUM_SAMPLES, Len(run.payload)) : samples[k] = run.payload[k]
    BY <2>1 DEF IInv, BufferInv
  <2> QED
    BY <2>1, <2>6, <2>7, <2>8 DEF OutputIsCleanedInput
<1> QED
  BY <1>1, Inductive, PTL

-----------------------------------------------------------------------------

(* The constants of the filter: half a byte is H, half a lane is L.          *)
LEMMA Scales ==
  /\ LaneHalf \in Nat /\ LaneHalf >= 8 /\ ByteHalf \in Nat /\ ByteHalf >= 2
  /\ LaneHalf = 2 * (ByteHalf * ByteHalf) /\ WordHalf = 2 * (LaneHalf * LaneHalf)
  /\ LaneHalf * LaneHalf \in Nat /\ LaneHalf * LaneHalf >= 8 * LaneHalf
  /\ MinLane = -LaneHalf /\ MaxLane = LaneHalf - 1
  /\ max_energy = LaneHalf * LaneHalf
  /\ clip_limit \in 0..MaxLane
  /\ quarter \in Nat /\ 4 * quarter <= LaneHalf /\ 3 * quarter < LaneHalf
<1> DEFINE h == ByteHalf  l == LaneHalf  s == l * l
<1>1. h \in Nat /\ h >= 2 /\ l = 2 * (h * h)
  BY Halves, LanesAssumption
<1>2. h * h >= 4 /\ h * h \in Nat
  <2> HIDE DEF h, l
  <2>1. h * h >= 2 * h /\ h * h \in Nat
    BY <1>1
  <2> QED BY <1>1, <2>1
<1>3. l \in Nat /\ l >= 8
  BY <1>1, <1>2
<1>4. WordHalf = 2 * s
  BY Halves
<1>5. MinLane = -l /\ MaxLane = l - 1
  BY DEF MinLane, MaxLane
<1>6. max_energy = WordHalf \div 2 /\ clip_limit = (30000 * l) \div 32768 /\ quarter = l \div 4
  BY DEF max_energy, clip_limit, quarter
<1>7. s \in Nat /\ s >= 8 * l
  <2> HIDE DEF h, l
  <2>1. l * l >= 8 * l /\ l * l \in Nat
    BY <1>3
  <2> QED BY <2>1
<1> HIDE DEF h, l, s
<1>8. max_energy = s
  BY <1>4, <1>6, <1>7
<1>9. clip_limit \in 0..(l - 1)
  BY <1>3, <1>6
<1>10. quarter \in Nat /\ 4 * quarter <= l /\ 3 * quarter < l
  BY <1>3, <1>6
<1> QED BY <1>1, <1>3, <1>4, <1>5, <1>7, <1>8, <1>9, <1>10 DEF h, l, s

(* The shifts of the filter are below the number of bits of a word, and the  *)
(* last one divides by half a lane.                                          *)
LEMMA Shifts ==
  /\ WordBits \in Nat /\ WordBits > 3 /\ 2^1 = 2 /\ 2^2 = 4 /\ 2^3 = 8
  /\ WordBits \div 2 - 1 \in 0..(WordBits - 1) /\ 2^(WordBits \div 2 - 1) = LaneHalf
<1>1. WordBits \in Nat /\ 2^WordBits = 2 * WordHalf /\ 2 * WordHalf > 16
  BY Scales, WidthAssumption
<1>2. 2^0 = 1 /\ \A n \in 0..WordBits : 2^n \in Nat /\ 2^(n + 1) = 2 * 2^n
  BY PowersAssumption
<1>3. WordBits >= 1 /\ 2^1 = 2
  <2>1. WordBits # 0
    <3> SUFFICES ASSUME WordBits = 0 PROVE FALSE
      OBVIOUS
    <3>1. 2^WordBits = 1
      BY <1>2
    <3> QED BY <1>1, <3>1
  <2>2. 2^(0 + 1) = 2 * 2^0
    BY <1>1, <1>2
  <2>3. 0 + 1 = 1
    OBVIOUS
  <2>4. 2^1 = 2
    BY <1>2, <2>2, <2>3
  <2> QED BY <1>1, <2>1, <2>4
<1>4. WordBits >= 2 /\ 2^2 = 4
  <2>1. 2^(1 + 1) = 2 * 2^1
    BY <1>1, <1>2, <1>3
  <2>2. WordBits # 1
    <3> SUFFICES ASSUME WordBits = 1 PROVE FALSE
      OBVIOUS
    <3>1. 2^WordBits = 2
      BY <1>3
    <3> QED BY <1>1, <3>1
  <2> QED BY <1>1, <1>3, <2>1, <2>2
<1>5. WordBits >= 3 /\ 2^3 = 8
  <2>1. 2^(2 + 1) = 2 * 2^2
    BY <1>1, <1>2, <1>4
  <2>2. WordBits # 2
    <3> SUFFICES ASSUME WordBits = 2 PROVE FALSE
      OBVIOUS
    <3>1. 2^WordBits = 4
      BY <1>4
    <3> QED BY <1>1, <3>1
  <2> QED BY <1>1, <1>4, <2>1, <2>2
<1>6. WordBits # 3
  <2> SUFFICES ASSUME WordBits = 3 PROVE FALSE
    OBVIOUS
  <2>1. 2^WordBits = 8
    BY <1>5
  <2> QED BY <1>1, <2>1
<1> DEFINE n == WordBits \div 2 - 1
<1>7. n \in 0..(WordBits - 1) /\ n \in 0..WordBits /\ n + 1 = WordBits \div 2
  BY <1>1, <1>5, <1>6
<1> HIDE DEF n
<1>8. 2^(n + 1) = 2 * 2^n /\ 2^n \in Nat
  BY <1>2, <1>7
<1>9. 2^(WordBits \div 2) = 2 * LaneHalf
  BY LanesAssumption
<1>10. 2^n = LaneHalf
  BY <1>7, <1>8, <1>9, Scales
<1> QED BY <1>1, <1>3, <1>4, <1>5, <1>6, <1>7, <1>10 DEF n

(* An arithmetic shift right of a word rounds, and stays within the word.     *)
LEMMA ShiftRightRounds ==
  ASSUME NEW x \in (-WordHalf)..(WordHalf - 1), NEW n \in 0..(WordBits - 1)
  PROVE ShiftRight(x, n) = ShiftedValue(x, 2^n)
<1>1. WordBits \in Nat \ {0} /\ n % WordBits = n
  <2>1. WordBits \in Nat \ {0} /\ n \in 0..(WordBits - 1)
    BY Shifts
  <2> QED BY <2>1, ModSmall
<1> DEFINE w == Bits(x, WordHalf)
<1>2. Signed(shiftn_round(w, n), WordHalf) = ShiftedValue(x, 2^n)
  <2> w = Bits(x, WordHalf)
    OBVIOUS
  <2> HIDE DEF w
  <2> QED BY <1>1, ShiftIsRounding
<1> QED BY <1>2 DEF ShiftRight, aux_shiftn, AudioResult

(* A lane that is cut to 16 bits and back, and the low lane of a word.       *)
LEMMA Int16Same == ASSUME NEW x \in MinLane..MaxLane PROVE Int16(x) = x
<1> DEFINE l == LaneHalf
<1>1. l \in Nat \ {0} /\ x \in (-l)..(l - 1)
  BY Scales
<1> HIDE DEF l
<1>2. Signed(Bits(x, l), l) = x
  BY <1>1, SignedBits
<1> QED BY <1>2 DEF Int16, l

(* What a cast to 16 bits gives is a lane.                                   *)
LEMMA Int16Lane == ASSUME NEW x \in Int PROVE Int16(x) \in MinLane..MaxLane
<1> DEFINE l == LaneHalf
<1>1. l \in Nat \ {0} /\ MinLane = -l /\ MaxLane = l - 1
  BY Scales
<1> HIDE DEF l
<1>2. Bits(x, l) \in 0..(2 * l - 1)
  BY <1>1, BitsRange
<1>3. Signed(Bits(x, l), l) \in (-l)..(l - 1)
  BY <1>1, <1>2, SignedRange
<1> QED BY <1>1, <1>3 DEF Int16, l

(* The low lane of a word is its value cut to 16 bits.                       *)
LEMMA LowLane ==
  ASSUME NEW x \in Int
  PROVE Lo(Bits(x, WordHalf)) = Int16(x) /\ Int16(Bits(x, WordHalf)) = Int16(x)
<1> DEFINE l == LaneHalf  m == 2 * l  b == 2 * WordHalf  y == x % b  k == x \div b
<1>1. l \in Nat \ {0} /\ m \in Nat \ {0} /\ b \in Nat \ {0} /\ b = m * l * 2
  <2>1. b = 2 * (2 * (l * l)) /\ l \in Nat \ {0} /\ l * l \in Nat \ {0}
    BY Scales
  <2> QED BY <2>1
<1> HIDE DEF l, m, b
<1>2. y \in Int /\ k \in Int /\ x = b * k + y
  <2>1. b \in Nat \ {0}
    BY <1>1
  <2>2. y \in 0..(b - 1) /\ k \in Int /\ x = b * k + y
    BY <2>1, DivMod
  <2> QED BY <2>1, <2>2
<1> HIDE DEF y, k
<1> DEFINE c == 2 * (l * k)
<1>3. c \in Int /\ x = y + m * c
  BY <1>1, <1>2
<1> HIDE DEF c
<1>4. (y + m * c) % m = y % m
  BY <1>1, <1>2, <1>3, ModMul
<1>5. x % m = y % m
  BY <1>3, <1>4
<1>6. Bits(x, WordHalf) = y
  BY DEF Bits, y, b
<1> QED BY <1>5, <1>6 DEF Lo, Int16, Bits, m, l

(* The instructions of the filter on lanes: a clip, a sum of products and the *)
(* sum of squares, none of which reaches 2^31 here.                          *)
LEMMA ClipValue ==
  ASSUME NEW x \in MinLane..MaxLane, NEW limit \in 0..MaxLane
  PROVE /\ aux_clip16(pack16(x, 0), limit) = Pack(0, Nearest(x, -limit, limit))
        /\ Nearest(x, -limit, limit) \in (-limit)..limit
        /\ Lo(aux_clip16(pack16(x, 0), limit)) = Nearest(x, -limit, limit)
<1> DEFINE zero == 0  w == Pack(zero, x)  r == Bits(limit, LaneHalf)  y == Nearest(x, -limit, limit)
<1>1. LaneHalf \in Nat \ {0} /\ MinLane = -LaneHalf /\ MaxLane = LaneHalf - 1 /\ LaneHalf >= 8
  BY Scales
<1>2. zero \in MinLane..MaxLane /\ limit \in MinLane..MaxLane /\ limit # MinLane
  BY <1>1
<1>3. y \in (-limit)..limit /\ y \in MinLane..MaxLane
  BY <1>1 DEF Nearest
<1>4. Lo(r) = limit
  <2> DEFINE l == LaneHalf  m == 2 * l
  <2>1. l \in Nat \ {0} /\ m \in Nat \ {0} /\ limit \in 0..(m - 1) /\ limit \in 0..(l - 1) /\ m = 2 * l
    BY <1>1
  <2> HIDE DEF l, m
  <2>2. limit % m = limit
    BY <2>1, ModSmall
  <2>3. r = limit /\ r % (2 * LaneHalf) = limit
    BY <2>2 DEF Bits, m, l
  <2> QED BY <2>1, <2>3 DEF Lo, Signed, l
<1> HIDE DEF zero, w, r, y
<1>5. Lo(w) = x /\ Hi(w) = zero
  BY <1>2, PackSame DEF w
<1>6. clip16(x, limit) = Nearest(x, -Magnitude(limit), Magnitude(limit))
      /\ clip16(zero, limit) = Nearest(zero, -Magnitude(limit), Magnitude(limit))
  BY <1>2, Clipped
<1>7. Magnitude(limit) = limit
  BY <1>1 DEF Magnitude
<1>8. clip16(x, limit) = y /\ clip16(zero, limit) = zero
  BY <1>1, <1>2, <1>6, <1>7 DEF Nearest, y, zero
<1>9. aux_clip16(pack16(x, 0), limit) = Pack(clip16(Hi(w), Lo(r)), clip16(Lo(w), Lo(r)))
  BY DEF aux_clip16, AudioResult, clip16_lanes, pack16, w, r, zero
<1>10. aux_clip16(pack16(x, 0), limit) = Pack(zero, y)
  BY <1>4, <1>5, <1>8, <1>9
<1>11. Lo(Pack(zero, y)) = y
  BY <1>2, <1>3, PackSame
<1> QED BY <1>3, <1>10, <1>11 DEF zero, y

(* MAC16 and MSUB16 of lanes that are not all the least.                     *)
LEMMA MacValue ==
  ASSUME NEW a \in MinLane..MaxLane, NEW b \in MinLane..MaxLane,
         NEW c \in MinLane..MaxLane, NEW d \in MinLane..MaxLane, a # MinLane \/ d # MinLane
  PROVE /\ aux_mac16(pack16(a, b), pack16(c, d)) = Bits(a * c + b * d, WordHalf)
        /\ aux_msub16(pack16(a, b), pack16(c, d)) = Bits(a * c - b * d, WordHalf)
        /\ a * c + b * d \in (-WordHalf)..(WordHalf - 1) /\ a * c - b * d \in (-WordHalf)..(WordHalf - 1)
        /\ Signed(aux_mac16(pack16(a, b), pack16(c, d)), WordHalf) = a * c + b * d
        /\ Signed(aux_msub16(pack16(a, b), pack16(c, d)), WordHalf) = a * c - b * d
<1> DEFINE v == Pack(b, a)  w == Pack(d, c)
<1>1. Lo(v) = a /\ Hi(v) = b /\ Lo(w) = c /\ Hi(w) = d
  BY PackSame
<1>2. aux_mac16(pack16(a, b), pack16(c, d)) = mac16(v, w) /\ aux_msub16(pack16(a, b), pack16(c, d)) = msub16(v, w)
  BY DEF aux_mac16, aux_msub16, AudioResult, pack16
<1> HIDE DEF v, w
<1> DEFINE s == a * c + b * d  t == a * c - b * d
<1>3. mac16(v, w) = Bits(s, WordHalf) /\ msub16(v, w) = Bits(t, WordHalf)
  BY <1>1 DEF mac16, msub16
<1>4. s \in (-WordHalf)..WordHalf /\ t \in (-WordHalf)..(WordHalf - 1) /\ s # WordHalf
  BY ProductSums
<1> HIDE DEF s, t
<1>5. s \in (-WordHalf)..(WordHalf - 1)
  BY <1>4, Halves
<1>6. Signed(Bits(s, WordHalf), WordHalf) = s /\ Signed(Bits(t, WordHalf), WordHalf) = t
  BY <1>4, <1>5, WordValue
<1> QED BY <1>2, <1>3, <1>4, <1>5, <1>6 DEF s, t

(* The energy of a sample above the least.                                   *)
LEMMA EnergyValue ==
  ASSUME NEW x \in MinLane..MaxLane, x # MinLane
  PROVE /\ Signed(aux_abs2(pack16(x, 0)), WordHalf) = x * x
        /\ x * x \in 0..(LaneHalf * LaneHalf)
<1> DEFINE zero == 0
<1>1. zero \in MinLane..MaxLane /\ MinLane \in Int /\ MaxLane \in Int
  BY Scales
<1> HIDE DEF zero
<1>2. Signed(aux_mac16(pack16(x, zero), pack16(x, zero)), WordHalf) = x * x + zero * zero
  BY <1>1, MacValue
<1>3. aux_abs2(pack16(x, zero)) = aux_mac16(pack16(x, zero), pack16(x, zero))
  BY DEF aux_abs2, aux_mac16, AudioResult, abs2_complex, mac16
<1>4. x * x + zero * zero = x * x /\ x * x \in Int
  BY <1>1 DEF zero
<1>5. x * x \in 0..(LaneHalf * LaneHalf)
  <2> DEFINE l == LaneHalf  y == IF x < 0 THEN -x ELSE x
  <2>1. l \in Nat /\ y \in 0..l /\ y * y = x * x
    BY <1>1, Scales
  <2> HIDE DEF l, y
  <2>2. y * y \in 0..(l * l)
    <3>1. y * y >= 0 /\ y * y <= l * y /\ l * y <= l * l
      BY <2>1
    <3>2. y * y \in Int /\ l * y \in Int /\ l * l \in Int
      BY <2>1
    <3> QED BY <3>1, <3>2
  <2> QED BY <2>1, <2>2 DEF l
<1> QED BY <1>2, <1>3, <1>4, <1>5 DEF zero

(* The absolute value of a sample above the least.                           *)
LEMMA MagnitudeValue ==
  ASSUME NEW x \in MinLane..MaxLane, x # MinLane, NEW hi \in MinLane..MaxLane
  PROVE Lo(aux_abs16(Pack(hi, x))) = Magnitude(x)
<1>1. MinLane = -LaneHalf /\ MaxLane = LaneHalf - 1 /\ LaneHalf \in Nat
  BY Scales
<1> DEFINE w == Pack(hi, x)  u == abs16(hi)  v == abs16(x)
<1>2. Lo(w) = x /\ Hi(w) = hi
  BY PackSame
<1> HIDE DEF w
<1>3. aux_abs16(w) = Pack(u, v)
  BY <1>2 DEF aux_abs16, AudioResult, abs16_lanes
<1>4. u \in MinLane..MaxLane /\ v \in MinLane..MaxLane /\ v = Magnitude(x)
  BY <1>1 DEF abs16, Magnitude
<1> HIDE DEF u, v
<1>5. Lo(Pack(u, v)) = v
  BY <1>4, PackSame
<1> QED BY <1>3, <1>4, <1>5 DEF w

(* The level of a sample is a byte below the sign.                           *)
LEMMA LevelRange ==
  ASSUME NEW y \in 0..MaxLane
  PROVE (y \div (2 * ByteHalf)) % (2 * ByteHalf) = y \div (2 * ByteHalf)
        /\ y \div (2 * ByteHalf) \in 0..(ByteHalf - 1)
<1> DEFINE h == ByteHalf  m == 2 * h
<1>1. h \in Nat \ {0} /\ m \in Nat \ {0} /\ m = 2 * h /\ y \in Nat /\ y < m * h
  <2>1. MaxLane = 2 * (h * h) - 1 /\ h \in Nat \ {0}
    BY Scales
  <2>2. m * h = 2 * (h * h) /\ h * h \in Nat
    BY <2>1
  <2> QED BY <2>1, <2>2
<1> HIDE DEF h, m
<1>2. PICK q \in Int, r \in 0..(m - 1) : q = y \div m /\ y = m * q + r
  <2>1. m \in Nat \ {0} /\ y \in Int
    BY <1>1
  <2> QED BY <2>1, DivMod
<1>3. q >= 0
  <2> SUFFICES ASSUME q <= -1 PROVE FALSE
    BY <1>2
  <2>1. m * q <= -m
    BY <1>1
  <2> QED BY <1>1, <1>2, <2>1
<1>4. q < h
  <2> SUFFICES ASSUME q >= h PROVE FALSE
    BY <1>1, <1>2
  <2>1. m * q >= m * h
    BY <1>1
  <2> QED BY <1>1, <1>2, <2>1
<1>5. q \in 0..(h - 1) /\ q \in 0..(m - 1)
  BY <1>1, <1>3, <1>4
<1>6. q % m = q
  BY <1>1, <1>5, ModSmall
<1> QED BY <1>2, <1>5, <1>6 DEF m, h

(* A word put together of four bytes that are not negative, and its bytes.   *)
LEMMA PackedBytes ==
  ASSUME NEW e0 \in 0..(ByteHalf - 1), NEW e1 \in 0..(ByteHalf - 1),
         NEW e2 \in 0..(ByteHalf - 1), NEW e3 \in 0..(ByteHalf - 1),
         NEW w, w = e0 + e1 * 2 * ByteHalf + e2 * (2 * ByteHalf)^2 + e3 * (2 * ByteHalf)^3
  PROVE w \in Int /\ Byte(w, 0) = e0 /\ Byte(w, 1) = e1 /\ Byte(w, 2) = e2 /\ Byte(w, 3) = e3
<1> DEFINE h == ByteHalf  m == 2 * h  m2 == m * m  m3 == m * m2
           t2 == e2 + m * e3  t1 == e1 + m * t2  r1 == e0 + m * e1  r2 == r1 + m2 * e2
<1>1. h \in Nat \ {0} /\ m \in Nat \ {0} /\ m = 2 * h
  BY Scales
<1>2. m^0 = 1 /\ m^1 = m /\ m^2 = m2 /\ m^3 = m3
  <2>1. m^(1 + 1) = m * m^1 /\ m^(2 + 1) = m * m^2 /\ m^0 = 1 /\ m^1 = m
    BY BytePowers
  <2>2. 1 + 1 = 2 /\ 2 + 1 = 3
    OBVIOUS
  <2> QED BY <2>1, <2>2
<1>3. w = e0 + e1 * m + e2 * m^2 + e3 * m^3
  <2>1. e1 * 2 * ByteHalf = e1 * m
    BY <1>1
  <2> QED BY <2>1
<1>0. e0 \in 0..(h - 1) /\ e1 \in 0..(h - 1) /\ e2 \in 0..(h - 1) /\ e3 \in 0..(h - 1)
  OBVIOUS
<1>4. \A e \in 0..(h - 1) : e \in 0..(m - 1) /\ Signed(e, h) = e
  BY <1>1 DEF Signed
<1> HIDE DEF h, m
<1>5. w = e0 + e1 * m + e2 * m2 + e3 * m3
  BY <1>2, <1>3
<1>6. m2 \in Nat \ {0} /\ e0 \in Int /\ e1 \in Int /\ e2 \in Int /\ e3 \in Int
  BY <1>0, <1>1
<1>7. m3 \in Nat \ {0} /\ m2 = m * m
  <2> DEFINE p == m2
  <2>1. p \in Nat \ {0} /\ m2 = p
    BY <1>6
  <2> HIDE DEF p
  <2>2. m * p \in Nat \ {0}
    BY <1>1, <2>1
  <2> QED BY <2>1, <2>2
<1>8. t2 \in Int /\ t2 = m * e3 + e2
  BY <1>1, <1>6
<1>9. t1 \in Int /\ t1 = m * t2 + e1
  <2> HIDE DEF t2
  <2> QED BY <1>1, <1>6, <1>8
<1>10. w \in Int /\ w = m * t1 + e0
  <2> DEFINE p == m * m  a == p * e2  b == p * e3  c == m * e1
  <2>1. p \in Int /\ a \in Int /\ b \in Int /\ c \in Int /\ m * b \in Int
    BY <1>1, <1>6
  <2>2. e1 * m = c /\ e2 * m2 = a
    BY <1>1, <1>6
  <2>3. e3 * m3 = m * b
    BY <1>1, <1>6
  <2>4. m * t1 = c + m * (m * t2)
    <3> HIDE DEF t2
    <3> QED BY <1>1, <1>6, <1>8
  <2>5. m * (m * t2) = a + m * b
    BY <1>1, <1>6
  <2> HIDE DEF a, b, c, p, t1, t2, m3, m2
  <2> QED BY <1>5, <1>6, <2>1, <2>2, <2>3, <2>4, <2>5
<1>11. r1 \in 0..(m2 - 1) /\ r1 = m * e1 + e0
  <2>1. e1 \in 0..(m - 1) /\ e0 \in 0..(m - 1)
    BY <1>0, <1>4
  <2>2. m * e1 <= m * (m - 1) /\ m * (m - 1) = m * m - m /\ m * e1 >= 0 /\ m * e1 \in Int /\ m * m \in Int
    BY <1>1, <2>1
  <2> QED BY <1>1, <2>1, <2>2
<1>12. w = m2 * t2 + r1
  <2> HIDE DEF t2
  <2>1. m * t1 = m2 * t2 + m * e1
    BY <1>1, <1>6, <1>8
  <2>2. m2 * t2 \in Int /\ m * e1 \in Int
    BY <1>1, <1>6, <1>8
  <2> HIDE DEF m2, t1
  <2> QED BY <1>6, <1>10, <2>1, <2>2
<1>13. r2 \in 0..(m3 - 1) /\ r2 = m2 * e2 + r1
  <2> DEFINE p == m2
  <2>1. e2 \in 0..(m - 1) /\ p \in Nat \ {0} /\ p = m2 /\ r1 \in 0..(p - 1)
    BY <1>0, <1>4, <1>6, <1>11
  <2> HIDE DEF p, m2, r1
  <2>2. p * e2 <= p * (m - 1) /\ p * (m - 1) = m * p - p /\ p * e2 >= 0 /\ p * e2 \in Int /\ m * p \in Int
    BY <1>1, <2>1
  <2> QED BY <1>1, <2>1, <2>2
<1>14. w = m3 * e3 + r2
  <2> DEFINE p == m2
  <2>1. p \in Nat \ {0} /\ p = m2 /\ r1 \in Int
    BY <1>6, <1>11
  <2> HIDE DEF p, m2, r1
  <2>2. p * t2 = p * e2 + (m * p) * e3
    BY <1>1, <1>6, <2>1
  <2>3. p * e2 \in Int /\ (m * p) * e3 \in Int
    BY <1>1, <1>6, <2>1
  <2> HIDE DEF t2
  <2> QED BY <1>12, <2>1, <2>2, <2>3
<1> HIDE DEF m2, m3, t1, t2, r1, r2
<1>15. w \div 1 = w /\ w % m = e0 /\ w \div m = t1
  <2>1. e0 \in 0..(m - 1)
    BY <1>0, <1>4
  <2>2. m \in Nat \ {0} /\ t1 \in Int /\ w \in Int /\ w = m * t1 + e0
    BY <1>1, <1>9, <1>10
  <2>4. w % m = e0 /\ w \div m = t1
    BY <2>1, <2>2, DivModIs
  <2>3. w \div 1 = w
    BY <1>10
  <2> QED BY <2>3, <2>4
<1>16. t1 % m = e1
  <2>1. e1 \in 0..(m - 1)
    BY <1>0, <1>4
  <2>2. m \in Nat \ {0} /\ t1 \in Int /\ t2 \in Int /\ t1 = m * t2 + e1
    BY <1>1, <1>8, <1>9
  <2> QED BY <2>1, <2>2, DivModIs
<1>17. w \div m2 = t2
  <2>1. m2 \in Nat \ {0} /\ t2 \in Int /\ r1 \in 0..(m2 - 1) /\ w \in Int /\ w = m2 * t2 + r1
    BY <1>6, <1>8, <1>10, <1>11, <1>12
  <2> QED BY <2>1, DivModIs
<1>18. t2 % m = e2
  <2>1. e2 \in 0..(m - 1)
    BY <1>0, <1>4
  <2>2. m \in Nat \ {0} /\ e3 \in Int /\ t2 \in Int /\ t2 = m * e3 + e2
    BY <1>1, <1>6, <1>8
  <2> QED BY <2>1, <2>2, DivModIs
<1>19. w \div m3 = e3
  <2>1. m3 \in Nat \ {0} /\ e3 \in Int /\ r2 \in 0..(m3 - 1) /\ w \in Int /\ w = m3 * e3 + r2
    BY <1>6, <1>7, <1>10, <1>13, <1>14
  <2> QED BY <2>1, DivModIs
<1>20. e3 % m = e3
  <2>1. e3 \in 0..(m - 1)
    BY <1>0, <1>4
  <2> QED BY <1>1, <2>1, ModSmall
<1>21. \A k : Byte(w, k) = Signed((w \div m^k) % m, h)
  BY DEF Byte, m, h
<1>22. Byte(w, 0) = Signed(e0, h) /\ Byte(w, 1) = Signed(e1, h) /\ Byte(w, 2) = Signed(e2, h) /\ Byte(w, 3) = Signed(e3, h)
  BY <1>2, <1>15, <1>16, <1>17, <1>18, <1>19, <1>20, <1>21
<1> QED BY <1>0, <1>4, <1>10, <1>22

(* The names of the promise are the ones of the filter.                      *)
LEMMA SameNames ==
  /\ Gated!LaneHalf = LaneHalf /\ Gated!WordHalf = WordHalf
  /\ Gated!MinLane = MinLane /\ Gated!MaxLane = MaxLane /\ Gated!Limit = clip_limit
  /\ \A x : Gated!Lo(Gated!Bits(x, Gated!WordHalf)) = Lo(Bits(x, WordHalf))
  /\ \A x, lowest, highest : Gated!Within(x, lowest, highest) = Nearest(x, lowest, highest)
  /\ \A x : Gated!Level(x) = Magnitude(x) \div (2 * ByteHalf)
<1>1. Gated!LaneHalf = LaneHalf
  BY DEF Gated!LaneHalf, LaneHalf
<1>2. Gated!WordHalf = WordHalf
  BY <1>1 DEF Gated!WordHalf, WordHalf
<1>3. Gated!MinLane = MinLane /\ Gated!MaxLane = MaxLane /\ Gated!Limit = clip_limit
  BY <1>1 DEF Gated!MinLane, Gated!MaxLane, Gated!Limit, MinLane, MaxLane, clip_limit
<1>4. \A x : Gated!Lo(Gated!Bits(x, Gated!WordHalf)) = Lo(Bits(x, WordHalf))
  BY <1>1, <1>2 DEF Gated!Lo, Gated!Bits, Gated!Signed, Lo, Bits, Signed
<1>5. \A x, lowest, highest : Gated!Within(x, lowest, highest) = Nearest(x, lowest, highest)
  BY DEF Gated!Within, Nearest
<1>6. \A x : Gated!Level(x) = Magnitude(x) \div (2 * ByteHalf)
  BY DEF Gated!Level, Magnitude
<1> QED BY <1>1, <1>2, <1>3, <1>4, <1>5, <1>6

(* The rounding of the promise is the one of SHIFTN.                         *)
LEMMA SameRounding ==
  ASSUME NEW x \in Int, NEW unit \in Nat \ {0}
  PROVE Gated!Rounded(x, unit) = ShiftedValue(x, unit)
<1>1. CASE x >= 0
  BY <1>1 DEF Gated!Rounded, ShiftedValue, RoundedUp
<1>2. CASE ~(x >= 0)
  <2>1. unit - 2 * x = 2 * (-x) + unit
    OBVIOUS
  <2> QED BY <1>2, <2>1 DEF Gated!Rounded, ShiftedValue, RoundedUp
<1> QED BY <1>1, <1>2

(* Rounding never leads away from zero.                                      *)
LEMMA ShiftedWithin ==
  ASSUME NEW x \in Int, NEW unit \in Nat \ {0}
  PROVE /\ ShiftedValue(x, unit) \in Int
        /\ x >= 0 => ShiftedValue(x, unit) \in 0..x
        /\ x < 0 => ShiftedValue(x, unit) \in x..0
<1>1. CASE x >= 0
  BY <1>1, RoundedBelow DEF ShiftedValue
<1>2. CASE ~(x >= 0)
  <2> DEFINE y == -x
  <2>1. y \in Nat /\ y = -x
    BY <1>2
  <2> HIDE DEF y
  <2>2. RoundedUp(y, unit) \in 0..y
    BY <2>1, RoundedBelow
  <2> QED BY <1>2, <2>1, <2>2 DEF ShiftedValue
<1> QED BY <1>1, <1>2

-----------------------------------------------------------------------------
(* The state of the filter that lasts from sample to sample.                 *)
GateType ==
  /\ env_hist \in [0..3 -> 0..(ByteHalf - 1)] /\ env_idx \in 0..3
  /\ noise_energy_est \in 0..(LaneHalf * LaneHalf)
  /\ prev_x \in MinLane..MaxLane /\ prev_x # MinLane

(* The sample at hand, within the limit, and its energy.                     *)
LEMMA SampleValue ==
  ASSUME samples[i + 1] \in MinLane..MaxLane
  PROVE /\ x_clip_pack = Pack(0, x_clipped) /\ x_clipped = Gated!Limited(samples[i + 1])
        /\ x_clipped \in MinLane..MaxLane /\ x_clipped # MinLane
        /\ energy = x_clipped * x_clipped /\ energy \in 0..(LaneHalf * LaneHalf)
        /\ abs_x = Magnitude(x_clipped) /\ abs_x \in 0..MaxLane
<1> DEFINE s == samples[i + 1]  x == Nearest(s, -clip_limit, clip_limit)
<1>1. s \in MinLane..MaxLane /\ clip_limit \in 0..MaxLane /\ MinLane = -LaneHalf /\ MaxLane = LaneHalf - 1
      /\ LaneHalf \in Nat /\ LaneHalf >= 8
  BY Scales
<1>2. x_clip_pack = Pack(0, x) /\ x \in (-clip_limit)..clip_limit /\ x_clipped = x
  BY <1>1, ClipValue DEF x_clip_pack, x_clipped
<1>3. x_clipped = Gated!Limited(samples[i + 1])
  BY <1>2, SameNames DEF Gated!Limited
<1> HIDE DEF x, s
<1>4. x \in MinLane..MaxLane /\ x # MinLane /\ 0 \in MinLane..MaxLane
  BY <1>1, <1>2
<1>5. energy = x * x /\ x * x \in 0..(LaneHalf * LaneHalf)
  BY <1>2, <1>4, EnergyValue DEF energy
<1>6. abs_x = Magnitude(x)
  BY <1>2, <1>4, MagnitudeValue DEF abs_x
<1>7. Magnitude(x) \in 0..MaxLane
  BY <1>1, <1>4 DEF Magnitude
<1> QED BY <1>2, <1>3, <1>4, <1>5, <1>6, <1>7

(* The estimate of the noise moves without overflow.                         *)
LEMMA NoiseValue ==
  ASSUME GateType, NEW e \in 0..(LaneHalf * LaneHalf), energy = e
  PROVE new_noise = Gated!MovedFloor(e) /\ new_noise \in 0..(LaneHalf * LaneHalf)
<1> DEFINE n == noise_energy_est  top == LaneHalf * LaneHalf  d == e - n  unit == 2^NoiseShift
           v == ShiftedValue(d, unit)
<1>1. n \in 0..top /\ top \in Nat /\ WordHalf = 2 * top /\ max_energy = top /\ e \in 0..top
  BY Scales DEF GateType
<1>2. NoiseShift \in 0..(WordBits - 1)
  BY ShiftAssumption, Shifts
<1>3. unit \in Nat \ {0}
  BY <1>2, Powers
<1> HIDE DEF n, top, unit, d
<1>4. d \in Int /\ d = e - n /\ d \in (-WordHalf)..(WordHalf - 1)
  <2>1. top >= 1
    BY Scales DEF top
  <2> QED BY <1>1, <2>1 DEF d
<1>5. ShiftRight(d, NoiseShift) = v
  BY <1>2, <1>4, ShiftRightRounds DEF unit
<1>6. v \in Int /\ (d >= 0 => v \in 0..d) /\ (d < 0 => v \in d..0)
  BY <1>3, <1>4, ShiftedWithin
<1> HIDE DEF v
<1>7. n + v \in 0..top /\ n + v \in (-WordHalf)..(WordHalf - 1)
  <2>1. top >= 1
    BY Scales DEF top
  <2>2. n + v \in 0..top
    BY <1>1, <1>4, <1>6
  <2> QED BY <1>1, <2>1, <2>2
<1>8. Int32(n + v) = n + v
  BY <1>7, WordValue
<1>9. energy - noise_energy_est = d
  BY DEF d, n
<1>10. new_noise = n + v
  BY <1>1, <1>5, <1>7, <1>8, <1>9 DEF new_noise, n
<1>11. Gated!Rounded(d, unit) = v
  BY <1>3, <1>4, SameRounding DEF v
<1>12. Gated!MovedFloor(e) = Nearest(n + v, 0, WordHalf \div 2)
  BY <1>11, SameNames DEF Gated!MovedFloor, d, unit, n
<1>13. Nearest(n + v, 0, WordHalf \div 2) = n + v
  <2>1. WordHalf \div 2 = top
    BY <1>1
  <2> QED BY <1>1, <1>7, <2>1 DEF Nearest
<1> QED BY <1>7, <1>10, <1>12, <1>13 DEF top

(* The mean of the four levels, which CONV4 and CONV8 add.                    *)
LEMMA MeanValue ==
  ASSUME NEW e \in [0..3 -> 0..(ByteHalf - 1)], new_env = e
  PROVE  /\ e[0] + e[1] + e[2] + e[3] \in Nat
         /\ env_avg = ShiftedValue(e[0] + e[1] + e[2] + e[3], 4)
         /\ env_avg \in 0..(ByteHalf - 1)
<1> DEFINE e0 == e[0]  e1 == e[1]  e2 == e[2]  e3 == e[3]  s == e0 + e1 + e2 + e3
           w == e0 + e1 * 2 * ByteHalf + e2 * (2 * ByteHalf)^2 + e3 * (2 * ByteHalf)^3
           env_sum == Int32(aux_conv4(w, h_conv) + aux_conv8(w, h_conv))
           mean == ShiftRight(env_sum, 3)
<1>1. e0 \in 0..(ByteHalf - 1) /\ e1 \in 0..(ByteHalf - 1) /\ e2 \in 0..(ByteHalf - 1) /\ e3 \in 0..(ByteHalf - 1)
  OBVIOUS
<1>2. env_avg = IF mean < 0 THEN 0 ELSE mean
  BY DEF env_avg
<1>3. aux_conv4(w, h_conv) = conv4_8bit(w, h_conv) /\ aux_conv8(w, h_conv) = conv4_8bit(w, h_conv)
  BY DEF aux_conv4, aux_conv8, AudioResult
<1> HIDE DEF e0, e1, e2, e3, w
<1>4. Byte(w, 0) = e0 /\ Byte(w, 1) = e1 /\ Byte(w, 2) = e2 /\ Byte(w, 3) = e3
  <2> w = e0 + e1 * 2 * ByteHalf + e2 * (2 * ByteHalf)^2 + e3 * (2 * ByteHalf)^3
    BY DEF w
  <2> QED BY <1>1, PackedBytes
<1>5. Byte(h_conv, 0) = 1 /\ Byte(h_conv, 1) = 1 /\ Byte(h_conv, 2) = 1 /\ Byte(h_conv, 3) = 1
  <2> DEFINE one == 1  h == one + one * 2 * ByteHalf + one * (2 * ByteHalf)^2 + one * (2 * ByteHalf)^3
  <2>1. one \in 0..(ByteHalf - 1)
    BY Scales
  <2>2. h_conv = h
    <3>1. (2 * ByteHalf)^2 \in Nat /\ (2 * ByteHalf)^3 \in Nat /\ ByteHalf \in Nat
      BY BytePowers, Scales
    <3> DEFINE p == (2 * ByteHalf)^2  q == (2 * ByteHalf)^3
    <3>2. p \in Nat /\ q \in Nat
      BY <3>1
    <3>3. h_conv = 1 + 2 * ByteHalf + p + q /\ h = one + one * 2 * ByteHalf + one * p + one * q
      BY DEF h_conv
    <3> HIDE DEF p, q, h
    <3> QED BY <3>1, <3>2, <3>3
  <2> HIDE DEF one
  <2>3. Byte(h, 0) = one /\ Byte(h, 1) = one /\ Byte(h, 2) = one /\ Byte(h, 3) = one
    BY <2>1, PackedBytes
  <2> QED BY <2>2, <2>3 DEF one
<1>6. conv4_8bit(w, h_conv) = Bits(s, WordHalf)
  <2>1. e0 * 1 = e0 /\ e1 * 1 = e1 /\ e2 * 1 = e2 /\ e3 * 1 = e3
    BY <1>1
  <2>2. conv4_8bit(w, h_conv) = Bits(e0 * 1 + e1 * 1 + e2 * 1 + e3 * 1, WordHalf)
    BY <1>4, <1>5 DEF conv4_8bit
  <2> QED BY <2>1, <2>2
<1>7. ByteHalf \in Nat /\ s \in 0..(4 * (ByteHalf - 1)) /\ WordHalf \in Nat /\ WordHalf > 8 * ByteHalf
  <2>1. ByteHalf \in Nat /\ ByteHalf >= 2 /\ WordHalf \in Nat /\ WordHalf > 8 * ByteHalf
    <3> DEFINE top == LaneHalf * LaneHalf
    <3>1. ByteHalf \in Nat /\ ByteHalf >= 2 /\ WordHalf = 2 * top /\ top \in Nat /\ top >= 8 * LaneHalf
          /\ LaneHalf >= 2 * ByteHalf /\ LaneHalf \in Nat
      BY Scales, Halves
    <3> HIDE DEF top
    <3> QED BY <3>1
  <2> QED BY <1>1, <2>1
<1> HIDE DEF s
<1>8. s \in 0..(2 * WordHalf - 1) /\ WordHalf \in Nat \ {0}
  BY <1>7
<1>9. Bits(s, WordHalf) = s
  BY <1>8, BitsSame
<1> DEFINE t == s + s
<1>10. t \in (-WordHalf)..(WordHalf - 1) /\ t = 2 * s /\ t >= 0
  BY <1>7
<1> HIDE DEF t
<1>11. env_sum = t
  <2>1. Int32(t) = t
    BY <1>10, WordValue
  <2> QED BY <1>3, <1>6, <1>9, <2>1 DEF t
<1>12. mean = ShiftedValue(t, 8)
  <2> DEFINE three == 3
  <2>1. three \in 0..(WordBits - 1) /\ 2^three = 8
    BY Shifts
  <2> HIDE DEF three
  <2>2. ShiftRight(t, three) = ShiftedValue(t, 2^three)
    BY <1>10, <2>1, ShiftRightRounds
  <2> HIDE DEF env_sum
  <2> QED BY <1>11, <2>1, <2>2 DEF three
<1> HIDE DEF mean
<1>13. ShiftedValue(t, 8) = (2 * t + 8) \div 16 /\ ShiftedValue(s, 4) = (2 * s + 4) \div 8
  BY <1>7, <1>10 DEF ShiftedValue, RoundedUp
<1>14. (2 * t + 8) \div 16 = (2 * s + 4) \div 8 /\ (2 * s + 4) \div 8 \in 0..(ByteHalf - 1)
  BY <1>7, <1>10
<1>15. env_avg = ShiftedValue(s, 4) /\ env_avg \in 0..(ByteHalf - 1) /\ s \in Nat
  BY <1>2, <1>7, <1>12, <1>13, <1>14
<1> QED BY <1>15 DEF s, e0, e1, e2, e3

(* The thresholds wrap only when the energy is below the first of them, so    *)
(* the gain is the one that exact thresholds choose.                         *)
LEMMA GainValue ==
  ASSUME NEW n \in 0..(LaneHalf * LaneHalf), NEW e \in 0..(LaneHalf * LaneHalf), energy = e
  PROVE GatedGain(n) = Gated!Gain(e, n) /\ GatedGain(n) \in {0, quarter, 3 * quarter, MaxLane}
<1> DEFINE top == LaneHalf * LaneHalf
<1>1. top \in Nat \ {0} /\ n \in 0..top /\ e \in 0..top /\ WordHalf = 2 * top /\ WordHalf \in Nat \ {0}
  BY Scales, Halves
<1> HIDE DEF top
<1>2. ASSUME NEW k, NEW p \in Nat, n * 2^k = p, p \in 0..(2 * WordHalf - 1), p >= n PROVE Threshold(n, k) = p
  <2>1. Bits(p, WordHalf) = p
    BY <1>1, <1>2, BitsSame
  <2> QED BY <1>1, <1>2, <2>1 DEF Threshold
<1>3. Threshold(n, 1) = 2 * n
  <2> DEFINE one == 1  p == 2 * n
  <2>1. p \in Nat /\ p = n * 2 /\ p \in 0..(2 * WordHalf - 1) /\ p >= n
    BY <1>1
  <2>2. 2^one = 2
    BY Shifts
  <2> HIDE DEF one, p
  <2>3. Threshold(n, one) = p
    BY <1>2, <2>1, <2>2
  <2> QED BY <2>3 DEF one, p
<1>4. ASSUME 2 * n < e PROVE Threshold(n, 2) = 4 * n /\ Threshold(n, 3) = 8 * n
  <2> DEFINE two == 2  three == 3  p == 4 * n  q == 8 * n
  <2>1. p \in Nat /\ p = n * 4 /\ p \in 0..(2 * WordHalf - 1) /\ p >= n
    BY <1>1, <1>4
  <2>2. q \in Nat /\ q = n * 8 /\ q \in 0..(2 * WordHalf - 1) /\ q >= n
    BY <1>1, <1>4
  <2>3. 2^two = 4 /\ 2^three = 8
    BY Shifts
  <2> HIDE DEF two, three, p, q
  <2>4. Threshold(n, two) = p
    BY <1>2, <2>1, <2>3
  <2>5. Threshold(n, three) = q
    BY <1>2, <2>2, <2>3
  <2> QED BY <2>4, <2>5 DEF two, three, p, q
<1>5. /\ Gated!Gain(e, n) = IF e <= 2 * n THEN 0 ELSE IF e <= 4 * n THEN quarter
                              ELSE IF e <= 8 * n THEN 3 * quarter ELSE MaxLane
  BY SameNames DEF Gated!Gain, quarter
<1>6. GatedGain(n) = IF e <= Threshold(n, 1) THEN 0 ELSE IF e <= Threshold(n, 2) THEN quarter
                       ELSE IF e <= Threshold(n, 3) THEN 3 * quarter ELSE MaxLane
  BY DEF GatedGain
<1>7. CASE e <= 2 * n
  BY <1>3, <1>5, <1>6, <1>7
<1>8. CASE ~(e <= 2 * n)
  <2>1. Threshold(n, 2) = 4 * n /\ Threshold(n, 3) = 8 * n
    BY <1>1, <1>4, <1>8
  <2> QED BY <1>3, <1>5, <1>6, <1>8, <2>1
<1> QED BY <1>7, <1>8

(* The mean level is too small for the compression.                          *)
LEMMA NoCompression ==
  ASSUME env_avg \in 0..(ByteHalf - 1)
  PROVE gain_q15 = GatedGain(new_noise)
<1>1. ByteHalf \in Nat /\ ByteHalf <= (200 * ByteHalf) \div 128
  BY Scales
<1>2. ~(env_avg > (200 * ByteHalf) \div 128)
  BY <1>1
<1> QED BY <1>2 DEF gain_q15

(* The high-passed sample and the sum are exact; their mix is the weighted    *)
(* sum of what a lane keeps of them, saturated.                              *)
LEMMA MixValue ==
  ASSUME NEW x \in MinLane..MaxLane, x # MinLane, x_clipped = x,
         NEW p \in MinLane..MaxLane, p # MinLane, prev_x = p
  PROVE  mixed = Gated!Mix(x, p) /\ mixed \in MinLane..MaxLane
<1> DEFINE one == 1  minus == -1  a == x - p  b == x + p  ha == Int16(a)  hb == Int16(b)
           u == 3 * quarter  v == -quarter
<1>1. LaneHalf \in Nat /\ LaneHalf >= 8 /\ MinLane = -LaneHalf /\ MaxLane = LaneHalf - 1
      /\ quarter \in Nat /\ 3 * quarter < LaneHalf
  BY Scales
<1>2. a \in Int /\ b \in Int /\ one \in MinLane..MaxLane /\ minus \in MinLane..MaxLane /\ minus # MinLane
      /\ u \in MinLane..MaxLane /\ v \in MinLane..MaxLane /\ v # MinLane
  BY <1>1
<1>3. hp_out = a /\ sum_dc = b
  <2>1. x * one + p * minus = a /\ x * one - p * minus = b
    BY <1>1
  <2> HIDE DEF a, b, one, minus
  <2>2. Signed(aux_mac16(pack16(x, p), pack16(one, minus)), WordHalf) = x * one + p * minus
        /\ Signed(aux_msub16(pack16(x, p), pack16(one, minus)), WordHalf) = x * one - p * minus
    BY <1>2, MacValue
  <2> QED BY <2>1, <2>2 DEF hp_out, sum_dc, hp_x_pack, one, minus
<1>4. ha \in MinLane..MaxLane /\ hb \in MinLane..MaxLane
  BY <1>2, Int16Lane
<1> DEFINE w == pack16(ha, hb)  z == pack16(u, v)
           re == ha * u - hb * v  im == ha * v + hb * u
<1>5. mixed = Lo(cmac_complex(w, z))
  BY <1>3 DEF mixed, aux_cmac, AudioResult
<1> HIDE DEF a, b, ha, hb, u, v
<1>6. Lo(w) = ha /\ Hi(w) = hb /\ Lo(z) = u /\ Hi(z) = v
  BY <1>2, <1>4, PackSame DEF pack16
<1> HIDE DEF w, z
<1> DEFINE R == Int32(re)  I == Int32(im)
<1>7. cmac_complex(w, z) = Pack(sat16_from32(I), sat16_from32(R))
  BY <1>6 DEF cmac_complex
<1>8. re \in (-WordHalf)..(WordHalf - 1) /\ im \in Int
  <2>1. re \in (-WordHalf)..(WordHalf - 1)
    BY <1>2, <1>4, ProductSums
  <2>2. ha \in Int /\ hb \in Int /\ u \in Int /\ v \in Int
    BY <1>1, <1>2, <1>4
  <2> QED BY <2>1, <2>2
<1> HIDE DEF re, im
<1>9. R = re
  BY <1>8, WordValue
<1>10. I \in Int
  <2> DEFINE h == WordHalf
  <2>1. h \in Nat \ {0}
    BY Halves
  <2> HIDE DEF h
  <2>2. Bits(im, h) \in 0..(2 * h - 1)
    BY <1>8, <2>1, BitsRange
  <2>3. Signed(Bits(im, h), h) \in Int
    BY <2>1, <2>2 DEF Signed
  <2> QED BY <2>3 DEF Int32, h
<1> HIDE DEF R, I
<1> DEFINE f == sat16_from32(R)  g == sat16_from32(I)
<1>11. f \in MinLane..MaxLane /\ g \in MinLane..MaxLane /\ f = Nearest(re, MinLane, MaxLane)
  <2>1. re \in Int
    BY <1>8, Halves
  <2> QED BY <1>1, <1>9, <1>10, <2>1 DEF sat16_from32, Nearest
<1> HIDE DEF f, g
<1>12. Lo(Pack(g, f)) = f
  BY <1>11, PackSame
<1>13. mixed = f
  BY <1>5, <1>7, <1>12 DEF f, g
<1>14. Gated!Mix(x, p) = Nearest(3 * quarter * ha + quarter * hb, MinLane, MaxLane)
  <2>1. Lo(Bits(a, WordHalf)) = ha /\ Lo(Bits(b, WordHalf)) = hb
    BY <1>2, LowLane DEF ha, hb
  <2>2. Gated!LaneHalf \div 4 = quarter
    BY SameNames DEF quarter
  <2> QED BY <2>1, <2>2, SameNames DEF Gated!Mix, a, b
<1>15. 3 * quarter * ha + quarter * hb = re
  <2> DEFINE q == quarter
  <2>1. q \in Int /\ ha \in Int /\ hb \in Int /\ u = 3 * q /\ v = -q
    BY <1>1, <1>4 DEF u, v
  <2> HIDE DEF q
  <2>2. re = ha * (3 * q) - hb * (-q)
    BY <2>1 DEF re
  <2>3. 3 * q * ha + q * hb = ha * (3 * q) - hb * (-q)
    BY <2>1
  <2> QED BY <2>2, <2>3 DEF q
<1> QED BY <1>11, <1>13, <1>14, <1>15

(* The sample scaled by its gain and rounded fits a lane: the last clip and   *)
(* the casts change nothing.                                                 *)
LEMMA ScaledSample ==
  ASSUME NEW m \in MinLane..MaxLane, mixed = m, NEW g \in 0..MaxLane
  PROVE  y_clip(g) = Gated!Rounded(m * g, LaneHalf)
<1> DEFINE zero == 0  l == LaneHalf  x == m * g  n == WordBits \div 2 - 1  v == ShiftedValue(x, l)
           scaled == aux_mac16(pack16(m, zero), pack16(g, zero))  word == shiftn_round(scaled, n)
<1>1. l \in Nat \ {0} /\ l >= 8 /\ MinLane = -l /\ MaxLane = l - 1 /\ WordHalf \in Nat \ {0}
  BY Scales, Halves
<1>2. zero \in MinLane..MaxLane /\ zero # MinLane /\ g \in MinLane..MaxLane
  BY <1>1
<1>3. n \in 0..(WordBits - 1) /\ 2^n = l /\ WordBits \in Nat \ {0}
  BY Shifts
<1>4. m * g + zero * zero = x /\ x \in Int
  BY <1>1
<1> HIDE DEF zero, l, n, x, scaled
<1>5. scaled = Bits(m * g + zero * zero, WordHalf) /\ m * g + zero * zero \in (-WordHalf)..(WordHalf - 1)
  BY <1>2, MacValue DEF scaled
<1>6. scaled = Bits(x, WordHalf) /\ x \in (-WordHalf)..(WordHalf - 1)
  BY <1>4, <1>5
<1>7. n % WordBits = n
  BY <1>3, ModSmall
<1>8. word = Bits(v, WordHalf)
  BY <1>3, <1>6, <1>7, ShiftIsRounding
<1>9. v \in (-MaxLane)..MaxLane
  <2> DEFINE y == IF x >= 0 THEN x ELSE -x  r == RoundedUp(y, l)
  <2>1. y \in Nat /\ v = IF x >= 0 THEN r ELSE -r
    BY <1>4 DEF ShiftedValue
  <2>2. y <= l * (l - 1)
    <3>1. x = m * g /\ m \in (-l)..(l - 1) /\ g \in 0..(l - 1)
      BY <1>1 DEF x
    <3>2. ASSUME NEW a \in 0..l PROVE a * g <= l * (l - 1)
      <4>1. a * g <= l * g /\ l * g <= l * (l - 1) /\ a * g \in Int /\ l * g \in Int /\ l * (l - 1) \in Int
        BY <1>1, <3>1
      <4> QED BY <4>1
    <3>3. (-m) * g = -(m * g)
      BY <3>1, <1>1
    <3>4. CASE m >= 0
      <4>1. m * g <= l * (l - 1)
        BY <3>1, <3>2, <3>4, <1>1
      <4>2. m * g >= 0
        BY <3>1, <3>4, <1>1
      <4> QED BY <3>1, <4>1, <4>2
    <3>5. CASE m < 0
      <4>1. (-m) * g <= l * (l - 1)
        BY <3>1, <3>2, <3>5, <1>1
      <4>2. (-m) * g >= 0
        BY <3>1, <3>5, <1>1
      <4>3. x = -((-m) * g) /\ (-m) * g \in Int
        BY <3>1, <3>3, <1>1
      <4> HIDE DEF y
      <4>4. y = IF x >= 0 THEN x ELSE -x
        BY DEF y
      <4> QED BY <4>1, <4>2, <4>3, <4>4
    <3> QED BY <3>1, <3>4, <3>5, <1>1
  <2> HIDE DEF y
  <2>3. PICK q \in Nat, t \in 0..(2 * l - 1) : q = r /\ 2 * y + l = 2 * (l * q) + t
    BY ZenonT(30), <1>1, <2>1, RoundedFacts
  <2>4. q <= l - 1
    <3> SUFFICES ASSUME q >= l PROVE FALSE
      BY <1>1
    <3>1. l * q >= l * l /\ l * (l - 1) = l * l - l /\ l * q \in Int /\ l * l \in Int
      BY <1>1
    <3> QED BY <1>1, <2>1, <2>2, <2>3, <3>1
  <2> QED BY <1>1, <2>1, <2>3, <2>4
<1>10. v \in Int /\ v \in MinLane..MaxLane
  BY <1>1, <1>9
<1> HIDE DEF v, word
<1>11. Int16(word) = v
  <2>1. Int16(Bits(v, WordHalf)) = Int16(v)
    BY <1>10, LowLane
  <2>2. Int16(v) = v
    BY <1>10, Int16Same
  <2> QED BY <1>8, <2>1, <2>2
<1>12. MaxLane \in 0..MaxLane
  BY <1>1
<1>13. Lo(aux_clip16(pack16(v, 0), MaxLane)) = Nearest(v, -MaxLane, MaxLane)
  <2> DEFINE limit == MaxLane
  <2>1. limit \in 0..MaxLane
    BY <1>12
  <2> HIDE DEF limit
  <2>2. Lo(aux_clip16(pack16(v, 0), limit)) = Nearest(v, -limit, limit)
    BY <1>10, <2>1, ClipValue
  <2> QED BY <2>2 DEF limit
<1>14. Nearest(v, -MaxLane, MaxLane) = v
  BY <1>1, <1>9 DEF Nearest
<1>15. y_clip(g) = Lo(aux_clip16(pack16(Int16(word), 0), MaxLane))
  BY DEF y_clip, aux_shiftn, AudioResult, word, scaled, n, zero
<1>16. Gated!Rounded(x, l) = v
  BY <1>1, <1>4, SameRounding DEF v
<1> QED BY <1>11, <1>13, <1>14, <1>15, <1>16 DEF x, l

-----------------------------------------------------------------------------
(* The ring of levels as the list of the last four, the newest first.        *)
Ring(e, k) == <<e[(k + 3) % 4], e[(k + 2) % 4], e[(k + 1) % 4], e[k]>>

(* The ring with a new level is the list with it in front.                   *)
LEMMA RingMoves ==
  ASSUME NEW f, env_idx \in 0..3, \A n \in 0..3 : n # env_idx => f[n] = env_hist[n]
  PROVE  /\ Ring(f, (env_idx + 1) % 4)
              = <<f[env_idx], Ring(env_hist, env_idx)[1], Ring(env_hist, env_idx)[2], Ring(env_hist, env_idx)[3]>>
         /\ (env_idx + 1) % 4 \in 0..3
<1> DEFINE e == env_hist  k == env_idx  j == (k + 1) % 4
<1>1. k = 0 \/ k = 1 \/ k = 2 \/ k = 3
  OBVIOUS
<1>2. \A n \in 0..3 : n # k => f[n] = e[n]
  OBVIOUS
<1>3. CASE k = 0
  <2>1. j = 1 /\ (j + 3) % 4 = 0 /\ (j + 2) % 4 = 3 /\ (j + 1) % 4 = 2
        /\ (k + 3) % 4 = 3 /\ (k + 2) % 4 = 2 /\ (k + 1) % 4 = 1
    BY <1>3
  <2> QED BY <1>2, <1>3, <2>1 DEF Ring
<1>4. CASE k = 1
  <2>1. j = 2 /\ (j + 3) % 4 = 1 /\ (j + 2) % 4 = 0 /\ (j + 1) % 4 = 3
        /\ (k + 3) % 4 = 0 /\ (k + 2) % 4 = 3 /\ (k + 1) % 4 = 2
    BY <1>4
  <2> QED BY <1>2, <1>4, <2>1 DEF Ring
<1>5. CASE k = 2
  <2>1. j = 3 /\ (j + 3) % 4 = 2 /\ (j + 2) % 4 = 1 /\ (j + 1) % 4 = 0
        /\ (k + 3) % 4 = 1 /\ (k + 2) % 4 = 0 /\ (k + 1) % 4 = 3
    BY <1>5
  <2> QED BY <1>2, <1>5, <2>1 DEF Ring
<1>6. CASE k = 3
  <2>1. j = 0 /\ (j + 3) % 4 = 3 /\ (j + 2) % 4 = 2 /\ (j + 1) % 4 = 1
        /\ (k + 3) % 4 = 2 /\ (k + 2) % 4 = 1 /\ (k + 1) % 4 = 0
    BY <1>6
  <2> QED BY <1>2, <1>6, <2>1 DEF Ring
<1> QED BY <1>1, <1>3, <1>4, <1>5, <1>6

(* A list of levels and the ring it comes from have the same mean.           *)
LEMMA RingMean ==
  ASSUME NEW e \in [0..3 -> 0..(ByteHalf - 1)], NEW k \in 0..3, new_env = e
  PROVE  Gated!MeanLevel(Ring(e, k)) = env_avg
<1> DEFINE e0 == e[0]  e1 == e[1]  e2 == e[2]  e3 == e[3]  l == Ring(e, k)
<1>1. ByteHalf \in Nat
  BY Scales
<1>2. e0 \in Nat /\ e1 \in Nat /\ e2 \in Nat /\ e3 \in Nat
  BY <1>1
<1>3. k = 0 \/ k = 1 \/ k = 2 \/ k = 3
  OBVIOUS
<1>4. l[1] + l[2] + l[3] + l[4] = e0 + e1 + e2 + e3
  <2>1. CASE k = 0
    <3>1. l[1] = e3 /\ l[2] = e2 /\ l[3] = e1 /\ l[4] = e0
      BY <2>1 DEF Ring
    <3> HIDE DEF l, e0, e1, e2, e3
    <3> QED BY <1>2, <3>1
  <2>2. CASE k = 1
    <3>1. l[1] = e0 /\ l[2] = e3 /\ l[3] = e2 /\ l[4] = e1
      BY <2>2 DEF Ring
    <3> HIDE DEF l, e0, e1, e2, e3
    <3> QED BY <1>2, <3>1
  <2>3. CASE k = 2
    <3>1. l[1] = e1 /\ l[2] = e0 /\ l[3] = e3 /\ l[4] = e2
      BY <2>3 DEF Ring
    <3> HIDE DEF l, e0, e1, e2, e3
    <3> QED BY <1>2, <3>1
  <2>4. CASE k = 3
    <3>1. l[1] = e2 /\ l[2] = e1 /\ l[3] = e0 /\ l[4] = e3
      BY <2>4 DEF Ring
    <3> HIDE DEF l, e0, e1, e2, e3
    <3> QED BY <1>2, <3>1
  <2> QED BY <1>3, <2>1, <2>2, <2>3, <2>4
<1> DEFINE s == e0 + e1 + e2 + e3
<1>5. env_avg = ShiftedValue(s, 4) /\ s \in Nat
  BY MeanValue
<1>6. Gated!MeanLevel(l) = Gated!Rounded(s, 4)
  BY <1>4 DEF Gated!MeanLevel
<1> HIDE DEF s, l
<1>7. Gated!Rounded(s, 4) = ShiftedValue(s, 4)
  BY <1>5, SameRounding
<1> QED BY <1>5, <1>6, <1>7 DEF l

(* One iteration of the loop, in the terms of the promise.                   *)
Output(x, p, l, n) ==
  IF Gated!MeanLevel(l) = 0 THEN 0
  ELSE Gated!Rounded(Gated!Mix(x, p) * Gated!Gain(x * x, n), Gated!LaneHalf)

(* Every variable of the promise after one iteration.                        *)
LEMMA IterationKeepsPromise ==
  ASSUME GateType, noise_clean_samples, samples[i + 1] \in MinLane..MaxLane
  PROVE  /\ GateType'
         /\ prev_x' = Gated!Limited(samples[i + 1])
         /\ noise_energy_est' = Gated!MovedFloor(prev_x' * prev_x')
         /\ LET l == Ring(env_hist, env_idx)
            IN Ring(env_hist', env_idx') = <<Gated!Level(prev_x'), l[1], l[2], l[3]>>
         /\ samples' = [samples EXCEPT ![i + 1] = Output(prev_x', prev_x, Ring(env_hist', env_idx'), noise_energy_est')]
<1> DEFINE x == x_clipped  e == new_env  n == new_noise  p == prev_x
           k == (env_idx + 1) % 4
           level == (abs_x \div (2 * ByteHalf)) % (2 * ByteHalf)
<1>1. Track
  BY DEF noise_clean_samples, Gate, Filter
<1>2. prev_x' = x /\ noise_energy_est' = n /\ env_hist' = e /\ env_idx' = k
  BY <1>1 DEF Track
<1>3. /\ x = Gated!Limited(samples[i + 1]) /\ x \in MinLane..MaxLane /\ x # MinLane
      /\ energy = x * x /\ energy \in 0..(LaneHalf * LaneHalf)
      /\ abs_x = Magnitude(x) /\ abs_x \in 0..MaxLane
  BY SampleValue
<1>4. level = Gated!Level(x) /\ level \in 0..(ByteHalf - 1)
  BY <1>3, LevelRange, SameNames
<1>5. env_hist \in [0..3 -> 0..(ByteHalf - 1)] /\ env_idx \in 0..3 /\ p \in MinLane..MaxLane /\ p # MinLane
  BY DEF GateType
<1>6. e = [env_hist EXCEPT ![env_idx] = level]
  BY DEF new_env
<1> HIDE DEF x, e, n, p, level
<1>7. e \in [0..3 -> 0..(ByteHalf - 1)] /\ k \in 0..3
  BY <1>4, <1>5, <1>6
<1>8. Ring(e, k) = <<level, Ring(env_hist, env_idx)[1], Ring(env_hist, env_idx)[2], Ring(env_hist, env_idx)[3]>>
  <2>1. e[env_idx] = level /\ \A m \in 0..3 : m # env_idx => e[m] = env_hist[m]
    BY <1>5, <1>6
  <2>2. Ring(e, k) = <<e[env_idx], Ring(env_hist, env_idx)[1], Ring(env_hist, env_idx)[2], Ring(env_hist, env_idx)[3]>>
    BY <1>5, <2>1, RingMoves
  <2> QED BY <2>1, <2>2
<1>9. n = Gated!MovedFloor(x * x) /\ n \in 0..(LaneHalf * LaneHalf)
  <2> DEFINE f == x * x
  <2>1. energy = f /\ f \in 0..(LaneHalf * LaneHalf)
    BY <1>3
  <2> HIDE DEF f
  <2>2. new_noise = Gated!MovedFloor(f) /\ new_noise \in 0..(LaneHalf * LaneHalf)
    BY <2>1, NoiseValue
  <2> QED BY <2>2 DEF f, n
<1>10. Gated!MeanLevel(Ring(e, k)) = env_avg /\ env_avg \in 0..(ByteHalf - 1)
  <2> HIDE DEF k
  <2>1. new_env = e
    BY DEF e
  <2> QED BY <1>7, <2>1, RingMean, MeanValue
<1>11. GateType'
  BY <1>2, <1>3, <1>7, <1>9 DEF GateType
<1>12. GatedGain(n) = Gated!Gain(x * x, n) /\ GatedGain(n) \in {0, quarter, 3 * quarter, MaxLane}
  <2> DEFINE f == x * x
  <2>1. energy = f /\ f \in 0..(LaneHalf * LaneHalf)
    BY <1>3
  <2> HIDE DEF f
  <2>2. GatedGain(n) = Gated!Gain(f, n) /\ GatedGain(n) \in {0, quarter, 3 * quarter, MaxLane}
    BY <1>9, <2>1, GainValue
  <2> QED BY <2>2 DEF f
<1>13. mixed = Gated!Mix(x, p) /\ mixed \in MinLane..MaxLane
  <2>1. x_clipped = x /\ prev_x = p
    BY DEF x, p
  <2> QED BY <1>3, <1>5, <2>1, MixValue
<1>14. samples' = [samples EXCEPT ![i + 1] = Output(x, p, Ring(e, k), n)]
  <2>1. CASE Gate
    BY <1>10, <2>1 DEF Gate, Output
  <2>2. CASE Filter
    <3> DEFINE g == GatedGain(n)
    <3>1. gain_q15 = g
      BY <1>10, NoCompression DEF n
    <3>2. samples' = [samples EXCEPT ![i + 1] = IF g = 0 THEN 0 ELSE y_clip(g)] /\ env_avg # 0
      BY <2>2, <3>1 DEF Filter
    <3>3. Output(x, p, Ring(e, k), n) = Gated!Rounded(mixed * g, LaneHalf)
      BY <1>10, <1>12, <1>13, <3>2, SameNames DEF Output
    <3>4. g \in 0..MaxLane
      BY <1>12, Scales
    <3> HIDE DEF g
    <3>5. y_clip(g) = Gated!Rounded(mixed * g, LaneHalf)
      <4> DEFINE m == mixed
      <4>1. m \in MinLane..MaxLane /\ mixed = m
        BY <1>13
      <4> HIDE DEF m
      <4>2. y_clip(g) = Gated!Rounded(m * g, LaneHalf)
        BY <3>4, <4>1, ScaledSample
      <4> QED BY <4>2 DEF m
    <3>6. g = 0 => Gated!Rounded(mixed * g, LaneHalf) = 0
      <4> SUFFICES ASSUME g = 0 PROVE Gated!Rounded(0, LaneHalf) = 0
        <5>1. mixed \in Int
          BY <1>13, Scales
        <5>2. mixed * 0 = 0
          BY <5>1
        <5> QED BY <5>2
      <4> DEFINE zero == 0  l == LaneHalf
      <4>1. l \in Nat \ {0} /\ zero \in Nat /\ zero \in Int
        BY Scales
      <4> HIDE DEF zero, l
      <4>2. Gated!Rounded(zero, l) = ShiftedValue(zero, l)
        BY <4>1, SameRounding
      <4>3. ShiftedValue(zero, l) \in 0..zero
        BY <4>1, ShiftedWithin
      <4> QED BY <4>2, <4>3 DEF zero, l
    <3> QED BY <3>2, <3>3, <3>5, <3>6
  <2> QED BY <2>1, <2>2 DEF noise_clean_samples
<1>15. Ring(env_hist', env_idx') = Ring(e, k)
  BY <1>2
<1> QED BY <1>2, <1>3, <1>4, <1>8, <1>9, <1>11, <1>14, <1>15 DEF p

(* What is copied from the front grows by the element written behind it.     *)
LEMMA FrontGrows ==
  ASSUME NEW s, NEW t, NEW n \in Nat, \A k \in 1..n : t[k] = s[k]
  PROVE  SubSeq(t, 1, n + 1) = Append(SubSeq(s, 1, n), t[n + 1])
<1> DEFINE N == n + 1  V == {t[k] : k \in 1..N}  front == SubSeq(s, 1, n)  more == SubSeq(t, 1, N)
           e == t[N]  longer == Append(front, e)
<1>1. N \in Nat /\ N = n + 1 /\ 1 \in Int /\ n \in Int
  OBVIOUS
<1>2. (\A k \in 1..N : t[k] \in V) /\ (\A k \in 1..n : s[k] \in V) /\ e \in V
  BY <1>1
<1> HIDE DEF V, N
<1>3. more \in Seq(V) /\ Len(more) = N /\ \A k \in 1..N : more[k] = t[k]
  <2>1. more \in Seq(V) /\ Len(more) = (IF 1 <= N THEN N - 1 + 1 ELSE 0)
        /\ \A k \in 1..(N - 1 + 1) : more[k] = t[1 + k - 1]
    BY <1>1, <1>2, SubSeqProperties
  <2> QED BY <1>1, <2>1
<1>4. front \in Seq(V) /\ Len(front) = n /\ \A k \in 1..n : front[k] = s[k]
  <2>1. front \in Seq(V) /\ Len(front) = (IF 1 <= n THEN n - 1 + 1 ELSE 0)
        /\ \A k \in 1..(n - 1 + 1) : front[k] = s[1 + k - 1]
    BY <1>1, <1>2, SubSeqProperties
  <2> QED BY <1>1, <2>1
<1> HIDE DEF front, more, e
<1>5. longer \in Seq(V) /\ Len(longer) = N /\ longer[N] = e /\ \A k \in 1..n : longer[k] = front[k]
  BY <1>1, <1>2, <1>4, AppendProperties
<1> HIDE DEF longer
<1>6. \A k \in 1..N : more[k] = longer[k]
  BY <1>1, <1>3, <1>4, <1>5 DEF e
<1>7. more = longer
  BY <1>1, <1>3, <1>5, <1>6, SeqEqual
<1> QED BY <1>7 DEF more, longer, front, e, N

-----------------------------------------------------------------------------
(* The sample at hand comes from the file, and is within a lane.             *)
GateInv == GateType /\ num_samples <= Len(run.payload)

(* The buffer still holds the input where it is read.                        *)
LEMMA InputAtHand ==
  ASSUME IInv, GateInv, pc = "clean", i < num_samples
  PROVE  /\ samples[i + 1] = run.payload[i + 1] /\ samples[i + 1] \in MinLane..MaxLane
         /\ i \in Nat /\ i + 1 \in 1..EXAMPLE_NUM_SAMPLES /\ i < Len(run.payload)
<1>1. i \in Nat /\ num_samples \in 0..EXAMPLE_NUM_SAMPLES /\ run \in Runs
  BY BufferAssumption DEF IInv, BufferInv
<1>2. num_samples = hdr.data_size \div 2
  BY DEF IInv, ProgressInv
<1>3. hdr # NoHeader
  <2>1. hdr = NoHeader => hdr.data_size = 0
    BY HeaderFacts DEF IInv
  <2>2. hdr.data_size # 0
    BY <1>1, <1>2
  <2> QED BY <2>1, <2>2
<1>4. Len(run.payload) \in Nat /\ num_samples <= Len(run.payload)
  BY <1>1, RunFacts DEF GateInv
<1>5. i + 1 \in (i + 1)..Least(EXAMPLE_NUM_SAMPLES, Len(run.payload)) /\ i + 1 \in 1..Len(run.payload)
      /\ i + 1 \in 1..EXAMPLE_NUM_SAMPLES
  BY <1>1, <1>4, BufferAssumption DEF Least
<1>6. samples[i + 1] = run.payload[i + 1]
  BY <1>3, <1>5 DEF IInv, BufferInv
<1>7. run.payload \in Seq(MinLane..MaxLane)
  BY <1>1, RunAssumption DEF Run
<1>8. run.payload[i + 1] \in MinLane..MaxLane
  BY <1>5, <1>7, ElementOfSeq
<1> QED BY <1>1, <1>4, <1>5, <1>6, <1>8

(* The first state of a run is a first state of the promise.                 *)
LEMMA GateInit == Init => GateInv /\ Gated!Init
<1> SUFFICES ASSUME Init PROVE GateInv /\ Gated!Init
  OBVIOUS
<1>1. env_hist = [k \in 0..3 |-> 0] /\ env_idx = 0 /\ noise_energy_est = 0 /\ prev_x = 0 /\ i = 0
      /\ num_samples = 0 /\ run \in Runs
  BY DEF Init, FilterStart
<1>2. GateType
  BY <1>1, Scales DEF GateType
<1>3. num_samples <= Len(run.payload)
  BY <1>1, RunFacts
<1>4. SubSeq(samples, 1, i) = <<>>
  BY <1>1, SubSeqEmpty
<1>5. Ring(env_hist, env_idx) = <<0, 0, 0, 0>>
  BY <1>1 DEF Ring
<1> QED BY <1>1, <1>2, <1>3, <1>4, <1>5 DEF GateInv, Gated!Init, Ring

(* Every step of a run is a step of the promise, or none.                    *)
LEMMA GateStep == IInv /\ IInv' /\ GateInv /\ [Next]_vars => GateInv' /\ [Gated!Next]_(Gated!vars)
<1> SUFFICES ASSUME IInv, IInv', GateInv, [Next]_vars PROVE GateInv' /\ [Gated!Next]_(Gated!vars)
  OBVIOUS
<1>1. CASE LoadInput
  <2>1. i = 0 /\ i' = i /\ num_samples' = num_samples /\ run' = run /\ UNCHANGED filter
    BY <1>1 DEF LoadInput, IInv, BufferInv, ProgressInv, Cleaned
  <2>2. SubSeq(samples, 1, i) = <<>> /\ SubSeq(samples', 1, i') = <<>>
    BY <2>1, SubSeqEmpty
  <2>3. UNCHANGED Gated!vars
    BY <2>1, <2>2 DEF Gated!vars, filter
  <2>4. GateInv'
    BY <2>1 DEF GateInv, GateType, filter
  <2> QED BY <2>3, <2>4
<1>2. CASE CheckHeader
  <2>1. UNCHANGED <<run, samples, i, filter>> /\ hdr' = hdr
    BY <1>2 DEF CheckHeader
  <2>2. UNCHANGED Gated!vars
    BY <2>1 DEF Gated!vars, filter
  <2>3. GateType'
    BY <2>1 DEF GateInv, GateType, filter
  <2>4. num_samples' <= Len(run.payload)
    <3>1. CASE num_samples' = num_samples
      BY <3>1 DEF GateInv
    <3>2. CASE num_samples' # num_samples
      <4>1. hdr.tags /\ num_samples' = hdr.data_size \div 2
        BY <1>2, <3>2 DEF CheckHeader
      <4>2. hdr # NoHeader /\ hdr.data_size \in Nat
        BY <4>1, HeaderFacts, BufferAssumption DEF IInv
      <4>3. hdr = LoadedHeader /\ run \in Runs
        BY <4>2 DEF IInv, BufferInv
      <4>4. Len(run.payload) \in Nat /\ run.odd \in {0, 1} /\ run.hdr \in Header /\ to_read \in Int
        BY <4>3, RunFacts, BufferAssumption DEF HeaderBytes, BufferBytes
      <4>5. hdr.data_size = Least(run.hdr.data_size, to_read - HeaderBytes) /\ run.hdr.data_size \in Nat
        BY <4>3, <4>4 DEF LoadedHeader, Header
      <4>6. hdr.data_size <= to_read - HeaderBytes
        BY <4>4, <4>5 DEF Least, HeaderBytes
      <4>7. to_read <= fsize /\ fsize = HeaderBytes + 2 * Len(run.payload) + run.odd
        BY <4>4, BufferAssumption DEF to_read, fsize, Least, HeaderBytes, BufferBytes
      <4>8. hdr.data_size <= 2 * Len(run.payload) + 1
        BY <4>2, <4>4, <4>6, <4>7 DEF HeaderBytes
      <4> QED BY <4>1, <4>2, <4>4, <4>8
    <3> QED BY <3>1, <3>2
  <2> QED BY <2>1, <2>2, <2>3, <2>4 DEF GateInv
<1>3. CASE Clean
  <2> DEFINE x == Gated!Limited(run.payload[i + 1])
  <2>1. pc = "clean" /\ noise_clean_samples /\ run' = run
    BY <1>3 DEF Clean
  <2>2. i < num_samples /\ i' = i + 1 /\ num_samples' = num_samples
    BY <2>1, CleanWritesOne
  <2>3. samples[i + 1] = run.payload[i + 1] /\ samples[i + 1] \in MinLane..MaxLane
        /\ i \in Nat /\ i + 1 \in 1..EXAMPLE_NUM_SAMPLES /\ i < Len(run.payload)
    BY <2>1, <2>2, InputAtHand
  <2>4. /\ GateType'
        /\ prev_x' = x
        /\ noise_energy_est' = Gated!MovedFloor(x * x)
        /\ Ring(env_hist', env_idx')
             = <<Gated!Level(x), Ring(env_hist, env_idx)[1], Ring(env_hist, env_idx)[2], Ring(env_hist, env_idx)[3]>>
        /\ samples' = [samples EXCEPT ![i + 1] = Output(x, prev_x, Ring(env_hist', env_idx'), noise_energy_est')]
    <3>1. /\ GateType'
          /\ prev_x' = Gated!Limited(samples[i + 1])
          /\ noise_energy_est' = Gated!MovedFloor(prev_x' * prev_x')
          /\ Ring(env_hist', env_idx')
               = <<Gated!Level(prev_x'), Ring(env_hist, env_idx)[1], Ring(env_hist, env_idx)[2], Ring(env_hist, env_idx)[3]>>
          /\ samples' = [samples EXCEPT ![i + 1] = Output(prev_x', prev_x, Ring(env_hist', env_idx'), noise_energy_est')]
      BY <2>1, <2>3, IterationKeepsPromise DEF GateInv
    <3>2. prev_x' = x
      BY <2>3, <3>1
    <3> QED BY <3>1, <3>2
  <2> HIDE DEF x
  <2> DEFINE y == Output(x, prev_x, Ring(env_hist', env_idx'), noise_energy_est')
  <2>5. SubSeq(samples', 1, i') = Append(SubSeq(samples, 1, i), y)
    <3>1. samples = [k \in 1..EXAMPLE_NUM_SAMPLES |-> samples[k]]
      BY DEF IInv, BufferInv
    <3>2. samples' = [samples EXCEPT ![i + 1] = y]
      BY <2>4
    <3> HIDE DEF y
    <3>3. samples'[i + 1] = y /\ \A k \in 1..i : samples'[k] = samples[k]
      BY <2>3, <3>1, <3>2
    <3>4. SubSeq(samples', 1, i + 1) = Append(SubSeq(samples, 1, i), samples'[i + 1])
      BY <2>3, <3>3, FrontGrows
    <3> QED BY <2>2, <3>3, <3>4
  <2>6. Len(SubSeq(samples, 1, i)) = i
    BY <2>3, Front
  <2>7. Gated!Take(x)
    BY <2>1, <2>4, <2>5 DEF Gated!Take, Output, Ring
  <2>8. Gated!Next
    BY <2>3, <2>6, <2>7 DEF Gated!Next, x
  <2>9. GateInv'
    BY <2>1, <2>2, <2>4 DEF GateInv
  <2> QED BY <2>8, <2>9
<1>4. CASE UNCHANGED <<run, firmware>>
  <2>1. UNCHANGED <<run, samples, num_samples, i, filter>>
    BY <1>4 DEF firmware
  <2>2. UNCHANGED Gated!vars
    BY <2>1 DEF Gated!vars, filter
  <2>3. GateInv'
    BY <2>1 DEF GateInv, GateType, filter
  <2> QED BY <2>2, <2>3
<1>5. RunWithoutInput \/ CleanDone \/ Report \/ Dump \/ NoDump \/ UNCHANGED vars => UNCHANGED <<run, firmware>>
  BY DEF RunWithoutInput, CleanDone, Report, Dump, NoDump, vars
<1> QED BY <1>1, <1>2, <1>3, <1>4, <1>5 DEF Next

(* The firmware's integer filter is the promised noise gate, for every width  *)
(* of a sample, every shift of the estimate and every input file: nothing     *)
(* overflows that matters, and the ring and the samples in place are right.  *)
THEOREM FirmwareIsNoiseGate == Spec => ImplementsNoiseGate
<1>1. IInv /\ GateInv /\ [Next]_vars => GateInv' /\ [Gated!Next]_(Gated!vars)
  BY StepInv, GateStep
<1> QED BY <1>1, GateInit, Inductive, PTL DEF Spec, ImplementsNoiseGate, Gated!Spec

=============================================================================
