---------------------------- MODULE PicoPcpiProof -----------------------------
(***************************************************************************)
(* What the runs of module PicoPcpi check for words of four bits, proved     *)
(* for every width: the units claim their instructions before the core gives *)
(* them up, their loops keep the result they work towards, and every answer  *)
(* is the result of the instruction that is offered.                         *)
(*                                                                         *)
(* In order: quotients and rests, the powers of two, the chains of the       *)
(* carry-save adder, the multiplication on numbers, the control of the core  *)
(* and of the units (Control), and their data (Data).                        *)
(***************************************************************************)
EXTENDS PicoPcpi, TLAPS, WellFoundedInduction

(* A set of natural numbers that is not empty has a least member.            *)
LEMMA Smallest == ASSUME NEW T, T \subseteq Nat, T # {} PROVE \E x \in T : \A y \in T : x <= y
<1>1. IsWellFoundedOn(OpToRel(<,Nat), Nat)
  BY NatLessThanWellFounded
<1>2. PICK x \in T : \A y \in T : ~ (<<y, x>> \in OpToRel(<,Nat))
  BY <1>1, WFMin, Zenon
<1>3. \A y \in T : ~ (y < x)
  BY <1>2 DEF OpToRel
<1> QED BY <1>3

(* What holds of 0 and of n + 1 whenever of n holds of every natural number; *)
(* stated with a set, which the provers can instantiate.                     *)
LEMMA Induction == ASSUME NEW T, 0 \in T, \A n \in Nat : n \in T => n + 1 \in T PROVE Nat \subseteq T
<1> SUFFICES ASSUME Nat \ T # {} PROVE FALSE
  OBVIOUS
<1>1. PICK x \in Nat \ T : \A y \in Nat \ T : x <= y
  <2>1. Nat \ T \subseteq Nat
    OBVIOUS
  <2> QED BY <2>1, Smallest
<1>2. x # 0 /\ x - 1 \in Nat
  BY <1>1
<1>3. x - 1 \in T
  BY <1>1, <1>2
<1>4. (x - 1) + 1 \in T
  BY <1>2, <1>3
<1> QED BY <1>4, <1>1

(* What quotient and rest are.                                               *)
LEMMA DivMod == ASSUME NEW x \in Int, NEW b \in Nat \ {0}
  PROVE x \div b \in Int /\ x % b \in 0..(b-1) /\ x = b * (x \div b) + (x % b)
  OBVIOUS

(* They are the only ones.                                                   *)
LEMMA DivModIs == ASSUME NEW b \in Nat \ {0}, NEW q \in Int, NEW r \in 0..(b-1), NEW x \in Int, x = b * q + r
  PROVE x \div b = q /\ x % b = r
<1>1. PICK c \in Int : c = x \div b
  BY DivMod
<1>2. PICK s \in 0..(b-1) : s = x % b
  BY DivMod
<1>3. b * c + s = b * q + r
  BY <1>1, <1>2, DivMod
<1>4. b * (c - q) = r - s
  BY <1>3
<1>5. c - q < 1
  <2> SUFFICES ASSUME c - q >= 1 PROVE FALSE
     OBVIOUS
  <2>1. b * (c - q) >= b
     OBVIOUS
  <2> QED BY <2>1, <1>4
<1>6. c - q > -1
  <2> SUFFICES ASSUME c - q <= -1 PROVE FALSE
     OBVIOUS
  <2>1. b * (c - q) <= -b
     OBVIOUS
  <2> QED BY <2>1, <1>4
<1>7. c = q
  BY <1>5, <1>6
<1> QED BY <1>1, <1>2, <1>3, <1>7

(* A multiple of the modulus changes the quotient and not the rest.          *)
LEMMA ModMul == ASSUME NEW b \in Nat \ {0}, NEW x \in Int, NEW k \in Int
  PROVE (x + b * k) % b = x % b /\ (x + b*k) \div b = x \div b + k
<1>1. PICK q \in Int : q = x \div b
  BY DivMod
<1>2. PICK r \in 0..(b-1) : r = x % b
  BY DivMod
<1>3. x = b * q + r
  BY DivMod, <1>1, <1>2
<1>4. x + b * k = b * (q + k) + r
  BY <1>3
<1>5. (x + b * k) \div b = q + k /\ (x + b * k) % b = r
  <2>1. x + b * k \in Int /\ q + k \in Int
    OBVIOUS
  <2> QED BY <1>4, <2>1, DivModIs
<1> QED BY <1>1, <1>2, <1>5

(* Division by a product is division by one factor after the other.          *)
LEMMA DivDiv == ASSUME NEW a \in Nat \ {0}, NEW b \in Nat \ {0}, NEW x \in Int
  PROVE (x \div a) \div b = x \div (a * b) /\ (x % (a * b)) \div a = (x \div a) % b /\ (x % (a * b)) % a = x % a
<1>1. PICK q \in Int : q = x \div a
  BY DivMod
<1>2. PICK r \in 0..(a-1) : r = x % a
  BY DivMod
<1>3. PICK p \in Int : p = q \div b
  BY DivMod
<1>4. PICK s \in 0..(b-1) : s = q % b
  BY DivMod
<1>5. x = a * q + r /\ q = b * p + s
  BY DivMod, <1>1, <1>2, <1>3, <1>4
<1>6. x = (a * b) * p + (a * s + r)
  <2>1. a * (b * p + s) = (a * b) * p + a * s
    OBVIOUS
  <2> QED BY <1>5, <2>1
<1>7. a * s + r \in 0..(a * b - 1)
  <2>1. a * s \in Nat /\ a * s <= a * (b - 1)
    OBVIOUS
  <2>2. a * (b - 1) = a * b - a
    OBVIOUS
  <2>3. a * b \in Nat
    OBVIOUS
  <2> QED BY <2>1, <2>2, <2>3
<1>8. x \div (a * b) = p /\ x % (a * b) = a * s + r
  <2>1. a * b \in Nat \ {0}
    OBVIOUS
  <2> QED BY <1>6, <1>7, <2>1, DivModIs
<1>9. (a * s + r) \div a = s /\ (a * s + r) % a = r
  BY DivModIs
<1> QED BY <1>1, <1>2, <1>3, <1>4, <1>8, <1>9

(* Two numbers have the same rest when they differ by a multiple of the      *)
(* modulus.                                                                  *)
LEMMA ModSame ==
  ASSUME NEW m \in Nat \ {0}, NEW x \in Int, NEW y \in Int
  PROVE x % m = y % m <=> \E k \in Int : x = y + m * k
<1>1. ASSUME NEW k \in Int, x = y + m * k PROVE x % m = y % m
  BY <1>1, ModMul
<1>2. ASSUME x % m = y % m PROVE \E k \in Int : x = y + m * k
  <2>1. PICK p \in Int, q \in Int, r \in 0..(m - 1) : x = m * p + r /\ y = m * q + r
    <3>1. x \div m \in Int /\ x % m \in 0..(m - 1) /\ x = m * (x \div m) + (x % m)
      BY DivMod
    <3>2. y \div m \in Int /\ y = m * (y \div m) + (y % m)
      BY DivMod
    <3> QED BY <3>1, <3>2, <1>2
  <2>2. x = y + m * (p - q)
    BY <2>1
  <2> WITNESS p - q \in Int
  <2> QED BY <2>2
<1> QED BY <1>1, <1>2

(* Sums of numbers with the same rests have the same rests.                  *)
LEMMA ModSum ==
  ASSUME NEW m \in Nat \ {0}, NEW x \in Int, NEW y \in Int, NEW u \in Int, NEW v \in Int,
         x % m = y % m, u % m = v % m
  PROVE (x + u) % m = (y + v) % m /\ (x * u) % m = (y * v) % m
<1>1. PICK k \in Int : x = y + m * k
  BY ModSame
<1>2. PICK j \in Int : u = v + m * j
  BY ModSame
<1> DEFINE a == x + u  b == y + v  c == x * u  d == y * v  e == k + j  f == y * j + k * v + m * k * j
<1>3. a = b + m * e
  BY <1>1, <1>2
<1>4. c = d + m * f
  <2>1. (y + m * k) * (v + m * j) = y * v + m * (y * j + k * v + m * k * j)
    OBVIOUS
  <2> QED BY <1>1, <1>2, <2>1
<1>5. a \in Int /\ b \in Int /\ c \in Int /\ d \in Int /\ e \in Int /\ f \in Int
  OBVIOUS
<1> HIDE DEF a, b, c, d, e, f
<1>6. a % m = b % m /\ c % m = d % m
  BY <1>3, <1>4, <1>5, ModMul
<1> QED BY <1>6 DEF a, b, c, d

(* A rest is its own rest.                                                   *)
LEMMA ModOfMod ==
  ASSUME NEW m \in Nat \ {0}, NEW x \in Int
  PROVE x % m \in Int /\ (x % m) % m = x % m
<1>1. x % m \in 0..(m - 1)
  BY DivMod
<1> QED BY <1>1, DivModIs

(* A number below the modulus is its own rest.                               *)
LEMMA ModSmall == ASSUME NEW m \in Nat \ {0}, NEW x \in 0..(m - 1) PROVE x % m = x /\ x \div m = 0
BY DivModIs

(* What a modulus divides leaves no rest.                                     *)
LEMMA Multiple == ASSUME NEW b \in Nat \ {0}, NEW q \in Int, NEW x \in Int, x = b * q PROVE x % b = 0
<1> DEFINE zero == 0
<1>1. zero \in 0..(b - 1) /\ zero \in Int /\ zero = 0
  OBVIOUS
<1> HIDE DEF zero
<1>2. (zero + b * q) % b = zero % b
  BY <1>1, ModMul
<1>3. zero % b = zero
  BY <1>1, ModSmall
<1>4. zero + b * q = x
  BY <1>1
<1> QED BY <1>1, <1>2, <1>3, <1>4

(* A summand or a factor may be replaced by its rest.                        *)
LEMMA ModInside ==
  ASSUME NEW m \in Nat \ {0}, NEW x \in Int, NEW u \in Int
  PROVE (x + (u % m)) % m = (x + u) % m /\ (x * (u % m)) % m = (x * u) % m
<1> DEFINE v == u % m  q == u \div m
<1>1. v \in Int /\ q \in Int /\ u = v + m * q
  <2>1. u = m * q + v /\ v \in Int /\ q \in Int
    BY DivMod
  <2> HIDE DEF v, q
  <2> QED BY <2>1
<1> HIDE DEF v, q
<1> DEFINE a == x + v  b == x + u  c == x * v  d == x * u  e == x * q
<1>2. b = a + m * q /\ d = c + m * e
  BY <1>1
<1>3. a \in Int /\ b \in Int /\ c \in Int /\ d \in Int /\ e \in Int
  BY <1>1
<1> HIDE DEF a, b, c, d, e
<1>4. b % m = a % m /\ d % m = c % m
  BY <1>1, <1>2, <1>3, ModMul
<1> QED BY <1>4 DEF a, b, c, d, v

-----------------------------------------------------------------------------
(* The powers of two up to one beyond the width of a product.                *)
LEMMA PowNat == ASSUME NEW n \in 0..(2 * XLEN + 1) PROVE 2^n \in Nat \ {0}
<1> USE WidthAssumption
<1> DEFINE T == {m \in Nat : m <= 2 * XLEN + 1 => 2^m \in Nat \ {0}}
<1>1. 0 \in T
  BY PowersAssumption
<1>2. ASSUME NEW m \in Nat, m \in T PROVE m + 1 \in T
  <2> SUFFICES ASSUME m + 1 <= 2 * XLEN + 1 PROVE 2^(m + 1) \in Nat \ {0}
    OBVIOUS
  <2>1. m \in 0..(2 * XLEN) /\ 2^m \in Nat \ {0}
    BY <1>2
  <2>2. 2^(m + 1) = 2 * 2^m
    BY <2>1, PowersAssumption
  <2> QED BY <2>1, <2>2
<1> HIDE DEF T
<1>3. Nat \subseteq T
  BY <1>1, <1>2, Induction
<1> QED BY <1>3 DEF T

(* The power of a sum is the product of the powers.                          *)
LEMMA PowAdd ==
  ASSUME NEW a \in Nat, NEW b \in Nat, a + b <= 2 * XLEN
  PROVE 2^(a + b) = 2^a * 2^b
<1> USE WidthAssumption
<1> DEFINE T == {m \in Nat : a + m <= 2 * XLEN => 2^(a + m) = 2^a * 2^m}
<1>1. 0 \in T
  <2>1. 2^a \in Nat
    BY PowNat
  <2>2. a + 0 = a
    OBVIOUS
  <2> QED BY <2>1, <2>2, PowersAssumption
<1>2. ASSUME NEW m \in Nat, m \in T PROVE m + 1 \in T
  <2> SUFFICES ASSUME a + (m + 1) <= 2 * XLEN PROVE 2^(a + (m + 1)) = 2^a * 2^(m + 1)
    OBVIOUS
  <2>1. 2^(a + m) = 2^a * 2^m
    BY <1>2
  <2>2. 2^(m + 1) = 2 * 2^m
    BY PowersAssumption
  <2>3. 2^((a + m) + 1) = 2 * 2^(a + m)
    BY PowersAssumption
  <2>4. a + (m + 1) = (a + m) + 1
    OBVIOUS
  <2>5. 2^a \in Nat /\ 2^m \in Nat
    BY PowNat
  <2>6. 2 * (2^a * 2^m) = 2^a * (2 * 2^m)
    BY <2>5
  <2> QED BY <2>1, <2>2, <2>3, <2>4, <2>6
<1> HIDE DEF T
<1>3. Nat \subseteq T
  BY <1>1, <1>2, Induction
<1> QED BY <1>3 DEF T

(* The chains cover the double word without a rest.                          *)
LEMMA ChainFacts ==
  /\ NumChains \in Nat \ {0} /\ ChainBits \in Nat \ {0} /\ NumChains * CARRY_CHAIN = 2 * XLEN
  /\ 2 <= ChainBits
  /\ \A k \in 0..NumChains : k * CARRY_CHAIN \in 0..(2 * XLEN)
  /\ \A k \in Chains : 2^((k + 1) * CARRY_CHAIN) = 2^(k * CARRY_CHAIN) * ChainBits
<1> USE WidthAssumption, ChainAssumption
<1>1. PICK n \in Int : n = NumChains
  BY DivMod DEF NumChains
<1>2. 2 * XLEN = CARRY_CHAIN * n
  <2>1. 2 * XLEN = CARRY_CHAIN * ((2 * XLEN) \div CARRY_CHAIN) + ((2 * XLEN) % CARRY_CHAIN)
    BY DivMod
  <2> QED BY <1>1, <2>1, ChainAssumption DEF NumChains
<1>3. n > 0
  <2> SUFFICES ASSUME n <= 0 PROVE FALSE
    OBVIOUS
  <2>1. CARRY_CHAIN * n <= 0
    OBVIOUS
  <2> QED BY <2>1, <1>2
<1>4. n * CARRY_CHAIN = 2 * XLEN
  BY <1>2
<1>5. \A k \in 0..n : k * CARRY_CHAIN \in Nat /\ k * CARRY_CHAIN <= n * CARRY_CHAIN
  BY <1>3
<1>6. CARRY_CHAIN <= 2 * XLEN
  <2>1. 1 * CARRY_CHAIN <= n * CARRY_CHAIN
    BY <1>5, <1>3
  <2> QED BY <2>1, <1>4
<1>7. ChainBits \in Nat \ {0}
  BY <1>6, PowNat DEF ChainBits
<1>8. \A k \in 0..(n - 1) : 2^((k + 1) * CARRY_CHAIN) = 2^(k * CARRY_CHAIN) * ChainBits
  <2> TAKE k \in 0..(n - 1)
  <2>1. (k + 1) * CARRY_CHAIN = k * CARRY_CHAIN + CARRY_CHAIN
    OBVIOUS
  <2>2. (k + 1) * CARRY_CHAIN <= 2 * XLEN
    <3>1. k + 1 \in 0..n
      OBVIOUS
    <3> QED BY <3>1, <1>4, <1>5
  <2>3. k * CARRY_CHAIN \in Nat
    OBVIOUS
  <2> QED BY <2>1, <2>2, <2>3, PowAdd DEF ChainBits
<1>9. 2 <= ChainBits
  <2>1. CARRY_CHAIN - 1 \in 0..(2 * XLEN) /\ (CARRY_CHAIN - 1) + 1 = CARRY_CHAIN
    BY <1>6
  <2>2. 2^CARRY_CHAIN = 2 * 2^(CARRY_CHAIN - 1) /\ 2^(CARRY_CHAIN - 1) \in Nat \ {0}
    BY <2>1, PowersAssumption, PowNat
  <2> QED BY <2>2 DEF ChainBits
<1> QED BY <1>1, <1>3, <1>4, <1>5, <1>7, <1>8, <1>9 DEF Chains

(* The word joined of the chains d[0], d[1], ... has these chains: what      *)
(* Joined computes by recursion.                                             *)
LEMMA JoinedIs ==
  ASSUME NEW d, \A k \in Chains : d[k] \in Nat
  PROVE \E f \in [0..NumChains -> Nat] :
          /\ f[NumChains] = 0
          /\ \A k \in Chains : f[k] = d[k] + ChainBits * f[k + 1]
          /\ Joined(d) = f[0]
<1> DEFINE N == NumChains
           Tail(f) == f = [k \in 0..N |-> IF k = N THEN 0 ELSE d[k] + ChainBits * f[k + 1]]
<1>0. NumChains \in Nat \ {0} /\ ChainBits \in Nat \ {0}
  BY ChainFacts
<1>1. Joined(d) = (CHOOSE f : Tail(f))[0]
  BY DEF Joined
<1> DEFINE Good(g, n) == /\ g \in [(N - n)..N -> Nat] /\ g[N] = 0
                         /\ \A k \in (N - n)..(N - 1) : g[k] = d[k] + ChainBits * g[k + 1]
           T == {n \in Nat : n <= N => \E g : Good(g, n)}
<1>2. 0 \in T
  <2> DEFINE g == [k \in (N - 0)..N |-> 0]
  <2>1. Good(g, 0)
    BY <1>0
  <2> QED BY <2>1
<1>3. ASSUME NEW n \in Nat, n \in T PROVE n + 1 \in T
  <2> SUFFICES ASSUME n + 1 <= N PROVE \E g : Good(g, n + 1)
    OBVIOUS
  <2>1. PICK g : Good(g, n)
    BY <1>3, <1>0
  <2> DEFINE m == N - (n + 1)
             h == [k \in m..N |-> IF k = m THEN d[m] + ChainBits * g[m + 1] ELSE g[k]]
  <2>2. m \in 0..(N - 1) /\ m + 1 = N - n /\ m \in Chains
    BY <1>0 DEF Chains
  <2>3. d[m] + ChainBits * g[m + 1] \in Nat
    <3>1. d[m] \in Nat /\ g[m + 1] \in Nat
      BY <2>1, <2>2, <1>0
    <3> QED BY <3>1, <1>0
  <2>4. h \in [m..N -> Nat]
    BY <2>1, <2>2, <2>3, <1>0
  <2>5. h[N] = 0
    BY <2>1, <2>2, <1>0
  <2>6. \A k \in m..(N - 1) : h[k] = d[k] + ChainBits * h[k + 1]
    <3> TAKE k \in m..(N - 1)
    <3>1. h[k + 1] = g[k + 1]
      BY <2>2, <1>0
    <3>2. CASE k = m
      BY <3>1, <3>2, <2>2, <1>0
    <3>3. CASE k # m
      <4>1. k \in (N - n)..(N - 1) /\ h[k] = g[k]
        BY <3>3, <2>2, <1>0
      <4> QED BY <4>1, <3>1, <2>1
    <3> QED BY <3>2, <3>3
  <2> HIDE DEF h
  <2>7. Good(h, n + 1)
    BY <2>4, <2>5, <2>6
  <2> QED BY <2>7
<1> HIDE DEF T
<1>4. Nat \subseteq T
  BY <1>2, <1>3, Induction
<1>5. PICK g : Good(g, N)
  BY SMTT(30), <1>4, <1>0 DEF T
<1>6. Tail(g)
  <2> SUFFICES \A k \in 0..N : g[k] = IF k = N THEN 0 ELSE d[k] + ChainBits * g[k + 1]
    <3>1. g = [k \in 0..N |-> g[k]]
      BY <1>5, <1>0
    <3> QED BY <3>1
  <2> TAKE k \in 0..N
  <2>1. CASE k = N
    BY <2>1, <1>5
  <2>2. CASE k # N
    <3>1. k \in (N - N)..(N - 1)
      BY <2>2, <1>0
    <3> QED BY <3>1, <1>5, <2>2
  <2> QED BY <2>1, <2>2
<1> DEFINE from == CHOOSE f : Tail(f)
<1>7. Tail(from)
  BY <1>6
<1> HIDE DEF from, Good
<1>8. from \in [0..N -> Nat]
  <2> DEFINE U == {n \in Nat : n <= N => from[N - n] \in Nat}
  <2>1. 0 \in U
    BY <1>7, <1>0
  <2>2. ASSUME NEW n \in Nat, n \in U PROVE n + 1 \in U
    <3> SUFFICES ASSUME n + 1 <= N PROVE from[N - (n + 1)] \in Nat
      OBVIOUS
    <3> DEFINE m == N - (n + 1)
    <3>1. m \in 0..(N - 1) /\ m + 1 = N - n /\ m \in Chains
      BY <1>0 DEF Chains
    <3>2. from[m + 1] \in Nat
      BY <2>2, <3>1, <1>0
    <3>3. from[m] = d[m] + ChainBits * from[m + 1]
      BY <1>7, <3>1, <1>0
    <3>4. d[m] \in Nat
      BY <3>1
    <3> QED BY <3>2, <3>3, <3>4, <1>0
  <2> HIDE DEF U
  <2>3. Nat \subseteq U
    BY <2>1, <2>2, Induction
  <2>4. ASSUME NEW k \in 0..N PROVE from[k] \in Nat
    <3>1. N - k \in Nat /\ N - k <= N /\ N - (N - k) = k
      BY <1>0
    <3>2. N - k \in U
      BY <2>3, <3>1
    <3> QED BY <3>1, <3>2 DEF U
  <2>5. from = [k \in 0..N |-> from[k]]
    BY <1>7
  <2> QED BY <2>4, <2>5
<1>9. from[N] = 0 /\ \A k \in Chains : from[k] = d[k] + ChainBits * from[k + 1]
  BY <1>7, <1>0 DEF Chains
<1> QED BY <1>1, <1>8, <1>9 DEF from

-----------------------------------------------------------------------------
DWord == 0..(2^(2 * XLEN) - 1)

(* The widths of a word and of a double word.                                *)
LEMMA DoubleFacts ==
  /\ 2^(2 * XLEN) \in Nat \ {0} /\ 2^XLEN \in Nat \ {0} /\ 2^(2 * XLEN) = 2^XLEN * 2^XLEN
  /\ 2^(XLEN - 1) \in Nat \ {0} /\ 2^XLEN = 2 * 2^(XLEN - 1)
<1> USE WidthAssumption
<1>1. 2^(XLEN + XLEN) = 2^XLEN * 2^XLEN
  BY PowAdd
<1>2. XLEN + XLEN = 2 * XLEN
  OBVIOUS
<1>3. 2^((XLEN - 1) + 1) = 2 * 2^(XLEN - 1)
  BY PowersAssumption
<1>4. (XLEN - 1) + 1 = XLEN
  OBVIOUS
<1> QED BY <1>1, <1>2, <1>3, <1>4, PowNat

(* What a chain holds.                                                       *)
LEMMA ChainNat == ASSUME NEW x \in Int, NEW k \in 0..NumChains
  PROVE x \div 2^(k * CARRY_CHAIN) \in Int /\ Chain(x, k) \in 0..(ChainBits - 1)
<1>1. 2^(k * CARRY_CHAIN) \in Nat \ {0} /\ ChainBits \in Nat \ {0}
  BY ChainFacts, PowNat, WidthAssumption
<1>2. x \div 2^(k * CARRY_CHAIN) \in Int
  BY <1>1, DivMod
<1> QED BY <1>1, <1>2, DivMod DEF Chain

(* What is left of a word from one of its chains on, and from the next.      *)
LEMMA Tails ==
  ASSUME NEW x \in Int, NEW k \in Chains
  PROVE /\ x \div 2^((k + 1) * CARRY_CHAIN) = (x \div 2^(k * CARRY_CHAIN)) \div ChainBits
        /\ x \div 2^(k * CARRY_CHAIN) = Chain(x, k) + ChainBits * (x \div 2^((k + 1) * CARRY_CHAIN))
<1>1. 2^((k + 1) * CARRY_CHAIN) = 2^(k * CARRY_CHAIN) * ChainBits /\ ChainBits \in Nat \ {0}
  BY ChainFacts
<1>2. k \in 0..NumChains
  BY ChainFacts DEF Chains
<1>3. 2^(k * CARRY_CHAIN) \in Nat \ {0}
  BY <1>2, ChainFacts, PowNat, WidthAssumption
<1> DEFINE w == 2^(k * CARRY_CHAIN)  w1 == 2^((k + 1) * CARRY_CHAIN)
<1>4. w1 = w * ChainBits /\ w \in Nat \ {0}
  BY <1>1, <1>3
<1> HIDE DEF w, w1
<1>5. x \div w1 = (x \div w) \div ChainBits
  BY <1>1, <1>4, DivDiv
<1> DEFINE y == x \div w
<1>6. y \in Int /\ x \div w1 = y \div ChainBits
  BY <1>4, <1>5, DivMod
<1> HIDE DEF y
<1>7. y = ChainBits * (y \div ChainBits) + (y % ChainBits) /\ y % ChainBits \in Int /\ y \div ChainBits \in Int
  <2>1. ChainBits \in Nat \ {0}
    BY <1>1
  <2> QED BY <1>6, <2>1, DivMod
<1>8. y = (y % ChainBits) + ChainBits * (y \div ChainBits)
  <2>1. ChainBits * (y \div ChainBits) \in Int
    BY <1>1, <1>7
  <2> QED BY <1>7, <2>1
<1> QED BY <1>5, <1>6, <1>8 DEF Chain, w, w1, y

(* The whole word is the tail at its first chain, and beyond the last one    *)
(* nothing is left of a double word.                                         *)
LEMMA TailEnds ==
  ASSUME NEW x \in DWord
  PROVE x \div 2^(0 * CARRY_CHAIN) = x /\ x \div 2^(NumChains * CARRY_CHAIN) = 0
<1>1. 0 * CARRY_CHAIN = 0 /\ 2^0 = 1
  BY ChainAssumption, PowersAssumption
<1>2. x \div 1 = x
  BY DivModIs DEF DWord
<1>3. x \div 2^(2 * XLEN) = 0
  BY DivModIs, DoubleFacts DEF DWord
<1> QED BY <1>1, <1>2, <1>3, ChainFacts

(* Cutting a number to a double word changes none of its chains.             *)
LEMMA ChainDouble == ASSUME NEW x \in Int, NEW k \in Chains PROVE Chain(Double(x), k) = Chain(x, k)
<1>1. k \in 0..NumChains /\ k + 1 \in 0..NumChains
  BY ChainFacts DEF Chains
<1> DEFINE a == k * CARRY_CHAIN
           b == 2 * XLEN - (k + 1) * CARRY_CHAIN
<1>2. a \in Nat /\ b \in Nat /\ (k + 1) * CARRY_CHAIN \in Nat /\ (k + 1) * CARRY_CHAIN + b = 2 * XLEN
  BY <1>1, ChainFacts, WidthAssumption
<1>3. 2^(2 * XLEN) = 2^((k + 1) * CARRY_CHAIN) * 2^b
  BY <1>2, PowAdd
<1>4. 2^((k + 1) * CARRY_CHAIN) = 2^a * ChainBits /\ ChainBits \in Nat \ {0}
  BY ChainFacts
<1>5. 2^a \in Nat \ {0} /\ 2^b \in Nat \ {0}
  BY <1>1, <1>2, ChainFacts, PowNat, WidthAssumption
<1> HIDE DEF a, b
<1> DEFINE M == 2^(2 * XLEN)  w == 2^a  c == ChainBits * 2^b
<1>6. M = w * c /\ c \in Nat \ {0} /\ w \in Nat \ {0}
  BY <1>3, <1>4, <1>5
<1>7. c = ChainBits * 2^b
  OBVIOUS
<1> HIDE DEF c, w, M
<1>8. x % M = Double(x)
  BY DEF Double, M
<1>a. (x % M) \div w = (x \div w) % c
  BY <1>6, DivDiv
<1>z. Double(x) \div w = (x \div w) % c
  BY <1>8, <1>a
<1>9. x \div w \in Int
  BY <1>6, DivMod
<1> DEFINE y == x \div w  v == 2^b
<1>10. y \in Int /\ v \in Nat \ {0} /\ c = ChainBits * v
  BY <1>5, <1>7, <1>9
<1> HIDE DEF y, v
<1>11. (y % c) % ChainBits = y % ChainBits
  BY <1>4, <1>10, DivDiv
<1> QED BY <1>z, <1>11 DEF Chain, a, w, y

(* One step of the carry-save adder: sum and carries are the sum of the three *)
(* words, and each carry is where the next chain starts.                     *)
LEMMA CarrySave ==
  ASSUME NEW x \in DWord, NEW y \in DWord, NEW z \in DWord, \A k \in Chains : Chain(y, k) \in {0, 1}
  PROVE /\ NextRd(x, y, z) \in DWord /\ NextRdx(x, y, z) \in DWord
        /\ Double(NextRd(x, y, z) + NextRdx(x, y, z)) = Double(x + y + z)
        /\ \A k \in Chains : Chain(NextRdx(x, y, z), k) \in {0, 1}
        /\ Chain(NextRdx(x, y, z), 0) = 0
        /\ \A k \in Chains : Chain(y, k) = 0 /\ Chain(z, k) = 0 /\ k + 1 \in Chains
             => Chain(NextRdx(x, y, z), k + 1) = 0
<1> DEFINE s(k) == ChainSum(x, y, z, k)
           r == [k \in Chains |-> s(k) % ChainBits]
           c == [k \in Chains |-> s(k) \div ChainBits]
           X(k) == x \div 2^(k * CARRY_CHAIN)
           Y(k) == y \div 2^(k * CARRY_CHAIN)
           Z(k) == z \div 2^(k * CARRY_CHAIN)
           N == NumChains
           B == ChainBits
<1>0. x \in Int /\ y \in Int /\ z \in Int /\ N \in Nat \ {0} /\ B \in Nat \ {0} /\ 2 <= B
  BY ChainFacts DEF DWord
<1>1. ASSUME NEW k \in Chains
      PROVE /\ s(k) \in 0..(2 * B - 1) /\ s(k) = Chain(x, k) + Chain(y, k) + Chain(z, k)
            /\ r[k] \in 0..(B - 1) /\ c[k] \in {0, 1} /\ s(k) = r[k] + B * c[k]
            /\ Chain(y, k) = 0 /\ Chain(z, k) = 0 => c[k] = 0
  <2>0. k \in 0..N
    BY <1>0 DEF Chains
  <2>1. Chain(x, k) \in 0..(B - 1) /\ Chain(y, k) \in {0, 1} /\ Chain(z, k) \in 0..(B - 1)
    BY <2>0, <1>0, ChainNat
  <2>2. Chain(x, k) + Chain(y, k) + Chain(z, k) \in 0..(2 * B - 1) /\ 2 * B \in Nat \ {0}
    BY <2>1, <1>0
  <2>3. s(k) = Chain(x, k) + Chain(y, k) + Chain(z, k)
    BY <2>2, ModSmall DEF ChainSum
  <2>4. s(k) \in Int
    BY <2>2, <2>3
  <2>5. r[k] \in 0..(B - 1) /\ c[k] \in Int /\ s(k) = B * c[k] + r[k]
    BY <2>4, <1>0, DivMod
  <2> HIDE DEF r, c, s
  <2>6. c[k] > -1
    <3> SUFFICES ASSUME c[k] <= -1 PROVE FALSE
      BY <2>5
    <3>1. B * c[k] <= -B
      BY <1>0, <2>5
    <3> QED BY <3>1, <2>5, <2>2, <2>3, <1>0
  <2>7. c[k] < 2
    <3> SUFFICES ASSUME c[k] >= 2 PROVE FALSE
      BY <2>5
    <3>1. B * c[k] >= 2 * B
      BY <1>0, <2>5
    <3> QED BY <3>1, <2>5, <2>2, <2>3, <1>0
  <2>8. c[k] = 1 => s(k) >= B
    BY <2>5, <1>0
  <2> QED BY <2>1, <2>2, <2>3, <2>5, <2>6, <2>7, <2>8, <1>0
<1> HIDE DEF s, r, c
<1>2. PICK f \in [0..N -> Nat] : /\ f[N] = 0 /\ \A k \in Chains : f[k] = r[k] + B * f[k + 1]
                                 /\ NextRd(x, y, z) = f[0]
  <2>1. \A k \in Chains : r[k] \in Nat
    BY <1>1, <1>0
  <2>2. NextRd(x, y, z) = Joined(r)
    BY DEF NextRd, s, r
  <2> QED BY <2>1, <2>2, JoinedIs
<1>3. PICK g \in [0..N -> Nat] : /\ g[N] = 0 /\ \A k \in Chains : g[k] = c[k] + B * g[k + 1]
                                 /\ NextRdx(x, y, z) = Double(B * g[0])
  <2>1. \A k \in Chains : c[k] \in Nat
    BY <1>1, <1>0
  <2>2. NextRdx(x, y, z) = Double(B * Joined(c))
    BY DEF NextRdx, s, c
  <2> QED BY <2>1, <2>2, JoinedIs
<1> HIDE DEF X, Y, Z
<1>4. ASSUME NEW k \in 0..N PROVE X(k) \in Int /\ Y(k) \in Int /\ Z(k) \in Int
  BY <1>0, ChainNat DEF X, Y, Z
<1>5. ASSUME NEW k \in Chains
      PROVE f[k + 1] + B * g[k + 1] = X(k + 1) + Y(k + 1) + Z(k + 1) =>
              f[k] + B * g[k] = X(k) + Y(k) + Z(k)
  <2>0. k \in 0..N /\ k + 1 \in 0..N
    BY <1>0 DEF Chains
  <2>1. f[k] = r[k] + B * f[k + 1] /\ g[k] = c[k] + B * g[k + 1]
    BY <1>2, <1>3
  <2>2. /\ X(k) = Chain(x, k) + B * X(k + 1)
        /\ Y(k) = Chain(y, k) + B * Y(k + 1)
        /\ Z(k) = Chain(z, k) + B * Z(k + 1)
    BY <1>0, Tails DEF X, Y, Z
  <2>3. Chain(x, k) + Chain(y, k) + Chain(z, k) = r[k] + B * c[k]
    BY <1>1
  <2> DEFINE f1 == f[k + 1]  g1 == g[k + 1]
             x1 == X(k + 1)  y1 == Y(k + 1)  z1 == Z(k + 1)
             cx == Chain(x, k)  cy == Chain(y, k)  cz == Chain(z, k)
             rk == r[k]  ck == c[k]
  <2>4. cx \in Int /\ cy \in Int /\ cz \in Int
    BY <1>0, <2>0, ChainNat
  <2>5. x1 \in Int /\ y1 \in Int /\ z1 \in Int
    BY <1>4, <2>0
  <2>6. rk \in Int /\ ck \in Int
    <3>1. r[k] \in 0..(B - 1) /\ c[k] \in {0, 1}
      BY <1>1
    <3> QED BY <3>1, <1>0
  <2>7. f1 \in Int /\ g1 \in Int
    BY <2>0
  <2>8. ASSUME f1 + B * g1 = x1 + y1 + z1
        PROVE (rk + B * f1) + B * (ck + B * g1) = (cx + B * x1) + (cy + B * y1) + (cz + B * z1)
    <3>0. cx + cy + cz = rk + B * ck
      BY <2>3
    <3> HIDE DEF f1, g1, x1, y1, z1, cx, cy, cz, rk, ck
    <3>1. B * (f1 + B * g1) = B * (x1 + y1 + z1)
      BY <2>8
    <3>2. B * (ck + B * g1) = B * ck + B * (B * g1)
      BY <2>6, <2>7, <1>0
    <3>3. B * (f1 + B * g1) = B * f1 + B * (B * g1)
      BY <2>7, <1>0
    <3>4. B * (x1 + y1 + z1) = B * x1 + B * y1 + B * z1
      BY <2>5, <1>0
    <3>5. /\ B * f1 \in Int /\ B * (B * g1) \in Int /\ B * ck \in Int
          /\ B * x1 \in Int /\ B * y1 \in Int /\ B * z1 \in Int
      BY <2>5, <2>6, <2>7, <1>0
    <3> DEFINE p1 == B * f1  p2 == B * (B * g1)  p3 == B * ck  p4 == B * x1  p5 == B * y1  p6 == B * z1
    <3>6. p1 + p2 = p4 + p5 + p6 /\ B * (ck + B * g1) = p3 + p2 /\ cx + cy + cz = rk + p3
      BY <3>0, <3>1, <3>2, <3>3, <3>4
    <3>7. p1 \in Int /\ p2 \in Int /\ p3 \in Int /\ p4 \in Int /\ p5 \in Int /\ p6 \in Int
      BY <3>5
    <3> HIDE DEF p1, p2, p3, p4, p5, p6
    <3>8. (rk + p1) + (p3 + p2) = (cx + p4) + (cy + p5) + (cz + p6)
      BY <2>4, <2>6, <3>6, <3>7
    <3> QED BY <3>6, <3>8 DEF p1, p4, p5, p6
  <2> QED BY <2>1, <2>2, <2>8
<1>6. f[N] + B * g[N] = X(N) + Y(N) + Z(N)
  BY <1>0, <1>2, <1>3, TailEnds DEF X, Y, Z
<1>7. f[0] + B * g[0] = X(0) + Y(0) + Z(0)
  <2> DEFINE T == {n \in Nat : n <= N => f[N - n] + B * g[N - n] = X(N - n) + Y(N - n) + Z(N - n)}
  <2>1. 0 \in T
    BY <1>6, <1>0
  <2>2. ASSUME NEW n \in Nat, n \in T PROVE n + 1 \in T
    <3> SUFFICES ASSUME n + 1 <= N
                 PROVE f[N - (n + 1)] + B * g[N - (n + 1)] = X(N - (n + 1)) + Y(N - (n + 1)) + Z(N - (n + 1))
      OBVIOUS
    <3>1. N - (n + 1) \in Chains /\ (N - (n + 1)) + 1 = N - n
      BY <1>0 DEF Chains
    <3>2. f[N - n] + B * g[N - n] = X(N - n) + Y(N - n) + Z(N - n)
      BY <2>2, <1>0
    <3> QED BY <3>1, <3>2, <1>5
  <2> HIDE DEF T
  <2>3. Nat \subseteq T
    BY <2>1, <2>2, Induction
  <2> QED BY <2>3, <1>0 DEF T
<1>8. f[0] + B * g[0] = x + y + z
  BY <1>7, TailEnds DEF X, Y, Z
<1>9. f[0] \in DWord
  <2> DEFINE W(k) == 2^(k * CARRY_CHAIN)
             T == {n \in Nat : n <= N => (f[N - n] + 1) * W(N - n) <= 2^(2 * XLEN)}
  <2>0. \A k \in 0..N : W(k) \in Nat \ {0}
    BY ChainFacts, PowNat, WidthAssumption
  <2>a. \A k \in Chains : W(k + 1) = W(k) * B
    BY ChainFacts
  <2>b. W(N) = 2^(2 * XLEN) /\ W(0) = 1
    <3>1. 0 * CARRY_CHAIN = 0
      BY ChainAssumption
    <3> QED BY <3>1, ChainFacts, PowersAssumption
  <2> HIDE DEF W
  <2>1. 0 \in T
    <3>1. (f[N] + 1) * W(N) = W(N)
      BY <1>2, <2>0, <1>0
    <3> QED BY <3>1, <2>b, <1>0, DoubleFacts
  <2>2. ASSUME NEW n \in Nat, n \in T PROVE n + 1 \in T
    <3> SUFFICES ASSUME n + 1 <= N PROVE (f[N - (n + 1)] + 1) * W(N - (n + 1)) <= 2^(2 * XLEN)
      OBVIOUS
    <3> DEFINE k == N - (n + 1)
    <3>1. k \in Chains /\ k + 1 = N - n /\ k \in 0..N /\ k + 1 \in 0..N
      BY <1>0 DEF Chains
    <3> HIDE DEF k
    <3> DEFINE f0 == f[k]  f1 == f[k + 1]  w == W(k)  w1 == W(k + 1)  M == 2^(2 * XLEN)
    <3>2. (f1 + 1) * w1 <= M
      <4>1. n <= N
        BY <1>0
      <4>2. (f[N - n] + 1) * W(N - n) <= 2^(2 * XLEN)
        BY <2>2, <4>1
      <4> QED BY <4>2, <3>1
    <3>3. f0 = r[k] + B * f1 /\ r[k] \in 0..(B - 1)
      BY <1>1, <1>2, <3>1
    <3>4. f1 \in Nat /\ w \in Nat /\ f0 \in Nat /\ M \in Nat
      BY <2>0, <3>1, DoubleFacts
    <3>5. w1 = w * B
      BY <2>a, <3>1
    <3> HIDE DEF f0, f1, w, w1, M
    <3>6. f0 + 1 <= B * (f1 + 1)
      <4>1. B * (f1 + 1) = B * f1 + B /\ B * f1 \in Nat
        BY <1>0, <3>4
      <4> DEFINE p == B * f1  rk == r[k]
      <4>2. p \in Nat /\ B \in Nat /\ rk \in 0..(B - 1) /\ f0 = rk + p
        BY <4>1, <3>3, <1>0
      <4> HIDE DEF p, rk
      <4>3. f0 + 1 <= p + B
        BY <4>2
      <4> QED BY <4>1, <4>3 DEF p
    <3>7. B * (f1 + 1) \in Nat
      BY <1>0, <3>4
    <3>8. (f0 + 1) * w <= (B * (f1 + 1)) * w
      BY <3>4, <3>6, <3>7
    <3>9. (B * (f1 + 1)) * w = (f1 + 1) * w1
      BY <1>0, <3>4, <3>5
    <3>10. (f0 + 1) * w \in Int /\ (f1 + 1) * w1 \in Int
      BY <3>4, <3>5, <1>0
    <3>11. (f0 + 1) * w <= M
      BY <3>2, <3>4, <3>8, <3>9, <3>10
    <3> QED BY <3>11 DEF k, f0, w, M
  <2> HIDE DEF T
  <2>3. Nat \subseteq T
    BY <2>1, <2>2, Induction
  <2>4. (f[0] + 1) * W(0) <= 2^(2 * XLEN)
    BY <2>3, <1>0 DEF T
  <2>5. f[0] \in Nat
    BY <1>0
  <2>6. (f[0] + 1) * 1 = f[0] + 1
    BY <2>5
  <2> QED BY <2>4, <2>5, <2>6, <2>b, DoubleFacts DEF DWord
<1> DEFINE e == B * g[0]
<1>e. e \in Nat /\ g[0] \in Nat
  BY <1>0
<1> HIDE DEF e
<1>b. B \in Nat \ {0} /\ 2^(2 * XLEN) \in Nat \ {0} /\ e \in Int
  BY <1>0, <1>e, DoubleFacts
<1>g. e \div B = g[0] /\ e % B = 0
  <2> DEFINE g0 == g[0]
  <2>1. e = B * g0 + 0 /\ g0 \in Int /\ 0 \in 0..(B - 1)
    BY <1>0, <1>e DEF e
  <2> HIDE DEF g0
  <2>2. e \div B = g0 /\ e % B = 0
    BY <2>1, <1>b, DivModIs
  <2> QED BY <2>2 DEF g0
<1>10. Double(e) \in DWord
  BY <1>b, DivMod DEF Double, DWord
<1>11. Double(NextRd(x, y, z) + NextRdx(x, y, z)) = Double(x + y + z)
  <2>1. f[0] \in Int
    BY <1>0
  <2> DEFINE m == 2^(2 * XLEN)  f0 == f[0]
  <2>2. m \in Nat \ {0} /\ f0 \in Int /\ e \in Int
    BY <1>b, <2>1
  <2> HIDE DEF m, f0
  <2>3. (f0 + (e % m)) % m = (f0 + e) % m
    BY <2>2, ModInside
  <2> QED BY <2>3, <1>2, <1>3, <1>8 DEF Double, e, m, f0
<1>12. Chain(NextRdx(x, y, z), 0) = 0
  <2>1. 0 \in Chains
    BY <1>0 DEF Chains
  <2>2. Chain(NextRdx(x, y, z), 0) = Chain(e, 0)
    BY <2>1, <1>e, <1>3, ChainDouble DEF e
  <2>3. 0 * CARRY_CHAIN = 0 /\ 2^0 = 1
    BY ChainAssumption, PowersAssumption
  <2>4. e \div 1 = e
    BY <1>e, DivModIs
  <2>5. e % B = 0
    BY <1>g
  <2> QED BY <2>2, <2>3, <2>4, <2>5 DEF Chain
<1>13. ASSUME NEW k \in Chains PROVE g[k] \div B = g[k + 1] /\ g[k] % B = c[k]
  <2>0. k \in 0..N /\ k + 1 \in 0..N
    BY <1>0 DEF Chains
  <2> DEFINE g0 == g[k]  g1 == g[k + 1]  ck == c[k]
  <2>1. g0 \in Int /\ g1 \in Int
    BY <2>0
  <2>2. ck \in 0..(B - 1)
    <3>1. c[k] \in {0, 1}
      BY <1>1
    <3> QED BY <3>1, <1>0
  <2>3. g0 = ck + B * g1
    BY <1>3
  <2> HIDE DEF g0, g1, ck
  <2>4. g0 = B * g1 + ck
    <3>1. B * g1 \in Int
      BY <2>1, <1>0
    <3> QED BY <2>2, <2>3, <3>1
  <2>5. g0 \div B = g1 /\ g0 % B = ck
    BY <2>1, <2>2, <2>4, <1>b, DivModIs
  <2> QED BY <2>5 DEF g0, g1, ck
<1>14. \A k \in 0..N : g[0] \div 2^(k * CARRY_CHAIN) = g[k]
  <2> DEFINE T == {k \in Nat : k <= N => g[0] \div 2^(k * CARRY_CHAIN) = g[k]}
  <2>1. 0 \in T
    <3>1. 0 * CARRY_CHAIN = 0 /\ 2^0 = 1
      BY ChainAssumption, PowersAssumption
    <3>2. g[0] \div 1 = g[0]
      BY <1>0, DivModIs
    <3> QED BY <3>1, <3>2
  <2>2. ASSUME NEW k \in Nat, k \in T PROVE k + 1 \in T
    <3> SUFFICES ASSUME k + 1 <= N PROVE g[0] \div 2^((k + 1) * CARRY_CHAIN) = g[k + 1]
      OBVIOUS
    <3>1. k \in Chains /\ g[0] \in Int
      BY <1>0 DEF Chains
    <3>2. g[0] \div 2^(k * CARRY_CHAIN) = g[k]
      BY <2>2, <1>0
    <3> QED BY <3>1, <3>2, <1>13, Tails
  <2> HIDE DEF T
  <2>3. Nat \subseteq T
    BY <2>1, <2>2, Induction
  <2> QED BY <2>3, <1>0 DEF T
<1>15. ASSUME NEW k \in Chains, k + 1 \in Chains PROVE Chain(NextRdx(x, y, z), k + 1) = c[k]
  <2>1. k \in 0..N
    BY <1>0 DEF Chains
  <2>2. Chain(NextRdx(x, y, z), k + 1) = Chain(e, k + 1)
    BY <1>e, <1>3, <1>15, ChainDouble DEF e
  <2> DEFINE w == 2^(k * CARRY_CHAIN)  w1 == 2^((k + 1) * CARRY_CHAIN)
  <2>3. w1 = w * B /\ w \in Nat \ {0}
    BY SMTT(30), <2>1, ChainFacts, PowNat, WidthAssumption
  <2> HIDE DEF w, w1
  <2>4. w1 = B * w
    BY <2>3, <1>0
  <2>5. e \div w1 = (e \div B) \div w
    <3> DEFINE b == B
    <3>1. b \in Nat \ {0} /\ e \in Int /\ w \in Nat \ {0} /\ w1 = b * w
      BY <1>b, <2>3, <2>4
    <3> HIDE DEF b
    <3>2. e \div w1 = (e \div b) \div w
      BY <3>1, DivDiv
    <3> QED BY <3>2 DEF b
  <2>6. e \div B = g[0]
    BY <1>g
  <2>7. e \div w1 = g[k]
    BY <2>1, <2>5, <2>6, <1>14 DEF w
  <2> QED BY <2>2, <2>7, <1>13 DEF Chain, w1
<1>16. ASSUME NEW k \in Chains PROVE k = 0 \/ (k - 1 \in Chains /\ (k - 1) + 1 = k)
  BY <1>0 DEF Chains
<1>17. \A k \in Chains : Chain(NextRdx(x, y, z), k) \in {0, 1}
  BY <1>1, <1>12, <1>15, <1>16
<1>18. \A k \in Chains : Chain(y, k) = 0 /\ Chain(z, k) = 0 /\ k + 1 \in Chains
         => Chain(NextRdx(x, y, z), k + 1) = 0
  BY <1>1, <1>15
<1> QED BY <1>2, <1>3, <1>9, <1>10, <1>11, <1>12, <1>17, <1>18 DEF e

-----------------------------------------------------------------------------
(* The state of the multiplication of e1 by e2 after n of its steps: what is   *)
(* left of e1, e2 in its place, the sum, and carries only at the starts of    *)
(* chains, none of them where e2 has been shifted away from.                  *)
Multiplied(e1, e2, n, rs1, rs2, sum, carries) ==
  /\ rs1 = e1 \div 2^n /\ rs2 = Double(e2 * 2^n)
  /\ sum \in DWord /\ carries \in DWord
  /\ Double(sum + carries + rs1 * rs2) = Double(e1 * e2)
  /\ \A k \in Chains : /\ Chain(carries, k) \in {0, 1}
                       /\ k * CARRY_CHAIN < n => Chain(carries, k) = 0

(* What a register of a double word holds.                                   *)
LEMMA DoubleRange == ASSUME NEW x \in Int PROVE Double(x) \in DWord /\ Double(x) \in Nat
<1> DEFINE m == 2^(2 * XLEN)
<1>1. m \in Nat \ {0}
  BY DoubleFacts
<1> HIDE DEF m
<1>2. x % m \in 0..(m - 1)
  BY <1>1, DivMod
<1>3. x % m \in Nat
  BY <1>1, <1>2
<1> QED BY <1>2, <1>3 DEF Double, DWord, m

(* The chains of zero are zero.                                              *)
LEMMA ChainZero == ASSUME NEW k \in Chains PROVE Chain(0, k) = 0
<1>1. k \in 0..NumChains
  BY ChainFacts DEF Chains
<1> DEFINE w == 2^(k * CARRY_CHAIN)
<1>2. w \in Nat \ {0} /\ ChainBits \in Nat \ {0}
  BY <1>1, ChainFacts, PowNat, WidthAssumption
<1> HIDE DEF w
<1>3. 0 \div w = 0
  BY <1>2, ModSmall
<1>4. 0 % ChainBits = 0
  BY <1>2, ModSmall
<1> QED BY <1>3, <1>4 DEF Chain, w

(* The operands loaded by MulLoad are the state before the first step.       *)
LEMMA MultiplicationStarts ==
  ASSUME NEW e1 \in DWord, NEW e2 \in DWord PROVE Multiplied(e1, e2, 0, e1, e2, 0, 0)
<1>1. e1 \in Nat /\ e2 \in Nat /\ 0 \in DWord
  BY DoubleFacts DEF DWord
<1>2. e1 \div 1 = e1
  BY <1>1, DivModIs
<1>3. Double(e2 * 1) = e2
  <2>1. e2 % 2^(2 * XLEN) = e2
    BY DoubleFacts, ModSmall DEF DWord
  <2>2. e2 * 1 = e2
    BY <1>1
  <2> QED BY <2>1, <2>2 DEF Double
<1>4. 0 + 0 + e1 * e2 = e1 * e2
  BY <1>1
<1>5. 2^0 = 1
  BY PowersAssumption
<1>6. \A k \in Chains : Chain(0, k) = 0
  BY ChainZero
<1> QED BY <1>1, <1>2, <1>3, <1>4, <1>5, <1>6 DEF Multiplied

(* A word shifted beyond a chain has no bit in it.                            *)
LEMMA ChainShifted ==
  ASSUME NEW e \in Nat, NEW n \in 0..(2 * XLEN), NEW k \in Chains, (k + 1) * CARRY_CHAIN <= n
  PROVE Chain(Double(e * 2^n), k) = 0
<1>1. k \in 0..NumChains /\ k + 1 \in 0..NumChains
  BY ChainFacts DEF Chains
<1> DEFINE j == (k + 1) * CARRY_CHAIN  w == 2^(k * CARRY_CHAIN)  u == 2^(n - j)
<1>2. j \in Nat /\ n - j \in Nat /\ j + (n - j) = n
  BY <1>1, ChainFacts, WidthAssumption
<1>3. 2^n = 2^j * u /\ u \in Nat
  <2>1. 2^(j + (n - j)) = 2^j * 2^(n - j)
    BY <1>2, PowAdd, WidthAssumption
  <2> QED BY <1>2, <2>1, PowNat, WidthAssumption
<1>4. 2^j = w * ChainBits /\ w \in Nat \ {0} /\ ChainBits \in Nat \ {0}
  BY <1>1, ChainFacts, PowNat, WidthAssumption
<1>5. Chain(Double(e * 2^n), k) = Chain(e * 2^n, k) /\ 2^n \in Nat
  <2>1. 2^n \in Nat
    BY PowNat, WidthAssumption
  <2>2. e * 2^n \in Int
    BY <2>1
  <2> QED BY <2>1, <2>2, ChainDouble
<1> HIDE DEF j, w, u
<1> DEFINE x == e * 2^n  y == ChainBits * (e * u)  z == e * u
<1>6. x = w * y + 0 /\ y = ChainBits * z + 0 /\ x \in Int /\ y \in Int /\ z \in Int
  <2>1. 2^n = (w * ChainBits) * u
    BY <1>3, <1>4
  <2>2. e * ((w * ChainBits) * u) = w * (ChainBits * (e * u))
    BY <1>3, <1>4
  <2>3. x = w * y
    BY <2>1, <2>2
  <2>4. y \in Int /\ z \in Int
    BY <1>3, <1>4
  <2> HIDE DEF y
  <2>5. w * y \in Int
    BY <1>4, <2>4
  <2>6. w * y + 0 = w * y
    BY <2>5
  <2> HIDE DEF z
  <2>7. y = ChainBits * z + 0
    BY <1>4, <2>4 DEF y, z
  <2> QED BY <2>3, <2>4, <2>5, <2>6, <2>7
<1> HIDE DEF x, y, z
<1>7. x \div w = y
  <2>1. 0 \in 0..(w - 1)
    BY <1>4
  <2> QED BY <1>4, <1>6, <2>1, DivModIs
<1>8. y % ChainBits = 0
  <2>1. 0 \in 0..(ChainBits - 1) /\ ChainBits \in Nat \ {0}
    BY <1>4
  <2> QED BY ZenonT(30), <1>6, <2>1, DivModIs
<1> QED BY <1>5, <1>7, <1>8 DEF Chain, x, w

(* MulStep: the carry-save adders of all chains together add the shifted     *)
(* operand if its bit is set, and lose no carry.                             *)
LEMMA MultiplicationStep ==
  ASSUME NEW e1 \in DWord, NEW e2 \in DWord, NEW n \in 0..(2 * XLEN - 1),
         NEW rs1, NEW rs2, NEW sum, NEW carries, NEW this,
         Multiplied(e1, e2, n, rs1, rs2, sum, carries),
         this = (IF rs1 % 2 = 1 THEN rs2 ELSE 0)
  PROVE Multiplied(e1, e2, n + 1, rs1 \div 2, Double(2 * rs2),
                   NextRd(sum, carries, this), NextRdx(sum, carries, this))
<1> DEFINE p == 2^n
<1>1. e1 \in Nat /\ e2 \in Nat /\ p \in Nat \ {0} /\ n \in 0..(2 * XLEN) /\ 2^(n + 1) = 2 * p
  BY PowNat, PowersAssumption, WidthAssumption, DoubleFacts DEF DWord
<1>2. /\ rs1 = e1 \div p /\ rs2 = Double(e2 * p) /\ sum \in DWord /\ carries \in DWord
      /\ Double(sum + carries + rs1 * rs2) = Double(e1 * e2)
      /\ \A k \in Chains : Chain(carries, k) \in {0, 1} /\ (k * CARRY_CHAIN < n => Chain(carries, k) = 0)
  BY DEF Multiplied
<1> HIDE DEF p
<1>3. e2 * p \in Nat
  BY <1>1
<1>4. rs1 \in Int /\ rs2 \in DWord /\ rs2 \in Nat /\ sum \in Nat /\ carries \in Nat
  BY <1>1, <1>2, <1>3, DivMod, DoubleRange, DoubleFacts DEF DWord
<1>5. this \in DWord /\ this \in Nat
  BY <1>4, DoubleFacts DEF DWord
<1> DEFINE sum1 == NextRd(sum, carries, this)  carries1 == NextRdx(sum, carries, this)
<1>6. /\ sum1 \in DWord /\ carries1 \in DWord
      /\ Double(sum1 + carries1) = Double(sum + carries + this)
      /\ \A k \in Chains : Chain(carries1, k) \in {0, 1}
      /\ Chain(carries1, 0) = 0
      /\ \A k \in Chains : Chain(carries, k) = 0 /\ Chain(this, k) = 0 /\ k + 1 \in Chains
           => Chain(carries1, k + 1) = 0
  BY <1>2, <1>5, CarrySave
<1> HIDE DEF sum1, carries1
<1>7. rs1 \div 2 = e1 \div 2^(n + 1)
  <2> DEFINE p1 == 2^(n + 1)  two == 2
  <2>1. p1 = p * two /\ e1 \in Int /\ p \in Nat \ {0} /\ two \in Nat \ {0}
    BY <1>1
  <2> HIDE DEF p1, two
  <2>2. (e1 \div p) \div two = e1 \div p1
    BY <2>1, DivDiv
  <2> QED BY <1>2, <2>2 DEF p1, two
<1>8. Double(2 * rs2) = Double(e2 * 2^(n + 1))
  <2> DEFINE m == 2^(2 * XLEN)  x == e2 * p  two == 2
  <2>1. m \in Nat \ {0} /\ x \in Int /\ two \in Int
    BY DoubleFacts, <1>3
  <2>2. rs2 = x % m
    BY <1>2 DEF Double
  <2> HIDE DEF m, x, two
  <2>3. (two * (x % m)) % m = (two * x) % m
    BY <2>1, ModInside
  <2>4. two * x = e2 * 2^(n + 1)
    BY <1>1 DEF x, two
  <2> QED BY <2>2, <2>3, <2>4 DEF Double, m, two
<1>9. Double(sum1 + carries1 + (rs1 \div 2) * Double(2 * rs2)) = Double(e1 * e2)
  <2> DEFINE m == 2^(2 * XLEN)  h == rs1 \div 2  b == rs1 % 2  x == 2 * rs2
             u == sum1 + carries1  v == sum + carries + this  y == h * (x % m)  z == h * x
  <2>1. m \in Nat \ {0} /\ h \in Int /\ b \in 0..1 /\ rs1 = 2 * h + b
    BY DoubleFacts, <1>4, DivMod
  <2>2. this = b * rs2
    <3>1. b = 0 \/ b = 1
      BY <2>1
    <3> HIDE DEF h, m
    <3> QED BY <3>1, <1>4
  <2>3. x \in Int /\ u \in Int /\ v \in Int /\ x % m \in Int
    <3>1. sum1 \in Int /\ carries1 \in Int
      BY <1>6, DoubleFacts DEF DWord
    <3>2. x \in Int
      BY <1>4
    <3>3. x % m \in Int
      BY <3>2, <2>1, DivMod
    <3> QED BY <3>1, <3>2, <3>3, <1>4, <1>5
  <2>4. u % m = v % m
    BY <1>6 DEF Double
  <2> HIDE DEF m, x, u, h, b
  <2>5. (h * (x % m)) % m = (h * x) % m /\ y \in Int /\ z \in Int
    <3>1. m \in Nat \ {0} /\ h \in Int /\ x \in Int /\ x % m \in Int
      BY <2>1, <2>3
    <3>2. (h * (x % m)) % m = (h * x) % m
      BY <3>1, ModInside
    <3> QED BY <3>1, <3>2
  <2>6. v + z = sum + carries + rs1 * rs2
    <3>1. (2 * h + b) * rs2 = b * rs2 + h * (2 * rs2) /\ b * rs2 \in Int /\ h * (2 * rs2) \in Int
      BY <2>1, <1>4
    <3>2. rs1 * rs2 = b * rs2 + h * (2 * rs2)
      BY <2>1, <3>1
    <3> QED BY <2>2, <3>1, <3>2, <1>4 DEF x
  <2>7. y % m = z % m
    BY <2>5
  <2> HIDE DEF y, z, v
  <2>8. (u + y) % m = (v + z) % m
    <3>1. m \in Nat \ {0} /\ u \in Int /\ v \in Int /\ y \in Int /\ z \in Int
      BY <2>1, <2>3, <2>5
    <3>2. PICK i \in Int : u = v + m * i
      BY <3>1, <2>4, ModSame
    <3>3. PICK j \in Int : y = z + m * j
      BY <3>1, <2>7, ModSame
    <3> DEFINE left == u + y  right == v + z  turns == i + j
    <3>4. left = right + m * turns /\ left \in Int /\ right \in Int /\ turns \in Int
      BY <3>1, <3>2, <3>3
    <3> HIDE DEF left, right, turns
    <3>5. left % m = right % m
      BY <3>1, <3>4, ModMul
    <3> QED BY <3>5 DEF left, right
  <2>9. (v + z) % m = Double(e1 * e2)
    BY <1>2, <2>6 DEF Double, m
  <2> QED BY <2>8, <2>9 DEF Double, m, u, y, h, x
<1>10. ASSUME NEW k \in Chains, k * CARRY_CHAIN < n + 1 PROVE Chain(carries1, k) = 0
  <2>1. CASE k = 0
    BY <2>1, <1>6
  <2>2. CASE k # 0
    <3>1. k - 1 \in Chains /\ (k - 1) + 1 = k /\ k \in Nat
      BY <2>2, ChainFacts DEF Chains
    <3>2. (k - 1) * CARRY_CHAIN = k * CARRY_CHAIN - CARRY_CHAIN
      BY <3>1, ChainAssumption
    <3>3. k * CARRY_CHAIN <= n /\ (k - 1) * CARRY_CHAIN < n
      BY <3>1, <3>2, <1>10, ChainAssumption
    <3>4. Chain(carries, k - 1) = 0
      BY <1>2, <3>1, <3>3
    <3>5. Chain(rs2, k - 1) = 0
      <4> DEFINE j == k - 1
      <4>1. j \in Chains /\ (j + 1) * CARRY_CHAIN <= n
        BY <3>1, <3>3
      <4> HIDE DEF j
      <4>2. Chain(Double(e2 * 2^n), j) = 0
        BY <4>1, <1>1, ChainShifted
      <4> QED BY <4>2, <1>2 DEF p, j
    <3>6. Chain(this, k - 1) = 0
      BY <3>1, <3>5, ChainZero
    <3> QED BY <1>6, <3>1, <3>4, <3>6
  <2> QED BY <2>1, <2>2
<1> QED BY <1>6, <1>7, <1>8, <1>9, <1>10 DEF Multiplied, sum1, carries1

(* Carries without a bit in the first j chains.                               *)
LEMMA ChainsEmpty ==
  ASSUME NEW x \in DWord, NEW j \in 0..NumChains, \A k \in Chains : k < j => Chain(x, k) = 0
  PROVE x = 2^(j * CARRY_CHAIN) * (x \div 2^(j * CARRY_CHAIN))
<1> DEFINE W(k) == 2^(k * CARRY_CHAIN)
           T == {k \in Nat : k <= j => x = W(k) * (x \div W(k))}
<1>0. x \in Int /\ NumChains \in Nat /\ ChainBits \in Nat \ {0}
  BY ChainFacts, DoubleFacts DEF DWord
<1>1. 0 \in T
  <2>1. W(0) = 1 /\ x \div 1 = x
    <3>1. 0 * CARRY_CHAIN = 0
      BY ChainAssumption
    <3>2. x \div 1 = x
      BY <1>0, DivModIs
    <3> QED BY <3>1, <3>2, PowersAssumption
  <2> QED BY <2>1, <1>0
<1>2. ASSUME NEW k \in Nat, k \in T PROVE k + 1 \in T
  <2> SUFFICES ASSUME k + 1 <= j PROVE x = W(k + 1) * (x \div W(k + 1))
    OBVIOUS
  <2>1. k \in Chains /\ k < j /\ k \in 0..NumChains /\ k + 1 \in 0..NumChains
    BY <1>0 DEF Chains
  <2> DEFINE w == W(k)  w1 == W(k + 1)  y == x \div w  y1 == x \div w1
  <2>2. x = w * y
    BY <1>2, <2>1
  <2>3. y = Chain(x, k) + ChainBits * y1
    BY <1>0, <2>1, Tails
  <2>4. Chain(x, k) = 0
    BY <2>1
  <2>5. w1 = w * ChainBits /\ w \in Nat \ {0}
    BY <2>1, ChainFacts, PowNat, WidthAssumption
  <2>6. y1 \in Int
    BY <1>0, <2>1, ChainNat
  <2> HIDE DEF w, w1, y, y1
  <2>7. y = ChainBits * y1
    <3>1. ChainBits * y1 \in Int
      BY <1>0, <2>6
    <3> QED BY <2>3, <2>4, <3>1
  <2>8. x = w1 * y1
    BY <2>2, <2>5, <2>6, <2>7, <1>0
  <2> QED BY <2>8 DEF w1, y1
<1> HIDE DEF T
<1>3. Nat \subseteq T
  BY <1>1, <1>2, Induction
<1> QED BY <1>3 DEF T

(* After a step for every bit of the double word no carry is left, and the   *)
(* sum is the product.                                                       *)
LEMMA MultiplicationEnds ==
  ASSUME NEW e1 \in DWord, NEW e2 \in DWord, NEW rs1, NEW rs2, NEW sum, NEW carries,
         Multiplied(e1, e2, 2 * XLEN, rs1, rs2, sum, carries)
  PROVE sum = Double(e1 * e2)
<1>1. /\ rs1 = e1 \div 2^(2 * XLEN) /\ rs2 = Double(e2 * 2^(2 * XLEN)) /\ sum \in DWord /\ carries \in DWord
      /\ Double(sum + carries + rs1 * rs2) = Double(e1 * e2)
      /\ \A k \in Chains : k * CARRY_CHAIN < 2 * XLEN => Chain(carries, k) = 0
  BY DEF Multiplied
<1>2. rs1 = 0
  BY <1>1, ModSmall, DoubleFacts DEF DWord
<1>3. carries = 0
  <2>1. \A k \in Chains : k * CARRY_CHAIN < 2 * XLEN
    <3> TAKE k \in Chains
    <3>1. k \in Nat /\ k < NumChains /\ NumChains \in Nat /\ NumChains * CARRY_CHAIN = 2 * XLEN
      BY ChainFacts DEF Chains
    <3>2. k * CARRY_CHAIN < NumChains * CARRY_CHAIN
      BY <3>1, ChainAssumption
    <3> QED BY <3>1, <3>2
  <2>2. carries = 2^(2 * XLEN) * (carries \div 2^(2 * XLEN))
    <3>1. NumChains \in 0..NumChains /\ NumChains * CARRY_CHAIN = 2 * XLEN
      BY ChainFacts
    <3>2. carries = 2^(NumChains * CARRY_CHAIN) * (carries \div 2^(NumChains * CARRY_CHAIN))
      BY <1>1, <2>1, <3>1, ChainsEmpty
    <3> QED BY <3>1, <3>2
  <2>3. carries \div 2^(2 * XLEN) = 0
    BY <1>1, ModSmall, DoubleFacts DEF DWord
  <2> QED BY <2>2, <2>3, DoubleFacts
<1>4. rs2 \in Int /\ sum \in Int
  <2>1. e2 * 2^(2 * XLEN) \in Int
    BY DoubleFacts DEF DWord
  <2> QED BY <2>1, <1>1, DoubleRange, DoubleFacts DEF DWord
<1>5. sum + carries + rs1 * rs2 = sum
  BY <1>2, <1>3, <1>4
<1>6. Double(sum) = sum
  BY <1>1, ModSmall, DoubleFacts DEF Double, DWord
<1> QED BY <1>1, <1>5, <1>6

(* The low word of a double word is that of the number it was cut from.      *)
LEMMA LowDouble == ASSUME NEW x \in Int PROVE Low(Double(x)) = Low(x)
<1> DEFINE p == 2^XLEN  m == 2^(2 * XLEN)
<1>1. p \in Nat \ {0} /\ m = p * p
  BY DoubleFacts
<1> HIDE DEF p, m
<1>2. (x % m) % p = x % p
  BY <1>1, DivDiv
<1> QED BY <1>2 DEF Low, Double, p, m

(* MUL stops after half the steps: the carries that are left lie above the   *)
(* low word.                                                                 *)
LEMMA MultiplicationEndsLow ==
  ASSUME NEW e1 \in DWord, NEW e2 \in DWord, NEW rs1, NEW rs2, NEW sum, NEW carries,
         Multiplied(e1, e2, XLEN, rs1, rs2, sum, carries)
  PROVE Low(sum) = Low(e1 * e2)
<1> DEFINE p == 2^XLEN
<1>0. p \in Nat \ {0} /\ e1 \in Nat /\ e2 \in Nat
  BY DoubleFacts DEF DWord
<1>1. /\ rs1 = e1 \div p /\ rs2 = Double(e2 * p) /\ sum \in DWord /\ carries \in DWord
      /\ Double(sum + carries + rs1 * rs2) = Double(e1 * e2)
      /\ \A k \in Chains : k * CARRY_CHAIN < XLEN => Chain(carries, k) = 0
  BY DEF Multiplied
<1>2. rs1 \in Int /\ sum \in Int /\ carries \in Int
  BY <1>0, <1>1, DivMod, DoubleFacts DEF DWord
<1>3. rs2 % p = 0 /\ rs2 \in Int
  <2> DEFINE x == e2 * p
  <2>1. x \in Int
    BY <1>0
  <2>2. rs2 \in Int /\ Low(rs2) = Low(x)
    BY <1>1, <2>1, LowDouble, DoubleRange
  <2>3. x = p * e2 + 0 /\ 0 \in 0..(p - 1)
    BY <1>0
  <2> HIDE DEF x, p
  <2>4. x % p = 0
    BY <1>0, <2>1, <2>3, DivModIs
  <2> QED BY <2>2, <2>4 DEF Low, p
<1>4. carries % p = 0
  <2> DEFINE j == (XLEN + (CARRY_CHAIN - 1)) \div CARRY_CHAIN
             r == (XLEN + (CARRY_CHAIN - 1)) % CARRY_CHAIN
  <2>1. j \in Int /\ r \in 0..(CARRY_CHAIN - 1) /\ XLEN + (CARRY_CHAIN - 1) = CARRY_CHAIN * j + r
    <3>1. XLEN + (CARRY_CHAIN - 1) \in Int
      BY WidthAssumption, ChainAssumption
    <3> QED BY <3>1, ChainAssumption, DivMod
  <2> HIDE DEF j, r
  <2>2. XLEN <= j * CARRY_CHAIN /\ j * CARRY_CHAIN < XLEN + CARRY_CHAIN
    <3>1. CARRY_CHAIN * j = j * CARRY_CHAIN /\ j * CARRY_CHAIN \in Int
      BY <2>1, ChainAssumption
    <3> QED BY <2>1, <3>1, WidthAssumption, ChainAssumption
  <2>3. ASSUME NEW k \in Chains, k < j PROVE Chain(carries, k) = 0
    <3>1. k \in Int /\ k <= j - 1
      BY <2>1, <2>3 DEF Chains
    <3>2. k * CARRY_CHAIN <= (j - 1) * CARRY_CHAIN
      BY <3>1, <2>1, ChainAssumption
    <3>3. (j - 1) * CARRY_CHAIN = j * CARRY_CHAIN - CARRY_CHAIN
      BY <2>1, ChainAssumption
    <3>4. k * CARRY_CHAIN \in Int /\ j * CARRY_CHAIN \in Int
      BY <3>1, <2>1, ChainAssumption
    <3>5. k * CARRY_CHAIN < XLEN
      BY <2>2, <3>2, <3>3, <3>4, WidthAssumption, ChainAssumption
    <3> QED BY <1>1, <3>5
  <2>4. j \in 0..NumChains
    <3> DEFINE N == NumChains
    <3>0. N \in Nat /\ N * CARRY_CHAIN = 2 * XLEN /\ ChainAssumption!1
      BY ChainFacts, ChainAssumption
    <3> HIDE DEF N
    <3>1. j > 0
      <4> SUFFICES ASSUME j <= 0 PROVE FALSE
        BY <2>1
      <4>1. j * CARRY_CHAIN <= 0
        BY <2>1, ChainAssumption
      <4> QED BY <4>1, <2>1, <2>2, WidthAssumption, ChainAssumption
    <3>2. j <= N
      <4> SUFFICES ASSUME j >= N + 1 PROVE FALSE
        BY <2>1, <3>0
      <4>1. j * CARRY_CHAIN >= (N + 1) * CARRY_CHAIN
        BY <2>1, <3>0, ChainAssumption
      <4>2. (N + 1) * CARRY_CHAIN = N * CARRY_CHAIN + CARRY_CHAIN
        BY <3>0, ChainAssumption
      <4>3. j * CARRY_CHAIN \in Int
        BY <2>1, ChainAssumption
      <4> QED BY <4>1, <4>2, <4>3, <2>2, <3>0, WidthAssumption, ChainAssumption
    <3> QED BY <3>1, <3>2, <2>1 DEF N
  <2> DEFINE i == j * CARRY_CHAIN  y == carries \div 2^i  q == 2^(i - XLEN)
  <2>5. carries = 2^i * y
    BY <1>1, <2>3, <2>4, ChainsEmpty
  <2>6. i \in 0..(2 * XLEN)
    BY <2>4, ChainFacts
  <2>7. 2^i \in Nat \ {0} /\ q \in Nat /\ 2^i = p * q
    <3>1. XLEN + (i - XLEN) = i /\ i - XLEN \in Nat
      BY <2>2, <2>6, WidthAssumption
    <3>2. 2^(XLEN + (i - XLEN)) = 2^XLEN * 2^(i - XLEN)
      BY <3>1, <2>6, PowAdd, WidthAssumption
    <3> QED BY <3>1, <3>2, <2>6, PowNat, WidthAssumption
  <2>8. y \in Int
    BY <1>2, <2>7, DivMod
  <2> HIDE DEF q, y, i, p
  <2> DEFINE z == q * y
  <2>9. carries = p * z + 0 /\ z \in Int /\ 0 \in 0..(p - 1)
    BY <2>5, <2>7, <2>8, <1>0
  <2> HIDE DEF z
  <2>10. p \in Nat \ {0} /\ carries \in Int
    BY <1>0, <1>2
  <2> QED BY <2>9, <2>10, DivModIs
<1>5. Low(sum) = Low(sum + carries + rs1 * rs2)
  <2> DEFINE u == rs1 * rs2
  <2>1. u \in Int /\ u % p = 0 % p
    <3>1. (rs1 * (rs2 % p)) % p = (rs1 * rs2) % p
      <4> HIDE DEF p
      <4> QED BY <1>0, <1>2, <1>3, ModInside
    <3>2. rs1 * (rs2 % p) = 0
      BY <1>2, <1>3
    <3> QED BY <3>1, <3>2, <1>2, <1>3
  <2> HIDE DEF u, p
  <2>2. 0 % p = 0
    BY <1>0, ModSmall
  <2> DEFINE s == sum + carries
  <2>3. s \in Int /\ s % p = sum % p
    <3>1. (sum + (carries % p)) % p = (sum + carries) % p
      BY <1>0, <1>2, ModInside
    <3>2. sum + (carries % p) = sum
      BY <1>2, <1>4
    <3> QED BY <3>1, <3>2, <1>2
  <2> HIDE DEF s
  <2>4. (s + (u % p)) % p = (s + u) % p
    BY <1>0, <2>1, <2>3, ModInside
  <2>5. s + (u % p) = s
    BY <2>1, <2>2, <2>3
  <2> QED BY <2>3, <2>4, <2>5 DEF Low, p, s, u
<1>6. Low(sum + carries + rs1 * rs2) = Low(e1 * e2)
  <2> DEFINE x == sum + carries + rs1 * rs2  y == e1 * e2
  <2>1. x \in Int /\ y \in Int /\ Double(x) = Double(y)
    BY <1>0, <1>1, <1>2, <1>3
  <2> HIDE DEF x, y
  <2>2. Low(x) = Low(y)
    BY <2>1, LowDouble
  <2> QED BY <2>2 DEF x, y
<1> QED BY <1>5, <1>6

-----------------------------------------------------------------------------
(* What the registers hold.                                                  *)
CoreType ==
  /\ resetn \in BOOLEAN /\ pcpi_valid \in BOOLEAN
  /\ pcpi_rs1 \in Word /\ pcpi_rs2 \in Word
  /\ multiplier \in Multipliers /\ program \in DOMAIN Programs
  /\ pcpi_timeout_counter \in 0..PcpiTimeout /\ pcpi_timeout \in BOOLEAN
  /\ pause \in 0..2 /\ hold \in 0..1

(* The age of an offer in the time-out counter.                              *)
Aged(n) == pcpi_timeout_counter = PcpiTimeout - n /\ ~pcpi_timeout
Fresh == Aged(0)

(* An offer is only made out of reset, and after the pause with a fresh       *)
(* counter.  Of the audio unit an offer never ages.                          *)
CoreInv ==
  /\ resetn => hold = 0
  /\ pcpi_valid => pause = 0 /\ (~resetn => hold = 1)
  /\ ~pcpi_valid /\ pause = 0 => Fresh
  /\ pause = 1 => pcpi_timeout_counter = PcpiTimeout
  /\ pcpi_valid /\ pcpi_insn \in Audio!AudioInsns => Fresh

(* What a step does to the offer, whatever the units do.                     *)
LEMMA OfferSteps ==
  ASSUME CoreType, CoreInv, Clock
  PROVE /\ UNCHANGED <<multiplier, program>>
        /\ resetn' \in BOOLEAN /\ hold' \in 0..1
        /\ resetn' => hold' = 0
        /\ hold = 1 => ~resetn'
        /\ resetn /\ ~resetn' => hold' = 1
        /\ \/ /\ resetn /\ ~pcpi_valid /\ pcpi_valid' /\ pause = 0 /\ pause' = 0
              /\ pcpi_rs1' \in Word /\ pcpi_rs2' \in Word
           \/ /\ resetn /\ pcpi_valid /\ pcpi_valid' /\ ~pcpi_int_ready /\ ~pcpi_timeout
              /\ UNCHANGED <<pcpi_insn, pcpi_rs1, pcpi_rs2, pause>>
           \/ /\ resetn /\ pcpi_valid /\ ~pcpi_valid' /\ (pcpi_int_ready \/ pcpi_timeout)
              /\ pause' = 2 /\ UNCHANGED pcpi_insn
           \/ /\ resetn /\ ~pcpi_valid /\ ~pcpi_valid' /\ UNCHANGED pcpi_insn
              /\ pause' = IF pause > 0 THEN pause - 1 ELSE 0
           \/ ~resetn /\ ~pcpi_valid' /\ pause' = 2 /\ UNCHANGED pcpi_insn
        /\ pcpi_rs1' \in Word /\ pcpi_rs2' \in Word /\ pcpi_valid' \in BOOLEAN
<1> USE DEF CoreType, CoreInv
<1>1. UNCHANGED <<multiplier, program>>
  BY DEF Clock
<1>2. /\ resetn' \in BOOLEAN /\ hold' \in 0..1
      /\ resetn' => hold' = 0
      /\ hold = 1 => ~resetn'
      /\ resetn /\ ~resetn' => hold' = 1
  <2>1. resetn' \in IF hold > 0 THEN {FALSE} ELSE BOOLEAN
    BY DEF Clock, ResetLine
  <2>2. hold' = IF resetn /\ ~resetn' THEN 1 ELSE IF hold > 0 THEN hold - 1 ELSE 0
    BY DEF Clock, ResetLine, MinReset
  <2>3. resetn' \in BOOLEAN /\ (hold = 1 => ~resetn')
    <3>1. CASE hold = 1
      BY <2>1, <3>1
    <3>2. CASE hold = 0
      BY <2>1, <3>2
    <3> QED BY <3>1, <3>2
  <2>4. hold = 0 \/ hold = 1
    OBVIOUS
  <2> QED BY <2>2, <2>3, <2>4
<1>3. Running.operands \subseteq Word \X Word /\ Running.idle \subseteq Word
  BY ProgramsAssumption DEF Running
<1>4. ASSUME Idling PROVE pcpi_rs1' \in Word /\ pcpi_rs2' \in Word
  BY <1>3, <1>4 DEF Idling
<1>5. CASE Offer
  <2>1. pcpi_rs1' \in Word /\ pcpi_rs2' \in Word
    BY <1>3, <1>5 DEF Offer
  <2> QED BY <1>1, <1>2, <1>5, <2>1 DEF Offer
<1>6. CASE Wait
  BY <1>1, <1>2, <1>6 DEF Wait
<1>7. CASE Take
  BY <1>1, <1>2, <1>4, <1>7 DEF Take, Pause
<1>8. CASE Compute
  BY <1>1, <1>2, <1>4, <1>8 DEF Compute
<1>9. CASE Reset
  BY <1>1, <1>2, <1>4, <1>9 DEF Reset, Pause
<1> QED BY <1>5, <1>6, <1>7, <1>8, <1>9 DEF Clock

(* What it does to the time-out.                                             *)
LEMMA TimerSteps ==
  ASSUME CoreType, Clock
  PROVE /\ pcpi_timeout_counter' \in 0..PcpiTimeout /\ pcpi_timeout' \in BOOLEAN
        /\ ~resetn \/ ~pcpi_valid \/ pcpi_int_wait => pcpi_timeout_counter' = PcpiTimeout
        /\ resetn /\ pcpi_valid /\ ~pcpi_int_wait =>
             pcpi_timeout_counter' = IF pcpi_timeout_counter > 0 THEN pcpi_timeout_counter - 1 ELSE 0
        /\ pcpi_timeout' = (resetn /\ pcpi_timeout_counter = 0)
        /\ pcpi_timeout_counter > 0 => ~pcpi_timeout'
<1>1. pcpi_timeout_counter' = IF resetn /\ pcpi_valid /\ ~pcpi_int_wait
                             THEN (IF pcpi_timeout_counter > 0 THEN pcpi_timeout_counter - 1 ELSE 0)
                             ELSE PcpiTimeout
  BY DEF Clock, Timer
<1>2. pcpi_timeout' = (resetn /\ pcpi_timeout_counter = 0)
  BY DEF Clock, Timer
<1>3. pcpi_timeout' \in BOOLEAN /\ (pcpi_timeout_counter > 0 => ~pcpi_timeout')
  <2>1. (resetn /\ pcpi_timeout_counter = 0) \in BOOLEAN
    OBVIOUS
  <2>2. pcpi_timeout_counter > 0 => pcpi_timeout_counter # 0
    BY DEF CoreType
  <2> QED BY <1>2, <2>1, <2>2, Zenon
<1> QED BY <1>1, <1>2, <1>3, TimeoutAssumption DEF CoreType

(* The types and the core's part of the invariant are inductive on their     *)
(* own.                                                                      *)
LEMMA CoreStep ==
  ASSUME CoreType, CoreInv, Clock
  PROVE CoreType' /\ CoreInv'
<1>1. CoreType'
  BY OfferSteps, TimerSteps DEF CoreType
<1>2. (resetn => hold = 0)' /\ (pcpi_valid => pause = 0 /\ (~resetn => hold = 1))'
  BY OfferSteps DEF CoreInv, CoreType
<1>3. (pause = 1 => pcpi_timeout_counter = PcpiTimeout)'
  BY OfferSteps, TimerSteps DEF CoreInv, CoreType
<1>4. (~pcpi_valid /\ pause = 0 => Fresh)'
  BY OfferSteps, TimerSteps, TimeoutAssumption DEF CoreInv, CoreType, Fresh, Aged
<1>5. (pcpi_valid /\ pcpi_insn \in Audio!AudioInsns => Fresh)'
  <2>1. resetn /\ pcpi_valid /\ pcpi_insn \in Audio!AudioInsns => pcpi_int_ready
    BY DEF audio_ready, pcpi_int_ready
  <2> QED BY <2>1, OfferSteps, TimerSteps, TimeoutAssumption DEF CoreInv, CoreType, Fresh, Aged
<1> QED BY <1>1, <1>2, <1>3, <1>4, <1>5 DEF CoreInv

(* The fast multiplier works on an offer of its own in one stage after the    *)
(* other and answers from the last one; a shorter pipeline empties in the     *)
(* pause.                                                                    *)
Last == LastStage(multiplier.ffs)
FastControl ==
  /\ ~pcpi_valid => active = {} \/ (~multiplier.ffs /\ pause # 0 /\ active = {4 - pause})
  /\ pcpi_valid /\ pcpi_insn \in MulInsns =>
       \/ active = {} /\ Fresh
       \/ \E s \in 0..Last : active = {s} /\ Aged(s + 1)
  /\ pcpi_valid /\ pcpi_insn \notin MulInsns => active = {}

(* The divider: its control registers, and how it takes up an offer.  It      *)
(* leaves the decoder with its answer, so that it is free with the offer.    *)
DivType ==
  /\ div_insn \in DivInsns \cup {"none"}
  /\ div_wait \in BOOLEAN /\ div_wait_q \in BOOLEAN
  /\ running \in BOOLEAN /\ div_ready \in BOOLEAN

DivQuiet == ~running /\ ~div_ready
DivBusy == (running /\ ~div_ready) \/ (~running /\ div_ready)
DivOffered ==
  \/ div_insn = "none" /\ ~div_wait /\ Fresh /\ DivQuiet
  \/ div_insn = pcpi_insn /\ ~div_wait /\ ~div_wait_q /\ Aged(1) /\ DivQuiet
  \/ div_insn = pcpi_insn /\ div_wait /\ ~div_wait_q /\ Aged(2) /\ DivQuiet
  \/ div_insn = pcpi_insn /\ div_wait /\ div_wait_q /\ Fresh /\ DivBusy
DivFree ==
  /\ div_insn = "none" /\ DivQuiet
  /\ div_wait => div_wait_q /\ pause # 0
DivControl ==
  /\ ~pcpi_valid => DivFree
  /\ pcpi_valid /\ pcpi_insn \in DivInsns => DivOffered
  /\ pcpi_valid /\ pcpi_insn \notin DivInsns => div_insn = "none" /\ ~div_wait /\ DivQuiet

(* The sequential multiplier: its registers.                                 *)
MulType ==
  /\ mul_insn \in MulInsns \cup {"none"}
  /\ mul_wait \in BOOLEAN /\ mul_wait_q \in BOOLEAN
  /\ mul_waiting \in BOOLEAN /\ mul_finish \in BOOLEAN /\ mul_ready \in BOOLEAN

MulQuiet == mul_waiting /\ ~mul_finish /\ ~mul_ready
MulBusy ==
  \/ ~mul_waiting /\ ~mul_finish /\ ~mul_ready
  \/ mul_waiting /\ mul_finish /\ ~mul_ready
  \/ mul_waiting /\ ~mul_finish /\ mul_ready

(* The unit takes up an offer of its own in three steps before the counter    *)
(* of the core has run out, and holds the counter from then on.              *)
MulOffered ==
  \/ mul_insn = "none" /\ ~mul_wait /\ Fresh /\ MulQuiet
  \/ mul_insn = pcpi_insn /\ ~mul_wait /\ ~mul_wait_q /\ Aged(1) /\ MulQuiet
  \/ mul_insn = pcpi_insn /\ mul_wait /\ ~mul_wait_q /\ Aged(2) /\ MulQuiet
  \/ mul_insn = pcpi_insn /\ mul_wait /\ mul_wait_q /\ Fresh /\ MulBusy

(* Between offers it still believes for two cycles, which the pause outlasts, *)
(* that it is asked, but cannot start: it has waited before, or is reset.     *)
MulFree ==
  /\ MulQuiet
  /\ mul_insn # "none" => mul_wait /\ pause = 2
  /\ mul_wait => pause # 0 /\ (mul_wait_q \/ ~resetn)

MulControl ==
  /\ ~pcpi_valid => MulFree
  /\ pcpi_valid /\ pcpi_insn \in MulInsns => MulOffered
  /\ pcpi_valid /\ pcpi_insn \notin MulInsns => mul_insn = "none" /\ ~mul_wait /\ MulQuiet

(* What a clock edge does to the control of the multiplier.                  *)
LEMMA MulSteps ==
  ASSUME MulType, MulClock
  PROVE /\ MulType'
        /\ mul_insn' = IF resetn /\ pcpi_valid /\ pcpi_insn \in MulInsns THEN pcpi_insn ELSE "none"
        /\ mul_wait' <=> mul_insn # "none"
        /\ mul_wait_q' <=> mul_wait
        /\ mul_ready' <=> mul_finish /\ resetn
        /\ ~resetn => mul_waiting' /\ ~mul_finish'
        /\ resetn /\ mul_waiting => (mul_waiting' <=> ~(mul_wait /\ ~mul_wait_q)) /\ ~mul_finish'
        /\ resetn /\ ~mul_waiting => (mul_waiting' <=> mul_finish')
<1>1. mul_insn' = IF resetn /\ pcpi_valid /\ pcpi_insn \in MulInsns THEN pcpi_insn ELSE "none"
  BY DEF MulClock, MulDecode
<1>2. mul_insn' \in MulInsns \cup {"none"}
  BY <1>1, Zenon
<1>3. mul_wait' = (mul_insn # "none") /\ mul_wait_q' = mul_wait /\ mul_ready' = (mul_finish /\ resetn)
  BY DEF MulClock, MulAnswer
<1>4. (mul_insn # "none") \in BOOLEAN /\ (mul_finish /\ resetn) \in BOOLEAN
  OBVIOUS
<1>5. mul_wait' \in BOOLEAN /\ mul_wait_q' \in BOOLEAN /\ mul_ready' \in BOOLEAN
  BY <1>3, <1>4, Zenon DEF MulType
<1>6. /\ mul_wait' <=> mul_insn # "none"
      /\ mul_wait_q' <=> mul_wait
      /\ mul_ready' <=> mul_finish /\ resetn
  BY <1>3, Zenon
<1>7. /\ ~resetn => mul_waiting' /\ ~mul_finish'
      /\ resetn /\ mul_waiting => (mul_waiting' <=> ~(mul_wait /\ ~mul_wait_q)) /\ ~mul_finish'
      /\ resetn /\ ~mul_waiting => (mul_waiting' <=> mul_finish')
      /\ mul_waiting' \in BOOLEAN /\ mul_finish' \in BOOLEAN
  <2>1. CASE MulLoad
    BY <2>1 DEF MulLoad, mul_start
  <2>2. CASE MulStep
    <3>1. mul_finish' = (mul_counter < 0) /\ mul_waiting' = (mul_counter < 0) /\ resetn /\ ~mul_waiting
      BY <2>2 DEF MulStep
    <3>2. (mul_counter < 0) \in BOOLEAN
      OBVIOUS
    <3> QED BY <3>1, <3>2, Zenon
  <2>3. CASE MulReset
    BY <2>3 DEF MulReset
  <2> QED BY <2>1, <2>2, <2>3 DEF MulClock
<1> QED BY <1>1, <1>2, <1>5, <1>6, <1>7 DEF MulType

(* Who may answer an offer of an instruction of the multiplier.              *)
LEMMA MulAnswers ==
  ASSUME pcpi_valid, pcpi_insn \in MulInsns, multiplier.fast = FALSE, DivControl, ~pcpi_timeout,
         pcpi_int_ready
  PROVE mul_ready
<1>1. ~div_ready
  BY DEF DivControl, DivQuiet, MulInsns, DivInsns
<1>2. ~audio_ready
  BY DEF audio_ready, MulInsns, Audio!AudioInsns
<1> QED BY <1>1, <1>2, Zenon DEF pcpi_int_ready, pcpi_mul_ready

(* The control of the multiplier keeps pace with the offer.                  *)
LEMMA MulControlStep ==
  ASSUME CoreType, CoreInv, MulType, MulControl, multiplier.fast = FALSE, DivControl, Clock
  PROVE MulType' /\ MulControl'
<1>0. "none" \notin MulInsns
  BY DEF MulInsns
<1>1. MulClock
  BY DEF Clock, MultiplierClock
<1> DEFINE T == PcpiTimeout
<1>2. T \in Nat /\ T >= 4
  BY TimeoutAssumption
<1>3. MulType'
  BY <1>1, MulSteps
<1>4. CASE pcpi_valid /\ resetn /\ pcpi_insn \in MulInsns
  <2>1. mul_insn' = pcpi_insn
    BY <1>1, <1>4, MulSteps
  <2>2. CASE mul_insn = "none" /\ ~mul_wait /\ Fresh /\ MulQuiet
    <3>1. ~mul_wait' /\ ~mul_wait_q' /\ MulQuiet'
      BY <1>1, <1>4, <2>2, MulSteps DEF MulQuiet, MulType
    <3>2. ~pcpi_int_wait /\ ~pcpi_timeout /\ ~pcpi_int_ready
      <4>1. ~div_wait
        BY <1>4 DEF DivControl, MulInsns, DivInsns
      <4> QED BY <4>1, <2>2, <1>4, MulAnswers DEF pcpi_int_wait, MulQuiet, Fresh, Aged
    <3>3. pcpi_valid' /\ pcpi_insn' = pcpi_insn
      BY <1>4, <3>2, OfferSteps DEF CoreType
    <3>4. Aged(1)'
      BY <1>2, <1>4, <2>2, <3>2, TimerSteps DEF Aged, Fresh, CoreType
    <3> QED BY <1>3, <1>4, <2>1, <3>1, <3>3, <3>4 DEF MulControl, MulOffered
  <2>3. CASE mul_insn = pcpi_insn /\ ~mul_wait /\ ~mul_wait_q /\ Aged(1) /\ MulQuiet
    <3>1. mul_wait' /\ ~mul_wait_q' /\ MulQuiet'
      BY <1>0, <1>1, <1>4, <2>3, MulSteps DEF MulQuiet, MulType
    <3>2. ~pcpi_int_wait /\ ~pcpi_timeout /\ ~pcpi_int_ready
      <4>1. ~div_wait
        BY <1>4 DEF DivControl, MulInsns, DivInsns
      <4> QED BY <4>1, <2>3, <1>4, MulAnswers DEF pcpi_int_wait, MulQuiet, Aged
    <3>3. pcpi_valid' /\ pcpi_insn' = pcpi_insn
      BY <1>4, <3>2, OfferSteps DEF CoreType
    <3>4. Aged(2)'
      BY <1>2, <1>4, <2>3, <3>2, TimerSteps DEF Aged, Fresh, CoreType
    <3> QED BY <1>3, <1>4, <2>1, <3>1, <3>3, <3>4 DEF MulControl, MulOffered
  <2>4. CASE mul_insn = pcpi_insn /\ mul_wait /\ ~mul_wait_q /\ Aged(2) /\ MulQuiet
    <3>1. mul_wait' /\ mul_wait_q' /\ MulBusy'
      BY <1>0, <1>1, <1>4, <2>4, MulSteps DEF MulQuiet, MulBusy, MulType
    <3>2. pcpi_int_wait /\ ~pcpi_timeout /\ ~pcpi_int_ready
      BY <2>4, <1>4, MulAnswers DEF pcpi_int_wait, MulQuiet, Aged
    <3>3. pcpi_valid' /\ pcpi_insn' = pcpi_insn
      BY <1>4, <3>2, OfferSteps DEF CoreType
    <3>4. Fresh'
      BY <1>2, <1>4, <2>4, <3>2, TimerSteps DEF Aged, Fresh, CoreType
    <3> QED BY <1>3, <1>4, <2>1, <3>1, <3>3, <3>4 DEF MulControl, MulOffered
  <2>5. CASE mul_insn = pcpi_insn /\ mul_wait /\ mul_wait_q /\ Fresh /\ MulBusy
    <3>1. mul_wait' /\ mul_wait_q'
      BY <1>0, <1>1, <1>4, <2>5, MulSteps
    <3>2. pcpi_int_wait /\ ~pcpi_timeout
      BY <2>5 DEF pcpi_int_wait, Fresh, Aged
    <3>3. Fresh'
      BY <1>2, <1>4, <2>5, <3>2, TimerSteps DEF Aged, Fresh, CoreType
    <3>4. CASE pcpi_int_ready
      <4>1. mul_ready
        BY <1>4, <3>2, <3>4, MulAnswers
      <4>2. MulQuiet'
        BY <1>1, <1>4, <2>5, <4>1, MulSteps DEF MulQuiet, MulBusy, MulType
      <4>3. ~pcpi_valid' /\ pause' = 2
        BY <1>4, <3>4, OfferSteps
      <4> QED BY <1>3, <3>1, <4>2, <4>3 DEF MulControl, MulFree
    <3>5. CASE ~pcpi_int_ready
      <4>1. ~mul_ready
        BY <3>5 DEF pcpi_int_ready, pcpi_mul_ready
      <4>2. MulBusy'
        BY <1>1, <1>4, <2>5, <4>1, MulSteps DEF MulBusy, MulType
      <4>3. pcpi_valid' /\ pcpi_insn' = pcpi_insn
        BY <1>4, <3>2, <3>5, OfferSteps DEF CoreType
      <4> QED BY <1>3, <1>4, <2>1, <3>1, <3>3, <4>2, <4>3 DEF MulControl, MulOffered
    <3> QED BY <3>4, <3>5
  <2> QED BY <1>4, <2>2, <2>3, <2>4, <2>5 DEF MulControl, MulOffered
<1>5. CASE pcpi_valid /\ resetn /\ pcpi_insn \notin MulInsns
  <2>1. mul_insn' = "none" /\ ~mul_wait' /\ MulQuiet'
    BY <1>1, <1>5, MulSteps DEF MulControl, MulQuiet, MulType
  <2>2. pcpi_insn' = pcpi_insn
    BY <1>5, OfferSteps
  <2> QED BY <1>3, <1>5, <2>1, <2>2 DEF MulControl, MulFree
<1>6. CASE ~resetn
  <2>1. mul_insn' = "none" /\ MulQuiet'
    BY <1>1, <1>6, MulSteps DEF MulQuiet, MulType
  <2>2. ~pcpi_valid' /\ pause' = 2
    BY <1>6, OfferSteps
  <2>3. mul_wait' => mul_wait_q' \/ ~resetn'
    <3>1. CASE pcpi_valid
      BY <1>6, <3>1, OfferSteps DEF CoreInv
    <3>2. CASE ~pcpi_valid
      BY <1>0, <1>1, <3>2, MulSteps DEF MulControl, MulFree, MulType
    <3> QED BY <3>1, <3>2
  <2> QED BY <1>3, <2>1, <2>2, <2>3 DEF MulControl, MulFree
<1>7. CASE resetn /\ ~pcpi_valid
  <2>1. mul_insn' = "none" /\ MulQuiet'
    BY <1>1, <1>7, MulSteps DEF MulControl, MulFree, MulQuiet, MulType
  <2>2. mul_wait' => mul_wait_q' /\ pause = 2
    BY <1>1, <1>7, MulSteps DEF MulControl, MulFree, MulType
  <2>3. CASE ~pcpi_valid'
    <3>1. pause = 2 => pause' = 1
      BY <1>7, <2>3, OfferSteps
    <3> QED BY <1>3, <2>1, <2>2, <2>3, <3>1 DEF MulControl, MulFree
  <2>4. CASE pcpi_valid'
    <3>1. pause = 0
      BY <1>7, <2>4, OfferSteps
    <3>2. ~mul_wait'
      BY <2>2, <3>1
    <3>3. Fresh'
      BY <1>2, <1>7, <3>1, TimerSteps DEF Fresh, Aged, CoreInv, CoreType
    <3> QED BY <1>3, <2>1, <2>4, <3>2, <3>3 DEF MulControl, MulOffered
  <2> QED BY <1>3, <2>3, <2>4, OfferSteps
<1> QED BY <1>4, <1>5, <1>6, <1>7, <1>3, Zenon DEF CoreType

-----------------------------------------------------------------------------
MultiplierControl ==
  /\ multiplier.fast = FALSE => MulType /\ MulControl
  /\ multiplier.fast = TRUE => ~mul_wait /\ mul_waiting /\ FastControl
Control == CoreType /\ CoreInv /\ MultiplierControl /\ DivType /\ DivControl

(* The multipliers a core can be built with.                                 *)
LEMMA MultiplierCases ==
  ASSUME CoreType
  PROVE /\ multiplier.fast = FALSE \/ multiplier.fast = TRUE
        /\ multiplier.fast = TRUE => /\ multiplier.ffs \in BOOLEAN /\ multiplier.gated \in BOOLEAN
                                     /\ ~multiplier.ffs => ~multiplier.gated
                                     /\ Last = IF multiplier.ffs THEN 3 ELSE 1
<1>1. multiplier \in {Sequential, Fast(FALSE, FALSE), Fast(TRUE, FALSE), Fast(TRUE, TRUE)}
  BY MultipliersAssumption DEF CoreType
<1>2. CASE multiplier = Sequential
  <2>1. multiplier.fast = FALSE
    BY <1>2 DEF Sequential
  <2> QED BY <2>1
<1>3. ASSUME NEW f \in BOOLEAN, NEW g \in BOOLEAN, multiplier = Fast(f, g), ~f => ~g
      PROVE /\ multiplier.fast = TRUE /\ multiplier.ffs \in BOOLEAN /\ multiplier.gated \in BOOLEAN
            /\ ~multiplier.ffs => ~multiplier.gated
            /\ Last = IF multiplier.ffs THEN 3 ELSE 1
  <2>1. multiplier.fast = TRUE /\ multiplier.ffs = f /\ multiplier.gated = g
    BY <1>3 DEF Fast
  <2>2. Last = IF f THEN 3 ELSE 1
    BY <2>1, Zenon DEF Last, LastStage
  <2> QED BY <1>3, <2>1, <2>2, Zenon
<1> QED BY <1>1, <1>2, <1>3

(* Of an offer nobody but the unit that knows it says anything.              *)
LEMMA OnlyOneAnswers ==
  ASSUME Control, pcpi_valid
  PROVE /\ pcpi_insn \notin MulInsns => ~pcpi_mul_ready /\ ~mul_wait
        /\ pcpi_insn \notin DivInsns => ~div_ready /\ ~div_wait
        /\ pcpi_insn \notin Audio!AudioInsns => ~audio_ready
<1>1. pcpi_insn \notin MulInsns => ~pcpi_mul_ready /\ ~mul_wait
  BY MultiplierCases DEF Control, MultiplierControl, MulControl, MulQuiet, FastControl, pcpi_mul_ready, fast_ready
<1>2. pcpi_insn \notin DivInsns => ~div_ready /\ ~div_wait
  BY DEF Control, DivControl, DivQuiet
<1>3. pcpi_insn \notin Audio!AudioInsns => ~audio_ready
  BY DEF audio_ready
<1> QED BY <1>1, <1>2, <1>3

(* No instruction belongs to two units.                                      *)
LEMMA KnownOnce ==
  /\ \A i \in MulInsns : i \notin DivInsns /\ i \notin Audio!AudioInsns /\ i # "none"
  /\ \A i \in DivInsns : i \notin MulInsns /\ i \notin Audio!AudioInsns /\ i # "none"
BY DEF MulInsns, DivInsns, Audio!AudioInsns

(* What a clock edge does to the stages of the fast multiplier.              *)
LEMMA FastSteps ==
  ASSUME FastClock(multiplier.ffs, multiplier.gated), multiplier.ffs \in BOOLEAN,
         Last = IF multiplier.ffs THEN 3 ELSE 1, resetn \in BOOLEAN
  PROVE /\ ~resetn => active' = {}
        /\ active = {} /\ resetn /\ pcpi_valid /\ pcpi_insn \in MulInsns => active' = {0}
        /\ active = {} /\ ~(pcpi_valid /\ pcpi_insn \in MulInsns) => active' = {}
        /\ resetn => \A s \in 0..Last : active = {s} => active' = IF s = 3 THEN {} ELSE {s + 1}
        /\ resetn /\ ~pcpi_valid => /\ active = {2} => active' = {3}
                                    /\ active = {3} => active' = {}
<1> DEFINE moved == {stage + 1 : stage \in active \ {3}}
<1>1. active' = IF resetn THEN (IF FastStarts(multiplier.ffs) THEN {0} ELSE {}) \cup moved ELSE {}
  BY DEF FastClock
<1>2. FastStarts(multiplier.ffs) <=>
        resetn /\ pcpi_valid /\ pcpi_insn \in MulInsns /\ active \cap (0..Last) = {}
  BY KnownOnce DEF FastStarts, fast_insn, Last
<1>3. active = {} => moved = {}
  OBVIOUS
<1>4. ASSUME NEW s \in 0..3, active = {s} PROVE moved = IF s = 3 THEN {} ELSE {s + 1}
  BY <1>4
<1>5. ASSUME NEW s \in 0..Last, active = {s} PROVE s \in 0..3 /\ active \cap (0..Last) # {}
  BY <1>5
<1> HIDE DEF moved
<1>6. ~resetn => active' = {}
  BY <1>1
<1>7. active = {} /\ resetn /\ pcpi_valid /\ pcpi_insn \in MulInsns => active' = {0}
  BY <1>1, <1>2, <1>3
<1>8. active = {} /\ ~(pcpi_valid /\ pcpi_insn \in MulInsns) => active' = {}
  BY <1>1, <1>2, <1>3
<1>9. ASSUME resetn, NEW s \in 0..Last, active = {s} PROVE active' = IF s = 3 THEN {} ELSE {s + 1}
  <2>1. s \in 0..3 /\ ~FastStarts(multiplier.ffs)
    BY <1>2, <1>5, <1>9
  <2>2. moved = IF s = 3 THEN {} ELSE {s + 1}
    BY <1>4, <1>9, <2>1
  <2> QED BY <1>1, <1>9, <2>1, <2>2
<1>10. ASSUME resetn, ~pcpi_valid PROVE /\ active = {2} => active' = {3}
                                        /\ active = {3} => active' = {}
  <2>1. active' = moved
    BY <1>1, <1>2, <1>10
  <2>2. active = {2} => moved = {3}
    BY <1>4
  <2>3. active = {3} => moved = {}
    BY <1>4
  <2> QED BY <2>1, <2>2, <2>3
<1> QED BY <1>6, <1>7, <1>8, <1>9, <1>10

(* Its stages keep pace with the offer, and it holds no stale instruction    *)
(* when the next one comes.                                                  *)
LEMMA FastControlStep ==
  ASSUME Control, multiplier.fast = TRUE, Clock
  PROVE ~mul_wait' /\ mul_waiting' /\ FastControl'
<1> USE DEF Control, MultiplierControl
<1>1. /\ FastClock(multiplier.ffs, multiplier.gated) /\ mul_wait' = mul_wait /\ mul_waiting' = mul_waiting
      /\ multiplier.ffs \in BOOLEAN /\ Last = (IF multiplier.ffs THEN 3 ELSE 1) /\ Last' = Last
      /\ multiplier' = multiplier
  BY MultiplierCases DEF Clock, MultiplierClock, mulVars, Last
<1>2. PcpiTimeout \in Nat /\ PcpiTimeout >= 4
  BY TimeoutAssumption
<1>3. ~mul_wait' /\ mul_waiting'
  BY <1>1
<1>4. CASE pcpi_valid /\ resetn /\ pcpi_insn \in MulInsns
  <2>0. ~div_ready /\ ~audio_ready /\ ~pcpi_int_wait
    BY <1>4, OnlyOneAnswers, KnownOnce DEF pcpi_int_wait
  <2>1. CASE active = {} /\ Fresh
    <3>1. active' = {0}
      BY <1>1, <1>4, <2>1, FastSteps DEF CoreType
    <3>2. ~pcpi_int_ready /\ ~pcpi_timeout
      BY <2>0, <2>1 DEF pcpi_int_ready, pcpi_mul_ready, fast_ready, Fresh, Aged
    <3>3. pcpi_valid' /\ pcpi_insn' = pcpi_insn
      BY <1>4, <3>2, OfferSteps DEF CoreType
    <3>4. Aged(1)'
      BY <1>2, <1>4, <2>0, <2>1, TimerSteps DEF Aged, Fresh, CoreType
    <3> QED BY <1>1, <1>3, <1>4, <3>1, <3>3, <3>4 DEF FastControl
  <2>2. CASE \E s \in 0..Last : active = {s} /\ Aged(s + 1)
    <3>1. PICK s \in 0..Last : active = {s} /\ Aged(s + 1)
      BY <2>2
    <3>2. active' = IF s = 3 THEN {} ELSE {s + 1}
      BY <1>1, <1>4, <3>1, FastSteps DEF CoreType
    <3>3. pcpi_mul_ready <=> s = Last
      BY <3>1 DEF pcpi_mul_ready, fast_ready, Last
    <3>4. CASE s = Last
      <4>1. ~pcpi_valid' /\ pause' = 2
        BY <1>4, <3>3, <3>4, OfferSteps DEF pcpi_int_ready
      <4>2. active' = IF multiplier.ffs THEN {} ELSE {4 - pause'}
        BY <1>1, <3>2, <3>4, <4>1
      <4> QED BY <1>1, <1>3, <4>1, <4>2 DEF FastControl
    <3>5. CASE s # Last
      <4>1. ~pcpi_int_ready /\ ~pcpi_timeout
        BY <2>0, <3>1, <3>3, <3>5 DEF pcpi_int_ready, Aged
      <4>2. pcpi_valid' /\ pcpi_insn' = pcpi_insn
        BY <1>4, <4>1, OfferSteps DEF CoreType
      <4>3. Aged(s + 2)'
        <5>1. s \in 0..2
          BY <1>1, <3>5
        <5> QED BY <1>2, <1>4, <2>0, <3>1, <5>1, TimerSteps DEF Aged, CoreType
      <4>4. s + 1 \in 0..Last /\ active' = {s + 1} /\ s + 2 = (s + 1) + 1
        BY <1>1, <3>2, <3>5
      <4> QED BY <1>1, <1>3, <1>4, <4>2, <4>3, <4>4 DEF FastControl
    <3> QED BY <3>4, <3>5
  <2> QED BY <1>4, <2>1, <2>2 DEF FastControl
<1>5. CASE pcpi_valid /\ resetn /\ pcpi_insn \notin MulInsns
  <2>1. active' = {}
    BY <1>1, <1>5, FastSteps DEF FastControl, CoreType
  <2>2. pcpi_insn' = pcpi_insn
    BY <1>5, OfferSteps
  <2> QED BY <1>3, <1>5, <2>1, <2>2 DEF FastControl
<1>6. CASE ~resetn
  <2>1. active' = {} /\ ~pcpi_valid'
    BY <1>1, <1>6, FastSteps, OfferSteps DEF CoreType
  <2> QED BY <1>3, <2>1 DEF FastControl
<1>7. CASE resetn /\ ~pcpi_valid
  <2>1. CASE active = {}
    <3>1. active' = {}
      BY <1>1, <1>7, <2>1, FastSteps DEF CoreType
    <3>2. pcpi_valid' => Fresh'
      BY <1>2, <1>7, OfferSteps, TimerSteps DEF Fresh, Aged, CoreInv, CoreType
    <3> QED BY <1>3, <3>1, <3>2 DEF FastControl
  <2>2. CASE ~multiplier.ffs /\ pause # 0 /\ active = {4 - pause}
    <3>1. ~pcpi_valid' /\ pause' = pause - 1 /\ (pause = 1 \/ pause = 2)
      BY <1>7, <2>2, OfferSteps DEF CoreType
    <3>2. CASE pause = 2
      <4>1. active' = {3} /\ pause' = 1
        BY <1>1, <1>7, <2>2, <3>1, <3>2, FastSteps DEF CoreType
      <4>2. ~multiplier'.ffs
        BY <1>1, <2>2
      <4> QED BY <1>3, <3>1, <4>1, <4>2 DEF FastControl
    <3>3. CASE pause = 1
      <4>1. active' = {}
        BY <1>1, <1>7, <2>2, <3>3, FastSteps DEF CoreType
      <4> QED BY <1>3, <3>1, <4>1 DEF FastControl
    <3> QED BY <3>1, <3>2, <3>3
  <2> QED BY <1>7, <2>1, <2>2 DEF FastControl
<1> QED BY <1>4, <1>5, <1>6, <1>7, Zenon DEF CoreType

(* What a clock edge does to the control of the divider.                     *)
LEMMA DivSteps ==
  ASSUME DivType, DivClock, resetn \in BOOLEAN, pcpi_valid \in BOOLEAN
  PROVE /\ DivType'
        /\ div_insn' = IF resetn /\ pcpi_valid /\ ~div_ready /\ pcpi_insn \in DivInsns THEN pcpi_insn ELSE "none"
        /\ div_wait' <=> div_insn # "none" /\ resetn
        /\ div_wait_q' <=> div_wait /\ resetn
        /\ ~resetn => ~running' /\ ~div_ready'
        /\ resetn /\ div_start => running' /\ ~div_ready'
        /\ resetn /\ ~div_start /\ running => (running' /\ ~div_ready') \/ (~running' /\ div_ready')
        /\ resetn /\ ~div_start /\ ~running => ~running' /\ ~div_ready'
<1>1. div_insn' = IF resetn /\ pcpi_valid /\ ~div_ready /\ pcpi_insn \in DivInsns THEN pcpi_insn ELSE "none"
  BY DEF DivClock, DivDecode
<1>2. div_insn' \in DivInsns \cup {"none"}
  BY <1>1, Zenon
<1>3. div_wait' = (div_insn # "none" /\ resetn) /\ div_wait_q' = (div_wait /\ resetn)
  BY DEF DivClock
<1>4. (div_insn # "none" /\ resetn) \in BOOLEAN /\ (div_wait /\ resetn) \in BOOLEAN
  OBVIOUS
<1>5. div_wait' \in BOOLEAN /\ div_wait_q' \in BOOLEAN
  BY <1>3, <1>4, Zenon
<1>6. /\ div_wait' <=> div_insn # "none" /\ resetn
      /\ div_wait_q' <=> div_wait /\ resetn
  BY <1>3, Zenon
<1>7. /\ running' \in BOOLEAN /\ div_ready' \in BOOLEAN
      /\ ~resetn => ~running' /\ ~div_ready'
      /\ resetn /\ div_start => running' /\ ~div_ready'
      /\ resetn /\ ~div_start /\ running => (running' /\ ~div_ready') \/ (~running' /\ div_ready')
      /\ resetn /\ ~div_start /\ ~running => ~running' /\ ~div_ready'
  <2>1. CASE DivLoad
    BY <2>1 DEF DivLoad, DivType
  <2>2. CASE DivFinish
    BY <2>2 DEF DivFinish, DivType
  <2>3. CASE DivStep
    BY <2>3 DEF DivStep, DivType
  <2>4. CASE DivReset
    BY <2>4 DEF DivReset, DivType
  <2> QED BY <2>1, <2>2, <2>3, <2>4 DEF DivClock
<1> QED BY <1>1, <1>2, <1>5, <1>6, <1>7 DEF DivType

(* The control of the divider keeps pace with the offer.                     *)
LEMMA DivControlStep ==
  ASSUME Control, Clock
  PROVE DivType' /\ DivControl'
<1> USE DEF Control
<1>0. "none" \notin DivInsns
  BY DEF DivInsns
<1>1. DivClock /\ resetn \in BOOLEAN /\ pcpi_valid \in BOOLEAN
  BY DEF Clock, CoreType
<1>2. PcpiTimeout \in Nat /\ PcpiTimeout >= 4
  BY TimeoutAssumption
<1>3. DivType'
  BY <1>1, DivSteps
<1>4. CASE pcpi_valid /\ resetn /\ pcpi_insn \in DivInsns
  <2>0. /\ ~mul_wait
        /\ pcpi_int_ready <=> div_ready
        /\ pcpi_int_wait <=> div_wait
    <3>1. ~pcpi_mul_ready /\ ~mul_wait /\ ~audio_ready
      BY <1>4, OnlyOneAnswers, KnownOnce
    <3> QED BY <3>1 DEF pcpi_int_ready, pcpi_int_wait
  <2>1. ~div_ready => div_insn' = pcpi_insn
    BY <1>1, <1>4, DivSteps
  <2>2. CASE div_insn = "none" /\ ~div_wait /\ Fresh /\ DivQuiet
    <3>1. ~div_wait' /\ ~div_wait_q' /\ DivQuiet'
      BY <1>1, <1>4, <2>2, DivSteps DEF DivQuiet, DivType, div_start
    <3>2. pcpi_valid' /\ pcpi_insn' = pcpi_insn
      BY <1>4, <2>0, <2>2, OfferSteps DEF CoreType, DivQuiet, Fresh, Aged
    <3>3. Aged(1)'
      BY <1>2, <1>4, <2>0, <2>2, TimerSteps DEF Aged, Fresh, CoreType
    <3> QED BY <1>3, <1>4, <2>1, <2>2, <3>1, <3>2, <3>3 DEF DivControl, DivOffered, DivQuiet
  <2>3. CASE div_insn = pcpi_insn /\ ~div_wait /\ ~div_wait_q /\ Aged(1) /\ DivQuiet
    <3>1. div_wait' /\ ~div_wait_q' /\ DivQuiet'
      BY <1>0, <1>1, <1>4, <2>3, DivSteps DEF DivQuiet, DivType, div_start
    <3>2. pcpi_valid' /\ pcpi_insn' = pcpi_insn
      BY <1>4, <2>0, <2>3, OfferSteps DEF CoreType, DivQuiet, Aged
    <3>3. Aged(2)'
      BY <1>2, <1>4, <2>0, <2>3, TimerSteps DEF Aged, Fresh, CoreType
    <3> QED BY <1>3, <1>4, <2>1, <2>3, <3>1, <3>2, <3>3 DEF DivControl, DivOffered, DivQuiet
  <2>4. CASE div_insn = pcpi_insn /\ div_wait /\ ~div_wait_q /\ Aged(2) /\ DivQuiet
    <3>1. div_wait' /\ div_wait_q' /\ DivBusy'
      BY <1>0, <1>1, <1>4, <2>4, DivSteps DEF DivQuiet, DivBusy, DivType, div_start
    <3>2. pcpi_valid' /\ pcpi_insn' = pcpi_insn
      BY <1>4, <2>0, <2>4, OfferSteps DEF CoreType, DivQuiet, Aged
    <3>3. Fresh'
      BY <1>2, <1>4, <2>0, <2>4, TimerSteps DEF Aged, Fresh, CoreType
    <3> QED BY <1>3, <1>4, <2>1, <2>4, <3>1, <3>2, <3>3 DEF DivControl, DivOffered, DivQuiet
  <2>5. CASE div_insn = pcpi_insn /\ div_wait /\ div_wait_q /\ Fresh /\ DivBusy
    <3>1. div_wait' /\ div_wait_q'
      BY <1>0, <1>1, <1>4, <2>5, DivSteps
    <3>2. Fresh'
      BY <1>2, <1>4, <2>0, <2>5, TimerSteps DEF Aged, Fresh, CoreType
    <3>3. CASE div_ready
      <4>1. ~pcpi_valid' /\ pause' = 2
        BY <1>4, <2>0, <3>3, OfferSteps
      <4>2. div_insn' = "none" /\ DivQuiet'
        BY <1>1, <1>4, <2>5, <3>3, DivSteps DEF DivQuiet, DivBusy, DivType, div_start
      <4> QED BY <1>3, <3>1, <4>1, <4>2 DEF DivControl, DivFree
    <3>4. CASE ~div_ready
      <4>1. pcpi_valid' /\ pcpi_insn' = pcpi_insn
        BY <1>4, <2>0, <2>5, <3>4, OfferSteps DEF CoreType, Fresh, Aged
      <4>2. DivBusy'
        BY <1>1, <1>4, <2>5, <3>4, DivSteps DEF DivBusy, DivType, div_start
      <4> QED BY <1>3, <1>4, <2>1, <3>1, <3>2, <3>4, <4>1, <4>2 DEF DivControl, DivOffered
    <3> QED BY <3>3, <3>4
  <2> QED BY <1>4, <2>2, <2>3, <2>4, <2>5 DEF DivControl, DivOffered
<1>5. CASE pcpi_valid /\ resetn /\ pcpi_insn \notin DivInsns
  <2>1. div_insn' = "none" /\ ~div_wait' /\ DivQuiet'
    BY <1>1, <1>5, DivSteps DEF DivControl, DivQuiet, DivType, div_start
  <2>2. pcpi_insn' = pcpi_insn
    BY <1>5, OfferSteps
  <2> QED BY <1>3, <1>5, <2>1, <2>2 DEF DivControl, DivFree
<1>6. CASE ~resetn
  <2>1. div_insn' = "none" /\ ~div_wait' /\ DivQuiet'
    BY <1>1, <1>6, DivSteps DEF DivQuiet, DivType
  <2>2. ~pcpi_valid'
    BY <1>6, OfferSteps
  <2> QED BY <1>3, <2>1, <2>2 DEF DivControl, DivFree
<1>7. CASE resetn /\ ~pcpi_valid
  <2>1. div_insn' = "none" /\ ~div_wait' /\ DivQuiet'
    BY <1>1, <1>7, DivSteps DEF DivControl, DivFree, DivQuiet, DivType, div_start
  <2>2. pcpi_valid' => Fresh'
    BY <1>2, <1>7, OfferSteps, TimerSteps DEF Fresh, Aged, CoreInv, CoreType
  <2> QED BY <1>3, <2>1, <2>2 DEF DivControl, DivFree, DivOffered
<1> QED BY <1>4, <1>5, <1>6, <1>7, Zenon DEF CoreType

(* Every clock edge keeps the control of all units.                          *)
LEMMA ControlStep == ASSUME Control, Clock PROVE Control'
<1>1. CoreType' /\ CoreInv' /\ multiplier' = multiplier
  BY CoreStep, OfferSteps DEF Control
<1>2. DivType' /\ DivControl'
  BY DivControlStep
<1>3. multiplier.fast = FALSE => MulType' /\ MulControl'
  BY MulControlStep DEF Control, MultiplierControl
<1>4. multiplier.fast = TRUE => ~mul_wait' /\ mul_waiting' /\ FastControl'
  BY FastControlStep
<1> QED BY <1>1, <1>2, <1>3, <1>4 DEF Control, MultiplierControl

(* At power-up, in reset, all units are free.                                *)
LEMMA ControlInit == Init => Control
<1> SUFFICES ASSUME Init PROVE Control
  OBVIOUS
<1> USE DEF Init
<1>1. 0 \in Word
  BY DoubleFacts DEF Word
<1>2. CoreType
  <2>1. PcpiTimeout \in 0..PcpiTimeout
    BY TimeoutAssumption
  <2>2. multiplier \in Multipliers /\ program \in DOMAIN Programs
    OBVIOUS
  <2>3. resetn \in BOOLEAN /\ pcpi_valid \in BOOLEAN /\ pcpi_timeout \in BOOLEAN /\ pause \in 0..2 /\ hold \in 0..1
    <3>1. resetn = FALSE /\ pcpi_valid = FALSE /\ pcpi_timeout = FALSE /\ pause = 2 /\ hold = 0
      BY DEF Pause
    <3> HIDE DEF Init
    <3>2. pause \in 0..2 /\ hold \in 0..1
      BY <3>1
    <3> QED BY <3>1, <3>2, Zenon
  <2> QED BY <1>1, <2>1, <2>2, <2>3 DEF CoreType
<1>3. CoreInv
  BY DEF CoreInv, Pause
<1>4. MulType /\ MulControl /\ ~mul_wait /\ mul_waiting
  BY DEF MulType, MulControl, MulFree, MulQuiet, MulInit
<1>5. FastControl
  BY DEF FastControl, FastInit
<1>6. DivType /\ DivControl
  BY DEF DivType, DivControl, DivFree, DivQuiet, DivInit
<1> QED BY <1>2, <1>3, <1>4, <1>5, <1>6 DEF Control, MultiplierControl

(* A step that changes nothing keeps the control.                            *)
LEMMA ControlStutter == ASSUME Control, UNCHANGED vars PROVE Control'
BY DEF vars, portVars, mulVars, fastVars, divVars, coreVars, Control, CoreType, CoreInv, Fresh, Aged,
       MultiplierControl, MulType, MulControl, MulFree, MulOffered, MulQuiet, MulBusy, FastControl, Last,
       DivType, DivControl, DivFree, DivOffered, DivQuiet, DivBusy

(* In every reachable state each unit is where the age of the offer says,    *)
(* for every word width, chain length, program and multiplier.               *)
THEOREM ControlInvariant == Spec => []Control
<1>1. Control /\ [Next]_vars => Control'
  BY ControlStep, ControlStutter DEF Next
<1> QED BY ControlInit, <1>1, PTL DEF Spec

(* A unit that knows its instruction has answered it, or holds the time-out  *)
(* counter, before the counter runs out.                                     *)
LEMMA ControlSafe == Control => NeverGivenUp
<1> SUFFICES ASSUME Control, pcpi_valid, pcpi_insn \in Known PROVE ~pcpi_timeout
  BY DEF NeverGivenUp
<1>1. CASE pcpi_insn \in MulInsns
  BY <1>1, MultiplierCases DEF Control, MultiplierControl, MulControl, MulOffered, FastControl, Fresh, Aged
<1>2. CASE pcpi_insn \in DivInsns
  BY <1>2 DEF Control, DivControl, DivOffered, Fresh, Aged
<1>3. CASE pcpi_insn \in Audio!AudioInsns
  BY <1>3 DEF Control, CoreInv, Fresh, Aged
<1> QED BY <1>1, <1>2, <1>3 DEF Known

(* NeverGivenUp: the core never times out on an instruction that one of the  *)
(* units executes.                                                           *)
THEOREM ClaimedInTime == Spec => []NeverGivenUp
BY ControlInvariant, ControlSafe, PTL

-----------------------------------------------------------------------------
(* A word as a number, signed or not.                                        *)
LEMMA WordNat == \A w \in Word : w \in Nat /\ SignedOf(w) \in Int /\ Low(w) = w
<1> TAKE w \in Word
<1>1. w \in Nat /\ SignedOf(w) \in Int
  BY DoubleFacts DEF Word, SignedOf
<1>2. Low(w) = w
  BY ModSmall, DoubleFacts DEF Word, Low
<1> QED BY <1>1, <1>2

(* The high word of a double word.                                           *)
LEMMA HighOf == ASSUME NEW x \in Int PROVE x \div 2^XLEN \in Int /\ Double(x) \div 2^XLEN = Low(x \div 2^XLEN)
<1> DEFINE p == 2^XLEN  m == 2^(2 * XLEN)
<1>1. p \in Nat \ {0} /\ m = p * p
  BY DoubleFacts
<1> HIDE DEF p, m
<1>2. (x % m) \div p = (x \div p) % p /\ x \div p \in Int
  BY <1>1, DivDiv, DivMod
<1> QED BY <1>2 DEF Low, Double, p, m

(* The product of two words fits a double word.                              *)
LEMMA ProductInWords ==
  ASSUME NEW a \in Word, NEW b \in Word
  PROVE a * b \in DWord /\ (a * b) \div 2^XLEN \in Word /\ Low((a * b) \div 2^XLEN) = (a * b) \div 2^XLEN
<1> DEFINE p == 2^XLEN  x == a * b
<1>1. p \in Nat \ {0} /\ 2^(2 * XLEN) = p * p /\ a \in 0..(p - 1) /\ b \in 0..(p - 1)
  BY DoubleFacts DEF Word
<1>2. x \in 0..(p * p - 1)
  <2> HIDE DEF p
  <2>1. a * b \in Nat /\ a * b <= (p - 1) * b /\ (p - 1) * b <= (p - 1) * (p - 1)
    BY <1>1
  <2>2. (p - 1) * (p - 1) = p * p - 2 * p + 1 /\ p * p \in Int
    BY <1>1
  <2>3. (p - 1) * b \in Int
    BY <1>1
  <2> QED BY <1>1, <2>1, <2>2, <2>3
<1>3. Double(x) = x
  <2>1. p * p \in Nat \ {0}
    BY <1>1
  <2> QED BY <1>1, <1>2, <2>1, ModSmall DEF Double
<1>4. x \in Int
  BY <1>2
<1>5. x \div p = Low(x \div p) /\ x \div p \in Int
  BY <1>3, <1>4, HighOf
<1>6. Low(x \div p) \in Word
  BY <1>1, <1>5, DivMod DEF Low, Word
<1> QED BY <1>1, <1>2, <1>5, <1>6 DEF DWord

(* The factors of an instruction, as the loop takes them.                    *)
Signed1 == pcpi_insn \in {"MULH", "MULHSU"}
Signed2 == pcpi_insn = "MULH"
Factor1 == Extend(pcpi_rs1, Signed1)
Factor2 == Extend(pcpi_rs2, Signed2)
Exact == Wide(pcpi_rs1, Signed1) * Wide(pcpi_rs2, Signed2)

(* The extended operands multiply, in a double word, to the exact product.   *)
LEMMA FactorsRight ==
  ASSUME pcpi_rs1 \in Word, pcpi_rs2 \in Word
  PROVE /\ Factor1 \in DWord /\ Factor2 \in DWord /\ Factor1 * Factor2 \in Int /\ Exact \in Int
        /\ Wide(pcpi_rs1, Signed1) \in Int /\ Wide(pcpi_rs2, Signed2) \in Int
        /\ Double(Factor1 * Factor2) = Double(Exact)
<1> DEFINE v == Wide(pcpi_rs1, Signed1)  w == Wide(pcpi_rs2, Signed2)  m == 2^(2 * XLEN)
<1>1. v \in Int /\ w \in Int
  BY WordNat DEF Wide
<1>2. Factor1 = v % m /\ Factor2 = w % m
  BY DEF Factor1, Factor2, Extend, Wide, Double
<1>3. m \in Nat \ {0}
  BY DoubleFacts
<1>4. Factor1 \in DWord /\ Factor2 \in DWord
  BY <1>1, <1>2, DoubleRange DEF Double
<1>5. Factor1 \in Int /\ Factor2 \in Int
  BY <1>4, DoubleFacts DEF DWord
<1> HIDE DEF v, w, m
<1>6. ((v % m) * (w % m)) % m = (v * w) % m
  <2> DEFINE u == v % m
  <2>1. u \in Int
    BY <1>2, <1>5
  <2> HIDE DEF u
  <2>2. (u * (w % m)) % m = (u * w) % m
    BY <1>1, <1>3, <2>1, ModInside
  <2>3. (w * (v % m)) % m = (w * v) % m
    BY <1>1, <1>3, ModInside
  <2>4. u * w = w * u /\ w * v = v * w
    BY <1>1, <2>1
  <2> QED BY <2>2, <2>3, <2>4 DEF u
<1>7. Factor1 * Factor2 \in Int
  BY <1>5
<1>8. Exact = v * w /\ Exact \in Int
  BY <1>1 DEF Exact, v, w
<1> QED BY <1>1, <1>2, <1>4, <1>6, <1>7, <1>8 DEF Double, v, w, m

(* What an instruction of the multiplier is to answer, in terms of the exact  *)
(* product.                                                                  *)
LEMMA ProductReference ==
  ASSUME pcpi_rs1 \in Word, pcpi_rs2 \in Word, pcpi_insn \in MulInsns
  PROVE Reference(pcpi_insn, pcpi_rs1, pcpi_rs2)
          = IF pcpi_insn = "MUL" THEN Low(Exact) ELSE Double(Exact) \div 2^XLEN
<1> DEFINE a == pcpi_rs1  b == pcpi_rs2  ref == Reference(pcpi_insn, a, b)
<1>0. Exact \in Int /\ Double(Exact) \div 2^XLEN = Low(Exact \div 2^XLEN)
  BY FactorsRight, HighOf
<1>1. CASE pcpi_insn = "MUL"
  <2>1. ref = Low(a * b)
    BY <1>1 DEF Reference
  <2>2. Exact = a * b
    BY <1>1 DEF Exact, Wide, Signed1, Signed2
  <2> QED BY <1>1, <2>1, <2>2
<1>2. CASE pcpi_insn = "MULH"
  <2>1. ref = Low((SignedOf(a) * SignedOf(b)) \div 2^XLEN)
    BY <1>2 DEF Reference
  <2>2. Exact = SignedOf(a) * SignedOf(b)
    BY <1>2 DEF Exact, Wide, Signed1, Signed2
  <2> QED BY <1>0, <1>2, <2>1, <2>2
<1>3. CASE pcpi_insn = "MULHSU"
  <2>1. ref = Low((SignedOf(a) * b) \div 2^XLEN)
    BY <1>3 DEF Reference
  <2>2. Exact = SignedOf(a) * b
    BY <1>3 DEF Exact, Wide, Signed1, Signed2
  <2> QED BY <1>0, <1>3, <2>1, <2>2
<1>4. CASE pcpi_insn = "MULHU"
  <2>1. ref = (a * b) \div 2^XLEN
    BY <1>4 DEF Reference
  <2>2. Exact = a * b
    BY <1>4 DEF Exact, Wide, Signed1, Signed2
  <2>3. Low((a * b) \div 2^XLEN) = (a * b) \div 2^XLEN
    BY ProductInWords
  <2> QED BY <1>0, <1>4, <2>1, <2>2, <2>3
<1> QED BY <1>1, <1>2, <1>3, <1>4 DEF MulInsns

MulLength == IF pcpi_insn = "MUL" THEN XLEN ELSE 2 * XLEN

(* The multiplication of the offer, from the step in which it starts to the   *)
(* cycle in which it is answered.                                            *)
MulData ==
  pcpi_valid =>
    /\ ~mul_waiting => \E n \in 0..(MulLength - 1) :
         mul_counter = MulLength - 2 - n /\ Multiplied(Factor1, Factor2, n, mul_rs1, mul_rs2, rd, rdx)
    /\ mul_finish => IF pcpi_insn = "MUL" THEN Low(rd) = Low(Factor1 * Factor2)
                     ELSE rd = Double(Factor1 * Factor2)
    /\ mul_ready => mul_rd = Reference(pcpi_insn, pcpi_rs1, pcpi_rs2)

(* What depends on the offer alone.                                          *)
LEMMA SameOffer ==
  ASSUME pcpi_insn' = pcpi_insn, pcpi_rs1' = pcpi_rs1, pcpi_rs2' = pcpi_rs2
  PROVE /\ Factor1' = Factor1 /\ Factor2' = Factor2 /\ MulLength' = MulLength
        /\ Wide(pcpi_rs1, Signed1)' = Wide(pcpi_rs1, Signed1)
        /\ Wide(pcpi_rs2, Signed2)' = Wide(pcpi_rs2, Signed2)
        /\ Exact' = Exact
        /\ Reference(pcpi_insn, pcpi_rs1, pcpi_rs2)' = Reference(pcpi_insn, pcpi_rs1, pcpi_rs2)
BY DEF Factor1, Factor2, MulLength, Signed1, Signed2, Exact, Extend, Wide, SignedOf, Negative,
       Reference, Truncated, Magnitude

(* A step of the sequential multiplier brings it nearer to the product of    *)
(* the offer.                                                                *)
LEMMA MulDataStep ==
  ASSUME Control, multiplier.fast = FALSE, MulData, Clock
  PROVE MulData'
<1> SUFFICES ASSUME pcpi_valid' PROVE MulData'
  BY DEF MulData
<1> USE DEF Control, MultiplierControl
<1>1. MulClock /\ MulType
  BY DEF Clock, MultiplierClock
<1>2. CASE ~pcpi_valid
  <2>1. resetn
    BY <1>2, OfferSteps
  <2>2. mul_waiting' /\ ~mul_finish' /\ ~mul_ready'
    BY <1>1, <1>2, <2>1, MulSteps DEF MulControl, MulFree, MulQuiet
  <2> QED BY <2>2 DEF MulData
<1>3. CASE pcpi_valid
  <2>1. resetn /\ pcpi_insn' = pcpi_insn /\ pcpi_rs1' = pcpi_rs1 /\ pcpi_rs2' = pcpi_rs2
    BY <1>3, OfferSteps
  <2>2. /\ Factor1' = Factor1 /\ Factor2' = Factor2 /\ MulLength' = MulLength
        /\ Reference(pcpi_insn, pcpi_rs1, pcpi_rs2)' = Reference(pcpi_insn, pcpi_rs1, pcpi_rs2)
    BY <2>1, SameOffer
  <2>3. Factor1 \in DWord /\ Factor2 \in DWord /\ Factor1 * Factor2 \in Int /\ Exact \in Int
        /\ Double(Factor1 * Factor2) = Double(Exact)
    BY FactorsRight DEF CoreType
  <2>4. /\ ~mul_waiting => mul_insn = pcpi_insn /\ pcpi_insn \in MulInsns
        /\ mul_finish => mul_insn = pcpi_insn /\ pcpi_insn \in MulInsns
        /\ mul_wait /\ ~mul_wait_q => mul_insn = pcpi_insn /\ pcpi_insn \in MulInsns
        /\ ~mul_waiting => ~mul_finish
    BY <1>3 DEF MulControl, MulOffered, MulQuiet, MulBusy
  <2>5. ASSUME mul_insn = pcpi_insn, pcpi_insn \in MulInsns
        PROVE /\ instr_any_mulh <=> pcpi_insn # "MUL"
              /\ Extend(pcpi_rs1, instr_rs1_signed) = Factor1
              /\ Extend(pcpi_rs2, instr_rs2_signed) = Factor2
    BY <2>5 DEF instr_any_mulh, instr_rs1_signed, instr_rs2_signed, Factor1, Factor2, Signed1, Signed2, MulInsns
  <2>6. XLEN \in Nat \ {0} /\ MulLength \in 1..(2 * XLEN)
    BY WidthAssumption DEF MulLength
  <2>7. mul_ready' => mul_rd' = Reference(pcpi_insn, pcpi_rs1, pcpi_rs2)
    <3> SUFFICES ASSUME mul_ready' PROVE mul_rd' = Reference(pcpi_insn, pcpi_rs1, pcpi_rs2)
      OBVIOUS
    <3>1. mul_finish /\ mul_insn = pcpi_insn /\ pcpi_insn \in MulInsns
      BY <1>1, <2>4, MulSteps
    <3>2. mul_rd' = IF instr_any_mulh THEN rd \div 2^XLEN ELSE Low(rd)
      BY <1>1, <2>1, <3>1 DEF MulClock, MulAnswer
    <3>3. CASE pcpi_insn = "MUL"
      <4>1. Low(rd) = Low(Factor1 * Factor2)
        BY <1>3, <3>1, <3>3 DEF MulData
      <4>2. Low(Factor1 * Factor2) = Low(Exact)
        BY <2>3, LowDouble
      <4> QED BY <2>5, <3>1, <3>2, <3>3, <4>1, <4>2, ProductReference DEF CoreType
    <3>4. CASE pcpi_insn # "MUL"
      <4>1. rd = Double(Exact)
        BY <1>3, <2>3, <3>1, <3>4 DEF MulData
      <4> QED BY <2>5, <3>1, <3>2, <3>4, <4>1, ProductReference DEF CoreType
    <3> QED BY <3>3, <3>4
  <2>8. CASE MulLoad
    <3>1. ~mul_finish' /\ (~mul_waiting' => mul_wait /\ ~mul_wait_q)
      BY <2>8 DEF MulLoad, mul_start
    <3>2. ASSUME ~mul_waiting'
          PROVE mul_counter' = MulLength - 2 - 0 /\ Multiplied(Factor1, Factor2, 0, mul_rs1', mul_rs2', rd', rdx')
      <4>1. mul_insn = pcpi_insn /\ pcpi_insn \in MulInsns
        BY <2>4, <3>1, <3>2
      <4>2. mul_rs1' = Factor1 /\ mul_rs2' = Factor2 /\ rd' = 0 /\ rdx' = 0
        BY <2>5, <2>8, <4>1 DEF MulLoad
      <4>3. mul_counter' = MulLength - 2 - 0
        BY <2>5, <2>6, <2>8, <4>1 DEF MulLoad, MulLength
      <4> QED BY <2>3, <4>2, <4>3, MultiplicationStarts
    <3>3. 0 \in 0..(MulLength - 1)
      BY <2>6
    <3> QED BY <2>1, <2>2, <2>7, <3>1, <3>2, <3>3 DEF MulData
  <2>9. CASE MulStep
    <3>1. ~mul_waiting
      BY <2>9 DEF MulStep
    <3>2. mul_insn = pcpi_insn /\ pcpi_insn \in MulInsns /\ ~mul_finish
      BY <2>4, <3>1
    <3>3. PICK n \in 0..(MulLength - 1) :
            mul_counter = MulLength - 2 - n /\ Multiplied(Factor1, Factor2, n, mul_rs1, mul_rs2, rd, rdx)
      BY <1>3, <3>1 DEF MulData
    <3>4. Multiplied(Factor1, Factor2, n + 1, mul_rs1', mul_rs2', rd', rdx')
      <4> DEFINE this == IF mul_rs1 % 2 = 1 THEN mul_rs2 ELSE 0
      <4>1. /\ mul_rs1' = mul_rs1 \div 2 /\ mul_rs2' = Double(2 * mul_rs2)
            /\ rd' = NextRd(rd, rdx, this) /\ rdx' = NextRdx(rd, rdx, this)
        BY <2>9 DEF MulStep
      <4>2. n \in 0..(2 * XLEN - 1)
        BY <2>6
      <4> HIDE DEF this
      <4>3. Multiplied(Factor1, Factor2, n + 1, mul_rs1 \div 2, Double(2 * mul_rs2),
                       NextRd(rd, rdx, this), NextRdx(rd, rdx, this))
        BY <2>3, <3>3, <4>2, MultiplicationStep DEF this
      <4> QED BY <4>1, <4>3
    <3>5. mul_counter' = MulLength - 2 - (n + 1) /\ (mul_finish' <=> n = MulLength - 1) /\ (mul_waiting' <=> mul_finish')
      <4>1. mul_counter' = mul_counter - 1 /\ mul_finish' = (mul_counter < 0) /\ mul_waiting' = (mul_counter < 0)
        BY <2>9 DEF MulStep
      <4>2. (mul_counter < 0) <=> n = MulLength - 1
        BY <2>6, <3>3
      <4>3. mul_counter - 1 = MulLength - 2 - (n + 1)
        BY <2>6, <3>3
      <4>4. (mul_finish' <=> n = MulLength - 1) /\ (mul_waiting' <=> mul_finish')
        BY <4>1, <4>2, Zenon
      <4> QED BY <4>1, <4>3, <4>4
    <3>6. CASE n = MulLength - 1
      <4>1. n + 1 = MulLength
        BY <2>6, <3>6
      <4>2. CASE pcpi_insn = "MUL"
        <5>1. Multiplied(Factor1, Factor2, XLEN, mul_rs1', mul_rs2', rd', rdx')
          BY <3>4, <4>1, <4>2 DEF MulLength
        <5>2. Low(rd') = Low(Factor1 * Factor2)
          BY <2>3, <5>1, MultiplicationEndsLow
        <5> QED BY <2>1, <2>2, <2>7, <3>5, <3>6, <4>2, <5>2 DEF MulData, Low
      <4>3. CASE pcpi_insn # "MUL"
        <5>1. Multiplied(Factor1, Factor2, 2 * XLEN, mul_rs1', mul_rs2', rd', rdx')
          BY <3>4, <4>1, <4>3 DEF MulLength
        <5>2. rd' = Double(Factor1 * Factor2)
          BY <2>3, <5>1, MultiplicationEnds
        <5> QED BY <2>1, <2>2, <2>7, <3>5, <3>6, <4>3, <5>2 DEF MulData, Double
      <4> QED BY <4>2, <4>3
    <3>7. CASE n # MulLength - 1
      <4>1. n + 1 \in 0..(MulLength - 1)
        BY <2>6, <3>7
      <4>2. \E i \in 0..(MulLength - 1) :
              mul_counter' = MulLength - 2 - i /\ Multiplied(Factor1, Factor2, i, mul_rs1', mul_rs2', rd', rdx')
        BY <3>4, <3>5, <4>1
      <4> QED BY <2>1, <2>2, <2>7, <3>5, <3>7, <4>2 DEF MulData
    <3> QED BY <3>6, <3>7
  <2> QED BY <1>1, <2>1, <2>8, <2>9 DEF MulClock, MulReset
<1> QED BY <1>2, <1>3

(* The fast multiplication of the offer, stage by stage.                      *)
FastData ==
  pcpi_valid /\ pcpi_insn \in MulInsns =>
    \A s \in 0..Last : active = {s} =>
      /\ shift_out <=> pcpi_insn # "MUL"
      /\ fast_rs = <<Wide(pcpi_rs1, Signed1), Wide(pcpi_rs2, Signed2)>>
      /\ multiplier.ffs /\ s >= 1 => fast_rs_q = fast_rs
      /\ s = 2 \/ (s = 1 /\ ~multiplier.ffs) => fast_rd = Double(Exact)
      /\ s = 3 => fast_rd_q = Double(Exact)

(* A step of the pipeline takes the offer's product one stage on.            *)
LEMMA FastDataStep ==
  ASSUME Control, multiplier.fast = TRUE, FastData, Clock
  PROVE FastData'
<1> SUFFICES ASSUME pcpi_valid', pcpi_insn' \in MulInsns,
                    NEW s1 \in 0..Last', active' = {s1}
             PROVE /\ shift_out' <=> pcpi_insn' # "MUL"
                   /\ fast_rs' = <<Wide(pcpi_rs1, Signed1)', Wide(pcpi_rs2, Signed2)'>>
                   /\ (multiplier.ffs)' /\ s1 >= 1 => fast_rs_q' = fast_rs'
                   /\ s1 = 2 \/ (s1 = 1 /\ ~(multiplier.ffs)') => fast_rd' = Double(Exact)'
                   /\ s1 = 3 => fast_rd_q' = Double(Exact)'
  BY DEF FastData
<1> USE DEF Control, MultiplierControl
<1>1. /\ FastClock(multiplier.ffs, multiplier.gated)
      /\ multiplier.ffs \in BOOLEAN /\ multiplier.gated \in BOOLEAN
      /\ ~multiplier.ffs => ~multiplier.gated
      /\ Last = (IF multiplier.ffs THEN 3 ELSE 1) /\ Last' = Last
      /\ multiplier' = multiplier /\ resetn \in BOOLEAN
  BY MultiplierCases DEF Clock, MultiplierClock, mulVars, Last, CoreType
<1>2. pcpi_valid
  <2> SUFFICES ASSUME ~pcpi_valid PROVE FALSE
    OBVIOUS
  <2>1. pause = 0
    BY OfferSteps
  <2>2. active = {}
    BY <2>1 DEF FastControl
  <2>3. active' = {}
    BY <1>1, <2>2, FastSteps
  <2> QED BY <2>3
<1>3. resetn /\ pcpi_insn' = pcpi_insn /\ pcpi_rs1' = pcpi_rs1 /\ pcpi_rs2' = pcpi_rs2 /\ ~pcpi_int_ready
  BY <1>2, OfferSteps
<1> DEFINE v == Wide(pcpi_rs1, Signed1)  w == Wide(pcpi_rs2, Signed2)
<1>4. /\ Wide(pcpi_rs1, Signed1)' = v /\ Wide(pcpi_rs2, Signed2)' = w
      /\ Double(Exact)' = Double(Exact) /\ Double(Exact) = (v * w) % 2^(2 * XLEN)
  BY <1>3, SameOffer DEF Double, Exact
<1>5. fast_insn = pcpi_insn /\ fast_insn # "none"
  BY <1>2, <1>3, KnownOnce DEF fast_insn
<1>6. shift_out' <=> pcpi_insn # "MUL"
  <2>1. shift_out' = (fast_insn \in MulInsns \ {"MUL"})
    BY <1>1 DEF FastClock
  <2>2. (fast_insn \in MulInsns \ {"MUL"}) <=> pcpi_insn # "MUL"
    BY <1>3, <1>5
  <2> QED BY <2>1, <2>2, Zenon
<1>7. fast_rs' = IF FastStarts(multiplier.ffs) THEN <<v, w>> ELSE fast_rs
  BY <1>1, <1>5 DEF FastClock, Signed1, Signed2
<1>8. CASE active = {}
  <2>1. active' = {0}
    BY <1>1, <1>2, <1>3, <1>8, FastSteps
  <2>2. s1 = 0
    BY <2>1
  <2>3. FastStarts(multiplier.ffs)
    BY <1>5, <1>8 DEF FastStarts
  <2> QED BY <1>3, <1>4, <1>6, <1>7, <2>2, <2>3
<1>9. ASSUME NEW s \in 0..Last, active = {s}
      PROVE /\ s1 = s + 1 /\ s \in 0..2 /\ s # Last
            /\ fast_rs' = <<v, w>> /\ fast_rs = <<v, w>>
            /\ multiplier.ffs /\ s >= 1 => fast_rs_q = <<v, w>>
            /\ s = 2 => fast_rd = Double(Exact)
  <2>1. s # Last
    BY <1>3, <1>9 DEF pcpi_int_ready, pcpi_mul_ready, fast_ready, Last
  <2>2. active' = IF s = 3 THEN {} ELSE {s + 1}
    BY <1>1, <1>3, <1>9, FastSteps
  <2>3. s1 = s + 1 /\ s \in 0..2
    BY <1>1, <2>1, <2>2
  <2>4. ~FastStarts(multiplier.ffs)
    BY <1>9 DEF FastStarts, Last
  <2>5. /\ fast_rs = <<v, w>>
        /\ multiplier.ffs /\ s >= 1 => fast_rs_q = fast_rs
        /\ s = 2 => fast_rd = Double(Exact)
    BY <1>2, <1>3, <1>9 DEF FastData
  <2> QED BY <1>7, <2>1, <2>3, <2>4, <2>5
<1>10. ASSUME NEW s \in 0..Last, active = {s}
       PROVE /\ (multiplier.ffs)' /\ s1 >= 1 => fast_rs_q' = fast_rs'
             /\ s1 = 2 \/ (s1 = 1 /\ ~(multiplier.ffs)') => fast_rd' = Double(Exact)
             /\ s1 = 3 => fast_rd_q' = Double(Exact)
  <2>0. /\ s1 = s + 1 /\ s \in 0..2 /\ s # Last
        /\ fast_rs' = <<v, w>> /\ fast_rs = <<v, w>>
        /\ multiplier.ffs /\ s >= 1 => fast_rs_q = <<v, w>>
        /\ s = 2 => fast_rd = Double(Exact)
    BY <1>9, <1>10
  <2>1. /\ fast_rs_q' = IF multiplier.gated => 0 \in active THEN fast_rs ELSE fast_rs_q
        /\ fast_rd_q' = IF multiplier.gated => 2 \in active THEN fast_rd ELSE fast_rd_q
    BY <1>1 DEF FastClock
  <2>2. ASSUME multiplier.ffs, s = 1 PROVE fast_rd' = (fast_rs_q[1] * fast_rs_q[2]) % 2^(2 * XLEN)
    BY <1>1, <1>10, <2>2 DEF FastClock
  <2>3. ASSUME ~multiplier.ffs PROVE fast_rd' = (fast_rs[1] * fast_rs[2]) % 2^(2 * XLEN)
    BY <1>1, <2>3 DEF FastClock
  <2>4. multiplier.ffs => fast_rs_q' = <<v, w>>
    BY <1>10, <2>0, <2>1
  <2>5. s = 1 /\ multiplier.ffs => fast_rd' = Double(Exact)
    BY <1>4, <2>0, <2>2
  <2>6. s = 0 /\ ~multiplier.ffs => fast_rd' = Double(Exact)
    BY <1>4, <2>0, <2>3
  <2>7. s = 2 => fast_rd_q' = Double(Exact)
    BY <1>10, <2>0, <2>1
  <2>8. s = 1 => multiplier.ffs
    BY <1>1, <2>0
  <2> QED BY <1>1, <2>0, <2>4, <2>5, <2>6, <2>7, <2>8
<1>11. active = {} \/ \E s \in 0..Last : active = {s}
  BY <1>2, <1>3 DEF FastControl
<1>12. ASSUME NEW s \in 0..Last, active = {s} PROVE fast_rs' = <<v, w>>
  BY <1>9, <1>12
<1> QED BY <1>3, <1>4, <1>6, <1>8, <1>10, <1>11, <1>12

(* Its answer is the result of the instruction.                              *)
LEMMA FastResult ==
  ASSUME Control, multiplier.fast = TRUE, FastData, pcpi_valid, pcpi_mul_ready
  PROVE pcpi_mul_rd = Reference(pcpi_insn, pcpi_rs1, pcpi_rs2)
<1> USE DEF Control, MultiplierControl
<1>1. pcpi_insn \in MulInsns
  BY OnlyOneAnswers
<1>2. Last \in active
  BY DEF pcpi_mul_ready, fast_ready, Last
<1>3. active = {Last} /\ Last \in 0..Last /\ Last = IF multiplier.ffs THEN 3 ELSE 1
  BY <1>1, <1>2, MultiplierCases DEF FastControl
<1>4. /\ shift_out <=> pcpi_insn # "MUL"
      /\ (IF multiplier.ffs THEN fast_rd_q ELSE fast_rd) = Double(Exact)
  BY <1>1, <1>3 DEF FastData
<1>5. pcpi_mul_rd = IF shift_out THEN Double(Exact) \div 2^XLEN ELSE Low(Double(Exact))
  BY <1>4 DEF pcpi_mul_rd, fast_result
<1>6. Low(Double(Exact)) = Low(Exact)
  BY FactorsRight, LowDouble DEF CoreType
<1> QED BY <1>1, <1>4, <1>5, <1>6, ProductReference DEF CoreType

-----------------------------------------------------------------------------
(* The state of a division of a by b: quotient and rest make up a, the        *)
(* divisor stands at the bit that is decided next, the quotient has no bit    *)
(* there or below, and the rest is below the divisor of the bit before.      *)
(* Divided by zero, the quotient collects a one at every bit.                *)
Dividing(a, b, q, r, mask, d) ==
  /\ q \in Nat /\ r \in Nat /\ a = q * b + r
  /\ \/ mask = 0 /\ IF b = 0 THEN q = 2^XLEN - 1 ELSE r < b
     \/ \E k \in 0..(XLEN - 1) :
          /\ mask = 2^k /\ d = b * mask /\ q % (2 * mask) = 0
          /\ IF b = 0 THEN q = 2^XLEN - 2 * mask ELSE r < 2 * d

(* The registers loaded by DivLoad are the state before the first bit.       *)
LEMMA DivisionStarts ==
  ASSUME NEW a \in Word, NEW b \in Word
  PROVE Dividing(a, b, 0, a, 2^(XLEN - 1), b * 2^(XLEN - 1))
<1> DEFINE m == 2^(XLEN - 1)
<1>1. m \in Nat \ {0} /\ 2^XLEN = 2 * m /\ a \in 0..(2 * m - 1) /\ b \in Nat
  BY DoubleFacts DEF Word
<1>2. XLEN - 1 \in 0..(XLEN - 1)
  BY WidthAssumption
<1> HIDE DEF m
<1>3. 0 % (2 * m) = 0
  BY <1>1, ModSmall
<1>4. b # 0 => a < 2 * (b * m)
  <2> SUFFICES ASSUME b >= 1 PROVE a < 2 * (b * m)
    BY <1>1
  <2>1. 1 * m <= b * m /\ b * m \in Int
    BY <1>1
  <2> QED BY <1>1, <2>1
<1>5. a = 0 * b + a
  BY <1>1
<1>6. IF b = 0 THEN 0 = 2^XLEN - 2 * m ELSE a < 2 * (b * m)
  BY <1>1, <1>4
<1>7. \E k \in 0..(XLEN - 1) : m = 2^k
  BY <1>2 DEF m
<1>8. 0 \in Nat /\ a \in Nat
  BY <1>1
<1> QED BY <1>3, <1>5, <1>6, <1>7, <1>8 DEF Dividing, m

(* DivStep: one bit of the quotient is decided.                              *)
LEMMA DivisionStep ==
  ASSUME NEW a \in Nat, NEW b \in Nat, NEW q, NEW r, NEW mask, NEW d,
         Dividing(a, b, q, r, mask, d), mask # 0
  PROVE /\ d <= r => (q \div mask) % 2 = 0 /\ Dividing(a, b, q + mask, r - d, mask \div 2, d \div 2)
        /\ ~(d <= r) => Dividing(a, b, q, r, mask \div 2, d \div 2)
<1>1. PICK k \in 0..(XLEN - 1) : /\ mask = 2^k /\ d = b * mask /\ q % (2 * mask) = 0
                                 /\ IF b = 0 THEN q = 2^XLEN - 2 * mask ELSE r < 2 * d
  BY DEF Dividing
<1>2. q \in Nat /\ r \in Nat /\ a = q * b + r
  BY DEF Dividing
<1>3. mask \in Nat \ {0} /\ 2^XLEN \in Nat /\ k \in Nat
  BY <1>1, PowNat, DoubleFacts, WidthAssumption
<1>4. PICK t \in Int : q = 2 * mask * t
  <2> DEFINE m2 == 2 * mask
  <2>1. m2 \in Nat \ {0} /\ q \in Int
    BY <1>2, <1>3
  <2>2. q % m2 = 0
    BY <1>1
  <2> HIDE DEF m2
  <2>3. q \div m2 \in Int /\ q = m2 * (q \div m2) + (q % m2)
    BY <2>1, DivMod
  <2>4. q = m2 * (q \div m2)
    BY <2>1, <2>2, <2>3
  <2> QED BY <2>3, <2>4 DEF m2
<1>5. d \in Nat
  BY <1>1, <1>3
<1>6. (q \div mask) % 2 = 0
  <2> DEFINE u == 2 * t
  <2>1. q = mask * u + 0 /\ u \in Int /\ 0 \in 0..(mask - 1) /\ u = 2 * t + 0
    BY <1>3, <1>4
  <2>2. u % 2 = 0
    BY <2>1
  <2> HIDE DEF u
  <2>3. q \div mask = u
    BY <1>2, <1>3, <2>1, DivModIs
  <2> QED BY <2>2, <2>3
<1>7. ASSUME d <= r
      PROVE q + mask \in Nat /\ r - d \in Nat /\ a = (q + mask) * b + (r - d) /\ (b # 0 => r - d < d)
  <2>1. (q + mask) * b = q * b + d /\ q * b \in Int
    BY <1>1, <1>2, <1>3
  <2>2. b # 0 => r < 2 * d
    BY <1>1
  <2> QED BY <1>2, <1>3, <1>5, <1>7, <2>1, <2>2
<1>8. ASSUME ~(d <= r) PROVE r < d /\ b # 0
  <2>1. b = 0 => d = 0
    BY <1>1, <1>3
  <2> QED BY <1>2, <1>5, <1>8, <2>1
<1>9. CASE k = 0
  <2>1. mask = 1 /\ d = b /\ mask \div 2 = 0
    BY <1>1, <1>9, PowersAssumption
  <2>2. d <= r => IF b = 0 THEN q + mask = 2^XLEN - 1 ELSE r - d < b
    BY <1>1, <1>2, <1>3, <1>7, <2>1
  <2>3. ~(d <= r) => IF b = 0 THEN q = 2^XLEN - 1 ELSE r < b
    BY <1>8, <2>1
  <2> QED BY <1>2, <1>6, <1>7, <2>1, <2>2, <2>3 DEF Dividing
<1>10. CASE k # 0
  <2> DEFINE h == 2^(k - 1)
  <2>1. k - 1 \in 0..(XLEN - 1) /\ mask = 2 * h /\ h \in Nat \ {0}
    <3>1. k - 1 \in 0..(2 * XLEN) /\ (k - 1) + 1 = k /\ k - 1 \in 0..(XLEN - 1)
      BY <1>10, WidthAssumption
    <3> QED BY <1>1, <3>1, PowersAssumption, PowNat
  <2> HIDE DEF h
  <2>2. mask \div 2 = h
    BY <2>1
  <2>3. d \div 2 = b * h /\ d = 2 * (b * h) /\ b * h \in Nat
    <3> DEFINE e == b * h
    <3>1. d = 2 * e /\ e \in Nat
      BY <1>1, <2>1
    <3> HIDE DEF e
    <3>2. d \div 2 = e
      BY <3>1
    <3> QED BY <3>1, <3>2 DEF e
  <2>4. q % (2 * h) = 0 /\ (q + mask) % (2 * h) = 0
    <3> DEFINE u == 2 * t  v == u + 1  q1 == q + mask
    <3>1. q = mask * u /\ q1 = mask * v /\ u \in Int /\ v \in Int /\ q \in Int /\ q1 \in Int
      BY <1>2, <1>3, <1>4
    <3>5. mask \in Nat \ {0}
      BY <1>3
    <3> HIDE DEF u, v, q1
    <3>2. q % mask = 0
      BY <3>1, <3>5, Multiple
    <3>4. q1 % mask = 0
      BY <3>1, <3>5, Multiple
    <3> QED BY <2>1, <3>2, <3>4 DEF q1
  <2>5. d <= r => IF b = 0 THEN q + mask = 2^XLEN - 2 * h ELSE r - d < 2 * (b * h)
    BY <1>1, <1>2, <1>3, <1>7, <2>1, <2>3
  <2>6. ~(d <= r) => IF b = 0 THEN q = 2^XLEN - 2 * h ELSE r < 2 * (b * h)
    BY <1>8, <2>3
  <2>7. \E j \in 0..(XLEN - 1) : h = 2^j
    BY <2>1 DEF h
  <2> QED BY <1>2, <1>6, <1>7, <2>2, <2>3, <2>4, <2>5, <2>6, <2>7 DEF Dividing
<1> QED BY <1>9, <1>10

(* When the last bit is decided, quotient and rest are those of the          *)
(* operands.                                                                 *)
LEMMA DivisionEnds ==
  ASSUME NEW a \in Nat, NEW b \in Nat, NEW q, NEW r, NEW d, Dividing(a, b, q, r, 0, d)
  PROVE /\ q \in Nat /\ r \in Nat
        /\ b # 0 => q = a \div b /\ r = a % b
        /\ b = 0 => q = 2^XLEN - 1 /\ r = a
<1>1. q \in Nat /\ r \in Nat /\ a = q * b + r
  BY DEF Dividing
<1>2. \A k \in 0..(XLEN - 1) : 2^k # 0
  BY PowNat, WidthAssumption
<1>3. IF b = 0 THEN q = 2^XLEN - 1 ELSE r < b
  BY <1>2 DEF Dividing
<1>4. ASSUME b # 0 PROVE q = a \div b /\ r = a % b
  <2>1. a = b * q + r /\ r \in 0..(b - 1) /\ q \in Int /\ a \in Int /\ b \in Nat \ {0}
    BY <1>1, <1>3, <1>4
  <2> QED BY <2>1, DivModIs
<1>5. b = 0 => r = a
  BY <1>1
<1> QED BY <1>1, <1>3, <1>4, <1>5

(* The operands as the divider takes them, and the sign of its answer.        *)
Operand(w) == IF pcpi_insn \in {"DIV", "REM"} /\ Negative(w) THEN Low(-w) ELSE w
Negated ==
  \/ pcpi_insn = "DIV" /\ Negative(pcpi_rs1) # Negative(pcpi_rs2) /\ pcpi_rs2 # 0
  \/ pcpi_insn = "REM" /\ Negative(pcpi_rs1)

(* The signed value of a word, its absolute value in XLEN bits, and back;    *)
(* the least value included.                                                 *)
LEMMA SignedFacts ==
  ASSUME NEW w \in Word
  PROVE /\ SignedOf(w) \in Int /\ (Negative(w) <=> SignedOf(w) < 0)
        /\ Magnitude(SignedOf(w)) \in 0..(2^(XLEN - 1))
        /\ Negative(w) => Low(-w) = Magnitude(SignedOf(w)) /\ Low(-Magnitude(SignedOf(w))) = w
        /\ ~Negative(w) => w = Magnitude(SignedOf(w)) /\ SignedOf(w) = w
        /\ Magnitude(SignedOf(w)) = 0 <=> w = 0
        /\ SignedOf(w) = IF Negative(w) THEN -Magnitude(SignedOf(w)) ELSE Magnitude(SignedOf(w))
<1> DEFINE m == 2^(XLEN - 1)  p == 2^XLEN
<1>1. m \in Nat \ {0} /\ p = 2 * m /\ w \in 0..(p - 1) /\ p \in Nat \ {0}
  BY DoubleFacts DEF Word
<1>2. (Negative(w) <=> w >= m) /\ SignedOf(w) = IF w >= m THEN w - p ELSE w
  BY DEF Negative, SignedOf
<1> HIDE DEF m, p
<1>3. Magnitude(SignedOf(w)) = IF w >= m THEN p - w ELSE w
  BY <1>1, <1>2 DEF Magnitude
<1>4. w >= m => (-w) % p = p - w
  <2> SUFFICES ASSUME w >= m PROVE (-w) % p = p - w
    OBVIOUS
  <2> DEFINE x == -w
  <2>1. x = p * (-1) + (p - w) /\ p - w \in 0..(p - 1) /\ x \in Int /\ -1 \in Int
    BY <1>1
  <2> HIDE DEF x
  <2>2. x % p = p - w
    BY SMTT(30), <1>1, <2>1, DivModIs
  <2> QED BY <2>2 DEF x
<1>5. w >= m => (-(p - w)) % p = w
  <2> DEFINE x == -(p - w)
  <2>1. x = p * (-1) + w /\ w \in 0..(p - 1) /\ x \in Int /\ -1 \in Int
    BY <1>1
  <2> HIDE DEF x
  <2>2. x % p = w
    BY <1>1, <2>1, DivModIs
  <2> QED BY <2>2 DEF x
<1> QED BY <1>1, <1>2, <1>3, <1>4, <1>5 DEF Low, m, p

(* The divider works on the absolute values for the signed instructions.     *)
LEMMA OperandFacts ==
  ASSUME NEW w \in Word
  PROVE /\ Operand(w) \in Word /\ Operand(w) \in Nat /\ (Operand(w) = 0 <=> w = 0)
        /\ pcpi_insn \in {"DIV", "REM"} => Operand(w) = Magnitude(SignedOf(w))
        /\ pcpi_insn \notin {"DIV", "REM"} => Operand(w) = w
<1>1. pcpi_insn \in {"DIV", "REM"} => Operand(w) = Magnitude(SignedOf(w))
  BY SignedFacts DEF Operand
<1>2. pcpi_insn \notin {"DIV", "REM"} => Operand(w) = w
  BY DEF Operand
<1>3. Magnitude(SignedOf(w)) \in Word /\ Word \subseteq Nat /\ (Magnitude(SignedOf(w)) = 0 <=> w = 0)
  BY SignedFacts, DoubleFacts DEF Word
<1> QED BY <1>1, <1>2, <1>3

(* The answer made of the last quotient and rest is the one of the            *)
(* instruction set.                                                          *)
LEMMA DivisionReference ==
  ASSUME pcpi_insn \in DivInsns, pcpi_rs1 \in Word, pcpi_rs2 \in Word, NEW q, NEW r, NEW d,
         Dividing(Operand(pcpi_rs1), Operand(pcpi_rs2), q, r, 0, d),
         NEW magnitude, magnitude = IF pcpi_insn \in {"DIV", "DIVU"} THEN q ELSE r
  PROVE (IF Negated THEN Low(-magnitude) ELSE magnitude) = Reference(pcpi_insn, pcpi_rs1, pcpi_rs2)
<1> DEFINE a == Operand(pcpi_rs1)  b == Operand(pcpi_rs2)
           sa == SignedOf(pcpi_rs1)  sb == SignedOf(pcpi_rs2)
           na == Negative(pcpi_rs1)  nb == Negative(pcpi_rs2)
           ref == Reference(pcpi_insn, pcpi_rs1, pcpi_rs2)
<1>1. a \in Nat /\ b \in Nat /\ (b = 0 <=> pcpi_rs2 = 0) /\ a \in Word
  BY OperandFacts
<1>2. /\ q \in Nat /\ r \in Nat
      /\ b # 0 => q = a \div b /\ r = a % b
      /\ b = 0 => q = 2^XLEN - 1 /\ r = a
  BY <1>1, DivisionEnds
<1>3. CASE pcpi_insn = "DIVU"
  <2>1. ref = IF pcpi_rs2 = 0 THEN 2^XLEN - 1 ELSE pcpi_rs1 \div pcpi_rs2
    BY <1>3 DEF Reference
  <2>2. a = pcpi_rs1 /\ b = pcpi_rs2 /\ ~Negated /\ magnitude = q
    BY <1>3 DEF Operand, Negated
  <2> QED BY <1>2, <2>1, <2>2
<1>4. CASE pcpi_insn = "REMU"
  <2>1. ref = IF pcpi_rs2 = 0 THEN pcpi_rs1 ELSE pcpi_rs1 % pcpi_rs2
    BY <1>4 DEF Reference
  <2>2. a = pcpi_rs1 /\ b = pcpi_rs2 /\ ~Negated /\ magnitude = r
    BY <1>4 DEF Operand, Negated
  <2> QED BY <1>2, <2>1, <2>2
<1>5. pcpi_insn \in {"DIV", "REM"} =>
        /\ a = Magnitude(sa) /\ b = Magnitude(sb)
        /\ sa \in Int /\ sb \in Int
        /\ sa = (IF na THEN -a ELSE a) /\ sb = (IF nb THEN -b ELSE b)
        /\ (na <=> sa < 0) /\ (nb <=> sb < 0)
        /\ a <= 2^(XLEN - 1) /\ b <= 2^(XLEN - 1)
        /\ na => Low(-a) = pcpi_rs1
        /\ ~na => a = pcpi_rs1
  BY OperandFacts, SignedFacts
<1>6. 2^XLEN \in Nat \ {0} /\ 2^(XLEN - 1) \in Nat \ {0} /\ 2^XLEN = 2 * 2^(XLEN - 1)
  BY DoubleFacts
<1>7. ASSUME b # 0 PROVE a = b * q + r /\ r < b /\ q <= a
  <2>1. a = b * q + r /\ r \in 0..(b - 1)
    <3>1. b \in Nat \ {0} /\ a \in Int /\ q = a \div b /\ r = a % b
      BY <1>1, <1>2, <1>7
    <3> HIDE DEF a, b
    <3>2. a = b * (a \div b) + (a % b) /\ a % b \in 0..(b - 1)
      BY <3>1, DivMod
    <3> QED BY <3>1, <3>2
  <2>2. q <= b * q /\ b * q \in Int
    BY <1>1, <1>2, <1>7
  <2> QED BY <1>1, <1>2, <2>1, <2>2
<1>8. ASSUME NEW x \in Nat, x <= 2^(XLEN - 1) PROVE Low(x) = x
  <2>1. x \in 0..(2^XLEN - 1)
    BY <1>6, <1>8
  <2> QED BY <1>6, <2>1, ModSmall DEF Low
<1>9. CASE pcpi_insn = "DIV" /\ b = 0
  <2>1. ref = 2^XLEN - 1
    BY <1>1, <1>9 DEF Reference
  <2>2. ~Negated /\ magnitude = q
    BY <1>1, <1>9 DEF Negated
  <2> QED BY <1>2, <1>9, <2>1, <2>2
<1>10. CASE pcpi_insn = "DIV" /\ b # 0
  <2>1. ref = Low(Truncated(sa, sb))
    BY <1>1, <1>10 DEF Reference
  <2>2. Truncated(sa, sb) = IF (sa < 0) # (sb < 0) THEN -q ELSE q
    BY <1>2, <1>5, <1>10 DEF Truncated
  <2>3. magnitude = q /\ (Negated <=> ~(na <=> nb))
    BY <1>1, <1>10 DEF Negated, Negative
  <2>4. Low(q) = q
    BY <1>2, <1>5, <1>7, <1>8, <1>10, <1>6, <1>1
  <2>5. CASE na <=> nb
    <3>1. ~((sa < 0) # (sb < 0))
      BY <1>5, <1>10, <2>5
    <3> QED BY <2>1, <2>2, <2>3, <2>4, <2>5, <3>1
  <2>6. CASE ~(na <=> nb)
    <3>1. (sa < 0) # (sb < 0)
      BY <1>5, <1>10, <2>6
    <3> QED BY <2>1, <2>2, <2>3, <2>6, <3>1
  <2> QED BY <2>5, <2>6
<1>11. CASE pcpi_insn = "REM" /\ b = 0
  <2>1. ref = pcpi_rs1
    BY <1>1, <1>11 DEF Reference
  <2>2. magnitude = a /\ (Negated <=> na)
    BY <1>2, <1>11 DEF Negated
  <2> QED BY <1>5, <1>11, <2>1, <2>2
<1>12. CASE pcpi_insn = "REM" /\ b # 0
  <2>1. ref = Low(sa - sb * Truncated(sa, sb))
    BY <1>1, <1>12 DEF Reference
  <2>2. Truncated(sa, sb) = IF (sa < 0) # (sb < 0) THEN -q ELSE q
    BY <1>2, <1>5, <1>12 DEF Truncated
  <2>3. magnitude = r /\ (Negated <=> na)
    BY <1>12 DEF Negated
  <2>4. Low(r) = r
    BY <1>2, <1>5, <1>7, <1>8, <1>12, <1>6, <1>1
  <2>5. b * q \in Int /\ a = b * q + r
    BY <1>1, <1>2, <1>7, <1>12
  <2>6. (-b) * q = -(b * q) /\ b * (-q) = -(b * q) /\ (-b) * (-q) = b * q
    BY <1>1, <1>2
  <2>7. CASE na
    <3>1. sa = -a /\ sa < 0
      BY <1>5, <1>12, <2>7
    <3>2. sb * Truncated(sa, sb) = -(b * q)
      <4>1. CASE nb
        BY <1>5, <1>12, <2>2, <2>6, <3>1, <4>1
      <4>2. CASE ~nb
        BY <1>5, <1>12, <2>2, <2>6, <3>1, <4>2
      <4> QED BY <4>1, <4>2
    <3>3. sa - sb * Truncated(sa, sb) = -r
      BY <1>1, <1>2, <2>5, <3>1, <3>2
    <3> QED BY <2>1, <2>3, <2>7, <3>3
  <2>8. CASE ~na
    <3>1. sa = a /\ ~(sa < 0)
      BY <1>5, <1>12, <2>8
    <3>2. sb * Truncated(sa, sb) = b * q
      <4>1. CASE nb
        BY <1>5, <1>12, <2>2, <2>6, <3>1, <4>1
      <4>2. CASE ~nb
        BY <1>5, <1>12, <2>2, <2>6, <3>1, <4>2
      <4> QED BY <4>1, <4>2
    <3>3. sa - sb * Truncated(sa, sb) = r
      BY <1>1, <1>2, <2>5, <3>1, <3>2
    <3> QED BY <2>1, <2>3, <2>4, <2>8, <3>3
  <2> QED BY <2>7, <2>8
<1> QED BY <1>3, <1>4, <1>9, <1>10, <1>11, <1>12 DEF DivInsns

DivData ==
  pcpi_valid =>
    /\ running => /\ outsign <=> Negated
                  /\ Dividing(Operand(pcpi_rs1), Operand(pcpi_rs2), quotient, dividend, quotient_msk, divisor)
    /\ div_ready => div_rd = Reference(pcpi_insn, pcpi_rs1, pcpi_rs2)

(* A step of the divider brings it nearer to the quotient and the rest of    *)
(* the offer.                                                                *)
LEMMA DivDataStep ==
  ASSUME Control, DivData, Clock
  PROVE DivData'
<1> SUFFICES ASSUME pcpi_valid' PROVE DivData'
  BY DEF DivData
<1> USE DEF Control
<1>1. DivClock /\ DivType /\ resetn \in BOOLEAN /\ pcpi_valid \in BOOLEAN
  BY DEF Clock, CoreType
<1>2. CASE ~pcpi_valid
  <2>1. resetn
    BY <1>2, OfferSteps
  <2>2. ~running' /\ ~div_ready'
    BY <1>1, <1>2, <2>1, DivSteps DEF DivControl, DivFree, DivQuiet, div_start
  <2> QED BY <2>2 DEF DivData
<1>3. CASE pcpi_valid
  <2>1. resetn /\ pcpi_insn' = pcpi_insn /\ pcpi_rs1' = pcpi_rs1 /\ pcpi_rs2' = pcpi_rs2
    BY <1>3, OfferSteps
  <2>2. /\ Reference(pcpi_insn, pcpi_rs1, pcpi_rs2)' = Reference(pcpi_insn, pcpi_rs1, pcpi_rs2)
        /\ Operand(pcpi_rs1)' = Operand(pcpi_rs1) /\ Operand(pcpi_rs2)' = Operand(pcpi_rs2)
        /\ Negated' = Negated
    BY <2>1, SameOffer DEF Operand, Negated, Negative, Low
  <2>3. pcpi_rs1 \in Word /\ pcpi_rs2 \in Word
    BY DEF CoreType
  <2>4. Operand(pcpi_rs1) \in Word /\ Operand(pcpi_rs2) \in Word /\ Operand(pcpi_rs1) \in Nat /\ Operand(pcpi_rs2) \in Nat
    BY <2>3, OperandFacts
  <2>5. /\ running => div_insn = pcpi_insn /\ pcpi_insn \in DivInsns /\ ~div_start
        /\ div_start => div_insn = pcpi_insn /\ pcpi_insn \in DivInsns
    BY <1>3 DEF DivControl, DivOffered, DivQuiet, div_start
  <2>6. ASSUME div_insn = pcpi_insn
        PROVE /\ Absolute(pcpi_rs1) = Operand(pcpi_rs1) /\ Absolute(pcpi_rs2) = Operand(pcpi_rs2)
              /\ negates <=> Negated
    BY <2>6 DEF Absolute, Operand, negates, Negated
  <2>7. CASE DivLoad
    <3>1. div_insn = pcpi_insn
      BY <2>5, <2>7 DEF DivLoad
    <3>2. /\ ~div_ready' /\ outsign' = negates
          /\ dividend' = Operand(pcpi_rs1) /\ divisor' = Operand(pcpi_rs2) * 2^(XLEN - 1)
          /\ quotient' = 0 /\ quotient_msk' = 2^(XLEN - 1)
      BY <2>6, <2>7, <3>1 DEF DivLoad
    <3>3. outsign' <=> Negated
      BY <2>6, <3>1, <3>2, Zenon
    <3>4. Dividing(Operand(pcpi_rs1), Operand(pcpi_rs2), quotient', dividend', quotient_msk', divisor')
      BY <2>4, <3>2, DivisionStarts
    <3> QED BY <2>2, <3>2, <3>3, <3>4 DEF DivData
  <2>8. CASE DivFinish
    <3>1. running /\ quotient_msk = 0 /\ ~running'
      BY <2>8 DEF DivFinish
    <3>2. div_insn = pcpi_insn /\ pcpi_insn \in DivInsns
      BY <2>5, <3>1
    <3> DEFINE magnitude == IF pcpi_insn \in {"DIV", "DIVU"} THEN quotient ELSE dividend
    <3>3. div_rd' = IF outsign THEN Low(-magnitude) ELSE magnitude
      BY <2>8, <3>2 DEF DivFinish
    <3>4. /\ outsign <=> Negated
          /\ Dividing(Operand(pcpi_rs1), Operand(pcpi_rs2), quotient, dividend, 0, divisor)
      BY <1>3, <3>1 DEF DivData
    <3>5. (IF Negated THEN Low(-magnitude) ELSE magnitude) = Reference(pcpi_insn, pcpi_rs1, pcpi_rs2)
      <4> DEFINE mg == magnitude
      <4>1. mg = IF pcpi_insn \in {"DIV", "DIVU"} THEN quotient ELSE dividend
        OBVIOUS
      <4> HIDE DEF mg
      <4>2. (IF Negated THEN Low(-mg) ELSE mg) = Reference(pcpi_insn, pcpi_rs1, pcpi_rs2)
        BY <2>3, <3>2, <3>4, <4>1, DivisionReference
      <4> QED BY <4>2 DEF mg
    <3> HIDE DEF magnitude
    <3>6. div_rd' = Reference(pcpi_insn, pcpi_rs1, pcpi_rs2)
      BY <3>3, <3>4, <3>5
    <3> QED BY <2>1, <2>2, <3>1, <3>6 DEF DivData
  <2>9. CASE DivStep
    <3>1. ~div_ready' /\ running' = running /\ outsign' = outsign
      BY <2>9 DEF DivStep
    <3>2. ASSUME running'
          PROVE /\ outsign' <=> Negated
                /\ Dividing(Operand(pcpi_rs1), Operand(pcpi_rs2), quotient', dividend', quotient_msk', divisor')
      <4>1. running /\ quotient_msk # 0
        BY <2>9, <3>1, <3>2 DEF DivStep
      <4>2. /\ outsign <=> Negated
            /\ Dividing(Operand(pcpi_rs1), Operand(pcpi_rs2), quotient, dividend, quotient_msk, divisor)
        BY <1>3, <4>1 DEF DivData
      <4>3. divisor' = divisor \div 2 /\ quotient_msk' = quotient_msk \div 2
        BY <2>9 DEF DivStep
      <4>4. CASE divisor <= dividend
        <5>1. /\ (quotient \div quotient_msk) % 2 = 0
              /\ Dividing(Operand(pcpi_rs1), Operand(pcpi_rs2), quotient + quotient_msk,
                          dividend - divisor, quotient_msk \div 2, divisor \div 2)
          BY <2>4, <4>1, <4>2, <4>4, DivisionStep
        <5>2. quotient' = quotient + quotient_msk /\ dividend' = dividend - divisor
          BY <2>9, <4>1, <4>4, <5>1 DEF DivStep
        <5> QED BY <3>1, <4>2, <4>3, <5>1, <5>2
      <4>5. CASE ~(divisor <= dividend)
        <5>1. Dividing(Operand(pcpi_rs1), Operand(pcpi_rs2), quotient,
                       dividend, quotient_msk \div 2, divisor \div 2)
          BY <2>4, <4>1, <4>2, <4>5, DivisionStep
        <5>2. quotient' = quotient /\ dividend' = dividend
          BY <2>9, <4>5 DEF DivStep
        <5> QED BY <3>1, <4>2, <4>3, <5>1, <5>2
      <4> QED BY <4>4, <4>5
    <3> QED BY <2>2, <3>1, <3>2 DEF DivData
  <2> QED BY <1>1, <2>1, <2>7, <2>8, <2>9 DEF DivClock, DivReset
<1> QED BY <1>1, <1>2, <1>3

-----------------------------------------------------------------------------
(* What the registers of the units hold of the offer.                        *)
Data ==
  /\ multiplier.fast = FALSE => MulData
  /\ multiplier.fast = TRUE => FastData
  /\ DivData
IInv == Control /\ Data

(* Nothing is offered at power-up.                                           *)
LEMMA DataInit == ASSUME Init PROVE Data
BY DEF Init, Data, MulData, FastData, DivData

(* Every clock edge brings the unit that works nearer to the reference.       *)
LEMMA DataStep == ASSUME IInv, Clock PROVE IInv'
<1>1. Control /\ Control' /\ multiplier' = multiplier
  BY ControlStep, OfferSteps DEF IInv, Control
<1>2. multiplier.fast = FALSE => MulData'
  BY MulDataStep DEF IInv, Data
<1>3. multiplier.fast = TRUE => FastData'
  BY FastDataStep DEF IInv, Data
<1>4. DivData'
  BY DivDataStep DEF IInv, Data
<1> QED BY <1>1, <1>2, <1>3, <1>4 DEF IInv, Data

(* A stuttering step changes neither the registers nor the reference.         *)
LEMMA DataStutter == ASSUME IInv, UNCHANGED vars PROVE IInv'
<1>1. Control'
  BY ControlStutter DEF IInv
<1>2. /\ UNCHANGED <<resetn, pcpi_valid, pcpi_insn, pcpi_rs1, pcpi_rs2, multiplier>>
      /\ UNCHANGED mulVars /\ UNCHANGED fastVars /\ UNCHANGED divVars
  BY DEF vars, portVars, coreVars
<1>3. /\ Factor1' = Factor1 /\ Factor2' = Factor2 /\ MulLength' = MulLength
      /\ Wide(pcpi_rs1, Signed1)' = Wide(pcpi_rs1, Signed1)
      /\ Wide(pcpi_rs2, Signed2)' = Wide(pcpi_rs2, Signed2)
      /\ Exact' = Exact
      /\ Reference(pcpi_insn, pcpi_rs1, pcpi_rs2)' = Reference(pcpi_insn, pcpi_rs1, pcpi_rs2)
  BY <1>2, SameOffer
<1>4. MulData => MulData'
  BY <1>2, <1>3 DEF MulData, mulVars, Multiplied, Low, Double, DWord, Chain
<1>5. FastData => FastData'
  BY <1>2, <1>3 DEF FastData, fastVars, Last, Double
<1>6. DivData => DivData'
  BY <1>2, <1>3 DEF DivData, divVars, Dividing, Operand, Negated, Negative, Low
<1> QED BY <1>1, <1>2, <1>4, <1>5, <1>6 DEF IInv, Data

(* The invariant of the units: their control and their data.                 *)
THEOREM UnitsInvariant == Spec => []IInv
<1>1. Init => IInv
  BY ControlInit, DataInit DEF IInv
<1>2. IInv /\ [Next]_vars => IInv'
  BY DataStep, DataStutter DEF Next
<1> QED BY <1>1, <1>2, PTL DEF Spec

(* No unit answers when nothing is offered.                                  *)
LEMMA SilentUnlessAsked == ASSUME Control, ~pcpi_valid PROVE ~pcpi_int_ready
<1> USE DEF Control, MultiplierControl
<1>1. ~audio_ready /\ ~div_ready
  BY DEF audio_ready, DivControl, DivFree, DivQuiet
<1>2. CASE multiplier.fast = FALSE
  BY <1>1, <1>2 DEF MulControl, MulFree, MulQuiet, pcpi_int_ready, pcpi_mul_ready
<1>3. CASE multiplier.fast = TRUE
  <2>1. Last \notin active
    <3>1. CASE active = {}
      BY <3>1
    <3>2. CASE ~multiplier.ffs /\ pause # 0 /\ active = {4 - pause}
      <4>0. CoreType /\ pause \in 0..2
        BY DEF CoreType
      <4> HIDE DEF Control, MultiplierControl
      <4>3. Last = 1
        BY <1>3, <3>2, <4>0, MultiplierCases
      <4>1. Last = 1 /\ pause \in 1..2
        BY <3>2, <4>0, <4>3
      <4>2. 4 - pause # Last
        BY <4>1
      <4> QED BY <3>2, <4>2
    <3> QED BY <1>3, <3>1, <3>2 DEF FastControl
  <2> QED BY <1>1, <1>3, <2>1 DEF pcpi_int_ready, pcpi_mul_ready, fast_ready, Last
<1> QED BY <1>2, <1>3, MultiplierCases

(* The invariant says of every answer what AnswersOffer asks.                *)
LEMMA AnswersRight == IInv => AnswersOffer
<1> SUFFICES ASSUME IInv, pcpi_int_ready, resetn
             PROVE /\ OneUnitAnswers
                   /\ pcpi_valid /\ pcpi_insn \in Known
                   /\ pcpi_int_rd = Reference(pcpi_insn, pcpi_rs1, pcpi_rs2)
  BY DEF AnswersOffer
<1>1. Control /\ pcpi_valid
  BY SilentUnlessAsked DEF IInv
<1>2. /\ pcpi_insn \notin MulInsns => ~pcpi_mul_ready
      /\ pcpi_insn \notin DivInsns => ~div_ready
      /\ pcpi_insn \notin Audio!AudioInsns => ~audio_ready
  BY <1>1, OnlyOneAnswers
<1>3. OneUnitAnswers
  BY <1>2, KnownOnce DEF OneUnitAnswers
<1>4. pcpi_insn \in Known
  BY <1>2 DEF Known, pcpi_int_ready
<1>5. CASE pcpi_insn \in MulInsns
  <2>1. pcpi_mul_ready
    BY <1>2, <1>5, KnownOnce DEF pcpi_int_ready
  <2>2. CASE multiplier.fast = FALSE
    BY <1>1, <1>3, <1>4, <2>1, <2>2 DEF IInv, Data, MulData, pcpi_int_rd, pcpi_mul_rd, pcpi_mul_ready
  <2>3. CASE multiplier.fast = TRUE
    BY <1>1, <1>3, <1>4, <2>1, <2>3, FastResult DEF IInv, Data, pcpi_int_rd
  <2> QED BY <1>1, <1>3, <1>4, <2>2, <2>3, MultiplierCases DEF Control
<1>6. CASE pcpi_insn \in DivInsns
  <2>1. ~pcpi_mul_ready /\ div_ready
    BY <1>2, <1>6, KnownOnce DEF pcpi_int_ready
  <2> QED BY <1>1, <1>3, <1>4, <2>1 DEF IInv, Data, DivData, pcpi_int_rd
<1>7. CASE pcpi_insn \notin MulInsns /\ pcpi_insn \notin DivInsns
  <2>1. ~pcpi_mul_ready /\ ~div_ready /\ audio_ready
    BY <1>2, <1>7 DEF pcpi_int_ready
  <2>2. pcpi_int_rd = Audio!AudioResult(pcpi_insn, pcpi_rs1, pcpi_rs2)
    BY <2>1 DEF pcpi_int_rd, audio_rd
  <2>3. Reference(pcpi_insn, pcpi_rs1, pcpi_rs2) = Audio!AudioResult(pcpi_insn, pcpi_rs1, pcpi_rs2)
    BY <1>7 DEF Reference, MulInsns, DivInsns
  <2> QED BY <1>1, <1>3, <1>4, <2>2, <2>3
<1> QED BY <1>5, <1>6, <1>7

(* It says of the loops what LoopsKeepResult asks.                           *)
LEMMA LoopsRight == IInv => LoopsKeepResult
<1> SUFFICES ASSUME IInv PROVE MulLoop /\ DivLoop
  BY DEF LoopsKeepResult
<1>1. MulLoop
  <2> SUFFICES ASSUME ~mul_waiting, pcpi_valid
               PROVE /\ Double(rd + rdx + mul_rs1 * mul_rs2)
                          = Double(Extend(pcpi_rs1, instr_rs1_signed) * Extend(pcpi_rs2, instr_rs2_signed))
                     /\ \A k \in Chains : Chain(rdx, k) \in {0, 1}
    BY DEF MulLoop
  <2>1. multiplier.fast = FALSE
    BY MultiplierCases DEF IInv, Control, MultiplierControl
  <2>2. mul_insn = pcpi_insn
    BY <2>1 DEF IInv, Control, MultiplierControl, MulControl, MulOffered, MulQuiet
  <2>3. Extend(pcpi_rs1, instr_rs1_signed) = Factor1 /\ Extend(pcpi_rs2, instr_rs2_signed) = Factor2
    BY <2>2 DEF instr_rs1_signed, instr_rs2_signed, Factor1, Factor2, Signed1, Signed2
  <2>4. PICK n \in 0..(MulLength - 1) : Multiplied(Factor1, Factor2, n, mul_rs1, mul_rs2, rd, rdx)
    BY <2>1 DEF IInv, Data, MulData
  <2> QED BY <2>3, <2>4 DEF Multiplied
<1>2. DivLoop
  <2> DEFINE a == Operand(pcpi_rs1)  b == Operand(pcpi_rs2)
  <2> SUFFICES ASSUME running, pcpi_valid, resetn, ~div_start
               PROVE /\ Absolute(pcpi_rs1) = quotient * Absolute(pcpi_rs2) + dividend
                     /\ quotient_msk > 0 => /\ divisor = Absolute(pcpi_rs2) * quotient_msk
                                            /\ quotient % (2 * quotient_msk) = 0
                     /\ Absolute(pcpi_rs2) > 0 =>
                          dividend < (IF quotient_msk > 0 THEN 2 * divisor ELSE Absolute(pcpi_rs2))
    BY DEF DivLoop
  <2>1. div_insn = pcpi_insn
    BY DEF IInv, Control, DivControl, DivOffered, DivQuiet
  <2>2. Absolute(pcpi_rs1) = a /\ Absolute(pcpi_rs2) = b
    BY <2>1 DEF Absolute, Operand
  <2>3. Dividing(a, b, quotient, dividend, quotient_msk, divisor)
    BY DEF IInv, Data, DivData
  <2>4. \A k \in 0..(XLEN - 1) : 2^k > 0
    BY PowNat, WidthAssumption
  <2>5. b \in Nat
    BY OperandFacts DEF IInv, Control, CoreType
  <2> HIDE DEF a, b
  <2> QED BY <2>2, <2>3, <2>4, <2>5 DEF Dividing
<1> QED BY <1>1, <1>2

(* AnswersOffer: whatever unit answers, it answers the instruction that is   *)
(* offered, alone, and with the result that the instruction set defines; no  *)
(* late, doubled or stale answer, for every word width, chain length,        *)
(* program of offers and moment of a reset.                                  *)
THEOREM AnswersAreResults == Spec => []AnswersOffer
BY UnitsInvariant, AnswersRight, PTL

(* LoopsKeepResult: in every cycle of every multiplication and division the  *)
(* registers of the loop still make up the exact product, or the dividend.   *)
THEOREM LoopsAreRight == Spec => []LoopsKeepResult
BY UnitsInvariant, LoopsRight, PTL

=============================================================================
