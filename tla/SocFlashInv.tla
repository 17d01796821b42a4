----------------------------- MODULE SocFlashInv -----------------------------
(***************************************************************************)
(* The invariant of module SocFlash, for every board, size and speed of the *)
(* flash, and the facts it rests on: what bytes, clocks and restarts do to *)
(* the flash, whatever the controller does; and that each command of the   *)
(* firmware is a sequence of calls whose writes keep the part of the       *)
(* invariant that is about the program.                                    *)
(***************************************************************************)
EXTENDS SocFlash, TLAPS, WellFoundedInduction, SequenceTheorems

-----------------------------------------------------------------------------
(* Numbers and addresses.                                                  *)

(* A set of natural numbers that is not empty has a least member.            *)
LEMMA Smallest == ASSUME NEW T, T \subseteq Nat, T # {} PROVE \E x \in T : \A y \in T : x <= y
<1>1. IsWellFoundedOn(OpToRel(<,Nat), Nat)
  BY NatLessThanWellFounded
<1>2. PICK x \in T : \A y \in T : ~ (<<y, x>> \in OpToRel(<,Nat))
  BY <1>1, WFMin, Zenon
<1>3. \A y \in T : ~ (y < x)
  BY <1>2 DEF OpToRel
<1> QED BY <1>3

(* Induction, stated with a set.                                              *)
LEMMA Induction == ASSUME NEW T, 0 \in T, \A n \in Nat : n \in T => n + 1 \in T PROVE Nat \subseteq T
<1> SUFFICES ASSUME Nat \ T # {} PROVE FALSE
  OBVIOUS
<1>1. PICK x \in Nat \ T : \A y \in Nat \ T : x <= y
  <2>1. Nat \ T \subseteq Nat
    OBVIOUS
  <2> QED BY <2>1, Smallest
<1>2. x # 0 /\ x - 1 \in Nat
  BY <1>1
<1>3. x - 1 \in T
  BY <1>1, <1>2
<1>4. (x - 1) + 1 \in T
  BY <1>2, <1>3
<1> QED BY <1>4, <1>1

(* What quotient and rest are, and that they are the only ones.              *)
LEMMA DivMod == ASSUME NEW x \in Int, NEW b \in Nat \ {0}
  PROVE x \div b \in Int /\ x % b \in 0..(b-1) /\ x = b * (x \div b) + (x % b)
  OBVIOUS

LEMMA DivModIs == ASSUME NEW b \in Nat \ {0}, NEW q \in Int, NEW r \in 0..(b-1), NEW x \in Int, x = b * q + r
  PROVE x \div b = q /\ x % b = r
<1>1. PICK c \in Int : c = x \div b
  BY DivMod
<1>2. PICK s \in 0..(b-1) : s = x % b
  BY DivMod
<1>3. b * c + s = b * q + r
  BY <1>1, <1>2, DivMod
<1>4. b * (c - q) = r - s
  BY <1>3
<1>5. c - q < 1
  <2> SUFFICES ASSUME c - q >= 1 PROVE FALSE
     OBVIOUS
  <2>1. b * (c - q) >= b
     OBVIOUS
  <2> QED BY <2>1, <1>4
<1>6. c - q > -1
  <2> SUFFICES ASSUME c - q <= -1 PROVE FALSE
     OBVIOUS
  <2>1. b * (c - q) <= -b
     OBVIOUS
  <2> QED BY <2>1, <1>4
<1>7. c = q
  BY <1>5, <1>6
<1> QED BY <1>1, <1>2, <1>3, <1>7

-----------------------------------------------------------------------------
(* Addresses wrap around at the end of the flash.                             *)
Wrap(a) == a % Space

LEMMA SpaceType == Base * Base \in Nat \ {0} /\ Space \in Nat \ {0}
<1>1. Base \in Nat \ {0}
  BY BaseAssumption
<1>2. Base * Base \in Nat \ {0}
  BY <1>1
<1> QED BY <1>1, <1>2 DEF Space

LEMMA WrapType == ASSUME NEW a \in Int PROVE Wrap(a) \in 0..(Space - 1)
BY SpaceType, DivMod DEF Wrap

LEMMA WrapSmall == ASSUME NEW a \in 0..(Space - 1) PROVE Wrap(a) = a
<1>1. a = Space * 0 + a /\ Space \in Nat \ {0}
  BY SpaceType
<1> QED BY <1>1, DivModIs DEF Wrap

LEMMA WrapPlus == ASSUME NEW a \in Int, NEW k \in Int PROVE Wrap(Wrap(a) + k) = Wrap(a + k)
<1>1. PICK m \in Nat \ {0} : m = Space
  BY SpaceType
<1>2. PICK q \in Int, r \in 0..(m - 1) : r = a % m /\ a = m * q + r
  BY DivMod
<1>3. PICK p \in Int, s \in 0..(m - 1) : s = (r + k) % m /\ r + k = m * p + s
  <2>1. r + k \in Int
    OBVIOUS
  <2> QED BY <2>1, DivMod
<1>4. a + k = m * (p + q) + s
  <2>1. m * (p + q) = m * p + m * q
    OBVIOUS
  <2>2. a + k = (m * q + r) + k
    BY <1>2
  <2>3. m * p \in Int /\ m * q \in Int /\ m * (p + q) \in Int
    OBVIOUS
  <2> QED BY <1>3, <2>1, <2>2, <2>3
<1>5. (a + k) % m = s
  <2>1. PICK x \in Int, y \in Int : x = a + k /\ y = p + q
    OBVIOUS
  <2>2. x = m * y + s
    BY <1>4, <2>1
  <2>3. x % m = s
    BY <2>2, DivModIs
  <2> QED BY <2>1, <2>3
<1> QED BY <1>1, <1>2, <1>3, <1>5 DEF Wrap

(* The three bytes of an address are the bytes of an address, and name it.    *)
LEMMA AddressBytes ==
  ASSUME NEW a \in 0..(Space - 1)
  PROVE LET s == NextAddress(a)
        IN /\ s \in [1..3 -> Int] /\ \A k \in 1..3 : s[k] \in 0..(Base - 1)
           /\ s[1] * Base * Base + s[2] * Base + s[3] = a
<1>1. PICK b \in Nat \ {0} : b = Base
  BY BaseAssumption
<1>2. PICK q \in Int, r \in 0..(b - 1) : q = a \div b /\ r = a % b /\ a = b * q + r
  <2>1. a \in Int
    BY SpaceType
  <2> QED BY <2>1, DivMod
<1>3. PICK p \in Int, s \in 0..(b - 1) : p = q \div b /\ s = q % b /\ q = b * p + s
  BY DivMod
<1>4. a = (b * b) * p + (b * s + r)
  <2>1. b * (b * p + s) = (b * b) * p + b * s
    OBVIOUS
  <2>2. b * q = (b * b) * p + b * s
    BY <1>3, <2>1
  <2>3. (b * b) * p \in Int /\ b * s \in Int
    OBVIOUS
  <2> QED BY <1>2, <2>2, <2>3
<1>5. b * s + r \in 0..(b * b - 1)
  <2>1. b * s <= b * (b - 1) /\ b * s \in Nat
    OBVIOUS
  <2>2. b * (b - 1) = b * b - b
    OBVIOUS
  <2> QED BY <2>1, <2>2
<1>6. a \div (b * b) = p
  <2>1. b * b \in Nat \ {0} /\ a \in Int
    BY SpaceType
  <2> QED BY <1>4, <1>5, <2>1, DivModIs
<1>7. p \in 0..(b - 1)
  <2>1. 0 <= a /\ a < b * b * b
    BY <1>1, SpaceType DEF Space
  <2>2. PICK c \in Nat \ {0} : c = b * b
    OBVIOUS
  <2>3. PICK t \in 0..(c - 1) : t = b * s + r
    BY <1>5, <2>2
  <2>4. a = c * p + t /\ a < c * b
    BY <1>4, <2>1, <2>2, <2>3
  <2>5. p < b
    <3> SUFFICES ASSUME p >= b PROVE FALSE
      OBVIOUS
    <3>1. c * p >= c * b
      OBVIOUS
    <3> QED BY <2>4, <3>1
  <2>6. p >= 0
    <3> SUFFICES ASSUME p <= -1 PROVE FALSE
      OBVIOUS
    <3>1. c * p <= -c
      OBVIOUS
    <3> QED BY <2>1, <2>4, <3>1
  <2> QED BY <2>5, <2>6
<1>8. p * b * b + s * b + r = a
  BY <1>4
<1>9. NextAddress(a) = <<p, s, r>>
  BY <1>1, <1>2, <1>3, <1>6 DEF NextAddress
<1> QED BY <1>1, <1>7, <1>8, <1>9

-----------------------------------------------------------------------------
(* The flash: one byte.                                                    *)
(* The registers of the flash.                                                *)
ModeSet == {1, 2, 4, 8}
AddressSet == [1..3 -> Int]
LatencySet == [WideReads -> Nat]
FlashSet == [powered_up : BOOLEAN, spi_cmd : Int, xip_cmd : Int, spi_addr : AddressSet, out : Int,
             mode : ModeSet, bitcount : Nat, bytecount : Nat, dummycount : Nat,
             latency : LatencySet, write_enabled : BOOLEAN, quad : BOOLEAN]

(* A byte, register by register.                                              *)
CmdOf(f, b) == IF f.bytecount = 0 THEN b ELSE f.spi_cmd
PoweredBy(f, b) == f.powered_up \/ (f.bytecount = 0 /\ b = PowerUp)
KnowsBy(f, b) == PoweredBy(f, b) /\ (CmdOf(f, b) \in {QuadRead, QuadDdrRead} => f.quad)
AddrOf(f, b) == IF f.bytecount \in 1..3 THEN [f.spi_addr EXCEPT ![f.bytecount] = b] ELSE f.spi_addr
EnabledBy(f, b) == f.write_enabled \/ (f.bytecount = 0 /\ b \in WriteEnables)
ModeBy(f, b) == f.bytecount = 4 /\ f.spi_cmd \in WideReads /\ KnowsBy(f, b)
WritesAny(f) == f.spi_cmd = WriteAnyRegister /\ f.bytecount = 4 /\ f.write_enabled
WritesStatus(f) == f.spi_cmd = WriteStatus2 /\ f.bytecount = 1 /\ f.write_enabled
ReadsBy(f, b) ==
  \/ f.spi_cmd = Read /\ f.powered_up /\ f.bytecount >= 3
  \/ f.spi_cmd \in WideReads /\ KnowsBy(f, b) /\ f.bytecount >= 4

LEMMA SpiUnfold ==
  ASSUME NEW f, NEW b
  PROVE spi_action(f, b) =
          MemoryByte(RegisterByte(ModeByte(AddressByte(CommandByte(
            [f EXCEPT !.bytecount = @ + 1, !.bitcount = 0], b), b), b), b))
BY DEF spi_action

LEMMA StartedByte ==
  ASSUME NEW f \in FlashSet
  PROVE LET g == [f EXCEPT !.bytecount = @ + 1, !.bitcount = 0]
        IN /\ g \in FlashSet
           /\ g.bytecount = f.bytecount + 1 /\ g.bitcount = 0
           /\ g.powered_up = f.powered_up /\ g.spi_cmd = f.spi_cmd /\ g.xip_cmd = f.xip_cmd /\ g.spi_addr = f.spi_addr
           /\ g.out = f.out /\ g.mode = f.mode /\ g.dummycount = f.dummycount /\ g.latency = f.latency
           /\ g.write_enabled = f.write_enabled /\ g.quad = f.quad
<1>1. PICK n \in Nat, zero \in Nat : n = f.bytecount + 1 /\ zero = 0
  BY DEF FlashSet
<1>2. [f EXCEPT !.bytecount = @ + 1, !.bitcount = 0] = [f EXCEPT !.bytecount = n, !.bitcount = zero]
  BY <1>1
<1>3. LET g == [f EXCEPT !.bytecount = n, !.bitcount = zero]
      IN /\ g \in FlashSet
         /\ g.bytecount = n /\ g.bitcount = zero
         /\ g.powered_up = f.powered_up /\ g.spi_cmd = f.spi_cmd /\ g.xip_cmd = f.xip_cmd /\ g.spi_addr = f.spi_addr
         /\ g.out = f.out /\ g.mode = f.mode /\ g.dummycount = f.dummycount /\ g.latency = f.latency
         /\ g.write_enabled = f.write_enabled /\ g.quad = f.quad
  BY DEF FlashSet
<1> QED BY <1>1, <1>2, <1>3

LEMMA CommandFields ==
  ASSUME NEW f \in FlashSet, NEW b \in Int
  PROVE LET g == CommandByte(f, b) IN
        /\ g \in FlashSet
        /\ g.bytecount = f.bytecount /\ g.bitcount = f.bitcount /\ g.spi_addr = f.spi_addr
        /\ g.out = f.out /\ g.dummycount = f.dummycount /\ g.latency = f.latency /\ g.quad = f.quad
        /\ f.bytecount # 1 => g = f
        /\ f.bytecount = 1 =>
             /\ g.spi_cmd = b /\ g.powered_up = (f.powered_up \/ b = PowerUp)
             /\ g.xip_cmd = (IF b = LeaveXip THEN 0 ELSE f.xip_cmd)
             /\ g.write_enabled = (f.write_enabled \/ b \in WriteEnables)
             /\ g.mode = (IF b \in WideReads /\ g.powered_up /\ (b \in {QuadRead, QuadDdrRead} => f.quad) THEN Lanes(b) ELSE f.mode)
<1>1. CASE f.bytecount # 1
  BY <1>1 DEF CommandByte
<1>2. CASE f.bytecount = 1
  <2> DEFINE p == f.powered_up \/ b = PowerUp
             x == IF b = LeaveXip THEN 0 ELSE f.xip_cmd
             w == f.write_enabled \/ b \in WriteEnables
             g == [f EXCEPT !.spi_cmd = b, !.powered_up = p, !.xip_cmd = x, !.write_enabled = w]
             m == IF b \in WideReads /\ Understood(g, b) THEN Lanes(b) ELSE f.mode
  <2>0. p \in BOOLEAN /\ x \in Int /\ w \in BOOLEAN
    BY DEF FlashSet
  <2> HIDE DEF p, x, w
  <2>1. /\ g \in FlashSet /\ g.spi_cmd = b /\ g.powered_up = p
        /\ g.xip_cmd = x /\ g.write_enabled = w
        /\ g.bytecount = f.bytecount /\ g.bitcount = f.bitcount /\ g.spi_addr = f.spi_addr
        /\ g.out = f.out /\ g.dummycount = f.dummycount /\ g.latency = f.latency /\ g.quad = f.quad
        /\ g.mode = f.mode
    BY <2>0 DEF FlashSet
  <2>2. CommandByte(f, b) = [g EXCEPT !.mode = m]
    BY <1>2, <2>1 DEF CommandByte, p, x, w
  <2>3. m = (IF b \in WideReads /\ g.powered_up /\ (b \in {QuadRead, QuadDdrRead} => f.quad) THEN Lanes(b) ELSE f.mode)
    BY <2>1 DEF Understood
  <2>4. m \in ModeSet
    BY <2>3, <2>1 DEF Lanes, FlashSet, ModeSet
  <2> HIDE DEF g, m
  <2>5. /\ [g EXCEPT !.mode = m] \in FlashSet
        /\ [g EXCEPT !.mode = m].mode = m
    BY <2>1, <2>4 DEF FlashSet
  <2>6. LET h == [g EXCEPT !.mode = m] IN
        /\ h.spi_cmd = g.spi_cmd /\ h.powered_up = g.powered_up /\ h.xip_cmd = g.xip_cmd /\ h.write_enabled = g.write_enabled
        /\ h.bytecount = g.bytecount /\ h.bitcount = g.bitcount /\ h.spi_addr = g.spi_addr
        /\ h.out = g.out /\ h.dummycount = g.dummycount /\ h.latency = g.latency /\ h.quad = g.quad
    BY <2>1 DEF FlashSet
  <2> QED BY <1>2, <2>1, <2>2, <2>3, <2>5, <2>6 DEF p, x, w
<1> QED BY <1>1, <1>2

LEMMA AddressFields ==
  ASSUME NEW f \in FlashSet, NEW b \in Int
  PROVE LET g == AddressByte(f, b) IN
        /\ g \in FlashSet
        /\ g.spi_addr = (IF f.bytecount \in 2..4 THEN [f.spi_addr EXCEPT ![f.bytecount - 1] = b] ELSE f.spi_addr)
        /\ g.bytecount = f.bytecount /\ g.bitcount = f.bitcount
        /\ g.powered_up = f.powered_up /\ g.spi_cmd = f.spi_cmd /\ g.xip_cmd = f.xip_cmd
        /\ g.out = f.out /\ g.mode = f.mode /\ g.dummycount = f.dummycount /\ g.latency = f.latency
        /\ g.write_enabled = f.write_enabled /\ g.quad = f.quad
<1>1. CASE f.bytecount \notin 2..4
  BY <1>1 DEF AddressByte
<1>2. CASE f.bytecount \in 2..4
  <2>1. PICK k \in 1..3 : k = f.bytecount - 1
    BY <1>2
  <2>2. PICK s \in AddressSet : s = [f.spi_addr EXCEPT ![k] = b]
    BY DEF FlashSet, AddressSet
  <2>3. AddressByte(f, b) = [f EXCEPT !.spi_addr = s]
    BY <1>2, <2>1, <2>2 DEF AddressByte, FlashSet
  <2> QED BY <1>2, <2>1, <2>2, <2>3 DEF FlashSet
<1> QED BY <1>1, <1>2

LEMMA ModeFields ==
  ASSUME NEW f \in FlashSet, NEW b \in Int
  PROVE LET g == ModeByte(f, b)
            takes == f.bytecount = 5 /\ f.spi_cmd \in WideReads /\ f.powered_up /\ (f.spi_cmd \in {QuadRead, QuadDdrRead} => f.quad)
        IN
        /\ g \in FlashSet
        /\ g.xip_cmd = (IF takes THEN IF b = StayInXip THEN f.spi_cmd ELSE 0 ELSE f.xip_cmd)
        /\ g.dummycount = (IF takes THEN f.latency[f.spi_cmd] ELSE f.dummycount)
        /\ g.bytecount = f.bytecount /\ g.bitcount = f.bitcount
        /\ g.powered_up = f.powered_up /\ g.spi_cmd = f.spi_cmd /\ g.spi_addr = f.spi_addr
        /\ g.out = f.out /\ g.mode = f.mode /\ g.latency = f.latency
        /\ g.write_enabled = f.write_enabled /\ g.quad = f.quad
<1> DEFINE takes == f.bytecount = 5 /\ f.spi_cmd \in WideReads /\ f.powered_up
                      /\ (f.spi_cmd \in {QuadRead, QuadDdrRead} => f.quad)
<1>1. CASE ~takes
  BY <1>1 DEF ModeByte, Understood
<1>2. CASE takes
  <2>1. PICK x \in Int, d \in Nat : x = (IF b = StayInXip THEN f.spi_cmd ELSE 0) /\ d = f.latency[f.spi_cmd]
    BY <1>2 DEF FlashSet, LatencySet
  <2>2. ModeByte(f, b) = [f EXCEPT !.xip_cmd = x, !.dummycount = d]
    BY <1>2, <2>1 DEF ModeByte, Understood
  <2> QED BY <1>2, <2>1, <2>2 DEF FlashSet
<1> QED BY <1>1, <1>2

LEMMA RegisterFields ==
  ASSUME NEW f \in FlashSet, NEW b \in Int
  PROVE LET g == RegisterByte(f, b)
            any == f.spi_cmd = WriteAnyRegister /\ f.bytecount = 5 /\ f.write_enabled
            status == f.spi_cmd = WriteStatus2 /\ f.bytecount = 2 /\ f.write_enabled
        IN
        /\ ~any \/ b \in Nat => g \in FlashSet
        /\ g.latency = (IF any /\ f.spi_addr[3] = LatencyRegister THEN [c \in WideReads |-> b] ELSE f.latency)
        /\ g.quad = (IF any /\ f.spi_addr[3] # LatencyRegister THEN f.spi_addr[3] = QuadRegister
                     ELSE IF status THEN TRUE ELSE f.quad)
        /\ g.write_enabled = (f.write_enabled /\ ~any /\ ~status)
        /\ g.bytecount = f.bytecount /\ g.bitcount = f.bitcount
        /\ g.powered_up = f.powered_up /\ g.spi_cmd = f.spi_cmd /\ g.spi_addr = f.spi_addr /\ g.xip_cmd = f.xip_cmd
        /\ g.out = f.out /\ g.mode = f.mode /\ g.dummycount = f.dummycount
<1> DEFINE any == f.spi_cmd = WriteAnyRegister /\ f.bytecount = 5 /\ f.write_enabled
           status == f.spi_cmd = WriteStatus2 /\ f.bytecount = 2 /\ f.write_enabled
<1>0. PICK no \in BOOLEAN, yes \in BOOLEAN : no = FALSE /\ yes = TRUE
  OBVIOUS
<1>1. CASE ~any /\ ~status
  <2>1. RegisterByte(f, b) = f
    BY <1>1 DEF RegisterByte
  <2> QED BY <1>1, <2>1 DEF FlashSet
<1>2. CASE any /\ f.spi_addr[3] = LatencyRegister
  <2>1. PICK l : l = [c \in WideReads |-> b]
    OBVIOUS
  <2>2. b \in Nat => l \in LatencySet
    BY <2>1 DEF LatencySet
  <2>3. RegisterByte(f, b) = [f EXCEPT !.latency = l, !.write_enabled = no]
    BY <1>0, <1>2, <2>1 DEF RegisterByte
  <2>4. ~status
    BY <1>2 DEF WriteAnyRegister, WriteStatus2
  <2> QED BY <1>0, <1>2, <2>1, <2>2, <2>3, <2>4 DEF FlashSet
<1>3. CASE any /\ f.spi_addr[3] # LatencyRegister
  <2>1. PICK q \in BOOLEAN : q = (f.spi_addr[3] = QuadRegister)
    OBVIOUS
  <2>3. RegisterByte(f, b) = [f EXCEPT !.quad = q, !.write_enabled = no]
    BY <1>0, <1>3, <2>1 DEF RegisterByte
  <2>4. ~status
    BY <1>3 DEF WriteAnyRegister, WriteStatus2
  <2> QED BY <1>0, <1>3, <2>1, <2>3, <2>4 DEF FlashSet
<1>4. CASE ~any /\ status
  <2>3. RegisterByte(f, b) = [f EXCEPT !.quad = yes, !.write_enabled = no]
    BY <1>0, <1>4 DEF RegisterByte
  <2> QED BY <1>0, <1>4, <2>3 DEF FlashSet
<1> QED BY <1>1, <1>2, <1>3, <1>4

LEMMA MemoryFields ==
  ASSUME NEW f \in FlashSet
  PROVE LET g == MemoryByte(f)
            reads == \/ f.spi_cmd = Read /\ f.powered_up /\ f.bytecount >= 4
                     \/ f.spi_cmd \in WideReads /\ f.powered_up /\ (f.spi_cmd \in {QuadRead, QuadDdrRead} => f.quad)
                        /\ f.bytecount >= 5
        IN
        /\ g \in FlashSet
        /\ ~reads => g.spi_addr = f.spi_addr /\ g.out = Junk /\ g.bytecount = f.bytecount
        /\ reads => g.bytecount = 5
        /\ \A a \in 0..(Space - 1) : reads /\ f.spi_addr = NextAddress(a) =>
              g.out = a /\ g.spi_addr = NextAddress(Wrap(a + 1))
        /\ g.bitcount = f.bitcount
        /\ g.powered_up = f.powered_up /\ g.spi_cmd = f.spi_cmd /\ g.xip_cmd = f.xip_cmd
        /\ g.mode = f.mode /\ g.dummycount = f.dummycount /\ g.latency = f.latency
        /\ g.write_enabled = f.write_enabled /\ g.quad = f.quad
<1> DEFINE reads == \/ f.spi_cmd = Read /\ f.powered_up /\ f.bytecount >= 4
                    \/ f.spi_cmd \in WideReads /\ f.powered_up /\ (f.spi_cmd \in {QuadRead, QuadDdrRead} => f.quad)
                       /\ f.bytecount >= 5
<1>0. PICK junk \in Int, five \in Nat : junk = Junk /\ five = 5
  BY DEF Junk
<1>1. CASE ~reads
  <2>1. MemoryByte(f) = [f EXCEPT !.out = junk]
    BY <1>0, <1>1 DEF MemoryByte, Understood, Read, WideReads, DualRead, QuadRead, QuadDdrRead
  <2> QED BY <1>0, <1>1, <2>1 DEF FlashSet
<1>2. CASE reads
  <2>1. PICK o : o = IF Known(f) THEN Address(f) ELSE junk
    OBVIOUS
  <2>2. PICK s : s = IF Known(f) THEN NextAddress((Address(f) + 1) % Space) ELSE f.spi_addr
    OBVIOUS
  <2>3. MemoryByte(f) = [f EXCEPT !.out = o, !.spi_addr = s, !.bytecount = five]
    BY <1>0, <1>2, <2>1, <2>2 DEF MemoryByte, Understood, Read, WideReads, DualRead, QuadRead, QuadDdrRead
  <2>4. \A a \in 0..(Space - 1) : f.spi_addr = NextAddress(a) => Known(f) /\ Address(f) = a
    BY AddressBytes DEF Known, Address
  <2>5. Known(f) => Address(f) \in 0..(Space - 1)
    <3> SUFFICES ASSUME Known(f) PROVE Address(f) \in 0..(Space - 1)
      OBVIOUS
    <3>1. PICK n \in Nat \ {0} : n = Base
      BY BaseAssumption
    <3>2. PICK x \in 0..(n - 1), y \in 0..(n - 1), z \in 0..(n - 1) :
             x = f.spi_addr[1] /\ y = f.spi_addr[2] /\ z = f.spi_addr[3]
      BY <3>1 DEF Known
    <3>3. x * n * n + y * n + z \in 0..(n * n * n - 1)
      <4>1. y * n \in Nat /\ y * n <= (n - 1) * n /\ (n - 1) * n = n * n - n
        OBVIOUS
      <4>2. PICK c \in Nat : c = n * n
        OBVIOUS
      <4>3. x * c \in Nat /\ x * c <= (n - 1) * c /\ (n - 1) * c = n * c - c
        OBVIOUS
      <4>4. x * n * n = x * c /\ n * n * n = n * c
        BY <4>2
      <4> QED BY <4>1, <4>2, <4>3, <4>4
    <3> QED BY <3>1, <3>2, <3>3 DEF Address, Space
  <2>6. o \in Int /\ s \in AddressSet
    <3>1. Known(f) => Wrap(Address(f) + 1) \in 0..(Space - 1)
      BY <2>5, WrapType, SpaceType
    <3>2. Known(f) => NextAddress((Address(f) + 1) % Space) \in AddressSet
      BY <3>1, AddressBytes DEF Wrap, AddressSet
    <3> QED BY <2>1, <2>2, <2>5, <3>2, <1>0, SpaceType DEF FlashSet
  <2>7. LET g == [f EXCEPT !.out = o, !.spi_addr = s, !.bytecount = five] IN
        /\ g \in FlashSet /\ g.out = o /\ g.spi_addr = s /\ g.bytecount = five
        /\ g.bitcount = f.bitcount
        /\ g.powered_up = f.powered_up /\ g.spi_cmd = f.spi_cmd /\ g.xip_cmd = f.xip_cmd
        /\ g.mode = f.mode /\ g.dummycount = f.dummycount /\ g.latency = f.latency
        /\ g.write_enabled = f.write_enabled /\ g.quad = f.quad
    BY <2>6 DEF FlashSet
  <2>8. \A a \in 0..(Space - 1) : f.spi_addr = NextAddress(a) => o = a /\ s = NextAddress(Wrap(a + 1))
    BY <2>1, <2>2, <2>4 DEF Wrap
  <2> QED BY <1>0, <1>2, <2>3, <2>7, <2>8
<1> QED BY <1>1, <1>2

LEMMA CommandNumbers ==
  /\ Read # 0 /\ WideReads \cap {0, Read, Junk, PowerUp, LeaveXip, WriteAnyRegister, WriteStatus2} = {}
  /\ WriteEnables \cap {Junk, PowerUp, LeaveXip, Read, DualRead, QuadRead, QuadDdrRead} = {}
  /\ StayInXip # Junk /\ StayInXip # LeaveXip /\ LeaveXip # Junk /\ PowerUp # Junk /\ PowerUp # LeaveXip
BY DEF Read, WideReads, DualRead, QuadRead, QuadDdrRead, Junk, PowerUp, LeaveXip, WriteAnyRegister, WriteStatus2,
       WriteEnables, StayInXip

(* The registers after a byte.                                                *)
LEMMA SpiAction ==
  ASSUME NEW f \in FlashSet, NEW b \in Int, WritesAny(f) => b \in Nat
  PROVE LET h == spi_action(f, b) IN
        /\ h \in FlashSet
        /\ h.bitcount = 0
        /\ h.bytecount = (IF ReadsBy(f, b) THEN 5 ELSE f.bytecount + 1)
        /\ h.spi_cmd = CmdOf(f, b)
        /\ h.powered_up = PoweredBy(f, b)
        /\ h.mode = (IF f.bytecount = 0 /\ b \in WideReads /\ KnowsBy(f, b) THEN Lanes(b) ELSE f.mode)
        /\ h.xip_cmd = (IF ModeBy(f, b) THEN IF b = StayInXip THEN f.spi_cmd ELSE 0
                        ELSE IF f.bytecount = 0 /\ b = LeaveXip THEN 0 ELSE f.xip_cmd)
        /\ h.dummycount = (IF ModeBy(f, b) THEN f.latency[f.spi_cmd] ELSE f.dummycount)
        /\ h.latency = (IF WritesAny(f) /\ f.spi_addr[3] = LatencyRegister THEN [c \in WideReads |-> b] ELSE f.latency)
        /\ h.quad = (IF WritesAny(f) /\ f.spi_addr[3] # LatencyRegister THEN f.spi_addr[3] = QuadRegister
                     ELSE IF WritesStatus(f) THEN TRUE ELSE f.quad)
        /\ h.write_enabled = (EnabledBy(f, b) /\ ~WritesAny(f) /\ ~WritesStatus(f))
        /\ ~ReadsBy(f, b) => h.spi_addr = AddrOf(f, b) /\ h.out = Junk
        /\ \A a \in 0..(Space - 1) : ReadsBy(f, b) /\ AddrOf(f, b) = NextAddress(a) =>
              h.out = a /\ h.spi_addr = NextAddress(Wrap(a + 1))
<1>0. f.bytecount \in Nat /\ f.bytecount + 1 \in Nat /\ f.spi_addr \in AddressSet
  BY DEF FlashSet
<1>1. PICK g1 \in FlashSet : g1 = [f EXCEPT !.bytecount = @ + 1, !.bitcount = 0]
  BY StartedByte
<1>2. /\ g1.bytecount = f.bytecount + 1 /\ g1.bitcount = 0
      /\ g1.powered_up = f.powered_up /\ g1.spi_cmd = f.spi_cmd /\ g1.xip_cmd = f.xip_cmd /\ g1.spi_addr = f.spi_addr
      /\ g1.out = f.out /\ g1.mode = f.mode /\ g1.dummycount = f.dummycount /\ g1.latency = f.latency
      /\ g1.write_enabled = f.write_enabled /\ g1.quad = f.quad
  BY <1>1, StartedByte
<1>3. PICK g2 \in FlashSet : g2 = CommandByte(g1, b)
  BY CommandFields
<1>4. /\ g2.bytecount = f.bytecount + 1 /\ g2.bitcount = 0 /\ g2.spi_addr = f.spi_addr
      /\ g2.dummycount = f.dummycount /\ g2.latency = f.latency /\ g2.quad = f.quad
      /\ g2.spi_cmd = CmdOf(f, b) /\ g2.powered_up = PoweredBy(f, b)
      /\ g2.xip_cmd = (IF f.bytecount = 0 /\ b = LeaveXip THEN 0 ELSE f.xip_cmd)
      /\ g2.write_enabled = EnabledBy(f, b)
      /\ g2.mode = (IF f.bytecount = 0 /\ b \in WideReads /\ KnowsBy(f, b) THEN Lanes(b) ELSE f.mode)
  <2>1. CASE f.bytecount = 0
    <3>1. g1.bytecount = 1
      BY <2>1, <1>2
    <3>2. /\ g2.bytecount = g1.bytecount /\ g2.bitcount = g1.bitcount /\ g2.spi_addr = g1.spi_addr
          /\ g2.dummycount = g1.dummycount /\ g2.latency = g1.latency /\ g2.quad = g1.quad
          /\ g2.spi_cmd = b /\ g2.powered_up = (g1.powered_up \/ b = PowerUp)
          /\ g2.xip_cmd = (IF b = LeaveXip THEN 0 ELSE g1.xip_cmd)
          /\ g2.write_enabled = (g1.write_enabled \/ b \in WriteEnables)
          /\ g2.mode = (IF b \in WideReads /\ g2.powered_up /\ (b \in {QuadRead, QuadDdrRead} => g1.quad) THEN Lanes(b) ELSE g1.mode)
      BY <3>1, <1>3, CommandFields
    <3>3. PICK n \in Nat : n = f.bytecount + 1
      BY <1>0
    <3>4. g2.bytecount = n
      BY <3>2, <3>3, <1>2
    <3>5. CmdOf(f, b) = b
      BY <2>1 DEF CmdOf
    <3>6. g2.powered_up = PoweredBy(f, b) /\ g2.write_enabled = EnabledBy(f, b)
      BY ONLY <3>2, <1>2, <2>1, Zenon DEF PoweredBy, EnabledBy
    <3>7. KnowsBy(f, b) <=> g2.powered_up /\ (b \in {QuadRead, QuadDdrRead} => g1.quad)
      BY ONLY <3>5, <3>6, <1>2, Zenon DEF KnowsBy
    <3>8. g2.mode = (IF f.bytecount = 0 /\ b \in WideReads /\ KnowsBy(f, b) THEN Lanes(b) ELSE f.mode)
      BY ONLY <3>2, <3>7, <1>2, <2>1, Zenon
    <3>9. g2.xip_cmd = (IF f.bytecount = 0 /\ b = LeaveXip THEN 0 ELSE f.xip_cmd)
      BY ONLY <3>2, <1>2, <2>1, Zenon
    <3>10. g2.bytecount = f.bytecount + 1
      BY <3>3, <3>4
    <3>11. g2.spi_cmd = CmdOf(f, b)
      BY <3>2, <3>5
    <3>12. g2.bitcount = 0 /\ g2.spi_addr = f.spi_addr /\ g2.dummycount = f.dummycount /\ g2.latency = f.latency /\ g2.quad = f.quad
      BY ONLY <3>2, <1>2, Zenon
    <3> QED BY ONLY <3>6, <3>8, <3>9, <3>10, <3>11, <3>12
  <2>2. CASE f.bytecount # 0
    <3>1. g1.bytecount # 1
      BY <2>2, <1>0, <1>2
    <3>2. g2 = g1
      BY <3>1, <1>3, CommandFields
    <3>3. CmdOf(f, b) = f.spi_cmd /\ PoweredBy(f, b) = f.powered_up /\ EnabledBy(f, b) = f.write_enabled
      BY <2>2 DEF CmdOf, PoweredBy, EnabledBy, FlashSet
    <3> QED BY ONLY <3>2, <3>3, <2>2, <1>2, Zenon
  <2> QED BY <2>1, <2>2
<1>5. PICK g3 \in FlashSet : g3 = AddressByte(g2, b)
  BY AddressFields
<1>6. /\ g3.bytecount = f.bytecount + 1 /\ g3.bitcount = 0 /\ g3.spi_addr = AddrOf(f, b)
      /\ g3.dummycount = f.dummycount /\ g3.latency = f.latency /\ g3.quad = f.quad
      /\ g3.spi_cmd = g2.spi_cmd /\ g3.powered_up = g2.powered_up /\ g3.xip_cmd = g2.xip_cmd
      /\ g3.write_enabled = g2.write_enabled /\ g3.mode = g2.mode
  <2>1. CASE f.bytecount \in 1..3
    <3>1. PICK k \in 1..3 : k = f.bytecount
      BY <2>1
    <3>2. g2.bytecount \in 2..4 /\ g2.bytecount - 1 = k
      BY <3>1, <1>4
    <3>3. g3.spi_addr = [f.spi_addr EXCEPT ![k] = b]
      BY <3>2, <1>4, <1>5, AddressFields
    <3> QED BY <3>1, <3>3, <1>4, <1>5, AddressFields DEF AddrOf
  <2>2. CASE f.bytecount \notin 1..3
    <3>1. g2.bytecount \notin 2..4
      BY <2>2, <1>0, <1>4
    <3> QED BY <2>2, <3>1, <1>4, <1>5, AddressFields DEF AddrOf
  <2> QED BY <2>1, <2>2
<1>7. PICK g4 \in FlashSet : g4 = ModeByte(g3, b)
  BY ModeFields
<1>8. CmdOf(f, b) \in WideReads /\ f.bytecount = 4 => CmdOf(f, b) = f.spi_cmd
  BY DEF CmdOf
<1>9. /\ g4.bytecount = f.bytecount + 1 /\ g4.bitcount = 0 /\ g4.spi_addr = AddrOf(f, b)
      /\ g4.latency = f.latency /\ g4.quad = f.quad
      /\ g4.spi_cmd = g2.spi_cmd /\ g4.powered_up = g2.powered_up
      /\ g4.write_enabled = g2.write_enabled /\ g4.mode = g2.mode
      /\ g4.xip_cmd = (IF ModeBy(f, b) THEN IF b = StayInXip THEN f.spi_cmd ELSE 0 ELSE g2.xip_cmd)
      /\ g4.dummycount = (IF ModeBy(f, b) THEN f.latency[f.spi_cmd] ELSE f.dummycount)
  <2>1. g3.bytecount = 5 <=> f.bytecount = 4
    BY <1>0, <1>6
  <2>2. ModeBy(f, b) <=> g3.bytecount = 5 /\ g3.spi_cmd \in WideReads /\ g3.powered_up
                         /\ (g3.spi_cmd \in {QuadRead, QuadDdrRead} => g3.quad)
    BY <2>1, <1>4, <1>6, <1>8 DEF ModeBy, KnowsBy, CmdOf
  <2>3. ModeBy(f, b) => g3.spi_cmd = f.spi_cmd
    BY <1>4, <1>6, <1>8 DEF ModeBy, CmdOf
  <2> QED BY <1>6, <1>7, <2>2, <2>3, ModeFields
<1>10. /\ WritesAny(f) <=> g4.spi_cmd = WriteAnyRegister /\ g4.bytecount = 5 /\ g4.write_enabled
       /\ WritesStatus(f) <=> g4.spi_cmd = WriteStatus2 /\ g4.bytecount = 2 /\ g4.write_enabled
  <2>1. (f.bytecount + 1 = 5 <=> f.bytecount = 4) /\ (f.bytecount + 1 = 2 <=> f.bytecount = 1)
    BY <1>0
  <2>2. f.bytecount \in {1, 4} => g4.spi_cmd = f.spi_cmd /\ (g4.write_enabled <=> f.write_enabled)
    <3>1. f.bytecount \in {1, 4} => f.bytecount # 0
      OBVIOUS
    <3> QED BY ONLY <3>1, <1>4, <1>9, Zenon DEF CmdOf, EnabledBy
  <2>3. (g4.bytecount = 5 <=> f.bytecount = 4) /\ (g4.bytecount = 2 <=> f.bytecount = 1)
    BY <2>1, <1>9
  <2>4. (f.bytecount = 4 => f.bytecount \in {1, 4}) /\ (f.bytecount = 1 => f.bytecount \in {1, 4})
    OBVIOUS
  <2> QED BY ONLY <2>2, <2>3, <2>4, Zenon DEF WritesAny, WritesStatus
<1>11. PICK g5 \in FlashSet : g5 = RegisterByte(g4, b)
  BY <1>10, RegisterFields
<1>12. /\ g5.bytecount = f.bytecount + 1 /\ g5.bitcount = 0 /\ g5.spi_addr = AddrOf(f, b)
       /\ g5.latency = (IF WritesAny(f) /\ f.spi_addr[3] = LatencyRegister THEN [c \in WideReads |-> b] ELSE f.latency)
       /\ g5.quad = (IF WritesAny(f) /\ f.spi_addr[3] # LatencyRegister THEN f.spi_addr[3] = QuadRegister
                     ELSE IF WritesStatus(f) THEN TRUE ELSE f.quad)
       /\ g5.spi_cmd = g2.spi_cmd /\ g5.powered_up = g2.powered_up
       /\ g5.write_enabled = (EnabledBy(f, b) /\ ~WritesAny(f) /\ ~WritesStatus(f))
       /\ g5.mode = g2.mode
       /\ g5.xip_cmd = g4.xip_cmd /\ g5.dummycount = g4.dummycount
  <2>1. WritesAny(f) => AddrOf(f, b) = f.spi_addr
    BY DEF WritesAny, AddrOf
  <2>2. /\ g5.latency = (IF WritesAny(f) /\ g4.spi_addr[3] = LatencyRegister THEN [c \in WideReads |-> b] ELSE g4.latency)
        /\ g5.quad = (IF WritesAny(f) /\ g4.spi_addr[3] # LatencyRegister THEN g4.spi_addr[3] = QuadRegister
                     ELSE IF WritesStatus(f) THEN TRUE ELSE g4.quad)
        /\ g5.write_enabled = (g4.write_enabled /\ ~WritesAny(f) /\ ~WritesStatus(f))
        /\ g5.bytecount = g4.bytecount /\ g5.bitcount = g4.bitcount
        /\ g5.powered_up = g4.powered_up /\ g5.spi_cmd = g4.spi_cmd /\ g5.spi_addr = g4.spi_addr /\ g5.xip_cmd = g4.xip_cmd
        /\ g5.mode = g4.mode /\ g5.dummycount = g4.dummycount
    <3>1. LET any == g4.spi_cmd = WriteAnyRegister /\ g4.bytecount = 5 /\ g4.write_enabled
              status == g4.spi_cmd = WriteStatus2 /\ g4.bytecount = 2 /\ g4.write_enabled
          IN
        /\ g5.latency = (IF any /\ g4.spi_addr[3] = LatencyRegister THEN [c \in WideReads |-> b] ELSE g4.latency)
        /\ g5.quad = (IF any /\ g4.spi_addr[3] # LatencyRegister THEN g4.spi_addr[3] = QuadRegister
                     ELSE IF status THEN TRUE ELSE g4.quad)
        /\ g5.write_enabled = (g4.write_enabled /\ ~any /\ ~status)
        /\ g5.bytecount = g4.bytecount /\ g5.bitcount = g4.bitcount
        /\ g5.powered_up = g4.powered_up /\ g5.spi_cmd = g4.spi_cmd /\ g5.spi_addr = g4.spi_addr /\ g5.xip_cmd = g4.xip_cmd
        /\ g5.mode = g4.mode /\ g5.dummycount = g4.dummycount
      BY <1>11, RegisterFields
    <3> QED BY ONLY <3>1, <1>10, Zenon
  <2>3. WritesAny(f) => g4.spi_addr[3] = f.spi_addr[3]
    BY <2>1, <1>9
  <2>4. g5.latency = (IF WritesAny(f) /\ f.spi_addr[3] = LatencyRegister THEN [c \in WideReads |-> b] ELSE f.latency)
    BY ONLY <2>2, <2>3, <1>9, Zenon
  <2>5. g5.quad = (IF WritesAny(f) /\ f.spi_addr[3] # LatencyRegister THEN f.spi_addr[3] = QuadRegister
                     ELSE IF WritesStatus(f) THEN TRUE ELSE f.quad)
    BY ONLY <2>2, <2>3, <1>9, Zenon
  <2>6. g5.write_enabled = (EnabledBy(f, b) /\ ~WritesAny(f) /\ ~WritesStatus(f))
    BY ONLY <2>2, <1>9, <1>4, Zenon
  <2>7. g5.bitcount = 0 /\ g5.spi_addr = AddrOf(f, b) /\ g5.spi_cmd = g2.spi_cmd /\ g5.powered_up = g2.powered_up
        /\ g5.mode = g2.mode /\ g5.xip_cmd = g4.xip_cmd /\ g5.dummycount = g4.dummycount
    BY ONLY <2>2, <1>9, Zenon
  <2>8. g5.bytecount = f.bytecount + 1
    BY <2>2, <1>9
  <2> QED BY ONLY <2>4, <2>5, <2>6, <2>7, <2>8
<1>13. PICK g6 \in FlashSet : g6 = MemoryByte(g5)
  BY MemoryFields
<1>14. g6 = spi_action(f, b)
  BY <1>1, <1>3, <1>5, <1>7, <1>11, <1>13, SpiUnfold
<1>15. ReadsBy(f, b) <=> \/ g5.spi_cmd = Read /\ g5.powered_up /\ g5.bytecount >= 4
                         \/ g5.spi_cmd \in WideReads /\ g5.powered_up
                            /\ (g5.spi_cmd \in {QuadRead, QuadDdrRead} => g5.quad) /\ g5.bytecount >= 5
  <2>1. f.bytecount + 1 >= 4 <=> f.bytecount >= 3
    BY <1>0
  <2>2. f.bytecount + 1 >= 5 <=> f.bytecount >= 4
    BY <1>0
  <2>3. f.bytecount >= 3 => CmdOf(f, b) = f.spi_cmd /\ PoweredBy(f, b) = f.powered_up
    BY <1>0, <1>4 DEF CmdOf, PoweredBy, FlashSet
  <2>4. f.spi_cmd \in WideReads /\ f.bytecount >= 4 => ~WritesAny(f) /\ ~WritesStatus(f) /\ g5.quad = f.quad
    BY <1>12, CommandNumbers DEF WritesAny, WritesStatus
  <2>5. f.bytecount >= 4 => f.bytecount >= 3
    BY <1>0
  <2> QED BY <1>4, <1>12, <2>1, <2>2, <2>3, <2>4, <2>5 DEF ReadsBy, KnowsBy
<1>16. /\ ~ReadsBy(f, b) => g6.spi_addr = g5.spi_addr /\ g6.out = Junk /\ g6.bytecount = g5.bytecount
       /\ ReadsBy(f, b) => g6.bytecount = 5
       /\ \A a \in 0..(Space - 1) : ReadsBy(f, b) /\ g5.spi_addr = NextAddress(a) =>
              g6.out = a /\ g6.spi_addr = NextAddress(Wrap(a + 1))
       /\ g6.bitcount = g5.bitcount
       /\ g6.powered_up = g5.powered_up /\ g6.spi_cmd = g5.spi_cmd /\ g6.xip_cmd = g5.xip_cmd
       /\ g6.mode = g5.mode /\ g6.dummycount = g5.dummycount /\ g6.latency = g5.latency
       /\ g6.write_enabled = g5.write_enabled /\ g6.quad = g5.quad
  <2>1. LET reads == \/ g5.spi_cmd = Read /\ g5.powered_up /\ g5.bytecount >= 4
                     \/ g5.spi_cmd \in WideReads /\ g5.powered_up /\ (g5.spi_cmd \in {QuadRead, QuadDdrRead} => g5.quad)
                        /\ g5.bytecount >= 5
        IN
       /\ ~reads => g6.spi_addr = g5.spi_addr /\ g6.out = Junk /\ g6.bytecount = g5.bytecount
       /\ reads => g6.bytecount = 5
       /\ \A a \in 0..(Space - 1) : reads /\ g5.spi_addr = NextAddress(a) =>
              g6.out = a /\ g6.spi_addr = NextAddress(Wrap(a + 1))
       /\ g6.bitcount = g5.bitcount
       /\ g6.powered_up = g5.powered_up /\ g6.spi_cmd = g5.spi_cmd /\ g6.xip_cmd = g5.xip_cmd
       /\ g6.mode = g5.mode /\ g6.dummycount = g5.dummycount /\ g6.latency = g5.latency
       /\ g6.write_enabled = g5.write_enabled /\ g6.quad = g5.quad
    BY ONLY <1>13, g5 \in FlashSet, MemoryFields, Zenon
  <2> QED BY ONLY <2>1, <1>15, Zenon
<1>17. PICK h : h = g6
  OBVIOUS
<1>18. h = spi_action(f, b) /\ h \in FlashSet
  BY <1>13, <1>14, <1>17
<1>19. h.bytecount = (IF ReadsBy(f, b) THEN 5 ELSE f.bytecount + 1)
  <2>1. PICK n \in Nat, m \in Nat : n = f.bytecount + 1 /\ m = 5
    BY <1>0
  <2>2. g5.bytecount = n /\ (ReadsBy(f, b) => g6.bytecount = m)
    BY <1>12, <1>16, <2>1
  <2>3. h.bytecount = (IF ReadsBy(f, b) THEN m ELSE n)
    BY ONLY <1>16, <1>17, <2>2, Zenon
  <2> QED BY <2>1, <2>3
<1>20. h.spi_cmd = CmdOf(f, b) /\ h.powered_up = PoweredBy(f, b) /\ h.bitcount = 0
  BY ONLY <1>4, <1>12, <1>16, <1>17, Zenon
<1>21. h.mode = (IF f.bytecount = 0 /\ b \in WideReads /\ KnowsBy(f, b) THEN Lanes(b) ELSE f.mode)
  BY ONLY <1>4, <1>12, <1>16, <1>17, Zenon
<1>22. /\ h.xip_cmd = (IF ModeBy(f, b) THEN IF b = StayInXip THEN f.spi_cmd ELSE 0
                        ELSE IF f.bytecount = 0 /\ b = LeaveXip THEN 0 ELSE f.xip_cmd)
       /\ h.dummycount = (IF ModeBy(f, b) THEN f.latency[f.spi_cmd] ELSE f.dummycount)
  BY ONLY <1>4, <1>9, <1>12, <1>16, <1>17, Zenon
<1>23. /\ h.latency = (IF WritesAny(f) /\ f.spi_addr[3] = LatencyRegister THEN [c \in WideReads |-> b] ELSE f.latency)
       /\ h.quad = (IF WritesAny(f) /\ f.spi_addr[3] # LatencyRegister THEN f.spi_addr[3] = QuadRegister
                     ELSE IF WritesStatus(f) THEN TRUE ELSE f.quad)
       /\ h.write_enabled = (EnabledBy(f, b) /\ ~WritesAny(f) /\ ~WritesStatus(f))
  BY ONLY <1>12, <1>16, <1>17, Zenon
<1>24. /\ ~ReadsBy(f, b) => h.spi_addr = AddrOf(f, b) /\ h.out = Junk
       /\ \A a \in 0..(Space - 1) : ReadsBy(f, b) /\ AddrOf(f, b) = NextAddress(a) =>
              h.out = a /\ h.spi_addr = NextAddress(Wrap(a + 1))
  BY ONLY <1>12, <1>16, <1>17, Zenon
<1> QED BY ONLY <1>18, <1>19, <1>20, <1>21, <1>22, <1>23, <1>24, Zenon

-----------------------------------------------------------------------------
(* The flash: its clocks.                                                  *)

(* What n clocks do, clock by clock.                                          *)
ClockRun(f, n, g) == g = [k \in 0..n |-> IF k = 0 THEN f ELSE Clock(g[k - 1])]

LEMMA RunExists == ASSUME NEW f, NEW n \in Nat PROVE \E g : ClockRun(f, n, g)
<1> DEFINE T == {m \in Nat : \E g : ClockRun(f, m, g)}
<1>1. 0 \in T
  <2>1. ClockRun(f, 0, [k \in 0..0 |-> f])
    BY DEF ClockRun
  <2> QED BY <2>1
<1>2. ASSUME NEW m \in Nat, m \in T PROVE m + 1 \in T
  <2>1. PICK g : ClockRun(f, m, g)
    BY <1>2
  <2> DEFINE h == [k \in 0..(m + 1) |-> IF k = m + 1 THEN Clock(g[m]) ELSE g[k]]
  <2>2. ASSUME NEW k \in 0..(m + 1) PROVE h[k] = IF k = 0 THEN f ELSE Clock(h[k - 1])
    <3>1. CASE k = 0
      BY <2>1, <3>1 DEF ClockRun
    <3>2. CASE k \in 1..m
      <4>1. h[k] = g[k] /\ h[k - 1] = g[k - 1]
        BY <3>2
      <4>2. g[k] = Clock(g[k - 1])
        BY <2>1, <3>2 DEF ClockRun
      <4> QED BY <3>2, <4>1, <4>2
    <3>3. CASE k = m + 1
      <4>1. h[k - 1] = g[m]
        BY <3>3
      <4> QED BY <3>3, <4>1
    <3> QED BY <3>1, <3>2, <3>3
  <2>3. h = [k \in 0..(m + 1) |-> h[k]]
    OBVIOUS
  <2> HIDE DEF h
  <2>4. ClockRun(f, m + 1, h)
    BY <2>2, <2>3 DEF ClockRun
  <2> QED BY <2>4
<1> HIDE DEF T
<1>3. Nat \subseteq T
  BY <1>1, <1>2, Induction
<1> QED BY <1>3 DEF T

LEMMA ClocksRun == ASSUME NEW f, NEW n \in Nat PROVE \E g : ClockRun(f, n, g) /\ Clocks(f, n) = g[n]
<1> DEFINE g == CHOOSE g : ClockRun(f, n, g)
<1>1. Clocks(f, n) = (CHOOSE after : after = [k \in 0..n |-> IF k = 0 THEN f ELSE
                         CHOOSE h \in {Clock(h) : h \in {after[k - 1]}} : TRUE])[n]
  BY DEF Clocks
<1>2. ASSUME NEW a PROVE (CHOOSE h \in {Clock(h) : h \in {a}} : TRUE) = Clock(a)
  OBVIOUS
<1>3. ASSUME NEW after
      PROVE [k \in 0..n |-> IF k = 0 THEN f ELSE CHOOSE h \in {Clock(h) : h \in {after[k - 1]}} : TRUE]
            = [k \in 0..n |-> IF k = 0 THEN f ELSE Clock(after[k - 1])]
  BY <1>2
<1>4. ASSUME NEW after
      PROVE (after = [k \in 0..n |-> IF k = 0 THEN f ELSE CHOOSE h \in {Clock(h) : h \in {after[k - 1]}} : TRUE])
            <=> ClockRun(f, n, after)
  BY <1>3 DEF ClockRun
<1>5. Clocks(f, n) = g[n]
  BY <1>1, <1>4
<1> QED BY <1>5, RunExists

(* To know what some clocks lead to, follow them one by one.                  *)
LEMMA ClocksInduct ==
  ASSUME NEW f, NEW n \in Nat, NEW Stage, f \in Stage[0],
         \A k \in 0..(n - 1) : \A g \in Stage[k] : Clock(g) \in Stage[k + 1]
  PROVE Clocks(f, n) \in Stage[n]
<1>1. PICK g : ClockRun(f, n, g) /\ Clocks(f, n) = g[n]
  BY ClocksRun
<1> DEFINE T == {m \in Nat : m <= n => g[m] \in Stage[m]}
<1>2. 0 \in T
  BY <1>1 DEF ClockRun
<1>3. ASSUME NEW m \in Nat, m \in T PROVE m + 1 \in T
  <2> SUFFICES ASSUME m + 1 <= n PROVE g[m + 1] \in Stage[m + 1]
    OBVIOUS
  <2>1. g[m] \in Stage[m]
    BY <1>3
  <2>2. g[m + 1] = Clock(g[m])
    BY <1>1 DEF ClockRun
  <2>3. m \in 0..(n - 1)
    OBVIOUS
  <2> QED BY <2>1, <2>2, <2>3
<1> HIDE DEF T
<1>4. Nat \subseteq T
  BY <1>2, <1>3, Induction
<1> QED BY <1>1, <1>4 DEF T

LEMMA ClocksStay ==
  ASSUME NEW f, NEW n \in Nat, NEW S, f \in S, \A g \in S : Clock(g) \in S
  PROVE Clocks(f, n) \in S
<1> DEFINE Stage == [k \in 0..n |-> S]
<1>1. f \in Stage[0] /\ \A k \in 0..(n - 1) : \A g \in Stage[k] : Clock(g) \in Stage[k + 1]
  OBVIOUS
<1>2. Stage[n] = S
  OBVIOUS
<1> HIDE DEF Stage
<1> QED BY <1>1, <1>2, ClocksInduct

LEMMA NoClocks == ASSUME NEW f PROVE Clocks(f, 0) = f
<1>1. PICK g : ClockRun(f, 0, g) /\ Clocks(f, 0) = g[0]
  BY ClocksRun
<1> QED BY <1>1 DEF ClockRun

-----------------------------------------------------------------------------
(* The flash: what it is left in by a restart of its controller.           *)

(* What the flash is left in while the controller restarts: it may still be   *)
(* in continuous reading or have dummy clocks to go, but it will write nothing. *)
QuadReads == {QuadRead, QuadDdrRead}
Short(l) == \A c \in WideReads : l[c] <= 8
Safe(f) ==
  /\ ~f.write_enabled /\ f.dummycount <= 8
  /\ f.xip_cmd = 0 \/ f.xip_cmd \in QuadReads
  /\ f.xip_cmd # 0 => f.powered_up /\ f.quad /\ f.dummycount = 0
  /\ f.dummycount > 0 => f.powered_up
Harmless(f, b) ==
  /\ f.bytecount = 0 => b \notin WriteEnables
  /\ f.bytecount = 4 => b # StayInXip
Idle(f) == f.bitcount = 0 /\ f.bytecount = 0 /\ f.mode = 1

(* A byte that does not enable writes leaves the registers as they are.       *)
LEMMA QuietByte ==
  ASSUME NEW f \in FlashSet, NEW b \in Int, ~f.write_enabled, f.bytecount = 0 => b \notin WriteEnables
  PROVE LET h == spi_action(f, b) IN
        /\ h \in FlashSet /\ h.latency = f.latency /\ h.quad = f.quad /\ ~h.write_enabled
        /\ h.bitcount = 0 /\ (f.powered_up => h.powered_up)
<1>1. ~WritesAny(f) /\ ~WritesStatus(f) /\ ~EnabledBy(f, b) /\ (f.powered_up => PoweredBy(f, b))
  BY DEF WritesAny, WritesStatus, EnabledBy, PoweredBy
<1>2. LET h == spi_action(f, b) IN
      /\ h \in FlashSet
      /\ h.latency = (IF WritesAny(f) /\ f.spi_addr[3] = LatencyRegister THEN [c \in WideReads |-> b] ELSE f.latency)
      /\ h.quad = (IF WritesAny(f) /\ f.spi_addr[3] # LatencyRegister THEN f.spi_addr[3] = QuadRegister
                     ELSE IF WritesStatus(f) THEN TRUE ELSE f.quad)
      /\ h.write_enabled = (EnabledBy(f, b) /\ ~WritesAny(f) /\ ~WritesStatus(f))
      /\ h.bitcount = 0 /\ h.powered_up = PoweredBy(f, b)
  BY ONLY <1>1, f \in FlashSet, b \in Int, SpiAction, Zenon
<1> QED BY ONLY <1>1, <1>2, Zenon

(* The same byte, and the registers that say what the flash expects next.     *)
LEMMA QuietMode ==
  ASSUME NEW f \in FlashSet, NEW b \in Int, ~f.write_enabled, f.bytecount = 0 => b \notin WriteEnables
  PROVE LET h == spi_action(f, b) IN
        /\ h.bytecount = (IF ReadsBy(f, b) THEN 5 ELSE f.bytecount + 1)
        /\ h.spi_cmd = CmdOf(f, b)
        /\ h.mode = (IF f.bytecount = 0 /\ b \in WideReads /\ KnowsBy(f, b) THEN Lanes(b) ELSE f.mode)
        /\ h.xip_cmd = (IF ModeBy(f, b) THEN IF b = StayInXip THEN f.spi_cmd ELSE 0
                        ELSE IF f.bytecount = 0 /\ b = LeaveXip THEN 0 ELSE f.xip_cmd)
        /\ h.dummycount = (IF ModeBy(f, b) THEN f.latency[f.spi_cmd] ELSE f.dummycount)
        /\ h.powered_up = PoweredBy(f, b)
        /\ ~ReadsBy(f, b) => h.spi_addr = AddrOf(f, b) /\ h.out = Junk
        /\ \A a \in 0..(Space - 1) : ReadsBy(f, b) /\ AddrOf(f, b) = NextAddress(a) =>
              h.out = a /\ h.spi_addr = NextAddress(Wrap(a + 1))
<1>1. ~WritesAny(f)
  BY DEF WritesAny
<1> QED BY ONLY <1>1, f \in FlashSet, b \in Int, SpiAction, Zenon

LEMMA SafeByte ==
  ASSUME NEW f \in FlashSet, NEW b \in Int, Safe(f), Short(f.latency), Harmless(f, b)
  PROVE Safe(spi_action(f, b))
<1>1. ~f.write_enabled /\ (f.bytecount = 0 => b \notin WriteEnables)
  BY DEF Safe, Harmless
<1>2. PICK h \in FlashSet : /\ h = spi_action(f, b) /\ ~h.write_enabled /\ h.quad = f.quad
                            /\ (f.powered_up => h.powered_up)
  BY <1>1, QuietByte
<1>3. /\ h.xip_cmd = (IF ModeBy(f, b) THEN IF b = StayInXip THEN f.spi_cmd ELSE 0
                        ELSE IF f.bytecount = 0 /\ b = LeaveXip THEN 0 ELSE f.xip_cmd)
      /\ h.dummycount = (IF ModeBy(f, b) THEN f.latency[f.spi_cmd] ELSE f.dummycount)
  BY <1>1, <1>2, QuietMode
<1>4. CASE ModeBy(f, b)
  <2>1. b # StayInXip /\ f.spi_cmd \in WideReads /\ f.powered_up
    <3>1. f.bytecount = 4
      BY <1>4 DEF ModeBy
    <3>2. f.bytecount # 0
      BY <3>1
    <3> QED BY ONLY <1>4, <3>1, <3>2, Harmless(f, b), Zenon DEF ModeBy, KnowsBy, PoweredBy, Harmless
  <2>2. h.xip_cmd = 0 /\ h.dummycount = f.latency[f.spi_cmd] /\ f.latency[f.spi_cmd] <= 8
    BY <2>1, <1>3, <1>4 DEF Short
  <2> QED BY <1>2, <2>1, <2>2 DEF Safe
<1>5. CASE ~ModeBy(f, b)
  <2>1. h.dummycount = f.dummycount /\ (h.xip_cmd = 0 \/ h.xip_cmd = f.xip_cmd)
    BY <1>3, <1>5
  <2> QED BY <1>2, <2>1 DEF Safe
<1> QED BY <1>2, <1>4, <1>5

(* The flash between two bytes of its own, and one dummy clock.               *)
LEMMA BitFields ==
  ASSUME NEW f \in FlashSet, NEW n \in Nat
  PROVE LET g == [f EXCEPT !.bitcount = n] IN
        /\ g \in FlashSet /\ g.bitcount = n /\ g.bytecount = f.bytecount
        /\ g.powered_up = f.powered_up /\ g.spi_cmd = f.spi_cmd /\ g.xip_cmd = f.xip_cmd /\ g.spi_addr = f.spi_addr
        /\ g.out = f.out /\ g.mode = f.mode /\ g.dummycount = f.dummycount /\ g.latency = f.latency
        /\ g.write_enabled = f.write_enabled /\ g.quad = f.quad
BY DEF FlashSet

LEMMA DummyFields ==
  ASSUME NEW f \in FlashSet, NEW n \in Nat
  PROVE LET g == [f EXCEPT !.dummycount = n] IN
        /\ g \in FlashSet /\ g.bitcount = f.bitcount /\ g.bytecount = f.bytecount
        /\ g.powered_up = f.powered_up /\ g.spi_cmd = f.spi_cmd /\ g.xip_cmd = f.xip_cmd /\ g.spi_addr = f.spi_addr
        /\ g.out = f.out /\ g.mode = f.mode /\ g.dummycount = n /\ g.latency = f.latency
        /\ g.write_enabled = f.write_enabled /\ g.quad = f.quad
BY DEF FlashSet

LEMMA DeselectedFields ==
  ASSUME NEW f \in FlashSet
  PROVE LET g == Deselected(f) IN
        /\ g \in FlashSet /\ g.bitcount = 0 /\ g.bytecount = 0 /\ g.mode = 1
        /\ g.powered_up = f.powered_up /\ g.spi_cmd = f.spi_cmd /\ g.xip_cmd = f.xip_cmd
        /\ g.dummycount = f.dummycount /\ g.latency = f.latency
        /\ g.write_enabled = f.write_enabled /\ g.quad = f.quad
<1>0. PICK s \in AddressSet : s = <<0, 0, 0>>
  <2>1. <<0, 0, 0>> \in AddressSet
    BY DEF AddressSet
  <2> QED BY <2>1
<1>1. PICK zero \in Nat, one \in ModeSet, junk \in Int : zero = 0 /\ one = 1 /\ junk = Junk
  BY DEF ModeSet, Junk
<1>2. Deselected(f) = [f EXCEPT !.bitcount = zero, !.bytecount = zero, !.mode = one, !.out = junk, !.spi_addr = s]
  BY <1>0, <1>1 DEF Deselected
<1>3. LET g == [f EXCEPT !.bitcount = zero, !.bytecount = zero, !.mode = one, !.out = junk, !.spi_addr = s] IN
        /\ g \in FlashSet /\ g.bitcount = zero /\ g.bytecount = zero /\ g.mode = one
        /\ g.powered_up = f.powered_up /\ g.spi_cmd = f.spi_cmd /\ g.xip_cmd = f.xip_cmd
        /\ g.dummycount = f.dummycount /\ g.latency = f.latency
        /\ g.write_enabled = f.write_enabled /\ g.quad = f.quad
  BY DEF FlashSet
<1> QED BY <1>1, <1>2, <1>3

(* A clock: a dummy clock, a bit, or the last bit of a byte that is junk.     *)
LEMMA ClockIs ==
  ASSUME NEW f \in FlashSet
  PROVE /\ f.dummycount > 0 => f.dummycount - 1 \in Nat /\ Clock(f) = [f EXCEPT !.dummycount = f.dummycount - 1]
        /\ f.dummycount = 0 /\ f.bitcount + f.mode >= 8 => Clock(f) = spi_action(f, Junk)
        /\ f.dummycount = 0 /\ ~(f.bitcount + f.mode >= 8) =>
             f.bitcount + f.mode \in Nat /\ Clock(f) = [f EXCEPT !.bitcount = f.bitcount + f.mode]
<1>1. f.dummycount \in Nat /\ f.bitcount \in Nat /\ f.mode \in Nat
  BY DEF FlashSet, ModeSet
<1> QED BY <1>1 DEF Clock

LEMMA JunkIs == Junk \in Int /\ Junk \notin WriteEnables /\ Junk # StayInXip /\ Junk \notin WideReads /\ Junk # LeaveXip
BY DEF Junk, WriteEnables, StayInXip, WideReads, DualRead, QuadRead, QuadDdrRead, LeaveXip

SafeSet(l, q) == {g \in FlashSet : Safe(g) /\ g.latency = l /\ g.quad = q}
LEMMA SafeClock ==
  ASSUME NEW l \in LatencySet, NEW q, Short(l), NEW f \in SafeSet(l, q)
  PROVE Clock(f) \in SafeSet(l, q)
<1>1. f \in FlashSet /\ Safe(f) /\ f.latency = l /\ f.quad = q
  BY DEF SafeSet
<1>2. CASE f.dummycount > 0
  <2>1. PICK n \in Nat : n = f.dummycount - 1 /\ Clock(f) = [f EXCEPT !.dummycount = n]
    BY <1>1, <1>2, ClockIs
  <2>2. PICK g \in FlashSet : /\ g = [f EXCEPT !.dummycount = n] /\ g.dummycount = n /\ g.latency = f.latency /\ g.quad = f.quad
                              /\ g.powered_up = f.powered_up /\ g.xip_cmd = f.xip_cmd /\ g.write_enabled = f.write_enabled
    <3>1. f \in FlashSet /\ n \in Nat
      BY <1>1
    <3>2. PICK g : g = [f EXCEPT !.dummycount = n]
      OBVIOUS
    <3>3. /\ g \in FlashSet /\ g.dummycount = n /\ g.latency = f.latency /\ g.quad = f.quad
          /\ g.powered_up = f.powered_up /\ g.xip_cmd = f.xip_cmd /\ g.write_enabled = f.write_enabled
      BY ONLY <3>1, <3>2, DummyFields
    <3> QED BY <3>2, <3>3
  <2>3. Safe(g)
    <3>1. f.dummycount # 0 /\ f.dummycount \in Nat
      BY <1>1, <1>2 DEF FlashSet
    <3>2. f.xip_cmd = 0 /\ f.powered_up /\ ~f.write_enabled /\ f.dummycount <= 8
      BY ONLY <3>1, <1>1, <1>2, Zenon DEF Safe
    <3>3. n <= 8
      BY <2>1, <3>1, <3>2
    <3> QED BY ONLY <2>2, <3>2, <3>3, Zenon DEF Safe
  <2> QED BY <1>1, <2>1, <2>2, <2>3 DEF SafeSet
<1>3. CASE f.dummycount = 0 /\ f.bitcount + f.mode >= 8
  <2>1. Clock(f) = spi_action(f, Junk)
    BY <1>1, <1>3, ClockIs
  <2>2. Harmless(f, Junk) /\ Junk \in Int /\ ~f.write_enabled
    BY <1>1, JunkIs DEF Harmless, Safe
  <2> QED BY <1>1, <2>1, <2>2, SafeByte, QuietByte, JunkIs DEF SafeSet
<1>4. CASE f.dummycount = 0 /\ ~(f.bitcount + f.mode >= 8)
  <2>1. PICK n \in Nat : Clock(f) = [f EXCEPT !.bitcount = n]
    BY <1>1, <1>4, ClockIs
  <2>2. PICK g \in FlashSet : /\ g = [f EXCEPT !.bitcount = n] /\ g.dummycount = f.dummycount /\ g.latency = f.latency /\ g.quad = f.quad
                              /\ g.powered_up = f.powered_up /\ g.xip_cmd = f.xip_cmd /\ g.write_enabled = f.write_enabled
    BY <1>1, BitFields
  <2>3. Safe(g)
    BY ONLY <1>1, <2>2, Zenon DEF Safe
  <2> QED BY <1>1, <2>1, <2>2, <2>3 DEF SafeSet
<1>5. f.dummycount \in Nat
  BY <1>1 DEF FlashSet
<1> QED BY <1>2, <1>3, <1>4, <1>5

LEMMA SafeClocks ==
  ASSUME NEW l \in LatencySet, NEW q, Short(l), NEW f \in SafeSet(l, q), NEW n \in Nat
  PROVE Clocks(f, n) \in SafeSet(l, q)
<1>1. \A g \in SafeSet(l, q) : Clock(g) \in SafeSet(l, q)
  BY SafeClock
<1> QED BY <1>1, ClocksStay

LEMMA SafeTransferred ==
  ASSUME NEW l \in LatencySet, NEW q, Short(l), NEW f \in SafeSet(l, q), NEW b \in Int, Harmless(f, b),
         NEW lanes \in ModeSet, NEW dummy \in Nat
  PROVE Transferred(f, lanes, dummy, b) \in SafeSet(l, q)
<1>1. f \in FlashSet /\ Safe(f) /\ f.latency = l /\ f.quad = q
  BY DEF SafeSet
<1>2. CASE InStep(f, lanes, dummy)
  <2>0. PICK zero \in Nat : zero = 0
    OBVIOUS
  <2>1. PICK g \in FlashSet : /\ g = [f EXCEPT !.dummycount = zero] /\ g.dummycount = zero /\ g.latency = f.latency /\ g.quad = f.quad
                              /\ g.powered_up = f.powered_up /\ g.xip_cmd = f.xip_cmd /\ g.write_enabled = f.write_enabled
                              /\ g.bytecount = f.bytecount
    BY <1>1, DummyFields
  <2>2. Safe(g) /\ Harmless(g, b) /\ Short(g.latency) /\ ~g.write_enabled /\ (g.bytecount = 0 => b \notin WriteEnables)
    BY <1>1, <2>0, <2>1 DEF Safe, Harmless
  <2>3. Transferred(f, lanes, dummy, b) = spi_action(g, b)
    BY <1>2, <2>0, <2>1 DEF Transferred
  <2>4. Safe(spi_action(g, b))
    BY <2>2, SafeByte
  <2>5. spi_action(g, b) \in FlashSet /\ spi_action(g, b).latency = g.latency /\ spi_action(g, b).quad = g.quad
    BY <2>2, QuietByte
  <2> QED BY <1>1, <2>1, <2>3, <2>4, <2>5 DEF SafeSet
<1>3. CASE ~InStep(f, lanes, dummy)
  <2>1. dummy + 8 \div lanes \in Nat
    BY DEF ModeSet
  <2>2. Transferred(f, lanes, dummy, b) = Clocks(f, dummy + 8 \div lanes)
    BY <1>3 DEF Transferred
  <2> QED BY <2>1, <2>2, SafeClocks
<1> QED BY <1>2, <1>3

LEMMA SafeDeselected ==
  ASSUME NEW l, NEW q, NEW f \in SafeSet(l, q) PROVE Deselected(f) \in SafeSet(l, q) /\ Idle(Deselected(f))
BY DeselectedFields DEF SafeSet, Safe, Idle

(* Behind its command, address and mode byte the flash only reads on.         *)
PastSet(f) ==
  {g \in FlashSet : /\ g.bytecount >= 5 /\ g.dummycount = 0 /\ ~g.write_enabled
                    /\ g.xip_cmd = f.xip_cmd /\ g.powered_up = f.powered_up
                    /\ g.latency = f.latency /\ g.quad = f.quad}

LEMMA PastByte ==
  ASSUME NEW f, NEW g \in PastSet(f), NEW b \in Int
  PROVE spi_action(g, b) \in PastSet(f)
<1>1. /\ g \in FlashSet /\ g.bytecount >= 5 /\ g.dummycount = 0 /\ ~g.write_enabled
      /\ g.xip_cmd = f.xip_cmd /\ g.powered_up = f.powered_up /\ g.latency = f.latency /\ g.quad = f.quad
  BY DEF PastSet
<1>2. g.bytecount # 0 /\ g.bytecount # 4 /\ g.bytecount \in Nat
  BY <1>1 DEF FlashSet
<1>3. ~ModeBy(g, b) /\ PoweredBy(g, b) = g.powered_up
  BY <1>1, <1>2 DEF ModeBy, PoweredBy, FlashSet
<1>4. PICK h \in FlashSet : h = spi_action(g, b) /\ h.latency = g.latency /\ h.quad = g.quad /\ ~h.write_enabled
  BY <1>1, <1>2, QuietByte
<1>5. /\ h.bytecount = (IF ReadsBy(g, b) THEN 5 ELSE g.bytecount + 1)
      /\ h.xip_cmd = (IF ModeBy(g, b) THEN IF b = StayInXip THEN g.spi_cmd ELSE 0
                        ELSE IF g.bytecount = 0 /\ b = LeaveXip THEN 0 ELSE g.xip_cmd)
      /\ h.dummycount = (IF ModeBy(g, b) THEN g.latency[g.spi_cmd] ELSE g.dummycount)
      /\ h.powered_up = PoweredBy(g, b)
  BY <1>1, <1>2, <1>4, QuietMode
<1>6. h.xip_cmd = g.xip_cmd /\ h.dummycount = g.dummycount /\ h.powered_up = g.powered_up
  BY ONLY <1>2, <1>3, <1>5, Zenon
<1>7. h.bytecount >= 5
  BY <1>1, <1>2, <1>5
<1> QED BY <1>1, <1>4, <1>6, <1>7 DEF PastSet

LEMMA PastClock == ASSUME NEW f, NEW g \in PastSet(f) PROVE Clock(g) \in PastSet(f)
<1>1. g \in FlashSet /\ g.dummycount = 0
  BY DEF PastSet
<1>2. CASE g.bitcount + g.mode >= 8
  BY <1>1, <1>2, ClockIs, PastByte, JunkIs
<1>3. CASE ~(g.bitcount + g.mode >= 8)
  <2>1. PICK n \in Nat : Clock(g) = [g EXCEPT !.bitcount = n]
    BY <1>1, <1>3, ClockIs
  <2>2. PICK h \in FlashSet : /\ h = [g EXCEPT !.bitcount = n] /\ h.bytecount = g.bytecount /\ h.dummycount = g.dummycount
                              /\ h.latency = g.latency /\ h.quad = g.quad
                              /\ h.powered_up = g.powered_up /\ h.xip_cmd = g.xip_cmd /\ h.write_enabled = g.write_enabled
    BY <1>1, BitFields
  <2> QED BY <2>1, <2>2 DEF PastSet
<1> QED BY <1>2, <1>3

LEMMA PastClocks == ASSUME NEW f, NEW g \in PastSet(f), NEW n \in Nat PROVE Clocks(g, n) \in PastSet(f)
<1>1. \A h \in PastSet(f) : Clock(h) \in PastSet(f)
  BY PastClock
<1> QED BY <1>1, ClocksStay

LEMMA ClocksOfByte == ASSUME NEW lanes \in ModeSet, NEW dummy \in Nat
  PROVE dummy + 8 \div lanes \in Nat /\ dummy + 8 \div lanes - 1 \in Nat /\ (lanes = 1 => 8 \div lanes = 8)
BY DEF ModeSet

LEMMA PastTransferred ==
  ASSUME NEW f, NEW g \in PastSet(f), NEW b \in Int, NEW lanes \in ModeSet, NEW dummy \in Nat
  PROVE Transferred(g, lanes, dummy, b) \in PastSet(f)
<1>1. g \in FlashSet /\ g.dummycount = 0
  BY DEF PastSet
<1>2. PICK zero \in Nat : zero = 0
  OBVIOUS
<1>3. PICK h \in FlashSet : /\ h = [g EXCEPT !.dummycount = zero] /\ h.bytecount = g.bytecount /\ h.dummycount = zero
                            /\ h.latency = g.latency /\ h.quad = g.quad
                            /\ h.powered_up = g.powered_up /\ h.xip_cmd = g.xip_cmd /\ h.write_enabled = g.write_enabled
  BY <1>1, DummyFields
<1>4. h \in PastSet(f)
  BY <1>2, <1>3 DEF PastSet
<1>5. InStep(g, lanes, dummy) => Transferred(g, lanes, dummy, b) = spi_action(h, b)
  BY <1>2, <1>3 DEF Transferred
<1>6. ~InStep(g, lanes, dummy) => Transferred(g, lanes, dummy, b) = Clocks(g, dummy + 8 \div lanes)
  BY DEF Transferred
<1> QED BY <1>4, <1>5, <1>6, PastByte, PastClocks, ClocksOfByte

-----------------------------------------------------------------------------
(* A command that is cut short is no command.                                 *)
CutSet(f, k) ==
  {g \in FlashSet : /\ g.bytecount = 0 /\ g.mode = 1 /\ g.dummycount = 0 /\ g.bitcount = k
                    /\ g.write_enabled = f.write_enabled /\ g.xip_cmd = f.xip_cmd /\ g.powered_up = f.powered_up
                    /\ g.latency = f.latency /\ g.quad = f.quad}

LEMMA CutCommand ==
  ASSUME NEW f \in FlashSet, Idle(f), f.dummycount = 0, NEW n \in 0..7
  PROVE Clocks(f, n) \in CutSet(f, n)
<1> DEFINE Stage == [k \in 0..n |-> CutSet(f, k)]
<1>1. f \in Stage[0]
  BY DEF CutSet, Idle
<1>2. ASSUME NEW k \in 0..(n - 1), NEW g \in Stage[k] PROVE Clock(g) \in Stage[k + 1]
  <2>1. /\ g \in FlashSet /\ g.bytecount = 0 /\ g.mode = 1 /\ g.dummycount = 0 /\ g.bitcount = k
        /\ g.write_enabled = f.write_enabled /\ g.xip_cmd = f.xip_cmd /\ g.powered_up = f.powered_up
        /\ g.latency = f.latency /\ g.quad = f.quad
    BY DEF CutSet
  <2>2. PICK m \in Nat : m = k + 1 /\ Clock(g) = [g EXCEPT !.bitcount = m]
    BY <2>1, ClockIs
  <2>3. PICK h \in FlashSet : /\ h = [g EXCEPT !.bitcount = m] /\ h.bitcount = m /\ h.bytecount = g.bytecount /\ h.dummycount = g.dummycount
                              /\ h.latency = g.latency /\ h.quad = g.quad /\ h.mode = g.mode
                              /\ h.powered_up = g.powered_up /\ h.xip_cmd = g.xip_cmd /\ h.write_enabled = g.write_enabled
    <3>1. g \in FlashSet /\ m \in Nat
      BY <2>1
    <3>2. PICK h : h = [g EXCEPT !.bitcount = m]
      OBVIOUS
    <3>3. /\ h \in FlashSet /\ h.bitcount = m /\ h.bytecount = g.bytecount /\ h.dummycount = g.dummycount
          /\ h.latency = g.latency /\ h.quad = g.quad /\ h.mode = g.mode
          /\ h.powered_up = g.powered_up /\ h.xip_cmd = g.xip_cmd /\ h.write_enabled = g.write_enabled
      BY ONLY <3>1, <3>2, BitFields
    <3> QED BY <3>2, <3>3
  <2>4. h \in CutSet(f, k + 1)
    BY <2>1, <2>2, <2>3 DEF CutSet
  <2> QED BY <2>2, <2>3, <2>4
<1>3. Stage[n] = CutSet(f, n)
  OBVIOUS
<1> HIDE DEF Stage
<1> QED BY <1>1, <1>2, <1>3, ClocksInduct

(* Chip select falls: outside of continuous reading nothing happens, inside   *)
(* the flash is behind the command it stays in.                               *)
LEMMA SelectedOn ==
  ASSUME NEW f \in FlashSet, ~f.write_enabled, Idle(f), f.powered_up, f.quad, f.dummycount = 0, f.xip_cmd \in WideReads
  PROVE LET g == Selected(f) IN
        /\ g \in FlashSet /\ g.latency = f.latency /\ g.quad = f.quad /\ ~g.write_enabled /\ g.powered_up
        /\ g.bitcount = 0 /\ g.bytecount = 1 /\ g.dummycount = 0
        /\ g.mode = Lanes(f.xip_cmd) /\ g.spi_cmd = f.xip_cmd /\ g.xip_cmd = f.xip_cmd
<1>1. PICK b \in Int : b = f.xip_cmd
  BY DEF FlashSet
<1>2. b \in WideReads /\ b # 0 /\ b \notin WriteEnables /\ b # LeaveXip
  BY <1>1 DEF WideReads, QuadRead, QuadDdrRead, DualRead, WriteEnables, LeaveXip
<1>3. Selected(f) = spi_action(f, b) /\ f.bytecount = 0
  BY <1>1, <1>2 DEF Selected, Idle
<1>4. PICK g \in FlashSet : g = spi_action(f, b) /\ g.latency = f.latency /\ g.quad = f.quad /\ g.bitcount = 0
                            /\ ~g.write_enabled /\ (f.powered_up => g.powered_up)
  BY ONLY f \in FlashSet, ~f.write_enabled, <1>1, <1>2, <1>3, QuietByte, Zenon
<1>5. ~ModeBy(f, b) /\ ~ReadsBy(f, b) /\ CmdOf(f, b) = b /\ KnowsBy(f, b)
  <2>1. ~(f.bytecount >= 3) /\ ~(f.bytecount >= 4) /\ f.bytecount # 4 /\ f.powered_up /\ f.quad /\ b \in WideReads /\ f.bytecount = 0
        /\ ~(b = Read)
    BY <1>2, <1>3 DEF WideReads, QuadRead, QuadDdrRead, DualRead, Read
  <2> QED BY ONLY <2>1, Zenon DEF ModeBy, ReadsBy, CmdOf, KnowsBy, PoweredBy
<1>6. /\ g.bytecount = (IF ReadsBy(f, b) THEN 5 ELSE f.bytecount + 1)
      /\ g.spi_cmd = CmdOf(f, b)
      /\ g.mode = (IF f.bytecount = 0 /\ b \in WideReads /\ KnowsBy(f, b) THEN Lanes(b) ELSE f.mode)
      /\ g.xip_cmd = (IF ModeBy(f, b) THEN IF b = StayInXip THEN f.spi_cmd ELSE 0
                      ELSE IF f.bytecount = 0 /\ b = LeaveXip THEN 0 ELSE f.xip_cmd)
      /\ g.dummycount = (IF ModeBy(f, b) THEN f.latency[f.spi_cmd] ELSE f.dummycount)
  <2>1. f \in FlashSet /\ b \in Int /\ ~f.write_enabled /\ (f.bytecount = 0 => b \notin WriteEnables)
    BY <1>1, <1>2
  <2> QED BY ONLY <1>4, <2>1, QuietMode
<1>7. g.bytecount = 1
  BY <1>3, <1>5, <1>6
<1>8. g.spi_cmd = b /\ g.mode = Lanes(b) /\ g.xip_cmd = b /\ g.dummycount = 0
  BY ONLY f.dummycount = 0, <1>1, <1>2, <1>3, <1>5, <1>6, Zenon
<1> QED BY <1>1, <1>3, <1>4, <1>7, <1>8

LEMMA SelectedFields ==
  ASSUME NEW l \in LatencySet, NEW q, Short(l), NEW f \in SafeSet(l, q), Idle(f)
  PROVE LET g == Selected(f) IN
        /\ g \in SafeSet(l, q)
        /\ f.xip_cmd = 0 => g = f
        /\ f.xip_cmd # 0 => /\ g.bitcount = 0 /\ g.bytecount = 1 /\ g.dummycount = 0
                            /\ g.mode = Lanes(f.xip_cmd) /\ g.spi_cmd = f.xip_cmd
                            /\ g.xip_cmd = f.xip_cmd /\ g.powered_up
<1>1. f \in FlashSet /\ Safe(f) /\ f.latency = l /\ f.quad = q
  BY DEF SafeSet
<1>2. CASE f.xip_cmd = 0
  BY <1>2 DEF Selected
<1>3. CASE f.xip_cmd # 0
  <2>1. f.powered_up /\ f.quad /\ f.dummycount = 0 /\ ~f.write_enabled /\ f.xip_cmd \in QuadReads /\ f.xip_cmd \in WideReads
    BY <1>1, <1>3 DEF Safe, QuadReads, WideReads
  <2>2. PICK g : g = Selected(f) /\ g \in FlashSet /\ g.latency = f.latency /\ g.quad = f.quad /\ ~g.write_enabled /\ g.powered_up
                 /\ g.bitcount = 0 /\ g.bytecount = 1 /\ g.dummycount = 0
                 /\ g.mode = Lanes(f.xip_cmd) /\ g.spi_cmd = f.xip_cmd /\ g.xip_cmd = f.xip_cmd
    BY <1>1, <2>1, SelectedOn
  <2>3. Safe(g)
    BY <2>1, <2>2 DEF Safe
  <2> QED BY <1>1, <1>3, <2>2, <2>3 DEF SafeSet
<1> QED BY <1>2, <1>3

LEMMA LanesIs ==
  /\ \A c \in QuadReads : Lanes(c) \in {4, 8} /\ c \in WideReads
  /\ \A c \in WideReads : Lanes(c) \in ModeSet \ {1}
  /\ Lanes(DualRead) = 2 /\ Lanes(QuadRead) = 4 /\ Lanes(QuadDdrRead) = 8
BY DEF QuadReads, WideReads, Lanes, DualRead, QuadRead, QuadDdrRead, ModeSet

(* Out of continuous reading, clocks alone do not lead back into it.          *)
OffSet(l, q) == {g \in SafeSet(l, q) : g.xip_cmd = 0}
LEMMA OffClock ==
  ASSUME NEW l \in LatencySet, NEW q, Short(l), NEW f \in OffSet(l, q)
  PROVE Clock(f) \in OffSet(l, q)
<1>1. f \in FlashSet /\ Safe(f) /\ f.latency = l /\ f.quad = q /\ f.xip_cmd = 0 /\ f \in SafeSet(l, q) /\ ~f.write_enabled
  BY DEF OffSet, SafeSet, Safe
<1>2. Clock(f) \in SafeSet(l, q)
  BY <1>1, SafeClock
<1>3. Clock(f).xip_cmd = 0
  <2>1. CASE f.dummycount > 0
    <3>1. PICK n \in Nat : Clock(f) = [f EXCEPT !.dummycount = n]
      BY <1>1, <2>1, ClockIs
    <3> QED BY <1>1, <3>1, DummyFields
  <2>2. CASE f.dummycount = 0 /\ f.bitcount + f.mode >= 8
    <3>1. Clock(f) = spi_action(f, Junk) /\ Junk \in Int /\ Junk \notin WriteEnables /\ Junk # StayInXip
      BY <1>1, <2>2, ClockIs, JunkIs
    <3>2. spi_action(f, Junk).xip_cmd =
             (IF ModeBy(f, Junk) THEN IF Junk = StayInXip THEN f.spi_cmd ELSE 0
              ELSE IF f.bytecount = 0 /\ Junk = LeaveXip THEN 0 ELSE f.xip_cmd)
      BY <1>1, <3>1, QuietMode
    <3> QED BY <1>1, <3>1, <3>2
  <2>3. CASE f.dummycount = 0 /\ ~(f.bitcount + f.mode >= 8)
    <3>1. PICK n \in Nat : Clock(f) = [f EXCEPT !.bitcount = n]
      BY <1>1, <2>3, ClockIs
    <3> QED BY <1>1, <3>1, BitFields
  <2>4. f.dummycount \in Nat
    BY <1>1 DEF FlashSet
  <2> QED BY <2>1, <2>2, <2>3, <2>4
<1> QED BY <1>2, <1>3 DEF OffSet

LEMMA OffClocks ==
  ASSUME NEW l \in LatencySet, NEW q, Short(l), NEW f \in OffSet(l, q), NEW n \in Nat
  PROVE Clocks(f, n) \in OffSet(l, q)
<1>1. \A g \in OffSet(l, q) : Clock(g) \in OffSet(l, q)
  BY OffClock
<1> QED BY <1>1, ClocksStay

(* Eight clocks lead out of continuous reading, on four lanes as on eight: the *)
(* mode byte they end at asks for no more.                                    *)
InXip(g, k) ==
  /\ g.xip_cmd # 0 /\ g.spi_cmd = g.xip_cmd /\ g.mode = Lanes(g.xip_cmd)
  /\ g.bytecount \in 1..4 /\ g.bitcount \in {0, 4} /\ (g.mode = 8 => g.bitcount = 0)
  /\ 8 * (g.bytecount - 1) + g.bitcount = g.mode * k
XipSet(l, q, k) == {g \in SafeSet(l, q) : g.xip_cmd = 0 \/ InXip(g, k)}

LEMMA XipClock ==
  ASSUME NEW l \in LatencySet, NEW q, Short(l), NEW k \in 0..7, NEW f \in XipSet(l, q, k)
  PROVE Clock(f) \in XipSet(l, q, k + 1)
<1>1. f \in SafeSet(l, q) /\ f \in FlashSet /\ Safe(f) /\ ~f.write_enabled
  BY DEF XipSet, SafeSet, Safe
<1>2. Clock(f) \in SafeSet(l, q)
  BY <1>1, SafeClock
<1>3. CASE f.xip_cmd = 0
  BY <1>1, <1>2, <1>3, OffClock DEF OffSet, XipSet
<1>4. CASE f.xip_cmd # 0
  <2>1. /\ f.spi_cmd = f.xip_cmd /\ f.mode = Lanes(f.xip_cmd)
        /\ f.bytecount \in 1..4 /\ f.bitcount \in {0, 4} /\ (f.mode = 8 => f.bitcount = 0)
        /\ 8 * (f.bytecount - 1) + f.bitcount = f.mode * k
    BY <1>4 DEF XipSet, InXip
  <2>2. f.xip_cmd \in QuadReads /\ f.powered_up /\ f.quad /\ f.dummycount = 0
    BY <1>1, <1>4 DEF Safe
  <2>3. f.mode \in {4, 8} /\ f.spi_cmd \in WideReads /\ Read \notin WideReads
    BY <2>1, <2>2, LanesIs DEF WideReads, Read, DualRead, QuadRead, QuadDdrRead
  <2>4. CASE f.bitcount + f.mode >= 8
    <3>1. Clock(f) = spi_action(f, Junk) /\ Junk \in Int /\ Junk \notin WriteEnables /\ Junk # StayInXip
      BY <1>1, <2>2, <2>4, ClockIs, JunkIs
    <3>2. PICK h \in FlashSet : h = spi_action(f, Junk) /\ h.bitcount = 0
      BY <1>1, <3>1, QuietByte
    <3>3. /\ h.bytecount = (IF ReadsBy(f, Junk) THEN 5 ELSE f.bytecount + 1)
          /\ h.spi_cmd = CmdOf(f, Junk)
          /\ h.mode = (IF f.bytecount = 0 /\ Junk \in WideReads /\ KnowsBy(f, Junk) THEN Lanes(Junk) ELSE f.mode)
          /\ h.xip_cmd = (IF ModeBy(f, Junk) THEN IF Junk = StayInXip THEN f.spi_cmd ELSE 0
                        ELSE IF f.bytecount = 0 /\ Junk = LeaveXip THEN 0 ELSE f.xip_cmd)
      <4>1. f \in FlashSet /\ Junk \in Int /\ ~f.write_enabled /\ (f.bytecount = 0 => Junk \notin WriteEnables)
        BY <1>1, <3>1 DEF Safe
      <4> QED BY ONLY <3>2, <4>1, QuietMode
    <3>4. f.bytecount # 0 /\ f.bytecount \in Nat
      BY <2>1
    <3>5. CASE f.bytecount = 4
      <4>1. ModeBy(f, Junk)
        BY ONLY <2>2, <2>3, <3>5, Zenon DEF ModeBy, KnowsBy, PoweredBy
      <4>2. h.xip_cmd = 0
        BY ONLY <4>1, <3>1, <3>3, Zenon
      <4> QED BY <1>2, <3>1, <3>2, <4>2 DEF XipSet
    <3>6. CASE f.bytecount # 4
      <4>1. ~ModeBy(f, Junk) /\ CmdOf(f, Junk) = f.spi_cmd
        BY ONLY <3>4, <3>6, Zenon DEF ModeBy, CmdOf
      <4>2. ~ReadsBy(f, Junk)
        <5>1. ~(f.bytecount >= 4)
          BY ONLY <2>1, <3>6
        <5>2. f.spi_cmd # Read
          BY ONLY <2>3
        <5> QED BY ONLY <5>1, <5>2, Zenon DEF ReadsBy
      <4>3. h.xip_cmd = f.xip_cmd /\ h.spi_cmd = f.spi_cmd /\ h.mode = f.mode
        BY ONLY <4>1, <3>3, <3>4, Zenon
      <4>4. h.bytecount = f.bytecount + 1
        BY <4>2, <3>3
      <4>5. 8 * (h.bytecount - 1) + h.bitcount = h.mode * (k + 1)
        <5>1. PICK m \in {4, 8}, n \in 1..4, c \in {0, 4} : m = f.mode /\ n = f.bytecount /\ c = f.bitcount
          BY <2>1, <2>3
        <5>2. 8 * (n - 1) + c = m * k /\ (m = 8 => c = 0) /\ c + m >= 8
          BY <2>1, <2>4, <5>1
        <5>3. 8 * ((n + 1) - 1) + 0 = m * (k + 1)
          BY ONLY <5>1, <5>2, k \in 0..7
        <5> QED BY <3>2, <4>3, <4>4, <5>1, <5>3
      <4>6. InXip(h, k + 1)
        <5>1. h.bytecount \in 1..4
          BY ONLY <2>1, <3>6, <4>4
        <5>2. h.bitcount \in {0, 4} /\ (h.mode = 8 => h.bitcount = 0)
          BY <3>2
        <5>3. h.xip_cmd # 0 /\ h.spi_cmd = h.xip_cmd /\ h.mode = Lanes(h.xip_cmd)
          BY <1>4, <2>1, <4>3
        <5> QED BY ONLY <4>5, <5>1, <5>2, <5>3 DEF InXip
      <4> QED BY <1>2, <3>1, <3>2, <4>6 DEF XipSet
    <3> QED BY <3>5, <3>6
  <2>5. CASE ~(f.bitcount + f.mode >= 8)
    <3>1. PICK n \in Nat : n = f.bitcount + f.mode /\ Clock(f) = [f EXCEPT !.bitcount = n]
      BY <1>1, <2>2, <2>5, ClockIs
    <3>2. PICK h \in FlashSet : /\ h = [f EXCEPT !.bitcount = n] /\ h.bitcount = n /\ h.bytecount = f.bytecount
                                /\ h.spi_cmd = f.spi_cmd /\ h.mode = f.mode /\ h.xip_cmd = f.xip_cmd
      BY <1>1, BitFields
    <3>3. h.mode = 4 /\ h.bitcount = 4 /\ f.bitcount = 0
      BY <2>1, <2>3, <2>5, <3>1, <3>2
    <3>4. InXip(h, k + 1)
      <4>1. h.bytecount \in 1..4 /\ 8 * (h.bytecount - 1) + h.bitcount = h.mode * (k + 1)
        BY <2>1, <2>3, <2>5, <3>2, <3>3
      <4>2. h.xip_cmd # 0 /\ h.spi_cmd = h.xip_cmd /\ h.mode = Lanes(h.xip_cmd)
        BY <1>4, <2>1, <3>2
      <4>3. h.bitcount \in {0, 4} /\ (h.mode = 8 => h.bitcount = 0)
        BY <3>3
      <4> QED BY ONLY <4>1, <4>2, <4>3 DEF InXip
    <3> QED BY <1>2, <3>1, <3>2, <3>4 DEF XipSet
  <2> QED BY <2>4, <2>5
<1> QED BY <1>3, <1>4

LEMMA XipLeft ==
  ASSUME NEW l \in LatencySet, NEW q, Short(l), NEW f \in SafeSet(l, q),
         f.xip_cmd # 0, f.bitcount = 0, f.bytecount = 1, f.spi_cmd = f.xip_cmd, f.mode = Lanes(f.xip_cmd)
  PROVE Clocks(f, 8) \in OffSet(l, q)
<1> DEFINE Stage == [k \in 0..8 |-> XipSet(l, q, k)]
<1>0. f.mode \in Nat
  BY DEF SafeSet, FlashSet, ModeSet
<1>1. f \in Stage[0]
  BY <1>0 DEF XipSet, InXip
<1>2. \A k \in 0..(8 - 1) : \A g \in Stage[k] : Clock(g) \in Stage[k + 1]
  <2> SUFFICES ASSUME NEW k \in 0..7, NEW g \in Stage[k] PROVE Clock(g) \in Stage[k + 1]
    OBVIOUS
  <2>1. g \in XipSet(l, q, k) /\ k + 1 \in 0..8
    OBVIOUS
  <2>2. Stage[k + 1] = XipSet(l, q, k + 1)
    BY <2>1
  <2> QED BY <2>1, <2>2, XipClock
<1>3. Stage[8] = XipSet(l, q, 8)
  OBVIOUS
<1> HIDE DEF Stage
<1>4. Clocks(f, 8) \in XipSet(l, q, 8)
  BY <1>1, <1>2, <1>3, ClocksInduct
<1>5. PICK h : h = Clocks(f, 8)
  OBVIOUS
<1>6. h.xip_cmd = 0
  <2> SUFFICES ASSUME h.xip_cmd # 0 PROVE FALSE
    OBVIOUS
  <2>1. h \in SafeSet(l, q) /\ InXip(h, 8) /\ Safe(h)
    BY <1>4, <1>5 DEF XipSet, SafeSet
  <2>2. h.mode \in {4, 8}
    BY <2>1, LanesIs DEF Safe, InXip
  <2>3. h.bytecount \in 1..4 /\ h.bitcount \in {0, 4} /\ 8 * (h.bytecount - 1) + h.bitcount = h.mode * 8
    BY <2>1 DEF InXip
  <2> QED BY <2>2, <2>3
<1> QED BY <1>4, <1>5, <1>6 DEF XipSet, OffSet

(* The byte FF leaves continuous reading, whether the flash is in it or not.  *)
LEMMA LeaveByte ==
  ASSUME NEW l \in LatencySet, NEW q, Short(l), NEW f \in SafeSet(l, q), f.bitcount = 0,
         IF f.xip_cmd = 0 THEN Idle(f)
         ELSE f.bytecount = 1 /\ f.spi_cmd = f.xip_cmd /\ f.mode = Lanes(f.xip_cmd)
  PROVE Transferred(f, 1, 0, LeaveXip) \in OffSet(l, q)
<1>0. f \in FlashSet /\ Safe(f) /\ ~f.write_enabled /\ f.latency = l
  BY DEF SafeSet, Safe
<1>1. 0 + 8 \div 1 = 8
  OBVIOUS
<1>2. CASE f.xip_cmd # 0
  <2>1. f.mode # 1
    BY <1>0, <1>2, LanesIs DEF Safe
  <2>2. Transferred(f, 1, 0, LeaveXip) = Clocks(f, 8)
    BY <1>1, <2>1 DEF Transferred, InStep
  <2> QED BY <1>2, <2>2, XipLeft
<1>3. CASE f.xip_cmd = 0 /\ f.dummycount # 0
  <2>1. f \in OffSet(l, q)
    BY <1>3 DEF OffSet
  <2>2. Transferred(f, 1, 0, LeaveXip) = Clocks(f, 8)
    BY <1>1, <1>3 DEF Transferred, InStep
  <2> QED BY <2>1, <2>2, OffClocks
<1>4. CASE f.xip_cmd = 0 /\ f.dummycount = 0
  <2>1. PICK zero \in Nat, b \in Int : zero = 0 /\ b = LeaveXip
    BY DEF LeaveXip
  <2>2. PICK g \in FlashSet : /\ g = [f EXCEPT !.dummycount = zero] /\ g.dummycount = zero /\ g.latency = f.latency /\ g.quad = f.quad
                              /\ g.powered_up = f.powered_up /\ g.xip_cmd = f.xip_cmd /\ g.write_enabled = f.write_enabled
                              /\ g.bytecount = f.bytecount
    BY <1>0, DummyFields
  <2>3. Transferred(f, 1, 0, LeaveXip) = spi_action(g, b)
    BY <1>4, <2>1, <2>2 DEF Transferred, InStep, Idle
  <2>4. Safe(f) /\ Harmless(f, b) /\ b \notin WriteEnables
    BY <1>0, <1>4, <2>1 DEF Harmless, Idle, WriteEnables, LeaveXip
  <2>5. Transferred(f, 1, 0, LeaveXip) \in SafeSet(l, q)
    <3>1. 1 \in ModeSet /\ LeaveXip \in Int
      BY DEF ModeSet, LeaveXip
    <3> QED BY <2>1, <2>4, <3>1, SafeTransferred
  <2>6. ~ModeBy(g, b) /\ g.bytecount = 0 /\ g.xip_cmd = 0 /\ ~g.write_enabled
    BY <1>0, <1>4, <2>1, <2>2 DEF ModeBy, Idle
  <2>7. spi_action(g, b).xip_cmd = (IF ModeBy(g, b) THEN IF b = StayInXip THEN g.spi_cmd ELSE 0
                        ELSE IF g.bytecount = 0 /\ b = LeaveXip THEN 0 ELSE g.xip_cmd)
    BY ONLY <2>1, <2>2, <2>4, <2>6, QuietMode, Zenon
  <2>8. spi_action(g, b).xip_cmd = 0
    BY <2>6, <2>7
  <2> QED BY <2>3, <2>5, <2>8 DEF OffSet
<1> QED BY <1>2, <1>3, <1>4

(* The byte AB wakes the flash up and, if it does not get through, uses up    *)
(* the dummy clocks that were left.                                           *)
WakeSet(l, q, d, k) ==
  {g \in OffSet(l, q) : /\ g.powered_up /\ g.mode = 1 /\ g.bytecount = 0
                        /\ IF k < d THEN g.dummycount = d - k /\ g.bitcount = 0
                                    ELSE g.dummycount = 0 /\ g.bitcount = k - d}

LEMMA WakeClock ==
  ASSUME NEW l \in LatencySet, NEW q, Short(l), NEW d \in 1..8, NEW k \in 0..7, NEW f \in WakeSet(l, q, d, k)
  PROVE Clock(f) \in WakeSet(l, q, d, k + 1)
<1>1. /\ f \in OffSet(l, q) /\ f \in FlashSet /\ f.powered_up /\ f.mode = 1 /\ f.bytecount = 0
      /\ IF k < d THEN f.dummycount = d - k /\ f.bitcount = 0 ELSE f.dummycount = 0 /\ f.bitcount = k - d
  BY DEF WakeSet, OffSet, SafeSet
<1>2. Clock(f) \in OffSet(l, q)
  BY <1>1, OffClock
<1>3. CASE k < d
  <2>1. PICK n \in Nat : n = d - (k + 1) /\ Clock(f) = [f EXCEPT !.dummycount = n]
    BY <1>1, <1>3, ClockIs
  <2>2. PICK h \in FlashSet : /\ h = [f EXCEPT !.dummycount = n] /\ h.dummycount = n /\ h.powered_up = f.powered_up
                              /\ h.mode = f.mode /\ h.bytecount = f.bytecount /\ h.bitcount = f.bitcount
    BY <1>1, DummyFields
  <2>3. h.powered_up /\ h.mode = 1 /\ h.bytecount = 0
    BY ONLY <1>1, <2>2, Zenon
  <2>4. IF k + 1 < d THEN h.dummycount = d - (k + 1) /\ h.bitcount = 0
                     ELSE h.dummycount = 0 /\ h.bitcount = (k + 1) - d
    BY <1>1, <1>3, <2>1, <2>2
  <2>5. Clock(f) = h
    BY <2>1, <2>2
  <2> QED BY <1>2, <2>3, <2>4, <2>5 DEF WakeSet
<1>4. CASE ~(k < d)
  <2>1. PICK n \in Nat : n = (k + 1) - d /\ Clock(f) = [f EXCEPT !.bitcount = n]
    BY <1>1, <1>4, ClockIs
  <2>2. PICK h \in FlashSet : /\ h = [f EXCEPT !.bitcount = n] /\ h.dummycount = f.dummycount /\ h.powered_up = f.powered_up
                              /\ h.mode = f.mode /\ h.bytecount = f.bytecount /\ h.bitcount = n
    BY <1>1, BitFields
  <2>3. h.powered_up /\ h.mode = 1 /\ h.bytecount = 0
    BY ONLY <1>1, <2>2, Zenon
  <2>4. ~(k + 1 < d) /\ h.dummycount = 0 /\ h.bitcount = (k + 1) - d
    BY <1>1, <1>4, <2>1, <2>2
  <2>5. Clock(f) = h
    BY <2>1, <2>2
  <2> QED BY <1>2, <2>3, <2>4, <2>5 DEF WakeSet
<1> QED BY <1>3, <1>4

LEMMA WakeByte ==
  ASSUME NEW l \in LatencySet, NEW q, Short(l), NEW f \in OffSet(l, q), Idle(f)
  PROVE LET g == Transferred(f, 1, 0, PowerUp)
        IN g \in OffSet(l, q) /\ g.powered_up /\ g.dummycount = 0
<1>0. f \in FlashSet /\ Safe(f) /\ ~f.write_enabled /\ f.latency = l /\ f.xip_cmd = 0 /\ f \in SafeSet(l, q) /\ f.quad = q
  BY DEF OffSet, SafeSet, Safe
<1>1. 0 + 8 \div 1 = 8
  OBVIOUS
<1>2. CASE f.dummycount # 0
  <2>1. PICK d \in 1..8 : d = f.dummycount
    BY <1>0, <1>2 DEF Safe, FlashSet
  <2>2. f.powered_up
    BY <1>0, <2>1 DEF Safe
  <2>3. Transferred(f, 1, 0, PowerUp) = Clocks(f, 8)
    BY <1>1, <1>2 DEF Transferred, InStep
  <2> DEFINE Stage == [k \in 0..8 |-> WakeSet(l, q, d, k)]
  <2>4. f \in Stage[0]
    BY <2>1, <2>2 DEF WakeSet, Idle
  <2>5. \A k \in 0..(8 - 1) : \A g \in Stage[k] : Clock(g) \in Stage[k + 1]
    <3> SUFFICES ASSUME NEW k \in 0..7, NEW g \in Stage[k] PROVE Clock(g) \in Stage[k + 1]
      OBVIOUS
    <3>1. g \in WakeSet(l, q, d, k) /\ k + 1 \in 0..8
      OBVIOUS
    <3>2. Stage[k + 1] = WakeSet(l, q, d, k + 1)
      BY <3>1
    <3> QED BY <3>1, <3>2, WakeClock
  <2>6. Stage[8] = WakeSet(l, q, d, 8)
    OBVIOUS
  <2> HIDE DEF Stage
  <2>7. Clocks(f, 8) \in WakeSet(l, q, d, 8)
    BY <2>4, <2>5, <2>6, ClocksInduct
  <2> QED BY <2>3, <2>7 DEF WakeSet
<1>3. CASE f.dummycount = 0
  <2>1. PICK zero \in Nat, b \in Int : zero = 0 /\ b = PowerUp
    BY DEF PowerUp
  <2>2. PICK g \in FlashSet : /\ g = [f EXCEPT !.dummycount = zero] /\ g.dummycount = zero /\ g.latency = f.latency /\ g.quad = f.quad
                              /\ g.powered_up = f.powered_up /\ g.xip_cmd = f.xip_cmd /\ g.write_enabled = f.write_enabled
                              /\ g.bytecount = f.bytecount
    BY <1>0, DummyFields
  <2>3. Transferred(f, 1, 0, PowerUp) = spi_action(g, b)
    BY <1>3, <2>1, <2>2 DEF Transferred, InStep, Idle
  <2>4. Harmless(f, b) /\ b \notin WriteEnables /\ b # LeaveXip
    BY <1>0, <1>3, <2>1 DEF Harmless, Idle, WriteEnables, PowerUp, LeaveXip
  <2>5. Transferred(f, 1, 0, PowerUp) \in SafeSet(l, q)
    <3>1. 1 \in ModeSet /\ PowerUp \in Int
      BY DEF ModeSet, PowerUp
    <3> QED BY <1>0, <2>1, <2>4, <3>1, SafeTransferred
  <2>6. ~ModeBy(g, b) /\ g.bytecount = 0 /\ g.xip_cmd = 0 /\ ~g.write_enabled /\ g.dummycount = 0
    BY <1>0, <1>3, <2>1, <2>2 DEF ModeBy, Idle
  <2>7. PoweredBy(g, b)
    BY <2>1, <2>6 DEF PoweredBy
  <2>8. /\ spi_action(g, b).xip_cmd = (IF ModeBy(g, b) THEN IF b = StayInXip THEN g.spi_cmd ELSE 0
                        ELSE IF g.bytecount = 0 /\ b = LeaveXip THEN 0 ELSE g.xip_cmd)
        /\ spi_action(g, b).dummycount = (IF ModeBy(g, b) THEN g.latency[g.spi_cmd] ELSE g.dummycount)
        /\ spi_action(g, b).powered_up = PoweredBy(g, b)
    BY ONLY <2>1, <2>2, <2>4, <2>6, QuietMode, Zenon
  <2>9. spi_action(g, b).xip_cmd = 0 /\ spi_action(g, b).dummycount = 0 /\ spi_action(g, b).powered_up
    BY ONLY <2>6, <2>7, <2>8, Zenon
  <2> QED BY <2>3, <2>5, <2>9 DEF OffSet
<1> QED BY <1>2, <1>3


-----------------------------------------------------------------------------
(* The calls of a command, and what may follow what.                          *)
CallSet ==
  [act : {"set"}, bits : SUBSET {"ddr", "qspi", "cont"}, dummy : Int]
    \cup [act : {"crm", "toggle"}]
    \cup [act : {"flashio"}, data : Seq(Nat), wrencmd : Nat]
SetOk(b, c) ==
  IF b = Hx8k THEN c.dummy = Keep \/ (c.bits = {} /\ c.dummy \in 1..8)
  ELSE "cont" \notin c.bits /\ c.dummy = (IF "qspi" \in c.bits THEN IF "ddr" \in c.bits THEN 7 ELSE 4 ELSE 0)
Plain(c) ==
  /\ c.act = "flashio" /\ c.wrencmd = 0 /\ Len(c.data) >= 1 /\ c.data[1] \notin WideReads \cup {Read}
  /\ \A k \in 1..Len(c.data) : c.data[k] \notin WriteEnables \cup {StayInXip}
LatencyCall(c) ==
  /\ c.act = "flashio" /\ c.wrencmd = 6 /\ Len(c.data) = 5
  /\ c.data[1] = WriteAnyRegister /\ c.data[4] = LatencyRegister /\ c.data[5] \in 1..8
QuadCall(b, c) ==
  /\ c.act = "flashio"
  /\ IF b = Hx8k THEN c.wrencmd = 6 /\ Len(c.data) = 5 /\ c.data[1] = WriteAnyRegister /\ c.data[4] = QuadRegister
                 ELSE c.wrencmd = 80 /\ Len(c.data) = 2 /\ c.data[1] = WriteStatus2
CallOk(b, c) ==
  \/ c.act = "set" /\ SetOk(b, c)
  \/ c.act = "crm" /\ b = Icebreaker
  \/ c.act = "toggle"
  \/ Plain(c)
  \/ b = Hx8k /\ LatencyCall(c)
NewLatency(b, c) == b = Hx8k /\ c.act = "set" /\ c.dummy # Keep
Follows(b, p, c) ==
  /\ NewLatency(b, p) <=> LatencyCall(c)
  /\ NewLatency(b, p) => p.bits = {} /\ p.dummy = c.data[5]
  /\ c.act # "toggle"
  /\ QuadCall(b, c) => Plain(p)
WellFormed(b, s) ==
  /\ s \in Seq(CallSet)
  /\ \A k \in 1..Len(s) : CallOk(b, s[k]) \/ (k = Len(s) /\ k <= 2 /\ QuadCall(b, s[k]))
  /\ \A k \in 1..(Len(s) - 1) : Follows(b, s[k], s[k + 1])
  /\ s # <<>> => ~NewLatency(b, s[Len(s)])

Working == calls # <<>> /\ Head(calls).act = "flashio" /\ step >= 2
Booting == calls # <<>> /\ QuadCall(board, calls[Len(calls)])
ModeOff == ~config.qspi /\ ~config.ddr /\ ~config.cont
ConfigSet == [en : BOOLEAN, ddr : BOOLEAN, qspi : BOOLEAN, cont : BOOLEAN, dummy : 0..8, csb : BOOLEAN]
ReqSet == [kind : {"none", "flash", "ram", "config"}, addr : 0..(Space - 1)]

(* What is left of a command is well formed, and the modes are off while      *)
(* the latency of the flash is changed and while the board boots.             *)
ProgramOk ==
  /\ board \in Boards
  /\ WellFormed(board, calls)
  /\ IF calls = <<>> THEN step = 1 ELSE step \in 1..Len(Writes(Head(calls)))
  /\ calls # <<>> /\ LatencyCall(Head(calls)) => ModeOff /\ config.dummy = Head(calls).data[5]
  /\ Booting => ModeOff

(* The core makes no request of the flash while the worker has the pins.      *)
BusOk ==
  /\ req \in ReqSet /\ ram_ready \in BOOLEAN /\ fetched \in BOOLEAN
  /\ ram_ready => req.kind = "ram"
  /\ req.kind = "config" => calls # <<>> /\ (Working \/ fetched)
  /\ Working => req.kind # "flash"

(* The register the controller is driven by follows the writes of the         *)
(* worker.  The worker does not begin in continuous reading on two lanes:     *)
(* that loses the flash.                                                      *)
RegisterOk ==
  /\ config \in ConfigSet /\ softreset \in BOOLEAN
  /\ config.en <=> ~(Working /\ step >= 3)
  /\ Working /\ step = 2 => config.csb
  /\ ~config.en => (config.csb <=> step = 3 \/ (step = 5 /\ Head(calls).wrencmd # 0))
  /\ ~config.en => softreset
  /\ config.cont => config.qspi \/ config.ddr
  /\ Working /\ config.cont => config.qspi
ProgramInv == ProgramOk /\ BusOk /\ RegisterOk

-----------------------------------------------------------------------------
(* The controller, whatever the flash does.                                   *)
DinSet == [valid : BOOLEAN, data : Nat, tag : 0..4, lanes : ModeSet, rd : BOOLEAN]
XferSet == [csb : BOOLEAN, busy : BOOLEAN, fetch : BOOLEAN, last_fetch : BOOLEAN, tag : 0..4, tag_q : 0..4,
            lanes : ModeSet, ddr_q : BOOLEAN, data : Nat, dummy : Nat, ibuffer : Int]
Pending == req.kind = "flash"
wide == ConfiguredLanes # 1
Late == xfer.ddr_q /\ xfer.fetch /\ ~xfer.last_fetch
Late4 == Late /\ xfer.tag_q = 4
first == ~rd_inc /\ ~Late4

TypesOk ==
  /\ state \in 0..12 /\ xfer_resetn \in BOOLEAN /\ din \in DinSet /\ xfer \in XferSet
  /\ rd_valid \in BOOLEAN /\ rd_wait \in BOOLEAN /\ rd_inc \in BOOLEAN /\ rd_addr \in 0..(Space - 1)

(* A write to the register leaves nothing on the wires that the core could    *)
(* be given.                                                                  *)
ResetOk ==
  /\ xfer.busy => ~xfer.csb
  /\ softreset /\ req.kind # "none" => ~xfer_resetn /\ ~rd_valid
  /\ fetched => ~softreset /\ state >= 4 /\ (rd_valid \/ Pending)
  /\ Working /\ ~softreset => state <= 4 \/ (state = 5 /\ ~din.valid)
Quiet == xfer.csb /\ ~xfer.busy /\ xfer.fetch
FreshXfer == xfer.lanes = 1 /\ xfer.tag = 0 /\ xfer.dummy = 0 /\ xfer.last_fetch
(* The restart: the two bytes it sends, each on a chip select of its own.     *)
RestartOk ==
  ~softreset /\ state <= 3 =>
    /\ ~rd_valid /\ din.lanes = 1 /\ ~din.rd /\ din.tag = 0
    /\ ~xfer_resetn => ~din.valid /\ state \in {0, 2} /\ (state = 2 => ~xfer.busy)
    /\ xfer_resetn => FreshXfer
    /\ state \in {0, 2} /\ xfer_resetn => Quiet
    /\ state = 0 /\ din.valid => din.data = LeaveXip
    /\ state = 2 /\ din.valid => din.data = PowerUp
    /\ state \in {1, 3} =>
         /\ xfer_resetn /\ xfer.busy /\ ~xfer.ddr_q /\ ~din.valid /\ xfer.tag_q = 0
         /\ xfer.data = (IF state = 1 THEN LeaveXip ELSE PowerUp)
addr1 == req.addr \div (Base * Base)
addr2 == (req.addr \div Base) % Base
addr3 == req.addr % Base
(* The command byte is offered, taken and sent, or left out in continuous     *)
(* reading.                                                                   *)
CommandOk ==
  ~softreset /\ state \in {4, 5} =>
    /\ ~rd_valid /\ ~din.rd /\ (state = 5 => ~rd_inc) /\ (state = 4 => din.lanes = 1)
    /\ state = 5 => wide \/ ~config.cont
    /\ state = 5 /\ (~xfer_resetn \/ xfer.csb) => Pending /\ config.cont
    /\ xfer_resetn => FreshXfer
    /\ xfer_resetn /\ xfer.csb => Quiet
    /\ state = 4 /\ xfer_resetn => xfer.csb
    /\ state = 4 /\ xfer_resetn /\ din.valid => din.data = ReadCommand /\ din.tag = 0
    /\ state = 5 /\ xfer_resetn /\ din.valid => Pending /\ din.data = addr1 /\ din.lanes = ConfiguredLanes /\ din.tag = 0
    /\ state = 5 /\ xfer_resetn /\ ~xfer.csb =>
         /\ xfer.data = ReadCommand /\ ~xfer.ddr_q /\ xfer.tag_q = 0
         /\ ~xfer.busy => xfer.fetch
Leading == state \in 6..8 \/ (state = 9 /\ xfer.tag = 0)
(* The tag of the byte on the wires follows the state.                        *)
TagOk ==
  /\ state \in 6..8 => xfer.tag = 0
  /\ state = 9 => xfer.tag \in {0, 4}
  /\ state \in 10..12 => xfer.tag = state - 9

(* A read: the byte that is offered, the one on the wires, the dummy clocks   *)
(* and the tags, for each state.                                              *)
RunningOk ==
  ~softreset /\ state >= 6 =>
    /\ xfer_resetn /\ ~xfer.csb /\ config.en
    /\ state # 12 => xfer.busy /\ (din.valid <=> ~xfer.fetch)
    /\ state = 12 => /\ din.valid => ~rd_wait
                     /\ xfer.busy /\ xfer.fetch => ~din.valid
                     /\ ~xfer.busy => xfer.fetch
    /\ xfer.lanes = ConfiguredLanes /\ din.lanes = ConfiguredLanes
    /\ xfer.ddr_q => ConfiguredLanes = 8
    /\ ConfiguredLanes = 8 => xfer.ddr_q \/ (state = 6 /\ xfer.fetch)
    /\ TagOk
    /\ ~(xfer.busy /\ xfer.fetch) => xfer.tag_q = xfer.tag
    /\ xfer.busy /\ xfer.fetch =>
         /\ Leading => xfer.tag_q = 0
         /\ ~Leading /\ xfer.tag # 1 => xfer.tag_q = xfer.tag - 1
         /\ xfer.tag = 1 => xfer.tag_q = (IF first THEN 0 ELSE 4)
    /\ din.valid => din.tag = (IF state <= 8 THEN 0 ELSE state - 8)
    /\ din.rd <=> state >= 9 /\ wide
    /\ din.valid => /\ state = 6 => din.data = addr2
                    /\ state = 7 => din.data = addr3
                    /\ state = 8 => din.data = (IF config.cont THEN StayInXip ELSE LeaveXip)
    /\ state = 9 => din.data = (IF xfer.tag = 0 /\ wide THEN config.dummy ELSE 0)
    /\ state = 10 /\ din.valid => din.data = 0
    /\ state \in {11, 12} => din.data = 0
    /\ xfer.dummy = (IF state = 10 /\ first /\ wide THEN config.dummy ELSE 0)
    /\ rd_valid <=> rd_inc
    /\ Leading => first
    /\ state = 8 => wide
    /\ ~rd_inc => Pending
    /\ state = 6 => xfer.data = addr1
    /\ state = 7 => xfer.data = addr2
    /\ state = 8 \/ (state = 9 /\ xfer.tag = 0 /\ ~wide) => xfer.data = addr3
    /\ state = 9 /\ xfer.tag = 0 /\ wide => xfer.data = (IF config.cont THEN StayInXip ELSE LeaveXip)
ControlInv == TypesOk /\ ResetOk /\ RestartOk /\ CommandOk /\ RunningOk

-----------------------------------------------------------------------------
(* The registers of the flash, against those of the controller.               *)
Restarting == softreset \/ state <= 3
Wren == Head(calls).wrencmd
Data == Head(calls).data
Sent == IF Wren = 0 THEN step - 3 ELSE step - 5      \* the bytes of data that were sent
(* A flash that is not selected is idle.                                      *)
FlashOk ==
  /\ flash \in FlashSet /\ Short(flash.latency)
  /\ PinCsb => Idle(flash)

(* The latency the flash uses is the one the controller counts, but between   *)
(* the two writes that change it.                                             *)
AgreeOk ==
  /\ ~flash.quad => Booting /\ (Len(calls) = 1 => step <= 4 + Len(Data))
  /\ board = Icebreaker => flash.latency = latency(Icebreaker)
  /\ board = Icebreaker /\ wide => config.dummy = latency(Icebreaker)[ReadCommand]
  /\ board = Hx8k => \A c, e \in WideReads : flash.latency[c] = flash.latency[e]
  /\ board = Hx8k /\ ~(calls # <<>> /\ LatencyCall(Head(calls)) /\ step <= 9) =>
        \A c \in WideReads : flash.latency[c] = config.dummy

(* While the controller restarts or waits to, the flash writes nothing and    *)
(* at most dummy clocks or continuous reading are left of what it did.        *)
SafeOk ==
  Restarting /\ config.en =>
    /\ Safe(flash)
    /\ Working /\ ~config.cont => flash.xip_cmd = 0 /\ flash.dummycount = 0
    /\ softreset /\ xfer_resetn => ~xfer.csb
    /\ softreset /\ ~xfer.csb => flash.bytecount >= 5 /\ flash.dummycount = 0
    /\ xfer.busy /\ ~xfer_resetn => flash.bytecount >= 5 /\ flash.dummycount = 0

(* The restart brings the flash out of continuous reading and wakes it up.    *)
StartOk ==
  ~softreset /\ state <= 3 =>
    /\ state \in {1, 3} => flash.bitcount = 0
    /\ state = 1 => IF flash.xip_cmd = 0 THEN Idle(flash)
                    ELSE flash.bytecount = 1 /\ flash.spi_cmd = flash.xip_cmd /\ flash.mode = Lanes(flash.xip_cmd)
    /\ state \in {2, 3} => flash.xip_cmd = 0
    /\ state = 3 => Idle(flash)

(* While the worker has the pins: the bytes it sent are the bytes the flash   *)
(* has.                                                                       *)
ManualOk ==
  ~config.en =>
    IF config.cont THEN Safe(flash) /\ Wren = 0
    ELSE /\ flash.xip_cmd = 0 /\ flash.dummycount = 0 /\ flash.bitcount = 0 /\ flash.mode = 1
         /\ flash.write_enabled <=> (Wren # 0 /\ step \in 4..(4 + Len(Data)))
         /\ Sent >= 0 => flash.bytecount = Sent
         /\ Sent >= 1 => flash.spi_cmd = Data[1]
         /\ Wren # 0 => \A j \in 1..3 : Sent > j => flash.spi_addr[j] = Data[j + 1]
         /\ Sent = -1 => flash.bytecount = 1 /\ flash.spi_cmd = Wren

(* After the restart the flash is where the controller takes it to be.        *)
ReadyOk ==
  ~softreset /\ state >= 4 =>
    /\ flash.powered_up /\ ~flash.write_enabled /\ config.en
    /\ state \in {4, 5} =>
         /\ ~xfer_resetn \/ xfer.csb => flash.dummycount = 0 /\ flash.xip_cmd = (IF state = 5 THEN ReadCommand ELSE 0)
         /\ ~xfer_resetn /\ xfer.busy => flash.bytecount >= 5
         /\ state = 5 /\ xfer_resetn /\ ~xfer.csb =>
              /\ flash.dummycount = 0 /\ flash.xip_cmd = 0 /\ flash.bitcount = 0
              /\ IF xfer.busy THEN Idle(flash)
                 ELSE flash.bytecount = 1 /\ flash.spi_cmd = ReadCommand /\ flash.mode = ConfiguredLanes
    /\ state >= 6 =>
         /\ flash.spi_cmd = ReadCommand /\ flash.mode = ConfiguredLanes /\ flash.bitcount = 0
         /\ flash.dummycount = xfer.dummy
         /\ Leading => flash.xip_cmd = 0 \/ (config.cont /\ flash.xip_cmd = ReadCommand)
         /\ Leading => flash.bytecount = (IF state = 9 THEN IF wide THEN 4 ELSE 3 ELSE state - 5)
         /\ ~Leading => flash.bytecount = 5 /\ flash.xip_cmd = (IF config.cont THEN ReadCommand ELSE 0)
FlashInv == FlashOk /\ AgreeOk /\ SafeOk /\ StartOk /\ ManualOk /\ ReadyOk

-----------------------------------------------------------------------------
(* The words.                                                                 *)
Word(a) == [k \in 1..4 |-> Wrap(a + k - 1)]
started == IF rd_inc THEN Wrap(rd_addr + 4) ELSE req.addr     \* the word that comes next
current == IF Late4 THEN Wrap(started + 4) ELSE started       \* the word on the wires
Turn == IF xfer.busy THEN xfer.tag ELSE xfer.tag + 1          \* the byte the flash holds, from 1
Come(k) == IF Late /\ xfer.tag_q = k THEN xfer.ibuffer ELSE buffer[k]
WordTypesOk == buffer \in [1..3 -> Int] /\ rdata \in [1..4 -> Int]
(* A valid word is the word of its address.                                   *)
HeldWord == rd_valid => rdata = Word(rd_addr)
(* The address bytes that were sent are those of the request.                 *)
AddressComes ==
  /\ state = 7 => flash.spi_addr[1] = addr1
  /\ state = 8 \/ (state = 9 /\ xfer.tag = 0) => flash.spi_addr[1] = addr1 /\ flash.spi_addr[2] = addr2
  /\ state = 9 /\ xfer.tag = 0 /\ wide => flash.spi_addr[3] = addr3

(* The byte that is driven, the address behind it, and the bytes that have    *)
(* come.                                                                      *)
BytesCome ==
  ~Leading =>
    /\ flash.out = Wrap(current + Turn - 1)
    /\ flash.spi_addr = NextAddress(Wrap(current + Turn))
    /\ \A k \in 1..3 : k < Turn => Come(k) = Wrap(current + k - 1)

(* In DDR mode the last byte of a word arrives while the next word is         *)
(* begun.                                                                     *)
LateComes ==
  Late4 => /\ \A k \in 1..3 : buffer[k] = Wrap(started + k - 1)
           /\ xfer.ibuffer = Wrap(started + 3)
DataOk == HeldWord /\ AddressComes /\ BytesCome /\ LateComes
DataInv == WordTypesOk /\ (~softreset /\ state >= 6 => DataOk)
Inv == ProgramInv /\ ControlInv /\ FlashInv /\ DataInv

-----------------------------------------------------------------------------
(* The program: the calls of a command, and the writes of a call.          *)

Modes == {"spi", "dual", "quad", "qddr"}
(* Calls that may follow one another.                                         *)
Linked(b, s) ==
  /\ s \in Seq(CallSet) /\ s # <<>>
  /\ \A k \in 1..Len(s) : CallOk(b, s[k])
  /\ \A k \in 1..(Len(s) - 1) : Follows(b, s[k], s[k + 1])
  /\ ~NewLatency(b, s[Len(s)])

LEMMA Join ==
  ASSUME NEW b, NEW s, NEW t, Linked(b, s), Linked(b, t), Follows(b, s[Len(s)], t[1])
  PROVE \E r : r = s \o t /\ Linked(b, r) /\ r[1] = s[1] /\ r[Len(r)] = t[Len(t)]
<1>1. /\ s \in Seq(CallSet) /\ t \in Seq(CallSet) /\ Len(s) \in Nat \ {0} /\ Len(t) \in Nat \ {0}
  BY DEF Linked
<1>2. PICK m \in Nat \ {0}, n \in Nat \ {0} : m = Len(s) /\ n = Len(t)
  BY <1>1
<1>3. PICK r : r = s \o t
  OBVIOUS
<1>4. r \in Seq(CallSet) /\ Len(r) = m + n
  BY <1>1, <1>2, <1>3
<1>5. \A k \in 1..m : r[k] = s[k]
  BY <1>1, <1>2, <1>3
<1>6. \A k \in 1..n : r[m + k] = t[k]
  BY <1>1, <1>2, <1>3
<1>7. ASSUME NEW k \in 1..(m + n) PROVE CallOk(b, r[k])
  <2>1. CASE k \in 1..m
    BY <1>2, <1>5, <2>1 DEF Linked
  <2>2. CASE k \notin 1..m
    <3>1. PICK j \in 1..n : k = m + j
      <4>1. k - m \in 1..n /\ k = m + (k - m)
        BY <1>7, <2>2
      <4> QED BY <4>1
    <3> QED BY <1>2, <1>6, <3>1 DEF Linked
  <2> QED BY <2>1, <2>2
<1>8. ASSUME NEW k \in 1..(m + n - 1) PROVE Follows(b, r[k], r[k + 1])
  <2>1. CASE k \in 1..(m - 1)
    <3>1. k \in 1..m /\ k + 1 \in 1..m
      BY <2>1
    <3>2. r[k] = s[k] /\ r[k + 1] = s[k + 1]
      BY <1>5, <3>1
    <3> QED BY <1>2, <2>1, <3>2 DEF Linked
  <2>2. CASE k = m
    <3>1. r[k] = s[m] /\ r[k + 1] = t[1]
      BY <1>5, <1>6, <2>2
    <3> QED BY <1>2, <3>1
  <2>3. CASE k \notin 1..m
    <3>1. PICK j \in 1..(n - 1) : k = m + j
      <4>1. k - m \in 1..(n - 1) /\ k = m + (k - m)
        BY <1>8, <2>3
      <4> QED BY <4>1
    <3>2. k + 1 = m + (j + 1) /\ j \in 1..n /\ j + 1 \in 1..n
      BY <3>1
    <3>3. r[k] = t[j] /\ r[k + 1] = t[j + 1]
      BY <1>6, <3>1, <3>2
    <3> QED BY <1>2, <3>1, <3>3 DEF Linked
  <2> QED BY <2>1, <2>2, <2>3
<1>9. r[1] = s[1] /\ r[m + n] = t[n]
  BY <1>5, <1>6
<1>10. ~NewLatency(b, t[n]) /\ r # <<>>
  BY <1>2, <1>4 DEF Linked
<1>11. Linked(b, r)
  BY <1>4, <1>7, <1>8, <1>9, <1>10 DEF Linked
<1>12. r[1] = s[1] /\ r[Len(r)] = t[Len(t)]
  BY <1>2, <1>4, <1>9
<1> QED BY <1>3, <1>11, <1>12, Zenon

LEMMA LinkedOne ==
  ASSUME NEW b, NEW c \in CallSet, CallOk(b, c), ~NewLatency(b, c)
  PROVE Linked(b, <<c>>) /\ <<c>>[1] = c /\ <<c>>[Len(<<c>>)] = c
<1>1. <<c>> \in Seq(CallSet) /\ Len(<<c>>) = 1 /\ <<c>>[1] = c /\ <<c>> # <<>>
  OBVIOUS
<1>2. PICK s : s = <<c>>
  OBVIOUS
<1>3. s \in Seq(CallSet) /\ Len(s) = 1 /\ s[1] = c /\ s # <<>>
  BY <1>1, <1>2
<1>4. Linked(b, s)
  BY <1>3 DEF Linked
<1> QED BY <1>1, <1>2, <1>4

LEMMA LinkedWell == ASSUME NEW b, NEW s, Linked(b, s) PROVE WellFormed(b, s)
BY DEF Linked, WellFormed

LEMMA CodesDiffer ==
  /\ WriteAnyRegister = 113 /\ WriteStatus2 = 49 /\ LatencyRegister = 4 /\ QuadRegister = 2 /\ StayInXip = 165
BY DEF WriteAnyRegister, WriteStatus2, LatencyRegister, QuadRegister, StayInXip

(* The calls of the firmware.                                                 *)
LEMMA SetCall ==
  ASSUME NEW bits \in SUBSET {"ddr", "qspi", "cont"}, NEW dummy \in Int
  PROVE LET c == Set(bits, dummy) IN
        /\ c \in CallSet /\ c.act = "set" /\ c.bits = bits /\ c.dummy = dummy
        /\ ~LatencyCall(c)
BY DEF Set, CallSet, LatencyCall

LEMMA OtherCalls ==
  /\ Crm \in CallSet /\ Crm.act = "crm" /\ ~LatencyCall(Crm)
  /\ Toggle \in CallSet /\ Toggle.act = "toggle" /\ ~LatencyCall(Toggle)
BY DEF Crm, Toggle, CallSet, LatencyCall

LEMMA SendCall ==
  ASSUME NEW data \in Seq(Nat), NEW w \in Nat
  PROVE LET c == Send(data, w) IN c \in CallSet /\ c.act = "flashio" /\ c.data = data /\ c.wrencmd = w
BY DEF Send, CallSet

(* Bytes that do nothing to a flash that is in continuous reading.            *)
Tame == {x \in Nat : x \notin WriteEnables \cup {StayInXip}}
LEMMA TameBytes == Tame \subseteq Nat /\ 0..5 \subseteq Tame /\ {21, 53, 101, 128, 159} \subseteq Tame
BY DEF Tame, WriteEnables, StayInXip

LEMMA FirstBytes == \A x \in {5, 21, 53, 101, 159} : x \notin WideReads \cup {Read}
BY DEF WideReads, Read, DualRead, QuadRead, QuadDdrRead

LEMMA PlainCall ==
  ASSUME NEW d \in Seq(Tame), NEW n \in Nat \ {0}, Len(d) = n, d[1] \in {5, 21, 53, 101, 159}
  PROVE Send(d, 0) \in CallSet /\ Plain(Send(d, 0)) /\ ~LatencyCall(Send(d, 0))
<1>0. d \in Seq(Nat)
  <2>1. \A k \in 1..n : d[k] \in Tame
    OBVIOUS
  <2>2. \A k \in 1..n : d[k] \in Nat
    BY <2>1 DEF Tame
  <2>3. d = [k \in 1..n |-> d[k]]
    OBVIOUS
  <2>4. [k \in 1..n |-> d[k]] \in Seq(Nat)
    BY <2>2
  <2> QED BY <2>3, <2>4
<1>1. PICK c : c = Send(d, 0)
  OBVIOUS
<1>2. c \in CallSet /\ c.act = "flashio" /\ c.data = d /\ c.wrencmd = 0
  BY <1>0, <1>1, SendCall
<1>3. Len(c.data) >= 1 /\ c.wrencmd # 6
  BY <1>2
<1>4. \A k \in 1..Len(c.data) : c.data[k] \notin WriteEnables \cup {StayInXip}
  <2>1. \A k \in 1..Len(d) : d[k] \in Tame
    OBVIOUS
  <2> QED BY <1>2, <2>1 DEF Tame
<1>5. c.data[1] \notin WideReads \cup {Read}
  BY <1>2, FirstBytes
<1>6. Plain(c)
  BY <1>2, <1>3, <1>4, <1>5 DEF Plain
<1>7. ~LatencyCall(c)
  BY <1>3 DEF LatencyCall
<1> QED BY <1>1, <1>2, <1>6, <1>7

LEMMA JoinBytes ==
  ASSUME NEW S, NEW s \in Seq(S), NEW t \in Seq(S), Len(s) = 1
  PROVE s \o t \in Seq(S) /\ Len(s \o t) = 1 + Len(t) /\ (s \o t)[1] = s[1]
<1>1. /\ s \o t \in Seq(S) /\ Len(s \o t) = Len(s) + Len(t)
      /\ \A i \in 1 .. Len(s) + Len(t) : (s \o t)[i] = IF i <= Len(s) THEN s[i] ELSE t[i - Len(s)]
  BY ConcatProperties, Zenon
<1>2. 1 \in 1..(Len(s) + Len(t)) /\ 1 <= Len(s)
  OBVIOUS
<1> QED BY <1>1, <1>2

LEMMA ReadCalls ==
  /\ \A reg \in 0..5 : ReadRegister(reg) \in CallSet /\ Plain(ReadRegister(reg)) /\ ~LatencyCall(ReadRegister(reg))
  /\ \A cmd \in {5, 21, 53} : ReadStatus(cmd) \in CallSet /\ Plain(ReadStatus(cmd)) /\ ~LatencyCall(ReadStatus(cmd))
  /\ LET c == Send(<<159>> \o [k \in 1..16 |-> 0], 0) IN c \in CallSet /\ Plain(c) /\ ~LatencyCall(c)
<1>1. ASSUME NEW reg \in 0..5
      PROVE ReadRegister(reg) \in CallSet /\ Plain(ReadRegister(reg)) /\ ~LatencyCall(ReadRegister(reg))
  <2>1. reg \in Tame /\ 0 \in Tame /\ 101 \in Tame /\ 128 \in Tame
    BY TameBytes
  <2>2. PICK d : d = <<101, 128, 0, reg, 0, 0>>
    OBVIOUS
  <2>3. d \in Seq(Tame) /\ Len(d) = 6 /\ d[1] = 101
    BY ONLY <2>1, <2>2
  <2>4. Send(d, 0) \in CallSet /\ Plain(Send(d, 0)) /\ ~LatencyCall(Send(d, 0))
    BY <2>3, PlainCall
  <2> QED BY <2>2, <2>4 DEF ReadRegister
<1>2. ASSUME NEW cmd \in {5, 21, 53}
      PROVE ReadStatus(cmd) \in CallSet /\ Plain(ReadStatus(cmd)) /\ ~LatencyCall(ReadStatus(cmd))
  <2>1. cmd \in Tame /\ 0 \in Tame
    BY TameBytes
  <2>2. PICK d : d = <<cmd, 0>>
    OBVIOUS
  <2>3. d \in Seq(Tame) /\ Len(d) = 2 /\ d[1] = cmd
    BY ONLY <2>1, <2>2
  <2>4. Send(d, 0) \in CallSet /\ Plain(Send(d, 0)) /\ ~LatencyCall(Send(d, 0))
    BY <2>3, PlainCall
  <2> QED BY <2>2, <2>4 DEF ReadStatus
<1>3. LET c == Send(<<159>> \o [k \in 1..16 |-> 0], 0) IN c \in CallSet /\ Plain(c) /\ ~LatencyCall(c)
  <2>1. 0 \in Tame /\ 159 \in Tame
    BY TameBytes
  <2>2. PICK y : y = <<159>>
    OBVIOUS
  <2>3. PICK z : z = [k \in 1..16 |-> 0]
    OBVIOUS
  <2>4. y \in Seq(Tame) /\ Len(y) = 1 /\ y[1] = 159
    BY ONLY <2>1, <2>2
  <2>5. z \in Seq(Tame) /\ Len(z) = 16
    BY ONLY <2>1, <2>3
  <2>6. PICK d : d = y \o z
    OBVIOUS
  <2>7. y \o z \in Seq(Tame) /\ Len(y \o z) = 1 + Len(z) /\ (y \o z)[1] = y[1]
    <3>1. \A s, t \in Seq(Tame) : Len(s) = 1
            => s \o t \in Seq(Tame) /\ Len(s \o t) = 1 + Len(t) /\ (s \o t)[1] = s[1]
      BY JoinBytes
    <3>2. y \in Seq(Tame) /\ z \in Seq(Tame) /\ Len(y) = 1
      BY <2>4, <2>5
    <3> QED BY ONLY <3>1, <3>2, Zenon
  <2>8. d \in Seq(Tame) /\ Len(d) = 17 /\ d[1] = 159
    BY ONLY <2>4, <2>5, <2>6, <2>7
  <2>9. Send(d, 0) \in CallSet /\ Plain(Send(d, 0)) /\ ~LatencyCall(Send(d, 0))
    BY <2>8, PlainCall
  <2> QED BY <2>2, <2>3, <2>6, <2>9
<1> QED BY <1>1, <1>2, <1>3

LEMMA WriteCalls ==
  /\ \A v \in 1..8 : LET c == WriteRegister(LatencyRegister, v)
                     IN c \in CallSet /\ LatencyCall(c) /\ c.data[5] = v /\ c.act = "flashio"
  /\ LET c == WriteRegister(QuadRegister, 2) IN c \in CallSet /\ QuadCall(Hx8k, c) /\ ~LatencyCall(c) /\ c.act = "flashio"
  /\ LET c == Send(<<WriteStatus2, 2>>, 80) IN c \in CallSet /\ QuadCall(Icebreaker, c) /\ ~LatencyCall(c) /\ c.act = "flashio"
<1>1. ASSUME NEW reg \in Nat, NEW v \in Nat
      PROVE LET c == WriteRegister(reg, v)
            IN c \in CallSet /\ c.act = "flashio" /\ c.wrencmd = 6 /\ Len(c.data) = 5
               /\ c.data[1] = WriteAnyRegister /\ c.data[4] = reg /\ c.data[5] = v
  <2>1. PICK d : d = <<WriteAnyRegister, 128, 0, reg, v>>
    OBVIOUS
  <2>2. d \in Seq(Nat) /\ Len(d) = 5 /\ d[1] = WriteAnyRegister /\ d[4] = reg /\ d[5] = v
    BY <2>1 DEF WriteAnyRegister
  <2>3. WriteRegister(reg, v) = Send(d, 6)
    BY <2>1 DEF WriteRegister
  <2> QED BY <2>2, <2>3, SendCall
<1>2. LatencyRegister \in Nat /\ QuadRegister \in Nat /\ LatencyRegister # QuadRegister
  BY CodesDiffer
<1>3. LET c == Send(<<WriteStatus2, 2>>, 80) IN c \in CallSet /\ QuadCall(Icebreaker, c) /\ ~LatencyCall(c) /\ c.act = "flashio"
  <2>1. PICK d : d = <<WriteStatus2, 2>>
    OBVIOUS
  <2>2. d \in Seq(Nat) /\ Len(d) = 2 /\ d[1] = WriteStatus2
    BY <2>1 DEF WriteStatus2
  <2>3. PICK c : c = Send(d, 80)
    OBVIOUS
  <2>4. c \in CallSet /\ c.act = "flashio" /\ c.data = d /\ c.wrencmd = 80
    BY <2>2, <2>3, SendCall
  <2>5. QuadCall(Icebreaker, c) /\ ~LatencyCall(c)
    BY <2>2, <2>4 DEF QuadCall, LatencyCall, Icebreaker, Hx8k
  <2> QED BY <2>1, <2>3, <2>4, <2>5
<1>4. \A v \in 1..8 : LET c == WriteRegister(LatencyRegister, v)
                     IN c \in CallSet /\ LatencyCall(c) /\ c.data[5] = v /\ c.act = "flashio"
  BY <1>1, <1>2 DEF LatencyCall
<1>5. LET c == WriteRegister(QuadRegister, 2) IN c \in CallSet /\ QuadCall(Hx8k, c) /\ ~LatencyCall(c) /\ c.act = "flashio"
  BY <1>1, <1>2 DEF LatencyCall, QuadCall
<1> QED BY <1>3, <1>4, <1>5

(* A call that may follow any, and sequences of calls that begin with one.    *)
Opens(c) == c.act \notin {"crm", "toggle"} /\ ~LatencyCall(c)
Whole(b, s) == Linked(b, s) /\ Opens(s[1])
LEMMA NotQuad == ASSUME NEW b, NEW c, CallOk(b, c) PROVE ~QuadCall(b, c)
BY CodesDiffer DEF CallOk, QuadCall, Plain, LatencyCall

LEMMA OpensFollows == ASSUME NEW b, NEW p, NEW c, ~NewLatency(b, p), Opens(c), CallOk(b, c) PROVE Follows(b, p, c)
BY NotQuad DEF Opens, Follows

SameLast(s, t) == s[Len(s)] = t[Len(t)]
LEMMA JoinWhole ==
  ASSUME NEW b, NEW s, NEW t, Whole(b, s), Whole(b, t)
  PROVE \E r : r = s \o t /\ Whole(b, r) /\ SameLast(r, t)
<1>1. Linked(b, s) /\ Linked(b, t) /\ Opens(s[1]) /\ Opens(t[1])
  BY DEF Whole
<1>2. ~NewLatency(b, s[Len(s)]) /\ CallOk(b, t[1])
  <2>1. Len(t) \in Nat \ {0} /\ \A k \in 1..Len(t) : CallOk(b, t[k])
    BY <1>1 DEF Linked
  <2>2. 1 \in 1..Len(t)
    BY <2>1
  <2> QED BY <1>1, <2>1, <2>2 DEF Linked
<1>3. Follows(b, s[Len(s)], t[1])
  BY <1>1, <1>2, OpensFollows
<1>4. PICK r : r = s \o t /\ Linked(b, r) /\ r[1] = s[1] /\ r[Len(r)] = t[Len(t)]
  BY <1>1, <1>3, Join
<1>5. Whole(b, r)
  BY <1>1, <1>4 DEF Whole
<1>6. SameLast(r, t)
  BY <1>4 DEF SameLast
<1> QED BY <1>4, <1>5, <1>6, Zenon

LEMMA WholeOne ==
  ASSUME NEW b, NEW c \in CallSet, CallOk(b, c), ~NewLatency(b, c), Opens(c)
  PROVE Whole(b, <<c>>)
<1>1. PICK s : s = <<c>>
  OBVIOUS
<1>2. Linked(b, s) /\ s[1] = c
  BY <1>1, LinkedOne
<1>3. Whole(b, s)
  BY <1>2 DEF Whole
<1> QED BY <1>1, <1>3

LEMMA PlainOpens == ASSUME NEW b, NEW c, Plain(c) PROVE CallOk(b, c) /\ ~NewLatency(b, c) /\ (~LatencyCall(c) => Opens(c))
BY DEF Plain, CallOk, NewLatency, Opens

LEMMA SetOpens ==
  ASSUME NEW b, NEW bits \in SUBSET {"ddr", "qspi", "cont"}, NEW dummy \in Int, SetOk(b, Set(bits, dummy)),
         b # Hx8k \/ dummy = Keep
  PROVE Whole(b, <<Set(bits, dummy)>>)
<1>1. PICK c : c = Set(bits, dummy)
  OBVIOUS
<1>2. c \in CallSet /\ c.act = "set" /\ c.dummy = dummy /\ ~LatencyCall(c)
  BY <1>1, SetCall
<1>3. CallOk(b, c) /\ Opens(c) /\ ~NewLatency(b, c)
  BY <1>1, <1>2 DEF CallOk, Opens, NewLatency
<1>4. Whole(b, <<c>>)
  BY <1>2, <1>3, WholeOne
<1> QED BY <1>1, <1>4

(* A loop whose turns are whole is whole.                                     *)
LEMMA TurnOf ==
  ASSUME NEW n \in Nat \ {0}, NEW k \in 1..(3 * n)
  PROVE LET t == (k + 2) \div 3
            p == ((k - 1) % 3) + 1
        IN /\ t \in 1..n /\ p \in 1..3 /\ k = 3 * (t - 1) + p
           /\ p < 3 => (k + 3) \div 3 = t /\ (k % 3) + 1 = p + 1
           /\ p = 3 => (k + 3) \div 3 = t + 1 /\ (k % 3) + 1 = 1 /\ (k < 3 * n => t + 1 \in 1..n)
           /\ k = 1 => t = 1 /\ p = 1
           /\ k = 3 * n => t = n /\ p = 3
OBVIOUS

LEMMA LoopWhole ==
  ASSUME NEW b, NEW n \in Nat \ {0}, NEW turns,
         \A t \in 1..n : Whole(b, turns[t]) /\ Len(turns[t]) = 3
  PROVE LET s == Loop(n, turns) IN Whole(b, s) /\ s[Len(s)] = turns[n][3]
<1> DEFINE t(k) == (k + 2) \div 3
           p(k) == ((k - 1) % 3) + 1
           s == [k \in 1..(3 * n) |-> turns[t(k)][p(k)]]
<1>0. s = Loop(n, turns)
  BY DEF Loop
<1>1. \A k \in 1..(3 * n) : t(k) \in 1..n /\ p(k) \in 1..3
  BY TurnOf
<1>2. \A k \in 1..(3 * n) : s[k] = turns[t(k)][p(k)]
  OBVIOUS
<1>3. \A k \in 1..(3 * n) : k + 1 \in 1..(3 * n) => s[k + 1] = turns[(k + 3) \div 3][(k % 3) + 1]
  <2>1. ASSUME NEW k \in 1..(3 * n), k + 1 \in 1..(3 * n) PROVE s[k + 1] = turns[(k + 3) \div 3][(k % 3) + 1]
    <3>1. s[k + 1] = turns[(k + 1 + 2) \div 3][((k + 1 - 1) % 3) + 1]
      BY <2>1
    <3>2. k + 1 + 2 = k + 3 /\ k + 1 - 1 = k
      BY <2>1
    <3> QED BY <3>1, <3>2
  <2> QED BY <2>1
<1>4. \A u \in 1..n : \A q \in 1..3 : turns[u][q] \in CallSet /\ CallOk(b, turns[u][q])
  <2>1. ASSUME NEW u \in 1..n PROVE \A q \in 1..3 : turns[u][q] \in CallSet /\ CallOk(b, turns[u][q])
    <3>1. PICK x : x = turns[u]
      OBVIOUS
    <3>2. x \in Seq(CallSet) /\ Len(x) = 3 /\ \A q \in 1..Len(x) : CallOk(b, x[q])
      BY <3>1 DEF Whole, Linked
    <3> QED BY <3>1, <3>2
  <2> QED BY <2>1
<1>5. \A u \in 1..n : /\ Follows(b, turns[u][1], turns[u][2]) /\ Follows(b, turns[u][2], turns[u][3])
                      /\ ~NewLatency(b, turns[u][3]) /\ Opens(turns[u][1])
  BY DEF Whole, Linked
<1>6. 3 * n \in Nat \ {0} /\ 1 \in 1..(3 * n) /\ 3 * n \in 1..(3 * n)
  OBVIOUS
<1>7. \A k \in 1..(3 * n) : s[k] \in CallSet /\ CallOk(b, s[k])
  BY <1>1, <1>2, <1>4
<1>8. s \in Seq(CallSet) /\ Len(s) = 3 * n
  <2>1. s = [k \in 1..(3 * n) |-> s[k]]
    OBVIOUS
  <2>2. PICK m \in Nat : m = 3 * n
    BY <1>6
  <2> HIDE DEF s
  <2>3. s \in [1..m -> CallSet]
    BY <1>7, <2>1, <2>2
  <2>4. s \in Seq(CallSet) /\ Len(s) = m
    BY <2>3
  <2> QED BY <2>2, <2>4
<1> HIDE DEF s
<1>9. ASSUME NEW k \in 1..(3 * n - 1) PROVE Follows(b, s[k], s[k + 1])
  <2>1. k \in 1..(3 * n) /\ k + 1 \in 1..(3 * n) /\ k < 3 * n
    OBVIOUS
  <2>2. PICK u \in 1..n, q \in 1..3 :
          /\ u = t(k) /\ q = p(k)
          /\ q < 3 => (k + 3) \div 3 = u /\ (k % 3) + 1 = q + 1
          /\ q = 3 => (k + 3) \div 3 = u + 1 /\ (k % 3) + 1 = 1 /\ u + 1 \in 1..n
    BY <2>1, TurnOf
  <2>3. s[k] = turns[u][q] /\ s[k + 1] = turns[(k + 3) \div 3][(k % 3) + 1]
    BY <2>1, <2>2, <1>2, <1>3
  <2>4. CASE q = 3
    <3>1. s[k] = turns[u][3] /\ s[k + 1] = turns[u + 1][1] /\ u + 1 \in 1..n
      BY <2>2, <2>3, <2>4
    <3>2. ~NewLatency(b, turns[u][3]) /\ Opens(turns[u + 1][1]) /\ CallOk(b, turns[u + 1][1])
      BY <3>1, <1>4, <1>5
    <3> QED BY <3>1, <3>2, OpensFollows
  <2>5. CASE q \in {1, 2}
    <3>1. s[k] = turns[u][q] /\ s[k + 1] = turns[u][q + 1]
      <4>1. (k + 3) \div 3 = u /\ (k % 3) + 1 = q + 1
        <5>1. q < 3
          BY ONLY <2>5
        <5> QED BY <2>2, <5>1, Zenon
      <4> QED BY ONLY <2>3, <4>1, Zenon
    <3> QED BY <3>1, <2>5, <1>5
  <2> QED BY <2>4, <2>5
<1>10. s[1] = turns[1][1] /\ s[3 * n] = turns[n][3]
  <2>1. t(1) = 1 /\ p(1) = 1 /\ t(3 * n) = n /\ p(3 * n) = 3
    BY <1>6, TurnOf
  <2>2. s[1] = turns[t(1)][p(1)] /\ s[3 * n] = turns[t(3 * n)][p(3 * n)]
    BY <1>2, <1>6
  <2> HIDE DEF t, p
  <2> QED BY <2>1, <2>2
<1>11. Opens(s[1]) /\ ~NewLatency(b, s[3 * n]) /\ s # <<>>
  BY <1>5, <1>8, <1>10, <1>6
<1>12. Linked(b, s)
  BY <1>7, <1>8, <1>9, <1>11 DEF Linked
<1> QED BY <1>0, <1>8, <1>10, <1>11, <1>12 DEF Whole

(* The calls of the benchmark, turn by turn.                                  *)
LEMMA AppendFacts ==
  ASSUME NEW S, NEW q \in Seq(S), NEW c \in S
  PROVE /\ Append(q, c) \in Seq(S) /\ Append(q, c) # <<>> /\ Len(Append(q, c)) = Len(q) + 1
        /\ \A i \in 1..Len(q) : Append(q, c)[i] = q[i]
        /\ Append(q, c)[Len(q) + 1] = c
BY AppendProperties

LEMMA AppendOne ==
  ASSUME NEW S, NEW q \in Seq(S), NEW c \in S, Len(q) = 2
  PROVE \E r : r = Append(q, c) /\ r \in Seq(S) /\ Len(r) = 3 /\ r[1] = q[1] /\ r[2] = q[2] /\ r[3] = c
<1>1. /\ Append(q, c) \in Seq(S) /\ Append(q, c) # <<>> /\ Len(Append(q, c)) = Len(q) + 1
      /\ \A i \in 1..Len(q) : Append(q, c)[i] = q[i]
      /\ Append(q, c)[Len(q) + 1] = c
  BY AppendFacts, Zenon
<1>2. PICK r : /\ r = Append(q, c)
               /\ r \in Seq(S) /\ Len(r) = Len(q) + 1 /\ r[Len(q) + 1] = c
               /\ \A i \in 1..Len(q) : r[i] = q[i]
  BY <1>1, Zenon
<1>3. Len(r) = Len(q) + 1 /\ r[Len(q) + 1] = c /\ r \in Seq(S) /\ \A i \in 1..Len(q) : r[i] = q[i]
  BY ONLY <1>2, Zenon
<1>4. Len(r) = 3 /\ r[3] = c /\ r[1] = q[1] /\ r[2] = q[2]
  BY ONLY <1>3, Len(q) = 2
<1>5. r = Append(q, c) /\ r \in Seq(S)
  BY ONLY <1>2, Zenon
<1> QED BY ONLY <1>4, <1>5, Zenon

LEMMA TurnWhole ==
  ASSUME NEW v \in 1..8, NEW c \in CallSet, CallOk(Hx8k, c), Opens(c), ~NewLatency(Hx8k, c)
  PROVE LET s == Append(set_flash_latency(v), c) IN Whole(Hx8k, s) /\ Len(s) = 3
<1>1. PICK x, y : x = Set({}, v % 16) /\ y = WriteRegister(LatencyRegister, v)
  OBVIOUS
<1>2. v % 16 = v /\ v \in Int /\ v # Keep
  BY DEF Keep
<1>3. x \in CallSet /\ x.act = "set" /\ x.bits = {} /\ x.dummy = v /\ ~LatencyCall(x)
  BY <1>1, <1>2, SetCall
<1>4. y \in CallSet /\ LatencyCall(y) /\ y.data[5] = v /\ y.act = "flashio"
  BY <1>1, WriteCalls
<1>5. CallOk(Hx8k, x) /\ CallOk(Hx8k, y) /\ NewLatency(Hx8k, x) /\ ~NewLatency(Hx8k, y) /\ Opens(x)
  BY <1>2, <1>3, <1>4 DEF CallOk, SetOk, NewLatency, Opens
<1>6. Follows(Hx8k, x, y) /\ Follows(Hx8k, y, c)
  BY <1>3, <1>4, <1>5, NotQuad DEF Follows, Opens
<1>7. PICK q : q = <<x, y>>
  OBVIOUS
<1>71. q \in Seq(CallSet) /\ Len(q) = 2 /\ q[1] = x /\ q[2] = y
  BY <1>3, <1>4, <1>7
<1>72. PICK r : r = Append(q, c) /\ r \in Seq(CallSet) /\ Len(r) = 3 /\ r[1] = q[1] /\ r[2] = q[2] /\ r[3] = c
  BY <1>71, AppendOne
<1>8. r \in Seq(CallSet) /\ Len(r) = 3 /\ r[1] = x /\ r[2] = y /\ r[3] = c /\ r # <<>>
  BY <1>71, <1>72
<1>9. Linked(Hx8k, r)
  BY <1>5, <1>6, <1>8 DEF Linked
<1>10. Append(set_flash_latency(v), c) = r
  BY <1>1, <1>7, <1>72 DEF set_flash_latency
<1> QED BY <1>5, <1>8, <1>9, <1>10 DEF Whole

LEMMA BitsOf ==
  /\ Bits("spi") = {} /\ Bits("dual") = {"ddr"} /\ Bits("quad") = {"qspi"} /\ Bits("qddr") = {"ddr", "qspi"}
BY DEF Bits

LEMMA LatencyBenchmark ==
  ASSUME NEW bits \in SUBSET {"ddr", "qspi", "cont"}
  PROVE Whole(Hx8k, benchmark_latencies(bits))
<1>1. PICK c : c = Set(bits, Keep)
  OBVIOUS
<1>2. Keep \in Int
  BY DEF Keep
<1>3. c \in CallSet /\ c.act = "set" /\ c.bits = bits /\ c.dummy = Keep /\ ~LatencyCall(c)
  BY <1>1, <1>2, SetCall
<1>4. CallOk(Hx8k, c) /\ Opens(c) /\ ~NewLatency(Hx8k, c)
  BY <1>3 DEF CallOk, SetOk, Opens, NewLatency
<1>5. PICK n \in 1..8 : n = MaxLatency
  BY FirmwareAssumption
<1>6. PICK turns : turns = [k \in 1..n |-> Append(set_flash_latency(n + 1 - k), c)]
  OBVIOUS
<1>7. \A k \in 1..n : Whole(Hx8k, turns[k]) /\ Len(turns[k]) = 3
  <2>1. ASSUME NEW k \in 1..n PROVE Whole(Hx8k, turns[k]) /\ Len(turns[k]) = 3
    <3>1. PICK v \in 1..8 : v = n + 1 - k
      OBVIOUS
    <3>2. turns[k] = Append(set_flash_latency(v), c)
      BY <1>6, <3>1
    <3> QED BY <1>3, <1>4, <3>2, TurnWhole
  <2> QED BY <2>1
<1>8. n \in Nat \ {0}
  OBVIOUS
<1>9. Whole(Hx8k, Loop(n, turns))
  BY <1>7, <1>8, LoopWhole, Zenon
<1> QED BY <1>1, <1>5, <1>6, <1>9 DEF benchmark_latencies

LEMMA RegisterLoop ==
  Whole(Hx8k, Loop(Registers, [reg \in 1..Registers |-> Append(set_flash_latency(8), ReadRegister(reg - 1))]))
<1>5. PICK n \in 1..6 : n = Registers
  BY FirmwareAssumption
<1>6. PICK turns : turns = [reg \in 1..n |-> Append(set_flash_latency(8), ReadRegister(reg - 1))]
  OBVIOUS
<1>7. \A k \in 1..n : Whole(Hx8k, turns[k]) /\ Len(turns[k]) = 3
  <2>1. ASSUME NEW k \in 1..n PROVE Whole(Hx8k, turns[k]) /\ Len(turns[k]) = 3
    <3>1. PICK v \in 0..5 : v = k - 1
      OBVIOUS
    <3>2. PICK c : c = ReadRegister(v)
      OBVIOUS
    <3>3. turns[k] = Append(set_flash_latency(8), c)
      BY <1>6, <3>1, <3>2
    <3>4. c \in CallSet /\ Plain(c) /\ ~LatencyCall(c)
      BY <3>2, ReadCalls
    <3>5. CallOk(Hx8k, c) /\ ~NewLatency(Hx8k, c) /\ Opens(c)
      BY <3>4, PlainOpens
    <3>6. 8 \in 1..8
      OBVIOUS
    <3> QED BY <3>3, <3>4, <3>5, <3>6, TurnWhole
  <2> QED BY <2>1
<1>8. n \in Nat \ {0}
  OBVIOUS
<1>9. Whole(Hx8k, Loop(n, turns))
  BY <1>7, <1>8, LoopWhole, Zenon
<1> QED BY <1>5, <1>6, <1>9

LEMMA ModeBenchmark ==
  ASSUME NEW mode \in {"dual", "quad", "qddr"}
  PROVE Whole(Hx8k, benchmark_mode(mode))
<1>1. PICK x, y : x = Bits(mode) /\ y = x \cup {"cont"}
  OBVIOUS
<1>2. x \in SUBSET {"ddr", "qspi", "cont"} /\ y \in SUBSET {"ddr", "qspi", "cont"}
  BY <1>1, BitsOf
<1>3. Whole(Hx8k, benchmark_latencies(x)) /\ Whole(Hx8k, benchmark_latencies(y))
  BY <1>2, LatencyBenchmark
<1>4. benchmark_mode(mode) = benchmark_latencies(x) \o benchmark_latencies(y)
  BY <1>1 DEF benchmark_mode
<1>5. PICK r : r = benchmark_latencies(x) \o benchmark_latencies(y) /\ Whole(Hx8k, r)
  BY <1>3, JoinWhole
<1> QED BY <1>4, <1>5

LEMMA BenchmarkHx8k == Whole(Hx8k, cmd_benchmark_all(Hx8k))
<1>1. Whole(Hx8k, <<Set({}, Keep)>>)
  <2>1. PICK x, k : x = {} /\ k = Keep
    OBVIOUS
  <2>2. x \in SUBSET {"ddr", "qspi", "cont"} /\ k \in Int /\ "cont" \notin x
    BY <2>1 DEF Keep
  <2>3. SetOk(Hx8k, Set(x, k))
    BY <2>1, <2>2, SetCall DEF SetOk
  <2> QED BY <2>1, <2>2, <2>3, SetOpens
<1>2. /\ Whole(Hx8k, benchmark_mode("dual")) /\ Whole(Hx8k, benchmark_mode("quad"))
      /\ Whole(Hx8k, benchmark_mode("qddr"))
  BY ModeBenchmark
<1>3. PICK r : r = <<Set({}, Keep)>> \o benchmark_mode("dual") /\ Whole(Hx8k, r)
  BY <1>1, <1>2, JoinWhole
<1>4. PICK s : s = r \o benchmark_mode("quad") /\ Whole(Hx8k, s)
  BY <1>2, <1>3, JoinWhole
<1>5. PICK t : t = s \o benchmark_mode("qddr") /\ Whole(Hx8k, t)
  BY <1>2, <1>4, JoinWhole
<1>6. cmd_benchmark_all(Hx8k) = <<Set({}, Keep)>> \o benchmark_mode("dual") \o benchmark_mode("quad") \o benchmark_mode("qddr")
  BY DEF cmd_benchmark_all
<1> QED BY <1>3, <1>4, <1>5, <1>6

(* The calls of the other board, and of the menu.                             *)
LEMMA BoardNames == Hx8k # Icebreaker /\ Boards \subseteq {Hx8k, Icebreaker}
BY SocAssumption DEF Hx8k, Icebreaker

LEMMA ModeCall ==
  ASSUME NEW b \in {Hx8k, Icebreaker}, NEW mode \in Modes
  PROVE Whole(b, set_flash_mode(b, mode))
<1>1. PICK x : x = Bits(mode)
  OBVIOUS
<1>2. x \in SUBSET {"ddr", "qspi", "cont"} /\ "cont" \notin x /\ (mode \in {"quad", "qddr"} <=> "qspi" \in x)
      /\ (mode \in {"dual", "qddr"} <=> "ddr" \in x)
  BY <1>1, BitsOf DEF Modes
<1>3. PICK d : d = IF b = Hx8k THEN Keep ELSE CASE mode = "quad" -> 4 [] mode = "qddr" -> 7 [] OTHER -> 0
  OBVIOUS
<1>31. d \in Int /\ (b = Hx8k => d = Keep)
       /\ (b # Hx8k => d = IF "qspi" \in x THEN IF "ddr" \in x THEN 7 ELSE 4 ELSE 0)
  <2>1. CASE b = Hx8k
    BY <1>3, <2>1 DEF Keep
  <2>2. CASE b # Hx8k
    BY <1>2, <1>3, <2>2 DEF Modes
  <2> QED BY <2>1, <2>2
<1>4. PICK c : c = Set(x, d)
  OBVIOUS
<1>5. c \in CallSet /\ c.act = "set" /\ c.bits = x /\ c.dummy = d /\ ~LatencyCall(c)
  BY <1>2, <1>31, <1>4, SetCall
<1>6. SetOk(b, c) /\ (b # Hx8k \/ d = Keep)
  BY <1>2, <1>31, <1>5 DEF SetOk
<1>7. Whole(b, <<c>>)
  BY <1>2, <1>31, <1>4, <1>6, SetOpens
<1>8. set_flash_mode(b, mode) = <<c>>
  BY <1>1, <1>3, <1>4 DEF set_flash_mode
<1> QED BY <1>7, <1>8

LEMMA CrmJoins ==
  ASSUME NEW s, Whole(Icebreaker, s)
  PROVE \E r : r = s \o enable_flash_crm /\ Whole(Icebreaker, r)
<1>1. Crm \in CallSet /\ Crm.act = "crm" /\ ~LatencyCall(Crm)
  BY OtherCalls
<1>2. CallOk(Icebreaker, Crm) /\ ~NewLatency(Icebreaker, Crm)
  BY <1>1 DEF CallOk, NewLatency
<1>3. PICK t : t = enable_flash_crm /\ Linked(Icebreaker, t) /\ t[1] = Crm
  BY <1>1, <1>2, LinkedOne DEF enable_flash_crm
<1>4. Linked(Icebreaker, s) /\ ~NewLatency(Icebreaker, s[Len(s)])
  BY DEF Whole, Linked
<1>5. Follows(Icebreaker, s[Len(s)], t[1])
  BY <1>1, <1>2, <1>3, <1>4, NotQuad DEF Follows
<1>6. PICK r : r = s \o t /\ Linked(Icebreaker, r) /\ r[1] = s[1]
  BY <1>3, <1>4, <1>5, Join
<1>7. Whole(Icebreaker, r)
  BY <1>6 DEF Whole
<1> QED BY <1>3, <1>6, <1>7

LEMMA BenchmarkIcebreaker == Whole(Icebreaker, cmd_benchmark_all(Icebreaker))
<1> DEFINE b == Icebreaker
<1>1. \A mode \in Modes : Whole(b, set_flash_mode(b, mode))
  BY ModeCall
<1> HIDE DEF b
<1>2. PICK r : r = set_flash_mode(b, "spi") \o set_flash_mode(b, "dual") /\ Whole(b, r)
  BY <1>1, JoinWhole DEF Modes
<1>3. PICK s : s = r \o set_flash_mode(b, "quad") /\ Whole(b, s)
  BY <1>1, <1>2, JoinWhole DEF Modes
<1>4. PICK t : t = s \o enable_flash_crm /\ Whole(b, t)
  BY <1>3, CrmJoins DEF b
<1>5. PICK u : u = t \o set_flash_mode(b, "qddr") /\ Whole(b, u)
  BY <1>1, <1>4, JoinWhole DEF Modes
<1>6. PICK v : v = u \o enable_flash_crm /\ Whole(b, v)
  BY <1>5, CrmJoins DEF b
<1>7. cmd_benchmark_all(b) = set_flash_mode(b, "spi") \o set_flash_mode(b, "dual")
         \o set_flash_mode(b, "quad") \o enable_flash_crm
         \o set_flash_mode(b, "qddr") \o enable_flash_crm
  BY BoardNames DEF cmd_benchmark_all, b
<1> QED BY <1>2, <1>3, <1>4, <1>5, <1>6, <1>7 DEF b

LEMMA WholeThree ==
  ASSUME NEW b, NEW S, S = {c \in CallSet : CallOk(b, c) /\ ~NewLatency(b, c) /\ Opens(c)},
         NEW x \in S, NEW y \in S, NEW z \in S
  PROVE Whole(b, <<x, y, z>>)
<1>1. PICK r : r = <<x, y, z>>
  OBVIOUS
<1>2. r \in Seq(CallSet) /\ Len(r) = 3 /\ r[1] = x /\ r[2] = y /\ r[3] = z /\ r # <<>>
  BY <1>1
<1>3. \A k \in 1..3 : CallOk(b, r[k]) /\ ~NewLatency(b, r[k]) /\ Opens(r[k])
  BY <1>2
<1>4. \A k \in 1..2 : Follows(b, r[k], r[k + 1])
  BY <1>3, OpensFollows
<1>5. Linked(b, r)
  BY <1>2, <1>3, <1>4 DEF Linked
<1> QED BY <1>1, <1>2, <1>3, <1>5 DEF Whole

LEMMA StatusReads == Whole(Icebreaker, <<ReadStatus(5), ReadStatus(53), ReadStatus(21)>>)
<1> DEFINE b == Icebreaker
<1>0. PICK S : S = {c \in CallSet : CallOk(b, c) /\ ~NewLatency(b, c) /\ Opens(c)}
  OBVIOUS
<1> HIDE DEF b
<1>1. \A cmd \in {5, 53, 21} : ReadStatus(cmd) \in S
  <2>1. ASSUME NEW cmd \in {5, 53, 21} PROVE ReadStatus(cmd) \in S
    <3>1. PICK c : c = ReadStatus(cmd)
      OBVIOUS
    <3>2. c \in CallSet /\ Plain(c) /\ ~LatencyCall(c)
      BY <3>1, ReadCalls
    <3>3. CallOk(b, c) /\ ~NewLatency(b, c) /\ Opens(c)
      BY <3>2, PlainOpens
    <3> QED BY <1>0, <3>1, <3>2, <3>3
  <2> QED BY <2>1
<1>2. PICK x, y, z : x = ReadStatus(5) /\ y = ReadStatus(53) /\ z = ReadStatus(21)
  OBVIOUS
<1>3. x \in S /\ y \in S /\ z \in S
  BY <1>1, <1>2
<1>4. Whole(b, <<x, y, z>>)
  BY <1>0, <1>3, WholeThree
<1> QED BY <1>2, <1>4 DEF b

LEMMA Commands ==
  ASSUME NEW b \in {Hx8k, Icebreaker}, NEW key \in Keys
  PROVE Whole(b, Command(b, key)) \/ Command(b, key) = <<Toggle>>
<1>1. CASE key = "1"
  <2>1. PICK c : c = Send(<<159>> \o [k \in 1..16 |-> 0], 0)
    OBVIOUS
  <2>2. c \in CallSet /\ Plain(c) /\ ~LatencyCall(c)
    BY <2>1, ReadCalls
  <2>3. CallOk(b, c) /\ ~NewLatency(b, c) /\ Opens(c)
    BY <2>2, PlainOpens
  <2>4. Whole(b, <<c>>)
    BY <2>2, <2>3, WholeOne
  <2> QED BY <1>1, <2>1, <2>4 DEF Command, cmd_read_flash_id
<1>2. CASE key = "2"
  <2>1. Command(b, key) = cmd_read_flash_regs(b)
    BY <1>2 DEF Command
  <2> QED BY <2>1, RegisterLoop, StatusReads DEF cmd_read_flash_regs
<1>3. CASE key \in {"3", "4", "5", "6"}
  <2>1. PICK m \in Modes : Command(b, key) = set_flash_mode(b, m)
    BY <1>3 DEF Command, Modes
  <2> QED BY <2>1, ModeCall
<1>4. CASE key = "7"
  BY <1>4 DEF Command
<1>5. CASE key = "0"
  <2>1. Command(b, key) = cmd_benchmark_all(b)
    BY <1>5 DEF Command
  <2> QED BY <2>1, BenchmarkHx8k, BenchmarkIcebreaker
<1> QED BY <1>1, <1>2, <1>3, <1>4, <1>5 DEF Keys

(* The writes of a call, one by one.                                          *)
OpSet == [act : {"enter", "manual", "release"}] \cup [act : {"byte"}, byte : Nat] \cup [act : {"memio"}, cmd : Nat]
Has(s, i, x) == s[i] = x
Split(r, s, t) ==
  /\ Len(r) = Len(s) + Len(t)
  /\ \A i \in 1..Len(s) : Has(r, i, s[i])
  /\ \A j \in 1..Len(t) : Has(r, Len(s) + j, t[j])

LEMMA ConcatFacts ==
  ASSUME NEW S, NEW s \in Seq(S), NEW t \in Seq(S)
  PROVE s \o t \in Seq(S) /\ Split(s \o t, s, t)
<1>1. PICK r : r = s \o t
  OBVIOUS
<1>2. r \in Seq(S) /\ Len(r) = Len(s) + Len(t)
  BY <1>1
<1>3. \A i \in 1..Len(s) : r[i] = s[i]
  BY <1>1
<1>4. \A j \in 1..Len(t) : r[Len(s) + j] = t[j]
  BY <1>1
<1>5. Split(r, s, t)
  BY <1>2, <1>3, <1>4 DEF Has, Split
<1> QED BY <1>1, <1>2, <1>5, Zenon

ByteOp(x) == [act |-> "byte", byte |-> x]
LEMMA BytesFacts ==
  ASSUME NEW d \in Seq(Nat)
  PROVE \E r : r = Bytes(d) /\ r \in Seq(OpSet) /\ Len(r) = Len(d) /\ \A k \in 1..Len(d) : Has(r, k, ByteOp(d[k]))
<1>1. PICK n \in Nat : n = Len(d)
  OBVIOUS
<1>2. \A k \in 1..n : d[k] \in Nat
  BY <1>1
<1>3. PICK r : r = [k \in 1..n |-> ByteOp(d[k])]
  OBVIOUS
<1>4. \A k \in 1..n : ByteOp(d[k]) \in OpSet
  BY <1>2 DEF ByteOp, OpSet
<1>5. r \in [1..n -> OpSet]
  BY <1>3, <1>4
<1>6. r \in Seq(OpSet) /\ Len(r) = n
  BY <1>5
<1>7. \A k \in 1..n : Has(r, k, ByteOp(d[k]))
  BY <1>3 DEF Has
<1>8. Bytes(d) = r
  BY <1>1, <1>3 DEF Bytes, ByteOp
<1> QED BY <1>1, <1>6, <1>7, <1>8

(* The place of a byte of data among them.                                    *)
Before(w) == IF w = 0 THEN 2 ELSE 4
LEMMA WorkerWrites ==
  ASSUME NEW d \in Seq(Nat), NEW w \in Nat, Len(d) \in Nat \ {0}
  PROVE \E s : /\ s = flashio(d, w) /\ s \in Seq(OpSet) /\ Len(s) = Before(w) + Len(d) + 1
               /\ Has(s, 1, [act |-> "enter"]) /\ Has(s, 2, [act |-> "manual"])
               /\ w # 0 => Has(s, 3, ByteOp(w)) /\ Has(s, 4, [act |-> "release"])
               /\ \A k \in 1..Len(d) : Has(s, Before(w) + k, ByteOp(d[k]))
               /\ Has(s, Before(w) + Len(d) + 1, [act |-> "memio", cmd |-> d[1]])
<1>1. PICK n \in Nat \ {0} : n = Len(d)
  OBVIOUS
<1>2. PICK e, m : e = Enter /\ m = Memio(d[1])
  OBVIOUS
<1>3. e \in Seq(OpSet) /\ Len(e) = 2 /\ e[1] = [act |-> "enter"] /\ e[2] = [act |-> "manual"]
  <2>1. PICK x, y : x = [act |-> "enter"] /\ y = [act |-> "manual"]
    OBVIOUS
  <2>2. x \in OpSet /\ y \in OpSet
    BY <2>1 DEF OpSet
  <2>3. e = <<x, y>>
    BY <1>2, <2>1 DEF Enter
  <2>4. e \in Seq(OpSet) /\ Len(e) = 2 /\ e[1] = x /\ e[2] = y
    BY <2>2, <2>3
  <2> QED BY <2>1, <2>4
<1>4. m \in Seq(OpSet) /\ Len(m) = 1 /\ m[1] = [act |-> "memio", cmd |-> d[1]]
  <2>1. PICK x : x = [act |-> "memio", cmd |-> d[1]]
    OBVIOUS
  <2>2. d[1] \in Nat
    BY <1>1
  <2>3. x \in OpSet
    BY <2>1, <2>2 DEF OpSet
  <2>4. m = <<x>>
    BY <1>2, <2>1 DEF Memio
  <2>5. m \in Seq(OpSet) /\ Len(m) = 1 /\ m[1] = x
    BY <2>3, <2>4
  <2> QED BY <2>1, <2>5
<1>5. PICK b : b = Bytes(d) /\ b \in Seq(OpSet) /\ Len(b) = n /\ \A k \in 1..n : Has(b, k, ByteOp(d[k]))
  BY <1>1, BytesFacts
<1> DEFINE p == IF w = 0 THEN <<>> ELSE Bytes(<<w>>) \o <<[act |-> "release"]>>
<1>6. /\ p \in Seq(OpSet) /\ Len(p) = Before(w) - 2
      /\ w # 0 => Has(p, 1, ByteOp(w)) /\ Has(p, 2, [act |-> "release"])
  <2>1. CASE w = 0
    <3>1. <<>> \in Seq(OpSet) /\ Len(<<>>) = 0
      OBVIOUS
    <3> QED BY <2>1, <3>1 DEF Before
  <2>2. CASE w # 0
    <3>1. PICK x : x = <<w>>
      OBVIOUS
    <3>2. x \in Seq(Nat) /\ Len(x) = 1 /\ x[1] = w
      BY <3>1
    <3>3. PICK y : y = Bytes(x) /\ y \in Seq(OpSet) /\ Len(y) = 1 /\ \A k \in 1..1 : Has(y, k, ByteOp(x[k]))
      BY <3>2, BytesFacts
    <3>4. PICK z : z = [act |-> "release"]
      OBVIOUS
    <3>5. z \in OpSet
      BY <3>4 DEF OpSet
    <3>6. PICK u : u = <<z>>
      OBVIOUS
    <3>7. u \in Seq(OpSet) /\ Len(u) = 1 /\ u[1] = z
      BY <3>5, <3>6
    <3> DEFINE q == y \o u
    <3>8. q \in Seq(OpSet) /\ Split(q, y, u)
      BY <3>3, <3>7, ConcatFacts
    <3>11. q = Bytes(<<w>>) \o <<[act |-> "release"]>>
      BY <3>1, <3>3, <3>4, <3>6
    <3> HIDE DEF q
    <3>81. Len(y) = 1 /\ Has(y, 1, ByteOp(x[1]))
      BY <3>3
    <3>9. Len(q) = 2 /\ q[1] = y[1] /\ q[2] = u[1]
      BY <3>81, <3>7, <3>8 DEF Has, Split
    <3>10. Has(q, 1, ByteOp(w)) /\ Has(q, 2, [act |-> "release"])
      BY <3>2, <3>4, <3>7, <3>81, <3>9 DEF Has
    <3>12. Len(q) = Before(w) - 2
      BY <2>2, <3>9 DEF Before
    <3>13. p = q
      BY <2>2, <3>11
    <3> QED BY <2>2, <3>8, <3>10, <3>12, <3>13
  <2> QED BY <2>1, <2>2
<1>7. PICK c \in {2, 4} : c = Before(w)
  BY DEF Before
<1> DEFINE q == e \o p
           r == q \o b
           s == r \o m
<1>8. s = flashio(d, w)
  BY <1>2, <1>5 DEF flashio
<1> HIDE DEF p
<1>9. q \in Seq(OpSet) /\ Split(q, e, p)
  BY <1>3, <1>6, ConcatFacts
<1> HIDE DEF q
<1>10. r \in Seq(OpSet) /\ Split(r, q, b)
  BY <1>5, <1>9, ConcatFacts
<1> HIDE DEF r
<1>11. s \in Seq(OpSet) /\ Split(s, r, m)
  BY <1>4, <1>10, ConcatFacts
<1> HIDE DEF s
<1>61. Len(p) = c - 2 /\ Len(b) = n /\ \A k \in 1..n : Has(b, k, ByteOp(d[k]))
  BY <1>5, <1>6, <1>7
<1>62. Len(q) = c /\ (\A i \in 1..2 : q[i] = e[i]) /\ (\A j \in 1..(c - 2) : q[2 + j] = p[j])
  BY <1>3, <1>7, <1>9, <1>61 DEF Split, Has
<1>63. Len(r) = c + n /\ (\A i \in 1..c : r[i] = q[i]) /\ (\A j \in 1..n : r[c + j] = b[j])
  BY <1>7, <1>10, <1>61, <1>62 DEF Split, Has
<1>64. Len(s) = c + n + 1 /\ (\A i \in 1..(c + n) : s[i] = r[i]) /\ s[c + n + 1] = m[1]
  BY <1>4, <1>7, <1>11, <1>63 DEF Split, Has
<1>12. \A i \in 1..c : s[i] = q[i]
  BY <1>63, <1>64
<1>13. Has(s, 1, [act |-> "enter"]) /\ Has(s, 2, [act |-> "manual"])
  BY <1>3, <1>62, <1>12, <1>7 DEF Has
<1>14. w # 0 => Has(s, 3, ByteOp(w)) /\ Has(s, 4, [act |-> "release"])
  <2>1. ASSUME w # 0 PROVE Has(s, 3, ByteOp(w)) /\ Has(s, 4, [act |-> "release"])
    <3>1. c = 4
      BY <1>7, <2>1 DEF Before
    <3>2. q[3] = p[1] /\ q[4] = p[2]
      BY <1>62, <3>1
    <3>3. s[3] = p[1] /\ s[4] = p[2]
      BY <1>12, <3>1, <3>2
    <3> QED BY <1>6, <2>1, <3>3 DEF Has
  <2> QED BY <2>1
<1>15. \A k \in 1..n : Has(s, c + k, ByteOp(d[k]))
  <2>1. ASSUME NEW k \in 1..n PROVE Has(s, c + k, ByteOp(d[k]))
    <3>1. c + k \in 1..(c + n)
      OBVIOUS
    <3>2. s[c + k] = r[c + k] /\ r[c + k] = b[k]
      BY <1>63, <1>64, <3>1
    <3>3. b[k] = ByteOp(d[k])
      BY <1>61 DEF Has
    <3> QED BY <3>2, <3>3 DEF Has
  <2> QED BY <2>1
<1>16. Has(s, c + n + 1, [act |-> "memio", cmd |-> d[1]])
  BY <1>4, <1>64 DEF Has
<1>17. s \in Seq(OpSet) /\ Len(s) = c + n + 1
  BY <1>11, <1>64
<1> QED BY <1>1, <1>7, <1>8, <1>17, <1>13, <1>14, <1>15, <1>16

LEMMA TailWell ==
  ASSUME NEW b, NEW s, WellFormed(b, s), s # <<>>
  PROVE /\ WellFormed(b, Tail(s)) /\ Head(s) \in CallSet
        /\ CallOk(b, Head(s)) \/ QuadCall(b, Head(s))
        /\ Tail(s) # <<>> => Follows(b, Head(s), Head(Tail(s))) /\ SameLast(Tail(s), s)
        /\ ~CallOk(b, Head(s)) => Tail(s) = <<>>
        /\ Tail(s) = <<>> => SameLast(s, <<Head(s)>>) /\ Len(s) = 1
<1>1. s \in Seq(CallSet) /\ Len(s) \in Nat \ {0}
  BY DEF WellFormed
<1>2. PICK n \in Nat \ {0} : n = Len(s)
  BY <1>1
<1> DEFINE r == Tail(s)
<1>3. r \in Seq(CallSet) /\ Len(r) = n - 1 /\ \A k \in 1..(n - 1) : r[k] = s[k + 1]
  BY <1>1, <1>2
<1>4. Head(s) = s[1] /\ s[1] \in CallSet
  BY <1>1, <1>2
<1>5. r # <<>> => Head(r) = r[1]
  BY <1>3
<1> HIDE DEF r
<1>6. (r = <<>>) <=> n = 1
  BY <1>3
<1>7. \A k \in 1..n : CallOk(b, s[k]) \/ (k = n /\ k <= 2 /\ QuadCall(b, s[k]))
  BY <1>2 DEF WellFormed
<1>8. \A k \in 1..(n - 1) : Follows(b, s[k], s[k + 1])
  BY <1>2 DEF WellFormed
<1>9. ~NewLatency(b, s[n])
  BY <1>2 DEF WellFormed
<1>10. \A k \in 1..(n - 1) : CallOk(b, r[k]) \/ (k = n - 1 /\ k <= 2 /\ QuadCall(b, r[k]))
  <2>1. ASSUME NEW k \in 1..(n - 1) PROVE CallOk(b, r[k]) \/ (k = n - 1 /\ k <= 2 /\ QuadCall(b, r[k]))
    <3>1. k + 1 \in 1..n /\ r[k] = s[k + 1]
      BY <1>3
    <3>2. CallOk(b, s[k + 1]) \/ (k + 1 = n /\ k + 1 <= 2 /\ QuadCall(b, s[k + 1]))
      BY <1>7, <3>1
    <3>3. k + 1 = n => k = n - 1
      OBVIOUS
    <3>4. k + 1 <= 2 => k <= 2
      OBVIOUS
    <3> QED BY <3>1, <3>2, <3>3, <3>4
  <2> QED BY <2>1
<1>11. \A k \in 1..(n - 1 - 1) : Follows(b, r[k], r[k + 1])
  <2>1. ASSUME NEW k \in 1..(n - 1 - 1) PROVE Follows(b, r[k], r[k + 1])
    <3>1. k + 1 \in 1..(n - 1) /\ k \in 1..(n - 1)
      OBVIOUS
    <3>2. r[k] = s[k + 1] /\ r[k + 1] = s[k + 1 + 1]
      BY <1>3, <3>1
    <3> QED BY <1>8, <3>1, <3>2
  <2> QED BY <2>1
<1>12. r # <<>> => r[n - 1] = s[n]
  BY <1>3, <1>6
<1>13. WellFormed(b, r)
  BY <1>3, <1>9, <1>10, <1>11, <1>12 DEF WellFormed
<1>14. r # <<>> => Follows(b, Head(s), Head(r)) /\ SameLast(r, s)
  <2>1. ASSUME r # <<>> PROVE Follows(b, Head(s), Head(r)) /\ SameLast(r, s)
    <3>1. 1 \in 1..(n - 1) /\ r[1] = s[1 + 1]
      BY <1>3, <1>6, <2>1
    <3>2. Head(r) = s[1 + 1] /\ Head(s) = s[1]
      BY <1>4, <1>5, <2>1, <3>1
    <3>3. Follows(b, s[1], s[1 + 1])
      BY <1>8, <3>1
    <3>4. SameLast(r, s)
      BY <1>2, <1>3, <1>12, <2>1 DEF SameLast
    <3> QED BY <3>2, <3>3, <3>4
  <2> QED BY <2>1
<1>15. CallOk(b, Head(s)) \/ (n = 1 /\ QuadCall(b, Head(s)))
  BY <1>4, <1>7
<1>16. n = 1 => SameLast(s, <<Head(s)>>)
  <2>1. PICK x : x = Head(s)
    OBVIOUS
  <2>2. PICK u : u = <<x>>
    OBVIOUS
  <2>3. u[Len(u)] = x
    BY <2>2
  <2>4. n = 1 => s[Len(s)] = x
    BY <1>2, <1>4, <2>1
  <2> QED BY <2>1, <2>2, <2>3, <2>4 DEF SameLast
<1> QED BY <1>2, <1>4, <1>6, <1>13, <1>14, <1>15, <1>16 DEF r

LEMMA DataLength ==
  ASSUME NEW b, NEW c \in CallSet, CallOk(b, c) \/ QuadCall(b, c), c.act = "flashio"
  PROVE c.data \in Seq(Nat) /\ Len(c.data) \in Nat \ {0} /\ c.wrencmd \in Nat
<1>1. c.data \in Seq(Nat) /\ c.wrencmd \in Nat
  BY DEF CallSet
<1>2. Len(c.data) \in Nat
  BY <1>1
<1>3. Len(c.data) >= 1
  BY <1>2 DEF CallOk, QuadCall, Plain, LatencyCall
<1> QED BY <1>1, <1>2, <1>3

(* The write a call is at.                                                    *)
Last == Before(Wren) + Len(Data) + 1
LEMMA OpIs ==
  ASSUME ProgramOk, calls # <<>>
  PROVE /\ Head(calls) \in CallSet /\ step \in Nat \ {0}
        /\ Head(calls).act # "flashio" =>
             Op = Head(calls) /\ Len(Writes(Head(calls))) = 1 /\ step = 1 /\ Head(calls).act \in {"set", "crm", "toggle"}
        /\ Head(calls).act = "flashio" =>
             /\ Data \in Seq(Nat) /\ Len(Data) \in Nat \ {0} /\ Wren \in Nat
             /\ Len(Writes(Head(calls))) = Last /\ step \in 1..Last
             /\ step = 1 => Op.act = "enter"
             /\ step = 2 => Op.act = "manual"
             /\ Wren # 0 /\ step = 3 => Op.act = "byte" /\ Op.byte = Wren
             /\ Wren # 0 /\ step = 4 => Op.act = "release"
             /\ Sent \in 0..(Len(Data) - 1) => Op.act = "byte" /\ Op.byte = Data[Sent + 1]
             /\ Sent = Len(Data) => Op.act = "memio" /\ Op.cmd = Data[1]
<1>1. PICK c : c = Head(calls)
  OBVIOUS
<1>2. c \in CallSet /\ (CallOk(board, c) \/ QuadCall(board, c))
  BY <1>1, TailWell DEF ProgramOk
<1>3. step \in 1..Len(Writes(c))
  BY <1>1 DEF ProgramOk
<1>4. ASSUME c.act # "flashio"
      PROVE Op = c /\ Len(Writes(c)) = 1 /\ step = 1 /\ c.act \in {"set", "crm", "toggle"}
  <2>1. PICK s : s = <<c>>
    OBVIOUS
  <2>2. Len(s) = 1 /\ s[1] = c
    BY <2>1
  <2>3. Writes(c) = s
    BY <1>4, <2>1 DEF Writes
  <2>4. Len(Writes(c)) = 1 /\ step = 1
    <3>1. PICK m : m = Len(Writes(c))
      OBVIOUS
    <3>2. step \in 1..m
      BY <1>3, <3>1
    <3>3. m = 1
      BY <2>2, <2>3, <3>1
    <3>4. step = 1
      BY ONLY <3>2, <3>3
    <3> QED BY <3>1, <3>3, <3>4
  <2>5. c.act \in {"set", "crm", "toggle"}
    BY <1>2, <1>4 DEF CallSet
  <2> QED BY <1>1, <2>2, <2>3, <2>4, <2>5 DEF Op
<1>5. ASSUME c.act = "flashio"
      PROVE /\ Data \in Seq(Nat) /\ Len(Data) \in Nat \ {0} /\ Wren \in Nat
            /\ Len(Writes(c)) = Last /\ step \in 1..Last
            /\ step = 1 => Op.act = "enter"
            /\ step = 2 => Op.act = "manual"
            /\ Wren # 0 /\ step = 3 => Op.act = "byte" /\ Op.byte = Wren
            /\ Wren # 0 /\ step = 4 => Op.act = "release"
            /\ Sent \in 0..(Len(Data) - 1) => Op.act = "byte" /\ Op.byte = Data[Sent + 1]
            /\ Sent = Len(Data) => Op.act = "memio" /\ Op.cmd = Data[1]
  <2>1. PICK d, w : d = c.data /\ w = c.wrencmd
    OBVIOUS
  <2>2. d \in Seq(Nat) /\ Len(d) \in Nat \ {0} /\ w \in Nat
    BY <1>2, <1>5, <2>1, DataLength
  <2>3. PICK n \in Nat \ {0} : n = Len(d)
    BY <2>2
  <2>4. Data = d /\ Wren = w
    BY <1>1, <2>1 DEF Data, Wren
  <2>5. PICK p \in {2, 4} : p = Before(w) /\ (w = 0 <=> p = 2)
    BY DEF Before
  <2>6. PICK s : /\ s = flashio(d, w) /\ s \in Seq(OpSet) /\ Len(s) = p + n + 1
                 /\ Has(s, 1, [act |-> "enter"]) /\ Has(s, 2, [act |-> "manual"])
                 /\ w # 0 => Has(s, 3, ByteOp(w)) /\ Has(s, 4, [act |-> "release"])
                 /\ \A k \in 1..n : Has(s, p + k, ByteOp(d[k]))
                 /\ Has(s, p + n + 1, [act |-> "memio", cmd |-> d[1]])
    BY <2>2, <2>3, <2>5, WorkerWrites
  <2>7. Writes(c) = s
    BY <1>5, <2>1, <2>6 DEF Writes
  <2>8. step \in 1..(p + n + 1) /\ Len(s) = p + n + 1
    BY <1>3, <2>6, <2>7
  <2>9. Op = s[step]
    BY <1>1, <2>7 DEF Op
  <2>10. s[1].act = "enter" /\ s[2].act = "manual"
    BY <2>6 DEF Has
  <2>11. w # 0 => s[3].act = "byte" /\ s[3].byte = w /\ s[4].act = "release"
    BY <2>6 DEF Has, ByteOp
  <2>12. \A k \in 1..n : s[p + k].act = "byte" /\ s[p + k].byte = d[k]
    <3>1. ASSUME NEW k \in 1..n PROVE s[p + k].act = "byte" /\ s[p + k].byte = d[k]
      <4>1. Has(s, p + k, ByteOp(d[k]))
        BY <2>6
      <4>2. PICK x, y : x = s[p + k] /\ y = d[k]
        OBVIOUS
      <4>3. x = [act |-> "byte", byte |-> y]
        BY <4>1, <4>2 DEF Has, ByteOp
      <4>4. x.act = "byte" /\ x.byte = y
        BY <4>3
      <4> QED BY <4>2, <4>4
    <3> QED BY <3>1
  <2>13. s[p + n + 1].act = "memio" /\ s[p + n + 1].cmd = d[1]
    BY <2>6 DEF Has
  <2>14. Sent = step - p - 1
    BY <2>4, <2>5, <2>8 DEF Sent
  <2>15. Sent \in 0..(n - 1) => Op.act = "byte" /\ Op.byte = d[Sent + 1]
    <3>1. ASSUME Sent \in 0..(n - 1) PROVE Op.act = "byte" /\ Op.byte = d[Sent + 1]
      <4>1. Sent + 1 \in 1..n /\ step = p + (Sent + 1)
        BY <2>8, <2>14, <3>1
      <4> QED BY <2>9, <2>12, <4>1
    <3> QED BY <3>1
  <2>16. Sent = n => Op.act = "memio" /\ Op.cmd = d[1]
    <3>1. ASSUME Sent = n PROVE Op.act = "memio" /\ Op.cmd = d[1]
      <4>1. step = p + n + 1
        BY <2>8, <2>14, <3>1
      <4> QED BY <2>9, <2>13, <4>1
    <3> QED BY <3>1
  <2>17. Last = p + n + 1
    BY <2>3, <2>4, <2>5 DEF Last
  <2>18. /\ step = 1 => Op.act = "enter"
         /\ step = 2 => Op.act = "manual"
         /\ Wren # 0 /\ step = 3 => Op.act = "byte" /\ Op.byte = Wren
         /\ Wren # 0 /\ step = 4 => Op.act = "release"
    BY <2>4, <2>9, <2>10, <2>11
  <2>19. Data \in Seq(Nat) /\ Len(Data) \in Nat \ {0} /\ Wren \in Nat
    BY <2>2, <2>4
  <2>20. Len(Writes(c)) = Last /\ step \in 1..Last
    BY <2>7, <2>8, <2>17
  <2>21. /\ Sent \in 0..(Len(Data) - 1) => Op.act = "byte" /\ Op.byte = Data[Sent + 1]
         /\ Sent = Len(Data) => Op.act = "memio" /\ Op.cmd = Data[1]
    BY <2>3, <2>4, <2>15, <2>16
  <2> QED BY ONLY <2>18, <2>19, <2>20, <2>21, Zenon
<1>6. step \in Nat \ {0}
  <2>1. CASE c.act = "flashio"
    <3>1. Last \in Nat /\ step \in 1..Last
      BY <1>5, <2>1 DEF Last, Before
    <3> QED BY <3>1
  <2>2. CASE c.act # "flashio"
    BY <1>4, <2>2
  <2> QED BY <2>1, <2>2
<1> QED BY <1>1, <1>2, <1>4, <1>5, <1>6, Zenon

(* The worker is at a byte, at the release or at the end.                     *)
LEMMA OpKinds ==
  ASSUME ProgramOk, calls # <<>>, Head(calls).act = "flashio"
  PROVE /\ Sent \in Int /\ Last \in Nat /\ step \in 1..Last
        /\ step < Last <=> Sent < Len(Data)
        /\ step = Last <=> Sent = Len(Data)
        /\ \/ step = 1 /\ Op.act = "enter"
           \/ step = 2 /\ Op.act = "manual"
           \/ step = 3 /\ Wren # 0 /\ Op.act = "byte"
           \/ step = 4 /\ Wren # 0 /\ Op.act = "release"
           \/ step >= 3 /\ step = Sent + Before(Wren) + 1 /\ Sent \in 0..(Len(Data) - 1) /\ Op.act = "byte"
           \/ step = Last /\ Op.act = "memio" /\ Sent = Len(Data)
<1>1. /\ Len(Data) \in Nat \ {0} /\ step \in 1..Last
      /\ step = 1 => Op.act = "enter"
      /\ step = 2 => Op.act = "manual"
      /\ Wren # 0 /\ step = 3 => Op.act = "byte" /\ Op.byte = Wren
      /\ Wren # 0 /\ step = 4 => Op.act = "release"
      /\ Sent \in 0..(Len(Data) - 1) => Op.act = "byte" /\ Op.byte = Data[Sent + 1]
      /\ Sent = Len(Data) => Op.act = "memio" /\ Op.cmd = Data[1]
  BY OpIs
<1>2. PICK n \in Nat \ {0} : n = Len(Data)
  BY <1>1
<1>3. PICK p \in {2, 4} : p = Before(Wren) /\ (Wren = 0 <=> p = 2)
  BY DEF Before
<1>4. Last = p + n + 1 /\ step \in 1..(p + n + 1)
  BY <1>1, <1>2, <1>3 DEF Last
<1>5. Sent = step - p - 1
  BY <1>3, <1>4 DEF Sent
<1>6. \/ step = 1 \/ step = 2 \/ (step \in {3, 4} /\ p = 4) \/ (step >= 3 /\ Sent \in 0..(n - 1)) \/ (step = p + n + 1 /\ Sent = n)
  BY <1>4, <1>5
<1>7. Sent \in Int /\ (step < Last <=> Sent < n) /\ (step = Last <=> Sent = n) /\ step = Sent + p + 1 /\ Last \in Nat
  BY <1>4, <1>5
<1>8. /\ step = 1 \/ step = 2 \/ (step \in {3, 4} /\ Wren # 0) \/ (step >= 3 /\ Sent \in 0..(Len(Data) - 1)) \/ (step = Last /\ Sent = Len(Data))
  <2>1. p = 4 => Wren # 0
    BY <1>3
  <2> QED BY <1>2, <1>4, <1>6, <1>7, <2>1
<1>9. /\ step < Last <=> Sent < Len(Data)
      /\ step = Last <=> Sent = Len(Data)
      /\ step = Sent + Before(Wren) + 1
      /\ step \in {3, 4} => step = 3 \/ step = 4
  BY <1>2, <1>3, <1>7
<1> QED BY ONLY <1>1, <1>7, <1>8, <1>9

LEMMA WorkingIs == ASSUME ProgramOk PROVE Working <=> InWorker
<1>1. CASE calls = <<>>
  BY <1>1 DEF Working, InWorker
<1>2. CASE calls # <<>> /\ Head(calls).act # "flashio"
  <2>1. Op.act \in {"set", "crm", "toggle"}
    BY <1>2, OpIs
  <2> QED BY <1>2, <2>1 DEF Working, InWorker
<1>3. CASE calls # <<>> /\ Head(calls).act = "flashio"
  <2>1. \/ step = 1 /\ Op.act = "enter"
        \/ step >= 2 /\ Op.act \in {"manual", "byte", "release", "memio"}
    <3>1. Last \in Nat /\ step \in 1..Last /\ Len(Data) \in Nat \ {0} /\ Last >= 2
      BY <1>3, OpKinds, OpIs DEF Last, Before
    <3> QED BY <1>3, <3>1, OpKinds
  <2>2. step \in Nat
    BY <1>3, OpIs
  <2> QED BY <1>3, <2>1, <2>2 DEF Working, InWorker
<1> QED BY <1>1, <1>2, <1>3

LEMMA BootWell ==
  ASSUME NEW b \in {Hx8k, Icebreaker}
  PROVE /\ WellFormed(b, Boot(b)) /\ Boot(b) # <<>> /\ Plain(Head(Boot(b))) /\ ~LatencyCall(Head(Boot(b)))
        /\ Head(Boot(b)) \in CallSet /\ Len(Boot(b)) = 2 /\ QuadCall(b, Boot(b)[Len(Boot(b))])
<1>1. PICK p, q : /\ Boot(b) = <<p, q>> /\ p \in CallSet /\ Plain(p) /\ ~LatencyCall(p)
                  /\ q \in CallSet /\ QuadCall(b, q) /\ ~LatencyCall(q) /\ q.act = "flashio"
  <2>1. CASE b = Hx8k
    <3>1. PICK p, q : p = ReadRegister(QuadRegister) /\ q = WriteRegister(QuadRegister, 2)
      OBVIOUS
    <3>2. p \in CallSet /\ Plain(p) /\ ~LatencyCall(p)
      BY <3>1, ReadCalls, CodesDiffer
    <3>3. q \in CallSet /\ QuadCall(b, q) /\ ~LatencyCall(q) /\ q.act = "flashio"
      BY <2>1, <3>1, WriteCalls
    <3>4. Boot(b) = <<p, q>>
      BY <2>1, <3>1 DEF Boot, set_flash_qspi_flag
    <3> QED BY <3>2, <3>3, <3>4
  <2>2. CASE b = Icebreaker
    <3>1. PICK p, q : p = ReadStatus(53) /\ q = Send(<<WriteStatus2, 2>>, 80)
      OBVIOUS
    <3>2. p \in CallSet /\ Plain(p) /\ ~LatencyCall(p)
      BY <3>1, ReadCalls
    <3>3. q \in CallSet /\ QuadCall(b, q) /\ ~LatencyCall(q) /\ q.act = "flashio"
      BY <2>2, <3>1, WriteCalls
    <3>4. Boot(b) = <<p, q>>
      BY <2>2, <3>1, BoardNames DEF Boot, set_flash_qspi_flag
    <3> QED BY <3>2, <3>3, <3>4
  <2> QED BY <2>1, <2>2
<1>2. PICK s : s = <<p, q>>
  OBVIOUS
<1>3. s \in Seq(CallSet) /\ Len(s) = 2 /\ s[1] = p /\ s[2] = q /\ s # <<>> /\ Head(s) = p
  BY <1>1, <1>2
<1>4. CallOk(b, p) /\ ~NewLatency(b, p) /\ ~NewLatency(b, q) /\ Follows(b, p, q)
  BY <1>1 DEF CallOk, NewLatency, Follows, Plain
<1>5. WellFormed(b, s)
  <2>1. \A k \in 1..2 : CallOk(b, s[k]) \/ (k = 2 /\ k <= 2 /\ QuadCall(b, s[k]))
    BY <1>1, <1>3, <1>4
  <2>2. \A k \in 1..1 : Follows(b, s[k], s[k + 1])
    BY <1>3, <1>4
  <2> QED BY <1>3, <1>4, <2>1, <2>2 DEF WellFormed
<1> QED BY <1>1, <1>2, <1>3, <1>5

LEMMA WritesLength ==
  ASSUME NEW b, NEW c \in CallSet, CallOk(b, c) \/ QuadCall(b, c)
  PROVE Len(Writes(c)) \in Nat \ {0} /\ (c.act = "flashio" => Len(Writes(c)) >= 4)
<1>1. CASE c.act = "flashio"
  <2>1. c.data \in Seq(Nat) /\ Len(c.data) \in Nat \ {0} /\ c.wrencmd \in Nat
    BY <1>1, DataLength
  <2>2. PICK s : s = flashio(c.data, c.wrencmd) /\ Len(s) = Before(c.wrencmd) + Len(c.data) + 1
    BY <2>1, WorkerWrites
  <2>3. Len(Writes(c)) = Before(c.wrencmd) + Len(c.data) + 1
    BY <1>1, <2>2 DEF Writes
  <2>4. Before(c.wrencmd) \in {2, 4}
    BY DEF Before
  <2> QED BY <2>1, <2>3, <2>4
<1>2. CASE c.act # "flashio"
  <2>1. PICK s : s = <<c>>
    OBVIOUS
  <2>2. Len(s) = 1
    BY <2>1
  <2>3. Writes(c) = s
    BY <1>2, <2>1 DEF Writes
  <2> QED BY <1>2, <2>2, <2>3
<1> QED BY <1>1, <1>2

(* The register after a write.                                                *)
LEMMA WrittenIs ==
  ASSUME config \in ConfigSet, NEW op
  PROVE LET w == Written(op) IN
        /\ op.act = "set" =>
             /\ w.en /\ (w.ddr <=> "ddr" \in op.bits) /\ (w.qspi <=> "qspi" \in op.bits) /\ (w.cont <=> "cont" \in op.bits)
             /\ ~w.csb /\ w.dummy = (IF op.dummy = Keep THEN config.dummy ELSE op.dummy)
             /\ (op.dummy = Keep \/ op.dummy \in 0..8) => w \in ConfigSet
        /\ op.act = "crm" =>
             /\ w \in ConfigSet /\ w.en = config.en /\ w.ddr = config.ddr /\ w.qspi = config.qspi /\ w.cont = TRUE
             /\ w.csb = FALSE /\ w.dummy = config.dummy
        /\ op.act = "toggle" =>
             /\ w \in ConfigSet /\ w.en = config.en /\ w.ddr = config.ddr /\ w.qspi = config.qspi /\ w.cont = ~config.cont
             /\ w.csb = FALSE /\ w.dummy = config.dummy
        /\ op.act \in {"enter", "release", "manual", "byte", "memio"} =>
             /\ w \in ConfigSet /\ w.ddr = config.ddr /\ w.qspi = config.qspi /\ w.cont = config.cont /\ w.dummy = config.dummy
             /\ w.en = (IF op.act = "manual" THEN FALSE ELSE IF op.act = "memio" THEN TRUE ELSE config.en)
             /\ w.csb = (IF op.act \in {"enter", "release"} THEN TRUE ELSE IF op.act = "byte" THEN FALSE ELSE config.csb)
<1>1. CASE op.act = "set"
  <2>1. Written(op) =
          [en |-> TRUE, ddr |-> "ddr" \in op.bits, qspi |-> "qspi" \in op.bits, cont |-> "cont" \in op.bits,
           dummy |-> IF op.dummy = Keep THEN config.dummy ELSE op.dummy, csb |-> FALSE]
    BY <1>1 DEF Written
  <2>2. config.dummy \in 0..8
    BY DEF ConfigSet
  <2>3. (op.dummy = Keep \/ op.dummy \in 0..8) => Written(op) \in ConfigSet
    BY <2>1, <2>2 DEF ConfigSet
  <2>4. PICK w : w = Written(op)
    OBVIOUS
  <2>5. w.en = TRUE /\ w.csb = FALSE /\ w.dummy = (IF op.dummy = Keep THEN config.dummy ELSE op.dummy)
    BY <2>1, <2>4
  <2>6. w.ddr = ("ddr" \in op.bits)
    BY <2>1, <2>4
  <2>7. w.qspi = ("qspi" \in op.bits)
    BY <2>1, <2>4
  <2>8. w.cont = ("cont" \in op.bits)
    BY <2>1, <2>4
  <2>9. (w.ddr <=> "ddr" \in op.bits) /\ (w.qspi <=> "qspi" \in op.bits) /\ (w.cont <=> "cont" \in op.bits)
    BY ONLY <2>6, <2>7, <2>8, Zenon
  <2>10. w.en /\ ~w.csb
    BY ONLY <2>5, Zenon
  <2>11. op.act \notin {"crm", "toggle", "enter", "release", "manual", "byte", "memio"}
    BY <1>1
  <2> QED BY ONLY <2>3, <2>4, <2>5, <2>9, <2>10, <2>11, Zenon
<1>2. CASE op.act = "crm"
  BY <1>2 DEF Written, ConfigSet
<1>3. CASE op.act = "toggle"
  BY <1>3 DEF Written, ConfigSet
<1>4. CASE op.act \in {"enter", "release"}
  <2>1. Written(op) = [config EXCEPT !.csb = TRUE]
    BY <1>4 DEF Written
  <2> QED BY <1>4, <2>1 DEF ConfigSet
<1>5. CASE op.act = "manual"
  <2>1. Written(op) = [config EXCEPT !.en = FALSE]
    BY <1>5 DEF Written
  <2> QED BY <1>5, <2>1 DEF ConfigSet
<1>6. CASE op.act = "byte"
  <2>1. Written(op) = [config EXCEPT !.csb = FALSE]
    BY <1>6 DEF Written
  <2> QED BY <1>6, <2>1 DEF ConfigSet
<1>7. CASE op.act = "memio"
  <2>1. Written(op) = [config EXCEPT !.en = TRUE]
    BY <1>7 DEF Written
  <2> QED BY <1>7, <2>1 DEF ConfigSet
<1> QED BY <1>1, <1>2, <1>3, <1>4, <1>5, <1>6, <1>7

(* One edge, as the bus and the register see it.                              *)
LEMMA BusEdge ==
  ASSUME ProgramInv, NEW done, ClockEdge(done)
  PROVE /\ board' = board /\ RamEdge /\ Core
        /\ req.kind = "config" =>
             /\ config' = Written(Op) /\ softreset' = TRUE
             /\ calls # <<>> /\ req' = [req EXCEPT !.kind = "none"] /\ fetched' = FALSE
             /\ IF step < Len(Writes(Head(calls))) THEN step' = step + 1 /\ calls' = calls
                ELSE step' = 1 /\ calls' = Tail(calls)
        /\ req.kind # "config" => config' = config /\ softreset' = ~config.en
<1>1. board' = board /\ RamEdge /\ Core
  BY DEF ClockEdge
<1>2. ASSUME req.kind = "config"
      PROVE config' = Written(Op) /\ softreset' = TRUE
  BY <1>2 DEF ClockEdge, Edge, cfgreg_sel
<1>3. ASSUME req.kind = "config"
      PROVE /\ calls # <<>> /\ req' = [req EXCEPT !.kind = "none"] /\ fetched' = FALSE
            /\ IF step < Len(Writes(Head(calls))) THEN step' = step + 1 /\ calls' = calls
               ELSE step' = 1 /\ calls' = Tail(calls)
  <2>1. calls # <<>>
    BY <1>3 DEF ProgramInv, BusOk
  <2>2. ~ram_ready /\ ~spimem_ready /\ mem_ready
    BY <1>3 DEF ProgramInv, BusOk, mem_ready, cfgreg_sel, spimem_ready, spimem_valid, ready
  <2>3. Finish
    BY <1>1, <1>3, <2>2 DEF Core, FinishOn
  <2> QED BY <2>1, <2>3, <1>3 DEF Finish, cfgreg_sel
<1>4. ASSUME req.kind # "config" PROVE config' = config /\ softreset' = ~config.en
  <2>1. config' = config /\ softreset' = (~config.en \/ cfgreg_sel)
    BY <1>4 DEF ClockEdge, Edge, cfgreg_sel
  <2>2. ~cfgreg_sel /\ config.en \in BOOLEAN
    BY <1>4 DEF cfgreg_sel, ProgramInv, RegisterOk, ConfigSet
  <2> QED BY <2>1, <2>2
<1> QED BY <1>1, <1>2, <1>3, <1>4

(* The next call of a command.                                                *)
LEMMA NextCall ==
  ASSUME ProgramOk, calls # <<>>, board' = board, calls' = Tail(calls), step' = 1,
         NewLatency(board, Head(calls)) => ModeOff' /\ config'.dummy = Head(calls).dummy,
         Plain(Head(calls)) /\ ModeOff => ModeOff'
  PROVE ProgramOk'
<1>1. PICK b, s, r, c : b = board /\ s = calls /\ r = Tail(calls) /\ c = Head(calls)
  OBVIOUS
<1>2. WellFormed(b, s) /\ s # <<>> /\ r = Tail(s) /\ c = Head(s)
  BY <1>1 DEF ProgramOk
<1>3. /\ WellFormed(b, r) /\ c \in CallSet
      /\ CallOk(b, c) \/ QuadCall(b, c)
      /\ r # <<>> => Follows(b, c, Head(r)) /\ SameLast(r, s)
      /\ ~CallOk(b, c) => r = <<>>
  BY <1>2, TailWell
<1>4. calls' = r /\ board' = b
  BY <1>1
<1>5. r # <<>> => Len(Writes(Head(r))) \in Nat \ {0}
  <2>1. ASSUME r # <<>> PROVE Len(Writes(Head(r))) \in Nat \ {0}
    <3>1. PICK e : e = Head(r)
      OBVIOUS
    <3>2. e \in CallSet /\ (CallOk(b, e) \/ QuadCall(b, e))
      BY <1>3, <2>1, <3>1, TailWell
    <3> QED BY <3>1, <3>2, WritesLength
  <2> QED BY <2>1
<1>6. IF r = <<>> THEN step' = 1 ELSE step' \in 1..Len(Writes(Head(r)))
  BY <1>5
<1>7. r # <<>> /\ LatencyCall(Head(r)) => ModeOff' /\ config'.dummy = Head(r).data[5]
  BY <1>1, <1>3 DEF Follows
<1>9. r # <<>> /\ QuadCall(b, r[Len(r)]) => ModeOff'
  <2>1. ASSUME r # <<>>, QuadCall(b, r[Len(r)]) PROVE ModeOff'
    <3>1. PICK q : q = s[Len(s)] /\ q = r[Len(r)]
      BY <1>3, <2>1 DEF SameLast
    <3>2. Len(s) \in Nat \ {0} /\ s \in Seq(CallSet) /\ Len(r) = Len(s) - 1 /\ r \in Seq(CallSet)
      BY <1>2 DEF WellFormed
    <3>3. ~CallOk(b, q)
      BY <2>1, <3>1, NotQuad
    <3>4. Len(s) <= 2
      <4>1. Len(s) \in 1..Len(s)
        BY <3>2
      <4>2. CallOk(b, s[Len(s)]) \/ (Len(s) = Len(s) /\ Len(s) <= 2 /\ QuadCall(b, s[Len(s)]))
        BY <1>2, <4>1 DEF WellFormed
      <4> QED BY <3>1, <3>3, <4>2
    <3>5. Len(r) = 1
      BY <2>1, <3>2, <3>4
    <3>6. Head(r) = q
      <4>1. q = r[1]
        <5>1. q = r[Len(r)]
          BY <3>1
        <5> QED BY ONLY <5>1, <3>5, Zenon
      <4>2. Head(r) = r[1]
        OBVIOUS
      <4> QED BY ONLY <4>1, <4>2
    <3>7. Plain(c)
      BY <1>3, <2>1, <3>1, <3>6 DEF Follows
    <3>8. Booting
      BY <1>1, <2>1, <3>1, <1>2 DEF Booting
    <3> QED BY <1>1, <3>7, <3>8 DEF ProgramOk
  <2> QED BY <2>1
<1>10. board' \in Boards
  BY DEF ProgramOk
<1>11. Booting' => ModeOff'
  BY <1>4, <1>9 DEF Booting
<1> QED BY <1>3, <1>4, <1>6, <1>7, <1>10, <1>11 DEF ProgramOk

(* A write of the register by main itself.                                    *)
LEMMA PlainWrite ==
  ASSUME ProgramInv, calls # <<>>, Head(calls).act # "flashio",
         board' = board, config' = Written(Op), softreset' = TRUE, config'.cont => config'.qspi \/ config'.ddr,
         IF step < Len(Writes(Head(calls))) THEN step' = step + 1 /\ calls' = calls
         ELSE step' = 1 /\ calls' = Tail(calls)
  PROVE ProgramOk' /\ RegisterOk' /\ calls' = Tail(calls) /\ step' = 1 /\ ~Working'
<1>1. PICK b, c : b = board /\ c = Head(calls)
  OBVIOUS
<1>2. ProgramOk /\ RegisterOk
  BY DEF ProgramInv
<1>3. c \in CallSet /\ Op = c /\ Len(Writes(c)) = 1 /\ step = 1 /\ c.act \in {"set", "crm", "toggle"}
  BY <1>1, <1>2, OpIs
<1>4. step' = 1 /\ calls' = Tail(calls)
  <2>1. PICK m : m = Len(Writes(Head(calls)))
    OBVIOUS
  <2>2. m = 1
    BY <1>1, <1>3, <2>1
  <2>3. ~(step < m)
    BY <1>3, <2>2
  <2> QED BY <2>1, <2>3
<1>5. CallOk(b, c)
  <2>1. CallOk(b, c) \/ QuadCall(b, c)
    BY <1>1, <1>2, TailWell DEF ProgramOk
  <2> QED BY <1>3, <2>1 DEF QuadCall
<1>6. ~Working /\ config.en = TRUE /\ config \in ConfigSet
  BY <1>1, <1>2, <1>3 DEF Working, RegisterOk, ConfigSet
<1>8. c.act = "set" => SetOk(b, c) /\ c.bits \in SUBSET {"ddr", "qspi", "cont"} /\ c.dummy \in Int
  BY <1>3, <1>5 DEF CallOk, Plain, LatencyCall, CallSet
<1>9. b \in {Hx8k, Icebreaker}
  BY <1>1, <1>2, BoardNames DEF ProgramOk
<1>10. c.act = "set" => (c.dummy = Keep \/ c.dummy \in 0..8) /\ (NewLatency(b, c) => c.bits = {})
  BY <1>8, <1>9 DEF SetOk, NewLatency
<1>11. PICK w : w = config' /\ w = Written(c)
  BY <1>3
<1>12. CASE c.act = "set"
  <2>1. /\ w.en /\ (w.ddr <=> "ddr" \in c.bits) /\ (w.qspi <=> "qspi" \in c.bits) /\ (w.cont <=> "cont" \in c.bits)
        /\ ~w.csb /\ w.dummy = (IF c.dummy = Keep THEN config.dummy ELSE c.dummy)
        /\ w \in ConfigSet
    BY <1>6, <1>10, <1>11, <1>12, WrittenIs
  <2>2. NewLatency(b, c) => ModeOff' /\ config'.dummy = c.dummy
    BY <1>10, <1>11, <2>1 DEF NewLatency, ModeOff
  <2>3. ~Plain(c)
    BY <1>12 DEF Plain
  <2>5. ProgramOk'
    BY <1>1, <1>2, <1>4, <2>2, <2>3, NextCall
  <2>6. ~Working'
    BY <1>4 DEF Working
  <2>7. config' \in ConfigSet /\ config'.en
    BY <1>11, <2>1
  <2>8. RegisterOk'
    BY <2>6, <2>7 DEF RegisterOk
  <2> QED BY <1>4, <2>5, <2>6, <2>8
<1>13. CASE c.act \in {"crm", "toggle"}
  <2>1. w \in ConfigSet /\ w.en = TRUE
    BY <1>6, <1>11, <1>13, WrittenIs
  <2>2. ~NewLatency(b, c) /\ ~Plain(c)
    BY <1>13 DEF NewLatency, Plain
  <2>5. ProgramOk'
    BY <1>1, <1>2, <1>4, <1>13, <2>2, NextCall
  <2>6. ~Working'
    BY <1>4 DEF Working
  <2>7. config' \in ConfigSet /\ config'.en = TRUE
    BY <1>11, <2>1
  <2>8. RegisterOk'
    BY <2>6, <2>7 DEF RegisterOk
  <2> QED BY <1>4, <2>5, <2>6, <2>8
<1> QED BY <1>3, <1>12, <1>13

(* A write by flashio: at the first the pins are still the controller's, at   *)
(* the last they are again.                                                   *)
LEMMA WorkerWrite ==
  ASSUME ProgramInv, calls # <<>>, Head(calls).act = "flashio", config.cont => config.qspi,
         board' = board, config' = Written(Op), softreset' = TRUE,
         IF step < Len(Writes(Head(calls))) THEN step' = step + 1 /\ calls' = calls
         ELSE step' = 1 /\ calls' = Tail(calls)
  PROVE /\ ProgramOk' /\ RegisterOk'
        /\ config'.ddr = config.ddr /\ config'.qspi = config.qspi /\ config'.cont = config.cont /\ config'.dummy = config.dummy
        /\ config'.en = (IF Op.act = "manual" THEN FALSE ELSE IF Op.act = "memio" THEN TRUE ELSE config.en)
        /\ config'.csb = (IF Op.act \in {"enter", "release"} THEN TRUE ELSE IF Op.act = "byte" THEN FALSE ELSE config.csb)
        /\ IF Op.act = "memio" THEN step' = 1 /\ calls' = Tail(calls) ELSE step' = step + 1 /\ calls' = calls
<1>1. ProgramOk /\ RegisterOk /\ config \in ConfigSet
  BY DEF ProgramInv, RegisterOk
<1>2. /\ Last \in Nat /\ step \in 1..Last /\ Len(Writes(Head(calls))) = Last /\ Last >= 4
      /\ Len(Data) \in Nat \ {0} /\ Wren \in Nat /\ (Wren # 0 => Last >= 6)
  BY <1>1, OpIs, OpKinds DEF Last, Before
<1>3. /\ \/ step = 1 /\ Op.act = "enter"
         \/ step = 2 /\ Op.act = "manual"
         \/ step = 3 /\ Wren # 0 /\ Op.act = "byte"
         \/ step = 4 /\ Wren # 0 /\ Op.act = "release"
         \/ step >= 3 /\ step = Sent + Before(Wren) + 1 /\ Sent \in 0..(Len(Data) - 1) /\ Op.act = "byte"
         \/ step = Last /\ Op.act = "memio" /\ Sent = Len(Data)
      /\ Sent \in Int /\ (step < Last <=> Sent < Len(Data)) /\ (step = Last <=> Sent = Len(Data))
  BY <1>1, OpKinds
<1>4. Op.act \in {"enter", "release", "manual", "byte", "memio"}
  BY <1>3
<1>5. /\ config' \in ConfigSet
      /\ config'.ddr = config.ddr /\ config'.qspi = config.qspi /\ config'.cont = config.cont /\ config'.dummy = config.dummy
      /\ config'.en = (IF Op.act = "manual" THEN FALSE ELSE IF Op.act = "memio" THEN TRUE ELSE config.en)
      /\ config'.csb = (IF Op.act \in {"enter", "release"} THEN TRUE ELSE IF Op.act = "byte" THEN FALSE ELSE config.csb)
  BY <1>1, <1>4, WrittenIs
<1>6. Wren # 0 => Before(Wren) = 4
  BY DEF Before
<1>7. Before(Wren) \in {2, 4}
  BY DEF Before
<1>8. Op.act = "memio" <=> step = Last
  BY <1>2, <1>3, <1>6
<1>9. IF Op.act = "memio" THEN step' = 1 /\ calls' = Tail(calls) ELSE step' = step + 1 /\ calls' = calls
  BY <1>2, <1>8
<1>10. (config'.cont => config'.qspi \/ config'.ddr) /\ (config'.cont => config'.qspi)
  BY <1>5
<1>11. CASE Op.act = "memio"
  <2>1. ~NewLatency(board, Head(calls)) /\ (ModeOff => ModeOff')
    BY <1>5 DEF NewLatency, ModeOff
  <2>3. ProgramOk'
    BY <1>1, <1>9, <1>11, <2>1, NextCall
  <2>4. ~Working'
    BY <1>9, <1>11 DEF Working
  <2>5. RegisterOk'
    BY <1>5, <1>10, <1>11, <2>4 DEF RegisterOk
  <2> QED BY <1>5, <1>9, <2>3, <2>5
<1>12. CASE Op.act # "memio"
  <2>1. step' = step + 1 /\ calls' = calls /\ step' \in 1..Last /\ step' >= 2
    BY <1>2, <1>3, <1>8, <1>9, <1>12
  <2>2. ModeOff' <=> ModeOff
    BY <1>5 DEF ModeOff
  <2>3. ProgramOk'
    <3>1. step' \in 1..Len(Writes(Head(calls')))
      BY <1>2, <2>1
    <3>2. Booting' => ModeOff'
      BY <1>1, <2>1, <2>2 DEF ProgramOk, Booting
    <3>3. LatencyCall(Head(calls')) => ModeOff' /\ config'.dummy = Head(calls').data[5]
      BY <1>1, <1>5, <2>1, <2>2 DEF ProgramOk
    <3> QED BY <1>1, <2>1, <3>1, <3>2, <3>3 DEF ProgramOk
  <2>4. Working' /\ (Working <=> step >= 2) /\ Head(calls') = Head(calls) /\ (Wren # 0 <=> Head(calls).wrencmd # 0)
    BY <2>1 DEF Working, Wren
  <2>5. config.en <=> ~(step >= 3)
    BY <1>1, <1>2, <2>4 DEF RegisterOk
  <2>6. config'.en <=> ~(step' >= 3)
    BY <1>2, <1>3, <1>5, <1>12, <2>1, <2>5
  <2>7. step' = 2 => config'.csb
    BY <1>2, <1>3, <1>5, <2>1
  <2>8. step = 2 => config.csb
    BY <1>1, <2>4 DEF RegisterOk
  <2>9. ~config'.en => (config'.csb <=> step' = 3 \/ (step' = 5 /\ Wren # 0))
    <3>1. CASE step = 1
      BY <2>1, <2>6, <3>1
    <3>2. CASE step = 2 /\ Op.act = "manual"
      BY <1>5, <2>1, <2>8, <3>2
    <3>3. CASE step = 3 /\ Wren # 0 /\ Op.act = "byte"
      BY <1>5, <2>1, <3>3
    <3>4. CASE step = 4 /\ Wren # 0 /\ Op.act = "release"
      BY <1>5, <2>1, <3>4
    <3>5. CASE step >= 3 /\ step = Sent + Before(Wren) + 1 /\ Sent \in 0..(Len(Data) - 1) /\ Op.act = "byte"
      BY <1>5, <1>6, <2>1, <3>5
    <3> QED BY <1>3, <1>12, <3>1, <3>2, <3>3, <3>4, <3>5
  <2>10. RegisterOk'
    BY <1>5, <1>10, <2>4, <2>6, <2>7, <2>9 DEF RegisterOk
  <2> QED BY <1>5, <1>9, <2>3, <2>10
<1> QED BY <1>11, <1>12

LEMMA ProgramStays ==
  ASSUME ProgramInv, board' = board, config' = config, softreset' = ~config.en, calls' = calls, step' = step
  PROVE ProgramOk' /\ RegisterOk' /\ (Working' <=> Working)
<1>1. ProgramOk'
  BY DEF ProgramInv, ProgramOk, Booting, ModeOff
<1>2. Working' <=> Working
  BY DEF Working
<1>3. (Working' /\ step' >= 3 <=> Working /\ step >= 3) /\ (Working' /\ step' = 2 <=> Working /\ step = 2)
      /\ (step' = 3 <=> step = 3) /\ (step' = 5 /\ Head(calls').wrencmd # 0 <=> step = 5 /\ Head(calls).wrencmd # 0)
  BY <1>2
<1>4. config.en \in BOOLEAN
  BY DEF ProgramInv, RegisterOk, ConfigSet
<1>5. RegisterOk'
  BY <1>2, <1>3, <1>4 DEF ProgramInv, RegisterOk
<1> QED BY <1>1, <1>2, <1>5

LEMMA ProgramKey ==
  ASSUME ProgramInv, NEW key \in UsedKeys, board' = board, config' = config,
         softreset' = ~config.en, calls = <<>>, calls' = Command(board, key), step' = step
  PROVE ProgramOk' /\ RegisterOk' /\ ~Working' /\ ~Working
<1>1. PICK b, r : b = board /\ r = Command(board, key)
  OBVIOUS
<1>2. b \in {Hx8k, Icebreaker} /\ key \in Keys
  BY <1>1, BoardNames, SocAssumption DEF ProgramInv, ProgramOk
<1>3. Whole(b, r) \/ r = <<Toggle>>
  BY <1>1, <1>2, Commands
<1>4. step' = 1 /\ step = 1 /\ calls' = r /\ board' = b
  BY <1>1 DEF ProgramInv, ProgramOk
<1>5. ~Working /\ ~Working'
  BY <1>4 DEF Working
<1>6. RegisterOk'
  BY <1>5 DEF ProgramInv, RegisterOk
<1>8. CASE Linked(b, r) /\ ~LatencyCall(r[1])
  <2>1. WellFormed(b, r) /\ r # <<>> /\ r \in Seq(CallSet) /\ Len(r) \in Nat \ {0} /\ Head(r) = r[1]
    BY <1>8, LinkedWell DEF Linked
  <2>2. \A k \in 1..Len(r) : CallOk(b, r[k])
    BY <1>8 DEF Linked
  <2>3. 1 \in 1..Len(r) /\ Len(r) \in 1..Len(r)
    BY <2>1
  <2>4. CallOk(b, r[1]) /\ ~QuadCall(b, r[Len(r)])
    BY <2>2, <2>3, NotQuad
  <2>5. r[1] \in CallSet
    BY <2>1, <2>3
  <2>6. Len(Writes(Head(r))) \in Nat \ {0}
    <3>1. PICK c : c = r[1]
      OBVIOUS
    <3>2. Len(Writes(c)) \in Nat \ {0}
      BY <3>1, <2>4, <2>5, WritesLength
    <3> QED BY <3>1, <3>2, <2>1
  <2>7. step' \in 1..Len(Writes(Head(r)))
    BY <1>4, <2>6
  <2>8. ~Booting'
    BY <1>4, <2>4 DEF Booting
  <2>9. LatencyCall(Head(r)) => ModeOff' /\ config'.dummy = Head(r).data[5]
    BY <1>8, <2>1
  <2>10. board' \in Boards
    BY DEF ProgramInv, ProgramOk
  <2>11. ProgramOk'
    BY <1>4, <2>1, <2>7, <2>8, <2>9, <2>10 DEF ProgramOk
  <2> QED BY <1>5, <1>6, <2>11
<1>9. CASE Whole(b, r)
  <2>1. Linked(b, r) /\ Opens(r[1])
    BY <1>9 DEF Whole
  <2> QED BY <1>8, <2>1 DEF Opens
<1>10. CASE r = <<Toggle>>
  <2>1. Toggle \in CallSet /\ Toggle.act = "toggle" /\ ~LatencyCall(Toggle)
    BY OtherCalls
  <2>2. CallOk(b, Toggle) /\ ~NewLatency(b, Toggle)
    BY <2>1 DEF CallOk, NewLatency
  <2>3. Linked(b, r) /\ r[1] = Toggle
    BY <1>10, <2>1, <2>2, LinkedOne
  <2> QED BY <1>8, <2>1, <2>3
<1> QED BY <1>3, <1>9, <1>10

LEMMA ProgramNext ==
  ASSUME ProgramInv, NEW done, ClockEdge(done), ~Losing
  PROVE ProgramInv'
<1>1. /\ board' = board /\ RamEdge /\ Core
      /\ req.kind = "config" =>
           /\ config' = Written(Op) /\ softreset' = TRUE
           /\ calls # <<>> /\ req' = [req EXCEPT !.kind = "none"] /\ fetched' = FALSE
           /\ IF step < Len(Writes(Head(calls))) THEN step' = step + 1 /\ calls' = calls
              ELSE step' = 1 /\ calls' = Tail(calls)
      /\ req.kind # "config" => config' = config /\ softreset' = ~config.en
  BY BusEdge
<1>2. /\ req \in ReqSet /\ ram_ready \in BOOLEAN /\ fetched \in BOOLEAN
      /\ ram_ready => req.kind = "ram"
      /\ req.kind = "config" => calls # <<>> /\ (Working \/ fetched)
      /\ Working => req.kind # "flash"
  BY DEF ProgramInv, BusOk
<1>3. ram_ready' \in BOOLEAN /\ (ram_ready' => req.kind = "ram" /\ ~mem_ready)
  BY <1>1 DEF RamEdge
<1>4. CASE req.kind = "config"
  <2>0. (config'.cont => config'.qspi \/ config'.ddr) /\ (config.cont => config.qspi)
    BY <1>4 DEF Losing, cfgreg_sel
  <2>1. ProgramOk' /\ RegisterOk'
    <3>1. CASE Head(calls).act = "flashio"
      BY <1>1, <1>4, <2>0, <3>1, WorkerWrite
    <3>2. CASE Head(calls).act # "flashio"
      BY <1>1, <1>4, <2>0, <3>2, PlainWrite
    <3> QED BY <3>1, <3>2
  <2>2. req' \in ReqSet /\ req'.kind = "none" /\ fetched' = FALSE /\ ~ram_ready'
    BY <1>1, <1>2, <1>3, <1>4 DEF ReqSet
  <2>3. BusOk'
    BY <1>3, <2>2 DEF BusOk
  <2> QED BY <2>1, <2>3 DEF ProgramInv
<1>5. CASE req.kind # "config"
  <2>1. config' = config /\ softreset' = ~config.en
    BY <1>1, <1>5
  <2>2. CASE req.kind = "none" /\ \E key \in UsedKeys : Key(key)
    <3>1. PICK key \in UsedKeys : Key(key)
      BY <2>2
    <3>2. calls = <<>> /\ fetched /\ calls' = Command(board, key) /\ req' = req /\ step' = step /\ fetched' = fetched
      BY <3>1 DEF Key
    <3>3. ProgramOk' /\ RegisterOk' /\ ~Working' /\ ~Working
      BY <1>1, <2>1, <3>2, ProgramKey
    <3>4. BusOk'
      BY <1>2, <1>3, <2>2, <3>2, <3>3 DEF BusOk
    <3> QED BY <3>3, <3>4 DEF ProgramInv
  <2>3. CASE calls' = calls /\ step' = step
    <3>1. ProgramOk' /\ RegisterOk' /\ (Working' <=> Working)
      BY <1>1, <2>1, <2>3, ProgramStays
    <3>2. CASE req.kind = "none" /\ \E a \in Words4 : Fetch(a)
      <4>1. PICK a \in Words4 : Fetch(a)
        BY <3>2
      <4>2. ~Working /\ req' = [kind |-> "flash", addr |-> a] /\ fetched' = fetched
        BY <4>1, WorkingIs DEF Fetch, program, ProgramInv
      <4>3. a \in 0..(Space - 1)
        BY SocAssumption
      <4>4. req' \in ReqSet /\ req'.kind = "flash"
        BY <4>2, <4>3 DEF ReqSet
      <4>5. BusOk'
        BY <1>2, <1>3, <3>1, <3>2, <4>2, <4>4 DEF BusOk
      <4> QED BY <3>1, <4>5 DEF ProgramInv
    <3>3. CASE req.kind = "none" /\ UseRam
      <4>1. req' = [req EXCEPT !.kind = "ram"] /\ fetched' = fetched
        BY <3>3 DEF UseRam, program
      <4>2. req' \in ReqSet /\ req'.kind = "ram"
        BY <1>2, <4>1 DEF ReqSet
      <4>3. BusOk'
        BY <1>2, <1>3, <3>1, <4>1, <4>2 DEF BusOk
      <4> QED BY <3>1, <4>3 DEF ProgramInv
    <3>4. CASE req.kind = "none" /\ WriteConfig
      <4>1. calls # <<>> /\ (Working \/ fetched) /\ req' = [req EXCEPT !.kind = "config"] /\ fetched' = fetched
        BY <3>4, WorkingIs DEF WriteConfig, program, ProgramInv
      <4>2. req' \in ReqSet /\ req'.kind = "config"
        BY <1>2, <4>1 DEF ReqSet
      <4>3. BusOk'
        BY <1>2, <1>3, <2>3, <3>1, <3>4, <4>1, <4>2 DEF BusOk
      <4> QED BY <3>1, <4>3 DEF ProgramInv
    <3>5. CASE mem_ready /\ Finish
      <4>1. req' = [req EXCEPT !.kind = "none"] /\ fetched' = (fetched \/ spimem_valid)
        BY <1>5, <3>5 DEF Finish, cfgreg_sel
      <4>2. req' \in ReqSet /\ req'.kind = "none" /\ fetched' \in BOOLEAN
        BY <1>2, <4>1 DEF ReqSet, spimem_valid
      <4>3. BusOk'
        BY <1>3, <3>5, <4>2 DEF BusOk
      <4> QED BY <3>1, <4>3 DEF ProgramInv
    <3>8. CASE mem_ready /\ FinishOn
      <4>1. /\ \/ req.kind = "flash" /\ req.addr + 4 \in Words4 /\ req' = [req EXCEPT !.addr = @ + 4]
               \/ req.kind = "ram" /\ req' = req
            /\ fetched' = (fetched \/ spimem_valid)
        BY <1>2, <3>8 DEF FinishOn, spimem_ready, spimem_valid, ready
      <4>2. Words4 \subseteq 0..(Space - 1)
        BY SocAssumption
      <4>3. req' \in ReqSet /\ req'.kind = req.kind /\ fetched' \in BOOLEAN
        BY <1>2, <4>1, <4>2 DEF ReqSet, spimem_valid
      <4>4. BusOk'
        BY <1>2, <1>3, <1>5, <3>1, <3>8, <4>1, <4>3 DEF BusOk
      <4> QED BY <3>1, <4>4 DEF ProgramInv
    <3>6. CASE ~mem_ready /\ UNCHANGED <<req, program>>
      <4>1. req' = req /\ fetched' = fetched
        BY <3>6 DEF program
      <4>2. BusOk'
        BY <1>2, <1>3, <2>3, <3>1, <4>1 DEF BusOk
      <4> QED BY <3>1, <4>2 DEF ProgramInv
    <3>7. CASE req.kind = "none" /\ \E key \in UsedKeys : Key(key)
      BY <2>2, <3>7
    <3> QED BY <1>1, <3>2, <3>3, <3>4, <3>5, <3>6, <3>7, <3>8 DEF Core
  <2>4. (calls' = calls /\ step' = step) \/ (req.kind = "none" /\ \E key \in UsedKeys : Key(key))
    <3>1. ASSUME mem_ready /\ Finish PROVE calls' = calls /\ step' = step
      BY <1>5, <3>1 DEF Finish, cfgreg_sel
    <3> QED BY <1>1, <3>1 DEF Core, Fetch, UseRam, WriteConfig, FinishOn, program
  <2> QED BY <2>2, <2>3, <2>4
<1> QED BY <1>4, <1>5

LEMMA ProgramInit == ASSUME Init PROVE ProgramInv
<1>1. PICK b : b = board
  OBVIOUS
<1>2. /\ b \in Boards /\ calls = Boot(b) /\ step = 1 /\ fetched = FALSE /\ ram_ready = FALSE
      /\ req = [kind |-> "none", addr |-> 0] /\ softreset = TRUE
      /\ config = [en |-> TRUE, ddr |-> FALSE, qspi |-> FALSE, cont |-> FALSE, dummy |-> 8, csb |-> FALSE]
  BY <1>1 DEF Init, Reset
<1>3. PICK r : r = Boot(b)
  OBVIOUS
<1>4. /\ WellFormed(b, r) /\ r # <<>> /\ Plain(Head(r)) /\ ~LatencyCall(Head(r)) /\ Head(r) \in CallSet
  BY <1>2, <1>3, BootWell, BoardNames
<1>5. Len(Writes(Head(r))) \in Nat \ {0}
  BY <1>4, WritesLength DEF CallOk
<1>6. config \in ConfigSet /\ ModeOff /\ config.en /\ ~config.cont
  BY <1>2 DEF ConfigSet, ModeOff
<1>7. ~Working
  BY <1>2 DEF Working
<1>8. ProgramOk
  BY <1>1, <1>2, <1>3, <1>4, <1>5, <1>6 DEF ProgramOk, Plain
<1>9. req \in ReqSet /\ req.kind = "none"
  <2>1. Space \in Nat \ {0}
    BY SpaceType
  <2> QED BY <1>2, <2>1 DEF ReqSet
<1>10. BusOk
  BY <1>2, <1>7, <1>9 DEF BusOk
<1>11. RegisterOk
  BY <1>2, <1>6, <1>7 DEF RegisterOk
<1> QED BY <1>8, <1>10, <1>11 DEF ProgramInv
=============================================================================
