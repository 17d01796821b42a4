---------------------------- MODULE SocFlashProof ----------------------------
(***************************************************************************)
(* Proofs about module SocFlash, for every board, size and speed of the    *)
(* flash, and all that can be typed: until the flash is lost to its         *)
(* controller the core is given the word it asked for, and the flash takes  *)
(* every byte as the firmware and the controller mean it.  What the slaves  *)
(* of the bus answer is shown without that condition.                      *)
(***************************************************************************)
EXTENDS SocFlashInv
-----------------------------------------------------------------------------
(* The controller: every edge keeps its registers.                         *)

(* The transfer unit after an edge, register by register.                     *)
LEMMA ReadByteType == ASSUME flash \in FlashSet PROVE ReadByte \in Int
BY JunkIs DEF ReadByte, ReadBack, FlashSet

LEMMA ResetFields ==
  ASSUME xfer \in XferSet, ~xfer_resetn, NEW done, Transfer(done)
  PROVE /\ xfer' \in XferSet /\ xfer'.csb = TRUE /\ xfer'.busy = FALSE /\ xfer'.fetch = TRUE /\ xfer'.last_fetch = TRUE
        /\ xfer'.tag = 0 /\ xfer'.lanes = 1 /\ xfer'.dummy = 0 /\ xfer'.data = 0 /\ (xfer'.ddr_q <=> xfer.lanes = 8)
<1>01. PICK x, z, m : x = xfer /\ z = 0 /\ m = 1 /\ z \in Nat /\ z \in 0..4 /\ m \in ModeSet
  BY DEF ModeSet
<1>02. PICK q : q = (xfer.lanes = 8)
  OBVIOUS
<1>03. q \in BOOLEAN
  BY <1>02
<1>1. /\ x = xfer /\ z = 0 /\ m = 1 /\ q = (xfer.lanes = 8) /\ z \in Nat /\ z \in 0..4 /\ m \in ModeSet /\ q \in BOOLEAN
  BY <1>01, <1>02, <1>03
<1>2. x \in XferSet
  BY <1>1
<1>3. x.tag \in 0..4
  BY <1>2 DEF XferSet
<1>4. xfer' = [x EXCEPT !.csb = TRUE, !.busy = FALSE, !.fetch = TRUE, !.last_fetch = TRUE,
                        !.tag = z, !.tag_q = x.tag, !.lanes = m, !.ddr_q = q, !.data = z, !.dummy = z]
  BY <1>1 DEF Transfer
<1>50. PICK y : y = [x EXCEPT !.csb = TRUE, !.busy = FALSE, !.fetch = TRUE, !.last_fetch = TRUE]
  OBVIOUS
<1>51. y \in XferSet
  BY ONLY <1>2, <1>50 DEF XferSet
<1>52. PICK w : w = [y EXCEPT !.tag = z, !.tag_q = x.tag, !.lanes = m]
  OBVIOUS
<1>53. w \in XferSet
  BY ONLY <1>1, <1>3, <1>51, <1>52 DEF XferSet
<1>54. PICK v : v = [w EXCEPT !.ddr_q = q, !.data = z, !.dummy = z]
  OBVIOUS
<1>55. v \in XferSet
  BY ONLY <1>1, <1>53, <1>54 DEF XferSet
<1>56. xfer' = v
  BY ONLY <1>4, <1>50, <1>52, <1>54, Zenon
<1>5. xfer' \in XferSet
  BY <1>55, <1>56
<1>6. /\ xfer'.csb = TRUE /\ xfer'.busy = FALSE /\ xfer'.fetch = TRUE /\ xfer'.last_fetch = TRUE
      /\ xfer'.tag = z /\ xfer'.lanes = m /\ xfer'.dummy = z /\ xfer'.data = z /\ xfer'.ddr_q = q
  BY ONLY <1>2, <1>4 DEF XferSet
<1> QED BY <1>1, <1>5, <1>6

LEMMA TransferIs ==
  ASSUME xfer_resetn, NEW done, Transfer(done)
  PROVE /\ xfer'.csb = (xfer.csb /\ ~din_ready(done))
        /\ xfer'.busy = (din_ready(done) \/ (xfer.busy /\ ~done))
        /\ xfer'.fetch = next_fetch(done)
        /\ xfer'.last_fetch = (IF xfer.lanes = 8 THEN xfer.fetch ELSE TRUE)
        /\ xfer'.tag = (IF din_ready(done) THEN din.tag ELSE xfer.tag)
        /\ xfer'.tag_q = xfer.tag
        /\ xfer'.lanes = (IF din_ready(done) THEN din.lanes ELSE xfer.lanes)
        /\ xfer'.ddr_q = (xfer.lanes = 8)
        /\ xfer'.data = (IF din_ready(done) THEN din.data ELSE xfer.data)
        /\ xfer'.dummy = (IF din_ready(done) THEN IF din.rd THEN din.data ELSE 0 ELSE xfer.dummy)
        /\ xfer'.ibuffer = (IF xfer.lanes = 8 /\ done THEN ReadByte ELSE Junk)
        /\ xfer \in XferSet /\ din \in DinSet /\ flash \in FlashSet /\ done \in BOOLEAN => xfer' \in XferSet
<1>1. PICK a, b, c, d, e, f, g, h, i, j, k :
        /\ a = (xfer.csb /\ ~din_ready(done)) /\ b = (din_ready(done) \/ (xfer.busy /\ ~done)) /\ c = next_fetch(done)
        /\ d = (IF xfer.lanes = 8 THEN xfer.fetch ELSE TRUE)
        /\ e = (IF din_ready(done) THEN din.tag ELSE xfer.tag)
        /\ f = xfer.tag
        /\ g = (IF din_ready(done) THEN din.lanes ELSE xfer.lanes)
        /\ h = (xfer.lanes = 8)
        /\ i = (IF din_ready(done) THEN din.data ELSE xfer.data)
        /\ j = (IF din_ready(done) THEN IF din.rd THEN din.data ELSE 0 ELSE xfer.dummy)
        /\ k = (IF xfer.lanes = 8 /\ done THEN ReadByte ELSE Junk)
  BY Zenon
<1>2. xfer' = [csb |-> a, busy |-> b, fetch |-> c, last_fetch |-> d, tag |-> e, tag_q |-> f, lanes |-> g,
               ddr_q |-> h, data |-> i, dummy |-> j, ibuffer |-> k]
  BY <1>1, Zenon DEF Transfer
<1>3. a \in BOOLEAN /\ b \in BOOLEAN /\ c \in BOOLEAN /\ h \in BOOLEAN
  BY <1>1 DEF din_ready, next_fetch
<1>8. /\ xfer'.csb = a /\ xfer'.busy = b /\ xfer'.fetch = c /\ xfer'.last_fetch = d /\ xfer'.tag = e /\ xfer'.tag_q = f
      /\ xfer'.lanes = g /\ xfer'.ddr_q = h /\ xfer'.data = i /\ xfer'.dummy = j /\ xfer'.ibuffer = k
  BY ONLY <1>2
<1>9. ASSUME xfer \in XferSet, din \in DinSet, flash \in FlashSet, done \in BOOLEAN
      PROVE xfer' \in XferSet
  <2>4. d \in BOOLEAN
    BY <1>1, <1>9 DEF XferSet
  <2>5. e \in 0..4 /\ f \in 0..4 /\ g \in ModeSet
    BY <1>1, <1>9 DEF XferSet, DinSet
  <2>6. i \in Nat /\ j \in Nat
    BY <1>1, <1>9 DEF XferSet, DinSet
  <2>7. k \in Int
    BY <1>1, <1>9, ReadByteType, JunkIs
  <2> QED BY ONLY <1>2, <1>3, <2>4, <2>5, <2>6, <2>7 DEF XferSet
<1> QED BY ONLY <1>1, <1>8, <1>9, Zenon

(* A byte is taken, or none is.                                               *)
LEMMA TakeFields ==
  ASSUME xfer \in XferSet, xfer_resetn, NEW done \in BOOLEAN, Transfer(done), din_ready(done), xfer.busy => done
  PROVE /\ ~xfer'.csb /\ xfer'.busy /\ xfer'.fetch
        /\ xfer'.tag = din.tag /\ xfer'.lanes = din.lanes /\ xfer'.data = din.data
        /\ xfer'.dummy = (IF din.rd THEN din.data ELSE 0)
        /\ xfer'.tag_q = xfer.tag /\ (xfer'.ddr_q <=> xfer.lanes = 8)
        /\ xfer'.last_fetch <=> (xfer.lanes = 8 => xfer.fetch)
        /\ xfer'.ibuffer = (IF xfer.lanes = 8 /\ done THEN ReadByte ELSE Junk)
BY TransferIs DEF next_fetch, XferSet

LEMMA KeepFields ==
  ASSUME xfer \in XferSet, xfer_resetn, NEW done \in BOOLEAN, Transfer(done), ~din_ready(done)
  PROVE /\ (xfer'.csb <=> xfer.csb) /\ (xfer'.busy <=> xfer.busy /\ ~done) /\ (xfer'.fetch <=> ~xfer.busy \/ done)
        /\ xfer'.tag = xfer.tag /\ xfer'.lanes = xfer.lanes /\ xfer'.data = xfer.data /\ xfer'.dummy = xfer.dummy
        /\ xfer'.tag_q = xfer.tag /\ (xfer'.ddr_q <=> xfer.lanes = 8)
        /\ xfer'.last_fetch <=> (xfer.lanes = 8 => xfer.fetch)
        /\ xfer'.ibuffer = (IF xfer.lanes = 8 /\ done THEN ReadByte ELSE Junk)
BY TransferIs DEF next_fetch, XferSet

(* The byte that is offered, field by field.                                  *)
IsDin(e, v, a, t, l, r) ==
  e \in DinSet /\ (e.valid <=> v) /\ e.data = a /\ e.tag = t /\ e.lanes = l /\ (e.rd <=> r)

LEMMA DinTag ==
  ASSUME NEW d, NEW v, NEW b, NEW s, NEW k, NEW r, IsDin(d, v, b, s, k, r), NEW t \in 0..4
  PROVE IsDin([[d EXCEPT !.tag = t] EXCEPT !.valid = TRUE], TRUE, b, t, k, r)
<1>1. PICK x, e : x = TRUE /\ e = [[d EXCEPT !.tag = t] EXCEPT !.valid = TRUE]
  OBVIOUS
<1>2. x \in BOOLEAN /\ e = [[d EXCEPT !.tag = t] EXCEPT !.valid = x]
  BY <1>1
<1>3. d \in DinSet /\ d.data = b /\ d.tag = s /\ d.lanes = k /\ (d.rd <=> r) /\ t \in 0..4
  BY DEF IsDin
<1>4. e \in DinSet
  BY ONLY <1>2, <1>3 DEF DinSet
<1>5. e.valid = x /\ e.data = d.data /\ e.tag = t /\ e.lanes = d.lanes /\ e.rd = d.rd
  BY ONLY <1>2, <1>3 DEF DinSet
<1> QED BY ONLY <1>1, <1>3, <1>4, <1>5, Zenon DEF IsDin

LEMMA DinDataTag ==
  ASSUME NEW d, NEW v, NEW b, NEW s, NEW k, NEW r, IsDin(d, v, b, s, k, r), NEW t \in 0..4, NEW a \in Nat
  PROVE IsDin([[d EXCEPT !.data = a, !.tag = t] EXCEPT !.valid = TRUE], TRUE, a, t, k, r)
<1>1. PICK x, e : x = TRUE /\ e = [[d EXCEPT !.data = a, !.tag = t] EXCEPT !.valid = TRUE]
  OBVIOUS
<1>2. x \in BOOLEAN /\ e = [[d EXCEPT !.data = a, !.tag = t] EXCEPT !.valid = x]
  BY <1>1
<1>3. d \in DinSet /\ d.data = b /\ d.tag = s /\ d.lanes = k /\ (d.rd <=> r) /\ t \in 0..4 /\ a \in Nat
  BY DEF IsDin
<1>4. e \in DinSet
  BY ONLY <1>2, <1>3 DEF DinSet
<1>5. e.valid = x /\ e.data = a /\ e.tag = t /\ e.lanes = d.lanes /\ e.rd = d.rd
  BY ONLY <1>2, <1>3 DEF DinSet
<1> QED BY ONLY <1>1, <1>3, <1>4, <1>5, Zenon DEF IsDin

LEMMA DinDataTagLanes ==
  ASSUME NEW d, NEW v, NEW b, NEW s, NEW k, NEW r, IsDin(d, v, b, s, k, r), NEW t \in 0..4, NEW a \in Nat, NEW l \in ModeSet
  PROVE IsDin([[d EXCEPT !.data = a, !.tag = t, !.lanes = l] EXCEPT !.valid = TRUE], TRUE, a, t, l, r)
<1>1. PICK x, e : x = TRUE /\ e = [[d EXCEPT !.data = a, !.tag = t, !.lanes = l] EXCEPT !.valid = TRUE]
  OBVIOUS
<1>2. x \in BOOLEAN /\ e = [[d EXCEPT !.data = a, !.tag = t, !.lanes = l] EXCEPT !.valid = x]
  BY <1>1
<1>3. d \in DinSet /\ d.data = b /\ d.tag = s /\ d.lanes = k /\ (d.rd <=> r) /\ t \in 0..4 /\ a \in Nat /\ l \in ModeSet
  BY DEF IsDin
<1>4. e \in DinSet
  BY ONLY <1>2, <1>3 DEF DinSet
<1>5. e.valid = x /\ e.data = a /\ e.tag = t /\ e.lanes = l /\ e.rd = d.rd
  BY ONLY <1>2, <1>3 DEF DinSet
<1> QED BY ONLY <1>1, <1>3, <1>4, <1>5, Zenon DEF IsDin

LEMMA DinTaken ==
  ASSUME NEW d, NEW v, NEW b, NEW s, NEW k, NEW r, IsDin(d, v, b, s, k, r)
  PROVE IsDin([d EXCEPT !.valid = FALSE], FALSE, b, s, k, r)
<1>1. PICK x, e : x = FALSE /\ e = [d EXCEPT !.valid = FALSE]
  OBVIOUS
<1>2. x \in BOOLEAN /\ e = [d EXCEPT !.valid = x]
  BY <1>1
<1>3. d \in DinSet /\ d.data = b /\ d.tag = s /\ d.lanes = k /\ (d.rd <=> r)
  BY DEF IsDin
<1>4. e \in DinSet
  BY ONLY <1>2, <1>3 DEF DinSet
<1>5. e.valid = x /\ e.data = d.data /\ e.tag = d.tag /\ e.lanes = d.lanes /\ e.rd = d.rd
  BY ONLY <1>2, <1>3 DEF DinSet
<1> QED BY ONLY <1>1, <1>3, <1>4, <1>5, Zenon DEF IsDin

LEMMA DinTakenData ==
  ASSUME NEW d, NEW v, NEW b, NEW s, NEW k, NEW r, IsDin(d, v, b, s, k, r), NEW a \in Nat
  PROVE IsDin([d EXCEPT !.valid = FALSE, !.data = a], FALSE, a, s, k, r)
<1>1. PICK x, e : x = FALSE /\ e = [d EXCEPT !.valid = FALSE, !.data = a]
  OBVIOUS
<1>2. x \in BOOLEAN /\ e = [d EXCEPT !.valid = x, !.data = a]
  BY <1>1
<1>3. d \in DinSet /\ d.data = b /\ d.tag = s /\ d.lanes = k /\ (d.rd <=> r) /\ a \in Nat
  BY DEF IsDin
<1>4. e \in DinSet
  BY ONLY <1>2, <1>3 DEF DinSet
<1>5. e.valid = x /\ e.data = a /\ e.tag = d.tag /\ e.lanes = d.lanes /\ e.rd = d.rd
  BY ONLY <1>2, <1>3 DEF DinSet
<1> QED BY ONLY <1>1, <1>3, <1>4, <1>5, Zenon DEF IsDin

LEMMA DinTakenRead ==
  ASSUME NEW d, NEW v, NEW b, NEW s, NEW k, NEW r, IsDin(d, v, b, s, k, r), NEW a \in Nat
  PROVE IsDin([d EXCEPT !.valid = FALSE, !.data = a, !.rd = TRUE], FALSE, a, s, k, TRUE)
<1>1. PICK x, y, e : x = FALSE /\ y = TRUE /\ e = [d EXCEPT !.valid = FALSE, !.data = a, !.rd = TRUE]
  OBVIOUS
<1>2. x \in BOOLEAN /\ y \in BOOLEAN /\ e = [d EXCEPT !.valid = x, !.data = a, !.rd = y]
  BY <1>1
<1>3. d \in DinSet /\ d.data = b /\ d.tag = s /\ d.lanes = k /\ (d.rd <=> r) /\ a \in Nat
  BY DEF IsDin
<1>4. e \in DinSet
  BY ONLY <1>2, <1>3 DEF DinSet
<1>5. e.valid = x /\ e.data = a /\ e.tag = d.tag /\ e.lanes = d.lanes /\ e.rd = y
  BY ONLY <1>2, <1>3 DEF DinSet
<1> QED BY ONLY <1>1, <1>3, <1>4, <1>5, Zenon DEF IsDin

LEMMA DinJump ==
  ASSUME NEW d, NEW v, NEW b, NEW s, NEW k, NEW r, IsDin(d, v, b, s, k, r), NEW c
  PROVE IsDin([d EXCEPT !.rd = FALSE, !.lanes = IF c THEN @ ELSE 1], v, b, s, IF c THEN k ELSE 1, FALSE)
<1>0. PICK l : l = (IF c THEN k ELSE 1)
  OBVIOUS
<1>1. PICK x, e : x = FALSE /\ e = [d EXCEPT !.rd = FALSE, !.lanes = IF c THEN @ ELSE 1]
  OBVIOUS
<1>3. d \in DinSet /\ d.data = b /\ d.tag = s /\ d.lanes = k /\ (d.valid <=> v)
  BY DEF IsDin
<1>4. l \in ModeSet /\ (IF c THEN d.lanes ELSE 1) = l
  BY <1>0, <1>3 DEF DinSet, ModeSet
<1>2. x \in BOOLEAN /\ e = [d EXCEPT !.rd = x, !.lanes = l]
  BY <1>1, <1>4
<1>5. e \in DinSet
  BY ONLY <1>2, <1>3, <1>4 DEF DinSet
<1>6. e.valid = d.valid /\ e.data = d.data /\ e.tag = d.tag /\ e.lanes = l /\ e.rd = x
  BY ONLY <1>2, <1>3, <1>4 DEF DinSet
<1> QED BY ONLY <1>0, <1>1, <1>3, <1>5, <1>6, Zenon DEF IsDin

LEMMA DinSelf == ASSUME din \in DinSet PROVE IsDin(din, din.valid, din.data, din.tag, din.lanes, din.rd)
BY Zenon DEF IsDin

LEMMA LanesTypes ==
  ASSUME config \in ConfigSet
  PROVE /\ ConfiguredLanes \in ModeSet /\ ReadCommand \in Nat \ {0, PowerUp, LeaveXip} /\ config.dummy \in Nat
        /\ ~config.qspi /\ ~config.ddr => ReadCommand = Read
        /\ wide <=> ReadCommand \in WideReads
        /\ Lanes(ReadCommand) = ConfiguredLanes
        /\ ReadCommand \in WideReads \cup {Read}
<1>1. config.dummy \in Nat /\ config.qspi \in BOOLEAN /\ config.ddr \in BOOLEAN
  BY DEF ConfigSet
<1>2. ConfiguredLanes \in {1, 2, 4, 8}
  BY DEF ConfiguredLanes
<1>3. CASE ConfiguredLanes = 1
  <2>1. ReadCommand = Read
    BY <1>3 DEF ReadCommand
  <2> QED BY <1>1, <1>3, <2>1, CommandNumbers DEF ModeSet, wide, Lanes, PowerUp, LeaveXip, Read, WideReads, DualRead, QuadRead, QuadDdrRead
<1>4. CASE ConfiguredLanes # 1
  <2>1. ReadCommand = (IF ConfiguredLanes = 8 THEN QuadDdrRead ELSE IF ConfiguredLanes = 4 THEN QuadRead ELSE DualRead)
    BY <1>2, <1>4 DEF ReadCommand
  <2>2. Lanes(ReadCommand) = ConfiguredLanes
    BY <1>2, <1>4, <2>1, LanesIs
  <2>3. ~(~config.qspi /\ ~config.ddr)
    BY <1>4 DEF ConfiguredLanes
  <2> QED BY <1>1, <1>2, <1>4, <2>1, <2>2, <2>3 DEF ModeSet, wide, PowerUp, LeaveXip, WideReads, DualRead, QuadRead, QuadDdrRead
<1> QED BY <1>3, <1>4

LEMMA AddressTypes ==
  ASSUME req \in ReqSet
  PROVE addr1 \in Nat /\ addr2 \in Nat /\ addr3 \in Nat /\ addr1 \in 0..(Base - 1) /\ addr2 \in 0..(Base - 1) /\ addr3 \in 0..(Base - 1)
        /\ NextAddress(req.addr) = <<addr1, addr2, addr3>> /\ req.addr \in 0..(Space - 1)
<1>1. PICK a \in 0..(Space - 1) : a = req.addr
  BY DEF ReqSet
<1>2. PICK s : s = NextAddress(a)
  OBVIOUS
<1>3. \A k \in 1..3 : s[k] \in 0..(Base - 1)
  BY <1>2, AddressBytes
<1>4. s[1] \in 0..(Base - 1) /\ s[2] \in 0..(Base - 1) /\ s[3] \in 0..(Base - 1)
  BY <1>3
<1>5. s = <<addr1, addr2, addr3>>
  BY <1>1, <1>2 DEF NextAddress, addr1, addr2, addr3
<1>6. s[1] = addr1 /\ s[2] = addr2 /\ s[3] = addr3
  BY <1>5
<1>7. \A x \in 0..(Base - 1) : x \in Nat
  BY BaseAssumption
<1>8. addr1 \in 0..(Base - 1) /\ addr2 \in 0..(Base - 1) /\ addr3 \in 0..(Base - 1)
  BY ONLY <1>4, <1>6
<1>9. addr1 \in Nat /\ addr2 \in Nat /\ addr3 \in Nat
  BY ONLY <1>7, <1>8
<1>10. req.addr \in 0..(Space - 1) /\ NextAddress(req.addr) = <<addr1, addr2, addr3>>
  BY ONLY <1>1, <1>2, <1>5
<1> QED BY ONLY <1>8, <1>9, <1>10

Mode8 == IF config.cont THEN StayInXip ELSE LeaveXip
OfferedData ==
  CASE state = 0 -> LeaveXip [] state = 2 -> PowerUp [] state = 4 -> ReadCommand [] state = 5 -> addr1
    [] state = 6 -> addr2 [] state = 7 -> addr3 [] state = 8 -> Mode8 [] state = 10 -> 0 [] OTHER -> din.data
OfferedLanes == IF state = 5 THEN ConfiguredLanes ELSE din.lanes
OfferedTag == IF state <= 8 THEN 0 ELSE state - 8
TakenData == CASE state = 7 -> 0 [] state = 8 -> config.dummy [] OTHER -> OfferedData
LEMMA OfferIs ==
  ASSUME TypesOk, config \in ConfigSet, req \in ReqSet, state \notin {1, 3}
  PROVE IsDin([Offered(req.addr) EXCEPT !.valid = TRUE], TRUE, OfferedData, OfferedTag, OfferedLanes, din.rd)
<1>1. state \in 0..12 /\ din \in DinSet /\ din.data \in Nat
  BY DEF TypesOk, DinSet
<1>2. IsDin(din, din.valid, din.data, din.tag, din.lanes, din.rd)
  BY <1>1, DinSelf
<1>3. /\ ConfiguredLanes \in ModeSet /\ ReadCommand \in Nat /\ addr1 \in Nat /\ addr2 \in Nat /\ addr3 \in Nat
      /\ LeaveXip \in Nat /\ PowerUp \in Nat /\ Mode8 \in Nat
  BY LanesTypes, AddressTypes DEF LeaveXip, PowerUp, StayInXip, Mode8
<1>4. CASE state \in {0, 2, 4, 6, 7, 8, 10}
  <2>1. OfferedData \in Nat /\ OfferedTag \in 0..4 /\ OfferedLanes = din.lanes
    BY <1>3, <1>4 DEF OfferedData, OfferedTag, OfferedLanes
  <2>2. Offered(req.addr) = [din EXCEPT !.data = OfferedData, !.tag = OfferedTag]
    <3>1. CASE state = 0
      <4>1. OfferedData = LeaveXip /\ OfferedTag = 0
        BY <3>1 DEF OfferedData, OfferedTag
      <4>2. Offered(req.addr) = [din EXCEPT !.data = LeaveXip, !.tag = 0]
        BY <3>1 DEF Offered, Mode8, addr2, addr3
      <4> QED BY ONLY <4>1, <4>2, Zenon
    <3>2. CASE state = 2
      <4>1. OfferedData = PowerUp /\ OfferedTag = 0
        BY <3>2 DEF OfferedData, OfferedTag
      <4>2. Offered(req.addr) = [din EXCEPT !.data = PowerUp, !.tag = 0]
        BY <3>2 DEF Offered, Mode8, addr2, addr3
      <4> QED BY ONLY <4>1, <4>2, Zenon
    <3>3. CASE state = 4
      <4>1. OfferedData = ReadCommand /\ OfferedTag = 0
        BY <3>3 DEF OfferedData, OfferedTag
      <4>2. Offered(req.addr) = [din EXCEPT !.data = ReadCommand, !.tag = 0]
        BY <3>3 DEF Offered, Mode8, addr2, addr3
      <4> QED BY ONLY <4>1, <4>2, Zenon
    <3>4. CASE state = 6
      <4>1. OfferedData = addr2 /\ OfferedTag = 0
        BY <3>4 DEF OfferedData, OfferedTag
      <4>2. Offered(req.addr) = [din EXCEPT !.data = addr2, !.tag = 0]
        BY <3>4 DEF Offered, Mode8, addr2, addr3
      <4> QED BY ONLY <4>1, <4>2, Zenon
    <3>5. CASE state = 7
      <4>1. OfferedData = addr3 /\ OfferedTag = 0
        BY <3>5 DEF OfferedData, OfferedTag
      <4>2. Offered(req.addr) = [din EXCEPT !.data = addr3, !.tag = 0]
        BY <3>5 DEF Offered, Mode8, addr2, addr3
      <4> QED BY ONLY <4>1, <4>2, Zenon
    <3>6. CASE state = 8
      <4>1. OfferedData = Mode8 /\ OfferedTag = 0
        BY <3>6 DEF OfferedData, OfferedTag
      <4>2. Offered(req.addr) = [din EXCEPT !.data = Mode8, !.tag = 0]
        BY <3>6 DEF Offered, Mode8, addr2, addr3
      <4> QED BY ONLY <4>1, <4>2, Zenon
    <3>7. CASE state = 10
      <4>1. OfferedData = 0 /\ OfferedTag = 2
        BY <3>7 DEF OfferedData, OfferedTag
      <4>2. Offered(req.addr) = [din EXCEPT !.data = 0, !.tag = 2]
        BY <3>7 DEF Offered, Mode8, addr2, addr3
      <4> QED BY ONLY <4>1, <4>2, Zenon
    <3> QED BY <1>4, <3>1, <3>2, <3>3, <3>4, <3>5, <3>6, <3>7
  <2>3. IsDin([[din EXCEPT !.data = OfferedData, !.tag = OfferedTag] EXCEPT !.valid = TRUE], TRUE, OfferedData, OfferedTag, din.lanes, din.rd)
    BY ONLY <1>2, <2>1, DinDataTag, Zenon
  <2> QED BY ONLY <2>1, <2>2, <2>3, Zenon
<1>5. CASE state = 5
  <2>1. OfferedData = addr1 /\ OfferedTag = 0 /\ OfferedLanes = ConfiguredLanes
    BY <1>5 DEF OfferedData, OfferedTag, OfferedLanes
  <2>2. Offered(req.addr) = [din EXCEPT !.data = addr1, !.tag = 0, !.lanes = ConfiguredLanes]
    BY <1>5 DEF Offered, addr1
  <2>3. IsDin([[din EXCEPT !.data = addr1, !.tag = 0, !.lanes = ConfiguredLanes] EXCEPT !.valid = TRUE], TRUE, addr1, 0, ConfiguredLanes, din.rd)
    <3>1. 0 \in 0..4
      OBVIOUS
    <3> QED BY ONLY <1>2, <1>3, <3>1, DinDataTagLanes, Zenon
  <2> QED BY ONLY <2>1, <2>2, <2>3, Zenon
<1>6. CASE state \in {9, 11, 12}
  <2>1. OfferedData = din.data /\ OfferedTag \in 0..4 /\ OfferedLanes = din.lanes
    BY <1>6 DEF OfferedData, OfferedTag, OfferedLanes
  <2>2. Offered(req.addr) = [din EXCEPT !.tag = OfferedTag]
    BY <1>6 DEF OfferedTag, Offered
  <2>3. IsDin([[din EXCEPT !.tag = OfferedTag] EXCEPT !.valid = TRUE], TRUE, din.data, OfferedTag, din.lanes, din.rd)
    BY ONLY <1>2, <2>1, DinTag, Zenon
  <2> QED BY ONLY <2>1, <2>2, <2>3, Zenon
<1>7. state \in {0, 2, 4, 6, 7, 8, 10} \/ state = 5 \/ state \in {9, 11, 12}
  BY <1>1
<1> QED BY ONLY <1>4, <1>5, <1>6, <1>7, Zenon

LEMMA TakenIs ==
  ASSUME TypesOk, config \in ConfigSet, req \in ReqSet, state \notin {1, 3}
  PROVE IsDin(Taken([Offered(req.addr) EXCEPT !.valid = TRUE]), FALSE, TakenData, OfferedTag, OfferedLanes, din.rd \/ state = 8)
<1>1. PICK o : o = [Offered(req.addr) EXCEPT !.valid = TRUE]
  OBVIOUS
<1>2. IsDin(o, TRUE, OfferedData, OfferedTag, OfferedLanes, din.rd)
  BY <1>1, OfferIs
<1>3. config.dummy \in Nat
  BY LanesTypes
<1>4. CASE state = 7
  <2>1. Taken(o) = [o EXCEPT !.valid = FALSE, !.data = 0] /\ TakenData = 0
    BY <1>4 DEF Taken, TakenData
  <2>2. IsDin([o EXCEPT !.valid = FALSE, !.data = 0], FALSE, 0, OfferedTag, OfferedLanes, din.rd)
    BY <1>2, DinTakenData
  <2>3. state # 8
    BY <1>4
  <2> QED BY ONLY <1>1, <2>1, <2>2, <2>3, Zenon DEF IsDin
<1>5. CASE state = 8
  <2>1. Taken(o) = [o EXCEPT !.valid = FALSE, !.data = config.dummy, !.rd = TRUE] /\ TakenData = config.dummy
    BY <1>5 DEF Taken, TakenData
  <2>2. IsDin([o EXCEPT !.valid = FALSE, !.data = config.dummy, !.rd = TRUE], FALSE, config.dummy, OfferedTag, OfferedLanes, TRUE)
    BY <1>2, <1>3, DinTakenRead
  <2> QED BY ONLY <1>1, <1>5, <2>1, <2>2, Zenon DEF IsDin
<1>6. CASE state \notin {7, 8}
  <2>1. Taken(o) = [o EXCEPT !.valid = FALSE] /\ TakenData = OfferedData
    BY <1>6 DEF Taken, TakenData
  <2>2. IsDin([o EXCEPT !.valid = FALSE], FALSE, OfferedData, OfferedTag, OfferedLanes, din.rd)
    BY <1>2, DinTaken
  <2>3. state # 8
    BY <1>6
  <2> QED BY ONLY <1>1, <2>1, <2>2, <2>3, Zenon DEF IsDin
<1> QED BY <1>4, <1>5, <1>6

LEMMA DrainIs == ASSUME din \in DinSet
  PROVE IsDin([din EXCEPT !.valid = FALSE], FALSE, din.data, din.tag, din.lanes, din.rd)
BY DinSelf, DinTaken

(* The four ways of the state machine.                                        *)
LEMMA SeqTake ==
  ASSUME TypesOk, config \in ConfigSet, req \in ReqSet, state \notin {1, 3}, NEW done, Sequence(Pending, req.addr, done),
         ~jump(Pending, req.addr), ~Waits(Pending, req.addr), din_ready(done)
  PROVE /\ xfer_resetn' /\ state' = After /\ din' \in DinSet /\ ~din'.valid
        /\ din'.data = TakenData /\ din'.tag = OfferedTag /\ din'.lanes = OfferedLanes /\ (din'.rd <=> din.rd \/ state = 8)
<1>1. din' = Taken([Offered(req.addr) EXCEPT !.valid = TRUE]) /\ state' = After /\ xfer_resetn' = TRUE
  BY DEF Sequence
<1>2. IsDin(Taken([Offered(req.addr) EXCEPT !.valid = TRUE]), FALSE, TakenData, OfferedTag, OfferedLanes, din.rd \/ state = 8)
  BY TakenIs
<1> QED BY ONLY <1>1, <1>2, Zenon DEF IsDin

LEMMA SeqOffer ==
  ASSUME TypesOk, config \in ConfigSet, req \in ReqSet, state \notin {1, 3}, NEW done, Sequence(Pending, req.addr, done),
         ~jump(Pending, req.addr), ~Waits(Pending, req.addr), ~din_ready(done)
  PROVE /\ xfer_resetn' /\ state' = state /\ din' \in DinSet /\ din'.valid
        /\ din'.data = OfferedData /\ din'.tag = OfferedTag /\ din'.lanes = OfferedLanes /\ (din'.rd <=> din.rd)
<1>1. din' = [Offered(req.addr) EXCEPT !.valid = TRUE] /\ state' = state /\ xfer_resetn' = TRUE
  BY DEF Sequence
<1>2. IsDin([Offered(req.addr) EXCEPT !.valid = TRUE], TRUE, OfferedData, OfferedTag, OfferedLanes, din.rd)
  BY OfferIs
<1> QED BY ONLY <1>1, <1>2, Zenon DEF IsDin

LEMMA SeqWait ==
  ASSUME TypesOk, NEW done, Sequence(Pending, req.addr, done), ~jump(Pending, req.addr),
         state \in {1, 3} \/ Waits(Pending, req.addr)
  PROVE /\ din' \in DinSet /\ ~din'.valid
        /\ din'.data = din.data /\ din'.tag = din.tag /\ din'.lanes = din.lanes /\ (din'.rd <=> din.rd)
        /\ xfer_resetn' <=> ~(state \in {1, 3} /\ dout_valid(done))
        /\ state' = (IF state \in {1, 3} /\ dout_valid(done) THEN state + 1 ELSE state)
<1>1. /\ din' = [din EXCEPT !.valid = FALSE]
      /\ xfer_resetn' = ~(state \in {1, 3} /\ dout_valid(done))
      /\ state' = (IF state \in {1, 3} /\ dout_valid(done) THEN state + 1 ELSE state)
  BY DEF Sequence
<1>2. IsDin([din EXCEPT !.valid = FALSE], FALSE, din.data, din.tag, din.lanes, din.rd)
  BY DrainIs DEF TypesOk
<1> QED BY ONLY <1>1, <1>2, Zenon DEF IsDin

LEMMA SeqJump ==
  ASSUME TypesOk, config \in ConfigSet, req \in ReqSet, state \notin {1, 3}, NEW done, Sequence(Pending, req.addr, done),
         jump(Pending, req.addr)
  PROVE /\ ~xfer_resetn' /\ state' = (IF config.cont THEN 5 ELSE 4)
        /\ din' \in DinSet /\ ~din'.rd /\ (~config.cont => din'.lanes = 1)
<1>1. PICK n : n = IF Waits(Pending, req.addr) THEN [din EXCEPT !.valid = FALSE]
                   ELSE IF din_ready(done) THEN Taken([Offered(req.addr) EXCEPT !.valid = TRUE])
                   ELSE [Offered(req.addr) EXCEPT !.valid = TRUE]
  OBVIOUS
<1>2. /\ din' = [n EXCEPT !.rd = FALSE, !.lanes = IF config.cont THEN @ ELSE 1]
      /\ xfer_resetn' = FALSE /\ state' = (IF config.cont THEN 5 ELSE 4)
  BY <1>1, Zenon DEF Sequence
<1>3. n \in DinSet
  BY <1>1, DrainIs, OfferIs, TakenIs DEF TypesOk, IsDin
<1>4. IsDin(n, n.valid, n.data, n.tag, n.lanes, n.rd)
  BY <1>3, Zenon DEF IsDin
<1>5. IsDin(din', n.valid, n.data, n.tag, IF config.cont THEN n.lanes ELSE 1, FALSE)
  BY <1>2, <1>4, DinJump
<1>6. din' \in DinSet /\ ~din'.rd /\ din'.lanes = (IF config.cont THEN n.lanes ELSE 1)
  BY ONLY <1>5, Zenon DEF IsDin
<1> QED BY ONLY <1>2, <1>6, Zenon

(* An edge that runs the controller: no reset, and no write of the register.  *)
Runs(done) ==
  /\ ProgramInv /\ ControlInv /\ flash \in FlashSet
  /\ ~softreset /\ req.kind # "config" /\ done \in BOOLEAN /\ ClockEdge(done)
jumps == jump(Pending, req.addr)
answers == ready(Pending, req.addr)
A4(done) == dout_valid(done) /\ xfer.tag_q = 4
LEMMA RunConfig ==
  ASSUME NEW done, Runs(done)
  PROVE /\ config' = config /\ config.en /\ config \in ConfigSet /\ softreset' = FALSE
        /\ Sequence(Pending, req.addr, done) /\ Words(Pending, req.addr, done) /\ Transfer(done)
        /\ done => xfer.busy /\ ~xfer.fetch
        /\ TypesOk /\ config \in ConfigSet /\ req \in ReqSet /\ (wide' \/ ~config'.cont)
<1>1. config.en /\ config \in ConfigSet /\ (config.cont => config.qspi \/ config.ddr)
  BY DEF Runs, ProgramInv, RegisterOk, ConfigSet
<1>2. config' = config /\ softreset' = (~config.en \/ cfgreg_sel) /\ ~cfgreg_sel
  BY DEF Runs, ClockEdge, Edge, cfgreg_sel
<1>3. Sequence(spimem_valid, req.addr, done) /\ Words(spimem_valid, req.addr, done) /\ Transfer(done) /\ (done => xfer.busy /\ ~xfer.fetch)
  BY DEF Runs, ClockEdge, Edge, cfgreg_sel
<1>4. spimem_valid = Pending
  BY DEF spimem_valid, Pending
<1>5. TypesOk /\ req \in ReqSet
  BY DEF Runs, ControlInv, ProgramInv, BusOk
<1>6. wide' \/ ~config'.cont
  BY <1>1, <1>2 DEF wide, ConfiguredLanes
<1> QED BY <1>1, <1>2, <1>3, <1>4, <1>5, <1>6

LEMMA RunRequest ==
  ASSUME NEW done, Runs(done)
  PROVE /\ Pending /\ ~answers => req' = req /\ fetched' = fetched
        /\ fetched' => fetched \/ answers
        /\ Working' => Working
        /\ jumps => Pending /\ rd_valid /\ ~answers
        /\ answers => Pending /\ rd_valid /\ ~jumps
<1>1. Core /\ req \in ReqSet /\ (ram_ready => req.kind = "ram") /\ req.kind # "config"
  BY DEF Runs, ClockEdge, ProgramInv, BusOk
<1>2. mem_ready <=> answers \/ ram_ready
  BY <1>1 DEF mem_ready, spimem_ready, spimem_valid, answers, Pending, cfgreg_sel, ready
<1>3. Pending /\ ~answers => req' = req /\ fetched' = fetched
  <2>1. ASSUME Pending, ~answers PROVE req' = req /\ fetched' = fetched
    <3>1. ~mem_ready /\ req.kind = "flash"
      BY <1>1, <1>2, <2>1 DEF Pending
    <3> QED BY <1>1, <3>1 DEF Core, program
  <2> QED BY <2>1
<1>4. fetched' => fetched \/ answers
  <2>1. CASE fetched' = fetched
    BY <2>1
  <2>2. CASE mem_ready /\ Finish
    <3>1. fetched' = (fetched \/ Pending)
      BY <1>1, <2>2 DEF Finish, cfgreg_sel, spimem_valid, Pending
    <3>2. Pending => answers
      BY <1>1, <1>2, <2>2 DEF Pending
    <3> QED BY <3>1, <3>2
  <2>3. CASE mem_ready /\ FinishOn
    <3>1. fetched' = (fetched \/ Pending)
      BY <2>3 DEF FinishOn, spimem_valid, Pending
    <3>2. Pending => answers
      BY <1>1, <1>2, <2>3 DEF Pending
    <3> QED BY <3>1, <3>2
  <2>4. fetched' = fetched \/ (mem_ready /\ Finish) \/ (mem_ready /\ FinishOn)
    BY <1>1 DEF Core, Fetch, UseRam, WriteConfig, Key, program
  <2> QED BY <2>1, <2>2, <2>3, <2>4
<1>5. Working' => Working
  <2>1. CASE calls' = calls /\ step' = step
    BY <2>1 DEF Working
  <2>2. CASE calls = <<>> /\ step' = step
    <3>1. step = 1
      BY <2>2 DEF Runs, ProgramInv, ProgramOk
    <3> QED BY <2>2, <3>1 DEF Working
  <2>3. mem_ready /\ Finish => calls' = calls /\ step' = step
    BY <1>1 DEF Finish, cfgreg_sel
  <2>4. (calls' = calls /\ step' = step) \/ (calls = <<>> /\ step' = step)
    BY <1>1, <2>3 DEF Core, Fetch, UseRam, WriteConfig, Key, FinishOn, program
  <2> QED BY <2>1, <2>2, <2>4
<1>6. /\ jumps => Pending /\ rd_valid /\ ~answers
      /\ answers => Pending /\ rd_valid /\ ~jumps
  BY DEF jumps, answers, jump, ready
<1> QED BY <1>3, <1>4, <1>5, <1>6

LEMMA RunWords ==
  ASSUME NEW done, Runs(done)
  PROVE /\ rd_valid' <=> (rd_valid \/ A4(done)) /\ ~jumps
        /\ rd_inc' <=> (rd_inc \/ A4(done)) /\ state # 4 /\ ~jumps
        /\ ~A4(done) => rd_addr' = rd_addr /\ rdata' = rdata
        /\ A4(done) => rd_addr' = (IF rd_inc THEN Wrap(rd_addr + 4) ELSE req.addr) /\ rdata' = Append(buffer, dout_data)
        /\ rd_wait' <=> ~Pending /\ (IF A4(done) THEN rd_inc ELSE rd_wait)
        /\ buffer' = [k \in 1..3 |-> IF dout_valid(done) /\ xfer.tag_q = k THEN dout_data ELSE buffer[k]]
        /\ rd_valid' \in BOOLEAN /\ rd_inc' \in BOOLEAN /\ rd_wait' \in BOOLEAN /\ rd_addr' \in 0..(Space - 1)
<1>1. Words(Pending, req.addr, done) /\ rd_valid \in BOOLEAN /\ rd_inc \in BOOLEAN /\ rd_wait \in BOOLEAN /\ rd_addr \in 0..(Space - 1)
  BY RunConfig DEF TypesOk
<1>2. A4(done) \in BOOLEAN /\ jumps \in BOOLEAN /\ Pending \in BOOLEAN
  BY <1>1 DEF A4, dout_valid, jumps, jump, Pending, ready, Runs
<1>3. /\ rd_valid' = ((rd_valid \/ A4(done)) /\ ~jumps)
      /\ rd_inc' = ((rd_inc \/ A4(done)) /\ state # 4 /\ ~jumps)
      /\ rd_wait' = (~Pending /\ IF A4(done) THEN rd_inc ELSE rd_wait)
  BY <1>1, Zenon DEF Words, A4, jumps
<1>4. /\ ~A4(done) => rd_addr' = rd_addr /\ rdata' = rdata
      /\ A4(done) => rd_addr' = (IF rd_inc THEN Wrap(rd_addr + 4) ELSE req.addr) /\ rdata' = Append(buffer, dout_data)
  BY <1>1, Zenon DEF Words, A4, Wrap
<1>5. buffer' = [k \in 1..3 |-> IF dout_valid(done) /\ xfer.tag_q = k THEN dout_data ELSE buffer[k]]
  BY <1>1, Zenon DEF Words
<1>6. rd_addr' \in 0..(Space - 1)
  <2>1. req.addr \in 0..(Space - 1)
    BY RunConfig, AddressTypes
  <2>2. Wrap(rd_addr + 4) \in 0..(Space - 1)
    <3>1. Space \in Nat
      BY SpaceType
    <3>2. PICK n \in Int : n = rd_addr + 4
      BY <1>1, <3>1
    <3> QED BY <3>2, WrapType
  <2> QED BY <1>1, <1>4, <2>1, <2>2
<1>7. rd_valid' \in BOOLEAN /\ rd_inc' \in BOOLEAN /\ rd_wait' \in BOOLEAN
  BY <1>1, <1>2, <1>3
<1> QED BY ONLY <1>1, <1>2, <1>3, <1>4, <1>5, <1>6, <1>7

LEMMA RunXfer ==
  ASSUME NEW done, Runs(done)
  PROVE xfer' \in XferSet /\ (xfer'.busy => ~xfer'.csb)
<1>1. Transfer(done) /\ xfer \in XferSet /\ din \in DinSet /\ flash \in FlashSet /\ done \in BOOLEAN /\ (xfer.busy => ~xfer.csb)
  BY RunConfig DEF Runs, TypesOk, ControlInv, ResetOk
<1>2. CASE ~xfer_resetn
  BY <1>1, <1>2, ResetFields
<1>3. CASE xfer_resetn
  <2>1. xfer' \in XferSet
    BY <1>1, <1>3, TransferIs
  <2>2. /\ xfer'.csb = (xfer.csb /\ ~din_ready(done))
        /\ xfer'.busy = (din_ready(done) \/ (xfer.busy /\ ~done))
    BY <1>1, <1>3, TransferIs
  <2> QED BY <1>1, <2>1, <2>2
<1> QED BY <1>2, <1>3

Kept ==
  /\ state' \in 0..12 /\ xfer_resetn' \in BOOLEAN /\ din' \in DinSet
  /\ RestartOk' /\ CommandOk' /\ RunningOk'
  /\ Working => state' <= 4 \/ (state' = 5 /\ ~din'.valid)
  /\ state >= 4 => state' >= 4

(* The two bytes that restart the flash.                                      *)
LEMMA RunRestart ==
  ASSUME NEW done, Runs(done), state \in {0, 2} PROVE Kept
<1>0. state \notin {1, 3}
  OBVIOUS
<1>1. /\ config' = config /\ config.en /\ config \in ConfigSet /\ softreset' = FALSE
      /\ Sequence(Pending, req.addr, done) /\ Transfer(done)
      /\ TypesOk /\ req \in ReqSet /\ xfer \in XferSet /\ done \in BOOLEAN
  BY RunConfig DEF Runs, TypesOk
<1>2. /\ ~rd_valid /\ din.lanes = 1 /\ ~din.rd /\ din.tag = 0
      /\ ~xfer_resetn => ~din.valid
      /\ xfer_resetn => FreshXfer /\ Quiet
      /\ state = 0 /\ din.valid => din.data = LeaveXip
      /\ state = 2 /\ din.valid => din.data = PowerUp
  BY DEF Runs, ControlInv, RestartOk
<1>3. ~jumps /\ ~Waits(Pending, req.addr)
  BY <1>2, RunRequest DEF Waits
<1>4. ~dout_valid(done)
  BY <1>2 DEF dout_valid, FreshXfer, Quiet, next_fetch
<1>5. ~rd_valid'
  BY <1>2, <1>4, RunWords DEF A4
<1>6. CASE ~din_ready(done)
  <2>1. /\ xfer_resetn' /\ state' = state /\ din' \in DinSet /\ din'.valid
        /\ din'.data = OfferedData /\ din'.tag = OfferedTag /\ din'.lanes = OfferedLanes /\ (din'.rd <=> din.rd)
    BY <1>0, <1>1, <1>3, <1>6, SeqOffer DEF jumps
  <2>2. /\ din' \in DinSet /\ din'.valid /\ din'.tag = 0 /\ din'.lanes = 1 /\ ~din'.rd
        /\ din'.data = (IF state = 0 THEN LeaveXip ELSE PowerUp)
    BY <1>2, <2>1 DEF OfferedData, OfferedTag, OfferedLanes
  <2>3. FreshXfer' /\ Quiet'
    <3>1. CASE xfer_resetn
      BY <1>1, <1>2, <1>6, <3>1, KeepFields DEF FreshXfer, Quiet, din_ready
    <3>2. CASE ~xfer_resetn
      BY <1>1, <3>2, ResetFields DEF FreshXfer, Quiet
    <3> QED BY <3>1, <3>2
  <2>4. RestartOk'
    BY <1>5, <2>1, <2>2, <2>3 DEF RestartOk
  <2> QED BY <2>1, <2>2, <2>4 DEF Kept, CommandOk, RunningOk
<1>7. CASE din_ready(done)
  <2>1. /\ xfer_resetn' /\ state' = After /\ din' \in DinSet /\ ~din'.valid
        /\ din'.data = TakenData /\ din'.tag = OfferedTag /\ din'.lanes = OfferedLanes /\ (din'.rd <=> din.rd \/ state = 8)
    BY <1>0, <1>1, <1>3, <1>7, SeqTake DEF jumps
  <2>2. din' \in DinSet /\ ~din'.valid /\ din'.tag = 0 /\ din'.lanes = 1 /\ ~din'.rd
    BY <1>2, <2>1 DEF OfferedTag, OfferedLanes
  <2>3. state' = state + 1
    BY <2>1 DEF After
  <2>4. xfer_resetn /\ din.valid
    BY <1>7 DEF din_ready
  <2>5. /\ ~xfer'.csb /\ xfer'.busy /\ xfer'.fetch /\ xfer'.tag = 0 /\ xfer'.lanes = 1 /\ xfer'.dummy = 0 /\ xfer'.tag_q = 0
        /\ xfer'.data = (IF state = 0 THEN LeaveXip ELSE PowerUp) /\ ~xfer'.ddr_q /\ xfer'.last_fetch
    <3>1. xfer.busy => done
      BY <1>2, <2>4 DEF Quiet
    <3> QED BY <1>1, <1>2, <1>7, <2>4, <3>1, TakeFields DEF FreshXfer
  <2>6. RestartOk'
    BY <1>5, <2>1, <2>2, <2>3, <2>5 DEF RestartOk, FreshXfer
  <2> QED BY <2>1, <2>2, <2>3, <2>6 DEF Kept, CommandOk, RunningOk
<1> QED BY <1>6, <1>7

LEMMA RunRestarted ==
  ASSUME NEW done, Runs(done), state \in {1, 3} PROVE Kept
<1>0. state \in {1, 3} /\ state' = (IF done THEN state + 1 ELSE state) => IF done THEN state' \in {2, 4} ELSE state' = state
  OBVIOUS
<1>1. /\ config' = config /\ config.en /\ config \in ConfigSet /\ softreset' = FALSE
      /\ Sequence(Pending, req.addr, done) /\ Transfer(done) /\ (done => xfer.busy /\ ~xfer.fetch)
      /\ TypesOk /\ req \in ReqSet /\ xfer \in XferSet /\ done \in BOOLEAN
  BY RunConfig DEF Runs, TypesOk
<1>2. /\ ~rd_valid /\ din.lanes = 1 /\ ~din.rd /\ din.tag = 0
      /\ FreshXfer /\ xfer_resetn /\ xfer.busy /\ ~xfer.ddr_q /\ ~din.valid /\ xfer.tag_q = 0
      /\ xfer.data = (IF state = 1 THEN LeaveXip ELSE PowerUp)
  BY DEF Runs, ControlInv, RestartOk
<1>3. ~jumps /\ ~din_ready(done)
  BY <1>2, RunRequest DEF din_ready
<1>4. dout_valid(done) <=> done
  BY <1>1, <1>2 DEF dout_valid, next_fetch
<1>5. ~rd_valid'
  BY <1>2, RunWords DEF A4
<1>6. /\ din' \in DinSet /\ ~din'.valid
      /\ din'.data = din.data /\ din'.tag = din.tag /\ din'.lanes = din.lanes /\ (din'.rd <=> din.rd)
      /\ (xfer_resetn' <=> ~done) /\ state' = (IF done THEN state + 1 ELSE state)
  BY <1>0, <1>1, <1>3, <1>4, SeqWait DEF jumps
<1>7. din' \in DinSet /\ ~din'.valid /\ din'.tag = 0 /\ din'.lanes = 1 /\ ~din'.rd
  BY <1>2, <1>6
<1>8. /\ (xfer'.busy <=> ~done) /\ xfer'.tag = 0 /\ xfer'.lanes = 1 /\ xfer'.dummy = 0 /\ xfer'.data = xfer.data
      /\ xfer'.tag_q = 0 /\ ~xfer'.ddr_q /\ xfer'.last_fetch
  BY <1>1, <1>2, <1>3, KeepFields DEF FreshXfer
<1>9. RestartOk'
  <2>1. CASE done
    BY <1>0, <1>1, <1>5, <1>6, <1>7, <1>8, <2>1 DEF RestartOk
  <2>2. CASE ~done
    BY <1>1, <1>2, <1>5, <1>6, <1>7, <1>8, <2>2 DEF RestartOk, FreshXfer
  <2> QED BY <2>1, <2>2
<1>10. CommandOk'
  BY <1>0, <1>1, <1>5, <1>6, <1>7 DEF CommandOk
<1>11. state' \in 1..4
  BY <1>0, <1>1, <1>6
<1>12. xfer_resetn' \in BOOLEAN
  BY <1>1, <1>6, RunConfig DEF Sequence
<1> QED BY <1>0, <1>11, <1>12, <1>7, <1>9, <1>10 DEF Kept, RunningOk

LEMMA RunCommand ==
  ASSUME NEW done, Runs(done), state = 4 PROVE Kept
<1>0. state \notin {1, 3}
  OBVIOUS
<1>1. /\ config' = config /\ config.en /\ config \in ConfigSet /\ softreset' = FALSE /\ (wide' \/ ~config'.cont)
      /\ Sequence(Pending, req.addr, done) /\ Transfer(done)
      /\ TypesOk /\ req \in ReqSet /\ xfer \in XferSet /\ done \in BOOLEAN
  BY RunConfig DEF Runs, TypesOk
<1>2. /\ ~rd_valid /\ din.lanes = 1 /\ ~din.rd
      /\ xfer_resetn => FreshXfer /\ Quiet
      /\ xfer_resetn /\ din.valid => din.data = ReadCommand /\ din.tag = 0
  BY DEF Runs, ControlInv, CommandOk
<1>3. ~jumps /\ ~Waits(Pending, req.addr)
  BY <1>2, RunRequest DEF Waits
<1>4. ~dout_valid(done)
  BY <1>2 DEF dout_valid, FreshXfer, Quiet, next_fetch
<1>5. ~rd_valid' /\ ~rd_inc'
  BY <1>2, <1>4, RunWords DEF A4
<1>50. ReadCommand' = ReadCommand /\ ConfiguredLanes' = ConfiguredLanes
  BY <1>1 DEF ReadCommand, ConfiguredLanes
<1>6. CASE ~din_ready(done)
  <2>1. /\ xfer_resetn' /\ state' = 4 /\ din' \in DinSet /\ din'.valid
        /\ din'.data = OfferedData /\ din'.tag = OfferedTag /\ din'.lanes = OfferedLanes /\ (din'.rd <=> din.rd)
    BY <1>0, <1>1, <1>3, <1>6, SeqOffer DEF jumps
  <2>2. /\ din' \in DinSet /\ din'.valid /\ din'.tag = 0 /\ din'.lanes = 1 /\ ~din'.rd
        /\ din'.data = ReadCommand
    BY <1>2, <2>1 DEF OfferedData, OfferedTag, OfferedLanes
  <2>3. FreshXfer' /\ Quiet'
    <3>1. CASE xfer_resetn
      BY <1>1, <1>2, <1>6, <3>1, KeepFields DEF FreshXfer, Quiet, din_ready
    <3>2. CASE ~xfer_resetn
      BY <1>1, <3>2, ResetFields DEF FreshXfer, Quiet
    <3> QED BY <3>1, <3>2
  <2>4. CommandOk'
    BY <1>5, <1>50, <2>1, <2>2, <2>3 DEF CommandOk, Quiet
  <2> QED BY <2>1, <2>2, <2>4 DEF Kept, RestartOk, RunningOk
<1>7. CASE din_ready(done)
  <2>1. /\ xfer_resetn' /\ state' = After /\ din' \in DinSet /\ ~din'.valid
        /\ din'.data = TakenData /\ din'.tag = OfferedTag /\ din'.lanes = OfferedLanes /\ (din'.rd <=> din.rd \/ state = 8)
    BY <1>0, <1>1, <1>3, <1>7, SeqTake DEF jumps
  <2>2. din' \in DinSet /\ ~din'.valid /\ ~din'.rd
    BY <1>0, <1>2, <2>1
  <2>3. state' = 5
    BY <2>1 DEF After
  <2>4. xfer_resetn /\ din.valid
    BY <1>7 DEF din_ready
  <2>5. /\ ~xfer'.csb /\ xfer'.busy /\ xfer'.fetch /\ xfer'.tag = 0 /\ xfer'.lanes = 1 /\ xfer'.dummy = 0 /\ xfer'.tag_q = 0
        /\ xfer'.data = ReadCommand /\ ~xfer'.ddr_q /\ xfer'.last_fetch
    <3>1. xfer.busy => done
      BY <1>2, <2>4 DEF Quiet
    <3> QED BY <1>1, <1>2, <1>7, <2>4, <3>1, TakeFields DEF FreshXfer
  <2>6. CommandOk'
    BY <1>1, <1>5, <1>50, <2>1, <2>2, <2>3, <2>5 DEF CommandOk, FreshXfer
  <2> QED BY <2>1, <2>2, <2>3, <2>6 DEF Kept, RestartOk, RunningOk
<1> QED BY <1>6, <1>7

LEMMA RunFirstAddress ==
  ASSUME NEW done, Runs(done), state = 5 PROVE Kept
<1>0. state \notin {1, 3}
  OBVIOUS
<1>1. /\ config' = config /\ config.en /\ config \in ConfigSet /\ softreset' = FALSE /\ (wide' \/ ~config'.cont)
      /\ Sequence(Pending, req.addr, done) /\ Transfer(done) /\ (done => xfer.busy /\ ~xfer.fetch)
      /\ TypesOk /\ req \in ReqSet /\ xfer \in XferSet /\ done \in BOOLEAN
  BY RunConfig DEF Runs, TypesOk
<1>2. /\ ~rd_valid /\ ~din.rd /\ ~rd_inc
      /\ ~xfer_resetn \/ xfer.csb => Pending /\ config.cont
      /\ xfer_resetn => FreshXfer
      /\ xfer_resetn /\ xfer.csb => Quiet
      /\ xfer_resetn /\ din.valid => Pending /\ din.data = addr1 /\ din.lanes = ConfiguredLanes /\ din.tag = 0
      /\ xfer_resetn /\ ~xfer.csb => xfer.data = ReadCommand /\ ~xfer.ddr_q /\ xfer.tag_q = 0 /\ (~xfer.busy => xfer.fetch)
  BY DEF Runs, ControlInv, CommandOk
<1>3. ~jumps /\ ~answers /\ (Pending => req' = req)
  BY <1>2, RunRequest
<1>30. Waits(Pending, req.addr) <=> ~Pending
  BY <1>3 DEF Waits, answers
<1>4. ~A4(done)
  <2>1. CASE ~xfer_resetn \/ xfer.csb
    BY <1>2, <2>1 DEF A4, dout_valid, FreshXfer, Quiet, next_fetch
  <2>2. CASE xfer_resetn /\ ~xfer.csb
    BY <1>2, <2>2 DEF A4
  <2> QED BY <2>1, <2>2
<1>5. ~rd_valid' /\ ~rd_inc'
  BY <1>2, <1>4, RunWords
<1>50. ReadCommand' = ReadCommand /\ ConfiguredLanes' = ConfiguredLanes /\ (Pending => Pending' /\ addr1' = addr1 /\ addr2' = addr2)
  BY <1>1, <1>3 DEF ReadCommand, ConfiguredLanes, Pending, addr1, addr2
<1>6. CASE ~Pending
  <2>1. xfer_resetn /\ ~xfer.csb /\ ~din.valid
    BY <1>2, <1>6
  <2>2. ~din_ready(done)
    BY <2>1 DEF din_ready
  <2>3. xfer_resetn' /\ state' = 5 /\ din' \in DinSet /\ ~din'.valid /\ (din'.rd <=> din.rd)
    BY <1>0, <1>1, <1>3, <1>30, <1>6, SeqWait DEF jumps
  <2>4. /\ ~xfer'.csb /\ (xfer'.busy <=> xfer.busy /\ ~done) /\ (xfer'.fetch <=> ~xfer.busy \/ done) /\ xfer'.tag = 0 /\ xfer'.lanes = 1
        /\ xfer'.dummy = 0 /\ xfer'.data = ReadCommand /\ xfer'.tag_q = 0 /\ ~xfer'.ddr_q /\ xfer'.last_fetch
    BY <1>1, <1>2, <2>1, <2>2, KeepFields DEF FreshXfer
  <2>5. CommandOk'
    BY <1>1, <1>2, <1>5, <1>50, <2>3, <2>4 DEF CommandOk, FreshXfer
  <2> QED BY <2>3, <2>5 DEF Kept, RestartOk, RunningOk
<1>7. CASE Pending /\ ~din_ready(done)
  <2>0. ~Working
    BY <1>7 DEF Runs, ProgramInv, BusOk, Pending
  <2>1. /\ xfer_resetn' /\ state' = 5 /\ din' \in DinSet /\ din'.valid
        /\ din'.data = addr1 /\ din'.tag = 0 /\ din'.lanes = ConfiguredLanes /\ (din'.rd <=> din.rd)
    <3>1. ~Waits(Pending, req.addr) /\ ~jump(Pending, req.addr) /\ ~din_ready(done)
      BY <1>3, <1>30, <1>7 DEF jumps
    <3>2. /\ xfer_resetn' /\ state' = state /\ din' \in DinSet /\ din'.valid
          /\ din'.data = OfferedData /\ din'.tag = OfferedTag /\ din'.lanes = OfferedLanes /\ (din'.rd <=> din.rd)
      BY ONLY <1>0, <1>1, <3>1, SeqOffer, Zenon
    <3> QED BY <3>2 DEF OfferedData, OfferedTag, OfferedLanes
  <2>2. CASE ~xfer_resetn
    <3>1. FreshXfer' /\ Quiet'
      BY <1>1, <2>2, ResetFields DEF FreshXfer, Quiet
    <3>2. CommandOk'
      BY <1>1, <1>2, <1>5, <1>50, <1>7, <2>1, <2>2, <3>1 DEF CommandOk, Quiet
    <3> QED BY <2>0, <2>1, <3>2 DEF Kept, RestartOk, RunningOk
  <2>3. CASE xfer_resetn /\ xfer.csb
    <3>1. FreshXfer' /\ Quiet'
      BY <1>1, <1>2, <1>7, <2>3, KeepFields DEF FreshXfer, Quiet
    <3>2. CommandOk'
      BY <1>1, <1>2, <1>5, <1>50, <1>7, <2>1, <2>3, <3>1 DEF CommandOk, Quiet
    <3> QED BY <2>0, <2>1, <3>2 DEF Kept, RestartOk, RunningOk
  <2>4. CASE xfer_resetn /\ ~xfer.csb
    <3>1. /\ ~xfer'.csb /\ (xfer'.busy <=> xfer.busy /\ ~done) /\ (xfer'.fetch <=> ~xfer.busy \/ done) /\ xfer'.tag = 0 /\ xfer'.lanes = 1
          /\ xfer'.dummy = 0 /\ xfer'.data = ReadCommand /\ xfer'.tag_q = 0 /\ ~xfer'.ddr_q /\ xfer'.last_fetch
      BY <1>1, <1>2, <1>7, <2>4, KeepFields DEF FreshXfer
    <3>2. CommandOk'
      BY <1>1, <1>2, <1>5, <1>50, <1>7, <2>1, <3>1 DEF CommandOk, FreshXfer
    <3> QED BY <2>0, <2>1, <3>2 DEF Kept, RestartOk, RunningOk
  <2> QED BY <2>2, <2>3, <2>4
<1>8. CASE Pending /\ din_ready(done)
  <2>0. ~Working
    BY <1>8 DEF Runs, ProgramInv, BusOk, Pending
  <2>1. /\ xfer_resetn' /\ state' = After /\ din' \in DinSet /\ ~din'.valid
        /\ din'.lanes = ConfiguredLanes /\ (din'.rd <=> din.rd)
    <3>1. ~Waits(Pending, req.addr) /\ ~jump(Pending, req.addr) /\ din_ready(done)
      BY <1>3, <1>30, <1>8 DEF jumps
    <3>2. /\ xfer_resetn' /\ state' = After /\ din' \in DinSet /\ ~din'.valid
          /\ din'.data = TakenData /\ din'.tag = OfferedTag /\ din'.lanes = OfferedLanes /\ (din'.rd <=> din.rd \/ state = 8)
      BY ONLY <1>0, <1>1, <3>1, SeqTake, Zenon
    <3>3. state = 5 /\ state # 8
      OBVIOUS
    <3> QED BY ONLY <3>2, <3>3, Zenon DEF OfferedLanes
  <2>2. state' = 6
    BY <2>1 DEF After
  <2>3. xfer_resetn /\ din.valid /\ next_fetch(done)
    BY <1>8 DEF din_ready
  <2>4. /\ ~xfer'.csb /\ xfer'.busy /\ xfer'.fetch /\ xfer'.tag = 0 /\ xfer'.lanes = ConfiguredLanes /\ xfer'.dummy = 0
        /\ xfer'.tag_q = 0 /\ xfer'.data = addr1 /\ ~xfer'.ddr_q /\ xfer'.last_fetch
    <3>1. xfer.busy => done
      BY <2>3 DEF next_fetch
    <3> QED BY <1>1, <1>2, <1>8, <2>3, <3>1, TakeFields DEF FreshXfer
  <2>5. first' /\ Leading' /\ TagOk'
    BY <1>5, <2>2, <2>4 DEF first, Late4, Late, Leading, TagOk
  <2>6. RunningOk'
    BY <1>1, <1>2, <1>5, <1>50, <1>8, <2>1, <2>2, <2>4, <2>5 DEF RunningOk
  <2> QED BY <2>0, <2>1, <2>2, <2>6 DEF Kept, RestartOk, CommandOk
<1> QED BY <1>6, <1>7, <1>8

(* While a word is read a byte is always on the wires, up to the last of the   *)
(* word: the next byte is taken when it ends.                                  *)
Turned(done) ==
  /\ config' = config /\ config.en /\ config \in ConfigSet /\ softreset' = FALSE /\ ConfiguredLanes' = ConfiguredLanes
  /\ xfer_resetn' /\ ~xfer'.csb /\ xfer'.busy /\ xfer'.tag_q = xfer.tag /\ xfer'.lanes = ConfiguredLanes
  /\ (xfer'.ddr_q <=> ConfiguredLanes = 8) /\ din' \in DinSet /\ din'.lanes = ConfiguredLanes
  /\ ~done => /\ state' = state /\ din'.valid /\ ~xfer'.fetch /\ xfer'.tag = xfer.tag /\ xfer'.data = xfer.data
              /\ xfer'.dummy = xfer.dummy /\ (din'.rd <=> din.rd) /\ din'.data = OfferedData /\ din'.tag = OfferedTag
  /\ done => /\ ~xfer.fetch /\ din.valid
             /\ state' = After /\ ~din'.valid /\ xfer'.fetch /\ xfer'.tag = OfferedTag /\ xfer'.data = din.data
             /\ xfer'.dummy = (IF din.rd THEN din.data ELSE 0) /\ (xfer'.last_fetch <=> ConfiguredLanes # 8)
             /\ (din'.rd <=> din.rd \/ state = 8) /\ din'.data = TakenData

LEMMA RunTurn ==
  ASSUME NEW done, Runs(done), state \in 6..11, ~jumps
  PROVE Turned(done)
<1>0. state \notin {1, 3} /\ state >= 6 /\ state # 12 /\ state # 5
  OBVIOUS
<1>1. /\ config' = config /\ config.en /\ config \in ConfigSet /\ softreset' = FALSE
      /\ Sequence(Pending, req.addr, done) /\ Transfer(done) /\ (done => xfer.busy /\ ~xfer.fetch)
      /\ TypesOk /\ req \in ReqSet /\ xfer \in XferSet /\ done \in BOOLEAN
  BY RunConfig DEF Runs, TypesOk
<1>2. /\ xfer_resetn /\ ~xfer.csb /\ xfer.busy /\ (din.valid <=> ~xfer.fetch)
      /\ xfer.lanes = ConfiguredLanes /\ din.lanes = ConfiguredLanes
      /\ din.valid => din.tag = OfferedTag
  BY <1>0 DEF Runs, ControlInv, RunningOk, OfferedTag
<1>3. ~jump(Pending, req.addr) /\ ~Waits(Pending, req.addr)
  BY <1>0 DEF jumps, Waits
<1>4. ConfiguredLanes' = ConfiguredLanes
  BY <1>1 DEF ConfiguredLanes
<1>5. OfferedLanes = ConfiguredLanes
  BY <1>0, <1>2 DEF OfferedLanes
<1>6. din_ready(done) <=> done
  BY <1>1, <1>2 DEF din_ready, next_fetch
<1>7. CASE ~done
  <2>0. ~din_ready(done)
    BY <1>6, <1>7
  <2>1. /\ xfer_resetn' /\ state' = state /\ din' \in DinSet /\ din'.valid
        /\ din'.data = OfferedData /\ din'.tag = OfferedTag /\ din'.lanes = OfferedLanes /\ (din'.rd <=> din.rd)
    BY ONLY <1>0, <1>1, <1>3, <2>0, SeqOffer, Zenon
  <2>2. /\ ~xfer'.csb /\ xfer'.busy /\ ~xfer'.fetch
        /\ xfer'.tag = xfer.tag /\ xfer'.lanes = xfer.lanes /\ xfer'.data = xfer.data /\ xfer'.dummy = xfer.dummy
        /\ xfer'.tag_q = xfer.tag /\ (xfer'.ddr_q <=> xfer.lanes = 8)
    BY <1>1, <1>2, <1>7, <2>0, KeepFields
  <2> QED BY <1>1, <1>2, <1>4, <1>5, <1>7, <2>1, <2>2 DEF Turned
<1>8. CASE done
  <2>0. din_ready(done) /\ ~xfer.fetch /\ din.valid
    BY <1>1, <1>2, <1>6, <1>8
  <2>1. /\ xfer_resetn' /\ state' = After /\ din' \in DinSet /\ ~din'.valid
        /\ din'.data = TakenData /\ din'.tag = OfferedTag /\ din'.lanes = OfferedLanes /\ (din'.rd <=> din.rd \/ state = 8)
    BY ONLY <1>0, <1>1, <1>3, <2>0, SeqTake, Zenon
  <2>2. /\ ~xfer'.csb /\ xfer'.busy /\ xfer'.fetch
        /\ xfer'.tag = din.tag /\ xfer'.lanes = din.lanes /\ xfer'.data = din.data
        /\ xfer'.dummy = (IF din.rd THEN din.data ELSE 0)
        /\ xfer'.tag_q = xfer.tag /\ (xfer'.ddr_q <=> xfer.lanes = 8)
        /\ (xfer'.last_fetch <=> (xfer.lanes = 8 => xfer.fetch))
    BY <1>1, <1>2, <1>8, <2>0, TakeFields
  <2> QED BY <1>1, <1>2, <1>4, <1>5, <1>8, <2>0, <2>1, <2>2 DEF Turned
<1> QED BY <1>1, <1>7, <1>8

(* The bytes before the first word.                                           *)
LEMMA RunLeading ==
  ASSUME NEW done, Runs(done), state \in 6..8 PROVE Kept
<1>1. /\ rd_valid <=> rd_inc
      /\ first /\ xfer.tag = 0 /\ xfer.tag_q = 0
      /\ din.rd <=> state >= 9 /\ wide
      /\ din.valid => /\ state = 6 => din.data = addr2
                      /\ state = 7 => din.data = addr3
                      /\ state = 8 => din.data = Mode8
      /\ xfer.dummy = 0 /\ (state = 8 => wide) /\ Pending
      /\ state = 6 => xfer.data = addr1
      /\ state = 7 => xfer.data = addr2
      /\ state = 8 => xfer.data = addr3
  <2>1. RunningOk /\ ~softreset /\ state >= 6 /\ state # 12 /\ state # 10 /\ Leading
    BY DEF Runs, ControlInv, Leading
  <2>2. xfer.tag = 0 /\ first /\ xfer.tag_q = 0
    BY <2>1 DEF RunningOk, TagOk
  <2>3. Pending
    BY <2>1, <2>2 DEF RunningOk, first
  <2> QED BY <2>1, <2>2, <2>3 DEF RunningOk, Mode8
<1>2. ~rd_valid /\ ~rd_inc /\ ~jumps /\ ~answers /\ req' = req
  BY <1>1, RunRequest DEF first
<1>3. ~A4(done)
  BY <1>1 DEF A4
<1>4. ~rd_valid' /\ ~rd_inc'
  BY <1>2, <1>3, RunWords
<1>5. /\ config' = config /\ config.en /\ config \in ConfigSet /\ softreset' = FALSE /\ ConfiguredLanes' = ConfiguredLanes
      /\ xfer_resetn' /\ ~xfer'.csb /\ xfer'.busy /\ xfer'.tag_q = 0 /\ xfer'.lanes = ConfiguredLanes
      /\ (xfer'.ddr_q <=> ConfiguredLanes = 8) /\ din' \in DinSet /\ din'.lanes = ConfiguredLanes
      /\ ~done => /\ state' = state /\ din'.valid /\ ~xfer'.fetch /\ xfer'.tag = 0 /\ xfer'.data = xfer.data
                  /\ xfer'.dummy = 0 /\ (din'.rd <=> din.rd) /\ din'.data = OfferedData /\ din'.tag = OfferedTag
      /\ done => /\ ~xfer.fetch /\ din.valid
                 /\ state' = After /\ ~din'.valid /\ xfer'.fetch /\ xfer'.tag = OfferedTag /\ xfer'.data = din.data
                 /\ xfer'.dummy = (IF din.rd THEN din.data ELSE 0) /\ (xfer'.last_fetch <=> ConfiguredLanes # 8)
                 /\ (din'.rd <=> din.rd \/ state = 8) /\ din'.data = TakenData
  <2>1. state \in 6..11
    OBVIOUS
  <2>2. Turned(done)
    BY <1>2, <2>1, RunTurn
  <2> QED BY ONLY <1>1, <2>2, Zenon DEF Turned
<1>6. Pending' /\ addr1' = addr1 /\ addr2' = addr2 /\ addr3' = addr3 /\ (wide' <=> wide) /\ Mode8' = Mode8
  <2>1. Pending' /\ addr1' = addr1 /\ addr2' = addr2 /\ addr3' = addr3
    BY <1>1, <1>2 DEF Pending, addr1, addr2, addr3
  <2>2. (wide' <=> wide) /\ Mode8' = Mode8
    BY <1>5 DEF wide, Mode8
  <2> QED BY <2>1, <2>2
<1>7. first'
  BY <1>4, <1>5 DEF first, Late4
<1>8. ~Working
  BY <1>1 DEF Runs, ProgramInv, BusOk, Pending
<1>9. done \in BOOLEAN
  BY DEF Runs
<1>10. CASE ~done
  <2>1. /\ din'.tag = 0 /\ ~din'.rd
        /\ state = 6 => din'.data = addr2
        /\ state = 7 => din'.data = addr3
        /\ state = 8 => din'.data = Mode8
    BY <1>1, <1>5, <1>10 DEF OfferedData, OfferedTag
  <2>2. RunningOk'
    BY <1>1, <1>4, <1>5, <1>6, <1>7, <1>10, <2>1 DEF RunningOk, TagOk, Leading, Mode8
  <2> QED BY <1>5, <1>8, <1>10, <2>2 DEF Kept, RestartOk, CommandOk
<1>11. CASE done
  <2>1. /\ xfer'.tag = 0 /\ xfer'.dummy = 0
        /\ state' = (IF state = 6 THEN 7 ELSE IF state = 7 THEN IF wide THEN 8 ELSE 9 ELSE 9)
        /\ (din'.rd <=> state = 8)
        /\ state = 7 => din'.data = 0
        /\ state = 8 => din'.data = config.dummy
    BY <1>1, <1>5, <1>11 DEF OfferedTag, After, wide, TakenData
  <2>2. RunningOk'
    BY <1>1, <1>4, <1>5, <1>6, <1>7, <1>11, <2>1 DEF RunningOk, TagOk, Leading, Mode8
  <2>3. state' \in 7..9
    BY <2>1
  <2> QED BY <1>5, <1>8, <1>11, <2>2, <2>3 DEF Kept, RestartOk, CommandOk
<1> QED BY <1>9, <1>10, <1>11

(* A jump: another word is asked for than the one that comes next.            *)
LEMMA RunHigh ==
  ASSUME NEW done, Runs(done), rd_valid PROVE state \in 6..12
<1>1. state \in 0..12 /\ RestartOk /\ CommandOk /\ ~softreset
  BY DEF Runs, ControlInv, TypesOk
<1>2. ~(state <= 3)
  BY <1>1 DEF RestartOk
<1>3. state \notin {4, 5}
  BY <1>1 DEF CommandOk
<1> QED BY <1>1, <1>2, <1>3

LEMMA RunJump ==
  ASSUME NEW done, Runs(done), jumps PROVE Kept
<1>1. /\ config' = config /\ config.en /\ config \in ConfigSet /\ softreset' = FALSE /\ (wide' \/ ~config'.cont)
      /\ Sequence(Pending, req.addr, done) /\ TypesOk /\ req \in ReqSet
  BY RunConfig
<1>2. Pending /\ rd_valid /\ ~answers /\ req' = req
  BY RunRequest
<1>3. state \in 6..12 /\ state \notin {1, 3}
  BY <1>2, RunHigh
<1>4. ~rd_valid' /\ ~rd_inc'
  BY RunWords
<1>5. /\ ~xfer_resetn' /\ state' = (IF config.cont THEN 5 ELSE 4)
      /\ din' \in DinSet /\ ~din'.rd /\ (~config.cont => din'.lanes = 1)
  BY <1>1, <1>3, SeqJump DEF jumps
<1>6. Pending'
  BY <1>2 DEF Pending
<1>7. ~Working
  BY <1>2 DEF Runs, ProgramInv, BusOk, Pending
<1>8. xfer_resetn' \in BOOLEAN /\ state' \in {4, 5}
  BY <1>1, <1>5 DEF Sequence
<1>9. CommandOk'
  BY <1>1, <1>4, <1>5, <1>6 DEF CommandOk
<1> QED BY <1>5, <1>7, <1>8, <1>9 DEF Kept, RestartOk, RunningOk

(* The bytes of a word: the first is the one that tag 4, the last of the word *)
(* before, or a mode byte makes way for.                                      *)
LEMMA RunFirst ==
  ASSUME NEW done, Runs(done), state = 9, ~jumps PROVE Kept
<1>1. /\ (rd_valid <=> rd_inc) /\ xfer.tag \in {0, 4}
      /\ xfer.busy /\ (din.valid <=> ~xfer.fetch)
      /\ ~xfer.fetch => xfer.tag_q = xfer.tag
      /\ xfer.fetch => xfer.tag_q = (IF xfer.tag = 0 THEN 0 ELSE 3)
      /\ (din.rd <=> wide)
      /\ din.data = (IF xfer.tag = 0 /\ wide THEN config.dummy ELSE 0)
      /\ xfer.dummy = 0 /\ (xfer.tag = 0 => first) /\ (~rd_inc => Pending)
      /\ xfer.tag = 0 => xfer.data = (IF wide THEN Mode8 ELSE addr3)
      /\ xfer.ddr_q <=> ConfiguredLanes = 8
  <2>1. RunningOk /\ ~softreset /\ state >= 6 /\ state # 12 /\ state # 10 /\ state # 6 /\ (Leading <=> xfer.tag = 0)
    BY DEF Runs, ControlInv, Leading
  <2>2. xfer.tag \in {0, 4} /\ xfer.busy /\ (din.valid <=> ~xfer.fetch)
    BY <2>1 DEF RunningOk, TagOk
  <2>3. (~xfer.fetch => xfer.tag_q = xfer.tag) /\ (xfer.fetch => xfer.tag_q = (IF xfer.tag = 0 THEN 0 ELSE 3))
    BY <2>1, <2>2 DEF RunningOk
  <2>4. /\ (rd_valid <=> rd_inc) /\ (din.rd <=> wide)
        /\ din.data = (IF xfer.tag = 0 /\ wide THEN config.dummy ELSE 0)
        /\ xfer.dummy = 0 /\ (xfer.tag = 0 => first) /\ (~rd_inc => Pending)
        /\ xfer.tag = 0 => xfer.data = (IF wide THEN Mode8 ELSE addr3)
        /\ xfer.ddr_q <=> ConfiguredLanes = 8
    BY <2>1 DEF RunningOk, Mode8
  <2> QED BY <2>2, <2>3, <2>4
<1>2. Turned(done) /\ done \in BOOLEAN
  BY RunTurn DEF Runs
<1>3. A4(done) <=> done /\ xfer.tag = 4 /\ ConfiguredLanes # 8
  <2>1. xfer_resetn
    BY DEF Runs, ControlInv, RunningOk
  <2>2. done => ~xfer.fetch
    BY <1>2 DEF Turned
  <2> QED BY <1>1, <1>2, <2>1, <2>2 DEF A4, dout_valid, next_fetch
<1>4. ~rd_inc => ~answers /\ Pending /\ req' = req
  BY <1>1, RunRequest
<1>5. /\ rd_valid' <=> rd_valid \/ A4(done)
      /\ rd_inc' <=> rd_inc \/ A4(done)
  BY RunWords
<1>6. ~rd_inc' => Pending' /\ addr3' = addr3
  BY <1>4, <1>5 DEF Pending, addr3
<1>7. (wide' <=> wide) /\ Mode8' = Mode8
  BY <1>2 DEF Turned, wide, Mode8
<1>8. Working => FALSE
  BY DEF Runs, ControlInv, ResetOk
<1>9. CASE ~done
  <2>1. /\ config' = config /\ config.en /\ softreset' = FALSE /\ ConfiguredLanes' = ConfiguredLanes
        /\ xfer_resetn' /\ ~xfer'.csb /\ xfer'.busy /\ xfer'.tag_q = xfer.tag /\ xfer'.lanes = ConfiguredLanes
        /\ (xfer'.ddr_q <=> ConfiguredLanes = 8) /\ din' \in DinSet /\ din'.lanes = ConfiguredLanes
        /\ state' = 9 /\ din'.valid /\ ~xfer'.fetch /\ xfer'.tag = xfer.tag /\ xfer'.data = xfer.data
        /\ xfer'.dummy = 0 /\ (din'.rd <=> wide) /\ din'.data = din.data /\ din'.tag = 1
    BY <1>1, <1>2, <1>9 DEF Turned, OfferedData, OfferedTag
  <2>2. first' <=> ~rd_inc'
    BY <2>1 DEF first, Late4, Late
  <2>3. xfer.tag = 0 => ~rd_inc'
    BY <1>1, <1>3, <1>5 DEF first
  <2>4. RunningOk'
    BY <1>1, <1>3, <1>5, <1>6, <1>7, <2>1, <2>2, <2>3 DEF RunningOk, TagOk, Leading, Mode8
  <2> QED BY <1>8, <2>1, <2>4 DEF Kept, RestartOk, CommandOk
<1>10. CASE done
  <2>1. /\ config' = config /\ config.en /\ softreset' = FALSE /\ ConfiguredLanes' = ConfiguredLanes
        /\ xfer_resetn' /\ ~xfer'.csb /\ xfer'.busy /\ xfer'.tag_q = xfer.tag /\ xfer'.lanes = ConfiguredLanes
        /\ (xfer'.ddr_q <=> ConfiguredLanes = 8) /\ din' \in DinSet /\ din'.lanes = ConfiguredLanes
        /\ state' = 10 /\ ~din'.valid /\ xfer'.fetch /\ xfer'.tag = 1
        /\ (xfer'.last_fetch <=> ConfiguredLanes # 8)
        /\ xfer'.dummy = (IF wide THEN din.data ELSE 0) /\ (din'.rd <=> wide)
    BY <1>1, <1>2, <1>10 DEF Turned, After, OfferedTag
  <2>2. xfer.tag = 0 => first' /\ ~rd_inc'
    BY <1>1, <1>3, <1>5, <2>1 DEF first, Late4
  <2>3. xfer.tag = 4 => ~first'
    BY <1>3, <1>5, <1>10, <2>1 DEF first, Late4, Late
  <2>4. RunningOk'
    BY <1>1, <1>3, <1>5, <1>6, <1>7, <2>1, <2>2, <2>3 DEF RunningOk, TagOk, Leading
  <2> QED BY <1>8, <2>1, <2>4 DEF Kept, RestartOk, CommandOk
<1> QED BY <1>2, <1>9, <1>10

LEMMA RunSecond ==
  ASSUME NEW done, Runs(done), state = 10, ~jumps PROVE Kept
<1>1. /\ (rd_valid <=> rd_inc) /\ xfer.tag = 1
      /\ xfer.busy /\ (din.valid <=> ~xfer.fetch)
      /\ ~xfer.fetch => xfer.tag_q = 1
      /\ xfer.fetch => xfer.tag_q = (IF first THEN 0 ELSE 4)
      /\ (din.rd <=> wide)
      /\ (din.valid => din.data = 0)
      /\ xfer.dummy = (IF first /\ wide THEN config.dummy ELSE 0) /\ (~rd_inc => Pending)
      /\ xfer.ddr_q => ConfiguredLanes = 8
  <2>1. RunningOk /\ ~softreset /\ state >= 6 /\ state # 12 /\ state # 6 /\ ~Leading
    BY DEF Runs, ControlInv, Leading
  <2>2. xfer.tag = 1 /\ xfer.busy /\ (din.valid <=> ~xfer.fetch)
    BY <2>1 DEF RunningOk, TagOk
  <2>3. (~xfer.fetch => xfer.tag_q = 1) /\ (xfer.fetch => xfer.tag_q = (IF first THEN 0 ELSE 4))
    BY <2>1, <2>2 DEF RunningOk
  <2>4. /\ (rd_valid <=> rd_inc) /\ (din.rd <=> wide)
        /\ (din.valid => din.data = 0)
        /\ xfer.dummy = (IF first /\ wide THEN config.dummy ELSE 0) /\ (~rd_inc => Pending)
        /\ xfer.ddr_q => ConfiguredLanes = 8
    BY <2>1 DEF RunningOk
  <2> QED BY <2>2, <2>3, <2>4
<1>2. Turned(done) /\ done \in BOOLEAN
  BY RunTurn DEF Runs
<1>3. A4(done) <=> Late4
  <2>1. xfer_resetn
    BY DEF Runs, ControlInv, RunningOk
  <2>2. done => ~xfer.fetch
    BY <1>2 DEF Turned
  <2> QED BY <1>1, <1>2, <2>1, <2>2 DEF A4, dout_valid, next_fetch, Late4, Late
<1>4. ~rd_inc => ~answers /\ Pending /\ req' = req
  BY <1>1, RunRequest
<1>5. /\ rd_valid' <=> rd_valid \/ A4(done)
      /\ rd_inc' <=> rd_inc \/ A4(done)
  BY RunWords
<1>6. ~rd_inc' => Pending'
  BY <1>4, <1>5 DEF Pending
<1>7. (wide' <=> wide) /\ ~Late4'
  BY <1>1, <1>2 DEF Turned, wide, Late4, Late
<1>70. first' <=> first
  BY <1>3, <1>5, <1>7 DEF first
<1>8. Working => FALSE
  BY DEF Runs, ControlInv, ResetOk
<1>9. CASE ~done
  <2>1. /\ config' = config /\ config.en /\ softreset' = FALSE /\ ConfiguredLanes' = ConfiguredLanes
        /\ xfer_resetn' /\ ~xfer'.csb /\ xfer'.busy /\ xfer'.tag_q = 1 /\ xfer'.lanes = ConfiguredLanes
        /\ (xfer'.ddr_q <=> ConfiguredLanes = 8) /\ din' \in DinSet /\ din'.lanes = ConfiguredLanes
        /\ state' = 10 /\ din'.valid /\ ~xfer'.fetch /\ xfer'.tag = 1
        /\ xfer'.dummy = xfer.dummy /\ (din'.rd <=> wide) /\ din'.data = 0 /\ din'.tag = 2
    BY <1>1, <1>2, <1>9 DEF Turned, OfferedData, OfferedTag
  <2>4. RunningOk'
    BY <1>1, <1>5, <1>6, <1>7, <1>70, <2>1 DEF RunningOk, TagOk, Leading
  <2> QED BY <1>8, <2>1, <2>4 DEF Kept, RestartOk, CommandOk
<1>10. CASE done
  <2>1. /\ config' = config /\ config.en /\ softreset' = FALSE /\ ConfiguredLanes' = ConfiguredLanes
        /\ xfer_resetn' /\ ~xfer'.csb /\ xfer'.busy /\ xfer'.tag_q = 1 /\ xfer'.lanes = ConfiguredLanes
        /\ (xfer'.ddr_q <=> ConfiguredLanes = 8) /\ din' \in DinSet /\ din'.lanes = ConfiguredLanes
        /\ state' = 11 /\ ~din'.valid /\ xfer'.fetch /\ xfer'.tag = 2
        /\ xfer'.dummy = 0 /\ (din'.rd <=> wide) /\ din'.data = 0
    BY <1>1, <1>2, <1>10 DEF Turned, After, OfferedTag, TakenData, OfferedData
  <2>4. RunningOk'
    BY <1>1, <1>5, <1>6, <1>7, <2>1 DEF RunningOk, TagOk, Leading
  <2> QED BY <1>8, <2>1, <2>4 DEF Kept, RestartOk, CommandOk
<1> QED BY <1>2, <1>9, <1>10

LEMMA RunThird ==
  ASSUME NEW done, Runs(done), state = 11, ~jumps PROVE Kept
<1>1. /\ (rd_valid <=> rd_inc) /\ xfer.tag = 2
      /\ xfer.busy /\ (din.valid <=> ~xfer.fetch)
      /\ xfer.tag_q \in {1, 2}
      /\ (din.rd <=> wide) /\ din.data = 0
      /\ xfer.dummy = 0 /\ (~rd_inc => Pending)
  <2>1. RunningOk /\ ~softreset /\ state >= 6 /\ state # 12 /\ state # 6 /\ state # 10 /\ ~Leading
    BY DEF Runs, ControlInv, Leading
  <2>2. xfer.tag = 2 /\ xfer.busy /\ (din.valid <=> ~xfer.fetch)
    BY <2>1 DEF RunningOk, TagOk
  <2>3. xfer.tag_q \in {1, 2}
    BY <2>1, <2>2 DEF RunningOk
  <2>4. /\ (rd_valid <=> rd_inc) /\ (din.rd <=> wide)
        /\ din.data = 0 /\ xfer.dummy = 0 /\ (~rd_inc => Pending)
    BY <2>1 DEF RunningOk
  <2> QED BY <2>2, <2>3, <2>4
<1>2. Turned(done) /\ done \in BOOLEAN
  BY RunTurn DEF Runs
<1>3. ~A4(done)
  BY <1>1 DEF A4
<1>4. ~rd_inc => ~answers /\ Pending /\ req' = req
  BY <1>1, RunRequest
<1>5. (rd_valid' <=> rd_valid) /\ (rd_inc' <=> rd_inc)
  BY <1>3, RunWords
<1>6. ~rd_inc' => Pending'
  BY <1>4, <1>5 DEF Pending
<1>7. wide' <=> wide
  BY <1>2 DEF Turned, wide
<1>8. Working => FALSE
  BY DEF Runs, ControlInv, ResetOk
<1>9. CASE ~done
  <2>1. /\ config' = config /\ config.en /\ softreset' = FALSE /\ ConfiguredLanes' = ConfiguredLanes
        /\ xfer_resetn' /\ ~xfer'.csb /\ xfer'.busy /\ xfer'.tag_q = 2 /\ xfer'.lanes = ConfiguredLanes
        /\ (xfer'.ddr_q <=> ConfiguredLanes = 8) /\ din' \in DinSet /\ din'.lanes = ConfiguredLanes
        /\ state' = 11 /\ din'.valid /\ ~xfer'.fetch /\ xfer'.tag = 2
        /\ xfer'.dummy = 0 /\ (din'.rd <=> wide) /\ din'.data = 0 /\ din'.tag = 3
    BY <1>1, <1>2, <1>9 DEF Turned, OfferedData, OfferedTag
  <2>4. RunningOk'
    BY <1>1, <1>5, <1>6, <1>7, <2>1 DEF RunningOk, TagOk, Leading
  <2> QED BY <1>8, <2>1, <2>4 DEF Kept, RestartOk, CommandOk
<1>10. CASE done
  <2>1. /\ config' = config /\ config.en /\ softreset' = FALSE /\ ConfiguredLanes' = ConfiguredLanes
        /\ xfer_resetn' /\ ~xfer'.csb /\ xfer'.busy /\ xfer'.tag_q = 2 /\ xfer'.lanes = ConfiguredLanes
        /\ (xfer'.ddr_q <=> ConfiguredLanes = 8) /\ din' \in DinSet /\ din'.lanes = ConfiguredLanes
        /\ state' = 12 /\ ~din'.valid /\ xfer'.fetch /\ xfer'.tag = 3
        /\ xfer'.dummy = 0 /\ (din'.rd <=> wide) /\ din'.data = 0
    BY <1>1, <1>2, <1>10 DEF Turned, After, OfferedTag, TakenData, OfferedData
  <2>4. RunningOk'
    BY <1>1, <1>5, <1>6, <1>7, <2>1 DEF RunningOk, TagOk, Leading
  <2> QED BY <1>8, <2>1, <2>4 DEF Kept, RestartOk, CommandOk
<1> QED BY <1>2, <1>9, <1>10

LEMMA RunFourth ==
  ASSUME NEW done, Runs(done), state = 12, ~jumps PROVE Kept
<1>0. /\ config' = config /\ config.en /\ config \in ConfigSet /\ softreset' = FALSE
      /\ Sequence(Pending, req.addr, done) /\ Transfer(done) /\ (done => xfer.busy /\ ~xfer.fetch)
      /\ TypesOk /\ req \in ReqSet /\ xfer \in XferSet /\ done \in BOOLEAN /\ state \notin {1, 3}
  <2>1. state \notin {1, 3}
    OBVIOUS
  <2> QED BY <2>1, RunConfig DEF Runs, TypesOk
<1>1. /\ (rd_valid <=> rd_inc) /\ xfer.tag = 3 /\ xfer_resetn /\ ~xfer.csb
      /\ (xfer.busy /\ xfer.fetch => ~din.valid) /\ (~xfer.busy => xfer.fetch) /\ (din.valid => ~rd_wait)
      /\ xfer.tag_q \in {2, 3} /\ (~(xfer.busy /\ xfer.fetch) => xfer.tag_q = 3)
      /\ (din.rd <=> wide) /\ din.data = 0 /\ (din.valid => din.tag = 4)
      /\ xfer.lanes = ConfiguredLanes /\ din.lanes = ConfiguredLanes
      /\ xfer.dummy = 0 /\ (~rd_inc => Pending)
  <2>1. RunningOk /\ ~softreset /\ state >= 6 /\ state # 6 /\ state # 10 /\ ~Leading
    BY DEF Runs, ControlInv, Leading
  <2>2. xfer.tag = 3
    BY <2>1 DEF RunningOk, TagOk
  <2>3. xfer.tag_q \in {2, 3} /\ (~(xfer.busy /\ xfer.fetch) => xfer.tag_q = 3)
    BY <2>1, <2>2 DEF RunningOk
  <2>4. /\ (rd_valid <=> rd_inc) /\ xfer_resetn /\ ~xfer.csb
        /\ (xfer.busy /\ xfer.fetch => ~din.valid) /\ (~xfer.busy => xfer.fetch) /\ (din.valid => ~rd_wait)
        /\ (din.rd <=> wide) /\ din.data = 0 /\ (din.valid => din.tag = 4)
        /\ xfer.lanes = ConfiguredLanes /\ din.lanes = ConfiguredLanes
        /\ xfer.dummy = 0 /\ (~rd_inc => Pending)
    BY <2>1 DEF RunningOk
  <2> QED BY <2>2, <2>3, <2>4
<1>3. ~A4(done)
  BY <1>1 DEF A4
<1>4. ~rd_inc => ~answers /\ Pending /\ req' = req
  BY <1>1, RunRequest
<1>5. (rd_valid' <=> rd_valid) /\ (rd_inc' <=> rd_inc) /\ (rd_wait' <=> ~Pending /\ rd_wait)
  BY <1>3, RunWords
<1>6. ~rd_inc' => Pending'
  BY <1>4, <1>5 DEF Pending
<1>7. (wide' <=> wide) /\ ConfiguredLanes' = ConfiguredLanes
  BY <1>0 DEF wide, ConfiguredLanes
<1>8. Working => FALSE
  BY DEF Runs, ControlInv, ResetOk
<1>9. ~jump(Pending, req.addr) /\ (Waits(Pending, req.addr) <=> rd_wait /\ ~Pending)
  BY DEF jumps, Waits
<1>10. ASSUME ~din_ready(done)
       PROVE /\ ~xfer'.csb /\ (xfer'.busy <=> xfer.busy /\ ~done) /\ (xfer'.fetch <=> ~xfer.busy \/ done) /\ xfer'.tag = 3
             /\ xfer'.tag_q = 3 /\ xfer'.lanes = ConfiguredLanes /\ xfer'.dummy = 0 /\ (xfer'.ddr_q <=> ConfiguredLanes = 8)
  BY <1>0, <1>1, <1>10, KeepFields
<1>11. CASE Waits(Pending, req.addr)
  <2>1. ~din_ready(done)
    BY <1>1, <1>9, <1>11 DEF din_ready
  <2>2. /\ xfer_resetn' /\ state' = 12 /\ din' \in DinSet /\ ~din'.valid
        /\ din'.data = din.data /\ din'.lanes = din.lanes /\ (din'.rd <=> din.rd)
    BY <1>0, <1>9, <1>11, SeqWait
  <2>3. RunningOk'
    BY <1>0, <1>1, <1>5, <1>6, <1>7, <1>10, <2>1, <2>2 DEF RunningOk, TagOk, Leading
  <2> QED BY <1>0, <1>8, <2>2, <2>3 DEF Kept, RestartOk, CommandOk
<1>12. CASE ~Waits(Pending, req.addr) /\ ~din_ready(done)
  <2>1. /\ xfer_resetn' /\ state' = state /\ din' \in DinSet /\ din'.valid
        /\ din'.data = OfferedData /\ din'.tag = OfferedTag /\ din'.lanes = OfferedLanes /\ (din'.rd <=> din.rd)
    BY <1>0, <1>9, <1>12, SeqOffer
  <2>2. state' = 12 /\ din'.data = 0 /\ din'.tag = 4 /\ din'.lanes = ConfiguredLanes
    BY <1>1, <2>1 DEF OfferedData, OfferedTag, OfferedLanes
  <2>3. ~rd_wait'
    BY <1>5, <1>9, <1>12
  <2>4. RunningOk'
    BY <1>0, <1>1, <1>5, <1>6, <1>7, <1>10, <1>12, <2>1, <2>2, <2>3 DEF RunningOk, TagOk, Leading
  <2> QED BY <1>0, <1>8, <2>1, <2>2, <2>4 DEF Kept, RestartOk, CommandOk
<1>13. CASE ~Waits(Pending, req.addr) /\ din_ready(done)
  <2>1. /\ xfer_resetn' /\ state' = After /\ din' \in DinSet /\ ~din'.valid
        /\ din'.data = TakenData /\ din'.lanes = OfferedLanes /\ (din'.rd <=> din.rd \/ state = 8)
    BY <1>0, <1>9, <1>13, SeqTake
  <2>2. state' = 9 /\ din'.data = 0 /\ din'.lanes = ConfiguredLanes /\ (din'.rd <=> wide)
    BY <1>1, <2>1 DEF OfferedData, TakenData, OfferedLanes, After
  <2>3. din.valid /\ (xfer.busy => done)
    BY <1>13 DEF din_ready, next_fetch
  <2>4. /\ ~xfer'.csb /\ xfer'.busy /\ xfer'.fetch /\ xfer'.tag = 4 /\ xfer'.lanes = ConfiguredLanes /\ xfer'.dummy = 0
        /\ xfer'.tag_q = 3 /\ (xfer'.ddr_q <=> ConfiguredLanes = 8)
    BY <1>0, <1>1, <1>13, <2>3, TakeFields
  <2>5. RunningOk'
    BY <1>0, <1>1, <1>5, <1>6, <1>7, <2>1, <2>2, <2>4 DEF RunningOk, TagOk, Leading
  <2> QED BY <1>0, <1>8, <2>1, <2>2, <2>5 DEF Kept, RestartOk, CommandOk
<1> QED BY <1>11, <1>12, <1>13

(* An edge at which the controller runs and its register is not written.      *)
LEMMA ControlRuns ==
  ASSUME NEW done, Runs(done) PROVE ControlInv'
<1>1. Kept
  <2>1. state \in 0..12
    BY DEF Runs, ControlInv, TypesOk
  <2>2. state \in {0, 2} \/ state \in {1, 3} \/ state = 4 \/ state = 5 \/ state \in 6..8 \/ state = 9 \/ state = 10
        \/ state = 11 \/ state = 12
    BY <2>1
  <2>3. jumps \/ ~jumps
    OBVIOUS
  <2> QED BY ONLY Runs(done), <2>2, <2>3, RunRestart, RunRestarted, RunCommand, RunFirstAddress, RunLeading, RunFirst, RunSecond,
             RunThird, RunFourth, RunJump
<1>2. xfer' \in XferSet /\ (xfer'.busy => ~xfer'.csb)
  BY RunXfer
<1>3. rd_valid' \in BOOLEAN /\ rd_inc' \in BOOLEAN /\ rd_wait' \in BOOLEAN /\ rd_addr' \in 0..(Space - 1)
  BY RunWords
<1>4. TypesOk'
  BY <1>1, <1>2, <1>3 DEF TypesOk, Kept
<1>5. softreset' = FALSE /\ ~softreset /\ (fetched => state >= 4 /\ (rd_valid \/ Pending))
  BY RunConfig DEF Runs, ControlInv, ResetOk
<1>6. ASSUME fetched' PROVE state' >= 4 /\ (rd_valid' \/ Pending')
  <2>1. CASE answers
    <3>1. rd_valid /\ ~jumps
      BY <2>1, RunRequest
    <3>2. state \in 6..12
      BY <3>1, RunHigh
    <3>3. rd_valid'
      BY <3>1, RunWords
    <3> QED BY <1>1, <3>2, <3>3 DEF Kept
  <2>2. CASE ~answers
    <3>1. fetched
      BY <1>6, <2>2, RunRequest
    <3>2. state' >= 4
      BY <1>1, <1>5, <3>1 DEF Kept
    <3>3. Pending => Pending'
      BY <2>2, RunRequest DEF Pending
    <3>4. ~Pending => rd_valid'
      BY <1>5, <3>1, RunRequest, RunWords
    <3> QED BY <3>2, <3>3, <3>4
  <2> QED BY <2>1, <2>2
<1>7. Working' => state' <= 4 \/ (state' = 5 /\ ~din'.valid)
  BY <1>1, RunRequest DEF Kept
<1>8. ResetOk'
  BY <1>2, <1>5, <1>6, <1>7 DEF ResetOk
<1> QED BY <1>1, <1>4, <1>8 DEF Kept, ControlInv

LEMMA ClearedDin ==
  ASSUME NEW d, d = [valid |-> FALSE, data |-> 0, tag |-> 0, lanes |-> 1, rd |-> FALSE]
  PROVE d \in DinSet /\ ~d.valid /\ d.tag = 0 /\ d.lanes = 1 /\ ~d.rd
<1>1. PICK x, z, m : x = FALSE /\ z = 0 /\ m = 1
  OBVIOUS
<1>20. z \in Nat /\ z \in 0..4 /\ m \in ModeSet
  BY <1>1 DEF ModeSet
<1>21. x \in BOOLEAN
  BY <1>1, Zenon
<1>2. x \in BOOLEAN /\ z \in Nat /\ z \in 0..4 /\ m \in ModeSet
  BY ONLY <1>20, <1>21, Zenon
<1>3. d = [valid |-> x, data |-> z, tag |-> z, lanes |-> m, rd |-> x]
  BY <1>1
<1>4. d \in DinSet /\ d.valid = x /\ d.tag = z /\ d.lanes = m /\ d.rd = x
  BY ONLY <1>2, <1>3 DEF DinSet
<1> QED BY ONLY <1>1, <1>4, Zenon

LEMMA HeldFields ==
  ASSUME Held
  PROVE /\ state' = 0 /\ ~xfer_resetn' /\ xfer_resetn' \in BOOLEAN /\ ~rd_valid' /\ rd_valid' \in BOOLEAN
        /\ ~din'.valid /\ din'.tag = 0 /\ din'.lanes = 1 /\ ~din'.rd /\ din' \in DinSet
        /\ rd_addr' = rd_addr /\ rd_wait' = rd_wait /\ rd_inc' = rd_inc /\ buffer' = Unread(3) /\ rdata' = Unread(4)
<1>1. din' = [valid |-> FALSE, data |-> 0, tag |-> 0, lanes |-> 1, rd |-> FALSE]
  BY DEF Held
<1>2. din' \in DinSet /\ ~din'.valid /\ din'.tag = 0 /\ din'.lanes = 1 /\ ~din'.rd
  BY ONLY <1>1, ClearedDin
<1> QED BY <1>2 DEF Held

LEMMA ControlHeld ==
  ASSUME ProgramInv, ControlInv, flash \in FlashSet, NEW done \in BOOLEAN, ClockEdge(done), softreset PROVE ControlInv'
<1>1. Held /\ Transfer(done)
  BY DEF ClockEdge, Edge
<1>2. /\ state' = 0 /\ ~xfer_resetn' /\ xfer_resetn' \in BOOLEAN /\ ~rd_valid' /\ rd_valid' \in BOOLEAN
      /\ ~din'.valid /\ din'.tag = 0 /\ din'.lanes = 1 /\ ~din'.rd /\ din' \in DinSet
      /\ rd_addr' = rd_addr /\ rd_wait' = rd_wait /\ rd_inc' = rd_inc
  BY <1>1, HeldFields
<1>3. TypesOk /\ (xfer.busy => ~xfer.csb) /\ (req.kind # "none" => ~rd_valid) /\ ~fetched
  BY DEF ControlInv, ResetOk
<1>4. xfer' \in XferSet /\ (xfer'.busy => ~xfer'.csb)
  <2>1. CASE ~xfer_resetn
    BY <1>1, <1>3, <2>1, ResetFields DEF TypesOk
  <2>2. CASE xfer_resetn
    <3>1. xfer' \in XferSet
      BY <1>1, <1>3, <2>2, TransferIs DEF TypesOk
    <3>2. /\ xfer'.csb = (xfer.csb /\ ~din_ready(done))
          /\ xfer'.busy = (din_ready(done) \/ (xfer.busy /\ ~done))
      BY <1>1, <2>2, TransferIs
    <3>3. xfer \in XferSet
      BY <1>3 DEF TypesOk
    <3> QED BY <1>3, <3>1, <3>2, <3>3
  <2> QED BY <2>1, <2>2
<1>5. TypesOk'
  BY <1>2, <1>3, <1>4 DEF TypesOk
<1>6. ~fetched'
  <2>1. Core /\ (ram_ready => req.kind = "ram")
    BY DEF ClockEdge, ProgramInv, BusOk
  <2>2. ASSUME mem_ready, Finish PROVE ~fetched'
    <3>1. spimem_valid /\ ~cfgreg_sel => FALSE
      BY <1>3, <2>1, <2>2 DEF spimem_valid, mem_ready, spimem_ready, ready, cfgreg_sel
    <3> QED BY <1>3, <2>2, <3>1 DEF Finish
  <2>3. ASSUME mem_ready, FinishOn PROVE ~fetched'
    <3>1. ~spimem_ready /\ (ram_ready => ~spimem_valid)
      BY <1>3, <2>1 DEF spimem_valid, spimem_ready, ready
    <3> QED BY <1>3, <2>3, <3>1 DEF FinishOn
  <2> QED BY <1>3, <2>1, <2>2, <2>3 DEF Core, Fetch, UseRam, WriteConfig, Key, program
<1>7. ResetOk'
  BY <1>2, <1>4, <1>6 DEF ResetOk
<1>8. RestartOk'
  BY <1>2 DEF RestartOk
<1> QED BY <1>2, <1>5, <1>7, <1>8 DEF ControlInv, CommandOk, RunningOk

LEMMA ControlWritten ==
  ASSUME ProgramInv, ControlInv, flash \in FlashSet, NEW done \in BOOLEAN, ClockEdge(done), ~softreset, req.kind = "config"
  PROVE ControlInv'
<1>1. softreset' = TRUE /\ req' = [req EXCEPT !.kind = "none"] /\ fetched' = FALSE
  BY BusEdge
<1>2. ~(cfgreg_sel /\ Op.act = "byte")
  <2>1. ASSUME cfgreg_sel, Op.act = "byte" PROVE FALSE
    <3>1. calls # <<>>
      BY BusEdge
    <3>2. Head(calls).act = "flashio"
      BY <2>1, <3>1, OpIs DEF ProgramInv
    <3>3. step >= 3 /\ step >= 2
      <4>1. step \in Nat
        BY <3>1, OpIs DEF ProgramInv
      <4>2. step >= 3
        BY <2>1, <3>1, <3>2, OpKinds DEF ProgramInv
      <4> QED BY <4>1, <4>2
    <3>4. Working /\ step >= 3
      BY <3>1, <3>2, <3>3 DEF Working
    <3>5. (config.en <=> ~(Working /\ step >= 3)) /\ (~config.en => softreset)
      BY DEF ProgramInv, RegisterOk
    <3> QED BY <3>4, <3>5, Zenon
  <2> QED BY <2>1
<1>3. Sequence(Pending, req.addr, done) /\ Words(Pending, req.addr, done) /\ Transfer(done)
  <2>1. spimem_valid = Pending
    BY DEF spimem_valid, Pending
  <2> QED BY <1>2, <2>1 DEF ClockEdge, Edge
<1>4. TypesOk /\ (xfer.busy => ~xfer.csb) /\ config \in ConfigSet /\ req \in ReqSet /\ xfer \in XferSet
  BY DEF ControlInv, ResetOk, ProgramInv, RegisterOk, BusOk, TypesOk
<1>5. ~Pending /\ ~jump(Pending, req.addr)
  BY DEF Pending, jump
<1>6. xfer' \in XferSet /\ (xfer'.busy => ~xfer'.csb)
  <2>1. CASE ~xfer_resetn
    BY <1>3, <1>4, <2>1, ResetFields DEF TypesOk
  <2>2. CASE xfer_resetn
    <3>1. xfer' \in XferSet
      BY <1>3, <1>4, <2>2, TransferIs DEF TypesOk
    <3>2. /\ xfer'.csb = (xfer.csb /\ ~din_ready(done))
          /\ xfer'.busy = (din_ready(done) \/ (xfer.busy /\ ~done))
      BY <1>3, <2>2, TransferIs
    <3> QED BY <1>4, <3>1, <3>2
  <2> QED BY <2>1, <2>2
<1>7. state' \in 0..12 /\ din' \in DinSet
  <2>0. state \in 0..12
    BY <1>4 DEF TypesOk
  <2>1. CASE state \in {1, 3} \/ Waits(Pending, req.addr)
    BY <1>3, <1>4, <1>5, <2>0, <2>1, SeqWait
  <2>2. CASE state \notin {1, 3} /\ ~Waits(Pending, req.addr) /\ din_ready(done)
    <3>1. state' = After /\ din' \in DinSet
      BY <1>3, <1>4, <1>5, <2>2, SeqTake
    <3> QED BY <2>0, <3>1 DEF After
  <2>3. CASE state \notin {1, 3} /\ ~Waits(Pending, req.addr) /\ ~din_ready(done)
    BY <1>3, <1>4, <1>5, <2>0, <2>3, SeqOffer
  <2> QED BY <2>1, <2>2, <2>3
<1>8. xfer_resetn' \in BOOLEAN
  BY <1>3 DEF Sequence
<1>9. rd_valid' \in BOOLEAN /\ rd_inc' \in BOOLEAN /\ rd_wait' \in BOOLEAN /\ rd_addr' \in 0..(Space - 1)
  <2>1. rd_valid' \in BOOLEAN /\ rd_inc' \in BOOLEAN /\ rd_wait' \in BOOLEAN
    BY <1>3 DEF Words
  <2>2. rd_addr' = rd_addr \/ rd_addr' = Wrap(rd_addr + 4) \/ rd_addr' = req.addr
    BY <1>3 DEF Words, Wrap
  <2>3. Wrap(rd_addr + 4) \in 0..(Space - 1)
    <3>1. Space \in Nat
      BY SpaceType
    <3>2. PICK n \in Int : n = rd_addr + 4
      BY <1>4, <3>1 DEF TypesOk
    <3> QED BY <3>2, WrapType
  <2>4. req.addr \in 0..(Space - 1)
    BY <1>4, AddressTypes
  <2> QED BY <1>4, <2>1, <2>2, <2>3, <2>4 DEF TypesOk
<1>10. TypesOk'
  BY <1>6, <1>7, <1>8, <1>9 DEF TypesOk
<1>11. req'.kind = "none"
  BY <1>1, <1>4 DEF ReqSet
<1>12. ResetOk'
  BY <1>1, <1>6, <1>11 DEF ResetOk
<1> QED BY <1>1, <1>10, <1>12 DEF ControlInv, RestartOk, CommandOk, RunningOk

LEMMA ControlNext ==
  ASSUME ProgramInv, ControlInv, flash \in FlashSet, NEW done \in BOOLEAN, ClockEdge(done) PROVE ControlInv'
<1>1. CASE softreset
  BY <1>1, ControlHeld
<1>2. CASE ~softreset /\ req.kind = "config"
  BY <1>2, ControlWritten
<1>3. CASE ~softreset /\ req.kind # "config"
  BY <1>3, ControlRuns DEF Runs
<1> QED BY <1>1, <1>2, <1>3

LEMMA ControlInit == ASSUME Init PROVE ControlInv
<1>1. /\ softreset = TRUE /\ state = 0 /\ xfer_resetn = FALSE /\ rd_addr = 0 /\ rd_valid = FALSE /\ rd_wait = FALSE /\ rd_inc = FALSE
      /\ fetched = FALSE
      /\ din = [valid |-> FALSE, data |-> 0, tag |-> 0, lanes |-> 1, rd |-> FALSE]
      /\ xfer = [csb |-> TRUE, busy |-> FALSE, fetch |-> TRUE, last_fetch |-> TRUE, tag |-> 0, tag_q |-> 0,
             lanes |-> 1, ddr_q |-> FALSE, data |-> 0, dummy |-> 0, ibuffer |-> Junk]
  BY DEF Init, Reset
<1>2. din \in DinSet
  BY <1>1, ClearedDin
<1>3. xfer \in XferSet /\ ~xfer.busy
  BY <1>1, JunkIs DEF XferSet, ModeSet
<1>4. rd_addr \in 0..(Space - 1)
  BY <1>1, SpaceType
<1>5. state \in 0..12 /\ xfer_resetn \in BOOLEAN /\ rd_valid \in BOOLEAN /\ rd_wait \in BOOLEAN /\ rd_inc \in BOOLEAN
  <2>1. state \in 0..12
    BY <1>1
  <2>2. xfer_resetn \in BOOLEAN /\ rd_valid \in BOOLEAN /\ rd_wait \in BOOLEAN /\ rd_inc \in BOOLEAN
    BY <1>1, Zenon
  <2> QED BY ONLY <2>1, <2>2, Zenon
<1>6. TypesOk
  BY ONLY <1>2, <1>3, <1>4, <1>5, Zenon DEF TypesOk
<1> QED BY <1>1, <1>3, <1>6 DEF ControlInv, ResetOk, RestartOk, CommandOk, RunningOk

-----------------------------------------------------------------------------
(* The flash: every edge keeps it in step with the controller.             *)

(* One step, seen by the flash.                                               *)
Steps(done) ==
  /\ ProgramInv /\ ControlInv /\ FlashInv /\ done \in BOOLEAN /\ ClockEdge(done)
  /\ ProgramInv' /\ ControlInv' /\ ~Losing
Same(g) == g \in FlashSet /\ g.latency = flash.latency /\ g.quad = flash.quad
ByteSent == req.kind = "config" /\ Op.act = "byte"
LEMMA StepFacts ==
  ASSUME NEW done, Steps(done)
  PROVE /\ TypesOk /\ ResetOk /\ RestartOk /\ CommandOk /\ RunningOk /\ ProgramOk /\ BusOk /\ RegisterOk
        /\ FlashOk /\ AgreeOk /\ SafeOk /\ StartOk /\ ManualOk /\ ReadyOk
        /\ TypesOk' /\ ResetOk' /\ RestartOk' /\ CommandOk' /\ RunningOk' /\ ProgramOk' /\ BusOk' /\ RegisterOk'
        /\ flash \in FlashSet /\ Short(flash.latency) /\ flash.latency \in LatencySet
        /\ config \in ConfigSet /\ config' \in ConfigSet
        /\ xfer \in XferSet /\ xfer' \in XferSet /\ done \in BOOLEAN /\ ClockEdge(done)
<1>1. /\ TypesOk /\ ResetOk /\ RestartOk /\ CommandOk /\ RunningOk /\ ProgramOk /\ BusOk /\ RegisterOk
      /\ FlashOk /\ AgreeOk /\ SafeOk /\ StartOk /\ ManualOk /\ ReadyOk
      /\ TypesOk' /\ ResetOk' /\ RestartOk' /\ CommandOk' /\ RunningOk' /\ ProgramOk' /\ BusOk' /\ RegisterOk'
      /\ done \in BOOLEAN /\ ClockEdge(done)
  BY DEF Steps, ProgramInv, ControlInv, FlashInv
<1>2. flash \in FlashSet /\ Short(flash.latency)
  BY <1>1 DEF FlashOk
<1>3. flash.latency \in LatencySet
  BY <1>2 DEF FlashSet
<1>4. config \in ConfigSet /\ config' \in ConfigSet
  BY <1>1 DEF RegisterOk
<1>5. xfer \in XferSet /\ xfer' \in XferSet
  BY <1>1 DEF TypesOk
<1> QED BY ONLY <1>1, <1>2, <1>3, <1>4, <1>5

(* A write that does not lose the flash.                                      *)
LEMMA WriteKeeps ==
  ASSUME NEW done, Steps(done), req.kind = "config"
  PROVE ProgramInv /\ (config'.cont => config'.qspi \/ config'.ddr) /\ (config.cont => config.qspi)
BY DEF Steps, Losing, cfgreg_sel

(* Without a write the program stays where it is, or takes up a new command.  *)
LEMMA ProgramSame ==
  ASSUME NEW done, Steps(done), req.kind # "config"
  PROVE /\ config' = config /\ board' = board /\ softreset' = ~config.en /\ step' = step
        /\ calls' = calls \/ calls = <<>>
        /\ Working' <=> Working
<1>1. board' = board /\ Core /\ config' = config /\ softreset' = ~config.en
  <2>1. ProgramInv /\ ClockEdge(done)
    BY DEF Steps
  <2> QED BY <2>1, BusEdge
<1>2. mem_ready /\ (Finish \/ FinishOn) => calls' = calls /\ step' = step
  BY DEF Finish, FinishOn, cfgreg_sel
<1>3. step' = step /\ (calls' = calls \/ calls = <<>>)
  BY <1>1, <1>2 DEF Core, Fetch, UseRam, WriteConfig, Key, program
<1>4. Working' <=> Working
  <2>1. CASE calls' = calls
    BY <1>3, <2>1 DEF Working
  <2>2. CASE calls = <<>>
    <3>1. step = 1
      BY <2>2, StepFacts DEF ProgramOk
    <3> QED BY <1>3, <2>2, <3>1 DEF Working
  <2> QED BY <1>3, <2>1, <2>2
<1> QED BY <1>1, <1>3, <1>4

(* The flash after an edge, from its pins.                                    *)
Traced(done, m) ==
  /\ ~(config.en /\ xfer.busy) => m = flash
  /\ config.en /\ xfer.busy /\ done => m = Transferred(flash, xfer.lanes, xfer.dummy, xfer.data)
  /\ config.en /\ xfer.busy /\ ~done => m = flash \/ (~(xfer_resetn /\ config'.en) /\ \E n \in 0..LastClock : m = Clocks(flash, n))

LEMMA Moves ==
  ASSUME NEW done, Steps(done), ~ByteSent
  PROVE /\ LastClock \in Nat
        /\ \E m : Pins(m) /\ Traced(done, m)
<1>1. Edge(spimem_valid, req.addr, cfgreg_sel, IF cfgreg_sel THEN Written(Op) ELSE config, done)
  BY DEF Steps, ClockEdge, ByteSent, cfgreg_sel
<1>2. xfer.lanes \in ModeSet /\ xfer.dummy \in Nat
  BY StepFacts DEF XferSet
<1>3. LastClock \in Nat
  BY <1>2, ClocksOfByte DEF LastClock
<1>4. \E clocks \in IF xfer.busy /\ ~(xfer_resetn /\ config'.en) THEN 0..LastClock ELSE {0} :
       \E moved \in {Moved(done, clocks)} : Pins(moved)
  BY <1>1, Zenon DEF Edge
<1>5. PICK clocks \in IF xfer.busy /\ ~(xfer_resetn /\ config'.en) THEN 0..LastClock ELSE {0} :
       \E moved \in {Moved(done, clocks)} : Pins(moved)
  BY <1>4
<1>6. PICK m : m = Moved(done, clocks) /\ Pins(m)
  BY <1>5
<1>7. clocks = 0 \/ (clocks \in 0..LastClock /\ ~(xfer_resetn /\ config'.en))
  BY <1>5, Zenon
<1>8. Clocks(flash, 0) = flash
  BY NoClocks
<1>9. ~(config.en /\ xfer.busy) => m = flash
  BY ONLY <1>6, Zenon DEF Moved
<1>10. config.en /\ xfer.busy /\ done => m = Transferred(flash, xfer.lanes, xfer.dummy, xfer.data)
  BY ONLY <1>6, Zenon DEF Moved
<1>11. config.en /\ xfer.busy /\ ~done => m = Clocks(flash, clocks)
  BY ONLY <1>6, Zenon DEF Moved
<1>12. Traced(done, m)
  <2>1. config.en /\ xfer.busy /\ ~done => m = flash \/ (~(xfer_resetn /\ config'.en) /\ \E n \in 0..LastClock : m = Clocks(flash, n))
    BY ONLY <1>7, <1>8, <1>11, Zenon
  <2> QED BY ONLY <1>9, <1>10, <2>1, Zenon DEF Traced
<1> QED BY <1>3, <1>6, <1>12

LEMMA PinsFields ==
  ASSUME NEW m, Pins(m)
  PROVE /\ PinCsb /\ ~PinCsb' => flash' = Selected(m)
        /\ ~PinCsb /\ PinCsb' => flash' = Deselected(m)
        /\ PinCsb /\ PinCsb' => flash' = m
        /\ ~PinCsb /\ ~PinCsb' => flash' = m
  BY Zenon DEF Pins

LEMMA ShortTail ==
  ASSUME NEW S, NEW q \in Seq(S), q # <<>>
  PROVE /\ Len(q) = 1 => Tail(q) = <<>>
        /\ Len(q) = 2 => Tail(q) # <<>> /\ Len(Tail(q)) = 1 /\ Tail(q)[1] = q[2]
<1>1. Tail(q) \in Seq(S) /\ Len(Tail(q)) = Len(q) - 1 /\ Len(q) \in Nat
  BY HeadTailProperties
<1>3. Len(Tail(q)) = 0 => Tail(q) = <<>>
  BY <1>1, EmptySeq
<1>2. Len(<<>>) = 0
  OBVIOUS
<1>4. Len(q) = 2 => Tail(q) # <<>> /\ Len(Tail(q)) = 1
  <2>1. Len(q) = 2 => Len(Tail(q)) = 1
    BY ONLY <1>1
  <2>2. Tail(q) = <<>> => Len(Tail(q)) = 0
    BY ONLY <1>2, Zenon
  <2> QED BY ONLY <2>1, <2>2
<1>5. Len(q) = 2 => Tail(q)[1] = q[2]
  BY <1>1
<1> QED BY <1>1, <1>3, <1>4, <1>5

(* The quad bit is written by the last call of the boot.                      *)
LEMMA BootHead ==
  ASSUME ProgramOk, Booting
  PROVE /\ calls # <<>> /\ Head(calls).act = "flashio" /\ Len(calls) \in {1, 2}
        /\ Len(calls) = 1 => QuadCall(board, Head(calls)) /\ Tail(calls) = <<>>
        /\ Len(calls) = 2 => /\ Plain(Head(calls)) /\ Tail(calls) # <<>> /\ Len(Tail(calls)) = 1
                             /\ QuadCall(board, Tail(calls)[1])
<1>1. PICK s : s = calls
  OBVIOUS
<1>2. PICK b : b = board
  OBVIOUS
<1>3. WellFormed(b, s) /\ s # <<>> /\ QuadCall(b, s[Len(s)])
  BY <1>1, <1>2 DEF ProgramOk, Booting
<1>4. /\ s \in Seq(CallSet)
      /\ \A k \in 1..Len(s) : CallOk(b, s[k]) \/ (k = Len(s) /\ k <= 2 /\ QuadCall(b, s[k]))
      /\ \A k \in 1..(Len(s) - 1) : Follows(b, s[k], s[k + 1])
  BY <1>3 DEF WellFormed
<1>5. PICK n : n = Len(s) /\ n \in Nat \ {0} /\ Head(s) = s[1]
  BY <1>3, <1>4
<1>6. n \in {1, 2}
  <2>1. n \in 1..Len(s)
    BY <1>5
  <2>2. ~CallOk(b, s[n])
    BY <1>3, <1>5, NotQuad
  <2> QED BY <1>4, <1>5, <2>1, <2>2
<1>7. ASSUME n = 1 PROVE Head(s).act = "flashio" /\ QuadCall(b, Head(s)) /\ Tail(s) = <<>>
  <2>1. Tail(s) = <<>>
    BY <1>3, <1>4, <1>5, <1>7, ShortTail
  <2> QED BY <1>3, <1>5, <1>7, <2>1 DEF QuadCall
<1>8. ASSUME n = 2
      PROVE Plain(Head(s)) /\ Head(s).act = "flashio" /\ Tail(s) # <<>> /\ Len(Tail(s)) = 1 /\ QuadCall(b, Tail(s)[1])
  <2>1. Follows(b, s[1], s[2])
    BY <1>4, <1>5, <1>8
  <2>2. Plain(s[1])
    BY <1>3, <1>5, <1>8, <2>1 DEF Follows
  <2>3. Tail(s) # <<>> /\ Len(Tail(s)) = 1 /\ Tail(s)[1] = s[2]
    BY <1>3, <1>4, <1>5, <1>8, ShortTail
  <2>4. QuadCall(b, Tail(s)[1])
    BY <1>3, <1>5, <1>8, <2>3
  <2>5. Plain(Head(s)) /\ Head(s).act = "flashio"
    BY <1>5, <2>2 DEF Plain
  <2> QED BY <2>3, <2>4, <2>5
<1> QED BY <1>1, <1>2, <1>3, <1>5, <1>6, <1>7, <1>8

LEMMA IcebreakerLatency ==
  LET l == latency(Icebreaker) IN l[DualRead] = 0 /\ l[QuadRead] = 4 /\ l[QuadDdrRead] = 7 /\ l \in LatencySet
<1>1. Icebreaker # Hx8k
  BY BoardNames
<1>2. PICK l : l = latency(Icebreaker)
  OBVIOUS
<1>3. l = [c \in WideReads |-> CASE c = DualRead -> 0 [] c = QuadRead -> 4 [] OTHER -> 7]
  BY <1>1, <1>2 DEF latency
<1>4. l[DualRead] = 0 /\ l[QuadRead] = 4 /\ l[QuadDdrRead] = 7
  BY <1>3 DEF WideReads, DualRead, QuadRead, QuadDdrRead
<1>5. l \in LatencySet
  BY <1>3 DEF LatencySet
<1> QED BY <1>2, <1>4, <1>5

LEMMA SameMode ==
  ASSUME config'.qspi = config.qspi, config'.ddr = config.ddr
  PROVE (wide' <=> wide) /\ ReadCommand' = ReadCommand /\ ConfiguredLanes' = ConfiguredLanes
<1>1. ConfiguredLanes' = ConfiguredLanes
  BY DEF ConfiguredLanes
<1> QED BY <1>1 DEF wide, ReadCommand

Agrees == \A c \in WideReads : flash.latency[c] = config.dummy
Between == calls # <<>> /\ LatencyCall(Head(calls)) /\ step <= 9
LEMMA AgreeKept ==
  ASSUME NEW done, Steps(done), req.kind # "config", Same(flash')
  PROVE AgreeOk'
<1>1. /\ config' = config /\ board' = board /\ step' = step /\ (calls' = calls \/ calls = <<>>)
      /\ flash'.latency = flash.latency /\ flash'.quad = flash.quad
  BY ProgramSame DEF Same
<1>2. AgreeOk
  BY StepFacts
<1>3. calls = <<>> => ~Booting /\ ~Between
  BY DEF Booting, Between
<1>4. calls' = calls => (Booting' <=> Booting) /\ (Between' <=> Between)
  BY <1>1 DEF Booting, Between
<1>5. ~flash'.quad => Booting' /\ (Len(calls') = 1 => step' <= 4 + Len(Data'))
  <2>1. CASE calls = <<>>
    BY <1>1, <1>2, <1>3, <2>1 DEF AgreeOk
  <2>2. CASE calls' = calls
    BY <1>1, <1>2, <1>4, <2>2 DEF AgreeOk, Data
  <2> QED BY <1>1, <2>1, <2>2
<1>6. (wide' <=> wide) /\ ReadCommand' = ReadCommand
  BY <1>1, SameMode
<1>7. board' = Icebreaker => flash'.latency = latency(Icebreaker)
  BY <1>1, <1>2 DEF AgreeOk
<1>8. board' = Icebreaker /\ wide' => config'.dummy = latency(Icebreaker)[ReadCommand']
  BY <1>1, <1>2, <1>6 DEF AgreeOk
<1>9. board' = Hx8k => \A c, e \in WideReads : flash'.latency[c] = flash'.latency[e]
  BY <1>1, <1>2 DEF AgreeOk
<1>10. board' = Hx8k /\ ~Between' => Agrees'
  BY <1>1, <1>2, <1>3, <1>4 DEF AgreeOk, Agrees, Between
<1>11. board' = Hx8k /\ ~(calls' # <<>> /\ LatencyCall(Head(calls')) /\ step' <= 9) =>
          \A c \in WideReads : flash'.latency[c] = config'.dummy
  BY <1>10 DEF Agrees, Between
<1> QED BY <1>5, <1>7, <1>8, <1>9, <1>11 DEF AgreeOk

(* A write that sends no byte: what the registers of the flash and of the     *)
(* controller have in common stays, by the order of the calls.                *)
LEMMA AgreeSet ==
  ASSUME NEW done, Steps(done), req.kind = "config", Head(calls).act # "flashio", Same(flash')
  PROVE AgreeOk'
<1>1. /\ board' = board /\ config' = Written(Op) /\ softreset' = TRUE /\ calls # <<>>
      /\ IF step < Len(Writes(Head(calls))) THEN step' = step + 1 /\ calls' = calls
         ELSE step' = 1 /\ calls' = Tail(calls)
  <2>1. ProgramInv /\ ClockEdge(done)
    BY DEF Steps
  <2> QED BY <2>1, BusEdge
<1>2. calls' = Tail(calls) /\ step' = 1
  <2>1. ProgramInv /\ (config'.cont => config'.qspi \/ config'.ddr)
    BY WriteKeeps
  <2> QED BY <1>1, <2>1, PlainWrite
<1>3. /\ AgreeOk /\ ProgramOk /\ config \in ConfigSet /\ config' \in ConfigSet
      /\ flash'.latency = flash.latency /\ flash'.quad = flash.quad
  BY StepFacts DEF Same
<1>4. flash.quad
  BY <1>3, BootHead DEF AgreeOk
<1>5. PICK c : c = Head(calls)
  OBVIOUS
<1>6. Op = c /\ c.act \in {"set", "crm", "toggle"}
  BY <1>1, <1>3, <1>5, OpIs
<1>7. ~LatencyCall(c) /\ ~Between
  BY <1>5, <1>6 DEF Between, LatencyCall
<1>8. WellFormed(board, calls)
  BY <1>3 DEF ProgramOk
<1>9. CallOk(board, c) /\ (NewLatency(board, c) => Tail(calls) # <<>> /\ LatencyCall(Head(Tail(calls))))
  <2>1. /\ CallOk(board, c) \/ QuadCall(board, c)
        /\ Tail(calls) # <<>> => Follows(board, c, Head(Tail(calls)))
        /\ Tail(calls) = <<>> => SameLast(calls, <<c>>)
    BY <1>1, <1>5, <1>8, TailWell
  <2>2. CallOk(board, c)
    BY <1>6, <2>1 DEF QuadCall
  <2>3. Tail(calls) = <<>> => ~NewLatency(board, c)
    <3>1. ~NewLatency(board, calls[Len(calls)])
      BY <1>1, <1>8 DEF WellFormed
    <3>2. <<c>>[Len(<<c>>)] = c
      OBVIOUS
    <3> QED BY <2>1, <3>1, <3>2 DEF SameLast
  <2>4. Tail(calls) # <<>> /\ NewLatency(board, c) => LatencyCall(Head(Tail(calls)))
    BY <2>1 DEF Follows
  <2> QED BY <2>2, <2>3, <2>4
<1>10. board' = Icebreaker => flash'.latency = latency(Icebreaker)
  BY <1>1, <1>3 DEF AgreeOk
<1>11. board' = Hx8k => \A d, e \in WideReads : flash'.latency[d] = flash'.latency[e]
  BY <1>1, <1>3 DEF AgreeOk
<1>12. /\ c.act = "set" =>
             /\ config'.ddr <=> "ddr" \in c.bits
             /\ config'.qspi <=> "qspi" \in c.bits
             /\ config'.dummy = (IF c.dummy = Keep THEN config.dummy ELSE c.dummy)
       /\ c.act # "set" => config'.ddr = config.ddr /\ config'.qspi = config.qspi /\ config'.dummy = config.dummy
  <2>1. PICK op : op = Op
    OBVIOUS
  <2>2. config' = Written(op) /\ op = c
    BY <1>1, <1>6, <2>1
  <2> QED BY <1>3, <1>6, <2>2, WrittenIs
<1>13. board' = Icebreaker /\ wide' => config'.dummy = latency(Icebreaker)[ReadCommand']
  <2>1. CASE c.act # "set"
    <3>1. (wide' <=> wide) /\ ReadCommand' = ReadCommand
      BY <1>12, <2>1, SameMode
    <3> QED BY <1>1, <1>3, <1>12, <2>1, <3>1 DEF AgreeOk
  <2>2. CASE c.act = "set" /\ board = Icebreaker
    <3>1. SetOk(board, c)
      BY <1>9, <2>2 DEF CallOk, Plain, LatencyCall
    <3>2. c.dummy = (IF "qspi" \in c.bits THEN IF "ddr" \in c.bits THEN 7 ELSE 4 ELSE 0)
      BY <2>2, <3>1, BoardNames DEF SetOk
    <3>3. config'.dummy = c.dummy
      BY <1>12, <2>2, <3>2 DEF Keep
    <3>4. config'.ddr \in BOOLEAN /\ config'.qspi \in BOOLEAN
      BY <1>3 DEF ConfigSet
    <3>5. CASE config'.qspi /\ config'.ddr
      <4>1. ReadCommand' = QuadDdrRead
        BY <3>5 DEF ReadCommand, ConfiguredLanes
      <4> QED BY <1>12, <2>2, <3>2, <3>3, <3>5, <4>1, IcebreakerLatency
    <3>6. CASE config'.qspi /\ ~config'.ddr
      <4>1. ReadCommand' = QuadRead
        BY <3>6 DEF ReadCommand, ConfiguredLanes
      <4> QED BY <1>12, <2>2, <3>2, <3>3, <3>6, <4>1, IcebreakerLatency
    <3>7. CASE ~config'.qspi /\ config'.ddr
      <4>1. ReadCommand' = DualRead
        BY <3>7 DEF ReadCommand, ConfiguredLanes
      <4> QED BY <1>12, <2>2, <3>2, <3>3, <3>7, <4>1, IcebreakerLatency
    <3>8. CASE ~config'.qspi /\ ~config'.ddr
      BY <3>8 DEF wide, ConfiguredLanes
    <3> QED BY <3>4, <3>5, <3>6, <3>7, <3>8
  <2> QED BY <1>1, <2>1, <2>2
<1>14. board' = Hx8k /\ ~(calls' # <<>> /\ LatencyCall(Head(calls')) /\ step' <= 9) =>
          \A d \in WideReads : flash'.latency[d] = config'.dummy
  <2>1. SUFFICES ASSUME board = Hx8k, ~(calls' # <<>> /\ LatencyCall(Head(calls'))) PROVE \A d \in WideReads : flash'.latency[d] = config'.dummy
    BY <1>1, <1>2
  <2>2. \A d \in WideReads : flash.latency[d] = config.dummy
    BY <1>3, <1>7, <2>1 DEF AgreeOk, Between
  <2>3. ~NewLatency(board, c)
    BY <1>2, <1>9, <2>1
  <2>4. config'.dummy = config.dummy
    BY <1>12, <2>1, <2>3 DEF NewLatency
  <2> QED BY <1>3, <2>2, <2>4
<1> QED BY <1>3, <1>4, <1>10, <1>11, <1>13, <1>14 DEF AgreeOk

LEMMA AgreeWorker ==
  ASSUME NEW done, Steps(done), req.kind = "config", Head(calls).act = "flashio", Same(flash'),
         Op.act = "byte" => Sent < Len(Data) - 1 \/ Wren = 0
  PROVE AgreeOk'
<1>1. /\ board' = board /\ config' = Written(Op) /\ softreset' = TRUE /\ calls # <<>>
      /\ IF step < Len(Writes(Head(calls))) THEN step' = step + 1 /\ calls' = calls
         ELSE step' = 1 /\ calls' = Tail(calls)
  <2>1. ProgramInv /\ ClockEdge(done)
    BY DEF Steps
  <2> QED BY <2>1, BusEdge
<1>2. /\ config'.ddr = config.ddr /\ config'.qspi = config.qspi /\ config'.dummy = config.dummy
      /\ IF Op.act = "memio" THEN step' = 1 /\ calls' = Tail(calls) ELSE step' = step + 1 /\ calls' = calls
  <2>1. ProgramInv /\ (config.cont => config.qspi)
    BY WriteKeeps
  <2> QED BY <1>1, <2>1, WorkerWrite
<1>3. /\ AgreeOk /\ ProgramOk /\ flash'.latency = flash.latency /\ flash'.quad = flash.quad
  BY StepFacts DEF Same
<1>4. /\ Data \in Seq(Nat) /\ Len(Data) \in Nat \ {0} /\ Wren \in Nat /\ step \in Nat \ {0}
  BY <1>1, <1>3, OpIs
<1>5. /\ step = Last <=> Op.act = "memio"
      /\ Sent \in Int /\ Last \in Nat
      /\ Op.act # "memio" => step <= 3 + Len(Data) \/ Wren = 0
  <2>1. /\ Sent \in Int /\ Last \in Nat /\ step \in 1..Last
        /\ step = Last <=> Sent = Len(Data)
        /\ \/ step = 1 /\ Op.act = "enter"
           \/ step = 2 /\ Op.act = "manual"
           \/ step = 3 /\ Wren # 0 /\ Op.act = "byte"
           \/ step = 4 /\ Wren # 0 /\ Op.act = "release"
           \/ step >= 3 /\ step = Sent + Before(Wren) + 1 /\ Sent \in 0..(Len(Data) - 1) /\ Op.act = "byte"
           \/ step = Last /\ Op.act = "memio" /\ Sent = Len(Data)
    BY <1>1, <1>3, OpKinds
  <2>2. Wren # 0 => Sent = step - 5 /\ Last = 4 + Len(Data) + 1 /\ Before(Wren) = 4
    BY <1>4 DEF Sent, Last, Before
  <2>3. Wren = 0 => Sent = step - 3 /\ Last = 2 + Len(Data) + 1 /\ Before(Wren) = 2
    BY <1>4 DEF Sent, Last, Before
  <2>4. step = Last <=> Op.act = "memio"
    BY <1>4, <2>1, <2>2, <2>3
  <2>5. Op.act # "memio" => step <= 3 + Len(Data) \/ Wren = 0
    BY <1>4, <2>1, <2>2, <2>3
  <2> QED BY <2>1, <2>4, <2>5
<1>6. (wide' <=> wide) /\ ReadCommand' = ReadCommand
  BY <1>2, SameMode
<1>7. board' = Icebreaker => flash'.latency = latency(Icebreaker)
  BY <1>1, <1>3 DEF AgreeOk
<1>8. board' = Hx8k => \A d, e \in WideReads : flash'.latency[d] = flash'.latency[e]
  BY <1>1, <1>3 DEF AgreeOk
<1>9. board' = Icebreaker /\ wide' => config'.dummy = latency(Icebreaker)[ReadCommand']
  BY <1>1, <1>2, <1>3, <1>6 DEF AgreeOk
<1>10. ASSUME ~flash.quad PROVE Booting' /\ (Len(calls') = 1 => step' <= 4 + Len(Data'))
  <2>1. Booting /\ (Len(calls) = 1 => step <= 4 + Len(Data))
    BY <1>3, <1>10 DEF AgreeOk
  <2>2. /\ Len(calls) \in {1, 2}
        /\ Len(calls) = 1 => QuadCall(board, Head(calls))
        /\ Len(calls) = 2 => Tail(calls) # <<>> /\ Len(Tail(calls)) = 1 /\ QuadCall(board, Tail(calls)[1])
    BY <1>3, <2>1, BootHead
  <2>3. CASE Op.act = "memio"
    <3>1. Len(calls) # 1
      <4>1. SUFFICES ASSUME Len(calls) = 1 PROVE FALSE
        OBVIOUS
      <4>2. Wren # 0
        BY <2>2, <4>1 DEF QuadCall, Wren
      <4>3. Last = 4 + Len(Data) + 1
        BY <1>4, <4>2 DEF Last, Before
      <4> QED BY <1>4, <1>5, <2>1, <2>3, <4>1, <4>3
    <3>2. step' = 1 /\ calls' = Tail(calls)
      BY <1>2, <2>3
    <3>3. Booting'
      BY <1>1, <2>2, <3>1, <3>2 DEF Booting
    <3>4. PICK n : n = Len(Data')
      OBVIOUS
    <3>5. Data' \in Seq(Nat)
      <4>1. ProgramOk' /\ calls' # <<>> /\ Head(calls').act = "flashio"
        <5>1. calls' # <<>> /\ Head(calls') = calls'[1] /\ QuadCall(board, calls'[1])
          BY <2>2, <3>1, <3>2
        <5> QED BY <5>1, StepFacts DEF QuadCall
      <4>2. Head(calls') \in CallSet /\ (CallOk(board', Head(calls')) \/ QuadCall(board', Head(calls')))
        <5>1. WellFormed(board', calls')
          BY <4>1 DEF ProgramOk
        <5> QED BY <4>1, <5>1, TailWell
      <4> QED BY <4>1, <4>2, DataLength DEF Data
    <3>6. 1 <= 4 + n
      BY <3>4, <3>5
    <3> QED BY <3>2, <3>3, <3>4, <3>6
  <2>4. CASE Op.act # "memio"
    <3>1. step' = step + 1 /\ calls' = calls
      BY <1>2, <2>4
    <3>2. Booting'
      BY <1>1, <2>1, <3>1 DEF Booting
    <3>3. Len(calls) = 1 => Wren # 0
      BY <2>2 DEF QuadCall, Wren
    <3>4. Data' = Data
      BY <3>1 DEF Data
    <3>5. Len(calls) = 1 => step + 1 <= 4 + Len(Data)
      BY <1>4, <1>5, <2>4, <3>3
    <3> QED BY <3>1, <3>2, <3>4, <3>5
  <2> QED BY <2>3, <2>4
<1>11. board' = Hx8k /\ ~(calls' # <<>> /\ LatencyCall(Head(calls')) /\ step' <= 9) =>
          \A d \in WideReads : flash'.latency[d] = config'.dummy
  <2>1. SUFFICES ASSUME board = Hx8k, ~(calls' # <<>> /\ LatencyCall(Head(calls')) /\ step' <= 9)
                 PROVE \A d \in WideReads : flash'.latency[d] = config'.dummy
    BY <1>1
  <2>2. ~(LatencyCall(Head(calls)) /\ step <= 9)
    <3>1. SUFFICES ASSUME LatencyCall(Head(calls)), step <= 9 PROVE FALSE
      OBVIOUS
    <3>2. Len(Data) = 5 /\ Wren # 0
      BY <3>1 DEF LatencyCall, Data, Wren
    <3>3. Last = 10
      BY <3>2 DEF Last, Before
    <3>4. Op.act # "memio" /\ step <= 8
      BY <1>4, <1>5, <3>1, <3>2, <3>3
    <3> QED BY <1>1, <1>2, <1>4, <2>1, <3>1, <3>4
  <2>3. \A d \in WideReads : flash.latency[d] = config.dummy
    BY <1>3, <2>1, <2>2 DEF AgreeOk
  <2> QED BY <1>2, <1>3, <2>3
<1> QED BY <1>3, <1>7, <1>8, <1>9, <1>10, <1>11 DEF AgreeOk

(* What flashio sends: the commands are no reads, and those that write a      *)
(* register follow the byte that enables writes.                              *)
AnyData == Len(Data) = 5 /\ Data[1] = WriteAnyRegister
StatusData == Len(Data) = 2 /\ Data[1] = WriteStatus2
LEMMA SentCalls ==
  ASSUME ProgramOk, calls # <<>>, Head(calls).act = "flashio"
  PROVE /\ Data \in Seq(Nat) /\ Len(Data) \in Nat \ {0} /\ Data[1] \notin WideReads \cup {Read} /\ Wren \in Nat
        /\ Wren = 0 => \A k \in 1..Len(Data) : Data[k] \notin WriteEnables \cup {StayInXip}
        /\ Wren # 0 => Wren \in WriteEnables /\ (AnyData \/ StatusData) /\ ~Plain(Head(calls))
        /\ Wren # 0 /\ LatencyCall(Head(calls)) => AnyData /\ board = Hx8k /\ Data[4] = LatencyRegister /\ Data[5] \in 1..8
        /\ Wren # 0 /\ ~LatencyCall(Head(calls)) => QuadCall(board, Head(calls)) /\ (AnyData => Data[4] = QuadRegister)
<1>1. PICK c : c = Head(calls)
  OBVIOUS
<1>2. c.act = "flashio" /\ c \in CallSet /\ (CallOk(board, c) \/ QuadCall(board, c))
  BY <1>1, TailWell DEF ProgramOk
<1>3. PICK d : d = c.data
  OBVIOUS
<1>4. PICK w : w = c.wrencmd
  OBVIOUS
<1>5. d = Data /\ w = Wren
  BY <1>1, <1>3, <1>4 DEF Data, Wren
<1>6. d \in Seq(Nat) /\ Len(d) \in Nat \ {0} /\ w \in Nat
  BY <1>2, <1>3, <1>4, DataLength
<1>7. \/ Plain(c)
      \/ board = Hx8k /\ LatencyCall(c)
      \/ QuadCall(board, c)
  BY <1>2 DEF CallOk
<1>8. LatencyCall(c) => w = 6 /\ Len(d) = 5 /\ d[1] = WriteAnyRegister /\ d[4] = LatencyRegister /\ d[5] \in 1..8
  BY <1>3, <1>4 DEF LatencyCall
<1>9. QuadCall(board, c) =>
        \/ board = Hx8k /\ w = 6 /\ Len(d) = 5 /\ d[1] = WriteAnyRegister /\ d[4] = QuadRegister
        \/ board # Hx8k /\ w = 80 /\ Len(d) = 2 /\ d[1] = WriteStatus2
  BY <1>3, <1>4 DEF QuadCall
<1>10. Plain(c) => w = 0 /\ d[1] \notin WideReads \cup {Read}
                 /\ \A k \in 1..Len(d) : d[k] \notin WriteEnables \cup {StayInXip}
  BY <1>3, <1>4 DEF Plain
<1>11. {WriteAnyRegister, WriteStatus2} \cap (WideReads \cup {Read}) = {} /\ {6, 80} \subseteq WriteEnables
       /\ WriteAnyRegister # WriteStatus2 /\ LatencyRegister # QuadRegister
  BY DEF WriteAnyRegister, WriteStatus2, WideReads, DualRead, QuadRead, QuadDdrRead, Read, WriteEnables, LatencyRegister, QuadRegister
<1>12. d[1] \notin WideReads \cup {Read}
  BY <1>7, <1>8, <1>9, <1>10, <1>11
<1>13. w = 0 => \A k \in 1..Len(d) : d[k] \notin WriteEnables \cup {StayInXip}
  BY <1>7, <1>8, <1>9, <1>10
<1>14. w # 0 => w \in WriteEnables /\ ~Plain(c)
                /\ ((Len(d) = 5 /\ d[1] = WriteAnyRegister) \/ (Len(d) = 2 /\ d[1] = WriteStatus2))
  BY <1>7, <1>8, <1>9, <1>10, <1>11
<1>15. w # 0 /\ LatencyCall(c) => Len(d) = 5 /\ d[1] = WriteAnyRegister /\ board = Hx8k /\ d[4] = LatencyRegister /\ d[5] \in 1..8
  BY <1>7, <1>8, <1>9, <1>10, <1>11
<1>16. w # 0 /\ ~LatencyCall(c) => QuadCall(board, c) /\ (Len(d) = 5 /\ d[1] = WriteAnyRegister => d[4] = QuadRegister)
  BY <1>7, <1>9, <1>10, <1>11
<1> QED BY <1>1, <1>5, <1>6, <1>12, <1>13, <1>14, <1>15, <1>16 DEF AnyData, StatusData

(* The pins are the worker's.                                                 *)
LEMMA ManualIs ==
  ASSUME NEW done, Steps(done), ~config.en
  PROVE /\ softreset /\ calls # <<>> /\ Head(calls).act = "flashio" /\ step \in Nat /\ step >= 3 /\ Working
        /\ PinCsb <=> (step = 3 \/ (step = 5 /\ Wren # 0))
        /\ softreset' /\ StartOk' /\ ReadyOk'
        /\ Last \in Nat /\ step \in 1..Last /\ Last >= 4 /\ (Wren # 0 => Last >= 6)
<1>1. ProgramOk /\ RegisterOk /\ BusOk
  BY StepFacts
<1>2. Working /\ step >= 3 /\ softreset /\ (config.csb <=> (step = 3 \/ (step = 5 /\ Wren # 0)))
  BY <1>1 DEF RegisterOk, Wren
<1>3. calls # <<>> /\ Head(calls).act = "flashio"
  BY <1>2 DEF Working
<1>4. PinCsb <=> config.csb
  BY DEF PinCsb
<1>5. softreset'
  <2>1. ProgramInv /\ ClockEdge(done)
    BY DEF Steps
  <2> QED BY <2>1, BusEdge
<1>6. Last \in Nat /\ step \in 1..Last /\ step \in Nat
  BY <1>1, <1>3, OpKinds
<1>7. Len(Data) \in Nat \ {0} /\ Wren \in Nat
  BY <1>1, <1>3, SentCalls
<1>8. Wren # 0 => Len(Data) >= 2
  <2>1. Wren # 0 => AnyData \/ StatusData
    BY <1>1, <1>3, SentCalls
  <2> QED BY ONLY <2>1 DEF AnyData, StatusData
<1>9. Last >= 4 /\ (Wren # 0 => Last >= 6)
  BY <1>7, <1>8 DEF Last, Before
<1> QED BY <1>2, <1>3, <1>4, <1>5, <1>6, <1>9 DEF StartOk, ReadyOk

LEMMA ManualWaits ==
  ASSUME NEW done, Steps(done), ~config.en, req.kind # "config" PROVE FlashInv'
<1>1. calls # <<>> /\ StartOk' /\ ReadyOk'
  BY ManualIs
<1>2. config' = config /\ step' = step /\ calls' = calls
  BY <1>1, ProgramSame
<1>3. PinCsb' <=> PinCsb
  BY <1>2 DEF PinCsb
<1>4. flash' = flash
  <2>1. PICK m : Pins(m) /\ Traced(done, m)
    BY Moves DEF ByteSent
  <2>2. m = flash
    BY <2>1 DEF Traced
  <2> QED BY <1>3, <2>1, <2>2, PinsFields
<1>5. FlashOk' /\ AgreeOk'
  <2>1. FlashOk /\ flash \in FlashSet
    BY StepFacts
  <2>2. Same(flash')
    BY <1>4, <2>1 DEF Same
  <2> QED BY <1>3, <1>4, <2>1, <2>2, AgreeKept DEF FlashOk
<1>6. ManualOk' /\ SafeOk'
  <2>1. ManualOk
    BY StepFacts
  <2>2. Wren' = Wren /\ Data' = Data
    BY <1>2 DEF Wren, Data
  <2>3. Sent' = Sent
    BY <1>2, <2>2 DEF Sent
  <2>4. ManualOk'
    BY <1>2, <1>4, <2>1, <2>2, <2>3 DEF ManualOk
  <2> QED BY <1>2, <2>4 DEF SafeOk
<1> QED BY <1>1, <1>5, <1>6 DEF FlashInv

LEMMA WorkerStep ==
  ASSUME NEW done, Steps(done), req.kind = "config", Head(calls).act = "flashio"
  PROVE /\ calls # <<>> /\ board' = board /\ softreset'
        /\ config'.ddr = config.ddr /\ config'.qspi = config.qspi /\ config'.cont = config.cont /\ config'.dummy = config.dummy
        /\ config'.en = (IF Op.act = "manual" THEN FALSE ELSE IF Op.act = "memio" THEN TRUE ELSE config.en)
        /\ config'.csb = (IF Op.act \in {"enter", "release"} THEN TRUE ELSE IF Op.act = "byte" THEN FALSE ELSE config.csb)
        /\ IF Op.act = "memio" THEN step' = 1 /\ calls' = Tail(calls)
           ELSE step' = step + 1 /\ calls' = calls /\ Wren' = Wren /\ Data' = Data
        /\ StartOk' /\ ReadyOk'
<1>1. ProgramInv /\ ClockEdge(done)
  BY DEF Steps
<1>2. /\ board' = board /\ config' = Written(Op) /\ softreset' = TRUE /\ calls # <<>>
      /\ IF step < Len(Writes(Head(calls))) THEN step' = step + 1 /\ calls' = calls
         ELSE step' = 1 /\ calls' = Tail(calls)
  BY <1>1, BusEdge
<1>3. /\ config'.ddr = config.ddr /\ config'.qspi = config.qspi /\ config'.cont = config.cont /\ config'.dummy = config.dummy
      /\ config'.en = (IF Op.act = "manual" THEN FALSE ELSE IF Op.act = "memio" THEN TRUE ELSE config.en)
      /\ config'.csb = (IF Op.act \in {"enter", "release"} THEN TRUE ELSE IF Op.act = "byte" THEN FALSE ELSE config.csb)
      /\ IF Op.act = "memio" THEN step' = 1 /\ calls' = Tail(calls) ELSE step' = step + 1 /\ calls' = calls
  BY <1>1, <1>2, WriteKeeps, WorkerWrite
<1>4. calls' = calls => Wren' = Wren /\ Data' = Data
  BY DEF Wren, Data
<1>5. softreset' /\ StartOk' /\ ReadyOk'
  BY <1>2 DEF StartOk, ReadyOk
<1> QED BY <1>2, <1>3, <1>4, <1>5

LEMMA ManualRelease ==
  ASSUME NEW done, Steps(done), ~config.en, req.kind = "config", Op.act = "release" PROVE FlashInv'
<1>1. /\ softreset /\ calls # <<>> /\ Head(calls).act = "flashio" /\ step \in Nat /\ step >= 3
      /\ PinCsb <=> (step = 3 \/ (step = 5 /\ Wren # 0))
  BY ManualIs
<1>2. /\ config'.cont = config.cont /\ config'.en = config.en /\ config'.csb = TRUE
      /\ step' = step + 1 /\ calls' = calls /\ Wren' = Wren /\ Data' = Data /\ StartOk' /\ ReadyOk'
  BY <1>1, WorkerStep
<1>3. step = 4 /\ Wren # 0 /\ Len(Data) \in Nat \ {0}
  <2>1. ProgramOk
    BY StepFacts
  <2> QED BY <1>1, <2>1, OpKinds, SentCalls
<1>4. ~PinCsb /\ PinCsb'
  BY <1>1, <1>2, <1>3 DEF PinCsb
<1>5. flash' = Deselected(flash)
  <2>1. PICK m : Pins(m) /\ Traced(done, m)
    BY Moves DEF ByteSent
  <2>2. m = flash
    BY <2>1 DEF Traced
  <2> QED BY <1>4, <2>1, <2>2, PinsFields
<1>6. PICK g : g = flash'
  OBVIOUS
<1>7. /\ g \in FlashSet /\ g.bitcount = 0 /\ g.bytecount = 0 /\ g.mode = 1
      /\ g.xip_cmd = flash.xip_cmd /\ g.dummycount = flash.dummycount /\ g.latency = flash.latency
      /\ g.write_enabled = flash.write_enabled /\ g.quad = flash.quad
  BY <1>5, <1>6, StepFacts, DeselectedFields
<1>8. Same(flash')
  BY <1>6, <1>7 DEF Same
<1>9. AgreeOk'
  BY <1>1, <1>8, AgreeWorker
<1>10. FlashOk'
  <2>1. Short(flash.latency)
    BY StepFacts
  <2> QED BY <1>6, <1>7, <2>1 DEF FlashOk, Idle
<1>11. SafeOk'
  BY <1>2 DEF SafeOk
<1>12. ManualOk'
  <2>1. ManualOk
    BY StepFacts
  <2>2. ~config.cont /\ flash.xip_cmd = 0 /\ flash.dummycount = 0 /\ (flash.write_enabled <=> step \in 4..(4 + Len(Data)))
    BY <1>3, <2>1 DEF ManualOk
  <2>3. Sent' = 0
    BY <1>2, <1>3 DEF Sent
  <2>4. flash.write_enabled
    BY <1>3, <2>2
  <2>5. g.write_enabled <=> (Wren # 0 /\ step + 1 \in 4..(4 + Len(Data)))
    BY <1>3, <1>7, <2>4
  <2>6. \A j \in 1..3 : ~(Sent' > j)
    BY <2>3
  <2> QED BY <1>2, <1>3, <1>6, <1>7, <2>2, <2>3, <2>5, <2>6 DEF ManualOk
<1> QED BY <1>2, <1>9, <1>10, <1>11, <1>12 DEF FlashInv

LEMMA ManualEnds ==
  ASSUME NEW done, Steps(done), ~config.en, req.kind = "config", Op.act = "memio" PROVE FlashInv'
<1>1. /\ softreset /\ calls # <<>> /\ Head(calls).act = "flashio" /\ step \in Nat /\ step >= 3
      /\ PinCsb <=> (step = 3 \/ (step = 5 /\ Wren # 0))
      /\ Last >= 4 /\ (Wren # 0 => Last >= 6) /\ Last \in Nat
  BY ManualIs
<1>2. config'.cont = config.cont /\ config'.en /\ step' = 1 /\ calls' = Tail(calls) /\ StartOk' /\ ReadyOk' /\ softreset'
  BY <1>1, WorkerStep
<1>3. step = Last /\ Len(Data) \in Nat \ {0}
  <2>1. ProgramOk
    BY StepFacts
  <2> QED BY <1>1, <2>1, OpKinds, SentCalls
<1>4. xfer'.csb /\ ~xfer'.busy /\ ~xfer_resetn'
  <2>1. ~xfer_resetn
    BY <1>1, StepFacts DEF ResetOk
  <2>2. Transfer(done) /\ Held
    BY <1>1, StepFacts DEF ClockEdge, Edge
  <2> QED BY <2>1, <2>2, ResetFields, StepFacts, HeldFields
<1>5. ~PinCsb /\ PinCsb'
  BY <1>1, <1>2, <1>3, <1>4 DEF PinCsb
<1>6. flash' = Deselected(flash)
  <2>1. PICK m : Pins(m) /\ Traced(done, m)
    BY Moves DEF ByteSent
  <2>2. m = flash
    BY <2>1 DEF Traced
  <2> QED BY <1>5, <2>1, <2>2, PinsFields
<1>7. PICK g : g = flash'
  OBVIOUS
<1>8. /\ g \in FlashSet /\ g.bitcount = 0 /\ g.bytecount = 0 /\ g.mode = 1 /\ g.powered_up = flash.powered_up
      /\ g.xip_cmd = flash.xip_cmd /\ g.dummycount = flash.dummycount /\ g.latency = flash.latency
      /\ g.write_enabled = flash.write_enabled /\ g.quad = flash.quad
  BY <1>6, <1>7, StepFacts, DeselectedFields
<1>9. Same(flash')
  BY <1>7, <1>8 DEF Same
<1>10. AgreeOk'
  BY <1>1, <1>9, AgreeWorker
<1>11. FlashOk'
  <2>1. Short(flash.latency)
    BY StepFacts
  <2> QED BY <1>7, <1>8, <2>1 DEF FlashOk, Idle
<1>12. Safe(g)
  <2>1. ManualOk
    BY StepFacts
  <2>2. CASE config.cont
    <3>1. Safe(flash)
      BY <2>1, <2>2 DEF ManualOk
    <3> QED BY <1>8, <3>1 DEF Safe
  <2>3. CASE ~config.cont
    <3>1. flash.xip_cmd = 0 /\ flash.dummycount = 0 /\ (flash.write_enabled <=> (Wren # 0 /\ step \in 4..(4 + Len(Data))))
      BY <2>1, <2>3 DEF ManualOk
    <3>2. Wren # 0 => step = 4 + Len(Data) + 1
      BY <1>3 DEF Last, Before
    <3>3. ~flash.write_enabled
      BY <1>3, <3>1, <3>2
    <3> QED BY <1>8, <3>1, <3>3 DEF Safe
  <2> QED BY <2>2, <2>3
<1>13. SafeOk'
  <2>1. ~Working'
    BY <1>2 DEF Working
  <2> QED BY <1>4, <1>7, <1>12, <2>1 DEF SafeOk
<1>14. ManualOk'
  BY <1>2 DEF ManualOk
<1> QED BY <1>2, <1>10, <1>11, <1>13, <1>14 DEF FlashInv

(* A byte of the worker.                                                      *)
LEMMA ManualByte ==
  ASSUME NEW done, Steps(done), ~config.en, req.kind = "config", Op.act = "byte"
  PROVE /\ calls # <<>> /\ Head(calls).act = "flashio" /\ step \in Nat /\ step >= 3 /\ ProgramOk
        /\ PinCsb <=> (step = 3 \/ (step = 5 /\ Wren # 0))
        /\ config'.cont = config.cont /\ ~config'.en /\ ~config'.csb /\ ~PinCsb' /\ config'.dummy = config.dummy
        /\ config'.ddr = config.ddr /\ config'.qspi = config.qspi /\ board' = board
        /\ step' = step + 1 /\ calls' = calls /\ Wren' = Wren /\ Data' = Data /\ StartOk' /\ ReadyOk' /\ SafeOk'
        /\ \/ step = 3 /\ Wren # 0 /\ Op.byte = Wren
           \/ Sent \in 0..(Len(Data) - 1) /\ Op.byte = Data[Sent + 1]
        /\ Op.byte \in Nat /\ Len(Data) \in Nat \ {0} /\ Data \in Seq(Nat) /\ Wren \in Nat
        /\ flash' = Transferred(IF PinCsb THEN Selected(flash) ELSE flash, 1, 0, Op.byte)
<1>1. /\ calls # <<>> /\ Head(calls).act = "flashio" /\ step \in Nat /\ step >= 3
      /\ PinCsb <=> (step = 3 \/ (step = 5 /\ Wren # 0))
  BY ManualIs
<1>2. /\ config'.cont = config.cont /\ config'.en = config.en /\ config'.csb = FALSE /\ config'.dummy = config.dummy
      /\ config'.ddr = config.ddr /\ config'.qspi = config.qspi /\ board' = board
      /\ step' = step + 1 /\ calls' = calls /\ Wren' = Wren /\ Data' = Data /\ StartOk' /\ ReadyOk'
  BY <1>1, WorkerStep
<1>3. ProgramOk
  BY StepFacts
<1>4. /\ \/ step = 3 /\ Wren # 0
         \/ Sent \in 0..(Len(Data) - 1)
      /\ Data \in Seq(Nat) /\ Len(Data) \in Nat \ {0} /\ Wren \in Nat
  BY <1>1, <1>3, OpKinds, SentCalls
<1>5. \/ step = 3 /\ Wren # 0 /\ Op.byte = Wren
      \/ Sent \in 0..(Len(Data) - 1) /\ Op.byte = Data[Sent + 1]
  BY <1>1, <1>3, <1>4, OpIs
<1>6. Op.byte \in Nat
  <2>1. ASSUME NEW i \in 0..(Len(Data) - 1) PROVE Data[i + 1] \in Nat
    BY <1>4, <2>1
  <2> QED BY <1>4, <1>5, <2>1
<1>7. ~config'.en /\ ~PinCsb' /\ SafeOk'
  BY <1>2 DEF PinCsb, SafeOk
<1>8. BitBang
  BY StepFacts DEF ClockEdge, cfgreg_sel
<1>9. flash' = Transferred(IF PinCsb THEN Selected(flash) ELSE flash, 1, 0, Op.byte)
  BY ONLY <1>8, Zenon DEF BitBang
<1> QED BY <1>1, <1>2, <1>3, <1>4, <1>5, <1>6, <1>7, <1>9

(* In continuous reading nothing is written and nothing is enabled.           *)
LEMMA ManualContinuous ==
  ASSUME NEW done, Steps(done), ~config.en, req.kind = "config", Op.act = "byte", config.cont PROVE FlashInv'
<1>1. Safe(flash) /\ Wren = 0
  BY StepFacts DEF ManualOk
<1>2. PICK l \in LatencySet : l = flash.latency
  BY StepFacts
<1>3. PICK q : q = flash.quad
  OBVIOUS
<1>4. flash \in SafeSet(l, q) /\ Short(l)
  BY <1>1, <1>2, <1>3, StepFacts DEF SafeSet
<1>5. PinCsb => Idle(flash)
  BY StepFacts DEF FlashOk
<1>6. PICK f : f = IF PinCsb THEN Selected(flash) ELSE flash
  OBVIOUS
<1>7. f \in SafeSet(l, q)
  <2>1. CASE PinCsb
    BY <1>4, <1>5, <1>6, <2>1, SelectedFields
  <2>2. CASE ~PinCsb
    BY <1>4, <1>6, <2>2
  <2> QED BY <2>1, <2>2
<1>8. PICK b : b = Op.byte
  OBVIOUS
<1>9. b \in Nat /\ b \notin WriteEnables \cup {StayInXip}
  <2>1. \A k \in 1..Len(Data) : Data[k] \notin WriteEnables \cup {StayInXip}
    BY <1>1, ManualByte, SentCalls
  <2>2. Sent \in 0..(Len(Data) - 1) /\ b = Data[Sent + 1] /\ b \in Nat /\ Len(Data) \in Nat
    BY <1>1, <1>8, ManualByte
  <2>3. Sent + 1 \in 1..Len(Data)
    BY <2>2
  <2> QED BY <2>1, <2>2, <2>3
<1>10. Harmless(f, b) /\ b \in Int
  BY <1>9 DEF Harmless
<1>11. flash' = Transferred(f, 1, 0, b)
  BY <1>6, <1>8, ManualByte
<1>12. Transferred(f, 1, 0, b) \in SafeSet(l, q)
  <2>1. 1 \in ModeSet /\ 0 \in Nat
    BY DEF ModeSet
  <2> QED BY <1>4, <1>7, <1>10, <2>1, SafeTransferred
<1>13. Same(flash') /\ Safe(flash')
  BY <1>2, <1>3, <1>11, <1>12 DEF SafeSet, Same
<1>14. FlashOk'
  BY <1>2, <1>4, <1>13, ManualByte DEF FlashOk, Same
<1>15. AgreeOk'
  BY <1>1, <1>13, ManualByte, AgreeWorker
<1>16. ManualOk'
  BY <1>1, <1>13, ManualByte DEF ManualOk
<1> QED BY <1>14, <1>15, <1>16, ManualByte DEF FlashInv

(* Out of continuous reading the byte is taken as it is sent.                 *)
LEMMA ManualExact ==
  ASSUME NEW done, Steps(done), ~config.en, req.kind = "config", Op.act = "byte", ~config.cont
  PROVE \E e \in FlashSet :
          /\ flash' = spi_action(e, Op.byte)
          /\ e.bitcount = 0 /\ e.dummycount = 0 /\ e.xip_cmd = 0 /\ e.mode = 1 /\ e.bytecount = flash.bytecount
          /\ e.spi_cmd = flash.spi_cmd /\ e.spi_addr = flash.spi_addr
          /\ e.latency = flash.latency /\ e.write_enabled = flash.write_enabled /\ e.quad = flash.quad
<1>1. flash.xip_cmd = 0 /\ flash.dummycount = 0 /\ flash.bitcount = 0 /\ flash.mode = 1
  BY StepFacts DEF ManualOk
<1>2. (IF PinCsb THEN Selected(flash) ELSE flash) = flash
  BY <1>1 DEF Selected
<1>3. flash' = Transferred(flash, 1, 0, Op.byte)
  BY <1>2, ManualByte
<1>4. InStep(flash, 1, 0)
  BY <1>1 DEF InStep
<1>5. PICK b : b = Op.byte
  OBVIOUS
<1>6. PICK e : e = [flash EXCEPT !.dummycount = 0]
  OBVIOUS
<1>7. flash' = spi_action(e, b)
  BY <1>3, <1>4, <1>5, <1>6 DEF Transferred
<1>8. /\ e \in FlashSet /\ e.bitcount = flash.bitcount /\ e.bytecount = flash.bytecount
      /\ e.spi_cmd = flash.spi_cmd /\ e.xip_cmd = flash.xip_cmd /\ e.spi_addr = flash.spi_addr
      /\ e.mode = flash.mode /\ e.dummycount = 0 /\ e.latency = flash.latency
      /\ e.write_enabled = flash.write_enabled /\ e.quad = flash.quad
  <2>1. flash \in FlashSet
    BY StepFacts
  <2> QED BY <1>6, <2>1, DummyFields
<1> QED BY <1>1, <1>5, <1>7, <1>8

LEMMA ManualEnable ==
  ASSUME NEW done, Steps(done), ~config.en, req.kind = "config", Op.act = "byte", ~config.cont,
         ~(Sent \in 0..(Len(Data) - 1))
  PROVE FlashInv'
<1>1. step = 3 /\ Wren # 0 /\ Op.byte = Wren /\ Len(Data) \in Nat \ {0} /\ Wren \in Nat
  BY ManualByte
<1>2. PICK b : b = Op.byte
  OBVIOUS
<1>3. PICK e \in FlashSet :
          /\ flash' = spi_action(e, b)
          /\ e.bitcount = 0 /\ e.dummycount = 0 /\ e.xip_cmd = 0 /\ e.mode = 1 /\ e.bytecount = flash.bytecount
          /\ e.spi_cmd = flash.spi_cmd /\ e.spi_addr = flash.spi_addr
          /\ e.latency = flash.latency /\ e.write_enabled = flash.write_enabled /\ e.quad = flash.quad
  BY <1>2, ManualExact
<1>4. b = Wren /\ b \in WriteEnables /\ b \in Int /\ b \notin WideReads \cup {Read, LeaveXip}
  <2>1. b = Wren /\ b \in WriteEnables
    BY <1>1, <1>2, ManualByte, SentCalls
  <2> QED BY <1>1, <2>1 DEF WriteEnables, WideReads, DualRead, QuadRead, QuadDdrRead, Read, LeaveXip
<1>5. flash.bytecount = 0 /\ ~flash.write_enabled
  <2>1. PinCsb
    BY <1>1, ManualByte
  <2>2. Idle(flash)
    BY <2>1, StepFacts DEF FlashOk
  <2>3. flash.write_enabled <=> (Wren # 0 /\ step \in 4..(4 + Len(Data)))
    BY StepFacts DEF ManualOk
  <2> QED BY <1>1, <2>2, <2>3 DEF Idle
<1>6. ~WritesAny(e) /\ ~WritesStatus(e)
  BY <1>3, <1>5 DEF WritesAny, WritesStatus
<1>7. PICK h : h = spi_action(e, b)
  OBVIOUS
<1>8. /\ h \in FlashSet
      /\ h.bitcount = 0
      /\ h.bytecount = (IF ReadsBy(e, b) THEN 5 ELSE e.bytecount + 1)
      /\ h.spi_cmd = CmdOf(e, b)
      /\ h.mode = (IF e.bytecount = 0 /\ b \in WideReads /\ KnowsBy(e, b) THEN Lanes(b) ELSE e.mode)
      /\ h.xip_cmd = (IF ModeBy(e, b) THEN IF b = StayInXip THEN e.spi_cmd ELSE 0
                      ELSE IF e.bytecount = 0 /\ b = LeaveXip THEN 0 ELSE e.xip_cmd)
      /\ h.dummycount = (IF ModeBy(e, b) THEN e.latency[e.spi_cmd] ELSE e.dummycount)
      /\ h.latency = (IF WritesAny(e) /\ e.spi_addr[3] = LatencyRegister THEN [c \in WideReads |-> b] ELSE e.latency)
      /\ h.quad = (IF WritesAny(e) /\ e.spi_addr[3] # LatencyRegister THEN e.spi_addr[3] = QuadRegister
                   ELSE IF WritesStatus(e) THEN TRUE ELSE e.quad)
      /\ h.write_enabled = (EnabledBy(e, b) /\ ~WritesAny(e) /\ ~WritesStatus(e))
  <2>1. e \in FlashSet /\ b \in Int /\ (WritesAny(e) => b \in Nat)
    BY <1>3, <1>4, <1>6
  <2> QED BY ONLY <1>7, <2>1, SpiAction, Zenon
<1>9. ~ReadsBy(e, b) /\ ~ModeBy(e, b) /\ CmdOf(e, b) = b
  BY <1>3, <1>5 DEF ReadsBy, ModeBy, CmdOf
<1>10. EnabledBy(e, b)
  BY <1>3, <1>4, <1>5 DEF EnabledBy
<1>11. h.bytecount = 1 /\ h.spi_cmd = b
  BY ONLY <1>3, <1>5, <1>8, <1>9
<1>12. h.mode = 1 /\ h.xip_cmd = 0 /\ h.dummycount = 0
  BY ONLY <1>3, <1>4, <1>8, <1>9, Zenon
<1>13. h.latency = flash.latency /\ h.quad = flash.quad /\ h.write_enabled
  BY ONLY <1>3, <1>6, <1>8, <1>10, Zenon
<1>14. flash' = h
  BY <1>3, <1>7
<1>15. Same(flash')
  BY ONLY <1>8, <1>13, <1>14, Zenon DEF Same
<1>16. FlashOk'
  <2>1. ~PinCsb' /\ Short(flash.latency)
    BY ManualByte, StepFacts
  <2> QED BY <1>15, <2>1 DEF FlashOk, Same
<1>17. Sent = step - 5
  BY <1>1 DEF Sent
<1>18. AgreeOk'
  <2>1. Sent < Len(Data) - 1
    BY <1>1, <1>17
  <2> QED BY <1>15, <2>1, ManualByte, AgreeWorker
<1>19. ManualOk'
  <2>1. Wren' = Wren /\ Data' = Data /\ step' = 4 /\ config'.cont = config.cont
    BY <1>1, ManualByte
  <2>2. Sent' = -1
    BY <1>1, <2>1 DEF Sent
  <2>3. flash'.write_enabled <=> (Wren' # 0 /\ step' \in 4..(4 + Len(Data')))
    BY <1>1, <1>13, <1>14, <2>1
  <2>4. /\ flash'.xip_cmd = 0 /\ flash'.dummycount = 0 /\ flash'.bitcount = 0 /\ flash'.mode = 1
        /\ flash'.bytecount = 1 /\ flash'.spi_cmd = Wren'
    BY <1>4, <1>8, <1>11, <1>12, <1>14, <2>1
  <2>5. /\ ~(Sent' >= 0) /\ ~(Sent' >= 1) /\ \A j \in 1..3 : ~(Sent' > j)
    BY <2>2
  <2> QED BY <2>1, <2>3, <2>4, <2>5 DEF ManualOk
<1> QED BY <1>16, <1>18, <1>19, ManualByte DEF FlashInv

(* A byte of data: what it does to the registers of the flash.                *)
Ends == Wren # 0 /\ Sent = Len(Data) - 1
LEMMA ManualData ==
  ASSUME NEW done, Steps(done), ~config.en, req.kind = "config", Op.act = "byte", ~config.cont,
         Sent \in 0..(Len(Data) - 1)
  PROVE /\ flash' \in FlashSet /\ flash'.bitcount = 0 /\ flash'.bytecount = Sent + 1 /\ flash'.spi_cmd = Data[1]
        /\ flash'.mode = 1 /\ flash'.xip_cmd = 0 /\ flash'.dummycount = 0
        /\ flash'.write_enabled <=> Wren # 0 /\ ~Ends
        /\ Wren # 0 => \A j \in 1..3 : Sent + 1 > j => flash'.spi_addr[j] = Data[j + 1]
        /\ ~Ends => flash'.latency = flash.latency /\ flash'.quad = flash.quad
        /\ Ends /\ AnyData /\ Data[4] = LatencyRegister =>
             flash'.latency = [c \in WideReads |-> Data[5]] /\ flash'.quad = flash.quad
        /\ Ends /\ ~(AnyData /\ Data[4] = LatencyRegister) => flash'.latency = flash.latency /\ flash'.quad
<1>1. /\ Len(Data) \in Nat \ {0} /\ Data \in Seq(Nat) /\ Wren \in Nat /\ Op.byte \in Nat /\ step \in Nat
  BY ManualByte
<1>2. PICK n \in Nat : n = Sent
  OBVIOUS
<1>3. PICK m \in Nat \ {0} : m = Len(Data)
  BY <1>1
<1>4. n \in 0..(m - 1)
  BY <1>2, <1>3
<1>5. PICK b \in Nat : b = Data[n + 1]
  BY <1>1, <1>2, <1>3, <1>4
<1>6. Op.byte = b
  <2>1. ~(step = 3 /\ Wren # 0)
    BY <1>1, <1>2, <1>3, <1>4 DEF Sent
  <2> QED BY <1>2, <1>5, <2>1, ManualByte
<1>7. PICK e \in FlashSet :
          /\ flash' = spi_action(e, b)
          /\ e.bitcount = 0 /\ e.dummycount = 0 /\ e.xip_cmd = 0 /\ e.mode = 1 /\ e.bytecount = flash.bytecount
          /\ e.spi_cmd = flash.spi_cmd /\ e.spi_addr = flash.spi_addr
          /\ e.latency = flash.latency /\ e.write_enabled = flash.write_enabled /\ e.quad = flash.quad
  BY <1>6, ManualExact
<1>8. PICK c : c = Data[1]
  OBVIOUS
<1>9. /\ c \notin WideReads \cup {Read} /\ (n = 0 => b = c)
      /\ Wren = 0 => b \notin WriteEnables
      /\ Wren # 0 => (m = 5 /\ c = WriteAnyRegister) \/ (m = 2 /\ c = WriteStatus2)
      /\ AnyData <=> (m = 5 /\ c = WriteAnyRegister)
  <2>1. /\ Data[1] \notin WideReads \cup {Read}
        /\ Wren = 0 => \A k \in 1..Len(Data) : Data[k] \notin WriteEnables \cup {StayInXip}
        /\ Wren # 0 => AnyData \/ StatusData
    BY ManualByte, SentCalls
  <2>2. n + 1 \in 1..Len(Data)
    BY <1>3, <1>4
  <2>3. Wren = 0 => b \notin WriteEnables
    BY <1>5, <2>1, <2>2
  <2>4. n = 0 => b = c
    BY <1>5, <1>8
  <2>5. /\ AnyData <=> (m = 5 /\ c = WriteAnyRegister)
        /\ StatusData <=> (m = 2 /\ c = WriteStatus2)
    BY <1>3, <1>8 DEF AnyData, StatusData
  <2> QED BY <1>8, <2>1, <2>3, <2>4, <2>5
<1>10. /\ e.bytecount = n
       /\ n >= 1 => e.spi_cmd = c
       /\ Wren # 0 => \A j \in 1..3 : n > j => e.spi_addr[j] = Data[j + 1]
       /\ e.write_enabled <=> Wren # 0
  <2>1. /\ flash.write_enabled <=> (Wren # 0 /\ step \in 4..(4 + Len(Data)))
        /\ Sent >= 0 => flash.bytecount = Sent
        /\ Sent >= 1 => flash.spi_cmd = Data[1]
        /\ Wren # 0 => \A j \in 1..3 : Sent > j => flash.spi_addr[j] = Data[j + 1]
    BY StepFacts DEF ManualOk
  <2>2. Wren # 0 => step = n + 5
    BY <1>1, <1>2 DEF Sent
  <2>3. Wren # 0 => step \in 4..(4 + Len(Data))
    BY <1>3, <1>4, <2>2
  <2>4. e.bytecount = n /\ (n >= 1 => e.spi_cmd = c)
    BY <1>2, <1>7, <1>8, <2>1
  <2>5. e.write_enabled <=> Wren # 0
    BY ONLY <1>7, <2>1, <2>3, Zenon
  <2>6. Wren # 0 => \A j \in 1..3 : n > j => e.spi_addr[j] = Data[j + 1]
    BY <1>2, <1>7, <2>1
  <2> QED BY <2>4, <2>5, <2>6
<1>11. WriteAnyRegister # WriteStatus2
  BY CodesDiffer
<1>12. /\ WritesAny(e) <=> (Wren # 0 /\ m = 5 /\ c = WriteAnyRegister /\ n = m - 1)
       /\ WritesStatus(e) <=> (Wren # 0 /\ m = 2 /\ c = WriteStatus2 /\ n = m - 1)
  <2>1. WritesAny(e) <=> e.spi_cmd = WriteAnyRegister /\ n = 4 /\ Wren # 0
    BY ONLY <1>10, Zenon DEF WritesAny
  <2>2. WritesStatus(e) <=> e.spi_cmd = WriteStatus2 /\ n = 1 /\ Wren # 0
    BY ONLY <1>10, Zenon DEF WritesStatus
  <2>4. ASSUME Wren # 0 PROVE m = 2 => n # 4
    BY ONLY <1>3, <1>4, <1>9, <2>4
  <2>5. m = 5 => m # 2 /\ (n = m - 1 <=> n = 4)
    BY ONLY <1>3, <1>4
  <2>6. m = 2 => m # 5 /\ (n = m - 1 <=> n = 1)
    BY ONLY <1>3, <1>4
  <2>7. n = 4 => n >= 1
    OBVIOUS
  <2>8. n = 1 => n >= 1
    OBVIOUS
  <2>9. WritesAny(e) <=> (Wren # 0 /\ m = 5 /\ c = WriteAnyRegister /\ n = m - 1)
    BY ONLY <1>9, <1>10, <1>11, <2>1, <2>4, <2>5, <2>7, Zenon
  <2>10. WritesStatus(e) <=> (Wren # 0 /\ m = 2 /\ c = WriteStatus2 /\ n = m - 1)
    BY ONLY <1>9, <1>10, <1>11, <2>2, <2>5, <2>6, <2>8, Zenon
  <2> QED BY ONLY <2>9, <2>10
<1>12a. b \in Int /\ (WritesAny(e) => b \in Nat)
  OBVIOUS
<1>13. PICK h : h = spi_action(e, b)
  OBVIOUS
<1>14. /\ h \in FlashSet
       /\ h.bitcount = 0
       /\ h.bytecount = (IF ReadsBy(e, b) THEN 5 ELSE e.bytecount + 1)
       /\ h.spi_cmd = CmdOf(e, b)
       /\ h.mode = (IF e.bytecount = 0 /\ b \in WideReads /\ KnowsBy(e, b) THEN Lanes(b) ELSE e.mode)
       /\ h.xip_cmd = (IF ModeBy(e, b) THEN IF b = StayInXip THEN e.spi_cmd ELSE 0
                       ELSE IF e.bytecount = 0 /\ b = LeaveXip THEN 0 ELSE e.xip_cmd)
       /\ h.dummycount = (IF ModeBy(e, b) THEN e.latency[e.spi_cmd] ELSE e.dummycount)
       /\ h.latency = (IF WritesAny(e) /\ e.spi_addr[3] = LatencyRegister THEN [d \in WideReads |-> b] ELSE e.latency)
       /\ h.quad = (IF WritesAny(e) /\ e.spi_addr[3] # LatencyRegister THEN e.spi_addr[3] = QuadRegister
                    ELSE IF WritesStatus(e) THEN TRUE ELSE e.quad)
       /\ h.write_enabled = (EnabledBy(e, b) /\ ~WritesAny(e) /\ ~WritesStatus(e))
       /\ ~ReadsBy(e, b) => h.spi_addr = AddrOf(e, b)
  BY <1>7, <1>13, <1>12a, SpiAction
<1>15. ~ReadsBy(e, b) /\ ~ModeBy(e, b) /\ CmdOf(e, b) = c /\ ~(e.bytecount = 0 /\ b \in WideReads)
  BY <1>9, <1>10 DEF ReadsBy, ModeBy, CmdOf
<1>16. h.bytecount = n + 1 /\ h.spi_cmd = c
  BY ONLY <1>10, <1>14, <1>15
<1>17. h.mode = 1 /\ h.xip_cmd = 0 /\ h.dummycount = 0
  BY ONLY <1>7, <1>14, <1>15, Zenon
<1>18. Ends <=> Wren # 0 /\ n = m - 1
  BY <1>2, <1>3 DEF Ends
<1>19. ~Ends => ~WritesAny(e) /\ ~WritesStatus(e)
  BY ONLY <1>12, <1>18, Zenon
<1>20. Ends => WritesAny(e) \/ WritesStatus(e)
  BY ONLY <1>9, <1>12, <1>18, Zenon
<1>21. h.write_enabled <=> Wren # 0 /\ ~Ends
  <2>1. EnabledBy(e, b) <=> Wren # 0
    BY ONLY <1>9, <1>10, Zenon DEF EnabledBy
  <2> QED BY ONLY <1>14, <1>19, <1>20, <2>1, Zenon
<1>22. ~Ends => h.latency = flash.latency /\ h.quad = flash.quad
  BY ONLY <1>7, <1>14, <1>19, Zenon
<1>23. WritesAny(e) => e.spi_addr[3] = Data[4]
  <2>1. 3 \in 1..3 /\ 3 + 1 = 4 /\ 4 > 3
    OBVIOUS
  <2>3. m = 5 /\ n = m - 1 => n = 4
    BY ONLY <1>3
  <2>2. WritesAny(e) => n = 4 /\ Wren # 0
    BY ONLY <1>12, <2>3, Zenon
  <2> QED BY <1>10, <2>1, <2>2
<1>24. Ends /\ AnyData => WritesAny(e) /\ n + 1 = 5
  <2>1. m = 5 /\ n = m - 1 => n + 1 = 5
    BY ONLY <1>3
  <2> QED BY ONLY <1>9, <1>12, <1>18, <2>1, Zenon
<1>25. Ends /\ AnyData /\ Data[4] = LatencyRegister =>
         h.latency = [d \in WideReads |-> Data[5]] /\ h.quad = flash.quad
  <2>1. Ends /\ AnyData => b = Data[5]
    BY ONLY <1>5, <1>24
  <2>2. WritesStatus(e) => ~WritesAny(e)
    BY ONLY <1>11, <1>12, Zenon
  <2> QED BY ONLY <1>7, <1>14, <1>23, <1>24, <2>1, <2>2, Zenon
<1>26. Ends /\ ~(AnyData /\ Data[4] = LatencyRegister) => h.latency = flash.latency /\ h.quad
  <2>1. WritesAny(e) => AnyData
    BY ONLY <1>9, <1>12, Zenon
  <2>2. Ends /\ WritesAny(e) => Data[4] = QuadRegister \/ Data[4] = LatencyRegister
    <3>1. Ends /\ AnyData => Data[4] = QuadRegister \/ Data[4] = LatencyRegister
      <4>1. Ends => Wren # 0
        BY DEF Ends
      <4> QED BY <4>1, ManualByte, SentCalls
    <3> QED BY <2>1, <3>1
  <2> QED BY ONLY <1>7, <1>14, <1>20, <1>23, <2>1, <2>2, Zenon
<1>27. Wren # 0 => \A j \in 1..3 : n + 1 > j => h.spi_addr[j] = Data[j + 1]
  <2>1. h.spi_addr = AddrOf(e, b)
    BY ONLY <1>14, <1>15, Zenon
  <2>2. PICK a : a = e.spi_addr
    OBVIOUS
  <2>3. a \in [1..3 -> Int]
    BY <1>7, <2>2 DEF FlashSet, AddressSet
  <2>4. h.spi_addr = (IF n \in 1..3 THEN [a EXCEPT ![n] = b] ELSE a)
    BY <1>10, <2>1, <2>2 DEF AddrOf
  <2>5. ASSUME Wren # 0, NEW j \in 1..3, n + 1 > j PROVE h.spi_addr[j] = Data[j + 1]
    <3>1. CASE j = n
      BY <1>5, <2>3, <2>4, <2>5, <3>1
    <3>2. CASE j # n
      <4>1. n > j
        BY <2>5, <3>2
      <4>2. a[j] = Data[j + 1]
        BY <1>10, <2>2, <2>5, <4>1
      <4> QED BY <2>3, <2>4, <2>5, <3>2, <4>2
    <3> QED BY <3>1, <3>2
  <2> QED BY <2>5
<1>28. flash' = h
  BY <1>7, <1>13
<1> QED BY <1>2, <1>8, <1>14, <1>16, <1>17, <1>21, <1>22, <1>25, <1>26, <1>27, <1>28

LEMMA ManualAgrees ==
  ASSUME NEW done, Steps(done), ~config.en, req.kind = "config", Op.act = "byte", ~config.cont, Ends
  PROVE AgreeOk' /\ Short(flash'.latency)
<1>1. /\ calls # <<>> /\ Head(calls).act = "flashio" /\ step \in Nat /\ ProgramOk /\ Len(Data) \in Nat \ {0}
      /\ config'.dummy = config.dummy /\ config'.ddr = config.ddr /\ config'.qspi = config.qspi /\ board' = board
      /\ step' = step + 1 /\ calls' = calls /\ Data' = Data
  BY ManualByte
<1>2. Wren # 0 /\ Sent = Len(Data) - 1
  BY DEF Ends
<1>3. Sent \in 0..(Len(Data) - 1)
  BY <1>1, <1>2
<1>4. /\ AnyData /\ Data[4] = LatencyRegister => flash'.latency = [c \in WideReads |-> Data[5]] /\ flash'.quad = flash.quad
      /\ ~(AnyData /\ Data[4] = LatencyRegister) => flash'.latency = flash.latency /\ flash'.quad
  BY <1>3, ManualData
<1>5. AgreeOk /\ Short(flash.latency)
  BY StepFacts
<1>6. (wide' <=> wide) /\ ReadCommand' = ReadCommand
  BY <1>1, SameMode
<1>7. board' = Icebreaker /\ wide' => config'.dummy = latency(Icebreaker)[ReadCommand']
  BY <1>1, <1>5, <1>6 DEF AgreeOk
<1>8. step = Len(Data) + 4
  BY <1>1, <1>2 DEF Sent
<1>9. CASE LatencyCall(Head(calls))
  <2>1. AnyData /\ board = Hx8k /\ Data[4] = LatencyRegister /\ Data[5] \in 1..8
    BY <1>1, <1>2, <1>9, SentCalls
  <2>2. config.dummy = Data[5]
    BY <1>1, <1>9 DEF ProgramOk, Data
  <2>3. \A c \in WideReads : flash'.latency[c] = config.dummy
    BY <1>4, <2>1, <2>2
  <2>4. flash.quad
    <3>1. Booting => FALSE
      <4>1. SUFFICES ASSUME Booting PROVE FALSE
        OBVIOUS
      <4>2. QuadCall(board, Head(calls)) \/ Plain(Head(calls))
        BY <1>1, <4>1, BootHead
      <4>3. ~Plain(Head(calls))
        BY <1>1, <1>2, SentCalls
      <4>4. Data[4] = QuadRegister
        BY <2>1, <4>2, <4>3 DEF QuadCall, Data
      <4> QED BY <2>1, <4>4 DEF QuadRegister, LatencyRegister
    <3> QED BY <1>5, <3>1 DEF AgreeOk
  <2>5. flash'.quad
    BY ONLY <1>4, <2>1, <2>4, Zenon
  <2>6. Short(flash'.latency)
    BY <2>1, <2>2, <2>3 DEF Short
  <2>7. board' # Icebreaker
    BY <1>1, <2>1, BoardNames
  <2>8. AgreeOk'
    BY <1>1, <1>7, <2>3, <2>5, <2>7 DEF AgreeOk
  <2> QED BY <2>6, <2>8
<1>10. CASE ~LatencyCall(Head(calls))
  <2>1. AnyData => Data[4] = QuadRegister
    BY <1>1, <1>2, <1>10, SentCalls
  <2>2. flash'.latency = flash.latency /\ flash'.quad
    BY <1>4, <2>1 DEF QuadRegister, LatencyRegister
  <2>3. board' = Hx8k => \A c \in WideReads : flash'.latency[c] = config'.dummy
    BY <1>1, <1>5, <1>10, <2>2 DEF AgreeOk
  <2>4. /\ board' = Icebreaker => flash'.latency = latency(Icebreaker)
        /\ board' = Hx8k => \A c, e \in WideReads : flash'.latency[c] = flash'.latency[e]
    BY <1>1, <1>5, <2>2 DEF AgreeOk
  <2>5. AgreeOk'
    BY <1>7, <2>2, <2>3, <2>4 DEF AgreeOk
  <2> QED BY <1>5, <2>2, <2>5
<1> QED BY <1>9, <1>10

LEMMA ManualSends ==
  ASSUME NEW done, Steps(done), ~config.en, req.kind = "config", Op.act = "byte", ~config.cont,
         Sent \in 0..(Len(Data) - 1)
  PROVE FlashInv'
<1>1. /\ Wren' = Wren /\ Data' = Data /\ config'.cont = config.cont /\ step' = step + 1 /\ StartOk' /\ ReadyOk' /\ SafeOk'
      /\ ~PinCsb' /\ Head(calls).act = "flashio" /\ step \in Nat /\ Len(Data) \in Nat \ {0}
  BY ManualByte
<1>2. /\ flash' \in FlashSet /\ flash'.bitcount = 0 /\ flash'.bytecount = Sent + 1 /\ flash'.spi_cmd = Data[1]
      /\ flash'.mode = 1 /\ flash'.xip_cmd = 0 /\ flash'.dummycount = 0
      /\ flash'.write_enabled <=> Wren # 0 /\ ~Ends
      /\ Wren # 0 => \A j \in 1..3 : Sent + 1 > j => flash'.spi_addr[j] = Data[j + 1]
      /\ ~Ends => flash'.latency = flash.latency /\ flash'.quad = flash.quad
  BY ManualData
<1>3. AgreeOk' /\ Short(flash'.latency)
  <2>1. CASE Ends
    BY <2>1, ManualAgrees
  <2>2. CASE ~Ends
    <3>1. Same(flash')
      BY <1>2, <2>2 DEF Same
    <3>2. Sent < Len(Data) - 1 \/ Wren = 0
      BY <1>1, <2>2 DEF Ends
    <3>3. Short(flash.latency)
      BY StepFacts
    <3> QED BY <1>1, <1>2, <2>2, <3>1, <3>2, <3>3, AgreeWorker
  <2> QED BY <2>1, <2>2
<1>4. FlashOk'
  BY <1>1, <1>2, <1>3 DEF FlashOk
<1>5. Sent' = Sent + 1
  BY <1>1 DEF Sent
<1>6. flash'.write_enabled <=> (Wren' # 0 /\ step' \in 4..(4 + Len(Data')))
  <2>1. Wren # 0 => step = Sent + 5
    BY <1>1 DEF Sent
  <2>2. Wren # 0 => (~Ends <=> step' \in 4..(4 + Len(Data)))
    BY <1>1, <2>1 DEF Ends
  <2> QED BY ONLY <1>1, <1>2, <2>2, Zenon
<1>7. ManualOk'
  BY <1>1, <1>2, <1>5, <1>6 DEF ManualOk
<1> QED BY <1>1, <1>3, <1>4, <1>7 DEF FlashInv

(* The pins are the worker's: whatever it does, the flash follows.            *)
LEMMA FlashManual == ASSUME NEW done, Steps(done), ~config.en PROVE FlashInv'
<1>1. CASE req.kind # "config"
  BY <1>1, ManualWaits
<1>2. CASE req.kind = "config" /\ Op.act = "byte"
  <2>1. CASE config.cont
    BY <1>2, <2>1, ManualContinuous
  <2>2. CASE ~config.cont /\ Sent \in 0..(Len(Data) - 1)
    BY <1>2, <2>2, ManualSends
  <2>3. CASE ~config.cont /\ ~(Sent \in 0..(Len(Data) - 1))
    BY <1>2, <2>3, ManualEnable
  <2> QED BY <2>1, <2>2, <2>3
<1>3. CASE req.kind = "config" /\ Op.act = "release"
  BY <1>3, ManualRelease
<1>4. CASE req.kind = "config" /\ Op.act = "memio"
  BY <1>4, ManualEnds
<1>5. req.kind = "config" => Op.act \in {"byte", "release", "memio"}
  <2>1. ProgramOk /\ calls # <<>> /\ Head(calls).act = "flashio" /\ step >= 3 /\ step \in Nat
    BY StepFacts, ManualIs
  <2> QED BY <2>1, OpKinds
<1> QED BY <1>1, <1>2, <1>3, <1>4, <1>5

LEMMA WrenOff ==
  ASSUME ProgramOk, calls # <<>>, Head(calls).act = "flashio", Wren # 0 PROVE ModeOff
<1>1. PICK c : c = Head(calls)
  OBVIOUS
<1>2. LatencyCall(c) => ModeOff
  BY <1>1 DEF ProgramOk
<1>3. ~LatencyCall(c) => QuadCall(board, c)
  BY <1>1, SentCalls
<1>4. QuadCall(board, c) => Booting
  <2>1. SUFFICES ASSUME QuadCall(board, c) PROVE Booting
    OBVIOUS
  <2>2. ~CallOk(board, c)
    BY <2>1, NotQuad
  <2>3. WellFormed(board, calls)
    BY DEF ProgramOk
  <2>4. Tail(calls) = <<>> /\ SameLast(calls, <<c>>)
    BY <1>1, <2>2, <2>3, TailWell
  <2>5. <<c>>[Len(<<c>>)] = c
    OBVIOUS
  <2>6. calls[Len(calls)] = c
    BY <2>4, <2>5 DEF SameLast
  <2> QED BY <2>1, <2>6 DEF Booting
<1>5. Booting => ModeOff
  BY DEF ProgramOk
<1> QED BY <1>2, <1>3, <1>4, <1>5

(* Registers that stay while what is on the wires does not matter.            *)
KeptSet(f) ==
  {g \in FlashSet : /\ ~g.write_enabled /\ g.dummycount = f.dummycount /\ g.xip_cmd = f.xip_cmd
                    /\ g.powered_up = f.powered_up /\ g.latency = f.latency /\ g.quad = f.quad}

LEMMA PastKept == ASSUME NEW f, f.dummycount = 0, NEW g \in PastSet(f) PROVE g \in KeptSet(f)
  BY DEF PastSet, KeptSet

LEMMA SafeKept == ASSUME NEW f, Safe(f), NEW g \in KeptSet(f) PROVE Safe(g)
<1>1. /\ g.dummycount = f.dummycount /\ g.xip_cmd = f.xip_cmd
  BY DEF KeptSet
<1>2. ~g.write_enabled /\ g.powered_up = f.powered_up /\ g.quad = f.quad
  BY DEF KeptSet
<1>3. f.dummycount <= 8 /\ (f.xip_cmd = 0 \/ f.xip_cmd \in QuadReads)
  BY DEF Safe
<1>4. (f.xip_cmd # 0 => f.powered_up /\ f.quad /\ f.dummycount = 0) /\ (f.dummycount > 0 => f.powered_up)
  BY DEF Safe
<1>5. g.xip_cmd # 0 => g.powered_up /\ g.quad /\ g.dummycount = 0
  BY ONLY <1>1, <1>2, <1>4, Zenon
<1>6. g.dummycount > 0 => g.powered_up
  BY ONLY <1>1, <1>2, <1>4, Zenon
<1> QED BY ONLY <1>1, <1>2, <1>3, <1>5, <1>6 DEF Safe

LEMMA DeselectedKept ==
  ASSUME NEW f, NEW g \in KeptSet(f) PROVE Deselected(g) \in KeptSet(f) /\ Idle(Deselected(g))
<1>1. g \in FlashSet
  BY DEF KeptSet
<1>2. PICK h : h = Deselected(g)
  OBVIOUS
<1>3. /\ h \in FlashSet /\ h.bitcount = 0 /\ h.bytecount = 0 /\ h.mode = 1
      /\ h.powered_up = g.powered_up /\ h.xip_cmd = g.xip_cmd /\ h.dummycount = g.dummycount
      /\ h.latency = g.latency /\ h.write_enabled = g.write_enabled /\ h.quad = g.quad
  BY <1>1, <1>2, DeselectedFields
<1>4. h \in KeptSet(f)
  BY <1>3 DEF KeptSet
<1> QED BY <1>2, <1>3, <1>4 DEF Idle

(* Whatever is cut short or sent behind a mode byte is read and forgotten.    *)
LEMMA PastMoves ==
  ASSUME NEW done, Steps(done), NEW m, Traced(done, m), ~flash.write_enabled,
         flash.bytecount >= 5, flash.dummycount = 0
  PROVE m \in PastSet(flash)
<1>1. flash \in PastSet(flash)
  BY StepFacts DEF PastSet
<1>2. xfer.lanes \in ModeSet /\ xfer.dummy \in Nat /\ xfer.data \in Int
  BY StepFacts DEF XferSet
<1>3. \A n \in 0..LastClock : Clocks(flash, n) \in PastSet(flash)
  <2>1. ASSUME NEW n \in 0..LastClock PROVE n \in Nat
    BY <1>2, ClocksOfByte DEF LastClock
  <2> QED BY <1>1, <2>1, PastClocks
<1>4. Transferred(flash, xfer.lanes, xfer.dummy, xfer.data) \in PastSet(flash)
  BY <1>1, <1>2, PastTransferred
<1> QED BY <1>1, <1>3, <1>4 DEF Traced

LEMMA KeptMoves ==
  ASSUME NEW done, Steps(done), NEW m, Traced(done, m), ~flash.write_enabled,
         xfer.busy => flash.bytecount >= 5 /\ flash.dummycount = 0
  PROVE m \in KeptSet(flash)
<1>1. flash \in KeptSet(flash)
  BY StepFacts DEF KeptSet
<1>2. CASE xfer.busy
  BY <1>2, PastMoves, PastKept
<1>3. CASE ~xfer.busy
  BY <1>1, <1>3 DEF Traced
<1> QED BY <1>2, <1>3

(* The worker takes the pins.                                                 *)
LEMMA ManualStarts ==
  ASSUME NEW done, Steps(done), req.kind = "config", Head(calls).act = "flashio", Op.act = "manual",
         flash' \in SafeSet(flash.latency, flash.quad), Idle(flash'),
         ~config.cont => flash'.xip_cmd = 0 /\ flash'.dummycount = 0
  PROVE FlashInv'
<1>1. /\ calls # <<>> /\ config'.cont = config.cont /\ ~config'.en
      /\ step' = step + 1 /\ calls' = calls /\ Wren' = Wren /\ Data' = Data /\ StartOk' /\ ReadyOk'
  BY WorkerStep
<1>2. Same(flash') /\ Safe(flash')
  BY DEF SafeSet, Same
<1>3. AgreeOk'
  BY <1>2, AgreeWorker
<1>4. FlashOk'
  BY <1>2, StepFacts DEF FlashOk, Same
<1>5. SafeOk'
  BY <1>1 DEF SafeOk
<1>6. step = 2 /\ ProgramOk /\ Len(Data) \in Nat \ {0} /\ Wren \in Nat
  BY <1>1, StepFacts, OpKinds, SentCalls
<1>7. config.cont => Wren = 0
  BY <1>1, <1>6, WrenOff DEF ModeOff
<1>8. Sent' = (IF Wren = 0 THEN 0 ELSE -2)
  BY <1>1, <1>6 DEF Sent
<1>9. step' = 3 /\ ~(step' \in 4..(4 + Len(Data')))
  BY <1>1, <1>6
<1>10. ~flash'.write_enabled /\ flash'.bitcount = 0 /\ flash'.mode = 1 /\ flash'.bytecount = 0
  BY <1>2 DEF Safe, Idle
<1>11. ~(Sent' >= 1) /\ Sent' # -1 /\ (Sent' >= 0 => Sent' = 0) /\ \A j \in 1..3 : ~(Sent' > j)
  BY <1>8
<1>12. ManualOk'
  BY <1>1, <1>2, <1>7, <1>9, <1>10, <1>11 DEF ManualOk
<1> QED BY <1>1, <1>3, <1>4, <1>5, <1>12 DEF FlashInv

(* The worker's first write with the pins: chip select is high from then on.  *)
LEMMA ManualPins ==
  ASSUME NEW done, Steps(done), config.en, req.kind = "config", Working
  PROVE /\ calls # <<>> /\ Head(calls).act = "flashio" /\ Op.act = "manual" /\ PinCsb'
        /\ ~config.cont => Wren \in Nat
        /\ \E m : /\ Traced(done, m)
                  /\ ~PinCsb => flash' = Deselected(m)
                  /\ PinCsb => flash' = m /\ m = flash /\ Idle(flash)
<1>1. calls # <<>> /\ Head(calls).act = "flashio" /\ step >= 2 /\ ProgramOk /\ RegisterOk
  BY StepFacts DEF Working
<1>2. ~(step >= 3) /\ step \in Nat
  <2>1. step \in Nat
    BY <1>1, OpIs
  <2> QED BY <1>1, <2>1 DEF RegisterOk
<1>3. step = 2
  BY <1>1, <1>2
<1>4. Op.act = "manual" /\ config.csb /\ Wren \in Nat
  BY <1>1, <1>3, OpIs DEF RegisterOk
<1>5. ~config'.en /\ config'.csb = config.csb
  BY <1>1, <1>4, WorkerStep
<1>6. PinCsb'
  BY <1>4, <1>5 DEF PinCsb
<1>7. PICK m : Pins(m) /\ Traced(done, m)
  BY <1>4, Moves DEF ByteSent
<1>8. ~PinCsb => flash' = Deselected(m)
  BY <1>6, <1>7, PinsFields
<1>9. PinCsb => flash' = m /\ m = flash /\ Idle(flash)
  <2>1. SUFFICES ASSUME PinCsb PROVE flash' = m /\ m = flash /\ Idle(flash)
    OBVIOUS
  <2>2. xfer.csb
    BY <2>1 DEF PinCsb
  <2>3. ~xfer.busy
    BY <2>2, StepFacts DEF ResetOk
  <2>4. m = flash
    BY <1>7, <2>3 DEF Traced
  <2>5. Idle(flash)
    BY <2>1, StepFacts DEF FlashOk
  <2> QED BY <1>6, <1>7, <2>1, <2>4, <2>5, PinsFields
<1> QED BY <1>1, <1>4, <1>6, <1>7, <1>8, <1>9

LEMMA ManualFrom ==
  ASSUME NEW done, Steps(done), config.en, req.kind = "config", Working,
         \A m : Traced(done, m) => /\ m \in SafeSet(flash.latency, flash.quad)
                                   /\ ~config.cont => m.xip_cmd = 0 /\ m.dummycount = 0
  PROVE FlashInv'
<1>1. calls # <<>> /\ Head(calls).act = "flashio" /\ Op.act = "manual"
  BY ManualPins
<1>2. PICK m : /\ Traced(done, m)
               /\ ~PinCsb => flash' = Deselected(m)
               /\ PinCsb => flash' = m /\ m = flash /\ Idle(flash)
  BY ManualPins
<1>3. m \in SafeSet(flash.latency, flash.quad) /\ (~config.cont => m.xip_cmd = 0 /\ m.dummycount = 0)
  BY <1>2
<1>4. CASE PinCsb
  BY <1>1, <1>2, <1>3, <1>4, ManualStarts
<1>5. CASE ~PinCsb
  <2>1. flash' \in SafeSet(flash.latency, flash.quad) /\ Idle(flash')
    BY <1>2, <1>3, <1>5, SafeDeselected
  <2>2. m \in FlashSet
    BY <1>3 DEF SafeSet
  <2>3. ~config.cont => flash'.xip_cmd = 0 /\ flash'.dummycount = 0
    <3>1. PICK h : h = Deselected(m)
      OBVIOUS
    <3>2. h.xip_cmd = m.xip_cmd /\ h.dummycount = m.dummycount
      BY <2>2, <3>1, DeselectedFields
    <3> QED BY <1>2, <1>3, <1>5, <3>1, <3>2
  <2> QED BY <1>1, <2>1, <2>3, ManualStarts
<1> QED BY <1>4, <1>5

(* What is kept of a safe flash is enough to start with.                      *)
LEMMA KeptStarts ==
  ASSUME NEW m \in KeptSet(flash), Safe(flash), ~config.cont => flash.xip_cmd = 0 /\ flash.dummycount = 0
  PROVE m \in SafeSet(flash.latency, flash.quad) /\ (~config.cont => m.xip_cmd = 0 /\ m.dummycount = 0)
<1>1. Safe(m)
  BY SafeKept
<1>2. m \in FlashSet /\ m.latency = flash.latency /\ m.quad = flash.quad
      /\ m.xip_cmd = flash.xip_cmd /\ m.dummycount = flash.dummycount
  BY DEF KeptSet
<1>3. m \in SafeSet(flash.latency, flash.quad)
  BY <1>1, <1>2 DEF SafeSet
<1> QED BY <1>2, <1>3

LEMMA ManualReset ==
  ASSUME NEW done, Steps(done), config.en, req.kind = "config", Working, softreset
  PROVE FlashInv'
<1>1. Safe(flash) /\ (~config.cont => flash.xip_cmd = 0 /\ flash.dummycount = 0)
  BY StepFacts DEF SafeOk, Restarting
<1>2. ~xfer_resetn
  BY StepFacts DEF ResetOk
<1>3. ~flash.write_enabled /\ (xfer.busy => flash.bytecount >= 5 /\ flash.dummycount = 0)
  BY <1>1, <1>2, StepFacts DEF SafeOk, Restarting, Safe
<1>4. ASSUME NEW m, Traced(done, m)
      PROVE m \in SafeSet(flash.latency, flash.quad) /\ (~config.cont => m.xip_cmd = 0 /\ m.dummycount = 0)
  <2>1. m \in KeptSet(flash)
    BY <1>3, <1>4, KeptMoves
  <2> QED BY <1>1, <2>1, KeptStarts
<1> QED BY <1>4, ManualFrom

(* A command byte on one lane, to a flash that expects one.                   *)
LEMMA PlainCommand ==
  ASSUME NEW f \in FlashSet, Idle(f), f.dummycount = 0, f.xip_cmd = 0, ~f.write_enabled,
         NEW b \in Nat, b \notin WriteEnables
  PROVE LET h == Transferred(f, 1, 0, b) IN
        /\ h \in FlashSet /\ h.bitcount = 0 /\ h.bytecount = 1 /\ h.spi_cmd = b /\ h.xip_cmd = 0 /\ h.dummycount = 0
        /\ ~h.write_enabled /\ h.latency = f.latency /\ h.quad = f.quad
        /\ (h.powered_up <=> f.powered_up \/ b = PowerUp)
        /\ b \in WideReads /\ f.powered_up /\ f.quad => h.mode = Lanes(b)
        /\ b \notin WideReads => h.mode = 1
        /\ h.mode \in {1, Lanes(b)}
<1>1. f.bitcount = 0 /\ f.bytecount = 0 /\ f.mode = 1
  BY DEF Idle
<1>2. InStep(f, 1, 0)
  BY <1>1 DEF InStep
<1>3. PICK e : e = [f EXCEPT !.dummycount = 0]
  OBVIOUS
<1>4. /\ e \in FlashSet /\ e.bitcount = 0 /\ e.bytecount = 0
      /\ e.powered_up = f.powered_up /\ e.xip_cmd = 0 /\ e.mode = 1 /\ e.dummycount = 0 /\ e.latency = f.latency
      /\ e.write_enabled = f.write_enabled /\ e.quad = f.quad
  BY <1>1, <1>3, DummyFields
<1>5. PICK h : h = Transferred(f, 1, 0, b)
  OBVIOUS
<1>6. h = spi_action(e, b)
  BY <1>2, <1>3, <1>5 DEF Transferred
<1>7. ~e.write_enabled /\ (e.bytecount = 0 => b \notin WriteEnables)
  BY <1>4, Zenon
<1>8. /\ h \in FlashSet /\ h.latency = e.latency /\ h.quad = e.quad /\ ~h.write_enabled /\ h.bitcount = 0
  BY <1>4, <1>6, <1>7, QuietByte
<1>9. /\ h.bytecount = (IF ReadsBy(e, b) THEN 5 ELSE e.bytecount + 1)
      /\ h.spi_cmd = CmdOf(e, b)
      /\ h.mode = (IF e.bytecount = 0 /\ b \in WideReads /\ KnowsBy(e, b) THEN Lanes(b) ELSE e.mode)
      /\ h.xip_cmd = (IF ModeBy(e, b) THEN IF b = StayInXip THEN e.spi_cmd ELSE 0
                      ELSE IF e.bytecount = 0 /\ b = LeaveXip THEN 0 ELSE e.xip_cmd)
      /\ h.dummycount = (IF ModeBy(e, b) THEN e.latency[e.spi_cmd] ELSE e.dummycount)
      /\ h.powered_up = PoweredBy(e, b)
  BY <1>4, <1>6, <1>7, QuietMode
<1>10. ~ReadsBy(e, b) /\ ~ModeBy(e, b) /\ CmdOf(e, b) = b
  BY <1>4 DEF ReadsBy, ModeBy, CmdOf
<1>11. h.bytecount = 1 /\ h.spi_cmd = b
  BY ONLY <1>4, <1>9, <1>10
<1>12. h.xip_cmd = 0 /\ h.dummycount = 0
  BY ONLY <1>4, <1>9, <1>10, Zenon
<1>13. h.powered_up <=> f.powered_up \/ b = PowerUp
  BY ONLY <1>4, <1>9, Zenon DEF PoweredBy
<1>14. b \in WideReads /\ f.powered_up /\ f.quad => h.mode = Lanes(b)
  <2>1. f.powered_up /\ f.quad => KnowsBy(e, b)
    BY ONLY <1>4, Zenon DEF KnowsBy, PoweredBy
  <2> QED BY ONLY <1>4, <1>9, <2>1, Zenon
<1>15. (b \notin WideReads => h.mode = 1) /\ h.mode \in {1, Lanes(b)}
  BY ONLY <1>4, <1>9, Zenon
<1>16. h.latency = f.latency /\ h.quad = f.quad
  BY ONLY <1>4, <1>8, Zenon
<1> QED BY ONLY <1>5, <1>8, <1>11, <1>12, <1>13, <1>14, <1>15, <1>16

LEMMA CommandCut ==
  ASSUME NEW done, Steps(done), xfer.busy => Idle(flash), flash.dummycount = 0, flash.xip_cmd = 0, ~flash.write_enabled,
         FreshXfer, xfer.busy => xfer.data \notin WriteEnables, NEW m, Traced(done, m)
  PROVE m \in SafeSet(flash.latency, flash.quad) /\ m.xip_cmd = 0 /\ m.dummycount = 0
<1>1. flash \in FlashSet /\ xfer.data \in Nat
  BY StepFacts DEF XferSet
<1>2. ASSUME NEW h \in FlashSet, ~h.write_enabled, h.xip_cmd = 0, h.dummycount = 0, h.latency = flash.latency, h.quad = flash.quad
      PROVE h \in SafeSet(flash.latency, flash.quad) /\ h.xip_cmd = 0 /\ h.dummycount = 0
  <2>1. Safe(h)
    BY <1>2 DEF Safe
  <2> QED BY <1>2, <2>1 DEF SafeSet
<1>3. CASE m = flash
  BY <1>1, <1>2, <1>3
<1>4. CASE m # flash
  <2>1. xfer.busy
    BY <1>4 DEF Traced
  <2>2. xfer.lanes = 1 /\ xfer.dummy = 0
    BY DEF FreshXfer
  <2>3. CASE done
    <3>1. m = Transferred(flash, 1, 0, xfer.data)
      BY <1>4, <2>1, <2>2, <2>3 DEF Traced
    <3>2. /\ m \in FlashSet /\ m.xip_cmd = 0 /\ m.dummycount = 0
          /\ ~m.write_enabled /\ m.latency = flash.latency /\ m.quad = flash.quad
      BY <1>1, <2>1, <3>1, PlainCommand
    <3> QED BY <1>2, <3>2
  <2>4. CASE ~done
    <3>1. PICK n \in 0..LastClock : m = Clocks(flash, n)
      BY <1>4, <2>1, <2>4 DEF Traced
    <3>2. LastClock = 7
      BY <2>2 DEF LastClock
    <3>3. m \in CutSet(flash, n)
      BY <1>1, <2>1, <3>1, <3>2, CutCommand
    <3>4. /\ m \in FlashSet /\ m.xip_cmd = 0 /\ m.dummycount = 0
          /\ ~m.write_enabled /\ m.latency = flash.latency /\ m.quad = flash.quad
      BY <3>3 DEF CutSet
    <3> QED BY <1>2, <3>4
  <2> QED BY <2>3, <2>4
<1> QED BY <1>3, <1>4

(* The bytes that restart the flash may be cut short.                         *)
RestartByte == IF state = 1 THEN LeaveXip ELSE PowerUp
LEMMA RestartBytes ==
  /\ {LeaveXip, PowerUp} \cap (WriteEnables \cup {StayInXip}) = {} /\ {LeaveXip, PowerUp} \cap WideReads = {} /\ LeaveXip # PowerUp
  /\ {LeaveXip, PowerUp} \subseteq Nat
  BY DEF LeaveXip, PowerUp, WriteEnables, StayInXip, WideReads, DualRead, QuadRead, QuadDdrRead

LEMMA RestartMoves ==
  ASSUME NEW done, Steps(done), config.en, ~softreset, state \in {1, 3}, NEW m, Traced(done, m)
  PROVE m \in SafeSet(flash.latency, flash.quad)
<1>1. /\ xfer_resetn /\ xfer.busy /\ FreshXfer /\ xfer.data = RestartByte
  <2>1. state \in {1, 3} => state <= 3
    OBVIOUS
  <2> QED BY <2>1, StepFacts DEF RestartOk, RestartByte
<1>2. Safe(flash)
  <2>1. Restarting
    BY DEF Restarting
  <2> QED BY <2>1, StepFacts DEF SafeOk
<1>3. PICK l \in LatencySet : l = flash.latency
  BY StepFacts
<1>4. PICK q : q = flash.quad
  OBVIOUS
<1>5. flash \in SafeSet(l, q) /\ Short(l)
  BY <1>2, <1>3, <1>4, StepFacts DEF SafeSet
<1>6. PICK b : b = xfer.data
  OBVIOUS
<1>7. b \in Int /\ Harmless(flash, b)
  BY <1>1, <1>6, RestartBytes DEF Harmless, RestartByte
<1>8. xfer.lanes = 1 /\ xfer.dummy = 0 /\ 1 \in ModeSet /\ 0 \in Nat
  BY <1>1 DEF FreshXfer, ModeSet
<1>9. Transferred(flash, 1, 0, b) \in SafeSet(l, q)
  BY <1>5, <1>7, <1>8, SafeTransferred
<1>10. \A n \in 0..LastClock : Clocks(flash, n) \in SafeSet(l, q)
  <2>1. LastClock = 7
    BY <1>8 DEF LastClock
  <2>2. 0..7 \subseteq Nat
    OBVIOUS
  <2> QED BY <1>5, <2>1, <2>2, SafeClocks
<1>11. m = flash \/ m = Transferred(flash, 1, 0, b) \/ \E n \in 0..LastClock : m = Clocks(flash, n)
  BY <1>1, <1>6, <1>8, StepFacts DEF Traced
<1> QED BY <1>3, <1>4, <1>5, <1>9, <1>10, <1>11

LEMMA ManualCuts ==
  ASSUME NEW done, Steps(done), config.en, req.kind = "config", Working, ~softreset
  PROVE FlashInv'
<1>1. state <= 4 \/ (state = 5 /\ ~din.valid)
  BY StepFacts DEF ResetOk
<1>2. state \in 0..12
  BY StepFacts DEF TypesOk
<1>3. CASE state \in {0, 2}
  <2>1. Restarting /\ state <= 3
    BY <1>3 DEF Restarting
  <2>2. Safe(flash) /\ (~config.cont => flash.xip_cmd = 0 /\ flash.dummycount = 0)
    BY <2>1, StepFacts DEF SafeOk
  <2>3. xfer_resetn => ~xfer.busy
    BY <1>3, <2>1, StepFacts DEF RestartOk, Quiet
  <2>4. ~flash.write_enabled /\ (xfer.busy => flash.bytecount >= 5 /\ flash.dummycount = 0)
    BY <2>1, <2>2, <2>3, StepFacts DEF SafeOk, Safe
  <2>5. ASSUME NEW m, Traced(done, m)
        PROVE m \in SafeSet(flash.latency, flash.quad) /\ (~config.cont => m.xip_cmd = 0 /\ m.dummycount = 0)
    <3>1. m \in KeptSet(flash)
      BY <2>4, <2>5, KeptMoves
    <3> QED BY <2>2, <3>1, KeptStarts
  <2> QED BY <2>5, ManualFrom
<1>4. CASE state \in {1, 3}
  <2>1. Restarting /\ state <= 3
    BY <1>4 DEF Restarting
  <2>2. Safe(flash) /\ (~config.cont => flash.xip_cmd = 0 /\ flash.dummycount = 0)
    BY <2>1, StepFacts DEF SafeOk
  <2>3. ~config.cont => Idle(flash)
    BY <1>4, <2>1, <2>2, StepFacts DEF StartOk
  <2>4. /\ xfer_resetn /\ xfer.busy /\ FreshXfer /\ xfer.data = RestartByte
    BY <1>4, <2>1, StepFacts DEF RestartOk, RestartByte
  <2>5. xfer.data \notin WriteEnables /\ ~flash.write_enabled
    BY <2>2, <2>4, RestartBytes DEF RestartByte, Safe
  <2>6. ASSUME NEW m, Traced(done, m)
        PROVE m \in SafeSet(flash.latency, flash.quad) /\ (~config.cont => m.xip_cmd = 0 /\ m.dummycount = 0)
    <3>1. m \in SafeSet(flash.latency, flash.quad)
      BY <1>4, <2>6, RestartMoves
    <3>2. ~config.cont => m.xip_cmd = 0 /\ m.dummycount = 0
      BY <2>2, <2>3, <2>4, <2>5, <2>6, CommandCut
    <3> QED BY <3>1, <3>2
  <2> QED BY <2>6, ManualFrom
<1>5. CASE state = 4
  <2>1. state >= 4 /\ state \in {4, 5}
    BY <1>5
  <2>2. xfer_resetn => xfer.csb /\ ~xfer.busy
    BY <1>5, <2>1, StepFacts DEF CommandOk, Quiet
  <2>3. ~flash.write_enabled /\ flash.dummycount = 0 /\ flash.xip_cmd = 0
    BY <1>5, <2>1, <2>2, StepFacts DEF ReadyOk
  <2>4. xfer.busy => flash.bytecount >= 5
    BY <2>1, <2>2, StepFacts DEF ReadyOk
  <2>5. Safe(flash)
    BY <2>3 DEF Safe
  <2>6. ASSUME NEW m, Traced(done, m)
        PROVE m \in SafeSet(flash.latency, flash.quad) /\ (~config.cont => m.xip_cmd = 0 /\ m.dummycount = 0)
    <3>1. m \in KeptSet(flash)
      BY <2>3, <2>4, <2>6, KeptMoves
    <3> QED BY <2>3, <2>5, <3>1, KeptStarts
  <2> QED BY <2>6, ManualFrom
<1>6. CASE state = 5
  <2>1. state >= 4 /\ state \in {4, 5}
    BY <1>6
  <2>2. xfer_resetn /\ ~xfer.csb /\ FreshXfer /\ xfer.data = ReadCommand
    <3>1. ~Pending
      BY DEF Pending
    <3> QED BY <1>6, <2>1, <3>1, StepFacts DEF CommandOk
  <2>3. ~flash.write_enabled /\ flash.dummycount = 0 /\ flash.xip_cmd = 0 /\ (xfer.busy => Idle(flash))
    BY <1>6, <2>1, <2>2, StepFacts DEF ReadyOk
  <2>4. xfer.data \notin WriteEnables
    <3>1. ReadCommand \in WideReads \cup {Read}
      BY StepFacts, LanesTypes
    <3> QED BY <2>2, <3>1 DEF WideReads, DualRead, QuadRead, QuadDdrRead, Read, WriteEnables
  <2>5. ASSUME NEW m, Traced(done, m)
        PROVE m \in SafeSet(flash.latency, flash.quad) /\ (~config.cont => m.xip_cmd = 0 /\ m.dummycount = 0)
    BY <2>2, <2>3, <2>4, <2>5, CommandCut
  <2> QED BY <2>5, ManualFrom
<1>7. state \in {0, 2} \/ state \in {1, 3} \/ state = 4 \/ state = 5
  BY <1>1, <1>2
<1> QED BY <1>3, <1>4, <1>5, <1>6, <1>7

LEMMA ContWide ==
  ASSUME ProgramOk, RegisterOk, AgreeOk, config.cont
  PROVE flash.quad /\ ReadCommand \in WideReads /\ (config.qspi => ReadCommand \in QuadReads)
<1>1. config.qspi \/ config.ddr
  BY DEF RegisterOk
<1>2. ~Booting
  BY <1>1 DEF ProgramOk, ModeOff
<1>3. flash.quad
  BY <1>2 DEF AgreeOk
<1>4. ReadCommand \in {DualRead, QuadRead, QuadDdrRead} /\ (config.qspi => ReadCommand \in {QuadRead, QuadDdrRead})
  BY <1>1 DEF ReadCommand, ConfiguredLanes
<1> QED BY <1>3, <1>4 DEF QuadReads, WideReads

(* A write by the program, which has fetched a word to come to it.            *)
LEMMA FetchedIs ==
  ASSUME NEW done, Steps(done), req.kind = "config", ~Working
  PROVE /\ ~softreset /\ state \in 6..12 /\ ~Leading /\ xfer.dummy = 0 /\ xfer_resetn /\ ~xfer.csb /\ config.en
        /\ flash.bytecount = 5 /\ flash.dummycount = 0 /\ ~flash.write_enabled /\ flash.powered_up
        /\ flash.xip_cmd = (IF config.cont THEN ReadCommand ELSE 0)
<1>1. fetched
  BY StepFacts DEF BusOk
<1>2. ~softreset /\ state >= 4 /\ rd_valid
  BY <1>1, StepFacts DEF ResetOk, Pending
<1>3. state \in 0..12
  BY StepFacts DEF TypesOk
<1>4. state \notin {4, 5}
  BY <1>2, StepFacts DEF CommandOk
<1>5. state \in 6..12 /\ state >= 6
  BY <1>2, <1>3, <1>4
<1>6. ~first
  BY <1>2, <1>5, StepFacts DEF RunningOk, first
<1>7. ~Leading /\ xfer.dummy = 0 /\ xfer_resetn /\ ~xfer.csb /\ config.en
  BY <1>2, <1>5, <1>6, StepFacts DEF RunningOk
<1>8. /\ flash.bytecount = 5 /\ flash.dummycount = 0 /\ ~flash.write_enabled /\ flash.powered_up
      /\ flash.xip_cmd = (IF config.cont THEN ReadCommand ELSE 0)
  BY <1>2, <1>5, <1>7, StepFacts DEF ReadyOk
<1> QED BY <1>2, <1>5, <1>7, <1>8

LEMMA WriteFlash ==
  ASSUME NEW done, Steps(done), req.kind = "config", ~Working
  PROVE FlashInv'
<1>1. /\ ~softreset /\ state \in 6..12 /\ ~Leading /\ xfer.dummy = 0 /\ xfer_resetn /\ ~xfer.csb /\ config.en
      /\ flash.bytecount = 5 /\ flash.dummycount = 0 /\ ~flash.write_enabled /\ flash.powered_up
      /\ flash.xip_cmd = (IF config.cont THEN ReadCommand ELSE 0)
  BY FetchedIs
<1>2. /\ calls # <<>> /\ softreset' /\ config' = Written(Op) /\ board' = board
      /\ IF step < Len(Writes(Head(calls))) THEN step' = step + 1 /\ calls' = calls
         ELSE step' = 1 /\ calls' = Tail(calls)
  <2>1. ProgramInv /\ ClockEdge(done)
    BY DEF Steps
  <2> QED BY <2>1, BusEdge
<1>3. ProgramOk /\ AgreeOk /\ RegisterOk
  BY StepFacts
<1>4. Head(calls).act = "flashio" => Op.act = "enter" /\ config'.en /\ config'.cont = config.cont
  <2>1. SUFFICES ASSUME Head(calls).act = "flashio" PROVE Op.act = "enter" /\ config'.en /\ config'.cont = config.cont
    OBVIOUS
  <2>2. step = 1
    BY <1>2, <1>3, <2>1, OpIs DEF Working
  <2>3. Op.act = "enter"
    BY <1>2, <1>3, <2>1, <2>2, OpIs
  <2> QED BY <1>1, <2>1, <2>3, WorkerStep
<1>5. Head(calls).act # "flashio" => config'.en /\ ~Working' /\ Op.act \in {"set", "crm", "toggle"}
  <2>1. SUFFICES ASSUME Head(calls).act # "flashio" PROVE config'.en /\ ~Working' /\ Op.act \in {"set", "crm", "toggle"}
    OBVIOUS
  <2>2. ProgramInv /\ (config'.cont => config'.qspi \/ config'.ddr)
    BY WriteKeeps
  <2>3. ~Working'
    BY <1>2, <2>1, <2>2, PlainWrite
  <2>4. Op.act \in {"set", "crm", "toggle"}
    BY <1>2, <1>3, <2>1, OpIs
  <2>5. config'.en
    <3>1. PICK op : op = Op
      OBVIOUS
    <3>2. config' = Written(op) /\ op.act \in {"set", "crm", "toggle"} /\ config \in ConfigSet
      BY <1>2, <2>4, <3>1, StepFacts
    <3> QED BY <1>1, <3>2, WrittenIs
  <2> QED BY <2>3, <2>4, <2>5
<1>6. ~ByteSent
  BY <1>4, <1>5 DEF ByteSent
<1>7. PICK m : Pins(m) /\ Traced(done, m)
  BY <1>6, Moves
<1>8. m \in PastSet(flash)
  <2>1. flash.bytecount >= 5
    BY <1>1
  <2> QED BY <1>1, <1>7, <2>1, PastMoves
<1>9. ~PinCsb /\ ~PinCsb' /\ ~xfer'.csb
  <2>1. Transfer(done)
    BY <1>6, StepFacts DEF ClockEdge, Edge
  <2>2. ~xfer'.csb
    BY <1>1, <2>1, TransferIs
  <2> QED BY <1>1, <1>4, <1>5, <2>2 DEF PinCsb
<1>10. flash' = m
  BY <1>7, <1>9, PinsFields
<1>11. PICK g : g = flash'
  OBVIOUS
<1>12. /\ g \in FlashSet /\ g.bytecount >= 5 /\ g.dummycount = 0 /\ ~g.write_enabled
       /\ g.xip_cmd = flash.xip_cmd /\ g.powered_up = flash.powered_up
       /\ g.latency = flash.latency /\ g.quad = flash.quad
  BY <1>8, <1>10, <1>11 DEF PastSet
<1>13. Same(flash')
  BY <1>11, <1>12 DEF Same
<1>14. AgreeOk'
  <2>1. CASE Head(calls).act = "flashio"
    BY <1>4, <1>13, <2>1, AgreeWorker
  <2>2. CASE Head(calls).act # "flashio"
    BY <1>13, <2>2, AgreeSet
  <2> QED BY <2>1, <2>2
<1>15. FlashOk'
  BY <1>9, <1>13, StepFacts DEF FlashOk, Same
<1>16. Safe(g)
  <2>0. config.cont => config.qspi
    BY WriteKeeps
  <2>1. flash.xip_cmd # 0 => flash.quad /\ flash.xip_cmd \in QuadReads
    BY <1>1, <1>3, <2>0, ContWide
  <2>2. g.xip_cmd = 0 \/ g.xip_cmd \in QuadReads
    BY ONLY <1>12, <2>1, Zenon
  <2>3. g.xip_cmd # 0 => g.powered_up /\ g.quad
    BY ONLY <1>1, <1>12, <2>1, Zenon
  <2> QED BY <1>12, <2>2, <2>3 DEF Safe
<1>17. SafeOk'
  <2>1. Working' /\ ~config'.cont => g.xip_cmd = 0 /\ g.dummycount = 0
    BY <1>1, <1>4, <1>5, <1>12
  <2> QED BY <1>9, <1>11, <1>12, <1>16, <2>1 DEF SafeOk
<1>18. ManualOk' /\ StartOk' /\ ReadyOk'
  BY <1>2, <1>4, <1>5 DEF ManualOk, StartOk, ReadyOk
<1> QED BY <1>14, <1>15, <1>17, <1>18 DEF FlashInv

(* A cycle of reset: what is on the wires behind a mode byte goes on.          *)
LEMMA ResetFlash ==
  ASSUME NEW done, Steps(done), config.en, req.kind # "config", softreset
  PROVE FlashInv'
<1>1. /\ Safe(flash)
      /\ Working /\ ~config.cont => flash.xip_cmd = 0 /\ flash.dummycount = 0
      /\ xfer_resetn => ~xfer.csb
      /\ ~xfer.csb => flash.bytecount >= 5 /\ flash.dummycount = 0
      /\ xfer.busy /\ ~xfer_resetn => flash.bytecount >= 5 /\ flash.dummycount = 0
  BY StepFacts DEF SafeOk, Restarting
<1>2. /\ config' = config /\ ~softreset' /\ (Working' <=> Working)
  BY ProgramSame
<1>3. state' = 0 /\ ~xfer_resetn' /\ Transfer(done)
  <2>1. Held /\ Transfer(done)
    BY StepFacts DEF ClockEdge, Edge, cfgreg_sel
  <2> QED BY <2>1, HeldFields
<1>4. xfer.busy => flash.bytecount >= 5 /\ flash.dummycount = 0
  BY <1>1, StepFacts DEF ResetOk
<1>5. ~flash.write_enabled
  BY <1>1 DEF Safe
<1>6. PICK m : Pins(m) /\ Traced(done, m)
  BY Moves DEF ByteSent
<1>7. m \in KeptSet(flash)
  BY <1>4, <1>5, <1>6, KeptMoves
<1>8. ~xfer'.csb => xfer_resetn /\ ~xfer.csb
  BY <1>1, <1>3, StepFacts, ResetFields
<1>9. xfer'.busy => xfer_resetn /\ ~xfer'.csb
  BY <1>3, StepFacts, ResetFields DEF ResetOk
<1>10. (PinCsb <=> xfer.csb) /\ (PinCsb' <=> xfer'.csb)
  BY <1>2 DEF PinCsb
<1>11. CASE xfer'.csb
  <2>1. flash' = Deselected(m) \/ (flash' = flash /\ m = flash /\ Idle(flash))
    <3>1. CASE PinCsb
      <4>1. ~xfer.busy /\ Idle(flash)
        BY <1>10, <3>1, StepFacts DEF FlashOk, ResetOk
      <4>2. m = flash
        BY <1>6, <4>1 DEF Traced
      <4> QED BY <1>6, <1>10, <1>11, <3>1, <4>1, <4>2, PinsFields
    <3>2. CASE ~PinCsb
      BY <1>6, <1>10, <1>11, <3>2, PinsFields
    <3> QED BY <3>1, <3>2
  <2>2. flash' \in KeptSet(flash) /\ Idle(flash')
    BY <1>7, <2>1, DeselectedKept
  <2>3. PICK g : g = flash'
    OBVIOUS
  <2>4. Safe(g) /\ g.dummycount = flash.dummycount /\ g.xip_cmd = flash.xip_cmd
    BY <1>1, <2>2, <2>3, SafeKept DEF KeptSet
  <2>5. SafeOk'
    BY <1>1, <1>2, <1>9, <1>11, <2>3, <2>4 DEF SafeOk
  <2>6. Same(flash')
    BY <2>2 DEF KeptSet, Same
  <2>7. FlashOk'
    BY <2>2, <2>6, StepFacts DEF FlashOk, Same
  <2>8. AgreeOk'
    BY <2>6, AgreeKept
  <2>9. ManualOk' /\ StartOk' /\ ReadyOk'
    BY <1>2, <1>3 DEF ManualOk, StartOk, ReadyOk
  <2> QED BY <2>5, <2>7, <2>8, <2>9 DEF FlashInv
<1>12. CASE ~xfer'.csb
  <2>1. flash' = m
    BY <1>6, <1>8, <1>10, <1>12, PinsFields
  <2>2. m \in PastSet(flash)
    BY <1>1, <1>5, <1>6, <1>8, <1>12, PastMoves
  <2>3. PICK g : g = flash'
    OBVIOUS
  <2>4. /\ g \in FlashSet /\ g.bytecount >= 5 /\ g.dummycount = 0
        /\ g.xip_cmd = flash.xip_cmd
        /\ g.latency = flash.latency /\ g.quad = flash.quad
    BY <2>1, <2>2, <2>3 DEF PastSet
  <2>5. Safe(g)
    BY <1>1, <1>7, <2>1, <2>3, SafeKept
  <2>6. SafeOk'
    BY <1>1, <1>2, <2>3, <2>4, <2>5 DEF SafeOk
  <2>7. Same(flash')
    BY <2>3, <2>4 DEF Same
  <2>8. FlashOk'
    BY <1>10, <1>12, <2>7, StepFacts DEF FlashOk, Same
  <2>9. AgreeOk'
    BY <2>7, AgreeKept
  <2>10. ManualOk' /\ StartOk' /\ ReadyOk'
    BY <1>2, <1>3 DEF ManualOk, StartOk, ReadyOk
  <2> QED BY <2>6, <2>8, <2>9, <2>10 DEF FlashInv
<1>13. xfer'.csb \in BOOLEAN
  BY StepFacts DEF XferSet
<1> QED BY <1>11, <1>12, <1>13

(* An edge at which the controller runs, seen by the flash.                   *)
Going(done) == Steps(done) /\ ~softreset /\ req.kind # "config"
LEMMA GoingIs ==
  ASSUME NEW done, Going(done)
  PROVE /\ Steps(done) /\ Runs(done) /\ config' = config /\ config.en /\ ~softreset' /\ (Working' <=> Working) /\ ManualOk'
        /\ (PinCsb <=> xfer.csb) /\ (PinCsb' <=> xfer'.csb)
        /\ (wide' <=> wide) /\ ReadCommand' = ReadCommand /\ ConfiguredLanes' = ConfiguredLanes
        /\ Transfer(done) /\ Sequence(Pending, req.addr, done) /\ req \in ReqSet
        /\ done => xfer.busy /\ ~xfer.fetch
<1>1. Steps(done) /\ ~softreset /\ req.kind # "config"
  BY DEF Going
<1>2. Runs(done)
  BY <1>1, StepFacts DEF Runs, Steps
<1>3. /\ config' = config /\ config.en /\ Transfer(done) /\ Sequence(Pending, req.addr, done) /\ req \in ReqSet
      /\ softreset' = FALSE /\ (done => xfer.busy /\ ~xfer.fetch)
  BY <1>2, RunConfig
<1>4. Working' <=> Working
  BY <1>1, ProgramSame
<1>5. ManualOk' /\ (PinCsb <=> xfer.csb) /\ (PinCsb' <=> xfer'.csb)
  BY <1>3 DEF ManualOk, PinCsb
<1>6. (wide' <=> wide) /\ ReadCommand' = ReadCommand /\ ConfiguredLanes' = ConfiguredLanes
  BY <1>3, SameMode
<1> QED BY <1>1, <1>2, <1>3, <1>4, <1>5, <1>6

LEMMA GoingMoves ==
  ASSUME NEW done, Going(done)
  PROVE \E m : /\ Traced(done, m)
               /\ xfer.csb /\ ~xfer'.csb => flash' = Selected(m)
               /\ ~xfer.csb /\ xfer'.csb => flash' = Deselected(m)
               /\ (xfer.csb <=> xfer'.csb) => flash' = m
               /\ xfer_resetn /\ ~done => m = flash
<1>1. PICK m : Pins(m) /\ Traced(done, m)
  BY GoingIs, Moves DEF ByteSent, Going
<1>2. xfer_resetn /\ ~done => m = flash
  BY <1>1, GoingIs DEF Traced
<1>3. /\ PinCsb /\ ~PinCsb' => flash' = Selected(m)
      /\ ~PinCsb /\ PinCsb' => flash' = Deselected(m)
      /\ PinCsb /\ PinCsb' => flash' = m
      /\ ~PinCsb /\ ~PinCsb' => flash' = m
  BY <1>1, PinsFields
<1>4. (PinCsb <=> xfer.csb) /\ (PinCsb' <=> xfer'.csb)
  BY GoingIs
<1>5. /\ xfer.csb /\ ~xfer'.csb => flash' = Selected(m)
      /\ ~xfer.csb /\ xfer'.csb => flash' = Deselected(m)
      /\ (xfer.csb <=> xfer'.csb) => flash' = m
  BY ONLY <1>3, <1>4, Zenon
<1> QED BY <1>1, <1>2, <1>5

(* What is left to show of the flash, once its latency and quad bit stay.     *)
LEMMA GoingDone ==
  ASSUME NEW done, Going(done), Same(flash'), xfer'.csb => Idle(flash'), SafeOk', StartOk', ReadyOk'
  PROVE FlashInv'
<1>1. AgreeOk'
  BY GoingIs, AgreeKept DEF Going
<1>2. FlashOk'
  BY GoingIs, StepFacts DEF FlashOk, Same
<1> QED BY <1>1, <1>2, GoingIs DEF FlashInv

(* A cycle of reset of the transfer unit: the flash is deselected.            *)
LEMMA GoingReset ==
  ASSUME NEW done, Going(done), ~xfer_resetn, ~flash.write_enabled,
         xfer.busy => flash.bytecount >= 5 /\ flash.dummycount = 0
  PROVE flash' \in KeptSet(flash) /\ Idle(flash') /\ xfer'.csb /\ ~xfer'.busy
<1>1. xfer'.csb /\ ~xfer'.busy
  BY GoingIs, StepFacts, ResetFields
<1>2. PICK m : /\ Traced(done, m)
               /\ ~xfer.csb /\ xfer'.csb => flash' = Deselected(m)
               /\ (xfer.csb <=> xfer'.csb) => flash' = m
  BY GoingMoves
<1>3. m \in KeptSet(flash)
  BY <1>2, GoingIs, KeptMoves
<1>4. CASE xfer.csb
  <2>1. ~xfer.busy /\ Idle(flash)
    BY <1>4, GoingIs, StepFacts DEF ResetOk, FlashOk
  <2>2. m = flash
    BY <1>2, <2>1 DEF Traced
  <2> QED BY <1>1, <1>2, <1>3, <1>4, <2>1, <2>2
<1>5. CASE ~xfer.csb
  BY <1>1, <1>2, <1>3, <1>5, DeselectedKept
<1> QED BY <1>1, <1>4, <1>5

(* Nothing is on the wires: the flash stays, or is selected.                  *)
LEMMA GoingQuiet ==
  ASSUME NEW done, Going(done), xfer_resetn, xfer.csb, ~xfer.busy
  PROVE /\ Idle(flash) /\ ~done /\ (din_ready(done) <=> din.valid)
        /\ ~din.valid => flash' = flash /\ xfer'.csb /\ ~xfer'.busy
        /\ din.valid => flash' = Selected(flash) /\ ~xfer'.csb /\ xfer'.busy
<1>1. Idle(flash) /\ ~done
  BY GoingIs, StepFacts DEF FlashOk
<1>2. din_ready(done) <=> din.valid
  BY DEF din_ready, next_fetch
<1>3. ~din.valid => xfer'.csb /\ ~xfer'.busy
  BY <1>1, <1>2, GoingIs, StepFacts, KeepFields
<1>4. din.valid => ~xfer'.csb /\ xfer'.busy
  BY <1>1, <1>2, GoingIs, StepFacts, TakeFields
<1>5. PICK m : /\ Traced(done, m)
               /\ xfer.csb /\ ~xfer'.csb => flash' = Selected(m)
               /\ (xfer.csb <=> xfer'.csb) => flash' = m
               /\ xfer_resetn /\ ~done => m = flash
  BY GoingMoves
<1>6. m = flash
  BY <1>1, <1>5
<1>7. ~din.valid => flash' = flash
  BY <1>3, <1>5, <1>6
<1>8. din.valid => flash' = Selected(flash)
  BY <1>4, <1>5, <1>6
<1> QED BY <1>1, <1>2, <1>3, <1>4, <1>7, <1>8

(* The states that offer a byte and wait until it is taken.                   *)
LEMMA EarlyMoves ==
  ASSUME NEW done, Going(done), state \in {0, 2, 4}
  PROVE /\ xfer_resetn' /\ (din_ready(done) => state' = state + 1) /\ (~din_ready(done) => state' = state)
<1>0. state \notin {1, 3} /\ Runs(done)
  BY GoingIs
<1>1. /\ Sequence(Pending, req.addr, done) /\ TypesOk /\ config \in ConfigSet /\ req \in ReqSet
  BY <1>0, RunConfig
<1>2. ~rd_valid
  BY GoingIs, StepFacts DEF RestartOk, CommandOk, Going
<1>3. ~jumps /\ ~Waits(Pending, req.addr)
  BY <1>0, <1>2, RunRequest DEF Waits
<1>4. din_ready(done) => xfer_resetn' /\ state' = After
  BY <1>0, <1>1, <1>3, SeqTake DEF jumps
<1>5. ~din_ready(done) => xfer_resetn' /\ state' = state
  BY <1>0, <1>1, <1>3, SeqOffer DEF jumps
<1> QED BY <1>4, <1>5 DEF After

(* The controller restarts the flash until state 4.                           *)
LEMMA StillRestarting ==
  ASSUME NEW done, Going(done), NEW g, g = flash', state' \in 0..3,
         g \in SafeSet(flash.latency, flash.quad), xfer'.csb => Idle(g), xfer'.busy => xfer_resetn',
         Working /\ ~config.cont => g.xip_cmd = 0 /\ g.dummycount = 0, StartOk'
  PROVE FlashInv'
<1>1. Same(flash') /\ Safe(g)
  BY DEF SafeSet, Same
<1>2. ~softreset' /\ config' = config /\ (Working' <=> Working)
  BY GoingIs
<1>3. SafeOk'
  BY <1>1, <1>2 DEF SafeOk
<1>4. ReadyOk'
  BY DEF ReadyOk
<1> QED BY <1>1, <1>3, <1>4, GoingDone

LEMMA StartOffer ==
  ASSUME NEW done, Going(done), state \in {0, 2} PROVE FlashInv'
<1>1. /\ Safe(flash) /\ (Working /\ ~config.cont => flash.xip_cmd = 0 /\ flash.dummycount = 0)
      /\ xfer.busy /\ ~xfer_resetn => flash.bytecount >= 5 /\ flash.dummycount = 0
  BY GoingIs, StepFacts DEF SafeOk, Restarting
<1>2. state = 2 => flash.xip_cmd = 0
  BY GoingIs, StepFacts DEF StartOk, Going
<1>3. ~flash.write_enabled /\ flash \in SafeSet(flash.latency, flash.quad)
  BY <1>1, GoingIs, StepFacts DEF Safe, SafeSet
<1>4. PICK g : g = flash'
  OBVIOUS
<1>5. ~softreset' /\ config' = config
  BY GoingIs
<1>6. xfer_resetn'
  BY EarlyMoves
<1>7. CASE ~xfer_resetn
  <2>1. g \in KeptSet(flash) /\ Idle(g) /\ xfer'.csb
    BY <1>1, <1>3, <1>4, <1>7, GoingReset
  <2>2. state' = state
    BY <1>7, EarlyMoves DEF din_ready
  <2>3. g \in FlashSet /\ g.latency = flash.latency /\ g.quad = flash.quad /\ g.xip_cmd = flash.xip_cmd
        /\ g.dummycount = flash.dummycount /\ Safe(g)
    BY <1>1, <2>1, SafeKept DEF KeptSet
  <2>4. g \in SafeSet(flash.latency, flash.quad)
    BY <2>3 DEF SafeSet
  <2>5. StartOk'
    BY <1>2, <1>4, <2>2, <2>3 DEF StartOk
  <2> QED BY <1>1, <1>4, <1>6, <2>1, <2>2, <2>3, <2>4, <2>5, StillRestarting
<1>8. CASE xfer_resetn
  <2>1. xfer.csb /\ ~xfer.busy
    BY <1>8, GoingIs, StepFacts DEF RestartOk, Quiet, Going
  <2>2. /\ Idle(flash) /\ (din_ready(done) <=> din.valid)
        /\ ~din.valid => flash' = flash /\ xfer'.csb
        /\ din.valid => flash' = Selected(flash) /\ ~xfer'.csb
    BY <1>8, <2>1, GoingQuiet
  <2>3. CASE ~din.valid
    <3>1. g = flash /\ state' = state
      BY <1>4, <2>2, <2>3, EarlyMoves
    <3>2. StartOk'
      BY <1>2, <1>4, <3>1 DEF StartOk
    <3> QED BY <1>1, <1>3, <1>4, <1>6, <2>2, <3>1, <3>2, StillRestarting
  <2>4. CASE din.valid
    <3>1. g = Selected(flash) /\ state' = state + 1 /\ ~xfer'.csb
      BY <1>4, <2>2, <2>4, EarlyMoves
    <3>2. flash.latency \in LatencySet /\ Short(flash.latency)
      BY GoingIs, StepFacts
    <3>3. /\ g \in SafeSet(flash.latency, flash.quad)
          /\ flash.xip_cmd = 0 => g = flash
          /\ flash.xip_cmd # 0 => /\ g.bitcount = 0 /\ g.bytecount = 1 /\ g.mode = Lanes(flash.xip_cmd)
                                  /\ g.spi_cmd = flash.xip_cmd /\ g.xip_cmd = flash.xip_cmd
      BY <1>3, <2>2, <3>1, <3>2, SelectedFields
    <3>4. g.bitcount = 0 /\ (g.xip_cmd = 0 => Idle(g))
      BY <2>2, <3>3 DEF Idle
    <3>5. state' \in {1, 3} /\ (state' = 3 => state = 2)
      BY <3>1
    <3>6. StartOk'
      BY <1>2, <1>4, <2>2, <3>3, <3>4, <3>5 DEF StartOk
    <3>7. Working /\ ~config.cont => g.xip_cmd = 0 /\ g.dummycount = 0
      BY <1>1, <3>3
    <3> QED BY <1>4, <1>6, <3>1, <3>3, <3>5, <3>6, <3>7, StillRestarting
  <2>5. din.valid \in BOOLEAN
    BY GoingIs, StepFacts DEF TypesOk, DinSet
  <2> QED BY <2>3, <2>4, <2>5
<1> QED BY <1>7, <1>8

(* The flash behind the two bytes.                                            *)
LEMMA StartByte ==
  ASSUME NEW done, Going(done), state \in {1, 3} PROVE FlashInv'
<1>1. /\ Safe(flash) /\ (Working /\ ~config.cont => flash.xip_cmd = 0 /\ flash.dummycount = 0)
  BY GoingIs, StepFacts DEF SafeOk, Restarting
<1>2. /\ flash.bitcount = 0
      /\ state = 1 => IF flash.xip_cmd = 0 THEN Idle(flash)
                      ELSE flash.bytecount = 1 /\ flash.spi_cmd = flash.xip_cmd /\ flash.mode = Lanes(flash.xip_cmd)
      /\ state = 3 => flash.xip_cmd = 0 /\ Idle(flash)
  BY GoingIs, StepFacts DEF StartOk, Going
<1>3. ~flash.write_enabled /\ flash \in SafeSet(flash.latency, flash.quad)
  BY <1>1, GoingIs, StepFacts DEF Safe, SafeSet
<1>4. PICK g : g = flash'
  OBVIOUS
<1>5. ~softreset' /\ config' = config /\ config.en
  BY GoingIs
<1>6. /\ ~rd_valid /\ xfer.lanes = 1 /\ xfer.dummy = 0 /\ xfer_resetn /\ xfer.busy /\ ~xfer.ddr_q /\ ~din.valid
      /\ xfer.data = (IF state = 1 THEN LeaveXip ELSE PowerUp)
  BY GoingIs, StepFacts DEF RestartOk, FreshXfer, Going
<1>7. ~xfer.csb /\ ~din_ready(done)
  BY <1>6, GoingIs, StepFacts DEF ResetOk, din_ready
<1>8. ~xfer'.csb /\ (xfer'.busy <=> ~done)
  BY <1>6, <1>7, GoingIs, StepFacts, KeepFields
<1>9. (xfer_resetn' <=> ~done) /\ state' = (IF done THEN state + 1 ELSE state)
  <2>1. /\ Sequence(Pending, req.addr, done) /\ TypesOk
    BY GoingIs, StepFacts
  <2>2. ~jumps
    BY <1>6, GoingIs, RunRequest
  <2>3. dout_valid(done) <=> done
    BY <1>6, GoingIs DEF dout_valid, next_fetch
  <2>4. (xfer_resetn' <=> ~(state \in {1, 3} /\ dout_valid(done)))
        /\ state' = (IF state \in {1, 3} /\ dout_valid(done) THEN state + 1 ELSE state)
    BY <2>1, <2>2, SeqWait DEF jumps
  <2> QED BY <2>3, <2>4
<1>10. PICK m : /\ Traced(done, m) /\ ((xfer.csb <=> xfer'.csb) => flash' = m)
                /\ xfer_resetn /\ ~done => m = flash
  BY GoingMoves
<1>11. g = m
  BY <1>4, <1>7, <1>8, <1>10
<1>12. CASE ~done
  <2>1. g = flash /\ state' = state /\ xfer_resetn'
    BY <1>6, <1>9, <1>10, <1>11, <1>12
  <2>2. StartOk'
    BY <1>2, <1>4, <2>1 DEF StartOk
  <2> QED BY <1>1, <1>3, <1>4, <1>8, <2>1, <2>2, StillRestarting
<1>13. CASE done
  <2>0. state' = state + 1 /\ ~xfer_resetn' /\ ~xfer'.busy
    BY <1>8, <1>9, <1>13
  <2>1. g = Transferred(flash, 1, 0, xfer.data)
    BY <1>5, <1>6, <1>10, <1>11, <1>13 DEF Traced
  <2>2. flash.latency \in LatencySet /\ Short(flash.latency)
    BY GoingIs, StepFacts
  <2>3. CASE state = 1
    <3>1. g = Transferred(flash, 1, 0, LeaveXip)
      BY <1>6, <2>1, <2>3
    <3>2. g \in OffSet(flash.latency, flash.quad)
      BY <1>2, <1>3, <2>2, <2>3, <3>1, LeaveByte
    <3>3. g \in SafeSet(flash.latency, flash.quad) /\ g.xip_cmd = 0
      BY <3>2 DEF OffSet
    <3>4. Working /\ ~config.cont => g.dummycount = 0
      <4>1. SUFFICES ASSUME Working, ~config.cont PROVE g.dummycount = 0
        OBVIOUS
      <4>2. flash.xip_cmd = 0 /\ flash.dummycount = 0 /\ Idle(flash) /\ flash \in FlashSet
        BY <1>1, <1>2, <2>3, <4>1, GoingIs, StepFacts
      <4>3. LeaveXip \in Nat /\ LeaveXip \notin WriteEnables
        BY CommandNumbers DEF LeaveXip, WriteEnables
      <4> QED BY <1>3, <3>1, <4>2, <4>3, PlainCommand
    <3>5. state' = 2
      BY <2>0, <2>3
    <3>6. StartOk'
      BY <1>4, <3>3, <3>5 DEF StartOk
    <3> QED BY <1>4, <1>8, <2>0, <3>3, <3>4, <3>5, <3>6, StillRestarting
  <2>4. CASE state = 3
    <3>1. g = Transferred(flash, 1, 0, PowerUp)
      BY <1>6, <2>1, <2>4
    <3>2. flash \in OffSet(flash.latency, flash.quad) /\ Idle(flash)
      BY <1>2, <1>3, <2>4 DEF OffSet
    <3>3. g \in OffSet(flash.latency, flash.quad) /\ g.powered_up /\ g.dummycount = 0
      BY <2>2, <3>1, <3>2, WakeByte
    <3>4. g \in SafeSet(flash.latency, flash.quad) /\ g.xip_cmd = 0
      BY <3>3 DEF OffSet
    <3>5. Same(flash') /\ ~g.write_enabled
      BY <1>4, <3>4 DEF SafeSet, Same, Safe
    <3>6. state' = 4
      BY <2>0, <2>4
    <3>7. ReadyOk'
      BY <1>4, <1>5, <2>0, <3>3, <3>4, <3>5, <3>6 DEF ReadyOk
    <3>8. SafeOk' /\ StartOk'
      BY <1>5, <3>6 DEF SafeOk, StartOk, Restarting
    <3> QED BY <1>8, <3>5, <3>7, <3>8, GoingDone
  <2> QED BY <2>3, <2>4
<1> QED BY <1>12, <1>13, GoingIs, StepFacts

(* The read command is offered.                                               *)
LEMMA StartCommand ==
  ASSUME NEW done, Going(done), state = 4 PROVE FlashInv'
<1>1. /\ flash.powered_up /\ ~flash.write_enabled
      /\ ~xfer_resetn \/ xfer.csb => flash.dummycount = 0 /\ flash.xip_cmd = 0
      /\ ~xfer_resetn /\ xfer.busy => flash.bytecount >= 5
  BY GoingIs, StepFacts DEF ReadyOk, Going
<1>2. flash \in FlashSet
  BY GoingIs, StepFacts
<1>4. PICK g : g = flash'
  OBVIOUS
<1>5. ~softreset' /\ config' = config /\ config.en
  BY GoingIs
<1>6. xfer_resetn'
  BY EarlyMoves
<1>60. ASSUME state' \in {4, 5} PROVE SafeOk' /\ StartOk'
  BY <1>5, <1>60 DEF SafeOk, StartOk, Restarting
<1>7. CASE ~xfer_resetn
  <2>1. g \in KeptSet(flash) /\ Idle(g) /\ xfer'.csb
    BY <1>1, <1>4, <1>7, GoingReset
  <2>2. state' = 4
    BY <1>7, EarlyMoves DEF din_ready
  <2>3. g \in FlashSet /\ g.latency = flash.latency /\ g.quad = flash.quad /\ g.xip_cmd = 0
        /\ g.dummycount = 0 /\ g.powered_up /\ ~g.write_enabled
    BY <1>1, <1>7, <2>1 DEF KeptSet
  <2>4. ReadyOk'
    BY <1>4, <1>5, <1>6, <2>2, <2>3 DEF ReadyOk
  <2>5. Same(flash')
    BY <1>4, <2>3 DEF Same
  <2> QED BY <1>4, <1>60, <2>1, <2>2, <2>4, <2>5, GoingDone
<1>8. CASE xfer_resetn
  <2>1. xfer.csb /\ ~xfer.busy
    BY <1>8, GoingIs, StepFacts DEF CommandOk, Quiet, Going
  <2>2. /\ Idle(flash) /\ (din_ready(done) <=> din.valid)
        /\ ~din.valid => flash' = flash /\ xfer'.csb
        /\ din.valid => flash' = Selected(flash) /\ ~xfer'.csb /\ xfer'.busy
    BY <1>8, <2>1, GoingQuiet
  <2>3. g = flash
    BY <1>1, <1>4, <2>1, <2>2 DEF Selected
  <2>4. Same(flash')
    BY <1>2, <1>4, <2>3 DEF Same
  <2>5. CASE ~din.valid
    <3>1. state' = 4
      BY <2>2, <2>5, EarlyMoves
    <3>2. ReadyOk'
      BY <1>1, <1>4, <1>5, <1>6, <2>1, <2>3, <3>1 DEF ReadyOk
    <3> QED BY <1>4, <1>60, <2>2, <2>3, <2>4, <3>1, <3>2, GoingDone
  <2>6. CASE din.valid
    <3>1. state' = 5
      BY <2>2, <2>6, EarlyMoves
    <3>2. ~xfer'.csb /\ xfer'.busy
      BY <2>2, <2>6
    <3>3. g.bitcount = 0
      BY <2>2, <2>3 DEF Idle
    <3>4. ReadyOk'
      BY <1>1, <1>4, <1>5, <1>6, <2>1, <2>2, <2>3, <3>1, <3>2, <3>3 DEF ReadyOk
    <3> QED BY <1>60, <2>4, <3>1, <3>2, <3>4, GoingDone
  <2> QED BY <2>5, <2>6, GoingIs, StepFacts DEF TypesOk, DinSet
<1> QED BY <1>7, <1>8

(* The state that waits for a request and offers its first address byte.      *)
LEMMA AddressMoves ==
  ASSUME NEW done, Going(done), state = 5
  PROVE /\ xfer_resetn' /\ (din_ready(done) => state' = 6) /\ (~din_ready(done) => state' = 5)
        /\ Pending => req' = req
<1>0. state \notin {1, 3} /\ Runs(done)
  BY GoingIs
<1>1. /\ Sequence(Pending, req.addr, done) /\ TypesOk /\ config \in ConfigSet /\ req \in ReqSet
  BY <1>0, RunConfig
<1>2. ~rd_valid /\ (xfer_resetn /\ din.valid => Pending)
  BY GoingIs, StepFacts DEF CommandOk, Going
<1>3. ~jumps /\ ~answers /\ (Pending => req' = req)
  BY <1>0, <1>2, RunRequest
<1>4. Waits(Pending, req.addr) <=> ~Pending
  BY <1>3 DEF Waits, answers
<1>5. din_ready(done) => xfer_resetn /\ din.valid /\ Pending
  BY <1>2 DEF din_ready
<1>6. CASE Pending /\ din_ready(done)
  <2>1. ~Waits(Pending, req.addr) /\ ~jump(Pending, req.addr)
    BY <1>3, <1>4, <1>6 DEF jumps
  <2>2. xfer_resetn' /\ state' = After
    BY <1>0, <1>1, <1>6, <2>1, SeqTake
  <2> QED BY <1>3, <1>6, <2>2 DEF After
<1>7. CASE Pending /\ ~din_ready(done)
  <2>1. ~Waits(Pending, req.addr) /\ ~jump(Pending, req.addr)
    BY <1>3, <1>4, <1>7 DEF jumps
  <2>2. xfer_resetn' /\ state' = state
    BY <1>0, <1>1, <1>7, <2>1, SeqOffer
  <2> QED BY <1>3, <1>7, <2>2
<1>8. CASE ~Pending
  <2>1. Waits(Pending, req.addr) /\ ~jump(Pending, req.addr)
    BY <1>3, <1>4, <1>8 DEF jumps
  <2>2. xfer_resetn' /\ state' = state
    BY <1>0, <1>1, <2>1, SeqWait
  <2> QED BY <1>5, <1>8, <2>2
<1> QED BY <1>6, <1>7, <1>8

LEMMA LateSafe ==
  ASSUME NEW done, Going(done), state' >= 4, state' \in 0..12 PROVE SafeOk' /\ StartOk'
<1>1. ~softreset' /\ ~(state' <= 3)
  BY GoingIs
<1> QED BY <1>1 DEF SafeOk, StartOk, Restarting

(* The flash expects the first byte of an address.                            *)
Expects(g) ==
  /\ g \in FlashSet /\ g.bitcount = 0 /\ g.bytecount = 1 /\ g.spi_cmd = ReadCommand /\ g.mode = ConfiguredLanes
  /\ g.dummycount = 0 /\ g.powered_up /\ ~g.write_enabled
  /\ (g.xip_cmd = 0 \/ (config.cont /\ g.xip_cmd = ReadCommand))
  /\ g.latency = flash.latency /\ g.quad = flash.quad

LEMMA AddressStarts ==
  ASSUME NEW done, Going(done), state' = 6, Expects(flash'), ~xfer'.csb
  PROVE FlashInv'
<1>1. ~softreset' /\ config' = config /\ config.en
  BY GoingIs
<1>2. ReadCommand' = ReadCommand /\ ConfiguredLanes' = ConfiguredLanes /\ RunningOk'
  BY GoingIs, StepFacts
<1>3. xfer'.dummy = 0
  BY <1>1, <1>2 DEF RunningOk
<1>4. PICK g : g = flash'
  OBVIOUS
<1>5. Leading'
  BY DEF Leading
<1>6. ReadyOk'
  BY <1>1, <1>2, <1>3, <1>4, <1>5 DEF ReadyOk, Expects
<1>7. Same(flash')
  BY DEF Expects, Same
<1> QED BY <1>6, <1>7, LateSafe, GoingDone

LEMMA RunAddress ==
  ASSUME NEW done, Going(done), state = 5 PROVE FlashInv'
<1>1. /\ flash.powered_up /\ ~flash.write_enabled
      /\ ~xfer_resetn \/ xfer.csb => flash.dummycount = 0 /\ flash.xip_cmd = ReadCommand
      /\ ~xfer_resetn /\ xfer.busy => flash.bytecount >= 5
      /\ xfer_resetn /\ ~xfer.csb =>
           /\ flash.dummycount = 0 /\ flash.xip_cmd = 0 /\ flash.bitcount = 0
           /\ IF xfer.busy THEN Idle(flash)
              ELSE flash.bytecount = 1 /\ flash.spi_cmd = ReadCommand /\ flash.mode = ConfiguredLanes
  BY GoingIs, StepFacts DEF ReadyOk, Going
<1>2. flash \in FlashSet /\ flash.latency \in LatencySet /\ Short(flash.latency)
  BY GoingIs, StepFacts
<1>3. ~xfer_resetn \/ xfer.csb => config.cont
  BY GoingIs, StepFacts DEF CommandOk, Going
<1>4. PICK g : g = flash'
  OBVIOUS
<1>5. ~softreset' /\ config' = config /\ config.en /\ ReadCommand' = ReadCommand /\ ConfiguredLanes' = ConfiguredLanes
  BY GoingIs
<1>6. xfer_resetn'
  BY AddressMoves
<1>60. /\ ReadCommand \in Nat \ {0} /\ Lanes(ReadCommand) = ConfiguredLanes
       /\ wide <=> ReadCommand \in WideReads
       /\ ReadCommand \in WideReads \cup {Read}
  BY GoingIs, StepFacts, LanesTypes
<1>7. CASE ~xfer_resetn
  <2>1. g \in KeptSet(flash) /\ Idle(g) /\ xfer'.csb
    BY <1>1, <1>4, <1>7, GoingReset
  <2>2. state' = 5
    BY <1>7, AddressMoves DEF din_ready
  <2>3. g \in FlashSet /\ g.latency = flash.latency /\ g.quad = flash.quad /\ g.xip_cmd = ReadCommand
        /\ g.dummycount = 0 /\ g.powered_up /\ ~g.write_enabled
    BY <1>1, <1>7, <2>1 DEF KeptSet
  <2>4. ReadyOk'
    BY <1>4, <1>5, <1>6, <2>1, <2>2, <2>3 DEF ReadyOk
  <2>5. Same(flash')
    BY <1>4, <2>3 DEF Same
  <2> QED BY <1>4, <2>1, <2>2, <2>4, <2>5, LateSafe, GoingDone
<1>8. CASE xfer_resetn /\ xfer.csb
  <2>1. ~xfer.busy
    BY <1>8, GoingIs, StepFacts DEF CommandOk, Quiet, Going
  <2>2. /\ Idle(flash) /\ (din_ready(done) <=> din.valid)
        /\ ~din.valid => flash' = flash /\ xfer'.csb
        /\ din.valid => flash' = Selected(flash) /\ ~xfer'.csb /\ xfer'.busy
    BY <1>8, <2>1, GoingQuiet
  <2>5. CASE ~din.valid
    <3>1. state' = 5 /\ g = flash
      BY <1>4, <2>2, <2>5, AddressMoves
    <3>2. ReadyOk'
      BY <1>1, <1>4, <1>5, <1>6, <1>8, <2>2, <2>5, <3>1 DEF ReadyOk
    <3>3. Same(flash')
      BY <1>2, <1>4, <3>1 DEF Same
    <3> QED BY <1>4, <2>2, <3>1, <3>2, <3>3, LateSafe, GoingDone
  <2>6. CASE din.valid
    <3>1. state' = 6 /\ g = Selected(flash) /\ ~xfer'.csb
      BY <1>4, <2>2, <2>6, AddressMoves
    <3>2. config.cont /\ flash.quad /\ ReadCommand \in WideReads
      BY <1>3, <1>8, GoingIs, StepFacts, ContWide
    <3>3. /\ flash \in FlashSet /\ flash.xip_cmd \in WideReads /\ flash.powered_up /\ flash.dummycount = 0
          /\ ~flash.write_enabled
      BY <1>1, <1>2, <1>8, <3>2
    <3>6. /\ g \in FlashSet /\ g.latency = flash.latency /\ g.quad = flash.quad /\ ~g.write_enabled /\ g.powered_up
          /\ g.bitcount = 0 /\ g.bytecount = 1 /\ g.dummycount = 0
          /\ g.mode = Lanes(flash.xip_cmd) /\ g.spi_cmd = flash.xip_cmd /\ g.xip_cmd = flash.xip_cmd
      BY <2>2, <3>1, <3>2, <3>3, SelectedOn
    <3>8. Expects(g)
      BY <1>1, <1>8, <1>60, <3>2, <3>6 DEF Expects
    <3> QED BY <1>4, <3>1, <3>8, AddressStarts
  <2> QED BY <2>5, <2>6, GoingIs, StepFacts DEF TypesOk, DinSet
<1>9. CASE xfer_resetn /\ ~xfer.csb
  <2>1. xfer.lanes = 1 /\ xfer.dummy = 0 /\ xfer.data = ReadCommand
    BY <1>9, GoingIs, StepFacts DEF CommandOk, FreshXfer, Going
  <2>2. ~xfer'.csb /\ (xfer'.busy <=> din_ready(done) \/ (xfer.busy /\ ~done)) /\ (done => xfer.busy)
    BY <1>9, GoingIs, StepFacts, TransferIs
  <2>3. PICK m : /\ Traced(done, m) /\ ((xfer.csb <=> xfer'.csb) => flash' = m)
                 /\ xfer_resetn /\ ~done => m = flash
    BY GoingMoves
  <2>4. g = m
    BY <1>4, <1>9, <2>2, <2>3
  <2>40. din.valid \in BOOLEAN /\ din_ready(done) \in BOOLEAN /\ xfer.busy \in BOOLEAN /\ done \in BOOLEAN
    BY GoingIs, StepFacts DEF TypesOk, DinSet, din_ready, next_fetch, XferSet
  <2>5. CASE xfer.busy /\ ~done
    <3>1. g = flash /\ ~din_ready(done)
      BY <1>9, <2>3, <2>4, <2>5 DEF din_ready, next_fetch
    <3>2. state' = 5
      BY <3>1, AddressMoves
    <3>3. xfer'.busy
      BY <2>2, <2>5
    <3>4. ReadyOk'
      BY <1>1, <1>4, <1>5, <1>6, <1>9, <2>2, <2>5, <3>1, <3>2, <3>3 DEF ReadyOk
    <3>5. Same(flash')
      BY <1>2, <1>4, <3>1 DEF Same
    <3> QED BY <2>2, <3>2, <3>4, <3>5, LateSafe, GoingDone
  <2>6. CASE ~(xfer.busy /\ ~done)
    <3>1. Expects(g) /\ g.xip_cmd = 0
      <4>1. CASE ~xfer.busy
        <5>1. g = flash
          BY <2>2, <2>3, <2>4, <4>1, <1>9
        <5> QED BY <1>1, <1>2, <1>9, <4>1, <5>1 DEF Expects
      <4>2. CASE xfer.busy
        <5>1. done
          BY <2>6, <4>2
        <5>2. m = Transferred(flash, 1, 0, ReadCommand)
          BY <1>5, <2>1, <2>3, <4>2, <5>1 DEF Traced
        <5>3. Idle(flash) /\ flash.dummycount = 0 /\ flash.xip_cmd = 0
          BY <1>1, <1>9, <4>2
        <5>4. ReadCommand \in Nat /\ ReadCommand \notin WriteEnables
          BY <1>60 DEF WideReads, DualRead, QuadRead, QuadDdrRead, Read, WriteEnables
        <5>5. /\ g \in FlashSet /\ g.bitcount = 0 /\ g.bytecount = 1 /\ g.spi_cmd = ReadCommand /\ g.xip_cmd = 0
              /\ g.dummycount = 0 /\ ~g.write_enabled /\ g.latency = flash.latency /\ g.quad = flash.quad
              /\ (g.powered_up <=> flash.powered_up \/ ReadCommand = PowerUp)
              /\ ReadCommand \in WideReads /\ flash.powered_up /\ flash.quad => g.mode = Lanes(ReadCommand)
              /\ ReadCommand \notin WideReads => g.mode = 1
          BY <1>1, <1>2, <2>4, <5>2, <5>3, <5>4, PlainCommand
        <5>6. wide => flash.quad
          <6>1. ~flash.quad => Booting
            BY GoingIs, StepFacts DEF AgreeOk
          <6>2. Booting => ~wide
            BY GoingIs, StepFacts DEF ProgramOk, ModeOff, wide, ConfiguredLanes
          <6> QED BY <6>1, <6>2
        <5>7. g.mode = ConfiguredLanes
          <6>1. CASE wide
            BY <1>1, <1>60, <5>5, <5>6, <6>1
          <6>2. CASE ~wide
            BY <1>60, <5>5, <6>2 DEF wide
          <6> QED BY <6>1, <6>2
        <5> QED BY <1>1, <5>5, <5>7 DEF Expects
      <4> QED BY <2>40, <4>1, <4>2
    <3>2. CASE din_ready(done)
      BY <1>4, <2>2, <3>1, <3>2, AddressMoves, AddressStarts
    <3>3. CASE ~din_ready(done)
      <4>1. state' = 5 /\ ~xfer'.busy
        BY <2>2, <2>6, <3>3, AddressMoves
      <4>2. ReadyOk'
        BY <1>4, <1>5, <1>6, <2>2, <3>1, <4>1 DEF ReadyOk, Expects
      <4>3. Same(flash')
        BY <1>4, <3>1 DEF Same, Expects
      <4> QED BY <2>2, <4>1, <4>2, <4>3, LateSafe, GoingDone
    <3> QED BY <2>40, <3>2, <3>3
  <2> QED BY <2>5, <2>6
<1> QED BY <1>7, <1>8, <1>9

(* The flash while a word is read: its clocks and those of the transfer unit  *)
(* keep step, whatever the mode, and its latency is the controller's.         *)
Leads == IF wide THEN 4 ELSE 3         \* the bytes that lead to the first word
LEMMA ReadFacts ==
  ASSUME NEW done, Going(done), state \in 6..12
  PROVE /\ flash \in FlashSet /\ flash.latency \in LatencySet /\ flash.powered_up /\ ~flash.write_enabled /\ flash.spi_cmd = ReadCommand
        /\ InStep(flash, xfer.lanes, xfer.dummy) /\ flash.mode = ConfiguredLanes /\ xfer.dummy = flash.dummycount
        /\ flash.bitcount = 0
        /\ wide <=> ReadCommand \in WideReads
        /\ ~wide => ReadCommand = Read
        /\ wide => flash.quad /\ flash.latency[ReadCommand] = config.dummy
        /\ xfer_resetn /\ ~xfer.csb /\ ReadCommand # 0
        /\ flash.bytecount \in 1..5 /\ Leads \in {3, 4}
        /\ Leading => flash.bytecount <= Leads /\ (flash.xip_cmd = 0 \/ (config.cont /\ flash.xip_cmd = ReadCommand))
        /\ ~Leading => flash.bytecount = 5 /\ flash.xip_cmd = (IF config.cont THEN ReadCommand ELSE 0)
<1>0. ~softreset /\ state >= 6 /\ Steps(done)
  BY DEF Going
<1>1. /\ flash.powered_up /\ ~flash.write_enabled
      /\ flash.spi_cmd = ReadCommand /\ flash.mode = ConfiguredLanes /\ flash.bitcount = 0
      /\ flash.dummycount = xfer.dummy
      /\ Leading => flash.xip_cmd = 0 \/ (config.cont /\ flash.xip_cmd = ReadCommand)
      /\ Leading => flash.bytecount = (IF state = 9 THEN IF wide THEN 4 ELSE 3 ELSE state - 5)
      /\ ~Leading => flash.bytecount = 5 /\ flash.xip_cmd = (IF config.cont THEN ReadCommand ELSE 0)
  BY <1>0, StepFacts DEF ReadyOk
<1>2. xfer_resetn /\ ~xfer.csb /\ xfer.lanes = ConfiguredLanes /\ (state = 8 => wide)
  BY <1>0, StepFacts DEF RunningOk
<1>3. InStep(flash, xfer.lanes, xfer.dummy)
  BY <1>1, <1>2 DEF InStep
<1>4. /\ wide <=> ReadCommand \in WideReads
      /\ ReadCommand \in WideReads \cup {Read} /\ ReadCommand # 0
  BY <1>0, StepFacts, LanesTypes
<1>5. wide => flash.quad /\ flash.latency[ReadCommand] = config.dummy
  <2>1. SUFFICES ASSUME wide PROVE flash.quad /\ flash.latency[ReadCommand] = config.dummy
    OBVIOUS
  <2>2. ~ModeOff
    BY <2>1 DEF ModeOff, wide, ConfiguredLanes
  <2>3. ~Booting /\ ~(calls # <<>> /\ LatencyCall(Head(calls))) /\ board \in Boards
    BY <1>0, <2>2, StepFacts DEF ProgramOk
  <2>4. flash.quad
    BY <1>0, <2>3, StepFacts DEF AgreeOk
  <2>5. board = Hx8k \/ board = Icebreaker
    BY <2>3, SocAssumption
  <2>6. CASE board = Hx8k
    <3>1. \A c \in WideReads : flash.latency[c] = config.dummy
      BY <1>0, <2>3, <2>6, StepFacts DEF AgreeOk
    <3> QED BY <1>4, <2>1, <2>4, <3>1
  <2>7. CASE board = Icebreaker
    BY <1>0, <2>1, <2>4, <2>7, StepFacts DEF AgreeOk
  <2> QED BY <2>5, <2>6, <2>7
<1>6. Leads \in {3, 4} /\ (wide => Leads = 4) /\ (~wide => Leads = 3)
  BY DEF Leads
<1>7. Leading => flash.bytecount \in 1..Leads
  <2>1. Leading /\ state # 9 => state \in {6, 7, 8}
    BY DEF Leading
  <2>2. Leading => flash.bytecount \in 1..4 /\ flash.bytecount <= Leads
    BY <1>1, <1>2, <1>6, <2>1
  <2> QED BY <1>6, <2>2
<1>8. flash.bytecount \in 1..5 /\ (Leading => flash.bytecount <= Leads)
  BY <1>1, <1>6, <1>7
<1> QED BY <1>0, <1>1, <1>2, <1>3, <1>4, <1>5, <1>6, <1>8, StepFacts

(* A byte of a read: the address, the mode byte, or one that reads.           *)
LEMMA ReadingByte ==
  ASSUME NEW done, Going(done), state \in 6..12, done, NEW m, Traced(done, m)
  PROVE /\ m \in FlashSet /\ m.latency = flash.latency /\ m.quad = flash.quad /\ ~m.write_enabled /\ m.powered_up
        /\ m.bitcount = 0 /\ m.spi_cmd = ReadCommand /\ m.mode = ConfiguredLanes
        /\ m.bytecount = (IF flash.bytecount >= Leads THEN 5 ELSE flash.bytecount + 1)
        /\ wide /\ flash.bytecount = 4 => /\ m.xip_cmd = (IF xfer.data = StayInXip THEN ReadCommand ELSE 0)
                                          /\ m.dummycount = config.dummy
        /\ ~(wide /\ flash.bytecount = 4) => m.xip_cmd = flash.xip_cmd /\ m.dummycount = 0
        /\ ~(flash.bytecount >= Leads) => m.spi_addr = AddrOf(flash, xfer.data)
        /\ \A a \in 0..(Space - 1) : flash.bytecount >= Leads /\ AddrOf(flash, xfer.data) = NextAddress(a) =>
              m.out = a /\ m.spi_addr = NextAddress(Wrap(a + 1))
<1> DEFINE b == xfer.data
<1>1. /\ flash \in FlashSet /\ flash.powered_up /\ ~flash.write_enabled /\ flash.spi_cmd = ReadCommand
      /\ InStep(flash, xfer.lanes, xfer.dummy) /\ flash.mode = ConfiguredLanes
      /\ wide <=> ReadCommand \in WideReads
      /\ ~wide => ReadCommand = Read
      /\ wide => flash.quad /\ flash.latency[ReadCommand] = config.dummy
      /\ flash.bytecount \in 1..5 /\ Leads \in {3, 4}
  BY ReadFacts
<1>2. xfer.busy /\ config.en /\ b \in Int
  <2>1. xfer.busy /\ config.en
    BY GoingIs
  <2>2. xfer \in XferSet
    BY GoingIs, StepFacts
  <2> QED BY <2>1, <2>2 DEF XferSet
<1>3. m = spi_action([flash EXCEPT !.dummycount = 0], b)
  <2>1. m = Transferred(flash, xfer.lanes, xfer.dummy, b)
    BY <1>2 DEF Traced
  <2>2. InStep(flash, xfer.lanes, xfer.dummy)
    BY <1>1
  <2> QED BY ONLY <2>1, <2>2, Zenon DEF Transferred
<1>4. PICK e : e = [flash EXCEPT !.dummycount = 0]
  OBVIOUS
<1>5. /\ e \in FlashSet /\ e.bitcount = flash.bitcount /\ e.bytecount = flash.bytecount
      /\ e.powered_up = flash.powered_up /\ e.spi_cmd = flash.spi_cmd /\ e.xip_cmd = flash.xip_cmd /\ e.spi_addr = flash.spi_addr
      /\ e.mode = flash.mode /\ e.dummycount = 0 /\ e.latency = flash.latency
      /\ e.write_enabled = flash.write_enabled /\ e.quad = flash.quad
  <2>1. flash \in FlashSet /\ 0 \in Nat
    BY <1>1
  <2> QED BY ONLY <1>4, <2>1, DummyFields
<1>6. e.bytecount \in 1..5 /\ e.bytecount # 0
  BY <1>1, <1>5
<1>7. ~e.write_enabled /\ (e.bytecount = 0 => b \notin WriteEnables)
  BY <1>1, <1>5, <1>6, Zenon
<1>8. m = spi_action(e, b)
  BY <1>3, <1>4
<1>9. /\ m \in FlashSet /\ m.latency = e.latency /\ m.quad = e.quad /\ ~m.write_enabled
      /\ m.bitcount = 0 /\ (e.powered_up => m.powered_up)
  BY <1>2, <1>5, <1>7, <1>8, QuietByte
<1>10. /\ m.bytecount = (IF ReadsBy(e, b) THEN 5 ELSE e.bytecount + 1)
       /\ m.spi_cmd = CmdOf(e, b)
       /\ m.mode = (IF e.bytecount = 0 /\ b \in WideReads /\ KnowsBy(e, b) THEN Lanes(b) ELSE e.mode)
       /\ m.xip_cmd = (IF ModeBy(e, b) THEN IF b = StayInXip THEN e.spi_cmd ELSE 0
                       ELSE IF e.bytecount = 0 /\ b = LeaveXip THEN 0 ELSE e.xip_cmd)
       /\ m.dummycount = (IF ModeBy(e, b) THEN e.latency[e.spi_cmd] ELSE e.dummycount)
       /\ ~ReadsBy(e, b) => m.spi_addr = AddrOf(e, b) /\ m.out = Junk
       /\ \A a \in 0..(Space - 1) : ReadsBy(e, b) /\ AddrOf(e, b) = NextAddress(a) =>
             m.out = a /\ m.spi_addr = NextAddress(Wrap(a + 1))
  BY <1>2, <1>5, <1>7, <1>8, QuietMode
<1>11. CmdOf(e, b) = ReadCommand /\ e.spi_cmd = ReadCommand
  BY <1>1, <1>5, <1>6 DEF CmdOf
<1>12. wide => KnowsBy(e, b)
  BY ONLY <1>1, <1>5, Zenon DEF KnowsBy, PoweredBy
<1>13. ModeBy(e, b) <=> wide /\ flash.bytecount = 4
  BY ONLY <1>1, <1>5, <1>11, <1>12, Zenon DEF ModeBy
<1>14. ReadsBy(e, b) <=> flash.bytecount >= Leads
  <2>1. Read \notin WideReads
    BY CommandNumbers
  <2>2. CASE wide
    <3>1. Leads = 4
      BY <2>2 DEF Leads
    <3>2. ReadsBy(e, b) <=> flash.bytecount >= 4
      BY ONLY <1>1, <1>5, <1>11, <1>12, <2>1, <2>2, Zenon DEF ReadsBy
    <3> QED BY <3>1, <3>2
  <2>3. CASE ~wide
    <3>1. Leads = 3
      BY <2>3 DEF Leads
    <3>2. ReadsBy(e, b) <=> flash.bytecount >= 3
      BY ONLY <1>1, <1>5, <1>11, <2>1, <2>3, Zenon DEF ReadsBy
    <3> QED BY <3>1, <3>2
  <2> QED BY <2>2, <2>3
<1>15. AddrOf(e, b) = AddrOf(flash, b)
  BY <1>5 DEF AddrOf
<1>16. m.spi_cmd = ReadCommand /\ m.mode = ConfiguredLanes
  BY <1>1, <1>5, <1>6, <1>10, <1>11
<1>17. m.bytecount = (IF flash.bytecount >= Leads THEN 5 ELSE flash.bytecount + 1)
  BY <1>5, <1>10, <1>14
<1>18. wide /\ flash.bytecount = 4 => /\ m.xip_cmd = (IF b = StayInXip THEN ReadCommand ELSE 0)
                                      /\ m.dummycount = config.dummy
  BY ONLY <1>1, <1>5, <1>10, <1>11, <1>13, Zenon
<1>19. ~(wide /\ flash.bytecount = 4) => m.xip_cmd = flash.xip_cmd /\ m.dummycount = 0
  BY ONLY <1>1, <1>5, <1>6, <1>10, <1>11, <1>13, Zenon
<1>20. ~(flash.bytecount >= Leads) => m.spi_addr = AddrOf(flash, b)
  BY ONLY <1>10, <1>14, <1>15, Zenon
<1>21. \A a \in 0..(Space - 1) : flash.bytecount >= Leads /\ AddrOf(flash, b) = NextAddress(a) =>
              m.out = a /\ m.spi_addr = NextAddress(Wrap(a + 1))
  BY ONLY <1>10, <1>14, <1>15, Zenon
<1>22. m.latency = flash.latency /\ m.quad = flash.quad /\ m.powered_up
  BY ONLY <1>1, <1>5, <1>9, Zenon
<1> QED BY <1>9, <1>16, <1>17, <1>18, <1>19, <1>20, <1>21, <1>22

(* Chip select stays low; a jump ends the read at the next edge.              *)
LEMMA ReadingMoves ==
  ASSUME NEW done, Going(done), state \in 6..12
  PROVE /\ ~xfer'.csb /\ Traced(done, flash') /\ (~done => flash' = flash)
        /\ ~jumps => xfer_resetn' /\ state' \in 6..12 /\ (~done => state' = state \/ (state = 12 /\ state' = 9))
        /\ ~jumps /\ done => state' = After \/ (state = 12 /\ state' = 12)
        /\ jumps => ~xfer_resetn' /\ state' = (IF config.cont THEN 5 ELSE 4)
<1>1. xfer_resetn /\ ~xfer.csb
  BY ReadFacts
<1>2. ~xfer'.csb
  BY <1>1, GoingIs, StepFacts, TransferIs
<1>3. Traced(done, flash') /\ (~done => flash' = flash)
  BY <1>1, <1>2, GoingMoves
<1>4. Runs(done) /\ state \notin {1, 3} /\ Sequence(Pending, req.addr, done) /\ TypesOk /\ config \in ConfigSet /\ req \in ReqSet
  BY GoingIs, StepFacts
<1>5. jumps => ~xfer_resetn' /\ state' = (IF config.cont THEN 5 ELSE 4)
  BY <1>4, SeqJump DEF jumps
<1>6. CASE state \in 6..11
  <2>1. ~jumps => Turned(done)
    BY <1>4, <1>6, RunTurn
  <2>2. After \in 6..12
    BY <1>6 DEF After
  <2>3. ~jumps => xfer_resetn' /\ (done => state' = After) /\ (~done => state' = state)
    BY <2>1 DEF Turned
  <2> QED BY <1>2, <1>3, <1>5, <1>6, <2>2, <2>3
<1>7. CASE state = 12
  <2>1. After = 9
    BY <1>7 DEF After
  <2>2. ASSUME ~jumps, Waits(Pending, req.addr) PROVE xfer_resetn' /\ state' = 12
    BY <1>4, <1>7, <2>2, SeqWait DEF jumps
  <2>3. ASSUME ~jumps, ~Waits(Pending, req.addr) PROVE xfer_resetn' /\ state' \in {9, 12}
    <3>1. din_ready(done) => xfer_resetn' /\ state' = After
      BY <1>4, <2>3, SeqTake DEF jumps
    <3>2. ~din_ready(done) => xfer_resetn' /\ state' = state
      BY <1>4, <2>3, SeqOffer DEF jumps
    <3> QED BY <1>7, <2>1, <3>1, <3>2
  <2>4. ~jumps => xfer_resetn' /\ state' \in {9, 12}
    BY <2>2, <2>3
  <2> QED BY <1>2, <1>3, <1>5, <1>7, <2>1, <2>4
<1> QED BY <1>6, <1>7

LEMMA GoingFacts ==
  ASSUME NEW done, Going(done)
  PROVE /\ ~softreset /\ RunningOk /\ ReadyOk /\ RegisterOk /\ xfer \in XferSet /\ TypesOk /\ config \in ConfigSet /\ req \in ReqSet
        /\ ~softreset' /\ RunningOk' /\ Runs(done) /\ Sequence(Pending, req.addr, done) /\ Transfer(done)
BY GoingIs, StepFacts DEF Going

LEMMA ReadOn ==
  ASSUME NEW done, Going(done), state' \in 6..12, ~xfer'.csb, NEW g, g = flash',
         g \in FlashSet, g.latency = flash.latency, g.quad = flash.quad, ~g.write_enabled, g.powered_up,
         g.bitcount = 0, g.spi_cmd = ReadCommand, g.mode = ConfiguredLanes, g.dummycount = xfer'.dummy,
         Leading' => /\ g.xip_cmd = 0 \/ (config.cont /\ g.xip_cmd = ReadCommand)
                     /\ g.bytecount = (IF state' = 9 THEN Leads ELSE state' - 5),
         ~Leading' => g.bytecount = 5 /\ g.xip_cmd = (IF config.cont THEN ReadCommand ELSE 0)
  PROVE FlashInv'
<1>1. /\ ~softreset' /\ config' = config /\ config.en /\ ReadCommand' = ReadCommand /\ ConfiguredLanes' = ConfiguredLanes
      /\ (wide' <=> wide)
  BY GoingIs
<1>2. Same(flash')
  BY DEF Same
<1>3. (IF wide' THEN 4 ELSE 3) = Leads
  BY <1>1 DEF Leads
<1>4. Leading' => g.bytecount = (IF state' = 9 THEN IF wide' THEN 4 ELSE 3 ELSE state' - 5)
  BY <1>3
<1>5. ReadyOk'
  BY <1>1, <1>4 DEF ReadyOk
<1>6. state' >= 4 /\ state' \in 0..12
  OBVIOUS
<1> QED BY <1>2, <1>5, <1>6, LateSafe, GoingDone

LEMMA ReadJump ==
  ASSUME NEW done, Going(done), state \in 6..12, jumps PROVE FlashInv'
<1>1. /\ ~softreset' /\ config' = config /\ config.en /\ ReadCommand' = ReadCommand
  BY GoingIs
<1>2. ~Leading /\ xfer.dummy = 0
  <2>1. rd_valid
    BY GoingIs, RunRequest
  <2>2. ~softreset /\ state >= 6 /\ RunningOk
    BY GoingIs, StepFacts DEF Going
  <2>3. (rd_valid <=> rd_inc) /\ (Leading => first) /\ xfer.dummy = (IF state = 10 /\ first /\ wide THEN config.dummy ELSE 0)
    BY <2>2 DEF RunningOk
  <2>4. ~first
    BY <2>1, <2>3 DEF first
  <2> QED BY <2>3, <2>4
<1>3. /\ ~flash.write_enabled /\ flash.bytecount >= 5 /\ flash.dummycount = 0 /\ flash.powered_up
      /\ flash.xip_cmd = (IF config.cont THEN ReadCommand ELSE 0)
  BY <1>2, ReadFacts
<1>4. /\ ~xfer'.csb /\ Traced(done, flash') /\ ~xfer_resetn' /\ state' = (IF config.cont THEN 5 ELSE 4)
  BY ReadingMoves
<1>5. flash' \in PastSet(flash)
  BY <1>3, <1>4, GoingIs, PastMoves
<1>6. PICK g : g = flash'
  OBVIOUS
<1>7. /\ g \in FlashSet /\ g.bytecount >= 5 /\ g.dummycount = 0 /\ ~g.write_enabled
      /\ g.xip_cmd = flash.xip_cmd /\ g.powered_up = flash.powered_up
      /\ g.latency = flash.latency /\ g.quad = flash.quad
  BY <1>5, <1>6 DEF PastSet
<1>8. Same(flash')
  BY <1>6, <1>7 DEF Same
<1>9. state' \in 0..12 /\ state' >= 4
  BY <1>4
<1>10. ReadyOk'
  BY <1>1, <1>3, <1>4, <1>6, <1>7 DEF ReadyOk
<1> QED BY <1>4, <1>8, <1>9, <1>10, LateSafe, GoingDone

(* The byte on the wires goes on; or the last byte of a word has ended, and    *)
(* the first of the next one begins.                                          *)
LEMMA ReadWaits ==
  ASSUME NEW done, Going(done), state \in 6..12, ~jumps, ~done PROVE FlashInv'
<1>1. flash' = flash /\ ~xfer'.csb /\ state' \in 6..12
  BY ReadingMoves
<1>2. (Leading' <=> Leading) /\ xfer'.dummy = xfer.dummy /\ (Leading => state' = state)
  <2>1. CASE state \in 6..11
    <3>1. Turned(done)
      BY <2>1, GoingIs, RunTurn
    <3> QED BY <3>1 DEF Turned, Leading
  <2>2. CASE state = 12
    <3>0. Runs(done) /\ state \notin {1, 3} /\ Sequence(Pending, req.addr, done) /\ TypesOk /\ config \in ConfigSet /\ req \in ReqSet
      BY <2>2, GoingIs, StepFacts
    <3>1. ~din_ready(done) => state' = 12
      <4>1. CASE Waits(Pending, req.addr)
        BY <2>2, <3>0, <4>1, SeqWait DEF jumps
      <4>2. CASE ~Waits(Pending, req.addr)
        BY <2>2, <3>0, <4>2, SeqOffer DEF jumps
      <4> QED BY <4>1, <4>2
    <3>2. din_ready(done) => xfer'.tag = 4
      <4>1. din_ready(done) => din.tag = 4
        BY <2>2, GoingIs, StepFacts DEF RunningOk, din_ready, Going
      <4>2. xfer_resetn
        BY ReadFacts
      <4> QED BY <4>1, <4>2, GoingIs, StepFacts, TransferIs
    <3>3. state' = 9 => xfer'.tag = 4
      BY <3>1, <3>2
    <3>4. state' \in {9, 12}
      BY <1>1, <2>2, ReadingMoves
    <3>5. xfer'.dummy = 0
      <4>1. RunningOk' /\ ~softreset' /\ state' # 10
        BY <3>4, GoingIs, StepFacts
      <4> QED BY <1>1, <4>1 DEF RunningOk
    <3>6. xfer.dummy = 0
      BY <2>2, GoingIs, StepFacts DEF RunningOk, Going
    <3> QED BY <2>2, <3>3, <3>4, <3>5, <3>6 DEF Leading
  <2> QED BY <2>1, <2>2
<1>3. PICK g : g = flash'
  OBVIOUS
<1>4. /\ g \in FlashSet /\ g.latency = flash.latency /\ g.quad = flash.quad /\ ~g.write_enabled /\ g.powered_up
      /\ g.bitcount = 0 /\ g.spi_cmd = ReadCommand /\ g.mode = ConfiguredLanes /\ g.dummycount = xfer'.dummy
      /\ ~Leading => g.bytecount = 5 /\ g.xip_cmd = (IF config.cont THEN ReadCommand ELSE 0)
      /\ Leading => g.xip_cmd = 0 \/ (config.cont /\ g.xip_cmd = ReadCommand)
  BY <1>1, <1>2, <1>3, ReadFacts
<1>5. Leading => g.bytecount = (IF state = 9 THEN Leads ELSE state - 5)
  BY <1>1, <1>3, GoingIs, StepFacts DEF ReadyOk, Leads, Going
<1> QED BY <1>1, <1>2, <1>3, <1>4, <1>5, ReadOn

(* A byte of a read ends.                                                     *)
LEMMA ReadLeading ==
  ASSUME NEW done, Going(done), state \in 6..8, ~jumps, done PROVE FlashInv'
<1>00. /\ ~softreset /\ RunningOk /\ ReadyOk /\ RegisterOk /\ xfer \in XferSet /\ TypesOk /\ config \in ConfigSet /\ req \in ReqSet
       /\ ~softreset' /\ RunningOk' /\ Runs(done) /\ Sequence(Pending, req.addr, done) /\ Transfer(done)
  BY GoingFacts, Zenon
<1>0. state \in 6..12 /\ state \in 6..11 /\ Leading /\ state # 9
  BY DEF Leading
<1>1. Turned(done)
  BY <1>0, GoingIs, RunTurn
<1>2. flash' \in FlashSet /\ Traced(done, flash') /\ ~xfer'.csb
  BY <1>0, ReadingMoves, ReadingByte
<1>3. PICK g : g = flash'
  OBVIOUS
<1>4. /\ g \in FlashSet /\ g.latency = flash.latency /\ g.quad = flash.quad /\ ~g.write_enabled /\ g.powered_up
      /\ g.bitcount = 0 /\ g.spi_cmd = ReadCommand /\ g.mode = ConfiguredLanes
      /\ g.bytecount = (IF flash.bytecount >= Leads THEN 5 ELSE flash.bytecount + 1)
      /\ ~(wide /\ flash.bytecount = 4) => g.xip_cmd = flash.xip_cmd /\ g.dummycount = 0
  BY <1>0, <1>2, <1>3, ReadingByte
<1>5. flash.bytecount = state - 5 /\ (state = 8 => wide)
  BY <1>0, <1>00 DEF ReadyOk, RunningOk
<1>6. Leads \in {3, 4} /\ (wide => Leads = 4) /\ (~wide => Leads = 3)
  BY DEF Leads
<1>7. g.bytecount = state - 4 /\ flash.bytecount # 4
  BY <1>4, <1>5, <1>6
<1>8. state' = (IF state = 7 /\ ~wide THEN 9 ELSE state + 1) /\ xfer'.tag = 0
  BY <1>1 DEF Turned, After, OfferedTag, wide
<1>9. Leading' /\ g.bytecount = (IF state' = 9 THEN Leads ELSE state' - 5) /\ state' \in 6..12
  BY <1>5, <1>6, <1>7, <1>8 DEF Leading
<1>10. xfer'.dummy = 0
  <2>1. RunningOk' /\ ~softreset' /\ state' >= 6 /\ state' # 10
    BY <1>8, <1>00
  <2> QED BY <2>1 DEF RunningOk
<1>11. g.xip_cmd = 0 \/ (config.cont /\ g.xip_cmd = ReadCommand)
  BY <1>0, <1>4, <1>7, ReadFacts
<1>12. g.dummycount = xfer'.dummy
  BY <1>4, <1>7, <1>10
<1> QED BY <1>2, <1>3, <1>4, <1>9, <1>11, <1>12, ReadOn

LEMMA ReadFirst ==
  ASSUME NEW done, Going(done), state = 9, ~jumps, done PROVE FlashInv'
<1>00. /\ ~softreset /\ RunningOk /\ ReadyOk /\ RegisterOk /\ xfer \in XferSet /\ TypesOk /\ config \in ConfigSet /\ req \in ReqSet
       /\ ~softreset' /\ RunningOk' /\ Runs(done) /\ Sequence(Pending, req.addr, done) /\ Transfer(done)
  BY GoingFacts, Zenon
<1>0. state \in 6..12 /\ state \in 6..11
  OBVIOUS
<1>1. Turned(done)
  BY <1>0, GoingIs, RunTurn
<1>2. flash' \in FlashSet /\ Traced(done, flash') /\ ~xfer'.csb
  BY <1>0, ReadingMoves, ReadingByte
<1>3. PICK g : g = flash'
  OBVIOUS
<1>4. /\ g \in FlashSet /\ g.latency = flash.latency /\ g.quad = flash.quad /\ ~g.write_enabled /\ g.powered_up
      /\ g.bitcount = 0 /\ g.spi_cmd = ReadCommand /\ g.mode = ConfiguredLanes
      /\ g.bytecount = (IF flash.bytecount >= Leads THEN 5 ELSE flash.bytecount + 1)
      /\ wide /\ flash.bytecount = 4 => /\ g.xip_cmd = (IF xfer.data = StayInXip THEN ReadCommand ELSE 0)
                                        /\ g.dummycount = config.dummy
      /\ ~(wide /\ flash.bytecount = 4) => g.xip_cmd = flash.xip_cmd /\ g.dummycount = 0
  BY <1>0, <1>2, <1>3, ReadingByte
<1>5. /\ din.rd <=> wide
      /\ din.data = (IF xfer.tag = 0 /\ wide THEN config.dummy ELSE 0)
      /\ xfer.tag = 0 /\ wide => xfer.data = (IF config.cont THEN StayInXip ELSE LeaveXip)
      /\ Leading <=> xfer.tag = 0
      /\ Leading => flash.bytecount = Leads
  <2>1. Leading <=> xfer.tag = 0
    BY DEF Leading
  <2> QED BY <2>1, <1>00 DEF RunningOk, ReadyOk, Leads
<1>6. Leads \in {3, 4} /\ (wide <=> Leads = 4)
  BY DEF Leads
<1>7. /\ ~Leading => flash.bytecount = 5 /\ flash.xip_cmd = (IF config.cont THEN ReadCommand ELSE 0)
      /\ Leading => flash.xip_cmd = 0 \/ (config.cont /\ flash.xip_cmd = ReadCommand)
  BY <1>0, ReadFacts
<1>8. g.bytecount = 5
  BY <1>4, <1>5, <1>6, <1>7
<1>9. wide /\ flash.bytecount = 4 <=> wide /\ Leading
  BY <1>5, <1>6, <1>7
<1>10. state' = 10 /\ xfer'.dummy = (IF din.rd THEN din.data ELSE 0)
  BY <1>1 DEF Turned, After
<1>11. g.dummycount = xfer'.dummy
  BY <1>4, <1>5, <1>9, <1>10
<1>12. ~Leading' /\ state' \in 6..12
  BY <1>10 DEF Leading
<1>13. config.cont => wide
  BY <1>00 DEF RegisterOk, wide, ConfiguredLanes
<1>14. g.xip_cmd = (IF config.cont THEN ReadCommand ELSE 0)
  <2>1. CASE wide /\ Leading
    BY <1>4, <1>5, <1>9, <2>1, CommandNumbers
  <2>2. CASE ~(wide /\ Leading)
    BY <1>4, <1>7, <1>9, <1>13, <2>2
  <2> QED BY <2>1, <2>2
<1> QED BY <1>2, <1>3, <1>4, <1>8, <1>11, <1>12, <1>14, ReadOn

LEMMA ReadNext ==
  ASSUME NEW done, Going(done), state \in 10..12, ~jumps, done PROVE FlashInv'
<1>00. /\ ~softreset /\ RunningOk /\ ReadyOk /\ RegisterOk /\ xfer \in XferSet /\ TypesOk /\ config \in ConfigSet /\ req \in ReqSet
       /\ ~softreset' /\ RunningOk' /\ Runs(done) /\ Sequence(Pending, req.addr, done) /\ Transfer(done)
  BY GoingFacts, Zenon
<1>0. state \in 6..12 /\ ~Leading
  BY DEF Leading
<1>2. flash' \in FlashSet /\ Traced(done, flash') /\ ~xfer'.csb /\ state' \in 6..12
  BY <1>0, ReadingMoves, ReadingByte
<1>3. PICK g : g = flash'
  OBVIOUS
<1>4. /\ g \in FlashSet /\ g.latency = flash.latency /\ g.quad = flash.quad /\ ~g.write_enabled /\ g.powered_up
      /\ g.bitcount = 0 /\ g.spi_cmd = ReadCommand /\ g.mode = ConfiguredLanes
      /\ g.bytecount = (IF flash.bytecount >= Leads THEN 5 ELSE flash.bytecount + 1)
      /\ ~(wide /\ flash.bytecount = 4) => g.xip_cmd = flash.xip_cmd /\ g.dummycount = 0
  BY <1>0, <1>2, <1>3, ReadingByte
<1>6. flash.bytecount = 5 /\ Leads \in {3, 4} /\ flash.xip_cmd = (IF config.cont THEN ReadCommand ELSE 0)
  BY <1>0, ReadFacts
<1>7. g.bytecount = 5 /\ g.xip_cmd = (IF config.cont THEN ReadCommand ELSE 0) /\ g.dummycount = 0
  BY <1>4, <1>6
<1>8. state' \in {9, 11, 12} /\ (state' = 9 => xfer'.tag = 4)
  <2>1. CASE state \in {10, 11}
    <3>0. state \in 6..11
      BY <2>1
    <3>1. Turned(done)
      BY <1>00, <3>0, RunTurn, Zenon
    <3> QED BY <2>1, <3>1 DEF Turned, After
  <2>2. CASE state = 12
    <3>00. state \notin {1, 3}
      BY <2>2
    <3>0. Runs(done) /\ state \notin {1, 3} /\ Sequence(Pending, req.addr, done) /\ TypesOk /\ config \in ConfigSet /\ req \in ReqSet
      BY <1>00, <3>00, Zenon
    <3>1. ~din_ready(done) => state' = 12
      <4>1. CASE Waits(Pending, req.addr)
        BY <2>2, <3>0, <4>1, SeqWait DEF jumps
      <4>2. CASE ~Waits(Pending, req.addr)
        BY <2>2, <3>0, <4>2, SeqOffer DEF jumps
      <4> QED BY <4>1, <4>2
    <3>2. din_ready(done) => xfer'.tag = 4
      <4>1. din_ready(done) => din.tag = 4
        BY <2>2, <1>00 DEF RunningOk, din_ready
      <4>2. xfer_resetn
        BY <1>0, ReadFacts
      <4> QED BY <4>1, <4>2, <1>00, TransferIs
    <3>4. state' = After \/ state' = 12
      BY <1>0, <2>2, ReadingMoves
    <3>5. After = 9
      BY <2>2 DEF After
    <3>6. state' \in {9, 12}
      BY ONLY <3>4, <3>5
    <3>7. state' = 12 => state' # 9
      OBVIOUS
    <3>8. state' = 9 => xfer'.tag = 4
      BY ONLY <3>1, <3>2, <3>7, Zenon
    <3> QED BY <3>6, <3>8
  <2> QED BY <2>1, <2>2
<1>9. ~Leading'
  BY <1>8 DEF Leading
<1>10. xfer'.dummy = 0
  <2>1. RunningOk' /\ ~softreset' /\ state' >= 6 /\ state' # 10
    BY <1>8, <1>00
  <2> QED BY <2>1 DEF RunningOk
<1> QED BY <1>2, <1>3, <1>4, <1>7, <1>9, <1>10, ReadOn

(* Every step keeps the flash in step with its controller.                    *)
LEMMA FlashNext ==
  ASSUME NEW done, Steps(done) PROVE FlashInv'
<1>1. config.en \in BOOLEAN /\ softreset \in BOOLEAN /\ done \in BOOLEAN /\ state \in 0..12
  BY StepFacts DEF RegisterOk, ConfigSet, TypesOk
<1>2. CASE ~config.en
  BY <1>2, FlashManual
<1>3. CASE config.en /\ req.kind = "config"
  <2>1. CASE ~Working
    BY <1>3, <2>1, WriteFlash
  <2>2. CASE Working /\ softreset
    BY <1>3, <2>2, ManualReset
  <2>3. CASE Working /\ ~softreset
    BY <1>3, <2>3, ManualCuts
  <2> QED BY <1>1, <2>1, <2>2, <2>3
<1>4. CASE config.en /\ req.kind # "config" /\ softreset
  BY <1>4, ResetFlash
<1>5. CASE config.en /\ req.kind # "config" /\ ~softreset
  <2>0. Going(done)
    BY <1>5 DEF Going
  <2>1. CASE state \in {0, 2}
    BY <2>0, <2>1, StartOffer
  <2>2. CASE state \in {1, 3}
    BY <2>0, <2>2, StartByte
  <2>3. CASE state = 4
    BY <2>0, <2>3, StartCommand
  <2>4. CASE state = 5
    BY <2>0, <2>4, RunAddress
  <2>5. CASE state \in 6..12
    <3>1. CASE jumps
      BY <2>0, <2>5, <3>1, ReadJump
    <3>2. CASE ~jumps /\ ~done
      BY <2>0, <2>5, <3>2, ReadWaits
    <3>3. CASE ~jumps /\ done
      <4>1. CASE state \in 6..8
        BY <2>0, <3>3, <4>1, ReadLeading
      <4>2. CASE state = 9
        BY <2>0, <3>3, <4>2, ReadFirst
      <4>3. CASE state \in 10..12
        BY <2>0, <3>3, <4>3, ReadNext
      <4> QED BY <2>5, <4>1, <4>2, <4>3
    <3> QED BY <1>1, <3>1, <3>2, <3>3
  <2> QED BY <1>1, <2>1, <2>2, <2>3, <2>4, <2>5
<1> QED BY <1>1, <1>2, <1>3, <1>4, <1>5

LEMMA FlashInit == ASSUME Init PROVE FlashInv
<1>1. PICK b : b = board
  OBVIOUS
<1>2. /\ b \in Boards /\ calls = Boot(b) /\ step = 1 /\ softreset = TRUE /\ xfer_resetn = FALSE
      /\ config = [en |-> TRUE, ddr |-> FALSE, qspi |-> FALSE, cont |-> FALSE, dummy |-> 8, csb |-> FALSE]
      /\ xfer = [csb |-> TRUE, busy |-> FALSE, fetch |-> TRUE, last_fetch |-> TRUE, tag |-> 0, tag_q |-> 0,
                 lanes |-> 1, ddr_q |-> FALSE, data |-> 0, dummy |-> 0, ibuffer |-> Junk]
      /\ flash = PoweredDown(latency(b))
  BY <1>1 DEF Init, Reset
<1>3. b \in {Hx8k, Icebreaker} /\ Hx8k # Icebreaker
  BY <1>2, BoardNames
<1>4. PICK l : l = latency(b)
  OBVIOUS
<1>5. l \in LatencySet /\ Short(l) /\ (b = Hx8k => \A c \in WideReads : l[c] = 8)
  BY <1>3, <1>4 DEF latency, LatencySet, Short, WideReads, DualRead, QuadRead, QuadDdrRead
<1>6. PICK f : f = flash
  OBVIOUS
<1>7. f = [powered_up |-> FALSE, spi_cmd |-> 0, xip_cmd |-> 0, spi_addr |-> <<0, 0, 0>>, out |-> Junk,
           mode |-> 1, bitcount |-> 0, bytecount |-> 0, dummycount |-> 0,
           latency |-> l, write_enabled |-> FALSE, quad |-> FALSE]
  BY <1>2, <1>4, <1>6 DEF PoweredDown
<1>8. <<0, 0, 0>> \in AddressSet /\ Junk \in Int
  BY DEF AddressSet, Junk
<1>9. f \in FlashSet
  BY ONLY <1>5, <1>7, <1>8 DEF FlashSet, ModeSet
<1>10. FlashOk
  BY <1>5, <1>6, <1>7, <1>9 DEF FlashOk, Idle
<1>11. config.en /\ ~config.qspi /\ ~config.ddr /\ ~config.cont /\ config.dummy = 8
  BY <1>2
<1>12. ~wide
  BY <1>11 DEF wide, ConfiguredLanes
<1>13. Booting /\ Len(calls) = 2
  BY <1>1, <1>2, <1>3, BootWell DEF Booting
<1>14. AgreeOk
  <2>1. board = Icebreaker => flash.latency = latency(Icebreaker)
    BY <1>1, <1>4, <1>6, <1>7
  <2>2. board = Hx8k => \A c \in WideReads : flash.latency[c] = 8
    BY <1>1, <1>5, <1>6, <1>7
  <2> QED BY <1>11, <1>12, <1>13, <2>1, <2>2 DEF AgreeOk
<1>15. Safe(flash)
  BY <1>6, <1>7 DEF Safe
<1>16. xfer.csb /\ ~xfer.busy
  BY <1>2
<1>17. ~Working
  BY <1>2 DEF Working
<1>18. SafeOk
  BY <1>2, <1>15, <1>16, <1>17 DEF SafeOk
<1>19. StartOk /\ ManualOk /\ ReadyOk
  BY <1>2, <1>11 DEF StartOk, ManualOk, ReadyOk
<1> QED BY <1>10, <1>14, <1>18, <1>19 DEF FlashInv

(* The program, the controller and the flash, together.                       *)
StepInv == ProgramInv /\ ControlInv /\ FlashInv
LEMMA StepsNext ==
  ASSUME StepInv, NEW done \in BOOLEAN, ClockEdge(done), ~Losing PROVE Steps(done)
<1>1. flash \in FlashSet
  BY DEF StepInv, FlashInv, FlashOk
<1>2. ProgramInv'
  BY ProgramNext DEF StepInv
<1>3. ControlInv'
  BY <1>1, ControlNext DEF StepInv
<1> QED BY <1>2, <1>3 DEF StepInv, Steps

LEMMA StepInvStutters == ASSUME StepInv, UNCHANGED vars PROVE StepInv'
<1>1. /\ config' = config /\ softreset' = softreset /\ state' = state /\ xfer_resetn' = xfer_resetn /\ din' = din
      /\ xfer' = xfer /\ rd_addr' = rd_addr /\ rd_valid' = rd_valid /\ rd_wait' = rd_wait /\ rd_inc' = rd_inc
      /\ flash' = flash /\ board' = board /\ req' = req /\ ram_ready' = ram_ready
      /\ calls' = calls /\ step' = step /\ fetched' = fetched
  BY DEF vars, memio, program
<1>2. /\ ConfiguredLanes' = ConfiguredLanes /\ (Working' <=> Working) /\ (Booting' <=> Booting) /\ (ModeOff' <=> ModeOff)
      /\ (Pending' <=> Pending) /\ Wren' = Wren /\ Data' = Data /\ (PinCsb' <=> PinCsb)
      /\ addr1' = addr1 /\ addr2' = addr2 /\ addr3' = addr3 /\ (Quiet' <=> Quiet) /\ (FreshXfer' <=> FreshXfer)
      /\ (Leading' <=> Leading) /\ (TagOk' <=> TagOk) /\ (Late' <=> Late)
  BY <1>1 DEF ConfiguredLanes, Working, Booting, ModeOff, Pending, Wren, Data, PinCsb, addr1, addr2, addr3, Quiet, FreshXfer,
              Leading, TagOk, Late
<1>3. /\ ReadCommand' = ReadCommand /\ (wide' <=> wide) /\ Sent' = Sent /\ (first' <=> first) /\ (Restarting' <=> Restarting)
  BY <1>1, <1>2 DEF ReadCommand, wide, Sent, first, Late4, Restarting
<1>4. ProgramOk' /\ BusOk' /\ RegisterOk'
  BY <1>1, <1>2 DEF StepInv, ProgramInv, ProgramOk, BusOk, RegisterOk
<1>5. TypesOk' /\ ResetOk' /\ RestartOk'
  BY <1>1, <1>2 DEF StepInv, ControlInv, TypesOk, ResetOk, RestartOk
<1>6. CommandOk'
  BY <1>1, <1>2, <1>3 DEF StepInv, ControlInv, CommandOk
<1>7. RunningOk'
  BY <1>1, <1>2, <1>3 DEF StepInv, ControlInv, RunningOk
<1>8. FlashOk' /\ AgreeOk'
  BY <1>1, <1>2, <1>3 DEF StepInv, FlashInv, FlashOk, AgreeOk
<1>9. SafeOk' /\ StartOk' /\ ManualOk'
  BY <1>1, <1>2, <1>3 DEF StepInv, FlashInv, SafeOk, StartOk, ManualOk
<1>10. ReadyOk'
  BY <1>1, <1>2, <1>3 DEF StepInv, FlashInv, ReadyOk
<1> QED BY <1>4, <1>5, <1>6, <1>7, <1>8, <1>9, <1>10 DEF StepInv, ProgramInv, ControlInv, FlashInv

(* What was lost stays lost.                                                  *)
LEMMA LostStays == ASSUME ClockEdge(TRUE) \/ ClockEdge(FALSE), ~lost' PROVE ~lost /\ ~Losing
BY DEF ClockEdge

(* The controller and the flash keep in step in every state the firmware can  *)
(* bring them to, until continuous reading is asked for on one lane or ended  *)
(* on two.  Neither part is inductive without the other; no hypothesis is made *)
(* about the commands that are typed.                                         *)
THEOREM StepInvariant == Spec => [](lost \/ StepInv)
<1>1. Init => StepInv
  BY ProgramInit, ControlInit, FlashInit DEF StepInv
<1>2. (lost \/ StepInv) /\ [Next]_vars => (lost \/ StepInv)'
  <2>1. SUFFICES ASSUME lost \/ StepInv, [Next]_vars, ~lost' PROVE StepInv'
    OBVIOUS
  <2>2. CASE UNCHANGED vars
    <3>1. ~lost
      BY <2>1, <2>2 DEF vars
    <3> QED BY <2>1, <2>2, <3>1, StepInvStutters
  <2>3. ASSUME NEW done \in BOOLEAN, ClockEdge(done) PROVE StepInv'
    <3>1. ~lost /\ ~Losing
      BY <2>1, <2>3, LostStays
    <3>2. Steps(done)
      BY <2>1, <2>3, <3>1, StepsNext
    <3> QED BY <3>2, FlashNext DEF StepInv, Steps
  <2> QED BY <2>1, <2>2, <2>3 DEF Next
<1> QED BY <1>1, <1>2, PTL DEF Spec

(* FlashExpectsNextByte of SocFlash: when the controller is about to begin a  *)
(* read the flash has woken up, no dummy cycles are left of a read that was   *)
(* cut short, and it is in continuous reading exactly if the controller is.   *)
THEOREM ReadsBeginRight == Spec => []FlashExpectsNextByte
<1>1. lost \/ StepInv => FlashExpectsNextByte
  BY DEF StepInv, FlashInv, ReadyOk, FlashExpectsNextByte
<1> QED BY <1>1, StepInvariant, PTL

(* CommandReachesFlash of SocFlash: when the worker of flashio gives the pins *)
(* back the flash has taken the command it sent, unless continuous reading    *)
(* was left on.                                                               *)
THEOREM CommandsReach == Spec => CommandReachesFlash
<1>1. StepInv /\ calls # <<>> /\ Op.act = "memio" /\ ~config.cont /\ ~config.en => flash.spi_cmd = Op.cmd
  <2>1. SUFFICES ASSUME StepInv, calls # <<>>, Op.act = "memio", ~config.cont, ~config.en PROVE flash.spi_cmd = Op.cmd
    OBVIOUS
  <2>2. ProgramOk /\ ManualOk
    BY <2>1 DEF StepInv, ProgramInv, FlashInv
  <2>3. Head(calls).act = "flashio"
    BY <2>1, <2>2, OpIs
  <2>4. Sent = Len(Data) /\ Len(Data) \in Nat \ {0} /\ Op.cmd = Data[1]
    BY <2>1, <2>2, <2>3, OpIs, OpKinds
  <2> QED BY <2>1, <2>2, <2>4 DEF ManualOk
<1>2. StepInv /\ calls # <<>> /\ Op.act = "memio" => ~config.en
  <2>1. SUFFICES ASSUME StepInv, calls # <<>>, Op.act = "memio" PROVE ~config.en
    OBVIOUS
  <2>2. ProgramOk /\ RegisterOk
    BY <2>1 DEF StepInv, ProgramInv
  <2>3. Head(calls).act = "flashio"
    BY <2>1, <2>2, OpIs
  <2>4. step \in Nat /\ step >= 3
    BY <2>1, <2>2, <2>3, OpIs, OpKinds
  <2>5. Working /\ step >= 3
    BY <2>1, <2>3, <2>4 DEF Working
  <2> QED BY <2>2, <2>5 DEF RegisterOk
<1>3. lost \/ StepInv => [calls # <<>> /\ Op.act = "memio" /\ <<calls, step>>' # <<calls, step>> /\ ~config.cont /\ ~lost
                            => flash.spi_cmd = Op.cmd]_vars
  BY <1>1, <1>2
<1> QED BY <1>3, StepInvariant, PTL DEF CommandReachesFlash

-----------------------------------------------------------------------------
(* The words: every edge keeps what is known of them.                      *)
(* The words: what has come of the word that is read, and the byte the flash  *)
(* holds.                                                                     *)
LEMMA AppendWord ==
  ASSUME NEW s \in [1..3 -> Int], NEW x \in Int
  PROVE Append(s, x) \in [1..4 -> Int] /\ (\A k \in 1..3 : Append(s, x)[k] = s[k]) /\ Append(s, x)[4] = x
<1>1. s \in Seq(Int)
  BY SeqDef
<1>2. PICK n \in Nat : n = Len(s) /\ DOMAIN s = 1..n
  BY <1>1, LenProperties
<1>3. 1..n = 1..3
  BY <1>2
<1>4. n = 3
  <2>1. 3 \in 1..n /\ n + 1 \notin 1..3
    BY ONLY <1>2, <1>3
  <2> QED BY ONLY <1>2, <2>1
<1>5. /\ Append(s, x) \in Seq(Int) /\ Len(Append(s, x)) = Len(s) + 1
      /\ \A i \in 1..Len(s) : Append(s, x)[i] = s[i]
      /\ Append(s, x)[Len(s) + 1] = x
  BY <1>1, AppendProperties
<1>6. Len(s) = 3
  BY <1>2, <1>4
<1>7. PICK t : t = Append(s, x)
  OBVIOUS
<1>8. t \in Seq(Int) /\ Len(t) = 4 /\ (\A i \in 1..3 : t[i] = s[i]) /\ t[4] = x
  BY <1>5, <1>6, <1>7
<1>9. t \in [1..4 -> Int]
  BY <1>8, LenProperties
<1> QED BY <1>7, <1>8, <1>9

LEMMA WordTypes ==
  ASSUME NEW done, Going(done), buffer \in [1..3 -> Int], rdata \in [1..4 -> Int]
  PROVE buffer' \in [1..3 -> Int] /\ rdata' \in [1..4 -> Int]
<1>1. dout_data \in Int
  <2>1. ReadByte \in Int /\ xfer.ibuffer \in Int
    BY GoingIs, StepFacts, ReadByteType DEF XferSet
  <2> QED BY <2>1 DEF dout_data
<1>2. /\ buffer' = [k \in 1..3 |-> IF dout_valid(done) /\ xfer.tag_q = k THEN dout_data ELSE buffer[k]]
      /\ rdata' = rdata \/ rdata' = Append(buffer, dout_data)
  BY GoingIs, RunWords
<1>3. buffer' \in [1..3 -> Int]
  BY <1>1, <1>2
<1>4. Append(buffer, dout_data) \in [1..4 -> Int]
  BY <1>1, AppendWord
<1> QED BY <1>2, <1>3, <1>4

LEMMA ReadRequest ==
  ASSUME NEW done, Going(done), state \in 6..12
  PROVE /\ ~rd_inc => req' = req /\ Pending
        /\ Leading => ~rd_inc /\ ~Late4 /\ xfer.tag = 0
        /\ ~Leading => state \in 9..12 /\ xfer.tag \in 1..4 /\ (state = 9 => xfer.tag = 4) /\ (state # 9 => xfer.tag = state - 9)
        /\ rd_valid <=> rd_inc
        /\ (state # 12 => xfer.busy) /\ (~xfer.busy => xfer.fetch) /\ (Leading => xfer.tag_q = 0)
<1>1. /\ (rd_valid <=> rd_inc) /\ (~rd_inc => Pending) /\ (Leading => first) /\ TagOk
      /\ (state # 12 => xfer.busy) /\ (state = 12 /\ ~xfer.busy => xfer.fetch)
      /\ (xfer.busy /\ xfer.fetch /\ Leading => xfer.tag_q = 0) /\ (~(xfer.busy /\ xfer.fetch) => xfer.tag_q = xfer.tag)
  BY GoingFacts DEF RunningOk
<1>2. ~rd_inc => req' = req
  BY <1>1, GoingFacts, RunRequest
<1>3. Leading => ~rd_inc /\ ~Late4 /\ xfer.tag = 0
  BY <1>1 DEF first, Leading, TagOk
<1>4. ~Leading => state \in 9..12 /\ xfer.tag \in 1..4 /\ (state = 9 => xfer.tag = 4) /\ (state # 9 => xfer.tag = state - 9)
  BY <1>1 DEF Leading, TagOk
<1> QED BY <1>1, <1>2, <1>3, <1>4

(* A byte arrives when it ends; on eight lanes, a clock later.                *)
Comes(done, k) == dout_valid(done) /\ xfer.tag_q = k
LEMMA ArriveIs ==
  ASSUME NEW done, Going(done), state \in 9..12
  PROVE /\ \A k \in 1..4 : Comes(done, k) <=> IF ConfiguredLanes = 8 THEN Late /\ xfer.tag_q = k ELSE done /\ xfer.tag = k
        /\ Late => ConfiguredLanes = 8 /\ ~done
        /\ Late' <=> ConfiguredLanes = 8 /\ done
        /\ xfer'.tag_q = xfer.tag
        /\ dout_data = (IF ConfiguredLanes = 8 THEN xfer.ibuffer ELSE ReadByte)
        /\ ConfiguredLanes = 8 /\ done => xfer'.ibuffer = ReadByte
        /\ ReadByte = flash.out
        /\ done => xfer.busy
<1>0. state \in 6..12 /\ state # 6
  OBVIOUS
<1>1. /\ xfer_resetn /\ (xfer.ddr_q <=> ConfiguredLanes = 8) /\ xfer.lanes = ConfiguredLanes
      /\ ~(xfer.busy /\ xfer.fetch) => xfer.tag_q = xfer.tag
  BY <1>0, GoingFacts DEF RunningOk
<1>2. ~xfer.busy => xfer.fetch
  BY <1>0, ReadRequest
<1>3. done => xfer.busy /\ ~xfer.fetch
  BY GoingIs
<1>4. /\ (xfer'.fetch <=> next_fetch(done)) /\ (xfer'.last_fetch <=> (ConfiguredLanes = 8 => xfer.fetch))
      /\ (xfer'.ddr_q <=> ConfiguredLanes = 8) /\ xfer'.tag_q = xfer.tag
      /\ xfer'.ibuffer = (IF ConfiguredLanes = 8 /\ done THEN ReadByte ELSE Junk)
  <2>1. Transfer(done) /\ xfer_resetn /\ xfer \in XferSet /\ done \in BOOLEAN /\ xfer.lanes = ConfiguredLanes
    BY <1>1, GoingIs, StepFacts
  <2>2. CASE din_ready(done)
    <3>1. xfer.busy => done
      BY <2>2 DEF din_ready, next_fetch
    <3> QED BY <2>1, <2>2, <3>1, TakeFields DEF din_ready
  <2>3. CASE ~din_ready(done)
    BY <2>1, <2>3, KeepFields DEF next_fetch
  <2> QED BY <2>2, <2>3
<1>5. next_fetch(done) /\ ~xfer.fetch <=> done
  BY <1>2, <1>3 DEF next_fetch
<1>6. Late => ConfiguredLanes = 8 /\ ~done
  BY <1>1, <1>3 DEF Late
<1>7. Late' <=> ConfiguredLanes = 8 /\ done
  BY <1>4, <1>5 DEF Late
<1>8. ASSUME NEW k \in 1..4
      PROVE Comes(done, k) <=> IF ConfiguredLanes = 8 THEN Late /\ xfer.tag_q = k ELSE done /\ xfer.tag = k
  <2>1. CASE ConfiguredLanes = 8
    BY <1>1, <2>1 DEF Comes, dout_valid, Late
  <2>2. CASE ConfiguredLanes # 8
    <3>1. dout_valid(done) <=> done
      BY <1>1, <1>5, <2>2 DEF dout_valid
    <3>2. done => xfer.tag_q = xfer.tag
      BY <1>1, <1>3
    <3> QED BY <2>2, <3>1, <3>2 DEF Comes
  <2> QED BY <2>1, <2>2
<1>9. dout_data = (IF ConfiguredLanes = 8 THEN xfer.ibuffer ELSE ReadByte)
  BY <1>1 DEF dout_data
<1>10. ReadByte = flash.out
  BY <1>0, ReadFacts DEF ReadByte, ReadBack
<1> QED BY <1>3, <1>4, <1>6, <1>7, <1>8, <1>9, <1>10

LEMMA StartedIs ==
  ASSUME NEW done, Going(done), state \in 6..12, ~jumps
  PROVE /\ started \in 0..(Space - 1)
        /\ A4(done) => rd_addr' = started /\ started' = Wrap(started + 4) /\ rdata' = Append(buffer, dout_data)
        /\ ~A4(done) => rd_addr' = rd_addr /\ started' = started /\ rdata' = rdata
        /\ rd_valid' <=> rd_valid \/ A4(done)
<1>1. /\ rd_inc' <=> rd_inc \/ A4(done)
      /\ rd_valid' <=> rd_valid \/ A4(done)
      /\ ~A4(done) => rd_addr' = rd_addr /\ rdata' = rdata
      /\ A4(done) => rd_addr' = (IF rd_inc THEN Wrap(rd_addr + 4) ELSE req.addr) /\ rdata' = Append(buffer, dout_data)
  <2>1. Runs(done)
    BY GoingIs
  <2> QED BY <2>1, RunWords
<1>2. (~rd_inc => req' = req) /\ req.addr \in 0..(Space - 1) /\ rd_addr \in 0..(Space - 1)
  <2>1. req \in ReqSet /\ TypesOk
    BY GoingFacts
  <2> QED BY <2>1, ReadRequest DEF ReqSet, TypesOk
<1>3. started \in 0..(Space - 1)
  BY <1>2, WrapType DEF started
<1>4. A4(done) => rd_addr' = started /\ started' = Wrap(started + 4)
  BY <1>1 DEF started
<1>5. ~A4(done) => started' = started
  BY <1>1, <1>2 DEF started
<1> QED BY <1>1, <1>3, <1>4, <1>5

(* The word on the wires: the next one begins when its last byte has ended.   *)
LEMMA CurrentIs ==
  ASSUME NEW done, Going(done), state \in 9..12, ~jumps
  PROVE /\ current \in 0..(Space - 1)
        /\ A4(done) <=> IF ConfiguredLanes = 8 THEN Late4 ELSE done /\ xfer.tag = 4
        /\ Late4' <=> ConfiguredLanes = 8 /\ done /\ xfer.tag = 4
        /\ done /\ xfer.tag = 4 => current' = Wrap(current + 4)
        /\ ~(done /\ xfer.tag = 4) => current' = current
<1>0. state \in 6..12
  OBVIOUS
<1>1. /\ A4(done) => started' = Wrap(started + 4)
      /\ ~A4(done) => started' = started
      /\ started \in 0..(Space - 1) /\ started \in Int
  <2>1. started \in 0..(Space - 1) => started \in Int
    BY SpaceType
  <2> QED BY <1>0, <2>1, StartedIs
<1>2. /\ Comes(done, 4) <=> IF ConfiguredLanes = 8 THEN Late /\ xfer.tag_q = 4 ELSE done /\ xfer.tag = 4
      /\ Late => ConfiguredLanes = 8 /\ ~done
      /\ Late' <=> ConfiguredLanes = 8 /\ done
      /\ xfer'.tag_q = xfer.tag
  BY ArriveIs
<1>3. A4(done) <=> IF ConfiguredLanes = 8 THEN Late4 ELSE done /\ xfer.tag = 4
  BY <1>2 DEF A4, Comes, Late4
<1>4. Late4' <=> ConfiguredLanes = 8 /\ done /\ xfer.tag = 4
  BY <1>2 DEF Late4
<1>5. Late4 => ConfiguredLanes = 8 /\ ~done
  BY <1>2 DEF Late4
<1>6. current = (IF Late4 THEN Wrap(started + 4) ELSE started) /\ current' = (IF Late4' THEN Wrap(started' + 4) ELSE started')
  BY DEF current
<1>7. current \in 0..(Space - 1)
  BY <1>1, <1>6, WrapType
<1>8. CASE ConfiguredLanes = 8
  <2>1. A4(done) <=> Late4
    BY <1>3, <1>8
  <2> QED BY ONLY <1>1, <1>3, <1>4, <1>5, <1>6, <1>7, <1>8, <2>1, Zenon
<1>9. CASE ConfiguredLanes # 8
  <2>1. A4(done) <=> done /\ xfer.tag = 4
    BY <1>3, <1>9
  <2> QED BY ONLY <1>1, <1>3, <1>4, <1>5, <1>6, <1>7, <1>9, <2>1, Zenon
<1> QED BY <1>8, <1>9

(* A byte of the word: it has come, or comes now.                             *)
LEMMA ComeIs ==
  ASSUME NEW done, Going(done), state \in 9..12, buffer \in [1..3 -> Int], NEW k \in 1..3
  PROVE /\ done /\ xfer.tag = k => Come(k)' = flash.out
        /\ ~(done /\ xfer.tag = k) => Come(k)' = Come(k)
        /\ ~Late => Come(k) = buffer[k]
        /\ done => buffer'[k] = (IF ConfiguredLanes # 8 /\ xfer.tag = k THEN flash.out ELSE Come(k))
<1>1. /\ Comes(done, k) <=> IF ConfiguredLanes = 8 THEN Late /\ xfer.tag_q = k ELSE done /\ xfer.tag = k
      /\ Late => ConfiguredLanes = 8 /\ ~done
      /\ Late' <=> ConfiguredLanes = 8 /\ done
      /\ xfer'.tag_q = xfer.tag
      /\ dout_data = (IF ConfiguredLanes = 8 THEN xfer.ibuffer ELSE ReadByte)
      /\ ConfiguredLanes = 8 /\ done => xfer'.ibuffer = ReadByte
      /\ ReadByte = flash.out
  <2>1. k \in 1..4
    OBVIOUS
  <2> QED BY <2>1, ArriveIs
<1>2. buffer'[k] = (IF Comes(done, k) THEN dout_data ELSE buffer[k])
  <2>1. buffer' = [j \in 1..3 |-> IF Comes(done, j) THEN dout_data ELSE buffer[j]]
    BY GoingIs, RunWords DEF Comes
  <2> QED BY <2>1
<1>3. Come(k) = (IF Late /\ xfer.tag_q = k THEN xfer.ibuffer ELSE buffer[k])
  BY DEF Come
<1>4. Come(k)' = (IF Late' /\ xfer'.tag_q = k THEN xfer'.ibuffer ELSE buffer'[k])
  BY DEF Come
<1>5. CASE ConfiguredLanes = 8
  BY ONLY <1>1, <1>2, <1>3, <1>4, <1>5, Zenon
<1>6. CASE ConfiguredLanes # 8
  BY ONLY <1>1, <1>2, <1>3, <1>4, <1>6, Zenon
<1> QED BY <1>5, <1>6

(* While a word is read: what of it has come is right.                        *)
Reads(done) == Going(done) /\ state \in 6..12 /\ ~jumps /\ WordTypesOk /\ DataOk
LEMMA ReadsIs ==
  ASSUME NEW done, Reads(done)
  PROVE /\ Going(done) /\ state \in 6..12 /\ ~jumps /\ buffer \in [1..3 -> Int] /\ rdata \in [1..4 -> Int]
        /\ HeldWord /\ AddressComes /\ BytesCome /\ LateComes
BY Zenon DEF Reads, WordTypesOk, DataOk

LEMMA WordIs ==
  ASSUME NEW s \in [1..3 -> Int], NEW x \in Int, NEW a \in Int,
         \A k \in 1..3 : s[k] = Wrap(a + k - 1), x = Wrap(a + 3)
  PROVE Append(s, x) = Word(a)
<1>1. PICK t : t = Append(s, x)
  OBVIOUS
<1>2. t \in [1..4 -> Int] /\ (\A k \in 1..3 : t[k] = s[k]) /\ t[4] = x
  BY <1>1, AppendWord
<1>3. \A k \in 1..4 : t[k] = Wrap(a + k - 1)
  <2>1. \A k \in 1..3 : t[k] = Wrap(a + k - 1)
    BY <1>2
  <2>2. t[4] = Wrap(a + 4 - 1)
    <3>1. a + 4 - 1 = a + 3
      OBVIOUS
    <3> QED BY <1>2, <3>1
  <2> QED BY <2>1, <2>2
<1>4. t = Word(a)
  BY <1>2, <1>3 DEF Word
<1> QED BY <1>1, <1>4

(* The last byte of a word comes.                                             *)
LEMMA LastByte ==
  ASSUME NEW done, Reads(done), state \in 9..12, ~Leading, A4(done)
  PROVE (\A k \in 1..3 : buffer[k] = Wrap(started + k - 1)) /\ dout_data = Wrap(started + 3)
<1>1. Going(done) /\ ~jumps /\ buffer \in [1..3 -> Int] /\ BytesCome /\ LateComes
  BY ReadsIs
<1>2. A4(done) <=> IF ConfiguredLanes = 8 THEN Late4 ELSE done /\ xfer.tag = 4
  BY <1>1, CurrentIs
<1>3. /\ Late => ConfiguredLanes = 8 /\ ~done
      /\ dout_data = (IF ConfiguredLanes = 8 THEN xfer.ibuffer ELSE ReadByte)
      /\ ReadByte = flash.out /\ (done => xfer.busy)
  BY <1>1, ArriveIs
<1>4. CASE ConfiguredLanes = 8
  <2>1. Late4
    BY <1>2, <1>4
  <2> QED BY <1>1, <1>3, <1>4, <2>1 DEF LateComes
<1>5. CASE ConfiguredLanes # 8
  <2>1. done => Turn = 4
    BY <1>2, <1>3, <1>5 DEF Turn
  <2>2. done
    BY ONLY A4(done), <1>2, <1>5, Zenon
  <2>3. Turn = 4
    BY ONLY <2>1, <2>2, Zenon
  <2>4. current = started
    BY <1>3, <1>5 DEF current, Late4
  <2>5. started \in Int
    <3>1. state \in 6..12
      OBVIOUS
    <3>2. started \in 0..(Space - 1)
      BY <1>1, <3>1, StartedIs
    <3> QED BY <3>2, SpaceType
  <2>6. \A k \in 1..3 : Come(k) = buffer[k]
    BY <1>3, <1>5 DEF Come
  <2>7. /\ flash.out = Wrap(started + 4 - 1)
        /\ \A k \in 1..3 : Come(k) = Wrap(started + k - 1)
    BY <1>1, <2>3, <2>4 DEF BytesCome
  <2>8. started + 4 - 1 = started + 3
    BY <2>5
  <2> QED BY <1>3, <1>5, <2>6, <2>7, <2>8
<1> QED BY <1>4, <1>5

LEMMA WordArrives ==
  ASSUME NEW done, Reads(done)
  PROVE A4(done) => rdata' = Word(started)
<1>1. Going(done) /\ state \in 6..12 /\ ~jumps /\ buffer \in [1..3 -> Int]
  BY ReadsIs
<1>2. ASSUME A4(done) PROVE rdata' = Word(started)
  <2>1. ~Leading
    <3>1. Leading => xfer.tag_q = 0
      BY <1>1, ReadRequest
    <3> QED BY <1>2, <3>1 DEF A4
  <2>2. state \in 9..12
    BY <1>1, <2>1, ReadRequest
  <2>3. (\A k \in 1..3 : buffer[k] = Wrap(started + k - 1)) /\ dout_data = Wrap(started + 3)
    BY <1>2, <2>1, <2>2, LastByte
  <2>4. started \in 0..(Space - 1) /\ rdata' = Append(buffer, dout_data)
    BY <1>1, <1>2, StartedIs
  <2>5. started \in Int /\ dout_data \in Int
    <3>1. started \in Int
      BY <2>4, SpaceType
    <3>2. Wrap(started + 3) \in 0..(Space - 1)
      BY <3>1, WrapType
    <3> QED BY <2>3, <3>1, <3>2, SpaceType
  <2>6. Append(buffer, dout_data) = Word(started)
    BY <1>1, <2>3, <2>5, WordIs
  <2> QED BY <2>4, <2>6
<1> QED BY <1>2

LEMMA HeldWordNext ==
  ASSUME NEW done, Reads(done) PROVE HeldWord'
<1>1. Going(done) /\ state \in 6..12 /\ ~jumps /\ HeldWord
  BY ReadsIs
<1>2. /\ A4(done) => rd_addr' = started
      /\ ~A4(done) => rd_addr' = rd_addr /\ rdata' = rdata
      /\ rd_valid' <=> rd_valid \/ A4(done)
  BY <1>1, StartedIs
<1>3. A4(done) => rdata' = Word(started)
  BY WordArrives
<1>4. HeldWord' <=> (rd_valid' => rdata' = Word(rd_addr'))
  BY DEF HeldWord, Word
<1>5. rd_valid => rdata = Word(rd_addr)
  BY <1>1 DEF HeldWord
<1>6. CASE A4(done)
  BY ONLY <1>2, <1>3, <1>4, <1>6, Zenon
<1>7. CASE ~A4(done)
  BY ONLY <1>2, <1>4, <1>5, <1>7, Zenon
<1> QED BY <1>6, <1>7

(* On eight lanes the last byte of a word waits a clock in ibuffer.           *)
LEMMA LateFills ==
  ASSUME NEW done, Reads(done), state \in 9..12, ~Leading, ConfiguredLanes = 8, done /\ xfer.tag = 4
  PROVE /\ \A k \in 1..3 : buffer'[k] = Wrap(started' + k - 1)
        /\ xfer'.ibuffer = Wrap(started' + 3)
<1>1. Going(done) /\ state \in 6..12 /\ ~jumps /\ buffer \in [1..3 -> Int] /\ BytesCome
  BY ReadsIs
<1>2. done /\ xfer.tag = 4
  OBVIOUS
<1>3. /\ Late => ConfiguredLanes = 8 /\ ~done
      /\ ConfiguredLanes = 8 /\ done => xfer'.ibuffer = ReadByte
      /\ ReadByte = flash.out /\ (done => xfer.busy)
  BY <1>1, ArriveIs
<1>4. ~Late /\ xfer.busy /\ xfer'.ibuffer = flash.out
  BY ONLY <1>2, <1>3, ConfiguredLanes = 8, Zenon
<1>5. Turn = 4 /\ current = started
  BY <1>2, <1>4 DEF Turn, current, Late4
<1>6. A4(done) <=> IF ConfiguredLanes = 8 THEN Late4 ELSE done /\ xfer.tag = 4
  BY <1>1, CurrentIs
<1>7. ~A4(done)
  BY <1>4, <1>6 DEF Late4
<1>8. started' = started /\ started \in 0..(Space - 1)
  BY <1>1, <1>7, StartedIs
<1>9. started \in Int /\ started + 4 - 1 = started + 3
  BY <1>8, SpaceType
<1>10. /\ flash.out = Wrap(started + 4 - 1)
       /\ \A k \in 1..3 : Come(k) = Wrap(started + k - 1)
  BY <1>1, <1>5 DEF BytesCome
<1>11. \A k \in 1..3 : done => buffer'[k] = (IF ConfiguredLanes # 8 /\ xfer.tag = k THEN flash.out ELSE Come(k))
  BY <1>1, ComeIs
<1>12. \A k \in 1..3 : buffer'[k] = Come(k)
  BY ONLY <1>2, <1>11, ConfiguredLanes = 8, Zenon
<1> QED BY <1>4, <1>8, <1>9, <1>10, <1>12

LEMMA LateComesNext ==
  ASSUME NEW done, Reads(done) PROVE LateComes'
<1>1. Going(done) /\ state \in 6..12 /\ ~jumps
  BY ReadsIs
<1>2. CASE state \in 6..8
  <2>1. state \in 6..11 /\ Runs(done) /\ xfer.tag = 0
    <3>1. TagOk
      BY <1>1, <1>2, GoingFacts DEF RunningOk
    <3> QED BY <1>1, <1>2, <3>1, GoingFacts DEF TagOk
  <2>2. Turned(done)
    BY <1>1, <2>1, RunTurn
  <2>3. xfer'.tag_q = 0
    BY <2>1, <2>2 DEF Turned
  <2> QED BY <2>3 DEF LateComes, Late4
<1>3. CASE state \in 9..12
  <2>1. Late4' <=> ConfiguredLanes = 8 /\ done /\ xfer.tag = 4
    BY <1>1, <1>3, CurrentIs
  <2>2. Leading => xfer.tag = 0
    BY <1>1, ReadRequest
  <2>3. ASSUME Late4' PROVE /\ \A k \in 1..3 : buffer'[k] = Wrap(started' + k - 1)
                            /\ xfer'.ibuffer = Wrap(started' + 3)
    <3>1. ConfiguredLanes = 8 /\ done /\ xfer.tag = 4
      BY ONLY <2>1, <2>3, Zenon
    <3>2. ~Leading
      BY <2>2, <3>1
    <3> QED BY <1>3, <3>1, <3>2, LateFills
  <2> QED BY <2>3 DEF LateComes, Wrap
<1> QED BY <1>1, <1>2, <1>3

(* The byte that the flash holds, counted from 1: it moves on when one ends.  *)
LEMMA TurnFirst ==
  ASSUME NEW done, Reads(done), state \in 9..11, ~Leading
  PROVE /\ Turn = xfer.tag /\ ~Leading'
        /\ ~done => Turn' = Turn
        /\ done => Turn' = (IF xfer.tag = 4 THEN 1 ELSE xfer.tag + 1)
<1>1. Going(done) /\ state \in 6..12 /\ state \in 6..11 /\ ~jumps /\ Runs(done)
  BY ReadsIs, GoingFacts
<1>2. Turned(done)
  BY <1>1, RunTurn
<1>3. xfer.busy /\ xfer.tag \in 1..4 /\ (state = 9 => xfer.tag = 4) /\ (state # 9 => xfer.tag = state - 9)
  <2>1. state # 12 => xfer.busy
    BY <1>1, ReadRequest
  <2> QED BY <1>1, <2>1, ReadRequest
<1>4. After = state + 1 /\ state \in Int
  BY <1>1 DEF After
<1>5. OfferedTag = state - 8
  BY DEF OfferedTag
<1>6. xfer'.busy /\ (~done => state' = state /\ xfer'.tag = xfer.tag) /\ (done => state' = state + 1 /\ xfer'.tag = state - 8)
  BY <1>2, <1>4, <1>5, Zenon DEF Turned
<1>7. Turn = xfer.tag /\ Turn' = xfer'.tag
  BY <1>3, <1>6 DEF Turn
<1>8. state - 8 = (IF xfer.tag = 4 THEN 1 ELSE xfer.tag + 1)
  BY <1>3
<1>9. (state \in 9..11 /\ xfer.tag # 0 => ~(state \in 6..8 \/ (state = 9 /\ xfer.tag = 0))) /\ state + 1 \in 10..12
  OBVIOUS
<1>10. CASE done
  <2>1. state' = state + 1
    BY ONLY <1>6, <1>10, Zenon
  <2>2. state' \in 10..12
    BY <1>9, <2>1
  <2>3. ~Leading'
    BY <2>2 DEF Leading
  <2> QED BY ONLY <1>6, <1>7, <1>8, <1>10, <2>3, Zenon
<1>11. CASE ~done
  <2>1. state' = state /\ xfer'.tag = xfer.tag
    BY ONLY <1>6, <1>11, Zenon
  <2>2. ~Leading'
    BY <1>3, <2>1 DEF Leading
  <2> QED BY ONLY <1>6, <1>7, <1>11, <2>2, Zenon
<1> QED BY <1>10, <1>11

LEMMA TurnLast ==
  ASSUME NEW done, Reads(done), state = 12
  PROVE /\ Turn \in 3..4 /\ ~Leading' /\ (done => Turn = 3)
        /\ ~done => Turn' = Turn
        /\ done => Turn' = 4
<1>1. Going(done) /\ state \in 6..12 /\ ~jumps /\ xfer \in XferSet /\ Transfer(done) /\ done \in BOOLEAN
  BY ReadsIs, GoingFacts DEF Runs
<1>2. xfer.tag = 3 /\ xfer_resetn /\ (done => xfer.busy /\ ~xfer.fetch) /\ (din.valid => din.tag = 4)
  <2>1. RunningOk /\ ~softreset
    BY <1>1, GoingFacts
  <2>2. state >= 6 /\ state = 12
    OBVIOUS
  <2> QED BY <1>1, <2>1, <2>2, GoingIs DEF RunningOk, TagOk
<1>3. state' \in {9, 12}
  <2>1. /\ ~done => state' = state \/ (state = 12 /\ state' = 9)
        /\ done => state' = After \/ (state = 12 /\ state' = 12)
    BY <1>1, ReadingMoves
  <2>2. After = 9 /\ state = 12
    BY DEF After
  <2> QED BY ONLY <2>1, <2>2
<1>4. CASE din_ready(done)
  <2>1. din.valid /\ (xfer.busy => done)
    BY <1>4 DEF din_ready, next_fetch
  <2>2. xfer'.busy /\ xfer'.tag = 4
    BY <1>1, <1>2, <1>4, <2>1, TakeFields
  <2>3. Turn' = 4 /\ ~Leading'
    BY <1>3, <2>2 DEF Turn, Leading
  <2>4. Turn = (IF done THEN 3 ELSE 4)
    <3>1. xfer.busy <=> done
      BY ONLY <1>2, <2>1, Zenon
    <3> QED BY <1>2, <3>1 DEF Turn
  <2>5. (done => Turn = 3) /\ (~done => Turn = 4) /\ Turn \in 3..4
    BY <2>4
  <2> QED BY ONLY <2>3, <2>5, Zenon
<1>5. CASE ~din_ready(done)
  <2>1. xfer'.tag = 3 /\ (xfer'.busy <=> xfer.busy /\ ~done)
    BY <1>1, <1>2, <1>5, KeepFields
  <2>2. ~Leading'
    BY <1>3, <2>1 DEF Leading
  <2>3. Turn = (IF xfer.busy THEN 3 ELSE 4) /\ Turn' = (IF xfer'.busy THEN 3 ELSE 4)
    BY <1>2, <2>1 DEF Turn
  <2>4. Turn \in 3..4
    BY <2>3
  <2>5. (done => xfer.busy)
    BY <1>2
  <2> QED BY ONLY <2>1, <2>2, <2>3, <2>4, <2>5, Zenon
<1> QED BY <1>4, <1>5

LEMMA TurnIs ==
  ASSUME NEW done, Reads(done), ~Leading
  PROVE /\ state \in 9..12 /\ Turn \in 1..4 /\ xfer.tag \in 1..4 /\ ~Leading'
        /\ done => Turn = xfer.tag
        /\ ~done => Turn' = Turn
        /\ done => Turn' = (IF xfer.tag = 4 THEN 1 ELSE xfer.tag + 1)
<1>1. Going(done) /\ state \in 6..12
  BY ReadsIs
<1>2. state \in 9..12 /\ xfer.tag \in 1..4 /\ (state # 9 => xfer.tag = state - 9)
  BY <1>1, ReadRequest
<1>3. CASE state \in 9..11
  BY <1>2, <1>3, TurnFirst
<1>4. CASE state = 12
  <2>1. xfer.tag = 3
    BY <1>2, <1>4
  <2>2. /\ Turn \in 3..4 /\ ~Leading' /\ (done => Turn = 3)
        /\ ~done => Turn' = Turn
        /\ done => Turn' = 4
    BY <1>4, TurnLast
  <2>3. 4 = (IF xfer.tag = 4 THEN 1 ELSE xfer.tag + 1)
    BY <2>1
  <2>4. Turn \in 1..4
    BY <2>2
  <2> QED BY ONLY <1>2, <2>1, <2>2, <2>3, <2>4, Zenon
<1> QED BY <1>2, <1>3, <1>4

(* Within the words nothing moves until a byte ends.                          *)
LEMMA BytesWait ==
  ASSUME NEW done, Reads(done), ~Leading, ~done PROVE BytesCome'
<1>1. Going(done) /\ state \in 6..12 /\ ~jumps /\ BytesCome /\ buffer \in [1..3 -> Int]
  BY ReadsIs
<1>2. state \in 9..12 /\ Turn' = Turn
  BY TurnIs
<1>3. flash' = flash
  BY <1>1, ReadingMoves
<1>4. current' = current
  BY <1>1, <1>2, CurrentIs
<1>5. \A k \in 1..3 : Come(k)' = Come(k)
  BY <1>1, <1>2, ComeIs
<1>6. /\ flash.out = Wrap(current + Turn - 1)
      /\ flash.spi_addr = NextAddress(Wrap(current + Turn))
      /\ \A k \in 1..3 : k < Turn => Come(k) = Wrap(current + k - 1)
  BY <1>1 DEF BytesCome
<1>7. /\ flash'.out = Wrap(current' + Turn' - 1)
      /\ flash'.spi_addr = NextAddress(Wrap(current' + Turn'))
      /\ \A k \in 1..3 : k < Turn' => Come(k)' = Wrap(current' + k - 1)
  BY <1>2, <1>3, <1>4, <1>5, <1>6
<1> QED BY <1>7 DEF BytesCome, Wrap, NextAddress

(* A byte within the words ends: the flash holds the next one.                *)
LEMMA NextByteIs ==
  ASSUME NEW done, Reads(done), ~Leading, done
  PROVE /\ flash'.out = Wrap(current + Turn)
        /\ flash'.spi_addr = NextAddress(Wrap(current + Turn + 1))
        /\ current \in Int /\ current \in 0..(Space - 1)
<1>1. Going(done) /\ state \in 6..12 /\ ~jumps /\ BytesCome
  BY ReadsIs
<1>2. state \in 9..12 /\ Turn \in 1..4
  BY TurnIs
<1>3. current \in 0..(Space - 1) /\ current \in Int /\ current + Turn \in Int
  <2>1. current \in 0..(Space - 1)
    BY <1>1, <1>2, CurrentIs
  <2> QED BY <1>2, <2>1, SpaceType
<1>4. PICK a : a = Wrap(current + Turn)
  OBVIOUS
<1>5. a \in 0..(Space - 1) /\ Wrap(a + 1) = Wrap(current + Turn + 1)
  BY <1>3, <1>4, WrapType, WrapPlus
<1>6. flash.bytecount = 5 /\ flash.bytecount >= Leads
  <2>1. (~Leading => flash.bytecount = 5) /\ Leads \in {3, 4}
    BY <1>1, ReadFacts, Zenon
  <2> QED BY ONLY ~Leading, <2>1
<1>7. AddrOf(flash, xfer.data) = NextAddress(a)
  <2>1. flash.spi_addr = NextAddress(Wrap(current + Turn))
    BY <1>1 DEF BytesCome
  <2> QED BY <1>4, <1>6, <2>1 DEF AddrOf
<1>8. Traced(done, flash')
  BY <1>1, ReadingMoves
<1>9. flash'.out = a /\ flash'.spi_addr = NextAddress(Wrap(a + 1))
  <2>1. \A b \in 0..(Space - 1) : flash.bytecount >= Leads /\ AddrOf(flash, xfer.data) = NextAddress(b) =>
              flash'.out = b /\ flash'.spi_addr = NextAddress(Wrap(b + 1))
    BY <1>1, <1>8, ReadingByte
  <2> QED BY <1>5, <1>6, <1>7, <2>1
<1> QED BY <1>3, <1>4, <1>5, <1>9

LEMMA BytesMoveOn ==
  ASSUME NEW done, Reads(done), ~Leading, done, xfer.tag # 4 PROVE BytesCome'
<1>1. Going(done) /\ state \in 6..12 /\ ~jumps /\ BytesCome /\ buffer \in [1..3 -> Int]
  BY ReadsIs
<1>2. state \in 9..12 /\ xfer.tag \in 1..3 /\ Turn = xfer.tag /\ Turn' = xfer.tag + 1
  <2>1. /\ state \in 9..12 /\ xfer.tag \in 1..4 /\ Turn = xfer.tag
        /\ Turn' = (IF xfer.tag = 4 THEN 1 ELSE xfer.tag + 1)
    BY TurnIs, Zenon
  <2> QED BY ONLY <2>1, xfer.tag # 4
<1>3. current' = current
  BY <1>1, <1>2, CurrentIs
<1>4. /\ flash'.out = Wrap(current + Turn) /\ flash'.spi_addr = NextAddress(Wrap(current + Turn + 1))
      /\ current \in Int
  BY NextByteIs
<1>5. \A k \in 1..3 : k < Turn => Come(k) = Wrap(current + k - 1)
  BY <1>1 DEF BytesCome
<1>6. flash.out = Wrap(current + Turn - 1)
  BY <1>1 DEF BytesCome
<1>7. \A k \in 1..3 : (done /\ xfer.tag = k => Come(k)' = flash.out) /\ (~(done /\ xfer.tag = k) => Come(k)' = Come(k))
  BY <1>1, <1>2, ComeIs
<1>8. \A k \in 1..3 : IF xfer.tag = k THEN Come(k)' = flash.out ELSE Come(k)' = Come(k)
  BY ONLY <1>7, done, Zenon
<1>9. ASSUME NEW k \in 1..3, k < Turn' PROVE Come(k)' = Wrap(current + k - 1)
  <2>1. CASE xfer.tag = k
    BY <1>2, <1>6, <1>8, <2>1
  <2>2. CASE xfer.tag # k
    <3>1. k < Turn
      BY <1>2, <1>9, <2>2
    <3>2. Come(k)' = Come(k)
      BY <1>8, <2>2
    <3> QED BY <1>5, <3>1, <3>2
  <2> QED BY <2>1, <2>2
<1>10. current + Turn = current' + Turn' - 1 /\ current + Turn + 1 = current' + Turn'
  BY <1>2, <1>3, <1>4
<1>11. /\ flash'.out = Wrap(current' + Turn' - 1)
       /\ flash'.spi_addr = NextAddress(Wrap(current' + Turn'))
       /\ \A k \in 1..3 : k < Turn' => Come(k)' = Wrap(current' + k - 1)
  BY <1>3, <1>4, <1>9, <1>10
<1> QED BY <1>11 DEF BytesCome, Wrap, NextAddress

(* The last byte of a word ends: the next word begins.                        *)
LEMMA BytesTurn ==
  ASSUME NEW done, Reads(done), ~Leading, done, xfer.tag = 4 PROVE BytesCome'
<1>1. Going(done) /\ state \in 6..12 /\ ~jumps
  BY ReadsIs
<1>2. state \in 9..12 /\ Turn = 4 /\ Turn' = 1
  BY TurnIs
<1>3. current' = Wrap(current + 4)
  <2>1. done /\ xfer.tag = 4 => current' = Wrap(current + 4)
    BY <1>1, <1>2, CurrentIs, Zenon
  <2> QED BY ONLY done, xfer.tag = 4, <2>1, Zenon
<1>4. /\ flash'.out = Wrap(current + Turn) /\ flash'.spi_addr = NextAddress(Wrap(current + Turn + 1))
      /\ current \in Int
  BY NextByteIs
<1>5. PICK c : c = current
  OBVIOUS
<1>6. c \in Int /\ c + 4 \in Int
  BY <1>4, <1>5
<1>7. Wrap(c + 4) \in Int
  BY <1>6, WrapType, SpaceType
<1>8. Wrap(Wrap(c + 4) + 0) = Wrap(c + 4 + 0) /\ Wrap(Wrap(c + 4) + 1) = Wrap(c + 4 + 1)
  <2>1. PICK d \in Int : d = c + 4
    BY <1>6
  <2>2. Wrap(Wrap(d) + 0) = Wrap(d + 0) /\ Wrap(Wrap(d) + 1) = Wrap(d + 1)
    <3>1. \A k \in Int : Wrap(Wrap(d) + k) = Wrap(d + k)
      BY WrapPlus
    <3> QED BY <3>1
  <2> QED BY <2>1, <2>2
<1>9. Wrap(c + 4) + 0 = Wrap(c + 4) + 1 - 1 /\ c + 4 + 0 = c + 4
  BY <1>6, <1>7
<1>10. /\ flash'.out = Wrap(current' + Turn' - 1)
       /\ flash'.spi_addr = NextAddress(Wrap(current' + Turn'))
  BY <1>2, <1>3, <1>4, <1>5, <1>8, <1>9
<1>11. \A k \in 1..3 : k < Turn' => Come(k)' = Wrap(current' + k - 1)
  BY <1>2
<1> QED BY <1>10, <1>11 DEF BytesCome, Wrap, NextAddress

(* The address has come, in the bytes the controller sent.                    *)
LEMMA AddressHas ==
  ASSUME NEW done, Reads(done), state = 9, Leading
  PROVE /\ AddrOf(flash, xfer.data) = NextAddress(req.addr) /\ flash.bytecount >= Leads
        /\ req.addr \in 0..(Space - 1)
<1>1. Going(done) /\ state \in 6..12 /\ AddressComes
  BY ReadsIs
<1>2. /\ NextAddress(req.addr) = <<addr1, addr2, addr3>> /\ req.addr \in 0..(Space - 1)
      /\ addr1 \in Int /\ addr2 \in Int /\ addr3 \in Int
  BY <1>1, GoingIs, AddressTypes
<1>3. xfer.tag = 0
  BY <1>1, ReadRequest
<1>4. flash.bytecount = (IF wide THEN 4 ELSE 3) /\ flash \in FlashSet /\ (~wide => xfer.data = addr3)
  <2>1. ReadyOk /\ RunningOk /\ ~softreset
    BY <1>1, GoingFacts
  <2> QED BY <1>1, <1>3, <2>1, ReadFacts DEF ReadyOk, RunningOk
<1>5. flash.spi_addr \in [1..3 -> Int]
  BY <1>4 DEF FlashSet, AddressSet
<1>6. flash.spi_addr[1] = addr1 /\ flash.spi_addr[2] = addr2 /\ (wide => flash.spi_addr[3] = addr3)
  BY <1>3 DEF AddressComes, Reads, DataOk
<1>7. AddrOf(flash, xfer.data) = <<addr1, addr2, addr3>>
  <2>1. PICK s : s = flash.spi_addr
    OBVIOUS
  <2>2. CASE wide
    <3>1. AddrOf(flash, xfer.data) = s
      BY <1>4, <2>1, <2>2 DEF AddrOf
    <3>2. s = <<addr1, addr2, addr3>>
      BY <1>5, <1>6, <2>1, <2>2
    <3> QED BY <3>1, <3>2
  <2>3. CASE ~wide
    <3>1. AddrOf(flash, xfer.data) = [s EXCEPT ![3] = addr3]
      BY <1>4, <2>1, <2>3 DEF AddrOf
    <3>2. [s EXCEPT ![3] = addr3] = <<addr1, addr2, addr3>>
      BY <1>2, <1>5, <1>6, <2>1
    <3> QED BY <3>1, <3>2
  <2> QED BY <2>2, <2>3
<1>8. flash.bytecount >= Leads
  BY <1>4 DEF Leads
<1> QED BY <1>2, <1>7, <1>8

(* While the first word is led to, its bytes follow each other.               *)
LEMMA LeadingMoves ==
  ASSUME NEW done, Reads(done), Leading
  PROVE /\ req' = req /\ xfer.tag = 0 /\ state \in 6..9
        /\ started = req.addr /\ current = req.addr
        /\ ~done => state' = state /\ xfer'.tag = xfer.tag /\ flash' = flash /\ Leading'
        /\ done => /\ xfer'.tag = (IF state = 9 THEN 1 ELSE 0) /\ xfer'.busy
                   /\ state' = (IF state = 7 /\ ~wide THEN 9 ELSE state + 1)
        /\ (wide' <=> wide) /\ addr1' = addr1 /\ addr2' = addr2 /\ addr3' = addr3
<1>1. Going(done) /\ state \in 6..12 /\ ~jumps /\ Runs(done) /\ (wide' <=> wide)
  BY ReadsIs, GoingIs
<1>2. xfer.tag = 0 /\ state \in 6..9 /\ state \in 6..11 /\ ~rd_inc /\ ~Late4 /\ req' = req
  <2>1. /\ ~rd_inc => req' = req
        /\ Leading => ~rd_inc /\ ~Late4 /\ xfer.tag = 0
    BY <1>1, ReadRequest
  <2> QED BY <1>1, <2>1 DEF Leading
<1>3. started = req.addr /\ current = req.addr
  BY <1>2 DEF started, current
<1>4. Turned(done)
  BY <1>1, <1>2, RunTurn
<1>5. ~done => state' = state /\ xfer'.tag = xfer.tag
  BY <1>4, Zenon DEF Turned
<1>6. done => state' = After /\ xfer'.tag = OfferedTag
  BY <1>4, Zenon DEF Turned
<1>7. xfer'.busy
  BY <1>4 DEF Turned
<1>8. ~done => flash' = flash
  BY <1>1, ReadingMoves
<1>9. ~done => Leading'
  BY <1>2, <1>5 DEF Leading
<1>10. OfferedTag = (IF state = 9 THEN 1 ELSE 0)
  BY <1>2 DEF OfferedTag
<1>11. After = (IF state = 7 /\ ~wide THEN 9 ELSE state + 1)
  BY <1>2 DEF After, wide
<1>12. addr1' = addr1 /\ addr2' = addr2 /\ addr3' = addr3
  BY <1>2 DEF addr1, addr2, addr3
<1> QED BY ONLY <1>1, <1>2, <1>3, <1>5, <1>6, <1>7, <1>8, <1>9, <1>10, <1>11, <1>12, Zenon

(* The address has come: the flash holds the first byte of the first word.    *)
LEMMA BytesStart ==
  ASSUME NEW done, Reads(done), Leading PROVE BytesCome'
<1>1. Going(done) /\ state \in 6..12 /\ ~jumps
  BY ReadsIs
<1>2. /\ req' = req /\ xfer.tag = 0 /\ state \in 6..9 /\ current = req.addr
      /\ ~done => Leading'
      /\ done => /\ xfer'.tag = (IF state = 9 THEN 1 ELSE 0) /\ xfer'.busy
                 /\ state' = (IF state = 7 /\ ~wide THEN 9 ELSE state + 1)
  BY LeadingMoves
<1>3. CASE state = 9 /\ done
  <2>1. done /\ state = 9
    BY <1>3
  <2>2. state' = 10 /\ xfer'.tag = 1 /\ xfer'.busy
    <3>1. /\ xfer'.tag = (IF state = 9 THEN 1 ELSE 0) /\ xfer'.busy
          /\ state' = (IF state = 7 /\ ~wide THEN 9 ELSE state + 1)
      BY ONLY <1>2, <2>1, Zenon
    <3> QED BY ONLY <2>1, <3>1
  <2>3. Turn' = 1
    BY <2>2 DEF Turn
  <2>4. current' = current
    <3>1. ~(done /\ xfer.tag = 4) => current' = current
      <4>1. state \in 9..12
        BY <1>3
      <4> QED BY <1>1, <4>1, CurrentIs, Zenon
    <3>2. xfer.tag # 4
      BY ONLY <1>2
    <3> QED BY ONLY <3>1, <3>2, Zenon
  <2>5. PICK a : a = req.addr
    OBVIOUS
  <2>6. a \in 0..(Space - 1) /\ AddrOf(flash, xfer.data) = NextAddress(a) /\ flash.bytecount >= Leads
    BY <2>1, <2>5, AddressHas
  <2>7. Traced(done, flash')
    BY <1>1, ReadingMoves
  <2>8. \A b \in 0..(Space - 1) : flash.bytecount >= Leads /\ AddrOf(flash, xfer.data) = NextAddress(b) =>
              flash'.out = b /\ flash'.spi_addr = NextAddress(Wrap(b + 1))
    BY <1>1, <2>1, <2>7, ReadingByte
  <2>9. flash'.out = a /\ flash'.spi_addr = NextAddress(Wrap(a + 1))
    BY <2>6, <2>8
  <2>10. a \in Int /\ a + 1 - 1 = a /\ Wrap(a) = a
    BY <2>6, SpaceType, WrapSmall
  <2>11. /\ flash'.out = Wrap(current' + Turn' - 1)
         /\ flash'.spi_addr = NextAddress(Wrap(current' + Turn'))
         /\ \A k \in 1..3 : k < Turn' => Come(k)' = Wrap(current' + k - 1)
    BY <1>2, <2>3, <2>4, <2>5, <2>9, <2>10
  <2> QED BY <2>11 DEF BytesCome, Wrap, NextAddress
<1>4. CASE state # 9 /\ done
  <2>1. done /\ state # 9
    BY <1>4
  <2>2. /\ xfer'.tag = (IF state = 9 THEN 1 ELSE 0)
        /\ state' = (IF state = 7 /\ ~wide THEN 9 ELSE state + 1)
    BY ONLY <1>2, <2>1, Zenon
  <2>3. state' \in 6..9 /\ xfer'.tag = 0
    BY ONLY <1>2, <2>1, <2>2
  <2>4. Leading'
    BY <2>3 DEF Leading
  <2> QED BY <2>4 DEF BytesCome
<1>5. CASE ~done
  <2>1. Leading'
    BY ONLY <1>2, <1>5, Zenon
  <2> QED BY <2>1 DEF BytesCome
<1> QED BY <1>3, <1>4, <1>5

LEMMA BytesComeNext ==
  ASSUME NEW done, Reads(done) PROVE BytesCome'
<1>1. CASE Leading
  BY <1>1, BytesStart
<1>2. CASE ~Leading /\ ~done
  BY <1>2, BytesWait
<1>3. CASE ~Leading /\ done /\ xfer.tag = 4
  <2>1. ~Leading /\ done
    BY <1>3
  <2> QED BY <1>3, <2>1, BytesTurn
<1>4. CASE ~Leading /\ done /\ xfer.tag # 4
  <2>1. ~Leading /\ done
    BY <1>4
  <2> QED BY <1>4, <2>1, BytesMoveOn
<1> QED BY <1>1, <1>2, <1>3, <1>4

(* The bytes of the address, as the flash takes them.                         *)
LEMMA AddressByteIs ==
  ASSUME NEW done, Reads(done), state \in 6..8, done
  PROVE flash'.spi_addr = [flash.spi_addr EXCEPT ![state - 5] = xfer.data] /\ flash.spi_addr \in [1..3 -> Int]
<1>1. Going(done) /\ state \in 6..12
  BY ReadsIs
<1>2. flash \in FlashSet /\ flash.bytecount = state - 5 /\ (state = 8 => wide)
  <2>1. ReadyOk /\ RunningOk /\ ~softreset /\ Leading
    BY <1>1, GoingFacts DEF Leading
  <2>2. flash \in FlashSet
    BY <1>1, ReadFacts
  <2>3. state >= 6 /\ state # 9
    OBVIOUS
  <2>4. flash.bytecount = state - 5
    <3>1. Leading => flash.bytecount = (IF state = 9 THEN IF wide THEN 4 ELSE 3 ELSE state - 5)
      BY <2>1, <2>3 DEF ReadyOk
    <3> QED BY <2>1, <2>3, <3>1
  <2>5. state = 8 => wide
    BY <2>1, <2>3 DEF RunningOk
  <2> QED BY <2>2, <2>4, <2>5
<1>3. flash.bytecount \in 1..3 /\ ~(flash.bytecount >= Leads)
  BY <1>2 DEF Leads
<1>4. Traced(done, flash')
  BY <1>1, ReadingMoves
<1>5. ~(flash.bytecount >= Leads) => flash'.spi_addr = AddrOf(flash, xfer.data)
  BY <1>1, <1>4, ReadingByte
<1>6. AddrOf(flash, xfer.data) = [flash.spi_addr EXCEPT ![state - 5] = xfer.data]
  BY <1>2, <1>3 DEF AddrOf
<1>7. flash.spi_addr \in [1..3 -> Int]
  BY <1>2 DEF FlashSet, AddressSet
<1> QED BY <1>3, <1>5, <1>6, <1>7

LEMMA AddressTaken ==
  ASSUME NEW done, Reads(done), state \in 6..8, done PROVE AddressComes'
<1>1. Going(done) /\ state \in 6..12 /\ Leading
  BY ReadsIs DEF Leading
<1>2. /\ state' = (IF state = 7 /\ ~wide THEN 9 ELSE state + 1)
      /\ (wide' <=> wide) /\ addr1' = addr1 /\ addr2' = addr2 /\ addr3' = addr3
  BY <1>1, LeadingMoves, Zenon
<1>3. /\ state = 6 => xfer.data = addr1
      /\ state = 7 => xfer.data = addr2
      /\ state = 8 => xfer.data = addr3 /\ wide
  <2>1. RunningOk /\ ~softreset
    BY <1>1, GoingFacts
  <2> QED BY <1>1, <2>1 DEF RunningOk
<1>4. /\ state = 7 => flash.spi_addr[1] = addr1
      /\ state = 8 => flash.spi_addr[1] = addr1 /\ flash.spi_addr[2] = addr2
  BY DEF Reads, DataOk, AddressComes
<1>5. PICK s, t : s = flash.spi_addr /\ t = flash'.spi_addr
  OBVIOUS
<1>6. t = [s EXCEPT ![state - 5] = xfer.data] /\ s \in [1..3 -> Int]
  BY <1>5, AddressByteIs
<1>7. CASE state = 6
  <2>1. state' = 7 /\ t[1] = addr1
    BY <1>2, <1>3, <1>6, <1>7
  <2> QED BY <1>2, <1>5, <2>1 DEF AddressComes
<1>8. CASE state = 7
  <2>1. state' \in {8, 9} /\ (wide => state' = 8) /\ t[1] = addr1 /\ t[2] = addr2
    BY <1>2, <1>3, <1>4, <1>5, <1>6, <1>8
  <2> QED BY <1>2, <1>5, <2>1 DEF AddressComes
<1>9. CASE state = 8
  <2>1. state' = 9 /\ t[1] = addr1 /\ t[2] = addr2 /\ t[3] = addr3
    BY <1>2, <1>3, <1>4, <1>5, <1>6, <1>9
  <2> QED BY <1>2, <1>5, <2>1 DEF AddressComes
<1> QED BY <1>7, <1>8, <1>9

LEMMA AddressComesNext ==
  ASSUME NEW done, Reads(done) PROVE AddressComes'
<1>1. Going(done) /\ state \in 6..12 /\ ~jumps /\ AddressComes
  BY ReadsIs
<1>2. CASE state \in 6..8 /\ done
  BY <1>2, AddressTaken
<1>3. CASE Leading /\ ~done
  <2>1. /\ state' = state /\ xfer'.tag = xfer.tag /\ flash' = flash
        /\ (wide' <=> wide) /\ addr1' = addr1 /\ addr2' = addr2 /\ addr3' = addr3
    <3>1. Leading /\ ~done
      BY <1>3
    <3>2. /\ ~done => state' = state /\ xfer'.tag = xfer.tag /\ flash' = flash
          /\ (wide' <=> wide) /\ addr1' = addr1 /\ addr2' = addr2 /\ addr3' = addr3
      BY <3>1, LeadingMoves
    <3> QED BY ONLY <3>1, <3>2, Zenon
  <2>2. /\ state = 7 => flash.spi_addr[1] = addr1
        /\ state = 8 \/ (state = 9 /\ xfer.tag = 0) => flash.spi_addr[1] = addr1 /\ flash.spi_addr[2] = addr2
        /\ state = 9 /\ xfer.tag = 0 /\ wide => flash.spi_addr[3] = addr3
    BY <1>1 DEF AddressComes
  <2> QED BY <2>1, <2>2 DEF AddressComes
<1>4. CASE state = 9 /\ Leading /\ done
  <2>1. /\ state' = (IF state = 7 /\ ~wide THEN 9 ELSE state + 1)
        /\ state = 9
    BY <1>4, LeadingMoves, Zenon
  <2>2. state' = 10
    BY ONLY <2>1
  <2> QED BY <2>2 DEF AddressComes
<1>5. CASE ~Leading
  <2>1. ~Leading'
    BY <1>5, TurnIs
  <2> QED BY <2>1 DEF AddressComes, Leading
<1>6. Leading => state \in 6..9
  BY DEF Leading
<1> QED BY <1>2, <1>3, <1>4, <1>5, <1>6

LEMMA ReadsNext ==
  ASSUME NEW done, Reads(done) PROVE WordTypesOk' /\ DataOk'
<1>1. WordTypesOk'
  BY ReadsIs, WordTypes DEF WordTypesOk
<1> QED BY <1>1, HeldWordNext, AddressComesNext, BytesComeNext, LateComesNext DEF DataOk

LEMMA WrittenWordTypes ==
  ASSUME NEW done, Steps(done), WordTypesOk, Held \/ Words(Pending, req.addr, done) PROVE WordTypesOk'
<1>1. CASE Held
  <2>1. buffer' = Unread(3) /\ rdata' = Unread(4)
    BY <1>1, HeldFields
  <2>2. Junk \in Int
    BY JunkIs
  <2>3. Unread(3) \in [1..3 -> Int] /\ Unread(4) \in [1..4 -> Int]
    BY <2>2 DEF Unread
  <2> QED BY <2>1, <2>3 DEF WordTypesOk
<1>2. CASE Words(Pending, req.addr, done)
  <2>1. dout_data \in Int
    <3>1. ReadByte \in Int /\ xfer.ibuffer \in Int
      BY StepFacts, ReadByteType DEF XferSet
    <3> QED BY <3>1 DEF dout_data
  <2>2. /\ buffer' = [k \in 1..3 |-> IF dout_valid(done) /\ xfer.tag_q = k THEN dout_data ELSE buffer[k]]
        /\ rdata' = rdata \/ rdata' = Append(buffer, dout_data)
    BY <1>2 DEF Words
  <2>3. buffer \in [1..3 -> Int] /\ rdata \in [1..4 -> Int]
    BY DEF WordTypesOk
  <2>4. buffer' \in [1..3 -> Int]
    BY <2>1, <2>2, <2>3
  <2>5. Append(buffer, dout_data) \in [1..4 -> Int]
    BY <2>1, <2>3, AppendWord
  <2> QED BY <2>2, <2>3, <2>4, <2>5 DEF WordTypesOk
<1> QED BY <1>1, <1>2

(* A write of the register, or a reset, ends all reading.                     *)
LEMMA DataReset ==
  ASSUME NEW done, Steps(done), DataInv, softreset \/ req.kind = "config" PROVE DataInv'
<1>1. Held \/ Words(Pending, req.addr, done)
  BY StepFacts DEF ClockEdge, Edge, spimem_valid, Pending
<1>2. WordTypesOk'
  BY <1>1, WrittenWordTypes DEF DataInv
<1>3. CASE softreset
  <2>1. Held
    BY <1>3, StepFacts DEF ClockEdge, Edge
  <2>2. state' = 0
    BY <2>1, HeldFields
  <2> QED BY <1>2, <2>2 DEF DataInv
<1>4. CASE req.kind = "config"
  <2>1. softreset' = TRUE
    BY <1>4, StepFacts, BusEdge DEF Steps
  <2> QED BY <1>2, <2>1 DEF DataInv
<1> QED BY <1>3, <1>4

(* The first byte of an address is sent: no word has come yet.                *)
LEMMA DataBegins ==
  ASSUME NEW done, Going(done), state' = 6 PROVE DataOk'
<1>1. RunningOk' /\ ~softreset'
  BY GoingFacts
<1>2. Leading'
  BY DEF Leading
<1>3. ~rd_valid' /\ ~Late4'
  <2>1. state' >= 6
    OBVIOUS
  <2>2. (rd_valid' <=> rd_inc') /\ first'
    BY <1>1, <1>2, <2>1 DEF RunningOk
  <2> QED BY <2>2 DEF first
<1>4. HeldWord'
  BY <1>3 DEF HeldWord
<1>5. AddressComes'
  BY DEF AddressComes
<1>6. BytesCome'
  BY <1>2 DEF BytesCome
<1>7. LateComes'
  BY <1>3 DEF LateComes
<1> QED BY <1>4, <1>5, <1>6, <1>7 DEF DataOk

LEMMA EarlyStates ==
  ASSUME NEW done, Going(done), state \notin 6..12 PROVE state' \in 0..6
<1>1. state \in 0..12
  BY GoingFacts DEF TypesOk
<1>2. CASE state \in {0, 2, 4}
  BY <1>2, EarlyMoves
<1>3. CASE state \in {1, 3}
  <2>1. TypesOk /\ Sequence(Pending, req.addr, done)
    BY GoingFacts
  <2>2. ~rd_valid
    BY <1>3, GoingIs, StepFacts DEF RestartOk, Going
  <2>3. ~jump(Pending, req.addr)
    BY <2>2 DEF jump
  <2>4. state' = (IF state \in {1, 3} /\ dout_valid(done) THEN state + 1 ELSE state)
    BY <1>3, <2>1, <2>3, SeqWait
  <2> QED BY <1>3, <2>4
<1>4. CASE state = 5
  BY <1>4, AddressMoves
<1> QED BY <1>1, <1>2, <1>3, <1>4

(* Every step keeps what is known of the words.                               *)
LEMMA DataNext ==
  ASSUME NEW done, Steps(done), DataInv PROVE DataInv'
<1>1. CASE softreset \/ req.kind = "config"
  BY <1>1, DataReset
<1>2. CASE ~softreset /\ req.kind # "config"
  <2>1. Going(done) /\ ~softreset'
    <3>1. Going(done)
      BY <1>2 DEF Going
    <3> QED BY <3>1, GoingFacts
  <2>2. WordTypesOk'
    BY <2>1, WordTypes DEF DataInv, WordTypesOk
  <2>3. CASE state \in 6..12 /\ ~jumps
    <3>1. DataOk
      BY <1>2, <2>3 DEF DataInv
    <3>2. Reads(done)
      BY <2>1, <2>3, <3>1 DEF DataInv, Reads
    <3> QED BY <3>2, ReadsNext DEF DataInv
  <2>4. CASE state \in 6..12 /\ jumps
    <3>1. state' = (IF config.cont THEN 5 ELSE 4)
      BY <2>1, <2>4, ReadingMoves
    <3>2. ~(state' >= 6)
      BY <3>1
    <3> QED BY <2>2, <3>2 DEF DataInv
  <2>5. CASE state \notin 6..12
    <3>1. state' \in 0..6
      BY <2>1, <2>5, EarlyStates
    <3>2. CASE state' = 6
      <4>1. DataOk'
        BY <2>1, <3>2, DataBegins
      <4> QED BY <2>2, <4>1 DEF DataInv
    <3>3. CASE state' \in 0..5
      <4>1. ~(state' >= 6)
        BY <3>3
      <4> QED BY <2>2, <4>1 DEF DataInv
    <3> QED BY <3>1, <3>2, <3>3
  <2> QED BY <2>3, <2>4, <2>5
<1> QED BY <1>1, <1>2

LEMMA DataStutters == ASSUME DataInv, UNCHANGED vars PROVE DataInv'
<1>1. /\ config' = config /\ softreset' = softreset /\ state' = state
      /\ xfer' = xfer /\ rd_addr' = rd_addr /\ rd_valid' = rd_valid /\ rd_inc' = rd_inc
      /\ buffer' = buffer /\ rdata' = rdata /\ flash' = flash /\ req' = req
  BY DEF vars, memio
<1>2. /\ ConfiguredLanes' = ConfiguredLanes /\ addr1' = addr1 /\ addr2' = addr2 /\ addr3' = addr3
      /\ (Leading' <=> Leading) /\ (Late' <=> Late) /\ started' = started /\ Turn' = Turn
  BY <1>1 DEF ConfiguredLanes, addr1, addr2, addr3, Leading, Late, started, Turn, Wrap
<1>3. (wide' <=> wide) /\ (Late4' <=> Late4) /\ \A k \in 1..3 : Come(k)' = Come(k)
  BY <1>1, <1>2 DEF wide, Late4, Come
<1>4. current' = current
  BY <1>2, <1>3 DEF current, Wrap
<1>5. WordTypesOk' <=> WordTypesOk
  BY <1>1 DEF WordTypesOk
<1>6. HeldWord' <=> HeldWord
  BY <1>1 DEF HeldWord, Word, Wrap
<1>7. AddressComes' <=> AddressComes
  BY <1>1, <1>2, <1>3 DEF AddressComes
<1>8. BytesCome' <=> BytesCome
  BY <1>1, <1>2, <1>3, <1>4 DEF BytesCome, Wrap, NextAddress
<1>9. LateComes' <=> LateComes
  BY <1>1, <1>2, <1>3 DEF LateComes, Wrap
<1> QED BY <1>1, <1>5, <1>6, <1>7, <1>8, <1>9 DEF DataInv, DataOk

LEMMA DataInit == ASSUME Init PROVE DataInv
<1>1. buffer = Unread(3) /\ rdata = Unread(4) /\ softreset
  BY DEF Init, Reset
<1>2. Junk \in Int
  BY JunkIs
<1> QED BY <1>1, <1>2 DEF DataInv, WordTypesOk, Unread

(* The flash, its controller and the firmware of both boards, in every        *)
(* reachable state, until the flash is lost.                                  *)
THEOREM SocInvariant == Spec => [](lost \/ Inv)
<1>1. Init => Inv
  BY ProgramInit, ControlInit, FlashInit, DataInit DEF Inv
<1>2. (lost \/ Inv) /\ [Next]_vars => (lost \/ Inv)'
  <2>1. SUFFICES ASSUME lost \/ Inv, [Next]_vars, ~lost' PROVE Inv'
    OBVIOUS
  <2>2. Inv => StepInv /\ DataInv
    BY DEF Inv, StepInv
  <2>3. CASE UNCHANGED vars
    <3>1. ~lost
      BY <2>1, <2>3 DEF vars
    <3>2. StepInv' /\ DataInv'
      BY <2>1, <2>2, <2>3, <3>1, StepInvStutters, DataStutters
    <3> QED BY <3>2 DEF Inv, StepInv
  <2>4. ASSUME NEW done \in BOOLEAN, ClockEdge(done) PROVE Inv'
    <3>0. ~lost /\ ~Losing
      BY <2>1, <2>4, LostStays
    <3>1. StepInv /\ DataInv /\ Steps(done)
      BY <2>1, <2>2, <2>4, <3>0, StepsNext
    <3>2. ProgramInv' /\ ControlInv' /\ FlashInv' /\ DataInv'
      BY <3>1, FlashNext, DataNext DEF Steps
    <3> QED BY <3>2 DEF Inv
  <2> QED BY <2>1, <2>3, <2>4 DEF Next
<1> QED BY <1>1, <1>2, PTL DEF Spec

(* FetchesRightUntilLost of SocFlash: until the flash is lost a word the core *)
(* is given is the word of the flash at the address it asked for, in every    *)
(* mode and whatever the controller read ahead.                               *)
THEOREM FetchesAreRight == Spec => []FetchesRightUntilLost
<1>1. Inv => FetchesRight
  <2>1. SUFFICES ASSUME Inv, spimem_ready PROVE rdata = [k \in 1..4 |-> (req.addr + k - 1) % Space]
    BY DEF FetchesRight
  <2>2. req.kind = "flash" /\ req.addr = rd_addr /\ rd_valid
    BY <2>1 DEF spimem_ready, spimem_valid, ready
  <2>3. TypesOk /\ ResetOk /\ RestartOk /\ CommandOk /\ DataInv
    BY <2>1 DEF Inv, ControlInv
  <2>4. ~softreset
    BY <2>2, <2>3 DEF ResetOk
  <2>5. state \in 0..12 /\ ~(state <= 3) /\ ~(state \in {4, 5})
    BY <2>2, <2>3, <2>4 DEF TypesOk, RestartOk, CommandOk
  <2>6. state >= 6
    BY <2>5
  <2>7. rdata = Word(rd_addr)
    BY <2>2, <2>3, <2>4, <2>6 DEF DataInv, DataOk, HeldWord
  <2> QED BY <2>2, <2>7 DEF Word, Wrap
<1>2. lost \/ Inv => FetchesRightUntilLost
  BY <1>1 DEF FetchesRightUntilLost
<1> QED BY <1>2, SocInvariant, PTL

-----------------------------------------------------------------------------
(* The bus.                                                                  *)
LEMMA InitAnswers == Init => OneSlaveAnswers
BY DEF Init, Reset, OneSlaveAnswers, spimem_ready, ready

(* A request the RAM is about to answer is not answered by another slave in   *)
(* this cycle, so the core still makes it in the next.                       *)
LEMMA StepAnswers == OneSlaveAnswers /\ [Next]_vars => OneSlaveAnswers'
<1> SUFFICES ASSUME OneSlaveAnswers, [Next]_vars PROVE OneSlaveAnswers'
  OBVIOUS
<1>1. (spimem_ready => req.kind = "flash")'
  BY DEF spimem_ready, spimem_valid, ready
<1>2. CASE \E done \in BOOLEAN : ClockEdge(done)
  <2>1. RamEdge /\ Core
    BY <1>2 DEF ClockEdge
  <2>2. ram_ready' => req.kind = "ram" /\ ~mem_ready
    BY <2>1 DEF RamEdge
  <2>3. ram_ready' => req' = req
    BY <2>1, <2>2 DEF Core
  <2>4. (ram_ready => req.kind = "ram")'
    BY <2>2, <2>3
  <2>5. QED BY <1>1, <2>4 DEF OneSlaveAnswers
<1>3. CASE UNCHANGED vars
  <2>1. (ram_ready => req.kind = "ram")'
    BY <1>3 DEF vars, OneSlaveAnswers
  <2>2. QED BY <1>1, <2>1 DEF OneSlaveAnswers
<1>4. QED BY <1>2, <1>3 DEF Next

(* A slave answers only the request that is made of it, although the RAM      *)
(* answers a cycle late and three answers are joined on one wire.            *)
THEOREM AnswersOwnRequest == Spec => []OneSlaveAnswers
BY InitAnswers, StepAnswers, PTL DEF Spec
=============================================================================
