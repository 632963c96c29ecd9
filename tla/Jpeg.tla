-------------------------------- MODULE Jpeg --------------------------------
(***************************************************************************)
(* lib/jpeg/decode-jpg.c, the decoder of the backdrop, and                 *)
(* BootVideoJpegUnpackAsRgb(), which calls it.  Files are sequences of     *)
(* bytes with zeros behind them; positions in a file count from 0.         *)
(*                                                                         *)
(* The static tables and datap are a record:                               *)
(*   at           datap                                                    *)
(*   quant, huff  the quantization and the Huffman tables                  *)
(*   dri          the restart interval                                     *)
(*   ok           did readtables() return 0?                               *)
(***************************************************************************)
EXTENDS Integers, Sequences, SequencesExt, FiniteSets, FiniteSetsExt, TLC

getbyte(b, i) == IF i < Len(b) THEN b[i + 1] ELSE 0
getword(b, i) == 256 * getbyte(b, i) + getbyte(b, i + 1)
Slice(b, i, n) == [k \in 1..n |-> getbyte(b, i + k - 1)]
SumOf(s) == FoldLeft(+, 0, s)

\* A number of n bits, as bits, and back
BitsOf(x, n) == [i \in 1..n |-> (x \div 2^(n - i)) % 2]
ByteBits == [x \in 0..255 |-> BitsOf(x, 8)]
NumberOf(bits) == FoldLeft(LAMBDA x, y : 2 * x + y, 0, bits)

M_SOF0 == 192
M_SOF2 == 194
M_DHT == 196
M_RST0 == 208
M_SOI == 216
M_EOI == 217
M_SOS == 218
M_DQT == 219
M_DRI == 221
DECBITS == 10
MAXCOMP == 4

------------------------------------------------------------------------------
(* Huffman tables.  Sizes count from 0: codes of size i have i + 1 bits.   *)

\* dec_makehuff(): the first code and the first value of each size, and the
\* code behind the last one.  hufflen has 16 entries.
dec_makehuff(hufflen, huffvals) ==
    LET first[i \in 0..15] == IF i = 0 THEN 0 ELSE 2 * (first[i - 1] + hufflen[i])
        valptr[i \in 0..15] == IF i = 0 THEN 0 ELSE valptr[i - 1] + hufflen[i]
    IN [first |-> first, valptr |-> valptr, vals |-> huffvals,
        maxcode |-> [i \in 0..16 |-> IF i = 16 THEN 131072 ELSE first[i] + hufflen[i + 1]]]
NoTable == dec_makehuff([i \in 1..16 |-> 0], << >>)
Size(val) == val % 16
Run(val) == val \div 16
ValueAt(hu, i, c) == hu.vals[hu.valptr[i] + c - hu.first[i] + 1]

\* A number of v bits that were received: the lower half stands for the
\* negative ones.
Extended(x, v) == IF v > 0 /\ x < 2^(v - 1) THEN x - 2^v + 1 ELSE x

\* llvals[]: what the next DECBITS bits r say.  A code of size i is at their
\* beginning, with the bits of its value when these fit as well; "u" are the
\* bits to be put back.
NoEntry == [kind |-> "none"]
Both(r, i, val) ==
    [kind |-> "value", run |-> Run(val), u |-> DECBITS - (i + 1 + Size(val)),
     val |-> Extended((r % 2^(DECBITS - 1 - i)) \div 2^(DECBITS - 1 - i - Size(val)), Size(val))]
CodeOnly(i, val) == [kind |-> "size", run |-> Run(val), u |-> DECBITS - (i + 1), size |-> Size(val)]
EntryOf(r, i, val) == IF Size(val) + i < DECBITS THEN Both(r, i, val) ELSE CodeOnly(i, val)
Begins(hu, r) ==
    {i \in 0..DECBITS - 1 : r \div 2^(DECBITS - 1 - i) \in hu.first[i]..hu.maxcode[i] - 1}
EntryAt(hu, r, is) ==
    IF is = {} THEN NoEntry
    ELSE LET i == CHOOSE i \in is : \A j \in is : j <= i
         IN EntryOf(r, i, ValueAt(hu, i, r \div 2^(DECBITS - 1 - i)))
llvals(hu, r) == EntryAt(hu, r, Begins(hu, r))

------------------------------------------------------------------------------
(* The segments in front of the picture *)

Refused(s) == [s EXCEPT !.ok = FALSE]

\* M_DQT: tables of 64 bytes, as long as the segment says
RECURSIVE ReadQuant(_, _, _)
ReadQuant(b, s, lq) ==
    IF lq <= 2 THEN s
    ELSE IF getbyte(b, s.at) > 3 THEN [Refused(s) EXCEPT !.at = @ + 1]
    ELSE ReadQuant(b, [s EXCEPT !.quant[getbyte(b, s.at)] = Slice(b, s.at + 1, 64), !.at = @ + 65], lq - 65)

\* M_DHT: 16 numbers of codes and the values; the class of a table is in the
\* upper half of its first byte.
HuffIndex(id) == (id \div 16) * 2 + (id % 16)
RECURSIVE ReadHuff(_, _, _)
HuffRead(b, s, l, hufflen) ==
    ReadHuff(b, [s EXCEPT !.huff[HuffIndex(getbyte(b, s.at))] =
                              dec_makehuff(hufflen, Slice(b, s.at + 17, SumOf(hufflen))),
                          !.at = @ + 17 + SumOf(hufflen)], l - 17 - SumOf(hufflen))
ReadHuff(b, s, l) ==
    IF l <= 2 THEN s
    ELSE IF getbyte(b, s.at) \div 16 > 1 \/ getbyte(b, s.at) % 16 > 1
    THEN [Refused(s) EXCEPT !.at = @ + 1]
    ELSE HuffRead(b, s, l, Slice(b, s.at + 1, 16))

\* The segment of marker m, from its length on.  A length below 2 skips
\* nothing.
Segment(b, m, s) ==
    CASE m = M_DQT -> ReadQuant(b, [s EXCEPT !.at = @ + 2], getword(b, s.at))
      [] m = M_DHT -> ReadHuff(b, [s EXCEPT !.at = @ + 2], getword(b, s.at))
      [] m = M_DRI -> [s EXCEPT !.dri = getword(b, s.at + 2), !.at = @ + 4]
      [] OTHER -> [s EXCEPT !.at = @ + (IF getword(b, s.at) > 2 THEN getword(b, s.at) ELSE 2)]

\* Up to marker till.  A progressive picture (0xc2) ends the search, too.
RECURSIVE readtables(_, _, _)
readtables(b, s, till) ==
    IF ~s.ok THEN s
    ELSE IF getbyte(b, s.at) # 255 THEN [Refused(s) EXCEPT !.at = @ + 1]
    ELSE IF getbyte(b, s.at + 1) \in {till, M_SOF2} THEN [s EXCEPT !.at = @ + 2]
    ELSE readtables(b, Segment(b, getbyte(b, s.at + 1), [s EXCEPT !.at = @ + 2]), till)

Statics == [at |-> 0, quant |-> [i \in 0..3 |-> [k \in 1..64 |-> 0]], huff |-> [i \in 0..3 |-> NoTable],
            dri |-> 0, ok |-> TRUE]

\* jpeg_get_size() takes the size from behind the first frame marker, or from
\* where the search failed.
SizeAt(b, s) ==
    [height |-> getword(b, s.at + 3), width |-> getword(b, s.at + 5), depth |-> 8 * getbyte(b, s.at + 7), s |-> s]
jpeg_get_size(b) == SizeAt(b, readtables(b, [Statics EXCEPT !.at = 2], M_SOF0))

------------------------------------------------------------------------------
(* Bits of the scan.  "in" is the record in: the position p, the bits that *)
(* are left and the marker that was met, 0 for none.                       *)

setinput(at) == [p |-> at, bits |-> << >>, marker |-> 0]

\* Behind a marker there are only zeros.
Padded(in) == IF Len(in.bits) <= 16 THEN [in EXCEPT !.bits = @ \o [i \in 1..16 |-> 0]] ELSE in
RECURSIVE FillFrom(_, _)
FillFrom(b, in) ==
    IF Len(in.bits) > 24 THEN in
    ELSE IF getbyte(b, in.p) = 255 /\ getbyte(b, in.p + 1) # 0
    THEN Padded([in EXCEPT !.marker = getbyte(b, in.p + 1), !.p = @ + 2])
    ELSE FillFrom(b, [in EXCEPT !.bits = @ \o ByteBits[getbyte(b, in.p)],
                                !.p = @ + (IF getbyte(b, in.p) = 255 THEN 2 ELSE 1)])
fillbits(b, in) == IF in.marker # 0 THEN Padded(in) ELSE FillFrom(b, in)

\* GETBITS() in its two halves: have n bits, and take them
Have(b, in, n) == IF Len(in.bits) < n THEN fillbits(b, in) ELSE in
Ahead(in, n) == NumberOf(SubSeq(in.bits, 1, n))
Dropped(in, n) == [in EXCEPT !.bits = SubSeq(@, n + 1, Len(@))]

\* dec_readmarker(): 0 where there is none
ReadMarker(in) == [m |-> in.marker, in |-> IF in.marker = 0 THEN in ELSE [in EXCEPT !.bits = << >>, !.marker = 0]]
dec_readmarker(b, in) == ReadMarker(fillbits(b, in))

\* The bits of a value whose size is known
Received(in, run, size) ==
    [run |-> run, val |-> Extended(Ahead(in, size), size), in |-> Dropped(in, size), bad |-> FALSE]
\* A code longer than DECBITS: one more bit until it is below maxcode.  With
\* none below, the caller's run is wild.
RECURSIVE LongCode(_, _, _, _, _)
LongBit(b, in, hu, i, c) ==
    IF c >= hu.maxcode[i] THEN LongCode(b, Dropped(in, 1), hu, i + 1, c)
    ELSE IF i >= 16 THEN [run |-> 0, val |-> 0, in |-> in, bad |-> TRUE]
    ELSE LET val == ValueAt(hu, i, c)
         IN Received(Have(b, Dropped(in, 1), Size(val)), Run(val), Size(val))
LongCode(b, in, hu, i, c) ==
    LET in2 == Have(b, in, 1) IN LongBit(b, in2, hu, i, 2 * c + in2.bits[1])

\* DEC_REC() and dec_rec2(): a run and a value
DecodedBy(b, in, hu, r, e) ==
    CASE e.kind = "value" -> [run |-> e.run, val |-> e.val, in |-> Dropped(in, DECBITS - e.u), bad |-> FALSE]
      [] e.kind = "size" -> Received(Have(b, Dropped(in, DECBITS - e.u), e.size), e.run, e.size)
      [] OTHER -> LongCode(b, Dropped(in, DECBITS), hu, DECBITS, r)
DecodedIn(b, in, hu) ==
    LET r == Ahead(in, DECBITS) IN DecodedBy(b, in, hu, r, llvals(hu, r))
DEC_REC(b, in, hu) == DecodedIn(b, Have(b, in, DECBITS), hu)

------------------------------------------------------------------------------
(* decode_mcus(): the coefficients of the six blocks of an MCU.  d is what *)
(* the loop changes: in, the memory dct with the position p, the last DC   *)
(* values, the list max, and whether a bad code made the run wild.  A run  *)
(* past the end of a block shifts the blocks that follow it.               *)

DctRoom == 0..6 * 64 + 6 * 16
Put(d, r) == [d EXCEPT !.in = r.in, !.dct[d.p + r.run] = r.val, !.p = @ + r.run + 1, !.wild = @ \/ r.bad]
Block(d, i) == [d EXCEPT !.max = Append(@, 64 - i)]
RECURSIVE Coefficients(_, _, _, _)
NextCoefficient(b, d, hu, i, r) ==
    IF r.bad THEN [d EXCEPT !.wild = TRUE]
    ELSE IF r.val = 0 /\ r.run = 0 THEN Block([d EXCEPT !.in = r.in, !.p = @ + i], i)
    ELSE Coefficients(b, Put(d, r), hu, i - r.run - 1)
Coefficients(b, d, hu, i) ==
    IF i <= 0 THEN Block(d, i) ELSE NextCoefficient(b, d, hu, i, DEC_REC(b, d.in, hu))

\* The DC value adds to the last one of the component (sc).
Differential(d, sc, r) ==
    [d EXCEPT !.in = r.in, !.dc[sc] = @ + r.val, !.dct[d.p] = d.dc[sc] + r.val, !.p = @ + 1, !.wild = @ \/ r.bad]
ScanOf == <<1, 1, 1, 1, 2, 3>>
RECURSIVE Blocks(_, _, _, _)
AfterDc(b, d, scans, n) ==
    Blocks(b, Coefficients(b, d, scans[ScanOf[n]].ac, 63), scans, n + 1)
Blocks(b, d, scans, n) ==
    IF n > 6 \/ d.wild THEN d
    ELSE AfterDc(b, Differential(d, ScanOf[n], DEC_REC(b, d.in, scans[ScanOf[n]].dc)), scans, n)
decode_mcus(b, in, dc, scans) ==
    Blocks(b, [in |-> in, dct |-> [i \in DctRoom |-> 0], p |-> 0, dc |-> dc, max |-> << >>, wild |-> FALSE], scans, 1)

------------------------------------------------------------------------------
(* The inverse cosine transform, in numbers with ISHIFT = 11 bits behind   *)
(* the point.                                                              *)

One == 2048
IMULT(a, b) == (a * b) \div One
ITOINT(a) == a \div One
S22 == 1567
C22 == 3784
IC4 == 2896
aaidct == <<724, 1004, 946, 851, 724, 569, 392, 200>>

zig == << 0,  1,  5,  6, 14, 15, 27, 28,   2,  4,  7, 13, 16, 26, 29, 42,
          3,  8, 12, 17, 25, 30, 41, 43,   9, 11, 18, 24, 31, 40, 44, 53,
         10, 19, 23, 32, 39, 45, 52, 54,  20, 22, 33, 38, 46, 51, 55, 60,
         21, 34, 37, 47, 50, 56, 59, 61,  35, 36, 48, 49, 57, 58, 62, 63>>
zig2 == << 0,  2,  3,  9, 10, 20, 21, 35,  14, 16, 25, 31, 39, 46, 50, 57,
           5,  7, 12, 18, 23, 33, 37, 48,  27, 29, 41, 44, 52, 55, 59, 62,
          15, 26, 30, 40, 45, 51, 56, 58,   1,  4,  8, 11, 19, 22, 34, 36,
          28, 42, 43, 53, 54, 60, 61, 63,   6, 13, 17, 24, 32, 38, 47, 49>>

\* Where zig has z: the row and the column of coefficient z
ZigPlace == [z \in 0..63 |-> CHOOSE k \in 0..63 : zig[k + 1] = z]
ZigScale == [z \in 0..63 |-> IMULT(aaidct[(ZigPlace[z] \div 8) + 1], aaidct[(ZigPlace[z] % 8) + 1])]
idctqtab(qin) == [z \in 0..63 |-> qin[z + 1] * ZigScale[z]]
scaleidctqtab(q, sc) == [z \in 0..63 |-> IMULT(q[z], sc)]
initcol(q) == <<q[1], scaleidctqtab(q[2], 3629), scaleidctqtab(q[3], 2871)>>

\* IDCT: the even and the odd half of eight numbers t[1] (t0) .. t[8] (t7)
EvenOf(a0, a1, a2, a3) == <<a0 + a3, a1 + a2, a1 - a2, a0 - a3>>
Even(t) == EvenOf(t[1] + t[2], t[1] - t[2], IMULT(t[3] - t[4], IC4) - (t[3] + t[4]), t[3] + t[4])
OddEnd(r4, r5, r6) == <<r4 - (r5 - r6), r5 - r6, r6>>
OddOf(a4, a6, b5, b7, t) ==
    OddEnd(IMULT(a4, C22 - S22) + t, IMULT(b5, IC4), IMULT(a6, C22 + S22) - t - b7) \o <<b7>>
Odd(t) ==
    OddOf(t[5] - t[8], t[6] - t[7], (t[6] + t[7]) - (t[5] + t[8]), (t[6] + t[7]) + (t[5] + t[8]),
          IMULT((t[5] - t[8]) + (t[6] - t[7]), S22))
Joined(e, o) ==
    <<e[1] + o[4], e[2] + o[3], e[3] + o[2], e[4] + o[1], e[4] - o[1], e[3] - o[2], e[2] - o[3], e[1] - o[4]>>
IDCT(t) == Joined(Even(t), Odd(t))

\* idct(): column i takes its coefficients, from position "at" on, in the
\* order t0 t5 t2 t7 t1 t4 t3 t6; the offset goes to the first one.
TakeOrder == <<1, 5, 3, 7, 6, 2, 8, 4>>
Column(dct, at, q, off, i) ==
    [k \in 1..8 |-> LET z == zig2[8 * i + TakeOrder[k]]
                    IN dct[at + z] * q[z] + (IF k = 1 /\ i = 0 THEN off ELSE 0)]
Rows(tmp) == [y \in 0..7 |-> IDCT([k \in 1..8 |-> tmp[k - 1][y + 1]])]
Full(dct, at, q, off) == Rows([i \in 0..7 |-> IDCT(Column(dct, at, q, off, i))])
Descaled(rows) == [k \in 0..63 |-> ITOINT(rows[k \div 8][(k % 8) + 1])]
idct(dct, at, q, off, max) ==
    IF max = 1 THEN [k \in 0..63 |-> ITOINT(off + dct[at] * q[0])]
    ELSE Descaled(Full(dct, at, q, off))

\* col221111(): four blocks of brightness, one of either colour
CLAMP(x) == IF x < 0 THEN 0 ELSE IF x > 255 THEN 255 ELSE x
Rgb(y, cb, cr) == <<CLAMP(y + cr), CLAMP(y - ((50 * cb + 130 * cr + 128) \div 256)), CLAMP(y + cb)>>
PIC221111(out, y, x) ==
    Rgb(out[2 * (y \div 8) + (x \div 8) + 1][8 * (y % 8) + (x % 8)],
        out[5][8 * (y \div 2) + (x \div 2)], out[6][8 * (y \div 2) + (x \div 2)])
col221111(out) == [y \in 0..15 |-> [x \in 0..15 |-> PIC221111(out, y, x)]]
QuantOf == <<1, 1, 1, 1, 2, 3>>
Transformed(d, dquant) ==
    [n \in 1..6 |-> idct(d.dct, 64 * (n - 1), dquant[QuantOf[n]], IF n <= 4 THEN 263168 ELSE 1024, d.max[n])]
Painted(d, dquant) == col221111(Transformed(d, dquant))

------------------------------------------------------------------------------
(* jpeg_decode(): the error, 0 for none, or "wild", and the MCUs painted.  *)

ERR_NO_SOI == 1
ERR_NOT_8BIT == 2
ERR_HEIGHT_MISMATCH == 3
ERR_WIDTH_MISMATCH == 4
ERR_TOO_MANY_COMPPS == 6
ERR_ILLEGAL_HV == 7
ERR_QUANT_TABLE_SELECTOR == 8
ERR_NOT_YCBCR_221111 == 9
ERR_UNKNOWN_CID_IN_SCAN == 10
ERR_NOT_SEQUENTIAL_DCT == 11
ERR_WRONG_MARKER == 12
ERR_NO_EOI == 13
ERR_BAD_TABLES == 14
ERR_DEPTH_MISMATCH == 15

Round16(n) == 16 * ((n + 15) \div 16)
Failed(err) == [err |-> err, mcus |-> << >>]

\* The next MCU, with the restart marker that is due in front of it.  nm
\* counts down to it.
Restarted(r, c) ==
    IF r.m # c.rm THEN [c EXCEPT !.err = ERR_WRONG_MARKER]
    ELSE [c EXCEPT !.in = r.in, !.nm = c.dri, !.rm = IF @ = M_RST0 + 7 THEN M_RST0 ELSE @ + 1,
                   !.dc = <<0, 0, 0>>]
dec_checkmarker(b, c) ==
    IF c.dri = 0 THEN c
    ELSE IF c.nm # 1 THEN [c EXCEPT !.nm = @ - 1]
    ELSE Restarted(dec_readmarker(b, c.in), c)
dec_initscans(s) ==
    [in |-> setinput(s.at), dri |-> s.dri, nm |-> s.dri + 1, rm |-> M_RST0, dc |-> <<0, 0, 0>>,
     err |-> 0, mcus |-> << >>]
AfterMcu(c, f, d) ==
    IF d.wild THEN [c EXCEPT !.err = "wild"]
    ELSE IF f.depth # 24 THEN [c EXCEPT !.err = ERR_DEPTH_MISMATCH]
    ELSE [c EXCEPT !.in = d.in, !.dc = d.dc, !.mcus = Append(@, Painted(d, f.dquant))]
RECURSIVE Mcus(_, _, _, _)
McuFrom(b, f, c, n) ==
    IF c.err # 0 THEN c ELSE Mcus(b, f, AfterMcu(c, f, decode_mcus(b, c.in, c.dc, f.scans)), n - 1)
Mcus(b, f, c, n) ==
    IF c.err # 0 THEN c
    ELSE IF n = 0
    THEN [c EXCEPT !.err = IF dec_readmarker(b, c.in).m = M_EOI THEN 0 ELSE ERR_NO_EOI]
    ELSE McuFrom(b, f, dec_checkmarker(b, c), n)

\* The frame and the scan header: components and their tables, in the order of
\* the code's checks.
CompAt(b, at, i) == [cid |-> getbyte(b, at + 3 * i), hv |-> getbyte(b, at + 3 * i + 1), tq |-> getbyte(b, at + 3 * i + 2)]
Comps(b, at, nc) == [i \in 1..nc |-> CompAt(b, at, i - 1)]
BadHv(c) == c.hv \div 16 > 3 \/ c.hv % 16 > 3
CompsError(cs) ==
    LET bad == {i \in DOMAIN cs : BadHv(cs[i]) \/ cs[i].tq > 3}
    IN IF bad = {} THEN 0
       ELSE IF BadHv(cs[CHOOSE i \in bad : \A j \in bad : i <= j]) THEN ERR_ILLEGAL_HV ELSE ERR_QUANT_TABLE_SELECTOR
ScanError(b, at, cs) ==
    LET sel(i) == getbyte(b, at + 2 * i - 1)
        badsel(i) == sel(i) \div 16 > 1 \/ sel(i) % 16 > 1
        unknown(i) == \A j \in DOMAIN cs : cs[j].cid # getbyte(b, at + 2 * i - 2)
        bad == {i \in 1..3 : badsel(i) \/ unknown(i)}
    IN IF bad = {} THEN 0
       ELSE IF badsel(CHOOSE i \in bad : \A j \in bad : i <= j) THEN ERR_QUANT_TABLE_SELECTOR
       ELSE ERR_UNKNOWN_CID_IN_SCAN
ScanAt(b, at, s, cs, i) ==
    LET cid == getbyte(b, at + 2 * i - 2)
        c == cs[CHOOSE j \in DOMAIN cs : cs[j].cid = cid /\ \A k \in 1..j - 1 : cs[k].cid # cid]
        sel == getbyte(b, at + 2 * i - 1)
    IN [cid |-> cid, hv |-> c.hv, tq |-> c.tq, dc |-> s.huff[sel \div 16], ac |-> s.huff[2 + (sel % 16)]]
\* Only the one layout is known: components 1, 2, 3, brightness at double size
Layout221111(scans) ==
    \A i \in 1..3 : scans[i].cid = i /\ scans[i].hv = IF i = 1 THEN 34 ELSE 17
Scanned(b, s, z, scans) ==
    IF Slice(b, s.at + 9, 3) # <<0, 63, 0>> THEN Failed(ERR_NOT_SEQUENTIAL_DCT)
    ELSE IF ~Layout221111(scans) THEN Failed(ERR_NOT_YCBCR_221111)
    ELSE Mcus(b, [scans |-> scans, depth |-> z.depth, dquant |-> initcol([i \in 1..3 |-> idctqtab(s.quant[scans[i].tq])])],
              dec_initscans([s EXCEPT !.at = @ + 12]), (Round16(z.width) \div 16) * (Round16(z.height) \div 16))
ScanHeader(b, s, z, cs) ==
    IF ~s.ok THEN Failed(ERR_BAD_TABLES)
    ELSE IF getbyte(b, s.at + 2) # 3 THEN Failed(ERR_NOT_YCBCR_221111)
    ELSE IF ScanError(b, s.at + 3, cs) # 0 THEN Failed(ScanError(b, s.at + 3, cs))
    ELSE Scanned(b, s, z, [i \in 1..3 |-> ScanAt(b, s.at + 3, s, cs, i)])
FrameComps(b, s, z, cs) ==
    IF CompsError(cs) # 0 THEN Failed(CompsError(cs))
    ELSE ScanHeader(b, readtables(b, [s EXCEPT !.at = @ + 8 + 3 * Len(cs)], M_SOS), z, cs)
FrameHeader(b, s, z) ==
    IF ~s.ok THEN Failed(ERR_BAD_TABLES)
    ELSE IF getbyte(b, s.at + 2) # 8 THEN Failed(ERR_NOT_8BIT)
    ELSE IF Round16(getword(b, s.at + 3)) # Round16(z.height) THEN Failed(ERR_HEIGHT_MISMATCH)
    ELSE IF Round16(getword(b, s.at + 5)) # Round16(z.width) THEN Failed(ERR_WIDTH_MISMATCH)
    ELSE IF getbyte(b, s.at + 7) > MAXCOMP THEN Failed(ERR_TOO_MANY_COMPPS)
    ELSE FrameComps(b, s, z, Comps(b, s.at + 8, getbyte(b, s.at + 7)))
\* z: the size and the static tables that jpeg_get_size() left
jpeg_decode(b, z) ==
    IF getbyte(b, 0) # 255 \/ getbyte(b, 1) # M_SOI THEN Failed(ERR_NO_SOI)
    ELSE FrameHeader(b, readtables(b, [z.s EXCEPT !.at = 2, !.ok = TRUE], M_SOF0), z)

\* BootVideoJpegUnpackAsRgb(): the bitmap is black where no MCU was painted.
\* The backdrop begins below the icons, which are on its first lines.
ICON_HEIGHT == 64
Unpacked(z, r) ==
    [width |-> Round16(z.width), height |-> Round16(z.height), bpp |-> z.depth \div 8, err |-> r.err,
     mcus |-> r.mcus, pBackdrop |-> Round16(z.width) * ICON_HEIGHT * (z.depth \div 8)]
UnpackSized(b, z) == Unpacked(z, jpeg_decode(b, z))
BootVideoJpegUnpackAsRgb(b) == UnpackSized(b, jpeg_get_size(b))

\* Red, green and blue of a pixel
Pixel(jpeg, y, x) ==
    LET n == (y \div 16) * (jpeg.width \div 16) + (x \div 16) + 1
    IN IF n > Len(jpeg.mcus) THEN <<0, 0, 0>> ELSE jpeg.mcus[n][y % 16][x % 16]

-----------------------------------------------------------------------------
(* Pictures and the files they are in.  A picture is                       *)
(*   width, height, dri   its size, and the MCUs between two restarts      *)
(*   quant                the quantization tables of brightness and colour *)
(*   mcus                 for each MCU six blocks: functions from the      *)
(*                        numbers of the coefficients that are not 0, in   *)
(*                        the order of the file, to their values           *)
(* Meaning gives its pixels by the definition of the cosine transform and  *)
(* of the colours; FileOf encodes it, with the Huffman codes given as bits.*)

\* 1000 times the cosine of n sixteenths of a half turn
Quarter == <<1000, 981, 924, 831, 707, 556, 383, 195, 0>>
Cos1000 == [n \in 0..31 |-> CASE n <= 8 -> Quarter[n + 1] [] n \in 9..16 -> -Quarter[17 - n]
                              [] n \in 17..24 -> -Quarter[n - 15] [] OTHER -> Quarter[33 - n]]
Wave == [u \in 0..7 |-> [x \in 0..7 |-> IF u = 0 THEN 707 ELSE Cos1000[((2 * x + 1) * u) % 32]]]

\* The number of the coefficient of row i and column j: up and down the
\* diagonals, the second half mirrored
HalfZigzag(i, j) == ((i + j) * (i + j + 1)) \div 2 + (IF (i + j) % 2 = 1 THEN i ELSE j)
Zigzag == [p \in (0..7) \X (0..7) |->
             IF p[1] + p[2] <= 7 THEN HalfZigzag(p[1], p[2]) ELSE 63 - HalfZigzag(7 - p[1], 7 - p[2])]
Frequency == [z \in 0..63 |-> CHOOSE p \in (0..7) \X (0..7) : Zigzag[p] = z]

\* 1000 times a sample of a block
Sample(block, q, y, x) ==
    MapThenSumSet(LAMBDA z : (block[z] * q[z + 1] * ((Wave[Frequency[z][1]][y] * Wave[Frequency[z][2]][x]) \div 1000)) \div 4,
                  DOMAIN block)
Bounded(x) == IF x < 0 THEN 0 ELSE IF x > 255000 THEN 255000 ELSE x
Colours(y, cb, cr) ==
    <<Bounded(y + (1402 * cr) \div 1000), Bounded(y - (344 * cb) \div 1000 - (714 * cr) \div 1000), Bounded(y + (1772 * cb) \div 1000)>>
InMcu(m, quant, y, x) ==
    Colours(128000 + Sample(m[2 * (y \div 8) + (x \div 8) + 1], quant[1], y % 8, x % 8),
            Sample(m[5], quant[2], y \div 2, x \div 2), Sample(m[6], quant[2], y \div 2, x \div 2))
Meaning(pic, y, x) ==
    InMcu(pic.mcus[(y \div 16) * (Round16(pic.width) \div 16) + (x \div 16) + 1], pic.quant, y % 16, x % 16)

------------------------------------------------------------------------------
(* Files *)

\* Codes by their values: short ones, one whose value does not fit into
\* DECBITS, and ones longer than that
Zeros_(n) == [i \in 1..n |-> 0]
DcCodes == [v \in {0, 2, 5, 8, 9} |-> CASE v = 0 -> <<0, 0>> [] v = 2 -> <<0, 1>> [] v = 5 -> <<1, 0, 0>>
                                       [] v = 8 -> <<1, 0, 1>> [] v = 9 -> <<1, 1, 0>>]
AcCodes == [v \in {0, 1, 7, 34, 10, 5, 240, 52} |->
              CASE v = 0 -> <<0, 0>> [] v = 1 -> <<0, 1>> [] v = 34 -> <<1, 0, 0>> [] v = 7 -> <<1, 0, 1, 0>>
                [] v = 10 -> <<1, 0, 1, 1>> \o Zeros_(6)
                [] v = 5 -> <<1, 0, 1, 1>> \o Zeros_(5) \o <<1, 0>>
                [] v = 240 -> <<1, 0, 1, 1>> \o Zeros_(5) \o <<1, 1, 0>>
                [] v = 52 -> <<1, 0, 1, 1>> \o Zeros_(5) \o <<1, 1, 1>> \o Zeros_(4)]
OfLength(codes, n) == {v \in DOMAIN codes : Len(codes[v]) = n}
InOrder(codes, n) == SetToSortSeq(OfLength(codes, n), LAMBDA v, w : NumberOf(codes[v]) < NumberOf(codes[w]))
Lengths(codes) == [n \in 1..16 |-> Cardinality(OfLength(codes, n))]
Values(codes) == FlattenSeq([n \in 1..16 |-> InOrder(codes, n)])

SizeOf(x) == CHOOSE n \in 0..11 : (IF x < 0 THEN -x ELSE x) \in (IF n = 0 THEN 0 ELSE 2^(n - 1))..2^n - 1
ValueBits(x) == BitsOf(IF x < 0 THEN x + 2^SizeOf(x) - 1 ELSE x, SizeOf(x))
Coded(codes, run, x) == codes[16 * run + SizeOf(x)] \o ValueBits(x)

\* The coefficients from number z on; a run of 16 has a code of its own.
RECURSIVE AcBits(_, _)
AcBits(block, z) ==
    LET left == {k \in DOMAIN block : k >= z} IN
    IF left = {} THEN IF z = 64 THEN << >> ELSE AcCodes[0]
    ELSE IF Min(left) - z >= 16 THEN AcCodes[240] \o AcBits(block, z + 16)
    ELSE Coded(AcCodes, Min(left) - z, block[Min(left)]) \o AcBits(block, Min(left) + 1)
Dc(block) == IF 0 \in DOMAIN block THEN block[0] ELSE 0
LastDc(m, n, before) ==
    CASE n \in 2..4 -> Dc(m[n - 1]) [] before = << >> -> 0
      [] OTHER -> Dc(before[IF n = 1 THEN 4 ELSE n])
McuBits(m, before) ==
    FlattenSeq([n \in 1..6 |-> Coded(DcCodes, 0, Dc(m[n]) - LastDc(m, n, before)) \o AcBits(m[n], 1)])

\* Bytes: ones fill up the last, a zero follows 255.
Filled_(bits) == bits \o [i \in 1..(-Len(bits)) % 8 |-> 1]
Stuffed(bits) ==
    FlattenSeq([i \in 1..Len(bits) \div 8 |->
                  LET x == NumberOf(SubSeq(bits, 8 * i - 7, 8 * i)) IN IF x = 255 THEN <<255, 0>> ELSE <<x>>])
\* The MCUs from n on: those up to the next restart are one stretch.
RECURSIVE ScanBytes(_, _)
Stretch(pic, n, last) ==
    Stuffed(Filled_(FlattenSeq([i \in 1..last - n + 1 |->
                McuBits(pic.mcus[n + i - 1], IF i = 1 THEN << >> ELSE pic.mcus[n + i - 2])])))
ScanBytes(pic, n) ==
    LET last == IF pic.dri = 0 \/ n + pic.dri > Len(pic.mcus) THEN Len(pic.mcus) ELSE n + pic.dri - 1
    IN Stretch(pic, n, last)
       \o (IF last = Len(pic.mcus) THEN << >>
           ELSE <<255, M_RST0 + ((last \div pic.dri - 1) % 8)>> \o ScanBytes(pic, last + 1))

Segmented(m, body) == <<255, m, (Len(body) + 2) \div 256, (Len(body) + 2) % 256>> \o body
HuffBody(id, codes) == <<id>> \o Lengths(codes) \o Values(codes)
Frame(pic) == <<8, pic.height \div 256, pic.height % 256, pic.width \div 256, pic.width % 256,
                3, 1, 34, 0, 2, 17, 1, 3, 17, 1>>
ScanParameters == <<3, 1, 0, 2, 17, 3, 17, 0, 63, 0>>
HeadOf(pic) ==
    <<255, M_SOI>> \o Segmented(224, <<74, 70>>)
    \o Segmented(M_DQT, <<0>> \o pic.quant[1] \o <<1>> \o pic.quant[2])
    \o (IF pic.dri = 0 THEN << >> ELSE Segmented(M_DRI, <<0, pic.dri>>))
    \o Segmented(M_SOF0, Frame(pic))
    \o Segmented(M_DHT, HuffBody(0, DcCodes) \o HuffBody(16, AcCodes))
    \o Segmented(M_DHT, HuffBody(1, DcCodes) \o HuffBody(17, AcCodes))
    \o Segmented(M_SOS, ScanParameters)
FileOf(pic) == HeadOf(pic) \o ScanBytes(pic, 1) \o <<255, M_EOI>>
=============================================================================
