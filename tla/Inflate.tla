------------------------------ MODULE Inflate ------------------------------
(***************************************************************************)
(* lib/gzip/inflate.c and misc.c: the decompressor the ROM loader starts   *)
(* Cromwell with.  The globals of misc.c and the locals that mirror them   *)
(* are one record that the operators pass on:                              *)
(*   in, inptr  the compressed bytes and how many have been taken          *)
(*   bb, bk     the bit buffer and the number of bits in it                *)
(*   win, wp    the sliding window and the position in it (outcnt)         *)
(*   out, crc   the bytes flushed to output_data and their checksum        *)
(*   res        0, the value a function returned on its way to gunzip(),   *)
(*              "halt" after error(), which never returns, or "wild" after *)
(*              a table that was never built is used                       *)
(*   got        the byte, field or table entry obtained last               *)
(***************************************************************************)
EXTENDS Sha1, FiniteSets, FiniteSetsExt

CONSTANT WSIZE  \* the size of the window: 0x8000 in the code, a power of two
ASSUME WSIZEPositive == WSIZE \in Nat \ {0}

------------------------------------------------------------------------------
(* Checksum *)

\* makecrc(): the pattern made from the polynomial's terms, and the table
CrcPattern == <<60856, 33568>>
ShrXor(c) == LET h == <<c[1] \div 2, ((c[1] % 2) * 32768) + (c[2] \div 2)>>
             IN IF c[2] % 2 = 1 THEN WXor(h, CrcPattern) ELSE h
RECURSIVE CrcEntry(_, _)
CrcEntry(c, k) == IF k[1] = 0 THEN c ELSE CrcEntry(ShrXor(c), <<k[1] - 1>>)
makecrc == [i \in 0..255 |-> CrcEntry(<<0, i>>, <<8>>)]

RECURSIVE CrcOver(_, _)
CrcOver(c, bytes) ==
    IF bytes = << >> THEN c
    ELSE CrcOver(WXor(makecrc[LowByte(c) ^^ Head(bytes)], WShr8(c)), Tail(bytes))

------------------------------------------------------------------------------
(* Input bits, output bytes *)

Fresh(bytes) ==
    [in |-> bytes, inptr |-> 0, bb |-> 0, bk |-> 0, win |-> [i \in 0..WSIZE - 1 |-> 0], wp |-> 0,
     out |-> << >>, crc |-> <<65535, 65535>>, res |-> "ok", got |-> 0]

Fail(s, r) == [s EXCEPT !.res = r]
Ok(s) == s.res = "ok"

\* get_byte(), with fill_inbuf() when there is none left
get_byte(s) == IF ~Ok(s) THEN s
               ELSE IF s.inptr = Len(s.in) THEN Fail(s, "halt")
               ELSE [s EXCEPT !.inptr = @ + 1, !.got = s.in[s.inptr + 1]]

RECURSIVE NEEDBITS(_, _)
NEEDBITS(s, n) ==
    IF ~Ok(s) \/ s.bk >= n THEN s
    ELSE IF s.inptr = Len(s.in) THEN Fail(s, "halt")
    ELSE NEEDBITS([s EXCEPT !.bb = @ + s.in[s.inptr + 1] * 2^s.bk, !.bk = @ + 8, !.inptr = @ + 1], n)
DUMPBITS(s, n) == IF Ok(s) THEN [s EXCEPT !.bb = @ \div 2^n, !.bk = @ - n] ELSE s

\* Take n bits as a number
Masked(s, n) == IF Ok(s) THEN [s EXCEPT !.got = s.bb % 2^n] ELSE s
Bits(s, n) == DUMPBITS(Masked(NEEDBITS(s, n), n), n)

Flushed(s, bytes) == [s EXCEPT !.out = @ \o bytes, !.crc = CrcOver(@, bytes), !.wp = 0]
flush_window(s) == Flushed(s, [i \in 1..s.wp |-> s.win[i - 1]])
FlushIfFull(s) == IF s.wp = WSIZE THEN flush_window(s) ELSE s
PutByte(s, byte) == FlushIfFull([s EXCEPT !.win[s.wp] = byte, !.wp = @ + 1])

\* The copy of n bytes from d bytes of the window on; the window is a ring
RECURSIVE CopyBytes(_, _, _)
CopyBytes(s, d, n) == IF n = 0 THEN s ELSE CopyBytes(PutByte(s, s.win[d]), (d + 1) % WSIZE, n - 1)

------------------------------------------------------------------------------
(* Huffman tables.  A table is a function of the next bits; an entry has   *)
(* the bits to drop (b), the operation (e: 16 a literal, 15 end of block,  *)
(* 99 no code, 16 + j another table of j bits, else extra bits) and the    *)
(* value or the next table (v).                                            *)

BMAX == 16
Max2(a, b) == IF a > b THEN a ELSE b
Min2(a, b) == IF a < b THEN a ELSE b

\* How many codes there are of each length; lens is indexed from 0
Counts(lens) == [k \in 0..BMAX |-> Cardinality({i \in DOMAIN lens : lens[i] = k})]

\* The codes unused when the lengths 1..k have been given out, below 0
\* when there are more codes than bits
RECURSIVE Unused(_, _)
Unused(c, k) == IF k = 0 THEN 1 ELSE Unused(c, k - 1) * 2 - c[k]

\* The k bits of a code, reversed: codes are read from their top bit on
RECURSIVE Reversed(_, _)
Reversed(i, k) == IF k = 0 THEN 0 ELSE (i % 2) * 2^(k - 1) + Reversed(i \div 2, k - 1)

\* The entry of the code of value x; out of values, the entry keeps the
\* value of the one before it
CodeEntry(x, s, d, e) ==
    IF x < s THEN [e |-> IF x < 256 THEN 16 ELSE 15, v |-> x]
    ELSE [e |-> e[x - s + 1], v |-> d[x - s + 1]]

\* The first code of length k, and the code of place n among those of its
\* length: length k, place p among all, codes of its length that follow (a),
\* bits i as they come in the stream, entry r.  c has its last count filled up.
RECURSIVE FirstCode(_, _)
FirstCode(c, k) == IF k <= 1 THEN 0 ELSE (FirstCode(c, k - 1) + c[k - 1]) * 2
Before(c, k) == MapThenSumSet(LAMBDA j : c[j], 1..k - 1)
Code(c, k, n, r) == [k |-> k, p |-> Before(c, k) + n, a |-> c[k] - 1 - n,
                     i |-> Reversed(FirstCode(c, k) + n, k), r |-> r]
Rank(lens, x) == Cardinality({y \in DOMAIN lens : y < x /\ lens[y] = lens[x]})
CodesOf(lens, c, k, given, s, d, e) ==
    {Code(c, k, Rank(lens, x), CodeEntry(x, s, d, e)) : x \in {y \in DOMAIN lens : lens[y] = k}}
        \cup {Code(c, k, n, [CodeEntry(Max({y \in DOMAIN lens : lens[y] = k}), s, d, e) EXCEPT !.e = 99]) : n \in given[k]..c[k] - 1}

\* The bits of a table below the first w bits, made for a code of length k
\* when "a" codes of that length are still to come
RECURSIVE TryBits(_, _, _, _, _)
TryBits(c, j, z, f, x) ==
    IF j + 1 >= z \/ f * 2 <= c[x + 1] THEN j + 1
    ELSE TryBits(c, j + 1, z, f * 2 - c[x + 1], x + 1)
TableBits(c, k, a, w, g, l) ==
    IF 2^(k - w) > a + 1 THEN TryBits(c, k - w, Min2(g - w, l), 2^(k - w) - (a + 1), k) ELSE k - w

\* The table of the codes below the first w bits; each entry that no code
\* reaches keeps what the heap held
Leaf(x, w) == [e |-> x.r.e, b |-> x.k - w, v |-> x.r.v]
RECURSIVE MakeTable(_, _, _, _, _, _)
Link(codes, bits, w, c, g, l) == [e |-> 16 + bits, b |-> l, v |-> MakeTable(codes, w, bits, c, g, l)]
FirstOf(codes) == CHOOSE x \in codes : \A y \in codes : x.p <= y.p
SubTable(codes, x, w, c, g, l) == Link(codes, TableBits(c, x.k, x.a, w, g, l), w, c, g, l)
TableEntry(leaf, deeper, w, c, g, l) ==
    IF leaf # {} THEN Leaf(CHOOSE x \in leaf : TRUE, w)
    ELSE IF deeper # {} THEN SubTable(deeper, FirstOf(deeper), w + l, c, g, l)
    ELSE [e |-> 100, b |-> 0, v |-> 0]
MakeTable(codes, w, bits, c, g, l) ==
    [j \in 0..2^bits - 1 |->
        TableEntry({x \in codes : x.k <= w + l /\ j % 2^(x.k - w) = x.i \div 2^w},
                   {x \in codes : x.k > w + l /\ (x.i \div 2^w) % 2^l = j}, w, c, g, l)]

\* huft_build(): the result (0, 1 for an incomplete set, 2 for an invalid
\* one), the table and the bits of its first level
FilledTables(lens, given, c, g, l, y, s, d, e) ==
    [ret |-> IF y # 0 /\ g # 1 THEN 1 ELSE 0, m |-> l,
     t |-> MakeTable(UNION {CodesOf(lens, c, k, given, s, d, e) : k \in 1..g}, 0, l, c, g, l)]
BoundedTables(lens, c, least, g, m, s, d, e) ==
    IF \E k \in least..g : Unused(c, k) < 0 THEN [ret |-> 2, t |-> "NULL", m |-> Min2(Max2(m, least), g)]
    ELSE FilledTables(lens, c, [c EXCEPT ![g] = @ + Unused(c, g)], g, Min2(Max2(m, least), g), Unused(c, g), s, d, e)
CountedTables(lens, c, m, s, d, e) ==
    IF \A k \in 1..BMAX : c[k] = 0 THEN [ret |-> 0, t |-> "NULL", m |-> 0]
    ELSE BoundedTables(lens, c, Min({k \in 1..BMAX : c[k] # 0}), Max({k \in 1..BMAX : c[k] # 0}), m, s, d, e)
huft_build(lens, s, d, e, m) == CountedTables(lens, Counts(lens), m, s, d, e)

------------------------------------------------------------------------------
(* Blocks *)

border == <<16, 17, 18, 0, 8, 7, 9, 6, 10, 5, 11, 4, 12, 3, 13, 2, 14, 1, 15>>
cplens == <<3, 4, 5, 6, 7, 8, 9, 10, 11, 13, 15, 17, 19, 23, 27, 31,
            35, 43, 51, 59, 67, 83, 99, 115, 131, 163, 195, 227, 258, 0, 0>>
cplext == <<0, 0, 0, 0, 0, 0, 0, 0, 1, 1, 1, 1, 2, 2, 2, 2,
            3, 3, 3, 3, 4, 4, 4, 4, 5, 5, 5, 5, 0, 99, 99>>
cpdist == <<1, 2, 3, 4, 5, 7, 9, 13, 17, 25, 33, 49, 65, 97, 129, 193, 257, 385, 513, 769, 1025, 1537,
            2049, 3073, 4097, 6145, 8193, 12289, 16385, 24577>>
cpdext == <<0, 0, 0, 0, 1, 1, 2, 2, 3, 3, 4, 4, 5, 5, 6, 6, 7, 7, 8, 8, 9, 9, 10, 10, 11, 11, 12, 12, 13, 13>>

\* Look the next bits up, through as many tables as their code has; the
\* entry is left in got and its bits are dropped.
RECURSIVE Walk(_, _, _)
Entered(s, x) ==
    IF x.e = 99 THEN Fail(s, "1")
    ELSE IF x.e = 100 THEN Fail(s, "wild")
    ELSE IF x.e > 16 THEN Walk(DUMPBITS(s, x.b), x.v, x.e - 16)
    ELSE [DUMPBITS(s, x.b) EXCEPT !.got = x]
Found(s, t, n) == IF Ok(s) THEN Entered(s, t[s.bb % 2^n]) ELSE s
Walk(s, t, n) == IF n = 0 THEN Fail(s, "wild") ELSE Found(NEEDBITS(s, n), t, n)

\* inflate_codes(): literals and copies until the end of the block
RECURSIVE inflate_codes(_, _, _)
CopyFrom(s, n, base) == IF Ok(s) THEN CopyBytes(s, (s.wp - base - s.got) % WSIZE, n) ELSE s
CopyDistance(s, n) == IF Ok(s) THEN CopyFrom(Bits(s, s.got.e), n, s.got.v) ELSE s
CopyLength(s, base, td) == IF Ok(s) THEN CopyDistance(Walk(s, td.t, td.m), base + s.got) ELSE s
Coded(s, tl, td) ==
    IF ~Ok(s) \/ s.got.e = 15 THEN s
    ELSE IF s.got.e = 16 THEN inflate_codes(PutByte(s, s.got.v), tl, td)
    ELSE inflate_codes(CopyLength(Bits(s, s.got.e), s.got.v, td), tl, td)
inflate_codes(s, tl, td) == IF Ok(s) THEN Coded(Walk(s, tl.t, tl.m), tl, td) ELSE s

\* inflate_stored(): from the next byte boundary a length, its complement and
\* the bytes
RECURSIVE StoredBytes(_, _)
StoredBytes(s, n) == IF ~Ok(s) \/ n = 0 THEN s ELSE StoredBytes(PutByte(Bits(s, 8), Bits(s, 8).got), n - 1)
StoredChecked(s, n) == IF ~Ok(s) THEN s
                       ELSE IF n # Half - 1 - s.got THEN Fail(s, "1")
                       ELSE StoredBytes(s, n)
StoredLength(s) == IF Ok(s) THEN StoredChecked(Bits(s, 16), s.got) ELSE s
inflate_stored(s) == StoredLength(Bits(DUMPBITS(s, s.bk % 8), 16))

\* inflate_fixed()
FixedLiterals ==
    huft_build([i \in 0..287 |-> CASE i < 144 -> 8 [] i \in 144..255 -> 9 [] i \in 256..279 -> 7 [] OTHER -> 8],
               257, cplens, cplext, 7)
FixedDistances == huft_build([i \in 0..29 |-> 5], 0, cpdist, cpdext, 5)
inflate_fixed(s) ==
    IF FixedLiterals.ret # 0 THEN Fail(s, "1")
    ELSE IF FixedDistances.ret > 1 THEN Fail(s, "2")
    ELSE inflate_codes(s, FixedLiterals, FixedDistances)

\* inflate_dynamic(): the lengths of the bit length codes, the lengths of the
\* literal and distance codes, and the block
RECURSIVE BitLengths(_, _, _, _)
BitLengths(s, ll, j, nb) ==
    IF ~Ok(s) \/ j = nb THEN [s EXCEPT !.got = ll]
    ELSE BitLengths(Bits(s, 3), [ll EXCEPT ![border[j + 1]] = Bits(s, 3).got], j + 1, nb)

LengthEntry(s, x) == [DUMPBITS(s, x.b) EXCEPT !.got = x]
LengthCode(s, tl) == IF tl.m = 0 THEN Fail(s, "wild")
                     ELSE IF Ok(s) THEN LengthEntry(s, tl.t[s.bb % 2^tl.m]) ELSE s
RECURSIVE CodeLengths(_, _, _, _, _)
Repeat(s, ll, l, n, tl, least) ==
    IF ~Ok(s) THEN s
    ELSE IF Len(ll) + least + s.got > n THEN Fail(s, "1")
    ELSE CodeLengths(s, ll \o [i \in 1..least + s.got |-> l], l, n, tl)
OneLength(s, ll, l, n, tl) ==
    IF ~Ok(s) THEN s
    ELSE CASE s.got.v < 16 -> CodeLengths(s, Append(ll, s.got.v), s.got.v, n, tl)
           [] s.got.v = 16 -> Repeat(Bits(s, 2), ll, l, n, tl, 3)
           [] s.got.v = 17 -> Repeat(Bits(s, 3), ll, 0, n, tl, 3)
           [] OTHER -> Repeat(Bits(s, 7), ll, 0, n, tl, 11)
CodeLengths(s, ll, l, n, tl) ==
    IF ~Ok(s) \/ Len(ll) >= n THEN [s EXCEPT !.got = ll]
    ELSE OneLength(LengthCode(NEEDBITS(s, tl.m), tl), ll, l, n, tl)

lbits == 9
dbits == 6
DynamicBlock(s, tl, td) ==
    IF tl.ret = 2 THEN Fail(s, "2")
    ELSE IF tl.ret = 1 \/ td.ret = 1 THEN Fail(s, "halt")
    ELSE IF td.ret = 2 THEN Fail(s, "2")
    ELSE inflate_codes(s, tl, td)
LengthsRead(s, nl, nd) ==
    IF ~Ok(s) THEN s
    ELSE DynamicBlock(s, huft_build([i \in 0..nl - 1 |-> s.got[i + 1]], 257, cplens, cplext, lbits),
                      huft_build([i \in 0..nd - 1 |-> s.got[nl + i + 1]], 0, cpdist, cpdext, dbits))
TreesRead(s, nl, nd, tl) ==
    IF ~Ok(s) THEN s
    ELSE IF tl.ret # 0 THEN Fail(s, IF tl.ret = 1 THEN "1" ELSE "2")
    ELSE LengthsRead(CodeLengths(s, << >>, 0, nl + nd, tl), nl, nd)
TreeLengths(s, nl, nd) ==
    IF Ok(s) THEN TreesRead(s, nl, nd, huft_build(s.got, 19, << >>, << >>, 7)) ELSE s
DynamicSizes(s, nl, nd) ==
    IF ~Ok(s) THEN s
    ELSE IF nl > 286 \/ nd > 30 THEN Fail(s, "1")
    ELSE TreeLengths(BitLengths(s, [i \in 0..18 |-> 0], 0, 4 + s.got), nl, nd)
DynamicDistances(s, nl) == IF Ok(s) THEN DynamicSizes(Bits(s, 4), nl, 1 + s.got) ELSE s
DynamicLiterals(s) == IF Ok(s) THEN DynamicDistances(Bits(s, 5), 257 + s.got) ELSE s
inflate_dynamic(s) == DynamicLiterals(Bits(s, 5))

\* inflate_block() and inflate(): blocks until one is marked as the last
RECURSIVE inflate(_)
BlockOfType(s) ==
    IF ~Ok(s) THEN s
    ELSE CASE s.got = 2 -> inflate_dynamic(s) [] s.got = 0 -> inflate_stored(s)
           [] s.got = 1 -> inflate_fixed(s) [] OTHER -> Fail(s, "2")
inflate_block(s) == BlockOfType(Bits(s, 2))
LookaheadUndone(s) == [s EXCEPT !.inptr = @ - (s.bk \div 8), !.bk = @ % 8]
AfterBlock(s, last) ==
    IF ~Ok(s) THEN s ELSE IF last = 1 THEN flush_window(LookaheadUndone(s)) ELSE inflate(s)
inflate(s) == IF Ok(Bits(s, 1)) THEN AfterBlock(inflate_block(Bits(s, 1)), Bits(s, 1).got) ELSE Fail(s, "halt")

------------------------------------------------------------------------------
(* The gzip file around the blocks *)

\* Skip n bytes, or a string with its terminating zero
RECURSIVE SkipBytes(_, _)
SkipBytes(s, n) == IF ~Ok(s) \/ n = 0 THEN s ELSE SkipBytes(get_byte(s), n - 1)
RECURSIVE SkipString(_)
SkipRest(s) == IF ~Ok(s) \/ s.got = 0 THEN s ELSE SkipString(s)
SkipString(s) == IF Ok(s) THEN SkipRest(get_byte(s)) ELSE s

Flag(flags, bit) == (flags \div bit) % 2 = 1
SkipExtra(s) == IF Ok(get_byte(get_byte(s)))
                THEN SkipBytes(get_byte(get_byte(s)), get_byte(s).got + 256 * get_byte(get_byte(s)).got) ELSE Fail(s, "halt")
HeaderName(s, flags) == IF Flag(flags, 8) THEN SkipString(s) ELSE s
HeaderComment(s, flags) == IF Flag(flags, 16) THEN SkipString(s) ELSE s
HeaderRest(s, flags) ==
    HeaderComment(HeaderName(IF Flag(flags, 4) THEN SkipExtra(SkipBytes(s, 6)) ELSE SkipBytes(s, 6), flags), flags)
HeaderFlags(s) ==
    IF ~Ok(s) THEN s
    ELSE IF Flag(s.got, 32) \/ Flag(s.got, 2) \/ s.got >= 64 THEN Fail(s, "halt")
    ELSE HeaderRest(s, s.got)
gzip_header(s) ==
    IF Len(s.in) < 3 THEN Fail(s, "halt")
    ELSE IF s.in[1] # 31 \/ s.in[2] \notin {139, 158} \/ s.in[3] # 8 THEN Fail(s, "halt")
    ELSE HeaderFlags(get_byte(SkipBytes(s, 3)))

\* The checksum and the length after the last block; every failure ends in
\* error()
LittleBytes(w) == <<w[2] % 256, w[2] \div 256, w[1] % 256, w[1] \div 256>>
Validated(s, tail) ==
    IF tail = LittleBytes(WNot(s.crc)) \o LittleBytes(<<Len(s.out) \div Half, Len(s.out) % Half>>) THEN s
    ELSE Fail(s, "halt")
gunzip_tail(s) ==
    IF ~Ok(s) THEN Fail(s, IF s.res = "wild" THEN "wild" ELSE "halt")
    ELSE IF Len(s.in) < s.inptr + 8 THEN Fail(s, "halt")
    ELSE Validated(s, SubSeq(s.in, s.inptr + 1, s.inptr + 8))
gunzip(s) == IF Ok(s) THEN gunzip_tail(inflate([s EXCEPT !.wp = 0, !.bk = 0, !.bb = 0])) ELSE s

\* decompress_kernel(): what is at the output address, and whether it returns
decompress_kernel(bytes) == gunzip(gzip_header(Fresh(bytes)))
=============================================================================
