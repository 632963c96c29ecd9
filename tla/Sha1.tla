-------------------------------- MODULE Sha1 --------------------------------
(***************************************************************************)
(* lib/crypt/sha1.c: the hash that the ROM loader, the image builder and   *)
(* the hard disk key code use.  A SHA1Context is a record: the             *)
(* intermediate hash, the bytes waiting in Message_Block (its length is    *)
(* Message_Block_Index), the length of the message in bits as one word     *)
(* (Length_High stays 0: messages are shorter than 2^28 bytes), Computed   *)
(* and Corrupted.                                                          *)
(***************************************************************************)
EXTENDS Integers, Sequences, Bitwise

-----------------------------------------------------------------------------
(* Unsigned 32-bit words, for hashes and checksums: TLC's integers are     *)
(* 32-bit signed, so a word is the pair of its 16-bit halves <<high, low>>;*)
(* memory holds bytes, 0..255.                                             *)

Half == 65536

Word(hi, lo) == <<hi, lo>>
WXor(a, b) == <<a[1] ^^ b[1], a[2] ^^ b[2]>>
WAnd(a, b) == <<a[1] & b[1], a[2] & b[2]>>
WNot(a) == <<Half - 1 - a[1], Half - 1 - a[2]>>

\* a + b modulo 2^32
WAdd(a, b) == <<(a[1] + b[1] + ((a[2] + b[2]) \div Half)) % Half, (a[2] + b[2]) % Half>>

\* a rotated left by n bits, n < 16; swapping the halves rotates by 16
RotLow(a, n) == LET p == 2^n
                    q == 2^(16 - n)
                IN <<((a[1] * p) % Half) + (a[2] \div q), ((a[2] * p) % Half) + (a[1] \div q)>>
WRotl(a, n) == IF n < 16 THEN RotLow(a, n) ELSE RotLow(<<a[2], a[1]>>, n - 16)

\* a shifted right by one byte, and its lowest byte
WShr8(a) == <<a[1] \div 256, (a[1] % 256) * 256 + (a[2] \div 256)>>
LowByte(a) == a[2] % 256

\* The word whose bytes, most significant first, are given, and the bytes of a word
BigWord(b0, b1, b2, b3) == <<b0 * 256 + b1, b2 * 256 + b3>>
BigBytes(a) == <<a[1] \div 256, a[1] % 256, a[2] \div 256, a[2] % 256>>

-----------------------------------------------------------------------------
BlockSize == 64

SHA1Reset ==
    [hash |-> << <<26437, 8961>>, <<61389, 43913>>, <<39098, 56574>>, <<4146, 21622>>, <<50130, 57840>> >>,
     block |-> << >>, bits |-> 0, computed |-> FALSE, corrupted |-> FALSE]

\* The 80 words W[] of a block
RECURSIVE Schedule(_)
Schedule(w) ==
    LET t == Len(w)
    IN IF t = 80 THEN w
       ELSE Schedule(Append(w, WRotl(WXor(WXor(w[t - 2], w[t - 7]), WXor(w[t - 13], w[t - 15])), 1)))

BlockWords(m) == [t \in 1..16 |-> BigWord(m[4*t - 3], m[4*t - 2], m[4*t - 1], m[4*t])]

\* The function and the constant of round t (0..79)
RoundF(t, b, c, d) ==
    IF t < 20 THEN WXor(WAnd(b, c), WAnd(WNot(b), d))
    ELSE IF t \in 40..59 THEN WXor(WAnd(b, c), WXor(WAnd(b, d), WAnd(c, d)))
    ELSE WXor(WXor(b, c), d)
RoundK(t) == CASE t < 20 -> <<23170, 31129>> [] t \in 20..39 -> <<28377, 60321>>
               [] t \in 40..59 -> <<36635, 48348>> [] OTHER -> <<51810, 49622>>

\* The five word buffers and the loop counter r[6], until it is 80
RECURSIVE Rounds(_, _)
Rounds(w, r) ==
    IF r[6] = 80 THEN r
    ELSE Rounds(w, <<WAdd(WAdd(WRotl(r[1], 5), RoundF(r[6], r[2], r[3], r[4])),
                          WAdd(r[5], WAdd(w[r[6] + 1], RoundK(r[6])))),
                     r[1], WRotl(r[2], 30), r[3], r[4], r[6] + 1>>)

AddHash(h, r) == [i \in 1..5 |-> WAdd(h[i], r[i])]

\* SHA1ProcessMessageBlock() on the full block m: the new intermediate hash
SHA1ProcessMessageBlock(h, m) == AddHash(h, Rounds(Schedule(BlockWords(m)), h \o <<0>>))

\* SHA1Input(): bytes are collected and hashed whenever a block is full.
RECURSIVE Absorb(_, _)
Absorb(c, bytes) ==
    LET room == BlockSize - Len(c.block)
    IN IF Len(bytes) < room
       THEN [c EXCEPT !.block = @ \o bytes, !.bits = @ + 8 * Len(bytes)]
       ELSE Absorb([c EXCEPT !.hash = SHA1ProcessMessageBlock(@, c.block \o SubSeq(bytes, 1, room)),
                             !.block = << >>, !.bits = @ + 8 * room],
                   SubSeq(bytes, room + 1, Len(bytes)))
SHA1Input(c, bytes) ==
    IF bytes = << >> THEN c
    ELSE IF c.computed THEN [c EXCEPT !.corrupted = TRUE]
    ELSE IF c.corrupted THEN c
    ELSE Absorb(c, bytes)

Zeros(n) == [i \in 1..n |-> 0]

\* The last 8 bytes of the padding: the length, whose high word is 0
LengthBytes(bits) == Zeros(4) \o <<bits \div 2^24, (bits \div 2^16) % 256, (bits \div 256) % 256, bits % 256>>

\* SHA1PadMessage(): 0x80, zeros and the length, over two blocks when the
\* index is past 55
Padding(n, bits) == <<128>> \o Zeros(IF n > 55 THEN 119 - n ELSE 55 - n) \o LengthBytes(bits)
SHA1PadMessage(c) == Absorb(c, Padding(Len(c.block), c.bits))

\* SHA1Result(): the digest, and the context afterwards.  A corrupted context
\* leaves the caller's buffer as it was ("old").
HashBytes(h) == BigBytes(h[1]) \o BigBytes(h[2]) \o BigBytes(h[3]) \o BigBytes(h[4]) \o BigBytes(h[5])
Computed(c) == [digest |-> HashBytes(c.hash), ctx |-> [c EXCEPT !.block = << >>, !.bits = 0, !.computed = TRUE]]
SHA1Result(c, old) ==
    IF c.corrupted THEN [digest |-> old, ctx |-> c]
    ELSE Computed(IF c.computed THEN c ELSE SHA1PadMessage(c))

\* The digest the callers compute: reset, one input, result
Digest(bytes) == SHA1Result(SHA1Input(SHA1Reset, bytes), << >>).digest
=============================================================================
