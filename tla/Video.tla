-------------------------------- MODULE Video --------------------------------
(***************************************************************************)
(* drivers/video/BootVgaInitialization.c, VideoInitialization.c and        *)
(* xcalibur.c: the picture's size and timing for the console's encoder,    *)
(* cable and television standard, and the registers of the GPU and of the  *)
(* encoder that make it.  The fixed values other registers get, and the    *)
(* Xcalibur's tables, are left out.                                        *)
(***************************************************************************)
EXTENDS Integers, Sequences, SequencesExt

-----------------------------------------------------------------------------
(* drivers/video/conexant.c: the registers of the Conexant encoder.        *)
(* regs[ADR(x)] of the code is the register x of the chip, from 0x2e to    *)
(* 0xfe, so a set of registers is a function from these addresses to       *)
(* bytes.  The code's fractions are exact here: times are in nanoseconds,  *)
(* the overscan compensation in 1/10000, clk_ratio is ratio / 2 and the    *)
(* 262.5 or 312.5 lines of a field are lines / 2.  What depends on the     *)
(* subcarrier frequency and the wide screen signal is left out.            *)

(* vidstda[]: the two standards DetectVideoStd() knows; the bursts and the *)
(* hsync width are in units of 10 ns.                                      *)
Vidstda ==
    [NTSC |-> [period |-> 63555, active |-> 9400, centre |-> 35667, blank |-> 1500, alo |-> 243,
               lines |-> 525, burstStart |-> 530, burstEnd |-> 782, hsync |-> 470],
     PAL  |-> [period |-> 64000, active |-> 10500, centre |-> 36407, blank |-> 1500, alo |-> 288,
               lines |-> 625, burstStart |-> 560, burstEnd |-> 785, hsync |-> 470]]

(* Writing the width bits of v from bit lo of register reg, as             *)
(* <<reg, lo, width, v>>, and reading them.                                *)
BitsOf(byte, lo, width) == (byte \div 2^lo) % 2^width
Put(regs, w) ==
    [regs EXCEPT ![w[1]] = @ + 2^w[2] * ((w[4] % 2^w[3]) - BitsOf(@, w[2], w[3]))]
PutAll(regs, writes) == FoldLeft(Put, regs, writes)
Get(regs, reg, lo, width) == BitsOf(regs[reg], lo, width)
Byte(reg, v) == <<reg, 0, 8, v>>

Table == << \h00,
    \h00, \h28, \h80, \hE4, \h00, \h00, \h80, \h80,  \h80, \h13, \hDA, \h4B, \h28, \hA3, \h9F, \h25,
    \hA3, \h9F, \h25, \h00, \h00, \h00, \h00, \h44,  \hC7, \h00, \h00, \h41, \h35, \h03, \h46, \h00,
    \h02, \h00, \h01, \h60, \h88, \h8a, \ha6, \h68,  \hc1, \h2e, \hf2, \h27, \h00, \hb0, \h0a, \h0b,
    \h71, \h5a, \he0, \h36, \h00, \h50, \h72, \h1c,  \h0d, \h24, \hf0, \h58, \h81, \h49, \h8c, \h0c,
    \h8c, \h79, \h26, \h52, \h00, \h24, \h00, \h00,  \h00, \h00, \h01, \h9C, \h9B, \hC0, \hC0, \h19,
    \h00, \h00, \h00, \h00, \h40, \h05, \h57, \h20,  \h40, \h6E, \h7E, \hF4, \h51, \h0F, \hF1, \h05,
    \hD3, \h78, \hA2, \h25, \h54, \hA5, \h00, \h00>>
ConexantRegs == {r \in \h2e..\hfe : r % 2 = 0}
default_mode == [r \in ConexantRegs |-> Table[(r \div 2) - \h16]]
Cleared == [r \in ConexantRegs |-> 0]

(* "0 will cause a burnout"                                                *)
SafePll(pll_int) == IF pll_int > 36 THEN 36 ELSE IF pll_int = 0 THEN 1 ELSE pll_int

CommonHd(pll_int) ==
    << Byte(\h3c, \h80), Byte(\hc6, \h98), Byte(\h6c, \h46), Byte(\ha0, SafePll(pll_int)),
       Byte(\hba, \h28), Byte(\hce, \he1), Byte(\hd6, \h0c) >>

conexant_calc_vga_mode(av, pll_int) ==
    PutAll(Cleared, << Byte(\h2e, IF av = "VGA" THEN \hbd ELSE \had), Byte(\h32, \h48),
                       Byte(\h3e, \h80), Byte(\h40, \h80) >> \o CommonHd(pll_int))

(* Only 480p is ever asked for.                                            *)
conexant_calc_hdtv_mode(pll_int) ==
    PutAll(Cleared, << Byte(\h2e, \hed), Byte(\h32, \h48), Byte(\h3e, \h45), Byte(\h40, \h51) >>
                    \o CommonHd(pll_int))

-----------------------------------------------------------------------------
(* conexant_calc_mode_params(): of the numbers of lines and clocks that    *)
(* make the pictures in and out take the same time, those whose overscan   *)
(* compensation is nearest to the wanted.                                  *)
MulDiv(a, b, c) == (a \div c) * b + (((a % c) * b) \div c)
AtMost(a, b) == IF a < b THEN a ELSE b
AtLeast(a, b) == IF a > b THEN a ELSE b
Abs(a) == AtLeast(a, -a)

Active(s) == s.period - (s.blank + s.active)
MaxOutside(c) == AtLeast(c - 200, 0)
LinesIn(m, s, voc) == (m.yres * s.lines * 5000) \div ((10000 - voc) * s.alo)
ClocksOut(m, s, hoc) == MulDiv(2 * m.xres * s.period, 10000, 10000 - hoc) \div Active(s)
ActiveOut(m, s, tli) == (m.yres * s.lines + 2 * (tli - 1)) \div (2 * tli)
ClocksIn(s, ratio, tli, hclko) == (hclko * ratio * s.lines + 2 * tli) \div (4 * tli)

(* Is the solution valid: the clocks come out even, 2.5 us are left for    *)
(* the horizontal blanking, and the counter is wide enough.                *)
Valid(m, s, ratio, tli, hclko, hclki) ==
    /\ 4 * tli * hclki = s.lines * hclko * ratio
    /\ hclki >= ((2500 * hclki) \div s.period) + m.xres
    /\ hclki < 2048

(* n / d in 1/500000                                                       *)
Fine(n, d) == FoldLeft(LAMBDA q, k : <<q[1] * k + ((q[2] * k) \div d), (q[2] * k) % d>>,
                       <<n \div d, n % d>>, <<10, 10, 10, 10, 10, 5>>)[1]
Metric(dh, dv) == dh * dh + dv * dv + 2 * (Abs(dh) + Abs(dv)) * (Abs(dh) + Abs(dv))
MetricOf(m, s, tli, hclko) ==
    Metric(500000 - Fine(2 * m.xres * s.period, hclko * Active(s)) - 50 * m.hoc,
           500000 - Fine(ActiveOut(m, s, tli), s.alo) - 50 * m.voc)

Solutions(m, s) ==
    {x \in {2, 3} \X (LinesIn(m, s, MaxOutside(m.voc)) .. AtMost(LinesIn(m, s, m.voc + 200), 1023))
                  \X (ClocksOut(m, s, MaxOutside(m.hoc)) .. ClocksOut(m, s, m.hoc + 200)) :
        Valid(m, s, x[1], x[2], x[3], ClocksIn(s, x[1], x[2], x[3]))}
Ranked(m, s) == {<<MetricOf(m, s, x[2], x[3]), x[1], x[2], x[3]>> : x \in Solutions(m, s)}

(* The first of the best, in the order of the three loops.  h_clko, which  *)
(* the code computes again from the others, comes out as it was.           *)
Before(a, b) == \/ a[1] < b[1]
                \/ a[1] = b[1] /\ a[2] < b[2]
                \/ a[1] = b[1] /\ a[2] = b[2] /\ a[3] < b[3]
                \/ a[1] = b[1] /\ a[2] = b[2] /\ a[3] = b[3] /\ a[4] < b[4]
Best(ranked) == CHOOSE a \in ranked : \A b \in ranked \ {a} : Before(a, b)

Chosen(m, s, best) ==
    [ratio |-> best[2], v_linesi |-> best[3], h_clki |-> ClocksIn(s, best[2], best[3], best[4]),
     h_clko |-> best[4], v_activeo |-> ActiveOut(m, s, best[3])]

-----------------------------------------------------------------------------
(* conexant_calc_blankings(): vsrq, the vertical scale as the chip can     *)
(* hold it, is q / 4096, and Drift is its error.                           *)
FifoSize == 1024
h_blanko(m, s, p) == 2 * ((s.centre * p.h_clko + s.period) \div (2 * s.period)) - m.xres + 15
v_blanko(s, p) == ((IF s.lines = 525 THEN 281 ELSE 335) - p.v_activeo) \div 2
Nearest(s, p) == (16384 * p.v_linesi + s.lines) \div (2 * s.lines)
Drift(s, p, q) == (q * s.lines - 8192 * p.v_linesi) * p.h_clki

(* A scale rounded down may overflow the fifo: the next one is taken if it *)
(* neither overflows nor underflows.  In 1 / (4096 * ratio) of h_clko.     *)
Overflows(m, p, drift, hblanko) ==
    (p.h_clko - hblanko - 2 * m.xres + 2 * (FifoSize - m.xres)) * 4096 * p.ratio < 28 * 4096 - drift
CanForce(m, p, drift) ==
    (p.h_clko - 2 * m.xres + 2 * (FifoSize - m.xres)) * 4096 * p.ratio >= (p.h_clki - m.xres) * 8192 + drift
Scale(m, s, p, q) ==
    IF /\ Drift(s, p, q) < 0
       /\ Overflows(m, p, Drift(s, p, q), h_blanko(m, s, p))
       /\ CanForce(m, p, Drift(s, p, q + 1))
    THEN q + 1 ELSE q

(* H_BLANKI: the back porch in, from the totals and porches in and out, in *)
(* 1 / 8192 of h_clki.  MFP and MBP are the least front and back porch.    *)
MFP == 14 * 8192
MBP == 4 * 8192
Porches(m, p, drift, hblanko) ==
    [totalI |-> (p.h_clki - m.xres) * 8192,
     frontI |-> AtLeast(MFP, AtMost((p.h_clki - m.xres) * 1024, (p.h_clki - m.xres) * 8192 - MBP)),
     totalO |-> (p.h_clko - 2 * m.xres) * p.ratio * 4096,
     backO  |-> hblanko * p.ratio * 4096,
     margin |-> (FifoSize - m.xres) * p.ratio * 8192,
     drift  |-> drift]

HeadRoom(maxHR) == IF maxHR < 64 * 8192 THEN (maxHR \div 16384) * 8192 ELSE 32 * 8192
BackAvoiding(b, front, room) ==
    IF b.backO - room < b.totalI - front + AtLeast(b.drift, 0)
    THEN AtLeast(MBP, b.backO - AtLeast(b.drift, 0) - room)
    ELSE b.totalI - front
FrontAvoiding(b, room) ==
    IF b.totalO - b.backO + b.margin - room < b.frontI - AtMost(b.drift, 0)
    THEN AtLeast(MFP, b.totalO - b.backO + b.margin + AtMost(b.drift, 0) - room)
    ELSE b.frontI
Avoiding(b, room) == BackAvoiding(b, FrontAvoiding(b, room), room)

BackPorchIn(b) ==
    IF b.totalO + b.margin >= b.totalI + Abs(b.drift)
    THEN Avoiding(b, HeadRoom(b.totalO + b.margin - (b.totalI - Abs(b.drift))))
    ELSE IF b.drift < 0 THEN AtMost(b.backO - 8192, b.totalI - MFP)
    ELSE b.totalI - AtMost(b.totalO - b.backO + b.margin - 8192, b.totalI - MBP)

conexant_calc_blankings(m, s, p, q) ==
    p @@ [h_blanko |-> h_blanko(m, s, p), v_blanko |-> v_blanko(s, p), vscale |-> q - 4096,
          v_blanki |-> ((v_blanko(s, p) - 1) * q) \div 4096,
          h_blanki |-> BackPorchIn(Porches(m, p, Drift(s, p, q), h_blanko(m, s, p))) \div 8192]
Blanked(m, s, p) == conexant_calc_blankings(m, s, p, Scale(m, s, p, Nearest(s, p)))

NoParams == [v_linesi |-> 0]
ParamsOf(m, s, ranked) == IF ranked = {} THEN NoParams ELSE Blanked(m, s, Chosen(m, s, Best(ranked)))
conexant_calc_mode_params(m, s) == ParamsOf(m, s, Ranked(m, s))

-----------------------------------------------------------------------------
(* conexant_calc_mode(): the fields of the parameters, spread over the     *)
(* registers of the default mode.                                          *)
ParamWrites(m, p, active) ==
    << Byte(\h32, \h28),
       <<\h8e, 0, 3, p.h_clki \div 256>>, Byte(\h8a, p.h_clki),
       <<\h86, 0, 4, p.h_clko \div 256>>, Byte(\h76, p.h_clko),
       <<\h38, 1, 1, p.v_linesi \div 1024>>, <<\h96, 0, 2, p.v_linesi \div 256>>, Byte(\h90, p.v_linesi),
       <<\h86, 7, 1, active \div 256>>, Byte(\h84, active),
       <<\h86, 4, 3, (m.xres + 5) \div 256>>, Byte(\h78, m.xres + 5),
       <<\h96, 2, 2, m.yres \div 256>>, Byte(\h94, m.yres),
       <<\h38, 0, 1, p.h_blanki \div 512>>, <<\h8e, 3, 1, p.h_blanki \div 256>>, Byte(\h8c, p.h_blanki),
       <<\h9a, 6, 2, p.h_blanko \div 256>>, Byte(\h80, p.h_blanko),
       <<\h9a, 0, 6, p.vscale \div 256>>, Byte(\h98, p.vscale),
       Byte(\h82, p.v_blanko), Byte(\h92, p.v_blanki) >>

(* The pixel clock in 1/65536 of 13.5 MHz / 6, and what lasts t times      *)
(* 10 ns counted in output clocks.                                         *)
PllDigits(r, d) == (((r * 256) \div d) * 256) + (((((r * 256) % d) * 512) + d) \div (2 * d))
PllRatio(n, d) == (n \div d) * 65536 + PllDigits(n % d, d)
PllOf(s, p) == PllRatio(p.h_clko * p.ratio * 2000, 9 * s.period)
Lasting(pll, ratio, t) == (MulDiv(pll, 9 * t, 65536) + 100 * ratio) \div (200 * ratio)

ClockWrites(s, p, pll) ==
    LET start == Lasting(pll, p.ratio, s.burstStart)
        end   == AtLeast(Lasting(pll, p.ratio, s.burstEnd), 128) - 128
    IN << <<\ha0, 0, 6, pll \div 65536>>, Byte(\h9e, pll \div 256), Byte(\h9c, pll),
          <<\h38, 5, 1, p.ratio - 2>>,
          <<\h38, 2, 1, start \div 256>>, Byte(\h7c, start),
          <<\h38, 3, 1, end \div 256>>, Byte(\h7e, end),
          Byte(\h7a, Lasting(pll, p.ratio, s.hsync)) >>

(* The mode register, and the outputs for the cable.                       *)
StandardWrites(std) == << <<\ha2, 1, 5, IF std = "NTSC" THEN 5 ELSE 18>>, <<\ha2, 7, 1, 0>>, Byte(\hc6, \h98) >>
CableWrites(av) ==
    IF av \in {"COMPOSITE", "SVIDEO"}
    THEN << <<\h2e, 6, 1, 1>>, Byte(\h6c, \h46), Byte(\h5a, 0), Byte(\ha4, \he5), Byte(\ha6, \h74),
            Byte(\hba, \h24), Byte(\hce, \h19), Byte(\hd6, 0) >>
    ELSE << Byte(\h6c, \h4e), Byte(\h5a, \hff), Byte(\ha4, \he7), Byte(\ha6, \h77),
            Byte(\hba, \h20), Byte(\hce, \he1), Byte(\hd6, \h0c) >>

ConexantRegsFor(m, s, p) ==
    PutAll(default_mode,
           ParamWrites(m, p, p.v_activeo + (IF m.std = "NTSC" THEN 1 ELSE 2))
           \o ClockWrites(s, p, PllOf(s, p)) \o StandardWrites(m.std) \o CableWrites(m.av))

(* The timing the GPU is given for it.                                     *)
ConexantTiming(p) ==
    [hsyncstart |-> p.h_clki - p.h_blanki - 7, htotal |-> p.h_clki - 1,
     vsyncstart |-> p.v_linesi - p.v_blanki + 1, vtotal |-> p.v_linesi - 1]

-----------------------------------------------------------------------------
(* drivers/video/focus.c: the registers of the Focus encoder, a function   *)
(* from 0..0xc3 to bytes.  Only the registers the driver computes are      *)
(* spelled out, over a table of the factory's values.                      *)

focus_table ==
    << \h00,\h00,\h00,\h00,\h80,\h02,\haa,\h0a,  \h00,\h10,\h00,\h00,\h03,\h21,\h15,\h04,
       \h00,\he9,\h07,\h00,\h80,\hf5,\h20,\h00,  \hef,\h21,\h1f,\h00,\h03,\h03,\h00,\h00,
       \h00,\h00,\h00,\h00,\h00,\h00,\h10,\h00,  \h0c,\h01,\h00,\h00,\h00,\h00,\h08,\h11,
       \h00,\h0f,\h05,\hfe,\h0b,\h80,\h00,\h00,  \ha4,\h00,\h00,\h00,\h00,\h00,\h00,\h00,
       \h2a,\h09,\h8a,\hcb,\h00,\h00,\h8d,\h00,  \h7c,\h3c,\h9a,\h2f,\h21,\h01,\h3f,\h00,
       \h3e,\h03,\h17,\h21,\h1b,\h1b,\h24,\h9c,  \h01,\h3e,\h0f,\h0f,\h60,\h05,\hc8,\h00,
       \h9d,\h04,\h9d,\h01,\h02,\h00,\h0a,\h05,  \h00,\h1a,\hff,\h03,\h1e,\h0f,\h78,\h00,
       \h00,\hb1,\h04,\h15,\h49,\h10,\h00,\ha3,  \hc8,\h15,\h05,\h15,\h3e,\h03,\h00,\h20,
       \h57,\h2f,\h07,\h00,\h00,\h08,\h00,\h00,  \h08,\h16,\h16,\h9c,\h03,\h00,\h00,\h00,
       \h00,\h00,\hc4,\h48,\h00,\h00,\h00,\h00,  \h00,\h00,\h00,\h80,\h00,\h00,\he4,\h00,
       \h00,\h02,\h00,\h00,\h00,\h00,\h00,\h00,  \hFF,\h00,\hFF,\h00,\hFF,\h00,\h00,\h00,
       \h00,\h00,\hd7,\h05,\h00,\h00,\hf0,\h00,  \h00,\h00,\h00,\h00,\h00,\h00,\h00,\h00,
       \h00,\h00,\hee,\h00>>
focus_defaults == [r \in 0..\hc3 |-> focus_table[r + 1]]

(* Consecutive registers from one on, and every second one.                *)
From(reg, values) == [i \in 1..Len(values) |-> Byte(reg + i - 1, values[i])]
Every2(reg, values) == [i \in 1..Len(values) |-> Byte(reg + 2 * (i - 1), values[i])]
Bytes4(v) == <<v % 256, (v \div 256) % 256, (v \div 65536) % 256, v \div 16777216>>
Bytes2(v) == <<v % 256, (v \div 256) % 256>>

(* focus_calc_hdtv_mode() for 480p.                                        *)
focus_calc_hdtv_mode ==
    PutAll(focus_defaults,
        << <<\h0a, 4, 1, 1>>, Byte(\ha1, \h04), Byte(\hb8, \hbe), Byte(\h92, \h1a), <<\h93, 6, 1, 0>> >>
        \o From(\h10, <<0, 0, 0, 0, 0, 0, 0, 0, \hD7, \h03, \h7C, 0, \h07, \h07>>)
        \o From(\h94, <<\h3F, \h2D, \h3B, 0, \h1B, \h03>>)
        \o Every2(\hA2, <<\h4D, \h96, \h1D, \h58, \h8A, \h4A>>))

-----------------------------------------------------------------------------
(* focus_calc_mode(): the television's picture, and the picture in.        *)
Tv == [NTSC |-> [vtotal |-> 525, vactive |-> 480, hactive |-> 710, htotal |-> 858],
       PAL  |-> [vtotal |-> 625, vactive |-> 576, hactive |-> 702, htotal |-> 864]]
Shrunk(n, oc) == (n * (10000 - oc)) \div 10000
VgaVtotal(m) == (m.yres * Tv[m.std].vtotal) \div Shrunk(Tv[m.std].vactive, m.voc)
VgaHtotal(m) == (m.xres * 5) \div 4

NtscWrites ==
    << <<\h0d, 0, 1, 0>> >> \o From(\h40, <<\h21, \hF0, \h7C, \h1F>>) \o From(\h49, <<\h44, \h76, \h3B, 0>>)
    \o << Byte(\h60, \h89), Byte(\h62, \h89), Byte(\h69, \h16), Byte(\h6C, \h20), Byte(\h74, \h04),
          Byte(\h75, \h10), Byte(\h86, \h18), Byte(\h89, \h13), Byte(\h8A, \h13) >>
    \o From(\h80, <<\h67, \h21, \h0C, \h18>>)

InputWrites(m) ==
    << <<\h92, 2, 1, 0>>, <<\h92, 0, 1, 1>>, <<\h93, 6, 1, 0>> >>
    \o Every2(\hA2, <<\h4D, \h96, \h1D, \hA0, \hDB, \h7E>>)
    \o (IF m.av = "SVIDEO" THEN << <<\h47, 2, 1, 1>>, <<\h92, 0, 1, 0>> >> ELSE <<>>)

(* The scaling of the picture: up by a fraction above 1, or down by one.   *)
VerticalWrites(vtotal, vga) ==
    IF vtotal > vga
    THEN <<Byte(\h38, \h82)>> \o From(6, Bytes2(((vtotal - vga) * 65536) \div vga))
    ELSE From(6, Bytes2((((vtotal * 256) \div vga) * 256) + ((((vtotal * 256) % vga) * 256) \div vga)))
HorizontalWrites(hactive, xres) ==
    IF hactive > xres THEN From(8, <<0, (128 * (hactive - xres)) \div xres>>)
    ELSE From(8, <<(256 - ((128 * (xres - hactive)) \div xres)) % 256, 0>>)

(* focus_calc_pll_settings(): 27 MHz by the fraction ncon / ncod, divided  *)
(* by n, multiplied by mm and divided by the multiplier must be the clock  *)
(* of the picture in.  Larger products than PllMax are out of range.       *)
PllMax == 300000000
DotClock(m, n) == IF m.std = "NTSC" THEN (n * 59) + ((n * 94) \div 100) ELSE n * 50
NcoOut(ncon, ncod) ==
    FoldLeft(LAMBDA q, k : <<q[1] * k + ((q[2] * k) \div ncod), (q[2] * k) % ncod>>,
             <<ncon \div ncod, ncon % ncod>>, <<300, 300, 300>>)[1]
Multiplies(pin, p, dot) ==
    {mm \in 2..AtMost(2999, PllMax \div pin) :
        pin * mm >= 100000000 /\ (pin * mm) \div p \in dot - 1 .. dot + 1}
Inputs(nco) == {n \in 2..269 : nco \div n \in 100000..1000000}
PllTries(nco, p, dot) == UNION {{<<p, n, mm>> : mm \in Multiplies(nco \div n, p, dot)} : n \in Inputs(nco)}
PllSolutions(m, ncon) ==
    UNION {PllTries(NcoOut(ncon, Tv[m.std].htotal * Tv[m.std].vtotal * p), p, DotClock(m, ncon)) : p \in 4..5}
FirstPll(S) == CHOOSE a \in S : \A b \in S \ {a} : Before(<<0>> \o a, <<0>> \o b)

PllWrites(m, ncon, x) ==
    From(\h10, Bytes4(ncon) \o Bytes4(Tv[m.std].htotal * Tv[m.std].vtotal * x[1])
               \o Bytes2(x[3] - 17) \o Bytes2(x[2] - 1) \o <<x[1] - 1, x[1] - 1>>)

(* Without a solution the function says all went well, but leaves the      *)
(* registers of the clock and the timing as they were: uninitialised.      *)
Uninitialised == [hsyncstart |-> 0, htotal |-> 0, vsyncstart |-> 0, vtotal |-> 0]
FocusPart(m) ==
    PutAll(focus_defaults,
        (IF m.std = "NTSC" THEN NtscWrites ELSE <<>>) \o InputWrites(m)
        \o From(4, Bytes2(m.xres + 64)) \o VerticalWrites(Tv[m.std].vtotal, VgaVtotal(m))
        \o HorizontalWrites(Shrunk(Tv[m.std].hactive, m.hoc), m.xres))
FocusTiming(ht, vt) ==
    [hsyncstart |-> (ht * 95) \div 100, htotal |-> ht - 1, vsyncstart |-> (vt * 95) \div 100, vtotal |-> vt - 1]
FocusMode(m, ncon, S) ==
    IF S = {} THEN [regs |-> FocusPart(m), timing |-> Uninitialised]
    ELSE [regs |-> PutAll(FocusPart(m), PllWrites(m, ncon, FirstPll(S))),
          timing |-> FocusTiming(VgaHtotal(m), VgaVtotal(m))]
FocusFor(m, ncon) == FocusMode(m, ncon, PllSolutions(m, ncon))
focus_calc_mode(m) == FocusFor(m, VgaHtotal(m) * VgaVtotal(m))

-----------------------------------------------------------------------------
(* DetectVideoStd(), from byte 0x5A of the EEPROM, and DetectAvType(),     *)
(* from the SMC's code for the cable.                                      *)
DetectVideoStd(b) == IF b = \h40 THEN "NTSC" ELSE "PAL"
DetectAvType(code) ==
    CASE code = 0 -> "SCART" [] code = 1 -> "HDTV" [] code = 2 -> "VGA_SOG" [] code = 4 -> "SVIDEO"
      [] code = 7 -> "VGA" [] OTHER -> "COMPOSITE"

(* DetectVideoEncoder(): the first of the two addresses that answers.      *)
DetectVideoEncoder(answers) ==
    IF \h45 \in answers THEN "CONEXANT" ELSE IF \h6a \in answers THEN "FOCUS" ELSE "XCALIBUR"

(* Does the television get 1024x576?                                       *)
WideMode(flags, encoder) == flags % 2 = 1 /\ encoder = "CONEXANT"

(* Overscan compensation in 1/10000.                                       *)
Overscan(std) == IF std = "PAL" THEN [hoc |-> 1344, voc |-> 1424] ELSE [hoc |-> 1511, voc |-> 1481]
TvMode(std, av, wide) ==
    [xres |-> IF wide THEN 1024 ELSE 640, yres |-> IF wide THEN 576 ELSE 480, std |-> std, av |-> av]
    @@ Overscan(std)

Timing(hs, ht, vs, vt) == [hsyncstart |-> hs, htotal |-> ht, vsyncstart |-> vs, vtotal |-> vt]

(* xcalibur_calc_mode(): both standards have fixed timings.                *)
xcalibur_calc_mode(std) == IF std = "PAL" THEN Timing(703, 799, 481, 519) ELSE Timing(683, 779, 487, 524)

(* A mode: does it work, the picture, the GPU's timing, the encoder's      *)
(* registers (none are modelled for the Xcalibur).                         *)
NoRegs == [r \in {} |-> 0]
Mode(ok, width, height, margin, timing, regs) ==
    [ok |-> ok, width |-> width, height |-> height, margin |-> margin, timing |-> timing, regs |-> regs]

ConexantTv(m, s, p) ==
    IF p = NoParams THEN Mode(FALSE, m.xres, m.yres, 0, Uninitialised, default_mode)
    ELSE Mode(TRUE, m.xres, m.yres, IF m.xres = 1024 THEN 20 ELSE 0, ConexantTiming(p), ConexantRegsFor(m, s, p))
FocusTv(m, f) == Mode(TRUE, m.xres, m.yres, 0, f.timing, f.regs)
Sdtv(encoder, m) ==
    CASE encoder = "CONEXANT" -> ConexantTv(m, Vidstda[m.std], conexant_calc_mode_params(m, Vidstda[m.std]))
      [] encoder = "FOCUS"    -> FocusTv(m, focus_calc_mode(m))
      [] encoder = "XCALIBUR" -> Mode(TRUE, m.xres, m.yres, 0, xcalibur_calc_mode(m.std), NoRegs)

(* 720x480 on a high definition television.                                *)
Hdtv(encoder) ==
    Mode(TRUE, 720, 480, 0,
         IF encoder = "XCALIBUR" THEN Timing(738, 779, 489, 524) ELSE Timing(738, 858, 489, 525),
         CASE encoder = "CONEXANT" -> conexant_calc_hdtv_mode(12)
           [] encoder = "FOCUS"    -> focus_calc_hdtv_mode
           [] encoder = "XCALIBUR" -> NoRegs)

(* 800x600 on a monitor: "No support for these yet" but for the Conexant.  *)
Vga(encoder, av) ==
    Mode(encoder = "CONEXANT", 800, 600, 20, Timing(900, 1028, 614, 630),
         IF encoder = "CONEXANT" THEN conexant_calc_vga_mode(av, 16) ELSE NoRegs)

ModeFor(encoder, av, std, wide) ==
    CASE av = "HDTV" -> Hdtv(encoder)
      [] av \in {"VGA", "VGA_SOG"} -> Vga(encoder, av)
      [] OTHER -> Sdtv(encoder, TvMode(std, av, wide))

-----------------------------------------------------------------------------
(* SetGPURegister(): the CRTC registers, whose bits for one number are     *)
(* spread over several, and the GPU's own timing registers.                *)
CrtcRegs == 0..\h3f
CrtcPrepared(crtc) ==
    PutAll(crtc, << Byte(\h14, 0), Byte(\h17, \he3), Byte(\h19, \h10), Byte(\h1b, 5), Byte(\h22, \hff), Byte(\h33, \h11) >>)
HorizontalCrtc(xres, htotal) ==
    << Byte(4, (htotal - 32) \div 8), <<5, 0, 5, ((htotal - 16) \div 8) - 1>>,
       Byte(0, (htotal \div 8) - 5), <<3, 0, 5, (htotal \div 8) - 1>>,
       <<5, 7, 1, ((htotal \div 8) - 1) \div 32>>, Byte(1, (xres \div 8) - 1), Byte(2, (xres \div 8) - 1),
       <<\h17, 7, 1, 1>>, <<\h19, 5, 3, ((xres \div 8) * 4) \div 256>>, Byte(\h13, (xres \div 8) * 4) >>
VerticalCrtc(last, vstart, vtotal) ==
    << <<7, 7, 1, vstart \div 512>>, <<7, 2, 1, vstart \div 256>>, Byte(\h10, vstart),
       <<7, 5, 1, vtotal \div 512>>, <<7, 0, 1, vtotal \div 256>>, Byte(6, vtotal), <<\h16, 0, 7, vtotal>>,
       <<7, 6, 1, last \div 512>>, <<7, 1, 1, last \div 256>>, Byte(\h12, last),
       <<9, 5, 1, last \div 512>>, <<7, 3, 1, last \div 256>>, Byte(\h15, last),
       <<7, 4, 1, 1>>, <<9, 6, 1, 1>>, Byte(\h18, \hff) >>
OverflowCrtc(xres, htotal, last, vstart, vtotal) ==
    << Byte(\h1a, IF xres < 1280 THEN 4 ELSE 0),
       Byte(\h25, (((((htotal \div 8) - 5) \div 64) % 2) * 16) + ((last \div 1024) % 2) * 10
                  + ((vstart \div 1024) % 2) * 4 + ((vtotal \div 1024) % 2)),
       Byte(\h28, \h83), <<\h2d, 0, 5, IF (htotal \div 8) - 1 >= 260 THEN 1 ELSE 0>> >>
CrtcWrites(m) ==
    HorizontalCrtc(m.width, m.timing.htotal)
    \o VerticalCrtc(m.height - 1, m.timing.vsyncstart, m.timing.vtotal)
    \o OverflowCrtc(m.width, m.timing.htotal, m.height - 1, m.timing.vsyncstart, m.timing.vtotal)

SetGPURegister(crtc, m) == PutAll(crtc, CrtcWrites(m))

(* The encoder is loaded: the Conexant's reset and output bits are raised  *)
(* after the other registers, its autoconfiguration is not touched, and    *)
(* its output levels come last.                                            *)
LoadConexant(old, regs) ==
    PutAll([r \in ConexantRegs |-> IF r = \hb8 THEN old[r] ELSE regs[r]],
           << <<\h6c, 7, 1, 1>>, <<\hc4, 0, 1, 1>> >>)
LevelsConexant(chip) == PutAll(chip, <<Byte(\ha8, \h81), Byte(\haa, \h49), Byte(\hac, \h8c)>>)
LoadFocus(regs) == regs
OutputFocus(chip) == PutAll(chip, << <<\h0c, 0, 1, 0>> >>)

(* Nothing is loaded when the mode does not work; the output is turned on  *)
(* all the same.                                                           *)
Chip(encoder, old, m) ==
    CASE encoder = "CONEXANT" -> LevelsConexant(IF m.ok THEN LoadConexant(old, m.regs) ELSE old)
      [] encoder = "FOCUS"    -> OutputFocus(IF m.ok THEN LoadFocus(m.regs) ELSE old)
      [] encoder = "XCALIBUR" -> NoRegs

Screen(encoder, av, std, crtc, old, m) ==
    [ok |-> m.ok, encoder |-> encoder, av |-> av, std |-> std, width |-> m.width, height |-> m.height,
     margin |-> m.margin, timing |-> m.timing,
     crtc |-> IF m.ok THEN SetGPURegister(CrtcPrepared(crtc), m) ELSE CrtcPrepared(crtc), chip |-> Chip(encoder, old, m)]
==============================================================================
