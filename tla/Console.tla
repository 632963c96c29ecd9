------------------------------- MODULE Console -------------------------------
(***************************************************************************)
(* BootResetAction() (boot/BootResetAction.c): the EEPROM is read, the     *)
(* picture is set up for the console's encoder, cable and standard, the    *)
(* backdrop is unpacked, and the menus run, whose settings and password    *)
(* come from the EEPROM.  What it starts in between (heap, interrupts, USB,*)
(* IDE) is in modules of its own; what it prints is left out.              *)
(*                                                                         *)
(* A console is a record:                                                  *)
(*   chip       the name of the content of its EEPROM                      *)
(*   answers    the addresses of the encoders that answer on the bus       *)
(*   cable      the SMC's code for the cable                               *)
(*   file       the name of the backdrop                                   *)
(*   hw         what IconMenuInit() finds, see Menu                        *)
(*   locked     is the password of the hard disk set?                      *)
(*   attended   does somebody press keys?                                  *)
(***************************************************************************)
EXTENDS Settings, Sha1, Jpeg

-----------------------------------------------------------------------------
(* The password of the hard disk: drivers/ide/BootHddKey.c, lib/crypt/     *)
(* rc4.c and CalculateDrivePassword() of drivers/ide/BootIde.c.            *)
(*                                                                         *)
(* The first 0x30 bytes of the EEPROM hold a hash, a confounder and the    *)
(* key of the drive with the region, the last two enciphered with a key    *)
(* made from the hash.  The makers' secret differs between the console's   *)
(* versions 9 to 12; the code knows it only as the state a hash has after  *)
(* its first block, so it tries all four.                                  *)

Versions == 9..12

(* HMAC1hddReset() and HMAC2hddReset(): the inner and the outer hash after *)
(* the block that held the secret; 512 bits are behind them.               *)
Inner == [v \in Versions |->
    CASE v = 9  -> << <<34297, 58650>>, <<57414, 5074>>, <<28038, 42252>>, <<30659, 11836>>, <<19415, 6052>> >>
      [] v = 10 -> << <<29202, 30245>>, <<13156, 29369>>, <<48736, 39914>>, <<62814, 8811>>, <<39317, 36268>> >>
      [] v = 11 -> << <<14768, 28281>>, <<51645, 9704>>, <<56262, 46232>>, <<16564, 14493>>, <<34491, 55277>> >>
      [] v = 12 -> << <<32856, 30266>>, <<63869, 19982>>, <<34394, 38754>>, <<35389, 37389>>, <<2201, 23340>> >>]
Outer == [v \in Versions |->
    CASE v = 9  -> << <<23930, 40043>>, <<57746, 11243>>, <<47148, 52668>>, <<12599, 43828>>, <<18539, 21171>> >>
      [] v = 10 -> << <<30276, 7489>>, <<19944, 9817>>, <<11918, 63582>>, <<45654, 64202>>, <<50430, 11752>> >>
      [] v = 11 -> << <<39753, 48851>>, <<33972, 12540>>, <<27527, 18893>>, <<60414, 24549>>, <<55662, 29587>> >>
      [] v = 12 -> << <<263, 21255>>, <<41713, 57399>>, <<4486, 61162>>, <<35034, 39314>>, <<5770, 22025>> >>]

HMAC1hddReset(v) == [SHA1Reset EXCEPT !.hash = Inner[v], !.bits = 512]
HMAC2hddReset(v) == [SHA1Reset EXCEPT !.hash = Outer[v], !.bits = 512]

DigestOf(ctx) == SHA1Result(ctx, << >>).digest

(* HMAC_hdd_calculation() over the buffers of parts.                       *)
HMAC_hdd_calculation(v, parts) ==
    DigestOf(SHA1Input(HMAC2hddReset(v), DigestOf(FoldLeft(SHA1Input, HMAC1hddReset(v), parts))))

(* HMAC_SHA1() with a key of at most a block.                              *)
KeyPadded(key, pad) == [i \in 1..BlockSize |-> IF i <= Len(key) THEN key[i] ^^ pad ELSE pad]
HMAC_SHA1(key, text1, text2) ==
    Digest(KeyPadded(key, 92)
           \o DigestOf(FoldLeft(SHA1Input, SHA1Reset, <<KeyPadded(key, 54), text1, text2>>)))

-----------------------------------------------------------------------------
(* rc4.c: a key is the permutation state and the indices x and y.          *)
Swap(state, i, j) == [state EXCEPT ![i] = state[j], ![j] = state[i]]

(* The swaps for the counters from..to: those of the first half, then,     *)
(* once index2 is a byte (TLC looks), those of the second.                 *)
MixAt(r, counter, at) == [state |-> Swap(r.state, counter, at), index2 |-> at]
RECURSIVE Mix(_, _, _, _)
Mix(key, r, from, to) ==
    CASE r.index2 \in 0..255 ->
           IF from = to THEN MixAt(r, from, (key[(from % Len(key)) + 1] + r.state[from] + r.index2) % 256)
           ELSE Mix(key, Mix(key, r, from, (from + to) \div 2), (from + to) \div 2 + 1, to)
rc4_prepare_key(key) ==
    [state |-> Mix(key, [state |-> [i \in 0..255 |-> i], index2 |-> 0], 0, 255).state, x |-> 0, y |-> 0]

(* rc4_crypt(): the buffer enciphered or deciphered, and the key after it. *)
Turn(k, x, y) == [state |-> Swap(k.state, x, y), x |-> x, y |-> y]
Advance(k) == LET x == (k.x + 1) % 256 IN Turn(k, x, (k.state[x] + k.y) % 256)
Stream(k) == k.state[(k.state[k.x] + k.state[k.y]) % 256]
Crypt(r, byte) == LET k == Advance(r.key) IN [out |-> Append(r.out, byte ^^ Stream(k)), key |-> k]
rc4_crypt(bytes, key) == FoldLeft(Crypt, [out |-> << >>, key |-> key], bytes)

-----------------------------------------------------------------------------
(* BootHddKeyGenerateEepromKeyData(): the version whose secret confirms    *)
(* the hash, 0 if none does, and the key deciphered by the last try.       *)
HashOf(e) == SubSeq(e, 1, 20)

(* The confounder and the data are deciphered in two calls.                *)
DataOf(e, begun) == begun.out \o rc4_crypt(SubSeq(e, 29, 48), begun.key).out
RestartedOf(e, key) == rc4_crypt(SubSeq(e, 21, 28), key).out \o rc4_crypt(SubSeq(e, 29, 48), key).out
(* Deviation: the two parts are enciphered each from the start of the key. *)
DecipheredApart(e, v) == RestartedOf(e, rc4_prepare_key(HMAC_hdd_calculation(v, <<HashOf(e)>>)))

Deciphered(e, v) ==
    DataOf(e, rc4_crypt(SubSeq(e, 21, 28), rc4_prepare_key(HMAC_hdd_calculation(v, <<HashOf(e)>>))))

Confirms(e, v, data) == HashOf(e) = HMAC_hdd_calculation(v, <<SubSeq(data, 1, 8), SubSeq(data, 9, 28)>>)

RECURSIVE Tried(_, _, _)
Tried(e, v, data) ==
    IF Confirms(e, v, data) THEN [version |-> v, key |-> SubSeq(data, 9, 24)]
    ELSE IF v = 12 THEN [version |-> 0, key |-> SubSeq(data, 9, 24)]
    ELSE Tried(e, v + 1, Deciphered(e, v + 1))
BootHddKeyGenerateEepromKeyData(e) == Tried(e, 9, Deciphered(e, 9))

(* copy_swap_trim(): the text of the drive's answer, whose words hold the  *)
(* first character in the high byte, without the spaces at its end.        *)
Swapped(src) == [i \in 1..Len(src) |-> IF i % 2 = 1 THEN src[i + 1] ELSE src[i - 1]]
Trimmed(dst) == SubSeq(dst, 1, CHOOSE n \in 0..Len(dst) :
                                  /\ n > 0 => dst[n] # 32
                                  /\ \A i \in n + 1 .. Len(dst) : dst[i] = 32)
copy_swap_trim(src) == Trimmed(Swapped(src))

(* CalculateDrivePassword(): fails when no version confirmed the hash.     *)
NoPassword == << >>
PasswordFrom(k, drive) ==
    IF k.version = 0 THEN NoPassword
    ELSE HMAC_SHA1(k.key, copy_swap_trim(drive.model), copy_swap_trim(drive.serial))
CalculateDrivePassword(e, drive) == PasswordFrom(BootHddKeyGenerateEepromKeyData(SubSeq(e, 1, 48)), drive)

-----------------------------------------------------------------------------
CONSTANTS Consoles,   \* the consoles
          Chips,      \* Chips[n]: the bytes of the EEPROM named n
          Drive,      \* what the hard disk says of itself
          Secrets,    \* Secrets[n]: the right password with the EEPROM named n
          Files,      \* the bytes of the backdrops by name
          Originals   \* Originals[f]: the picture that file f holds, NoPicture if damaged

ASSUME ConsoleAssumption == \A c \in Consoles : c.hw \in Hardware

V == INSTANCE Video

VARIABLES console,
          screen,     \* mode, registers of the GPU and of the encoder
          jpeg,       \* jpegBackdrop
          known,      \* a password once computed, and the bytes it was computed from
          told        \* the password last given out or sent to the drive
boot == <<console, screen, jpeg, known, told>>
vars == <<settingsVars, boot>>

Nothing == <<>>
Corrupt == <<-1>>     \* "Unable to calculate drive password - eeprom corrupt?"
NoPicture == <<>>

Init ==
    /\ console \in Consoles /\ sec = console.locked
    /\ SettingsInit(Chips[console.chip])
    /\ screen = <<>> /\ jpeg = <<>> /\ told = Nothing
    /\ known = [of |-> <<>>, is |-> NoPassword]

(* The drive's password is computed from the first 0x30 bytes of the       *)
(* shadow, each time it is needed; where somebody may ask for it, TLC      *)
(* computes it here and knows it as long as these bytes do not change.     *)
Sealed(bytes) == BytesOf(bytes, 0, 48)

ReadEeprom ==
    /\ CopyEeprom
    /\ known' = IF ~console.attended THEN known
                ELSE [of |-> Sealed(eeprom.chip), is |-> CalculateDrivePassword(Sealed(eeprom.chip), Drive)]
    /\ UNCHANGED <<console, screen, jpeg, told>>

(* BootVgaInitializationKernelNG().                                        *)
Fresh(encoder) == IF encoder = "FOCUS" THEN V!focus_defaults ELSE V!Cleared
ScreenFor(encoder, av, std, wide) ==
    V!Screen(encoder, av, std, [r \in V!CrtcRegs |-> 0], Fresh(encoder), V!ModeFor(encoder, av, std, wide))
ScreenOf(shadow, answers, cable) ==
    ScreenFor(V!DetectVideoEncoder(answers), V!DetectAvType(cable), V!DetectVideoStd(shadow[\h5a]),
              V!WideMode(shadow[VideoFlags2], V!DetectVideoEncoder(answers)))
InitVideo ==
    /\ Goes("video", "backdrop")
    /\ screen' = ScreenOf(eeprom.shadow, console.answers, console.cable)
    /\ UNCHANGED <<console, jpeg, known, told>>

(* A picture that cannot be decoded is reported, and the boot goes on.     *)
UnpackBackdrop ==
    /\ Goes("backdrop", "menus")
    /\ jpeg' = BootVideoJpegUnpackAsRgb(Files[console.file])
    /\ UNCHANGED <<console, screen, known, told>>

StartMenus == StartMenusOn(console.hw) /\ UNCHANGED boot

-----------------------------------------------------------------------------
(* The password the menu's functions compute.                              *)
Password == IF known.of = Sealed(eeprom.shadow) THEN known.is
            ELSE CalculateDrivePassword(Sealed(eeprom.shadow), Drive)
HasPassword == Password # NoPassword
Given == IF HasPassword THEN Password ELSE Corrupt

MenuSecurityChange ==
    /\ Asked /\ SecurityChange(HasPassword)
    /\ told' = IF Confirm_Result THEN Given ELSE told
    /\ UNCHANGED <<stage, eeprom, console, screen, jpeg, known>>

MenuDisplay ==
    /\ run.do = "wait" /\ Display(HasPassword) /\ told' = Given
    /\ UNCHANGED <<stage, eeprom, console, screen, jpeg, known>>

-----------------------------------------------------------------------------
(* IconMenuDraw(): where the icons on the screen, and the arrows beside    *)
(* them, are drawn, and where on the backdrop's first lines they are taken *)
(* from.  BootVideoJpegBlitBlend() touches a square of ICON_WIDTH on the   *)
(* screen, in the icons and, at the place on the screen, in the backdrop.  *)
ICON_WIDTH == 64
Slots(hw) ==
    [i \in 1..hw.cds |-> 2] \o (IF hw.fatx = "" THEN <<>> ELSE <<4>>)
    \o [i \in 1..Len(hw.natives) |-> 1] \o <<3, 0>>
Blit(x, y, slot) == [x |-> x, y |-> y, from |-> slot * ICON_WIDTH]

(* Deviation: the bays are counted from the left edge of the next one.     *)
BayLate(offset, bay) == offset + 140 * (bay + 2)

Bay(offset, bay) == offset + 140 * (bay + 1)
Left(offset, y) == IF first > 1 THEN {Blit(offset + 50, y, 5)} ELSE {}
Right(offset, y) == IF first + Bays <= Len(icons) THEN {Blit(offset + 510, y, 6)} ELSE {}
IconMenuDraw(offset, y, slots) ==
    {Blit(Bay(offset, i - first), y, slots[i]) : i \in {i \in DOMAIN icons : i \in first .. first + Bays - 1}}
    \cup (IF first + Bays - 1 \in DOMAIN icons THEN Left(offset, y) \cup Right(offset, y) ELSE {})
Blits == IconMenuDraw((screen.width - 640) \div 2, screen.height - 80 - 74, Slots(console.hw))

(* BootVideoClearScreen() copies the lines of the backdrop below the icons.*)
LastCleared == screen.height - 2

-----------------------------------------------------------------------------
Startup == ReadEeprom \/ InitVideo \/ UnpackBackdrop \/ StartMenus
Aside == UNCHANGED <<stage, eeprom, boot>>
Program == \/ stage = "menu" /\ Plain /\ Aside
           \/ MenuSecurityChange \/ MenuDisplay
           \/ StoreOption /\ UNCHANGED boot
Strikes == stage = "menu" /\ Timeout /\ Aside
Pressed == stage = "menu" /\ console.attended /\ User /\ Aside
Rests == stage = "menu" /\ (Gone \/ Idle) /\ Aside

Next == Startup \/ Program \/ Strikes \/ Pressed \/ Rests
Spec == Init /\ [][Next]_vars

(* BootResetAction() comes to the menus, the functions of the menus return *)
(* or leave Cromwell, and the timer ticks as long as the icon menu polls;  *)
(* the user does as he likes.  Each of these is weak fairness of actions   *)
(* that cannot go on for ever, stated by what they are enabled for.        *)
Rested == run = NoCall \/ run.do = "gone"
FairSpec == /\ Spec
            /\ []<>(stage = "menu") /\ []<>Rested /\ []<>~(stage = "menu" /\ IconPolls /\ ticks)

-----------------------------------------------------------------------------
(* The password shown, and the one a drive is locked or unlocked with, is  *)
(* the right one for every version of the console, whatever settings were  *)
(* changed before; with a damaged EEPROM none is given out.                *)
PasswordRight == told # Nothing => told = Secrets[console.chip]

(* What has to stay right in the EEPROM, however the settings are changed: *)
(* the checksums of its two sections of settings, and the key behind the   *)
(* password.                                                               *)
EepromRight == ChecksumsRight /\ PasswordRight

(* The bitmap is the picture its file holds, up to rounding: Tolerance     *)
(* thousandths of a step of colour.  A damaged file is refused.            *)
Tolerance == 2000
Near(rgb, meant) == \A c \in 1..3 : 1000 * rgb[c] - meant[c] \in -Tolerance .. Tolerance
SamePicture(bitmap, pic) ==
    /\ bitmap.err = 0
    /\ \A y \in 0 .. pic.height - 1, x \in 0 .. pic.width - 1 :
          Near(Pixel(bitmap, y, x), Meaning(pic, y, x))
PictureShown ==
    stage = "menus" =>
        IF Originals[console.file] = NoPicture THEN jpeg.err # 0
        ELSE SamePicture(jpeg, Originals[console.file])

(* The numbers that the CRTC's registers hold.                             *)
Wired(parts) == FoldLeft(LAMBDA n, p : n + p[4] * V!Get(screen.crtc, p[1], p[2], p[3]), 0, parts)
CrtcAgrees(t) ==
    /\ Wired(<< <<6, 0, 8, 1>>, <<7, 0, 1, 256>>, <<7, 5, 1, 512>>, <<37, 0, 1, 1024>> >>) = t.vtotal
    /\ Wired(<< <<16, 0, 8, 1>>, <<7, 2, 1, 256>>, <<7, 7, 1, 512>>, <<37, 2, 1, 1024>> >>) = t.vsyncstart
    /\ Wired(<< <<18, 0, 8, 1>>, <<7, 1, 1, 256>>, <<7, 6, 1, 512>> >>) = screen.height - 1
    /\ Wired(<< <<19, 0, 8, 1>>, <<25, 5, 3, 256>> >>) * 8 = screen.width * 4

(* The encoder's clocks and lines: a picture in takes as long as one out.  *)
ChipHolds(parts) == FoldLeft(LAMBDA n, p : n + p[4] * V!Get(screen.chip, p[1], p[2], p[3]), 0, parts)
ConexantAgrees(t, clki, clko, lines, ratio) ==
    /\ clki = t.htotal + 1 /\ lines = t.vtotal + 1
    /\ 4 * clki * lines = V!Vidstda[screen.std].lines * clko * ratio
FocusAgrees(t, ncon, ncod, n, m, p) ==
    /\ ncon = (t.htotal + 1) * (t.vtotal + 1)
    /\ ((V!NcoOut(ncon, ncod) \div n) * m) \div p - V!DotClock([std |-> screen.std], ncon) \in -1 .. 1
EncoderAgrees(t) ==
    CASE screen.encoder = "CONEXANT" ->
           ConexantAgrees(t, ChipHolds(<< <<\h8a, 0, 8, 1>>, <<\h8e, 0, 3, 256>> >>),
                             ChipHolds(<< <<\h76, 0, 8, 1>>, <<\h86, 0, 4, 256>> >>),
                             ChipHolds(<< <<\h90, 0, 8, 1>>, <<\h96, 0, 2, 256>>, <<\h38, 1, 1, 1024>> >>),
                             2 + V!Get(screen.chip, \h38, 5, 1))
      [] screen.encoder = "FOCUS" ->
           FocusAgrees(t, ChipHolds(<< <<16, 0, 8, 1>>, <<17, 0, 8, 256>>, <<18, 0, 8, 65536>> >>),
                          ChipHolds(<< <<20, 0, 8, 1>>, <<21, 0, 8, 256>>, <<22, 0, 8, 65536>> >>),
                          1 + ChipHolds(<< <<26, 0, 8, 1>>, <<27, 0, 8, 256>> >>),
                          17 + ChipHolds(<< <<24, 0, 8, 1>>, <<25, 0, 8, 256>> >>), 1 + screen.chip[28])
      [] OTHER -> TRUE

(* Whenever a mode was found, the sync pulses come after the visible       *)
(* picture and before the end of the line and the frame, the CRTC's        *)
(* registers, scattered over several bytes, give the same numbers, and the *)
(* television's encoder is clocked so that no line is lost or repeated.    *)
PictureTimed ==
    stage = "backdrop" /\ screen.ok =>
        /\ screen.width <= screen.timing.hsyncstart /\ screen.timing.hsyncstart + 32 <= screen.timing.htotal
        /\ screen.height <= screen.timing.vsyncstart /\ screen.timing.vsyncstart + 3 <= screen.timing.vtotal
        /\ CrtcAgrees(screen.timing)
        /\ screen.av \in {"COMPOSITE", "SVIDEO", "SCART"} => EncoderAgrees(screen.timing)

(* Icons and arrows are drawn on the screen, from the backdrop and none    *)
(* over another, in every mode and however the menu was scrolled, given a  *)
(* backdrop of the screen's size below a line of seven icons; and once the *)
(* preselected icon is among those drawn, the selected one always is.      *)
Ample == jpeg.width >= screen.width /\ jpeg.height >= screen.height + ICON_WIDTH /\ jpeg.width >= 7 * ICON_WIDTH
Apart(a, b) == a.x + ICON_WIDTH <= b.x \/ b.x + ICON_WIDTH <= a.x
IconsDrawn ==
    stage = "menu" /\ IconPolls =>
        /\ Ample => /\ \A b \in Blits : /\ b.x \in 0 .. screen.width - ICON_WIDTH
                                        /\ b.y \in 0 .. screen.height - ICON_WIDTH
                                        /\ b.from \in 0 .. jpeg.width - ICON_WIDTH
                    /\ LastCleared + ICON_WIDTH < jpeg.height
        /\ \A a, b \in Blits : a # b => Apart(a, b)
        /\ Preselected(console.hw) <= Bays => sel \in first .. first + Bays - 1

(* What the screen shows is right from the file to the tube: the decoded   *)
(* backdrop, the registers that time it and the icons drawn over it.       *)
ScreenRight == PictureShown /\ PictureTimed /\ IconsDrawn

(* "Otherwise, it will proceed quietly and boot the default boot item": an *)
(* unattended console whose preselected icon has a configuration comes     *)
(* from power-on to boot an entry of it with no key pressed, nested lists  *)
(* included, whatever its EEPROM, cable, encoder and backdrop are.         *)
Unattended == LET hw == console.hw IN Icons(hw)[Preselected(hw)].do = "draw"
UnattendedBoots == (stage = "eeprom" /\ Unattended) ~> (run.do = "boot" \/ keys > 0)
==============================================================================
