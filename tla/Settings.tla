------------------------------ MODULE Settings ------------------------------
(***************************************************************************)
(* The settings of the television: the EEPROM that holds them, with the    *)
(* copy of it that BootResetAction() makes at start-up, and the functions  *)
(* of the video menu, which change both.  Menu has the menus, Console the  *)
(* rest of BootResetAction().                                              *)
(***************************************************************************)
EXTENDS Menu

-----------------------------------------------------------------------------
(* lib/eeprom/BootEEPROM.c: the 256 bytes of the EEPROM chip, the copy of  *)
(* them made at start-up (the global eeprom, here the shadow), and the two *)
(* functions that change a setting in both and bring the checksum of the   *)
(* settings on the chip up to date.  A chip or a shadow is a function from *)
(* 0..255 to bytes.                                                        *)

Address == 0..255
TimeZoneBias == 100      \* 0x64, where the user's settings begin
SerialNumber == 52       \* 0x34, where the factory's settings begin
Checksum3 == 96          \* 0x60, of the user's settings
Checksum2 == 48          \* 0x30, of the factory's settings
VideoFlags2 == 150       \* 0x96, bit 0: widescreen
VideoStandard == 88      \* 0x58, four bytes

(* The bytes of a VIDEO_STANDARD, lowest first.                            *)
StandardBytes == [USA |-> <<0, 1, 64, 0>>, Japan |-> <<0, 2, 64, 0>>, PAL |-> <<0, 3, 128, 0>>]

(* BootEepromReadEntireEEPROM(): byte by byte over the bus.                *)
BootEepromReadEntireEEPROM(chip) == [i \in Address |-> chip[i]]

(* The captions VideoMenuInit() gives the two settings.                    *)
Wide(shadow) == shadow[VideoFlags2] % 2 = 1
Standards(shadow) == {s \in DOMAIN StandardBytes :
                         \A i \in 1..4 : shadow[VideoStandard + i - 1] = StandardBytes[s][i]}
Standard(shadow) == IF Standards(shadow) = {} THEN "Unknown" ELSE CHOOSE s \in Standards(shadow) : TRUE

-----------------------------------------------------------------------------
(* EepromCRC() of the len bytes from address at: they are moved up by one  *)
(* with the last one first, and from 0xFFFF every fourth 16-bit word is    *)
(* subtracted, beginning at each of the four positions.                    *)
BytesOf(s, at, len) == [i \in 1..len |-> s[at + i - 1]]
Rotated(data) == <<Last(data)>> \o Front(data) \o <<0, 0, 0, 0>>
WordAt(crcData, l) == crcData[l + 1] + 256 * crcData[l + 2]
Subtracted(crcData, len, pos) ==
    FoldLeft(LAMBDA v, l : (v - WordAt(crcData, l)) % 65536, 65535,
             SelectSeq([i \in 1..len |-> i - 1], LAMBDA l : l % 4 = pos))
CrcOf(crcData, len) ==
    <<Subtracted(crcData, len, 0) \div 256, Subtracted(crcData, len, 1) \div 256,
      Subtracted(crcData, len, 2) \div 256, Subtracted(crcData, len, 3) \div 256>>
EepromCRC(s, at, len) == CrcOf(Rotated(BytesOf(s, at, len)), len)

(* WriteToSMBus() of bytes to the chip, one call for each byte.            *)
Written(chip, at, bytes) ==
    [i \in Address |-> IF i \in at .. at + Len(bytes) - 1 THEN bytes[i - at + 1] ELSE chip[i]]

(* EepromSetWidescreen() and EepromSetVideoStandard() on e, the record of  *)
(* chip and shadow.  Only the chip gets the new checksum.                  *)

(* Deviation: the copy is not changed.                                     *)
WithFlagsOnChip(e, b) == [e EXCEPT !.chip = Written(@, VideoFlags2, <<b>>)]

WithFlags(e, b) == [chip |-> Written(e.chip, VideoFlags2, <<b>>),
                    shadow |-> Written(e.shadow, VideoFlags2, <<b>>)]
SummedUser(e) == [e EXCEPT !.chip = Written(@, Checksum3, EepromCRC(e.shadow, TimeZoneBias, 91))]
EepromSetWidescreen(e, enable) == SummedUser(WithFlags(e, IF enable THEN 1 ELSE 0))

WithStandard(e, s) == [chip |-> Written(e.chip, VideoStandard, StandardBytes[s]),
                       shadow |-> Written(e.shadow, VideoStandard, StandardBytes[s])]
SummedFactory(e) == [e EXCEPT !.chip = Written(@, Checksum2, EepromCRC(e.shadow, SerialNumber, 40))]

EepromSetVideoStandard(e, s) == SummedFactory(WithStandard(e, s))

-----------------------------------------------------------------------------
(* What a checksum of the bytes from..to is: for each place in a word the  *)
(* complement of the sum of the bytes at that place and of the carry from  *)
(* the sum at the place below.                                             *)
PlaceSum(chip, from, to, p) == MapThenSumSet(LAMBDA i : chip[i], {i \in from..to : i % 4 = p})
PlaceCheck(below, at) == 255 - ((at + (below \div 256)) % 256)
CheckOf(s0, s1, s2, s3) == <<PlaceCheck(s3, s0), PlaceCheck(s0, s1), PlaceCheck(s1, s2), PlaceCheck(s2, s3)>>
Checksum(chip, from, to) ==
    CheckOf(PlaceSum(chip, from, to, 0), PlaceSum(chip, from, to, 1),
            PlaceSum(chip, from, to, 2), PlaceSum(chip, from, to, 3))

-----------------------------------------------------------------------------
VARIABLES stage,      \* how far BootResetAction() has come
          eeprom      \* the chip and its copy, the shadow
settingsVars == <<menuVars, stage, eeprom>>

SettingsInit(content) ==
    /\ MenuInit /\ stage = "eeprom"
    /\ eeprom = [chip |-> content, shadow |-> [i \in Address |-> 0]]

CopyEeprom ==
    /\ stage = "eeprom" /\ stage' = "video"
    /\ eeprom' = [eeprom EXCEPT !.shadow = BootEepromReadEntireEEPROM(eeprom.chip)]
    /\ UNCHANGED menuVars

(* What BootResetAction() does between the two leaves the settings alone.  *)
Goes(from, to) == stage = from /\ stage' = to /\ UNCHANGED <<menuVars, eeprom>>

StartMenusOn(hw) ==
    /\ stage = "menus" /\ stage' = "menu"
    /\ IconMenuInit(hw, Standard(eeprom.shadow), Wide(eeprom.shadow))
    /\ UNCHANGED eeprom

(* The settings of the television are stored; SetSerialEnabled() and       *)
(* SetSerialIRQ() have nothing to do with the EEPROM.                      *)
StoreOption ==
    /\ SetOption
    /\ eeprom' = CASE run.arg = "wide" -> EepromSetWidescreen(eeprom, set'.wide)
                   [] run.arg = "tv"   -> EepromSetVideoStandard(eeprom, set'.tv)
                   [] OTHER            -> eeprom
    /\ UNCHANGED stage

(* The settings by themselves, whatever the chip holds, the machine has    *)
(* and the user does.                                                      *)
SettingsNext ==
    \/ CopyEeprom \/ Goes("video", "backdrop") \/ Goes("backdrop", "menus")
    \/ \E hw \in Hardware : StartMenusOn(hw)
    \/ stage = "menu" /\ StoreOption
    \/ /\ stage = "menu" /\ UNCHANGED <<stage, eeprom>>
       /\ \/ Plain \/ Timeout \/ User \/ Gone \/ Idle
          \/ \E password \in BOOLEAN : SecurityChange(password) \/ Display(password)

SettingsSpec ==
    (\E content \in [Address -> 0 .. 255] : SettingsInit(content)) /\ [][SettingsNext]_settingsVars

-----------------------------------------------------------------------------
InChecksum(i) == i \in Checksum2 .. Checksum2 + 3 \/ i \in Checksum3 .. Checksum3 + 3

(* The captions of the video menu tell what the chip holds, also after a   *)
(* broken standard was switched, however often and in whatever order       *)
(* EepromSetWidescreen() and EepromSetVideoStandard() were called, and the *)
(* copy agrees with the chip but for the checksums.  The captions of the   *)
(* serial port tell how it is set.                                         *)
CaptionsTrue ==
    stage = "menu" /\ Polls("text") =>
        /\ Top.m = "phy" => shown = set
        /\ Top.m = "video" =>
              /\ shown = set /\ shown.tv = Standard(eeprom.chip) /\ shown.wide = Wide(eeprom.chip)
              /\ \A i \in Address : eeprom.chip[i] = eeprom.shadow[i] \/ InChecksum(i)

(* The chip's checksums are right for what it holds, after every change.   *)
ChecksumsRight ==
    stage = "menu" /\ Polls("text") /\ Top.m = "video" =>
        /\ BytesOf(eeprom.chip, Checksum2, 4) = Checksum(eeprom.chip, SerialNumber, 95)
        /\ BytesOf(eeprom.chip, Checksum3, 4) = Checksum(eeprom.chip, TimeZoneBias, 191)
=============================================================================
