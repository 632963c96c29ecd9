----------------------------- MODULE UsbDevice -----------------------------
(***************************************************************************)
(* What the USB core learns of a new device and which drivers it gives it  *)
(* to: descriptors are asked for and parsed (drivers/usb/core/config.c,    *)
(* message.c), the default configuration is chosen, and every interface    *)
(* meets the registered drivers (usb.c, drivers/usb/sys/linuxwrapper.c).   *)
(* The root hub is a device too, whose descriptors hcd.c holds.            *)
(*                                                                         *)
(* Buffers are sequences of bytes.  malloc() is taken to succeed, and the  *)
(* messages are answered: UsbHub and UsbQueue model how they fail.         *)
(***************************************************************************)
EXTENDS Integers, Sequences, FiniteSets, SequencesExt

CONSTANTS Junk,   \* what a read past the end of a buffer finds
          Bad,    \* a negative result
          None

ASSUME JunkAssumption == Junk \in 0 .. 255

USB_DT_DEVICE == 1
USB_DT_CONFIG == 2
USB_DT_STRING == 3
USB_DT_INTERFACE == 4
USB_DT_ENDPOINT == 5
USB_DIR_IN == 128
USB_ENDPOINT_XFER_CONTROL == 0
USB_ENDPOINT_XFER_INT == 3

USB_MAXALTSETTING == 128
USB_MAXENDPOINTS == 30
USB_MAXCONFIG == 8
USB_MAXINTERFACES == 32

-----------------------------------------------------------------------------
(* Buffers *)

Byte(b, i) == IF i <= Len(b) THEN b[i] ELSE Junk
Word(b, i) == Byte(b, i) + 256 * Byte(b, i + 1)
Bytes(b, from, n) == [i \in 1 .. n |-> Byte(b, from + i - 1)]

\* A place in a buffer and the bytes that are left from there on.
Advance(c, n) == [at |-> c.at + n, size |-> c.size - n]
Since(b, c, d) == Bytes(b, c.at, d.at - c.at)

\* "size >= sizeof(struct usb_descriptor_header)" compares without sign.
HeaderLeft(c) == c.size >= 2 \/ c.size < 0

\* Descriptors of other types are passed over, up to a proper one.  Only
\* usb_parse_configuration() looks whether they fit (strict).
Proper == {USB_DT_ENDPOINT, USB_DT_INTERFACE, USB_DT_CONFIG, USB_DT_DEVICE}
Skip(b, c, strict) ==
  LET end == c.at + c.size
      Place(at) == [at |-> at, size |-> end - at]
      skip[at \in Nat] ==
        IF ~HeaderLeft(Place(at)) THEN Place(at)
        ELSE IF Byte(b, at) < 2 \/ (strict /\ Byte(b, at) > end - at) THEN Bad
        ELSE IF Byte(b, at + 1) \in Proper THEN Place(at)
        ELSE skip[at + Byte(b, at)]
  IN skip[c.at]

-----------------------------------------------------------------------------
(* config.c.  Each parser returns what it found and where it stopped.      *)

NoEndpoint == [addr |-> 0, attr |-> 0, max |-> 0, extra |-> <<>>]

EndpointFrom(b, c, begin, end) ==
  IF end = Bad THEN Bad
  ELSE [ep |-> [addr |-> Byte(b, c.at + 2), attr |-> Byte(b, c.at + 3),
                max |-> Word(b, c.at + 4), extra |-> Since(b, begin, end)],
        c |-> end]
usb_parse_endpoint(b, c) ==
  IF Byte(b, c.at) > c.size THEN Bad
  ELSE IF Byte(b, c.at + 1) # USB_DT_ENDPOINT THEN [ep |-> NoEndpoint, c |-> c]
  ELSE LET begin == Advance(c, Byte(b, c.at))
       IN EndpointFrom(b, c, begin, Skip(b, begin, FALSE))

\* The endpoints an alternate setting promises.
WithEndpoint(eps, r) == IF r = Bad THEN Bad ELSE [eps |-> Append(eps, r.ep), c |-> r.c]
EndpointNext(b, done) ==
  IF done = Bad THEN Bad ELSE WithEndpoint(done.eps, usb_parse_endpoint(b, done.c))
Endpoints(b, c, n) ==
  LET read[k \in Nat] ==
        IF k = 0 THEN [eps |-> <<>>, c |-> c] ELSE EndpointNext(b, read[k - 1])
  IN read[n]

\* The descriptor of an alternate setting, copied whatever its type is.
Setting(b, at, extra, eps) ==
  [num |-> Byte(b, at + 2), alt |-> Byte(b, at + 3), class |-> Byte(b, at + 5),
   sub |-> Byte(b, at + 6), prot |-> Byte(b, at + 7), str |-> Byte(b, at + 8),
   extra |-> extra, eps |-> eps]

\* "Did we hit an unexpected descriptor?"
Unexpected(b, c) == HeaderLeft(c) /\ Byte(b, c.at + 1) \in {USB_DT_CONFIG, USB_DT_DEVICE}

\* "We check to see if it's an alternate to this one".
NoAlternate(b, c) ==
  \/ c.size < 9
  \/ Byte(b, c.at + 1) # USB_DT_INTERFACE
  \/ Byte(b, c.at + 3) = 0

\* One setting, and whether another follows (more).
SettingEnd(b, c, extra, r) ==
  IF r = Bad THEN Bad
  ELSE [alts |-> <<Setting(b, c.at, extra, r.eps)>>, c |-> r.c, more |-> ~NoAlternate(b, r.c)]
SettingFrom(b, c, begin, end) ==
  IF end = Bad THEN Bad
  ELSE IF Unexpected(b, end)
  THEN [alts |-> <<Setting(b, c.at, Since(b, begin, end), <<>>)>>, c |-> end, more |-> FALSE]
  ELSE IF Byte(b, c.at + 4) > USB_MAXENDPOINTS THEN Bad
  ELSE SettingEnd(b, c, Since(b, begin, end), Endpoints(b, end, Byte(b, c.at + 4)))
SettingAt(b, c) ==
  IF c.size <= 0 THEN [alts |-> <<>>, c |-> c, more |-> FALSE]
  ELSE LET begin == Advance(c, Byte(b, c.at)) IN SettingFrom(b, c, begin, Skip(b, begin, FALSE))

Before(alts, rest) == IF rest = Bad THEN Bad ELSE [rest EXCEPT !.alts = alts \o @]
Limited(r) ==
  IF r = Bad THEN Bad ELSE IF Len(r.alts) > USB_MAXALTSETTING THEN Bad ELSE r
usb_parse_interface(b, c) ==
  LET settings[at \in Nat] ==
        LET s == SettingAt(b, [at |-> at, size |-> c.at + c.size - at])
        IN IF s = Bad THEN Bad ELSE IF s.more THEN Before(s.alts, settings[s.c.at]) ELSE s
  IN Limited(settings[c.at])

\* The first run of other descriptors in front of an interface is kept.
WithInterface(ifs, extra, r) ==
  IF r = Bad THEN Bad ELSE [ifs |-> Append(ifs, r.alts), extra |-> extra, c |-> r.c]
InterfaceFrom(b, done, begin) ==
  IF begin = Bad THEN Bad
  ELSE WithInterface(done.ifs, IF done.extra = <<>> THEN Since(b, done.c, begin) ELSE done.extra,
                     usb_parse_interface(b, begin))
InterfaceNext(b, done) ==
  IF done = Bad THEN Bad ELSE InterfaceFrom(b, done, Skip(b, done.c, TRUE))
Interfaces(b, c, n) ==
  LET parsed[k \in Nat] ==
        IF k = 0 THEN [ifs |-> <<>>, extra |-> <<>>, c |-> c] ELSE InterfaceNext(b, parsed[k - 1])
  IN parsed[n]

\* More than there was is refused.
\* Deviation: what was read past the end is taken for the device's.
ConfigOfAny(b, r) ==
  IF r = Bad THEN Bad ELSE [value |-> Byte(b, 6), extra |-> r.extra, ifs |-> r.ifs]
ConfigOf(b, r) ==
  IF r = Bad THEN Bad
  ELSE IF r.c.size < 0 THEN Bad
  ELSE [value |-> Byte(b, 6), extra |-> r.extra, ifs |-> r.ifs]
usb_parse_configuration(b) ==
  IF Byte(b, 5) > USB_MAXINTERFACES THEN Bad
  ELSE ConfigOf(b, Interfaces(b, [at |-> 1 + Byte(b, 1), size |-> Word(b, 3) - Byte(b, 1)],
                              Byte(b, 5)))

-----------------------------------------------------------------------------
(* Questions to a device: a record of its descriptors (dev), its           *)
(* configurations (confs) and its strings, by number.                      *)

\* The device, or for the root hub rh_call_control(), sends what it has, up
\* to the length asked for; it stalls when it has nothing of the kind.
Has(d, type, index) ==
  CASE type = USB_DT_DEVICE -> index = 0
    [] type = USB_DT_CONFIG -> index < Len(d.confs)
    [] type = USB_DT_STRING -> index \in DOMAIN d.strings
Descriptor(d, type, index) ==
  CASE type = USB_DT_DEVICE -> d.dev
    [] type = USB_DT_CONFIG -> d.confs[index + 1]
    [] type = USB_DT_STRING -> d.strings[index]
Sent(b, n) == SubSeq(b, 1, IF n < Len(b) THEN n ELSE Len(b))
usb_get_descriptor(d, type, index, n) ==
  IF ~Has(d, type, index) THEN Bad
  ELSE Sent(Descriptor(d, type, index), n)

usb_get_string(d, index, n) == usb_get_descriptor(d, USB_DT_STRING, index, n)

-----------------------------------------------------------------------------
(* usb_new_device(), from the descriptors to the configured device *)

\* The length is in the first eight bytes; then the whole is asked for, and
\* less than that is not accepted.
ConfigWhole(length, b) ==
  IF b = Bad THEN Bad
  ELSE IF Len(b) < length THEN Bad
  ELSE usb_parse_configuration(b)
ConfigAt(d, i, head) ==
  IF head = Bad THEN Bad
  ELSE IF Len(head) < 8 THEN Bad
  ELSE ConfigWhole(Word(head, 3), usb_get_descriptor(d, USB_DT_CONFIG, i, Word(head, 3)))
AllRead(confs) == IF \E i \in DOMAIN confs : confs[i] = Bad THEN Bad ELSE confs
usb_get_configuration(d, n) ==
  IF n > USB_MAXCONFIG \/ n < 1 THEN Bad
  ELSE AllRead([i \in 1 .. n |->
                  ConfigAt(d, i - 1, usb_get_descriptor(d, USB_DT_CONFIG, i - 1, 8))])

\* Configuration 0 means "not configured" and cannot be chosen.
usb_set_configuration(confs, value) ==
  IF value = 0 THEN Bad
  ELSE confs[CHOOSE i \in DOMAIN confs :
               confs[i].value = value /\ \A j \in 1 .. i - 1 : confs[j].value # value]

\* The packet sizes of the endpoints of the settings in use.  A control
\* endpoint sets both directions, the others raise their own.
Number(ep) == ep.addr % 16
IsIn(ep) == ep.addr >= USB_DIR_IN
Kind(ep) == ep.attr % 4
Raised(m, n, x) == IF x > m[n] THEN [m EXCEPT ![n] = x] ELSE m
Sized(m, ep) ==
  IF Kind(ep) = USB_ENDPOINT_XFER_CONTROL
  THEN [in |-> [m.in EXCEPT ![Number(ep)] = ep.max], out |-> [m.out EXCEPT ![Number(ep)] = ep.max]]
  ELSE IF IsIn(ep) THEN [m EXCEPT !.in = Raised(m.in, Number(ep), ep.max)]
  ELSE [m EXCEPT !.out = Raised(m.out, Number(ep), ep.max)]
\* An interface that was promised and not sent has no setting: its memory
\* was never written.
JunkSetting == [num |-> Junk, alt |-> Junk, class |-> Junk, sub |-> Junk, prot |-> Junk,
                str |-> Junk, extra |-> <<>>, eps |-> <<>>]
InUse(alts) == IF alts = <<>> THEN JunkSetting ELSE alts[1]
usb_set_maxpacket(conf, ep0) ==
  FoldLeft(Sized, [in |-> [n \in 0 .. 15 |-> IF n = 0 THEN ep0 ELSE 0],
                   out |-> [n \in 0 .. 15 |-> IF n = 0 THEN ep0 ELSE 0]],
           FlattenSeq([i \in DOMAIN conf.ifs |-> InUse(conf.ifs[i]).eps]))

\* usb_string(): the language, the length, the string; what is not ISO 8859-1
\* becomes a question mark and what is too long is cut.
Question == 63
Char(b, u) == IF Byte(b, u + 1) # 0 THEN Question ELSE Byte(b, u)
Decoded(b, size) ==
  LET n == (Len(b) - 1) \div 2
  IN [i \in 1 .. (IF n < size - 1 THEN n ELSE size - 1) |-> Char(b, 2 * i + 1)]
StringRead(b, size) == IF b = Bad THEN Bad ELSE Decoded(b, size)
StringAt(d, index, head, size) ==
  IF head = Bad THEN Bad
  ELSE IF Len(head) < 2 THEN Bad
  ELSE StringRead(usb_get_string(d, index, head[1]), size)
Language(lang) == IF lang = Bad THEN FALSE ELSE Byte(lang, 1) >= 4
usb_string(d, index, size) ==
  IF index = 0 \/ size <= 0 \/ ~Language(usb_get_string(d, 0, 4)) THEN Bad
  ELSE StringAt(d, index, usb_get_string(d, index, 2), size)

\* The name of a device is made of the strings it has.
Named(s) == IF s = Bad THEN None ELSE IF s = <<>> THEN None ELSE s
set_device_description(d, b) ==
  [product |-> Named(usb_string(d, Byte(b, 16), 256)), vendor |-> Named(usb_string(d, Byte(b, 15), 256))]

\* The fields of the device descriptor that the core uses.
usb_get_device_descriptor(b) ==
  [bDeviceClass |-> b[5], bDeviceSubClass |-> b[6], bDeviceProtocol |-> b[7], bMaxPacketSize0 |-> b[8],
   idVendor |-> Word(b, 9), idProduct |-> Word(b, 11), bcdDevice |-> Word(b, 13),
   bNumConfigurations |-> b[18]]

\* The result: Bad, or the device with the configuration it is set to.
Configured(d, desc, conf) ==
  IF conf = Bad THEN Bad
  ELSE [desc |-> desc, conf |-> conf, max |-> usb_set_maxpacket(conf, desc.bMaxPacketSize0),
        name |-> set_device_description(d, d.dev)]
ConfiguredFrom(d, desc, confs) ==
  IF confs = Bad THEN Bad
  ELSE Configured(d, desc, usb_set_configuration(confs, confs[1].value))
DescribedBy(d, desc) == ConfiguredFrom(d, desc, usb_get_configuration(d, desc.bNumConfigurations))
usb_new_device(d) ==
  LET b == usb_get_descriptor(d, USB_DT_DEVICE, 0, 18)
  IN IF Len(b) < 18 THEN Bad ELSE DescribedBy(d, usb_get_device_descriptor(b))

-----------------------------------------------------------------------------
(* Drivers *)

\* An entry of a table gives the fields its match_flags name.
USB_DEVICE(vend, prod) == [idVendor |-> vend, idProduct |-> prod]
USB_INTERFACE_INFO(cl, sc, pr) ==
  [bInterfaceClass |-> cl, bInterfaceSubClass |-> sc, bInterfaceProtocol |-> pr]
USB_CLASS_HUB == 9

hub_id_table == <<[bDeviceClass |-> USB_CLASS_HUB], [bInterfaceClass |-> USB_CLASS_HUB]>>
\* Two of the controllers xpad_ids lists, and its last entry.
xpad_ids == <<USB_DEVICE(1103, 3847), USB_DEVICE(1118, 514), USB_DEVICE(0, 0)>>
xremote_id_table == <<USB_DEVICE(1035, 25889), USB_DEVICE(1118, 644), USB_DEVICE(0, 0)>>
usb_kbd_id_table == <<USB_INTERFACE_INFO(3, 1, 1)>>

Field(id, f) == IF f \in DOMAIN id THEN id[f] ELSE 0
Terminating(id) == \A f \in {"idVendor", "bDeviceClass", "bInterfaceClass"} : Field(id, f) = 0

\* What the entries are compared with.
Facts(desc, s) ==
  [idVendor |-> desc.idVendor, idProduct |-> desc.idProduct, bDeviceClass |-> desc.bDeviceClass,
   bDeviceSubClass |-> desc.bDeviceSubClass, bDeviceProtocol |-> desc.bDeviceProtocol,
   bInterfaceClass |-> s.class, bInterfaceSubClass |-> s.sub, bInterfaceProtocol |-> s.prot]
Matches(id, facts) == \A f \in DOMAIN id : id[f] = facts[f]
usb_match_id(table, desc, s) ==
  \E i \in DOMAIN table :
     Matches(table[i], Facts(desc, s)) /\ \A j \in 1 .. i : ~Terminating(table[j])

\* The drivers, in the order of their registration; usb_init() registers the
\* first two before there is a device.
Hub == "hub"
Generic == "usb"
Xpad == "XPAD"
Remote == "XRemote"
Keyboard == "keyboard"
MAX_DRVS == 8
driver_register(list, drv) == IF Len(list) < MAX_DRVS THEN Append(list, drv) ELSE list
usb_init == driver_register(driver_register(<<>>, Hub), Generic)
AllDrivers == FoldLeft(driver_register, usb_init, <<Xpad, Remote, Keyboard>>)
TableOf(drv) == CASE drv = Hub -> hub_id_table [] drv = Xpad -> xpad_ids
                  [] drv = Remote -> xremote_id_table [] drv = Keyboard -> usb_kbd_id_table

\* hub_probe() wants one interrupt endpoint towards the host.
hub_probe(s) ==
  /\ s.sub \in {0, 1}
  /\ Len(s.eps) = 1
  /\ IsIn(s.eps[1]) /\ Kind(s.eps[1]) = USB_ENDPOINT_XFER_INT

\* An interface: its entry in the driver list (driver), the USB driver it is
\* bound to, whose data it holds, and the drivers whose urb is submitted.
NewInterface == [driver |-> None, bound |-> None, data |-> None, urbs |-> {}]

\* The probes of the input drivers allocate their data, submit an urb for the
\* first endpoint and return 0; usb_kbd_probe() returns no value (eax).
Taken(f, drv, result) ==
  [f EXCEPT !.bound = IF result THEN drv ELSE @, !.data = drv, !.urbs = @ \cup {drv}]
DriverProbe(f, drv, s, eax) ==
  CASE drv = Hub -> IF hub_probe(s) THEN Taken(f, Hub, TRUE) ELSE f
    [] drv = Keyboard -> Taken(f, Keyboard, eax)
    [] OTHER -> Taken(f, drv, TRUE)
usb_device_probe(f, drv, desc, s, eax) ==
  IF drv # Generic /\ usb_match_id(TableOf(drv), desc, s) THEN DriverProbe(f, drv, s, eax) ELSE f

\* my_device_add() offers the interface to every driver and does not stop at
\* one that takes it.  usb_generic_driver always does: the search succeeds,
\* and the last driver of the list stays in dev->driver.
my_device_add(list, desc, s, eax) ==
  FoldLeft(LAMBDA f, drv : usb_device_probe([f EXCEPT !.driver = drv], drv, desc, s, eax),
           NewInterface, list)
Interfaced(list, dev, eax) ==
  [i \in DOMAIN dev.conf.ifs |-> my_device_add(list, dev.desc, InUse(dev.conf.ifs[i]), eax)]

\* usb_device_remove() is reached through dev->driver: disconnect() of the
\* bound driver unlinks and frees the urb of the data it finds.
Disconnected(f) == IF f.bound = None THEN f ELSE [f EXCEPT !.urbs = @ \ {f.data}]
Released(f) == IF f.bound = f.driver THEN [f EXCEPT !.bound = None, !.data = None] ELSE f
usb_device_remove(f) == IF f.driver = Generic THEN f ELSE Released(Disconnected(f))

-----------------------------------------------------------------------------
(* The root hub *)

usb11_rh_dev_descriptor == <<18, 1, 16, 1, 9, 0, 0, 8, 0, 0, 0, 0, 6, 2, 3, 2, 1, 1>>
fs_rh_config_descriptor == <<9, 2, 25, 0, 1, 1, 0, 64, 0,
                             9, 4, 0, 0, 1, 9, 0, 0, 0,
                             7, 5, 129, 3, 2, 0, 255>>
\* rh_string(): a string as the core asks for it, in UTF-16.
ascii2utf(s) == [i \in 1 .. 2 * Len(s) |-> IF i % 2 = 1 THEN s[(i + 1) \div 2] ELSE 0]
rh_string(s) == <<2 * (Len(s) + 1), 3>> \o ascii2utf(s)
Product == <<79, 72>>
rh_call_control ==
  [dev |-> usb11_rh_dev_descriptor, confs |-> <<fs_rh_config_descriptor>>,
   strings |-> (0 :> <<4, 3, 9, 4>>) @@ [i \in 1 .. 3 |-> rh_string(Product)]]
============================================================================
