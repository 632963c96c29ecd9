------------------------------ MODULE MCInput ------------------------------
(* Two kinds of controller, one that calls itself a keyboard too, two      *)
(* keyboards, a remote, and devices whose descriptions are wrong.          *)
EXTENDS Input

CONSTANTS p1, p2

Lo(n) == n % 256
Hi(n) == n \div 256

\* The bytes of a description.  An endpoint of the audio kind is longer.
EndpointBytes(ep, audio) ==
  <<IF audio THEN 9 ELSE 7, USB_DT_ENDPOINT, ep.addr, ep.attr, Lo(ep.max), Hi(ep.max), 10>>
  \o (IF audio THEN <<0, 0>> ELSE <<>>) \o ep.extra
SettingBytes(s, audio) ==
  <<9, USB_DT_INTERFACE, s.num, s.alt, Len(s.eps), s.class, s.sub, s.prot, s.str>> \o s.extra
  \o FlattenSeq([i \in DOMAIN s.eps |-> EndpointBytes(s.eps[i], audio)])
Body(c, audio) ==
  c.extra \o FlattenSeq([i \in DOMAIN c.ifs |->
                 FlattenSeq([j \in DOMAIN c.ifs[i] |-> SettingBytes(c.ifs[i][j], audio)])])
Head9(total, n, value) == <<9, USB_DT_CONFIG, Lo(total), Hi(total), n, value, 0, 128, 50>>
ConfigBytes(c, audio) ==
  Head9(9 + Len(Body(c, audio)), Len(c.ifs), c.value) \o Body(c, audio)

Endpoint(a, max, extra) == [addr |-> a, attr |-> USB_ENDPOINT_XFER_INT, max |-> max, extra |-> extra]
Face(num, alt, cl, sc, pr, extra, eps) ==
  [num |-> num, alt |-> alt, class |-> cl, sub |-> sc, prot |-> pr, str |-> 0,
   extra |-> extra, eps |-> eps]

DeviceBytes(vend, prod, confs) ==
  <<18, 1, 16, 1, 0, 0, 0, 8, Lo(vend), Hi(vend), Lo(prod), Hi(prod), 1, 1, 0, 1, 0, confs>>
Name == <<88, 98>>
Strings == (0 :> <<4, 3, 9, 4>>) @@ (1 :> rh_string(Name))
\* A letter that is not ISO 8859-1.
Foreign == (0 :> <<4, 3, 9, 4>>) @@ (1 :> <<6, 3, 88, 0, 98, 4>>)

Plan(confs, name, drivers) == [confs |-> confs, name |-> name, drivers |-> drivers]
Make(vend, prod, confs, audio, strings, name, drivers) ==
  [dev |-> DeviceBytes(vend, prod, Len(confs)),
   confs |-> [i \in DOMAIN confs |-> ConfigBytes(confs[i], audio)],
   strings |-> strings, plan |-> Plan(confs, name, drivers)]
Wrong(bytes) ==
  [dev |-> DeviceBytes(1118, 514, 1), confs |-> <<bytes>>, strings |-> Strings, plan |-> None]

PadFace == Face(0, 0, 88, 66, 0, <<>>, <<Endpoint(130, 32, <<>>), Endpoint(2, 32, <<>>)>>)
PadConfig == [value |-> 1, extra |-> <<>>, ifs |-> <<<<PadFace>>>>]
\* Endpoints with descriptors of their own, and four more settings.
Fancy == Face(0, 0, 88, 66, 0, <<3, 36, 7>>, <<Endpoint(130, 32, <<2, 37>>), Endpoint(2, 300, <<3, 37, 0>>)>>)
FancyConfig ==
  [value |-> 2, extra |-> <<8, 11, 0, 1, 88, 66, 0, 0>>,
   ifs |-> <<<<Fancy>> \o [i \in 1 .. 4 |-> Face(0, i, 88, 66, 0, <<>>, <<Endpoint(130, 64, <<>>)>>)]>>]

Hid == <<9, 33, 16, 1, 0, 1, 34, 63, 0>>
KeyFace == Face(0, 0, 3, 1, 1, Hid, <<Endpoint(129, 8, <<>>)>>)
MouseFace == Face(1, 0, 3, 1, 2, Hid, <<Endpoint(130, 4, <<>>)>>)
KeyConfig == [value |-> 1, extra |-> <<>>, ifs |-> <<<<KeyFace>>>>]
BothConfig == [value |-> 1, extra |-> <<>>, ifs |-> <<<<MouseFace>>, <<KeyFace>>>>]

RemoteConfig ==
  [value |-> 1, extra |-> <<>>,
   ifs |-> <<<<Face(0, 0, 88, 66, 0, <<>>, <<Endpoint(129, 8, <<>>)>>)>>, <<Face(1, 0, 89, 0, 0, <<>>, <<>>)>>>>]

\* Less is sent than promised; configuration 0; more interfaces than there may
\* be; a descriptor of length 0; an endpoint longer than what is left; and a
\* descriptor of the HID kind longer than what is left, after an endpoint and
\* after an interface without one.
MCMakes ==
  [pad      |-> Make(1118, 514, <<PadConfig>>, FALSE, Strings, Name, <<<<Xpad>>>>),
   fancy    |-> Make(1103, 3847, <<FancyConfig, PadConfig>>, TRUE, Foreign, <<88, Question>>,
                    <<<<Xpad>>>>),
   keyboard |-> Make(1133, 1, <<KeyConfig>>, FALSE, 0 :> <<4, 3, 9, 4>>, None, <<<<Keyboard>>>>),
   both     |-> Make(1118, 1, <<BothConfig>>, FALSE, Strings, Name, <<<<>>, <<Keyboard>>>>),
   keypad   |-> Make(1118, 514, <<KeyConfig>>, FALSE, Strings, Name, <<<<Xpad, Keyboard>>>>),
   remote   |-> Make(1118, 644, <<RemoteConfig>>, FALSE, 5 :> <<>>, None,
                    <<<<Remote>>, <<Remote>>>>),
   short    |-> Wrong(Head9(32, 1, 1) \o SubSeq(Body(PadConfig, FALSE), 1, 20)),
   zero     |-> Wrong(ConfigBytes([PadConfig EXCEPT !.value = 0], FALSE)),
   many     |-> Wrong(Head9(32, 33, 1) \o Body(PadConfig, FALSE)),
   empty    |-> Wrong(Head9(29, 1, 1) \o <<9, USB_DT_INTERFACE, 0, 0, 1, 3, 1, 1, 0>> \o <<0, 33>> \o Hid),
   beyond   |-> Wrong(Head9(25, 1, 1) \o <<9, USB_DT_INTERFACE, 0, 0, 1, 3, 1, 1, 0,
                                           9, USB_DT_ENDPOINT, 129, 3, 8, 0, 10>>),
   over     |-> Wrong(ConfigBytes([PadConfig EXCEPT !.ifs[1][1].eps[2].extra = <<9, 33>>], FALSE)),
   overface |-> Wrong(Head9(20, 1, 1) \o <<9, USB_DT_INTERFACE, 0, 0, 0, 88, 66, 0, 0>> \o <<9, 33>>)]
MCMakesOf ==
  (p1 :> {"pad", "fancy", "short", "zero", "many", "empty", "beyond", "over", "overface"})
  @@ (p2 :> {"keypad"}) @@ (Kbd :> {"keyboard", "both"}) @@ (Rem :> {"remote"})
=============================================================================
