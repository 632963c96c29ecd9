------------------------------ MODULE MCUsbHub ------------------------------
(* Two ports of the root hub, an external hub with one port and one pad.   *)
EXTENDS UsbHub
MCRootPorts == <<1, 2>>
MCExtPorts == <<3>>
=============================================================================
