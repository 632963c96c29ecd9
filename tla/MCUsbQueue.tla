----------------------------- MODULE MCUsbQueue -----------------------------
(* A controller with a period of two frames, the keyboard and the remote      *)
(* with shorter and longer ones, and control messages.                        *)
EXTENDS UsbQueue

CONSTANTS pad, kbd, ctl

MCInt == {pad, kbd}
MCInterval == (pad :> 2) @@ (kbd :> 1)
MCEager == {pad}
MCUnbindable == {kbd}
=============================================================================
