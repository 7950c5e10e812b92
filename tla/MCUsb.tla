-------------------------------- MODULE MCUsb -------------------------------
(***************************************************************************)
(* A slow keyboard, a mouse, a disk and a device with broken lines.        *)
(***************************************************************************)
EXTENDS UsbHost

CONSTANTS kbd, mouse, disk, broken

MCDevices == {kbd, mouse, disk, broken}
MCClass ==
  [d \in MCDevices |-> CASE d = kbd -> "keyboard" [] d = mouse -> "mouse"
                         [] OTHER -> "other"]
SlowDevices == {kbd}
BrokenDevices == {broken}

(* For the questions that need no more: a keyboard and a mouse.            *)
TwoDevices == {kbd, mouse}
TwoClasses == [d \in TwoDevices |-> MCClass[d]]
NoDevices == {}
=============================================================================
