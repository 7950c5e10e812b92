------------------------------- MODULE MCEnum -------------------------------
(***************************************************************************)
(* A slow keyboard that is a mouse besides, a mouse, a card reader with    *)
(* keys, which has no driver, a keyboard whose endpoint does not fit into  *)
(* the buffer, and a device with broken lines.                             *)
(***************************************************************************)
EXTENDS Enumeration

CONSTANTS kbd, mouse, reader, long, broken

MCDevices == {kbd, mouse, reader, long, broken}
MCClass ==
  [d \in MCDevices |-> CASE d \in {kbd, long} -> "keyboard" [] d = mouse -> "mouse"
                         [] OTHER -> "other"]
SlowDevices == {kbd}
BrokenDevices == {broken}

Configuration ==
  [length |-> 9, type |-> "configuration", boot |-> "other", maxPacket |-> 0]
Interface(c) == [length |-> 9, type |-> "interface", boot |-> c, maxPacket |-> 0]
Hid(n) == [length |-> n, type |-> "hid", boot |-> "other", maxPacket |-> 0]
Endpoint(n) == [length |-> 7, type |-> "endpoint", boot |-> "other", maxPacket |-> n]

MCConfig ==
  [d \in MCDevices |->
     CASE d = kbd ->
            <<Configuration, Interface("keyboard"), Hid(9), Endpoint(8),
              Interface("mouse"), Hid(9), Endpoint(5)>>
       [] d = mouse ->
            <<Configuration, Interface("mouse"), Hid(9), Endpoint(4)>>
       [] d = reader ->
            <<Configuration, Interface("other"), Endpoint(64), Endpoint(32),
              Interface("keyboard"), Hid(9), Endpoint(16)>>
       [] d = long -> <<Configuration, Interface("keyboard"), Hid(240), Endpoint(10)>>
       [] OTHER -> <<>>]
=============================================================================
