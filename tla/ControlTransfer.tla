--------------------------- MODULE ControlTransfer --------------------------
(***************************************************************************)
(* A control transfer: XferCtrlReq, XferCtrlData, XferCtrlND and           *)
(* XferInTransfer (transfer.c), packet by packet.  The stages are          *)
(*   "setup"   the setup packet is sent,                                   *)
(*   "data"    the answer is read, in packets of the device's size, until  *)
(*             a short one comes or all that was asked for is there,       *)
(*   "status"  a packet without data in the other direction.               *)
(* Every packet goes through XferDispatchPkt, with its own counts of NAKs  *)
(* and missing answers.  The requests are those of the macros in           *)
(* transfer.h; no request has data to send.                                *)
(*                                                                         *)
(* The device and the chip are external.  The device starts anew with      *)
(* every setup packet, sends its answer in order with DATA1 first, repeats *)
(* a packet until it sees an acknowledgement, and carries the request out  *)
(* when the status packet has gone through; a device that misses the       *)
(* acknowledgement of its own status packet does so with the next setup    *)
(* packet.  The chip drops, but acknowledges, a packet whose toggle it     *)
(* does not expect, and reports a toggle error.  Bytes are numbered.       *)
(***************************************************************************)
EXTENDS PacketLimits, SetupPackets, Sequences, FiniteSetsExt

CONSTANTS
  Requests,     \* the requests that are made, each with what there is to send
  FirstRead,    \* the request that finds out the packet size
  MinPacket,    \* the packet size every device has at least       (8 bytes)
  PacketSizes   \* the sizes of the devices (bMaxPacketSize0)  (8, 16, 32, 64)

ASSUME ControlAssumption ==
  /\ Requests \subseteq SETUP_PKT
  /\ \A r \in Requests : r.reads => r.asked > 0
  /\ MinPacket \in Nat \ {0}
  /\ PacketSizes \subseteq {p \in Nat : p >= MinPacket}
  /\ FirstRead \in SETUP_PKT
  /\ FirstRead.reads /\ FirstRead.asked = MinPacket /\ FirstRead.length >= MinPacket

VARIABLES
  \* the device
  packet0,     \* its packet size
  expects,     \* the stage it is in; "idle" when it is done
  sent,        \* how many packets of the answer are acknowledged
  \* the program
  stage,       \* the stage of the transfer; "idle" when there is none
  request,     \* setup_pkt
  MaxPktSize,  \* devtable[addr].epinfo[0].MaxPktSize
  toggle,      \* the toggle the chip expects
  got,         \* what has been written to dataptr
  naks,        \* nak_count
  retries,     \* retry_count
  result,      \* what the last transfer returned: "none" so far, "ok" or "error"
  \* history variable
  carried      \* how often the device has carried out the request

deviceVars == <<packet0, expects, sent>>
counts == <<naks, retries>>
controlVars == <<deviceVars, stage, request, MaxPktSize, toggle, got, counts, result,
                 carried>>

ControlInit ==
  /\ packet0 \in PacketSizes
  /\ expects = "idle"
  /\ sent = 0
  /\ stage = "idle"
  /\ request = FirstRead
  /\ MaxPktSize = 0
  /\ toggle = 0
  /\ got = << >>
  /\ naks = 0
  /\ retries = 0
  /\ result = "none"
  /\ carried = 0

-----------------------------------------------------------------------------
(* The device's answer and how it is cut into packets.  An answer that is  *)
(* shorter than what was asked for ends with a short packet, an empty one  *)
(* if need be.                                                             *)
Size(r) == IF r.asked <= r.length THEN r.asked ELSE r.length

Bytes(i, j) == [k \in 1..(j - i) |-> i + k]

PacketNumber(n) ==
  Bytes(n * packet0, Min({(n + 1) * packet0, Size(request)}))

HasPacket ==
  /\ expects = "data"
  /\ sent * packet0 < request.asked
  /\ sent * packet0 <= Size(request)

DeviceToggle == (sent + 1) % 2

(* The device sees the acknowledgement, or it does not.                    *)
Delivered == sent' \in {sent, sent + 1} /\ UNCHANGED <<packet0, expects, carried>>

-----------------------------------------------------------------------------
(* What the program does with the result of a packet.                      *)
Ends(code) == stage' = "idle" /\ result' = code

GoesOn(s) == stage' = s /\ naks' = 0 /\ retries' = 0 /\ UNCHANGED result

UnansweredOneMore ==                   \* mutant: compares before it counts
  /\ retries' = retries + 1
  /\ IF retries = RETRY_LIMIT THEN Ends("error") ELSE UNCHANGED <<stage, result>>
  /\ UNCHANGED naks

Unanswered ==
  /\ retries' = retries + 1
  /\ IF retries' = RETRY_LIMIT THEN Ends("error") ELSE UNCHANGED <<stage, result>>
  /\ UNCHANGED naks

(* USB_ATTACHED_SUBSTATE_GET_DEVICE_DESCRIPTOR_SIZE with a device that has *)
(* just been reset: the first eight bytes say what its packet size is.     *)
Begin(r) ==
  /\ stage = "idle"
  /\ stage' = "setup"
  /\ request' = r
  /\ got' = << >>
  /\ naks' = 0 /\ retries' = 0
  /\ result' = "none"
  /\ carried' = 0
  /\ UNCHANGED toggle

AskForSize ==
  /\ Begin(FirstRead)
  /\ packet0' \in PacketSizes
  /\ expects' = "idle"
  /\ sent' = 0
  /\ MaxPktSize' = MinPacket

(* A request to the same device after that.  The table takes the size from *)
(* the answer to the first one; a failure of the first one ends in the     *)
(* error state, and no other request is made.                              *)
AskNext ==
  /\ \E r \in Requests : Begin(r)
  /\ \/ request # FirstRead /\ UNCHANGED MaxPktSize
     \/ request = FirstRead /\ result = "ok" /\ MaxPktSize' = packet0
  /\ UNCHANGED deviceVars

-----------------------------------------------------------------------------
(* The setup packet.  A device accepts it in any stage.                    *)
SetupIsEnough ==                       \* mutant: no status stage without data
  /\ stage = "setup"
  /\ expects' = IF request.reads THEN "data" ELSE "status"
  /\ sent' = 0
  /\ \/ request.reads /\ GoesOn("data") /\ toggle' = 1
     \/ ~request.reads /\ Ends("ok") /\ UNCHANGED <<counts, toggle>>
     \/ Unanswered /\ UNCHANGED toggle
  /\ UNCHANGED <<packet0, request, MaxPktSize, got, carried>>

SetupTaken ==
  /\ stage = "setup"
  /\ expects' = IF request.reads THEN "data" ELSE "status"
  /\ sent' = 0
  /\ \/ GoesOn(IF request.reads THEN "data" ELSE "status") /\ toggle' = 1
     \/ Unanswered /\ UNCHANGED toggle
  /\ UNCHANGED <<packet0, request, MaxPktSize, got, carried>>

(* XferInTransfer: a packet with the expected toggle is read behind the    *)
(* last one, and the chip expects the other toggle.                        *)
LastPacketNotLonger(size, length) ==   \* mutant: a full packet counts as short
  size <= MaxPktSize \/ length >= request.asked

LastPacket(size, length) == size < MaxPktSize \/ length >= request.asked

ReceivePacket ==
  /\ stage = "data"
  /\ HasPacket
  /\ toggle = DeviceToggle
  /\ got' = got \o PacketNumber(sent)
  /\ toggle' = 1 - toggle
  /\ GoesOn(IF LastPacket(Len(got') - Len(got), Len(got')) THEN "status" ELSE "data")
  /\ Delivered
  /\ UNCHANGED <<request, MaxPktSize>>

(* A packet that is sent again because its acknowledgement was lost: the   *)
(* transfer ends with the toggle error.                                    *)
RepeatedPacket ==
  /\ stage = "data"
  /\ HasPacket
  /\ toggle # DeviceToggle
  /\ Ends("error")
  /\ Delivered
  /\ UNCHANGED <<request, MaxPktSize, toggle, got, counts>>

(* The status packet of a read goes to the device, which accepts it again  *)
(* when the handshake was lost.                                            *)
StatusOut ==
  /\ stage = "status" /\ request.reads
  /\ expects' = "idle"
  /\ carried' = IF expects = "idle" THEN carried ELSE carried + 1
  /\ \/ Ends("ok") /\ UNCHANGED counts
     \/ Unanswered
  /\ UNCHANGED <<packet0, sent, request, MaxPktSize, toggle, got>>

(* The status packet of a request without data comes from the device.      *)
StatusIn ==
  /\ stage = "status" /\ ~request.reads
  /\ expects = "status"
  /\ expects' = "idle"
  /\ carried' = carried + 1
  /\ Ends("ok")
  /\ UNCHANGED <<packet0, sent, request, MaxPktSize, toggle, got, counts>>

(* Any packet may be answered by NAK while the device is busy, but for the *)
(* setup packet; it or its answer may be lost; and it may fail in another  *)
(* way, or time out.                                                       *)
StagePacketNakWraps ==                 \* mutant: the count wraps below the limit
  /\ stage \in {"data", "status"}
  /\ naks' = (naks + 1) % NAK_LIMIT
  /\ IF naks' = NAK_LIMIT THEN Ends("error") ELSE UNCHANGED <<stage, result>>
  /\ UNCHANGED <<deviceVars, request, MaxPktSize, toggle, got, retries, carried>>

StagePacketNak ==
  /\ stage \in {"data", "status"}
  /\ naks' = naks + 1
  /\ IF naks' = NAK_LIMIT THEN Ends("error") ELSE UNCHANGED <<stage, result>>
  /\ UNCHANGED <<deviceVars, request, MaxPktSize, toggle, got, retries, carried>>

PacketLost ==
  /\ stage # "idle"
  /\ Unanswered
  /\ UNCHANGED <<deviceVars, request, MaxPktSize, toggle, got, carried>>

PacketFails ==
  /\ stage # "idle"
  /\ Ends("error")
  /\ UNCHANGED <<deviceVars, request, MaxPktSize, toggle, got, counts, carried>>

SendPacket ==
  \/ SetupTaken \/ ReceivePacket \/ RepeatedPacket \/ StatusOut \/ StatusIn
  \/ StagePacketNak \/ PacketLost \/ PacketFails

ControlNext == AskForSize \/ AskNext \/ SendPacket

(* The program runs on.                                                    *)
ControlSpec ==
  ControlInit /\ [][ControlNext]_controlVars /\ WF_controlVars(SendPacket)

-----------------------------------------------------------------------------
ControlTypeOK ==
  /\ packet0 \in PacketSizes
  /\ expects \in {"idle", "data", "status"}
  /\ sent \in Nat
  /\ stage \in {"idle", "setup", "data", "status"}
  /\ request \in Requests \cup {FirstRead}
  /\ MaxPktSize \in PacketSizes \cup {0, MinPacket}
  /\ toggle \in {0, 1}
  /\ naks \in 0..NAK_LIMIT
  /\ retries \in 0..RETRY_LIMIT
  /\ result \in {"none", "ok", "error"}
  /\ carried \in {0, 1}

(* What is read is the device's answer from its first byte on, no byte of  *)
(* it twice and none left out, whatever packets and acknowledgements are   *)
(* lost; and a read that succeeds has brought all that was asked for and   *)
(* the device has, although the end is found by comparing packets with the *)
(* size in the device table, which is a guess at first                     *)
(* (transfer.c:211-217, 303-306).                                          *)
AnswerIsExact ==
  /\ got = Bytes(0, Len(got))
  /\ Len(got) <= Size(request)
  /\ result = "ok" /\ request.reads => Len(got) = Size(request)

(* A request that succeeds is carried out once, one that fails at most     *)
(* once, although setup and status packets are sent again when their       *)
(* handshakes are lost (transfer.c:99-103, 118, 130-134, 174-182).         *)
R == INSTANCE Request WITH asking <- stage # "idle"
ImplementsRequest == R!RequestSpec
=============================================================================
