---------------------------- MODULE Enumeration -----------------------------
(***************************************************************************)
(* The parts of USB_Task that UsbHost takes in one step although they wait *)
(* for the device more than once: reading the descriptors of the device,   *)
(* and the class probes, which read the configuration, choose an endpoint  *)
(* and set the configuration and the protocol.  Here every request is a    *)
(* step, so that the device can be pulled out, and another one plugged in, *)
(* between any two of them.  It implements UsbHost.                        *)
(***************************************************************************)
EXTENDS UsbHost, SequencesExt

CONSTANTS
  Config,       \* Config[d]: the descriptors in the configuration of d
  BufferSize    \* the size of bigbuf                    (256 in the source)

(* A descriptor has a length, a type, for an interface the class of its    *)
(* boot protocol, and for an endpoint the size of its packets.  Lengths are those of   *)
(* the standard: none is 0, at which the walk would stand still.           *)
Descriptors ==
  [length : 1..255, type : {"configuration", "interface", "hid", "endpoint"},
   boot : {"keyboard", "mouse", "other"}, maxPacket : 0..64]

VARIABLES
  pc,           \* where a call of USB_Task that is under way waits
  driver,       \* i, the probe that is called; 0 outside the loop
  maxPktSize,   \* hid_ep[1].MaxPktSize, which the polls work with
  found         \* the tables as the probes found them, for the refinement

callVars == <<pc, driver, maxPktSize, found>>
enumVars == <<usbVars, callVars>>

(* The probes in their order; two of them return FALSE at once.            *)
ClientDriverTable == <<"storage", "mouse", "keyboard", "dummy">>

EnumInit ==
  /\ UsbInit
  /\ pc = "out"
  /\ driver = 0
  /\ maxPktSize = 0
  /\ found = <<>>

-----------------------------------------------------------------------------
(* The walk over the descriptors that fit into the buffer: the first       *)
(* interface decides, and the first endpoint after it is taken.            *)
Offset(s, k) == FoldSeq(LAMBDA r, n : r.length + n, 0, SubSeq(s, 1, k - 1))

Buffer(d) ==
  LET s == Config[d]
  IN  SubSeq(s, 1, Cardinality({k \in DOMAIN s : Offset(s, k) < BufferSize}))

InterfaceFound(s, i) ==
  /\ i \in DOMAIN s /\ s[i].type = "interface"
  /\ \A m \in 1..(i - 1) : s[m].type # "interface"

IsOfClass(s, c) == \E i \in DOMAIN s : InterfaceFound(s, i) /\ s[i].boot = c

EndpointTakenLast(s, k) ==       \* mutant: the walk goes on after an endpoint
  /\ k \in DOMAIN s /\ s[k].type = "endpoint"
  /\ \E i \in 1..(k - 1) : InterfaceFound(s, i)
  /\ \A m \in (k + 1)..Len(s) : s[m].type # "endpoint"

EndpointTaken(s, k) ==
  /\ k \in DOMAIN s /\ s[k].type = "endpoint"
  /\ \E i \in 1..(k - 1) :
       InterfaceFound(s, i) /\ \A m \in (i + 1)..(k - 1) : s[m].type # "endpoint"

ASSUME EnumerationAssumption ==
  /\ BufferSize \in Nat
  /\ \A d \in Devices : Config[d] \in Seq(Descriptors)
  /\ \A d \in Devices : \A c \in Probes : Class[d] = c <=> IsOfClass(Buffer(d), c)

(* The first interface of a boot device has an endpoint, described before  *)
(* the next interface: the standard asks for it, the probes assume it      *)
(* (HID.c:116).                                                            *)
ASSUME EndpointAssumption ==
  \A d \in Devices : \A i \in DOMAIN Config[d] :
    InterfaceFound(Config[d], i) /\ Config[d][i].boot \in Probes =>
      \E e \in DOMAIN Config[d] :
        /\ e > i /\ Config[d][e].type = "endpoint"
        /\ \A m \in (i + 1)..e : Config[d][m].type # "interface"

-----------------------------------------------------------------------------
(* Reading the device descriptor: only the first request counts, the       *)
(* results of the others, for the rest of it and for the names of the      *)
(* device, are ignored.                                                    *)
GetDescriptorSize ==
  /\ at = "task" /\ pc = "out"
  /\ state = GET_DEVICE_DESCRIPTOR_SIZE
  /\ \/ Answers(0) /\ pc' = "rest" /\ UNCHANGED <<at, state>>
     \/ state' = ERROR /\ at' = "main" /\ UNCHANGED pc
  /\ UNCHANGED <<busVars, chipVars, ackBus, usbDelay, tableVars, mainVars, driver,
                 maxPktSize, found>>

GetOtherDescriptors ==
  /\ pc = "rest"
  /\ state' = ADDRESSING
  /\ at' = "main"
  /\ pc' = "out"
  /\ UNCHANGED <<busVars, chipVars, ackBus, usbDelay, tableVars, mainVars, driver,
                 maxPktSize, found>>

-----------------------------------------------------------------------------
(* The loop over the probes.                                               *)
StartProbing ==
  /\ at = "task" /\ pc = "out"
  /\ state = CONFIGURING
  /\ pc' = "call"
  /\ driver' = 1
  /\ found' = <<epinfo, devclass, hidAddr>>
  /\ UNCHANGED <<usbVars, maxPktSize>>

CallProbe ==
  /\ pc = "call"
  /\ driver \in DOMAIN ClientDriverTable
  /\ IF ClientDriverTable[driver] \in Probes
       THEN pc' = "head" /\ UNCHANGED driver
       ELSE driver' = driver + 1 /\ UNCHANGED pc
  /\ UNCHANGED <<usbVars, maxPktSize, found>>

EndProbing(s) ==
  /\ state' = s
  /\ at' = "main"
  /\ pc' = "out"
  /\ driver' = 0
  /\ found' = <<>>

NoDriver ==
  /\ pc = "call"
  /\ driver \notin DOMAIN ClientDriverTable
  /\ EndProbing(ERROR)
  /\ UNCHANGED <<busVars, chipVars, ackBus, usbDelay, tableVars, mainVars, maxPktSize>>

(* A probe returns FALSE: the next one is called.                          *)
ReturnFalse ==
  /\ driver' = driver + 1
  /\ pc' = "call"

ReadHead ==
  /\ pc = "head"
  /\ \/ Answers(tmpAddr) /\ pc' = "whole" /\ UNCHANGED driver
     \/ ReturnFalse
  /\ UNCHANGED <<usbVars, maxPktSize, found>>

ReadWhole ==
  /\ pc = "whole"
  /\ \/ /\ Answers(tmpAddr)
        /\ IsOfClass(Buffer(dev), ClientDriverTable[driver])
        /\ TakeDevice(ClientDriverTable[driver])
        /\ \/ \E k \in DOMAIN Buffer(dev) :
                /\ EndpointTaken(Buffer(dev), k)
                /\ maxPktSize' = Buffer(dev)[k].maxPacket
                /\ pc' = "conf"
                /\ UNCHANGED driver
           \/ /\ \A k \in DOMAIN Buffer(dev) : ~EndpointTaken(Buffer(dev), k)
              /\ ReturnFalse
              /\ UNCHANGED maxPktSize
     \/ /\ ~(Answers(tmpAddr) /\ IsOfClass(Buffer(dev), ClientDriverTable[driver]))
        /\ ReturnFalse
        /\ UNCHANGED <<epinfo, devclass, hidAddr, maxPktSize>>
  /\ UNCHANGED <<busVars, chipVars, at, ackBus, state, usbDelay, tmpAddr, mainVars, found>>

SetConf ==
  /\ pc = "conf"
  /\ devReady' \in IF Answers(tmpAddr) THEN {devReady, TRUE} ELSE {devReady}
  /\ \/ Answers(tmpAddr) /\ devReady' /\ pc' = "proto" /\ UNCHANGED driver
     \/ ReturnFalse
  /\ UNCHANGED <<dev, devAddr, chipVars, at, ackBus, state, usbDelay, tableVars, mainVars,
                 maxPktSize, found>>

SetProtoUnchecked ==             \* mutant: the result of the request is ignored
  /\ pc = "proto"
  /\ EndProbing(RUNNING)
  /\ UNCHANGED <<busVars, chipVars, ackBus, usbDelay, tableVars, mainVars, maxPktSize>>

SetProto ==
  /\ pc = "proto"
  /\ \/ Answers(tmpAddr) /\ EndProbing(RUNNING)
     \/ ReturnFalse /\ UNCHANGED <<at, state, found>>
  /\ UNCHANGED <<busVars, chipVars, ackBus, usbDelay, tableVars, mainVars, maxPktSize>>

-----------------------------------------------------------------------------
(* The states in which USB_Task waits for nothing, or for one request.     *)
ShortTask ==
  /\ at = "task" /\ pc = "out"
  /\ \/ TaskInitialize \/ TaskAttached \/ TaskSettle \/ TaskResetDevice
     \/ TaskWaitReset \/ TaskWaitSof \/ TaskAddressing \/ TaskIdle
  /\ at' = "main"
  /\ UNCHANGED <<ackBus, mainVars, callVars>>

LongTask ==
  \/ GetDescriptorSize \/ GetOtherDescriptors
  \/ StartProbing \/ CallProbe \/ NoDriver
  \/ ReadHead \/ ReadWhole \/ SetConf \/ SetProto

OtherTurns ==
  /\ \/ Interrupt \/ NoInterrupt \/ Acknowledge
     \/ StillRunning \/ InError \/ NotRunning
     \/ ChipReset \/ ClearAndInit
  /\ UNCHANGED callVars

EnumLoop == ShortTask \/ LongTask \/ OtherTurns

World ==
  /\ \/ \E d \in Devices : Plug(d)
     \/ Unplug \/ ResetNoise \/ EndBusReset \/ Settled
  /\ UNCHANGED callVars

EnumNext == World \/ EnumLoop

EnumSpec ==
  /\ EnumInit
  /\ [][EnumNext]_enumVars
  /\ WF_enumVars(EnumLoop)
  /\ WF_enumVars(EndBusReset /\ UNCHANGED callVars)
  /\ WF_enumVars(Settled /\ UNCHANGED callVars)

-----------------------------------------------------------------------------
EnumTypeOK ==
  /\ UsbTypeOK
  /\ pc \in {"out", "rest", "call", "head", "whole", "conf", "proto"}
  /\ driver \in 0..(Len(ClientDriverTable) + 1)
  /\ maxPktSize \in 0..64

(* The polls tell the end of a report by the size of the packets of an     *)
(* endpoint (transfer.c:217): unless an interrupt waits, that is one of    *)
(* the first interface of the device that runs, not one of a device before *)
(* it or of another interface (HID.c:72-73, 176-177, 212, 220).  The       *)
(* number of the endpoint is no question of the descriptors: the polls     *)
(* always go to endpoint 1 (HID.c:211, 219).                               *)
InterfacePackets(s) ==
  {s[k].maxPacket : k \in {n \in DOMAIN s :
     /\ s[n].type = "endpoint"
     /\ \E i \in 1..n :
          InterfaceFound(s, i) /\ \A m \in (i + 1)..n : s[m].type # "interface"}}

PollsKnowThePacketSize ==
  state = RUNNING /\ ~condet => maxPktSize \in InterfacePackets(Config[dev])

(* Seen from outside, reading the descriptors is over with the first       *)
(* request, and nothing of the probes counts before they are over.         *)
Probing == pc \notin {"out", "rest"}

HostAt == IF pc = "rest" THEN "main" ELSE at
HostState == IF pc = "rest" THEN ADDRESSING ELSE state
HostReady == devReady /\ ~Probing
HostEpinfo == IF Probing THEN found[1] ELSE epinfo
HostDevclass == IF Probing THEN found[2] ELSE devclass
HostAddr == IF Probing THEN found[3] ELSE hidAddr

U == INSTANCE UsbHost WITH
       at <- HostAt, state <- HostState, devReady <- HostReady,
       epinfo <- HostEpinfo, devclass <- HostDevclass, hidAddr <- HostAddr

ImplementsUsbHost == U!UsbSafety
=============================================================================
