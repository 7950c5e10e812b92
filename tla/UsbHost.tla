------------------------------- MODULE UsbHost ------------------------------
(***************************************************************************)
(* The USB host of the processor: the main loop (main.c), the interrupt    *)
(* and reset handling of the host chip MAX3421E (MAX3421E.c), the task     *)
(* that takes an attached device through enumeration (transfer.c) and the  *)
(* class probes (HID.c).                                                   *)
(*                                                                         *)
(* One turn of the main loop goes through the steps                        *)
(*   "irq"   look at the interrupt pin and, when it is set, probe the bus, *)
(*   "ack"   clear the interrupt flags that were served,                   *)
(*   "task"  one call of USB_Task,                                         *)
(*   "main"  poll a running device, or reset everything after it is gone,  *)
(* and a reset of the chip through                                         *)
(*   "reset" reset the chip and probe the bus,                             *)
(*   "clear" clear the interrupt flag, enable the pin, USB_init.           *)
(* Devices come and go between any two steps.  The device and the chip are *)
(* external: they do what the code relies on.  A transfer is one step that *)
(* can always fail, and can only succeed when the device answers.          *)
(***************************************************************************)
EXTENDS Integers, FiniteSets

CONSTANTS
  Devices,     \* the devices a player may plug in
  None,        \* nothing is plugged in
  Class,       \* Class[d]: "keyboard", "mouse" or "other"
  LowSpeed,    \* the devices that run at low speed
  Faulty,      \* the devices that hold both data lines high
  NumDevices   \* USB_NUMDEVICES                          (8 in the source)

ASSUME UsbAssumption ==
  /\ None \notin Devices
  /\ Class \in [Devices -> {"keyboard", "mouse", "other"}]
  /\ LowSpeed \subseteq Devices
  /\ Faulty \subseteq Devices
  /\ NumDevices \in Nat /\ NumDevices >= 2

(* usb_task_state.  The numbers matter: an interrupt adds one to them.     *)
INITIALIZE == 1
WAIT_FOR_DEVICE == 3
ILLEGAL == 4
ATTACHED == 16
SETTLE == 17
RESET_DEVICE == 18
WAIT_RESET_COMPLETE == 19
WAIT_SOF == 20
GET_DEVICE_DESCRIPTOR_SIZE == 21
ADDRESSING == 32
CONFIGURING == 48
RUNNING == 64
ERROR == 255

(* The numbers that an interrupt makes of INITIALIZE and ILLEGAL are no    *)
(* states of USB.h (MAX3421E.c:228); under the mask they are detached, and *)
(* no case of USB_Task takes them.                                         *)
Overrun == {INITIALIZE + 1, ILLEGAL + 1}
Detached == {INITIALIZE, WAIT_FOR_DEVICE, ILLEGAL} \cup Overrun
Attaching == ATTACHED..GET_DEVICE_DESCRIPTOR_SIZE
Enumerating == Attaching \cup {ADDRESSING, CONFIGURING}
States == Detached \cup Enumerating \cup {RUNNING, ERROR}

Addresses == 1..(NumDevices - 1)

VARIABLES
  \* the bus
  dev,        \* the device that is plugged in
  devAddr,    \* the address it answers at
  devReady,   \* has it been configured?
  \* the chip
  condet,     \* CONDETIRQ: a device came or went
  busEvent,   \* BUSEVENTIRQ: a bus reset is done
  resetting,  \* BUSRST: the bus is being reset
  lowSpeed,   \* is bmLOWSPEED set in rMODE?
  \* the program
  at,         \* where the main loop is
  ackBus,     \* bmBUSEVENTIRQ in HIRQ_sendback
  state,      \* usb_task_state
  usbDelay,   \* usb_delay, as the millisecond clock stands to it
  epinfo,     \* devtable[i].epinfo
  devclass,   \* devtable[i].devclass
  tmpAddr,    \* tmp_addr
  hidAddr,    \* hid_device.addr
  running,    \* runningdebugflag
  device,     \* device, the class that main polls
  lamp,       \* LED 9
  errorflag   \* errorflag

busVars == <<dev, devAddr, devReady>>
chipVars == <<condet, busEvent, resetting, lowSpeed>>
tableVars == <<epinfo, devclass, tmpAddr, hidAddr>>
mainVars == <<running, device, lamp, errorflag>>
usbVars == <<busVars, chipVars, at, ackBus, state, usbDelay, tableVars, mainVars>>

EmptyTable == [i \in Addresses |-> "null"]
NoClasses == [i \in Addresses |-> "none"]

UsbInit ==
  /\ dev \in Devices \cup {None}
  /\ devAddr = 0
  /\ devReady = FALSE
  /\ condet = FALSE
  /\ busEvent = FALSE
  /\ resetting = FALSE
  /\ lowSpeed = FALSE
  /\ at = "reset"
  /\ ackBus = FALSE
  /\ state = INITIALIZE
  /\ usbDelay = "passed"
  /\ epinfo = EmptyTable
  /\ devclass = NoClasses
  /\ tmpAddr = 0
  /\ hidAddr = 0
  /\ running = FALSE
  /\ device = "none"
  /\ lamp = FALSE
  /\ errorflag = FALSE

-----------------------------------------------------------------------------
(* The players, the chip and the clock.                                    *)
Connect(d) ==
  /\ dev' = d
  /\ devAddr' = 0
  /\ devReady' = FALSE
  /\ condet' = TRUE
  /\ UNCHANGED <<busEvent, resetting, lowSpeed, at, ackBus, state, usbDelay,
                 tableVars, mainVars>>

Plug(d) == dev = None /\ Connect(d)

Unplug == dev # None /\ Connect(None)

(* A bus reset raises a connection interrupt of its own (MAX3421E.c:142).  *)
ResetNoise ==
  /\ resetting
  /\ condet' = TRUE
  /\ UNCHANGED <<busVars, busEvent, resetting, lowSpeed, at, ackBus, state, usbDelay,
                 tableVars, mainVars>>

EndBusReset ==
  /\ resetting
  /\ resetting' = FALSE
  /\ busEvent' = TRUE
  /\ condet' \in {condet, TRUE}
  /\ devAddr' = 0
  /\ devReady' = FALSE
  /\ UNCHANGED <<dev, lowSpeed, at, ackBus, state, usbDelay, tableVars, mainVars>>

(* 200 ms pass, and the clock is seen above usb_delay; a bus reset takes   *)
(* 50 ms.                                                                  *)
Settled ==
  /\ usbDelay = "ahead"
  /\ ~resetting
  /\ usbDelay' = "passed"
  /\ UNCHANGED <<busVars, chipVars, at, ackBus, state, tableVars, mainVars>>

-----------------------------------------------------------------------------
(* MAX_busprobe, when the host speed is ls: what it finds, and what it     *)
(* makes of the task state and of the speed.  A device at the host's speed *)
(* is seen as J, one at the other speed as K.                              *)
Lines(ls) ==
  CASE dev = None -> "SE0"
    [] dev \in Faulty -> "SE1"
    [] dev \in Devices \ Faulty -> IF (dev \in LowSpeed) = ls THEN "J" ELSE "K"

Attaches(ls) == Lines(ls) \in {"J", "K"} /\ state # WAIT_RESET_COMPLETE

ProbedLeavesRunning(ls) ==       \* mutant: a running device is not given up
  CASE state = RUNNING -> state
    [] Attaches(ls) /\ state # RUNNING -> ATTACHED
    [] Lines(ls) = "SE1" /\ state # RUNNING -> ILLEGAL
    [] Lines(ls) = "SE0" /\ state # RUNNING ->
         IF state \in Detached THEN WAIT_FOR_DEVICE ELSE INITIALIZE
    [] OTHER -> state

Probed(ls) ==
  CASE Attaches(ls) -> ATTACHED
    [] Lines(ls) = "SE1" -> ILLEGAL
    [] Lines(ls) = "SE0" -> IF state \in Detached THEN WAIT_FOR_DEVICE ELSE INITIALIZE
    [] OTHER -> state

ProbedSpeed(ls) ==
  CASE Attaches(ls) -> IF Lines(ls) = "J" THEN ls ELSE ~ls
    [] Lines(ls) = "SE0" /\ state \in Detached -> FALSE
    [] OTHER -> ls

(* MAX3421E_Task and MaxIntHandler, up to the write that clears the flags. *)
Interrupt ==
  /\ at = "irq"
  /\ condet
  /\ state' = IF busEvent THEN Probed(lowSpeed) + 1 ELSE Probed(lowSpeed)
  /\ lowSpeed' = ProbedSpeed(lowSpeed)
  /\ ackBus' = busEvent
  /\ at' = "ack"
  /\ UNCHANGED <<busVars, condet, busEvent, resetting, usbDelay, tableVars, mainVars>>

NoInterrupt ==
  /\ at = "irq"
  /\ ~condet
  /\ at' = "task"
  /\ UNCHANGED <<busVars, chipVars, ackBus, state, usbDelay, tableVars, mainVars>>

Acknowledge ==
  /\ at = "ack"
  /\ condet' = FALSE
  /\ busEvent' = (busEvent /\ ~ackBus)
  /\ at' = "task"
  /\ UNCHANGED <<busVars, resetting, lowSpeed, ackBus, state, usbDelay, tableVars,
                 mainVars>>

-----------------------------------------------------------------------------
(* USB_Task.                                                               *)
Cleanup ==
  /\ epinfo' = EmptyTable
  /\ devclass' = NoClasses

TaskInitialize ==
  /\ state = INITIALIZE
  /\ Cleanup
  /\ state' = WAIT_FOR_DEVICE
  /\ UNCHANGED <<busVars, chipVars, usbDelay, tmpAddr, hidAddr>>

(* usb_delay becomes the time in 200 ms.  The clock (alt_nticks()*1000)/   *)
(* alt_ticks_per_second() wraps to 0 after 4294967, about every 72         *)
(* minutes; a time so close before that the loop never sees the clock      *)
(* above it is "beyond" the clock.                                         *)
TaskAttached ==
  /\ state = ATTACHED
  /\ usbDelay' \in {"ahead", "beyond"}
  /\ state' = SETTLE
  /\ UNCHANGED <<busVars, chipVars, tableVars>>

TaskSettle ==
  /\ state = SETTLE
  /\ state' = IF usbDelay = "passed" THEN RESET_DEVICE ELSE state
  /\ UNCHANGED <<busVars, chipVars, usbDelay, tableVars>>

TaskResetDevice ==
  /\ state = RESET_DEVICE
  /\ busEvent' = FALSE
  /\ resetting' = TRUE
  /\ state' = WAIT_RESET_COMPLETE
  /\ UNCHANGED <<busVars, condet, lowSpeed, usbDelay, tableVars>>

TaskWaitResetInverted ==         \* mutant: goes on while the bus is reset
  /\ state = WAIT_RESET_COMPLETE
  /\ state' = IF resetting THEN WAIT_SOF ELSE state
  /\ UNCHANGED <<busVars, chipVars, usbDelay, tableVars>>

TaskWaitReset ==
  /\ state = WAIT_RESET_COMPLETE
  /\ state' = IF resetting THEN state ELSE WAIT_SOF
  /\ UNCHANGED <<busVars, chipVars, usbDelay, tableVars>>

(* The test for the first frame is true whatever the flags are.            *)
TaskWaitSof ==
  /\ state = WAIT_SOF
  /\ state' = GET_DEVICE_DESCRIPTOR_SIZE
  /\ UNCHANGED <<busVars, chipVars, usbDelay, tableVars>>

(* Can a transfer to address a succeed?                                    *)
Answers(a) ==
  /\ dev \in Devices \ Faulty
  /\ devAddr = a
  /\ lowSpeed = (dev \in LowSpeed)
  /\ ~resetting

TaskGetDescriptor ==
  /\ state = GET_DEVICE_DESCRIPTOR_SIZE
  /\ \/ Answers(0) /\ state' = ADDRESSING
     \/ state' = ERROR
  /\ UNCHANGED <<busVars, chipVars, usbDelay, tableVars>>

(* The classes that have a probe.                                          *)
Probes == {"keyboard", "mouse"}

FreeAddresses == {i \in Addresses : epinfo[i] = "null"}

(* XferSetAddr.  When a handshake is lost, either the device has the       *)
(* address and the host an error, or the host goes on and the device has   *)
(* kept the address 0.                                                     *)
TaskAddressing ==
  /\ state = ADDRESSING
  /\ IF FreeAddresses = {}
       THEN state' = ERROR /\ UNCHANGED <<devAddr, epinfo, tmpAddr>>
       ELSE \E i \in FreeAddresses :
              /\ \A j \in FreeAddresses : i <= j
              /\ epinfo' = [epinfo EXCEPT ![i] = "dev0"]
              /\ devAddr' \in IF Answers(0) THEN {devAddr, i} ELSE {devAddr}
              /\ \/ Answers(0) /\ state' = CONFIGURING /\ tmpAddr' = i
                 \/ state' = ERROR /\ UNCHANGED tmpAddr
  /\ UNCHANGED <<dev, devReady, chipVars, usbDelay, devclass, hidAddr>>

(* HIDMProbe or HIDKProbe has found its interface, that of a device of     *)
(* class c: the entry is switched to the endpoints of the class before the *)
(* device is configured.                                                   *)
TakeFirstDevice(c) ==            \* mutant: the address is hard-wired
  /\ devclass' = [devclass EXCEPT ![tmpAddr] = c]
  /\ epinfo' = [epinfo EXCEPT ![tmpAddr] = "hid"]
  /\ hidAddr' = 1

TakeDevice(c) ==
  /\ devclass' = [devclass EXCEPT ![tmpAddr] = c]
  /\ epinfo' = [epinfo EXCEPT ![tmpAddr] = "hid"]
  /\ hidAddr' = tmpAddr

ProbeSucceeds ==
  /\ Answers(tmpAddr)
  /\ Class[dev] \in Probes
  /\ TakeDevice(Class[dev])
  /\ devReady' = TRUE
  /\ state' = RUNNING

(* The configuration is read, and then SET_CONFIGURATION or SET_PROTOCOL   *)
(* fails; by now the device may be gone, or another one be plugged in.     *)
ProbeBreaksOff ==
  /\ \E c \in Probes : TakeDevice(c)
  /\ devReady' \in IF Answers(tmpAddr) THEN {devReady, TRUE} ELSE {devReady}
  /\ state' = ERROR

NoProbeMatches ==
  /\ state' = ERROR
  /\ UNCHANGED <<devReady, epinfo, devclass, hidAddr>>

TaskConfiguring ==
  /\ state = CONFIGURING
  /\ ProbeSucceeds \/ ProbeBreaksOff \/ NoProbeMatches
  /\ UNCHANGED <<dev, devAddr, chipVars, usbDelay, tmpAddr>>

(* No device, an illegal state, a running device and an error are left     *)
(* alone, and so are the numbers that are no state of the task.            *)
TaskIdle ==
  /\ state \notin Enumerating \cup {INITIALIZE}
  /\ UNCHANGED <<busVars, chipVars, state, usbDelay, tableVars>>

UsbTask ==
  /\ at = "task"
  /\ \/ TaskInitialize \/ TaskAttached \/ TaskSettle \/ TaskResetDevice
     \/ TaskWaitReset \/ TaskWaitSof \/ TaskGetDescriptor \/ TaskAddressing
     \/ TaskConfiguring \/ TaskIdle
  /\ at' = "main"
  /\ UNCHANGED <<ackBus, mainVars>>

-----------------------------------------------------------------------------
(* The rest of the main loop.  GetDriverandReport: main polls the class of *)
(* the last device in the table.                                           *)
UsedAddresses == Addresses \ FreeAddresses

FirstDeviceFound(class) ==       \* mutant: the first device in the table
  \E i \in UsedAddresses :
    /\ \A j \in UsedAddresses : i <= j
    /\ class = devclass[i]

DeviceFound(class) ==
  \/ UsedAddresses = {} /\ class = "none"
  \/ \E i \in UsedAddresses :
       /\ \A j \in UsedAddresses : j <= i
       /\ class = devclass[i]

StillRunning ==
  /\ at = "main"
  /\ state = RUNNING
  /\ running' = TRUE
  /\ IF running THEN UNCHANGED <<device, lamp>> ELSE DeviceFound(device') /\ lamp' = TRUE
  /\ at' = "irq"
  /\ UNCHANGED <<busVars, chipVars, ackBus, state, usbDelay, tableVars, errorflag>>

InError ==
  /\ at = "main"
  /\ state = ERROR
  /\ errorflag' = TRUE
  /\ IF errorflag THEN UNCHANGED lamp ELSE lamp' = FALSE
  /\ at' = "irq"
  /\ UNCHANGED <<busVars, chipVars, ackBus, state, usbDelay, tableVars, running, device>>

(* After a device is gone everything is reset before the lamp goes out.    *)
NotRunning ==
  /\ at = "main"
  /\ state \notin {RUNNING, ERROR}
  /\ running' = FALSE
  /\ IF running
       THEN at' = "reset" /\ UNCHANGED <<lamp, errorflag>>
       ELSE at' = "irq" /\ lamp' = FALSE /\ errorflag' = FALSE
  /\ UNCHANGED <<busVars, chipVars, ackBus, state, usbDelay, tableVars, device>>

(* MAX3421E_init: the chip is reset, set to full speed, and the bus probed.*)
ChipReset ==
  /\ at = "reset"
  /\ state' = Probed(FALSE)
  /\ lowSpeed' = ProbedSpeed(FALSE)
  /\ condet' = FALSE
  /\ busEvent' = FALSE
  /\ resetting' = FALSE
  /\ at' = "clear"
  /\ UNCHANGED <<busVars, ackBus, usbDelay, tableVars, mainVars>>

ClearAndInitKeepsLamp ==         \* mutant: LED 9 stays lit
  /\ at = "clear"
  /\ condet' = FALSE
  /\ Cleanup
  /\ errorflag' = FALSE
  /\ at' = "irq"
  /\ UNCHANGED <<busVars, busEvent, resetting, lowSpeed, ackBus, state, usbDelay,
                 tmpAddr, hidAddr, running, device, lamp>>

ClearAndInit ==
  /\ at = "clear"
  /\ condet' = FALSE
  /\ Cleanup
  /\ lamp' = FALSE /\ errorflag' = FALSE
  /\ at' = "irq"
  /\ UNCHANGED <<busVars, busEvent, resetting, lowSpeed, ackBus, state, usbDelay,
                 tmpAddr, hidAddr, running, device>>

-----------------------------------------------------------------------------
MainLoop ==
  \/ Interrupt \/ NoInterrupt \/ Acknowledge
  \/ UsbTask
  \/ StillRunning \/ InError \/ NotRunning
  \/ ChipReset \/ ClearAndInit

UsbNext ==
  \/ \E d \in Devices : Plug(d)
  \/ Unplug
  \/ ResetNoise \/ EndBusReset
  \/ Settled
  \/ MainLoop

(* What the host may do, whatever it must do.                              *)
UsbSafety == UsbInit /\ [][UsbNext]_usbVars

(* The program runs on, resets end, and time passes, but not beyond the    *)
(* end of the clock.                                                       *)
UsbSpec ==
  /\ UsbInit
  /\ [][UsbNext]_usbVars
  /\ WF_usbVars(MainLoop) /\ WF_usbVars(EndBusReset) /\ WF_usbVars(Settled)

-----------------------------------------------------------------------------
FlagTypes ==
  /\ devReady \in BOOLEAN /\ condet \in BOOLEAN /\ busEvent \in BOOLEAN
  /\ resetting \in BOOLEAN /\ lowSpeed \in BOOLEAN /\ ackBus \in BOOLEAN
  /\ running \in BOOLEAN /\ lamp \in BOOLEAN /\ errorflag \in BOOLEAN

DataTypes ==
  /\ dev \in Devices \cup {None}
  /\ devAddr \in 0..(NumDevices - 1)
  /\ at \in {"irq", "ack", "task", "main", "reset", "clear"}
  /\ state \in States
  /\ usbDelay \in {"ahead", "beyond", "passed"}
  /\ epinfo \in [Addresses -> {"null", "dev0", "hid"}]
  /\ devclass \in [Addresses -> {"none", "keyboard", "mouse"}]
  /\ tmpAddr \in 0..(NumDevices - 1)
  /\ hidAddr \in 0..(NumDevices - 1)
  /\ device \in {"none", "keyboard", "mouse"}

UsbTypeOK == FlagTypes /\ DataTypes

(* The probes and the polls look up endpoints in the device table through  *)
(* pointers that USB_init sets to NULL: while they run, the entries they   *)
(* use are there (HID.c:155-158, 219-220), and so is the entry of address  *)
(* 1, which GetDriverandReport asks whatever device runs (main.c:22, 42).  *)
EndpointsInPlace ==
  /\ state = CONFIGURING => tmpAddr \in UsedAddresses
  /\ state = RUNNING =>
       /\ 1 \in UsedAddresses
       /\ hidAddr \in Addresses /\ epinfo[hidAddr] = "hid"

(* A running device is the one that was configured: unless an interrupt is *)
(* waiting, the device that is plugged in answers at the address that is   *)
(* polled, is configured, and is of the class that main polls, whatever    *)
(* devices came and went and whatever is left of them in the table.        *)
PollsReachTheDevice ==
  state = RUNNING /\ ~condet =>
    /\ Answers(hidAddr)
    /\ devReady
    /\ running => device = Class[dev]

(* The player can trust the lamp: whenever a turn of the main loop is over *)
(* it is lit exactly while a device runs, whichever way the device came    *)
(* and went (main.c:163, 221, 236).                                        *)
LampTellsRunning == at = "irq" => (lamp <=> state = RUNNING)

(* The host does not hang on the way: when nobody touches the plug any     *)
(* more, it comes to a state where it waits for a device, runs one, or     *)
(* reports an error, unless bus resets interrupt it over and over, or the  *)
(* device was attached so shortly before the millisecond clock wraps that  *)
(* the time it is to settle until never comes (transfer.c:277, 281).       *)
HostSettles ==
  <>[][FALSE]_dev =>
    \/ <>[](state \notin Enumerating \cup {INITIALIZE})
    \/ []<><<Interrupt>>_usbVars
    \/ <>[](state = SETTLE /\ usbDelay = "beyond")

(* A device that is gone for good is not polled for ever.                  *)
UnplugEndsRunning == <>[](dev = None) => <>[](state # RUNNING)

-----------------------------------------------------------------------------
(* What comments in the source say.                                        *)

(* "clear device data structures" (MAX3421E.c:170): a host that waits for  *)
(* a device has no entries of earlier ones.                                *)
DisconnectClears ==
  at = "main" /\ state \in Detached /\ dev = None /\ ~condet => UsedAddresses = {}

(* "ack bus state change" (MAX3421E.c:232): what is acknowledged has been  *)
(* looked at, and a device that is plugged in is not overlooked.           *)
DeviceIsNoticed ==
  at = "main" /\ state = WAIT_FOR_DEVICE /\ ~condet => dev = None
=============================================================================
