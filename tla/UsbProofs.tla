----------------------------- MODULE UsbProofs ------------------------------
(***************************************************************************)
(* Proofs about UsbHost and Enumeration, for any devices with any          *)
(* descriptors and any number of addresses.                                *)
(***************************************************************************)
EXTENDS Enumeration, FiniteSetTheorems, SequenceTheorems, TLAPS

(* The places of the main loop at which the state has just been probed or  *)
(* the chip is reset: no device is being configured or running there.      *)
ProbedPlaces ==
  /\ at \in {"ack", "reset", "clear"} => state \notin {CONFIGURING, RUNNING}

(* Addresses are taken lowest first, and the device that is configured     *)
(* has the highest one.                                                    *)
LowestFirst ==
  /\ \A i \in UsedAddresses : \A j \in Addresses : j < i => j \in UsedAddresses
  /\ state \in {CONFIGURING, RUNNING} =>
       tmpAddr \in UsedAddresses /\ \A j \in UsedAddresses : j <= tmpAddr

(* What a running device is known by.                                      *)
RunningEntry ==
  state = RUNNING => hidAddr = tmpAddr /\ epinfo[hidAddr] = "hid"

(* The flag of main is only up while a device runs, or in the turn of the  *)
(* loop in which it is gone.                                               *)
FlagIsFresh ==
  running =>
    \/ state = RUNNING
    \/ at \in {"ack", "task"} /\ state \in Detached \cup {ATTACHED, SETTLE}
    \/ at = "main" /\ state \in Detached \cup {SETTLE, RESET_DEVICE}

(* The device that runs is the one that was configured.                    *)
RunningDevice ==
  state = RUNNING /\ ~condet =>
    /\ Answers(hidAddr)
    /\ devReady
    /\ devclass[hidAddr] = Class[dev]
    /\ running => device = Class[dev]

(* A probe of the bus leads to few states, and ends what was running.      *)
LEMMA ProbedStates ==
  ASSUME NEW ls \in BOOLEAN, UsbTypeOK
  PROVE  /\ Probed(ls) \in {1, 3, 4, 16, 19}
         /\ Probed(ls) = 19 => state = 19
         /\ Probed(ls) = 3 => state \in Detached
<1> USE DEF INITIALIZE, WAIT_FOR_DEVICE, ILLEGAL, ATTACHED, WAIT_RESET_COMPLETE
<1>1. CASE Attaches(ls)
  BY <1>1 DEF Probed
<1>2. CASE ~Attaches(ls) /\ Lines(ls) = "SE1"
  BY <1>2 DEF Probed
<1>3. CASE ~Attaches(ls) /\ Lines(ls) = "SE0"
  BY <1>3 DEF Probed
<1>4. CASE ~Attaches(ls) /\ Lines(ls) \notin {"SE0", "SE1"}
  <2>1. Lines(ls) \in {"J", "K"}
    BY <1>4 DEF Lines, UsbTypeOK, DataTypes
  <2>2. state = 19
    BY <1>4, <2>1 DEF Attaches
  <2>3. Probed(ls) = state
    BY <1>4 DEF Probed
  <2> QED
    BY <2>2, <2>3
<1> QED
  BY <1>1, <1>2, <1>3, <1>4

LEMMA ProbedSpeeds ==
  ASSUME NEW ls \in BOOLEAN
  PROVE  ProbedSpeed(ls) \in BOOLEAN
BY Zenon DEF ProbedSpeed

-----------------------------------------------------------------------------
(* Type correctness.                                                       *)
LEMMA FlagStep == UsbTypeOK /\ [UsbNext]_usbVars => FlagTypes'
<1> SUFFICES ASSUME UsbTypeOK, [UsbNext]_usbVars PROVE FlagTypes'
  OBVIOUS
<1> USE DEF UsbTypeOK, FlagTypes
<1>1. ASSUME NEW d \in Devices, Plug(d) PROVE FlagTypes'
  BY <1>1, Zenon DEF Plug, Connect, mainVars
<1>2. CASE Unplug
  BY <1>2, Zenon DEF Unplug, Connect, mainVars
<1>3. CASE ResetNoise
  BY <1>3, Zenon DEF ResetNoise, busVars, mainVars
<1>4. CASE EndBusReset
  BY <1>4, Zenon DEF EndBusReset, mainVars
<1>5. CASE Settled
  BY <1>5, Zenon DEF Settled, busVars, chipVars, mainVars
<1>6. CASE Interrupt
  <2>1. lowSpeed' \in BOOLEAN
    BY <1>6, ProbedSpeeds, Zenon DEF Interrupt
  <2> QED
    BY <1>6, <2>1, Zenon DEF Interrupt, busVars, mainVars
<1>7. CASE NoInterrupt
  BY <1>7, Zenon DEF NoInterrupt, busVars, chipVars, mainVars
<1>8. CASE Acknowledge
  BY <1>8, Zenon DEF Acknowledge, busVars, mainVars
<1>9. CASE StillRunning
  BY <1>9, Zenon DEF StillRunning, busVars, chipVars
<1>10. CASE InError \/ NotRunning
  BY <1>10, Zenon DEF InError, NotRunning, busVars, chipVars
<1>11. CASE ChipReset
  <2>1. lowSpeed' \in BOOLEAN
    BY <1>11, ProbedSpeeds, Zenon DEF ChipReset
  <2> QED
    BY <1>11, <2>1, Zenon DEF ChipReset, busVars, mainVars
<1>12. CASE ClearAndInit
  BY <1>12, Zenon DEF ClearAndInit, busVars, mainVars
<1>13. CASE UsbTask
  <2> USE DEF UsbTask, mainVars
  <2>1. CASE TaskInitialize \/ TaskSettle \/ TaskWaitReset \/ TaskWaitSof
             \/ TaskGetDescriptor \/ TaskIdle
    BY <1>13, <2>1, Zenon
       DEF TaskInitialize, TaskSettle, TaskWaitReset, TaskWaitSof, TaskGetDescriptor,
           TaskIdle, busVars, chipVars
  <2>2. CASE TaskAttached
    BY <1>13, <2>2, Zenon DEF TaskAttached, busVars, chipVars
  <2>3. CASE TaskResetDevice
    BY <1>13, <2>3, Zenon DEF TaskResetDevice, busVars
  <2>4. CASE TaskAddressing
    BY <1>13, <2>4, Zenon DEF TaskAddressing, chipVars
  <2>5. CASE TaskConfiguring
    BY <1>13, <2>5, Zenon
       DEF TaskConfiguring, ProbeSucceeds, ProbeBreaksOff, NoProbeMatches, chipVars
  <2> QED
    BY <1>13, <2>1, <2>2, <2>3, <2>4, <2>5, Zenon
<1>14. CASE UNCHANGED usbVars
  BY <1>14, Zenon DEF usbVars, busVars, chipVars, mainVars
<1> QED
  BY <1>1, <1>2, <1>3, <1>4, <1>5, <1>6, <1>7, <1>8, <1>9, <1>10, <1>11, <1>12, <1>13, <1>14
     DEF UsbNext, MainLoop

LEMMA DataStep == UsbTypeOK /\ [UsbNext]_usbVars => DataTypes'
<1> SUFFICES ASSUME UsbTypeOK, DataTypes, [UsbNext]_usbVars PROVE DataTypes'
  BY DEF UsbTypeOK
<1> USE UsbAssumption DEF UsbAssumption, DataTypes, Addresses
<1>1. ASSUME NEW d \in Devices, Plug(d) PROVE DataTypes'
  BY <1>1 DEF Plug, Connect, tableVars, mainVars
<1>2. CASE Unplug
  BY <1>2 DEF Unplug, Connect, tableVars, mainVars
<1>3. CASE ResetNoise
  BY <1>3 DEF ResetNoise, busVars, tableVars, mainVars
<1>4. CASE EndBusReset
  BY <1>4 DEF EndBusReset, tableVars, mainVars
<1>5. CASE Settled
  BY <1>5 DEF Settled, busVars, chipVars, tableVars, mainVars
<1>6. CASE Interrupt
  <2>1. state' \in States
    BY <1>6, ProbedStates
       DEF Interrupt, UsbTypeOK, FlagTypes, States, Detached, Overrun, Enumerating, Attaching,
           INITIALIZE, WAIT_FOR_DEVICE, ILLEGAL, ATTACHED, GET_DEVICE_DESCRIPTOR_SIZE
  <2> QED
    BY <1>6, <2>1 DEF Interrupt, busVars, tableVars, mainVars
<1>7. CASE NoInterrupt
  BY <1>7 DEF NoInterrupt, busVars, chipVars, tableVars, mainVars
<1>8. CASE Acknowledge
  BY <1>8 DEF Acknowledge, busVars, tableVars, mainVars
<1>9. CASE StillRunning
  BY <1>9 DEF StillRunning, DeviceFound, UsedAddresses, busVars, chipVars, tableVars
<1>10. CASE InError \/ NotRunning
  BY <1>10 DEF InError, NotRunning, busVars, chipVars, tableVars
<1>11. CASE ChipReset
  <2>1. Probed(FALSE) \in {1, 3, 4, 16, 19}
    BY ProbedStates, Zenon DEF UsbTypeOK
  <2>2. state' \in {1, 3, 4, 16, 19}
    BY <1>11, <2>1, Zenon DEF ChipReset
  <2>3. state' \in States
    BY <2>2
       DEF States, Detached, Overrun, Enumerating, Attaching, INITIALIZE, WAIT_FOR_DEVICE,
           ILLEGAL, ATTACHED, GET_DEVICE_DESCRIPTOR_SIZE
  <2> QED
    BY <1>11, <2>3 DEF ChipReset, busVars, tableVars, mainVars
<1>12. CASE ClearAndInit
  BY <1>12 DEF ClearAndInit, Cleanup, EmptyTable, NoClasses, busVars, mainVars
<1>13. CASE UsbTask
  <2> USE DEF UsbTask, States, Detached, Overrun, Enumerating, Attaching, INITIALIZE,
              WAIT_FOR_DEVICE, ILLEGAL, ATTACHED, SETTLE, RESET_DEVICE, WAIT_RESET_COMPLETE, WAIT_SOF,
              GET_DEVICE_DESCRIPTOR_SIZE, ADDRESSING, CONFIGURING, RUNNING, ERROR, mainVars
  <2>1. CASE TaskInitialize
    BY <1>13, <2>1 DEF TaskInitialize, Cleanup, EmptyTable, NoClasses, busVars, chipVars
  <2>2. CASE TaskAttached
    BY <1>13, <2>2 DEF TaskAttached, busVars, chipVars, tableVars
  <2>3. CASE TaskSettle
    BY <1>13, <2>3 DEF TaskSettle, busVars, chipVars, tableVars
  <2>4. CASE TaskResetDevice
    BY <1>13, <2>4 DEF TaskResetDevice, busVars, tableVars
  <2>5. CASE TaskWaitReset
    BY <1>13, <2>5 DEF TaskWaitReset, busVars, chipVars, tableVars
  <2>6. CASE TaskWaitSof
    BY <1>13, <2>6 DEF TaskWaitSof, busVars, chipVars, tableVars
  <2>7. CASE TaskGetDescriptor
    BY <1>13, <2>7 DEF TaskGetDescriptor, busVars, chipVars, tableVars
  <2>8. CASE TaskAddressing
    BY <1>13, <2>8 DEF TaskAddressing, FreeAddresses, chipVars
  <2>9. CASE TaskConfiguring
    <3>1. CASE NoProbeMatches
      BY <1>13, <2>9, <3>1 DEF TaskConfiguring, NoProbeMatches
    <3>2. ASSUME NEW c \in Probes, TakeDevice(c), state' \in {RUNNING, ERROR}
          PROVE  DataTypes'
      <4>1. state' \in States
        BY <3>2
      <4>2. devclass' \in [Addresses -> {"none", "keyboard", "mouse"}]
        BY <3>2 DEF TakeDevice, Probes
      <4>3. epinfo' \in [Addresses -> {"null", "dev0", "hid"}] /\ hidAddr' \in 0..(NumDevices - 1)
        BY <3>2 DEF TakeDevice
      <4>4. /\ UNCHANGED <<dev, devAddr, usbDelay, tmpAddr, device>>
            /\ at' \in {"irq", "ack", "task", "main", "reset", "clear"}
        BY <1>13, <2>9 DEF TaskConfiguring
      <4> QED
        BY <4>1, <4>2, <4>3, <4>4
    <3> QED
      BY <2>9, <3>1, <3>2 DEF TaskConfiguring, ProbeSucceeds, ProbeBreaksOff
  <2>10. CASE TaskIdle
    BY <1>13, <2>10 DEF TaskIdle, busVars, chipVars, tableVars
  <2> QED
    BY <1>13, <2>1, <2>2, <2>3, <2>4, <2>5, <2>6, <2>7, <2>8, <2>9, <2>10
<1>14. CASE UNCHANGED usbVars
  BY <1>14 DEF usbVars, busVars, chipVars, tableVars, mainVars
<1> QED
  BY <1>1, <1>2, <1>3, <1>4, <1>5, <1>6, <1>7, <1>8, <1>9, <1>10, <1>11, <1>12, <1>13, <1>14
     DEF UsbNext, MainLoop
-----------------------------------------------------------------------------
(* Where the main loop is, and what its flag says.                         *)
LEMMA PlacesStep ==
  UsbTypeOK /\ ProbedPlaces /\ FlagIsFresh /\ [UsbNext]_usbVars => ProbedPlaces' /\ FlagIsFresh'
<1> SUFFICES ASSUME UsbTypeOK, ProbedPlaces, FlagIsFresh, [UsbNext]_usbVars
             PROVE  ProbedPlaces' /\ FlagIsFresh'
  OBVIOUS
<1> USE DEF ProbedPlaces, FlagIsFresh, Detached, Overrun, INITIALIZE, WAIT_FOR_DEVICE, ILLEGAL,
            ATTACHED,
            SETTLE, RESET_DEVICE, CONFIGURING, RUNNING, ERROR
<1>1. CASE UNCHANGED <<at, state, running>>
  BY <1>1
<1>2. CASE Interrupt
  <2>1. Probed(lowSpeed) \in {1, 3, 4, 16, 19} /\ (Probed(lowSpeed) = 19 => state = 19)
    BY ProbedStates, Zenon DEF UsbTypeOK, FlagTypes
  <2>2. state' \in {Probed(lowSpeed), Probed(lowSpeed) + 1}
    BY <1>2, Zenon DEF Interrupt
  <2>3. at = "irq" /\ at' = "ack" /\ running' = running
    BY <1>2, Zenon DEF Interrupt, mainVars
  <2> QED
    BY <2>1, <2>2, <2>3
<1>3. CASE NoInterrupt \/ Acknowledge \/ ClearAndInit
  BY <1>3 DEF NoInterrupt, Acknowledge, ClearAndInit, mainVars
<1>4. CASE StillRunning
  BY <1>4 DEF StillRunning
<1>5. CASE InError \/ NotRunning
  BY <1>5 DEF InError, NotRunning
<1>6. CASE ChipReset
  <2>1. Probed(FALSE) \in {1, 3, 4, 16, 19}
    BY ProbedStates, Zenon DEF UsbTypeOK
  <2>2. at = "reset" /\ at' = "clear" /\ running' = running /\ state' \in {1, 3, 4, 16, 19}
    BY <1>6, <2>1, Zenon DEF ChipReset, mainVars
  <2> QED
    BY <2>2
<1>7. CASE UsbTask
  <2> USE DEF UsbTask, mainVars, WAIT_RESET_COMPLETE, WAIT_SOF,
              GET_DEVICE_DESCRIPTOR_SIZE, ADDRESSING
  <2>1. at = "task" /\ at' = "main" /\ running' = running
    BY <1>7, Zenon
  <2>2. ASSUME running PROVE state = 64 \/ state \in {1, 2, 3, 4, 5, 16, 17}
    BY <2>1, <2>2
  <2>3. ASSUME state \in {1, 2, 3, 4, 5, 16, 17, 64}
        PROVE  state' = state \/ state' \in {3, 17, 18}
    BY <1>7, <2>3
       DEF TaskInitialize, TaskAttached, TaskSettle, TaskResetDevice, TaskWaitReset, TaskWaitSof,
           TaskGetDescriptor, TaskAddressing, TaskConfiguring, TaskIdle
  <2>4. state = 16 => state' = 17
    BY <1>7
       DEF TaskInitialize, TaskAttached, TaskSettle, TaskResetDevice, TaskWaitReset, TaskWaitSof,
           TaskGetDescriptor, TaskAddressing, TaskConfiguring, TaskIdle, Enumerating, Attaching
  <2> QED
    BY <2>1, <2>2, <2>3, <2>4
<1>8. CASE (\E d \in Devices : Plug(d)) \/ Unplug \/ ResetNoise \/ EndBusReset \/ Settled
           \/ UNCHANGED usbVars
  BY <1>1, <1>8, Zenon
     DEF Plug, Unplug, Connect, ResetNoise, EndBusReset, Settled, usbVars, mainVars
<1> QED
  BY <1>2, <1>3, <1>4, <1>5, <1>6, <1>7, <1>8, Zenon DEF UsbNext, MainLoop
-----------------------------------------------------------------------------
(* The device table.  Most steps keep it and enter neither of the states   *)
(* that use it.                                                            *)
TableKept ==
  /\ UNCHANGED tableVars
  /\ state' \in {CONFIGURING, RUNNING} => state' = state

LEMMA KeepsTable ==
  ASSUME UsbTypeOK, [UsbNext]_usbVars
  PROVE  \/ TableKept
         \/ ClearAndInit
         \/ UsbTask /\ (TaskInitialize \/ TaskAddressing \/ TaskConfiguring)
<1> USE DEF TableKept, INITIALIZE, WAIT_FOR_DEVICE, ILLEGAL, ATTACHED, SETTLE, RESET_DEVICE,
            CONFIGURING, RUNNING, ERROR, WAIT_RESET_COMPLETE, WAIT_SOF,
            GET_DEVICE_DESCRIPTOR_SIZE, ADDRESSING
<1>1. CASE (\E d \in Devices : Plug(d)) \/ Unplug \/ ResetNoise \/ EndBusReset \/ Settled
           \/ NoInterrupt \/ Acknowledge \/ StillRunning \/ InError \/ NotRunning
           \/ UNCHANGED usbVars
  BY <1>1, Zenon
     DEF Plug, Unplug, Connect, ResetNoise, EndBusReset, Settled, NoInterrupt, Acknowledge,
         StillRunning, InError, NotRunning, usbVars
<1>2. CASE Interrupt
  <2>1. Probed(lowSpeed) \in {1, 3, 4, 16, 19}
    BY ProbedStates, Zenon DEF UsbTypeOK, FlagTypes
  <2>2. state' \in {Probed(lowSpeed), Probed(lowSpeed) + 1} /\ UNCHANGED tableVars
    BY <1>2, Zenon DEF Interrupt
  <2> QED
    BY <2>1, <2>2
<1>3. CASE ChipReset
  <2>1. Probed(FALSE) \in {1, 3, 4, 16, 19}
    BY ProbedStates, Zenon DEF UsbTypeOK
  <2>2. state' \in {1, 3, 4, 16, 19} /\ UNCHANGED tableVars
    BY <1>3, <2>1, Zenon DEF ChipReset
  <2> QED
    BY <2>2
<1>4. CASE UsbTask
  BY <1>4 DEF UsbTask, TaskAttached, TaskSettle, TaskResetDevice, TaskWaitReset, TaskWaitSof,
              TaskGetDescriptor, TaskIdle, tableVars
<1> QED
  BY <1>1, <1>2, <1>3, <1>4, Zenon DEF UsbNext, MainLoop

LEMMA TableStep ==
  ASSUME UsbTypeOK, ProbedPlaces, LowestFirst, RunningEntry, [UsbNext]_usbVars
  PROVE  LowestFirst' /\ RunningEntry'
<1> USE UsbAssumption
    DEF UsbAssumption, UsbTypeOK, DataTypes, LowestFirst, RunningEntry, UsedAddresses,
        FreeAddresses, Addresses, ADDRESSING, CONFIGURING, RUNNING, ERROR
<1>1. CASE TableKept
  BY <1>1 DEF TableKept, tableVars
<1>2. CASE ClearAndInit
  <2>1. state' \notin {CONFIGURING, RUNNING}
    BY <1>2 DEF ClearAndInit, ProbedPlaces
  <2>2. epinfo' = [i \in Addresses |-> "null"]
    BY <1>2 DEF ClearAndInit, Cleanup, EmptyTable
  <2> QED
    BY <2>1, <2>2
<1>3. CASE TaskInitialize
  BY <1>3 DEF TaskInitialize, Cleanup, EmptyTable, WAIT_FOR_DEVICE
<1>4. CASE TaskAddressing
  <2>1. CASE FreeAddresses = {}
    BY <1>4, <2>1 DEF TaskAddressing
  <2>2. ASSUME NEW i \in FreeAddresses, \A j \in FreeAddresses : i <= j,
               epinfo' = [epinfo EXCEPT ![i] = "dev0"],
               state' \in {CONFIGURING, ERROR}, state' = CONFIGURING => tmpAddr' = i
        PROVE  LowestFirst' /\ RunningEntry'
    <3>1. UsedAddresses' = UsedAddresses \cup {i}
      BY <2>2
    <3>2. \A j \in UsedAddresses : j < i
      BY <2>2
    <3>3. \A j \in Addresses : j < i => j \in UsedAddresses
      BY <2>2
    <3> QED
      BY <2>2, <3>1, <3>2, <3>3
  <2> QED
    BY <1>4, <2>1, <2>2 DEF TaskAddressing
<1>5. CASE TaskConfiguring
  <2>1. CASE NoProbeMatches
    BY <1>5, <2>1 DEF TaskConfiguring, NoProbeMatches
  <2>2. ASSUME NEW c \in Probes, TakeDevice(c)
        PROVE  LowestFirst' /\ RunningEntry'
    <3>1. tmpAddr \in UsedAddresses /\ tmpAddr' = tmpAddr
      BY <1>5 DEF TaskConfiguring
    <3>2. UsedAddresses' = UsedAddresses
      BY <2>2, <3>1 DEF TakeDevice
    <3>3. hidAddr' = tmpAddr /\ epinfo'[tmpAddr] = "hid"
      BY <2>2, <3>1 DEF TakeDevice
    <3>4. \A j \in UsedAddresses : j <= tmpAddr
      BY <1>5 DEF TaskConfiguring
    <3> HIDE DEF UsedAddresses
    <3> QED
      BY <3>1, <3>2, <3>3, <3>4
  <2> QED
    BY <1>5, <2>1, <2>2 DEF TaskConfiguring, ProbeSucceeds, ProbeBreaksOff
<1> QED
  BY <1>1, <1>2, <1>3, <1>4, <1>5, KeepsTable, Zenon
-----------------------------------------------------------------------------
(* The lamp, and the flag of main that goes with it.                       *)
LampInv ==
  /\ at \in {"reset", "clear"} => ~running
  /\ at \notin {"reset", "clear"} => lamp = running
  /\ at = "irq" => running = (state = RUNNING)

LEMMA LampStep ==
  ASSUME UsbTypeOK, ProbedPlaces, FlagIsFresh, LampInv, [UsbNext]_usbVars
  PROVE  LampInv'
<1> USE DEF LampInv
<1>1. CASE UNCHANGED <<at, state, running, lamp>>
  BY <1>1
<1>2. CASE (\E d \in Devices : Plug(d)) \/ Unplug \/ ResetNoise \/ EndBusReset \/ Settled
           \/ UNCHANGED usbVars
  BY <1>1, <1>2, Zenon
     DEF Plug, Unplug, Connect, ResetNoise, EndBusReset, Settled, usbVars, mainVars
<1>3. CASE Interrupt \/ NoInterrupt \/ Acknowledge \/ UsbTask \/ ChipReset
  <2>1. /\ at' \in {"ack", "task", "main", "clear"}
        /\ at' = "clear" <=> at = "reset"
        /\ at # "clear"
        /\ UNCHANGED <<running, lamp>>
    BY <1>3 DEF Interrupt, NoInterrupt, Acknowledge, UsbTask, ChipReset, mainVars
  <2> QED
    BY <2>1
<1>4. CASE StillRunning
  BY <1>4, Zenon DEF StillRunning
<1>5. CASE InError
  <2>1. ~running
    BY <1>5 DEF InError, FlagIsFresh, Detached, Overrun, INITIALIZE, WAIT_FOR_DEVICE, ILLEGAL,
                SETTLE, RESET_DEVICE, RUNNING, ERROR
  <2>2. state # RUNNING
    BY <1>5 DEF InError, RUNNING, ERROR
  <2> QED
    BY <1>5, <2>1, <2>2, Zenon DEF InError, UsbTypeOK, FlagTypes
<1>6. CASE NotRunning
  BY <1>6, Zenon DEF NotRunning, UsbTypeOK, FlagTypes
<1>7. CASE ClearAndInit
  BY <1>7, Zenon DEF ClearAndInit, ProbedPlaces, UsbTypeOK, FlagTypes
<1> QED
  BY <1>2, <1>3, <1>4, <1>5, <1>6, <1>7, Zenon DEF UsbNext, MainLoop

-----------------------------------------------------------------------------
(* The device that runs.                                                   *)
UsbInv ==
  /\ UsbTypeOK
  /\ ProbedPlaces /\ FlagIsFresh
  /\ LowestFirst /\ RunningEntry
  /\ LampInv
  /\ RunningDevice

LEMMA RunningDeviceStep ==
  ASSUME UsbInv, [UsbNext]_usbVars
  PROVE  RunningDevice'
<1> SUFFICES ASSUME state' = RUNNING, ~condet'
             PROVE  /\ Answers(hidAddr)'
                    /\ devReady'
                    /\ devclass'[hidAddr'] = Class[dev']
                    /\ running' => device' = Class[dev']
  BY Zenon DEF RunningDevice
<1> DEFINE Goal == /\ Answers(hidAddr)'
                   /\ devReady'
                   /\ devclass'[hidAddr'] = Class[dev']
                   /\ running' => device' = Class[dev']
<1>1. ASSUME state = RUNNING, ~condet, UNCHANGED <<busVars, resetting, lowSpeed, tableVars, device>>,
             running' = running
      PROVE  Goal
  BY <1>1, Zenon DEF UsbInv, RunningDevice, Answers, busVars, tableVars
<1>2. CASE (\E d \in Devices : Plug(d)) \/ Unplug \/ ResetNoise
  BY <1>2, Zenon DEF Plug, Unplug, Connect, ResetNoise
<1>3. CASE EndBusReset
  <2>1. condet' \in {condet, TRUE} /\ resetting /\ state = RUNNING
    BY <1>3, Zenon DEF EndBusReset
  <2>2. ~condet
    BY <2>1, Zenon
  <2> QED
    BY <2>1, <2>2, Zenon DEF UsbInv, RunningDevice, Answers
<1>4. CASE Settled \/ NoInterrupt \/ UNCHANGED usbVars
  <2>1. UNCHANGED <<busVars, chipVars, state, tableVars, mainVars>>
    BY <1>4, Zenon DEF Settled, NoInterrupt, usbVars
  <2>2. state = RUNNING /\ ~condet /\ UNCHANGED <<resetting, lowSpeed>>
    BY <2>1, Zenon DEF chipVars
  <2> QED
    BY <1>1, <2>1, <2>2, Zenon DEF mainVars
<1>5. CASE Interrupt
  <2>1. Probed(lowSpeed) \in {1, 3, 4, 16, 19}
    BY ProbedStates, Zenon DEF UsbInv, UsbTypeOK, FlagTypes
  <2>2. state' \in {Probed(lowSpeed), Probed(lowSpeed) + 1}
    BY <1>5, Zenon DEF Interrupt
  <2>3. state' # RUNNING
    BY <2>1, <2>2 DEF RUNNING
  <2> QED
    BY <2>3, Zenon
<1>6. CASE ChipReset
  <2>1. Probed(FALSE) \in {1, 3, 4, 16, 19}
    BY ProbedStates, Zenon DEF UsbInv
  <2>2. state' \in {1, 3, 4, 16, 19}
    BY <1>6, <2>1, Zenon DEF ChipReset
  <2>3. state' # RUNNING
    BY <2>2 DEF RUNNING
  <2> QED
    BY <2>3, Zenon
<1>7. CASE Acknowledge \/ ClearAndInit
  BY <1>7, Zenon DEF Acknowledge, ClearAndInit, UsbInv, ProbedPlaces
<1>8. CASE InError \/ NotRunning
  <2>1. state' = state /\ state # RUNNING
    BY <1>8 DEF InError, NotRunning, RUNNING, ERROR
  <2> QED
    BY <2>1, Zenon
<1>9. CASE StillRunning
  <2>1. state = RUNNING /\ ~condet /\ UNCHANGED <<busVars, resetting, lowSpeed, tableVars>>
    BY <1>9, Zenon DEF StillRunning, chipVars
  <2>2. CASE running
    <3>1. running' /\ device' = device
      BY <1>9, <2>2, Zenon DEF StillRunning
    <3> QED
      BY <1>1, <2>1, <2>2, <3>1, Zenon
  <2>3. CASE ~running
    <3>1. DeviceFound(device')
      BY <1>9, <2>3, Zenon DEF StillRunning
    <3>2. hidAddr \in UsedAddresses /\ \A j \in UsedAddresses : j <= hidAddr
      BY <2>1, Zenon DEF UsbInv, LowestFirst, RunningEntry
    <3>3. UsedAddresses \subseteq Int
      BY DEF UsedAddresses, Addresses
    <3>4. device' = devclass[hidAddr]
      BY <3>1, <3>2, <3>3 DEF DeviceFound
    <3> QED
      BY <2>1, <3>4, Zenon DEF UsbInv, RunningDevice, Answers, busVars, tableVars
  <2> QED
    BY <2>2, <2>3
<1>10. CASE UsbTask /\ TaskConfiguring
  <2>1. state = CONFIGURING /\ ~condet /\ at = "task"
    BY <1>10, Zenon DEF TaskConfiguring, UsbTask, chipVars
  <2>2. ~running
    <3>1. state \notin Detached \cup {ATTACHED, SETTLE, RUNNING}
      BY <2>1 DEF Detached, Overrun, CONFIGURING, ATTACHED, SETTLE, RUNNING, INITIALIZE,
                  WAIT_FOR_DEVICE, ILLEGAL
    <3> QED
      BY <2>1, <3>1, Zenon DEF UsbInv, FlagIsFresh
  <2>3. RUNNING # ERROR
    BY DEF RUNNING, ERROR
  <2>4. ProbeSucceeds
    BY <1>10, <2>3, Zenon DEF TaskConfiguring, ProbeBreaksOff, NoProbeMatches
  <2>5. hidAddr' = tmpAddr /\ devReady' /\ devclass' = [devclass EXCEPT ![tmpAddr] = Class[dev]]
    BY <2>4, Zenon DEF ProbeSucceeds, TakeDevice
  <2>6. tmpAddr \in Addresses
    BY <2>1, Zenon DEF UsbInv, LowestFirst, UsedAddresses
  <2>7. devclass'[hidAddr'] = Class[dev]
    BY <2>5, <2>6 DEF UsbInv, UsbTypeOK, DataTypes
  <2>8. UNCHANGED <<dev, devAddr, chipVars, mainVars>>
    BY <1>10, Zenon DEF TaskConfiguring, UsbTask
  <2> QED
    BY <2>2, <2>4, <2>5, <2>7, <2>8, Zenon DEF ProbeSucceeds, Answers, chipVars, mainVars
<1>11. CASE UsbTask /\ TaskIdle
  BY <1>1, <1>11, Zenon DEF UsbTask, TaskIdle, chipVars, mainVars
<1>12. CASE UsbTask /\ ~TaskConfiguring /\ ~TaskIdle
  <2>1. state' # RUNNING
    BY <1>12
       DEF UsbTask, TaskInitialize, TaskAttached, TaskSettle, TaskResetDevice, TaskWaitReset,
           TaskWaitSof, TaskGetDescriptor, TaskAddressing, INITIALIZE, WAIT_FOR_DEVICE,
           ATTACHED, SETTLE, RESET_DEVICE, WAIT_RESET_COMPLETE, WAIT_SOF,
           GET_DEVICE_DESCRIPTOR_SIZE, ADDRESSING, CONFIGURING, RUNNING, ERROR
  <2> QED
    BY <2>1, Zenon
<1> QED
  BY <1>2, <1>3, <1>4, <1>5, <1>6, <1>7, <1>8, <1>9, <1>10, <1>11, <1>12, Zenon
     DEF UsbNext, MainLoop

-----------------------------------------------------------------------------
LEMMA InitUsbInv == UsbInit => UsbInv
<1> SUFFICES ASSUME UsbInit PROVE UsbInv
  OBVIOUS
<1> USE UsbAssumption DEF UsbInit, UsbAssumption
<1>1. FlagTypes
  BY Zenon DEF FlagTypes
<1>2. DataTypes
  BY DEF DataTypes, States, Detached, Overrun, INITIALIZE, EmptyTable, NoClasses
<1>3. ProbedPlaces /\ FlagIsFresh /\ RunningEntry /\ RunningDevice
  BY DEF ProbedPlaces, FlagIsFresh, RunningEntry, RunningDevice, INITIALIZE, CONFIGURING,
         RUNNING
<1>4. LowestFirst
  BY DEF LowestFirst, UsedAddresses, FreeAddresses, EmptyTable, INITIALIZE, CONFIGURING,
         RUNNING
<1>5. LampInv
  BY DEF LampInv
<1> QED
  BY <1>1, <1>2, <1>3, <1>4, <1>5 DEF UsbInv, UsbTypeOK

LEMMA UsbInvStep ==
  ASSUME UsbInv, [UsbNext]_usbVars
  PROVE  UsbInv'
<1>1. UsbTypeOK'
  BY FlagStep, DataStep DEF UsbInv, UsbTypeOK
<1>2. ProbedPlaces' /\ FlagIsFresh'
  BY PlacesStep DEF UsbInv
<1>3. LowestFirst' /\ RunningEntry'
  BY TableStep DEF UsbInv
<1>4. RunningDevice'
  BY RunningDeviceStep
<1>5. LampInv'
  BY LampStep DEF UsbInv
<1> QED
  BY <1>1, <1>2, <1>3, <1>4, <1>5 DEF UsbInv

(* The invariant holds in every state of every behaviour of the host.      *)
THEOREM UsbInvariant == UsbSpec => []UsbInv
<1>1. UsbInit => UsbInv
  BY InitUsbInv
<1>2. UsbInv /\ [UsbNext]_usbVars => UsbInv'
  BY UsbInvStep
<1> QED
  BY <1>1, <1>2, PTL DEF UsbSpec

(* The host and the device table keep their types.  In particular the      *)
(* interrupt that adds one to the task state (MAX3421E.c:228) makes no     *)
(* other numbers than the states of USB.h and the two of Overrun, 0x02 and *)
(* 0x05, which are no states of the task.                                  *)
THEOREM UsbTypeCorrect == UsbSpec => []UsbTypeOK
BY UsbInvariant, PTL DEF UsbInv

(* What the invariant says of the polls and of the lamp.                   *)
LEMMA HostPromises ==
  ASSUME UsbInv
  PROVE  EndpointsInPlace /\ PollsReachTheDevice /\ LampTellsRunning
<1>1. state = RUNNING => 1 \in UsedAddresses
  <2> SUFFICES ASSUME state = RUNNING PROVE 1 \in UsedAddresses
    OBVIOUS
  <2>1. tmpAddr \in UsedAddresses /\ tmpAddr \in Addresses
    BY Zenon DEF UsbInv, LowestFirst, UsedAddresses
  <2>2. 1 \in Addresses /\ (tmpAddr = 1 \/ 1 < tmpAddr)
    BY <2>1, UsbAssumption DEF Addresses, UsbAssumption
  <2> QED
    BY <2>1, <2>2, Zenon DEF UsbInv, LowestFirst
<1>2. EndpointsInPlace
  BY <1>1 DEF UsbInv, LowestFirst, RunningEntry, EndpointsInPlace, UsedAddresses
<1>3. PollsReachTheDevice
  BY Zenon DEF UsbInv, RunningDevice, PollsReachTheDevice
<1>4. LampTellsRunning
  <2> SUFFICES ASSUME at = "irq" PROVE lamp <=> state = RUNNING
    BY DEF LampTellsRunning
  <2>1. lamp = running /\ running = (state = RUNNING)
    BY DEF UsbInv, LampInv
  <2> QED
    BY <2>1
<1> QED
  BY <1>2, <1>3, <1>4

-----------------------------------------------------------------------------
(* Enumeration.  Where a call of USB_Task can wait.                        *)
PlaceOfCall ==
  /\ pc \in {"out", "rest", "call", "head", "whole", "conf", "proto"}
  /\ pc # "out" => at = "task"
  /\ pc = "rest" => state = GET_DEVICE_DESCRIPTOR_SIZE
  /\ Probing => state = CONFIGURING
  /\ pc \in {"head", "whole", "conf", "proto"} => ClientDriverTable[driver] \in Probes

(* A device that is enumerated has been reset: it is not configured before *)
(* the probes do that.                                                     *)
NotReadyYet ==
  /\ busEvent => ~resetting
  /\ at = "reset" => state # WAIT_RESET_COMPLETE
  /\ state = WAIT_RESET_COMPLETE => resetting \/ ~devReady
  /\ state \in {WAIT_SOF, GET_DEVICE_DESCRIPTOR_SIZE, ADDRESSING, CONFIGURING} /\ ~Probing =>
       ~devReady

(* What the probes have done to the tables since they were called.         *)
Untouched ==
  /\ epinfo = found[1] /\ devclass = found[2] /\ hidAddr = found[3]
  /\ ~devReady
  /\ pc \notin {"conf", "proto"}

TakenAs(c) ==
  /\ epinfo = [found[1] EXCEPT ![tmpAddr] = "hid"]
  /\ devclass = [found[2] EXCEPT ![tmpAddr] = c]
  /\ hidAddr = tmpAddr
  /\ pc \in {"conf", "proto"} => c = ClientDriverTable[driver]

ProbesSoFar ==
  Probing =>
    /\ found[1] \in [Addresses -> {"null", "dev0", "hid"}]
    /\ found[2] \in [Addresses -> {"none", "keyboard", "mouse"}]
    /\ Untouched \/ \E c \in Probes : TakenAs(c)

(* What is known of the device that still answers.                         *)
DeviceSoFar ==
  /\ Probing /\ devReady => Answers(tmpAddr)
  /\ pc \in {"conf", "proto"} /\ devAddr = tmpAddr => Class[dev] = ClientDriverTable[driver]
  /\ pc = "proto" /\ devAddr = tmpAddr => devReady

CallInv == PlaceOfCall /\ NotReadyYet /\ ProbesSoFar /\ DeviceSoFar

EnumInv == UsbInv /\ CallInv

(* A step of Enumeration is one of UsbHost outside the long calls, or one  *)
(* of a long call.                                                         *)
LEMMA StepKinds ==
  ASSUME [EnumNext]_enumVars
  PROVE  \/ [UsbNext]_usbVars /\ UNCHANGED callVars
         \/ LongTask
<1>1. CASE World
  BY <1>1, Zenon DEF World, UsbNext
<1>2. CASE OtherTurns
  BY <1>2, Zenon DEF OtherTurns, UsbNext, MainLoop
<1>3. CASE ShortTask
  BY <1>3, Zenon DEF ShortTask, UsbTask, UsbNext, MainLoop
<1>4. CASE UNCHANGED enumVars
  BY <1>4, Zenon DEF enumVars
<1> QED
  BY <1>1, <1>2, <1>3, <1>4, Zenon DEF EnumNext, EnumLoop

(* A long call leaves everything alone but the tables, the place and the   *)
(* state.                                                                  *)
LEMMA LongSteps ==
  ASSUME PlaceOfCall, LongTask
  PROVE  /\ at = "task" /\ at' \in {"task", "main"}
         /\ state \in {GET_DEVICE_DESCRIPTOR_SIZE, CONFIGURING}
         /\ state' \in {state, ADDRESSING, ERROR} \/ SetProto
         /\ UNCHANGED <<dev, devAddr, chipVars, ackBus, usbDelay, tmpAddr, mainVars>>
         /\ \/ UNCHANGED tableVars
            \/ state = CONFIGURING /\ \E c \in Probes : TakeDevice(c)
<1> USE DEF PlaceOfCall, Probing
<1>1. /\ at = "task"
      /\ state \in {GET_DEVICE_DESCRIPTOR_SIZE, CONFIGURING}
      /\ ReadWhole => state = CONFIGURING /\ ClientDriverTable[driver] \in Probes
  BY DEF LongTask, GetDescriptorSize, GetOtherDescriptors, StartProbing, CallProbe, NoDriver,
         ReadHead, ReadWhole, SetConf, SetProto
<1>2. \/ UNCHANGED <<at, state>>
      \/ at' = "main" /\ state' \in {ADDRESSING, ERROR}
      \/ SetProto
  BY Zenon
     DEF LongTask, GetDescriptorSize, GetOtherDescriptors, StartProbing, CallProbe, NoDriver,
         EndProbing, ReadHead, ReadWhole, SetConf, usbVars
<1>3. SetProto => at' \in {"task", "main"}
  BY <1>1, Zenon DEF SetProto, EndProbing
<1>4. UNCHANGED <<dev, devAddr, chipVars, ackBus, usbDelay, tmpAddr, mainVars>>
  BY Zenon
     DEF LongTask, GetDescriptorSize, GetOtherDescriptors, StartProbing, CallProbe, NoDriver,
         ReadHead, ReadWhole, SetConf, SetProto, usbVars, busVars, tableVars
<1>5. ReadWhole => UNCHANGED tableVars \/ TakeDevice(ClientDriverTable[driver])
  BY Zenon DEF ReadWhole, tableVars
<1>6. ~ReadWhole => UNCHANGED tableVars
  BY Zenon
     DEF LongTask, GetDescriptorSize, GetOtherDescriptors, StartProbing, CallProbe, NoDriver,
         ReadHead, SetConf, SetProto, usbVars
<1> QED
  BY <1>1, <1>2, <1>3, <1>4, <1>5, <1>6, Zenon

(* What SetProto finds when it ends the probes with success.               *)
LEMMA ProbesEnd ==
  ASSUME EnumInv, SetProto, state' = RUNNING
  PROVE  /\ Answers(tmpAddr) /\ devReady /\ UNCHANGED devReady
         /\ TakenAs(Class[dev]) /\ Class[dev] \in Probes
         /\ UNCHANGED <<epinfo, devclass, hidAddr>>
         /\ tmpAddr \in Addresses /\ Probing /\ state = CONFIGURING /\ at' = "main" /\ pc' = "out"
<1> USE DEF EnumInv, CallInv
<1>1. pc = "proto" /\ Probing /\ state = CONFIGURING /\ ClientDriverTable[driver] \in Probes
  BY Zenon DEF SetProto, Probing, PlaceOfCall
<1>2. state' # state
  BY <1>1 DEF CONFIGURING, RUNNING
<1>3. Answers(tmpAddr) /\ at' = "main" /\ pc' = "out"
  BY <1>2, Zenon DEF SetProto, EndProbing
<1>4. devReady /\ Class[dev] = ClientDriverTable[driver]
  BY <1>1, <1>3, Zenon DEF DeviceSoFar, Answers
<1>5. TakenAs(Class[dev])
  BY <1>1, <1>4, Zenon DEF ProbesSoFar, Untouched, TakenAs
<1>6. tmpAddr \in Addresses
  BY <1>1, Zenon DEF UsbInv, LowestFirst, UsedAddresses
<1>7. UNCHANGED <<devReady, epinfo, devclass, hidAddr>>
  BY Zenon DEF SetProto, busVars, tableVars
<1> QED
  BY <1>1, <1>3, <1>4, <1>5, <1>6, <1>7, Zenon

(* The invariant of the host holds through the long calls.                 *)
LEMMA LongTypes ==
  ASSUME EnumInv, LongTask
  PROVE  UsbTypeOK'
<1> USE DEF EnumInv, CallInv, UsbInv, UsbTypeOK
<1>1. /\ at' \in {"task", "main"}
      /\ UNCHANGED <<dev, devAddr, chipVars, ackBus, usbDelay, tmpAddr, mainVars>>
  BY LongSteps, Zenon
<1>2. devReady' \in BOOLEAN
  <2>1. CASE SetConf
    BY <2>1, Zenon DEF SetConf, FlagTypes
  <2>2. CASE ~SetConf
    BY <2>2, Zenon
       DEF LongTask, GetDescriptorSize, GetOtherDescriptors, StartProbing, CallProbe, NoDriver,
           ReadHead, ReadWhole, SetProto, usbVars, busVars, FlagTypes
  <2> QED
    BY <2>1, <2>2
<1>3. state' \in States
  <2>1. CASE SetProto
    BY <2>1 DEF SetProto, EndProbing, DataTypes, States
  <2>2. CASE ~SetProto
    BY <2>2, LongSteps DEF DataTypes, States, Enumerating
  <2> QED
    BY <2>1, <2>2
<1>4. /\ epinfo' \in [Addresses -> {"null", "dev0", "hid"}]
      /\ devclass' \in [Addresses -> {"none", "keyboard", "mouse"}]
      /\ hidAddr' \in 0..(NumDevices - 1)
  <2>1. CASE UNCHANGED tableVars
    BY <2>1 DEF tableVars, DataTypes
  <2>2. ASSUME NEW c \in Probes, TakeDevice(c)
        PROVE  /\ epinfo' \in [Addresses -> {"null", "dev0", "hid"}]
               /\ devclass' \in [Addresses -> {"none", "keyboard", "mouse"}]
               /\ hidAddr' \in 0..(NumDevices - 1)
    BY <2>2 DEF TakeDevice, Probes, DataTypes
  <2> QED
    BY <2>1, <2>2, LongSteps
<1>5. FlagTypes'
  BY <1>1, <1>2, Zenon DEF FlagTypes, chipVars, mainVars
<1>6. DataTypes'
  BY <1>1, <1>3, <1>4 DEF DataTypes, mainVars
<1> QED
  BY <1>5, <1>6
LEMMA LongTable ==
  ASSUME EnumInv, LongTask
  PROVE  LowestFirst' /\ RunningEntry' /\ RunningDevice'
<1> USE DEF EnumInv, CallInv, UsbInv
<1> USE LongSteps
<1>1. tmpAddr' = tmpAddr /\ (state' \in {CONFIGURING, RUNNING} => state = CONFIGURING)
  <2>1. SetProto => state = CONFIGURING
    BY Zenon DEF SetProto, PlaceOfCall, Probing
  <2> QED
    BY <2>1 DEF GET_DEVICE_DESCRIPTOR_SIZE, ADDRESSING, CONFIGURING, RUNNING, ERROR
<1>2. UsedAddresses' = UsedAddresses
  <2>1. CASE UNCHANGED tableVars
    BY <2>1 DEF tableVars, UsedAddresses, FreeAddresses
  <2>2. ASSUME state = CONFIGURING, NEW c \in Probes, TakeDevice(c)
        PROVE  UsedAddresses' = UsedAddresses
    <3>1. tmpAddr \in UsedAddresses
      BY <2>2, Zenon DEF LowestFirst
    <3>2. epinfo' = [epinfo EXCEPT ![tmpAddr] = "hid"]
      BY <2>2, Zenon DEF TakeDevice
    <3> QED
      BY <3>1, <3>2 DEF UsedAddresses, FreeAddresses, UsbTypeOK, DataTypes
  <2> QED
    BY <2>1, <2>2
<1>3. LowestFirst'
  BY <1>1, <1>2, Zenon DEF LowestFirst
<1>4. state' = RUNNING => SetProto
  BY DEF GET_DEVICE_DESCRIPTOR_SIZE, ADDRESSING, CONFIGURING, RUNNING, ERROR
<1>5. ASSUME state' = RUNNING
      PROVE  RunningEntry' /\ RunningDevice'
  <2>1. /\ Answers(tmpAddr) /\ devReady /\ UNCHANGED devReady
        /\ TakenAs(Class[dev]) /\ Class[dev] \in Probes
        /\ UNCHANGED <<epinfo, devclass, hidAddr>>
        /\ tmpAddr \in Addresses /\ Probing
    BY <1>4, <1>5, ProbesEnd, Zenon
  <2>2. hidAddr = tmpAddr /\ epinfo[hidAddr] = "hid" /\ devclass[hidAddr] = Class[dev]
    BY <2>1 DEF TakenAs, ProbesSoFar
  <2>3. ~running
    <3>1. state = CONFIGURING /\ at = "task"
      BY <1>1, <1>5, Zenon
    <3> QED
      BY <3>1 DEF FlagIsFresh, Detached, Overrun, CONFIGURING, ATTACHED, SETTLE, RUNNING,
                  INITIALIZE, WAIT_FOR_DEVICE, ILLEGAL
  <2>4. Answers(hidAddr) /\ UNCHANGED <<dev, devAddr, devReady, resetting, lowSpeed, running>>
    BY <2>1, <2>2, Zenon DEF chipVars, mainVars
  <2>5. UNCHANGED <<epinfo, devclass, hidAddr, tmpAddr>>
    BY <1>1, <2>1, Zenon
  <2>6. RunningEntry'
    BY <2>2, <2>5, Zenon DEF RunningEntry
  <2>7. Answers(hidAddr)'
    BY <2>4, <2>5, Zenon DEF Answers
  <2>8. devReady'
    BY <2>1, Zenon
  <2>9. ~running'
    BY <2>3, <2>4, Zenon
  <2>10. devclass'[hidAddr'] = Class[dev']
    BY <2>2, <2>4, <2>5, Zenon
  <2> QED
    BY <2>6, <2>7, <2>8, <2>9, <2>10, Zenon DEF RunningDevice
<1> QED
  BY <1>3, <1>5, Zenon DEF RunningEntry, RunningDevice

LEMMA LongUsbInv ==
  ASSUME EnumInv, LongTask
  PROVE  UsbInv'
<1> USE DEF EnumInv, CallInv, UsbInv
<1>1. at = "task" /\ at' \in {"task", "main"} /\ UNCHANGED <<running, lamp>>
  BY LongSteps, Zenon DEF mainVars
<1>2. ~running
  BY <1>1, LongSteps
     DEF FlagIsFresh, Detached, Overrun, CONFIGURING, ATTACHED, SETTLE, RUNNING,
         INITIALIZE, WAIT_FOR_DEVICE, ILLEGAL, GET_DEVICE_DESCRIPTOR_SIZE
<1>3. ProbedPlaces' /\ FlagIsFresh' /\ LampInv'
  BY <1>1, <1>2 DEF ProbedPlaces, FlagIsFresh, LampInv
<1> QED
  BY <1>3, LongTypes, LongTable

-----------------------------------------------------------------------------
(* The invariant of the calls, while another part of the system moves.     *)
LEMMA ShortReady ==
  ASSUME EnumInv, pc = "out", pc' = "out", OtherTurns \/ ShortTask
  PROVE  NotReadyYet'
<1> USE DEF EnumInv, CallInv, UsbInv, NotReadyYet, Probing, WAIT_RESET_COMPLETE, WAIT_SOF,
            GET_DEVICE_DESCRIPTOR_SIZE, ADDRESSING, CONFIGURING
<1>1. CASE Interrupt
  <2>1. /\ Probed(lowSpeed) \in {1, 3, 4, 16, 19}
        /\ Probed(lowSpeed) = 19 => state = 19
    BY ProbedStates, Zenon DEF UsbTypeOK, FlagTypes
  <2>2. /\ state' = IF busEvent THEN Probed(lowSpeed) + 1 ELSE Probed(lowSpeed)
        /\ at' = "ack" /\ UNCHANGED <<devReady, busEvent, resetting>>
    BY <1>1, Zenon DEF Interrupt, busVars
  <2>3. CASE busEvent
    <3>1. state' = Probed(lowSpeed) + 1
      BY <2>2, <2>3, Zenon
    <3>2. state' \notin {19, 21, 32, 48} /\ (state' = 20 => state = 19)
      BY <2>1, <3>1
    <3> QED
      BY <2>2, <2>3, <3>2, Zenon
  <2>4. CASE ~busEvent
    <3>1. state' = Probed(lowSpeed)
      BY <2>2, <2>4, Zenon
    <3>2. state' \notin {20, 21, 32, 48} /\ (state' = 19 => state = 19)
      BY <2>1, <3>1
    <3> QED
      BY <2>2, <2>4, <3>2, Zenon
  <2> QED
    BY <2>3, <2>4
<1>2. CASE ChipReset
  <2>1. Probed(FALSE) \in {1, 3, 4, 16, 19} /\ (Probed(FALSE) = 19 => state = 19)
    BY ProbedStates, Zenon DEF UsbTypeOK
  <2>2. /\ state' = Probed(FALSE)
        /\ at = "reset" /\ at' = "clear" /\ ~busEvent'
    BY <1>2, Zenon DEF ChipReset, busVars
  <2>3. state # 19
    BY <2>2, Zenon
  <2>4. state' \notin {19, 20, 21, 32, 48}
    <3>1. state' \in {1, 3, 4, 16}
      BY <2>1, <2>2, <2>3, Zenon
    <3> HIDE DEF NotReadyYet
    <3> QED
      BY <3>1
  <2> QED
    BY <2>2, <2>4, Zenon
<1>3. CASE NoInterrupt \/ Acknowledge \/ StillRunning \/ InError \/ ClearAndInit
  <2>1. at' # "reset"
    BY <1>3, Zenon DEF NoInterrupt, Acknowledge, StillRunning, InError, ClearAndInit
  <2>2. UNCHANGED <<devReady, state, resetting>>
    BY <1>3, Zenon
       DEF NoInterrupt, Acknowledge, StillRunning, InError, ClearAndInit, busVars, chipVars
  <2>3. busEvent' => busEvent
    BY <1>3, Zenon
       DEF NoInterrupt, Acknowledge, StillRunning, InError, ClearAndInit, chipVars
  <2> QED
    BY <2>1, <2>2, <2>3, Zenon
<1>4. CASE NotRunning
  <2>1. running => state # WAIT_RESET_COMPLETE
    BY <1>4 DEF NotRunning, FlagIsFresh, Detached, Overrun, INITIALIZE, WAIT_FOR_DEVICE, ILLEGAL,
                SETTLE, RESET_DEVICE, RUNNING
  <2> QED
    BY <1>4, <2>1, Zenon DEF NotRunning, busVars, chipVars
<1>5. CASE ShortTask
  <2> USE DEF ShortTask
  <2>1. CASE TaskResetDevice
    BY <1>5, <2>1 DEF TaskResetDevice, busVars
  <2>2. CASE TaskWaitReset
    BY <1>5, <2>2 DEF TaskWaitReset, busVars, chipVars
  <2>3. CASE TaskAddressing
    BY <1>5, <2>3 DEF TaskAddressing, chipVars, ERROR
  <2>4. CASE TaskInitialize \/ TaskAttached \/ TaskSettle \/ TaskWaitSof \/ TaskIdle
    BY <1>5, <2>4
       DEF TaskInitialize, TaskAttached, TaskSettle, TaskWaitSof, TaskIdle, WAIT_FOR_DEVICE,
           SETTLE, RESET_DEVICE, busVars, chipVars
  <2> QED
    BY <1>5, <2>1, <2>2, <2>3, <2>4
<1> QED
  BY <1>1, <1>2, <1>3, <1>4, <1>5, Zenon DEF OtherTurns

LEMMA WorldReady ==
  ASSUME NotReadyYet, World
  PROVE  NotReadyYet'
<1> USE DEF NotReadyYet, Probing, World
<1>1. UNCHANGED <<at, state, pc>>
  BY Zenon DEF Plug, Unplug, Connect, ResetNoise, EndBusReset, Settled, callVars
<1>2. CASE EndBusReset
  BY <1>1, <1>2, Zenon DEF EndBusReset
<1>3. CASE (\E d \in Devices : Plug(d)) \/ Unplug
  <2>1. ~devReady' /\ UNCHANGED <<busEvent, resetting>>
    BY <1>3, Zenon DEF Plug, Unplug, Connect
  <2> QED
    BY <1>1, <2>1, Zenon
<1>4. CASE ResetNoise \/ Settled
  <2>1. UNCHANGED <<devReady, busEvent, resetting>>
    BY <1>4, Zenon DEF ResetNoise, Settled, busVars, chipVars
  <2> QED
    BY <1>1, <2>1, Zenon
<1> QED
  BY <1>2, <1>3, <1>4, Zenon
(* A step that is no step of a call keeps what is known of the call.       *)
LEMMA WorldCall ==
  ASSUME EnumInv, World
  PROVE  PlaceOfCall' /\ ProbesSoFar' /\ DeviceSoFar'
<1> USE DEF EnumInv, CallInv, World
<1>1. UNCHANGED <<at, state, tableVars, lowSpeed, pc, driver, found>>
  BY Zenon
     DEF Plug, Unplug, Connect, ResetNoise, EndBusReset, Settled, chipVars, callVars
<1>2. PlaceOfCall'
  BY <1>1, Zenon DEF PlaceOfCall, Probing
<1>3. \/ ~devReady' /\ devAddr' = 0
      \/ UNCHANGED <<dev, devAddr, devReady, resetting>>
  BY Zenon DEF Plug, Unplug, Connect, ResetNoise, EndBusReset, Settled, busVars, chipVars
<1>4. Probing => tmpAddr # 0
  BY DEF PlaceOfCall, UsbInv, LowestFirst, UsedAddresses, Addresses
<1>5. UNCHANGED <<epinfo, devclass, tmpAddr, hidAddr>>
  BY <1>1, Zenon DEF tableVars
<1>6. CASE ~devReady' /\ devAddr' = 0
  <2>1. ProbesSoFar'
    BY <1>1, <1>5, <1>6, Zenon DEF ProbesSoFar, Probing, Untouched, TakenAs
  <2>2. DeviceSoFar'
    BY <1>1, <1>4, <1>5, <1>6 DEF DeviceSoFar, Probing
  <2> QED
    BY <1>2, <2>1, <2>2
<1>7. CASE UNCHANGED <<dev, devAddr, devReady, resetting>>
  <2>1. ProbesSoFar'
    BY <1>1, <1>5, <1>7, Zenon DEF ProbesSoFar, Probing, Untouched, TakenAs
  <2>2. DeviceSoFar'
    BY <1>1, <1>5, <1>7, Zenon DEF DeviceSoFar, Probing, Answers
  <2> QED
    BY <1>2, <2>1, <2>2
<1> QED
  BY <1>3, <1>6, <1>7

(* Between the calls nothing has to be known of them.                      *)
LEMMA OutsideCall ==
  ASSUME pc' = "out"
  PROVE  PlaceOfCall' /\ ProbesSoFar' /\ DeviceSoFar'
BY DEF PlaceOfCall, ProbesSoFar, DeviceSoFar, Probing

LEMMA LongReady ==
  ASSUME EnumInv, LongTask
  PROVE  NotReadyYet'
<1> USE DEF EnumInv, CallInv
<1>1. /\ at' # "reset" /\ UNCHANGED <<busEvent, resetting>>
      /\ state' \notin {WAIT_RESET_COMPLETE, WAIT_SOF}
  BY LongSteps
     DEF SetProto, EndProbing, chipVars, WAIT_RESET_COMPLETE, WAIT_SOF, ERROR, RUNNING,
         GET_DEVICE_DESCRIPTOR_SIZE, ADDRESSING, CONFIGURING
<1>2. state' \in {GET_DEVICE_DESCRIPTOR_SIZE, ADDRESSING, CONFIGURING} /\ ~Probing' => ~devReady'
  <2>1. CASE GetDescriptorSize \/ GetOtherDescriptors
    BY <2>1, Zenon
       DEF GetDescriptorSize, GetOtherDescriptors, NotReadyYet, PlaceOfCall, Probing, busVars
  <2>2. CASE StartProbing
    BY <2>2, Zenon DEF StartProbing, Probing
  <2>3. CASE CallProbe \/ ReadHead \/ ReadWhole \/ SetConf
    BY <2>3, Zenon DEF CallProbe, ReadHead, ReadWhole, SetConf, ReturnFalse, Probing
  <2>4. CASE NoDriver \/ SetProto
    <3>1. Probing' \/ state' \in {ERROR, RUNNING}
      BY <2>4, Zenon DEF NoDriver, SetProto, EndProbing, ReturnFalse, Probing
    <3> QED
      BY <3>1
         DEF ERROR, RUNNING, GET_DEVICE_DESCRIPTOR_SIZE, ADDRESSING, CONFIGURING
  <2> QED
    BY <2>1, <2>2, <2>3, <2>4, Zenon DEF LongTask
<1> QED
  BY <1>1, <1>2, Zenon DEF NotReadyYet
LEMMA LongPlace ==
  ASSUME PlaceOfCall, LongTask
  PROVE  PlaceOfCall'
<1>1. CASE GetDescriptorSize
  BY <1>1, Zenon DEF PlaceOfCall, GetDescriptorSize, Probing
<1>2. CASE GetOtherDescriptors
  BY <1>2, Zenon DEF PlaceOfCall, GetOtherDescriptors, Probing
<1>3. CASE StartProbing
  BY <1>3, Zenon DEF PlaceOfCall, StartProbing, Probing, usbVars
<1>4. CASE CallProbe \/ ReadHead \/ ReadWhole \/ SetConf
  <2>1. at' = at /\ state' = state /\ Probing /\ pc' \notin {"out", "rest"}
    BY <1>4, Zenon
       DEF CallProbe, ReadHead, ReadWhole, SetConf, ReturnFalse, Probing, usbVars
  <2>2. /\ pc' \in {"call", "head", "whole", "conf", "proto"}
        /\ pc' # "call" => ClientDriverTable[driver'] \in Probes
    BY <1>4, Zenon DEF PlaceOfCall, CallProbe, ReadHead, ReadWhole, SetConf, ReturnFalse
  <2> QED
    BY <2>1, <2>2, Zenon DEF PlaceOfCall, Probing
<1>5. CASE NoDriver \/ SetProto
  <2>1. pc' = "out" \/ (pc = "proto" /\ pc' = "call" /\ at' = at /\ state' = state)
    BY <1>5, Zenon DEF NoDriver, SetProto, EndProbing, ReturnFalse
  <2> QED
    BY <2>1, Zenon DEF PlaceOfCall, Probing
<1> QED
  BY <1>1, <1>2, <1>3, <1>4, <1>5, Zenon DEF LongTask

(* Before the first probe.                                                 *)
LEMMA StartCall ==
  ASSUME EnumInv, StartProbing
  PROVE  ProbesSoFar' /\ DeviceSoFar'
<1>1. /\ pc = "out" /\ pc' = "call" /\ state = CONFIGURING /\ found' = <<epinfo, devclass, hidAddr>>
      /\ UNCHANGED <<devReady, epinfo, devclass, hidAddr>>
  BY Zenon DEF StartProbing, usbVars, busVars, tableVars
<1>2. ~devReady
  BY <1>1, Zenon DEF EnumInv, CallInv, NotReadyYet, Probing
<1>3. found'[1] = epinfo /\ found'[2] = devclass /\ found'[3] = hidAddr
  BY <1>1
<1>4. DeviceSoFar'
  BY <1>1, <1>2, Zenon DEF DeviceSoFar
<1>5. Untouched'
  BY <1>1, <1>2, <1>3, Zenon DEF Untouched
<1> QED
  BY <1>1, <1>3, <1>4, <1>5, Zenon DEF ProbesSoFar, EnumInv, UsbInv, UsbTypeOK, DataTypes

(* Between two probes, and up to the answer with the whole configuration.  *)
LEMMA PassCall ==
  ASSUME EnumInv, CallProbe \/ ReadHead
  PROVE  ProbesSoFar' /\ DeviceSoFar'
<1>1. /\ UNCHANGED <<usbVars, found>>
      /\ Probing /\ pc' \notin {"conf", "proto"}
  BY Zenon DEF CallProbe, ReadHead, ReturnFalse, Probing
<1>2. UNCHANGED <<dev, devAddr, devReady, resetting, lowSpeed, epinfo, devclass, tmpAddr, hidAddr>>
  BY <1>1, Zenon DEF usbVars, busVars, chipVars, tableVars
<1>3. DeviceSoFar'
  BY <1>1, <1>2, Zenon DEF EnumInv, CallInv, DeviceSoFar, Answers
<1>4. ProbesSoFar'
  BY <1>1, <1>2, Zenon DEF EnumInv, CallInv, ProbesSoFar, Untouched, TakenAs
<1> QED
  BY <1>3, <1>4

LEMMA WholeCall ==
  ASSUME EnumInv, ReadWhole
  PROVE  ProbesSoFar' /\ DeviceSoFar'
<1> USE DEF EnumInv, CallInv
<1> PICK c : c = ClientDriverTable[driver]
  OBVIOUS
<1>1. /\ pc = "whole" /\ Probing /\ state = CONFIGURING /\ c \in Probes
      /\ pc' \notin {"out", "rest", "proto"}
      /\ UNCHANGED <<dev, devAddr, devReady, resetting, lowSpeed, tmpAddr, found>>
  BY Zenon DEF ReadWhole, PlaceOfCall, Probing, ReturnFalse, busVars, chipVars
<1>2. tmpAddr \in Addresses
  BY <1>1, Zenon DEF UsbInv, LowestFirst, UsedAddresses
<1>3. CASE pc' # "conf" /\ UNCHANGED <<epinfo, devclass, hidAddr>>
  <2>1. DeviceSoFar'
    BY <1>1, <1>3, Zenon DEF DeviceSoFar, Answers, Probing
  <2>2. ProbesSoFar'
    BY <1>1, <1>3, Zenon DEF ProbesSoFar, Untouched, TakenAs
  <2> QED
    BY <2>1, <2>2
<1>4. CASE Answers(tmpAddr) /\ IsOfClass(Buffer(dev), c) /\ TakeDevice(c)
           /\ (pc' = "conf" => UNCHANGED driver)
  <2>1. Class[dev] = c
    BY <1>1, <1>4, EnumerationAssumption, Zenon DEF EnumerationAssumption, Answers
  <2>2. DeviceSoFar'
    BY <1>1, <1>4, <2>1, Zenon DEF DeviceSoFar, Answers, Probing
  <2>3. Untouched \/ \E d \in Probes : TakenAs(d)
    BY <1>1, Zenon DEF ProbesSoFar
  <2>4. epinfo' = [found[1] EXCEPT ![tmpAddr] = "hid"]
    <3>1. epinfo' = [epinfo EXCEPT ![tmpAddr] = "hid"]
      BY <1>4, Zenon DEF TakeDevice
    <3>2. epinfo = found[1] \/ epinfo = [found[1] EXCEPT ![tmpAddr] = "hid"]
      BY <2>3, Zenon DEF Untouched, TakenAs
    <3>3. found[1] \in [Addresses -> {"null", "dev0", "hid"}]
      BY <1>1, Zenon DEF ProbesSoFar
    <3> HIDE DEF EnumInv
    <3> QED
      BY <1>2, <3>1, <3>2, <3>3
  <2>5. devclass' = [found[2] EXCEPT ![tmpAddr] = c]
    <3>1. devclass' = [devclass EXCEPT ![tmpAddr] = c]
      BY <1>4, Zenon DEF TakeDevice
    <3>2. devclass = found[2] \/ \E d \in Probes : devclass = [found[2] EXCEPT ![tmpAddr] = d]
      BY <2>3, Zenon DEF Untouched, TakenAs
    <3>3. found[2] \in [Addresses -> {"none", "keyboard", "mouse"}]
      BY <1>1, Zenon DEF ProbesSoFar
    <3> HIDE DEF EnumInv
    <3> QED
      BY <1>2, <3>1, <3>2, <3>3
  <2>6. TakenAs(c)'
    BY <1>1, <1>4, <2>4, <2>5, Zenon DEF TakenAs, TakeDevice
  <2> QED
    BY <1>1, <2>2, <2>6, Zenon DEF ProbesSoFar
<1> QED
  BY <1>3, <1>4, Zenon DEF ReadWhole, ReturnFalse
LEMMA ConfCall ==
  ASSUME EnumInv, SetConf
  PROVE  ProbesSoFar' /\ DeviceSoFar'
<1> USE DEF EnumInv, CallInv
<1>1. /\ pc = "conf" /\ Probing
      /\ \/ pc' = "proto" /\ Answers(tmpAddr) /\ devReady' /\ UNCHANGED driver
         \/ pc' = "call"
      /\ devReady' => devReady \/ Answers(tmpAddr)
      /\ UNCHANGED <<dev, devAddr, resetting, lowSpeed, tableVars, found>>
  BY Zenon DEF SetConf, Probing, ReturnFalse, chipVars
<1>2. UNCHANGED <<epinfo, devclass, tmpAddr, hidAddr>>
  BY <1>1, Zenon DEF tableVars
<1>3. DeviceSoFar'
  BY <1>1, <1>2, Zenon DEF DeviceSoFar, Answers, Probing
<1>4. PICK c \in Probes : TakenAs(c)
  BY <1>1, Zenon DEF ProbesSoFar, Untouched
<1>5. TakenAs(c)'
  BY <1>1, <1>2, <1>4, Zenon DEF TakenAs
<1> QED
  BY <1>1, <1>3, <1>5, Zenon DEF ProbesSoFar, Probing

LEMMA ProtoCall ==
  ASSUME EnumInv, SetProto, pc' # "out"
  PROVE  ProbesSoFar' /\ DeviceSoFar'
<1> USE DEF EnumInv, CallInv
<1>1. /\ pc = "proto" /\ Probing /\ pc' = "call" /\ UNCHANGED found
      /\ UNCHANGED <<dev, devAddr, devReady, resetting, lowSpeed, tableVars>>
  BY Zenon DEF SetProto, EndProbing, Probing, ReturnFalse, busVars, chipVars
<1>2. UNCHANGED <<epinfo, devclass, tmpAddr, hidAddr>>
  BY <1>1, Zenon DEF tableVars
<1>3. DeviceSoFar'
  BY <1>1, <1>2, Zenon DEF DeviceSoFar, Answers, Probing
<1>4. PICK c \in Probes : TakenAs(c)
  BY <1>1, Zenon DEF ProbesSoFar, Untouched
<1>5. TakenAs(c)'
  BY <1>1, <1>2, <1>4, Zenon DEF TakenAs
<1> QED
  BY <1>1, <1>3, <1>5, Zenon DEF ProbesSoFar, Probing

LEMMA LongCall ==
  ASSUME EnumInv, LongTask
  PROVE  ProbesSoFar' /\ DeviceSoFar'
<1>1. CASE GetDescriptorSize \/ GetOtherDescriptors \/ NoDriver
  <2>1. pc' \in {"out", "rest"}
    BY <1>1, Zenon DEF GetDescriptorSize, GetOtherDescriptors, NoDriver, EndProbing
  <2> QED
    BY <2>1 DEF ProbesSoFar, DeviceSoFar, Probing
<1>2. CASE SetProto
  BY <1>2, ProtoCall, OutsideCall
<1> QED
  BY <1>1, <1>2, StartCall, PassCall, WholeCall, ConfCall, Zenon DEF LongTask

-----------------------------------------------------------------------------
LEMMA InitEnumInv == EnumInit => EnumInv
<1> SUFFICES ASSUME EnumInit PROVE EnumInv
  OBVIOUS
<1>1. UsbInv
  BY InitUsbInv, Zenon DEF EnumInit
<1>2. PlaceOfCall /\ ProbesSoFar /\ DeviceSoFar
  BY DEF EnumInit, PlaceOfCall, ProbesSoFar, DeviceSoFar, Probing
<1>3. NotReadyYet
  <2>1. state = 1 /\ ~devReady /\ ~busEvent
    BY Zenon DEF EnumInit, UsbInit, INITIALIZE
  <2>2. state # WAIT_RESET_COMPLETE
    BY <2>1 DEF WAIT_RESET_COMPLETE
  <2> QED
    BY <2>1, <2>2, Zenon DEF NotReadyYet
<1> QED
  BY <1>1, <1>2, <1>3 DEF EnumInv, CallInv

LEMMA EnumInvStep ==
  ASSUME EnumInv, [EnumNext]_enumVars
  PROVE  EnumInv'
<1>1. [UsbNext]_usbVars => UsbInv'
  BY UsbInvStep DEF EnumInv
<1>2. UsbInv'
  BY <1>1, StepKinds, LongUsbInv
<1>3. CASE World
  BY <1>2, <1>3, WorldCall, WorldReady DEF EnumInv, CallInv
<1>4. CASE LongTask
  BY <1>2, <1>4, LongPlace, LongCall, LongReady DEF EnumInv, CallInv
<1>5. CASE OtherTurns \/ ShortTask
  <2>1. pc = "out" /\ pc' = "out"
    <3>1. UNCHANGED pc
      BY <1>5, Zenon DEF OtherTurns, ShortTask, callVars
    <3>2. at # "task" \/ pc = "out"
      BY <1>5
         DEF OtherTurns, ShortTask, Interrupt, NoInterrupt, Acknowledge, StillRunning, InError,
             NotRunning, ChipReset, ClearAndInit
    <3> QED
      BY <3>1, <3>2, Zenon DEF EnumInv, CallInv, PlaceOfCall
  <2> QED
    BY <1>2, <1>5, <2>1, OutsideCall, ShortReady DEF EnumInv, CallInv
<1>6. CASE UNCHANGED enumVars
  BY <1>2, <1>6, Zenon
     DEF enumVars, usbVars, callVars, busVars, chipVars, tableVars, EnumInv, CallInv,
         PlaceOfCall, NotReadyYet, ProbesSoFar, DeviceSoFar, Probing, Untouched, TakenAs, Answers
<1> QED
  BY <1>3, <1>4, <1>5, <1>6, Zenon DEF EnumNext, EnumLoop

(* The invariant holds while devices come and go between any two requests. *)
THEOREM EnumInvariant == EnumSpec => []EnumInv
<1>1. EnumInit => EnumInv
  BY InitEnumInv
<1>2. EnumInv /\ [EnumNext]_enumVars => EnumInv'
  BY EnumInvStep
<1> QED
  BY <1>1, <1>2, PTL DEF EnumSpec
-----------------------------------------------------------------------------
(* The refinement.  Outside the calls the two hosts are in the same state. *)
LEMMA SameNumbers ==
  /\ U!INITIALIZE = INITIALIZE /\ U!WAIT_FOR_DEVICE = WAIT_FOR_DEVICE /\ U!ILLEGAL = ILLEGAL
  /\ U!ATTACHED = ATTACHED /\ U!SETTLE = SETTLE /\ U!RESET_DEVICE = RESET_DEVICE
  /\ U!WAIT_RESET_COMPLETE = WAIT_RESET_COMPLETE /\ U!WAIT_SOF = WAIT_SOF
  /\ U!GET_DEVICE_DESCRIPTOR_SIZE = GET_DEVICE_DESCRIPTOR_SIZE
  /\ U!ADDRESSING = ADDRESSING /\ U!CONFIGURING = CONFIGURING
  /\ U!RUNNING = RUNNING /\ U!ERROR = ERROR
  /\ U!Detached = Detached /\ U!Enumerating = Enumerating
BY DEF U!INITIALIZE, U!WAIT_FOR_DEVICE, U!ILLEGAL, U!ATTACHED, U!SETTLE, U!RESET_DEVICE,
       U!WAIT_RESET_COMPLETE, U!WAIT_SOF, U!GET_DEVICE_DESCRIPTOR_SIZE, U!ADDRESSING,
       U!CONFIGURING, U!RUNNING, U!ERROR, U!Detached, U!Overrun, U!Enumerating, U!Attaching,
       INITIALIZE, WAIT_FOR_DEVICE, ILLEGAL, ATTACHED, SETTLE, RESET_DEVICE,
       WAIT_RESET_COMPLETE, WAIT_SOF, GET_DEVICE_DESCRIPTOR_SIZE, ADDRESSING,
       CONFIGURING, RUNNING, ERROR, Detached, Overrun, Enumerating, Attaching

LEMMA SameOutside ==
  ASSUME pc = "out", devReady \in BOOLEAN
  PROVE  /\ HostAt = at /\ HostState = state /\ HostReady = devReady
         /\ HostEpinfo = epinfo /\ HostDevclass = devclass /\ HostAddr = hidAddr
BY Zenon DEF HostAt, HostState, HostReady, HostEpinfo, HostDevclass, HostAddr, Probing

LEMMA SameAfterwards ==
  ASSUME pc' = "out", devReady' \in BOOLEAN
  PROVE  /\ HostAt' = at' /\ HostState' = state' /\ HostReady' = devReady'
         /\ HostEpinfo' = epinfo' /\ HostDevclass' = devclass' /\ HostAddr' = hidAddr'
BY Zenon DEF HostAt, HostState, HostReady, HostEpinfo, HostDevclass, HostAddr, Probing

LEMMA SameProbes ==
  ASSUME HostState = state, NEW ls \in BOOLEAN
  PROVE  U!Probed(ls) = Probed(ls) /\ U!ProbedSpeed(ls) = ProbedSpeed(ls)
<1>1. U!Lines(ls) = Lines(ls)
  BY DEF U!Lines, Lines
<1>2. U!Attaches(ls) <=> Attaches(ls)
  BY <1>1, SameNumbers, Zenon DEF U!Attaches, Attaches
<1>3. U!Probed(ls) = Probed(ls)
  BY <1>1, <1>2, SameNumbers DEF U!Probed, Probed
<1>4. U!ProbedSpeed(ls) = ProbedSpeed(ls)
  BY <1>1, <1>2, SameNumbers DEF U!ProbedSpeed, ProbedSpeed
<1> QED
  BY <1>3, <1>4

LEMMA SameTable ==
  ASSUME HostEpinfo = epinfo, HostDevclass = devclass
  PROVE  /\ U!FreeAddresses = FreeAddresses /\ U!UsedAddresses = UsedAddresses
         /\ \A c : U!DeviceFound(c) <=> DeviceFound(c)
BY DEF U!FreeAddresses, FreeAddresses, U!UsedAddresses, UsedAddresses, U!Addresses, Addresses,
       U!DeviceFound, DeviceFound

(* The turns of the loop outside USB_Task.                                 *)
LEMMA OtherRefines ==
  ASSUME EnumInv, EnumInv', OtherTurns, pc = "out", pc' = "out"
  PROVE  U!MainLoop
<1>1. /\ HostAt = at /\ HostState = state /\ HostReady = devReady
      /\ HostEpinfo = epinfo /\ HostDevclass = devclass /\ HostAddr = hidAddr
  BY SameOutside DEF EnumInv, UsbInv, UsbTypeOK, FlagTypes
<1>2. /\ HostAt' = at' /\ HostState' = state' /\ HostReady' = devReady'
      /\ HostEpinfo' = epinfo' /\ HostDevclass' = devclass' /\ HostAddr' = hidAddr'
  BY SameAfterwards DEF EnumInv, UsbInv, UsbTypeOK, FlagTypes
<1> USE <1>1, <1>2, SameNumbers
        DEF busVars, chipVars, tableVars, mainVars, U!busVars, U!chipVars, U!tableVars, U!mainVars
<1>3. CASE Interrupt
  <2>1. U!Probed(lowSpeed) = Probed(lowSpeed) /\ U!ProbedSpeed(lowSpeed) = ProbedSpeed(lowSpeed)
    BY SameProbes DEF EnumInv, UsbInv, UsbTypeOK, FlagTypes
  <2> QED
    BY <1>3, <2>1, Zenon DEF Interrupt, U!Interrupt, U!MainLoop
<1>4. CASE NoInterrupt
  BY <1>4, Zenon DEF NoInterrupt, U!NoInterrupt, U!MainLoop
<1>5. CASE Acknowledge
  BY <1>5, Zenon DEF Acknowledge, U!Acknowledge, U!MainLoop
<1>6. CASE StillRunning
  BY <1>6, SameTable, Zenon DEF StillRunning, U!StillRunning, U!MainLoop
<1>7. CASE InError
  BY <1>7, Zenon DEF InError, U!InError, U!MainLoop
<1>8. CASE NotRunning
  BY <1>8, Zenon DEF NotRunning, U!NotRunning, U!MainLoop
<1>9. CASE ChipReset
  <2>1. U!Probed(FALSE) = Probed(FALSE) /\ U!ProbedSpeed(FALSE) = ProbedSpeed(FALSE)
    BY SameProbes
  <2> QED
    BY <1>9, <2>1, Zenon DEF ChipReset, U!ChipReset, U!MainLoop
<1>10. CASE ClearAndInit
  BY <1>10, Zenon
     DEF ClearAndInit, Cleanup, EmptyTable, NoClasses, Addresses,
         U!ClearAndInit, U!Cleanup, U!EmptyTable, U!NoClasses, U!Addresses, U!MainLoop
<1> QED
  BY <1>3, <1>4, <1>5, <1>6, <1>7, <1>8, <1>9, <1>10, Zenon DEF OtherTurns
(* The calls of USB_Task that wait for one request at most.                *)
LEMMA ShortRefines ==
  ASSUME EnumInv, EnumInv', ShortTask, pc = "out", pc' = "out"
  PROVE  U!UsbTask
<1>1. /\ HostAt = at /\ HostState = state /\ HostReady = devReady
      /\ HostEpinfo = epinfo /\ HostDevclass = devclass /\ HostAddr = hidAddr
  BY SameOutside DEF EnumInv, UsbInv, UsbTypeOK, FlagTypes
<1>2. /\ HostAt' = at' /\ HostState' = state' /\ HostReady' = devReady'
      /\ HostEpinfo' = epinfo' /\ HostDevclass' = devclass' /\ HostAddr' = hidAddr'
  BY SameAfterwards DEF EnumInv, UsbInv, UsbTypeOK, FlagTypes
<1> USE <1>1, <1>2, SameNumbers
        DEF ShortTask, U!UsbTask, busVars, chipVars, tableVars, mainVars,
            U!busVars, U!chipVars, U!tableVars, U!mainVars
<1>3. CASE TaskInitialize
  BY <1>3, Zenon
     DEF TaskInitialize, Cleanup, EmptyTable, NoClasses, Addresses,
         U!TaskInitialize, U!Cleanup, U!EmptyTable, U!NoClasses, U!Addresses
<1>4. CASE TaskAttached
  BY <1>4, Zenon DEF TaskAttached, U!TaskAttached
<1>5. CASE TaskSettle
  BY <1>5, Zenon DEF TaskSettle, U!TaskSettle
<1>6. CASE TaskResetDevice
  BY <1>6, Zenon DEF TaskResetDevice, U!TaskResetDevice
<1>7. CASE TaskWaitReset
  BY <1>7, Zenon DEF TaskWaitReset, U!TaskWaitReset
<1>8. CASE TaskWaitSof
  BY <1>8, Zenon DEF TaskWaitSof, U!TaskWaitSof
<1>9. CASE TaskAddressing
  <2>1. U!Answers(0) <=> Answers(0)
    BY DEF U!Answers, Answers
  <2> QED
    BY <1>9, <2>1, SameTable, Zenon DEF TaskAddressing, U!TaskAddressing
<1>10. CASE TaskIdle
  BY <1>10, Zenon DEF TaskIdle, U!TaskIdle
<1> QED
  BY <1>3, <1>4, <1>5, <1>6, <1>7, <1>8, <1>9, <1>10, Zenon

(* What comes from outside, whatever the program waits for.                *)
LEMMA WorldRefines ==
  ASSUME World
  PROVE  [U!UsbNext]_U!usbVars
<1> USE DEF World
<1>1. UNCHANGED <<HostAt, HostState, HostEpinfo, HostDevclass, HostAddr>>
  <2>1. UNCHANGED <<at, state, epinfo, devclass, hidAddr, pc, found>>
    BY Zenon
       DEF Plug, Unplug, Connect, ResetNoise, EndBusReset, Settled, tableVars, callVars
  <2> QED
    BY <2>1, Zenon DEF HostAt, HostState, HostEpinfo, HostDevclass, HostAddr, Probing
<1>2. UNCHANGED tmpAddr
  BY Zenon DEF Plug, Unplug, Connect, ResetNoise, EndBusReset, Settled, tableVars
<1> USE <1>1, <1>2
        DEF busVars, chipVars, mainVars, U!busVars, U!chipVars, U!tableVars, U!mainVars, U!UsbNext
<1>3. devReady' = FALSE => HostReady' = FALSE
  BY DEF HostReady
<1>4. UNCHANGED <<devReady, pc>> => UNCHANGED HostReady
  BY DEF HostReady, Probing
<1>5. UNCHANGED pc
  BY Zenon DEF callVars
<1>6. ASSUME NEW d \in Devices, Plug(d) PROVE U!UsbNext
  BY <1>3, <1>6, Zenon DEF Plug, Connect, U!Plug, U!Connect
<1>7. CASE Unplug
  BY <1>3, <1>7, Zenon DEF Unplug, Connect, U!Unplug, U!Connect
<1>8. CASE ResetNoise
  BY <1>4, <1>5, <1>8, Zenon DEF ResetNoise, U!ResetNoise
<1>9. CASE EndBusReset
  BY <1>3, <1>9, Zenon DEF EndBusReset, U!EndBusReset
<1>10. CASE Settled
  BY <1>4, <1>5, <1>10, Zenon DEF Settled, U!Settled
<1> QED
  BY <1>6, <1>7, <1>8, <1>9, <1>10, Zenon
(* The long calls.  They take effect when the first descriptor has been    *)
(* read, and when the last probe returns.                                  *)
LEMMA GetRefines ==
  ASSUME EnumInv, EnumInv', GetDescriptorSize
  PROVE  U!UsbTask
<1> USE DEF GetDescriptorSize
<1>1. /\ HostAt = at /\ HostState = state /\ HostReady = devReady
      /\ HostEpinfo = epinfo /\ HostDevclass = devclass /\ HostAddr = hidAddr
  BY SameOutside DEF EnumInv, UsbInv, UsbTypeOK, FlagTypes
<1>2. /\ at = "task" /\ HostAt' = "main" /\ state = GET_DEVICE_DESCRIPTOR_SIZE
      /\ \/ Answers(0) /\ HostState' = ADDRESSING
         \/ HostState' = ERROR
  BY Zenon DEF HostAt, HostState
<1>3. UNCHANGED <<HostReady, HostEpinfo, HostDevclass, HostAddr>>
  BY Zenon DEF HostReady, HostEpinfo, HostDevclass, HostAddr, Probing, busVars, tableVars
<1>4. U!Answers(0) <=> Answers(0)
  BY DEF U!Answers, Answers
<1>5. U!TaskGetDescriptor
  BY <1>1, <1>2, <1>3, <1>4, SameNumbers, Zenon
     DEF U!TaskGetDescriptor, busVars, tableVars, U!busVars, U!chipVars, U!tableVars, chipVars
<1> QED
  BY <1>1, <1>2, <1>5, Zenon DEF U!UsbTask, mainVars, U!mainVars

LEMMA RestStutters ==
  ASSUME GetOtherDescriptors
  PROVE  UNCHANGED U!usbVars
<1> USE DEF GetOtherDescriptors
<1>1. UNCHANGED <<HostAt, HostState>>
  BY Zenon DEF HostAt, HostState
<1>2. UNCHANGED <<HostReady, HostEpinfo, HostDevclass, HostAddr>>
  BY Zenon DEF HostReady, HostEpinfo, HostDevclass, HostAddr, Probing, busVars, tableVars
<1> QED
  BY <1>1, <1>2, Zenon
     DEF busVars, chipVars, tableVars, mainVars, U!usbVars, U!busVars, U!chipVars, U!tableVars,
         U!mainVars

LEMMA StartStutters ==
  ASSUME EnumInv, StartProbing
  PROVE  UNCHANGED U!usbVars
<1>1. /\ pc = "out" /\ Probing' /\ pc' # "rest" /\ found' = <<epinfo, devclass, hidAddr>>
      /\ UNCHANGED usbVars /\ state = CONFIGURING
  BY Zenon DEF StartProbing, Probing
<1>2. /\ HostAt = at /\ HostState = state /\ HostReady = devReady
      /\ HostEpinfo = epinfo /\ HostDevclass = devclass /\ HostAddr = hidAddr
  BY <1>1, SameOutside DEF EnumInv, UsbInv, UsbTypeOK, FlagTypes
<1>3. HostAt' = at' /\ HostState' = state'
  BY <1>1, Zenon DEF HostAt, HostState
<1>4. HostEpinfo' = epinfo /\ HostDevclass' = devclass /\ HostAddr' = hidAddr
  BY <1>1 DEF HostEpinfo, HostDevclass, HostAddr
<1>5. ~devReady
  BY <1>1, Zenon DEF EnumInv, CallInv, NotReadyYet, Probing
<1>6. HostReady' = HostReady
  BY <1>1, <1>5 DEF HostReady
<1> QED
  BY <1>1, <1>2, <1>3, <1>4, <1>6, Zenon
     DEF usbVars, busVars, chipVars, tableVars, mainVars, U!usbVars, U!busVars, U!chipVars,
         U!tableVars, U!mainVars

LEMMA ProbingStutters ==
  ASSUME PlaceOfCall, LongTask, Probing, Probing'
  PROVE  UNCHANGED U!usbVars
<1>1. CallProbe \/ ReadHead \/ ReadWhole \/ SetConf \/ (SetProto /\ ReturnFalse)
  BY Zenon DEF LongTask, GetDescriptorSize, GetOtherDescriptors, StartProbing, NoDriver,
               EndProbing, SetProto, Probing
<1>2. UNCHANGED <<at, state, found>>
  BY <1>1, Zenon
     DEF CallProbe, ReadHead, ReadWhole, SetConf, SetProto, ReturnFalse, EndProbing, usbVars
<1>3. UNCHANGED <<HostAt, HostState>>
  BY <1>2, Zenon DEF HostAt, HostState, Probing
<1>4. UNCHANGED <<HostEpinfo, HostDevclass, HostAddr>>
  BY <1>2, Zenon DEF HostEpinfo, HostDevclass, HostAddr
<1>5. UNCHANGED HostReady
  BY DEF HostReady
<1>6. UNCHANGED <<dev, devAddr, chipVars, ackBus, usbDelay, tmpAddr, mainVars>>
  BY LongSteps, Zenon
<1> QED
  BY <1>3, <1>4, <1>5, <1>6, Zenon
     DEF chipVars, mainVars, U!usbVars, U!busVars, U!chipVars, U!tableVars, U!mainVars

LEMMA EndRefines ==
  ASSUME EnumInv, EnumInv', NoDriver \/ SetProto, pc' = "out"
  PROVE  U!UsbTask
<1> USE DEF EnumInv, CallInv
<1>1. /\ Probing /\ state = CONFIGURING /\ at = "task" /\ at' = "main"
      /\ UNCHANGED <<dev, devAddr, devReady, chipVars, ackBus, usbDelay, tableVars, mainVars>>
  BY Zenon DEF NoDriver, SetProto, ReturnFalse, EndProbing, PlaceOfCall, Probing, busVars
<1>2. /\ HostAt = "task" /\ HostState = CONFIGURING /\ ~HostReady
      /\ HostEpinfo = found[1] /\ HostDevclass = found[2] /\ HostAddr = found[3]
  BY <1>1, Zenon
     DEF HostAt, HostState, HostReady, HostEpinfo, HostDevclass, HostAddr, Probing
<1>3. /\ HostAt' = "main" /\ HostState' = state' /\ HostReady' = devReady'
      /\ HostEpinfo' = epinfo' /\ HostDevclass' = devclass' /\ HostAddr' = hidAddr'
  BY <1>1, SameAfterwards DEF UsbInv, UsbTypeOK, FlagTypes
<1>4. UNCHANGED <<epinfo, devclass, tmpAddr, hidAddr>>
  BY <1>1, Zenon DEF tableVars
<1>5. U!Answers(tmpAddr) <=> Answers(tmpAddr)
  BY DEF U!Answers, Answers
<1>6. ASSUME NEW c \in Probes, TakenAs(c)
      PROVE  U!TakeDevice(c)
  BY <1>2, <1>3, <1>4, <1>6, Zenon DEF TakenAs, U!TakeDevice
<1>7. U!Probes = Probes
  BY DEF U!Probes, Probes
<1>8. ASSUME U!ProbeSucceeds \/ U!ProbeBreaksOff \/ U!NoProbeMatches
      PROVE  U!UsbTask
  <2>1. U!TaskConfiguring
    BY <1>1, <1>2, <1>4, <1>8, SameNumbers, Zenon DEF U!TaskConfiguring, chipVars, U!chipVars
  <2> QED
    BY <1>1, <1>2, <1>3, <2>1, Zenon DEF U!UsbTask, mainVars, U!mainVars
<1>9. CASE state' = ERROR /\ Untouched
  <2>1. HostReady' = HostReady
    BY <1>1, <1>9 DEF HostReady, Untouched
  <2>2. U!NoProbeMatches
    BY <1>2, <1>3, <1>4, <1>9, <2>1, SameNumbers, Zenon DEF Untouched, U!NoProbeMatches
  <2> QED
    BY <1>8, <2>2
<1>10. ASSUME state' = ERROR, NEW c \in Probes, TakenAs(c)
       PROVE  U!UsbTask
  <2>1. devReady => Answers(tmpAddr)
    BY <1>1, Zenon DEF DeviceSoFar
  <2>2. HostReady' \in IF Answers(tmpAddr) THEN {HostReady, TRUE} ELSE {HostReady}
    <3>1. HostReady' = devReady' /\ devReady' = devReady
      BY <1>1, <1>3, Zenon
    <3>2. CASE devReady = TRUE
      BY <2>1, <3>1, <3>2, Zenon
    <3>3. CASE devReady = FALSE
      <4>1. HostReady = FALSE
        BY <1>1 DEF HostReady
      <4> QED
        BY <3>1, <3>3, <4>1, Zenon
    <3> QED
      BY <3>2, <3>3 DEF UsbInv, UsbTypeOK, FlagTypes
  <2>3. U!ProbeBreaksOff
    BY <1>3, <1>5, <1>6, <1>7, <1>10, <2>2, SameNumbers, Zenon DEF U!ProbeBreaksOff
  <2> QED
    BY <1>8, <2>3
<1>11. CASE state' # ERROR
  <2>1. SetProto /\ state' = RUNNING
    BY <1>11, Zenon DEF NoDriver, SetProto, EndProbing, ReturnFalse
  <2>2. /\ Answers(tmpAddr) /\ devReady
        /\ TakenAs(Class[dev]) /\ Class[dev] \in Probes
    BY <2>1, ProbesEnd, Zenon
  <2>3. HostReady' = TRUE
    <3>1. devReady = TRUE
      BY <2>2 DEF UsbInv, UsbTypeOK, FlagTypes
    <3> QED
      BY <1>1, <1>3, <3>1, Zenon
  <2>4. U!ProbeSucceeds
    BY <1>3, <1>5, <1>6, <1>7, <2>1, <2>2, <2>3, SameNumbers, Zenon DEF U!ProbeSucceeds
  <2> QED
    BY <1>8, <2>4
<1> QED
  BY <1>1, <1>9, <1>10, <1>11, Zenon DEF ProbesSoFar
LEMMA LongRefines ==
  ASSUME EnumInv, EnumInv', LongTask
  PROVE  [U!UsbNext]_U!usbVars
<1>1. CASE GetDescriptorSize
  BY <1>1, GetRefines, Zenon DEF U!UsbNext, U!MainLoop
<1>2. CASE GetOtherDescriptors
  BY <1>2, RestStutters
<1>3. CASE StartProbing
  BY <1>3, StartStutters
<1>4. CASE CallProbe \/ ReadHead \/ ReadWhole \/ SetConf
  <2>1. Probing /\ Probing'
    BY <1>4, Zenon DEF CallProbe, ReadHead, ReadWhole, SetConf, ReturnFalse, Probing
  <2> QED
    BY <2>1, ProbingStutters DEF EnumInv, CallInv
<1>5. CASE NoDriver \/ SetProto
  <2>1. CASE pc' = "out"
    BY <1>5, <2>1, EndRefines, Zenon DEF U!UsbNext, U!MainLoop
  <2>2. CASE pc' # "out"
    <3>1. Probing /\ Probing'
      BY <1>5, <2>2, Zenon DEF NoDriver, SetProto, EndProbing, ReturnFalse, Probing
    <3> QED
      BY <3>1, ProbingStutters DEF EnumInv, CallInv
  <2> QED
    BY <2>1, <2>2
<1> QED
  BY <1>1, <1>2, <1>3, <1>4, <1>5, Zenon DEF LongTask

(* Taking a call of USB_Task in one step, as UsbHost does, loses nothing:  *)
(* every behaviour in which devices come and go between the requests is    *)
(* one of UsbHost (transfer.c:309-352, HID.c:35-105, 128-196).             *)
THEOREM EnumImplementsUsbHost == EnumSpec => ImplementsUsbHost
<1>1. EnumInit => U!UsbInit
  <2> SUFFICES ASSUME EnumInit PROVE U!UsbInit
    OBVIOUS
  <2>1. UsbInit /\ pc = "out" /\ devReady = FALSE
    BY Zenon DEF EnumInit, UsbInit
  <2>2. /\ HostAt = at /\ HostState = state /\ HostReady = devReady
        /\ HostEpinfo = epinfo /\ HostDevclass = devclass /\ HostAddr = hidAddr
    BY <2>1, SameOutside
  <2> QED
    BY <2>1, <2>2, SameNumbers, Zenon
       DEF UsbInit, EmptyTable, NoClasses, Addresses,
           U!UsbInit, U!EmptyTable, U!NoClasses, U!Addresses
<1>2. EnumInv /\ EnumInv' /\ [EnumNext]_enumVars => [U!UsbNext]_U!usbVars
  <2> SUFFICES ASSUME EnumInv, EnumInv', [EnumNext]_enumVars
               PROVE  [U!UsbNext]_U!usbVars
    OBVIOUS
  <2>1. CASE World
    BY <2>1, WorldRefines
  <2>2. CASE LongTask
    BY <2>2, LongRefines
  <2>3. CASE OtherTurns \/ ShortTask
    <3>1. UNCHANGED pc
      BY <2>3, Zenon DEF OtherTurns, ShortTask, callVars
    <3>2. pc = "out"
      BY <2>3
         DEF OtherTurns, ShortTask, Interrupt, NoInterrupt, Acknowledge, StillRunning, InError,
             NotRunning, ChipReset, ClearAndInit, EnumInv, CallInv, PlaceOfCall
    <3> QED
      BY <2>3, <3>1, <3>2, OtherRefines, ShortRefines, Zenon DEF U!UsbNext, U!MainLoop
  <2>4. CASE UNCHANGED enumVars
    <3>1. UNCHANGED <<pc, found, at, state, devReady, epinfo, devclass, hidAddr>>
      BY <2>4, Zenon DEF enumVars, usbVars, callVars, busVars, tableVars
    <3>2. UNCHANGED <<HostAt, HostState, HostEpinfo, HostDevclass, HostAddr>>
      BY <3>1, Zenon DEF HostAt, HostState, HostEpinfo, HostDevclass, HostAddr, Probing
    <3>3. UNCHANGED HostReady
      BY <3>1 DEF HostReady, Probing
    <3> QED
      BY <2>4, <3>2, <3>3, Zenon
         DEF enumVars, usbVars, busVars, chipVars, tableVars, mainVars, U!usbVars, U!busVars,
             U!chipVars, U!tableVars, U!mainVars
  <2> QED
    BY <2>1, <2>2, <2>3, <2>4, Zenon DEF EnumNext, EnumLoop
<1> QED
  BY <1>1, <1>2, EnumInvariant, PTL DEF EnumSpec, ImplementsUsbHost, U!UsbSafety

(* The probes and the polls find the endpoints that they look up, also     *)
(* when the device is swapped between two requests (HID.c:155-158, 219-220;*)
(* main.c:22, 42).                                                         *)
THEOREM EndpointsStayInPlace == EnumSpec => []EndpointsInPlace
<1>1. EnumInv => EndpointsInPlace
  BY HostPromises DEF EnumInv
<1> QED
  BY <1>1, EnumInvariant, PTL

(* A running device is the one that is plugged in, at the address and of   *)
(* the class that main polls, unless an interrupt waits.                   *)
THEOREM PollsAlwaysReachTheDevice == EnumSpec => []PollsReachTheDevice
<1>1. EnumInv => PollsReachTheDevice
  BY HostPromises DEF EnumInv
<1> QED
  BY <1>1, EnumInvariant, PTL

(* The lamp is lit at the end of a turn exactly while a device runs        *)
(* (main.c:163, 221, 236).                                                 *)
THEOREM LampIsRight == EnumSpec => []LampTellsRunning
<1>1. EnumInv => LampTellsRunning
  BY HostPromises DEF EnumInv
<1> QED
  BY <1>1, EnumInvariant, PTL

-----------------------------------------------------------------------------
(* The endpoint.  The buffer holds the first descriptors of a              *)
(* configuration, however many fit.                                        *)
LEMMA BufferIsPrefix ==
  ASSUME NEW d \in Devices
  PROVE  /\ Config[d] \in Seq(Descriptors) /\ Buffer(d) \in Seq(Descriptors)
         /\ Len(Buffer(d)) <= Len(Config[d])
         /\ \A k \in 1..Len(Buffer(d)) : Buffer(d)[k] = Config[d][k]
<1> DEFINE s == Config[d]
           fit == {k \in DOMAIN s : Offset(s, k) < BufferSize}
           n == Cardinality(fit)
<1>1. s \in Seq(Descriptors)
  BY EnumerationAssumption, Zenon DEF EnumerationAssumption
<1>2. Buffer(d) = SubSeq(s, 1, n)
  BY DEF Buffer
<1> HIDE DEF s
<1>3. Len(s) \in Nat /\ DOMAIN s = 1..Len(s)
  BY <1>1, LenProperties
<1>4. IsFiniteSet(1..Len(s)) /\ Cardinality(1..Len(s)) = Len(s)
  <2>1. 1 \in Int /\ Len(s) \in Int
    BY <1>3
  <2>2. /\ IsFiniteSet(1..Len(s))
        /\ Cardinality(1..Len(s)) = IF 1 > Len(s) THEN 0 ELSE Len(s) - 1 + 1
    BY <2>1, FS_Interval, Zenon
  <2> QED
    BY <1>3, <2>2
<1>5. n \in Nat /\ n <= Len(s)
  <2>1. fit \in SUBSET (1..Len(s))
    BY <1>3
  <2> HIDE DEF fit
  <2>2. IsFiniteSet(fit) /\ n <= Len(s)
    BY <1>4, <2>1, FS_Subset, Zenon
  <2>3. n \in Nat
    BY <2>2, FS_CardinalityType, Zenon
  <2> QED
    BY <2>2, <2>3
<1> HIDE DEF n
<1>6. /\ SubSeq(s, 1, n) \in Seq(Descriptors)
      /\ Len(SubSeq(s, 1, n)) = IF 1 <= n THEN n - 1 + 1 ELSE 0
      /\ \A q \in 1..(n - 1 + 1) : SubSeq(s, 1, n)[q] = s[1 + q - 1]
  <2>1. \A q \in 1..Len(s) : s[q] \in Descriptors
    BY <1>1, LenProperties
  <2>2. 1 \in Int /\ n \in Int /\ \A q \in 1..n : s[q] \in Descriptors
    BY <1>3, <1>5, <2>1
  <2> QED
    BY <2>2, SubSeqProperties
<1>7. Len(Buffer(d)) = n
  BY <1>2, <1>5, <1>6
<1>8. \A q \in 1..n : Buffer(d)[q] = s[q]
  <2> TAKE q \in 1..n
  <2>1. q \in 1..(n - 1 + 1) /\ 1 + q - 1 = q
    BY <1>5
  <2> QED
    BY <1>2, <1>6, <2>1
<1> QED
  BY <1>1, <1>2, <1>5, <1>6, <1>7, <1>8 DEF s

(* The endpoint that a probe takes the packet size of is one of the first  *)
(* interface.                                                              *)
LEMMA TakenFromFirst ==
  ASSUME NEW d \in Devices, NEW c \in Probes, IsOfClass(Buffer(d), c),
         NEW k, EndpointTaken(Buffer(d), k)
  PROVE  /\ Buffer(d)[k].maxPacket \in InterfacePackets(Config[d])
         /\ Buffer(d)[k].maxPacket \in 0..64
<1> DEFINE s == Config[d]
           b == Buffer(d)
<1>1. /\ s \in Seq(Descriptors) /\ b \in Seq(Descriptors)
      /\ Len(b) <= Len(s) /\ \A q \in 1..Len(b) : b[q] = s[q]
  BY BufferIsPrefix
<1>2. \A e \in DOMAIN s, i \in DOMAIN s : InterfaceFound(s, i) /\ s[i].boot \in Probes =>
        \E f \in DOMAIN s : f > i /\ s[f].type = "endpoint"
                            /\ \A m \in (i + 1)..f : s[m].type # "interface"
  BY EndpointAssumption, Zenon
<1>3. PICK j \in DOMAIN b : InterfaceFound(b, j) /\ b[j].boot = c
  BY DEF IsOfClass
<1>4. k \in DOMAIN b /\ b[k].type = "endpoint"
  BY DEF EndpointTaken
<1>5. PICK i \in 1..(k - 1) :
        InterfaceFound(b, i) /\ \A m \in (i + 1)..(k - 1) : b[m].type # "endpoint"
  BY DEF EndpointTaken
<1> HIDE DEF s, b
<1> PICK n \in Nat, l \in Nat : n = Len(b) /\ l = Len(s)
  BY <1>1, LenProperties
<1>6. DOMAIN b = 1..n /\ DOMAIN s = 1..l /\ n <= l
  BY <1>1, LenProperties
<1>7. i \in 1..n /\ i < k /\ k \in 1..n
  BY <1>4, <1>5, <1>6
<1>8. i = j
  BY <1>3, <1>5, <1>6, <1>7 DEF InterfaceFound
<1>9. InterfaceFound(s, i) /\ s[i].boot \in Probes /\ s[k].type = "endpoint"
  BY <1>1, <1>3, <1>4, <1>5, <1>6, <1>7, <1>8 DEF InterfaceFound
<1>10. PICK e \in 1..l : /\ e > i /\ s[e].type = "endpoint"
                         /\ \A m \in (i + 1)..e : s[m].type # "interface"
  BY <1>2, <1>6, <1>7, <1>9
<1>11. k <= e
  <2> SUFFICES ASSUME e < k
               PROVE  FALSE
    BY <1>7, <1>10
  <2>1. e \in (i + 1)..(k - 1) /\ e \in 1..n
    BY <1>7, <1>10
  <2> QED
    BY <1>1, <1>5, <1>10, <2>1
<1>12. \A m \in (i + 1)..k : s[m].type # "interface"
  BY <1>7, <1>10, <1>11
<1>13. k \in DOMAIN s /\ i \in 1..k /\ b[k] = s[k]
  BY <1>1, <1>6, <1>7
<1>14. b[k].maxPacket \in InterfacePackets(s)
  BY <1>9, <1>12, <1>13, Zenon DEF InterfacePackets
<1>15. b[k].maxPacket \in 0..64
  <2>1. b[k] \in Descriptors
    BY <1>1, <1>4, <1>6
  <2> QED
    BY <2>1 DEF Descriptors
<1> QED
  BY <1>14, <1>15 DEF s, b

(* The packet size in the table is that of an endpoint of the device that  *)
(* is configured, as long as that answers at its address, and of the one   *)
(* that runs.                                                              *)
PacketSizeInv ==
  /\ maxPktSize \in 0..64
  /\ pc \in {"conf", "proto"} /\ devAddr = tmpAddr =>
       maxPktSize \in InterfacePackets(Config[dev])
  /\ PollsKnowThePacketSize

(* The loop over the probes ends behind the table.                         *)
ProbeNumber ==
  /\ driver \in 0..5
  /\ pc \in {"head", "whole", "conf", "proto"} => driver \in 1..4

LEMMA ProbeNumberStep ==
  ASSUME ProbeNumber, [EnumNext]_enumVars
  PROVE  ProbeNumber'
<1> USE DEF ProbeNumber
<1>1. CASE UNCHANGED callVars
  BY <1>1 DEF callVars
<1>2. CASE GetDescriptorSize \/ GetOtherDescriptors
  BY <1>2 DEF GetDescriptorSize, GetOtherDescriptors
<1>3. CASE StartProbing
  BY <1>3 DEF StartProbing
<1>4. CASE CallProbe
  <2>1. DOMAIN ClientDriverTable = 1..4
    BY DEF ClientDriverTable
  <2>2. driver \in 1..4 /\ pc = "call"
        /\ \/ pc' = "head" /\ driver' = driver
           \/ pc' = "call" /\ driver' = driver + 1
    BY <1>4, <2>1, Zenon DEF CallProbe
  <2> QED
    BY <2>2
<1>5. CASE ReadHead \/ ReadWhole \/ SetConf \/ SetProto
  <2>1. driver \in 1..4
    BY <1>5, Zenon DEF ReadHead, ReadWhole, SetConf, SetProto
  <2>2. \/ pc' = "call" /\ driver' = driver + 1
        \/ UNCHANGED driver
        \/ driver' = 0 /\ pc' = "out"
    BY <1>5, Zenon DEF ReadHead, ReadWhole, SetConf, SetProto, ReturnFalse, EndProbing
  <2> QED
    BY <2>1, <2>2
<1>6. CASE NoDriver
  BY <1>6 DEF NoDriver, EndProbing
<1> QED
  BY <1>1, <1>2, <1>3, <1>4, <1>5, <1>6, StepKinds, Zenon DEF LongTask

LEMMA WorldPacketSize ==
  ASSUME EnumInv, PacketSizeInv, World
  PROVE  PacketSizeInv'
<1> USE DEF World
<1>1. UNCHANGED <<state, pc, maxPktSize, tmpAddr>>
  BY Zenon
     DEF Plug, Unplug, Connect, ResetNoise, EndBusReset, Settled, tableVars, callVars
<1>2. \/ condet' = TRUE /\ devAddr' = 0
      \/ /\ UNCHANGED dev /\ (devAddr' = 0 \/ UNCHANGED devAddr)
         /\ condet' \in {condet, TRUE}
  BY Zenon DEF Plug, Unplug, Connect, ResetNoise, EndBusReset, Settled, busVars, chipVars
<1>3. Probing => tmpAddr # 0
  BY DEF EnumInv, CallInv, PlaceOfCall, UsbInv, LowestFirst, UsedAddresses, Addresses
<1>4. pc \in {"conf", "proto"} => Probing
  BY DEF Probing
<1> QED
  BY <1>1, <1>2, <1>3, <1>4 DEF PacketSizeInv, PollsKnowThePacketSize

(* Outside the calls nothing gets a device to run, and the interrupt flag  *)
(* is not cleared while one does.                                          *)
LEMMA OtherPacketSize ==
  ASSUME EnumInv, PacketSizeInv, OtherTurns \/ ShortTask
  PROVE  PacketSizeInv'
<1>1. UNCHANGED <<dev, maxPktSize, pc>>
  BY Zenon
     DEF OtherTurns, ShortTask, Interrupt, NoInterrupt, Acknowledge, StillRunning, InError,
         NotRunning, ChipReset, ClearAndInit, TaskInitialize, TaskAttached, TaskSettle,
         TaskResetDevice, TaskWaitReset, TaskWaitSof, TaskAddressing, TaskIdle, busVars, callVars
<1>2. pc = "out"
  <2>1. at # "task" \/ pc = "out"
    BY DEF OtherTurns, ShortTask, Interrupt, NoInterrupt, Acknowledge, StillRunning, InError,
           NotRunning, ChipReset, ClearAndInit
  <2> QED
    BY <2>1, Zenon DEF EnumInv, CallInv, PlaceOfCall
<1>3. [UsbNext]_usbVars
  BY Zenon DEF OtherTurns, ShortTask, UsbTask, UsbNext, MainLoop
<1>4. state' = RUNNING => state = RUNNING
  <2>1. CASE TableKept
    BY <2>1 DEF TableKept
  <2>2. CASE ClearAndInit
    BY <2>2, Zenon DEF ClearAndInit
  <2>3. CASE UsbTask /\ (TaskInitialize \/ TaskAddressing \/ TaskConfiguring)
    <3>1. TaskInitialize \/ TaskAddressing
      <4>1. at = "task"
        BY <2>3, Zenon DEF UsbTask
      <4>2. ShortTask
        BY <4>1
           DEF OtherTurns, Interrupt, NoInterrupt, Acknowledge, StillRunning, InError,
               NotRunning, ChipReset, ClearAndInit
      <4>3. TaskConfiguring => state = CONFIGURING
        BY Zenon DEF TaskConfiguring
      <4>4. state = CONFIGURING => TaskInitialize \/ TaskAddressing
        BY <4>2
           DEF ShortTask, TaskAttached, TaskSettle, TaskResetDevice, TaskWaitReset, TaskWaitSof,
               TaskIdle, CONFIGURING, ATTACHED, SETTLE, RESET_DEVICE, WAIT_RESET_COMPLETE,
               WAIT_SOF, Enumerating
      <4> QED
        BY <2>3, <4>3, <4>4
    <3>2. state' \in {WAIT_FOR_DEVICE, CONFIGURING, ERROR}
      BY <3>1, Zenon DEF TaskInitialize, TaskAddressing
    <3> QED
      BY <3>2 DEF WAIT_FOR_DEVICE, CONFIGURING, ERROR, RUNNING
  <2> QED
    BY <1>3, <2>1, <2>2, <2>3, KeepsTable, Zenon DEF EnumInv, UsbInv
<1>5. state = RUNNING => UNCHANGED condet
  <2>1. at \notin {"ack", "reset", "clear"} => UNCHANGED condet
    BY Zenon
       DEF OtherTurns, ShortTask, Interrupt, NoInterrupt, Acknowledge, StillRunning, InError,
           NotRunning, ChipReset, ClearAndInit, TaskInitialize, TaskAttached, TaskSettle,
           TaskResetDevice, TaskWaitReset, TaskWaitSof, TaskAddressing, TaskIdle, chipVars
  <2>2. at \in {"ack", "reset", "clear"} => state # RUNNING
    BY DEF EnumInv, UsbInv, ProbedPlaces
  <2> QED
    BY <2>1, <2>2
<1> QED
  BY <1>1, <1>2, <1>4, <1>5 DEF PacketSizeInv, PollsKnowThePacketSize

LEMMA LongPacketSize ==
  ASSUME EnumInv, PacketSizeInv, LongTask
  PROVE  PacketSizeInv'
<1> USE DEF EnumInv, CallInv
<1>1. UNCHANGED <<dev, devAddr, condet, tmpAddr>>
      /\ state \in {GET_DEVICE_DESCRIPTOR_SIZE, CONFIGURING}
      /\ (state' \in {state, ADDRESSING, ERROR} \/ SetProto)
  BY LongSteps, Zenon DEF chipVars
<1>2. state # RUNNING
  BY <1>1 DEF GET_DEVICE_DESCRIPTOR_SIZE, CONFIGURING, RUNNING
<1>3. state' = RUNNING =>
        /\ pc = "proto" /\ devAddr = tmpAddr /\ UNCHANGED maxPktSize
  <2> SUFFICES ASSUME state' = RUNNING
               PROVE  pc = "proto" /\ devAddr = tmpAddr /\ UNCHANGED maxPktSize
    OBVIOUS
  <2>1. SetProto
    BY <1>1, <1>2 DEF ADDRESSING, ERROR, RUNNING
  <2>2. Answers(tmpAddr)
    BY <2>1, ProbesEnd, Zenon
  <2> QED
    BY <2>1, <2>2, Zenon DEF SetProto, Answers
<1>4. PollsKnowThePacketSize'
  BY <1>1, <1>3, Zenon DEF PacketSizeInv, PollsKnowThePacketSize
<1>5. CASE ReadWhole /\ pc' = "conf"
  <2>1. /\ Answers(tmpAddr) /\ IsOfClass(Buffer(dev), ClientDriverTable[driver])
        /\ \E k \in DOMAIN Buffer(dev) :
             EndpointTaken(Buffer(dev), k) /\ maxPktSize' = Buffer(dev)[k].maxPacket
    BY <1>5, Zenon DEF ReadWhole, ReturnFalse
  <2>2. dev \in Devices
    BY <2>1, Zenon DEF Answers
  <2>3. ClientDriverTable[driver] \in Probes
    BY <1>5, Zenon DEF ReadWhole, PlaceOfCall
  <2>4. maxPktSize' \in InterfacePackets(Config[dev]) /\ maxPktSize' \in 0..64
    BY <2>1, <2>2, <2>3, TakenFromFirst, Zenon
  <2> QED
    BY <1>1, <1>4, <2>4, Zenon DEF PacketSizeInv
<1>6. CASE ~(ReadWhole /\ pc' = "conf")
  <2>1. /\ UNCHANGED maxPktSize
        /\ pc' \in {"conf", "proto"} => pc \in {"conf", "proto"}
    BY <1>6, Zenon
       DEF LongTask, GetDescriptorSize, GetOtherDescriptors, StartProbing, CallProbe, NoDriver,
           ReadHead, ReadWhole, SetConf, SetProto, ReturnFalse, EndProbing
  <2> QED
    BY <1>1, <1>4, <2>1, Zenon DEF PacketSizeInv
<1> QED
  BY <1>5, <1>6

(* All that is known of the probes, with the endpoint they choose.         *)
LEMMA PacketSizeStep ==
  ASSUME EnumInv, PacketSizeInv, [EnumNext]_enumVars
  PROVE  PacketSizeInv'
<1>1. CASE UNCHANGED enumVars
  BY <1>1, Zenon
     DEF enumVars, usbVars, callVars, busVars, chipVars, tableVars, PacketSizeInv,
         PollsKnowThePacketSize
<1> QED
  BY <1>1, WorldPacketSize, OtherPacketSize, LongPacketSize, Zenon DEF EnumNext, EnumLoop

(* The probes and what they find stay within their types.                  *)
THEOREM EnumTypeCorrect == EnumSpec => []EnumTypeOK
<1>1. EnumInit => PacketSizeInv /\ ProbeNumber
  BY DEF EnumInit, UsbInit, PacketSizeInv, ProbeNumber, PollsKnowThePacketSize, INITIALIZE, RUNNING
<1>2. EnumInv /\ PacketSizeInv /\ ProbeNumber /\ [EnumNext]_enumVars
        => PacketSizeInv' /\ ProbeNumber'
  BY PacketSizeStep, ProbeNumberStep
<1>3. EnumInv /\ PacketSizeInv /\ ProbeNumber => EnumTypeOK
  <2>1. Len(ClientDriverTable) + 1 = 5
    BY DEF ClientDriverTable
  <2> QED
    BY <2>1
       DEF EnumTypeOK, EnumInv, CallInv, UsbInv, PlaceOfCall, PacketSizeInv, ProbeNumber
<1> QED
  BY <1>1, <1>2, <1>3, EnumInvariant, PTL DEF EnumSpec

(* The polls work with the packet size of an endpoint of the first         *)
(* interface of the device that runs, whatever was plugged in between two  *)
(* requests of the probes (HID.c:163-191, 212, 220), for all devices that  *)
(* describe an endpoint with their boot interface.                         *)
THEOREM PollsHaveTheirPacketSize == EnumSpec => []PollsKnowThePacketSize
<1>1. EnumInit => PacketSizeInv
  BY DEF EnumInit, UsbInit, PacketSizeInv, PollsKnowThePacketSize, INITIALIZE, RUNNING
<1>2. EnumInv /\ PacketSizeInv /\ [EnumNext]_enumVars => PacketSizeInv'
  BY PacketSizeStep
<1>3. PacketSizeInv => PollsKnowThePacketSize
  BY DEF PacketSizeInv
<1> QED
  BY <1>1, <1>2, <1>3, EnumInvariant, PTL DEF EnumSpec
=============================================================================
