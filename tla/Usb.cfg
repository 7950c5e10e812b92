\* Every kind of device, two addresses: devices are swapped in every state and between
\* any two requests, leave entries in the table, and use up the addresses.
CONSTANTS
  kbd = k
  mouse = m
  reader = r
  long = l
  broken = b
  None = none
  Devices <- MCDevices
  Class <- MCClass
  LowSpeed <- SlowDevices
  Faulty <- BrokenDevices
  NumDevices = 3
  Config <- MCConfig
  BufferSize = 256
SPECIFICATION EnumSpec
INVARIANTS
  EnumTypeOK
  EndpointsInPlace
  PollsReachTheDevice
  PollsKnowThePacketSize
  LampTellsRunning
PROPERTIES
  HostSettles
  UnplugEndsRunning
  ImplementsUsbHost
