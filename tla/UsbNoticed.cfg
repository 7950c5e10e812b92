\* A keyboard and a mouse that are swapped at any time.
CONSTANTS
  kbd = k
  mouse = m
  disk = d
  broken = b
  None = none
  Devices <- TwoDevices
  Class <- TwoClasses
  LowSpeed <- SlowDevices
  Faulty <- NoDevices
  NumDevices = 3
SPECIFICATION UsbSpec
INVARIANTS
  DeviceIsNoticed
