\* Two registers, three keys, reports of three keys: a report can be longer
\* than the registers, and a key can move through all of them.  The keys have
\* numbers that are small, large and the one that has no positive counterpart.
CONSTANTS
  Keys = {26, 128, 150}
  NoKey = 0
  Registers = 2
  MaxHeld = 3
  MouseReports <- MCReports
SPECIFICATION LoopSpec
INVARIANTS
  LoopTypeOK
  HeldKeyStaysVisible
  PanelShowsTheValues
PROPERTIES
  RegistersFollowTheKeys
