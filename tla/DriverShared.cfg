\* README.md:11 against the codes compared with register 2 in ball2.sv.
CONSTANTS
  Tanks = {2}
  Magazine = 1
  Cooldown = 1
  Modulus = 8
  TankSize = 2
  Muzzle = 1
  BulletStep = 3
  MapWidth = 4
  AddressSpace = 16
  Start <- StartInYard
  Walls <- Border
  BulletWalls <- Border
  Pads <- SharedPads
SPECIFICATION DriverSpec
PROPERTIES
  IndependentControls
