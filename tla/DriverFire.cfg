\* One tank, one bullet, a walled yard of 8 x 8 pixels: small enough for every
\* order of steering, firing, hits, resets and wall contacts.
CONSTANTS
  Tanks = {1}
  Magazine = 1
  Cooldown = 1
  Modulus = 8
  TankSize = 2
  Muzzle = 1
  BulletStep = 3
  MapWidth = 4
  AddressSpace = 16
  Start <- StartInYard
  Walls <- Border
  BulletWalls <- Border
  Pads <- FirePads
SPECIFICATION DriverSpec
INVARIANTS
  DriverTypeOK
  ShotKeepsCourse
PROPERTIES
  OnePixelPerFrame
