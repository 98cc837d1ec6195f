SPECIFICATION Spec
CONSTANTS
  Address = 1
  Adus <- Frames
  Transmissions <- DamagedLine
  MaxHexChars = 8
INVARIANTS
  TypeOK
  WholeFrameAccepted
PROPERTIES
  DamageCostsOneFrame
CHECK_DEADLOCK FALSE
