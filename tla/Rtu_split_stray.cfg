SPECIFICATION Spec
CONSTANTS
  Setups = {"splitstray"}
  Setup <- SetupOf
  Adus <- AllAdus
  MaxByteCount = 4
  MaxTail = 8
  BufferMax = 4
INVARIANTS
  StraySparesReply
CHECK_DEADLOCK FALSE
