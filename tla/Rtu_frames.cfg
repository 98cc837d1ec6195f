SPECIFICATION BusyLineSpec
CONSTANTS
  Setups = {"damage", "jitter", "server", "drip"}
  Setup <- SetupOf
  Adus <- AllAdus
  MaxByteCount = 4
  MaxTail = 8
  BufferMax = 4
INVARIANTS
  TypeOK
  WholeFrameAccepted
  StartsAtBoundary
  StraySparesReply
PROPERTIES
  GapReadEnds
CHECK_DEADLOCK FALSE
