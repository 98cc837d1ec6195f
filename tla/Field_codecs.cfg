SPECIFICATION Spec
CONSTANTS
  Base = 4
  Nul = Nul
  a = a  e = e
  Huge = Huge
  StructQuiets = TRUE
  None = None
  Encoding <- MCEncoding
  Formats <- MCFormats
  Values <- MCValues
  Spares = {0, 1}
INVARIANTS TypeOK HostAndDeviceAgree RefusedOnlyIfUnfit NeighboursSpared
PROPERTY WriteBackKeepsMemory
