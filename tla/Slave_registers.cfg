SPECIFICATION Spec
CONSTANTS
  c1 = c1  c2 = c2  c3 = c3  c4 = c4  c5 = c5  c6 = c6
  NoFrame = NoFrame  NoCall = NoCall  NoCaller = NoCaller  NoProbe = NoProbe
  MaxReadBits = 10
  MaxReadRegisters = 2
  MaxWriteCoils = 10
  MaxWriteRegisters = 2
  Slaves = {1, 2}
  Device <- MCDevice
  Plans <- MCPlans
  Outside = {0, 1}
  IndexMax = 2
  Callers = {c1, c2, c3, c4, c5, c6}
  Calls <- MCCalls
  Probes <- MCProbes
  Setups <- MCSetups
  Retries = 1
  IdempotentOnly = TRUE
  Walk <- MCWalk
  Malformed <- MCMalformed
INVARIANTS TypeOK WireLayout FramerKnowsLength OneShotFaults VerdictTrue
PROPERTIES CacheBacked ReadsAndWritesMemory
