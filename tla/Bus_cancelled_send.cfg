SPECIFICATION Spec
CONSTANTS
  c1 = c1  c2 = c2
  r1 = r1  r2 = r2  s1 = s1  w1 = w1  d1 = d1  b1 = b1
  NoRequest = NoRequest
  Callers = {c1, c2}
  CancelAt = {"sending", "draining"}
  Requests = {r1, r2}
  Kind <- KindOf
  Unit <- UnitOf
  Retries = 1
  RetryOn = {"bad", "timeout"}
  IdempotentOnly = TRUE
  Backoff = 0
  Gap = 1
  IdleFloor = 1
  Window = 3
  RequestTimeout = 1
  StartupSettle = 0
  PostTxSettle = 0
  Turnaround = 1
  CanDrain = TRUE
  CanReset = TRUE
  Faults = {}
  TxMax = 1
  ReplyMax = 2
  MaxExchanges = 2
  RxMax = 2
  Noisy = FALSE
INVARIANTS NoStaleReply
