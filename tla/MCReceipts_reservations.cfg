SPECIFICATION SpecReceipts
CONSTANTS
  m1 = m1
  x = x
  y = y
  z = z
  Mandate <- MCMandate
  Merchant <- MCMerchant
  Intent <- MCIntent
  Request <- MCReceiptRequest
  Settlement = {s1, s2}
  Key = {k1, k2}
  NoIntent = NoIntent
  NoCart = NoCart
  NoRequest = NoRequest
  NoSettlement = NoSettlement
  NoLimit = NoLimit
  NoPrice = NoPrice
  NoCredential = NoCredential
  catalogPrices <- MCPrices
  clockSkewSec = 1
  approvalTtl = 9
  approvedStale = 1
  idempotencyLockStale = 1
  MaxTime = 5
  LastDecision = 3
  Agent = {"agent", "other"}
  LedgerLimit = 3
  OrderLimit = 1
  MaxDecisions = 1
INVARIANTS LedgerTellsState ShownIsEnforced
PROPERTY ReservationResolves
CHECK_DEADLOCK FALSE
