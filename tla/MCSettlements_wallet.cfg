SPECIFICATION Spec
CONSTANTS
  m1 = m1
  x = x
  y = y
  z = z
  Mandate <- MCMandate
  Merchant <- MCMerchant
  Intent <- MCIntent
  Request <- MCRequest
  Settlement = {s1, s2, s3}
  Key = {k1, k2, k3}
  NoIntent = NoIntent
  NoCart = NoCart
  NoRequest = NoRequest
  NoSettlement = NoSettlement
  NoLimit = NoLimit
  NoPrice = NoPrice
  NoCredential = NoCredential
  catalogPrices <- MCPrices
  clockSkewSec = 1
  approvalTtl = 1
  approvedStale = 1
  idempotencyLockStale = 1
  MaxTime = 3
  LastDecision = 3
SYMMETRY KeySymmetry
INVARIANTS TypeOK HumanInTheLoop DecisionAgreement MerchantWithinLimit
PROPERTIES AuthorityAtSettling RevokedReportsRevoked KeepsWallet KeepsTill
CHECK_DEADLOCK FALSE
