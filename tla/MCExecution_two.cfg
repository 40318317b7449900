SPECIFICATION Spec
CONSTANTS
  Settlement = {s1, s2}
  Attempt = {a1, a2, a3, a4}
  Handler = {h1}
  NoSettlement = NoSettlement
  NoAttempt = NoAttempt
  MAX_ATTEMPTS = 1
  maxApprovedKicks = 1
  MaxFaults = 0
  MaxCrashes = 1
SYMMETRY SettlementSymmetry
INVARIANTS ChargeNeedsSettling InFlightExact
PROPERTY KeepsPromise
CHECK_DEADLOCK FALSE
