SPECIFICATION Spec
CONSTANTS
  Settlement = {s1}
  Attempt = {a1, a2, a3}
  Handler = {h1}
  NoSettlement = NoSettlement
  NoAttempt = NoAttempt
  MAX_ATTEMPTS = 2
  maxApprovedKicks = 1
  MaxFaults = 0
  MaxCrashes = 0
PROPERTY NoAttemptAfterCapture
CHECK_DEADLOCK FALSE
