SPECIFICATION Spec
CONSTANTS
  Settlement = {s1}
  Attempt = {a1, a2}
  Handler = {h1}
  NoSettlement = NoSettlement
  NoAttempt = NoAttempt
  MAX_ATTEMPTS = 1
  maxApprovedKicks = 1
  MaxFaults = 0
  MaxCrashes = 0
INVARIANT HonouredCaptureKept
CHECK_DEADLOCK FALSE
