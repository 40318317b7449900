SPECIFICATION FairSpec
CONSTANTS
  Settlement = {s1}
  Attempt = {a1, a2}
  Handler = {h1}
  NoSettlement = NoSettlement
  NoAttempt = NoAttempt
  MAX_ATTEMPTS = 1
  maxApprovedKicks = 1
  MaxFaults = 1
  MaxCrashes = 1
PROPERTIES ApprovedResolves SettlingResumes LateCaptureConverges
CHECK_DEADLOCK FALSE
