SPECIFICATION Spec
SYMMETRY HandlerSymmetry
CONSTANTS
  Settlement = {s1}
  Attempt = {a1,a2,a3}
  Handler = {h1,h2}
  NoSettlement = NoSettlement
  NoAttempt = NoAttempt
  MAX_ATTEMPTS = 2
  maxApprovedKicks = 1
  MaxFaults = 1
  MaxCrashes = 1
INVARIANTS TypeOK CaptureAgreement CaptureIsBacked LoopOwnsSettlement AttemptBudget PaymentIsFindable
PROPERTY TerminalIsFinal
CHECK_DEADLOCK FALSE
