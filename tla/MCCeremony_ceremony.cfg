SPECIFICATION Spec
CONSTANTS
  Mandate = {m1, m2}
  Proposal = {p1}
  Token = {k1, k2}
  Tab = {t1, t2}
  Key = {h1, h2}
  NoKey = NoKey
  NoMandate = NoMandate
  ByHand = ByHand
  Garbled = Garbled
  p1 = p1
  here = here
  there = there
  Undefined = Undefined
  Null = Null
  Ask <- MCAsk
  Form <- MCForm
  OlderType = {"mandate_registered"}
  ttl = 0
  MaxTime = 1
SYMMETRY Symmetry
INVARIANTS OneMandatePerToken LedgerAgrees DoneMeansDone SignsTheOffer
PROPERTIES KeepsLedger
