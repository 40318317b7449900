SPECIFICATION Spec
CONSTANTS
  EventType = {"mandate_registered", "mandate_revoked"}
  OlderType = {"mandate_registered"}
  Subject = {s1, s2}
  Garbled = Garbled
  MaxLen = 4
SYMMETRY Symmetry
CONSTRAINT Short
INVARIANTS ChainVerdict
PROPERTIES AppendOnly
