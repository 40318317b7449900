SPECIFICATION Spec
CONSTANTS
  Call = {c1, c2}
  Errand <- MCErrand
  Reply <- MCReply
  Published <- MCPublished
  Store = "store"
  Within <- MCWithin
  Poison <- MCPoison
  Absent = Absent
  NoListing = NoListing
  NoPrices = NoPrices
SYMMETRY Symmetry
INVARIANTS OnePurchasePerToken TellsTruth BoughtAsAsked GuardedPick
PROPERTY KeepsTill
