SPECIFICATION Spec
CONSTANTS
  Call = {c1, c2}
  Errand <- Once
  Reply <- MCReply
  Published <- MCPublished
  Store = "store"
  Within <- MCWithin
  Poison <- MCPoison
  Absent = Absent
  NoListing = NoListing
  NoPrices = NoPrices
PROPERTY NothingWasCharged
