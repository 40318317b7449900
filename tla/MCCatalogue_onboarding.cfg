SPECIFICATION Spec
CONSTANTS
  Scan = {s1, s2}
  Host = {"A", "B"}
  Site = {"a", "www.a", "b", "inside"}
  Public = {"a", "www.a", "b"}
  MerchantOf <- MCMerchantOf
  Path = {"/", "/p", "/q", "/cart"}
  Route = {"/cart"}
  BaseHandle <- MCBaseHandle
  HomePage <- MCHomePage
  LinkPage <- MCLinkPage
  FeedPage <- MCFeedPage
  Absent = Absent
  NoListing = NoListing
  NoPrices = NoPrices
  maxRedirects = 1
  maxProductPages = 2
  maxPages = 2
  pageLimit = 2
  maxProducts = 3
  Query = {"running", "cotton"}
  Whole <- MCWhole
  TokenHits <- MCTokenHits
  Brand <- MCBrand
  TitleTokens <- MCTitleTokens
  Collation <- MCCollation
  SearchLimit = 3
  UpsellLimit = 2
  ToolLimit = 3
INVARIANTS StockKept SearchSettled
PROPERTIES KeepsListing ScanEnds
