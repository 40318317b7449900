------------------------------ MODULE Catalogue ------------------------------
(***************************************************************************)
(* How a store comes to be listed: POST /stores/onboard and `hundi init    *)
(* --register` scan a third-party site, page by page, and write what they  *)
(* found.  Each fetch is a step, and several scans run at once.  The site  *)
(* answers as it likes: its pages are drawn anew at every fetch.           *)
(***************************************************************************)
EXTENDS Naturals, Sequences, FiniteSets, SequencesExt

CONSTANTS
  Scan,           \* requests to onboard and runs of the CLI (a bound)
  Host,           \* merchant ids
  Site, Public,   \* hosts, and those that resolve to public addresses only
  MerchantOf,     \* deriveMerchantId: www.a and a are one merchant
  Path, Route,    \* paths, and those of the cart, checkout and account
  BaseHandle,     \* a handle less its reserved-route suffix
  HomePage,       \* what a first fetch may meet: hops, JSON-LD nodes, hrefs
  LinkPage,       \* what a linked page may hold: JSON-LD nodes
  FeedPage,       \* what a page of products.json may hold
  Absent,         \* a name, price, sku or page that is not there
  NoListing, NoPrices,
  maxRedirects, maxProductPages, maxPages, pageLimit, maxProducts

Place == [site : Site, path : Path]

\* What the pages hold, and the records a scan makes of it.
JsonNode == UNION ({ToSet(p.nodes) : p \in HomePage} \cup {ToSet(p) : p \in LinkPage})
FeedRecord == UNION {ToSet(p) : p \in FeedPage}
Sku == ({x.sku : x \in JsonNode \cup FeedRecord} \ {Absent}) \cup Path
Name == {x.name : x \in JsonNode \cup FeedRecord} \ {Absent}
VariantId == UNION {{v.id : v \in ToSet(r.variants)} : r \in FeedRecord}
ScannedVariant == [id : VariantId, price : Nat, stock : BOOLEAN]
ScannedProduct ==
  [sku : Sku, name : Name, price : Nat, stock : BOOLEAN, variants : Seq(ScannedVariant)]

ASSUME CatalogueAssumption ==
  /\ Public \subseteq Site /\ Route \subseteq Path
  /\ MerchantOf \in [Site -> Host]
  /\ {maxRedirects, maxProductPages, maxPages, pageLimit, maxProducts} \subseteq Nat \ {0}
  /\ \A p \in HomePage : /\ p.nodes \in Seq(JsonNode) /\ {p.hops, p.hrefs} \subseteq Seq(Place)
                         /\ p.hops # <<>>
  /\ LinkPage \subseteq Seq(JsonNode) /\ FeedPage \subseteq Seq(FeedRecord)
  /\ \A n \in JsonNode : n.price \in Nat \cup {Absent} /\ n.stock \in BOOLEAN
  /\ \A r \in FeedRecord :
       r.variants \in Seq([id : VariantId, price : Nat \cup {Absent}, stock : BOOLEAN])
  /\ NoListing \notin Seq(ScannedProduct)
  /\ \A skus \in SUBSET Sku : NoPrices \notin [skus -> Nat]

\* Shopify gives each variant of a product an id of its own.
ASSUME VariantAssumption ==
  \A r \in FeedRecord : \A i, j \in DOMAIN r.variants :
    r.variants[i].id = r.variants[j].id /\ r.variants[i].id # Absent => i = j

VARIABLES
  scan,      \* each scan's local variables, and where it awaits
  browser,   \* browserPromise: unset, a browser, or a rejection
  listing,   \* store_catalogs
  prices     \* merchants.config_json

vars == <<scan, browser, listing, prices>>

Li == INSTANCE Listing

Idle == [at |-> "idle"]
Ended(verdict) == [at |-> verdict]
Failed == Absent
\* /products.json, then /collections/all/products.json.
Feeds == 2

Init ==
  /\ scan = [s \in Scan |-> Idle]
  /\ browser = "unset"
  /\ Li!Init

-----------------------------------------------------------------------------
(* Reading pages.                                                          *)

\* safeFetch: at most maxRedirects redirects, every hop to a public host.
safeFetch(hops) ==
  /\ Len(hops) <= maxRedirects + 1
  /\ \A i \in DOMAIN hops : hops[i].site \in Public

\* A `for` over a list.
ForEach(body(_, _), base, s) ==
  LET after[n \in 0..Len(s)] == IF n = 0 THEN base ELSE body(after[n-1], s[n])
  IN after[Len(s)]

\* Array.filter: those of a list that are good, in its order.
Push(good, kept, x) == IF x \in good THEN Append(kept, x) ELSE kept
Keep(s, good) == ForEach(LAMBDA kept, x : Push(good, kept, x), <<>>, s)

\* buildProduct: a node without a name or a price is skipped, a sku is made up.
buildProduct(node, base) ==
  [sku |-> IF node.sku = Absent THEN base.path ELSE node.sku, name |-> node.name,
   price |-> node.price, stock |-> node.stock, variants |-> <<>>]

extractProducts(nodes, base) ==
  LET usable == Keep(nodes, {n \in ToSet(nodes) : n.name # Absent /\ n.price # Absent})
  IN [i \in DOMAIN usable |-> buildProduct(usable[i], base)]

\* extractLinks: same origin, no storefront machinery, each once, not the page itself.
Follow(base, links, h) ==
  IF h.site # base.site \/ h.path \in Route \/ h \in ToSet(links) \cup {base}
  THEN links ELSE Append(links, h)

extractLinks(hrefs, base) == ForEach(LAMBDA links, h : Follow(base, links, h), <<>>, hrefs)

First(n, s) == IF Len(s) > n THEN SubSeq(s, 1, n) ELSE s
IndexOf(products, sku) == {i \in DOMAIN products : products[i].sku = sku}

\* bySku of the page scanned itself: the last product of a sku, at the place of the first.
KeepLast(products, p) ==
  LET twin == IndexOf(products, p.sku)
  IN IF twin = {} THEN Append(products, p)
     ELSE [products EXCEPT ![Min(twin)] = p]

\* bySku of a linked page, seenSkus of the browser's scan: the first product of a sku.
KeepFirst(products, p) == IF IndexOf(products, p.sku) = {} THEN Append(products, p) ELSE products

-----------------------------------------------------------------------------
(* Shopify's feed.                                                         *)

\* A lone variant is no choice, so it is no list of variants.
buildScannedVariants(variants) ==
  LET usable == Keep(variants, {v \in ToSet(variants) : v.id # Absent /\ v.price # Absent})
  IN IF Len(usable) > 1 THEN usable ELSE <<>>

Sellable(raw) ==
  /\ raw.name # Absent /\ raw.sku # Absent /\ raw.variants # <<>>
  /\ raw.variants[1].price # Absent /\ raw.variants[1].price > 0

\* A record of the feed, priced and in stock as its first variant is.
Scanned(page) ==
  LET usable == Keep(page, {raw \in ToSet(page) : Sellable(raw)})
  IN [i \in DOMAIN usable |->
        LET raw == usable[i]
        IN [sku |-> raw.sku, name |-> raw.name, price |-> raw.variants[1].price,
            stock |-> raw.variants[1].stock, variants |-> buildScannedVariants(raw.variants)]]

\* byVariantId: an id keeps the place of its first variant and the value of its last.
SetVariant(byId, v) ==
  LET twin == {i \in DOMAIN byId : byId[i].id = v.id}
  IN IF twin = {} THEN Append(byId, v)
     ELSE [byId EXCEPT ![Min(twin)] = v]

\* One that either record has in stock is in stock.
JoinVariant(byId, v) ==
  SetVariant(byId, [v EXCEPT !.stock = @ \/ \E i \in DOMAIN byId : byId[i].id = v.id /\ byId[i].stock])

mergeVariants(vs, ws) == ForEach(JoinVariant, ForEach(SetVariant, <<>>, vs), ws)

\* Mutant of mergeDuplicateShopifyProduct: the later record's stock stands.
MergeLater(a, b) == [a EXCEPT !.stock = b.stock]

mergeDuplicateShopifyProduct(a, b) ==
  LET merged == mergeVariants(a.variants, b.variants)
  IN [a EXCEPT !.stock = @ \/ b.stock,
               !.variants = IF Len(merged) > 1 THEN merged ELSE @]

\* A product of a reserved-route handle, named as the product of its base handle is.
Shadow(p, products) ==
  \E q \in ToSet(products) : q.sku = BaseHandle[p.sku] /\ q.sku # p.sku /\ q.name = p.name

\* byHandle: each record joins the one it has of its handle.
PutHandle(byHandle, p) ==
  LET twin == IndexOf(byHandle, p.sku)
  IN IF twin = {} THEN Append(byHandle, p)
     ELSE [byHandle EXCEPT ![Min(twin)] = mergeDuplicateShopifyProduct(@, p)]

Unshadowed[byHandle \in Seq(ScannedProduct)] ==
  Keep(byHandle, {p \in ToSet(byHandle) : ~Shadow(p, byHandle)})

dedupeShopifyProducts(products) == Unshadowed[ForEach(PutHandle, <<>>, products)]

extractShopifyProducts(page) == dedupeShopifyProducts(Scanned(page))

-----------------------------------------------------------------------------
(* A scan.                                                                 *)

Begin(s) ==
  /\ scan[s] = Idle
  /\ \E site \in Site, by \in {"onboard", "init"}, register \in BOOLEAN :
       /\ by = "onboard" => ~register
       /\ scan' = [scan EXCEPT ![s] =
            [at |-> "home", by |-> by, register |-> register, host |-> MerchantOf[site],
             site |-> site, links |-> <<>>, feed |-> 1, page |-> 1, got |-> <<>>, heard |-> <<>>]]
  /\ UNCHANGED <<browser, listing, prices>>

At(s, where) == scan[s].at = where

\* The links first, then the feed if nothing was found, then back to the caller.
Onward(q) == [q EXCEPT !.at = IF q.links # <<>> THEN "links"
                              ELSE IF q.got = <<>> THEN "feed" ELSE "scanned"]

\* scanStore's first fetch: a failure is thrown, and leaves the id derived from the URL asked for.
FetchHome(s) ==
  /\ At(s, "home")
  /\ \E answer \in {a \in HomePage : a.hops[1].site = scan[s].site} \cup {Failed} :
       IF answer = Failed \/ ~safeFetch(answer.hops)
       THEN scan' = [scan EXCEPT ![s].at = "scanned"]
       ELSE LET base == Last(answer.hops)
            IN scan' = [scan EXCEPT ![s] = Onward(
                 [@ EXCEPT !.host = MerchantOf[base.site],
                           !.got = ForEach(KeepLast, <<>>, extractProducts(answer.nodes, base)),
                           !.links = First(maxProductPages, extractLinks(answer.hrefs, base))])]
  /\ UNCHANGED <<browser, listing, prices>>

\* A link that cannot be fetched is a warning.
FetchLink(s) ==
  /\ At(s, "links")
  /\ \E answer \in LinkPage \cup {Failed} :
       LET q == scan[s]
           found == IF answer = Failed THEN <<>> ELSE extractProducts(answer, Head(q.links))
       IN scan' = [scan EXCEPT ![s] = Onward(
            [q EXCEPT !.links = Tail(@), !.got = ForEach(KeepFirst, @, found)])]
  /\ UNCHANGED <<browser, listing, prices>>

\* The loop's `break`s: no page, an empty or a short one, enough products, or the last page.
LastPage(q, answer, got) ==
  \/ answer \in {Failed, <<>>}
  \/ Len(answer) < pageLimit
  \/ Len(got) >= maxProducts
  \/ q.page = maxPages

\* Mutant of Turn: a path that gave nothing is tried again.
TurnBack(q, answer, collected, result, heard) ==
  IF ~LastPage(q, answer, collected)
  THEN [q EXCEPT !.page = @ + 1, !.got = collected, !.heard = heard]
  ELSE IF result = <<>>
  THEN [q EXCEPT !.page = 1, !.got = <<>>, !.heard = <<>>]
  ELSE [q EXCEPT !.at = IF @ = "feed" THEN "scanned" ELSE "browsed",
                 !.got = result, !.heard = heard]

\* The next page, the other path if this one gave nothing, or back to the caller.
Turn(q, answer, collected, result, heard) ==
  IF ~LastPage(q, answer, collected)
  THEN [q EXCEPT !.page = @ + 1, !.got = collected, !.heard = heard]
  ELSE IF result = <<>> /\ q.feed < Feeds
  THEN [q EXCEPT !.feed = @ + 1, !.page = 1, !.got = <<>>, !.heard = <<>>]
  ELSE [q EXCEPT !.at = IF @ = "feed" THEN "scanned" ELSE "browsed",
                 !.got = result, !.heard = heard]

\* fetchShopifyProductsJson: every page's products, deduplicated again across pages.
FetchFeed(s) ==
  /\ At(s, "feed")
  /\ \E answer \in FeedPage \cup {Failed} :
       LET q == scan[s]
           collected == IF answer = Failed THEN q.got ELSE q.got \o extractShopifyProducts(answer)
           heard == IF answer = Failed THEN q.heard ELSE q.heard \o Scanned(answer)
           result == First(maxProducts, dedupeShopifyProducts(collected))
       IN scan' = [scan EXCEPT ![s] = Turn(q, answer, collected, result, heard)]
  /\ UNCHANGED <<browser, listing, prices>>

-----------------------------------------------------------------------------
(* What comes of a scan.                                                   *)

\* toFeedProducts: what has no real price is not listed.
toFeedProducts(products) == Keep(products, {p \in ToSet(products) : p.price > 0})

\* The transaction of POST /stores/onboard, upsertMerchant and upsertStoreCatalog.
Publish(s, products) ==
  /\ listing' = [listing EXCEPT ![scan[s].host] = products]
  /\ prices' = [prices EXCEPT ![scan[s].host] = Li!PricesOf(products)]
  /\ scan' = [scan EXCEPT ![s] = Ended("done")]

\* The route: a scan that threw, or found nothing it can list, falls through to the browser.
Scanned_Onboard(s) ==
  /\ At(s, "scanned") /\ scan[s].by = "onboard"
  /\ LET products == toFeedProducts(scan[s].got)
     IN IF products # <<>> THEN Publish(s, products)
        ELSE /\ scan' = [scan EXCEPT ![s] = [@ EXCEPT !.at = "browser", !.feed = 1, !.page = 1,
                                                       !.got = <<>>, !.heard = <<>>]]
             /\ UNCHANGED <<listing, prices>>
  /\ UNCHANGED browser

\* runInit: nothing found is a failure; the surface is written; --register posts the prices.
Scanned_Init(s) ==
  /\ At(s, "scanned") /\ scan[s].by = "init"
  /\ scan' = [scan EXCEPT ![s] =
       IF @.got = <<>> THEN Ended("failed")
       ELSE IF @.register THEN [@ EXCEPT !.at = "registering", !.heard = <<>>]
       ELSE Ended("done")]
  /\ UNCHANGED <<browser, listing, prices>>

\* Mutant of RegisterMerchant: the route replaces the prices it finds.
RegisterMerchantAgain(s) ==
  /\ At(s, "registering")
  /\ LET q == scan[s]
         refused == \E i \in DOMAIN q.got : q.got[i].price = 0
     IN /\ scan' = [scan EXCEPT ![s] = Ended(IF refused THEN "failed" ELSE "done")]
        /\ prices' = IF refused THEN prices ELSE [prices EXCEPT ![q.host] = Li!PricesOf(q.got)]
  /\ UNCHANGED <<browser, listing>>

\* POST /admin/merchants: refuses a price that is not positive; create-only, a 409 is no failure.
RegisterMerchant(s) ==
  /\ At(s, "registering")
  /\ LET q == scan[s]
         refused == \E i \in DOMAIN q.got : q.got[i].price = 0
     IN /\ scan' = [scan EXCEPT ![s] = Ended(IF refused THEN "failed" ELSE "done")]
        /\ prices' = IF refused \/ prices[q.host] # NoPrices THEN prices
                     ELSE [prices EXCEPT ![q.host] = Li!PricesOf(q.got)]
  /\ UNCHANGED <<browser, listing>>

\* The facilitator cannot be reached from the CLI.
RegisterUnreachable(s) ==
  /\ At(s, "registering")
  /\ scan' = [scan EXCEPT ![s] = Ended("failed")]
  /\ UNCHANGED <<browser, listing, prices>>

-----------------------------------------------------------------------------
(* The browser.                                                            *)

\* getBrowser keeps what the first launch gave, a rejection too.
Launched == IF browser = "unset" THEN {"up", "rejected"} ELSE {browser}

\* browserScanPath: no browser is no page; a sku seen on an earlier page is dropped.
FetchBrowser(s) ==
  /\ At(s, "browser")
  /\ \E b \in Launched, answer \in FeedPage \cup {Failed} :
       LET q == scan[s]
           collected == IF answer = Failed THEN q.got
                        ELSE ForEach(KeepFirst, q.got, extractShopifyProducts(answer))
       IN /\ b = "rejected" => answer = Failed
          /\ browser' = b
          /\ scan' = [scan EXCEPT ![s] =
               Turn(q, answer, collected, First(maxProducts, collected), <<>>)]
  /\ UNCHANGED <<listing, prices>>

\* The route again: nothing to list writes nothing.
Browsed(s) ==
  /\ At(s, "browsed")
  /\ LET products == toFeedProducts(scan[s].got)
     IN IF products # <<>> THEN Publish(s, products)
        ELSE scan' = [scan EXCEPT ![s] = Ended("failed")] /\ UNCHANGED <<listing, prices>>
  /\ UNCHANGED browser

\* The facilitator restarts: its requests are gone, its browser with them.
Restart ==
  /\ scan' = [s \in Scan |->
       IF scan[s].at \notin {"idle", "done", "failed"} /\ scan[s].by = "onboard"
       THEN Ended("failed") ELSE scan[s]]
  /\ browser' = "unset"
  /\ UNCHANGED <<listing, prices>>

Step(s) ==
  \/ FetchHome(s) \/ FetchLink(s) \/ FetchFeed(s)
  \/ Scanned_Onboard(s) \/ Scanned_Init(s) \/ RegisterMerchant(s)
  \/ FetchBrowser(s) \/ Browsed(s)

Next == Restart \/ \E s \in Scan : Begin(s) \/ Step(s) \/ RegisterUnreachable(s)

\* Every fetch is timed out, so a scan's next step comes.
Spec == Init /\ [][Next]_vars /\ \A s \in Scan : WF_vars(Step(s))

-----------------------------------------------------------------------------
(* What must hold.                                                         *)

\* The store is listed, and its prices registered, as Listing promises: together, only to
\* a list a buyer can shop from, whatever scans run at once, fail or are cut off by a restart.
KeepsListing == Li!Spec

\* Whatever the pages of the feed repeat, and in whatever order: no handle but that of a shadow
\* of another product is lost short of the cap, and what any record had in stock is in stock
\* (mergeDuplicateShopifyProduct: a stale "unavailable" must not override an "available").
\* The browser's scan merges no stock - the first record of a product stays - and is not meant.
StockKept ==
  \A s \in Scan : At(s, "scanned") =>
    LET got == ToSet(scan[s].got)
        heard == scan[s].heard
    IN \A r \in ToSet(heard) :
         \/ \E t \in ToSet(heard) : t.sku = r.sku /\ Shadow(t, heard)
         \/ Cardinality(got) = maxProducts
         \/ \E p \in got :
              /\ p.sku = r.sku
              /\ r.stock => p.stock
              /\ \A v \in ToSet(r.variants) : v.stock =>
                   \E w \in ToSet(p.variants) : w.id = v.id /\ w.stock

\* Every scan comes to an end: its pages, links and paths are finitely many, and every fetch
\* is answered or timed out.
ScanEnds == \A s \in Scan : At(s, "home") ~> scan[s].at \in {"done", "failed"}
=============================================================================
