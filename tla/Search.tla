------------------------------- MODULE Search --------------------------------
(***************************************************************************)
(* How an agent finds what the stores list: GET /catalog/search, the       *)
(* upsell route, and the MCP server's tools over them.  Pure functions of  *)
(* the listings of Catalogue.  What a product says in its title, brand and *)
(* description goes with its name; a string is known by how it matches.    *)
(***************************************************************************)
EXTENDS Catalogue

CONSTANTS
  Query,        \* what is searched for
  Whole,        \* per query, name and field: "exact", "part" of it, or "none"
  TokenHits,    \* per query, name and field: the query's words that are in it
  Brand,        \* per name, or Absent
  TitleTokens,  \* per name: the significant words of its title
  Collation,    \* merchant ids and skus as JavaScript's < orders them
  SearchLimit, UpsellLimit, ToolLimit

Field == {"title", "brand", "description"}

ASSUME SearchAssumption ==
  /\ \A q \in Query, name \in Name, f \in Field :
       /\ Whole[q][name][f] \in {"exact", "part", "none"}
       /\ TokenHits[q][name][f] \in Nat
  /\ \A name \in Name : IsFiniteSet(TitleTokens[name])
  /\ Absent \notin Query /\ IsFiniteSet(Host)
  /\ Host \cup Sku \subseteq DOMAIN Collation
  /\ \A a, b \in DOMAIN Collation : Collation[a] \in Nat /\ (Collation[a] = Collation[b] => a = b)
  /\ {SearchLimit, UpsellLimit, ToolLimit} \subseteq Nat

Carries(h) == listing[h] # NoListing

\* toFeedProducts: a product names its merchant.
FeedOf(h) == [i \in DOMAIN listing[h] |-> [merchant |-> h, product |-> listing[h][i]]]

\* loadCatalogProducts.  Rows that were created in the same second come in any order.
loadCatalogProducts(order) == ForEach(LAMBDA all, h : all \o FeedOf(h), <<>>, order)

-----------------------------------------------------------------------------
(* Ranking.                                                                *)

FIELD_WEIGHTS == [title |-> 3, brand |-> 2, description |-> 1]

FieldScore(whole, tokens) ==
  tokens + CASE whole = "exact" -> 10 [] whole = "part" -> 5 [] whole = "none" -> 0

scoreProduct(found, q) ==
  LET score(f) == FIELD_WEIGHTS[f] *
        FieldScore(Whole[q][found.product.name][f], TokenHits[q][found.product.name][f])
  IN score("title") + score("brand") + score("description")

\* Mutant of compareRanked: a tie is left as it comes.
CompareUnbroken(a, b) == a.score > b.score

\* compareRanked: by score, then merchant, then sku.
compareRanked(a, b) ==
  LET merchant(e) == Collation[e.found.merchant]
      sku(e) == Collation[e.found.product.sku]
  IN \/ a.score > b.score
     \/ a.score = b.score /\ merchant(a) < merchant(b)
     \/ a.score = b.score /\ merchant(a) = merchant(b) /\ sku(a) < sku(b)

\* Array.sort is stable: each goes before the first that it precedes.
Enter(sorted, e) ==
  LET later == {i \in DOMAIN sorted : compareRanked(e, sorted[i])}
  IN IF later = {} THEN Append(sorted, e) ELSE InsertAt(sorted, Min(later), e)

\* Of scored entries, those that match nowhere dropped, sorted and cut.
Ranked(entries, limit) ==
  LET matching == Keep(entries, {e \in ToSet(entries) : e.score > 0})
      results == First(limit, ForEach(Enter, <<>>, matching))
  IN [i \in DOMAIN results |-> results[i].found]

-----------------------------------------------------------------------------
(* The routes and the tools.                                               *)

\* GET /catalog/search; maxPrice may be Absent.
searchCatalog(order, q, maxPrice, inStockOnly) ==
  LET all == loadCatalogProducts(order)
      found == Keep(all, {f \in ToSet(all) : /\ maxPrice = Absent \/ f.product.price <= maxPrice
                                             /\ inStockOnly => f.product.stock})
  IN Ranked([i \in DOMAIN found |-> [found |-> found[i], score |-> scoreProduct(found[i], q)]],
            SearchLimit)

\* scoreComplement: a brand they share, and each significant word.
scoreComplement(base, found) ==
  (IF Brand[base.name] # Absent /\ Brand[base.name] = Brand[found.product.name] THEN 10 ELSE 0)
  + 3 * Cardinality(TitleTokens[base.name] \cap TitleTokens[found.product.name])

\* GET /catalog/:merchant_id/upsell: what goes with a product, of one merchant.
getUpsell(h, sku) ==
  IF ~Carries(h) \/ IndexOf(listing[h], sku) = {} THEN Failed
  ELSE LET base == listing[h][Min(IndexOf(listing[h], sku))]
           found == Keep(FeedOf(h), {f \in ToSet(FeedOf(h)) : f.product.sku # sku /\ f.product.stock})
       IN Ranked([i \in DOMAIN found |->
                    [found |-> found[i], score |-> scoreComplement(base, found[i])]], UpsellLimit)

\* What a tool shows of a product: its variants, if it has any, are summed up.
summarizeVariants(variants) ==
  LET cost == {v.price : v \in ToSet(variants)}
  IN [variant_count |-> Len(variants),
      min |-> CHOOSE p \in cost : \A r \in cost : p <= r,
      max |-> CHOOSE p \in cost : \A r \in cost : p >= r,
      in_stock_count |-> Len(Keep(variants, {v \in ToSet(variants) : v.stock}))]

Shown(found) ==
  [merchant |-> found.merchant, sku |-> found.product.sku, price |-> found.product.price,
   stock |-> found.product.stock,
   variants |-> IF found.product.variants = <<>> THEN Absent
                ELSE summarizeVariants(found.product.variants)]

\* search_catalog and get_upsell show what the routes found.
ShownAll(results) == [i \in DOMAIN results |-> Shown(results[i])]

\* search_products: of one merchant, by title or brand; all of it without a query.
searchProducts(h, q) ==
  LET Says(found) == \E f \in {"title", "brand"} : Whole[q][found.product.name][f] # "none"
      matches == IF q = Absent THEN FeedOf(h) ELSE Keep(FeedOf(h), {f \in ToSet(FeedOf(h)) : Says(f)})
  IN [matched |-> Len(matches), products |-> ShownAll(First(ToolLimit, matches))]

\* list_stores and get_store_info.
listStores == {h \in Host : Carries(h)}
storeInfo(h) ==
  [product_count |-> Len(listing[h]),
   in_stock_count |-> Len(Keep(listing[h], {p \in ToSet(listing[h]) : p.stock}))]

-----------------------------------------------------------------------------
(* What must hold.                                                         *)

\* catalog-search.ts: "the same (query, catalog) pair always ranks identically" - in whatever
\* order SQLite returns stores that were onboarded within one second, whatever scans ran.  What
\* is shown can be bought: its store lists it once, and the gate knows the price that was shown.
\* The tool that searches one store finds nothing the search across stores does not find there
\* (short of the search's limit, which cuts by rank where the tool cuts by place),
\* and what is suggested with a product is something else the store has.
SearchSettled ==
  /\ \A q \in Query, maxPrice \in {Absent, 1}, inStockOnly \in BOOLEAN :
       LET Answer(order) == searchCatalog(order, q, maxPrice, inStockOnly)
           shown == ShownAll(Answer(SetToSeq(listStores)))
       IN /\ \A order \in SetToSeqs(listStores) : ShownAll(Answer(order)) = shown
          /\ \A i \in DOMAIN shown :
               /\ Cardinality(IndexOf(listing[shown[i].merchant], shown[i].sku)) = 1
               /\ prices[shown[i].merchant][shown[i].sku] = shown[i].price
  /\ \A h \in listStores :
       /\ Len(listing[h]) <= SearchLimit => \A q \in Query :
            ToSet(searchProducts(h, q).products) \subseteq
              ToSet(ShownAll(searchCatalog(<<h>>, q, Absent, FALSE)))
       /\ \A p \in ToSet(listing[h]) :
            LET more == ShownAll(getUpsell(h, p.sku))
            IN /\ Len(more) <= storeInfo(h).in_stock_count
               /\ \A i \in DOMAIN more : more[i].stock /\ more[i].sku # p.sku
=============================================================================
