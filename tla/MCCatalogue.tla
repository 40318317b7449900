----------------------------- MODULE MCCatalogue -----------------------------
(***************************************************************************)
(* Small instances of Catalogue for TLC: two spellings of one store and    *)
(* another it may redirect to; a shoe in two sizes and its cart's shadow.  *)
(***************************************************************************)
EXTENDS Search

MCMerchantOf == [site \in Site |-> IF site = "b" THEN "B" ELSE "A"]
MCBaseHandle == [sku \in {"shoe", "shoe-cart", "sock", "/p", "/q"} |->
                   IF sku = "shoe-cart" THEN "shoe" ELSE sku]

At1(site, path) == [site |-> site, path |-> path]
Node(sku, price) == [sku |-> sku, name |-> "n", price |-> price, stock |-> TRUE]
Home(hops, nodes, hrefs) == [hops |-> hops, nodes |-> nodes, hrefs |-> hrefs]

MCHomePage ==
  {Home(<<At1("a", "/")>>, <<>>, <<>>),
   Home(<<At1("a", "/")>>, <<>>, <<At1("a", "/p"), At1("a", "/cart"), At1("a", "/p"),
                                   At1("b", "/p"), At1("a", "/q")>>),
   Home(<<At1("a", "/")>>, <<Node("shoe", 2), Node("sock", Absent), Node("shoe", 1)>>, <<>>),
   Home(<<At1("www.a", "/"), At1("a", "/")>>, <<Node("sock", 0)>>, <<>>),
   Home(<<At1("www.a", "/"), At1("b", "/")>>, <<>>, <<>>),
   Home(<<At1("www.a", "/"), At1("a", "/"), At1("b", "/")>>, <<Node("shoe", 1)>>, <<>>),
   Home(<<At1("a", "/"), At1("inside", "/")>>, <<Node("shoe", 1)>>, <<>>)}

MCLinkPage == {<<>>, <<Node(Absent, 1)>>, <<Node("shoe", 0)>>}

Variant(id, price, stock) == [id |-> id, price |-> price, stock |-> stock]
Record(sku, name, variants) == [sku |-> sku, name |-> name, variants |-> variants]
Shoe(s1, s2) == Record("shoe", "n", <<Variant("v1", 1, s1), Variant("v2", 2, s2)>>)
Sock(stock) == Record("sock", "m", <<Variant("w", 1, stock)>>)

MCFeedPage ==
  {<<>>, <<Sock(TRUE)>>,
   <<Shoe(TRUE, FALSE), Sock(FALSE)>>,
   <<Record("shoe-cart", "n", <<Variant("u", 1, TRUE)>>), Shoe(FALSE, FALSE)>>}

\* Two words that are the shoe's title, and a word of the sock's description.
Hits(title, brand, description) ==
  [title |-> title, brand |-> brand, description |-> description]
MCWhole ==
  [running |-> [n |-> Hits("exact", "none", "part"), m |-> Hits("none", "none", "none")],
   cotton  |-> [n |-> Hits("none", "part", "none"), m |-> Hits("none", "none", "part")]]
MCTokenHits ==
  [running |-> [n |-> Hits(2, 0, 2), m |-> Hits(0, 0, 1)],
   cotton  |-> [n |-> Hits(0, 1, 0), m |-> Hits(0, 0, 1)]]
MCBrand == [n |-> "b", m |-> "b"]
MCTitleTokens == [n |-> {"running", "shoe"}, m |-> {"sock"}]
MCCollation ==
  LET sorted == <<"/", "/cart", "/p", "/q", "A", "B", "shoe", "shoe-cart", "sock">>
  IN [name \in ToSet(sorted) |-> CHOOSE i \in DOMAIN sorted : sorted[i] = name]
=============================================================================
