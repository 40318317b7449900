------------------------------- MODULE Listing -------------------------------
(***************************************************************************)
(* What a store's onboarding promises its buyers and the gate: the list    *)
(* agents shop from (store_catalogs) and the prices the gate compares a    *)
(* cart with (merchants.config_json) change together, and only to a sound  *)
(* list.  Prices registered by hand are for a store that has no list yet.  *)
(***************************************************************************)
EXTENDS Naturals, Sequences

CONSTANTS Host, NoListing, NoPrices

VARIABLES listing, prices

vars == <<listing, prices>>

Skus(products) == {products[i].sku : i \in DOMAIN products}

\* catalogPrices: one price per sku, that of the product, whatever its variants cost.
PricesOf(products) ==
  [sku \in Skus(products) |->
     LET last == CHOOSE i \in DOMAIN products :
                   products[i].sku = sku /\ \A j \in DOMAIN products : products[j].sku = sku => j <= i
     IN products[last].price]

\* A list a buyer can shop from: something on it, each thing once, at a real price.
Sound(products) ==
  /\ products # <<>>
  /\ \A i \in DOMAIN products : products[i].price > 0
  /\ \A i, j \in DOMAIN products : products[i].sku = products[j].sku => i = j

Init ==
  /\ listing = [h \in Host |-> NoListing]
  /\ prices = [h \in Host |-> NoPrices]

Publish(h, products) ==
  /\ Sound(products)
  /\ listing' = [listing EXCEPT ![h] = products]
  /\ prices' = [prices EXCEPT ![h] = PricesOf(products)]

RegisterPrices(h) ==
  /\ prices[h] = NoPrices /\ listing[h] = NoListing
  /\ \A g \in Host \ {h} : prices'[g] = prices[g]
  /\ UNCHANGED listing

Next ==
  \E h \in Host :
    \/ listing'[h] # listing[h] /\ Publish(h, listing'[h])
    \/ RegisterPrices(h)

Spec == Init /\ [][Next]_vars
=============================================================================
