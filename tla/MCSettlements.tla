--------------------------- MODULE MCSettlements ----------------------------
(***************************************************************************)
(* Small instances of Settlements for TLC: one mandate signed in two       *)
(* versions, of which either may be the registered one, and carts that     *)
(* together pass the thresholds, the ceiling and a merchant's limit.       *)
(***************************************************************************)
EXTENDS Settlements, TLC

CONSTANTS m1, x, y, z

MCMandate == {m1}
MCMerchant == {x, y, z}
MCPrices == [merchant \in MCMerchant |-> IF merchant = x THEN "sku" :> 1 ELSE NoPrice]

\* The human's intent: ceiling 4, approval above 2 a cart or 3 in all, 2 at merchant x.
Thrifty ==
  [wellFormed |-> TRUE, mandate |-> m1, version |-> "thrifty", signer |-> "human",
   agent |-> "agent", currency |-> "INR", merchants |-> {x, y}, skus |-> {"sku"},
   expires |-> 1, ceiling |-> 4, threshold |-> 2, line |-> 3,
   limits |-> [merchant \in MCMerchant |-> IF merchant = x THEN 2 ELSE NoLimit]]

\* Another version of it that the human also signed: no lines, a larger wallet.
Lavish == [Thrifty EXCEPT !.version = "lavish", !.ceiling = 9, !.threshold = 9,
                          !.line = NoLimit, !.limits[x] = NoLimit]
MCIntent == {Thrifty, Lavish}

\* A cart as the agent signs it for an intent.
CartFor(intent, id, merchant, total) ==
  [wellFormed |-> TRUE, id |-> id, intent |-> intent.version, signer |-> "agent",
   merchant |-> merchant, items |-> <<[sku |-> "sku", qty |-> total, price |-> 1]>>,
   total |-> total]
Body(intent, id, merchant, total) ==
  [intent |-> intent, cart |-> CartFor(intent, id, merchant, total)]

\* Out of scope; signed by another key; a price that is not the catalogue's.
Refused ==
  LET body == Body(Thrifty, 6, x, 1) IN
  {Body(Thrifty, 6, z, 1), [body EXCEPT !.cart.signer = "other"],
   [body EXCEPT !.cart.items = <<[sku |-> "sku", qty |-> 2, price |-> 2]>>, !.cart.total = 4]}
MCRequest ==
  {Body(Thrifty, 1, x, 2), Body(Thrifty, 2, x, 1), Body(Thrifty, 3, y, 2),
   Body(Thrifty, 4, y, 3), Body(Lavish, 5, x, 4)} \cup Refused

KeySymmetry == Permutations(Key)
=============================================================================
