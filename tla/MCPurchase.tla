----------------------------- MODULE MCPurchase ------------------------------
(***************************************************************************)
(* Small instances of Purchase for TLC: a shoe in two sizes and a sock,    *)
(* and the same store after its prices have moved.                         *)
(***************************************************************************)
EXTENDS Purchase

Tool(token, values, variant, max) ==
  [by |-> "tool", token |-> token, sku |-> "shoe", qty |-> 1, values |-> values,
   variant |-> variant, text |-> Absent, max |-> max]
ByText(text) ==
  [by |-> "tool", token |-> Absent, sku |-> "shoe", qty |-> 2, values |-> <<>>,
   variant |-> Absent, text |-> text, max |-> Absent]
Brain(by, query) == [by |-> by, token |-> Absent, query |-> query, ceiling |-> 3]

\* One purchase and its retries; anything else is asked for alone.
Retried ==
  {Tool("t", <<"Red", "M">>, Absent, Absent), Tool("t", <<>>, Absent, 3), Tool("t", <<>>, "v2", Absent)}
Unsound == [ByText("Red") EXCEPT !.qty = 0]
Others ==
  {Unsound, Tool(Absent, <<"Red", "Red">>, Absent, Absent), ByText("Red"), ByText("ed"), Brain("scripted", {"shoe", "sock"}),
   Brain("llm", {}), Brain("claude", {"shoe"}), Brain("fooled", {}), Brain("page", {})}

Variant(id, values, price, stock) ==
  [id |-> id, label |-> id, values |-> values, price |-> price, stock |-> stock]
Shoe(price) ==
  [sku |-> "shoe", name |-> "n", price |-> price, stock |-> TRUE,
   variants |-> <<Variant("v1", <<"M", "Red">>, price, TRUE),
                  Variant("v2", <<"M", "M">>, 4, TRUE)>>]
Sock(stock) == [sku |-> "sock", name |-> "m", price |-> 2, stock |-> stock, variants |-> <<>>]
MCPublished == {<<Shoe(3), Sock(FALSE)>>, <<Shoe(4), Sock(TRUE)>>}
MCReply == {[sku |-> "shoe", variant |-> "v2"], [sku |-> "sock", variant |-> Absent]}
MCPoison == [sku |-> "poison", price |-> 2]
MCWithin == {<<"ed", "Red">>, <<"v", "v1">>, <<"v", "v2">>}

\* A purchase and its retry, under a limit.
Once == {Tool("t", <<>>, Absent, 3)}
MCErrand == Retried \cup Others

Symmetry == Permutations(Call)
=============================================================================
