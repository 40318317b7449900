---------------------------- MODULE MandateGate -----------------------------
(***************************************************************************)
(* The verification gate of packages/core (verify.ts): a pure function of  *)
(* an intent, a cart and a context.  Its checks run in a fixed order and   *)
(* the first one that fails is the verdict.                                *)
(*                                                                         *)
(* A signature is the key that made it, a hash is the thing hashed, and    *)
(* structural validity is one bit.                                         *)
(*   intent: wellFormed, mandate, version, signer, agent, currency,        *)
(*           merchants, skus ({} when the human pinned none), expires,     *)
(*           ceiling, threshold, line (cumulative threshold or NoLimit),   *)
(*           limits (per merchant, NoLimit where none is set)              *)
(*   cart:   wellFormed, id, intent (the version it is linked to), signer, *)
(*           merchant, items (sku, qty, price), total                      *)
(*   ctx:    credential, now, revoked, spent, merchantSpent, duplicate,    *)
(*           prices (per merchant and sku, NoPrice where none is known)    *)
(***************************************************************************)
EXTENDS Naturals, Sequences, FiniteSets, Functions

CONSTANTS NoLimit, NoPrice, NoCredential,
          clockSkewSec   \* grace on expires_at

ASSUME GateAssumption == clockSkewSec \in Nat

\* The codes verifyChain produces (ALLOWANCE_RESERVED is the route's).
RejectionCode ==
  {"SCHEMA_INVALID", "MANDATE_UNKNOWN", "SIG_INVALID_INTENT", "HASH_LINK_MISMATCH",
   "SIG_INVALID_CART", "LINE_ITEM_INVALID", "PRICE_MISMATCH", "CURRENCY_MISMATCH",
   "MERCHANT_NOT_IN_SCOPE", "MANDATE_EXPIRED", "MANDATE_REVOKED", "GOAL_MISMATCH",
   "AMOUNT_EXCEEDS_CEILING", "MERCHANT_LIMIT_EXCEEDED", "DUPLICATE_CART"}

Items(cart) == {cart.items[i] : i \in DOMAIN cart.items}
RecomputedTotal(cart) ==
  SumFunction([i \in DOMAIN cart.items |-> cart.items[i].qty * cart.items[i].price])

\* Mutant of OverCeiling: each cart is measured alone.
OverCeilingPerCart(intent, cart, ctx) == cart.total > intent.ceiling
OverCeiling(intent, cart, ctx) == ctx.spent + cart.total > intent.ceiling

\* Mutant of OverMerchantLimit: each cart is measured alone.
OverMerchantLimitPerCart(intent, cart, ctx) ==
  LET limit == intent.limits[cart.merchant] IN limit # NoLimit /\ cart.total > limit
OverMerchantLimit(intent, cart, ctx) ==
  LET limit == intent.limits[cart.merchant]
  IN limit # NoLimit /\ ctx.merchantSpent + cart.total > limit

Expired(intent, ctx) == ctx.now > intent.expires + clockSkewSec

\* The checks of verifyChain, in its order.
Fails(code, intent, cart, ctx) ==
  \/ code = "SCHEMA_INVALID" /\ ~(intent.wellFormed /\ cart.wellFormed)
  \/ code = "MANDATE_UNKNOWN" /\ ctx.credential = NoCredential
  \/ code = "SIG_INVALID_INTENT" /\ intent.signer # ctx.credential
  \/ code = "HASH_LINK_MISMATCH" /\ cart.intent # intent.version
  \/ code = "SIG_INVALID_CART" /\ cart.signer # intent.agent
  \/ code = "LINE_ITEM_INVALID" /\ RecomputedTotal(cart) # cart.total
  \/ code = "PRICE_MISMATCH" /\
       LET price == ctx.prices[cart.merchant] IN
       /\ price # NoPrice
       /\ \E item \in Items(cart) : item.sku \notin DOMAIN price \/ price[item.sku] # item.price
  \/ code = "CURRENCY_MISMATCH" /\ intent.currency # "INR"
  \/ code = "MERCHANT_NOT_IN_SCOPE" /\ cart.merchant \notin intent.merchants
  \/ code = "MANDATE_EXPIRED" /\ Expired(intent, ctx)
  \/ code = "MANDATE_REVOKED" /\ ctx.revoked
  \/ code = "GOAL_MISMATCH" /\
       intent.skus # {} /\ \E item \in Items(cart) : item.sku \notin intent.skus
  \/ code = "AMOUNT_EXCEEDS_CEILING" /\ OverCeiling(intent, cart, ctx)
  \/ code = "MERCHANT_LIMIT_EXCEEDED" /\ OverMerchantLimit(intent, cart, ctx)
  \/ code = "DUPLICATE_CART" /\ ctx.duplicate

\* Mutant of CheckOrder: the ceiling is checked before the mandate is known to live.
CheckOrderBudgetFirst ==
  <<"SCHEMA_INVALID", "MANDATE_UNKNOWN", "SIG_INVALID_INTENT", "HASH_LINK_MISMATCH",
    "SIG_INVALID_CART", "LINE_ITEM_INVALID", "PRICE_MISMATCH", "CURRENCY_MISMATCH",
    "MERCHANT_NOT_IN_SCOPE", "AMOUNT_EXCEEDS_CEILING", "MERCHANT_LIMIT_EXCEEDED",
    "MANDATE_EXPIRED", "MANDATE_REVOKED", "GOAL_MISMATCH", "DUPLICATE_CART">>

CheckOrder ==
  <<"SCHEMA_INVALID", "MANDATE_UNKNOWN", "SIG_INVALID_INTENT", "HASH_LINK_MISMATCH",
    "SIG_INVALID_CART", "LINE_ITEM_INVALID", "PRICE_MISMATCH", "CURRENCY_MISMATCH",
    "MERCHANT_NOT_IN_SCOPE", "MANDATE_EXPIRED", "MANDATE_REVOKED", "GOAL_MISMATCH",
    "AMOUNT_EXCEEDS_CEILING", "MERCHANT_LIMIT_EXCEEDED", "DUPLICATE_CART">>

Accepts(intent, cart, ctx) == \A code \in RejectionCode : ~Fails(code, intent, cart, ctx)

\* The reason a refusal reports.
Reason(intent, cart, ctx) ==
  LET Failing(i) == Fails(CheckOrder[i], intent, cart, ctx)
      first == CHOOSE i \in DOMAIN CheckOrder :
                 Failing(i) /\ \A j \in 1 .. i - 1 : ~Failing(j)
  IN CheckOrder[first]

\* Above the per-cart threshold, or past the cumulative one.
NeedsApproval(intent, cart, ctx) ==
  \/ cart.total > intent.threshold
  \/ intent.line # NoLimit /\ ctx.spent + cart.total > intent.line
=============================================================================
