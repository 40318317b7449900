------------------------------ MODULE Purchase ------------------------------
(***************************************************************************)
(* How an agent buys: the MCP server's request_purchase, the three buyer   *)
(* brains and the dashboard's test purchase.  Each reads the catalogue,    *)
(* picks, signs a cart, posts it and polls; the store is scanned again,    *)
(* the mandate revoked, an answer lost and a purchase retried meanwhile.   *)
(* The facilitator is what Settlements and Execution make of it: a key     *)
(* table, and rows that move along the edges of the state machine.         *)
(***************************************************************************)
EXTENDS Integers, FiniteSets, TLC, SequencesExt, StateMachine

CONSTANTS
  Call,        \* purchases attempted (a bound)
  Errand,      \* what each is asked to buy, and by which code
  Reply,       \* what a model may answer: [sku, variant]
  Published,   \* the lists a scan of the store may publish
  Store,       \* the one merchant the mandate names
  Within,      \* pairs <<needle, text>>: the one is part of the other
  Poison,      \* what the demo's poisoned listing tells a brain to buy: [sku, price]
  Absent, NoListing, NoPrices

ASSUME PurchaseAssumption ==
  /\ Absent \notin Call
  /\ \A e \in Errand : /\ e.by \in {"tool", "scripted", "llm", "claude", "fooled", "page"}
                       /\ e.by # "tool" => e.token = Absent   \* only the tool takes one
                       /\ e.by = "tool" => /\ e.values \in Seq(ToSet(e.values)) /\ e.qty \in Int
                                          /\ e.max \in Int \cup {Absent}
  /\ \A products \in Published :
       /\ products \in Seq(ToSet(products))
       /\ \A i \in DOMAIN products :
            LET variants == products[i].variants
            IN /\ variants \in Seq(ToSet(variants))
               /\ \A v \in ToSet(variants) : v # Absent /\ IsFiniteSet(DOMAIN v.values)
               /\ {p.price : p \in {products[i]} \cup ToSet(variants)} \subseteq Nat
  /\ Absent \notin [ok : BOOLEAN, sid : Nat, state : SettlementState \cup {"none", "contested"}]

VARIABLES
  listing, prices,   \* store_catalogs and merchants.config_json
  revoked,           \* the mandate's revoked_at
  keys,              \* idempotency_keys: [key, body, answer], answer absent while locked
  rows,              \* settlements, by settlement id
  net,               \* requests to POST /settlements under way
  call               \* each attempt's local variables, and where it awaits

vars == <<listing, prices, revoked, keys, rows, net, call>>
store == <<listing, prices>>

Li == INSTANCE Listing WITH Host <- {Store}

Idle == [step |-> "idle"]

Init ==
  /\ Li!Init /\ revoked = FALSE
  /\ keys = {} /\ rows = <<>> /\ net = {}
  /\ call = [c \in Call |-> Idle]

-----------------------------------------------------------------------------
(* Choosing.                                                               *)

\* The products an agent reads: GET /catalog answers 404 for a store that is not listed.
Shelf == IF listing[Store] = NoListing THEN <<>> ELSE listing[Store]
Listed == listing[Store] # NoListing

\* Array.find: the first that passes, as a sequence of it alone; empty if none does.
Found(s, Test(_)) ==
  LET at == {i \in DOMAIN s : Test(s[i])} IN IF at = {} THEN <<>> ELSE <<s[Min(at)]>>

\* Array.filter, where only a single one that passes will do.
Only(s, Test(_)) ==
  IF \A i, j \in DOMAIN s : Test(s[i]) /\ Test(s[j]) => i = j THEN Found(s, Test) ELSE <<>>

Named(products, sku) == Found(products, LAMBDA p : p.sku = sku)

Affordable(p, ceiling) == p.stock /\ p.price <= ceiling

\* fallbackPick, cheapestInStock, pickProduct: the first of the cheapest it may buy, if any.
Cheapest(products, ceiling) ==
  Found(products, LAMBDA p : /\ Affordable(p, ceiling)
                             /\ \A q \in ToSet(products) : Affordable(q, ceiling) => p.price <= q.price)

\* parsePick keeps the sku of a model's answer and drops the variant.
parsePick(reply) == IF reply = Absent THEN Absent ELSE reply.sku

\* Mutant of resolveChoice: no OVER_CEILING.
ResolveUncapped(pick, candidates, ceiling) ==
  LET chosen == Named(candidates, pick)
  IN IF chosen # <<>> /\ Head(chosen).stock THEN chosen ELSE Cheapest(candidates, ceiling)

\* resolveChoice: a pick that is unknown, out of stock or too dear gives way to the cheapest.
resolveChoice(pick, candidates, ceiling) ==
  LET chosen == Named(candidates, pick)
  IN IF chosen # <<>> /\ Affordable(Head(chosen), ceiling) THEN chosen
     ELSE Cheapest(candidates, ceiling)

Count(x, s) == Cardinality({i \in DOMAIN s : s[i] = x})

\* Mutant of variantHasAllValues: two values may be found at one position.
HasEachValue(v, values) == ToSet(values) \subseteq ToSet(v.values)

\* Every value asked for, each at a position of its own.
variantHasAllValues(v, values) == \A x \in ToSet(values) : Count(x, values) <= Count(x, v.values)

\* An exact match, the first of several; else the only one that contains the text.
findVariantByText(variants, text) ==
  LET Texts(v) == ToSet(v.values) \cup {v.label}
      exact == Found(variants, LAMBDA v : text \in Texts(v))
  IN IF exact # <<>> THEN exact
     ELSE Only(variants, LAMBDA v : \E t \in Texts(v) : <<text, t>> \in Within)

\* The variant that answers a request, by id, by values or by text, in this order.
Match(variants, e) ==
  IF e.variant # Absent THEN Found(variants, LAMBDA v : v.id = e.variant)
  ELSE IF e.values # <<>> THEN Only(variants, LAMBDA v : variantHasAllValues(v, e.values))
  ELSE findVariantByText(variants, e.text)

Asks(e) == e.variant # Absent \/ e.values # <<>> \/ e.text # Absent

\* resolveVariant: the sequence of the variant to buy, which is Absent if none was asked for;
\* empty if what was asked for is not there, or is several things.
resolveVariant(product, e) == IF Asks(e) THEN Match(product.variants, e) ELSE <<Absent>>

-----------------------------------------------------------------------------
(* Posting a cart.                                                         *)

At(c, step) == call[c].step = step
By(c, kinds) == call[c].errand.by \in kinds

\* Mutant of IdempotencyKey: derived from the cart.
KeyOfCart(c, cart) == cart

\* A token the caller holds stable across retries, or a key of this call's own.
IdempotencyKey(c, cart) == IF call[c].errand.token = Absent THEN c ELSE call[c].errand.token

\* buildCartDraft, signCart: priced as the variant is, if there is one.
Cart(c, product, variant, qty) ==
  [id |-> IF call[c].errand.token = Absent THEN c ELSE call[c].errand.token,
   sku |-> product.sku, variant |-> variant, qty |-> qty,
   price |-> IF variant = Absent THEN product.price ELSE variant.price]

TotalOf(cart) == cart.qty * cart.price

\* `list` of a brain is what it picked from.
Post(c, cart, list) ==
  /\ call' = [call EXCEPT ![c] =
       [errand |-> @.errand, step |-> "posted", cart |-> cart, list |-> list]]
  /\ net' = net \cup {[call |-> c, key |-> IdempotencyKey(c, cart), body |-> cart]}

\* toOutcome of the three brains: what is neither captured nor pending is `blocked`, whether it
\* was refused, has failed, is still settling or met a contested key.
toOutcome(outcome) == IF outcome \in {"captured", "pending", "error"} THEN outcome ELSE "blocked"

\* request_purchase words each outcome; the page shows what the brains would (outcomeKind).
Reported(by, outcome) == IF by = "tool" THEN outcome ELSE toOutcome(outcome)

\* The attempt is over; what the caller is told of its outcome.
Told(q, outcome, sid) ==
  [errand |-> q.errand, step |-> "told", report |-> Reported(q.errand.by, outcome), sid |-> sid,
   cart |-> IF "cart" \in DOMAIN q THEN q.cart ELSE Absent,
   list |-> IF "list" \in DOMAIN q THEN q.list ELSE <<>>]
Tell(c, outcome, sid) == call' = [call EXCEPT ![c] = Told(@, outcome, sid)]

\* request_purchase's inputSchema: a positive quantity, and limit if any; a size and a colour.
WellFormed(e) ==
  /\ e.qty > 0 /\ Len(e.values) <= 2
  /\ e.max # Absent => e.max > 0

Begin(c) ==
  /\ call[c] = Idle
  /\ \E e \in Errand :
       call' = [call EXCEPT ![c] =
         IF e.by = "tool" /\ ~WellFormed(e) THEN Told([errand |-> e], "refused", 0)
         ELSE [errand |-> e, step |-> CASE e.by = "tool" -> "mandates"
                                        [] e.by = "page" -> "select"
                                        [] OTHER         -> "search"]]
  /\ UNCHANGED <<store, revoked, keys, rows, net>>

\* A read that fails, or answers with an error, is thrown out of the call.
FetchFails(c) ==
  /\ call[c].step \in {"mandates", "catalog", "search"} /\ Tell(c, "error", 0)
  /\ UNCHANGED <<store, revoked, keys, rows, net>>

-----------------------------------------------------------------------------
(* request_purchase.                                                       *)

\* findAuthorizedMandate, on the mandates as listed now.
ListMandates(c) ==
  /\ At(c, "mandates")
  /\ IF revoked THEN Tell(c, "refused", 0) ELSE call' = [call EXCEPT ![c].step = "catalog"]
  /\ UNCHANGED <<store, revoked, keys, rows, net>>

\* getCatalog, and the rest of the handler up to the POST.
GetCatalog(c) ==
  /\ At(c, "catalog") /\ Listed
  /\ LET e == call[c].errand
         found == Named(Shelf, e.sku)
         variant == IF found = <<>> THEN <<>> ELSE resolveVariant(Head(found), e)
     IN IF variant = <<>> THEN Tell(c, "refused", 0) /\ UNCHANGED net
        ELSE LET cart == Cart(c, Head(found), Head(variant), e.qty)
             IN IF e.max # Absent /\ TotalOf(cart) > e.max
                THEN Tell(c, "nothing was charged", 0) /\ UNCHANGED net
                ELSE Post(c, cart, <<Head(found)>>)
  /\ UNCHANGED <<store, revoked, keys, rows>>

-----------------------------------------------------------------------------
(* The brains.                                                             *)

Buy(c, picked, list) ==
  IF picked = <<>> THEN Tell(c, "refused", 0) /\ UNCHANGED net
  ELSE Post(c, Cart(c, Head(picked), Absent, 1), list)

\* searchCatalog: the llm brain asks for the whole list, the others for what their query matches,
\* each known by its place on the shelf.
searchCatalog(e) == IF e.by = "llm" THEN Shelf
                   ELSE Restrict(Shelf, {i \in DOMAIN Shelf : Shelf[i].sku \in e.query})

\* runPurchase: the scripted brain picks at once.
Search(c) ==
  /\ At(c, "search") /\ By(c, {"scripted"}) /\ Listed
  /\ LET list == searchCatalog(call[c].errand)
     IN Buy(c, Cheapest(list, call[c].errand.ceiling), list)
  /\ UNCHANGED <<store, revoked, keys, rows>>

\* The others show the list to their model, and wait.
Consult(c) ==
  /\ At(c, "search") /\ By(c, {"llm", "claude"}) /\ Listed
  /\ LET e == call[c].errand
     IN call' = [call EXCEPT ![c] = [errand |-> e, step |-> "asked", list |-> searchCatalog(e)]]
  /\ UNCHANGED <<store, revoked, keys, rows, net>>

\* runAdversarialPurchase, and the page's scam test: the cart is what the listing says it is.
Fooled(c) ==
  /\ At(c, "search") /\ By(c, {"fooled"})
  /\ Post(c, [id |-> c, sku |-> Poison.sku, variant |-> Absent, qty |-> 1, price |-> Poison.price], <<>>)
  /\ UNCHANGED <<store, revoked, keys, rows>>

\* The product to buy once the model has answered; an answer that cannot be had or read is
\* no pick.
chooseProduct(reply, candidates, ceiling) == resolveChoice(parsePick(reply), candidates, ceiling)

\* askLlm, and the rest of runLlmPurchase.
AskedLlm(c) ==
  /\ At(c, "asked") /\ By(c, {"llm"})
  /\ LET q == call[c]
     IN \E reply \in Reply \cup {Absent} :
          Buy(c, chooseProduct(reply, q.list, q.errand.ceiling), q.list)
  /\ UNCHANGED <<store, revoked, keys, rows>>

\* parseClaudePick: it has no variant to begin with.
parseClaudePick(reply) == IF reply = Absent THEN Absent ELSE reply.sku

\* The Claude brain has a resolveChoice, override and fallbackPick of its own, to the same end.
resolveClaudeChoice(pick, candidates, ceiling) == resolveChoice(pick, candidates, ceiling)

\* askClaude, and the rest of runClaudePurchase; a client that throws ends it.
AskedClaude(c) ==
  /\ At(c, "asked") /\ By(c, {"claude"})
  /\ \/ LET q == call[c]
        IN \E reply \in Reply \cup {Absent} :
             Buy(c, resolveClaudeChoice(parseClaudePick(reply), q.list, q.errand.ceiling), q.list)
     \/ Tell(c, "error", 0) /\ UNCHANGED net
  /\ UNCHANGED <<store, revoked, keys, rows>>

-----------------------------------------------------------------------------
(* The dashboard's test purchase.                                          *)

\* POST /agent/select: the facilitator reads the list, and asks the model.
SelectList(c) ==
  /\ At(c, "select")
  /\ call' = [call EXCEPT ![c] = [errand |-> @.errand, step |-> "advised", list |-> Shelf]]
  /\ UNCHANGED <<store, revoked, keys, rows, net>>

\* Its answer: a product, or none - nothing affordable, no model, or no answer at all.
Advise(c) ==
  /\ At(c, "advised")
  /\ LET q == call[c]
         shop(advice) == call' = [call EXCEPT ![c] =
           [errand |-> q.errand, step |-> "shop", advice |-> advice]]
     IN \/ shop(Absent)
        \/ \E reply \in Reply \cup {Absent} :
             LET choice == chooseProduct(reply, q.list, q.errand.ceiling)
             IN choice # <<>> /\ shop(Head(choice).sku)
  /\ UNCHANGED <<store, revoked, keys, rows, net>>

\* The product advised, on the list as it is now and at its price; it may be gone, but its
\* stock is not looked at again.
pickFromSelection(products, sku) == Named(products, sku)

\* The page's cart is of one piece, under an id and a key of its own.
buildUnsignedCart(c, product) ==
  [id |-> c, sku |-> product.sku, variant |-> Absent, qty |-> 1, price |-> product.price]

\* fetchCatalog, then pickFromSelection, or pickProduct without advice.
Shop(c) ==
  /\ At(c, "shop") /\ Listed
  /\ LET q == call[c]
         picked == IF q.advice = Absent THEN Cheapest(Shelf, q.errand.ceiling)
                   ELSE pickFromSelection(Shelf, q.advice)
     IN IF picked = <<>> THEN Tell(c, "refused", 0) /\ UNCHANGED net
        ELSE Post(c, buildUnsignedCart(c, Head(picked)), Shelf)
  /\ UNCHANGED <<store, revoked, keys, rows>>

\* fetchCatalog throws, as for a store that is not listed.
ShopFails(c) ==
  /\ At(c, "shop") /\ Tell(c, "error", 0)
  /\ UNCHANGED <<store, revoked, keys, rows, net>>

-----------------------------------------------------------------------------
(* The facilitator.                                                        *)

Refused == [ok |-> FALSE, sid |-> 0, state |-> "none"]
Contested == [ok |-> FALSE, sid |-> 0, state |-> "contested"]
Live(s) == rows[s].state \notin TerminalSettlement
Held(cart) == \E s \in DOMAIN rows : rows[s].cart = cart /\ rows[s].state \notin ReleasedSettlement

\* Mutant of Clash: no one_live_settlement_per_mandate.
ClashHeldOnly(cart) == Held(cart)

\* The two partial unique indexes, under the one mandate.
Clash(cart) == Held(cart) \/ \E s \in DOMAIN rows : Live(s)

\* The checks of verifyChain that this module's actors can fail: the price, unless the merchant
\* has none on record; the merchant, which for the poisoned cart is another; revocation.
PriceAgrees(cart) ==
  prices[Store] # NoPrices => cart.sku \in DOMAIN prices[Store] /\ prices[Store][cart.sku] = cart.price
Accepts(cart) == PriceAgrees(cart) /\ cart.sku # Poison.sku /\ ~revoked
Verdict(cart) == IF Accepts(cart) THEN {"rejected", "pending_approval", "approved"} ELSE {"rejected"}

Entries(key) == {k \in keys : k.key = key}

\* The answers to a key seen before: KEY_REUSED, IN_FLIGHT, or the first response again.
Replay(entry, body) ==
  IF entry.body # body \/ entry.answer = Absent THEN Contested ELSE entry.answer

Claim(r, answer) == keys' = keys \cup {[key |-> r.key, body |-> r.body, answer |-> answer]}

\* Approved: its caller polls.
Polling(q, sid) ==
  [errand |-> q.errand, step |-> "polling", cart |-> q.cart, list |-> q.list, sid |-> sid]

\* Mutant of Understood: every refusal is a rejection.
UnderstoodAsFailure(c, answer) ==
  IF ~answer.ok THEN Told(call[c], "not completed", 0)
  ELSE IF answer.state = "rejected" THEN Told(call[c], "not completed", answer.sid)
  ELSE IF answer.state = "pending_approval" THEN Told(call[c], "pending", answer.sid)
  ELSE Polling(call[c], answer.sid)

\* requestPayment, submitSettlement: what the caller makes of the response.
Understood(c, answer) ==
  IF answer = Contested THEN Told(call[c], "ambiguous", 0)
  ELSE IF ~answer.ok THEN Told(call[c], "not completed", 0)
  ELSE IF answer.state = "rejected" THEN Told(call[c], "not completed", answer.sid)
  ELSE IF answer.state = "pending_approval" THEN Told(call[c], "pending", answer.sid)
  ELSE Polling(call[c], answer.sid)

\* The response reaches its caller, or is lost and the call throws.
Respond(r, answer) ==
  /\ net' = net \ {r}
  /\ \/ call' = [call EXCEPT ![r.call] = Understood(r.call, answer)]
     \/ Tell(r.call, "error", 0)

\* POST /settlements: the claim, then the settlement and the response in one transaction.
Create(r) ==
  /\ r \in net /\ Entries(r.key) = {}
  /\ IF Clash(r.body)
     THEN Claim(r, Refused) /\ Respond(r, Refused) /\ UNCHANGED rows
     ELSE \E state \in Verdict(r.body) :
            LET answer == [ok |-> TRUE, sid |-> Len(rows) + 1, state |-> state]
            IN /\ rows' = Append(rows, [state |-> state, cart |-> r.body])
               /\ Claim(r, answer) /\ Respond(r, answer)
  /\ UNCHANGED <<store, revoked>>

Again(r) ==
  /\ r \in net
  /\ \E entry \in Entries(r.key) : Respond(r, Replay(entry, r.body))
  /\ UNCHANGED <<store, revoked, keys, rows>>

\* The request is lost, or the process dies before it claims the key, or right after.
Lose(r) ==
  /\ r \in net /\ net' = net \ {r}
  /\ Tell(r.call, "error", 0)
  /\ \/ UNCHANGED keys
     \/ Entries(r.key) = {} /\ Claim(r, Absent)
  /\ UNCHANGED <<store, revoked, rows>>

\* sweepStaleIdempotencyLocks.
SweepLock(k) ==
  /\ k \in keys /\ k.answer = Absent
  /\ keys' = keys \ {k}
  /\ UNCHANGED <<store, revoked, rows, net, call>>

\* The human, the executor and the sweep; the gate is run again before money moves.
Advance(s) ==
  /\ \E to \in SettlementState :
       /\ SettlementCAS(rows[s].state, rows[s].state, to)
       /\ to = "settling" => Accepts(rows[s].cart)
       /\ rows' = [rows EXCEPT ![s].state = to]
  /\ UNCHANGED <<store, revoked, keys, net, call>>

\* The store is scanned again; the human revokes the mandate.
Republish(products) == Li!Publish(Store, products) /\ UNCHANGED <<revoked, keys, rows, net, call>>
Revoke == ~revoked /\ revoked' = TRUE /\ UNCHANGED <<store, keys, rows, net, call>>

-----------------------------------------------------------------------------
(* Polling.                                                                *)

Outcome(state) == IF state = "captured" THEN "captured"
                  ELSE IF state = "pending_approval" THEN "pending" ELSE "not completed"

POLL_STOP_STATES == {"pending_approval", "captured", "failed", "rejected", "abandoned"}

\* GET /settlements/:id, up to a state that polling stops at.
Poll(c) ==
  /\ At(c, "polling")
  /\ LET state == rows[call[c].sid].state
     IN state \in POLL_STOP_STATES /\ Tell(c, Outcome(state), call[c].sid)
  /\ UNCHANGED <<store, revoked, keys, rows, net>>

\* POLL_TIMEOUT: still processing, which only the tool is told; or a request that fails, which is
\* thrown.
Deadline(c) ==
  /\ At(c, "polling")
  /\ Tell(c, "processing", call[c].sid) \/ Tell(c, "error", 0)
  /\ UNCHANGED <<store, revoked, keys, rows, net>>

-----------------------------------------------------------------------------

Next ==
  \/ \E c \in Call :
       \/ Begin(c) \/ FetchFails(c) \/ ListMandates(c) \/ GetCatalog(c)
       \/ Search(c) \/ Consult(c) \/ Fooled(c) \/ AskedLlm(c) \/ AskedClaude(c)
       \/ SelectList(c) \/ Advise(c) \/ Shop(c) \/ ShopFails(c) \/ Poll(c) \/ Deadline(c)
  \/ \E r \in net : Create(r) \/ Again(r) \/ Lose(r)
  \/ \E k \in keys : SweepLock(k)
  \/ \E s \in DOMAIN rows : Advance(s)
  \/ \E products \in Published : Republish(products)
  \/ Revoke

Spec == Init /\ [][Next]_vars

-----------------------------------------------------------------------------
(* What must hold.                                                         *)

Token == {e.token : e \in Errand} \ {Absent}

\* A retry with the same token buys nothing twice, whatever the store's prices do between
\* the two (request_purchase: the key is the caller's token, and not the cart's).
OnePurchasePerToken ==
  \A t \in Token : \A r, s \in DOMAIN rows : rows[r].cart.id = t /\ rows[s].cart.id = t => r = s

\* What a caller is told is so: "captured", whoever buys, of its own cart; and "not completed",
\* which the tool alone says, only if no settlement of its purchase holds money or can still take
\* it (agent-tools: a contested key must not collapse into `rejected`).  The `blocked` of a brain
\* or of the page promises nothing: the purchase may be settling still, or captured later.
TellsTruth ==
  \A c \in Call : At(c, "told") =>
    /\ call[c].report = "captured" =>
         rows[call[c].sid].state = "captured" /\ rows[call[c].sid].cart = call[c].cart
    /\ call[c].report = "not completed" =>
         \A s \in DOMAIN rows :
           rows[s].cart.id = call[c].cart.id => rows[s].state \in ReleasedSettlement

\* Each value asked for is one of the variant's, at a place of its own.
Fits(values, v) ==
  \E at \in [DOMAIN values -> DOMAIN v.values] :
    \A i, j \in DOMAIN values : values[i] = v.values[at[i]] /\ (at[i] = at[j] => i = j)

Signed(c) == "cart" \in DOMAIN call[c] /\ call[c].cart # Absent

\* What request_purchase signs is what was asked for - the only variant that has the size and
\* colour named, within the limit named - and never another in its place.
BoughtAsAsked ==
  \A c \in Call : Signed(c) /\ By(c, {"tool"}) =>
    LET e == call[c].errand
        cart == call[c].cart
        variants == ToSet(Head(call[c].list).variants)
    IN /\ cart.sku = e.sku /\ cart.qty = e.qty
       /\ e.max # Absent => TotalOf(cart) <= e.max
       /\ ~Asks(e) <=> cart.variant = Absent
       /\ e.variant # Absent => cart.variant.id = e.variant
       /\ e.variant = Absent /\ e.values # <<>> =>
            {v \in variants : Fits(e.values, v)} = {cart.variant}

\* Whatever a model answers, a brain signs for something its list had in stock, at the list's
\* price and within the goal's ceiling (resolveChoice).
GuardedPick ==
  \A c \in Call : Signed(c) /\ By(c, {"scripted", "llm", "claude"}) =>
    \E p \in ToSet(call[c].list) :
      /\ p.sku = call[c].cart.sku /\ p.price = call[c].cart.price
      /\ p.stock /\ p.price <= call[c].errand.ceiling

\* request-purchase.ts: a call refused with MAX_PRICE_EXCEEDED is told "Nothing was charged",
\* a retry as well.
NothingWasCharged ==
  [][\A c \in Call :
       call'[c].step = "told" /\ call[c].step # "told" /\ call'[c].report = "nothing was charged" =>
         \A s \in DOMAIN rows :
           rows[s].cart.id = call[c].errand.token => rows[s].state # "captured"]_vars

\* What the posting agents see of the two tables.
KeySeen(k) ==
  [key |-> k.key, body |-> [mandate |-> Store, hash |-> k.body], locked |-> k.answer = Absent,
   sale |-> IF k.answer = Absent THEN 0 ELSE k.answer.sid]
KeysInUse == {KeySeen(k) : k \in keys}
SalesMade == [s \in DOMAIN rows |->
                [mandate |-> Store, hash |-> rows[s].cart, state |-> rows[s].state]]

Till == INSTANCE Till WITH NoSale <- 0, entries <- KeysInUse, sales <- SalesMade

\* The facilitator these buyers post to and the one of module Settlements make one promise:
\* here too a key is answered once and names the settlement made for its very body, and no
\* purchase is taken in twice (submitSettlement, POST /settlements).
KeepsTill == Till!Spec
=============================================================================
