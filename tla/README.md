# Hundi, modelled and proved in TLA+

Hundi lets a software buyer pay within limits its human signed. The human signs an
*intent mandate* (merchants, ceiling, thresholds, expiry), the agent signs a *cart* for
it, and the facilitator verifies the pair, asks the human where the mandate says so,
executes the payment with bounded retries, reconciles it against the provider, and keeps
a ledger of it all.

This directory holds TLA+ modules translated from the code, the TLC configurations that
check them on small instances, and theorems about them that TLAPS checks for every value
of the constants. `PROJECT.json` maps each definition to its source lines, lists the
hazards the properties are aimed at, and gives one deliberately wrong version of a
definition (a *mutant*) per property; the mutants stand beside the definition they
change, under a comment that begins "Mutant of".

    tlc -workers 2 -config MCExecution_core.cfg MCExecution.tla
    tlc -workers 2 -config MCCeremony_ceremony.cfg MCCeremony.tla
    tlapm Ceremony_proofs.tla

## 1. The system and its parts

Paths are under `src/`; *fac* is `packages/facilitator/src`, *tools* is
`packages/mcp-server/src/tools`.

| Part | State | Operations | Module |
|---|---|---|---|
| Verification gate, `packages/core/src/verify.ts` | none | `verifyChain`: fifteen checks in a fixed order, `needsApproval` | MandateGate |
| Mandates, *fac*`/mandate-repo.ts`, `routes/mandates.ts`, `routes/revoke.ts` | `mandates`, `allowances` | register, revoke, captured totals | Ceremony, Settlements |
| Tokens and proposals, *fac*`/routes/ceremony-tokens.ts`, `routes/mandate-proposals.ts` | `ceremony_tokens`, `mandate_proposals` | mint, spend; propose, consume | Ceremony, Terms |
| Settlement creation, *fac*`/settlement-service.ts` | `settlements` | `POST /settlements` in one transaction | Settlements |
| Idempotency, *fac*`/idempotency.ts` | `idempotency_keys` | claim (its own transaction), complete (inside the business one) | Settlements, Purchase |
| Approvals, *fac*`/routes/approvals.ts` | `approvals` | decide once | Settlements |
| Executor, *fac*`/executor.ts` | a promise chain, the `inFlight` set | kick, `runOnce`, resume, attempt loop, payment-link fallback | Execution |
| Reconciler, *fac*`/reconcile.ts`, `routes/webhook.ts`, `routes/refund.ts` | `settlement_attempts`, `webhook_events` | reconcile an order, compensate an anomaly, refund | Execution |
| Sweep, *fac*`/sweep.ts` | a timer | rules for attempts, approved, settling, approvals, locks | Execution, Settlements |
| Ledger, *fac*`/ledger.ts`, `db/index.ts` | `ledger_events`, hash-chained | append, verify, rebuild under a newer schema | Ledger |
| Read model, *fac*`/routes/read.ts`, *tools*`/get-order.ts`, `list-orders.ts`, `get-agent-identity.ts`, the dashboard's receipt | none | views of the tables and the ledger | Receipts |
| Onboarding, *fac*`/routes/stores.ts`, `packages/cli/src/scanner.ts` | `store_catalogs`, `merchants`, the shared browser | scan a store, publish it, register prices | Catalogue |
| Search, *fac*`/routes/catalog-search.ts`, `routes/upsell.ts`, *tools*`/search-*.ts`, `get-upsell.ts` | none | rank, cut, show | Search |
| Buying, *tools*`/request-purchase.ts`, `agents/`, `apps/dashboard/src/lib/buyer.ts` | a call's local variables | look up, pick, sign, post, poll, retry | Purchase |
| Ceremony pages, `apps/dashboard/src/lib/proposal-approval.ts`, `components/MandateCeremony.tsx`, `context/identity-context.tsx` | React state, `localStorage` | keys, signing, approval of a proposal | Ceremony |
| State machines, *fac*`/state-machine.ts` | none | the two transition tables and the compare-and-swap | StateMachine |

One Node process with synchronous SQLite runs the facilitator: a stretch of JavaScript
between two `await`s is atomic with respect to every other handler, and each transaction
in it is atomic with respect to a crash. Everything else - pages, agents, the CLI - is
another process that reads, thinks and posts. The hard behaviours follow from that:

- rows read before an `await` on the provider and used after it, by three independent
  writers of one attempt (executor, webhook, sweep);
- the process dying between two transactions of one stretch;
- calls whose answer is lost, payments that resolve after their attempt was given up,
  and retries of what has already been done;
- pages and agents that act on what a poll or a listing told them some time ago, and two
  pages in one browser that share its storage and not their state;
- terms that are named again, field by field, at every hop from the tool call to the
  signature;
- scans of third-party sites whose pages fail, repeat, redirect and change.

What makes each part correct is the comment over each property in its module; section 3
has one line for each.

## 2. The modules

    StateMachine
      |- Execution ------------------------ implements PaymentPromise
      |- Settlements (+ MandateGate) ------ implements Wallet, and Till
      |    |- Receipts                      Settlements, step by step, with its events
      |- Purchase (uses Listing) ---------- implements Till
    Terms
      |- Ceremony ------------------------- implements Ledger
    Catalogue ----------------------------- implements Listing
      |- Search

    Execution_proofs                        Ceremony_proofs       Ledger_proofs
    Arithmetic_proofs
      |- Settlements_proofs - Receipts_proofs
      |- Purchase_proofs
      |- Catalogue_proofs                 Catalogue and Search

The abstract modules are what one part may rely on about another. `PaymentPromise` is what
`Settlements` takes an execution for (its `Capture`); `Wallet` is what a human takes a mandate
for; `Till` is what an agent that posts a cart counts on, and the one text that the two models
of `POST /settlements` are held to, the facilitator's own in `Settlements` and the one that
`Purchase` lets its buyers meet; `Ledger` is what whoever appends an event relies on; `Listing` is what a buyer and the
gate rely on about a store, and `Purchase` is composed with it: its `Republish` is
`Listing`'s `Publish`, which is all that a scan, a redirect, a failed page and a restart of
`Catalogue` come to.

### StateMachine

`SettlementNext` and `AttemptNext` are the tables of `state-machine.ts`; `SettlementCAS` and
`AttemptCAS` are `transitionSettlement` and `transitionAttempt`: the move is a legal
one *and* the row still is in the state the caller believes. A losing writer is
visible in the models as the branch its caller takes on `false` or on a throw.

### Execution: what happens between approved and the end

| In the model | In the code |
|---|---|
| `queue`, `inFlight`, `run` | the promise chain and set of `createExecutor`, and the run's local variables |
| `attempt[a]` | a row of `settlement_attempts`; `order` says whether `provider_order_id` is written |
| `handler[h]` | one webhook, sweep or refund continuation suspended at an await, with the row it read before (`seen`) and the answer it got |
| `payment[a]` | the provider's side of the attempt's order or link |
| `ledger` | the money events of `ledger_events`, as a set |
| `RunExecute`, `RunReject`, `RunResume`, `RunLoop`, `RunOrder*`, `RunCaptured`, `RunCaptureThrows`, `RunDriveFailed`, `RunLink*` | the stretches of `runOnce`, `resumeSettlingRun`, `runAttemptLoop`, the fallback |
| `Webhook`, `SweepPoll`, `Fetch*`, `Reconcile*` | a delivery or a poll, and `reconcileByOrder` before and after its await |
| `Refund*` | the compensator and the refund route, across their awaits |
| `SweepFailOrphan`, `SweepRekick`, `SweepAbandonApproved`, `SweepResume` | the sweep's rules |
| `Crash` | the process dies: queue, set, run and handlers are gone, tables and provider stay |

An action is one stretch between awaits. Where a stretch commits two transactions, the
crash can fall between them: the executor stands at a `Sync` point, at which only its
own next step or a crash is possible.

Abstractions. Amounts do not appear: every attempt of a settlement is for the same
total. Each attempt has one payment, the latest one the provider would report. A TTL
shows as the freedom of the sweep to act at any time after the row could be stale; the one
place where the time matters is kept as a guard (`SweepFailOrphan` cannot meet a
`createOrder` in flight, because `attemptStaleMs` exceeds the client's request
timeout). The state `failed` of a settlement is not reached by any code path.
`handleProviderCapture` is called by tests and the demo only; it takes the decision that
`ReconcileCaptures` and `ReconcileAnomaly` take, without the await.

### MandateGate and Settlements: a mandate and what is bought under it

`Fails(code, intent, cart, ctx)` gives each of the gate's fifteen checks its condition,
`CheckOrder` their order, `Reason` the code a refusal reports, `NeedsApproval` the two
lines above which the human is asked. A signature is the key that made it and a hash the
thing hashed, so a check of either is an equation. The cart's hash contains the
intent's version. Structural validity is one bit; canonicalisation is not modelled.

| In the model | In the code |
|---|---|
| `stored`, `revoked` | `mandates.intent_json`, `mandates.revoked_at` |
| `row[s]` | a row of `settlements`; `since` is the timestamp its state is measured by |
| `approval[s]`, `key[k]` | `approvals.decision`, a row of `idempotency_keys` |
| `PostSettlement`, `ClaimThenCrash` | `POST /settlements`, whole, or dying after the claim |
| `Decide` | `POST /approvals/:id` |
| `EnterSettling`, `RejectAtSettling` | `reverifyAndEnterSettling`, the gate's second run |
| `Capture` | module Execution, as one step |
| `SweepApproval`, `SweepApproved`, `SweepLock` | the sweep's rules |

None of these handlers awaits, so each is one action. `VerifyCtx` is `buildVerifyCtx`: it
reads the tables, it is not an input. The agent may post any version of the intent that its
human signed, not only the registered one; the gate at creation sees the posted one and
the gate before settling the stored one. Details kept on purpose: the sweep abandons on
`expires_at` where the gate still gives 60 seconds of grace; a decision is accepted as
long as the row is pending, even past its deadline (`approvals.expires_at` is written and
never read); a key completed with a refusal stays completed. Left out: `created`,
`verifying` and `verified` never survive the one transaction of `createSettlement`, so
`sweepTransientSettlements` and `sweepStaleVerified` find nothing to act on. Registration
is one step here, with its token in `Ceremony`. Refused requests that write nothing are
not steps.

### Receipts: what is told afterwards

Each step of `Settlements`, joined with the event that its transaction appends (`Log`), and
the decisions an agent records. Over that state the module gives the reads as operators:
`listMandates`, `settlementResponse` with its newest-50 window, the MCP server's `getOrder`
with the checks it claims, `listOrders` with its limit, `AuthorizingMandates`, and the dashboard's
`OrderDetail`. `list_orders` keeps the newest; a row has no date of creation here, so `listOrders`
is any `OrderLimit` of the orders asked for when there are more.

### Ledger

Rows with the hash of their predecessor. A hash is what was hashed, so it is the sequence
of the events so far: equality of hashes is equality of pasts. `openDb` rebuilds the table
when its CHECK lacks an event type; `EditRow` is whoever holds the file;
`verifyLedger` is the walk.

### Terms and Ceremony: how a budget comes to be

`Terms` gives the six hops of a budget's terms as operators: rupees to paise
(`PreparedArgs`), the body with its conditional spreads (`proposeMandate`), columns with
NULL, the response, the signed intent, the intake schema. An absent key, NULL and zero are
different things in it.

| In the model | In the code |
|---|---|
| `token`, `mandate`, `proposal` | `ceremony_tokens`, `mandates`, `mandate_proposals` |
| `posted` | bodies of `POST /mandates` under way; none is ever removed, so each may arrive late, twice or never |
| `storage`, `discarded`, `agentKey` | `localStorage`, and the keys that are no longer in it |
| `tab[t]` | a page: the keys it mounted with, its latest poll (`seen`), what it thinks approved, and the await its flow is at |
| `Propose` | `prepare_mandate` and `POST /mandates/propose` |
| `Register`, `Revoke` | `POST /mandates`, `POST /revoke`, each with its ledger event |
| `StartFlow`, `Mint`, `Answered`, `Consume`, `CallFails`, `MintUnheard` | `approveMandateProposal`, and `handleSubmit` of the form |
| `RegisterPasskey`, `ResetKey`, `Reload` | `identity-context.tsx` |
| `Stop`, `Start` | the process, and the build that is started next |

### Listing, Catalogue and Search

`Catalogue` runs several scans at once: `safeFetch` with its redirects, the home page, the
linked pages, the two product feeds page by page, the browser fallback that all scans share,
and what onboarding or `hundi init --register` writes at the end. Which markup yields a
product is data: a site answers each fetch with any of a set of pages, or fails. Extraction,
merging and deduplication are operators with the code's order of precedence.
`Search` gives the ranking of `catalog-search.ts` and `upsell.ts` and what the tools show of it,
over the tables `Catalogue` leaves. How far a text matches is data (`Whole`, `TokenHits`);
the weights, the tie-break and the cuts are the code's.

### Purchase: how an agent buys

| In the model | In the code |
|---|---|
| `call[c]` | a call's local variables and the await it is at |
| `ListMandates`, `GetCatalog` | `request_purchase`: the mandate it uses, variant resolution, the limit, the key |
| `Search`, `Consult`, `AskedLlm`, `AskedClaude`, `Fooled` | the three brains, and the demo's adversarial run |
| `SelectList`, `Advise`, `Shop` | the dashboard's test purchase and `POST /agent/select` |
| `Create`, `Again`, `Lose`, `SweepLock` | `POST /settlements` as its clients meet it: first, again, lost; the sweep's clearing of a lock |
| `Advance`, `Revoke`, `Republish` | the rest of the facilitator, the human, a scan |
| `Poll`, `Deadline` | `GET /settlements/:id` up to a stop state, or `POLL_TIMEOUT` |
| `Reported`, `toOutcome` | what the caller is told: the tool's answers one by one; captured, pending or `blocked` by the brains (`toOutcome`) and the page (`outcomeKind`) |

What a model answers is any of `Reply` or nothing. The gate is reduced to the checks that
this module's actors can fail.

### PaymentPromise, Wallet and Till: what is promised

`PaymentPromise` knows settlements, charges and a winner: settled once, charged only then,
captured once, for a charge of its own. `Execution` implements it with the mapping
at the end of that module (`KeepsPromise`). Late payers may still be charged after the
capture, and the promise says so: the code compensates, it cannot prevent.

`Wallet` is a ceiling, an amount spent and at most one amount reserved, never together above
the ceiling. `Settlements` implements it (`KeepsWallet`), with the stored intent's
ceiling, the captured total and the amount in settling.

`Till` is the set of keys in use and the settlements made. A key is claimed, and then refused
for good or left locked; a settlement comes into being in the step that enters the key whose
answer names it, for the body of that key, and only where neither the same purchase nor another
open one of its mandate stands in the way (`Taken`, the two partial unique indexes); only a
locked key is ever forgotten; a settlement moves along the edges of the state machine and in no
other way. It says nothing of verdicts, time or the human. `Settlements` and `Purchase` each
implement it under a mapping of their own (`KeepsTill`): in `Settlements` a row per id and a key
per name, in `Purchase` a sequence of rows under one mandate and a set of entries whose
answer is the response itself.

## 3. The runs

### Runs that pass

| Run | Instance | Question |
|---|---|---|
| `core` | 1 settlement, 3 attempt rows, 2 handlers, 2 driver attempts, 1 kick, 1 fault, 1 crash | do the tables agree and stay final under every interleaving of executor, two reconcilers, sweep and crash? |
| `two` | 2 settlements, 4 attempt rows, 1 handler, 1 driver attempt, 1 kick, 1 crash | do two settlements on one chain keep out of each other's way, and keep `PaymentPromise`? |
| `live` | 1 settlement, 2 attempt rows, 1 handler, 1 fault, 1 crash, `FairSpec` | do approved and stalled settlements move on, and are late captures noticed with no webhook? |
| `wallet` | 1 mandate signed in two versions, 3 merchants, 8 requests, 3 settlements, 3 keys, clock 0..3 | do limits, lines, decisions, revocation, expiry and keys hold over every order of requests, and is it `Wallet` and `Till`? |
| `reservations` | the same mandate with its ledger events, 5 requests, 2 settlements, 2 keys, 2 agents, an approval's TTL of 9, clock 0..5, fair clock and sweep | do the audit trail and the views tell what the tables say, and is a reservation released with nobody's help? |
| `ceremony` | 2 pages of a browser, 2 keys, 2 mandate ids, 1 proposal with two policies of three, 2 tokens, an older build and a restart, clock 0..1 | does a budget come out as it was asked for, once per token, with its ledger, over late, repeated, refused and lost calls? |
| `ledger` | 2 event types of which an older build knows one, 2 payloads, up to 4 rows, any number of them rewritten | does verification answer for exactly what was done to the file? |
| `purchase` | 2 calls out of 12 errands (a token and its retries, by id, values or text, each brain, the page), 2 lists a store may publish | is a retry the same purchase, is "captured" true for whoever is told it and "not completed" for the tool's caller, is what is bought what was asked for, and is the facilitator met here `Till`? |
| `onboarding` | 2 scans, 4 sites of 2 merchants, 7 first pages, 3 linked pages, 4 feed pages, 1 redirect, 2 pages of 2 products | is what is listed sound, priced as listed and findable in a stable order, and does every scan end? |

Why the bounds are enough.

- *Execution.* Two driver attempts and a link are every row the loop can write for
  a settlement, so three rows bound nothing away in `core`; two handlers allow two stale
  readers of one row beside the executor, the largest race the code's compare-and-swap
  decides. One crash gives a first life and a second one that must make do with what the
  first left; one fault puts a failing call anywhere in either. `two` needs a second
  settlement, not a second handler: its properties are about the queue.
- *Settlements.* Three settlements are the fewest for which a cumulative line is passed by
  carts that are each below it, with one more request to meet what the first two left of the
  ceiling. Mandates meet only in the cart's hash, which contains the intent and hence the
  mandate, and in keys, which one mandate exercises as well. The clock passes the lock's
  TTL, the approval's TTL, the expiry (1) and the end of the grace (2). Refused requests
  (out of scope, another signer, a wrong price) are among the inputs.
- *Receipts.* The approval's TTL is past the clock's bound, so that it is the mandate's
  expiry that must release the reservation, as where a human gets half an hour to decide
  (`sweep.ts:60`) and the mandate ends before. `LastDecision` bounds human decisions so that
  the clock still has time for the sweep. `LedgerLimit` is 3 and a settlement can have four
  events, so the window of a read does cut; `OrderLimit` is 1 and an agent can have two orders, so
  the list of orders is cut as well. The requests are the five that lead to different
  rows: each further one multiplies the states and reaches no other event.
- *Ceremony.* Two pages and two ids are what it takes to approve one offer twice, to sign
  with a key the other page has replaced, and to send a body under the other's token; two
  tokens to mint one whose answer is lost. The proposal's amounts lie on both sides of half
  a paisa and one positive line rounds to zero; it sets two policies of three, so present
  and absent ones travel together. Its time is over at once (`ttl` = 0, the clock goes to
  1), so every later step meets an expired offer. Any number of proposals and any
  request is the theorem's business (`OfferIsSigned`).
- *Ledger.* Four rows have a first, a last and two between; a rewritten row can be first,
  last, repeated or garbled, and the rebuild can fall between any two appends.
- *Purchase.* Two calls are a purchase and its retry. The shoe has two sizes of which one has
  the same value twice, and another price than the product; the second list moves that
  price over a caller's limit and turns the stock of the sock around. A third call adds
  nothing to a key that has been answered.
- *Catalogue.* Two scans race over two spellings of one merchant or over two merchants; two
  pages of two products reach both stops of the feed loop, a full last page and a short one;
  a redirect chain of two is one more than is allowed, and one hop is to an address
  inside.

Symmetry is used in `core` (handlers), `two` (settlements), `wallet` (keys), `ledger` (payloads),
`ceremony` (ids, tokens, keys, pages) and `purchase` (calls), never with a liveness property
and never over a set that a CHOOSE ranges over.

Deadlock is checked in `ceremony`, `ledger`, `purchase` and `onboarding`. In the others the
system really may stop: with nothing pending, no money under way and the clock's bound
reached there is nothing to do.

### What the passing runs show

| Property | What would break it |
|---|---|
| `CaptureAgreement` | half of a capture's transaction, or two winners |
| `CaptureIsBacked` | a reconciler that trusts what it read before its await |
| `LoopOwnsSettlement`, `InFlightExact` | two loops for one settlement, or an id left in the dedup set |
| `AttemptBudget` | a resumed run that counts from one |
| `PaymentIsFindable` | a payment against an order written on no row |
| `ChargeNeedsSettling` | a queued kick that outlives the settlement's abandonment |
| `TerminalIsFinal` | a late writer that does not compare before it swaps |
| `KeepsPromise` | any of those, seen from outside |
| `ApprovedResolves`, `SettlingResumes`, `LateCaptureConverges` | a lost kick, a lost run or a lost webhook that nothing repeats |
| `HumanInTheLoop` | carts that together pass a line nobody was asked about |
| `AuthorityAtSettling` | a mandate that died, or was never the one signed, while the cart waited |
| `DecisionAgreement` | a decision without its row, or a row without its outcome |
| `KeepsTill` | a cleared key that had its answer, a retry that makes a second settlement, two carts open under one mandate |
| `MerchantWithinLimit`, `KeepsWallet` | a limit that each cart respects and their sum does not |
| `RevokedReportsRevoked` | the gate's checks in another order |
| `ReservationResolves` | an approval that outlives its mandate and keeps it reserved |
| `LedgerTellsState` | a transition without its event, or an event without its transition |
| `ShownIsEnforced` | a view's own copy of the grace, of a sum or of which intent counts; orders within the list's limit that do not add up |
| `OneMandatePerToken` | a token spent by a refused body, or one body registered twice |
| `LedgerAgrees` | an event outside the transaction, or refused by an older table's CHECK |
| `DoneMeansDone` | a page that takes a lost answer for a yes |
| `SignsTheOffer` | a hop that drops a policy, takes zero for absent, or starts the clock anew |
| `KeepsLedger` | a start-up or a handler that does more to the ledger than append |
| `ChainVerdict`, `AppendOnly` | a stale head; a rebuild that hashes anew |
| `OnePurchasePerToken` | a key derived from a cart whose price has moved |
| `TellsTruth` | a contested key that the tool takes for a failure; a capture told to anyone that is none of theirs |
| `BoughtAsAsked` | one value of a variant that answers for two |
| `GuardedPick` | a model's answer that is not compared with the list it was shown |
| `StockKept` | a later, emptier record of a product that wins a merge of the feed's pages |
| `SearchSettled` | a tie broken by the order SQLite happens to return |
| `KeepsListing` | prices and list from two scans, or a registration over a listed store |
| `ScanEnds` | a page counter that a full or failing page does not advance |

### Runs that find a violation

Each checks one statement that a comment or document makes and the code does not keep.

| Run | Statement | What happens |
|---|---|---|
| `honoured` | `reconcile.ts:290-293`: after a lost race "refundAnomalyCapture no-ops once the ledger already shows this payment refunded or captured" | it looks for refunds only (`reconcile.ts:117-125`): a reconciler that read the row before its await refunds the payment the executor has just captured, and the settlement stays captured |
| `aftercapture` | `schema.sql:81-82`: one_active_attempt "prevents double-charging via a concurrent second attempt"; `README.md:36-37` | a reconciler captures the attempt the executor is driving; the executor's own `applyCapture` returns false, the loop goes on and drives another attempt for a captured settlement |
| `charged` | `request-purchase.ts:382`: "Nothing was charged" | the limit is compared before the POST that would replay the key, so a retry of a captured purchase whose price has risen is told that nothing was charged |

`honoured` depends on the provider as the code describes it.

## 4. Fairness

`Execution!FairSpec` assumes no more than the process staying up:

- the executor's chain runs, and each provider call ends, because the client aborts it at
  its request timeout (`WF_vars(ExecutorStep)`); whether it ends well is not assumed;
- a handler whose await has ended continues (`HandlerFairness`);
- the sweep's `setInterval` keeps firing. Its rules for settlements and orphans are
  synchronous and get weak fairness. Its poll needs a free handler in the model, of which there
  are finitely many, while Node starts any number: strong fairness of `SweepPoll`
  says that the poll is not kept out for ever by the bound.

Payers, the browser, webhooks, humans and mandates' expiry (for `Execution`) may never act.

`SpecReceipts` (and `Settlements!FairSpec`, which it repeats with the events) assumes the
clock, and the sweep's rules `SweepApproval` and `SweepApproved` without a spent budget; the
executor is not assumed to take what is approved, nor a human to decide.

`Catalogue!Spec` assumes that a scan that has begun goes on (`WF_vars(Step(s))`): each fetch
is made under a timeout, so it ends, with a page or with a failure, and the code after it
runs. No site is assumed to answer well, or the same way twice; a scan need not begin, and a
restart ends those under way.

The other specifications state no fairness, and claim nothing that needs it.

## 5. What is proved

| Theorem | Says |
|---|---|
| `Execution_proofs!TypeCorrect`, `InductiveInvariant` | the state is well typed, and the invariant below |
| `CapturesAgree`, `CapturesAreBacked` | the capture invariants |
| `ChargesNeedSettling`, `LoopOwns`, `BudgetKept`, `PaymentsAreFindable`, `DedupIsExact` | the engine's other safety invariants |
| `TerminalStaysFinal` | the action property |
| `ImplementsPromise` | `Spec => KeepsPromise` |
| `Settlements_proofs!SettlementsTyped` | `Spec => []TypeOK` |
| `ReservationIsExclusive`, `DecisionsAgree`, `KeysAreExact`, `HumanStaysInTheLoop` | the invariants of the mandate's side |
| `SettlementsKeepTill`, `Purchase_proofs!PurchaseKeepsTill` | `Spec => KeepsTill`, of each of the two models of `POST /settlements` |
| `AuthorityIsLive`, `RevocationIsReported` | its action properties |
| `LimitsHold` | a merchant's limit holds of the sum of what it got |
| `MandateIsWallet` | `Spec => KeepsWallet` |
| `Receipts_proofs!ReceiptsAreSettlements` | `SpecReceipts => Settlements!Spec`: the events change nothing else |
| `LedgerTellsTheState`, `WhatIsShownIsEnforced` | the invariants of events and pages |
| `Ledger_proofs!VerdictHolds`, `OnlyAppends` | what verification answers; rows are only added |
| `Ceremony_proofs!TermsSurvive` | what is signed of any request is what was asked for |
| `TokenSpentOnce`, `LedgerTellsAll`, `DoneWasDone`, `OfferIsSigned` | the invariants of the ceremony |
| `CeremonyKeepsLedger` | `Spec => KeepsLedger` |
| `Arithmetic_proofs!SumTakes` | a sum over a finite set is an element's and the rest's |
| `Purchase_proofs!OneTokenOnePurchase` | a token buys once |
| `CallersAreToldTheTruth` | captured is told to any caller, and not completed to the tool's, only when it is so |
| `SignedAsAsked`, `BrainsAreGuarded` | what is signed is what was asked for, or what the list has |
| `Catalogue_proofs!ListingKept` | `Spec => KeepsListing`: list and prices change together, to a sound list |
| `StockIsKept` | no record of a feed is lost short of the cap, nor what it had in stock |
| `SearchIsSettled` | a search ranks alike in any order of the stores, shows what can be bought at that price, and short of its limit finds what the one-store tool finds |

They hold for any number of settlements, attempts, handlers, faults, crashes, mandates,
intents, requests, keys, TTLs, events, edits, pages, proposals, tokens, sites, scans and products. The assumptions
are `ConstantAssumption` (attempt ids are finite, the null values are not ids, the bounds
are naturals, at least one attempt is allowed), `SettlementsAssumption` (settlement ids are
finite, an intent's version determines it, its limits, amounts and times are naturals or
absent, a cart is for one of the merchants, an intent is signed by somebody),
`GateAssumption` (the grace is a natural), `LedgerAssumption` and `CeremonyAssumption` (the
null values are apart from the ids, an older build's event types are among this one's, and
every request has the types of `prepare_mandate`'s input schema), and `PurchaseAssumption`
(only the tool's callers have a token, the null value is not an answer, values named and lists
are sequences, quantities, limits and prices are numbers) and `ReceiptsAssumption` (the limit on
events is a natural, and a well-formed cart has an item, of a quantity and a price, which is
what `validateCartSchema` accepts), `CatalogueAssumption` (the types of what is read off a page,
limits that are positive, null values that are no list and no prices), `SearchAssumption`
(JavaScript orders any two strings, the counts of words found are naturals, and a title has
finitely many words) and `VariantAssumption`
(Shopify gives each variant of a product its own id: `mergeDuplicateShopifyProduct` keeps one
variant per id, so of a record with one id twice it would lose the first). "A version determines an
intent" is collision-freedom of the hash; in `Ledger` it is the hash being what was hashed.

**Execution.** The invariants are not inductive one by one: that a capture finds its
settlement in settling needs to know what a suspended run may hold. `IInv` adds

- `RunInv`: what the executor's run holds at each of its stops. Its settlement is settling
  or captured; between the loop's insert and the end of the attempt its row is a driver
  attempt of that settlement and the only one that can be live; at the loop's head and at
  the link no attempt is;
- `CountInv`: the run's counter is the number of driver attempts on the table, plus one at
  the head of the loop;
- `RowInv`: one live attempt per settlement, orders on driver attempts only, and a link's row
  never leaves `awaiting_confirmation`;
- `HandlerInv`: a reconciler holds a row with an order, and a capture it saw was money
  taken.

A step lemma (`DbStepNext`) then shows that every step changes the tables in
one of seven ways (`DbStep`: a settlement moves, a row is inserted, an order is written, an
attempt fails, an attempt is captured, a payment moves, nothing moves). The invariants about
tables, and the refinement of `PaymentPromise`, are proved once per way rather than once
per action; `RunInv` and `HandlerInv` are proved per action. `InFlightExact` is proved with
`IInv` as its premise, from four lemmas on `Kick`, dequeuing and dropping.

**Settlements.** `IInv` adds to the invariants checked by the run

- `LinkInv`: an answered key's settlement exists, a mandate's stored intent is one of its
  own, and a row's mandate is registered;
- `HashInv`: in settling, a row's hash is that of the stored intent and its cart;
- `LinesInv`: a row in approved or settling that no human approved is below the lines of
  whichever intent its hash was made from. This makes `HumanInTheLoop` inductive: the line
  was measured at creation, money moves later, and between the two the captured total does
  not change, because only another open settlement of the mandate could change it and
  `OneReservation` excludes one (`SpentKept`, `SpentStep`).

The step into settling compares the row's hash with that of the stored intent, which is
`HashInv`; so the lines of the posted intent are those of the stored one.

`OneReservation` and `OneKeyPerSettlement` are conjuncts of `IInv` with theorems of their own
(`ReservationIsExclusive`, `KeysAreExact`). No run lists them: `KeepsTill`, which `wallet`
checks, says of every behaviour what makes them true.

**Till.** In `Settlements`, each action that writes `key` or `row` is one step of the till: a
claimed key is one more in use and no other has its name (`KeyEntered`), a swept lock takes
out its own key only (`KeyFreed`), a row inserted is not `Taken` because the INSERT did not
clash (`SaleJoins`), and each of the other six actions moves one row along an edge (`StepMoves`,
`SaleMoves`). In `Purchase` the six things a step may do to the tables (`TableStep`, below) are
mapped one by one (`TablesAreTill`); that a swept lock takes out one key needs `KeyInv`, two
entries of one name being one. Beyond that the first
needs type correctness only. What the buyers' invariant takes from the facilitator
is `TableStep` and what an answer says (`AnswerFits`).

**Sums.** The ceiling and a merchant's limit bound a sum over rows, before and after a row
joins it. A sum is a fold, defined by recursion over a finite set, and the library's induction
over finite sets is not available to the provers; `Arithmetic_proofs` does without. Naturals
have a least element in every non-empty set (`LeastOf`, from the library's facts about
the order); so if the recursive function disagreed with "one element and the rest" for
some set, it would for a smallest one (`SmallestBad`), and removing an element from that gives
a smaller. `SumTakes` follows, and with it `LimitsHold` and `MandateIsWallet`: the step that
enters settling adds one row, and `OneReservation` says that no other row of the mandate
is in settling, so the sum of the wallet's `spent` and `reserved` is the sum the gate checked.

**Receipts.** `StepIsSettlements` takes every step of `Receipts` to a step of `Settlements`, so
`Settlements_proofs!IInv` holds of it. Beside it stand `StoryInv`, which is `LedgerTellsState` made
inductive (a settlement that waits was asked about, and one on its way to money has one of the
gate's events), and `PinInv`: settling and captured rows have the hash of the registered intent.
A step adds events to one settlement at most, so `StoryInv` is shown per kind of step from what
the events appended say.

**Ledger.** `LedgerInv`: every row names its predecessor's hash, and its own hash was made
from an event of the process, which it still holds unless it was edited. An edited row then
fails its own hash and every other row passes, so the first row at which the walk can stop
is the first that was edited.

**Ceremony.** `TermsSurvive` is about the operators alone, for any request with the types of
the input schema. `IInv` adds to the run's invariants

- `OfferInv`: a proposal holds what was asked for, and a page has seen no other;
- `SignedInv`: an intent, in a page or in the network, says of its proposal what the proposal
  says, and promises no more time;
- `OriginInv`: a mandate id goes with one source wherever it appears, and each row of the
  table is a body that was posted;
- `ConsumeInv`: a page that is about to consume has the mandate of that proposal.

`StepKinds` reduces the actions to what they change of pages, bodies and rows, and
`TableKinds` to what they change of tokens, rows and ledger; each invariant is proved over
those. `KeepsLedger` needs only that the events are well formed.

**Purchase.** That a token buys once follows from a bijection the code keeps and states nowhere:

- `KeyInv`: one entry per key; an accepted one has its settlement, made of the entry's body, and
  each settlement has the accepted entry of its cart's id. The sweep drops only entries that were
  never answered, so it cannot free a key that has bought;
- `NetInv`: a request is its caller's only one and its key is its cart's id, which is where the
  cart's price could have come in and does not;
- `CallInv`: what an attempt polls is its own settlement; "not completed" is told of an id whose
  key is answered (`Lapsed`), so that no settlement can join under it afterwards.

Choosing has an invariant of its own, `OrdersInv`: every cart an attempt holds is one that
`BoughtAsAsked` and `GuardedPick` allow, a tool's errand is well formed once it is past the
schema, and the lists read are ones a scan published. Each operator of a choice has a lemma
(`NamedSays`, `CheapestSays`, `ChoiceSays`, `VariantSays`); `CountsFit` shows that counting the
values, as `splice` does, is finding each a place of its own, for the two values the tool takes.

`Fine` says of each action which of six things it does to the tables (`TableStep`) and which of
three to one attempt and its request (`CallStep`); the invariant is proved over these.

**Catalogue.** A scan is made of loops over lists, and each loop is a recursive function on the
numbers up to the list's length (`ForEach`). Induction over that is the least-number argument
again (`UpTo`): what holds before a loop and over each turn of it holds after (`RunStays`, with
one corollary per loop body), for an invariant given as one set per turn. From these come what
`filter` leaves (`KeepIs`), what a map of variants or of handles ends up holding
(`MergeVariantsIs`, `ByHandleIs`) and what deduplication loses (`DedupeIs`). The invariant of a
scan (`ScanOK`) says that its products are of one sku each, except between the pages of a feed,
where every record heard so far is told of by a product collected so far or is of a shadow's
handle; that is what survives deduplicating page by page and then across pages (`JoinedTells`,
`TellsOn`), and the cap on products is where it ends (`CapKeeps`). Beside it, `Shops`: a store
that is listed has the prices of its list. So a registration by hand, which asks only whether
there are prices, never meets a listed store, and republishing the same list is no change.

**Search.** Every answer is a function of what the stores list, and `Shops` says what that is. The
loops are those of a scan with two bodies more: the one that reads the stores (`LoadIs`: whatever
the order, the same products, each once) and the stable sort (`EnterIs`, `SortIs`: what is put in
where it belongs leaves a list in order). `compareRanked` ties no two products of different
store or sku, so two lists in order that hold the same are the same (`OneOrder`, from the least
place at which they would differ); so the order of the stores does not show (`AnyOrder`). A price
shown is the gate's because a listed sku is listed once (`ListedOnce`). The two counts, of what
the limit cuts off and of what an upsell can offer, are injections between places (`HitsFit`).

**Only model-checked.** `ApprovedResolves`, `SettlingResumes`, `LateCaptureConverges`,
`ReservationResolves` and `ScanEnds` are liveness properties under fairness, which TLAPS does
not handle. Every safety property the passing runs check has its theorem.

## 6. Not modelled, and why

- *Evaluation harness, demo scripts, demo stores, spikes, npm wrapper, deployment*: they keep
  no protocol state. The poisoned listing of the demo is a constant of `Purchase`.
- *The checkout driver's clicks*: I/O in the provider's page. Its effect on payments and its
  three outcomes are actions of `Execution`.
- *Canonical JSON and cryptography*: symbolic. That two mandates never share a hash is an
  assumption here, not a result.
- *`sweepTransientSettlements`, `sweepStaleVerified`, `handleProviderCapture`*: no code path of
  the process reaches a state in which they act.
- *`GET /ledger`, `GET /approvals`, a search's merchant filter, the demo store's
  seeding, session transcripts, the agent's key file*: reads and files that nothing else
  depends on.
- *Rendering, wording, logging, the address ranges of `ip-guard.ts`*: outside any property.

`Ceremony!OneBudgetPerProposal`, `Receipts!RejectedHasNeither`, and the statements of the
list below are true of the documentation and not of the code, and no run is spent on them.

## 7. Where code and documentation part

Found while translating, beside the three runs of section 3:

*Money.*
- `sweep.ts:176`: a payment link's row has no order id, so no webhook and no sweep rule ever
  finds it, paid or not, and its live row keeps the settlement settling;
  `docs/architecture.md:169-170` promises captured or abandoned.
- `sweep.ts:154`: the sweep polls live attempts only; without its webhook the capture of a
  failed attempt is not seen, against `architecture.md:172`.
- `routes/refund.ts:99-106`: a retried refund does not replay; the key travels in the notes
  (`razorpay-client.ts:127-133`), so the retry is refused and `refund_issued` is never written.
- `mandate-repo.ts:58`: a mandate is a cumulative wallet; `architecture.md:128` calls it spent
  after one capture.
- `reconcile.ts:140`: two concurrent compensators may both request the refund.
- `idempotency.ts:41-42`: "nothing in this schema ever" deletes a key; `sweep.ts:338` does.
  `KeepsTill` and `KeysAreExact` show that it is harmless.
- `checkout-driver.ts:260-262`: a page server that fails to start stays failed for the life of the
  process.

*The ceremony.*
- One proposal approved in two pages becomes two mandates: consumption is not a condition of
  registration (`OneBudgetPerProposal`; `MandateProposalCard.tsx:104`).
- *fac*`/routes/mandate-proposals.ts:44-52`, `MandateProposalCard.tsx:77` and `prepare-mandate.ts:161-178` call a budget
  with a cumulative line hands-free; the form cannot set policies at all.
- `identity-context.tsx:85-123`: a key made in one page replaces what another has stored; revoking
  then needs a key that is gone. A lost answer to the form loses the agent's key.
- A pending settlement under another signed version of the intent cannot be decided in the
  dashboard (`PendingApprovals` signs the row's hash, the route compares the stored intent's):
  it can only expire.

*Reading and buying.*
- `get-order.ts:11-15`: "a rejected or still-pending settlement has neither" event; one that is
  rejected when it should settle keeps its first (`RejectedHasNeither`). The 50 newest events
  may hide `verify_passed`.
- `stores.ts:92-93`: the price of record is that of a product's first variant, so another
  variant at its own price is refused PRICE_MISMATCH.
- `scanner.ts:630`: a product is as available as its first variant; an in-stock search hides a shoe
  whose first size is sold out. Derived skus that collide drop a product, a redirect may list
  a store under two merchant ids, and the last of two onboardings wins.
- `llm-client.ts:102-112` drops the variant that `llm-brain.ts:319-327` asks the model for.
- `request-purchase.ts:116-119` takes the first of several exact matches; its own comment asks
  for a failure.
- `toOutcome` (`claude-brain.ts:279-285` and its two copies) and `MandatesList.tsx:34-50` report a purchase
  that is still settling (`POLL_TIMEOUT`) as `blocked`, as they do a rejection and would a contested
  key; `request-purchase.ts` keeps the three apart. `TellsTruth` claims nothing of `blocked`.
- `list-orders.ts:70`: the list is cut at 20 orders, 100 at most, and its `count` is that of the cut;
  past the limit the captured orders listed do not add up to what `GET /mandates` shows as spent.
- `browser-scan.ts:115-119` keeps the first record of a sku across pages, in stock or not; only the
  server-side scan merges as `StockKept` says.
- `catalog-search.ts:29-31`: a title match does not "always" outrank a description: one title token
  scores 3, a whole query inside a description more.

## 8. Plan

Done: every component that keeps protocol state, as far as section 6 does not exclude it; the
refinements of `PaymentPromise`, `Wallet`, `Till`, `Ledger` and `Listing`. Left, in this order:

1. Buyers over `Till` itself instead of the reduction of `Settlements` that meets them now. That
   both implement `Till` excludes that the reduction does what the code would not; it does not
   show that it does everything the code may.
2. Two browsers: keys that one never had, and a proposal approved in each.
