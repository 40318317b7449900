------------------------------ MODULE Receipts ------------------------------
(***************************************************************************)
(* What is told about settlements afterwards: the ledger events that each  *)
(* step of a settlement leaves in its own transaction, and the views read  *)
(* from them and from the tables - GET /settlements, GET /mandates, the    *)
(* MCP server's get_order, list_orders and get_agent_identity, and the     *)
(* dashboard's receipt.  Extends Settlements, step by step, with the       *)
(* ledger; the events of payment attempts are left to module Execution.    *)
(***************************************************************************)
EXTENDS Settlements, SequencesExt

CONSTANTS
  Agent,         \* keys an agent may sign with
  LedgerLimit,   \* events that a read of a settlement returns, the newest
  OrderLimit,    \* orders that list_orders returns, the newest
  MaxDecisions   \* bound on the decisions an agent records

\* What is well formed is what validateCartSchema lets pass: something is bought, and paid for.
ASSUME ReceiptsAssumption ==
  /\ LedgerLimit \in Nat /\ OrderLimit \in Nat \ {0} /\ MaxDecisions \in Nat
  /\ \A cart \in Cart : cart.wellFormed =>
       /\ Len(cart.items) \in Nat \ {0} /\ DOMAIN cart.items = 1 .. Len(cart.items)
       /\ \A i \in DOMAIN cart.items : {cart.items[i].qty, cart.items[i].price} \subseteq Nat \ {0}

VARIABLE ledger   \* ledger_events of each settlement, the oldest first

receiptVars == <<now, stored, revoked, row, approval, key, ledger>>

InitReceipts == Init /\ ledger = [s \in Settlement |-> <<>>]

-----------------------------------------------------------------------------
(* The event each step appends.                                            *)

Log(s, event) == ledger' = [ledger EXCEPT ![s] = Append(@, event)]

\* createSettlement.
CreationEvent(state) ==
  CASE state = "rejected"         -> "verify_rejected"
    [] state = "pending_approval" -> "approval_requested"
    [] state = "approved"         -> "verify_passed"

Create(k, r) ==
  /\ PostSettlement(k, r)
  /\ IF row' = row THEN UNCHANGED ledger ELSE Log(FreeId, CreationEvent(row'[FreeId].state))

DecideLogged(s, decision) ==
  /\ Decide(s, decision)
  /\ Log(s, IF decision = "approved" THEN "approval_granted" ELSE "approval_rejected")
RejectLogged(s) == RejectAtSettling(s) /\ Log(s, "verify_rejected")
CaptureLogged(s) == Capture(s) /\ Log(s, "payment_captured")

\* Mutant of Abandon: the transition without its event.
AbandonSilently(s, event) == UNCHANGED ledger
\* abandonSettlement, which the sweep's rules share.
Abandon(s, event) == Log(s, event)
ExpireLogged(s) == SweepApproval(s) /\ Abandon(s, "approval_expired")
AbandonLogged(s, budgetSpent) ==
  SweepApproved(s, budgetSpent) /\ Abandon(s, "settlement_abandoned")

\* One key, of one of the two credential types, has made a signature or it has not.
verifyMandateSignature(signer, credential) == signer = credential

Decisions(s) == SelectSeq(ledger[s], LAMBDA e : e = "agent_decision")

\* POST /settlements/:id/decisions, signed by the agent the stored intent names.
RecordDecision(s, signer) ==
  /\ row[s] # NoRow /\ Len(Decisions(s)) < MaxDecisions
  /\ verifyMandateSignature(signer, stored[row[s].mandate].agent)
  /\ Log(s, "agent_decision")
  /\ UNCHANGED vars

TickLogged == Tick /\ UNCHANGED ledger

NextReceipts ==
  \/ /\ \/ \E i \in Intent : Register(i)
        \/ \E m \in Mandate : Revoke(m)
        \/ \E k \in Key : SweepLock(k) \/ \E r \in Request : ClaimThenCrash(k, r)
        \/ \E s \in Settlement : EnterSettling(s)
     /\ UNCHANGED ledger
  \/ \E k \in Key, r \in Request : Create(k, r)
  \/ \E s \in Settlement :
       \/ \E decision \in {"approved", "rejected"} : DecideLogged(s, decision)
       \/ RejectLogged(s) \/ CaptureLogged(s) \/ ExpireLogged(s)
       \/ \E budgetSpent \in BOOLEAN : AbandonLogged(s, budgetSpent)
       \/ \E signer \in Agent : RecordDecision(s, signer)
  \/ TickLogged

\* The clock runs and the sweep's timer keeps firing; nobody else need ever act.
SpecReceipts ==
  /\ InitReceipts /\ [][NextReceipts]_receiptVars
  /\ WF_receiptVars(TickLogged)
  /\ \A s \in Settlement :
       WF_receiptVars(ExpireLogged(s)) /\ WF_receiptVars(AbandonLogged(s, FALSE))

-----------------------------------------------------------------------------
(* The views.                                                              *)

Remaining(m) == IF Spent(m) >= stored[m].ceiling THEN 0 ELSE stored[m].ceiling - Spent(m)

\* Mutant of WalletState: expiry is shown without the gate's grace.
WalletStateNoGrace(m) ==
  IF m \in revoked THEN "revoked"
  ELSE IF now > stored[m].expires THEN "expired"
  ELSE IF Remaining(m) = 0 THEN "consumed" ELSE "active"

\* GET /mandates: the state of a wallet, with a grace of its own.
WalletState(m) ==
  IF m \in revoked THEN "revoked"
  ELSE IF now > stored[m].expires + clockSkewSec THEN "expired"
  ELSE IF Remaining(m) = 0 THEN "consumed" ELSE "active"

Registry == {m \in Mandate : Registered(m)}
listMandates ==
  {[id |-> m, agent |-> stored[m].agent, spent |-> Spent(m), remaining |-> Remaining(m),
    state |-> WalletState(m)] : m \in Registry}

\* get_agent_identity, and the mandates list_orders takes for its own.
AuthorizingMandates(agent) == {m \in listMandates : m.agent = agent}

\* GET /settlements, which has no limit.
listSettlements == {s \in Settlement : row[s] # NoRow}

\* The orders of an agent's own mandates that are in a state asked for.
ownOrders(agent, states) ==
  {s \in listSettlements :
     row[s].state \in states /\ \E m \in AuthorizingMandates(agent) : m.id = row[s].mandate}

\* list_orders: what it may answer, all of them or as many as its limit.  Which are the newest
\* is left open.
listOrders(agent, states) ==
  LET scoped == ownOrders(agent, states)
  IN IF Cardinality(scoped) <= OrderLimit THEN {scoped} ELSE kSubset(OrderLimit, scoped)

\* GET /settlements/:id: the row, the decision, and the newest events only.
settlementResponse(s) ==
  [row |-> row[s], approval |-> approval[s],
   ledger |-> LET n == Len(ledger[s])
              IN IF n <= LedgerLimit THEN ledger[s] ELSE SubSeq(ledger[s], n - LedgerLimit + 1, n)]

\* What the MCP server keeps of it: the decision is not among what an agent is told.
getSettlement(s) ==
  LET response == settlementResponse(s) IN [state |-> response.row.state, ledger |-> response.ledger]

\* POST /verify: the gate's answer, and nothing is written.
verify(intent, cart) ==
  LET ctx == VerifyCtx(intent, cart, NoSettlement)
  IN IF Accepts(intent, cart, ctx)
     THEN [ok |-> TRUE, needsApproval |-> NeedsApproval(intent, cart, ctx)]
     ELSE [ok |-> FALSE, reason |-> Reason(intent, cart, ctx)]

GATE_PASSED_EVENTS == {"verify_passed", "approval_granted"}

\* get_order: whether it reports the gate's checks as passed.
checksPassed(s) == \E e \in ToSet(getSettlement(s).ledger) : e \in GATE_PASSED_EVENTS

\* The checks get_order claims for a settlement; the last two only when the mandate was looked
\* up and sets the constraint.
describeChecksPassed(s, intent) ==
  {"signatures", "hash_link", "line_items", "prices", "merchant_scope", "live", "ceiling",
   "unique_cart"}
  \cup {c \in {"merchant_limit", "skus"} :
         /\ intent # NoIntent
         /\ CASE c = "merchant_limit" -> intent.limits[row[s].cart.merchant] # NoLimit
              [] c = "skus"           -> intent.skus # {}}

\* get_order.  A mandate that cannot be looked up leaves the audit without its constraints.
getOrder(s, lookup) ==
  LET receipt == getSettlement(s)
      intent == IF lookup THEN stored[row[s].mandate] ELSE NoIntent
  IN [state         |-> receipt.state,
      timeline      |-> receipt.ledger,
      authorizedBy  |-> IF lookup THEN row[s].mandate ELSE NoIntent,
      checks_passed |-> IF checksPassed(s) THEN describeChecksPassed(s, intent) ELSE {}]

\* The dashboard's receipt shows the mandate that is registered now, not the one the cart
\* was posted with.
findMandateIntent(m) == IF m \in Registry THEN stored[m] ELSE NoIntent
OrderDetail(s) ==
  LET response == settlementResponse(s)
  IN [cart |-> response.row.cart, intent |-> findMandateIntent(response.row.mandate)]

-----------------------------------------------------------------------------
(* What must hold.                                                         *)

\* The audit trail and the tables tell one story of a settlement: each end it came to and each
\* decision is in the ledger, nothing is that did not happen, and no charge is without the
\* record of a gate that passed (get-order.ts: "proof the deterministic gate accepted").
LedgerTellsState ==
  \A s \in Settlement :
    LET Says(e) == e \in ToSet(ledger[s]) IN
    /\ row[s] = NoRow => ledger[s] = <<>>
    /\ In(s, "captured") <=> Says("payment_captured")
    /\ In(s, "abandoned") <=> Says("settlement_abandoned") \/ Says("approval_expired")
    /\ approval[s] = "approved" <=> Says("approval_granted")
    /\ approval[s] = "rejected" <=> Says("approval_rejected")
    /\ Says("verify_rejected") <=> In(s, "rejected") /\ approval[s] # "rejected"
    /\ Says("approval_requested") \/ approval[s] = "none"
    /\ row[s].state \in {"settling", "captured"} /\ Len(ledger[s]) <= LedgerLimit =>
         getOrder(s, TRUE).checks_passed # {}

\* read.ts: "the display balance and the enforced balance can never drift" and "expired here
\* can't disagree with what a settlement attempt would actually be rejected for": whatever the
\* gate would accept now, the wallet is shown active with at least as much left; the
\* captured orders that list_orders lists, asked for them or for all, add up to the spending that
\* is shown, unless there are more orders than its limit; and the mandate that a receipt shows
\* beside money is the one whose hash the settlement was made under.
ShownIsEnforced ==
  /\ \A m \in Registry, cart \in Cart :
       \/ WalletState(m) = "active" /\ cart.total <= Remaining(m)
       \/ ~verify(stored[m], cart).ok
  /\ \A agent \in Agent, states \in {{"captured"}, SettlementState} :
       \A m \in AuthorizingMandates(agent), orders \in listOrders(agent, states) :
         \/ Cardinality(ownOrders(agent, states)) > OrderLimit
         \/ m.spent = Total({s \in orders : row[s].mandate = m.id /\ In(s, "captured")})
  /\ \A s \in listSettlements :
       row[s].state \in {"settling", "captured"} =>
         LET shown == OrderDetail(s)
         IN MandateCartHash(shown.intent, shown.cart) = row[s].hash

-----------------------------------------------------------------------------
(* What the documentation says of receipts and the code does not do.       *)

\* get-order.ts:11-15, of the two events: "a rejected or still-pending settlement has neither".
RejectedHasNeither ==
  \A s \in Settlement : row[s].state \in {"rejected", "pending_approval"} => ~checksPassed(s)
=============================================================================
