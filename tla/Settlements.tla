---------------------------- MODULE Settlements -----------------------------
(***************************************************************************)
(* A mandate and the settlements made under it: registration, POST         *)
(* /settlements with its idempotency keys, the verification gate at        *)
(* creation and again before money moves, the human's decision,            *)
(* revocation, expiry and the sweep.  Every action is one request or one   *)
(* sweep rule: better-sqlite3 is synchronous and none of these handlers    *)
(* awaits.  What happens inside settling is module Execution; here it is   *)
(* the single step Capture.                                                *)
(***************************************************************************)
EXTENDS Naturals, FiniteSets, StateMachine, MandateGate

CONSTANTS
  Mandate,        \* mandate ids
  Merchant,
  Intent,         \* signed intents, several versions of one mandate among them
  Request,        \* bodies of POST /settlements: [intent, cart]
  Settlement,     \* ids for rows of settlements (a bound on their number)
  Key,            \* idempotency keys
  NoIntent, NoCart, NoRequest, NoSettlement,
  catalogPrices,  \* per merchant, the prices by sku or NoPrice
  approvalTtl,    \* sweep TTLs, in ticks
  approvedStale,
  idempotencyLockStale,
  MaxTime,        \* bound on the clock
  LastDecision    \* bound on when a human still decides, which leaves the sweep time

ASSUME SettlementsAssumption ==
  /\ IsFiniteSet(Settlement)
  /\ NoSettlement \notin Settlement /\ NoIntent \notin Intent
  /\ NoLimit \notin Nat
  /\ \A r \in Request : /\ r.intent \in Intent /\ r.cart.merchant \in Merchant
                        /\ r.cart.total \in Nat
  /\ \A i \in Intent :
       /\ i.mandate \in Mandate /\ i.signer # NoCredential
       /\ i.ceiling \in Nat /\ i.expires \in Nat
       /\ i.limits \in [Merchant -> Nat \cup {NoLimit}]
  /\ \A i, j \in Intent : i.version = j.version => i = j
  /\ approvalTtl \in Nat /\ approvedStale \in Nat /\ idempotencyLockStale \in Nat /\ MaxTime \in Nat

\* A timestamp is kept while the code may still read it, and is 0 otherwise: `since` of
\* a row is its pending_approval_at or approved_at.
VARIABLES
  now,        \* the wall clock
  stored,     \* mandates.intent_json
  revoked,    \* mandates.revoked_at
  row,        \* settlements
  approval,   \* approvals.decision
  key         \* idempotency_keys

vars == <<now, stored, revoked, row, approval, key>>

NoRow == [mandate |-> "none", hash |-> "none", cart |-> NoCart, state |-> "none",
          since |-> 0, reason |-> "none"]
Cart == {r.cart : r \in Request}
MandateCartHash(intent, cart) == <<intent.version, cart>>
Row ==
  [mandate : Mandate, hash : {MandateCartHash(i, c) : i \in Intent, c \in Cart}, cart : Cart,
   state : SettlementState, since : 0 .. MaxTime,
   reason : RejectionCode \cup {"none", "approval_rejected"}]

NoEntry == [request |-> NoRequest, locked |-> FALSE, sid |-> NoSettlement, at |-> 0]
Entry == [request : Request, locked : BOOLEAN, sid : Settlement \cup {NoSettlement},
          at : 0 .. MaxTime]

Init ==
  /\ now = 0
  /\ stored = [m \in Mandate |-> NoIntent]
  /\ revoked = {}
  /\ row = [s \in Settlement |-> NoRow]
  /\ approval = [s \in Settlement |-> "none"]
  /\ key = [k \in Key |-> NoEntry]

-----------------------------------------------------------------------------
(* Queries.                                                                *)

Registered(m) == stored[m] # NoIntent
RowsOf(m) == {s \in Settlement : row[s].mandate = m}
In(s, state) == row[s].state = state
Holding(s) == row[s] # NoRow /\ row[s].state \notin ReleasedSettlement
Open(s) == row[s] # NoRow /\ row[s].state \notin TerminalSettlement

Captured(m) == {s \in RowsOf(m) : In(s, "captured")}
CapturedAt(m, merchant) == {s \in Captured(m) : row[s].cart.merchant = merchant}
Total(rows) == SumFunction([s \in rows |-> row[s].cart.total])

\* getCapturedSpend, getCapturedSpendAtMerchant.
Spent(m) == Total(Captured(m))
SpentAt(m, merchant) == Total(CapturedAt(m, merchant))

\* buildVerifyCtx; `self` is left out of the duplicate lookup.
VerifyCtx(intent, cart, self) ==
  LET m == intent.mandate IN
  [credential |-> IF Registered(m) THEN stored[m].signer ELSE NoCredential,
   now |-> now,
   revoked |-> m \in revoked,
   spent |-> Spent(m),
   merchantSpent |-> SpentAt(m, cart.merchant),
   duplicate |-> \E t \in Settlement \ {self} :
                   Holding(t) /\ row[t].hash = MandateCartHash(intent, cart),
   prices |-> catalogPrices]

-----------------------------------------------------------------------------
(* Mandates.                                                               *)

\* POST /mandates: the credential of the body is bound; a known mandate id is refused.
Register(i) ==
  /\ ~Registered(i.mandate)
  /\ stored' = [stored EXCEPT ![i.mandate] = i]
  /\ UNCHANGED <<now, revoked, row, approval, key>>

\* Mutant of Revoke: an unknown mandate id is marked as well.
RevokeAny(m) ==
  /\ revoked' = revoked \cup {m}
  /\ UNCHANGED <<now, stored, row, approval, key>>

\* POST /revoke, signed by the registered credential; idempotent.
Revoke(m) ==
  /\ Registered(m) /\ m \notin revoked
  /\ revoked' = revoked \cup {m}
  /\ UNCHANGED <<now, stored, row, approval, key>>

-----------------------------------------------------------------------------
(* POST /settlements.                                                      *)

\* Mutant of Clash: no one_live_settlement_per_mandate.
ClashCartOnly(r) ==
  \E t \in Settlement : Holding(t) /\ row[t].hash = MandateCartHash(r.intent, r.cart)

\* The INSERT trips one of the two partial unique indexes.
Clash(r) ==
  \E t \in Settlement :
    \/ Holding(t) /\ row[t].hash = MandateCartHash(r.intent, r.cart)
    \/ Open(t) /\ row[t].mandate = r.intent.mandate

\* createSettlement walks the new row from created to one of three states.
CreatedRow(r, s) ==
  LET ctx == VerifyCtx(r.intent, r.cart, s)
      new(state, since, reason) ==
        [mandate |-> r.intent.mandate, hash |-> MandateCartHash(r.intent, r.cart),
         cart |-> r.cart, state |-> state, since |-> since, reason |-> reason]
  IN IF ~Accepts(r.intent, r.cart, ctx)
       THEN new("rejected", 0, Reason(r.intent, r.cart, ctx))
     ELSE IF NeedsApproval(r.intent, r.cart, ctx) THEN new("pending_approval", now, "none")
     ELSE new("approved", now, "none")

Complete(k, r, sid) ==
  key' = [key EXCEPT ![k] = [request |-> r, locked |-> FALSE, sid |-> sid, at |-> 0]]

FreeId == CHOOSE s \in Settlement : row[s] = NoRow

\* A key not seen before is claimed and completed with the response.  The other
\* claims (key reused, in flight, completed) answer and change nothing.
PostSettlement(k, r) ==
  /\ key[k] = NoEntry
  /\ IF ~Registered(r.intent.mandate) \/ Clash(r)
       THEN Complete(k, r, NoSettlement) /\ UNCHANGED row
       ELSE /\ \E s \in Settlement : row[s] = NoRow
            /\ row' = [row EXCEPT ![FreeId] = CreatedRow(r, FreeId)]
            /\ Complete(k, r, FreeId)
  /\ UNCHANGED <<now, stored, revoked, approval>>

\* The claim commits on its own, and the process dies before the business transaction.
ClaimThenCrash(k, r) ==
  /\ key[k] = NoEntry
  /\ key' = [key EXCEPT ![k] = [request |-> r, locked |-> TRUE, sid |-> NoSettlement, at |-> now]]
  /\ UNCHANGED <<now, stored, revoked, row, approval>>

\* Mutant of SweepLock: completed keys are cleared too.
SweepAnyKey(k) ==
  /\ key[k] # NoEntry /\ now > key[k].at + idempotencyLockStale
  /\ key' = [key EXCEPT ![k] = NoEntry]
  /\ UNCHANGED <<now, stored, revoked, row, approval>>

\* sweepStaleIdempotencyLocks.
SweepLock(k) ==
  /\ key[k].locked /\ now > key[k].at + idempotencyLockStale
  /\ key' = [key EXCEPT ![k] = NoEntry]
  /\ UNCHANGED <<now, stored, revoked, row, approval>>

-----------------------------------------------------------------------------
(* Decisions, and the executor's entry into settling.                      *)

\* transitionSettlement; reject_reason is null up to the rejection that sets it.
Move(s, from, to, reason) ==
  /\ SettlementCAS(row[s].state, from, to)
  /\ row' = [row EXCEPT ![s].state = to, ![s].reason = reason,
                        ![s].since = IF to = "approved" THEN now ELSE 0]

\* Mutant of Decide: the approvals row is not part of the transaction.
DecideUnrecorded(s, decision) ==
  /\ In(s, "pending_approval") /\ approval[s] = "none" /\ now <= LastDecision
  /\ Move(s, "pending_approval", decision,
          IF decision = "rejected" THEN "approval_rejected" ELSE "none")
  /\ UNCHANGED <<now, stored, revoked, approval, key>>

\* POST /approvals.  The human signs the hash of the stored intent and cart; the
\* hash on the row is not compared here, and no deadline is.
Decide(s, decision) ==
  /\ In(s, "pending_approval") /\ approval[s] = "none" /\ now <= LastDecision
  /\ approval' = [approval EXCEPT ![s] = decision]
  /\ Move(s, "pending_approval", decision,
          IF decision = "rejected" THEN "approval_rejected" ELSE "none")
  /\ UNCHANGED <<now, stored, revoked, key>>

\* Mutant of Reverifies: the hash alone is compared again.
ReverifiesHashOnly(s) == MandateCartHash(stored[row[s].mandate], row[s].cart) = row[s].hash

\* reverifyAndEnterSettling: the STORED intent, against the hash on the row.
Reverifies(s) ==
  LET intent == stored[row[s].mandate]  cart == row[s].cart IN
  /\ MandateCartHash(intent, cart) = row[s].hash
  /\ Accepts(intent, cart, VerifyCtx(intent, cart, s))

EnterSettling(s) ==
  /\ In(s, "approved") /\ Reverifies(s)
  /\ Move(s, "approved", "settling", "none")
  /\ UNCHANGED <<now, stored, revoked, approval, key>>

RejectAtSettling(s) ==
  LET intent == stored[row[s].mandate]  cart == row[s].cart IN
  /\ In(s, "approved") /\ ~Reverifies(s)
  /\ Move(s, "approved", "rejected",
          IF MandateCartHash(intent, cart) # row[s].hash THEN "HASH_LINK_MISMATCH"
          ELSE Reason(intent, cart, VerifyCtx(intent, cart, s)))
  /\ UNCHANGED <<now, stored, revoked, approval, key>>

\* Some attempt of the settlement captures (module Execution).
Capture(s) ==
  /\ Move(s, "settling", "captured", "none")
  /\ UNCHANGED <<now, stored, revoked, approval, key>>

-----------------------------------------------------------------------------
(* The sweep's rules for settlements, and time.                            *)

Minimum(a, b) == IF a <= b THEN a ELSE b

\* Mutant of SweepApproval: the deadline is not capped by the mandate's own expiry.
SweepApprovalUncapped(s) ==
  /\ In(s, "pending_approval")
  /\ now > row[s].since + approvalTtl
  /\ Move(s, "pending_approval", "abandoned", "none")
  /\ UNCHANGED <<now, stored, revoked, approval, key>>

\* sweepExpiredApprovals.
SweepApproval(s) ==
  /\ In(s, "pending_approval")
  /\ now > Minimum(row[s].since + approvalTtl, stored[row[s].mandate].expires)
  /\ Move(s, "pending_approval", "abandoned", "none")
  /\ UNCHANGED <<now, stored, revoked, approval, key>>

\* sweepStaleApproved: not kicked off for a while, and the mandate has expired, with
\* no grace, or the kick budget, which module Execution counts, is spent.
SweepApproved(s, budgetSpent) ==
  /\ In(s, "approved") /\ now > row[s].since + approvedStale
  /\ budgetSpent \/ now > stored[row[s].mandate].expires
  /\ Move(s, "approved", "abandoned", "none")
  /\ UNCHANGED <<now, stored, revoked, approval, key>>

Tick ==
  /\ now < MaxTime /\ now' = now + 1
  /\ UNCHANGED <<stored, revoked, row, approval, key>>

-----------------------------------------------------------------------------
SettlementStep(s) ==
  \/ \E decision \in {"approved", "rejected"} : Decide(s, decision)
  \/ EnterSettling(s) \/ RejectAtSettling(s) \/ Capture(s)
  \/ SweepApproval(s)
  \/ \E budgetSpent \in BOOLEAN : SweepApproved(s, budgetSpent)

Next ==
  \/ \E i \in Intent : Register(i)
  \/ \E m \in Mandate : Revoke(m)
  \/ \E k \in Key : \/ \E r \in Request : PostSettlement(k, r) \/ ClaimThenCrash(k, r)
                    \/ SweepLock(k)
  \/ \E s \in Settlement : SettlementStep(s)
  \/ Tick

Spec == Init /\ [][Next]_vars

-----------------------------------------------------------------------------
(* Properties.                                                             *)

\* Every row and key is one the code can write.
TypeOK ==
  /\ now \in 0 .. MaxTime
  /\ stored \in [Mandate -> Intent \cup {NoIntent}]
  /\ revoked \subseteq {m \in Mandate : Registered(m)}
  /\ row \in [Settlement -> Row \cup {NoRow}]
  /\ approval \in [Settlement -> {"none", "approved", "rejected"}]
  /\ key \in [Key -> Entry \cup {NoEntry}]

\* The reservation lock serialises a mandate: at most one settlement of it is open,
\* whichever version of the intent the agent posts (one_live_settlement_per_mandate).
OneReservation ==
  \A s, t \in Settlement :
    Open(s) /\ Open(t) /\ row[s].mandate = row[t].mandate => s = t

\* A settlement that moves money without a decision of the human's was below both of
\* the stored intent's thresholds, counting what the mandate has spent by now and not
\* what it had spent when the agent posted it: small carts cannot add up past the
\* cumulative line (needsApproval at creation, the executor does not compute it again).
HumanInTheLoop ==
  \A s \in Settlement :
    In(s, "settling") /\ approval[s] # "approved" =>
      LET intent == stored[row[s].mandate]  cart == row[s].cart
      IN ~NeedsApproval(intent, cart, VerifyCtx(intent, cart, s))

\* No money moves under authority that is gone by then: at the step that enters
\* settling the mandate is not revoked, not past its grace, and the cart is the agent's,
\* for the intent the human registered and a merchant in its scope, however long the
\* approval waited (reverifyAndEnterSettling).
AuthorityAtSettling ==
  [][\A s \in Settlement :
       row[s].state # "settling" /\ row'[s].state = "settling" =>
         LET m == row[s].mandate IN
         /\ m \notin revoked
         /\ now <= stored[m].expires + clockSkewSec
         /\ row[s].cart.merchant \in stored[m].merchants
         /\ row[s].cart.intent = stored[m].version
         /\ row[s].cart.signer = stored[m].agent]_vars

\* Every decision has its row and every row its outcome: a settlement decided on is
\* where the decision sent it or further, one still pending has none (approvals).
DecisionAgreement ==
  \A s \in Settlement :
    /\ approval[s] = "approved" =>
         row[s].state \in {"approved", "settling", "captured", "rejected", "abandoned"}
    /\ approval[s] = "rejected" => In(s, "rejected")
    /\ row[s].reason = "approval_rejected" => approval[s] = "rejected"
    /\ In(s, "pending_approval") => approval[s] = "none"

\* Each settlement answers exactly one idempotency key, for the request it was made
\* from, over crashes and cleared locks: a client that retries its key never makes a
\* second settlement (claimIdempotencyKey, sweepStaleIdempotencyLocks).
OneKeyPerSettlement ==
  /\ \A s \in Settlement :
       row[s] # NoRow => \E k \in Key : key[k].sid = s /\ key[k].request.cart = row[s].cart
  /\ \A k, l \in Key : key[k].sid = key[l].sid /\ key[k].sid # NoSettlement => k = l
  /\ \A k \in Key : key[k].locked => key[k].sid = NoSettlement

\* Captured and settling money of a mandate stays within the sub-ceiling the human
\* set for a merchant, over any sequence of purchases (getCapturedSpendAtMerchant).
MerchantWithinLimit ==
  \A m \in Mandate, merchant \in Merchant :
    Registered(m) /\ stored[m].limits[merchant] # NoLimit =>
      Total({s \in RowsOf(m) : /\ row[s].state \in {"settling", "captured"}
                               /\ row[s].cart.merchant = merchant})
        <= stored[m].limits[merchant]

\* verify.ts:272-275, "a revoked mandate must report REVOKED, not a budget error, even
\* when it's also over budget": so a budget refusal tells the human the mandate lives.
RevokedReportsRevoked ==
  [][\A s \in Settlement :
       row'[s] # row[s] /\ row'[s].reason \in {"AMOUNT_EXCEEDS_CEILING", "MERCHANT_LIMIT_EXCEEDED"}
         => row'[s].mandate \notin revoked]_vars

Wallet == INSTANCE Wallet WITH
  Closed <- NoLimit,
  ceiling <- [m \in Mandate |-> IF Registered(m) THEN stored[m].ceiling ELSE NoLimit],
  spent <- [m \in Mandate |-> Spent(m)],
  reserved <- [m \in Mandate |-> Total({s \in RowsOf(m) : In(s, "settling")})]

\* Each mandate is the wallet its human was promised: one reservation at a time, and
\* captured plus settling money never above the registered ceiling.
KeepsWallet == Wallet!Spec

\* What the posting agents see of the two tables.
KeySeen(k) ==
  [key |-> k, locked |-> key[k].locked, sale |-> key[k].sid,
   body |-> [mandate |-> key[k].request.intent.mandate,
             hash |-> MandateCartHash(key[k].request.intent, key[k].request.cart)]]
KeysInUse == {KeySeen(k) : k \in {k \in Key : key[k] # NoEntry}}
SalesMade == [s \in {s \in Settlement : row[s] # NoRow} |->
                [mandate |-> row[s].mandate, hash |-> row[s].hash, state |-> row[s].state]]

Till == INSTANCE Till WITH NoSale <- NoSettlement, entries <- KeysInUse, sales <- SalesMade

\* POST /settlements is the till an agent counts on, over retries, crashes between claim
\* and transaction, and swept locks: a key is answered once and names the settlement made
\* for its very body, and no purchase is taken in twice (claimIdempotencyKey,
\* createSettlement, sweepStaleIdempotencyLocks).
KeepsTill == Till!Spec

\* A reservation is released without anybody's help: a settlement waiting for a
\* decision or for the executor is left by the sweep when its mandate has expired.
ReservationResolves ==
  \A s \in Settlement :
    row[s].state \in {"pending_approval", "approved"}
      ~> row[s].state \notin {"pending_approval", "approved"}
=============================================================================
