------------------------- MODULE Settlements_proofs -------------------------
(***************************************************************************)
(* Theorems of Settlements, for any mandates, intents, requests and keys.  *)
(* What a mandate has spent is a sum over its captured rows; the inductive *)
(* invariant only needs that it stays what it was while a settlement of    *)
(* the mandate is open.  The second part, on the wallet, adds such sums up *)
(* and the third takes each step to one of the till, or none.              *)
(***************************************************************************)
EXTENDS Settlements, Arithmetic_proofs, TLAPS

-----------------------------------------------------------------------------
(* The inductive invariant.                                                *)

\* An id of an answered key is a row; a mandate's intent is one of its own; a row's
\* mandate is registered.
LinkInv ==
  /\ \A k \in Key : key[k].sid # NoSettlement => row[key[k].sid] # NoRow
  /\ \A m \in Mandate : Registered(m) => stored[m].mandate = m
  /\ \A s \in Settlement : row[s] # NoRow => Registered(row[s].mandate)

\* In settling, the hash on the row is that of the stored intent and the cart.
HashInv ==
  \A s \in Settlement :
    In(s, "settling") => row[s].hash = MandateCartHash(stored[row[s].mandate], row[s].cart)

\* A settlement on its way to money without a decision is below the lines of whichever
\* intent its hash was made from, measured against what the mandate has spent by now.
BelowLines(s, i) ==
  /\ i.mandate = row[s].mandate
  /\ ~(row[s].cart.total > i.threshold)
  /\ i.line = NoLimit \/ ~(Spent(row[s].mandate) + row[s].cart.total > i.line)
LinesInv ==
  \A s \in Settlement :
    row[s].state \in {"approved", "settling"} /\ approval[s] # "approved" =>
      \A i \in Intent : row[s].hash = MandateCartHash(i, row[s].cart) => BelowLines(s, i)

IInv == /\ TypeOK /\ OneReservation /\ DecisionAgreement /\ OneKeyPerSettlement
        /\ LinkInv /\ HashInv /\ LinesInv

-----------------------------------------------------------------------------
(* Facts about the gate.                                                   *)

\* What an accepted cart is known by, for the codes the proofs below need.
LEMMA AcceptedMeans ==
  ASSUME NEW intent, NEW cart, NEW ctx, Accepts(intent, cart, ctx)
  PROVE  /\ cart.intent = intent.version
         /\ cart.signer = intent.agent
         /\ cart.merchant \in intent.merchants
         /\ ~Expired(intent, ctx)
         /\ ~ctx.revoked
<1>1. cart.intent = intent.version
  <2>1. ~Fails("HASH_LINK_MISMATCH", intent, cart, ctx)
    BY DEF Accepts, RejectionCode
  <2> QED  BY <2>1 DEF Fails
<1>2. cart.signer = intent.agent
  <2>1. ~Fails("SIG_INVALID_CART", intent, cart, ctx)
    BY DEF Accepts, RejectionCode
  <2> QED  BY <2>1 DEF Fails
<1>3. cart.merchant \in intent.merchants
  <2>1. ~Fails("MERCHANT_NOT_IN_SCOPE", intent, cart, ctx)
    BY DEF Accepts, RejectionCode
  <2> QED  BY <2>1 DEF Fails
<1>4. ~Expired(intent, ctx)
  <2>1. ~Fails("MANDATE_EXPIRED", intent, cart, ctx)
    BY DEF Accepts, RejectionCode
  <2> QED  BY <2>1 DEF Fails
<1>5. ~ctx.revoked
  <2>1. ~Fails("MANDATE_REVOKED", intent, cart, ctx)
    BY DEF Accepts, RejectionCode
  <2> QED  BY <2>1 DEF Fails
<1> QED  BY <1>1, <1>2, <1>3, <1>4, <1>5

\* A non-empty set of positions has a first one.
LEMMA LeastOfFifteen ==
  ASSUME NEW S \in SUBSET (1 .. 15), S # {}
  PROVE  \E i \in S : \A j \in 1 .. i - 1 : j \notin S
<1> SUFFICES ASSUME \A i \in S : \E j \in 1 .. i - 1 : j \in S
             PROVE  FALSE
  OBVIOUS
<1>1. \A i \in 1 .. 3 : i \notin S
  OBVIOUS
<1>2. \A i \in 1 .. 6 : i \notin S
  BY <1>1
<1>3. \A i \in 1 .. 9 : i \notin S
  BY <1>2
<1>4. \A i \in 1 .. 12 : i \notin S
  BY <1>3
<1>5. \A i \in 1 .. 15 : i \notin S
  BY <1>4
<1> QED
  BY <1>5

\* A refused cart has a code for its reason: the order of the checks misses none.
LEMMA ReasonIsCode ==
  ASSUME NEW intent, NEW cart, NEW ctx, ~Accepts(intent, cart, ctx)
  PROVE  Reason(intent, cart, ctx) \in RejectionCode
<1> DEFINE Failing(i) == Fails(CheckOrder[i], intent, cart, ctx)
           First(i) == Failing(i) /\ \A j \in 1 .. i - 1 : ~Failing(j)
           T == {i \in 1 .. 15 : Failing(i)}
<1>1. DOMAIN CheckOrder = 1 .. 15 /\ \A i \in 1 .. 15 : CheckOrder[i] \in RejectionCode
  BY DEF CheckOrder, RejectionCode
<1>2. \A code \in RejectionCode : \E i \in 1 .. 15 : CheckOrder[i] = code
  BY DEF CheckOrder, RejectionCode
<1>3. T # {}
  BY <1>2 DEF Accepts
<1>4. \E i \in 1 .. 15 : First(i)
  <2>1. PICK i \in T : \A j \in 1 .. i - 1 : j \notin T
    BY <1>3, LeastOfFifteen
  <2>2. \A j \in 1 .. i - 1 : j \in 1 .. 15
    BY <2>1
  <2> QED
    BY <2>1, <2>2
<1>5. Reason(intent, cart, ctx) = CheckOrder[CHOOSE i \in DOMAIN CheckOrder : First(i)]
  BY DEF Reason
<1>6. (CHOOSE i \in DOMAIN CheckOrder : First(i)) \in 1 .. 15
  <2> HIDE DEF First
  <2> QED
    BY <1>1, <1>4
<1> QED
  BY <1>1, <1>5, <1>6

\* A refusal under a revoked mandate is never put down to its budget.
LEMMA RevokedIsNoBudget ==
  ASSUME NEW intent, NEW cart, NEW ctx, ctx.revoked
  PROVE  Reason(intent, cart, ctx) \notin {"AMOUNT_EXCEEDS_CEILING", "MERCHANT_LIMIT_EXCEEDED"}
<1> DEFINE Failing(i) == Fails(CheckOrder[i], intent, cart, ctx)
           First(i) == Failing(i) /\ \A j \in 1 .. i - 1 : ~Failing(j)
           first == CHOOSE i \in DOMAIN CheckOrder : First(i)
<1>1. DOMAIN CheckOrder = 1 .. 15 /\ CheckOrder[11] = "MANDATE_REVOKED"
  BY DEF CheckOrder
<1>2. Failing(11)
  BY <1>1 DEF Fails
<1>3. \E i \in 1 .. 15 : First(i)
  <2> DEFINE T == {i \in 1 .. 15 : Failing(i)}
  <2>1. T # {}
    BY <1>2
  <2>2. PICK i \in T : \A j \in 1 .. i - 1 : j \notin T
    BY <2>1, LeastOfFifteen
  <2>3. \A j \in 1 .. i - 1 : j \in 1 .. 15
    BY <2>2
  <2> QED
    BY <2>2, <2>3
<1>4. first \in 1 .. 15 /\ First(first)
  <2> HIDE DEF First
  <2> QED
    BY <1>1, <1>3
<1>5. first \in 1 .. 11
  <2> HIDE DEF Failing, first
  <2> QED
    BY <1>2, <1>4
<1>6. \A i \in 1 .. 11 : CheckOrder[i] \notin {"AMOUNT_EXCEEDS_CEILING", "MERCHANT_LIMIT_EXCEEDED"}
  BY DEF CheckOrder
<1>7. Reason(intent, cart, ctx) = CheckOrder[first]
  BY DEF Reason
<1> HIDE DEF first
<1> QED
  BY <1>5, <1>6, <1>7

\* The wallet's total is a function of the captured rows alone.
LEMMA SpentKept ==
  ASSUME NEW m, Captured(m)' = Captured(m),
         \A t \in Captured(m) : row'[t].cart = row[t].cart
  PROVE  Spent(m)' = Spent(m)
<1>1. [t \in Captured(m) |-> row[t].cart.total]' = [t \in Captured(m) |-> row[t].cart.total]
  OBVIOUS
<1> QED  BY <1>1 DEF Spent, Total

-----------------------------------------------------------------------------
(* Facts about rows and about the three ways they change.                  *)

\* The id of an insert is fresh (randomUUID).
LEMMA FreeIdFact ==
  (\E s \in Settlement : row[s] = NoRow) => FreeId \in Settlement /\ row[FreeId] = NoRow
BY DEF FreeId

\* The row createSettlement leaves.
LEMMA CreatedFact ==
  ASSUME TypeOK, NEW r \in Request, NEW s \in Settlement
  PROVE  LET new == CreatedRow(r, s) IN
         /\ new \in Row
         /\ new.mandate = r.intent.mandate /\ new.cart = r.cart
         /\ new.hash = MandateCartHash(r.intent, r.cart)
         /\ new.state \in {"rejected", "pending_approval", "approved"}
         /\ new.reason \in RejectionCode \cup {"none"}
         /\ new.state = "approved" =>
              ~NeedsApproval(r.intent, r.cart, VerifyCtx(r.intent, r.cart, s))
<1> DEFINE ctx == VerifyCtx(r.intent, r.cart, s)
           new(state, since, reason) ==
             [mandate |-> r.intent.mandate, hash |-> MandateCartHash(r.intent, r.cart),
              cart |-> r.cart, state |-> state, since |-> since, reason |-> reason]
<1>1. CreatedRow(r, s) =
        IF ~Accepts(r.intent, r.cart, ctx) THEN new("rejected", 0, Reason(r.intent, r.cart, ctx))
        ELSE IF NeedsApproval(r.intent, r.cart, ctx) THEN new("pending_approval", now, "none")
        ELSE new("approved", now, "none")
  BY DEF CreatedRow
<1>2. /\ r.intent \in Intent /\ r.intent.mandate \in Mandate /\ r.cart \in Cart
      /\ now \in 0 .. MaxTime /\ 0 \in 0 .. MaxTime
  BY SettlementsAssumption DEF Cart, TypeOK
<1>3. MandateCartHash(r.intent, r.cart) \in {MandateCartHash(i, c) : i \in Intent, c \in Cart}
  BY <1>2
<1>4. ASSUME NEW state \in {"rejected", "pending_approval", "approved"},
             NEW since \in 0 .. MaxTime, NEW reason \in RejectionCode \cup {"none"}
      PROVE  new(state, since, reason) \in Row
  <2> HIDE DEF RejectionCode
  <2> QED
    BY <1>2, <1>3, <1>4 DEF Row, SettlementState
<1>5. ~Accepts(r.intent, r.cart, ctx) => Reason(r.intent, r.cart, ctx) \in RejectionCode
  BY ReasonIsCode
<1> HIDE DEF ctx
<1>6. CASE ~Accepts(r.intent, r.cart, ctx)
  <2>1. CreatedRow(r, s) = new("rejected", 0, Reason(r.intent, r.cart, ctx))
    BY <1>1, <1>6
  <2> QED
    BY <2>1, <1>2, <1>4, <1>5, <1>6
<1>7. CASE Accepts(r.intent, r.cart, ctx) /\ NeedsApproval(r.intent, r.cart, ctx)
  <2>1. CreatedRow(r, s) = new("pending_approval", now, "none")
    BY <1>1, <1>7
  <2> QED
    BY <2>1, <1>2, <1>4
<1>8. CASE Accepts(r.intent, r.cart, ctx) /\ ~NeedsApproval(r.intent, r.cart, ctx)
  <2>1. CreatedRow(r, s) = new("approved", now, "none")
    BY <1>1, <1>8
  <2> QED
    BY <2>1, <1>2, <1>4, <1>8 DEF ctx
<1> QED
  BY <1>6, <1>7, <1>8
\* A row that moves: where it was, what it becomes, and that the others stay.
LEMMA MoveFact ==
  ASSUME TypeOK, NEW s \in Settlement,
         NEW from \in {"pending_approval", "approved", "settling"}, NEW to,
         NEW reason \in RejectionCode \cup {"none", "approval_rejected"},
         Move(s, from, to, reason)
  PROVE  /\ row[s] \in Row /\ row[s].state = from
         /\ row' \in [Settlement -> Row \cup {NoRow}]
         /\ row'[s].state = to /\ row'[s].reason = reason /\ row'[s] \in Row
         /\ row'[s].mandate = row[s].mandate /\ row'[s].cart = row[s].cart
         /\ row'[s].hash = row[s].hash
         /\ \A t \in Settlement \ {s} : row'[t] = row[t]
<1>1. row \in [Settlement -> Row \cup {NoRow}]
  BY DEF TypeOK
<1>2. row[s].state = from /\ to \in SettlementState
  BY DEF Move, SettlementCAS, SETTLEMENT_TRANSITIONS, SettlementState
<1>3. row[s] \in Row
  BY <1>1, <1>2 DEF NoRow
<1>4. row' = [row EXCEPT ![s] = [row[s] EXCEPT !.state = to, !.reason = reason,
                                     !.since = IF to = "approved" THEN now ELSE 0]]
  BY <1>1, <1>3 DEF Move, Row
<1>5. 0 \in 0 .. MaxTime
  BY SettlementsAssumption
<1>a. (IF to = "approved" THEN now ELSE 0) \in 0 .. MaxTime
  BY <1>5 DEF TypeOK
<1> DEFINE new == [row[s] EXCEPT !.state = to, !.reason = reason,
                                     !.since = IF to = "approved" THEN now ELSE 0]
<1>6. /\ new \in Row /\ new.state = to /\ new.reason = reason
      /\ new.mandate = row[s].mandate /\ new.cart = row[s].cart /\ new.hash = row[s].hash
  <2> DEFINE Hash == {MandateCartHash(i, c) : i \in Intent, c \in Cart}
             Reasons == RejectionCode \cup {"none", "approval_rejected"}
  <2>1. Row = [mandate : Mandate, hash : Hash, cart : Cart, state : SettlementState,
               since : 0 .. MaxTime, reason : Reasons]
    BY DEF Row
  <2>2. to \in SettlementState /\ reason \in Reasons
    BY <1>2
  <2> HIDE DEF Hash, Reasons
  <2>3. [row[s] EXCEPT !.state = to] \in Row
    BY <1>3, <2>1, <2>2
  <2>4. [[row[s] EXCEPT !.state = to] EXCEPT !.reason = reason] \in Row
    BY <2>1, <2>2, <2>3
  <2>5. new \in Row
    BY <2>1, <1>a, <2>4
  <2> QED
    BY <2>1, <2>5, <1>3
<1>7. row' = [row EXCEPT ![s] = new]
  BY <1>4
<1> HIDE DEF new
<1> QED
  BY <1>1, <1>2, <1>3, <1>6, <1>7

\* A settlement leaves pending_approval or approved for good, undecided by its human.
Release(s, from, to, reason) ==
  Move(s, from, to, reason) /\ UNCHANGED <<stored, approval>>

\* A new row, with its key's answer.
Insert(r, s) ==
  /\ row[s] = NoRow /\ Registered(r.intent.mandate) /\ ~Clash(r)
  /\ row' = [row EXCEPT ![s] = CreatedRow(r, s)]
  /\ UNCHANGED <<stored, approval>>

\* What a step can do to the rows.
LEMMA RowStep ==
  ASSUME TypeOK, Next
  PROVE  \/ UNCHANGED <<row, approval>>
         \/ \E r \in Request, s \in Settlement : Insert(r, s)
         \/ \E s \in Settlement, decision \in {"approved", "rejected"} : Decide(s, decision)
         \/ \E s \in Settlement : EnterSettling(s) \/ Capture(s)
         \/ \E s \in Settlement, from \in {"pending_approval", "approved"},
               to \in {"rejected", "abandoned"}, reason \in RejectionCode \cup {"none"} :
               Release(s, from, to, reason)
<1>1. ASSUME NEW i \in Intent, Register(i) PROVE UNCHANGED <<row, approval>>
  BY <1>1 DEF Register
<1>2. ASSUME NEW m \in Mandate, Revoke(m) PROVE UNCHANGED <<row, approval>>
  BY <1>2 DEF Revoke
<1>3. ASSUME NEW k \in Key, NEW r \in Request, PostSettlement(k, r)
      PROVE  UNCHANGED <<row, approval>> \/ \E s \in Settlement : Insert(r, s)
  <2>1. CASE ~Registered(r.intent.mandate) \/ Clash(r)
    BY <1>3, <2>1 DEF PostSettlement
  <2>2. CASE ~(~Registered(r.intent.mandate) \/ Clash(r))
    <3>1. FreeId \in Settlement /\ row[FreeId] = NoRow
      BY <1>3, <2>2, FreeIdFact DEF PostSettlement
    <3>2. row' = [row EXCEPT ![FreeId] = CreatedRow(r, FreeId)] /\ UNCHANGED <<stored, approval>>
      BY <1>3, <2>2 DEF PostSettlement
    <3>3. Insert(r, FreeId)
      BY <3>1, <3>2, <2>2 DEF Insert
    <3> QED
      BY <3>1, <3>3
  <2> QED
    BY <2>1, <2>2
<1>4. ASSUME NEW k \in Key, NEW r \in Request, ClaimThenCrash(k, r)
      PROVE  UNCHANGED <<row, approval>>
  BY <1>4 DEF ClaimThenCrash
<1>5. ASSUME NEW k \in Key, SweepLock(k) PROVE UNCHANGED <<row, approval>>
  BY <1>5 DEF SweepLock
<1>6. ASSUME NEW s \in Settlement, RejectAtSettling(s)
      PROVE  \E reason \in RejectionCode : Release(s, "approved", "rejected", reason)
  <2> DEFINE intent == stored[row[s].mandate]
             cart == row[s].cart
             ctx == VerifyCtx(intent, cart, s)
             reason == IF MandateCartHash(intent, cart) # row[s].hash THEN "HASH_LINK_MISMATCH"
                       ELSE Reason(intent, cart, ctx)
  <2>1. Release(s, "approved", "rejected", reason)
    BY <1>6 DEF RejectAtSettling, Release
  <2>2. MandateCartHash(intent, cart) = row[s].hash => ~Accepts(intent, cart, ctx)
    BY <1>6 DEF RejectAtSettling, Reverifies
  <2>3. reason \in RejectionCode
    <3>1. "HASH_LINK_MISMATCH" \in RejectionCode
      BY DEF RejectionCode
    <3>2. ~Accepts(intent, cart, ctx) => Reason(intent, cart, ctx) \in RejectionCode
      BY ReasonIsCode
    <3> HIDE DEF intent, cart, ctx
    <3> QED
      BY <2>2, <3>1, <3>2
  <2> HIDE DEF reason
  <2> QED
    BY <2>1, <2>3
<1>7. ASSUME NEW s \in Settlement, SweepApproval(s)
      PROVE  Release(s, "pending_approval", "abandoned", "none")
  BY <1>7 DEF SweepApproval, Release
<1>8. ASSUME NEW s \in Settlement, NEW budgetSpent \in BOOLEAN, SweepApproved(s, budgetSpent)
      PROVE  Release(s, "approved", "abandoned", "none")
  BY <1>8 DEF SweepApproved, Release
<1>9. Tick => UNCHANGED <<row, approval>>
  BY DEF Tick
<1> HIDE DEF RejectionCode
<1> QED
  BY <1>1, <1>2, <1>3, <1>4, <1>5, <1>6, <1>7, <1>8, <1>9 DEF Next, SettlementStep


\* The clock, the mandates and the revocations each have one action that writes them.
LEMMA Writers ==
  ASSUME Next
  PROVE  /\ now' = now \/ Tick
         /\ stored' = stored \/ \E i \in Intent : Register(i)
         /\ revoked' = revoked \/ \E m \in Mandate : Revoke(m)
<1> DEFINE Still == now' = now /\ stored' = stored /\ revoked' = revoked
<1>1. ASSUME NEW s \in Settlement, SettlementStep(s) PROVE Still
  BY <1>1 DEF SettlementStep, Decide, EnterSettling, RejectAtSettling, Capture, SweepApproval,
     SweepApproved
<1>2. ASSUME NEW k \in Key, NEW r \in Request, PostSettlement(k, r) \/ ClaimThenCrash(k, r) PROVE Still
  BY <1>2 DEF PostSettlement, ClaimThenCrash
<1>3. ASSUME NEW k \in Key, SweepLock(k) PROVE Still
  BY <1>3 DEF SweepLock
<1>4. ASSUME NEW i \in Intent, Register(i) PROVE now' = now /\ revoked' = revoked
  BY <1>4 DEF Register
<1>5. ASSUME NEW m \in Mandate, Revoke(m) PROVE now' = now /\ stored' = stored
  BY <1>5 DEF Revoke
<1>6. ASSUME Tick PROVE stored' = stored /\ revoked' = revoked
  BY <1>6 DEF Tick
<1> QED
  BY <1>1, <1>2, <1>3, <1>4, <1>5, <1>6 DEF Next

\* A registered intent is never replaced.
LEMMA StoredKept ==
  ASSUME TypeOK, Next, NEW m \in Mandate, Registered(m)
  PROVE  stored'[m] = stored[m] /\ Registered(m)'
<1>1. ASSUME NEW i \in Intent, Register(i) PROVE stored'[m] = stored[m]
  BY <1>1 DEF Register, Registered, TypeOK
<1>2. stored' = stored \/ \E i \in Intent : Register(i)
  BY Writers
<1>3. stored'[m] = stored[m]
  BY <1>1, <1>2
<1> QED
  BY <1>3 DEF Registered
\* What an insert does to the rows, in the terms of the invariant.
LEMMA InsertFact ==
  ASSUME TypeOK, NEW r \in Request, NEW s \in Settlement, Insert(r, s)
  PROVE  /\ row' \in [Settlement -> Row \cup {NoRow}]
         /\ row'[s] = CreatedRow(r, s)
         /\ \A t \in Settlement \ {s} : row'[t] = row[t]
  BY CreatedFact DEF Insert, TypeOK

\* A wallet's total moves only when a settlement of its mandate is captured.
LEMMA SpentStep ==
  ASSUME TypeOK, NEW m \in Mandate, NEW s \in Settlement,
         \A t \in Settlement \ {s} : row'[t] = row[t],
         \/ row[s].state # "captured" /\ row'[s].state # "captured"
         \/ row[s].mandate # m /\ row'[s].mandate # m
  PROVE  Spent(m)' = Spent(m)
<1>1. Captured(m)' = Captured(m) /\ s \notin Captured(m)
  BY DEF Captured, RowsOf, In
<1>2. \A t \in Captured(m) : row'[t].cart = row[t].cart
  BY <1>1 DEF Captured, RowsOf
<1> QED
  BY <1>1, <1>2, SpentKept

-----------------------------------------------------------------------------
LEMMA InitInv == Init => IInv
<1> SUFFICES ASSUME Init PROVE IInv
  OBVIOUS
<1> USE SettlementsAssumption DEF Init
<1>1. TypeOK
  BY DEF TypeOK
<1>2. OneReservation
  BY DEF OneReservation, Open
<1>3. DecisionAgreement
  BY DEF DecisionAgreement, In, NoRow
<1>4. OneKeyPerSettlement
  BY DEF OneKeyPerSettlement, NoEntry
<1>5. LinkInv
  BY DEF LinkInv, NoEntry, Registered
<1>6. HashInv /\ LinesInv
  BY DEF HashInv, LinesInv, In, NoRow
<1> QED
  BY <1>1, <1>2, <1>3, <1>4, <1>5, <1>6 DEF IInv

-----------------------------------------------------------------------------
(* Type correctness.                                                       *)

\* Rows and decisions, by the kind of the step.
LEMMA RowsTyped ==
  ASSUME TypeOK, Next
  PROVE  /\ row' \in [Settlement -> Row \cup {NoRow}]
         /\ approval' \in [Settlement -> {"none", "approved", "rejected"}]
<1>1. CASE UNCHANGED <<row, approval>>
  BY <1>1 DEF TypeOK
<1>2. ASSUME NEW r \in Request, NEW s \in Settlement, Insert(r, s)
      PROVE  /\ row' \in [Settlement -> Row \cup {NoRow}] /\ approval' = approval
  BY <1>2, InsertFact DEF Insert
<1>3. ASSUME NEW s \in Settlement, NEW decision \in {"approved", "rejected"}, Decide(s, decision)
      PROVE  /\ row' \in [Settlement -> Row \cup {NoRow}]
             /\ approval' = [approval EXCEPT ![s] = decision]
  <2>1. Move(s, "pending_approval", decision,
             IF decision = "rejected" THEN "approval_rejected" ELSE "none")
    BY <1>3 DEF Decide
  <2> QED
    BY <2>1, <1>3, MoveFact DEF Decide
<1>4. ASSUME NEW s \in Settlement, EnterSettling(s) \/ Capture(s)
      PROVE  /\ row' \in [Settlement -> Row \cup {NoRow}] /\ approval' = approval
  <2>1. Move(s, "approved", "settling", "none") \/ Move(s, "settling", "captured", "none")
    BY <1>4 DEF EnterSettling, Capture
  <2> QED
    BY <2>1, <1>4, MoveFact DEF EnterSettling, Capture
<1>5. ASSUME NEW s \in Settlement, NEW from \in {"pending_approval", "approved"},
             NEW to \in {"rejected", "abandoned"}, NEW reason \in RejectionCode \cup {"none"},
             Release(s, from, to, reason)
      PROVE  /\ row' \in [Settlement -> Row \cup {NoRow}] /\ approval' = approval
  BY <1>5, MoveFact DEF Release
<1> QED
  BY <1>1, <1>2, <1>3, <1>4, <1>5, RowStep DEF TypeOK

LEMMA TypeStep == IInv /\ [Next]_vars => TypeOK'
<1> SUFFICES ASSUME IInv, [Next]_vars PROVE TypeOK'
  OBVIOUS
<1> USE SettlementsAssumption
<1>1. TypeOK
  BY DEF IInv
<1>2. CASE UNCHANGED vars
  <2>1. /\ now' = now /\ stored' = stored /\ revoked' = revoked
        /\ row' = row /\ approval' = approval /\ key' = key
    BY <1>2 DEF vars
  <2>2. now' \in 0 .. MaxTime /\ stored' \in [Mandate -> Intent \cup {NoIntent}]
    BY <1>1, <2>1 DEF TypeOK
  <2>3. revoked' \subseteq {m \in Mandate : stored'[m] # NoIntent}
    BY <1>1, <2>1 DEF TypeOK, Registered
  <2>4. /\ row' \in [Settlement -> Row \cup {NoRow}]
        /\ approval' \in [Settlement -> {"none", "approved", "rejected"}]
        /\ key' \in [Key -> Entry \cup {NoEntry}]
    BY <1>1, <2>1 DEF TypeOK
  <2> QED  BY <2>2, <2>3, <2>4 DEF TypeOK, Registered
<1>3. CASE Next
  <2>1. /\ row' \in [Settlement -> Row \cup {NoRow}]
        /\ approval' \in [Settlement -> {"none", "approved", "rejected"}]
    BY <1>1, <1>3, RowsTyped
  <2>2. now' \in 0 .. MaxTime
    BY <1>1, <1>3, Writers DEF TypeOK, Tick
  <2>3. stored' \in [Mandate -> Intent \cup {NoIntent}]
    BY <1>1, <1>3, Writers DEF TypeOK, Register
  <2>4. revoked' \subseteq {m \in Mandate : Registered(m)'}
    <3>1. \A m \in Mandate : Registered(m) => Registered(m)'
      BY <1>1, <1>3, StoredKept
    <3>2. \A m \in revoked' : m \in Mandate /\ Registered(m)
      BY <1>1, <1>3, Writers DEF TypeOK, Revoke
    <3> QED
      BY <3>1, <3>2
  <2>5. key' \in [Key -> Entry \cup {NoEntry}]
    <3>1. ASSUME NEW k \in Key, NEW r \in Request, NEW sid \in Settlement \cup {NoSettlement},
                 NEW locked \in BOOLEAN, NEW at \in 0 .. MaxTime
          PROVE  [request |-> r, locked |-> locked, sid |-> sid, at |-> at] \in Entry
      BY DEF Entry
    <3>2. ASSUME NEW k \in Key, NEW r \in Request, PostSettlement(k, r)
          PROVE  key' \in [Key -> Entry \cup {NoEntry}]
      <4>1. PICK sid \in Settlement \cup {NoSettlement} : Complete(k, r, sid)
        BY <3>2, FreeIdFact DEF PostSettlement
      <4>2. [request |-> r, locked |-> FALSE, sid |-> sid, at |-> 0] \in Entry
        <5>1. 0 \in 0 .. MaxTime
          OBVIOUS
        <5> QED
          BY <5>1 DEF Entry
      <4> QED
        BY <4>1, <4>2, <1>1 DEF Complete, TypeOK
    <3>3. ASSUME NEW k \in Key, NEW r \in Request, ClaimThenCrash(k, r)
          PROVE  key' \in [Key -> Entry \cup {NoEntry}]
      <4>1. [request |-> r, locked |-> TRUE, sid |-> NoSettlement, at |-> now] \in Entry
        BY <3>1, <3>3, <1>1 DEF TypeOK
      <4> QED
        BY <4>1, <3>3, <1>1 DEF ClaimThenCrash, TypeOK
    <3>4. ASSUME NEW k \in Key, SweepLock(k) PROVE key' \in [Key -> Entry \cup {NoEntry}]
      BY <3>4, <1>1 DEF SweepLock, TypeOK
    <3>5. \/ key' = key
          \/ \E k \in Key : \/ \E r \in Request : PostSettlement(k, r) \/ ClaimThenCrash(k, r)
                           \/ SweepLock(k)
      BY <1>3 DEF Next, SettlementStep, Register, Revoke, Decide, EnterSettling,
         RejectAtSettling, Capture, SweepApproval, SweepApproved, Tick
    <3> QED
      BY <3>2, <3>3, <3>4, <3>5, <1>1 DEF TypeOK
  <2> QED
    BY <2>1, <2>2, <2>3, <2>4, <2>5 DEF TypeOK
<1> QED
  BY <1>2, <1>3

-----------------------------------------------------------------------------
(* One open settlement per mandate.                                        *)

LEMMA ReservationStep == IInv /\ [Next]_vars => OneReservation'
<1> SUFFICES ASSUME IInv, [Next]_vars PROVE OneReservation'
  OBVIOUS
<1>1. TypeOK /\ OneReservation
  BY DEF IInv
<1>2. CASE UNCHANGED vars
  BY <1>1, <1>2 DEF vars, OneReservation, Open
<1>3. CASE Next
  <2>1. CASE UNCHANGED <<row, approval>>
    BY <1>1, <2>1 DEF OneReservation, Open
  <2>2. ASSUME NEW r \in Request, NEW s \in Settlement, Insert(r, s) PROVE OneReservation'
    <3>1. \A t \in Settlement : Open(t) => row[t].mandate # r.intent.mandate
      BY <2>2 DEF Insert, Clash
    <3>2. row'[s].mandate = r.intent.mandate /\ \A t \in Settlement \ {s} : row'[t] = row[t]
      BY <1>1, <2>2, InsertFact, CreatedFact
    <3> QED
      BY <1>1, <3>1, <3>2 DEF OneReservation, Open
  <2>3. ASSUME NEW s \in Settlement, NEW from \in {"pending_approval", "approved", "settling"},
               NEW to, NEW reason \in RejectionCode \cup {"none", "approval_rejected"},
               Move(s, from, to, reason)
        PROVE  OneReservation'
    <3>1. Open(s)
      BY <1>1, <2>3, MoveFact DEF Open, TerminalSettlement, ReleasedSettlement, NoRow
    <3>2. \A t \in Settlement : Open(t)' => Open(t) /\ row'[t].mandate = row[t].mandate
      BY <1>1, <2>3, <3>1, MoveFact DEF Open
    <3> QED
      BY <1>1, <3>2 DEF OneReservation
  <2>4. \A s \in Settlement, decision \in {"approved", "rejected"} :
          Decide(s, decision) => OneReservation'
    BY <2>3 DEF Decide
  <2>5. \A s \in Settlement : EnterSettling(s) \/ Capture(s) => OneReservation'
    BY <2>3 DEF EnterSettling, Capture
  <2>6. ASSUME NEW s \in Settlement, NEW from \in {"pending_approval", "approved"},
               NEW to \in {"rejected", "abandoned"}, NEW reason \in RejectionCode \cup {"none"},
               Release(s, from, to, reason)
        PROVE  OneReservation'
    BY <2>3, <2>6 DEF Release
  <2> QED
    BY <1>1, <1>3, <2>1, <2>2, <2>4, <2>5, <2>6, RowStep
<1> QED
  BY <1>2, <1>3
-----------------------------------------------------------------------------
(* Decisions.                                                              *)

LEMMA DecisionStep == IInv /\ [Next]_vars => DecisionAgreement'
<1> SUFFICES ASSUME IInv, [Next]_vars PROVE DecisionAgreement'
  OBVIOUS
<1>1. TypeOK /\ DecisionAgreement
  BY DEF IInv
<1>2. CASE UNCHANGED <<row, approval>>
  BY <1>1, <1>2 DEF DecisionAgreement, In
<1>3. CASE Next
  <2>1. ASSUME NEW r \in Request, NEW s \in Settlement, Insert(r, s) PROVE DecisionAgreement'
    <3>1. approval[s] = "none" /\ approval' = approval
      BY <1>1, <2>1 DEF Insert, DecisionAgreement, TypeOK, NoRow, In
    <3>2. /\ row'[s].state # "none" /\ row'[s].reason # "approval_rejected"
          /\ \A t \in Settlement \ {s} : row'[t] = row[t]
      BY <1>1, <2>1, InsertFact, CreatedFact DEF RejectionCode
    <3> QED
      BY <1>1, <3>1, <3>2 DEF DecisionAgreement, In
  <2>2. ASSUME NEW s \in Settlement, NEW decision \in {"approved", "rejected"}, Decide(s, decision)
        PROVE  DecisionAgreement'
    <3> DEFINE reason == IF decision = "rejected" THEN "approval_rejected" ELSE "none"
    <3>1. Move(s, "pending_approval", decision, reason)
      BY <2>2 DEF Decide
    <3>2. /\ row'[s].state = decision /\ row'[s].reason = reason
          /\ \A t \in Settlement \ {s} : row'[t] = row[t]
      BY <1>1, <3>1, MoveFact
    <3>3. approval'[s] = decision /\ \A t \in Settlement \ {s} : approval'[t] = approval[t]
      BY <1>1, <2>2 DEF Decide, TypeOK
    <3> QED
      BY <1>1, <3>2, <3>3 DEF DecisionAgreement, In
  <2>3. ASSUME NEW s \in Settlement, EnterSettling(s) \/ Capture(s) PROVE DecisionAgreement'
    <3>1. Move(s, "approved", "settling", "none") \/ Move(s, "settling", "captured", "none")
      BY <2>3 DEF EnterSettling, Capture
    <3>2. /\ row[s].state \in {"approved", "settling"} /\ row'[s].state \in {"settling", "captured"}
          /\ row'[s].reason = "none" /\ \A t \in Settlement \ {s} : row'[t] = row[t]
      BY <1>1, <3>1, MoveFact
    <3>3. approval' = approval
      BY <2>3 DEF EnterSettling, Capture
    <3> QED
      BY <1>1, <3>2, <3>3 DEF DecisionAgreement, In
  <2>4. ASSUME NEW s \in Settlement, NEW from \in {"pending_approval", "approved"},
               NEW to \in {"rejected", "abandoned"}, NEW reason \in RejectionCode \cup {"none"},
               Release(s, from, to, reason)
        PROVE  DecisionAgreement'
    <3>1. /\ row[s].state = from /\ row'[s].state = to /\ row'[s].reason = reason
          /\ \A t \in Settlement \ {s} : row'[t] = row[t]
      BY <1>1, <2>4, MoveFact DEF Release
    <3>2. approval' = approval /\ reason # "approval_rejected"
      BY <2>4 DEF Release, RejectionCode
    <3> QED
      BY <1>1, <3>1, <3>2 DEF DecisionAgreement, In
  <2> QED
    BY <1>1, <1>2, <1>3, <2>1, <2>2, <2>3, <2>4, RowStep
<1> QED
  BY <1>2, <1>3 DEF vars

-----------------------------------------------------------------------------
(* Keys, and the links between rows, keys and mandates.                    *)

\* A row keeps its mandate, its cart and its hash for ever.
LEMMA RowsKept ==
  ASSUME TypeOK, Next, NEW s \in Settlement, row[s] # NoRow
  PROVE  /\ row'[s] # NoRow /\ row'[s].mandate = row[s].mandate
         /\ row'[s].cart = row[s].cart /\ row'[s].hash = row[s].hash
<1>1. ASSUME NEW t \in Settlement,
             NEW from \in {"pending_approval", "approved", "settling"},
             NEW to, NEW reason \in RejectionCode \cup {"none", "approval_rejected"},
             Move(t, from, to, reason)
      PROVE  /\ row'[s] # NoRow /\ row'[s].mandate = row[s].mandate
             /\ row'[s].cart = row[s].cart /\ row'[s].hash = row[s].hash
  <2>1. CASE s = t
    BY <1>1, <2>1, MoveFact DEF Row, NoRow, SettlementState
  <2>2. CASE s # t
    BY <1>1, <2>2, MoveFact
  <2> QED
    BY <2>1, <2>2
<1>2. ASSUME NEW r \in Request, NEW t \in Settlement, Insert(r, t) PROVE row'[s] = row[s]
  BY <1>2, InsertFact DEF Insert
<1>3. ASSUME NEW t \in Settlement, NEW decision \in {"approved", "rejected"}, Decide(t, decision)
      PROVE  Move(t, "pending_approval", decision,
                  IF decision = "rejected" THEN "approval_rejected" ELSE "none")
  BY <1>3 DEF Decide
<1>4. ASSUME NEW t \in Settlement, EnterSettling(t) \/ Capture(t)
      PROVE  Move(t, "approved", "settling", "none") \/ Move(t, "settling", "captured", "none")
  BY <1>4 DEF EnterSettling, Capture
<1> QED
  BY <1>1, <1>2, <1>3, <1>4, RowStep DEF Release

\* No key is answered and no row made.
Unanswered ==
  /\ \A s \in Settlement : row'[s] # NoRow => row[s] # NoRow
  /\ \A l \in Key :
       key'[l] = key[l] \/ (key[l].sid = NoSettlement /\ key'[l].sid = NoSettlement)

\* What a step can do to the keys: they stay, one that answers no settlement is
\* claimed or cleared, or one is answered with the row it made.
LEMMA KeyStep ==
  ASSUME TypeOK, OneKeyPerSettlement, Next
  PROVE  \/ Unanswered
         \/ \E k \in Key, r \in Request, s \in Settlement :
              /\ key[k] = NoEntry /\ Insert(r, s)
              /\ key' = [key EXCEPT ![k] =
                           [request |-> r, locked |-> FALSE, sid |-> s, at |-> 0]]
<1> USE DEF Unanswered
<1>0. key \in [Key -> Entry \cup {NoEntry}] /\ row \in [Settlement -> Row \cup {NoRow}]
  BY DEF TypeOK
<1>1. ASSUME NEW k \in Key, NEW r \in Request, PostSettlement(k, r)
      PROVE  \/ Unanswered
             \/ \E s \in Settlement :
                  /\ key[k] = NoEntry /\ Insert(r, s)
                  /\ key' = [key EXCEPT ![k] =
                           [request |-> r, locked |-> FALSE, sid |-> s, at |-> 0]]
  <2>1. CASE ~Registered(r.intent.mandate) \/ Clash(r)
    <3>1. row' = row /\ Complete(k, r, NoSettlement) /\ key[k] = NoEntry
      BY <1>1, <2>1 DEF PostSettlement
    <3>2. key[k].sid = NoSettlement
      BY <3>1 DEF NoEntry
    <3>3. key'[k].sid = NoSettlement /\ \A l \in Key \ {k} : key'[l] = key[l]
      BY <3>1, <1>0 DEF Complete
    <3> QED
      BY <3>1, <3>2, <3>3
  <2>2. CASE ~(~Registered(r.intent.mandate) \/ Clash(r))
    <3>1. FreeId \in Settlement /\ row[FreeId] = NoRow
      BY <1>1, <2>2, FreeIdFact DEF PostSettlement
    <3>2. /\ row' = [row EXCEPT ![FreeId] = CreatedRow(r, FreeId)] /\ UNCHANGED <<stored, approval>>
          /\ Complete(k, r, FreeId) /\ key[k] = NoEntry
      BY <1>1, <2>2 DEF PostSettlement
    <3>3. Insert(r, FreeId)
      BY <3>1, <3>2, <2>2 DEF Insert
    <3> QED
      BY <3>1, <3>2, <3>3 DEF Complete
  <2> QED
    BY <2>1, <2>2
<1>2. ASSUME NEW k \in Key, NEW r \in Request, ClaimThenCrash(k, r) PROVE Unanswered
  <2>1. /\ row' = row /\ key[k] = NoEntry
        /\ key' = [key EXCEPT ![k] = [request |-> r, locked |-> TRUE, sid |-> NoSettlement,
                                      at |-> now]]
    BY <1>2 DEF ClaimThenCrash
  <2>2. key[k].sid = NoSettlement
    BY <2>1 DEF NoEntry
  <2>3. key'[k].sid = NoSettlement /\ \A l \in Key \ {k} : key'[l] = key[l]
    BY <2>1, <1>0
  <2> QED
    BY <2>1, <2>2, <2>3
<1>3. ASSUME NEW k \in Key, SweepLock(k) PROVE Unanswered
  <2>1. key[k].sid = NoSettlement
    BY <1>3 DEF SweepLock, OneKeyPerSettlement
  <2>2. row' = row /\ key' = [key EXCEPT ![k] = NoEntry]
    BY <1>3 DEF SweepLock
  <2>3. key'[k].sid = NoSettlement /\ \A l \in Key \ {k} : key'[l] = key[l]
    BY <2>2, <1>0 DEF NoEntry
  <2> QED
    BY <2>1, <2>2, <2>3
<1>4. ASSUME NEW t \in Settlement, SettlementStep(t) PROVE Unanswered
  <2>1. key' = key
    BY <1>4 DEF SettlementStep, Decide, EnterSettling, RejectAtSettling, Capture,
       SweepApproval, SweepApproved
  <2>2. In(t, "pending_approval") \/ In(t, "approved") \/ In(t, "settling")
    BY <1>4 DEF SettlementStep, Decide, EnterSettling, RejectAtSettling, Capture,
       SweepApproval, SweepApproved, Move, SettlementCAS, In
  <2>3. \A s \in Settlement \ {t} : row'[s] = row[s]
    BY <1>4 DEF SettlementStep, Decide, EnterSettling, RejectAtSettling, Capture,
       SweepApproval, SweepApproved, Move, TypeOK
  <2>4. row[t] # NoRow
    BY <2>2 DEF In, NoRow
  <2> QED
    BY <2>1, <2>3, <2>4
<1>5. (\E i \in Intent : Register(i)) \/ (\E m \in Mandate : Revoke(m)) \/ Tick
        => row' = row /\ key' = key
  BY DEF Register, Revoke, Tick
<1> QED
  BY <1>1, <1>2, <1>3, <1>4, <1>5 DEF Next

LEMMA LinkStep == IInv /\ [Next]_vars => OneKeyPerSettlement' /\ LinkInv'
<1> SUFFICES ASSUME IInv, [Next]_vars PROVE OneKeyPerSettlement' /\ LinkInv'
  OBVIOUS
<1>1. TypeOK /\ OneKeyPerSettlement /\ LinkInv
  BY DEF IInv
<1>2. CASE UNCHANGED vars
  BY <1>1, <1>2 DEF vars, OneKeyPerSettlement, LinkInv, Registered
<1>3. CASE Next
  <2>1. \A s \in Settlement : row[s] # NoRow =>
          /\ row'[s] # NoRow /\ row'[s].mandate = row[s].mandate /\ row'[s].cart = row[s].cart
    BY <1>1, <1>3, RowsKept
  <2>2. \A m \in Mandate : Registered(m)' => stored'[m].mandate = m
    <3>1. ASSUME NEW i \in Intent, Register(i), NEW m \in Mandate, Registered(m)'
          PROVE  stored'[m].mandate = m
      BY <1>1, <3>1 DEF Register, Registered, LinkInv, TypeOK
    <3>2. stored' = stored \/ \E i \in Intent : Register(i)
      BY <1>3, Writers
    <3> QED
      BY <1>1, <3>1, <3>2 DEF LinkInv, Registered
  <2>3. \A m \in Mandate : Registered(m) => Registered(m)'
    BY <1>1, <1>3, StoredKept
  <2>4. \A s \in Settlement : row'[s] # NoRow => row'[s].mandate \in Mandate
    BY <1>1, <1>3, RowsTyped DEF Row
  <2>5. CASE Unanswered
    <3> USE DEF Unanswered
    <3>1. \A l \in Key : key'[l].sid # NoSettlement => key'[l] = key[l]
      BY <2>5
    <3>2. \A k, l \in Key : key'[k].sid = key'[l].sid /\ key'[k].sid # NoSettlement => k = l
      BY <1>1, <3>1 DEF OneKeyPerSettlement
    <3>3. \A s \in Settlement : row'[s] # NoRow =>
            \E k \in Key : key'[k].sid = s /\ key'[k].request.cart = row'[s].cart
      <4> SUFFICES ASSUME NEW s \in Settlement, row'[s] # NoRow
                   PROVE  \E k \in Key : key'[k].sid = s /\ key'[k].request.cart = row'[s].cart
        OBVIOUS
      <4>1. row[s] # NoRow
        BY <2>5
      <4>2. PICK k \in Key : key[k].sid = s /\ key[k].request.cart = row[s].cart
        BY <1>1, <4>1 DEF OneKeyPerSettlement
      <4>3. key'[k] = key[k]
        BY <2>5, <4>2, SettlementsAssumption
      <4> QED
        BY <2>1, <4>1, <4>2, <4>3
    <3>4. \A k \in Key : key'[k].locked => key'[k].sid = NoSettlement
      BY <1>1, <2>5 DEF OneKeyPerSettlement
    <3>5. LinkInv'
      <4>1. \A k \in Key : key'[k].sid # NoSettlement => row'[key'[k].sid] # NoRow
        <5> SUFFICES ASSUME NEW k \in Key, key'[k].sid # NoSettlement
                     PROVE  row'[key'[k].sid] # NoRow
          OBVIOUS
        <5>1. key'[k] = key[k] /\ row[key[k].sid] # NoRow
          BY <1>1, <3>1 DEF LinkInv
        <5>2. key[k].sid \in Settlement
          BY <1>1, <5>1 DEF TypeOK, Entry, NoEntry
        <5> QED
          BY <5>1, <5>2, <2>1
      <4>2. \A s \in Settlement : row'[s] # NoRow => Registered(row[s].mandate)'
        BY <1>1, <2>1, <2>3, <2>4, <2>5 DEF LinkInv
      <4> QED
        BY <4>1, <4>2, <2>2 DEF LinkInv
    <3> QED
      BY <3>2, <3>3, <3>4, <3>5 DEF OneKeyPerSettlement
  <2>6. ASSUME NEW k \in Key, NEW r \in Request, NEW s \in Settlement,
               key[k] = NoEntry, Insert(r, s),
               key' = [key EXCEPT ![k] = [request |-> r, locked |-> FALSE, sid |-> s, at |-> 0]]
        PROVE  OneKeyPerSettlement' /\ LinkInv'
    <3>1. /\ row[s] = NoRow /\ Registered(r.intent.mandate)
          /\ \A t \in Settlement \ {s} : row'[t] = row[t]
          /\ row'[s].mandate = r.intent.mandate /\ row'[s].cart = r.cart /\ row'[s] # NoRow
      <4>1. row'[s] = CreatedRow(r, s) /\ CreatedRow(r, s) \in Row
        BY <1>1, <2>6, InsertFact, CreatedFact
      <4>2. CreatedRow(r, s) # NoRow
        BY <4>1 DEF Row, NoRow, SettlementState
      <4> QED
        BY <1>1, <2>6, <4>1, <4>2, InsertFact, CreatedFact DEF Insert
    <3>2. /\ key'[k] = [request |-> r, locked |-> FALSE, sid |-> s, at |-> 0]
          /\ \A l \in Key \ {k} : key'[l] = key[l]
      BY <1>1, <2>6 DEF TypeOK
    <3>3. key'[k].sid = s /\ key'[k].request.cart = r.cart /\ key'[k].locked = FALSE
      BY <3>2
    <3>4. \A l \in Key : key[l].sid # s
      BY <1>1, <3>1, SettlementsAssumption DEF LinkInv
    <3>5. \A l \in Key : key[l].sid # NoSettlement => l # k
      BY <2>6 DEF NoEntry
    <3>6. \A t \in Settlement : row'[t] # NoRow =>
            \E l \in Key : key'[l].sid = t /\ key'[l].request.cart = row'[t].cart
      <4> SUFFICES ASSUME NEW t \in Settlement, row'[t] # NoRow
                   PROVE  \E l \in Key : key'[l].sid = t /\ key'[l].request.cart = row'[t].cart
        OBVIOUS
      <4>1. CASE t = s
        BY <4>1, <3>1, <3>3
      <4>2. CASE t # s
        <5>1. row[t] # NoRow /\ row'[t] = row[t]
          BY <4>2, <3>1
        <5>2. PICK l \in Key : key[l].sid = t /\ key[l].request.cart = row[t].cart
          BY <1>1, <5>1 DEF OneKeyPerSettlement
        <5>3. l # k
          BY <3>5, <5>2, SettlementsAssumption
        <5> QED
          BY <5>1, <5>2, <5>3, <3>2
      <4> QED
        BY <4>1, <4>2
    <3>7. \A h, l \in Key : key'[h].sid = key'[l].sid /\ key'[h].sid # NoSettlement => h = l
      BY <1>1, <3>2, <3>3, <3>4 DEF OneKeyPerSettlement
    <3>8. \A l \in Key : key'[l].locked => key'[l].sid = NoSettlement
      BY <1>1, <3>2, <3>3 DEF OneKeyPerSettlement
    <3>9. LinkInv'
      <4>1. \A l \in Key : key'[l].sid # NoSettlement => row'[key'[l].sid] # NoRow
        <5>1. \A l \in Key \ {k} : key[l].sid # NoSettlement =>
                key[l].sid \in Settlement \ {s} /\ row[key[l].sid] # NoRow
          BY <1>1, <3>4 DEF TypeOK, Entry, NoEntry, LinkInv
        <5> QED
          BY <5>1, <3>1, <3>2, <3>3
      <4>2. \A t \in Settlement : row'[t] # NoRow => Registered(row[t].mandate)'
        BY <1>1, <2>3, <2>4, <3>1 DEF LinkInv
      <4> QED
        BY <4>1, <4>2, <2>2 DEF LinkInv
    <3> QED
      BY <3>6, <3>7, <3>8, <3>9 DEF OneKeyPerSettlement
  <2>7. \/ Unanswered
        \/ \E k \in Key, r \in Request, s \in Settlement :
              /\ key[k] = NoEntry /\ Insert(r, s)
              /\ key' = [key EXCEPT ![k] =
                           [request |-> r, locked |-> FALSE, sid |-> s, at |-> 0]]
    BY <1>1, <1>3, KeyStep
  <2> QED
    BY <2>5, <2>6, <2>7
<1> QED
  BY <1>2, <1>3

-----------------------------------------------------------------------------
(* What is settling, and what the human's lines mean for it.               *)

LEMMA HashStep == IInv /\ [Next]_vars => HashInv'
<1> SUFFICES ASSUME IInv, [Next]_vars PROVE HashInv'
  OBVIOUS
<1>1. TypeOK /\ HashInv /\ LinkInv
  BY DEF IInv
<1>2. CASE UNCHANGED vars
  BY <1>1, <1>2 DEF vars, HashInv, In
<1>3. CASE Next
  <2> SUFFICES ASSUME NEW s \in Settlement, row'[s].state = "settling"
               PROVE  row'[s].hash = MandateCartHash(stored'[row'[s].mandate], row'[s].cart)
    BY DEF HashInv, In, MandateCartHash
  <2>1. row[s] # NoRow /\ row[s].hash = MandateCartHash(stored[row[s].mandate], row[s].cart)
    <3>1. CASE UNCHANGED <<row, approval>>
      BY <1>1, <3>1 DEF HashInv, In, NoRow
    <3>2. ASSUME NEW r \in Request, NEW t \in Settlement, Insert(r, t) PROVE In(s, "settling")
      BY <1>1, <3>2, InsertFact, CreatedFact DEF In
    <3>3. ASSUME NEW t \in Settlement, NEW decision \in {"approved", "rejected"},
                 Decide(t, decision)
          PROVE  In(s, "settling")
      <4>1. Move(t, "pending_approval", decision,
                 IF decision = "rejected" THEN "approval_rejected" ELSE "none")
        BY <3>3 DEF Decide
      <4> QED
        BY <1>1, <4>1, MoveFact DEF In
    <3>4. ASSUME NEW t \in Settlement, NEW from \in {"pending_approval", "approved"},
                 NEW to \in {"rejected", "abandoned"}, NEW reason \in RejectionCode \cup {"none"},
                 Release(t, from, to, reason)
          PROVE  In(s, "settling")
      BY <1>1, <3>4, MoveFact DEF Release, In
    <3>5. ASSUME NEW t \in Settlement, Capture(t) PROVE In(s, "settling")
      BY <1>1, <3>5, MoveFact DEF Capture, In
    <3>6. ASSUME NEW t \in Settlement, EnterSettling(t)
          PROVE  \/ In(s, "settling")
                 \/ /\ row[s].state = "approved"
                    /\ row[s].hash = MandateCartHash(stored[row[s].mandate], row[s].cart)
      <4>1. Move(t, "approved", "settling", "none")
        BY <3>6 DEF EnterSettling
      <4>2. t # s => row'[s] = row[s]
        BY <1>1, <4>1, MoveFact
      <4>3. CASE t = s
        BY <3>6, <4>3 DEF EnterSettling, Reverifies, In
      <4> QED
        BY <4>2, <4>3 DEF In
    <3>7. \/ In(s, "settling")
          \/ /\ row[s].state = "approved"
             /\ row[s].hash = MandateCartHash(stored[row[s].mandate], row[s].cart)
      BY <1>1, <1>3, <3>1, <3>2, <3>3, <3>4, <3>5, <3>6, RowStep DEF In
    <3> QED
      BY <1>1, <3>7 DEF HashInv, In, NoRow
  <2>2. /\ row'[s].mandate = row[s].mandate /\ row'[s].cart = row[s].cart
        /\ row'[s].hash = row[s].hash
    BY <1>1, <1>3, <2>1, RowsKept
  <2>3. row[s].mandate \in Mandate /\ Registered(row[s].mandate)
    BY <1>1, <2>1 DEF LinkInv, TypeOK, Row
  <2>4. stored'[row[s].mandate] = stored[row[s].mandate]
    BY <1>1, <1>3, <2>3, StoredKept
  <2> QED
    BY <2>1, <2>2, <2>4
<1> QED
  BY <1>2, <1>3

LEMMA LinesStep == IInv /\ [Next]_vars => LinesInv'
<1> SUFFICES ASSUME IInv, [Next]_vars PROVE LinesInv'
  OBVIOUS
<1>1. TypeOK /\ LinesInv /\ OneReservation
  BY DEF IInv
\* A settlement that stays where it was keeps its lines, if its wallet's total stays.
<1>2. ASSUME NEW s \in Settlement, row'[s] = row[s], approval'[s] = approval[s],
             row[s] # NoRow => Spent(row[s].mandate)' = Spent(row[s].mandate),
             row'[s].state \in {"approved", "settling"}, approval'[s] # "approved",
             NEW i \in Intent, row'[s].hash = MandateCartHash(i, row'[s].cart)
      PROVE  BelowLines(s, i)'
  <2>1. row[s] # NoRow
    BY <1>2 DEF NoRow
  <2>2. BelowLines(s, i)
    BY <1>1, <1>2 DEF LinesInv
  <2> QED
    BY <1>2, <2>1, <2>2 DEF BelowLines
<1>3. CASE UNCHANGED <<row, approval>>
  <2>1. \A m : Spent(m)' = Spent(m)
    BY <1>3 DEF Spent, Captured, RowsOf, In, Total
  <2> QED
    BY <1>2, <1>3, <2>1 DEF LinesInv, MandateCartHash
<1>4. CASE Next
  <2>1. ASSUME NEW s \in Settlement, NEW t \in Settlement, s # t, row[s] # NoRow,
               row[s].state \in {"approved", "settling"},
               \A u \in Settlement \ {t} : row'[u] = row[u],
               \/ row[t].state # "captured" /\ row'[t].state # "captured"
               \/ Open(t) /\ row'[t].mandate = row[t].mandate
        PROVE  Spent(row[s].mandate)' = Spent(row[s].mandate)
    <3>1. row[s].mandate \in Mandate
      BY <1>1, <2>1 DEF TypeOK, Row
    <3>2. Open(s)
      BY <2>1 DEF Open, TerminalSettlement, ReleasedSettlement
    <3>3. Open(t) => row[t].mandate # row[s].mandate
      BY <1>1, <2>1, <3>2 DEF OneReservation
    <3> QED
      BY <1>1, <2>1, <3>1, <3>3, SpentStep
  <2>2. ASSUME NEW t \in Settlement,
               NEW from \in {"pending_approval", "approved", "settling"}, NEW to,
               NEW reason \in RejectionCode \cup {"none", "approval_rejected"},
               Move(t, from, to, reason),
               \A s \in Settlement \ {t} : approval'[s] = approval[s],
               \/ to \notin {"approved", "settling"}
               \/ approval'[t] = "approved"
               \/ from = "approved" /\ to = "settling" /\ approval'[t] = approval[t]
        PROVE  LinesInv'
    <3>1. /\ row[t] \in Row /\ row[t].state = from /\ row'[t].state = to
          /\ row'[t].mandate = row[t].mandate /\ row'[t].cart = row[t].cart
          /\ row'[t].hash = row[t].hash
          /\ \A u \in Settlement \ {t} : row'[u] = row[u]
      BY <1>1, <2>2, MoveFact
    <3>2. Open(t)
      BY <3>1 DEF Open, TerminalSettlement, ReleasedSettlement, NoRow
    <3> SUFFICES ASSUME NEW s \in Settlement, row'[s].state \in {"approved", "settling"},
                        approval'[s] # "approved",
                        NEW i \in Intent, row'[s].hash = MandateCartHash(i, row'[s].cart)
                 PROVE  BelowLines(s, i)'
      BY DEF LinesInv, MandateCartHash
    <3>3. CASE s # t
      <4>1. row[s] # NoRow => Spent(row[s].mandate)' = Spent(row[s].mandate)
        BY <2>1, <3>1, <3>2, <3>3
      <4> QED
        BY <1>2, <2>2, <3>1, <3>3, <4>1
    <3>4. CASE s = t
      <4>1. from = "approved" /\ to = "settling" /\ approval'[t] = approval[t]
        BY <2>2, <3>1, <3>4
      <4>2. BelowLines(t, i)
        BY <1>1, <3>1, <3>4, <4>1 DEF LinesInv, MandateCartHash
      <4>3. Spent(row[t].mandate)' = Spent(row[t].mandate)
        <5>1. row[t].mandate \in Mandate
          BY <3>1 DEF Row
        <5> QED
          BY <1>1, <3>1, <4>1, <5>1, SpentStep
      <4> QED
        BY <3>1, <3>4, <4>2, <4>3 DEF BelowLines
    <3> QED
      BY <3>3, <3>4
  <2>3. ASSUME NEW r \in Request, NEW t \in Settlement, Insert(r, t) PROVE LinesInv'
    <3> DEFINE new == CreatedRow(r, t)
               ctx == VerifyCtx(r.intent, r.cart, t)
    <3>1. /\ row'[t] = new /\ \A u \in Settlement \ {t} : row'[u] = row[u]
          /\ row[t] = NoRow /\ approval' = approval
      BY <1>1, <2>3, InsertFact DEF Insert
    <3>2. /\ new.mandate = r.intent.mandate /\ new.cart = r.cart
          /\ new.hash = MandateCartHash(r.intent, r.cart)
          /\ new.state \in {"rejected", "pending_approval", "approved"}
          /\ new.state = "approved" => ~NeedsApproval(r.intent, r.cart, ctx)
      BY <1>1, CreatedFact
    <3>3. ctx.spent = Spent(r.intent.mandate)
      BY DEF VerifyCtx
    <3> HIDE DEF new, ctx
    <3> SUFFICES ASSUME NEW s \in Settlement, row'[s].state \in {"approved", "settling"},
                        approval'[s] # "approved",
                        NEW i \in Intent, row'[s].hash = MandateCartHash(i, row'[s].cart)
                 PROVE  BelowLines(s, i)'
      BY DEF LinesInv, MandateCartHash
    <3>4. CASE s # t
      <4>1. row[t].state # "captured" /\ row'[t].state # "captured"
        BY <3>1, <3>2 DEF NoRow
      <4>2. row[s] # NoRow => Spent(row[s].mandate)' = Spent(row[s].mandate)
        BY <2>1, <3>1, <3>4, <4>1
      <4> QED
        BY <1>2, <3>1, <3>4, <4>2
    <3>5. CASE s = t
      <4>1. i = r.intent
        BY <3>1, <3>2, <3>5, SettlementsAssumption DEF MandateCartHash
      <4>2. new.state = "approved" /\ ~NeedsApproval(i, r.cart, ctx)
        BY <3>1, <3>2, <3>5, <4>1
      <4>3. Spent(i.mandate)' = Spent(i.mandate)
        <5>1. i.mandate \in Mandate
          BY SettlementsAssumption
        <5>2. row[t].state # "captured" /\ row'[t].state # "captured"
          BY <3>1, <3>2 DEF NoRow
        <5> QED
          BY <1>1, <3>1, <5>1, <5>2, SpentStep
      <4> QED
        BY <3>1, <3>2, <3>3, <3>5, <4>1, <4>2, <4>3 DEF BelowLines, NeedsApproval
    <3> QED
      BY <3>4, <3>5
  <2>4. ASSUME NEW t \in Settlement, NEW decision \in {"approved", "rejected"}, Decide(t, decision)
        PROVE  LinesInv'
    <3>1. Move(t, "pending_approval", decision,
               IF decision = "rejected" THEN "approval_rejected" ELSE "none")
      BY <2>4 DEF Decide
    <3>2. approval'[t] = decision /\ \A s \in Settlement \ {t} : approval'[s] = approval[s]
      BY <1>1, <2>4 DEF Decide, TypeOK
    <3> QED
      BY <2>2, <3>1, <3>2
  <2>5. ASSUME NEW t \in Settlement, EnterSettling(t) PROVE LinesInv'
    <3>1. Move(t, "approved", "settling", "none") /\ approval' = approval
      BY <2>5 DEF EnterSettling
    <3> QED
      BY <2>2, <3>1
  <2>6. ASSUME NEW t \in Settlement, Capture(t) PROVE LinesInv'
    <3>1. Move(t, "settling", "captured", "none") /\ approval' = approval
      BY <2>6 DEF Capture
    <3> QED
      BY <2>2, <3>1
  <2>7. ASSUME NEW t \in Settlement, NEW from \in {"pending_approval", "approved"},
               NEW to \in {"rejected", "abandoned"}, NEW reason \in RejectionCode \cup {"none"},
               Release(t, from, to, reason)
        PROVE  LinesInv'
    <3>1. Move(t, from, to, reason) /\ approval' = approval
      BY <2>7 DEF Release
    <3> QED
      BY <2>2, <2>7, <3>1
  <2> QED
    BY <1>1, <1>3, <1>4, <2>3, <2>4, <2>5, <2>6, <2>7, RowStep
<1> QED
  BY <1>3, <1>4 DEF vars

-----------------------------------------------------------------------------
\* IInv holds of every reachable state.
LEMMA InductiveInvariant == Spec => []IInv
<1>1. Init => IInv
  BY InitInv
<1>2. IInv /\ [Next]_vars => IInv'
  BY TypeStep, ReservationStep, DecisionStep, LinkStep, HashStep, LinesStep DEF IInv
<1> QED
  BY <1>1, <1>2, PTL DEF Spec

\* Rows, keys and decisions are ones the code writes, and only a registered mandate is
\* ever revoked (the handlers' guards and the CHECKs of schema.sql).
THEOREM SettlementsTyped == Spec => []TypeOK
<1>1. IInv => TypeOK
  BY DEF IInv
<1> QED
  BY <1>1, InductiveInvariant, PTL

\* The reservation lock holds for any number of versions of an intent, carts and keys
\* (one_live_settlement_per_mandate with createSettlement's INSERT).
THEOREM ReservationIsExclusive == Spec => []OneReservation
<1>1. IInv => OneReservation
  BY DEF IInv
<1> QED
  BY <1>1, InductiveInvariant, PTL

\* Decisions and settlements agree (decideApproval and the sweep's compare-and-swaps).
THEOREM DecisionsAgree == Spec => []DecisionAgreement
<1>1. IInv => DecisionAgreement
  BY DEF IInv
<1> QED
  BY <1>1, InductiveInvariant, PTL

\* A settlement answers one idempotency key (claimIdempotencyKey, completeIdempotencyKey,
\* sweepStaleIdempotencyLocks).
THEOREM KeysAreExact == Spec => []OneKeyPerSettlement
<1>1. IInv => OneKeyPerSettlement
  BY DEF IInv
<1> QED
  BY <1>1, InductiveInvariant, PTL

\* Whatever the intents, the carts and the order of requests, what settles without the
\* human is below the stored intent's lines (needsApproval, computed once at creation,
\* the hash pinned on the row and the reservation lock together).
THEOREM HumanStaysInTheLoop == Spec => []HumanInTheLoop
<1>1. IInv => HumanInTheLoop
  <2> SUFFICES ASSUME IInv, NEW s \in Settlement, In(s, "settling"), approval[s] # "approved"
               PROVE  LET intent == stored[row[s].mandate]  cart == row[s].cart
                      IN ~NeedsApproval(intent, cart, VerifyCtx(intent, cart, s))
    BY DEF HumanInTheLoop
  <2>1. row[s] \in Row /\ Registered(row[s].mandate)
    BY DEF IInv, TypeOK, LinkInv, In, NoRow
  <2>2. /\ stored[row[s].mandate] \in Intent
        /\ stored[row[s].mandate].mandate = row[s].mandate
    BY <2>1 DEF IInv, TypeOK, LinkInv, Row, Registered
  <2>3. row[s].hash = MandateCartHash(stored[row[s].mandate], row[s].cart)
    BY DEF IInv, HashInv
  <2>4. BelowLines(s, stored[row[s].mandate])
    BY <2>2, <2>3 DEF IInv, LinesInv, In
  <2> QED
    BY <2>2, <2>4 DEF BelowLines, NeedsApproval, VerifyCtx
<1> QED
  BY <1>1, InductiveInvariant, PTL

\* Nothing enters settling under a mandate that is revoked or past its grace, nor for a
\* cart that is not its agent's, its own or in scope (reverifyAndEnterSettling).
THEOREM AuthorityIsLive == Spec => AuthorityAtSettling
<1>1. IInv /\ [Next]_vars =>
        [\A s \in Settlement :
           row[s].state # "settling" /\ row'[s].state = "settling" =>
             LET m == row[s].mandate IN
             /\ m \notin revoked
             /\ now <= stored[m].expires + clockSkewSec
             /\ row[s].cart.merchant \in stored[m].merchants
             /\ row[s].cart.intent = stored[m].version
             /\ row[s].cart.signer = stored[m].agent]_vars
  <2> SUFFICES ASSUME IInv, Next, NEW s \in Settlement,
                      row[s].state # "settling", row'[s].state = "settling"
               PROVE  LET m == row[s].mandate IN
                      /\ m \notin revoked
                      /\ now <= stored[m].expires + clockSkewSec
                      /\ row[s].cart.merchant \in stored[m].merchants
                      /\ row[s].cart.intent = stored[m].version
                      /\ row[s].cart.signer = stored[m].agent
    BY DEF vars
  <2>1. TypeOK /\ LinkInv
    BY DEF IInv
  <2>2. ASSUME NEW r \in Request, NEW t \in Settlement, Insert(r, t) PROVE FALSE
    BY <2>1, <2>2, InsertFact, CreatedFact
  <2>3. ASSUME NEW t \in Settlement, NEW decision \in {"approved", "rejected"}, Decide(t, decision)
        PROVE  FALSE
    <3>1. Move(t, "pending_approval", decision,
               IF decision = "rejected" THEN "approval_rejected" ELSE "none")
      BY <2>3 DEF Decide
    <3> QED
      BY <2>1, <3>1, MoveFact
  <2>4. ASSUME NEW t \in Settlement, NEW from \in {"pending_approval", "approved"},
               NEW to \in {"rejected", "abandoned"}, NEW reason \in RejectionCode \cup {"none"},
               Release(t, from, to, reason)
        PROVE  FALSE
    BY <2>1, <2>4, MoveFact DEF Release
  <2>5. ASSUME NEW t \in Settlement, Capture(t) PROVE FALSE
    BY <2>1, <2>5, MoveFact DEF Capture
  <2>6. ASSUME NEW t \in Settlement, EnterSettling(t) PROVE t = s
    BY <2>1, <2>6, MoveFact DEF EnterSettling
  <2>7. EnterSettling(s)
    BY <2>1, <2>2, <2>3, <2>4, <2>5, <2>6, RowStep
  <2> DEFINE m == row[s].mandate
             intent == stored[m]
             ctx == VerifyCtx(intent, row[s].cart, s)
  <2>8. Accepts(intent, row[s].cart, ctx)
    BY <2>7 DEF EnterSettling, Reverifies
  <2>9. /\ row[s].cart.intent = intent.version /\ row[s].cart.signer = intent.agent
        /\ row[s].cart.merchant \in intent.merchants
        /\ ~Expired(intent, ctx) /\ ~ctx.revoked
    BY <2>8, AcceptedMeans
  <2>10. row[s] \in Row /\ Registered(m)
    BY <2>1, <2>7 DEF EnterSettling, In, TypeOK, LinkInv, NoRow
  <2>11. intent \in Intent /\ intent.mandate = m
    BY <2>1, <2>10 DEF TypeOK, LinkInv, Row, Registered
  <2>12. ctx.now = now /\ (ctx.revoked <=> m \in revoked)
    BY <2>11 DEF VerifyCtx
  <2>13. now \in Nat /\ intent.expires \in Nat /\ clockSkewSec \in Nat
    BY <2>1, <2>11, SettlementsAssumption, GateAssumption DEF TypeOK
  <2>14. now <= intent.expires + clockSkewSec
    BY <2>9, <2>12, <2>13 DEF Expired
  <2> QED
    BY <2>9, <2>12, <2>14
<1> QED
  BY <1>1, InductiveInvariant, PTL DEF Spec, AuthorityAtSettling

\* Whatever has been spent, a refusal under a revoked mandate does not report a budget
\* (the order of verifyChain's checks, at creation and at the executor).
THEOREM RevocationIsReported == Spec => RevokedReportsRevoked
<1> DEFINE Budget == {"AMOUNT_EXCEEDS_CEILING", "MERCHANT_LIMIT_EXCEEDED"}
<1>1. IInv /\ [Next]_vars =>
        [\A s \in Settlement :
           row'[s] # row[s] /\ row'[s].reason \in Budget => row'[s].mandate \notin revoked]_vars
  <2> SUFFICES ASSUME IInv, Next, NEW s \in Settlement,
                      row'[s] # row[s], row'[s].reason \in Budget
               PROVE  row'[s].mandate \notin revoked
    BY DEF vars
  <2>1. TypeOK /\ LinkInv
    BY DEF IInv
  <2>2. ASSUME NEW t \in Settlement,
               NEW from \in {"pending_approval", "approved", "settling"}, NEW to,
               NEW reason \in RejectionCode \cup {"none", "approval_rejected"},
               Move(t, from, to, reason)
        PROVE  t = s /\ reason \in Budget /\ row[s] \in Row /\ row'[s].mandate = row[s].mandate
    BY <2>1, <2>2, MoveFact
  <2>3. ASSUME NEW k \in Key, NEW r \in Request, PostSettlement(k, r)
        PROVE  row'[s].mandate \notin revoked
    <3> DEFINE ctx == VerifyCtx(r.intent, r.cart, s)
    <3>1. row' # row
      OBVIOUS
    <3>2. FreeId \in Settlement /\ row' = [row EXCEPT ![FreeId] = CreatedRow(r, FreeId)]
      BY <2>3, <3>1, FreeIdFact DEF PostSettlement
    <3>3. s = FreeId /\ row'[s] = CreatedRow(r, s)
      BY <2>1, <3>2 DEF TypeOK
    <3>4. ~Accepts(r.intent, r.cart, ctx) => CreatedRow(r, s).reason = Reason(r.intent, r.cart, ctx)
      BY DEF CreatedRow
    <3>5. Accepts(r.intent, r.cart, ctx) => CreatedRow(r, s).reason = "none"
      BY DEF CreatedRow
    <3>6. CreatedRow(r, s).mandate = r.intent.mandate
      BY <2>1, CreatedFact
    <3>7. ctx.revoked <=> r.intent.mandate \in revoked
      BY DEF VerifyCtx
    <3> HIDE DEF ctx
    <3> QED
      BY <3>3, <3>4, <3>5, <3>6, <3>7, RevokedIsNoBudget
  <2>4. ASSUME NEW t \in Settlement, RejectAtSettling(t) PROVE row'[s].mandate \notin revoked
    <3> DEFINE intent == stored[row[t].mandate]
               cart == row[t].cart
               ctx == VerifyCtx(intent, cart, t)
               reason == IF MandateCartHash(intent, cart) # row[t].hash THEN "HASH_LINK_MISMATCH"
                         ELSE Reason(intent, cart, ctx)
    <3>1. Move(t, "approved", "rejected", reason)
      BY <2>4 DEF RejectAtSettling
    <3>2. MandateCartHash(intent, cart) = row[t].hash => ~Accepts(intent, cart, ctx)
      BY <2>4 DEF RejectAtSettling, Reverifies
    <3>3. reason \in RejectionCode
      <4>1. "HASH_LINK_MISMATCH" \in RejectionCode
        BY DEF RejectionCode
      <4>2. ~Accepts(intent, cart, ctx) => Reason(intent, cart, ctx) \in RejectionCode
        BY ReasonIsCode
      <4> HIDE DEF intent, cart, ctx
      <4> QED
        BY <3>2, <4>1, <4>2
    <3>4. t = s /\ reason \in Budget /\ row[s] \in Row /\ row'[s].mandate = row[s].mandate
      <4> HIDE DEF reason
      <4> QED
        BY <2>2, <3>1, <3>3
    <3>5. ~ctx.revoked
      <4> HIDE DEF intent, cart, ctx
      <4> QED
        BY <3>4, RevokedIsNoBudget
    <3>6. row[t].mandate \in Mandate /\ Registered(row[t].mandate)
      BY <2>1, <3>4 DEF LinkInv, Row, NoRow, SettlementState
    <3>7. intent.mandate = row[t].mandate
      BY <2>1, <3>6 DEF LinkInv
    <3> QED
      BY <3>4, <3>5, <3>7 DEF VerifyCtx
  <2>5. ASSUME NEW t \in Settlement, NEW decision \in {"approved", "rejected"}, Decide(t, decision)
        PROVE  FALSE
    <3>1. Move(t, "pending_approval", decision,
               IF decision = "rejected" THEN "approval_rejected" ELSE "none")
      BY <2>5 DEF Decide
    <3>2. (IF decision = "rejected" THEN "approval_rejected" ELSE "none") \in Budget
      BY <2>2, <3>1
    <3> QED
      BY <3>2
  <2>6. ASSUME NEW t \in Settlement, NEW budgetSpent \in BOOLEAN,
               \/ EnterSettling(t) \/ Capture(t) \/ SweepApproval(t)
               \/ SweepApproved(t, budgetSpent)
        PROVE  FALSE
    <3>1. "none" \in Budget
      BY <2>2, <2>6 DEF EnterSettling, Capture, SweepApproval, SweepApproved
    <3> QED
      BY <3>1
  <2>7. \/ \E i \in Intent : Register(i)
        \/ \E m \in Mandate : Revoke(m)
        \/ \E k \in Key : SweepLock(k) \/ \E r \in Request : ClaimThenCrash(k, r)
        \/ Tick
        => row' = row
    BY DEF Register, Revoke, SweepLock, ClaimThenCrash, Tick
  <2> QED
    BY <2>3, <2>4, <2>5, <2>6, <2>7 DEF Next, SettlementStep
<1> QED
  BY <1>1, InductiveInvariant, PTL DEF Spec, RevokedReportsRevoked

-----------------------------------------------------------------------------
(* A mandate is the wallet its human was promised: Settlements implements  *)
(* Wallet, and what is spent at a merchant stays within its limit.  The    *)
(* two partial unique indexes leave one settlement of a mandate open, so   *)
(* what the gate reads as spent when it lets a cart into settling is all   *)
(* that was committed.                                                     *)

Settling(m) == {s \in RowsOf(m) : In(s, "settling")}
Reserved(m) == Total(Settling(m))
Committed(m, merchant) ==
  {s \in RowsOf(m) : /\ row[s].state \in {"settling", "captured"}
                     /\ row[s].cart.merchant = merchant}
Ceiling(m) == IF Registered(m) THEN stored[m].ceiling ELSE NoLimit

-----------------------------------------------------------------------------
(* Totals of rows.                                                         *)

LEMMA CartTyped ==
  ASSUME TypeOK, NEW s \in Settlement, row[s] # NoRow
  PROVE  /\ row[s].mandate \in Mandate /\ row[s].cart.total \in Nat
         /\ row[s].cart.merchant \in Merchant
<1>1. row[s] \in Row
  BY DEF TypeOK
<1>2. \A r \in Row : r.mandate \in Mandate /\ r.cart \in Cart
  BY DEF Row
<1>3. \A c \in Cart : c.total \in Nat /\ c.merchant \in Merchant
  BY SettlementsAssumption DEF Cart
<1> QED  BY <1>1, <1>2, <1>3

\* The total of some rows is a natural, and that of none is 0.
LEMMA TotalNat ==
  ASSUME TypeOK, NEW S \in SUBSET Settlement, \A s \in S : row[s] # NoRow
  PROVE  Total(S) \in Nat /\ (S = {} => Total(S) = 0)
<1>1. IsFiniteSet(S)
  BY SettlementsAssumption, FS_Subset
<1>2. [s \in S |-> row[s].cart.total] \in [S -> Nat]
  BY CartTyped
<1> QED  BY <1>1, <1>2, SumNat DEF Total

\* The total of some rows is that of one of them and of the others.
LEMMA TotalTakes ==
  ASSUME TypeOK, NEW S \in SUBSET Settlement, \A s \in S : row[s] # NoRow, NEW s \in S
  PROVE  Total(S) = row[s].cart.total + Total(S \ {s})
<1> DEFINE fun == [t \in S |-> row[t].cart.total]
           rest == [t \in S \ {s} |-> fun[t]]
<1>1. IsFiniteSet(S)
  BY SettlementsAssumption, FS_Subset
<1>2. fun \in [S -> Nat]
  BY CartTyped
<1>3. SumFunction(fun) = fun[s] + SumFunction(rest)
  <2> HIDE DEF fun
  <2>1. \A x \in S : SumFunction(fun) = fun[x] + SumFunction([t \in S \ {x} |-> fun[t]])
    BY <1>1, <1>2, SumTakes
  <2> QED  BY <2>1
<1>4. rest = [t \in S \ {s} |-> row[t].cart.total]
  OBVIOUS
<1>5. Total(S) = SumFunction(fun) /\ Total(S \ {s}) = SumFunction(rest)
  BY <1>4 DEF Total
<1> QED  BY <1>3, <1>5

\* One row's total is its cart's.
LEMMA SingleTotal ==
  ASSUME TypeOK, NEW s \in Settlement, row[s] # NoRow
  PROVE  Total({s}) = row[s].cart.total
<1>1. {s} \ {s} = {} /\ {s} \in SUBSET Settlement /\ {} \in SUBSET Settlement
  OBVIOUS
<1>2. Total({s}) = row[s].cart.total + Total({})
  BY <1>1, TotalTakes
<1> QED  BY <1>2, TotalNat, CartTyped

\* Rows that keep their carts keep their total.
LEMMA TotalKept ==
  ASSUME NEW S, \A s \in S : row'[s].cart = row[s].cart
  PROVE  Total(S)' = Total(S)
<1>1. [s \in S |-> row[s].cart.total]' = [s \in S |-> row[s].cart.total]
  OBVIOUS
<1> QED  BY <1>1 DEF Total

\* A row past approved is a row.
LEMMA MovedIsRow ==
  ASSUME NEW s \in Settlement, row[s].state \in {"approved", "settling", "captured"}
  PROVE  row[s] # NoRow
BY DEF NoRow

LEMMA SetsOfRows ==
  ASSUME TypeOK, NEW m, NEW merchant
  PROVE  /\ Settling(m) \in SUBSET Settlement /\ \A s \in Settling(m) : row[s] # NoRow
         /\ Captured(m) \in SUBSET Settlement /\ \A s \in Captured(m) : row[s] # NoRow
         /\ Committed(m, merchant) \in SUBSET Settlement
         /\ \A s \in Committed(m, merchant) : row[s] # NoRow
BY MovedIsRow DEF Settling, Captured, Committed, RowsOf, In

-----------------------------------------------------------------------------
(* The steps, by what they do to committed money.                          *)

\* No row enters or leaves settling or captured.
Quiet ==
  \A t \in Settlement :
    row[t].state \in {"settling", "captured"} \/ row'[t].state \in {"settling", "captured"} =>
      row'[t] = row[t]

LEMMA MoneyStep ==
  ASSUME TypeOK, Next
  PROVE  Quiet \/ \E s \in Settlement : EnterSettling(s) \/ Capture(s)
<1>1. UNCHANGED <<row, approval>> => Quiet
  BY DEF Quiet
<1>2. ASSUME NEW r \in Request, NEW s \in Settlement, Insert(r, s) PROVE Quiet
  <2>1. row[s].state = "none"
    BY <1>2 DEF Insert, NoRow
  <2>2. /\ row'[s].state \in {"rejected", "pending_approval", "approved"}
        /\ \A t \in Settlement \ {s} : row'[t] = row[t]
    BY <1>2, InsertFact, CreatedFact
  <2> QED  BY <2>1, <2>2 DEF Quiet
<1>3. ASSUME NEW s \in Settlement, NEW from \in {"pending_approval", "approved"},
             NEW to \in {"approved", "rejected", "abandoned"},
             NEW reason \in RejectionCode \cup {"none", "approval_rejected"},
             Move(s, from, to, reason)
      PROVE  Quiet
  <2>1. /\ row[s].state = from /\ row'[s].state = to
        /\ \A t \in Settlement \ {s} : row'[t] = row[t]
    BY <1>3, MoveFact
  <2> QED  BY <2>1 DEF Quiet
<1>4. ASSUME NEW s \in Settlement, NEW decision \in {"approved", "rejected"}, Decide(s, decision)
      PROVE  Quiet
  BY <1>3, <1>4 DEF Decide
<1>5. ASSUME NEW s \in Settlement, NEW from \in {"pending_approval", "approved"},
             NEW to \in {"rejected", "abandoned"}, NEW reason \in RejectionCode \cup {"none"},
             Release(s, from, to, reason)
      PROVE  Quiet
  BY <1>3, <1>5 DEF Release
<1> HIDE DEF RejectionCode
<1> QED  BY <1>1, <1>2, <1>4, <1>5, RowStep

\* A quiet step leaves every sum of the mandate as it was.
LEMMA QuietKeeps ==
  ASSUME Quiet, NEW m, NEW merchant
  PROVE  /\ Spent(m)' = Spent(m) /\ Reserved(m)' = Reserved(m)
         /\ Total(Committed(m, merchant))' = Total(Committed(m, merchant))
<1>1. Captured(m)' = Captured(m) /\ \A s \in Captured(m) : row'[s].cart = row[s].cart
  BY DEF Quiet, Captured, RowsOf, In
<1>2. Spent(m)' = Spent(m)
  BY <1>1, SpentKept
<1>3. Reserved(m)' = Reserved(m)
  <2>1. PICK S : S = Settling(m)
    OBVIOUS
  <2>2. Settling(m)' = S /\ \A s \in S : row'[s].cart = row[s].cart
    BY <2>1 DEF Quiet, Settling, RowsOf, In
  <2>3. Total(S)' = Total(S)
    BY <2>2, TotalKept
  <2> QED  BY <2>1, <2>2, <2>3 DEF Reserved, Total
<1>4. Total(Committed(m, merchant))' = Total(Committed(m, merchant))
  <2>1. PICK S : S = Committed(m, merchant)
    OBVIOUS
  <2>2. Committed(m, merchant)' = S /\ \A s \in S : row'[s].cart = row[s].cart
    BY <2>1 DEF Quiet, Committed, RowsOf
  <2>3. Total(S)' = Total(S)
    BY <2>2, TotalKept
  <2> QED  BY <2>1, <2>2, <2>3 DEF Total
<1> QED  BY <1>2, <1>3, <1>4

\* While a settlement is approved or settling no other one of its mandate is settling.
LEMMA SoleSettling ==
  ASSUME OneReservation, NEW s \in Settlement, row[s].state \in {"approved", "settling"},
         NEW t \in Settling(row[s].mandate)
  PROVE  t = s
<1>1. Open(s) /\ Open(t) /\ row[t].mandate = row[s].mandate /\ t \in Settlement
  BY MovedIsRow DEF Open, TerminalSettlement, ReleasedSettlement, Settling, RowsOf, In
<1> QED  BY <1>1 DEF OneReservation

\* What the gate let in: the cart fits what is left of the wallet and of the limit.
LEMMA FitsIn ==
  ASSUME IInv, NEW s \in Settlement, EnterSettling(s)
  PROVE  LET m == row[s].mandate  cart == row[s].cart  limit == stored[m].limits[cart.merchant]
         IN /\ Registered(m) /\ stored[m] \in Intent
            /\ ~(Spent(m) + cart.total > stored[m].ceiling)
            /\ limit # NoLimit => ~(SpentAt(m, cart.merchant) + cart.total > limit)
<1> DEFINE m == row[s].mandate
           cart == row[s].cart
           ctx == VerifyCtx(stored[m], cart, s)
<1>1. row[s] # NoRow /\ TypeOK /\ LinkInv
  BY MovedIsRow DEF EnterSettling, IInv, In
<1>2. m \in Mandate /\ Registered(m) /\ stored[m].mandate = m
  BY <1>1, CartTyped DEF LinkInv
<1>3. stored[m] \in Intent
  BY <1>1, <1>2 DEF TypeOK, Registered
<1>4. Accepts(stored[m], cart, ctx)
  BY DEF EnterSettling, Reverifies
<1>5. ctx.spent = Spent(m) /\ ctx.merchantSpent = SpentAt(m, cart.merchant)
  BY <1>2 DEF VerifyCtx
<1>6. ~OverCeiling(stored[m], cart, ctx)
  <2>1. ~Fails("AMOUNT_EXCEEDS_CEILING", stored[m], cart, ctx)
    BY <1>4 DEF Accepts, RejectionCode
  <2> QED  BY <2>1 DEF Fails
<1>7. ~OverMerchantLimit(stored[m], cart, ctx)
  <2>1. ~Fails("MERCHANT_LIMIT_EXCEEDED", stored[m], cart, ctx)
    BY <1>4 DEF Accepts, RejectionCode
  <2> QED  BY <2>1 DEF Fails
<1> HIDE DEF ctx
<1>8. ~(Spent(m) + cart.total > stored[m].ceiling)
  BY <1>5, <1>6 DEF OverCeiling
<1>9. stored[m].limits[cart.merchant] # NoLimit =>
        ~(SpentAt(m, cart.merchant) + cart.total > stored[m].limits[cart.merchant])
  BY <1>5, <1>7 DEF OverMerchantLimit
<1> QED  BY <1>2, <1>3, <1>8, <1>9

\* A row goes from one state of a wallet to the next, and nothing else moves.
LEMMA MoneyMoves ==
  ASSUME TypeOK, NEW s \in Settlement, EnterSettling(s) \/ Capture(s)
  PROVE  /\ EnterSettling(s) => row[s].state = "approved" /\ row'[s].state = "settling"
         /\ Capture(s) => row[s].state = "settling" /\ row'[s].state = "captured"
         /\ row[s] # NoRow /\ row'[s].mandate = row[s].mandate /\ row'[s].cart = row[s].cart
         /\ \A t \in Settlement \ {s} : row'[t] = row[t]
         /\ stored' = stored
<1>1. Move(s, "approved", "settling", "none") \/ Move(s, "settling", "captured", "none")
  BY DEF EnterSettling, Capture
<1>2. "none" \in RejectionCode \cup {"none", "approval_rejected"}
  OBVIOUS
<1>3. /\ EnterSettling(s) => Move(s, "approved", "settling", "none")
      /\ Capture(s) => Move(s, "settling", "captured", "none")
      /\ stored' = stored
  BY DEF EnterSettling, Capture
<1> HIDE DEF RejectionCode
<1> QED  BY <1>2, <1>3, MoveFact, MovedIsRow

-----------------------------------------------------------------------------
(* The limits of merchants.                                                *)

LEMMA LimitStep == IInv /\ MerchantWithinLimit /\ [Next]_vars => MerchantWithinLimit'
<1> SUFFICES ASSUME IInv, MerchantWithinLimit, [Next]_vars,
                    NEW m \in Mandate, NEW merchant \in Merchant,
                    Registered(m)', stored'[m].limits[merchant] # NoLimit
             PROVE  Total(Committed(m, merchant))' <= stored'[m].limits[merchant]
  BY DEF MerchantWithinLimit, Committed
<1>1. TypeOK /\ OneReservation /\ LinkInv
  BY DEF IInv
<1>2. Registered(m) => /\ stored[m] \in Intent
                       /\ stored[m].limits[merchant] # NoLimit =>
                            Total(Committed(m, merchant)) <= stored[m].limits[merchant]
  BY <1>1 DEF MerchantWithinLimit, Committed, TypeOK, Registered
<1>3. CASE UNCHANGED vars
  <2>1. Quiet /\ stored' = stored
    BY <1>3 DEF vars, Quiet
  <2> QED  BY <2>1, <1>2, QuietKeeps DEF Registered
<1>4. CASE Next /\ Quiet
  <2>1. Total(Committed(m, merchant))' = Total(Committed(m, merchant))
    BY <1>4, QuietKeeps
  <2>2. CASE Registered(m)
    <3>1. stored'[m] = stored[m]
      BY <1>1, <1>4, <2>2, StoredKept
    <3> QED  BY <1>2, <2>1, <2>2, <3>1
  <2>3. CASE ~Registered(m)
    <3>1. Committed(m, merchant) = {}
      BY <1>1, <2>3, SetsOfRows DEF Committed, RowsOf, LinkInv
    <3>2. Total(Committed(m, merchant)) = 0
      BY <1>1, <3>1, SetsOfRows, TotalNat
    <3>3. stored'[m] \in Intent
      BY <1>1, TypeStep DEF TypeOK, Registered
    <3>4. stored'[m].limits[merchant] \in Nat
      BY <3>3, SettlementsAssumption
    <3> QED  BY <2>1, <3>2, <3>4
  <2> QED  BY <2>2, <2>3
<1>5. ASSUME NEW s \in Settlement, EnterSettling(s)
      PROVE  Total(Committed(m, merchant))' <= stored'[m].limits[merchant]
  <2>1. /\ row[s].state = "approved" /\ row'[s].state = "settling" /\ row[s] # NoRow
        /\ row'[s].mandate = row[s].mandate /\ row'[s].cart = row[s].cart
        /\ \A t \in Settlement \ {s} : row'[t] = row[t]
        /\ stored' = stored
    BY <1>1, <1>5, MoneyMoves
  <2>2. Registered(m) /\ stored[m] \in Intent
    BY <1>2, <2>1 DEF Registered
  <2>3. PICK S : S = Committed(m, merchant)
    OBVIOUS
  <2>4. CASE row[s].mandate = m /\ row[s].cart.merchant = merchant
    <3>1. S = CapturedAt(m, merchant)
      BY <1>1, <2>1, <2>3, <2>4, SoleSettling
         DEF Committed, CapturedAt, Captured, Settling, RowsOf, In
    <3>2. Committed(m, merchant)' = S \cup {s} /\ s \notin S
      BY <2>1, <2>3, <2>4 DEF Committed, RowsOf
    <3>3. Total(S) + row[s].cart.total <= stored[m].limits[merchant]
      <4>1. ~(SpentAt(m, merchant) + row[s].cart.total > stored[m].limits[merchant])
        BY <1>5, <2>1, <2>4, FitsIn
      <4>2. Total(S) \in Nat /\ row[s].cart.total \in Nat
        BY <1>1, <2>1, <2>3, SetsOfRows, TotalNat, CartTyped
      <4>3. stored[m].limits[merchant] \in Nat
        BY <2>1, <2>2, SettlementsAssumption
      <4> QED  BY <3>1, <4>1, <4>2, <4>3 DEF SpentAt
    <3>4. Total(S \cup {s})' = Total(S \cup {s})
      BY <2>1, <2>3, TotalKept DEF Committed, RowsOf
    <3>5. Total(S \cup {s}) = row[s].cart.total + Total(S)
      <4>1. /\ S \cup {s} \in SUBSET Settlement
            /\ \A t \in S \cup {s} : row[t] # NoRow
        BY <1>1, <2>1, <2>3, SetsOfRows
      <4>2. (S \cup {s}) \ {s} = S
        BY <3>2
      <4> QED  BY <1>1, <4>1, <4>2, TotalTakes
    <3>6. Total(Committed(m, merchant))' = row[s].cart.total + Total(S)
      BY <3>2, <3>4, <3>5 DEF Total
    <3>7. Total(S) \in Nat /\ row[s].cart.total \in Nat
      BY <1>1, <2>1, <2>3, SetsOfRows, TotalNat, CartTyped
    <3> QED  BY <2>1, <3>3, <3>6, <3>7
  <2>5. CASE ~(row[s].mandate = m /\ row[s].cart.merchant = merchant)
    <3>1. Committed(m, merchant)' = S /\ \A t \in S : row'[t].cart = row[t].cart
      BY <2>1, <2>3, <2>5 DEF Committed, RowsOf
    <3>2. Total(S)' = Total(S)
      BY <3>1, TotalKept
    <3> QED  BY <1>2, <2>1, <2>2, <2>3, <3>1, <3>2 DEF Total
  <2> QED  BY <2>4, <2>5
<1>6. ASSUME NEW s \in Settlement, Capture(s)
      PROVE  Total(Committed(m, merchant))' <= stored'[m].limits[merchant]
  <2>1. /\ row[s].state = "settling" /\ row'[s].state = "captured"
        /\ row'[s].mandate = row[s].mandate /\ row'[s].cart = row[s].cart
        /\ \A t \in Settlement \ {s} : row'[t] = row[t]
        /\ stored' = stored
    BY <1>1, <1>6, MoneyMoves
  <2>2. PICK S : S = Committed(m, merchant)
    OBVIOUS
  <2>3. Committed(m, merchant)' = S /\ \A t \in S : row'[t].cart = row[t].cart
    BY <2>1, <2>2 DEF Committed, RowsOf
  <2>4. Total(S)' = Total(S)
    BY <2>3, TotalKept
  <2> QED  BY <1>2, <2>1, <2>2, <2>3, <2>4 DEF Total, Registered
<1> QED  BY <1>1, <1>3, <1>4, <1>5, <1>6, MoneyStep

\* What is captured and settling at a merchant never passes the sub-ceiling that the human
\* set for it, however many carts the agent posts (getCapturedSpendAtMerchant, verify.ts).
THEOREM LimitsHold == Spec => []MerchantWithinLimit
<1>1. Init => MerchantWithinLimit
  BY DEF Init, MerchantWithinLimit, Registered
<1> QED  BY <1>1, LimitStep, InductiveInvariant, PTL DEF Spec

-----------------------------------------------------------------------------
(* The wallet.                                                             *)

\* What an entry into settling does to the sums: the settlement's total is reserved.
LEMMA ReserveStep ==
  ASSUME IInv, NEW s \in Settlement, EnterSettling(s), NEW m \in Mandate
  PROVE  /\ Spent(m)' = Spent(m)
         /\ row[s].mandate # m => Reserved(m)' = Reserved(m)
         /\ row[s].mandate = m => /\ Reserved(m) = 0
                                  /\ Reserved(m)' = row[s].cart.total
<1>1. TypeOK /\ OneReservation
  BY DEF IInv
<1>2. /\ row[s].state = "approved" /\ row'[s].state = "settling" /\ row[s] # NoRow
      /\ row'[s].mandate = row[s].mandate /\ row'[s].cart = row[s].cart
      /\ \A t \in Settlement \ {s} : row'[t] = row[t]
  BY <1>1, MoneyMoves
<1>3. Spent(m)' = Spent(m)
  BY <1>1, <1>2, SpentStep
<1>4. CASE row[s].mandate # m
  <2>1. PICK S : S = Settling(m)
    OBVIOUS
  <2>2. Settling(m)' = S /\ \A t \in S : row'[t].cart = row[t].cart
    BY <1>2, <1>4, <2>1 DEF Settling, RowsOf, In
  <2>3. Total(S)' = Total(S)
    BY <2>2, TotalKept
  <2> QED  BY <1>3, <1>4, <2>1, <2>2, <2>3 DEF Reserved, Total
<1>5. CASE row[s].mandate = m
  <2>1. Settling(m) = {}
    BY <1>1, <1>2, <1>5, SoleSettling DEF Settling, RowsOf, In
  <2>2. Reserved(m) = 0
    BY <1>1, <2>1, SetsOfRows, TotalNat DEF Reserved
  <2>3. Settling(m)' = {s}
    BY <1>2, <1>5, <2>1 DEF Settling, RowsOf, In
  <2>4. Total({s})' = Total({s})
    BY <1>2, TotalKept
  <2>5. Total({s}) = row[s].cart.total
    BY <1>1, <1>2, SingleTotal
  <2> QED  BY <1>3, <1>5, <2>2, <2>3, <2>4, <2>5 DEF Reserved, Total
<1> QED  BY <1>4, <1>5

\* What a capture does to them: what was reserved is spent.
LEMMA SpendStep ==
  ASSUME IInv, NEW s \in Settlement, Capture(s), NEW m \in Mandate
  PROVE  /\ row[s].mandate # m => Spent(m)' = Spent(m) /\ Reserved(m)' = Reserved(m)
         /\ row[s].mandate = m => /\ Spent(m)' = Spent(m) + Reserved(m)
                                  /\ Reserved(m)' = 0
<1>1. TypeOK /\ OneReservation
  BY DEF IInv
<1>2. /\ row[s].state = "settling" /\ row'[s].state = "captured" /\ row[s] # NoRow
      /\ row'[s].mandate = row[s].mandate /\ row'[s].cart = row[s].cart
      /\ \A t \in Settlement \ {s} : row'[t] = row[t]
  BY <1>1, MoneyMoves
<1>3. CASE row[s].mandate # m
  <2>1. PICK S : S = Settling(m)
    OBVIOUS
  <2>2. Settling(m)' = S /\ \A t \in S : row'[t].cart = row[t].cart
    BY <1>2, <1>3, <2>1 DEF Settling, RowsOf, In
  <2>3. Total(S)' = Total(S)
    BY <2>2, TotalKept
  <2>4. Spent(m)' = Spent(m)
    BY <1>1, <1>2, <1>3, SpentStep
  <2> QED  BY <1>3, <2>1, <2>2, <2>3, <2>4 DEF Reserved, Total
<1>4. CASE row[s].mandate = m
  <2>1. Settling(m) = {s}
    BY <1>1, <1>2, <1>4, SoleSettling DEF Settling, RowsOf, In
  <2>2. Reserved(m) = row[s].cart.total
    BY <1>1, <1>2, <2>1, SingleTotal DEF Reserved
  <2>3. PICK S : S = Captured(m)
    OBVIOUS
  <2>4. Captured(m)' = S \cup {s} /\ s \notin S /\ S \in SUBSET Settlement
        /\ \A t \in S \cup {s} : row[t] # NoRow /\ row'[t].cart = row[t].cart
    BY <1>1, <1>2, <1>4, <2>3, SetsOfRows DEF Captured, RowsOf, In
  <2>5. Total(S \cup {s})' = Total(S \cup {s})
    BY <2>4, TotalKept
  <2>6. Total(S \cup {s}) = row[s].cart.total + Total(S)
    <3>1. (S \cup {s}) \ {s} = S /\ S \cup {s} \in SUBSET Settlement /\ s \in S \cup {s}
      BY <2>4
    <3> QED  BY <1>1, <2>4, <3>1, TotalTakes
  <2>7. Spent(m)' = row[s].cart.total + Spent(m)
    BY <2>3, <2>4, <2>5, <2>6 DEF Spent, Total
  <2>8. Settling(m)' = {}
    BY <1>2, <2>1 DEF Settling, RowsOf, In
  <2>9. Reserved(m)' = 0
    <3>1. Total({})' = Total({})
      BY TotalKept
    <3>2. Total({}) = 0
      BY <1>1, TotalNat
    <3> QED  BY <2>8, <3>1, <3>2 DEF Reserved, Total
  <2>10. Spent(m) \in Nat /\ row[s].cart.total \in Nat
    BY <1>1, <1>2, SetsOfRows, TotalNat, CartTyped DEF Spent
  <2> QED  BY <1>4, <2>2, <2>7, <2>9, <2>10
<1> QED  BY <1>3, <1>4

\* The state of the wallet, as the refinement maps it.
ceilingBar == [m \in Mandate |-> Ceiling(m)]
spentBar == [m \in Mandate |-> Spent(m)]
reservedBar == [m \in Mandate |-> Reserved(m)]

W == INSTANCE Wallet WITH Closed <- NoLimit, ceiling <- ceilingBar, spent <- spentBar,
                          reserved <- reservedBar

LEMMA InitWallet == Init => W!Init
<1> SUFFICES ASSUME Init PROVE W!Init
  OBVIOUS
<1>1. TypeOK
  BY InitInv DEF IInv
<1>2. ASSUME NEW m \in Mandate PROVE Ceiling(m) = NoLimit /\ Spent(m) = 0 /\ Reserved(m) = 0
  <2>1. Captured(m) = {} /\ Settling(m) = {}
    BY DEF Init, Captured, Settling, RowsOf, In, NoRow
  <2>2. Total({}) = 0
    BY <1>1, TotalNat
  <2> QED  BY <2>1, <2>2 DEF Init, Ceiling, Registered, Spent, Reserved
<1> QED  BY <1>2 DEF W!Init, ceilingBar, spentBar, reservedBar

LEMMA StepWallet == IInv /\ [Next]_vars => [W!Next]_(W!vars)
<1> SUFFICES ASSUME IInv, [Next]_vars PROVE [W!Next]_(W!vars)
  OBVIOUS
<1> USE DEF ceilingBar, spentBar, reservedBar
<1>1. TypeOK /\ LinkInv
  BY DEF IInv
<1>2. ASSUME stored' = stored PROVE ceilingBar' = ceilingBar
  BY <1>2 DEF Ceiling, Registered
<1>3. ASSUME Quiet PROVE spentBar' = spentBar /\ reservedBar' = reservedBar
  <2>1. \A m \in Mandate : Spent(m)' = Spent(m) /\ Reserved(m)' = Reserved(m)
    BY <1>3, QuietKeeps
  <2> QED  BY <2>1
<1>4. CASE Quiet /\ stored' = stored
  BY <1>2, <1>3, <1>4 DEF W!vars
<1>5. ASSUME NEW i \in Intent, Register(i) PROVE W!Next
  <2>1. Quiet
    BY <1>5 DEF Register, Quiet
  <2>2. PICK n \in Mandate : n = i.mandate
    BY SettlementsAssumption
  <2>3. PICK c \in Nat : c = i.ceiling
    BY SettlementsAssumption
  <2>4. /\ ~Registered(n) /\ stored'[n] = i /\ i # NoIntent
        /\ \A m \in Mandate \ {n} : stored'[m] = stored[m]
    BY <1>1, <1>5, <2>2, SettlementsAssumption DEF Register, TypeOK
  <2>5. Ceiling(n) = NoLimit /\ Ceiling(n)' = c /\ \A m \in Mandate \ {n} : Ceiling(m)' = Ceiling(m)
    BY <2>3, <2>4 DEF Ceiling, Registered
  <2>6. /\ ceilingBar[n] = NoLimit /\ ceilingBar'[n] = c
        /\ ceilingBar' = [ceilingBar EXCEPT ![n] = c]
    BY <2>5
  <2>7. W!Open(n)
    BY <1>3, <2>1, <2>6 DEF W!Open
  <2> QED  BY <2>7 DEF W!Next
<1>6. ASSUME NEW s \in Settlement, EnterSettling(s) PROVE [W!Next]_(W!vars)
  <2>1. stored' = stored /\ row[s] # NoRow
    BY <1>1, <1>6, MoneyMoves
  <2>2. PICK n \in Mandate : n = row[s].mandate
    BY <1>1, <2>1, CartTyped
  <2>3. PICK total \in Nat : total = row[s].cart.total
    BY <1>1, <2>1, CartTyped
  <2>4. /\ \A m \in Mandate : Spent(m)' = Spent(m)
        /\ \A m \in Mandate \ {n} : Reserved(m)' = Reserved(m)
        /\ Reserved(n) = 0 /\ Reserved(n)' = total
    BY <1>6, <2>2, <2>3, ReserveStep
  <2>5. UNCHANGED <<ceilingBar, spentBar>>
    BY <1>2, <2>1, <2>4
  <2>6. reservedBar[n] = 0 /\ reservedBar'[n] = total /\ reservedBar' = [reservedBar EXCEPT ![n] = total]
    BY <2>4
  <2>7. CASE total = 0
    <3>1. reservedBar' = reservedBar
      BY <2>6, <2>7
    <3> QED  BY <2>5, <3>1 DEF W!vars
  <2>8. CASE total # 0
    <3>1. Registered(n) /\ stored[n] \in Intent /\ ~(Spent(n) + total > stored[n].ceiling)
      BY <1>6, <2>2, <2>3, FitsIn
    <3>2. Spent(n) \in Nat /\ stored[n].ceiling \in Nat
      BY <1>1, <3>1, SetsOfRows, TotalNat, SettlementsAssumption DEF Spent
    <3>3. ceilingBar[n] = stored[n].ceiling /\ spentBar[n] = Spent(n)
      BY <3>1 DEF Ceiling
    <3>4. ceilingBar[n] # NoLimit
      BY <3>2, <3>3, SettlementsAssumption
    <3>5. reservedBar'[n] \in 1 .. ceilingBar[n] - spentBar[n]
      <4>1. total \in 1 .. stored[n].ceiling - Spent(n)
        BY <2>8, <3>1, <3>2
      <4> QED  BY <2>6, <3>3, <4>1
    <3>6. W!Reserve(n)
      BY <2>5, <2>6, <3>4, <3>5 DEF W!Reserve
    <3> QED  BY <3>6 DEF W!Next
  <2> QED  BY <2>7, <2>8
<1>7. ASSUME NEW s \in Settlement, Capture(s) PROVE W!Next
  <2>1. stored' = stored /\ row[s] # NoRow
    BY <1>1, <1>7, MoneyMoves
  <2>2. PICK n \in Mandate : n = row[s].mandate
    BY <1>1, <2>1, CartTyped
  <2>3. /\ \A m \in Mandate \ {n} : Spent(m)' = Spent(m) /\ Reserved(m)' = Reserved(m)
        /\ Spent(n)' = Spent(n) + Reserved(n) /\ Reserved(n)' = 0
    BY <1>7, <2>2, SpendStep
  <2>4. ceilingBar' = ceilingBar
    BY <1>2, <2>1
  <2>5. spentBar' = [spentBar EXCEPT ![n] = spentBar[n] + reservedBar[n]]
    BY <2>3
  <2>6. reservedBar' = [reservedBar EXCEPT ![n] = 0]
    BY <2>3
  <2>7. W!Spend(n)
    BY <2>4, <2>5, <2>6 DEF W!Spend
  <2> QED  BY <2>7 DEF W!Next
<1>8. Next => \/ stored' = stored
              \/ \E i \in Intent : Register(i)
  BY Writers
<1>9. CASE UNCHANGED vars
  BY <1>4, <1>9 DEF vars, Quiet
<1>10. CASE Next
  BY <1>1, <1>4, <1>5, <1>6, <1>7, <1>8, <1>10, MoneyStep
<1> QED  BY <1>9, <1>10

\* A mandate is the wallet its human was promised: one reservation at a time, and what is
\* captured or settling never above the ceiling that was registered with it.
THEOREM MandateIsWallet == Spec => KeepsWallet
<1>1. Init => Wallet!Init
  BY InitWallet DEF W!Init, Wallet!Init, ceilingBar, spentBar, reservedBar, Ceiling, Reserved,
     Settling
<1>2. IInv /\ [Next]_vars => [Wallet!Next]_(Wallet!vars)
  BY StepWallet DEF W!Next, W!Open, W!Reserve, W!Spend, W!vars, Wallet!Next, Wallet!Open,
     Wallet!Reserve, Wallet!Spend, Wallet!vars, ceilingBar, spentBar, reservedBar, Ceiling,
     Reserved, Settling
<1> QED  BY <1>1, <1>2, InductiveInvariant, PTL DEF Spec, KeepsWallet, Wallet!Spec

-----------------------------------------------------------------------------
(* The till.                                                               *)

\* A key that is claimed: one more is in use, and no other with its name.
LEMMA KeyEntered ==
  ASSUME TypeOK, NEW k \in Key, key[k] = NoEntry, NEW x \in Entry, x # NoEntry,
         key' = [key EXCEPT ![k] = x]
  PROVE  \E e \in KeysInUse' \ KeysInUse :
           /\ Till!Enter(e) /\ e.locked = x.locked /\ e.sale = x.sid
           /\ e.body = [mandate |-> x.request.intent.mandate,
                        hash |-> MandateCartHash(x.request.intent, x.request.cart)]
<1>1. key'[k] = x /\ \A l \in Key \ {k} : key'[l] = key[l]
  BY DEF TypeOK
<1>2. PICK e : e = [key |-> k, locked |-> x.locked, sale |-> x.sid,
                    body |-> [mandate |-> x.request.intent.mandate,
                              hash |-> MandateCartHash(x.request.intent, x.request.cart)]]
  OBVIOUS
<1>3. KeySeen(k)' = e /\ \A l \in Key \ {k} : KeySeen(l)' = KeySeen(l)
  BY <1>1, <1>2 DEF KeySeen
<1>4. \A f \in KeysInUse : f.key # e.key
  BY <1>2 DEF KeysInUse, KeySeen
<1>5. KeysInUse' = KeysInUse \cup {e}
  <2>1. \A f : f \in KeysInUse' <=> \E l \in Key : key'[l] # NoEntry /\ f = KeySeen(l)'
    BY DEF KeysInUse
  <2>2. \A f : f \in KeysInUse <=> \E l \in Key : key[l] # NoEntry /\ f = KeySeen(l)
    BY DEF KeysInUse
  <2>3. \A f : f \in KeysInUse' => f \in KeysInUse \/ f = e
    BY <1>1, <1>3, <2>1, <2>2
  <2>4. \A f \in KeysInUse : f \in KeysInUse'
    BY <1>1, <1>3, <2>1, <2>2
  <2>5. e \in KeysInUse'
    BY <1>1, <1>3, <2>1
  <2> QED  BY <2>3, <2>4, <2>5
<1>6. Till!Enter(e) /\ e \in KeysInUse' \ KeysInUse
  BY <1>4, <1>5 DEF Till!Enter
<1>7. /\ e.locked = x.locked /\ e.sale = x.sid
      /\ e.body = [mandate |-> x.request.intent.mandate,
                   hash |-> MandateCartHash(x.request.intent, x.request.cart)]
  BY <1>2
<1> QED  BY <1>6, <1>7

\* A lock that is swept: its key, and only that, is out of use.
LEMMA KeyFreed ==
  ASSUME TypeOK, NEW k \in Key, key[k] # NoEntry, key' = [key EXCEPT ![k] = NoEntry]
  PROVE  \E e \in KeysInUse : e.locked = key[k].locked /\ KeysInUse' = KeysInUse \ {e}
<1>1. key'[k] = NoEntry /\ \A l \in Key \ {k} : key'[l] = key[l]
  BY DEF TypeOK
<1>2. PICK e : e = KeySeen(k)
  OBVIOUS
<1>3. \A l \in Key \ {k} : KeySeen(l)' = KeySeen(l) /\ KeySeen(l) # e
  BY <1>1, <1>2 DEF KeySeen
<1>4. \A f : f \in KeysInUse' <=> \E l \in Key : key'[l] # NoEntry /\ f = KeySeen(l)'
  BY DEF KeysInUse
<1>5. \A f : f \in KeysInUse <=> \E l \in Key : key[l] # NoEntry /\ f = KeySeen(l)
  BY DEF KeysInUse
<1>6. e \in KeysInUse
  BY <1>2, <1>5
<1>7. \A f : f \in KeysInUse' => f \in KeysInUse /\ f # e
  BY <1>1, <1>3, <1>4, <1>5
<1>8. \A f \in KeysInUse : f # e => f \in KeysInUse'
  BY <1>1, <1>2, <1>3, <1>4, <1>5
<1>9. e.locked = key[k].locked
  BY <1>2 DEF KeySeen
<1> QED  BY <1>6, <1>7, <1>8, <1>9

\* What there is of a settlement in the till, before a step and after it.
SalesAre(sales, rows) ==
  /\ \A s : s \in DOMAIN sales <=> s \in Settlement /\ rows[s] # NoRow
  /\ \A s \in DOMAIN sales :
       sales[s] = [mandate |-> rows[s].mandate, hash |-> rows[s].hash, state |-> rows[s].state]
  /\ sales = [s \in DOMAIN sales |-> sales[s]]
LEMMA SalesBefore == SalesAre(SalesMade, row)
BY DEF SalesMade, SalesAre
LEMMA SalesAfter == SalesAre(SalesMade', row')
BY DEF SalesMade, SalesAre

\* A settlement that moves.
LEMMA SaleMoves ==
  ASSUME TypeOK, NEW s \in Settlement,
         NEW from \in {"pending_approval", "approved", "settling"}, NEW to,
         NEW reason \in RejectionCode \cup {"none", "approval_rejected"},
         Move(s, from, to, reason), key' = key
  PROVE  Till!Next
<1>1. PICK old : old = SalesMade /\ SalesAre(old, row)
  BY SalesBefore
<1>2. PICK new : new = SalesMade' /\ SalesAre(new, row')
  BY SalesAfter
<1>3. /\ row[s] # NoRow /\ row'[s] # NoRow /\ row[s].state = from
      /\ row'[s].state = to /\ row'[s].mandate = row[s].mandate /\ row'[s].hash = row[s].hash
      /\ \A t \in Settlement \ {s} : row'[t] = row[t]
  <2>1. \A x \in Row : x # NoRow
    BY DEF Row, NoRow, SettlementState
  <2> QED  BY <2>1, MoveFact
<1>4. to \in SettlementState /\ SettlementCAS(from, from, to)
  BY DEF Move, SettlementCAS, SETTLEMENT_TRANSITIONS, SettlementState
<1>5. /\ DOMAIN new = DOMAIN old /\ s \in DOMAIN old
      /\ \A t \in DOMAIN old \ {s} : new[t] = old[t]
      /\ new = [t \in DOMAIN new |-> new[t]] /\ old = [t \in DOMAIN old |-> old[t]]
  <2>1. /\ \A t : t \in DOMAIN old <=> t \in Settlement /\ row[t] # NoRow
        /\ \A t : t \in DOMAIN new <=> t \in Settlement /\ row'[t] # NoRow
    BY <1>1, <1>2 DEF SalesAre
  <2>2. DOMAIN new = DOMAIN old /\ s \in DOMAIN old
    BY <1>3, <2>1
  <2>3. \A t \in DOMAIN old \ {s} : new[t] = old[t]
    BY <1>1, <1>2, <1>3, <2>1, <2>2 DEF SalesAre
  <2> QED  BY <1>1, <1>2, <2>2, <2>3 DEF SalesAre
<1>6. old[s].state = from /\ new[s] = [old[s] EXCEPT !.state = to]
  <2>1. /\ old[s] = [mandate |-> row[s].mandate, hash |-> row[s].hash, state |-> row[s].state]
        /\ new[s] = [mandate |-> row'[s].mandate, hash |-> row'[s].hash, state |-> row'[s].state]
    BY <1>1, <1>2, <1>5 DEF SalesAre
  <2> QED  BY <1>3, <2>1
<1>7. new = [old EXCEPT ![s].state = to]
  BY <1>5, <1>6
<1>8. KeysInUse' = KeysInUse
  BY DEF KeysInUse, KeySeen
<1>9. Till!Move(s, to)
  BY <1>1, <1>2, <1>4, <1>6, <1>7, <1>8 DEF Till!Move, Till!SettlementCAS, SettlementCAS,
     Till!SETTLEMENT_TRANSITIONS, SETTLEMENT_TRANSITIONS
<1> QED  BY <1>1, <1>4, <1>5, <1>9 DEF Till!Next, Till!SettlementState, SettlementState

\* A settlement that comes into being stands in nobody's way, nor anybody in its own.
LEMMA SaleJoins ==
  ASSUME TypeOK, NEW r \in Request, NEW s \in Settlement, Insert(r, s)
  PROVE  LET body == [mandate |-> r.intent.mandate, hash |-> MandateCartHash(r.intent, r.cart)] IN
         /\ s \notin DOMAIN SalesMade /\ ~Till!Taken(body)
         /\ \E state \in {"rejected", "pending_approval", "approved"} :
              SalesMade' = [t \in DOMAIN SalesMade \cup {s} |->
                              IF t = s THEN [mandate |-> body.mandate, hash |-> body.hash, state |-> state]
                              ELSE SalesMade[t]]
<1>1. PICK old : old = SalesMade /\ SalesAre(old, row)
  BY SalesBefore
<1>2. PICK new : new = SalesMade' /\ SalesAre(new, row')
  BY SalesAfter
<1>3. PICK body : body = [mandate |-> r.intent.mandate, hash |-> MandateCartHash(r.intent, r.cart)]
  OBVIOUS
<1>4. PICK made \in Row :
        /\ made = row'[s] /\ made.mandate = body.mandate /\ made.hash = body.hash
        /\ made.state \in {"rejected", "pending_approval", "approved"}
  BY <1>3, InsertFact, CreatedFact
<1>5. made # NoRow
  BY DEF Row, NoRow, SettlementState
<1>6. row[s] = NoRow /\ \A t \in Settlement \ {s} : row'[t] = row[t]
  BY InsertFact DEF Insert
<1>7. s \notin DOMAIN old /\ DOMAIN new = DOMAIN old \cup {s}
  <2>1. \A t : t \in DOMAIN new <=> t \in DOMAIN old \/ t = s
    BY <1>1, <1>2, <1>4, <1>5, <1>6 DEF SalesAre
  <2> QED  BY <1>1, <1>6, <2>1 DEF SalesAre
<1>8. new[s] = [mandate |-> body.mandate, hash |-> body.hash, state |-> made.state]
  BY <1>2, <1>4, <1>7 DEF SalesAre
<1>9. \A t \in DOMAIN old : t # s /\ new[t] = old[t]
  BY <1>1, <1>2, <1>6, <1>7 DEF SalesAre
<1>10. new = [t \in DOMAIN old \cup {s} |->
                IF t = s THEN [mandate |-> body.mandate, hash |-> body.hash, state |-> made.state]
                ELSE old[t]]
  BY <1>2, <1>7, <1>8, <1>9 DEF SalesAre
<1>11. ~Till!Taken(body)
  <2> SUFFICES ASSUME Till!Taken(body) PROVE FALSE
    OBVIOUS
  <2>1. PICK t \in DOMAIN old :
          \/ old[t].hash = body.hash /\ old[t].state \notin ReleasedSettlement
          \/ old[t].mandate = body.mandate /\ old[t].state \notin TerminalSettlement
    BY <1>1 DEF Till!Taken, Till!ReleasedSettlement, ReleasedSettlement,
       Till!TerminalSettlement, TerminalSettlement
  <2>2. /\ t \in Settlement /\ row[t] # NoRow
        /\ old[t].hash = row[t].hash /\ old[t].state = row[t].state
        /\ old[t].mandate = row[t].mandate
    BY <1>1, <2>1 DEF SalesAre
  <2>3. body.hash = MandateCartHash(r.intent, r.cart) /\ body.mandate = r.intent.mandate
    BY <1>3
  <2>4. Clash(r)
    BY <2>1, <2>2, <2>3 DEF Clash, Holding, Open
  <2> QED  BY <2>4 DEF Insert
<1> QED  BY <1>1, <1>2, <1>3, <1>4, <1>7, <1>10, <1>11

\* Whatever happens to a settlement that is there is a move of its row.
LEMMA StepMoves ==
  ASSUME NEW s \in Settlement, SettlementStep(s)
  PROVE  \E from \in {"pending_approval", "approved", "settling"}, to \in SettlementState,
            reason \in RejectionCode \cup {"none", "approval_rejected"} : Move(s, from, to, reason)
<1> DEFINE Moves == \E from \in {"pending_approval", "approved", "settling"}, to \in SettlementState,
                      reason \in RejectionCode \cup {"none", "approval_rejected"} :
                      Move(s, from, to, reason)
<1>1. ASSUME NEW from \in {"pending_approval", "approved", "settling"}, NEW to \in SettlementState,
             NEW reason \in RejectionCode \cup {"none", "approval_rejected"},
             Move(s, from, to, reason)
      PROVE  Moves
  BY <1>1
<1> HIDE DEF Moves
<1> {"approved", "rejected", "settling", "captured", "abandoned"} \subseteq SettlementState
  BY DEF SettlementState
<1>2. ASSUME NEW decision \in {"approved", "rejected"}, Decide(s, decision) PROVE Moves
  <2>1. PICK reason \in {"none", "approval_rejected"} :
          reason = IF decision = "rejected" THEN "approval_rejected" ELSE "none"
    BY <1>2
  <2>2. Move(s, "pending_approval", decision, reason)
    BY <1>2, <2>1 DEF Decide
  <2> QED  BY <1>1, <2>1, <2>2
<1>3. ASSUME RejectAtSettling(s) PROVE Moves
  <2> DEFINE intent == stored[row[s].mandate]
             cart == row[s].cart
             ctx == VerifyCtx(intent, cart, s)
             reason == IF MandateCartHash(intent, cart) # row[s].hash THEN "HASH_LINK_MISMATCH"
                       ELSE Reason(intent, cart, ctx)
  <2>1. Move(s, "approved", "rejected", reason)
    BY <1>3 DEF RejectAtSettling
  <2>2. MandateCartHash(intent, cart) = row[s].hash => ~Accepts(intent, cart, ctx)
    BY <1>3 DEF RejectAtSettling, Reverifies
  <2>3. reason \in RejectionCode
    <3>1. "HASH_LINK_MISMATCH" \in RejectionCode
      BY DEF RejectionCode
    <3>2. ~Accepts(intent, cart, ctx) => Reason(intent, cart, ctx) \in RejectionCode
      BY ReasonIsCode
    <3> HIDE DEF intent, cart, ctx
    <3> QED
      BY <2>2, <3>1, <3>2
  <2> HIDE DEF reason
  <2> QED  BY <1>1, <2>1, <2>3
<1>4. ASSUME EnterSettling(s) PROVE Moves
  BY <1>1, <1>4 DEF EnterSettling
<1>5. ASSUME Capture(s) PROVE Moves
  BY <1>1, <1>5 DEF Capture
<1>6. ASSUME SweepApproval(s) PROVE Moves
  BY <1>1, <1>6 DEF SweepApproval
<1>7. ASSUME NEW budgetSpent \in BOOLEAN, SweepApproved(s, budgetSpent) PROVE Moves
  BY <1>1, <1>7 DEF SweepApproved
<1>8. Moves
  BY <1>2, <1>3, <1>4, <1>5, <1>6, <1>7 DEF SettlementStep
<1> QED  BY <1>8 DEF Moves

LEMMA TillStep == ASSUME IInv, [Next]_vars PROVE [Till!Next]_(Till!vars)
<1>1. TypeOK
  BY DEF IInv
<1>2. ASSUME row' = row, key' = key PROVE UNCHANGED Till!vars
  BY <1>2 DEF Till!vars, KeysInUse, KeySeen, SalesMade
<1>3. ASSUME row' = row PROVE SalesMade' = SalesMade
  BY <1>3 DEF SalesMade
<1>4. ASSUME NEW k \in Key, NEW x \in Entry, key[k] = NoEntry, key' = [key EXCEPT ![k] = x],
             row' = row, x.sid = NoSettlement
      PROVE  [Till!Next]_(Till!vars)
  <2>1. CASE x = NoEntry
    <3>1. key' = key
      BY <1>1, <1>4, <2>1 DEF TypeOK
    <3> QED  BY <1>2, <1>4, <3>1
  <2>2. CASE x # NoEntry
    <3>1. PICK e \in KeysInUse' \ KeysInUse : Till!Enter(e) /\ e.sale = NoSettlement
      BY <1>1, <1>4, <2>2, KeyEntered
    <3>2. Till!Claim(e)
      BY <1>3, <1>4, <3>1 DEF Till!Claim
    <3> QED  BY <3>1, <3>2 DEF Till!Next
  <2> QED  BY <2>1, <2>2
<1>5. ASSUME NEW k \in Key, NEW r \in Request, PostSettlement(k, r)
      PROVE  [Till!Next]_(Till!vars)
  <2>1. key[k] = NoEntry
    BY <1>5 DEF PostSettlement
  <2>2. ASSUME NEW sid \in Settlement \cup {NoSettlement}
        PROVE  [request |-> r, locked |-> FALSE, sid |-> sid, at |-> 0] \in Entry
    <3>1. 0 \in 0 .. MaxTime
      BY SettlementsAssumption
    <3> QED  BY <3>1 DEF Entry
  <2>3. CASE ~Registered(r.intent.mandate) \/ Clash(r)
    <3>1. row' = row /\ Complete(k, r, NoSettlement)
      BY <1>5, <2>3 DEF PostSettlement
    <3>2. PICK x \in Entry : x = [request |-> r, locked |-> FALSE, sid |-> NoSettlement, at |-> 0]
      BY <2>2
    <3>3. x.sid = NoSettlement /\ key' = [key EXCEPT ![k] = x]
      BY <3>1, <3>2 DEF Complete
    <3> QED  BY <1>4, <2>1, <3>1, <3>3
  <2>4. CASE ~(~Registered(r.intent.mandate) \/ Clash(r))
    <3>1. PICK s \in Settlement : s = FreeId /\ row[s] = NoRow
      BY <1>5, <2>4, FreeIdFact DEF PostSettlement
    <3>2. Insert(r, s) /\ Complete(k, r, s)
      BY <1>5, <2>4, <3>1 DEF PostSettlement, Insert
    <3>3. PICK x \in Entry : x = [request |-> r, locked |-> FALSE, sid |-> s, at |-> 0]
      BY <2>2
    <3>4. x.request = r /\ x.locked = FALSE /\ x.sid = s /\ x # NoEntry
      BY <3>3, SettlementsAssumption DEF NoEntry
    <3>5. key' = [key EXCEPT ![k] = x]
      BY <3>2, <3>3 DEF Complete
    <3>6. PICK e \in KeysInUse' \ KeysInUse :
            /\ Till!Enter(e) /\ e.locked = x.locked /\ e.sale = x.sid
            /\ e.body = [mandate |-> x.request.intent.mandate,
                         hash |-> MandateCartHash(x.request.intent, x.request.cart)]
      BY <1>1, <2>1, <3>4, <3>5, KeyEntered
    <3>7. e.body = [mandate |-> r.intent.mandate, hash |-> MandateCartHash(r.intent, r.cart)]
      BY <3>4, <3>6
    <3>8. /\ s \notin DOMAIN SalesMade /\ ~Till!Taken(e.body)
          /\ \E state \in {"rejected", "pending_approval", "approved"} :
               SalesMade' = [t \in DOMAIN SalesMade \cup {s} |->
                               IF t = s THEN [mandate |-> e.body.mandate, hash |-> e.body.hash,
                                              state |-> state]
                               ELSE SalesMade[t]]
      BY <1>1, <3>2, <3>7, SaleJoins
    <3>9. ~e.locked /\ e.sale = s /\ s # NoSettlement
      BY <3>4, <3>6, SettlementsAssumption
    <3>10. \E state \in {"rejected", "pending_approval", "approved"} : Till!Sell(e, state)
      BY <3>6, <3>8, <3>9 DEF Till!Sell
    <3> QED  BY <3>6, <3>10 DEF Till!Next
  <2> QED  BY <2>3, <2>4
<1>6. ASSUME NEW k \in Key, NEW r \in Request, ClaimThenCrash(k, r)
      PROVE  [Till!Next]_(Till!vars)
  <2>1. PICK x : x = [request |-> r, locked |-> TRUE, sid |-> NoSettlement, at |-> now]
    OBVIOUS
  <2>2. x \in Entry /\ x.sid = NoSettlement
    BY <1>1, <2>1 DEF TypeOK, Entry
  <2>3. row' = row /\ key[k] = NoEntry /\ key' = [key EXCEPT ![k] = x]
    BY <1>6, <2>1 DEF ClaimThenCrash
  <2> QED  BY <1>4, <2>2, <2>3
<1>7. ASSUME NEW k \in Key, SweepLock(k) PROVE [Till!Next]_(Till!vars)
  <2>1. row' = row /\ key[k].locked /\ key' = [key EXCEPT ![k] = NoEntry]
    BY <1>7 DEF SweepLock
  <2>2. key[k] # NoEntry
    BY <2>1 DEF NoEntry
  <2>3. PICK e \in KeysInUse : e.locked = key[k].locked /\ KeysInUse' = KeysInUse \ {e}
    BY <1>1, <2>1, <2>2, KeyFreed
  <2>4. Till!Unlock(e)
    BY <1>3, <2>1, <2>3 DEF Till!Unlock
  <2> QED  BY <2>3, <2>4 DEF Till!Next
<1>8. ASSUME NEW s \in Settlement, SettlementStep(s) PROVE Till!Next
  <2>1. key' = key
    BY <1>8 DEF SettlementStep, Decide, EnterSettling, RejectAtSettling, Capture,
       SweepApproval, SweepApproved
  <2>2. \E from \in {"pending_approval", "approved", "settling"}, to \in SettlementState,
           reason \in RejectionCode \cup {"none", "approval_rejected"} : Move(s, from, to, reason)
    BY <1>8, StepMoves
  <2> QED  BY <1>1, <2>1, <2>2, SaleMoves
<1>9. (\E i \in Intent : Register(i)) \/ (\E m \in Mandate : Revoke(m)) \/ Tick \/ UNCHANGED vars
        => row' = row /\ key' = key
  BY DEF Register, Revoke, Tick, vars
<1> QED  BY <1>2, <1>5, <1>6, <1>7, <1>8, <1>9 DEF Next

\* POST /settlements, the decisions, the executor and the sweep are together the till of
\* module Till: a key is answered once, names the settlement made for its very body, and
\* no purchase is taken in twice (claimIdempotencyKey, createSettlement,
\* sweepStaleIdempotencyLocks, the two partial unique indexes).
THEOREM SettlementsKeepTill == Spec => KeepsTill
<1>1. Init => Till!Init
  <2> SUFFICES ASSUME Init PROVE Till!Init
    OBVIOUS
  <2>1. \A k \in Key : key[k] = NoEntry
    BY DEF Init
  <2>2. KeysInUse = {}
    BY <2>1 DEF KeysInUse
  <2>3. \A s \in Settlement : row[s] = NoRow
    BY DEF Init
  <2>4. PICK sales : sales = SalesMade /\ SalesAre(sales, row)
    BY SalesBefore
  <2>5. DOMAIN sales = {}
    BY <2>3, <2>4 DEF SalesAre
  <2> QED  BY <2>2, <2>4, <2>5 DEF Till!Init
<1>2. IInv /\ [Next]_vars => [Till!Next]_(Till!vars)
  BY TillStep
<1> QED  BY <1>1, <1>2, InductiveInvariant, PTL DEF Spec, KeepsTill, Till!Spec
=============================================================================
