--------------------------- MODULE Receipts_proofs --------------------------
(***************************************************************************)
(* Theorems of Receipts, for any mandates, requests, agents and limits.    *)
(* Every step of Receipts is a step of Settlements or none of its          *)
(* variables move, so the inductive invariant of Settlements carries over; *)
(* beside it, what the ledger says of a settlement fits its state and its  *)
(* decision, and a row on which money moved keeps the hash of the intent   *)
(* that is registered.                                                     *)
(***************************************************************************)
EXTENDS Receipts, Settlements_proofs

LedgerEvent ==
  {"verify_passed", "verify_rejected", "approval_requested", "approval_granted",
   "approval_rejected", "approval_expired", "payment_captured", "settlement_abandoned",
   "agent_decision"}

-----------------------------------------------------------------------------
(* The inductive invariant.                                                *)

\* What the events told say of a settlement in a state, with a decision.
Tells(state, decision, told) ==
  /\ state = "captured" <=> "payment_captured" \in told
  /\ state = "abandoned" <=> {"settlement_abandoned", "approval_expired"} \cap told # {}
  /\ decision = "approved" <=> "approval_granted" \in told
  /\ decision = "rejected" <=> "approval_rejected" \in told
  /\ "verify_rejected" \in told <=> state = "rejected" /\ decision # "rejected"
  /\ "approval_requested" \in told \/ decision = "none"

\* A settlement that waits was asked about; one on its way to money has its gate's verdict.
Grounded(state, told) ==
  /\ state = "pending_approval" => "approval_requested" \in told
  /\ state \in {"approved", "settling", "captured"} => GATE_PASSED_EVENTS \cap told # {}

Story(s) == Tells(row[s].state, approval[s], ToSet(ledger[s]))
              /\ Grounded(row[s].state, ToSet(ledger[s]))

LedgerTyped == ledger \in [Settlement -> Seq(LedgerEvent)]
StoryInv == \A s \in Settlement : (row[s] = NoRow => ledger[s] = <<>>) /\ Story(s)

\* Money moves, and has moved, under the hash of the registered intent and the cart.
PinInv ==
  \A s \in Settlement :
    row[s].state \in {"settling", "captured"} =>
      row[s].hash = MandateCartHash(stored[row[s].mandate], row[s].cart)

ReceiptsInv == IInv /\ LedgerTyped /\ StoryInv /\ PinInv

-----------------------------------------------------------------------------
(* Settlements, with the ledger.                                           *)

LEMMA StepIsSettlements == [NextReceipts]_receiptVars => [Next]_vars
<1>1. \A k \in Key, r \in Request : Create(k, r) => PostSettlement(k, r)
  BY DEF Create
<1>2. \A s \in Settlement :
        /\ \A decision \in {"approved", "rejected"} : DecideLogged(s, decision) => Decide(s, decision)
        /\ RejectLogged(s) => RejectAtSettling(s)
        /\ CaptureLogged(s) => Capture(s)
        /\ ExpireLogged(s) => SweepApproval(s)
        /\ \A budgetSpent \in BOOLEAN : AbandonLogged(s, budgetSpent) => SweepApproved(s, budgetSpent)
        /\ \A signer \in Agent : RecordDecision(s, signer) => UNCHANGED vars
  BY DEF DecideLogged, RejectLogged, CaptureLogged, ExpireLogged, AbandonLogged, RecordDecision
<1>3. TickLogged => Tick
  BY DEF TickLogged
<1>4. UNCHANGED receiptVars => UNCHANGED vars
  BY DEF receiptVars, vars
<1> QED  BY <1>1, <1>2, <1>3, <1>4 DEF NextReceipts, Next, SettlementStep

\* The ledger is a history beside the settlements: what holds of them without it holds with it
\* (every route and sweep rule of Settlements appends in its own transaction).
THEOREM ReceiptsAreSettlements == SpecReceipts => Spec
<1>1. InitReceipts => Init
  BY DEF InitReceipts
<1> QED  BY <1>1, StepIsSettlements, PTL DEF SpecReceipts, Spec

-----------------------------------------------------------------------------
(* The ledger's story.                                                     *)

\* An event more is told, and nothing is taken back.
LEMMA LogFact ==
  ASSUME LedgerTyped, NEW s \in Settlement, NEW event \in LedgerEvent, Log(s, event)
  PROVE  /\ LedgerTyped'
         /\ ToSet(ledger'[s]) = ToSet(ledger[s]) \cup {event}
         /\ \A t \in Settlement \ {s} : ledger'[t] = ledger[t]
<1>1. ledger[s] \in Seq(LedgerEvent)
  BY DEF LedgerTyped
<1>2. ledger' = [ledger EXCEPT ![s] = Append(ledger[s], event)]
  BY DEF Log
<1>3. Append(ledger[s], event) \in Seq(LedgerEvent)
  BY <1>1
<1> HIDE DEF LedgerEvent
<1>4. ledger'[s] = Append(ledger[s], event) /\ \A t \in Settlement \ {s} : ledger'[t] = ledger[t]
  BY <1>2 DEF LedgerTyped
<1>5. LedgerTyped'
  BY <1>2, <1>3 DEF LedgerTyped
<1>6. ToSet(ledger'[s]) = ToSet(ledger[s]) \cup {event}
  <2>1. /\ DOMAIN ledger[s] = 1 .. Len(ledger[s]) /\ Len(ledger[s]) \in Nat
        /\ DOMAIN Append(ledger[s], event) = 1 .. Len(ledger[s]) + 1
        /\ \A i \in DOMAIN ledger[s] : Append(ledger[s], event)[i] = ledger[s][i]
        /\ Append(ledger[s], event)[Len(ledger[s]) + 1] = event
    BY <1>1
  <2> QED  BY <1>4, <2>1 DEF ToSet
<1> QED  BY <1>4, <1>5, <1>6

\* A settlement that is not spoken of keeps its story, and so does one that an agent's
\* decision is noted of.
LEMMA StoryStays ==
  ASSUME StoryInv, NEW s \in Settlement, row'[s] = row[s], approval'[s] = approval[s],
         \/ ledger'[s] = ledger[s]
         \/ row[s] # NoRow /\ ToSet(ledger'[s]) = ToSet(ledger[s]) \cup {"agent_decision"}
  PROVE  (row'[s] = NoRow => ledger'[s] = <<>>) /\ Story(s)'
<1>1. (row[s] = NoRow => ledger[s] = <<>>) /\ Story(s)
  BY DEF StoryInv
<1>2. CASE ledger'[s] = ledger[s]
  BY <1>1, <1>2 DEF Story
<1>3. CASE row[s] # NoRow /\ ToSet(ledger'[s]) = ToSet(ledger[s]) \cup {"agent_decision"}
  BY <1>1, <1>3 DEF Story, Tells, Grounded, GATE_PASSED_EVENTS
<1> QED  BY <1>2, <1>3

\* A step that moves one row and logs one event leaves the stories of the others.
LEMMA StoryMoves ==
  ASSUME StoryInv, LedgerTyped, NEW s \in Settlement, NEW event \in LedgerEvent, Log(s, event),
         \A t \in Settlement \ {s} : row'[t] = row[t] /\ approval'[t] = approval[t],
         row'[s] # NoRow,
         Tells(row'[s].state, approval'[s], ToSet(ledger[s]) \cup {event}),
         Grounded(row'[s].state, ToSet(ledger[s]) \cup {event})
  PROVE  LedgerTyped' /\ StoryInv'
<1>1. /\ LedgerTyped'
      /\ ToSet(ledger'[s]) = ToSet(ledger[s]) \cup {event}
      /\ \A t \in Settlement \ {s} : ledger'[t] = ledger[t]
  BY LogFact
<1>2. Story(s)'
  BY <1>1 DEF Story
<1>3. \A t \in Settlement \ {s} : (row'[t] = NoRow => ledger'[t] = <<>>) /\ Story(t)'
  BY <1>1, StoryStays
<1> QED  BY <1>1, <1>2, <1>3 DEF StoryInv

LEMMA CreateStory ==
  ASSUME ReceiptsInv, NEW k \in Key, NEW r \in Request, Create(k, r)
  PROVE  LedgerTyped' /\ StoryInv'
<1>1. TypeOK /\ DecisionAgreement /\ LedgerTyped /\ StoryInv /\ PostSettlement(k, r)
  BY DEF ReceiptsInv, IInv, Create
<1>2. approval' = approval
  BY <1>1 DEF PostSettlement
<1>3. CASE row' = row
  <2>1. ledger' = ledger
    BY <1>3 DEF Create
  <2> QED  BY <1>1, <1>2, <1>3, <2>1, StoryStays DEF StoryInv, LedgerTyped
<1>4. CASE row' # row
  <2>1. PICK s : s = FreeId
    OBVIOUS
  <2>2. s \in Settlement /\ row[s] = NoRow /\ row' = [row EXCEPT ![s] = CreatedRow(r, s)]
    BY <1>1, <1>4, <2>1, FreeIdFact DEF PostSettlement
  <2>3. /\ row'[s] = CreatedRow(r, s) /\ \A t \in Settlement \ {s} : row'[t] = row[t]
        /\ row'[s].state \in {"rejected", "pending_approval", "approved"}
    BY <1>1, <2>2, CreatedFact DEF TypeOK
  <2>4. Log(s, CreationEvent(row'[s].state))
    BY <1>4, <2>1 DEF Create
  <2>5. approval[s] = "none"
    BY <1>1, <2>2 DEF DecisionAgreement, TypeOK, NoRow, In
  <2>6. ToSet(ledger[s]) = {}
    BY <1>1, <2>2 DEF StoryInv, ToSet
  <2>7. PICK event : event = CreationEvent(row'[s].state)
    OBVIOUS
  <2>8. /\ row'[s].state = "rejected" => event = "verify_rejected"
        /\ row'[s].state = "pending_approval" => event = "approval_requested"
        /\ row'[s].state = "approved" => event = "verify_passed"
    BY <2>3, <2>7 DEF CreationEvent
  <2>9. event \in LedgerEvent /\ row'[s] # NoRow
    BY <2>3, <2>8 DEF LedgerEvent, NoRow
  <2>10. /\ Tells(row'[s].state, approval'[s], {event})
         /\ Grounded(row'[s].state, {event})
    BY <1>2, <2>3, <2>5, <2>8 DEF Tells, Grounded, GATE_PASSED_EVENTS
  <2>11. ToSet(ledger[s]) \cup {event} = {event}
    BY <2>6
  <2> QED  BY <1>1, <1>2, <2>2, <2>3, <2>4, <2>7, <2>9, <2>10, <2>11, StoryMoves
<1> QED  BY <1>3, <1>4

LEMMA DecideStory ==
  ASSUME ReceiptsInv, NEW s \in Settlement, NEW decision \in {"approved", "rejected"},
         DecideLogged(s, decision)
  PROVE  LedgerTyped' /\ StoryInv'
<1>1. TypeOK /\ DecisionAgreement /\ LedgerTyped /\ StoryInv /\ Decide(s, decision)
  BY DEF ReceiptsInv, IInv, DecideLogged
<1> DEFINE event == IF decision = "approved" THEN "approval_granted" ELSE "approval_rejected"
<1>2. Log(s, event) /\ event \in LedgerEvent
  BY DEF DecideLogged, LedgerEvent
<1>3. /\ row[s].state = "pending_approval" /\ row'[s].state = decision
      /\ row'[s] \in Row /\ \A t \in Settlement \ {s} : row'[t] = row[t]
  BY <1>1, MoveFact DEF Decide
<1>4. approval[s] = "none" /\ approval'[s] = decision
      /\ \A t \in Settlement \ {s} : approval'[t] = approval[t]
  BY <1>1 DEF Decide, TypeOK
<1>5. Story(s)
  BY <1>1 DEF StoryInv
<1>6. /\ Tells(row'[s].state, approval'[s], ToSet(ledger[s]) \cup {event})
      /\ Grounded(row'[s].state, ToSet(ledger[s]) \cup {event})
  BY <1>3, <1>4, <1>5 DEF Story, Tells, Grounded, GATE_PASSED_EVENTS
<1>7. row'[s] # NoRow
  BY <1>3 DEF NoRow
<1> HIDE DEF event
<1> QED  BY <1>1, <1>2, <1>3, <1>4, <1>6, <1>7, StoryMoves

\* The steps that end a settlement, or capture it, log one event and leave the decision.
LEMMA EndStory ==
  ASSUME ReceiptsInv, NEW s \in Settlement, UNCHANGED approval,
         NEW event, Log(s, event), NEW from, NEW to, NEW reason, Move(s, from, to, reason),
         \/ /\ event = "verify_rejected" /\ from = "approved" /\ to = "rejected"
            /\ reason \in RejectionCode
         \/ event = "payment_captured" /\ from = "settling" /\ to = "captured" /\ reason = "none"
         \/ /\ event = "approval_expired" /\ from = "pending_approval" /\ to = "abandoned"
            /\ reason = "none"
         \/ /\ event = "settlement_abandoned" /\ from = "approved" /\ to = "abandoned"
            /\ reason = "none"
  PROVE  LedgerTyped' /\ StoryInv'
<1>1. TypeOK /\ DecisionAgreement /\ LedgerTyped /\ StoryInv
  BY DEF ReceiptsInv, IInv
<1>2. /\ row[s].state = from /\ row'[s].state = to
      /\ row'[s] \in Row /\ \A t \in Settlement \ {s} : row'[t] = row[t]
  BY <1>1, MoveFact
<1>3. row'[s] # NoRow /\ event \in LedgerEvent
  BY <1>2 DEF NoRow, LedgerEvent
<1>4. Story(s) /\ approval[s] # "rejected"
  BY <1>1, <1>2 DEF StoryInv, DecisionAgreement, In
<1>5. /\ Tells(row'[s].state, approval'[s], ToSet(ledger[s]) \cup {event})
      /\ Grounded(row'[s].state, ToSet(ledger[s]) \cup {event})
  BY <1>2, <1>4 DEF Story, Tells, Grounded, GATE_PASSED_EVENTS
<1> QED  BY <1>1, <1>2, <1>3, <1>5, StoryMoves

LEMMA SettlingStory ==
  ASSUME ReceiptsInv, NEW s \in Settlement, EnterSettling(s), UNCHANGED ledger
  PROVE  LedgerTyped' /\ StoryInv'
<1>1. TypeOK /\ LedgerTyped /\ StoryInv
  BY DEF ReceiptsInv, IInv
<1>2. Move(s, "approved", "settling", "none") /\ approval' = approval
  BY DEF EnterSettling
<1>3. /\ row[s].state = "approved" /\ row'[s].state = "settling" /\ row'[s] \in Row
      /\ \A t \in Settlement \ {s} : row'[t] = row[t]
  BY <1>1, <1>2, MoveFact
<1>4. Story(s)
  BY <1>1 DEF StoryInv
<1>5. row'[s] # NoRow /\ Story(s)'
  BY <1>2, <1>3, <1>4 DEF Story, Tells, Grounded, NoRow
<1>6. \A t \in Settlement \ {s} : (row'[t] = NoRow => ledger'[t] = <<>>) /\ Story(t)'
  BY <1>1, <1>2, <1>3, StoryStays
<1> QED  BY <1>1, <1>5, <1>6 DEF StoryInv, LedgerTyped

LEMMA StoryStep == ReceiptsInv /\ [NextReceipts]_receiptVars => LedgerTyped' /\ StoryInv'
<1> SUFFICES ASSUME ReceiptsInv, [NextReceipts]_receiptVars PROVE LedgerTyped' /\ StoryInv'
  OBVIOUS
<1>1. TypeOK /\ LedgerTyped /\ StoryInv
  BY DEF ReceiptsInv, IInv
<1>2. ASSUME UNCHANGED <<row, approval, ledger>> PROVE LedgerTyped' /\ StoryInv'
  BY <1>1, <1>2, StoryStays DEF LedgerTyped, StoryInv
<1>3. ASSUME NEW s \in Settlement, RejectLogged(s) PROVE LedgerTyped' /\ StoryInv'
  <2>1. RejectAtSettling(s) /\ Log(s, "verify_rejected")
    BY <1>3 DEF RejectLogged
  <2> DEFINE intent == stored[row[s].mandate]
             cart == row[s].cart
             ctx == VerifyCtx(intent, cart, s)
             reason == IF MandateCartHash(intent, cart) # row[s].hash THEN "HASH_LINK_MISMATCH"
                       ELSE Reason(intent, cart, ctx)
  <2>2. Move(s, "approved", "rejected", reason) /\ approval' = approval
    BY <2>1 DEF RejectAtSettling
  <2>3. MandateCartHash(intent, cart) = row[s].hash => ~Accepts(intent, cart, ctx)
    BY <2>1 DEF RejectAtSettling, Reverifies
  <2>4. reason \in RejectionCode
    <3>1. "HASH_LINK_MISMATCH" \in RejectionCode
      BY DEF RejectionCode
    <3>2. ~Accepts(intent, cart, ctx) => Reason(intent, cart, ctx) \in RejectionCode
      BY ReasonIsCode
    <3> HIDE DEF intent, cart, ctx
    <3> QED  BY <2>3, <3>1, <3>2
  <2> HIDE DEF reason
  <2> QED  BY <2>1, <2>2, <2>4, EndStory
<1>4. ASSUME NEW s \in Settlement,
             CaptureLogged(s) \/ ExpireLogged(s) \/ \E b \in BOOLEAN : AbandonLogged(s, b)
      PROVE  LedgerTyped' /\ StoryInv'
  <2>1. CASE CaptureLogged(s)
    BY <2>1, EndStory DEF CaptureLogged, Capture
  <2>2. CASE ExpireLogged(s)
    BY <2>2, EndStory DEF ExpireLogged, Abandon, SweepApproval
  <2>3. CASE \E b \in BOOLEAN : AbandonLogged(s, b)
    BY <2>3, EndStory DEF AbandonLogged, Abandon, SweepApproved
  <2> QED  BY <1>4, <2>1, <2>2, <2>3
<1>5. ASSUME NEW s \in Settlement, NEW signer \in Agent, RecordDecision(s, signer)
      PROVE  LedgerTyped' /\ StoryInv'
  <2>1. row[s] # NoRow /\ Log(s, "agent_decision") /\ row' = row /\ approval' = approval
    BY <1>5 DEF RecordDecision, vars
  <2>2. /\ LedgerTyped' /\ ToSet(ledger'[s]) = ToSet(ledger[s]) \cup {"agent_decision"}
        /\ \A t \in Settlement \ {s} : ledger'[t] = ledger[t]
    BY <1>1, <2>1, LogFact DEF LedgerEvent
  <2> QED  BY <1>1, <2>1, <2>2, StoryStays DEF StoryInv
<1>6. ASSUME NEW i \in Intent, Register(i), UNCHANGED ledger
      PROVE  UNCHANGED <<row, approval, ledger>>
  BY <1>6 DEF Register
<1>7. ASSUME NEW m \in Mandate, Revoke(m), UNCHANGED ledger
      PROVE  UNCHANGED <<row, approval, ledger>>
  BY <1>7 DEF Revoke
<1>8. ASSUME NEW k \in Key, SweepLock(k) \/ \E r \in Request : ClaimThenCrash(k, r),
             UNCHANGED ledger
      PROVE  UNCHANGED <<row, approval, ledger>>
  BY <1>8 DEF SweepLock, ClaimThenCrash
<1>9. TickLogged \/ UNCHANGED receiptVars => UNCHANGED <<row, approval, ledger>>
  BY DEF TickLogged, Tick, receiptVars
<1> QED  BY <1>2, <1>3, <1>4, <1>5, <1>6, <1>7, <1>8, <1>9, CreateStory, DecideStory,
            SettlingStory DEF NextReceipts

-----------------------------------------------------------------------------
(* The hash that was pinned.                                               *)

LEMMA PinStep == IInv /\ PinInv /\ [Next]_vars => PinInv'
<1> SUFFICES ASSUME IInv, PinInv, [Next]_vars, NEW s \in Settlement,
                    row'[s].state \in {"settling", "captured"}
             PROVE  row'[s].hash = MandateCartHash(stored'[row'[s].mandate], row'[s].cart)
  BY DEF PinInv, MandateCartHash
<1>1. TypeOK /\ LinkInv
  BY DEF IInv
<1>2. CASE UNCHANGED vars
  BY <1>2 DEF vars, PinInv
<1>3. CASE Next
  <2>1. CASE row'[s].state = "settling"
    <3>1. HashInv'
      BY HashStep
    <3> QED  BY <2>1, <3>1 DEF HashInv, In, MandateCartHash
  <2>2. CASE row'[s].state = "captured"
    <3>1. row[s].state \in {"settling", "captured"}
      <4>1. ASSUME NEW r \in Request, NEW t \in Settlement, Insert(r, t)
            PROVE  row[s].state = "captured"
        BY <1>1, <2>2, <4>1, InsertFact, CreatedFact
      <4>2. ASSUME NEW t \in Settlement, NEW from \in {"pending_approval", "approved", "settling"},
                   NEW to, NEW reason \in RejectionCode \cup {"none", "approval_rejected"},
                   Move(t, from, to, reason)
            PROVE  row[s].state = "captured" \/ (row[s].state = from /\ to = "captured")
        BY <1>1, <2>2, <4>2, MoveFact
      <4>3. ASSUME NEW t \in Settlement, NEW decision \in {"approved", "rejected"},
                   Decide(t, decision)
            PROVE  row[s].state = "captured"
        BY <4>2, <4>3 DEF Decide
      <4>4. ASSUME NEW t \in Settlement, EnterSettling(t) \/ Capture(t)
            PROVE  row[s].state \in {"settling", "captured"}
        BY <4>2, <4>4 DEF EnterSettling, Capture
      <4>5. ASSUME NEW t \in Settlement, NEW from \in {"pending_approval", "approved"},
                   NEW to \in {"rejected", "abandoned"},
                   NEW reason \in RejectionCode \cup {"none"}, Release(t, from, to, reason)
            PROVE  row[s].state = "captured"
        BY <4>2, <4>5 DEF Release
      <4> HIDE DEF RejectionCode
      <4> QED  BY <1>1, <1>3, <2>2, <4>1, <4>3, <4>4, <4>5, RowStep
    <3>2. row[s] # NoRow /\ row[s].hash = MandateCartHash(stored[row[s].mandate], row[s].cart)
      BY <3>1 DEF PinInv, NoRow
    <3>3. /\ row'[s].mandate = row[s].mandate /\ row'[s].cart = row[s].cart
          /\ row'[s].hash = row[s].hash
      BY <1>1, <1>3, <3>2, RowsKept
    <3>4. row[s].mandate \in Mandate /\ Registered(row[s].mandate)
      BY <1>1, <3>2 DEF LinkInv, TypeOK, Row
    <3>5. stored'[row[s].mandate] = stored[row[s].mandate]
      BY <1>1, <1>3, <3>4, StoredKept
    <3> QED  BY <3>2, <3>3, <3>5
  <2> QED  BY <2>1, <2>2
<1> QED  BY <1>2, <1>3

-----------------------------------------------------------------------------
LEMMA InitReceiptsInv == InitReceipts => ReceiptsInv
<1> SUFFICES ASSUME InitReceipts PROVE ReceiptsInv
  OBVIOUS
<1>1. Init /\ IInv /\ ledger = [s \in Settlement |-> <<>>]
  BY InitInv DEF InitReceipts
<1>2. LedgerTyped
  BY <1>1 DEF LedgerTyped
<1>3. \A s \in Settlement : ToSet(ledger[s]) = {} /\ row[s].state = "none" /\ approval[s] = "none"
  BY <1>1 DEF ToSet, Init, NoRow
<1>4. StoryInv
  BY <1>1, <1>3 DEF StoryInv, Story, Tells, Grounded
<1>5. PinInv
  BY <1>3 DEF PinInv
<1> QED  BY <1>1, <1>2, <1>4, <1>5 DEF ReceiptsInv

\* What every reachable state of the tables and the ledger satisfies (the transactions that
\* move a settlement and append its event).
THEOREM ReceiptsInvariant == SpecReceipts => []ReceiptsInv
<1>1. ReceiptsInv /\ [NextReceipts]_receiptVars => ReceiptsInv'
  <2> SUFFICES ASSUME ReceiptsInv, [NextReceipts]_receiptVars PROVE ReceiptsInv'
    OBVIOUS
  <2>1. IInv /\ PinInv /\ [Next]_vars
    BY StepIsSettlements DEF ReceiptsInv
  <2>2. IInv'
    BY <2>1, TypeStep, ReservationStep, DecisionStep, LinkStep, HashStep, LinesStep DEF IInv
  <2>3. PinInv'
    BY <2>1, PinStep
  <2> QED  BY <2>2, <2>3, StoryStep DEF ReceiptsInv
<1> QED  BY <1>1, InitReceiptsInv, PTL DEF SpecReceipts

-----------------------------------------------------------------------------
(* The audit trail.                                                        *)

\* A receipt that shows the whole ledger reports the checks of a gate that passed.
LEMMA ReceiptReports ==
  ASSUME NEW s \in Settlement, Len(ledger[s]) <= LedgerLimit,
         GATE_PASSED_EVENTS \cap ToSet(ledger[s]) # {}
  PROVE  getOrder(s, TRUE).checks_passed # {}
<1>1. settlementResponse(s).ledger = ledger[s]
  BY DEF settlementResponse
<1>2. getSettlement(s).ledger = ledger[s]
  BY <1>1 DEF getSettlement
<1>3. checksPassed(s)
  BY <1>2 DEF checksPassed
<1>4. "signatures" \in describeChecksPassed(s, stored[row[s].mandate])
  BY DEF describeChecksPassed
<1>5. getOrder(s, TRUE).checks_passed = describeChecksPassed(s, stored[row[s].mandate])
  BY <1>3 DEF getOrder
<1> QED  BY <1>4, <1>5

\* The ledger and the tables tell one story of every settlement, for any mandates, carts and
\* order of requests, and a charge within the read's limit shows its gate (appendEvent in the
\* transaction of each transition; get-order.ts).
THEOREM LedgerTellsTheState == SpecReceipts => []LedgerTellsState
<1>1. ReceiptsInv => LedgerTellsState
  <2> SUFFICES ASSUME ReceiptsInv, NEW s \in Settlement
               PROVE  LET Says(e) == e \in ToSet(ledger[s]) IN
                      /\ row[s] = NoRow => ledger[s] = <<>>
                      /\ In(s, "captured") <=> Says("payment_captured")
                      /\ In(s, "abandoned") <=> Says("settlement_abandoned") \/ Says("approval_expired")
                      /\ approval[s] = "approved" <=> Says("approval_granted")
                      /\ approval[s] = "rejected" <=> Says("approval_rejected")
                      /\ Says("verify_rejected") <=> In(s, "rejected") /\ approval[s] # "rejected"
                      /\ Says("approval_requested") \/ approval[s] = "none"
                      /\ row[s].state \in {"settling", "captured"} /\ Len(ledger[s]) <= LedgerLimit =>
                           getOrder(s, TRUE).checks_passed # {}
    BY DEF LedgerTellsState
  <2>1. (row[s] = NoRow => ledger[s] = <<>>) /\ Story(s)
    BY DEF ReceiptsInv, StoryInv
  <2>2. row[s].state \in {"settling", "captured"} => GATE_PASSED_EVENTS \cap ToSet(ledger[s]) # {}
    BY <2>1 DEF Story, Grounded
  <2>3. row[s].state \in {"settling", "captured"} /\ Len(ledger[s]) <= LedgerLimit =>
          getOrder(s, TRUE).checks_passed # {}
    BY <2>2, ReceiptReports
  <2> QED  BY <2>1, <2>3 DEF Story, Tells, In
<1> QED  BY <1>1, ReceiptsInvariant, PTL

-----------------------------------------------------------------------------
(* What is shown is what is enforced.                                      *)

\* A product of positive naturals is one.
LEMMA ProductPositive ==
  ASSUME NEW a \in Nat \ {0}, NEW b \in Nat \ {0}
  PROVE  a * b \in Nat \ {0}
OBVIOUS

\* A cart that is well formed and adds up costs something (validateCartItemSchema).
LEMMA AcceptedCosts ==
  ASSUME NEW intent, NEW cart \in Cart, NEW ctx, Accepts(intent, cart, ctx)
  PROVE  cart.total # 0
<1>1. ~Fails("SCHEMA_INVALID", intent, cart, ctx)
  BY DEF Accepts, RejectionCode
<1>2. ~Fails("LINE_ITEM_INVALID", intent, cart, ctx)
  BY DEF Accepts, RejectionCode
<1>3. cart.wellFormed /\ RecomputedTotal(cart) = cart.total
  BY <1>1, <1>2 DEF Fails
<1> DEFINE S == DOMAIN cart.items
           cost == [i \in S |-> cart.items[i].qty * cart.items[i].price]
           rest == [i \in S \ {1} |-> cost[i]]
<1>4. /\ S = 1 .. Len(cart.items) /\ Len(cart.items) \in Nat \ {0}
      /\ \A i \in S : cart.items[i].qty \in Nat \ {0} /\ cart.items[i].price \in Nat \ {0}
  BY <1>3, ReceiptsAssumption
<1>5. \A i \in S : cost[i] \in Nat \ {0}
  BY <1>4, ProductPositive
<1>6. IsFiniteSet(S) /\ 1 \in S /\ IsFiniteSet(S \ {1})
  <2>1. PICK n : n = Len(cart.items)
    OBVIOUS
  <2>2. n \in Nat \ {0} /\ n \in Int /\ S = 1 .. n
    BY <1>4, <2>1
  <2>3. IsFiniteSet(1 .. n)
    BY <2>2, FS_Interval
  <2> HIDE DEF S
  <2>4. IsFiniteSet(S) /\ 1 \in S
    BY <2>2, <2>3
  <2> QED  BY <2>4, FS_Subset
<1>7. cost \in [S -> Nat] /\ rest \in [S \ {1} -> Nat]
  BY <1>5
<1>8. SumFunction(cost) = cost[1] + SumFunction(rest)
  <2> HIDE DEF S, cost
  <2>1. \A x \in S : SumFunction(cost) = cost[x] + SumFunction([i \in S \ {x} |-> cost[i]])
    BY <1>6, <1>7, SumTakes
  <2> QED  BY <1>6, <2>1
<1>9. SumFunction(rest) \in Nat
  BY <1>6, <1>7, SumNat
<1>10. SumFunction(cost) = cart.total
  BY <1>3 DEF RecomputedTotal
<1>11. cost[1] \in Nat \ {0}
  BY <1>5, <1>6
<1> HIDE DEF cost, rest, S
<1> QED  BY <1>8, <1>9, <1>10, <1>11

\* What the gate accepts, the wallet shows: active, with that much left.
LEMMA AcceptedIsShown ==
  ASSUME IInv, NEW m \in Mandate, Registered(m), NEW cart \in Cart, verify(stored[m], cart).ok
  PROVE  WalletState(m) = "active" /\ cart.total <= Remaining(m)
<1>1. TypeOK /\ LinkInv
  BY DEF IInv
<1>2. PICK intent : intent = stored[m]
  OBVIOUS
<1>3. intent \in Intent /\ intent.mandate = m /\ intent.ceiling \in Nat
  BY <1>1, <1>2, SettlementsAssumption DEF TypeOK, LinkInv, Registered
<1>4. PICK ctx : ctx = VerifyCtx(intent, cart, NoSettlement)
  OBVIOUS
<1>5. Accepts(intent, cart, ctx)
  BY <1>2, <1>4 DEF verify
<1>6. ctx.now = now /\ ctx.revoked = (m \in revoked) /\ ctx.spent = Spent(m)
  BY <1>3, <1>4 DEF VerifyCtx
<1>7. ~(now > intent.expires + clockSkewSec) /\ m \notin revoked
  BY <1>5, <1>6, AcceptedMeans DEF Expired
<1>8. ~(Spent(m) + cart.total > intent.ceiling)
  <2>1. ~Fails("AMOUNT_EXCEEDS_CEILING", intent, cart, ctx)
    BY <1>5 DEF Accepts, RejectionCode
  <2> QED  BY <1>6, <2>1 DEF Fails, OverCeiling
<1>9. cart.total \in Nat /\ cart.total # 0
  BY <1>5, AcceptedCosts, SettlementsAssumption DEF Cart
<1>10. Spent(m) \in Nat
  BY <1>1, SetsOfRows, TotalNat DEF Spent
<1>11. Remaining(m) = intent.ceiling - Spent(m) /\ Remaining(m) # 0 /\ cart.total <= Remaining(m)
  BY <1>2, <1>3, <1>8, <1>9, <1>10 DEF Remaining
<1> QED  BY <1>2, <1>7, <1>11 DEF WalletState

\* The wallet that is shown is the one that is enforced, a list of orders within its limit adds
\* up to what is shown as spent, and a receipt shows the mandate its money moved under (read.ts,
\* verify.ts, list-orders.ts).
THEOREM WhatIsShownIsEnforced == SpecReceipts => []ShownIsEnforced
<1>1. ReceiptsInv => ShownIsEnforced
  <2> SUFFICES ASSUME ReceiptsInv PROVE ShownIsEnforced
    OBVIOUS
  <2>1. IInv /\ TypeOK /\ LinkInv /\ PinInv
    BY DEF ReceiptsInv, IInv
  <2>2. ASSUME NEW m \in Registry, NEW cart \in Cart
        PROVE  \/ WalletState(m) = "active" /\ cart.total <= Remaining(m)
               \/ ~verify(stored[m], cart).ok
    BY <2>1, AcceptedIsShown DEF Registry
  <2>3. ASSUME NEW agent \in Agent, NEW states \in {{"captured"}, SettlementState},
               NEW m \in AuthorizingMandates(agent), NEW orders \in listOrders(agent, states),
               ~(Cardinality(ownOrders(agent, states)) > OrderLimit)
        PROVE  m.spent = Total({s \in orders : row[s].mandate = m.id /\ In(s, "captured")})
    <3>1. m.id \in Mandate /\ m.spent = Spent(m.id)
      BY DEF AuthorizingMandates, listMandates, Registry
    <3>2. orders = ownOrders(agent, states)
      <4>1. IsFiniteSet(ownOrders(agent, states))
        BY <2>1, SettlementsAssumption, FS_Subset DEF ownOrders, listSettlements
      <4>2. Cardinality(ownOrders(agent, states)) \in Nat
        BY <4>1, FS_CardinalityType
      <4> QED  BY <2>3, <4>2, ReceiptsAssumption DEF listOrders
    <3>3. "captured" \in states
      BY DEF SettlementState
    <3>4. {s \in orders : row[s].mandate = m.id /\ In(s, "captured")} = Captured(m.id)
      BY <3>2, <3>3 DEF ownOrders, listSettlements, Captured, RowsOf, In, NoRow
    <3> QED  BY <3>1, <3>4 DEF Spent
  <2>4. ASSUME NEW s \in listSettlements, row[s].state \in {"settling", "captured"}
        PROVE  MandateCartHash(OrderDetail(s).intent, OrderDetail(s).cart) = row[s].hash
    <3>1. /\ s \in Settlement /\ row[s] # NoRow
          /\ row[s].hash = MandateCartHash(stored[row[s].mandate], row[s].cart)
      BY <2>1, <2>4 DEF PinInv, listSettlements
    <3>2. row[s].mandate \in Registry
      BY <2>1, <3>1, CartTyped DEF LinkInv, Registry
    <3>3. settlementResponse(s).row = row[s]
      BY DEF settlementResponse
    <3>4. OrderDetail(s).cart = row[s].cart /\ OrderDetail(s).intent = stored[row[s].mandate]
      BY <3>2, <3>3 DEF OrderDetail, findMandateIntent
    <3> QED  BY <3>1, <3>4
  <2> QED  BY <2>2, <2>3, <2>4 DEF ShownIsEnforced
<1> QED  BY <1>1, ReceiptsInvariant, PTL
=============================================================================
