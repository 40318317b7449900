-------------------------- MODULE Execution_proofs --------------------------
(***************************************************************************)
(* The payment engine's safety properties for every value of the constants *)
(* of Execution, from one inductive invariant; at the end, that it         *)
(* implements PaymentPromise.                                              *)
(***************************************************************************)
EXTENDS Execution, FiniteSetTheorems, TLAPS

-----------------------------------------------------------------------------
(* The inductive invariant.                                                *)

\* A run in progress is one of a settlement that entered settling.  Waiting for an
\* order or for the driver it holds an attempt of its own, the only one that can
\* be live; at the loop's head and at the link none is.
RunInv ==
  /\ run.pc = "idle" => run = IdleRun
  /\ run.pc # "idle" => /\ run.sid \in Settlement
                        /\ settlement[run.sid] \in {"settling", "captured"}
  /\ run.att # NoAttempt => /\ attempt[run.att].sid = run.sid
                            /\ attempt[run.att].method = "checkout_driver"
  /\ run.pc \in {"order", "driving"} =>
       /\ run.att # NoAttempt
       /\ \A a \in AttemptsOf(run.sid) : Live(a) => a = run.att
  /\ run.pc = "order" => attempt[run.att].state = "initiated" /\ ~attempt[run.att].order
  /\ run.pc = "driving" => attempt[run.att].order
  /\ LoopOwnsSettlement

\* The loop's counter is the number of driver attempts on the settlement.
CountInv ==
  /\ run.pc = "loop" => run.num = Cardinality(DriverAttempts(run.sid)) + 1
  /\ run.pc \in {"order", "driving"} => run.num = Cardinality(DriverAttempts(run.sid))

\* Rows: at most one live per settlement; only a driver's row gets an order; a link's
\* row never leaves awaiting_confirmation, because nothing can reconcile it.
RowInv ==
  /\ \A a, b \in Attempt : Live(a) /\ Live(b) /\ attempt[a].sid = attempt[b].sid => a = b
  /\ \A a \in Attempt : attempt[a].order => attempt[a].method = "checkout_driver"
  /\ \A a \in Attempt :
       attempt[a].method = "payment_link" <=> attempt[a].state = "awaiting_confirmation"

\* A reconciler holds an attempt whose order is on its row; an answer "captured" stays
\* true of the payment up to a refund; a refund is asked for a row's payment.
HandlerOK(h) ==
  /\ handler[h].pc # "idle" => handler[h].att \in Attempt
  /\ handler[h].pc \in {"fetch", "decide"} => attempt[handler[h].att].order
  /\ handler[h].got # "none" => handler[h].att \in Attempt
  /\ handler[h].got = "captured" => payment[handler[h].att] \in {"captured", "refunded"}
HandlerInv == \A h \in Handler : HandlerOK(h)

IInv == /\ TypeOK /\ RunInv /\ CountInv /\ RowInv /\ HandlerInv
        /\ CaptureAgreement /\ CaptureIsBacked /\ ChargeNeedsSettling
        /\ AttemptBudget /\ PaymentIsFindable

-----------------------------------------------------------------------------
(* Facts about the operators of Execution.                                 *)

\* FreeRow is a row while one is left (the fresh randomUUID of an insert).
LEMMA FreeRowFact == RowLeft => FreeRow \in Attempt /\ attempt[FreeRow] = NoRow
  BY DEF RowLeft, FreeRow

\* NoRow is no row, and the rows' fields are what TypeOK says.
LEMMA RowFact ==
  ASSUME TypeOK, NEW a \in Attempt
  PROVE  /\ attempt[a] = NoRow \/ attempt[a] \in Row
         /\ attempt[a].state \in AttemptState => attempt[a] \in Row
         /\ attempt[a].method # "none" => attempt[a] \in Row
         /\ attempt[a].order => attempt[a] \in Row
  BY DEF TypeOK, Row, NoRow, AttemptState

-----------------------------------------------------------------------------
LEMMA InitInv == Init => IInv
<1> SUFFICES ASSUME Init PROVE IInv
  OBVIOUS
<1> USE ConstantAssumption DEF Init
<1>1. TypeOK
  BY DEF TypeOK, SettlementState, NoRow, IdleRun, RunState, IdleHandler, HandlerState, PaymentStatus
<1>2. RunInv /\ CountInv
  BY DEF RunInv, CountInv, IdleRun, LoopOwnsSettlement
<1>3. RowInv
  BY DEF RowInv, NoRow, Live, LiveAttempt
<1>4. HandlerInv
  BY DEF HandlerInv, HandlerOK, IdleHandler
<1>5. CaptureAgreement /\ CaptureIsBacked
  BY DEF CaptureAgreement, CaptureIsBacked, NoRow, Ledgered
<1>6. ChargeNeedsSettling /\ PaymentIsFindable
  BY DEF ChargeNeedsSettling, PaymentIsFindable
<1>7. AttemptBudget
  <2>1. \A s \in Settlement : AttemptsOf(s) = {} /\ DriverAttempts(s) = {}
    BY DEF AttemptsOf, DriverAttempts, NoRow
  <2>2. Cardinality({}) = 0
    BY FS_EmptySet
  <2>3. 0 <= MAX_ATTEMPTS
    BY ConstantAssumption
  <2> HIDE DEF Init
  <2> QED
    BY <2>1, <2>2, <2>3 DEF AttemptBudget
<1> QED
  BY <1>1, <1>2, <1>3, <1>4, <1>5, <1>6, <1>7 DEF IInv

-----------------------------------------------------------------------------
(* Type correctness.                                                       *)

\* The row an insert writes, and the row an update leaves, are rows.
LEMMA RowInserted ==
  ASSUME TypeOK, RowLeft, NEW s \in Settlement, NEW m \in {"checkout_driver", "payment_link"},
         NEW st \in AttemptState, NEW rows \in [Attempt -> Row \cup {NoRow}]
  PROVE  [rows EXCEPT ![FreeRow] = [sid |-> s, method |-> m, state |-> st, order |-> FALSE]]
           \in [Attempt -> Row \cup {NoRow}]
<1>1. [sid |-> s, method |-> m, state |-> st, order |-> FALSE] \in Row
  BY DEF Row
<1>2. FreeRow \in Attempt
  BY FreeRowFact
<1> QED
  BY <1>1, <1>2

LEMMA RowMoved ==
  ASSUME TypeOK, NEW a \in Attempt, attempt[a] \in Row, NEW st \in AttemptState
  PROVE  /\ [attempt EXCEPT ![a].state = st] \in [Attempt -> Row \cup {NoRow}]
         /\ [attempt EXCEPT ![a].order = TRUE] \in [Attempt -> Row \cup {NoRow}]
<1>1. [attempt[a] EXCEPT !.state = st] \in Row /\ [attempt[a] EXCEPT !.order = TRUE] \in Row
  BY DEF Row
<1>2. attempt \in [Attempt -> Row \cup {NoRow}]
  BY DEF TypeOK
<1> QED
  BY <1>1, <1>2

LEMMA EventAdded ==
  ASSUME TypeOK, NEW type \in LedgerType, NEW a \in Attempt
  PROVE  ledger \cup {Event(type, a)} \subseteq [type : LedgerType, att : Attempt]
BY DEF TypeOK, Event

LEMMA RunHoldsRow ==
  ASSUME TypeOK, RunInv, run.pc \in {"order", "driving"}
  PROVE  run.att \in Attempt /\ attempt[run.att] \in Row /\ run.sid \in Settlement
<1>1. run.att \in Attempt /\ run.sid \in Settlement
  BY DEF TypeOK, RunInv, RunState
<1>2. attempt[run.att].method # "none"
  BY DEF RunInv
<1> QED
  BY <1>1, <1>2, RowFact

LEMMA HandlerHoldsRow ==
  ASSUME TypeOK, HandlerInv, NEW h \in Handler
  PROVE  /\ handler[h].pc # "idle" => handler[h].att \in Attempt
         /\ handler[h].pc \in {"fetch", "decide"} => attempt[handler[h].att] \in Row
BY RowFact DEF HandlerInv, HandlerOK

\* The queue's operations keep it a queue of jobs, and the run one of RunState.
LEMMA KickType ==
  ASSUME TypeOK, NEW s \in Settlement, NEW kind \in {"execute", "resume"}, Kick(s, kind)
  PROVE  queue' \in Seq(Job) /\ inFlight' \in SUBSET Settlement
<1>1. [kind |-> kind, sid |-> s] \in Job
  BY DEF Job
<1>2. queue \in Seq(Job) /\ inFlight \in SUBSET Settlement
  BY DEF TypeOK
<1>3. CASE s \in inFlight
  BY <1>2, <1>3 DEF Kick
<1>4. CASE s \notin inFlight
  <2>1. queue' = Append(queue, [kind |-> kind, sid |-> s]) /\ inFlight' = inFlight \cup {s}
    BY <1>4 DEF Kick
  <2>2. \A j \in Job : Append(queue, j) \in Seq(Job)
    BY <1>2
  <2> QED
    BY <1>1, <1>2, <2>1, <2>2
<1> QED
  BY <1>3, <1>4

LEMMA JobFact ==
  ASSUME TypeOK, NEW kind, NextJob(kind)
  PROVE  Head(queue).sid \in Settlement /\ Tail(queue) \in Seq(Job)
<1>1. Head(queue) \in Job /\ Tail(queue) \in Seq(Job)
  BY DEF TypeOK, NextJob
<1> QED
  BY <1>1 DEF Job

LEMMA CountIsNat ==
  ASSUME NEW s
  PROVE  /\ IsFiniteSet(DriverAttempts(s)) /\ Cardinality(DriverAttempts(s)) \in Nat
         /\ FirstAttemptNum(s) \in Nat
<1>1. IsFiniteSet(DriverAttempts(s))
  BY FS_Subset, ConstantAssumption DEF DriverAttempts, AttemptsOf
<1>2. Cardinality(DriverAttempts(s)) \in Nat
  BY <1>1, FS_CardinalityType
<1> QED
  BY <1>1, <1>2 DEF FirstAttemptNum

LEMMA DequeueType ==
  ASSUME TypeOK, NEW kind, NextJob(kind),
         Dequeue("loop", FirstAttemptNum(Head(queue).sid)) \/ DropJob
  PROVE  run' \in RunState /\ queue' \in Seq(Job) /\ inFlight' \in SUBSET Settlement
<1>1. Head(queue).sid \in Settlement /\ Tail(queue) \in Seq(Job)
  BY JobFact
<1>2. FirstAttemptNum(Head(queue).sid) \in Nat
  BY CountIsNat
<1>3. inFlight \in SUBSET Settlement /\ run \in RunState
  BY DEF TypeOK
<1>4. PICK num \in Nat : num = FirstAttemptNum(Head(queue).sid)
  BY <1>2
<1>5. PICK sid \in Settlement : sid = Head(queue).sid
  BY <1>1
<1>6. CASE Dequeue("loop", num)
  <2>1. /\ run' = [pc |-> "loop", sid |-> sid, att |-> NoAttempt, num |-> num]
        /\ queue' = Tail(queue) /\ inFlight' = inFlight
    BY <1>5, <1>6 DEF Dequeue
  <2>2. run' \in RunState
    BY <1>4, <1>5, <2>1 DEF RunState
  <2> QED  BY <1>1, <1>3, <2>1, <2>2
<1>7. CASE DropJob
  BY <1>1, <1>3, <1>7 DEF DropJob
<1> QED
  BY <1>4, <1>6, <1>7

LEMMA RunTypes ==
  ASSUME TypeOK
  PROVE  /\ IdleRun \in RunState /\ NextIteration \in RunState
         /\ FinishRun => run' \in RunState /\ queue' \in Seq(Job) /\ inFlight' \in SUBSET Settlement
<1>1. run \in RunState /\ queue \in Seq(Job) /\ inFlight \in SUBSET Settlement
  BY DEF TypeOK
<1>2. IdleRun \in RunState
  BY DEF IdleRun, RunState
<1>3. NextIteration \in RunState
  <2>1. run.num + 1 \in Nat
    BY <1>1 DEF RunState
  <2>2. NextIteration = [run EXCEPT !.pc = "loop", !.num = run.num + 1]
    BY <1>1 DEF NextIteration, RunState
  <2>3. \A n \in Nat : [run EXCEPT !.pc = "loop", !.num = n] \in RunState
    BY <1>1 DEF RunState
  <2> QED
    BY <2>1, <2>2, <2>3
<1> QED
  BY <1>1, <1>2, <1>3 DEF FinishRun

LEMMA ApplyCaptureType ==
  ASSUME TypeOK, NEW a \in Attempt, attempt[a] \in Row, ApplyCapture(a)
  PROVE  /\ attempt' \in [Attempt -> Row \cup {NoRow}]
         /\ ledger' \subseteq [type : LedgerType, att : Attempt]
         /\ settlement' \in [Settlement -> SettlementState]
<1>1. "captured" \in AttemptState /\ "captured" \in SettlementState
      /\ "payment_captured" \in LedgerType
  BY DEF AttemptState, SettlementState, LedgerType
<1>2. attempt' \in [Attempt -> Row \cup {NoRow}]
  BY <1>1, RowMoved DEF ApplyCapture
<1>3. ledger' = ledger \/ ledger' = ledger \cup {Event("payment_captured", a)}
  BY DEF ApplyCapture
<1>4. settlement' = settlement
      \/ settlement' = [settlement EXCEPT ![attempt[a].sid] = "captured"]
  BY DEF ApplyCapture
<1>5. ledger \subseteq [type : LedgerType, att : Attempt]
      /\ settlement \in [Settlement -> SettlementState]
  BY DEF TypeOK
<1> QED
  BY <1>1, <1>2, <1>3, <1>4, <1>5, EventAdded

LEMMA TypeStepExecutor ==
  ASSUME TypeOK, RunInv, ExecutorStep
  PROVE  TypeOK'
<1> USE ConstantAssumption
<1>0. /\ "failed" \in AttemptState /\ "superseded" \in AttemptState
      /\ "initiated" \in AttemptState /\ "awaiting_confirmation" \in AttemptState
      /\ "payment_failed" \in LedgerType /\ "attempt_initiated" \in LedgerType
      /\ "payment_link_issued" \in LedgerType
      /\ "settling" \in SettlementState /\ "rejected" \in SettlementState
  BY DEF AttemptState, LedgerType, SettlementState
<1>a. attempt \in [Attempt -> Row \cup {NoRow}]
      /\ ledger \subseteq [type : LedgerType, att : Attempt]
  BY DEF TypeOK
<1>1. CASE RunExecute
  <2> DEFINE s == Head(queue).sid
  <2>1. settlement' = settlement \/ settlement' = [settlement EXCEPT ![s] = "settling"]
    BY <1>1 DEF RunExecute
  <2>2. settlement' \in [Settlement -> SettlementState]
    BY <2>1, <1>0 DEF TypeOK
  <2>3. NextJob("execute") /\ (Dequeue("loop", FirstAttemptNum(s)) \/ DropJob)
    BY <1>1 DEF RunExecute
  <2>4. run' \in RunState /\ queue' \in Seq(Job) /\ inFlight' \in SUBSET Settlement
    BY <2>3, DequeueType
  <2> QED
    BY <1>1, <2>2, <2>4 DEF RunExecute, TypeOK
<1>2. CASE RunReject
  <2>1. settlement' \in [Settlement -> SettlementState]
    BY <1>2, <1>0 DEF RunReject, TypeOK
  <2>2. run' \in RunState /\ queue' \in Seq(Job) /\ inFlight' \in SUBSET Settlement
    BY <1>2, DequeueType DEF RunReject
  <2> QED
    BY <1>2, <2>1, <2>2 DEF RunReject, TypeOK
<1>3. CASE RunResume
  <2>1. NextJob("resume") /\ (Dequeue("loop", FirstAttemptNum(Head(queue).sid)) \/ DropJob)
    BY <1>3 DEF RunResume
  <2>2. run' \in RunState /\ queue' \in Seq(Job) /\ inFlight' \in SUBSET Settlement
    BY <2>1, DequeueType
  <2> QED
    BY <1>3, <2>2 DEF RunResume, dbVars, TypeOK
<1>4. CASE RunLoop
  <2>1. CASE run.num > MAX_ATTEMPTS
    <3>1. run' \in RunState
      BY <1>4, <2>1 DEF RunLoop, RunState, TypeOK
    <3> QED
      BY <1>4, <2>1, <3>1 DEF RunLoop, TypeOK
  <2>2. CASE ~(run.num > MAX_ATTEMPTS) /\ HasLiveAttempt(run.sid)
    <3>1. run' \in RunState /\ queue' \in Seq(Job) /\ inFlight' \in SUBSET Settlement
      BY <1>4, <2>2, RunTypes DEF RunLoop
    <3> QED
      BY <1>4, <2>2, <3>1 DEF RunLoop, TypeOK
  <2>3. CASE ~(run.num > MAX_ATTEMPTS) /\ ~HasLiveAttempt(run.sid)
    <3>1. run.sid \in Settlement /\ RowLeft
      BY <1>4, <2>3 DEF RunLoop, RunInv
    <3>2. attempt' = [attempt EXCEPT ![FreeRow] =
            [sid |-> run.sid, method |-> "checkout_driver",
             state |-> "initiated", order |-> FALSE]]
          /\ ledger' = ledger \cup {Event("attempt_initiated", FreeRow)}
          /\ run' = [run EXCEPT !.pc = "order", !.att = FreeRow]
      BY <1>4, <2>3 DEF RunLoop
    <3>3. attempt' \in [Attempt -> Row \cup {NoRow}]
      BY <3>1, <3>2, <1>0, <1>a, RowInserted
    <3>4. ledger' \subseteq [type : LedgerType, att : Attempt]
      BY <3>1, <3>2, <1>0, FreeRowFact, EventAdded
    <3>5. run' \in RunState
      BY <3>1, <3>2, FreeRowFact DEF RunState, TypeOK
    <3> QED
      BY <1>4, <2>3, <3>3, <3>4, <3>5 DEF RunLoop, TypeOK
  <2> QED
    BY <2>1, <2>2, <2>3
<1>5. CASE RunOrderCreated
  <2>1. attempt' \in [Attempt -> Row \cup {NoRow}]
    BY <1>5, <1>0, RunHoldsRow, RowMoved DEF RunOrderCreated
  <2>2. run' \in RunState
    BY <1>5 DEF RunOrderCreated, RunState, TypeOK
  <2> QED
    BY <1>5, <2>1, <2>2 DEF RunOrderCreated, TypeOK
<1>6. CASE RunOrderFailed
  <2>1. run.att \in Attempt /\ attempt[run.att] \in Row
    BY <1>6, RunHoldsRow DEF RunOrderFailed
  <2>2. attempt' = attempt \/ attempt' = [attempt EXCEPT ![run.att].state = "failed"]
    BY <1>6 DEF RunOrderFailed
  <2>3. attempt' \in [Attempt -> Row \cup {NoRow}]
    <3>1. [attempt EXCEPT ![run.att].state = "failed"] \in [Attempt -> Row \cup {NoRow}]
      BY <1>0, <2>1, RowMoved
    <3> QED
      BY <1>a, <2>2, <3>1
  <2>4. ledger' = ledger \/ ledger' = ledger \cup {Event("payment_failed", run.att)}
    BY <1>6 DEF RunOrderFailed
  <2>5. ledger' \subseteq [type : LedgerType, att : Attempt]
    BY <1>0, <1>a, <2>1, <2>4, EventAdded
  <2>6. FinishRun \/ (run' = NextIteration /\ UNCHANGED <<queue, inFlight>>)
    BY <1>6 DEF RunOrderFailed
  <2>7. run' \in RunState /\ queue' \in Seq(Job) /\ inFlight' \in SUBSET Settlement
    BY <2>6, RunTypes DEF TypeOK
  <2>8. faults' \in 0 .. MaxFaults
    BY <1>6 DEF RunOrderFailed, TypeOK
  <2> QED
    BY <1>6, <2>3, <2>5, <2>7, <2>8 DEF RunOrderFailed, TypeOK
<1>7. CASE RunCaptured
  <2>1. run.att \in Attempt /\ attempt[run.att] \in Row /\ ApplyCapture(run.att)
    BY <1>7, RunHoldsRow DEF RunCaptured
  <2>2. FinishRun \/ UNCHANGED <<queue, inFlight, run>>
    BY <1>7 DEF RunCaptured, execVars
  <2>3. run' \in RunState /\ queue' \in Seq(Job) /\ inFlight' \in SUBSET Settlement
    BY <2>2, RunTypes DEF TypeOK
  <2> QED
    BY <1>7, <2>1, <2>3, ApplyCaptureType DEF RunCaptured, TypeOK
<1>8. CASE RunCaptureThrows \/ RunLinkFailed
  <2>1. run' \in RunState /\ queue' \in Seq(Job) /\ inFlight' \in SUBSET Settlement
    BY <1>8, RunTypes DEF RunCaptureThrows, RunLinkFailed
  <2>2. faults' \in 0 .. MaxFaults
    BY <1>8 DEF RunCaptureThrows, RunLinkFailed, TypeOK
  <2> QED
    BY <1>8, <2>1, <2>2 DEF RunCaptureThrows, RunLinkFailed, dbVars, TypeOK
<1>9. CASE RunDriveFailed
  <2>1. run.att \in Attempt /\ attempt[run.att] \in Row
    BY <1>9, RunHoldsRow DEF RunDriveFailed
  <2>2. attempt' = attempt \/ attempt' = [attempt EXCEPT ![run.att].state = "failed"]
    BY <1>9 DEF RunDriveFailed
  <2>3. attempt' \in [Attempt -> Row \cup {NoRow}]
    <3>1. [attempt EXCEPT ![run.att].state = "failed"] \in [Attempt -> Row \cup {NoRow}]
      BY <1>0, <2>1, RowMoved
    <3> QED
      BY <1>a, <2>2, <3>1
  <2>4. ledger' \subseteq [type : LedgerType, att : Attempt]
    BY <1>9, <1>0, <2>1, EventAdded DEF RunDriveFailed
  <2>5. run' \in RunState
    BY <1>9, RunTypes DEF RunDriveFailed
  <2> QED
    BY <1>9, <2>3, <2>4, <2>5 DEF RunDriveFailed, TypeOK
<1>10. CASE RunLinkIssued
  <2> DEFINE superseded ==
        IF run.att # NoAttempt /\ Live(run.att)
          THEN [attempt EXCEPT ![run.att].state = "superseded"] ELSE attempt
  <2>1. run.sid \in Settlement /\ RowLeft
    BY <1>10 DEF RunLinkIssued, RunInv
  <2>2. superseded \in [Attempt -> Row \cup {NoRow}]
    <3>1. run.att # NoAttempt => run.att \in Attempt /\ attempt[run.att].method # "none"
      BY DEF RunState, RunInv, TypeOK
    <3> QED
      BY <3>1, <1>0, <1>a, RowFact, RowMoved
  <2>3. attempt' = attempt \/
        attempt' = [superseded EXCEPT ![FreeRow] =
           [sid |-> run.sid, method |-> "payment_link",
            state |-> "awaiting_confirmation", order |-> FALSE]]
    BY <1>10 DEF RunLinkIssued
  <2>4. ledger' = ledger \/ ledger' = ledger \cup {Event("payment_link_issued", FreeRow)}
    BY <1>10 DEF RunLinkIssued
  <2> HIDE DEF superseded
  <2>5. attempt' \in [Attempt -> Row \cup {NoRow}]
    <3>1. [superseded EXCEPT ![FreeRow] =
             [sid |-> run.sid, method |-> "payment_link",
              state |-> "awaiting_confirmation", order |-> FALSE]]
            \in [Attempt -> Row \cup {NoRow}]
      BY <2>1, <2>2, <1>0, RowInserted
    <3> QED
      BY <2>3, <3>1, <1>a
  <2>6. ledger' \subseteq [type : LedgerType, att : Attempt]
    BY <1>0, <1>a, <2>1, <2>4, FreeRowFact, EventAdded
  <2>7. run' \in RunState /\ queue' \in Seq(Job) /\ inFlight' \in SUBSET Settlement
    BY <1>10, RunTypes DEF RunLinkIssued
  <2> QED
    BY <1>10, <2>5, <2>6, <2>7 DEF RunLinkIssued, TypeOK
<1> QED
  BY <1>1, <1>2, <1>3, <1>4, <1>5, <1>6, <1>7, <1>8, <1>9, <1>10 DEF ExecutorStep

\* What the handlers leave in their own records.
LEMMA HandlerTypes ==
  ASSUME TypeOK, NEW h \in Handler
  PROVE  /\ HandlerDone(h) => handler' \in [Handler -> HandlerState]
         /\ \A pc \in {"anomaly", "anomaly_ok", "human_ok"} :
              HandlerAt(h, pc) => handler' \in [Handler -> HandlerState]
<1>1. handler \in [Handler -> HandlerState]
  BY DEF TypeOK
<1>2. IdleHandler \in HandlerState
  BY DEF IdleHandler, HandlerState, PaymentStatus
<1>3. \A pc \in {"anomaly", "anomaly_ok", "human_ok"} :
        [handler[h] EXCEPT !.pc = pc] \in HandlerState
  BY <1>1 DEF HandlerState
<1> QED
  BY <1>1, <1>2, <1>3 DEF HandlerDone, HandlerAt

LEMMA StartReconcileType ==
  ASSUME TypeOK, NEW h \in Handler, NEW a \in Attempt, StartReconcile(h, a)
  PROVE  handler' \in [Handler -> HandlerState]
<1>1. attempt[a].state \in AttemptState \cup {"none"}
  BY DEF TypeOK, Row, NoRow
<1>2. [pc |-> "fetch", att |-> a, seen |-> attempt[a].state, got |-> "none"] \in HandlerState
  BY <1>1 DEF HandlerState, PaymentStatus
<1> QED
  BY <1>2 DEF StartReconcile, TypeOK

LEMMA TypeStepHandler ==
  ASSUME TypeOK, HandlerInv, NEW h \in Handler, HandlerStep(h)
  PROVE  TypeOK'
<1> USE ConstantAssumption
<1>0. /\ "failed" \in AttemptState /\ "payment_failed" \in LedgerType
      /\ "refund_issued" \in LedgerType /\ "anomaly_refund_issued" \in LedgerType
  BY DEF AttemptState, LedgerType
<1>a. attempt \in [Attempt -> Row \cup {NoRow}]
      /\ ledger \subseteq [type : LedgerType, att : Attempt]
      /\ handler \in [Handler -> HandlerState]
  BY DEF TypeOK
<1>1. ASSUME NEW a \in Attempt, NEW type \in EventType, Webhook(h, type, a)
      PROVE  TypeOK'
  <2>1. handler' \in [Handler -> HandlerState]
    BY <1>1, <1>a, StartReconcileType DEF Webhook
  <2>2. webhookEvents' \subseteq [type : EventType, att : Attempt]
    BY <1>1 DEF Webhook, Event, TypeOK
  <2> QED
    BY <1>1, <2>1, <2>2 DEF Webhook, execVars, TypeOK
<1>2. ASSUME NEW a \in Attempt, SweepPoll(h, a)
      PROVE  TypeOK'
  BY <1>2, StartReconcileType DEF SweepPoll, dbVars, execVars, TypeOK
<1>3. ASSUME NEW a \in Attempt, RefundRequest(h, a)
      PROVE  TypeOK'
  <2>1. [IdleHandler EXCEPT !.pc = "human", !.att = a] \in HandlerState
    BY DEF IdleHandler, HandlerState, PaymentStatus
  <2>2. handler' \in [Handler -> HandlerState]
    BY <1>3, <1>a, <2>1 DEF RefundRequest
  <2> QED
    BY <1>3, <2>2 DEF RefundRequest, dbVars, execVars, TypeOK
<1>4. CASE FetchAnswered(h)
  <2>1. payment[handler[h].att] \in PaymentStatus
    BY <1>4, HandlerHoldsRow DEF FetchAnswered, TypeOK
  <2>2. \A got \in PaymentStatus :
          [handler[h] EXCEPT !.pc = "decide", !.got = got] \in HandlerState
    BY <1>a DEF HandlerState
  <2>3. handler' = [handler EXCEPT ![h] =
          [handler[h] EXCEPT !.pc = "decide", !.got = payment[handler[h].att]]]
    BY <1>4 DEF FetchAnswered
  <2>4. handler' \in [Handler -> HandlerState]
    BY <1>a, <2>1, <2>2, <2>3
  <2> QED
    BY <1>4, <2>4 DEF FetchAnswered, dbVars, execVars, TypeOK
<1>5. CASE FetchFailed(h) \/ RefundCallFailed(h)
  <2>1. handler' \in [Handler -> HandlerState]
    BY <1>5, HandlerTypes DEF FetchFailed, RefundCallFailed
  <2>2. faults' \in 0 .. MaxFaults
    BY <1>5 DEF FetchFailed, RefundCallFailed, TypeOK
  <2> QED
    BY <1>5, <2>1, <2>2 DEF FetchFailed, RefundCallFailed, dbVars, execVars, TypeOK
<1>6. CASE ReconcileCaptures(h)
  <2>1. handler' \in [Handler -> HandlerState]
    BY <1>6, HandlerTypes DEF ReconcileCaptures
  <2>2. handler[h].att \in Attempt /\ attempt[handler[h].att] \in Row
        /\ ApplyCapture(handler[h].att)
    BY <1>6, HandlerHoldsRow DEF ReconcileCaptures
  <2> QED
    BY <1>6, <2>1, <2>2, ApplyCaptureType DEF ReconcileCaptures, execVars, TypeOK
<1>7. CASE ReconcileAnomaly(h)
  <2>1. handler' \in [Handler -> HandlerState]
    BY <1>7, HandlerTypes DEF ReconcileAnomaly
  <2> QED
    BY <1>7, <2>1 DEF ReconcileAnomaly, dbVars, execVars, TypeOK
<1>8. CASE ReconcileFails(h)
  <2> DEFINE a == handler[h].att
  <2>1. handler' \in [Handler -> HandlerState]
    BY <1>8, HandlerTypes DEF ReconcileFails
  <2>2. a \in Attempt /\ attempt[a] \in Row
    BY <1>8, HandlerHoldsRow DEF ReconcileFails
  <2>3. attempt' = attempt \/ attempt' = [attempt EXCEPT ![a].state = "failed"]
    BY <1>8 DEF ReconcileFails
  <2>4. ledger' = ledger \/ ledger' = ledger \cup {Event("payment_failed", a)}
    BY <1>8 DEF ReconcileFails
  <2>5. [attempt EXCEPT ![a].state = "failed"] \in [Attempt -> Row \cup {NoRow}]
    BY <1>0, <2>2, RowMoved
  <2>6. ledger' \subseteq [type : LedgerType, att : Attempt]
    BY <1>0, <1>a, <2>2, <2>4, EventAdded
  <2>7. attempt' \in [Attempt -> Row \cup {NoRow}]
    BY <1>a, <2>3, <2>5
  <2> QED
    BY <1>8, <2>1, <2>6, <2>7 DEF ReconcileFails, execVars, TypeOK
<1>9. CASE ReconcileNoOp(h) \/ RefundRefused(h)
  <2>1. handler' \in [Handler -> HandlerState]
    BY <1>9, HandlerTypes DEF ReconcileNoOp, RefundRefused
  <2> QED
    BY <1>9, <2>1 DEF ReconcileNoOp, RefundRefused, dbVars, execVars, TypeOK
<1>10. CASE RefundAtProvider(h)
  <2>1. handler' \in [Handler -> HandlerState]
    BY <1>10, HandlerTypes DEF RefundAtProvider
  <2>2. payment' \in [Attempt -> PaymentStatus]
    BY <1>10 DEF RefundAtProvider, PaymentStatus, TypeOK
  <2> QED
    BY <1>10, <2>1, <2>2 DEF RefundAtProvider, dbVars, execVars, TypeOK
<1>11. CASE RefundRecorded(h)
  <2>1. handler' \in [Handler -> HandlerState]
    BY <1>11, HandlerTypes DEF RefundRecorded
  <2>2. handler[h].att \in Attempt
    BY <1>11, HandlerHoldsRow DEF RefundRecorded
  <2>3. ledger' = ledger \cup {Event("refund_issued", handler[h].att)}
        \/ ledger' = ledger \cup {Event("anomaly_refund_issued", handler[h].att)}
    BY <1>11 DEF RefundRecorded
  <2>4. ledger' \subseteq [type : LedgerType, att : Attempt]
    BY <1>0, <2>2, <2>3, EventAdded
  <2> QED
    BY <1>11, <2>1, <2>4 DEF RefundRecorded, execVars, TypeOK
<1> QED
  BY <1>1, <1>2, <1>3, <1>4, <1>5, <1>6, <1>7, <1>8, <1>9, <1>10, <1>11 DEF HandlerStep

LEMMA TypeStep == TypeOK /\ RunInv /\ HandlerInv /\ [Next]_vars => TypeOK'
<1> SUFFICES ASSUME TypeOK, RunInv, HandlerInv, [Next]_vars PROVE TypeOK'
  OBVIOUS
<1> USE ConstantAssumption
<1>1. CASE ExecutorStep
  BY <1>1, TypeStepExecutor
<1>2. ASSUME NEW h \in Handler, HandlerStep(h) PROVE TypeOK'
  BY <1>2, TypeStepHandler
<1>3. ASSUME NEW s \in Settlement, SettlementStep(s) PROVE TypeOK'
  <2>1. CASE Approve(s)
    <3>1. queue' \in Seq(Job) /\ inFlight' \in SUBSET Settlement
      BY <2>1, KickType DEF Approve
    <3>2. settlement' \in [Settlement -> SettlementState]
      BY <2>1 DEF Approve, SettlementState, TypeOK
    <3> QED
      BY <2>1, <3>1, <3>2 DEF Approve, TypeOK
  <2>2. CASE SweepRekick(s)
    <3>1. queue' \in Seq(Job) /\ inFlight' \in SUBSET Settlement
      BY <2>2, KickType DEF SweepRekick
    <3>2. kickCount' \in [Settlement -> 0 .. maxApprovedKicks]
      BY <2>2 DEF SweepRekick, TypeOK
    <3> QED
      BY <2>2, <3>1, <3>2 DEF SweepRekick, TypeOK
  <2>3. CASE SweepResume(s)
    <3>1. queue' \in Seq(Job) /\ inFlight' \in SUBSET Settlement
      BY <2>3, KickType DEF SweepResume
    <3> QED
      BY <2>3, <3>1 DEF SweepResume, dbVars, TypeOK
  <2>4. ASSUME NEW e \in BOOLEAN, SweepAbandonApproved(s, e) PROVE TypeOK'
    <3>1. settlement' \in [Settlement -> SettlementState]
      BY <2>4 DEF SweepAbandonApproved, SettlementState, TypeOK
    <3> QED
      BY <2>4, <3>1 DEF SweepAbandonApproved, execVars, TypeOK
  <2> QED
    BY <1>3, <2>1, <2>2, <2>3, <2>4 DEF SettlementStep
<1>4. ASSUME NEW a \in Attempt, SweepFailOrphan(a) PROVE TypeOK'
  <2>1. "failed" \in AttemptState /\ "payment_failed" \in LedgerType
    BY DEF AttemptState, LedgerType
  <2>2. attempt[a] \in Row
    BY <1>4, RowFact DEF SweepFailOrphan, AttemptState
  <2>3. attempt' \in [Attempt -> Row \cup {NoRow}]
    BY <1>4, <2>1, <2>2, RowMoved DEF SweepFailOrphan
  <2>4. ledger' \subseteq [type : LedgerType, att : Attempt]
    BY <1>4, <2>1, EventAdded DEF SweepFailOrphan
  <2> QED
    BY <1>4, <2>3, <2>4 DEF SweepFailOrphan, execVars, TypeOK
<1>5. CASE ProviderStep
  <2>1. payment' \in [Attempt -> PaymentStatus]
    BY <1>5 DEF ProviderStep, DriverPays, LinkPaid, PaymentResolves, PaymentStatus, TypeOK
  <2> QED
    BY <1>5, <2>1 DEF ProviderStep, DriverPays, LinkPaid, PaymentResolves, dbVars, execVars, TypeOK
<1>6. CASE Crash
  <2>1. IdleHandler \in HandlerState
    BY DEF IdleHandler, HandlerState, PaymentStatus
  <2>2. run' \in RunState /\ queue' \in Seq(Job) /\ inFlight' \in SUBSET Settlement
    BY <1>6 DEF Crash, IdleRun, RunState
  <2>3. crashes' \in 0 .. MaxCrashes /\ handler' \in [Handler -> HandlerState]
    BY <1>6, <2>1 DEF Crash, TypeOK
  <2> QED
    BY <1>6, <2>2, <2>3 DEF Crash, dbVars, TypeOK
<1>7. CASE UNCHANGED vars
  BY <1>7 DEF vars, dbVars, execVars, TypeOK
<1> QED
  BY <1>1, <1>2, <1>3, <1>4, <1>5, <1>6, <1>7 DEF Next

-----------------------------------------------------------------------------
(* What one step may do to the rows, the captures and the payments.        *)

CapturesKept ==
  \A a \in Attempt :
    Event("payment_captured", a) \in ledger' <=> Event("payment_captured", a) \in ledger

SettlementMoves ==
  /\ \E s \in Settlement, to \in {"approved", "settling", "rejected", "abandoned"} :
       /\ settlement[s] \in {"pending_approval", "approved"}
       /\ settlement' = [settlement EXCEPT ![s] = to]
  /\ UNCHANGED <<attempt, payment>> /\ CapturesKept

RowInserts ==
  /\ RowLeft /\ ~HasLiveAttempt(run.sid) /\ run'.pc # run.pc
  /\ \/ /\ run.pc = "loop" /\ run.num <= MAX_ATTEMPTS
        /\ attempt' = [attempt EXCEPT ![FreeRow] =
              [sid |-> run.sid, method |-> "checkout_driver",
               state |-> "initiated", order |-> FALSE]]
     \/ /\ run.pc = "link"
        /\ attempt' = [attempt EXCEPT ![FreeRow] =
              [sid |-> run.sid, method |-> "payment_link",
               state |-> "awaiting_confirmation", order |-> FALSE]]
  /\ UNCHANGED <<settlement, payment>> /\ CapturesKept

OrderWritten ==
  /\ run.pc = "order" /\ run'.pc # run.pc
  /\ attempt' = [attempt EXCEPT ![run.att].order = TRUE]
  /\ UNCHANGED <<settlement, payment>> /\ CapturesKept

AttemptFails ==
  /\ \E a \in Attempt :
       /\ Live(a) /\ attempt[a].method = "checkout_driver"
       /\ run.pc = "order" /\ run.att = a => run'.pc # run.pc
       /\ attempt' = [attempt EXCEPT ![a].state = "failed"]
  /\ UNCHANGED <<settlement, payment>> /\ CapturesKept

AttemptCaptured ==
  /\ \E a \in Attempt :
       /\ Live(a) /\ attempt[a].method = "checkout_driver"
       /\ payment[a] \in {"captured", "refunded"}
       /\ run.pc = "order" => run.att # a
       /\ settlement[attempt[a].sid] = "settling" /\ ~HasCaptured(attempt[a].sid)
       /\ attempt' = [attempt EXCEPT ![a].state = "captured"]
       /\ settlement' = [settlement EXCEPT ![attempt[a].sid] = "captured"]
       /\ ledger' = ledger \cup {Event("payment_captured", a)}
  /\ UNCHANGED payment

PaymentMoves ==
  /\ \E a \in Attempt, status \in PaymentStatus :
       /\ payment[a] = "none" => attempt[a].method = "payment_link" \/ attempt[a].order
       /\ payment[a] \in {"captured", "refunded"} => status \in {"captured", "refunded"}
       /\ payment' = [payment EXCEPT ![a] = status]
  /\ UNCHANGED <<settlement, attempt>> /\ CapturesKept

NothingMoves == UNCHANGED <<settlement, attempt, payment>> /\ CapturesKept

DbStep == \/ SettlementMoves \/ RowInserts \/ OrderWritten \/ AttemptFails
          \/ AttemptCaptured \/ PaymentMoves \/ NothingMoves

\* No event but payment_captured changes what the ledger says of captures.
LEMMA OtherEvent ==
  ASSUME NEW type \in LedgerType \ {"payment_captured"}, NEW a,
         ledger' = ledger \cup {Event(type, a)}
  PROVE  CapturesKept
BY DEF CapturesKept, Event

LEMMA DbStepExecutor ==
  ASSUME IInv, ExecutorStep
  PROVE  DbStep
<1> USE DEF IInv
<1>0. {"payment_failed", "attempt_initiated", "payment_link_issued"}
        \subseteq LedgerType \ {"payment_captured"}
  BY DEF LedgerType
<1>1. CASE RunExecute
  <2>1. Head(queue).sid \in Settlement
    BY <1>1, JobFact DEF RunExecute
  <2>2. UNCHANGED <<attempt, payment, ledger>>
    BY <1>1 DEF RunExecute
  <2> QED
    BY <1>1, <2>1, <2>2 DEF RunExecute, DbStep, SettlementMoves, NothingMoves, SettlementCAS, CapturesKept
<1>2. CASE RunReject
  <2>1. Head(queue).sid \in Settlement
    BY <1>2, JobFact DEF RunReject
  <2> QED
    BY <1>2, <2>1 DEF RunReject, DbStep, SettlementMoves, SettlementCAS, CapturesKept
<1>3. CASE RunResume \/ RunCaptureThrows \/ RunLinkFailed
  BY <1>3 DEF RunResume, RunCaptureThrows, RunLinkFailed, dbVars, DbStep, NothingMoves, CapturesKept
<1>4. CASE RunLoop
  <2>1. CASE run.num > MAX_ATTEMPTS \/ HasLiveAttempt(run.sid)
    BY <1>4, <2>1 DEF RunLoop, DbStep, NothingMoves, CapturesKept
  <2>2. CASE ~(run.num > MAX_ATTEMPTS \/ HasLiveAttempt(run.sid))
    <3>1. CapturesKept
      BY <1>4, <2>2, <1>0, OtherEvent DEF RunLoop
    <3>2. run.num <= MAX_ATTEMPTS
      BY <2>2, ConstantAssumption DEF TypeOK, RunState
    <3>3. run'.pc # run.pc
      BY <1>4, <2>2 DEF RunLoop, TypeOK, RunState
    <3> QED
      BY <1>4, <2>2, <3>1, <3>2, <3>3 DEF RunLoop, DbStep, RowInserts
  <2> QED
    BY <2>1, <2>2
<1>5. CASE RunOrderCreated
  BY <1>5 DEF RunOrderCreated, DbStep, OrderWritten, CapturesKept
<1>6. CASE RunOrderFailed \/ RunDriveFailed
  <2>1. run.att \in Attempt /\ attempt[run.att].method = "checkout_driver"
    BY <1>6, RunHoldsRow DEF RunOrderFailed, RunDriveFailed, RunInv
  <2>2. CapturesKept
    <3>1. ledger' = ledger \/ ledger' = ledger \cup {Event("payment_failed", run.att)}
      BY <1>6 DEF RunOrderFailed, RunDriveFailed
    <3> QED
      BY <3>1, <1>0, OtherEvent DEF CapturesKept
  <2>3. \/ attempt' = attempt
        \/ Live(run.att) /\ attempt' = [attempt EXCEPT ![run.att].state = "failed"]
    BY <1>6 DEF RunOrderFailed, RunDriveFailed, AttemptCAS, Live, LiveAttempt
  <2>4. UNCHANGED <<settlement, payment>>
    BY <1>6 DEF RunOrderFailed, RunDriveFailed
  <2>5. run'.pc # run.pc
    <3>1. run' = IdleRun \/ run' = NextIteration
      BY <1>6 DEF RunOrderFailed, RunDriveFailed, FinishRun
    <3>2. IdleRun.pc = "idle" /\ NextIteration.pc = "loop"
      BY DEF IdleRun, NextIteration, TypeOK, RunState
    <3>3. run.pc \in {"order", "driving"}
      BY <1>6 DEF RunOrderFailed, RunDriveFailed
    <3> QED
      BY <3>1, <3>2, <3>3
  <2> QED
    BY <2>1, <2>2, <2>3, <2>4, <2>5 DEF DbStep, NothingMoves, AttemptFails
<1>7. CASE RunCaptured
  <2> DEFINE a == run.att
  <2>1. a \in Attempt /\ attempt[a].method = "checkout_driver" /\ attempt[a].sid = run.sid
        /\ settlement[run.sid] \in {"settling", "captured"} /\ run.sid \in Settlement
    BY <1>7, RunHoldsRow DEF RunCaptured, RunInv
  <2>2. attempt[a].state = "initiated" /\ payment[a] = "captured" /\ ~CaptureClash(a)
    BY <1>7 DEF RunCaptured, CanCapture, AttemptCAS, settleViaCheckout,
         pollForTerminalStatus
  <2>3. ~HasCaptured(attempt[a].sid)
    BY <2>1, <2>2 DEF CaptureClash, HasCaptured
  <2>4. settlement[attempt[a].sid] = "settling"
    BY <2>1, <2>3 DEF CaptureAgreement
  <2>5. /\ attempt' = [attempt EXCEPT ![a].state = "captured"]
        /\ settlement' = [settlement EXCEPT ![attempt[a].sid] = "captured"]
        /\ ledger' = ledger \cup {Event("payment_captured", a)}
        /\ UNCHANGED payment /\ run.pc # "order"
    BY <1>7, <2>4 DEF RunCaptured, ApplyCapture, SettlementCAS, SETTLEMENT_TRANSITIONS
  <2> QED
    BY <2>1, <2>2, <2>3, <2>4, <2>5 DEF DbStep, AttemptCaptured, Live, LiveAttempt
<1>8. CASE RunLinkIssued
  <2>1. ~HasLiveAttempt(run.sid)
    BY <1>8 DEF RunLinkIssued, RunInv, LoopOwnsSettlement
  <2>2. ~(run.att # NoAttempt /\ Live(run.att))
    BY <2>1 DEF RunInv, HasLiveAttempt, AttemptsOf, TypeOK, RunState
  <2>3. CapturesKept
    <3>1. ledger' = ledger \/ ledger' = ledger \cup {Event("payment_link_issued", FreeRow)}
      BY <1>8 DEF RunLinkIssued
    <3> QED
      BY <3>1, <1>0, OtherEvent DEF CapturesKept
  <2>4. attempt' = attempt \/ attempt' = [attempt EXCEPT ![FreeRow] =
              [sid |-> run.sid, method |-> "payment_link",
               state |-> "awaiting_confirmation", order |-> FALSE]]
    BY <1>8, <2>2 DEF RunLinkIssued
  <2>5. run.pc = "link" /\ run'.pc # run.pc /\ RowLeft /\ UNCHANGED <<settlement, payment>>
    BY <1>8 DEF RunLinkIssued, FinishRun, IdleRun
  <2> QED
    BY <2>1, <2>3, <2>4, <2>5 DEF DbStep, RowInserts, NothingMoves
<1> QED
  BY <1>1, <1>2, <1>3, <1>4, <1>5, <1>6, <1>7, <1>8 DEF ExecutorStep

LEMMA DbStepHandler ==
  ASSUME IInv, NEW h \in Handler, HandlerStep(h)
  PROVE  DbStep
<1> USE DEF IInv
<1>0. {"payment_failed", "refund_issued", "anomaly_refund_issued"}
        \subseteq LedgerType \ {"payment_captured"}
  BY DEF LedgerType
<1>1. ASSUME NEW a \in Attempt, NEW type \in EventType, Webhook(h, type, a)
      PROVE  DbStep
  BY <1>1 DEF Webhook, DbStep, NothingMoves, CapturesKept
<1>2. ASSUME NEW a \in Attempt, SweepPoll(h, a) \/ RefundRequest(h, a)
      PROVE  DbStep
  BY <1>2 DEF SweepPoll, RefundRequest, dbVars, DbStep, NothingMoves, CapturesKept
<1>3. CASE \/ FetchAnswered(h) \/ FetchFailed(h) \/ ReconcileAnomaly(h) \/ ReconcileNoOp(h)
           \/ RefundRefused(h) \/ RefundCallFailed(h)
  BY <1>3 DEF FetchAnswered, FetchFailed, ReconcileAnomaly, ReconcileNoOp, RefundRefused,
              RefundCallFailed, dbVars, DbStep, NothingMoves, CapturesKept
<1>4. CASE ReconcileCaptures(h)
  <2> DEFINE a == handler[h].att
  <2>1. a \in Attempt /\ attempt[a].order /\ payment[a] \in {"captured", "refunded"}
    BY <1>4, HandlerHoldsRow DEF ReconcileCaptures, HandlerInv, HandlerOK
  <2>2. attempt[a].method = "checkout_driver" /\ (run.pc = "order" => run.att # a)
    BY <2>1 DEF RowInv, RunInv
  <2>3. /\ handler[h].seen \in LiveAttempt /\ attempt[a].state = handler[h].seen
        /\ settlement[attempt[a].sid] = "settling" /\ ~HasCaptured(attempt[a].sid)
    BY <1>4 DEF ReconcileCaptures, Captures, Anomaly, CanCapture, AttemptCAS
  <2>4. /\ attempt' = [attempt EXCEPT ![a].state = "captured"]
        /\ settlement' = [settlement EXCEPT ![attempt[a].sid] = "captured"]
        /\ ledger' = ledger \cup {Event("payment_captured", a)}
        /\ UNCHANGED payment
    BY <1>4, <2>3 DEF ReconcileCaptures, ApplyCapture, SettlementCAS, SETTLEMENT_TRANSITIONS
  <2> QED
    BY <2>1, <2>2, <2>3, <2>4 DEF DbStep, AttemptCaptured, Live
<1>5. CASE ReconcileFails(h)
  <2> DEFINE a == handler[h].att
  <2>1. a \in Attempt /\ attempt[a].method = "checkout_driver"
        /\ (run.pc = "order" => run.att # a)
    BY <1>5, HandlerHoldsRow DEF ReconcileFails, HandlerInv, HandlerOK, RowInv, RunInv
  <2>2. CapturesKept
    <3>1. ledger' = ledger \/ ledger' = ledger \cup {Event("payment_failed", a)}
      BY <1>5 DEF ReconcileFails
    <3> QED
      BY <3>1, <1>0, OtherEvent DEF CapturesKept
  <2>3. \/ attempt' = attempt
        \/ Live(a) /\ attempt' = [attempt EXCEPT ![a].state = "failed"]
    BY <1>5 DEF ReconcileFails, AttemptCAS, Live
  <2>4. UNCHANGED <<settlement, payment>>
    BY <1>5 DEF ReconcileFails
  <2> QED
    BY <2>1, <2>2, <2>3, <2>4 DEF DbStep, NothingMoves, AttemptFails
<1>6. CASE RefundAtProvider(h)
  <2>1. handler[h].att \in Attempt
    BY <1>6, HandlerHoldsRow DEF RefundAtProvider, Refunding
  <2> QED
    BY <1>6, <2>1 DEF RefundAtProvider, dbVars, DbStep, PaymentMoves, PaymentStatus, CapturesKept
<1>7. CASE RefundRecorded(h)
  <2>1. ledger' = ledger \cup {Event("refund_issued", handler[h].att)}
        \/ ledger' = ledger \cup {Event("anomaly_refund_issued", handler[h].att)}
    BY <1>7 DEF RefundRecorded
  <2>2. CapturesKept
    BY <2>1, <1>0, OtherEvent
  <2> QED
    BY <1>7, <2>2 DEF RefundRecorded, DbStep, NothingMoves
<1> QED
  BY <1>1, <1>2, <1>3, <1>4, <1>5, <1>6, <1>7 DEF HandlerStep

LEMMA DbStepNext == IInv /\ [Next]_vars => DbStep
<1> SUFFICES ASSUME IInv, [Next]_vars PROVE DbStep
  OBVIOUS
<1>1. CASE ExecutorStep
  BY <1>1, DbStepExecutor
<1>2. ASSUME NEW h \in Handler, HandlerStep(h) PROVE DbStep
  BY <1>2, DbStepHandler
<1>3. ASSUME NEW s \in Settlement, SettlementStep(s) PROVE DbStep
  BY <1>3 DEF SettlementStep, Approve, SweepRekick, SweepResume, SweepAbandonApproved,
              SettlementCAS, dbVars, DbStep, SettlementMoves, NothingMoves, CapturesKept
<1>4. ASSUME NEW a \in Attempt, SweepFailOrphan(a) PROVE DbStep
  <2>1. CapturesKept
    BY <1>4, OtherEvent DEF SweepFailOrphan, LedgerType
  <2>2. attempt[a].method = "checkout_driver"
    <3>1. attempt[a] \in Row /\ attempt[a].state # "awaiting_confirmation"
      BY <1>4, RowFact DEF IInv, SweepFailOrphan, AttemptState
    <3> QED
      BY <3>1 DEF IInv, RowInv, Row
  <2> QED
    BY <1>4, <2>1, <2>2 DEF SweepFailOrphan, DbStep, AttemptFails, Live, LiveAttempt
<1>5. CASE ProviderStep
  <2>1. run.pc = "driving" => run.att \in Attempt /\ attempt[run.att].order
    BY RunHoldsRow DEF IInv, RunInv
  <2> QED
    BY <1>5, <2>1 DEF ProviderStep, DriverPays, LinkPaid, PaymentResolves, PaymentStatus,
         dbVars, DbStep, PaymentMoves, CapturesKept
<1>6. CASE Crash \/ UNCHANGED vars
  BY <1>6 DEF Crash, vars, dbVars, DbStep, NothingMoves, CapturesKept
<1> QED
  BY <1>1, <1>2, <1>3, <1>4, <1>5, <1>6 DEF Next

-----------------------------------------------------------------------------
(* The safety invariants, each preserved by every such step.               *)

\* A free row is on no settlement and in no state of an attempt.
LEMMA FreeRowBlank ==
  ASSUME IInv, RowLeft
  PROVE  /\ FreeRow \in Attempt /\ attempt[FreeRow].sid \notin Settlement
         /\ attempt[FreeRow].state = "none" /\ attempt[FreeRow].method = "none"
         /\ ~attempt[FreeRow].order /\ ~Live(FreeRow)
         /\ payment[FreeRow] = "none" /\ ~Ledgered("payment_captured", FreeRow)
<1>1. FreeRow \in Attempt /\ attempt[FreeRow] = NoRow
  BY FreeRowFact
<1>2. /\ attempt[FreeRow].sid = NoSettlement /\ attempt[FreeRow].state = "none"
      /\ attempt[FreeRow].method = "none" /\ ~attempt[FreeRow].order
  BY <1>1 DEF NoRow
<1> QED
  BY <1>1, <1>2, ConstantAssumption
     DEF IInv, PaymentIsFindable, CaptureAgreement, Live, LiveAttempt

\* What an insert changes: the new row is the run's, every other row is as it was.
LEMMA RowInsertsFact ==
  ASSUME IInv, RowInserts
  PROVE  /\ FreeRow \in Attempt /\ run.sid \in Settlement
         /\ settlement[run.sid] \in {"settling", "captured"}
         /\ \A a \in Attempt : a # FreeRow => attempt'[a] = attempt[a]
         /\ attempt'[FreeRow].sid = run.sid /\ attempt'[FreeRow].order = FALSE
         /\ \/ run.pc = "loop" /\ attempt'[FreeRow].method = "checkout_driver"
                /\ attempt'[FreeRow].state = "initiated"
            \/ run.pc = "link" /\ attempt'[FreeRow].method = "payment_link"
                /\ attempt'[FreeRow].state = "awaiting_confirmation"
<1>1. FreeRow \in Attempt
  BY FreeRowFact DEF RowInserts
<1>2. run.sid \in Settlement /\ settlement[run.sid] \in {"settling", "captured"}
  BY DEF IInv, RunInv, RowInserts
<1>3. attempt \in [Attempt -> Row \cup {NoRow}]
  BY DEF IInv, TypeOK
<1> QED
  BY <1>1, <1>2, <1>3 DEF RowInserts

\* What an update of one row changes.
LEMMA RowMovesFact ==
  ASSUME IInv, NEW a \in Attempt, attempt[a] \in Row, NEW st
  PROVE  /\ attempt' = [attempt EXCEPT ![a].state = st] =>
              /\ \A b \in Attempt : b # a => attempt'[b] = attempt[b]
              /\ attempt'[a].state = st /\ attempt'[a].sid = attempt[a].sid
              /\ attempt'[a].method = attempt[a].method /\ attempt'[a].order = attempt[a].order
         /\ attempt' = [attempt EXCEPT ![a].order = TRUE] =>
              /\ \A b \in Attempt : b # a => attempt'[b] = attempt[b]
              /\ attempt'[a].order /\ attempt'[a].sid = attempt[a].sid
              /\ attempt'[a].method = attempt[a].method /\ attempt'[a].state = attempt[a].state
BY DEF IInv, TypeOK, Row

LEMMA ChargeNeedsSettlingStep ==
  ASSUME IInv, DbStep
  PROVE  ChargeNeedsSettling'
<1>a. \A a \in Attempt : attempt[a] # NoRow =>
        /\ settlement[attempt[a].sid] \in {"settling", "captured"}
        /\ attempt[a].sid \in Settlement /\ attempt[a] \in Row
  BY RowFact DEF IInv, ChargeNeedsSettling, Row
<1>1. CASE SettlementMoves
  BY <1>1, <1>a DEF SettlementMoves, ChargeNeedsSettling, IInv, TypeOK
<1>2. CASE RowInserts
  BY <1>2, <1>a, RowInsertsFact DEF RowInserts, ChargeNeedsSettling
<1>3. CASE OrderWritten
  <2>1. run.att \in Attempt /\ attempt[run.att] \in Row
    BY <1>3, RunHoldsRow DEF OrderWritten, IInv
  <2> QED
    BY <1>3, <1>a, <2>1, RowMovesFact DEF OrderWritten, ChargeNeedsSettling, NoRow, Row
<1>4. CASE AttemptFails
  <2>1. PICK a \in Attempt : Live(a) /\ attempt[a].method = "checkout_driver"
           /\ attempt' = [attempt EXCEPT ![a].state = "failed"]
    BY <1>4 DEF AttemptFails
  <2>2. attempt[a] \in Row /\ attempt[a] # NoRow
    BY <2>1, RowFact DEF IInv, NoRow
  <2> QED
    BY <1>4, <1>a, <2>1, <2>2, RowMovesFact DEF AttemptFails, ChargeNeedsSettling
<1>5. CASE AttemptCaptured
  <2>1. PICK a \in Attempt :
           /\ Live(a) /\ attempt[a].method = "checkout_driver"
           /\ attempt' = [attempt EXCEPT ![a].state = "captured"]
           /\ settlement' = [settlement EXCEPT ![attempt[a].sid] = "captured"]
    BY <1>5 DEF AttemptCaptured
  <2>2. attempt[a] \in Row /\ attempt[a] # NoRow
    BY <2>1, RowFact DEF IInv, NoRow
  <2>3. \A s \in Settlement : settlement'[s] = settlement[s] \/ settlement'[s] = "captured"
    BY <2>1 DEF IInv, TypeOK
  <2> QED
    BY <1>a, <2>1, <2>2, <2>3, RowMovesFact DEF ChargeNeedsSettling
<1>6. CASE PaymentMoves \/ NothingMoves
  BY <1>6 DEF PaymentMoves, NothingMoves, ChargeNeedsSettling, IInv
<1> QED
  BY <1>1, <1>2, <1>3, <1>4, <1>5, <1>6 DEF DbStep

LEMMA CaptureAgreementStep ==
  ASSUME IInv, DbStep
  PROVE  CaptureAgreement'
<1> USE DEF Ledgered
<1>a. \A a \in Attempt :
        attempt[a].state = "captured" => attempt[a].sid \in Settlement /\ attempt[a] \in Row
  BY RowFact DEF IInv, AttemptState, Row
<1>1. CASE SettlementMoves
  BY <1>1, <1>a DEF SettlementMoves, CapturesKept, CaptureAgreement, HasCaptured, AttemptsOf, IInv, TypeOK
<1>2. CASE RowInserts
  <2>1. ~(Event("payment_captured", FreeRow) \in ledger) /\ attempt[FreeRow].state = "none"
    BY <1>2, FreeRowBlank DEF RowInserts
  <2>2. \A a \in Attempt : attempt'[a].state = "captured" <=> attempt[a].state = "captured"
    BY <1>2, <2>1, RowInsertsFact
  <2>3. \A a \in Attempt : attempt[a].state = "captured" => attempt'[a] = attempt[a]
    BY <1>2, <2>1, RowInsertsFact
  <2>4. settlement' = settlement /\ CapturesKept
    BY <1>2 DEF RowInserts
  <2> QED
    BY <2>2, <2>3, <2>4 DEF CapturesKept, CaptureAgreement, HasCaptured, AttemptsOf, IInv
<1>3. CASE OrderWritten
  <2>1. run.att \in Attempt /\ attempt[run.att] \in Row
    BY <1>3, RunHoldsRow DEF OrderWritten, IInv
  <2>2. \A a \in Attempt : attempt'[a].state = attempt[a].state /\ attempt'[a].sid = attempt[a].sid
    BY <1>3, <2>1, RowMovesFact DEF OrderWritten
  <2> QED
    BY <1>3, <2>2 DEF OrderWritten, CapturesKept, CaptureAgreement, HasCaptured, AttemptsOf, IInv
<1>4. CASE AttemptFails
  <2>1. PICK a \in Attempt : Live(a) /\ attempt[a].method = "checkout_driver"
           /\ attempt' = [attempt EXCEPT ![a].state = "failed"]
    BY <1>4 DEF AttemptFails
  <2>2. attempt[a] \in Row /\ attempt[a].state # "captured"
    BY <2>1, RowFact DEF IInv, Live, LiveAttempt
  <2>3. \A b \in Attempt : /\ attempt'[b].state = "captured" <=> attempt[b].state = "captured"
                           /\ attempt'[b].sid = attempt[b].sid
    BY <2>1, <2>2, RowMovesFact
  <2> QED
    BY <1>4, <2>3 DEF AttemptFails, CapturesKept, CaptureAgreement, HasCaptured, AttemptsOf, IInv
<1>5. CASE AttemptCaptured
  <2>1. PICK a \in Attempt :
           /\ Live(a) /\ attempt[a].method = "checkout_driver"
           /\ settlement[attempt[a].sid] = "settling" /\ ~HasCaptured(attempt[a].sid)
           /\ attempt' = [attempt EXCEPT ![a].state = "captured"]
           /\ settlement' = [settlement EXCEPT ![attempt[a].sid] = "captured"]
           /\ ledger' = ledger \cup {Event("payment_captured", a)}
    BY <1>5 DEF AttemptCaptured
  <2>2. attempt[a] \in Row /\ attempt[a].sid \in Settlement
    BY <2>1, RowFact DEF IInv, Row
  <2>3. /\ attempt'[a].state = "captured" /\ attempt'[a].sid = attempt[a].sid
        /\ \A b \in Attempt : b # a => attempt'[b] = attempt[b]
    BY <2>1, <2>2, RowMovesFact
  <2>4. \A b \in Attempt :
          Event("payment_captured", b) \in ledger' <=> b = a \/ Event("payment_captured", b) \in ledger
    BY <2>1 DEF Event
  <2>5. /\ settlement'[attempt[a].sid] = "captured"
        /\ \A s \in Settlement : s # attempt[a].sid => settlement'[s] = settlement[s]
    BY <2>1, <2>2 DEF IInv, TypeOK
  <2>6. \A b \in Attempt : attempt[b].state = "captured" =>
          attempt[b].sid # attempt[a].sid /\ b # a
    BY <2>1 DEF HasCaptured, AttemptsOf, Live, LiveAttempt
  <2>7. \A b \in Attempt : attempt'[b].state = "captured" =>
          settlement'[attempt'[b].sid] = "captured"
    BY <1>a, <2>3, <2>5, <2>6 DEF CaptureAgreement, IInv
  <2>8. \A b, c \in Attempt :
          attempt'[b].state = "captured" /\ attempt'[c].state = "captured"
            /\ attempt'[b].sid = attempt'[c].sid => b = c
    BY <2>3, <2>6 DEF CaptureAgreement, IInv
  <2>9. \A s \in Settlement : settlement'[s] = "captured" => HasCaptured(s)'
    BY <2>3, <2>5, <2>6 DEF CaptureAgreement, HasCaptured, AttemptsOf, IInv
  <2>10. \A b \in Attempt : attempt'[b].state = "captured" <=>
           Event("payment_captured", b) \in ledger'
    BY <2>3, <2>4 DEF CaptureAgreement, IInv
  <2> QED
    BY <2>7, <2>8, <2>9, <2>10 DEF CaptureAgreement
<1>6. CASE PaymentMoves \/ NothingMoves
  BY <1>6 DEF PaymentMoves, NothingMoves, CapturesKept, CaptureAgreement, HasCaptured, AttemptsOf, IInv
<1> QED
  BY <1>1, <1>2, <1>3, <1>4, <1>5, <1>6 DEF DbStep

\* How one row changes in one step: it is inserted for the run, or keeps its
\* settlement, method and order, and leaves a live state only for failed or captured.
RowKept(a) ==
  /\ attempt'[a].sid = attempt[a].sid /\ attempt'[a].method = attempt[a].method
  /\ attempt[a].order => attempt'[a].order
  /\ \/ attempt'[a].state = attempt[a].state
     \/ Live(a) /\ attempt[a].method = "checkout_driver"
          /\ attempt'[a].state \in {"failed", "captured"}
  /\ attempt'[a].order => attempt[a].order \/ attempt[a].method = "checkout_driver"

LEMMA RowKeptStep ==
  ASSUME IInv, NEW a \in Attempt,
         \/ SettlementMoves \/ OrderWritten \/ AttemptFails
         \/ AttemptCaptured \/ PaymentMoves \/ NothingMoves
  PROVE  RowKept(a)
<1>1. CASE SettlementMoves \/ PaymentMoves \/ NothingMoves
  BY <1>1 DEF SettlementMoves, PaymentMoves, NothingMoves, RowKept
<1>2. CASE OrderWritten
  <2>1. run.att \in Attempt /\ attempt[run.att] \in Row /\ attempt[run.att].method = "checkout_driver"
    BY <1>2, RunHoldsRow DEF OrderWritten, IInv, RunInv
  <2> QED
    BY <1>2, <2>1, RowMovesFact DEF OrderWritten, RowKept
<1>3. CASE AttemptFails \/ AttemptCaptured
  <2>1. PICK b \in Attempt, st \in {"failed", "captured"} :
           /\ Live(b) /\ attempt[b].method = "checkout_driver"
           /\ attempt' = [attempt EXCEPT ![b].state = st]
    BY <1>3 DEF AttemptFails, AttemptCaptured
  <2>2. attempt[b] \in Row
    BY <2>1, RowFact DEF IInv
  <2> QED
    BY <2>1, <2>2, RowMovesFact DEF RowKept
<1> QED
  BY <1>1, <1>2, <1>3

LEMMA RowStep ==
  ASSUME IInv, DbStep, NEW a \in Attempt
  PROVE  RowKept(a) \/ (RowInserts /\ a = FreeRow)
<1>1. CASE RowInserts
  BY <1>1, RowInsertsFact DEF RowKept
<1>2. CASE ~RowInserts
  BY <1>2, RowKeptStep DEF DbStep
<1> QED
  BY <1>1, <1>2

LEMMA RowInvStep ==
  ASSUME IInv, DbStep
  PROVE  RowInv'
<1>1. \A a, b \in Attempt :
        Live(a)' /\ Live(b)' /\ attempt'[a].sid = attempt'[b].sid => a = b
  <2> SUFFICES ASSUME NEW a \in Attempt, NEW b \in Attempt, Live(a)', Live(b)',
                      attempt'[a].sid = attempt'[b].sid
               PROVE  a = b
    OBVIOUS
  <2>1. \A c \in {a, b} : RowKept(c) => Live(c) /\ attempt'[c].sid = attempt[c].sid
    BY DEF RowKept, Live, LiveAttempt
  <2>2. RowInserts =>
          attempt'[FreeRow].sid = run.sid /\ \A c \in Attempt : Live(c) => attempt[c].sid # run.sid
    BY RowInsertsFact DEF RowInserts, HasLiveAttempt, AttemptsOf
  <2> QED
    BY <2>1, <2>2, RowStep DEF IInv, RowInv
<1>2. ASSUME NEW a \in Attempt, RowKept(a)
      PROVE  /\ attempt'[a].order => attempt'[a].method = "checkout_driver"
             /\ attempt'[a].method = "payment_link" <=> attempt'[a].state = "awaiting_confirmation"
  <2>1. /\ attempt[a].order => attempt[a].method = "checkout_driver"
        /\ attempt[a].method = "payment_link" <=> attempt[a].state = "awaiting_confirmation"
    BY DEF IInv, RowInv
  <2> QED
    BY <1>2, <2>1 DEF RowKept
<1>3. ASSUME RowInserts
      PROVE  /\ attempt'[FreeRow].order => attempt'[FreeRow].method = "checkout_driver"
             /\ attempt'[FreeRow].method = "payment_link"
                  <=> attempt'[FreeRow].state = "awaiting_confirmation"
  BY <1>3, RowInsertsFact
<1>4. \A a \in Attempt :
        /\ attempt'[a].order => attempt'[a].method = "checkout_driver"
        /\ attempt'[a].method = "payment_link" <=> attempt'[a].state = "awaiting_confirmation"
  BY <1>2, <1>3, RowStep
<1> QED
  BY <1>1, <1>4 DEF RowInv

LEMMA PaymentStep ==
  ASSUME IInv, DbStep, NEW a \in Attempt
  PROVE  /\ payment[a] \in {"captured", "refunded"} => payment'[a] \in {"captured", "refunded"}
         /\ payment[a] = "none" /\ payment'[a] # "none" =>
              RowKept(a) /\ (attempt[a].method = "payment_link" \/ attempt[a].order)
<1>1. CASE PaymentMoves
  <2>1. RowKept(a)
    BY <1>1 DEF PaymentMoves, RowKept
  <2>2. PICK b \in Attempt, status \in PaymentStatus :
           /\ payment[b] = "none" => attempt[b].method = "payment_link" \/ attempt[b].order
           /\ payment[b] \in {"captured", "refunded"} => status \in {"captured", "refunded"}
           /\ payment' = [payment EXCEPT ![b] = status]
    BY <1>1 DEF PaymentMoves
  <2>3. payment'[a] = IF a = b THEN status ELSE payment[a]
    BY <2>2 DEF IInv, TypeOK
  <2> QED
    BY <2>1, <2>2, <2>3
<1>2. CASE ~PaymentMoves
  <2>1. UNCHANGED payment
    BY <1>2 DEF DbStep, SettlementMoves, RowInserts, OrderWritten, AttemptFails,
                AttemptCaptured, NothingMoves
  <2> QED
    BY <2>1
<1> QED
  BY <1>1, <1>2

LEMMA PaymentIsFindableStep ==
  ASSUME IInv, DbStep
  PROVE  PaymentIsFindable'
<1> SUFFICES ASSUME NEW a \in Attempt, payment'[a] # "none"
             PROVE  attempt'[a].method = "payment_link" \/ attempt'[a].order
  BY DEF PaymentIsFindable
<1>1. CASE payment[a] # "none"
  <2>1. attempt[a].method = "payment_link" \/ attempt[a].order
    BY <1>1 DEF IInv, PaymentIsFindable
  <2>2. ~(RowInserts /\ a = FreeRow)
    BY <1>1, FreeRowBlank DEF RowInserts
  <2> QED
    BY <2>1, <2>2, RowStep DEF RowKept
<1>2. CASE payment[a] = "none"
  BY <1>2, PaymentStep DEF RowKept
<1> QED
  BY <1>1, <1>2

LEMMA CaptureIsBackedStep ==
  ASSUME IInv, DbStep
  PROVE  CaptureIsBacked'
<1> SUFFICES ASSUME NEW a \in Attempt, attempt'[a].state = "captured"
             PROVE  payment'[a] \in {"captured", "refunded"}
  BY DEF CaptureIsBacked
<1>1. CASE attempt[a].state = "captured"
  BY <1>1, PaymentStep DEF IInv, CaptureIsBacked
<1>2. CASE attempt[a].state # "captured"
  <2>1. AttemptCaptured
    <3>1. CASE SettlementMoves \/ PaymentMoves \/ NothingMoves
      BY <1>2, <3>1 DEF SettlementMoves, PaymentMoves, NothingMoves
    <3>2. CASE RowInserts
      BY <1>2, <3>2, RowInsertsFact
    <3>3. CASE OrderWritten
      BY <1>2, <3>3, RunHoldsRow, RowMovesFact DEF OrderWritten, IInv
    <3>4. CASE AttemptFails
      <4>1. PICK b \in Attempt : Live(b) /\ attempt[b].method = "checkout_driver"
              /\ attempt' = [attempt EXCEPT ![b].state = "failed"]
        BY <3>4 DEF AttemptFails
      <4>2. attempt[b] \in Row
        BY <4>1, RowFact DEF IInv
      <4> QED
        BY <1>2, <4>1, <4>2, RowMovesFact
    <3> QED
      BY <3>1, <3>2, <3>3, <3>4 DEF DbStep
  <2>2. PICK b \in Attempt :
           /\ Live(b) /\ attempt[b].method = "checkout_driver"
           /\ payment[b] \in {"captured", "refunded"}
           /\ attempt' = [attempt EXCEPT ![b].state = "captured"]
    BY <2>1 DEF AttemptCaptured
  <2>3. attempt[b] \in Row
    BY <2>2, RowFact DEF IInv
  <2>4. a = b
    BY <1>2, <2>2, <2>3, RowMovesFact
  <2> QED
    BY <2>2, <2>4, PaymentStep
<1> QED
  BY <1>1, <1>2

LEMMA AttemptBudgetStep ==
  ASSUME IInv, DbStep
  PROVE  AttemptBudget'
<1> SUFFICES ASSUME NEW s \in Settlement
             PROVE  /\ Cardinality(DriverAttempts(s)') <= MAX_ATTEMPTS
                    /\ \A a, b \in AttemptsOf(s)' \ DriverAttempts(s)' : a = b
  BY DEF AttemptBudget
<1>a. Cardinality(DriverAttempts(s)) <= MAX_ATTEMPTS
      /\ \A a, b \in AttemptsOf(s) \ DriverAttempts(s) : a = b
  BY DEF IInv, AttemptBudget
<1>1. CASE ~RowInserts
  <2>1. AttemptsOf(s)' = AttemptsOf(s) /\ DriverAttempts(s)' = DriverAttempts(s)
    BY <1>1, RowStep DEF RowKept, AttemptsOf, DriverAttempts
  <2> QED
    BY <1>a, <2>1
<1>2. CASE RowInserts
  <2>a. FreeRow \in Attempt /\ attempt[FreeRow].sid \notin Settlement
    BY <1>2, FreeRowBlank DEF RowInserts
  <2>b. \A a \in Attempt : a # FreeRow => attempt'[a] = attempt[a]
    BY <1>2, RowInsertsFact
  <2>1. CASE s # run.sid
    <3>1. AttemptsOf(s)' = AttemptsOf(s) /\ DriverAttempts(s)' = DriverAttempts(s)
      BY <1>2, <2>1, <2>a, <2>b, RowInsertsFact DEF AttemptsOf, DriverAttempts
    <3> QED
      BY <1>a, <3>1
  <2>2. CASE s = run.sid /\ run.pc = "loop"
    <3>1. DriverAttempts(s)' = DriverAttempts(s) \cup {FreeRow}
      BY <1>2, <2>2, <2>a, <2>b, RowInsertsFact DEF AttemptsOf, DriverAttempts
    <3>2. FreeRow \notin DriverAttempts(s)
      BY <2>a DEF AttemptsOf, DriverAttempts
    <3>3. Cardinality(DriverAttempts(s)') = Cardinality(DriverAttempts(s)) + 1
      BY <3>1, <3>2, CountIsNat, FS_AddElement
    <3>4. run.num = Cardinality(DriverAttempts(s)) + 1 /\ run.num <= MAX_ATTEMPTS
      BY <1>2, <2>2 DEF IInv, CountInv, RowInserts
    <3>5. AttemptsOf(s)' \ DriverAttempts(s)' = AttemptsOf(s) \ DriverAttempts(s)
      BY <1>2, <2>2, <2>a, <2>b, RowInsertsFact DEF AttemptsOf, DriverAttempts
    <3> QED
      BY <1>a, <3>3, <3>4, <3>5
  <2>3. CASE s = run.sid /\ run.pc = "link"
    <3>1. DriverAttempts(s)' = DriverAttempts(s)
      BY <1>2, <2>3, <2>a, <2>b, RowInsertsFact DEF AttemptsOf, DriverAttempts
    <3>2. \A a \in AttemptsOf(s) : attempt[a].method # "payment_link"
      BY <1>2, <2>3 DEF RowInserts, HasLiveAttempt, Live, LiveAttempt, IInv, RowInv, AttemptsOf
    <3>3. \A a \in AttemptsOf(s) : attempt[a] \in Row
      BY RowFact, ConstantAssumption DEF AttemptsOf, IInv, NoRow
    <3>4. AttemptsOf(s) = DriverAttempts(s)
      BY <3>2, <3>3 DEF DriverAttempts, Row
    <3>5. AttemptsOf(s)' = AttemptsOf(s) \cup {FreeRow}
      BY <1>2, <2>3, <2>a, <2>b, RowInsertsFact DEF AttemptsOf
    <3> QED
      BY <1>a, <3>1, <3>4, <3>5
  <2> QED
    BY <1>2, <2>1, <2>2, <2>3, RowInsertsFact
<1> QED
  BY <1>1, <1>2

-----------------------------------------------------------------------------
(* The invariants of the run and of the handlers.                          *)

\* An idle run satisfies whatever is asked of runs.
LEMMA IdleRunInv ==
  ASSUME run' = IdleRun
  PROVE  RunInv' /\ CountInv'
BY DEF IdleRun, RunInv, CountInv, LoopOwnsSettlement

LEMMA SettlementKept ==
  ASSUME IInv, DbStep, NEW s \in Settlement, settlement[s] \in {"settling", "captured"}
  PROVE  settlement'[s] \in {"settling", "captured"}
<1>1. CASE SettlementMoves
  BY <1>1 DEF SettlementMoves, IInv, TypeOK
<1>2. CASE AttemptCaptured
  BY <1>2 DEF AttemptCaptured, IInv, TypeOK
<1>3. CASE ~SettlementMoves /\ ~AttemptCaptured
  BY <1>3 DEF DbStep, RowInserts, OrderWritten, AttemptFails, PaymentMoves, NothingMoves
<1> QED
  BY <1>1, <1>2, <1>3

\* While the run stands still, its attempts and what is asked of them stay.
LEMMA RunStandsStill ==
  ASSUME IInv, DbStep, UNCHANGED run
  PROVE  RunInv' /\ CountInv'
<1>1. \A a \in Attempt : RowKept(a)
  BY RowStep DEF RowInserts
<1>2. \A s : DriverAttempts(s)' = DriverAttempts(s) /\ AttemptsOf(s)' = AttemptsOf(s)
  BY <1>1 DEF DriverAttempts, AttemptsOf, RowKept
<1>3. \A a \in Attempt : Live(a)' => Live(a)
  BY <1>1 DEF RowKept, Live, LiveAttempt
<1>4. run.pc = "order" =>
        attempt'[run.att].state = "initiated" /\ ~attempt'[run.att].order
  <2> SUFFICES ASSUME run.pc = "order"
               PROVE  attempt'[run.att].state = "initiated" /\ ~attempt'[run.att].order
    OBVIOUS
  <2>1. run.att \in Attempt /\ attempt[run.att].state = "initiated" /\ ~attempt[run.att].order
    BY RunHoldsRow DEF IInv, RunInv
  <2>2. CASE SettlementMoves \/ PaymentMoves \/ NothingMoves
    BY <2>1, <2>2 DEF SettlementMoves, PaymentMoves, NothingMoves
  <2>3. CASE AttemptFails \/ AttemptCaptured
    <3>1. PICK b \in Attempt, st \in {"failed", "captured"} :
             /\ Live(b) /\ attempt[b].method = "checkout_driver" /\ run.att # b
             /\ attempt' = [attempt EXCEPT ![b].state = st]
      BY <2>3 DEF AttemptFails, AttemptCaptured
    <3>2. attempt[b] \in Row
      BY <3>1, RowFact DEF IInv
    <3> QED
      BY <2>1, <3>1, <3>2, RowMovesFact
  <2> QED
    BY <2>2, <2>3 DEF DbStep, RowInserts, OrderWritten
<1>5. run.pc = "driving" => attempt'[run.att].order
  BY <1>1, RunHoldsRow DEF RowKept, IInv, RunInv
<1>6. run.att # NoAttempt =>
        attempt'[run.att].sid = run.sid /\ attempt'[run.att].method = "checkout_driver"
  BY <1>1 DEF RowKept, IInv, RunInv, TypeOK, RunState
<1>7. run.pc # "idle" => run.sid \in Settlement /\ settlement'[run.sid] \in {"settling", "captured"}
  BY SettlementKept DEF IInv, RunInv
<1>8. LoopOwnsSettlement'
  BY <1>2, <1>3 DEF LoopOwnsSettlement, HasLiveAttempt, IInv, RunInv, AttemptsOf
<1>9. RunInv'
  <2>1. run.pc \in {"order", "driving"} =>
          /\ run.att # NoAttempt
          /\ \A a \in AttemptsOf(run.sid)' : Live(a)' => a = run.att
    BY <1>2, <1>3 DEF IInv, RunInv, AttemptsOf
  <2>2. run.pc = "idle" => run = IdleRun
    BY DEF IInv, RunInv
  <2> QED
    BY <1>4, <1>5, <1>6, <1>7, <1>8, <2>1, <2>2 DEF RunInv
<1>10. CountInv'
  BY <1>2 DEF CountInv, IInv
<1> QED
  BY <1>9, <1>10

\* A run starts at the loop's head on a settling settlement with no live attempt.
LEMMA RunStarts ==
  ASSUME IInv, NEW s \in Settlement, UNCHANGED attempt, settlement'[s] = "settling",
         ~HasLiveAttempt(s), Dequeue("loop", FirstAttemptNum(s)), Head(queue).sid = s
  PROVE  RunInv' /\ CountInv'
<1>1. run' = [pc |-> "loop", sid |-> s, att |-> NoAttempt, num |-> FirstAttemptNum(s)]
  BY DEF Dequeue
<1>2. LoopOwnsSettlement'
  BY <1>1 DEF LoopOwnsSettlement, HasLiveAttempt, AttemptsOf, Live
<1>3. CountInv'
  BY <1>1 DEF CountInv, FirstAttemptNum, DriverAttempts, AttemptsOf
<1>4. RunInv'
  BY <1>1, <1>2 DEF RunInv
<1> QED
  BY <1>3, <1>4

\* The end of an iteration: the run's attempt, if it was live, no longer is.
LEMMA RunIterates ==
  ASSUME IInv, DbStep, run.pc \in {"order", "driving"}, run' = NextIteration,
         \A a \in Attempt : RowKept(a), ~Live(run.att)'
  PROVE  RunInv' /\ CountInv'
<1>1. run.num \in Nat /\ run.sid \in Settlement /\ run.att \in Attempt
      /\ settlement[run.sid] \in {"settling", "captured"}
  BY RunHoldsRow DEF IInv, RunInv, TypeOK, RunState
<1>2. run'.pc = "loop" /\ run'.sid = run.sid /\ run'.att = run.att /\ run'.num = run.num + 1
  BY DEF NextIteration, IInv, TypeOK, RunState
<1>3. \A s : DriverAttempts(s)' = DriverAttempts(s) /\ AttemptsOf(s)' = AttemptsOf(s)
  BY DEF DriverAttempts, AttemptsOf, RowKept
<1>4. ~HasLiveAttempt(run.sid)'
  <2>1. \A a \in Attempt : Live(a)' => Live(a)
    BY DEF RowKept, Live, LiveAttempt
  <2>2. \A a \in AttemptsOf(run.sid) : Live(a) => a = run.att
    BY DEF IInv, RunInv
  <2>3. \A a \in AttemptsOf(run.sid)' : ~Live(a)'
    BY <1>2, <1>3, <2>1, <2>2 DEF AttemptsOf
  <2> QED
    BY <2>3 DEF HasLiveAttempt
<1>5. attempt'[run.att].sid = run.sid /\ attempt'[run.att].method = "checkout_driver"
  BY <1>1 DEF RowKept, IInv, RunInv
<1>6. settlement'[run.sid] \in {"settling", "captured"}
  BY <1>1, SettlementKept
<1>7. LoopOwnsSettlement'
  BY <1>2, <1>4 DEF LoopOwnsSettlement, HasLiveAttempt, AttemptsOf
<1>8. CountInv'
  BY <1>1, <1>2, <1>3 DEF CountInv, IInv
<1>9. RunInv'
  BY <1>1, <1>2, <1>5, <1>6, <1>7 DEF RunInv
<1> QED
  BY <1>8, <1>9

LEMMA RunStepExecutor ==
  ASSUME IInv, ExecutorStep
  PROVE  RunInv' /\ CountInv'
<1>a. DbStep
  BY DbStepExecutor
<1>1. CASE RunExecute
  <2> DEFINE s == Head(queue).sid
  <2>1. s \in Settlement
    BY <1>1, JobFact DEF RunExecute, IInv
  <2>2. CASE settlement[s] = "approved"
    <3>1. ~HasLiveAttempt(s)
      BY <2>1, <2>2, ConstantAssumption
         DEF HasLiveAttempt, AttemptsOf, IInv, ChargeNeedsSettling, NoRow
    <3>2. settlement'[s] = "settling" /\ Dequeue("loop", FirstAttemptNum(s)) /\ UNCHANGED attempt
      BY <1>1, <2>1, <2>2
         DEF RunExecute, SettlementCAS, SETTLEMENT_TRANSITIONS, IInv, TypeOK
    <3> QED
      BY <2>1, <3>1, <3>2, RunStarts
  <2>3. CASE settlement[s] # "approved"
    BY <1>a, <1>1, <2>3, RunStandsStill DEF RunExecute, SettlementCAS, DropJob
  <2> QED
    BY <2>2, <2>3
<1>2. CASE RunReject
  BY <1>a, <1>2, RunStandsStill DEF RunReject, DropJob
<1>3. CASE RunResume
  <2> DEFINE s == Head(queue).sid
  <2>1. s \in Settlement
    BY <1>3, JobFact DEF RunResume, IInv
  <2>2. CASE settlement[s] = "settling" /\ ~HasLiveAttempt(s)
    BY <1>3, <2>1, <2>2, RunStarts DEF RunResume, dbVars
  <2>3. CASE ~(settlement[s] = "settling" /\ ~HasLiveAttempt(s))
    BY <1>a, <1>3, <2>3, RunStandsStill DEF RunResume, DropJob
  <2> QED
    BY <2>2, <2>3
<1>4. CASE RunLoop
  <2>a. run \in RunState /\ run.sid \in Settlement
        /\ settlement[run.sid] \in {"settling", "captured"}
        /\ (run.att # NoAttempt => attempt[run.att].sid = run.sid
                                   /\ attempt[run.att].method = "checkout_driver")
        /\ run.num = Cardinality(DriverAttempts(run.sid)) + 1
        /\ ~HasLiveAttempt(run.sid)
    BY <1>4 DEF RunLoop, IInv, RunInv, CountInv, TypeOK, LoopOwnsSettlement
  <2>1. CASE run.num > MAX_ATTEMPTS
    <3>1. run' = [run EXCEPT !.pc = "link"] /\ UNCHANGED <<attempt, settlement>>
      BY <1>4, <2>1 DEF RunLoop
    <3>2. run'.pc = "link" /\ run'.sid = run.sid /\ run'.att = run.att
      BY <2>a, <3>1 DEF RunState
    <3>3. LoopOwnsSettlement'
      BY <2>a, <3>1, <3>2 DEF LoopOwnsSettlement, HasLiveAttempt, AttemptsOf, Live
    <3> QED
      BY <2>a, <3>1, <3>2, <3>3 DEF RunInv, CountInv
  <2>2. CASE ~(run.num > MAX_ATTEMPTS)
    <3>1. RowLeft /\ attempt' = [attempt EXCEPT ![FreeRow] =
             [sid |-> run.sid, method |-> "checkout_driver",
              state |-> "initiated", order |-> FALSE]]
          /\ run' = [run EXCEPT !.pc = "order", !.att = FreeRow]
          /\ UNCHANGED settlement
      BY <1>4, <2>2, <2>a DEF RunLoop
    <3>2. FreeRow \in Attempt /\ FreeRow # NoAttempt /\ attempt[FreeRow].sid \notin Settlement
      BY <3>1, FreeRowBlank, ConstantAssumption
    <3>3. run'.pc = "order" /\ run'.sid = run.sid /\ run'.att = FreeRow /\ run'.num = run.num
      BY <2>a, <3>1 DEF RunState
    <3>4. /\ attempt'[FreeRow].sid = run.sid /\ attempt'[FreeRow].method = "checkout_driver"
          /\ attempt'[FreeRow].state = "initiated" /\ ~attempt'[FreeRow].order
          /\ \A a \in Attempt : a # FreeRow => attempt'[a] = attempt[a]
      BY <3>1, <3>2 DEF IInv, TypeOK
    <3>5. \A a \in AttemptsOf(run.sid)' : Live(a)' => a = FreeRow
      BY <2>a, <3>3, <3>4 DEF HasLiveAttempt, AttemptsOf, Live
    <3>6. DriverAttempts(run.sid)' = DriverAttempts(run.sid) \cup {FreeRow}
          /\ FreeRow \notin DriverAttempts(run.sid)
      BY <2>a, <3>2, <3>3, <3>4 DEF DriverAttempts, AttemptsOf
    <3>7. Cardinality(DriverAttempts(run.sid)') = Cardinality(DriverAttempts(run.sid)) + 1
      BY <3>6, CountIsNat, FS_AddElement
    <3>8. CountInv'
      BY <2>a, <3>3, <3>7 DEF CountInv
    <3>9. RunInv'
      BY <2>a, <3>1, <3>2, <3>3, <3>4, <3>5 DEF RunInv, LoopOwnsSettlement
    <3> QED
      BY <3>8, <3>9
  <2> QED
    BY <2>1, <2>2
<1>5. CASE RunOrderCreated
  <2>a. run \in RunState /\ run.sid \in Settlement /\ run.att \in Attempt
        /\ attempt[run.att] \in Row /\ run.att # NoAttempt
        /\ settlement[run.sid] \in {"settling", "captured"}
        /\ attempt[run.att].sid = run.sid /\ attempt[run.att].method = "checkout_driver"
    <3>1. TypeOK /\ RunInv /\ run \in RunState /\ run.pc = "order"
      BY <1>5 DEF RunOrderCreated, IInv, TypeOK
    <3>2. run.att \in Attempt /\ attempt[run.att] \in Row /\ run.sid \in Settlement
      BY <3>1, RunHoldsRow
    <3> QED
      BY <3>1, <3>2, ConstantAssumption DEF RunInv
  <2>1. attempt' = [attempt EXCEPT ![run.att].order = TRUE] /\ UNCHANGED settlement
        /\ run' = [run EXCEPT !.pc = "driving"]
    BY <1>5 DEF RunOrderCreated
  <2>2. run'.pc = "driving" /\ run'.sid = run.sid /\ run'.att = run.att /\ run'.num = run.num
    BY <2>a, <2>1 DEF RunState
  <2>3. /\ attempt'[run.att].order
        /\ \A a \in Attempt : /\ attempt'[a].sid = attempt[a].sid
                              /\ attempt'[a].method = attempt[a].method
                              /\ attempt'[a].state = attempt[a].state
    BY <2>a, <2>1, RowMovesFact
  <2>4. \A a \in AttemptsOf(run.sid)' : Live(a)' => a = run.att
    BY <1>5, <2>2, <2>3 DEF RunOrderCreated, AttemptsOf, Live, IInv, RunInv
  <2>5. DriverAttempts(run.sid)' = DriverAttempts(run.sid)
    BY <2>2, <2>3 DEF DriverAttempts, AttemptsOf
  <2>6. CountInv'
    BY <1>5, <2>2, <2>5 DEF RunOrderCreated, CountInv, IInv
  <2> QED
    BY <2>a, <2>1, <2>2, <2>3, <2>4, <2>6 DEF RunInv, LoopOwnsSettlement
<1>6. CASE RunOrderFailed \/ RunDriveFailed
  <2>1. run.att \in Attempt /\ attempt[run.att] \in Row /\ run.pc \in {"order", "driving"}
        /\ attempt[run.att].state # "awaiting_confirmation"
    BY <1>6, RunHoldsRow DEF RunOrderFailed, RunDriveFailed, IInv, RunInv, RowInv
  <2>2. \/ attempt' = [attempt EXCEPT ![run.att].state = "failed"] /\ run' = NextIteration
        \/ ~Live(run.att) /\ attempt' = attempt /\ run' \in {NextIteration, IdleRun}
    BY <1>6, <2>1 DEF RunOrderFailed, RunDriveFailed, AttemptCAS, ATTEMPT_TRANSITIONS,
         FinishRun, Live, LiveAttempt
  <2>3. CASE run' = IdleRun
    BY <2>3, IdleRunInv
  <2>4. CASE run' = NextIteration
    <3>1. run'.att = run.att
      BY <2>4 DEF NextIteration, IInv, TypeOK, RunState
    <3>2. ~Live(run.att)'
      BY <2>1, <2>2, <3>1, RowMovesFact DEF Live, LiveAttempt
    <3>3. \A a \in Attempt : RowKept(a)
      <4>1. ~RowInserts
        BY <2>1 DEF RowInserts
      <4> QED
        BY <1>a, <4>1, RowStep
    <3> QED
      BY <1>a, <2>1, <2>4, <3>2, <3>3, RunIterates
  <2> QED
    BY <2>2, <2>3, <2>4
<1>7. CASE RunCaptured
  <2>1. run' = IdleRun
    <3>1. settlement[run.sid] = "settling"
      <4> DEFINE a == run.att
      <4>1. a \in Attempt /\ attempt[a].sid = run.sid /\ run.sid \in Settlement
            /\ settlement[run.sid] \in {"settling", "captured"}
        BY <1>7, RunHoldsRow DEF RunCaptured, RunInv, IInv
      <4>2. attempt[a].state = "initiated" /\ ~CaptureClash(a)
        BY <1>7 DEF RunCaptured, CanCapture, AttemptCAS
      <4>3. ~HasCaptured(run.sid)
        BY <4>1, <4>2 DEF CaptureClash, HasCaptured
      <4> QED
        BY <4>1, <4>3 DEF CaptureAgreement, IInv
    <3> QED
      BY <1>7, <3>1 DEF RunCaptured, FinishRun
  <2> QED
    BY <2>1, IdleRunInv
<1>8. CASE RunCaptureThrows \/ RunLinkIssued \/ RunLinkFailed
  BY <1>8, IdleRunInv DEF RunCaptureThrows, RunLinkIssued, RunLinkFailed, FinishRun
<1> QED
  BY <1>1, <1>2, <1>3, <1>4, <1>5, <1>6, <1>7, <1>8 DEF ExecutorStep

LEMMA HandlerKept ==
  ASSUME IInv, DbStep, NEW h \in Handler, handler'[h] = handler[h]
  PROVE  HandlerOK(h)'
<1>1. HandlerOK(h)
  BY DEF IInv, HandlerInv
<1>2. \A a \in Attempt : attempt[a].order => attempt'[a].order
  BY RowStep, FreeRowBlank DEF RowKept, RowInserts
<1>3. \A a \in Attempt :
        payment[a] \in {"captured", "refunded"} => payment'[a] \in {"captured", "refunded"}
  BY PaymentStep
<1> QED
  BY <1>1, <1>2, <1>3 DEF HandlerOK

LEMMA HandlerStepInv ==
  ASSUME IInv, NEW h \in Handler, HandlerStep(h)
  PROVE  HandlerInv'
<1>a. DbStep
  BY DbStepHandler
<1>b. handler \in [Handler -> HandlerState] /\ HandlerOK(h)
  BY DEF IInv, TypeOK, HandlerInv
<1>c. HandlerDone(h) => HandlerOK(h)'
  BY <1>b DEF HandlerDone, HandlerOK, IdleHandler
<1>d. \A a \in Attempt :
        payment[a] \in {"captured", "refunded"} => payment'[a] \in {"captured", "refunded"}
  BY <1>a, PaymentStep
<1>1. HandlerOK(h)'
  <2>1. ASSUME NEW a \in Attempt, NEW type \in EventType, Webhook(h, type, a)
        PROVE  HandlerOK(h)'
    <3>1. CASE attempt[a].order
      BY <1>b, <2>1, <3>1 DEF Webhook, StartReconcile, HandlerOK
    <3>2. CASE ~attempt[a].order
      BY <1>a, <2>1, <3>2, HandlerKept DEF Webhook
    <3> QED
      BY <3>1, <3>2
  <2>2. ASSUME NEW a \in Attempt, SweepPoll(h, a)
        PROVE  HandlerOK(h)'
    BY <1>b, <2>2 DEF SweepPoll, StartReconcile, HandlerOK, dbVars
  <2>3. ASSUME NEW a \in Attempt, RefundRequest(h, a)
        PROVE  HandlerOK(h)'
    BY <1>b, <2>3 DEF RefundRequest, IdleHandler, HandlerOK
  <2>4. CASE FetchAnswered(h)
    <3>1. /\ handler'[h].pc = "decide" /\ handler'[h].att = handler[h].att
          /\ handler'[h].got = payment[handler[h].att]
      BY <1>b, <2>4 DEF FetchAnswered, HandlerState
    <3>2. UNCHANGED <<attempt, payment>>
      BY <2>4 DEF FetchAnswered, dbVars
    <3> QED
      BY <1>b, <2>4, <3>1, <3>2 DEF FetchAnswered, HandlerOK
  <2>5. CASE \/ FetchFailed(h) \/ ReconcileCaptures(h) \/ ReconcileFails(h) \/ ReconcileNoOp(h)
             \/ RefundRefused(h) \/ RefundCallFailed(h) \/ RefundRecorded(h)
    BY <1>c, <2>5 DEF FetchFailed, ReconcileCaptures, ReconcileFails, ReconcileNoOp,
         RefundRefused, RefundCallFailed, RefundRecorded
  <2>6. CASE ReconcileAnomaly(h) \/ RefundAtProvider(h)
    <3>1. HandlerDone(h) \/ \E pc \in {"anomaly", "anomaly_ok", "human_ok"} : HandlerAt(h, pc)
      BY <2>6 DEF ReconcileAnomaly, RefundAtProvider
    <3>2. ASSUME NEW pc \in {"anomaly", "anomaly_ok", "human_ok"}, HandlerAt(h, pc)
          PROVE  HandlerOK(h)'
      <4>1. /\ handler'[h].pc = pc /\ handler'[h].att = handler[h].att
            /\ handler'[h].got = handler[h].got
        BY <1>b, <3>2 DEF HandlerAt, HandlerState
      <4>2. handler[h].att \in Attempt
        BY <1>b, <2>6 DEF ReconcileAnomaly, RefundAtProvider, Refunding, HandlerOK
      <4> QED
        BY <1>b, <1>d, <4>1, <4>2 DEF HandlerOK
    <3> QED
      BY <1>c, <3>1, <3>2
  <2> QED
    BY <2>1, <2>2, <2>3, <2>4, <2>5, <2>6 DEF HandlerStep
<1>2. \A g \in Handler : g # h => handler'[g] = handler[g]
  BY <1>b DEF HandlerStep, Webhook, SweepPoll, RefundRequest, FetchAnswered, FetchFailed,
       ReconcileCaptures, ReconcileAnomaly, ReconcileFails, ReconcileNoOp, RefundAtProvider,
       RefundRefused, RefundCallFailed, RefundRecorded, StartReconcile, HandlerDone, HandlerAt
<1> QED
  BY <1>a, <1>1, <1>2, HandlerKept DEF HandlerInv

-----------------------------------------------------------------------------
(* The invariant is inductive.                                             *)

\* Only the executor and a crash write `run`, and but for the actions that queue a job
\* nothing else touches the executor at all.
LEMMA ExecutorAlone ==
  ASSUME [Next]_vars, ~ExecutorStep, ~Crash
  PROVE  /\ run' = run
         /\ \/ UNCHANGED execVars
            \/ \E s \in Settlement : Approve(s) \/ SweepRekick(s) \/ SweepResume(s)
<1>1. ASSUME NEW h \in Handler, NEW a \in Attempt, NEW type \in EventType, Webhook(h, type, a)
      PROVE  UNCHANGED execVars
  BY <1>1 DEF Webhook
<1>2. ASSUME NEW h \in Handler, NEW a \in Attempt, SweepPoll(h, a) \/ RefundRequest(h, a)
      PROVE  UNCHANGED execVars
  BY <1>2 DEF SweepPoll, RefundRequest
<1>3. ASSUME NEW h \in Handler,
             FetchAnswered(h) \/ FetchFailed(h) \/ ReconcileCaptures(h) \/ ReconcileAnomaly(h)
      PROVE  UNCHANGED execVars
  BY <1>3 DEF FetchAnswered, FetchFailed, ReconcileCaptures, ReconcileAnomaly
<1>4. ASSUME NEW h \in Handler, ReconcileFails(h) \/ ReconcileNoOp(h) PROVE UNCHANGED execVars
  BY <1>4 DEF ReconcileFails, ReconcileNoOp
<1>5. ASSUME NEW h \in Handler,
             RefundAtProvider(h) \/ RefundRefused(h) \/ RefundCallFailed(h) \/ RefundRecorded(h)
      PROVE  UNCHANGED execVars
  BY <1>5 DEF RefundAtProvider, RefundRefused, RefundCallFailed, RefundRecorded
<1>6. ASSUME NEW h \in Handler, HandlerStep(h) PROVE UNCHANGED execVars
  BY <1>1, <1>2, <1>3, <1>4, <1>5, <1>6 DEF HandlerStep
<1>7. ASSUME NEW s \in Settlement, Approve(s) \/ SweepRekick(s) \/ SweepResume(s) PROVE run' = run
  BY <1>7 DEF Approve, SweepRekick, SweepResume
<1>8. ASSUME NEW s \in Settlement, NEW expired \in BOOLEAN, SweepAbandonApproved(s, expired)
      PROVE  UNCHANGED execVars
  BY <1>8 DEF SweepAbandonApproved
<1>9. ASSUME NEW a \in Attempt, SweepFailOrphan(a) PROVE UNCHANGED execVars
  BY <1>9 DEF SweepFailOrphan
<1>10. ASSUME DriverPays PROVE UNCHANGED execVars
  BY <1>10 DEF DriverPays
<1>11. ASSUME NEW a \in Attempt, LinkPaid(a) PROVE UNCHANGED execVars
  BY <1>11 DEF LinkPaid
<1>12. ASSUME NEW a \in Attempt, NEW status \in PaymentStatus, PaymentResolves(a, status)
       PROVE  UNCHANGED execVars
  BY <1>12 DEF PaymentResolves
<1>13. ASSUME UNCHANGED vars PROVE UNCHANGED execVars
  BY <1>13 DEF vars
<1>14. UNCHANGED execVars
       \/ \E s \in Settlement : Approve(s) \/ SweepRekick(s) \/ SweepResume(s)
  <2>1. \A s \in Settlement :
          SettlementStep(s) => UNCHANGED execVars \/ Approve(s) \/ SweepRekick(s) \/ SweepResume(s)
    BY <1>8 DEF SettlementStep
  <2>2. ProviderStep => UNCHANGED execVars
    BY <1>10, <1>11, <1>12 DEF ProviderStep
  <2> QED
    BY <1>6, <1>9, <1>13, <2>1, <2>2 DEF Next
<1> QED
  BY <1>7, <1>14 DEF execVars

LEMMA StepInv == IInv /\ [Next]_vars => IInv'
<1> SUFFICES ASSUME IInv, [Next]_vars PROVE IInv'
  OBVIOUS
<1>1. DbStep
  BY DbStepNext
<1>2. TypeOK'
  BY TypeStep DEF IInv
<1>3. CaptureAgreement' /\ CaptureIsBacked' /\ ChargeNeedsSettling'
  BY <1>1, CaptureAgreementStep, CaptureIsBackedStep, ChargeNeedsSettlingStep
<1>4. AttemptBudget' /\ PaymentIsFindable' /\ RowInv'
  BY <1>1, AttemptBudgetStep, PaymentIsFindableStep, RowInvStep
<1>5. RunInv' /\ CountInv'
  <2>1. CASE ExecutorStep
    BY <2>1, RunStepExecutor
  <2>2. CASE Crash
    BY <2>2, IdleRunInv DEF Crash
  <2>3. CASE ~ExecutorStep /\ ~Crash
    <3>1. UNCHANGED run
      BY <2>3, ExecutorAlone
    <3> QED
      BY <1>1, <3>1, RunStandsStill
  <2> QED
    BY <2>1, <2>2, <2>3
<1>6. HandlerInv'
  <2>1. ASSUME NEW h \in Handler, HandlerStep(h) PROVE HandlerInv'
    BY <2>1, HandlerStepInv
  <2>2. CASE Crash
    BY <2>2 DEF Crash, IdleHandler, HandlerInv, HandlerOK
  <2>3. CASE ~(\E h \in Handler : HandlerStep(h)) /\ ~Crash
    <3>1. UNCHANGED handler
      BY <2>3 DEF Next, ExecutorStep, RunExecute, RunReject, RunResume, RunLoop, RunOrderCreated,
           RunOrderFailed, RunCaptured, RunCaptureThrows, RunDriveFailed, RunLinkIssued,
           RunLinkFailed, SettlementStep, Approve, SweepRekick, SweepResume,
           SweepAbandonApproved, SweepFailOrphan, ProviderStep, DriverPays, LinkPaid,
           PaymentResolves, vars
    <3> QED
      BY <1>1, <3>1, HandlerKept DEF HandlerInv
  <2> QED
    BY <2>1, <2>2, <2>3
<1> QED
  BY <1>2, <1>3, <1>4, <1>5, <1>6 DEF IInv

\* The whole inductive invariant holds of every reachable state.
THEOREM InductiveInvariant == Spec => []IInv
  BY InitInv, StepInv, PTL DEF Spec

\* Type correctness: every row and continuation is one the code can hold (TypeOK).
THEOREM TypeCorrect == Spec => []TypeOK
<1>1. IInv => TypeOK
  BY DEF IInv
<1> QED
  BY <1>1, InductiveInvariant, PTL

\* applyCapture is all or nothing: settlement, attempt and ledger agree on who was
\* captured and no settlement is captured twice, for any number of settlements,
\* attempts, handlers, faults and crashes.
THEOREM CapturesAgree == Spec => []CaptureAgreement
<1>1. IInv => CaptureAgreement
  BY DEF IInv
<1> QED
  BY <1>1, InductiveInvariant, PTL

\* No capture is recorded that the provider did not take (reconcileByOrder).
THEOREM CapturesAreBacked == Spec => []CaptureIsBacked
<1>1. IInv => CaptureIsBacked
  BY DEF IInv
<1> QED
  BY <1>1, InductiveInvariant, PTL

\* Nothing is charged before, or without, entering settling (runOnce).
THEOREM ChargesNeedSettling == Spec => []ChargeNeedsSettling
<1>1. IInv => ChargeNeedsSettling
  BY DEF IInv
<1> QED
  BY <1>1, InductiveInvariant, PTL

\* one_active_attempt never stops a run: one loop owns a settlement (runAttemptLoop).
THEOREM LoopOwns == Spec => []LoopOwnsSettlement
<1>1. IInv => LoopOwnsSettlement
  BY DEF IInv, RunInv
<1> QED
  BY <1>1, InductiveInvariant, PTL

\* The budget of attempts and the single link survive every crash and resume
\* (runAttemptLoop, resumeSettlingRun), whatever MAX_ATTEMPTS is.
THEOREM BudgetKept == Spec => []AttemptBudget
<1>1. IInv => AttemptBudget
  BY DEF IInv
<1> QED
  BY <1>1, InductiveInvariant, PTL

\* Money moves only against an order or a link that is on a row (runAttemptLoop).
THEOREM PaymentsAreFindable == Spec => []PaymentIsFindable
<1>1. IInv => PaymentIsFindable
  BY DEF IInv
<1> QED
  BY <1>1, InductiveInvariant, PTL

\* No writer overwrites a terminal row, stale handlers and late drivers included.
THEOREM TerminalStaysFinal == Spec => TerminalIsFinal
<1>1. ASSUME IInv, [Next]_vars
      PROVE  /\ \A s \in Settlement : settlement[s] \in TerminalSettlement =>
                  settlement'[s] = settlement[s]
             /\ \A a \in Attempt : attempt[a].state \in AttemptState \ LiveAttempt =>
                  attempt'[a].state = attempt[a].state
  <2>1. DbStep
    BY <1>1, DbStepNext
  <2>2. ASSUME NEW s \in Settlement, settlement[s] \in TerminalSettlement
        PROVE  settlement'[s] = settlement[s]
    <3>1. CASE SettlementMoves
      BY <1>1, <2>2, <3>1 DEF SettlementMoves, TerminalSettlement, ReleasedSettlement, IInv, TypeOK
    <3>2. CASE AttemptCaptured
      BY <1>1, <2>2, <3>2 DEF AttemptCaptured, TerminalSettlement, ReleasedSettlement, IInv, TypeOK
    <3>3. CASE ~SettlementMoves /\ ~AttemptCaptured
      BY <2>1, <3>3 DEF DbStep, RowInserts, OrderWritten, AttemptFails, PaymentMoves, NothingMoves
    <3> QED
      BY <3>1, <3>2, <3>3
  <2>3. ASSUME NEW a \in Attempt, attempt[a].state \in AttemptState \ LiveAttempt
        PROVE  attempt'[a].state = attempt[a].state
    <3>1. ~(RowInserts /\ a = FreeRow)
      BY <1>1, <2>3, FreeRowBlank DEF RowInserts, AttemptState
    <3> QED
      BY <1>1, <2>1, <2>3, <3>1, RowStep DEF RowKept, Live
  <2> QED
    BY <2>2, <2>3
<1> QED
  BY <1>1, InductiveInvariant, PTL DEF TerminalIsFinal, Spec

-----------------------------------------------------------------------------
(* The dedup set, whose invariant is inductive on top of the first one.    *)

\* kick appends the settlement's job only when its id is not in the set.
LEMMA KickExact ==
  ASSUME TypeOK, InFlightExact, NEW s \in Settlement, NEW kind, Kick(s, kind), UNCHANGED run,
         run.sid \in Settlement \cup {NoSettlement}
  PROVE  InFlightExact'
<1>1. CASE s \in inFlight
  BY <1>1 DEF Kick, InFlightExact
<1>2. CASE s \notin inFlight
  <2>1. queue' = Append(queue, [kind |-> kind, sid |-> s]) /\ inFlight' = inFlight \cup {s}
    BY <1>2 DEF Kick
  <2>2. queue \in Seq(Job) /\ Len(queue) \in Nat /\ DOMAIN queue = 1 .. Len(queue)
    BY DEF TypeOK
  <2>3. /\ DOMAIN queue' = 1 .. Len(queue) + 1
        /\ \A i \in DOMAIN queue : queue'[i] = queue[i]
        /\ queue'[Len(queue) + 1].sid = s
    BY <2>1, <2>2
  <2>4. (\A i \in DOMAIN queue : queue[i].sid # s) /\ run.sid # s
    BY <1>2, ConstantAssumption DEF InFlightExact
  <2>5. \A i \in DOMAIN queue' : i \in DOMAIN queue \/ i = Len(queue) + 1
    BY <2>2, <2>3
  <2>6. inFlight' = {queue'[i].sid : i \in DOMAIN queue'} \cup ({run.sid} \ {NoSettlement})
    <3>1. {queue'[i].sid : i \in DOMAIN queue'} = {queue[i].sid : i \in DOMAIN queue} \cup {s}
      BY <2>2, <2>3, <2>5
    <3> QED
      BY <2>1, <3>1 DEF InFlightExact
  <2>7. \A i, j \in DOMAIN queue' : queue'[i].sid = queue'[j].sid => i = j
    BY <2>3, <2>4, <2>5 DEF InFlightExact
  <2>8. \A i \in DOMAIN queue' : queue'[i].sid # run.sid
    BY <2>3, <2>4, <2>5 DEF InFlightExact
  <2> QED
    BY <2>6, <2>7, <2>8 DEF InFlightExact
<1> QED
  BY <1>1, <1>2

\* A queued job is one of a settlement.
LEMMA QueuedSid ==
  ASSUME TypeOK, NEW i \in DOMAIN queue
  PROVE  queue[i].sid \in Settlement /\ queue[i].sid # NoSettlement
<1>1. queue[i] \in Job
  BY DEF TypeOK
<1> QED
  BY <1>1, ConstantAssumption DEF Job

\* A job leaves the head of the chain, into the run or dropped.
LEMMA HeadExact ==
  ASSUME TypeOK, InFlightExact, queue # <<>>, run = IdleRun,
         queue' = Tail(queue),
         \/ run'.sid = Head(queue).sid /\ inFlight' = inFlight
         \/ run'.sid = NoSettlement /\ inFlight' = inFlight \ {Head(queue).sid}
  PROVE  InFlightExact'
<1>1. queue \in Seq(Job) /\ Len(queue) \in Nat \ {0} /\ DOMAIN queue = 1 .. Len(queue)
  BY DEF TypeOK
<1>2. /\ DOMAIN queue' = 1 .. Len(queue) - 1 /\ Head(queue) = queue[1]
      /\ \A i \in DOMAIN queue' : i + 1 \in DOMAIN queue /\ queue'[i] = queue[i + 1]
  BY <1>1
<1>3. \A i \in DOMAIN queue : i = 1 \/ (i - 1 \in DOMAIN queue' /\ queue[i] = queue'[i - 1])
  BY <1>1, <1>2
<1>4. \A i \in DOMAIN queue : queue[i].sid \in Settlement
  BY QueuedSid
<1>5. \A i \in DOMAIN queue' : queue'[i].sid # Head(queue).sid /\ queue'[i].sid \in Settlement
  BY <1>1, <1>2, <1>4 DEF InFlightExact
<1>6. \A i, j \in DOMAIN queue' : queue'[i].sid = queue'[j].sid => i = j
  BY <1>1, <1>2 DEF InFlightExact
<1>7. {queue[i].sid : i \in DOMAIN queue}
        = {queue'[i].sid : i \in DOMAIN queue'} \cup {Head(queue).sid}
  <2>1. \A x : (\E i \in DOMAIN queue : x = queue[i].sid) =>
                (\E i \in DOMAIN queue' : x = queue'[i].sid) \/ x = Head(queue).sid
    BY <1>2, <1>3
  <2>2. \A x : (\E i \in DOMAIN queue' : x = queue'[i].sid) =>
                \E i \in DOMAIN queue : x = queue[i].sid
    BY <1>2
  <2>3. \E i \in DOMAIN queue : Head(queue).sid = queue[i].sid
    BY <1>1, <1>2
  <2> DEFINE Was == {queue[i].sid : i \in DOMAIN queue}
             Is == {queue'[i].sid : i \in DOMAIN queue'}
  <2>4. \A x : x \in Was <=> \E i \in DOMAIN queue : x = queue[i].sid
    OBVIOUS
  <2>5. \A x : x \in Is <=> \E i \in DOMAIN queue' : x = queue'[i].sid
    OBVIOUS
  <2> HIDE DEF Was, Is
  <2>6. \A x : x \in Was <=> x \in Is \cup {Head(queue).sid}
    <3>1. \A x : x \in Was => x \in Is \/ x = Head(queue).sid
      BY <2>1, <2>4, <2>5
    <3>2. \A x : x \in Is => x \in Was
      BY <2>2, <2>4, <2>5
    <3>3. Head(queue).sid \in Was
      BY <2>3, <2>4
    <3> QED
      BY <3>1, <3>2, <3>3
  <2>7. Was = Is \cup {Head(queue).sid}
    BY <2>6
  <2> QED
    BY <2>7 DEF Was, Is
<1>8. inFlight = {queue[i].sid : i \in DOMAIN queue}
  BY DEF InFlightExact, IdleRun
<1>9. Head(queue).sid \in Settlement
  BY <1>1, <1>2, <1>4
<1>10. inFlight' = {queue'[i].sid : i \in DOMAIN queue'} \cup ({run'.sid} \ {NoSettlement})
  BY <1>5, <1>7, <1>8, <1>9, ConstantAssumption
<1>11. \A i \in DOMAIN queue' : queue'[i].sid # run'.sid
  BY <1>5, ConstantAssumption
<1> QED
  BY <1>6, <1>10, <1>11 DEF InFlightExact

LEMMA InFlightStep == IInv /\ InFlightExact /\ [Next]_vars => InFlightExact'
<1> SUFFICES ASSUME IInv, InFlightExact, [Next]_vars PROVE InFlightExact'
  OBVIOUS
<1>a. TypeOK /\ run \in RunState /\ (run.pc = "idle" => run = IdleRun)
  BY DEF IInv, RunInv, TypeOK
<1>1. CASE RunExecute \/ RunReject \/ RunResume
  <2>1. run = IdleRun /\ queue # <<>>
    BY <1>1, <1>a DEF RunExecute, RunReject, RunResume, NextJob
  <2>2. queue' = Tail(queue) /\
          \/ run'.sid = Head(queue).sid /\ inFlight' = inFlight
          \/ run'.sid = NoSettlement /\ inFlight' = inFlight \ {Head(queue).sid}
    BY <1>1, <2>1 DEF RunExecute, RunReject, RunResume, Dequeue, DropJob, IdleRun
  <2> QED
    BY <1>a, <2>1, <2>2, HeadExact
<1>2. ASSUME UNCHANGED <<queue, inFlight>>, run'.sid = run.sid
      PROVE  InFlightExact'
  BY <1>2 DEF InFlightExact
<1>3. ASSUME FinishRun, run.pc # "idle"
      PROVE  InFlightExact'
  <2>1. run.sid \in Settlement
    BY <1>3 DEF IInv, RunInv
  <2>2. UNCHANGED queue /\ inFlight' = inFlight \ {run.sid} /\ run'.sid = NoSettlement
    BY <1>3 DEF FinishRun, IdleRun
  <2>3. inFlight = {queue[i].sid : i \in DOMAIN queue} \cup {run.sid}
    BY <2>1, ConstantAssumption DEF InFlightExact
  <2>4. run.sid \notin {queue[i].sid : i \in DOMAIN queue}
    BY DEF InFlightExact
  <2>5. inFlight' = {queue[i].sid : i \in DOMAIN queue}
    BY <2>2, <2>3, <2>4
  <2> QED
    BY <1>a, <2>2, <2>5, QueuedSid DEF InFlightExact
<1>4. CASE RunLoop \/ RunOrderCreated \/ RunOrderFailed \/ RunCaptured \/ RunDriveFailed
  <2>1. \/ FinishRun /\ run.pc # "idle"
        \/ UNCHANGED <<queue, inFlight>> /\ run'.sid = run.sid
    BY <1>4, <1>a DEF RunLoop, RunOrderCreated, RunOrderFailed, RunCaptured, RunDriveFailed,
         NextIteration, RunState, execVars
  <2> QED
    BY <1>2, <1>3, <2>1
<1>5. CASE RunCaptureThrows \/ RunLinkIssued \/ RunLinkFailed
  BY <1>3, <1>5 DEF RunCaptureThrows, RunLinkIssued, RunLinkFailed
<1>6. ASSUME NEW s \in Settlement, Approve(s) \/ SweepRekick(s) \/ SweepResume(s)
      PROVE  InFlightExact'
  BY <1>a, <1>6, KickExact DEF Approve, SweepRekick, SweepResume, RunState
<1>7. CASE Crash
  <2>1. queue' = <<>> /\ inFlight' = {} /\ run'.sid = NoSettlement
    BY <1>7 DEF Crash, IdleRun
  <2>2. DOMAIN queue' = {}
    BY <2>1
  <2> QED
    BY <2>1, <2>2 DEF InFlightExact
<1>8. CASE /\ ~ExecutorStep /\ ~Crash
           /\ ~\E s \in Settlement : Approve(s) \/ SweepRekick(s) \/ SweepResume(s)
  <2>1. UNCHANGED <<queue, inFlight, run>>
    BY <1>8, ExecutorAlone DEF execVars
  <2> QED
    BY <1>2, <2>1
<1> QED
  BY <1>1, <1>4, <1>5, <1>6, <1>7, <1>8 DEF ExecutorStep

\* The executor's dedup set holds exactly the queued and running settlements, each
\* once, through every kick, throw and crash (createExecutor's kick).
THEOREM DedupIsExact == Spec => []InFlightExact
<1>1. Init => InFlightExact
  <2>1. Init => queue = <<>> /\ inFlight = {} /\ run.sid = NoSettlement
    BY DEF Init, IdleRun
  <2> QED
    BY <2>1 DEF InFlightExact
<1> QED
  BY <1>1, InFlightStep, InductiveInvariant, PTL DEF Spec

-----------------------------------------------------------------------------
(* The payment engine implements PaymentPromise: each step of Execution is *)
(* one of the seven kinds of DbStep, and each kind is a step of the        *)
(* promise or a stutter.                                                   *)

LEMMA InitMaps == Init => Promise!Init
<1> SUFFICES ASSUME Init PROVE Promise!Init
  OBVIOUS
<1>1. \A s \in Settlement : AttemptsOf(s) = {} /\ ~HasCaptured(s)
  BY ConstantAssumption DEF Init, AttemptsOf, HasCaptured, NoRow
<1>2. \A s \in Settlement : Phase(s) = "open"
  BY DEF Init, Phase, ReleasedSettlement
<1>3. \A s \in Settlement : Charges(s) = {} /\ Winner(s) = NoAttempt
  BY <1>1 DEF Charges, Winner
<1> QED
  BY <1>2, <1>3 DEF Promise!Init

\* The winner is the captured attempt, and there is one only.
LEMMA WinnerFact ==
  ASSUME CaptureAgreement, NEW a \in Attempt, attempt[a].state = "captured"
  PROVE  Winner(attempt[a].sid) = a
<1> DEFINE s == attempt[a].sid
<1>1. a \in AttemptsOf(s) /\ HasCaptured(s)
  BY DEF AttemptsOf, HasCaptured
<1>2. \A b \in AttemptsOf(s) : attempt[b].state = "captured" => b = a
  BY DEF AttemptsOf, CaptureAgreement
<1> QED
  BY <1>1, <1>2 DEF Winner

LEMMA SameWinner ==
  ASSUME CaptureAgreement, CaptureAgreement', NEW s,
         \A a \in Attempt : attempt[a].sid = s \/ attempt'[a].sid = s =>
           /\ attempt'[a].state = "captured" <=> attempt[a].state = "captured"
           /\ attempt[a].state = "captured" => attempt'[a].sid = attempt[a].sid
  PROVE  Winner(s)' = Winner(s)
<1>1. HasCaptured(s)' <=> HasCaptured(s)
  BY DEF HasCaptured, AttemptsOf
<1>2. CASE HasCaptured(s)
  <2>1. PICK w \in Attempt : attempt[w].sid = s /\ attempt[w].state = "captured"
    BY <1>2 DEF HasCaptured, AttemptsOf
  <2>2. Winner(s) = w
    BY <2>1, WinnerFact
  <2>3. w \in AttemptsOf(s)' /\ attempt'[w].state = "captured" /\ attempt'[w].sid = s
    BY <2>1 DEF AttemptsOf
  <2>4. \A b \in AttemptsOf(s)' : attempt'[b].state = "captured" => b = w
    BY <2>3 DEF CaptureAgreement, AttemptsOf
  <2>5. Winner(s)' = w
    BY <1>1, <1>2, <2>3, <2>4 DEF Winner
  <2> QED
    BY <2>2, <2>5
<1>3. CASE ~HasCaptured(s)
  BY <1>1, <1>3 DEF Winner
<1> QED
  BY <1>2, <1>3

\* A step that leaves the three abstract functions as they were is a stutter.
LEMMA Stutter ==
  ASSUME \A s \in Settlement :
           Phase(s)' = Phase(s) /\ Charges(s)' = Charges(s) /\ Winner(s)' = Winner(s)
  PROVE  UNCHANGED Promise!vars
BY DEF Promise!vars

LEMMA StepMaps == IInv /\ IInv' /\ DbStep => [Promise!Next]_(Promise!vars)
<1> SUFFICES ASSUME IInv, IInv', DbStep PROVE Promise!Next \/ UNCHANGED Promise!vars
  OBVIOUS
<1>a. CaptureAgreement /\ CaptureAgreement' /\ TypeOK
  BY DEF IInv
<1>b. \A s \in Settlement : \A a \in AttemptsOf(s) : settlement[s] \in {"settling", "captured"}
  BY ConstantAssumption DEF IInv, ChargeNeedsSettling, AttemptsOf, NoRow
<1>1. CASE SettlementMoves
  <2>1. PICK s \in Settlement, to \in {"approved", "settling", "rejected", "abandoned"} :
          settlement[s] \in {"pending_approval", "approved"}
          /\ settlement' = [settlement EXCEPT ![s] = to]
    BY <1>1 DEF SettlementMoves
  <2>2. UNCHANGED <<attempt, payment>>
    BY <1>1 DEF SettlementMoves
  <2>3. \A t \in Settlement : Charges(t)' = Charges(t)
    BY <2>2 DEF Charges, AttemptsOf
  <2>4. \A t \in Settlement : Winner(t)' = Winner(t)
    BY <1>a, <2>2, SameWinner
  <2>5. /\ Phase(s) = "open"
        /\ Phase(s)' = IF to = "approved" THEN "open" ELSE IF to = "settling" THEN "settling" ELSE "closed"
        /\ \A t \in Settlement : t # s => Phase(t)' = Phase(t)
    BY <1>a, <2>1 DEF Phase, ReleasedSettlement, TypeOK
  <2>6. CASE to = "approved"
    <3>1. \A t \in Settlement : Phase(t)' = Phase(t)
      BY <2>5, <2>6
    <3> QED
      BY <2>3, <2>4, <3>1, Stutter
  <2>7. CASE to # "approved"
    <3>1. [t \in Settlement |-> Phase(t)'] = [[t \in Settlement |-> Phase(t)] EXCEPT ![s] = Phase(s)']
      BY <2>5
    <3>2. Promise!Settle(s) \/ Promise!Close(s)
      BY <2>3, <2>4, <2>5, <2>7, <3>1 DEF Promise!Settle, Promise!Close, Promise!Move
    <3> QED
      BY <3>2 DEF Promise!Next
  <2> QED
    BY <2>6, <2>7
<1>2. CASE RowInserts
  <2>1. FreeRow \in Attempt /\ attempt[FreeRow].state = "none" /\ payment[FreeRow] = "none"
        /\ attempt[FreeRow].sid \notin Settlement
    BY <1>2, FreeRowBlank DEF RowInserts
  <2>2. \A a \in Attempt : a # FreeRow => attempt'[a] = attempt[a]
    BY <1>2, RowInsertsFact
  <2>3. attempt'[FreeRow].state # "captured"
    BY <1>2, RowInsertsFact
  <2>4. UNCHANGED <<settlement, payment>>
    BY <1>2 DEF RowInserts
  <2>5. \A s \in Settlement : Charges(s)' = Charges(s)
    BY <2>1, <2>2, <2>4 DEF Charges, AttemptsOf
  <2>6. \A s \in Settlement : Winner(s)' = Winner(s)
    BY <1>a, <2>1, <2>2, <2>3, SameWinner
  <2>7. \A s \in Settlement : Phase(s)' = Phase(s)
    BY <2>4 DEF Phase
  <2> QED
    BY <2>5, <2>6, <2>7, Stutter
<1>3. CASE OrderWritten \/ AttemptFails
  <2>1. \A a \in Attempt : RowKept(a)
    BY <1>3, RowKeptStep
  <2>2. UNCHANGED <<settlement, payment>> /\ CapturesKept
    BY <1>3 DEF OrderWritten, AttemptFails
  <2>3. \A a \in Attempt : attempt'[a].state = "captured" <=> attempt[a].state = "captured"
    BY <1>a, <2>2 DEF CaptureAgreement, CapturesKept, Ledgered
  <2>4. \A s \in Settlement : Charges(s)' = Charges(s)
    BY <2>1, <2>2 DEF Charges, AttemptsOf, RowKept
  <2>5. \A s \in Settlement : Winner(s)' = Winner(s)
    BY <1>a, <2>1, <2>3, SameWinner DEF RowKept
  <2>6. \A s \in Settlement : Phase(s)' = Phase(s)
    BY <2>2 DEF Phase
  <2> QED
    BY <2>4, <2>5, <2>6, Stutter
<1>4. CASE AttemptCaptured
  <2>1. PICK a \in Attempt :
           /\ Live(a) /\ payment[a] \in {"captured", "refunded"}
           /\ settlement[attempt[a].sid] = "settling" /\ ~HasCaptured(attempt[a].sid)
           /\ attempt' = [attempt EXCEPT ![a].state = "captured"]
           /\ settlement' = [settlement EXCEPT ![attempt[a].sid] = "captured"]
    BY <1>4 DEF AttemptCaptured
  <2>a. attempt[a] \in Row /\ attempt[a].sid \in Settlement
    BY <1>a, <2>1, RowFact DEF Live, LiveAttempt, AttemptState, Row
  <2>2. PICK s \in Settlement : s = attempt[a].sid
    BY <2>a
  <2>3. /\ attempt'[a].state = "captured" /\ attempt'[a].sid = s
        /\ \A b \in Attempt : b # a => attempt'[b] = attempt[b]
    BY <2>1, <2>2, <2>a, RowMovesFact
  <2>4. UNCHANGED payment
    BY <1>4 DEF AttemptCaptured
  <2>5. /\ Phase(s) = "settling" /\ Phase(s)' = "captured"
        /\ \A t \in Settlement : t # s => Phase(t)' = Phase(t)
    BY <1>a, <2>1, <2>2 DEF Phase, TypeOK
  <2>6. \A t \in Settlement : Charges(t)' = Charges(t)
    <3>1. \A b \in Attempt : attempt'[b].sid = attempt[b].sid
      BY <2>2, <2>3
    <3> QED
      BY <2>4, <3>1 DEF Charges, AttemptsOf
  <2>7. a \in Charges(s)
    BY <2>1, <2>2 DEF Charges, AttemptsOf
  <2>8. attempt'[a].sid = s /\ Winner(s)' = a
    <3>1. a \in AttemptsOf(s)' /\ HasCaptured(s)'
      BY <2>3 DEF AttemptsOf, HasCaptured
    <3>2. \A b \in AttemptsOf(s)' : attempt'[b].state = "captured" => b = a
      BY <1>a, <2>3 DEF AttemptsOf, CaptureAgreement
    <3> QED
      BY <2>3, <3>1, <3>2 DEF Winner
  <2>9. \A t \in Settlement : t # s => Winner(t)' = Winner(t)
    BY <1>a, <2>2, <2>3, SameWinner
  <2>10. [t \in Settlement |-> Phase(t)'] = [[t \in Settlement |-> Phase(t)] EXCEPT ![s] = "captured"]
    BY <2>5
  <2>11. [t \in Settlement |-> Winner(t)'] = [[t \in Settlement |-> Winner(t)] EXCEPT ![s] = a]
    BY <2>8, <2>9
  <2>12. Promise!Capture(s, a)
    BY <2>2, <2>5, <2>6, <2>7, <2>10, <2>11 DEF Promise!Capture, Promise!Move
  <2> QED
    BY <2>2, <2>12 DEF Promise!Next
<1>5. CASE PaymentMoves
  <2>1. PICK a \in Attempt, status \in PaymentStatus :
           /\ payment[a] \in {"captured", "refunded"} => status \in {"captured", "refunded"}
           /\ payment[a] = "none" => attempt[a].method = "payment_link" \/ attempt[a].order
           /\ payment' = [payment EXCEPT ![a] = status]
    BY <1>5 DEF PaymentMoves
  <2>2. UNCHANGED <<settlement, attempt>>
    BY <1>5 DEF PaymentMoves
  <2>3. \A s \in Settlement : Phase(s)' = Phase(s) /\ Winner(s)' = Winner(s)
    BY <1>a, <2>2, SameWinner DEF Phase
  <2>4. \A b \in Attempt : payment'[b] = IF a = b THEN status ELSE payment[b]
    BY <1>a, <2>1 DEF TypeOK
  <2>5. CASE payment[a] \in {"captured", "refunded"} \/ status \notin {"captured", "refunded"}
    <3>1. \A s \in Settlement : Charges(s)' = Charges(s)
      BY <2>1, <2>2, <2>4, <2>5 DEF Charges, AttemptsOf
    <3> QED
      BY <2>3, <3>1, Stutter
  <2>6. CASE payment[a] \notin {"captured", "refunded"} /\ status \in {"captured", "refunded"}
    <3>1. attempt[a].method = "payment_link" \/ attempt[a].order
      BY <2>1 DEF IInv, PaymentIsFindable
    <3>a. attempt[a].sid \in Settlement
      BY <1>a, <3>1, RowFact DEF Row
    <3>2. PICK s \in Settlement : s = attempt[a].sid
      BY <3>a
    <3>3. settlement[s] \in {"settling", "captured"}
      BY <1>b, <3>2 DEF AttemptsOf
    <3>4. Phase(s) \in {"settling", "captured"}
      BY <3>3 DEF Phase
    <3>5. \A t \in Settlement : a \notin Charges(t)
      BY <2>6 DEF Charges
    <3>6. Charges(s)' = Charges(s) \cup {a}
      BY <2>2, <2>4, <2>6, <3>2 DEF Charges, AttemptsOf
    <3>7. \A t \in Settlement : t # s => Charges(t)' = Charges(t)
      BY <2>2, <2>4, <3>2 DEF Charges, AttemptsOf
    <3>8. [t \in Settlement |-> Charges(t)'] =
            [[t \in Settlement |-> Charges(t)] EXCEPT ![s] = @ \cup {a}]
      BY <3>2, <3>6, <3>7
    <3>9. Promise!Take(s, a)
      BY <2>3, <3>2, <3>4, <3>5, <3>8 DEF Promise!Take
    <3> QED
      BY <3>2, <3>9 DEF Promise!Next
  <2> QED
    BY <2>5, <2>6
<1>6. CASE NothingMoves
  <2>1. \A s \in Settlement :
          Phase(s)' = Phase(s) /\ Charges(s)' = Charges(s) /\ Winner(s)' = Winner(s)
    BY <1>a, <1>6, SameWinner DEF NothingMoves, Phase, Charges, AttemptsOf
  <2> QED
    BY <2>1, Stutter
<1> QED
  BY <1>1, <1>2, <1>3, <1>4, <1>5, <1>6 DEF DbStep

\* The engine implements the promise: a settlement settles once, is charged only
\* then, and is captured once, for a charge of its own (executor.ts, reconcile.ts,
\* sweep.ts together).
THEOREM ImplementsPromise == Spec => KeepsPromise
<1>1. IInv /\ IInv' /\ [Next]_vars => [Promise!Next]_(Promise!vars)
  BY DbStepNext, StepMaps
<1> QED
  BY <1>1, InitMaps, InductiveInvariant, PTL DEF Spec, KeepsPromise, Promise!Spec
=============================================================================
