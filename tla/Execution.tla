----------------------------- MODULE Execution ------------------------------
(***************************************************************************)
(* The payment engine of the facilitator: the executor's single promise    *)
(* chain (executor.ts), the reconcilers started by webhooks and by the     *)
(* sweep (reconcile.ts, routes/webhook.ts, sweep.ts), the human refund     *)
(* route (routes/refund.ts) and, as the environment, the payment provider. *)
(*                                                                         *)
(* One action is one uninterrupted stretch of JavaScript between two       *)
(* awaits, with the transactions it commits.  Where such a stretch commits *)
(* several transactions a crash may fall between them: the executor then   *)
(* stands at a Sync point, where only its own next step or a crash is      *)
(* possible.                                                               *)
(***************************************************************************)
EXTENDS Naturals, Sequences, FiniteSets, StateMachine

CONSTANTS
  Settlement,      \* settlement rows
  Attempt,         \* ids for rows of settlement_attempts (a bound on their number)
  Handler,         \* concurrent request handlers and sweep ticks (a bound)
  NoSettlement, NoAttempt,
  MAX_ATTEMPTS,    \* checkout-driver attempts per settlement
  maxApprovedKicks,
  MaxFaults,       \* bound on failing provider calls
  MaxCrashes       \* bound on process crashes

ASSUME ConstantAssumption ==
  /\ IsFiniteSet(Attempt)
  /\ NoSettlement \notin Settlement /\ NoAttempt \notin Attempt
  /\ MAX_ATTEMPTS \in Nat \ {0} /\ maxApprovedKicks \in Nat
  /\ MaxFaults \in Nat /\ MaxCrashes \in Nat

VARIABLES
  settlement,      \* settlements.state
  kickCount,       \* settlements.kick_count
  attempt,         \* rows of settlement_attempts
  ledger,          \* the money events on ledger_events, as a set
  webhookEvents,   \* claimed event ids (webhook_events)
  queue,           \* kicks chained on the executor's promise, not yet started
  inFlight,        \* the executor's per-settlement dedup set
  run,             \* the executor run in progress
  handler,         \* the local state of each handler suspended at an await
  payment,         \* the provider: the payment made against each attempt's order
  faults, crashes

dbVars == <<settlement, kickCount, attempt, ledger, webhookEvents>>
execVars == <<queue, inFlight, run>>
vars == <<dbVars, execVars, handler, payment, faults, crashes>>

-----------------------------------------------------------------------------
NoRow == [sid |-> NoSettlement, method |-> "none", state |-> "none", order |-> FALSE]
Row == [sid : Settlement, method : {"checkout_driver", "payment_link"},
        state : AttemptState, order : BOOLEAN]

Job == [kind : {"execute", "resume"}, sid : Settlement]
IdleRun == [pc |-> "idle", sid |-> NoSettlement, att |-> NoAttempt, num |-> 0]
IdleHandler == [pc |-> "idle", att |-> NoAttempt, seen |-> "none", got |-> "none"]

RunState ==
  [pc : {"idle", "loop", "order", "driving", "link"},
   sid : Settlement \cup {NoSettlement}, att : Attempt \cup {NoAttempt}, num : Nat]
PaymentStatus == {"none", "created", "captured", "failed", "refunded"}
HandlerState ==
  [pc : {"idle", "fetch", "decide", "anomaly", "anomaly_ok", "human", "human_ok"},
   att : Attempt \cup {NoAttempt}, seen : AttemptState \cup {"none"}, got : PaymentStatus]
EventType == {"captured", "failed", "refunded"}
LedgerType == {"attempt_initiated", "payment_captured", "payment_failed",
               "payment_link_issued", "anomaly_refund_issued", "refund_issued"}

AttemptsOf(s) == {a \in Attempt : attempt[a].sid = s}
DriverAttempts(s) == {a \in AttemptsOf(s) : attempt[a].method = "checkout_driver"}
Live(a) == attempt[a].state \in LiveAttempt
HasLiveAttempt(s) == \E a \in AttemptsOf(s) : Live(a)          \* one_active_attempt
HasCaptured(s) == \E a \in AttemptsOf(s) : attempt[a].state = "captured"
FreeRow == CHOOSE a \in Attempt : attempt[a] = NoRow
RowLeft == \E a \in Attempt : attempt[a] = NoRow

Event(type, a) == [type |-> type, att |-> a]
Ledgered(type, a) == Event(type, a) \in ledger

Init ==
  /\ settlement = [s \in Settlement |-> "pending_approval"]
  /\ kickCount = [s \in Settlement |-> 0]
  /\ attempt = [a \in Attempt |-> NoRow]
  /\ ledger = {}
  /\ webhookEvents = {}
  /\ queue = <<>>
  /\ inFlight = {}
  /\ run = IdleRun
  /\ handler = [h \in Handler |-> IdleHandler]
  /\ payment = [a \in Attempt |-> "none"]
  /\ faults = 0
  /\ crashes = 0

-----------------------------------------------------------------------------
(* The executor's queue: kick, and the end of a run.                       *)

\* Mutant of Kick: no dedup against queued and running settlements.
KickNoDedup(s, kind) ==
  queue' = Append(queue, [kind |-> kind, sid |-> s]) /\ inFlight' = inFlight \cup {s}

Kick(s, kind) ==
  IF s \in inFlight
    THEN UNCHANGED <<queue, inFlight>>
    ELSE /\ queue' = Append(queue, [kind |-> kind, sid |-> s])
         /\ inFlight' = inFlight \cup {s}

\* Mutant of FinishRun: the id is left in the dedup set.
FinishRunKeepsId == run' = IdleRun /\ UNCHANGED <<queue, inFlight>>

\* .finally(() => inFlight.delete(id)): whether the run returned or threw.
FinishRun ==
  /\ run' = IdleRun
  /\ inFlight' = inFlight \ {run.sid}
  /\ UNCHANGED queue

\* The routes that approve a settlement commit, then kick.
Approve(s) ==
  /\ settlement[s] = "pending_approval"
  /\ settlement' = [settlement EXCEPT ![s] = "approved"]
  /\ Kick(s, "execute")
  /\ UNCHANGED <<kickCount, attempt, ledger, webhookEvents, run, handler,
                 payment, faults, crashes>>

-----------------------------------------------------------------------------
(* The executor's run.                                                     *)

\* The queue's next job starts; its job is gone from the chain, its id stays in inFlight.
Dequeue(pc, num) ==
  /\ queue' = Tail(queue)
  /\ run' = [pc |-> pc, sid |-> Head(queue).sid, att |-> NoAttempt, num |-> num]
  /\ UNCHANGED inFlight

DropJob ==
  /\ queue' = Tail(queue)
  /\ inFlight' = inFlight \ {Head(queue).sid}
  /\ UNCHANGED run

NextJob(kind) == run.pc = "idle" /\ queue # <<>> /\ Head(queue).kind = kind

\* Mutant of FirstAttemptNum: a resumed run starts counting again.
FirstAttemptNumReset(s) == 1

\* runAttemptLoop counts the driver attempts already on the row before it starts.
FirstAttemptNum(s) == Cardinality(DriverAttempts(s)) + 1

\* runOnce, on a settlement whose chain still verifies: approved -> settling.
RunExecute ==
  /\ NextJob("execute")
  /\ LET s == Head(queue).sid IN
     IF SettlementCAS(settlement[s], "approved", "settling")
       THEN /\ settlement' = [settlement EXCEPT ![s] = "settling"]
            /\ Dequeue("loop", FirstAttemptNum(s))
       ELSE DropJob /\ UNCHANGED settlement
  /\ UNCHANGED <<kickCount, attempt, ledger, webhookEvents, handler, payment,
                 faults, crashes>>

\* runOnce, when the re-verification fails (the mandate was revoked, has expired, ...).
RunReject ==
  /\ NextJob("execute")
  /\ LET s == Head(queue).sid IN
     /\ SettlementCAS(settlement[s], "approved", "rejected")
     /\ settlement' = [settlement EXCEPT ![s] = "rejected"]
  /\ DropJob
  /\ UNCHANGED <<kickCount, attempt, ledger, webhookEvents, handler, payment,
                 faults, crashes>>

\* resumeSettlingRun: only a settling settlement with no live attempt is resumed.
RunResume ==
  /\ NextJob("resume")
  /\ LET s == Head(queue).sid IN
     IF settlement[s] = "settling" /\ ~HasLiveAttempt(s)
       THEN Dequeue("loop", FirstAttemptNum(s))
       ELSE DropJob
  /\ UNCHANGED <<dbVars, handler, payment, faults, crashes>>

\* The head of the attempt loop: write ahead the next attempt's row, then call
\* createOrder; past the budget, call createPaymentLink.  The insert throws
\* against one_active_attempt.
RunLoop ==
  /\ run.pc = "loop"
  /\ IF run.num > MAX_ATTEMPTS
       THEN /\ run' = [run EXCEPT !.pc = "link"]
            /\ UNCHANGED <<attempt, ledger, queue, inFlight>>
       ELSE /\ RowLeft
            /\ IF HasLiveAttempt(run.sid)
                 THEN FinishRun /\ UNCHANGED <<attempt, ledger>>
                 ELSE /\ attempt' = [attempt EXCEPT ![FreeRow] =
                             [sid |-> run.sid, method |-> "checkout_driver",
                              state |-> "initiated", order |-> FALSE]]
                      /\ ledger' = ledger \cup {Event("attempt_initiated", FreeRow)}
                      /\ run' = [run EXCEPT !.pc = "order", !.att = FreeRow]
                      /\ UNCHANGED <<queue, inFlight>>
  /\ UNCHANGED <<settlement, kickCount, webhookEvents, handler, payment, faults, crashes>>

\* Mutant of RunOrderCreated: the browser drives before the order id is stored.
RunOrderUnwritten ==
  /\ run.pc = "order"
  /\ run' = [run EXCEPT !.pc = "driving"]
  /\ UNCHANGED <<dbVars, queue, inFlight, handler, payment, faults, crashes>>

\* createOrder answered: the order id is written on the row, then the browser drives.
RunOrderCreated ==
  /\ run.pc = "order"
  /\ attempt' = [attempt EXCEPT ![run.att].order = TRUE]
  /\ run' = [run EXCEPT !.pc = "driving"]
  /\ UNCHANGED <<settlement, kickCount, ledger, webhookEvents, queue, inFlight,
                 handler, payment, faults, crashes>>

NextIteration == [run EXCEPT !.pc = "loop", !.num = @ + 1]

\* createOrder failed: the attempt fails (a stale row throws out of the run).
RunOrderFailed ==
  /\ run.pc = "order"
  /\ faults < MaxFaults /\ faults' = faults + 1
  /\ IF AttemptCAS(attempt[run.att].state, "initiated", "failed")
       THEN /\ attempt' = [attempt EXCEPT ![run.att].state = "failed"]
            /\ ledger' = ledger \cup {Event("payment_failed", run.att)}
            /\ run' = NextIteration
            /\ UNCHANGED <<queue, inFlight>>
       ELSE FinishRun /\ UNCHANGED <<attempt, ledger>>
  /\ UNCHANGED <<settlement, kickCount, webhookEvents, handler, payment, crashes>>

-----------------------------------------------------------------------------
(* applyCapture, the one writer of the captured states, in one transaction.*)

\* Mutant of CaptureClash: no unique index on captured attempts.
NoCaptureClash(a) == FALSE

\* The update would break one_captured_attempt: the transaction throws.
CaptureClash(a) ==
  \E b \in AttemptsOf(attempt[a].sid) : b # a /\ attempt[b].state = "captured"

CanCapture(a, from) == AttemptCAS(attempt[a].state, from, "captured") /\ ~CaptureClash(a)

\* A settlement found not settling loses its transition, but not the attempt's.
ApplyCapture(a) ==
  LET s == attempt[a].sid IN
  /\ attempt' = [attempt EXCEPT ![a].state = "captured"]
  /\ IF SettlementCAS(settlement[s], "settling", "captured")
       THEN /\ settlement' = [settlement EXCEPT ![s] = "captured"]
            /\ ledger' = ledger \cup {Event("payment_captured", a)}
       ELSE UNCHANGED <<settlement, ledger>>

\* pollForTerminalStatus: the newest payment of the order once it is terminal, or no answer
\* within the poll window.
pollForTerminalStatus(a) ==
  {"timeout"} \cup (IF payment[a] \in {"captured", "failed"} THEN {payment[a]} ELSE {})

\* What settleViaCheckout may return, whatever the page reported: the poll's answer, or the
\* error of any step before it.
settleViaCheckout(a) == {"error"} \cup pollForTerminalStatus(a)

\* The driver returned `captured` and the executor's own applyCapture commits; if
\* only the attempt moved it returned false, and the failure branch below follows.
RunCaptured ==
  /\ run.pc = "driving"
  /\ "captured" \in settleViaCheckout(run.att)
  /\ CanCapture(run.att, "initiated")
  /\ ApplyCapture(run.att)
  /\ IF settlement[run.sid] = "settling" THEN FinishRun ELSE UNCHANGED execVars
  /\ UNCHANGED <<kickCount, webhookEvents, handler, payment, faults, crashes>>

\* The driver returned `captured` for a second attempt: applyCapture throws.
RunCaptureThrows ==
  /\ run.pc = "driving"
  /\ "captured" \in settleViaCheckout(run.att)
  /\ attempt[run.att].state = "initiated" /\ CaptureClash(run.att)
  /\ FinishRun
  /\ UNCHANGED <<dbVars, handler, payment, faults, crashes>>

\* Mutant of RunDriveFailed: the next iteration starts with the attempt still live.
RunDriveFailedLive ==
  /\ run.pc = "driving"
  /\ ledger' = ledger \cup {Event("payment_failed", run.att)}
  /\ run' = NextIteration
  /\ UNCHANGED <<settlement, kickCount, attempt, webhookEvents, queue, inFlight,
                 handler, payment, faults, crashes>>

\* The driver failed, timed out or threw, or applyCapture found the attempt
\* moved: fail the attempt if it still is initiated, ledger, next iteration.
RunDriveFailed ==
  /\ run.pc = "driving"
  /\ attempt' = IF AttemptCAS(attempt[run.att].state, "initiated", "failed")
                  THEN [attempt EXCEPT ![run.att].state = "failed"] ELSE attempt
  /\ ledger' = ledger \cup {Event("payment_failed", run.att)}
  /\ run' = NextIteration
  /\ UNCHANGED <<settlement, kickCount, webhookEvents, queue, inFlight, handler,
                 payment, faults, crashes>>

\* createPaymentLink answered: supersede the last attempt if it is live, insert
\* the link's row, which carries a link id but never an order id.
RunLinkIssued ==
  /\ run.pc = "link" /\ RowLeft
  /\ LET superseded ==
           IF run.att # NoAttempt /\ Live(run.att)
             THEN [attempt EXCEPT ![run.att].state = "superseded"] ELSE attempt
         clash == \E a \in AttemptsOf(run.sid) : superseded[a].state \in LiveAttempt
     IN IF clash
          THEN UNCHANGED <<attempt, ledger>>
          ELSE /\ attempt' = [superseded EXCEPT ![FreeRow] =
                      [sid |-> run.sid, method |-> "payment_link",
                       state |-> "awaiting_confirmation", order |-> FALSE]]
               /\ ledger' = ledger \cup {Event("payment_link_issued", FreeRow)}
  /\ FinishRun
  /\ UNCHANGED <<settlement, kickCount, webhookEvents, handler, payment, faults, crashes>>

\* createPaymentLink failed: the settlement is left stalled in settling.
RunLinkFailed ==
  /\ run.pc = "link"
  /\ faults < MaxFaults /\ faults' = faults + 1
  /\ FinishRun
  /\ UNCHANGED <<dbVars, handler, payment, crashes>>

-----------------------------------------------------------------------------
(* Reconciliation, for webhook deliveries and sweep ticks alike.           *)

HandlerIdle(h) == handler[h].pc = "idle"
HandlerDone(h) == handler' = [handler EXCEPT ![h] = IdleHandler]
HandlerAt(h, pc) == handler' = [handler EXCEPT ![h].pc = pc]

\* reconcileByOrder reads the attempt's row, then awaits fetchOrderPayments.
StartReconcile(h, a) ==
  handler' = [handler EXCEPT ![h] =
    [pc |-> "fetch", att |-> a, seen |-> attempt[a].state, got |-> "none"]]

\* The provider has reached status `type` for a's payment at some point.
Happened(type, a) == payment[a] = type \/ (type = "captured" /\ payment[a] = "refunded")

\* POST /webhook: the first delivery of an event claims its id and reconciles
\* the order; duplicates and events of orders on no row change nothing.
Webhook(h, type, a) ==
  /\ HandlerIdle(h)
  /\ Happened(type, a) /\ Event(type, a) \notin webhookEvents
  /\ webhookEvents' = webhookEvents \cup {Event(type, a)}
  /\ IF attempt[a].order THEN StartReconcile(h, a) ELSE UNCHANGED handler
  /\ UNCHANGED <<settlement, kickCount, attempt, ledger, execVars, payment,
                 faults, crashes>>

\* Mutant of SweepPoll: only attempts awaiting confirmation are polled.
SweepPollAwaiting(h, a) ==
  /\ HandlerIdle(h)
  /\ attempt[a].state = "awaiting_confirmation" /\ attempt[a].order
  /\ StartReconcile(h, a)
  /\ UNCHANGED <<dbVars, execVars, payment, faults, crashes>>

\* sweepStaleAttempts, an attempt past its TTL with an order: poll it.
SweepPoll(h, a) ==
  /\ HandlerIdle(h)
  /\ Live(a) /\ attempt[a].order
  /\ StartReconcile(h, a)
  /\ UNCHANGED <<dbVars, execVars, payment, faults, crashes>>

\* sweepStaleAttempts, an initiated attempt with no order: fail it.  attemptStaleMs
\* exceeds the provider client's request timeout: no createOrder of it is pending.
SweepFailOrphan(a) ==
  /\ attempt[a].state = "initiated" /\ ~attempt[a].order
  /\ ~(run.pc = "order" /\ run.att = a)
  /\ attempt' = [attempt EXCEPT ![a].state = "failed"]
  /\ ledger' = ledger \cup {Event("payment_failed", a)}
  /\ UNCHANGED <<settlement, kickCount, webhookEvents, execVars, handler,
                 payment, faults, crashes>>

\* Mutant of FetchAnswered: any payment on the order is taken for a captured one.
FetchAnsweredAny(h) ==
  /\ handler[h].pc = "fetch"
  /\ handler' = [handler EXCEPT ![h].pc = "decide", ![h].got = "captured"]
  /\ UNCHANGED <<dbVars, execVars, payment, faults, crashes>>

\* The provider answers the fetch with the status of the latest payment.
FetchAnswered(h) ==
  /\ handler[h].pc = "fetch"
  /\ handler' = [handler EXCEPT ![h].pc = "decide", ![h].got = payment[handler[h].att]]
  /\ UNCHANGED <<dbVars, execVars, payment, faults, crashes>>

FetchFailed(h) ==
  /\ handler[h].pc = "fetch"
  /\ faults < MaxFaults /\ faults' = faults + 1
  /\ HandlerDone(h)
  /\ UNCHANGED <<dbVars, execVars, payment, crashes>>

\* isAnomaly: the attempt as read BEFORE the await, the settlement as it is now.
Anomaly(h) ==
  LET a == handler[h].att  s == attempt[a].sid IN
  \/ handler[h].seen \notin LiveAttempt
  \/ settlement[s] # "settling"
  \/ HasCaptured(s)

Captures(h) == ~Anomaly(h) /\ CanCapture(handler[h].att, handler[h].seen)

\* The payment is captured and the attempt can still win: the normal capture.
ReconcileCaptures(h) ==
  /\ handler[h].pc = "decide" /\ handler[h].got = "captured"
  /\ Captures(h)
  /\ ApplyCapture(handler[h].att)
  /\ HandlerDone(h)
  /\ UNCHANGED <<kickCount, webhookEvents, execVars, payment, faults, crashes>>

\* The payment is captured and the attempt cannot win: refund it, unless the
\* ledger shows this payment's anomaly refund.
ReconcileAnomaly(h) ==
  /\ handler[h].pc = "decide" /\ handler[h].got = "captured"
  /\ handler[h].seen # "captured" /\ ~Captures(h)
  /\ IF Ledgered("anomaly_refund_issued", handler[h].att)
       THEN HandlerDone(h) ELSE HandlerAt(h, "anomaly")
  /\ UNCHANGED <<dbVars, execVars, payment, faults, crashes>>

\* The payment failed: so does the attempt, if it is in the live state read before.
ReconcileFails(h) ==
  /\ handler[h].pc = "decide" /\ handler[h].got = "failed"
  /\ handler[h].seen \in LiveAttempt
  /\ LET a == handler[h].att IN
     IF AttemptCAS(attempt[a].state, handler[h].seen, "failed")
       THEN /\ attempt' = [attempt EXCEPT ![a].state = "failed"]
            /\ ledger' = ledger \cup {Event("payment_failed", a)}
       ELSE UNCHANGED <<attempt, ledger>>
  /\ HandlerDone(h)
  /\ UNCHANGED <<settlement, kickCount, webhookEvents, execVars, payment, faults, crashes>>

ReconcileNoOp(h) ==
  /\ handler[h].pc = "decide"
  /\ \/ handler[h].got \notin {"captured", "failed"}
     \/ handler[h].got = "captured" /\ handler[h].seen = "captured"
     \/ handler[h].got = "failed" /\ handler[h].seen \notin LiveAttempt
  /\ HandlerDone(h)
  /\ UNCHANGED <<dbVars, execVars, payment, faults, crashes>>

-----------------------------------------------------------------------------
(* Refunds.                                                                *)

\* POST /settlements/:id/refund: a captured settlement with no refund on the
\* ledger; the other requests replay the refund or are refused, changing nothing.
RefundRequest(h, a) ==
  /\ HandlerIdle(h)
  /\ attempt[a].state = "captured" /\ settlement[attempt[a].sid] = "captured"
  /\ ~\E b \in AttemptsOf(attempt[a].sid) : Ledgered("refund_issued", b)
  /\ handler' = [handler EXCEPT ![h] = [IdleHandler EXCEPT !.pc = "human", !.att = a]]
  /\ UNCHANGED <<dbVars, execVars, payment, faults, crashes>>

Refunding == {"anomaly", "human"}

\* The provider refunds a captured payment; the answer is on its way.
RefundAtProvider(h) ==
  /\ handler[h].pc \in Refunding
  /\ payment[handler[h].att] = "captured"
  /\ payment' = [payment EXCEPT ![handler[h].att] = "refunded"]
  /\ HandlerAt(h, IF handler[h].pc = "human" THEN "human_ok" ELSE "anomaly_ok")
  /\ UNCHANGED <<dbVars, execVars, faults, crashes>>

\* The provider has nothing left to refund: an error, flagged or answered with 502.
RefundRefused(h) ==
  /\ handler[h].pc \in Refunding
  /\ payment[handler[h].att] # "captured"
  /\ HandlerDone(h)
  /\ UNCHANGED <<dbVars, execVars, payment, faults, crashes>>

\* The call fails before the provider refunds, or its answer is lost after.
RefundCallFailed(h) ==
  /\ handler[h].pc \in Refunding \cup {"anomaly_ok", "human_ok"}
  /\ faults < MaxFaults /\ faults' = faults + 1
  /\ HandlerDone(h)
  /\ UNCHANGED <<dbVars, execVars, payment, crashes>>

\* The answer arrives: anomaly_refund_issued or refund_issued goes on the ledger.
RefundRecorded(h) ==
  /\ handler[h].pc \in {"anomaly_ok", "human_ok"}
  /\ ledger' = ledger \cup
       {Event(IF handler[h].pc = "human_ok" THEN "refund_issued"
              ELSE "anomaly_refund_issued", handler[h].att)}
  /\ HandlerDone(h)
  /\ UNCHANGED <<settlement, kickCount, attempt, webhookEvents, execVars,
                 payment, faults, crashes>>

-----------------------------------------------------------------------------
(* The sweep's rules for settlements, each one synchronous per row.        *)

\* Mutant of SweepRekick: no budget.
SweepRekickForever(s) ==
  /\ settlement[s] = "approved"
  /\ kickCount' = [kickCount EXCEPT ![s] = @ + 1]
  /\ Kick(s, "execute")
  /\ UNCHANGED <<settlement, attempt, ledger, webhookEvents, run, handler,
                 payment, faults, crashes>>

\* sweepStaleApproved: re-kick within the budget; past it, or with the
\* mandate expired, abandon.
SweepRekick(s) ==
  /\ settlement[s] = "approved"
  /\ kickCount[s] < maxApprovedKicks
  /\ kickCount' = [kickCount EXCEPT ![s] = @ + 1]
  /\ Kick(s, "execute")
  /\ UNCHANGED <<settlement, attempt, ledger, webhookEvents, run, handler,
                 payment, faults, crashes>>

\* Mutant of SweepAbandonApproved: gives up one kick after the last allowed one.
SweepAbandonLate(s, mandateExpired) ==
  /\ mandateExpired \/ kickCount[s] > maxApprovedKicks
  /\ SettlementCAS(settlement[s], "approved", "abandoned")
  /\ settlement' = [settlement EXCEPT ![s] = "abandoned"]
  /\ UNCHANGED <<kickCount, attempt, ledger, webhookEvents, execVars, handler,
                 payment, faults, crashes>>

SweepAbandonApproved(s, mandateExpired) ==
  /\ mandateExpired \/ kickCount[s] >= maxApprovedKicks
  /\ SettlementCAS(settlement[s], "approved", "abandoned")
  /\ settlement' = [settlement EXCEPT ![s] = "abandoned"]
  /\ UNCHANGED <<kickCount, attempt, ledger, webhookEvents, execVars, handler,
                 payment, faults, crashes>>

\* sweepStuckSettling: settling, and no live attempt.
SweepResume(s) ==
  /\ settlement[s] = "settling" /\ ~HasLiveAttempt(s)
  /\ Kick(s, "resume")
  /\ UNCHANGED <<dbVars, run, handler, payment, faults, crashes>>

-----------------------------------------------------------------------------
(* The provider, the payer, and crashes of the process.                    *)

\* The driven browser makes a payment against the order.
DriverPays ==
  /\ run.pc = "driving" /\ payment[run.att] = "none"
  /\ payment' = [payment EXCEPT ![run.att] = "created"]
  /\ UNCHANGED <<dbVars, execVars, handler, faults, crashes>>

\* The payment resolves, however late.
PaymentResolves(a, status) ==
  /\ payment[a] = "created" /\ status \in {"captured", "failed"}
  /\ payment' = [payment EXCEPT ![a] = status]
  /\ UNCHANGED <<dbVars, execVars, handler, faults, crashes>>

\* Somebody pays an issued link.
LinkPaid(a) ==
  /\ attempt[a].method = "payment_link" /\ payment[a] = "none"
  /\ payment' = [payment EXCEPT ![a] = "captured"]
  /\ UNCHANGED <<dbVars, execVars, handler, faults, crashes>>

\* The process dies and restarts: the database and the provider survive.
Crash ==
  /\ crashes < MaxCrashes /\ crashes' = crashes + 1
  /\ queue' = <<>> /\ inFlight' = {} /\ run' = IdleRun
  /\ handler' = [h \in Handler |-> IdleHandler]
  /\ UNCHANGED <<dbVars, payment, faults>>

-----------------------------------------------------------------------------
ExecutorStep ==
  \/ RunExecute \/ RunReject \/ RunResume \/ RunLoop
  \/ RunOrderCreated \/ RunOrderFailed
  \/ RunCaptured \/ RunCaptureThrows \/ RunDriveFailed
  \/ RunLinkIssued \/ RunLinkFailed

HandlerStep(h) ==
  \/ \E a \in Attempt : \/ \E type \in EventType : Webhook(h, type, a)
                        \/ SweepPoll(h, a)
                        \/ RefundRequest(h, a)
  \/ FetchAnswered(h) \/ FetchFailed(h)
  \/ ReconcileCaptures(h) \/ ReconcileAnomaly(h) \/ ReconcileFails(h) \/ ReconcileNoOp(h)
  \/ RefundAtProvider(h) \/ RefundRefused(h) \/ RefundCallFailed(h) \/ RefundRecorded(h)

SettlementStep(s) ==
  \/ Approve(s) \/ SweepRekick(s) \/ SweepResume(s)
  \/ \E mandateExpired \in BOOLEAN : SweepAbandonApproved(s, mandateExpired)

ProviderStep ==
  \/ DriverPays
  \/ \E a \in Attempt : LinkPaid(a) \/ \E status \in PaymentStatus : PaymentResolves(a, status)

\* Between two transactions of one synchronous stretch nothing else of the process runs.
Sync == run.pc = "loop"

Next ==
  \/ ExecutorStep
  \/ ProviderStep
  \/ Crash
  \/ /\ ~Sync
     /\ \/ \E h \in Handler : HandlerStep(h)
        \/ \E s \in Settlement : SettlementStep(s)
        \/ \E a \in Attempt : SweepFailOrphan(a)

Spec == Init /\ [][Next]_vars

(* Fairness: the process runs its ready continuations, every provider call is *)
(* answered within the client's timeout, the sweep's timer keeps firing.      *)
(* Payers, drivers, webhooks and human decisions may never act.               *)
SweepFairness ==
  /\ \A h \in Handler, a \in Attempt : SF_vars(~Sync /\ SweepPoll(h, a))
  /\ \A a \in Attempt : WF_vars(~Sync /\ SweepFailOrphan(a))
  /\ \A s \in Settlement :
       /\ WF_vars(~Sync /\ (SweepRekick(s) \/ SweepAbandonApproved(s, FALSE)))
       /\ WF_vars(~Sync /\ SweepResume(s))

HandlerFairness == \A h \in Handler : WF_vars(~Sync /\
  \/ FetchAnswered(h) \/ ReconcileCaptures(h) \/ ReconcileAnomaly(h)
  \/ ReconcileFails(h) \/ ReconcileNoOp(h)
  \/ RefundAtProvider(h) \/ RefundRefused(h) \/ RefundRecorded(h))

FairSpec == Spec /\ WF_vars(ExecutorStep) /\ HandlerFairness /\ SweepFairness

-----------------------------------------------------------------------------
(* Safety.                                                                 *)

\* Every row and every suspended continuation is one the code can hold.
TypeOK ==
  /\ settlement \in [Settlement -> SettlementState]
  /\ kickCount \in [Settlement -> 0 .. maxApprovedKicks]
  /\ attempt \in [Attempt -> Row \cup {NoRow}]
  /\ ledger \subseteq [type : LedgerType, att : Attempt]
  /\ webhookEvents \subseteq [type : EventType, att : Attempt]
  /\ queue \in Seq(Job)
  /\ inFlight \in SUBSET Settlement
  /\ run \in RunState
  /\ handler \in [Handler -> HandlerState]
  /\ payment \in [Attempt -> PaymentStatus]
  /\ faults \in 0 .. MaxFaults
  /\ crashes \in 0 .. MaxCrashes

\* The capture transaction is all or nothing whoever runs it, executor, webhook
\* or sweep: a settlement is captured exactly when one of its attempts is, no two
\* are, and payment_captured is on the ledger for that attempt and no other
\* (applyCapture; its `return false` after the attempt moved would commit half).
CaptureAgreement ==
  /\ \A a \in Attempt :
       /\ attempt[a].state = "captured" <=> Ledgered("payment_captured", a)
       /\ attempt[a].state = "captured" => settlement[attempt[a].sid] = "captured"
  /\ \A s \in Settlement : settlement[s] = "captured" => HasCaptured(s)
  /\ \A a, b \in Attempt :
       /\ attempt[a].state = "captured" /\ attempt[b].state = "captured"
       /\ attempt[a].sid = attempt[b].sid
       => a = b

\* A capture is recorded only for money the provider really took, whatever stale
\* row or answer the recorder held across its await (reconcileByOrder).
CaptureIsBacked ==
  \A a \in Attempt : attempt[a].state = "captured" => payment[a] \in {"captured", "refunded"}

\* No provider call is spent on a settlement that did not enter settling: one that
\* was rejected at the re-verification or abandoned by the sweep, even while its
\* kick sat in the queue, has no attempt and no payment (runOnce, sweepStaleApproved).
ChargeNeedsSettling ==
  \A a \in Attempt : attempt[a] # NoRow =>
    settlement[attempt[a].sid] \in {"settling", "captured"}

\* The attempt loop reaches its insert with no live attempt of its settlement, so
\* one_active_attempt never makes a run throw: kick dedup, the resume guard and the
\* failure paths together keep one loop per settlement over crashes and resumes.
LoopOwnsSettlement == run.pc \in {"loop", "link"} => ~HasLiveAttempt(run.sid)

\* A settlement spends at most MAX_ATTEMPTS checkout-driver attempts, however often
\* it crashes and is resumed, and is offered at most one payment link.
AttemptBudget ==
  \A s \in Settlement :
    /\ Cardinality(DriverAttempts(s)) <= MAX_ATTEMPTS
    /\ \A a, b \in AttemptsOf(s) \ DriverAttempts(s) : a = b

\* Money can only move against an order id that is already on a row, so a capture
\* that comes after a crash can be matched (write-ahead in runAttemptLoop).
PaymentIsFindable ==
  \A a \in Attempt : payment[a] # "none" =>
    attempt[a].method = "payment_link" \/ attempt[a].order

\* The dedup set holds exactly the queued and running settlements, each once: an
\* id left behind would block every later kick, one removed early would allow two
\* runs (createExecutor's kick).
InFlightExact ==
  /\ inFlight = {queue[i].sid : i \in DOMAIN queue} \cup ({run.sid} \ {NoSettlement})
  /\ \A i, j \in DOMAIN queue : queue[i].sid = queue[j].sid => i = j
  /\ \A i \in DOMAIN queue : queue[i].sid # run.sid

\* No writer overwrites a row that another one has brought to a terminal state:
\* the executor's late failure of an attempt, a handler's stale one, the sweep's
\* abandonment (every CAS of state-machine.ts).
TerminalIsFinal ==
  [][/\ \A s \in Settlement : settlement[s] \in TerminalSettlement =>
          settlement'[s] = settlement[s]
     /\ \A a \in Attempt : attempt[a].state \in AttemptState \ LiveAttempt =>
          attempt'[a].state = attempt[a].state]_vars

\* The abstract state of PaymentPromise.
Phase(s) ==
  IF settlement[s] \in {"settling", "captured"} THEN settlement[s]
  ELSE IF settlement[s] \in ReleasedSettlement THEN "closed" ELSE "open"
Charges(s) == {a \in AttemptsOf(s) : payment[a] \in {"captured", "refunded"}}
Winner(s) ==
  IF HasCaptured(s) THEN CHOOSE a \in AttemptsOf(s) : attempt[a].state = "captured"
  ELSE NoAttempt

Promise == INSTANCE PaymentPromise WITH
  Charge <- Attempt, NoCharge <- NoAttempt,
  phase <- [s \in Settlement |-> Phase(s)],
  charges <- [s \in Settlement |-> Charges(s)],
  winner <- [s \in Settlement |-> Winner(s)]

\* The engine keeps the promise of PaymentPromise: whatever the interleaving of
\* executor, reconcilers, sweep, payers and crashes, a settlement is settled once,
\* charged only then, and captured once, for money taken against its own attempt.
KeepsPromise == Promise!Spec

-----------------------------------------------------------------------------
(* Liveness, under FairSpec.                                               *)

\* An approved settlement does not stay approved: a lost kick is repeated by the
\* sweep, within its budget (sweepStaleApproved).
ApprovedResolves == \A s \in Settlement : settlement[s] = "approved" ~> settlement[s] # "approved"

\* A settling settlement with no live attempt, left so by a crash or by a run that
\* stalled, gets a live attempt again or is captured (sweepStuckSettling).
SettlingResumes == \A s \in Settlement :
  settlement[s] = "settling" /\ ~HasLiveAttempt(s)
    ~> HasLiveAttempt(s) \/ settlement[s] = "captured"

\* Money taken for a live attempt of a settling settlement is noticed with no
\* webhook: the settlement is captured or the attempt given up (sweepStaleAttempts).
LateCaptureConverges == \A s \in Settlement, a \in Attempt :
  payment[a] = "captured" /\ a \in AttemptsOf(s) /\ Live(a) /\ attempt[a].order
    /\ settlement[s] = "settling"
  ~> settlement[s] = "captured" \/ ~Live(a)

-----------------------------------------------------------------------------
(* What comments and documents say of the engine and the code does not do. *)

\* reconcile.ts:290-293: after a lost race, "refundAnomalyCapture no-ops once the
\* ledger already shows this payment refunded or captured": so the payment of a
\* captured attempt is never sent back as an anomaly.
HonouredCaptureKept ==
  \A a \in Attempt : ~(Ledgered("payment_captured", a) /\ Ledgered("anomaly_refund_issued", a))

\* schema.sql:81-82: one_active_attempt "prevents double-charging via a concurrent
\* second attempt"; README.md:36-37: "Retries replay instead of double-charging":
\* so no attempt is started for a settlement whose capture is on the ledger.
NoAttemptAfterCapture ==
  [][\A s \in Settlement : settlement[s] = "captured" => AttemptsOf(s)' = AttemptsOf(s)]_vars
=============================================================================
