--------------------------- MODULE PaymentPromise ---------------------------
(***************************************************************************)
(* What the payment engine promises of money, with no executor, handler,   *)
(* ledger or crash in sight: a settlement enters settling at most once,    *)
(* only then can charges be made for it, and it is captured at most once,  *)
(* for a charge of its own.  A settlement closed without entering settling *)
(* is never charged.                                                       *)
(***************************************************************************)
CONSTANTS Settlement, Charge, NoCharge

VARIABLES
  phase,     \* of each settlement
  charges,   \* the charges the provider took for each settlement, refunded or not
  winner     \* the charge each settlement was captured for

vars == <<phase, charges, winner>>

Phase == {"open", "settling", "captured", "closed"}

Init ==
  /\ phase = [s \in Settlement |-> "open"]
  /\ charges = [s \in Settlement |-> {}]
  /\ winner = [s \in Settlement |-> NoCharge]

Move(s, from, to) == phase[s] = from /\ phase' = [phase EXCEPT ![s] = to]

Settle(s) == Move(s, "open", "settling") /\ UNCHANGED <<charges, winner>>
Close(s) == Move(s, "open", "closed") /\ UNCHANGED <<charges, winner>>

\* The provider takes money, also after the capture: the engine cannot stop a late payer.
Take(s, c) ==
  /\ phase[s] \in {"settling", "captured"}
  /\ \A t \in Settlement : c \notin charges[t]
  /\ charges' = [charges EXCEPT ![s] = @ \cup {c}]
  /\ UNCHANGED <<phase, winner>>

Capture(s, c) ==
  /\ Move(s, "settling", "captured")
  /\ c \in charges[s]
  /\ winner' = [winner EXCEPT ![s] = c]
  /\ UNCHANGED charges

Next ==
  \E s \in Settlement :
    \/ Settle(s) \/ Close(s)
    \/ \E c \in Charge : Take(s, c) \/ Capture(s, c)

Spec == Init /\ [][Next]_vars
=============================================================================
