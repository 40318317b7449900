---------------------------- MODULE StateMachine ----------------------------
(***************************************************************************)
(* The two transition tables of the facilitator (state-machine.ts).  A     *)
(* transition is a compare-and-swap: the row moves only along an edge of   *)
(* the table (else InvalidTransition) and only when it still is in the     *)
(* state the caller expects (else StaleTransition).                        *)
(***************************************************************************)

SettlementState ==
  {"created", "verifying", "verified", "pending_approval", "approved",
   "settling", "captured", "failed", "rejected", "abandoned"}

AttemptState ==
  {"initiated", "awaiting_confirmation", "captured", "failed", "superseded"}

SETTLEMENT_TRANSITIONS ==
  [created          |-> {"verifying", "abandoned"},
   verifying        |-> {"verified", "rejected", "abandoned"},
   verified         |-> {"pending_approval", "approved", "abandoned"},
   pending_approval |-> {"approved", "rejected", "abandoned"},
   approved         |-> {"settling", "rejected", "abandoned"},
   settling         |-> {"captured", "failed", "abandoned"},
   captured         |-> {},
   failed           |-> {},
   rejected         |-> {},
   abandoned        |-> {}]

ATTEMPT_TRANSITIONS ==
  [initiated             |-> {"awaiting_confirmation", "captured", "failed", "superseded"},
   awaiting_confirmation |-> {"captured", "failed", "superseded"},
   captured              |-> {},
   failed                |-> {},
   superseded            |-> {}]

\* Mutants of the two compare-and-swaps: the update has no WHERE state = from.
SettlementCASBlind(cur, from, to) == to \in SETTLEMENT_TRANSITIONS[from]
AttemptCASBlind(cur, from, to) == to \in ATTEMPT_TRANSITIONS[from]

\* The compare-and-swap of transitionSettlement / transitionAttempt: whether a
\* row now in state `cur` is moved by a caller asking for from -> to.
SettlementCAS(cur, from, to) == cur = from /\ to \in SETTLEMENT_TRANSITIONS[from]
AttemptCAS(cur, from, to) == cur = from /\ to \in ATTEMPT_TRANSITIONS[from]

\* The states the partial unique indexes of schema.sql range over.
LiveAttempt == {"initiated", "awaiting_confirmation"}
ReleasedSettlement == {"failed", "rejected", "abandoned"}
TerminalSettlement == ReleasedSettlement \cup {"captured"}
=============================================================================
