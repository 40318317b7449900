------------------------------- MODULE Wallet -------------------------------
(***************************************************************************)
(* What a mandate promises its human: a wallet.  Once opened it has a      *)
(* fixed ceiling; at most one amount is reserved at a time; only reserved  *)
(* money is spent, and spent and reserved together never pass the ceiling. *)
(***************************************************************************)
EXTENDS Naturals

CONSTANTS Mandate, Closed

VARIABLES ceiling, spent, reserved

vars == <<ceiling, spent, reserved>>

Init ==
  /\ ceiling = [m \in Mandate |-> Closed]
  /\ spent = [m \in Mandate |-> 0]
  /\ reserved = [m \in Mandate |-> 0]

Open(m) ==
  /\ ceiling[m] = Closed
  /\ ceiling'[m] \in Nat
  /\ ceiling' = [ceiling EXCEPT ![m] = ceiling'[m]]
  /\ UNCHANGED <<spent, reserved>>

Reserve(m) ==
  /\ ceiling[m] # Closed /\ reserved[m] = 0
  /\ reserved'[m] \in 1 .. ceiling[m] - spent[m]
  /\ reserved' = [reserved EXCEPT ![m] = reserved'[m]]
  /\ UNCHANGED <<ceiling, spent>>

Spend(m) ==
  /\ spent' = [spent EXCEPT ![m] = @ + reserved[m]]
  /\ reserved' = [reserved EXCEPT ![m] = 0]
  /\ UNCHANGED ceiling

Next == \E m \in Mandate : Open(m) \/ Reserve(m) \/ Spend(m)

Spec == Init /\ [][Next]_vars
=============================================================================
