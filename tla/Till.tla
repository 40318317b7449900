-------------------------------- MODULE Till --------------------------------
(***************************************************************************)
(* What POST /settlements promises whoever posts a cart, however requests, *)
(* retries, crashes and sweeps interleave.  A key stands for one body and  *)
(* keeps its answer; a settlement comes into being together with the       *)
(* answer that names it, for that body, when neither the same purchase nor *)
(* another of its mandate stands in the way; and from there it only moves  *)
(* along the edges of the state machine.                                   *)
(***************************************************************************)
EXTENDS StateMachine

CONSTANT NoSale   \* what an answer names that names no settlement

VARIABLES
  entries,   \* the keys in use: [key, body, locked, sale], a body being [mandate, hash]
  sales      \* by settlement id: [mandate, hash, state]

vars == <<entries, sales>>

Init == entries = {} /\ DOMAIN sales = {}

\* The two partial unique indexes: the purchase is made already, or its mandate is busy.
Taken(body) ==
  \E s \in DOMAIN sales :
    \/ sales[s].hash = body.hash /\ sales[s].state \notin ReleasedSettlement
    \/ sales[s].mandate = body.mandate /\ sales[s].state \notin TerminalSettlement

Enter(e) ==
  /\ \A f \in entries : f.key # e.key
  /\ entries' = entries \cup {e}

\* A key is claimed, and refused for good or left locked by a process that dies.
Claim(e) == Enter(e) /\ e.sale = NoSale /\ UNCHANGED sales

Sell(e, state) ==
  /\ Enter(e) /\ ~e.locked
  /\ e.sale # NoSale /\ e.sale \notin DOMAIN sales /\ ~Taken(e.body)
  /\ sales' = [s \in DOMAIN sales \cup {e.sale} |->
                 IF s = e.sale THEN [mandate |-> e.body.mandate, hash |-> e.body.hash, state |-> state]
                 ELSE sales[s]]

Unlock(e) == e.locked /\ entries' = entries \ {e} /\ UNCHANGED sales

Move(s, to) ==
  /\ SettlementCAS(sales[s].state, sales[s].state, to)
  /\ sales' = [sales EXCEPT ![s].state = to]
  /\ UNCHANGED entries

Next ==
  \/ \E e \in entries' \ entries :
       Claim(e) \/ \E state \in {"rejected", "pending_approval", "approved"} : Sell(e, state)
  \/ \E e \in entries : Unlock(e)
  \/ \E s \in DOMAIN sales, to \in SettlementState : Move(s, to)

Spec == Init /\ [][Next]_vars
=============================================================================
