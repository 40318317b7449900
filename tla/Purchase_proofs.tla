-------------------------- MODULE Purchase_proofs --------------------------
(***************************************************************************)
(* Theorems of Purchase, for any errands, replies, lists and number of     *)
(* attempts: a token buys once, what a caller is told is so, what is       *)
(* signed is what was asked for or what the list has, and the facilitator  *)
(* met here keeps the promise of module Till.                              *)
(***************************************************************************)
EXTENDS Purchase, Arithmetic_proofs, TLAPS

(* The inductive invariant.                                                *)

Answers == [ok : BOOLEAN, sid : Nat, state : SettlementState \cup {"none", "contested"}]

\* An attempt holds what its step needs.
CallShape(q) ==
  /\ q # Idle => q.errand \in Errand
  /\ q.step \in {"select", "advised", "shop"} => q.errand.by = "page"
  /\ q.step = "mandates" => q = [errand |-> q.errand, step |-> "mandates"]
  /\ q.step = "posted" =>
       q = [errand |-> q.errand, step |-> "posted", cart |-> q.cart, list |-> q.list]
  /\ q.step = "polling" => q = Polling(q, q.sid)

RowsTyped ==
  /\ \E S : rows \in Seq(S)
  /\ \A s \in DOMAIN rows : rows[s] = [state |-> rows[s].state, cart |-> rows[s].cart]

Typed ==
  /\ DOMAIN call = Call
  /\ \A c \in Call : CallShape(call[c])
  /\ RowsTyped
  /\ \A k \in keys : k.answer \in Answers \cup {Absent}

\* A request under way is its caller's only one, and carries its cart under the cart's id.
NetInv ==
  /\ \A r \in net :
       /\ r.call \in Call /\ call[r.call].step = "posted"
       /\ r.body = call[r.call].cart /\ r.key = r.body.id
  /\ \A r, s \in net : r.call = s.call => r = s

Answered(k) == k.answer # Absent
Accepted(k) == Answered(k) /\ k.answer.ok

\* Keys and settlements go together: an answered key that was accepted has its settlement,
\* and each settlement has the answered key of its cart.
KeyInv ==
  /\ \A k, l \in keys : k.key = l.key => k = l
  /\ \A k \in keys : Accepted(k) =>
       /\ k.answer.sid \in DOMAIN rows /\ rows[k.answer.sid].cart = k.body
       /\ k.answer.state = "rejected" => rows[k.answer.sid].state = "rejected"
  /\ \A k \in keys : Answered(k) => k.body.id = k.key
  /\ \A s \in DOMAIN rows : \E k \in keys :
       k.key = rows[s].cart.id /\ Accepted(k) /\ k.answer.sid = s

\* A key is settled without money: it is answered, and no settlement of it holds money or
\* can still take it.
Lapsed(id) ==
  /\ \E k \in keys : k.key = id /\ Answered(k)
  /\ \A s \in DOMAIN rows : rows[s].cart.id = id => rows[s].state \in ReleasedSettlement

\* What an attempt polls is its own settlement, and what it was told is so.
CallKnows(q) ==
  /\ q.step = "polling" => q.sid \in DOMAIN rows /\ rows[q.sid].cart = q.cart
  /\ q.step = "told" /\ q.report = "captured" =>
       q.sid \in DOMAIN rows /\ rows[q.sid].state = "captured" /\ rows[q.sid].cart = q.cart
  /\ q.step = "told" /\ q.report = "not completed" => Lapsed(q.cart.id)

CallInv == \A c \in Call : CallKnows(call[c])

IInv == Typed /\ NetInv /\ KeyInv /\ CallInv

-----------------------------------------------------------------------------
(* What the invariant says.                                                *)

\* Two settlements of one cart id are one.
LEMMA OneRowPerId ==
  ASSUME KeyInv
  PROVE  \A r, s \in DOMAIN rows : rows[r].cart.id = rows[s].cart.id => r = s
<1> SUFFICES ASSUME NEW r \in DOMAIN rows, NEW s \in DOMAIN rows, rows[r].cart.id = rows[s].cart.id
             PROVE  r = s
  OBVIOUS
<1>1. PICK k \in keys : k.key = rows[r].cart.id /\ Accepted(k) /\ k.answer.sid = r
  BY DEF KeyInv
<1>2. PICK l \in keys : l.key = rows[s].cart.id /\ Accepted(l) /\ l.answer.sid = s
  BY DEF KeyInv
<1>3. k = l
  BY <1>1, <1>2 DEF KeyInv
<1> QED  BY <1>1, <1>2, <1>3

LEMMA InvImpliesProperties == IInv => OnePurchasePerToken /\ TellsTruth
<1> SUFFICES ASSUME IInv PROVE OnePurchasePerToken /\ TellsTruth
  OBVIOUS
<1>1. OnePurchasePerToken
  BY OneRowPerId DEF IInv, OnePurchasePerToken
<1>2. TellsTruth
  BY DEF IInv, CallInv, CallKnows, Lapsed, TellsTruth, At
<1> QED  BY <1>1, <1>2

LEMMA InitInv == Init => IInv
<1> SUFFICES ASSUME Init PROVE IInv
  OBVIOUS
<1>1. /\ keys = {} /\ rows = <<>> /\ net = {} /\ DOMAIN call = Call
      /\ \A c \in Call : call[c] = Idle /\ call[c].step = "idle"
  BY DEF Init, Idle
<1>2. DOMAIN rows = {} /\ rows \in Seq({})
  BY <1>1
<1>3. RowsTyped
  BY <1>2 DEF RowsTyped
<1>4. Typed /\ CallInv
  BY <1>1, <1>3 DEF Typed, CallShape, CallInv, CallKnows
<1>5. NetInv /\ KeyInv
  BY <1>1, <1>2 DEF NetInv, KeyInv
<1> QED  BY <1>4, <1>5 DEF IInv

-----------------------------------------------------------------------------
(* What a step changes: the tables, one attempt, and its request.          *)

\* The two tables: as they were, or a key is claimed or dropped, or a settlement joins or moves.
TablesStay == UNCHANGED <<keys, rows>>
KeyLocks == \E key, body :
  /\ Entries(key) = {} /\ keys' = keys \cup {[key |-> key, body |-> body, answer |-> Absent]}
  /\ UNCHANGED rows
KeyDrops == \E k \in keys : ~Answered(k) /\ keys' = keys \ {k} /\ UNCHANGED rows
KeyRefuses == \E body :
  /\ Entries(body.id) = {} /\ keys' = keys \cup {[key |-> body.id, body |-> body, answer |-> Refused]}
  /\ UNCHANGED rows
RowJoins == \E body : \E state \in {"rejected", "pending_approval", "approved"} :
  LET answer == [ok |-> TRUE, sid |-> Len(rows) + 1, state |-> state]
  IN /\ Entries(body.id) = {} /\ keys' = keys \cup {[key |-> body.id, body |-> body, answer |-> answer]}
     /\ rows' = Append(rows, [state |-> state, cart |-> body]) /\ ~Clash(body)
RowMoves == \E s \in DOMAIN rows : \E to \in SettlementState :
  /\ rows[s].state \notin TerminalSettlement /\ to \in SETTLEMENT_TRANSITIONS[rows[s].state]
  /\ rows' = [rows EXCEPT ![s].state = to] /\ UNCHANGED keys

TableStep == TablesStay \/ KeyLocks \/ KeyDrops \/ KeyRefuses \/ RowJoins \/ RowMoves

\* One attempt, which ends up fit.
CallMoves(c) ==
  /\ DOMAIN call' = Call
  /\ \A d \in Call \ {c} : call'[d] = call[d]
  /\ CallShape(call'[c]) /\ CallKnows(call[c])'

\* Its request: none is out, one leaves, or the one that was out is over.
NetKeeps(c) == call[c].step # "posted" /\ net' = net
NetPosts(c) ==
  /\ call[c].step # "posted" /\ call'[c].step = "posted"
  /\ net' = net \cup {[call |-> c, key |-> call'[c].cart.id, body |-> call'[c].cart]}
NetAnswers(c) == \E r \in net : r.call = c /\ net' = net \ {r}

CallStep ==
  \/ UNCHANGED <<call, net>>
  \/ \E c \in Call : CallMoves(c) /\ (NetKeeps(c) \/ NetPosts(c) \/ NetAnswers(c))

-----------------------------------------------------------------------------
(* The tables.                                                             *)

\* What a settlement that joins does to the rows.
LEMMA AppendKeeps ==
  ASSUME RowsTyped, NEW new
  PROVE  /\ DOMAIN rows = 1 .. Len(rows) /\ Len(rows) \in Nat
         /\ DOMAIN Append(rows, new) = 1 .. Len(rows) + 1
         /\ \A s \in DOMAIN rows : Append(rows, new)[s] = rows[s]
         /\ Append(rows, new)[Len(rows) + 1] = new
         /\ \E S : Append(rows, new) \in Seq(S)
<1>1. PICK S : rows \in Seq(S)
  BY DEF RowsTyped
<1>2. rows \in Seq(S \cup {new}) /\ new \in S \cup {new}
  BY <1>1
<1>3. Append(rows, new) \in Seq(S \cup {new})
  BY <1>2
<1>4. /\ DOMAIN rows = 1 .. Len(rows) /\ Len(rows) \in Nat
      /\ DOMAIN Append(rows, new) = 1 .. Len(rows) + 1
      /\ \A s \in DOMAIN rows : Append(rows, new)[s] = rows[s]
      /\ Append(rows, new)[Len(rows) + 1] = new
  BY <1>2
<1> QED  BY <1>3, <1>4

\* No row has the id of a key that nobody holds.
LEMMA FreeKeyHasNoRow ==
  ASSUME KeyInv, NEW id, Entries(id) = {}
  PROVE  \A s \in DOMAIN rows : rows[s].cart.id # id
BY DEF KeyInv, Entries

\* The tables after a settlement has joined.
LEMMA RowJoinsKeeps ==
  ASSUME Typed, KeyInv, RowJoins
  PROVE  /\ RowsTyped' /\ (\A k \in keys : k.answer \in Answers \cup {Absent})' /\ KeyInv'
         /\ \A q : CallKnows(q) => CallKnows(q)'
<1> DEFINE n == Len(rows) + 1
<1>1. PICK body : \E state \in {"rejected", "pending_approval", "approved"} :
        /\ Entries(body.id) = {}
        /\ keys' = keys \cup {[key |-> body.id, body |-> body,
                               answer |-> [ok |-> TRUE, sid |-> n, state |-> state]]}
        /\ rows' = Append(rows, [state |-> state, cart |-> body])
  BY DEF RowJoins
<1>2. PICK state \in {"rejected", "pending_approval", "approved"} :
        /\ Entries(body.id) = {}
        /\ keys' = keys \cup {[key |-> body.id, body |-> body,
                               answer |-> [ok |-> TRUE, sid |-> n, state |-> state]]}
        /\ rows' = Append(rows, [state |-> state, cart |-> body])
  BY <1>1
<1> DEFINE answer == [ok |-> TRUE, sid |-> n, state |-> state]
           entry == [key |-> body.id, body |-> body, answer |-> answer]
           row == [state |-> state, cart |-> body]
<1>3. /\ DOMAIN rows = 1 .. Len(rows) /\ Len(rows) \in Nat /\ DOMAIN rows' = 1 .. n
      /\ \A s \in DOMAIN rows : rows'[s] = rows[s]
      /\ rows'[n] = row /\ \E S : rows' \in Seq(S)
  BY <1>2, AppendKeeps DEF Typed
<1>4. /\ n \in Nat /\ n \notin DOMAIN rows /\ n \in DOMAIN rows' /\ DOMAIN rows \subseteq DOMAIN rows'
      /\ \A s \in DOMAIN rows' : s \in DOMAIN rows \/ s = n
  BY <1>3
<1>5. /\ answer \in Answers /\ answer # Absent
      /\ Accepted(entry) /\ Answered(entry) /\ answer.sid = n /\ answer.state = state
      /\ entry.key = body.id /\ entry.body = body /\ entry.answer = answer
      /\ row.state = state /\ row.cart = body
  <2>1. state \in SettlementState
    BY DEF SettlementState
  <2>2. answer \in Answers
    BY <1>4, <2>1 DEF Answers
  <2>3. answer # Absent
    BY <2>2, PurchaseAssumption DEF Answers
  <2>4. answer.ok /\ answer.sid = n /\ answer.state = state /\ entry.answer = answer
    OBVIOUS
  <2>5. entry.key = body.id /\ entry.body = body /\ row.state = state /\ row.cart = body
    OBVIOUS
  <2>6. Accepted(entry) /\ Answered(entry)
    BY <2>3, <2>4 DEF Accepted, Answered
  <2> QED  BY <2>2, <2>3, <2>4, <2>5, <2>6
<1>6. keys' = keys \cup {entry} /\ \A k \in keys : k.key # body.id
  BY <1>2 DEF Entries
<1>7. \A s \in DOMAIN rows : rows[s].cart.id # body.id
  BY <1>2, FreeKeyHasNoRow
<1>8. row = [state |-> row.state, cart |-> row.cart]
  BY <1>5
<1> HIDE DEF n, answer, entry, row
<1>9. RowsTyped'
  BY <1>3, <1>4, <1>8 DEF RowsTyped, Typed
<1>10. (\A k \in keys : k.answer \in Answers \cup {Absent})'
  BY <1>5, <1>6 DEF Typed
<1>11. KeyInv'
  <2>1. \A k, l \in keys' : k.key = l.key => k = l
    BY <1>5, <1>6 DEF KeyInv
  <2>2. \A k \in keys' : Accepted(k) =>
          /\ k.answer.sid \in DOMAIN rows' /\ rows'[k.answer.sid].cart = k.body
          /\ k.answer.state = "rejected" => rows'[k.answer.sid].state = "rejected"
    <3> SUFFICES ASSUME NEW k \in keys', Accepted(k)
                 PROVE  /\ k.answer.sid \in DOMAIN rows' /\ rows'[k.answer.sid].cart = k.body
                        /\ k.answer.state = "rejected" => rows'[k.answer.sid].state = "rejected"
      OBVIOUS
    <3>1. CASE k = entry
      BY <1>3, <1>4, <1>5, <3>1
    <3>2. CASE k \in keys
      <4>1. /\ k.answer.sid \in DOMAIN rows /\ rows[k.answer.sid].cart = k.body
            /\ k.answer.state = "rejected" => rows[k.answer.sid].state = "rejected"
        BY <3>2 DEF KeyInv
      <4> QED  BY <4>1, <1>3, <1>4
    <3> QED  BY <3>1, <3>2, <1>6
  <2>3. \A k \in keys' : Answered(k) => k.body.id = k.key
    BY <1>5, <1>6 DEF KeyInv
  <2>4. \A s \in DOMAIN rows' : \E k \in keys' :
          k.key = rows'[s].cart.id /\ Accepted(k) /\ k.answer.sid = s
    BY <1>3, <1>4, <1>5, <1>6 DEF KeyInv
  <2> QED  BY <2>1, <2>2, <2>3, <2>4 DEF KeyInv
<1>12. ASSUME NEW q, CallKnows(q) PROVE CallKnows(q)'
  <2>1. ASSUME Lapsed(q.cart.id) PROVE Lapsed(q.cart.id)'
    <3>1. q.cart.id # body.id
      BY <1>6, <2>1 DEF Lapsed
    <3> QED  BY <1>3, <1>4, <1>5, <1>6, <2>1, <3>1 DEF Lapsed
  <2>2. q.step = "polling" => q.sid \in DOMAIN rows' /\ rows'[q.sid].cart = q.cart
    BY <1>3, <1>4, <1>12 DEF CallKnows
  <2>3. q.step = "told" /\ q.report = "captured" =>
          q.sid \in DOMAIN rows' /\ rows'[q.sid].state = "captured" /\ rows'[q.sid].cart = q.cart
    BY <1>3, <1>4, <1>12 DEF CallKnows
  <2> QED  BY <1>12, <2>1, <2>2, <2>3 DEF CallKnows
<1> QED  BY <1>9, <1>10, <1>11, <1>12

\* The tables after a settlement has moved.
LEMMA RowMovesKeeps ==
  ASSUME Typed, KeyInv, RowMoves
  PROVE  /\ RowsTyped' /\ KeyInv'
         /\ \A q : CallKnows(q) => CallKnows(q)'
<1>1. PICK s \in DOMAIN rows, to \in SettlementState :
        /\ rows[s].state \notin TerminalSettlement
        /\ rows' = [rows EXCEPT ![s].state = to] /\ UNCHANGED keys
  BY DEF RowMoves
<1>2. rows' = [rows EXCEPT ![s] = [state |-> to, cart |-> rows[s].cart]]
  <2>1. rows[s] = [state |-> rows[s].state, cart |-> rows[s].cart]
    BY DEF Typed, RowsTyped
  <2>2. [rows[s] EXCEPT !.state = to] = [state |-> to, cart |-> rows[s].cart]
    BY <2>1
  <2> QED  BY <1>1, <2>2
<1>3. /\ DOMAIN rows' = DOMAIN rows
      /\ \A t \in DOMAIN rows : rows'[t].cart = rows[t].cart
      /\ \A t \in DOMAIN rows : t # s => rows'[t] = rows[t]
      /\ rows'[s] = [state |-> to, cart |-> rows[s].cart]
  BY <1>2
<1>4. /\ rows[s].state # "captured" /\ rows[s].state # "rejected"
      /\ rows[s].state \notin ReleasedSettlement
  BY <1>1 DEF TerminalSettlement, ReleasedSettlement
<1>5. \E S : rows' \in Seq(S)
  <2>1. PICK S : rows \in Seq(S)
    BY DEF Typed, RowsTyped
  <2>2. rows' \in Seq(S \cup {rows'[s]})
    BY <2>1, <1>2
  <2> QED  BY <2>2
<1>6. RowsTyped'
  BY <1>3, <1>5 DEF Typed, RowsTyped
<1>7. KeyInv'
  <2>1. \A k, l \in keys' : k.key = l.key => k = l
    BY <1>1 DEF KeyInv
  <2>2. \A k \in keys' : Accepted(k) =>
          /\ k.answer.sid \in DOMAIN rows' /\ rows'[k.answer.sid].cart = k.body
          /\ k.answer.state = "rejected" => rows'[k.answer.sid].state = "rejected"
    <3> SUFFICES ASSUME NEW k \in keys, Accepted(k)
                 PROVE  /\ k.answer.sid \in DOMAIN rows' /\ rows'[k.answer.sid].cart = k.body
                        /\ k.answer.state = "rejected" => rows'[k.answer.sid].state = "rejected"
      BY <1>1
    <3>1. /\ k.answer.sid \in DOMAIN rows /\ rows[k.answer.sid].cart = k.body
          /\ k.answer.state = "rejected" => rows[k.answer.sid].state = "rejected"
      BY DEF KeyInv
    <3> QED  BY <3>1, <1>3, <1>4
  <2>3. \A k \in keys' : Answered(k) => k.body.id = k.key
    BY <1>1 DEF KeyInv
  <2>4. \A t \in DOMAIN rows' : \E k \in keys' :
          k.key = rows'[t].cart.id /\ Accepted(k) /\ k.answer.sid = t
    BY <1>1, <1>3 DEF KeyInv
  <2> QED  BY <2>1, <2>2, <2>3, <2>4 DEF KeyInv
<1>8. ASSUME NEW q, CallKnows(q) PROVE CallKnows(q)'
  <2>1. ASSUME Lapsed(q.cart.id) PROVE Lapsed(q.cart.id)'
    BY <1>1, <1>3, <1>4, <2>1 DEF Lapsed
  <2> QED  BY <1>8, <2>1, <1>3, <1>4 DEF CallKnows
<1> QED  BY <1>6, <1>7, <1>8

\* The tables after a key has been claimed, dropped or refused.
LEMMA KeysKeep ==
  ASSUME Typed, KeyInv, KeyLocks \/ KeyDrops \/ KeyRefuses
  PROVE  /\ RowsTyped' /\ (\A k \in keys : k.answer \in Answers \cup {Absent})' /\ KeyInv'
         /\ \A q : CallKnows(q) => CallKnows(q)'
<1>1. UNCHANGED rows
  BY DEF KeyLocks, KeyDrops, KeyRefuses
<1>2. RowsTyped'
  BY <1>1 DEF Typed, RowsTyped
<1>3. \E dropped, added :
        /\ keys' = (keys \ dropped) \cup added
        /\ \A k \in dropped : ~Answered(k)
        /\ \A k \in added : /\ Entries(k.key) = {} /\ ~Accepted(k)
                            /\ k.answer \in Answers \cup {Absent}
                            /\ Answered(k) => k.body.id = k.key
        /\ \A k, l \in added : k = l
  <2>1. CASE KeyLocks
    <3>1. PICK key, body :
            Entries(key) = {} /\ keys' = keys \cup {[key |-> key, body |-> body, answer |-> Absent]}
      BY <2>1 DEF KeyLocks
    <3> DEFINE entry == [key |-> key, body |-> body, answer |-> Absent]
    <3>2. entry.key = key /\ ~Answered(entry) /\ ~Accepted(entry) /\ entry.answer = Absent
      BY DEF Answered, Accepted
    <3>3. keys' = (keys \ {}) \cup {entry}
      BY <3>1
    <3> HIDE DEF entry
    <3>4. \A k \in {entry} : /\ Entries(k.key) = {} /\ ~Accepted(k)
                             /\ k.answer \in Answers \cup {Absent}
                             /\ Answered(k) => k.body.id = k.key
      BY <3>1, <3>2
    <3> QED  BY <3>3, <3>4
  <2>2. CASE KeyDrops
    <3>1. PICK k \in keys : ~Answered(k) /\ keys' = keys \ {k}
      BY <2>2 DEF KeyDrops
    <3>2. keys' = (keys \ {k}) \cup {}
      BY <3>1
    <3> QED  BY <3>1, <3>2
  <2>3. CASE KeyRefuses
    <3>1. PICK body : /\ Entries(body.id) = {}
                      /\ keys' = keys \cup {[key |-> body.id, body |-> body, answer |-> Refused]}
      BY <2>3 DEF KeyRefuses
    <3> DEFINE entry == [key |-> body.id, body |-> body, answer |-> Refused]
    <3>2. Refused \in Answers /\ ~Refused.ok
      BY DEF Answers, Refused
    <3>3. entry.key = body.id /\ entry.body = body /\ entry.answer = Refused
      OBVIOUS
    <3>4. keys' = (keys \ {}) \cup {entry}
      BY <3>1
    <3> HIDE DEF entry
    <3>5. ~Accepted(entry)
      BY <3>2, <3>3 DEF Accepted
    <3>6. \A k \in {entry} : /\ Entries(k.key) = {} /\ ~Accepted(k)
                             /\ k.answer \in Answers \cup {Absent}
                             /\ Answered(k) => k.body.id = k.key
      BY <3>1, <3>2, <3>3, <3>5
    <3> QED  BY <3>4, <3>6
  <2> QED  BY <2>1, <2>2, <2>3
<1>4. PICK dropped, added :
        /\ keys' = (keys \ dropped) \cup added
        /\ \A k \in dropped : ~Answered(k)
        /\ \A k \in added : /\ Entries(k.key) = {} /\ ~Accepted(k)
                            /\ k.answer \in Answers \cup {Absent}
                            /\ Answered(k) => k.body.id = k.key
        /\ \A k, l \in added : k = l
  BY <1>3
<1>5. (\A k \in keys : k.answer \in Answers \cup {Absent})'
  BY <1>4 DEF Typed
<1>6. KeyInv'
  <2>1. \A k, l \in keys' : k.key = l.key => k = l
    BY <1>4 DEF KeyInv, Entries
  <2>2. \A k \in keys' : Accepted(k) =>
          /\ k.answer.sid \in DOMAIN rows' /\ rows'[k.answer.sid].cart = k.body
          /\ k.answer.state = "rejected" => rows'[k.answer.sid].state = "rejected"
    BY <1>1, <1>4 DEF KeyInv
  <2>3. \A k \in keys' : Answered(k) => k.body.id = k.key
    BY <1>4 DEF KeyInv
  <2>4. \A s \in DOMAIN rows' : \E k \in keys' :
          k.key = rows'[s].cart.id /\ Accepted(k) /\ k.answer.sid = s
    BY <1>1, <1>4 DEF KeyInv, Accepted
  <2> QED  BY <2>1, <2>2, <2>3, <2>4 DEF KeyInv
<1>7. ASSUME NEW q, CallKnows(q) PROVE CallKnows(q)'
  <2>1. ASSUME Lapsed(q.cart.id) PROVE Lapsed(q.cart.id)'
    BY <1>1, <1>4, <2>1 DEF Lapsed
  <2> QED  BY <1>1, <1>7, <2>1 DEF CallKnows
<1> QED  BY <1>2, <1>5, <1>6, <1>7

LEMMA TableStepKeeps ==
  ASSUME Typed, KeyInv, TableStep
  PROVE  /\ RowsTyped' /\ (\A k \in keys : k.answer \in Answers \cup {Absent})' /\ KeyInv'
         /\ \A q : CallKnows(q) => CallKnows(q)'
<1>1. CASE TablesStay
  BY <1>1 DEF TablesStay, Typed, RowsTyped, KeyInv, CallKnows, Lapsed
<1>2. CASE KeyLocks \/ KeyDrops \/ KeyRefuses
  BY <1>2, KeysKeep
<1>3. CASE RowJoins
  BY <1>3, RowJoinsKeeps
<1>4. CASE RowMoves
  <2>1. UNCHANGED keys
    BY <1>4 DEF RowMoves
  <2> QED  BY <1>4, <2>1, RowMovesKeeps DEF Typed
<1> QED  BY <1>1, <1>2, <1>3, <1>4 DEF TableStep

-----------------------------------------------------------------------------
(* The attempts and their requests.                                        *)

LEMMA CallStepKeeps ==
  ASSUME IInv, CallStep, \A q : CallKnows(q) => CallKnows(q)'
  PROVE  /\ DOMAIN call' = Call /\ \A c \in Call : CallShape(call'[c])
         /\ NetInv' /\ CallInv'
<1>1. /\ DOMAIN call = Call /\ \A c \in Call : CallShape(call[c])
      /\ NetInv /\ CallInv
  BY DEF IInv, Typed
<1>2. ASSUME NEW d \in Call, call'[d] = call[d] PROVE CallKnows(call[d])'
  <2>1. PICK q : q = call[d]
    OBVIOUS
  <2>2. CallKnows(q)'
    BY <1>1, <2>1 DEF CallInv
  <2> QED  BY <1>2, <2>1, <2>2 DEF CallKnows, Lapsed
<1>3. CASE UNCHANGED <<call, net>>
  BY <1>1, <1>2, <1>3 DEF NetInv, CallInv
<1>4. CASE ~UNCHANGED <<call, net>>
  <2>1. PICK c \in Call : CallMoves(c) /\ (NetKeeps(c) \/ NetPosts(c) \/ NetAnswers(c))
    BY <1>4 DEF CallStep
  <2>2. CallInv'
    BY <1>2, <2>1 DEF CallInv, CallMoves
  <2>3. CASE NetKeeps(c)
    BY <1>1, <2>1, <2>2, <2>3 DEF CallMoves, NetKeeps, NetInv
  <2>4. CASE NetPosts(c)
    BY <1>1, <2>1, <2>2, <2>4 DEF CallMoves, NetPosts, NetInv
  <2>5. CASE NetAnswers(c)
    BY <1>1, <2>1, <2>2, <2>5 DEF CallMoves, NetAnswers, NetInv
  <2> QED  BY <2>1, <2>3, <2>4, <2>5
<1> QED  BY <1>3, <1>4

-----------------------------------------------------------------------------
(* What the operators of a step do.                                        *)

\* What Told makes of its arguments.
LEMMA ToldSays ==
  ASSUME NEW q, NEW report, NEW sid
  PROVE  /\ Told(q, report, sid).errand = q.errand /\ Told(q, report, sid).step = "told"
         /\ Told(q, report, sid).report = Reported(q.errand.by, report)
         /\ Told(q, report, sid).sid = sid
         /\ "cart" \in DOMAIN q => Told(q, report, sid).cart = q.cart
BY DEF Told

\* Who words an outcome less finely does not make it a capture or a failure.
LEMMA NoWorse ==
  ASSUME NEW by, NEW outcome
  PROVE  /\ Reported(by, outcome) = "captured" => outcome = "captured"
         /\ Reported(by, outcome) = "not completed" => outcome = "not completed"
BY DEF Reported, toOutcome

\* An attempt that is over, with nothing said of money.
LEMMA TellMoves ==
  ASSUME IInv, NEW c \in Call, call[c] # Idle, NEW report, NEW sid,
         report \notin {"captured", "not completed"}, Tell(c, report, sid)
  PROVE  CallMoves(c)
<1>1. DOMAIN call = Call /\ call[c].errand \in Errand
  <2>1. DOMAIN call = Call /\ (call[c] = Idle \/ CallShape(call[c]))
    BY DEF IInv, Typed
  <2> QED  BY <2>1 DEF CallShape
<1> PICK old : old = call[c]
  OBVIOUS
<1> DEFINE q == Told(old, report, sid)
<1>2. call' = [call EXCEPT ![c] = q]
  BY DEF Tell
<1>3. q.errand = old.errand /\ q.step = "told" /\ q.report = Reported(old.errand.by, report)
  <2>1. \A r, t : Told(old, r, t).errand = old.errand /\ Told(old, r, t).step = "told"
                  /\ Told(old, r, t).report = Reported(old.errand.by, r)
    BY DEF Told
  <2> QED  BY <2>1, Zenon
<1> HIDE DEF q
<1>4. q.report \notin {"captured", "not completed"}
  BY <1>3, NoWorse
<1>5. call'[c] = q
  BY <1>1, <1>2
<1>6. CallShape(call'[c])
  BY <1>1, <1>3, <1>5 DEF CallShape
<1>7. CallKnows(call[c])'
  BY <1>3, <1>4, <1>5 DEF CallKnows
<1> QED  BY <1>1, <1>2, <1>6, <1>7 DEF CallMoves

\* An attempt that goes on to a step before its POST.
LEMMA ThinkMoves ==
  ASSUME IInv, NEW c \in Call, NEW q, call' = [call EXCEPT ![c] = q], CallShape(q),
         q.step \notin {"polling", "told"}
  PROVE  CallMoves(c)
<1>1. DOMAIN call = Call
  BY DEF IInv, Typed
<1>2. CallKnows(call[c])'
  BY <1>1 DEF CallKnows
<1> QED  BY <1>1, <1>2 DEF CallMoves

\* A POST: the cart's id is the key.
LEMMA PostMoves ==
  ASSUME IInv, NEW c \in Call, call[c] # Idle, call[c].step # "posted",
         NEW cart, NEW list, cart.id = IdempotencyKey(c, cart), Post(c, cart, list)
  PROVE  CallMoves(c) /\ NetPosts(c)
<1> DEFINE q == [errand |-> call[c].errand, step |-> "posted", cart |-> cart, list |-> list]
<1>1. DOMAIN call = Call /\ call[c].errand \in Errand
  BY DEF IInv, Typed, CallShape
<1>2. call' = [call EXCEPT ![c] = q]
  BY DEF Post
<1>3. CallShape(q) /\ q.step = "posted" /\ q.cart = cart
  BY <1>1 DEF CallShape
<1>4. net' = net \cup {[call |-> c, key |-> cart.id, body |-> cart]}
  BY DEF Post
<1> HIDE DEF q
<1>5. call'[c] = q
  BY <1>1, <1>2
<1>6. CallMoves(c)
  BY <1>2, <1>3, ThinkMoves
<1> QED  BY <1>3, <1>4, <1>5, <1>6 DEF NetPosts

\* A brain that buys, or finds nothing to buy.
LEMMA BuyMoves ==
  ASSUME IInv, NEW c \in Call, call[c] # Idle, call[c].step # "posted",
         NEW picked, NEW list, Buy(c, picked, list)
  PROVE  CallMoves(c) /\ (NetKeeps(c) \/ NetPosts(c))
<1>1. CASE picked = <<>>
  BY <1>1, TellMoves DEF Buy, NetKeeps
<1>2. CASE picked # <<>>
  <2>1. PICK cart : cart = Cart(c, Head(picked), Absent, 1)
    OBVIOUS
  <2>2. cart.id = IdempotencyKey(c, cart)
    BY <2>1 DEF Cart, IdempotencyKey
  <2>3. Post(c, cart, list)
    BY <1>2, <2>1 DEF Buy
  <2> QED  BY <2>2, <2>3, PostMoves
<1> QED  BY <1>1, <1>2

\* An answer to a POST that is so by the time its caller has it.
AnswerFits(answer, cart) ==
  answer = Contested \/
  /\ answer \in Answers
  /\ ~answer.ok \/ answer.state = "rejected" => Lapsed(cart.id)
  /\ answer.ok => answer.sid \in DOMAIN rows /\ rows[answer.sid].cart = cart

LEMMA RespondMoves ==
  ASSUME IInv, NEW r \in net, NEW answer, Respond(r, answer), AnswerFits(answer, r.body)'
  PROVE  r.call \in Call /\ CallMoves(r.call) /\ NetAnswers(r.call)
<1> DEFINE c == r.call
           q == call[c]
           cart == r.body
<1>1. /\ DOMAIN call = Call /\ c \in Call /\ q.step = "posted" /\ q.cart = cart
      /\ q = [errand |-> q.errand, step |-> "posted", cart |-> q.cart, list |-> q.list]
      /\ q.errand \in Errand /\ q # Idle
  <2>1. c \in Call /\ q.step = "posted" /\ q.cart = cart
    BY DEF IInv, NetInv
  <2>2. q # Idle
    BY <2>1 DEF Idle
  <2> QED  BY <2>1, <2>2 DEF IInv, Typed, CallShape
<1>2. NetAnswers(c)
  BY DEF Respond, NetAnswers
<1>3. CASE Tell(c, "error", 0)
  <2>1. CallMoves(c)
    <3>1. c \in Call /\ call[c] # Idle
      BY <1>1
    <3>2. "error" \notin {"captured", "not completed"}
      OBVIOUS
    <3> HIDE DEF c
    <3> QED  BY <1>3, <3>1, <3>2, TellMoves
  <2> QED  BY <1>1, <1>2, <2>1
<1>4. CASE call' = [call EXCEPT ![c] = Understood(c, answer)]
  <2>1. call'[c] = Understood(c, answer) /\ \A d \in Call \ {c} : call'[d] = call[d]
    BY <1>1, <1>4
  <2>2. DOMAIN call' = Call
    BY <1>1, <1>4
  <2>3. ASSUME NEW report, NEW sid, call'[c] = Told(q, report, sid)
        PROVE  /\ call'[c].errand \in Errand /\ call'[c].step = "told" /\ call'[c].cart = cart
               /\ call'[c].report = Reported(q.errand.by, report)
    <3>1. \E e, l : q = [errand |-> e, step |-> "posted", cart |-> q.cart, list |-> l]
      BY <1>1
    <3>2. "cart" \in DOMAIN q
      BY <3>1
    <3>3. PICK t : t = Told(q, report, sid)
      OBVIOUS
    <3>4. t.errand = q.errand /\ t.step = "told" /\ t.cart = q.cart
          /\ t.report = Reported(q.errand.by, report)
      BY <3>2, <3>3, ToldSays
    <3> QED  BY <1>1, <2>3, <3>3, <3>4
  <2>4. CASE answer = Contested
    <3>1. \E sid : call'[c] = Told(q, "ambiguous", sid)
      BY <2>1, <2>4 DEF Understood
    <3>2. /\ call'[c].errand \in Errand /\ call'[c].step = "told"
          /\ call'[c].report # "captured" /\ call'[c].report # "not completed"
      <4>1. /\ call'[c].errand \in Errand /\ call'[c].step = "told"
            /\ call'[c].report = Reported(q.errand.by, "ambiguous")
        BY <2>3, <3>1
      <4> QED  BY <4>1, NoWorse
    <3>3. CallShape(call'[c])
      BY <3>2 DEF CallShape
    <3>4. CallKnows(call[c])'
      BY <3>2 DEF CallKnows
    <3> QED  BY <1>1, <1>2, <2>1, <2>2, <3>3, <3>4 DEF CallMoves
  <2>5. CASE answer # Contested /\ (~answer.ok \/ answer.state = "rejected")
    <3>1. \E sid : call'[c] = Told(q, "not completed", sid)
      BY <2>1, <2>5 DEF Understood
    <3>2. /\ call'[c].errand \in Errand /\ call'[c].step = "told"
          /\ call'[c].report # "captured" /\ call'[c].cart = cart
      <4>1. /\ call'[c].errand \in Errand /\ call'[c].step = "told" /\ call'[c].cart = cart
            /\ call'[c].report = Reported(q.errand.by, "not completed")
        BY <2>3, <3>1
      <4> QED  BY <4>1, NoWorse
    <3>3. Lapsed(cart.id)'
      BY <2>5 DEF AnswerFits
    <3>4. CallShape(call'[c])
      BY <3>2 DEF CallShape
    <3>5. CallKnows(call[c])'
      BY <3>2, <3>3 DEF CallKnows, Lapsed
    <3> QED  BY <1>1, <1>2, <2>1, <2>2, <3>4, <3>5 DEF CallMoves
  <2>6. CASE answer # Contested /\ answer.ok /\ answer.state = "pending_approval"
    <3>1. \E sid : call'[c] = Told(q, "pending", sid)
      BY <2>1, <2>6 DEF Understood
    <3>2. /\ call'[c].errand \in Errand /\ call'[c].step = "told"
          /\ call'[c].report # "captured" /\ call'[c].report # "not completed"
      <4>1. /\ call'[c].errand \in Errand /\ call'[c].step = "told"
            /\ call'[c].report = Reported(q.errand.by, "pending")
        BY <2>3, <3>1
      <4> QED  BY <4>1, NoWorse
    <3>3. CallShape(call'[c])
      BY <3>2 DEF CallShape
    <3>4. CallKnows(call[c])'
      BY <3>2 DEF CallKnows
    <3> QED  BY <1>1, <1>2, <2>1, <2>2, <3>3, <3>4 DEF CallMoves
  <2>7. CASE answer # Contested /\ answer.ok /\ answer.state \notin {"rejected", "pending_approval"}
    <3>1. call'[c] = Polling(q, answer.sid)
      BY <2>1, <2>7 DEF Understood
    <3>2. /\ call'[c].errand \in Errand /\ call'[c].step = "polling"
          /\ call'[c].sid = answer.sid /\ call'[c].cart = cart
          /\ call'[c] = Polling(call'[c], call'[c].sid)
      BY <1>1, <3>1 DEF Polling
    <3>3. CallShape(call'[c])
      BY <3>2 DEF CallShape
    <3>4. answer.sid \in DOMAIN rows' /\ rows'[answer.sid].cart = cart
      BY <2>7 DEF AnswerFits
    <3>5. CallKnows(call[c])'
      BY <3>2, <3>4 DEF CallKnows
    <3> QED  BY <1>1, <1>2, <2>1, <2>2, <3>3, <3>5 DEF CallMoves
  <2> QED  BY <2>4, <2>5, <2>6, <2>7
<1> QED  BY <1>3, <1>4 DEF Respond

-----------------------------------------------------------------------------
(* The actions.                                                            *)

Fine == TableStep /\ CallStep

\* An attempt that only moves, its tables and the others' as they were.
LEMMA MovesFine ==
  ASSUME NEW c \in Call, CallMoves(c), NetKeeps(c) \/ NetPosts(c), UNCHANGED <<keys, rows>>
  PROVE  Fine
BY DEF Fine, TableStep, TablesStay, CallStep

LEMMA BeginFine == ASSUME IInv, NEW c \in Call, Begin(c) PROVE Fine
<1>1. call[c].step # "posted" /\ net' = net /\ UNCHANGED <<keys, rows>>
  BY DEF Begin, Idle
<1>2. PICK e \in Errand :
        call' = [call EXCEPT ![c] =
          IF e.by = "tool" /\ ~WellFormed(e) THEN Told([errand |-> e], "refused", 0)
          ELSE [errand |-> e, step |-> CASE e.by = "tool" -> "mandates"
                                         [] e.by = "page" -> "select"
                                         [] OTHER         -> "search"]]
  BY DEF Begin
<1>3. CallMoves(c)
  <2>1. CASE e.by = "tool" /\ ~WellFormed(e)
    <3>1. DOMAIN call' = Call /\ \A d \in Call \ {c} : call'[d] = call[d]
      BY <1>2 DEF IInv, Typed
    <3>2. call'[c] = Told([errand |-> e], "refused", 0)
      BY <1>2, <2>1 DEF IInv, Typed
    <3>3. call'[c].errand = e /\ call'[c].step = "told" /\ call'[c].report = "refused"
      BY <2>1, <3>2 DEF Told, Reported
    <3>4. CallShape(call'[c])
      BY <3>3 DEF CallShape
    <3>5. CallKnows(call[c])'
      BY <3>3 DEF CallKnows
    <3> QED  BY <3>1, <3>4, <3>5 DEF CallMoves
  <2>2. CASE ~(e.by = "tool" /\ ~WellFormed(e))
    <3>1. PICK step : step = CASE e.by = "tool" -> "mandates"
                               [] e.by = "page" -> "select"
                               [] OTHER         -> "search"
      OBVIOUS
    <3>2. step \in {"mandates", "select", "search"} /\ (step = "select" => e.by = "page")
      BY <3>1
    <3>3. PICK q : q = [errand |-> e, step |-> step]
      OBVIOUS
    <3>4. call' = [call EXCEPT ![c] = q]
      BY <1>2, <2>2, <3>1, <3>3
    <3>5. q.errand = e /\ q.step = step /\ q = [errand |-> q.errand, step |-> q.step]
      BY <3>3
    <3>6. CallShape(q) /\ q.step \notin {"polling", "told"}
      BY <3>2, <3>5 DEF CallShape
    <3> QED  BY <3>4, <3>6, ThinkMoves
  <2> QED  BY <2>1, <2>2
<1> QED  BY <1>1, <1>3, MovesFine DEF NetKeeps

\* What an attempt at work is not: idle, or waiting for its POST.
LEMMA AtWork ==
  ASSUME IInv, NEW c \in Call, call[c].step \notin {"idle", "posted"}
  PROVE  call[c] # Idle /\ call[c].errand \in Errand
BY DEF IInv, Typed, CallShape, Idle

\* A call that is over early, its request never sent.
LEMMA EndsFine ==
  ASSUME IInv, NEW c \in Call, call[c].step \notin {"idle", "posted"}, NEW report, NEW sid,
         report \notin {"captured", "not completed"}, Tell(c, report, sid),
         UNCHANGED <<keys, rows, net>>
  PROVE  Fine
<1>1. CallMoves(c)
  BY AtWork, TellMoves
<1> QED  BY <1>1, MovesFine DEF NetKeeps

LEMMA FetchFailsFine == ASSUME IInv, NEW c \in Call, FetchFails(c) PROVE Fine
BY EndsFine DEF FetchFails

LEMMA ListMandatesFine == ASSUME IInv, NEW c \in Call, ListMandates(c) PROVE Fine
<1>1. call[c].step = "mandates" /\ UNCHANGED <<keys, rows, net>>
  BY DEF ListMandates, At
<1>2. CASE Tell(c, "refused", 0)
  BY <1>1, <1>2, EndsFine
<1>3. CASE call' = [call EXCEPT ![c].step = "catalog"]
  <2>1. call[c] = [errand |-> call[c].errand, step |-> "mandates"] /\ call[c].errand \in Errand
    BY <1>1, AtWork DEF IInv, Typed, CallShape
  <2>2. PICK q : q = [errand |-> call[c].errand, step |-> "catalog"]
    OBVIOUS
  <2>3. [call[c] EXCEPT !.step = "catalog"] = q
    BY <2>1, <2>2
  <2>4. call' = [call EXCEPT ![c] = q]
    BY <1>3, <2>3
  <2>5. CallShape(q) /\ q.step \notin {"polling", "told"}
    BY <2>1, <2>2 DEF CallShape
  <2>6. CallMoves(c)
    BY <2>4, <2>5, ThinkMoves
  <2> QED  BY <1>1, <2>6, MovesFine DEF NetKeeps
<1> QED  BY <1>2, <1>3 DEF ListMandates

LEMMA GetCatalogFine == ASSUME IInv, NEW c \in Call, GetCatalog(c) PROVE Fine
<1>1. call[c].step = "catalog" /\ UNCHANGED <<keys, rows>> /\ call[c] # Idle
  BY AtWork DEF GetCatalog, At
<1>2. CASE net' = net /\ \E report \in {"refused", "nothing was charged"} : Tell(c, report, 0)
  <2>1. PICK report \in {"refused", "nothing was charged"} : Tell(c, report, 0)
    BY <1>2
  <2>2. report \notin {"captured", "not completed"}
    OBVIOUS
  <2> QED  BY <1>1, <1>2, <2>1, <2>2, EndsFine
<1>3. ASSUME NEW product, NEW variant, NEW qty, NEW list, Post(c, Cart(c, product, variant, qty), list)
      PROVE  Fine
  <2>1. PICK cart : cart = Cart(c, product, variant, qty)
    OBVIOUS
  <2>2. cart.id = IdempotencyKey(c, cart)
    BY <2>1 DEF Cart, IdempotencyKey
  <2>3. CallMoves(c) /\ NetPosts(c)
    BY <1>1, <1>3, <2>1, <2>2, PostMoves
  <2> QED  BY <1>1, <2>3, MovesFine
<1> QED  BY <1>2, <1>3 DEF GetCatalog

\* The brains.
LEMMA BuyFine ==
  ASSUME IInv, NEW c \in Call, call[c].step \notin {"idle", "posted"}, NEW picked, NEW list,
         Buy(c, picked, list), UNCHANGED <<keys, rows>>
  PROVE  Fine
BY AtWork, BuyMoves, MovesFine

LEMMA SearchFine == ASSUME IInv, NEW c \in Call, Search(c) PROVE Fine
BY BuyFine DEF Search, At

LEMMA ConsultFine == ASSUME IInv, NEW c \in Call, Consult(c) PROVE Fine
<1>1. call[c].step = "search" /\ UNCHANGED <<keys, rows, net>> /\ call[c].errand \in Errand
  BY AtWork DEF Consult, At
<1>2. PICK q : q = [errand |-> call[c].errand, step |-> "asked", list |-> searchCatalog(call[c].errand)]
  OBVIOUS
<1>3. call' = [call EXCEPT ![c] = q]
  BY <1>2 DEF Consult
<1>4. CallShape(q) /\ q.step \notin {"polling", "told"}
  BY <1>1, <1>2 DEF CallShape
<1> QED  BY <1>1, <1>3, <1>4, ThinkMoves, MovesFine DEF NetKeeps

LEMMA AskedLlmFine == ASSUME IInv, NEW c \in Call, AskedLlm(c) PROVE Fine
BY BuyFine DEF AskedLlm, At

LEMMA AskedClaudeFine == ASSUME IInv, NEW c \in Call, AskedClaude(c) PROVE Fine
<1>1. call[c].step = "asked" /\ UNCHANGED <<keys, rows>>
  BY DEF AskedClaude, At
<1>2. CASE Tell(c, "error", 0) /\ UNCHANGED net
  BY <1>1, <1>2, EndsFine
<1>3. CASE ~(Tell(c, "error", 0) /\ UNCHANGED net)
  <2>1. \E picked : Buy(c, picked, call[c].list)
    BY <1>3 DEF AskedClaude
  <2> QED  BY <1>1, <2>1, BuyFine
<1> QED  BY <1>2, <1>3

\* A cart under the call's own id: only the tool's callers have a token.
LEMMA OwnIdFine ==
  ASSUME IInv, NEW c \in Call, call[c].step \notin {"idle", "posted"}, call[c].errand.by # "tool",
         NEW cart, cart.id = c, NEW list, Post(c, cart, list), UNCHANGED <<keys, rows>>
  PROVE  Fine
<1>1. call[c] # Idle /\ call[c].errand \in Errand
  BY AtWork
<1>2. call[c].errand.token = Absent
  BY <1>1, PurchaseAssumption
<1>3. cart.id = IdempotencyKey(c, cart)
  BY <1>2 DEF IdempotencyKey
<1>4. CallMoves(c) /\ NetPosts(c)
  BY <1>1, <1>3, PostMoves
<1> QED  BY <1>4, MovesFine

LEMMA FooledFine == ASSUME IInv, NEW c \in Call, Fooled(c) PROVE Fine
<1>1. /\ call[c].step = "search" /\ call[c].errand.by = "fooled" /\ UNCHANGED <<keys, rows>>
  BY DEF Fooled, At, By
<1>2. PICK cart : cart = [id |-> c, sku |-> Poison.sku, variant |-> Absent, qty |-> 1, price |-> Poison.price]
  OBVIOUS
<1>3. cart.id = c /\ Post(c, cart, <<>>)
  BY <1>2 DEF Fooled
<1> QED  BY <1>1, <1>3, OwnIdFine

\* The dashboard's page.
LEMMA SelectListFine == ASSUME IInv, NEW c \in Call, SelectList(c) PROVE Fine
<1>1. /\ call[c].step = "select" /\ UNCHANGED <<keys, rows, net>>
      /\ call[c].errand \in Errand /\ call[c].errand.by = "page"
  BY AtWork DEF SelectList, At, IInv, Typed, CallShape
<1>2. PICK q : q = [errand |-> call[c].errand, step |-> "advised", list |-> Shelf]
  OBVIOUS
<1>3. call' = [call EXCEPT ![c] = q]
  BY <1>2 DEF SelectList
<1>4. CallShape(q) /\ q.step \notin {"polling", "told"}
  BY <1>1, <1>2 DEF CallShape
<1> QED  BY <1>1, <1>3, <1>4, ThinkMoves, MovesFine DEF NetKeeps

LEMMA AdviseFine == ASSUME IInv, NEW c \in Call, Advise(c) PROVE Fine
<1>1. /\ call[c].step = "advised" /\ UNCHANGED <<keys, rows, net>>
      /\ call[c].errand \in Errand /\ call[c].errand.by = "page"
  BY AtWork DEF Advise, At, IInv, Typed, CallShape
<1>2. \E advice : call' = [call EXCEPT ![c] =
        [errand |-> call[c].errand, step |-> "shop", advice |-> advice]]
  BY DEF Advise
<1>3. PICK advice : call' = [call EXCEPT ![c] =
        [errand |-> call[c].errand, step |-> "shop", advice |-> advice]]
  BY <1>2
<1>4. PICK q : q = [errand |-> call[c].errand, step |-> "shop", advice |-> advice]
  OBVIOUS
<1>5. call' = [call EXCEPT ![c] = q]
  BY <1>3, <1>4
<1>6. CallShape(q) /\ q.step \notin {"polling", "told"}
  BY <1>1, <1>4 DEF CallShape
<1> QED  BY <1>1, <1>5, <1>6, ThinkMoves, MovesFine DEF NetKeeps

LEMMA ShopFine == ASSUME IInv, NEW c \in Call, Shop(c) PROVE Fine
<1>1. /\ call[c].step = "shop" /\ UNCHANGED <<keys, rows>> /\ call[c].errand.by = "page"
  BY DEF Shop, At, IInv, Typed, CallShape
<1>2. CASE Tell(c, "refused", 0) /\ UNCHANGED net
  BY <1>1, <1>2, EndsFine
<1>3. ASSUME NEW product, Post(c, buildUnsignedCart(c, product), Shelf) PROVE Fine
  <2>1. PICK cart : cart = buildUnsignedCart(c, product)
    OBVIOUS
  <2>2. cart.id = c
    BY <2>1 DEF buildUnsignedCart
  <2> QED  BY <1>1, <1>3, <2>1, <2>2, OwnIdFine
<1> QED  BY <1>2, <1>3 DEF Shop

LEMMA ShopFailsFine == ASSUME IInv, NEW c \in Call, ShopFails(c) PROVE Fine
BY EndsFine DEF ShopFails, At

\* The facilitator.
LEMMA KeyIsAnswered ==
  ASSUME NEW id, NEW body, NEW answer, answer # Absent,
         keys' = keys \cup {[key |-> id, body |-> body, answer |-> answer]}
  PROVE  \E k \in keys' : k.key = id /\ Answered(k)
<1>1. PICK entry : entry = [key |-> id, body |-> body, answer |-> answer]
  OBVIOUS
<1>2. entry.key = id /\ Answered(entry)
  BY <1>1 DEF Answered
<1>3. entry \in keys'
  BY <1>1
<1> QED  BY <1>2, <1>3

LEMMA CreateFine == ASSUME IInv, NEW r \in net, Create(r) PROVE Fine
<1>1. r.key = r.body.id /\ Entries(r.body.id) = {} /\ Typed /\ KeyInv
  BY DEF IInv, NetInv, Create
<1>2. \A s \in DOMAIN rows : rows[s].cart.id # r.body.id
  BY <1>1, FreeKeyHasNoRow
<1>3. ASSUME NEW answer, Respond(r, answer), AnswerFits(answer, r.body)', TableStep PROVE Fine
  BY <1>3, RespondMoves DEF Fine, CallStep
<1>4. CASE Clash(r.body)
  <2>1. Claim(r, Refused) /\ Respond(r, Refused) /\ UNCHANGED rows
    BY <1>4 DEF Create
  <2>2. keys' = keys \cup {[key |-> r.body.id, body |-> r.body, answer |-> Refused]}
    BY <1>1, <2>1 DEF Claim
  <2>3. TableStep
    BY <1>1, <2>1, <2>2 DEF TableStep, KeyRefuses
  <2>4. Refused \in Answers /\ Refused # Absent /\ ~Refused.ok
    <3>1. Refused \in Answers /\ ~Refused.ok
      BY DEF Answers, Refused
    <3> QED  BY <3>1, PurchaseAssumption DEF Answers
  <2>5. \E k \in keys' : k.key = r.body.id /\ Answered(k)
    BY <2>2, <2>4, KeyIsAnswered
  <2>6. Lapsed(r.body.id)'
    BY <1>2, <2>1, <2>5 DEF Lapsed
  <2>7. AnswerFits(Refused, r.body)'
    BY <2>4, <2>6 DEF AnswerFits
  <2> QED  BY <1>3, <2>1, <2>3, <2>7
<1>5. CASE ~Clash(r.body)
  <2>1. PICK state \in {"rejected", "pending_approval", "approved"} :
          LET answer == [ok |-> TRUE, sid |-> Len(rows) + 1, state |-> state]
          IN /\ rows' = Append(rows, [state |-> state, cart |-> r.body])
             /\ Claim(r, answer) /\ Respond(r, answer)
    BY <1>5 DEF Create, Verdict
  <2>2. PICK answer : answer = [ok |-> TRUE, sid |-> Len(rows) + 1, state |-> state]
    OBVIOUS
  <2>3. /\ rows' = Append(rows, [state |-> state, cart |-> r.body])
        /\ keys' = keys \cup {[key |-> r.body.id, body |-> r.body, answer |-> answer]}
        /\ Respond(r, answer)
    BY <1>1, <2>1, <2>2 DEF Claim
  <2>4. TableStep
    BY <1>1, <1>5, <2>2, <2>3 DEF TableStep, RowJoins
  <2>5. PICK row : row = [state |-> state, cart |-> r.body]
    OBVIOUS
  <2>6. /\ DOMAIN rows = 1 .. Len(rows) /\ Len(rows) \in Nat /\ DOMAIN rows' = 1 .. Len(rows) + 1
        /\ \A s \in DOMAIN rows : rows'[s] = rows[s]
        /\ rows'[Len(rows) + 1] = row
    BY <1>1, <2>3, <2>5, AppendKeeps DEF Typed
  <2>7. /\ answer.sid \in DOMAIN rows' /\ rows'[answer.sid] = row
        /\ \A s \in DOMAIN rows' : s \in DOMAIN rows \/ s = answer.sid
    BY <2>2, <2>6
  <2>8. answer \in Answers /\ answer # Absent /\ answer.ok /\ answer.state = state
    <3>1. state \in SettlementState /\ Len(rows) + 1 \in Nat
      BY <2>6 DEF SettlementState
    <3>2. answer \in Answers /\ answer.ok /\ answer.state = state
      BY <2>2, <3>1 DEF Answers
    <3> QED  BY <3>2, PurchaseAssumption DEF Answers
  <2>9. ASSUME state = "rejected" PROVE Lapsed(r.body.id)'
    <3>1. \E k \in keys' : k.key = r.body.id /\ Answered(k)
      BY <2>3, <2>8, KeyIsAnswered
    <3>2. \A s \in DOMAIN rows' : rows'[s].cart.id = r.body.id => rows'[s].state = "rejected"
      BY <1>2, <2>5, <2>6, <2>7, <2>9
    <3> QED  BY <3>1, <3>2 DEF Lapsed, ReleasedSettlement
  <2>10. rows'[answer.sid].cart = r.body
    BY <2>5, <2>7
  <2>11. AnswerFits(answer, r.body)'
    BY <2>7, <2>8, <2>9, <2>10 DEF AnswerFits
  <2> QED  BY <1>3, <2>3, <2>4, <2>11
<1> QED  BY <1>4, <1>5

LEMMA AgainFine == ASSUME IInv, NEW r \in net, Again(r) PROVE Fine
<1>1. UNCHANGED <<keys, rows>> /\ r.key = r.body.id /\ Typed /\ KeyInv
  BY DEF IInv, NetInv, Again
<1>2. PICK entry \in keys : entry.key = r.body.id /\ Respond(r, Replay(entry, r.body))
  BY <1>1 DEF Again, Entries
<1>3. PICK answer : answer = Replay(entry, r.body)
  OBVIOUS
<1>4. AnswerFits(answer, r.body)
  <2>1. CASE entry.body # r.body \/ entry.answer = Absent
    BY <1>3, <2>1 DEF Replay, AnswerFits
  <2>2. CASE entry.body = r.body /\ entry.answer # Absent
    <3>1. answer = entry.answer /\ answer \in Answers /\ Answered(entry)
      BY <1>1, <1>3, <2>2 DEF Replay, Typed, Answered
    <3>2. ASSUME answer.ok
          PROVE  /\ answer.sid \in DOMAIN rows /\ rows[answer.sid].cart = r.body
                 /\ answer.state = "rejected" => rows[answer.sid].state = "rejected"
      BY <1>1, <2>2, <3>1, <3>2 DEF KeyInv, Accepted
    <3>3. ASSUME ~answer.ok \/ answer.state = "rejected" PROVE Lapsed(r.body.id)
      <4>1. ASSUME NEW s \in DOMAIN rows, rows[s].cart.id = r.body.id
            PROVE  rows[s].state = "rejected"
        <5>1. PICK k \in keys : k.key = r.body.id /\ Accepted(k) /\ k.answer.sid = s
          BY <1>1, <4>1 DEF KeyInv
        <5>2. k = entry
          BY <1>1, <1>2, <5>1 DEF KeyInv
        <5> QED  BY <3>1, <3>2, <3>3, <5>1, <5>2 DEF Accepted
      <4> QED  BY <1>2, <3>1, <4>1 DEF Lapsed, ReleasedSettlement
    <3> QED  BY <3>1, <3>2, <3>3 DEF AnswerFits
  <2> QED  BY <2>1, <2>2
<1>5. AnswerFits(answer, r.body)'
  BY <1>1, <1>4 DEF AnswerFits, Lapsed
<1>6. r.call \in Call /\ CallMoves(r.call) /\ NetAnswers(r.call)
  BY <1>2, <1>3, <1>5, RespondMoves
<1> QED  BY <1>1, <1>6 DEF Fine, TableStep, TablesStay, CallStep

LEMMA LoseFine == ASSUME IInv, NEW r \in net, Lose(r) PROVE Fine
<1>1. r.call \in Call /\ call[r.call].step = "posted" /\ net' = net \ {r} /\ UNCHANGED rows
  BY DEF IInv, NetInv, Lose
<1>2. CallMoves(r.call)
  <2>1. PICK c \in Call : c = r.call
    BY <1>1
  <2>2. call[c] # Idle /\ Tell(c, "error", 0) /\ "error" \notin {"captured", "not completed"}
    BY <1>1, <2>1 DEF Idle, Lose
  <2>3. CallMoves(c)
    BY <2>2, TellMoves
  <2> QED  BY <2>1, <2>3
<1>3. CallStep
  BY <1>1, <1>2 DEF CallStep, NetAnswers
<1>4. TableStep
  BY <1>1 DEF Lose, Claim, TableStep, TablesStay, KeyLocks
<1> QED  BY <1>3, <1>4 DEF Fine

LEMMA SweepLockFine == ASSUME IInv, NEW k \in keys, SweepLock(k) PROVE Fine
BY DEF SweepLock, Fine, TableStep, KeyDrops, Answered, CallStep

LEMMA AdvanceFine == ASSUME IInv, NEW s \in DOMAIN rows, Advance(s) PROVE Fine
<1>1. PICK to \in SettlementState :
        to \in SETTLEMENT_TRANSITIONS[rows[s].state] /\ rows' = [rows EXCEPT ![s].state = to]
  BY DEF Advance, SettlementCAS
<1>2. rows[s].state \notin TerminalSettlement
  <2>1. \A state \in TerminalSettlement : SETTLEMENT_TRANSITIONS[state] = {}
    BY DEF TerminalSettlement, ReleasedSettlement, SETTLEMENT_TRANSITIONS
  <2> QED  BY <1>1, <2>1
<1> QED  BY <1>1, <1>2 DEF Advance, Fine, TableStep, RowMoves, CallStep

\* Polling.
LEMMA PollFine == ASSUME IInv, NEW c \in Call, Poll(c) PROVE Fine
<1>1. /\ call[c].step = "polling" /\ UNCHANGED <<keys, rows, net>> /\ call[c].errand \in Errand
      /\ DOMAIN call = Call
  BY AtWork DEF Poll, At, IInv, Typed
<1>2. PICK q : q = call[c]
  OBVIOUS
<1>3. q = Polling(q, q.sid) /\ q.sid \in DOMAIN rows /\ rows[q.sid].cart = q.cart
  BY <1>1, <1>2 DEF IInv, Typed, CallShape, CallInv, CallKnows
<1>4. PICK state : state = rows[q.sid].state
  OBVIOUS
<1>5. state \in POLL_STOP_STATES /\ call' = [call EXCEPT ![c] = Told(q, Outcome(state), q.sid)]
  BY <1>2, <1>4 DEF Poll, Tell
<1>6. PICK t : t = Told(q, Outcome(state), q.sid)
  OBVIOUS
<1>7. /\ t.errand = q.errand /\ t.step = "told" /\ t.sid = q.sid /\ t.cart = q.cart
      /\ t.report = "captured" => Outcome(state) = "captured"
      /\ t.report = "not completed" => Outcome(state) = "not completed"
  <2>1. "cart" \in DOMAIN q
    <3>1. \A e, x, l, i : "cart" \in DOMAIN [errand |-> e, step |-> "polling", cart |-> x, list |-> l, sid |-> i]
      OBVIOUS
    <3> QED  BY <1>3, <3>1 DEF Polling
  <2>2. t.errand = q.errand /\ t.step = "told" /\ t.sid = q.sid /\ t.cart = q.cart
        /\ t.report = Reported(q.errand.by, Outcome(state))
    BY <1>6, <2>1, ToldSays
  <2> QED  BY <2>2, NoWorse
<1>8. call'[c] = t /\ DOMAIN call' = Call /\ \A d \in Call \ {c} : call'[d] = call[d]
  BY <1>1, <1>5, <1>6
<1>9. CallShape(t)
  BY <1>1, <1>2, <1>7 DEF CallShape
<1>10. ASSUME t.report = "captured" PROVE rows[t.sid].state = "captured"
  BY <1>4, <1>7, <1>10 DEF Outcome
<1>11. ASSUME t.report = "not completed" PROVE Lapsed(t.cart.id)
  <2>1. state \in ReleasedSettlement
    BY <1>5, <1>7, <1>11 DEF Outcome, POLL_STOP_STATES, ReleasedSettlement
  <2>2. \A s \in DOMAIN rows : rows[s].cart.id = q.cart.id => s = q.sid
    BY <1>3, OneRowPerId DEF IInv
  <2>3. \E k \in keys : k.key = q.cart.id /\ Answered(k)
    BY <1>3 DEF IInv, KeyInv, Accepted
  <2> QED  BY <1>4, <1>7, <2>1, <2>2, <2>3 DEF Lapsed
<1>12. CallKnows(call[c])'
  BY <1>1, <1>3, <1>7, <1>8, <1>10, <1>11 DEF CallKnows, Lapsed
<1> QED  BY <1>1, <1>8, <1>9, <1>12, MovesFine DEF CallMoves, NetKeeps

LEMMA DeadlineFine == ASSUME IInv, NEW c \in Call, Deadline(c) PROVE Fine
<1>1. /\ call[c].step = "polling" /\ UNCHANGED <<keys, rows, net>>
      /\ Tell(c, "processing", call[c].sid) \/ Tell(c, "error", 0)
  BY DEF Deadline, At
<1>2. CASE Tell(c, "error", 0)
  BY <1>1, <1>2, EndsFine
<1>3. ASSUME NEW sid, Tell(c, "processing", sid) PROVE Fine
  BY <1>1, <1>3, EndsFine
<1> QED  BY <1>1, <1>2, <1>3

-----------------------------------------------------------------------------
(* The theorems.                                                           *)

LEMMA NextFine == ASSUME IInv, Next PROVE Fine
<1>1. ASSUME NEW c \in Call,
        \/ Begin(c) \/ FetchFails(c) \/ ListMandates(c) \/ GetCatalog(c)
        \/ Search(c) \/ Consult(c) \/ Fooled(c) \/ AskedLlm(c) \/ AskedClaude(c)
        \/ SelectList(c) \/ Advise(c) \/ Shop(c) \/ ShopFails(c) \/ Poll(c) \/ Deadline(c)
      PROVE  Fine
  BY <1>1, BeginFine, FetchFailsFine, ListMandatesFine, GetCatalogFine, SearchFine, ConsultFine,
     FooledFine, AskedLlmFine, AskedClaudeFine, SelectListFine, AdviseFine, ShopFine, ShopFailsFine,
     PollFine, DeadlineFine
<1>2. ASSUME NEW r \in net, Create(r) \/ Again(r) \/ Lose(r) PROVE Fine
  BY <1>2, CreateFine, AgainFine, LoseFine
<1>3. ASSUME NEW k \in keys, SweepLock(k) PROVE Fine
  BY <1>3, SweepLockFine
<1>4. ASSUME NEW s \in DOMAIN rows, Advance(s) PROVE Fine
  BY <1>4, AdvanceFine
<1>5. CASE Revoke \/ \E products \in Published : Republish(products)
  BY <1>5 DEF Revoke, Republish, Fine, TableStep, TablesStay, CallStep
<1> QED  BY <1>1, <1>2, <1>3, <1>4, <1>5 DEF Next

LEMMA NextInv == ASSUME IInv, [Next]_vars PROVE IInv'
<1>1. Fine
  BY NextFine DEF vars, Fine, TableStep, TablesStay, CallStep
<1>2. /\ RowsTyped' /\ (\A k \in keys : k.answer \in Answers \cup {Absent})' /\ KeyInv'
      /\ \A q : CallKnows(q) => CallKnows(q)'
  BY <1>1, TableStepKeeps DEF Fine, IInv
<1>3. /\ DOMAIN call' = Call /\ \A c \in Call : CallShape(call'[c])
      /\ NetInv' /\ CallInv'
  BY <1>1, <1>2, CallStepKeeps DEF Fine
<1> QED  BY <1>2, <1>3 DEF IInv, Typed

\* The invariant holds in every state that is reached.
THEOREM PurchaseInvariant == Spec => []IInv
<1> QED  BY InitInv, NextInv, PTL DEF Spec

\* A retry with the same token buys nothing twice, whatever the store's prices do between the
\* two, whichever answers are lost and whichever locks are swept.
THEOREM OneTokenOnePurchase == Spec => []OnePurchasePerToken
<1> QED  BY PurchaseInvariant, InvImpliesProperties, PTL

\* That a purchase is captured is told to no caller, and that it was not completed not to the
\* tool's, unless it is so; and so it stays (request_purchase's answers, toOutcome, outcomeKind).
THEOREM CallersAreToldTheTruth == Spec => []TellsTruth
<1> QED  BY PurchaseInvariant, InvImpliesProperties, PTL
-----------------------------------------------------------------------------
(* Choosing: what the operators of a choice return.                        *)

\* A set of positions has its first.
LEMMA MinIn == ASSUME NEW T, T \subseteq Nat, T # {} PROVE Min(T) \in T
BY LeastOf DEF Min

\* What is found by its sku has that sku.
LEMMA NamedSays ==
  ASSUME NEW s, DOMAIN s \subseteq Nat, NEW sku, Named(s, sku) # <<>>
  PROVE  \E i \in DOMAIN s : Named(s, sku) = <<s[i]>> /\ s[i].sku = sku
<1> DEFINE at == {i \in DOMAIN s : s[i].sku = sku}
<1>1. Named(s, sku) = IF at = {} THEN <<>> ELSE <<s[Min(at)]>>
  BY DEF Named, Found
<1>2. at # {} /\ at \subseteq Nat
  BY <1>1
<1>3. Min(at) \in at
  BY <1>2, MinIn
<1> QED  BY <1>1, <1>2, <1>3

\* What is picked without advice can be afforded.
LEMMA CheapestSays ==
  ASSUME NEW s, DOMAIN s \subseteq Nat, NEW ceiling, Cheapest(s, ceiling) # <<>>
  PROVE  \E i \in DOMAIN s : Cheapest(s, ceiling) = <<s[i]>> /\ Affordable(s[i], ceiling)
<1> DEFINE at == {i \in DOMAIN s : /\ Affordable(s[i], ceiling)
                                   /\ \A q \in ToSet(s) : Affordable(q, ceiling) => s[i].price <= q.price}
<1>1. Cheapest(s, ceiling) = IF at = {} THEN <<>> ELSE <<s[Min(at)]>>
  BY DEF Cheapest, Found
<1>2. at # {} /\ at \subseteq Nat
  BY <1>1
<1>3. Min(at) \in at
  BY <1>2, MinIn
<1> QED  BY <1>1, <1>2, <1>3

\* Whatever the pick, what comes out is on the list and can be afforded.
LEMMA ChoiceSays ==
  ASSUME NEW s, DOMAIN s \subseteq Nat, NEW pick, NEW ceiling, resolveChoice(pick, s, ceiling) # <<>>
  PROVE  \E i \in DOMAIN s : resolveChoice(pick, s, ceiling) = <<s[i]>> /\ Affordable(s[i], ceiling)
<1>1. CASE Named(s, pick) # <<>> /\ Affordable(Head(Named(s, pick)), ceiling)
  <2>1. PICK i \in DOMAIN s : Named(s, pick) = <<s[i]>>
    BY <1>1, NamedSays
  <2>2. Head(<<s[i]>>) = s[i]
    OBVIOUS
  <2> QED  BY <1>1, <2>1, <2>2 DEF resolveChoice
<1>2. CASE ~(Named(s, pick) # <<>> /\ Affordable(Head(Named(s, pick)), ceiling))
  BY <1>2, CheapestSays DEF resolveChoice
<1> QED  BY <1>1, <1>2

\* One thing, or two, at places of their own among finitely many.
LEMMA TwoPlaces ==
  ASSUME NEW S, IsFiniteSet(S)
  PROVE  /\ Cardinality(S) \in Nat
         /\ Cardinality(S) >= 1 <=> S # {}
         /\ Cardinality(S) >= 2 <=> \E x, y \in S : x # y
<1>1. Cardinality(S) \in Nat /\ (Cardinality(S) = 0 <=> S = {})
  BY FS_CardinalityType, FS_EmptySet
<1>2. Cardinality(S) = 1 <=> \E x : S = {x}
  BY FS_Singleton
<1> QED  BY <1>1, <1>2

\* Where x is in s.
Places(x, s) == {i \in DOMAIN s : s[i] = x}

LEMMA PairHasTwo == ASSUME NEW x, NEW y, x # y PROVE Cardinality({x, y}) = 2
<1>1. IsFiniteSet({x}) /\ Cardinality({x}) = 1
  BY FS_Singleton
<1>2. Cardinality({x} \cup {y}) = 2
  BY <1>1, FS_AddElement
<1>3. {x} \cup {y} = {x, y}
  OBVIOUS
<1> QED  BY <1>2, <1>3

\* The values named, each found as often as it is named, are found at places of their own.
LEMMA CountsFit ==
  ASSUME NEW v, IsFiniteSet(DOMAIN v.values),
         NEW S, NEW values \in Seq(S), Len(values) <= 2
  PROVE  variantHasAllValues(v, values) <=> Fits(values, v)
<1>1. variantHasAllValues(v, values) <=>
        \A i \in DOMAIN values : Cardinality(Places(values[i], values)) <= Cardinality(Places(values[i], v.values))
  BY DEF variantHasAllValues, Count, ToSet, Places
<1>2. ASSUME NEW x
      PROVE  LET n == Cardinality(Places(x, v.values))
             IN /\ n \in Nat
                /\ n >= 1 <=> Places(x, v.values) # {}
                /\ n >= 2 <=> \E a, b \in Places(x, v.values) : a # b
  <2>1. IsFiniteSet(Places(x, v.values))
    BY FS_Subset DEF Places
  <2> QED  BY <2>1, TwoPlaces
<1>3. \A x : Cardinality({x}) = 1
  BY FS_Singleton
<1>4. Len(values) \in Nat
  OBVIOUS
<1>5. DOMAIN values = 1..Len(values)
  OBVIOUS
<1>6. CASE DOMAIN values = {}
  <2>1. values \in [DOMAIN values -> DOMAIN v.values]
    BY <1>6
  <2>2. Fits(values, v)
    BY <1>6, <2>1 DEF Fits
  <2> QED  BY <1>1, <1>6, <2>2
<1>7. CASE DOMAIN values = {1}
  <2>1. Places(values[1], values) = {1}
    BY <1>7 DEF Places
  <2>2. variantHasAllValues(v, values) <=> 1 <= Cardinality(Places(values[1], v.values))
    BY <1>1, <1>3, <1>7, <2>1
  <2>3. variantHasAllValues(v, values) <=> Places(values[1], v.values) # {}
    BY <1>2, <2>2
  <2>4. ASSUME NEW p \in Places(values[1], v.values) PROVE Fits(values, v)
    <3>1. [i \in DOMAIN values |-> p] \in [DOMAIN values -> DOMAIN v.values]
      BY DEF Places
    <3> QED  BY <1>7, <3>1 DEF Fits, Places
  <2>5. Fits(values, v) => Places(values[1], v.values) # {}
    BY <1>7 DEF Fits, Places
  <2> QED  BY <2>3, <2>4, <2>5
<1>8. CASE DOMAIN values = {1, 2}
  <2>1. CASE values[1] # values[2]
    <3>1. Places(values[1], values) = {1} /\ Places(values[2], values) = {2}
      BY <1>8, <2>1 DEF Places
    <3>2. variantHasAllValues(v, values) <=>
            1 <= Cardinality(Places(values[1], v.values)) /\ 1 <= Cardinality(Places(values[2], v.values))
      BY <1>1, <1>3, <1>8, <3>1
    <3>3. variantHasAllValues(v, values) <=>
            Places(values[1], v.values) # {} /\ Places(values[2], v.values) # {}
      BY <1>2, <3>2
    <3>4. ASSUME NEW p \in Places(values[1], v.values), NEW q \in Places(values[2], v.values)
          PROVE  Fits(values, v)
      <4> DEFINE at == [i \in DOMAIN values |-> IF i = 1 THEN p ELSE q]
      <4>1. at \in [DOMAIN values -> DOMAIN v.values]
        BY DEF Places
      <4>2. at[1] = p /\ at[2] = q /\ p # q
        BY <1>8, <2>1 DEF Places
      <4> HIDE DEF at
      <4> QED  BY <1>8, <4>1, <4>2 DEF Fits, Places
    <3>5. Fits(values, v) => Places(values[1], v.values) # {} /\ Places(values[2], v.values) # {}
      BY <1>8 DEF Fits, Places
    <3> QED  BY <3>3, <3>4, <3>5
  <2>2. CASE values[1] = values[2]
    <3>1. Places(values[1], values) = {1, 2}
      BY <1>8, <2>2 DEF Places
    <3>2. Cardinality({1, 2}) = 2
      <4>1. 1 # 2
        OBVIOUS
      <4> QED  BY <4>1, PairHasTwo
    <3>3. variantHasAllValues(v, values) <=> 2 <= Cardinality(Places(values[1], v.values))
      BY <1>1, <1>8, <2>2, <3>1, <3>2
    <3>4. variantHasAllValues(v, values) <=> \E a, b \in Places(values[1], v.values) : a # b
      BY <1>2, <3>3
    <3>5. ASSUME NEW p \in Places(values[1], v.values), NEW q \in Places(values[1], v.values), p # q
          PROVE  Fits(values, v)
      <4> DEFINE at == [i \in DOMAIN values |-> IF i = 1 THEN p ELSE q]
      <4>1. at \in [DOMAIN values -> DOMAIN v.values]
        BY DEF Places
      <4>2. at[1] = p /\ at[2] = q
        BY <1>8
      <4> HIDE DEF at
      <4> QED  BY <1>8, <2>2, <3>5, <4>1, <4>2 DEF Fits, Places
    <3>6. Fits(values, v) => \E a, b \in Places(values[1], v.values) : a # b
      BY <1>8, <2>2 DEF Fits, Places
    <3> QED  BY <3>4, <3>5, <3>6
  <2> QED  BY <2>1, <2>2
<1>9. DOMAIN values = {} \/ DOMAIN values = {1} \/ DOMAIN values = {1, 2}
  <2>1. Len(values) = 0 \/ Len(values) = 1 \/ Len(values) = 2
    <3>1. PICK n \in Nat : n = Len(values) /\ n <= 2
      BY <1>4
    <3>2. n = 0 \/ n = 1 \/ n = 2
      BY <3>1
    <3> QED  BY <3>1, <3>2
  <2> QED  BY <1>5, <2>1
<1> QED  BY <1>6, <1>7, <1>8, <1>9

\* A list, and what is on it.
LEMMA ListsAreSequences ==
  ASSUME NEW products \in Published
  PROVE  DOMAIN products \subseteq Nat
<1>1. products \in Seq(ToSet(products))
  BY PurchaseAssumption
<1> QED  BY <1>1

\* What a variant, asked for, comes down to: one on the product, and the only one that fits.
LEMMA VariantSays ==
  ASSUME NEW products \in Published, NEW i \in DOMAIN products,
         NEW e \in Errand, e.by = "tool", WellFormed(e),
         resolveVariant(products[i], e) # <<>>
  PROVE  \E w : /\ resolveVariant(products[i], e) = <<w>>
                /\ w = Absent \/ w \in ToSet(products[i].variants)
                /\ ~Asks(e) <=> w = Absent
                /\ e.variant # Absent => w.id = e.variant
                /\ e.variant = Absent /\ e.values # <<>> =>
                     {v \in ToSet(products[i].variants) : Fits(e.values, v)} = {w}
<1> DEFINE vs == products[i].variants
<1>1. vs \in Seq(ToSet(vs)) /\ \A v \in ToSet(vs) : v # Absent /\ IsFiniteSet(DOMAIN v.values)
  BY PurchaseAssumption
<1>2. DOMAIN vs \subseteq Nat /\ \A j \in DOMAIN vs : vs[j] \in ToSet(vs)
  BY <1>1 DEF ToSet
<1> HIDE DEF vs
<1>3. ASSUME NEW T, T \subseteq DOMAIN vs, T # {} PROVE Min(T) \in T
  BY <1>2, <1>3, MinIn
<1>4. CASE ~Asks(e)
  BY <1>4 DEF resolveVariant, Asks
<1>5. CASE Asks(e) /\ e.variant # Absent
  <2> DEFINE at == {j \in DOMAIN vs : vs[j].id = e.variant}
  <2>1. resolveVariant(products[i], e) = IF at = {} THEN <<>> ELSE <<vs[Min(at)]>>
    BY <1>5 DEF resolveVariant, Match, Found, vs
  <2>2. Min(at) \in at
    BY <1>3, <2>1
  <2> QED  BY <1>1, <1>2, <1>5, <2>1, <2>2 DEF vs
<1>6. CASE Asks(e) /\ e.variant = Absent /\ e.values # <<>>
  <2> DEFINE fits(v) == variantHasAllValues(v, e.values)
             at == {j \in DOMAIN vs : fits(vs[j])}
  <2>1. resolveVariant(products[i], e) = Only(vs, fits)
    BY <1>6 DEF resolveVariant, Match, vs
  <2>2. /\ \A j, k \in DOMAIN vs : fits(vs[j]) /\ fits(vs[k]) => j = k
        /\ resolveVariant(products[i], e) = IF at = {} THEN <<>> ELSE <<vs[Min(at)]>>
    BY <2>1 DEF Only, Found
  <2>3. Min(at) \in at
    BY <1>3, <2>2
  <2>4. \A v \in ToSet(vs) : fits(v) <=> Fits(e.values, v)
    <3>1. e.values \in Seq(ToSet(e.values)) /\ Len(e.values) <= 2
      BY PurchaseAssumption, SMT DEF WellFormed
    <3> QED  BY <1>1, <3>1, CountsFit
  <2> DEFINE w == vs[Min(at)]
  <2>5. w \in ToSet(vs) /\ fits(w) /\ w # Absent
    BY <1>1, <1>2, <2>3
  <2>6. \A v \in ToSet(vs) : fits(v) => v = w
    BY <2>2, <2>3 DEF ToSet
  <2>7. resolveVariant(products[i], e) = <<w>>
    BY <2>2, <2>3
  <2> HIDE DEF at, w, fits
  <2>8. {v \in ToSet(vs) : Fits(e.values, v)} = {w}
    BY <2>4, <2>5, <2>6
  <2> QED  BY <1>6, <2>5, <2>7, <2>8 DEF vs
<1>7. CASE Asks(e) /\ e.variant = Absent /\ e.values = <<>>
  <2>1. resolveVariant(products[i], e) = findVariantByText(vs, e.text)
    BY <1>7 DEF resolveVariant, Match, vs
  <2> DEFINE Texts(v) == ToSet(v.values) \cup {v.label}
             at == {j \in DOMAIN vs : e.text \in Texts(vs[j])}
             partly == {j \in DOMAIN vs : \E t \in Texts(vs[j]) : <<e.text, t>> \in Within}
  <2>2. \/ at # {} /\ findVariantByText(vs, e.text) = <<vs[Min(at)]>>
        \/ partly # {} /\ findVariantByText(vs, e.text) = <<vs[Min(partly)]>>
    BY <2>1 DEF findVariantByText, Only, Found
  <2>3. \E j \in DOMAIN vs : findVariantByText(vs, e.text) = <<vs[j]>>
    BY <1>3, <2>2
  <2> QED  BY <1>1, <1>2, <1>7, <2>1, <2>3 DEF vs
<1> QED  BY <1>4, <1>5, <1>6, <1>7

-----------------------------------------------------------------------------
(* What an attempt signs.                                                  *)

\* What BoughtAsAsked says of a signed cart.
AsAsked(e, cart, list) ==
  /\ cart.sku = e.sku /\ cart.qty = e.qty
  /\ e.max # Absent => TotalOf(cart) <= e.max
  /\ ~Asks(e) <=> cart.variant = Absent
  /\ e.variant # Absent => cart.variant.id = e.variant
  /\ e.variant = Absent /\ e.values # <<>> =>
       {v \in ToSet(Head(list).variants) : Fits(e.values, v)} = {cart.variant}

\* What GuardedPick says of one.
FromList(e, cart, list) ==
  \E p \in ToSet(list) :
    /\ p.sku = cart.sku /\ p.price = cart.price
    /\ p.stock /\ p.price <= e.ceiling

Brains == {"scripted", "llm", "claude"}

OrderFits(q) ==
  "cart" \in DOMAIN q /\ q.cart # Absent =>
    /\ "list" \in DOMAIN q
    /\ q.errand.by = "tool" => AsAsked(q.errand, q.cart, q.list)
    /\ q.errand.by \in Brains => FromList(q.errand, q.cart, q.list)

\* What an attempt has when it comes to choose.
ChoiceReady(q) ==
  /\ q.step \in {"mandates", "catalog"} => q.errand.by = "tool" /\ WellFormed(q.errand)
  /\ q.step = "asked" => DOMAIN q.list \subseteq Nat

ShelfInv == DOMAIN listing = {Store} /\ listing[Store] \in Published \cup {NoListing}

OrdersInv == ShelfInv /\ \A c \in Call : OrderFits(call[c]) /\ ChoiceReady(call[c])

\* A step of one attempt, which leaves it with what it needs and what it may sign.
Orders ==
  \/ UNCHANGED call
  \/ \E c \in Call : \E q : call' = [call EXCEPT ![c] = q] /\ OrderFits(q) /\ ChoiceReady(q)

LEMMA ShelfSays == ASSUME ShelfInv PROVE DOMAIN Shelf \subseteq Nat /\ (Listed => Shelf \in Published)
<1>1. CASE Listed
  BY <1>1, ListsAreSequences DEF ShelfInv, Shelf, Listed
<1>2. CASE ~Listed
  BY <1>2 DEF Shelf, Listed
<1> QED  BY <1>1, <1>2

LEMMA ToldOrders ==
  ASSUME NEW q, OrderFits(q), NEW report, NEW sid
  PROVE  OrderFits(Told(q, report, sid)) /\ ChoiceReady(Told(q, report, sid))
BY DEF Told, OrderFits, ChoiceReady

LEMMA TellOrders ==
  ASSUME OrdersInv, NEW c \in Call, NEW report, NEW sid, Tell(c, report, sid)
  PROVE  Orders
<1> PICK old : old = call[c]
  OBVIOUS
<1>1. OrderFits(old)
  BY DEF OrdersInv
<1>2. PICK q : q = Told(old, report, sid)
  OBVIOUS
<1>3. OrderFits(q) /\ ChoiceReady(q)
  BY <1>1, <1>2, ToldOrders
<1>4. call' = [call EXCEPT ![c] = q]
  BY <1>2 DEF Tell
<1> QED  BY <1>3, <1>4 DEF Orders

LEMMA PostOrders ==
  ASSUME NEW c \in Call, NEW cart, NEW list, Post(c, cart, list),
         call[c].errand.by = "tool" => AsAsked(call[c].errand, cart, list),
         call[c].errand.by \in Brains => FromList(call[c].errand, cart, list)
  PROVE  Orders
<1> PICK e : e = call[c].errand
  OBVIOUS
<1>1. PICK q : q = [errand |-> e, step |-> "posted", cart |-> cart, list |-> list]
  OBVIOUS
<1>2. OrderFits(q) /\ ChoiceReady(q)
  BY <1>1 DEF OrderFits, ChoiceReady
<1>3. call' = [call EXCEPT ![c] = q]
  BY <1>1 DEF Post
<1> QED  BY <1>2, <1>3 DEF Orders

\* A brain that buys what is on its list, in stock and under its ceiling.
LEMMA BuyOrders ==
  ASSUME OrdersInv, NEW c \in Call, NEW picked, NEW list, Buy(c, picked, list),
         call[c].errand.by \in Brains,
         picked # <<>> => \E i \in DOMAIN list : picked = <<list[i]>> /\ Affordable(list[i], call[c].errand.ceiling)
  PROVE  Orders
<1>1. CASE picked = <<>>
  BY <1>1, TellOrders DEF Buy
<1>2. CASE picked # <<>>
  <2>1. PICK i \in DOMAIN list : picked = <<list[i]>> /\ Affordable(list[i], call[c].errand.ceiling)
    BY <1>2
  <2>2. PICK cart : cart = Cart(c, Head(picked), Absent, 1)
    OBVIOUS
  <2>3. Head(picked) = list[i] /\ list[i] \in ToSet(list)
    BY <2>1 DEF ToSet
  <2>4. cart.sku = list[i].sku /\ cart.price = list[i].price
    BY <2>2, <2>3 DEF Cart
  <2>5. FromList(call[c].errand, cart, list)
    BY <2>1, <2>3, <2>4 DEF FromList, Affordable
  <2>6. Post(c, cart, list) /\ call[c].errand.by # "tool"
    BY <1>2, <2>2 DEF Buy, Brains
  <2> QED  BY <2>5, <2>6, PostOrders
<1> QED  BY <1>1, <1>2

LEMMA GetCatalogOrders == ASSUME IInv, OrdersInv, NEW c \in Call, GetCatalog(c) PROVE Orders
<1> PICK e : e = call[c].errand
  OBVIOUS
<1> DEFINE found == Named(Shelf, e.sku)
           variant == IF found = <<>> THEN <<>> ELSE resolveVariant(Head(found), e)
           cart == Cart(c, Head(found), Head(variant), e.qty)
<1>1. call[c].step = "catalog" /\ e \in Errand /\ e.by = "tool" /\ WellFormed(e)
  BY AtWork DEF GetCatalog, At, OrdersInv, ChoiceReady
<1>2. CASE \E report : Tell(c, report, 0)
  BY <1>2, TellOrders
<1>3. CASE /\ variant # <<>> /\ ~(e.max # Absent /\ TotalOf(cart) > e.max)
           /\ Post(c, cart, <<Head(found)>>)
  <2>1. Shelf \in Published /\ DOMAIN Shelf \subseteq Nat
    BY ShelfSays DEF OrdersInv, GetCatalog
  <2>2. PICK i \in DOMAIN Shelf : found = <<Shelf[i]>> /\ Shelf[i].sku = e.sku
    BY <1>3, <2>1, NamedSays
  <2>3. Head(found) = Shelf[i] /\ variant = resolveVariant(Shelf[i], e)
    BY <2>2
  <2>4. PICK w : /\ variant = <<w>>
                 /\ w = Absent \/ w \in ToSet(Shelf[i].variants)
                 /\ ~Asks(e) <=> w = Absent
                 /\ e.variant # Absent => w.id = e.variant
                 /\ e.variant = Absent /\ e.values # <<>> =>
                      {v \in ToSet(Shelf[i].variants) : Fits(e.values, v)} = {w}
    <3>1. resolveVariant(Shelf[i], e) # <<>> /\ variant = resolveVariant(Shelf[i], e)
      BY <1>3, <2>3
    <3> HIDE DEF variant
    <3>2. PICK shelf \in Published : shelf = Shelf
      BY <2>1
    <3>3. PICK w : /\ resolveVariant(shelf[i], e) = <<w>>
                   /\ w = Absent \/ w \in ToSet(shelf[i].variants)
                   /\ ~Asks(e) <=> w = Absent
                   /\ e.variant # Absent => w.id = e.variant
                   /\ e.variant = Absent /\ e.values # <<>> =>
                        {v \in ToSet(shelf[i].variants) : Fits(e.values, v)} = {w}
      BY <1>1, <3>1, <3>2, VariantSays
    <3> QED  BY <3>1, <3>2, <3>3
  <2>5. PICK signed : signed = Cart(c, Shelf[i], w, e.qty)
    OBVIOUS
  <2>6. cart = signed
    BY <2>3, <2>4, <2>5
  <2>7. signed.sku = e.sku /\ signed.qty = e.qty /\ signed.variant = w
    BY <2>2, <2>5 DEF Cart
  <2>8. TotalOf(signed) \in Int
    <3>1. {p.price : p \in {Shelf[i]} \cup ToSet(Shelf[i].variants)} \subseteq Nat /\ e.qty \in Int
      BY <1>1, <2>1, PurchaseAssumption
    <3>2. signed.price \in Nat
      BY <2>4, <2>5, <3>1 DEF Cart
    <3> QED  BY <2>7, <3>1, <3>2 DEF TotalOf
  <2>9. e.max # Absent => TotalOf(signed) <= e.max
    <3>1. e.max \in Int \cup {Absent}
      BY <1>1, PurchaseAssumption
    <3>2. ~(e.max # Absent /\ TotalOf(signed) > e.max)
      BY <1>3, <2>6
    <3> QED  BY <2>8, <3>1, <3>2
  <2>10. Head(<<Head(found)>>) = Shelf[i]
    BY <2>3
  <2>11. AsAsked(e, signed, <<Head(found)>>)
    BY <2>4, <2>7, <2>9, <2>10 DEF AsAsked
  <2>12. e.by \notin Brains
    BY <1>1 DEF Brains
  <2> HIDE DEF found, variant, cart
  <2> QED  BY <1>3, <2>6, <2>11, <2>12, PostOrders
<1> QED  BY <1>2, <1>3 DEF GetCatalog

LEMMA SearchListOrders ==
  ASSUME OrdersInv, NEW e PROVE DOMAIN searchCatalog(e) \subseteq Nat
BY ShelfSays DEF OrdersInv, searchCatalog, Restrict

LEMMA SearchOrders == ASSUME OrdersInv, NEW c \in Call, Search(c) PROVE Orders
<1>1. PICK list : list = searchCatalog(call[c].errand)
  OBVIOUS
<1>2. DOMAIN list \subseteq Nat
  BY <1>1, SearchListOrders
<1>3. PICK picked : picked = Cheapest(list, call[c].errand.ceiling)
  OBVIOUS
<1>4. Buy(c, picked, list) /\ call[c].errand.by \in Brains
  BY <1>1, <1>3 DEF Search, By, Brains
<1> QED  BY <1>2, <1>3, <1>4, CheapestSays, BuyOrders

\* What a brain that consulted its model signs, whatever it was answered.
LEMMA ChoiceOrders ==
  ASSUME OrdersInv, NEW c \in Call, call[c].step = "asked", call[c].errand.by \in Brains, NEW pick,
         Buy(c, resolveChoice(pick, call[c].list, call[c].errand.ceiling), call[c].list)
  PROVE  Orders
<1>1. PICK list : list = call[c].list
  OBVIOUS
<1>2. DOMAIN list \subseteq Nat
  BY <1>1 DEF OrdersInv, ChoiceReady
<1>3. PICK picked : picked = resolveChoice(pick, list, call[c].errand.ceiling)
  OBVIOUS
<1> QED  BY <1>1, <1>2, <1>3, ChoiceSays, BuyOrders

LEMMA AskedOrders ==
  ASSUME OrdersInv, NEW c \in Call, AskedLlm(c) \/ AskedClaude(c) PROVE Orders
<1>1. call[c].step = "asked" /\ call[c].errand.by \in Brains
  BY DEF AskedLlm, AskedClaude, At, By, Brains
<1>2. CASE Tell(c, "error", 0)
  BY <1>2, TellOrders
<1>3. CASE ~Tell(c, "error", 0)
  <2>1. \E pick : Buy(c, resolveChoice(pick, call[c].list, call[c].errand.ceiling), call[c].list)
    BY <1>3 DEF AskedLlm, AskedClaude, chooseProduct, resolveClaudeChoice
  <2> QED  BY <1>1, <2>1, ChoiceOrders
<1> QED  BY <1>2, <1>3

\* Those that neither sign for a tool or a brain nor choose.
LEMMA FreeOrders ==
  ASSUME NEW c \in Call, NEW q, "cart" \notin DOMAIN q, q.step \notin {"mandates", "catalog", "asked"},
         call' = [call EXCEPT ![c] = q]
  PROVE  Orders
BY DEF Orders, OrderFits, ChoiceReady

LEMMA BeginOrders == ASSUME OrdersInv, NEW c \in Call, Begin(c) PROVE Orders
<1>1. PICK e \in Errand : call' = [call EXCEPT ![c] =
         IF e.by = "tool" /\ ~WellFormed(e) THEN Told([errand |-> e], "refused", 0)
         ELSE [errand |-> e, step |-> CASE e.by = "tool" -> "mandates"
                                        [] e.by = "page" -> "select"
                                        [] OTHER         -> "search"]]
  BY DEF Begin
<1>2. CASE e.by = "tool" /\ ~WellFormed(e)
  <2>1. PICK q : q = [errand |-> e]
    OBVIOUS
  <2>2. OrderFits(q)
    BY <2>1 DEF OrderFits
  <2> QED  BY <1>1, <1>2, <2>1, <2>2, ToldOrders DEF Orders
<1>3. CASE e.by = "tool" /\ WellFormed(e)
  <2>1. PICK q : q = [errand |-> e, step |-> "mandates"]
    OBVIOUS
  <2>2. OrderFits(q) /\ ChoiceReady(q)
    BY <1>3, <2>1 DEF OrderFits, ChoiceReady
  <2>3. call' = [call EXCEPT ![c] = q]
    BY <1>1, <1>3, <2>1
  <2> QED  BY <2>2, <2>3 DEF Orders
<1>4. CASE e.by # "tool"
  <2>1. PICK q : q = [errand |-> e, step |-> IF e.by = "page" THEN "select" ELSE "search"]
    OBVIOUS
  <2>2. OrderFits(q) /\ ChoiceReady(q)
    BY <2>1 DEF OrderFits, ChoiceReady
  <2>3. call' = [call EXCEPT ![c] = q]
    BY <1>1, <1>4, <2>1
  <2> QED  BY <2>2, <2>3 DEF Orders
<1> QED  BY <1>1, <1>2, <1>3, <1>4

LEMMA ListMandatesOrders == ASSUME IInv, OrdersInv, NEW c \in Call, ListMandates(c) PROVE Orders
<1>1. call[c] = [errand |-> call[c].errand, step |-> "mandates"] /\ ChoiceReady(call[c])
  BY DEF ListMandates, At, IInv, Typed, CallShape, OrdersInv
<1>2. CASE Tell(c, "refused", 0)
  BY <1>2, TellOrders
<1>3. CASE call' = [call EXCEPT ![c].step = "catalog"]
  <2>1. PICK q : q = [errand |-> call[c].errand, step |-> "catalog"]
    OBVIOUS
  <2>2. [call[c] EXCEPT !.step = "catalog"] = q
    BY <1>1, <2>1
  <2>3. call' = [call EXCEPT ![c] = q]
    BY <1>3, <2>2
  <2>4. OrderFits(q) /\ ChoiceReady(q)
    BY <1>1, <2>1 DEF OrderFits, ChoiceReady
  <2> QED  BY <2>3, <2>4 DEF Orders
<1> QED  BY <1>2, <1>3 DEF ListMandates

LEMMA ConsultOrders == ASSUME OrdersInv, NEW c \in Call, Consult(c) PROVE Orders
<1>1. PICK list : list = searchCatalog(call[c].errand)
  OBVIOUS
<1>2. PICK q : q = [errand |-> call[c].errand, step |-> "asked", list |-> list]
  OBVIOUS
<1>3. OrderFits(q) /\ ChoiceReady(q)
  BY <1>1, <1>2, SearchListOrders DEF OrderFits, ChoiceReady
<1>4. call' = [call EXCEPT ![c] = q]
  BY <1>1, <1>2 DEF Consult
<1> QED  BY <1>3, <1>4 DEF Orders

LEMMA FooledOrders == ASSUME OrdersInv, NEW c \in Call, Fooled(c) PROVE Orders
<1>1. call[c].errand.by = "fooled"
  BY DEF Fooled, By
<1>2. \E cart : Post(c, cart, <<>>)
  BY DEF Fooled
<1> QED  BY <1>1, <1>2, PostOrders DEF Brains

LEMMA SelectListOrders == ASSUME OrdersInv, NEW c \in Call, SelectList(c) PROVE Orders
<1>1. PICK q : q = [errand |-> call[c].errand, step |-> "advised", list |-> Shelf]
  OBVIOUS
<1>2. call' = [call EXCEPT ![c] = q]
  BY <1>1 DEF SelectList
<1>3. "cart" \notin DOMAIN q /\ q.step = "advised"
  BY <1>1
<1> QED  BY <1>2, <1>3, FreeOrders

LEMMA AdviseOrders == ASSUME OrdersInv, NEW c \in Call, Advise(c) PROVE Orders
<1>1. \E advice : call' = [call EXCEPT ![c] =
        [errand |-> call[c].errand, step |-> "shop", advice |-> advice]]
  BY DEF Advise
<1>2. PICK advice : call' = [call EXCEPT ![c] =
        [errand |-> call[c].errand, step |-> "shop", advice |-> advice]]
  BY <1>1
<1>3. PICK q : q = [errand |-> call[c].errand, step |-> "shop", advice |-> advice]
  OBVIOUS
<1>4. call' = [call EXCEPT ![c] = q] /\ "cart" \notin DOMAIN q /\ q.step = "shop"
  BY <1>2, <1>3
<1> QED  BY <1>4, FreeOrders

LEMMA ShopOrders == ASSUME IInv, OrdersInv, NEW c \in Call, Shop(c) PROVE Orders
<1>1. call[c].errand.by = "page"
  BY DEF Shop, At, IInv, Typed, CallShape
<1>2. CASE Tell(c, "refused", 0)
  BY <1>2, TellOrders
<1>3. CASE \E cart : Post(c, cart, Shelf)
  BY <1>1, <1>3, PostOrders DEF Brains
<1> QED  BY <1>2, <1>3 DEF Shop

\* An answer leaves the cart as it was signed.
LEMMA RespondOrders ==
  ASSUME IInv, OrdersInv, NEW r \in net, NEW answer, Respond(r, answer) PROVE Orders
<1>1. PICK c \in Call : c = r.call /\ call[c].step = "posted"
  BY DEF IInv, NetInv
<1>2. CASE Tell(r.call, "error", 0)
  BY <1>1, <1>2, TellOrders
<1>3. CASE call' = [call EXCEPT ![r.call] = Understood(r.call, answer)]
  <2> PICK old : old = call[c]
    OBVIOUS
  <2>1. /\ old = [errand |-> old.errand, step |-> "posted", cart |-> old.cart, list |-> old.list]
        /\ OrderFits(old)
    BY <1>1 DEF IInv, Typed, CallShape, OrdersInv
  <2>2. \/ \E report, sid : Understood(r.call, answer) = Told(old, report, sid)
        \/ Understood(r.call, answer) = Polling(old, answer.sid)
    BY <1>1 DEF Understood
  <2>3. OrderFits(Polling(old, answer.sid)) /\ ChoiceReady(Polling(old, answer.sid))
    BY <2>1 DEF OrderFits, ChoiceReady, Polling
  <2>4. PICK q : q = Understood(r.call, answer)
    OBVIOUS
  <2>5. OrderFits(q) /\ ChoiceReady(q)
    BY <2>1, <2>2, <2>3, <2>4, ToldOrders
  <2> QED  BY <1>1, <1>3, <2>4, <2>5 DEF Orders
<1> QED  BY <1>2, <1>3 DEF Respond

\* Every step leaves each attempt with what it needs and what it may sign.
LEMMA NextOrders == ASSUME IInv, OrdersInv, Next PROVE Orders
<1>1. ASSUME NEW c \in Call,
        \/ Begin(c) \/ FetchFails(c) \/ ListMandates(c) \/ GetCatalog(c)
        \/ Search(c) \/ Consult(c) \/ Fooled(c) \/ AskedLlm(c) \/ AskedClaude(c)
        \/ SelectList(c) \/ Advise(c) \/ Shop(c) \/ ShopFails(c) \/ Poll(c) \/ Deadline(c)
      PROVE  Orders
  <2>1. FetchFails(c) \/ ShopFails(c) \/ Poll(c) \/ Deadline(c) => \E report, sid : Tell(c, report, sid)
    BY DEF FetchFails, ShopFails, Poll, Deadline
  <2> QED  BY <1>1, <2>1, TellOrders, BeginOrders, ListMandatesOrders, GetCatalogOrders, SearchOrders,
              ConsultOrders, FooledOrders, AskedOrders, SelectListOrders, AdviseOrders, ShopOrders
<1>2. ASSUME NEW r \in net, Create(r) \/ Again(r) \/ Lose(r) PROVE Orders
  <2>1. CASE Lose(r)
    <3>1. r.call \in Call /\ Tell(r.call, "error", 0)
      BY <2>1 DEF Lose, IInv, NetInv
    <3> QED  BY <3>1, TellOrders
  <2>2. CASE Create(r) \/ Again(r)
    <3>1. \E answer : Respond(r, answer)
      BY <2>2 DEF Create, Again
    <3> QED  BY <3>1, RespondOrders
  <2> QED  BY <1>2, <2>1, <2>2
<1>3. CASE \/ \E k \in keys : SweepLock(k)
           \/ \E s \in DOMAIN rows : Advance(s)
           \/ \E products \in Published : Republish(products)
           \/ Revoke
  BY <1>3 DEF SweepLock, Advance, Republish, Revoke, Orders
<1> QED  BY <1>1, <1>2, <1>3 DEF Next

\* Only a scan changes the list, to one it may publish.
LEMMA NextShelf == ASSUME ShelfInv, Next PROVE ShelfInv'
<1>1. CASE UNCHANGED listing
  BY <1>1 DEF ShelfInv
<1>2. CASE \E products \in Published : Republish(products)
  BY <1>2 DEF ShelfInv, Republish, Li!Publish
<1> QED  BY <1>1, <1>2 DEF Next, store, Begin, FetchFails, ListMandates, GetCatalog, Search, Consult,
            Fooled, AskedLlm, AskedClaude, SelectList, Advise, Shop, ShopFails, Poll, Deadline,
            Create, Again, Lose, SweepLock, Advance, Revoke

LEMMA OrdersKept == ASSUME IInv, OrdersInv, [Next]_vars PROVE OrdersInv'
<1>1. ShelfInv'
  BY NextShelf DEF OrdersInv, ShelfInv, vars
<1>2. Orders
  BY NextOrders DEF vars, Orders
<1>3. \A c \in Call : OrderFits(call'[c]) /\ ChoiceReady(call'[c])
  BY <1>2 DEF Orders, OrdersInv, IInv, Typed
<1> QED  BY <1>1, <1>3 DEF OrdersInv

LEMMA InitOrders == Init => OrdersInv
BY DEF Init, Li!Init, Idle, OrdersInv, ShelfInv, OrderFits, ChoiceReady

LEMMA OrdersImplyProperties == OrdersInv => BoughtAsAsked /\ GuardedPick
BY DEF OrdersInv, OrderFits, BoughtAsAsked, GuardedPick, Signed, By, AsAsked, FromList, Brains

\* What is signed is so in every state that is reached.
THEOREM OrdersInvariant == Spec => []OrdersInv
<1> QED  BY PurchaseInvariant, InitOrders, OrdersKept, PTL DEF Spec

\* What request_purchase signs is what was asked for.
THEOREM SignedAsAsked == Spec => []BoughtAsAsked
<1> QED  BY OrdersInvariant, OrdersImplyProperties, PTL

\* Whatever a model answers, a brain signs for what its list has.
THEOREM BrainsAreGuarded == Spec => []GuardedPick
<1> QED  BY OrdersInvariant, OrdersImplyProperties, PTL

-----------------------------------------------------------------------------
(* The till.                                                               *)

\* A key that is claimed: one more is in use, and no other with its name.
Claims(key, body, answer) ==
  /\ Entries(key) = {}
  /\ keys' = keys \cup {[key |-> key, body |-> body, answer |-> answer]}
EntersAs(e, body, answer) ==
  /\ Till!Enter(e) /\ (e.locked <=> answer = Absent)
  /\ e.sale = (IF answer = Absent THEN 0 ELSE answer.sid)
  /\ e.body = [mandate |-> Store, hash |-> body]
LEMMA KeyEntered ==
  ASSUME NEW key, NEW body, NEW answer, Claims(key, body, answer)
  PROVE  \E e \in KeysInUse' \ KeysInUse : EntersAs(e, body, answer)
<1>1. PICK k : k = [key |-> key, body |-> body, answer |-> answer]
  OBVIOUS
<1>2. PICK e : e = [key |-> key, body |-> [mandate |-> Store, hash |-> body],
                    locked |-> answer = Absent,
                    sale |-> IF answer = Absent THEN 0 ELSE answer.sid]
  OBVIOUS
<1>3. KeySeen(k) = e
  BY <1>1, <1>2 DEF KeySeen
<1>4. KeysInUse' = KeysInUse \cup {e}
  <2>1. keys' = keys \cup {k}
    BY <1>1 DEF Claims
  <2> QED  BY <1>3, <2>1 DEF KeysInUse, KeySeen
<1>5. \A f \in KeysInUse : f.key # e.key
  BY <1>2 DEF KeysInUse, KeySeen, Entries, Claims
<1>6. Till!Enter(e) /\ e \in KeysInUse' \ KeysInUse
  BY <1>4, <1>5 DEF Till!Enter
<1>7. /\ e.locked <=> answer = Absent
      /\ e.sale = (IF answer = Absent THEN 0 ELSE answer.sid)
      /\ e.body = [mandate |-> Store, hash |-> body]
  BY <1>2
<1> QED  BY <1>6, <1>7 DEF EntersAs

\* A lock that is swept: its key, and only that, is out of use.
LEMMA KeyFreed ==
  ASSUME KeyInv, NEW k \in keys, ~Answered(k), keys' = keys \ {k}
  PROVE  \E e \in KeysInUse : e.locked /\ KeysInUse' = KeysInUse \ {e}
<1>1. PICK e : e = KeySeen(k)
  OBVIOUS
<1>2. e.locked /\ e \in KeysInUse
  BY <1>1 DEF KeySeen, KeysInUse, Answered
<1>3. \A l \in keys \ {k} : KeySeen(l) # e
  BY <1>1 DEF KeyInv, KeySeen
<1>4. \A f : f \in KeysInUse' <=> \E l \in keys \ {k} : f = KeySeen(l)
  BY DEF KeysInUse, KeySeen
<1>5. \A f : f \in KeysInUse <=> \E l \in keys : f = KeySeen(l)
  BY DEF KeysInUse
<1>6. KeysInUse' = KeysInUse \ {e}
  BY <1>1, <1>3, <1>4, <1>5
<1> QED  BY <1>2, <1>6

\* What there is of a settlement in the till, before a step and after it.
SalesAre(sales, made) ==
  /\ DOMAIN sales = DOMAIN made
  /\ \A s \in DOMAIN made :
       sales[s] = [mandate |-> Store, hash |-> made[s].cart, state |-> made[s].state]
  /\ sales = [s \in DOMAIN sales |-> sales[s]]
LEMMA SalesBefore == SalesAre(SalesMade, rows)
BY DEF SalesMade, SalesAre
LEMMA SalesAfter == SalesAre(SalesMade', rows')
BY DEF SalesMade, SalesAre

\* A settlement that moves.
LEMMA SaleMoves == ASSUME Typed, RowMoves PROVE Till!Next
<1>1. PICK old : old = SalesMade /\ SalesAre(old, rows)
  BY SalesBefore
<1>2. PICK new : new = SalesMade' /\ SalesAre(new, rows')
  BY SalesAfter
<1>3. PICK s \in DOMAIN rows, to \in SettlementState :
        /\ to \in SETTLEMENT_TRANSITIONS[rows[s].state]
        /\ rows' = [rows EXCEPT ![s].state = to] /\ UNCHANGED keys
  BY DEF RowMoves
<1>4. rows[s] = [state |-> rows[s].state, cart |-> rows[s].cart]
  BY DEF Typed, RowsTyped
<1>5. rows'[s].state = to /\ rows'[s].cart = rows[s].cart
  <2>1. rows'[s] = [rows[s] EXCEPT !.state = to]
    BY <1>3
  <2> QED  BY <1>4, <2>1
<1>6. DOMAIN rows' = DOMAIN rows /\ \A t \in DOMAIN rows \ {s} : rows'[t] = rows[t]
  BY <1>3
<1>7. /\ DOMAIN new = DOMAIN old /\ s \in DOMAIN old
      /\ \A t \in DOMAIN old \ {s} : new[t] = old[t]
      /\ new = [t \in DOMAIN new |-> new[t]] /\ old = [t \in DOMAIN old |-> old[t]]
  BY <1>1, <1>2, <1>6 DEF SalesAre
<1>8. old[s].state = rows[s].state /\ new[s] = [old[s] EXCEPT !.state = to]
  <2>1. /\ old[s] = [mandate |-> Store, hash |-> rows[s].cart, state |-> rows[s].state]
        /\ new[s] = [mandate |-> Store, hash |-> rows'[s].cart, state |-> rows'[s].state]
    BY <1>1, <1>2, <1>6 DEF SalesAre
  <2> QED  BY <1>5, <2>1
<1>9. new = [old EXCEPT ![s].state = to]
  BY <1>7, <1>8
<1>10. KeysInUse' = KeysInUse
  BY <1>3 DEF KeysInUse, KeySeen
<1>11. to \in Till!SETTLEMENT_TRANSITIONS[old[s].state]
  BY <1>3, <1>8 DEF Till!SETTLEMENT_TRANSITIONS, SETTLEMENT_TRANSITIONS
<1>12. Till!Move(s, to)
  BY <1>1, <1>2, <1>9, <1>10, <1>11 DEF Till!Move, Till!SettlementCAS
<1> QED  BY <1>1, <1>3, <1>7, <1>12 DEF Till!Next, Till!SettlementState, SettlementState

\* A settlement that comes into being stands in nobody's way, nor anybody in its own.
Joins(cart, state, row, sid, body) ==
  /\ ~Clash(cart)
  /\ rows' = Append(rows, row)
  /\ row = [state |-> state, cart |-> cart] /\ sid = Len(rows) + 1
  /\ body = [mandate |-> Store, hash |-> cart]
Sold(body, sid, state) ==
  /\ sid \in Nat \ {0} /\ sid \notin DOMAIN SalesMade /\ ~Till!Taken(body)
  /\ SalesMade' = [s \in DOMAIN SalesMade \cup {sid} |->
                     IF s = sid THEN [mandate |-> body.mandate, hash |-> body.hash, state |-> state]
                     ELSE SalesMade[s]]
LEMMA SaleJoins ==
  ASSUME Typed, NEW cart, NEW state, NEW row, NEW sid, NEW body, Joins(cart, state, row, sid, body)
  PROVE  Sold(body, sid, state)
<1>1. PICK old : old = SalesMade /\ SalesAre(old, rows)
  BY SalesBefore
<1>2. PICK new : new = SalesMade' /\ SalesAre(new, rows')
  BY SalesAfter
<1>3. body.mandate = Store /\ body.hash = cart
  BY DEF Joins
<1>4. row.state = state /\ row.cart = cart
  BY DEF Joins
<1>5. /\ DOMAIN rows = 1 .. Len(rows) /\ Len(rows) \in Nat
      /\ DOMAIN rows' = 1 .. Len(rows) + 1
      /\ \A s \in DOMAIN rows : rows'[s] = rows[s]
      /\ rows'[Len(rows) + 1] = row
  BY AppendKeeps DEF Typed, Joins
<1>6. /\ sid \in Nat \ {0} /\ sid \notin DOMAIN rows
      /\ DOMAIN rows' = DOMAIN rows \cup {sid}
      /\ rows'[sid].cart = cart /\ rows'[sid].state = state
  <2>1. sid = Len(rows) + 1
    BY DEF Joins
  <2> QED  BY <1>4, <1>5, <2>1
<1>7. sid \notin DOMAIN old /\ DOMAIN new = DOMAIN old \cup {sid}
  BY <1>1, <1>2, <1>6 DEF SalesAre
<1>8. new[sid] = [mandate |-> body.mandate, hash |-> body.hash, state |-> state]
  <2>1. new[sid] = [mandate |-> Store, hash |-> rows'[sid].cart, state |-> rows'[sid].state]
    <3>1. sid \in DOMAIN rows'
      BY <1>6
    <3> QED  BY <1>2, <3>1 DEF SalesAre
  <2> QED  BY <1>3, <1>6, <2>1
<1>9. \A s \in DOMAIN old : s # sid /\ new[s] = old[s]
  BY <1>1, <1>2, <1>5, <1>6, <1>7 DEF SalesAre
<1>10. new = [s \in DOMAIN old \cup {sid} |->
                IF s = sid THEN [mandate |-> body.mandate, hash |-> body.hash, state |-> state]
                ELSE old[s]]
  <2>1. new = [s \in DOMAIN new |-> new[s]]
    BY <1>2 DEF SalesAre
  <2> QED  BY <1>7, <1>8, <1>9, <2>1
<1>11. ~Till!Taken(body)
  <2> SUFFICES ASSUME Till!Taken(body) PROVE FALSE
    OBVIOUS
  <2>1. PICK s \in DOMAIN old :
          \/ old[s].hash = body.hash /\ old[s].state \notin ReleasedSettlement
          \/ old[s].mandate = body.mandate /\ old[s].state \notin TerminalSettlement
    BY <1>1 DEF Till!Taken, Till!ReleasedSettlement, ReleasedSettlement,
       Till!TerminalSettlement, TerminalSettlement
  <2>2. s \in DOMAIN rows /\ old[s].hash = rows[s].cart /\ old[s].state = rows[s].state
    BY <1>1, <2>1 DEF SalesAre
  <2>3. Clash(cart)
    BY <1>3, <2>1, <2>2 DEF Clash, Held, Live
  <2> QED  BY <2>3 DEF Joins
<1> QED  BY <1>1, <1>2, <1>6, <1>7, <1>10, <1>11 DEF Sold

\* Each change of the two tables is a step of the till, or none.
LEMMA TablesAreTill == ASSUME Typed, KeyInv, TableStep PROVE [Till!Next]_(Till!vars)
<1>1. CASE TablesStay
  BY <1>1 DEF TablesStay, Till!vars, KeysInUse, KeySeen, SalesMade
<1>2. ASSUME rows' = rows PROVE SalesMade' = SalesMade
  BY <1>2 DEF SalesMade
<1>3. ASSUME rows' = rows, NEW e \in KeysInUse' \ KeysInUse, Till!Enter(e), e.sale = 0
      PROVE  Till!Next
  BY <1>2, <1>3 DEF Till!Claim, Till!Next
<1>4. CASE KeyLocks
  <2>1. PICK key, body, answer :
          Claims(key, body, answer) /\ rows' = rows /\ answer = Absent
    BY <1>4 DEF KeyLocks, Claims
  <2>2. PICK e \in KeysInUse' \ KeysInUse : EntersAs(e, body, answer)
    BY <2>1, KeyEntered
  <2>3. Till!Enter(e) /\ e.sale = 0
    BY <2>1, <2>2 DEF EntersAs
  <2> QED  BY <1>3, <2>1, <2>2, <2>3
<1>5. CASE KeyRefuses
  <2>1. PICK key, body, answer :
          Claims(key, body, answer) /\ rows' = rows /\ answer = Refused
    BY <1>5 DEF KeyRefuses, Claims
  <2>2. PICK e \in KeysInUse' \ KeysInUse : EntersAs(e, body, answer)
    BY <2>1, KeyEntered
  <2>3. Till!Enter(e) /\ e.sale = 0
    BY <2>1, <2>2 DEF EntersAs, Refused
  <2> QED  BY <1>3, <2>1, <2>2, <2>3
<1>6. CASE KeyDrops
  <2>1. PICK k \in keys : ~Answered(k) /\ keys' = keys \ {k} /\ rows' = rows
    BY <1>6 DEF KeyDrops
  <2>2. PICK e \in KeysInUse : e.locked /\ KeysInUse' = KeysInUse \ {e}
    BY <2>1, KeyFreed
  <2> QED  BY <1>2, <2>1, <2>2 DEF Till!Unlock, Till!Next
<1>7. CASE RowJoins
  <2>1. PICK cart : \E state \in {"rejected", "pending_approval", "approved"} :
          /\ Entries(cart.id) = {}
          /\ keys' = keys \cup {[key |-> cart.id, body |-> cart,
                                 answer |-> [ok |-> TRUE, sid |-> Len(rows) + 1, state |-> state]]}
          /\ rows' = Append(rows, [state |-> state, cart |-> cart]) /\ ~Clash(cart)
    BY <1>7 DEF RowJoins
  <2>2. PICK state \in {"rejected", "pending_approval", "approved"} :
          /\ Entries(cart.id) = {}
          /\ keys' = keys \cup {[key |-> cart.id, body |-> cart,
                                 answer |-> [ok |-> TRUE, sid |-> Len(rows) + 1, state |-> state]]}
          /\ rows' = Append(rows, [state |-> state, cart |-> cart]) /\ ~Clash(cart)
    BY <2>1
  <2>3. PICK sid : sid = Len(rows) + 1
    OBVIOUS
  <2>4. PICK body : body = [mandate |-> Store, hash |-> cart]
    OBVIOUS
  <2>5. PICK row : row = [state |-> state, cart |-> cart] /\ rows' = Append(rows, row)
    BY <2>2
  <2>6. Sold(body, sid, state)
    <3>1. Joins(cart, state, row, sid, body)
      BY <2>2, <2>3, <2>4, <2>5 DEF Joins
    <3> QED  BY <3>1, SaleJoins
  <2>7. PICK answer : answer = [ok |-> TRUE, sid |-> sid, state |-> state]
    OBVIOUS
  <2>8. answer # Absent /\ answer.sid = sid
    <3>1. answer \in [ok : BOOLEAN, sid : Nat, state : SettlementState \cup {"none", "contested"}]
      BY <2>6, <2>7 DEF SettlementState, Sold
    <3> QED  BY <2>7, <3>1, PurchaseAssumption
  <2>9. Claims(cart.id, cart, answer)
    BY <2>2, <2>3, <2>7 DEF Claims
  <2>10. PICK e \in KeysInUse' \ KeysInUse : EntersAs(e, cart, answer)
    BY <2>9, KeyEntered
  <2>11. Till!Enter(e) /\ ~e.locked /\ e.sale = sid /\ e.sale # 0 /\ e.body = body
    BY <2>4, <2>6, <2>8, <2>10 DEF EntersAs, Sold
  <2>12. Till!Sell(e, state)
    BY <2>6, <2>10, <2>11 DEF Till!Sell, Sold
  <2> QED  BY <2>10, <2>12 DEF Till!Next
<1>8. CASE RowMoves
  BY <1>8, SaleMoves
<1> QED  BY <1>1, <1>4, <1>5, <1>6, <1>7, <1>8 DEF TableStep

\* The facilitator these buyers post to is the till of module Till, the one that module
\* Settlements keeps: a key is answered once and names the settlement made for its body,
\* and no purchase is taken in twice (submitSettlement, POST /settlements).
THEOREM PurchaseKeepsTill == Spec => KeepsTill
<1>1. Init => Till!Init
  <2> SUFFICES ASSUME Init PROVE Till!Init
    OBVIOUS
  <2>1. keys = {} /\ DOMAIN rows = {}
    BY DEF Init
  <2>2. PICK sales : sales = SalesMade /\ SalesAre(sales, rows)
    BY SalesBefore
  <2> QED  BY <2>1, <2>2 DEF Till!Init, KeysInUse, SalesAre
<1>2. IInv /\ [Next]_vars => [Till!Next]_(Till!vars)
  <2>1. ASSUME IInv, Next PROVE [Till!Next]_(Till!vars)
    BY <2>1, NextFine, TablesAreTill DEF Fine, IInv
  <2>2. ASSUME UNCHANGED vars PROVE UNCHANGED Till!vars
    BY <2>2 DEF vars, Till!vars, KeysInUse, KeySeen, SalesMade
  <2> QED  BY <2>1, <2>2
<1> QED  BY <1>1, <1>2, PurchaseInvariant, PTL DEF Spec, KeepsTill, Till!Spec
=============================================================================
