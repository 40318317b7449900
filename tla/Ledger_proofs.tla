---------------------------- MODULE Ledger_proofs ----------------------------
(***************************************************************************)
(* Theorems of Ledger, for any event types, payloads, appends, rebuilds    *)
(* and edits: what verification answers, and that rows are only added.     *)
(***************************************************************************)
EXTENDS Ledger, TLAPS, Arithmetic_proofs

\* Rows are well formed, and an edit leaves both hashes of a row as they were.
Typed ==
  /\ table \in Seq(LedgerRow)
  /\ edited \subseteq DOMAIN table

\* Each row names its predecessor's hash, and its own was made from an event of the
\* process: of the one it still holds, unless the row was rewritten.
Chained ==
  /\ \A i \in DOMAIN table : table[i].prev = HeadBefore(i)
  /\ \A i \in DOMAIN table :
       \E e \in Event : /\ table[i].hash = Digest(table[i].prev, e)
                        /\ IF i \in edited THEN table[i].event # e ELSE table[i].event = e

LedgerInv == Typed /\ Chained

-----------------------------------------------------------------------------
(* Hashes.                                                                 *)

\* The hash of an event after a given hash determines the event.
LEMMA DigestInjective ==
  ASSUME NEW s \in Seq(Event), NEW e \in Event, NEW f \in Event, Digest(s, e) = Digest(s, f)
  PROVE  e = f
<1>1. Append(s, e)[Len(s) + 1] = e /\ Append(s, f)[Len(s) + 1] = f
  OBVIOUS
<1> QED  BY <1>1 DEF Digest

-----------------------------------------------------------------------------
(* The steps.                                                              *)

LEMMA RowTyped ==
  ASSUME Typed
  PROVE  /\ DOMAIN table = 1 .. Len(table) /\ Len(table) \in Nat
         /\ \A i \in DOMAIN table : /\ table[i] \in LedgerRow /\ table[i].event \in StoredEvent
                                    /\ table[i].prev \in Seq(Event) /\ table[i].hash \in Seq(Event)
<1>1. /\ DOMAIN table = 1 .. Len(table) /\ Len(table) \in Nat
      /\ \A i \in DOMAIN table : table[i] \in LedgerRow
  BY DEF Typed
<1>2. \A r \in LedgerRow : r.event \in StoredEvent /\ r.prev \in Seq(Event) /\ r.hash \in Seq(Event)
  BY DEF LedgerRow
<1> QED  BY <1>1, <1>2

LEMMA HeadTyped ==
  ASSUME Typed, NEW i \in 1 .. Len(table) + 1
  PROVE  HeadBefore(i) \in Seq(Event)
<1>1. CASE i = 1
  BY <1>1 DEF HeadBefore, GENESIS_HASH
<1>2. CASE i # 1
  <2>1. i - 1 \in DOMAIN table
    BY <1>2, RowTyped
  <2> QED  BY <1>2, <2>1, RowTyped DEF HeadBefore
<1> QED  BY <1>1, <1>2

LEMMA InitLedger == Init => LedgerInv
BY DEF Init, LedgerInv, Typed, Chained

LEMMA AppendKeeps ==
  ASSUME LedgerInv, NEW event \in Event, AppendLedger(event)
  PROVE  LedgerInv'
<1> DEFINE r == RowAfter(event)
<1>n. PICK n \in Nat : n = Len(table) + 1
  BY DEF LedgerInv, Typed
<1>1. currentHead \in Seq(Event)
  BY HeadTyped DEF LedgerInv, currentHead, Typed
<1>2. r \in LedgerRow
  BY <1>1 DEF RowAfter, LedgerRow, Digest, StoredEvent, Event
<1>3. /\ table' = Append(table, r) /\ edited' = edited
      /\ table' \in Seq(LedgerRow) /\ Len(table') = n /\ DOMAIN table' = 1 .. n
      /\ \A i \in DOMAIN table : table'[i] = table[i]
      /\ table'[n] = r /\ DOMAIN table = 1 .. Len(table) /\ Len(table) \in Nat
  BY <1>2, <1>n DEF AppendLedger, LedgerInv, Typed
<1>4. Typed'
  BY <1>3 DEF Typed, LedgerInv
<1>5. ASSUME NEW i \in DOMAIN table
      PROVE  HeadBefore(i)' = HeadBefore(i)
  BY <1>3 DEF HeadBefore
<1>6. HeadBefore(n)' = currentHead
  <2>1. CASE n = 1
    BY <1>n, <2>1 DEF HeadBefore, currentHead
  <2>2. CASE n # 1
    <3>1. n - 1 \in DOMAIN table
      BY <1>3, <1>n, <2>2
    <3>2. table'[n - 1] = table[n - 1]
      BY <1>3, <3>1
    <3> QED  BY <1>n, <2>2, <3>2 DEF HeadBefore, currentHead
  <2> QED  BY <2>1, <2>2
<1>7. \A i \in DOMAIN table' : table'[i].prev = HeadBefore(i)'
  <2>1. table'[n].prev = HeadBefore(n)'
    BY <1>3, <1>6 DEF RowAfter
  <2>2. \A i \in DOMAIN table : table'[i].prev = HeadBefore(i)'
    BY <1>3, <1>5 DEF LedgerInv, Chained
  <2>3. DOMAIN table' = DOMAIN table \cup {n}
    BY <1>3, <1>n
  <2> QED  BY <2>1, <2>2, <2>3
<1>8. ASSUME NEW i \in DOMAIN table'
      PROVE  \E e \in Event : /\ table'[i].hash = Digest(table'[i].prev, e)
                              /\ IF i \in edited' THEN table'[i].event # e ELSE table'[i].event = e
  <2>1. CASE i \in DOMAIN table
    BY <1>3, <2>1 DEF LedgerInv, Chained
  <2>2. CASE i = n
    <3>1. n \notin edited'
      BY <1>3, <1>n DEF LedgerInv, Typed
    <3>2. table'[n].hash = Digest(table'[n].prev, event) /\ table'[n].event = event
      BY <1>3 DEF RowAfter
    <3> QED  BY <2>2, <3>1, <3>2
  <2> QED  BY <1>3, <1>n, <2>1, <2>2
<1> QED  BY <1>4, <1>7, <1>8 DEF LedgerInv, Chained

LEMMA EditKeeps ==
  ASSUME LedgerInv, NEW k \in DOMAIN table, NEW event \in StoredEvent, EditRow(k, event)
  PROVE  LedgerInv'
<1> DEFINE r == [table[k] EXCEPT !.event = event]
<1>1. table[k] \in LedgerRow /\ r \in LedgerRow
  <2>1. table[k] \in LedgerRow
    BY RowTyped DEF LedgerInv
  <2> QED  BY <2>1 DEF LedgerRow
<1>2. /\ table' = [table EXCEPT ![k] = r] /\ edited' = edited \cup {k}
      /\ k \notin edited /\ event # table[k].event
  BY DEF EditRow
<1>3. Typed'
  BY <1>1, <1>2 DEF LedgerInv, Typed
<1>4. /\ DOMAIN table' = DOMAIN table
      /\ \A i \in DOMAIN table : /\ table'[i].prev = table[i].prev
                                 /\ table'[i].hash = table[i].hash
                                 /\ i # k => table'[i] = table[i]
      /\ table'[k].event = event
  <2>1. DOMAIN table' = DOMAIN table /\ table'[k] = r /\ \A i \in DOMAIN table \ {k} : table'[i] = table[i]
    BY <1>2 DEF LedgerInv, Typed
  <2>2. r.prev = table[k].prev /\ r.hash = table[k].hash /\ r.event = event
    BY <1>1 DEF LedgerRow
  <2> HIDE DEF r
  <2> QED  BY <2>1, <2>2
<1>5. DOMAIN table = 1 .. Len(table)
  BY DEF LedgerInv, Typed
<1>6. ASSUME NEW i \in DOMAIN table
      PROVE  table'[i].prev = HeadBefore(i)'
  BY <1>4, <1>5 DEF HeadBefore, LedgerInv, Chained
<1>7. ASSUME NEW i \in DOMAIN table
      PROVE  \E e \in Event : /\ table'[i].hash = Digest(table'[i].prev, e)
                              /\ IF i \in edited' THEN table'[i].event # e ELSE table'[i].event = e
  <2>1. PICK e \in Event : /\ table[i].hash = Digest(table[i].prev, e)
                           /\ IF i \in edited THEN table[i].event # e ELSE table[i].event = e
    BY DEF LedgerInv, Chained
  <2>2. CASE i = k
    <3>1. e = table[k].event /\ k \in edited'
      <4> HIDE DEF r
      <4>1. k \notin edited /\ edited' = edited \cup {k}
        BY <1>2
      <4> QED  BY <2>1, <2>2, <4>1
    <3>2. event # e
      BY <1>2, <3>1
    <3>3. table'[i].hash = table[i].hash /\ table'[i].prev = table[i].prev /\ table'[i].event = event
      BY <1>4, <2>2
    <3> QED  BY <2>1, <2>2, <3>1, <3>2, <3>3
  <2>3. CASE i # k
    BY <1>2, <1>4, <2>1, <2>3
  <2> QED  BY <2>2, <2>3
<1> QED  BY <1>3, <1>4, <1>6, <1>7 DEF LedgerInv, Chained

LEMMA StepKeeps == LedgerInv /\ [Next]_vars => LedgerInv'
<1> SUFFICES ASSUME LedgerInv, [Next]_vars PROVE LedgerInv'
  OBVIOUS
<1>1. ASSUME NEW event \in Event, AppendLedger(event) PROVE LedgerInv'
  BY <1>1, AppendKeeps
<1>2. ASSUME table' = table, edited' = edited PROVE LedgerInv'
  BY <1>2 DEF LedgerInv, Typed, Chained, HeadBefore
<1>3. ASSUME NEW i \in DOMAIN table, NEW event \in StoredEvent, EditRow(i, event) PROVE LedgerInv'
  BY <1>3, EditKeeps
<1> QED  BY <1>1, <1>2, <1>3 DEF Next, openDb, vars

\* Rows stay well formed and chained, whoever appends, rebuilds or edits.
THEOREM LedgerInvariant == Spec => []LedgerInv
BY InitLedger, StepKeeps, PTL DEF Spec

-----------------------------------------------------------------------------
(* The verdict.                                                            *)

\* Verification finds a row wrong exactly when it was rewritten.
LEMMA BrokenIsEdited ==
  ASSUME LedgerInv, NEW i \in DOMAIN table
  PROVE  Broken(i) <=> i \in edited
<1>1. table[i].prev = HeadBefore(i)
  BY DEF LedgerInv, Chained
<1>2. PICK e \in Event : /\ table[i].hash = Digest(table[i].prev, e)
                         /\ IF i \in edited THEN table[i].event # e ELSE table[i].event = e
  BY DEF LedgerInv, Chained
<1>3. table[i] \in LedgerRow /\ table[i].prev \in Seq(Event) /\ table[i].event \in StoredEvent
  BY RowTyped DEF LedgerInv
<1>4. CASE i \notin edited
  <2>1. table[i].event.subject # Garbled
    BY <1>2, <1>4, LedgerAssumption DEF Event
  <2> QED  BY <1>1, <1>2, <1>4, <2>1 DEF Broken
<1>5. CASE i \in edited
  <2>1. CASE table[i].event.subject = Garbled
    BY <1>5, <2>1 DEF Broken
  <2>2. CASE table[i].event.subject # Garbled
    <3>1. table[i].event \in Event
      BY <1>3, <2>2 DEF StoredEvent, Event
    <3>2. table[i].hash # Digest(table[i].prev, table[i].event)
      BY <1>2, <1>3, <1>5, <3>1, DigestInjective
    <3> QED  BY <1>5, <3>2 DEF Broken
  <2> QED  BY <2>1, <2>2
<1> QED  BY <1>4, <1>5

LEMMA VerdictIsRight == LedgerInv => ChainVerdict
<1> SUFFICES ASSUME LedgerInv PROVE ChainVerdict
  OBVIOUS
<1>1. DOMAIN table = 1 .. Len(table) /\ Len(table) \in Nat /\ edited \subseteq DOMAIN table
  BY DEF LedgerInv, Typed
<1>2. \A i \in DOMAIN table : Broken(i) <=> i \in edited
  BY BrokenIsEdited
<1>3. CASE edited = {}
  BY <1>2, <1>3 DEF ChainVerdict, verifyLedger
<1>4. CASE edited # {}
  <2>1. PICK f \in edited : \A i \in edited : f <= i
    BY <1>1, <1>4, LeastOf
  <2>2. Broken(f) /\ \A j \in 1 .. f - 1 : ~Broken(j)
    <3>1. ASSUME NEW j \in 1 .. f - 1 PROVE ~Broken(j)
      BY <1>1, <1>2, <2>1
    <3> QED  BY <1>1, <1>2, <3>1
  <2>3. \E i \in DOMAIN table : Broken(i) /\ \A j \in 1 .. i - 1 : ~Broken(j)
    BY <1>1, <2>2
  <2>4. /\ verifyLedger \in DOMAIN table /\ Broken(verifyLedger)
        /\ \A j \in 1 .. verifyLedger - 1 : ~Broken(j)
    BY <2>3 DEF verifyLedger
  <2>5. verifyLedger \in edited
    BY <1>2, <2>4
  <2>6. ASSUME NEW i \in edited PROVE verifyLedger <= i
    BY <1>1, <1>2, <2>4
  <2> QED  BY <1>4, <2>5, <2>6 DEF ChainVerdict
<1> QED  BY <1>3, <1>4

\* verifyLedger answers for exactly what was done to the file: the first rewritten row,
\* or none, over every history of appends, rebuilds and edits.
THEOREM VerdictHolds == Spec => []ChainVerdict
BY LedgerInvariant, VerdictIsRight, PTL

\* The process only adds to the ledger: appendLedger adds one row, the rebuild of
\* healLedgerEventTypeCheck none, and neither touches a row that is there.
THEOREM OnlyAppends == Spec => AppendOnly
<1>1. ASSUME LedgerInv, [Next]_vars, edited' = edited
      PROVE  /\ Len(table') \in {Len(table), Len(table) + 1}
             /\ \A i \in DOMAIN table : table'[i] = table[i]
  <2>1. ASSUME NEW event \in Event, AppendLedger(event)
        PROVE  /\ Len(table') \in {Len(table), Len(table) + 1}
               /\ \A i \in DOMAIN table : table'[i] = table[i]
    BY <1>1, <2>1 DEF AppendLedger, LedgerInv, Typed
  <2>2. ASSUME NEW i \in DOMAIN table, NEW event \in StoredEvent, EditRow(i, event) PROVE FALSE
    BY <1>1, <2>2 DEF EditRow
  <2> QED  BY <1>1, <2>1, <2>2 DEF Next, openDb, vars
<1>2. LedgerInv /\ [Next]_vars =>
        [edited' = edited =>
           /\ Len(table') \in {Len(table), Len(table) + 1}
           /\ \A i \in DOMAIN table : table'[i] = table[i]]_vars
  BY <1>1
<1> QED  BY LedgerInvariant, <1>2, PTL DEF Spec, AppendOnly
=============================================================================
