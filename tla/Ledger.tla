------------------------------- MODULE Ledger -------------------------------
(***************************************************************************)
(* The ledger (ledger.ts) and the rebuild of its table by a newer build    *)
(* (db/index.ts).  Each row names the hash of its predecessor; the rows    *)
(* are append-only for the process and editable for whoever holds the      *)
(* file.  A hash is the thing hashed, and what is hashed is the previous   *)
(* hash and the event: so a hash is the sequence of the events so far.     *)
(***************************************************************************)
EXTENDS Naturals, Sequences

CONSTANTS
  EventType,   \* the event types of this build's schema
  OlderType,   \* the ones an older build's CHECK admits
  Subject,     \* what an event is about (its payload)
  Garbled      \* a payload that is no longer JSON

ASSUME LedgerAssumption == OlderType \subseteq EventType /\ Garbled \notin Subject

VARIABLES
  table,      \* ledger_events
  permitted,  \* the values its CHECK(event_type IN ...) admits
  edited      \* the rows somebody rewrote in the file

vars == <<table, permitted, edited>>

Event == [type : EventType, subject : Subject]
GENESIS_HASH == <<>>
Digest(prev, event) == Append(prev, event)
StoredEvent == [type : EventType, subject : Subject \cup {Garbled}]
LedgerRow == [event : StoredEvent, prev : Seq(Event), hash : Seq(Event)]

\* The file of an older build, or a new one.
Init == table = <<>> /\ permitted \in {OlderType, EventType} /\ edited = {}

HeadBefore(i) == IF i = 1 THEN GENESIS_HASH ELSE table[i - 1].hash
currentHead == HeadBefore(Len(table) + 1)

\* Mutant of RowAfter: the head is the one some earlier transaction read.
RowAfterStaleHead(event) ==
  LET head == HeadBefore(IF Len(table) = 0 THEN 1 ELSE Len(table))
  IN [event |-> event, prev |-> head, hash |-> Digest(head, event)]
RowAfter(event) ==
  [event |-> event, prev |-> currentHead, hash |-> Digest(currentHead, event)]

\* appendLedger, inside its caller's transaction: an event the CHECK refuses fails it.
AppendLedger(event) ==
  /\ event.type \in permitted
  /\ table' = Append(table, RowAfter(event))
  /\ UNCHANGED <<permitted, edited>>

\* Mutant of openDb: the rows are appended again, under the new table's own head.
openDbReappending ==
  /\ permitted' = EventType
  /\ table' = IF EventType \subseteq permitted THEN table
              ELSE [i \in DOMAIN table |->
                      [table[i] EXCEPT !.hash = Digest(GENESIS_HASH, table[i].event)]]
  /\ UNCHANGED edited

\* healLedgerEventTypeCheck, in openDb: where the CHECK is stale, the table is renamed,
\* recreated, its rows copied with their hashes, and the old one dropped, all at once.
openDb ==
  /\ permitted' = IF EventType \subseteq permitted THEN permitted ELSE EventType
  /\ UNCHANGED <<table, edited>>

\* A row's event is rewritten in the file; the triggers stop the process, not its owner.
EditRow(i, event) ==
  /\ i \in DOMAIN table \ edited /\ event # table[i].event
  /\ table' = [table EXCEPT ![i].event = event]
  /\ edited' = edited \cup {i}
  /\ UNCHANGED permitted

Broken(i) ==
  \/ table[i].prev # HeadBefore(i)
  \/ table[i].event.subject = Garbled
  \/ table[i].hash # Digest(table[i].prev, table[i].event)

\* Mutant of verifyLedger: a row is compared with its own hash and not with its past.
verifyLedgerRowsOnly ==
  IF \E i \in DOMAIN table : table[i].hash # Digest(table[i].prev, table[i].event)
  THEN CHOOSE i \in DOMAIN table : table[i].hash # Digest(table[i].prev, table[i].event)
  ELSE 0

\* The row the walk stops at, 0 when it reaches the head.  (A garbled payload stops it
\* with an exception of JSON.parse instead of an answer.)
verifyLedger ==
  IF \E i \in DOMAIN table : Broken(i)
  THEN CHOOSE i \in DOMAIN table : Broken(i) /\ \A j \in 1 .. i - 1 : ~Broken(j)
  ELSE 0

Next ==
  \/ \E event \in Event : AppendLedger(event)
  \/ openDb
  \/ \E i \in DOMAIN table, event \in StoredEvent : EditRow(i, event)

Spec == Init /\ [][Next]_vars

-----------------------------------------------------------------------------
(* Properties.                                                             *)

\* Verification answers for exactly what was done to the file: it stops at the first
\* row that was rewritten, and reaches the head when none was, over every append,
\* rollback and rebuild of the table (verifyLedger, healLedgerEventTypeCheck).
ChainVerdict ==
  IF edited = {} THEN verifyLedger = 0
  ELSE verifyLedger \in edited /\ \A i \in edited : verifyLedger <= i

\* The process only ever adds to the ledger: no step but an edit of the file changes or
\* drops a row, its hash included, and a step adds one at most (appendLedger; the copy
\* of healLedgerEventTypeCheck).
AppendOnly ==
  [][edited' = edited =>
       /\ Len(table') \in {Len(table), Len(table) + 1}
       /\ \A i \in DOMAIN table : table'[i] = table[i]]_vars
=============================================================================
