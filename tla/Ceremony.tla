------------------------------ MODULE Ceremony ------------------------------
(***************************************************************************)
(* How a budget comes to be: an agent proposes one, a human approves it in *)
(* a page of the dashboard (or fills in the ceremony by hand), the page    *)
(* mints a token, posts the signed intent, and marks the proposal          *)
(* consumed.  Each facilitator handler is one step; each `await` of the    *)
(* page is a state of its flow.  A posted intent is delivered late, twice  *)
(* or never, and an answer may be lost.                                    *)
(***************************************************************************)
EXTENDS Terms, Sequences, FiniteSets

CONSTANTS
  Mandate,     \* mandate ids (a bound on how many are signed)
  Proposal,    \* ids for rows of mandate_proposals (a bound)
  Token,       \* ceremony tokens (a bound)
  Tab,         \* the dashboard's pages, in one browser
  Key,         \* the keys a human makes, of either kind (a bound)
  NoKey, NoMandate, ByHand, Garbled,
  Ask,         \* what the agent's tool call asks for in each proposal
  Form,        \* what the human fills in by hand
  OlderType,   \* what an older build's ledger admits, short of a type added since
  ttl,         \* how long an offer, or a mandate made by hand, stays good
  MaxTime      \* the clock's bound

EventType == {"mandate_registered", "mandate_revoked"}

ASSUME CeremonyAssumption ==
  /\ OlderType \subseteq EventType
  /\ NoKey \notin Key /\ Key # {}
  /\ NoMandate \notin Mandate /\ Garbled \notin Mandate /\ ByHand \notin Proposal
  /\ ttl \in Nat /\ MaxTime \in Nat
  /\ DOMAIN Ask = Proposal /\ \A p \in Proposal : IsRequest(Ask[p])

VARIABLES
  now,
  serving,    \* which build of the facilitator runs, if any
  token,      \* ceremony_tokens
  mandate,    \* mandates
  proposal,   \* mandate_proposals
  posted,     \* bodies of POST /mandates in the network
  storage,    \* localStorage: hundi.humanKey and hundi.passkeyIdentity
  discarded,  \* keys the browser no longer stores
  agentKey,   \* localStorage: mandates whose agent key is kept here
  tab,        \* each page's React state, and the flow it is in
  table, permitted   \* the ledger

ledgerVars == <<table, permitted>>
keys == <<storage, discarded>>
vars == <<now, serving, token, mandate, proposal, posted, storage, discarded, agentKey, tab,
          table, permitted>>

L == INSTANCE Ledger WITH Subject <- Mandate, edited <- {}

Time == 0 .. MaxTime + ttl
Source == Proposal \cup {ByHand}
StagedTerms == {Columns(proposeMandate(PreparedArgs(Ask[p]))) : p \in Proposal}
SignableTerms == {SignedTerms(ResponseTerms(c)) : c \in StagedTerms} \cup {FormTerms(Form)}
\* An intent as it travels: the key that signed it and the one it is registered under.
Body == [mandate : Mandate, from : Source, signer : Key, credential : Key, expires : Time,
         terms : SignableTerms, token : Token]
NoIntent == [mandate |-> NoMandate]
Intent == [mandate : Mandate, from : Source, signer : Key, credential : Key, expires : Time,
           terms : SignableTerms]

\* `token` and `signer` of a mandate are not columns: they say how it was registered.
Row == [from : Source, signer : Key, credential : Key, expires : Time, terms : SignableTerms,
        token : Token, revoked : BOOLEAN]
NoRow == [from |-> "none"]
Offer == [expires : Time, terms : StagedTerms, consumed : BOOLEAN]
NoOffer == [expires |-> "none"]

\* A page as it mounts: identity-context reads localStorage once.
Mounted ==
  [human |-> storage.human, passkey |-> storage.passkey,
   seen |-> {}, approved |-> {}, step |-> "idle", intent |-> NoIntent]

Init ==
  /\ now = 0 /\ serving \in {"older", "down"}
  /\ token = [k \in Token |-> "none"]
  /\ mandate = [m \in Mandate |-> NoRow]
  /\ proposal = [p \in Proposal |-> NoOffer]
  /\ posted = {} /\ discarded = {} /\ agentKey = {}
  /\ \E h \in Key : storage = [human |-> h, passkey |-> NoKey]
  /\ tab = [t \in Tab |-> Mounted]
  /\ L!Init

-----------------------------------------------------------------------------
(* The facilitator.                                                        *)

Registered(m) == mandate[m] # NoRow
Recorded(type, m) == \E i \in DOMAIN table : table[i].event = [type |-> type, subject |-> m]
Up == serving # "down"

\* prepare_mandate's call of POST /mandates/propose: an inert row.  What is asked for names a
\* store that is listed; for any other the route answers UNKNOWN_MERCHANT and writes nothing.
Propose(p) ==
  LET body == proposeMandate(PreparedArgs(Ask[p])) IN
  /\ Up /\ proposal[p] = NoOffer
  /\ PrepareAccepts(Ask[p]) /\ BodyAccepts(body)
  /\ proposal' = [proposal EXCEPT ![p] =
       [expires |-> now + ttl, terms |-> Columns(body), consumed |-> FALSE]]
  /\ UNCHANGED <<now, serving, token, mandate, posted, keys, agentKey, tab, ledgerVars>>

\* effectiveStatus: a row past its expiry is expired though its column says pending.
effectiveStatus(p) ==
  IF proposal[p].consumed THEN "consumed"
  ELSE IF proposal[p].expires < now THEN "expired" ELSE "pending"

\* The refusals of POST /mandates roll its transaction back.
Admits(b) ==
  /\ token[b.token] = "live"
  /\ b.signer = b.credential /\ Ingested(b.terms) = b.terms
  /\ ~Registered(b.mandate)

NewRow(b) == [from |-> b.from, signer |-> b.signer, credential |-> b.credential,
              expires |-> b.expires, terms |-> b.terms, token |-> b.token, revoked |-> FALSE]

\* Mutant of Register: the token is spent before the transaction that may refuse.
RegisterSpendingFirst(b) ==
  /\ Up /\ b \in posted /\ token[b.token] = "live"
  /\ token' = [token EXCEPT ![b.token] = "spent"]
  /\ IF Admits(b)
     THEN /\ mandate' = [mandate EXCEPT ![b.mandate] = NewRow(b)]
          /\ L!AppendLedger([type |-> "mandate_registered", subject |-> b.mandate])
     ELSE UNCHANGED <<mandate, ledgerVars>>
  /\ UNCHANGED <<now, serving, proposal, posted, keys, agentKey, tab>>

\* Mutant of Register: the event is appended by whoever reads the mandate next.
RegisterUnrecorded(b) ==
  /\ Up /\ b \in posted /\ Admits(b)
  /\ token' = [token EXCEPT ![b.token] = "spent"]
  /\ mandate' = [mandate EXCEPT ![b.mandate] = NewRow(b)]
  /\ UNCHANGED <<now, serving, proposal, posted, keys, agentKey, tab, ledgerVars>>

\* POST /mandates, on any copy of a body.
Register(b) ==
  /\ Up /\ b \in posted /\ Admits(b)
  /\ token' = [token EXCEPT ![b.token] = "spent"]
  /\ mandate' = [mandate EXCEPT ![b.mandate] = NewRow(b)]
  /\ L!AppendLedger([type |-> "mandate_registered", subject |-> b.mandate])
  /\ UNCHANGED <<now, serving, proposal, posted, keys, agentKey, tab>>

\* POST /revoke, under the credential the mandate is registered with; idempotent.
Revoke(m, signer) ==
  /\ Up /\ Registered(m) /\ mandate[m].credential = signer /\ ~mandate[m].revoked
  /\ mandate' = [mandate EXCEPT ![m].revoked = TRUE]
  /\ L!AppendLedger([type |-> "mandate_revoked", subject |-> m])
  /\ UNCHANGED <<now, serving, token, proposal, posted, keys, agentKey, tab>>

\* The process stops, and is started again by this build; serve opens the database first.
Stop ==
  /\ Up /\ serving' = "down"
  /\ UNCHANGED <<now, token, mandate, proposal, posted, keys, agentKey, tab, ledgerVars>>

\* Mutant of Start: the newer build's table starts empty.
StartAfresh ==
  /\ ~Up /\ serving' = "this" /\ permitted' = EventType
  /\ table' = IF EventType \subseteq permitted THEN table ELSE <<>>
  /\ UNCHANGED <<now, token, mandate, proposal, posted, keys, agentKey, tab>>
Start ==
  /\ ~Up /\ serving' = "this" /\ L!openDb
  /\ UNCHANGED <<now, token, mandate, proposal, posted, keys, agentKey, tab>>

-----------------------------------------------------------------------------
(* The pages.                                                              *)

Idle(t) == tab[t].step = "idle"

\* resolveHumanCredential, and the key humanSign uses: of the page's own two keys the one
\* its signer mode selects.  The mode is switched at will and forgotten by a reload.
SignerMode == {"ed25519", "passkey"}
Signer(t, mode) ==
  IF mode = "passkey" /\ tab[t].passkey # NoKey THEN tab[t].passkey ELSE tab[t].human

FreshKey(k) == k \notin discarded \cup {storage.human, storage.passkey}

\* selectSignerMode, passkey, none known to this page: the one made here replaces
\* whatever another page has stored meanwhile.
RegisterPasskey(t, k) ==
  /\ tab[t].passkey = NoKey /\ FreshKey(k)
  /\ storage' = [storage EXCEPT !.passkey = k]
  /\ discarded' = discarded \cup ({storage.passkey} \ {NoKey})
  /\ tab' = [tab EXCEPT ![t].passkey = k]
  /\ UNCHANGED <<now, serving, token, mandate, proposal, posted, agentKey, ledgerVars>>

\* resetHuman: other pages keep the key they mounted with.
ResetKey(t, k) ==
  /\ FreshKey(k)
  /\ storage' = [storage EXCEPT !.human = k]
  /\ discarded' = discarded \cup {storage.human}
  /\ tab' = [tab EXCEPT ![t].human = k]
  /\ UNCHANGED <<now, serving, token, mandate, proposal, posted, agentKey, ledgerVars>>

\* A page is closed or reloaded: its state and the flow it was in are gone.
Reload(t) ==
  /\ tab' = [tab EXCEPT ![t] = Mounted]
  /\ UNCHANGED <<now, serving, token, mandate, proposal, posted, keys, agentKey, ledgerVars>>

\* usePolling's latest answer.  One that was overtaken puts an older list back, as on a
\* page that has not polled since; an error leaves the list as it is.
PollShown(t) ==
  /\ Up
  /\ tab' = [tab EXCEPT ![t].seen =
       {p \in Proposal : proposal[p] # NoOffer /\ effectiveStatus(p) = "pending"}]
  /\ UNCHANGED <<now, serving, token, mandate, proposal, posted, keys, agentKey, ledgerVars>>

FreshId(m) == ~Registered(m) /\ (\A t \in Tab : tab[t].intent.mandate # m)
              /\ (\A b \in posted : b.mandate # m)

\* Mutant of SignedIntent: the mandate's time starts when it is signed.
SignedIntentFresh(key, m, source) ==
  [mandate |-> m, from |-> source, signer |-> key, credential |-> key,
   expires |-> now + ttl,
   terms |-> IF source = ByHand THEN FormTerms(Form)
             ELSE SignedTerms(ResponseTerms(proposal[source].terms))]
\* buildSignedIntent, of the form's terms or of the proposal's (ceremonyInputFromProposal).
SignedIntent(key, m, source) ==
  [mandate |-> m, from |-> source, signer |-> key, credential |-> key,
   expires |-> IF source = ByHand THEN now + ttl ELSE proposal[source].expires,
   terms |-> IF source = ByHand THEN FormTerms(Form)
             ELSE SignedTerms(ResponseTerms(proposal[source].terms))]

\* approveMandateProposal and MandateCeremony's handleSubmit: sign, then ask for a token.
StartFlow(t, m, source, mode) ==
  /\ Idle(t) /\ FreshId(m)
  /\ source # ByHand => source \in tab[t].seen \ tab[t].approved
  /\ tab' = [tab EXCEPT ![t].step = "minting", ![t].intent = SignedIntent(Signer(t, mode), m, source)]
  /\ UNCHANGED <<now, serving, token, mandate, proposal, posted, keys, agentKey, ledgerVars>>

\* POST /ceremony-tokens; with its answer the page posts the intent.
Mint(t, k) ==
  LET i == tab[t].intent IN
  /\ Up /\ tab[t].step = "minting" /\ token[k] = "none"
  /\ token' = [token EXCEPT ![k] = "live"]
  /\ tab' = [tab EXCEPT ![t].step = "registering"]
  /\ posted' = posted \cup
       {[mandate |-> i.mandate, from |-> i.from, signer |-> i.signer,
         credential |-> i.credential, expires |-> i.expires, terms |-> i.terms, token |-> k]}
  /\ UNCHANGED <<now, serving, mandate, proposal, keys, agentKey, ledgerVars>>

\* A body whose signature is not its credential's, under a live token: a client's
\* mistake, made once here.
PostMissigned(m, k, signer, credential) ==
  /\ FreshId(m) /\ token[k] = "live" /\ signer # credential
  /\ \A b \in posted : b.signer = b.credential
  /\ posted' = posted \cup
       {[mandate |-> m, from |-> ByHand, signer |-> signer, credential |-> credential,
         expires |-> now + ttl, terms |-> FormTerms(Form), token |-> k]}
  /\ UNCHANGED <<now, serving, token, mandate, proposal, keys, agentKey, tab, ledgerVars>>

Ends(t) == [tab EXCEPT ![t].step = "idle", ![t].intent = NoIntent]

\* Mutant of Answered: the agent's key is kept under the id whatever the answer is.
AnsweredOrNot(t) ==
  LET i == tab[t].intent IN
  /\ tab[t].step = "registering"
  /\ agentKey' = IF i.from = ByHand THEN agentKey \cup {i.mandate} ELSE agentKey
  /\ tab' = IF i.from = ByHand THEN Ends(t) ELSE [tab EXCEPT ![t].step = "consuming"]
  /\ UNCHANGED <<now, serving, token, mandate, proposal, posted, keys, ledgerVars>>

\* The page has its 201: it keeps the agent's key, or goes on to consume the proposal.
Answered(t) ==
  LET i == tab[t].intent IN
  /\ tab[t].step = "registering" /\ Registered(i.mandate)
  /\ agentKey' = IF i.from = ByHand THEN agentKey \cup {i.mandate} ELSE agentKey
  /\ tab' = IF i.from = ByHand THEN Ends(t) ELSE [tab EXCEPT ![t].step = "consuming"]
  /\ UNCHANGED <<now, serving, token, mandate, proposal, posted, keys, ledgerVars>>

\* POST /mandates/proposals/:id/consume; the page learns of it, or does not.
Consume(t, heard) ==
  LET p == tab[t].intent.from IN
  /\ Up /\ tab[t].step = "consuming"
  /\ proposal' = [proposal EXCEPT ![p].consumed = TRUE]
  /\ tab' = IF heard THEN [Ends(t) EXCEPT ![t].approved = @ \cup {p}] ELSE Ends(t)
  /\ UNCHANGED <<now, serving, token, mandate, posted, keys, agentKey, ledgerVars>>

\* A call fails or its answer is lost: the error is shown and the button is there again.
CallFails(t) ==
  /\ ~Idle(t) /\ tab' = Ends(t)
  /\ UNCHANGED <<now, serving, token, mandate, proposal, posted, keys, agentKey, ledgerVars>>

\* A token whose answer is lost: nobody will spend it.
MintUnheard(t, k) ==
  /\ Up /\ tab[t].step = "minting" /\ token[k] = "none"
  /\ token' = [token EXCEPT ![k] = "live"] /\ tab' = Ends(t)
  /\ UNCHANGED <<now, serving, mandate, proposal, posted, keys, agentKey, ledgerVars>>

-----------------------------------------------------------------------------
Tick ==
  /\ now < MaxTime /\ now' = now + 1
  /\ UNCHANGED <<serving, token, mandate, proposal, posted, keys, agentKey, tab, ledgerVars>>

TabStep(t) ==
  \/ \E k \in Key : RegisterPasskey(t, k) \/ ResetKey(t, k)
  \/ Reload(t) \/ PollShown(t)
  \/ \E m \in Mandate, source \in Source, mode \in SignerMode : StartFlow(t, m, source, mode)
  \/ \E k \in Token : Mint(t, k) \/ MintUnheard(t, k)
  \/ Answered(t) \/ CallFails(t)
  \/ \E heard \in BOOLEAN : Consume(t, heard)
  \/ \E m \in Mandate, mode \in SignerMode : Revoke(m, Signer(t, mode))

Next ==
  \/ \E p \in Proposal : Propose(p)
  \/ \E b \in posted : Register(b)
  \/ \E t \in Tab : TabStep(t)
  \/ \E m \in Mandate, k \in Token, s, c \in Key : PostMissigned(m, k, s, c)
  \/ Stop \/ Start
  \/ Tick

Spec == Init /\ [][Next]_vars

-----------------------------------------------------------------------------
(* Properties.                                                             *)

TabState ==
  [human : Key, passkey : Key \cup {NoKey},
   seen : SUBSET Proposal, approved : SUBSET Proposal,
   step : {"idle", "minting", "registering", "consuming"}, intent : Intent \cup {NoIntent}]

\* Every row, body and page is one the code can write.
TypeOK ==
  /\ now \in 0 .. MaxTime /\ serving \in {"down", "older", "this"}
  /\ token \in [Token -> {"none", "live", "spent"}]
  /\ mandate \in [Mandate -> Row \cup {NoRow}]
  /\ proposal \in [Proposal -> Offer \cup {NoOffer}]
  /\ posted \subseteq Body
  /\ storage \in [human : Key, passkey : Key \cup {NoKey}]
  /\ discarded \subseteq Key /\ agentKey \subseteq Mandate
  /\ tab \in [Tab -> TabState]
  /\ \A t \in Tab : tab[t].step # "idle" => tab[t].intent # NoIntent
  /\ table \in Seq(L!LedgerRow) /\ permitted \subseteq EventType

\* One token, one mandate, and a token is spent by nothing else: over duplicated and
\* late bodies, and bodies that are refused under a token that is still good, which
\* their client may then use (the UPDATE ... used_at IS NULL of POST /mandates).
OneMandatePerToken ==
  /\ \A m \in Mandate : Registered(m) => token[mandate[m].token] = "spent"
  /\ \A m, n \in Mandate :
       Registered(m) /\ Registered(n) /\ mandate[m].token = mandate[n].token => m = n
  /\ \A k \in Token : token[k] = "spent" => \E m \in Mandate : Registered(m) /\ mandate[m].token = k

\* The ledger says what the tables say, at every moment a crash could come: an event
\* for each mandate and each revocation, one only, and none besides; and the build that
\* serves may write every type it knows (appendLedger in the transaction; the rebuild).
LedgerAgrees ==
  /\ serving = "this" => EventType \subseteq permitted
  /\ \A m \in Mandate : Registered(m) <=> Recorded("mandate_registered", m)
  /\ \A m \in Mandate :
       Registered(m) /\ mandate[m].revoked <=> Recorded("mandate_revoked", m)
  /\ \A i, j \in DOMAIN table : table[i].event = table[j].event => i = j

\* What is put down as done was done: a proposal is consumed only when a mandate of it
\* stands, and a page keeps an agent's key only for a mandate that does.
DoneMeansDone ==
  /\ \A p \in Proposal :
       proposal[p] # NoOffer /\ proposal[p].consumed =>
         \E m \in Mandate : Registered(m) /\ mandate[m].from = p
  /\ \A m \in agentKey : Registered(m)

\* What is approved of an offer is what the agent asked for, to the paisa and the policy, and
\* ends when the offer did, however long the card stays on a page that polls no more: no hop
\* may drop a limit, and an expired offer gives no time to spend (mandate-proposals.ts,
\* ceremonyInputFromProposal, buildSignedIntent).
SignsTheOffer ==
  \A m \in Mandate :
    Registered(m) /\ mandate[m].from # ByHand =>
      /\ mandate[m].expires <= proposal[mandate[m].from].expires
      /\ AsAsked(mandate[m].terms, Ask[mandate[m].from])

\* The ledger of this system is the ledger of module Ledger.
KeepsLedger == L!Spec

-----------------------------------------------------------------------------
(* What the interface says and the code does not do.                       *)

\* MandateProposalCard.tsx:104, "You're approving the budget once. [...] It can never
\* raise this limit": one proposal, one budget.
OneBudgetPerProposal ==
  \A m, n \in Mandate :
    Registered(m) /\ Registered(n) /\ mandate[m].from = mandate[n].from /\ mandate[m].from # ByHand
      => m = n
=============================================================================
