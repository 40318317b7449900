-------------------------- MODULE Ceremony_proofs --------------------------
(***************************************************************************)
(* Theorems of Ceremony and Terms, for any mandates, proposals, tokens,    *)
(* pages, keys and requests: what a human signs is what the agent asked    *)
(* for, a token makes one mandate, and the ledger, the proposals and the   *)
(* browser say of a mandate what is so.                                    *)
(***************************************************************************)
EXTENDS Ceremony, TLAPS

-----------------------------------------------------------------------------
(* The terms of a budget, from the tool call to the signature.             *)

\* A sum in paise is the nearest to the one in rupees.
LEMMA Rounds ==
  ASSUME NEW t \in Int
  PROVE  Nearest(rupeesToPaise(t), t) /\ rupeesToPaise(t) \in Int
BY DEF Nearest, rupeesToPaise

\* Which fields of the prepared terms are present.
Given(args) == {"merchant", "ceiling", "threshold"} \cup {f \in Optional : args[f] # Undefined}

\* The prepared terms have the six fields, and none of them is NULL.
LEMMA PreparedFact ==
  ASSUME NEW request, IsRequest(request)
  PROVE  LET args == PreparedArgs(request) IN
         /\ DOMAIN args = {"merchant", "ceiling", "threshold"} \cup Optional
         /\ \A f \in DOMAIN args : args[f] # Null
         /\ args.merchant = request.merchant
         /\ args.merchant # Undefined
         /\ args.ceiling = rupeesToPaise(request.ceiling)
         /\ args.threshold = rupeesToPaise(IF request.threshold = Undefined THEN request.ceiling
                                           ELSE request.threshold)
         /\ args.line = IF request.line = Undefined THEN Undefined ELSE rupeesToPaise(request.line)
         /\ args.limits = IF request.limits = Undefined THEN Undefined
                          ELSE [m \in DOMAIN request.limits |-> rupeesToPaise(request.limits[m])]
         /\ args.skus = request.skus
         /\ \A f \in Optional : args[f] = Undefined <=> request[f] = Undefined
<1> DEFINE args == PreparedArgs(request)
           limits == [m \in DOMAIN request.limits |-> rupeesToPaise(request.limits[m])]
<1>1. /\ args.merchant = request.merchant
      /\ args.ceiling = rupeesToPaise(request.ceiling)
      /\ args.threshold = rupeesToPaise(IF request.threshold = Undefined THEN request.ceiling
                                           ELSE request.threshold)
      /\ args.line = IF request.line = Undefined THEN Undefined ELSE rupeesToPaise(request.line)
      /\ args.limits = IF request.limits = Undefined THEN Undefined ELSE limits
      /\ args.skus = request.skus
      /\ DOMAIN args = {"merchant", "ceiling", "threshold", "limits", "line", "skus"}
  <2>1. request.ceiling # Undefined /\ request.threshold \in Int \cup {Undefined}
    BY DEF IsRequest
  <2>2. (IF request.threshold = Undefined THEN request.ceiling ELSE request.threshold) # Undefined
    BY <2>1
  <2> DEFINE line == IF request.line = Undefined THEN Undefined ELSE rupeesToPaise(request.line)
             given == IF request.limits = Undefined THEN Undefined ELSE limits
             threshold == rupeesToPaise(IF request.threshold = Undefined THEN request.ceiling
                                        ELSE request.threshold)
  <2>3. args = [merchant |-> request.merchant, ceiling |-> rupeesToPaise(request.ceiling),
                threshold |-> threshold, limits |-> given, line |-> line, skus |-> request.skus]
    <3> DEFINE paise(tenths) == IF tenths = Undefined THEN Undefined ELSE rupeesToPaise(tenths)
               chosen == IF request.threshold = Undefined THEN request.ceiling
                         ELSE request.threshold
    <3>1. paise(request.ceiling) = rupeesToPaise(request.ceiling) /\ paise(chosen) = threshold
      BY <2>1, <2>2
    <3>2. args = [merchant |-> request.merchant, ceiling |-> paise(request.ceiling),
                  threshold |-> paise(chosen), limits |-> given, line |-> paise(request.line),
                  skus |-> request.skus]
      BY DEF PreparedArgs
    <3>3. paise(request.line) = line
      OBVIOUS
    <3> HIDE DEF paise, threshold, given, line
    <3> QED  BY <3>1, <3>2, <3>3, Zenon
  <2> HIDE DEF args, limits, given, line, threshold
  <2>4. /\ args.merchant = request.merchant /\ args.ceiling = rupeesToPaise(request.ceiling)
        /\ args.threshold = threshold /\ args.line = line /\ args.limits = given
        /\ args.skus = request.skus
        /\ DOMAIN args = {"merchant", "ceiling", "threshold", "limits", "line", "skus"}
    BY <2>3
  <2> QED  BY <2>4 DEF given, line, threshold
<1>2. request.limits # Undefined => limits # Undefined /\ limits # Null
  <2>1. ASSUME request.limits # Undefined PROVE limits \in [DOMAIN request.limits -> Int]
    BY <2>1, Rounds DEF IsRequest
  <2> HIDE DEF limits
  <2> QED  BY <2>1 DEF IsRequest
<1>3. /\ args.ceiling \in Int /\ args.threshold \in Int
      /\ request.line # Undefined => args.line \in Int
  <2> HIDE DEF args
  <2> QED  BY <1>1, Rounds DEF IsRequest
<1> HIDE DEF args, limits
<1>4. \A f \in Optional : args[f] = Undefined <=> request[f] = Undefined
  BY <1>1, <1>2, <1>3 DEF Optional, IsRequest
<1>5. Undefined # Null
  BY TermsAssumption
<1>6. \A f \in DOMAIN args : args[f] # Null
  BY <1>1, <1>2, <1>3, <1>5 DEF IsRequest
<1>7. DOMAIN args = {"merchant", "ceiling", "threshold"} \cup Optional
  BY <1>1 DEF Optional
<1>8. args.merchant # Undefined
  BY <1>1 DEF IsRequest
<1> QED  BY <1>1, <1>4, <1>6, <1>7, <1>8 DEF args, limits

\* Through the body, the columns and the response: what was given is there, as it was, and
\* what was not is absent.
LEMMA HopsFact ==
  ASSUME NEW request, IsRequest(request)
  PROVE  LET args == PreparedArgs(request)
             signed == SignedTerms(ResponseTerms(Columns(proposeMandate(args)))) IN
         /\ DOMAIN signed = (Given(args) \ {"merchant"}) \cup {"merchants"}
         /\ signed.merchants = {request.merchant}
         /\ \A f \in Given(args) \ {"merchant"} : signed[f] = args[f]
<1> DEFINE args == PreparedArgs(request)
           body == proposeMandate(args)
           columns == Columns(body)
           terms == ResponseTerms(columns)
           signed == SignedTerms(terms)
<1>1. /\ DOMAIN args = {"merchant", "ceiling", "threshold"} \cup Optional
      /\ \A f \in DOMAIN args : args[f] # Null
      /\ args.merchant = request.merchant
  BY PreparedFact
<1> HIDE DEF args
<1>2. DOMAIN body = Given(args) /\ \A f \in Given(args) : body[f] = args[f]
  <2>1. {g \in DOMAIN args : g \in Optional => Present(args, g)} = Given(args)
    BY <1>1 DEF Given, Present, Optional
  <2> QED  BY <2>1 DEF proposeMandate
<1> HIDE DEF body
<1>3. /\ DOMAIN columns = {"merchant", "ceiling", "threshold"} \cup Optional
      /\ \A f \in DOMAIN columns : columns[f] = IF f \in Given(args) THEN args[f] ELSE Null
  BY <1>2 DEF Columns
<1> HIDE DEF columns
<1>4. Given(args) \subseteq {"merchant", "ceiling", "threshold"} \cup Optional
  BY DEF Given
<1>5. DOMAIN terms = Given(args) /\ \A f \in Given(args) : terms[f] = args[f]
  <2>1. {g \in DOMAIN columns : columns[g] # Null} = Given(args)
    BY <1>1, <1>3, <1>4
  <2>2. terms = [f \in Given(args) |-> columns[f]]
    BY <2>1 DEF ResponseTerms
  <2> QED  BY <2>2, <1>3, <1>4
<1> HIDE DEF terms
<1>6. "merchant" \in Given(args) /\ "merchants" \notin Given(args)
  BY DEF Given, Optional
<1>7. signed = [f \in (Given(args) \ {"merchant"}) \cup {"merchants"} |->
                  IF f = "merchants" THEN {terms.merchant} ELSE terms[f]]
  BY <1>5 DEF SignedTerms
<1>8. terms.merchant = request.merchant
  BY <1>1, <1>5, <1>6
<1>9. /\ DOMAIN signed = (Given(args) \ {"merchant"}) \cup {"merchants"}
      /\ signed.merchants = {request.merchant}
      /\ \A f \in Given(args) \ {"merchant"} : signed[f] = args[f]
  <2> HIDE DEF signed
  <2> QED  BY <1>5, <1>6, <1>7, <1>8
<1> QED  BY <1>9 DEF signed, terms, columns, body, args

\* What is signed of a proposal is what was asked for, whatever was: no hop between the tool
\* call and the signature drops a policy, adds one or moves an amount (prepare-mandate.ts,
\* facilitator-client.ts, mandate-proposal-repo.ts, buyer.ts).
THEOREM TermsSurvive ==
  ASSUME NEW request, IsRequest(request)
  PROVE  AsAsked(SignedTerms(ResponseTerms(Columns(proposeMandate(PreparedArgs(request))))), request)
<1> DEFINE args == PreparedArgs(request)
           signed == SignedTerms(ResponseTerms(Columns(proposeMandate(args))))
<1>1. /\ DOMAIN signed = (Given(args) \ {"merchant"}) \cup {"merchants"}
      /\ signed.merchants = {request.merchant}
      /\ \A f \in Given(args) \ {"merchant"} : signed[f] = args[f]
  BY HopsFact
<1>2. /\ args.ceiling = rupeesToPaise(request.ceiling)
      /\ args.threshold = rupeesToPaise(IF request.threshold = Undefined THEN request.ceiling
                                        ELSE request.threshold)
      /\ args.line = IF request.line = Undefined THEN Undefined ELSE rupeesToPaise(request.line)
      /\ args.limits = IF request.limits = Undefined THEN Undefined
                       ELSE [m \in DOMAIN request.limits |-> rupeesToPaise(request.limits[m])]
      /\ args.skus = request.skus
      /\ \A f \in Optional : args[f] = Undefined <=> request[f] = Undefined
  BY PreparedFact
<1> HIDE DEF signed, args
<1>3. \A f \in Optional : f \in DOMAIN signed <=> request[f] # Undefined
  BY <1>1, <1>2 DEF Given, Optional
<1>4. signed.ceiling = args.ceiling /\ signed.threshold = args.threshold
  BY <1>1 DEF Given
<1>5. \A f \in Optional : f \in DOMAIN signed => signed[f] = args[f]
  BY <1>1 DEF Given, Optional
<1>6. Nearest(signed.ceiling, request.ceiling)
  BY <1>2, <1>4, Rounds DEF IsRequest
<1>7. IF request.threshold = Undefined THEN handsFree(signed)
      ELSE Nearest(signed.threshold, request.threshold)
  <2>1. CASE request.threshold = Undefined
    <3>1. signed.threshold = signed.ceiling /\ signed.ceiling \in Int
      BY <1>2, <1>4, <2>1, Rounds DEF IsRequest
    <3> QED  BY <2>1, <3>1 DEF handsFree
  <2>2. CASE request.threshold # Undefined
    BY <1>2, <1>4, <2>2, Rounds DEF IsRequest
  <2> QED  BY <2>1, <2>2
<1>8. "line" \in DOMAIN signed => Nearest(signed.line, request.line)
  BY <1>2, <1>3, <1>5, Rounds DEF IsRequest, Optional
<1>9. "limits" \in DOMAIN signed =>
        /\ DOMAIN signed.limits = DOMAIN request.limits
        /\ \A m \in DOMAIN request.limits : Nearest(signed.limits[m], request.limits[m])
  <2> SUFFICES ASSUME "limits" \in DOMAIN signed
               PROVE  /\ DOMAIN signed.limits = DOMAIN request.limits
                      /\ \A m \in DOMAIN request.limits :
                           Nearest(signed.limits[m], request.limits[m])
    OBVIOUS
  <2>1. request.limits # Undefined /\ signed.limits = args.limits
    BY <1>3, <1>5 DEF Optional
  <2>2. signed.limits = [m \in DOMAIN request.limits |-> rupeesToPaise(request.limits[m])]
    BY <1>2, <2>1
  <2>3. \A m \in DOMAIN request.limits : request.limits[m] \in Int
    BY <2>1 DEF IsRequest
  <2> QED  BY <2>2, <2>3, Rounds
<1>10. "skus" \in DOMAIN signed => signed.skus = request.skus
  BY <1>2, <1>5 DEF Optional
<1>11. AsAsked(signed, request)
  BY <1>1, <1>3, <1>6, <1>7, <1>8, <1>9, <1>10 DEF AsAsked
<1> QED  BY <1>11 DEF signed, args

-----------------------------------------------------------------------------
(* The inductive invariant.                                                *)

\* A proposal holds what was asked for; a page has seen it only if it is there.
Asked(p) == Columns(proposeMandate(PreparedArgs(Ask[p])))
OfferInv ==
  /\ \A p \in Proposal : proposal[p] # NoOffer => proposal[p].terms = Asked(p)
  /\ \A t \in Tab : \A p \in tab[t].seen : proposal[p] # NoOffer

\* An intent says of its proposal what the proposal says, and promises no more time.
Of(i) ==
  i.from # ByHand =>
    /\ proposal[i.from] # NoOffer
    /\ i.expires <= proposal[i.from].expires
    /\ i.terms = SignedTerms(ResponseTerms(Asked(i.from)))
SignedInv ==
  /\ \A t \in Tab : tab[t].intent # NoIntent => Of(tab[t].intent)
  /\ \A b \in posted : Of(b)

\* A mandate id goes with one source: in the pages, in the network and in the table.
OriginInv ==
  /\ \A t, u \in Tab :
       tab[t].intent # NoIntent /\ tab[u].intent.mandate = tab[t].intent.mandate =>
         tab[u].intent.from = tab[t].intent.from
  /\ \A t \in Tab, b \in posted :
       b.mandate = tab[t].intent.mandate => b.from = tab[t].intent.from
  /\ \A b, c \in posted : b.mandate = c.mandate => b.from = c.from
  /\ \A m \in Mandate :
       Registered(m) =>
         \E b \in posted : /\ b.mandate = m /\ b.from = mandate[m].from
                           /\ b.expires = mandate[m].expires /\ b.terms = mandate[m].terms

\* A page that consumes a proposal has the mandate made of it.
ConsumeInv ==
  \A t \in Tab :
    tab[t].step = "consuming" =>
      LET i == tab[t].intent IN
      i.from \in Proposal /\ Registered(i.mandate) /\ mandate[i.mandate].from = i.from

IInv == /\ TypeOK /\ OneMandatePerToken /\ LedgerAgrees /\ DoneMeansDone
        /\ OfferInv /\ SignedInv /\ OriginInv /\ ConsumeInv

-----------------------------------------------------------------------------
(* Pages, intents and bodies.                                              *)

\* What is known of a flow's intent.
LEMMA IntentFact ==
  ASSUME TypeOK, NEW t \in Tab, tab[t].intent # NoIntent
  PROVE  /\ tab[t].intent \in Intent /\ tab[t].intent.mandate \in Mandate
         /\ tab[t].intent.from \in Source
<1>1. tab[t].intent \in Intent
  BY DEF TypeOK, TabState
<1>2. \A i \in Intent : i.mandate \in Mandate /\ i.from \in Source
  BY DEF Intent
<1> QED  BY <1>1, <1>2

LEMMA BodyFact ==
  ASSUME TypeOK, NEW b \in posted
  PROVE  /\ b \in Body /\ b.mandate \in Mandate /\ b.from \in Source /\ b.token \in Token
         /\ b.expires \in Time /\ b.terms \in SignableTerms /\ b.signer \in Key
         /\ b.credential \in Key
<1>1. b \in Body
  BY DEF TypeOK
<1>2. \A c \in Body : /\ c.mandate \in Mandate /\ c.from \in Source /\ c.token \in Token
                      /\ c.expires \in Time /\ c.terms \in SignableTerms /\ c.signer \in Key
                      /\ c.credential \in Key
  BY DEF Body
<1> QED  BY <1>1, <1>2

\* No intent is for the mandate no intent is for.
LEMMA NoIntentFact == NoIntent.mandate \notin Mandate
BY CeremonyAssumption DEF NoIntent

\* A page is a record of six fields.
LEMMA TabFields ==
  /\ \A new \in TabState :
       /\ new.step \in {"idle", "minting", "registering", "consuming"}
       /\ new.intent \in Intent \cup {NoIntent} /\ new.seen \in SUBSET Proposal
       /\ new.approved \in SUBSET Proposal /\ new.human \in Key /\ new.passkey \in Key \cup {NoKey}
  /\ \A h \in Key, p \in Key \cup {NoKey}, seen, approved \in SUBSET Proposal,
        step \in {"idle", "minting", "registering", "consuming"}, intent \in Intent \cup {NoIntent} :
       [human |-> h, passkey |-> p, seen |-> seen, approved |-> approved, step |-> step,
        intent |-> intent] \in TabState
<1> DEFINE I == Intent \cup {NoIntent}
<1>1. TabState = [human : Key, passkey : Key \cup {NoKey},
                  seen : SUBSET Proposal, approved : SUBSET Proposal,
                  step : {"idle", "minting", "registering", "consuming"}, intent : I]
  BY DEF TabState
<1> HIDE DEF I
<1>2. \A new \in TabState :
        /\ new.step \in {"idle", "minting", "registering", "consuming"}
        /\ new.intent \in I /\ new.seen \in SUBSET Proposal
        /\ new.approved \in SUBSET Proposal /\ new.human \in Key /\ new.passkey \in Key \cup {NoKey}
  BY <1>1
<1>3. \A h \in Key, p \in Key \cup {NoKey}, seen, approved \in SUBSET Proposal,
         step \in {"idle", "minting", "registering", "consuming"}, intent \in I :
        [human |-> h, passkey |-> p, seen |-> seen, approved |-> approved, step |-> step,
         intent |-> intent] \in TabState
  BY <1>1
<1> QED  BY <1>2, <1>3 DEF I

\* One page changes, to a state of its kind.
Page(t, step, intent, seen) ==
  /\ tab' \in [Tab -> TabState]
  /\ tab'[t].step = step /\ tab'[t].intent = intent /\ tab'[t].seen = seen
  /\ \A u \in Tab \ {t} : tab'[u] = tab[u]

\* The ways the pages write their state.
LEMMA PageFact ==
  ASSUME TypeOK, NEW t \in Tab
  PROVE  /\ \A k \in Key :
              /\ tab' = [tab EXCEPT ![t].passkey = k]
                   => Page(t, tab[t].step, tab[t].intent, tab[t].seen)
              /\ tab' = [tab EXCEPT ![t].human = k]
                   => Page(t, tab[t].step, tab[t].intent, tab[t].seen)
         /\ \A seen \in SUBSET Proposal :
              tab' = [tab EXCEPT ![t].seen = seen] => Page(t, tab[t].step, tab[t].intent, seen)
         /\ tab' = [tab EXCEPT ![t] = Mounted] => Page(t, "idle", NoIntent, {})
         /\ \A step \in {"registering", "consuming"} :
              tab' = [tab EXCEPT ![t].step = step] => Page(t, step, tab[t].intent, tab[t].seen)
         /\ \A i \in Intent :
              tab' = [tab EXCEPT ![t].step = "minting", ![t].intent = i]
                => Page(t, "minting", i, tab[t].seen)
         /\ tab' = Ends(t) => Page(t, "idle", NoIntent, tab[t].seen)
         /\ \A p \in Proposal :
              tab' = [Ends(t) EXCEPT ![t].approved = @ \cup {p}]
                => Page(t, "idle", NoIntent, tab[t].seen)
<1>1. tab \in [Tab -> TabState] /\ tab[t] \in TabState
  BY DEF TypeOK
<1> DEFINE was == tab[t]
           Is(h, k, seen, approved, step, intent) ==
             tab' = [tab EXCEPT ![t] = [human |-> h, passkey |-> k, seen |-> seen,
                                        approved |-> approved, step |-> step, intent |-> intent]]
<1>2. /\ was.step \in {"idle", "minting", "registering", "consuming"}
      /\ was.intent \in Intent \cup {NoIntent} /\ was.seen \in SUBSET Proposal
      /\ was.approved \in SUBSET Proposal /\ was.human \in Key /\ was.passkey \in Key \cup {NoKey}
  BY <1>1, TabFields
<1>3. was = [human |-> was.human, passkey |-> was.passkey, seen |-> was.seen,
             approved |-> was.approved, step |-> was.step, intent |-> was.intent]
  BY <1>1 DEF TabState
<1>4. ASSUME NEW h \in Key, NEW k \in Key \cup {NoKey}, NEW seen \in SUBSET Proposal,
             NEW approved \in SUBSET Proposal,
             NEW step \in {"idle", "minting", "registering", "consuming"},
             NEW intent \in Intent \cup {NoIntent},
             Is(h, k, seen, approved, step, intent)
      PROVE  Page(t, step, intent, seen)
  <2>1. PICK new \in TabState :
          new = [human |-> h, passkey |-> k, seen |-> seen, approved |-> approved, step |-> step,
                 intent |-> intent]
    BY TabFields
  <2>2. new.step = step /\ new.intent = intent /\ new.seen = seen
    BY <2>1
  <2>3. tab' = [tab EXCEPT ![t] = new]
    BY <1>4, <2>1
  <2>4. tab' \in [Tab -> TabState] /\ tab'[t] = new /\ \A u \in Tab \ {t} : tab'[u] = tab[u]
    BY <1>1, <2>3
  <2> QED  BY <2>2, <2>4 DEF Page
<1>5. ASSUME NEW k \in Key
      PROVE  /\ [was EXCEPT !.passkey = k]
                  = [human |-> was.human, passkey |-> k, seen |-> was.seen,
                     approved |-> was.approved, step |-> was.step, intent |-> was.intent]
             /\ [was EXCEPT !.human = k]
                  = [human |-> k, passkey |-> was.passkey, seen |-> was.seen,
                     approved |-> was.approved, step |-> was.step, intent |-> was.intent]
  BY <1>1 DEF TabState
<1>6. ASSUME NEW seen \in SUBSET Proposal
      PROVE  [was EXCEPT !.seen = seen]
               = [human |-> was.human, passkey |-> was.passkey, seen |-> seen,
                  approved |-> was.approved, step |-> was.step, intent |-> was.intent]
  BY <1>1 DEF TabState
<1>7. ASSUME NEW step, NEW i
      PROVE  /\ [was EXCEPT !.step = step]
                  = [human |-> was.human, passkey |-> was.passkey, seen |-> was.seen,
                     approved |-> was.approved, step |-> step, intent |-> was.intent]
             /\ [was EXCEPT !.step = step, !.intent = i]
                  = [human |-> was.human, passkey |-> was.passkey, seen |-> was.seen,
                     approved |-> was.approved, step |-> step, intent |-> i]
  <2>1. [was EXCEPT !.step = step]
          = [human |-> was.human, passkey |-> was.passkey, seen |-> was.seen,
             approved |-> was.approved, step |-> step, intent |-> was.intent]
    BY <1>1 DEF TabState
  <2> DEFINE stepped == [human |-> was.human, passkey |-> was.passkey, seen |-> was.seen,
                         approved |-> was.approved, step |-> step, intent |-> was.intent]
  <2>2. [stepped EXCEPT !.intent = i]
          = [human |-> was.human, passkey |-> was.passkey, seen |-> was.seen,
             approved |-> was.approved, step |-> step, intent |-> i]
    <3> HIDE DEF was, Is
    <3> QED  OBVIOUS
  <2>3. [was EXCEPT !.step = step, !.intent = i] = [[was EXCEPT !.step = step] EXCEPT !.intent = i]
    <3> HIDE DEF was, Is
    <3> QED  OBVIOUS
  <2> HIDE DEF stepped, was
  <2> QED  BY <2>1, <2>2, <2>3, Zenon DEF stepped
<1>8. ASSUME NEW p \in Proposal, tab' = [Ends(t) EXCEPT ![t].approved = @ \cup {p}]
      PROVE  Is(was.human, was.passkey, was.seen, was.approved \cup {p}, "idle", NoIntent)
  <2> DEFINE ended == [human |-> was.human, passkey |-> was.passkey, seen |-> was.seen,
                       approved |-> was.approved, step |-> "idle", intent |-> NoIntent]
  <2>1. Ends(t) = [tab EXCEPT ![t] = [was EXCEPT !.step = "idle", !.intent = NoIntent]]
    BY DEF Ends
  <2>a. Ends(t) = [tab EXCEPT ![t] = ended]
    BY <1>7, <2>1
  <2>b. [tab EXCEPT ![t] = ended][t] = ended
    BY <1>1
  <2>2. tab' = [[tab EXCEPT ![t] = ended] EXCEPT ![t] = [ended EXCEPT !.approved = @ \cup {p}]]
    BY <1>8, <2>a, <2>b
  <2>3. [ended EXCEPT !.approved = @ \cup {p}]
          = [human |-> was.human, passkey |-> was.passkey, seen |-> was.seen,
             approved |-> was.approved \cup {p}, step |-> "idle", intent |-> NoIntent]
    OBVIOUS
  <2> HIDE DEF ended, was
  <2> QED  BY <1>1, <2>2, <2>3
<1>9. storage.human \in Key /\ storage.passkey \in Key \cup {NoKey}
  BY DEF TypeOK
<1>10. ASSUME NEW k \in Key
       PROVE  /\ tab' = [tab EXCEPT ![t].passkey = k] => Page(t, was.step, was.intent, was.seen)
              /\ tab' = [tab EXCEPT ![t].human = k] => Page(t, was.step, was.intent, was.seen)
  <2>1. ASSUME tab' = [tab EXCEPT ![t].passkey = k]
        PROVE  Page(t, was.step, was.intent, was.seen)
    <3>1. Is(was.human, k, was.seen, was.approved, was.step, was.intent)
      BY <2>1, <1>5
    <3> HIDE DEF was, Is
    <3> QED  BY <3>1, <1>2, <1>4
  <2>2. ASSUME tab' = [tab EXCEPT ![t].human = k]
        PROVE  Page(t, was.step, was.intent, was.seen)
    <3>1. Is(k, was.passkey, was.seen, was.approved, was.step, was.intent)
      BY <2>2, <1>5
    <3> HIDE DEF was, Is
    <3> QED  BY <3>1, <1>2, <1>4
  <2> QED  BY <2>1, <2>2
<1>11. ASSUME NEW seen \in SUBSET Proposal, tab' = [tab EXCEPT ![t].seen = seen]
       PROVE  Page(t, was.step, was.intent, seen)
  <2>1. Is(was.human, was.passkey, seen, was.approved, was.step, was.intent)
    BY <1>11, <1>6
  <2> HIDE DEF was, Is
  <2> QED  BY <2>1, <1>2, <1>4
<1>12. ASSUME tab' = [tab EXCEPT ![t] = Mounted] PROVE Page(t, "idle", NoIntent, {})
  BY <1>4, <1>9, <1>12 DEF Mounted
<1>13. ASSUME NEW step \in {"registering", "consuming"}, tab' = [tab EXCEPT ![t].step = step]
       PROVE  Page(t, step, was.intent, was.seen)
  <2>1. Is(was.human, was.passkey, was.seen, was.approved, step, was.intent)
    BY <1>13, <1>7
  <2> HIDE DEF was, Is
  <2> QED  BY <2>1, <1>2, <1>4
<1>14. ASSUME NEW i \in Intent \cup {NoIntent}, NEW step \in {"idle", "minting"},
              tab' = [tab EXCEPT ![t].step = step, ![t].intent = i]
       PROVE  Page(t, step, i, was.seen)
  <2>1. Is(was.human, was.passkey, was.seen, was.approved, step, i)
    <3>1. tab' = [tab EXCEPT ![t] = [was EXCEPT !.step = step, !.intent = i]]
      BY <1>14
    <3> HIDE DEF was
    <3> QED  BY <3>1, <1>7
  <2> HIDE DEF was, Is
  <2> QED  BY <2>1, <1>2, <1>4
<1>15. tab' = Ends(t) => Page(t, "idle", NoIntent, was.seen)
  BY <1>14 DEF Ends
<1>16. ASSUME NEW p \in Proposal, tab' = [Ends(t) EXCEPT ![t].approved = @ \cup {p}]
       PROVE  Page(t, "idle", NoIntent, was.seen)
  <2>1. was.approved \cup {p} \in SUBSET Proposal
    BY <1>2
  <2>2. Is(was.human, was.passkey, was.seen, was.approved \cup {p}, "idle", NoIntent)
    BY <1>8, <1>16
  <2> HIDE DEF was, Is
  <2> QED  BY <1>2, <1>4, <2>1, <2>2
<1> QED  BY <1>10, <1>11, <1>12, <1>13, <1>14, <1>15, <1>16
\* What a page signs: an intent for the mandate and of the source it chose.
LEMMA SignedFact ==
  ASSUME TypeOK, OfferInv, NEW t \in Tab, NEW m \in Mandate, NEW source \in Source,
         NEW mode, source # ByHand => source \in tab[t].seen
  PROVE  LET i == SignedIntent(Signer(t, mode), m, source) IN
         i \in Intent /\ i # NoIntent /\ i.mandate = m /\ i.from = source /\ Of(i)
<1> DEFINE i == SignedIntent(Signer(t, mode), m, source)
           expires == IF source = ByHand THEN now + ttl ELSE proposal[source].expires
           terms == IF source = ByHand THEN FormTerms(Form)
                    ELSE SignedTerms(ResponseTerms(proposal[source].terms))
<1>1. Signer(t, mode) \in Key
  <2>1. tab[t] \in TabState
    BY DEF TypeOK
  <2> QED  BY <2>1, TabFields DEF Signer
<1>2. source # ByHand => /\ source \in Proposal /\ proposal[source] # NoOffer
                         /\ proposal[source] \in Offer /\ proposal[source].terms = Asked(source)
  BY DEF OfferInv, Source, TypeOK
<1>3. expires \in Time
  <2>1. \A o \in Offer : o.expires \in Time
    BY DEF Offer
  <2>2. now + ttl \in Time
    BY CeremonyAssumption DEF TypeOK, Time
  <2> QED  BY <1>2, <2>1, <2>2
<1>4. terms \in SignableTerms
  <2>1. source # ByHand => Asked(source) \in StagedTerms
    BY <1>2 DEF StagedTerms, Asked
  <2> QED  BY <1>2, <2>1 DEF SignableTerms
<1>5. i = [mandate |-> m, from |-> source, signer |-> Signer(t, mode),
           credential |-> Signer(t, mode), expires |-> expires, terms |-> terms]
  BY DEF SignedIntent
<1>6. source # ByHand => expires = proposal[source].expires
  OBVIOUS
<1>7. source # ByHand => terms = SignedTerms(ResponseTerms(Asked(source)))
  BY <1>2
<1> HIDE DEF i, expires, terms
<1>8. /\ i \in Intent /\ i.mandate = m /\ i.from = source
      /\ i.expires = expires /\ i.terms = terms
  BY <1>1, <1>3, <1>4, <1>5 DEF Intent
<1>9. i # NoIntent
  BY <1>8, NoIntentFact
<1>10. Of(i)
  <2>1. source # ByHand => proposal[source].expires \in Time
    BY <1>3, <1>6
  <2>2. \A x \in Time : x <= x
    BY DEF Time
  <2> QED  BY <1>2, <1>6, <1>7, <1>8, <2>1, <2>2 DEF Of
<1> QED  BY <1>8, <1>9, <1>10 DEF i

-----------------------------------------------------------------------------
(* The steps, by what they change of the pages, the network and the table. *)

\* A proposal that is there, and a mandate that is registered, keep what they say.
Kept ==
  /\ \A p \in Proposal :
       proposal[p] # NoOffer => /\ proposal'[p] # NoOffer
                                /\ proposal'[p].expires = proposal[p].expires
                                /\ proposal'[p].terms = proposal[p].terms
  /\ \A m \in Mandate :
       Registered(m) => /\ Registered(m)'
                        /\ mandate'[m].from = mandate[m].from
                        /\ mandate'[m].expires = mandate[m].expires
                        /\ mandate'[m].terms = mandate[m].terms
NoNewMandate == \A m \in Mandate : Registered(m)' => Registered(m)

RowFields ==
  \A r \in Row : /\ r.from \in Source /\ r.signer \in Key /\ r.credential \in Key
                 /\ r.expires \in Time /\ r.terms \in SignableTerms /\ r.token \in Token
                 /\ r.revoked \in BOOLEAN /\ r # NoRow
LEMMA RowFact == RowFields
<1>1. \A r \in Row : /\ r.from \in Source /\ r.signer \in Key /\ r.credential \in Key
                     /\ r.expires \in Time /\ r.terms \in SignableTerms /\ r.token \in Token
                     /\ r.revoked \in BOOLEAN
  BY DEF Row
<1>2. NoRow \notin Row
  <2>1. DOMAIN NoRow = {"from"}
    BY DEF NoRow
  <2>2. \A r \in Row : "signer" \in DOMAIN r
    BY DEF Row
  <2> QED  BY <2>1, <2>2
<1> QED  BY <1>1, <1>2 DEF RowFields

\* POST /mandates adds a row, of the body.
LEMMA RegisterFact ==
  ASSUME TypeOK, NEW b \in posted, Register(b)
  PROVE  /\ NewRow(b) \in Row /\ mandate' = [mandate EXCEPT ![b.mandate] = NewRow(b)]
         /\ ~Registered(b.mandate) /\ mandate'[b.mandate] = NewRow(b)
         /\ \A m \in Mandate \ {b.mandate} : mandate'[m] = mandate[m]
         /\ NewRow(b).from = b.from /\ NewRow(b).expires = b.expires
         /\ NewRow(b).terms = b.terms /\ NewRow(b).token = b.token /\ NewRow(b).revoked = FALSE
<1>1. NewRow(b) \in Row
  BY BodyFact DEF NewRow, Row
<1> QED  BY <1>1, BodyFact DEF Register, Admits, NewRow, TypeOK

\* POST /revoke sets one column.
LEMMA RevokeFact ==
  ASSUME TypeOK, NEW m \in Mandate, NEW signer, Revoke(m, signer)
  PROVE  /\ Registered(m) /\ ~mandate[m].revoked /\ mandate'[m] \in Row
         /\ \A n \in Mandate \ {m} : mandate'[n] = mandate[n]
         /\ mandate'[m].from = mandate[m].from /\ mandate'[m].expires = mandate[m].expires
         /\ mandate'[m].terms = mandate[m].terms /\ mandate'[m].token = mandate[m].token
         /\ mandate'[m].revoked = TRUE
<1> DEFINE row == mandate[m]
           new == [row EXCEPT !.revoked = TRUE]
<1>1. row \in Row /\ mandate \in [Mandate -> Row \cup {NoRow}]
  BY DEF Revoke, Registered, TypeOK
<1>2. /\ new \in Row /\ new.from = row.from /\ new.expires = row.expires
      /\ new.terms = row.terms /\ new.token = row.token /\ new.revoked = TRUE
  <2> HIDE DEF row
  <2> QED  BY <1>1 DEF Row
<1>3. mandate' = [mandate EXCEPT ![m] = new]
  BY DEF Revoke
<1> HIDE DEF new
<1>4. mandate'[m] = new /\ \A n \in Mandate \ {m} : mandate'[n] = mandate[n]
  BY <1>1, <1>3
<1> QED  BY <1>2, <1>4 DEF Revoke

\* Consuming a proposal sets one column of an offer.
LEMMA ConsumeFact ==
  ASSUME TypeOK, SignedInv, ConsumeInv, NEW t \in Tab, NEW heard \in BOOLEAN, Consume(t, heard)
  PROVE  LET p == tab[t].intent.from IN
         /\ p \in Proposal /\ proposal[p] # NoOffer
         /\ proposal'[p] \in Offer /\ proposal'[p].expires = proposal[p].expires
         /\ proposal'[p].terms = proposal[p].terms /\ proposal'[p].consumed = TRUE
         /\ \A q \in Proposal \ {p} : proposal'[q] = proposal[q]
<1> DEFINE p == tab[t].intent.from
           offer == proposal[p]
           new == [offer EXCEPT !.consumed = TRUE]
<1>1. p \in Proposal
  BY DEF Consume, ConsumeInv
<1>2. proposal[p] # NoOffer
  <2>1. tab[t].intent # NoIntent
    BY DEF Consume, TypeOK
  <2> QED  BY <1>1, <2>1, CeremonyAssumption DEF SignedInv, Of
<1>3. offer \in Offer /\ proposal \in [Proposal -> Offer \cup {NoOffer}]
  BY <1>1, <1>2 DEF TypeOK
<1>4. new \in Offer /\ new.expires = offer.expires /\ new.terms = offer.terms /\ new.consumed = TRUE
  <2> HIDE DEF offer
  <2> QED  BY <1>3 DEF Offer
<1>5. proposal' = [proposal EXCEPT ![p] = new]
  BY DEF Consume
<1> HIDE DEF new
<1>6. proposal'[p] = new /\ \A q \in Proposal \ {p} : proposal'[q] = proposal[q]
  <2> HIDE DEF p
  <2> QED  BY <1>1, <1>3, <1>5
<1> QED  BY <1>1, <1>2, <1>4, <1>6

\* POST /mandates/propose adds an offer.
LEMMA ProposeFact ==
  ASSUME TypeOK, NEW p \in Proposal, Propose(p)
  PROVE  /\ proposal[p] = NoOffer /\ proposal'[p] \in Offer /\ proposal'[p].terms = Asked(p)
         /\ proposal'[p].consumed = FALSE
         /\ \A q \in Proposal \ {p} : proposal'[q] = proposal[q]
<1> DEFINE new == [expires |-> now + ttl, terms |-> Asked(p), consumed |-> FALSE]
<1>1. new \in Offer
  <2>1. now + ttl \in Time
    BY CeremonyAssumption DEF TypeOK, Time
  <2>2. Asked(p) \in StagedTerms
    BY DEF StagedTerms, Asked
  <2> QED  BY <2>1, <2>2 DEF Offer
<1>2. proposal' = [proposal EXCEPT ![p] = new] /\ proposal[p] = NoOffer
  BY DEF Propose, Asked
<1>3. new.terms = Asked(p) /\ new.consumed = FALSE
  OBVIOUS
<1> HIDE DEF new
<1> QED  BY <1>1, <1>2, <1>3 DEF TypeOK

LEMMA OfferFact == \A o \in Offer : o # NoOffer /\ o.expires \in Time /\ o.consumed \in BOOLEAN
<1>1. \A o \in Offer : o.expires \in Time /\ o.consumed \in BOOLEAN /\ "terms" \in DOMAIN o
  BY DEF Offer
<1>2. DOMAIN NoOffer = {"expires"}
  BY DEF NoOffer
<1> QED  BY <1>1, <1>2
\* What a step can do: nothing to flows, bodies and rows, as when a page only changes its
\* keys or its list; a flow ends, goes on to consume, begins, or posts its intent; a body
\* is registered; or somebody else posts one.
Quiet == NoNewMandate /\ Kept /\ posted' = posted
Same(t) == Page(t, tab[t].step, tab[t].intent, tab[t].seen)
Ended(t) == \E seen \in {{}, tab[t].seen} : Page(t, "idle", NoIntent, seen)
Shows(t) ==
  /\ proposal' = proposal
  /\ \E seen \in SUBSET {p \in Proposal : proposal[p] # NoOffer} :
       Page(t, tab[t].step, tab[t].intent, seen)
Consumes(t) ==
  /\ tab[t].step = "registering" /\ tab[t].intent.from # ByHand
  /\ Registered(tab[t].intent.mandate)
  /\ Page(t, "consuming", tab[t].intent, tab[t].seen)
Signs(t, i) ==
  /\ i # NoIntent /\ i.mandate \in Mandate /\ i.from \in Source /\ Of(i) /\ FreshId(i.mandate)
  /\ Page(t, "minting", i, tab[t].seen)
  /\ UNCHANGED <<mandate, proposal, posted>>
Posts(t, b) ==
  /\ tab[t].intent # NoIntent
  /\ b.mandate = tab[t].intent.mandate /\ b.from = tab[t].intent.from
  /\ b.expires = tab[t].intent.expires /\ b.terms = tab[t].intent.terms
  /\ posted' = posted \cup {b}
  /\ Page(t, "registering", tab[t].intent, tab[t].seen)
  /\ UNCHANGED <<mandate, proposal>>
Intrudes(b) ==
  /\ FreshId(b.mandate) /\ b.from = ByHand /\ posted' = posted \cup {b}
  /\ UNCHANGED <<mandate, proposal, tab>>

LEMMA StepKinds ==
  ASSUME TypeOK, OfferInv, SignedInv, ConsumeInv, Next
  PROVE  \/ Quiet /\ tab' = tab
         \/ Quiet /\ \E t \in Tab : Same(t) \/ Ended(t) \/ Shows(t) \/ Consumes(t)
         \/ \E t \in Tab : \/ \E i \in Intent : Signs(t, i)
                           \/ \E b \in Body : Posts(t, b)
         \/ \E b \in posted : Register(b)
         \/ \E b \in Body : Intrudes(b)
<1>1. ASSUME UNCHANGED <<mandate, proposal, posted>> PROVE Quiet
  BY <1>1 DEF Quiet, NoNewMandate, Kept, Registered
<1>2. ASSUME NEW p \in Proposal, Propose(p) PROVE Quiet /\ tab' = tab
  <2>1. mandate' = mandate /\ posted' = posted /\ tab' = tab
    BY <1>2 DEF Propose
  <2> QED  BY <1>2, <2>1, ProposeFact DEF Quiet, NoNewMandate, Kept, Registered
<1>3. ASSUME NEW t \in Tab, NEW m \in Mandate, NEW mode, Revoke(m, Signer(t, mode))
      PROVE  Quiet /\ tab' = tab
  <2>1. proposal' = proposal /\ posted' = posted /\ tab' = tab
    BY <1>3 DEF Revoke
  <2>2. mandate'[m] # NoRow
    BY <1>3, RevokeFact, RowFact DEF RowFields
  <2> QED  BY <1>3, <2>1, <2>2, RevokeFact DEF Quiet, NoNewMandate, Kept, Registered
<1>4. ASSUME Stop \/ Start \/ Tick PROVE Quiet /\ tab' = tab
  BY <1>1, <1>4 DEF Stop, Start, Tick
<1>5. ASSUME NEW t \in Tab, NEW k \in Key, RegisterPasskey(t, k) \/ ResetKey(t, k)
      PROVE  Quiet /\ Same(t)
  <2>1. \/ tab' = [tab EXCEPT ![t].passkey = k]
        \/ tab' = [tab EXCEPT ![t].human = k]
    BY <1>5 DEF RegisterPasskey, ResetKey
  <2> QED  BY <1>1, <1>5, <2>1, PageFact DEF RegisterPasskey, ResetKey, Same
<1>6. ASSUME NEW t \in Tab, Reload(t) PROVE Quiet /\ Ended(t)
  BY <1>1, <1>6, PageFact DEF Reload, Ended
<1>7. ASSUME NEW t \in Tab, PollShown(t)
      PROVE  Quiet /\ Shows(t)
  <2> DEFINE seen == {p \in Proposal : proposal[p] # NoOffer /\ effectiveStatus(p) = "pending"}
  <2>1. tab' = [tab EXCEPT ![t].seen = seen] /\ UNCHANGED <<mandate, proposal, posted>>
    BY <1>7 DEF PollShown
  <2>2. seen \in SUBSET Proposal /\ seen \in SUBSET {p \in Proposal : proposal[p] # NoOffer}
    OBVIOUS
  <2> HIDE DEF seen
  <2> QED  BY <1>1, <2>1, <2>2, PageFact DEF Shows
<1>8. ASSUME NEW t \in Tab, NEW m \in Mandate, NEW source \in Source, NEW mode \in SignerMode,
             StartFlow(t, m, source, mode)
      PROVE  \E i \in Intent : Signs(t, i)
  <2> DEFINE i == SignedIntent(Signer(t, mode), m, source)
  <2>1. i \in Intent /\ i # NoIntent /\ i.mandate = m /\ i.from = source /\ Of(i)
    BY <1>8, SignedFact DEF StartFlow
  <2>2. /\ tab' = [tab EXCEPT ![t].step = "minting", ![t].intent = i]
        /\ FreshId(m) /\ UNCHANGED <<mandate, proposal, posted>>
    BY <1>8 DEF StartFlow
  <2> HIDE DEF i
  <2> QED  BY <2>1, <2>2, PageFact DEF Signs
<1>9. ASSUME NEW t \in Tab, NEW k \in Token, Mint(t, k)
      PROVE  \E b \in Body : Posts(t, b)
  <2> DEFINE i == tab[t].intent
             b == [mandate |-> i.mandate, from |-> i.from, signer |-> i.signer,
                   credential |-> i.credential, expires |-> i.expires, terms |-> i.terms,
                   token |-> k]
  <2>1. i # NoIntent /\ i \in Intent
    BY <1>9, IntentFact DEF Mint, TypeOK
  <2>2. posted' = posted \cup {b} /\ tab' = [tab EXCEPT ![t].step = "registering"]
        /\ UNCHANGED <<mandate, proposal>>
    BY <1>9 DEF Mint
  <2>3. /\ b \in Body /\ b.mandate = i.mandate /\ b.from = i.from
        /\ b.expires = i.expires /\ b.terms = i.terms
    <3> HIDE DEF i
    <3> QED  BY <2>1 DEF Intent, Body
  <2>4. Page(t, "registering", tab[t].intent, tab[t].seen)
    BY <2>2, PageFact
  <2> HIDE DEF b
  <2> QED  BY <2>1, <2>2, <2>3, <2>4 DEF Posts
<1>10. ASSUME NEW t \in Tab, NEW k \in Token, MintUnheard(t, k) PROVE Quiet /\ Ended(t)
  BY <1>1, <1>10, PageFact DEF MintUnheard, Ended
<1>11. ASSUME NEW t \in Tab, CallFails(t) PROVE Quiet /\ Ended(t)
  BY <1>1, <1>11, PageFact DEF CallFails, Ended
<1>12. ASSUME NEW t \in Tab, Answered(t)
       PROVE  Quiet /\ (Ended(t) \/ Consumes(t))
  <2>1. Quiet /\ tab[t].step = "registering" /\ Registered(tab[t].intent.mandate)
    BY <1>1, <1>12 DEF Answered
  <2>2. CASE tab[t].intent.from = ByHand
    <3>1. tab' = Ends(t)
      BY <1>12, <2>2 DEF Answered
    <3> QED  BY <2>1, <3>1, PageFact DEF Ended
  <2>3. CASE tab[t].intent.from # ByHand
    <3>1. tab' = [tab EXCEPT ![t].step = "consuming"]
      BY <1>12, <2>3 DEF Answered
    <3> QED  BY <2>1, <2>3, <3>1, PageFact DEF Consumes
  <2> QED  BY <2>2, <2>3
<1>13. ASSUME NEW t \in Tab, NEW heard \in BOOLEAN, Consume(t, heard) PROVE Quiet /\ Ended(t)
  <2>1. mandate' = mandate /\ posted' = posted
    BY <1>13 DEF Consume
  <2>2. NoNewMandate /\ Kept
    <3>1. proposal'[tab[t].intent.from] # NoOffer
      BY <1>13, ConsumeFact, OfferFact
    <3> QED  BY <1>13, <2>1, <3>1, ConsumeFact DEF NoNewMandate, Kept, Registered
  <2>3. Ended(t)
    <3>1. tab[t].intent.from \in Proposal
      BY <1>13, ConsumeFact
    <3>2. tab' = IF heard THEN [Ends(t) EXCEPT ![t].approved = @ \cup {tab[t].intent.from}]
                 ELSE Ends(t)
      BY <1>13 DEF Consume
    <3> QED  BY <3>1, <3>2, PageFact DEF Ended
  <2> QED  BY <2>1, <2>2, <2>3 DEF Quiet
<1>14. ASSUME NEW m \in Mandate, NEW k \in Token, NEW s \in Key, NEW c \in Key,
              PostMissigned(m, k, s, c)
       PROVE  \E b \in Body : Intrudes(b)
  <2> DEFINE b == [mandate |-> m, from |-> ByHand, signer |-> s, credential |-> c,
                   expires |-> now + ttl, terms |-> FormTerms(Form), token |-> k]
  <2>1. now + ttl \in Time
    BY CeremonyAssumption DEF TypeOK, Time
  <2>2. b \in Body /\ b.mandate = m /\ b.from = ByHand
    BY <2>1 DEF Body, Source, SignableTerms
  <2>3. FreshId(m) /\ posted' = posted \cup {b} /\ UNCHANGED <<mandate, proposal, tab>>
    BY <1>14 DEF PostMissigned
  <2> HIDE DEF b
  <2> QED  BY <2>2, <2>3 DEF Intrudes
<1>15. ASSUME NEW t \in Tab, TabStep(t)
       PROVE  \/ Quiet /\ (tab' = tab \/ Same(t) \/ Ended(t) \/ Shows(t) \/ Consumes(t))
              \/ \E i \in Intent : Signs(t, i)
              \/ \E b \in Body : Posts(t, b)
  <2> HIDE DEF Quiet, Same, Ended, Shows, Consumes, Signs, Posts
  <2> QED
    BY <1>3, <1>5, <1>6, <1>7, <1>8, <1>9, <1>10, <1>11, <1>12, <1>13, <1>15 DEF TabStep
<1>16. \/ \E p \in Proposal : Propose(p)
       \/ \E b \in posted : Register(b)
       \/ \E t \in Tab : TabStep(t)
       \/ \E m \in Mandate, k \in Token, s, c \in Key : PostMissigned(m, k, s, c)
       \/ Stop \/ Start \/ Tick
  BY DEF Next
<1> QED  BY <1>2, <1>4, <1>14, <1>15, <1>16

\* What a step can do to the tokens, the table and the ledger.
LEMMA TableKinds ==
  ASSUME Next
  PROVE  \/ UNCHANGED <<token, mandate, table, permitted>> /\ serving' \in {serving, "down"}
         \/ \E k \in Token : /\ token[k] = "none" /\ token' = [token EXCEPT ![k] = "live"]
                             /\ UNCHANGED <<serving, mandate, table, permitted>>
         \/ \E b \in posted : Register(b)
         \/ \E m \in Mandate : \E signer : Revoke(m, signer)
         \/ Start
<1> DEFINE Still == UNCHANGED <<token, mandate, table, permitted>> /\ serving' \in {serving, "down"}
           Minted == \E k \in Token : /\ token[k] = "none" /\ token' = [token EXCEPT ![k] = "live"]
                                      /\ UNCHANGED <<serving, mandate, table, permitted>>
           Revoked == \E m \in Mandate : \E signer : Revoke(m, signer)
<1>1. ASSUME NEW p \in Proposal, Propose(p) PROVE Still
  BY <1>1 DEF Propose, ledgerVars
<1>2. ASSUME NEW t \in Tab, TabStep(t) PROVE Still \/ Minted \/ Revoked
  <2>1. ASSUME NEW k \in Key, RegisterPasskey(t, k) \/ ResetKey(t, k) PROVE Still
    BY <2>1 DEF RegisterPasskey, ResetKey, ledgerVars
  <2>2. ASSUME Reload(t) \/ PollShown(t) \/ Answered(t) \/ CallFails(t) PROVE Still
    BY <2>2 DEF Reload, PollShown, Answered, CallFails, ledgerVars
  <2>3. ASSUME NEW m \in Mandate, NEW source \in Source, NEW mode \in SignerMode,
               StartFlow(t, m, source, mode)
        PROVE  Still
    BY <2>3 DEF StartFlow, ledgerVars
  <2>4. ASSUME NEW k \in Token, Mint(t, k) \/ MintUnheard(t, k) PROVE Minted
    BY <2>4 DEF Mint, MintUnheard, ledgerVars
  <2>5. ASSUME NEW heard \in BOOLEAN, Consume(t, heard) PROVE Still
    BY <2>5 DEF Consume, ledgerVars
  <2>6. ASSUME NEW m \in Mandate, NEW mode \in SignerMode, Revoke(m, Signer(t, mode)) PROVE Revoked
    BY <2>6
  <2> HIDE DEF Still, Minted, Revoked
  <2> QED  BY <1>2, <2>1, <2>2, <2>3, <2>4, <2>5, <2>6 DEF TabStep
<1>3. ASSUME NEW m \in Mandate, NEW k \in Token, NEW s \in Key, NEW c \in Key,
             PostMissigned(m, k, s, c)
      PROVE  Still
  BY <1>3 DEF PostMissigned, ledgerVars
<1>4. ASSUME Stop \/ Tick PROVE Still
  BY <1>4 DEF Stop, Tick, ledgerVars
<1> HIDE DEF Still, Minted, Revoked
<1>5. Still \/ Minted \/ Revoked \/ Start \/ \E b \in posted : Register(b)
  BY <1>1, <1>2, <1>3, <1>4 DEF Next
<1> QED  BY <1>5 DEF Still, Minted, Revoked

LEMMA KeptStep ==
  ASSUME TypeOK, OfferInv, SignedInv, ConsumeInv, Next
  PROVE  Kept
<1>1. ASSUME UNCHANGED <<mandate, proposal>> PROVE Kept
  BY <1>1 DEF Kept, Registered
<1>2. ASSUME NEW b \in posted, Register(b) PROVE Kept
  <2>1. proposal' = proposal
    BY <1>2 DEF Register
  <2> QED  BY <1>2, <2>1, RegisterFact DEF Kept, Registered
<1> QED  BY <1>1, <1>2, StepKinds DEF Quiet, Signs, Posts, Intrudes

-----------------------------------------------------------------------------
(* The ledger.                                                             *)

LEMMA AppendFact ==
  ASSUME TypeOK, NEW event \in L!Event, L!AppendLedger(event)
  PROVE  /\ table' \in Seq(L!LedgerRow) /\ permitted' = permitted
         /\ DOMAIN table = 1 .. Len(table) /\ Len(table) \in Nat
         /\ DOMAIN table' = 1 .. Len(table) + 1
         /\ \A i \in DOMAIN table : table'[i] = table[i]
         /\ table'[Len(table) + 1].event = event
<1> DEFINE r == L!RowAfter(event)
<1>1. DOMAIN table = 1 .. Len(table) /\ Len(table) \in Nat
  BY DEF TypeOK
<1>2. L!currentHead \in Seq(L!Event)
  <2>1. \A row \in L!LedgerRow : row.hash \in Seq(L!Event)
    BY DEF L!LedgerRow
  <2>2. CASE Len(table) = 0
    BY <2>2 DEF L!currentHead, L!HeadBefore, L!GENESIS_HASH
  <2>3. CASE Len(table) # 0
    <3>1. (Len(table) + 1) - 1 = Len(table) /\ Len(table) \in DOMAIN table /\ Len(table) + 1 # 1
      BY <1>1, <2>3
    <3>2. table[Len(table)] \in L!LedgerRow
      BY <3>1 DEF TypeOK
    <3> QED  BY <2>1, <3>1, <3>2 DEF L!currentHead, L!HeadBefore
  <2> QED  BY <2>2, <2>3
<1>3. r \in L!LedgerRow /\ r.event = event
  BY <1>2 DEF L!RowAfter, L!LedgerRow, L!Digest, L!StoredEvent, L!Event
<1>4. table' = Append(table, r) /\ permitted' = permitted
  BY DEF L!AppendLedger
<1> HIDE DEF r
<1> QED  BY <1>1, <1>3, <1>4 DEF TypeOK

\* An event that is appended is recorded, and the others are what they were.
LEMMA RecordedFact ==
  ASSUME TypeOK, NEW event \in L!Event, L!AppendLedger(event)
  PROVE  /\ \A type \in EventType, m \in Mandate :
              Recorded(type, m)' <=> Recorded(type, m) \/ event = [type |-> type, subject |-> m]
         /\ (\A i, j \in DOMAIN table : table[i].event = table[j].event => i = j)
            /\ (\A i \in DOMAIN table : table[i].event # event)
              => \A i, j \in DOMAIN table' : table'[i].event = table'[j].event => i = j
<1>1. PICK n \in Nat : n = Len(table)
  BY AppendFact
<1>2. /\ DOMAIN table = 1 .. n /\ DOMAIN table' = 1 .. n + 1
      /\ \A i \in 1 .. n : table'[i].event = table[i].event
      /\ table'[n + 1].event = event
  BY <1>1, AppendFact
<1>3. \A i \in 1 .. n + 1 : i \in 1 .. n \/ i = n + 1
  BY <1>1
<1>4. \A i \in 1 .. n : i \in 1 .. n + 1 /\ i # n + 1
  BY <1>1
<1>5. n + 1 \in 1 .. n + 1
  BY <1>1
<1> QED  BY <1>2, <1>3, <1>4, <1>5 DEF Recorded

LEMMA LedgerStep ==
  ASSUME IInv, [Next]_vars
  PROVE  LedgerAgrees' /\ table' \in Seq(L!LedgerRow) /\ permitted' \subseteq EventType
<1>1. /\ TypeOK /\ LedgerAgrees /\ table \in Seq(L!LedgerRow) /\ permitted \subseteq EventType
  BY DEF IInv, TypeOK
<1>2. ASSUME UNCHANGED <<mandate, table, permitted>>, serving' \in {serving, "down"}
      PROVE  LedgerAgrees'
  BY <1>1, <1>2 DEF LedgerAgrees, Registered, Recorded
<1>3. ASSUME NEW b \in posted, Register(b)
      PROVE  LedgerAgrees' /\ table' \in Seq(L!LedgerRow) /\ permitted' = permitted
  <2> DEFINE event == [type |-> "mandate_registered", subject |-> b.mandate]
  <2>1. event \in L!Event /\ b.mandate \in Mandate
    BY <1>1, BodyFact DEF L!Event, EventType
  <2>2. L!AppendLedger(event) /\ serving' = serving
    BY <1>3 DEF Register
  <2>3. \A i \in DOMAIN table : table[i].event # event
    <3>1. ~Registered(b.mandate)
      BY <1>1, <1>3, RegisterFact
    <3>2. ~Recorded("mandate_registered", b.mandate)
      BY <1>1, <2>1, <3>1 DEF LedgerAgrees
    <3> QED  BY <3>2 DEF Recorded
  <2>4. /\ table' \in Seq(L!LedgerRow) /\ permitted' = permitted
        /\ \A m \in Mandate : /\ Recorded("mandate_registered", m)'
                                   <=> Recorded("mandate_registered", m) \/ m = b.mandate
                              /\ Recorded("mandate_revoked", m)' <=> Recorded("mandate_revoked", m)
        /\ \A i, j \in DOMAIN table' : table'[i].event = table'[j].event => i = j
    <3>1. /\ "mandate_registered" \in EventType /\ "mandate_revoked" \in EventType
          /\ event.type = "mandate_registered" /\ event.subject = b.mandate
      BY DEF EventType
    <3>2. \A m \in Mandate : /\ event = [type |-> "mandate_registered", subject |-> m] <=> m = b.mandate
                             /\ event # [type |-> "mandate_revoked", subject |-> m]
      OBVIOUS
    <3> HIDE DEF event
    <3> QED  BY <1>1, <2>1, <2>2, <2>3, <3>1, <3>2, AppendFact, RecordedFact DEF LedgerAgrees
  <2>5. \A m \in Mandate : /\ Registered(m)' <=> Registered(m) \/ m = b.mandate
                           /\ Registered(m)' /\ mandate'[m].revoked
                                <=> Registered(m) /\ mandate[m].revoked
    BY <1>1, <1>3, <2>1, RegisterFact, RowFact DEF RowFields, Registered
  <2> QED  BY <1>1, <2>2, <2>4, <2>5 DEF LedgerAgrees
<1>4. ASSUME NEW m \in Mandate, NEW signer, Revoke(m, signer)
      PROVE  LedgerAgrees' /\ table' \in Seq(L!LedgerRow) /\ permitted' = permitted
  <2> DEFINE event == [type |-> "mandate_revoked", subject |-> m]
  <2>1. event \in L!Event
    BY DEF L!Event, EventType
  <2>2. L!AppendLedger(event) /\ serving' = serving
    BY <1>4 DEF Revoke
  <2>3. \A i \in DOMAIN table : table[i].event # event
    BY <1>1, <1>4, <2>1, RevokeFact DEF LedgerAgrees, Recorded
  <2>4. /\ table' \in Seq(L!LedgerRow) /\ permitted' = permitted
        /\ \A n \in Mandate : /\ Recorded("mandate_registered", n)'
                                   <=> Recorded("mandate_registered", n)
                              /\ Recorded("mandate_revoked", n)'
                                   <=> Recorded("mandate_revoked", n) \/ n = m
        /\ \A i, j \in DOMAIN table' : table'[i].event = table'[j].event => i = j
    <3>1. "mandate_registered" \in EventType /\ "mandate_revoked" \in EventType
      BY DEF EventType
    <3>2. \A n \in Mandate : /\ event # [type |-> "mandate_registered", subject |-> n]
                             /\ event = [type |-> "mandate_revoked", subject |-> n] <=> n = m
      OBVIOUS
    <3> HIDE DEF event
    <3> QED  BY <1>1, <2>1, <2>2, <2>3, <3>1, <3>2, AppendFact, RecordedFact DEF LedgerAgrees
  <2>5. \A n \in Mandate : /\ Registered(n)' <=> Registered(n)
                           /\ Registered(n)' /\ mandate'[n].revoked
                                <=> (Registered(n) /\ mandate[n].revoked) \/ n = m
    <3>1. Registered(m) /\ Registered(m)' /\ mandate'[m].revoked
      BY <1>1, <1>4, RevokeFact, RowFact DEF RowFields, Registered
    <3>2. \A n \in Mandate \ {m} : mandate'[n] = mandate[n]
      BY <1>1, <1>4, RevokeFact
    <3> QED  BY <3>1, <3>2 DEF Registered
  <2> QED  BY <1>1, <2>2, <2>4, <2>5 DEF LedgerAgrees
<1>5. ASSUME Start PROVE LedgerAgrees' /\ table' = table /\ permitted' \subseteq EventType
  <2>1. /\ UNCHANGED <<mandate, table>> /\ serving' = "this"
        /\ permitted' = IF EventType \subseteq permitted THEN permitted ELSE EventType
    BY <1>5 DEF Start, L!openDb
  <2> QED  BY <1>1, <2>1 DEF LedgerAgrees, Registered, Recorded
<1>6. CASE UNCHANGED vars
  BY <1>1, <1>2, <1>6 DEF vars
<1>7. CASE Next
  BY <1>1, <1>2, <1>3, <1>4, <1>5, <1>7, TableKinds
<1> QED  BY <1>6, <1>7

-----------------------------------------------------------------------------
(* The steps preserve the invariant.                                       *)

LEMMA InitInv == Init => IInv
<1> SUFFICES ASSUME Init PROVE IInv
  OBVIOUS
<1>1. /\ \A m \in Mandate : mandate[m] = NoRow
      /\ \A p \in Proposal : proposal[p] = NoOffer
      /\ \A k \in Token : token[k] = "none"
      /\ \A t \in Tab : tab[t] = Mounted
      /\ posted = {} /\ agentKey = {} /\ table = <<>>
      /\ serving \in {"older", "down"}
  BY DEF Init, L!Init
<1>2. Mounted.step = "idle" /\ Mounted.intent = NoIntent /\ Mounted.seen = {}
  BY DEF Mounted
<1>3. TypeOK
  <2>1. storage \in [human : Key, passkey : Key \cup {NoKey}]
    BY DEF Init
  <2>2. storage.human \in Key /\ storage.passkey \in Key \cup {NoKey}
    BY <2>1
  <2>3. Mounted \in TabState
    <3>1. {} \in SUBSET Proposal /\ "idle" \in {"idle", "minting", "registering", "consuming"}
          /\ NoIntent \in Intent \cup {NoIntent}
      OBVIOUS
    <3> QED  BY <2>2, <3>1, TabFields DEF Mounted
  <2>4. tab \in [Tab -> TabState] /\ \A t \in Tab : tab[t].step = "idle"
    BY <1>1, <1>2, <2>3 DEF Init
  <2>5. /\ token \in [Token -> {"none", "live", "spent"}]
        /\ mandate \in [Mandate -> Row \cup {NoRow}]
        /\ proposal \in [Proposal -> Offer \cup {NoOffer}]
        /\ posted \subseteq Body /\ discarded \subseteq Key /\ agentKey \subseteq Mandate
    BY DEF Init
  <2>6. now \in 0 .. MaxTime
    BY CeremonyAssumption DEF Init
  <2>7. table \in Seq(L!LedgerRow) /\ permitted \subseteq EventType
    BY CeremonyAssumption DEF Init, L!Init
  <2> QED  BY <1>1, <2>1, <2>4, <2>5, <2>6, <2>7 DEF TypeOK
<1>4. OneMandatePerToken /\ DoneMeansDone /\ OfferInv /\ OriginInv /\ SignedInv /\ ConsumeInv
  BY <1>1, <1>2
  DEF OneMandatePerToken, DoneMeansDone, OfferInv, OriginInv, SignedInv, ConsumeInv, Registered
<1>5. LedgerAgrees
  BY <1>1 DEF LedgerAgrees, Registered, Recorded
<1> QED  BY <1>3, <1>4, <1>5 DEF IInv

\* What a step can do to the clock, the proposals and the browser's storage.
LEMMA RestKinds ==
  ASSUME Next
  PROVE  /\ now' = now \/ Tick
         /\ \/ proposal' = proposal
            \/ \E p \in Proposal : Propose(p)
            \/ \E t \in Tab, heard \in BOOLEAN : Consume(t, heard)
         /\ \/ UNCHANGED keys
            \/ \E t \in Tab, k \in Key : RegisterPasskey(t, k) \/ ResetKey(t, k)
         /\ agentKey' = agentKey \/ \E t \in Tab : Answered(t)
<1> DEFINE Still == UNCHANGED <<now, proposal, keys, agentKey>>
<1>1. ASSUME NEW p \in Proposal, Propose(p) PROVE UNCHANGED <<now, keys, agentKey>>
  BY <1>1 DEF Propose
<1>2. ASSUME NEW b \in posted, Register(b) PROVE Still
  BY <1>2 DEF Register
<1>3. ASSUME NEW t \in Tab, NEW k \in Key, RegisterPasskey(t, k) \/ ResetKey(t, k)
      PROVE  UNCHANGED <<now, proposal, agentKey>>
  BY <1>3 DEF RegisterPasskey, ResetKey
<1>4. ASSUME NEW t \in Tab, Reload(t) \/ PollShown(t) \/ CallFails(t) PROVE Still
  BY <1>4 DEF Reload, PollShown, CallFails
<1>5. ASSUME NEW t \in Tab, NEW m \in Mandate, NEW source \in Source, NEW mode \in SignerMode,
             StartFlow(t, m, source, mode)
      PROVE  Still
  BY <1>5 DEF StartFlow
<1>6. ASSUME NEW t \in Tab, NEW k \in Token, Mint(t, k) \/ MintUnheard(t, k) PROVE Still
  BY <1>6 DEF Mint, MintUnheard
<1>7. ASSUME NEW t \in Tab, Answered(t) PROVE UNCHANGED <<now, proposal, keys>>
  BY <1>7 DEF Answered
<1>8. ASSUME NEW t \in Tab, NEW heard \in BOOLEAN, Consume(t, heard)
      PROVE  UNCHANGED <<now, keys, agentKey>>
  BY <1>8 DEF Consume
<1>9. ASSUME NEW t \in Tab, NEW m \in Mandate, NEW mode \in SignerMode, Revoke(m, Signer(t, mode))
      PROVE  Still
  BY <1>9 DEF Revoke
<1>10. ASSUME NEW m \in Mandate, NEW k \in Token, NEW s \in Key, NEW c \in Key,
              PostMissigned(m, k, s, c)
       PROVE  Still
  BY <1>10 DEF PostMissigned
<1>11. Stop \/ Start => Still
  BY DEF Stop, Start
<1>12. Tick => UNCHANGED <<proposal, keys, agentKey>>
  BY DEF Tick
<1>13. ASSUME NEW t \in Tab, TabStep(t)
       PROVE  \/ Still
              \/ \E k \in Key : RegisterPasskey(t, k) \/ ResetKey(t, k)
              \/ Answered(t)
              \/ \E heard \in BOOLEAN : Consume(t, heard)
  <2> HIDE DEF Still
  <2> QED  BY <1>4, <1>5, <1>6, <1>9, <1>13 DEF TabStep
<1> QED
  BY <1>1, <1>2, <1>3, <1>7, <1>8, <1>10, <1>11, <1>12, <1>13 DEF Next

\* How the pages and the network change, whatever the step.
Network ==
  /\ tab' = tab \/ \E t \in Tab : Same(t) \/ Ended(t) \/ Shows(t) \/ Consumes(t)
                                  \/ (\E i \in Intent : Signs(t, i)) \/ (\E b \in Body : Posts(t, b))
  /\ posted' = posted \/ \E b \in Body : posted' = posted \cup {b}
LEMMA NetworkFact ==
  ASSUME TypeOK, OfferInv, SignedInv, ConsumeInv, Next
  PROVE  Network
<1>1. ASSUME NEW b \in posted, Register(b) PROVE tab' = tab /\ posted' = posted
  BY <1>1 DEF Register
<1>2. ASSUME NEW t \in Tab, NEW b \in Body, Posts(t, b) PROVE posted' = posted \cup {b}
  BY <1>2 DEF Posts
<1>3. ASSUME NEW b \in Body, Intrudes(b) PROVE tab' = tab /\ posted' = posted \cup {b}
  BY <1>3 DEF Intrudes
<1>4. ASSUME NEW t \in Tab, NEW i \in Intent, Signs(t, i) PROVE posted' = posted
  BY <1>4 DEF Signs
<1>5. Quiet => posted' = posted
  BY DEF Quiet
<1> HIDE DEF Same, Ended, Shows, Consumes, Signs, Posts, Intrudes, Quiet
<1> QED  BY <1>1, <1>2, <1>3, <1>4, <1>5, StepKinds DEF Network

LEMMA TypeStep ==
  ASSUME IInv, [Next]_vars
  PROVE  TypeOK'
<1>1. TypeOK /\ OfferInv /\ SignedInv /\ ConsumeInv
  BY DEF IInv
<1>2. CASE UNCHANGED vars
  BY <1>1, <1>2 DEF vars, keys, TypeOK
<1>3. CASE Next
  <2>1. now' \in 0 .. MaxTime
    BY <1>1, <1>3, RestKinds, CeremonyAssumption DEF Tick, TypeOK
  <2>2. serving' \in {"down", "older", "this"}
    BY <1>1, <1>3, TableKinds DEF Register, Revoke, Start, TypeOK
  <2>3. token' \in [Token -> {"none", "live", "spent"}]
    BY <1>1, <1>3, TableKinds DEF Register, Revoke, Start, TypeOK
  <2>4. mandate' \in [Mandate -> Row \cup {NoRow}]
    <3>1. ASSUME NEW b \in posted, Register(b) PROVE mandate' \in [Mandate -> Row \cup {NoRow}]
      BY <1>1, <3>1, RegisterFact DEF TypeOK
    <3>2. ASSUME NEW m \in Mandate, NEW signer, Revoke(m, signer)
          PROVE  mandate' \in [Mandate -> Row \cup {NoRow}]
      <4>1. mandate' = [mandate EXCEPT ![m] = [mandate[m] EXCEPT !.revoked = TRUE]]
        BY <3>2 DEF Revoke
      <4>2. mandate' = [mandate EXCEPT ![m] = mandate'[m]]
        BY <1>1, <4>1 DEF TypeOK
      <4>3. mandate'[m] \in Row
        BY <1>1, <3>2, RevokeFact
      <4> QED  BY <1>1, <4>2, <4>3 DEF TypeOK
    <3> QED  BY <1>1, <1>3, <3>1, <3>2, TableKinds DEF Start, TypeOK
  <2>5. proposal' \in [Proposal -> Offer \cup {NoOffer}]
    <3>1. ASSUME NEW p \in Proposal, Propose(p) PROVE proposal' \in [Proposal -> Offer \cup {NoOffer}]
      <4>1. PICK offer : proposal' = [proposal EXCEPT ![p] = offer]
        BY <3>1 DEF Propose
      <4> QED  BY <1>1, <3>1, <4>1, ProposeFact DEF TypeOK
    <3>2. ASSUME NEW t \in Tab, NEW heard \in BOOLEAN, Consume(t, heard)
          PROVE  proposal' \in [Proposal -> Offer \cup {NoOffer}]
      <4> DEFINE p == tab[t].intent.from
      <4>1. PICK offer : proposal' = [proposal EXCEPT ![p] = offer]
        BY <3>2 DEF Consume
      <4>2. p \in Proposal /\ proposal'[p] \in Offer
        BY <1>1, <3>2, ConsumeFact
      <4> HIDE DEF p
      <4> QED  BY <1>1, <4>1, <4>2 DEF TypeOK
    <3> QED  BY <1>1, <1>3, <3>1, <3>2, RestKinds DEF TypeOK
  <2>6. posted' \subseteq Body
    BY <1>1, <1>3, NetworkFact DEF Network, TypeOK
  <2>7. storage' \in [human : Key, passkey : Key \cup {NoKey}] /\ discarded' \subseteq Key
    <3>1. ASSUME NEW t \in Tab, NEW k \in Key, RegisterPasskey(t, k)
          PROVE  storage' \in [human : Key, passkey : Key \cup {NoKey}] /\ discarded' \subseteq Key
      BY <1>1, <3>1 DEF RegisterPasskey, TypeOK
    <3>2. ASSUME NEW t \in Tab, NEW k \in Key, ResetKey(t, k)
          PROVE  storage' \in [human : Key, passkey : Key \cup {NoKey}] /\ discarded' \subseteq Key
      BY <1>1, <3>2 DEF ResetKey, TypeOK
    <3> QED  BY <1>1, <1>3, <3>1, <3>2, RestKinds DEF keys, TypeOK
  <2>8. agentKey' \subseteq Mandate
    <3>1. ASSUME NEW t \in Tab, Answered(t) PROVE agentKey' \subseteq Mandate
      <4>1. tab[t].intent.mandate \in Mandate
        BY <1>1, <3>1, IntentFact DEF Answered, TypeOK
      <4> QED  BY <1>1, <3>1, <4>1 DEF Answered, TypeOK
    <3> QED  BY <1>1, <1>3, <3>1, RestKinds DEF TypeOK
  <2>9. tab' \in [Tab -> TabState]
    <3>1. ASSUME NEW t \in Tab, NEW step, NEW i, NEW seen, Page(t, step, i, seen)
          PROVE  tab' \in [Tab -> TabState]
      BY <3>1 DEF Page
    <3> QED
      BY <1>1, <1>3, <3>1, NetworkFact
      DEF Network, Same, Ended, Shows, Consumes, Signs, Posts, TypeOK
  <2>10. \A t \in Tab : tab'[t].step # "idle" => tab'[t].intent # NoIntent
    <3>1. \A t \in Tab : tab[t].step # "idle" => tab[t].intent # NoIntent
      BY <1>1 DEF TypeOK
    <3>2. ASSUME NEW t \in Tab, NEW step, NEW i, NEW seen, Page(t, step, i, seen),
                 step # "idle" => i # NoIntent
          PROVE  \A u \in Tab : tab'[u].step # "idle" => tab'[u].intent # NoIntent
      BY <3>1, <3>2 DEF Page
    <3>3. ASSUME NEW t \in Tab, Same(t) \/ Ended(t) \/ Shows(t) \/ Consumes(t)
          PROVE  \A u \in Tab : tab'[u].step # "idle" => tab'[u].intent # NoIntent
      <4>1. "registering" # "idle"
        OBVIOUS
      <4> QED  BY <3>1, <3>2, <3>3, <4>1 DEF Same, Ended, Shows, Consumes
    <3>4. ASSUME NEW t \in Tab, (\E i \in Intent : Signs(t, i)) \/ \E b \in Body : Posts(t, b)
          PROVE  \A u \in Tab : tab'[u].step # "idle" => tab'[u].intent # NoIntent
      BY <3>2, <3>4 DEF Signs, Posts
    <3> HIDE DEF Same, Ended, Shows, Consumes, Signs, Posts
    <3> QED  BY <1>1, <1>3, <3>1, <3>3, <3>4, NetworkFact DEF Network
  <2>11. table' \in Seq(L!LedgerRow) /\ permitted' \subseteq EventType
    BY <1>3, LedgerStep
  <2> QED
    BY <2>1, <2>2, <2>3, <2>4, <2>5, <2>6, <2>7, <2>8, <2>9, <2>10, <2>11 DEF TypeOK
<1> QED  BY <1>2, <1>3

\* A token is spent by the one mandate that is registered under it.
LEMMA TokenStep ==
  ASSUME IInv, [Next]_vars
  PROVE  OneMandatePerToken'
<1>1. TypeOK /\ OneMandatePerToken
  BY DEF IInv
<1>2. \A m \in Mandate : Registered(m) => mandate[m].token \in Token
  BY <1>1, RowFact DEF RowFields, Registered, TypeOK
<1>3. ASSUME UNCHANGED <<token, mandate>> PROVE OneMandatePerToken'
  BY <1>1, <1>3 DEF OneMandatePerToken, Registered
<1>4. ASSUME NEW k \in Token, token[k] = "none", token' = [token EXCEPT ![k] = "live"],
             mandate' = mandate
      PROVE  OneMandatePerToken'
  <2>1. \A j \in Token : token'[j] = "spent" <=> token[j] = "spent"
    BY <1>1, <1>4 DEF TypeOK
  <2> QED  BY <1>1, <1>2, <1>4, <2>1 DEF OneMandatePerToken, Registered
<1>5. ASSUME NEW b \in posted, Register(b) PROVE OneMandatePerToken'
  <2>1. /\ b.token \in Token /\ b.mandate \in Mandate /\ token[b.token] = "live"
        /\ token'[b.token] = "spent"
        /\ \A j \in Token \ {b.token} : token'[j] = token[j]
    BY <1>1, <1>5, BodyFact DEF Register, Admits, TypeOK
  <2>2. /\ ~Registered(b.mandate) /\ Registered(b.mandate)' /\ mandate'[b.mandate].token = b.token
        /\ \A m \in Mandate \ {b.mandate} : mandate'[m] = mandate[m]
    BY <1>1, <1>5, RegisterFact, RowFact DEF RowFields, Registered
  <2>3. \A m \in Mandate : Registered(m) => mandate[m].token # b.token
    BY <1>1, <2>1 DEF OneMandatePerToken
  <2> QED  BY <1>1, <1>2, <2>1, <2>2, <2>3 DEF OneMandatePerToken, Registered
<1>6. ASSUME NEW m \in Mandate, NEW signer, Revoke(m, signer) PROVE OneMandatePerToken'
  <2>1. token' = token
    BY <1>6 DEF Revoke
  <2>2. \A n \in Mandate : /\ Registered(n)' <=> Registered(n)
                           /\ Registered(n) => mandate'[n].token = mandate[n].token
    BY <1>1, <1>6, RevokeFact, RowFact DEF RowFields, Registered
  <2> QED  BY <1>1, <2>1, <2>2 DEF OneMandatePerToken
<1>7. Start \/ UNCHANGED vars => UNCHANGED <<token, mandate>>
  BY DEF Start, vars
<1> QED  BY <1>3, <1>4, <1>5, <1>6, <1>7, TableKinds

\* A proposal holds what was asked for.
LEMMA OfferStep ==
  ASSUME IInv, [Next]_vars
  PROVE  OfferInv'
<1>1. TypeOK /\ OfferInv /\ SignedInv /\ ConsumeInv
  BY DEF IInv
<1>2. CASE UNCHANGED vars
  BY <1>1, <1>2 DEF vars, OfferInv
<1>3. CASE Next
  <2>1. \A p \in Proposal : proposal'[p] # NoOffer => proposal'[p].terms = Asked(p)
    <3>1. ASSUME NEW p \in Proposal, Propose(p)
          PROVE  \A q \in Proposal : proposal'[q] # NoOffer => proposal'[q].terms = Asked(q)
      BY <1>1, <3>1, ProposeFact DEF OfferInv
    <3>2. ASSUME NEW t \in Tab, NEW heard \in BOOLEAN, Consume(t, heard)
          PROVE  \A q \in Proposal : proposal'[q] # NoOffer => proposal'[q].terms = Asked(q)
      BY <1>1, <3>2, ConsumeFact DEF OfferInv
    <3> QED  BY <1>1, <1>3, <3>1, <3>2, RestKinds DEF OfferInv
  <2>2. \A p \in Proposal : proposal[p] # NoOffer => proposal'[p] # NoOffer
    BY <1>1, <1>3, KeptStep DEF Kept
  <2>3. \A t \in Tab : tab[t].seen \in SUBSET {p \in Proposal : proposal[p] # NoOffer}
    <3>1. \A t \in Tab : tab[t].seen \in SUBSET Proposal
      <4>1. \A t \in Tab : tab[t] \in TabState
        BY <1>1 DEF TypeOK
      <4> QED  BY <4>1, TabFields
    <3> QED  BY <1>1, <3>1 DEF OfferInv
  <2>4. ASSUME NEW t \in Tab, NEW step, NEW i,
               NEW seen \in SUBSET {p \in Proposal : proposal[p] # NoOffer}, Page(t, step, i, seen)
        PROVE  \A u \in Tab : \A p \in tab'[u].seen : proposal'[p] # NoOffer
    BY <2>2, <2>3, <2>4 DEF Page
  <2>5. ASSUME NEW t \in Tab, Same(t) \/ Ended(t) \/ Shows(t) \/ Consumes(t)
        PROVE  \A u \in Tab : \A p \in tab'[u].seen : proposal'[p] # NoOffer
    BY <2>3, <2>4, <2>5 DEF Same, Ended, Shows, Consumes
  <2>6. ASSUME NEW t \in Tab, (\E i \in Intent : Signs(t, i)) \/ \E b \in Body : Posts(t, b)
        PROVE  \A u \in Tab : \A p \in tab'[u].seen : proposal'[p] # NoOffer
    BY <2>3, <2>4, <2>6 DEF Signs, Posts
  <2>7. \A t \in Tab : \A p \in tab'[t].seen : proposal'[p] # NoOffer
    <3> HIDE DEF Same, Ended, Shows, Consumes, Signs, Posts
    <3>1. tab' = tab => \A t \in Tab : \A p \in tab'[t].seen : proposal'[p] # NoOffer
      BY <2>2, <2>3
    <3> QED  BY <1>1, <1>3, <2>5, <2>6, <3>1, NetworkFact DEF Network
  <2> QED  BY <2>1, <2>7 DEF OfferInv, Asked
<1> QED  BY <1>2, <1>3

\* What an intent says of its proposal stays so.
LEMMA OfKept ==
  ASSUME TypeOK, Kept, NEW i, i.from \in Source, Of(i)
  PROVE  Of(i)'
BY DEF Kept, Of, Source, Asked

LEMMA SignedStep ==
  ASSUME IInv, [Next]_vars
  PROVE  SignedInv'
<1>1. TypeOK /\ OfferInv /\ SignedInv /\ ConsumeInv
  BY DEF IInv
<1>2. CASE UNCHANGED vars
  BY <1>1, <1>2 DEF vars, SignedInv, Of, Asked
<1>3. CASE Next
  <2>1. Kept
    BY <1>1, <1>3, KeptStep
  <2>2. \A t \in Tab : tab[t].intent # NoIntent => tab[t].intent.from \in Source /\ Of(tab[t].intent)
    BY <1>1, IntentFact DEF SignedInv
  <2>3. \A b \in posted : b.from \in Source /\ Of(b)
    BY <1>1, BodyFact DEF SignedInv
  <2>4. ASSUME NEW t \in Tab, NEW step, NEW seen, NEW i, Page(t, step, i, seen),
               i # NoIntent => i.from \in Source /\ Of(i)
        PROVE  \A u \in Tab : tab'[u].intent # NoIntent =>
                 tab'[u].intent.from \in Source /\ Of(tab[u].intent)'
    <3> SUFFICES ASSUME NEW u \in Tab, tab'[u].intent # NoIntent
                 PROVE  tab'[u].intent.from \in Source /\ Of(tab[u].intent)'
      OBVIOUS
    <3>1. PICK j : j = tab'[u].intent
      OBVIOUS
    <3>2. j.from \in Source /\ Of(j)
      BY <2>2, <2>4, <3>1 DEF Page
    <3>3. Of(j)'
      BY <1>1, <2>1, <3>2, OfKept
    <3> QED  BY <3>1, <3>2, <3>3 DEF Of, Asked
  <2>5. ASSUME NEW t \in Tab, Same(t) \/ Ended(t) \/ Shows(t) \/ Consumes(t)
        PROVE  \A u \in Tab : tab'[u].intent # NoIntent => Of(tab[u].intent)'
    BY <2>2, <2>4, <2>5 DEF Same, Ended, Shows, Consumes
  <2>6. ASSUME NEW t \in Tab, (\E i \in Intent : Signs(t, i)) \/ \E b \in Body : Posts(t, b)
        PROVE  \A u \in Tab : tab'[u].intent # NoIntent => Of(tab[u].intent)'
    BY <2>2, <2>4, <2>6 DEF Signs, Posts
  <2>7. ASSUME tab' = tab
        PROVE  \A u \in Tab : tab'[u].intent # NoIntent => Of(tab[u].intent)'
    <3> SUFFICES ASSUME NEW u \in Tab, tab'[u].intent # NoIntent PROVE Of(tab[u].intent)'
      OBVIOUS
    <3>1. PICK j : j = tab[u].intent
      OBVIOUS
    <3>2. j.from \in Source /\ Of(j)
      BY <2>2, <2>7, <3>1
    <3>3. Of(j)'
      BY <1>1, <2>1, <3>2, OfKept
    <3> QED  BY <2>7, <3>1, <3>3 DEF Of, Asked
  <2>8. \A u \in Tab : tab'[u].intent # NoIntent => Of(tab[u].intent)'
    <3> HIDE DEF Same, Ended, Shows, Consumes, Signs, Posts, Of
    <3> QED  BY <1>1, <1>3, <2>5, <2>6, <2>7, NetworkFact DEF Network
  <2>9. \A b \in posted' : b.from \in Source /\ Of(b)
    <3>1. ASSUME NEW t \in Tab, NEW b \in Body, Posts(t, b)
          PROVE  posted' = posted \cup {b} /\ b.from \in Source /\ Of(b)
      BY <2>2, <3>1 DEF Posts, Of
    <3>2. ASSUME NEW b \in Body, Intrudes(b)
          PROVE  posted' = posted \cup {b} /\ b.from \in Source /\ Of(b)
      BY <3>2 DEF Intrudes, Of, Source
    <3>3. ASSUME NEW b \in posted, Register(b) PROVE posted' = posted
      BY <3>3 DEF Register
    <3>4. ASSUME NEW t \in Tab, NEW i \in Intent, Signs(t, i) PROVE posted' = posted
      BY <3>4 DEF Signs
    <3>5. Quiet => posted' = posted
      BY DEF Quiet
    <3>6. posted' = posted \/ \E b \in Body : posted' = posted \cup {b} /\ b.from \in Source /\ Of(b)
      <4> HIDE DEF Same, Ended, Shows, Consumes, Signs, Posts, Intrudes, Quiet, Of
      <4> QED  BY <1>1, <1>3, <3>1, <3>2, <3>3, <3>4, <3>5, StepKinds
    <3> QED  BY <2>3, <3>6
  <2>10. \A b \in posted' : Of(b)'
    <3> SUFFICES ASSUME NEW b \in posted' PROVE Of(b)'
      OBVIOUS
    <3> QED  BY <1>1, <2>1, <2>9, OfKept
  <2> QED  BY <2>8, <2>10 DEF SignedInv
<1> QED  BY <1>2, <1>3

LEMMA OriginStep ==
  ASSUME IInv, [Next]_vars
  PROVE  OriginInv'
<1>1. TypeOK /\ OfferInv /\ SignedInv /\ OriginInv /\ ConsumeInv
  BY DEF IInv
<1>2. CASE UNCHANGED vars
  BY <1>1, <1>2 DEF vars, OriginInv, Registered
<1>3. CASE Next
  <2>1. /\ \A t \in Tab : tab[t].intent # NoIntent => tab[t].intent.mandate \in Mandate
        /\ \A b \in posted : b.mandate \in Mandate
        /\ NoIntent.mandate \notin Mandate
    BY <1>1, IntentFact, BodyFact, NoIntentFact
  <2>2. Kept
    BY <1>1, <1>3, KeptStep
  <2>3. ASSUME NoNewMandate, posted \subseteq posted'
        PROVE  \A m \in Mandate :
                 Registered(m)' =>
                   \E b \in posted' : /\ b.mandate = m /\ b.from = mandate'[m].from
                                      /\ b.expires = mandate'[m].expires
                                      /\ b.terms = mandate'[m].terms
    BY <1>1, <2>2, <2>3 DEF OriginInv, NoNewMandate, Kept
  <2>4. ASSUME Quiet, NEW t \in Tab, NEW step, NEW seen, NEW i \in {NoIntent, tab[t].intent},
               Page(t, step, i, seen)
        PROVE  OriginInv'
    <3>1. posted' = posted /\ NoNewMandate
      BY <2>4 DEF Quiet
    <3>2. \A u \in Tab : tab'[u].intent = tab[u].intent \/ tab'[u].intent = NoIntent
      BY <2>4 DEF Page
    <3> QED  BY <1>1, <2>1, <2>3, <3>1, <3>2 DEF OriginInv
  <2>5. ASSUME Quiet, tab' = tab PROVE OriginInv'
    <3>1. posted' = posted /\ NoNewMandate
      BY <2>5 DEF Quiet
    <3> QED  BY <1>1, <2>3, <2>5, <3>1 DEF OriginInv
  <2>6. ASSUME Quiet, NEW t \in Tab, Same(t) \/ Ended(t) \/ Shows(t) \/ Consumes(t)
        PROVE  OriginInv'
    BY <2>4, <2>6 DEF Same, Ended, Shows, Consumes
  <2>7. ASSUME NEW t \in Tab, NEW i \in Intent, Signs(t, i) PROVE OriginInv'
    <3>1. /\ i.mandate \in Mandate /\ i # NoIntent
          /\ \A u \in Tab : tab[u].intent.mandate # i.mandate
          /\ \A b \in posted : b.mandate # i.mandate
          /\ posted' = posted /\ mandate' = mandate
          /\ tab'[t].intent = i /\ \A u \in Tab \ {t} : tab'[u] = tab[u]
      BY <2>7 DEF Signs, FreshId, Page
    <3>2. NoNewMandate
      BY <3>1 DEF NoNewMandate, Registered
    <3> QED  BY <1>1, <2>1, <2>3, <3>1, <3>2 DEF OriginInv
  <2>8. ASSUME NEW t \in Tab, NEW b \in Body, Posts(t, b) PROVE OriginInv'
    <3>1. /\ tab[t].intent # NoIntent
          /\ b.mandate = tab[t].intent.mandate /\ b.from = tab[t].intent.from
          /\ posted' = posted \cup {b} /\ mandate' = mandate
          /\ \A u \in Tab : tab'[u].intent = tab[u].intent
      BY <2>8 DEF Posts, Page
    <3>2. NoNewMandate
      BY <3>1 DEF NoNewMandate, Registered
    <3> QED  BY <1>1, <2>3, <3>1, <3>2 DEF OriginInv
  <2>9. ASSUME NEW b \in posted, Register(b) PROVE OriginInv'
    <3>1. tab' = tab /\ posted' = posted
      BY <2>9 DEF Register
    <3>2. ASSUME NEW m \in Mandate, Registered(m)'
          PROVE  \E c \in posted : /\ c.mandate = m /\ c.from = mandate'[m].from
                                   /\ c.expires = mandate'[m].expires
                                   /\ c.terms = mandate'[m].terms
      <4>1. CASE m = b.mandate
        <5>1. /\ mandate'[m].from = b.from /\ mandate'[m].expires = b.expires
              /\ mandate'[m].terms = b.terms
          BY <1>1, <2>9, <4>1, RegisterFact
        <5> QED  BY <4>1, <5>1
      <4>2. CASE m # b.mandate
        <5>1. Registered(m) /\ mandate'[m] = mandate[m]
          BY <1>1, <2>9, <3>2, <4>2, RegisterFact DEF Registered
        <5> QED  BY <1>1, <5>1 DEF OriginInv
      <4> QED  BY <4>1, <4>2
    <3> QED  BY <1>1, <3>1, <3>2 DEF OriginInv
  <2>10. ASSUME NEW b \in Body, Intrudes(b) PROVE OriginInv'
    <3>1. /\ \A u \in Tab : tab[u].intent.mandate # b.mandate
          /\ \A c \in posted : c.mandate # b.mandate
          /\ posted' = posted \cup {b} /\ mandate' = mandate /\ tab' = tab
      BY <2>10 DEF Intrudes, FreshId
    <3>2. NoNewMandate
      BY <3>1 DEF NoNewMandate, Registered
    <3> QED  BY <1>1, <2>3, <3>1, <3>2 DEF OriginInv
  <2> HIDE DEF Same, Ended, Shows, Consumes, Signs, Posts, Intrudes, Quiet
  <2> QED  BY <1>1, <1>3, <2>5, <2>6, <2>7, <2>8, <2>9, <2>10, StepKinds
<1> QED  BY <1>2, <1>3

LEMMA ConsumeStep ==
  ASSUME IInv, [Next]_vars
  PROVE  ConsumeInv'
<1>1. TypeOK /\ OfferInv /\ SignedInv /\ OriginInv /\ ConsumeInv
  BY DEF IInv
<1>2. CASE UNCHANGED vars
  BY <1>1, <1>2 DEF vars, ConsumeInv, Registered
<1>3. CASE Next
  <2>1. Kept
    BY <1>1, <1>3, KeptStep
  <2>2. \A t \in Tab : tab[t].step # "idle" => /\ tab[t].intent # NoIntent
                                               /\ tab[t].intent.mandate \in Mandate
                                               /\ tab[t].intent.from \in Source
    BY <1>1, IntentFact DEF TypeOK
  <2> DEFINE Made(i) == /\ i.from \in Proposal /\ i.mandate \in Mandate
                        /\ Registered(i.mandate) /\ mandate[i.mandate].from = i.from
             MadeNow(i) == /\ i.from \in Proposal /\ mandate'[i.mandate] # NoRow
                           /\ mandate'[i.mandate].from = i.from
  <2>3. \A t \in Tab : tab[t].step = "consuming" => Made(tab[t].intent)
    BY <1>1, <2>2 DEF ConsumeInv
  <2>4. ASSUME NEW i, Made(i) PROVE MadeNow(i)
    BY <2>1, <2>4 DEF Kept, Registered
  <2>5. ASSUME NEW t \in Tab, Consumes(t) PROVE Made(tab[t].intent)
    <3>1. tab[t].intent.from \in Proposal /\ tab[t].intent.mandate \in Mandate
      BY <2>2, <2>5 DEF Consumes, Source
    <3>2. PICK b \in posted : b.mandate = tab[t].intent.mandate
                              /\ b.from = mandate[tab[t].intent.mandate].from
      BY <1>1, <2>5, <3>1 DEF Consumes, OriginInv
    <3>3. b.from = tab[t].intent.from
      BY <1>1, <3>2 DEF OriginInv
    <3> QED  BY <2>5, <3>1, <3>2, <3>3 DEF Consumes
  <2>6. ASSUME NEW t \in Tab, NEW step, NEW i, NEW seen, Page(t, step, i, seen),
               step = "consuming" => Made(i)
        PROVE  \A u \in Tab : tab'[u].step = "consuming" => Made(tab'[u].intent)
    BY <2>3, <2>6 DEF Page
  <2>7. ASSUME NEW t \in Tab, Same(t) \/ Ended(t) \/ Shows(t)
        PROVE  \A u \in Tab : tab'[u].step = "consuming" => Made(tab'[u].intent)
    <3> HIDE DEF Made
    <3> QED  BY <2>3, <2>6, <2>7 DEF Same, Ended, Shows
  <2>8. ASSUME NEW t \in Tab, Consumes(t)
        PROVE  \A u \in Tab : tab'[u].step = "consuming" => Made(tab'[u].intent)
    <3> HIDE DEF Made
    <3> QED  BY <2>5, <2>6, <2>8 DEF Consumes
  <2>9. ASSUME NEW t \in Tab, (\E i \in Intent : Signs(t, i)) \/ \E b \in Body : Posts(t, b)
        PROVE  \A u \in Tab : tab'[u].step = "consuming" => Made(tab'[u].intent)
    <3> HIDE DEF Made
    <3> QED  BY <2>6, <2>9 DEF Signs, Posts
  <2>10. \A u \in Tab : tab'[u].step = "consuming" => Made(tab'[u].intent)
    <3> HIDE DEF Made, Same, Ended, Shows, Consumes, Signs, Posts
    <3>1. tab' = tab => \A u \in Tab : tab'[u].step = "consuming" => Made(tab'[u].intent)
      BY <2>3
    <3> QED  BY <1>1, <1>3, <2>7, <2>8, <2>9, <3>1, NetworkFact DEF Network
  <2>11. ASSUME NEW u \in Tab, tab'[u].step = "consuming" PROVE MadeNow(tab'[u].intent)
    <3>1. PICK i : i = tab'[u].intent
      OBVIOUS
    <3>2. Made(i)
      BY <2>10, <2>11, <3>1
    <3>3. MadeNow(i)
      <4> HIDE DEF Made, MadeNow
      <4> QED  BY <2>4, <3>2
    <3> QED  BY <3>1, <3>3
  <2> QED  BY <2>11 DEF ConsumeInv, Registered
<1> QED  BY <1>2, <1>3

\* What is put down as done was done.
LEMMA DoneStep ==
  ASSUME IInv, [Next]_vars
  PROVE  DoneMeansDone'
<1>1. TypeOK /\ OfferInv /\ SignedInv /\ ConsumeInv /\ DoneMeansDone
  BY DEF IInv
<1>2. CASE UNCHANGED vars
  BY <1>1, <1>2 DEF vars, DoneMeansDone, Registered
<1>3. CASE Next
  <2>1. Kept
    BY <1>1, <1>3, KeptStep
  <2>2. \A p \in Proposal :
          (\E m \in Mandate : Registered(m) /\ mandate[m].from = p)
            => \E m \in Mandate : Registered(m)' /\ mandate'[m].from = p
    BY <2>1 DEF Kept
  <2>3. ASSUME NEW p \in Proposal, proposal'[p] # NoOffer, proposal'[p].consumed
        PROVE  \E m \in Mandate : Registered(m) /\ mandate[m].from = p
    <3>1. CASE proposal' = proposal
      BY <1>1, <2>3, <3>1 DEF DoneMeansDone
    <3>2. ASSUME NEW q \in Proposal, Propose(q)
          PROVE  \E m \in Mandate : Registered(m) /\ mandate[m].from = p
      <4>1. p # q
        BY <1>1, <2>3, <3>2, ProposeFact
      <4>2. proposal'[p] = proposal[p]
        BY <1>1, <3>2, <4>1, ProposeFact
      <4> QED  BY <1>1, <2>3, <4>2 DEF DoneMeansDone
    <3>3. ASSUME NEW t \in Tab, NEW heard \in BOOLEAN, Consume(t, heard)
          PROVE  \E m \in Mandate : Registered(m) /\ mandate[m].from = p
      <4>1. CASE p = tab[t].intent.from
        <5>1. tab[t].intent.mandate \in Mandate
          BY <1>1, <3>3, IntentFact DEF Consume, TypeOK
        <5> QED  BY <1>1, <3>3, <4>1, <5>1 DEF Consume, ConsumeInv
      <4>2. CASE p # tab[t].intent.from
        <5>1. proposal'[p] = proposal[p]
          BY <1>1, <3>3, <4>2, ConsumeFact
        <5> QED  BY <1>1, <2>3, <5>1 DEF DoneMeansDone
      <4> QED  BY <4>1, <4>2
    <3> QED  BY <1>3, <3>1, <3>2, <3>3, RestKinds
  <2>4. \A m \in agentKey : m \in Mandate /\ Registered(m)
    BY <1>1 DEF DoneMeansDone, TypeOK
  <2>5. \A m \in agentKey' : m \in Mandate /\ Registered(m)
    <3>1. ASSUME NEW t \in Tab, Answered(t) PROVE \A m \in agentKey' : m \in Mandate /\ Registered(m)
      <4>1. tab[t].intent.mandate \in Mandate
        BY <1>1, <3>1, IntentFact DEF Answered, TypeOK
      <4> QED  BY <2>4, <3>1, <4>1 DEF Answered
    <3> QED  BY <1>3, <2>4, <3>1, RestKinds
  <2>6. \A m \in agentKey' : Registered(m)'
    BY <2>1, <2>5 DEF Kept
  <2> QED  BY <2>2, <2>3, <2>6 DEF DoneMeansDone
<1> QED  BY <1>2, <1>3

LEMMA InvStep == IInv /\ [Next]_vars => IInv'
<1> SUFFICES ASSUME IInv, [Next]_vars PROVE IInv'
  OBVIOUS
<1>1. TypeOK' /\ OneMandatePerToken' /\ LedgerAgrees' /\ DoneMeansDone'
  BY TypeStep, TokenStep, LedgerStep, DoneStep
<1>2. OfferInv' /\ SignedInv' /\ OriginInv' /\ ConsumeInv'
  BY OfferStep, SignedStep, OriginStep, ConsumeStep
<1> QED  BY <1>1, <1>2 DEF IInv

THEOREM CeremonyInvariant == Spec => []IInv
BY InitInv, InvStep, PTL DEF Spec

-----------------------------------------------------------------------------
(* The theorems.                                                           *)

\* Every row of the tables, every body in the network and every page's state is one the
\* code can write (routes/mandates.ts, buyer.ts, identity-context.tsx).
THEOREM CeremonyTyped == Spec => []TypeOK
<1>1. IInv => TypeOK
  BY DEF IInv
<1> QED  BY CeremonyInvariant, <1>1, PTL

\* However late, however often and in whatever order bodies arrive, a token makes one
\* mandate, and is spent by nothing else (POST /mandates' conditional UPDATE).
THEOREM TokenSpentOnce == Spec => []OneMandatePerToken
<1>1. IInv => OneMandatePerToken
  BY DEF IInv
<1> QED  BY CeremonyInvariant, <1>1, PTL

\* Whenever the process stops, the ledger has an event for each mandate and each
\* revocation, one, and none besides (appendLedger inside the transaction).
THEOREM LedgerTellsAll == Spec => []LedgerAgrees
<1>1. IInv => LedgerAgrees
  BY DEF IInv
<1> QED  BY CeremonyInvariant, <1>1, PTL

\* A proposal is marked consumed, and an agent's key kept, only for a mandate that stands
\* (approveMandateProposal, MandateCeremony).
THEOREM DoneWasDone == Spec => []DoneMeansDone
<1>1. IInv => DoneMeansDone
  BY DEF IInv
<1> QED  BY CeremonyInvariant, <1>1, PTL

\* A mandate made of a proposal says what its agent asked for, and ends no later than the
\* proposal: for any request, whoever reloads, polls late or signs twice.
THEOREM OfferIsSigned == Spec => []SignsTheOffer
<1>1. IInv => SignsTheOffer
  <2> SUFFICES ASSUME IInv, NEW m \in Mandate, Registered(m), mandate[m].from # ByHand
               PROVE  /\ mandate[m].expires <= proposal[mandate[m].from].expires
                      /\ AsAsked(mandate[m].terms, Ask[mandate[m].from])
    BY DEF SignsTheOffer
  <2>1. PICK p : p = mandate[m].from
    OBVIOUS
  <2>2. PICK b \in posted : b.from = p /\ b.expires = mandate[m].expires
                            /\ b.terms = mandate[m].terms
    BY <2>1 DEF IInv, OriginInv
  <2>3. Of(b) /\ p \in Proposal
    BY <2>1, <2>2, BodyFact DEF IInv, SignedInv, Source
  <2>4. /\ b.expires <= proposal[p].expires
        /\ b.terms = SignedTerms(ResponseTerms(Columns(proposeMandate(PreparedArgs(Ask[p])))))
    BY <2>1, <2>2, <2>3 DEF Of, Asked
  <2>5. AsAsked(b.terms, Ask[p])
    BY <2>3, <2>4, TermsSurvive, CeremonyAssumption
  <2> QED  BY <2>1, <2>2, <2>4, <2>5
<1> QED  BY CeremonyInvariant, <1>1, PTL

\* The facilitator's handlers use the ledger as module Ledger says: they append well-formed
\* events or rebuild the table, so what Ledger_proofs shows of verification holds here.
THEOREM CeremonyKeepsLedger == Spec => KeepsLedger
<1>1. Init => L!Init
  BY DEF Init
<1>2. IInv /\ [Next]_vars => [L!Next]_(L!vars)
  <2> SUFFICES ASSUME IInv, [Next]_vars PROVE [L!Next]_(L!vars)
    OBVIOUS
  <2>1. TypeOK
    BY DEF IInv
  <2>2. UNCHANGED <<table, permitted>> => UNCHANGED L!vars
    BY DEF L!vars
  <2>3. ASSUME NEW b \in posted, Register(b) PROVE L!Next
    <3>1. [type |-> "mandate_registered", subject |-> b.mandate] \in L!Event
      BY <2>1, BodyFact DEF L!Event, EventType
    <3> QED  BY <2>3, <3>1 DEF Register, L!Next
  <2>4. ASSUME NEW m \in Mandate, NEW signer, Revoke(m, signer) PROVE L!Next
    <3>1. [type |-> "mandate_revoked", subject |-> m] \in L!Event
      BY DEF L!Event, EventType
    <3> QED  BY <2>4, <3>1 DEF Revoke, L!Next
  <2>5. Start => L!Next
    BY DEF Start, L!Next
  <2>6. UNCHANGED vars => UNCHANGED <<table, permitted>>
    BY DEF vars
  <2> QED  BY <2>2, <2>3, <2>4, <2>5, <2>6, TableKinds
<1> QED  BY CeremonyInvariant, <1>1, <1>2, PTL DEF Spec, KeepsLedger, L!Spec
=============================================================================
