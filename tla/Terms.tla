-------------------------------- MODULE Terms --------------------------------
(***************************************************************************)
(* The terms of a budget on their way from a tool call to a signature:     *)
(* prepare_mandate turns rupees into paise, the facilitator stages them in *)
(* columns, a response gives them back, and the page signs them.  Every    *)
(* hop names every field again, and a policy the request does not set must *)
(* be absent from what is signed.  Pure operators; module Ceremony uses    *)
(* them on its way through the same hops.                                  *)
(*   request: merchant, ceiling, threshold, limits, line, skus, in tenths  *)
(*            of a paisa; the last four may be Undefined                   *)
(*   terms:   the same in paise, with merchants once they are signed       *)
(***************************************************************************)
EXTENDS Integers

CONSTANTS
  Undefined,   \* an absent key, undefined in the program
  Null         \* NULL in a column

ASSUME TermsAssumption == Undefined # Null

Optional == {"limits", "line", "skus"}

\* A tool call as its types allow it, Undefined and Null apart from every value.
IsRequest(request) ==
  /\ request.ceiling \in Int
  /\ request.threshold \in Int \cup {Undefined} /\ request.line \in Int \cup {Undefined}
  /\ request.limits # Undefined =>
       LET Limits == [DOMAIN request.limits -> Int]
       IN request.limits \in Limits /\ Undefined \notin Limits /\ Null \notin Limits
  /\ Null \notin {request.merchant, request.skus} /\ Undefined # request.merchant
  /\ Undefined \notin Int /\ Null \notin Int

\* The input schema of prepare_mandate.
PrepareAccepts(request) ==
  /\ request.ceiling > 0
  /\ request.threshold # Undefined => request.threshold >= 0
  /\ request.line # Undefined => request.line > 0
  /\ request.limits # Undefined => \A m \in DOMAIN request.limits : request.limits[m] > 0
  /\ request.skus # {}

\* Math.round(rupees * 100): the nearest paisa, halves up.
rupeesToPaise(tenths) == (tenths + 5) \div 10

\* prepare_mandate: what it hands to proposeMandate.
PreparedArgs(request) ==
  LET paise(tenths) == IF tenths = Undefined THEN Undefined ELSE rupeesToPaise(tenths)
      threshold == IF request.threshold = Undefined THEN request.ceiling ELSE request.threshold
  IN [merchant  |-> request.merchant,
      ceiling   |-> paise(request.ceiling),
      threshold |-> paise(threshold),
      limits    |-> IF request.limits = Undefined THEN Undefined
                    ELSE [m \in DOMAIN request.limits |-> rupeesToPaise(request.limits[m])],
      line      |-> paise(request.line),
      skus      |-> request.skus]

\* Mutant of Present: a policy is carried when it is truthy.
PresentTruthy(args, f) == args[f] # Undefined /\ (f = "line" => args[f] # 0)
Present(args, f) == args[f] # Undefined

\* proposeMandate: the body of POST /mandates/propose names the policies that are present.
proposeMandate(args) ==
  [f \in {g \in DOMAIN args : g \in Optional => Present(args, g)} |-> args[f]]

\* mandateProposeBodySchema: rounding leaves no paisa of a smaller ceiling, which is refused.
BodyAccepts(body) ==
  /\ body.ceiling > 0 /\ body.threshold >= 0
  /\ "line" \in DOMAIN body => body.line >= 0
  /\ "limits" \in DOMAIN body => \A m \in DOMAIN body.limits : body.limits[m] >= 0
  /\ "skus" \in DOMAIN body => body.skus # {}

\* insertMandateProposal: an absent policy is a NULL column.
Columns(body) ==
  [f \in {"merchant", "ceiling", "threshold"} \cup Optional |->
     IF f \in DOMAIN body THEN body[f] ELSE Null]

\* toResponseRow, with parsePerMerchantCeiling and parseAllowedSkus: a NULL column is an
\* absent key.
ResponseTerms(columns) == [f \in {g \in DOMAIN columns : columns[g] # Null} |-> columns[f]]

\* ceremonyInputFromProposal: a proposal is for one merchant, and its terms pass as they are.
SignedTerms(terms) ==
  [f \in (DOMAIN terms \ {"merchant"}) \cup {"merchants"} |->
     IF f = "merchants" THEN {terms.merchant} ELSE terms[f]]

\* The ceremony's form: no policy can be set in it.
FormTerms(form) ==
  [merchants |-> form.merchants, ceiling |-> rupeesToPaise(form.ceiling),
   threshold |-> rupeesToPaise(form.threshold)]

\* intentMandateSchema drops every key it does not name.
Ingested(signed) ==
  [f \in DOMAIN signed \cap {"merchants", "ceiling", "threshold", "limits", "line", "skus"} |->
     signed[f]]

\* The page's and the tool's word for a budget without approvals.
handsFree(terms) == terms.threshold >= terms.ceiling

-----------------------------------------------------------------------------
Nearest(paise, tenths) == 10 * paise - tenths \in -5 .. 5

\* What is signed is what was asked for: the amounts to the nearest paisa, a threshold that
\* was not given never in the way of a purchase, and each policy if and only if it was set.
AsAsked(signed, request) ==
  /\ signed.merchants = {request.merchant}
  /\ Nearest(signed.ceiling, request.ceiling)
  /\ IF request.threshold = Undefined THEN handsFree(signed)
     ELSE Nearest(signed.threshold, request.threshold)
  /\ \A f \in Optional : f \in DOMAIN signed <=> request[f] # Undefined
  /\ "line" \in DOMAIN signed => Nearest(signed.line, request.line)
  /\ "limits" \in DOMAIN signed =>
       /\ DOMAIN signed.limits = DOMAIN request.limits
       /\ \A m \in DOMAIN request.limits : Nearest(signed.limits[m], request.limits[m])
  /\ "skus" \in DOMAIN signed => signed.skus = request.skus
=============================================================================
