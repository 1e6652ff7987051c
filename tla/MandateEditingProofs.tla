------------------------ MODULE MandateEditingProofs ------------------------
(***************************************************************************)
(* What MandateEditing promises, for every set of mandates and requests.   *)
(*                                                                         *)
(* The action property needs no strengthening beyond the type of the       *)
(* state: it follows from a fact about two mandates and one request,       *)
(* proved gate by gate.                                                    *)
(***************************************************************************)
EXTENDS MandateEditing, TLAPS

TypeOK ==
    /\ mandate \in Mandates
    /\ request \in Requests
    /\ now \in 0..MaxTime

\* The three variables keep their types: a seeded mandate is one of Mandates,
\* a presented request one of Requests, and the clock stays within its bound.
THEOREM TypeCorrect == EditingSpec => []TypeOK
<1>1. EditingInit => TypeOK
  BY MaxTimeAssumption DEF EditingInit, TypeOK
<1>2. TypeOK /\ [EditingNext]_editingVars => TypeOK'
  BY MaxTimeAssumption DEF TypeOK, EditingNext, Seed, Present, Tick, editingVars
<1>3. QED
  BY <1>1, <1>2, PTL DEF EditingSpec

-----------------------------------------------------------------------------
\* list_allows is monotone: a list that TighterList orders below another
\* permits nothing the other does not.
LEMMA TighterListAllowsLess ==
    ASSUME NEW l1, NEW l2, NEW value,
           TighterList(l2, l1), list_allows(l2, value)
    PROVE  list_allows(l1, value)
  BY DEF TighterList, list_allows

\* So is opt_in_allows, because an opt-in list may not be emptied.
LEMMA TighterOptInAllowsLess ==
    ASSUME NEW l1, NEW l2, NEW value,
           TighterOptIn(l2, l1), opt_in_allows(l2, value)
    PROVE  opt_in_allows(l1, value)
  BY TighterListAllowsLess DEF TighterOptIn, opt_in_allows

\* Whatever gate of the looser mandate a request fails, it fails the same one
\* or a gate of the tighter mandate.
LEMMA TighterDecidesLess ==
    ASSUME NEW m1 \in Mandates, NEW m2 \in Mandates, NEW r \in Requests, NEW t \in Nat,
           Tightens(m2, m1), decide(r.action, m2, t) = {}
    PROVE  decide(r.action, m1, t) = {}
<1> DEFINE a == r.action
<1>0. \A gate \in Gates : ~Fails(gate, a, m2, t)
  BY DEF decide
<1>1. SUFFICES ASSUME NEW gate \in Gates PROVE ~Fails(gate, a, m1, t)
  BY DEF decide
<1>2. CASE gate = "not_active"
  BY <1>0, <1>2, MandatesAssumption DEF Fails, Gates, Tightens
<1>3. CASE gate = "expired"
  BY <1>0, <1>3, MandatesAssumption DEF Fails, Gates, Tightens
<1>4. CASE gate = "kind"
  BY <1>0, <1>4, TighterListAllowsLess DEF Fails, Gates, Tightens
<1>5. CASE gate = "asset"
  BY <1>0, <1>5, TighterListAllowsLess DEF Fails, Gates, Tightens
<1>6. CASE gate = "counterparty"
  BY <1>0, <1>6, TighterOptInAllowsLess DEF Fails, Gates, Tightens
<1>7. CASE gate = "issuer"
  BY <1>0, <1>7, TighterOptInAllowsLess DEF Fails, Gates, Tightens
<1>8. CASE gate = "amount"
  BY <1>0, <1>8, MandatesAssumption, RequestsAssumption DEF Fails, Gates, Tightens, OverCap
<1>9. CASE gate = "sub_limit"
  BY <1>0, <1>9, MandatesAssumption, RequestsAssumption
     DEF Fails, Gates, Tightens, OverSubLimit
<1> QED
  BY <1>2, <1>3, <1>4, <1>5, <1>6, <1>7, <1>8, <1>9 DEF Gates

\* A tighter mandate approves no request the looser one does not: the binding
\* and the idempotency key included.
LEMMA TighterApprovesLess ==
    ASSUME NEW m1 \in Mandates, NEW m2 \in Mandates, NEW r \in Requests, NEW t \in Nat,
           Tightens(m2, m1), Approves(r, m2, t)
    PROVE  Approves(r, m1, t)
<1>1. decide(r.action, m1, t) = {}
  BY TighterDecidesLess DEF Approves
<1>2. BindingHolds(r.credential, r.action, m1.require_credential)
  BY MandatesAssumption DEF Approves, BindingHolds, Tightens
<1>3. IdempotencyHolds(r.idempotency_key, m1.require_idempotency_key)
  BY MandatesAssumption DEF Approves, IdempotencyHolds, Tightens
<1> QED
  BY <1>1, <1>2, <1>3 DEF Approves

\* Along every sequence of seeds, requests and ticks, seeding a tighter
\* mandate never lets through what the old one stopped.
THEOREM TighteningIsSafe == EditingSpec => TighteningNeverApproves
<1>1. ASSUME TypeOK, TypeOK', Tightens(mandate', mandate), Approved'
      PROVE  Approves(request', mandate, now')
  <2>1. now' \in Nat
    BY <1>1, MaxTimeAssumption DEF TypeOK
  <2> QED
    BY <1>1, <2>1, TighterApprovesLess DEF TypeOK, Approved
<1>2. TypeOK /\ TypeOK' /\ [EditingNext]_editingVars
        => [(Tightens(mandate', mandate) /\ Approved') => Approves(request', mandate, now')]_editingVars
  BY <1>1
<1>3. QED
  BY <1>2, TypeCorrect, PTL DEF EditingSpec, TighteningNeverApproves

-----------------------------------------------------------------------------
\* Under a mandate that requires a credential and names the issuers it trusts,
\* nothing is approved on an unbound or an untrusted issuer.
THEOREM ApprovedIssuerIsTrusted == EditingSpec => []ApprovedIssuerIsBoundAndTrusted
<1>1. TypeOK => ApprovedIssuerIsBoundAndTrusted
  <2> SUFFICES ASSUME TypeOK, Approved, mandate.require_credential,
                      mandate.allowed_issuers # {}
               PROVE  /\ request.credential # None
                      /\ mandate.allowed_issuers \cap {Wildcard, request.credential.issuer} # {}
    BY DEF ApprovedIssuerIsBoundAndTrusted
  <2>1. BindingHolds(request.credential, request.action, mandate.require_credential)
    BY DEF Approved, Approves
  <2>2. request.credential # None /\ request.action.issuer \in {None, request.credential.issuer}
    BY <2>1, MandatesAssumption DEF BindingHolds, TypeOK
  <2>3. ~Fails("issuer", request.action, mandate, now)
    BY DEF Approved, Approves, decide, Gates
  <2>4. opt_in_allows(mandate.allowed_issuers, request.action.issuer)
    BY <2>3 DEF Fails
  <2> QED
    BY <2>2, <2>4 DEF opt_in_allows, list_allows
<1>2. QED
  BY <1>1, TypeCorrect, PTL

\* Two requests approved on one binding carry the same terms: the commitment
\* covers the length-prefixed fields of the action, and the enclave recomputes
\* it over the action it judges.
THEOREM BindingFixesTerms == EditingSpec => []BindingFixesTheTerms
<1> DEFINE SameParty(a1, a2) ==
              \/ a1.counterparty = a2.counterparty
              \/ {a1.counterparty, a2.counterparty} = {None, ""}
<1>1. ASSUME NEW r, NEW m, NEW t, Approves(r, m, t), r.credential # None
      PROVE  r.credential.commitment = expected_commitment(r.credential, r.action)
  BY <1>1 DEF Approves, BindingHolds
<1>2. ASSUME NEW b, NEW a1, NEW a2,
             expected_commitment(b, a1) = expected_commitment(b, a2)
      PROVE  action_digest(a1) = action_digest(a2)
  BY <1>2 DEF expected_commitment
<1>3. ASSUME NEW a1, NEW a2, action_digest(a1) = action_digest(a2)
      PROVE  /\ a1.kind = a2.kind
             /\ a1.asset = a2.asset
             /\ a1.amount_cents = a2.amount_cents
             /\ SameParty(a1, a2)
  BY <1>3 DEF action_digest
<1> HIDE DEF SameParty
<1>4. BindingFixesTheTerms
  <2> SUFFICES ASSUME NEW r \in Requests, Approved, request.credential # None,
                      r.credential = request.credential, Approves(r, mandate, now)
               PROVE  /\ r.action.kind = request.action.kind
                      /\ r.action.asset = request.action.asset
                      /\ r.action.amount_cents = request.action.amount_cents
                      /\ \/ r.action.counterparty = request.action.counterparty
                         \/ {r.action.counterparty, request.action.counterparty} = {None, ""}
    BY DEF BindingFixesTheTerms
  <2>1. request.credential.commitment = expected_commitment(request.credential, request.action)
    BY <1>1 DEF Approved
  <2>2. r.credential.commitment = expected_commitment(r.credential, r.action)
    BY <1>1
  <2>3. action_digest(r.action) = action_digest(request.action)
    BY <1>2, <2>1, <2>2
  <2>4. /\ r.action.kind = request.action.kind
        /\ r.action.asset = request.action.asset
        /\ r.action.amount_cents = request.action.amount_cents
        /\ SameParty(r.action, request.action)
    BY <1>3, <2>3
  <2> QED
    BY <2>4 DEF SameParty
<1>5. QED
  BY <1>4, PTL
=============================================================================
