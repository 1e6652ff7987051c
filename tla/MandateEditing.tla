--------------------------- MODULE MandateEditing ---------------------------
(***************************************************************************)
(* A tenant admin seeds one mandate after another (seedEntry replaces the  *)
(* whole entry), callers present requests, the cluster clock moves: which  *)
(* requests does the gate approve along the way?  The decision itself is   *)
(* GateRules; GateContract shows what it lets out.                         *)
(***************************************************************************)
EXTENDS GateRules

CONSTANTS
    Mandates,   \* the mandates an admin may seed
    Requests,   \* the requests presented
    MaxTime     \* bound on the cluster clock

VARIABLES
    mandate,    \* the mandate in KV
    request,    \* the request the gate is judging
    now         \* cluster timestamp

editingVars == <<mandate, request, now>>

\* What the proofs need of the values; None is no number and no name.
ASSUME MandatesAssumption ==
    \A m \in Mandates :
        /\ m.max_amount_cents \in Nat
        /\ m.expires_at_secs \in Nat
        /\ m.valid_after_secs \in Nat
        /\ m.require_credential \in BOOLEAN
        /\ m.require_idempotency_key \in BOOLEAN
        /\ \A p \in DOMAIN m.counterparty_limits :
              m.counterparty_limits[p] # None => m.counterparty_limits[p] \in Nat
ASSUME RequestsAssumption ==
    \A r \in Requests :
        /\ r.action.amount_cents \in Nat
        /\ r.action.counterparty # None =>
              \A m \in Mandates : r.action.counterparty \in DOMAIN m.counterparty_limits
ASSUME MaxTimeAssumption == MaxTime \in Nat

-----------------------------------------------------------------------------
EditingInit ==
    /\ mandate \in Mandates
    /\ request \in Requests
    /\ now = 0

Seed(m) ==
    /\ mandate' = m
    /\ UNCHANGED <<request, now>>

Present(r) ==
    /\ request' = r
    /\ UNCHANGED <<mandate, now>>

Tick ==
    /\ now < MaxTime
    /\ now' = now + 1
    /\ UNCHANGED <<mandate, request>>

EditingNext ==
    \/ \E m \in Mandates : Seed(m)
    \/ \E r \in Requests : Present(r)
    \/ Tick

EditingSpec == EditingInit /\ [][EditingNext]_editingVars

-----------------------------------------------------------------------------
Approved == Approves(request, mandate, now)

\* Seeding a mandate that is tighter in every dimension never lets a request
\* through that the old one stopped: no dimension makes up for another.
\* Emptying an opt-in list, zeroing a time bound or dropping a sub-limit is
\* not tightening, whatever it looks like in the JSON.
TighteningNeverApproves ==
    [][(Tightens(mandate', mandate) /\ Approved') => Approves(request', mandate, now')]_editingVars

\* Under a mandate that requires a credential and names issuers, an approval
\* names no issuer but the one inside the binding, and the mandate trusts it:
\* the caller cannot pass by leaving its issuer out or naming a better one.
ApprovedIssuerIsBoundAndTrusted ==
    (Approved /\ mandate.require_credential /\ mandate.allowed_issuers # {}) =>
        /\ request.credential # None
        /\ mandate.allowed_issuers \cap {Wildcard, request.credential.issuer} # {}

\* A binding carries one approval's terms: no two requests that differ in
\* kind, asset, amount or payee are ever approved on the same binding, except
\* that an absent payee and an empty one are the same terms.
BindingFixesTheTerms ==
    (request.credential # None /\ Approved) =>
        \A r \in Requests :
            (r.credential = request.credential /\ Approves(r, mandate, now)) =>
                /\ r.action.kind = request.action.kind
                /\ r.action.asset = request.action.asset
                /\ r.action.amount_cents = request.action.amount_cents
                /\ \/ r.action.counterparty = request.action.counterparty
                   \/ {r.action.counterparty, request.action.counterparty} = {None, ""}
=============================================================================
