----------------------------- MODULE MCErrands -----------------------------
(***************************************************************************)
(* What is done by hand, now and then, and shares no state: probing a      *)
(* build before it is promoted, provisioning a tenant, editing its         *)
(* mandate, auditing the node's ledger, reading a reputation, publishing   *)
(* and minting the agent's identity.  A behaviour is one of them, so their *)
(* states add up instead of multiplying.                                   *)
(***************************************************************************)
EXTENDS Promotion, MCProvisioning, MandateEditing, AuditPaging, Reputation, Publication

VARIABLE errand

vars == <<promVars, setupVars, editingVars, auditVars, repVars, identityVars, errand>>

Errands == {"promotion", "provisioning", "mandates", "audit", "reputation", "identity"}

Init ==
    /\ errand \in Errands
    /\ PromInit /\ SetupInit /\ AuditInit /\ RepInit /\ IdentityInit
    /\ errand # "promotion" => wasm = CHOOSE b \in Runnable : TRUE
    /\ errand # "identity" => key = CHOOSE k \in Keys : TRUE
    /\ IF errand = "mandates" THEN EditingInit
       ELSE /\ mandate = CHOOSE m \in Mandates : TRUE
            /\ request = CHOOSE r \in Requests : r.credential = None
            /\ now = 0

Promotes ==
    /\ errand = "promotion" /\ PromNext
    /\ UNCHANGED <<setupVars, editingVars, auditVars, repVars, identityVars, errand>>

Provisions ==
    /\ errand = "provisioning" /\ SetupNext
    /\ UNCHANGED <<promVars, editingVars, auditVars, repVars, identityVars, errand>>

Edits ==
    /\ errand = "mandates" /\ EditingNext
    /\ UNCHANGED <<promVars, setupVars, auditVars, repVars, identityVars, errand>>

Audits ==
    /\ errand = "audit" /\ AuditNext
    /\ UNCHANGED <<promVars, setupVars, editingVars, repVars, identityVars, errand>>

Reads ==
    /\ errand = "reputation" /\ RepNext
    /\ UNCHANGED <<promVars, setupVars, editingVars, auditVars, identityVars, errand>>

Publishes ==
    /\ errand = "identity" /\ IdentityNext
    /\ UNCHANGED <<promVars, setupVars, editingVars, auditVars, repVars, errand>>

Next == Promotes \/ Provisions \/ Edits \/ Audits \/ Reads \/ Publishes

Spec == Init /\ [][Next]_vars

-----------------------------------------------------------------------------
(* Promotion: of three builds the node can run two.  Audit: a ledger grows *)
(* longer than what is read of it.  Reputation: two clients give feedback  *)
(* and revoke it while the reader is anywhere in its loops.  Provisioning: *)
(* three setups, one of which may fail, and a prove:enclave that may fail. *)
(*                                                                         *)
(* Identity: a key is rotated to another and back, and cards of other      *)
(* origins are unsigned, badly signed, carry two signatures with a kid of  *)
(* ours, or throw verifyCard off.                                          *)

Bad(kind) == [kind |-> kind, key |-> Nothing]

MCOtherCards ==
    LET twice(k) == <<[kind |-> "did:web", key |-> k], [kind |-> "did:web", key |-> k]>>
    IN  {<<>>, <<Bad("no kid"), Bad("not JSON")>>, <<Bad("null header")>>}
        \cup {twice(CHOOSE k \in Keys : TRUE)}

\* Peers look at the card and its key, the minter at the registration: one of
\* the two at a time, the peers with two deployments.
OneReader ==
    (\E p \in Peers : peer[p].at # "idle") =>
        mints = 0 /\ minter.at = "idle" /\ deploys <= 2

-----------------------------------------------------------------------------
(* Mandates that differ in every dimension where tightening is subtle (an  *)
(* opt-in list appearing, widening to the wildcard or emptying; a          *)
(* sub-limit above or below the cap; a zero time bound), and requests that *)
(* carry or hide their issuer and payee.                                   *)

MCPayees == {"acme", ""}

MCMandates ==
    {[max_amount_cents |-> cap, allowed_kinds |-> {"rwa.buy"}, allowed_assets |-> {Wildcard},
      allowed_counterparties |-> payees, allowed_issuers |-> issuers,
      counterparty_limits |-> [p \in MCPayees |-> IF p = "acme" THEN limit ELSE None],
      expires_at_secs |-> expiry, valid_after_secs |-> 0,
      require_credential |-> bound, require_idempotency_key |-> FALSE] :
        cap \in {1, 2}, payees \in {{}, {"acme"}, {Wildcard}}, issuers \in {{}, {"kyc"}},
        limit \in {None, 2}, expiry \in {0, 1}, bound \in BOOLEAN}

Action(amount, payee, issuer) ==
    [kind |-> "rwa.buy", asset |-> "USDC", amount_cents |-> amount,
     counterparty |-> payee, issuer |-> issuer]

Bound(a, by) ==
    LET b == [issuer |-> by, subject |-> "investor", claims_digest |-> "claims",
              nonce |-> "n1", commitment |-> SplitText]
    IN  [b EXCEPT !.commitment = expected_commitment(b, a)]

Request(a, binding) == [action |-> a, credential |-> binding, idempotency_key |-> None]

\* Unbound, bound to its issuer or to another, and bound for amount 1 only.
MCRequests ==
    UNION {{Request(Action(n, p, i), None),
            Request(Action(n, p, i), Bound(Action(n, p, i), "kyc")),
            Request(Action(n, p, i), Bound(Action(n, p, i), "agent")),
            Request(Action(n, p, i), Bound(Action(1, p, i), "kyc"))} :
              n \in {1, 2}, p \in {None, "", "acme"}, i \in {None, "kyc"}}
=============================================================================
