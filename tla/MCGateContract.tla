--------------------------- MODULE MCGateContract ---------------------------
(***************************************************************************)
(* The values TLC checks GateContract on: the mandates an operator moves   *)
(* between, orders that fit one, some or none, and for each hard case      *)
(* (a retry under the same key, a binding over another action, an expired  *)
(* mandate, a missing secret) the request that meets it.                   *)
(***************************************************************************)
EXTENDS GateContract, TLC

CONSTANTS i1, i2, i3, k1, k2

MCNames == {"rwa.buy", "swap", "USDC", "acme", "kyc", "agent", "investor", "claims", "n1", Wildcard}

buy   == [kind |-> "rwa.buy", asset |-> "USDC", amount_cents |-> 1,
          counterparty |-> "acme", issuer |-> "kyc"]
large == [buy EXCEPT !.amount_cents = 2]

Bound(a, issuer) ==
    LET b == [issuer |-> issuer, subject |-> "investor", claims_digest |-> "claims",
              nonce |-> "n1", commitment |-> SplitText]
    IN  [b EXCEPT !.commitment = expected_commitment(b, a)]

Execute(a, binding, key) ==
    [fn |-> "execute_action", action |-> a, credential |-> binding,
     idempotency_key |-> key]

Key(k, f) == [text |-> k, form |-> f]

\* The two mandates: the usual one, which lists payees, limits one of them and
\* trusts one issuer without asking for its credential, and one seeded in its
\* place that asks for the credential and not for a key, and only for a while.
Usual ==
    [max_amount_cents |-> 2, allowed_kinds |-> {"rwa.buy"}, allowed_assets |-> {"USDC"},
     allowed_counterparties |-> {"acme", "investor"}, allowed_issuers |-> {"kyc"},
     counterparty_limits |-> [n \in MCNames |-> IF n = "acme" THEN 1 ELSE None],
     expires_at_secs |-> 0, valid_after_secs |-> 0, credential_key |-> "broker",
     require_credential |-> FALSE, require_idempotency_key |-> TRUE]
Strict ==
    [Usual EXCEPT !.max_amount_cents = 1, !.allowed_assets = {Wildcard},
                  !.allowed_counterparties = {}, !.valid_after_secs = 1,
                  !.expires_at_secs = 1, !.credential_key = "",
                  !.require_credential = TRUE, !.require_idempotency_key = FALSE]
MCMandates == {Usual, Strict}

\* An order, and its retry under the same (padded) key.
ExecuteRequests ==
    {Execute(buy, Bound(buy, "kyc"), Key(k1, "plain")),
     Execute(buy, Bound(buy, "kyc"), Key(k1, "padded"))}

\* The same order with other terms, each outside one dimension of a mandate.
OtherTerms ==
    {large, [buy EXCEPT !.counterparty = "investor", !.amount_cents = 3],
     [buy EXCEPT !.kind = "swap"], [buy EXCEPT !.asset = "swap"],
     [buy EXCEPT !.counterparty = "agent"], [buy EXCEPT !.counterparty = None],
     [buy EXCEPT !.issuer = "agent"], [buy EXCEPT !.issuer = None]}

\* Over another action, by an issuer nobody trusts, without a nonce, unreadable.
OtherBindings ==
    {Bound(large, "kyc"), Bound(buy, "agent"),
     [Bound(buy, "kyc") EXCEPT !.nonce = "",
                               !.commitment = expected_commitment([Bound(buy, "kyc") EXCEPT !.nonce = ""], buy)],
     [Bound(buy, "kyc") EXCEPT !.commitment = SplitText]}

\* One request per way a request can differ in what the rules decide.
MixedRequests ==
    {Execute(buy, Bound(buy, "kyc"), Key(k1, "plain")),
     Execute(buy, Bound(buy, "kyc"), None),
     Execute(buy, None, Key(k1, "bad_charset")),
     Execute(buy, None, Key(k1, "blank")),
     [fn |-> "evaluate", action |-> large, mandate |-> Usual],
     [fn |-> "evaluate", action |-> large, mandate |-> None],
     [fn |-> "dispatch_action"]}
    \cup {Execute(a, None, Key(k2, "plain")) : a \in OtherTerms}
    \cup {Execute(buy, b, Key(k1, "plain")) : b \in OtherBindings}

Spending(a, limit) == [fn |-> "spend", action |-> a, daily_limit_cents |-> limit]

\* Two limits on the same counter, and amounts that reach and pass them.
SpendRequests == {Spending(buy, 2), Spending(large, 3), Spending(large, 4)}

MCCredentials == {"broker"}

\* Orders and spends share no entry, so one kind at a time: orders at one
\* instant, spends (which read neither mandate nor secret) over two days.
LedgerRequests == ExecuteRequests \cup SpendRequests

OneKind ==
    \/ now = 0 /\ \A i \in Invocations : inv[i].req # None => Is(i, "execute_action")
    \/ /\ mandate = None /\ secrets = {}
       /\ \A i \in Invocations : inv[i].req # None => Is(i, "spend")

Symmetry == Permutations(Invocations)
=============================================================================
