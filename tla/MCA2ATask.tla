------------------------------ MODULE MCA2ATask ------------------------------
(***************************************************************************)
(* Peers that send every kind of message, to a server whose engine answers *)
(* and fails.  The calls leave the engine open or name one; one asks about *)
(* an instant after the expiry with an empty key, and one mandate demands  *)
(* a credential.                                                           *)
(***************************************************************************)
EXTENDS A2ATask

MCMandate(expiry, demands) ==
    [max_amount_cents |-> 1, allowed_kinds |-> {"rwa.buy"}, allowed_assets |-> {Wildcard},
     allowed_counterparties |-> {}, allowed_issuers |-> {},
     counterparty_limits |-> [p \in {"acme"} |-> None],
     expires_at_secs |-> expiry, valid_after_secs |-> 0,
     require_credential |-> demands, require_idempotency_key |-> FALSE]

MCArg(engine, amount, mandate, at, credential, ok) ==
    [engine |-> engine, mandate |-> mandate, now_secs |-> at, credential |-> credential,
     action |-> [kind |-> "rwa.buy", asset |-> "USDC", amount_cents |-> amount,
                 counterparty |-> "acme", issuer |-> None],
     idempotency_key |-> None, wellformed |-> ok]

Torn == [issuer |-> "kyc", subject |-> "s", claims_digest |-> "d", nonce |-> "n",
         commitment |-> SplitText]

Plain == MCArg("auto", 1, MCMandate(1, FALSE), None, None, TRUE)

MCArgs ==
    {Plain,
     [MCArg("component", 1, MCMandate(1, FALSE), 2, None, TRUE) EXCEPT
        !.idempotency_key = EmptyKey],
     MCArg("auto", 2, MCMandate(0, FALSE), None, None, TRUE),
     MCArg("gate_cli", 1, MCMandate(0, TRUE), None, Torn, TRUE),
     MCArg("component", 1, MCMandate(0, TRUE), None, None, TRUE),
     MCArg("component", 1, MCMandate(0, FALSE), None, Torn, TRUE),
     MCArg("auto", 1, MCMandate(1, FALSE), None, None, FALSE)}

MCMessages ==
    {[skill |-> s, valid |-> TRUE, args |-> Plain] :
        s \in {"bind-credential", "unreadable"}}
    \cup {[skill |-> "evaluate-gated-action", valid |-> TRUE, args |-> a] : a \in MCArgs}
    \cup {[skill |-> "evaluate-gated-action", valid |-> FALSE, args |-> Plain]}
=============================================================================
