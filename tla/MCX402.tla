------------------------------- MODULE MCX402 -------------------------------
(***************************************************************************)
(* A settling and a verifying paywall of one payee and token, one of       *)
(* another payee, and prices on both sides of a cent.                      *)
(***************************************************************************)
EXTENDS X402

Req(amount, decimals, payTo, name) ==
    [scheme |-> "exact", network |-> "base", amount |-> amount, asset |-> "0xusdc",
     payTo |-> payTo, name |-> name, decimals |-> decimals]

\* 10 units to the cent: prices of a whole number of cents and of one unit more.
MCRequirement ==
    [p \in Paywalls |->
        CASE p = "settling" -> Req(20, 3, "meridian", "USDC")
          [] p = "verifying" -> Req(11, 3, "meridian", "USDC")
          [] p = "stranger" -> Req(1, 3, "stranger", "USDC")
          [] p = "undeclared" -> Req(10, None, "meridian", "USDC")
          [] p = "unnamed" -> Req(10, 3, "meridian", None)
          [] p = "dear" -> Req(21, 3, "meridian", "USDC")
          [] p = "free" -> None]

Client(wallet, settles, decimals, network) ==
    [wallet |-> wallet, settles |-> settles, decimals |-> decimals, network |-> network]

MCClients ==
    {Client(TRUE, s, None, None) : s \in BOOLEAN}
    \cup {Client(FALSE, FALSE, 3, "base"), Client(TRUE, FALSE, None, "polygon")}

\* Two cents: the settling paywall's price, and less than the dear one's.
MCMandate ==
    [max_amount_cents |-> 2, allowed_kinds |-> {PAYMENT_KIND}, allowed_assets |-> {"USDC"},
     allowed_counterparties |-> {"meridian"}, allowed_issuers |-> {},
     counterparty_limits |-> [p \in {"meridian", "stranger"} |-> None],
     expires_at_secs |-> 0, valid_after_secs |-> 0,
     require_credential |-> FALSE, require_idempotency_key |-> FALSE]

MCPerCent == [d \in 2..3 |-> 10 ^ (d - 2)]

\* Two calls at a time meet where they matter to each other: with clients that
\* can pay, one settling, at paywalls that would have them, before the windows close.
Meeting ==
    (\A f \in Flows : flow[f].state # "idle") =>
        /\ now <= 1
        /\ \A f \in Flows :
              /\ flow[f].paywall \in {"settling", "verifying"}
              /\ flow[f].client = Client(TRUE, f = "f1", None, None)

\* Calls, and requests, are alike: the first goes first; a
\* paywall that has no use for a payment has none for a repeated one.
InOrder ==
    /\ flow["f1"].state = "idle" => flow["f2"].state = "idle"
    /\ \A r \in Requests : request[r].flow \in {None, r}
    /\ request["again"].paywall \in {None, "settling", "verifying", "stranger"}

Focus == Meeting /\ InOrder
=============================================================================
