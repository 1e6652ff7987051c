-------------------------------- MODULE X402 --------------------------------
(***************************************************************************)
(* Paying for a resource under a mandate: the client (fetchWithMandate of  *)
(* agent/src/x402.mjs, which the MCP tool fetch_paid_resource and the      *)
(* scripts call), the paywalls of this repository (one that verifies the   *)
(* authorisation and serves, as in qa-console/server.mjs and x402-demo.mjs;*)
(* one that has a facilitator verify and settle it, x402-settle.mjs), the  *)
(* facilitator and the token.                                              *)
(*                                                                         *)
(* An EIP-3009 authorisation is a record; a signature that verifies under  *)
(* a token's domain was made by the wallet over exactly those fields.  Its *)
(* nonce is the flow that signed it: 32 random bytes do not repeat.        *)
(***************************************************************************)
EXTENDS GateRules

CONSTANTS
    Flows,        \* calls of fetchWithMandate, each made once
    Paywalls,
    Requirement,  \* per paywall, what it asks for, None if it is free
    Settling,     \* the paywalls that settle before they serve
    Clients,      \* how fetchWithMandate is called
    Mandate,
    Requests,     \* paid requests on the wire, each used once
    Repeats,      \* those of them that are not the client's own
    PerCent,      \* per number of decimals, the atomic units in a cent
    Slack,        \* signPayment's 60 seconds backwards
    ValidFor,     \* signPayment's validForSecs
    MaxTime       \* bound on the clock

VARIABLES
    now,
    flow,      \* the client's calls
    request,   \* paid requests at a paywall
    up,        \* the paywalls whose process is running
    moved      \* the authorisations the token has executed, in order

vars == <<now, flow, request, up, moved>>

PAYMENT_KIND == "x402.pay"

ASSUME PerCentAssumption == \A d \in DOMAIN PerCent : d \in Nat /\ PerCent[d] \in Nat \ {0}
ASSUME TimesAssumption == Slack \in Nat /\ ValidFor \in Nat /\ MaxTime \in Nat
ASSUME RequirementAssumption ==
    \A p \in Paywalls : Requirement[p] # None => Requirement[p].amount \in Nat
ASSUME MandateAssumption ==
    /\ Mandate.max_amount_cents \in Nat
    /\ \A p \in DOMAIN Mandate.counterparty_limits :
          Mandate.counterparty_limits[p] # None => Mandate.counterparty_limits[p] \in Nat

Unsigned == None

FlowStates == {"idle", "deciding", "settling", "retrying", "waiting",
               "unpaid", "refused", "threw", "paid"}
RequestStates == {"idle", "arrived", "verified", "served", "refused", "lost"}

\* The token's own domain; without its name there is none.
eip712Domain(req) ==
    IF req.name = None THEN None ELSE <<req.name, req.network, req.asset>>

Authorisations ==
    LET asked == {Requirement[p] : p \in {q \in Paywalls : Requirement[q] # None}} IN
    [nonce : Flows, to : {req.payTo : req \in asked}, value : Nat,
     domain : {eip712Domain(req) : req \in asked}, validAfter : Int, validBefore : Int]

ASSUME UnsignedAssumption == Unsigned \notin Authorisations

NotStarted == [state |-> "idle", client |-> None, paywall |-> None, auth |-> Unsigned,
               settlement |-> None]

NotSent == [state |-> "idle", auth |-> Unsigned, paywall |-> None, flow |-> None]

Init ==
    /\ now = 0
    /\ flow = [f \in Flows |-> NotStarted]
    /\ request = [r \in Requests |-> NotSent]
    /\ up = Paywalls
    /\ moved = {}

-----------------------------------------------------------------------------
(* Pricing                                                                 *)

RoundedDown(amount, decimals) == amount \div PerCent[decimals]

\* Rounds up: the mandate sees the larger number.
amountToCents(amount, decimals) == (amount + PerCent[decimals] - 1) \div PerCent[decimals]

DecimalsOf(client, req) == IF client.decimals = None THEN req.decimals ELSE client.decimals

\* An asset whose decimals nobody declares, or fewer than two, has no price.
Priced(client, req) == DecimalsOf(client, req) \in DOMAIN PerCent

Usable(client, req) ==
    req.scheme = "exact" /\ client.network \in {None, req.network}

actionForRequirement(client, req) ==
    [kind |-> PAYMENT_KIND,
     asset |-> IF req.name = None THEN req.asset ELSE req.name,
     amount_cents |-> amountToCents(req.amount, DecimalsOf(client, req)),
     counterparty |-> req.payTo, issuer |-> None]

-----------------------------------------------------------------------------
(* fetchWithMandate                                                        *)

Goes(f, state) == flow' = [flow EXCEPT ![f].state = state]

\* The first fetch: a free resource ends the call, a challenge it cannot meet
\* or price throws, any other goes to the mandate.
Fetch(f, client, p) ==
    LET req == Requirement[p] IN
    /\ flow[f].state = "idle"
    /\ flow' = [flow EXCEPT ![f] =
                  [NotStarted EXCEPT
                     !.state = IF p \notin up THEN "threw"
                               ELSE IF req = None THEN "unpaid"
                               ELSE IF Usable(client, req) /\ Priced(client, req)
                               THEN "deciding" ELSE "threw",
                     !.client = client, !.paywall = p]]
    /\ UNCHANGED <<now, request, up, moved>>

Action(f) == actionForRequirement(flow[f].client, Requirement[flow[f].paywall])

Rejected(f) == decide(Action(f), Mandate, now) # {}

Decline(f) ==
    /\ flow[f].state = "deciding" /\ Rejected(f)
    /\ Goes(f, "refused")
    /\ UNCHANGED <<now, request, up, moved>>

\* The engine fails, there is no wallet, or the token has no domain.
Throw(f) ==
    /\ flow[f].state = "deciding"
    /\ Goes(f, "threw")
    /\ UNCHANGED <<now, request, up, moved>>

\* What signPayment signs: the requirement as offered, from a minute ago on.
Authorisation(f) ==
    LET req == Requirement[flow[f].paywall] IN
    [nonce |-> f, to |-> req.payTo, value |-> req.amount, domain |-> eip712Domain(req),
     validAfter |-> now - Slack, validBefore |-> now + ValidFor]

\* The mandate approves, and only then is anything signed.
Sign(f) ==
    /\ flow[f].state = "deciding" /\ ~Rejected(f)
    /\ flow[f].client.wallet /\ eip712Domain(Requirement[flow[f].paywall]) # None
    /\ flow' = [flow EXCEPT
          ![f].state = IF flow[f].client.settles THEN "settling" ELSE "retrying",
          ![f].auth = Authorisation(f)]
    /\ UNCHANGED <<now, request, up, moved>>

\* The token executes an authorisation inside its window, once per nonce.
Executable(auth) ==
    /\ auth \notin moved
    /\ auth.validAfter <= now /\ now < auth.validBefore

\* The facilitator broadcasts, or declines to (no funds, no gas).
Broadcasts(auth) == Executable(auth) /\ moved' = moved \cup {auth}

\* The client's own settle: whatever the facilitator answers, the retry goes on.
ClientSettles(f) ==
    /\ flow[f].state = "settling"
    /\ \/ /\ Broadcasts(flow[f].auth)
          /\ flow' = [flow EXCEPT ![f].state = "retrying", ![f].settlement = "settled"]
       \/ /\ flow' = [flow EXCEPT ![f].state = "retrying", ![f].settlement = "failed"]
          /\ UNCHANGED moved
    /\ UNCHANGED <<now, request, up>>

\* The facilitator's answer does not come in time, whether or not it broadcast.
ClientSettleTimesOut(f) ==
    /\ flow[f].state = "settling"
    /\ Goes(f, "threw")
    /\ Broadcasts(flow[f].auth) \/ UNCHANGED moved
    /\ UNCHANGED <<now, request, up>>

Sent(r, auth, p, f) ==
    request' = [request EXCEPT ![r] = [state |-> "arrived", auth |-> auth, paywall |-> p, flow |-> f]]

\* A fresh window for the retry: the authorisation is signed anew.
RetrySignedAnew(f, r) ==
    /\ flow[f].state = "retrying" /\ request[r].state = "idle" /\ r \notin Repeats
    /\ Sent(r, Authorisation(f), flow[f].paywall, f)
    /\ flow' = [flow EXCEPT ![f].state = "waiting", ![f].auth = Authorisation(f)]
    /\ UNCHANGED <<now, up, moved>>

Retry(f, r) ==
    /\ flow[f].state = "retrying" /\ request[r].state = "idle" /\ r \notin Repeats
    /\ Sent(r, flow[f].auth, flow[f].paywall, f)
    /\ Goes(f, "waiting")
    /\ UNCHANGED <<now, up, moved>>

\* A payment once sent may reach a paywall again, and not only the one it was for.
Again(s, r, p) ==
    /\ request[s].state # "idle" /\ request[r].state = "idle" /\ r \in Repeats
    /\ Sent(r, request[s].auth, p, None)
    /\ UNCHANGED <<now, flow, up, moved>>

\* A lost connection is not an error of the call.
ReturnAnswered(f, r) ==
    /\ flow[f].state = "waiting" /\ request[r].flow = f
    /\ request[r].state \in {"served", "refused"}
    /\ Goes(f, "paid")
    /\ UNCHANGED <<now, request, up, moved>>

\* The answer to the retry.  Whatever its status, the call reports paid.
Return(f, r) ==
    /\ flow[f].state = "waiting" /\ request[r].flow = f
    /\ request[r].state \in {"served", "refused", "lost"}
    /\ Goes(f, IF request[r].state = "lost" THEN "threw" ELSE "paid")
    /\ UNCHANGED <<now, request, up, moved>>

-----------------------------------------------------------------------------
(* The paywalls                                                            *)

\* Trusting the requirement the payer echoes in `accepted`.
VerifiesAsLabelled(auth, req) ==
    /\ eip712Domain(req) # None
    /\ auth.validAfter <= now /\ now < auth.validBefore

\* verifyPayment: against the requirement this paywall holds.  Under another
\* token's domain the signature recovers to a stranger.
verifyPayment(auth, req) ==
    /\ eip712Domain(req) # None /\ auth.domain = eip712Domain(req)
    /\ auth.to = req.payTo
    /\ auth.value >= req.amount
    /\ auth.validAfter <= now /\ now < auth.validBefore

Becomes(r, state) == request' = [request EXCEPT ![r].state = state]

\* A free resource looks at no payment; a verifying paywall answers at once;
\* a settling one asks its facilitator, which also sees whether the
\* authorisation has been executed.
Verify(r) ==
    LET p == request[r].paywall
        auth == request[r].auth
        ok == Requirement[p] = None \/ verifyPayment(auth, Requirement[p])
    IN  /\ request[r].state = "arrived" /\ p \in up
        /\ Becomes(r, IF ~ok \/ (p \in Settling /\ auth \in moved) THEN "refused"
                      ELSE IF p \in Settling THEN "verified" ELSE "served")
        /\ UNCHANGED <<now, flow, up, moved>>

SettleUnchecked(r) ==
    /\ request[r].state = "verified" /\ request[r].paywall \in up
    /\ Broadcasts(request[r].auth) \/ UNCHANGED moved
    /\ Becomes(r, "served")
    /\ UNCHANGED <<now, flow, up>>

\* It serves when the facilitator reports success, else it answers 402.
Settle(r) ==
    /\ request[r].state = "verified" /\ request[r].paywall \in up
    /\ \/ Broadcasts(request[r].auth) /\ Becomes(r, "served")
       \/ UNCHANGED moved /\ Becomes(r, "refused")
    /\ UNCHANGED <<now, flow, up>>

\* The facilitator does not answer in time: nothing catches that, and the
\* process ends with every request it had.  It may have broadcast.
PaywallDies(r) ==
    LET p == request[r].paywall IN
    /\ p \in Settling /\ p \in up
    /\ request[r].state \in {"arrived", "verified"}
    /\ (request[r].state = "verified" /\ Broadcasts(request[r].auth)) \/ UNCHANGED moved
    /\ up' = up \ {p}
    /\ UNCHANGED <<now, flow, request>>

\* A connection to a process that is gone fails.
Lose(r) ==
    /\ request[r].state \in {"arrived", "verified"} /\ request[r].paywall \notin up
    /\ Becomes(r, "lost")
    /\ UNCHANGED <<now, flow, up, moved>>

Tick == now < MaxTime /\ now' = now + 1 /\ UNCHANGED <<flow, request, up, moved>>

ClientStep(f) ==
    \/ Decline(f) \/ Throw(f) \/ Sign(f) \/ ClientSettles(f) \/ ClientSettleTimesOut(f)
    \/ \E r \in Requests : Retry(f, r) \/ Return(f, r)

PaywallStep(r) == Verify(r) \/ Settle(r) \/ PaywallDies(r) \/ Lose(r)

Next ==
    \/ \E f \in Flows :
          ClientStep(f) \/ \E c \in Clients, p \in Paywalls : Fetch(f, c, p)
    \/ \E r \in Requests : PaywallStep(r) \/ \E s \in Requests, p \in Paywalls : Again(s, r, p)
    \/ Tick

Spec == Init /\ [][Next]_vars

\* Every wait in the code has a timeout or is an HTTP exchange that ends.
Fairness ==
    /\ \A f \in Flows : WF_vars(ClientStep(f))
    /\ \A r \in Requests : WF_vars(PaywallStep(r))

FairSpec == Spec /\ Fairness

-----------------------------------------------------------------------------
(* Properties                                                              *)

Signed == {flow[f].auth : f \in {g \in Flows : flow[g].auth # Unsigned}}

TypeOK ==
    /\ now \in 0..MaxTime
    /\ \A f \in Flows : flow[f].state \in FlowStates
    /\ \A r \in Requests :
          /\ request[r].state \in RequestStates
          /\ request[r].state # "idle" => request[r].auth \in Signed
    /\ up \subseteq Paywalls
    /\ moved \subseteq Signed

\* Whatever is signed, by any call, is for a payee the mandate lists and for
\* no more atomic units than its cap is worth, rounding included.
SignedWithinMandate ==
    \A f \in Flows : flow[f].auth # Unsigned =>
        LET auth == flow[f].auth
            d == DecimalsOf(flow[f].client, Requirement[flow[f].paywall])
        IN  /\ auth.value <= Mandate.max_amount_cents * PerCent[d]
            /\ list_allows(Mandate.allowed_kinds, PAYMENT_KIND)
            /\ opt_in_allows(Mandate.allowed_counterparties, auth.to)

\* A call that ends unpaid or refused has signed nothing, so that nothing it
\* did can move money afterwards.
UnpaidSignedNothing ==
    \A f \in Flows : flow[f].state \in {"unpaid", "refused"} => flow[f].auth = Unsigned

\* A flow moves money at most once, though its client and its paywall may both
\* settle, and settle again.
MoneyMovesOnce == \A a, b \in moved : a.nonce = b.nonce => a = b

\* No paywall serves for an authorisation that pays someone else, pays less or
\* is for another token: what counts is the requirement it holds.
ServedIsCovered ==
    \A r \in Requests :
        LET p == request[r].paywall IN
        (request[r].state = "served" /\ Requirement[p] # None) =>
            /\ request[r].auth.to = Requirement[p].payTo
            /\ request[r].auth.value >= Requirement[p].amount
            /\ request[r].auth.domain = eip712Domain(Requirement[p])

\* A settling paywall serves only what the token has executed, and a payment
\* that reaches it any number of times, at any moment, once.
SettledServesOnce ==
    \A r \in Requests :
        (request[r].state = "served" /\ Requirement[request[r].paywall] # None
         /\ request[r].paywall \in Settling) =>
            /\ request[r].auth \in moved
            /\ \A s \in Requests \ {r} :
                  (request[s].state = "served" /\ request[s].auth = request[r].auth
                   /\ request[s].paywall \in Settling)
                     => Requirement[request[s].paywall] = None

\* Every call comes back or throws.
FlowsEnd ==
    \A f \in Flows :
        (flow[f].state # "idle") ~> (flow[f].state \in {"unpaid", "refused", "threw", "paid"})
=============================================================================
