----------------------------- MODULE X402Proofs -----------------------------
(***************************************************************************)
(* What a payment under a mandate can cost, for any number of calls,       *)
(* paywalls and requests, any mandate, prices and decimals.                *)
(*                                                                         *)
(* Three strengthenings.  Own: an authorisation is signed in one step, by  *)
(* the flow its nonce names, for what that flow's mandate check saw.       *)
(* Carried: whatever is on the wire or executed was signed by some flow.   *)
(* PaidApart: requests a settling paywall served hold authorisations the   *)
(* token has executed, and no two of them the same.                        *)
(***************************************************************************)
EXTENDS X402, TLAPS

-----------------------------------------------------------------------------
(* Prices                                                                  *)

\* Rounding up loses nothing: an amount that is worth at most c cents after
\* rounding is at most c cents before.
LEMMA CeilingBounds ==
    ASSUME NEW a \in Nat, NEW k \in Nat \ {0}, NEW c \in Nat,
           (a + k - 1) \div k <= c
    PROVE  a <= c * k
<1> DEFINE n == a + k - 1
           q == n \div k
           m == n % k
<1>1. n \in Nat /\ k > 0
  OBVIOUS
<1>2. q \in Int /\ m \in 0..k-1 /\ n = k * q + m
  BY <1>1
<1>3. n = a + k - 1 /\ q <= c
  OBVIOUS
<1> HIDE DEF n, q, m
<1>4. a <= k * q
  BY <1>2, <1>3
<1>5. k * q <= k * c
  BY <1>2, <1>3, <1>1
<1> QED
  BY <1>4, <1>5, <1>2, <1>1

\* An action the mandate approves is of its kind, for its payee, and within
\* its cap.
LEMMA ApprovedIsWithin ==
    ASSUME NEW a, NEW t, decide(a, Mandate, t) = {}
    PROVE  /\ ~(a.amount_cents > Mandate.max_amount_cents)
           /\ list_allows(Mandate.allowed_kinds, a.kind)
           /\ opt_in_allows(Mandate.allowed_counterparties, a.counterparty)
<1>1. \A gate \in Gates : ~Fails(gate, a, Mandate, t)
  BY DEF decide
<1> QED
  BY <1>1 DEF Gates, Fails, OverCap

-----------------------------------------------------------------------------
(* The invariant                                                           *)

FlowRecords ==
    [state : FlowStates, client : Clients \cup {None}, paywall : Paywalls \cup {None},
     auth : Authorisations \cup {None}, settlement : {None, "settled", "failed"}]

RequestRecords ==
    [state : RequestStates, auth : Authorisations \cup {None},
     paywall : Paywalls \cup {None}, flow : Flows \cup {None}]

Shape ==
    /\ now \in 0..MaxTime
    /\ flow \in [Flows -> FlowRecords]
    /\ request \in [Requests -> RequestRecords]
    /\ up \subseteq Paywalls

Within(y) ==
    /\ y.auth.value <= Mandate.max_amount_cents
                         * PerCent[DecimalsOf(y.client, Requirement[y.paywall])]
    /\ list_allows(Mandate.allowed_kinds, PAYMENT_KIND)
    /\ opt_in_allows(Mandate.allowed_counterparties, y.auth.to)

Own(y, f) ==
    /\ y.auth # None => y.auth.nonce = f /\ Within(y)
    /\ y.state \in {"idle", "deciding", "unpaid", "refused"} => y.auth = None
    /\ y.state \in {"settling", "retrying", "waiting", "paid"} => y.auth # None
    /\ y.state # "idle" => y.paywall \in Paywalls
    /\ y.state = "deciding" =>
          /\ Requirement[y.paywall] # None
          /\ Priced(y.client, Requirement[y.paywall])

FlowsOwn == \A f \in Flows : Own(flow[f], f)

Covered(q) ==
    (q.state \in {"verified", "served"} /\ Requirement[q.paywall] # None) =>
        /\ q.auth.to = Requirement[q.paywall].payTo
        /\ q.auth.value >= Requirement[q.paywall].amount
        /\ q.auth.domain = eip712Domain(Requirement[q.paywall])

Arrived(q) == q.state # "idle" => q.auth \in Authorisations /\ q.paywall \in Paywalls

Carried ==
    /\ moved \subseteq Signed
    /\ \A r \in Requests : request[r].state # "idle" => request[r].auth \in Signed

Paid(q) ==
    q.state = "served" /\ Requirement[q.paywall] # None /\ q.paywall \in Settling

PaidApart ==
    \A r \in Requests : Paid(request[r]) =>
        /\ request[r].auth \in moved
        /\ \A s \in Requests \ {r} : Paid(request[s]) => request[s].auth # request[r].auth

RequestsKept == \A r \in Requests : Arrived(request[r]) /\ Covered(request[r])

IInv == Shape /\ FlowsOwn /\ RequestsKept /\ Carried /\ PaidApart

\* What is signed is an authorisation of the flow its nonce names.
LEMMA SignedFacts ==
    ASSUME IInv, NEW a \in Signed
    PROVE  a \in Authorisations /\ a.nonce \in Flows /\ a = flow[a.nonce].auth
<1>1. PICK f \in Flows : flow[f].auth # None /\ a = flow[f].auth
  BY DEF Signed, Unsigned
<1>2. flow[f] \in FlowRecords /\ Own(flow[f], f)
  BY DEF IInv, Shape, FlowsOwn
<1>3. flow[f].auth \in Authorisations /\ flow[f].auth.nonce = f
  BY <1>1, <1>2 DEF FlowRecords, Own
<1> QED
  BY <1>1, <1>3

-----------------------------------------------------------------------------
(* Three kinds of step                                                     *)

\* A flow moves on, and keeps the authorisation it has signed.
LEMMA FlowMoves ==
    ASSUME IInv, NEW f \in Flows, NEW y \in FlowRecords, Own(y, f),
           flow[f].auth \in {None, y.auth},
           flow' = [flow EXCEPT ![f] = y]
    PROVE  flow' \in [Flows -> FlowRecords] /\ FlowsOwn' /\ Signed \subseteq Signed'
<1>1. flow \in [Flows -> FlowRecords] /\ \A g \in Flows : Own(flow[g], g)
  BY DEF IInv, Shape, FlowsOwn
<1>2. flow' \in [Flows -> FlowRecords]
  BY <1>1
<1>3. FlowsOwn'
  <2>1. \A g \in Flows : flow'[g] = IF g = f THEN y ELSE flow[g]
    BY <1>1
  <2>2. \A g \in Flows : Own(flow'[g], g)
    BY <2>1, <1>1
  <2> QED
    BY <2>2 DEF FlowsOwn, Own, Within
<1>4. ASSUME NEW a \in Signed PROVE a \in Signed'
  <2>1. PICK g \in Flows : flow[g].auth # None /\ a = flow[g].auth
    BY <1>4 DEF Signed, Unsigned
  <2>2. flow'[g].auth = flow[g].auth
    BY <2>1, <1>1
  <2> QED
    BY <2>1, <2>2 DEF Signed, Unsigned
<1> QED
  BY <1>2, <1>3, <1>4

\* The requests stay as they are while flows sign and the token executes.
LEMMA RequestsStand ==
    ASSUME IInv, Signed \subseteq Signed', moved \subseteq moved', moved' \subseteq Signed',
           UNCHANGED request
    PROVE  RequestsKept' /\ Carried' /\ PaidApart'
<1>1. RequestsKept'
  BY DEF IInv, RequestsKept, Arrived, Covered
<1>2. Carried'
  BY DEF IInv, Carried
<1>3. PaidApart'
  BY DEF IInv, PaidApart, Paid
<1> QED
  BY <1>1, <1>2, <1>3

\* A request moves on; one that is now paid for at a settling paywall is paid
\* for with an authorisation this step executed.
LEMMA RequestMoves ==
    ASSUME IInv, NEW r \in Requests, NEW q \in RequestRecords,
           Arrived(q), Covered(q), q.state # "idle" => q.auth \in Signed,
           Paid(q) => q.auth \in moved' \ moved,
           request' = [request EXCEPT ![r] = q],
           moved \subseteq moved', moved' \subseteq Signed, Signed \subseteq Signed'
    PROVE  request' \in [Requests -> RequestRecords] /\ RequestsKept' /\ Carried' /\ PaidApart'
<1>1. request \in [Requests -> RequestRecords]
  BY DEF IInv, Shape
<1>2. \A s \in Requests : request'[s] = IF s = r THEN q ELSE request[s]
  BY <1>1
<1>3. request' \in [Requests -> RequestRecords]
  BY <1>1
<1>4. RequestsKept'
  <2>1. \A s \in Requests : Arrived(request'[s]) /\ Covered(request'[s])
    BY <1>2 DEF IInv, RequestsKept
  <2> QED
    BY <2>1 DEF RequestsKept, Arrived, Covered
<1>5. Carried'
  BY <1>2 DEF IInv, Carried
<1>6. PaidApart'
  <2>1. \A s \in Requests : Paid(request[s]) => request[s].auth \in moved
    BY DEF IInv, PaidApart
  <2>2. ASSUME NEW s \in Requests, Paid(request'[s])
        PROVE  /\ request'[s].auth \in moved'
               /\ \A t \in Requests \ {s} : Paid(request'[t]) => request'[t].auth # request'[s].auth
    <3>1. CASE s = r
      BY <3>1, <2>1, <2>2, <1>2
    <3>2. CASE s # r
      <4>1. request'[s] = request[s] /\ request[s].auth \in moved
        BY <3>2, <2>1, <2>2, <1>2
      <4>2. ASSUME NEW t \in Requests \ {s}, Paid(request'[t])
            PROVE  request'[t].auth # request'[s].auth
        <5>1. CASE t = r
          BY <5>1, <4>1, <4>2, <1>2
        <5>2. CASE t # r
          BY <5>2, <4>1, <4>2, <2>2, <1>2 DEF IInv, PaidApart
        <5> QED
          BY <5>1, <5>2
      <4> QED
        BY <4>1, <4>2
    <3> QED
      BY <3>1, <3>2
  <2> QED
    BY <2>2 DEF PaidApart, Paid
<1> QED
  BY <1>3, <1>4, <1>5, <1>6

-----------------------------------------------------------------------------
(* The steps                                                               *)

\* What a flow signs is an authorisation of its own, within the mandate that
\* has just approved it.
LEMMA SignedIsWithin ==
    ASSUME IInv, NEW f \in Flows, flow[f].state = "deciding", ~Rejected(f)
    PROVE  /\ Authorisation(f) \in Authorisations
           /\ Authorisation(f).nonce = f
           /\ Authorisation(f).value
                <= Mandate.max_amount_cents
                     * PerCent[DecimalsOf(flow[f].client, Requirement[flow[f].paywall])]
           /\ list_allows(Mandate.allowed_kinds, PAYMENT_KIND)
           /\ opt_in_allows(Mandate.allowed_counterparties, Authorisation(f).to)
<1> DEFINE p == flow[f].paywall
           req == Requirement[p]
           d == DecimalsOf(flow[f].client, req)
           act == Action(f)
<1>1. p \in Paywalls /\ req # None /\ d \in DOMAIN PerCent
  BY DEF IInv, FlowsOwn, Own, Priced
<1>2. req.amount \in Nat /\ d \in Nat /\ PerCent[d] \in Nat \ {0}
  BY <1>1, RequirementAssumption, PerCentAssumption
<1>3. Authorisation(f) \in Authorisations
  <2>1. req.payTo \in {r.payTo : r \in {Requirement[q] : q \in {o \in Paywalls : Requirement[o] # None}}}
        /\ eip712Domain(req) \in {eip712Domain(r) :
                 r \in {Requirement[q] : q \in {o \in Paywalls : Requirement[o] # None}}}
    BY <1>1
  <2>2. now - Slack \in Int /\ now + ValidFor \in Int
    BY TimesAssumption DEF IInv, Shape
  <2> QED
    BY <1>2, <2>1, <2>2 DEF Authorisation, Authorisations
<1>4. /\ ~(act.amount_cents > Mandate.max_amount_cents)
      /\ list_allows(Mandate.allowed_kinds, act.kind)
      /\ opt_in_allows(Mandate.allowed_counterparties, act.counterparty)
  BY ApprovedIsWithin DEF Rejected
<1>5. /\ act.amount_cents = (req.amount + PerCent[d] - 1) \div PerCent[d]
      /\ act.kind = PAYMENT_KIND /\ act.counterparty = req.payTo
  BY DEF Action, actionForRequirement, amountToCents
<1>6. /\ Authorisation(f).nonce = f /\ Authorisation(f).value = req.amount
      /\ Authorisation(f).to = req.payTo
  BY DEF Authorisation
<1>7. req.amount <= Mandate.max_amount_cents * PerCent[d]
  <2> DEFINE a == req.amount
             k == PerCent[d]
             c == Mandate.max_amount_cents
  <2>1. a \in Nat /\ k \in Nat \ {0} /\ c \in Nat
    BY <1>2, MandateAssumption
  <2>2. ~((a + k - 1) \div k > c)
    BY <1>4, <1>5
  <2> HIDE DEF a, k, c
  <2>3. (a + k - 1) \div k \in Int
    BY <2>1
  <2>4. (a + k - 1) \div k <= c
    BY <2>1, <2>2, <2>3
  <2>5. a <= c * k
    BY <2>1, <2>4, CeilingBounds
  <2> QED
    BY <2>5 DEF a, k, c
<1> HIDE DEF act
<1> QED
  BY <1>3, <1>4, <1>5, <1>6, <1>7

\* Every step of a flow before it sends keeps the invariant.
LEMMA FlowStepKeeps ==
    ASSUME IInv, NEW f \in Flows, NEW y \in FlowRecords, Own(y, f),
           flow[f].auth \in {None, y.auth},
           flow' = [flow EXCEPT ![f] = y],
           moved \subseteq moved', moved' \subseteq Signed,
           UNCHANGED <<now, request, up>>
    PROVE  IInv'
<1>1. flow' \in [Flows -> FlowRecords] /\ FlowsOwn' /\ Signed \subseteq Signed'
  BY FlowMoves
<1>2. RequestsKept' /\ Carried' /\ PaidApart'
  BY <1>1, RequestsStand
<1>3. Shape'
  BY <1>1 DEF IInv, Shape
<1> QED
  BY <1>1, <1>2, <1>3 DEF IInv

\* A record that goes to another state keeps its shape.
LEMMA GoesType ==
    ASSUME NEW y \in FlowRecords, NEW st \in FlowStates
    PROVE  /\ [y EXCEPT !.state = st] \in FlowRecords
           /\ [y EXCEPT !.state = st].auth = y.auth
           /\ [y EXCEPT !.state = st].state = st
           /\ [y EXCEPT !.state = st].client = y.client
           /\ [y EXCEPT !.state = st].paywall = y.paywall
  BY DEF FlowRecords

\* The parts of the invariant a step of flow f starts from.
LEMMA FlowFacts ==
    ASSUME IInv, NEW f \in Flows
    PROVE  /\ flow[f] \in FlowRecords /\ Own(flow[f], f)
           /\ flow \in [Flows -> FlowRecords]
           /\ moved \subseteq Signed
           /\ flow[f].auth # None => flow[f].auth \in Signed
<1>1. flow \in [Flows -> FlowRecords] /\ Own(flow[f], f) /\ moved \subseteq Signed
  BY DEF IInv, Shape, FlowsOwn, Carried
<1> QED
  BY <1>1 DEF Signed, Unsigned

\* A flow that moves to a state in which its authorisation is as it was.
LEMMA GoesKeeps ==
    ASSUME IInv, NEW f \in Flows, NEW st \in FlowStates,
           st \notin {"idle", "deciding"}, flow[f].state # "idle",
           st \in {"unpaid", "refused"} => flow[f].auth = None,
           st \in {"settling", "retrying", "waiting", "paid"} => flow[f].auth # None,
           flow' = [flow EXCEPT ![f].state = st],
           moved \subseteq moved', moved' \subseteq Signed,
           UNCHANGED <<now, request, up>>
    PROVE  IInv'
<1> DEFINE y == [flow[f] EXCEPT !.state = st]
<1>1. flow[f] \in FlowRecords /\ Own(flow[f], f) /\ flow \in [Flows -> FlowRecords]
  BY FlowFacts
<1>2. /\ y \in FlowRecords /\ y.auth = flow[f].auth /\ y.state = st
      /\ y.client = flow[f].client /\ y.paywall = flow[f].paywall
  BY <1>1, GoesType
<1>3. flow' = [flow EXCEPT ![f] = y]
  BY <1>1
<1> HIDE DEF y
<1>4. Own(y, f)
  BY <1>1, <1>2 DEF Own, Within
<1> QED
  BY <1>2, <1>3, <1>4, FlowStepKeeps

\* A flow that asks signs nothing, and its request is not yet a payment.
LEMMA FetchKeeps ==
    ASSUME IInv, NEW f \in Flows, NEW c \in Clients, NEW p \in Paywalls, Fetch(f, c, p)
    PROVE  IInv'
<1> DEFINE req == Requirement[p]
           st == IF p \notin up THEN "threw"
                 ELSE IF req = None THEN "unpaid"
                 ELSE IF Usable(c, req) /\ Priced(c, req) THEN "deciding" ELSE "threw"
           y == [NotStarted EXCEPT !.state = st, !.client = c, !.paywall = p]
<1>1. flow' = [flow EXCEPT ![f] = y] /\ UNCHANGED <<now, request, up, moved>>
      /\ flow[f].state = "idle"
  BY DEF Fetch
<1>2. st \in {"threw", "unpaid", "deciding"}
      /\ (st = "deciding" => req # None /\ Priced(c, req))
  OBVIOUS
<1> HIDE DEF st
<1>3. /\ y \in FlowRecords /\ y.auth = None /\ y.state = st /\ y.client = c /\ y.paywall = p
  BY <1>2 DEF NotStarted, FlowRecords, FlowStates, Unsigned
<1> HIDE DEF y
<1>4. Own(y, f)
  BY <1>2, <1>3 DEF Own
<1>5. flow[f].auth = None
  BY <1>1, FlowFacts DEF Own
<1>6. moved \subseteq Signed
  BY DEF IInv, Carried
<1> QED
  BY <1>1, <1>3, <1>4, <1>5, <1>6, FlowStepKeeps

\* A payment is signed for what the mandate was asked, once.
LEMMA SignKeeps ==
    ASSUME IInv, NEW f \in Flows, Sign(f)
    PROVE  IInv'
<1> DEFINE a == Authorisation(f)
           st == IF flow[f].client.settles THEN "settling" ELSE "retrying"
           y == [flow[f] EXCEPT !.state = st, !.auth = a]
<1>1. /\ flow[f].state = "deciding" /\ ~Rejected(f)
      /\ flow' = [flow EXCEPT ![f].state = st, ![f].auth = a]
      /\ UNCHANGED <<now, request, up, moved>>
  BY DEF Sign
<1>2. flow[f] \in FlowRecords /\ Own(flow[f], f) /\ flow \in [Flows -> FlowRecords]
      /\ moved \subseteq Signed
  BY FlowFacts
<1>3. st \in {"settling", "retrying"}
  OBVIOUS
<1>4. /\ a \in Authorisations /\ a.nonce = f
      /\ a.value <= Mandate.max_amount_cents
                     * PerCent[DecimalsOf(flow[f].client, Requirement[flow[f].paywall])]
      /\ list_allows(Mandate.allowed_kinds, PAYMENT_KIND)
      /\ opt_in_allows(Mandate.allowed_counterparties, a.to)
  BY <1>1, SignedIsWithin
<1> HIDE DEF a, st
<1>5. /\ y \in FlowRecords /\ y.auth = a /\ y.state = st
      /\ y.client = flow[f].client /\ y.paywall = flow[f].paywall
  BY <1>2, <1>3, <1>4 DEF FlowRecords, FlowStates
<1>6. flow' = [flow EXCEPT ![f] = y]
  BY <1>1, <1>2
<1> HIDE DEF y
<1>7. a # None
  BY <1>4, UnsignedAssumption DEF Unsigned
<1>8. Own(y, f)
  BY <1>1, <1>2, <1>3, <1>4, <1>5, <1>7 DEF Own, Within
<1>9. flow[f].auth = None
  BY <1>1, <1>2 DEF Own
<1> QED
  BY <1>1, <1>2, <1>5, <1>6, <1>8, <1>9, FlowStepKeeps

\* Money the client's facilitator moves is moved on the flow's own signature.
LEMMA ClientSettlesKeeps ==
    ASSUME IInv, NEW f \in Flows, ClientSettles(f) \/ ClientSettleTimesOut(f)
    PROVE  IInv'
<1>1. flow[f] \in FlowRecords /\ Own(flow[f], f) /\ flow \in [Flows -> FlowRecords]
      /\ moved \subseteq Signed /\ (flow[f].auth # None => flow[f].auth \in Signed)
  BY FlowFacts
<1>2. flow[f].state = "settling"
  BY DEF ClientSettles, ClientSettleTimesOut
<1>3. flow[f].auth # None /\ flow[f].auth \in Signed
  BY <1>1, <1>2 DEF Own
<1>4. moved \subseteq moved' /\ moved' \subseteq Signed /\ UNCHANGED <<now, request, up>>
  BY <1>1, <1>3 DEF ClientSettles, ClientSettleTimesOut, Broadcasts
<1>5. ASSUME NEW said \in {"settled", "failed"},
             flow' = [flow EXCEPT ![f].state = "retrying", ![f].settlement = said]
      PROVE  IInv'
  <2> DEFINE y == [flow[f] EXCEPT !.state = "retrying", !.settlement = said]
  <2>1. flow' = [flow EXCEPT ![f] = y]
    BY <1>1, <1>5
  <2>2. /\ y \in FlowRecords /\ y.auth = flow[f].auth /\ y.state = "retrying"
        /\ y.client = flow[f].client /\ y.paywall = flow[f].paywall
    BY <1>1, <1>5 DEF FlowRecords, FlowStates
  <2> HIDE DEF y
  <2>3. Own(y, f)
    BY <1>1, <1>3, <2>2 DEF Own, Within
  <2> QED
    BY <1>4, <2>1, <2>2, <2>3, FlowStepKeeps
<1>6. CASE ClientSettles(f)
  BY <1>5, <1>6 DEF ClientSettles
<1>7. CASE ClientSettleTimesOut(f)
  <2>1. flow' = [flow EXCEPT ![f].state = "threw"]
    BY <1>7 DEF ClientSettleTimesOut, Goes
  <2> QED
    BY <1>2, <1>4, <2>1, GoesKeeps DEF FlowStates
<1> QED
  BY <1>6, <1>7

\* No step of the client's breaks the invariant.
LEMMA ClientStepKeeps ==
    ASSUME IInv, NEW f \in Flows, ClientStep(f)
    PROVE  IInv'
<1>1. flow[f] \in FlowRecords /\ Own(flow[f], f) /\ flow \in [Flows -> FlowRecords]
      /\ moved \subseteq Signed /\ (flow[f].auth # None => flow[f].auth \in Signed)
  BY FlowFacts
<1>2. CASE Decline(f)
  BY <1>1, <1>2, GoesKeeps DEF Decline, Goes, Own, FlowStates
<1>3. CASE Throw(f)
  BY <1>1, <1>3, GoesKeeps DEF Throw, Goes, FlowStates
<1>4. CASE Sign(f)
  BY <1>4, SignKeeps
<1>5. CASE ClientSettles(f) \/ ClientSettleTimesOut(f)
  BY <1>5, ClientSettlesKeeps
<1>6. ASSUME NEW r \in Requests, Retry(f, r) PROVE IInv'
  <2> DEFINE q == [state |-> "arrived", auth |-> flow[f].auth,
                   paywall |-> flow[f].paywall, flow |-> f]
             y == [flow[f] EXCEPT !.state = "waiting"]
  <2>1. /\ flow[f].state = "retrying"
        /\ request' = [request EXCEPT ![r] = q]
        /\ flow' = [flow EXCEPT ![f] = y]
        /\ UNCHANGED <<now, up, moved>>
    BY <1>1, <1>6 DEF Retry, Sent, Goes
  <2>2. flow[f].auth # None /\ flow[f].auth \in Signed
    BY <1>1, <2>1 DEF Own
  <2>3. flow[f].auth \in Authorisations /\ flow[f].paywall \in Paywalls \cup {None}
    BY <1>1, <2>2 DEF FlowRecords
  <2>4. flow[f].paywall \in Paywalls
    BY <1>1, <2>1 DEF Own
  <2>5. q \in RequestRecords /\ Arrived(q) /\ Covered(q) /\ ~Paid(q)
    BY <2>3, <2>4 DEF RequestRecords, RequestStates, Arrived, Covered, Paid
  <2>6. /\ y \in FlowRecords /\ y.auth = flow[f].auth /\ y.state = "waiting"
        /\ y.client = flow[f].client /\ y.paywall = flow[f].paywall
    BY <1>1, GoesType DEF FlowStates
  <2>7. q.auth = flow[f].auth
    OBVIOUS
  <2> HIDE DEF q, y
  <2>8. Own(y, f)
    BY <1>1, <2>2, <2>6 DEF Own, Within
  <2>9. flow' \in [Flows -> FlowRecords] /\ FlowsOwn' /\ Signed \subseteq Signed'
    BY <2>1, <2>6, <2>8, FlowMoves
  <2>10. request' \in [Requests -> RequestRecords] /\ RequestsKept' /\ Carried' /\ PaidApart'
    BY <1>1, <2>1, <2>2, <2>5, <2>7, <2>9, RequestMoves
  <2> QED
    BY <2>1, <2>9, <2>10 DEF IInv, Shape
<1>7. ASSUME NEW r \in Requests, Return(f, r) PROVE IInv'
  <2>1. flow[f].state = "waiting" /\ flow[f].auth # None
    BY <1>1, <1>7 DEF Return, Own
  <2>2. PICK st \in {"threw", "paid"} : flow' = [flow EXCEPT ![f].state = st]
    BY <1>7 DEF Return, Goes
  <2>3. UNCHANGED <<now, request, up, moved>>
    BY <1>7 DEF Return
  <2> QED
    BY <1>1, <2>1, <2>2, <2>3, GoesKeeps DEF FlowStates
<1> QED
  BY <1>2, <1>3, <1>4, <1>5, <1>6, <1>7 DEF ClientStep

\* No step of the paywall's breaks the invariant.
LEMMA PaywallStepKeeps ==
    ASSUME IInv, NEW r \in Requests, PaywallStep(r)
    PROVE  IInv'
<1> DEFINE q(st) == [request[r] EXCEPT !.state = st]
<1>1. /\ request \in [Requests -> RequestRecords] /\ request[r] \in RequestRecords
      /\ Arrived(request[r]) /\ Covered(request[r]) /\ moved \subseteq Signed
      /\ request[r].state # "idle" => request[r].auth \in Signed
  BY DEF IInv, Shape, RequestsKept, Carried
<1>2. ASSUME NEW st \in RequestStates \ {"idle"}, request[r].state # "idle",
             request' = [request EXCEPT ![r].state = st],
             Covered(q(st)), Paid(q(st)) => request[r].auth \in moved' \ moved,
             moved \subseteq moved', moved' \subseteq moved \cup {request[r].auth},
             UNCHANGED <<now, flow>>, up' \subseteq up
      PROVE  IInv'
  <2>1. request' = [request EXCEPT ![r] = q(st)]
    BY <1>1, <1>2
  <2>2. /\ q(st) \in RequestRecords /\ q(st).auth = request[r].auth
        /\ q(st).paywall = request[r].paywall /\ q(st).state = st
    BY <1>1, <1>2 DEF RequestRecords
  <2> DEFINE z == q(st)
  <2> HIDE DEF q
  <2>3. Arrived(z) /\ z.auth \in Signed /\ moved' \subseteq Signed
    BY <1>1, <1>2, <2>2 DEF Arrived
  <2>4. Signed' = Signed
    BY <1>2 DEF Signed
  <2>5. z \in RequestRecords /\ Covered(z) /\ (Paid(z) => z.auth \in moved' \ moved)
        /\ request' = [request EXCEPT ![r] = z]
    BY <1>2, <2>1, <2>2
  <2> HIDE DEF z
  <2>6. request' \in [Requests -> RequestRecords] /\ RequestsKept' /\ Carried' /\ PaidApart'
    BY <1>2, <2>3, <2>4, <2>5, RequestMoves
  <2>7. FlowsOwn'
    BY <1>2 DEF IInv, FlowsOwn, Own, Within
  <2> QED
    BY <1>2, <2>6, <2>7 DEF IInv, Shape
<1>3. \A st \in RequestStates : /\ q(st).auth = request[r].auth
                               /\ q(st).paywall = request[r].paywall /\ q(st).state = st
  BY <1>1 DEF RequestRecords
<1> HIDE DEF q
<1>4. CASE Verify(r)
  <2> DEFINE p == request[r].paywall
             ok == Requirement[p] = None \/ verifyPayment(request[r].auth, Requirement[p])
             st == IF ~ok \/ (p \in Settling /\ request[r].auth \in moved) THEN "refused"
                   ELSE IF p \in Settling THEN "verified" ELSE "served"
  <2>1. /\ request[r].state = "arrived" /\ request' = [request EXCEPT ![r].state = st]
        /\ UNCHANGED <<now, flow, up, moved>>
    BY <1>4 DEF Verify, Becomes
  <2>2. st \in RequestStates \ {"idle"}
    BY DEF RequestStates
  <2>3. st # "refused" => ok
    OBVIOUS
  <2>4. st = "served" => p \notin Settling
    OBVIOUS
  <2> HIDE DEF st
  <2>5. Covered(q(st)) /\ ~Paid(q(st))
    BY <1>3, <2>2, <2>3, <2>4 DEF Covered, Paid, verifyPayment
  <2> QED
    BY <1>2, <2>1, <2>2, <2>5
<1>5. CASE Settle(r)
  <2>1. request[r].state = "verified" /\ UNCHANGED <<now, flow, up>>
    BY <1>5 DEF Settle
  <2>2. CASE Broadcasts(request[r].auth) /\ Becomes(r, "served")
    <3>1. Covered(q("served"))
      BY <1>1, <1>3, <2>1 DEF Covered, RequestStates
    <3>2. request[r].auth \in moved' \ moved /\ moved' = moved \cup {request[r].auth}
      BY <2>2 DEF Broadcasts, Executable
    <3> QED
      BY <1>2, <2>1, <2>2, <3>1, <3>2 DEF Becomes, RequestStates
  <2>3. CASE UNCHANGED moved /\ Becomes(r, "refused")
    <3>1. Covered(q("refused")) /\ ~Paid(q("refused"))
      BY <1>3 DEF Covered, Paid, RequestStates
    <3> QED
      BY <1>2, <2>1, <2>3, <3>1 DEF Becomes, RequestStates
  <2> QED
    BY <1>5, <2>2, <2>3 DEF Settle
<1>6. CASE Lose(r)
  <2>1. Covered(q("lost")) /\ ~Paid(q("lost"))
    BY <1>3 DEF Covered, Paid, RequestStates
  <2> QED
    BY <1>2, <1>6, <2>1 DEF Lose, Becomes, RequestStates
<1>7. CASE PaywallDies(r)
  <2>1. /\ moved \subseteq moved' /\ moved' \subseteq Signed
        /\ UNCHANGED <<now, flow, request>> /\ up' \subseteq up
    BY <1>1, <1>7 DEF PaywallDies, Broadcasts
  <2>2. Signed' = Signed
    BY <2>1 DEF Signed
  <2>3. RequestsKept' /\ Carried' /\ PaidApart'
    BY <2>1, <2>2, RequestsStand
  <2>4. FlowsOwn'
    BY <2>1 DEF IInv, FlowsOwn, Own, Within
  <2> QED
    BY <2>1, <2>3, <2>4 DEF IInv, Shape
<1> QED
  BY <1>4, <1>5, <1>6, <1>7 DEF PaywallStep

\* A repeated request carries the payment it repeats.
LEMMA AgainKeeps ==
    ASSUME IInv, NEW s \in Requests, NEW r \in Requests, NEW p \in Paywalls, Again(s, r, p)
    PROVE  IInv'
<1> DEFINE q == [state |-> "arrived", auth |-> request[s].auth, paywall |-> p, flow |-> None]
<1>1. /\ request[s].state # "idle" /\ request' = [request EXCEPT ![r] = q]
      /\ UNCHANGED <<now, flow, up, moved>>
  BY DEF Again, Sent
<1>2. /\ request[s].auth \in Signed /\ request[s].auth \in Authorisations
      /\ moved \subseteq Signed
  BY <1>1 DEF IInv, Carried, RequestsKept, Arrived
<1>3. q \in RequestRecords /\ Arrived(q) /\ Covered(q) /\ ~Paid(q) /\ q.auth \in Signed
  BY <1>2 DEF RequestRecords, RequestStates, Arrived, Covered, Paid
<1> HIDE DEF q
<1>4. Signed' = Signed
  BY <1>1 DEF Signed
<1>5. request' \in [Requests -> RequestRecords] /\ RequestsKept' /\ Carried' /\ PaidApart'
  BY <1>1, <1>2, <1>3, <1>4, RequestMoves
<1>6. FlowsOwn'
  BY <1>1 DEF IInv, FlowsOwn, Own, Within
<1> QED
  BY <1>1, <1>5, <1>6 DEF IInv, Shape

\* A step that leaves flows, requests and the token as they are.
LEMMA OthersKeep ==
    ASSUME IInv, UNCHANGED <<flow, request, up, moved>>, now' \in 0..MaxTime
    PROVE  IInv'
<1>1. Signed' = Signed
  BY DEF Signed
<1>2. RequestsKept' /\ Carried' /\ PaidApart'
  BY <1>1, RequestsStand DEF IInv, Carried
<1>3. FlowsOwn'
  BY DEF IInv, FlowsOwn, Own, Within
<1> QED
  BY <1>2, <1>3 DEF IInv, Shape

\* The invariant of which everything below is a part.
LEMMA Invariance == Spec => []IInv
<1>1. Init => IInv
  <2> SUFFICES ASSUME Init PROVE IInv
    OBVIOUS
  <2>1. NotStarted \in FlowRecords /\ NotSent \in RequestRecords
    BY DEF NotStarted, NotSent, FlowRecords, RequestRecords, FlowStates, RequestStates, Unsigned
  <2>2. 0 \in 0..MaxTime
    BY TimesAssumption
  <2>3. Shape
    BY <2>1, <2>2 DEF Init, Shape
  <2>4. FlowsOwn
    BY DEF Init, FlowsOwn, Own, NotStarted, Unsigned
  <2>5. RequestsKept /\ PaidApart
    BY DEF Init, RequestsKept, Arrived, Covered, PaidApart, Paid, NotSent
  <2>6. Carried
    BY DEF Init, Carried, NotSent
  <2> QED
    BY <2>3, <2>4, <2>5, <2>6 DEF IInv
<1>2. ASSUME IInv, [Next]_vars PROVE IInv'
  <2>1. ASSUME NEW f \in Flows, ClientStep(f) PROVE IInv'
    BY <1>2, <2>1, ClientStepKeeps
  <2>2. ASSUME NEW f \in Flows, NEW c \in Clients, NEW p \in Paywalls, Fetch(f, c, p)
        PROVE  IInv'
    BY <1>2, <2>2, FetchKeeps
  <2>3. ASSUME NEW r \in Requests, PaywallStep(r) PROVE IInv'
    BY <1>2, <2>3, PaywallStepKeeps
  <2>4. ASSUME NEW r \in Requests, NEW s \in Requests, NEW p \in Paywalls, Again(s, r, p)
        PROVE  IInv'
    BY <1>2, <2>4, AgainKeeps
  <2>5. CASE Tick
    <3>1. now' \in 0..MaxTime
      BY <1>2, <2>5, TimesAssumption DEF Tick, IInv, Shape
    <3> QED
      BY <1>2, <2>5, <3>1, OthersKeep DEF Tick
  <2>6. CASE UNCHANGED vars
    BY <1>2, <2>6, OthersKeep DEF vars, IInv, Shape
  <2> QED
    BY <1>2, <2>1, <2>2, <2>3, <2>4, <2>5, <2>6 DEF Next
<1> QED
  BY <1>1, <1>2, PTL DEF Spec

-----------------------------------------------------------------------------
(* Theorems                                                                *)

\* The state keeps its type, and nothing is on the wire or executed that no
\* call of fetchWithMandate signed.
THEOREM TypeCorrect == Spec => []TypeOK
<1>1. IInv => TypeOK
  <2> SUFFICES ASSUME IInv PROVE TypeOK
    OBVIOUS
  <2>1. \A f \in Flows : flow[f].state \in FlowStates
    BY DEF IInv, Shape, FlowRecords
  <2>2. \A r \in Requests : request[r].state \in RequestStates
    BY DEF IInv, Shape, RequestRecords
  <2> QED
    BY <2>1, <2>2 DEF IInv, Shape, Carried, TypeOK
<1> QED
  BY <1>1, Invariance, PTL

\* No call signs for a payee outside the mandate, or for more atomic units
\* than the mandate's cap is worth, whatever the token's decimals.
THEOREM SigningIsWithinMandate == Spec => []SignedWithinMandate
<1>1. IInv => SignedWithinMandate
  BY DEF IInv, FlowsOwn, Own, Within, SignedWithinMandate, Unsigned
<1> QED
  BY <1>1, Invariance, PTL

\* A call that reports "unpaid" or "refused" has signed nothing.
THEOREM RefusedSignsNothing == Spec => []UnpaidSignedNothing
<1>1. IInv => UnpaidSignedNothing
  BY DEF IInv, FlowsOwn, Own, UnpaidSignedNothing, Unsigned
<1> QED
  BY <1>1, Invariance, PTL

\* One call moves money at most once, however often and by whomever its
\* authorisation is settled.
THEOREM MoneyMovesOnceHolds == Spec => []MoneyMovesOnce
<1>1. IInv => MoneyMovesOnce
  <2> SUFFICES ASSUME IInv, NEW a \in moved, NEW b \in moved, a.nonce = b.nonce PROVE a = b
    BY DEF MoneyMovesOnce
  <2>1. a \in Signed /\ b \in Signed
    BY DEF IInv, Carried
  <2>2. a = flow[a.nonce].auth /\ b = flow[b.nonce].auth
    BY <2>1, SignedFacts
  <2> QED
    BY <2>2
<1> QED
  BY <1>1, Invariance, PTL

\* A paywall serves only for an authorisation that covers the requirement it
\* holds, whatever requirement the payer echoes.
THEOREM ServingIsCovered == Spec => []ServedIsCovered
<1>1. IInv => ServedIsCovered
  BY DEF IInv, RequestsKept, Covered, ServedIsCovered
<1> QED
  BY <1>1, Invariance, PTL

\* A settling paywall serves one request per authorisation, an executed one.
THEOREM SettlingServesOnce == Spec => []SettledServesOnce
<1>1. IInv => SettledServesOnce
  <2> SUFFICES ASSUME IInv, NEW r \in Requests, Paid(request[r])
               PROVE  /\ request[r].auth \in moved
                      /\ \A s \in Requests \ {r} :
                            (request[s].state = "served" /\ request[s].auth = request[r].auth
                             /\ request[s].paywall \in Settling)
                               => Requirement[request[s].paywall] = None
    BY DEF SettledServesOnce, Paid
  <2> QED
    BY DEF IInv, PaidApart, Paid
<1> QED
  BY <1>1, Invariance, PTL
=============================================================================
