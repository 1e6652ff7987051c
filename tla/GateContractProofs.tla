-------------------------- MODULE GateContractProofs --------------------------
(***************************************************************************)
(* The gate contract: its types; nothing goes out that the mandate in KV   *)
(* did not permit; the daily total is the sum of the spends admitted; the  *)
(* idempotency records are one per key, truthfully replayed, committed     *)
(* only under the mandate the order was approved under; and, while no      *)
(* kv-store call fails, the contract implements DispatchLedger.            *)
(*                                                                         *)
(* Sound is the first strengthening: what an invocation's own record says  *)
(* of it (what it has read, that its order is authorised, which entry it   *)
(* writes) whatever the four maps hold.  SpendsInv says of a committing    *)
(* spend that the total it read is still the total there is, and Current   *)
(* of a running order that the mandate it was approved under is still in   *)
(* KV, unless a write of another has invalidated them.                     *)
(***************************************************************************)
EXTENDS GateContract, FiniteSetTheorems, TLAPS

-----------------------------------------------------------------------------
(* Types                                                                   *)

\* The record of an invocation that has not started is well typed.
LEMMA IdleType == Idle \in Invocation
  BY BoundsAssumption DEF Idle, Invocation, Cents

\* The states and answers the actions use, once, so that later steps can treat
\* Running, Ended and Answers as opaque.
LEMMA StateNames ==
    /\ {"calling", "called", "committing"} \subseteq Running
    /\ {"done", "conflict", "crashed"} \subseteq Ended
    /\ {"error", "rejected", "replayed", "approved"} \subseteq Answers
  BY DEF Running, Ended, Answers

\* A request parses to the input of the function it calls.
LEMMA RequestType ==
    ASSUME NEW r \in Requests
    PROVE  /\ r.fn = "execute_action" => r \in ExecuteReq
           /\ r.fn = "spend" => r \in SpendReq
  BY RequestsAssumption DEF ExecuteReq, EvaluateReq, DispatchReq, SpendReq

\* The key an order is recorded under is a key of the map.
LEMMA RecordKeyType ==
    ASSUME NEW r \in Requests, r.fn = "execute_action"
    PROVE  RecordKey(r.idempotency_key) \in Keys \cup {None}
  BY RequestType DEF ExecuteReq, RecordKey, KeySupplied

\* Saturation keeps a running total within the width of u64.
LEMMA SaturatingAddType ==
    ASSUME NEW a \in Cents, NEW b \in Cents PROVE saturating_add(a, b) \in Cents
  BY BoundsAssumption DEF Cents, saturating_add

\* The count of failed kv-store calls stays within its bound.
LEMMA FaultType ==
    ASSUME TypeOK, KvOk \/ KvFault PROVE faults' \in 0..MaxFaults
  BY BoundsAssumption DEF TypeOK, KvOk, KvFault

\* Returning at once preserves the types.
LEMMA AnsweredType ==
    ASSUME TypeOK, NEW i \in Invocations, NEW r \in Requests, NEW ans \in Answers,
           KvOk \/ KvFault, Answered(i, r, ans)
    PROVE  TypeOK'
<1>1. [Idle EXCEPT !.state = "done", !.req = r, !.answer = ans] \in Invocation
  BY IdleType, StateNames DEF Idle, Invocation
<1>2. inv' \in [Invocations -> Invocation]
  BY <1>1 DEF TypeOK, Answered
<1> QED
  BY <1>2, FaultType DEF TypeOK, Answered, kv

\* Invalidating a transaction that read an entry preserves its type.
LEMMA InvalidatedType ==
    ASSUME NEW x \in Invocation, NEW e PROVE Invalidated(x, e) \in Invocation
<1>1. \A s \in BOOLEAN : [x EXCEPT !.stale = s] \in Invocation
  BY DEF Invocation
<1>2. (x.stale \/ e \in x.reads) \in BOOLEAN
  BY DEF Invocation
<1> QED
  BY <1>1, <1>2, Zenon DEF Invalidated

\* So does ending an invocation.
LEMMA FinishedType ==
    ASSUME NEW x \in Invocation, NEW st \in Ended, NEW ans \in Answers
    PROVE  Finished(x, st, ans) \in Invocation
  BY DEF Invocation, Finished

\* So does the answer of the server to its call.
LEMMA CalledType ==
    ASSUME NEW x \in Invocation, NEW st \in Running, NEW re \in Responses
    PROVE  [x EXCEPT !.state = st, !.response = re] \in Invocation
  BY DEF Invocation

\* And so does starting on a request.
LEMMA StartedType ==
    ASSUME NEW x \in Invocation, NEW r \in Requests, NEW t \in 0..MaxTime
    PROVE  [x EXCEPT !.req = r, !.at = t] \in Invocation
  BY DEF Invocation

\* Every variable keeps its type: in particular no running total leaves u64,
\* and a dispatch record is always one of the responses a call can have.
THEOREM TypeCorrect == Spec => []TypeOK
<1>1. Init => TypeOK
  BY IdleType, BoundsAssumption DEF Init, TypeOK, Cents
<1>2. ASSUME TypeOK, [Next]_vars PROVE TypeOK'
  <2>1. ASSUME NEW i \in Invocations, NEW r \in Requests, ExecuteErrs(i, r) PROVE TypeOK'
    BY <2>1, <1>2, AnsweredType, StateNames DEF ExecuteErrs
  <2>2. ASSUME NEW i \in Invocations, NEW r \in Requests, ExecuteRejects(i, r) PROVE TypeOK'
    BY <2>2, <1>2, AnsweredType, StateNames DEF ExecuteRejects
  <2>3. ASSUME NEW i \in Invocations, NEW r \in Requests, ExecuteReplays(i, r) PROVE TypeOK'
    <3> DEFINE k == RecordKey(r.idempotency_key)
               x == [Idle EXCEPT !.state = "done", !.req = r, !.key = k,
                                 !.answer = "replayed", !.response = Replayed(k)]
    <3>1. k \in Keys /\ Replayed(k) \in Responses \cup {None}
      BY <2>3, <1>2, RecordKeyType DEF ExecuteReplays, Replayed, TypeOK
    <3>2. x \in Invocation
      <4> HIDE DEF k
      <4> QED BY <3>1, IdleType, StateNames DEF Idle, Invocation
    <3>3. inv' = [inv EXCEPT ![i] = x]
      BY <2>3 DEF ExecuteReplays
    <3> QED
      BY <3>2, <3>3, <2>3, <1>2, FaultType DEF TypeOK, ExecuteReplays, kv
  <2>4. ASSUME NEW i \in Invocations, NEW r \in Requests, ExecuteLacksSecret(i, r) PROVE TypeOK'
    BY <2>4, <1>2, AnsweredType, StateNames DEF ExecuteLacksSecret, NoRecordSeen
  <2>5. ASSUME NEW i \in Invocations, NEW r \in Requests, ExecuteApproves(i, r) PROVE TypeOK'
    <3> DEFINE k == RecordKey(r.idempotency_key)
               c == mandate.credential_key
               au == Bearer(c, secrets)
               re(b) == ExecuteReads(k, b, c)
               x(b) == [[Idle EXCEPT !.state = "calling", !.mandate = mandate,
                                    !.key = k, !.blind = b,
                                    !.auth = au, !.reads = re(b)]
                          EXCEPT !.req = r, !.at = now]
    <3>1. PICK b \in BOOLEAN : NoRecordSeen(k, b) /\ inv' = [inv EXCEPT ![i] = x(b)]
      BY <2>5 DEF ExecuteApproves, Started
    <3>2. k \in Keys \cup {None}
      BY <2>5, RecordKeyType DEF ExecuteApproves
    <3>3. mandate \in Mandates /\ c \in Credentials \cup {""} /\ now \in 0..MaxTime
      BY <2>5, <1>2, MandatesAssumption DEF ExecuteApproves, TypeOK, Mandate
    <3>4. re(b) \in SUBSET Entries
      BY <3>2, <3>3 DEF ExecuteReads, Entries
    <3>5. x(b) \in Invocation
      <4>1. au \in Credentials \cup {None}
        BY <1>2 DEF Bearer, TypeOK
      <4> DEFINE y(bl, rs) == [Idle EXCEPT !.state = "calling", !.mandate = mandate, !.key = k,
                                           !.blind = bl, !.auth = au, !.reads = rs]
      <4>2. ASSUME NEW bl \in BOOLEAN, NEW rs \in SUBSET Entries
            PROVE  y(bl, rs) \in Invocation
        <5> HIDE DEF k, c, au, re
        <5> QED BY <3>2, <3>3, <4>1, IdleType, StateNames DEF Idle, Invocation
      <4>3. y(b, re(b)) \in Invocation
        BY <3>4, <4>2
      <4> QED
        BY <3>3, <4>3, StartedType
    <3> QED
      BY <3>1, <3>5, <2>5, <1>2, FaultType DEF TypeOK, ExecuteApproves, NoRecordSeen, kv
  <2>6. ASSUME NEW i \in Invocations, NEW r \in Requests, Evaluate(i, r) PROVE TypeOK'
    BY <2>6, <1>2, AnsweredType, StateNames DEF Evaluate
  <2>7. ASSUME NEW i \in Invocations, NEW r \in Requests, DispatchAction(i, r) PROVE TypeOK'
    <3>1. [[Idle EXCEPT !.state = "calling"] EXCEPT !.req = r, !.at = now] \in Invocation
      BY <1>2, IdleType, StateNames DEF Idle, Invocation, TypeOK
    <3> QED
      BY <3>1, <2>7, <1>2, FaultType DEF TypeOK, DispatchAction, Started, kv
  <2>8. ASSUME NEW i \in Invocations, NEW r \in Requests, Spend(i, r) PROVE TypeOK'
    <3> DEFINE d == day_bucket(now)
               after == saturating_add(spent[d], r.action.amount_cents)
               x == [[Idle EXCEPT !.state = "committing", !.reads = SpendReads(d),
                                  !.put = SpentEntry(d), !.total = after]
                       EXCEPT !.req = r, !.at = now]
    <3>1. CASE \/ KvFault /\ Answered(i, r, "error")
               \/ KvOk /\ Answered(i, r, "rejected")
      BY <3>1, <1>2, AnsweredType, StateNames
    <3>2. CASE Started(i, r, [Idle EXCEPT !.state = "committing", !.reads = SpendReads(d),
                                          !.put = SpentEntry(d), !.total = after])
               /\ KvOk /\ UNCHANGED <<kv, now>>
      <4>1. d \in Days /\ now \in 0..MaxTime
        BY <1>2 DEF TypeOK, Days
      <4>2. after \in Cents
        BY <4>1, <2>8, <1>2, RequestType, SaturatingAddType DEF TypeOK, Spend, SpendReq, Action
      <4>3. SpendReads(d) \in SUBSET Entries /\ SpentEntry(d) \in Entries
        BY <4>1 DEF SpendReads, Entries
      <4>4. x \in Invocation
        <5> HIDE DEF d, after
        <5> QED BY <4>1, <4>2, <4>3, IdleType, StateNames DEF Idle, Invocation
      <4> QED
        BY <4>4, <3>2, <1>2, FaultType DEF TypeOK, Started, kv
    <3> QED
      BY <2>8, <3>1, <3>2 DEF Spend
  <2>9. ASSUME NEW i \in Invocations, Call(i) PROVE TypeOK'
    <3>1. PICK re \in Responses :
             inv' = [inv EXCEPT ![i].state = "called", ![i].response = re]
      BY <2>9 DEF Call
    <3>2. [inv[i] EXCEPT !.state = "called", !.response = re] \in Invocation
      BY <1>2, StateNames, CalledType DEF TypeOK
    <3>3. inv' \in [Invocations -> Invocation]
      BY <3>1, <3>2, <1>2 DEF TypeOK
    <3> QED
      BY <3>3, <2>9, <1>2 DEF TypeOK, Call, kv
  <2>10. ASSUME NEW i \in Invocations, Record(i) PROVE TypeOK'
    <3>1. inv[i].key # None => RecordEntry(inv[i].key) \in Entries
      BY <1>2 DEF TypeOK, Invocation, Entries
    <3>2. inv' \in [Invocations -> Invocation]
      BY <3>1, <2>10, <1>2 DEF TypeOK, Record, Invocation, Running
    <3> QED
      BY <3>2, <2>10, <1>2, FaultType DEF TypeOK, Record, kv
  <2>11. ASSUME NEW i \in Invocations, Commit(i) PROVE TypeOK'
    <3>1. Finished(inv[i], "done", "approved") \in Invocation
      BY <1>2, FinishedType, StateNames DEF TypeOK
    <3>2. inv' \in [Invocations -> Invocation]
      BY <3>1, <2>11, <1>2, InvalidatedType DEF TypeOK, Commit
    <3>3. spent' \in [Days -> Cents] /\ dispatched' \in [Keys -> Responses \cup {None}]
      BY <2>11, <1>2 DEF TypeOK, Commit, Invocation
    <3> QED
      BY <3>2, <3>3, <2>11, <1>2 DEF TypeOK, Commit
  <2>12. ASSUME NEW i \in Invocations, WriteConflict(i) PROVE TypeOK'
    <3>1. Finished(inv[i], "conflict", "error") \in Invocation
      BY <1>2, FinishedType, StateNames DEF TypeOK
    <3> QED
      BY <3>1, <2>12, <1>2 DEF TypeOK, WriteConflict, kv
  <2>13. ASSUME NEW i \in Invocations, Crash(i) PROVE TypeOK'
    <3>1. Finished(inv[i], "crashed", "error") \in Invocation
      BY <1>2, FinishedType, StateNames DEF TypeOK
    <3> QED
      BY <3>1, <2>13, <1>2 DEF TypeOK, Crash, kv
  <2>14. ASSUME NEW m \in Mandates, SeedMandate(m) PROVE TypeOK'
    BY <2>14, <1>2, InvalidatedType DEF TypeOK, SeedMandate
  <2>15. ASSUME NEW c \in Credentials, SealSecret(c) PROVE TypeOK'
    BY <2>15, <1>2, InvalidatedType DEF TypeOK, SealSecret
  <2>16. ASSUME Tick PROVE TypeOK'
    BY <2>16, <1>2, BoundsAssumption DEF TypeOK, Tick, kv
  <2>17. ASSUME UNCHANGED vars PROVE TypeOK'
    BY <2>17, <1>2 DEF TypeOK, vars
  <2> QED
    BY <1>2, <2>1, <2>2, <2>3, <2>4, <2>5, <2>6, <2>7, <2>8, <2>9, <2>10,
       <2>11, <2>12, <2>13, <2>14, <2>15, <2>16, <2>17 DEF Next
<1>3. QED
  BY <1>1, <1>2, PTL DEF Spec

-----------------------------------------------------------------------------
(* What an invocation's own record says of it, whatever the maps hold.     *)

\* Record x is that of an execute_action.
Executes(x) == x.req # None /\ x.req.fn = "execute_action"

\* The outbound call of x has been made by x itself.
Emitted(x) == x.response # None /\ x.answer # "replayed"

\* The state fixes what x may already have sent and put; an execute_action
\* that runs is authorised, has read the mandate, and has read the record of
\* its key unless it is blind.
Sound(x) ==
    /\ x.state = "idle" <=> x.req = None
    /\ x.state \in {"idle", "calling"} => x.response = None
    /\ x.state \in {"idle", "calling", "called"} => x.put = None
    /\ Executes(x) =>
          /\ x.put # None => x.key # None /\ x.put = RecordEntry(x.key)
          /\ x.put # None \/ x.state \in {"called", "committing"} => Emitted(x)
          /\ x.state \in Running \/ Emitted(x) => OrderAuthorised(x)
          /\ x.state \in Running => MandateEntry \in x.reads
          /\ x.state \in Running /\ x.key # None /\ ~x.blind => RecordEntry(x.key) \in x.reads
    /\ x.state = "calling" \/ x.state = "called" => x.answer = None
    /\ ~Executes(x) => x.auth = None /\ x.answer # "replayed"
    /\ x.key # None => Executes(x)
    /\ x.put # None /\ ~Executes(x) => x.req.fn = "spend"

\* A request is not the absent one.
LEMMA RequestIsThere == ASSUME NEW r \in Requests PROVE r # None
  BY NoneAssumption

\* An invocation that returns at once is sound: it has sent and put nothing.
LEMMA AnsweredSound ==
    ASSUME NEW r \in Requests, NEW ans \in Answers, ans # "replayed"
    PROVE  Sound([Idle EXCEPT !.state = "done", !.req = r, !.answer = ans])
  BY RequestIsThere DEF Sound, Idle, Executes, Emitted, Running

\* Whether an order is authorised is settled by these five fields.
LEMMA AuthorisationIsSettled ==
    ASSUME NEW x, NEW y, x.req = y.req, x.at = y.at, x.mandate = y.mandate,
           x.key = y.key, x.auth = y.auth, OrderAuthorised(x)
    PROVE  OrderAuthorised(y)
  BY DEF OrderAuthorised

\* Invalidation changes only the stale mark.
LEMMA InvalidatedSound ==
    ASSUME NEW x \in Invocation, NEW e, Sound(x)
    PROVE  Sound(Invalidated(x, e))
<1> DEFINE y == Invalidated(x, e)
<1>1. /\ y.state = x.state /\ y.req = x.req /\ y.at = x.at /\ y.mandate = x.mandate
      /\ y.key = x.key /\ y.auth = x.auth /\ y.reads = x.reads /\ y.blind = x.blind
      /\ y.answer = x.answer /\ y.response = x.response /\ y.put = x.put
  BY DEF Invalidated, Invocation
<1> HIDE DEF y
<1>2. (Executes(y) <=> Executes(x)) /\ (Emitted(y) <=> Emitted(x))
  BY <1>1 DEF Executes, Emitted
<1>3. OrderAuthorised(x) => OrderAuthorised(y)
  BY <1>1, AuthorisationIsSettled
<1>4. Sound(y)
  BY <1>1, <1>2, <1>3 DEF Sound
<1> QED
  BY <1>4 DEF y

\* A running invocation that ends, however it ends, stays sound.
LEMMA FinishedSound ==
    ASSUME NEW x \in Invocation, NEW st \in Ended, NEW ans \in Answers,
           ans # "replayed", x.state \in Running, Sound(x)
    PROVE  Sound(Finished(x, st, ans))
<1> DEFINE y == Finished(x, st, ans)
<1>1. /\ y.state = st /\ y.answer = ans
      /\ y.req = x.req /\ y.at = x.at /\ y.mandate = x.mandate /\ y.key = x.key
      /\ y.auth = x.auth /\ y.response = x.response /\ y.put = x.put
  BY DEF Finished, Invocation
<1>2. st \notin Running /\ st \notin {"idle", "calling", "called", "committing"}
  BY DEF Ended, Running
<1>3. x.state # "idle"
  BY DEF Running
<1> HIDE DEF y
<1>4. (Executes(y) <=> Executes(x)) /\ (Emitted(x) => Emitted(y))
  BY <1>1 DEF Executes, Emitted
<1>5. OrderAuthorised(x) => OrderAuthorised(y)
  BY <1>1, AuthorisationIsSettled
<1>6. Sound(y)
  BY <1>1, <1>2, <1>3, <1>4, <1>5 DEF Sound
<1> QED
  BY <1>6 DEF y

\* What a list of the mandate permits.
LEMMA ListsNames ==
    ASSUME NEW list, NEW n
    PROVE  /\ n # None /\ list_allows(list, n) => Lists(list, n)
           /\ opt_in_allows(list, n) /\ list # {} => Lists(list, n)
  BY DEF Lists, list_allows, opt_in_allows

\* decide finds no reason against the terms, so the mandate permits them.
LEMMA DecidedTerms ==
    ASSUME NEW a \in Action, NEW m \in Mandate, NEW t \in Nat, decide(a, m, t) = {}
    PROVE  TermsPermitted(a, m, t)
<1>1. \A gate \in Gates : ~Fails(gate, a, m, t)
  BY DEF decide
<1>2. /\ m.max_amount_cents \in Nat /\ a.amount_cents \in Nat
      /\ m.expires_at_secs \in Nat /\ m.valid_after_secs \in Nat
      /\ a.kind # None /\ a.asset # None
  <2>1. /\ m.max_amount_cents \in Cents /\ a.amount_cents \in Cents
        /\ m.expires_at_secs \in Nat /\ m.valid_after_secs \in Nat
    BY DEF Mandate, Action
  <2>2. Cents \subseteq Nat
    BY BoundsAssumption DEF Cents
  <2>3. a.kind # None /\ a.asset # None
    BY NoneAssumption DEF Action
  <2> QED
    BY <2>1, <2>2, <2>3
<1>3. a.amount_cents <= m.max_amount_cents
  <2>1. ~Fails("amount", a, m, t)
    BY <1>1 DEF Gates
  <2> QED
    BY <2>1, <1>2 DEF Fails, OverCap
<1>4. ASSUME NEW cap \in Cents, a.counterparty # None,
             m.counterparty_limits[a.counterparty] = cap
      PROVE  a.amount_cents <= cap
  <2>1. ~Fails("sub_limit", a, m, t)
    BY <1>1 DEF Gates
  <2>2. cap # None /\ cap \in Nat
    BY NoneAssumption, BoundsAssumption DEF Cents
  <2> QED
    BY <2>1, <2>2, <1>2, <1>4 DEF Fails, OverSubLimit
<1>5. Lists(m.allowed_kinds, a.kind) /\ Lists(m.allowed_assets, a.asset)
  <2>1. ~Fails("kind", a, m, t) /\ ~Fails("asset", a, m, t)
    BY <1>1 DEF Gates
  <2>2. list_allows(m.allowed_kinds, a.kind) /\ list_allows(m.allowed_assets, a.asset)
    BY <2>1 DEF Fails
  <2> QED
    BY <2>2, <1>2, ListsNames
<1>6. /\ m.allowed_counterparties # {} => Lists(m.allowed_counterparties, a.counterparty)
      /\ m.allowed_issuers # {} => Lists(m.allowed_issuers, a.issuer)
  <2>1. ~Fails("counterparty", a, m, t) /\ ~Fails("issuer", a, m, t)
    BY <1>1 DEF Gates
  <2>2. /\ opt_in_allows(m.allowed_counterparties, a.counterparty)
        /\ opt_in_allows(m.allowed_issuers, a.issuer)
    BY <2>1 DEF Fails
  <2> QED
    BY <2>2, ListsNames
<1>7. /\ m.valid_after_secs <= t
      /\ m.expires_at_secs # 0 => t <= m.expires_at_secs
  <2>1. ~Fails("expired", a, m, t) /\ ~Fails("not_active", a, m, t)
    BY <1>1 DEF Gates
  <2> QED
    BY <2>1, <1>2 DEF Fails
<1> QED
  BY <1>3, <1>4, <1>5, <1>6, <1>7 DEF TermsPermitted

\* The binding that is accepted was issued over the order, by an issuer the
\* mandate trusts: the one the mandate judged is the one inside it.
LEMMA HeldBinding ==
    ASSUME NEW r \in ExecuteReq, NEW m \in Mandate, NEW t \in Nat, Approves(r, m, t),
           r.credential # None
    PROVE  BoundTo(r.credential, r.action, m)
<1> DEFINE a == r.action
           c == r.credential
<1>1. /\ c.nonce # ""
      /\ c.commitment = expected_commitment(c, a)
      /\ a.issuer \in {None, c.issuer}
  BY DEF Approves, BindingHolds
<1>2. a \in Action
  BY DEF ExecuteReq
<1>3. m.allowed_issuers # {} => Lists(m.allowed_issuers, a.issuer)
  <2>1. decide(a, m, t) = {}
    BY DEF Approves
  <2> QED
    BY <1>2, <2>1, DecidedTerms DEF TermsPermitted
<1>4. m.allowed_issuers # {} => Lists(m.allowed_issuers, c.issuer)
  BY <1>1, <1>3 DEF Lists
<1> QED
  BY <1>1, <1>4 DEF BoundTo, expected_commitment

\* The order that was approved under m, with the header built from what it
\* names, is authorised by m.
LEMMA ApprovedIsAuthorised ==
    ASSUME NEW x, NEW r \in ExecuteReq, NEW m \in Mandate, NEW t \in Nat, NEW sealed,
           Approves(r, m, t), AuthAvailable(m.credential_key, sealed),
           x.req = r, x.mandate = m, x.at = t, x.key = RecordKey(r.idempotency_key),
           x.auth = Bearer(m.credential_key, sealed)
    PROVE  OrderAuthorised(x)
<1>1. r.action \in Action /\ m.require_credential \in BOOLEAN
      /\ m.require_idempotency_key \in BOOLEAN
  BY DEF ExecuteReq, Mandate
<1>2. TermsPermitted(r.action, m, t)
  BY <1>1, DecidedTerms DEF Approves
<1>3. r.credential = None => ~m.require_credential
  BY <1>1 DEF Approves, BindingHolds
<1>4. r.credential # None => BoundTo(r.credential, r.action, m)
  BY HeldBinding
<1>5. x.key = None => ~m.require_idempotency_key /\ ~KeySupplied(r.idempotency_key)
  <2>1. IdempotencyHolds(r.idempotency_key, m.require_idempotency_key)
    BY DEF Approves
  <2>2. KeySupplied(r.idempotency_key) => r.idempotency_key.text # None
    BY NoneAssumption DEF KeySupplied, ExecuteReq
  <2> QED
    BY <2>1, <2>2, <1>1 DEF IdempotencyHolds, RecordKey
<1>6. x.auth = NamedCredential(m)
  BY DEF AuthAvailable, Bearer, NamedCredential
<1> QED
  BY <1>2, <1>3, <1>4, <1>5, <1>6 DEF OrderAuthorised

\* The invariant: every invocation is sound.
SoundInv == \A i \in Invocations : Sound(inv[i])

\* A step that replaces one record by a sound one keeps all of them sound.
LEMMA OneBecomesSound ==
    ASSUME TypeOK, SoundInv, NEW i \in Invocations, NEW y, Sound(y),
           inv' = [inv EXCEPT ![i] = y]
    PROVE  SoundInv'
<1> SUFFICES ASSUME NEW j \in Invocations PROVE Sound(inv'[j])
  BY DEF SoundInv
<1>1. CASE j = i
  BY <1>1 DEF TypeOK
<1>2. CASE j # i
  BY <1>2 DEF TypeOK, SoundInv
<1> QED
  BY <1>1, <1>2

\* Every invocation is sound in every reachable state.
LEMMA SoundCorrect == Spec => []SoundInv
<1>1. Init => SoundInv
  <2>1. /\ Idle.state = "idle" /\ Idle.req = None /\ Idle.key = None /\ Idle.auth = None
        /\ Idle.answer = None /\ Idle.response = None /\ Idle.put = None
    BY DEF Idle
  <2>2. Sound(Idle)
    BY <2>1, StateNames, NoneAssumption DEF Sound, Executes, Emitted, Running
  <2> QED
    BY <2>2 DEF Init, SoundInv
<1>2. ASSUME TypeOK, SoundInv, [Next]_vars PROVE SoundInv'
  <2>1. ASSUME NEW i \in Invocations, NEW r \in Requests, NEW ans \in Answers,
               ans # "replayed", Answered(i, r, ans)
        PROVE  SoundInv'
    BY <2>1, <1>2, AnsweredSound, OneBecomesSound DEF Answered
  <2>2. ASSUME NEW i \in Invocations, NEW r \in Requests, ExecuteReplays(i, r) PROVE SoundInv'
    <3> DEFINE k == RecordKey(r.idempotency_key)
               y == [Idle EXCEPT !.state = "done", !.req = r, !.key = k,
                                 !.answer = "replayed", !.response = Replayed(k)]
    <3>1. r.fn = "execute_action" /\ inv' = [inv EXCEPT ![i] = y]
      BY <2>2 DEF ExecuteReplays
    <3>2. Sound(y)
      <4> HIDE DEF k
      <4> QED BY <3>1, RequestIsThere DEF Sound, Idle, Executes, Emitted, Running
    <3> QED
      BY <3>1, <3>2, <1>2, OneBecomesSound
  <2>3. ASSUME NEW i \in Invocations, NEW r \in Requests, ExecuteApproves(i, r) PROVE SoundInv'
    <3> DEFINE k == RecordKey(r.idempotency_key)
               c == mandate.credential_key
               au == Bearer(c, secrets)
               re(b) == ExecuteReads(k, b, c)
               y(b) == [[Idle EXCEPT !.state = "calling", !.mandate = mandate,
                                    !.key = k, !.blind = b,
                                    !.auth = au, !.reads = re(b)]
                          EXCEPT !.req = r, !.at = now]
    <3>1. PICK b \in BOOLEAN : inv' = [inv EXCEPT ![i] = y(b)]
      BY <2>3 DEF ExecuteApproves, Started
    <3>2. /\ r \in ExecuteReq /\ r.fn = "execute_action" /\ mandate \in Mandate /\ now \in Nat
          /\ Approves(r, mandate, now) /\ AuthAvailable(mandate.credential_key, secrets)
      BY <2>3, <1>2, RequestType, MandatesAssumption, BoundsAssumption DEF ExecuteApproves, TypeOK
    <3>3. /\ MandateEntry \in re(b)
          /\ k # None /\ ~b => RecordEntry(k) \in re(b)
      BY DEF ExecuteReads
    <3>4. /\ y(b).state = "calling" /\ y(b).req = r /\ y(b).at = now /\ y(b).mandate = mandate
          /\ y(b).key = k /\ y(b).blind = b /\ y(b).auth = au /\ y(b).reads = re(b)
          /\ y(b).answer = None /\ y(b).response = None /\ y(b).put = None
      <4> HIDE DEF k, c, au, re
      <4> QED BY DEF Idle
    <3>5. OrderAuthorised(y(b))
      <4> HIDE DEF y
      <4>1. y(b).key = RecordKey(r.idempotency_key) /\ y(b).auth = Bearer(mandate.credential_key, secrets)
        BY <3>4
      <4> QED BY <4>1, <3>2, <3>4, ApprovedIsAuthorised
    <3>6. Sound(y(b))
      <4> HIDE DEF y, k, re
      <4> QED BY <3>2, <3>3, <3>4, <3>5, RequestIsThere DEF Sound, Executes, Emitted
    <3> QED
      BY <3>1, <3>6, <1>2, OneBecomesSound
  <2>4. ASSUME NEW i \in Invocations, NEW r \in Requests, DispatchAction(i, r) PROVE SoundInv'
    <3> DEFINE y == [[Idle EXCEPT !.state = "calling"] EXCEPT !.req = r, !.at = now]
    <3>1. /\ y.state = "calling" /\ y.req = r /\ y.key = None /\ y.auth = None
          /\ y.answer = None /\ y.response = None /\ y.put = None
      BY DEF Idle
    <3>2. r.fn = "dispatch_action" /\ inv' = [inv EXCEPT ![i] = y]
      BY <2>4 DEF DispatchAction, Started
    <3>3. Sound(y)
      <4> HIDE DEF y
      <4> QED BY <3>1, <3>2, RequestIsThere, StateNames, NoneAssumption DEF Sound, Executes, Emitted
    <3> QED
      BY <3>2, <3>3, <1>2, OneBecomesSound
  <2>5. ASSUME NEW i \in Invocations, NEW r \in Requests, Spend(i, r) PROVE SoundInv'
    <3> DEFINE d == day_bucket(now)
               after == saturating_add(spent[d], r.action.amount_cents)
               y == [[Idle EXCEPT !.state = "committing", !.reads = SpendReads(d),
                                  !.put = SpentEntry(d), !.total = after]
                       EXCEPT !.req = r, !.at = now]
    <3>1. Sound(y)
      <4>1. r.fn = "spend"
        BY <2>5 DEF Spend
      <4>2. /\ y.state = "committing" /\ y.req = r /\ y.key = None /\ y.auth = None
            /\ y.answer = None /\ y.response = None
        <5> HIDE DEF d, after
        <5> QED BY DEF Idle
      <4> HIDE DEF y
      <4> QED BY <4>1, <4>2, RequestIsThere, StateNames, NoneAssumption DEF Sound, Executes, Emitted
    <3>2. CASE inv' = [inv EXCEPT ![i] = y]
      BY <3>1, <3>2, <1>2, OneBecomesSound
    <3> QED
      BY <2>1, <2>5, <3>2, StateNames DEF Spend, Started
  <2>6. ASSUME NEW i \in Invocations, Call(i) PROVE SoundInv'
    <3> DEFINE x == inv[i]
    <3>1. PICK re \in Responses : inv' = [inv EXCEPT ![i] = [x EXCEPT !.state = "called", !.response = re]]
      BY <2>6, <1>2 DEF Call, TypeOK, Invocation
    <3> DEFINE y == [x EXCEPT !.state = "called", !.response = re]
    <3>2. /\ y.state = "called" /\ y.response = re /\ re # None
          /\ y.req = x.req /\ y.at = x.at /\ y.mandate = x.mandate /\ y.key = x.key
          /\ y.auth = x.auth /\ y.reads = x.reads /\ y.blind = x.blind
          /\ y.answer = x.answer /\ y.put = x.put
      BY <1>2, NoneAssumption DEF TypeOK, Invocation
    <3>3. x.state = "calling" /\ Sound(x)
      BY <2>6, <1>2 DEF Call, SoundInv
    <3> HIDE DEF x, y
    <3>4. Executes(y) <=> Executes(x)
      BY <3>2 DEF Executes
    <3>5. OrderAuthorised(x) => OrderAuthorised(y)
      BY <3>2, AuthorisationIsSettled
    <3>6. Sound(y)
      BY <3>2, <3>3, <3>4, <3>5, StateNames, NoneAssumption DEF Sound, Emitted, Running
    <3> QED
      BY <3>1, <3>6, <1>2, OneBecomesSound DEF y
  <2>7. ASSUME NEW i \in Invocations, Record(i) PROVE SoundInv'
    <3> DEFINE x == inv[i]
    <3>1. PICK p \in Entries \cup {None} :
             /\ p # None => x.key # None /\ p = RecordEntry(x.key)
             /\ inv' = [inv EXCEPT ![i] = [x EXCEPT !.state = "committing", !.put = p]]
      <4>1. x.put = None /\ x \in Invocation
        BY <2>7, <1>2 DEF Record, SoundInv, Sound, TypeOK
      <4>2. CASE inv' = [inv EXCEPT ![i].state = "committing"]
        <5>1. [x EXCEPT !.state = "committing"] = [x EXCEPT !.state = "committing", !.put = None]
          BY <4>1 DEF Invocation
        <5> QED BY <4>2, <5>1
      <4>3. CASE /\ x.key # None
                 /\ inv' = [inv EXCEPT ![i].state = "committing", ![i].put = RecordEntry(x.key)]
        <5>1. RecordEntry(x.key) \in Entries
          BY <4>1, <4>3 DEF Invocation, Entries
        <5>2. inv' = [inv EXCEPT ![i] = [x EXCEPT !.state = "committing", !.put = RecordEntry(x.key)]]
          BY <4>3, <1>2 DEF TypeOK
        <5> QED BY <4>3, <5>1, <5>2
      <4> QED
        BY <2>7, <4>2, <4>3 DEF Record
    <3> DEFINE y == [x EXCEPT !.state = "committing", !.put = p]
    <3>2. /\ y.state = "committing" /\ y.put = p
          /\ y.req = x.req /\ y.at = x.at /\ y.mandate = x.mandate /\ y.key = x.key
          /\ y.auth = x.auth /\ y.reads = x.reads /\ y.blind = x.blind
          /\ y.answer = x.answer /\ y.response = x.response
      BY <1>2 DEF TypeOK, Invocation
    <3>3. x.state = "called" /\ Sound(x)
      BY <2>7, <1>2 DEF Record, SoundInv
    <3>4. p # None => Executes(x)
      BY <3>1, <3>3 DEF Sound
    <3> HIDE DEF x, y
    <3>5. (Executes(y) <=> Executes(x)) /\ (Emitted(y) <=> Emitted(x))
      BY <3>2 DEF Executes, Emitted
    <3>6. OrderAuthorised(x) => OrderAuthorised(y)
      BY <3>2, AuthorisationIsSettled
    <3>7. Sound(y)
      BY <3>1, <3>2, <3>3, <3>4, <3>5, <3>6, StateNames DEF Sound, Running
    <3> QED
      BY <3>1, <3>7, <1>2, OneBecomesSound DEF y
  <2>8. ASSUME NEW i \in Invocations, NEW st \in Ended, NEW ans \in Answers, ans # "replayed",
               inv[i].state \in Running
        PROVE  Sound(Finished(inv[i], st, ans))
    BY <2>8, <1>2, FinishedSound DEF TypeOK, SoundInv
  <2>9. ASSUME NEW i \in Invocations, Commit(i) PROVE SoundInv'
    <3>1. Sound(Finished(inv[i], "done", "approved"))
      BY <2>8, <2>9, StateNames DEF Commit
    <3>2. \A j \in Invocations : \A e : Sound(Invalidated(inv[j], e))
      BY <1>2, InvalidatedSound DEF TypeOK, SoundInv
    <3>3. \A j \in Invocations : Sound(inv'[j])
      BY <3>1, <3>2, <2>9, <1>2 DEF Commit, TypeOK, SoundInv
    <3> QED
      BY <3>3 DEF SoundInv
  <2>10. ASSUME NEW i \in Invocations, WriteConflict(i) \/ Crash(i) PROVE SoundInv'
    <3>1. inv[i].state \in Running
      BY <2>10, StateNames DEF WriteConflict, Crash
    <3>2. \A st \in {"conflict", "crashed"} : Sound(Finished(inv[i], st, "error"))
      BY <2>8, <3>1, StateNames
    <3> QED
      BY <3>2, <2>10, <1>2, OneBecomesSound DEF WriteConflict, Crash
  <2>11. ASSUME NEW e, inv' = [i \in Invocations |-> Invalidated(inv[i], e)] PROVE SoundInv'
    BY <2>11, <1>2, InvalidatedSound DEF TypeOK, SoundInv
  <2>12. ASSUME UNCHANGED inv PROVE SoundInv'
    BY <2>12, <1>2 DEF SoundInv
  <2>13. ASSUME Next PROVE SoundInv'
    <3>1. ASSUME NEW i \in Invocations, NEW r \in Requests,
                 \/ ExecuteErrs(i, r) \/ ExecuteRejects(i, r) \/ ExecuteLacksSecret(i, r)
                 \/ Evaluate(i, r)
          PROVE  SoundInv'
      BY <3>1, <2>1, StateNames
         DEF ExecuteErrs, ExecuteRejects, ExecuteLacksSecret, Evaluate
    <3> QED
      BY <3>1, <2>2, <2>3, <2>4, <2>5, <2>6, <2>7, <2>9, <2>10, <2>11, <2>12, <2>13
         DEF Next, SeedMandate, SealSecret, Tick
  <2> QED
    BY <2>12, <2>13, <1>2 DEF vars
<1>3. QED
  BY <1>1, <1>2, TypeCorrect, PTL DEF Spec

\* No order leaves the enclave that the mandate read at its start, the
\* credential presented or the sealed secret does not justify.
THEOREM EffectsAreAuthorised == Spec => []EffectsWereAuthorised
<1>1. SoundInv => EffectsWereAuthorised
  BY DEF SoundInv, EffectsWereAuthorised, Sound, Sent, Is, Executes, Emitted
<1>2. QED
  BY <1>1, SoundCorrect, PTL

-----------------------------------------------------------------------------
(* The daily total                                                         *)

\* Record x is that of a spend, and of one that was admitted.
Spends(x) == x.req # None /\ x.req.fn = "spend"
Paid(x) == Spends(x) /\ x.answer = "approved"

\* A spend never calls out; while it commits it has read the total it is about
\* to write, which is within its own limit, and it is admitted only at its end.
SpendSound(x) ==
    Spends(x) =>
       /\ x.state \notin {"calling", "called"}
       /\ x.state = "committing" =>
             /\ x.answer = None
             /\ x.put = SpentEntry(day_bucket(x.at))
             /\ x.put \in x.reads
             /\ x.total <= x.req.daily_limit_cents
       /\ x.answer = "approved" => x.state = "done"

\* A committing spend nobody has invalidated adds to the total there is.
UpToDate(x, totals) ==
    (Spends(x) /\ x.state = "committing" /\ ~x.stale) =>
        x.total = saturating_add(totals[day_bucket(x.at)], x.req.action.amount_cents)

\* What is kept of every invocation.
SpendsInv == \A i \in Invocations : SpendSound(inv[i]) /\ UpToDate(inv[i], spent)

\* What is kept of every day.
CountInv ==
    \A d \in Days :
        /\ IsFiniteSet(PaidCents(d))
        /\ spent[d] = LET total == Cardinality(PaidCents(d))
                      IN  IF total > MaxU64 THEN MaxU64 ELSE total

\* The step leaves the admitted spends, and what they paid, as they are.
SamePaid ==
    \A j \in Invocations :
        /\ Paid(inv'[j]) <=> Paid(inv[j])
        /\ Paid(inv[j]) => inv'[j].req = inv[j].req /\ inv'[j].at = inv[j].at

\* Neither of the two totals changes then.
LEMMA SamePaidKeeps ==
    ASSUME SamePaid, UNCHANGED spent
    PROVE  /\ CountInv => CountInv'
           /\ SpentWithinALimit => SpentWithinALimit'
<1>1. ASSUME NEW d \in Days
      PROVE  Admitted(d)' = Admitted(d)
  BY DEF Admitted, SamePaid, Paid, Spends, Is
<1>2. ASSUME NEW d \in Days, NEW i \in Admitted(d)
      PROVE  inv'[i].req = inv[i].req
  BY DEF Admitted, SamePaid, Paid, Spends, Is
<1>3. ASSUME NEW d \in Days
      PROVE  PaidCents(d)' = PaidCents(d)
  BY <1>1, <1>2 DEF PaidCents
<1>4. CountInv => CountInv'
  BY <1>3 DEF CountInv
<1>5. SpentWithinALimit => SpentWithinALimit'
  BY <1>1, <1>2 DEF SpentWithinALimit
<1> QED
  BY <1>4, <1>5

\* One record changes into that of no admitted spend.
LEMMA OneChanges ==
    ASSUME TypeOK, SpendsInv, NEW i \in Invocations, NEW y,
           inv' = [inv EXCEPT ![i] = y], UNCHANGED spent,
           SpendSound(y), UpToDate(y, spent), ~Paid(inv[i]), ~Paid(y)
    PROVE  SpendsInv' /\ SamePaid
<1>1. \A j \in Invocations : inv'[j] = IF j = i THEN y ELSE inv[j]
  BY DEF TypeOK
<1>3. SpendsInv'
  BY <1>1 DEF SpendsInv
<1> QED
  BY <1>1, <1>3 DEF SamePaid

\* Records of spends that are invalidated, or left alone.
LEMMA InvalidatedSpend ==
    ASSUME NEW x \in Invocation, NEW e, NEW y, y = Invalidated(x, e)
    PROVE  /\ Spends(y) <=> Spends(x)
           /\ Paid(y) <=> Paid(x)
           /\ y.req = x.req /\ y.at = x.at /\ y.state = x.state
           /\ y.answer = x.answer /\ y.total = x.total
           /\ SpendSound(x) => SpendSound(y)
           /\ ~y.stale => ~x.stale /\ e \notin x.reads
<1>1. /\ y.state = x.state /\ y.req = x.req /\ y.at = x.at /\ y.reads = x.reads
      /\ y.answer = x.answer /\ y.put = x.put /\ y.total = x.total
      /\ y.stale = (x.stale \/ e \in x.reads)
  BY DEF Invalidated, Invocation
<1>2. Spends(y) <=> Spends(x)
  BY <1>1 DEF Spends
<1> QED
  BY <1>1, <1>2 DEF Paid, SpendSound

\* A write that invalidates what others read admits no spend.
LEMMA InvalidationKeeps ==
    ASSUME TypeOK, SpendsInv, NEW e,
           inv' = [i \in Invocations |-> Invalidated(inv[i], e)], UNCHANGED spent
    PROVE  SpendsInv' /\ SamePaid
<1>1. \A j \in Invocations : inv[j] \in Invocation /\ inv'[j] = Invalidated(inv[j], e)
  BY DEF TypeOK
<1>2. ASSUME NEW j \in Invocations PROVE SpendSound(inv'[j]) /\ UpToDate(inv'[j], spent')
  BY <1>1, InvalidatedSpend DEF SpendsInv, UpToDate
<1>3. SamePaid
  BY <1>1, InvalidatedSpend DEF SamePaid
<1> QED
  BY <1>2, <1>3 DEF SpendsInv

\* Ending what is no admitted spend.
LEMMA FinishedSpend ==
    ASSUME NEW x \in Invocation, NEW st \in Ended, NEW ans \in Answers,
           st = "done" \/ ans # "approved"
    PROVE  /\ SpendSound(Finished(x, st, ans))
           /\ UpToDate(Finished(x, st, ans), spent)
           /\ Paid(Finished(x, st, ans)) <=> Spends(x) /\ ans = "approved"
           /\ Finished(x, st, ans).req = x.req
           /\ Finished(x, st, ans).at = x.at
<1> DEFINE y == Finished(x, st, ans)
<1>1. y.state = st /\ y.answer = ans /\ y.req = x.req /\ y.at = x.at
  BY DEF Finished, Invocation
<1>2. st \notin {"calling", "called", "committing"}
  BY DEF Ended
<1> HIDE DEF y
<1>3. SpendSound(y) /\ UpToDate(y, spent) /\ (Paid(y) <=> Spends(x) /\ ans = "approved")
  BY <1>1, <1>2 DEF SpendSound, UpToDate, Paid, Spends
<1> QED
  BY <1>1, <1>3 DEF y

\* An admitted spend adds its cents to those of its day, and to no other's.
LEMMA PaysItsCents ==
    ASSUME NEW S, IsFiniteSet(S), NEW i, NEW n \in Nat,
           \A p \in S : p[1] # i
    PROVE  LET T == S \cup ({i} \X (1 .. n))
           IN  IsFiniteSet(T) /\ Cardinality(T) = Cardinality(S) + n
<1> DEFINE new == {i} \X (1 .. n)
<1>1. IsFiniteSet({i}) /\ Cardinality({i}) = 1
  BY FS_Singleton
<1>2. IsFiniteSet(1 .. n) /\ Cardinality(1 .. n) = n
  BY FS_Interval
<1>3. IsFiniteSet(new) /\ Cardinality(new) = n
  <2> DEFINE A == {i}
             B == 1 .. n
  <2>1. IsFiniteSet(A) /\ Cardinality(A) = 1 /\ IsFiniteSet(B) /\ Cardinality(B) = n
    BY <1>1, <1>2
  <2> HIDE DEF A, B
  <2>2. IsFiniteSet(A \X B) /\ Cardinality(A \X B) = Cardinality(A) * Cardinality(B)
    BY <2>1, FS_Product
  <2>3. IsFiniteSet(A \X B) /\ Cardinality(A \X B) = n
    BY <2>1, <2>2
  <2> QED
    BY <2>3 DEF A, B
<1>4. S \cap new = {}
  OBVIOUS
<1>5. Cardinality(S \cap new) = 0
  BY <1>4, FS_EmptySet
<1>6. Cardinality(S) \in Nat
  BY FS_CardinalityType
<1> HIDE DEF new
<1>7. IsFiniteSet(S \cup new) /\ Cardinality(S \cup new) = Cardinality(S) + Cardinality(new) - Cardinality(S \cap new)
  BY <1>3, FS_Union
<1>8. Cardinality(S \cup new) = Cardinality(S) + n
  BY <1>3, <1>5, <1>6, <1>7
<1> QED
  BY <1>7, <1>8 DEF new

\* The two facts about spends, from the invariants they need: what is committed
\* is what is summed, and no more than a limit somebody asked for.
LEMMA SpendsAddUp == Spec => []SpentIsCommittedSum /\ []SpentWithinALimit
<1> DEFINE Inv == SpendsInv /\ CountInv /\ SpentWithinALimit
<1>1. Init => Inv
  <2> SUFFICES ASSUME Init PROVE Inv
    OBVIOUS
  <2>1. \A i \in Invocations : ~Spends(inv[i])
    BY DEF Init, Idle, Spends
  <2>2. SpendsInv
    BY <2>1 DEF SpendsInv, SpendSound, UpToDate
  <2>3. \A d \in Days : Admitted(d) = {} /\ spent[d] = 0
    BY <2>1 DEF Init, Admitted, Spends, Is
  <2>4. \A d \in Days : PaidCents(d) = {}
    BY <2>3 DEF PaidCents
  <2>5. CountInv
    BY <2>3, <2>4, FS_EmptySet, BoundsAssumption DEF CountInv
  <2> QED
    BY <2>2, <2>3, <2>5 DEF SpentWithinALimit
<1>2. ASSUME TypeOK, SoundInv, Inv, [Next]_vars PROVE Inv'
  \* All steps but the commit of a spend leave the totals alone.
  <2>1. ASSUME SpendsInv', SamePaid, UNCHANGED spent PROVE Inv'
    BY <2>1, <1>2, SamePaidKeeps
  <2>2. ASSUME NEW i \in Invocations, NEW r \in Requests, NEW ans \in Answers,
               inv[i].state = "idle", Answered(i, r, ans),
               r.fn = "spend" => ans # "approved"
        PROVE  Inv'
    <3> DEFINE y == [Idle EXCEPT !.state = "done", !.req = r, !.answer = ans]
    <3>1. y.state = "done" /\ y.req = r /\ y.answer = ans
      BY DEF Idle
    <3>2. inv' = [inv EXCEPT ![i] = y] /\ UNCHANGED spent
      BY <2>2 DEF Answered, kv
    <3>3. ~Paid(inv[i])
      BY <2>2, <1>2 DEF SpendsInv, SpendSound, Paid
    <3> HIDE DEF y
    <3>4. SpendSound(y) /\ UpToDate(y, spent) /\ ~Paid(y)
      BY <3>1, <2>2 DEF SpendSound, UpToDate, Paid, Spends
    <3> QED
      BY <3>2, <3>3, <3>4, <1>2, <2>1, OneChanges
  <2>3. ASSUME NEW i \in Invocations, NEW y, inv' = [inv EXCEPT ![i] = y],
               ~Spends(inv[i]), ~Spends(y), UNCHANGED spent
        PROVE  Inv'
    <3>1. SpendSound(y) /\ UpToDate(y, spent) /\ ~Paid(inv[i]) /\ ~Paid(y)
      BY <2>3 DEF SpendSound, UpToDate, Paid
    <3> QED
      BY <3>1, <2>3, <1>2, <2>1, OneChanges
  <2>4. ASSUME NEW i \in Invocations, inv[i].state = "idle" PROVE ~Spends(inv[i])
    BY <2>4, <1>2 DEF SoundInv, Sound, Spends
  <2>5. ASSUME NEW i \in Invocations, NEW r \in Requests, ExecuteReplays(i, r) PROVE Inv'
    <3> DEFINE k == RecordKey(r.idempotency_key)
               y == [Idle EXCEPT !.state = "done", !.req = r, !.key = k,
                                 !.answer = "replayed", !.response = Replayed(k)]
    <3>1. y.req = r
      <4> HIDE DEF k
      <4> QED BY DEF Idle
    <3>2. /\ inv[i].state = "idle" /\ r.fn = "execute_action"
          /\ inv' = [inv EXCEPT ![i] = y] /\ UNCHANGED spent
      BY <2>5 DEF ExecuteReplays, kv
    <3> HIDE DEF y
    <3> QED
      BY <3>1, <3>2, <2>3, <2>4 DEF Spends
  <2>6. ASSUME NEW i \in Invocations, NEW r \in Requests,
               ExecuteApproves(i, r) \/ DispatchAction(i, r)
        PROVE  Inv'
    <3> DEFINE k == RecordKey(r.idempotency_key)
               c == mandate.credential_key
               au == Bearer(c, secrets)
               x(b) == [Idle EXCEPT !.state = "calling", !.mandate = mandate, !.key = k,
                                    !.blind = b, !.auth = au, !.reads = ExecuteReads(k, b, c)]
               y(b) == [x(b) EXCEPT !.req = r, !.at = now]
               z == [[Idle EXCEPT !.state = "calling"] EXCEPT !.req = r, !.at = now]
    <3>1. z.req = r /\ \A b : y(b).req = r
      <4> HIDE DEF k, c, au
      <4> QED BY DEF Idle
    <3>2. /\ inv[i].state = "idle" /\ r.fn # "spend" /\ UNCHANGED spent
          /\ \/ inv' = [inv EXCEPT ![i] = z]
             \/ \E b : inv' = [inv EXCEPT ![i] = y(b)]
      BY <2>6 DEF ExecuteApproves, DispatchAction, Started, kv
    <3> HIDE DEF y, z
    <3> QED
      BY <3>1, <3>2, <2>3, <2>4 DEF Spends
  <2>7. ASSUME NEW i \in Invocations, NEW r \in Requests, Spend(i, r) PROVE Inv'
    <3> DEFINE d == day_bucket(now)
               after == saturating_add(spent[d], r.action.amount_cents)
               y == [[Idle EXCEPT !.state = "committing", !.reads = SpendReads(d),
                                  !.put = SpentEntry(d), !.total = after]
                       EXCEPT !.req = r, !.at = now]
    <3>1. CASE inv' = [inv EXCEPT ![i] = y] /\ UNCHANGED spent
               /\ Admits(spent[d], after, r.daily_limit_cents)
      <4>1. /\ y.state = "committing" /\ y.req = r /\ y.at = now /\ y.answer = None
            /\ y.reads = {SpentEntry(d)} /\ y.put = SpentEntry(d) /\ y.total = after
        <5> HIDE DEF d, after
        <5> QED BY DEF Idle, SpendReads
      <4>2. ~Paid(inv[i])
        BY <2>4, <2>7 DEF Spend, Paid
      <4> HIDE DEF y
      <4>3. after <= r.daily_limit_cents
        BY <3>1 DEF Admits
      <4> HIDE DEF after
      <4>4. SpendSound(y) /\ ~Paid(y)
        BY <4>1, <4>3, NoneAssumption, StateNames DEF SpendSound, Paid
      <4>5. UpToDate(y, spent)
        BY <4>1 DEF UpToDate, after
      <4> QED
        BY <4>2, <4>4, <4>5, <3>1, <1>2, <2>1, OneChanges
    <3>2. CASE Answered(i, r, "error") \/ Answered(i, r, "rejected")
      BY <3>2, <2>2, <2>7, StateNames DEF Spend
    <3> QED
      BY <2>7, <3>1, <3>2 DEF Spend, Started, kv
  <2>8. ASSUME NEW i \in Invocations, Call(i) \/ Record(i) PROVE Inv'
    <3>1. ~Spends(inv[i])
      BY <2>8, <1>2 DEF Call, Record, SpendsInv, SpendSound
    <3>2. PICK y : inv' = [inv EXCEPT ![i] = y] /\ y.req = inv[i].req
      BY <2>8, <1>2 DEF Call, Record, TypeOK, Invocation
    <3> QED
      BY <3>1, <3>2, <2>3, <2>8 DEF Spends, Call, Record, kv
  <2>9. ASSUME NEW i \in Invocations, Commit(i) PROVE Inv'
    <3> DEFINE x == inv[i]
               y == Finished(x, "done", "approved")
    <3>1. x.state = "committing" /\ x \in Invocation /\ Sound(x) /\ SpendSound(x)
      BY <2>9, <1>2 DEF Commit, TypeOK, SoundInv, SpendsInv
    <3>2. /\ SpendSound(y) /\ UpToDate(y, spent) /\ y.req = x.req /\ y.at = x.at
          /\ Paid(y) <=> Spends(x)
      BY <3>1, FinishedSpend, StateNames
    <3>3. PICK d \in Days : d = day_bucket(x.at)
      BY <3>1 DEF Invocation, Days
    <3>4. CASE x.put = None
      <4>1. ~Spends(x)
        BY <3>1, <3>3, <3>4, NoneAssumption DEF SpendSound, Entries
      <4>2. inv' = [inv EXCEPT ![i] = y] /\ UNCHANGED spent
        BY <2>9, <3>4 DEF Commit
      <4>3. ~Spends(y)
        BY <3>2, <4>1 DEF Spends
      <4> QED
        BY <4>1, <4>2, <4>3, <2>3
    <3>5. CASE x.put # None
      <4>1. \A j \in Invocations :
               inv'[j] = IF j = i THEN y ELSE Invalidated(inv[j], x.put)
        BY <2>9, <3>5 DEF Commit
      <4>2. \A j \in Invocations : j # i =>
               /\ Paid(inv'[j]) <=> Paid(inv[j])
               /\ inv'[j].req = inv[j].req /\ inv'[j].at = inv[j].at
               /\ SpendSound(inv'[j])
               /\ inv'[j].state = inv[j].state /\ inv'[j].total = inv[j].total
               /\ ~inv'[j].stale => ~inv[j].stale /\ x.put \notin inv[j].reads
        BY <4>1, <1>2, InvalidatedSpend DEF TypeOK, SpendsInv
      <4>3. CASE ~Spends(x)
        <5>1. UNCHANGED spent
          BY <2>9, <3>5, <4>3, <3>1 DEF Commit, Spends, Sound
        <5>2. SamePaid
          BY <4>1, <4>2, <3>2, <4>3 DEF SamePaid, Paid
        <5>3. SpendsInv'
          BY <4>1, <4>2, <3>2, <1>2, <5>1 DEF SpendsInv, UpToDate, Spends
        <5> QED
          BY <5>1, <5>2, <5>3, <2>1
      <4>4. CASE Spends(x)
        <5>1. /\ spent' = [spent EXCEPT ![d] = x.total]
              /\ ~x.stale /\ x.put = SpentEntry(d) /\ x.total <= x.req.daily_limit_cents
          BY <2>9, <3>3, <3>5, <4>4, <3>1 DEF Commit, Spends, SpendSound
        <5> DEFINE n == x.req.action.amount_cents
        <5>2. x.total = saturating_add(spent[d], n)
          BY <4>4, <3>1, <3>3, <5>1, <1>2 DEF UpToDate, SpendsInv
        <5>3. x.req \in Requests /\ n \in Nat
          BY <4>4, <3>1, RequestType, BoundsAssumption
             DEF Spends, Invocation, SpendReq, Action, Cents
        <5>4. ~Paid(x) /\ Paid(y)
          BY <4>4, <3>1, <3>2, NoneAssumption, StateNames DEF Paid, SpendSound
        <5>5. Admitted(d)' = Admitted(d) \cup {i} /\ i \notin Admitted(d)
          BY <4>1, <4>2, <5>4, <3>2, <3>3 DEF Admitted, Is, Paid, Spends
        <5>6. ASSUME NEW o \in Days, o # d PROVE Admitted(o)' = Admitted(o)
          BY <4>1, <4>2, <5>4, <5>6, <3>2, <3>3 DEF Admitted, Is, Paid, Spends
        <5>7. \A j \in Invocations : inv'[j].req = inv[j].req
          BY <4>1, <4>2, <3>2
        <5>8. SpendsInv'
          <6> SUFFICES ASSUME NEW j \in Invocations
                       PROVE  SpendSound(inv'[j]) /\ UpToDate(inv'[j], spent')
            BY DEF SpendsInv
          <6>1. CASE j = i
            BY <6>1, <4>1, <3>2, <3>1, <5>4 DEF UpToDate, Paid, SpendSound
          <6>2. CASE j # i
            <7>1. SpendSound(inv[j]) /\ UpToDate(inv[j], spent) /\ inv[j] \in Invocation
              BY <1>2 DEF SpendsInv, TypeOK
            <7>2. ASSUME Spends(inv'[j]), inv'[j].state = "committing", ~inv'[j].stale
                  PROVE  inv'[j].total = saturating_add(spent'[day_bucket(inv'[j].at)],
                                                        inv'[j].req.action.amount_cents)
              <8>1. /\ Spends(inv[j]) /\ inv[j].state = "committing" /\ ~inv[j].stale
                    /\ SpentEntry(d) \notin inv[j].reads
                    /\ inv'[j].total = inv[j].total /\ inv'[j].at = inv[j].at
                    /\ inv'[j].req = inv[j].req
                BY <7>2, <6>2, <4>2, <5>1 DEF Spends
              <8>2. SpentEntry(day_bucket(inv[j].at)) \in inv[j].reads
                BY <8>1, <7>1 DEF SpendSound
              <8>3. day_bucket(inv[j].at) # d /\ day_bucket(inv[j].at) \in Days
                BY <8>1, <8>2, <7>1 DEF Invocation, Days
              <8>4. spent'[day_bucket(inv[j].at)] = spent[day_bucket(inv[j].at)]
                BY <8>3, <5>1, <1>2 DEF TypeOK
              <8> QED
                BY <8>1, <8>4, <7>1 DEF UpToDate
            <7> QED
              BY <7>2, <6>2, <4>2 DEF UpToDate
          <6> QED
            BY <6>1, <6>2
        <5>9. CountInv'
          <6> SUFFICES ASSUME NEW o \in Days
                       PROVE  /\ IsFiniteSet(PaidCents(o)')
                              /\ spent'[o] = LET total == Cardinality(PaidCents(o)')
                                             IN  IF total > MaxU64 THEN MaxU64 ELSE total
            BY DEF CountInv
          <6>1. /\ IsFiniteSet(PaidCents(o))
                /\ spent[o] = LET total == Cardinality(PaidCents(o))
                              IN  IF total > MaxU64 THEN MaxU64 ELSE total
            BY <1>2 DEF CountInv
          <6>2. CASE o # d
            <7>1. PaidCents(o)' = PaidCents(o)
              BY <6>2, <5>6, <5>7 DEF PaidCents, Admitted
            <7>2. spent'[o] = spent[o]
              BY <6>2, <5>1, <1>2 DEF TypeOK
            <7> QED
              BY <6>1, <7>1, <7>2
          <6>3. CASE o = d
            <7> DEFINE S == PaidCents(d)
                       T == S \cup ({i} \X (1 .. n))
            <7>1. PaidCents(d)' = T
              <8> HIDE DEF x
              <8>1. x.req = inv[i].req
                BY DEF x
              <8> QED
                BY <5>5, <5>7, <8>1 DEF PaidCents, Admitted
            <7>2. \A p \in S : p[1] # i
              BY <5>5 DEF PaidCents
            <7>3. IsFiniteSet(S) /\ Cardinality(S) \in Nat
              BY <6>1, <6>3, FS_CardinalityType
            <7>4. IsFiniteSet(T) /\ Cardinality(T) = Cardinality(S) + n
              <8> HIDE DEF S, n
              <8> QED BY <7>2, <7>3, <5>3, PaysItsCents
            <7>5. spent'[d] = saturating_add(spent[d], n)
              BY <5>1, <5>2, <3>3, <1>2 DEF TypeOK
            <7>6. spent[d] = IF Cardinality(S) > MaxU64 THEN MaxU64 ELSE Cardinality(S)
              BY <6>1, <6>3
            <7> HIDE DEF S, T, n
            <7>7. spent'[d] = IF Cardinality(T) > MaxU64 THEN MaxU64 ELSE Cardinality(T)
              BY <7>3, <7>4, <7>5, <7>6, <5>3, BoundsAssumption DEF saturating_add
            <7> QED
              BY <7>1, <7>4, <7>7, <6>3
          <6> QED
            BY <6>2, <6>3
        <5>10. SpentWithinALimit'
          <6> SUFFICES ASSUME NEW o \in Days, spent'[o] # 0
                       PROVE  \E j \in Admitted(o)' : spent'[o] <= inv'[j].req.daily_limit_cents
            BY DEF SpentWithinALimit
          <6>1. CASE o = d
            <7>1. i \in Admitted(d)'
              BY <5>5
            <7>2. spent'[d] = x.total /\ x.total <= inv'[i].req.daily_limit_cents
              BY <5>1, <5>7, <1>2 DEF TypeOK
            <7> QED
              BY <6>1, <7>1, <7>2
          <6>2. CASE o # d
            BY <6>2, <5>1, <5>6, <5>7, <1>2 DEF TypeOK, SpentWithinALimit, Admitted
          <6> QED
            BY <6>1, <6>2
        <5> QED
          BY <5>8, <5>9, <5>10
      <4> QED
        BY <4>3, <4>4
    <3> QED
      BY <3>4, <3>5
  <2>10. ASSUME NEW i \in Invocations, WriteConflict(i) \/ Crash(i) PROVE Inv'
    <3>1. PICK st \in {"conflict", "crashed"} :
             inv' = [inv EXCEPT ![i] = Finished(inv[i], st, "error")] /\ UNCHANGED spent
      BY <2>10 DEF WriteConflict, Crash, kv
    <3>2. ~Paid(inv[i])
      BY <2>10, <1>2, NoneAssumption, StateNames
         DEF WriteConflict, Crash, Running, Paid, SpendsInv, SpendSound
    <3>3. /\ SpendSound(Finished(inv[i], st, "error"))
          /\ UpToDate(Finished(inv[i], st, "error"), spent)
          /\ ~Paid(Finished(inv[i], st, "error"))
      BY <1>2, FinishedSpend, StateNames DEF TypeOK
    <3> QED
      BY <3>1, <3>2, <3>3, <1>2, <2>1, OneChanges
  <2>11. ASSUME NEW e, inv' = [i \in Invocations |-> Invalidated(inv[i], e)], UNCHANGED spent
         PROVE  Inv'
    BY <2>11, <1>2, <2>1, InvalidationKeeps
  <2>12. ASSUME UNCHANGED <<inv, spent>> PROVE Inv'
    BY <2>12, <1>2, <2>1 DEF SpendsInv, SamePaid
  <2>13. ASSUME NEW i \in Invocations, NEW r \in Requests,
                \/ ExecuteErrs(i, r) \/ ExecuteRejects(i, r) \/ ExecuteLacksSecret(i, r)
                \/ Evaluate(i, r)
         PROVE  Inv'
    BY <2>13, <2>2, StateNames
       DEF ExecuteErrs, ExecuteRejects, ExecuteLacksSecret, Evaluate
  <2> QED
    BY <1>2, <2>5, <2>6, <2>7, <2>8, <2>9, <2>10, <2>11, <2>12, <2>13
       DEF Next, SeedMandate, SealSecret, Tick, vars, kv
<1>3. Inv => SpentIsCommittedSum
  BY DEF CountInv, SpentIsCommittedSum
<1>4. QED
  BY <1>1, <1>2, <1>3, TypeCorrect, SoundCorrect, PTL DEF Spec

\* The day's total in KV is the sum of the spends admitted on it, up to u64's
\* end: no spend that raced another is lost or counted twice.
THEOREM SpentIsSummed == Spec => []SpentIsCommittedSum
BY SpendsAddUp, PTL

\* A day's total is within a limit that some call admitted on it stated.
THEOREM SpentWithinALimitHolds == Spec => []SpentWithinALimit
BY SpendsAddUp, PTL

-----------------------------------------------------------------------------
(* The records.  For these the contract's sixteen actions come in a        *)
(* handful of kinds (StepKinds); each part of LedgerInv is preserved by    *)
(* each kind.                                                              *)

\* The step changes invocation i, and nothing else the ledger rests on.
Only(i) ==
    /\ \A j \in Invocations : j # i => inv'[j] = inv[j]
    /\ UNCHANGED <<mandate, dispatched>>

\* An answer without a write; a replayed one is the entry of its key.
Returns(i) ==
    LET y == inv'[i] IN
    /\ Only(i)
    /\ inv[i].state = "idle" /\ y.state = "done" /\ y.put = None
    /\ y.answer = "replayed" =>
          y.key \in Keys /\ dispatched[y.key] # None /\ y.response = dispatched[y.key]

\* A start under the mandate in force, on a key seen without an entry.
Starts(i) ==
    LET y == inv'[i] IN
    /\ Only(i)
    /\ inv[i].state = "idle" /\ y.state \in Running /\ y.answer = None
    /\ Executes(y) =>
          /\ y.mandate = mandate
          /\ y.key # None /\ ~y.blind => dispatched[y.key] = None

\* A step between the start and the commit.
Advances(i) ==
    LET x == inv[i]
        y == inv'[i]
    IN
    /\ Only(i)
    /\ x.state \in Running /\ y.state \in Running
    /\ y.req = x.req /\ y.mandate = x.mandate /\ y.key = x.key /\ y.blind = x.blind
    /\ y.stale = x.stale /\ y.answer = x.answer

\* An end that leaves no entry.
Ends(i) ==
    LET y == inv'[i] IN
    /\ Only(i)
    /\ inv[i].state \in Running /\ y.state \in Ended
    /\ y.state = "done" => y.put = None
    /\ y.answer # "replayed"

\* A commit of a write: everyone who read the entry is invalidated.
Commits(i) ==
    LET x == inv[i] IN
    /\ x.state = "committing" /\ x.put # None /\ ~x.stale
    /\ inv' = [j \in Invocations |-> IF j = i THEN Finished(x, "done", "approved")
                                     ELSE Invalidated(inv[j], x.put)]
    /\ Executes(x) => dispatched' = [dispatched EXCEPT ![x.key] = x.response]
    /\ ~Executes(x) => UNCHANGED dispatched
    /\ UNCHANGED mandate

\* A write by the tenant admin: the mandate changes only if its readers are
\* invalidated.
Provisions(e) ==
    /\ inv' = [j \in Invocations |-> Invalidated(inv[j], e)]
    /\ e # MandateEntry => UNCHANGED mandate
    /\ UNCHANGED dispatched

Quiet == UNCHANGED <<inv, mandate, dispatched>>

\* Every step of the contract is one of these, as far as the ledger goes.
LEMMA StepKinds ==
    ASSUME TypeOK, SoundInv, [Next]_vars
    PROVE  \/ Quiet
           \/ \E i \in Invocations :
                 Returns(i) \/ Starts(i) \/ Advances(i) \/ Ends(i) \/ Commits(i)
           \/ \E e : Provisions(e)
<1>1. ASSUME NEW i \in Invocations, NEW r \in Requests, NEW ans \in Answers,
             ans # "replayed", inv[i].state = "idle", Answered(i, r, ans)
      PROVE  Returns(i)
  <2> DEFINE y == [Idle EXCEPT !.state = "done", !.req = r, !.answer = ans]
  <2>1. y.state = "done" /\ y.put = None /\ y.answer = ans
    BY DEF Idle
  <2>2. inv' = [inv EXCEPT ![i] = y] /\ UNCHANGED <<mandate, dispatched>>
    BY <1>1 DEF Answered, kv
  <2> HIDE DEF y
  <2> QED
    BY <2>1, <2>2, <1>1 DEF Returns, Only, TypeOK
<1>2. ASSUME NEW i \in Invocations, NEW r \in Requests, ExecuteReplays(i, r) PROVE Returns(i)
  <2> DEFINE k == RecordKey(r.idempotency_key)
             y == [Idle EXCEPT !.state = "done", !.req = r, !.key = k,
                               !.answer = "replayed", !.response = Replayed(k)]
  <2>1. k \in Keys /\ dispatched[k] # None /\ Replayed(k) = dispatched[k]
    BY <1>2, RecordKeyType DEF ExecuteReplays, Replayed
  <2>2. /\ y.state = "done" /\ y.put = None
        /\ y.key = k /\ y.response = Replayed(k)
    <3> HIDE DEF k
    <3> QED BY DEF Idle
  <2>3. /\ inv[i].state = "idle" /\ inv' = [inv EXCEPT ![i] = y]
        /\ UNCHANGED <<mandate, dispatched>>
    BY <1>2 DEF ExecuteReplays, kv
  <2> HIDE DEF y, k
  <2> QED
    BY <2>1, <2>2, <2>3 DEF Returns, Only, TypeOK
<1>3. ASSUME NEW i \in Invocations, NEW r \in Requests, ExecuteApproves(i, r) PROVE Starts(i)
  <2> DEFINE k == RecordKey(r.idempotency_key)
             re(b) == ExecuteReads(k, b, mandate.credential_key)
             y(b) == [[Idle EXCEPT !.state = "calling", !.mandate = mandate,
                                  !.key = k, !.blind = b,
                                  !.auth = Bearer(mandate.credential_key, secrets), !.reads = re(b)]
                        EXCEPT !.req = r, !.at = now]
  <2>1. PICK b \in BOOLEAN : NoRecordSeen(k, b) /\ inv' = [inv EXCEPT ![i] = y(b)]
    BY <1>3 DEF ExecuteApproves, Started
  <2>2. k # None /\ ~b => dispatched[k] = None
    BY <2>1 DEF NoRecordSeen
  <2>3. /\ y(b).state = "calling" /\ y(b).answer = None /\ y(b).mandate = mandate
        /\ y(b).key = k /\ y(b).blind = b
    <3> HIDE DEF k, re
    <3> QED BY DEF Idle
  <2>4. inv[i].state = "idle" /\ UNCHANGED <<mandate, dispatched>>
    BY <1>3 DEF ExecuteApproves, kv
  <2> HIDE DEF y, k
  <2> QED
    BY <2>1, <2>2, <2>3, <2>4, StateNames, <1>3 DEF Starts, Only, TypeOK
<1>4. ASSUME NEW i \in Invocations, NEW r \in Requests, DispatchAction(i, r) PROVE Starts(i)
  <2> DEFINE y == [[Idle EXCEPT !.state = "calling"] EXCEPT !.req = r, !.at = now]
  <2>1. y.state = "calling" /\ y.answer = None /\ y.req = r
    BY DEF Idle
  <2>2. /\ r.fn = "dispatch_action" /\ inv[i].state = "idle"
        /\ inv' = [inv EXCEPT ![i] = y] /\ UNCHANGED <<mandate, dispatched>>
    BY <1>4 DEF DispatchAction, Started, kv
  <2> HIDE DEF y
  <2> QED
    BY <2>1, <2>2, StateNames DEF Starts, Only, Executes, TypeOK
<1>5. ASSUME NEW i \in Invocations, NEW r \in Requests, Spend(i, r)
      PROVE  Returns(i) \/ Starts(i)
  <2> DEFINE d == day_bucket(now)
             after == saturating_add(spent[d], r.action.amount_cents)
             y == [[Idle EXCEPT !.state = "committing", !.reads = SpendReads(d),
                                !.put = SpentEntry(d), !.total = after]
                     EXCEPT !.req = r, !.at = now]
  <2>1. inv[i].state = "idle" /\ r.fn = "spend"
    BY <1>5 DEF Spend
  <2>2. CASE \E ans \in {"error", "rejected"} : Answered(i, r, ans)
    BY <2>1, <2>2, <1>1, StateNames
  <2>3. CASE inv' = [inv EXCEPT ![i] = y] /\ UNCHANGED <<kv, now>>
    <3>1. y.state = "committing" /\ y.answer = None /\ y.req = r
      <4> HIDE DEF d, after
      <4> QED BY DEF Idle
    <3>2. inv' = [inv EXCEPT ![i] = y] /\ UNCHANGED <<mandate, dispatched>>
      BY <2>3 DEF kv
    <3> HIDE DEF y
    <3> QED
      BY <2>1, <3>1, <3>2, StateNames DEF Starts, Only, Executes, TypeOK
  <2> QED
    BY <2>2, <2>3, <1>5 DEF Spend, Started
<1>6. ASSUME NEW i \in Invocations, Call(i) \/ Record(i) PROVE Advances(i)
  <2>1. inv[i].state \in Running /\ UNCHANGED <<mandate, dispatched>>
    BY <1>6, StateNames DEF Call, Record, kv
  <2>2. inv'[i].state \in Running /\ \A j \in Invocations : j # i => inv'[j] = inv[j]
    BY <1>6, StateNames DEF Call, Record, TypeOK, Invocation
  <2>3. /\ inv'[i].req = inv[i].req /\ inv'[i].mandate = inv[i].mandate
        /\ inv'[i].key = inv[i].key /\ inv'[i].blind = inv[i].blind
        /\ inv'[i].stale = inv[i].stale /\ inv'[i].answer = inv[i].answer
    BY <1>6 DEF Call, Record, TypeOK, Invocation
  <2> QED
    BY <2>1, <2>2, <2>3 DEF Advances, Only
<1>7. ASSUME NEW i \in Invocations, NEW st \in Ended, NEW ans \in Answers,
             ans # "replayed", inv[i].state \in Running, st = "done" => inv[i].put = None,
             inv' = [inv EXCEPT ![i] = Finished(inv[i], st, ans)],
             UNCHANGED <<mandate, dispatched>>
      PROVE  Ends(i)
  <2> DEFINE y == Finished(inv[i], st, ans)
  <2>1. y.state = st /\ y.answer = ans /\ y.put = inv[i].put
    BY DEF Finished, TypeOK, Invocation
  <2> HIDE DEF y
  <2>2. inv' = [inv EXCEPT ![i] = y]
    BY <1>7 DEF y
  <2> QED
    BY <2>1, <2>2, <1>7 DEF Ends, Only, TypeOK
<1>8. ASSUME NEW i \in Invocations, Commit(i) PROVE Ends(i) \/ Commits(i)
  <2>1. inv[i].state = "committing" /\ UNCHANGED mandate
    BY <1>8 DEF Commit
  <2>2. CASE inv[i].put = None
    BY <1>7, <1>8, <2>1, <2>2, StateNames DEF Commit
  <2>3. CASE inv[i].put # None
    <3>1. inv[i].req.fn = "spend" <=> ~Executes(inv[i])
      BY <2>3 DEF SoundInv, Sound, Executes
    <3> QED
      BY <1>8, <2>1, <2>3, <3>1 DEF Commit, Commits
  <2> QED
    BY <2>2, <2>3
<1>9. ASSUME NEW i \in Invocations, WriteConflict(i) \/ Crash(i) PROVE Ends(i)
  BY <1>7, <1>9, StateNames DEF WriteConflict, Crash, kv
<1>10. ASSUME NEW m \in Mandates, SeedMandate(m) PROVE Provisions(MandateEntry)
  BY <1>10 DEF SeedMandate, Provisions
<1>11. ASSUME NEW c \in Credentials, SealSecret(c) PROVE Provisions(SecretEntry(c))
  BY <1>11 DEF SealSecret, Provisions
<1>12. ASSUME Tick \/ UNCHANGED vars PROVE Quiet
  BY <1>12 DEF Tick, Quiet, vars, kv
<1>13. ASSUME NEW i \in Invocations, NEW r \in Requests,
              \/ ExecuteErrs(i, r) \/ ExecuteRejects(i, r) \/ ExecuteLacksSecret(i, r)
              \/ Evaluate(i, r)
       PROVE  Returns(i)
  BY <1>13, <1>1, StateNames DEF ExecuteErrs, ExecuteRejects, ExecuteLacksSecret, Evaluate
<1> QED
  BY <1>2, <1>3, <1>4, <1>5, <1>6, <1>8, <1>9, <1>10, <1>11, <1>12, <1>13 DEF Next

-----------------------------------------------------------------------------
(* The inductive invariant.                                                *)

\* Record x is of an order that holds the committed entry of its key.
Committed(x) == Executes(x) /\ x.state = "done" /\ x.put # None

\* What a running order that has not been invalidated may rely on: the mandate
\* it was approved under, and the absence of an entry under its key.
Current(x) ==
    (x.state \in Running /\ ~x.stale /\ Executes(x)) =>
        /\ x.mandate = mandate
        /\ x.key # None /\ ~x.blind => dispatched[x.key] = None

CurrentInv == \A i \in Invocations : Current(inv[i])

\* Committed entries stay, and every entry is some committed order's.
KeptInv ==
    \A i \in Invocations : Committed(inv[i]) => dispatched[inv[i].key] # None
BackedInv ==
    \A k \in Keys : dispatched[k] # None =>
        \E j \in Invocations :
            Committed(inv[j]) /\ inv[j].key = k /\ inv[j].response = dispatched[k]

\* The inductive invariant, on top of TypeOK and SoundInv.
LedgerInv == CurrentInv /\ KeptInv /\ BackedInv /\ OneRecordPerKey /\ ReplayIsTruthful

\* Recorded, of an invocation, is Committed, of its record.
LEMMA RecordedIsCommitted ==
    \A i \in Invocations : Recorded(i) <=> Committed(inv[i])
  BY DEF Recorded, Committed, Is, Executes

\* An invocation is idle, running or ended.
LEMMA StatesAreApart == Running \cap Ended = {} /\ "idle" \notin Running \cup Ended
  BY DEF Running, Ended

\* What invalidation and the end of an invocation leave alone.
LEMMA InvalidatedFields ==
    ASSUME NEW x \in Invocation, NEW e
    PROVE  LET y == Invalidated(x, e) IN
           /\ y.state = x.state /\ y.req = x.req /\ y.mandate = x.mandate /\ y.key = x.key
           /\ y.blind = x.blind /\ y.answer = x.answer /\ y.response = x.response
           /\ y.put = x.put /\ (~y.stale => ~x.stale /\ e \notin x.reads)
  BY DEF Invalidated, Invocation

\* The same of an invocation that ends.
LEMMA FinishedFields ==
    ASSUME NEW x \in Invocation, NEW st, NEW ans
    PROVE  LET y == Finished(x, st, ans) IN
           /\ y.state = st /\ y.answer = ans /\ y.req = x.req /\ y.key = x.key
           /\ y.blind = x.blind /\ y.response = x.response /\ y.put = x.put
  BY DEF Finished, Invocation

\* A commit leaves every other record as it was, but for staleness.
LEMMA CommitFields ==
    ASSUME TypeOK, SoundInv, NEW i \in Invocations, Commits(i)
    PROVE  /\ inv'[i] = Finished(inv[i], "done", "approved")
           /\ \A j \in Invocations : j # i => inv'[j] = Invalidated(inv[j], inv[i].put)
           /\ Executes(inv[i]) =>
                 /\ inv[i].key \in Keys /\ inv[i].put = RecordEntry(inv[i].key)
                 /\ inv[i].response # None
                 /\ dispatched'[inv[i].key] = inv[i].response
                 /\ \A k \in Keys : k # inv[i].key => dispatched'[k] = dispatched[k]
           /\ ~Executes(inv[i]) => dispatched' = dispatched
           /\ mandate' = mandate
<1>1. Executes(inv[i]) =>
         /\ inv[i].key # None /\ inv[i].put = RecordEntry(inv[i].key) /\ inv[i].response # None
  BY DEF Commits, SoundInv, Sound, Emitted
<1>2. inv[i].key \in Keys \cup {None}
  BY DEF TypeOK, Invocation
<1> QED
  BY <1>1, <1>2 DEF Commits, TypeOK

\* A running order that is not invalidated read the mandate and the absence of
\* an entry that are still there: whoever changes either invalidates it.
LEMMA CurrentStep ==
    ASSUME TypeOK, SoundInv, CurrentInv, [Next]_vars
    PROVE  CurrentInv'
<1> SUFFICES ASSUME NEW j \in Invocations, inv'[j].state \in Running, ~inv'[j].stale,
                    Executes(inv'[j])
             PROVE  /\ inv'[j].mandate = mandate'
                    /\ inv'[j].key # None /\ ~inv'[j].blind => dispatched'[inv'[j].key] = None
  BY DEF CurrentInv, Current
<1>0. inv[j] \in Invocation /\ Sound(inv[j]) /\ Current(inv[j])
  BY DEF TypeOK, SoundInv, CurrentInv
<1>1. CASE Quiet
  BY <1>0, <1>1 DEF Quiet, Current
<1>2. ASSUME NEW i \in Invocations, Returns(i) \/ Starts(i) \/ Advances(i) \/ Ends(i)
      PROVE  /\ inv'[j].mandate = mandate'
             /\ inv'[j].key # None /\ ~inv'[j].blind => dispatched'[inv'[j].key] = None
  <2>1. CASE j # i
    BY <1>0, <1>2, <2>1 DEF Returns, Starts, Advances, Ends, Only, Current
  <2>2. CASE j = i /\ (Returns(i) \/ Ends(i))
    BY <2>2, StatesAreApart, StateNames DEF Returns, Ends
  <2>3. CASE j = i /\ Starts(i)
    BY <2>3 DEF Starts, Only
  <2>4. CASE j = i /\ Advances(i)
    BY <1>0, <2>4 DEF Advances, Only, Executes, Current
  <2> QED
    BY <1>2, <2>1, <2>2, <2>3, <2>4
<1>3. ASSUME NEW i \in Invocations, Commits(i)
      PROVE  /\ inv'[j].mandate = mandate'
             /\ inv'[j].key # None /\ ~inv'[j].blind => dispatched'[inv'[j].key] = None
  <2> DEFINE x == inv[i]
  <2>1. j # i
    <3> SUFFICES ASSUME j = i PROVE FALSE
      OBVIOUS
    <3> QED
      BY <1>0, <1>3, CommitFields, FinishedFields, StatesAreApart, StateNames
  <2>2. inv'[j] = Invalidated(inv[j], x.put)
    BY <1>3, <2>1, CommitFields
  <2>3. /\ inv[j].state \in Running /\ ~inv[j].stale /\ Executes(inv[j])
        /\ x.put \notin inv[j].reads
        /\ inv'[j].mandate = inv[j].mandate /\ inv'[j].key = inv[j].key
        /\ inv'[j].blind = inv[j].blind
    BY <1>0, <2>2, InvalidatedFields DEF Executes
  <2>4. /\ inv[j].mandate = mandate
        /\ inv[j].key # None /\ ~inv[j].blind => dispatched[inv[j].key] = None
    BY <1>0, <2>3 DEF Current
  <2>5. ASSUME inv[j].key # None, ~inv[j].blind PROVE dispatched'[inv[j].key] = None
    <3>1. RecordEntry(inv[j].key) \in inv[j].reads /\ inv[j].key \in Keys
      BY <1>0, <2>3, <2>5 DEF Sound, Invocation
    <3>2. Executes(x) => inv[j].key # x.key
      BY <1>3, <2>3, <3>1, CommitFields
    <3> QED
      BY <1>3, <2>4, <2>5, <3>1, <3>2, CommitFields
  <2> QED
    BY <1>3, <2>3, <2>4, <2>5, CommitFields
<1>4. ASSUME NEW e, Provisions(e)
      PROVE  /\ inv'[j].mandate = mandate'
             /\ inv'[j].key # None /\ ~inv'[j].blind => dispatched'[inv'[j].key] = None
  <2>1. /\ inv[j].state \in Running /\ ~inv[j].stale /\ Executes(inv[j])
        /\ e \notin inv[j].reads
        /\ inv'[j].mandate = inv[j].mandate /\ inv'[j].key = inv[j].key
        /\ inv'[j].blind = inv[j].blind
    BY <1>0, <1>4, InvalidatedFields DEF Provisions, Executes
  <2>2. e # MandateEntry
    BY <1>0, <2>1 DEF Sound
  <2> QED
    BY <1>0, <1>4, <2>1, <2>2 DEF Provisions, Current
<1> QED
  BY <1>1, <1>2, <1>3, <1>4, StepKinds

-----------------------------------------------------------------------------
(* Entries.                                                                *)

SameRecord(x, y) == y.key = x.key /\ y.response = x.response /\ y.blind = x.blind

\* A committed order stays one, unchanged.
LEMMA CommittedPersists ==
    ASSUME TypeOK, SoundInv, [Next]_vars, NEW j \in Invocations, Committed(inv[j])
    PROVE  Committed(inv'[j]) /\ SameRecord(inv[j], inv'[j])
<1>0. inv[j] \in Invocation /\ inv[j].state = "done" /\ "done" \notin Running /\ "done" # "idle"
  BY StatesAreApart, StateNames DEF TypeOK, Committed
<1>1. CASE Quiet
  BY <1>1 DEF Quiet, SameRecord
<1>2. ASSUME NEW i \in Invocations, Returns(i) \/ Starts(i) \/ Advances(i) \/ Ends(i)
      PROVE  inv'[j] = inv[j]
  BY <1>0, <1>2 DEF Returns, Starts, Advances, Ends, Only
<1>3. ASSUME NEW e, inv'[j] = Invalidated(inv[j], e)
      PROVE  Committed(inv'[j]) /\ SameRecord(inv[j], inv'[j])
  BY <1>0, <1>3, InvalidatedFields DEF Committed, Executes, SameRecord
<1>4. ASSUME NEW i \in Invocations, Commits(i) PROVE \E e : inv'[j] = Invalidated(inv[j], e)
  BY <1>0, <1>4, CommitFields DEF Commits
<1>5. ASSUME NEW e, Provisions(e) PROVE inv'[j] = Invalidated(inv[j], e)
  BY <1>5 DEF Provisions
<1> QED
  BY <1>1, <1>2, <1>3, <1>4, <1>5, StepKinds DEF SameRecord

\* An order becomes committed only by its own commit.
LEMMA NewlyCommitted ==
    ASSUME TypeOK, SoundInv, [Next]_vars, NEW j \in Invocations,
           Committed(inv'[j]), ~Committed(inv[j])
    PROVE  /\ Commits(j) /\ Executes(inv[j])
           /\ SameRecord(inv[j], inv'[j])
<1>0. inv[j] \in Invocation /\ inv'[j].state = "done" /\ inv'[j].put # None
  BY DEF TypeOK, Committed
<1>1. ~Quiet
  BY DEF Quiet
<1>2. ASSUME NEW i \in Invocations, Returns(i) \/ Starts(i) \/ Advances(i) \/ Ends(i)
      PROVE  FALSE
  <2>1. i = j
    BY <1>2 DEF Returns, Starts, Advances, Ends, Only
  <2> QED
    BY <1>0, <1>2, <2>1, StatesAreApart, StateNames DEF Returns, Starts, Advances, Ends
<1>3. ASSUME NEW e, inv'[j] = Invalidated(inv[j], e) PROVE FALSE
  BY <1>0, <1>3, InvalidatedFields DEF Committed, Executes
<1>4. ASSUME NEW e, Provisions(e) PROVE FALSE
  BY <1>3, <1>4 DEF Provisions
<1>5. PICK i \in Invocations : Commits(i)
  BY <1>1, <1>2, <1>4, StepKinds
<1>6. i = j
  BY <1>3, <1>5, CommitFields
<1>7. inv'[j] = Finished(inv[j], "done", "approved")
  BY <1>5, <1>6, CommitFields
<1> QED
  BY <1>0, <1>5, <1>6, <1>7, FinishedFields DEF Committed, Executes, SameRecord

\* An entry changes only by the commit of an order under its key, and is
\* never removed.
LEMMA EntryStep ==
    ASSUME TypeOK, SoundInv, [Next]_vars, NEW k \in Keys, dispatched'[k] # dispatched[k]
    PROVE  \E i \in Invocations :
              /\ Committed(inv'[i]) /\ inv'[i].key = k
              /\ inv'[i].response = dispatched'[k] /\ dispatched'[k] # None
<1>1. PICK i \in Invocations : Commits(i)
  BY StepKinds DEF Quiet, Returns, Starts, Advances, Ends, Only, Provisions
<1>2. Executes(inv[i]) /\ inv[i].key = k /\ dispatched'[k] = inv[i].response /\ inv[i].response # None
  BY <1>1, CommitFields
<1>3. inv'[i] = Finished(inv[i], "done", "approved") /\ inv[i] \in Invocation /\ inv[i].put # None
  BY <1>1, CommitFields DEF Commits, TypeOK
<1> QED
  BY <1>2, <1>3, FinishedFields DEF Committed, Executes

\* No step takes a committed order's entry away.
LEMMA KeptStep ==
    ASSUME TypeOK, SoundInv, KeptInv, [Next]_vars
    PROVE  KeptInv'
<1> SUFFICES ASSUME NEW j \in Invocations, Committed(inv'[j])
             PROVE  dispatched'[inv'[j].key] # None
  BY DEF KeptInv
<1>1. CASE Committed(inv[j])
  <2>1. inv'[j].key = inv[j].key /\ dispatched[inv[j].key] # None
    BY <1>1, CommittedPersists DEF KeptInv, SameRecord
  <2>2. inv[j].key \in Keys
    BY <1>1 DEF Committed, SoundInv, Sound, TypeOK, Invocation
  <2> QED
    BY <2>1, <2>2, EntryStep
<1>2. CASE ~Committed(inv[j])
  BY <1>2, NewlyCommitted, CommitFields DEF SameRecord
<1> QED
  BY <1>1, <1>2

\* No step leaves an entry without the committed order it is of.
LEMMA BackedStep ==
    ASSUME TypeOK, SoundInv, BackedInv, [Next]_vars
    PROVE  BackedInv'
<1> SUFFICES ASSUME NEW k \in Keys, dispatched'[k] # None
             PROVE  \E j \in Invocations :
                       /\ Committed(inv'[j]) /\ inv'[j].key = k
                       /\ inv'[j].response = dispatched'[k]
  BY DEF BackedInv
<1>1. CASE dispatched'[k] # dispatched[k]
  BY <1>1, EntryStep
<1>2. CASE dispatched'[k] = dispatched[k]
  BY <1>2, CommittedPersists DEF BackedInv, SameRecord
<1> QED
  BY <1>1, <1>2

\* The second of two orders under one key to commit either saw the first one's
\* entry, and then did not go out, or is invalidated by it.
LEMMA OneRecordStep ==
    ASSUME TypeOK, SoundInv, CurrentInv, KeptInv, OneRecordPerKey, [Next]_vars
    PROVE  OneRecordPerKey'
<1>1. ASSUME NEW i \in Invocations, NEW j \in Invocations, i # j,
             Committed(inv'[i]), Committed(inv'[j]), inv'[i].key = inv'[j].key,
             ~inv'[i].blind, ~Committed(inv[i])
      PROVE  FALSE
  <2>1. Commits(i) /\ Executes(inv[i]) /\ SameRecord(inv[i], inv'[i])
    BY <1>1, NewlyCommitted
  <2>2. inv[i].key \in Keys /\ inv[i].key # None
    BY <2>1, CommitFields, NoneAssumption
  <2>3. dispatched[inv[i].key] = None
    BY <1>1, <2>1, <2>2, StateNames DEF CurrentInv, Current, Commits, SameRecord
  <2>4. Committed(inv[j])
    <3> SUFFICES ASSUME ~Committed(inv[j]) PROVE FALSE
      OBVIOUS
    <3>1. Commits(j)
      BY <1>1, NewlyCommitted
    <3>2. inv'[j] = Invalidated(inv[j], inv[i].put) /\ inv[j] \in Invocation
      BY <1>1, <2>1, CommitFields DEF TypeOK
    <3> QED
      BY <1>1, <3>1, <3>2, InvalidatedFields DEF Commits, Committed
  <2> QED
    BY <1>1, <2>1, <2>3, <2>4, CommittedPersists DEF KeptInv, SameRecord
<1>2. ASSUME NEW i \in Invocations, NEW j \in Invocations, i # j,
             Committed(inv'[i]), Committed(inv'[j]), inv'[i].key = inv'[j].key
      PROVE  inv'[i].blind \/ inv'[j].blind
  <2>1. CASE Committed(inv[i]) /\ Committed(inv[j])
    <3>1. SameRecord(inv[i], inv'[i]) /\ SameRecord(inv[j], inv'[j])
      BY <2>1, CommittedPersists
    <3>2. inv[i].blind \/ inv[j].blind
      BY <1>2, <2>1, <3>1, RecordedIsCommitted DEF OneRecordPerKey, SameRecord
    <3> QED
      BY <3>1, <3>2 DEF SameRecord
  <2> QED
    BY <1>1, <1>2, <2>1
<1> QED
  BY <1>2, RecordedIsCommitted DEF OneRecordPerKey, Recorded, Committed, Is, Executes

\* A replay is truthful when it happens, and stays so.
LEMMA ReplayStep ==
    ASSUME TypeOK, SoundInv, BackedInv, ReplayIsTruthful, [Next]_vars
    PROVE  ReplayIsTruthful'
<1> SUFFICES ASSUME NEW i \in Invocations, inv'[i].answer = "replayed"
             PROVE  \E j \in Invocations :
                       /\ Committed(inv'[j])
                       /\ inv'[j].key = inv'[i].key /\ inv'[j].response = inv'[i].response
  BY DEF ReplayIsTruthful, Recorded, Committed, Is, Executes
<1>0. inv[i] \in Invocation /\ "replayed" # None /\ (inv[i].state \in Running => inv[i].answer # "replayed")
  BY NoneAssumption DEF Answers, TypeOK, SoundInv, Sound, Emitted, Running
<1>1. CASE /\ inv[i].answer = "replayed"
           /\ inv'[i].key = inv[i].key /\ inv'[i].response = inv[i].response
  <2>1. PICK j \in Invocations :
           Committed(inv[j]) /\ inv[j].key = inv[i].key /\ inv[j].response = inv[i].response
    BY <1>1, RecordedIsCommitted DEF ReplayIsTruthful
  <2> QED
    BY <1>1, <2>1, CommittedPersists DEF SameRecord
<1>2. CASE Returns(i)
  <2>1. PICK j \in Invocations :
           /\ Committed(inv[j]) /\ inv[j].key = inv'[i].key
           /\ inv[j].response = inv'[i].response
    BY <1>2 DEF Returns, BackedInv
  <2> QED
    BY <2>1, CommittedPersists DEF SameRecord
<1>3. ASSUME NEW j \in Invocations, j # i, Returns(j) \/ Starts(j) \/ Advances(j) \/ Ends(j)
      PROVE  inv'[i] = inv[i]
  BY <1>3 DEF Returns, Starts, Advances, Ends, Only
<1>4. ~(Starts(i) \/ Advances(i) \/ Ends(i))
  BY <1>0 DEF Starts, Advances, Ends
<1>5. ~Commits(i)
  BY <1>0, CommitFields, FinishedFields
<1>6. ASSUME NEW e, inv'[i] = Invalidated(inv[i], e)
      PROVE  /\ inv[i].answer = "replayed"
             /\ inv'[i].key = inv[i].key /\ inv'[i].response = inv[i].response
  BY <1>0, <1>6, InvalidatedFields
<1>7. ASSUME NEW j \in Invocations, Commits(j) PROVE \E e : inv'[i] = Invalidated(inv[i], e)
  BY <1>5, <1>7, CommitFields
<1>8. ASSUME NEW e, Provisions(e) PROVE inv'[i] = Invalidated(inv[i], e)
  BY <1>8 DEF Provisions
<1>9. CASE Quiet
  BY <1>1, <1>9 DEF Quiet
<1> QED
  BY <1>1, <1>2, <1>3, <1>4, <1>6, <1>7, <1>8, <1>9, StepKinds

-----------------------------------------------------------------------------
\* The whole invariant holds in every reachable state.
LEMMA LedgerInvCorrect == Spec => []LedgerInv
<1>1. Init => LedgerInv
  <2>1. Idle.state = "idle" /\ Idle.answer = None /\ "replayed" # None
    BY NoneAssumption DEF Idle, Answers
  <2> SUFFICES ASSUME Init PROVE LedgerInv
    OBVIOUS
  <2>2. \A i \in Invocations : inv[i].state = "idle" /\ inv[i].answer = None
    BY <2>1 DEF Init
  <2>3. CurrentInv
    BY <2>2, StatesAreApart DEF CurrentInv, Current
  <2>4. \A i \in Invocations : ~Committed(inv[i])
    BY <2>2 DEF Committed
  <2>5. BackedInv
    BY DEF Init, BackedInv
  <2> QED
    BY <2>1, <2>2, <2>3, <2>4, <2>5, RecordedIsCommitted
       DEF LedgerInv, KeptInv, OneRecordPerKey, ReplayIsTruthful
<1>2. TypeOK /\ SoundInv /\ LedgerInv /\ [Next]_vars => LedgerInv'
  BY CurrentStep, KeptStep, BackedStep, OneRecordStep, ReplayStep DEF LedgerInv
<1>3. QED
  BY <1>1, <1>2, TypeCorrect, SoundCorrect, PTL DEF Spec

\* Two orders never both hold the record of one key, unless one could not read
\* the record: whatever the interleaving, the crashes and the failing calls.
THEOREM OneRecordPerKeyHolds == Spec => []OneRecordPerKey
<1>1. LedgerInv => OneRecordPerKey
  BY DEF LedgerInv
<1>2. QED
  BY <1>1, LedgerInvCorrect, PTL

\* A replayed answer is the response some committed order under that key got.
THEOREM ReplayIsTruthfulHolds == Spec => []ReplayIsTruthful
<1>1. LedgerInv => ReplayIsTruthful
  BY DEF LedgerInv
<1>2. QED
  BY <1>1, LedgerInvCorrect, PTL

\* A record commits only under the mandate it was approved under: an order
\* sent across a re-seed loses its record.
THEOREM RecordsCommitUnderMandate == Spec => RecordsCommitUnderCurrentMandate
<1>1. ASSUME TypeOK, SoundInv, LedgerInv, [Next]_vars,
             NEW i \in Invocations, ~Recorded(i), Recorded(i)'
      PROVE  inv[i].mandate = mandate
  <2>1. ~Committed(inv[i]) /\ Committed(inv'[i])
    BY <1>1 DEF Recorded, Committed, Is, Executes
  <2>2. Commits(i) /\ Executes(inv[i])
    BY <1>1, <2>1, NewlyCommitted
  <2> QED
    BY <1>1, <2>2, StateNames DEF LedgerInv, CurrentInv, Current, Commits
<1>2. TypeOK /\ SoundInv /\ LedgerInv /\ [Next]_vars
        => [\A i \in Invocations :
              (~Recorded(i) /\ Recorded(i)') => inv[i].mandate = mandate]_vars
  BY <1>1
<1>3. QED
  BY <1>2, TypeCorrect, SoundCorrect, LedgerInvCorrect, PTL
     DEF Spec, RecordsCommitUnderCurrentMandate

-----------------------------------------------------------------------------
(* The refinement.  Every action of the contract opens, emits, settles or  *)
(* loses an attempt of the ledger, or is invisible to it.  The one step    *)
(* that needs LedgerInv is Settle, whose guard is that the key still has   *)
(* no entry.                                                               *)

\* Without failing calls nobody is blind, and an order with a key puts it.
NoFaultInv ==
    /\ faults = 0
    /\ \A i \in Invocations :
          /\ ~inv[i].blind
          /\ inv[i].state = "committing" /\ inv[i].key # None => inv[i].put # None

\* It holds in every reachable state when no kv-store call may fail.
LEMMA NoFaultCorrect ==
    ASSUME MaxFaults = 0 PROVE Spec => []NoFaultInv
<1>1. Init => NoFaultInv
  BY DEF Init, NoFaultInv, Idle
<1>2. ASSUME TypeOK, SoundInv, NoFaultInv, [Next]_vars PROVE NoFaultInv'
  <2>1. ~KvFault
    BY <1>2 DEF KvFault, NoFaultInv
  <2>2. ASSUME NEW i \in Invocations, NEW y, inv' = [inv EXCEPT ![i] = y], UNCHANGED faults,
               ~y.blind, y.state = "committing" /\ y.key # None => y.put # None
        PROVE  NoFaultInv'
    BY <2>2, <1>2 DEF NoFaultInv, TypeOK
  <2>3. ASSUME NEW i \in Invocations, NEW r \in Requests, NEW ans, KvOk, Answered(i, r, ans)
        PROVE  NoFaultInv'
    <3> DEFINE y == [Idle EXCEPT !.state = "done", !.req = r, !.answer = ans]
    <3>1. y.state = "done" /\ ~y.blind
      BY DEF Idle
    <3> HIDE DEF y
    <3>2. inv' = [inv EXCEPT ![i] = y]
      BY <2>3 DEF Answered, y
    <3> QED
      BY <2>2, <2>3, <3>1, <3>2 DEF KvOk
  <2>4. ASSUME NEW i \in Invocations, NEW r \in Requests, ExecuteReplays(i, r) PROVE NoFaultInv'
    <3> DEFINE k == RecordKey(r.idempotency_key)
               y == [Idle EXCEPT !.state = "done", !.req = r, !.key = k,
                                 !.answer = "replayed", !.response = Replayed(k)]
    <3>1. y.state = "done" /\ ~y.blind
      <4> HIDE DEF k
      <4> QED BY DEF Idle
    <3>2. inv' = [inv EXCEPT ![i] = y] /\ UNCHANGED faults
      BY <2>4 DEF ExecuteReplays, KvOk
    <3> HIDE DEF y
    <3> QED
      BY <2>2, <3>1, <3>2
  <2>5. ASSUME NEW i \in Invocations, NEW r \in Requests, ExecuteApproves(i, r) PROVE NoFaultInv'
    <3> DEFINE k == RecordKey(r.idempotency_key)
               re(b) == ExecuteReads(k, b, mandate.credential_key)
               y(b) == [[Idle EXCEPT !.state = "calling", !.mandate = mandate,
                                    !.key = k, !.blind = b,
                                    !.auth = Bearer(mandate.credential_key, secrets), !.reads = re(b)]
                          EXCEPT !.req = r, !.at = now]
    <3>1. PICK b \in BOOLEAN : NoRecordSeen(k, b) /\ inv' = [inv EXCEPT ![i] = y(b)]
      BY <2>5 DEF ExecuteApproves, Started
    <3>2. ~b /\ UNCHANGED faults
      BY <2>1, <3>1 DEF NoRecordSeen, KvOk
    <3>3. y(b).state = "calling" /\ y(b).blind = b
      <4> HIDE DEF k, re
      <4> QED BY DEF Idle
    <3> HIDE DEF y, k
    <3> QED
      BY <2>2, <3>1, <3>2, <3>3
  <2>6. ASSUME NEW i \in Invocations, NEW r \in Requests, DispatchAction(i, r) PROVE NoFaultInv'
    <3> DEFINE y == [[Idle EXCEPT !.state = "calling"] EXCEPT !.req = r, !.at = now]
    <3>1. y.state = "calling" /\ ~y.blind
      BY DEF Idle
    <3>2. inv' = [inv EXCEPT ![i] = y] /\ UNCHANGED faults
      BY <2>6 DEF DispatchAction, Started, KvOk
    <3> HIDE DEF y
    <3> QED
      BY <2>2, <3>1, <3>2
  <2>7. ASSUME NEW i \in Invocations, NEW r \in Requests, Spend(i, r) PROVE NoFaultInv'
    <3> DEFINE d == day_bucket(now)
               after == saturating_add(spent[d], r.action.amount_cents)
               y == [[Idle EXCEPT !.state = "committing", !.reads = SpendReads(d),
                                  !.put = SpentEntry(d), !.total = after]
                       EXCEPT !.req = r, !.at = now]
    <3>1. y.key = None /\ ~y.blind
      <4> HIDE DEF d, after
      <4> QED BY DEF Idle
    <3>2. CASE inv' = [inv EXCEPT ![i] = y] /\ KvOk
      <4> HIDE DEF y
      <4> QED BY <2>2, <3>1, <3>2 DEF KvOk
    <3> QED
      BY <2>1, <2>3, <2>7, <3>2 DEF Spend, Started
  <2>8. ASSUME NEW i \in Invocations, Call(i) PROVE NoFaultInv'
    BY <2>8, <1>2 DEF Call, NoFaultInv, TypeOK, Invocation
  <2>9. ASSUME NEW i \in Invocations, Record(i) PROVE NoFaultInv'
    <3>1. inv[i].key # None => RecordEntry(inv[i].key) # None
      BY <1>2, NoneAssumption DEF TypeOK, Invocation, Entries
    <3> QED
      BY <2>1, <2>9, <3>1, <1>2 DEF Record, NoFaultInv, TypeOK, Invocation, KvOk
  <2>10. ASSUME NEW i \in Invocations, Commit(i) PROVE NoFaultInv'
    <3>1. \A j \in Invocations : \A e :
             LET y == Invalidated(inv[j], e) IN
             /\ y.blind = inv[j].blind /\ y.state = inv[j].state
             /\ y.key = inv[j].key /\ y.put = inv[j].put
      BY <1>2, InvalidatedFields DEF TypeOK
    <3>2. LET y == Finished(inv[i], "done", "approved") IN
          y.blind = inv[i].blind /\ y.state = "done"
      BY <1>2, FinishedFields DEF TypeOK
    <3>3. \A j \in Invocations :
             /\ ~inv'[j].blind
             /\ inv'[j].state = "committing" /\ inv'[j].key # None => inv'[j].put # None
      BY <3>1, <3>2, <2>10, <1>2 DEF Commit, NoFaultInv, TypeOK
    <3> QED
      BY <3>3, <2>10, <1>2 DEF Commit, NoFaultInv
  <2>11. ASSUME NEW i \in Invocations, NEW st \in {"conflict", "crashed"},
                inv' = [inv EXCEPT ![i] = Finished(inv[i], st, "error")], UNCHANGED faults
         PROVE  NoFaultInv'
    <3> DEFINE y == Finished(inv[i], st, "error")
    <3>1. y.blind = inv[i].blind /\ y.state = st
      BY <1>2, FinishedFields DEF TypeOK
    <3> HIDE DEF y
    <3>2. inv' = [inv EXCEPT ![i] = y]
      BY <2>11 DEF y
    <3> QED
      BY <2>2, <2>11, <3>1, <3>2, <1>2 DEF NoFaultInv
  <2>12. ASSUME NEW e, inv' = [i \in Invocations |-> Invalidated(inv[i], e)], UNCHANGED faults
         PROVE  NoFaultInv'
    BY <2>12, <1>2, InvalidatedFields DEF NoFaultInv, TypeOK
  <2>13. ASSUME Tick \/ UNCHANGED vars PROVE NoFaultInv'
    BY <2>13, <1>2 DEF Tick, vars, NoFaultInv
  <2>14. ASSUME NEW i \in Invocations, NEW r \in Requests,
                \/ ExecuteErrs(i, r) \/ ExecuteRejects(i, r) \/ ExecuteLacksSecret(i, r)
                \/ Evaluate(i, r)
         PROVE  NoFaultInv'
    BY <2>1, <2>3, <2>14
       DEF ExecuteErrs, ExecuteRejects, ExecuteLacksSecret, Evaluate, NoRecordSeen
  <2> QED
    BY <1>2, <2>4, <2>5, <2>6, <2>7, <2>8, <2>9, <2>10, <2>11, <2>12, <2>13, <2>14
       DEF Next, WriteConflict, Crash, SeedMandate, SealSecret
<1>3. QED
  BY <1>1, <1>2, TypeCorrect, SoundCorrect, PTL DEF Spec

-----------------------------------------------------------------------------
(* How a step looks to the ledger.                                         *)

\* Whoever keeps these fields keeps its attempt.
LEMMA SameAttempt ==
    ASSUME NEW x, NEW y, Dispatching(x) <=> Dispatching(y),
           Dispatching(x) => Phase(x) = Phase(y) /\ x.key = y.key /\ x.response = y.response
    PROVE  Attempt(x) = Attempt(y)
<1>1. CASE Dispatching(x)
  BY <1>1, Zenon DEF Attempt
<1>2. CASE ~Dispatching(x)
  BY <1>2, Zenon DEF Attempt
<1> QED
  BY <1>1, <1>2

\* Invalidation is not seen in the ledger.
LEMMA InvalidatedAttempt ==
    ASSUME NEW x \in Invocation, NEW e
    PROVE  Attempt(Invalidated(x, e)) = Attempt(x)
<1> DEFINE y == Invalidated(x, e)
<1>1. /\ y.state = x.state /\ y.req = x.req /\ y.answer = x.answer
      /\ y.key = x.key /\ y.response = x.response
  BY InvalidatedFields
<1> HIDE DEF y
<1>2. (Dispatching(x) <=> Dispatching(y)) /\ Phase(x) = Phase(y)
  BY <1>1 DEF Dispatching, Phase
<1>3. Attempt(x) = Attempt(y)
  BY <1>1, <1>2, SameAttempt
<1> QED
  BY <1>3 DEF y

\* A step after which only i's attempt may differ.
LEMMA AttemptStep ==
    ASSUME NEW i \in Invocations, NEW a,
           \A j \in Invocations : j # i => Attempt(inv'[j]) = Attempt(inv[j]),
           Attempt(inv'[i]) = a
    PROVE  attempt' = [attempt EXCEPT ![i] = a]
  BY DEF attempt

\* A step after which no attempt differs.
LEMMA AttemptStays ==
    ASSUME \A j \in Invocations : Attempt(inv'[j]) = Attempt(inv[j])
    PROVE  attempt' = attempt
  BY DEF attempt

\* What has not started is an unopened attempt.
LEMMA IdleAttempt == ASSUME NEW x, x.state = "idle" PROVE Attempt(x) = Ledger!Unopened
  BY DEF Attempt, Dispatching, Ledger!Unopened

\* An invocation that starts and returns at once never was an attempt.
LEMMA ReturnIsInvisible ==
    ASSUME TypeOK, NEW i \in Invocations, inv[i].state = "idle",
           inv'[i].state = "done",
           inv'[i].answer = "approved" => inv'[i].req.fn \notin {"execute_action", "dispatch_action"},
           \A j \in Invocations : j # i => inv'[j] = inv[j]
    PROVE  attempt' = attempt
<1>1. Attempt(inv'[i]) = Attempt(inv[i])
  BY DEF Attempt, Dispatching
<1> QED
  BY <1>1, AttemptStays

\* A step the ledger does not see.
Invisible == attempt' = attempt /\ dispatched' = dispatched

\* A start opens an attempt, on a key without an entry.
LEMMA StartOpens ==
    ASSUME TypeOK, NEW i \in Invocations, Starts(i), inv'[i].state = "calling",
           inv'[i].req.fn \in {"execute_action", "dispatch_action"},
           inv'[i].response = None, inv'[i].key \in Keys \cup {None},
           inv'[i].key # None => dispatched[inv'[i].key] = None
    PROVE  Ledger!Next
<1> DEFINE k == inv'[i].key
<1>1. Attempt(inv'[i]) = [phase |-> "open", key |-> k, outcome |-> None]
  BY DEF Attempt, Dispatching, Phase
<1>2. attempt' = [attempt EXCEPT ![i] = [phase |-> "open", key |-> k, outcome |-> None]]
  BY <1>1, AttemptStep DEF Starts, Only
<1>3. attempt[i] = Ledger!Unopened
  BY IdleAttempt DEF attempt, Starts
<1>4. Ledger!Open(i, k)
  BY <1>2, <1>3 DEF Ledger!Open, Starts, Only
<1> QED
  BY <1>4 DEF Ledger!Next

\* The outbound call emits.
LEMMA CallEmits ==
    ASSUME TypeOK, SoundInv, NEW i \in Invocations, Call(i)
    PROVE  Ledger!Next \/ Invisible
<1> DEFINE x == inv[i]
           y == inv'[i]
<1>1. PICK o \in Responses : inv' = [inv EXCEPT ![i].state = "called", ![i].response = o]
  BY DEF Call
<1>2. /\ x.state = "calling" /\ x.response = None
      /\ y.state = "called" /\ y.response = o
      /\ y.req = x.req /\ y.key = x.key /\ y.answer = x.answer
      /\ \A j \in Invocations : j # i => inv'[j] = inv[j]
      /\ dispatched' = dispatched
  BY <1>1 DEF Call, TypeOK, Invocation, SoundInv, Sound, kv
<1>3. CASE Dispatching(x)
  <2>1. Attempt(x) = [phase |-> "open", key |-> x.key, outcome |-> None]
    BY <1>2, <1>3 DEF Attempt, Phase
  <2>2. Dispatching(y) /\ Attempt(y) = [phase |-> "emitted", key |-> x.key, outcome |-> o]
    BY <1>2, <1>3 DEF Attempt, Dispatching, Phase
  <2>3. attempt' = [attempt EXCEPT ![i] = [phase |-> "emitted", key |-> x.key, outcome |-> o]]
    BY <1>2, <2>2, AttemptStep
  <2>4. attempt[i] = [phase |-> "open", key |-> x.key, outcome |-> None]
    BY <2>1 DEF attempt
  <2>5. Ledger!Emit(i, o)
    BY <1>2, <2>3, <2>4 DEF Ledger!Emit, Ledger!Moves
  <2> QED
    BY <2>5 DEF Ledger!Next
<1>4. CASE ~Dispatching(x)
  <2>1. ~Dispatching(y)
    BY <1>2, <1>4 DEF Dispatching
  <2>2. Attempt(y) = Attempt(x)
    BY <1>4, <2>1, SameAttempt
  <2> QED
    BY <1>2, <2>2, AttemptStays DEF Invisible
<1> QED
  BY <1>3, <1>4

\* A commit of an attempt settles it; the key has no entry yet, or the order
\* would have been invalidated.
LEMMA CommitSettles ==
    ASSUME TypeOK, SoundInv, LedgerInv, NoFaultInv, NEW i \in Invocations, Commit(i)
    PROVE  Ledger!Next \/ Invisible
<1> DEFINE x == inv[i]
           y == inv'[i]
<1>1. /\ x.state = "committing" /\ y = Finished(x, "done", "approved")
      /\ \A j \in Invocations : j # i => Attempt(inv'[j]) = Attempt(inv[j])
  BY InvalidatedAttempt DEF Commit, TypeOK
<1>2. /\ y.state = "done" /\ y.answer = "approved" /\ y.req = x.req
      /\ y.key = x.key /\ y.response = x.response
  BY <1>1, FinishedFields DEF TypeOK
<1>3. CASE Dispatching(x)
  <2>1. Attempt(x) = [phase |-> "emitted", key |-> x.key, outcome |-> x.response]
    BY <1>1, <1>3 DEF Attempt, Phase
  <2>2. Dispatching(y) /\ Attempt(y) = [phase |-> "settled", key |-> x.key, outcome |-> x.response]
    BY <1>1, <1>2, <1>3 DEF Attempt, Dispatching, Phase
  <2>3. attempt' = [attempt EXCEPT ![i] = [phase |-> "settled", key |-> x.key, outcome |-> x.response]]
    BY <1>1, <2>2, AttemptStep
  <2>4. attempt[i] = [phase |-> "emitted", key |-> x.key, outcome |-> x.response]
    BY <2>1 DEF attempt
  <2>5. CASE x.key = None
    <3>1. x.put = None
      BY <2>5, <1>3 DEF SoundInv, Sound, Executes, Dispatching
    <3>2. dispatched' = dispatched
      BY <3>1 DEF Commit
    <3>3. Ledger!Settle(i)
      BY <2>3, <2>4, <2>5, <3>2 DEF Ledger!Settle, Ledger!Moves
    <3> QED
      BY <3>3 DEF Ledger!Next
  <2>6. CASE x.key # None
    <3>1. x.put # None /\ ~x.blind /\ Executes(x) /\ x.key \in Keys
      BY <1>1, <2>6 DEF NoFaultInv, SoundInv, Sound, TypeOK, Invocation
    <3>2. ~x.stale /\ dispatched' = [dispatched EXCEPT ![x.key] = x.response]
      BY <3>1 DEF Commit, Executes
    <3>3. dispatched[x.key] = None
      BY <1>1, <2>6, <3>1, <3>2, StateNames DEF LedgerInv, CurrentInv, Current
    <3>4. Ledger!Settle(i)
      BY <2>3, <2>4, <2>6, <3>2, <3>3 DEF Ledger!Settle, Ledger!Moves
    <3> QED
      BY <3>4 DEF Ledger!Next
  <2> QED
    BY <2>5, <2>6
<1>4. CASE ~Dispatching(x)
  <2>1. ~Dispatching(y)
    BY <1>1, <1>2, <1>4 DEF Dispatching
  <2>2. Attempt(y) = Attempt(x)
    BY <1>4, <2>1, SameAttempt
  <2>3. dispatched' = dispatched
    BY <1>1, <1>4 DEF Commit, SoundInv, Sound, Executes, Dispatching
  <2> QED
    BY <1>1, <2>2, <2>3, AttemptStays DEF Invisible
<1> QED
  BY <1>3, <1>4

\* A conflict or a crash loses the attempt.
LEMMA AbortLoses ==
    ASSUME TypeOK, SoundInv, NEW i \in Invocations, WriteConflict(i) \/ Crash(i)
    PROVE  Ledger!Next \/ Invisible
<1> DEFINE x == inv[i]
           y == inv'[i]
<1>1. PICK st \in {"conflict", "crashed"} : inv' = [inv EXCEPT ![i] = Finished(x, st, "error")]
  BY DEF WriteConflict, Crash
<1>2. /\ x.state \in Running /\ y = Finished(x, st, "error")
      /\ \A j \in Invocations : j # i => inv'[j] = inv[j]
      /\ dispatched' = dispatched
  BY <1>1, StateNames DEF WriteConflict, Crash, TypeOK, kv
<1>3. /\ y.state = st /\ y.req = x.req /\ y.key = x.key /\ y.response = x.response
  BY <1>2, FinishedFields DEF TypeOK
<1>4. CASE Dispatching(x)
  <2>1. Attempt(x) = [phase |-> Phase(x), key |-> x.key, outcome |-> x.response]
    BY <1>4 DEF Attempt
  <2>2. Dispatching(y) /\ Attempt(y) = [phase |-> "lost", key |-> x.key, outcome |-> x.response]
    BY <1>3, <1>4 DEF Attempt, Dispatching, Phase
  <2>3. attempt' = [attempt EXCEPT ![i] = [phase |-> "lost", key |-> x.key, outcome |-> x.response]]
    BY <1>2, <2>2, AttemptStep
  <2>4. attempt[i] = [phase |-> Phase(x), key |-> x.key, outcome |-> x.response]
    BY <2>1 DEF attempt
  <2>5. Phase(x) \in {"open", "emitted"}
    BY <1>2 DEF Phase, Running
  <2>6. Ledger!Lose(i)
    BY <1>2, <2>3, <2>4, <2>5 DEF Ledger!Lose, Ledger!Moves
  <2> QED
    BY <2>6 DEF Ledger!Next
<1>5. CASE ~Dispatching(x)
  <2>1. ~Dispatching(y)
    BY <1>2, <1>3, <1>5 DEF Dispatching, Running
  <2>2. Attempt(y) = Attempt(x)
    BY <1>5, <2>1, SameAttempt
  <2> QED
    BY <1>2, <2>2, AttemptStays DEF Invisible
<1> QED
  BY <1>4, <1>5

\* An invocation answered at once is no attempt.
LEMMA AnsweredIsInvisible ==
    ASSUME TypeOK, NEW i \in Invocations, NEW r \in Requests, NEW ans,
           inv[i].state = "idle", Answered(i, r, ans),
           ans = "approved" => r.fn \notin {"execute_action", "dispatch_action"}
    PROVE  Invisible
<1> DEFINE y == [Idle EXCEPT !.state = "done", !.req = r, !.answer = ans]
<1>1. y.state = "done" /\ y.req = r /\ y.answer = ans
  BY DEF Idle
<1>2. inv' = [inv EXCEPT ![i] = y] /\ UNCHANGED dispatched
  BY DEF Answered, kv
<1> HIDE DEF y
<1>3. inv'[i] = y /\ \A j \in Invocations : j # i => inv'[j] = inv[j]
  BY <1>2 DEF TypeOK
<1> QED
  BY <1>1, <1>2, <1>3, ReturnIsInvisible DEF Invisible

\* A replay is no attempt.
LEMMA ReplayIsInvisible ==
    ASSUME TypeOK, NEW i \in Invocations, NEW r \in Requests, ExecuteReplays(i, r)
    PROVE  Invisible
<1> DEFINE k == RecordKey(r.idempotency_key)
           y == [Idle EXCEPT !.state = "done", !.req = r, !.key = k,
                             !.answer = "replayed", !.response = Replayed(k)]
<1>1. y.state = "done" /\ y.answer = "replayed"
  <2> HIDE DEF k
  <2> QED BY DEF Idle
<1>2. inv[i].state = "idle" /\ inv' = [inv EXCEPT ![i] = y] /\ UNCHANGED dispatched
  BY DEF ExecuteReplays, kv
<1> HIDE DEF y
<1>3. inv'[i] = y /\ \A j \in Invocations : j # i => inv'[j] = inv[j]
  BY <1>2 DEF TypeOK
<1> QED
  BY <1>1, <1>2, <1>3, ReturnIsInvisible DEF Invisible

\* An approved execute_action opens an attempt: nobody is blind.
LEMMA ApprovalOpens ==
    ASSUME TypeOK, NoFaultInv', NEW i \in Invocations, NEW r \in Requests, ExecuteApproves(i, r)
    PROVE  Ledger!Next
<1> DEFINE k == RecordKey(r.idempotency_key)
           re(b) == ExecuteReads(k, b, mandate.credential_key)
           y(b) == [[Idle EXCEPT !.state = "calling", !.mandate = mandate,
                                !.key = k, !.blind = b,
                                !.auth = Bearer(mandate.credential_key, secrets), !.reads = re(b)]
                      EXCEPT !.req = r, !.at = now]
<1>1. PICK b \in BOOLEAN : NoRecordSeen(k, b) /\ inv' = [inv EXCEPT ![i] = y(b)]
  BY DEF ExecuteApproves, Started
<1>2. /\ y(b).state = "calling" /\ y(b).answer = None /\ y(b).mandate = mandate
      /\ y(b).key = k /\ y(b).blind = b /\ y(b).req = r /\ y(b).response = None
  <2> HIDE DEF k, re
  <2> QED BY DEF Idle
<1>3. k \in Keys \cup {None}
  BY RecordKeyType DEF ExecuteApproves
<1>4. inv[i].state = "idle" /\ r.fn = "execute_action" /\ UNCHANGED <<mandate, dispatched>>
  BY DEF ExecuteApproves, kv
<1> HIDE DEF y, k
<1>5. inv'[i] = y(b) /\ \A j \in Invocations : j # i => inv'[j] = inv[j]
  BY <1>1 DEF TypeOK
<1>6. ~b
  BY <1>2, <1>5 DEF NoFaultInv
<1>7. k # None => dispatched[k] = None
  BY <1>1, <1>6 DEF NoRecordSeen
<1>8. Starts(i)
  BY <1>2, <1>4, <1>5, <1>7, StateNames DEF Starts, Only
<1> QED
  BY <1>2, <1>3, <1>4, <1>5, <1>7, <1>8, StartOpens

\* A dispatch_action opens an attempt without a key.
LEMMA DispatchOpens ==
    ASSUME TypeOK, NEW i \in Invocations, NEW r \in Requests, DispatchAction(i, r)
    PROVE  Ledger!Next
<1> DEFINE y == [[Idle EXCEPT !.state = "calling"] EXCEPT !.req = r, !.at = now]
<1>1. /\ y.state = "calling" /\ y.answer = None /\ y.req = r
      /\ y.key = None /\ y.response = None
  BY DEF Idle
<1>2. /\ r.fn = "dispatch_action" /\ inv[i].state = "idle"
      /\ inv' = [inv EXCEPT ![i] = y] /\ UNCHANGED <<mandate, dispatched>>
  BY DEF DispatchAction, Started, kv
<1> HIDE DEF y
<1>3. inv'[i] = y /\ \A j \in Invocations : j # i => inv'[j] = inv[j]
  BY <1>2 DEF TypeOK
<1>4. Starts(i)
  BY <1>1, <1>2, <1>3, StateNames DEF Starts, Only, Executes
<1> QED
  BY <1>1, <1>2, <1>3, <1>4, StartOpens

\* A spend is no attempt.
LEMMA SpendIsInvisible ==
    ASSUME TypeOK, NEW i \in Invocations, NEW r \in Requests, Spend(i, r)
    PROVE  Invisible
<1> DEFINE d == day_bucket(now)
           after == saturating_add(spent[d], r.action.amount_cents)
           y == [[Idle EXCEPT !.state = "committing", !.reads = SpendReads(d),
                              !.put = SpentEntry(d), !.total = after]
                   EXCEPT !.req = r, !.at = now]
<1>1. inv[i].state = "idle" /\ r.fn = "spend"
  BY DEF Spend
<1>2. CASE \E ans \in {"error", "rejected"} : Answered(i, r, ans)
  BY <1>1, <1>2, AnsweredIsInvisible
<1>3. CASE inv' = [inv EXCEPT ![i] = y] /\ UNCHANGED <<kv, now>>
  <2>1. y.req = r
    <3> HIDE DEF d, after
    <3> QED BY DEF Idle
  <2> HIDE DEF y
  <2>2. inv'[i] = y /\ \A j \in Invocations : j # i => inv'[j] = inv[j]
    BY <1>3 DEF TypeOK
  <2>3. ~Dispatching(inv[i]) /\ ~Dispatching(inv'[i])
    BY <1>1, <2>1, <2>2 DEF Dispatching
  <2>4. Attempt(inv'[i]) = Attempt(inv[i])
    BY <2>3, SameAttempt
  <2> QED
    BY <1>3, <2>2, <2>4, AttemptStays DEF Invisible, kv
<1> QED
  BY <1>2, <1>3 DEF Spend, Started

\* Putting the record is not yet having it.
LEMMA RecordIsInvisible ==
    ASSUME TypeOK, NEW i \in Invocations, Record(i)
    PROVE  Invisible
<1>1. /\ inv[i].state = "called" /\ inv'[i].state = "committing"
      /\ inv'[i].req = inv[i].req /\ inv'[i].key = inv[i].key
      /\ inv'[i].response = inv[i].response
      /\ \A j \in Invocations : j # i => inv'[j] = inv[j]
      /\ dispatched' = dispatched
  BY DEF Record, TypeOK, Invocation, kv
<1>2. (Dispatching(inv[i]) <=> Dispatching(inv'[i])) /\ Phase(inv[i]) = Phase(inv'[i])
  BY <1>1 DEF Dispatching, Phase
<1>3. Attempt(inv'[i]) = Attempt(inv[i])
  BY <1>1, <1>2, SameAttempt
<1> QED
  BY <1>1, <1>3, AttemptStays DEF Invisible

\* What the tenant admin writes is no attempt.
LEMMA ProvisioningIsInvisible ==
    ASSUME TypeOK, NEW e, UNCHANGED dispatched,
           inv' = [i \in Invocations |-> Invalidated(inv[i], e)]
    PROVE  Invisible
<1>1. \A j \in Invocations : inv[j] \in Invocation /\ inv'[j] = Invalidated(inv[j], e)
  BY DEF TypeOK
<1>2. \A j \in Invocations : Attempt(inv'[j]) = Attempt(inv[j])
  BY <1>1, InvalidatedAttempt
<1> QED
  BY <1>2, AttemptStays DEF Invisible

\* Every step of the contract is a step of the ledger or invisible to it.
LEMMA StepRefines ==
    ASSUME TypeOK, SoundInv, LedgerInv, NoFaultInv, NoFaultInv', [Next]_vars
    PROVE  Ledger!Next \/ Invisible
<1>1. ASSUME NEW i \in Invocations, NEW r \in Requests,
             ExecuteErrs(i, r) \/ ExecuteRejects(i, r) \/ ExecuteLacksSecret(i, r)
      PROVE  Invisible
  BY <1>1, AnsweredIsInvisible DEF ExecuteErrs, ExecuteRejects, ExecuteLacksSecret
<1>2. ASSUME NEW i \in Invocations, NEW r \in Requests, Evaluate(i, r) PROVE Invisible
  BY <1>2, AnsweredIsInvisible DEF Evaluate
<1>3. ASSUME Tick \/ UNCHANGED vars PROVE Invisible
  BY <1>3 DEF Tick, vars, kv, Invisible, attempt
<1>4. ASSUME NEW m, SeedMandate(m) PROVE Invisible
  BY <1>4, ProvisioningIsInvisible DEF SeedMandate
<1>5. ASSUME NEW c, SealSecret(c) PROVE Invisible
  BY <1>5, ProvisioningIsInvisible DEF SealSecret
<1> QED
  BY <1>1, <1>2, <1>3, <1>4, <1>5, ReplayIsInvisible, ApprovalOpens, DispatchOpens,
     SpendIsInvisible, RecordIsInvisible, CallEmits, CommitSettles, AbortLoses DEF Next

\* While no kv-store call fails, execute_action and dispatch_action implement
\* DispatchLedger: a key's entry is written once, never overwritten, and
\* holds the outcome of an attempt that opened before there was one.
THEOREM LedgerRefinement ==
    ASSUME MaxFaults = 0 PROVE Spec => ImplementsLedger
<1>1. Init => Ledger!Init
  <2>1. ASSUME Init PROVE attempt = [i \in Invocations |-> Ledger!Unopened]
    BY <2>1, IdleAttempt DEF Init, Idle, attempt
  <2> QED
    BY <2>1 DEF Init, Ledger!Init
<1>2. ASSUME TypeOK, SoundInv, LedgerInv, NoFaultInv, NoFaultInv', [Next]_vars
      PROVE  [Ledger!Next]_<<dispatched, attempt>>
  BY <1>2, StepRefines DEF Invisible
<1> QED
  BY <1>1, <1>2, TypeCorrect, SoundCorrect, LedgerInvCorrect, NoFaultCorrect, PTL
     DEF Spec, ImplementsLedger, Ledger!Spec, Ledger!vars
===============================================================================
