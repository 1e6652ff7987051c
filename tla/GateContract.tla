---------------------------- MODULE GateContract ----------------------------
(***************************************************************************)
(* The enclave contract (gate-contract/src/gate.rs, wasm target) on its    *)
(* host: the four exported functions, the four KV maps they use, and the   *)
(* tenant admin who writes the mandate and the secrets from outside.       *)
(*                                                                         *)
(* The host runs every invocation as one optimistic transaction: reads see *)
(* the snapshot at its start, the cluster clock is pinned, writes are      *)
(* buffered and applied at commit unless something the invocation read was *)
(* written meanwhile (WriteConflict).  The outbound HTTP call is not part  *)
(* of the transaction: once made, nothing takes it back.                   *)
(*                                                                         *)
(* An entry point runs up to its outbound call (or its last KV write) in   *)
(* one action: everything it computes before that is a function of the     *)
(* snapshot, and no other invocation can see it.                           *)
(***************************************************************************)
EXTENDS GateRules, FiniteSets

CONSTANTS
    Invocations,   \* contract invocations, each used once
    Requests,      \* the inputs callers send
    Mandates,      \* the mandates the tenant admin provisions
    Names,         \* kinds, assets, payees, issuers, DIDs
    Keys,          \* trimmed idempotency keys
    Credentials,   \* entry names of the secrets map
    MaxU64,        \* u64::MAX, the saturation point of the running total
    DaySeconds,    \* 86 400
    MaxTime,       \* bound on the cluster clock
    MaxFaults      \* bound on failing kv-store calls

VARIABLES
    mandate,     \* z:<tid>:mandate["default"], None when not provisioned
    spent,       \* z:<tid>:spent, one running total per day bucket
    dispatched,  \* z:<tid>:dispatched, one recorded response per key
    secrets,     \* the non-empty entries of z:<tid>:secrets
    now,         \* cluster timestamp
    inv,         \* the invocations
    faults       \* kv-store calls that have failed so far

vars == <<mandate, spent, dispatched, secrets, now, inv, faults>>
kv   == <<mandate, spent, dispatched, secrets>>

-----------------------------------------------------------------------------
Cents == 0..MaxU64

Action == [kind : Names, asset : Names, amount_cents : Cents,
           counterparty : Names \cup {None}, issuer : Names \cup {None}]

Mandate == [max_amount_cents : Cents,
            allowed_kinds : SUBSET Names, allowed_assets : SUBSET Names,
            allowed_counterparties : SUBSET Names, allowed_issuers : SUBSET Names,
            counterparty_limits : [Names -> Cents \cup {None}],
            expires_at_secs : Nat, valid_after_secs : Nat,
            credential_key : Credentials \cup {""},
            require_credential : BOOLEAN, require_idempotency_key : BOOLEAN]

\* A commitment is the digest of some binding over some action, or malformed.
ActionDigest == Names \X Names \X Cents \X (Names \cup {""})

CredentialBinding ==
    [issuer : Names, subject : Names, claims_digest : Names,
     nonce : Names \cup {""},
     commitment : (Names \X Names \X Names \X ActionDigest \X (Names \cup {""}))
                    \cup {SplitText}]

\* What the inputs of the four entry points parse to.  A binding and a key are
\* whatever the caller supplied.
ExecuteReq ==
    [fn : {"execute_action"}, action : Action,
     credential : CredentialBinding \cup {None},
     idempotency_key : [text : Keys, form : KeyForms] \cup {None}]
EvaluateReq == [fn : {"evaluate"}, action : Action, mandate : Mandate \cup {None}]
DispatchReq == [fn : {"dispatch_action"}]
SpendReq    == [fn : {"spend"}, action : Action, daily_limit_cents : Cents]

\* {ok: true, code} whatever the status code, or {ok: false, error}.
Responses == {"ok", "failed"}
Answers   == {"error", "rejected", "replayed", "approved"}
Running   == {"calling", "called", "committing"}
Ended     == {"done", "conflict", "crashed"}

day_bucket(t) == t \div DaySeconds
Days == {day_bucket(t) : t \in 0..MaxTime}

\* Entries of the maps, as the host's read and write sets name them.
MandateEntry   == <<"mandate", "default">>
RecordEntry(k) == <<"dispatched", k>>
SpentEntry(d)  == <<"spent", d>>
SecretEntry(c) == <<"secrets", c>>

Idle == [state |-> "idle",      req |-> None,      at |-> 0,
         mandate |-> None,      key |-> None,      auth |-> None,
         reads |-> {},          blind |-> FALSE,   stale |-> FALSE,
         answer |-> None,       response |-> None,  put |-> None,
         total |-> 0]

Init ==
    /\ mandate \in Mandates \cup {None}
    /\ spent = [d \in Days |-> 0]
    /\ dispatched = [k \in Keys |-> None]
    /\ secrets \in SUBSET Credentials
    /\ now = 0
    /\ inv = [i \in Invocations |-> Idle]
    /\ faults = 0

-----------------------------------------------------------------------------
(* The host                                                                *)

\* A kv-store call returns an error; or it does not.
KvFault == faults < MaxFaults /\ faults' = faults + 1
KvOk    == UNCHANGED faults

\* Invocation i starts on request r and goes on: it is, for now, x.
Started(i, r, x) ==
    inv' = [inv EXCEPT ![i] = [x EXCEPT !.req = r, !.at = now]]

\* Invocation i starts on r and returns at once, without effect or write.
Answered(i, r, ans) ==
    /\ inv' = [inv EXCEPT ![i] = [Idle EXCEPT !.state = "done", !.req = r, !.answer = ans]]
    /\ UNCHANGED <<kv, now>>

\* A write to an entry invalidates every running transaction that read it.
Invalidated(x, entry) == [x EXCEPT !.stale = @ \/ entry \in x.reads]

Finished(x, st, ans) ==
    [x EXCEPT !.state = st, !.answer = ans, !.reads = {}, !.stale = FALSE]

\* The transaction commits: its buffered write, if any, becomes visible.  A
\* transaction that wrote nothing has nothing to conflict over.
Commit(i) ==
    LET x == inv[i] IN
    /\ x.state = "committing"
    /\ x.put = None \/ ~x.stale
    /\ IF x.put = None
       THEN /\ inv' = [inv EXCEPT ![i] = Finished(x, "done", "approved")]
            /\ UNCHANGED <<spent, dispatched>>
       ELSE /\ inv' = [j \in Invocations |->
                         IF j = i THEN Finished(x, "done", "approved")
                         ELSE Invalidated(inv[j], x.put)]
            /\ IF x.req.fn = "spend"
               THEN /\ spent' = [spent EXCEPT ![day_bucket(x.at)] = x.total]
                    /\ UNCHANGED dispatched
               ELSE /\ dispatched' = [dispatched EXCEPT ![x.key] = x.response]
                    /\ UNCHANGED spent
    /\ UNCHANGED <<mandate, secrets, now, faults>>

\* The transaction read something since overwritten: its write is dropped and
\* the caller gets an error.  Any outbound call it made stays made.
WriteConflict(i) ==
    LET x == inv[i] IN
    /\ x.state = "committing"
    /\ x.put # None
    /\ x.stale
    /\ inv' = [inv EXCEPT ![i] = Finished(x, "conflict", "error")]
    /\ UNCHANGED <<kv, now, faults>>

\* The node dies, or traps, before the commit.
Crash(i) ==
    /\ inv[i].state \in Running
    /\ inv' = [inv EXCEPT ![i] = Finished(inv[i], "crashed", "error")]
    /\ UNCHANGED <<kv, now, faults>>

Tick ==
    /\ now < MaxTime
    /\ now' = now + 1
    /\ UNCHANGED <<kv, inv, faults>>

-----------------------------------------------------------------------------
(* execute_action                                                          *)

\* read_mandate fails or finds nothing, or check_binding traps: the caller
\* gets an error and no audit row.
ExecuteErrs(i, r) ==
    /\ inv[i].state = "idle" /\ r.fn = "execute_action"
    /\ \/ KvFault
       \/ KvOk /\ (mandate = None \/ BindingTraps(r.credential))
    /\ Answered(i, r, "error")

ExecuteRejects(i, r) ==
    /\ inv[i].state = "idle" /\ r.fn = "execute_action"
    /\ mandate # None /\ ~BindingTraps(r.credential)
    /\ ~Approves(r, mandate, now)
    /\ KvOk
    /\ Answered(i, r, "rejected")

ReplayedAlwaysOk(k) == "ok"
ReplayedUnparsed(k) == "text"
Replayed(k) == dispatched[k]

\* Approved under a key that has a record: the record is the answer.
ExecuteReplays(i, r) ==
    LET k == RecordKey(r.idempotency_key) IN
    /\ inv[i].state = "idle" /\ r.fn = "execute_action"
    /\ mandate # None /\ Approves(r, mandate, now)
    /\ k # None /\ dispatched[k] # None
    /\ KvOk
    /\ inv' = [inv EXCEPT ![i] =
                 [Idle EXCEPT !.state = "done", !.req = r, !.key = k,
                              !.answer = "replayed", !.response = Replayed(k)]]
    /\ UNCHANGED <<kv, now>>

NoLookup(k, blind) == ~blind /\ KvOk

\* read_dispatch_record: a failing read counts as "no record" (blind).
NoRecordSeen(k, blind) ==
    \/ ~blind /\ (k # None => dispatched[k] = None) /\ KvOk
    \/ blind /\ k # None /\ KvFault

\* Approved, no record seen, but the credential the mandate names is missing
\* or cannot be read: nothing goes out unauthenticated instead.  (Both reads
\* failing ends as one of them failing does.)
ExecuteLacksSecret(i, r) ==
    LET k == RecordKey(r.idempotency_key) IN
    /\ inv[i].state = "idle" /\ r.fn = "execute_action"
    /\ mandate # None /\ Approves(r, mandate, now)
    /\ \/ /\ \E blind \in BOOLEAN : NoRecordSeen(k, blind)
          /\ ~AuthAvailable(mandate.credential_key, secrets)
       \/ /\ k # None => dispatched[k] = None
          /\ mandate.credential_key # ""
          /\ KvFault
    /\ Answered(i, r, "error")

\* Everything an execute_action about to call out has read.
ReadsAllButMandate(k, blind, c) ==
    (IF k = None \/ blind THEN {} ELSE {RecordEntry(k)})
      \cup (IF c = "" THEN {} ELSE {SecretEntry(c)})
ExecuteReads(k, blind, c) ==
    {MandateEntry}
      \cup (IF k = None \/ blind THEN {} ELSE {RecordEntry(k)})
      \cup (IF c = "" THEN {} ELSE {SecretEntry(c)})

\* The entry whose secret the Authorization header carries: the one read_secret
\* found in the map.
Bearer(c, sealed) == IF c # "" /\ c \in sealed THEN c ELSE None

\* Approved, no record seen, headers built: the call is about to go out.
ExecuteApproves(i, r) ==
    LET k == RecordKey(r.idempotency_key)
        c == mandate.credential_key
    IN
    /\ inv[i].state = "idle" /\ r.fn = "execute_action"
    /\ mandate # None /\ Approves(r, mandate, now)
    /\ AuthAvailable(c, secrets)
    /\ \E blind \in BOOLEAN :
          /\ NoRecordSeen(k, blind)
          /\ Started(i, r,
               [Idle EXCEPT !.state = "calling", !.mandate = mandate,
                            !.key = k, !.blind = blind,
                            !.auth = Bearer(c, secrets),
                            !.reads = ExecuteReads(k, blind, c)])
    /\ UNCHANGED <<kv, now>>

\* The outbound call.  A failed one may have acted upstream (a timeout), and
\* an answered one may not have (a 4xx is still {ok: true, code}).
Call(i) ==
    /\ inv[i].state = "calling"
    /\ \E response \in Responses :
          inv' = [inv EXCEPT ![i].state = "called", ![i].response = response]
    /\ UNCHANGED <<kv, now, faults>>

RecordKeyed(i) ==
    LET x == inv[i] IN
    /\ x.state = "called"
    /\ x.key # None /\ KvOk
    /\ inv' = [inv EXCEPT ![i].state = "committing", ![i].put = RecordEntry(x.key)]
    /\ UNCHANGED <<kv, now>>

\* The response is put under the key, after the call; a failing put is ignored.
Record(i) ==
    LET x == inv[i] IN
    /\ x.state = "called"
    /\ \/ /\ x.key = None /\ KvOk
          /\ inv' = [inv EXCEPT ![i].state = "committing"]
       \/ /\ x.key # None /\ KvOk
          /\ inv' = [inv EXCEPT ![i].state = "committing",
                                ![i].put = RecordEntry(x.key)]
       \/ /\ x.key # None /\ KvFault
          /\ inv' = [inv EXCEPT ![i].state = "committing"]
    /\ UNCHANGED <<kv, now>>

-----------------------------------------------------------------------------
(* evaluate, dispatch_action, spend                                        *)

\* Decide only, against the caller's own mandate or the one in KV.
Evaluate(i, r) ==
    LET m == IF r.mandate # None THEN r.mandate ELSE mandate IN
    /\ inv[i].state = "idle" /\ r.fn = "evaluate"
    /\ \/ /\ KvOk /\ m # None
          /\ Answered(i, r, IF decide(r.action, m, now) = {} THEN "approved" ELSE "rejected")
       \/ /\ r.mandate = None
          /\ KvFault \/ (KvOk /\ mandate = None)
          /\ Answered(i, r, "error")

\* A raw outbound call: no mandate, no key, no credential.
DispatchAction(i, r) ==
    /\ inv[i].state = "idle" /\ r.fn = "dispatch_action"
    /\ Started(i, r, [Idle EXCEPT !.state = "calling"])
    /\ KvOk
    /\ UNCHANGED <<kv, now>>

saturating_add(a, b) == IF a + b > MaxU64 THEN MaxU64 ELSE a + b

SpendReadsNothing(d) == {}
SpendReads(d) == {SpentEntry(d)}

AdmitsOnTotalBefore(before, after, limit) == before <= limit
Admits(before, after, limit) == after <= limit

\* The total is put only when it stays within the limit the caller passed; a
\* failing get or put is an error.
Spend(i, r) ==
    LET d == day_bucket(now)
        after == saturating_add(spent[d], r.action.amount_cents)
    IN
    /\ inv[i].state = "idle" /\ r.fn = "spend"
    /\ \/ KvFault /\ Answered(i, r, "error")
       \/ /\ ~Admits(spent[d], after, r.daily_limit_cents)
          /\ KvOk
          /\ Answered(i, r, "rejected")
       \/ /\ Admits(spent[d], after, r.daily_limit_cents)
          /\ KvOk
          /\ Started(i, r, [Idle EXCEPT !.state = "committing",
                                        !.reads = SpendReads(d),
                                        !.put = SpentEntry(d), !.total = after])
          /\ UNCHANGED <<kv, now>>

-----------------------------------------------------------------------------
(* The tenant admin, through the control plane (seedEntry)                 *)

SeedMandate(m) ==
    /\ m # mandate
    /\ mandate' = m
    /\ inv' = [i \in Invocations |-> Invalidated(inv[i], MandateEntry)]
    /\ UNCHANGED <<spent, dispatched, secrets, now, faults>>

SealSecret(c) ==
    /\ c \notin secrets
    /\ secrets' = secrets \cup {c}
    /\ inv' = [i \in Invocations |-> Invalidated(inv[i], SecretEntry(c))]
    /\ UNCHANGED <<mandate, spent, dispatched, now, faults>>

-----------------------------------------------------------------------------
Next ==
    \/ \E i \in Invocations, r \in Requests :
          \/ ExecuteErrs(i, r)
          \/ ExecuteRejects(i, r)
          \/ ExecuteReplays(i, r)
          \/ ExecuteLacksSecret(i, r)
          \/ ExecuteApproves(i, r)
          \/ Evaluate(i, r)
          \/ DispatchAction(i, r)
          \/ Spend(i, r)
    \/ \E i \in Invocations :
          Call(i) \/ Record(i) \/ Commit(i) \/ WriteConflict(i) \/ Crash(i)
    \/ \E m \in Mandates : SeedMandate(m)
    \/ \E c \in Credentials : SealSecret(c)
    \/ Tick

Spec == Init /\ [][Next]_vars

\* The host runs what it has started: an outbound call returns or times out,
\* and a transaction is committed or refused.
Fairness ==
    \A i \in Invocations :
        WF_vars(Call(i) \/ Record(i) \/ Commit(i) \/ WriteConflict(i))

FairSpec == Spec /\ Fairness

-----------------------------------------------------------------------------
(* Properties                                                              *)

ASSUME RequestsAssumption ==
    Requests \subseteq ExecuteReq \cup EvaluateReq \cup DispatchReq \cup SpendReq
ASSUME MandatesAssumption == Mandates \subseteq Mandate
ASSUME BoundsAssumption ==
    /\ MaxU64 \in Nat /\ MaxTime \in Nat /\ MaxFaults \in Nat
    /\ DaySeconds \in Nat \ {0}

Entries == {MandateEntry} \cup {RecordEntry(k) : k \in Keys}
             \cup {SpentEntry(d) : d \in Days}
             \cup {SecretEntry(c) : c \in Credentials}

ASSUME NoneAssumption ==
    /\ None \notin Mandates /\ None \notin Requests /\ None \notin Keys
    /\ None \notin Names /\ None \notin Credentials /\ None \notin Cents
    /\ None \notin Responses /\ None \notin Answers /\ None \notin Entries

Invocation ==
    [state : {"idle"} \cup Running \cup Ended, req : Requests \cup {None},
     at : 0..MaxTime, mandate : Mandates \cup {None}, key : Keys \cup {None},
     auth : Credentials \cup {None}, reads : SUBSET Entries,
     blind : BOOLEAN, stale : BOOLEAN, answer : Answers \cup {None},
     response : Responses \cup {None},
     put : Entries \cup {None}, total : Cents]

TypeOK ==
    /\ mandate \in Mandates \cup {None}
    /\ spent \in [Days -> Cents]
    /\ dispatched \in [Keys -> Responses \cup {None}]
    /\ secrets \subseteq Credentials
    /\ now \in 0..MaxTime
    /\ faults \in 0..MaxFaults
    /\ inv \in [Invocations -> Invocation]

Is(i, fn) == inv[i].req # None /\ inv[i].req.fn = fn

\* The outbound call of i has been made.
Sent(i) == inv[i].response # None /\ inv[i].answer # "replayed"

\* The response of i is in the dispatched map for good.
Recorded(i) ==
    Is(i, "execute_action") /\ inv[i].state = "done" /\ inv[i].put # None

\* The credential a mandate names, if it names one.
NamedCredential(m) == IF m.credential_key = "" THEN None ELSE m.credential_key

Lists(list, name) == name # None /\ {name, Wildcard} \cap list # {}

\* The terms of action a, at time t, are within mandate m in every dimension.
TermsPermitted(a, m, t) ==
    /\ a.amount_cents <= m.max_amount_cents
    /\ \A cap \in Cents :
          (a.counterparty # None /\ m.counterparty_limits[a.counterparty] = cap)
             => a.amount_cents <= cap
    /\ Lists(m.allowed_kinds, a.kind) /\ Lists(m.allowed_assets, a.asset)
    /\ m.allowed_counterparties # {} => Lists(m.allowed_counterparties, a.counterparty)
    /\ m.allowed_issuers # {} => Lists(m.allowed_issuers, a.issuer)
    /\ m.valid_after_secs <= t
    /\ m.expires_at_secs # 0 => t <= m.expires_at_secs

\* Binding c was issued over action a, by an issuer mandate m trusts.
BoundTo(c, a, m) ==
    /\ c.nonce # ""
    /\ c.commitment = <<c.issuer, c.subject, c.claims_digest, action_digest(a), c.nonce>>
    /\ a.issuer # None => a.issuer = c.issuer
    /\ m.allowed_issuers # {} => Lists(m.allowed_issuers, c.issuer)

\* What makes the outbound call of execute_action x legitimate.
OrderAuthorised(x) ==
    LET m == x.mandate
        a == x.req.action
        c == x.req.credential
    IN
    /\ TermsPermitted(a, m, x.at)
    /\ IF c = None THEN ~m.require_credential ELSE BoundTo(c, a, m)
    /\ x.key = None => ~m.require_idempotency_key /\ ~KeySupplied(x.req.idempotency_key)
    /\ x.auth = NamedCredential(m)

\* execute_action never lets an order out whose terms the mandate in KV at its
\* start did not permit, in any dimension of it; that lacks the credential or
\* the key the mandate requires, or comes with a credential issued over another
\* action or by an issuer the mandate does not trust; or whose Authorization
\* header does not carry the sealed secret the mandate names.  And no other
\* entry point ever sends a sealed secret.
EffectsWereAuthorised ==
    \A i \in Invocations : Sent(i) =>
        IF Is(i, "execute_action") THEN OrderAuthorised(inv[i]) ELSE inv[i].auth = None

\* Two invocations never both hold the record of one key, however they
\* interleave, unless one of them could not read the record: the second to
\* commit either sees the first one's record or loses to it.
OneRecordPerKey ==
    \A i, j \in Invocations :
        (i # j /\ Recorded(i) /\ Recorded(j) /\ inv[i].key = inv[j].key)
            => inv[i].blind \/ inv[j].blind

\* A replayed answer is the response some committed order under that key got.
ReplayIsTruthful ==
    \A i \in Invocations : inv[i].answer = "replayed" =>
        \E j \in Invocations :
            /\ Recorded(j)
            /\ inv[j].key = inv[i].key
            /\ inv[j].response = inv[i].response

\* A dispatch record commits only while the mandate it was approved under is
\* still the one in KV: an order sent across a re-seed loses its record.
RecordsCommitUnderCurrentMandate ==
    [][\A i \in Invocations :
         (~Recorded(i) /\ Recorded(i)') => inv[i].mandate = mandate]_vars

\* The spends of day d that were admitted, and the cents they paid, one by one.
Admitted(d) ==
    {i \in Invocations : /\ Is(i, "spend")
                         /\ inv[i].answer = "approved"
                         /\ day_bucket(inv[i].at) = d}

PaidCents(d) ==
    UNION {{i} \X (1 .. inv[i].req.action.amount_cents) : i \in Admitted(d)}

\* The running total of a day is what its committed spends add up to (capped
\* at u64::MAX): no admitted spend is lost to a concurrent one.
SpentIsCommittedSum ==
    \A d \in Days :
        LET total == Cardinality(PaidCents(d))
        IN  spent[d] = IF total > MaxU64 THEN MaxU64 ELSE total

\* The running total of a day never exceeds the limit of a spend admitted
\* that day: a spend over its own limit leaves no trace.
SpentWithinALimit ==
    \A d \in Days : spent[d] # 0 =>
        \E i \in Admitted(d) : spent[d] <= inv[i].req.daily_limit_cents

\* gate.rs:581, "Same key -> the recorded outcome is returned and nothing is
\* dispatched a second time", leaving out the crash the code documents: two
\* orders under one key never both go out while no kv-store call fails.
SameKeySentOnce ==
    \A i, j \in Invocations :
        (/\ i # j /\ Sent(i) /\ Sent(j)
         /\ inv[i].key # None /\ inv[i].key = inv[j].key)
            => "crashed" \in {inv[i].state, inv[j].state}

\* Every invocation the host starts ends: answered, refused or crashed.
InvocationsEnd ==
    \A i \in Invocations : (inv[i].state \in Running) ~> (inv[i].state \in Ended)

-----------------------------------------------------------------------------
(* The contract as a ledger of write-once entries (DispatchLedger).  An    *)
(* invocation is an attempt once it is about to make its outbound call.    *)

Phase(x) ==
    IF x.state = "calling" THEN "open"
    ELSE IF x.state \in {"called", "committing"} THEN "emitted"
    ELSE IF x.state = "done" THEN "settled"
    ELSE "lost"

Dispatching(x) ==
    /\ x.state # "idle"
    /\ x.req.fn \in {"execute_action", "dispatch_action"}
    /\ x.state = "done" => x.answer = "approved"

Attempt(x) ==
    IF Dispatching(x)
    THEN [phase |-> Phase(x), key |-> x.key, outcome |-> x.response]
    ELSE [phase |-> "unopened", key |-> None, outcome |-> None]

attempt == [i \in Invocations |-> Attempt(inv[i])]

Ledger == INSTANCE DispatchLedger
            WITH Attempts <- Invocations, Outcomes <- Responses,
                 ledger <- dispatched, attempts <- attempt

\* While no kv-store call fails, execute_action implements the ledger: a key
\* is recorded at most once, with the outcome of an attempt that opened
\* before there was a record.
ImplementsLedger == Ledger!Spec
=============================================================================
