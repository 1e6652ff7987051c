# Gatekeeper agent: a verification project

TLA+ specifications of the `t3-gatekeeper-agent` repository, the TLC runs that
check them on small instances and the proofs TLAPS checks for every instance.
Every definition is translated from the source; `PROJECT.json` maps it to the
lines it stands for.

Run a check with `tlc -workers 2 -config X.cfg M` and a proof with
`tlapm XProofs.tla`, in this directory.

## 1. The system

An AI agent proposes orders. A contract inside a trusted enclave (Rust, compiled
to wasm) decides whether a mandate the tenant admin provisioned permits them,
and makes the outbound call itself when it does. Around it sit the servers that
expose the same rules to other agents, and the scripts that provision, pay,
register and audit.

| Part | Source | State it keeps | Operations | Talks to |
| --- | --- | --- | --- | --- |
| Decision rules | `gate-contract/src/gate.rs` | none | `decide`, `check_binding`, `check_idempotency`, `auth_headers` | called by the entry points and by `gate_cli` |
| Enclave entry points | `gate.rs`, `lib.rs` | KV maps `mandate`, `spent`, `dispatched`, `secrets` | `evaluate`, `spend`, `dispatch_action`, `execute_action` | host: kv-store, clock, http |
| Provisioning | `agent/src/setup.mjs`, `lib.mjs`, `prove-enclave.mjs`, `probe-contract.mjs` | versions per tail, map ACLs, mandate, secret | `register`, `ensureMap`, `seedEntry`, `grantEgress`, probing | control plane, past the ACLs |
| Agent run | `agent/src/agent.mjs`, `lib.mjs` | none across runs | check revocation, dry runs, `execute_action`, quota waits | contract, revocation sources |
| Web Bot Auth door | `a2a-auth.mjs`, `web-bot-auth.mjs`, `hosted.mjs` | directory cache, nonce ledger (per process) | `requireWebBotAuth` | the caller's key directory |
| A2A server | `a2a-server.mjs` | in-memory task store | `execute`, `cancelTask` | engines, behind the door |
| Engines | `engine.mjs`, `gate-cli.mjs`, `gate-wasm.mjs` | the shared gate, its clock override | `decideWith`, `sharedGate` | compiled contract |
| MCP server | `mcp-server.mjs` | none | `gate_execute`, `gate_evaluate`, `fetch_paid_resource`, listings | engines, x402, contract |
| x402 | `x402.mjs`, `x402-settle.mjs`, `qa-console/server.mjs` | settlement of the last request | `fetchWithMandate`, `verifyPayment`, `settle` | paywall, facilitator, token |
| Revocation | `revocation.mjs`, `status-list.mjs`, `publish-status-list.mjs` | the published list | `checkCredentialStatus`, `checkStatus`, publishing | the site, on-chain registry |
| Audit | `audit.mjs` | none | `readActivity`, `reconcile` | the node's ledgers |
| ERC-8004 | `erc8004*.mjs` | `erc8004-minted.json` | mint, `readReputation` | chain |
| Card signature, discovery | `card-signature.mjs`, `a2a-card.mjs` | did:web document cache | sign, verify, resolve | published documents |

What is hard in it:

- **The outbound call is not part of the transaction.** The host runs an
  invocation optimistically: its reads are validated and its writes applied at
  the end. An order that has gone out stays out when the commit is refused, the
  node dies, or the record of the order cannot be written.
- **Overlap.** Two calls under one idempotency key, two spends of one day, two
  copies of a signed message waiting for the same key directory.
- **State that changes under a running call.** The admin re-seeds the mandate;
  the sender withdraws its key; the clock passes an expiry.
- **Rules whose parts pull in opposite directions.** Empty lists deny in one
  dimension and permit in another; the issuer is named twice by the caller.
- **Boundaries.** Saturation of the daily total, the last second of a nonce, a
  rounded price, a page that continues before number 0, a 32-bit shift, a byte
  offset into a string the caller wrote.
- **Waits that cannot be told from refusals.** A quota that was used up, a
  facilitator that timed out after it paid, an MCP answer that was lost: what
  may be repeated depends on what had happened.
- **Several files or calls that mean one thing.** Maps and their ACLs, a card
  and the document that verifies it, a mint and the record of it, with a kill
  in between.

`PROJECT.json` lists these as hazards, each at its line, with the properties
that cover it.

## 2. Modules

| Module | Models | Run |
| --- | --- | --- |
| `GateRules` | the pure rules of `gate.rs` | through the modules that extend it |
| `GateContract` | the four entry points on the host, and the admin | `GateLedgers`, `GateMixed`, `ClaimSameKey` |
| `DispatchLedger` | the abstract promise of idempotency keys | `GateMixed` (`ImplementsLedger`) |
| `MandateEditing` | one mandate after another, one request after another | `Errands` |
| `WebBotAuth` | the signature door, its cache and its nonce ledger | `Door` |
| `Engines` | who decides off-chain: a child process or the shared component | through `A2ATask` |
| `A2ATask` | the A2A executor over `Engines`, and cancellation | `A2ATasks` |
| `TaskLife` | the abstract promise of a task | `A2ATasks` (`ImplementsTaskLife`) |
| `X402` | paying client, paywalls, facilitator, token | `Payments` |
| `Provisioning` | setup and prove-enclave on the control plane | `Errands`, `ClaimSetupRerun` |
| `StatusList`, `Revocation` | the bit string; who is revoked and who finds out | through `AgentRun` |
| `AgentRun` | a run of the agent over `Revocation`, and the node's quota | `AgentRuns`, `ClaimQuotaIsLater` |
| `Publication` | card, did:web document, registration, mint, discovery | `Errands` |
| `McpExecute` | `gate_execute` between an MCP host and the enclave | `AgentRuns`, `ClaimToolRetry` |
| `Promotion` | probe and setup on the two tails | `Errands`, `ClaimSafeToPromote` |
| `AuditPaging`, `Reputation` | two readings of what grows meanwhile | `Errands` |
| `MC…` | values for TLC | |
| `…Proofs` | theorems, see section 4 | |

Composition is by extension: `GateRules` is under `GateContract`,
`MandateEditing`, `Engines` and `X402`; `Engines` is under `A2ATask`;
`StatusList` is under `Revocation`, which is under `AgentRun`. Two MC modules put
components that share nothing side by side, a behaviour being one of them:
`MCAgentRun` the two callers of `executeContract`, `MCErrands` what is done by
hand. Two modules are abstract and refined: `DispatchLedger` and `TaskLife`.

### GateRules

`decide` is the set of failing gates; an action is approved when it is empty, as
`reasons.is_empty()` in the code. A SHA-256 over length-prefixed fields is the
tuple of those fields: equal exactly when the digests are, up to a collision.
`action_digest` keeps the code's `unwrap_or("")`, which makes an absent payee
and an empty one the same terms. An idempotency key is its trimmed text and a
form (plain, padded, blank, too long, bad characters), the five things
`check_idempotency` tells apart. A commitment is a digest or `SplitText`, a
string with a multi-byte character across byte 16, on which the error message's
slice panics.

### GateContract

| Variable | Code |
| --- | --- |
| `mandate`, `spent`, `dispatched`, `secrets` | the KV maps `z:<tid>:…` |
| `now` | `cluster_timestamp_secs` |
| `inv` | one record per invocation: what it has read, what it will write, its answer |
| `faults` | kv-store calls that have failed |

An entry point runs up to its outbound call (or its last write) in one action:
the host gives it a snapshot and a pinned clock, so nothing another invocation
does is visible in between. The split points are those where something becomes
visible: the outbound call (`Call`), the write of the record (`Record`) and the
end of the transaction (`Commit`, `WriteConflict`, `Crash`).

- `ExecuteErrs`, `ExecuteRejects`, `ExecuteReplays`, `ExecuteLacksSecret` and
  `ExecuteApproves` are the exits of `execute_action` before the call, in the
  order of the code: mandate, binding, key, decision, record, secret.
- `Call` answers `ok` (any status code, a 4xx as well) or `failed`. Neither says
  whether the order acted upstream.
- `Record` writes after the call and ignores a failing write.
- `Commit` applies the write and marks every running transaction that read the
  entry as stale; a stale transaction with a write ends in `WriteConflict`.
- `Evaluate`, `DispatchAction`, `Spend` are the other entry points.
- `SeedMandate`, `SealSecret` are `seedEntry`, the admin's pen, which goes past
  the maps' ACLs.

Left out: URL, method, body and the choice between the two http interfaces
(neither changes the state the properties are about), audit text, and a stored
mandate that does not parse (its answer is that of a missing one). The host is
external: what it does on commit and conflict follows the interface files
under `gate-contract/wit`, which speak of an optimistic transaction with a
read-set that is validated at commit.

### DispatchLedger

Entries are written once. An attempt opens only on a key without an entry, makes
its call, and settles (writing the entry, possible only while there is none) or
is lost. It says nothing about how often the call is made: that is the honest
content of the promise, and `ClaimSameKey` shows the stronger reading to be
false. `GateContract` refines it with `Attempt`: an invocation of
`execute_action` or `dispatch_action` that is about to call out or has called.

### MandateEditing

`Seed` replaces the whole mandate, `Present` brings a new request, `Tick` moves
the clock. `Approved` is what `gate_cli` and `execute_action` both compute. Its
properties compare two decisions, which no run of one decision shows.

### WebBotAuth

| Variable | Code |
| --- | --- |
| `cache[s][o]` | the `cache` map of `directoryResolver` in instance `s` |
| `seen[s][n]` | the `seen` map of `nonceLedger` in instance `s` |
| `door[d]` | a request in `requireWebBotAuth`: before, in, and after `await resolve` |
| `withdrawn` | when a sender took a key out of its directory |
| `now` | the server's clock, in seconds |

The wait is split in three: the origin answers (`Reply`), the answer arrives
(`Resolve`), or neither (`FetchFails`). Several fetches for one origin may be
under way, and their answers may arrive in either order. What follows the wait
is synchronous in the code and one action here (`Serve`, `Refuse`), and time
does not pass before it. `Verifies` keeps the four comparisons of
`verifyRequest` with their differing use of skew; that the signature covers
what arrived is one boolean. Refusals before the wait (unsigned, no origin, no
keyid) and the card request that skips the check change no state and are left
out. A message without `expires` is refused by `verifyRequest` before the
ledger sees it, so the ledger's default never applies and every message here
has one.

### Engines, A2ATask and TaskLife

A task is the one call of `decideWith` it makes. `call[t]` is that call,
`shared` the state of the promise `sharedGate` caches, `bus[t]` the events the
executor has published, `executor[t]` how far it is. `execute` runs up to its
`await` in one action; then the child process answers, complains about its
input, fails or is killed at its timeout, or the component loads (or fails to)
and computes at once. `Conclude` is what follows the `await`, and `cancelTask`
may come at any moment before it. The component's `hostClock` is one variable of
the process; the call that sets it is synchronous, so the instant of a verdict
is the caller's, which `EvaluatedWhileAsked` checks against the wait. A key that
is the empty string is no key to `decideWith`, which tests for truth (`Given`).

`TaskLife` says that a task opens once, ends once, and keeps what it ended with.
`A2ATask` implements it for a peer that reads up to the first terminal state,
as the SDK's clients do; what the executor publishes after a cancellation lies
behind that point. That the component decides like the contract is the
transpiler's claim, taken here from `GateRules`; what is checked
(`ComponentIsNoLaxer`) is that the two checks it lacks are its only
difference.

### X402

| Variable | Code |
| --- | --- |
| `flow[f]` | a call of `fetchWithMandate`: what it signed, how it settled, how it ended |
| `request[r]` | a paid request at a paywall, sent by the client or repeated by the wire |
| `up` | the paywall processes that are running |
| `moved` | the EIP-3009 authorisations the token has executed |

The client's guards are those of the code in their order: challenge, supported
requirement, decimals, `decide` on the price in cents, wallet, domain. The price in
cents is rounded up while the authorisation carries atomic units, which is why `SignedWithinMandate` is stated in units. A paywall verifies
(`verifyPayment`) or has a facilitator verify and settle; a settlement that
times out may have moved money, and takes the process with it, since nobody
catches it. The token executes a nonce once, within its window. Payments are
lost, repeated, and presented elsewhere. Amounts beyond 64 bits are outside.

### Provisioning and Promotion

`run[r]` is the place of a script in its list of calls; every call is an action,
may fail for the runs in `Faulty`, and `Kill` may come between any two.
`deployed` are the versions registered, a contract id is a position in it, and
`maps[m]` an ACL. `Register` keeps the case of a version that is taken and that
of an answer that is lost, both of which leave the script without an id.
`prove-enclave` seals, seeds a mandate of its own and puts the default back.

`Promotion` has the two tails. A build bears the version that stands in
`lib.mjs`, which somebody may or may not have raised, so it may find its version
taken by an older build. The probe registers, or is refused and goes on; the
node runs the last build registered under a tail whatever version is named
(`Broken`), and accepts a component it cannot run. The probe counts failures and
calls the build safe or not; setup promotes. `safe` also keeps whether the
registration behind that word had been accepted, which the code does not.

### StatusList, Revocation and AgentRun

`StatusList` keeps the arithmetic: bit 0 is the most significant of byte 0, a
byte is the set of the places of its set bits, and it is found by a shift of an
integer whose sign bit weighs `SignBit` (2^31 in JavaScript). `setBits` is the
loop of `setBit` over the indices of an issuer. `Revocation`
has the issuer (`Publish`, which writes before it reads back; `Deploy`), another
issuer's document under the same address (`Replaced`), the registry, and
verifiers whose two questions are two steps; `got` is the list a check had its
answer from. `AgentRun` is the agent on top of it: it does not go on before its check
has ended (`AfterCheck`), then makes the calls of its `Plan` through `executeContract`, whose
error names the quota (it waits, each time longer), is of the quota without
naming it (given up at once) or any other (reported); `dropped` are the calls
given up for the quota.
The node admits `Cap` executions in `Window` ticks; a tick is the first wait.

### Publication

`files` is the working copy, `site` what is served, and `Deploy` copies one to
the other. The publisher writes card, document and registration in three steps,
with the key it read when it started. `minter` is `erc8004-register.mjs`:
preflight, transaction, receipt, record; `named` are the tokens that have been
on record, `lost` counts runs that died in between. A peer fetches the card and then one
document per signature, keeping the document as `didWebResolver` does for one
verification.

### McpExecute

A handler and an execution per call of the tool, apart from one another: the
handler connects, calls, waits for the quota and answers; the execution reads
the record, sends, and commits or dies. `GivesUp` is the client that stops
waiting, the answer that is lost and the server that ends, at any moment; the
execution goes on. The enclave is reduced to what `GateContract` does with the
record: read before the call (an unreadable one is none), written after it
(`CommitsUnrecorded`: a failing write is ignored), refused at commit when
another was first. `Patient` says whether the host waits for an answer, an
error included, before it repeats the key. `blind` and `loose` name the calls
that could not read, and those that died, outlived their handler or left no
record.

### AuditPaging and Reputation

The reader's loop is one action per page or chain read, and the ledger or the
registry grows in between. `Page` keeps both ends: a page may be held shorter
than asked for, and `before_seq` of 0 is falsy and asks for the newest.

## 3. Runs

All bounds are constants of the configurations. No run checks deadlock: a call,
a request or a script is used once, so a finished instance stops.

| Run | Instance | Shows |
| --- | --- | --- |
| `GateLedgers` | 3 invocations, one key plain and padded or spends of 1 and 2 under limits 2 to 4, u64 ends at 4, 2 days, 1 fault | `TypeOK`, `OneRecordPerKey`, `ReplayIsTruthful`, `SpentIsCommittedSum`, `SpentWithinALimit`. Three is the least for a record, a racing call and a replay |
| `GateMixed` | 2 invocations, 19 requests, 2 mandates, 3 instants | `EffectsWereAuthorised`, `RecordsCommitUnderCurrentMandate`, `ImplementsLedger`, `InvocationsEnd` |
| `Door` | 3 deliveries, 4 messages, 2 instances, 5 instants | `ServedOncePerInstance`, `WithdrawnKeyStopsWorking`, `RequestsAreAnswered`. Cache life 2, fetch 1, age 2: the life of a cache entry and of a nonce fit into the clock's bound |
| `A2ATasks` | 2 tasks, 10 messages, 2 instants | `EvaluatedWhileAsked`, `ComponentIsNoLaxer`, `CompletedCarriesItsVerdict`, `TasksEnd`, `ImplementsTaskLife` |
| `Payments` | 2 calls and a repeated request, 7 paywalls, 4 kinds of client, a mandate of two cents, 10 units per cent, 3 instants | `SignedWithinMandate`, `MoneyMovesOnce`, `ServedIsCovered`, `SettledServesOnce`, `FlowsEnd` |
| `AgentRuns` | one run of three calls, one of four other verifiers, lists of 16 and 24 entries, a sign bit of 128, 2 executions per 3 ticks, 3 retries; or one order, 3 calls of the tool, 1 quota wait | `OrdersLeaveOnce`, `QuotaIsWaitedOut`, `NothingBeforeTheCheck`, `ListTellsTheTruth`, `ClearedOnAnAnswer`, `PatientHostOrdersOnce`. The verifiers' indices are in the last bit, past the shorter list, wrapped by the shift, made negative by it, or absent; three calls are an error, a second order and a replay |
| `Errands` | promotion: 3 builds, 3 versions, 2 probes. Provisioning: 3 setups of 2 versions and a proof in turn, all killable, one setup and the proof with failing calls. Mandates: 96 mandates, 42 requests, 3 instants. Audit: a ledger of 6, pages of 2 held to 1, 5 read. Reputation: 2 clients with 2 entries each. Identity: 2 keys, 1 peer, 3 deployments, 2 mints | `PromotedWasProbed`; `SetupProvisions`, `NeverReopened`; `TighteningNeverApproves`, `ApprovedIssuerIsBoundAndTrusted`, `BindingFixesTheTerms`; `ReadsEachOnce`, `HonestIsConsistent`; `ReportIsComplete`; `CardMatchesItsKey`, `FailureMeansADeploy`, `IdentitiesAreNamed`. Three setups: one that is cut short, one that finds its remains, one after both; two mints: one that is lost, one after it |
| `ClaimSameKey`, `ClaimToolRetry`, `ClaimQuotaIsLater`, `ClaimSafeToPromote`, `ClaimSetupRerun` | the smallest instance of each | a counterexample each, see below |

**Constraints.** Some runs leave out combinations of things that do not touch
each other, so that each of them can have the size it needs:

- `OneKind` (`GateLedgers`): orders and spends share no map. Spends read neither
  mandate nor secret; orders run at one instant, and `GateMixed` moves the clock.
- `Focus` (`Door`, `Payments`): deliveries, calls and instances are numbered and
  the first goes first; where the most of them meet, they meet at one place.
  Every message and every paywall is met by fewer.
- `ChecksFirst` (`AgentRuns`): checks share nothing but what is published, and a
  run reads nothing of that after its own: one other verifier, whichever it is,
  has its turn, and has it before the run has calls to make.
- `OneReader` (`Errands`): peers and the minter look at different files.

TLC does not look past a state that breaks a constraint: what lies there is
covered by these arguments, and for the properties section 4 lists by the
proofs, which know no constraint. The liveness properties of `Door` and
`Payments` are checked of the behaviours that stay inside. `MCErrands` and
`MCAgentRun` do the same by an initial choice: a behaviour is of one component,
and the components share no variable. `GateLedgers` uses symmetry over invocations, which no action tells
apart, and checks no liveness.

**Scaled numbers.** What matters are ratios, and the configurations keep them.
The server's age bound is below the verifier's, skew below both, a fetch ends
before a cache entry goes stale. The waits of `executeContract` are 20, 40 and
60 seconds against a window of a minute: ticks of 20 seconds, one, two and three of
them, against a window of three. The list's entries stay below the largest
shifted integer, as the 131072 of the code do below 2^31; the indices that are
asked for do not. A cent is 10 units instead of 10000:
enough for prices on a cent and one unit above it.

### Fairness

- `InvocationsEnd`: weak fairness of an invocation's own steps. The host drives
  what it started, an outbound call returns or times out, a commit is accepted
  or refused.
- `RequestsAreAnswered`: weak fairness of a request's resumption. The fetch
  carries `AbortSignal.timeout`, so it fails if nothing comes, and the event
  loop runs what is ready. `Reply` is not fair: no origin has to answer.
- `TasksEnd`: the component's load settles (its files are local), a child
  process ends or is killed at `execFile`'s timeout, and a settled promise
  resumes its executor.
- `FlowsEnd`: every wait of the client and the paywall is an exchange that ends
  or is given up: a connection that breaks, a facilitator's timeout.

Nothing is assumed of kills, crashes, callers, cancelling peers, the admin,
deployments, the chain or the clock. The other runs check safety only.

### Where the code and its comments part

Five runs check one sentence of the repository each and find it violated:

- `ClaimSameKey`: "Same key -> the recorded outcome is returned and nothing is
  dispatched a second time" (`gate.rs:581`). The record is read before and
  written after the outbound call, so two overlapping calls both dispatch, and
  only one commits its record. The comments name a crash as the only exception;
  the run has no crash that matters and no fault. `GateLedgers` allows a failing
  kv-store call because the records must survive one.
- `ClaimToolRetry`: "Retrying with the same key replays the recorded outcome
  instead of placing a second order" (`mcp-server.mjs:340`). The host waits for
  each answer. It hears an error while the order is still being sent and repeats
  the key before the record is there. `PatientHostOrdersOnce` says what else has
  to go wrong for this: an execution that died, outlived its handler, was not
  recorded (`gate.rs:803`; `MAINTENANCE.md:267` says retries are then not
  deduplicated) or could not read.
- `ClaimQuotaIsLater`: "Backoff, not failure, because a quota is a "later", not a
  "no"" (`lib.mjs:97`). A refusal that says only `RPC Error: Internal error`, as
  `MAINTENANCE.md:260` reports, does not match (`lib.mjs:111`) and is thrown.
- `ClaimSafeToPromote`: the version "is safe to promote" (`probe-contract.mjs:105`).
  A refused registration is ignored (`probe-contract.mjs:42`), the probes run
  the older build under that version, and the word is said of one that never ran.
- `ClaimSetupRerun`: "Safe to re-run — it re-points each map's ACL at the newly
  registered contract id" (`setup.mjs:2`, `MAINTENANCE.md:243`). A setup after one
  that was killed finds its version registered, gets no id (`setup.mjs:61`), and
  re-points nothing; maps it has to create are everyone's.

These were met while translating and have no run of their own. The models follow
the code in each of them.

| The repository says | The code does |
| --- | --- |
| a binding is single-use (`gate.rs:98`) | no nonce is recorded; a second key sends a second order |
| the recorded outcome is returned (`gate.rs:581`) | only if today's mandate still approves (`gate.rs:656`) |
| a binding failure is a rejection, not an error (`gate.rs:615`) | a commitment that is not split at a character boundary panics (`gate.rs:168`) |
| the mandate has a cumulative velocity limit (`MAINTENANCE.md:20`) | `spend` takes the limit from its caller, and orders ignore the total (`gate.rs:437`) |
| a replay in the window is refused, after it the signature has expired (`a2a-auth.mjs:20`) | the ledger forgets at `expires`, the verifier accepts 30 s longer (`a2a-auth.mjs:68`) |
| the component refuses what it cannot check (`engine.mjs:10`) | only when a binding or key is sent; a mandate that requires one is approved without (`engine.mjs:27`) |
| `gate_cli` returns the struct the enclave returns (`gate-cli.mjs:60`) | on bad input it prints `{"error"}`, which resolves like a decision (`gate-cli.mjs:74`) |
| nothing follows COMPLETED or FAILED (`a2a-server.mjs:143`) | after a cancellation the executor publishes its artifact and a second end (`a2a-server.mjs:213`) |
| `dispatched` is contract-only (`setup.mjs:78`) | a setup that finds its version registered has no id and creates the map for everyone (`setup.mjs:61`) |
| the mandate is left as it was found (`prove-enclave.mjs:27`) | the default is written, whatever was found (`prove-enclave.mjs:158`) |
| an index past the end throws (`status-list.mjs:73`) | an index of 2^31 or more is that of another entry, or negative, and is answered (`status-list.mjs:72`; `test/status-list.test.mjs:57` tests a small one) |
| `REVOKED_INDICES` names the revoked (`publish-status-list.mjs:5`) | an empty piece is index 0 (`publish-status-list.mjs:26`) |
| an audit row for approved and rejected (`agent.mjs:5`) | live orders print none (`agent.mjs:148`) |
| `problems` names each signature that failed (`card-signature.mjs:63`) | a header that is JSON `null` throws and nothing is reported (`card-signature.mjs:76`) |
| an index that was never written is skipped (`erc8004.mjs:216`) | so is one whose chain read failed |

## 4. Proofs

Each theorem holds for every value of the constants that satisfies the named
assumptions of the modules it is about. They fix what the code fixes: the types
of requests, mandates, messages and requirements, naturals as bounds, a list
that ends below the sign bit, a quota that admits something, a probe that calls
at least once, verdicts that are neither the text of an error nor a commitment
(`ResultsAssumption`), and that `None`, `Nothing`, `NoBuild` and `NoSeq` are none of the
values they stand beside.

| Module | Theorem | Statement |
| --- | --- | --- |
| `GateContractProofs` | `TypeCorrect` | `[]TypeOK` |
| | `EffectsAreAuthorised` | `[]EffectsWereAuthorised` |
| | `OneRecordPerKeyHolds` | `[]OneRecordPerKey` |
| | `ReplayIsTruthfulHolds` | `[]ReplayIsTruthful` |
| | `RecordsCommitUnderMandate` | `RecordsCommitUnderCurrentMandate` |
| | `LedgerRefinement` | `ImplementsLedger`, while no kv-store call fails (`MaxFaults = 0`) |
| | `SpentIsSummed` | `[]SpentIsCommittedSum` |
| | `SpentWithinALimitHolds` | `[]SpentWithinALimit` |
| `MandateEditingProofs` | `TighteningIsSafe` | `TighteningNeverApproves` |
| | `ApprovedIssuerIsTrusted` | `[]ApprovedIssuerIsBoundAndTrusted` |
| | `BindingFixesTerms` | `[]BindingFixesTheTerms` |
| `WebBotAuthProofs` | `TypeCorrect` | `[](TypeOK /\ UnderWay)` |
| | `ServedOnce` | `[]ServedOncePerInstance` |
| | `WithdrawnKeyStops` | `WithdrawnKeyStopsWorking` |
| `A2ATaskProofs` | `VerdictsAreFresh` | `[]EvaluatedWhileAsked` |
| | `ComponentAsStrict` | `[]ComponentIsNoLaxer` |
| | `VerdictsAreCarried` | `[]CompletedCarriesItsVerdict` |
| | `TaskRefinement` | `ImplementsTaskLife` |
| `X402Proofs` | `TypeCorrect` | `[]TypeOK` |
| | `SigningIsWithinMandate` | `[]SignedWithinMandate` |
| | `RefusedSignsNothing` | `[]UnpaidSignedNothing` |
| | `MoneyMovesOnceHolds` | `[]MoneyMovesOnce` |
| | `ServingIsCovered` | `[]ServedIsCovered` |
| | `SettlingServesOnce` | `[]SettledServesOnce` |
| `ExecuteProofs` | `TypeCorrect` | `[]TypeOK` of `McpExecute` |
| | `ApprovedIsOnRecordHolds` | `[]ApprovedIsOnRecord` |
| | `PatientHostOrdersOnceHolds` | `[]PatientHostOrdersOnce` |
| | `OrdersLeaveOnceHolds` | `[]OrdersLeaveOnce` |
| | `NothingBeforeTheCheckHolds` | `[]NothingBeforeTheCheck` |
| | `ListTellsTheTruthHolds` | `[]ListTellsTheTruth` |
| | `ClearedOnAnAnswerHolds` | `[]ClearedOnAnAnswer` |
| | `QuotaIsWaitedOutHolds` | `[]QuotaIsWaitedOut`, for one run whose waits together are no shorter than the window |
| `ScriptProofs` | `PromotedWasProbedHolds` | `[]PromotedWasProbed` |
| | `ReadsEachOnceHolds` | `[]ReadsEachOnce` |
| | `HonestIsConsistentHolds` | `[]HonestIsConsistent` |
| | `ReportIsCompleteHolds` | `[]ReportIsComplete` |
| | `CardMatchesItsKeyHolds` | `[]CardMatchesItsKey` |
| | `FailureMeansADeployHolds` | `[]FailureMeansADeploy` |
| | `IdentitiesAreNamedHolds` | `[]IdentitiesAreNamed` |
| `ProvisioningProofs` | `TypeCorrect` | `[]TypeOK` |
| | `OnlyTheAdminWritesHolds` | `[]OnlyTheAdminWrites` |
| | `NeverReopenedHolds` | `NeverReopened` |
| | `SetupProvisionsHolds` | `[]SetupProvisions`, for scripts that take turns (`~Overlapping`) |

`ExecuteProofs` is about the two ways to the enclave from outside, the MCP tool
and the agent's own run; `ScriptProofs` about the scripts of `Promotion`,
`AuditPaging`, `Reputation` and `Publication`. Every invariant and action
property that a passing run checks is stated by one of these theorems.

**Effects.** `EffectsWereAuthorised` speaks of invocations that have sent. Its
induction needs the same of one that is about to send, and that an invocation
that has not run has sent nothing: the invariant `SoundInv`. `ApprovedOrder` is
the lemma that turns the code's guards into what the property says of the terms,
the credential, the key and the secret, dimension by dimension.

**Records.** `OneRecordPerKey` is not inductive: two calls in flight on one key
are harmless only because the second commit is refused. The invariant adds that
a transaction that is not stale still sees what it read (`Current`: its mandate
and, unless blind, no record), that what was recorded stays (`Kept`), and that
every entry comes from some committed invocation (`Backed`). A commit under a
record that exists then contradicts `Current`.

**Refinement.** With no faults nothing is blind (`NoFaultInv`), so a committing
transaction that is not stale finds its key unrecorded, which is what
`DispatchLedger!Settle` demands. One lemma per action says which abstract step
it is, or that it is a stutter.

**Spends.** `SpentIsCommittedSum` is a sum over the admitted spends of a day, and
the library's facts about sums take an operator. The model writes the sum as the
number of elements of `PaidCents`, one per cent of one invocation: adding a
spend adds a set of new pairs, whose size `PaysItsCents` gives from the theorems
on cardinality. What makes the step true is `SpendsInv`: a spend that commits
unless somebody invalidated it carries the total there is plus its own amount
(`UpToDate`), because the entry it will write is among its reads. `CountInv` is
the total of each day; saturation commutes with the addition. The limit follows
from `SpendSound`: a spend that commits was within the limit it named.

**Editing.** `decide` is monotone in the mandate, dimension by dimension
(`TighterDecidesLess`), and so is approval (`TighterApprovesLess`).

**Replay.** A served message's nonce is either still in the ledger with an
expiry at or after the message's, or the message is no longer recent: its
nonce can only have been swept after `expires`, and the age bound ends no
later. That conditional is the invariant.

**Withdrawn keys.** `Honest` bounds the age of what a directory may still list,
stage by stage: an answer lists no key withdrawn before its fetch began, a
cache entry none withdrawn more than `FetchTimeout` before it was stored, and a
directory in hand none withdrawn `Ttl + FetchTimeout` ago. It holds whichever
of two concurrent answers overwrites the other.

**Tasks.** `EngineInv` says of each verdict that its instant lies between the
request and the present, or is the one its caller named, and of an approval by the
component that it was asked nothing it cannot check and that `decide` had nothing
against it at that instant (`CallSound`, `VerdictSound`). `ComponentIsNoLaxer`
then compares two engines at one instant. `TaskSound` says that the bus of a task is one of
eight sequences, by how far its executor is and whether it was cancelled: not
opened, opened, refused unread or after the wait, carrying a verdict,
cancelled, and cancelled with either end behind it. `Views` computes what a peer sees of each, and
`TaskRefinement` follows action by action: an event that is published behind
the first terminal state is a stutter of `TaskLife`.

**Payments.** The invariant has five parts. `Shape` types the records. `FlowsOwn`
says that a call's authorisation bears its own nonce and its own paywall's terms
and was priced inside the mandate. `RequestsKept` says that a request past the
paywall's check is covered by that paywall's requirement, whoever carries it.
`Carried` says that what is under way, and what has moved, was signed by a call.
`PaidApart` says that two served settlements are of two authorisations, because
the token has executed each and executes none twice. Money moving once follows
from the nonce: a call signs once, so equal nonces are equal authorisations.
`CeilingBounds` is the arithmetic under the cap: a price rounded up to at most
the cap is at most the cap's worth of units.

**One order per key.** The invariant has a part for each call and one for each
pair. `CallSound`: an execution that has begun has a handler that waits for it
or is answered, and then the call is loose; it has sent once at most; once over,
it left a record, sent nothing or is loose; and what it says was so.
`PairSound`: of a patient host's two calls the earlier is answered, and when it
has sent and is not loose, the later one has seen the record, or cannot have
read it. A step of one call disturbs its own part and the pairs it is in
(`StepKeeps`), which leaves two lemmas for the steps that send nothing and two
proofs for those that read and send.

**The agent's run.** `RunSound` ties the calls that left the enclave to the place in
the plan: one at most for each call that is over or under way, none for those to come. A
call that is waited for was refused before anything was executed, so its
repetition is the first that counts. That a run is past its check only when
that is over and did not say revoked is part of the same invariant. `RevInv` says that a
document under the issuer's address names in its bits what the issuer named
(`BuiltListTells`: within the list, the byte and the place of an index determine
it; outside, both are those of what the shift leaves of it), and of
each check that what it holds was read from such a document. For the quota,
`WaitedOut` says that after `a` refusals of one call what was admitted fewer
than `1 + .. + a` ticks ago, less what is left of the present wait, is nothing:
nobody else is admitted while the only run waits. After the last refusal that
span covers the window, and a window in which nothing was admitted refuses
nothing. A refusal that does not name the quota ends its call, and begins the
count anew. Both conditions are needed and both are stated: with a second run, or
with waits shorter than the window, a call may be given up.

**Promotion.** `ScriptSound` says that a script under way has, once it has read
the file, the present build: nobody builds meanwhile. A probe whose registration
was accepted calls that build, since the node runs the last one registered; so
if such a probe counted no failure, the build runs, which `PromInv` carries from
the probe to its verdict and from there to the setup that rests on it. Nothing
of this holds of a probe that was refused, and `PromotedWasProbed` names it as
the only other case.

**Audit.** `ReaderSound` says that the numbers read are gapless, down from
the newest one of the first page (`Gapless`), that the next page begins where
they end, and that a reading stops at its limit or at number 0. `PageContinues`
is the step of one page, however many of its rows the node holds back, and the
ledger may grow under it. For the second property the rows of the receipts are
mapped one to one into the successful numbers read, so there are at least as
many.

**Reputation.** A walk splits the clients it listed into those it is done with,
the one it reads and those to come (`DoneWith`, `UnderWay`, `ToCome`), and
unless it skipped something, each entry there was at its beginning is read
once in the first, below the present index in the second, and not yet in the third.
`Keeps` is what the registry grants: its lists grow and a revocation stands.

**Publication.** `PublisherSound` names the files a run has written so far, with
the key it read at its start, which a rotation of the key does not change.
`PeerSound` says that a peer that checks a card of ours which is still served
has the key served with it, or none yet; a deployment in between lifts that.
`MintsSound` counts: the tokens nobody named and the transactions still to be
mined are together no more than the runs that died after sending, and the one
that waits. A run that records names the token of its own receipt, which nobody
had named, so the count goes down with the run.

**Setup.** For any overlap, failures and kills, ids are those of registered
versions, the maps of the mandate and the secrets are created with no writers
and every update keeps that, and an existing map is only updated by a script
that has an id to point it to.
`SetupProvisions` needs that scripts take turns (`~Overlapping`), and nothing
about versions, failures or kills. Its invariant `Orderly` says that one script
at most is under way (`OneScript`), that one setup at most holds the newest
id (`Numbered`), that a setup holding the newest id has every map it is past
(`Mine`, `Made`), and that a credential that is named is sealed unless a setup
that names one is on its way or was cut short (`KeyIsThere`, `Sealed`).

Checked by TLC only: the four liveness properties (`InvocationsEnd`,
`RequestsAreAnswered`, `TasksEnd`, `FlowsEnd`), since ENABLED and fairness are
outside the prover's reach. Proved only, in no run: the type
invariants of `WebBotAuth`, `X402`, `McpExecute` and `Provisioning`,
`UnpaidSignedNothing`, `ApprovedIsOnRecord`, `OnlyTheAdminWrites`, and
`NeverReopened` for scripts that overlap. No module uses a recursive operator:
the sums and loops of the code are sizes of sets and functions defined point by
point, which is what lets the invariants about them be proved.

## 5. What would come next

In this order, by what it would add:

1. `GateContract` in the place of the reduced enclave of `McpExecute` and
   `AgentRun`, with the real decision rules under the retries: a refinement of
   the reduced enclave by the contract would carry their theorems over.
2. The MCP listing tools and the selective disclosure of a mandate, whose
   derivation is a function that can be compared with `GateRules`.
3. The outbound signer against the door, with both clocks.

## 6. Not modelled

- **Outbound signing** (`web-bot-auth-fetch.mjs`): one pure function per request.
- **Selective disclosure, discovery and status scripts** (`agent-sd.mjs`,
  `discover.mjs`, `x402-verify.mjs`, `erc8004-status.mjs`): one derivation or one
  sequence of reads, printed. They keep nothing and nothing overlaps them.
- **MCP's listing and discovery tools**, tool schemas, the HTTP layer and the
  SDK's task store: static data or other people's code.
- **`gate-wasm/gate_contract.js`**: jco's generated glue, half of all the lines
  of JavaScript. It lifts and lowers values; it is not a source of the system.
- **Site, QA scripts, submission, video**: presentation.

Cryptography is assumed: a signature that verifies was made by the key, digests
do not collide, 32 random bytes do not repeat, the enclave runs the code. The
host's transactions, the chain, the token and the A2A SDK are modelled from how
the code uses them.
