----------------------------- MODULE McpExecute -----------------------------
(***************************************************************************)
(* The tool gate_execute of the MCP server (mcp-server.mjs) between a host *)
(* that may lose patience and an enclave that keeps a record per           *)
(* idempotency key.  Every call of the tool has a handler of its own; it   *)
(* connects, and executes through executeContract (lib.mjs), which waits   *)
(* up to two minutes when the node's quota is used up.  No handler learns  *)
(* that its host has stopped listening, and no execution that its handler  *)
(* has: an error of the client, or the end of the server, leaves it        *)
(* running.  The enclave is reduced to what GateContract does with the     *)
(* record, the reads and writes of it that fail included.                  *)
(***************************************************************************)
EXTENDS Naturals, FiniteSets

CONSTANTS
    Orders,    \* orders, each with its idempotency key
    Calls,     \* calls of the tool a host may make per order: 1..Calls
    Retries,   \* of executeContract
    Patient,   \* does the host wait for the answer before it calls again
    None

VARIABLES
    handler,    \* per order and call: the handler's place, attempt and answer
    execution,  \* per order and call, what runs in the enclave: its place, the
                \* record it saw, its outcome
    record,     \* per order, has the enclave a record of its dispatch
    sent,       \* per order and call, how often it left the enclave
    blind,      \* calls whose execution could not read the record
    loose       \* calls whose execution died after it had sent, or went on when
                \* its handler had stopped waiting, or could not write the record

toolVars == <<handler, execution, record, sent, blind, loose>>

ASSUME CallsAssumption == Calls \in Nat /\ Retries \in Nat /\ Patient \in BOOLEAN

Answers == {"unreachable", "threw", "rejected", "approved", "replayed"}

ASSUME NoneAssumption == None \notin Answers

NotCalled == [at |-> "none", attempt |-> 0, answer |-> None]
NotRun == [at |-> "none", seen |-> FALSE, outcome |-> None]

ToolInit ==
    /\ handler = [k \in Orders |-> [i \in 1..Calls |-> NotCalled]]
    /\ execution = [k \in Orders |-> [i \in 1..Calls |-> NotRun]]
    /\ record = [k \in Orders |-> FALSE]
    /\ sent = [k \in Orders |-> [i \in 1..Calls |-> 0]]
    /\ blind = {} /\ loose = {}

At(k, i, place) == handler[k][i].at = place
Runs(k, i, place) == execution[k][i].at = place
Moves(k, i, place) == handler' = [handler EXCEPT ![k][i].at = place]
Answer(k, i, said) ==
    handler' = [handler EXCEPT ![k][i].at = "answered", ![k][i].answer = said]

\* A host calls again when it was not told the outcome.
HostCalls(k, i) ==
    /\ At(k, i, "none")
    /\ i > 1 => /\ ~At(k, i - 1, "none")
                /\ handler[k][i - 1].answer \in {None, "unreachable", "threw"}
                /\ Patient => At(k, i - 1, "answered")
    /\ Moves(k, i, "connecting")
    /\ UNCHANGED <<execution, record, sent, blind, loose>>

\* No credentials, no session: an isError result, and nothing approximated.
Connects(k, i) ==
    /\ At(k, i, "connecting")
    /\ Moves(k, i, "calling") \/ Answer(k, i, "unreachable")
    /\ UNCHANGED <<execution, record, sent, blind, loose>>

Executes(k, i) ==
    /\ At(k, i, "calling")
    /\ Moves(k, i, "executing")
    /\ execution' = [execution EXCEPT ![k][i] = [NotRun EXCEPT !.at = "requested"]]
    /\ UNCHANGED <<record, sent, blind, loose>>

Ends(k, i, said) ==
    execution' = [execution EXCEPT ![k][i].at = "ended", ![k][i].outcome = said]

\* lib.mjs:111, a refusal that names the quota: its window has to pass; the last
\* attempt's error is thrown.
QuotaRefuses(k, i) ==
    /\ Runs(k, i, "requested") /\ At(k, i, "executing")
    /\ IF handler[k][i].attempt < Retries
       THEN /\ handler' = [handler EXCEPT ![k][i].at = "waiting", ![k][i].attempt = @ + 1]
            /\ execution' = [execution EXCEPT ![k][i] = NotRun]
       ELSE Ends(k, i, "threw") /\ UNCHANGED handler
    /\ UNCHANGED <<record, sent, blind, loose>>

Wakes(k, i) ==
    /\ At(k, i, "waiting") /\ Moves(k, i, "calling")
    /\ UNCHANGED <<execution, record, sent, blind, loose>>

-----------------------------------------------------------------------------
(* The enclave                                                             *)

\* Every attempt is an order of its own.
ReadsNoRecord(k, i) ==
    /\ Runs(k, i, "requested")
    /\ execution' = [execution EXCEPT ![k][i].at = "deciding"]
    /\ UNCHANGED <<handler, record, sent, blind, loose>>

\* The transaction sees the record as it is when it starts; one that cannot be
\* read counts as none.
Reads(k, i) ==
    /\ Runs(k, i, "requested")
    /\ \/ /\ execution' = [execution EXCEPT ![k][i].at = "deciding", ![k][i].seen = record[k]]
          /\ UNCHANGED blind
       \/ /\ execution' = [execution EXCEPT ![k][i].at = "deciding"]
          /\ blind' = blind \cup {<<k, i>>}
    /\ UNCHANGED <<handler, record, sent, loose>>

Rejects(k, i) ==
    /\ Runs(k, i, "deciding") /\ Ends(k, i, "rejected")
    /\ UNCHANGED <<handler, record, sent, blind, loose>>

Replays(k, i) ==
    /\ Runs(k, i, "deciding") /\ execution[k][i].seen
    /\ Ends(k, i, "replayed")
    /\ UNCHANGED <<handler, record, sent, blind, loose>>

Sends(k, i) ==
    /\ Runs(k, i, "deciding") /\ ~execution[k][i].seen
    /\ sent' = [sent EXCEPT ![k][i] = @ + 1]
    /\ execution' = [execution EXCEPT ![k][i].at = "sending"]
    /\ UNCHANGED <<handler, record, blind, loose>>

\* A transaction that read that there is no record commits one only if there
\* still is none.
Commits(k, i) ==
    /\ Runs(k, i, "sending")
    /\ \/ /\ ~record[k] \/ <<k, i>> \in blind
          /\ record' = [record EXCEPT ![k] = TRUE] /\ Ends(k, i, "approved")
       \/ record[k] /\ Ends(k, i, "threw") /\ UNCHANGED record
    /\ UNCHANGED <<handler, sent, blind, loose>>

\* The record cannot be written: that is ignored.
CommitsUnrecorded(k, i) ==
    /\ Runs(k, i, "sending") /\ Ends(k, i, "approved")
    /\ loose' = loose \cup {<<k, i>>}
    /\ UNCHANGED <<handler, record, sent, blind>>

\* Refused for the quota or for another reason before it has begun, failed on
\* the way, or gone with its node.
ExecutionFails(k, i) ==
    /\ execution[k][i].at \in {"requested", "deciding", "sending"} /\ Ends(k, i, "threw")
    /\ loose' = IF Runs(k, i, "sending") THEN loose \cup {<<k, i>>} ELSE loose
    /\ UNCHANGED <<handler, record, sent, blind>>

-----------------------------------------------------------------------------

Hears(k, i) ==
    /\ At(k, i, "executing") /\ Runs(k, i, "ended")
    /\ Answer(k, i, execution[k][i].outcome)
    /\ UNCHANGED <<execution, record, sent, blind, loose>>

\* The client gives up, the answer does not arrive, or the server ends: the host
\* hears an error, and an execution that has begun goes on.
GivesUp(k, i) ==
    /\ handler[k][i].at \in {"connecting", "calling", "waiting", "executing"}
    /\ Answer(k, i, "threw")
    /\ loose' = IF At(k, i, "executing") /\ ~Runs(k, i, "ended") THEN loose \cup {<<k, i>>} ELSE loose
    /\ UNCHANGED <<execution, record, sent, blind>>

HandlerStep(k, i) ==
    \/ Connects(k, i) \/ Executes(k, i) \/ QuotaRefuses(k, i) \/ Wakes(k, i)
    \/ Hears(k, i) \/ GivesUp(k, i)

ExecutionStep(k, i) ==
    \/ Reads(k, i) \/ Rejects(k, i) \/ Replays(k, i) \/ Sends(k, i)
    \/ Commits(k, i) \/ CommitsUnrecorded(k, i) \/ ExecutionFails(k, i)

ToolNext ==
    \E k \in Orders, i \in 1..Calls : HostCalls(k, i) \/ HandlerStep(k, i) \/ ExecutionStep(k, i)

ToolSpec == ToolInit /\ [][ToolNext]_toolVars

-----------------------------------------------------------------------------
(* Properties                                                              *)

TypeOK ==
    /\ record \in [Orders -> BOOLEAN] /\ sent \in [Orders -> [1..Calls -> Nat]]
    /\ blind \cup loose \subseteq Orders \X (1..Calls)
    /\ \A k \in Orders, i \in 1..Calls :
          /\ handler[k][i].attempt \in 0..Retries
          /\ At(k, i, "answered") <=> handler[k][i].answer \in Answers

\* A host that waits for each answer, an error included, before it calls again
\* with the same key places a second order only if the execution of an earlier
\* one died after sending, outlived its handler or left no record, or if that
\* of the later one could not read it.
PatientHostOrdersOnce ==
    Patient =>
        \A k \in Orders, i, j \in 1..Calls :
            /\ sent[k][i] <= 1
            /\ (i < j /\ sent[k][i] > 0 /\ sent[k][j] > 0) =>
                  <<k, i>> \in loose \/ <<k, j>> \in blind

\* "Approved" is said only of a call that went out, and that is on record unless
\* the record could not be written; "replayed" only of an order on record.
ApprovedIsOnRecord ==
    \A k \in Orders, i \in 1..Calls :
        /\ handler[k][i].answer = "approved" => sent[k][i] > 0 /\ (record[k] \/ <<k, i>> \in loose)
        /\ handler[k][i].answer = "replayed" => record[k] /\ \E j \in 1..Calls : sent[k][j] > 0

\* "Retrying with the same key replays the recorded outcome instead of placing a
\* second order": of two calls of the tool with the same key one goes out.
ClaimToolRetry ==
    \A k \in Orders, i, j \in 1..Calls : (sent[k][i] > 0 /\ sent[k][j] > 0) => i = j
=============================================================================
