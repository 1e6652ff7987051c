------------------------------ MODULE Engines ------------------------------
(***************************************************************************)
(* Which compiled contract logic decides a request off-chain:              *)
(* agent/src/engine.mjs over gate-cli.mjs (a child process per call) and   *)
(* gate-wasm.mjs (one component shared by the process, loaded on demand).  *)
(*                                                                         *)
(* Both waits are asynchronous: other calls start and end meanwhile, and   *)
(* the clock moves.                                                        *)
(***************************************************************************)
EXTENDS GateRules

CONSTANTS
    Calls,      \* calls of decideWith, each made once
    Args,       \* what they may pass
    MaxTime     \* bound on the clock

VARIABLES
    now,        \* Date.now() in seconds
    built,      \* the gate_cli binary exists
    shared,     \* the promise in `shared`: unloaded, loading, ready, failed
    call        \* the calls

engineVars == <<now, built, shared, call>>

\* A caller's input either parses as the contract's types or does not.
ASSUME ArgsAssumption ==
    \A a \in Args : a.wellformed \in BOOLEAN /\ a.now_secs \in Nat \cup {None}
ASSUME MaxTimeAssumption == MaxTime \in Nat

NotCalled == [state |-> "idle", args |-> None, asked |-> 0, answer |-> None]

EngineInit ==
    /\ now = 0
    /\ built \in BOOLEAN
    /\ shared = "unloaded"
    /\ call = [c \in Calls |-> NotCalled]

-----------------------------------------------------------------------------
(* decideWith up to its await                                              *)

AsksCli(a) == a.engine = "gate_cli" \/ (a.engine = "auto" /\ built)

RefusedIfUnavailable(a) ==
    IF AsksCli(a) THEN ~built ELSE a.engine \notin {"auto", "component"}

\* JavaScript's truth: an empty key is not one, a blank one is.
EmptyKey == [form |-> "blank", text |-> ""]
Given(key) == key \notin {None, EmptyKey}

\* What the component does not check makes the call fail, if it was sent.
RefusedAtOnce(a) ==
    IF AsksCli(a)
    THEN ~built
    ELSE \/ a.engine \notin {"auto", "component"}
         \/ a.credential # None \/ Given(a.idempotency_key)

sharedGate ==
    IF shared = "unloaded"
    THEN shared' = "loading" ELSE UNCHANGED shared

decideWith(c, a) ==
    /\ call[c].state = "idle"
    /\ call' = [call EXCEPT ![c] =
                  [state |-> IF RefusedAtOnce(a) THEN "failed"
                             ELSE IF AsksCli(a) THEN "cli" ELSE "component",
                   args |-> a, asked |-> now, answer |-> None]]
    /\ IF RefusedAtOnce(a) \/ AsksCli(a) THEN UNCHANGED shared ELSE sharedGate
    /\ UNCHANGED <<now, built>>

-----------------------------------------------------------------------------
(* The answers                                                             *)

Verdict(reasons, at, engine) ==
    [decision |-> IF reasons = {} THEN "approved" ELSE "rejected",
     reasons |-> reasons, now_secs |-> at, engine |-> engine]

Verdicts ==
    [decision : {"approved", "rejected"}, reasons : SUBSET (Gates \cup {"binding", "idempotency"}),
     now_secs : Nat, engine : {"gate_cli", "component"}]

Answers(c, verdict) == call' = [call EXCEPT ![c].state = "answered", ![c].answer = verdict]

Throws(c) == call' = [call EXCEPT ![c].state = "failed"]

\* gate_cli's main: the binding and the key on top of decide.
CliReasons(a, at) ==
    decide(a.action, a.mandate, at)
        \cup (IF BindingHolds(a.credential, a.action, a.mandate.require_credential)
              THEN {} ELSE {"binding"})
        \cup (IF IdempotencyHolds(a.idempotency_key, a.mandate.require_idempotency_key)
              THEN {} ELSE {"idempotency"})

\* gate_cli is told the time at which it was spawned, unless the caller names one.
CliAnswers(c) ==
    LET a == call[c].args
        at == IF a.now_secs = None THEN call[c].asked ELSE a.now_secs
    IN  /\ call[c].state = "cli"
        /\ a.wellformed /\ ~BindingTraps(a.credential)
        /\ Answers(c, Verdict(CliReasons(a, at), at, "gate_cli"))
        /\ UNCHANGED <<now, built, shared>>

\* What gate_cli prints about input it cannot parse, {error}: decide resolves
\* with whatever was printed, so the call is answered, with no decision.
BadInput == [decision |-> None, reasons |-> {}, now_secs |-> None, engine |-> "gate_cli"]

CliReportsBadInput(c) ==
    /\ call[c].state = "cli" /\ ~call[c].args.wellformed
    /\ Answers(c, BadInput)
    /\ UNCHANGED <<now, built, shared>>

\* The child is killed at its timeout, does not start, or panics: nothing is
\* printed.
CliFails(c) ==
    /\ call[c].state = "cli"
    /\ Throws(c)
    /\ UNCHANGED <<now, built, shared>>

GateLoads ==
    /\ shared = "loading"
    /\ shared' \in {"ready", "failed"}
    /\ UNCHANGED <<now, built, call>>

\* clusterTimestampSecs: the caller's instant for the length of its own call.
HostClockAtStart(a) == IF a.now_secs = None THEN 0 ELSE a.now_secs
HostClock(a) == IF a.now_secs = None THEN now ELSE a.now_secs

\* The component decides synchronously once the promise has settled: evaluate
\* is decide and nothing else.
ComponentAnswers(c) ==
    LET a == call[c].args IN
    /\ call[c].state = "component" /\ shared \in {"ready", "failed"}
    /\ IF shared = "ready" /\ a.wellformed
       THEN Answers(c, Verdict(decide(a.action, a.mandate, HostClock(a)),
                               HostClock(a), "component"))
       ELSE Throws(c)
    /\ UNCHANGED <<now, built, shared>>

Settles(c) ==
    CliAnswers(c) \/ CliReportsBadInput(c) \/ CliFails(c) \/ ComponentAnswers(c)

Decided(c) == call[c].state = "answered" /\ call[c].answer.decision # None

-----------------------------------------------------------------------------
Build == ~built /\ built' = TRUE /\ UNCHANGED <<now, shared, call>>

Tick == now < MaxTime /\ now' = now + 1 /\ UNCHANGED <<built, shared, call>>

-----------------------------------------------------------------------------
(* Properties                                                              *)

\* A verdict is about an instant between the request and the answer, or about
\* the one the caller named: no call sees another's clock or a stale one.
EvaluatedWhileAsked ==
    \A c \in Calls : Decided(c) =>
        LET at == call[c].answer.now_secs IN
        IF call[c].args.now_secs = None THEN at \in call[c].asked..now
        ELSE at = call[c].args.now_secs

\* Whatever the component approves, gate_cli would approve at that instant,
\* unless the mandate makes a demand only gate_cli checks.  So a process that
\* falls back to the component, with no Rust toolchain, loses those two
\* checks and no other.
ComponentIsNoLaxer ==
    \A c \in Calls :
        (/\ call[c].state = "answered"
         /\ call[c].answer.engine = "component" /\ call[c].answer.decision = "approved")
            => LET a == call[c].args IN
               \/ a.mandate.require_credential \/ a.mandate.require_idempotency_key
               \/ CliReasons(a, call[c].answer.now_secs) = {}
=============================================================================
