------------------------------ MODULE AgentRun ------------------------------
(***************************************************************************)
(* A run of the agent (agent.mjs): the revocation check of Revocation, the *)
(* dry runs on `evaluate`, the live orders on `execute_action`, each call  *)
(* through executeContract (lib.mjs), which waits when the node's quota is *)
(* used up.  The node admits Cap executions in any Window ticks; a tick is *)
(* the 20 seconds the first wait takes.                                    *)
(***************************************************************************)
EXTENDS Revocation

CONSTANTS
    Agents,      \* the verifiers that are runs of the agent; the others only check
    Plan,        \* the sequence of a run's calls: "evaluate", "execute_action"
    Cap, Window,
    MaxRetries,  \* of executeContract
    Crashing     \* may a run be killed

VARIABLES
    run,        \* per run: where it is, the call it is at, the attempt, its wait
    executed,   \* the executions the node admitted 0, 1, 2 .. ticks ago
    left,       \* orders that left the enclave, and how often
    dropped     \* calls given up when the quota refused them, and did the
                \* refusal name it

runVars == <<run, executed, left, dropped>>
agentVars == <<revVars, runVars>>

ASSUME QuotaAssumption == Cap \in Nat \ {0} /\ Window \in Nat \ {0} /\ MaxRetries \in Nat
ASSUME AgentsAssumption == Agents \subseteq Verifiers
ASSUME PlanAssumption == Plan \in Seq({"evaluate", "execute_action"}) \ {<<>>}

AgentInit ==
    /\ RevInit
    /\ run = [v \in Agents |-> [at |-> "checking", call |-> 1, attempt |-> 0, wait |-> 0]]
    /\ executed = [t \in 0 .. Window - 1 |-> 0]
    /\ left = [v \in Agents |-> [i \in DOMAIN Plan |-> 0]]
    /\ dropped = {}

-----------------------------------------------------------------------------

\* The answer is looked at while it is still on its way.
AfterCheckNotAwaited(v) ==
    /\ run[v].at = "checking" /\ check[v].at # "idle"
    /\ run' = [run EXCEPT ![v].at =
                 IF Done(v) /\ check[v].result.revoked THEN "aborted" ELSE "calling"]
    /\ UNCHANGED <<revVars, executed, left, dropped>>

\* An unanswered check is reported, and the run goes on: it asks with
\* failClosed off.
AfterCheck(v) ==
    /\ run[v].at = "checking" /\ Done(v)
    /\ run' = [run EXCEPT ![v].at = IF check[v].result.revoked THEN "aborted" ELSE "calling"]
    /\ UNCHANGED <<revVars, executed, left, dropped>>

Used == Cardinality(UNION {{t} \X (1 .. executed[t]) : t \in DOMAIN executed})

Current(v) == run[v].call

\* The next call, or the end of the run.
NextCall(v) ==
    [run EXCEPT ![v].call = @ + 1, ![v].attempt = 0,
                ![v].at = IF Current(v) = Len(Plan) THEN "finished" ELSE "calling"]

Charge == executed' = [executed EXCEPT ![0] = @ + 1]

Leaves(v) == left' = [left EXCEPT ![v][Current(v)] = @ + 1]

\* The node executes the call and the run hears the decision.
Heard(v, entry) ==
    /\ run[v].at = "calling" /\ Used < Cap /\ Plan[Current(v)] = entry
    /\ Charge
    /\ run' = NextCall(v)
    /\ UNCHANGED <<revVars, dropped>>

\* act.
DryRunAnswered(v) == Heard(v, "evaluate") /\ UNCHANGED left

\* executeForReal: approved or not.
OrderAnswered(v) == Heard(v, "execute_action") /\ (Leaves(v) \/ UNCHANGED left)

Answered(v) == DryRunAnswered(v) \/ OrderAnswered(v)

\* Any error is worth another attempt.
FailsAndRetries(v) ==
    /\ run[v].at = "calling" /\ Used < Cap
    /\ Charge
    /\ (Plan[Current(v)] = "execute_action" /\ Leaves(v)) \/ UNCHANGED left
    /\ run' = IF run[v].attempt < MaxRetries THEN [run EXCEPT ![v].attempt = @ + 1]
              ELSE NextCall(v)
    /\ UNCHANGED <<revVars, dropped>>

\* The call fails for another reason than the quota, before or after the order
\* has left: printed, not repeated.
Fails(v) ==
    /\ run[v].at = "calling" /\ Used < Cap
    /\ Charge
    /\ (Plan[Current(v)] = "execute_action" /\ Leaves(v)) \/ UNCHANGED left
    /\ run' = NextCall(v)
    /\ UNCHANGED <<revVars, dropped>>

\* The call fails for the quota with this error: printed, not repeated.
GivesUpFor(v, named) ==
    /\ run' = NextCall(v)
    /\ dropped' = dropped \cup {[run |-> v, call |-> Current(v), named |-> named]}

WaitsFor(v, ticks) ==
    /\ run' = [run EXCEPT ![v].at = "waiting", ![v].attempt = @ + 1, ![v].wait = ticks]
    /\ UNCHANGED dropped

\* The wait is not awaited.
RefusedForQuotaShort(v) ==
    /\ run[v].at = "calling" /\ Used >= Cap
    /\ IF run[v].attempt < MaxRetries THEN WaitsFor(v, 0) ELSE GivesUpFor(v, TRUE)
    /\ UNCHANGED <<revVars, executed, left>>

\* Out of fuel: nothing was executed.  It waits 1, 2, 3 ticks, then gives up.
RefusedForQuota(v) ==
    /\ run[v].at = "calling" /\ Used >= Cap
    /\ IF run[v].attempt < MaxRetries THEN WaitsFor(v, run[v].attempt + 1) ELSE GivesUpFor(v, TRUE)
    /\ UNCHANGED <<revVars, executed, left>>

\* Out of fuel, and the node says no more than "Internal error": an error like
\* any other.
RefusedUnnamed(v) ==
    /\ run[v].at = "calling" /\ Used >= Cap
    /\ GivesUpFor(v, FALSE)
    /\ UNCHANGED <<revVars, executed, left>>

WakesUp(v) ==
    /\ run[v].at = "waiting" /\ run[v].wait = 0
    /\ run' = [run EXCEPT ![v].at = "calling"]
    /\ UNCHANGED <<revVars, executed, left, dropped>>

Killed(v) ==
    /\ Crashing /\ run[v].at \in {"calling", "waiting"}
    /\ run' = [run EXCEPT ![v].at = "killed"]
    /\ UNCHANGED <<revVars, executed, left, dropped>>

Tick ==
    /\ executed' = [t \in DOMAIN executed |-> IF t = 0 THEN 0 ELSE executed[t - 1]]
    /\ run' = [v \in Agents |-> [run[v] EXCEPT !.wait = IF @ > 0 THEN @ - 1 ELSE 0]]
    /\ UNCHANGED <<revVars, left, dropped>>

RunStep(v) ==
    \/ AfterCheck(v) \/ Answered(v) \/ Fails(v) \/ RefusedForQuota(v)
    \/ RefusedUnnamed(v) \/ WakesUp(v)

AgentNext ==
    \/ RevNext /\ UNCHANGED runVars
    \/ \E v \in Agents : RunStep(v) \/ Killed(v)
    \/ Tick

AgentSpec == AgentInit /\ [][AgentNext]_agentVars

-----------------------------------------------------------------------------
(* Properties                                                              *)

\* No order leaves the enclave twice on one call, whatever was waited for,
\* failed or was lost: what is repeated was never executed.
OrdersLeaveOnce ==
    \A v \in Agents, i \in DOMAIN Plan : left[v][i] <= 1

\* A run that is alone on its tenant gives no call up for a quota that is named
\* to it: the waits outlast the window, whatever the refusals that were not
\* named made it skip.
QuotaIsWaitedOut == \A d \in dropped : ~d.named

\* "Backoff, not failure, because a quota is a "later", not a "no"": no call is
\* given up for the quota.
ClaimQuotaIsLater == dropped = {}

\* A run with a revoked credential that was told so sends nothing, and a run
\* that sends has had its check end before.
NothingBeforeTheCheck ==
    \A v \in Agents :
        (\E i \in DOMAIN Plan : left[v][i] > 0) =>
            Done(v) /\ ~check[v].result.revoked
=============================================================================
