------------------------------ MODULE A2ATask ------------------------------
(***************************************************************************)
(* The A2A executor (agent/src/a2a-server.mjs) over the engines: the       *)
(* events it publishes for each task while the decision is awaited, and    *)
(* cancelTask, which the server may run in the middle of that wait.        *)
(*                                                                         *)
(* A task is the one call of decideWith it makes.  The event bus and the   *)
(* task store are the SDK's: what is modelled is what they are given.      *)
(***************************************************************************)
EXTENDS Engines, Sequences, FiniteSets, FiniteSetsExt

CONSTANTS
    Messages,   \* what a peer may send: a skill, and whether its fields hold up
    MayCancel,  \* peers cancel tasks
    Commitment  \* what bind-credential answers

VARIABLES
    executor,   \* per task: idle, awaiting, done
    bus,        \* per task, the events published
    cancelled   \* the tasks cancelTask was called for

taskVars == <<engineVars, executor, bus, cancelled>>

Tasks == Calls

Skills == {"evaluate-gated-action", "bind-credential", "unknown", "unreadable"}

ASSUME MessagesAssumption ==
    \A m \in Messages : m.skill \in Skills /\ m.valid \in BOOLEAN /\ m.args \in Args
ASSUME ResultsAssumption ==
    /\ None \notin Verdicts \cup {Commitment}
    /\ BadInput \notin Verdicts
    /\ Commitment \notin Verdicts \cup {BadInput}

Status(state) == [is |-> "status", state |-> state]
Artifact(result) == [is |-> "artifact", result |-> result]

\* bus.finished() closes the stream after its last event.
Finished == [is |-> "finished"]

\* A terminal state and the end of the stream.
Ends(state) == <<Status(state), Finished>>

CompletesThenExplains(result) == <<Status("COMPLETED"), Artifact(result), Finished>>
Completes(result) == <<Artifact(result)>> \o Ends("COMPLETED")

Publish(t, events) == bus' = [bus EXCEPT ![t] = @ \o events]

TaskInit ==
    /\ EngineInit
    /\ executor = [t \in Tasks |-> "idle"]
    /\ bus = [t \in Tasks |-> <<>>]
    /\ cancelled = {}

-----------------------------------------------------------------------------
\* What a message leads to without waiting for anything.  WORKING is published
\* before the fields are looked at, so a message that is no good fails there.
AtOnce(m) ==
    IF m.skill = "unreadable" THEN Ends("FAILED")
    ELSE <<Status("WORKING")>> \o
         (IF m.skill = "bind-credential" /\ m.valid THEN Completes(Commitment)
          ELSE IF m.skill = "evaluate-gated-action" /\ m.valid THEN <<>>
          ELSE Ends("FAILED"))

Awaits(m) == m.skill = "evaluate-gated-action" /\ m.valid

\* execute up to its await, or to its end.
execute(t, m) ==
    /\ executor[t] = "idle"
    /\ executor' = [executor EXCEPT ![t] = IF Awaits(m) THEN "awaiting" ELSE "done"]
    /\ Publish(t, <<Status("SUBMITTED")>> \o AtOnce(m))
    /\ IF Awaits(m) THEN decideWith(t, m.args) ELSE UNCHANGED engineVars
    /\ UNCHANGED cancelled

ConcludeUncaught(t) ==
    /\ executor[t] = "awaiting" /\ call[t].state = "answered"
    /\ executor' = [executor EXCEPT ![t] = "done"]
    /\ Publish(t, Completes(call[t].answer))
    /\ UNCHANGED <<engineVars, cancelled>>

\* Whatever the engine answers completes the task, an error too.
ConcludeUnchecked(t) ==
    /\ executor[t] = "awaiting"
    /\ call[t].state \in {"answered", "failed"}
    /\ executor' = [executor EXCEPT ![t] = "done"]
    /\ Publish(t, IF call[t].state = "answered" THEN Completes(call[t].answer)
                  ELSE Ends("FAILED"))
    /\ UNCHANGED <<engineVars, cancelled>>

\* execute after its await: a rejection completes the task like an approval; a
\* call that failed, or was answered with an error, fails it.
Conclude(t) ==
    /\ executor[t] = "awaiting"
    /\ call[t].state \in {"answered", "failed"}
    /\ executor' = [executor EXCEPT ![t] = "done"]
    /\ Publish(t, IF Decided(t) THEN Completes(call[t].answer) ELSE Ends("FAILED"))
    /\ UNCHANGED <<engineVars, cancelled>>

Closed(events) == \E i \in DOMAIN events : events[i] = Finished

\* The server calls it for a task whose stream is still open.
cancelTask(t) ==
    /\ MayCancel
    /\ executor[t] # "idle" /\ ~Closed(bus[t])
    /\ Publish(t, Ends("COMPLETED"))
    /\ cancelled' = cancelled \cup {t}
    /\ UNCHANGED <<engineVars, executor>>

EngineStep ==
    /\ \/ \E t \in Tasks : Settles(t)
       \/ GateLoads \/ Build \/ Tick
    /\ UNCHANGED <<executor, bus, cancelled>>

TaskNext ==
    \/ \E t \in Tasks : (\E m \in Messages : execute(t, m)) \/ Conclude(t) \/ cancelTask(t)
    \/ EngineStep

TaskSpec == TaskInit /\ [][TaskNext]_taskVars

\* execFile carries a timeout, the component's files are local, and the event
\* loop runs what is ready: a promise that has settled resumes its executor.
TaskFairness ==
    /\ WF_taskVars(GateLoads /\ UNCHANGED <<executor, bus, cancelled>>)
    /\ \A t \in Tasks :
          /\ WF_taskVars(Settles(t) /\ UNCHANGED <<executor, bus, cancelled>>)
          /\ WF_taskVars(Conclude(t))

FairTaskSpec == TaskSpec /\ TaskFairness

-----------------------------------------------------------------------------
(* Properties                                                              *)

TerminalStates == {Status("COMPLETED"), Status("FAILED")}

Published(events, e) == \E i \in DOMAIN events : events[i] = e

Artifacts(events) == {i \in DOMAIN events : events[i].is = "artifact"}

\* The positions at which a terminal state was published.
Endings(events) == {i \in DOMAIN events : events[i] \in TerminalStates}

\* What a peer sees that stops reading at the first terminal state.
Seen(events) ==
    IF Endings(events) = {} THEN events ELSE SubSeq(events, 1, Min(Endings(events)))

\* A task nobody cancelled that reached its verdict is completed, be it a
\* refusal, and carries that verdict in its only artifact; one that is not
\* completed carries none, and nothing but a verdict is carried.  Answers of
\* concurrent tasks may come in any order.
CompletedCarriesItsVerdict ==
    \A t \in Tasks \ cancelled :
        /\ Published(bus[t], Status("COMPLETED")) <=> Artifacts(bus[t]) # {}
        /\ Cardinality(Artifacts(bus[t])) <= 1
        /\ (executor[t] = "done" /\ Decided(t)) => Published(bus[t], Artifact(call[t].answer))
        /\ \A i \in Artifacts(bus[t]) : bus[t][i].result # BadInput

\* Every task that was opened reaches a terminal state and a closed stream,
\* whatever the engine does.
TasksEnd == \A t \in Tasks : (executor[t] # "idle") ~> (executor[t] = "done" /\ Closed(bus[t]))

\* To a peer that reads up to the first terminal state, the server keeps the
\* promise of TaskLife, cancellations included.
SeenPhase(events) ==
    LET last == Seen(events)[Len(Seen(events))] IN
    IF events = <<>> THEN "new"
    ELSE IF last = Status("COMPLETED") THEN "completed"
    ELSE IF last = Status("FAILED") THEN "failed" ELSE "working"

SeenVerdict(events) ==
    LET of == Artifacts(events) \cap DOMAIN Seen(events) IN
    IF of = {} THEN None ELSE events[Min(of)].result

Life == INSTANCE TaskLife WITH
    phase <- [t \in Tasks |-> SeenPhase(bus[t])],
    verdict <- [t \in Tasks |-> SeenVerdict(bus[t])],
    asked <- cancelled

ImplementsTaskLife == Life!Spec
=============================================================================
