------------------------------ MODULE TaskLife ------------------------------
(***************************************************************************)
(* What an A2A task promises whoever watches it: it opens once, ends once, *)
(* and what it ended with never changes.  It ends with a verdict, with a   *)
(* failure, or, only if its caller asked for that, with neither.           *)
(***************************************************************************)
CONSTANTS Tasks, None

VARIABLES
    phase,    \* new, working, completed, failed
    verdict,  \* what a completed task answered
    asked     \* the tasks whose callers asked to cancel

vars == <<phase, verdict, asked>>

Init ==
    /\ phase = [t \in Tasks |-> "new"]
    /\ verdict = [t \in Tasks |-> None]
    /\ asked = {}

Open(t) ==
    /\ phase[t] = "new"
    /\ phase' = [phase EXCEPT ![t] = "working"]
    /\ UNCHANGED <<verdict, asked>>

\* A request that needs no waiting opens and ends its task at once.  Which
\* verdict it is, is not this module's business.
Complete(t) ==
    /\ phase[t] \in {"new", "working"}
    /\ phase' = [phase EXCEPT ![t] = "completed"]
    /\ verdict'[t] # None
    /\ verdict' = [verdict EXCEPT ![t] = verdict'[t]]
    /\ UNCHANGED asked

Fail(t) ==
    /\ phase[t] \in {"new", "working"}
    /\ phase' = [phase EXCEPT ![t] = "failed"]
    /\ UNCHANGED <<verdict, asked>>

Cancel(t) ==
    /\ phase[t] = "working"
    /\ phase' = [phase EXCEPT ![t] = "completed"]
    /\ asked' = asked \cup {t}
    /\ UNCHANGED verdict

Next ==
    \E t \in Tasks : Open(t) \/ Complete(t) \/ Fail(t) \/ Cancel(t)

Spec == Init /\ [][Next]_vars
=============================================================================
