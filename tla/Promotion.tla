----------------------------- MODULE Promotion -----------------------------
(***************************************************************************)
(* How a build of the contract reaches the tail the agent calls: it is     *)
(* registered and invoked under the tail "probe" first (probe-contract.mjs)*)
(* and under "gate" by setup.mjs when the probe calls it safe.  The node   *)
(* runs the last version registered under a tail, whatever version a call  *)
(* names, takes no version twice, and accepts a component it cannot run.   *)
(***************************************************************************)
EXTENDS Naturals, Sequences

CONSTANTS
    Builds,       \* components that may be built
    Runnable,     \* those whose imports the node serves
    Probes,       \* how many calls the probe makes
    MaxVersion,   \* bound on CONTRACT_VERSION
    Failing,      \* may a call to the node fail
    NoBuild

VARIABLES
    wasm,      \* the component in target/
    version,   \* CONTRACT_VERSION in lib.mjs
    tails,     \* per tail, the versions registered under it, in order
    probe,     \* the probe: where it is, what it has read, how many calls failed
    setup,     \* likewise setup
    safe       \* "safe to promote", said of the present build: was the
               \* registration of the probe that said it accepted

promVars == <<wasm, version, tails, probe, setup, safe>>

ASSUME BuildsAssumption == Runnable \subseteq Builds /\ NoBuild \notin Builds
ASSUME BoundsAssumption == Probes \in Nat \ {0} /\ MaxVersion \in Nat

\* `probed`, of the probe: was its own registration accepted; of setup and of
\* what is registered: had it been, for a probe that called this build safe.
Idle == [at |-> "idle", version |-> 0, wasm |-> NoBuild, probed |-> FALSE,
         call |-> 0, failed |-> 0]

\* Something runnable is in production when the story begins.
PromInit ==
    /\ wasm \in Runnable
    /\ version = 0
    /\ tails = [t \in {"probe", "gate"} |-> <<[version |-> 0, wasm |-> wasm, probed |-> TRUE]>>]
    /\ probe = Idle
    /\ setup = Idle
    /\ safe = {}

Quiet == probe.at = "idle" /\ setup.at = "idle"

\* Nobody builds while a script runs.  A build has the version that stands in
\* lib.mjs until somebody writes another; neither is promoted before a probe of
\* its own.
Build(b) ==
    /\ Quiet
    /\ wasm' = b /\ safe' = {}
    /\ UNCHANGED <<version, tails, probe, setup>>

Bump ==
    /\ Quiet /\ version < MaxVersion
    /\ version' = version + 1 /\ safe' = {}
    /\ UNCHANGED <<wasm, tails, probe, setup>>

Latest(tail) == tails[tail][Len(tails[tail])].wasm

Taken(tail, v) == \E i \in DOMAIN tails[tail] : tails[tail][i].version = v

-----------------------------------------------------------------------------

\* A run reads the version it was started with, then the file.
Started == [Idle EXCEPT !.at = "reading", !.version = version]

ProbeStarts ==
    /\ probe.at = "idle"
    /\ probe' = Started
    /\ UNCHANGED <<wasm, version, tails, setup, safe>>

ProbeReads ==
    /\ probe.at = "reading"
    /\ probe' = [probe EXCEPT !.at = "registering", !.wasm = wasm]
    /\ UNCHANGED <<wasm, version, tails, setup, safe>>

Accepted(tail, script) ==
    /\ ~Taken(tail, script.version)
    /\ tails' = [tails EXCEPT ![tail] = Append(@, [version |-> script.version, wasm |-> script.wasm,
                                                  probed |-> script.probed])]

Refused(tail, script) == (Failing \/ Taken(tail, script.version)) /\ UNCHANGED tails

\* A refused registration is noted and the probe goes on: under this tail, the
\* version may be there already.
ProbeRegisters ==
    /\ probe.at = "registering"
    /\ \/ Accepted("probe", probe) /\ probe' = [probe EXCEPT !.at = "calling", !.probed = TRUE]
       \/ Refused("probe", probe) /\ probe' = [probe EXCEPT !.at = "calling"]
    /\ UNCHANGED <<wasm, version, setup, safe>>

\* Whatever version it names, a call runs the last one of the tail.
Broken(tail) == Latest(tail) \notin Runnable

\* The answer is not looked at.
ProbeCallsBlindly ==
    /\ probe.at = "calling" /\ probe.call < Probes
    /\ probe' = [probe EXCEPT !.call = @ + 1]
    /\ UNCHANGED <<wasm, version, tails, setup, safe>>

ProbeCalls ==
    /\ probe.at = "calling" /\ probe.call < Probes
    /\ \E failed \in {Broken("probe"), Failing \/ Broken("probe")} :
         probe' = [probe EXCEPT !.call = @ + 1, !.failed = IF failed THEN @ + 1 ELSE @]
    /\ UNCHANGED <<wasm, version, tails, setup, safe>>

ProbeEnds ==
    /\ probe.at = "calling" /\ probe.call = Probes
    /\ safe' = IF probe.failed = 0 THEN safe \cup {probe.probed} ELSE safe
    /\ probe' = Idle
    /\ UNCHANGED <<wasm, version, tails, setup>>

\* "Probe first, promote second."
SetupStarts ==
    /\ setup.at = "idle" /\ safe # {}
    /\ setup' = [Started EXCEPT !.probed = TRUE \in safe]
    /\ UNCHANGED <<wasm, version, tails, probe, safe>>

SetupReads ==
    /\ setup.at = "reading"
    /\ setup' = [setup EXCEPT !.at = "registering", !.wasm = wasm]
    /\ UNCHANGED <<wasm, version, tails, probe, safe>>

SetupRegisters ==
    /\ setup.at = "registering"
    /\ Accepted("gate", setup) \/ Refused("gate", setup)
    /\ setup' = Idle
    /\ UNCHANGED <<wasm, version, probe, safe>>

ProbeStep == ProbeReads \/ ProbeRegisters \/ ProbeCalls \/ ProbeEnds
SetupStep == SetupReads \/ SetupRegisters

PromNext ==
    \/ \E b \in Builds : Build(b)
    \/ Bump \/ ProbeStarts \/ ProbeStep \/ SetupStarts \/ SetupStep

PromSpec == PromInit /\ [][PromNext]_promVars

-----------------------------------------------------------------------------
(* Properties                                                              *)

\* What runs in production can run, or the probe that called it safe had its
\* own registration refused and was calling what stood under its tail before.
PromotedWasProbed ==
    LET production == tails["gate"][Len(tails["gate"])] IN
    production.wasm \in Runnable \/ ~production.probed

\* "<version> is safe to promote": promoting what the probe called safe leaves
\* the production tail with a component the node can run.
ClaimSafeToPromote == Latest("gate") \in Runnable
=============================================================================
