---------------------------- MODULE Provisioning ----------------------------
(***************************************************************************)
(* The tenant admin's scripts: `npm run setup` (setup.mjs) registers the   *)
(* contract and points the ACLs of its four maps at it, `npm run           *)
(* prove:enclave` (prove-enclave.mjs) seeds a mandate of its own and puts  *)
(* the default back.  A script is a list of calls to the control plane; it *)
(* can be killed between two of them, and a call can fail.                 *)
(*                                                                         *)
(* A contract id is the position of its version in `deployed`: the node    *)
(* runs the last one registered under the tail.                            *)
(***************************************************************************)
EXTENDS Naturals, Sequences

CONSTANTS
    Setups, Proofs,   \* runs of the two scripts, each started once
    Version,          \* per setup, the CONTRACT_VERSION it was built at
    Policy,           \* per run, the MANDATE of its checkout and environment
    HasKey,           \* the runs with BROKER_API_KEY set
    Killable,         \* the runs that may be killed
    Overlapping,      \* may two scripts run at once
    Faulty,          \* the runs whose calls to the control plane may fail
    NoValue              \* no value

VARIABLES
    deployed,   \* versions registered under the production tail, in order
    maps,       \* per map, its ACL, NoValue while it does not exist
    seeded,    \* the entry z:<tid>:mandate[default]
    sealed,     \* is the broker's key in z:<tid>:secrets
    run         \* where each script is, and the contract id it registered

setupVars == <<deployed, maps, seeded, sealed, run>>

Runs == Setups \cup Proofs
Tails == {"mandate", "spent", "dispatched", "secrets"}

ASSUME RunsAssumption == /\ Overlapping \in BOOLEAN /\ Faulty \subseteq Runs
                         /\ Setups \cap Proofs = {} /\ Killable \subseteq Runs

\* An access list is a set of contract ids, which are numbered from 1.
Everyone == {0}

ASSUME NoneAssumption ==
    NoValue \notin Nat \cup [readers : SUBSET Nat, writers : SUBSET Nat]
                  \cup [policy : {Policy[r] : r \in Runs}, credential : BOOLEAN]

Ended == {"done", "killed"}

SetupInit ==
    /\ deployed = <<>>
    /\ maps = [m \in Tails |-> NoValue]
    /\ seeded = NoValue
    /\ sealed = FALSE
    /\ run = [r \in Runs |-> [at |-> "idle", id |-> NoValue, found |-> NoValue]]

-----------------------------------------------------------------------------
(* setup.mjs                                                               *)

After == [register |-> "mandate", mandate |-> "seed", seed |-> "spent", spent |-> "dispatched",
          dispatched |-> "secrets", secrets |-> "seal", seal |-> "done"]

Advance(r) == run' = [run EXCEPT ![r].at = After[@]]

Start(r) ==
    /\ run[r].at = "idle"
    /\ Overlapping \/ \A o \in Runs : run[o].at \in {"idle"} \cup Ended
    /\ run' = [run EXCEPT ![r].at = IF r \in Setups THEN "register" ELSE "proveSeal",
                          ![r].found = seeded]
    /\ UNCHANGED <<deployed, maps, seeded, sealed>>

Registered(v) == \E i \in DOMAIN deployed : deployed[i] = v

\* The answer is the id, or an error (already registered, no credits), which is
\* printed; an answer that is lost leaves the script without the id as well.
Register(s) ==
    /\ run[s].at = "register"
    /\ \/ /\ ~Registered(Version[s])
          /\ deployed' = Append(deployed, Version[s])
          /\ \/ run' = [run EXCEPT ![s].at = After[@], ![s].id = Len(deployed')]
             \/ s \in Faulty /\ Advance(s)
       \/ /\ Registered(Version[s]) \/ s \in Faulty
          /\ Advance(s)
          /\ UNCHANGED deployed
    /\ UNCHANGED <<maps, seeded, sealed>>

contractOnly(s) == IF run[s].id = NoValue THEN Everyone ELSE {run[s].id}
nobody == {}

Readers(s) == contractOnly(s)
Writers(s, m) == IF m \in {"mandate", "secrets"} THEN nobody ELSE contractOnly(s)
AclFor(s, m) == [readers |-> Readers(s), writers |-> Writers(s, m)]

\* Maps are created and never updated.
ensureMapOnce(s, m) ==
    /\ run[s].at = m
    /\ \/ maps[m] = NoValue /\ maps' = [maps EXCEPT ![m] = AclFor(s, m)]
       \/ (maps[m] # NoValue \/ s \in Faulty) /\ UNCHANGED maps
    /\ Advance(s)
    /\ UNCHANGED <<deployed, seeded, sealed>>

\* An update whether or not there is an id to point to.
ensureMapAlways(s, m) ==
    /\ run[s].at = m
    /\ \/ maps' = [maps EXCEPT ![m] = AclFor(s, m)]
       \/ s \in Faulty /\ UNCHANGED maps
    /\ Advance(s)
    /\ UNCHANGED <<deployed, seeded, sealed>>

\* Create, and update what exists when there is an id to point it to; either
\* call may fail, which is printed.
ensureMap(s, m) ==
    /\ run[s].at = m
    /\ \/ maps[m] = NoValue /\ maps' = [maps EXCEPT ![m] = AclFor(s, m)]
       \/ maps[m] # NoValue /\ run[s].id # NoValue /\ maps' = [maps EXCEPT ![m] = AclFor(s, m)]
       \/ /\ s \in Faulty \/ (maps[m] # NoValue /\ run[s].id = NoValue)
          /\ UNCHANGED maps
    /\ Advance(s)
    /\ UNCHANGED <<deployed, seeded, sealed>>

MANDATE(r) == [policy |-> Policy[r], credential |-> r \in HasKey]

\* seedEntry bypasses the ACL, but not the map: without it the call fails.
Seeds(r, value) == maps["mandate"] # NoValue /\ seeded' = value
Seals == maps["secrets"] # NoValue /\ sealed' = TRUE

\* setup's seed() prints a failure and goes on.
SeedMandate(s) ==
    /\ run[s].at = "seed"
    /\ Seeds(s, MANDATE(s)) \/ ((s \in Faulty \/ maps["mandate"] = NoValue) /\ UNCHANGED seeded)
    /\ Advance(s)
    /\ UNCHANGED <<deployed, maps, sealed>>

SealKey(s) ==
    /\ run[s].at = "seal"
    /\ \/ s \in HasKey /\ Seals
       \/ (s \in Faulty \/ maps["secrets"] = NoValue \/ s \notin HasKey) /\ UNCHANGED sealed
    /\ Advance(s)
    /\ UNCHANGED <<deployed, maps, seeded>>

-----------------------------------------------------------------------------
(* prove-enclave.mjs                                                       *)

ProveAt(p, next) == run' = [run EXCEPT ![p].at = next]

\* Outside the try block a failure ends the script.
ProveSeal(p) ==
    /\ run[p].at = "proveSeal"
    /\ \/ Seals /\ ProveAt(p, "proveSeed")
       \/ (p \in Faulty \/ maps["secrets"] = NoValue) /\ UNCHANGED sealed /\ ProveAt(p, "killed")
    /\ UNCHANGED <<deployed, maps, seeded>>

ProveSeed(p) ==
    /\ run[p].at = "proveSeed"
    /\ \/ Seeds(p, [MANDATE(p) EXCEPT !.credential = TRUE]) /\ ProveAt(p, "proving")
       \/ (p \in Faulty \/ maps["mandate"] = NoValue) /\ UNCHANGED seeded /\ ProveAt(p, "killed")
    /\ UNCHANGED <<deployed, maps, sealed>>

\* The egress grant, outside the try block too.
ProveGrantFails(p) ==
    /\ run[p].at = "proving" /\ p \in Faulty
    /\ ProveAt(p, "killed")
    /\ UNCHANGED <<deployed, maps, seeded, sealed>>

\* The executions, whatever they show; then the finally block.
ProveRestore(p) ==
    /\ run[p].at = "proving"
    /\ \/ Seeds(p, MANDATE(p)) /\ ProveAt(p, "done")
       \/ p \in Faulty /\ UNCHANGED seeded /\ ProveAt(p, "killed")
    /\ UNCHANGED <<deployed, maps, sealed>>

-----------------------------------------------------------------------------

Kill(r) ==
    /\ r \in Killable /\ run[r].at \notin {"idle"} \cup Ended
    /\ ProveAt(r, "killed")
    /\ UNCHANGED <<deployed, maps, seeded, sealed>>

SetupCall(s) ==
    \/ Register(s) \/ SeedMandate(s) \/ SealKey(s)
    \/ \E m \in Tails : ensureMap(s, m)

ProofStep(p) == ProveSeal(p) \/ ProveSeed(p) \/ ProveGrantFails(p) \/ ProveRestore(p)

SetupNext ==
    \/ \E r \in Runs : Start(r) \/ Kill(r)
    \/ \E s \in Setups : SetupCall(s)
    \/ \E p \in Proofs : ProofStep(p)

SetupSpec == SetupInit /\ [][SetupNext]_setupVars

-----------------------------------------------------------------------------
(* Properties                                                              *)

Acl == {Everyone} \cup SUBSET (1..Len(deployed))

\* An ACL names ids of contracts that exist.
TypeOK ==
    /\ \A m \in Tails : maps[m] = NoValue \/ (maps[m].readers \in Acl /\ maps[m].writers \in Acl)
    /\ sealed \in BOOLEAN
    /\ \A r \in Runs : run[r].id \in {NoValue} \cup 1..Len(deployed)

LatestId == Len(deployed)

Reaches(who) == who = Everyone \/ LatestId \in who

\* What a live order needs: the contract the node runs reads the mandate and
\* keeps its records, and a credential the mandate names is there.
Serves ==
    /\ seeded # NoValue /\ \A m \in Tails : maps[m] # NoValue /\ Reaches(maps[m].readers)
    /\ \A m \in {"spent", "dispatched"} : Reaches(maps[m].writers)
    /\ seeded.credential => sealed

\* Setups that name a credential, and may have seeded that without sealing it.
CutShort == {s \in Setups \cap HasKey : s \in Faulty \/ run[s].at = "killed"}

\* A setup that registered the contract the node runs, and ran to its end with
\* no call failing, leaves every map to that contract and to no other, whatever
\* became of the setups before it, at the same version or another, and of those
\* that follow at the same version.  Between scripts the tenant then serves
\* orders, unless a setup that names a credential was cut short.
SetupProvisions ==
    \A s \in Setups \ Faulty :
        (run[s].at = "done" /\ run[s].id # NoValue /\ run[s].id = LatestId) =>
            /\ \A m \in Tails : maps[m] = AclFor(s, m)
            /\ (CutShort = {} /\ \A r \in Runs : run[r].at \in {"idle"} \cup Ended) => Serves

\* "Safe to re-run -- it re-points each map's ACL at the newly registered contract
\* id": a setup that ran to its end leaves every map to the contract of its
\* version, while that is the one the node runs.
ClaimSetupRerun ==
    \A s \in Setups \ Faulty :
        (run[s].at = "done" /\ deployed[LatestId] = Version[s]) =>
            \A m \in Tails : maps[m].readers = {LatestId}

\* A map that has been closed to strangers is never opened to them again, by
\* any script, failing or killed anywhere, next to any other.
NeverReopened ==
    [][\A m \in Tails : maps[m] # NoValue =>
          /\ maps'[m] # NoValue
          /\ maps[m].readers # Everyone => maps'[m].readers # Everyone
          /\ maps[m].writers # Everyone => maps'[m].writers # Everyone]_setupVars

\* Nothing at runtime can write the mandate or the secrets, whatever happened
\* to the scripts.
OnlyTheAdminWrites ==
    \A m \in {"mandate", "secrets"} : maps[m] # NoValue => maps[m].writers = nobody
=============================================================================
