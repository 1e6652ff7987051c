------------------------- MODULE ProvisioningProofs -------------------------
(***************************************************************************)
(* What the tenant admin's scripts leave behind, for any number of them.   *)
(*                                                                         *)
(* Three theorems hold whatever fails, overlaps or is killed.  The fourth, *)
(* that a finished setup leaves a tenant that serves orders, holds for     *)
(* scripts run one after another, whatever fails in the others and where   *)
(* they are killed; its invariant is Orderly: whoever registered last is   *)
(* the only one to point maps at itself, and a credential that is named is *)
(* there or was never sealed by the setup that named it.                   *)
(***************************************************************************)
EXTENDS Provisioning, TLAPS

SetupStages == {"register", "mandate", "seed", "spent", "dispatched", "secrets", "seal"}
ProofStages == {"proveSeal", "proveSeed", "proving"}
Stages == SetupStages \cup ProofStages \cup Ended \cup {"idle"}

Mandates == {NoValue} \cup [policy : {Policy[r] : r \in Runs}, credential : BOOLEAN]

Typed ==
    /\ deployed \in Seq({Version[s] : s \in Setups})
    /\ maps \in [Tails -> {NoValue} \cup [readers : SUBSET Nat, writers : SUBSET Nat]]
    /\ seeded \in Mandates
    /\ sealed \in BOOLEAN
    /\ run \in [Runs -> [at : Stages, id : {NoValue} \cup Nat, found : Mandates]]
    /\ \A s \in Setups : run[s].at \notin ProofStages
    /\ \A p \in Proofs : run[p].at \notin SetupStages

\* The stages of a setup follow one another.
LEMMA Successors ==
    /\ After["register"] = "mandate" /\ After["mandate"] = "seed" /\ After["seed"] = "spent"
    /\ After["spent"] = "dispatched" /\ After["dispatched"] = "secrets"
    /\ After["secrets"] = "seal" /\ After["seal"] = "done"
  BY DEF After

\* A setup that advances stays a setup.
LEMMA Advances ==
    ASSUME Typed, NEW s \in Setups, run[s].at \in SetupStages, Advance(s)
    PROVE  /\ run' \in [Runs -> [at : Stages, id : {NoValue} \cup Nat, found : Mandates]]
           /\ \A r \in Runs \ {s} : run'[r] = run[r]
           /\ run'[s].at = After[run[s].at] /\ run'[s].id = run[s].id
           /\ run'[s].at \in (SetupStages \ {"register"}) \cup {"done"}
<1>1. s \in Runs /\ run \in [Runs -> [at : Stages, id : {NoValue} \cup Nat, found : Mandates]]
  BY DEF Runs, Typed
<1>2. After[run[s].at] \in (SetupStages \ {"register"}) \cup {"done"}
  BY Successors DEF SetupStages
<1> DEFINE next == After[run[s].at]
<1>3. run' = [run EXCEPT ![s].at = next]
  BY <1>1 DEF Advance
<1>4. next \in Stages
  BY <1>2 DEF Stages, Ended
<1> HIDE DEF next
<1>5. /\ run' \in [Runs -> [at : Stages, id : {NoValue} \cup Nat, found : Mandates]]
      /\ \A r \in Runs \ {s} : run'[r] = run[r]
      /\ run'[s].at = next /\ run'[s].id = run[s].id
  BY <1>1, <1>3, <1>4
<1> QED
  BY <1>2, <1>5 DEF next

\* A script that goes to a stage of its own kind, or ends.
LEMMA GoesTo ==
    ASSUME Typed, NEW r \in Runs, NEW st \in Stages,
           r \in Setups => st \notin ProofStages, r \in Proofs => st \notin SetupStages,
           run' = [run EXCEPT ![r].at = st],
           UNCHANGED deployed, maps' = maps, seeded' \in Mandates, sealed' \in BOOLEAN
    PROVE  Typed' /\ run'[r].at = st /\ (\A o \in Runs : run'[o].id = run[o].id)
           /\ \A o \in Runs \ {r} : run'[o] = run[o]
<1>1. /\ run' \in [Runs -> [at : Stages, id : {NoValue} \cup Nat, found : Mandates]]
      /\ run'[r].at = st /\ \A o \in Runs : run'[o].id = run[o].id
      /\ \A o \in Runs \ {r} : run'[o] = run[o]
  BY DEF Typed
<1>2. /\ \A s \in Setups : run'[s].at \notin ProofStages
      /\ \A p \in Proofs : run'[p].at \notin SetupStages
  BY <1>1 DEF Typed, Runs
<1> QED
  BY <1>1, <1>2 DEF Typed

\* What setup writes into an ACL.
LEMMA AclType ==
    ASSUME Typed, NEW s \in Setups, NEW m \in Tails
    PROVE  /\ AclFor(s, m) \in [readers : SUBSET Nat, writers : SUBSET Nat]
           /\ AclFor(s, m) # NoValue
           /\ m \in {"mandate", "secrets"} => AclFor(s, m).writers = nobody
           /\ run[s].id # NoValue /\ run[s].id # 0 =>
                 AclFor(s, m).readers # Everyone /\ AclFor(s, m).writers # Everyone
<1>1. run[s].id \in {NoValue} \cup Nat
  BY DEF Typed, Runs
<1>2. contractOnly(s) \in SUBSET Nat
      /\ (run[s].id # NoValue /\ run[s].id # 0 => contractOnly(s) # Everyone)
  BY <1>1 DEF contractOnly, Everyone
<1>3. AclFor(s, m) \in [readers : SUBSET Nat, writers : SUBSET Nat]
  BY <1>2 DEF AclFor, Readers, Writers, nobody
<1>4. AclFor(s, m) # NoValue
  BY <1>3, NoneAssumption
<1> QED
  BY <1>2, <1>3, <1>4 DEF AclFor, Readers, Writers, nobody, Everyone

\* What a run seeds is a mandate, never the empty key.
LEMMA MandateTypes ==
    ASSUME NEW r \in Runs
    PROVE  /\ MANDATE(r) \in Mandates /\ MANDATE(r) # NoValue
           /\ MANDATE(r).credential = (r \in HasKey)
           /\ [MANDATE(r) EXCEPT !.credential = TRUE] \in Mandates
           /\ [MANDATE(r) EXCEPT !.credential = TRUE] # NoValue
<1> DEFINE b == r \in HasKey
           x == MANDATE(r)
<1>1. x = [policy |-> Policy[r], credential |-> b] /\ b \in BOOLEAN
  BY DEF MANDATE
<1> HIDE DEF b, x
<1>2. x \in [policy : {Policy[o] : o \in Runs}, credential : BOOLEAN] /\ x.credential = b
  BY <1>1
<1>3. [x EXCEPT !.credential = TRUE] \in [policy : {Policy[o] : o \in Runs}, credential : BOOLEAN]
  BY <1>2
<1>4. \A y \in [policy : {Policy[o] : o \in Runs}, credential : BOOLEAN] :
         y \in Mandates /\ y # NoValue
  BY NoneAssumption DEF Mandates
<1>5. x \in Mandates /\ x # NoValue /\ [x EXCEPT !.credential = TRUE] \in Mandates
      /\ [x EXCEPT !.credential = TRUE] # NoValue
  BY <1>2, <1>3, <1>4
<1> QED
  BY <1>2, <1>5 DEF x, b

-----------------------------------------------------------------------------
(* One step of a script                                                    *)

\* The maps change only by ensureMap, which creates one or points it at the
\* contract its setup registered.
MapsStep ==
    \/ UNCHANGED maps
    \/ \E s \in Setups, m \in Tails :
          /\ run[s].at = m
          /\ maps[m] # NoValue => run[s].id # NoValue
          /\ maps' = [maps EXCEPT ![m] = AclFor(s, m)]

\* Every step keeps the types, and moves the maps by one of the writes.
LEMMA StepTypes ==
    ASSUME Typed, [SetupNext]_setupVars
    PROVE  Typed' /\ MapsStep
<1>1. ASSUME NEW r \in Runs, Start(r) PROVE Typed' /\ MapsStep
  <2> DEFINE st == IF r \in Setups THEN "register" ELSE "proveSeal"
  <2>1. run' = [run EXCEPT ![r].at = st, ![r].found = seeded]
        /\ UNCHANGED <<deployed, maps, seeded, sealed>>
    BY <1>1 DEF Start
  <2>2. st \in Stages /\ (r \in Setups => st \notin ProofStages)
        /\ (r \in Proofs => st \notin SetupStages)
    BY RunsAssumption DEF Stages, SetupStages, ProofStages
  <2> HIDE DEF st
  <2>3. /\ run' \in [Runs -> [at : Stages, id : {NoValue} \cup Nat, found : Mandates]]
        /\ run'[r].at = st /\ \A o \in Runs \ {r} : run'[o] = run[o]
    BY <2>1, <2>2 DEF Typed
  <2>4. /\ \A s \in Setups : run'[s].at \notin ProofStages
        /\ \A p \in Proofs : run'[p].at \notin SetupStages
    BY <2>2, <2>3 DEF Typed, Runs
  <2> QED
    BY <2>1, <2>3, <2>4 DEF Typed, MapsStep
<1>2. ASSUME NEW r \in Runs, Kill(r) PROVE Typed' /\ MapsStep
  <2>1. "killed" \in Stages /\ "killed" \notin ProofStages /\ "killed" \notin SetupStages
    BY DEF Stages, Ended, SetupStages, ProofStages
  <2>2. seeded \in Mandates /\ sealed \in BOOLEAN
    BY DEF Typed
  <2> QED
    BY <1>2, <2>1, <2>2, GoesTo DEF Kill, ProveAt, MapsStep
<1>3. ASSUME NEW s \in Setups, Register(s) PROVE Typed' /\ MapsStep
  <2>1. run[s].at = "register" /\ s \in Runs /\ UNCHANGED <<maps, seeded, sealed>>
    BY <1>3 DEF Register, Runs
  <2>2. deployed' \in Seq({Version[o] : o \in Setups})
    <3>1. deployed' = deployed \/ deployed' = Append(deployed, Version[s])
      BY <1>3 DEF Register
    <3>2. deployed \in Seq({Version[o] : o \in Setups}) /\ Version[s] \in {Version[o] : o \in Setups}
      BY DEF Typed
    <3> QED
      BY <3>1, <3>2
  <2>5. \/ Advance(s)
        \/ run' = [run EXCEPT ![s].at = After[@], ![s].id = Len(deployed')]
    BY <1>3 DEF Register
  <2>3. CASE Advance(s)
    <3>1. /\ run' \in [Runs -> [at : Stages, id : {NoValue} \cup Nat, found : Mandates]]
          /\ \A r \in Runs \ {s} : run'[r] = run[r]
          /\ run'[s].at \in (SetupStages \ {"register"}) \cup {"done"}
      BY <2>1, <2>3, Advances DEF SetupStages
    <3>2. /\ \A o \in Setups : run'[o].at \notin ProofStages
          /\ \A p \in Proofs : run'[p].at \notin SetupStages
      BY <3>1, RunsAssumption DEF Typed, Runs, SetupStages, ProofStages
    <3> QED
      BY <2>1, <2>2, <3>1, <3>2 DEF Typed, MapsStep
  <2>4. CASE run' = [run EXCEPT ![s].at = After[@], ![s].id = Len(deployed')]
    <3>1. Len(deployed') \in Nat
      BY <2>2
    <3>2. run' = [run EXCEPT ![s].at = "mandate", ![s].id = Len(deployed')]
      BY <2>1, <2>4, Successors DEF Typed
    <3>3. /\ run' \in [Runs -> [at : Stages, id : {NoValue} \cup Nat, found : Mandates]]
          /\ \A r \in Runs \ {s} : run'[r] = run[r]
          /\ run'[s].at = "mandate"
      <4>1. run \in [Runs -> [at : Stages, id : {NoValue} \cup Nat, found : Mandates]] /\ s \in Runs
        BY <2>1 DEF Typed
      <4>2. "mandate" \in Stages
        BY DEF Stages, SetupStages
      <4> QED
        BY <3>1, <3>2, <4>1, <4>2, Zenon
    <3>4. /\ \A o \in Setups : run'[o].at \notin ProofStages
          /\ \A p \in Proofs : run'[p].at \notin SetupStages
      BY <3>3, RunsAssumption DEF Typed, Runs, SetupStages, ProofStages
    <3> QED
      BY <2>1, <2>2, <3>3, <3>4 DEF Typed, MapsStep
  <2> QED
    BY <2>3, <2>4, <2>5
<1>4. ASSUME NEW s \in Setups,
             SeedMandate(s) \/ SealKey(s) \/ \E m \in Tails : ensureMap(s, m)
      PROVE  Typed' /\ MapsStep
  <2>1. Advance(s) /\ UNCHANGED deployed /\ s \in Runs
    BY <1>4 DEF SeedMandate, SealKey, ensureMap, Runs
  <2>2. run[s].at \in SetupStages
    BY <1>4 DEF SeedMandate, SealKey, ensureMap, SetupStages, Tails
  <2>3. /\ run' \in [Runs -> [at : Stages, id : {NoValue} \cup Nat, found : Mandates]]
        /\ \A r \in Runs \ {s} : run'[r] = run[r]
        /\ run'[s].at \in (SetupStages \ {"register"}) \cup {"done"}
    BY <2>1, <2>2, Advances
  <2>4. /\ \A o \in Setups : run'[o].at \notin ProofStages
        /\ \A p \in Proofs : run'[p].at \notin SetupStages
    BY <2>3, RunsAssumption DEF Typed, Runs, SetupStages, ProofStages
  <2>5. seeded' \in Mandates /\ sealed' \in BOOLEAN
    BY <1>4, <2>1, MandateTypes DEF SeedMandate, SealKey, ensureMap, Seeds, Seals, Typed
  <2>6. MapsStep
    BY <1>4 DEF SeedMandate, SealKey, ensureMap, MapsStep
  <2>7. maps' \in [Tails -> {NoValue} \cup [readers : SUBSET Nat, writers : SUBSET Nat]]
    BY <2>6, AclType DEF MapsStep, Typed
  <2> QED
    BY <2>1, <2>3, <2>4, <2>5, <2>6, <2>7 DEF Typed
<1>5. ASSUME NEW p \in Proofs, ProofStep(p) PROVE Typed' /\ MapsStep
  <2>1. PICK st \in {"proveSeed", "proving", "done", "killed"} : ProveAt(p, st)
    BY <1>5 DEF ProofStep, ProveSeal, ProveSeed, ProveGrantFails, ProveRestore
  <2>2. UNCHANGED <<deployed, maps>> /\ p \in Runs /\ p \notin Setups
    BY <1>5, RunsAssumption DEF ProofStep, ProveSeal, ProveSeed, ProveGrantFails, ProveRestore, Runs
  <2>3. seeded' \in Mandates /\ sealed' \in BOOLEAN
    BY <1>5, <2>2, MandateTypes
       DEF ProofStep, ProveSeal, ProveSeed, ProveGrantFails, ProveRestore, Seeds, Seals, Typed
  <2>4. st \in Stages /\ st \notin SetupStages
    BY DEF Stages, Ended, SetupStages, ProofStages
  <2> QED
    BY <2>1, <2>2, <2>3, <2>4, GoesTo DEF ProveAt, MapsStep
<1>6. CASE UNCHANGED setupVars
  BY <1>6 DEF setupVars, Typed, MapsStep
<1> QED
  BY <1>1, <1>2, <1>3, <1>4, <1>5, <1>6 DEF SetupNext, SetupCall

\* Ids are those of contracts that exist, in scripts and in ACLs.
LEMMA StepBounds ==
    ASSUME Typed, TypeOK, [SetupNext]_setupVars
    PROVE  TypeOK'
<1>1. Len(deployed) \in Nat
  BY DEF Typed
<1>2. \/ UNCHANGED <<deployed, maps>> /\ \A r \in Runs : run'[r].id = run[r].id
      \/ \E s \in Setups : Register(s)
      \/ \E s \in Setups, m \in Tails : ensureMap(s, m)
  <2>1. ASSUME NEW r \in Runs, NEW st,
               run' = [run EXCEPT ![r].at = st] \/ run' = [run EXCEPT ![r].at = st, ![r].found = seeded]
        PROVE  \A o \in Runs : run'[o].id = run[o].id
    <3>1. run \in [Runs -> [at : Stages, id : {NoValue} \cup Nat, found : Mandates]]
      BY DEF Typed
    <3>2. CASE run' = [run EXCEPT ![r].at = st]
      BY <3>1, <3>2
    <3>3. CASE run' = [run EXCEPT ![r].at = st, ![r].found = seeded]
      BY <3>1, <3>3
    <3> QED
      BY <2>1, <3>2, <3>3
  <2>2. ASSUME NEW r \in Runs, Start(r) \/ Kill(r)
        PROVE  UNCHANGED <<deployed, maps>> /\ \A o \in Runs : run'[o].id = run[o].id
    BY <2>1, <2>2 DEF Start, Kill, ProveAt
  <2>3. ASSUME NEW s \in Setups, SeedMandate(s) \/ SealKey(s)
        PROVE  UNCHANGED <<deployed, maps>> /\ \A o \in Runs : run'[o].id = run[o].id
    BY <2>1, <2>3 DEF SeedMandate, SealKey, Advance, Runs
  <2>4. ASSUME NEW p \in Proofs, ProofStep(p)
        PROVE  UNCHANGED <<deployed, maps>> /\ \A o \in Runs : run'[o].id = run[o].id
    BY <2>1, <2>4 DEF ProofStep, ProveSeal, ProveSeed, ProveGrantFails, ProveRestore, ProveAt, Runs
  <2>5. CASE UNCHANGED setupVars
    BY <2>5 DEF setupVars
  <2> QED
    BY <2>2, <2>3, <2>4, <2>5 DEF SetupNext, SetupCall
<1>3. sealed' \in BOOLEAN
  BY StepTypes DEF Typed
<1>4. CASE UNCHANGED <<deployed, maps>> /\ \A r \in Runs : run'[r].id = run[r].id
  BY <1>3, <1>4 DEF TypeOK, Acl
<1>5. ASSUME NEW s \in Setups, Register(s) PROVE TypeOK'
  <2>1. Len(deployed') \in Nat /\ Len(deployed) <= Len(deployed') /\ UNCHANGED maps
    BY <1>1, <1>5 DEF Register, Typed
  <2>2. Acl \subseteq Acl' /\ 1..Len(deployed) \subseteq 1..Len(deployed')
    BY <1>1, <2>1 DEF Acl
  <2>3. \A r \in Runs : run'[r].id = run[r].id \/ run'[r].id \in 1..Len(deployed')
    <3>1. CASE Advance(s)
      BY <3>1 DEF Advance, Typed, Runs
    <3>2. CASE ~Advance(s)
      <4>1. deployed' = Append(deployed, Version[s])
            /\ run' = [run EXCEPT ![s].at = After[@], ![s].id = Len(deployed')]
        BY <1>5, <3>2 DEF Register
      <4>2. Len(deployed') \in 1..Len(deployed')
        <5>1. Len(deployed') = Len(deployed) + 1
          BY <4>1 DEF Typed
        <5> QED
          BY <1>1, <5>1
      <4> DEFINE n == Len(deployed')
      <4>3. n \in 1..n /\ run' = [run EXCEPT ![s].at = After[@], ![s].id = n]
        BY <4>1, <4>2
      <4> HIDE DEF n
      <4>4. \A r \in Runs : run'[r].id = run[r].id \/ run'[r].id = n
        BY <4>3 DEF Typed, Runs
      <4> QED
        BY <4>3, <4>4 DEF n
    <3> QED
      BY <3>1, <3>2
  <2> QED
    BY <1>3, <2>1, <2>2, <2>3 DEF TypeOK
<1>6. ASSUME NEW s \in Setups, NEW m \in Tails, ensureMap(s, m) PROVE TypeOK'
  <2>1. Advance(s) /\ UNCHANGED deployed
        /\ (UNCHANGED maps \/ maps' = [maps EXCEPT ![m] = AclFor(s, m)])
    BY <1>6 DEF ensureMap
  <2>2. \A r \in Runs : run'[r].id = run[r].id
    BY <2>1 DEF Advance, Typed, Runs
  <2>3. AclFor(s, m).readers \in Acl /\ AclFor(s, m).writers \in Acl
    <3>1. run[s].id \in {NoValue} \cup 1..Len(deployed)
      BY DEF TypeOK, Runs
    <3>2. contractOnly(s) \in Acl /\ nobody \in Acl
      BY <3>1 DEF contractOnly, Acl, nobody
    <3> QED
      BY <3>2 DEF AclFor, Readers, Writers
  <2>4. \A n \in Tails : maps'[n] = maps[n] \/ maps'[n] = AclFor(s, m)
    BY <2>1 DEF Typed
  <2> QED
    BY <1>3, <2>1, <2>2, <2>3, <2>4 DEF TypeOK, Acl
<1> QED
  BY <1>2, <1>4, <1>5, <1>6

IInv == Typed /\ TypeOK /\ OnlyTheAdminWrites

\* The empty tenant satisfies the invariant.
LEMMA Initially == SetupInit => IInv
<1> SUFFICES ASSUME SetupInit PROVE IInv
  OBVIOUS
<1>1. <<>> \in Seq({Version[s] : s \in Setups})
  OBVIOUS
<1>2. [at |-> "idle", id |-> NoValue, found |-> NoValue] \in [at : Stages, id : {NoValue} \cup Nat, found : Mandates]
  BY DEF Stages, Mandates
<1>3. "idle" \notin ProofStages /\ "idle" \notin SetupStages
  BY DEF ProofStages, SetupStages
<1>4. Typed
  BY <1>1, <1>2, <1>3 DEF SetupInit, Typed, Mandates, Runs
<1>5. TypeOK /\ OnlyTheAdminWrites
  BY DEF SetupInit, TypeOK, OnlyTheAdminWrites, Tails
<1> QED
  BY <1>4, <1>5 DEF IInv

\* Every step keeps the invariant.
LEMMA Inductive == IInv /\ [SetupNext]_setupVars => IInv'
<1> SUFFICES ASSUME IInv, [SetupNext]_setupVars PROVE IInv'
  OBVIOUS
<1>1. Typed' /\ MapsStep /\ TypeOK'
  BY StepTypes, StepBounds DEF IInv
<1>2. OnlyTheAdminWrites'
  <2>1. ASSUME NEW m \in {"mandate", "secrets"}, maps'[m] # NoValue PROVE maps'[m].writers = nobody
    <3>1. CASE maps'[m] = maps[m]
      BY <2>1, <3>1 DEF IInv, OnlyTheAdminWrites
    <3>2. CASE maps'[m] # maps[m]
      <4>1. PICK s \in Setups, n \in Tails : maps' = [maps EXCEPT ![n] = AclFor(s, n)]
        BY <1>1, <3>2 DEF MapsStep
      <4>2. n = m /\ maps'[m] = AclFor(s, m)
        BY <2>1, <3>2, <4>1 DEF IInv, Typed, Tails
      <4> QED
        BY <2>1, <4>2, AclType DEF IInv
    <3> QED
      BY <3>1, <3>2
  <2> QED
    BY <2>1 DEF OnlyTheAdminWrites, nobody
<1> QED
  BY <1>1, <1>2 DEF IInv

\* The state keeps its type: an ACL names ids of contracts that exist.
THEOREM TypeCorrect == SetupSpec => []TypeOK
<1>1. IInv => TypeOK
  BY DEF IInv
<1> QED
  BY <1>1, Initially, Inductive, PTL DEF SetupSpec

\* No runtime caller can write the mandate or the secrets, whatever happened
\* to the scripts.
THEOREM OnlyTheAdminWritesHolds == SetupSpec => []OnlyTheAdminWrites
<1>1. IInv => OnlyTheAdminWrites
  BY DEF IInv
<1> QED
  BY <1>1, Initially, Inductive, PTL DEF SetupSpec

\* A map once closed to strangers stays closed.
THEOREM NeverReopenedHolds == SetupSpec => NeverReopened
<1> DEFINE Closed == \A m \in Tails : maps[m] # NoValue =>
          /\ maps'[m] # NoValue
          /\ maps[m].readers # Everyone => maps'[m].readers # Everyone
          /\ maps[m].writers # Everyone => maps'[m].writers # Everyone
<1>1. ASSUME IInv, [SetupNext]_setupVars, NEW m \in Tails, maps[m] # NoValue, maps'[m] # maps[m]
      PROVE  maps'[m] # NoValue /\ maps'[m].readers # Everyone /\ maps'[m].writers # Everyone
  <2>1. PICK s \in Setups, n \in Tails :
           maps' = [maps EXCEPT ![n] = AclFor(s, n)] /\ (maps[n] # NoValue => run[s].id # NoValue)
    BY <1>1, StepTypes DEF MapsStep, IInv
  <2>2. n = m /\ maps'[m] = AclFor(s, m)
    BY <1>1, <2>1 DEF IInv, Typed
  <2>3. run[s].id # NoValue /\ run[s].id # 0
    BY <1>1, <2>1, <2>2 DEF IInv, TypeOK, Runs
  <2> QED
    BY <1>1, <2>2, <2>3, AclType DEF IInv
<1>2. IInv /\ [SetupNext]_setupVars => [Closed]_setupVars
  BY <1>1
<1> QED
  BY <1>2, Initially, Inductive, PTL DEF SetupSpec, NeverReopened

-----------------------------------------------------------------------------
(* Scripts run one after another                                           *)

Active(r) == run[r].at \notin {"idle"} \cup Ended

Newest(s) == run[s].id # NoValue /\ run[s].id = Len(deployed)

Passed(s, m) ==
    \/ m = "mandate" /\ run[s].at \in {"seed", "spent", "dispatched", "secrets", "seal", "done"}
    \/ m = "spent" /\ run[s].at \in {"dispatched", "secrets", "seal", "done"}
    \/ m = "dispatched" /\ run[s].at \in {"secrets", "seal", "done"}
    \/ m = "secrets" /\ run[s].at \in {"seal", "done"}

Seeding == {"spent", "dispatched", "secrets", "seal"}

\* What a setup none of whose calls fail has made.
Made ==
    \A s \in Setups \ Faulty :
        /\ \A m \in Tails : Passed(s, m) => maps[m] # NoValue
        /\ run[s].at \in Seeding \cup {"done"} => seeded # NoValue

Sealed == \A p \in Proofs : run[p].at \in {"proveSeed", "proving"} => sealed

\* A credential that is named is there, unless a setup that named it has not
\* come to sealing it, or never did.
KeyIsThere ==
    \/ \E s \in Setups \cap HasKey : s \in Faulty \/ run[s].at \in Seeding \cup {"killed"}
    \/ seeded # NoValue /\ seeded.credential => sealed

OneScript == \A r, o \in Runs : Active(r) /\ Active(o) => r = o

Numbered ==
    /\ \A s \in Setups : run[s].at \in {"idle", "register"} => run[s].id = NoValue
    /\ \A s \in Setups : Active(s) /\ run[s].id # NoValue => Newest(s)
    /\ \A s, o \in Setups : Newest(s) /\ Newest(o) => s = o

\* The maps are those of the setup that registered last, as far as it has come.
Mine ==
    \A s \in Setups \ Faulty :
        Newest(s) => \A m \in Tails : Passed(s, m) => maps[m] = AclFor(s, m)

-----------------------------------------------------------------------------
(* A step, as what it does to the script that takes it                     *)

Quiet(r) == UNCHANGED <<deployed, maps, seeded, sealed>> /\ run'[r].id = run[r].id

Begins(r) ==
    /\ run[r].at = "idle" /\ Quiet(r)
    /\ run'[r].at \in {"register", "proveSeal"} /\ (r \in Setups => run'[r].at = "register")
    /\ Overlapping \/ \A o \in Runs : ~Active(o)

Stops(r) == Active(r) /\ Quiet(r) /\ run'[r].at = "killed"

Registers(s) ==
    /\ run[s].at = "register" /\ run'[s].at = "mandate" /\ UNCHANGED <<maps, seeded, sealed>>
    /\ \/ Len(deployed') = Len(deployed) + 1 /\ run'[s].id \in {run[s].id, Len(deployed')}
       \/ deployed' = deployed /\ run'[s].id = run[s].id

Ensures(s, m) ==
    /\ run[s].at = m /\ run'[s].at = After[m] /\ run'[s].id = run[s].id
    /\ UNCHANGED <<deployed, seeded, sealed>>
    /\ \/ /\ maps[m] = NoValue \/ run[s].id # NoValue
          /\ maps'[m] = AclFor(s, m) /\ \A n \in Tails \ {m} : maps'[n] = maps[n]
       \/ (s \in Faulty \/ (maps[m] # NoValue /\ run[s].id = NoValue)) /\ maps' = maps

Writes(s) ==
    /\ run'[s].id = run[s].id /\ UNCHANGED <<deployed, maps>>
    /\ \/ /\ run[s].at = "seed" /\ run'[s].at = "spent" /\ sealed' = sealed
          /\ \/ seeded' = MANDATE(s)
             \/ seeded' = seeded /\ (s \in Faulty \/ maps["mandate"] = NoValue)
       \/ /\ run[s].at = "seal" /\ run'[s].at = "done" /\ seeded' = seeded
          /\ \/ sealed' = TRUE
             \/ sealed' = sealed /\ (s \in Faulty \/ maps["secrets"] = NoValue \/ s \notin HasKey)

Proves(p) ==
    /\ Active(p) /\ UNCHANGED <<deployed, maps>> /\ run'[p].id = run[p].id
    /\ \/ /\ run[p].at = "proveSeal" /\ seeded' = seeded
          /\ sealed' = TRUE \/ (sealed' = sealed /\ run'[p].at = "killed")
       \/ /\ run[p].at \in {"proveSeed", "proving"} /\ sealed' = sealed
          /\ seeded' = seeded \/ seeded' # NoValue

Move(r) ==
    \/ Begins(r) \/ Stops(r)
    \/ r \in Setups /\ (Registers(r) \/ Writes(r) \/ \E m \in Tails : Ensures(r, m))
    \/ r \in Proofs /\ Proves(r)

\* Every step is the move of one script, and leaves the others where they are.
LEMMA StepMoves ==
    ASSUME Typed, SetupNext
    PROVE  \E r \in Runs : Move(r) /\ \A o \in Runs \ {r} : run'[o] = run[o]
<1> DEFINE Rec == [at : Stages, id : {NoValue} \cup Nat, found : Mandates]
<1>0. run \in [Runs -> Rec]
  BY DEF Typed
<1>a. ASSUME NEW r \in Runs, NEW st, run' = [run EXCEPT ![r].at = st]
      PROVE  run'[r].at = st /\ run'[r].id = run[r].id /\ \A o \in Runs \ {r} : run'[o] = run[o]
  BY <1>0, <1>a
<1> HIDE DEF Rec
<1>1. ASSUME NEW r \in Runs, Start(r) PROVE Move(r) /\ \A o \in Runs \ {r} : run'[o] = run[o]
  <2> DEFINE st == IF r \in Setups THEN "register" ELSE "proveSeal"
  <2>1. run' = [run EXCEPT ![r].at = st, ![r].found = seeded]
    BY <1>1 DEF Start
  <2>2. st \in {"register", "proveSeal"} /\ (r \in Setups => st = "register")
    OBVIOUS
  <2> HIDE DEF st
  <2>3. run'[r].at = st /\ run'[r].id = run[r].id /\ \A o \in Runs \ {r} : run'[o] = run[o]
    BY <1>0, <2>1 DEF Rec
  <2>4. Begins(r)
    BY <1>1, <2>2, <2>3 DEF Start, Begins, Quiet, Active
  <2> QED
    BY <2>3, <2>4 DEF Move
<1>2. ASSUME NEW r \in Runs, Kill(r) PROVE Move(r) /\ \A o \in Runs \ {r} : run'[o] = run[o]
  <2>1. run' = [run EXCEPT ![r].at = "killed"]
    BY <1>2 DEF Kill, ProveAt
  <2>2. run'[r].at = "killed" /\ run'[r].id = run[r].id /\ \A o \in Runs \ {r} : run'[o] = run[o]
    BY <1>a, <2>1
  <2>3. Stops(r)
    BY <1>2, <2>2 DEF Kill, Stops, Quiet, Active
  <2> QED
    BY <2>2, <2>3 DEF Move
<1>3. ASSUME NEW s \in Setups, Register(s) PROVE Move(s) /\ \A o \in Runs \ {s} : run'[o] = run[o]
  <2>1. run[s].at = "register" /\ s \in Runs /\ UNCHANGED <<maps, seeded, sealed>>
    BY <1>3 DEF Register, Runs
  <2>2. CASE Advance(s)
    <3>1. /\ \A o \in Runs \ {s} : run'[o] = run[o]
          /\ run'[s].at = "mandate" /\ run'[s].id = run[s].id
      BY <2>1, <2>2, Advances, Successors DEF SetupStages
    <3>2. deployed' = deployed \/ deployed' = Append(deployed, Version[s])
      BY <1>3 DEF Register
    <3>3. deployed' = deployed \/ Len(deployed') = Len(deployed) + 1
      BY <3>2 DEF Typed
    <3>4. Registers(s)
      BY <2>1, <3>1, <3>3 DEF Registers
    <3> QED
      BY <3>1, <3>4 DEF Move
  <2>3. CASE ~Advance(s)
    <3>1. /\ deployed' = Append(deployed, Version[s])
          /\ run' = [run EXCEPT ![s].at = After[@], ![s].id = Len(deployed')]
      BY <1>3, <2>3 DEF Register
    <3>2. Len(deployed') = Len(deployed) + 1
      BY <3>1 DEF Typed
    <3> DEFINE n == Len(deployed')
    <3>3. run' = [run EXCEPT ![s].at = "mandate", ![s].id = n]
      BY <1>0, <2>1, <3>1, Successors
    <3> HIDE DEF n
    <3>4. run'[s].at = "mandate" /\ run'[s].id = n /\ \A o \in Runs \ {s} : run'[o] = run[o]
      BY <1>0, <2>1, <3>3 DEF Rec
    <3>5. Registers(s)
      BY <2>1, <3>2, <3>4 DEF Registers, n
    <3> QED
      BY <3>4, <3>5 DEF Move
  <2> QED
    BY <2>2, <2>3
<1>4. ASSUME NEW s \in Setups, NEW m \in Tails, ensureMap(s, m)
      PROVE  Move(s) /\ \A o \in Runs \ {s} : run'[o] = run[o]
  <2>1. run[s].at = m /\ Advance(s) /\ m \in SetupStages
    BY <1>4 DEF ensureMap, Tails, SetupStages
  <2>2. /\ \A o \in Runs \ {s} : run'[o] = run[o]
        /\ run'[s].at = After[m] /\ run'[s].id = run[s].id
    BY <2>1, Advances
  <2>3. \/ /\ maps[m] = NoValue \/ run[s].id # NoValue
           /\ maps' = [maps EXCEPT ![m] = AclFor(s, m)]
        \/ (s \in Faulty \/ (maps[m] # NoValue /\ run[s].id = NoValue)) /\ maps' = maps
    BY <1>4 DEF ensureMap
  <2>4. maps' = [maps EXCEPT ![m] = AclFor(s, m)] =>
           maps'[m] = AclFor(s, m) /\ \A n \in Tails \ {m} : maps'[n] = maps[n]
    BY DEF Typed
  <2>5. Ensures(s, m)
    BY <1>4, <2>1, <2>2, <2>3, <2>4 DEF Ensures, ensureMap
  <2> QED
    BY <2>2, <2>5 DEF Move
<1>5. ASSUME NEW s \in Setups, SeedMandate(s) \/ SealKey(s)
      PROVE  Move(s) /\ \A o \in Runs \ {s} : run'[o] = run[o]
  <2>1. run[s].at \in {"seed", "seal"} /\ Advance(s) /\ run[s].at \in SetupStages
    BY <1>5 DEF SeedMandate, SealKey, SetupStages
  <2>2. /\ \A o \in Runs \ {s} : run'[o] = run[o]
        /\ run'[s].at = After[run[s].at] /\ run'[s].id = run[s].id
    BY <2>1, Advances
  <2>3. Writes(s)
    BY <1>5, <2>2, Successors DEF SeedMandate, SealKey, Seeds, Seals, Writes
  <2> QED
    BY <2>2, <2>3 DEF Move
<1>6. ASSUME NEW p \in Proofs, ProofStep(p) PROVE Move(p) /\ \A o \in Runs \ {p} : run'[o] = run[o]
  <2>1. p \in Runs /\ UNCHANGED <<deployed, maps>> /\ Active(p)
    BY <1>6 DEF ProofStep, ProveSeal, ProveSeed, ProveGrantFails, ProveRestore, Runs, Active, Ended
  <2>2. PICK st : run' = [run EXCEPT ![p].at = st]
    BY <1>6 DEF ProofStep, ProveSeal, ProveSeed, ProveGrantFails, ProveRestore, ProveAt
  <2>3. run'[p].at = st /\ run'[p].id = run[p].id /\ \A o \in Runs \ {p} : run'[o] = run[o]
    BY <1>a, <2>1, <2>2
  <2>4. \A o : ProveAt(p, o) => run'[p].at = o
    BY <1>a, <2>1 DEF ProveAt
  <2>5. MANDATE(p) # NoValue /\ [MANDATE(p) EXCEPT !.credential = TRUE] # NoValue
    BY <2>1, MandateTypes
  <2>6. CASE ProveSeal(p)
    <3>1. Proves(p)
      BY <2>1, <2>3, <2>4, <2>6 DEF ProveSeal, Seals, Proves
    <3> QED
      BY <2>3, <3>1 DEF Move
  <2>7. CASE ProveSeed(p) \/ ProveGrantFails(p) \/ ProveRestore(p)
    <3>1. Proves(p)
      BY <2>1, <2>3, <2>5, <2>7 DEF ProveSeed, ProveGrantFails, ProveRestore, Seeds, Proves
    <3> QED
      BY <2>3, <3>1 DEF Move
  <2> QED
    BY <1>6, <2>6, <2>7 DEF ProofStep
<1>7. Setups \subseteq Runs /\ Proofs \subseteq Runs
  BY DEF Runs
<1> QED
  BY <1>1, <1>2, <1>3, <1>4, <1>5, <1>6, <1>7 DEF SetupNext, SetupCall


\* What a setup has made stays made.
LEMMA MadeStays ==
    ASSUME IInv, Made, NEW r \in Runs, Move(r), \A o \in Runs \ {r} : run'[o] = run[o]
    PROVE  Made' /\ \A m \in Tails : maps[m] # NoValue => maps'[m] # NoValue
<1>1. \A m \in Tails : maps[m] # NoValue => maps'[m] # NoValue
  <2>1. maps' = maps \/ \E s \in Setups, m \in Tails : Ensures(s, m)
    BY DEF Move, Begins, Stops, Quiet, Registers, Writes, Proves
  <2>2. ASSUME NEW s \in Setups, NEW m \in Tails, Ensures(s, m)
        PROVE  \A n \in Tails : maps[n] # NoValue => maps'[n] # NoValue
    BY <2>2, AclType DEF Ensures, IInv
  <2> QED
    BY <2>1, <2>2
<1>2. seeded # NoValue => seeded' # NoValue
  BY MandateTypes DEF Move, Begins, Stops, Quiet, Registers, Writes, Proves, Ensures
<1>3. ASSUME NEW s \in Setups \ Faulty, s # r
      PROVE  /\ \A m \in Tails : Passed(s, m)' => maps'[m] # NoValue
             /\ run'[s].at \in Seeding \cup {"done"} => seeded' # NoValue
  <2>1. run'[s] = run[s]
    BY <1>3 DEF Runs
  <2>2. \A m \in Tails : Passed(s, m)' = Passed(s, m)
    BY <2>1 DEF Passed
  <2> QED
    BY <1>1, <1>2, <2>1, <2>2 DEF Made
<1>4. ASSUME r \in Setups \ Faulty
      PROVE  /\ \A m \in Tails : Passed(r, m)' => maps'[m] # NoValue
             /\ run'[r].at \in Seeding \cup {"done"} => seeded' # NoValue
  <2>1. r \notin Proofs
    BY <1>4, RunsAssumption
  <2>2. CASE Begins(r) \/ Stops(r) \/ Registers(r)
    <3>1. CASE Registers(r)
      BY <3>1 DEF Registers, Passed, Seeding
    <3>2. CASE Begins(r) \/ Stops(r)
      BY <3>2 DEF Begins, Stops, Passed, Seeding
    <3> QED
      BY <2>2, <3>1, <3>2
  <2>3. CASE Writes(r)
    <3>1. \A m \in Tails : Passed(r, m)' => Passed(r, m)
      BY <2>3 DEF Writes, Passed
    <3>2. run[r].at = "seed" => Passed(r, "mandate") /\ "mandate" \in Tails
      BY DEF Passed, Tails
    <3>3. run[r].at = "seed" => seeded' # NoValue
      BY <1>4, <2>3, <3>2, MandateTypes DEF Writes, Made, Runs
    <3>4. run[r].at = "seal" => seeded' # NoValue
      BY <1>2, <1>4 DEF Made, Seeding
    <3> QED
      BY <1>1, <1>4, <2>3, <3>1, <3>3, <3>4 DEF Writes, Made
  <2>4. ASSUME NEW m \in Tails, Ensures(r, m)
        PROVE  /\ \A n \in Tails : Passed(r, n)' => maps'[n] # NoValue
               /\ run'[r].at \in Seeding \cup {"done"} => seeded' # NoValue
    <3>1. maps'[m] # NoValue
      BY <1>4, <2>4, AclType DEF Ensures, IInv
    <3>2. \A n \in Tails : Passed(r, n)' => n = m \/ Passed(r, n)
      BY <2>4, Successors DEF Ensures, Passed, Tails
    <3>3. run'[r].at \in Seeding \cup {"done"} => run[r].at \in Seeding
      BY <2>4, Successors DEF Ensures, Tails, Seeding
    <3> QED
      BY <1>1, <1>2, <1>4, <3>1, <3>2, <3>3 DEF Made
  <2> QED
    BY <1>4, <2>1, <2>2, <2>3, <2>4 DEF Move
<1> QED
  BY <1>1, <1>3, <1>4 DEF Made

\* Whoever names the credential seals it, is about to, or was cut short;
\* prove-enclave seals before it seeds.
LEMMA KeyStays ==
    ASSUME IInv, Made, Sealed, KeyIsThere,
           NEW r \in Runs, Move(r), \A o \in Runs \ {r} : run'[o] = run[o]
    PROVE  Sealed' /\ KeyIsThere'
<1>1. sealed => sealed'
  BY DEF Move, Begins, Stops, Quiet, Registers, Writes, Proves, Ensures
<1>2. Sealed'
  <2>1. ASSUME NEW p \in Proofs, run'[p].at \in {"proveSeed", "proving"} PROVE sealed'
    <3>1. CASE p # r
      BY <1>1, <2>1, <3>1 DEF Sealed, Runs
    <3>2. CASE p = r
      <4>1. p \notin Setups
        BY RunsAssumption
      <4>2. ~Begins(p) /\ ~Stops(p)
        BY <2>1 DEF Begins, Stops
      <4>3. Proves(p)
        BY <3>2, <4>1, <4>2 DEF Move
      <4> QED
        BY <1>1, <2>1, <4>3 DEF Proves, Sealed
    <3> QED
      BY <3>1, <3>2
  <2> QED
    BY <2>1 DEF Sealed
<1>3. CASE r \in Setups \cap HasKey /\ Writes(r)
  <2>1. CASE run[r].at = "seed"
    <3>1. run'[r].at = "spent" /\ "spent" \in Seeding
      BY <1>3, <2>1 DEF Writes, Seeding
    <3> QED
      BY <1>2, <1>3, <3>1 DEF KeyIsThere
  <2>2. CASE run[r].at = "seal" /\ r \notin Faulty
    <3>1. maps["secrets"] # NoValue
      BY <1>3, <2>2 DEF Made, Passed, Tails
    <3>2. sealed' = TRUE
      BY <1>3, <2>2, <3>1 DEF Writes
    <3> QED
      BY <1>2, <3>2 DEF KeyIsThere
  <2>3. CASE r \in Faulty
    BY <1>2, <1>3, <2>3 DEF KeyIsThere
  <2> QED
    BY <1>2, <1>3, <2>1, <2>2, <2>3 DEF Writes
<1>4. CASE ~(r \in Setups \cap HasKey /\ Writes(r))
  <2>1. ASSUME NEW s \in Setups \cap HasKey, s \in Faulty \/ run[s].at \in Seeding \cup {"killed"}
        PROVE  s \in Faulty \/ run'[s].at \in Seeding \cup {"killed"}
    <3>1. CASE s # r
      BY <2>1, <3>1 DEF Runs
    <3>2. CASE s = r /\ s \notin Faulty
      <4>1. s \notin Proofs /\ ~Writes(s)
        BY <1>4, <3>2, RunsAssumption
      <4>2. CASE Begins(s) \/ Stops(s) \/ Registers(s)
        BY <2>1, <3>2, <4>2 DEF Begins, Stops, Registers, Active, Ended, Seeding
      <4>3. ASSUME NEW m \in Tails, Ensures(s, m) PROVE run'[s].at \in Seeding \cup {"killed"}
        BY <2>1, <3>2, <4>3, Successors DEF Ensures, Tails, Seeding
      <4> QED
        BY <3>2, <4>1, <4>2, <4>3 DEF Move
    <3> QED
      BY <3>1, <3>2
  <2>2. CASE \E s \in Setups \cap HasKey : s \in Faulty \/ run[s].at \in Seeding \cup {"killed"}
    BY <1>2, <2>1, <2>2 DEF KeyIsThere
  <2>3. CASE seeded # NoValue /\ seeded.credential => sealed
    <3>1. seeded' = seeded \/ (seeded' # NoValue /\ seeded'.credential => sealed')
      <4>1. CASE r \in Setups /\ Writes(r)
        BY <1>4, <4>1, MandateTypes DEF Writes, Runs
      <4>2. CASE r \in Proofs /\ Proves(r)
        BY <1>1, <4>2 DEF Proves, Sealed
      <4> QED
        BY <4>1, <4>2 DEF Move, Begins, Stops, Quiet, Registers, Ensures
    <3> QED
      BY <1>1, <1>2, <2>3, <3>1 DEF KeyIsThere
  <2> QED
    BY <2>2, <2>3 DEF KeyIsThere
<1> QED
  BY <1>3, <1>4

\* One script at a time: only the one that moves is under way.
LEMMA OneAtATime ==
    ASSUME ~Overlapping, OneScript, NEW r \in Runs, Move(r), \A o \in Runs \ {r} : run'[o] = run[o]
    PROVE  OneScript' /\ \A o \in Runs \ {r} : ~Active(o) /\ ~Active(o)'
<1>1. \A o \in Runs \ {r} : ~Active(o)
  <2>1. CASE Begins(r)
    BY <2>1 DEF Begins
  <2>2. CASE ~Begins(r)
    <3>1. Active(r)
      BY <2>2 DEF Move, Stops, Registers, Writes, Ensures, Proves, Active, Ended, Tails
    <3> QED
      BY <3>1 DEF OneScript
  <2> QED
    BY <2>1, <2>2
<1>2. \A o \in Runs \ {r} : ~Active(o)'
  BY <1>1 DEF Active
<1> QED
  BY <1>1, <1>2 DEF OneScript

\* The setup under way, if it has an id, is the newest, and there is one newest.
LEMMA NumberedStays ==
    ASSUME ~Overlapping, IInv, OneScript, Numbered,
           NEW r \in Runs, Move(r), \A o \in Runs \ {r} : run'[o] = run[o]
    PROVE  Numbered'
<1>1. \A o \in Runs \ {r} : ~Active(o)'
  BY OneAtATime
<1>2. Len(deployed) \in Nat /\ \A s \in Setups : run[s].id \in {NoValue} \cup 1..Len(deployed)
  BY DEF IInv, Typed, TypeOK, Runs
<1>3. CASE r \in Setups /\ Registers(r)
  <2>1. run[r].id = NoValue /\ run'[r].at = "mandate"
    BY <1>3 DEF Registers, Numbered
  <2>2. CASE deployed' = deployed /\ run'[r].id = run[r].id
    <3>1. \A s \in Setups : run'[s].id = run[s].id
      BY <2>2 DEF Runs
    <3>2. \A s \in Setups : Newest(s)' = Newest(s)
      BY <2>2, <3>1 DEF Newest
    <3>3. \A s \in Setups : run'[s].at \in {"idle", "register"} => run'[s].id = NoValue
      BY <2>1, <3>1 DEF Numbered, Runs
    <3> QED
      BY <1>1, <2>1, <2>2, <3>2, <3>3 DEF Numbered, Runs
  <2>3. CASE Len(deployed') = Len(deployed) + 1 /\ run'[r].id \in {run[r].id, Len(deployed')}
    <3>1. \A s \in Setups \ {r} : ~Newest(s)'
      BY <1>2, <2>3 DEF Newest, Runs
    <3>2. run'[r].id # NoValue => Newest(r)'
      BY <2>1, <2>3 DEF Newest
    <3>3. \A s \in Setups : run'[s].at \in {"idle", "register"} => run'[s].id = NoValue
      BY <2>1 DEF Numbered, Runs
    <3> QED
      BY <1>1, <3>1, <3>2, <3>3 DEF Numbered, Runs
  <2> QED
    BY <1>3, <2>2, <2>3 DEF Registers
<1>4. CASE ~(r \in Setups /\ Registers(r))
  <2>1. deployed' = deployed /\ run'[r].id = run[r].id
    BY <1>4 DEF Move, Begins, Stops, Quiet, Writes, Proves, Ensures
  <2>2. \A s \in Setups : run'[s].id = run[s].id
    BY <2>1 DEF Runs
  <2>3. \A s \in Setups : Newest(s)' = Newest(s)
    BY <2>1, <2>2 DEF Newest
  <2>4. \A s \in Setups : run'[s].at \in {"idle", "register"} => run[s].at \in {"idle", "register"}
    <3>1. r \in Setups => (run'[r].at \in {"idle", "register"} => run[r].at \in {"idle", "register"})
      BY <1>4, Successors, RunsAssumption DEF Move, Begins, Stops, Writes, Ensures, Tails
    <3> QED
      BY <3>1 DEF Runs
  <2>5. \A s \in Setups : run'[s].at \in {"idle", "register"} => run'[s].id = NoValue
    BY <2>2, <2>4 DEF Numbered
  <2>6. r \in Setups /\ Active(r)' /\ run'[r].id # NoValue => Newest(r)
    <3>1. Begins(r) /\ r \in Setups => run'[r].id = NoValue
      BY <2>1 DEF Begins, Numbered
    <3>2. ~Active(r) => Begins(r)
      BY DEF Move, Stops, Registers, Writes, Ensures, Proves, Active, Ended, Tails
    <3> QED
      BY <2>1, <3>1, <3>2 DEF Numbered
  <2> QED
    BY <1>1, <2>3, <2>5, <2>6 DEF Numbered, Runs
<1> QED
  BY <1>3, <1>4

\* What an ACL of setup s says depends on the id of s alone.
LEMMA AclStable ==
    ASSUME NEW s \in Setups, run'[s].id = run[s].id, NEW m \in Tails
    PROVE  AclFor(s, m)' = AclFor(s, m)
  BY DEF AclFor, Readers, Writers, contractOnly, nobody

\* Nobody takes the maps from the newest setup: one that has no id of its own
\* leaves a map that exists as it is.
LEMMA MineStays ==
    ASSUME ~Overlapping, IInv, Made, OneScript, Numbered, Mine,
           NEW r \in Runs, Move(r), \A o \in Runs \ {r} : run'[o] = run[o]
    PROVE  Mine'
<1>1. SUFFICES ASSUME NEW s \in Setups \ Faulty, Newest(s)', NEW m \in Tails, Passed(s, m)'
               PROVE  maps'[m] = AclFor(s, m)'
  BY DEF Mine
<1>2. Len(deployed) \in Nat /\ run[s].id \in {NoValue} \cup 1..Len(deployed)
  BY DEF IInv, Typed, TypeOK, Runs
<1>3. CASE r \in Setups /\ Registers(r)
  <2>1. s # r
    BY <1>1, <1>3 DEF Registers, Passed
  <2>2. run'[s] = run[s]
    BY <2>1 DEF Runs
  <2>3. deployed' = deployed
    BY <1>1, <1>2, <1>3, <2>2 DEF Registers, Newest
  <2>4. Newest(s) /\ Passed(s, m) /\ maps' = maps
    BY <1>1, <1>3, <2>2, <2>3 DEF Newest, Passed, Registers
  <2> QED
    BY <2>2, <2>4, AclStable DEF Mine
<1>4. CASE ~(r \in Setups /\ Registers(r))
  <2>1. deployed' = deployed /\ run'[s].id = run[s].id
    BY <1>4 DEF Move, Begins, Stops, Quiet, Writes, Proves, Ensures, Runs
  <2>2. Newest(s) /\ AclFor(s, m)' = AclFor(s, m)
    BY <1>1, <2>1, AclStable DEF Newest
  <2>3. CASE s = r
    <3>1. s \notin Proofs /\ ~Begins(s) /\ ~Stops(s)
      BY <1>1, RunsAssumption DEF Begins, Stops, Passed
    <3>2. CASE Writes(s)
      <4>1. Passed(s, m) /\ maps' = maps
        BY <1>1, <3>2 DEF Writes, Passed
      <4> QED
        BY <2>2, <4>1 DEF Mine
    <3>3. ASSUME NEW n \in Tails, Ensures(s, n) PROVE maps'[m] = AclFor(s, m)'
      <4>1. maps'[n] = AclFor(s, n) /\ \A t \in Tails \ {n} : maps'[t] = maps[t]
        BY <2>2, <3>3 DEF Ensures, Newest
      <4>2. m = n \/ Passed(s, m)
        BY <1>1, <3>3, Successors DEF Ensures, Passed, Tails
      <4> QED
        BY <2>2, <4>1, <4>2 DEF Mine
    <3> QED
      BY <1>4, <2>3, <3>1, <3>2, <3>3 DEF Move
  <2>4. CASE s # r
    <3>1. run'[s] = run[s]
      BY <2>4 DEF Runs
    <3>2. Passed(s, m) /\ maps[m] = AclFor(s, m) /\ maps[m] # NoValue
      BY <1>1, <2>2, <3>1 DEF Passed, Mine, Made
    <3>3. maps'[m] = maps[m]
      <4>1. CASE maps' = maps
        BY <4>1
      <4>2. ASSUME NEW n \in Tails, r \in Setups, Ensures(r, n) PROVE maps'[m] = maps[m]
        <5>1. Active(r)
          BY <4>2 DEF Ensures, Active, Ended, Tails
        <5>2. run[r].id = NoValue
          BY <2>2, <2>4, <4>2, <5>1 DEF Numbered
        <5> QED
          BY <3>2, <4>2, <5>2 DEF Ensures
      <4> QED
        BY <1>4, <4>1, <4>2 DEF Move, Begins, Stops, Quiet, Writes, Proves
    <3> QED
      BY <2>2, <3>2, <3>3
  <2> QED
    BY <2>3, <2>4
<1> QED
  BY <1>3, <1>4

Orderly == Made /\ Sealed /\ KeyIsThere /\ OneScript /\ Numbered /\ Mine

\* While scripts run one after another, what they leave stays in order.
LEMMA StaysOrderly ==
    ASSUME ~Overlapping, IInv, Orderly, [SetupNext]_setupVars
    PROVE  Orderly'
<1>1. CASE UNCHANGED setupVars
  BY <1>1 DEF setupVars, Orderly, OneScript, Numbered, Sealed, Made, KeyIsThere, Mine, Active,
              Newest, Passed, AclFor, Readers, Writers, contractOnly, nobody
<1>2. CASE SetupNext
  <2>1. PICK r \in Runs : Move(r) /\ \A o \in Runs \ {r} : run'[o] = run[o]
    BY <1>2, StepMoves DEF IInv
  <2> QED
    BY <2>1, MadeStays, KeyStays, OneAtATime, NumberedStays, MineStays DEF Orderly
<1> QED
  BY <1>1, <1>2

\* When scripts run one after another, a setup that registered the contract the
\* node runs, and ran to its end with no call of its own failing, leaves every
\* map to that contract, whatever failed in the other scripts, wherever they
\* were killed, and whichever of them share its version; and between scripts the
\* tenant serves orders, unless a setup that names a credential was cut short.
THEOREM SetupProvisionsHolds ==
    ASSUME ~Overlapping
    PROVE  SetupSpec => []SetupProvisions
<1>1. SetupInit => Orderly
  <2> SUFFICES ASSUME SetupInit PROVE Orderly
    OBVIOUS
  <2>1. (\A r \in Runs : run[r].at = "idle" /\ run[r].id = NoValue) /\ seeded = NoValue
    BY DEF SetupInit
  <2>2. Setups \subseteq Runs /\ Proofs \subseteq Runs
    BY DEF Runs
  <2> QED
    BY <2>1, <2>2 DEF Orderly, OneScript, Numbered, Sealed, Made, KeyIsThere, Mine, Active, Newest,
                      Passed, Seeding
<1>2. IInv /\ Orderly /\ [SetupNext]_setupVars => (IInv /\ Orderly)'
  BY StaysOrderly, Inductive
<1>3. IInv /\ Orderly => SetupProvisions
  <2> SUFFICES ASSUME IInv, Orderly, NEW s \in Setups \ Faulty,
                      run[s].at = "done", run[s].id # NoValue, run[s].id = LatestId
               PROVE  /\ \A m \in Tails : maps[m] = AclFor(s, m)
                      /\ (CutShort = {} /\ \A r \in Runs : run[r].at \in {"idle"} \cup Ended) => Serves
    BY DEF SetupProvisions
  <2>1. Newest(s) /\ \A m \in Tails : Passed(s, m)
    BY DEF Newest, LatestId, Passed, Tails
  <2>2. (\A m \in Tails : maps[m] = AclFor(s, m)) /\ seeded # NoValue
    BY <2>1 DEF Orderly, Mine, Made
  <2>3. \A m \in Tails : AclFor(s, m) # NoValue
    BY AclType DEF IInv
  <2>4. contractOnly(s) = {run[s].id}
    BY DEF contractOnly
  <2>5. \A m \in Tails : Reaches(AclFor(s, m).readers)
    BY <2>4 DEF AclFor, Readers, Reaches
  <2>6. \A m \in {"spent", "dispatched"} : Reaches(AclFor(s, m).writers)
    BY <2>4 DEF AclFor, Writers, Reaches
  <2>7. ASSUME CutShort = {}, \A r \in Runs : run[r].at \in {"idle"} \cup Ended
        PROVE  seeded.credential => sealed
    <3>1. ~\E o \in Setups \cap HasKey : o \in Faulty \/ run[o].at \in Seeding \cup {"killed"}
      BY <2>7 DEF CutShort, Seeding, Ended, Runs
    <3> QED
      BY <2>2, <3>1 DEF Orderly, KeyIsThere
  <2> QED
    BY <2>2, <2>3, <2>5, <2>6, <2>7 DEF Serves, Tails
<1> QED
  BY <1>1, <1>2, <1>3, Initially, PTL DEF SetupSpec
=============================================================================
