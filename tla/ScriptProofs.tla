---------------------------- MODULE ScriptProofs ----------------------------
(***************************************************************************)
(* The scripts that stand beside the agent: promoting a build, auditing    *)
(* the node's ledger, reading a reputation, publishing an identity.  They  *)
(* share no state; each specification has its own inductive invariant.     *)
(*                                                                         *)
(* PromInv: a probe whose registration was accepted calls the present      *)
(* build, so what it calls safe runs.                                      *)
(* AuditInv: what was read is the newest numbers down to where the next    *)
(* page begins, and the rows that were given are none of them newer.       *)
(* RepInv: of a client that is done with every entry was read once, of one *)
(* to come none, and what was there at the start is there still.           *)
(***************************************************************************)
EXTENDS Promotion, AuditPaging, Reputation, Publication, FiniteSetTheorems, SequenceTheorems, TLAPS

-----------------------------------------------------------------------------
(* Promotion                                                               *)

Scripts == [at : {"idle", "reading", "registering", "calling"}, version : Nat,
            wasm : Builds \cup {NoBuild}, probed : BOOLEAN, call : Nat, failed : Nat]

Registered == [version : Nat, wasm : Builds, probed : BOOLEAN]

\* A script that has read the file has the present build.
ScriptSound(x, build) ==
    /\ x \in Scripts
    /\ x.at # "calling" => x.call = 0 /\ x.failed = 0
    /\ x.at \in {"registering", "calling"} => x.wasm = build

\* A probe whose registration was accepted calls the present build; calls of
\* its that all succeeded, a verdict it gave, and a setup that rests on such a
\* verdict each mean that this build can run.
PromInv ==
    /\ wasm \in Builds /\ version \in Nat /\ safe \subseteq BOOLEAN
    /\ tails = [t \in {"probe", "gate"} |-> tails[t]]
    /\ \A t \in {"probe", "gate"} : tails[t] \in Seq(Registered)
    /\ ScriptSound(probe, wasm) /\ ScriptSound(setup, wasm)
    /\ probe.at = "reading" => ~probe.probed
    /\ probe.at = "registering" => ~probe.probed
    /\ (probe.at = "calling" /\ probe.probed) => Latest("probe") = wasm
    /\ (probe.at = "calling" /\ probe.probed /\ probe.call > 0 /\ probe.failed = 0) =>
          wasm \in Runnable
    /\ TRUE \in safe => wasm \in Runnable
    /\ (setup.at # "idle" /\ setup.probed) => wasm \in Runnable
    /\ PromotedWasProbed

\* No script has run at first.
LEMMA PromStart == ASSUME PromInit PROVE PromInv
<1>1. wasm \in Builds /\ wasm \in Runnable /\ version = 0 /\ safe = {}
  BY BuildsAssumption DEF PromInit
<1> DEFINE first == [version |-> 0, wasm |-> wasm, probed |-> TRUE]
<1>2. \A t \in {"probe", "gate"} : tails[t] = <<first>>
  BY DEF PromInit
<1>3. first \in Registered /\ first.wasm = wasm
  BY <1>1 DEF Registered
<1> HIDE DEF first
<1>4. <<first>> \in Seq(Registered) /\ <<first>>[Len(<<first>>)] = first
  BY <1>3
<1>5. Idle \in Scripts /\ Idle.at = "idle" /\ Idle.call = 0 /\ Idle.failed = 0
  BY DEF Idle, Scripts
<1>6. PromotedWasProbed
  BY <1>1, <1>2, <1>3, <1>4 DEF PromotedWasProbed
<1>7. ScriptSound(probe, wasm) /\ ScriptSound(setup, wasm) /\ probe.at = "idle" /\ setup.at = "idle"
  BY <1>5 DEF PromInit, ScriptSound
<1>8. /\ tails = [t \in {"probe", "gate"} |-> tails[t]]
      /\ \A t \in {"probe", "gate"} : tails[t] \in Seq(Registered)
  BY <1>2, <1>4 DEF PromInit
<1> QED
  BY <1>1, <1>6, <1>7, <1>8 DEF PromInv

\* A build or a version nobody has probed has no verdict.
LEMMA NewVersion ==
    ASSUME PromInv, (\E b \in Builds : Build(b)) \/ Bump
    PROVE  PromInv'
<1>1. /\ wasm' \in Builds /\ version' \in Nat /\ safe' = {}
      /\ UNCHANGED <<tails, probe, setup>> /\ probe.at = "idle" /\ setup.at = "idle"
  BY DEF PromInv, Build, Bump, Quiet
<1>2. ScriptSound(probe, wasm') /\ ScriptSound(setup, wasm')
  BY <1>1 DEF PromInv, ScriptSound
<1> QED
  BY <1>1, <1>2 DEF PromInv, PromotedWasProbed

\* What is accepted is the last of its tail; the other tail is left alone.
LEMMA AcceptedIsLatest ==
    ASSUME PromInv, NEW t \in {"probe", "gate"}, NEW x, ScriptSound(x, wasm),
           x.at = "registering", Accepted(t, x)
    PROVE  /\ tails' = [u \in {"probe", "gate"} |-> tails'[u]]
           /\ \A u \in {"probe", "gate"} : tails'[u] \in Seq(Registered)
           /\ \A u \in {"probe", "gate"} : u # t => tails'[u] = tails[u]
           /\ tails'[t][Len(tails'[t])] = [version |-> x.version, wasm |-> wasm, probed |-> x.probed]
<1> DEFINE new == [version |-> x.version, wasm |-> x.wasm, probed |-> x.probed]
           s == tails[t]
           r == Append(s, new)
<1>1. s \in Seq(Registered) /\ wasm \in Builds
  BY DEF PromInv
<1>2. new \in Registered /\ new = [version |-> x.version, wasm |-> wasm, probed |-> x.probed]
  BY <1>1 DEF ScriptSound, Scripts, Registered
<1>3. tails' = [tails EXCEPT ![t] = r]
  BY DEF Accepted
<1> HIDE DEF new, s
<1>4. r \in Seq(Registered) /\ r[Len(r)] = new
  BY <1>1, <1>2, AppendProperties
<1> HIDE DEF r
<1> QED
  BY <1>2, <1>3, <1>4 DEF PromInv

\* The script that probes a build keeps PromInv.
LEMMA ProbeMoves ==
    ASSUME PromInv, ProbeStarts \/ ProbeStep PROVE PromInv'
<1>1. /\ wasm \in Builds /\ version \in Nat /\ probe \in Scripts
      /\ ScriptSound(probe, wasm) /\ UNCHANGED <<wasm, version, setup>>
  BY DEF PromInv, ScriptSound, ProbeStarts, ProbeStep, ProbeReads, ProbeRegisters, ProbeCalls, ProbeEnds
<1>2. CASE ProbeStarts
  <2>1. ScriptSound(probe', wasm) /\ probe'.at = "reading" /\ ~probe'.probed
    BY <1>1, <1>2 DEF ProbeStarts, Started, Idle, ScriptSound, Scripts
  <2> QED
    BY <1>1, <1>2, <2>1 DEF ProbeStarts, PromInv, Latest, PromotedWasProbed
<1>3. CASE ProbeReads
  <2>1. ScriptSound(probe', wasm) /\ probe'.at = "registering" /\ ~probe'.probed
    BY <1>1, <1>3 DEF ProbeReads, ScriptSound, Scripts, PromInv
  <2> QED
    BY <1>1, <1>3, <2>1 DEF ProbeReads, PromInv, Latest, PromotedWasProbed
<1>4. CASE ProbeRegisters
  <2>1. probe.at = "registering" /\ UNCHANGED safe /\ probe.call = 0 /\ ~probe.probed
    BY <1>1, <1>4 DEF ProbeRegisters, PromInv, ScriptSound
  <2>2. CASE Accepted("probe", probe) /\ probe' = [probe EXCEPT !.at = "calling", !.probed = TRUE]
    <3>1. /\ tails' = [u \in {"probe", "gate"} |-> tails'[u]]
          /\ \A u \in {"probe", "gate"} : tails'[u] \in Seq(Registered)
          /\ tails'["gate"] = tails["gate"]
          /\ tails'["probe"][Len(tails'["probe"])] =
               [version |-> probe.version, wasm |-> wasm, probed |-> probe.probed]
      BY <1>1, <2>1, <2>2, AcceptedIsLatest
    <3>2. /\ ScriptSound(probe', wasm) /\ probe'.at = "calling"
          /\ probe'.at # "reading" /\ probe'.at # "registering" /\ ~(probe'.call > 0)
      <4>1. probe' \in Scripts /\ probe'.at = "calling" /\ probe'.wasm = wasm /\ probe'.call = 0
        BY <1>1, <2>1, <2>2 DEF ScriptSound, Scripts
      <4> QED
        BY <4>1 DEF ScriptSound
    <3>3. PromotedWasProbed' /\ Latest("probe")' = wasm
      BY <3>1 DEF PromInv, PromotedWasProbed, Latest
    <3>4. /\ tails' = [t \in {"probe", "gate"} |-> tails'[t]]
          /\ \A t \in {"probe", "gate"} : tails'[t] \in Seq(Registered)
      BY <3>1
    <3>5. UNCHANGED <<wasm, version, setup, safe>>
      BY <1>1, <2>1
    <3> QED
      BY <3>2, <3>3, <3>4, <3>5, Zenon DEF PromInv
  <2>3. CASE UNCHANGED tails /\ probe' = [probe EXCEPT !.at = "calling"]
    <3>1. ScriptSound(probe', wasm) /\ probe'.call = 0 /\ probe'.at = "calling" /\ ~probe'.probed
      BY <1>1, <2>1, <2>3 DEF ScriptSound, Scripts
    <3>2. PromotedWasProbed'
      BY <2>3 DEF PromInv, PromotedWasProbed
    <3> QED
      BY <1>1, <2>1, <2>3, <3>1, <3>2 DEF PromInv
  <2> QED
    BY <1>4, <2>2, <2>3 DEF ProbeRegisters, Refused
<1>5. CASE ProbeCalls
  <2>1. PICK failed \in {Broken("probe"), Failing \/ Broken("probe")} :
           probe' = [probe EXCEPT !.call = @ + 1, !.failed = IF failed THEN @ + 1 ELSE @]
    BY <1>5 DEF ProbeCalls
  <2>2. UNCHANGED <<tails, safe>> /\ probe.at = "calling"
    BY <1>5 DEF ProbeCalls
  <2>3. (~failed /\ probe.probed) => wasm \in Runnable
    BY <2>1, <2>2 DEF Broken, PromInv
  <2> DEFINE m == probe.call + 1
             n == IF failed THEN probe.failed + 1 ELSE probe.failed
  <2>4. /\ ScriptSound(probe', wasm) /\ probe'.at = "calling"
        /\ probe'.failed = n /\ probe'.probed = probe.probed
    <3>1. m \in Nat /\ n \in Nat /\ probe' = [probe EXCEPT !.call = m, !.failed = n]
      BY <1>1, <2>1 DEF Scripts
    <3> HIDE DEF m, n
    <3> QED
      BY <1>1, <2>2, <3>1 DEF ScriptSound, Scripts
  <2>5. (probe'.failed = 0 /\ probe.probed) => wasm \in Runnable
    BY <1>1, <2>3, <2>4 DEF Scripts
  <2> QED
    BY <1>1, <2>2, <2>4, <2>5 DEF PromInv, Latest, PromotedWasProbed
<1>6. CASE ProbeEnds
  <2>1. /\ probe.at = "calling" /\ probe.call = Probes /\ UNCHANGED tails
        /\ probe' = Idle /\ safe' = IF probe.failed = 0 THEN safe \cup {probe.probed} ELSE safe
    BY <1>6 DEF ProbeEnds
  <2>2. ScriptSound(probe', wasm) /\ probe'.at = "idle"
    BY <2>1 DEF Idle, ScriptSound, Scripts
  <2>3. (probe.failed = 0 /\ probe.probed) => wasm \in Runnable
    BY <2>1, BoundsAssumption DEF PromInv
  <2>4. safe' \subseteq BOOLEAN /\ (TRUE \in safe' => wasm \in Runnable)
    BY <1>1, <2>1, <2>3 DEF PromInv, Scripts
  <2> QED
    BY <1>1, <2>1, <2>2, <2>4 DEF PromInv, Latest, PromotedWasProbed
<1> QED
  BY <1>2, <1>3, <1>4, <1>5, <1>6 DEF ProbeStep

\* The setup script, which registers what was probed, keeps PromInv.
LEMMA SetupMoves ==
    ASSUME PromInv, SetupStarts \/ SetupStep PROVE PromInv'
<1>1. /\ wasm \in Builds /\ version \in Nat /\ setup \in Scripts
      /\ ScriptSound(setup, wasm) /\ UNCHANGED <<wasm, version, probe, safe>>
  BY DEF PromInv, ScriptSound, SetupStarts, SetupStep, SetupReads, SetupRegisters
<1>2. CASE SetupStarts
  <2> DEFINE verdict == TRUE \in safe
  <2>1. setup' = [Started EXCEPT !.probed = verdict] /\ verdict \in BOOLEAN /\ UNCHANGED tails
    BY <1>2 DEF SetupStarts
  <2>2. verdict => wasm \in Runnable
    BY DEF PromInv
  <2> HIDE DEF verdict
  <2>3. ScriptSound(setup', wasm) /\ setup'.probed = verdict
    BY <1>1, <2>1 DEF Started, Idle, ScriptSound, Scripts
  <2> QED
    BY <1>1, <2>1, <2>2, <2>3 DEF PromInv, Latest, PromotedWasProbed
<1>3. CASE SetupReads
  <2>1. ScriptSound(setup', wasm) /\ setup'.probed = setup.probed /\ setup.at # "idle"
    BY <1>1, <1>3 DEF SetupReads, ScriptSound, Scripts
  <2> QED
    BY <1>1, <1>3, <2>1 DEF SetupReads, PromInv, Latest, PromotedWasProbed
<1>4. CASE SetupRegisters
  <2>1. setup.at = "registering" /\ setup' = Idle /\ (setup.probed => wasm \in Runnable)
    BY <1>4 DEF SetupRegisters, PromInv
  <2>2. ScriptSound(setup', wasm) /\ setup'.at = "idle"
    BY <2>1 DEF Idle, ScriptSound, Scripts
  <2>3. CASE Accepted("gate", setup)
    <3>1. /\ tails' = [u \in {"probe", "gate"} |-> tails'[u]]
          /\ \A u \in {"probe", "gate"} : tails'[u] \in Seq(Registered)
          /\ tails'["probe"] = tails["probe"]
          /\ tails'["gate"][Len(tails'["gate"])] =
               [version |-> setup.version, wasm |-> wasm, probed |-> setup.probed]
      BY <1>1, <2>1, <2>3, AcceptedIsLatest
    <3>2. PromotedWasProbed'
      BY <1>1, <2>1, <3>1 DEF PromotedWasProbed
    <3> QED
      BY <1>1, <2>2, <3>1, <3>2 DEF PromInv, Latest
  <2>4. CASE UNCHANGED tails
    BY <1>1, <2>2, <2>4 DEF PromInv, Latest, PromotedWasProbed
  <2> QED
    BY <1>4, <2>3, <2>4 DEF SetupRegisters, Refused
<1> QED
  BY <1>2, <1>3, <1>4 DEF SetupStep

\* For any number of builds and versions, and however often a registration or a
\* call fails: what setup put into production the node can run, unless it rests
\* on a probe that was refused and called another build.
THEOREM PromotedWasProbedHolds == PromSpec => []PromotedWasProbed
<1>1. PromInit => PromInv
  BY PromStart
<1>2. ASSUME PromInv, [PromNext]_promVars PROVE PromInv'
  <2>1. CASE UNCHANGED promVars
    BY <1>2, <2>1 DEF promVars, PromInv, Latest, PromotedWasProbed
  <2> QED
    BY <1>2, <2>1, NewVersion, ProbeMoves, SetupMoves DEF PromNext
<1>3. PromInv => PromotedWasProbed
  BY DEF PromInv
<1> QED
  BY <1>1, <1>2, <1>3, PTL DEF PromSpec

-----------------------------------------------------------------------------
(* Audit                                                                   *)

CallOutcomes == {"success", "error"}

Readers == [at : {"idle", "reading", "done"}, entries : Seq(Nat),
            before : Nat \cup {NoSeq}, rows : SUBSET Nat]

\* Numbers that go down one by one, all of a ledger of n entries.
Gapless(e, n) == \A i \in 1 .. Len(e) : e[i] = e[1] + 1 - i /\ e[i] < n

\* A reading under way will continue below its last number; one that is done
\* has all it was asked for or has come to entry 0.  The rows that were given
\* are not newer than the first number read.
ReaderSound(r, n) ==
    /\ r \in Readers
    /\ Gapless(r.entries, n)
    /\ Len(r.entries) <= Limit
    /\ r.entries = <<>> =>
          r.before = NoSeq /\ (r.at = "done" => r.rows = {})
    /\ r.entries # <<>> =>
          /\ r.rows \subseteq 0 .. r.entries[1]
          /\ r.at # "idle"
          /\ r.at = "reading" => r.before = r.entries[Len(r.entries)] /\ r.before # 0
          /\ r.at = "done" => Len(r.entries) = Limit \/ r.entries[Len(r.entries)] = 0

\* What is claimed has succeeded, and so have the rows that were given.
ClaimsSound(l, c, rows) ==
    /\ l \in Seq(CallOutcomes)
    /\ c \subseteq 0 .. Len(l) - 1
    /\ \A k \in c : l[k + 1] = "success"
    /\ rows \subseteq c

AuditInv == ReaderSound(reader, Len(ledger)) /\ ClaimsSound(ledger, claimed, reader.rows)

\* Nothing is read at first.
LEMMA AuditStart == ASSUME AuditInit PROVE AuditInv
<1>1. <<>> \in Seq(Nat) /\ Len(<<>>) = 0 /\ <<>> \in Seq(CallOutcomes)
  OBVIOUS
<1> QED
  BY <1>1, LimitsAssumption DEF AuditInit, AuditInv, ReaderSound, ClaimsSound, Readers, Gapless

\* The ledger only grows, and what it said it goes on saying.
LEMMA CallsKeep == ASSUME AuditInv, CallSucceeds \/ CallErrs PROVE AuditInv'
<1> DEFINE n == Len(ledger)
<1>1. PICK o \in CallOutcomes :
         /\ ledger' = Append(ledger, o) /\ reader' = reader
         /\ claimed' = claimed \/ (o = "success" /\ claimed' = claimed \cup {n})
  BY DEF CallSucceeds, CallErrs, CallOutcomes
<1>2. ledger \in Seq(CallOutcomes) /\ n \in Nat
  BY DEF AuditInv, ClaimsSound
<1>3. /\ ledger' \in Seq(CallOutcomes) /\ Len(ledger') = n + 1
      /\ \A i \in 1 .. n : ledger'[i] = ledger[i]
      /\ ledger'[n + 1] = o
  BY <1>1, <1>2, AppendProperties
<1>4. ReaderSound(reader, n) /\ ClaimsSound(ledger, claimed, reader.rows)
  BY DEF AuditInv
<1>5. ReaderSound(reader, Len(ledger'))
  <2>1. \A i \in 1 .. Len(reader.entries) : reader.entries[i] \in Nat
    BY <1>4, ElementOfSeq DEF ReaderSound, Readers
  <2>2. Gapless(reader.entries, n + 1)
    BY <1>2, <1>4, <2>1 DEF ReaderSound, Gapless
  <2> QED
    BY <1>3, <1>4, <2>2 DEF ReaderSound
<1>6. ClaimsSound(ledger', claimed', reader.rows)
  <2>1. claimed \subseteq 0 .. n - 1 /\ reader.rows \subseteq claimed
    BY <1>4 DEF ClaimsSound
  <2>2. claimed' \subseteq 0 .. Len(ledger') - 1 /\ reader.rows \subseteq claimed'
    <3>1. Len(ledger') - 1 = n
      BY <1>2, <1>3
    <3>2. 0 .. n - 1 \subseteq 0 .. n /\ n \in 0 .. n
      BY <1>2
    <3> QED
      BY <1>1, <2>1, <3>1, <3>2
  <2>3. ASSUME NEW k \in claimed' PROVE ledger'[k + 1] = "success"
    <3>1. CASE k \in claimed
      <4>1. k + 1 \in 1 .. n /\ ledger[k + 1] = "success"
        BY <1>2, <1>4, <2>1, <3>1 DEF ClaimsSound
      <4> QED
        BY <1>3, <4>1
    <3>2. CASE k = n /\ o = "success"
      BY <1>3, <3>2
    <3> QED
      BY <1>1, <3>1, <3>2
  <2> QED
    BY <1>3, <2>2, <2>3 DEF ClaimsSound
<1> QED
  BY <1>1, <1>5, <1>6 DEF AuditInv

Below(p, last) == p \in Seq(Nat) /\ Len(p) <= last /\ \A i \in 1 .. Len(p) : p[i] = last - i

\* A page of at most `limit` entries that begins below `last`.
PageIs(page, limit, last) ==
    /\ Below(page.entries, last)
    /\ Len(page.entries) <= limit /\ (Len(page.entries) = 0 <=> last = 0)
    /\ page.next_seq = IF last - Len(page.entries) > 0 THEN last - Len(page.entries) ELSE NoSeq

\* A page holds the numbers below `last` that fit, at least one when there are any.
LEMMA PageServed ==
    ASSUME NEW limit \in Nat \ {0}, NEW held \in Nat \ {0}, NEW before,
           NEW last \in Nat, last = IF before = NoSeq THEN Len(ledger) ELSE before
    PROVE  PageIs(Page(limit, before, held), limit, last)
<1> DEFINE size == SmallerOf(last, SmallerOf(limit, held))
           es == Down(last - 1, last - size)
<1>1. size \in Nat /\ size <= last /\ size <= limit /\ (size = 0 <=> last = 0)
  BY DEF SmallerOf
<1>2. /\ Page(limit, before, held).entries = es
      /\ Page(limit, before, held).next_seq =
            IF last - size > 0 /\ size > 0 THEN last - size ELSE NoSeq
  BY DEF Page
<1> HIDE DEF size
<1>3. es = [i \in 1 .. size |-> last - i]
  <2>1. (last - 1) - (last - size) + 1 = size /\ \A i \in 1 .. size : (last - 1) + 1 - i = last - i
    BY <1>1
  <2> QED
    BY <2>1 DEF Down
<1>4. es \in Seq(Nat) /\ Len(es) = size /\ \A i \in 1 .. size : es[i] = last - i
  <2>1. \A i \in 1 .. size : last - i \in Nat
    BY <1>1
  <2>2. es \in [1 .. size -> Nat]
    BY <1>3, <2>1
  <2>3. es \in Seq(Nat) /\ DOMAIN es = 1 .. size
    BY <1>1, <2>2
  <2> HIDE DEF es
  <2>4. Len(es) = size
    BY <1>1, <2>3, LenProperties
  <2> QED
    BY <1>3, <2>3, <2>4
<1> HIDE DEF es
<1> QED
  BY <1>1, <1>2, <1>4 DEF PageIs, Below

Continued(r, e, p, n, last) ==
    /\ r \in Seq(Nat) /\ Len(r) = Len(e) + Len(p)
    /\ Gapless(r, n)
    /\ e # <<>> => r[1] = e[1]
    /\ e = <<>> /\ p # <<>> => r[1] = n - 1
    /\ p # <<>> => r[Len(e) + Len(p)] = last - Len(p)

\* Arithmetic of a reading that counts down from its newest row.
LEMMA CountingDown ==
    ASSUME NEW a \in Int, NEW m \in Int, NEW j \in Nat, NEW n \in Int, a + 1 - m < n
    PROVE  (a + 1 - m) - j = a + 1 - (m + j) /\ (a + 1 - m) - j < n
OBVIOUS

\* A page that begins below the last number read continues the reading.
LEMMA PageContinues ==
    ASSUME NEW n \in Nat, NEW e \in Seq(Nat), Gapless(e, n),
           NEW last \in Nat, last = IF e = <<>> THEN n ELSE e[Len(e)],
           NEW p, Below(p, last)
    PROVE  Continued(e \o p, e, p, n, last)
<1> DEFINE r == e \o p
           m == Len(e)
           k == Len(p)
<1>1. m \in Nat /\ k \in Nat /\ p \in Seq(Nat)
  BY DEF Below
<1>2. /\ r \in Seq(Nat) /\ Len(r) = m + k
      /\ \A i \in 1 .. m + k : r[i] = IF i <= m THEN e[i] ELSE p[i - m]
  BY <1>1, ConcatProperties
<1>3. (e = <<>> <=> m = 0) /\ (p = <<>> <=> k = 0)
  BY <1>1, EmptySeq
<1>4. \A i \in 1 .. m : e[i] \in Nat
  BY ElementOfSeq
<1> HIDE DEF r, m, k
<1>5. \A i \in 1 .. m : e[i] = e[1] + 1 - i /\ e[i] < n
  BY DEF Gapless, m
<1>6. \A i \in 1 .. k : p[i] = last - i /\ k <= last
  BY DEF k, Below
<1>7. CASE m = 0
  <2>1. last = n
    BY <1>3, <1>7
  <2>2. \A i \in 1 .. k : r[i] = n - i
    <3> TAKE i \in 1 .. k
    <3>1. i \in 1 .. m + k /\ ~(i <= m) /\ i - m = i
      BY <1>1, <1>7
    <3> QED
      BY <1>2, <1>6, <2>1, <3>1
  <2>3. Len(r) = k
    BY <1>1, <1>2, <1>7
  <2>4. k # 0 => r[1] = n - 1 /\ r[k] = n - k
    <3>1. k # 0 => 1 \in 1 .. k /\ k \in 1 .. k
      BY <1>1
    <3> QED
      BY <2>2, <3>1
  <2>5. Gapless(r, n)
    <3>1. ASSUME NEW i \in 1 .. k PROVE r[i] = r[1] + 1 - i /\ r[i] < n
      <4>1. k # 0 /\ r[i] = n - i /\ r[1] = n - 1
        BY <1>1, <2>2, <2>4
      <4> QED
        BY <1>1, <4>1
    <3> QED
      BY <2>3, <3>1 DEF Gapless
  <2>6. m + k = k
    BY <1>1, <1>7
  <2> QED
    BY <1>2, <1>3, <1>7, <2>1, <2>4, <2>5, <2>6 DEF Continued, r, m, k
<1>8. CASE m # 0
  <2>1. last = e[m] /\ e[1] \in Nat /\ last = e[1] + 1 - m /\ r[1] = e[1]
    <3>1. m \in 1 .. m /\ 1 \in 1 .. m /\ 1 \in 1 .. m + k /\ 1 <= m
      BY <1>1, <1>8
    <3> QED
      BY <1>2, <1>3, <1>4, <1>5, <1>8, <3>1 DEF m
  <2>2. last < n
    BY <1>1, <1>5, <1>8, <2>1
  <2>3. ASSUME NEW i \in 1 .. m + k PROVE r[i] = r[1] + 1 - i /\ r[i] < n
    <3>1. CASE i <= m
      <4>1. i \in 1 .. m
        BY <1>1, <3>1
      <4> QED
        BY <1>2, <1>5, <2>1, <3>1, <4>1
    <3>2. CASE ~(i <= m)
      <4>1. PICK j \in 1 .. k : j = i - m
        BY <1>1, <3>2
      <4>2. r[i] = last - j
        BY <1>2, <1>6, <3>2, <4>1
      <4>3. PICK a \in Nat : a = e[1]
        BY <2>1
      <4>4. last = a + 1 - m /\ i = m + j /\ r[1] = a
        BY <1>1, <2>1, <4>1, <4>3
      <4>5. last - j = a + 1 - i /\ last - j < n
        <5>1. a \in Int /\ m \in Int /\ j \in Nat /\ n \in Int /\ a + 1 - m < n
          BY <1>1, <2>2, <4>4
        <5>2. (a + 1 - m) - j = a + 1 - (m + j) /\ (a + 1 - m) - j < n
          BY <5>1, CountingDown
        <5> QED
          BY <4>4, <5>2, Zenon
      <4> QED
        BY <4>2, <4>4, <4>5
    <3> QED
      BY <3>1, <3>2
  <2>4. k # 0 => r[m + k] = last - k
    <3>1. HAVE k # 0
    <3>2. m + k \in 1 .. m + k /\ ~(m + k <= m) /\ (m + k) - m = k /\ k \in 1 .. k
      BY <1>1, <3>1
    <3> QED
      BY <1>2, <1>6, <3>2
  <2>5. Gapless(r, n)
    BY <1>2, <2>3 DEF Gapless
  <2> QED
    BY <1>2, <1>3, <1>8, <2>1, <2>4, <2>5 DEF Continued, r, m, k
<1> QED
  BY <1>7, <1>8

\* A page that is read keeps AuditInv: it goes on where the last one ended.
LEMMA PagesKeep == ASSUME AuditInv, ReadsPage PROVE AuditInv'
<1> DEFINE n == Len(ledger)
           e == reader.entries
<1>1. ledger \in Seq(CallOutcomes) /\ n \in Nat /\ ClaimsSound(ledger, claimed, reader.rows)
  BY DEF AuditInv, ClaimsSound
<1>2. /\ ReaderSound(reader, n) /\ reader \in Readers /\ e \in Seq(Nat) /\ Gapless(e, n)
      /\ Len(e) \in Nat
  BY DEF AuditInv, ReaderSound, Readers
<1>3. reader.at = "reading" /\ Len(e) < Limit
  BY DEF ReadsPage
<1>4. PICK held \in {PageCap, PageSize} :
         reader' = [reader EXCEPT !.entries = @ \o Page(Asked, Before, held).entries,
                                  !.before = Page(Asked, Before, held).next_seq,
                                  !.at = IF Page(Asked, Before, held).next_seq = NoSeq
                                         THEN "done" ELSE "reading"]
  BY DEF ReadsPage
<1>5. UNCHANGED <<ledger, claimed>>
  BY DEF ReadsPage
<1>6. Asked \in Nat \ {0} /\ Asked <= Limit - Len(e) /\ held \in Nat \ {0}
  <2> DEFINE left == Limit - Len(e)
  <2>1. left \in Nat \ {0}
    BY <1>2, <1>3, LimitsAssumption
  <2>2. Asked = IF PageSize < left THEN PageSize ELSE left
    BY DEF Asked, SmallerOf
  <2> HIDE DEF left
  <2>3. Asked \in Nat \ {0} /\ Asked <= left
    BY <2>1, <2>2, LimitsAssumption
  <2>4. held \in Nat \ {0}
    BY LimitsAssumption
  <2> QED
    BY <2>3, <2>4 DEF left
<1> DEFINE last == IF e = <<>> THEN n ELSE e[Len(e)]
<1>7. last \in Nat /\ last = IF Before = NoSeq THEN n ELSE Before
  <2>1. CASE e = <<>>
    BY <1>1, <1>2, <2>1, LimitsAssumption DEF ReaderSound, Before
  <2>2. CASE e # <<>>
    <3>1. Len(e) \in 1 .. Len(e)
      BY <1>2, <2>2, EmptySeq
    <3>2. e[Len(e)] \in Nat
      BY <1>2, <3>1, ElementOfSeq
    <3>3. reader.before = e[Len(e)] /\ reader.before # 0
      BY <1>2, <1>3, <2>2 DEF ReaderSound
    <3> QED
      BY <2>2, <3>2, <3>3, LimitsAssumption DEF Before
  <2> QED
    BY <2>1, <2>2
<1> DEFINE p == Page(Asked, Before, held).entries
           next == Page(Asked, Before, held).next_seq
<1> HIDE DEF n, e, last
<1> DEFINE size == Len(p)
<1>8. /\ size \in Nat /\ size <= last /\ size <= Asked /\ (size = 0 <=> last = 0)
      /\ Below(p, last) /\ p \in Seq(Nat)
      /\ next = IF last - size > 0 THEN last - size ELSE NoSeq
  <2>1. PageIs(Page(Asked, Before, held), Asked, last)
    <3>1. last = IF Before = NoSeq THEN Len(ledger) ELSE Before
      BY <1>7 DEF n
    <3> QED
      BY <1>6, <1>7, <3>1, PageServed
  <2> QED
    BY <2>1 DEF PageIs, Below
<1> DEFINE r == e \o p
           at == IF next = NoSeq THEN "done" ELSE "reading"
<1>9. reader' = [reader EXCEPT !.entries = r, !.before = next, !.at = at]
  BY <1>4 DEF e
<1> HIDE DEF p, next, size
<1>10. /\ r \in Seq(Nat) /\ Len(r) = Len(e) + size
       /\ Gapless(r, n)
       /\ e # <<>> => r[1] = e[1]
       /\ e = <<>> /\ p # <<>> => r[1] = n - 1
       /\ p # <<>> => r[Len(e) + size] = last - size
  <2>1. e \in Seq(Nat) /\ n \in Nat /\ Gapless(e, n)
    BY <1>1, <1>2 DEF e, n
  <2>2. last = IF e = <<>> THEN n ELSE e[Len(e)]
    BY DEF last
  <2> QED
    <3>1. Continued(r, e, p, n, last)
      BY <1>7, <1>8, <2>1, <2>2, PageContinues
    <3> QED
      BY <3>1 DEF Continued, size
<1>11. next \in Nat \cup {NoSeq} /\ (next = NoSeq <=> last = size) /\ (next # NoSeq => next = last - size /\ next # 0)
  BY <1>7, <1>8, LimitsAssumption
<1>12. (p = <<>> <=> size = 0) /\ (r = <<>> <=> Len(r) = 0) /\ (e = <<>> <=> Len(e) = 0)
  BY <1>2, <1>8, <1>10, EmptySeq
<1>13. Len(r) <= Limit
  BY <1>2, <1>6, <1>8, <1>10, LimitsAssumption DEF e
<1>14. at \in {"done", "reading"} /\ (at = "done" <=> last = size)
  BY <1>11
<1> HIDE DEF r, at
<1>15. /\ reader' \in Readers /\ reader'.entries = r /\ reader'.before = next
       /\ reader'.at = at /\ reader'.rows = reader.rows
  BY <1>2, <1>9, <1>10, <1>11, <1>14 DEF Readers
<1>16. reader.rows \subseteq 0 .. n - 1
  BY <1>1 DEF ClaimsSound, n
<1>17. ASSUME r = <<>> PROVE next = NoSeq /\ reader.rows = {}
  <2>1. size = 0 /\ Len(e) = 0 /\ e = <<>>
    BY <1>2, <1>8, <1>10, <1>12, <1>17 DEF e
  <2>2. last = 0 /\ n = 0
    BY <1>8, <2>1 DEF last
  <2> QED
    BY <1>11, <1>16, <2>1, <2>2
<1>18. ASSUME r # <<>>
       PROVE  /\ reader.rows \subseteq 0 .. r[1]
              /\ at = "reading" => next = r[Len(r)] /\ next # 0
              /\ at = "done" => r[Len(r)] = 0
  <2>1. reader.rows \subseteq 0 .. r[1]
    <3>1. CASE e = <<>>
      <4>1. p # <<>>
        BY <1>2, <1>10, <1>12, <1>18, <3>1
      <4> QED
        BY <1>10, <1>16, <3>1, <4>1
    <3>2. CASE e # <<>>
      BY <1>2, <1>10, <3>2 DEF ReaderSound, e
    <3> QED
      BY <3>1, <3>2
  <2>2. p # <<>>
    <3>1. CASE e = <<>>
      BY <1>2, <1>10, <1>12, <1>18, <3>1
    <3>2. CASE e # <<>>
      <4>1. last # 0
        BY <1>2, <1>3, <3>2 DEF ReaderSound, e, last
      <4> QED
        BY <1>8, <1>12, <4>1
    <3> QED
      BY <3>1, <3>2
  <2>3. r[Len(r)] = last - size
    BY <1>10, <2>2
  <2> QED
    BY <1>7, <1>8, <1>11, <1>14, <2>1, <2>3
<1>19. ReaderSound(reader', n)
  BY <1>10, <1>13, <1>14, <1>15, <1>17, <1>18 DEF ReaderSound
<1> QED
  BY <1>1, <1>5, <1>15, <1>19 DEF AuditInv, n

\* So do the first request of a reading and its end.
LEMMA ReaderKeeps == ASSUME AuditInv, ReadStarts \/ ReadEnds PROVE AuditInv'
<1>1. /\ ledger \in Seq(CallOutcomes) /\ Len(ledger) \in Nat
      /\ ClaimsSound(ledger, claimed, reader.rows) /\ ReaderSound(reader, Len(ledger))
      /\ UNCHANGED <<ledger, claimed>>
  BY DEF AuditInv, ClaimsSound, ReadStarts, ReadEnds
<1>2. CASE ReadStarts
  <2>1. claimed \in SUBSET Nat /\ ClaimsSound(ledger, claimed, claimed)
    <3>1. claimed \subseteq 0 .. Len(ledger) - 1 /\ \A k \in claimed : ledger[k + 1] = "success"
      BY <1>1 DEF ClaimsSound
    <3>2. 0 .. Len(ledger) - 1 \subseteq Nat
      BY <1>1
    <3> QED
      BY <1>1, <3>1, <3>2 DEF ClaimsSound
  <2>2. /\ reader' \in Readers /\ reader'.at = "reading" /\ reader'.rows = claimed
        /\ reader'.entries = reader.entries /\ reader'.before = reader.before
    BY <1>1, <1>2, <2>1 DEF ReadStarts, ReaderSound, Readers
  <2>3. reader.entries = <<>>
    BY <1>1, <1>2 DEF ReadStarts, ReaderSound
  <2>4. ReaderSound(reader', Len(ledger))
    BY <1>1, <2>2, <2>3 DEF ReaderSound
  <2> QED
    BY <1>1, <2>1, <2>2, <2>4 DEF AuditInv
<1>3. CASE ReadEnds
  <2>1. /\ reader' \in Readers /\ reader'.at = "done" /\ reader'.rows = reader.rows
        /\ reader'.entries = reader.entries /\ reader'.before = reader.before
    BY <1>1, <1>3 DEF ReadEnds, ReaderSound, Readers
  <2>2. Len(reader.entries) \in Nat /\ (reader.entries = <<>> => Len(reader.entries) = 0)
    BY <1>1 DEF ReaderSound, Readers
  <2>3. Len(reader.entries) = Limit /\ reader.entries # <<>>
    BY <1>1, <1>3, <2>2, LimitsAssumption DEF ReadEnds, ReaderSound
  <2>4. ReaderSound(reader', Len(ledger))
    BY <1>1, <2>1, <2>3 DEF ReaderSound
  <2> QED
    BY <1>1, <2>1, <2>4 DEF AuditInv
<1> QED
  BY <1>2, <1>3

\* The invariant of the audit reader holds in every state.
LEMMA AuditInvHolds == AuditSpec => []AuditInv
<1>1. AuditInit => AuditInv
  BY AuditStart
<1>2. ASSUME AuditInv, [AuditNext]_auditVars PROVE AuditInv'
  <2>1. CASE UNCHANGED auditVars
    BY <1>2, <2>1 DEF auditVars, AuditInv
  <2> QED
    BY <1>2, <2>1, CallsKeep, PagesKeep, ReaderKeeps DEF AuditNext
<1> QED
  BY <1>1, <1>2, PTL DEF AuditSpec

\* The node's numbers are read each once and without a gap, whatever its page
\* size is and however many calls the agent makes between two pages.
THEOREM ReadsEachOnceHolds == AuditSpec => []ReadsEachOnce
<1>1. AuditInv => ReadsEachOnce
  <2> SUFFICES ASSUME AuditInv PROVE ReadsEachOnce
    OBVIOUS
  <2> DEFINE e == reader.entries
  <2>1. e \in Seq(Nat) /\ Gapless(e, Len(ledger)) /\ Len(e) <= Limit
    BY DEF AuditInv, ReaderSound, Readers
  <2> HIDE DEF e
  <2>2. DOMAIN e = 1 .. Len(e) /\ \A i \in 1 .. Len(e) : e[i] \in Nat
    BY <2>1, ElementOfSeq, LenProperties
  <2>3. ASSUME NEW i \in DOMAIN e PROVE e[i] + i = e[1] + 1 /\ e[i] < Len(ledger)
    <3>1. 1 \in 1 .. Len(e) /\ e[1] \in Nat
      BY <2>1, <2>2, LenProperties
    <3> QED
      BY <2>1, <2>2, <3>1 DEF Gapless
  <2> QED
    BY <2>1, <2>3 DEF ReadsEachOnce, e
<1> QED
  BY <1>1, AuditInvHolds, PTL

\* Every row an honest agent claimed is a successful entry that was read.
LEMMA RowsAreRead ==
    ASSUME AuditInv, reader.at = "done", Len(ledger) <= Limit PROVE consistent
<1> DEFINE e == reader.entries
           m == Len(e)
           rows == reader.rows
<1>1. /\ e \in Seq(Nat) /\ m \in Nat /\ Gapless(e, Len(ledger)) /\ Len(ledger) \in Nat
      /\ \A i \in 1 .. m : e[i] \in Nat
  BY ElementOfSeq DEF AuditInv, ReaderSound, Readers, ClaimsSound
<1>2. DOMAIN e = 1 .. m /\ (e = <<>> <=> m = 0)
  BY <1>1, EmptySeq, LenProperties
<1>3. Successful \subseteq 1 .. m
  BY <1>2 DEF Successful
<1>4. IsFiniteSet(Successful) /\ Cardinality(Successful) \in Nat
  <2>1. IsFiniteSet(1 .. m)
    <3>1. 1 \in Int /\ m \in Int
      BY <1>1
    <3> QED
      BY <3>1, FS_Interval, Zenon
  <2>2. IsFiniteSet(Successful)
    BY <1>3, <2>1, FS_Subset
  <2> QED
    BY <2>2, FS_CardinalityType
<1>5. CASE m = 0
  <2>1. rows = {}
    BY <1>2, <1>5 DEF AuditInv, ReaderSound
  <2> QED
    BY <1>4, <2>1, FS_EmptySet DEF consistent
<1>6. CASE m # 0
  <2>1. 1 \in 1 .. m /\ m \in 1 .. m
    BY <1>1, <1>6
  <2>2. /\ rows \subseteq 0 .. e[1] /\ (m = Limit \/ e[m] = 0)
        /\ \A i \in 1 .. m : e[i] = e[1] + 1 - i /\ e[i] < Len(ledger)
    BY <1>1, <1>2, <1>6 DEF AuditInv, ReaderSound, Gapless
  <2>3. e[1] = m - 1
    <3>1. e[1] < Len(ledger) /\ e[1] \in Nat /\ e[m] \in Nat /\ e[m] = e[1] + 1 - m
      BY <1>1, <2>1, <2>2
    <3>2. CASE m = Limit
      BY SMTT(30), <1>1, <3>1, <3>2
    <3>3. CASE e[m] = 0
      BY <1>1, <3>1, <3>3
    <3> QED
      BY <2>2, <3>2, <3>3
  <2>4. ASSUME NEW k \in rows PROVE m - k \in Successful
    <3>1. k \in 0 .. m - 1 /\ m - k \in 1 .. m
      BY <1>1, <2>2, <2>3
    <3>2. e[m - k] = k
      <4>1. PICK i \in 1 .. m : i = m - k /\ k \in Nat
        BY <3>1
      <4>2. e[i] = e[1] + 1 - i
        BY <2>2
      <4>3. \A a, b \in Nat : (a - 1) + 1 - (a - b) = b
        OBVIOUS
      <4>4. (m - 1) + 1 - (m - k) = k
        BY <1>1, <4>1, <4>3
      <4> QED
        BY <2>3, <4>1, <4>2, <4>4
    <3>3. ledger[k + 1] = "success"
      BY DEF AuditInv, ClaimsSound
    <3> QED
      BY <1>2, <3>1, <3>2, <3>3 DEF Successful
  <2> DEFINE f == [k \in rows |-> m - k]
  <2>5. f \in Injection(rows, Successful)
    <3>1. f \in [rows -> Successful]
      BY <2>4
    <3>2. \A a, b \in rows : f[a] = f[b] => a = b
      BY <1>1, <2>2, <2>3
    <3> QED
      BY <3>1, <3>2 DEF Injection, IsInjective
  <2>6. IsFiniteSet(rows) /\ Cardinality(rows) <= Cardinality(Successful)
    <3> HIDE DEF f
    <3> QED
      BY <1>4, <2>5, FS_Injection
  <2> QED
    BY <1>4, <2>6, FS_CardinalityType DEF consistent
<1> QED
  BY <1>5, <1>6

\* An agent that claims only calls that succeeded is found consistent, however
\* the node cuts its pages, while its ledger fits into what is read.
THEOREM HonestIsConsistentHolds == AuditSpec => []HonestIsConsistent
<1>1. AuditInv => HonestIsConsistent
  BY RowsAreRead DEF HonestIsConsistent
<1> QED
  BY <1>1, AuditInvHolds, PTL

-----------------------------------------------------------------------------
(* Reputation                                                              *)

Walks == [at : {"idle", "clients", "entries", "threw", "returned"}, clients : Seq(Clients),
          client : Nat, last : Nat, index : Nat, found : [Clients -> Seq(BOOLEAN)]]

Items == [client : Clients, index : Nat, revoked : BOOLEAN]

\* A registry lists each client once, and those that have an entry.
RegistrySound(en, l) ==
    /\ en \in [Clients -> Seq(BOOLEAN)] /\ l \in Seq(Clients)
    /\ \A i, j \in 1 .. Len(l) : l[i] = l[j] => i = j
    /\ \A c \in Clients : en[c] # <<>> <=> \E k \in 1 .. Len(l) : l[k] = c

\* A later registry has the entries of an earlier one, revoked if they were.
Keeps(old, new) ==
    \A c \in Clients :
        /\ Len(old[c]) <= Len(new[c])
        /\ \A i \in 1 .. Len(old[c]) : old[c][i] => new[c][i]

WalkSound(w, en) ==
    /\ w \in Walks
    /\ w.client # 0
    /\ w.at \in {"clients", "entries", "returned"} => RegistrySound(w.found, w.clients) /\ Keeps(w.found, en)
    /\ w.at = "returned" => w.client > Len(w.clients)
    /\ w.at = "entries" =>
          /\ w.client <= Len(w.clients)
          /\ w.index \in 1 .. w.last
          /\ w.last <= Len(en[w.clients[w.client]])
          /\ Len(w.found[w.clients[w.client]]) <= w.last

\* Entry i of c was read, in one place, and seen revoked if it was from the start.
ReadOnce(f, c, i, found) ==
    \E n \in 1 .. Len(f) :
        /\ f[n].client = c /\ f[n].index = i
        /\ (i <= Len(found[c]) /\ found[c][i]) => f[n].revoked
        /\ \A m \in 1 .. Len(f) : (f[m].client = c /\ f[m].index = i) => m = n

\* The clients that are done with, the one under way, and those still to come.
DoneWith(f, w, k) ==
    \A i \in 1 .. Len(w.found[w.clients[k]]) : ReadOnce(f, w.clients[k], i, w.found)

ToCome(f, c) == \A n \in 1 .. Len(f) : f[n].client # c

UnderWay(f, w, c) ==
    /\ \A i \in 1 .. w.index - 1 : ReadOnce(f, c, i, w.found)
    /\ \A n \in 1 .. Len(f) : f[n].client = c => f[n].index < w.index

FeedbackSound(f, w) ==
    /\ w.at = "idle" => f = <<>>
    /\ w.at \in {"clients", "entries", "returned"} =>
          \A k \in 1 .. Len(w.clients) :
              /\ k < w.client => DoneWith(f, w, k)
              /\ k > w.client => ToCome(f, w.clients[k])
              /\ k = w.client /\ w.at = "clients" => ToCome(f, w.clients[k])
              /\ k = w.client /\ w.at = "entries" => UnderWay(f, w, w.clients[k])

RepInv ==
    /\ RegistrySound(entries, listed)
    /\ WalkSound(walk, entries)
    /\ feedback \in Seq(Items)
    /\ skipped = {} => FeedbackSound(feedback, walk)

\* The registry is empty at first and nobody walks it.
LEMMA RepStart == ASSUME RepInit PROVE RepInv
<1>1. <<>> \in Seq(Clients) /\ <<>> \in Seq(BOOLEAN) /\ <<>> \in Seq(Items) /\ Len(<<>>) = 0
  OBVIOUS
<1>2. RegistrySound(entries, listed)
  BY <1>1 DEF RepInit, RegistrySound
<1>3. WalkSound(walk, entries) /\ walk.at = "idle"
  BY <1>1 DEF RepInit, WalkSound, Walks, NotReading
<1> QED
  BY <1>1, <1>2, <1>3 DEF RepInit, RepInv, FeedbackSound

-----------------------------------------------------------------------------
(* The registry's steps                                                    *)

\* What a reading knows of the registry stays true of a later one.
LEMMA WalkOutlives ==
    ASSUME NEW w, NEW en \in [Clients -> Seq(BOOLEAN)], NEW new \in [Clients -> Seq(BOOLEAN)],
           WalkSound(w, en), Keeps(en, new)
    PROVE  WalkSound(w, new)
<1>1. w \in Walks
  BY DEF WalkSound
<1>2. ASSUME w.at \in {"clients", "entries", "returned"} PROVE Keeps(w.found, new)
  <2>1. Keeps(w.found, en) /\ w.found \in [Clients -> Seq(BOOLEAN)]
    BY <1>1, <1>2 DEF WalkSound, Walks
  <2> DEFINE old == w.found
  <2> HIDE DEF old
  <2>2. ASSUME NEW c \in Clients
        PROVE  Len(old[c]) <= Len(new[c]) /\ \A i \in 1 .. Len(old[c]) : old[c][i] => new[c][i]
    <3>1. Len(old[c]) \in Nat /\ Len(en[c]) \in Nat /\ Len(new[c]) \in Nat
      BY <2>1 DEF old
    <3>2. Len(old[c]) <= Len(en[c]) /\ Len(en[c]) <= Len(new[c])
      BY <2>1 DEF Keeps, old
    <3>3. ASSUME NEW i \in 1 .. Len(old[c]), old[c][i] PROVE new[c][i]
      <4>1. i \in 1 .. Len(en[c])
        BY <3>1, <3>2
      <4>2. en[c][i]
        BY <2>1, <3>3 DEF Keeps, old
      <4> QED
        BY <4>1, <4>2 DEF Keeps
    <3> QED
      BY <3>1, <3>2, <3>3
  <2> QED
    BY <2>2 DEF Keeps, old
<1>3. ASSUME w.at = "entries" PROVE w.last <= Len(new[w.clients[w.client]])
  <2> DEFINE c == w.clients[w.client]
  <2>1. c \in Clients
    <3>1. w.client \in 1 .. Len(w.clients) /\ w.clients \in Seq(Clients)
      BY <1>1, <1>3 DEF WalkSound, Walks
    <3> QED
      BY <3>1, ElementOfSeq
  <2>2. w.last <= Len(en[c]) /\ w.last \in Nat
    BY <1>1, <1>3 DEF WalkSound, Walks
  <2> HIDE DEF c
  <2>3. Len(en[c]) <= Len(new[c]) /\ Len(en[c]) \in Nat /\ Len(new[c]) \in Nat
    BY <2>1 DEF Keeps
  <2>4. w.last <= Len(new[c])
    BY <2>2, <2>3
  <2> QED
    BY <2>4 DEF c
<1> QED
  BY <1>2, <1>3 DEF WalkSound

\* Feedback that is given or revoked under a walk keeps RepInv: lists only grow,
\* and an entry once revoked stays so.
LEMMA RegistryKeeps ==
    ASSUME RepInv, NEW c \in Clients, Gives(c) \/ \E i \in DOMAIN entries[c] : Revokes(c, i)
    PROVE  RepInv'
<1> DEFINE s == entries[c]
<1>1. /\ entries \in [Clients -> Seq(BOOLEAN)] /\ listed \in Seq(Clients) /\ s \in Seq(BOOLEAN)
      /\ RegistrySound(entries, listed) /\ Len(listed) \in Nat /\ Len(s) \in Nat
      /\ DOMAIN s = 1 .. Len(s)
  BY LenProperties DEF RepInv, RegistrySound
<1>2. UNCHANGED <<walk, feedback, skipped>>
  BY DEF Gives, Revokes
<1> DEFINE Follows(r) ==
             /\ entries' = [entries EXCEPT ![c] = r]
             /\ Len(s) <= Len(r) /\ r # <<>>
             /\ \A i \in 1 .. Len(s) : s[i] => r[i]
             /\ listed' = IF s = <<>> THEN Append(listed, c) ELSE listed
<1>3. PICK r \in Seq(BOOLEAN) : Follows(r)
  <2>1. CASE Gives(c)
    <3> DEFINE no == FALSE
               r == Append(s, no)
    <3>0. no \in BOOLEAN
      OBVIOUS
    <3> HIDE DEF no
    <3>1. r \in Seq(BOOLEAN) /\ Len(r) = Len(s) + 1 /\ r # <<>> /\ \A i \in 1 .. Len(s) : r[i] = s[i]
      BY <1>1, <3>0, AppendProperties
    <3>2. entries' = [entries EXCEPT ![c] = r] /\ listed' = IF s = <<>> THEN Append(listed, c) ELSE listed
      BY <2>1 DEF Gives, no
    <3>3. Len(s) <= Len(r)
      BY <1>1, <3>1
    <3> HIDE DEF r
    <3>4. Follows(r)
      BY <3>1, <3>2, <3>3
    <3> HIDE DEF Follows
    <3> QED
      BY <3>1, <3>4
  <2>2. CASE \E i \in DOMAIN s : Revokes(c, i)
    <3>1. PICK i \in 1 .. Len(s) : Revokes(c, i)
      BY <1>1, <2>2
    <3> DEFINE r == [s EXCEPT ![i] = TRUE]
    <3>2. /\ r \in Seq(BOOLEAN) /\ Len(r) = Len(s)
          /\ \A j \in 1 .. Len(s) : r[j] = IF j = i THEN TRUE ELSE s[j]
      BY <1>1, ExceptSeq
    <3>3. entries' = [entries EXCEPT ![c] = r] /\ listed' = listed
      BY <3>1 DEF Revokes
    <3> HIDE DEF r
    <3>4. r # <<>> /\ s # <<>>
      BY <1>1, <3>2, EmptySeq
    <3>5. \A j \in 1 .. Len(s) : s[j] => r[j]
      BY <3>2
    <3>6. Follows(r)
      BY <1>1, <3>2, <3>3, <3>4, <3>5
    <3> HIDE DEF Follows
    <3> QED
      BY <3>2, <3>6
  <2> QED
    BY <2>1, <2>2
<1>4. entries' \in [Clients -> Seq(BOOLEAN)]
  BY <1>1, <1>3
<1>5. entries'[c] = r /\ \A d \in Clients : d # c => entries'[d] = entries[d]
  BY <1>1, <1>3
<1>6. Keeps(entries, entries')
  <2>1. ASSUME NEW d \in Clients, d # c
        PROVE  Len(entries[d]) <= Len(entries'[d]) /\ \A i \in 1 .. Len(entries[d]) : entries[d][i] => entries'[d][i]
    <3>1. Len(entries[d]) \in Nat /\ entries'[d] = entries[d]
      BY <1>1, <1>5, <2>1
    <3> QED
      BY <3>1
  <2> QED
    BY <1>3, <1>5, <2>1 DEF Keeps
<1>7. RegistrySound(entries', listed')
  <2>1. CASE s # <<>>
    <3>1. listed' = listed
      BY <1>3, <2>1
    <3>2. \A d \in Clients : entries'[d] # <<>> <=> entries[d] # <<>>
      BY <1>3, <1>5, <2>1
    <3> QED
      BY <1>1, <1>4, <3>1, <3>2 DEF RegistrySound
  <2>2. CASE s = <<>>
    <3> DEFINE l == Append(listed, c)
               n == Len(listed)
    <3>1. /\ l \in Seq(Clients) /\ Len(l) = n + 1
          /\ \A i \in 1 .. n : l[i] = listed[i]
          /\ l[n + 1] = c
      BY <1>1, AppendProperties
    <3>2. listed' = l
      BY <1>3, <2>2
    <3> HIDE DEF l
    <3>3. \A i \in 1 .. n : listed[i] # c
      BY <1>1, <2>2 DEF RegistrySound
    <3>4. 1 .. n + 1 = (1 .. n) \cup {n + 1}
      BY <1>1
    <3>5. \A i, j \in 1 .. n + 1 : l[i] = l[j] => i = j
      <4>1. \A i, j \in 1 .. n : l[i] = l[j] => i = j
        BY <1>1, <3>1 DEF RegistrySound
      <4>2. \A i \in 1 .. n : l[i] # l[n + 1]
        BY <3>1, <3>3
      <4> HIDE DEF n
      <4> QED
        BY <3>4, <4>1, <4>2
    <3>6. ASSUME NEW d \in Clients PROVE entries'[d] # <<>> <=> \E k \in 1 .. n + 1 : l[k] = d
      <4>1. CASE d = c
        BY <1>3, <1>5, <3>1, <3>4, <4>1
      <4>2. CASE d # c
        <5>1. entries'[d] # <<>> <=> \E k \in 1 .. n : listed[k] = d
          BY <1>1, <1>5, <4>2 DEF RegistrySound
        <5> QED
          BY <3>1, <3>4, <4>2, <5>1
      <4> QED
        BY <4>1, <4>2
    <3> QED
      BY <1>4, <3>1, <3>2, <3>5, <3>6 DEF RegistrySound
  <2> QED
    BY <2>1, <2>2
<1>8. WalkSound(walk, entries')
  BY <1>1, <1>4, <1>6, WalkOutlives DEF RepInv
<1> QED
  BY <1>2, <1>7, <1>8 DEF RepInv

-----------------------------------------------------------------------------
(* The reader's steps                                                      *)

\* Reading one entry disturbs neither those read before nor those to come.
LEMMA OneMore ==
    ASSUME NEW f \in Seq(Items), NEW x \in Items, NEW c, NEW i, NEW found
    PROVE  /\ Append(f, x) \in Seq(Items)
           /\ (ReadOnce(f, c, i, found) /\ (x.client # c \/ x.index # i))
                 => ReadOnce(Append(f, x), c, i, found)
           /\ (ToCome(f, c) /\ x.client # c) => ToCome(Append(f, x), c)
<1> DEFINE g == Append(f, x)
           n == Len(f)
<1>1. /\ g \in Seq(Items) /\ Len(g) = n + 1 /\ n \in Nat
      /\ \A k \in 1 .. n : g[k] = f[k]
      /\ g[n + 1] = x
  BY AppendProperties
<1>2. 1 .. n + 1 = (1 .. n) \cup {n + 1}
  BY <1>1
<1> HIDE DEF g, n
<1>3. ASSUME ReadOnce(f, c, i, found), x.client # c \/ x.index # i PROVE ReadOnce(g, c, i, found)
  <2>1. PICK k \in 1 .. n :
           /\ f[k].client = c /\ f[k].index = i
           /\ (i <= Len(found[c]) /\ found[c][i]) => f[k].revoked
           /\ \A m \in 1 .. n : (f[m].client = c /\ f[m].index = i) => m = k
    BY <1>3 DEF ReadOnce, n
  <2>2. k \in 1 .. n + 1 /\ g[k] = f[k]
    BY <1>1, <1>2
  <2>3. \A m \in 1 .. n + 1 : (g[m].client = c /\ g[m].index = i) => m = k
    BY <1>1, <1>2, <1>3, <2>1
  <2> QED
    BY <1>1, <2>1, <2>2, <2>3 DEF ReadOnce
<1>4. ASSUME ToCome(f, c), x.client # c PROVE ToCome(g, c)
  BY <1>1, <1>2, <1>4 DEF ToCome, n
<1> QED
  BY <1>1, <1>3, <1>4 DEF g

\* An entry read now, for the first time, is read once.
LEMMA ReadNow ==
    ASSUME NEW f \in Seq(Items), NEW x \in Items, NEW found,
           \A m \in 1 .. Len(f) : ~(f[m].client = x.client /\ f[m].index = x.index),
           (x.index <= Len(found[x.client]) /\ found[x.client][x.index]) => x.revoked
    PROVE  ReadOnce(Append(f, x), x.client, x.index, found)
<1> DEFINE g == Append(f, x)
           n == Len(f)
<1>1. /\ Len(g) = n + 1 /\ n \in Nat
      /\ \A k \in 1 .. n : g[k] = f[k]
      /\ g[n + 1] = x
  BY AppendProperties
<1>2. 1 .. n + 1 = (1 .. n) \cup {n + 1}
  BY <1>1
<1> HIDE DEF g
<1>3. \A m \in 1 .. n + 1 : (g[m].client = x.client /\ g[m].index = x.index) => m = n + 1
  BY <1>1, <1>2
<1>4. n + 1 \in 1 .. n + 1
  BY <1>2
<1>5. ReadOnce(g, x.client, x.index, found)
  BY <1>1, <1>3, <1>4 DEF ReadOnce
<1> QED
  BY <1>5 DEF g

\* The walk moves on by one entry.
Moved(w) ==
    IF w.index = w.last
    THEN [w EXCEPT !.at = "clients", !.client = @ + 1]
    ELSE [w EXCEPT !.index = @ + 1]

\* Going to the next entry, or past the last one to the next client, keeps a
\* walk in bounds.
LEMMA MovesSoundly ==
    ASSUME NEW w, NEW en, WalkSound(w, en), w.at = "entries"
    PROVE  /\ WalkSound(Moved(w), en)
           /\ Moved(w).clients = w.clients /\ Moved(w).found = w.found
           /\ w.index = w.last => Moved(w).at = "clients" /\ Moved(w).client = w.client + 1
           /\ w.index # w.last =>
                 /\ Moved(w).at = "entries" /\ Moved(w).client = w.client
                 /\ Moved(w).index = w.index + 1
<1>1. w \in Walks /\ w.client \in Nat /\ w.index \in Nat /\ w.last \in Nat /\ w.index \in 1 .. w.last
  BY DEF WalkSound, Walks
<1> DEFINE c == w.client + 1
           i == w.index + 1
<1>2. c \in Nat /\ i \in Nat /\ c # 0
  BY <1>1
<1>3. CASE w.index = w.last
  <2>1. Moved(w) = [w EXCEPT !.at = "clients", !.client = c]
    BY <1>3 DEF Moved
  <2> HIDE DEF c
  <2>2. /\ Moved(w) \in Walks /\ Moved(w).at = "clients" /\ Moved(w).client = c
        /\ Moved(w).clients = w.clients /\ Moved(w).found = w.found
    BY <1>1, <1>2, <2>1 DEF Walks
  <2> QED
    BY <1>2, <1>3, <2>2 DEF WalkSound, c
<1>4. CASE w.index # w.last
  <2>1. Moved(w) = [w EXCEPT !.index = i]
    BY <1>4 DEF Moved
  <2>2. i \in 1 .. w.last
    BY <1>1, <1>4
  <2> HIDE DEF i
  <2>3. /\ Moved(w) \in Walks /\ Moved(w).at = w.at /\ Moved(w).client = w.client
        /\ Moved(w).clients = w.clients /\ Moved(w).found = w.found /\ Moved(w).last = w.last
        /\ Moved(w).index = i
    BY <1>1, <1>2, <2>1 DEF Walks
  <2> QED
    BY <1>4, <2>2, <2>3 DEF WalkSound, i
<1> QED
  BY <1>3, <1>4

\* Reading an entry of the client under way adds what was not there.
LEMMA ReadingKeeps == ASSUME RepInv, readFeedback PROVE RepInv'
<1> DEFINE w == walk
           c == walk.clients[walk.client]
           x == [client |-> c, index |-> walk.index, revoked |-> entries[c][walk.index]]
           f == feedback
<1>1. /\ w.at = "entries" /\ walk' = Moved(w) /\ feedback' = Append(f, x)
      /\ UNCHANGED <<entries, listed, skipped>>
  BY DEF readFeedback, NextEntry, Moved, Entry, Client
<1>2. /\ WalkSound(w, entries) /\ w \in Walks /\ RegistrySound(entries, listed)
      /\ entries \in [Clients -> Seq(BOOLEAN)] /\ f \in Seq(Items)
      /\ RegistrySound(w.found, w.clients) /\ Keeps(w.found, entries)
  BY <1>1 DEF RepInv, WalkSound, RegistrySound
<1> HIDE DEF w, f
<1>3. /\ w.client \in 1 .. Len(w.clients) /\ w.clients \in Seq(Clients) /\ c = w.clients[w.client]
      /\ Len(w.clients) \in Nat /\ w.found \in [Clients -> Seq(BOOLEAN)]
  BY SMTT(30), <1>1, <1>2 DEF WalkSound, Walks, w
<1>4. c \in Clients
  BY <1>3, ElementOfSeq
<1> HIDE DEF c
<1>5. /\ w.index \in 1 .. w.last /\ w.last \in Nat /\ w.last <= Len(entries[c])
      /\ Len(w.found[c]) <= w.last /\ Len(entries[c]) \in Nat /\ Len(w.found[c]) \in Nat
  <2>1. entries[c] \in Seq(BOOLEAN) /\ w.found[c] \in Seq(BOOLEAN)
    BY <1>2, <1>3, <1>4
  <2> QED
    BY SMTT(30), <1>1, <1>2, <1>3, <2>1 DEF WalkSound, Walks
<1>6. x \in Items /\ x.client = c /\ x.index = w.index /\ x.revoked = entries[c][w.index]
  <2>1. w.index \in 1 .. Len(entries[c]) /\ entries[c] \in Seq(BOOLEAN) /\ w.index \in Nat
    BY <1>2, <1>4, <1>5
  <2>2. entries[c][w.index] \in BOOLEAN
    BY <2>1, ElementOfSeq
  <2> QED
    BY <1>4, <2>1, <2>2 DEF Items, w
<1> HIDE DEF x
<1> DEFINE g == Append(f, x)
<1>7. g \in Seq(Items)
  BY <1>2, <1>6, AppendProperties
<1>8. /\ WalkSound(Moved(w), entries) /\ Moved(w).clients = w.clients /\ Moved(w).found = w.found
      /\ w.index = w.last => Moved(w).at = "clients" /\ Moved(w).client = w.client + 1
      /\ w.index # w.last =>
            Moved(w).at = "entries" /\ Moved(w).client = w.client /\ Moved(w).index = w.index + 1
  BY <1>1, <1>2, MovesSoundly DEF w
<1>9. ASSUME FeedbackSound(f, w) PROVE FeedbackSound(g, Moved(w))
  <2>1. \A k \in 1 .. Len(w.clients) :
           /\ k < w.client => DoneWith(f, w, k)
           /\ k > w.client => ToCome(f, w.clients[k])
           /\ k = w.client => UnderWay(f, w, w.clients[k])
    BY <1>1, <1>9 DEF FeedbackSound, w
  <2>2. \A k \in 1 .. Len(w.clients) : k # w.client => w.clients[k] # c
    BY <1>2, <1>3 DEF RegistrySound
  <2>3. UnderWay(f, w, c)
    BY <1>3, <2>1
  <2>4. ReadOnce(g, c, w.index, w.found)
    <3>1. \A m \in 1 .. Len(f) : ~(f[m].client = c /\ f[m].index = w.index)
      <4> SUFFICES ASSUME NEW m \in 1 .. Len(f), f[m].client = c PROVE f[m].index # w.index
        OBVIOUS
      <4>1. f[m] \in Items
        BY <1>2, ElementOfSeq
      <4>2. f[m].index \in Nat /\ f[m].index < w.index
        BY <2>3, <4>1 DEF UnderWay, Items
      <4> QED
        BY <1>5, <4>2
    <3>2. (w.index <= Len(w.found[c]) /\ w.found[c][w.index]) => x.revoked
      <4> SUFFICES ASSUME w.index <= Len(w.found[c]), w.found[c][w.index] PROVE x.revoked
        OBVIOUS
      <4>1. w.index \in 1 .. Len(w.found[c])
        BY <1>5
      <4>2. entries[c][w.index]
        BY <1>2, <1>4, <4>1 DEF Keeps
      <4> QED
        BY <1>6, <4>2
    <3> QED
      BY <1>2, <1>6, <3>1, <3>2, ReadNow
  <2>5. \A i \in 1 .. w.index : ReadOnce(g, c, i, w.found)
    <3> TAKE i \in 1 .. w.index
    <3>1. CASE i = w.index
      BY <2>4, <3>1
    <3>2. CASE i # w.index
      <4>1. i \in 1 .. w.index - 1
        BY <1>5, <3>2
      <4>2. ReadOnce(f, c, i, w.found)
        BY <2>3, <4>1 DEF UnderWay
      <4> QED
        BY <1>2, <1>6, <3>2, <4>2, OneMore
    <3> QED
      BY <3>1, <3>2
  <2>6. \A k \in 1 .. Len(w.clients) : k < w.client => DoneWith(g, w, k)
    <3> SUFFICES ASSUME NEW k \in 1 .. Len(w.clients), k < w.client,
                        NEW i \in 1 .. Len(w.found[w.clients[k]])
                 PROVE  ReadOnce(g, w.clients[k], i, w.found)
      BY DEF DoneWith
    <3>1. k # w.client
      BY <1>3
    <3>2. w.clients[k] # c
      BY <2>2, <3>1
    <3>3. ReadOnce(f, w.clients[k], i, w.found)
      BY <2>1 DEF DoneWith
    <3> QED
      BY <1>2, <1>6, <3>2, <3>3, OneMore
  <2>7. \A k \in 1 .. Len(w.clients) : k > w.client => ToCome(g, w.clients[k])
    <3> SUFFICES ASSUME NEW k \in 1 .. Len(w.clients), k > w.client PROVE ToCome(g, w.clients[k])
      OBVIOUS
    <3>1. k # w.client
      BY <1>3
    <3> QED
      BY <1>2, <1>6, <2>1, <2>2, <3>1, OneMore
  <2> DEFINE v == Moved(w)
  <2>8. \A k \in 1 .. Len(w.clients) : k < w.client => DoneWith(g, v, k)
    BY <1>8, <2>6 DEF DoneWith
  <2> HIDE DEF g, v
  <2>9. CASE w.index = w.last
    <3>1. v.at = "clients" /\ v.client = w.client + 1 /\ v.clients = w.clients /\ v.found = w.found
      BY <1>8, <2>9 DEF v
    <3>2. DoneWith(g, v, w.client)
      <4>1. \A i \in 1 .. Len(w.found[c]) : ReadOnce(g, c, i, w.found)
        BY <1>5, <2>5, <2>9
      <4> QED
        BY <1>3, <3>1, <4>1 DEF DoneWith
    <3>3. ASSUME NEW k \in 1 .. Len(w.clients)
          PROVE  /\ k < v.client => DoneWith(g, v, k)
                 /\ k >= v.client => ToCome(g, w.clients[k])
      <4>1. k < v.client => k < w.client \/ k = w.client
        BY <1>3, <3>1
      <4>2. k >= v.client => k > w.client
        BY <1>3, <3>1
      <4> QED
        BY <2>7, <2>8, <3>2, <4>1, <4>2
    <3>4. ASSUME NEW k \in 1 .. Len(w.clients) PROVE (k > v.client \/ k = v.client) => k >= v.client
      BY <1>3, <3>1
    <3> QED
      BY <3>1, <3>3, <3>4 DEF FeedbackSound, v
  <2>10. CASE w.index # w.last
    <3>1. /\ v.at = "entries" /\ v.client = w.client /\ v.clients = w.clients /\ v.found = w.found
          /\ v.index = w.index + 1
      BY <1>8, <2>10 DEF v
    <3>2. UnderWay(g, v, c)
      <4>1. (w.index + 1) - 1 = w.index
        BY <1>5
      <4>2. \A i \in 1 .. v.index - 1 : ReadOnce(g, c, i, v.found)
        BY <2>5, <3>1, <4>1
      <4>3. ASSUME NEW n \in 1 .. Len(g), g[n].client = c PROVE g[n].index < v.index
        <5>1. /\ Len(g) = Len(f) + 1 /\ Len(f) \in Nat /\ g[Len(f) + 1] = x
              /\ \A m \in 1 .. Len(f) : g[m] = f[m]
          BY <1>2, <1>6, AppendProperties DEF g
        <5>2. CASE n = Len(f) + 1
          BY <1>5, <1>6, <3>1, <5>1, <5>2
        <5>3. CASE n # Len(f) + 1
          <6>1. n \in 1 .. Len(f)
            BY <5>1, <5>3
          <6>2. g[n] = f[n] /\ f[n] \in Items
            BY <1>2, <5>1, <6>1, ElementOfSeq
          <6>3. f[n].index < w.index /\ f[n].index \in Nat
            BY <2>3, <4>3, <6>1, <6>2 DEF UnderWay, Items
          <6> QED
            BY <1>5, <3>1, <6>2, <6>3
        <5> QED
          BY <5>2, <5>3
      <4> QED
        BY <4>2, <4>3 DEF UnderWay
    <3> QED
      BY <1>3, <2>7, <2>8, <3>1, <3>2 DEF FeedbackSound, v
  <2> QED
    BY <2>9, <2>10
<1> QED
  BY <1>1, <1>2, <1>7, <1>8, <1>9 DEF RepInv, f, w

\* A read that is given up leaves its mark.
LEMMA SkippingKeeps == ASSUME RepInv, ReadIsSkipped PROVE RepInv'
<1>1. /\ walk.at = "entries" /\ walk' = Moved(walk) /\ skipped' # {}
      /\ UNCHANGED <<entries, listed, feedback>>
  BY DEF ReadIsSkipped, NextEntry, Moved
<1>2. WalkSound(walk', entries)
  BY <1>1, MovesSoundly DEF RepInv
<1> QED
  BY <1>1, <1>2 DEF RepInv

\* A walk begins with every client still to come.
LEMMA WalkStarts == ASSUME RepInv, getClients PROVE RepInv'
<1>1. /\ walk.at = "idle" /\ UNCHANGED <<entries, listed, feedback, skipped>>
      /\ walk' = [NotReading EXCEPT !.at = "clients", !.clients = listed, !.found = entries]
  BY DEF getClients
<1>2. entries \in [Clients -> Seq(BOOLEAN)] /\ listed \in Seq(Clients) /\ RegistrySound(entries, listed)
  BY DEF RepInv, RegistrySound
<1>3. /\ walk' \in Walks /\ walk'.at = "clients" /\ walk'.clients = listed /\ walk'.found = entries
      /\ walk'.client = 1
  BY <1>1, <1>2 DEF NotReading, Walks
<1>4. Keeps(entries, entries)
  <2>1. \A c \in Clients : Len(entries[c]) \in Nat
    BY <1>2
  <2> QED
    BY <2>1 DEF Keeps
<1>5. WalkSound(walk', entries)
  BY <1>2, <1>3, <1>4 DEF WalkSound
<1>6. ASSUME skipped = {} PROVE FeedbackSound(feedback, walk')
  <2>1. feedback = <<>>
    BY <1>1, <1>6 DEF RepInv, FeedbackSound
  <2>2. \A c : ToCome(feedback, c)
    BY <2>1 DEF ToCome
  <2>3. \A k \in 1 .. Len(walk'.clients) : ~(k < walk'.client)
    BY <1>3
  <2> QED
    BY <1>3, <2>2, <2>3 DEF FeedbackSound
<1> QED
  BY <1>1, <1>2, <1>5, <1>6 DEF RepInv

\* The last index is at least what it was when the clients were read.
LEMMA NextClient == ASSUME RepInv, getLastIndex PROVE RepInv'
<1> DEFINE c == walk.clients[walk.client]
           n == Len(entries[c])
<1>1. /\ walk.at = "clients" /\ walk.client <= Len(walk.clients)
      /\ walk' = [walk EXCEPT !.at = "entries", !.last = n, !.index = 1]
      /\ UNCHANGED <<entries, listed, feedback, skipped>>
  BY DEF getLastIndex, Client
<1>2. /\ WalkSound(walk, entries) /\ walk \in Walks /\ RegistrySound(entries, listed)
      /\ entries \in [Clients -> Seq(BOOLEAN)] /\ feedback \in Seq(Items)
      /\ RegistrySound(walk.found, walk.clients) /\ Keeps(walk.found, entries)
  BY <1>1 DEF RepInv, WalkSound, RegistrySound
<1>3. /\ walk.client \in 1 .. Len(walk.clients) /\ walk.clients \in Seq(Clients)
      /\ walk.found \in [Clients -> Seq(BOOLEAN)] /\ Len(walk.clients) \in Nat
  BY <1>1, <1>2 DEF WalkSound, Walks
<1>4. c \in Clients
  BY <1>3, ElementOfSeq
<1>5. n \in Nat /\ Len(walk.found[c]) <= n /\ n >= 1
  <2>1. entries[c] \in Seq(BOOLEAN) /\ walk.found[c] \in Seq(BOOLEAN)
    BY <1>2, <1>3, <1>4
  <2>2. walk.found[c] # <<>>
    BY <1>2, <1>3, <1>4 DEF RegistrySound
  <2>3. Len(walk.found[c]) <= n
    BY <1>2, <1>4 DEF Keeps
  <2>4. n \in Nat /\ Len(walk.found[c]) \in Nat /\ Len(walk.found[c]) # 0
    BY <2>1, <2>2, EmptySeq
  <2> QED
    BY <2>3, <2>4
<1> HIDE DEF n
<1>6. /\ walk' \in Walks /\ walk'.at = "entries" /\ walk'.last = n /\ walk'.index = 1
      /\ walk'.client = walk.client /\ walk'.clients = walk.clients /\ walk'.found = walk.found
  BY <1>1, <1>2, <1>5 DEF Walks
<1>7. WalkSound(walk', entries)
  <2>1. 1 \in 1 .. n /\ n <= Len(entries[c])
    BY <1>5 DEF n
  <2>2. walk.client # 0
    BY <1>3
  <2> QED
    BY <1>2, <1>3, <1>5, <1>6, <2>1, <2>2 DEF WalkSound
<1>8. ASSUME skipped = {} PROVE FeedbackSound(feedback, walk')
  <2>1. \A k \in 1 .. Len(walk.clients) :
           /\ k < walk.client => DoneWith(feedback, walk, k)
           /\ k >= walk.client => ToCome(feedback, walk.clients[k])
    <3>1. \A k \in 1 .. Len(walk.clients) : k >= walk.client => k > walk.client \/ k = walk.client
      BY <1>3
    <3> QED
      BY <1>1, <1>8, <3>1 DEF RepInv, FeedbackSound
  <2>2. \A k \in 1 .. Len(walk.clients) : DoneWith(feedback, walk, k) => DoneWith(feedback, walk', k)
    BY <1>6 DEF DoneWith
  <2>3. ToCome(feedback, c) => UnderWay(feedback, walk', c)
    BY <1>6 DEF ToCome, UnderWay
  <2>4. \A k \in 1 .. Len(walk.clients) : k > walk.client \/ k = walk.client => k >= walk.client
    BY <1>3
  <2> QED
    BY <1>6, <2>1, <2>2, <2>3, <2>4 DEF FeedbackSound
<1> QED
  BY <1>1, <1>2, <1>7, <1>8 DEF RepInv

\* A walk that throws or returns leaves nothing to keep.
LEMMA WalkEnds == ASSUME RepInv, Throws \/ Returns PROVE RepInv'
<1>1. WalkSound(walk, entries) /\ walk \in Walks /\ UNCHANGED <<entries, listed, feedback, skipped>>
  BY DEF RepInv, WalkSound, Throws, Returns
<1>2. CASE Throws
  <2>1. /\ walk' \in Walks /\ walk'.at = "threw" /\ walk'.client = walk.client
        /\ walk.at = "clients" => walk'.clients = walk.clients /\ walk'.found = walk.found
    BY <1>1, <1>2 DEF Throws, Walks
  <2> QED
    BY <1>1, <1>2, <2>1 DEF Throws, RepInv, WalkSound, FeedbackSound
<1>3. CASE Returns
  <2>1. /\ walk' \in Walks /\ walk'.at = "returned" /\ walk'.client = walk.client
        /\ walk'.clients = walk.clients /\ walk'.found = walk.found
        /\ walk.at = "clients" /\ walk.client > Len(walk.clients)
    BY <1>1, <1>3 DEF Returns, Walks
  <2>2. \A k \in 1 .. Len(walk.clients) : DoneWith(feedback, walk, k) => DoneWith(feedback, walk', k)
    BY <2>1 DEF DoneWith
  <2>3. skipped = {} => FeedbackSound(feedback, walk')
    BY <2>1, <2>2 DEF RepInv, FeedbackSound
  <2> QED
    BY <1>1, <2>1, <2>3 DEF RepInv, WalkSound
<1> QED
  BY <1>2, <1>3

\* An entry read once counts once, and not among the live ones when it was
\* revoked already as the walk began.
LEMMA ReadOnceCounts ==
    ASSUME NEW c \in Clients, NEW i, feedback \in Seq(Items), ReadOnce(feedback, c, i, walk.found)
    PROVE  /\ Cardinality(Read(c, i)) = 1
           /\ (i <= Len(walk.found[c]) /\ walk.found[c][i]) => Read(c, i) \cap live = {}
<1>1. DOMAIN feedback = 1 .. Len(feedback)
  BY LenProperties
<1>2. PICK n \in DOMAIN feedback :
         /\ feedback[n].client = c /\ feedback[n].index = i
         /\ (i <= Len(walk.found[c]) /\ walk.found[c][i]) => feedback[n].revoked
         /\ \A m \in DOMAIN feedback : (feedback[m].client = c /\ feedback[m].index = i) => m = n
  BY <1>1 DEF ReadOnce
<1>3. Read(c, i) = {n}
  BY <1>2 DEF Read
<1>4. feedback[n].revoked => n \notin live
  BY DEF live
<1> QED
  BY <1>2, <1>3, <1>4, FS_Singleton

\* Whatever clients give and revoke while the registry is read, call by call, a
\* report that left nothing out is complete and has no entry twice.
THEOREM ReportIsCompleteHolds == RepSpec => []ReportIsComplete
<1>1. RepInit => RepInv
  BY RepStart
<1>2. ASSUME RepInv, [RepNext]_repVars PROVE RepInv'
  <2>1. CASE UNCHANGED repVars
    BY <1>2, <2>1 DEF repVars, RepInv
  <2>2. CASE ReaderStep
    BY <1>2, <2>2, WalkStarts, NextClient, ReadingKeeps, SkippingKeeps, WalkEnds DEF ReaderStep
  <2>3. CASE \E c \in Clients : Gives(c) \/ \E i \in DOMAIN entries[c] : Revokes(c, i)
    BY <1>2, <2>3, RegistryKeeps
  <2> QED
    BY <1>2, <2>1, <2>2, <2>3 DEF RepNext
<1>3. RepInv => ReportIsComplete
  <2> SUFFICES ASSUME RepInv, walk.at = "returned", skipped = {},
                      NEW c \in Clients, NEW i \in DOMAIN walk.found[c]
               PROVE  /\ Cardinality(Read(c, i)) = 1
                      /\ walk.found[c][i] => Read(c, i) \cap live = {}
    BY DEF ReportIsComplete
  <2>1. /\ walk \in Walks /\ walk.client > Len(walk.clients) /\ feedback \in Seq(Items)
        /\ RegistrySound(walk.found, walk.clients) /\ FeedbackSound(feedback, walk)
        /\ walk.found \in [Clients -> Seq(BOOLEAN)]
    BY DEF RepInv, WalkSound, RegistrySound
  <2>2. walk.found[c] \in Seq(BOOLEAN) /\ i \in 1 .. Len(walk.found[c]) /\ Len(walk.found[c]) \in Nat
    <3>1. walk.found[c] \in Seq(BOOLEAN)
      BY <2>1
    <3> QED
      BY <3>1, LenProperties
  <2>3. PICK k \in 1 .. Len(walk.clients) : walk.clients[k] = c
    <3>1. walk.found[c] # <<>>
      BY <2>2
    <3> QED
      BY <2>1, <3>1 DEF RegistrySound
  <2>4. ReadOnce(feedback, c, i, walk.found)
    <3>1. walk.client \in Nat /\ Len(walk.clients) \in Nat
      BY <2>1 DEF Walks
    <3>2. k < walk.client
      BY <2>1, <3>1
    <3>3. DoneWith(feedback, walk, k)
      BY <2>1, <3>2 DEF FeedbackSound
    <3> QED
      BY <2>2, <2>3, <3>3 DEF DoneWith
  <2>5. i <= Len(walk.found[c])
    BY <2>2
  <2> QED
    BY <2>1, <2>4, <2>5, ReadOnceCounts
<1> QED
  BY <1>1, <1>2, <1>3, PTL DEF RepSpec

-----------------------------------------------------------------------------
(* The agent's public identity                                             *)

\* The files a run of the publisher leaves behind: a card signed with one of
\* the keys, a key, a registration.
Files == [card : {signCard(k) : k \in Keys} \cup {Nothing}, did : Keys \cup {Nothing},
          registration : (SUBSET Nat) \cup {Nothing}]

Publishers == [at : {"idle", "card", "did", "registration"}, key : Keys \cup {Nothing},
               whole : BOOLEAN]

\* Under way, publisher x has written so much of the files, with the key it read.
PublisherSound(x, written) ==
    /\ x \in Publishers /\ written \in Files
    /\ x.at # "idle" => x.key \in Keys /\ ~x.whole
    /\ x.at \in {"did", "registration"} => written.card = signCard(x.key)
    /\ x.at = "registration" => written.did = x.key
    /\ x.whole => Agrees(written)

Minters == [at : {"idle", "resolving", "waiting"}, token : Nat \cup {Nothing}]

\* The registry numbers its tokens.  What is on record, or in a registration,
\* was named; tokens nobody named and transactions to be mined are those of the
\* waiting run and of runs that died, and the waiting run has not named its own.
MintsSound ==
    /\ minter \in Minters /\ pending \in Nat /\ lost \in Nat
    /\ IsFiniteSet(tokens) /\ tokens = 1 .. Cardinality(tokens)
    /\ named \subseteq tokens
    /\ Cardinality(tokens \ named) + pending <= lost + (IF minter.at = "waiting" THEN 1 ELSE 0)
    /\ minter.at = "resolving" => minter.token = Nothing
    /\ (minter.at = "waiting" /\ minter.token # Nothing) => minter.token \in tokens \ named
    /\ record # Nothing => record \in named
    /\ files.registration # Nothing => files.registration \subseteq named
    /\ site.registration # Nothing => site.registration \subseteq named

Outcomes == {"problem", "verified", "mismatch"}

Discoveries ==
    [at : {"idle", "checking", "done", "threw"},
     card : OtherCards \cup {signCard(k) : k \in Keys} \cup {<<>>},
     said : Seq(Outcomes), document : Keys \cup {Nothing}, ours : BOOLEAN, since : Nat]

\* Peer x, of a site that has been deployed so often: while it checks a card of
\* ours that still is what is served, it has the key served with it, or none.
PeerSound(x, served, times) ==
    /\ x \in Discoveries
    /\ x.since <= times
    /\ (x.ours /\ x.since = times) =>
          /\ \A i \in DOMAIN x.said : x.said[i] # "mismatch"
          /\ x.at = "checking" =>
                x.card = signCard(served.did) /\ x.document \in {Nothing, served.did}

PeersSound ==
    /\ site \in Files /\ deploys \in Nat
    /\ peer \in [Peers -> Discoveries]
    /\ \A p \in Peers : PeerSound(peer[p], site, deploys)

KeyOK == key \in Keys \cup {Nothing}

IdentityInv == KeyOK /\ PublisherSound(publisher, files) /\ MintsSound /\ PeersSound

\* At first there is no card but the one the repository holds.
LEMMA IdentityStart == ASSUME IdentityInit PROVE IdentityInv
<1>1. Unpublished \in Files /\ Unpublished.registration = Nothing
  BY DEF Unpublished, Files
<1>2. PublisherSound(publisher, files)
  BY <1>1 DEF IdentityInit, PublisherSound, Publishers
<1>3. MintsSound
  <2>1. IsFiniteSet(tokens) /\ Cardinality(tokens) = 0 /\ tokens \ named = tokens /\ tokens = 1 .. 0
    BY FS_EmptySet DEF IdentityInit
  <2> QED
    BY <1>1, <2>1 DEF IdentityInit, MintsSound, Minters
<1>4. <<>> \in Seq(Outcomes)
  OBVIOUS
<1>5. NotAsking \in Discoveries /\ ~NotAsking.ours /\ NotAsking.since = 0
  BY <1>4 DEF NotAsking, Discoveries
<1>6. PeersSound
  BY <1>1, <1>5 DEF IdentityInit, PeersSound, PeerSound
<1> QED
  BY <1>2, <1>3, <1>6 DEF IdentityInv, KeyOK, IdentityInit

\* The publisher reads its key once, and writes the card before the document.
LEMMA PublisherStep ==
    ASSUME IdentityInv, Rotate \/ PublishStarts \/ PublishStep \/ PublisherKilled
    PROVE  IdentityInv'
<1>1. UNCHANGED <<site, deploys, record, tokens, named, minter, mints, pending, lost, peer>>
  BY DEF Rotate, PublishStarts, PublishStep, WriteCard, WriteDid, WriteRegistration,
         PublisherKilled, mintVars
<1>2. KeyOK'
  BY DEF IdentityInv, KeyOK, Rotate, PublishStarts, PublishStep, WriteCard, WriteDid,
         WriteRegistration, PublisherKilled
<1>3. publisher \in Publishers /\ files \in Files /\ KeyOK
  BY DEF IdentityInv, PublisherSound
<1>4. record # Nothing => record \in Nat
  <2>1. record # Nothing => record \in 1 .. Cardinality(tokens)
    BY DEF IdentityInv, MintsSound
  <2> QED
    BY <2>1
<1>5. PublisherSound(publisher', files')
  <2>1. CASE Rotate
    BY <2>1 DEF Rotate, IdentityInv
  <2>2. CASE PublishStarts
    BY <1>3, <2>2 DEF PublishStarts, IdentityInv, PublisherSound, Publishers, KeyOK
  <2>3. CASE WriteCard
    BY <1>3, <2>3 DEF WriteCard, IdentityInv, PublisherSound, Publishers, Files
  <2>4. CASE WriteDid
    BY <1>3, <2>4 DEF WriteDid, IdentityInv, PublisherSound, Publishers, Files
  <2>5. CASE WriteRegistration
    BY <1>3, <1>4, <2>5 DEF WriteRegistration, IdentityInv, PublisherSound, Publishers, Files, Agrees
  <2>6. CASE PublisherKilled
    BY <1>3, <2>6 DEF PublisherKilled, IdentityInv, PublisherSound, Publishers
  <2> QED
    BY <2>1, <2>2, <2>3, <2>4, <2>5, <2>6 DEF PublishStep
<1>6. files'.registration = files.registration
      \/ files'.registration = IF record = Nothing THEN {} ELSE {record}
  BY <1>3 DEF Rotate, PublishStarts, PublishStep, WriteCard, WriteDid, WriteRegistration,
              PublisherKilled, Files
<1>7. MintsSound'
  BY <1>1, <1>6 DEF IdentityInv, MintsSound
<1>8. PeersSound'
  BY <1>1 DEF IdentityInv, PeersSound
<1> QED
  BY <1>2, <1>5, <1>7, <1>8 DEF IdentityInv

\* Serving what the publisher left keeps IdentityInv.
LEMMA DeployStep == ASSUME IdentityInv, Deploy PROVE IdentityInv'
<1>1. /\ site' = files /\ deploys' = deploys + 1
      /\ UNCHANGED <<key, files, publisher, record, tokens, named, minter, mints, pending, lost, peer>>
  BY DEF Deploy, pubVars, mintVars
<1>2. files \in Files /\ deploys \in Nat
  BY DEF IdentityInv, PublisherSound, PeersSound
<1>3. ASSUME NEW p \in Peers PROVE PeerSound(peer[p], site', deploys')
  BY <1>1, <1>2 DEF IdentityInv, PeersSound, PeerSound, Discoveries
<1>4. MintsSound'
  BY <1>1 DEF IdentityInv, MintsSound
<1> QED
  BY <1>1, <1>2, <1>3, <1>4 DEF IdentityInv, KeyOK, PeersSound

\* A token the registry has just made was never named; naming it leaves one
\* fewer that was not.
LEMMA MinedToken ==
    ASSUME NEW T, NEW N, IsFiniteSet(T), T = 1 .. Cardinality(T), N \subseteq T
    PROVE  LET token == Cardinality(T) + 1 IN
           /\ token \in Nat /\ token \notin T
           /\ IsFiniteSet(T \cup {token}) /\ T \cup {token} = 1 .. Cardinality(T \cup {token})
           /\ Cardinality((T \cup {token}) \ N) = Cardinality(T \ N) + 1
           /\ Cardinality(T \ N) \in Nat
<1> DEFINE n == Cardinality(T)
           U == T \ N
<1>1. n \in Nat /\ T = 1 .. n
  BY FS_CardinalityType
<1> HIDE DEF n
<1>2. n + 1 \in Nat /\ n + 1 \notin T /\ T \cup {n + 1} = 1 .. n + 1
  BY <1>1
<1>3. IsFiniteSet(T \cup {n + 1}) /\ Cardinality(T \cup {n + 1}) = n + 1
  BY <1>2, FS_AddElement, Zenon DEF n
<1>4. IsFiniteSet(U) /\ n + 1 \notin U /\ (T \cup {n + 1}) \ N = U \cup {n + 1}
  BY <1>2, FS_Subset
<1> HIDE DEF U
<1>5. Cardinality(U \cup {n + 1}) = Cardinality(U) + 1 /\ Cardinality(U) \in Nat
  BY <1>4, FS_AddElement, FS_CardinalityType, Zenon
<1> QED
  BY <1>2, <1>3, <1>4, <1>5 DEF n, U

\* A registration that was named stays named.
LEMMA NamedGrows ==
    ASSUME MintsSound, named \subseteq named', UNCHANGED <<files, site>>
    PROVE  /\ files'.registration # Nothing => files'.registration \subseteq named'
           /\ site'.registration # Nothing => site'.registration \subseteq named'
BY DEF MintsSound

\* The registry numbers tokens; a run that neither died nor is under way has
\* recorded the token of its transaction, or has none.
LEMMA MintStep ==
    ASSUME IdentityInv,
           MintStarts \/ MintRefused \/ MintSends \/ Mined \/ Reverts \/ Records \/ MinterDies
    PROVE  IdentityInv'
<1>1. UNCHANGED <<key, files, publisher, site, deploys, peer>>
  BY DEF MintStarts, MintRefused, MintSends, Mined, Reverts, Records, MinterDies, pubVars
<1> DEFINE U == tokens \ named
<1>2. /\ MintsSound /\ minter \in Minters /\ pending \in Nat /\ lost \in Nat
      /\ IsFiniteSet(tokens) /\ tokens = 1 .. Cardinality(tokens) /\ named \subseteq tokens
  BY DEF IdentityInv, MintsSound
<1>3. IsFiniteSet(U) /\ Cardinality(U) \in Nat
  BY <1>2, FS_Subset, FS_CardinalityType
<1>4. MintsSound'
  <2>1. CASE MintStarts
    BY <1>1, <1>2, <1>3, <2>1 DEF MintStarts, MintsSound, Minters
  <2>2. CASE MintRefused
    BY <1>1, <1>2, <1>3, <2>2 DEF MintRefused, MintsSound, Minters
  <2>3. CASE MintSends
    BY <1>1, <1>2, <1>3, <2>3 DEF MintSends, MintsSound, Minters
  <2>4. CASE Mined
    <3> DEFINE token == Cardinality(tokens) + 1
    <3>1. /\ tokens' = tokens \cup {token} /\ pending' = pending - 1 /\ pending > 0
          /\ UNCHANGED <<record, named, lost>>
          /\ \/ minter.at = "waiting" /\ minter.token = Nothing
                /\ minter' = [minter EXCEPT !.token = token]
             \/ UNCHANGED minter
      BY <2>4 DEF Mined
    <3>2. /\ token \in Nat /\ token \notin tokens
          /\ IsFiniteSet(tokens') /\ tokens' = 1 .. Cardinality(tokens')
          /\ Cardinality(tokens' \ named) = Cardinality(U) + 1
      BY <1>2, <3>1, MinedToken
    <3> HIDE DEF token, U
    <3>3. /\ minter' \in Minters /\ minter'.at = minter.at
          /\ minter.at = "resolving" => minter'.token = Nothing
      BY <1>2, <3>1, <3>2 DEF MintsSound, Minters
    <3>4. (minter'.at = "waiting" /\ minter'.token # Nothing) => minter'.token \in tokens' \ named
      <4>1. CASE minter' = [minter EXCEPT !.token = token]
        BY <1>2, <3>1, <3>2, <4>1 DEF Minters
      <4>2. CASE UNCHANGED minter
        BY <1>2, <3>1, <4>2 DEF MintsSound
      <4> QED
        BY <3>1, <4>1, <4>2
    <3>5. Cardinality(tokens' \ named) + pending' <= lost + (IF minter'.at = "waiting" THEN 1 ELSE 0)
      BY <1>2, <1>3, <3>1, <3>2, <3>3 DEF MintsSound, U
    <3>6. pending' \in Nat /\ named \subseteq tokens'
      BY <1>2, <3>1
    <3> QED
      BY <1>1, <1>2, <3>1, <3>2, <3>3, <3>4, <3>5, <3>6 DEF MintsSound
  <2>5. CASE Reverts
    BY <1>1, <1>2, <1>3, <2>5 DEF Reverts, MintsSound, Minters
  <2>6. CASE Records
    <3>1. /\ minter.at = "waiting" /\ minter.token # Nothing /\ record' = minter.token
          /\ named' = named \cup {minter.token} /\ minter' = [minter EXCEPT !.at = "idle"]
          /\ UNCHANGED <<tokens, pending, lost>>
      BY <2>6 DEF Records
    <3>2. minter.token \in U /\ tokens \ named' = U \ {minter.token}
      BY <1>2, <3>1 DEF MintsSound
    <3> HIDE DEF U
    <3>3. Cardinality(U \ {minter.token}) = Cardinality(U) - 1
      BY <1>3, <3>2, FS_RemoveElement, Zenon
    <3>4. minter' \in Minters /\ minter'.at = "idle"
      BY <1>2, <3>1 DEF Minters
    <3>5. /\ named' \subseteq tokens /\ named \subseteq named'
      BY <1>2, <3>1, <3>2 DEF U
    <3>6. Cardinality(U) + pending <= lost + 1
      BY <1>2, <3>1 DEF MintsSound, U
    <3>7. Cardinality(tokens \ named') + pending <= lost
      <4>1. Cardinality(tokens \ named') = Cardinality(U) - 1
        BY <3>2, <3>3
      <4> QED
        BY <1>2, <1>3, <3>6, <4>1
    <3> QED
      BY <1>1, <1>2, <3>1, <3>4, <3>5, <3>7, NamedGrows DEF MintsSound
  <2>7. CASE MinterDies
    BY <1>1, <1>2, <1>3, <2>7 DEF MinterDies, MintsSound, Minters
  <2> QED
    BY <2>1, <2>2, <2>3, <2>4, <2>5, <2>6, <2>7
<1> QED
  BY <1>1, <1>4 DEF IdentityInv, KeyOK, PeersSound

\* One peer moves on.
LEMMA PeerMoves ==
    ASSUME IdentityInv, NEW p \in Peers, NEW y, PeerSound(y, site, deploys),
           peer' = [peer EXCEPT ![p] = y], UNCHANGED <<pubVars, site, deploys, mintVars>>
    PROVE  IdentityInv'
<1>1. UNCHANGED <<key, files, publisher, record, tokens, named, minter, mints, pending,
               lost, site, deploys>>
  BY DEF pubVars, mintVars
<1>2. PeersSound'
  BY <1>1 DEF IdentityInv, PeersSound, PeerSound
<1> QED
  BY <1>1, <1>2 DEF IdentityInv, KeyOK, MintsSound

\* A peer that begins to look keeps IdentityInv.
LEMMA DiscoverStep == ASSUME IdentityInv, NEW p \in Peers, Discover(p) PROVE IdentityInv'
<1>1. PICK card \in OtherCards \cup {site.card} :
         peer' = [peer EXCEPT ![p] =
                    [NotAsking EXCEPT !.at = IF card = Nothing THEN "threw" ELSE "checking",
                                      !.card = IF card = Nothing THEN <<>> ELSE card,
                                      !.ours = card = site.card /\ Agrees(site), !.since = deploys]]
  BY DEF Discover
<1> DEFINE place == IF card = Nothing THEN "threw" ELSE "checking"
           shown == IF card = Nothing THEN <<>> ELSE card
           ours == card = site.card /\ Agrees(site)
           y == [NotAsking EXCEPT !.at = place, !.card = shown, !.ours = ours, !.since = deploys]
<1>2. peer' = [peer EXCEPT ![p] = y]
  BY <1>1
<1>3. site \in Files /\ deploys \in Nat
  BY DEF IdentityInv, PeersSound
<1>4. /\ place \in {"threw", "checking"} /\ ours \in BOOLEAN
      /\ shown \in OtherCards \cup {signCard(k) : k \in Keys} \cup {<<>>}
  BY <1>3 DEF Files
<1>5. ours /\ place = "checking" => shown = signCard(site.did)
  BY DEF Agrees
<1> HIDE DEF place, shown, ours
<1>6. <<>> \in Seq(Outcomes) /\ DOMAIN <<>> = {}
  OBVIOUS
<1>7. NotAsking \in Discoveries /\ NotAsking.said = <<>>
  BY <1>6 DEF NotAsking, Discoveries
<1>8. /\ y \in Discoveries /\ y.said = <<>> /\ y.document = Nothing
      /\ y.at = place /\ y.card = shown /\ y.ours = ours /\ y.since = deploys
  <2>1. NotAsking.document = Nothing
    BY DEF NotAsking
  <2> QED
    BY <1>3, <1>4, <1>7, <2>1 DEF Discoveries
<1> HIDE DEF y
<1>9. PeerSound(y, site, deploys)
  BY <1>3, <1>5, <1>6, <1>8 DEF PeerSound
<1> QED
  BY <1>2, <1>9, PeerMoves DEF Discover

\* What a peer says next.
LEMMA SaysStep ==
    ASSUME IdentityInv, NEW p \in Peers, Checking(p), NEW o \in Outcomes,
           NEW d \in Keys \cup {Nothing},
           (/\ peer[p].ours /\ peer[p].since = deploys
            /\ peer[p].card = signCard(site.did) /\ peer[p].document \in {Nothing, site.did})
              => d \in {Nothing, site.did} /\ o # "mismatch",
           NEW y, y = [Says(p, o) EXCEPT !.document = d]
    PROVE  PeerSound(y, site, deploys)
<1> DEFINE x == peer[p]
           said == Append(x.said, o)
<1>1. x \in Discoveries /\ PeerSound(x, site, deploys) /\ x.at = "checking"
  BY DEF IdentityInv, PeersSound, Checking
<1>2. /\ said \in Seq(Outcomes) /\ DOMAIN said = 1 .. Len(x.said) + 1
      /\ \A i \in DOMAIN said : IF i = Len(x.said) + 1 THEN said[i] = o
                                ELSE i \in DOMAIN x.said /\ said[i] = x.said[i]
  <2>1. x.said \in Seq(Outcomes)
    BY <1>1 DEF Discoveries
  <2>2. /\ said \in Seq(Outcomes) /\ Len(said) = Len(x.said) + 1
        /\ \A i \in 1 .. Len(x.said) : said[i] = x.said[i]
        /\ said[Len(x.said) + 1] = o
    BY <2>1, AppendProperties
  <2> QED
    BY <2>1, <2>2, LenProperties
<1> HIDE DEF said
<1>3. y = [x EXCEPT !.said = said, !.document = d]
  BY <1>1 DEF Says, said, Discoveries
<1>4. /\ y \in Discoveries /\ y.said = said /\ y.document = d /\ y.card = x.card
      /\ y.ours = x.ours /\ y.since = x.since /\ y.at = x.at
  BY <1>1, <1>2, <1>3 DEF Discoveries
<1> QED
  BY <1>1, <1>2, <1>4 DEF PeerSound

\* So does every step of its check.
LEMMA CheckingStep == ASSUME IdentityInv, NEW p \in Peers, DiscoveryStep(p) PROVE IdentityInv'
<1> DEFINE x == peer[p]
<1>1. /\ x \in Discoveries /\ PeerSound(x, site, deploys) /\ x.at = "checking"
      /\ UNCHANGED <<pubVars, site, deploys, mintVars>>
      /\ site \in Files /\ x.document \in Keys \cup {Nothing}
  BY DEF IdentityInv, PeersSound, DiscoveryStep, ChecksHeader, ChecksKey, Reports, Checking,
         Discoveries
<1>2. ASSUME NEW place \in {"threw", "done"}, peer' = [peer EXCEPT ![p].at = place]
      PROVE  IdentityInv'
  <2> DEFINE y == [x EXCEPT !.at = place]
  <2>1. peer' = [peer EXCEPT ![p] = y]
    BY <1>2 DEF IdentityInv, PeersSound
  <2>2. /\ y \in Discoveries /\ y.said = x.said /\ y.ours = x.ours /\ y.since = x.since
        /\ y.at = place
    BY <1>1, <1>2 DEF Discoveries
  <2> HIDE DEF y
  <2>3. PeerSound(y, site, deploys)
    BY <1>1, <2>2 DEF PeerSound
  <2> QED
    BY <1>1, <2>1, <2>3, PeerMoves
<1>3. x.document = x.document /\ \A o : Says(p, o) = [Says(p, o) EXCEPT !.document = x.document]
  BY <1>1 DEF Says, Discoveries
<1>4. CASE ChecksHeader(p)
  <2>1. CASE peer' = [peer EXCEPT ![p] = Says(p, "problem")]
    <3>1. Checking(p) /\ "problem" \in Outcomes
      BY <1>4 DEF ChecksHeader, Outcomes
    <3>2. PeerSound(Says(p, "problem"), site, deploys)
      BY <1>1, <1>3, <3>1, SaysStep
    <3> QED
      BY <1>1, <2>1, <3>2, PeerMoves
  <2>2. CASE peer' = [peer EXCEPT ![p].at = "threw"]
    BY <1>2, <2>2
  <2>3. \/ peer' = [peer EXCEPT ![p] = Says(p, "problem")]
        \/ peer' = [peer EXCEPT ![p] = [peer[p] EXCEPT !.at = "threw"]]
    BY <1>4 DEF ChecksHeader, IdentityInv, PeersSound
  <2> QED
    BY <2>1, <2>2, <2>3
<1>5. CASE Reports(p)
  BY <1>2, <1>5 DEF Reports
<1>6. CASE ChecksKey(p)
  <2>1. Checking(p)
    BY <1>6 DEF ChecksKey
  <2> DEFINE sig == NextSignature(p)
  <2>2. x.card = signCard(site.did) => sig.key = site.did
    <3>1. ASSUME x.card = signCard(site.did) PROVE Len(x.said) = 0
      <4>1. Len(x.card) = 1
        BY <3>1 DEF signCard
      <4>2. Len(x.said) \in Nat
        BY <1>1 DEF Discoveries
      <4> QED
        BY <2>1, <4>1, <4>2 DEF Checking
    <3> QED
      BY <3>1 DEF NextSignature, signCard
  <2>3. \A d : Verdict(sig, d) \in Outcomes /\ (sig.key = d => Verdict(sig, d) # "mismatch")
    BY DEF Verdict, Outcomes
  <2> HIDE DEF sig
  <2>4. CASE x.document # Nothing /\ peer' = [peer EXCEPT ![p] = Says(p, Verdict(sig, x.document))]
    <3>1. PeerSound(Says(p, Verdict(sig, x.document)), site, deploys)
      BY <1>1, <1>3, <2>1, <2>2, <2>3, <2>4, SaysStep
    <3> QED
      BY <1>1, <2>4, <3>1, PeerMoves
  <2>5. CASE /\ x.document = Nothing /\ site.did # Nothing
             /\ peer' = [peer EXCEPT ![p] = [Says(p, Verdict(sig, site.did)) EXCEPT
                                               !.document = site.did]]
    <3>1. site.did \in Keys \cup {Nothing}
      BY <1>1 DEF Files
    <3>2. PeerSound([Says(p, Verdict(sig, site.did)) EXCEPT !.document = site.did], site, deploys)
      BY <2>1, <2>2, <2>3, <3>1, SaysStep
    <3> QED
      BY <1>1, <2>5, <3>2, PeerMoves
  <2>6. CASE peer' = [peer EXCEPT ![p] = Says(p, "problem")]
    <3>1. PeerSound(Says(p, "problem"), site, deploys)
      BY <1>1, <1>3, <2>1, SaysStep DEF Outcomes
    <3> QED
      BY <1>1, <2>6, <3>1, PeerMoves
  <2> QED
    BY <1>6, <2>4, <2>5, <2>6 DEF ChecksKey, sig
<1> QED
  BY <1>4, <1>5, <1>6 DEF DiscoveryStep

\* The invariant of cards, peers and mints holds in every state.
LEMMA IdentityInvCorrect == IdentitySpec => []IdentityInv
<1>1. IdentityInit => IdentityInv
  BY IdentityStart
<1>2. ASSUME IdentityInv, [IdentityNext]_identityVars PROVE IdentityInv'
  <2>1. CASE UNCHANGED identityVars
    BY <1>2, <2>1 DEF identityVars, pubVars, mintVars, IdentityInv, KeyOK, MintsSound, PeersSound
  <2> QED
    BY <1>2, <2>1, PublisherStep, DeployStep, MintStep, DiscoverStep, CheckingStep DEF IdentityNext
<1> QED
  BY <1>1, <1>2, PTL DEF IdentitySpec

\* After a whole run the card is signed with the key the did:web document has,
\* however often the key was rotated meanwhile.
THEOREM CardMatchesItsKeyHolds == IdentitySpec => []CardMatchesItsKey
<1>1. IdentityInv => CardMatchesItsKey
  BY DEF IdentityInv, PublisherSound, CardMatchesItsKey
<1> QED
  BY <1>1, IdentityInvCorrect, PTL

\* A card of ours that fails its check was served with another key, or a
\* deployment came between the two requests, for any number of peers.
THEOREM FailureMeansADeployHolds == IdentitySpec => []FailureMeansADeploy
<1>1. IdentityInv => FailureMeansADeploy
  BY DEF IdentityInv, PeersSound, PeerSound, FailureMeansADeploy
<1> QED
  BY <1>1, IdentityInvCorrect, PTL

\* Whoever died when, and for any number of runs: an identity nobody has named
\* is that of the run under way or of one that died, and what is on record or
\* served was minted.
THEOREM IdentitiesAreNamedHolds == IdentitySpec => []IdentitiesAreNamed
<1>1. ASSUME IdentityInv PROVE IdentitiesAreNamed
  <2>1. IsFiniteSet(tokens \ named)
    BY <1>1, FS_Subset DEF IdentityInv, MintsSound
  <2>2. Cardinality(tokens \ named) \in Nat
    BY <2>1, FS_CardinalityType
  <2> QED
    BY <1>1, <2>2 DEF IdentityInv, MintsSound, IdentitiesAreNamed
<1> QED
  BY <1>1, IdentityInvCorrect, PTL
=============================================================================
