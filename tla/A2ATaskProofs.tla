--------------------------- MODULE A2ATaskProofs ---------------------------
(***************************************************************************)
(* The A2A server and its engines: a verdict is about the instant it was   *)
(* asked for, the component is no laxer than gate_cli, a completed task    *)
(* carries its verdict, and to its peer a task keeps what TaskLife says.   *)
(*                                                                         *)
(* Whatever interleaving, a task's events are one of eight sequences;      *)
(* what a peer sees of each is computed once (Views), and the invariant    *)
(* says which of them a task can have (TaskSound).                         *)
(***************************************************************************)
EXTENDS A2ATask, SequenceTheorems, FiniteSetTheorems, TLAPS

-----------------------------------------------------------------------------
(* The engines                                                             *)

CallStates == {"idle", "cli", "component", "answered", "failed"}

Call == [state : CallStates, args : Args \cup {None}, asked : 0 .. MaxTime,
         answer : Verdicts \cup {BadInput, None}]

EngineTypeOK ==
    /\ now \in 0 .. MaxTime
    /\ built \in BOOLEAN
    /\ shared \in {"unloaded", "loading", "ready", "failed"}
    /\ call \in [Calls -> Call]

\* What verdict v says of the call x it answers, at time t.
VerdictSound(x, v, t) ==
    /\ v \in Verdicts
    /\ IF x.args.now_secs = None THEN v.now_secs \in x.asked .. t
       ELSE v.now_secs = x.args.now_secs
    /\ v.engine = "component" =>
          /\ x.args.credential = None /\ ~Given(x.args.idempotency_key)
          /\ v.decision = "approved" => decide(x.args.action, x.args.mandate, v.now_secs) = {}

\* A call in flight has its arguments, and only what the component looks at is
\* sent to it; an answer is a verdict about the call, or about bad input.
CallSound(x, t) ==
    /\ x.asked <= t
    /\ x.state # "idle" => x.args \in Args
    /\ x.state = "component" => x.args.credential = None /\ ~Given(x.args.idempotency_key)
    /\ x.state = "answered" => x.answer = BadInput \/ VerdictSound(x, x.answer, t)

EngineInv == EngineTypeOK /\ \A c \in Calls : CallSound(call[c], now)

\* The verdicts the two engines compute are verdicts.
LEMMA VerdictType ==
    ASSUME NEW R \in SUBSET (Gates \cup {"binding", "idempotency"}), NEW at \in Nat,
           NEW e \in {"gate_cli", "component"}
    PROVE  /\ Verdict(R, at, e) \in Verdicts
           /\ Verdict(R, at, e).now_secs = at /\ Verdict(R, at, e).engine = e
           /\ Verdict(R, at, e).decision = "approved" <=> R = {}
  BY DEF Verdict, Verdicts

\* No call has begun when the server comes up.
LEMMA EngineStart == ASSUME EngineInit PROVE EngineInv
  BY MaxTimeAssumption DEF EngineInit, EngineInv, EngineTypeOK, NotCalled, Call, CallStates, CallSound

\* One call changes, and the clock stands still.
LEMMA OneCallChanges ==
    ASSUME EngineInv, NEW c \in Calls, NEW y \in Call, CallSound(y, now),
           call' = [call EXCEPT ![c] = y], UNCHANGED <<now, built>>,
           shared' \in {"unloaded", "loading", "ready", "failed"}
    PROVE  EngineInv'
  BY DEF EngineInv, EngineTypeOK

\* A call that begins has not been asked anything it could answer for.
LEMMA CallStarts ==
    ASSUME EngineInv, NEW c \in Calls, NEW a \in Args, decideWith(c, a)
    PROVE  EngineInv'
<1> DEFINE y == [state |-> IF RefusedAtOnce(a) THEN "failed"
                           ELSE IF AsksCli(a) THEN "cli" ELSE "component",
                 args |-> a, asked |-> now, answer |-> None]
<1>1. y \in Call
  BY DEF EngineInv, EngineTypeOK, Call, CallStates
<1>2. CallSound(y, now)
  BY DEF CallSound, RefusedAtOnce, EngineInv, EngineTypeOK
<1>3. shared' \in {"unloaded", "loading", "ready", "failed"}
  BY DEF decideWith, sharedGate, EngineInv, EngineTypeOK
<1>4. call' = [call EXCEPT ![c] = y] /\ UNCHANGED <<now, built>>
  BY DEF decideWith
<1> QED
  BY <1>1, <1>2, <1>3, <1>4, OneCallChanges

\* A call that settles disturbs no other, and its verdict, if it has one, is of
\* the state of the gate while the call was open.
LEMMA CallSettles ==
    ASSUME EngineInv, NEW c \in Calls, Settles(c)
    PROVE  /\ EngineInv'
           /\ call[c].state \in {"cli", "component"}
           /\ \A d \in Calls : d # c => call'[d] = call[d]
           /\ call'[c].state \in {"answered", "failed"}
<1> DEFINE x == call[c]
<1>1. x \in Call /\ CallSound(x, now) /\ now \in Nat
  BY MaxTimeAssumption DEF EngineInv, EngineTypeOK
<1>2. ASSUME NEW v \in Verdicts \cup {BadInput}, Answers(c, v),
             v = BadInput \/ VerdictSound(x, v, now), x.state # "idle",
             UNCHANGED <<now, built, shared>>
      PROVE  EngineInv' /\ call'[c].state = "answered" /\ \A d \in Calls : d # c => call'[d] = call[d]
  <2> DEFINE y == [x EXCEPT !.state = "answered", !.answer = v]
  <2>1. /\ y \in Call /\ y.state = "answered" /\ y.answer = v
        /\ y.args = x.args /\ y.asked = x.asked
    BY <1>1 DEF Call, CallStates
  <2>2. call' = [call EXCEPT ![c] = y]
    BY <1>2 DEF Answers, EngineInv, EngineTypeOK
  <2> HIDE DEF y
  <2>3. CallSound(y, now)
    BY <2>1, <1>1, <1>2 DEF CallSound, VerdictSound, x
  <2> QED
    BY <2>1, <2>2, <2>3, <1>2, OneCallChanges DEF EngineInv, EngineTypeOK
<1>3. ASSUME Throws(c), UNCHANGED <<now, built, shared>>, x.state # "idle"
      PROVE  EngineInv' /\ call'[c].state = "failed" /\ \A d \in Calls : d # c => call'[d] = call[d]
  <2> DEFINE y == [x EXCEPT !.state = "failed"]
  <2>1. y \in Call /\ y.state = "failed" /\ y.args = x.args /\ y.asked = x.asked
    BY <1>1 DEF Call, CallStates
  <2>2. call' = [call EXCEPT ![c] = y]
    BY <1>3 DEF Throws, EngineInv, EngineTypeOK
  <2> HIDE DEF y
  <2>3. CallSound(y, now)
    BY <2>1, <1>1, <1>3 DEF CallSound, x
  <2> QED
    BY <2>1, <2>2, <2>3, <1>3, OneCallChanges DEF EngineInv, EngineTypeOK
<1>4. x.state # "idle" => /\ x.args \in Args
                          /\ x.args.now_secs \in Nat \cup {None}
                          /\ x.asked \in Nat /\ x.asked <= now
  BY <1>1, ArgsAssumption, MaxTimeAssumption DEF CallSound, Call
<1>5. CASE CliAnswers(c)
  <2> DEFINE at == IF x.args.now_secs = None THEN x.asked ELSE x.args.now_secs
             v == Verdict(CliReasons(x.args, at), at, "gate_cli")
  <2>1. x.state = "cli" /\ Answers(c, v) /\ UNCHANGED <<now, built, shared>>
    BY <1>5 DEF CliAnswers
  <2>2. CliReasons(x.args, at) \in SUBSET (Gates \cup {"binding", "idempotency"})
    BY DEF CliReasons, decide
  <2>3. at \in Nat /\ (IF x.args.now_secs = None THEN at \in x.asked .. now ELSE at = x.args.now_secs)
    BY <2>1, <1>1, <1>4
  <2> HIDE DEF x, at
  <2>4. v \in Verdicts /\ v.now_secs = at /\ v.engine = "gate_cli"
    <3> DEFINE R == CliReasons(x.args, at)
    <3>1. R \in SUBSET (Gates \cup {"binding", "idempotency"})
      BY <2>2
    <3> HIDE DEF R
    <3>2. Verdict(R, at, "gate_cli") \in Verdicts /\ Verdict(R, at, "gate_cli").now_secs = at
          /\ Verdict(R, at, "gate_cli").engine = "gate_cli"
      BY <2>3, <3>1, VerdictType
    <3> QED
      BY <3>2 DEF R
  <2> HIDE DEF v
  <2>5. VerdictSound(x, v, now)
    BY <2>3, <2>4 DEF VerdictSound
  <2> QED
    BY <2>1, <2>4, <2>5, <1>2 DEF x
<1>6. CASE CliReportsBadInput(c)
  BY <1>6, <1>2 DEF CliReportsBadInput
<1>7. CASE CliFails(c)
  BY <1>7, <1>3 DEF CliFails
<1>8. CASE ComponentAnswers(c)
  <2> DEFINE at == HostClock(x.args)
             v == Verdict(decide(x.args.action, x.args.mandate, at), at, "component")
  <2>1. /\ x.state = "component" /\ UNCHANGED <<now, built, shared>>
        /\ Answers(c, v) \/ Throws(c)
    BY <1>8 DEF ComponentAnswers
  <2>2. decide(x.args.action, x.args.mandate, at) \in SUBSET (Gates \cup {"binding", "idempotency"})
    BY DEF decide
  <2>3. at \in Nat /\ (IF x.args.now_secs = None THEN at \in x.asked .. now ELSE at = x.args.now_secs)
    BY <2>1, <1>1, <1>4 DEF HostClock
  <2> HIDE DEF x, at
  <2>4. v \in Verdicts /\ VerdictSound(x, v, now)
    BY <2>1, <2>2, <2>3, <1>1, VerdictType DEF VerdictSound, CallSound
  <2> HIDE DEF v
  <2> QED
    BY <2>1, <2>4, <1>2, <1>3 DEF x
<1>9. x.state \in {"cli", "component"}
  BY DEF Settles, CliAnswers, CliReportsBadInput, CliFails, ComponentAnswers
<1> QED
  BY <1>5, <1>6, <1>7, <1>8, <1>9 DEF Settles

\* The clock, the binary and the component's promise change no answer.
LEMMA WorldMoves ==
    ASSUME EngineInv, GateLoads \/ Build \/ Tick
    PROVE  EngineInv' /\ UNCHANGED call
<1>1. EngineTypeOK' /\ now <= now' /\ UNCHANGED call
  <2>1. CASE GateLoads
    BY <2>1, MaxTimeAssumption DEF EngineInv, EngineTypeOK, GateLoads
  <2>2. CASE Build
    BY <2>2, MaxTimeAssumption DEF EngineInv, EngineTypeOK, Build
  <2>3. CASE Tick
    BY <2>3, MaxTimeAssumption DEF EngineInv, EngineTypeOK, Tick
  <2> QED
    BY <2>1, <2>2, <2>3
<1>2. ASSUME NEW c \in Calls PROVE CallSound(call[c], now')
  BY <1>1, MaxTimeAssumption DEF EngineInv, EngineTypeOK, CallSound, VerdictSound, Call, Verdicts
<1> QED
  BY <1>1, <1>2 DEF EngineInv

\* What the invariant says of verdicts is what the two properties ask.
LEMMA EngineInvImplies ==
    ASSUME EngineInv PROVE EvaluatedWhileAsked /\ ComponentIsNoLaxer
<1>1. ASSUME NEW c \in Calls, call[c].state = "answered"
      PROVE  call[c].answer = BadInput \/ VerdictSound(call[c], call[c].answer, now)
  BY <1>1 DEF EngineInv, CallSound
<1>2. EvaluatedWhileAsked
  BY <1>1 DEF EvaluatedWhileAsked, Decided, VerdictSound, BadInput
<1>3. ASSUME NEW c \in Calls, call[c].state = "answered",
             call[c].answer.engine = "component", call[c].answer.decision = "approved"
      PROVE  LET a == call[c].args IN
             \/ a.mandate.require_credential \/ a.mandate.require_idempotency_key
             \/ CliReasons(a, call[c].answer.now_secs) = {}
  <2>1. VerdictSound(call[c], call[c].answer, now)
    BY <1>1, <1>3 DEF BadInput
  <2> DEFINE a == call[c].args
  <2>2. /\ a.credential = None /\ ~Given(a.idempotency_key)
        /\ decide(a.action, a.mandate, call[c].answer.now_secs) = {}
    BY <2>1, <1>3 DEF VerdictSound
  <2> HIDE DEF a
  <2>3. ~KeySupplied(a.idempotency_key)
    <3>1. a.idempotency_key = None \/ a.idempotency_key = EmptyKey
      BY <2>2 DEF Given
    <3>2. EmptyKey.form = "blank"
      BY DEF EmptyKey
    <3> QED
      BY <3>1, <3>2 DEF KeySupplied
  <2>4. ~a.mandate.require_idempotency_key =>
           IdempotencyHolds(a.idempotency_key, a.mandate.require_idempotency_key)
    BY <2>3 DEF IdempotencyHolds
  <2>5. ~a.mandate.require_credential =>
           BindingHolds(a.credential, a.action, a.mandate.require_credential)
    BY <2>2 DEF BindingHolds
  <2>6. \/ a.mandate.require_credential \/ a.mandate.require_idempotency_key
        \/ CliReasons(a, call[c].answer.now_secs) = {}
    BY <2>2, <2>4, <2>5 DEF CliReasons
  <2> QED
    BY <2>6 DEF a
<1> QED
  BY <1>2, <1>3 DEF ComponentIsNoLaxer

-----------------------------------------------------------------------------
(* The events of a task                                                    *)

\* The three kinds of event are told apart, and so are their contents.
LEMMA Events ==
    ASSUME NEW x, NEW y
    PROVE  /\ Status(x) # Artifact(y) /\ Status(x) # Finished /\ Artifact(x) # Finished
           /\ Status(x) = Status(y) <=> x = y
           /\ Artifact(x) = Artifact(y) <=> x = y
           /\ Status(x).is = "status" /\ Artifact(x).is = "artifact" /\ Finished.is = "finished"
           /\ Artifact(x).result = x
  BY DEF Status, Artifact, Finished

\* The concatenations the server makes, written out.
LEMMA Cat11 ==
    ASSUME NEW a, NEW b
    PROVE  <<a>> \o <<b>> = <<a, b>>
<1> DEFINE S == {a, b}
           s == <<a>>
           t == <<b>>
           w == <<a, b>>
<1>1. s \in Seq(S) /\ t \in Seq(S) /\ w \in Seq(S)
  OBVIOUS
<1>2. Len(s) = 1 /\ Len(t) = 1 /\ Len(w) = 2
  OBVIOUS
<1> HIDE DEF S
<1>3. Len(s \o t) = 2 /\ s \o t \in Seq(S)
  BY <1>1, <1>2, ConcatProperties
<1>4. \A i \in 1 .. 2 : (s \o t)[i] = w[i]
  BY <1>1, <1>2, ConcatProperties
<1> QED
  BY <1>1, <1>2, <1>3, <1>4, SeqEqual

\* The concatenations that publishing to a bus comes down to, by their lengths.
LEMMA Cat12 ==
    ASSUME NEW a, NEW b, NEW c
    PROVE  <<a>> \o <<b, c>> = <<a, b, c>>
<1> DEFINE S == {a, b, c}
           s == <<a>>
           t == <<b, c>>
           w == <<a, b, c>>
<1>1. s \in Seq(S) /\ t \in Seq(S) /\ w \in Seq(S)
  OBVIOUS
<1>2. Len(s) = 1 /\ Len(t) = 2 /\ Len(w) = 3
  OBVIOUS
<1> HIDE DEF S
<1>3. Len(s \o t) = 3 /\ s \o t \in Seq(S)
  BY <1>1, <1>2, ConcatProperties
<1>4. \A i \in 1 .. 3 : (s \o t)[i] = w[i]
  BY <1>1, <1>2, ConcatProperties
<1> QED
  BY <1>1, <1>2, <1>3, <1>4, SeqEqual

\* One event, then three.
LEMMA Cat13 ==
    ASSUME NEW a, NEW b, NEW c, NEW d
    PROVE  <<a>> \o <<b, c, d>> = <<a, b, c, d>>
<1> DEFINE S == {a, b, c, d}
           s == <<a>>
           t == <<b, c, d>>
           w == <<a, b, c, d>>
<1>1. s \in Seq(S) /\ t \in Seq(S) /\ w \in Seq(S)
  OBVIOUS
<1>2. Len(s) = 1 /\ Len(t) = 3 /\ Len(w) = 4
  OBVIOUS
<1> HIDE DEF S
<1>3. Len(s \o t) = 4 /\ s \o t \in Seq(S)
  BY <1>1, <1>2, ConcatProperties
<1>4. \A i \in 1 .. 4 : (s \o t)[i] = w[i]
  BY <1>1, <1>2, ConcatProperties
<1> QED
  BY <1>1, <1>2, <1>3, <1>4, SeqEqual

\* One event, then four.
LEMMA Cat14 ==
    ASSUME NEW a, NEW b, NEW c, NEW d, NEW e
    PROVE  <<a>> \o <<b, c, d, e>> = <<a, b, c, d, e>>
<1> DEFINE S == {a, b, c, d, e}
           s == <<a>>
           t == <<b, c, d, e>>
           w == <<a, b, c, d, e>>
<1>1. s \in Seq(S) /\ t \in Seq(S) /\ w \in Seq(S)
  OBVIOUS
<1>2. Len(s) = 1 /\ Len(t) = 4 /\ Len(w) = 5
  OBVIOUS
<1> HIDE DEF S
<1>3. Len(s \o t) = 5 /\ s \o t \in Seq(S)
  BY <1>1, <1>2, ConcatProperties
<1>4. \A i \in 1 .. 5 : (s \o t)[i] = w[i]
  BY <1>1, <1>2, ConcatProperties
<1> QED
  BY <1>1, <1>2, <1>3, <1>4, SeqEqual

\* Two events, then two.
LEMMA Cat22 ==
    ASSUME NEW a, NEW b, NEW c, NEW d
    PROVE  <<a, b>> \o <<c, d>> = <<a, b, c, d>>
<1> DEFINE S == {a, b, c, d}
           s == <<a, b>>
           t == <<c, d>>
           w == <<a, b, c, d>>
<1>1. s \in Seq(S) /\ t \in Seq(S) /\ w \in Seq(S)
  OBVIOUS
<1>2. Len(s) = 2 /\ Len(t) = 2 /\ Len(w) = 4
  OBVIOUS
<1> HIDE DEF S
<1>3. Len(s \o t) = 4 /\ s \o t \in Seq(S)
  BY <1>1, <1>2, ConcatProperties
<1>4. \A i \in 1 .. 4 : (s \o t)[i] = w[i]
  BY <1>1, <1>2, ConcatProperties
<1> QED
  BY <1>1, <1>2, <1>3, <1>4, SeqEqual

\* Two events, then three.
LEMMA Cat23 ==
    ASSUME NEW a, NEW b, NEW c, NEW d, NEW e
    PROVE  <<a, b>> \o <<c, d, e>> = <<a, b, c, d, e>>
<1> DEFINE S == {a, b, c, d, e}
           s == <<a, b>>
           t == <<c, d, e>>
           w == <<a, b, c, d, e>>
<1>1. s \in Seq(S) /\ t \in Seq(S) /\ w \in Seq(S)
  OBVIOUS
<1>2. Len(s) = 2 /\ Len(t) = 3 /\ Len(w) = 5
  OBVIOUS
<1> HIDE DEF S
<1>3. Len(s \o t) = 5 /\ s \o t \in Seq(S)
  BY <1>1, <1>2, ConcatProperties
<1>4. \A i \in 1 .. 5 : (s \o t)[i] = w[i]
  BY <1>1, <1>2, ConcatProperties
<1> QED
  BY <1>1, <1>2, <1>3, <1>4, SeqEqual

\* Four events, then two.
LEMMA Cat42 ==
    ASSUME NEW a, NEW b, NEW c, NEW d, NEW e, NEW f
    PROVE  <<a, b, c, d>> \o <<e, f>> = <<a, b, c, d, e, f>>
<1> DEFINE S == {a, b, c, d, e, f}
           s == <<a, b, c, d>>
           t == <<e, f>>
           w == <<a, b, c, d, e, f>>
<1>1. s \in Seq(S) /\ t \in Seq(S) /\ w \in Seq(S)
  OBVIOUS
<1>2. Len(s) = 4 /\ Len(t) = 2 /\ Len(w) = 6
  OBVIOUS
<1> HIDE DEF S
<1>3. Len(s \o t) = 6 /\ s \o t \in Seq(S)
  BY <1>1, <1>2, ConcatProperties
<1>4. \A i \in 1 .. 6 : (s \o t)[i] = w[i]
  BY <1>1, <1>2, ConcatProperties
<1> QED
  BY <1>1, <1>2, <1>3, <1>4, SeqEqual

\* Four events, then three.
LEMMA Cat43 ==
    ASSUME NEW a, NEW b, NEW c, NEW d, NEW e, NEW f, NEW g
    PROVE  <<a, b, c, d>> \o <<e, f, g>> = <<a, b, c, d, e, f, g>>
<1> DEFINE S == {a, b, c, d, e, f, g}
           s == <<a, b, c, d>>
           t == <<e, f, g>>
           w == <<a, b, c, d, e, f, g>>
<1>1. s \in Seq(S) /\ t \in Seq(S) /\ w \in Seq(S)
  OBVIOUS
<1>2. Len(s) = 4 /\ Len(t) = 3 /\ Len(w) = 7
  OBVIOUS
<1> HIDE DEF S
<1>3. Len(s \o t) = 7 /\ s \o t \in Seq(S)
  BY <1>1, <1>2, ConcatProperties
<1>4. \A i \in 1 .. 7 : (s \o t)[i] = w[i]
  <2>1. \A i \in 1 .. 4 : (s \o t)[i] = s[i]
    BY <1>1, <1>2, ConcatProperties
  <2>2. \A i \in 5 .. 7 : (s \o t)[i] = t[i - 4]
    BY <1>1, <1>2, ConcatProperties
  <2>3. \A i \in 1 .. 4 : s[i] = w[i]
    OBVIOUS
  <2>4. \A i \in 5 .. 7 : t[i - 4] = w[i]
    OBVIOUS
  <2> HIDE DEF s, t, w
  <2>5. \A i \in 1 .. 7 : i \in 1 .. 4 \/ i \in 5 .. 7
    OBVIOUS
  <2> QED
    BY <2>1, <2>2, <2>3, <2>4, <2>5
<1> HIDE DEF s, t, w
<1>5. s \o t = w
  BY <1>1, <1>2, <1>3, <1>4, SeqEqual
<1> QED
  BY <1>5 DEF s, t, w

\* Publishing nothing leaves a bus as it is.
LEMMA CatEmpty ==
    ASSUME NEW S, NEW s \in Seq(S)
    PROVE  s \o <<>> = s /\ <<>> \o s = s
  BY ConcatEmptySeq

\* The eight sequences.
Opened == <<Status("SUBMITTED"), Status("WORKING")>>
Unread == <<Status("SUBMITTED"), Status("FAILED"), Finished>>
Refused == <<Status("SUBMITTED"), Status("WORKING"), Status("FAILED"), Finished>>
Carries(v) ==
    <<Status("SUBMITTED"), Status("WORKING"), Artifact(v), Status("COMPLETED"), Finished>>
Cancelled == <<Status("SUBMITTED"), Status("WORKING"), Status("COMPLETED"), Finished>>
CancelledRefused ==
    <<Status("SUBMITTED"), Status("WORKING"), Status("COMPLETED"), Finished,
      Status("FAILED"), Finished>>
CancelledCarries(v) ==
    <<Status("SUBMITTED"), Status("WORKING"), Status("COMPLETED"), Finished,
      Artifact(v), Status("COMPLETED"), Finished>>

\* The least of a set of integers that has one.
LEMMA MinIs ==
    ASSUME NEW S \in SUBSET Int, NEW m \in S, \A y \in S : m <= y
    PROVE  Min(S) = m
<1>1. \E x \in S : \A y \in S : x <= y
  OBVIOUS
<1>2. Min(S) \in S /\ \A y \in S : Min(S) <= y
  BY <1>1 DEF Min
<1>3. Min(S) <= m /\ m <= Min(S) /\ m \in Int /\ Min(S) \in Int
  BY <1>2
<1> QED
  BY <1>3

\* The k-th event is the first terminal state.
FirstEnding(w, k) ==
    /\ w # <<>>
    /\ DOMAIN w \subseteq Nat
    /\ k \in DOMAIN w /\ k >= 1 /\ 1 .. k \subseteq DOMAIN w
    /\ w[k] \in TerminalStates
    /\ \A j \in DOMAIN w : j < k => w[j] \notin TerminalStates

\* A peer reads up to the first terminal state.
LEMMA SeenUpTo ==
    ASSUME NEW w, NEW k, FirstEnding(w, k)
    PROVE  /\ DOMAIN Seen(w) = 1 .. k
           /\ SeenPhase(w) = IF w[k] = Status("COMPLETED") THEN "completed" ELSE "failed"
<1>0. k \in Nat /\ k >= 1
  BY DEF FirstEnding
<1>1. Endings(w) \in SUBSET Int /\ k \in Endings(w) /\ \A y \in Endings(w) : k <= y
  BY DEF Endings, FirstEnding
<1>2. Min(Endings(w)) = k
  BY <1>1, MinIs
<1>3. Seen(w) = SubSeq(w, 1, k)
  BY <1>1, <1>2 DEF Seen
<1> DEFINE S == {w[i] : i \in 1 .. k}
<1>4. /\ SubSeq(w, 1, k) \in Seq(S)
      /\ Len(SubSeq(w, 1, k)) = IF 1 <= k THEN k - 1 + 1 ELSE 0
      /\ \A i \in 1 .. k - 1 + 1 : SubSeq(w, 1, k)[i] = w[1 + i - 1]
  <2>1. \A i \in 1 .. k : w[i] \in S
    OBVIOUS
  <2> HIDE DEF S
  <2> QED
    BY <2>1, <1>0, SubSeqProperties
<1> HIDE DEF S
<1>5. Len(Seen(w)) = k /\ DOMAIN Seen(w) = 1 .. k
  BY <1>0, <1>3, <1>4, LenProperties
<1>6. Seen(w)[k] = w[k]
  BY <1>0, <1>3, <1>4
<1>7. w[k] # Status("COMPLETED") => w[k] = Status("FAILED")
  BY DEF TerminalStates, FirstEnding
<1> QED
  BY <1>5, <1>6, <1>7 DEF SeenPhase, FirstEnding

\* What a peer sees of each of them.
LEMMA Views ==
    /\ SeenPhase(<<>>) = "new" /\ SeenVerdict(<<>>) = None
    /\ SeenPhase(Opened) = "working" /\ SeenVerdict(Opened) = None
    /\ SeenPhase(Unread) = "failed" /\ SeenVerdict(Unread) = None
    /\ SeenPhase(Refused) = "failed" /\ SeenVerdict(Refused) = None
    /\ \A v : SeenPhase(Carries(v)) = "completed" /\ SeenVerdict(Carries(v)) = v
    /\ SeenPhase(Cancelled) = "completed" /\ SeenVerdict(Cancelled) = None
    /\ SeenPhase(CancelledRefused) = "completed" /\ SeenVerdict(CancelledRefused) = None
    /\ \A v : SeenPhase(CancelledCarries(v)) = "completed" /\ SeenVerdict(CancelledCarries(v)) = None
<1>1. SeenPhase(<<>>) = "new" /\ SeenVerdict(<<>>) = None
  BY DEF SeenPhase, SeenVerdict, Artifacts
<1>2. SeenPhase(Opened) = "working" /\ SeenVerdict(Opened) = None
  <2>1. DOMAIN Opened = 1 .. 2 /\ Opened # <<>> /\ Len(Opened) = 2
    BY DEF Opened
  <2>2. Endings(Opened) = {} /\ Artifacts(Opened) = {}
    BY <2>1, Events DEF Opened, Endings, TerminalStates, Artifacts
  <2>3. Opened[2] = Status("WORKING")
    BY DEF Opened
  <2>4. Opened[2] # Status("COMPLETED") /\ Opened[2] # Status("FAILED")
    BY <2>3, Events
  <2>5. Seen(Opened) = Opened
    BY <2>2 DEF Seen
  <2>6. SeenPhase(Opened) = "working"
    BY <2>1, <2>4, <2>5 DEF SeenPhase
  <2> QED
    BY <2>2, <2>6 DEF SeenVerdict
<1>3. SeenPhase(Unread) = "failed" /\ SeenVerdict(Unread) = None
  <2>1. DOMAIN Unread = 1 .. 3 /\ Unread # <<>>
    BY DEF Unread
  <2>2. Unread[2] = Status("FAILED") /\ FirstEnding(Unread, 2)
    BY <2>1, Events DEF Unread, TerminalStates, FirstEnding
  <2>3. Artifacts(Unread) = {}
    BY <2>1, Events DEF Unread, Artifacts
  <2>4. SeenPhase(Unread) = "failed"
    BY <2>2, SeenUpTo, Events
  <2> QED
    BY <2>3, <2>4 DEF SeenVerdict
<1>4. SeenPhase(Refused) = "failed" /\ SeenVerdict(Refused) = None
  <2>1. DOMAIN Refused = 1 .. 4 /\ Refused # <<>>
    BY DEF Refused
  <2>2. Refused[3] = Status("FAILED") /\ FirstEnding(Refused, 3)
    BY <2>1, Events DEF Refused, TerminalStates, FirstEnding
  <2>3. Artifacts(Refused) = {}
    BY <2>1, Events DEF Refused, Artifacts
  <2>4. SeenPhase(Refused) = "failed"
    BY <2>2, SeenUpTo, Events
  <2> QED
    BY <2>3, <2>4 DEF SeenVerdict
<1>5. ASSUME NEW v PROVE SeenPhase(Carries(v)) = "completed" /\ SeenVerdict(Carries(v)) = v
  <2> DEFINE w == Carries(v)
  <2>1. DOMAIN w = 1 .. 5 /\ w # <<>>
    BY DEF Carries
  <2>2. w[4] = Status("COMPLETED") /\ FirstEnding(w, 4)
    BY <2>1, Events DEF Carries, TerminalStates, FirstEnding
  <2>3. Artifacts(w) = {3} /\ w[3] = Artifact(v)
    BY <2>1, Events DEF Carries, Artifacts
  <2> HIDE DEF w
  <2>4. SeenPhase(w) = "completed" /\ DOMAIN Seen(w) = 1 .. 4
    BY <2>2, SeenUpTo
  <2>5. Artifacts(w) \cap DOMAIN Seen(w) = {3} /\ Min({3}) = 3
    BY <2>3, <2>4, MinIs
  <2>6. w[3].result = v
    BY <2>3, Events
  <2>7. SeenVerdict(w) = v
    BY <2>5, <2>6 DEF SeenVerdict
  <2> QED
    BY <2>4, <2>7 DEF w
<1>6. SeenPhase(Cancelled) = "completed" /\ SeenVerdict(Cancelled) = None
  <2>1. DOMAIN Cancelled = 1 .. 4 /\ Cancelled # <<>>
    BY DEF Cancelled
  <2>2. Cancelled[3] = Status("COMPLETED") /\ FirstEnding(Cancelled, 3)
    BY <2>1, Events DEF Cancelled, TerminalStates, FirstEnding
  <2>3. Artifacts(Cancelled) = {}
    BY <2>1, Events DEF Cancelled, Artifacts
  <2>4. SeenPhase(Cancelled) = "completed"
    BY <2>2, SeenUpTo
  <2> QED
    BY <2>3, <2>4 DEF SeenVerdict
<1>7. SeenPhase(CancelledRefused) = "completed" /\ SeenVerdict(CancelledRefused) = None
  <2> DEFINE w == CancelledRefused
  <2>1. DOMAIN w = 1 .. 6 /\ w # <<>>
    BY DEF CancelledRefused
  <2>2. w[3] = Status("COMPLETED") /\ FirstEnding(w, 3)
    BY <2>1, Events DEF CancelledRefused, TerminalStates, FirstEnding
  <2>3. Artifacts(w) = {}
    BY <2>1, Events DEF CancelledRefused, Artifacts
  <2> HIDE DEF w
  <2>4. SeenPhase(w) = "completed"
    BY <2>2, SeenUpTo
  <2>5. SeenVerdict(w) = None
    BY <2>3 DEF SeenVerdict
  <2> QED
    BY <2>4, <2>5 DEF w
<1>8. ASSUME NEW v
      PROVE  SeenPhase(CancelledCarries(v)) = "completed" /\ SeenVerdict(CancelledCarries(v)) = None
  <2> DEFINE w == CancelledCarries(v)
  <2>1. DOMAIN w = 1 .. 7 /\ w # <<>>
    BY DEF CancelledCarries
  <2>2. w[3] = Status("COMPLETED") /\ FirstEnding(w, 3)
    BY <2>1, Events DEF CancelledCarries, TerminalStates, FirstEnding
  <2>3. Artifacts(w) = {5}
    BY <2>1, Events DEF CancelledCarries, Artifacts
  <2> HIDE DEF w
  <2>4. SeenPhase(w) = "completed" /\ DOMAIN Seen(w) = 1 .. 3
    BY <2>2, SeenUpTo
  <2>5. SeenVerdict(w) = None
    BY <2>3, <2>4 DEF SeenVerdict
  <2> QED
    BY <2>4, <2>5 DEF w
<1> QED
  BY <1>1, <1>2, <1>3, <1>4, <1>5, <1>6, <1>7, <1>8

-----------------------------------------------------------------------------
(* The tasks                                                               *)

\* What a task whose call is x, whose executor is at e and of which c says
\* whether it was cancelled has published.
TaskSound(x, e, b, c) ==
    /\ e = "idle" => x.state = "idle" /\ b = <<>> /\ ~c
    /\ e = "awaiting" => x.state # "idle" /\ b = IF c THEN Cancelled ELSE Opened
    /\ e = "done" =>
          /\ x.state \notin {"cli", "component"}
          /\ IF c THEN b = CancelledRefused \/ \E v \in Verdicts : b = CancelledCarries(v)
             ELSE \/ /\ b = Unread \/ b = Refused
                     /\ x.state = "answered" => x.answer.decision = None
                  \/ \E v \in Verdicts \cup {Commitment} :
                        b = Carries(v) /\ (x.state = "answered" => x.answer = v)

TaskInv ==
    /\ EngineInv
    /\ executor \in [Tasks -> {"idle", "awaiting", "done"}]
    /\ bus = [t \in Tasks |-> bus[t]]
    /\ cancelled \subseteq Tasks
    /\ \A t \in Tasks : TaskSound(call[t], executor[t], bus[t], t \in cancelled)

\* A stream is closed in every sequence but those of a task still open.
LEMMA ClosedShapes ==
    /\ Closed(Cancelled) /\ Closed(CancelledRefused) /\ Closed(Unread) /\ Closed(Refused)
    /\ \A v : Closed(CancelledCarries(v)) /\ Closed(Carries(v))
<1>1. Closed(Unread) /\ Closed(Refused) /\ Closed(Cancelled)
  BY DEF Closed, Unread, Refused, Cancelled
<1>2. Closed(CancelledRefused)
  <2>1. 6 \in DOMAIN CancelledRefused /\ CancelledRefused[6] = Finished
    BY DEF CancelledRefused
  <2> QED
    BY <2>1 DEF Closed
<1>3. ASSUME NEW v PROVE Closed(Carries(v))
  <2>1. 5 \in DOMAIN Carries(v) /\ Carries(v)[5] = Finished
    BY DEF Carries
  <2> QED
    BY <2>1 DEF Closed
<1>4. ASSUME NEW v PROVE Closed(CancelledCarries(v))
  <2>1. 4 \in DOMAIN CancelledCarries(v) /\ CancelledCarries(v)[4] = Finished
    BY DEF CancelledCarries
  <2> QED
    BY <2>1 DEF Closed
<1> QED
  BY <1>1, <1>2, <1>3, <1>4

\* What a verdict adds to the stream.
LEMMA CompletesIs ==
    ASSUME NEW v
    PROVE  Completes(v) = <<Artifact(v), Status("COMPLETED"), Finished>>
  BY Cat12 DEF Completes, Ends

\* What execute publishes up to its await, or to its end.
LEMMA AtOnceShape ==
    ASSUME NEW m
    PROVE  <<>> \o (<<Status("SUBMITTED")>> \o AtOnce(m)) =
              IF m.skill = "unreadable" THEN Unread
              ELSE IF Awaits(m) THEN Opened
              ELSE IF m.skill = "bind-credential" /\ m.valid THEN Carries(Commitment)
              ELSE Refused
<1> DEFINE E == {Status("SUBMITTED"), Status("WORKING"), Status("COMPLETED"), Status("FAILED"),
                 Artifact(Commitment), Finished}
<1>1. /\ <<Status("WORKING")>> \in Seq(E) /\ Opened \in Seq(E) /\ Unread \in Seq(E)
      /\ Refused \in Seq(E) /\ Carries(Commitment) \in Seq(E)
  BY DEF Opened, Unread, Refused, Carries
<1> HIDE DEF E
<1>2. /\ <<Status("WORKING")>> \o <<>> = <<Status("WORKING")>>
      /\ <<>> \o Opened = Opened /\ <<>> \o Unread = Unread
      /\ <<>> \o Refused = Refused /\ <<>> \o Carries(Commitment) = Carries(Commitment)
  BY <1>1, CatEmpty
<1>3. <<Status("SUBMITTED")>> \o Ends("FAILED") = Unread
  BY Cat12 DEF Ends, Unread
<1>4. <<Status("SUBMITTED")>> \o (<<Status("WORKING")>> \o <<>>) = Opened
  BY <1>2, Cat11 DEF Opened
<1>5. <<Status("SUBMITTED")>> \o (<<Status("WORKING")>> \o Ends("FAILED")) = Refused
  <2>1. <<Status("WORKING")>> \o Ends("FAILED") = <<Status("WORKING"), Status("FAILED"), Finished>>
    BY Cat12 DEF Ends
  <2>2. <<Status("SUBMITTED")>> \o <<Status("WORKING"), Status("FAILED"), Finished>> = Refused
    BY Cat13 DEF Refused
  <2> QED
    BY <2>1, <2>2
<1>6. <<Status("SUBMITTED")>> \o (<<Status("WORKING")>> \o Completes(Commitment)) = Carries(Commitment)
  <2> DEFINE three == <<Artifact(Commitment), Status("COMPLETED"), Finished>>
             four == <<Status("WORKING"), Artifact(Commitment), Status("COMPLETED"), Finished>>
  <2>1. <<Status("WORKING")>> \o three = four
    BY Cat13
  <2>2. <<Status("SUBMITTED")>> \o four = Carries(Commitment)
    BY Cat14 DEF Carries
  <2>3. Completes(Commitment) = three
    BY CompletesIs
  <2> HIDE DEF three, four
  <2> QED
    BY <2>1, <2>2, <2>3
<1> QED
  BY <1>2, <1>3, <1>4, <1>5, <1>6 DEF AtOnce, Awaits

\* execute() opens the bus of a task nobody opened, and leaves it in one of the
\* four shapes it can return with or wait in.
LEMMA ExecuteStep ==
    ASSUME TaskInv, NEW t \in Tasks, NEW m \in Messages, execute(t, m)
    PROVE  /\ TaskInv'
           /\ bus[t] = <<>> /\ UNCHANGED cancelled
           /\ \E to : /\ bus' = [bus EXCEPT ![t] = to]
                      /\ to \in {Unread, Opened, Refused, Carries(Commitment)}
<1> DEFINE to == IF m.skill = "unreadable" THEN Unread
                 ELSE IF Awaits(m) THEN Opened
                 ELSE IF m.skill = "bind-credential" /\ m.valid THEN Carries(Commitment)
                 ELSE Refused
<1>1. executor[t] = "idle" /\ call[t].state = "idle" /\ bus[t] = <<>> /\ t \notin cancelled
  BY DEF TaskInv, TaskSound, execute
<1>2. bus' = [bus EXCEPT ![t] = to] /\ UNCHANGED cancelled
  <2>1. bus' = [bus EXCEPT ![t] = bus[t] \o (<<Status("SUBMITTED")>> \o AtOnce(m))]
    BY DEF execute, Publish
  <2> QED
    BY <2>1, <1>1, AtOnceShape DEF execute
<1>3. executor' = [executor EXCEPT ![t] = IF Awaits(m) THEN "awaiting" ELSE "done"]
  BY DEF execute
<1>4. /\ EngineInv'
      /\ \A u \in Tasks : u # t => call'[u] = call[u]
      /\ Awaits(m) => call'[t].state # "idle"
      /\ ~Awaits(m) => call'[t] = call[t]
  <2>1. m.args \in Args /\ EngineInv
    BY MessagesAssumption DEF TaskInv
  <2>2. CASE Awaits(m)
    <3>1. decideWith(t, m.args)
      BY <2>2 DEF execute
    <3>2. EngineInv'
      BY <2>1, <3>1, CallStarts DEF Tasks
    <3> QED
      BY <2>1, <2>2, <3>1, <3>2 DEF decideWith, EngineInv, EngineTypeOK, Tasks
  <2>3. CASE ~Awaits(m)
    <3>1. UNCHANGED engineVars
      BY <2>3 DEF execute
    <3> QED
      BY <2>1, <2>3, <3>1 DEF engineVars, EngineInv, EngineTypeOK
  <2> QED
    BY <2>2, <2>3
<1>5. m.skill = "unreadable" => ~Awaits(m)
  BY DEF Awaits
<1>6. TaskSound(call'[t], executor'[t], bus'[t], t \in cancelled')
  <2>1. executor'[t] = (IF Awaits(m) THEN "awaiting" ELSE "done") /\ bus'[t] = to
    BY <1>2, <1>3 DEF TaskInv
  <2> QED
    BY <2>1, <1>1, <1>2, <1>4, <1>5 DEF TaskSound
<1>7. \A u \in Tasks : TaskSound(call'[u], executor'[u], bus'[u], u \in cancelled')
  <2> HIDE DEF to
  <2> QED
    BY <1>2, <1>3, <1>4, <1>6 DEF TaskInv
<1>8. TaskInv'
  <2> HIDE DEF to
  <2> QED
    BY <1>2, <1>3, <1>4, <1>7 DEF TaskInv
<1> QED
  BY <1>1, <1>2, <1>8

\* A settled decision is published only to a task that waits for it, with its
\* verdict or as a failure; a task that was canceled hears nothing of it.
LEMMA ConcludeStep ==
    ASSUME TaskInv, NEW t \in Tasks, Conclude(t)
    PROVE  /\ TaskInv' /\ UNCHANGED cancelled
           /\ \E to :
                 /\ bus' = [bus EXCEPT ![t] = to]
                 /\ \/ /\ bus[t] = Opened
                       /\ to = Refused \/ \E v \in Verdicts : to = Carries(v)
                    \/ /\ bus[t] = Cancelled
                       /\ to = CancelledRefused \/ \E v \in Verdicts : to = CancelledCarries(v)
<1> DEFINE c == t \in cancelled
           v == call[t].answer
           to == IF Decided(t) THEN IF c THEN CancelledCarries(v) ELSE Carries(v)
                 ELSE IF c THEN CancelledRefused ELSE Refused
<1>1. /\ executor[t] = "awaiting" /\ call[t].state \in {"answered", "failed"}
      /\ bus[t] = IF c THEN Cancelled ELSE Opened
  BY DEF TaskInv, TaskSound, Conclude
<1>2. Decided(t) => v \in Verdicts
  BY DEF Decided, TaskInv, EngineInv, CallSound, VerdictSound, BadInput, Tasks
<1>3. /\ Opened \o Ends("FAILED") = Refused
      /\ Cancelled \o Ends("FAILED") = CancelledRefused
      /\ Opened \o Completes(v) = Carries(v)
      /\ Cancelled \o Completes(v) = CancelledCarries(v)
  <2> HIDE DEF v
  <2>1. Opened \o Ends("FAILED") = Refused
    BY Cat22 DEF Opened, Ends, Refused
  <2>2. Cancelled \o Ends("FAILED") = CancelledRefused
    BY Cat42 DEF Cancelled, Ends, CancelledRefused
  <2>3. Opened \o <<Artifact(v), Status("COMPLETED"), Finished>> = Carries(v)
    BY Cat23 DEF Opened, Carries
  <2>4. Cancelled \o <<Artifact(v), Status("COMPLETED"), Finished>> = CancelledCarries(v)
    BY Cat43 DEF Cancelled, CancelledCarries
  <2>5. Completes(v) = <<Artifact(v), Status("COMPLETED"), Finished>>
    BY CompletesIs
  <2> QED
    BY <2>1, <2>2, <2>3, <2>4, <2>5
<1>4. bus' = [bus EXCEPT ![t] = to]
  BY <1>1, <1>3 DEF Conclude, Publish
<1>5. /\ executor' = [executor EXCEPT ![t] = "done"]
      /\ UNCHANGED <<engineVars, cancelled>> /\ UNCHANGED call
  BY DEF Conclude, engineVars
<1>6. TaskSound(call'[t], executor'[t], bus'[t], t \in cancelled')
  <2>1. executor'[t] = "done" /\ bus'[t] = to
    BY <1>4, <1>5 DEF TaskInv
  <2> HIDE DEF c, v
  <2>2. call[t].state = "answered" => (Decided(t) <=> call[t].answer.decision # None)
    BY DEF Decided
  <2>3. Decided(t) => call[t].state = "answered" /\ call[t].answer = v
    BY DEF Decided, v
  <2>4. t \in cancelled' <=> c
    BY <1>5 DEF c
  <2> QED
    BY <2>1, <2>2, <2>3, <2>4, <1>1, <1>2, <1>5 DEF TaskSound
<1>7. \A u \in Tasks : TaskSound(call'[u], executor'[u], bus'[u], u \in cancelled')
  <2> HIDE DEF to
  <2> QED
    BY <1>4, <1>5, <1>6 DEF TaskInv
<1>8. EngineInv'
  BY <1>5 DEF TaskInv, EngineInv, EngineTypeOK, engineVars
<1>9. TaskInv'
  <2> HIDE DEF to
  <2> QED
    BY <1>4, <1>5, <1>7, <1>8 DEF TaskInv
<1> QED
  BY <1>1, <1>2, <1>4, <1>5, <1>9

\* cancelTask() ends a task that waits, and no other.
LEMMA CancelStep ==
    ASSUME TaskInv, NEW t \in Tasks, cancelTask(t)
    PROVE  /\ TaskInv' /\ cancelled' = cancelled \cup {t}
           /\ bus[t] = Opened /\ bus' = [bus EXCEPT ![t] = Cancelled]
<1>1. executor[t] # "idle" /\ ~Closed(bus[t])
  BY DEF cancelTask
<1>2. executor[t] = "awaiting" /\ bus[t] = Opened
  BY <1>1, ClosedShapes DEF TaskInv, TaskSound
<1>3. Opened \o Ends("COMPLETED") = Cancelled
  BY Cat22 DEF Opened, Ends, Cancelled
<1>4. /\ bus' = [bus EXCEPT ![t] = Cancelled] /\ cancelled' = cancelled \cup {t}
      /\ UNCHANGED executor /\ UNCHANGED engineVars
  BY <1>2, <1>3 DEF cancelTask, Publish
<1>5. EngineInv' /\ UNCHANGED call
  BY <1>4 DEF TaskInv, EngineInv, EngineTypeOK, engineVars
<1>6. \A u \in Tasks : TaskSound(call'[u], executor'[u], bus'[u], u \in cancelled')
  <2> SUFFICES ASSUME NEW u \in Tasks
               PROVE  TaskSound(call'[u], executor'[u], bus'[u], u \in cancelled')
    OBVIOUS
  <2>1. CASE u = t
    BY <2>1, <1>2, <1>4, <1>5 DEF TaskSound, TaskInv
  <2>2. CASE u # t
    BY <2>2, <1>4, <1>5 DEF TaskInv
  <2> QED
    BY <2>1, <2>2
<1>7. TaskInv'
  BY <1>4, <1>5, <1>6 DEF TaskInv
<1> QED
  BY <1>2, <1>4, <1>7

\* What the engines do by themselves is seen on no bus.
LEMMA EngineMoves ==
    ASSUME TaskInv, EngineStep
    PROVE  TaskInv' /\ UNCHANGED <<bus, cancelled>>
<1>1. UNCHANGED <<executor, bus, cancelled>>
  BY DEF EngineStep
<1>2. ASSUME EngineInv', \A u \in Tasks : TaskSound(call'[u], executor[u], bus[u], u \in cancelled)
      PROVE  TaskInv'
  BY <1>1, <1>2 DEF TaskInv
<1>3. CASE GateLoads \/ Build \/ Tick
  BY <1>1, <1>2, <1>3, WorldMoves DEF TaskInv
<1>4. ASSUME NEW t \in Tasks, Settles(t) PROVE TaskInv'
  <2>1. /\ EngineInv' /\ call[t].state \in {"cli", "component"}
        /\ \A d \in Tasks : d # t => call'[d] = call[d]
        /\ call'[t].state \in {"answered", "failed"}
    BY <1>4, CallSettles DEF TaskInv, Tasks
  <2>2. executor[t] = "awaiting"
    BY <2>1 DEF TaskInv, TaskSound
  <2>3. TaskSound(call'[t], executor[t], bus[t], t \in cancelled)
    BY <2>1, <2>2 DEF TaskInv, TaskSound
  <2>4. \A u \in Tasks : TaskSound(call'[u], executor[u], bus[u], u \in cancelled)
    BY <2>1, <2>3 DEF TaskInv
  <2> QED
    BY <2>1, <2>4, <1>2
<1> QED
  BY <1>1, <1>3, <1>4 DEF EngineStep

\* The invariant holds at the start.
LEMMA TaskStart == ASSUME TaskInit PROVE TaskInv
<1>1. EngineInv
  BY EngineStart DEF TaskInit
<1>2. \A t \in Tasks : call[t].state = "idle"
  BY DEF TaskInit, EngineInit, NotCalled, Tasks
<1> QED
  BY <1>1, <1>2 DEF TaskInit, TaskInv, TaskSound

\* The invariant holds in every reachable state.
LEMMA TaskInvCorrect == TaskSpec => []TaskInv
<1>1. TaskInit => TaskInv
  BY TaskStart
<1>2. ASSUME TaskInv, [TaskNext]_taskVars PROVE TaskInv'
  <2>1. CASE UNCHANGED taskVars
    <3>1. UNCHANGED <<now, built, shared, call>> /\ UNCHANGED <<executor, bus, cancelled>>
      BY <2>1 DEF taskVars, engineVars
    <3>2. EngineInv'
      BY <3>1, <1>2 DEF TaskInv, EngineInv, EngineTypeOK
    <3> QED
      BY <3>1, <3>2, <1>2 DEF TaskInv
  <2> QED
    BY <2>1, <1>2, ExecuteStep, ConcludeStep, CancelStep, EngineMoves DEF TaskNext
<1> QED
  BY <1>1, <1>2, PTL DEF TaskSpec

\* Every verdict is about an instant between its request and its answer, or
\* about the one its caller named, for any number of concurrent calls.
THEOREM VerdictsAreFresh == TaskSpec => []EvaluatedWhileAsked
<1>1. TaskInv => EvaluatedWhileAsked
  BY EngineInvImplies DEF TaskInv
<1> QED
  BY <1>1, TaskInvCorrect, PTL

\* What the component approves gate_cli would approve at that instant, unless
\* the mandate makes a demand only gate_cli checks.
THEOREM ComponentAsStrict == TaskSpec => []ComponentIsNoLaxer
<1>1. TaskInv => ComponentIsNoLaxer
  BY EngineInvImplies DEF TaskInv
<1> QED
  BY <1>1, TaskInvCorrect, PTL

-----------------------------------------------------------------------------
(* Completed tasks                                                         *)

\* An open or a failed task has no artifact and is not completed.
LEMMA CarryNothing ==
    ASSUME NEW w \in {<<>>, Opened, Unread, Refused}
    PROVE  Artifacts(w) = {} /\ ~Published(w, Status("COMPLETED"))
<1>1. CASE w = <<>>
  BY <1>1 DEF Artifacts, Published
<1>2. CASE w = Opened
  BY <1>2, Events DEF Artifacts, Published, Opened
<1>3. CASE w = Unread
  BY <1>3, Events DEF Artifacts, Published, Unread
<1>4. CASE w = Refused
  BY <1>4, Events DEF Artifacts, Published, Refused
<1> QED
  BY <1>1, <1>2, <1>3, <1>4

\* A completed one has one, which is its verdict.
LEMMA CarryOne ==
    ASSUME NEW v
    PROVE  /\ Artifacts(Carries(v)) = {3} /\ Carries(v)[3].result = v
           /\ Published(Carries(v), Status("COMPLETED")) /\ Published(Carries(v), Artifact(v))
<1> DEFINE w == Carries(v)
<1>1. /\ DOMAIN w = 1 .. 5 /\ w[3] = Artifact(v) /\ w[4] = Status("COMPLETED")
      /\ w[1] = Status("SUBMITTED") /\ w[2] = Status("WORKING") /\ w[5] = Finished
  BY DEF Carries
<1> HIDE DEF w
<1>2. Artifacts(w) = {3}
  BY <1>1, Events DEF Artifacts
<1>3. Published(w, Status("COMPLETED")) /\ Published(w, Artifact(v))
  BY <1>1 DEF Published
<1>4. w[3].result = v
  BY <1>1, Events
<1> QED
  BY <1>2, <1>3, <1>4 DEF w

\* A task nobody cancelled that is completed carries the verdict of its own
\* call in its only artifact; one that is not completed carries none.
THEOREM VerdictsAreCarried == TaskSpec => []CompletedCarriesItsVerdict
<1>1. ASSUME TaskInv, NEW t \in Tasks \ cancelled
      PROVE  /\ Published(bus[t], Status("COMPLETED")) <=> Artifacts(bus[t]) # {}
             /\ Cardinality(Artifacts(bus[t])) <= 1
             /\ (executor[t] = "done" /\ Decided(t)) => Published(bus[t], Artifact(call[t].answer))
             /\ \A i \in Artifacts(bus[t]) : bus[t][i].result # BadInput
  <2>1. /\ TaskSound(call[t], executor[t], bus[t], t \in cancelled) /\ t \notin cancelled
        /\ executor[t] \in {"idle", "awaiting", "done"}
    BY <1>1 DEF TaskInv
  <2>2. CASE /\ bus[t] \in {<<>>, Opened, Unread, Refused}
             /\ executor[t] = "done" => ~Decided(t)
    <3>1. Artifacts(bus[t]) = {} /\ ~Published(bus[t], Status("COMPLETED"))
      BY <2>2, CarryNothing
    <3>2. Cardinality({}) = 0
      BY FS_EmptySet
    <3> QED
      BY <3>1, <3>2, <2>2
  <2>3. ASSUME NEW v \in Verdicts \cup {Commitment}, bus[t] = Carries(v),
               call[t].state = "answered" => call[t].answer = v
        PROVE  /\ Published(bus[t], Status("COMPLETED")) <=> Artifacts(bus[t]) # {}
               /\ Cardinality(Artifacts(bus[t])) <= 1
               /\ (executor[t] = "done" /\ Decided(t)) => Published(bus[t], Artifact(call[t].answer))
               /\ \A i \in Artifacts(bus[t]) : bus[t][i].result # BadInput
    <3>1. Cardinality({3}) = 1
      BY FS_Singleton
    <3>2. v # BadInput
      BY ResultsAssumption
    <3> QED
      BY SMTT(30), <3>1, <3>2, <2>3, CarryOne DEF Decided
  <2>4. \/ bus[t] \in {<<>>, Opened, Unread, Refused} /\ (executor[t] = "done" => ~Decided(t))
        \/ \E v \in Verdicts \cup {Commitment} :
              bus[t] = Carries(v) /\ (call[t].state = "answered" => call[t].answer = v)
    BY <2>1 DEF TaskSound, Decided
  <2> QED
    BY <2>2, <2>3, <2>4
<1>2. TaskInv => CompletedCarriesItsVerdict
  BY <1>1 DEF CompletedCarriesItsVerdict
<1> QED
  BY <1>2, TaskInvCorrect, PTL

-----------------------------------------------------------------------------
(* What a peer sees                                                        *)

Phases == [t \in Tasks |-> SeenPhase(bus[t])]
Seens == [t \in Tasks |-> SeenVerdict(bus[t])]

\* A step of one task's stream is a step of what is seen of that task.
LEMMA SeenStep ==
    ASSUME TaskInv, NEW t \in Tasks, NEW to, bus' = [bus EXCEPT ![t] = to]
    PROVE  /\ Phases[t] = SeenPhase(bus[t]) /\ Seens[t] = SeenVerdict(bus[t])
           /\ Phases' = [Phases EXCEPT ![t] = SeenPhase(to)]
           /\ Seens' = [Seens EXCEPT ![t] = SeenVerdict(to)]
           /\ Seens'[t] = SeenVerdict(to)
<1>1. bus'[t] = to /\ \A u \in Tasks : u # t => bus'[u] = bus[u]
  BY DEF TaskInv
<1>2. Phases' = [Phases EXCEPT ![t] = SeenPhase(to)]
  <2>1. \A u \in Tasks : SeenPhase(bus'[u]) = IF u = t THEN SeenPhase(to) ELSE SeenPhase(bus[u])
    BY <1>1
  <2> QED
    BY <2>1 DEF Phases
<1>3. Seens' = [Seens EXCEPT ![t] = SeenVerdict(to)] /\ Seens'[t] = SeenVerdict(to)
  <2>1. \A u \in Tasks : SeenVerdict(bus'[u]) = IF u = t THEN SeenVerdict(to) ELSE SeenVerdict(bus[u])
    BY <1>1
  <2> QED
    BY <2>1 DEF Seens
<1> QED
  BY <1>2, <1>3 DEF Phases, Seens

\* What is seen moves from open to open, completed or failed.
LEMMA LifeMoves ==
    ASSUME NEW t \in Tasks, Phases[t] \in {"new", "working"},
           NEW p, NEW v, Seens[t] = None,
           Phases' = [Phases EXCEPT ![t] = p], Seens' = [Seens EXCEPT ![t] = v], Seens'[t] = v
    PROVE  /\ (p = "working" /\ Phases[t] = "new" /\ v = None /\ UNCHANGED cancelled) => Life!Open(t)
           /\ (p = "failed" /\ v = None /\ UNCHANGED cancelled) => Life!Fail(t)
           /\ (p = "completed" /\ v # None /\ UNCHANGED cancelled) => Life!Complete(t)
           /\ (p = "completed" /\ v = None /\ Phases[t] = "working" /\ cancelled' = cancelled \cup {t})
                 => Life!Cancel(t)
<1>1. v = None => Seens' = Seens
  BY DEF Seens
<1> QED
  BY <1>1 DEF Phases, Seens, Life!Open, Life!Fail, Life!Complete, Life!Cancel

\* Every step the server takes is a step of TaskLife or shows nothing.
LEMMA TaskStepRefines ==
    ASSUME TaskInv, [TaskNext]_taskVars
    PROVE  [Life!Next]_<<Phases, Seens, cancelled>>
<1>1. ASSUME NEW t \in Tasks, NEW m \in Messages, execute(t, m) PROVE Life!Next
  <2>1. bus[t] = <<>> /\ UNCHANGED cancelled
    BY <1>1, ExecuteStep
  <2>2. PICK to \in {Unread, Opened, Refused, Carries(Commitment)} : bus' = [bus EXCEPT ![t] = to]
    BY <1>1, ExecuteStep
  <2>3. Commitment # None
    BY ResultsAssumption
  <2>4. /\ Phases[t] = "new" /\ Seens[t] = None
        /\ Phases' = [Phases EXCEPT ![t] = SeenPhase(to)]
        /\ Seens' = [Seens EXCEPT ![t] = SeenVerdict(to)] /\ Seens'[t] = SeenVerdict(to)
    BY <2>1, <2>2, SeenStep, Views
  <2>5. \/ SeenPhase(to) = "failed" /\ SeenVerdict(to) = None
        \/ SeenPhase(to) = "working" /\ SeenVerdict(to) = None
        \/ SeenPhase(to) = "completed" /\ SeenVerdict(to) # None
    BY <2>2, <2>3, Views
  <2>6. Life!Open(t) \/ Life!Fail(t) \/ Life!Complete(t)
    BY <2>1, <2>4, <2>5, LifeMoves
  <2> QED
    BY <2>6 DEF Life!Next
<1>2. ASSUME NEW t \in Tasks, Conclude(t) PROVE Life!Next \/ UNCHANGED <<Phases, Seens, cancelled>>
  <2>1. UNCHANGED cancelled
    BY <1>2, ConcludeStep
  <2>2. PICK to :
          /\ bus' = [bus EXCEPT ![t] = to]
          /\ \/ /\ bus[t] = Opened
                /\ to = Refused \/ \E v \in Verdicts : to = Carries(v)
             \/ /\ bus[t] = Cancelled
                /\ to = CancelledRefused \/ \E v \in Verdicts : to = CancelledCarries(v)
    BY <1>2, ConcludeStep
  <2>3. /\ Phases[t] = SeenPhase(bus[t]) /\ Seens[t] = SeenVerdict(bus[t])
        /\ Phases' = [Phases EXCEPT ![t] = SeenPhase(to)]
        /\ Seens' = [Seens EXCEPT ![t] = SeenVerdict(to)] /\ Seens'[t] = SeenVerdict(to)
    BY <2>2, SeenStep
  <2>4. CASE bus[t] = Opened /\ (to = Refused \/ \E v \in Verdicts : to = Carries(v))
    <3>1. Phases[t] = "working" /\ Seens[t] = None
      BY <2>3, <2>4, Views
    <3>2. \/ SeenPhase(to) = "failed" /\ SeenVerdict(to) = None
          \/ SeenPhase(to) = "completed" /\ SeenVerdict(to) # None
      BY <2>4, Views, ResultsAssumption
    <3>3. Life!Fail(t) \/ Life!Complete(t)
      BY <2>1, <2>3, <3>1, <3>2, LifeMoves
    <3> QED
      BY <3>3 DEF Life!Next
  <2>5. CASE bus[t] = Cancelled /\ (to = CancelledRefused \/ \E v \in Verdicts : to = CancelledCarries(v))
    <3>1. SeenPhase(to) = SeenPhase(bus[t]) /\ SeenVerdict(to) = SeenVerdict(bus[t])
      BY <2>5, Views
    <3>2. UNCHANGED <<Phases, Seens>>
      BY <2>3, <3>1 DEF Phases, Seens
    <3> QED
      BY <2>1, <3>2
  <2> QED
    BY <2>2, <2>4, <2>5
<1>3. ASSUME NEW t \in Tasks, cancelTask(t) PROVE Life!Next
  <2>1. /\ cancelled' = cancelled \cup {t}
        /\ bus[t] = Opened /\ bus' = [bus EXCEPT ![t] = Cancelled]
    BY <1>3, CancelStep
  <2>2. /\ Phases[t] = "working" /\ Seens[t] = None
        /\ Phases' = [Phases EXCEPT ![t] = "completed"]
        /\ Seens' = [Seens EXCEPT ![t] = None] /\ Seens'[t] = None
    <3>1. /\ SeenPhase(Opened) = "working" /\ SeenVerdict(Opened) = None
          /\ SeenPhase(Cancelled) = "completed" /\ SeenVerdict(Cancelled) = None
      BY Views
    <3>2. /\ Phases[t] = SeenPhase(bus[t]) /\ Seens[t] = SeenVerdict(bus[t])
          /\ Phases' = [Phases EXCEPT ![t] = SeenPhase(Cancelled)]
          /\ Seens' = [Seens EXCEPT ![t] = SeenVerdict(Cancelled)]
          /\ Seens'[t] = SeenVerdict(Cancelled)
      BY <2>1, SeenStep
    <3> QED
      BY <2>1, <3>1, <3>2
  <2>3. Life!Cancel(t)
    BY <2>1, <2>2, LifeMoves
  <2> QED
    BY <2>3 DEF Life!Next
<1>4. CASE EngineStep
  BY <1>4, EngineMoves DEF Phases, Seens
<1>5. CASE UNCHANGED taskVars
  BY <1>5 DEF taskVars, Phases, Seens
<1> QED
  BY <1>1, <1>2, <1>3, <1>4, <1>5 DEF TaskNext

\* The server implements what TaskLife promises a peer that reads up to the
\* first terminal state: no task is opened or ended twice, and a verdict once
\* seen never changes.
THEOREM TaskRefinement == TaskSpec => ImplementsTaskLife
<1>1. TaskInit => Life!Init
  BY Views DEF TaskInit, Life!Init
<1>2. ASSUME TaskInv, [TaskNext]_taskVars PROVE [Life!Next]_Life!vars
  BY <1>2, TaskStepRefines DEF Phases, Seens, Life!vars
<1> QED
  BY <1>1, <1>2, TaskInvCorrect, PTL DEF TaskSpec, ImplementsTaskLife, Life!Spec
=============================================================================
