---------------------------- MODULE ExecuteProofs ----------------------------
(***************************************************************************)
(* The two callers of executeContract.  The tool gate_execute: what it     *)
(* promises for any number of orders, calls and retries.  A run of the     *)
(* agent: its orders leave once and only after its check, which is         *)
(* answered truthfully, and its quota is waited out.                       *)
(*                                                                         *)
(* CallSound: how far a call's handler and its execution are, what it has  *)
(* sent, and what is on record of it.  PairSound, for a patient host: of   *)
(* two calls the earlier was answered before the later was made; so when   *)
(* the later one reads the record, what the earlier one sent is on it,     *)
(* unless the earlier one is loose, or the later one cannot read it.       *)
(*                                                                         *)
(* RevInv: a document that is written or served names in its bits what its *)
(* issuer named, and a check that is over says where its answer came from. *)
(* WaitedOut: after a refusals, whatever the node admitted fewer than      *)
(* 1 + 2 + .. + a ticks ago, less the wait to come, is nothing.            *)
(***************************************************************************)
EXTENDS McpExecute, AgentRun, FiniteSetTheorems, SequenceTheorems, TLAPS

-----------------------------------------------------------------------------
(* The tool                                                                *)

Handlers ==
    [at : {"none", "connecting", "waiting", "calling", "executing", "answered"},
     attempt : 0..Retries, answer : Answers \cup {None}]

Executions ==
    [at : {"none", "requested", "deciding", "sending", "ended"}, seen : BOOLEAN,
     outcome : Answers \cup {None}]

Typed ==
    /\ handler \in [Orders -> [1..Calls -> Handlers]]
    /\ execution \in [Orders -> [1..Calls -> Executions]]
    /\ record \in [Orders -> BOOLEAN]
    /\ sent \in [Orders -> [1..Calls -> Nat]]
    /\ blind \subseteq Orders \X (1..Calls) /\ loose \subseteq Orders \X (1..Calls)

\* A handler h with execution x, which sent n orders: is it loose, and is the
\* order on record?
Linked(h, x, isLoose) ==
    /\ h.at = "answered" <=> h.answer \in Answers
    /\ h.at = "executing" => x.at # "none"
    /\ x.at # "none" => h.at \in {"executing", "answered"}
    /\ x.at \notin {"none", "ended"} => h.at = "executing" \/ isLoose

Accounted(x, n, isLoose, recorded) ==
    /\ n <= 1
    /\ x.at \in {"none", "requested", "deciding"} => n = 0
    /\ x.at = "sending" => n = 1
    /\ x.at = "ended" /\ n = 1 => recorded \/ isLoose
    /\ x.seen => recorded
    /\ x.at = "ended" <=> x.outcome \in Answers
    /\ x.at = "deciding" => x.outcome = None

Truthful(said, n, isLoose, recorded) ==
    /\ said = "approved" => n = 1 /\ (recorded \/ isLoose)
    /\ said = "replayed" => recorded

CallSound(k, i) ==
    LET h == handler[k][i]
        x == execution[k][i]
        n == sent[k][i]
        isLoose == <<k, i>> \in loose
    IN  /\ Linked(h, x, isLoose) /\ Accounted(x, n, isLoose, record[k])
        /\ Truthful(x.outcome, n, isLoose, record[k])
        /\ Truthful(h.answer, n, isLoose, record[k])

PairSound(k, i, j) ==
    /\ handler[k][j].at # "none" => handler[k][i].at = "answered"
    /\ (sent[k][i] > 0 /\ <<k, i>> \notin loose) =>
          /\ execution[k][j].at = "deciding" /\ <<k, j>> \notin blind => execution[k][j].seen
          /\ sent[k][j] > 0 => <<k, j>> \in blind

ToolInv ==
    /\ Typed
    /\ \A k \in Orders : record[k] => \E j \in 1..Calls : sent[k][j] > 0
    /\ \A k \in Orders, i \in 1..Calls : CallSound(k, i)
    /\ Patient => \A k \in Orders, i, j \in 1..Calls : i < j => PairSound(k, i, j)

-----------------------------------------------------------------------------
(* One call moves                                                          *)

\* The other calls are left as they are; the record of the order may appear.
Elsewhere(k, i) ==
    /\ \A l \in Orders, j \in 1..Calls : (l # k \/ j # i) =>
          /\ handler'[l][j] = handler[l][j] /\ execution'[l][j] = execution[l][j]
          /\ sent'[l][j] = sent[l][j]
          /\ <<l, j>> \in blind' <=> <<l, j>> \in blind
          /\ <<l, j>> \in loose' <=> <<l, j>> \in loose
    /\ \A l \in Orders : l # k => record'[l] = record[l]
    /\ record[k] => record'[k]
    /\ sent[k][i] <= sent'[k][i]

\* A step of one call keeps the invariant if it keeps that call's part of it.
LEMMA StepKeeps ==
    ASSUME ToolInv, NEW k \in Orders, NEW i \in 1..Calls, Typed', Elsewhere(k, i), CallSound(k, i)',
           record'[k] => \E j \in 1..Calls : sent'[k][j] > 0,
           Patient => \A j \in 1..Calls :
               (i < j => PairSound(k, i, j)') /\ (j < i => PairSound(k, j, i)')
    PROVE  ToolInv'
<1>1. ASSUME NEW l \in Orders, NEW j \in 1..Calls PROVE CallSound(l, j)'
  <2>1. CASE l = k /\ j = i
    BY <2>1
  <2>2. CASE l # k \/ j # i
    <3>1. CallSound(l, j) /\ (record[l] => record'[l])
      BY DEF ToolInv, Elsewhere
    <3>2. /\ handler'[l][j] = handler[l][j] /\ execution'[l][j] = execution[l][j]
          /\ sent'[l][j] = sent[l][j] /\ (<<l, j>> \in loose' <=> <<l, j>> \in loose)
      BY <2>2 DEF Elsewhere
    <3> QED
      BY <3>1, <3>2 DEF CallSound, Linked, Accounted, Truthful
  <2> QED
    BY <2>1, <2>2
<1>2. ASSUME NEW l \in Orders PROVE record'[l] => \E j \in 1..Calls : sent'[l][j] > 0
  BY DEF ToolInv, Elsewhere
<1>3. ASSUME Patient, NEW l \in Orders, NEW a \in 1..Calls, NEW b \in 1..Calls, a < b
      PROVE  PairSound(l, a, b)'
  <2>1. CASE l = k /\ (a = i \/ b = i)
    BY <1>3, <2>1
  <2>2. CASE ~(l = k /\ (a = i \/ b = i))
    <3>1. PairSound(l, a, b)
      BY <1>3 DEF ToolInv
    <3>2. /\ handler'[l][a] = handler[l][a] /\ sent'[l][a] = sent[l][a]
          /\ <<l, a>> \in loose' <=> <<l, a>> \in loose
      BY <2>2 DEF Elsewhere
    <3>3. /\ handler'[l][b] = handler[l][b] /\ sent'[l][b] = sent[l][b]
          /\ execution'[l][b] = execution[l][b] /\ (<<l, b>> \in blind' <=> <<l, b>> \in blind)
      BY <2>2 DEF Elsewhere
    <3> QED
      BY <3>1, <3>2, <3>3 DEF PairSound
  <2> QED
    BY <2>1, <2>2
<1> QED
  BY <1>1, <1>2, <1>3 DEF ToolInv

Sound(k, i, y, x, n) ==
    LET isLoose == <<k, i>> \in loose'
        recorded == record'[k]
    IN  /\ Linked(y, x, isLoose) /\ Accounted(x, n, isLoose, recorded)
        /\ Truthful(x.outcome, n, isLoose, recorded) /\ Truthful(y.answer, n, isLoose, recorded)

Becomes(k, i, y, x, n) ==
    /\ handler' = [handler EXCEPT ![k][i] = y]
    /\ execution' = [execution EXCEPT ![k][i] = x]
    /\ sent' = [sent EXCEPT ![k][i] = n]
    /\ record' \in [Orders -> BOOLEAN]
    /\ \A l \in Orders : l # k => record'[l] = record[l]
    /\ record[k] => record'[k]
    /\ blind' = blind \/ blind' = blind \cup {<<k, i>>}
    /\ loose' = loose \/ loose' = loose \cup {<<k, i>>}

\* What a step of one call comes to.
LEMMA StepIsLocal ==
    ASSUME ToolInv, NEW k \in Orders, NEW i \in 1..Calls,
           NEW y \in Handlers, NEW x \in Executions, NEW n \in Nat, sent[k][i] <= n,
           Becomes(k, i, y, x, n), Sound(k, i, y, x, n)
    PROVE  /\ Typed' /\ Elsewhere(k, i) /\ CallSound(k, i)'
           /\ handler'[k][i] = y /\ execution'[k][i] = x /\ sent'[k][i] = n
<1>1. Typed
  BY DEF ToolInv
<1>2. /\ handler' \in [Orders -> [1..Calls -> Handlers]] /\ handler'[k][i] = y
      /\ \A l \in Orders, j \in 1..Calls : (l # k \/ j # i) => handler'[l][j] = handler[l][j]
  BY <1>1 DEF Typed, Becomes
<1>3. /\ execution' \in [Orders -> [1..Calls -> Executions]] /\ execution'[k][i] = x
      /\ \A l \in Orders, j \in 1..Calls : (l # k \/ j # i) => execution'[l][j] = execution[l][j]
  BY <1>1 DEF Typed, Becomes
<1>4. /\ sent' \in [Orders -> [1..Calls -> Nat]] /\ sent'[k][i] = n
      /\ \A l \in Orders, j \in 1..Calls : (l # k \/ j # i) => sent'[l][j] = sent[l][j]
  BY <1>1 DEF Typed, Becomes
<1>5. /\ blind' \subseteq Orders \X (1..Calls) /\ loose' \subseteq Orders \X (1..Calls)
      /\ \A l \in Orders, j \in 1..Calls : (l # k \/ j # i) =>
            /\ <<l, j>> \in blind' <=> <<l, j>> \in blind
            /\ <<l, j>> \in loose' <=> <<l, j>> \in loose
  BY <1>1 DEF Typed, Becomes
<1>6. /\ record' \in [Orders -> BOOLEAN] /\ (record[k] => record'[k])
      /\ \A l \in Orders : l # k => record'[l] = record[l]
  BY DEF Becomes
<1>7. Typed'
  BY <1>2, <1>3, <1>4, <1>5, <1>6 DEF Typed
<1>8. Elsewhere(k, i)
  BY <1>2, <1>3, <1>4, <1>5, <1>6 DEF Elsewhere
<1>9. CallSound(k, i)'
  BY <1>2, <1>3, <1>4 DEF CallSound, Sound
<1> QED
  BY <1>2, <1>3, <1>4, <1>7, <1>8, <1>9

\* A step that neither reads the record nor sends.
LEMMA QuietStep ==
    ASSUME ToolInv, NEW k \in Orders, NEW i \in 1..Calls,
           NEW y \in Handlers, NEW x \in Executions, Becomes(k, i, y, x, sent[k][i]),
           Sound(k, i, y, x, sent[k][i]), blind' = blind,
           record'[k] => record[k] \/ sent[k][i] > 0,
           x.at = "deciding" => x = execution[k][i],
           handler[k][i].at = "answered" => y.at = "answered",
           y.at # "none" /\ handler[k][i].at = "none" =>
               (Patient => \A j \in 1..Calls : j < i => handler[k][j].at = "answered")
    PROVE  ToolInv'
<1>1. sent[k][i] \in Nat
  <2>1. sent \in [Orders -> [1..Calls -> Nat]]
    BY DEF ToolInv, Typed
  <2> QED
    BY <2>1
<1>2. /\ Typed' /\ Elsewhere(k, i) /\ CallSound(k, i)'
      /\ handler'[k][i] = y /\ execution'[k][i] = x /\ sent'[k][i] = sent[k][i]
  BY <1>1, StepIsLocal
<1>3. \A j \in 1..Calls : sent'[k][j] = sent[k][j]
  BY <1>2 DEF Elsewhere
<1>4. record'[k] => \E j \in 1..Calls : sent'[k][j] > 0
  BY <1>3 DEF ToolInv
<1>5. ASSUME Patient, NEW j \in 1..Calls
      PROVE  (i < j => PairSound(k, i, j)') /\ (j < i => PairSound(k, j, i)')
  <2>1. j # i => /\ handler'[k][j] = handler[k][j] /\ execution'[k][j] = execution[k][j]
                 /\ <<k, j>> \in loose' <=> <<k, j>> \in loose
    BY <1>2 DEF Elsewhere
  <2>2. <<k, i>> \in loose => <<k, i>> \in loose'
    BY DEF Becomes
  <2>3. ASSUME i < j PROVE PairSound(k, i, j)'
    <3>1. PairSound(k, i, j) /\ j # i
      BY <1>5, <2>3, CallsAssumption DEF ToolInv
    <3> QED
      BY <1>2, <1>3, <2>1, <2>2, <3>1 DEF PairSound
  <2>4. ASSUME j < i PROVE PairSound(k, j, i)'
    <3>1. PairSound(k, j, i) /\ j # i
      BY <1>5, <2>4, CallsAssumption DEF ToolInv
    <3>2. y.at # "none" => handler[k][j].at = "answered"
      BY <1>5, <2>4, <3>1 DEF PairSound
    <3> QED
      BY <1>2, <1>3, <2>1, <3>1, <3>2 DEF PairSound
  <2> QED
    BY <2>3, <2>4
<1> QED
  BY <1>2, <1>4, <1>5, StepKeeps

\* What the invariant says of one call.
LEMMA OfCall ==
    ASSUME ToolInv, NEW k \in Orders, NEW i \in 1..Calls
    PROVE  /\ handler[k][i] \in Handlers /\ execution[k][i] \in Executions
           /\ record[k] \in BOOLEAN /\ sent[k][i] \in Nat /\ CallSound(k, i)
           /\ handler = [handler EXCEPT ![k][i] = handler[k][i]]
           /\ execution = [execution EXCEPT ![k][i] = execution[k][i]]
           /\ sent = [sent EXCEPT ![k][i] = sent[k][i]]
           /\ record \in [Orders -> BOOLEAN]
<1>1. handler \in [Orders -> [1..Calls -> Handlers]]
  BY DEF ToolInv, Typed
<1>2. execution \in [Orders -> [1..Calls -> Executions]]
  BY DEF ToolInv, Typed
<1>3. sent \in [Orders -> [1..Calls -> Nat]] /\ record \in [Orders -> BOOLEAN]
  BY DEF ToolInv, Typed
<1>4. handler[k][i] \in Handlers /\ handler = [handler EXCEPT ![k][i] = handler[k][i]]
  BY <1>1
<1>5. execution[k][i] \in Executions /\ execution = [execution EXCEPT ![k][i] = execution[k][i]]
  BY <1>2
<1>6. sent[k][i] \in Nat /\ sent = [sent EXCEPT ![k][i] = sent[k][i]]
  BY <1>3
<1>7. CallSound(k, i)
  BY DEF ToolInv
<1> QED
  BY <1>3, <1>4, <1>5, <1>6, <1>7

\* A handler moves, and an execution that stays or is begun or is taken back.
LEMMA HandlerMoves ==
    ASSUME ToolInv, NEW k \in Orders, NEW i \in 1..Calls, NEW y \in Handlers, NEW x \in Executions,
           handler[k][i].at \notin {"none", "answered"},
           handler' = [handler EXCEPT ![k][i] = y], execution' = [execution EXCEPT ![k][i] = x],
           UNCHANGED <<record, sent, blind>>,
           loose' = loose \/ loose' = loose \cup {<<k, i>>},
           Sound(k, i, y, x, sent[k][i]),
           x.at = "deciding" => x = execution[k][i]
    PROVE  ToolInv'
<1>1. handler[k][i].at # "none" /\ handler[k][i].at # "answered"
  OBVIOUS
<1> QED
  BY <1>1, OfCall, QuietStep DEF Becomes

\* A host makes a call, when every earlier one is answered if it is patient.
LEMMA HostCallsKeeps ==
    ASSUME ToolInv, NEW k \in Orders, NEW i \in 1..Calls, HostCalls(k, i)
    PROVE  ToolInv'
<1> DEFINE y == [handler[k][i] EXCEPT !.at = "connecting"]
           x == execution[k][i]
<1>1. /\ handler[k][i] \in Handlers /\ x \in Executions /\ CallSound(k, i)
      /\ handler[k][i].at = "none"
  BY OfCall DEF HostCalls, At
<1>2. y \in Handlers /\ y.at = "connecting" /\ y.answer = handler[k][i].answer
  BY <1>1 DEF Handlers
<1>3. Becomes(k, i, y, x, sent[k][i]) /\ UNCHANGED <<record, blind, loose>>
  <2>1. handler \in [Orders -> [1..Calls -> Handlers]]
    BY DEF ToolInv, Typed
  <2>2. handler' = [handler EXCEPT ![k][i] = y]
    BY <2>1 DEF HostCalls, Moves
  <2> HIDE DEF y
  <2> QED
    BY <2>2, OfCall DEF HostCalls, Becomes
<1> HIDE DEF y
<1>4. Sound(k, i, y, x, sent[k][i])
  BY <1>1, <1>2, <1>3, NoneAssumption DEF CallSound, Sound, Linked
<1>5. ASSUME Patient, NEW j \in 1..Calls, j < i PROVE handler[k][j].at = "answered"
  <2>1. i - 1 \in 1..Calls /\ handler[k][i - 1].at = "answered" /\ (j = i - 1 \/ j < i - 1)
    BY <1>5, CallsAssumption DEF HostCalls, At
  <2>2. j < i - 1 => PairSound(k, j, i - 1)
    BY <1>5, <2>1 DEF ToolInv
  <2> QED
    BY <2>1, <2>2 DEF PairSound
<1>6. x.at = "none"
  BY <1>1 DEF CallSound, Linked
<1> QED
  BY <1>1, <1>2, <1>3, <1>4, <1>5, <1>6, QuietStep

\* A handler that ends, with the execution as it is.
LEMMA AnswerKeeps ==
    ASSUME ToolInv, NEW k \in Orders, NEW i \in 1..Calls, NEW said \in Answers,
           handler[k][i].at \notin {"none", "answered"}, Answer(k, i, said),
           UNCHANGED <<execution, record, sent, blind>>,
           loose' = loose \/ loose' = loose \cup {<<k, i>>},
           execution[k][i].at \in {"none", "ended"} \/ <<k, i>> \in loose',
           said \in {"approved", "replayed"} => said = execution[k][i].outcome
    PROVE  ToolInv'
<1> DEFINE y == [handler[k][i] EXCEPT !.at = "answered", !.answer = said]
           x == execution[k][i]
<1>1. handler[k][i] \in Handlers /\ x \in Executions /\ CallSound(k, i)
  BY OfCall
<1>2. y \in Handlers /\ y.at = "answered" /\ y.answer = said
  BY <1>1 DEF Handlers
<1>3. handler' = [handler EXCEPT ![k][i] = y] /\ execution' = [execution EXCEPT ![k][i] = x]
  <2>1. handler \in [Orders -> [1..Calls -> Handlers]]
    BY DEF ToolInv, Typed
  <2>2. handler' = [handler EXCEPT ![k][i] = y]
    BY <2>1 DEF Answer
  <2> QED
    BY <2>2, OfCall
<1> HIDE DEF y
<1>4. Sound(k, i, y, x, sent[k][i])
  BY <1>1, <1>2 DEF CallSound, Sound, Linked, Accounted, Truthful
<1> QED
  BY <1>1, <1>2, <1>3, <1>4, HandlerMoves

\* A handler that goes on to a place where nothing runs for it.
LEMMA MovesKeeps ==
    ASSUME ToolInv, NEW k \in Orders, NEW i \in 1..Calls,
           handler[k][i].at \in {"connecting", "waiting"}, Moves(k, i, "calling"),
           UNCHANGED <<execution, record, sent, blind, loose>>
    PROVE  ToolInv'
<1> DEFINE y == [handler[k][i] EXCEPT !.at = "calling"]
           x == execution[k][i]
<1>1. handler[k][i] \in Handlers /\ x \in Executions /\ CallSound(k, i)
  BY OfCall
<1>2. y \in Handlers /\ y.at = "calling" /\ y.answer = handler[k][i].answer
  BY <1>1 DEF Handlers
<1>3. handler' = [handler EXCEPT ![k][i] = y] /\ execution' = [execution EXCEPT ![k][i] = x]
  <2>1. handler \in [Orders -> [1..Calls -> Handlers]]
    BY DEF ToolInv, Typed
  <2> QED
    BY <2>1, OfCall DEF Moves
<1> HIDE DEF y
<1>4. Sound(k, i, y, x, sent[k][i])
  BY <1>1, <1>2 DEF CallSound, Sound, Linked
<1> QED
  BY <1>1, <1>2, <1>3, <1>4, HandlerMoves

\* A handler has its call executed.
LEMMA ExecutesKeeps ==
    ASSUME ToolInv, NEW k \in Orders, NEW i \in 1..Calls, Executes(k, i)
    PROVE  ToolInv'
<1> DEFINE y == [handler[k][i] EXCEPT !.at = "executing"]
           x == [NotRun EXCEPT !.at = "requested"]
<1>1. handler[k][i] \in Handlers /\ CallSound(k, i) /\ handler[k][i].at = "calling"
  BY OfCall DEF Executes, At
<1>2. /\ y \in Handlers /\ y.at = "executing" /\ y.answer = handler[k][i].answer
      /\ x \in Executions /\ x.at = "requested" /\ ~x.seen /\ x.outcome = None
  BY <1>1 DEF Handlers, Executions, NotRun
<1>3. /\ handler' = [handler EXCEPT ![k][i] = y] /\ execution' = [execution EXCEPT ![k][i] = x]
      /\ UNCHANGED <<record, sent, blind, loose>>
  <2>1. handler \in [Orders -> [1..Calls -> Handlers]]
    BY DEF ToolInv, Typed
  <2> QED
    BY <2>1, OfCall DEF Executes, Moves
<1> HIDE DEF y, x
<1>4. Sound(k, i, y, x, sent[k][i])
  <2>1. sent[k][i] = 0
    BY <1>1 DEF CallSound, Linked, Accounted
  <2> QED
    BY <1>1, <1>2, <1>3, <2>1, NoneAssumption DEF CallSound, Sound, Linked, Accounted, Truthful, Answers
<1> QED
  BY <1>1, <1>2, <1>3, <1>4, HandlerMoves

\* An execution that ends without sending, or when it has sent.
LEMMA EndsKeeps ==
    ASSUME ToolInv, NEW k \in Orders, NEW i \in 1..Calls, NEW said \in Answers,
           execution[k][i].at \in {"requested", "deciding", "sending"}, Ends(k, i, said),
           UNCHANGED <<handler, sent, blind>>,
           loose' = loose \/ loose' = loose \cup {<<k, i>>},
           record' \in [Orders -> BOOLEAN], \A l \in Orders : l # k => record'[l] = record[l],
           record[k] => record'[k],
           record'[k] => record[k] \/ execution[k][i].at = "sending",
           execution[k][i].at = "sending" => record'[k] \/ <<k, i>> \in loose',
           said = "approved" => execution[k][i].at = "sending",
           said = "replayed" => record[k]
    PROVE  ToolInv'
<1> DEFINE y == handler[k][i]
           x == [execution[k][i] EXCEPT !.at = "ended", !.outcome = said]
<1>1. /\ y \in Handlers /\ execution[k][i] \in Executions /\ CallSound(k, i) /\ sent[k][i] \in Nat
  BY OfCall
<1>2. /\ x \in Executions /\ x.at = "ended" /\ x.outcome = said /\ x.seen = execution[k][i].seen
  BY <1>1 DEF Executions
<1>3. Becomes(k, i, y, x, sent[k][i])
  <2>1. execution \in [Orders -> [1..Calls -> Executions]]
    BY DEF ToolInv, Typed
  <2>2. execution' = [execution EXCEPT ![k][i] = x]
    BY <2>1 DEF Ends
  <2> HIDE DEF x
  <2> QED
    BY <2>2, OfCall DEF Becomes
<1> HIDE DEF x, y
<1>4. Sound(k, i, y, x, sent[k][i])
  <2>1. <<k, i>> \in loose => <<k, i>> \in loose'
    OBVIOUS
  <2> QED
    BY <1>1, <1>2, <2>1 DEF CallSound, Sound, Linked, Accounted, Truthful, y
<1>5. record'[k] => record[k] \/ sent[k][i] > 0
  BY <1>1 DEF CallSound, Accounted
<1>6. y.at # "none"
  BY <1>1 DEF CallSound, Linked, y
<1> QED
  BY <1>1, <1>2, <1>3, <1>4, <1>5, <1>6, QuietStep DEF y

\* The node refuses for the quota: nothing has run.
LEMMA QuotaRefusesKeeps ==
    ASSUME ToolInv, NEW k \in Orders, NEW i \in 1..Calls, QuotaRefuses(k, i)
    PROVE  ToolInv'
<1>1. /\ handler[k][i] \in Handlers /\ execution[k][i] \in Executions /\ CallSound(k, i)
      /\ handler[k][i].at = "executing" /\ execution[k][i].at = "requested"
      /\ UNCHANGED <<record, sent, blind, loose>> /\ record \in [Orders -> BOOLEAN]
  BY OfCall DEF QuotaRefuses, At, Runs
<1>2. CASE handler[k][i].attempt < Retries
  <2> DEFINE m == handler[k][i].attempt + 1
             y == [handler[k][i] EXCEPT !.at = "waiting", !.attempt = m]
  <2>1. m \in 0..Retries
    BY <1>1, <1>2, CallsAssumption DEF Handlers
  <2>2. handler' = [handler EXCEPT ![k][i] = y] /\ execution' = [execution EXCEPT ![k][i] = NotRun]
    <3>1. handler \in [Orders -> [1..Calls -> Handlers]]
      BY DEF ToolInv, Typed
    <3> QED
      BY <1>2, <3>1 DEF QuotaRefuses
  <2> HIDE DEF m
  <2>3. /\ y \in Handlers /\ y.at = "waiting" /\ y.answer = handler[k][i].answer
        /\ NotRun \in Executions /\ NotRun.at = "none" /\ ~NotRun.seen /\ NotRun.outcome = None
    BY <1>1, <2>1 DEF Handlers, Executions, NotRun
  <2> HIDE DEF y
  <2>4. Sound(k, i, y, NotRun, sent[k][i])
    BY <1>1, <2>3, NoneAssumption DEF CallSound, Sound, Linked, Accounted, Truthful, Answers
  <2> QED
    BY <1>1, <2>2, <2>3, <2>4, HandlerMoves
<1>3. CASE ~(handler[k][i].attempt < Retries)
  BY <1>1, <1>3, EndsKeeps DEF QuotaRefuses, Answers
<1> QED
  BY <1>2, <1>3

\* The record is read: what a call before this one has sent is on it, unless
\* that one is loose.
LEMMA ReadsKeeps ==
    ASSUME ToolInv, NEW k \in Orders, NEW i \in 1..Calls, Reads(k, i)
    PROVE  ToolInv'
<1> DEFINE y == handler[k][i]
           was == execution[k][i]
<1>1. /\ y \in Handlers /\ was \in Executions /\ CallSound(k, i) /\ was.at = "requested"
      /\ record[k] \in BOOLEAN /\ sent[k][i] = 0 /\ sent[k][i] \in Nat
  BY OfCall DEF Reads, Runs, CallSound, Accounted
<1>2. PICK s \in BOOLEAN :
         /\ execution' = [execution EXCEPT ![k][i] = [was EXCEPT !.at = "deciding", !.seen = s]]
         /\ s => record[k]
         /\ (blind' = blind /\ s = record[k]) \/ blind' = blind \cup {<<k, i>>}
         /\ UNCHANGED <<handler, record, sent, loose>>
  <2>1. CASE execution' = [execution EXCEPT ![k][i].at = "deciding", ![k][i].seen = record[k]] /\ UNCHANGED blind
    <3>1. execution' = [execution EXCEPT ![k][i] = [was EXCEPT !.at = "deciding", !.seen = record[k]]]
      BY <2>1 DEF ToolInv, Typed
    <3> QED
      BY <1>1, <2>1, <3>1 DEF Reads
  <2>2. CASE execution' = [execution EXCEPT ![k][i].at = "deciding"] /\ blind' = blind \cup {<<k, i>>}
    <3>1. [was EXCEPT !.at = "deciding"] = [was EXCEPT !.at = "deciding", !.seen = was.seen]
      BY <1>1 DEF Executions
    <3>2. execution' = [execution EXCEPT ![k][i] = [was EXCEPT !.at = "deciding", !.seen = was.seen]]
      BY <2>2, <3>1 DEF ToolInv, Typed
    <3>3. was.seen \in BOOLEAN /\ (was.seen => record[k])
      BY <1>1 DEF Executions, CallSound, Accounted
    <3> QED
      BY <2>2, <3>2, <3>3 DEF Reads
  <2> QED
    BY <2>1, <2>2 DEF Reads
<1> DEFINE x == [was EXCEPT !.at = "deciding", !.seen = s]
<1>3. x \in Executions /\ x.at = "deciding" /\ x.seen = s /\ x.outcome = was.outcome
  BY <1>1 DEF Executions
<1>4. Becomes(k, i, y, x, sent[k][i])
  BY <1>2, OfCall DEF Becomes
<1> HIDE DEF x, y, was
<1>5. Sound(k, i, y, x, sent[k][i])
  <2>1. was.outcome = None
    BY <1>1 DEF CallSound, Accounted, Executions, was
  <2> QED
    BY <1>1, <1>2, <1>3, <2>1, NoneAssumption
    DEF CallSound, Sound, Linked, Accounted, Truthful, Answers, y, was
<1>6. /\ Typed' /\ Elsewhere(k, i) /\ CallSound(k, i)'
      /\ handler'[k][i] = y /\ execution'[k][i] = x
  BY <1>1, <1>3, <1>4, <1>5, StepIsLocal
<1>7. record'[k] => \E j \in 1..Calls : sent'[k][j] > 0
  BY <1>2 DEF ToolInv
<1>8. ASSUME Patient, NEW j \in 1..Calls
      PROVE  (i < j => PairSound(k, i, j)') /\ (j < i => PairSound(k, j, i)')
  <2>1. CASE i < j
    <3>1. PairSound(k, i, j) /\ j # i
      BY <1>8, <2>1, CallsAssumption DEF ToolInv
    <3> QED
      BY <1>1, <1>2, <2>1, <3>1, CallsAssumption DEF PairSound
  <2>2. CASE j < i
    <3>1. PairSound(k, j, i) /\ j # i /\ CallSound(k, j)
      BY <1>8, <2>2, CallsAssumption DEF ToolInv
    <3>2. y.at # "none"
      BY <1>1 DEF CallSound, Linked, y, was
    <3>3. handler[k][j].at = "answered"
      BY <3>1, <3>2 DEF PairSound, y
    <3>4. ASSUME sent[k][j] > 0, <<k, j>> \notin loose PROVE record[k]
      <4>1. sent[k][j] \in Nat /\ execution[k][j] \in Executions
        BY OfCall
      <4>2. execution[k][j].at \in {"none", "ended"}
        BY <3>1, <3>3, <3>4 DEF CallSound, Linked
      <4> QED
        BY <3>1, <3>4, <4>1, <4>2 DEF CallSound, Accounted
    <3>5. <<k, i>> \notin blind' => (record[k] => s)
      BY <1>2
    <3> QED
      BY <1>1, <1>2, <1>3, <1>6, <2>2, <3>1, <3>3, <3>4, <3>5, CallsAssumption DEF PairSound
  <2> QED
    BY <2>1, <2>2, CallsAssumption
<1> QED
  BY <1>6, <1>7, <1>8, StepKeeps

\* A call goes out: no earlier one has, unless it is loose or this one is blind.
LEMMA SendsKeeps ==
    ASSUME ToolInv, NEW k \in Orders, NEW i \in 1..Calls, Sends(k, i)
    PROVE  ToolInv'
<1> DEFINE y == handler[k][i]
           was == execution[k][i]
           x == [was EXCEPT !.at = "sending"]
<1>1. /\ y \in Handlers /\ was \in Executions /\ CallSound(k, i) /\ was.at = "deciding"
      /\ ~was.seen /\ sent[k][i] = 0 /\ sent \in [Orders -> [1..Calls -> Nat]]
  BY OfCall DEF Sends, Runs, CallSound, Accounted, ToolInv, Typed
<1>2. x \in Executions /\ x.at = "sending" /\ x.seen = was.seen /\ x.outcome = was.outcome
  BY <1>1 DEF Executions
<1>3. UNCHANGED <<handler, record, blind, loose>> /\ sent' = [sent EXCEPT ![k][i] = 1]
  BY <1>1 DEF Sends
<1>4. Becomes(k, i, y, x, 1)
  <2>1. execution \in [Orders -> [1..Calls -> Executions]]
    BY DEF ToolInv, Typed
  <2>2. execution' = [execution EXCEPT ![k][i] = x]
    BY <2>1 DEF Sends
  <2> HIDE DEF x
  <2> QED
    BY <1>3, <2>2, OfCall DEF Becomes
<1> HIDE DEF x, y, was
<1>5. Sound(k, i, y, x, 1)
  BY <1>1, <1>2, <1>3, NoneAssumption
  DEF CallSound, Sound, Linked, Accounted, Truthful, Answers, y, was
<1>6. /\ Typed' /\ Elsewhere(k, i) /\ CallSound(k, i)'
      /\ handler'[k][i] = y /\ execution'[k][i] = x /\ sent'[k][i] = 1
  BY <1>1, <1>2, <1>4, <1>5, StepIsLocal
<1>7. record'[k] => \E j \in 1..Calls : sent'[k][j] > 0
  BY <1>6
<1>8. ASSUME Patient, NEW j \in 1..Calls
      PROVE  (i < j => PairSound(k, i, j)') /\ (j < i => PairSound(k, j, i)')
  <2>1. j # i => sent'[k][j] = sent[k][j] /\ execution'[k][j] = execution[k][j]
    BY <1>6 DEF Elsewhere
  <2>2. CASE i < j
    <3>1. PairSound(k, i, j) /\ j # i /\ CallSound(k, j)
      BY <1>8, <2>2, CallsAssumption DEF ToolInv
    <3>2. handler[k][j].at # "none" => y.at = "answered"
      BY <3>1 DEF PairSound, y
    <3>3. y.at = "answered" => <<k, i>> \in loose
      BY <1>1 DEF CallSound, Linked, y, was
    <3>4. handler[k][j].at = "none" => execution[k][j].at = "none" /\ sent[k][j] = 0
      BY <3>1, OfCall DEF CallSound, Linked, Accounted
    <3>5. handler' = handler /\ loose' = loose /\ blind' = blind
      BY <1>3
    <3>6. CASE handler[k][j].at = "none"
      <4>1. handler'[k][j].at = "none" /\ execution'[k][j].at = "none" /\ ~(sent'[k][j] > 0)
        BY <2>1, <3>1, <3>4, <3>5, <3>6
      <4> QED
        BY <2>2, <4>1, CallsAssumption DEF PairSound
    <3>7. CASE handler[k][j].at # "none"
      <4>1. handler'[k][i].at = "answered" /\ <<k, i>> \in loose'
        BY <3>2, <3>3, <3>5, <3>7 DEF y
      <4> QED
        BY <2>2, <4>1, CallsAssumption DEF PairSound
    <3> QED
      BY <3>6, <3>7
  <2>3. CASE j < i
    <3>1. PairSound(k, j, i) /\ j # i
      BY <1>8, <2>3, CallsAssumption DEF ToolInv
    <3>2. (sent[k][j] > 0 /\ <<k, j>> \notin loose) => <<k, i>> \in blind
      BY <1>1, <3>1 DEF PairSound, was
    <3> QED
      BY <1>2, <1>3, <1>6, <2>1, <2>3, <3>1, <3>2, CallsAssumption DEF PairSound
  <2> QED
    BY <2>2, <2>3, CallsAssumption
<1> QED
  BY <1>6, <1>7, <1>8, StepKeeps

\* The invariant holds of every reachable state of the tool.
LEMMA ToolInvCorrect == ToolSpec => []ToolInv
<1>1. ToolInit => ToolInv
  <2> SUFFICES ASSUME ToolInit PROVE ToolInv
    OBVIOUS
  <2>1. NotCalled \in Handlers /\ NotRun \in Executions
    BY CallsAssumption DEF NotCalled, NotRun, Handlers, Executions
  <2>2. Typed
    BY <2>1 DEF ToolInit, Typed
  <2>3. \A k \in Orders, i \in 1..Calls : CallSound(k, i)
    BY NoneAssumption
    DEF ToolInit, NotCalled, NotRun, CallSound, Linked, Accounted, Truthful, Answers
  <2>4. \A k \in Orders, i, j \in 1..Calls : PairSound(k, i, j)
    BY DEF ToolInit, NotCalled, PairSound
  <2> QED
    BY <2>2, <2>3, <2>4 DEF ToolInit, ToolInv
<1>2. ASSUME ToolInv, NEW k \in Orders, NEW i \in 1..Calls, HandlerStep(k, i) PROVE ToolInv'
  <2>0. execution[k][i].at # "none" => handler[k][i].at \in {"executing", "answered"}
    BY <1>2, OfCall DEF CallSound, Linked
  <2>1. CASE Connects(k, i)
    BY <1>2, <2>0, <2>1, MovesKeeps, AnswerKeeps DEF Connects, At, Answers
  <2>2. CASE Wakes(k, i)
    BY <1>2, <2>2, MovesKeeps DEF Wakes, At
  <2>3. CASE Hears(k, i)
    <3>1. execution[k][i].outcome \in Answers
      BY <1>2, <2>3, OfCall DEF Hears, Runs, CallSound, Accounted
    <3> QED
      BY <1>2, <2>3, <3>1, AnswerKeeps DEF Hears, At, Runs
  <2>4. CASE GivesUp(k, i)
    BY <1>2, <2>0, <2>4, AnswerKeeps DEF GivesUp, At, Runs, Answers
  <2> QED
    BY <1>2, <2>1, <2>2, <2>3, <2>4, ExecutesKeeps, QuotaRefusesKeeps DEF HandlerStep
<1>3. ASSUME ToolInv, NEW k \in Orders, NEW i \in 1..Calls, ExecutionStep(k, i) PROVE ToolInv'
  <2>0. record \in [Orders -> BOOLEAN] /\ (execution[k][i].seen => record[k])
    BY <1>3, OfCall DEF CallSound, Accounted
  <2>1. CASE Rejects(k, i)
    BY <1>3, <2>0, <2>1, EndsKeeps DEF Rejects, Runs, Answers
  <2>2. CASE Replays(k, i)
    BY <1>3, <2>0, <2>2, EndsKeeps DEF Replays, Runs, Answers
  <2>3. CASE Commits(k, i)
    <3>1. CASE record' = [record EXCEPT ![k] = TRUE] /\ Ends(k, i, "approved")
      BY <1>3, <2>0, <2>3, <3>1, EndsKeeps DEF Commits, Runs, Answers
    <3>2. CASE record[k] /\ Ends(k, i, "threw") /\ UNCHANGED record
      BY <1>3, <2>0, <2>3, <3>2, EndsKeeps DEF Commits, Runs, Answers
    <3> QED
      BY <2>3, <3>1, <3>2 DEF Commits
  <2>4. CASE CommitsUnrecorded(k, i)
    BY <1>3, <2>0, <2>4, EndsKeeps DEF CommitsUnrecorded, Runs, Answers
  <2>5. CASE ExecutionFails(k, i)
    BY <1>3, <2>0, <2>5, EndsKeeps DEF ExecutionFails, Runs, Answers
  <2> QED
    BY <1>3, <2>1, <2>2, <2>3, <2>4, <2>5, ReadsKeeps, SendsKeeps DEF ExecutionStep
<1>4. ASSUME ToolInv, UNCHANGED toolVars PROVE ToolInv'
  BY <1>4 DEF toolVars, ToolInv, Typed, CallSound, PairSound
<1>5. ASSUME ToolInv, [ToolNext]_toolVars PROVE ToolInv'
  BY <1>2, <1>3, <1>4, <1>5, HostCallsKeeps DEF ToolNext
<1> QED
  BY <1>1, <1>5, PTL DEF ToolSpec

-----------------------------------------------------------------------------
\* The state keeps its type: no handler tries more often than its retries
\* allow, and a handler has an answer exactly when it is done.
THEOREM TypeCorrect == ToolSpec => []TypeOK
<1>1. ToolInv => TypeOK
  BY DEF ToolInv, Typed, CallSound, Linked, TypeOK, Handlers, At
<1> QED
  BY <1>1, ToolInvCorrect, PTL

\* For any number of calls and any faults: "approved" is said of orders that
\* went out and are on record, or whose record could not be kept, "replayed" of
\* orders on record.
THEOREM ApprovedIsOnRecordHolds == ToolSpec => []ApprovedIsOnRecord
<1>1. ASSUME ToolInv, NEW k \in Orders, NEW i \in 1..Calls
      PROVE  /\ handler[k][i].answer = "approved" =>
                   sent[k][i] > 0 /\ (record[k] \/ <<k, i>> \in loose)
             /\ handler[k][i].answer = "replayed" => record[k] /\ \E j \in 1..Calls : sent[k][j] > 0
  BY <1>1 DEF ToolInv, CallSound, Truthful
<1>2. ToolInv => ApprovedIsOnRecord
  BY <1>1 DEF ApprovedIsOnRecord
<1> QED
  BY <1>2, ToolInvCorrect, PTL

\* A patient host places one order per key, unless an execution died when it had
\* sent, outlived its handler, or could not keep or read the record.
THEOREM PatientHostOrdersOnceHolds == ToolSpec => []PatientHostOrdersOnce
<1>1. ASSUME ToolInv, Patient, NEW k \in Orders, NEW i \in 1..Calls, NEW j \in 1..Calls
      PROVE  /\ sent[k][i] <= 1
             /\ (i < j /\ sent[k][i] > 0 /\ sent[k][j] > 0) => <<k, i>> \in loose \/ <<k, j>> \in blind
  BY <1>1 DEF ToolInv, CallSound, Accounted, PairSound
<1>2. ToolInv => PatientHostOrdersOnce
  BY <1>1 DEF PatientHostOrdersOnce
<1> QED
  BY <1>2, ToolInvCorrect, PTL

-----------------------------------------------------------------------------
(* Status lists                                                            *)

\* The list the issuer writes for these indices.
Built(pieces) ==
    [doc |-> buildStatusList(revokedFrom(pieces), MINIMUM_ENTRIES, "revocation"), listed |-> pieces]

\* A list and the indices its issuer named: they are the entries it names, of
\* those it has.
Tells(d) ==
    LET bytes == d.doc.bytes
    IN  /\ Length(bytes) \in Nat /\ DOMAIN bytes = 0 .. Length(bytes) - 1
        /\ EntriesSet(bytes) = revokedFrom(d.listed) \cap (0 .. Entries(bytes) - 1)

\* A list that is built names the entries it was built for, and no other.
LEMMA BuiltListTells == ASSUME NEW pieces, Built(pieces).doc # Threw PROVE Tells(Built(pieces))
<1> DEFINE R == revokedFrom(pieces)
           n == BytesFor(MINIMUM_ENTRIES)
           bytes == Built(pieces).doc.bytes
<1>1. \A i \in R : i \in Int /\ 0 <= i /\ i < MINIMUM_ENTRIES
  <2>1. \A i \in R : i \in Int /\ 0 <= i
    BY DEF revokedFrom, Number
  <2>2. \A i \in R : ~(i >= MINIMUM_ENTRIES)
    BY DEF buildStatusList, Built
  <2> QED
    BY <2>1, <2>2, EntriesAssumption
<1>2. bytes = [b \in 0 .. n - 1 |-> {} \cup {PlaceOf(i) : i \in {j \in R : ByteOf(j) = b}}]
  BY DEF buildStatusList, setBits, Built
<1>3. n \in Nat /\ MINIMUM_ENTRIES <= 8 * n
  BY EntriesAssumption DEF BytesFor
<1> HIDE DEF R, n, bytes
<1>4. DOMAIN bytes = 0 .. n - 1 /\ Length(bytes) = n
  <2>1. 0 \in Int /\ n - 1 \in Int
    BY <1>3
  <2>2. Cardinality(0 .. n - 1) = IF 0 > n - 1 THEN 0 ELSE n - 1 - 0 + 1
    BY <2>1, FS_Interval
  <2> QED
    BY <1>2, <1>3, <2>2 DEF Length
<1>5. \A j \in R : ByteOf(j) = j \div 8 /\ PlaceOf(j) = 7 - (j % 8)
  <2>1. \A j \in R : ToInt(j) = j
    BY <1>1, EntriesAssumption, SignBitAssumption DEF ToInt
  <2> QED
    BY <2>1 DEF ByteOf, PlaceOf
<1>6. ASSUME NEW i \in 0 .. 8 * n - 1
      PROVE  i \div 8 \in 0 .. n - 1 /\ (i \in R <=> 7 - (i % 8) \in bytes[i \div 8])
  <2>1. i \div 8 \in 0 .. n - 1
    BY <1>3
  <2>2. bytes[i \div 8] = {PlaceOf(j) : j \in {j \in R : ByteOf(j) = i \div 8}}
    BY <1>2, <2>1
  <2>3. ASSUME NEW j \in R, ByteOf(j) = i \div 8, PlaceOf(j) = 7 - (i % 8) PROVE j = i
    <3>1. j \in Nat /\ i \in Nat /\ j \div 8 = i \div 8
      BY <1>1, <1>3, <1>5, <2>3
    <3>2. j % 8 = i % 8
      BY <1>5, <2>3, <3>1
    <3> QED
      BY <3>1, <3>2
  <2>4. i \in R => PlaceOf(i) = 7 - (i % 8) /\ ByteOf(i) = i \div 8
    BY <1>5
  <2> QED
    BY <2>1, <2>2, <2>3, <2>4
<1>7. EntriesSet(bytes) = R \cap (0 .. 8 * n - 1)
  BY <1>4, <1>6 DEF EntriesSet, Entries
<1> QED
  BY <1>3, <1>4, <1>7 DEF Tells, Entries, R, bytes, Built

\* An entry that is answered from a list is one of its entries, and is answered
\* what the issuer named.
LEMMA AnswersWhatIsNamed ==
    ASSUME NEW entry, NEW d, Tells(d), checkStatus(entry, d.doc).checked
    PROVE  /\ ToInt(Number(entry.statusListIndex)) < Entries(d.doc.bytes)
           /\ checkStatus(entry, d.doc).revoked <=>
                 ToInt(Number(entry.statusListIndex)) \in revokedFrom(d.listed)
<1> DEFINE index == Number(entry.statusListIndex)
           place == ToInt(index)
           bytes == d.doc.bytes
           bit == getBit(bytes, index)
<1>1. /\ index # Nothing /\ bit # Threw
      /\ checkStatus(entry, d.doc).revoked = (bit = 1)
  BY DEF checkStatus, Unchecked
<1>2. index \in Int
  BY <1>1 DEF Number
<1> HIDE DEF index
<1>3. place \in Int
  <2>1. 2 * SignBit \in Nat \ {0} /\ index + SignBit \in Int
    BY <1>2, EntriesAssumption, SignBitAssumption
  <2>2. (index + SignBit) % (2 * SignBit) \in Int
    BY <2>1
  <2> QED
    BY <1>2, <2>2, SignBitAssumption DEF ToInt
<1>4. ByteOf(index) = place \div 8 /\ PlaceOf(index) = 7 - (place % 8)
  BY DEF ByteOf, PlaceOf
<1> HIDE DEF bytes, place
<1>5. Length(bytes) \in Nat /\ place \div 8 < Length(bytes)
  <2>1. Length(bytes) \in Nat /\ ~(place \div 8 >= Length(bytes))
    BY <1>1, <1>4 DEF getBit, Tells, bytes
  <2> QED
    BY <1>3, <2>1
<1>6. Entries(bytes) \in Nat /\ place < Entries(bytes)
  BY <1>3, <1>5 DEF Entries
<1>7. bit = 1 <=> place \div 8 \in DOMAIN bytes /\ 7 - (place % 8) \in bytes[place \div 8]
  BY <1>1, <1>4 DEF getBit
<1>8. CASE place < 0
  <2>1. place \div 8 < 0
    BY <1>3, <1>8
  <2>2. DOMAIN bytes = 0 .. Length(bytes) - 1
    BY DEF Tells, bytes
  <2>3. place \div 8 \notin DOMAIN bytes
    BY <1>3, <1>5, <2>1, <2>2
  <2>4. place \notin revokedFrom(d.listed)
    BY <1>3, <1>8 DEF revokedFrom
  <2> QED
    BY <1>1, <1>6, <1>7, <2>3, <2>4 DEF index, place, bytes
<1>9. CASE ~(place < 0)
  <2>1. place \in 0 .. Entries(bytes) - 1
    BY <1>3, <1>6, <1>9
  <2>2. bit = 1 <=> place \in EntriesSet(bytes)
    BY <1>7, <2>1 DEF EntriesSet
  <2>3. EntriesSet(bytes) = revokedFrom(d.listed) \cap (0 .. Entries(bytes) - 1)
    BY DEF Tells, bytes
  <2>4. bit = 1 <=> place \in revokedFrom(d.listed)
    BY <2>1, <2>2, <2>3
  <2> QED
    BY <1>1, <1>6, <2>4 DEF index, place, bytes
<1> QED
  BY <1>8, <1>9

-----------------------------------------------------------------------------
(* Checks                                                                  *)

ListReads == [checked : BOOLEAN, revoked : BOOLEAN]

Reports == [checked : BOOLEAN, revoked : BOOLEAN,
            method : {"bitstring-status-list", "on-chain-registry", "none"}]

Served == {d \in {Built(pieces) : pieces \in Inputs} : d.doc # Threw} \cup Lists

Checks == [at : {"idle", "list", "registry", "done"}, asked : BOOLEAN \cup {Nothing},
           got : Served \cup {Nothing}, list : ListReads, result : Reports \cup {Nothing}]

\* Where the answer of a check that is over came from.
CheckSound(v, x) ==
    /\ x.at # "done" => ~x.list.checked
    /\ x.at = "done" =>
          \/ /\ x.list.checked
             /\ x.result = Report(TRUE, x.list.revoked, "bitstring-status-list")
             /\ ToInt(IndexOf(v)) < Entries(x.got.doc.bytes)
             /\ x.list.revoked <=> ToInt(IndexOf(v)) \in revokedFrom(x.got.listed)
          \/ /\ ~x.list.checked
             /\ x.result = Report(TRUE, x.asked, "on-chain-registry") /\ x.asked \in BOOLEAN
          \/ ~x.list.checked /\ x.result = Report(FALSE, FailClosed[v], "none")

RevInv ==
    /\ written \in Served \cup {Nothing} /\ site \in Served \cup {Nothing}
    /\ check \in [Verifiers -> Checks]
    /\ \A v \in Verifiers : CheckSound(v, check[v])

\* Every list that can be served tells what its issuer named.
LEMMA ServedTell == \A d \in Served : Tells(d)
  BY BuiltListTells, ListsAssumption DEF Served, Tells

\* A list answers whether an entry is set, or that it cannot tell.
LEMMA ReadType == ASSUME NEW entry, NEW list PROVE checkStatus(entry, list) \in ListReads
  BY DEF checkStatus, ListReads, Unchecked

\* Nothing is published and nobody asks at first.
LEMMA RevStart == ASSUME RevInit PROVE RevInv
  BY DEF RevInit, RevInv, NotAsked, Checks, ListReads, Unchecked, CheckSound

\* One check moves, and one that is over does not.
LEMMA CheckMoves ==
    ASSUME RevInv, NEW v \in Verifiers, NEW y \in Checks, CheckSound(v, y),
           check[v].at # "done", check' = [check EXCEPT ![v] = y], UNCHANGED <<written, site>>
    PROVE  RevInv' /\ \A u \in Verifiers : Done(u) => check'[u] = check[u]
  BY DEF RevInv, Done

\* The issuer and the verifiers keep RevInv, and a check that is over stays as it
\* ended.
LEMMA RevStep ==
    ASSUME RevInv, RevNext
    PROVE  RevInv' /\ \A u \in Verifiers : Done(u) => check'[u] = check[u]
<1>1. ASSUME NEW pieces \in Inputs, Publish(pieces)
      PROVE  written' \in Served /\ UNCHANGED <<site, check>>
  <2>1. Built(pieces).doc # Threw /\ written' = Built(pieces) /\ UNCHANGED <<site, check>>
    BY <1>1 DEF Publish, Built
  <2> QED
    BY <2>1 DEF Served
<1>3. CASE World
  <2>1. /\ written' \in Served \cup {Nothing} /\ site' \in Served \cup {Nothing}
        /\ UNCHANGED check
    BY <1>1, <1>3 DEF World, Replaced, RevInv, Deploy, ChainGoes, RevokeOnChain, Served
  <2> QED
    BY <2>1 DEF RevInv, Done
<1>4. ASSUME NEW v \in Verifiers, Ask(v)
      PROVE  RevInv' /\ \A u \in Verifiers : Done(u) => check'[u] = check[u]
  <2> DEFINE y == [check[v] EXCEPT !.at =
                    IF credentialStatusOf(Credential[v]) # Nothing THEN "list" ELSE "registry"]
  <2>1. check[v] \in Checks /\ CheckSound(v, check[v]) /\ check[v].at = "idle"
    BY <1>4 DEF Ask, RevInv
  <2>2. y \in Checks /\ y.at \in {"list", "registry"} /\ y.list = check[v].list
    BY <2>1 DEF Checks
  <2>3. check' = [check EXCEPT ![v] = y] /\ UNCHANGED <<written, site>>
    BY <1>4 DEF Ask, RevInv
  <2> HIDE DEF y
  <2>4. CheckSound(v, y)
    BY <2>1, <2>2 DEF CheckSound
  <2> QED
    BY <2>1, <2>2, <2>3, <2>4, CheckMoves
<1>5. ASSUME NEW v \in Verifiers, ListAnswers(v)
      PROVE  RevInv' /\ \A u \in Verifiers : Done(u) => check'[u] = check[u]
  <2> DEFINE entry == credentialStatusOf(Credential[v])
  <2>1. check[v] \in Checks /\ check[v].at = "list" /\ UNCHANGED <<written, site>>
    BY <1>5 DEF ListAnswers, RevInv
  <2>2. PICK got \in {site, Nothing} :
          LET read == checkStatus(entry, IF got = Nothing THEN Nothing ELSE got.doc) IN
          check' = [check EXCEPT ![v].list = read,
                      ![v].at = IF read.checked THEN "done" ELSE "registry",
                      ![v].got = IF read.checked THEN got ELSE Nothing,
                      ![v].result = IF read.checked
                         THEN Report(TRUE, read.revoked, "bitstring-status-list") ELSE Nothing]
    BY <1>5 DEF ListAnswers
  <2> DEFINE read == checkStatus(entry, IF got = Nothing THEN Nothing ELSE got.doc)
             list == IF read.checked THEN got ELSE Nothing
             result == IF read.checked
                       THEN Report(TRUE, read.revoked, "bitstring-status-list") ELSE Nothing
             y == [check[v] EXCEPT !.list = read,
                      !.at = IF read.checked THEN "done" ELSE "registry",
                      !.got = list, !.result = result]
  <2>3. read \in ListReads
    BY ReadType
  <2>4. read.checked => got # Nothing
    BY DEF checkStatus, Unchecked
  <2>5. read.checked =>
           /\ got \in Served
           /\ ToInt(IndexOf(v)) < Entries(got.doc.bytes)
           /\ read.revoked <=> ToInt(IndexOf(v)) \in revokedFrom(got.listed)
    <3> SUFFICES ASSUME read.checked
                 PROVE  /\ got \in Served
                        /\ ToInt(IndexOf(v)) < Entries(got.doc.bytes)
                        /\ read.revoked <=> ToInt(IndexOf(v)) \in revokedFrom(got.listed)
      OBVIOUS
    <3>1. got \in Served /\ Tells(got)
      BY <2>4, ServedTell DEF RevInv
    <3>2. read = checkStatus(entry, got.doc)
      BY <2>4
    <3> QED
      BY <3>1, <3>2, AnswersWhatIsNamed DEF IndexOf
  <2>6. check' = [check EXCEPT ![v] = y]
    BY <2>2 DEF RevInv
  <2> HIDE DEF read, entry
  <2>7. list \in Served \cup {Nothing} /\ result \in Reports \cup {Nothing}
    BY <2>3, <2>5 DEF Report, Reports, ListReads
  <2>8. /\ y \in Checks /\ y.list = read /\ y.got = list /\ y.result = result
        /\ y.at = IF read.checked THEN "done" ELSE "registry"
    <3> HIDE DEF list, result
    <3> QED
      BY <2>1, <2>3, <2>7 DEF Checks
  <2>9. CheckSound(v, y)
    <3> HIDE DEF y
    <3> QED
      BY <2>5, <2>8 DEF CheckSound
  <2> HIDE DEF y
  <2> QED
    BY <2>1, <2>6, <2>8, <2>9, CheckMoves
<1>6. ASSUME NEW v \in Verifiers, RegistryAnswers(v)
      PROVE  RevInv' /\ \A u \in Verifiers : Done(u) => check'[u] = check[u]
  <2> DEFINE revoked == Credential[v].id \in onChain
  <2>1. /\ check[v] \in Checks /\ CheckSound(v, check[v]) /\ check[v].at = "registry"
        /\ UNCHANGED <<written, site>>
    BY <1>6 DEF RegistryAnswers, RevInv
  <2>2. FailClosed[v] \in BOOLEAN /\ revoked \in BOOLEAN
    BY VerifiersAssumption
  <2>3. CASE check' = [check EXCEPT ![v].at = "done", ![v].asked = revoked,
                          ![v].result = Report(TRUE, revoked, "on-chain-registry")]
    <3> HIDE DEF revoked
    <3> DEFINE y == [check[v] EXCEPT !.at = "done", !.asked = revoked,
                        !.result = Report(TRUE, revoked, "on-chain-registry")]
    <3>1. Report(TRUE, revoked, "on-chain-registry") \in Reports
      BY <2>2 DEF Report, Reports
    <3>2. /\ y \in Checks /\ y.at = "done" /\ y.asked = revoked /\ y.list = check[v].list
          /\ y.result = Report(TRUE, revoked, "on-chain-registry")
      BY <2>1, <2>2, <3>1 DEF Checks
    <3>3. check' = [check EXCEPT ![v] = y]
      BY <2>3 DEF RevInv
    <3> HIDE DEF y
    <3>4. CheckSound(v, y)
      BY <2>1, <2>2, <3>2 DEF CheckSound
    <3> QED
      BY <2>1, <3>2, <3>3, <3>4, CheckMoves
  <2>4. CASE check' = [check EXCEPT ![v].at = "done",
                          ![v].result = Report(FALSE, FailClosed[v], "none")]
    <3> DEFINE y == [check[v] EXCEPT !.at = "done", !.result = Report(FALSE, FailClosed[v], "none")]
    <3>1. Report(FALSE, FailClosed[v], "none") \in Reports
      BY <2>2 DEF Report, Reports
    <3>2. /\ y \in Checks /\ y.at = "done" /\ y.list = check[v].list
          /\ y.result = Report(FALSE, FailClosed[v], "none")
      BY <2>1, <3>1 DEF Checks
    <3>3. check' = [check EXCEPT ![v] = y]
      BY <2>4 DEF RevInv
    <3> HIDE DEF y
    <3>4. CheckSound(v, y)
      BY <2>1, <3>2 DEF CheckSound
    <3> QED
      BY <2>1, <3>2, <3>3, <3>4, CheckMoves
  <2> QED
    BY <1>6, <2>3, <2>4 DEF RegistryAnswers
<1> QED
  BY <1>3, <1>4, <1>5, <1>6 DEF RevNext, RevocationStep

\* What is read from a list, and what clears a credential, follow from RevInv.
LEMMA RevInvImplies == ASSUME RevInv PROVE ListTellsTheTruth /\ ClearedOnAnAnswer
<1> SUFFICES ASSUME NEW v \in Verifiers, Done(v)
             PROVE  /\ check[v].list.checked =>
                          /\ ToInt(IndexOf(v)) < Entries(check[v].got.doc.bytes)
                          /\ check[v].result.revoked <=> ToInt(IndexOf(v)) \in revokedFrom(check[v].got.listed)
                    /\ (FailClosed[v] /\ ~check[v].result.revoked) =>
                          \/ check[v].list.checked /\ ~check[v].list.revoked
                          \/ ~check[v].list.checked /\ check[v].asked = FALSE
  BY DEF ListTellsTheTruth, ClearedOnAnAnswer
<1>1. CheckSound(v, check[v]) /\ check[v].at = "done"
  BY DEF RevInv, Done
<1>2. \A r : Report(TRUE, r, "bitstring-status-list").revoked = r
  BY DEF Report
<1>3. \A r : Report(TRUE, r, "on-chain-registry").revoked = r
  BY DEF Report
<1>4. \A r : Report(FALSE, r, "none").revoked = r
  BY DEF Report
<1> DEFINE x == check[v]
<1> HIDE DEF x
<1>5. \/ /\ x.list.checked
         /\ x.result = Report(TRUE, x.list.revoked, "bitstring-status-list")
         /\ ToInt(IndexOf(v)) < Entries(x.got.doc.bytes)
         /\ x.list.revoked <=> ToInt(IndexOf(v)) \in revokedFrom(x.got.listed)
      \/ /\ ~x.list.checked
         /\ x.result = Report(TRUE, x.asked, "on-chain-registry") /\ x.asked \in BOOLEAN
      \/ ~x.list.checked /\ x.result = Report(FALSE, FailClosed[v], "none")
  BY <1>1 DEF CheckSound, x
<1>6. \/ /\ x.list.checked
         /\ x.result.revoked = x.list.revoked
         /\ ToInt(IndexOf(v)) < Entries(x.got.doc.bytes)
         /\ x.list.revoked <=> ToInt(IndexOf(v)) \in revokedFrom(x.got.listed)
      \/ /\ ~x.list.checked
         /\ x.result.revoked = x.asked /\ x.asked \in BOOLEAN
      \/ ~x.list.checked /\ x.result.revoked = FailClosed[v]
  BY ZenonT(30), <1>2, <1>3, <1>4, <1>5
<1> QED
  BY <1>6 DEF x
-----------------------------------------------------------------------------
(* Runs                                                                    *)

RunRecords == [at : {"checking", "calling", "waiting", "aborted", "finished", "killed"},
         call : Nat \ {0}, attempt : 0 .. MaxRetries, wait : 0 .. MaxRetries]

RunTypeOK ==
    /\ run \in [Agents -> RunRecords]
    /\ executed \in [0 .. Window - 1 -> Nat]
    /\ left \in [Agents -> [DOMAIN Plan -> Nat]]

\* What has left of run x is of calls it is past, once each, and its check was
\* over, with an answer that let it go on.
RunSound(x, gone, checked) ==
    /\ x.at \in {"calling", "waiting"} => x.call \in DOMAIN Plan
    /\ \A i \in DOMAIN Plan : gone[i] <= 1 /\ (i >= x.call => gone[i] = 0)
    /\ x.at \in {"checking", "aborted"} => x.call = 1
    /\ x.at \notin {"checking", "aborted"} => checked.at = "done" /\ ~checked.result.revoked
    /\ x.at \in {"checking", "calling"} => x.wait = 0

AgentInv ==
    /\ RevInv /\ RunTypeOK
    /\ \A v \in Agents : RunSound(run[v], left[v], check[v])

\* After a attempts that were refused, all that was admitted so many ticks ago
\* has been waited out, but for what is left of the present wait.
WaitedOut(x, admitted) ==
    \A t \in 0 .. Window - 1 :
        2 * (t + x.wait) < x.attempt * (x.attempt + 1) => admitted[t] = 0

QuotaInv == \A v \in Agents : WaitedOut(run[v], executed)

\* An agent that has not begun has asked for nothing.
LEMMA AgentStart == ASSUME AgentInit PROVE AgentInv /\ QuotaInv
<1>1. RevInv
  BY RevStart DEF AgentInit
<1>2. RunTypeOK
  BY QuotaAssumption DEF AgentInit, RunTypeOK, RunRecords
<1>3. DOMAIN Plan = 1 .. Len(Plan) /\ Len(Plan) \in Nat \ {0}
  BY PlanAssumption, EmptySeq
<1>4. \A v \in Agents : RunSound(run[v], left[v], check[v])
  BY <1>3 DEF AgentInit, RunSound
<1>5. QuotaInv
  BY QuotaAssumption DEF AgentInit, QuotaInv, WaitedOut
<1> QED
  BY <1>1, <1>2, <1>4, <1>5 DEF AgentInv

\* One run moves on, and its check stays what it was.
LEMMA RunMoves ==
    ASSUME AgentInv, NEW v \in Agents, NEW y \in RunRecords, NEW gone \in [DOMAIN Plan -> Nat],
           RunSound(y, gone, check[v]),
           run' = [run EXCEPT ![v] = y], left' = [left EXCEPT ![v] = gone],
           executed' \in [0 .. Window - 1 -> Nat], UNCHANGED revVars
    PROVE  AgentInv'
<1>1. RevInv' /\ check' = check
  BY DEF AgentInv, RevInv, revVars
<1>2. RunTypeOK'
  BY DEF AgentInv, RunTypeOK
<1>3. \A u \in Agents : RunSound(run'[u], left'[u], check'[u])
  BY <1>1 DEF AgentInv, RunTypeOK
<1> QED
  BY <1>1, <1>2, <1>3 DEF AgentInv

\* The next call's record.
Next1(x) ==
    [x EXCEPT !.call = @ + 1, !.attempt = 0,
              !.at = IF x.call = Len(Plan) THEN "finished" ELSE "calling"]

\* What is gone after the call is the order once more, or is as it was.
GoneAfter(x, gone, after) == after = gone \/ after = [gone EXCEPT ![x.call] = @ + 1]

\* Going on to the next call of the plan keeps a run in order.
LEMMA NextCallSound ==
    ASSUME NEW x \in RunRecords, NEW gone \in [DOMAIN Plan -> Nat], NEW c, RunSound(x, gone, c),
           x.at = "calling", NEW after, GoneAfter(x, gone, after)
    PROVE  /\ Next1(x) \in RunRecords /\ after \in [DOMAIN Plan -> Nat]
           /\ RunSound(Next1(x), after, c)
           /\ Next1(x).attempt = 0
<1> DEFINE y == Next1(x)
<1>1. DOMAIN Plan = 1 .. Len(Plan) /\ Len(Plan) \in Nat
  BY PlanAssumption
<1>2. x.call \in 1 .. Len(Plan) /\ x.wait = 0
  BY <1>1 DEF RunSound
<1>3. /\ y \in RunRecords /\ y.call = x.call + 1 /\ y.attempt = 0 /\ y.wait = 0
      /\ y.at = IF x.call = Len(Plan) THEN "finished" ELSE "calling"
  <2> DEFINE place == IF x.call = Len(Plan) THEN "finished" ELSE "calling"
             next == x.call + 1
  <2>1. next \in Nat \ {0} /\ 0 \in 0 .. MaxRetries
    BY <1>1, <1>2, QuotaAssumption
  <2>2. y = [x EXCEPT !.call = next, !.attempt = 0, !.at = place]
    BY DEF Next1
  <2>3. place \in {"calling", "finished"}
    OBVIOUS
  <2> HIDE DEF y, place, next
  <2>4. y \in RunRecords /\ y.call = next /\ y.attempt = 0 /\ y.wait = x.wait /\ y.at = place
    BY <2>1, <2>2, <2>3 DEF RunRecords
  <2> QED
    BY <1>2, <2>4 DEF place, next
<1> HIDE DEF y
<1>4. after \in [DOMAIN Plan -> Nat]
  BY <1>1, <1>2 DEF GoneAfter
<1>5. ASSUME NEW i \in DOMAIN Plan
      PROVE  after[i] <= 1 /\ (i >= y.call => after[i] = 0)
  BY SMTT(30), <1>1, <1>2, <1>3 DEF GoneAfter, RunSound
<1>6. y.at \in {"calling", "waiting"} => y.call \in DOMAIN Plan
  BY <1>1, <1>2, <1>3
<1> QED
  BY <1>3, <1>4, <1>5, <1>6 DEF RunSound, y

\* A call that ends, whatever it says: the run goes on to the next one.
LEMMA CallEnds ==
    ASSUME AgentInv, NEW v \in Agents, run[v].at = "calling",
           run' = NextCall(v), Leaves(v) \/ UNCHANGED left,
           executed' \in [0 .. Window - 1 -> Nat], UNCHANGED revVars
    PROVE  AgentInv' /\ run'[v].attempt = 0
<1>1. run' = [run EXCEPT ![v] = Next1(run[v])]
  BY DEF NextCall, Next1, Current, AgentInv, RunTypeOK
<1>2. PICK after : GoneAfter(run[v], left[v], after) /\ left' = [left EXCEPT ![v] = after]
  <2>1. CASE Leaves(v)
    BY <2>1 DEF Leaves, Current, GoneAfter, AgentInv, RunTypeOK
  <2>2. CASE UNCHANGED left
    BY <2>2 DEF GoneAfter, AgentInv, RunTypeOK
  <2> QED
    BY <2>1, <2>2
<1>3. /\ run[v] \in RunRecords /\ left[v] \in [DOMAIN Plan -> Nat]
      /\ RunSound(run[v], left[v], check[v])
  BY DEF AgentInv, RunTypeOK
<1>4. /\ Next1(run[v]) \in RunRecords /\ after \in [DOMAIN Plan -> Nat]
      /\ RunSound(Next1(run[v]), after, check[v]) /\ Next1(run[v]).attempt = 0
  BY <1>2, <1>3, NextCallSound
<1>5. AgentInv'
  BY <1>1, <1>2, <1>4, RunMoves
<1>6. run'[v] = Next1(run[v])
  BY <1>1 DEF AgentInv, RunTypeOK
<1> QED
  BY <1>4, <1>5, <1>6

\* A call that is let through keeps the counts of the window numbers.
LEMMA ChargeType ==
    ASSUME executed \in [0 .. Window - 1 -> Nat], Charge
    PROVE  executed' \in [0 .. Window - 1 -> Nat]
  BY QuotaAssumption DEF Charge

\* A call that comes back, with an answer or without, disturbs no other run.
LEMMA AnsweredStep ==
    ASSUME AgentInv, NEW v \in Agents, Answered(v) \/ Fails(v)
    PROVE  AgentInv' /\ run'[v].attempt = 0 /\ \A u \in Agents : u # v => run'[u] = run[u]
<1>1. /\ run[v].at = "calling" /\ run' = NextCall(v) /\ UNCHANGED revVars /\ Charge
      /\ Leaves(v) \/ UNCHANGED left
  BY DEF Answered, DryRunAnswered, OrderAnswered, Heard, Fails
<1>2. executed' \in [0 .. Window - 1 -> Nat]
  BY <1>1, ChargeType DEF AgentInv, RunTypeOK
<1>3. AgentInv' /\ run'[v].attempt = 0
  BY <1>1, <1>2, CallEnds
<1> QED
  BY <1>1, <1>3 DEF NextCall, AgentInv, RunTypeOK
\* A run that is refused for the quota waits one tick more than before, or
\* gives the call up.
LEMMA RefusedStep ==
    ASSUME AgentInv, NEW v \in Agents, RefusedForQuota(v)
    PROVE  /\ AgentInv' /\ UNCHANGED executed
           /\ \A u \in Agents : u # v => run'[u] = run[u]
           /\ \/ run'[v].attempt = 0
              \/ /\ run[v].wait = 0
                 /\ run'[v].attempt = run[v].attempt + 1 /\ run'[v].wait = run[v].attempt + 1
<1>1. /\ run[v].at = "calling" /\ UNCHANGED <<revVars, executed, left>>
      /\ run[v] \in RunRecords /\ RunSound(run[v], left[v], check[v])
      /\ executed \in [0 .. Window - 1 -> Nat]
  BY DEF RefusedForQuota, AgentInv, RunTypeOK
<1>2. CASE run[v].attempt < MaxRetries
  <2> DEFINE next == run[v].attempt + 1
             y == [run[v] EXCEPT !.at = "waiting", !.attempt = next, !.wait = next]
  <2>1. next \in 0 .. MaxRetries
    BY <1>1, <1>2, QuotaAssumption DEF RunRecords
  <2>2. run' = [run EXCEPT ![v] = y]
    BY <1>1, <1>2 DEF RefusedForQuota, WaitsFor, AgentInv, RunTypeOK
  <2> HIDE DEF next
  <2>3. /\ y \in RunRecords /\ y.at = "waiting" /\ y.call = run[v].call
        /\ y.attempt = next /\ y.wait = next
    BY <1>1, <2>1 DEF RunRecords
  <2> HIDE DEF y
  <2>4. RunSound(y, left[v], check[v])
    BY <1>1, <2>3 DEF RunSound
  <2>5. left' = [left EXCEPT ![v] = left[v]] /\ left[v] \in [DOMAIN Plan -> Nat]
    BY <1>1 DEF AgentInv, RunTypeOK
  <2>6. AgentInv'
    BY <1>1, <2>2, <2>3, <2>4, <2>5, RunMoves
  <2>7. run'[v] = y /\ \A u \in Agents : u # v => run'[u] = run[u]
    BY <2>2 DEF AgentInv, RunTypeOK
  <2> QED
    BY <1>1, <2>3, <2>6, <2>7 DEF RunSound, next
<1>3. CASE ~(run[v].attempt < MaxRetries)
  <2>1. run' = NextCall(v)
    BY <1>3 DEF RefusedForQuota, GivesUpFor
  <2>2. AgentInv' /\ run'[v].attempt = 0
    BY <1>1, <2>1, CallEnds
  <2> QED
    BY <1>1, <2>1, <2>2 DEF NextCall, AgentInv, RunTypeOK
<1> QED
  BY <1>2, <1>3

\* A run that is refused and not told why goes on to its next call.
LEMMA UnnamedStep ==
    ASSUME AgentInv, NEW v \in Agents, RefusedUnnamed(v)
    PROVE  /\ AgentInv' /\ UNCHANGED executed
           /\ run'[v].attempt = 0 /\ \A u \in Agents : u # v => run'[u] = run[u]
<1>1. /\ run[v].at = "calling" /\ run' = NextCall(v) /\ UNCHANGED <<revVars, executed, left>>
      /\ executed \in [0 .. Window - 1 -> Nat]
  BY DEF RefusedUnnamed, GivesUpFor, AgentInv, RunTypeOK
<1>2. AgentInv' /\ run'[v].attempt = 0
  BY <1>1, CallEnds
<1> QED
  BY <1>1, <1>2 DEF NextCall, AgentInv, RunTypeOK

\* A run that changes its place, and nothing else.
LEMMA PlaceStep ==
    ASSUME AgentInv, NEW v \in Agents, AfterCheck(v) \/ WakesUp(v) \/ Killed(v)
    PROVE  /\ AgentInv' /\ UNCHANGED executed
           /\ \A u \in Agents : u # v => run'[u] = run[u]
           /\ run'[v].attempt = run[v].attempt /\ run'[v].wait = run[v].wait
<1>1. UNCHANGED <<revVars, executed, left>>
  BY DEF AfterCheck, WakesUp, Killed
<1>2. PICK place \in {"calling", "aborted", "killed"} :
        /\ run' = [run EXCEPT ![v].at = place]
        /\ \/ /\ run[v].at = "checking" /\ Done(v)
              /\ place = IF check[v].result.revoked THEN "aborted" ELSE "calling"
           \/ run[v].at = "waiting" /\ run[v].wait = 0 /\ place = "calling"
           \/ run[v].at \in {"calling", "waiting"} /\ place = "killed"
  <2>1. CASE AfterCheck(v)
    BY <2>1 DEF AfterCheck
  <2>2. CASE WakesUp(v)
    BY <2>2 DEF WakesUp
  <2>3. CASE Killed(v)
    BY <2>3 DEF Killed
  <2> QED
    BY <2>1, <2>2, <2>3
<1>3. /\ run[v] \in RunRecords /\ RunSound(run[v], left[v], check[v])
      /\ executed' \in [0 .. Window - 1 -> Nat]
      /\ left' = [left EXCEPT ![v] = left[v]] /\ left[v] \in [DOMAIN Plan -> Nat]
  BY <1>1 DEF AgentInv, RunTypeOK
<1> DEFINE y == [run[v] EXCEPT !.at = place]
<1>4. run' = [run EXCEPT ![v] = y]
  BY <1>2 DEF AgentInv, RunTypeOK
<1>5. /\ y \in RunRecords /\ y.at = place /\ y.call = run[v].call
      /\ y.attempt = run[v].attempt /\ y.wait = run[v].wait
  BY <1>2, <1>3 DEF RunRecords
<1> HIDE DEF y
<1>6. RunSound(y, left[v], check[v])
  <2>1. 1 \in DOMAIN Plan
    BY PlanAssumption, EmptySeq
  <2>2. CASE run[v].at = "checking" /\ Done(v) /\ place = "aborted"
    BY <1>3, <1>5, <2>2 DEF RunSound
  <2>3. CASE run[v].at = "checking" /\ Done(v) /\ place = "calling" /\ ~check[v].result.revoked
    <3>1. y.wait = 0
      BY <1>3, <1>5, <2>3 DEF RunSound
    <3> QED
      BY <1>3, <1>5, <2>1, <2>3, <3>1 DEF RunSound, Done
  <2>4. CASE run[v].at = "waiting" /\ run[v].wait = 0 /\ place = "calling"
    BY <1>3, <1>5, <2>4 DEF RunSound
  <2>5. CASE run[v].at \in {"calling", "waiting"} /\ place = "killed"
    BY <1>3, <1>5, <2>5 DEF RunSound
  <2> QED
    BY <1>2, <2>2, <2>3, <2>4, <2>5
<1>7. AgentInv'
  BY <1>1, <1>3, <1>4, <1>5, <1>6, RunMoves
<1>8. run'[v] = y /\ \A u \in Agents : u # v => run'[u] = run[u]
  BY <1>4 DEF AgentInv, RunTypeOK
<1> QED
  BY <1>1, <1>5, <1>7, <1>8

\* Time passes, for the waits and for what was admitted.
LEMMA TickStep ==
    ASSUME AgentInv, Tick
    PROVE  /\ AgentInv' /\ executed' \in [0 .. Window - 1 -> Nat]
           /\ \A t \in 0 .. Window - 1 :
                 executed'[t] = IF t = 0 THEN 0 ELSE executed[t - 1]
           /\ \A v \in Agents :
                 /\ run'[v].attempt = run[v].attempt
                 /\ run'[v].wait = IF run[v].wait > 0 THEN run[v].wait - 1 ELSE 0
<1>1. UNCHANGED <<revVars, left>>
  BY DEF Tick
<1>2. RevInv' /\ UNCHANGED <<check, left>>
  BY <1>1 DEF AgentInv, RevInv, revVars
<1>3. /\ executed' \in [0 .. Window - 1 -> Nat]
      /\ \A t \in 0 .. Window - 1 :
            executed'[t] = IF t = 0 THEN 0 ELSE executed[t - 1]
  <2>1. \A t \in 0 .. Window - 1 : t = 0 \/ t - 1 \in 0 .. Window - 1
    BY QuotaAssumption
  <2>2. executed' = [t \in 0 .. Window - 1 |-> IF t = 0 THEN 0 ELSE executed[t - 1]]
    BY DEF Tick, AgentInv, RunTypeOK
  <2> QED
    BY <2>1, <2>2 DEF AgentInv, RunTypeOK
<1>4. ASSUME NEW v \in Agents
      PROVE  /\ run'[v] \in RunRecords /\ run'[v].at = run[v].at /\ run'[v].call = run[v].call
             /\ run'[v].attempt = run[v].attempt
             /\ run'[v].wait = IF run[v].wait > 0 THEN run[v].wait - 1 ELSE 0
  <2> DEFINE less == IF run[v].wait > 0 THEN run[v].wait - 1 ELSE 0
  <2>1. run[v] \in RunRecords
    BY DEF AgentInv, RunTypeOK
  <2>2. less \in 0 .. MaxRetries
    BY <2>1, QuotaAssumption DEF RunRecords
  <2>3. run'[v] = [run[v] EXCEPT !.wait = less]
    BY <2>1 DEF Tick, RunRecords
  <2> HIDE DEF less
  <2>4. /\ run'[v] \in RunRecords /\ run'[v].at = run[v].at /\ run'[v].call = run[v].call
        /\ run'[v].attempt = run[v].attempt /\ run'[v].wait = less
    BY <2>1, <2>2, <2>3 DEF RunRecords
  <2> QED
    BY <2>4 DEF less
<1>5. RunTypeOK'
  <2>1. run' = [v \in Agents |-> run'[v]]
    BY DEF Tick
  <2> QED
    BY <1>2, <1>3, <1>4, <2>1 DEF AgentInv, RunTypeOK
<1>6. \A v \in Agents : RunSound(run'[v], left'[v], check'[v])
  BY <1>2, <1>4 DEF AgentInv, RunSound
<1> QED
  BY <1>2, <1>3, <1>4, <1>5, <1>6 DEF AgentInv
\* The checks go on, and no run moves.
LEMMA CheckStep ==
    ASSUME AgentInv, RevNext, UNCHANGED runVars
    PROVE  AgentInv' /\ UNCHANGED <<run, executed>>
<1>1. RevInv' /\ \A u \in Verifiers : Done(u) => check'[u] = check[u]
  BY RevStep DEF AgentInv
<1>2. UNCHANGED <<run, executed, left>>
  BY DEF runVars
<1>3. ASSUME NEW v \in Agents PROVE RunSound(run[v], left[v], check'[v])
  <2>1. v \in Verifiers /\ RunSound(run[v], left[v], check[v])
    BY AgentsAssumption DEF AgentInv
  <2> QED
    BY <1>1, <2>1 DEF RunSound, Done
<1> QED
  BY <1>1, <1>2, <1>3 DEF AgentInv, RunTypeOK

\* The invariant of the runs holds in every state of the agents.
LEMMA AgentInvCorrect == AgentSpec => []AgentInv
<1>1. AgentInit => AgentInv
  BY AgentStart
<1>2. ASSUME AgentInv, [AgentNext]_agentVars PROVE AgentInv'
  <2>1. CASE UNCHANGED agentVars
    BY <1>2, <2>1 DEF agentVars, revVars, runVars, AgentInv, RevInv, RunTypeOK
  <2> QED
    BY <1>2, <2>1, AnsweredStep, RefusedStep, UnnamedStep, PlaceStep, TickStep, CheckStep DEF AgentNext, RunStep
<1> QED
  BY <1>1, <1>2, PTL DEF AgentSpec

\* No order leaves the enclave twice on one call, for any plan, quota and
\* number of runs that share it.
THEOREM OrdersLeaveOnceHolds == AgentSpec => []OrdersLeaveOnce
<1>1. AgentInv => OrdersLeaveOnce
  BY DEF AgentInv, RunSound, OrdersLeaveOnce
<1> QED
  BY <1>1, AgentInvCorrect, PTL

\* A run sends nothing before its check is over, and nothing at all when it was
\* told that its credential is revoked.
THEOREM NothingBeforeTheCheckHolds == AgentSpec => []NothingBeforeTheCheck
<1>1. ASSUME AgentInv, NEW v \in Agents, NEW i \in DOMAIN Plan, left[v][i] > 0
      PROVE  Done(v) /\ ~check[v].result.revoked
  <2>1. i >= 1
    BY PlanAssumption
  <2>2. run[v].at \notin {"checking", "aborted"}
    BY <1>1, <2>1 DEF AgentInv, RunSound
  <2> QED
    BY <1>1, <2>2 DEF AgentInv, RunSound, Done
<1>2. AgentInv => NothingBeforeTheCheck
  BY <1>1 DEF NothingBeforeTheCheck
<1> QED
  BY <1>2, AgentInvCorrect, PTL

\* A verifier that is answered from a list is told what its issuer named,
\* whatever is published, deployed or replaced while it asks.
THEOREM ListTellsTheTruthHolds == AgentSpec => []ListTellsTheTruth
<1>1. AgentInv => ListTellsTheTruth
  BY RevInvImplies DEF AgentInv
<1> QED
  BY <1>1, AgentInvCorrect, PTL

\* A verifier that fails closed clears a credential only on an answer.
THEOREM ClearedOnAnAnswerHolds == AgentSpec => []ClearedOnAnAnswer
<1>1. AgentInv => ClearedOnAnAnswer
  BY RevInvImplies DEF AgentInv
<1> QED
  BY <1>1, AgentInvCorrect, PTL

\* With one run on the node, what was admitted leaves the window while it waits.
LEMMA QuotaStep ==
    ASSUME AgentInv, QuotaInv, [AgentNext]_agentVars, \A u, v \in Agents : u = v
    PROVE  QuotaInv'
<1> SUFFICES ASSUME NEW v \in Agents, NEW t \in 0 .. Window - 1,
                    2 * (t + run'[v].wait) < run'[v].attempt * (run'[v].attempt + 1)
             PROVE  executed'[t] = 0
  BY DEF QuotaInv, WaitedOut
<1> DEFINE w == run[v].wait
           a == run[v].attempt
<1>1. w \in Nat /\ a \in Nat /\ t \in Nat /\ Window \in Nat
  BY QuotaAssumption DEF AgentInv, RunTypeOK, RunRecords
<1>2. \A s \in 0 .. Window - 1 : 2 * (s + w) < a * (a + 1) => executed[s] = 0
  BY DEF QuotaInv, WaitedOut
<1>3. AgentInv'
  <2>1. CASE UNCHANGED agentVars
    BY <2>1 DEF agentVars, revVars, runVars, AgentInv, RevInv, RunTypeOK
  <2> QED
    BY <2>1, AnsweredStep, RefusedStep, UnnamedStep, PlaceStep, TickStep, CheckStep DEF AgentNext, RunStep
<1>4. run'[v].attempt # 0
  <2>1. run'[v].wait \in Nat
    BY <1>3, QuotaAssumption DEF AgentInv, RunTypeOK, RunRecords
  <2> QED
    BY <1>1, <2>1
<1>5. CASE UNCHANGED <<run, executed>>
  BY <1>2, <1>5
<1>6. ASSUME NEW u \in Agents, Answered(u) \/ Fails(u) \/ RefusedUnnamed(u) PROVE FALSE
  BY <1>4, <1>6, AnsweredStep, UnnamedStep
<1>7. ASSUME NEW u \in Agents, RefusedForQuota(u) PROVE executed'[t] = 0
  <2>1. /\ executed' = executed /\ w = 0
        /\ run'[v].attempt = a + 1 /\ run'[v].wait = a + 1
    BY <1>4, <1>7, RefusedStep
  <2> HIDE DEF a, w
  <2>2. 2 * (t + (a + 1)) < (a + 1) * (a + 1 + 1)
    BY <2>1
  <2>3. (a + 1) * (a + 1 + 1) = a * (a + 1) + 2 * (a + 1)
    BY <1>1
  <2>4. 2 * (t + w) < a * (a + 1)
    BY <1>1, <2>1, <2>2, <2>3
  <2> QED
    BY <1>2, <2>1, <2>4
<1>8. ASSUME NEW u \in Agents, AfterCheck(u) \/ WakesUp(u) \/ Killed(u) PROVE executed'[t] = 0
  BY <1>2, <1>8, PlaceStep
<1>9. CASE Tick
  <2>1. /\ executed'[t] = IF t = 0 THEN 0 ELSE executed[t - 1]
        /\ run'[v].attempt = a /\ run'[v].wait = IF w > 0 THEN w - 1 ELSE 0
    BY <1>9, TickStep
  <2> HIDE DEF a, w
  <2>2. t # 0 => t - 1 \in 0 .. Window - 1 /\ 2 * (t - 1 + w) < a * (a + 1)
    <3> DEFINE b == a * (a + 1)
    <3>1. b \in Nat
      BY <1>1
    <3>2. 2 * (t + (IF w > 0 THEN w - 1 ELSE 0)) < b
      BY <2>1
    <3> HIDE DEF b
    <3>3. t # 0 => t - 1 \in 0 .. Window - 1 /\ 2 * (t - 1 + w) < b
      BY <1>1, <3>1, <3>2
    <3> QED
      BY <3>3 DEF b
  <2> QED
    BY <1>2, <2>1, <2>2
<1>10. CASE UNCHANGED agentVars
  BY <1>5, <1>10 DEF agentVars, runVars
<1>11. CASE RevNext /\ UNCHANGED runVars
  BY <1>5, <1>11 DEF runVars
<1> QED
  BY <1>6, <1>7, <1>8, <1>9, <1>10, <1>11 DEF AgentNext, RunStep

\* A run that is alone on the node gives no call up for a quota it is told of, for
\* every quota and plan, whatever the refusals that do not name it: it is enough
\* that its waits, 1 + 2 + .. + MaxRetries ticks, are no shorter than the window.
THEOREM QuotaIsWaitedOutHolds ==
    ASSUME \A u, v \in Agents : u = v, 2 * Window <= MaxRetries * (MaxRetries + 1)
    PROVE  AgentSpec => []QuotaIsWaitedOut
<1>1. AgentInit => QuotaInv
  BY AgentStart
<1>2. AgentInv /\ QuotaInv /\ [AgentNext]_agentVars => QuotaInv'
  BY QuotaStep
<1>3. ASSUME AgentInv, QuotaInv, NEW v \in Agents, RefusedForQuota(v)
      PROVE  run[v].attempt < MaxRetries
  <2> SUFFICES ASSUME run[v].attempt >= MaxRetries PROVE FALSE
    BY <1>3, QuotaAssumption DEF AgentInv, RunTypeOK, RunRecords
  <2>1. run[v].wait = 0 /\ run[v].attempt = MaxRetries /\ Used >= Cap
    BY <1>3, QuotaAssumption DEF RefusedForQuota, AgentInv, RunSound, RunTypeOK, RunRecords
  <2>2. ASSUME NEW t \in 0 .. Window - 1 PROVE executed[t] = 0
    <3>1. 2 * (t + 0) < MaxRetries * (MaxRetries + 1)
      BY QuotaAssumption
    <3> QED
      BY <1>3, <2>1, <3>1 DEF QuotaInv, WaitedOut
  <2>3. DOMAIN executed = 0 .. Window - 1
    BY <1>3 DEF AgentInv, RunTypeOK
  <2>4. UNION {{t} \X (1 .. executed[t]) : t \in DOMAIN executed} = {}
    BY <2>2, <2>3
  <2>5. Used = 0
    BY <2>4, FS_EmptySet DEF Used
  <2> QED
    BY <2>1, <2>5, QuotaAssumption
<1>4. ASSUME AgentInv, QuotaInv, QuotaIsWaitedOut, [AgentNext]_agentVars PROVE QuotaIsWaitedOut'
  <2>1. ASSUME NEW v \in Agents, RefusedForQuota(v) PROVE UNCHANGED dropped
    BY <1>3, <1>4, <2>1 DEF RefusedForQuota, WaitsFor
  <2>2. ASSUME NEW v \in Agents, RefusedUnnamed(v) PROVE \A d \in dropped' : ~d.named
    BY <1>4, <2>2 DEF RefusedUnnamed, GivesUpFor, QuotaIsWaitedOut
  <2>3. \/ UNCHANGED dropped
        \/ \E v \in Agents : RefusedForQuota(v) \/ RefusedUnnamed(v)
    BY <1>4 DEF AgentNext, RunStep, agentVars, runVars, AfterCheck, Answered, DryRunAnswered,
                OrderAnswered, Heard, Fails, WakesUp, Killed, Tick
  <2> QED
    BY <1>4, <2>1, <2>2, <2>3 DEF QuotaIsWaitedOut
<1>5. AgentInit => QuotaIsWaitedOut
  BY DEF AgentInit, QuotaIsWaitedOut
<1> QED
  BY <1>1, <1>2, <1>4, <1>5, AgentInvCorrect, PTL DEF AgentSpec
===============================================================================
