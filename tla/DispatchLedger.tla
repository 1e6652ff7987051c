--------------------------- MODULE DispatchLedger ---------------------------
(***************************************************************************)
(* What execute_action promises about idempotency keys, with no mandate,   *)
(* no transactions and no clock: a ledger of write-once entries.           *)
(*                                                                         *)
(* An attempt opens only on a key without an entry, makes its outbound     *)
(* call, and then either settles, which writes the entry and is possible   *)
(* only while the key has none, or is lost.  An attempt that lost the race *)
(* has still made its call: the ledger orders records, not effects.        *)
(***************************************************************************)
CONSTANTS Attempts, Keys, Outcomes, None

VARIABLES
    ledger,    \* the recorded outcome of each key, None before there is one
    attempts   \* where each attempt stands

vars == <<ledger, attempts>>

Unopened == [phase |-> "unopened", key |-> None, outcome |-> None]

Init ==
    /\ ledger = [k \in Keys |-> None]
    /\ attempts = [a \in Attempts |-> Unopened]

\* An attempt without a key promises nothing and records nothing.
Open(a, k) ==
    /\ attempts[a] = Unopened
    /\ k # None => ledger[k] = None
    /\ attempts' = [attempts EXCEPT ![a] = [phase |-> "open", key |-> k, outcome |-> None]]
    /\ UNCHANGED ledger

\* Attempt a goes on to a phase, under the key it opened with.
Moves(a, phase, outcome) ==
    attempts' = [attempts EXCEPT ![a] =
                   [phase |-> phase, key |-> attempts[a].key, outcome |-> outcome]]

Emit(a, o) ==
    /\ attempts[a].phase = "open"
    /\ Moves(a, "emitted", o)
    /\ UNCHANGED ledger

Settle(a) ==
    LET k == attempts[a].key IN
    /\ attempts[a].phase = "emitted"
    /\ Moves(a, "settled", attempts[a].outcome)
    /\ IF k = None
       THEN UNCHANGED ledger
       ELSE /\ ledger[k] = None
            /\ ledger' = [ledger EXCEPT ![k] = attempts[a].outcome]

Lose(a) ==
    /\ attempts[a].phase \in {"open", "emitted"}
    /\ Moves(a, "lost", attempts[a].outcome)
    /\ UNCHANGED ledger

Next ==
    \E a \in Attempts :
        \/ \E k \in Keys \cup {None} : Open(a, k)
        \/ \E o \in Outcomes : Emit(a, o)
        \/ Settle(a)
        \/ Lose(a)

Spec == Init /\ [][Next]_vars
=============================================================================
