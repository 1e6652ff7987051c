---------------------------- MODULE AuditPaging ----------------------------
(***************************************************************************)
(* audit.mjs: the node's ledger of an agent's calls is read page by page,  *)
(* newest first, while the agent goes on calling, and the successful calls *)
(* are compared with the dispatches the agent claims.                      *)
(*                                                                         *)
(* The node numbers entries from 0.  A page holds up to `limit` entries    *)
(* older than before_seq, or the newest; its next_seq is its last number   *)
(* while there are older entries, and null otherwise.                      *)
(***************************************************************************)
EXTENDS Integers, Sequences, FiniteSets

CONSTANTS
    MaxCalls,    \* bound on the ledger
    Limit, PageSize,
    PageCap,     \* the node may hold a page to this many entries
    NoSeq

VARIABLES
    ledger,   \* outcome of each call, seq 0 first
    claimed,  \* calls of which the agent printed "dispatched"
    reader    \* readActivity: the sequence numbers read, before, the rows given

auditVars == <<ledger, claimed, reader>>

ASSUME LimitsAssumption ==
    /\ Limit \in Nat \ {0} /\ PageSize \in Nat \ {0} /\ PageCap \in Nat \ {0} /\ MaxCalls \in Nat
    /\ NoSeq \notin Nat

AuditInit ==
    /\ ledger = <<>>
    /\ claimed = {}
    /\ reader = [at |-> "idle", entries |-> <<>>, before |-> NoSeq, rows |-> {}]

\* The agent claims a dispatch when the answer of a successful call says so.
CallSucceeds ==
    /\ Len(ledger) < MaxCalls
    /\ ledger' = Append(ledger, "success")
    /\ claimed' \in {claimed, claimed \cup {Len(ledger)}}
    /\ UNCHANGED reader

CallErrs ==
    /\ Len(ledger) < MaxCalls
    /\ ledger' = Append(ledger, "error")
    /\ UNCHANGED <<claimed, reader>>

\* The rows the agent has printed when the audit starts.
ReadStarts ==
    /\ reader.at = "idle"
    /\ reader' = [reader EXCEPT !.at = "reading", !.rows = claimed]
    /\ UNCHANGED <<ledger, claimed>>

SmallerOf(a, b) == IF a < b THEN a ELSE b
LargerOf(a, b) == IF a > b THEN a ELSE b

\* The numbers from `from` down to `to`.
Down(from, to) == [i \in 1 .. from - to + 1 |-> from + 1 - i]

\* The page the node answers with: limit and before_seq are the request's.
Page(limit, before, held) ==
    LET last == IF before = NoSeq THEN Len(ledger) ELSE before
        size == SmallerOf(last, SmallerOf(limit, held))
    IN  [entries |-> Down(last - 1, last - size),
         next_seq |-> IF last - size > 0 /\ size > 0 THEN last - size ELSE NoSeq]

Asked == SmallerOf(PageSize, Limit - Len(reader.entries))

\* What the request carries: 0 is falsy.
Before == IF reader.before = 0 THEN NoSeq ELSE reader.before

\* A page shorter than asked for is the last.
ReadsUntilShort ==
    /\ reader.at = "reading" /\ Len(reader.entries) < Limit
    /\ \E held \in {PageCap, PageSize} :
         LET page == Page(Asked, Before, held) IN
         reader' = [reader EXCEPT
                      !.entries = @ \o page.entries,
                      !.before = page.next_seq,
                      !.at = IF Len(page.entries) < Asked \/ page.next_seq = NoSeq
                             THEN "done" ELSE "reading"]
    /\ UNCHANGED <<ledger, claimed>>

\* Continues by how much was read, not by where.
ReadsByOffset ==
    /\ reader.at = "reading" /\ Len(reader.entries) < Limit
    /\ \E held \in {PageCap, PageSize} :
         LET page == Page(Asked, LargerOf(Len(ledger) - Len(reader.entries), 0), held) IN
         reader' = [reader EXCEPT
                      !.entries = @ \o page.entries,
                      !.at = IF page.next_seq = NoSeq THEN "done" ELSE "reading"]
    /\ UNCHANGED <<ledger, claimed>>

\* An empty page, or one that names no continuation, ends the reading.
ReadsPage ==
    /\ reader.at = "reading" /\ Len(reader.entries) < Limit
    /\ \E held \in {PageCap, PageSize} :
         LET page == Page(Asked, Before, held) IN
         reader' = [reader EXCEPT
                      !.entries = @ \o page.entries,
                      !.before = page.next_seq,
                      !.at = IF page.next_seq = NoSeq THEN "done" ELSE "reading"]
    /\ UNCHANGED <<ledger, claimed>>

ReadEnds ==
    /\ reader.at = "reading" /\ Len(reader.entries) >= Limit
    /\ reader' = [reader EXCEPT !.at = "done"]
    /\ UNCHANGED <<ledger, claimed>>

AuditNext == CallSucceeds \/ CallErrs \/ ReadStarts \/ ReadsPage \/ ReadEnds

AuditSpec == AuditInit /\ [][AuditNext]_auditVars

-----------------------------------------------------------------------------
(* reconcile                                                               *)

\* Every successful entry counts once per time it was read.
Successful == {i \in DOMAIN reader.entries : ledger[reader.entries[i] + 1] = "success"}

consistent == Cardinality(Successful) >= Cardinality(reader.rows)

-----------------------------------------------------------------------------
(* Properties                                                              *)

\* A reading is the newest entries there were when its first page was served,
\* each once, without a gap, however the ledger grew meanwhile.
ReadsEachOnce ==
    /\ Len(reader.entries) <= Limit
    /\ \A i \in DOMAIN reader.entries :
          /\ reader.entries[i] + i = reader.entries[1] + 1
          /\ reader.entries[i] < Len(ledger)

\* An agent that claims only what succeeded is found consistent, as long as
\* the entries of its time fit into what is read.
HonestIsConsistent ==
    (reader.at = "done" /\ Len(ledger) <= Limit) => consistent
=============================================================================
