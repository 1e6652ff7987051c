----------------------------- MODULE Reputation -----------------------------
(***************************************************************************)
(* readReputation (agent/src/erc8004.mjs): the feedback about one agent,   *)
(* aggregated from one chain read per client and one per entry, while      *)
(* clients give feedback and take it back.                                 *)
(***************************************************************************)
EXTENDS Integers, Sequences, FiniteSets

CONSTANTS
    Clients,    \* addresses that may leave feedback
    MaxIndex,   \* bound on the entries of one client
    ChainFails  \* may a chain read fail

VARIABLES
    entries,    \* the registry: per client, its entries, TRUE when revoked
    listed,     \* the registry: its clients, by first feedback
    walk,       \* the reading process
    feedback,   \* what it has collected
    skipped     \* the entries whose read it gave up

repVars == <<entries, listed, walk, feedback, skipped>>

ASSUME MaxIndexAssumption == MaxIndex \in Nat

NotReading ==
    [at |-> "idle", clients |-> <<>>, client |-> 1, last |-> 0, index |-> 1,
     found |-> [c \in Clients |-> <<>>]]

RepInit ==
    /\ entries = [c \in Clients |-> <<>>]
    /\ listed = <<>>
    /\ walk = NotReading
    /\ feedback = <<>>
    /\ skipped = {}

-----------------------------------------------------------------------------
(* The registry                                                            *)

Gives(c) ==
    /\ Len(entries[c]) < MaxIndex
    /\ entries' = [entries EXCEPT ![c] = Append(@, FALSE)]
    /\ listed' = IF entries[c] = <<>> THEN Append(listed, c) ELSE listed
    /\ UNCHANGED <<walk, feedback, skipped>>

Revokes(c, i) ==
    /\ ~entries[c][i]
    /\ entries' = [entries EXCEPT ![c][i] = TRUE]
    /\ UNCHANGED <<listed, walk, feedback, skipped>>

-----------------------------------------------------------------------------
(* The reader, one chain read at a time                                    *)

\* The clients are those of this moment.  `found` remembers the registry as
\* it was then, for the properties.
getClients ==
    /\ walk.at = "idle"
    /\ walk' = [NotReading EXCEPT !.at = "clients", !.clients = listed, !.found = entries]
    /\ UNCHANGED <<entries, listed, feedback, skipped>>

Client == walk.clients[walk.client]

getLastIndex ==
    /\ walk.at = "clients" /\ walk.client <= Len(walk.clients)
    /\ walk' = [walk EXCEPT !.at = "entries", !.last = Len(entries[Client]), !.index = 1]
    /\ UNCHANGED <<entries, listed, feedback, skipped>>

\* Entries are counted from 1; the one after the last leads to the next client.
NextEntry ==
    walk' = IF walk.index = walk.last
              THEN [walk EXCEPT !.at = "clients", !.client = @ + 1]
              ELSE [walk EXCEPT !.index = @ + 1]

Entry(i) == [client |-> Client, index |-> i, revoked |-> entries[Client][i]]

\* From 0 to last - 1: there is no entry 0, and its failure is swallowed.
ReadsFromZero ==
    /\ walk.at = "entries"
    /\ IF walk.index = 1
       THEN UNCHANGED feedback
       ELSE feedback' = Append(feedback, Entry(walk.index - 1))
    /\ NextEntry
    /\ UNCHANGED <<entries, listed, skipped>>

readFeedback ==
    /\ walk.at = "entries"
    /\ feedback' = Append(feedback, Entry(walk.index))
    /\ NextEntry
    /\ UNCHANGED <<entries, listed, skipped>>

\* The catch around one entry: the read that failed is left out, whatever the
\* reason, and the loop goes on.
ReadIsSkipped ==
    /\ ChainFails /\ walk.at = "entries"
    /\ skipped' = skipped \cup {<<Client, walk.index>>}
    /\ NextEntry
    /\ UNCHANGED <<entries, listed, feedback>>

\* A failing read of the clients, or of a last index, ends the call.
Throws ==
    /\ ChainFails /\ walk.at \in {"idle", "clients"}
    /\ walk.at = "clients" => walk.client <= Len(walk.clients)
    /\ walk' = [walk EXCEPT !.at = "threw"]
    /\ UNCHANGED <<entries, listed, feedback, skipped>>

Returns ==
    /\ walk.at = "clients" /\ walk.client > Len(walk.clients)
    /\ walk' = [walk EXCEPT !.at = "returned"]
    /\ UNCHANGED <<entries, listed, feedback, skipped>>

ReaderStep ==
    \/ getClients \/ getLastIndex \/ readFeedback \/ ReadIsSkipped \/ Throws \/ Returns

RepNext ==
    \/ ReaderStep
    \/ \E c \in Clients : Gives(c) \/ \E i \in DOMAIN entries[c] : Revokes(c, i)

RepSpec == RepInit /\ [][RepNext]_repVars

-----------------------------------------------------------------------------
(* Properties                                                              *)

Read(c, i) == {n \in DOMAIN feedback : feedback[n].client = c /\ feedback[n].index = i}

\* `count`: what enters the score.
live == {n \in DOMAIN feedback : ~feedback[n].revoked}

\* A report that left nothing out has every entry that was there when the
\* reading began, once, whatever was given meanwhile; and what was revoked by
\* then is not in the score.
ReportIsComplete ==
    (walk.at = "returned" /\ skipped = {}) =>
        \A c \in Clients : \A i \in DOMAIN walk.found[c] :
            /\ Cardinality(Read(c, i)) = 1
            /\ walk.found[c][i] => Read(c, i) \cap live = {}
=============================================================================
