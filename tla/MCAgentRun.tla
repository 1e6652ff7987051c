---------------------------- MODULE MCAgentRun ----------------------------
(***************************************************************************)
(* The two callers of executeContract, a behaviour being one or the other. *)
(*                                                                         *)
(* A run of the agent, and one of four verifiers that only check; lists of *)
(* sixteen entries, one of twenty-four, shifts of eight bits, and the      *)
(* node's quota scaled down from ten executions a minute.                  *)
(*                                                                         *)
(* The tool: one order (orders share nothing) and as many calls as it      *)
(* takes for an error, a second order and a replay.                        *)
(***************************************************************************)
EXTENDS AgentRun, McpExecute

VARIABLE caller

vars == <<agentVars, toolVars, caller>>

Init == AgentInit /\ ToolInit /\ caller \in {"agent", "tool"}

Next ==
    \/ caller = "agent" /\ AgentNext /\ UNCHANGED <<toolVars, caller>>
    \/ caller = "tool" /\ ToolNext /\ UNCHANGED <<agentVars, caller>>

Spec == Init /\ [][Next]_vars

-----------------------------------------------------------------------------

Entry(index, purpose) ==
    [type |-> "BitstringStatusListEntry", statusListCredential |-> "list",
     statusListIndex |-> index, statusPurpose |-> purpose]

VC(id, top, subject) == [id |-> id, top |-> top, subject |-> subject]

\* Signed into the subject; on top, in the last bit of the list, under an index
\* that a shift wraps to it; in a bit that only the longer list has; none, for
\* the credential the agent has; and an index that a shift makes negative.
MCCredential ==
    [v \in Verifiers |->
        CASE v = "agent" -> VC("vc1", Nothing, Entry(7, "revocation"))
          [] v = "wrapped" -> VC("vc2", Entry(2 * SignBit + 15, Nothing), Nothing)
          [] v = "beyond" -> VC("vc3", Entry(23, Nothing), Nothing)
          [] v = "unlisted" -> VC("vc1", Nothing, Nothing)
          [] v = "negative" -> VC("vc4", Entry(2 * SignBit - 1, Nothing), Nothing)]

\* agent.mjs asks with failClosed off.
MCFailClosed == [v \in Verifiers |-> v \notin Agents]

MCInputs == {{7, 8}, {0, 15}, {-1, 3}, {16}}

\* Indices 7 and 15, the last bits of their bytes, written by hand; 23 too, in
\* a list of three bytes; 7 and 15 under another prefix, as another document,
\* for another purpose.
MCLists ==
    LET list == [type |-> "BitstringStatusList", statusPurpose |-> "revocation",
                 prefix |-> "u", bytes |-> [b \in 0..1 |-> {0}]]
        Named(doc) == [doc |-> doc, listed |-> {7, 15}]
    IN  {[doc |-> [list EXCEPT !.bytes = [b \in 0..2 |-> {0}]], listed |-> {7, 15, 23}],
         Named(list), Named([list EXCEPT !.prefix = "z"]), Named([list EXCEPT !.type = "Card"]),
         Named([list EXCEPT !.statusPurpose = "suspension"])}

MCPlan == <<"evaluate", "execute_action", "execute_action">>

\* What is published is all that checks share, and nothing of it is read after
\* a check: one other verifier, whichever it is, has its turn, and has it before
\* the agent's run is past its own, with no list but that of 7 and 8 served from
\* then on.
ChecksFirst ==
    /\ \A u, v \in Verifiers \ Agents : u = v \/ "idle" \in {check[u].at, check[v].at}
    /\ (\E v \in Agents : run[v].at # "checking") =>
          /\ \A v \in Verifiers \ Agents : check[v].at = "idle"
          /\ site # Nothing => site.listed = {7, 8}
=============================================================================
