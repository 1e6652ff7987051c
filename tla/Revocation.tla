----------------------------- MODULE Revocation -----------------------------
(***************************************************************************)
(* Who is revoked, and who finds out: the issuer writes a status list and  *)
(* deploys the site (publish-status-list.mjs), the registry on chain       *)
(* revokes, and verifiers ask both (revocation.mjs), while either may be   *)
(* out of reach.                                                           *)
(***************************************************************************)
EXTENDS StatusList, Sequences

CONSTANTS
    Verifiers,    \* checks of one credential each
    Credential,   \* per verifier: id, top and subject status entries
    FailClosed,   \* per verifier, what an unanswered check means
    Configured,   \* is a registry configured
    Inputs,       \* the values of REVOKED_INDICES the issuer may use
    Lists,        \* documents another issuer may serve there, with what it named
    MaxDeploys    \* bound on deployments

VARIABLES
    written,   \* the list in the working copy, and the indices its issuer named
    site,      \* the document served, or Nothing
    deploys,   \* how often the site was deployed
    onChain,   \* the credentials the registry revokes
    chainUp,
    check      \* per verifier, how far its check is

revVars == <<written, site, deploys, onChain, chainUp, check>>

ASSUME VerifiersAssumption == FailClosed \in [Verifiers -> BOOLEAN] /\ Configured \in BOOLEAN

Entries(bytes) == 8 * Length(bytes)

\* The entries a list names, as the W3C recommendation numbers its bits.
EntriesSet(bytes) ==
    {i \in 0 .. Entries(bytes) - 1 :
        i \div 8 \in DOMAIN bytes /\ 7 - (i % 8) \in bytes[i \div 8]}

\* Another issuer's list says what that issuer named.
ASSUME ListsAssumption ==
    \A list \in Lists :
        /\ Length(list.doc.bytes) \in Nat
        /\ DOMAIN list.doc.bytes = 0 .. Length(list.doc.bytes) - 1
        /\ EntriesSet(list.doc.bytes) =
              revokedFrom(list.listed) \cap (0 .. Entries(list.doc.bytes) - 1)

\* `got`: the list a check had its answer from, and what its issuer named.
NotAsked == [at |-> "idle", asked |-> Nothing, got |-> Nothing, list |-> Unchecked,
             result |-> Nothing]

RevInit ==
    /\ written = Nothing
    /\ site = Nothing
    /\ deploys = 0
    /\ onChain = {}
    /\ chainUp = TRUE
    /\ check = [v \in Verifiers |-> NotAsked]

\* An index the list does not have throws before anything is written; a bit
\* that does not read back throws when the list has been written.
Publish(pieces) ==
    LET doc == buildStatusList(revokedFrom(pieces), MINIMUM_ENTRIES, "revocation")
    IN  /\ doc # Threw
        /\ written' = [doc |-> doc, listed |-> pieces]
        /\ UNCHANGED <<site, deploys, onChain, chainUp, check>>

Deploy ==
    /\ written # Nothing /\ deploys < MaxDeploys
    /\ site' = written
    /\ deploys' = deploys + 1
    /\ UNCHANGED <<written, onChain, chainUp, check>>

\* The address answers with an error, or with some other document.
Replaced ==
    /\ deploys < MaxDeploys /\ deploys' = deploys + 1
    /\ \/ site' = Nothing
       \/ \E list \in Lists : site' = list
    /\ UNCHANGED <<written, onChain, chainUp, check>>

RevokeOnChain(v) ==
    /\ onChain' = onChain \cup {Credential[v].id}
    /\ UNCHANGED <<written, site, deploys, chainUp, check>>

ChainGoes ==
    /\ Configured /\ chainUp' = ~chainUp
    /\ UNCHANGED <<written, site, deploys, onChain, check>>

credentialStatusOf(vc) == IF vc.top # Nothing THEN vc.top ELSE vc.subject

Ask(v) ==
    /\ check[v].at = "idle"
    /\ check' = [check EXCEPT ![v].at =
                   IF credentialStatusOf(Credential[v]) # Nothing THEN "list" ELSE "registry"]
    /\ UNCHANGED <<written, site, deploys, onChain, chainUp>>

Report(checked, revoked, method) == [checked |-> checked, revoked |-> revoked, method |-> method]

\* A list out of reach is taken for one in which nobody is revoked.
ListAnswersAnyway(v) ==
    LET entry == credentialStatusOf(Credential[v])
        read == checkStatus(entry, IF site = Nothing THEN Nothing ELSE site.doc)
    IN  /\ check[v].at = "list"
        /\ check' = [check EXCEPT ![v].at = "done", ![v].list = read,
                       ![v].got = IF read.checked THEN site ELSE Nothing,
                       ![v].result = Report(TRUE, read.revoked, "bitstring-status-list")]
        /\ UNCHANGED <<written, site, deploys, onChain, chainUp>>

\* The list as served now, or no answer in time.  An answer ends the check;
\* without one the registry is asked.
ListAnswers(v) ==
    LET entry == credentialStatusOf(Credential[v]) IN
    /\ check[v].at = "list"
    /\ \E got \in {site, Nothing} :
         LET read == checkStatus(entry, IF got = Nothing THEN Nothing ELSE got.doc) IN
         check' = [check EXCEPT ![v].list = read,
                      ![v].at = IF read.checked THEN "done" ELSE "registry",
                      ![v].got = IF read.checked THEN got ELSE Nothing,
                      ![v].result = IF read.checked
                         THEN Report(TRUE, read.revoked, "bitstring-status-list") ELSE Nothing]
    /\ UNCHANGED <<written, site, deploys, onChain, chainUp>>

\* checkRevocation: not configured and not reachable are both "not checked".
RegistryAnswers(v) ==
    LET revoked == Credential[v].id \in onChain IN
    /\ check[v].at = "registry"
    /\ \/ /\ Configured /\ chainUp
          /\ check' = [check EXCEPT ![v].at = "done", ![v].asked = revoked,
                          ![v].result = Report(TRUE, revoked, "on-chain-registry")]
       \/ check' = [check EXCEPT ![v].at = "done",
                       ![v].result = Report(FALSE, FailClosed[v], "none")]
    /\ UNCHANGED <<written, site, deploys, onChain, chainUp>>

RevocationStep(v) == ListAnswers(v) \/ RegistryAnswers(v)

World ==
    \/ \E pieces \in Inputs : Publish(pieces)
    \/ Deploy \/ Replaced \/ ChainGoes
    \/ \E v \in Verifiers : RevokeOnChain(v)

RevNext == World \/ \E v \in Verifiers : Ask(v) \/ RevocationStep(v)

-----------------------------------------------------------------------------
(* Properties                                                              *)

Done(v) == check[v].at = "done"

IndexOf(v) == Number(credentialStatusOf(Credential[v]).statusListIndex)

\* A list that answers answers what its issuer named: no neighbour's bit, no
\* bit of another byte, and nothing for an entry it does not have.  The entry
\* is the one that is left of the index in the width of a shift, so an index
\* that does not fit is answered for another entry, or cleared.
ListTellsTheTruth ==
    \A v \in Verifiers :
        (Done(v) /\ check[v].list.checked) =>
            /\ ToInt(IndexOf(v)) < Entries(check[v].got.doc.bytes)
            /\ check[v].result.revoked <=>
                  ToInt(IndexOf(v)) \in revokedFrom(check[v].got.listed)

\* A verifier that fails closed clears a credential only on an answer: the
\* list's, or the registry's when the list had none.
ClearedOnAnAnswer ==
    \A v \in Verifiers :
        (Done(v) /\ FailClosed[v] /\ ~check[v].result.revoked) =>
            \/ check[v].list.checked /\ ~check[v].list.revoked
            \/ ~check[v].list.checked /\ check[v].asked = FALSE
=============================================================================
