---------------------------- MODULE Publication ----------------------------
(***************************************************************************)
(* The agent's public identity: publish-status-list.mjs signs the agent    *)
(* card and writes the did:web document and the ERC-8004 registration file *)
(* next to it, a deployment serves what is there, erc8004-register.mjs     *)
(* mints the identity on chain, and peers discover the card and check its  *)
(* signatures against the key its kid resolves to.                         *)
(*                                                                         *)
(* A signature is the kind of its protected header and, when the kid is a  *)
(* verification method of our did:web document, the key it was made with.  *)
(***************************************************************************)
EXTENDS Naturals, Sequences, FiniteSets

CONSTANTS
    Keys,        \* values WBA_PRIVATE_KEY may have
    Peers,
    OtherCards,  \* the signatures of cards served elsewhere
    Registry,    \* what is at ERC8004_REGISTRY_ADDRESS
    MaxDeploys, MaxMints,
    Killing,     \* may a script be killed
    Nothing

VARIABLES
    key,      \* in agent/.env
    files,    \* site/.well-known: card, did, registration
    site,     \* what the deployment serves
    deploys,
    publisher,
    record,   \* erc8004-minted.json
    tokens,   \* agent ids minted for the wallet
    named,    \* the tokens that have been on record
    minter,   \* erc8004-register.mjs: where it is, and the token of its receipt
    mints,    \* transactions sent
    pending,  \* transactions sent and not mined
    lost,     \* runs that died with their transaction sent and nothing recorded
    peer      \* per peer, the discovery under way; `ours`: of a site that agrees

pubVars == <<key, files, publisher>>
mintVars == <<record, tokens, named, minter, mints, pending, lost>>
identityVars == <<pubVars, site, deploys, mintVars, peer>>

ASSUME KeysAssumption == Nothing \notin Keys /\ Keys # {}
ASSUME MintsAssumption == MaxMints \in Nat /\ MaxDeploys \in Nat

Unpublished == [card |-> Nothing, did |-> Nothing, registration |-> Nothing]

NotAsking == [at |-> "idle", card |-> <<>>, said |-> <<>>, document |-> Nothing,
              ours |-> FALSE, since |-> 0]

IdentityInit ==
    /\ key \in Keys
    /\ files = Unpublished /\ site = Unpublished /\ deploys = 0
    /\ publisher = [at |-> "idle", key |-> Nothing, whole |-> FALSE]
    /\ record = Nothing /\ tokens = {} /\ named = {}
    /\ mints = 0 /\ pending = 0 /\ lost = 0
    /\ minter = [at |-> "idle", token |-> Nothing]
    /\ peer = [p \in Peers |-> NotAsking]

-----------------------------------------------------------------------------
(* Publishing                                                              *)

Rotate ==
    /\ key' \in Keys \cup {Nothing}
    /\ UNCHANGED <<files, publisher, site, deploys, mintVars, peer>>

\* The key is read once; without one the script throws.
PublishStarts ==
    /\ publisher.at = "idle" /\ key # Nothing
    /\ publisher' = [at |-> "card", key |-> key, whole |-> FALSE]
    /\ UNCHANGED <<key, files, site, deploys, mintVars, peer>>

signCard(k) == <<[kind |-> "did:web", key |-> k]>>

WriteCard ==
    /\ publisher.at = "card"
    /\ files' = [files EXCEPT !.card = signCard(publisher.key)]
    /\ publisher' = [publisher EXCEPT !.at = "did"]
    /\ UNCHANGED <<key, site, deploys, mintVars, peer>>

\* The key is read again for the document.
WriteDidRereads ==
    /\ publisher.at = "did"
    /\ files' = [files EXCEPT !.did = key]
    /\ publisher' = [publisher EXCEPT !.at = "registration"]
    /\ UNCHANGED <<key, site, deploys, mintVars, peer>>

WriteDid ==
    /\ publisher.at = "did"
    /\ files' = [files EXCEPT !.did = publisher.key]
    /\ publisher' = [publisher EXCEPT !.at = "registration"]
    /\ UNCHANGED <<key, site, deploys, mintVars, peer>>

\* registrations[] is empty, or has the token on record.
WriteRegistration ==
    /\ publisher.at = "registration"
    /\ files' = [files EXCEPT !.registration =
                   IF record = Nothing THEN {} ELSE {record}]
    /\ publisher' = [publisher EXCEPT !.at = "idle", !.whole = TRUE]
    /\ UNCHANGED <<key, site, deploys, mintVars, peer>>

PublisherKilled ==
    /\ Killing /\ publisher.at # "idle"
    /\ publisher' = [publisher EXCEPT !.at = "idle"]
    /\ UNCHANGED <<key, files, site, deploys, mintVars, peer>>

\* At any time, whatever the files are.
Deploy ==
    /\ deploys < MaxDeploys /\ deploys' = deploys + 1
    /\ site' = files
    /\ UNCHANGED <<pubVars, mintVars, peer>>

-----------------------------------------------------------------------------
(* Minting                                                                 *)

\* Nothing deployed, and no register(string) in the bytecode, are refused; an
\* unexpected name is not.
PreflightOk == Registry \in {"identity registry", "renamed registry"}

MintStarts ==
    /\ minter.at = "idle" /\ PreflightOk
    /\ minter' = [at |-> "resolving", token |-> Nothing]
    /\ UNCHANGED <<pubVars, site, deploys, record, tokens, named, mints, pending, lost, peer>>

\* The URI does not resolve, or not to a registration file: nothing is sent.
MintRefused ==
    /\ minter.at = "resolving"
    /\ minter' = [minter EXCEPT !.at = "idle"]
    /\ UNCHANGED <<pubVars, site, deploys, record, tokens, named, mints, pending, lost, peer>>

\* Nothing asks whether there is an identity on record: every run mints.
MintSends ==
    /\ minter.at = "resolving" /\ site.registration # Nothing
    /\ mints < MaxMints /\ mints' = mints + 1
    /\ pending' = pending + 1
    /\ minter' = [minter EXCEPT !.at = "waiting"]
    /\ UNCHANGED <<pubVars, site, deploys, record, tokens, named, lost, peer>>

\* The next token belongs to the waiting script's transaction, or to that of
\* one that died.
Mined ==
    /\ pending > 0 /\ pending' = pending - 1
    /\ LET token == Cardinality(tokens) + 1 IN
         /\ tokens' = tokens \cup {token}
         /\ \/ minter.at = "waiting" /\ minter.token = Nothing
               /\ minter' = [minter EXCEPT !.token = token]
            \/ (minter.at # "waiting" \/ minter.token # Nothing \/ pending > 1)
               /\ UNCHANGED minter
    /\ UNCHANGED <<pubVars, site, deploys, record, named, mints, lost, peer>>

\* An execution that reverts makes the wait throw.
Reverts ==
    /\ pending > 0 /\ pending' = pending - 1
    /\ \/ minter.at = "waiting" /\ minter.token = Nothing
          /\ minter' = [minter EXCEPT !.at = "idle"]
       \/ (minter.at # "waiting" \/ minter.token # Nothing \/ pending > 1)
          /\ UNCHANGED minter
    /\ UNCHANGED <<pubVars, site, deploys, record, tokens, named, mints, lost, peer>>

\* Written when the transaction is sent, for the id the registry has next.
RecordsAhead ==
    /\ minter.at = "waiting"
    /\ record' = Cardinality(tokens) + 1 /\ named' = named \cup {record'}
    /\ minter' = [minter EXCEPT !.at = "idle"]
    /\ UNCHANGED <<pubVars, site, deploys, tokens, mints, pending, lost, peer>>

\* The id in the receipt's Registered event is written down.
Records ==
    /\ minter.at = "waiting" /\ minter.token # Nothing
    /\ record' = minter.token /\ named' = named \cup {minter.token}
    /\ minter' = [minter EXCEPT !.at = "idle"]
    /\ UNCHANGED <<pubVars, site, deploys, tokens, mints, pending, lost, peer>>

\* Killed, or the wait for the receipt threw; the transaction goes its way.
MinterDies ==
    /\ Killing /\ minter.at # "idle"
    /\ minter' = [minter EXCEPT !.at = "idle"]
    /\ lost' = IF minter.at = "waiting" THEN lost + 1 ELSE lost
    /\ UNCHANGED <<pubVars, site, deploys, record, tokens, named, mints, pending, peer>>

-----------------------------------------------------------------------------
(* Discovery                                                               *)

Agrees(published) == published.card = signCard(published.did)

\* The document of the last discovery is still there.
DiscoverKeepsCache(p) ==
    /\ peer[p].at \in {"idle", "done"}
    /\ site.card # Nothing
    /\ peer' = [peer EXCEPT ![p] = [NotAsking EXCEPT !.at = "checking", !.card = site.card,
                                      !.document = peer[p].document,
                                      !.ours = Agrees(site), !.since = deploys]]
    /\ UNCHANGED <<pubVars, site, deploys, mintVars>>

\* Our card or another one; an origin that has none makes discoverPeer throw.
\* Every discovery has a resolver of its own.
Discover(p) ==
    /\ peer[p].at \in {"idle", "done"}
    /\ \E card \in OtherCards \cup {site.card} :
         peer' = [peer EXCEPT ![p] =
                    [NotAsking EXCEPT !.at = IF card = Nothing THEN "threw" ELSE "checking",
                                      !.card = IF card = Nothing THEN <<>> ELSE card,
                                      !.ours = card = site.card /\ Agrees(site), !.since = deploys]]
    /\ UNCHANGED <<pubVars, site, deploys, mintVars>>

NextSignature(p) == peer[p].card[Len(peer[p].said) + 1]

Checking(p) == peer[p].at = "checking" /\ Len(peer[p].said) < Len(peer[p].card)

Says(p, outcome) == [peer[p] EXCEPT !.said = Append(@, outcome)]

\* A header that is not JSON, another algorithm, no kid, a kid of another DID
\* method: each is a problem.  A header that is null, or a key that is not
\* Ed25519, is an exception nobody catches.
ChecksHeader(p) ==
    /\ Checking(p) /\ NextSignature(p).kind # "did:web"
    /\ peer' = [peer EXCEPT ![p] =
                  IF NextSignature(p).kind \in {"null header", "other key type"}
                  THEN [@ EXCEPT !.at = "threw"] ELSE Says(p, "problem")]
    /\ UNCHANGED <<pubVars, site, deploys, mintVars>>

Verdict(signature, document) ==
    IF signature.key = document THEN "verified" ELSE "mismatch"

\* The document is asked for once a discovery; a failed request is a problem
\* and is not remembered.
ChecksKey(p) ==
    /\ Checking(p) /\ NextSignature(p).kind = "did:web"
    /\ \/ /\ peer[p].document # Nothing
          /\ peer' = [peer EXCEPT ![p] = Says(p, Verdict(NextSignature(p), peer[p].document))]
       \/ /\ peer[p].document = Nothing /\ site.did # Nothing
          /\ peer' = [peer EXCEPT ![p] = [Says(p, Verdict(NextSignature(p), site.did)) EXCEPT
                                            !.document = site.did]]
       \/ /\ peer[p].document = Nothing
          /\ peer' = [peer EXCEPT ![p] = Says(p, "problem")]
    /\ UNCHANGED <<pubVars, site, deploys, mintVars>>

Reports(p) ==
    /\ peer[p].at = "checking" /\ Len(peer[p].said) = Len(peer[p].card)
    /\ peer' = [peer EXCEPT ![p].at = "done"]
    /\ UNCHANGED <<pubVars, site, deploys, mintVars>>

DiscoveryStep(p) == ChecksHeader(p) \/ ChecksKey(p) \/ Reports(p)

PublishStep == WriteCard \/ WriteDid \/ WriteRegistration

IdentityNext ==
    \/ Rotate \/ PublishStarts \/ PublishStep \/ PublisherKilled \/ Deploy
    \/ MintStarts \/ MintRefused \/ MintSends \/ Mined \/ Reverts \/ Records \/ MinterDies
    \/ \E p \in Peers : Discover(p) \/ DiscoveryStep(p)

IdentitySpec == IdentityInit /\ [][IdentityNext]_identityVars

-----------------------------------------------------------------------------
(* Properties                                                              *)

\* After a run that was not killed the card is signed with the key the did:web
\* document has, whenever the key was rotated.
CardMatchesItsKey == publisher.whole => Agrees(files)

\* A card of ours fails its check only when the files served did not agree, or
\* a deployment came between the two requests.
FailureMeansADeploy ==
    \A p \in Peers :
        (peer[p].since = deploys /\ peer[p].ours) =>
            \A i \in DOMAIN peer[p].said : peer[p].said[i] # "mismatch"

\* An identity that was minted has been on record, or is that of the run under
\* way, or of one that died between sending and recording: no other run mints
\* what nobody names.  What is on record or served as the agent's registration
\* was minted and recorded.
IdentitiesAreNamed ==
    /\ record # Nothing => record \in named
    /\ site.registration # Nothing => site.registration \subseteq named
    /\ named \subseteq tokens
    /\ Cardinality(tokens \ named) <= lost + (IF minter.at = "waiting" THEN 1 ELSE 0)
=============================================================================
