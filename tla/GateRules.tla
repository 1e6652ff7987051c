----------------------------- MODULE GateRules -----------------------------
(***************************************************************************)
(* The pure rules of the gate contract: gate-contract/src/gate.rs without  *)
(* its host calls.  The same operators decide inside the enclave           *)
(* (GateContract) and in the host build gate_cli.                          *)
(*                                                                         *)
(* Names, DIDs and digests are opaque values.  SHA-256 over length-        *)
(* prefixed fields is modelled as the tuple of the fields it covers: two   *)
(* digests agree exactly when those fields do.                             *)
(***************************************************************************)
EXTENDS Integers

CONSTANTS
    None,       \* an Option that is absent
    SplitText   \* a commitment whose 16th byte is inside a UTF-8 character

Wildcard == "*"

\* An empty list permits nothing: deny by default.
list_allows(list, value) == list \cap {Wildcard, value} # {}

OptInPassesAbsent(list, value) ==
    list = {} \/ value = None \/ list_allows(list, value)

\* An opt-in dimension: an empty list is not enforced at all; a non-empty
\* one rejects an absent value whatever it lists.
opt_in_allows(list, value) ==
    list = {} \/ (value # None /\ list_allows(list, value))

-----------------------------------------------------------------------------
(* decide: one reason per failing gate, every gate evaluated.              *)

Gates == {"not_active", "expired", "kind", "asset", "counterparty", "issuer",
          "amount", "sub_limit"}

\* The global cap holds for every payee, whatever sub-limit it has.
OverCapUnlessLimited(a, m) ==
    /\ a.amount_cents > m.max_amount_cents
    /\ a.counterparty # None => m.counterparty_limits[a.counterparty] = None
OverCap(a, m) == a.amount_cents > m.max_amount_cents

OverSubLimit(a, m) ==
    /\ a.counterparty # None
    /\ m.counterparty_limits[a.counterparty] # None
    /\ a.amount_cents > m.counterparty_limits[a.counterparty]

Fails(gate, a, m, now) ==
    \/ gate = "not_active" /\ m.valid_after_secs # 0 /\ now < m.valid_after_secs
    \/ gate = "expired" /\ m.expires_at_secs # 0 /\ now > m.expires_at_secs
    \/ gate = "kind" /\ ~list_allows(m.allowed_kinds, a.kind)
    \/ gate = "asset" /\ ~list_allows(m.allowed_assets, a.asset)
    \/ gate = "counterparty" /\ ~opt_in_allows(m.allowed_counterparties, a.counterparty)
    \/ gate = "issuer" /\ ~opt_in_allows(m.allowed_issuers, a.issuer)
    \/ gate = "amount" /\ OverCap(a, m)
    \/ gate = "sub_limit" /\ OverSubLimit(a, m)

decide(a, m, now) == {gate \in Gates : Fails(gate, a, m, now)}

-----------------------------------------------------------------------------
(* The credential binding and the idempotency key, which execute_action    *)
(* and gate_cli check around decide.                                       *)

DigestOmitsPayee(a) == <<a.kind, a.asset, a.amount_cents>>

\* counterparty.unwrap_or(""): an absent payee and an empty one digest alike.
\* The issuer is not part of the digest.
action_digest(a) ==
    <<a.kind, a.asset, a.amount_cents,
      IF a.counterparty = None THEN "" ELSE a.counterparty>>

expected_commitment(b, a) ==
    <<b.issuer, b.subject, b.claims_digest, action_digest(a), b.nonce>>

BindingHolds(b, a, require) ==
    \/ b = None /\ ~require
    \/ /\ b # None
       /\ b.nonce # ""
       /\ b.commitment = expected_commitment(b, a)
       /\ a.issuer \in {None, b.issuer}

\* The mismatch message slices the supplied commitment at byte 16, which
\* panics (a wasm trap) when that byte is not a character boundary.
BindingTraps(b) == b # None /\ b.nonce # "" /\ b.commitment = SplitText

\* A raw key is [text, form].  check_idempotency trims it: a blank key counts
\* as none, a padded one is recorded under its trimmed text.
KeyForms == {"plain", "padded", "blank", "too_long", "bad_charset"}

KeySupplied(key) == key # None /\ key.form # "blank"

IdempotencyHolds(key, require) ==
    IF KeySupplied(key) THEN key.form \in {"plain", "padded"} ELSE ~require

RecordKey(key) ==
    IF KeySupplied(key) /\ key.form \in {"plain", "padded"} THEN key.text ELSE None

\* What execute_action and gate_cli both compute from a mandate and a request.
Approves(r, m, now) ==
    /\ BindingHolds(r.credential, r.action, m.require_credential)
    /\ IdempotencyHolds(r.idempotency_key, m.require_idempotency_key)
    /\ decide(r.action, m, now) = {}

\* A missing secret is no header.
AuthOptional(credential_key, sealed) == TRUE

\* auth_headers: a mandate that names a credential needs a non-empty secret.
AuthAvailable(credential_key, sealed) ==
    credential_key = "" \/ credential_key \in sealed

-----------------------------------------------------------------------------
(* What an operator relies on when editing a mandate.                      *)

\* m2 is at least as tight as m1 in every dimension.  Emptying an opt-in list
\* or zeroing a time bound loosens the mandate, so neither counts as tighter.
TighterList(l2, l1) == Wildcard \in l1 \/ l2 \subseteq l1
TighterOptIn(l2, l1) == l1 = {} \/ (l2 # {} /\ TighterList(l2, l1))

Tightens(m2, m1) ==
    /\ m2.max_amount_cents <= m1.max_amount_cents
    /\ TighterList(m2.allowed_kinds, m1.allowed_kinds)
    /\ TighterList(m2.allowed_assets, m1.allowed_assets)
    /\ TighterOptIn(m2.allowed_counterparties, m1.allowed_counterparties)
    /\ TighterOptIn(m2.allowed_issuers, m1.allowed_issuers)
    /\ \A p \in DOMAIN m1.counterparty_limits : m1.counterparty_limits[p] # None =>
          /\ m2.counterparty_limits[p] # None
          /\ m2.counterparty_limits[p] <= m1.counterparty_limits[p]
    /\ \/ m1.expires_at_secs = 0
       \/ m2.expires_at_secs # 0 /\ m2.expires_at_secs <= m1.expires_at_secs
    /\ m2.valid_after_secs >= m1.valid_after_secs
    /\ m1.require_credential => m2.require_credential
    /\ m1.require_idempotency_key => m2.require_idempotency_key
=============================================================================
