----------------------------- MODULE StatusList -----------------------------
(***************************************************************************)
(* agent/src/status-list.mjs: the bit string of a status list, how an      *)
(* issuer builds one and how a verifier reads one bit of it.  JavaScript's *)
(* shifts work on signed integers (of 32 bits), whatever the number was.   *)
(* A byte is the set of the places, counted from its right, of the bits    *)
(* that are set in it.  gzip and base64url keep the bytes; the multibase   *)
(* prefix is kept, because a wrong one is refused.                         *)
(***************************************************************************)
EXTENDS Integers, FiniteSets

CONSTANTS
    MINIMUM_ENTRIES,
    SignBit,  \* the weight of a shift's sign bit, 2^31
    EmptyText,
    Threw,    \* what a function that throws returns
    Nothing   \* an absent field; an unreachable document

ASSUME EntriesAssumption == MINIMUM_ENTRIES \in Nat \ {0}
ASSUME SignBitAssumption == SignBit \in Nat /\ MINIMUM_ENTRIES < SignBit

\* A number the width cannot hold wraps around.
ToInt(n) ==
    IF n \in -SignBit .. SignBit - 1 THEN n
    ELSE ((n + SignBit) % (2 * SignBit)) - SignBit

ByteOf(index) == ToInt(index) \div 8

\* Bits numbered from the right of their byte.
PlaceFromRight(index) == ToInt(index) % 8

\* Bit 0 is the most significant one of byte 0.
PlaceOf(index) == 7 - (ToInt(index) % 8)

Length(bytes) == Cardinality(DOMAIN bytes)

\* Past the end it throws; before the beginning JavaScript reads undefined,
\* whose bits are zero.
getBit(bytes, index) ==
    IF index < 0 \/ ByteOf(index) >= Length(bytes) THEN Threw
    ELSE IF ByteOf(index) \in DOMAIN bytes /\ PlaceOf(index) \in bytes[ByteOf(index)]
    THEN 1 ELSE 0

\* The bits set for these indices, one after the other.
setBits(revoked, bytes) ==
    [b \in DOMAIN bytes |->
        bytes[b] \cup {PlaceOf(i) : i \in {j \in revoked : ByteOf(j) = b}}]

BytesFor(length) == (length + 7) \div 8

buildStatusList(revoked, length, purpose) ==
    IF length < MINIMUM_ENTRIES \/ \E i \in revoked : i >= length THEN Threw
    ELSE [type |-> "BitstringStatusList", statusPurpose |-> purpose,
          prefix |-> "u",
          bytes |-> setBits(revoked, [b \in 0 .. BytesFor(length) - 1 |-> {}])]

\* Number(...) of a piece of text: the empty text is 0.
Number(text) == IF text = EmptyText THEN 0 ELSE IF text \in Int THEN text ELSE Nothing

\* What publish-status-list.mjs takes from REVOKED_INDICES.
revokedFrom(pieces) == {n \in {Number(t) : t \in pieces} : n # Nothing /\ n >= 0}

Unchecked == [checked |-> FALSE, revoked |-> FALSE]

\* checkStatus, once the document has come, or Nothing instead of it.
checkStatus(entry, list) ==
    LET index == Number(entry.statusListIndex)
        bit == getBit(list.bytes, index)
    IN  IF \/ entry.type # "BitstringStatusListEntry"
           \/ entry.statusListCredential = Nothing \/ index = Nothing
           \/ list = Nothing
        THEN Unchecked
        ELSE IF \/ list.type # "BitstringStatusList"
                \/ entry.statusPurpose # Nothing /\ list.statusPurpose # Nothing
                   /\ entry.statusPurpose # list.statusPurpose
                \/ list.prefix # "u" \/ bit = Threw
        THEN Unchecked
        ELSE [checked |-> TRUE, revoked |-> bit = 1]
=============================================================================
