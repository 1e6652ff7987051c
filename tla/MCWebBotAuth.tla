---------------------------- MODULE MCWebBotAuth ----------------------------
(***************************************************************************)
(* One origin that may rotate its key, and messages that differ in when    *)
(* they were signed, when they expire, and whether they share a nonce.     *)
(***************************************************************************)
EXTENDS WebBotAuth

Signed(created, expires, nonce) ==
    [origin |-> "agent", keyid |-> "key", created |-> created, expires |-> expires,
     nonce |-> nonce, intact |-> TRUE]

\* The second is signed for longer than the server accepts, and reuses the
\* first one's nonce.
LongLived == {Signed(0, 2, "n1"), Signed(1, 4, "n1")}

\* A message of no nonce, and one that arrives altered.
MCMessages ==
    LongLived \cup {Signed(3, 5, None), [Signed(0, 2, "n1") EXCEPT !.intact = FALSE]}

\* Deliveries, and instances, are alike: the first goes first.  Where three
\* meet they meet at one instance, with messages that differ in their times.
Focus ==
    /\ \A d, e \in Deliveries : (d < e /\ door[d].state = "idle") => door[e].state = "idle"
    /\ door[1].inst \in {None, "s1"}
    /\ door[3].state # "idle" =>
          \A d \in Deliveries : door[d].inst = "s1" /\ door[d].msg \in LongLived
=============================================================================
