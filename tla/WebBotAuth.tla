----------------------------- MODULE WebBotAuth -----------------------------
(***************************************************************************)
(* The signature check in front of the A2A and MCP endpoints               *)
(* (agent/src/a2a-auth.mjs, with verifyRequest of web-bot-auth.mjs): a     *)
(* request is served when a key in its sender's published directory        *)
(* verifies it, it is recent, and its nonce is new.                        *)
(*                                                                         *)
(* The check waits for the directory: other requests run meanwhile, the    *)
(* sender may withdraw the key, the clock moves.  What follows the wait    *)
(* is synchronous.  A signed message may be delivered any number of times, *)
(* to any instance of the server; each instance has a cache of directories *)
(* and a ledger of nonces of its own (hosted.mjs).                         *)
(***************************************************************************)
EXTENDS Integers

CONSTANTS
    None,
    Instances,     \* server processes
    Deliveries,    \* requests on the wire, each used once
    Messages,      \* the signed messages they are copies of
    Origins,       \* Signature-Agent origins
    KeyIds,
    Nonces,
    Ttl,           \* directoryResolver's ttlMs
    FetchTimeout,  \* AbortSignal.timeout of the directory fetch
    MaxAge,        \* requireWebBotAuth's maxAgeSeconds
    VerifyMaxAge,  \* verifyRequest's maxAgeSeconds
    Skew,          \* verifyRequest's skewSeconds
    MaxTime        \* bound on the clock

VARIABLES
    now,        \* the server's clock
    withdrawn,  \* when an origin withdrew a key, None while it publishes it
    cache,      \* per instance and origin, the directory fetched and when
    seen,       \* per instance, the nonces admitted and their expiry
    door        \* the deliveries

vars == <<now, withdrawn, cache, seen, door>>

\* A message whose signature covers what was received is intact.  A signer
\* need not send a nonce, and picks created and expires as it likes.
Message == [origin : Origins, keyid : KeyIds, created : Nat, expires : Nat,
            nonce : Nonces \cup {None}, intact : BOOLEAN]

ASSUME MessagesAssumption == Messages \subseteq Message
ASSUME BoundsAssumption ==
    /\ MaxTime \in Nat /\ Ttl \in Nat \ {0} /\ FetchTimeout \in Nat
    /\ MaxAge \in Nat /\ VerifyMaxAge \in Nat /\ Skew \in Nat
ASSUME NoneAssumption == None \notin Nonces /\ None \notin Nat /\ None \notin Messages

Directory(o) == {k \in KeyIds : withdrawn[o][k] = None}

Pending == {"fetching", "replied", "resolved"}

NotArrived == [state |-> "idle", msg |-> None, inst |-> None, directory |-> {},
               since |-> 0]

Init ==
    /\ now = 0
    /\ withdrawn = [o \in Origins |-> [k \in KeyIds |-> None]]
    /\ cache = [s \in Instances |-> [o \in Origins |-> None]]
    /\ seen = [s \in Instances |-> [n \in Nonces |-> None]]
    /\ door = [d \in Deliveries |-> NotArrived]

-----------------------------------------------------------------------------
(* directoryResolver                                                       *)

NeverStale(entry) == entry # None
Fresh(entry) == entry # None /\ now - entry.at < Ttl

\* Message m reaches instance s: its directory is at hand or has to be asked for.
Receive(d, m, s) ==
    LET entry == cache[s][m.origin] IN
    /\ door[d].state = "idle"
    /\ door' = [door EXCEPT ![d] =
                  [NotArrived EXCEPT
                     !.state = IF Fresh(entry) THEN "resolved" ELSE "fetching",
                     !.directory = IF Fresh(entry) THEN entry.directory ELSE {},
                     !.msg = m, !.inst = s,
                     !.since = IF Fresh(entry) THEN 0 ELSE now]]
    /\ UNCHANGED <<now, withdrawn, cache, seen>>

\* The origin answers with what it publishes at that moment.
Reply(d) ==
    /\ door[d].state = "fetching"
    /\ door' = [door EXCEPT ![d] =
                  [@ EXCEPT !.state = "replied",
                            !.directory = Directory(door[d].msg.origin)]]
    /\ UNCHANGED <<now, withdrawn, cache, seen>>

\* The answer arrives.  It enters the cache under the time of its arrival, in
\* place of whatever another request put there meanwhile.
Resolve(d) ==
    LET x == door[d] IN
    /\ x.state = "replied"
    /\ cache' = [cache EXCEPT ![x.inst][x.msg.origin] =
                   [at |-> now, directory |-> x.directory]]
    /\ door' = [door EXCEPT ![d] = [@ EXCEPT !.state = "resolved", !.since = 0]]
    /\ UNCHANGED <<now, withdrawn, seen>>

\* What was fetched for an answered request is forgotten.
Answered(d, answer) ==
    door' = [door EXCEPT ![d] = [@ EXCEPT !.state = answer, !.directory = {}, !.since = 0]]

FetchFailsOnBadReply(d) ==
    /\ door[d].state = "replied"
    /\ Answered(d, "refused")
    /\ UNCHANGED <<now, withdrawn, cache, seen>>

\* The fetch fails, answers an error or runs into its timeout.
FetchFails(d) ==
    /\ door[d].state \in {"fetching", "replied"}
    /\ Answered(d, "refused")
    /\ UNCHANGED <<now, withdrawn, cache, seen>>

-----------------------------------------------------------------------------
(* requireWebBotAuth after the wait: verifyRequest, age, nonceLedger.admit *)

\* The key is in the directory and verifies the message, whose times are in
\* order: skew is granted on both, and the age bound has none.
Verifies(m, directory) ==
    /\ m.keyid \in directory
    /\ m.intact
    /\ m.created <= now + Skew
    /\ now <= m.expires + Skew
    /\ now - m.created <= VerifyMaxAge

Recent(m) == now - m.created <= MaxAge

EvictedAtExpiry(exp) == exp # None /\ exp <= now
Evicted(exp) == exp # None /\ exp < now

\* The ledger of instance s once the nonces of expired signatures are gone.
Swept(s) == [n \in Nonces |-> IF Evicted(seen[s][n]) THEN None ELSE seen[s][n]]

New(m, s) == m.nonce # None /\ Swept(s)[m.nonce] = None

Serve(d) ==
    LET x == door[d]
        m == door[d].msg
    IN
    /\ x.state = "resolved"
    /\ Verifies(m, x.directory) /\ Recent(m) /\ New(m, x.inst)
    /\ seen' = [seen EXCEPT ![x.inst] = [Swept(x.inst) EXCEPT ![m.nonce] = m.expires]]
    /\ Answered(d, "served")
    /\ UNCHANGED <<now, withdrawn, cache>>

\* The ledger is swept only when the message gets as far as its nonce.
Refuse(d) ==
    LET x == door[d]
        m == door[d].msg
    IN
    /\ x.state = "resolved"
    /\ \/ ~(Verifies(m, x.directory) /\ Recent(m)) /\ UNCHANGED seen
       \/ /\ Verifies(m, x.directory) /\ Recent(m) /\ ~New(m, x.inst)
          /\ seen' = [seen EXCEPT ![x.inst] = Swept(x.inst)]
    /\ Answered(d, "refused")
    /\ UNCHANGED <<now, withdrawn, cache>>

-----------------------------------------------------------------------------
(* The senders and the clock                                               *)

Withdraw(o, k) ==
    /\ withdrawn[o][k] = None
    /\ withdrawn' = [withdrawn EXCEPT ![o][k] = now]
    /\ UNCHANGED <<now, cache, seen, door>>

Publish(o, k) ==
    /\ withdrawn[o][k] # None
    /\ withdrawn' = [withdrawn EXCEPT ![o][k] = None]
    /\ UNCHANGED <<now, cache, seen, door>>

\* A second passes.  No fetch outlives its timeout, and a request that has its
\* directory is decided in the same turn of the event loop.
Tick ==
    /\ now < MaxTime
    /\ \A d \in Deliveries :
          /\ door[d].state # "resolved"
          /\ door[d].state \in {"fetching", "replied"} => now < door[d].since + FetchTimeout
    /\ now' = now + 1
    /\ UNCHANGED <<withdrawn, cache, seen, door>>

Next ==
    \/ \E d \in Deliveries :
          \/ \E m \in Messages, s \in Instances : Receive(d, m, s)
          \/ Reply(d) \/ Resolve(d) \/ FetchFails(d) \/ Serve(d) \/ Refuse(d)
    \/ \E o \in Origins, k \in KeyIds : Withdraw(o, k) \/ Publish(o, k)
    \/ Tick

Spec == Init /\ [][Next]_vars

\* The event loop goes on: what has arrived is handled, a fetch without an
\* answer is timed out.  No origin is obliged to answer.
Fairness ==
    \A d \in Deliveries : WF_vars(Resolve(d) \/ FetchFails(d) \/ Serve(d) \/ Refuse(d))

FairSpec == Spec /\ Fairness

-----------------------------------------------------------------------------
(* Properties                                                              *)

Delivery ==
    [state : {"idle", "served", "refused"} \cup Pending, msg : Messages \cup {None},
     inst : Instances \cup {None}, directory : SUBSET KeyIds,
     since : 0..MaxTime]

Entry == [at : 0..MaxTime, directory : SUBSET KeyIds]

TypeOK ==
    /\ now \in 0..MaxTime
    /\ withdrawn \in [Origins -> [KeyIds -> 0..MaxTime \cup {None}]]
    /\ cache \in [Instances -> [Origins -> Entry \cup {None}]]
    /\ seen \in [Instances -> [Nonces -> Nat \cup {None}]]
    /\ door \in [Deliveries -> Delivery]

\* The server's own bound on age ends no later than the signer's deadline.
AgeBoundIsTighter(m) == m.created + MaxAge <= m.expires

\* However its copies interleave, an instance serves a message at most once,
\* if its own age bound is what ends the message's life: the nonce is kept for
\* at least as long as the message is recent.
ServedOncePerInstance ==
    \A d, e \in Deliveries :
        (/\ d # e
         /\ door[d].state = "served" /\ door[e].state = "served"
         /\ door[d].inst = door[e].inst /\ door[d].msg = door[e].msg)
            => ~AgeBoundIsTighter(door[d].msg)

\* A key its owner has withdrawn verifies nothing any more once a cached
\* directory has had the time to go stale and a fetch to time out, whatever
\* order the answers of concurrent fetches arrive in.
WithdrawnKeyStopsWorking ==
    [][\A d \in Deliveries :
         (door[d].state # "served" /\ door'[d].state = "served") =>
            LET w == withdrawn[door[d].msg.origin][door[d].msg.keyid] IN
            w # None => now - w < Ttl + FetchTimeout]_vars

\* Every request gets an answer, even when the origin it names never does.
RequestsAreAnswered ==
    \A d \in Deliveries :
        (door[d].state \in Pending) ~> (door[d].state \in {"served", "refused"})
=============================================================================
