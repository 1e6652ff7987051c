-------------------------- MODULE WebBotAuthProofs --------------------------
(***************************************************************************)
(* The signature check, for any number of requests, messages, instances    *)
(* and keys, and whatever the time bounds.                                 *)
(*                                                                         *)
(* Two strengthenings.  Remembered: the nonce of a served message is in    *)
(* the ledger, for at least as long as the message's deadline lies ahead.  *)
(* Honest: a directory, in the cache or in hand, lists a withdrawn key     *)
(* only if it was withdrawn not long before the directory got there.       *)
(***************************************************************************)
EXTENDS WebBotAuth, TLAPS

\* A delivery that has not arrived is well typed.
LEMMA NotArrivedType == NotArrived \in Delivery
  BY BoundsAssumption DEF NotArrived, Delivery

\* Time starts within its bound.
LEMMA ZeroIsATime == 0 \in 0..MaxTime
  BY BoundsAssumption

\* Sweeping a ledger leaves a ledger, of fewer nonces.
LEMMA SweptType ==
    ASSUME TypeOK, NEW s \in Instances
    PROVE  /\ Swept(s) \in [Nonces -> Nat \cup {None}]
           /\ \A n \in Nonces : Swept(s)[n] = None \/ Swept(s)[n] = seen[s][n]
           /\ \A n \in Nonces : seen[s][n] # None /\ Swept(s)[n] = None => seen[s][n] < now
  BY DEF TypeOK, Swept, Evicted

\* A delivery under way is of a message, at an instance.
UnderWay == \A d \in Deliveries :
    door[d].state # "idle" => door[d].msg \in Messages /\ door[d].inst \in Instances

\* A step that puts a well-typed delivery of a message in place of d.
LEMMA DeliveryChanges ==
    ASSUME TypeOK, UnderWay, NEW d \in Deliveries, NEW y \in Delivery,
           y.state # "idle" => y.msg \in Messages /\ y.inst \in Instances,
           door' = [door EXCEPT ![d] = y]
    PROVE  door' \in [Deliveries -> Delivery] /\ UnderWay'
  BY DEF TypeOK, UnderWay

\* Every variable keeps its type.
THEOREM TypeCorrect == Spec => [](TypeOK /\ UnderWay)
<1>1. Init => TypeOK /\ UnderWay
  <2> SUFFICES ASSUME Init PROVE TypeOK /\ UnderWay
    OBVIOUS
  <2>1. door \in [Deliveries -> Delivery] /\ UnderWay
    BY NotArrivedType DEF Init, UnderWay, NotArrived
  <2>2. /\ now \in 0..MaxTime
        /\ withdrawn \in [Origins -> [KeyIds -> 0..MaxTime \cup {None}]]
        /\ cache \in [Instances -> [Origins -> Entry \cup {None}]]
        /\ seen \in [Instances -> [Nonces -> Nat \cup {None}]]
    BY ZeroIsATime DEF Init
  <2> QED
    BY <2>1, <2>2 DEF TypeOK
<1>2. ASSUME TypeOK, UnderWay, [Next]_vars PROVE TypeOK' /\ UnderWay'
  <2>1. ASSUME NEW d \in Deliveries, NEW m \in Messages, NEW s \in Instances, Receive(d, m, s)
        PROVE  TypeOK' /\ UnderWay'
    <3> DEFINE entry == cache[s][m.origin]
               st == IF Fresh(entry) THEN "resolved" ELSE "fetching"
               dir == IF Fresh(entry) THEN entry.directory ELSE {}
               t == IF Fresh(entry) THEN 0 ELSE now
               y == [NotArrived EXCEPT !.state = st, !.directory = dir, !.msg = m,
                                       !.inst = s, !.since = t]
    <3>1. entry \in Entry \cup {None}
      BY <1>2, MessagesAssumption DEF TypeOK, Message
    <3>2. st \in {"resolved", "fetching"} /\ dir \in SUBSET KeyIds /\ t \in 0..MaxTime
      BY <3>1, <1>2, BoundsAssumption DEF Fresh, Entry, TypeOK
    <3>3. door' = [door EXCEPT ![d] = y] /\ UNCHANGED <<now, withdrawn, cache, seen>>
      BY <2>1 DEF Receive
    <3> HIDE DEF entry, st, dir, t
    <3>4. y \in Delivery /\ y.msg = m /\ y.inst = s
      BY <3>2, NotArrivedType DEF Delivery, NotArrived, Pending
    <3> HIDE DEF y
    <3> QED
      BY <3>3, <3>4, <1>2 DEF TypeOK, UnderWay
  <2>2. ASSUME NEW d \in Deliveries, Reply(d) PROVE TypeOK' /\ UnderWay'
    <3> DEFINE dir == Directory(door[d].msg.origin)
               y == [door[d] EXCEPT !.state = "replied", !.directory = dir]
    <3>1. dir \in SUBSET KeyIds
      BY DEF Directory
    <3>2. door' = [door EXCEPT ![d] = y] /\ door[d].state # "idle"
      BY <2>2 DEF Reply
    <3>3. door[d].msg \in Messages /\ door[d].inst \in Instances
      BY <3>2, <1>2 DEF UnderWay
    <3> HIDE DEF dir
    <3>4. y \in Delivery /\ y.msg = door[d].msg /\ y.inst = door[d].inst
      BY <3>1, <1>2 DEF TypeOK, Delivery, Pending
    <3> HIDE DEF y
    <3>5. door' \in [Deliveries -> Delivery] /\ UnderWay'
      BY <3>2, <3>3, <3>4, <1>2, DeliveryChanges
    <3> QED
      BY <2>2, <3>5, <1>2 DEF Reply, TypeOK
  <2>3. ASSUME NEW d \in Deliveries, Resolve(d) PROVE TypeOK' /\ UnderWay'
    <3> DEFINE e == [at |-> now, directory |-> door[d].directory]
               y == [door[d] EXCEPT !.state = "resolved", !.since = 0]
    <3>1. e \in Entry
      BY <1>2 DEF TypeOK, Delivery, Entry
    <3>2. y \in Delivery /\ y.msg = door[d].msg /\ y.inst = door[d].inst
      <4>1. door[d] \in Delivery
        BY <1>2 DEF TypeOK
      <4> QED
        BY <4>1, ZeroIsATime DEF Delivery, Pending
    <3>3. /\ door[d].state # "idle" /\ door' = [door EXCEPT ![d] = y]
          /\ cache' = [cache EXCEPT ![door[d].inst][door[d].msg.origin] = e]
      BY <2>3 DEF Resolve
    <3> HIDE DEF e, y
    <3>4. door[d].msg \in Messages /\ door[d].inst \in Instances
      BY <3>3, <1>2 DEF UnderWay
    <3>5. cache' \in [Instances -> [Origins -> Entry \cup {None}]]
      BY <3>1, <3>3, <1>2 DEF TypeOK
    <3>6. door' \in [Deliveries -> Delivery] /\ UnderWay'
      BY <3>2, <3>3, <3>4, <1>2, DeliveryChanges
    <3> QED
      BY <2>3, <3>5, <3>6, <1>2 DEF Resolve, TypeOK
  <2>4. ASSUME NEW d \in Deliveries, NEW ans \in {"served", "refused"}, Answered(d, ans),
               door[d].state # "idle"
        PROVE  door' \in [Deliveries -> Delivery] /\ UnderWay'
    <3> DEFINE y == [door[d] EXCEPT !.state = ans, !.directory = {}, !.since = 0]
    <3>1. y \in Delivery /\ y.msg = door[d].msg /\ y.inst = door[d].inst
      <4>1. door[d] \in Delivery
        BY <1>2 DEF TypeOK
      <4>2. ans \in {"idle", "served", "refused"} \cup Pending
        OBVIOUS
      <4> QED
        BY <4>1, <4>2, ZeroIsATime DEF Delivery
    <3>2. door' = [door EXCEPT ![d] = y]
      BY <2>4 DEF Answered
    <3> HIDE DEF y
    <3> QED
      BY <2>4, <3>1, <3>2, <1>2, DeliveryChanges DEF UnderWay
  <2>5. ASSUME NEW d \in Deliveries, FetchFails(d) PROVE TypeOK' /\ UnderWay'
    BY <2>4, <2>5, <1>2 DEF FetchFails, TypeOK
  <2>6. ASSUME NEW d \in Deliveries, Serve(d) PROVE TypeOK' /\ UnderWay'
    <3> DEFINE m == door[d].msg
               s == door[d].inst
    <3>1. /\ m \in Message /\ s \in Instances /\ m.nonce \in Nonces
      BY <2>6, <1>2, MessagesAssumption DEF Serve, New, UnderWay, Message
    <3>2. m.expires \in Nat
      BY <3>1 DEF Message
    <3>3. seen' = [seen EXCEPT ![s] = [Swept(s) EXCEPT ![m.nonce] = m.expires]]
      BY <2>6 DEF Serve
    <3> HIDE DEF m, s
    <3>4. [Swept(s) EXCEPT ![m.nonce] = m.expires] \in [Nonces -> Nat \cup {None}]
      BY <3>1, <3>2, <1>2, SweptType
    <3>5. seen' \in [Instances -> [Nonces -> Nat \cup {None}]]
      BY <3>1, <3>3, <3>4, <1>2 DEF TypeOK
    <3> QED
      BY <2>4, <2>6, <3>5, <1>2 DEF Serve, TypeOK
  <2>7. ASSUME NEW d \in Deliveries, Refuse(d) PROVE TypeOK' /\ UnderWay'
    <3> DEFINE s == door[d].inst
    <3>1. s \in Instances /\ (seen' = seen \/ seen' = [seen EXCEPT ![s] = Swept(s)])
      BY <2>7, <1>2 DEF Refuse, UnderWay
    <3>2. seen' \in [Instances -> [Nonces -> Nat \cup {None}]]
      BY <3>1, <1>2, SweptType DEF TypeOK
    <3> QED
      BY <2>4, <2>7, <3>2, <1>2 DEF Refuse, TypeOK
  <2>8. ASSUME NEW o \in Origins, NEW k \in KeyIds, Withdraw(o, k) \/ Publish(o, k)
        PROVE  TypeOK' /\ UnderWay'
    <3>1. PICK t \in 0..MaxTime \cup {None} : withdrawn' = [withdrawn EXCEPT ![o][k] = t]
      BY <2>8, <1>2 DEF Withdraw, Publish, TypeOK
    <3>2. withdrawn' \in [Origins -> [KeyIds -> 0..MaxTime \cup {None}]]
      BY <3>1, <1>2 DEF TypeOK
    <3>3. UNCHANGED <<now, cache, seen, door>>
      BY <2>8 DEF Withdraw, Publish
    <3> QED
      BY <3>2, <3>3, <1>2 DEF TypeOK, UnderWay
  <2>9. ASSUME Tick \/ UNCHANGED vars PROVE TypeOK' /\ UnderWay'
    BY <2>9, <1>2, BoundsAssumption DEF Tick, vars, TypeOK, UnderWay
  <2> QED
    BY <1>2, <2>1, <2>2, <2>3, <2>5, <2>6, <2>7, <2>8, <2>9 DEF Next
<1> QED
  BY <1>1, <1>2, PTL DEF Spec

-----------------------------------------------------------------------------
(* Nonces.                                                                 *)

\* Ledger l holds the nonce of m at least until m's own deadline.
Kept(m, l) ==
    /\ m.nonce \in Nonces
    /\ m.expires < now \/ (l[m.nonce] # None /\ m.expires <= l[m.nonce])

\* No instance has forgotten a message it served before its deadline passed.
Remembered ==
    \A d \in Deliveries : door[d].state = "served" => Kept(door[d].msg, seen[door[d].inst])

\* What makes ServedOncePerInstance inductive.
DoorInv == Remembered /\ ServedOncePerInstance

\* Sweeping forgets no nonce before the deadline it was kept for.
LEMMA SweepKeeps ==
    ASSUME TypeOK, NEW s \in Instances, NEW m \in Message, Kept(m, seen[s])
    PROVE  Kept(m, Swept(s))
<1> DEFINE a == seen[s][m.nonce]
           b == Swept(s)[m.nonce]
<1>1. /\ m.nonce \in Nonces /\ a \in Nat \cup {None} /\ now \in Nat /\ m.expires \in Nat
      /\ m.expires < now \/ (a # None /\ m.expires <= a)
  BY BoundsAssumption DEF Kept, TypeOK, Message
<1>2. (b = None \/ b = a) /\ (a # None /\ b = None => a < now)
  BY <1>1, SweptType
<1> HIDE DEF a, b
<1>3. m.expires < now \/ (b # None /\ m.expires <= b)
  BY <1>1, <1>2
<1> QED
  BY <1>1, <1>3 DEF Kept, b

\* A step that serves nobody, and at most sweeps a ledger or lets time pass.
LEMMA NobodyServed ==
    ASSUME TypeOK, UnderWay, DoorInv,
           now' \in Nat, now <= now',
           \/ seen' = seen
           \/ now' = now /\ \E s \in Instances : seen' = [seen EXCEPT ![s] = Swept(s)],
           \A d \in Deliveries : door'[d].state = "served" =>
              door[d].state = "served" /\ door'[d].msg = door[d].msg /\ door'[d].inst = door[d].inst
    PROVE  DoorInv'
<1>1. ServedOncePerInstance'
  <2> SUFFICES ASSUME NEW d \in Deliveries, NEW e \in Deliveries, d # e,
                      door'[d].state = "served", door'[e].state = "served",
                      door'[d].inst = door'[e].inst, door'[d].msg = door'[e].msg
               PROVE  ~AgeBoundIsTighter(door'[d].msg)
    BY DEF ServedOncePerInstance, AgeBoundIsTighter
  <2> QED
    BY DEF DoorInv, ServedOncePerInstance
<1>2. ASSUME NEW d \in Deliveries, door'[d].state = "served"
      PROVE  Kept(door[d].msg, seen[door[d].inst])'
  <2> DEFINE m == door[d].msg
             s == door[d].inst
  <2>1. /\ door[d].state = "served" /\ door'[d].msg = m /\ door'[d].inst = s
        /\ s \in Instances /\ m \in Message
    BY <1>2, MessagesAssumption DEF UnderWay
  <2>2. Kept(m, seen[s])
    BY <2>1 DEF DoorInv, Remembered
  <2>3. m.expires \in Nat /\ now \in Nat
    BY <2>1, BoundsAssumption DEF Message, TypeOK
  <2> HIDE DEF m, s
  <2>4. CASE seen' = seen
    BY <2>1, <2>2, <2>3, <2>4 DEF Kept
  <2>5. ASSUME NEW q \in Instances, seen' = [seen EXCEPT ![q] = Swept(q)], now' = now
        PROVE  Kept(door[d].msg, seen[door[d].inst])'
    <3>1. CASE q = s
      <4>1. seen'[s] = Swept(s)
        BY <2>5, <3>1 DEF TypeOK
      <4> QED
        BY <2>1, <2>2, <2>5, <4>1, SweepKeeps DEF Kept
    <3>2. CASE q # s
      <4>1. seen'[s] = seen[s]
        BY <2>1, <2>5, <3>2 DEF TypeOK
      <4> QED
        BY <2>1, <2>2, <2>5, <4>1 DEF Kept
    <3> QED
      BY <3>1, <3>2
  <2> QED
    BY <2>4, <2>5
<1> QED
  BY <1>1, <1>2 DEF DoorInv, Remembered

\* No step at the door but Serve makes a delivery a served one.
LEMMA ServesNobody ==
    ASSUME TypeOK, NEW d \in Deliveries,
           \/ \E m \in Messages, s \in Instances : Receive(d, m, s)
           \/ Reply(d) \/ Resolve(d) \/ FetchFails(d) \/ Refuse(d)
    PROVE  \A e \in Deliveries : door'[e].state = "served" => door'[e] = door[e]
<1>1. ASSUME NEW y, y.state # "served", door' = [door EXCEPT ![d] = y]
      PROVE  \A e \in Deliveries : door'[e].state = "served" => door'[e] = door[e]
  BY <1>1 DEF TypeOK
<1>2. ASSUME NEW m \in Messages, NEW s \in Instances, Receive(d, m, s)
      PROVE  \E y : y.state # "served" /\ door' = [door EXCEPT ![d] = y]
  <2> DEFINE st == IF Fresh(cache[s][m.origin]) THEN "resolved" ELSE "fetching"
             dir == IF Fresh(cache[s][m.origin]) THEN cache[s][m.origin].directory ELSE {}
             t == IF Fresh(cache[s][m.origin]) THEN 0 ELSE now
             y == [NotArrived EXCEPT !.state = st, !.directory = dir, !.msg = m,
                                     !.inst = s, !.since = t]
  <2>1. door' = [door EXCEPT ![d] = y]
    BY <1>2 DEF Receive
  <2>2. st # "served"
    OBVIOUS
  <2> HIDE DEF st, dir, t
  <2>3. y.state = st
    BY DEF NotArrived
  <2> HIDE DEF y
  <2> QED
    BY <2>1, <2>2, <2>3
<1>3. CASE Reply(d)
  <2> DEFINE dir == Directory(door[d].msg.origin)
             y == [door[d] EXCEPT !.state = "replied", !.directory = dir]
  <2>1. door' = [door EXCEPT ![d] = y]
    BY <1>3 DEF Reply
  <2> HIDE DEF dir
  <2>2. y.state # "served"
    BY DEF TypeOK, Delivery
  <2> HIDE DEF y
  <2> QED
    BY <1>1, <2>1, <2>2
<1>4. CASE Resolve(d)
  <2> DEFINE y == [door[d] EXCEPT !.state = "resolved", !.since = 0]
  <2>1. door' = [door EXCEPT ![d] = y]
    BY <1>4 DEF Resolve
  <2>2. y.state # "served"
    BY DEF TypeOK, Delivery
  <2> HIDE DEF y
  <2> QED
    BY <1>1, <2>1, <2>2
<1>5. CASE FetchFails(d) \/ Refuse(d)
  <2> DEFINE y == [door[d] EXCEPT !.state = "refused", !.directory = {}, !.since = 0]
  <2>1. door' = [door EXCEPT ![d] = y]
    BY <1>5 DEF FetchFails, Refuse, Answered
  <2>2. y.state # "served"
    BY DEF TypeOK, Delivery
  <2> HIDE DEF y
  <2> QED
    BY <1>1, <2>1, <2>2
<1> QED
  BY <1>1, <1>2, <1>3, <1>4, <1>5

\* Serving enters the nonce, which the ledger had not kept: another delivery
\* of the same message was served only if the message's deadline has passed,
\* and then its age bound is not the tighter one.
LEMMA OneServed ==
    ASSUME TypeOK, UnderWay, DoorInv, NEW d \in Deliveries, Serve(d)
    PROVE  DoorInv'
<1> DEFINE m == door[d].msg
           s == door[d].inst
           y == [door[d] EXCEPT !.state = "served", !.directory = {}, !.since = 0]
<1>1. door[d].state # "idle" /\ now' = now
  BY DEF Serve
<1>2. /\ s \in Instances /\ m \in Message
      /\ m.nonce \in Nonces /\ Swept(s)[m.nonce] = None /\ Recent(m)
  BY <1>1, MessagesAssumption DEF UnderWay, Serve, New, Message
<1>3. m.expires \in Nat /\ m.created \in Nat /\ now \in Nat
  BY <1>2, BoundsAssumption DEF Message, TypeOK
<1>4. seen' = [seen EXCEPT ![s] = [Swept(s) EXCEPT ![m.nonce] = m.expires]]
  BY DEF Serve
<1>5. door' = [door EXCEPT ![d] = y]
  BY DEF Serve, Answered
<1>6. y.msg = m /\ y.inst = s
  BY DEF TypeOK, Delivery
<1> HIDE DEF m, s, y
<1>7. /\ door'[d].msg = m /\ door'[d].inst = s
      /\ \A e \in Deliveries : e # d => door'[e] = door[e]
  BY <1>5, <1>6 DEF TypeOK
<1>8. /\ seen'[s] = [Swept(s) EXCEPT ![m.nonce] = m.expires]
      /\ \A q \in Instances : q # s => seen'[q] = seen[q]
  BY <1>2, <1>4 DEF TypeOK
<1>9. /\ seen'[s][m.nonce] = m.expires
      /\ \A n \in Nonces : n # m.nonce => seen'[s][n] = Swept(s)[n]
  BY <1>2, <1>8, SweptType
<1>10. ASSUME NEW e \in Deliveries, e # d, door[e].state = "served", door[e].inst = s
       PROVE  Kept(door[e].msg, Swept(s))
  <2>1. door[e].msg \in Message /\ Kept(door[e].msg, seen[s])
    BY <1>10, MessagesAssumption DEF UnderWay, DoorInv, Remembered
  <2> QED
    BY <1>2, <2>1, SweepKeeps
<1>11. ASSUME NEW e \in Deliveries, door'[e].state = "served"
       PROVE  Kept(door[e].msg, seen[door[e].inst])'
  <2>1. CASE e = d
    <3>1. m.expires \in Nat /\ m.expires # None
      BY <1>3, NoneAssumption
    <3> QED
      BY <1>2, <1>7, <1>9, <2>1, <3>1 DEF Kept
  <2>2. CASE e # d /\ door[e].inst # s
    BY <1>1, <1>7, <1>8, <1>11, <2>2 DEF Kept, DoorInv, Remembered, UnderWay
  <2>3. CASE e # d /\ door[e].inst = s
    <3> DEFINE o == door[e].msg
    <3>1. Kept(o, Swept(s)) /\ door'[e].msg = o /\ door'[e].inst = s
      BY <1>7, <1>10, <1>11, <2>3
    <3> HIDE DEF o
    <3>2. CASE o.nonce = m.nonce
      <4>1. o.expires < now
        BY <1>2, <3>1, <3>2 DEF Kept
      <4> QED
        BY <1>1, <3>1, <4>1 DEF Kept
    <3>3. CASE o.nonce # m.nonce
      BY <1>1, <1>9, <3>1, <3>3 DEF Kept
    <3> QED
      BY <3>2, <3>3
  <2> QED
    BY <2>1, <2>2, <2>3
<1>12. ASSUME NEW e \in Deliveries, e # d, door[e].state = "served",
              door[e].inst = s, door[e].msg = m
       PROVE  ~AgeBoundIsTighter(m)
  <2>1. m.expires < now
    BY <1>2, <1>10, <1>12 DEF Kept
  <2>2. now - m.created <= MaxAge
    BY <1>2 DEF Recent
  <2> QED
    BY <1>3, <2>1, <2>2, BoundsAssumption DEF AgeBoundIsTighter
<1>13. ServedOncePerInstance'
  <2> SUFFICES ASSUME NEW e \in Deliveries, NEW f \in Deliveries, e # f,
                      door'[e].state = "served", door'[f].state = "served",
                      door'[e].inst = door'[f].inst, door'[e].msg = door'[f].msg
               PROVE  ~AgeBoundIsTighter(door'[e].msg)
    BY DEF ServedOncePerInstance, AgeBoundIsTighter
  <2>1. CASE e # d /\ f # d
    BY <1>7, <2>1 DEF DoorInv, ServedOncePerInstance
  <2>2. CASE e = d \/ f = d
    BY <1>7, <1>12, <2>2
  <2> QED
    BY <2>1, <2>2
<1> QED
  BY <1>11, <1>13 DEF DoorInv, Remembered

\* An instance serves a message at most once, for any messages, instances and
\* bounds, as long as the server's age bound is the tighter one.
THEOREM ServedOnce == Spec => []ServedOncePerInstance
<1>1. Init => DoorInv
  BY DEF Init, DoorInv, Remembered, ServedOncePerInstance, NotArrived
<1>2. ASSUME TypeOK, UnderWay, DoorInv, [Next]_vars PROVE DoorInv'
  <2> now \in Nat
    BY <1>2, BoundsAssumption DEF TypeOK
  <2>1. ASSUME NEW d \in Deliveries, NEW m \in Messages, NEW s \in Instances, Receive(d, m, s)
        PROVE  DoorInv'
    <3>1. \A e \in Deliveries : door'[e].state = "served" => door'[e] = door[e]
      BY <2>1, <1>2, ServesNobody
    <3> QED
      BY <2>1, <3>1, <1>2, NobodyServed DEF Receive
  <2>2. ASSUME NEW d \in Deliveries, Reply(d) \/ Resolve(d) PROVE DoorInv'
    <3>1. \A e \in Deliveries : door'[e].state = "served" => door'[e] = door[e]
      BY <2>2, <1>2, ServesNobody
    <3> QED
      BY <2>2, <3>1, <1>2, NobodyServed DEF Reply, Resolve
  <2>3. ASSUME NEW d \in Deliveries, FetchFails(d) \/ Refuse(d) PROVE DoorInv'
    <3>1. \A e \in Deliveries : door'[e].state = "served" => door'[e] = door[e]
      BY <2>3, <1>2, ServesNobody
    <3>2. /\ now' = now
          /\ seen' = seen \/ seen' = [seen EXCEPT ![door[d].inst] = Swept(door[d].inst)]
      BY <2>3 DEF FetchFails, Refuse
    <3>3. door[d].inst \in Instances
      BY <2>3, <1>2 DEF UnderWay, FetchFails, Refuse
    <3> QED
      BY <3>1, <3>2, <3>3, <1>2, NobodyServed
  <2>4. ASSUME NEW o \in Origins, NEW k \in KeyIds, Withdraw(o, k) \/ Publish(o, k)
        PROVE  DoorInv'
    BY <2>4, <1>2, NobodyServed DEF Withdraw, Publish
  <2>5. ASSUME Tick \/ UNCHANGED vars PROVE DoorInv'
    BY <2>5, <1>2, NobodyServed DEF Tick, vars
  <2> QED
    BY <1>2, <2>1, <2>2, <2>3, <2>4, <2>5, OneServed DEF Next
<1>3. DoorInv => ServedOncePerInstance
  BY DEF DoorInv
<1> QED
  BY <1>1, <1>2, <1>3, TypeCorrect, PTL DEF Spec

-----------------------------------------------------------------------------
(* Withdrawn keys.                                                         *)

\* A key of directory e, withdrawn as w says, was so no longer before e was
\* cached than a fetch lasts.
HonestEntry(e, w) ==
    /\ e.at <= now
    /\ \A k \in e.directory : w[k] # None => e.at <= w[k] + FetchTimeout

\* A fetch is not older than its timeout, its answer lists no key withdrawn
\* before it began, and what a request decides on is not too old.
HonestRequest(x, w) ==
    /\ x.state \in {"fetching", "replied"} => x.since <= now /\ now <= x.since + FetchTimeout
    /\ x.state = "replied" => \A k \in x.directory : w[k] # None => x.since <= w[k]
    /\ x.state = "resolved" =>
          \A k \in x.directory : w[k] # None => now < w[k] + Ttl + FetchTimeout

HonestCache ==
    \A s \in Instances : \A o \in Origins :
        cache[s][o] # None => HonestEntry(cache[s][o], withdrawn[o])

HonestDoor ==
    \A d \in Deliveries :
        door[d].state # "idle" => HonestRequest(door[d], withdrawn[door[d].msg.origin])

Honest == HonestCache /\ HonestDoor

\* A request under way names an origin.
LEMMA OriginOf ==
    ASSUME TypeOK, UnderWay, NEW d \in Deliveries, door[d].state # "idle"
    PROVE  door[d].msg.origin \in Origins
  BY MessagesAssumption DEF UnderWay, Message

\* A step that puts an honest request in place of d.
LEMMA HonestDoorChanges ==
    ASSUME TypeOK, HonestDoor, NEW d \in Deliveries, NEW y,
           door' = [door EXCEPT ![d] = y], UNCHANGED <<now, withdrawn>>,
           y.state # "idle" => HonestRequest(y, withdrawn[y.msg.origin])
    PROVE  HonestDoor'
<1>1. door'[d] = y /\ \A e \in Deliveries : e # d => door'[e] = door[e]
  BY DEF TypeOK
<1> QED
  BY <1>1 DEF HonestDoor, HonestRequest

\* Receiving: a directory is taken from the cache while it is fresh, which
\* adds Ttl to what the cache guarantees.
LEMMA HonestReceive ==
    ASSUME TypeOK, UnderWay, Honest,
           NEW d \in Deliveries, NEW m \in Messages, NEW s \in Instances, Receive(d, m, s)
    PROVE  Honest'
<1> DEFINE o == m.origin
           e == cache[s][o]
           st == IF Fresh(e) THEN "resolved" ELSE "fetching"
           dir == IF Fresh(e) THEN e.directory ELSE {}
           t == IF Fresh(e) THEN 0 ELSE now
           y == [NotArrived EXCEPT !.state = st, !.directory = dir, !.msg = m,
                                   !.inst = s, !.since = t]
<1>1. door' = [door EXCEPT ![d] = y] /\ UNCHANGED <<now, withdrawn, cache>>
  BY DEF Receive
<1>2. o \in Origins /\ now \in Nat /\ withdrawn[o] \in [KeyIds -> 0..MaxTime \cup {None}]
  BY MessagesAssumption, BoundsAssumption DEF Message, TypeOK
<1>3. CASE Fresh(e)
  <2>1. e \in Entry /\ now - e.at < Ttl /\ HonestEntry(e, withdrawn[o])
    BY <1>2, <1>3 DEF Fresh, TypeOK, Honest, HonestCache
  <2>2. st = "resolved" /\ dir = e.directory
    BY <1>3
  <2>3. ASSUME NEW k \in e.directory, withdrawn[o][k] # None
        PROVE  now < withdrawn[o][k] + Ttl + FetchTimeout
    <3> DEFINE w == withdrawn[o][k]
               a == e.at
    <3>1. w \in Nat /\ a \in Nat /\ a <= w + FetchTimeout /\ now - a < Ttl
      BY <1>2, <2>1, <2>3, BoundsAssumption DEF Entry, HonestEntry
    <3> HIDE DEF w, a
    <3>2. now < w + Ttl + FetchTimeout
      BY <1>2, <3>1, BoundsAssumption
    <3> QED
      BY <3>2 DEF w
  <2> HIDE DEF st, dir, t
  <2>4. y.state = st /\ y.directory = dir /\ y.msg = m
    BY DEF NotArrived
  <2> HIDE DEF y, e
  <2>5. HonestRequest(y, withdrawn[y.msg.origin])
    BY <2>2, <2>3, <2>4 DEF HonestRequest
  <2> QED
    BY <1>1, <2>5, HonestDoorChanges DEF Honest, HonestCache, HonestEntry
<1>4. CASE ~Fresh(e)
  <2>1. st = "fetching" /\ t = now
    BY <1>4
  <2> HIDE DEF st, dir, t
  <2>2. y.state = st /\ y.since = t /\ y.msg = m
    BY DEF NotArrived
  <2> HIDE DEF y, e
  <2>3. HonestRequest(y, withdrawn[y.msg.origin])
    BY <1>2, <2>1, <2>2, BoundsAssumption DEF HonestRequest
  <2> QED
    BY <1>1, <2>3, HonestDoorChanges DEF Honest, HonestCache, HonestEntry
<1> QED
  BY <1>3, <1>4

\* Replying: the directory lists no withdrawn key at that moment.
LEMMA HonestReply ==
    ASSUME TypeOK, UnderWay, Honest, NEW d \in Deliveries, Reply(d)
    PROVE  Honest'
<1> DEFINE dir == Directory(door[d].msg.origin)
           y == [door[d] EXCEPT !.state = "replied", !.directory = dir]
<1>1. /\ door' = [door EXCEPT ![d] = y] /\ UNCHANGED <<now, withdrawn, cache>>
      /\ door[d].state = "fetching"
  BY DEF Reply
<1>2. \A k \in dir : withdrawn[door[d].msg.origin][k] = None
  BY DEF Directory
<1> HIDE DEF dir
<1>3. /\ y.state = "replied" /\ y.directory = dir
      /\ y.since = door[d].since /\ y.msg = door[d].msg
  BY DEF TypeOK, Delivery
<1>4. door[d].since <= now /\ now <= door[d].since + FetchTimeout
  BY <1>1 DEF Honest, HonestDoor, HonestRequest
<1> HIDE DEF y
<1>5. HonestRequest(y, withdrawn[y.msg.origin])
  BY <1>2, <1>3, <1>4 DEF HonestRequest
<1> QED
  BY <1>1, <1>5, HonestDoorChanges DEF Honest, HonestCache, HonestEntry

\* Resolving: what the cache gets lists no key withdrawn before the fetch
\* began, and the fetch has not outlived its timeout.
LEMMA HonestResolve ==
    ASSUME TypeOK, UnderWay, Honest, NEW d \in Deliveries, Resolve(d)
    PROVE  Honest'
<1> DEFINE o == door[d].msg.origin
           s == door[d].inst
           e == [at |-> now, directory |-> door[d].directory]
           y == [door[d] EXCEPT !.state = "resolved", !.since = 0]
<1>1. /\ door' = [door EXCEPT ![d] = y] /\ UNCHANGED <<now, withdrawn>>
      /\ cache' = [cache EXCEPT ![s][o] = e]
      /\ door[d].state = "replied"
  BY DEF Resolve
<1>2. o \in Origins /\ s \in Instances
  BY <1>1, OriginOf DEF UnderWay
<1>3. /\ now \in Nat /\ door[d] \in Delivery
      /\ withdrawn[o] \in [KeyIds -> 0..MaxTime \cup {None}]
  BY <1>2, BoundsAssumption DEF TypeOK
<1>4. door[d].directory \in SUBSET KeyIds /\ door[d].since \in Nat
  BY <1>3, BoundsAssumption DEF Delivery
<1>5. /\ door[d].since <= now /\ now <= door[d].since + FetchTimeout
      /\ \A k \in door[d].directory : withdrawn[o][k] # None => door[d].since <= withdrawn[o][k]
  BY <1>1 DEF Honest, HonestDoor, HonestRequest
<1>6. ASSUME NEW k \in door[d].directory, withdrawn[o][k] # None
      PROVE  now <= withdrawn[o][k] + FetchTimeout /\ now < withdrawn[o][k] + Ttl + FetchTimeout
  <2> DEFINE w == withdrawn[o][k]
             t == door[d].since
  <2>1. w \in Nat /\ t \in Nat /\ t <= w /\ now <= t + FetchTimeout
    BY <1>3, <1>4, <1>5, <1>6, BoundsAssumption
  <2> HIDE DEF w, t
  <2>2. now <= w + FetchTimeout /\ now < w + Ttl + FetchTimeout
    BY <1>3, <2>1, BoundsAssumption
  <2> QED
    BY <2>2 DEF w
<1>7. y.state = "resolved" /\ y.directory = door[d].directory /\ y.msg = door[d].msg
  BY <1>3 DEF Delivery
<1>8. e.at = now /\ e.directory = door[d].directory
  OBVIOUS
<1> HIDE DEF e, y
<1>9. HonestRequest(y, withdrawn[y.msg.origin])
  BY <1>6, <1>7 DEF HonestRequest
<1>10. HonestEntry(e, withdrawn[o])
  BY <1>3, <1>6, <1>8 DEF HonestEntry
<1>11. HonestDoor'
  BY <1>1, <1>9, HonestDoorChanges DEF Honest
<1>12. ASSUME NEW q \in Instances, NEW p \in Origins, cache'[q][p] # None
       PROVE  HonestEntry(cache[q][p], withdrawn[p])'
  <2>1. cache'[q][p] = IF q = s /\ p = o THEN e ELSE cache[q][p]
    BY <1>1 DEF TypeOK
  <2>2. CASE q = s /\ p = o
    BY <1>1, <1>10, <2>1, <2>2 DEF HonestEntry
  <2>3. CASE ~(q = s /\ p = o)
    BY <1>1, <1>12, <2>1, <2>3 DEF HonestEntry, Honest, HonestCache
  <2> QED
    BY <2>2, <2>3
<1> QED
  BY <1>11, <1>12 DEF Honest, HonestCache

\* An answer ends what is asked of a request.
LEMMA HonestAnswer ==
    ASSUME TypeOK, UnderWay, Honest, NEW d \in Deliveries,
           FetchFails(d) \/ Serve(d) \/ Refuse(d)
    PROVE  Honest'
<1>1. PICK answer \in {"served", "refused"} : Answered(d, answer)
  BY DEF FetchFails, Serve, Refuse
<1> DEFINE y == [door[d] EXCEPT !.state = answer, !.directory = {}, !.since = 0]
<1>2. door' = [door EXCEPT ![d] = y] /\ UNCHANGED <<now, withdrawn, cache>>
  BY <1>1 DEF FetchFails, Serve, Refuse, Answered
<1>3. y.state = answer
  BY DEF TypeOK, Delivery
<1> HIDE DEF y
<1>4. HonestRequest(y, withdrawn[y.msg.origin])
  BY <1>3 DEF HonestRequest
<1> QED
  BY <1>2, <1>4, HonestDoorChanges DEF Honest, HonestCache, HonestEntry

\* Withdrawing a key, now, is later than anything fetched; publishing one asks
\* less.
LEMMA HonestKeys ==
    ASSUME TypeOK, UnderWay, Honest, NEW o \in Origins, NEW k \in KeyIds,
           Withdraw(o, k) \/ Publish(o, k)
    PROVE  Honest'
<1>1. UNCHANGED <<now, cache, seen, door>>
  BY DEF Withdraw, Publish
<1>2. ASSUME NEW p \in Origins, NEW j \in KeyIds, withdrawn'[p][j] # None
      PROVE  withdrawn'[p][j] = now \/ withdrawn'[p][j] = withdrawn[p][j]
  BY <1>2 DEF Withdraw, Publish, TypeOK
<1>3. now \in Nat
  BY BoundsAssumption DEF TypeOK
<1>4. ASSUME NEW s \in Instances, NEW p \in Origins, cache[s][p] # None
      PROVE  HonestEntry(cache[s][p], withdrawn'[p])
  <2>1. HonestEntry(cache[s][p], withdrawn[p]) /\ cache[s][p] \in Entry
    BY <1>4 DEF Honest, HonestCache, TypeOK
  <2>2. cache[s][p].at \in Nat /\ cache[s][p].directory \in SUBSET KeyIds
    BY <2>1, BoundsAssumption DEF Entry
  <2> QED
    BY <1>2, <1>3, <2>1, <2>2, BoundsAssumption DEF HonestEntry
<1>5. ASSUME NEW d \in Deliveries, door[d].state # "idle"
      PROVE  HonestRequest(door[d], withdrawn'[door[d].msg.origin])
  <2> DEFINE p == door[d].msg.origin
             x == door[d]
  <2>1. HonestRequest(x, withdrawn[p]) /\ x \in Delivery /\ p \in Origins
    BY <1>5, OriginOf DEF Honest, HonestDoor, TypeOK
  <2>2. x.since \in Nat /\ x.directory \in SUBSET KeyIds
    BY <2>1, BoundsAssumption DEF Delivery
  <2> HIDE DEF p, x
  <2>3. \A j \in x.directory : withdrawn'[p][j] # None =>
           withdrawn'[p][j] = now \/ withdrawn'[p][j] = withdrawn[p][j]
    BY <1>2, <2>1, <2>2
  <2>4. x.state = "replied" =>
           \A j \in x.directory : withdrawn'[p][j] # None => x.since <= withdrawn'[p][j]
    BY <2>1, <2>3 DEF HonestRequest
  <2>5. x.state = "resolved" =>
           \A j \in x.directory : withdrawn'[p][j] # None =>
              now < withdrawn'[p][j] + Ttl + FetchTimeout
    BY <1>3, <2>1, <2>3, BoundsAssumption DEF HonestRequest
  <2>6. HonestRequest(x, withdrawn'[p])
    BY <2>1, <2>4, <2>5 DEF HonestRequest
  <2> QED
    BY <2>6 DEF x, p
<1> QED
  BY <1>1, <1>4, <1>5 DEF Honest, HonestCache, HonestDoor, HonestEntry, HonestRequest

\* The clock moves only while no request has its directory in hand and no
\* fetch is at its timeout.
LEMMA HonestTick ==
    ASSUME TypeOK, UnderWay, Honest, Tick
    PROVE  Honest'
<1>1. now \in Nat /\ now' = now + 1 /\ UNCHANGED <<withdrawn, cache, door>>
  BY BoundsAssumption DEF TypeOK, Tick
<1>2. ASSUME NEW s \in Instances, NEW o \in Origins, cache[s][o] # None
      PROVE  HonestEntry(cache[s][o], withdrawn[o])'
  <2>1. HonestEntry(cache[s][o], withdrawn[o]) /\ cache[s][o] \in Entry
    BY <1>2 DEF Honest, HonestCache, TypeOK
  <2>2. cache[s][o].at \in Nat
    BY <2>1, BoundsAssumption DEF Entry
  <2> QED
    BY <1>1, <2>1, <2>2 DEF HonestEntry
<1>3. ASSUME NEW d \in Deliveries, door[d].state # "idle"
      PROVE  HonestRequest(door[d], withdrawn[door[d].msg.origin])'
  <2>1. HonestRequest(door[d], withdrawn[door[d].msg.origin]) /\ door[d] \in Delivery
    BY <1>3 DEF Honest, HonestDoor, TypeOK
  <2>2. door[d].since \in Nat
    BY <2>1, BoundsAssumption DEF Delivery
  <2>3. /\ door[d].state # "resolved"
        /\ door[d].state \in {"fetching", "replied"} => now < door[d].since + FetchTimeout
    BY DEF Tick
  <2> QED
    BY <1>1, <2>1, <2>2, <2>3, BoundsAssumption DEF HonestRequest
<1> QED
  BY <1>1, <1>2, <1>3 DEF Honest, HonestCache, HonestDoor

\* Directories stay honest.
THEOREM HonestCorrect == Spec => []Honest
<1>1. Init => Honest
  BY DEF Init, Honest, HonestCache, HonestDoor, NotArrived
<1>2. ASSUME TypeOK, UnderWay, Honest, [Next]_vars PROVE Honest'
  <2>1. CASE UNCHANGED vars
    BY <1>2, <2>1 DEF vars, Honest, HonestCache, HonestDoor, HonestEntry, HonestRequest
  <2> QED
    BY <1>2, <2>1, HonestReceive, HonestReply, HonestResolve, HonestAnswer, HonestKeys,
       HonestTick DEF Next
<1> QED
  BY <1>1, <1>2, TypeCorrect, PTL DEF Spec

\* A withdrawn key verifies nothing once Ttl and FetchTimeout have passed, for
\* any number of concurrent fetches, instances and keys.
THEOREM WithdrawnKeyStops == Spec => WithdrawnKeyStopsWorking
<1>1. ASSUME TypeOK, UnderWay, Honest, [Next]_vars,
             NEW d \in Deliveries, door[d].state # "served", door'[d].state = "served"
      PROVE  LET w == withdrawn[door[d].msg.origin][door[d].msg.keyid] IN
             w # None => now - w < Ttl + FetchTimeout
  <2> DEFINE o == door[d].msg.origin
             k == door[d].msg.keyid
  <2>1. Serve(d)
    <3>1. ASSUME NEW e \in Deliveries, Serve(e), e # d PROVE FALSE
      BY <1>1, <3>1 DEF Serve, Answered, TypeOK
    <3> QED
      BY <1>1, <3>1, ServesNobody DEF Next, Withdraw, Publish, Tick, vars
  <2>2. door[d].state = "resolved" /\ k \in door[d].directory
    BY <2>1 DEF Serve, Verifies
  <2>3. withdrawn[o][k] # None => now < withdrawn[o][k] + Ttl + FetchTimeout
    BY <1>1, <2>2 DEF Honest, HonestDoor, HonestRequest
  <2>4. o \in Origins /\ k \in KeyIds
    BY <1>1, <2>2, OriginOf DEF TypeOK, Delivery
  <2>5. now \in Nat /\ withdrawn[o][k] \in Nat \cup {None}
    BY <1>1, <2>4, BoundsAssumption DEF TypeOK
  <2> QED
    BY <2>3, <2>5, BoundsAssumption
<1>2. TypeOK /\ UnderWay /\ Honest /\ [Next]_vars =>
      [\A d \in Deliveries :
         (door[d].state # "served" /\ door'[d].state = "served") =>
            LET w == withdrawn[door[d].msg.origin][door[d].msg.keyid] IN
            w # None => now - w < Ttl + FetchTimeout]_vars
  BY <1>1
<1> QED
  BY <1>2, TypeCorrect, HonestCorrect, PTL DEF Spec, WithdrawnKeyStopsWorking
=============================================================================
