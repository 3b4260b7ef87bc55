-------------------------- MODULE EventPool_proofs --------------------------
(* For a pool of any size: the links stay exact, and no callback gets an      *)
(* event that was reported for a deleted slot.                                *)
EXTENDS EventPool, SequenceTheorems, TLAPS

(* P is a struct poolhd.                                                      *)
Rec(P) ==
  P \in [links : {P.links}, count : {P.count}, live : {P.live},
         touched : {P.touched}, died : {P.died}, open : {P.open},
         index : {P.index}, cb : {P.cb}, pair : {P.pair}, conn : {P.conn},
         left : {P.left}, next : {P.next}, prev : {P.prev},
         start : {P.start}, end : {P.end}]

(* The types of the fields that matter here.                                  *)
Typed(P) ==
  /\ P.links \in [Slots -> Slots]
  /\ P.count \in 0 .. Max
  /\ P.live \subseteq Slots
  /\ P.index \in [Slots -> Slots]

(* LinksExact of a pool P.                                                    *)
Links(P) ==
  /\ \A i, j \in Slots : P.links[i] = P.links[j] => i = j
  /\ \A i \in Slots : P.links[i] \in P.live <=> i < P.count
  /\ \A s \in P.live : P.links[P.index[s]] = s

(* FreshDelivery of a pool P; B is the set of the slots whose events are      *)
(* still to be looked at.                                                     *)
Fresh(P, B) ==
  \A b \in B : /\ b \notin P.touched <=> b \notin P.died
               /\ b \notin P.touched => b \in P.live

Good(P, B) == Rec(P) /\ Typed(P) /\ Links(P) /\ Fresh(P, B)

Batch == {pending[i] : i \in 1 .. Len(pending)}

(* The inductive invariant.                                                   *)
IInv ==
  /\ Good(pool, Batch)
  /\ pending \in Seq(Slots)

(* Q differs from P only in fields that neither property is about.            *)
Keeps(P, Q) ==
  /\ Rec(Q)
  /\ Q.links = P.links /\ Q.count = P.count /\ Q.live = P.live
  /\ Q.index = P.index /\ Q.touched = P.touched /\ Q.died = P.died

LEMMA KeepsGood ==
  ASSUME NEW P, NEW Q, NEW B, Good(P, B), Keeps(P, Q)
  PROVE  Good(Q, B)
  BY DEF Good, Keeps, Typed, Links, Fresh
-----------------------------------------------------------------------------
(* The operations on the pool.                                                *)

LEMMA ClearedFields ==
  ASSUME NEW P, Rec(P), NEW s, NEW c
  PROVE  LET Q == Cleared(P, s, c) IN
         /\ Rec(Q)
         /\ Q.links = P.links /\ Q.count = P.count /\ Q.live = P.live
         /\ Q.touched = P.touched /\ Q.died = P.died
         /\ Q.index = [P.index EXCEPT ![s] = P.count]
  BY DEF Rec, Cleared

(* add_event takes the slot behind the live ones, which is dead: if an event  *)
(* is pending for it, it was deleted in this iteration.                       *)
LEMMA AddEventGood ==
  ASSUME NEW P, NEW B, NEW c, Good(P, B), ~Full(P)
  PROVE  Good(AddEvent(P, c), B) /\ AddEvent(P, c).count = P.count + 1
<1> DEFINE s == P.links[P.count]
           Q == AddEvent(P, c)
<1>1. P.count \in Slots /\ P.count + 1 \in 0 .. Max
  BY MaxAssumption DEF Good, Typed, Full, Slots
<1>2. s \in Slots /\ s \notin P.live
  <2>1. s \in Slots
    BY <1>1 DEF Good, Typed
  <2>2. s \in P.live <=> P.count < P.count
    BY <1>1 DEF Good, Links
  <2> QED BY <1>1, <2>1, <2>2 DEF Slots
<1>3. /\ Rec(Q)
      /\ Q.links = P.links /\ Q.count = P.count + 1 /\ Q.live = P.live \cup {s}
      /\ Q.touched = P.touched \cup {s} /\ Q.died = P.died
      /\ Q.index = [P.index EXCEPT ![s] = P.count]
  <2> DEFINE C == Cleared(P, s, c)
  <2>1. /\ Rec(C)
        /\ C.links = P.links /\ C.count = P.count /\ C.live = P.live
        /\ C.touched = P.touched /\ C.died = P.died
        /\ C.index = [P.index EXCEPT ![s] = P.count]
    <3>1. Rec(P)
      BY DEF Good
    <3> HIDE DEF s
    <3> QED BY <3>1, ClearedFields
  <2>2. Q = [C EXCEPT !.count = C.count + 1, !.live = C.live \cup {s},
                      !.touched = C.touched \cup {s}]
    BY DEF AddEvent
  <2> HIDE DEF C, Q, s
  <2>3. /\ Rec(Q)
        /\ Q.links = C.links /\ Q.count = C.count + 1 /\ Q.live = C.live \cup {s}
        /\ Q.touched = C.touched \cup {s} /\ Q.died = C.died /\ Q.index = C.index
    <3> DEFINE n == C.count + 1
               l == C.live \cup {s}
               t == C.touched \cup {s}
    <3>1. Rec(C) /\ Q = [C EXCEPT !.count = n, !.live = l, !.touched = t]
      BY <2>1, <2>2
    <3> HIDE DEF n, l, t
    <3>2. /\ Rec(Q) /\ Q.links = C.links /\ Q.count = n /\ Q.live = l
          /\ Q.touched = t /\ Q.died = C.died /\ Q.index = C.index
      BY <3>1 DEF Rec
    <3> QED BY <3>2 DEF n, l, t
  <2> QED BY <2>1, <2>3
<1> HIDE DEF Q
<1>4. Typed(Q)
  BY <1>1, <1>2, <1>3 DEF Good, Typed
<1>5. Links(Q)
  <2>1. \A i \in Slots : Q.links[i] \in Q.live <=> i < Q.count
    BY <1>1, <1>2, <1>3 DEF Good, Typed, Links, Slots
  <2>2. \A t \in Q.live : Q.links[Q.index[t]] = t
    BY <1>1, <1>2, <1>3 DEF Good, Typed, Links
  <2> QED BY <1>3, <2>1, <2>2 DEF Good, Links
<1>6. Fresh(Q, B)
  BY <1>1, <1>2, <1>3 DEF Good, Fresh
<1> QED BY <1>3, <1>4, <1>5, <1>6 DEF Good, Q

LEMMA RemoveTimerGood ==
  ASSUME NEW P, NEW B, NEW s, Good(P, B)
  PROVE  Good(RemoveTimer(P, s), B) /\ RemoveTimer(P, s).count = P.count
<1>1. Keeps(P, RemoveTimer(P, s))
  BY DEF Good, Keeps, Rec, RemoveTimer
<1> QED BY <1>1, KeepsGood DEF Keeps

LEMMA SetTimerGood ==
  ASSUME NEW P, NEW B, NEW s, NEW ms, Good(P, B)
  PROVE  Good(SetTimer(P, s, ms), B)
<1>1. Keeps(P, SetTimer(P, s, ms))
  BY DEF Good, Keeps, Rec, SetTimer
<1> QED BY <1>1, KeepsGood

(* The last live link moves to the place of the deleted one.                  *)
LEMMA DelOneGood ==
  ASSUME NEW P, NEW B, NEW s, Good(P, B)
  PROVE  Good(DelOne(P, s), B) /\ DelOne(P, s).count <= P.count
<1>1. CASE s = Nil \/ ~Live(P, s)
  BY <1>1 DEF DelOne, Good, Typed
<1>2. CASE ~(s = Nil \/ ~Live(P, s))
  <2> DEFINE R == RemoveTimer(P, s)
             U == Unlink(R, s)
             Q == DelOne(P, s)
             i == P.index[s]
             n == P.count - 1
             last == P.links[n]
  <2>1. Good(R, B) /\ R.links = P.links /\ R.count = P.count /\ R.live = P.live
        /\ R.index = P.index /\ R.touched = P.touched /\ R.died = P.died
    <3>1. Keeps(P, R)
      BY DEF Good, Keeps, Rec, RemoveTimer
    <3> QED BY <3>1, KeepsGood DEF Keeps
  <2>2. s \in P.live /\ s \in Slots /\ i \in Slots /\ P.links[i] = s
        /\ i < P.count /\ n \in Slots /\ n \in 0 .. Max /\ last \in Slots /\ last \in P.live
    <3>1. s \in P.live /\ s \in Slots /\ i \in Slots /\ P.links[i] = s
      BY <1>2 DEF Live, Good, Typed, Links
    <3>2. i < P.count
      BY <3>1 DEF Good, Links
    <3>3. n \in Slots /\ n \in 0 .. Max /\ n < P.count
      BY <3>1, <3>2, MaxAssumption DEF Good, Typed, Slots
    <3>4. last \in Slots /\ last \in P.live
      BY <3>3 DEF Good, Typed, Links
    <3> QED BY <3>1, <3>2, <3>3, <3>4
  <2>3. /\ Rec(U)
        /\ U.count = n /\ U.live = P.live /\ U.touched = P.touched /\ U.died = P.died
        /\ U.links = IF last = s THEN P.links
                     ELSE [P.links EXCEPT ![i] = last, ![n] = s]
        /\ U.index = IF last = s THEN P.index ELSE [P.index EXCEPT ![last] = i]
    <3> HIDE DEF R
    <3> QED BY <2>1 DEF Good, Rec, Unlink
  <2>4. /\ Rec(Q)
        /\ Q.count = n /\ Q.live = P.live \ {s} /\ Q.touched = P.touched \cup {s}
        /\ Q.died = P.died \cup {s} /\ Q.links = U.links /\ Q.index = U.index
    <3> HIDE DEF U
    <3> QED BY <1>2, <2>3 DEF Rec, DelOne, U, R
  <2> HIDE DEF R, U, Q
  <2>5. Typed(Q)
    BY <2>2, <2>3, <2>4 DEF Good, Typed
  <2>6. Links(Q)
    <3>1. CASE last = s
      BY <2>2, <2>3, <2>4, <3>1 DEF Good, Typed, Links, Slots
    <3>2. CASE last # s
      <4>1. Q.links = [P.links EXCEPT ![i] = last, ![n] = s] /\ i # n
        BY <2>2, <2>3, <2>4, <3>2
      <4>2. \A j, k \in Slots : Q.links[j] = Q.links[k] => j = k
        BY <2>2, <4>1 DEF Good, Typed, Links
      <4>3. \A j \in Slots : Q.links[j] \in Q.live <=> j < Q.count
        <5> TAKE j \in Slots
        <5>1. j \in Int /\ i \in Int /\ P.count \in Int
          BY <2>2 DEF Good, Typed, Slots
        <5>2. CASE j = n
          <6>1. Q.links[j] = s
            BY <5>2, <2>2, <4>1 DEF Good, Typed
          <6> QED BY <6>1, <5>1, <5>2, <2>4
        <5>3. CASE j = i
          <6>1. Q.links[j] = last
            BY <5>3, <2>2, <4>1 DEF Good, Typed
          <6> QED BY <6>1, <5>1, <5>3, <2>2, <2>4, <3>2, <4>1
        <5>4. CASE j # i /\ j # n
          <6>1. Q.links[j] = P.links[j] /\ P.links[j] # s
            BY <5>4, <2>2, <4>1 DEF Good, Typed, Links
          <6>2. P.links[j] \in P.live <=> j < P.count
            BY DEF Good, Links
          <6> QED BY <6>1, <6>2, <5>1, <5>4, <2>4
        <5> QED BY <5>2, <5>3, <5>4
      <4>4. \A t \in Q.live : Q.links[Q.index[t]] = t
        <5> TAKE t \in Q.live
        <5>1. t \in P.live /\ t \in Slots /\ t # s
          BY <2>4 DEF Good, Typed
        <5>2. CASE t = last
          BY <5>1, <5>2, <2>2, <2>3, <2>4, <4>1, <3>2 DEF Good, Typed, Links
        <5>3. CASE t # last
          <6>1. Q.index[t] = P.index[t] /\ P.links[P.index[t]] = t /\ P.index[t] \in Slots
            BY <5>1, <5>3, <2>2, <2>3, <2>4, <3>2 DEF Good, Typed, Links
          <6>2. P.index[t] # i /\ P.index[t] # n
            BY <6>1, <5>1, <5>3, <2>2
          <6> QED BY <6>1, <6>2, <4>1 DEF Good, Typed
        <5> QED BY <5>2, <5>3
      <4> QED BY <4>2, <4>3, <4>4 DEF Links
    <3> QED BY <3>1, <3>2
  <2>7. Fresh(Q, B)
    BY <2>2, <2>4 DEF Good, Fresh
  <2>8. Q.count <= P.count
    BY <2>4 DEF Good, Typed
  <2> QED BY <2>4, <2>5, <2>6, <2>7, <2>8 DEF Good, Q
<1> QED BY <1>1, <1>2

LEMMA DelEventGood ==
  ASSUME NEW P, NEW B, NEW s, Good(P, B)
  PROVE  Good(DelEvent(P, s), B)
  BY DelOneGood DEF DelEvent

LEMMA CreateConnGood ==
  ASSUME NEW P, NEW B, NEW v, Good(P, B), ~Full(P)
  PROVE  Good(CreateConn(P, v), B)
<1> DEFINE r == P.links[P.count]
           Q == AddEvent(P, "connect")
<1>1. Good(Q, B)
  BY AddEventGood
<1> HIDE DEF Q
<1>2. Keeps(Q, [Q EXCEPT !.pair = [@ EXCEPT ![v] = r, ![r] = v],
                         !.cb = [@ EXCEPT ![v] = "ignore"],
                         !.conn = @ \cup {r}, !.open = @ + 1])
  BY <1>1 DEF Good, Keeps, Rec
<1> QED BY <1>1, <1>2, KeepsGood DEF CreateConn, Q

LEMMA ReconnectGood ==
  ASSUME NEW P, NEW B, NEW r, Good(P, B), ~Full(P)
  PROVE  Good(Reconnect(P, r), B)
<1> DEFINE Q == CreateConn(P, P.pair[r])
<1>1. Good(Q, B)
  BY CreateConnGood
<1> HIDE DEF Q
<1>2. Keeps(Q, [Q EXCEPT !.pair = [@ EXCEPT ![r] = Nil]])
  BY <1>1 DEF Good, Keeps, Rec
<1> QED BY <1>1, <1>2, KeepsGood, DelEventGood DEF Reconnect, Q

LEMMA UdpAssociateGood ==
  ASSUME NEW P, NEW B, NEW v, Good(P, B), P.count + 1 < Max
  PROVE  Good(UdpAssociate(P, v), B)
<1> DEFINE o == P.links[P.count]
           c == P.links[P.count + 1]
           A == AddEvent(P, "udp")
           Q == AddEvent(A, "udp")
<1>1. ~Full(P)
  BY MaxAssumption DEF Good, Typed, Full
<1>2. Good(A, B) /\ A.count = P.count + 1
  BY <1>1, AddEventGood
<1>3. ~Full(A)
  BY <1>2, MaxAssumption DEF Good, Typed, Full
<1> HIDE DEF A
<1>4. Good(Q, B)
  BY <1>2, <1>3, AddEventGood
<1> HIDE DEF Q
<1>5. Keeps(Q, [Q EXCEPT !.pair = [@ EXCEPT ![v] = c, ![c] = o, ![o] = v],
                         !.cb = [@ EXCEPT ![v] = "ignore"],
                         !.open = @ + 2])
  BY <1>4 DEF Good, Keeps, Rec
<1> QED BY <1>4, <1>5, KeepsGood DEF UdpAssociate, Q, A

LEMMA UdpGivenUpGood ==
  ASSUME NEW P, NEW B, Good(P, B), ~Full(P)
  PROVE  Good(UdpGivenUp(P), B)
<1> DEFINE A == AddEvent(P, "udp")
<1>1. Good(A, B)
  BY AddEventGood
<1> HIDE DEF A
<1>2. Keeps(A, [A EXCEPT !.open = @ + 1])
  BY <1>1 DEF Good, Keeps, Rec
<1> QED BY <1>1, <1>2, KeepsGood, DelEventGood DEF UdpGivenUp, A

(* Whatever on_tunnel does to a good pool, the next one is good.              *)
LEMMA TransferGood ==
  ASSUME NEW P, NEW B, Good(P, B), NEW Q \in Transfer(P)
  PROVE  Good(Q, B)
<1> DEFINE other == P.pair[cur]
           remote == Remote(P, cur)
           client == P.pair[remote]
<1>1. CASE Q \in {Untimed(P, cur, other), P, DelEvent(P, cur)}
  BY <1>1, RemoveTimerGood, DelEventGood DEF Untimed
<1>2. CASE \E s \in {cur, other}, ms \in Delays : Q = SetTimer(P, s, ms)
  BY <1>2, SetTimerGood
<1>3. CASE ~Full(P) /\ Q \in {RemoveTimer(Reconnect(P, remote), client),
                              DelEvent(Reconnect(P, remote), cur)}
  <2> HIDE DEF remote, client
  <2> QED BY <1>3, ReconnectGood, RemoveTimerGood, DelEventGood
<1> QED BY <1>1, <1>2, <1>3 DEF Transfer
-----------------------------------------------------------------------------
(* The steps.                                                                 *)

(* The callbacks leave the batch alone and the pool good.                     *)
LEMMA CallbackGood ==
  ASSUME IInv, Callback
  PROVE  Good(pool', Batch) /\ pending' = pending
<1> USE DEF IInv
<1>0. pending' = pending
  <2>1. CASE OnCtrl \/ AcceptOne \/ AcceptDone \/ AcceptFails \/ RequestGoesOn \/ RequestFails
    BY <2>1 DEF OnCtrl, AcceptOne, AcceptDone, AcceptFails, RequestGoesOn, RequestFails,
                Return0, ReturnError
  <2>2. CASE RequestConnects \/ RequestAssociates \/ OnIgnore \/ OnUdpTunnel
    BY <2>2 DEF RequestConnects, RequestAssociates, OnIgnore, OnUdpTunnel, Return0, ReturnError
  <2>3. CASE Connected
    BY <2>3 DEF Connected, Return0, ReturnError
  <2>4. CASE ConnectFails
    BY <2>4 DEF ConnectFails, Return0, ReturnError
  <2>5. CASE TunnelIO \/ TunnelTimeout
    BY <2>5 DEF TunnelIO, TunnelTimeout, Return0
  <2> QED BY <2>1, <2>2, <2>3, <2>4, <2>5 DEF Callback
<1>1. CASE OnCtrl \/ AcceptDone \/ RequestGoesOn
  BY <1>1 DEF OnCtrl, AcceptDone, RequestGoesOn, Return0
<1>2. CASE AcceptOne
  <2> DEFINE A == AddEvent(pool, "request")
  <2>1. CASE Full(pool)
    BY <1>2, <2>1 DEF AcceptOne
  <2>2. CASE ~Full(pool)
    <3>1. Good(A, Batch)
      BY <2>2, AddEventGood
    <3> HIDE DEF A
    <3>2. Keeps(A, [A EXCEPT !.open = @ + 1])
      BY <3>1 DEF Good, Keeps, Rec
    <3> QED BY <1>2, <2>2, <3>1, <3>2, KeepsGood DEF AcceptOne, A
  <2> QED BY <2>1, <2>2
<1>3. CASE AcceptFails
  BY <1>3, DelEventGood DEF AcceptFails
<1>4. CASE RequestFails
  BY <1>4, DelEventGood DEF RequestFails, Return0, ReturnError
<1>5. CASE RequestConnects
  BY <1>5, CreateConnGood DEF RequestConnects, Return0
<1>6. CASE RequestAssociates
  <2>1. CASE pool.count + 1 >= Max
    BY <1>6, <2>1, UdpGivenUpGood, DelEventGood DEF RequestAssociates, Return0, ReturnError
  <2>2. CASE ~(pool.count + 1 >= Max)
    <3>1. pool.count + 1 < Max
      BY <2>2, MaxAssumption DEF Good, Typed
    <3> QED BY <1>6, <2>2, <3>1, UdpAssociateGood, UdpGivenUpGood, DelEventGood
            DEF RequestAssociates, Return0, ReturnError
  <2> QED BY <2>1, <2>2
<1>7. CASE Connected
  <2> DEFINE P == Tunnelled(pool, cur)
  <2>1. Good(P, Batch)
    <3>1. Keeps(pool, P)
      BY DEF Good, Keeps, Rec, Tunnelled
    <3> QED BY <3>1, KeepsGood
  <2>2. \/ pool' = P \/ pool' = DelEvent(P, cur)
        \/ pool' \in Transfer(Untimed(P, cur, pool.pair[cur]))
    BY <1>7 DEF Connected, Return0, ReturnError
  <2> HIDE DEF P
  <2>3. Good(Untimed(P, cur, pool.pair[cur]), Batch)
    BY <2>1, RemoveTimerGood DEF Untimed
  <2>4. Good(pool', Batch)
    BY <2>1, <2>2, <2>3, TransferGood, DelEventGood
  <2> QED BY <1>0, <2>4
<1>8. CASE ConnectFails
  BY <1>8, ReconnectGood, DelEventGood DEF ConnectFails, Return0, ReturnError
<1>9. CASE TunnelIO
  <2>1. Good(Untimed(pool, cur, pool.pair[cur]), Batch)
    BY RemoveTimerGood DEF Untimed
  <2> QED BY <1>9, <2>1, TransferGood DEF TunnelIO, Return0
<1>10. CASE TunnelTimeout
  BY <1>10, SetTimerGood, ReconnectGood, TransferGood DEF TunnelTimeout, Return0
<1>11. CASE OnIgnore \/ OnUdpTunnel
  BY <1>11, DelEventGood DEF OnIgnore, OnUdpTunnel, Return0, ReturnError
<1> QED BY <1>0, <1>1, <1>2, <1>3, <1>4, <1>5, <1>6, <1>7, <1>8, <1>9, <1>10, <1>11
        DEF Callback

LEMMA InitInv == PoolInit => IInv
<1> SUFFICES ASSUME PoolInit PROVE IInv
  OBVIOUS
<1> DEFINE E == EmptyPool
           A == AddEvent(E, "ctrl")
<1>1. Good(E, {}) /\ E.count = 0
  <2>1. Rec(E)
    BY DEF EmptyPool, Rec
  <2>2. /\ E.links = [i \in Slots |-> i] /\ E.count = 0 /\ E.live = {}
        /\ E.index = [s \in Slots |-> 0]
    BY DEF EmptyPool
  <2> HIDE DEF E
  <2>3. 0 \in Slots /\ \A i \in Slots : ~(i < 0)
    BY MaxAssumption DEF Slots
  <2> QED BY <2>1, <2>2, <2>3, MaxAssumption DEF Good, Typed, Links, Fresh
<1>2. Good(A, {}) /\ A.count = 1
  BY <1>1, AddEventGood, MaxAssumption DEF Full
<1>3. Good(AddEvent(A, "accept"), {})
  <2> HIDE DEF A
  <2> QED BY <1>2, AddEventGood, MaxAssumption DEF Full
<1>4. Good(FreshPool, {})
  BY <1>3 DEF FreshPool
<1>5. Batch = {} /\ pending \in Seq(Slots)
  BY DEF PoolInit, Batch
<1> QED BY <1>4, <1>5 DEF PoolInit, IInv

LEMMA StepInv == IInv /\ [PoolNext]_vars => IInv'
<1> SUFFICES ASSUME IInv, [PoolNext]_vars PROVE IInv'
  OBVIOUS
<1>k. ASSUME pool' = pool \/ Keeps(pool, pool'), pending' = pending PROVE IInv'
  <2>1. Good(pool', Batch)
    BY <1>k, KeepsGood DEF IInv
  <2>2. Batch' = Batch
    BY <1>k DEF Batch
  <2> QED BY <1>k, <2>1, <2>2 DEF IInv
<1>f. ASSUME FireTimer PROVE IInv'
  <2>1. Keeps(pool, pool')
    BY <1>f DEF IInv, FireTimer, Good, Keeps, Rec, RemoveTimer
  <2> QED BY <1>f, <1>k, <2>1 DEF FireTimer
<1>1. CASE UNCHANGED vars \/ LeaveLoop \/ Stop
  BY <1>1, <1>k DEF vars, LeaveLoop, Stop
<1>2. CASE TimerDue \/ WaitTimesOut
  BY <1>2, <1>f DEF TimerDue, WaitTimesOut
<1>3. CASE Interrupted
  BY <1>3, <1>f, <1>k DEF Interrupted
<1>4. CASE Tick
  <2>1. Keeps(pool, pool')
    BY <1>4 DEF IInv, Tick, Good, Keeps, Rec
  <2> QED BY <1>4, <1>k, <2>1 DEF Tick
<1>5. CASE NextOfBatch
  <2>1. PICK i \in 1 .. Len(pending) : pending' = SubSeq(pending, i + 1, Len(pending))
    BY <1>5 DEF NextOfBatch, Remaining
  <2>2. /\ pending' \in Seq(Slots)
        /\ \A j \in 1 .. Len(pending') : pending'[j] = pending[i + j] /\ i + j \in 1 .. Len(pending)
    BY <2>1, SubSeqProperties DEF IInv
  <2>3. Batch' \subseteq Batch
    BY <2>2 DEF Batch
  <2> QED BY <1>5, <2>2, <2>3 DEF NextOfBatch, IInv, Good, Fresh
<1>6. CASE Wait
  <2>1. Batch' = {} /\ pending' \in Seq(Slots)
    BY <1>6 DEF Wait, Batch
  <2> QED BY <1>6, <2>1 DEF Wait, IInv, Good, Fresh
<1>7. CASE EpollReturns
  <2>1. PICK n \in 1 .. MaxBatch :
          \E batch \in [1 .. n -> pool.live] : pending' = Tail(batch)
    BY <1>7 DEF EpollReturns
  <2> PICK batch \in [1 .. n -> pool.live] : pending' = Tail(batch)
    BY <2>1
  <2>2. batch \in Seq(pool.live) /\ Len(batch) = n /\ batch # <<>>
    BY <2>1, BatchAssumption
  <2>3. pending' \in Seq(pool.live)
    BY <2>1, <2>2, HeadTailProperties
  <2>4. Batch' \subseteq pool.live
    BY <2>3 DEF Batch
  <2>5. /\ Rec(pool') /\ pool'.links = pool.links /\ pool'.count = pool.count
        /\ pool'.live = pool.live /\ pool'.index = pool.index
        /\ pool'.touched = {} /\ pool'.died = {}
    BY <1>7 DEF EpollReturns, IInv, Good, Rec
  <2>6. pending' \in Seq(Slots)
    BY <2>3 DEF IInv, Good, Typed
  <2> QED BY <2>4, <2>5, <2>6 DEF IInv, Good, Typed, Links, Fresh
<1>8. CASE DestroyStep
  <2>1. Good(pool', Batch)
    BY <1>8, DelEventGood DEF DestroyStep, IInv
  <2>2. Batch' = Batch
    BY <1>8 DEF DestroyStep, Batch
  <2> QED BY <1>8, <2>1, <2>2 DEF DestroyStep, IInv
<1>9. CASE NewPool
  <2>1. PoolInit'
    BY <1>9 DEF NewPool, PoolInit
  <2> QED BY <2>1, InitInv, PTL
<1>10. CASE Callback
  <2>1. Good(pool', Batch) /\ pending' = pending
    BY <1>10, CallbackGood
  <2>2. Batch' = Batch
    BY <2>1 DEF Batch
  <2> QED BY <2>1, <2>2 DEF IInv
<1> QED BY <1>1, <1>2, <1>3, <1>4, <1>5, <1>6, <1>7, <1>8, <1>9, <1>10 DEF PoolNext

LEMMA InvAlways == PoolSpec => []IInv
  BY InitInv, StepInv, PTL DEF PoolSpec

(* del_event swaps the last live link into the hole and tells it its place:   *)
(* whatever the callbacks do, the first count links are the live slots.       *)
THEOREM LinksAlwaysExact == PoolSpec => []LinksExact
<1>1. IInv => LinksExact
  BY DEF IInv, Good, Links, LinksExact
<1> QED BY <1>1, InvAlways, PTL

(* An event of the batch is delivered exactly if its slot was not deleted     *)
(* since epoll_wait returned, although slots are reused at once.              *)
THEOREM DeliveryAlwaysFresh == PoolSpec => []FreshDelivery
<1>1. IInv => FreshDelivery
  BY DEF IInv, Good, Fresh, Batch, FreshDelivery, Deliverable
<1> QED BY <1>1, InvAlways, PTL
=============================================================================
