----------------------- MODULE EventPoolSound_proofs -----------------------
(* For a pool of any size: the timer list is exact and sorted, no partner     *)
(* dangles, timers run only where a timeout is expected, no descriptor is     *)
(* lost.                                                                      *)
(*   The invariant Sound says of a pool that the timer list is some sequence  *)
(* of slots without repetition (Chain), that the live slots fall into whole   *)
(* connections (RingsIn) and that open counts the descriptors of the live     *)
(* slots (Fds).  It is kept by add_event, set_timer, remove_timer and         *)
(* del_event; while del_event walks a connection, or reconnect cuts the old   *)
(* remote off, it holds for all slots but those (Hurt).                       *)
EXTENDS EventPool_proofs, FiniteSetTheorems

(* The types of all fields of a struct poolhd.                                *)
Fields(P) ==
  /\ Typed(P)
  /\ P.touched \subseteq Slots /\ P.died \subseteq Slots /\ P.conn \subseteq Slots
  /\ P.open \in Int
  /\ P.cb \in [Slots -> Callbacks]
  /\ P.pair \in [Slots -> Slots \cup {Nil}]
  /\ P.left \in [Slots -> Nat \cup {Nil}]
  /\ P.next \in [Slots -> Slots \cup {Nil}]
  /\ P.prev \in [Slots -> Slots \cup {Nil}]
  /\ P.start \in Slots \cup {Nil} /\ P.end \in Slots \cup {Nil}

ArmedIn(P) == {s \in Slots : P.left[s] # Nil}

(* The timer list is ord[1] .. ord[n], forwards and backwards, in the order   *)
(* in which the timers are due.                                               *)
Chain(P, n, ord) ==
  /\ n \in Nat /\ ord \in [1 .. n -> Slots]
  /\ \A i, j \in 1 .. n : ord[i] = ord[j] => i = j
  /\ \A s \in Slots : P.left[s] # Nil <=> \E i \in 1 .. n : ord[i] = s
  /\ \A i \in 1 .. n : /\ P.next[ord[i]] = IF i = n THEN Nil ELSE ord[i + 1]
                       /\ P.prev[ord[i]] = IF i = 1 THEN Nil ELSE ord[i - 1]
  /\ \A i, j \in 1 .. n : i <= j => P.left[ord[i]] <= P.left[ord[j]]
  /\ P.start = IF n = 0 THEN Nil ELSE ord[1]
  /\ P.end = IF n = 0 THEN Nil ELSE ord[n]
  /\ \A s \in Slots : P.left[s] = Nil => P.next[s] = Nil /\ P.prev[s] = Nil

Timers(P) == \E n \in 0 .. Max : \E ord \in [1 .. n -> Slots] : Chain(P, n, ord)

(* What holds of the pool whatever the connections are.                       *)
Base(P) == Rec(P) /\ Fields(P) /\ Links(P) /\ Timers(P) /\ ArmedIn(P) \subseteq P.live

(* The connections of P: alone, a remote with its client, or the three events *)
(* of a UDP association.                                                      *)
Alone(P, s) == P.pair[s] = Nil /\ P.cb[s] \in {"ctrl", "accept", "request"}

Matched(c, d) == \/ c = "connect" /\ d = "ignore"
                 \/ c = "ignore" /\ d = "connect"
                 \/ c = "tunnel" /\ d = "tunnel"

Mates(P, L, s) ==
  LET t == P.pair[s] IN t \in L /\ t # s /\ P.pair[t] = s /\ Matched(P.cb[s], P.cb[t])

Trio(P, L, s) ==
  LET t == P.pair[s]
      u == P.pair[t]
  IN  /\ t \in L /\ u \in L /\ P.pair[u] = s
      /\ {P.cb[s], P.cb[t], P.cb[u]} = {"udp", "ignore"}

(* The slots of L make whole connections among themselves.                    *)
RingsIn(P, L) == \A s \in L : Alone(P, s) \/ Mates(P, L, s) \/ Trio(P, L, s)

Rings(P) == RingsIn(P, P.live) /\ \A s \in Slots \ P.live : P.pair[s] = Nil

Timed(P) == \A s \in ArmedIn(P) : P.cb[s] \in {"tunnel", "ignore"}

OwnedIn(P) == {s \in P.live : Owned(P, s)}

Fds(P) == P.open = Cardinality(OwnedIn(P))

Sound(P) == Base(P) /\ Rings(P) /\ Timed(P) /\ Fds(P)

(* Where the loop is: a callback runs for an event of the pool, whose slot     *)
(* cannot be deleted before it returns.                                       *)
CurInv ==
  /\ phase \in {"next", "waiting", "callback", "destroy"}
  /\ IF phase = "callback" THEN cur \in pool.live ELSE cur = Nil
  /\ etype \in {"none", "io", "timeout"} /\ brk \in BOOLEAN

(* The inductive invariant; IInv is needed with it for the events of the batch. *)
SoundInv == Sound(pool) /\ CurInv
-----------------------------------------------------------------------------
(* The timer list.                                                            *)

(* The list has no more slots than there are.                                 *)
LEMMA ChainFits ==
  ASSUME NEW P, NEW n \in Nat, NEW ord \in [1 .. n -> Slots], Chain(P, n, ord)
  PROVE  n \in 0 .. Max
<1>1. ord \in Injection(1 .. n, Slots)
  BY DEF Chain, Injection, IsInjective
<1>2. IsFiniteSet(Slots) /\ Cardinality(Slots) = Max
  <2>1. 0 \in Int /\ Max - 1 \in Int /\ ~(0 > Max - 1) /\ (Max - 1) - 0 + 1 = Max
    BY MaxAssumption
  <2> QED BY <2>1, FS_Interval DEF Slots
<1>3. Cardinality(1 .. n) <= Max
  BY <1>1, <1>2, FS_Injection
<1>4. Cardinality(1 .. n) = n
  <2>1. Cardinality(1 .. n) = IF 1 > n THEN 0 ELSE n - 1 + 1
    BY FS_Interval
  <2> QED BY <2>1
<1> QED BY <1>3, <1>4, MaxAssumption

LEMMA ChainTimers ==
  ASSUME NEW P, NEW n \in Nat, NEW ord \in [1 .. n -> Slots], Chain(P, n, ord)
  PROVE  Timers(P)
  BY ChainFits DEF Timers

(* R has the timers that remove_timer leaves of those of P.                   *)
TimerRemoved(P, R, s) ==
  /\ R.next = [x \in Slots |-> IF x = s THEN Nil ELSE IF x = P.prev[s] THEN P.next[s]
                               ELSE P.next[x]]
  /\ R.prev = [x \in Slots |-> IF x = s THEN Nil ELSE IF x = P.next[s] THEN P.prev[s]
                               ELSE P.prev[x]]
  /\ R.start = IF P.start = s THEN P.next[s] ELSE P.start
  /\ R.end = IF P.end = s THEN P.prev[s] ELSE P.end
  /\ R.left = [P.left EXCEPT ![s] = Nil]

(* What was before the slot is followed by what was after it.                 *)
LEMMA ChainRemove ==
  ASSUME NEW P, NEW R, NEW n \in Nat, NEW ord \in [1 .. n -> Slots], Chain(P, n, ord), Fields(P),
         NEW k \in 1 .. n, TimerRemoved(P, R, ord[k])
  PROVE  Timers(R)
<1> PICK s : s = ord[k]
  OBVIOUS
<1>r. /\ R.next = [x \in Slots |-> IF x = s THEN Nil ELSE IF x = P.prev[s] THEN P.next[s]
                                   ELSE P.next[x]]
      /\ R.prev = [x \in Slots |-> IF x = s THEN Nil ELSE IF x = P.next[s] THEN P.prev[s]
                                   ELSE P.prev[x]]
      /\ R.start = IF P.start = s THEN P.next[s] ELSE P.start
      /\ R.end = IF P.end = s THEN P.prev[s] ELSE P.end
      /\ R.left = [P.left EXCEPT ![s] = Nil]
  BY DEF TimerRemoved
<1> USE <1>r
<1> DEFINE f(i) == IF i < k THEN i ELSE i + 1
           o == [i \in 1 .. n - 1 |-> ord[f(i)]]
<1>0. n - 1 \in Nat /\ \A x \in Slots : x # Nil
  BY DEF Slots, Nil
<1>1. \A i \in 1 .. n - 1 : f(i) \in 1 .. n /\ f(i) # k /\ f(i) \in Nat
  OBVIOUS
<1>2. o \in [1 .. n - 1 -> Slots] /\ \A i \in 1 .. n - 1 : o[i] = ord[f(i)]
  BY <1>1
<1>3. s \in Slots /\ \A i \in 1 .. n : ord[i] = s <=> i = k
  BY DEF Chain
<1>4. \A i \in 1 .. n : i # k => R.left[ord[i]] = P.left[ord[i]]
  BY <1>3 DEF Fields
<1>5. /\ P.prev[s] = IF k = 1 THEN Nil ELSE ord[k - 1]
      /\ P.next[s] = IF k = n THEN Nil ELSE ord[k + 1]
  BY DEF Chain
<1>6. \A i, j \in 1 .. n - 1 : o[i] = o[j] => i = j
  <2> TAKE i, j \in 1 .. n - 1
  <2>1. o[i] = o[j] => f(i) = f(j)
    BY <1>1, <1>2 DEF Chain
  <2>2. f(i) = f(j) => i = j
    OBVIOUS
  <2> QED BY <2>1, <2>2
<1>7. \A x \in Slots : R.left[x] # Nil <=> \E i \in 1 .. n - 1 : o[i] = x
  <2> TAKE x \in Slots
  <2>1. R.left[x] # Nil <=> x # s /\ P.left[x] # Nil
    BY DEF Fields
  <2>2. P.left[x] # Nil <=> \E i \in 1 .. n : ord[i] = x
    BY DEF Chain
  <2>3. ASSUME NEW i \in 1 .. n - 1, o[i] = x PROVE R.left[x] # Nil
    BY <1>1, <1>2, <1>3, <2>1, <2>2, <2>3
  <2>4. ASSUME R.left[x] # Nil PROVE \E i \in 1 .. n - 1 : o[i] = x
    <3>1. PICK j \in 1 .. n : ord[j] = x /\ j # k
      BY <2>1, <2>2, <2>4, <1>3
    <3>2. CASE j < k
      <4>1. j \in 1 .. n - 1 /\ f(j) = j
        BY <3>2
      <4> QED BY <4>1, <3>1, <1>2
    <3>3. CASE j > k
      <4>1. j - 1 \in 1 .. n - 1 /\ f(j - 1) = j
        BY <3>3
      <4> QED BY <4>1, <3>1, <1>2
    <3> QED BY <3>1, <3>2, <3>3
  <2> QED BY <2>3, <2>4
<1>8. ASSUME NEW i \in 1 .. n - 1
      PROVE  R.next[o[i]] = IF i = n - 1 THEN Nil ELSE o[i + 1]
  <2>1. o[i] \in Slots /\ o[i] # s /\ o[i] = ord[f(i)]
    BY <1>1, <1>2, <1>3
  <2>2. R.next[o[i]] = IF o[i] = P.prev[s] THEN P.next[s] ELSE P.next[o[i]]
    BY <2>1
  <2>3. P.next[o[i]] = IF f(i) = n THEN Nil ELSE ord[f(i) + 1]
    BY <2>1, <1>1 DEF Chain
  <2>4. CASE i = k - 1
    <3>1. f(i) = i /\ k # 1 /\ k - 1 \in 1 .. n /\ (k = n <=> i = n - 1)
      BY <2>4
    <3>2. R.next[o[i]] = IF k = n THEN Nil ELSE ord[k + 1]
      BY <3>1, <2>1, <2>2, <2>4, <1>5
    <3>3. k # n => i + 1 \in 1 .. n - 1 /\ f(i + 1) = k + 1
      BY <2>4
    <3>4. k # n => o[i + 1] = ord[k + 1]
      BY <3>3, <1>2
    <3> QED BY <3>1, <3>2, <3>4
  <2>5. CASE i # k - 1
    <3>1. o[i] # P.prev[s]
      <4>1. CASE k = 1
        BY <4>1, <1>0, <1>5, <2>1
      <4>2. CASE k # 1
        <5>1. k - 1 \in 1 .. n /\ f(i) # k - 1
          BY <4>2, <2>5
        <5> QED BY <5>1, <4>2, <1>1, <1>5, <2>1 DEF Chain
      <4> QED BY <4>1, <4>2
    <3>2. (f(i) = n <=> i = n - 1) /\ (i # n - 1 => i + 1 \in 1 .. n - 1 /\ f(i + 1) = f(i) + 1)
      BY <2>5
    <3>3. i # n - 1 => o[i + 1] = ord[f(i) + 1]
      BY <3>2, <1>2
    <3> QED BY <3>1, <3>2, <3>3, <2>2, <2>3
  <2> QED BY <2>4, <2>5
<1>9. ASSUME NEW i \in 1 .. n - 1
      PROVE  R.prev[o[i]] = IF i = 1 THEN Nil ELSE o[i - 1]
  <2>1. o[i] \in Slots /\ o[i] # s /\ o[i] = ord[f(i)]
    BY <1>1, <1>2, <1>3
  <2>2. R.prev[o[i]] = IF o[i] = P.next[s] THEN P.prev[s] ELSE P.prev[o[i]]
    BY <2>1
  <2>3. P.prev[o[i]] = IF f(i) = 1 THEN Nil ELSE ord[f(i) - 1]
    BY <2>1, <1>1 DEF Chain
  <2>4. CASE i = k
    <3>1. f(i) = k + 1 /\ k # n /\ k + 1 \in 1 .. n
      BY <2>4
    <3>2. R.prev[o[i]] = IF k = 1 THEN Nil ELSE ord[k - 1]
      BY <3>1, <2>1, <2>2, <1>5
    <3>3. k # 1 => i - 1 \in 1 .. n - 1 /\ f(i - 1) = k - 1
      BY <2>4
    <3>4. k # 1 => o[i - 1] = ord[k - 1]
      BY <3>3, <1>2
    <3> QED BY <3>2, <3>4, <2>4
  <2>5. CASE i # k
    <3>1. o[i] # P.next[s]
      <4>1. CASE k = n
        BY <4>1, <1>0, <1>5, <2>1
      <4>2. CASE k # n
        <5>1. k + 1 \in 1 .. n /\ f(i) # k + 1
          BY <4>2, <2>5
        <5> QED BY <5>1, <4>2, <1>1, <1>5, <2>1 DEF Chain
      <4> QED BY <4>1, <4>2
    <3>2. (f(i) = 1 <=> i = 1) /\ (i # 1 => i - 1 \in 1 .. n - 1 /\ f(i - 1) = f(i) - 1)
      BY <2>5
    <3>3. i # 1 => o[i - 1] = ord[f(i) - 1]
      BY <3>2, <1>2
    <3> QED BY <3>1, <3>2, <3>3, <2>2, <2>3
  <2> QED BY <2>4, <2>5
<1>10. \A i, j \in 1 .. n - 1 : i <= j => R.left[o[i]] <= R.left[o[j]]
  <2> TAKE i, j \in 1 .. n - 1
  <2>1. i <= j => f(i) <= f(j)
    OBVIOUS
  <2>2. R.left[o[i]] = P.left[ord[f(i)]] /\ R.left[o[j]] = P.left[ord[f(j)]]
    BY <1>1, <1>2, <1>4
  <2>3. f(i) <= f(j) => P.left[ord[f(i)]] <= P.left[ord[f(j)]]
    BY <1>1 DEF Chain
  <2> QED BY <2>1, <2>2, <2>3
<1>11. R.start = IF n - 1 = 0 THEN Nil ELSE o[1]
  <2>1. P.start = ord[1] /\ 1 \in 1 .. n /\ (P.start = s <=> k = 1)
    BY <1>3 DEF Chain
  <2>2. n - 1 # 0 => 1 \in 1 .. n - 1 /\ o[1] = ord[f(1)]
    BY <1>2
  <2>3. CASE k = 1
    <3>1. f(1) = 2 /\ (k = n <=> n - 1 = 0)
      BY <2>3
    <3> QED BY <3>1, <2>1, <2>2, <2>3, <1>5
  <2>4. CASE k # 1
    <3>1. f(1) = 1 /\ n - 1 # 0
      BY <2>4
    <3> QED BY <3>1, <2>1, <2>2, <2>4
  <2> QED BY <2>3, <2>4
<1>12. R.end = IF n - 1 = 0 THEN Nil ELSE o[n - 1]
  <2>1. P.end = ord[n] /\ n \in 1 .. n /\ (P.end = s <=> k = n)
    BY <1>3 DEF Chain
  <2>2. n - 1 # 0 => n - 1 \in 1 .. n - 1 /\ o[n - 1] = ord[f(n - 1)]
    BY <1>2
  <2>3. CASE k = n
    <3>1. (n - 1 # 0 => f(n - 1) = n - 1) /\ (k = 1 <=> n - 1 = 0)
      BY <2>3
    <3> QED BY <3>1, <2>1, <2>2, <2>3, <1>5
  <2>4. CASE k # n
    <3>1. f(n - 1) = n /\ n - 1 # 0
      BY <2>4
    <3> QED BY <3>1, <2>1, <2>2, <2>4
  <2> QED BY <2>3, <2>4
<1>13. \A x \in Slots : R.left[x] = Nil => R.next[x] = Nil /\ R.prev[x] = Nil
  <2> TAKE x \in Slots
  <2>1. CASE x = s
    BY <2>1
  <2>2. CASE x # s
    <3>1. R.left[x] = P.left[x]
      BY <2>2 DEF Fields
    <3>2. ASSUME P.left[x] = Nil PROVE x # P.prev[s] /\ x # P.next[s]
      <4>1. \A i \in 1 .. n : ord[i] # x
        BY <3>2 DEF Chain
      <4>2. (k # 1 => k - 1 \in 1 .. n) /\ (k # n => k + 1 \in 1 .. n)
        OBVIOUS
      <4> QED BY <4>1, <4>2, <1>0, <1>5
    <3> QED BY <3>1, <3>2, <2>2 DEF Chain
  <2> QED BY <2>1, <2>2
<1> HIDE DEF o, f
<1>14. Chain(R, n - 1, o)
  BY <1>0, <1>2, <1>6, <1>7, <1>8, <1>9, <1>10, <1>11, <1>12, <1>13 DEF Chain
<1> QED BY <1>0, <1>2, <1>14, ChainTimers

(* The slot at k, or nothing: what comes before and after a place in the list. *)
Before(ord, k) == IF k = 0 THEN Nil ELSE ord[k]
After(n, ord, k) == IF k = n THEN Nil ELSE ord[k + 1]

(* k is the last place of the list that is due before ms.                     *)
Place(P, n, ord, ms, k) ==
  /\ \A i \in 1 .. n : i <= k => P.left[ord[i]] < ms
  /\ \A i \in 1 .. n : i > k => P.left[ord[i]] >= ms

(* R has the timers of P and that of s, between p and q.                      *)
TimerInserted(P, R, s, ms, p, q) ==
  /\ R.next = [x \in Slots |-> IF x = s THEN q ELSE IF x = p THEN s ELSE P.next[x]]
  /\ R.prev = [x \in Slots |-> IF x = s THEN p ELSE IF x = q THEN s ELSE P.prev[x]]
  /\ R.start = IF P.start = Nil \/ q = P.start THEN s ELSE P.start
  /\ R.end = IF P.end = Nil \/ p = P.end THEN s ELSE P.end
  /\ R.left = [P.left EXCEPT ![s] = ms]

(* The slot is put between two neighbours of the list.                        *)
LEMMA ChainInsert ==
  ASSUME NEW P, NEW R, NEW n \in Nat, NEW ord \in [1 .. n -> Slots], Chain(P, n, ord), Fields(P),
         NEW k \in 0 .. n, NEW s \in Slots, P.left[s] = Nil, NEW ms \in Nat,
         Place(P, n, ord, ms, k),
         TimerInserted(P, R, s, ms, Before(ord, k), After(n, ord, k))
  PROVE  Timers(R)
<1> PICK p : p = Before(ord, k)
  OBVIOUS
<1> PICK q : q = After(n, ord, k)
  OBVIOUS
<1>l. \A i \in 1 .. n : P.left[ord[i]] \in Nat
  BY DEF Chain, Fields, Nil
<1>p. \A i \in 1 .. n : i <= k => P.left[ord[i]] <= ms
  BY <1>l DEF Place
<1>r. /\ p = IF k = 0 THEN Nil ELSE ord[k]
      /\ q = IF k = n THEN Nil ELSE ord[k + 1]
      /\ \A i \in 1 .. n : i > k => P.left[ord[i]] >= ms
      /\ R.next = [x \in Slots |-> IF x = s THEN q ELSE IF x = p THEN s ELSE P.next[x]]
      /\ R.prev = [x \in Slots |-> IF x = s THEN p ELSE IF x = q THEN s ELSE P.prev[x]]
      /\ R.start = IF P.start = Nil \/ q = P.start THEN s ELSE P.start
      /\ R.end = IF P.end = Nil \/ p = P.end THEN s ELSE P.end
      /\ R.left = [P.left EXCEPT ![s] = ms]
  BY DEF TimerInserted, Place, Before, After
<1> USE <1>p, <1>r
<1> DEFINE o == [i \in 1 .. n + 1 |-> IF i <= k THEN ord[i]
                                     ELSE IF i = k + 1 THEN s ELSE ord[i - 1]]
<1>0. n + 1 \in Nat /\ \A x \in Slots : x # Nil
  BY DEF Slots, Nil
<1>1. /\ \A i \in 1 .. k : o[i] = ord[i] /\ i \in 1 .. n /\ i \in 1 .. n + 1
      /\ k + 1 \in 1 .. n + 1 /\ o[k + 1] = s
      /\ \A i \in k + 1 .. n : o[i + 1] = ord[i] /\ i \in 1 .. n /\ i + 1 \in 1 .. n + 1
  OBVIOUS
<1>2. o \in [1 .. n + 1 -> Slots]
  OBVIOUS
<1>3. \A i \in 1 .. n : ord[i] # s
  BY DEF Chain
<1>4. /\ \A i \in 1 .. n : R.left[ord[i]] = P.left[ord[i]] /\ P.left[ord[i]] \in Nat
      /\ R.left[s] = ms
  BY <1>3 DEF Fields, Chain, Nil
<1>5. \A i \in 1 .. n + 1 : i \in 1 .. k \/ i = k + 1 \/ i - 1 \in k + 1 .. n
  OBVIOUS
<1> HIDE DEF o
<1>6. \A i, j \in 1 .. n + 1 : o[i] = o[j] => i = j
  <2>1. \A i \in 1 .. k, j \in 1 .. k : o[i] = o[j] => i = j
    BY <1>1 DEF Chain
  <2>2. \A i \in k + 1 .. n, j \in k + 1 .. n : o[i + 1] = o[j + 1] => i = j
    <3> TAKE i \in k + 1 .. n, j \in k + 1 .. n
    <3>1. o[i + 1] = ord[i] /\ o[j + 1] = ord[j] /\ i \in 1 .. n /\ j \in 1 .. n
      BY <1>1
    <3>2. ord[i] = ord[j] => i = j
      BY <3>1 DEF Chain
    <3> QED BY <3>1, <3>2
  <2>3. \A i \in 1 .. k, j \in k + 1 .. n : o[i] # o[j + 1]
    <3> TAKE i \in 1 .. k, j \in k + 1 .. n
    <3>1. i # j /\ o[i] = ord[i] /\ o[j + 1] = ord[j] /\ i \in 1 .. n /\ j \in 1 .. n
      BY <1>1
    <3> QED BY <3>1 DEF Chain
  <2>4. /\ \A i \in 1 .. k : o[i] # o[k + 1]
        /\ \A i \in k + 1 .. n : o[i + 1] # o[k + 1]
    <3>1. ASSUME NEW i \in 1 .. k PROVE o[i] # o[k + 1]
      <4>1. o[i] = ord[i] /\ i \in 1 .. n
        BY <1>1
      <4> QED BY <4>1, <1>1, <1>3
    <3>2. ASSUME NEW i \in k + 1 .. n PROVE o[i + 1] # o[k + 1]
      <4>1. o[i + 1] = ord[i] /\ i \in 1 .. n
        BY <1>1
      <4> QED BY <4>1, <1>1, <1>3
    <3> QED BY <3>1, <3>2
  <2> TAKE i, j \in 1 .. n + 1
  <2>5. CASE i \in 1 .. k
    <3>1. CASE j \in 1 .. k
      BY <2>5, <3>1, <2>1
    <3>2. CASE j = k + 1
      BY <2>5, <3>2, <2>4
    <3>3. CASE j - 1 \in k + 1 .. n
      <4>1. j = (j - 1) + 1
        OBVIOUS
      <4> QED BY <4>1, <3>3, <2>5, <2>3
    <3> QED BY <3>1, <3>2, <3>3, <1>5
  <2>6. CASE i = k + 1
    BY <2>6, <2>4, <1>5
  <2>7. CASE i - 1 \in k + 1 .. n
    <3>1. i = (i - 1) + 1
      OBVIOUS
    <3>2. CASE j \in 1 .. k
      BY <3>1, <3>2, <2>7, <2>3
    <3>3. CASE j = k + 1
      BY <3>1, <3>3, <2>7, <2>4
    <3>4. CASE j - 1 \in k + 1 .. n
      <4>1. j = (j - 1) + 1
        OBVIOUS
      <4>2. o[i] = o[j] => i - 1 = j - 1
        BY <3>1, <4>1, <3>4, <2>7, <2>2
      <4> QED BY <4>2
    <3> QED BY <3>2, <3>3, <3>4, <1>5
  <2> QED BY <2>5, <2>6, <2>7, <1>5
<1>7. \A x \in Slots : R.left[x] # Nil <=> \E i \in 1 .. n + 1 : o[i] = x
  <2> TAKE x \in Slots
  <2>1. R.left[x] # Nil <=> x = s \/ P.left[x] # Nil
    BY DEF Fields, Nil
  <2>2. P.left[x] # Nil <=> \E i \in 1 .. n : ord[i] = x
    BY DEF Chain
  <2>3. ASSUME NEW i \in 1 .. n + 1, o[i] = x PROVE R.left[x] # Nil
    <3>1. o[i] = s \/ \E j \in 1 .. n : ord[j] = o[i]
      <4>1. CASE i \in 1 .. k
        BY <4>1, <1>1
      <4>2. CASE i - 1 \in k + 1 .. n
        <5>1. o[(i - 1) + 1] = ord[i - 1] /\ i - 1 \in 1 .. n /\ (i - 1) + 1 = i
          BY <4>2, <1>1
        <5> QED BY <5>1
      <4> QED BY <4>1, <4>2, <1>1, <1>5
    <3>2. P.left[x] # Nil <=> \E j \in 1 .. n : ord[j] = x
      BY <2>2
    <3> QED BY <3>1, <3>2, <2>1, <2>3
  <2>4. ASSUME R.left[x] # Nil PROVE \E i \in 1 .. n + 1 : o[i] = x
    <3>1. CASE x = s
      BY <1>1, <3>1
    <3>2. CASE x # s
      <4>1. PICK j \in 1 .. n : ord[j] = x
        BY <2>1, <2>2, <2>4, <3>2
      <4>2. j \in 1 .. k \/ j \in k + 1 .. n
        OBVIOUS
      <4> QED BY <4>1, <4>2, <1>1
    <3> QED BY <3>1, <3>2
  <2> QED BY <2>3, <2>4
<1>8. ASSUME NEW i \in 1 .. n + 1
      PROVE  R.next[o[i]] = IF i = n + 1 THEN Nil ELSE o[i + 1]
  <2>1. CASE i \in 1 .. k
    <3>1. o[i] = ord[i] /\ i \in 1 .. n /\ ord[i] # s /\ ord[i] \in Slots /\ i # n + 1 /\ p = ord[k]
      BY <2>1, <1>1, <1>3
    <3>2. R.next[ord[i]] = IF ord[i] = p THEN s ELSE P.next[ord[i]]
      BY <3>1
    <3>3. CASE i = k
      BY <3>1, <3>2, <3>3, <1>1
    <3>4. CASE i # k
      <4>1. i + 1 \in 1 .. k /\ i # n /\ k \in 1 .. n
        BY <2>1, <3>4
      <4>2. ord[i] # p /\ P.next[ord[i]] = ord[i + 1]
        BY <3>1, <3>4, <4>1 DEF Chain
      <4> QED BY <3>1, <3>2, <4>1, <4>2, <1>1
    <3> QED BY <3>3, <3>4
  <2>2. CASE i = k + 1
    <3>1. k # n => k + 1 \in k + 1 .. n
      OBVIOUS
    <3>2. k # n => o[(k + 1) + 1] = ord[k + 1]
      BY <3>1, <1>1
    <3>3. o[i] = s /\ R.next[s] = q /\ (i = n + 1 <=> k = n)
      BY <1>1, <2>2
    <3> QED BY <2>2, <3>2, <3>3
  <2>3. CASE i - 1 \in k + 1 .. n
    <3> DEFINE j == i - 1
    <3>1. j \in 1 .. n /\ o[i] = ord[j] /\ ord[j] # s /\ ord[j] \in Slots /\ j # k /\ j > k
      <4>1. o[j + 1] = ord[j] /\ j \in 1 .. n /\ j # k /\ j > k /\ j + 1 = i
        BY <2>3, <1>1
      <4> QED BY <4>1, <1>3
    <3>2. ord[j] # p
      <4>1. k # 0 => k \in 1 .. n
        OBVIOUS
      <4> QED BY <3>1, <4>1, <1>0 DEF Chain
    <3>3. R.next[ord[j]] = P.next[ord[j]] /\ P.next[ord[j]] = IF j = n THEN Nil ELSE ord[j + 1]
      BY <3>1, <3>2 DEF Chain
    <3>4. i = n + 1 <=> j = n
      OBVIOUS
    <3>5. j # n => o[i + 1] = ord[j + 1]
      <4>1. j # n => i \in k + 1 .. n
        BY <2>3
      <4>2. i = j + 1
        OBVIOUS
      <4> QED BY <4>1, <4>2, <1>1
    <3> QED BY <3>1, <3>3, <3>4, <3>5
  <2> QED BY <2>1, <2>2, <2>3, <1>5
<1>9. ASSUME NEW i \in 1 .. n + 1
      PROVE  R.prev[o[i]] = IF i = 1 THEN Nil ELSE o[i - 1]
  <2>1. CASE i \in 1 .. k
    <3>1. o[i] = ord[i] /\ i \in 1 .. n /\ ord[i] # s /\ ord[i] \in Slots
      BY <2>1, <1>1, <1>3
    <3>2. ord[i] # q
      <4>1. (k # n => k + 1 \in 1 .. n) /\ i # k + 1
        BY <2>1
      <4> QED BY <3>1, <4>1, <1>0 DEF Chain
    <3>3. R.prev[ord[i]] = P.prev[ord[i]] /\ P.prev[ord[i]] = IF i = 1 THEN Nil ELSE ord[i - 1]
      BY <3>1, <3>2 DEF Chain
    <3>4. i # 1 => i - 1 \in 1 .. k
      BY <2>1
    <3> QED BY <3>1, <3>3, <3>4, <1>1
  <2>2. CASE i = k + 1
    <3>1. k # 0 => k \in 1 .. k
      OBVIOUS
    <3>2. k # 0 => o[k] = ord[k]
      BY <3>1, <1>1
    <3>3. o[i] = s /\ R.prev[s] = p /\ (i = 1 <=> k = 0) /\ i - 1 = k
      BY <1>1, <2>2
    <3> QED BY <2>2, <3>2, <3>3
  <2>3. CASE i - 1 \in k + 1 .. n
    <3> DEFINE j == i - 1
    <3>1. j \in 1 .. n /\ o[i] = ord[j] /\ ord[j] # s /\ ord[j] \in Slots /\ i # 1
      <4>1. o[j + 1] = ord[j] /\ j \in 1 .. n /\ j + 1 = i /\ i # 1
        BY <2>3, <1>1
      <4> QED BY <4>1, <1>3
    <3>2. R.prev[ord[j]] = IF ord[j] = q THEN s ELSE P.prev[ord[j]]
      BY <3>1
    <3>3. CASE j = k + 1
      <4>1. q = ord[j]
        BY <3>3, <3>1
      <4> QED BY <4>1, <3>1, <3>2, <3>3, <1>1
    <3>4. CASE j # k + 1
      <4>1. (k # n => k + 1 \in 1 .. n) /\ j # 1 /\ j - 1 \in k + 1 .. n /\ (j - 1) + 1 = j
        BY <2>3, <3>4
      <4>2. P.prev[ord[j]] = ord[j - 1]
        BY <3>1, <4>1 DEF Chain
      <4>4. ord[j] # q
        <5>1. CASE k = n
          BY <5>1, <3>1, <1>0
        <5>2. CASE k # n
          <6>1. k + 1 \in 1 .. n
            BY <4>1, <5>2
          <6>2. ord[j] # ord[k + 1]
            BY <3>1, <3>4, <6>1 DEF Chain
          <6> QED BY <5>2, <6>2
        <5> QED BY <5>1, <5>2
      <4>3. o[j] = ord[j - 1]
        BY <4>1, <1>1
      <4> QED BY <3>1, <3>2, <4>2, <4>3, <4>4
    <3> QED BY <3>3, <3>4
  <2> QED BY <2>1, <2>2, <2>3, <1>5
<1>10. \A i, j \in 1 .. n + 1 : i <= j => R.left[o[i]] <= R.left[o[j]]
  <2> TAKE i, j \in 1 .. n + 1
  <2> SUFFICES ASSUME i <= j PROVE R.left[o[i]] <= R.left[o[j]]
    OBVIOUS
  <2>1. CASE j \in 1 .. k
    <3>1. i \in 1 .. k
      BY <2>1
    <3>2. o[i] = ord[i] /\ o[j] = ord[j] /\ i \in 1 .. n /\ j \in 1 .. n
      BY <2>1, <3>1, <1>1
    <3> QED BY <3>2, <1>4 DEF Chain
  <2>2. CASE j = k + 1
    <3>1. CASE i \in 1 .. k
      <4>1. i <= k
        BY <3>1
      <4> QED BY <2>2, <3>1, <4>1, <1>1, <1>4
    <3>2. CASE i = j
      BY <3>2, <2>2, <1>1, <1>4
    <3> QED BY <3>1, <3>2, <2>2
  <2>3. CASE j - 1 \in k + 1 .. n
    <3> DEFINE l == j - 1
    <3>1. l \in 1 .. n /\ o[j] = ord[l] /\ l > k
      <4>1. o[l + 1] = ord[l] /\ l \in 1 .. n /\ l + 1 = j /\ l > k
        BY <2>3, <1>1
      <4> QED BY <4>1
    <3>2. CASE i \in 1 .. k
      <4>1. i <= l
        BY <3>2, <3>1
      <4> QED BY <4>1, <3>1, <3>2, <1>1, <1>4 DEF Chain
    <3>3. CASE i = k + 1
      BY <3>3, <3>1, <1>1, <1>4
    <3>4. CASE i - 1 \in k + 1 .. n
      <4>1. o[(i - 1) + 1] = ord[i - 1] /\ i - 1 \in 1 .. n /\ (i - 1) + 1 = i /\ i - 1 <= l
        BY <3>4, <1>1
      <4> QED BY <4>1, <3>1, <1>4 DEF Chain
    <3> QED BY <3>2, <3>3, <3>4, <1>5
  <2> QED BY <2>1, <2>2, <2>3, <1>5
<1>11. R.start = IF n + 1 = 0 THEN Nil ELSE o[1]
  <2>1. P.start = IF n = 0 THEN Nil ELSE ord[1]
    BY DEF Chain
  <2>2. CASE k = 0
    <3>1. o[1] = s
      BY <2>2, <1>1
    <3>2. P.start = Nil \/ q = P.start
      BY <2>1, <2>2
    <3> QED BY <3>1, <3>2
  <2>3. CASE k # 0
    <3>1. 1 \in 1 .. k /\ 1 \in 1 .. n /\ n # 0 /\ (k # n => k + 1 \in 1 .. n) /\ k + 1 # 1
      BY <2>3
    <3>2. o[1] = ord[1] /\ P.start = ord[1]
      BY <3>1, <1>1, <2>1
    <3>3. P.start # Nil /\ q # P.start
      BY <3>1, <3>2, <1>0 DEF Chain
    <3> QED BY <3>2, <3>3
  <2> QED BY <2>2, <2>3
<1>12. R.end = IF n + 1 = 0 THEN Nil ELSE o[n + 1]
  <2>1. P.end = IF n = 0 THEN Nil ELSE ord[n]
    BY DEF Chain
  <2>2. CASE k = n
    <3>1. o[n + 1] = s
      BY <2>2, <1>1
    <3>2. P.end = Nil \/ p = P.end
      BY <2>1, <2>2
    <3> QED BY <3>1, <3>2
  <2>3. CASE k # n
    <3>1. n \in k + 1 .. n /\ n \in 1 .. n /\ n # 0 /\ (k # 0 => k \in 1 .. n)
      BY <2>3
    <3>2. o[n + 1] = ord[n] /\ P.end = ord[n]
      BY <3>1, <1>1, <2>1
    <3>3. P.end # Nil /\ p # P.end
      BY <2>3, <3>1, <3>2, <1>0 DEF Chain
    <3> QED BY <3>2, <3>3
  <2> QED BY <2>2, <2>3
<1>13. \A x \in Slots : R.left[x] = Nil => R.next[x] = Nil /\ R.prev[x] = Nil
  <2> TAKE x \in Slots
  <2>1. CASE x = s
    BY <2>1, <1>4 DEF Nil
  <2>2. CASE x # s
    <3>1. R.left[x] = P.left[x]
      BY <2>2 DEF Fields
    <3>2. ASSUME P.left[x] = Nil PROVE x # p /\ x # q
      <4>1. \A i \in 1 .. n : ord[i] # x
        BY <3>2 DEF Chain
      <4>2. (k # 0 => k \in 1 .. n) /\ (k # n => k + 1 \in 1 .. n)
        OBVIOUS
      <4> QED BY <4>1, <4>2, <1>0
    <3> QED BY <3>1, <3>2, <2>2 DEF Chain
  <2> QED BY <2>1, <2>2
<1>14. Chain(R, n + 1, o)
  BY <1>0, <1>2, <1>6, <1>7, <1>8, <1>9, <1>10, <1>11, <1>12, <1>13 DEF Chain
<1> QED BY <1>0, <1>2, <1>14, ChainTimers

(* A set of numbers that is not empty has a least one.                        *)
LEMMA LeastMember ==
  ASSUME NEW S \in SUBSET Nat, S # {}
  PROVE  \E m \in S : \A i \in S : m <= i
<1> DEFINE R == StrictSubsetOrdering(Nat)
           T == {0 .. i : i \in S}
<1>1. IsWellFoundedOn(R, FiniteSubsetsOf(Nat))
  BY FS_StrictSubsetOrderingWellFounded
<1>2. T \subseteq FiniteSubsetsOf(Nat) /\ T # {}
  <2>1. \A i \in S : 0 .. i \in SUBSET Nat /\ IsFiniteSet(0 .. i)
    BY FS_Interval
  <2> QED BY <2>1 DEF FiniteSubsetsOf
<1>3. \E x \in T : \A y \in T : ~(<<y, x>> \in R)
  <2> HIDE DEF R, T
  <2> QED BY <1>1, <1>2, WFMin
<1>4. PICK m \in S : \A y \in T : ~(<<y, 0 .. m>> \in R)
  BY <1>3
<1>5. ASSUME NEW y \in S PROVE m <= y
  <2> SUFFICES ASSUME y < m PROVE FALSE
    OBVIOUS
  <2>1. m \in 0 .. m /\ m \notin 0 .. y
    OBVIOUS
  <2>2. 0 .. y \in SUBSET Nat /\ 0 .. m \in SUBSET Nat /\ 0 .. y \subseteq 0 .. m /\ 0 .. y # 0 .. m
    BY <2>1
  <2>3. <<0 .. y, 0 .. m>> \in R
    BY <2>2 DEF StrictSubsetOrdering
  <2> QED BY <1>4, <2>3
<1> QED BY <1>5

(* Where a new timer belongs: behind the last one that is due before it.      *)
LEMMA PlaceExists ==
  ASSUME NEW P, NEW n \in Nat, NEW ord \in [1 .. n -> Slots], Chain(P, n, ord), Fields(P),
         NEW ms \in Nat
  PROVE  \E k \in 0 .. n : Place(P, n, ord, ms, k)
<1> DEFINE S == {k \in 0 .. n : \A i \in 1 .. n : i > k => P.left[ord[i]] >= ms}
<1>1. n \in S /\ S \in SUBSET Nat
  OBVIOUS
<1>2. PICK k \in S : \A i \in S : k <= i
  <2> HIDE DEF S
  <2> QED BY <1>1, LeastMember
<1>3. \A i \in 1 .. n : P.left[ord[i]] \in Nat
  BY DEF Chain, Fields, Nil
<1>4. ASSUME k # 0 PROVE P.left[ord[k]] < ms
  <2> SUFFICES ASSUME ~(P.left[ord[k]] < ms) PROVE FALSE
    OBVIOUS
  <2>1. k \in 1 .. n /\ k - 1 \in 0 .. n /\ ~(k <= k - 1)
    BY <1>4
  <2>2. \A i \in 1 .. n : i > k - 1 => i = k \/ i > k
    BY <2>1
  <2>3. P.left[ord[k]] >= ms
    BY <1>3, <2>1
  <2>4. k - 1 \in S
    BY <2>1, <2>2, <2>3
  <2> QED BY <1>2, <2>1, <2>4
<1>5. ASSUME NEW i \in 1 .. n, i <= k PROVE P.left[ord[i]] < ms
  <2>1. k \in 1 .. n /\ k # 0
    BY <1>5
  <2>2. P.left[ord[i]] <= P.left[ord[k]]
    BY <1>5, <2>1 DEF Chain
  <2>3. P.left[ord[i]] \in Nat /\ P.left[ord[k]] \in Nat /\ P.left[ord[k]] < ms
    BY <1>3, <1>4, <2>1
  <2> QED BY <2>2, <2>3
<1>6. k \in 0 .. n /\ \A i \in 1 .. n : i > k => P.left[ord[i]] >= ms
  OBVIOUS
<1> QED BY <1>5, <1>6 DEF Place

(* What set_timer finds on its way from tv_end.                               *)
LEMMA InsertionPointIs ==
  ASSUME NEW P, NEW n \in 0 .. Max, NEW ord \in [1 .. n -> Slots], Chain(P, n, ord), Fields(P),
         NEW ms \in Nat, NEW k \in 0 .. n, Place(P, n, ord, ms, k)
  PROVE  InsertionPoint(P, ms) = <<Before(ord, k), After(n, ord, k)>>
<1> DEFINE Step(e) == IF e[1] # Nil /\ P.left[e[1]] >= ms THEN <<P.prev[e[1]], e[1]>> ELSE e
           Eq(h) == h = [i \in 0 .. Max |-> IF i = 0 THEN <<P.end, Nil>> ELSE Step(h[i - 1])]
           at == CHOOSE h : Eq(h)
           pos(i) == IF n - i >= k THEN n - i ELSE k
           Between(j) == <<IF j = 0 THEN Nil ELSE ord[j], IF j = n THEN Nil ELSE ord[j + 1]>>
           w == [i \in 0 .. Max |-> Between(pos(i))]
<1>0. n \in Nat /\ Max \in Nat /\ \A x \in Slots : x # Nil
  BY MaxAssumption DEF Slots, Nil
<1>p. /\ \A i \in 1 .. n : i <= k => P.left[ord[i]] < ms
      /\ \A i \in 1 .. n : i > k => P.left[ord[i]] >= ms
  BY DEF Place
<1>1. InsertionPoint(P, ms) = at[Max]
  BY DEF InsertionPoint
<1>2. \A j \in 0 .. n : Step(Between(j)) = IF j > k THEN Between(j - 1) ELSE Between(j)
  <2> TAKE j \in 0 .. n
  <2>1. CASE j > k
    <3>1. j \in 1 .. n /\ j # 0 /\ j - 1 # n /\ (j - 1) + 1 = j /\ (j - 1 = 0 <=> j = 1)
      BY <2>1, <1>0
    <3>2. ord[j] \in Slots /\ ord[j] # Nil /\ P.left[ord[j]] >= ms
          /\ P.prev[ord[j]] = IF j = 1 THEN Nil ELSE ord[j - 1]
      BY <2>1, <3>1, <1>0, <1>p DEF Chain
    <3>3. Between(j)[1] = ord[j]
      BY <3>1
    <3>4. Step(Between(j)) = <<P.prev[ord[j]], ord[j]>>
      BY <3>2, <3>3
    <3> QED BY <2>1, <3>1, <3>2, <3>4
  <2>2. CASE ~(j > k)
    <3>1. CASE j = 0
      BY <2>2, <3>1
    <3>2. CASE j # 0
      <4>1. j \in 1 .. n /\ j <= k
        BY <2>2, <3>2, <1>0
      <4>2. P.left[ord[j]] < ms /\ P.left[ord[j]] \in Nat
        BY <4>1, <1>p DEF Chain, Fields, Nil
      <4>3. ~(P.left[ord[j]] >= ms) /\ Between(j)[1] = ord[j]
        BY <3>2, <4>2
      <4> QED BY <2>2, <4>3
    <3> QED BY <3>1, <3>2
  <2> QED BY <2>1, <2>2
<1>3. /\ pos(0) = n /\ pos(Max) = k
      /\ \A i \in 0 .. Max : pos(i) \in 0 .. n
      /\ \A i \in 1 .. Max : pos(i) = IF pos(i - 1) > k THEN pos(i - 1) - 1 ELSE pos(i - 1)
  BY <1>0
<1>4. Between(n) = <<P.end, Nil>>
  BY DEF Chain
<1> HIDE DEF Step, Between, pos
<1>5. /\ w[0] = <<P.end, Nil>>
      /\ \A i \in 1 .. Max : i - 1 \in 0 .. Max /\ w[i] = Step(w[i - 1])
      /\ w[Max] = Between(k)
  <2>1. /\ 0 \in 0 .. Max /\ Max \in 0 .. Max
        /\ \A i \in 1 .. Max : i \in 0 .. Max /\ i - 1 \in 0 .. Max
    BY <1>0
  <2>2. ASSUME NEW i \in 1 .. Max PROVE w[i] = Step(w[i - 1])
    <3>1. w[i] = Between(pos(i)) /\ w[i - 1] = Between(pos(i - 1)) /\ pos(i - 1) \in 0 .. n
      BY <2>1, <1>3
    <3> QED BY <3>1, <1>2, <1>3
  <2> QED BY <2>1, <2>2, <1>3, <1>4
<1>6. Eq(w)
  <2>1. \A i \in 0 .. Max : w[i] = IF i = 0 THEN <<P.end, Nil>> ELSE Step(w[i - 1])
    <3> TAKE i \in 0 .. Max
    <3>1. i # 0 => i \in 1 .. Max
      OBVIOUS
    <3> QED BY <3>1, <1>5
  <2>2. w = [i \in 0 .. Max |-> w[i]]
    OBVIOUS
  <2> HIDE DEF w
  <2> QED BY <2>1, <2>2
<1>7. Eq(at)
  <2> HIDE DEF Eq, w
  <2> QED BY <1>6
<1>8. \A i \in 0 .. Max : at[i] = w[i]
  <2> DEFINE Bad == {i \in 0 .. Max : at[i] # w[i]}
  <2> HIDE DEF at
  <2>1. at[0] = w[0] /\ \A i \in 1 .. Max : at[i] = Step(at[i - 1])
    <3>1. \A i \in 0 .. Max : at[i] = IF i = 0 THEN <<P.end, Nil>> ELSE Step(at[i - 1])
      BY <1>7
    <3>2. 0 \in 0 .. Max /\ \A i \in 1 .. Max : i \in 0 .. Max /\ i # 0
      BY <1>0
    <3> HIDE DEF w
    <3> QED BY <3>1, <3>2, <1>5
  <2> HIDE DEF w
  <2> SUFFICES ASSUME Bad # {} PROVE FALSE
    OBVIOUS
  <2>2. PICK m \in Bad : \A i \in Bad : m <= i
    <3>1. Bad \in SUBSET Nat
      BY <1>0
    <3> QED BY <3>1, LeastMember
  <2>3. m \in 1 .. Max /\ m - 1 \in 0 .. Max /\ ~(m <= m - 1)
    BY <2>1, <1>0
  <2>4. at[m - 1] = w[m - 1]
    BY <2>2, <2>3
  <2> QED BY <2>1, <2>3, <2>4, <1>5
<1>9. at[Max] = Between(k)
  <2>1. Max \in 0 .. Max
    BY <1>0
  <2> HIDE DEF at, w
  <2> QED BY <2>1, <1>5, <1>8
<1> QED BY <1>1, <1>9 DEF Between, Before, After
-----------------------------------------------------------------------------
(* What the operations on the pool do to its fields.                          *)

(* Q differs from P in the timers only.                                       *)
Alike(P, Q) ==
  /\ Q.links = P.links /\ Q.count = P.count /\ Q.live = P.live /\ Q.touched = P.touched
  /\ Q.died = P.died /\ Q.open = P.open /\ Q.index = P.index /\ Q.cb = P.cb
  /\ Q.pair = P.pair /\ Q.conn = P.conn

(* Q has the timers of P.                                                     *)
SameTimers(P, Q) ==
  /\ Q.left = P.left /\ Q.next = P.next /\ Q.prev = P.prev
  /\ Q.start = P.start /\ Q.end = P.end

LEMMA SameTimersChain ==
  ASSUME NEW P, NEW Q, SameTimers(P, Q)
  PROVE  /\ Timers(P) => Timers(Q)
         /\ ArmedIn(Q) = ArmedIn(P)
  BY DEF SameTimers, Timers, Chain, ArmedIn

LEMMA RemoveTimerFields ==
  ASSUME NEW P, NEW s, Rec(P)
  PROVE  LET R == RemoveTimer(P, s) IN
         Rec(R) /\ Alike(P, R) /\ TimerRemoved(P, R, s)
  BY DEF Rec, Alike, RemoveTimer, TimerRemoved

LEMMA RemoveTimerBase ==
  ASSUME NEW P, NEW s \in Slots, Base(P)
  PROVE  LET R == RemoveTimer(P, s) IN
         /\ Base(R) /\ Alike(P, R)
         /\ ArmedIn(R) = ArmedIn(P) \ {s}
<1> DEFINE R == RemoveTimer(P, s)
<1>t. Rec(R) /\ Alike(P, R) /\ TimerRemoved(P, R, s)
  BY RemoveTimerFields DEF Base
<1>1. /\ Rec(R) /\ Alike(P, R)
      /\ R.next = [x \in Slots |-> IF x = s THEN Nil ELSE IF x = P.prev[s] THEN P.next[s]
                                   ELSE P.next[x]]
      /\ R.prev = [x \in Slots |-> IF x = s THEN Nil ELSE IF x = P.next[s] THEN P.prev[s]
                                   ELSE P.prev[x]]
      /\ R.start = IF P.start = s THEN P.next[s] ELSE P.start
      /\ R.end = IF P.end = s THEN P.prev[s] ELSE P.end
      /\ R.left = [P.left EXCEPT ![s] = Nil]
  BY <1>t DEF TimerRemoved
<1> HIDE DEF R
<1>0. \A x \in Slots : x # Nil
  BY DEF Slots, Nil
<1>2. Fields(P) /\ Links(P)
  BY DEF Base
<1>3. P.next[s] \in Slots \cup {Nil} /\ P.prev[s] \in Slots \cup {Nil}
  BY <1>2 DEF Fields
<1>4. Fields(R) /\ Links(R)
  <2>1. Typed(R) /\ Links(R)
    BY <1>1, <1>2 DEF Fields, Typed, Links, Alike
  <2>2. R.touched \subseteq Slots /\ R.died \subseteq Slots /\ R.conn \subseteq Slots
        /\ R.open \in Int /\ R.cb \in [Slots -> Callbacks]
        /\ R.pair \in [Slots -> Slots \cup {Nil}]
    BY <1>1, <1>2 DEF Fields, Alike
  <2>3. R.next \in [Slots -> Slots \cup {Nil}] /\ R.prev \in [Slots -> Slots \cup {Nil}]
    BY <1>1, <1>2, <1>3 DEF Fields
  <2>4. R.left \in [Slots -> Nat \cup {Nil}]
    BY <1>1, <1>2 DEF Fields
  <2>5. R.start \in Slots \cup {Nil} /\ R.end \in Slots \cup {Nil}
    BY <1>1, <1>2, <1>3 DEF Fields
  <2> QED BY <2>1, <2>2, <2>3, <2>4, <2>5 DEF Fields
<1>5. ArmedIn(R) = ArmedIn(P) \ {s}
  BY <1>1, <1>2 DEF ArmedIn, Fields
<1>6. Timers(R)
  <2>1. PICK n \in 0 .. Max : \E ord \in [1 .. n -> Slots] : Chain(P, n, ord)
    BY DEF Base, Timers
  <2> PICK ord \in [1 .. n -> Slots] : Chain(P, n, ord)
    BY <2>1
  <2>2. CASE P.left[s] # Nil
    <3>1. PICK k \in 1 .. n : ord[k] = s
      BY <2>2 DEF Chain
    <3>2. n \in Nat /\ n - 1 \in Nat
      BY <3>1, MaxAssumption
    <3> QED BY <1>t, <1>2, <3>1, <3>2, ChainRemove
  <2>3. CASE P.left[s] = Nil
    <3>1. P.next[s] = Nil /\ P.prev[s] = Nil
      BY <2>3 DEF Chain
    <3>2. P.start # s /\ P.end # s
      <4>1. \A i \in 1 .. n : ord[i] # s
        BY <2>3 DEF Chain
      <4>2. n # 0 => 1 \in 1 .. n /\ n \in 1 .. n
        BY MaxAssumption
      <4> QED BY <4>1, <4>2, <1>0 DEF Chain
    <3>3. SameTimers(P, R)
      <4>1. R.left = P.left
        BY <1>1, <1>2, <2>3 DEF Fields
      <4>2. R.next = P.next
        <5>1. \A x \in Slots : R.next[x] = P.next[x]
          BY <1>0, <1>1, <3>1
        <5>2. R.next = [x \in Slots |-> R.next[x]] /\ P.next = [x \in Slots |-> P.next[x]]
          BY <1>1, <1>2 DEF Fields
        <5> QED BY <5>1, <5>2
      <4>3. R.prev = P.prev
        <5>1. \A x \in Slots : R.prev[x] = P.prev[x]
          BY <1>0, <1>1, <3>1
        <5>2. R.prev = [x \in Slots |-> R.prev[x]] /\ P.prev = [x \in Slots |-> P.prev[x]]
          BY <1>1, <1>2 DEF Fields
        <5> QED BY <5>1, <5>2
      <4> QED BY <1>1, <3>2, <4>1, <4>2, <4>3 DEF SameTimers
    <3> QED BY <3>3, SameTimersChain DEF Base
  <2> QED BY <2>2, <2>3
<1>7. ArmedIn(R) \subseteq R.live
  BY <1>1, <1>5 DEF Base, Alike
<1> QED BY <1>1, <1>4, <1>5, <1>6, <1>7 DEF Base, R

LEMMA SetTimerBase ==
  ASSUME NEW P, NEW s \in Slots, NEW ms \in Nat, Base(P), s \in P.live
  PROVE  LET R == SetTimer(P, s, ms) IN
         /\ Base(R) /\ Alike(P, R)
         /\ ArmedIn(R) = ArmedIn(P) \cup {s}
<1> DEFINE R == SetTimer(P, s, ms)
           p == InsertionPoint(P, ms)[1]
           q == InsertionPoint(P, ms)[2]
<1>1. CASE P.left[s] # Nil
  BY <1>1 DEF SetTimer, ArmedIn, Alike
<1>2. CASE P.left[s] = Nil
  <2>1. /\ Rec(R) /\ Alike(P, R)
        /\ R.next = [x \in Slots |-> IF x = s THEN q ELSE IF x = p THEN s ELSE P.next[x]]
        /\ R.prev = [x \in Slots |-> IF x = s THEN p ELSE IF x = q THEN s ELSE P.prev[x]]
        /\ R.start = IF P.start = Nil \/ q = P.start THEN s ELSE P.start
        /\ R.end = IF P.end = Nil \/ p = P.end THEN s ELSE P.end
        /\ R.left = [P.left EXCEPT ![s] = ms]
    <3> HIDE DEF p, q
    <3>1. R = [P EXCEPT !.left[s] = ms,
                        !.next = [x \in Slots |-> IF x = s THEN q ELSE IF x = p THEN s ELSE P.next[x]],
                        !.prev = [x \in Slots |-> IF x = s THEN p ELSE IF x = q THEN s ELSE P.prev[x]],
                        !.start = IF P.start = Nil \/ q = P.start THEN s ELSE P.start,
                        !.end = IF P.end = Nil \/ p = P.end THEN s ELSE P.end]
      BY <1>2 DEF SetTimer, p, q
    <3> HIDE DEF R
    <3> QED BY <3>1 DEF Base, Rec, Alike
  <2> HIDE DEF R
  <2>2. Fields(P) /\ Links(P) /\ s # Nil /\ ms # Nil
    BY DEF Base, Slots, Nil
  <2>3. PICK n \in 0 .. Max : \E ord \in [1 .. n -> Slots] : Chain(P, n, ord)
    BY DEF Base, Timers
  <2> PICK ord \in [1 .. n -> Slots] : Chain(P, n, ord)
    BY <2>3
  <2>4. n \in Nat /\ n + 1 \in Nat
    BY MaxAssumption
  <2>5. PICK k \in 0 .. n : Place(P, n, ord, ms, k)
    BY <2>2, <2>4, PlaceExists
  <2>6. InsertionPoint(P, ms) = <<Before(ord, k), After(n, ord, k)>>
    BY <2>2, <2>5, InsertionPointIs
  <2>7. p = Before(ord, k) /\ q = After(n, ord, k)
    BY <2>6
  <2> HIDE DEF p, q
  <2>8. Timers(R)
    <3>1. TimerInserted(P, R, s, ms, Before(ord, k), After(n, ord, k))
      BY <2>1, <2>7 DEF TimerInserted
    <3> QED BY <1>2, <2>2, <2>4, <2>5, <3>1, ChainInsert
  <2>9. Fields(R) /\ Links(R)
    <3>1. Typed(R) /\ Links(R)
      BY <2>1, <2>2 DEF Fields, Typed, Links, Alike
    <3>2. R.touched \subseteq Slots /\ R.died \subseteq Slots /\ R.conn \subseteq Slots
          /\ R.open \in Int /\ R.cb \in [Slots -> Callbacks]
          /\ R.pair \in [Slots -> Slots \cup {Nil}]
      BY <2>1, <2>2 DEF Fields, Alike
    <3>3. p \in Slots \cup {Nil} /\ q \in Slots \cup {Nil}
      <4>1. (k # 0 => k \in 1 .. n) /\ (k # n => k + 1 \in 1 .. n)
        BY <2>4
      <4> QED BY <2>7, <4>1 DEF Before, After
    <3>4. R.next \in [Slots -> Slots \cup {Nil}] /\ R.prev \in [Slots -> Slots \cup {Nil}]
      BY <2>1, <2>2, <3>3 DEF Fields
    <3>5. R.left \in [Slots -> Nat \cup {Nil}]
      BY <2>1, <2>2 DEF Fields
    <3>6. R.start \in Slots \cup {Nil} /\ R.end \in Slots \cup {Nil}
      BY <2>1, <2>2 DEF Fields
    <3> QED BY <3>1, <3>2, <3>4, <3>5, <3>6 DEF Fields
  <2>10. ArmedIn(R) = ArmedIn(P) \cup {s}
    BY <2>1, <2>2 DEF ArmedIn, Fields
  <2>11. ArmedIn(R) \subseteq R.live
    BY <2>1, <2>10 DEF Base, Alike
  <2> QED BY <2>1, <2>8, <2>9, <2>10, <2>11 DEF Base, R
<1> QED BY <1>1, <1>2

(* Q has other callbacks, partners or open descriptors than P.                *)
Edited(P, Q) ==
  /\ Rec(Q) /\ SameTimers(P, Q)
  /\ Q.links = P.links /\ Q.count = P.count /\ Q.live = P.live /\ Q.index = P.index
  /\ Q.touched = P.touched /\ Q.died = P.died
  /\ Q.cb \in [Slots -> Callbacks] /\ Q.pair \in [Slots -> Slots \cup {Nil}]
  /\ Q.conn \subseteq Slots /\ Q.open \in Int

LEMMA EditBase ==
  ASSUME NEW P, NEW Q, Base(P), Edited(P, Q)
  PROVE  Base(Q) /\ ArmedIn(Q) = ArmedIn(P)
<1>1. Timers(Q) /\ ArmedIn(Q) = ArmedIn(P)
  BY SameTimersChain DEF Base, Edited
<1>2. Fields(Q)
  BY DEF Base, Fields, Typed, Edited, SameTimers
<1>3. Links(Q)
  BY DEF Base, Links, Edited
<1> QED BY <1>1, <1>2, <1>3 DEF Base, Edited

LEMMA BaseGood ==
  ASSUME NEW P, Base(P)
  PROVE  Good(P, {})
  BY DEF Base, Fields, Good, Fresh

(* What add_event makes of P for the slot s.                                  *)
Added(P, Q, s, c) ==
  /\ Q.links = P.links /\ Q.count = P.count + 1 /\ Q.live = P.live \cup {s}
  /\ Q.touched = P.touched \cup {s} /\ Q.died = P.died /\ Q.open = P.open
  /\ Q.cb = [P.cb EXCEPT ![s] = c] /\ Q.pair = [P.pair EXCEPT ![s] = Nil]
  /\ Q.conn = P.conn \ {s}

LEMMA AddEventBase ==
  ASSUME NEW P, NEW c \in Callbacks, Base(P), ~Full(P)
  PROVE  LET Q == AddEvent(P, c)
             s == P.links[P.count]
         IN  /\ Base(Q) /\ Added(P, Q, s, c)
             /\ s \in Slots /\ s \notin P.live /\ ArmedIn(Q) = ArmedIn(P)
<1> DEFINE s == P.links[P.count]
           Q == AddEvent(P, c)
<1>1. Good(P, {}) /\ Good(Q, {})
  BY BaseGood, AddEventGood
<1>2. s \in Slots /\ s \notin P.live
  <2>1. P.count \in Slots
    BY MaxAssumption DEF Base, Fields, Typed, Full, Slots
  <2>2. s \in Slots
    BY <2>1 DEF Base, Fields, Typed
  <2>3. s \in P.live <=> P.count < P.count
    BY <2>1 DEF Base, Links
  <2> QED BY <2>1, <2>2, <2>3 DEF Slots
<1>3. P.left[s] = Nil
  BY <1>2 DEF Base, ArmedIn
<1>4. P.next[s] = Nil /\ P.prev[s] = Nil
  <2> HIDE DEF s
  <2>1. PICK n \in 0 .. Max : \E ord \in [1 .. n -> Slots] : Chain(P, n, ord)
    BY DEF Base, Timers
  <2> PICK ord \in [1 .. n -> Slots] : Chain(P, n, ord)
    BY <2>1
  <2> QED BY <1>2, <1>3 DEF Chain
<1>5. /\ Added(P, Q, s, c)
      /\ Q.left = [P.left EXCEPT ![s] = Nil] /\ Q.next = [P.next EXCEPT ![s] = Nil]
      /\ Q.prev = [P.prev EXCEPT ![s] = Nil] /\ Q.start = P.start /\ Q.end = P.end
  <2> DEFINE C == Cleared(P, s, c)
  <2>1. /\ Rec(C)
        /\ C.links = P.links /\ C.count = P.count /\ C.live = P.live
        /\ C.touched = P.touched /\ C.died = P.died /\ C.open = P.open
        /\ C.cb = [P.cb EXCEPT ![s] = c] /\ C.pair = [P.pair EXCEPT ![s] = Nil]
        /\ C.conn = P.conn \ {s}
        /\ C.left = [P.left EXCEPT ![s] = Nil] /\ C.next = [P.next EXCEPT ![s] = Nil]
        /\ C.prev = [P.prev EXCEPT ![s] = Nil] /\ C.start = P.start /\ C.end = P.end
    <3> HIDE DEF s
    <3> QED BY DEF Base, Rec, Cleared
  <2> DEFINE n == C.count + 1
             l == C.live \cup {s}
             t == C.touched \cup {s}
  <2>2. Q = [C EXCEPT !.count = n, !.live = l, !.touched = t]
    BY DEF AddEvent
  <2> HIDE DEF C, Q, s, n, l, t
  <2>3. /\ Q.links = C.links /\ Q.count = n /\ Q.live = l /\ Q.touched = t /\ Q.died = C.died
        /\ Q.open = C.open /\ Q.cb = C.cb /\ Q.pair = C.pair /\ Q.conn = C.conn
        /\ Q.left = C.left /\ Q.next = C.next /\ Q.prev = C.prev
        /\ Q.start = C.start /\ Q.end = C.end
    BY <2>1, <2>2 DEF Rec
  <2> QED BY <2>1, <2>3 DEF n, l, t, Added
<1> HIDE DEF Q, s
<1>6. SameTimers(P, Q)
  BY <1>2, <1>3, <1>4, <1>5 DEF SameTimers, Base, Fields
<1>7. Timers(Q) /\ ArmedIn(Q) = ArmedIn(P)
  BY <1>6, SameTimersChain DEF Base
<1>8. Fields(Q)
  <2>1. Typed(Q)
    BY <1>1 DEF Good
  <2>2. P.open \in Int /\ P.cb \in [Slots -> Callbacks] /\ P.pair \in [Slots -> Slots \cup {Nil}]
        /\ P.touched \subseteq Slots /\ P.died \subseteq Slots /\ P.conn \subseteq Slots
    BY DEF Base, Fields
  <2>3. Q.open \in Int /\ Q.cb \in [Slots -> Callbacks] /\ Q.pair \in [Slots -> Slots \cup {Nil}]
        /\ Q.touched \subseteq Slots /\ Q.died \subseteq Slots /\ Q.conn \subseteq Slots
    BY <2>2, <1>2, <1>5 DEF Added
  <2> QED BY <2>1, <2>3, <1>6 DEF SameTimers, Base, Fields
<1>9. ArmedIn(Q) \subseteq Q.live
  BY <1>5, <1>7 DEF Base, Added
<1>10. Base(Q)
  BY <1>1, <1>7, <1>8, <1>9 DEF Base, Good
<1> QED BY <1>2, <1>5, <1>7, <1>10 DEF Q, s

(* What del_event makes of P before it calls itself.                          *)
Deleted(P, Q, s) ==
  /\ Q.live = P.live \ {s} /\ Q.cb = P.cb
  /\ Q.open = IF Owned(P, s) THEN P.open - 1 ELSE P.open
  /\ Q.pair = [x \in Slots |-> IF x = s \/ (x = P.pair[s] /\ P.pair[x] = s) THEN Nil
                               ELSE P.pair[x]]
  /\ ArmedIn(Q) = ArmedIn(P) \ {s}

LEMMA DelOneBase ==
  ASSUME NEW P, NEW s, Base(P), s \in P.live
  PROVE  Base(DelOne(P, s)) /\ Deleted(P, DelOne(P, s), s)
<1> DEFINE Q == DelOne(P, s)
           R == RemoveTimer(P, s)
           U == Unlink(R, s)
<1>0. s \in Slots /\ s # Nil /\ Live(P, s)
  BY DEF Base, Fields, Typed, Slots, Nil, Live
<1>1. Base(R) /\ Alike(P, R) /\ ArmedIn(R) = ArmedIn(P) \ {s}
  BY <1>0, RemoveTimerBase
<1>2. /\ Rec(U) /\ SameTimers(R, U) /\ U.live = R.live /\ U.cb = R.cb /\ U.pair = R.pair
      /\ U.open = R.open /\ U.conn = R.conn /\ U.touched = R.touched /\ U.died = R.died
  <2> DEFINE n == R.count - 1
             l == IF R.links[R.count - 1] = s THEN R.links
                  ELSE [R.links EXCEPT ![R.index[s]] = R.links[R.count - 1],
                                       ![R.count - 1] = s]
             i == IF R.links[R.count - 1] = s THEN R.index
                  ELSE [R.index EXCEPT ![R.links[R.count - 1]] = R.index[s]]
  <2>1. U = [R EXCEPT !.count = n, !.links = l, !.index = i]
    BY DEF Unlink
  <2> HIDE DEF n, l, i, U, R
  <2> QED BY <1>1, <2>1 DEF Base, Rec, SameTimers
<1>3. /\ Rec(Q) /\ SameTimers(R, Q) /\ Q.cb = P.cb /\ Q.conn = P.conn
      /\ Q.live = P.live \ {s} /\ Q.touched = P.touched \cup {s} /\ Q.died = P.died \cup {s}
      /\ Q.open = IF Owned(P, s) THEN P.open - 1 ELSE P.open
      /\ Q.pair = [x \in Slots |-> IF x = s \/ (x = P.pair[s] /\ P.pair[x] = s) THEN Nil
                                   ELSE P.pair[x]]
  <2> DEFINE l == U.live \ {s}
             t == U.touched \cup {s}
             d == U.died \cup {s}
             o == IF Owned(P, s) THEN U.open - 1 ELSE U.open
             p == [x \in Slots |-> IF x = s \/ (x = P.pair[s] /\ U.pair[x] = s) THEN Nil
                                   ELSE U.pair[x]]
  <2>1. Q = [U EXCEPT !.live = l, !.touched = t, !.died = d, !.open = o, !.pair = p]
    BY <1>0 DEF DelOne
  <2> HIDE DEF Q, R, U, l, t, d, o, p
  <2>2. /\ Rec(Q) /\ SameTimers(U, Q) /\ Q.cb = U.cb /\ Q.conn = U.conn
        /\ Q.live = l /\ Q.touched = t /\ Q.died = d /\ Q.open = o /\ Q.pair = p
    BY <1>2, <2>1 DEF Rec, SameTimers
  <2>3. Q.open = (IF Owned(P, s) THEN P.open - 1 ELSE P.open) /\ Q.live = P.live \ {s}
        /\ Q.touched = P.touched \cup {s} /\ Q.died = P.died \cup {s}
    BY <1>1, <1>2, <2>2 DEF l, t, d, o, Alike
  <2>4. U.pair = P.pair
    BY <1>1, <1>2 DEF Alike
  <2>5. Q.pair = [x \in Slots |-> IF x = s \/ (x = P.pair[s] /\ P.pair[x] = s) THEN Nil
                                  ELSE P.pair[x]]
    BY <2>2, <2>4 DEF p
  <2> QED BY <1>1, <1>2, <2>2, <2>3, <2>5 DEF Alike, SameTimers
<1>4. Good(Q, {})
  BY BaseGood, DelOneGood
<1> HIDE DEF Q, R, U
<1>5. Timers(Q) /\ ArmedIn(Q) = ArmedIn(P) \ {s}
  BY <1>1, <1>3, SameTimersChain DEF Base
<1>6. Fields(Q)
  <2>1. P.open \in Int /\ P.cb \in [Slots -> Callbacks] /\ P.pair \in [Slots -> Slots \cup {Nil}]
        /\ P.touched \subseteq Slots /\ P.died \subseteq Slots /\ P.conn \subseteq Slots
    BY DEF Base, Fields
  <2>2. Q.open \in Int /\ Q.cb \in [Slots -> Callbacks] /\ Q.pair \in [Slots -> Slots \cup {Nil}]
        /\ Q.touched \subseteq Slots /\ Q.died \subseteq Slots /\ Q.conn \subseteq Slots
    BY <2>1, <1>0, <1>3
  <2>3. Typed(Q)
    BY <1>4 DEF Good
  <2> QED BY <2>2, <2>3, <1>1, <1>3 DEF SameTimers, Base, Fields
<1>7. ArmedIn(Q) \subseteq Q.live
  BY <1>3, <1>5 DEF Base
<1> QED BY <1>3, <1>4, <1>5, <1>6, <1>7 DEF Base, Good, Deleted, Q
-----------------------------------------------------------------------------
(* The connections.                                                           *)

LEMMA RingsKept ==
  ASSUME NEW P, NEW Q, NEW L, RingsIn(P, L),
         \A x \in L : Q.pair[x] = P.pair[x] /\ Q.cb[x] = P.cb[x]
  PROVE  RingsIn(Q, L)
<1> SUFFICES ASSUME NEW s \in L
             PROVE  Alone(Q, s) \/ Mates(Q, L, s) \/ Trio(Q, L, s)
  BY DEF RingsIn
<1>1. CASE Alone(P, s)
  BY <1>1 DEF Alone
<1>2. CASE Mates(P, L, s)
  BY <1>2 DEF Mates
<1>3. CASE Trio(P, L, s)
  BY <1>3 DEF Trio
<1> QED BY <1>1, <1>2, <1>3 DEF RingsIn

LEMMA RingsJoin ==
  ASSUME NEW P, NEW K, NEW L, RingsIn(P, K), RingsIn(P, L)
  PROVE  RingsIn(P, K \cup L)
<1> SUFFICES ASSUME NEW s \in K \cup L
             PROVE  Alone(P, s) \/ Mates(P, K \cup L, s) \/ Trio(P, K \cup L, s)
  BY DEF RingsIn
<1>1. CASE Alone(P, s)
  BY <1>1
<1>2. CASE Mates(P, K, s) \/ Mates(P, L, s)
  BY <1>2 DEF Mates
<1>3. CASE Trio(P, K, s) \/ Trio(P, L, s)
  BY <1>3 DEF Trio
<1> QED BY <1>1, <1>2, <1>3 DEF RingsIn

(* What is closed under pair can be left out: the others do not lead to it.   *)
LEMMA RingsOutside ==
  ASSUME NEW P, NEW L, RingsIn(P, L), L \subseteq Slots,
         NEW X, \A w \in X : P.pair[w] \in X \cup {Nil}
  PROVE  RingsIn(P, L \ X)
<1>0. \A x \in L : x # Nil
  BY DEF Slots, Nil
<1> SUFFICES ASSUME NEW s \in L \ X
             PROVE  Alone(P, s) \/ Mates(P, L \ X, s) \/ Trio(P, L \ X, s)
  BY DEF RingsIn
<1>1. CASE Alone(P, s)
  BY <1>1
<1>2. CASE Mates(P, L, s)
  BY <1>0, <1>2 DEF Mates
<1>3. CASE Trio(P, L, s)
  BY <1>0, <1>3 DEF Trio
<1> QED BY <1>1, <1>2, <1>3 DEF RingsIn

(* A pool that is sound but for the slots of X, which are being deleted.      *)
Hurt(P, X) ==
  /\ Base(P) /\ Timed(P) /\ Fds(P)
  /\ RingsIn(P, P.live \ X)
  /\ \A s \in Slots \ (P.live \cup X) : P.pair[s] = Nil

LEMMA HurtSound ==
  ASSUME NEW P, NEW X, Hurt(P, X), \A x \in X : x \notin P.live /\ P.pair[x] = Nil
  PROVE  Sound(P)
<1>1. P.live \ X = P.live
  OBVIOUS
<1> QED BY <1>1 DEF Hurt, Sound, Rings

LEMMA SoundHurt ==
  ASSUME NEW P, NEW X, Sound(P), \A w \in X : P.pair[w] \in X \cup {Nil}
  PROVE  Hurt(P, X)
<1>1. P.live \subseteq Slots
  BY DEF Sound, Base, Fields, Typed
<1> QED BY <1>1, RingsOutside DEF Sound, Rings, Hurt

LEMMA OwnedFinite ==
  ASSUME NEW P, Base(P)
  PROVE  IsFiniteSet(OwnedIn(P))
<1>1. IsFiniteSet(Slots)
  BY MaxAssumption, FS_Interval DEF Slots
<1>2. OwnedIn(P) \in SUBSET Slots
  BY DEF OwnedIn, Base, Fields, Typed
<1> QED BY <1>1, <1>2, FS_Subset

LEMMA DelOneHurt ==
  ASSUME NEW P, NEW X, NEW s, Hurt(P, X), s \in P.live, s \in X, P.pair[s] \in X \cup {Nil}
  PROVE  Hurt(DelOne(P, s), X) /\ Deleted(P, DelOne(P, s), s)
<1> DEFINE Q == DelOne(P, s)
<1>1. Base(Q) /\ Deleted(P, Q, s)
  BY DelOneBase DEF Hurt
<1> HIDE DEF Q
<1>2. P.live \subseteq Slots /\ s \in Slots /\ P.pair \in [Slots -> Slots \cup {Nil}]
  BY DEF Hurt, Base, Fields, Typed
<1>3. Timed(Q)
  BY <1>1 DEF Hurt, Timed, Deleted
<1>4. Fds(Q)
  <2>1. OwnedIn(Q) = OwnedIn(P) \ {s} /\ (s \in OwnedIn(P) <=> Owned(P, s))
    BY <1>1 DEF OwnedIn, Owned, Deleted
  <2>2. Cardinality(OwnedIn(P) \ {s}) =
          IF s \in OwnedIn(P) THEN Cardinality(OwnedIn(P)) - 1 ELSE Cardinality(OwnedIn(P))
    BY OwnedFinite, FS_RemoveElement DEF Hurt
  <2> QED BY <1>1, <2>1, <2>2 DEF Hurt, Fds, Deleted
<1>5. RingsIn(Q, Q.live \ X)
  <2>1. Q.live \ X = P.live \ X
    BY <1>1 DEF Deleted
  <2>2. \A x \in P.live \ X : Q.pair[x] = P.pair[x] /\ Q.cb[x] = P.cb[x]
    <3> TAKE x \in P.live \ X
    <3>1. x \in Slots /\ x # s /\ x # P.pair[s]
      BY <1>2 DEF Slots, Nil
    <3> QED BY <1>1, <3>1 DEF Deleted
  <2> QED BY <2>1, <2>2, RingsKept DEF Hurt
<1>6. \A x \in Slots \ (Q.live \cup X) : Q.pair[x] = Nil
  BY <1>1 DEF Hurt, Deleted
<1>7. Hurt(Q, X)
  BY <1>1, <1>3, <1>4, <1>5, <1>6 DEF Hurt
<1> QED BY <1>1, <1>7 DEF Q

(* del_event on an event that has no partner, or none any more.               *)
LEMMA DelAloneSound ==
  ASSUME NEW P, NEW X, NEW s, Hurt(P, X), s \in P.live, s \in X, P.pair[s] = Nil,
         \A x \in X \ {s} : x \notin P.live /\ P.pair[x] = Nil
  PROVE  Sound(DelOne(P, s)) /\ DelEvent(P, s) = DelOne(P, s)
<1> DEFINE Q == DelOne(P, s)
<1>1. Hurt(Q, X) /\ Deleted(P, Q, s)
  BY DelOneHurt
<1>2. s \in Slots /\ s # Nil /\ P.live \subseteq Slots /\ P.pair \in [Slots -> Slots \cup {Nil}]
  BY DEF Hurt, Base, Fields, Typed, Slots, Nil
<1>3. Follow(P, s) = Nil
  BY <1>2 DEF Follow, Live
<1>4. DelOne(Q, Nil) = Q /\ Follow(Q, Nil) = Nil
  BY DEF DelOne, Follow
<1> HIDE DEF Q
<1>5. DelEvent(P, s) = Q
  BY <1>3, <1>4 DEF DelEvent, Q
<1>6. \A x \in X : x \in Slots => x \notin Q.live /\ Q.pair[x] = Nil
  BY <1>1 DEF Deleted
<1>7. Hurt(Q, X \cap Slots)
  <2>1. Q.live \ X = Q.live \ (X \cap Slots)
    BY <1>1, <1>2 DEF Deleted
  <2> QED BY <1>1, <2>1 DEF Hurt
<1> QED BY <1>5, <1>6, <1>7, HurtSound DEF Q

(* del_event closes the whole connection, and only that one.                  *)
LEMMA DelEventSound ==
  ASSUME NEW P, NEW s \in Slots, Sound(P)
  PROVE  Sound(DelEvent(P, s))
<1>0. s # Nil /\ P.live \subseteq Slots /\ P.pair \in [Slots -> Slots \cup {Nil}]
  BY DEF Sound, Base, Fields, Typed, Slots, Nil
<1>n. \A R : DelOne(R, Nil) = R /\ Follow(R, Nil) = Nil
  BY DEF DelOne, Follow
<1>1. CASE s \notin P.live
  <2>1. DelOne(P, s) = P /\ Follow(P, s) = Nil
    BY <1>1 DEF DelOne, Follow, Live
  <2> QED BY <2>1, <1>n DEF DelEvent
<1>2. CASE s \in P.live
  <2>1. CASE Alone(P, s)
    <3>1. P.pair[s] = Nil
      BY <2>1 DEF Alone
    <3>2. Hurt(P, {s})
      BY <3>1, SoundHurt
    <3> QED BY <1>2, <3>1, <3>2, DelAloneSound
  <2>2. CASE Mates(P, P.live, s)
    <3> DEFINE t == P.pair[s]
               X == {s, t}
               Q == DelOne(P, s)
    <3>1. t \in P.live /\ t \in Slots /\ P.pair[t] = s /\ t # s
      BY <1>0, <2>2 DEF Mates, Matched
    <3>2. Hurt(P, X)
      BY <3>1, SoundHurt
    <3>3. Hurt(Q, X) /\ Deleted(P, Q, s)
      <4>1. s \in X /\ P.pair[s] \in X \cup {Nil}
        OBVIOUS
      <4> HIDE DEF X
      <4> QED BY <1>2, <3>2, <4>1, DelOneHurt
    <3>4. Follow(P, s) = t
      BY <1>0, <1>2 DEF Follow, Live
    <3> HIDE DEF Q
    <3>5. t \in Q.live /\ s \notin Q.live /\ Q.pair[s] = Nil /\ Q.pair[t] = Nil
      BY <3>1, <3>3 DEF Deleted
    <3>6. Sound(DelOne(Q, t))
      BY <3>3, <3>5, DelAloneSound
    <3>7. Follow(Q, t) = Nil
      BY <3>5 DEF Follow
    <3> QED BY <3>4, <3>6, <3>7, <1>n DEF DelEvent, Q
  <2>3. CASE Trio(P, P.live, s)
    <3> DEFINE t == P.pair[s]
               u == P.pair[t]
               X == {s, t, u}
               Q == DelOne(P, s)
               R == DelOne(Q, t)
    <3>1. t \in P.live /\ u \in P.live /\ t \in Slots /\ u \in Slots /\ P.pair[u] = s
      BY <1>0, <2>3 DEF Trio
    <3>2. t # s /\ u # t /\ u # s
      <4>1. ~({P.cb[s]} = {"udp", "ignore"})
        OBVIOUS
      <4>2. {P.cb[s], P.cb[t], P.cb[u]} = {"udp", "ignore"}
        BY <2>3 DEF Trio
      <4>3. (t = s => u = s) /\ (u = t => s = t) /\ (u = s => t = s)
        BY <3>1
      <4>4. ~(t = s /\ u = s)
        BY <4>1, <4>2
      <4> QED BY <4>3, <4>4
    <3>3. Hurt(P, X)
      BY <3>1, SoundHurt
    <3>4. Hurt(Q, X) /\ Deleted(P, Q, s)
      <4>1. s \in X /\ P.pair[s] \in X \cup {Nil}
        OBVIOUS
      <4> HIDE DEF X
      <4> QED BY <1>2, <3>3, <4>1, DelOneHurt
    <3>5. Follow(P, s) = t
      BY <1>0, <1>2 DEF Follow, Live
    <3> HIDE DEF Q
    <3>6. t \in Q.live /\ u \in Q.live /\ s \notin Q.live
          /\ Q.pair[s] = Nil /\ Q.pair[t] = u /\ Q.pair[u] = s
      BY <3>1, <3>2, <3>4 DEF Deleted
    <3>7. Hurt(R, X) /\ Deleted(Q, R, t)
      <4>1. t \in X /\ Q.pair[t] \in X \cup {Nil}
        BY <3>6
      <4> HIDE DEF X
      <4> QED BY <3>4, <3>6, <4>1, DelOneHurt
    <3>8. Follow(Q, t) = u
      BY <3>1, <3>6 DEF Follow, Live, Slots, Nil
    <3> HIDE DEF R
    <3>9. /\ u \in R.live /\ s \notin R.live /\ t \notin R.live
          /\ R.pair[s] = Nil /\ R.pair[t] = Nil /\ R.pair[u] = s
      BY <3>1, <3>2, <3>6, <3>7 DEF Deleted
    <3>10. Hurt(DelOne(R, u), X) /\ Deleted(R, DelOne(R, u), u)
      <4>1. u \in X /\ R.pair[u] \in X \cup {Nil}
        BY <3>9
      <4> HIDE DEF X
      <4> QED BY <3>7, <3>9, <4>1, DelOneHurt
    <3>11. \A x \in X : x \notin DelOne(R, u).live /\ DelOne(R, u).pair[x] = Nil
      BY <3>1, <3>9, <3>10 DEF Deleted
    <3>12. Sound(DelOne(R, u))
      BY <3>10, <3>11, HurtSound
    <3> QED BY <3>5, <3>8, <3>12 DEF DelEvent, Q, R
  <2> QED BY <1>2, <2>1, <2>2, <2>3 DEF Sound, Rings, RingsIn
<1> QED BY <1>1, <1>2

LEMMA AlikeSound ==
  ASSUME NEW P, NEW Q, Sound(P), Base(Q), Alike(P, Q),
         \A s \in ArmedIn(Q) : s \in ArmedIn(P) \/ P.cb[s] \in {"tunnel", "ignore"}
  PROVE  Sound(Q)
<1>1. Rings(Q)
  BY RingsKept DEF Sound, Rings, Alike
<1>2. OwnedIn(Q) = OwnedIn(P)
  BY DEF OwnedIn, Owned, Alike
<1> QED BY <1>1, <1>2 DEF Sound, Timed, Fds, Alike

LEMMA RemoveTimerSound ==
  ASSUME NEW P, NEW s \in Slots, Sound(P)
  PROVE  Sound(RemoveTimer(P, s)) /\ Alike(P, RemoveTimer(P, s))
<1> DEFINE R == RemoveTimer(P, s)
<1>1. Base(R) /\ Alike(P, R) /\ ArmedIn(R) = ArmedIn(P) \ {s}
  BY RemoveTimerBase DEF Sound
<1> HIDE DEF R
<1> QED BY <1>1, AlikeSound DEF R

LEMMA SetTimerSound ==
  ASSUME NEW P, NEW s \in P.live, NEW ms \in Nat, Sound(P), P.cb[s] \in {"tunnel", "ignore"}
  PROVE  Sound(SetTimer(P, s, ms))
<1> DEFINE R == SetTimer(P, s, ms)
<1>1. Base(R) /\ Alike(P, R) /\ ArmedIn(R) = ArmedIn(P) \cup {s}
  BY SetTimerBase DEF Sound, Base, Fields, Typed
<1> HIDE DEF R
<1> QED BY <1>1, AlikeSound DEF R

(* One more slot with a descriptor of its own.                                *)
LEMMA OneMoreOwned ==
  ASSUME NEW P, NEW Q, NEW s, Base(P), s \notin OwnedIn(P), OwnedIn(Q) = OwnedIn(P) \cup {s}
  PROVE  Cardinality(OwnedIn(Q)) = Cardinality(OwnedIn(P)) + 1
  BY OwnedFinite, FS_AddElement

(* create_conn for a client v whose former connection, if it had one, is      *)
(* among the slots of X.                                                      *)
LEMMA CreateConnHurt ==
  ASSUME NEW P, NEW X, NEW v \in P.live, ~Full(P), Hurt(P, X), v \in X, X \subseteq P.live,
         Owned(P, v)
  PROVE  LET Q == CreateConn(P, v) IN
         /\ Hurt(Q, X \ {v}) /\ X \ {v} \subseteq Q.live
         /\ Q.cb \in [Slots -> Callbacks] /\ Q.pair[v] \in Slots \ X /\ Q.pair[Q.pair[v]] = v
<1> DEFINE r == P.links[P.count]
           A == AddEvent(P, "connect")
           Q == CreateConn(P, v)
<1>0. /\ P.live \subseteq Slots /\ v \in Slots /\ P.pair \in [Slots -> Slots \cup {Nil}]
      /\ P.cb \in [Slots -> Callbacks] /\ P.open \in Int /\ P.conn \subseteq Slots
  BY DEF Hurt, Base, Fields, Typed
<1>1. /\ Base(A) /\ Added(P, A, r, "connect")
      /\ r \in Slots /\ r \notin P.live /\ ArmedIn(A) = ArmedIn(P)
  BY AddEventBase DEF Hurt, Callbacks
<1> HIDE DEF A, r
<1>2. /\ Rec(Q) /\ SameTimers(A, Q)
      /\ Q.links = A.links /\ Q.count = A.count /\ Q.live = A.live /\ Q.index = A.index
      /\ Q.touched = A.touched /\ Q.died = A.died
      /\ Q.pair = [A.pair EXCEPT ![v] = r, ![r] = v]
      /\ Q.cb = [A.cb EXCEPT ![v] = "ignore"]
      /\ Q.conn = A.conn \cup {r} /\ Q.open = A.open + 1
  <2> DEFINE p == [A.pair EXCEPT ![v] = r, ![r] = v]
             c == [A.cb EXCEPT ![v] = "ignore"]
             n == A.conn \cup {r}
             o == A.open + 1
  <2>1. Q = [A EXCEPT !.pair = p, !.cb = c, !.conn = n, !.open = o]
    BY DEF CreateConn, A, r
  <2> HIDE DEF p, c, n, o, Q
  <2>2. /\ Rec(Q) /\ SameTimers(A, Q)
        /\ Q.links = A.links /\ Q.count = A.count /\ Q.live = A.live /\ Q.index = A.index
        /\ Q.touched = A.touched /\ Q.died = A.died
        /\ Q.pair = p /\ Q.cb = c /\ Q.conn = n /\ Q.open = o
    BY <1>1, <2>1 DEF Base, Rec, SameTimers
  <2> QED BY <2>2 DEF p, c, n, o
<1> HIDE DEF Q
<1>3. v # r /\ v \in P.live /\ X \subseteq Slots /\ r \notin X
  BY <1>0, <1>1
<1>4. /\ Q.live = P.live \cup {r}
      /\ Q.pair[v] = r /\ Q.pair[r] = v /\ Q.cb[v] = "ignore" /\ Q.cb[r] = "connect"
      /\ \A x \in Slots \ {v, r} : Q.pair[x] = P.pair[x] /\ Q.cb[x] = P.cb[x]
      /\ Q.open = P.open + 1
  BY <1>0, <1>1, <1>2, <1>3 DEF Added
<1>5. Q.pair \in [Slots -> Slots \cup {Nil}] /\ Q.cb \in [Slots -> Callbacks]
      /\ Q.conn \subseteq Slots /\ Q.open \in Int
  BY <1>0, <1>1, <1>2 DEF Added, Callbacks
<1>6. Base(Q) /\ ArmedIn(Q) = ArmedIn(P)
  <2>1. Edited(A, Q)
    BY <1>2, <1>5 DEF Edited
  <2> QED BY <1>1, <2>1, EditBase
<1>7. Timed(Q)
  <2> SUFFICES ASSUME NEW s \in ArmedIn(P) PROVE Q.cb[s] \in {"tunnel", "ignore"}
    BY <1>6 DEF Timed
  <2>1. s \in P.live /\ s \in Slots /\ s # r /\ P.cb[s] \in {"tunnel", "ignore"}
    BY <1>1 DEF Hurt, Base, Timed, ArmedIn
  <2> QED BY <1>4, <2>1
<1>8. Fds(Q)
  <2>1. r \notin OwnedIn(P)
    BY <1>1 DEF OwnedIn
  <2>2. OwnedIn(Q) = OwnedIn(P) \cup {r}
    <3>1. \A x \in P.live : Owned(Q, x) <=> Owned(P, x)
      <4> TAKE x \in P.live
      <4>1. CASE x = v
        BY <4>1, <1>4 DEF Owned
      <4>2. CASE x # v
        BY <4>2, <1>0, <1>1, <1>4 DEF Owned
      <4> QED BY <4>1, <4>2
    <3>2. Owned(Q, r)
      BY <1>4 DEF Owned
    <3> QED BY <1>4, <3>1, <3>2 DEF OwnedIn
  <2>3. Cardinality(OwnedIn(Q)) = Cardinality(OwnedIn(P)) + 1
    <3>1. Base(P)
      BY DEF Hurt
    <3> QED BY <2>1, <2>2, <3>1, OneMoreOwned
  <2> QED BY <1>4, <2>3 DEF Hurt, Fds
<1>9. RingsIn(Q, Q.live \ (X \ {v}))
  <2>1. RingsIn(Q, P.live \ X)
    <3>1. \A x \in P.live \ X : x \in Slots \ {v, r}
      BY <1>0, <1>1
    <3> QED BY <1>4, <3>1, RingsKept DEF Hurt
  <2>2. RingsIn(Q, {v, r})
    <3>1. Mates(Q, {v, r}, v) /\ Mates(Q, {v, r}, r)
      BY <1>3, <1>4 DEF Mates, Matched
    <3> QED BY <3>1 DEF RingsIn
  <2>3. Q.live \ (X \ {v}) = (P.live \ X) \cup {v, r}
    BY <1>3, <1>4
  <2> QED BY <2>1, <2>2, <2>3, RingsJoin
<1>10. \A x \in Slots \ (Q.live \cup (X \ {v})) : Q.pair[x] = Nil
  BY <1>3, <1>4 DEF Hurt
<1>11. Hurt(Q, X \ {v})
  BY <1>6, <1>7, <1>8, <1>9, <1>10 DEF Hurt
<1> QED BY <1>1, <1>3, <1>4, <1>5, <1>11 DEF Q

LEMMA CreateConnSound ==
  ASSUME NEW P, NEW v \in P.live, ~Full(P), Sound(P), P.cb[v] = "request"
  PROVE  Sound(CreateConn(P, v))
<1> DEFINE Q == CreateConn(P, v)
<1>1. P.pair[v] = Nil
  BY DEF Sound, Rings, RingsIn, Alone, Mates, Matched, Trio
<1>2. Hurt(P, {v}) /\ Owned(P, v)
  BY <1>1, SoundHurt DEF Owned
<1>3. PICK X : X = {v}
  OBVIOUS
<1>4. Hurt(Q, X \ {v})
  <2>1. v \in X /\ X \subseteq P.live /\ Hurt(P, X)
    BY <1>2, <1>3
  <2> QED BY <1>2, <2>1, CreateConnHurt
<1> HIDE DEF Q
<1>5. \A x \in X \ {v} : x \notin Q.live /\ Q.pair[x] = Nil
  BY <1>3
<1> QED BY <1>4, <1>5, HurtSound DEF Q

(* The two halves of a connection.                                            *)
LEMMA Partner ==
  ASSUME NEW P, NEW s \in P.live, Sound(P), P.cb[s] \in {"connect", "tunnel"}
  PROVE  /\ P.pair[s] \in P.live /\ P.pair[s] # s /\ P.pair[P.pair[s]] = s
         /\ Matched(P.cb[s], P.cb[P.pair[s]])
         /\ s \in Slots /\ P.pair[s] \in Slots
<1>1. Mates(P, P.live, s)
  <2>1. ~Alone(P, s)
    BY DEF Alone
  <2>2. ~Trio(P, P.live, s)
    BY DEF Trio
  <2> QED BY <2>1, <2>2 DEF Sound, Rings, RingsIn
<1> QED BY <1>1 DEF Mates, Sound, Base, Fields, Typed

LEMMA ReconnectSound ==
  ASSUME NEW P, NEW r \in P.live, ~Full(P), Sound(P), P.cb[r] \in {"connect", "tunnel"}
  PROVE  Sound(Reconnect(P, r))
<1> DEFINE v == P.pair[r]
           Q == CreateConn(P, v)
           p == [Q.pair EXCEPT ![r] = Nil]
           R == [Q EXCEPT !.pair = p]
<1>1. v \in P.live /\ v # r /\ P.pair[v] = r /\ v \in Slots /\ r \in Slots
      /\ Matched(P.cb[r], P.cb[v])
  BY Partner
<1>2. Hurt(P, {v, r}) /\ Owned(P, v)
  <2>1. Owned(P, v)
    BY <1>1 DEF Matched, Owned
  <2> QED BY <1>1, <2>1, SoundHurt
<1>3. /\ Hurt(Q, {r}) /\ r \in Q.live
      /\ Q.pair[v] \in Slots \ {v, r} /\ Q.pair[Q.pair[v]] = v
  <2> DEFINE X == {v, r}
  <2>1. v \in X /\ X \subseteq P.live /\ X \ {v} = {r}
    BY <1>1
  <2> HIDE DEF X, Q, v
  <2>2. Hurt(Q, X \ {v}) /\ X \ {v} \subseteq Q.live
        /\ Q.pair[v] \in Slots \ X /\ Q.pair[Q.pair[v]] = v
    BY <1>1, <1>2, <2>1, CreateConnHurt DEF Q, X
  <2> QED BY <2>1, <2>2 DEF X
<1> HIDE DEF Q, v, p
<1>4. /\ Rec(R) /\ SameTimers(Q, R) /\ R.pair = p /\ R.cb = Q.cb /\ R.conn = Q.conn
      /\ R.links = Q.links /\ R.count = Q.count /\ R.live = Q.live /\ R.index = Q.index
      /\ R.touched = Q.touched /\ R.died = Q.died /\ R.open = Q.open
  BY <1>3 DEF Hurt, Base, Rec, SameTimers
<1> HIDE DEF R
<1>5. Q.pair \in [Slots -> Slots \cup {Nil}] /\ Q.live \subseteq Slots
  BY <1>3 DEF Hurt, Base, Fields, Typed
<1>6. Base(R) /\ ArmedIn(R) = ArmedIn(Q)
  <2>1. Edited(Q, R)
    BY <1>3, <1>4, <1>5 DEF Edited, Hurt, Base, Fields, p
  <2> QED BY <1>3, <2>1, EditBase DEF Hurt
<1>7. R.pair[r] = Nil /\ \A x \in Slots \ {r} : R.pair[x] = Q.pair[x]
  BY <1>1, <1>4, <1>5 DEF p
<1>8. Hurt(R, {r})
  <2>1. Timed(R) /\ OwnedIn(R) = OwnedIn(Q)
    BY <1>3, <1>4, <1>6 DEF Hurt, Timed, OwnedIn, Owned
  <2>2. RingsIn(R, R.live \ {r})
    <3>1. \A x \in Q.live \ {r} : R.pair[x] = Q.pair[x] /\ R.cb[x] = Q.cb[x]
      BY <1>4, <1>5, <1>7
    <3> QED BY <1>3, <1>4, <3>1, RingsKept DEF Hurt
  <2>3. \A x \in Slots \ (R.live \cup {r}) : R.pair[x] = Nil
    BY <1>3, <1>4, <1>7 DEF Hurt
  <2> QED BY <1>3, <1>4, <1>6, <2>1, <2>2, <2>3 DEF Hurt, Fds
<1>9. Sound(DelOne(R, r)) /\ DelEvent(R, r) = DelOne(R, r)
  BY <1>3, <1>4, <1>7, <1>8, DelAloneSound
<1> QED BY <1>9 DEF Reconnect, R, Q, v, p

(* One event with a descriptor of its own was added, and has no partner yet.  *)
AddOwned(P, c) == [AddEvent(P, c) EXCEPT !.open = @ + 1]

OwnedAdded(P, Q, X, r, c) ==
  /\ Hurt(Q, X \cup {r}) /\ r \in Slots /\ r \notin P.live
  /\ Q.live = P.live \cup {r} /\ Q.links = P.links /\ Q.count = P.count + 1
  /\ Q.cb = [P.cb EXCEPT ![r] = c] /\ Q.pair = [P.pair EXCEPT ![r] = Nil]

LEMMA AddOwnedHurt ==
  ASSUME NEW P, NEW X, NEW c, c \in Callbacks, c \notin {"ctrl", "accept"}, Hurt(P, X), ~Full(P)
  PROVE  OwnedAdded(P, AddOwned(P, c), X, P.links[P.count], c)
<1> DEFINE r == P.links[P.count]
           A == AddEvent(P, c)
           Q == [A EXCEPT !.open = A.open + 1]
<1>0. /\ P.live \subseteq Slots /\ P.pair \in [Slots -> Slots \cup {Nil}]
      /\ P.cb \in [Slots -> Callbacks] /\ P.open \in Int
  BY DEF Hurt, Base, Fields, Typed
<1>1. /\ Base(A) /\ Added(P, A, r, c)
      /\ r \in Slots /\ r \notin P.live /\ ArmedIn(A) = ArmedIn(P)
  BY AddEventBase DEF Hurt
<1> HIDE DEF A, r
<1>2. /\ Rec(Q) /\ SameTimers(A, Q)
      /\ Q.links = A.links /\ Q.count = A.count /\ Q.live = A.live /\ Q.index = A.index
      /\ Q.touched = A.touched /\ Q.died = A.died /\ Q.pair = A.pair
      /\ Q.cb = A.cb /\ Q.conn = A.conn /\ Q.open = A.open + 1
  <2> DEFINE o == A.open + 1
  <2>1. Q = [A EXCEPT !.open = o]
    OBVIOUS
  <2> HIDE DEF o, Q
  <2>2. /\ Rec(Q) /\ SameTimers(A, Q)
        /\ Q.links = A.links /\ Q.count = A.count /\ Q.live = A.live /\ Q.index = A.index
        /\ Q.touched = A.touched /\ Q.died = A.died /\ Q.pair = A.pair
        /\ Q.cb = A.cb /\ Q.conn = A.conn /\ Q.open = o
    BY <1>1, <2>1 DEF Base, Rec, SameTimers
  <2> QED BY <2>2 DEF o
<1> HIDE DEF Q
<1>3. Base(Q) /\ ArmedIn(Q) = ArmedIn(P)
  <2>1. Q.open \in Int
    BY <1>0, <1>1, <1>2 DEF Added
  <2>2. Edited(A, Q)
    BY <1>1, <1>2, <2>1 DEF Edited, Base, Fields
  <2> QED BY <1>1, <2>2, EditBase
<1>4. /\ Q.live = P.live \cup {r} /\ Q.links = P.links /\ Q.count = P.count + 1
      /\ Q.cb = [P.cb EXCEPT ![r] = c] /\ Q.pair = [P.pair EXCEPT ![r] = Nil]
      /\ Q.open = P.open + 1
  BY <1>1, <1>2 DEF Added
<1>5. \A x \in Slots \ {r} : Q.pair[x] = P.pair[x] /\ Q.cb[x] = P.cb[x]
  BY <1>0, <1>4
<1>6. Timed(Q)
  <2>1. \A s \in ArmedIn(P) : s \in Slots \ {r} /\ P.cb[s] \in {"tunnel", "ignore"}
    BY <1>1 DEF Hurt, Base, Timed, ArmedIn
  <2> QED BY <1>3, <1>5, <2>1 DEF Timed
<1>7. Fds(Q)
  <2>1. r \notin OwnedIn(P)
    BY <1>1 DEF OwnedIn
  <2>2. OwnedIn(Q) = OwnedIn(P) \cup {r}
    <3>1. \A x \in P.live : Owned(Q, x) <=> Owned(P, x)
      BY <1>0, <1>1, <1>5 DEF Owned
    <3>2. Owned(Q, r)
      BY <1>0, <1>1, <1>4 DEF Owned
    <3> QED BY <1>4, <3>1, <3>2 DEF OwnedIn
  <2>3. Cardinality(OwnedIn(Q)) = Cardinality(OwnedIn(P)) + 1
    <3>1. Base(P)
      BY DEF Hurt
    <3> QED BY <2>1, <2>2, <3>1, OneMoreOwned
  <2> QED BY <1>4, <2>3 DEF Hurt, Fds
<1>8. RingsIn(Q, Q.live \ (X \cup {r}))
  <2>1. Q.live \ (X \cup {r}) = P.live \ X
    BY <1>1, <1>4
  <2>2. \A x \in P.live \ X : x \in Slots \ {r}
    BY <1>0, <1>1
  <2> QED BY <1>5, <2>1, <2>2, RingsKept DEF Hurt
<1>9. \A x \in Slots \ (Q.live \cup (X \cup {r})) : Q.pair[x] = Nil
  BY <1>4, <1>5 DEF Hurt
<1>10. Hurt(Q, X \cup {r})
  BY <1>3, <1>6, <1>7, <1>8, <1>9 DEF Hurt
<1>11. Q = AddOwned(P, c)
  BY DEF Q, A, AddOwned
<1> QED BY <1>1, <1>4, <1>10, <1>11 DEF OwnedAdded, r

LEMMA HurtNothing ==
  ASSUME NEW P, Sound(P)
  PROVE  Hurt(P, {}) /\ {} \subseteq P.live
  BY SoundHurt

(* on_accept: the new client is a connection of its own.                      *)
LEMMA AcceptSound ==
  ASSUME NEW P, Sound(P), ~Full(P)
  PROVE  Sound([AddEvent(P, "request") EXCEPT !.open = @ + 1])
         /\ P.live \subseteq [AddEvent(P, "request") EXCEPT !.open = @ + 1].live
<1> DEFINE Q == AddOwned(P, "request")
<1> PICK X : X = {}
  OBVIOUS
<1> PICK r : r = P.links[P.count]
  OBVIOUS
<1>0. P.pair \in [Slots -> Slots \cup {Nil}] /\ P.cb \in [Slots -> Callbacks]
  BY DEF Sound, Base, Fields
<1>1. /\ Hurt(Q, X \cup {r}) /\ r \in Slots /\ r \notin P.live
      /\ Q.live = P.live \cup {r}
      /\ Q.cb = [P.cb EXCEPT ![r] = "request"] /\ Q.pair = [P.pair EXCEPT ![r] = Nil]
  <2>1. Hurt(P, X) /\ X \subseteq P.live
    BY HurtNothing
  <2>2. OwnedAdded(P, Q, X, r, "request")
    BY <2>1, AddOwnedHurt DEF Callbacks
  <2> HIDE DEF Q
  <2> QED BY <2>2 DEF OwnedAdded
<1> HIDE DEF Q
<1>2. RingsIn(Q, {r})
  BY <1>0, <1>1 DEF RingsIn, Alone
<1>3. RingsIn(Q, Q.live)
  <2>1. Q.live = (Q.live \ (X \cup {r})) \cup {r}
    BY <1>1
  <2> QED BY <1>1, <1>2, <2>1, RingsJoin DEF Hurt
<1>4. \A x \in Slots \ Q.live : Q.pair[x] = Nil
  BY <1>1 DEF Hurt
<1> QED BY <1>1, <1>3, <1>4 DEF Sound, Rings, Hurt, AddOwned, Q

(* udp_associate gives up: the outer socket is closed again.                  *)
LEMMA UdpGivenUpSound ==
  ASSUME NEW P, Sound(P), ~Full(P)
  PROVE  Sound(UdpGivenUp(P))
<1> DEFINE Q == AddOwned(P, "udp")
<1> PICK X : X = {}
  OBVIOUS
<1> PICK r : r = P.links[P.count]
  OBVIOUS
<1>0. P.pair \in [Slots -> Slots \cup {Nil}]
  BY DEF Sound, Base, Fields
<1>1. /\ Hurt(Q, X \cup {r}) /\ r \in Slots /\ Q.live = P.live \cup {r}
      /\ Q.pair = [P.pair EXCEPT ![r] = Nil]
  <2>1. Hurt(P, X) /\ X \subseteq P.live
    BY HurtNothing
  <2>2. OwnedAdded(P, Q, X, r, "udp")
    BY <2>1, AddOwnedHurt DEF Callbacks
  <2> HIDE DEF Q
  <2> QED BY <2>2 DEF OwnedAdded
<1> HIDE DEF Q
<1>2. r \in Q.live /\ Q.pair[r] = Nil
  BY <1>0, <1>1
<1> PICK Y : Y = X \cup {r}
  OBVIOUS
<1>3. r \in Y /\ Y \ {r} = {} /\ Hurt(Q, Y)
  BY <1>1
<1>4. Sound(DelOne(Q, r)) /\ DelEvent(Q, r) = DelOne(Q, r)
  BY <1>2, <1>3, DelAloneSound
<1> QED BY <1>4 DEF UdpGivenUp, AddOwned, Q

(* A connection gets another ring or other callbacks: nothing else changes.   *)
LEMMA EditSound ==
  ASSUME NEW P, NEW Q, NEW X, Base(P), X \subseteq P.live,
         RingsIn(P, P.live \ X), \A x \in Slots \ P.live : P.pair[x] = Nil,
         Edited(P, Q), Fds(Q), RingsIn(Q, X),
         \A x \in Slots \ X : Q.pair[x] = P.pair[x] /\ Q.cb[x] = P.cb[x],
         \A x \in ArmedIn(P) : Q.cb[x] \in {"tunnel", "ignore"}
  PROVE  Sound(Q)
<1>1. Base(Q) /\ ArmedIn(Q) = ArmedIn(P) /\ Q.live = P.live
  BY EditBase DEF Edited
<1>2. P.live \subseteq Slots
  BY DEF Base, Fields, Typed
<1>3. RingsIn(Q, Q.live)
  <2>1. RingsIn(Q, P.live \ X)
    <3>1. \A x \in P.live \ X : Q.pair[x] = P.pair[x] /\ Q.cb[x] = P.cb[x]
      BY <1>2
    <3> QED BY <3>1, RingsKept
  <2>2. Q.live = (P.live \ X) \cup X
    BY <1>1
  <2> QED BY <2>1, <2>2, RingsJoin
<1>4. \A x \in Slots \ Q.live : Q.pair[x] = Nil
  BY <1>1
<1>5. Timed(Q)
  BY <1>1 DEF Timed
<1> QED BY <1>1, <1>3, <1>4, <1>5 DEF Sound, Rings

(* on_connect: both halves become a tunnel.                                   *)
LEMMA TunnelledSound ==
  ASSUME NEW P, NEW s \in P.live, Sound(P), P.cb[s] = "connect"
  PROVE  LET Q == Tunnelled(P, s) IN
         Sound(Q) /\ Q.live = P.live /\ Q.pair = P.pair /\ Q.cb[s] = "tunnel"
<1> DEFINE Q == Tunnelled(P, s)
           t == P.pair[s]
           c == [P.cb EXCEPT ![s] = "tunnel", ![t] = "tunnel"]
<1>1. t \in P.live /\ t # s /\ P.pair[t] = s /\ s \in Slots /\ t \in Slots /\ P.cb[t] = "ignore"
  BY Partner DEF Matched
<1>2. /\ Rec(Q) /\ SameTimers(P, Q)
      /\ Q.links = P.links /\ Q.count = P.count /\ Q.live = P.live /\ Q.index = P.index
      /\ Q.touched = P.touched /\ Q.died = P.died /\ Q.pair = P.pair
      /\ Q.cb = c /\ Q.conn = P.conn /\ Q.open = P.open
  <2>1. Q = [P EXCEPT !.cb = c]
    BY DEF Tunnelled
  <2> HIDE DEF c, Q
  <2> QED BY <2>1 DEF Sound, Base, Rec, SameTimers
<1> HIDE DEF Q, t
<1>3. P.cb \in [Slots -> Callbacks]
  BY DEF Sound, Base, Fields
<1>4. Q.cb \in [Slots -> Callbacks] /\ Q.cb[s] = "tunnel" /\ Q.cb[t] = "tunnel"
      /\ \A x \in Slots \ {s, t} : Q.cb[x] = P.cb[x]
  BY <1>1, <1>2, <1>3 DEF Callbacks
<1>5. Edited(P, Q)
  BY <1>2, <1>4 DEF Edited, Sound, Base, Fields
<1>6. OwnedIn(Q) = OwnedIn(P)
  <2>1. P.live \subseteq Slots
    BY DEF Sound, Base, Fields, Typed
  <2>2. \A x \in P.live : Owned(Q, x) <=> Owned(P, x)
    BY <1>1, <1>4, <2>1 DEF Owned
  <2> QED BY <1>2, <2>2 DEF OwnedIn
<1>7. Fds(Q)
  BY <1>2, <1>6 DEF Sound, Fds
<1> PICK X : X = {s, t}
  OBVIOUS
<1>8. Hurt(P, X) /\ X \subseteq P.live
  BY <1>1, SoundHurt DEF t
<1>9. RingsIn(Q, X)
  <2>1. Mates(Q, X, s) /\ Mates(Q, X, t)
    BY <1>1, <1>2, <1>4 DEF Mates, Matched, t
  <2> QED BY <2>1 DEF RingsIn
<1>10. /\ \A x \in Slots \ X : Q.pair[x] = P.pair[x] /\ Q.cb[x] = P.cb[x]
       /\ \A x \in ArmedIn(P) : Q.cb[x] \in {"tunnel", "ignore"}
  <2>1. \A x \in ArmedIn(P) : x \in Slots /\ P.cb[x] \in {"tunnel", "ignore"}
    BY DEF Sound, Timed, ArmedIn
  <2> QED BY <1>2, <1>4, <2>1
<1>11. Sound(Q)
  <2>1. Base(P) /\ RingsIn(P, P.live \ X) /\ \A x \in Slots \ P.live : P.pair[x] = Nil
    BY <1>8 DEF Sound, Rings, Hurt
  <2> QED BY <2>1, <1>5, <1>7, <1>8, <1>9, <1>10, EditSound
<1> QED BY <1>2, <1>4, <1>11 DEF Q

(* udp_associate: the control connection and two sockets make a ring.         *)
LEMMA UdpAssociateSound ==
  ASSUME NEW P, NEW v \in P.live, Sound(P), P.cb[v] = "request", P.count + 1 < Max
  PROVE  Sound(UdpAssociate(P, v))
<1> PICK o : o = P.links[P.count]
  OBVIOUS
<1> PICK c : c = P.links[P.count + 1]
  OBVIOUS
<1> DEFINE A == AddEvent(P, "udp")
           B == AddEvent(A, "udp")
           Q == UdpAssociate(P, v)
<1>0. /\ P.live \subseteq Slots /\ P.pair \in [Slots -> Slots \cup {Nil}]
      /\ P.cb \in [Slots -> Callbacks] /\ P.open \in Int /\ P.count \in Nat /\ v \in Slots
      /\ "udp" \in Callbacks
  BY DEF Sound, Base, Fields, Typed, Callbacks
<1>1. Base(A) /\ Added(P, A, o, "udp") /\ o \in Slots /\ o \notin P.live
      /\ ArmedIn(A) = ArmedIn(P)
  <2>1. ~Full(P)
    BY <1>0, MaxAssumption DEF Full
  <2> QED BY <1>0, <2>1, AddEventBase DEF Sound
<1> HIDE DEF A
<1>2. Base(B) /\ Added(A, B, c, "udp") /\ c \in Slots /\ c \notin A.live
      /\ ArmedIn(B) = ArmedIn(A)
  <2>1. ~Full(A) /\ c = A.links[A.count]
    BY <1>0, <1>1, MaxAssumption DEF Full, Added
  <2> QED BY <1>0, <1>1, <2>1, AddEventBase
<1> HIDE DEF B
<1>3. v # o /\ v # c /\ o # c /\ c \notin P.live
  BY <1>1, <1>2 DEF Added
<1>4. /\ B.live = P.live \cup {o, c} /\ B.cb[o] = "udp" /\ B.cb[c] = "udp"
      /\ \A x \in Slots \ {o, c} : B.cb[x] = P.cb[x] /\ B.pair[x] = P.pair[x]
      /\ B.open = P.open
  BY <1>0, <1>1, <1>2, <1>3 DEF Added
<1>5. /\ Rec(Q) /\ SameTimers(B, Q)
      /\ Q.links = B.links /\ Q.count = B.count /\ Q.live = B.live /\ Q.index = B.index
      /\ Q.touched = B.touched /\ Q.died = B.died
      /\ Q.pair = [B.pair EXCEPT ![v] = c, ![c] = o, ![o] = v]
      /\ Q.cb = [B.cb EXCEPT ![v] = "ignore"] /\ Q.conn = B.conn /\ Q.open = B.open + 2
  <2> DEFINE p == [B.pair EXCEPT ![v] = c, ![c] = o, ![o] = v]
             k == [B.cb EXCEPT ![v] = "ignore"]
             n == B.open + 2
  <2>1. Q = [B EXCEPT !.pair = p, !.cb = k, !.open = n]
    BY DEF UdpAssociate, B, A
  <2> HIDE DEF p, k, n, Q
  <2>2. /\ Rec(Q) /\ SameTimers(B, Q)
        /\ Q.links = B.links /\ Q.count = B.count /\ Q.live = B.live /\ Q.index = B.index
        /\ Q.touched = B.touched /\ Q.died = B.died
        /\ Q.pair = p /\ Q.cb = k /\ Q.conn = B.conn /\ Q.open = n
    BY <1>2, <2>1 DEF Base, Rec, SameTimers
  <2> QED BY <2>2 DEF p, k, n
<1> HIDE DEF Q
<1>6. /\ B.pair \in [Slots -> Slots \cup {Nil}] /\ B.cb \in [Slots -> Callbacks]
      /\ B.conn \subseteq Slots
  BY <1>2 DEF Base, Fields
<1>7. /\ Q.pair[v] = c /\ Q.pair[c] = o /\ Q.pair[o] = v
      /\ Q.cb[v] = "ignore" /\ Q.cb[o] = "udp" /\ Q.cb[c] = "udp"
      /\ \A x \in Slots \ {v, o, c} : Q.pair[x] = B.pair[x] /\ Q.cb[x] = B.cb[x]
  BY <1>0, <1>1, <1>2, <1>3, <1>4, <1>5, <1>6
<1>8. Edited(B, Q)
  <2>1. Q.pair \in [Slots -> Slots \cup {Nil}]
    BY <1>0, <1>1, <1>2, <1>5, <1>6
  <2>2. Q.cb \in [Slots -> Callbacks]
    BY <1>5, <1>6 DEF Callbacks
  <2>3. Q.open \in Int
    BY <1>0, <1>4, <1>5
  <2> QED BY <1>5, <1>6, <2>1, <2>2, <2>3 DEF Edited
<1>9. Fds(Q)
  <2>1. o \notin OwnedIn(P) /\ c \notin OwnedIn(A)
    BY <1>1, <1>2 DEF OwnedIn
  <2>2. OwnedIn(A) = OwnedIn(P) \cup {o}
    <3>1. \A x \in P.live : Owned(A, x) <=> Owned(P, x)
      BY <1>0, <1>1 DEF Owned, Added
    <3>2. Owned(A, o)
      BY <1>0, <1>1 DEF Owned, Added
    <3> QED BY <1>1, <3>1, <3>2 DEF OwnedIn, Added
  <2>3. OwnedIn(Q) = OwnedIn(A) \cup {c}
    <3>1. A.live = P.live \cup {o} /\ Q.live = A.live \cup {c}
      BY <1>1, <1>2, <1>5 DEF Added
    <3>2. \A x \in P.live : Owned(Q, x) <=> Owned(A, x)
      <4> TAKE x \in P.live
      <4>1. x \in Slots /\ x # o /\ x # c
        BY <1>0, <1>1, <1>3
      <4>2. A.cb[x] = P.cb[x]
        BY <1>0, <1>1, <4>1 DEF Added
      <4>3. CASE x = v
        BY <1>7, <4>2, <4>3 DEF Owned
      <4>4. CASE x # v
        BY <1>4, <1>7, <4>1, <4>2, <4>4 DEF Owned
      <4> QED BY <4>3, <4>4
    <3>3. Owned(Q, c) /\ Owned(Q, o) /\ Owned(A, o)
      BY <1>0, <1>1, <1>7 DEF Owned, Added
    <3> QED BY <3>1, <3>2, <3>3 DEF OwnedIn
  <2>4. Cardinality(OwnedIn(A)) = Cardinality(OwnedIn(P)) + 1
    BY <2>1, <2>2, OneMoreOwned DEF Sound
  <2>5. Cardinality(OwnedIn(Q)) = Cardinality(OwnedIn(A)) + 1
    BY <1>1, <2>1, <2>3, OneMoreOwned
  <2>6. Q.open = P.open + 2 /\ P.open = Cardinality(OwnedIn(P))
    BY <1>4, <1>5 DEF Sound, Fds
  <2> QED BY <1>0, <2>4, <2>5, <2>6 DEF Fds
<1> PICK X : X = {v, o, c}
  OBVIOUS
<1>10. RingsIn(Q, X)
  <2>1. Trio(Q, X, v) /\ Trio(Q, X, o) /\ Trio(Q, X, c)
    BY <1>7 DEF Trio
  <2> QED BY <2>1 DEF RingsIn
<1>11. RingsIn(B, B.live \ X)
  <2>1. P.pair[v] = Nil
    BY DEF Sound, Rings, RingsIn, Alone, Mates, Matched, Trio
  <2>2. Hurt(P, {v})
    BY <2>1, SoundHurt
  <2>3. B.live \ X = P.live \ {v}
    BY <1>1, <1>3, <1>4
  <2>4. \A x \in P.live \ {v} : B.pair[x] = P.pair[x] /\ B.cb[x] = P.cb[x]
    BY <1>0, <1>1, <1>3, <1>4
  <2> QED BY <2>2, <2>3, <2>4, RingsKept DEF Hurt
<1>12. \A x \in Slots \ B.live : B.pair[x] = Nil
  BY <1>4 DEF Sound, Rings
<1>13. \A x \in ArmedIn(B) : Q.cb[x] \in {"tunnel", "ignore"}
  <2> TAKE x \in ArmedIn(B)
  <2>1. x \in Slots /\ x \in P.live /\ P.cb[x] \in {"tunnel", "ignore"}
    BY <1>1, <1>2 DEF Sound, Base, Timed, ArmedIn
  <2> QED BY <1>1, <1>3, <1>4, <1>7, <2>1
<1>14. X \subseteq B.live /\ \A x \in Slots \ X : Q.pair[x] = B.pair[x] /\ Q.cb[x] = B.cb[x]
  BY <1>4, <1>7
<1>15. Sound(Q)
  BY <1>2, <1>8, <1>9, <1>10, <1>11, <1>12, <1>13, <1>14, EditSound
<1> QED BY <1>15 DEF Q

(* on_tunnel, whatever becomes of the connection.                             *)
LEMMA TransferSound ==
  ASSUME NEW P, Sound(P), cur \in P.live, P.cb[cur] = "tunnel", NEW Q \in Transfer(P)
  PROVE  Sound(Q)
<1> DEFINE other == P.pair[cur]
           remote == Remote(P, cur)
           client == P.pair[remote]
<1>1. other \in P.live /\ P.pair[other] = cur /\ P.cb[other] = "tunnel"
      /\ cur \in Slots /\ other \in Slots
  BY Partner DEF Matched
<1>2. remote \in P.live /\ P.cb[remote] = "tunnel" /\ client \in Slots
  BY <1>1 DEF Remote
<1>3. CASE Q \in {Untimed(P, cur, other), P, DelEvent(P, cur)}
  <2>1. Sound(Untimed(P, cur, other))
    <3> HIDE DEF other
    <3> QED BY <1>1, RemoveTimerSound DEF Untimed
  <2>2. Sound(DelEvent(P, cur))
    BY <1>1, DelEventSound
  <2> QED BY <1>3, <2>1, <2>2
<1>4. CASE \E s \in {cur, other}, ms \in Delays : Q = SetTimer(P, s, ms)
  <2>1. PICK s \in {cur, other}, ms \in Delays : Q = SetTimer(P, s, ms)
    BY <1>4
  <2>2. s \in P.live /\ P.cb[s] \in {"tunnel", "ignore"} /\ ms \in Nat
    BY <1>1, DelaysAssumption
  <2> QED BY <2>1, <2>2, SetTimerSound
<1>5. CASE ~Full(P) /\ Q \in {RemoveTimer(Reconnect(P, remote), client),
                              DelEvent(Reconnect(P, remote), cur)}
  <2> HIDE DEF remote, client
  <2>1. Sound(Reconnect(P, remote))
    BY <1>2, <1>5, ReconnectSound
  <2> QED BY <1>1, <1>2, <1>5, <2>1, RemoveTimerSound, DelEventSound
<1> QED BY <1>3, <1>4, <1>5 DEF Transfer
-----------------------------------------------------------------------------
(* The steps.                                                                 *)

(* The callback of an event of the pool leaves the pool sound.                *)
LEMMA CallbackSound ==
  ASSUME SoundInv, Callback
  PROVE  Sound(pool')
<1>0. Sound(pool) /\ (phase = "callback" => cur \in pool.live /\ cur \in Slots)
  BY DEF SoundInv, CurInv, Sound, Base, Fields, Typed
<1>1. CASE OnCtrl \/ AcceptDone \/ RequestGoesOn
  BY <1>0, <1>1 DEF OnCtrl, AcceptDone, RequestGoesOn, Return0
<1>2. CASE AcceptOne
  BY <1>0, <1>2, AcceptSound DEF AcceptOne
<1>3. CASE AcceptFails
  BY <1>0, <1>3, DelEventSound DEF AcceptFails, Running
<1>4. CASE RequestFails
  BY <1>0, <1>4, DelEventSound DEF RequestFails, Return0, ReturnError, Running
<1>5. CASE RequestConnects
  <2>1. cur \in pool.live /\ pool.cb[cur] = "request" /\ ~Full(pool)
        /\ pool' = CreateConn(pool, cur)
    BY <1>0, <1>5 DEF RequestConnects, Return0, Running
  <2> QED BY <1>0, <2>1, CreateConnSound
<1>6. CASE RequestAssociates
  <2>1. cur \in pool.live /\ cur \in Slots /\ pool.cb[cur] = "request" /\ ~Full(pool)
    BY <1>0, <1>6 DEF RequestAssociates, Running
  <2>2. Sound(UdpGivenUp(pool))
    BY <1>0, <2>1, UdpGivenUpSound
  <2>3. Sound(DelEvent(UdpGivenUp(pool), cur))
    BY <2>1, <2>2, DelEventSound
  <2>4. CASE pool.count + 1 >= Max
    BY <1>6, <2>3, <2>4 DEF RequestAssociates, Return0, ReturnError
  <2>5. CASE ~(pool.count + 1 >= Max)
    <3>1. pool.count + 1 < Max
      BY <1>0, <2>5, MaxAssumption DEF Sound, Base, Fields, Typed
    <3>2. Sound(UdpAssociate(pool, cur))
      BY <1>0, <2>1, <3>1, UdpAssociateSound
    <3>3. Sound(DelEvent(UdpAssociate(pool, cur), cur))
      BY <2>1, <3>2, DelEventSound
    <3> QED BY <1>6, <2>3, <2>5, <3>2, <3>3 DEF RequestAssociates, Return0, ReturnError
  <2> QED BY <2>4, <2>5
<1>7. CASE Connected
  <2> DEFINE P == Tunnelled(pool, cur)
             U == Untimed(P, cur, pool.pair[cur])
  <2>1. cur \in pool.live /\ cur \in Slots /\ pool.cb[cur] = "connect"
    BY <1>0, <1>7 DEF Connected, Running
  <2>2. Sound(P) /\ P.live = pool.live /\ P.pair = pool.pair /\ P.cb[cur] = "tunnel"
    BY <1>0, <2>1, TunnelledSound
  <2>3. \/ pool' = P \/ pool' = DelEvent(P, cur) \/ pool' \in Transfer(U)
    BY <1>7 DEF Connected, Return0, ReturnError
  <2> HIDE DEF P
  <2>4. pool.pair[cur] \in Slots
    BY <1>0, <2>1, Partner
  <2>5. Sound(U) /\ U.live = P.live /\ U.cb = P.cb
    BY <2>1, <2>2, <2>4, RemoveTimerSound DEF Untimed, Alike
  <2> HIDE DEF U
  <2>6. pool' \in Transfer(U) => Sound(pool')
    BY <2>1, <2>2, <2>5, TransferSound
  <2> QED BY <2>1, <2>2, <2>3, <2>6, DelEventSound
<1>8. CASE ConnectFails
  <2>1. cur \in pool.live /\ cur \in Slots /\ pool.cb[cur] = "connect"
    BY <1>0, <1>8 DEF ConnectFails, Running
  <2>2. \/ pool' = DelEvent(pool, cur)
        \/ ~Full(pool) /\ pool' = Reconnect(pool, cur)
    BY <1>8 DEF ConnectFails, Return0, ReturnError
  <2> QED BY <1>0, <2>1, <2>2, DelEventSound, ReconnectSound
<1>9. CASE TunnelIO
  <2> DEFINE U == Untimed(pool, cur, pool.pair[cur])
  <2>1. cur \in pool.live /\ cur \in Slots /\ pool.cb[cur] = "tunnel"
    BY <1>0, <1>9 DEF TunnelIO, Running
  <2>2. pool.pair[cur] \in Slots
    BY <1>0, <2>1, Partner
  <2>3. Sound(U) /\ U.live = pool.live /\ U.cb = pool.cb
    BY <1>0, <2>1, <2>2, RemoveTimerSound DEF Untimed, Alike
  <2>4. pool' \in Transfer(U) \/ pool' \in Transfer(pool)
    BY <1>9 DEF TunnelIO, Return0
  <2> HIDE DEF U
  <2>5. pool' \in Transfer(U) => Sound(pool')
    BY <2>1, <2>3, TransferSound
  <2>6. pool' \in Transfer(pool) => Sound(pool')
    BY <1>0, <2>1, TransferSound
  <2> QED BY <2>4, <2>5, <2>6
<1>10. CASE TunnelTimeout
  <2>1. cur \in pool.live /\ cur \in Slots /\ pool.cb[cur] = "tunnel"
    BY <1>0, <1>10 DEF TunnelTimeout, Running
  <2>2. \/ \E ms \in Delays : pool' = SetTimer(pool, cur, ms)
        \/ ~Full(pool) /\ pool' = Reconnect(pool, cur)
        \/ pool' \in Transfer(pool)
    BY <1>10 DEF TunnelTimeout, Return0
  <2>3. ASSUME NEW ms \in Delays, pool' = SetTimer(pool, cur, ms) PROVE Sound(pool')
    <3>1. ms \in Nat
      BY DelaysAssumption
    <3> QED BY <1>0, <2>1, <2>3, <3>1, SetTimerSound
  <2>4. ~Full(pool) /\ pool' = Reconnect(pool, cur) => Sound(pool')
    BY <1>0, <2>1, ReconnectSound
  <2>5. pool' \in Transfer(pool) => Sound(pool')
    BY <1>0, <2>1, TransferSound
  <2> QED BY <2>2, <2>3, <2>4, <2>5
<1>11. CASE OnIgnore \/ OnUdpTunnel
  BY <1>0, <1>11, DelEventSound DEF OnIgnore, OnUdpTunnel, Return0, ReturnError, Running
<1> QED BY <1>1, <1>2, <1>3, <1>4, <1>5, <1>6, <1>7, <1>8, <1>9, <1>10, <1>11
        DEF Callback

(* A callback ends, or on_accept goes on with the next client.                *)
LEMMA CallbackCur ==
  ASSUME SoundInv, Callback
  PROVE  CurInv'
<1>1. CASE AcceptOne
  <2>1. pool.live \subseteq pool'.live
    BY <1>1, AcceptSound DEF AcceptOne, SoundInv
  <2> QED BY <1>1, <2>1 DEF AcceptOne, SoundInv, CurInv
<1>2. CASE ~AcceptOne
  <2>1. phase' = "next" /\ cur' = Nil /\ etype' = etype /\ (brk' = brk \/ brk' = TRUE)
    <3>1. CASE OnCtrl \/ AcceptDone \/ AcceptFails \/ RequestGoesOn \/ RequestFails
      BY <3>1 DEF OnCtrl, AcceptDone, AcceptFails, RequestGoesOn, RequestFails,
                  Return0, ReturnError
    <3>2. CASE RequestConnects \/ RequestAssociates \/ OnIgnore \/ OnUdpTunnel
      BY <3>2 DEF RequestConnects, RequestAssociates, OnIgnore, OnUdpTunnel, Return0, ReturnError
    <3>3. CASE Connected
      BY <3>3 DEF Connected, Return0, ReturnError
    <3>4. CASE ConnectFails
      BY <3>4 DEF ConnectFails, Return0, ReturnError
    <3>5. CASE TunnelIO \/ TunnelTimeout
      BY <3>5 DEF TunnelIO, TunnelTimeout, Return0
    <3> QED BY <1>2, <3>1, <3>2, <3>3, <3>4, <3>5 DEF Callback
  <2> QED BY <2>1 DEF SoundInv, CurInv
<1> QED BY <1>1, <1>2

LEMMA StartLive ==
  ASSUME NEW P, Base(P), P.start # Nil
  PROVE  P.start \in P.live
<1>1. PICK n \in 0 .. Max : \E ord \in [1 .. n -> Slots] : Chain(P, n, ord)
  BY DEF Base, Timers
<1> PICK ord \in [1 .. n -> Slots] : Chain(P, n, ord)
  BY <1>1
<1>2. n # 0 /\ P.start = ord[1]
  BY DEF Chain
<1>3. 1 \in 1 .. n
  BY <1>2, MaxAssumption
<1> QED BY <1>2, <1>3 DEF Chain, Base, ArmedIn

(* Time passes: the order of the timers stays.                                *)
LEMMA TickSound ==
  ASSUME SoundInv, Tick
  PROVE  Sound(pool') /\ pool'.live = pool.live
<1> DEFINE l == [s \in Slots |-> IF pool.left[s] > 0 THEN pool.left[s] - 1 ELSE pool.left[s]]
           Q == pool'
<1>0. Base(pool) /\ Fields(pool) /\ Rec(pool) /\ Links(pool)
  BY DEF SoundInv, Sound, Base
<1>1. pool' = [pool EXCEPT !.left = l]
  BY DEF Tick
<1>2. \A s \in Slots : pool.left[s] \in Nat \/ pool.left[s] = -1
  BY <1>0 DEF Fields, Nil
<1>3. \A s \in Slots : /\ l[s] = Nil <=> pool.left[s] = Nil
                       /\ l[s] \in Nat \cup {Nil}
                       /\ l[s] = IF pool.left[s] > 0 THEN pool.left[s] - 1 ELSE pool.left[s]
  BY <1>2 DEF Nil
<1>4. l \in [Slots -> Nat \cup {Nil}]
  BY <1>3
<1> HIDE DEF l
<1>5. /\ Rec(Q) /\ Q.left = l /\ Q.next = pool.next /\ Q.prev = pool.prev
      /\ Q.start = pool.start /\ Q.end = pool.end /\ Alike(pool, Q)
  BY <1>0, <1>1 DEF Rec, Alike
<1> HIDE DEF Q
<1>6. ArmedIn(Q) = ArmedIn(pool)
  BY <1>3, <1>5 DEF ArmedIn
<1>7. Timers(Q)
  <2>1. PICK n \in 0 .. Max : \E ord \in [1 .. n -> Slots] : Chain(pool, n, ord)
    BY <1>0 DEF Base, Timers
  <2> PICK ord \in [1 .. n -> Slots] : Chain(pool, n, ord)
    BY <2>1
  <2>2. \A i, j \in 1 .. n : i <= j => Q.left[ord[i]] <= Q.left[ord[j]]
    <3> SUFFICES ASSUME NEW i \in 1 .. n, NEW j \in 1 .. n, i <= j
                 PROVE  l[ord[i]] <= l[ord[j]]
      BY <1>5
    <3>1. pool.left[ord[i]] <= pool.left[ord[j]]
          /\ pool.left[ord[i]] \in Int /\ pool.left[ord[j]] \in Int
      BY <1>2 DEF Chain
    <3> QED BY <1>3, <3>1
  <2>3. /\ n \in Nat /\ ord \in [1 .. n -> Slots]
        /\ \A i, j \in 1 .. n : ord[i] = ord[j] => i = j
        /\ \A i \in 1 .. n : /\ pool.next[ord[i]] = IF i = n THEN Nil ELSE ord[i + 1]
                             /\ pool.prev[ord[i]] = IF i = 1 THEN Nil ELSE ord[i - 1]
        /\ pool.start = IF n = 0 THEN Nil ELSE ord[1]
        /\ pool.end = IF n = 0 THEN Nil ELSE ord[n]
    BY DEF Chain
  <2>4. \A s \in Slots : pool.left[s] # Nil <=> \E i \in 1 .. n : ord[i] = s
    BY DEF Chain
  <2>5. \A s \in Slots : pool.left[s] = Nil => pool.next[s] = Nil /\ pool.prev[s] = Nil
    BY DEF Chain
  <2>6. \A s \in Slots : Q.left[s] # Nil <=> \E i \in 1 .. n : ord[i] = s
    BY <1>3, <1>5, <2>4
  <2>7. \A s \in Slots : Q.left[s] = Nil => Q.next[s] = Nil /\ Q.prev[s] = Nil
    BY <1>3, <1>5, <2>5
  <2>8. Chain(Q, n, ord)
    <3>1. /\ \A i \in 1 .. n : /\ Q.next[ord[i]] = IF i = n THEN Nil ELSE ord[i + 1]
                              /\ Q.prev[ord[i]] = IF i = 1 THEN Nil ELSE ord[i - 1]
          /\ Q.start = IF n = 0 THEN Nil ELSE ord[1]
          /\ Q.end = IF n = 0 THEN Nil ELSE ord[n]
      BY <2>3, <1>5
    <3> QED BY <2>2, <2>3, <2>6, <2>7, <3>1 DEF Chain
  <2> QED BY <2>8 DEF Timers
<1>8. Base(Q)
  <2>1. Fields(Q)
    BY <1>0, <1>4, <1>5 DEF Fields, Typed, Alike
  <2>2. Links(Q)
    BY <1>0, <1>5 DEF Links, Alike
  <2> QED BY <1>0, <1>5, <1>6, <1>7, <2>1, <2>2 DEF Base, Alike
<1> QED BY <1>5, <1>6, <1>8, AlikeSound DEF SoundInv, Q, Alike

(* The pool of start_event_loop.                                              *)
LEMMA FreshSound == Sound(FreshPool)
<1> DEFINE E == EmptyPool
           A == AddEvent(E, "ctrl")
           F == AddEvent(A, "accept")
<1>0. "ctrl" \in Callbacks /\ "accept" \in Callbacks /\ "none" \in Callbacks
  BY DEF Callbacks
<1>1. Base(E) /\ E.live = {} /\ E.count = 0 /\ E.open = 0 /\ ArmedIn(E) = {}
      /\ \A s \in Slots : E.pair[s] = Nil
  <2>1. /\ Rec(E)
        /\ E.links = [i \in Slots |-> i] /\ E.count = 0 /\ E.live = {} /\ E.touched = Slots
        /\ E.died = {} /\ E.open = 0 /\ E.index = [s \in Slots |-> 0]
        /\ E.cb = [s \in Slots |-> "none"] /\ E.pair = [s \in Slots |-> Nil] /\ E.conn = {}
        /\ E.left = [s \in Slots |-> Nil] /\ E.next = [s \in Slots |-> Nil]
        /\ E.prev = [s \in Slots |-> Nil] /\ E.start = Nil /\ E.end = Nil
    BY DEF EmptyPool, Rec
  <2> HIDE DEF E
  <2>2. 0 \in Slots /\ \A i \in Slots : ~(i < 0)
    BY MaxAssumption DEF Slots
  <2>3. Fields(E)
    BY <1>0, <2>1, <2>2, MaxAssumption DEF Fields, Typed
  <2>4. Links(E)
    BY <2>1, <2>2 DEF Links
  <2>5. ArmedIn(E) = {}
    BY <2>1 DEF ArmedIn
  <2>6. Timers(E)
    <3>1. 0 \in Nat /\ 1 .. 0 = {}
      OBVIOUS
    <3>2. PICK ord : ord = [i \in 1 .. 0 |-> 0]
      OBVIOUS
    <3>4. ord \in [1 .. 0 -> Slots]
      BY <3>1, <3>2
    <3>3. Chain(E, 0, ord)
      BY <2>1, <3>1, <3>4 DEF Chain
    <3> QED BY <3>1, <3>3, <3>4, ChainTimers
  <2> QED BY <2>1, <2>3, <2>4, <2>5, <2>6 DEF Base
<1> HIDE DEF E
<1> PICK a : a = E.links[E.count]
  OBVIOUS
<1>2. Base(A) /\ Added(E, A, a, "ctrl") /\ a \in Slots /\ ArmedIn(A) = {}
  <2>1. ~Full(E)
    BY <1>1, MaxAssumption DEF Full
  <2> QED BY <1>0, <1>1, <2>1, AddEventBase
<1> HIDE DEF A
<1> PICK b : b = A.links[A.count]
  OBVIOUS
<1>3. Base(F) /\ Added(A, F, b, "accept") /\ b \in Slots /\ b \notin A.live /\ ArmedIn(F) = {}
  <2>1. ~Full(A)
    BY <1>1, <1>2, MaxAssumption DEF Full, Added
  <2> QED BY <1>0, <1>2, <2>1, AddEventBase
<1> HIDE DEF F
<1>4. E.pair \in [Slots -> Slots \cup {Nil}] /\ E.cb \in [Slots -> Callbacks]
  BY <1>1 DEF Base, Fields
<1>5. /\ F.live = {a, b} /\ a # b /\ F.cb[a] = "ctrl" /\ F.cb[b] = "accept" /\ F.open = 0
      /\ \A s \in Slots : F.pair[s] = Nil
  BY <1>1, <1>2, <1>3, <1>4 DEF Added
<1>6. Rings(F)
  BY <1>2, <1>3, <1>5 DEF Rings, RingsIn, Alone
<1>7. Fds(F)
  <2>1. OwnedIn(F) = {}
    BY <1>5 DEF OwnedIn, Owned
  <2> QED BY <1>5, <2>1, FS_EmptySet DEF Fds
<1>8. Timed(F)
  BY <1>3 DEF Timed
<1> QED BY <1>3, <1>6, <1>7, <1>8 DEF Sound, FreshPool, F, A, E

LEMMA InitSound == PoolInit => SoundInv
  BY FreshSound DEF PoolInit, SoundInv, CurInv

LEMMA StepSound == IInv /\ SoundInv /\ [PoolNext]_vars => SoundInv'
<1> SUFFICES ASSUME IInv, SoundInv, [PoolNext]_vars PROVE SoundInv'
  OBVIOUS
<1>0. Sound(pool) /\ CurInv /\ pool.live \subseteq Slots
  BY DEF SoundInv, Sound, Base, Fields, Typed
<1>f. ASSUME FireTimer, pool.start # Nil PROVE SoundInv'
  <2>1. pool.start \in pool.live /\ pool.start \in Slots
    BY <1>0, <1>f, StartLive DEF Sound
  <2>2. Sound(pool') /\ pool'.live = pool.live
    BY <1>0, <1>f, <2>1, RemoveTimerSound DEF FireTimer, Alike
  <2> QED BY <1>0, <1>f, <2>1, <2>2 DEF FireTimer, Dispatch, SoundInv, CurInv
<1>1. CASE UNCHANGED vars \/ LeaveLoop \/ Stop \/ Wait
  BY <1>1 DEF vars, LeaveLoop, Stop, Wait, SoundInv, CurInv
<1>2. CASE TimerDue \/ WaitTimesOut
  BY <1>2, <1>f DEF TimerDue, WaitTimesOut, Due
<1>3. CASE Interrupted
  <2>1. CASE etype = "timeout" /\ pool.start # Nil
    BY <1>3, <1>f, <2>1 DEF Interrupted
  <2>2. CASE ~(etype = "timeout" /\ pool.start # Nil)
    BY <1>0, <1>3, <2>2 DEF Interrupted, SoundInv, CurInv
  <2> QED BY <2>1, <2>2
<1>4. CASE Tick
  BY <1>0, <1>4, TickSound DEF Tick, SoundInv, CurInv
<1>5. CASE NextOfBatch
  <2>1. PICK i \in Remaining : cur' = pending[i] /\ etype' = "io" /\ phase' = "callback"
    BY <1>5 DEF NextOfBatch, Dispatch
  <2>2. pending[i] \in Batch /\ pending[i] \notin pool.touched
    BY <2>1 DEF Remaining, Deliverable, Batch
  <2>3. cur' \in pool.live
    BY <2>1, <2>2 DEF IInv, Good, Fresh
  <2> QED BY <1>0, <1>5, <2>1, <2>3 DEF NextOfBatch, SoundInv, CurInv
<1>6. CASE EpollReturns
  <2>1. cur' \in pool.live /\ phase' = "callback" /\ etype' = "io" /\ brk' = brk
    <3>1. PICK n \in 1 .. MaxBatch : \E batch \in [1 .. n -> pool.live] : Dispatch(batch[1], "io")
      BY <1>6 DEF EpollReturns
    <3> PICK batch \in [1 .. n -> pool.live] : Dispatch(batch[1], "io")
      BY <3>1
    <3>2. 1 \in 1 .. n
      BY BatchAssumption
    <3> QED BY <1>6, <3>2 DEF Dispatch, EpollReturns
  <2>2. /\ Rec(pool') /\ pool'.touched = {} /\ pool'.died = {} /\ SameTimers(pool, pool')
        /\ pool'.links = pool.links /\ pool'.count = pool.count /\ pool'.live = pool.live
        /\ pool'.index = pool.index /\ pool'.cb = pool.cb /\ pool'.pair = pool.pair
        /\ pool'.conn = pool.conn /\ pool'.open = pool.open
    BY <1>0, <1>6 DEF EpollReturns, Sound, Base, Rec, SameTimers
  <2>3. Base(pool')
    <3>1. Fields(pool')
      BY <1>0, <2>2 DEF Sound, Base, Fields, Typed, SameTimers
    <3>2. Links(pool')
      BY <1>0, <2>2 DEF Sound, Base, Links
    <3>3. Timers(pool') /\ ArmedIn(pool') = ArmedIn(pool)
      BY <1>0, <2>2, SameTimersChain DEF Sound, Base
    <3> QED BY <1>0, <2>2, <3>1, <3>2, <3>3 DEF Sound, Base
  <2>4. Rings(pool')
    BY <1>0, <2>2, RingsKept DEF Sound, Rings
  <2>5. Timed(pool') /\ Fds(pool')
    <3>1. ArmedIn(pool') = ArmedIn(pool)
      BY <2>2, SameTimersChain
    <3>2. OwnedIn(pool') = OwnedIn(pool)
      BY <2>2 DEF OwnedIn, Owned
    <3> QED BY <1>0, <2>2, <3>1, <3>2 DEF Sound, Timed, Fds
  <2> QED BY <1>0, <2>1, <2>2, <2>3, <2>4, <2>5 DEF Sound, SoundInv, CurInv
<1>7. CASE DestroyStep
  <2>1. pool.links[0] \in Slots
    BY <1>0, MaxAssumption DEF Sound, Base, Fields, Typed, Slots
  <2>2. Sound(pool')
    BY <1>0, <1>7, <2>1, DelEventSound DEF DestroyStep
  <2> QED BY <1>0, <1>7, <2>2 DEF DestroyStep, SoundInv, CurInv
<1>8. CASE NewPool
  <2>1. PoolInit'
    BY <1>8 DEF NewPool, PoolInit
  <2> QED BY <2>1, InitSound, PTL
<1>9. CASE Callback
  BY <1>9, CallbackSound, CallbackCur DEF SoundInv
<1> QED BY <1>1, <1>2, <1>3, <1>4, <1>5, <1>6, <1>7, <1>8, <1>9 DEF PoolNext

LEMMA SoundAlways == PoolSpec => []SoundInv
<1>1. PoolInit => IInv /\ SoundInv
  BY InitInv, InitSound
<1>2. (IInv /\ SoundInv) /\ [PoolNext]_vars => (IInv /\ SoundInv)'
  BY StepInv, StepSound
<1> QED BY <1>1, <1>2, PTL DEF PoolSpec
-----------------------------------------------------------------------------
(* What the invariant says.                                                   *)

(* No partner dangles: a callback finds the other half of its connection, or  *)
(* both other events of the association, and del_event closes all of them.    *)
THEOREM RingsAlwaysWhole == PoolSpec => []RingsWhole
<1>1. SoundInv => RingsWhole
  <2> SUFFICES ASSUME SoundInv PROVE RingsWhole
    OBVIOUS
  <2>0. Sound(pool) /\ pool.cb \in [Slots -> Callbacks] /\ pool.live \subseteq Slots
    BY DEF SoundInv, Sound, Base, Fields, Typed
  <2> DEFINE Whole(s) ==
        CASE pool.cb[s] \in {"ctrl", "accept", "request"} -> pool.pair[s] = Nil
          [] pool.cb[s] = "connect" ->
               /\ pool.pair[s] \in pool.live /\ pool.cb[pool.pair[s]] = "ignore"
               /\ pool.pair[pool.pair[s]] = s
          [] pool.cb[s] = "tunnel" ->
               /\ pool.pair[s] \in pool.live /\ pool.cb[pool.pair[s]] = "tunnel"
               /\ pool.pair[pool.pair[s]] = s
          [] pool.cb[s] \in {"udp", "ignore"} ->
               LET t == pool.pair[s] IN
               /\ t \in pool.live
               /\ \/ pool.cb[t] = "connect" /\ pool.pair[t] = s
                  \/ /\ pool.pair[t] \in pool.live /\ pool.pair[pool.pair[t]] = s
                     /\ {pool.cb[s], pool.cb[t], pool.cb[pool.pair[t]]} = {"udp", "ignore"}
  <2>1. ASSUME NEW s \in pool.live PROVE Whole(s)
    <3>1. CASE Alone(pool, s)
      BY <3>1 DEF Alone
    <3>2. CASE Mates(pool, pool.live, s)
      BY <3>2 DEF Mates, Matched
    <3>3. CASE Trio(pool, pool.live, s)
      <4>1. pool.cb[s] \in {"udp", "ignore"}
        BY <3>3 DEF Trio
      <4> QED BY <3>3, <4>1 DEF Trio
    <3> QED BY <2>0, <2>1, <3>1, <3>2, <3>3 DEF Sound, Rings, RingsIn
  <2> QED BY <2>0, <2>1 DEF RingsWhole, Sound, Rings
<1> QED BY <1>1, SoundAlways, PTL

(* set_timer and remove_timer keep the timers to those who expect a timeout.  *)
THEOREM OnlyTunnelsEverTimed == PoolSpec => []OnlyTunnelsTimed
<1>1. SoundInv => OnlyTunnelsTimed
  BY DEF SoundInv, Sound, Timed, ArmedIn, OnlyTunnelsTimed, Armed
<1> QED BY <1>1, SoundAlways, PTL

(* Every descriptor is closed with the event it belongs to, also when a       *)
(* callback gives up half-way.                                                *)
THEOREM FdsAlwaysOwned == PoolSpec => []FdsOwned
<1>1. SoundInv => FdsOwned
  BY DEF SoundInv, Sound, Fds, OwnedIn, FdsOwned
<1> QED BY <1>1, SoundAlways, PTL

(* The types of the pool and of the loop.                                     *)
THEOREM PoolTypeCorrect == PoolSpec => []PoolTypeOK
<1>1. IInv /\ SoundInv => PoolTypeOK
  <2> SUFFICES ASSUME IInv, SoundInv PROVE PoolTypeOK
    OBVIOUS
  <2>1. Rec(pool) /\ Fields(pool) /\ CurInv /\ pool.live \subseteq Slots
    BY DEF SoundInv, Sound, Base, Fields, Typed
  <2>2. pool \in [links : [Slots -> Slots], count : 0 .. Max,
               live : SUBSET Slots, touched : SUBSET Slots, died : SUBSET Slots, open : Int,
               index : [Slots -> Slots], cb : [Slots -> Callbacks],
               pair : [Slots -> Slots \cup {Nil}], conn : SUBSET Slots,
               left : [Slots -> Nat \cup {Nil}], next : [Slots -> Slots \cup {Nil}],
               prev : [Slots -> Slots \cup {Nil}],
               start : Slots \cup {Nil}, end : Slots \cup {Nil}]
    BY <2>1 DEF Rec, Fields, Typed
  <2>3. cur \in Slots \cup {Nil} /\ (phase = "callback" <=> cur # Nil)
    BY <2>1 DEF CurInv, Slots, Nil
  <2> QED BY <2>1, <2>2, <2>3 DEF PoolTypeOK, IInv, CurInv
<1> QED BY <1>1, InvAlways, SoundAlways, PTL

(* The way along tv_next is the list and then nothing.                        *)
LEMMA TimerWalkIs ==
  ASSUME NEW n \in 0 .. Max, NEW ord \in [1 .. n -> Slots], Chain(pool, n, ord)
  PROVE  \A i \in 0 .. Max : TimerWalk[i] = IF i < n THEN ord[i + 1] ELSE Nil
<1> DEFINE Step(x) == IF x = Nil THEN Nil ELSE pool.next[x]
           Eq(h) == h = [i \in 0 .. Max |-> IF i = 0 THEN pool.start ELSE Step(h[i - 1])]
           w == [i \in 0 .. Max |-> IF i < n THEN ord[i + 1] ELSE Nil]
<1>0. n \in Nat /\ Max \in Nat /\ \A x \in Slots : x # Nil
  BY MaxAssumption DEF Slots, Nil
<1>1. TimerWalk = CHOOSE h : Eq(h)
  BY DEF TimerWalk
<1>2. /\ 0 \in 0 .. Max /\ w[0] = pool.start
      /\ \A i \in 1 .. Max : i \in 0 .. Max /\ i - 1 \in 0 .. Max /\ w[i] = Step(w[i - 1])
  <2>1. 0 \in 0 .. Max /\ \A i \in 1 .. Max : i \in 0 .. Max /\ i - 1 \in 0 .. Max
    BY <1>0
  <2>2. w[0] = pool.start
    BY <1>0, <2>1 DEF Chain
  <2>3. ASSUME NEW i \in 1 .. Max PROVE w[i] = Step(w[i - 1])
    <3>1. /\ w[i] = IF i < n THEN ord[i + 1] ELSE Nil
          /\ w[i - 1] = IF i - 1 < n THEN ord[i] ELSE Nil
      BY <2>1
    <3>2. CASE i - 1 < n
      <4>1. i \in 1 .. n /\ (i = n <=> ~(i < n))
        BY <1>0, <3>2
      <4>2. ord[i] # Nil /\ pool.next[ord[i]] = IF i = n THEN Nil ELSE ord[i + 1]
        BY <1>0, <4>1 DEF Chain
      <4> QED BY <3>1, <3>2, <4>1, <4>2
    <3>3. CASE ~(i - 1 < n)
      <4>1. ~(i < n)
        BY <1>0, <3>3
      <4> QED BY <3>1, <3>3, <4>1
    <3> QED BY <3>2, <3>3
  <2> HIDE DEF w, Step
  <2> QED BY <2>1, <2>2, <2>3
<1>3. Eq(w)
  <2>1. \A i \in 0 .. Max : w[i] = IF i = 0 THEN pool.start ELSE Step(w[i - 1])
    <3> HIDE DEF w, Step
    <3> TAKE i \in 0 .. Max
    <3>1. i # 0 => i \in 1 .. Max
      BY <1>0
    <3> QED BY <3>1, <1>2
  <2>2. w = [i \in 0 .. Max |-> w[i]]
    OBVIOUS
  <2> HIDE DEF w, Step
  <2> QED BY <2>1, <2>2
<1> HIDE DEF w, Step
<1>4. Eq(TimerWalk)
  <2> HIDE DEF Eq
  <2> QED BY <1>1, <1>3
<1>5. \A i \in 0 .. Max : TimerWalk[i] = w[i]
  <2> DEFINE Bad == {i \in 0 .. Max : TimerWalk[i] # w[i]}
  <2>1. TimerWalk[0] = w[0] /\ \A i \in 1 .. Max : TimerWalk[i] = Step(TimerWalk[i - 1])
    <3>1. \A i \in 0 .. Max : TimerWalk[i] = IF i = 0 THEN pool.start ELSE Step(TimerWalk[i - 1])
      BY <1>4
    <3>2. \A i \in 1 .. Max : i # 0
      OBVIOUS
    <3> QED BY <1>2, <3>1, <3>2
  <2> SUFFICES ASSUME Bad # {} PROVE FALSE
    OBVIOUS
  <2>2. PICK m \in Bad : \A i \in Bad : m <= i
    <3>1. Bad \in SUBSET Nat
      BY <1>0
    <3> QED BY <3>1, LeastMember
  <2>3. m \in 1 .. Max /\ m - 1 \in 0 .. Max /\ ~(m <= m - 1)
    BY <2>1, <1>0
  <2>4. TimerWalk[m - 1] = w[m - 1]
    BY <2>2, <2>3
  <2> QED BY <1>2, <2>1, <2>3, <2>4
<1> QED BY <1>5 DEF w

(* Whatever is armed, fired, inserted or deleted, the list leads through all  *)
(* timers and only them, forwards and backwards, in the order they are due.   *)
THEOREM TimersAlwaysExact == PoolSpec => []TimersExact
<1>1. SoundInv => TimersExact
  <2> SUFFICES ASSUME SoundInv PROVE TimersExact
    OBVIOUS
  <2>1. PICK n \in 0 .. Max : \E ord \in [1 .. n -> Slots] : Chain(pool, n, ord)
    BY DEF SoundInv, Sound, Base, Timers
  <2> PICK ord \in [1 .. n -> Slots] : Chain(pool, n, ord)
    BY <2>1
  <2>0. n \in Nat /\ Max \in Nat /\ \A x \in Slots : x # Nil
    BY MaxAssumption DEF Slots, Nil
  <2>2. \A i \in 0 .. Max : TimerWalk[i] = IF i < n THEN ord[i + 1] ELSE Nil
    BY TimerWalkIs
  <2>3. \A s \in Slots : s \in Armed <=> \E i \in 1 .. n : ord[i] = s
    BY DEF Chain, Armed
  <2>4. {TimerWalk[i] : i \in 0 .. Max} \ {Nil} = Armed
    <3>1. ASSUME NEW i \in 0 .. Max, TimerWalk[i] # Nil PROVE TimerWalk[i] \in Armed
      <4>1. i + 1 \in 1 .. n /\ TimerWalk[i] = ord[i + 1]
        BY <2>0, <2>2, <3>1
      <4> QED BY <2>3, <4>1
    <3>2. ASSUME NEW s \in Armed PROVE s # Nil /\ \E i \in 0 .. Max : s = TimerWalk[i]
      <4>1. s \in Slots
        BY DEF Armed
      <4>2. PICK j \in 1 .. n : ord[j] = s
        BY <2>3, <4>1
      <4>3. j - 1 \in 0 .. Max /\ j - 1 < n /\ (j - 1) + 1 = j
        BY <2>0
      <4>4. TimerWalk[j - 1] = s
        BY <2>2, <4>2, <4>3
      <4> QED BY <2>0, <4>1, <4>3, <4>4
    <3> QED BY <3>1, <3>2
  <2>5. TimerWalk[Max] = Nil
    <3>1. Max \in 0 .. Max /\ ~(Max < n)
      BY <2>0
    <3> QED BY <2>2, <3>1
  <2>6. Armed \subseteq pool.live
    BY DEF SoundInv, Sound, Base, ArmedIn, Armed
  <2>7. pool.end = Nil <=> Armed = {}
    <3>1. CASE n = 0
      <4>1. pool.end = Nil /\ 1 .. n = {}
        BY <3>1 DEF Chain
      <4> QED BY <2>3, <4>1 DEF Armed
    <3>2. CASE n # 0
      <4>1. n \in 1 .. n /\ pool.end = ord[n]
        BY <2>0, <3>2 DEF Chain
      <4> QED BY <2>0, <2>3, <4>1
    <3> QED BY <3>1, <3>2
  <2>8. ASSUME NEW s \in Armed
        PROVE  /\ pool.next[s] = Nil <=> s = pool.end
               /\ pool.next[s] # Nil =>
                    pool.prev[pool.next[s]] = s /\ pool.left[s] <= pool.left[pool.next[s]]
               /\ pool.prev[s] = Nil <=> s = pool.start
    <3>1. s \in Slots
      BY DEF Armed
    <3>2. PICK k \in 1 .. n : ord[k] = s
      BY <2>3, <3>1
    <3>3. /\ pool.next[s] = IF k = n THEN Nil ELSE ord[k + 1]
          /\ pool.prev[s] = IF k = 1 THEN Nil ELSE ord[k - 1]
      BY <3>2 DEF Chain
    <3>4. n # 0 /\ 1 \in 1 .. n /\ n \in 1 .. n /\ pool.start = ord[1] /\ pool.end = ord[n]
      BY <2>0, <3>2 DEF Chain
    <3>5. (s = pool.end <=> k = n) /\ (s = pool.start <=> k = 1)
      BY <3>2, <3>4 DEF Chain
    <3>6. ASSUME k # n PROVE pool.next[s] # Nil /\ pool.prev[pool.next[s]] = s
                             /\ pool.left[s] <= pool.left[pool.next[s]]
      <4>1. k + 1 \in 1 .. n /\ k + 1 # 1 /\ (k + 1) - 1 = k /\ k <= k + 1
        BY <2>0, <3>6
      <4>2. pool.next[s] = ord[k + 1] /\ ord[k + 1] \in Slots
        BY <3>3, <3>6, <4>1
      <4>3. pool.prev[ord[k + 1]] = ord[k]
        BY <4>1 DEF Chain
      <4>4. pool.left[ord[k]] <= pool.left[ord[k + 1]]
        BY <4>1 DEF Chain
      <4> QED BY <2>0, <3>2, <4>2, <4>3, <4>4
    <3>7. ASSUME k # 1 PROVE pool.prev[s] # Nil
      <4>1. k - 1 \in 1 .. n
        BY <2>0, <3>7
      <4> QED BY <2>0, <3>3, <3>7, <4>1
    <3> QED BY <3>3, <3>5, <3>6, <3>7
  <2> QED BY <2>4, <2>5, <2>6, <2>7, <2>8 DEF TimersExact
<1> QED BY <1>1, SoundAlways, PTL
=============================================================================
