------------------------- MODULE DesyncGroups_proofs -------------------------
(***************************************************************************)
(* For any number of groups, connections and destinations: a request is sent *)
(* through a group whose filters accept it (SuitsInv); the list is whole,     *)
(* what names a group names one of it, and a request is tried with each group *)
(* once (GInv); the cache never has a destination refused that some group     *)
(* takes anyhow, and names the group a failed connection is tried with        *)
(* next (MasksInv).                                                          *)
(***************************************************************************)
EXTENDS DesyncGroups, FiniteSetTheorems, TLAPS

\* A set of places in the list has a first one: its interval from 1 contains no other.
LEMMA MinMember ==
  ASSUME NEW S \in SUBSET (Nat \ {0}), S # {}
  PROVE  Min(S) \in S /\ \A i \in S : Min(S) <= i
<1> DEFINE R == StrictSubsetOrdering(Nat)
           T == {1 .. i : i \in S}
<1>1. IsWellFoundedOn(R, FiniteSubsetsOf(Nat))
  BY FS_StrictSubsetOrderingWellFounded
<1>2. T \subseteq FiniteSubsetsOf(Nat) /\ T # {}
  <2>1. \A i \in S : 1 .. i \in SUBSET Nat /\ IsFiniteSet(1 .. i)
    BY FS_Interval
  <2> QED
    BY <2>1 DEF FiniteSubsetsOf
<1>3. \E x \in T : \A y \in T : ~(<<y, x>> \in R)
  <2> HIDE DEF R, T
  <2> QED
    BY <1>1, <1>2, WFMin
<1>4. PICK m \in S : \A y \in T : ~(<<y, 1 .. m>> \in R)
  BY <1>3
<1>5. ASSUME NEW y \in S
      PROVE  m <= y
  <2> SUFFICES ASSUME y < m
               PROVE  FALSE
    OBVIOUS
  <2>1. 1 .. y \in SUBSET Nat /\ 1 .. m \in SUBSET Nat /\ 1 .. y \subseteq 1 .. m /\ 1 .. y # 1 .. m
    <3>1. m \in 1 .. m /\ m \notin 1 .. y
      OBVIOUS
    <3> QED
      BY <3>1
  <2>2. <<1 .. y, 1 .. m>> \in R
    BY <2>1 DEF StrictSubsetOrdering
  <2> QED
    BY <1>4, <2>2
<1> QED
  BY <1>5 DEF Min

-----------------------------------------------------------------------------
(* find_dp.                                                                 *)

\* The fields of a connection.
Record(V) == [dst : V, kind : V, req : V, dp : V, mask : V, detect : V, tries : V]
Shaped(x) == \E V : x \in Record(V)

SameRequest(x, y) == y.dst = x.dst /\ y.kind = x.kind /\ y.req = x.req

\* Is the request of x, if there is one yet, sent through a group that accepts it?
Suited(x) == x.req # "none" => x.dst \in OnAddr[x.dp] /\ x.kind \in Suits[x.dp]

\* Assignments to the fields of a connection: by find_dp,
LEMMA GroupSet ==
  ASSUME NEW x, Shaped(x), NEW a, NEW b, NEW y, y = [x EXCEPT !.dp = a, !.mask = b]
  PROVE  Shaped(y) /\ SameRequest(x, y) /\ y.dp = a
<1>1. PICK V : x \in Record(V)
  BY DEF Shaped
<1>2. y \in Record(V \cup {a, b})
  BY <1>1 DEF Record
<1>3. SameRequest(x, y) /\ y.dp = a
  BY <1>1 DEF Record, SameRequest
<1> QED
  BY <1>2, <1>3 DEF Shaped

\* by reconnect,
LEMMA TriesSet ==
  ASSUME NEW x, Shaped(x), NEW a, NEW y, y = [x EXCEPT !.tries = a]
  PROVE  Shaped(y) /\ SameRequest(x, y) /\ y.dp = x.dp
<1>1. PICK V : x \in Record(V)
  BY DEF Shaped
<1>2. y \in Record(V \cup {a})
  BY <1>1 DEF Record
<1>3. SameRequest(x, y) /\ y.dp = x.dp
  BY <1>1 DEF Record, SameRequest
<1> QED
  BY <1>2, <1>3 DEF Shaped

\* when the request arrives.
LEMMA RequestSet ==
  ASSUME NEW x, Shaped(x), NEW a, NEW b, NEW y, y = [x EXCEPT !.kind = a, !.req = b]
  PROVE  Shaped(y) /\ y.req = b
<1>1. PICK V : x \in Record(V)
  BY DEF Shaped
<1>2. y \in Record(V \cup {a, b})
  BY <1>1 DEF Record
<1>3. y.req = b
  BY <1>1 DEF Record, SameRequest
<1> QED
  BY <1>2, <1>3 DEF Shaped

\* The group find_dp returns accepts the request, and nothing else about it changes.
LEMMA FindSuits ==
  ASSUME NEW L, NEW x, Shaped(x)
  PROVE  LET y == Find(L, x) IN
           /\ Shaped(y) /\ SameRequest(x, y)
           /\ y.dp # Null => Suited(y)
<1> DEFINE visited == Around(L, IF x.dp = Null THEN L.head ELSE x.dp)
           hits == {i \in Group : visited[i] \notin x.mask /\ Accepts(L, x, visited[i])}
           lost == [x EXCEPT !.dp = Null, !.mask = Group]
           first == visited[Min(hits)]
           passed == x.mask \cup {visited[i] : i \in 1 .. Min(hits) - 1}
           found == [x EXCEPT !.dp = first, !.mask = passed]
<1>1. Find(L, x) = IF hits = {} THEN lost ELSE found
  BY DEF Find
<1> HIDE DEF visited
<1>2. CASE hits = {}
  <2>1. Shaped(lost) /\ SameRequest(x, lost) /\ lost.dp = Null
    BY GroupSet
  <2> QED
    BY <1>1, <1>2, <2>1
<1>3. CASE hits # {}
  <2>1. hits \in SUBSET (Nat \ {0})
    BY GroupsAssumption DEF GroupsAssumption, Group
  <2>2. Accepts(L, x, visited[Min(hits)])
    <3>1. Min(hits) \in hits
      <4> HIDE DEF hits
      <4> QED
        BY <1>3, <2>1, MinMember
    <3> QED
      BY <3>1
  <2>3. Shaped(found) /\ SameRequest(x, found) /\ found.dp = first
    <3> HIDE DEF first, passed
    <3> QED
      BY GroupSet
  <2>4. Suited(found)
    <3> HIDE DEF hits, found, passed
    <3> QED
      BY <2>2, <2>3 DEF Accepts, Suited, SameRequest
  <2> QED
    <3> HIDE DEF hits, found, lost
    <3> QED
      BY <1>1, <1>3, <2>3, <2>4
<1> QED
  BY <1>2, <1>3

-----------------------------------------------------------------------------
(* The invariant: connections have their fields, and RequestSuits.            *)

SuitsInv ==
  /\ conn = [c \in Conn |-> conn[c]]
  /\ \A c \in Conn : Shaped(conn[c]) /\ Suited(conn[c])

\* A step that changes one connection, to one that is suited.
LEMMA OneChanges ==
  ASSUME SuitsInv, NEW c \in Conn, NEW x, conn' = [conn EXCEPT ![c] = x], Shaped(x), Suited(x)
  PROVE  SuitsInv'
<1> USE DEF SuitsInv
<1>1. conn' = [d \in Conn |-> IF d = c THEN x ELSE conn[d]]
  OBVIOUS
<1>2. conn' = [d \in Conn |-> conn'[d]]
  BY <1>1
<1>3. \A d \in Conn : conn'[d] = IF d = c THEN x ELSE conn[d]
  BY <1>1
<1>4. ASSUME NEW d \in Conn
      PROVE  Shaped(conn'[d]) /\ Suited(conn'[d])
  BY <1>3, Zenon
<1> QED
  BY <1>2, <1>4 DEF Shaped, Suited

LEMMA NoConnSuited == Shaped(NoConn) /\ Suited(NoConn)
<1>1. NoConn \in Record({"none", Null, {}, 0})
  BY DEF NoConn, Record
<1>2. Shaped(NoConn)
  BY <1>1 DEF Shaped
<1> QED
  BY <1>2 DEF NoConn, Suited

\* A trigger leaves the connection with a group that find_dp found, with the group it had,
\* or ends it.
LEMMA TriggerSuits ==
  ASSUME SuitsInv, NEW c \in Conn, NEW type, NEW can, NEW goesOn,
         Trigger(c, type, can, goesOn), goesOn => conn[c].req # "none"
  PROVE  SuitsInv'
<1> DEFINE x == conn[c]
           scan == Scan(groups, x, type, can)
           L == Sorted(groups, x, scan)
           marked == Marked(x, scan, type)
           again == Find(L, marked)
           retry == scan.next # Null /\ "noreconn" \notin L.level[scan.next] /\ can
           more == [again EXCEPT !.tries = @ + 1]
           kept == [marked EXCEPT !.mask = IF retry THEN again.mask ELSE @, !.req = "gone"]
           new == IF retry /\ again.dp # Null THEN more ELSE IF goesOn THEN kept ELSE NoConn
<1>1. conn' = [conn EXCEPT ![c] = new]
  BY DEF Trigger
<1>2. Shaped(x) /\ Suited(x)
  BY DEF SuitsInv
<1> HIDE DEF scan, L, retry
<1>3. Shaped(marked) /\ SameRequest(x, marked) /\ marked.dp = x.dp
  <2> DEFINE mask == Tried(x) \cup scan.passed
             y == [x EXCEPT !.mask = mask, !.detect = type]
  <2>1. marked = y
    BY DEF Marked
  <2>2. Shaped(y) /\ SameRequest(x, y) /\ y.dp = x.dp
    <3> HIDE DEF x, mask
    <3>1. PICK V : x \in Record(V)
      BY <1>2 DEF Shaped
    <3>2. y \in Record(V \cup {mask, type})
      BY <3>1 DEF Record
    <3> QED
      BY <3>1, <3>2 DEF Shaped, Record, SameRequest
  <2> HIDE DEF x, marked, mask, y
  <2> QED
    BY <2>1, <2>2
<1> HIDE DEF marked
<1>4. Shaped(again) /\ (again.dp # Null => Suited(again))
  BY <1>3, FindSuits
<1> HIDE DEF again
<1>5. again.dp # Null => Shaped(more) /\ Suited(more)
  BY <1>4, TriesSet DEF Suited, SameRequest
<1>6. goesOn => Shaped(kept) /\ Suited(kept)
  <2> HIDE DEF x
  <2> SUFFICES ASSUME goesOn
               PROVE  Shaped(kept) /\ Suited(kept)
    OBVIOUS
  <2>1. x.req # "none"
    BY DEF x
  <2> DEFINE mask == IF retry THEN again.mask ELSE marked.mask
  <2> HIDE DEF mask
  <2>2. Shaped(kept) /\ kept.dst = marked.dst /\ kept.kind = marked.kind /\ kept.dp = marked.dp
    <3> DEFINE y == [marked EXCEPT !.mask = mask, !.req = "gone"]
    <3>1. kept = y
      BY DEF mask
    <3>2. Shaped(y) /\ y.dst = marked.dst /\ y.kind = marked.kind /\ y.dp = marked.dp
      <4>1. PICK V : marked \in Record(V)
        BY <1>3 DEF Shaped
      <4>2. y \in Record(V \cup {mask, "gone"})
        BY <4>1 DEF Record
      <4> QED
        BY <4>1, <4>2 DEF Shaped, Record
    <3> HIDE DEF kept, y
    <3> QED
      BY <3>1, <3>2
  <2> QED
    BY <1>2, <1>3, <2>1, <2>2 DEF Suited, SameRequest
<1>7. Shaped(new) /\ Suited(new)
  <2> HIDE DEF more, kept
  <2> QED
    BY <1>5, <1>6, NoConnSuited
<1> HIDE DEF new
<1> QED
  BY <1>1, <1>7, OneChanges

LEMMA FreshSuited == \A d : Shaped(Fresh(d)) /\ Fresh(d).req = "none"
<1> SUFFICES ASSUME NEW d
             PROVE  Shaped(Fresh(d)) /\ Fresh(d).req = "none"
  OBVIOUS
<1> DEFINE dp == IF cache[d].old THEN Null ELSE cache[d].dp
           mask == IF cache[d].old THEN {} ELSE cache[d].mask
           detect == IF cache[d].old THEN {} ELSE cache[d].detect
           record == [dst |-> d, kind |-> "none", req |-> "none",
                      dp |-> dp, mask |-> mask, detect |-> detect, tries |-> 0]
<1>1. Fresh(d) = record
  <2>1. Fresh(d) = [NoConn EXCEPT !.dst = d, !.dp = dp, !.mask = mask, !.detect = detect]
    BY DEF Fresh
  <2> HIDE DEF dp, mask, detect
  <2> QED
    BY <2>1 DEF NoConn
<1> HIDE DEF dp, mask, detect
<1>2. Fresh(d) \in Record({d, "none", dp, mask, detect, 0})
  BY <1>1 DEF Record
<1> QED
  BY <1>1, <1>2 DEF Shaped

-----------------------------------------------------------------------------
(* The theorem.                                                             *)

LEMMA SuitsInit == Init => SuitsInv
  BY NoConnSuited DEF Init, SuitsInv

LEMMA SuitsInductive ==
  ASSUME SuitsInv, [Next]_vars
  PROVE  SuitsInv'
<1>1. ASSUME UNCHANGED conn
      PROVE  SuitsInv'
  BY <1>1 DEF SuitsInv, Shaped, Suited
<1>2. ASSUME NEW c \in Conn, NEW d \in Dest, Open(c, d)
      PROVE  SuitsInv'
  <2> DEFINE x == Find(groups, Fresh(d))
  <2>1. Shaped(x) /\ x.req = "none"
    BY FreshSuited, FindSuits DEF SameRequest
  <2>2. UNCHANGED conn \/ conn' = [conn EXCEPT ![c] = x]
    BY <1>2 DEF Open
  <2> HIDE DEF x
  <2> QED
    BY <1>1, <2>1, <2>2, OneChanges DEF Suited
<1>3. ASSUME NEW c \in Conn, NEW k \in Kind, NEW kept \in BOOLEAN, Request(c, k, kept)
      PROVE  SuitsInv'
  <2> DEFINE req == IF kept THEN "kept" ELSE "gone"
             asked == [conn[c] EXCEPT !.kind = k, !.req = req]
             x == Find(groups, asked)
             new == IF x.dp = Null THEN NoConn ELSE x
  <2>1. conn' = [conn EXCEPT ![c] = new]
    BY <1>3 DEF Request
  <2>2. Shaped(asked)
    <3>1. Shaped(conn[c])
      BY DEF SuitsInv
    <3> HIDE DEF req
    <3> QED
      BY <3>1, RequestSet
  <2> HIDE DEF asked
  <2>3. Shaped(x) /\ (x.dp # Null => Suited(x))
    BY <2>2, FindSuits
  <2> HIDE DEF x
  <2>4. Shaped(new) /\ Suited(new)
    BY <2>3, NoConnSuited
  <2> HIDE DEF new
  <2> QED
    BY <2>1, <2>4, OneChanges
<1>4. ASSUME NEW c \in Conn, ServerResets(c) \/ ConnectFails(c)
      PROVE  SuitsInv'
  BY <1>4, TriggerSuits DEF ServerResets, ConnectFails
<1>5. ASSUME NEW c \in Conn, NEW alive \in BOOLEAN, FirstRoundEnds(c, alive)
      PROVE  SuitsInv'
  BY <1>5, TriggerSuits DEF FirstRoundEnds
<1>6. ASSUME NEW c \in Conn, Answers(c)
      PROVE  SuitsInv'
  <2> DEFINE old == conn[c]
             mask == old.mask \cup {old.dp}
             x == [old EXCEPT !.mask = mask, !.req = "gone"]
  <2>1. Shaped(old) /\ Suited(old) /\ old.req = "kept"
    BY <1>6 DEF SuitsInv, Answers
  <2>2. conn' = [conn EXCEPT ![c] = x]
    BY <1>6 DEF Answers, SuitsInv
  <2> HIDE DEF mask, old
  <2>3. Shaped(x) /\ Suited(x)
    <3>1. Shaped(x) /\ x.dst = old.dst /\ x.kind = old.kind /\ x.dp = old.dp
      <4>1. PICK V : old \in Record(V)
        BY <2>1 DEF Shaped
      <4>2. x \in Record(V \cup {mask, "gone"})
        BY <4>1 DEF Record
      <4> QED
        BY <4>1, <4>2 DEF Shaped, Record
    <3> HIDE DEF x
    <3> QED
      BY <2>1, <3>1 DEF Suited
  <2> HIDE DEF x
  <2> QED
    BY <2>2, <2>3, OneChanges
<1>7. ASSUME NEW c \in Conn, NEW fault, AnswersWrong(c, fault)
      PROVE  SuitsInv'
  <2>1. conn[c].req # "none"
    BY <1>7 DEF AnswersWrong
  <2>2. \E type : Trigger(c, type, TRUE, TRUE)
    BY <1>7 DEF AnswersWrong
  <2> QED
    BY <2>1, <2>2, TriggerSuits
<1>8. ASSUME NEW c \in Conn, Ends(c)
      PROVE  SuitsInv'
  BY <1>8, NoConnSuited, OneChanges DEF Ends
<1>9. ASSUME NEW d \in Dest, Expires(d)
      PROVE  SuitsInv'
  BY <1>1, <1>9 DEF Expires
<1> QED
  BY <1>1, <1>2, <1>3, <1>4, <1>5, <1>6, <1>7, <1>8, <1>9 DEF Next, vars

\* For any number of groups, connections and destinations, in whatever order groups have been
\* swopped and whatever the cache says: a request goes through a group whose filters accept it.
THEOREM RequestAlwaysSuits == Spec => []RequestSuits
<1>1. SuitsInv => RequestSuits
  BY DEF SuitsInv, Suited, RequestSuits
<1> QED
  BY <1>1, SuitsInit, SuitsInductive, PTL DEF Spec

-----------------------------------------------------------------------------
(* The list of groups.                                                      *)

LEMMA ConstantsDG ==
  /\ N \in Nat \ {0} /\ Group = 1 .. N /\ Null = 0 /\ Null \notin Group
  /\ Group \in SUBSET (Nat \ {0})
  BY GroupsAssumption DEF Group, Null

ListType == [head : Group, next : [Group -> Group \cup {Null}], prev : [Group -> Group \cup {Null}],
             detect : [Group -> SUBSET Fault], level : [Group -> SUBSET Mode],
             pri : [Group -> Nat]]

\* The list is the sequence p of all groups, read from either end.
Order(L, p) ==
  /\ p \in [Group -> Group]
  /\ \A i, j \in Group : p[i] = p[j] => i = j
  /\ \A g \in Group : \E i \in Group : p[i] = g
  /\ L.head = p[1]
  /\ \A i \in 1 .. N - 1 : L.next[p[i]] = p[i + 1] /\ L.prev[p[i + 1]] = p[i]
  /\ L.next[p[N]] = Null /\ L.prev[p[1]] = Null

\* What a recursive function is, if some function satisfies its equation.
LEMMA PathEquation ==
  ASSUME NEW L, NEW p, Order(L, p)
  PROVE  Path(L) = [i \in Group |-> IF i = 1 THEN L.head
                                    ELSE IF Path(L)[i - 1] = Null THEN Null ELSE L.next[Path(L)[i - 1]]]
<1> DEFINE Eq(h) == h = [i \in Group |-> IF i = 1 THEN L.head
                                         ELSE IF h[i - 1] = Null THEN Null ELSE L.next[h[i - 1]]]
<1>1. Path(L) = CHOOSE h : Eq(h)
  BY DEF Path
<1>2. Eq(p)
  <2> DEFINE q == [i \in Group |-> IF i = 1 THEN L.head
                                   ELSE IF p[i - 1] = Null THEN Null ELSE L.next[p[i - 1]]]
  <2>1. ASSUME NEW i \in Group PROVE p[i] = q[i]
    <3>1. CASE i = 1
      BY <3>1 DEF Order
    <3>2. CASE i # 1
      <4>1. i - 1 \in 1 .. N - 1 /\ i - 1 \in Group /\ (i - 1) + 1 = i
        BY <3>2, ConstantsDG
      <4>2. p[i - 1] \in Group /\ L.next[p[i - 1]] = p[i]
        BY <4>1 DEF Order
      <4> QED  BY <3>2, <4>2, ConstantsDG
    <3> QED  BY <3>1, <3>2
  <2>2. p = [i \in Group |-> p[i]]
    BY DEF Order
  <2> QED  BY <2>1, <2>2
<1> HIDE DEF Eq
<1>3. Eq(Path(L))
  BY <1>1, <1>2
<1> QED  BY <1>3 DEF Eq

LEMMA PathIsOrder ==
  ASSUME NEW L, NEW p, Order(L, p)
  PROVE  Path(L) = p
<1> DEFINE f == Path(L)
           Bad == {i \in Group : f[i] # p[i]}
<1>1. f = [i \in Group |-> IF i = 1 THEN L.head ELSE IF f[i - 1] = Null THEN Null ELSE L.next[f[i - 1]]]
  BY PathEquation
<1> HIDE DEF f
<1>2. Bad = {}
  <2> SUFFICES ASSUME Bad # {} PROVE FALSE
    OBVIOUS
  <2>1. Min(Bad) \in Bad /\ \A i \in Bad : Min(Bad) <= i
    BY MinMember, ConstantsDG
  <2>2. PICK m \in Group : f[m] # p[m] /\ \A i \in Group : f[i] # p[i] => m <= i
    BY <2>1
  <2>3. m # 1
    BY <1>1, <2>2, ConstantsDG DEF Order
  <2>4. m - 1 \in 1 .. N - 1 /\ m - 1 \in Group /\ (m - 1) + 1 = m /\ ~(m <= m - 1)
    BY <2>3, ConstantsDG
  <2>5. f[m - 1] = p[m - 1]
    BY <2>2, <2>4
  <2>6. f[m] = L.next[p[m - 1]]
    <3>1. p[m - 1] # Null
      BY <2>4, ConstantsDG DEF Order
    <3>2. f[m] = IF m = 1 THEN L.head ELSE IF f[m - 1] = Null THEN Null ELSE L.next[f[m - 1]]
      BY <1>1
    <3> QED  BY <2>3, <2>5, <3>1, <3>2
  <2>7. L.next[p[m - 1]] = p[m]
    BY <2>4 DEF Order
  <2> QED  BY <2>2, <2>6, <2>7
<1>3. f = [i \in Group |-> f[i]] /\ p = [i \in Group |-> p[i]]
  <2>1. f = [i \in Group |-> f[i]]
    BY <1>1
  <2>2. p \in [Group -> Group]
    BY DEF Order
  <2> QED  BY <2>1, <2>2
<1> QED  BY <1>2, <1>3 DEF f

\* The groups from the k-th on, once around.
Turn(p, k) == [i \in Group |-> IF k + i - 1 <= N THEN p[k + i - 1] ELSE p[k + i - 1 - N]]

LEMMA AroundIsTurn ==
  ASSUME NEW L, NEW p, Order(L, p), NEW k \in Group
  PROVE  Around(L, p[k]) = Turn(p, k)
<1> DEFINE Eq(h) == h = [i \in Group |-> IF i = 1 THEN p[k]
                                         ELSE IF L.next[h[i - 1]] = Null THEN L.head ELSE L.next[h[i - 1]]]
           w == Turn(p, k)
           f == Around(L, p[k])
<1>1. f = CHOOSE h : Eq(h)
  BY DEF Around
<1>2. w = [i \in Group |-> w[i]]
  BY DEF Turn
<1>3. w[1] = p[k]
  BY ConstantsDG DEF Turn
<1>4. ASSUME NEW i \in Group, i # 1
      PROVE  w[i] = IF L.next[w[i - 1]] = Null THEN L.head ELSE L.next[w[i - 1]]
  <2>1. i - 1 \in Group
    BY <1>4, ConstantsDG
  <2>2. CASE k + i - 1 <= N
    <3>1. k + i - 2 \in 1 .. N - 1 /\ k + i - 1 \in Group /\ (k + i - 2) + 1 = k + i - 1
          /\ k + (i - 1) - 1 = k + i - 2 /\ k + (i - 1) - 1 <= N
      BY <1>4, <2>2, ConstantsDG
    <3>2. w[i - 1] = p[k + i - 2] /\ w[i] = p[k + i - 1]
      BY <2>1, <2>2, <3>1 DEF Turn
    <3>3. L.next[p[k + i - 2]] = p[k + i - 1] /\ p[k + i - 1] \in Group
      BY <3>1 DEF Order
    <3> QED  BY <3>2, <3>3, ConstantsDG
  <2>3. CASE k + i - 1 = N + 1
    <3>1. k + (i - 1) - 1 = N /\ k + i - 1 - N = 1 /\ ~(k + i - 1 <= N)
      BY <2>3, ConstantsDG
    <3>2. w[i - 1] = p[N] /\ w[i] = p[1]
      BY <2>1, <3>1, ConstantsDG DEF Turn
    <3> QED  BY <3>2 DEF Order
  <2>4. CASE k + i - 1 > N + 1
    <3>1. /\ k + i - 2 - N \in 1 .. N - 1 /\ k + i - 1 - N \in Group
          /\ (k + i - 2 - N) + 1 = k + i - 1 - N
          /\ k + (i - 1) - 1 - N = k + i - 2 - N /\ ~(k + (i - 1) - 1 <= N) /\ ~(k + i - 1 <= N)
      BY <1>4, <2>4, ConstantsDG
    <3>2. w[i - 1] = p[k + i - 2 - N] /\ w[i] = p[k + i - 1 - N]
      BY <2>1, <3>1 DEF Turn
    <3>3. L.next[p[k + i - 2 - N]] = p[k + i - 1 - N] /\ p[k + i - 1 - N] \in Group
      BY <3>1 DEF Order
    <3> QED  BY <3>2, <3>3, ConstantsDG
  <2> QED  BY <2>2, <2>3, <2>4, ConstantsDG
<1> HIDE DEF w
<1>5. Eq(w)
  BY <1>2, <1>3, <1>4
<1>6. Eq(f)
  <2> HIDE DEF Eq, f
  <2> QED  BY <1>1, <1>5
<1> HIDE DEF f
<1> DEFINE Bad == {i \in Group : f[i] # w[i]}
<1>7. Bad = {}
  <2> SUFFICES ASSUME Bad # {} PROVE FALSE
    OBVIOUS
  <2>1. Min(Bad) \in Bad /\ \A i \in Bad : Min(Bad) <= i
    BY MinMember, ConstantsDG
  <2>2. PICK m \in Group : f[m] # w[m] /\ \A i \in Group : f[i] # w[i] => m <= i
    BY <2>1
  <2>3. m # 1
    BY <1>3, <1>6, <2>2, ConstantsDG
  <2>4. m - 1 \in Group /\ ~(m <= m - 1)
    BY <2>3, ConstantsDG
  <2>5. f[m - 1] = w[m - 1]
    BY <2>2, <2>4
  <2>6. f[m] = IF L.next[w[m - 1]] = Null THEN L.head ELSE L.next[w[m - 1]]
    BY <1>6, <2>3, <2>5
  <2> QED  BY <1>4, <2>2, <2>3, <2>6
<1>8. f = [i \in Group |-> f[i]]
  BY <1>6
<1> QED  BY <1>2, <1>7, <1>8 DEF f, w

-----------------------------------------------------------------------------
(* swop_groups.                                                             *)

Exchange(p, a, b) == [p EXCEPT ![a] = p[b], ![b] = p[a]]

\* Every group has one place.
Permutes(p) ==
  /\ p \in [Group -> Group]
  /\ \A i, j \in Group : p[i] = p[j] => i = j
  /\ \A g \in Group : \E i \in Group : p[i] = g

LEMMA ExchangeOrder ==
  ASSUME NEW p, Permutes(p), NEW a \in Group, NEW b \in Group, a # b
  PROVE  /\ Permutes(Exchange(p, a, b))
         /\ Exchange(p, a, b)[a] = p[b] /\ Exchange(p, a, b)[b] = p[a]
         /\ \A i \in Group : i # a /\ i # b => Exchange(p, a, b)[i] = p[i]
<1> USE DEF Permutes
<1> DEFINE q == Exchange(p, a, b)
<1>1. q \in [Group -> Group] /\ q[a] = p[b] /\ q[b] = p[a]
  BY DEF Exchange
<1>2. \A i \in Group : i # a /\ i # b => q[i] = p[i]
  BY DEF Exchange
<1> HIDE DEF q
<1>3. \A i, j \in Group : q[i] = q[j] => i = j
  BY <1>1, <1>2
<1>4. ASSUME NEW g \in Group PROVE \E i \in Group : q[i] = g
  <2>1. PICK i \in Group : p[i] = g
    OBVIOUS
  <2>2. CASE i = a
    BY <1>1, <2>1, <2>2
  <2>3. CASE i = b
    BY <1>1, <2>1, <2>3
  <2>4. CASE i # a /\ i # b
    BY <1>2, <2>1, <2>4
  <2> QED  BY <2>2, <2>3, <2>4
<1> QED  BY <1>1, <1>2, <1>3, <1>4 DEF q

\* The fields of a list that was swopped: the two groups change places, and exchange their
\* faults and modes.
LEMMA SwopFields ==
  ASSUME NEW L \in ListType, NEW p, Order(L, p), NEW a \in Group, NEW b \in Group, a < b
  PROVE  LET M == Swop(L, p[a], p[b]) IN
         /\ M \in ListType /\ M.pri = L.pri
         /\ M.head = IF a = 1 THEN p[b] ELSE L.head
         /\ \A g \in Group : M.next[g] =
              IF g = p[a] THEN L.next[p[b]]
              ELSE IF g = p[b] THEN (IF b = a + 1 THEN p[a] ELSE p[a + 1])
              ELSE IF b # a + 1 /\ g = p[b - 1] THEN p[a]
              ELSE IF a > 1 /\ g = p[a - 1] THEN p[b] ELSE L.next[g]
         /\ \A g \in Group : M.prev[g] =
              IF g = p[b] THEN L.prev[p[a]]
              ELSE IF g = p[a] THEN (IF b = a + 1 THEN p[b] ELSE p[b - 1])
              ELSE IF b # a + 1 /\ g = p[a + 1] THEN p[b]
              ELSE IF b < N /\ g = p[b + 1] THEN p[a] ELSE L.prev[g]
<1> DEFINE X == p[a]
           Y == p[b]
           near == L.next[X] = Y
           next1 == [L.next EXCEPT ![X] = L.next[Y], ![Y] = L.next[X]]
           prev1 == [L.prev EXCEPT ![X] = L.prev[Y], ![Y] = L.prev[X]]
           next2 == IF prev1[Y] = Null THEN next1 ELSE [next1 EXCEPT ![prev1[Y]] = Y]
           prev2 == IF next2[X] = Null THEN prev1 ELSE [prev1 EXCEPT ![next2[X]] = X]
           prev3 == IF near THEN [prev2 EXCEPT ![X] = Y] ELSE [prev2 EXCEPT ![next2[Y]] = Y]
           next3 == IF near THEN [next2 EXCEPT ![Y] = X] ELSE [next2 EXCEPT ![prev3[X]] = X]
           Exch(f) == [f EXCEPT ![X] = f[Y], ![Y] = f[X]]
           M == Swop(L, X, Y)
<1>1. M = [L EXCEPT !.next = next3, !.prev = prev3, !.detect = Exch(@), !.level = Exch(@),
                    !.head = IF @ = X THEN Y ELSE @]
  BY DEF Swop
<1> USE ConstantsDG
<1>2. /\ X \in Group /\ Y \in Group /\ X # Y
      /\ a + 1 \in Group /\ b - 1 \in Group /\ b # 1 /\ a # N /\ a \in 1 .. N - 1 /\ b - 1 \in 1 .. N - 1
      /\ (b - 1) + 1 = b
  BY DEF Order
<1>a. \A i, j \in Group : p[i] = p[j] => i = j
  BY DEF Order
<1>b. L.head = p[1] /\ 1 \in Group
  BY DEF Order
<1>3. L.next \in [Group -> Group \cup {Null}] /\ L.prev \in [Group -> Group \cup {Null}]
  BY DEF ListType
<1>4. L.next[X] = p[a + 1] /\ L.prev[Y] = p[b - 1] /\ p[a + 1] \in Group /\ p[b - 1] \in Group
  <2>1. L.next[p[a]] = p[a + 1] /\ L.prev[p[(b - 1) + 1]] = p[b - 1]
    BY <1>2 DEF Order
  <2> QED  BY <1>2, <2>1 DEF Order
<1>5. near <=> b = a + 1
  <2>1. near <=> p[a + 1] = p[b]
    BY <1>4
  <2>2. p[a + 1] = p[b] <=> a + 1 = b
    BY <1>2, <1>a
  <2> QED  BY <2>1, <2>2
<1>6. /\ a = 1 => L.prev[X] = Null
      /\ a > 1 => /\ a - 1 \in Group /\ L.prev[X] = p[a - 1] /\ p[a - 1] \in Group
                  /\ p[a - 1] # X /\ p[a - 1] # Y
  <2>1. CASE a = 1
    BY <2>1 DEF Order
  <2>2. CASE a > 1
    <3>1. a - 1 \in 1 .. N - 1 /\ a - 1 \in Group /\ (a - 1) + 1 = a /\ a - 1 # a /\ a - 1 # b
      BY <2>2
    <3>2. L.prev[p[(a - 1) + 1]] = p[a - 1]
      BY <3>1 DEF Order
    <3> QED  BY <2>2, <3>1, <3>2 DEF Order
  <2> QED  BY <2>1, <2>2
<1>7. /\ b = N => L.next[Y] = Null
      /\ b < N => /\ b + 1 \in Group /\ L.next[Y] = p[b + 1] /\ p[b + 1] \in Group
                  /\ p[b + 1] # X /\ p[b + 1] # Y
  <2>1. CASE b = N
    BY <2>1 DEF Order
  <2>2. CASE b < N
    <3>1. b \in 1 .. N - 1 /\ b + 1 \in Group /\ b + 1 # a /\ b + 1 # b
      BY <2>2
    <3> QED  BY <2>2, <3>1 DEF Order
  <2> QED  BY <2>1, <2>2
<1>8. b # a + 1 => p[a + 1] # X /\ p[a + 1] # Y /\ p[b - 1] # X /\ p[b - 1] # Y
  <2> SUFFICES ASSUME b # a + 1 PROVE a + 1 # a /\ a + 1 # b /\ b - 1 # a /\ b - 1 # b
    BY <1>2 DEF Order
  <2> QED  OBVIOUS
<1> HIDE DEF X, Y, near
<1>9. /\ next1 \in [Group -> Group \cup {Null}] /\ prev1 \in [Group -> Group \cup {Null}]
      /\ \A g \in Group : next1[g] = IF g = X THEN L.next[Y] ELSE IF g = Y THEN p[a + 1] ELSE L.next[g]
      /\ \A g \in Group : prev1[g] = IF g = Y THEN L.prev[X] ELSE IF g = X THEN p[b - 1] ELSE L.prev[g]
  <2>1. L.next[X] \in Group \cup {Null} /\ L.next[Y] \in Group \cup {Null}
        /\ L.prev[X] \in Group \cup {Null} /\ L.prev[Y] \in Group \cup {Null}
    BY <1>2, <1>3
  <2>2. next1 \in [Group -> Group \cup {Null}] /\ prev1 \in [Group -> Group \cup {Null}]
    BY <1>2, <1>3, <2>1
  <2>3. \A g \in Group : next1[g] = IF g = X THEN L.next[Y] ELSE IF g = Y THEN L.next[X] ELSE L.next[g]
    BY <1>2, <1>3
  <2>4. \A g \in Group : prev1[g] = IF g = Y THEN L.prev[X] ELSE IF g = X THEN L.prev[Y] ELSE L.prev[g]
    BY <1>2, <1>3
  <2> QED  BY <1>4, <2>2, <2>3, <2>4
<1> HIDE DEF next1, prev1
<1>10. /\ next2 \in [Group -> Group \cup {Null}]
       /\ \A g \in Group : next2[g] = IF a > 1 /\ g = p[a - 1] THEN Y ELSE next1[g]
       /\ next2[X] = L.next[Y] /\ next2[Y] = p[a + 1]
  <2>1. prev1[Y] = L.prev[X]
    BY <1>2, <1>9
  <2>2. CASE a = 1
    BY <1>2, <1>6, <1>9, <2>1, <2>2
  <2>3. CASE a > 1
    BY <1>2, <1>6, <1>9, <2>1, <2>3
  <2> QED  BY <2>2, <2>3
<1> HIDE DEF next2
<1>11. /\ prev2 \in [Group -> Group \cup {Null}]
       /\ \A g \in Group : prev2[g] = IF b < N /\ g = p[b + 1] THEN X ELSE prev1[g]
       /\ prev2[X] = p[b - 1]
  <2>1. CASE b = N
    BY <1>2, <1>7, <1>9, <1>10, <2>1
  <2>2. CASE b < N
    BY <1>2, <1>7, <1>9, <1>10, <2>2
  <2> QED  BY <2>1, <2>2
<1> HIDE DEF prev2
<1>12. /\ prev3 \in [Group -> Group \cup {Null}]
       /\ \A g \in Group : prev3[g] =
            IF b = a + 1 THEN (IF g = X THEN Y ELSE prev2[g])
            ELSE IF g = p[a + 1] THEN Y ELSE prev2[g]
       /\ b # a + 1 => prev3[X] = p[b - 1]
  <2>1. CASE b = a + 1
    BY <1>2, <1>5, <1>11, <2>1
  <2>2. CASE b # a + 1
    BY <1>2, <1>4, <1>5, <1>8, <1>10, <1>11, <2>2
  <2> QED  BY <2>1, <2>2
<1> HIDE DEF prev3
<1>13. /\ next3 \in [Group -> Group \cup {Null}]
       /\ \A g \in Group : next3[g] =
            IF b = a + 1 THEN (IF g = Y THEN X ELSE next2[g])
            ELSE IF g = p[b - 1] THEN X ELSE next2[g]
  <2>1. CASE b = a + 1
    BY <1>2, <1>5, <1>10, <2>1
  <2>2. CASE b # a + 1
    BY <1>2, <1>4, <1>5, <1>10, <1>12, <2>2
  <2> QED  BY <2>1, <2>2
<1> HIDE DEF next3
<1>14. ASSUME NEW g \in Group
       PROVE  next3[g] = IF g = X THEN L.next[Y]
              ELSE IF g = Y THEN (IF b = a + 1 THEN X ELSE p[a + 1])
              ELSE IF b # a + 1 /\ g = p[b - 1] THEN X
              ELSE IF a > 1 /\ g = p[a - 1] THEN Y ELSE L.next[g]
  BY <1>2, <1>6, <1>8, <1>9, <1>10, <1>13
<1>15. ASSUME NEW g \in Group
       PROVE  prev3[g] = IF g = Y THEN L.prev[X]
              ELSE IF g = X THEN (IF b = a + 1 THEN Y ELSE p[b - 1])
              ELSE IF b # a + 1 /\ g = p[a + 1] THEN Y
              ELSE IF b < N /\ g = p[b + 1] THEN X ELSE L.prev[g]
  BY <1>2, <1>7, <1>8, <1>9, <1>11, <1>12
<1>16. Exch(L.detect) \in [Group -> SUBSET Fault] /\ Exch(L.level) \in [Group -> SUBSET Mode]
  BY <1>2 DEF ListType
<1>17. M \in ListType /\ M.pri = L.pri /\ M.next = next3 /\ M.prev = prev3
       /\ M.head = IF L.head = X THEN Y ELSE L.head
  <2> DEFINE D == Exch(L.detect)
             V == Exch(L.level)
             h == IF L.head = X THEN Y ELSE L.head
  <2>1. M = [L EXCEPT !.next = next3, !.prev = prev3, !.detect = D, !.level = V, !.head = h]
    BY <1>1 DEF ListType
  <2>2. D \in [Group -> SUBSET Fault] /\ V \in [Group -> SUBSET Mode] /\ h \in Group
    BY <1>2, <1>16 DEF ListType
  <2> HIDE DEF D, V, M
  <2>3. M \in ListType /\ M.pri = L.pri /\ M.next = next3 /\ M.prev = prev3 /\ M.head = h
    <3> HIDE DEF h
    <3> QED  BY <1>12, <1>13, <2>1, <2>2 DEF ListType
  <2> QED  BY <2>3
<1>18. L.head = X <=> a = 1
  BY <1>a, <1>b DEF X
<1> HIDE DEF M
<1>19. M \in ListType /\ M.pri = L.pri /\ M.head = IF a = 1 THEN Y ELSE L.head
  BY <1>17, <1>18
<1> QED  BY <1>14, <1>15, <1>17, <1>19 DEF X, Y, M

\* The neighbours of a group of a list that was swopped, by its place before.
LEMMA SwopPlaces ==
  ASSUME NEW L \in ListType, NEW p, Order(L, p), NEW a \in Group, NEW b \in Group, a < b
  PROVE  LET M == Swop(L, p[a], p[b]) IN
         /\ \A i \in Group : M.next[p[i]] =
              IF i = a THEN L.next[p[b]]
              ELSE IF i = b THEN (IF b = a + 1 THEN p[a] ELSE p[a + 1])
              ELSE IF b # a + 1 /\ i = b - 1 THEN p[a]
              ELSE IF a > 1 /\ i = a - 1 THEN p[b] ELSE L.next[p[i]]
         /\ \A i \in Group : M.prev[p[i]] =
              IF i = b THEN L.prev[p[a]]
              ELSE IF i = a THEN (IF b = a + 1 THEN p[b] ELSE p[b - 1])
              ELSE IF b # a + 1 /\ i = a + 1 THEN p[b]
              ELSE IF b < N /\ i = b + 1 THEN p[a] ELSE L.prev[p[i]]
<1> DEFINE M == Swop(L, p[a], p[b])
<1>1. \A i, j \in Group : p[i] = p[j] <=> i = j
  BY DEF Order
<1>2. \A i \in Group : p[i] \in Group
  BY DEF Order
<1>3. a + 1 \in Group /\ b - 1 \in Group /\ (a > 1 => a - 1 \in Group) /\ (b < N => b + 1 \in Group)
  BY ConstantsDG
<1>4. /\ \A g \in Group : M.next[g] =
           IF g = p[a] THEN L.next[p[b]]
           ELSE IF g = p[b] THEN (IF b = a + 1 THEN p[a] ELSE p[a + 1])
           ELSE IF b # a + 1 /\ g = p[b - 1] THEN p[a]
           ELSE IF a > 1 /\ g = p[a - 1] THEN p[b] ELSE L.next[g]
      /\ \A g \in Group : M.prev[g] =
           IF g = p[b] THEN L.prev[p[a]]
           ELSE IF g = p[a] THEN (IF b = a + 1 THEN p[b] ELSE p[b - 1])
           ELSE IF b # a + 1 /\ g = p[a + 1] THEN p[b]
           ELSE IF b < N /\ g = p[b + 1] THEN p[a] ELSE L.prev[g]
  BY SwopFields
<1> HIDE DEF M
<1>5. ASSUME NEW i \in Group
      PROVE  /\ p[i] = p[a] <=> i = a
             /\ p[i] = p[b] <=> i = b
             /\ p[i] = p[b - 1] <=> i = b - 1
             /\ p[i] = p[a + 1] <=> i = a + 1
             /\ a > 1 => (p[i] = p[a - 1] <=> i = a - 1)
             /\ b < N => (p[i] = p[b + 1] <=> i = b + 1)
  BY <1>1, <1>3
<1>6. ASSUME NEW i \in Group
      PROVE  M.next[p[i]] =
              IF i = a THEN L.next[p[b]]
              ELSE IF i = b THEN (IF b = a + 1 THEN p[a] ELSE p[a + 1])
              ELSE IF b # a + 1 /\ i = b - 1 THEN p[a]
              ELSE IF a > 1 /\ i = a - 1 THEN p[b] ELSE L.next[p[i]]
  <2>1. M.next[p[i]] =
           IF p[i] = p[a] THEN L.next[p[b]]
           ELSE IF p[i] = p[b] THEN (IF b = a + 1 THEN p[a] ELSE p[a + 1])
           ELSE IF b # a + 1 /\ p[i] = p[b - 1] THEN p[a]
           ELSE IF a > 1 /\ p[i] = p[a - 1] THEN p[b] ELSE L.next[p[i]]
    BY <1>2, <1>4
  <2> QED  BY <1>5, <2>1
<1>7. ASSUME NEW i \in Group
      PROVE  M.prev[p[i]] =
              IF i = b THEN L.prev[p[a]]
              ELSE IF i = a THEN (IF b = a + 1 THEN p[b] ELSE p[b - 1])
              ELSE IF b # a + 1 /\ i = a + 1 THEN p[b]
              ELSE IF b < N /\ i = b + 1 THEN p[a] ELSE L.prev[p[i]]
  <2>1. M.prev[p[i]] =
           IF p[i] = p[b] THEN L.prev[p[a]]
           ELSE IF p[i] = p[a] THEN (IF b = a + 1 THEN p[b] ELSE p[b - 1])
           ELSE IF b # a + 1 /\ p[i] = p[a + 1] THEN p[b]
           ELSE IF b < N /\ p[i] = p[b + 1] THEN p[a] ELSE L.prev[p[i]]
    BY <1>2, <1>4
  <2> QED  BY <1>5, <2>1
<1> QED  BY <1>6, <1>7 DEF M

\* A list that was swopped is whole, with the two groups at each other's place.
LEMMA SwopOrder ==
  ASSUME NEW L \in ListType, NEW p, Order(L, p), NEW a \in Group, NEW b \in Group, a < b
  PROVE  LET M == Swop(L, p[a], p[b]) IN
         /\ M \in ListType /\ M.pri = L.pri /\ Order(M, Exchange(p, a, b)) /\ M.next # L.next
<1> DEFINE M == Swop(L, p[a], p[b])
           q == Exchange(p, a, b)
<1>a. Permutes(q) /\ q[a] = p[b] /\ q[b] = p[a] /\ \A i \in Group : i # a /\ i # b => q[i] = p[i]
  <2>1. a # b
    BY ConstantsDG
  <2>2. Permutes(p)
    BY DEF Order, Permutes
  <2> QED  BY <2>1, <2>2, ExchangeOrder
<1>4. /\ q \in [Group -> Group] /\ q[a] = p[b] /\ q[b] = p[a]
      /\ \A i \in Group : i # a /\ i # b => q[i] = p[i]
      /\ \A i, j \in Group : q[i] = q[j] => i = j
      /\ \A g \in Group : \E i \in Group : q[i] = g
  <2> HIDE DEF q
  <2> QED  BY <1>a DEF Permutes
<1> USE ConstantsDG
<1>1. M \in ListType /\ M.pri = L.pri /\ M.head = IF a = 1 THEN p[b] ELSE L.head
  BY SwopFields
<1>2. /\ \A i \in Group : M.next[p[i]] =
           IF i = a THEN L.next[p[b]]
           ELSE IF i = b THEN (IF b = a + 1 THEN p[a] ELSE p[a + 1])
           ELSE IF b # a + 1 /\ i = b - 1 THEN p[a]
           ELSE IF a > 1 /\ i = a - 1 THEN p[b] ELSE L.next[p[i]]
      /\ \A i \in Group : M.prev[p[i]] =
           IF i = b THEN L.prev[p[a]]
           ELSE IF i = a THEN (IF b = a + 1 THEN p[b] ELSE p[b - 1])
           ELSE IF b # a + 1 /\ i = a + 1 THEN p[b]
           ELSE IF b < N /\ i = b + 1 THEN p[a] ELSE L.prev[p[i]]
  BY SwopPlaces
<1>3. /\ p \in [Group -> Group] /\ \A i, j \in Group : p[i] = p[j] => i = j
      /\ \A g \in Group : \E i \in Group : p[i] = g
      /\ L.head = p[1] /\ L.next[p[N]] = Null /\ L.prev[p[1]] = Null
      /\ \A i \in 1 .. N - 1 : L.next[p[i]] = p[i + 1] /\ L.prev[p[i + 1]] = p[i]
  BY DEF Order
<1>5. 1 \in Group /\ N \in Group /\ a \in Nat \ {0} /\ b \in Nat \ {0} /\ a # b /\ b # 1 /\ a # N /\ b <= N
  OBVIOUS
<1> HIDE DEF M, q
<1>6. M.head = q[1]
  <2>1. CASE a = 1
    BY <1>1, <1>4, <2>1
  <2>2. CASE a # 1
    BY <1>1, <1>3, <1>4, <1>5, <2>2
  <2> QED  BY <2>1, <2>2
<1>7. ASSUME NEW i \in 1 .. N - 1 PROVE M.next[q[i]] = q[i + 1]
  <2>1. i \in Group /\ i + 1 \in Group /\ i # N
    OBVIOUS
  <2>2. CASE i = a /\ b = a + 1
    <3>1. q[i] = p[b] /\ q[i + 1] = p[a]
      BY <1>4, <2>2
    <3>2. M.next[p[b]] = p[a]
      BY <1>2, <1>5, <2>2
    <3> QED  BY <3>1, <3>2
  <2>3. CASE i = a /\ b # a + 1
    <3>1. q[i] = p[b] /\ q[i + 1] = p[a + 1]
      <4>1. i + 1 # a /\ i + 1 # b
        BY <2>3
      <4> QED  BY <1>4, <2>1, <2>3, <4>1
    <3>2. M.next[p[b]] = p[a + 1]
      BY <1>2, <1>5, <2>3
    <3> QED  BY <3>1, <3>2
  <2>4. CASE i = b
    <3>1. q[i] = p[a] /\ q[i + 1] = p[b + 1]
      <4>1. i + 1 # a /\ i + 1 # b
        BY <1>5, <2>4
      <4> QED  BY <1>4, <2>1, <2>4, <4>1
    <3>2. M.next[p[a]] = L.next[p[b]]
      BY <1>2
    <3>3. L.next[p[b]] = p[b + 1]
      BY <1>3, <2>4
    <3> QED  BY <3>1, <3>2, <3>3
  <2>5. CASE i = b - 1 /\ i # a
    <3>1. i # b /\ i + 1 = b /\ b # a + 1
      BY <2>5
    <3>2. q[i] = p[i] /\ q[i + 1] = p[a]
      BY <1>4, <2>1, <2>5, <3>1
    <3>3. M.next[p[i]] = p[a]
      BY <1>2, <2>1, <2>5, <3>1
    <3> QED  BY <3>2, <3>3
  <2>6. CASE i = a - 1
    <3>1. i # a /\ i # b /\ i # b - 1 /\ i + 1 = a /\ a > 1
      BY <2>6
    <3>2. q[i] = p[i] /\ q[i + 1] = p[b]
      BY <1>4, <2>1, <3>1
    <3>3. M.next[p[i]] = p[b]
      BY <1>2, <2>1, <2>6, <3>1
    <3> QED  BY <3>2, <3>3
  <2>7. CASE i # a /\ i # b /\ i # b - 1 /\ i # a - 1
    <3>1. i + 1 # a /\ i + 1 # b
      BY <2>7
    <3>2. q[i] = p[i] /\ q[i + 1] = p[i + 1]
      BY <1>4, <2>1, <2>7, <3>1
    <3>3. M.next[p[i]] = L.next[p[i]]
      BY <1>2, <2>1, <2>7
    <3>4. L.next[p[i]] = p[i + 1]
      BY <1>3
    <3> QED  BY <3>2, <3>3, <3>4
  <2> QED  BY <2>2, <2>3, <2>4, <2>5, <2>6, <2>7
<1>8. ASSUME NEW i \in 1 .. N - 1 PROVE M.prev[q[i + 1]] = q[i]
  <2>1. i \in Group /\ i + 1 \in Group /\ i # N
    OBVIOUS
  <2>2. CASE i + 1 = b /\ b = a + 1
    <3>1. i = a
      BY <2>2
    <3>2. M.prev[p[a]] = p[b]
      BY <1>2, <1>5, <2>2
    <3> QED  BY <1>4, <2>2, <3>1, <3>2
  <2>3. CASE i + 1 = b /\ b # a + 1
    <3>1. i = b - 1 /\ i # a /\ i # b
      BY <2>3
    <3>2. M.prev[p[a]] = p[b - 1]
      BY <1>2, <1>5, <2>3
    <3>3. q[i + 1] = p[a] /\ q[i] = p[i]
      BY <1>4, <2>1, <2>3, <3>1
    <3> QED  BY <3>1, <3>2, <3>3
  <2>4. CASE i + 1 = a
    <3>1. i # a /\ i # b
      BY <2>4
    <3>2. q[i + 1] = p[b] /\ q[i] = p[i]
      BY <1>4, <2>1, <2>4, <3>1
    <3>3. M.prev[p[b]] = L.prev[p[a]]
      BY <1>2
    <3>4. L.prev[p[i + 1]] = p[i]
      BY <1>3
    <3> QED  BY <2>4, <3>2, <3>3, <3>4
  <2>5. CASE i = a /\ b # a + 1
    <3>1. i + 1 # b /\ i + 1 # a
      BY <2>5
    <3>2. q[i + 1] = p[i + 1] /\ q[i] = p[b]
      BY <1>4, <2>1, <2>5, <3>1
    <3>3. M.prev[p[i + 1]] = p[b]
      BY <1>2, <2>1, <2>5, <3>1
    <3> QED  BY <3>2, <3>3
  <2>6. CASE i = b
    <3>1. i + 1 # b /\ i + 1 # a /\ i + 1 # a + 1 /\ b < N
      BY <2>6
    <3>2. q[i + 1] = p[i + 1] /\ q[i] = p[a]
      BY <1>4, <2>1, <2>6, <3>1
    <3>3. M.prev[p[i + 1]] = p[a]
      BY <1>2, <2>1, <2>6, <3>1
    <3> QED  BY <3>2, <3>3
  <2>7. CASE i + 1 # b /\ i + 1 # a /\ i # a /\ i # b
    <3>1. i + 1 # a + 1 /\ i + 1 # b + 1
      BY <2>7
    <3>2. q[i + 1] = p[i + 1] /\ q[i] = p[i]
      BY <1>4, <2>1, <2>7
    <3>3. M.prev[p[i + 1]] = L.prev[p[i + 1]]
      BY <1>2, <2>1, <2>7, <3>1
    <3>4. L.prev[p[i + 1]] = p[i]
      BY <1>3
    <3> QED  BY <3>2, <3>3, <3>4
  <2>8. i = a /\ b = a + 1 => i + 1 = b
    OBVIOUS
  <2> QED  BY <2>2, <2>3, <2>4, <2>5, <2>6, <2>7, <2>8
<1>9. M.next[q[N]] = Null
  <2>1. CASE b = N
    <3>1. q[N] = p[a] /\ M.next[p[a]] = L.next[p[b]]
      BY <1>2, <1>4, <2>1
    <3> QED  BY <1>3, <2>1, <3>1
  <2>2. CASE b # N
    <3>1. q[N] = p[N]
      BY <1>4, <1>5, <2>2
    <3>2. N # b - 1 /\ N # a - 1
      BY <1>5, <2>2
    <3>3. M.next[p[N]] = L.next[p[N]]
      BY <1>2, <1>5, <2>2, <3>2
    <3> QED  BY <1>3, <3>1, <3>3
  <2> QED  BY <2>1, <2>2
<1>10. M.prev[q[1]] = Null
  <2>1. CASE a = 1
    <3>1. q[1] = p[b] /\ M.prev[p[b]] = L.prev[p[a]]
      BY <1>2, <1>4, <2>1
    <3> QED  BY <1>3, <2>1, <3>1
  <2>2. CASE a # 1
    <3>1. q[1] = p[1]
      BY <1>4, <1>5, <2>2
    <3>2. 1 # b + 1 /\ 1 # a + 1
      BY <1>5
    <3>3. M.prev[p[1]] = L.prev[p[1]]
      BY <1>2, <1>5, <2>2, <3>2
    <3> QED  BY <1>3, <3>1, <3>3
  <2> QED  BY <2>1, <2>2
<1>11. M.next # L.next
  <2>1. M.next[p[a]] = L.next[p[b]]
    BY <1>2
  <2>2. L.next[p[a]] = p[a + 1] /\ a + 1 \in Group /\ p[a + 1] \in Group
    <3>1. a \in 1 .. N - 1 /\ a + 1 \in Group
      BY <1>5
    <3> QED  BY <1>3, <3>1
  <2>3. L.next[p[b]] # p[a + 1]
    <3>1. CASE b = N
      <4>1. L.next[p[b]] = Null /\ p[a + 1] # Null
        BY <1>3, <2>2, <3>1
      <4> QED  BY <4>1
    <3>2. CASE b # N
      <4>1. b \in 1 .. N - 1 /\ b + 1 \in Group /\ b + 1 # a + 1
        BY <1>5, <3>2
      <4>2. L.next[p[b]] = p[b + 1]
        BY <1>3, <4>1
      <4>3. p[b + 1] # p[a + 1]
        BY <1>3, <2>2, <4>1
      <4> QED  BY <4>2, <4>3
    <3> QED  BY <3>1, <3>2
  <2> QED  BY <2>1, <2>2, <2>3
<1>12. Order(M, q)
  BY <1>4, <1>6, <1>7, <1>8, <1>9, <1>10 DEF Order
<1> QED  BY <1>1, <1>11, <1>12 DEF M, q

-----------------------------------------------------------------------------
(* find_dp and the loop of on_trigger, over a whole list.                    *)

LEMMA OrderPermutes == \A L, p : Order(L, p) => Permutes(p)
  BY DEF Order, Permutes

LEMMA TurnPermutes ==
  ASSUME NEW p, Permutes(p), NEW k \in Group
  PROVE  Permutes(Turn(p, k))
<1> USE ConstantsDG
<1> DEFINE w == Turn(p, k)
           at(i) == IF k + i - 1 <= N THEN k + i - 1 ELSE k + i - 1 - N
<1>1. \A i \in Group : at(i) \in Group
  OBVIOUS
<1>2. \A i \in Group : w[i] = p[at(i)]
  BY DEF Turn
<1>3. \A i, j \in Group : at(i) = at(j) => i = j
  OBVIOUS
<1>4. ASSUME NEW m \in Group PROVE \E i \in Group : at(i) = m
  <2>1. CASE m >= k
    <3>1. m - k + 1 \in Group /\ at(m - k + 1) = m
      BY <2>1
    <3> QED  BY <3>1
  <2>2. CASE ~(m >= k)
    <3>1. m - k + 1 + N \in Group /\ at(m - k + 1 + N) = m
      BY <2>2
    <3> QED  BY <3>1
  <2> QED  BY <2>1, <2>2
<1>5. w = [i \in Group |-> w[i]]
  BY DEF Turn
<1> HIDE DEF w, at
<1>6. w \in [Group -> Group]
  <2>1. \A i \in Group : w[i] \in Group
    BY <1>1, <1>2 DEF Permutes
  <2> QED  BY <1>5, <2>1
<1>7. ASSUME NEW i \in Group, NEW j \in Group, w[i] = w[j] PROVE i = j
  <2>1. p[at(i)] = p[at(j)] /\ at(i) \in Group /\ at(j) \in Group
    BY <1>1, <1>2, <1>7
  <2>2. at(i) = at(j)
    BY <2>1 DEF Permutes
  <2> QED  BY <1>3, <2>2
<1>8. \A g \in Group : \E i \in Group : w[i] = g
  <2> SUFFICES ASSUME NEW g \in Group PROVE \E i \in Group : w[i] = g
    OBVIOUS
  <2>1. PICK m \in Group : p[m] = g
    BY DEF Permutes
  <2>2. PICK i \in Group : at(i) = m
    BY <1>4
  <2> QED  BY <1>2, <2>1, <2>2
<1>9. Permutes(w)
  BY <1>6, <1>7, <1>8 DEF Permutes
<1> QED  BY <1>9 DEF w

ConnType == [dst : Dest \cup {"none"}, kind : Kind \cup {"none"},
             req : {"none", "kept", "gone"}, dp : Group \cup {Null},
             mask : SUBSET Group, detect : SUBSET Fault, tries : Nat]

EntryType == [dp : Group \cup {Null}, mask : SUBSET Group, detect : SUBSET Fault, old : BOOLEAN]

\* find_dp goes once around the list from some place k, to the first group that is not in
\* the mask and accepts the connection, if there is one.
LEMMA FindResult ==
  ASSUME NEW L \in ListType, NEW p, Order(L, p), NEW x \in ConnType
  PROVE  \E k \in Group :
           /\ p[k] = IF x.dp = Null THEN L.head ELSE x.dp
           /\ \/ /\ Find(L, x) = [x EXCEPT !.dp = Null, !.mask = Group]
                 /\ \A g \in Group : g \in x.mask \/ ~Accepts(L, x, g)
              \/ \E j \in Group :
                   /\ Find(L, x) = [x EXCEPT !.dp = Turn(p, k)[j],
                                    !.mask = @ \cup {Turn(p, k)[i] : i \in 1 .. j - 1}]
                   /\ Turn(p, k)[j] \notin x.mask
                   /\ \A i \in 1 .. j - 1 :
                        Turn(p, k)[i] \in x.mask \/ ~Accepts(L, x, Turn(p, k)[i])
<1> DEFINE start == IF x.dp = Null THEN L.head ELSE x.dp
<1>1. start \in Group
  BY ConstantsDG DEF ConnType, ListType
<1>2. PICK k \in Group : p[k] = start
  BY <1>1 DEF Order
<1> DEFINE visited == Around(L, start)
           hits == {i \in Group : visited[i] \notin x.mask /\ Accepts(L, x, visited[i])}
           w == Turn(p, k)
<1>3. visited = w
  BY <1>2, AroundIsTurn
<1>4. Permutes(w)
  BY OrderPermutes, TurnPermutes
<1>5. Find(L, x) = IF hits = {} THEN [x EXCEPT !.dp = Null, !.mask = Group]
                   ELSE [x EXCEPT !.dp = visited[Min(hits)],
                                  !.mask = @ \cup {visited[i] : i \in 1 .. Min(hits) - 1}]
  BY DEF Find
<1> HIDE DEF visited, w, start
<1>6. CASE hits = {}
  <2>1. \A i \in Group : w[i] \in x.mask \/ ~Accepts(L, x, w[i])
    BY <1>3, <1>6
  <2>2. \A g \in Group : g \in x.mask \/ ~Accepts(L, x, g)
    <3> SUFFICES ASSUME NEW g \in Group PROVE g \in x.mask \/ ~Accepts(L, x, g)
      OBVIOUS
    <3>1. PICK i \in Group : w[i] = g
      BY <1>4 DEF Permutes
    <3> QED  BY <2>1, <3>1
  <2>3. Find(L, x) = [x EXCEPT !.dp = Null, !.mask = Group]
    BY <1>5, <1>6
  <2> QED  BY <1>2, <2>2, <2>3 DEF start
<1>7. CASE hits # {}
  <2>1. Min(hits) \in hits /\ \A i \in hits : Min(hits) <= i
    <3>1. hits \in SUBSET (Nat \ {0})
      BY ConstantsDG
    <3> HIDE DEF hits
    <3> QED  BY <1>7, <3>1, MinMember
  <2> DEFINE j == Min(hits)
  <2>2. j \in Group /\ w[j] \notin x.mask
    <3> HIDE DEF j
    <3>1. j \in hits
      BY <2>1 DEF j
    <3> QED  BY <1>3, <3>1
  <2>3. Find(L, x) = [x EXCEPT !.dp = w[j], !.mask = @ \cup {w[i] : i \in 1 .. j - 1}]
    <3> HIDE DEF hits
    <3> QED  BY <1>3, <1>5, <1>7
  <2>5. \A i \in 1 .. j - 1 : w[i] \in x.mask \/ ~Accepts(L, x, w[i])
    <3> HIDE DEF j
    <3>1. \A i \in hits : j <= i
      BY <2>1 DEF j
    <3>2. \A i \in 1 .. j - 1 : i \in Group /\ ~(j <= i)
      BY <2>2, ConstantsDG
    <3>3. \A i \in 1 .. j - 1 : i \in Group /\ i \notin hits
      <4> HIDE DEF hits
      <4> QED  BY <3>1, <3>2
    <3> QED  BY <1>3, <3>3
  <2> HIDE DEF j, hits
  <2>4. \E n \in Group :
          /\ Find(L, x) = [x EXCEPT !.dp = w[n], !.mask = @ \cup {w[i] : i \in 1 .. n - 1}]
          /\ w[n] \notin x.mask
          /\ \A i \in 1 .. n - 1 : w[i] \in x.mask \/ ~Accepts(L, x, w[i])
    BY <2>2, <2>3, <2>5
  <2> QED  BY <1>2, <2>4 DEF start, w
<1> QED  BY <1>6, <1>7

\* What find_dp leaves of a connection, and that it never goes back to a marked group.
LEMMA FindEffect ==
  ASSUME NEW L \in ListType, NEW p, Order(L, p), NEW x \in ConnType
  PROVE  LET y == Find(L, x) IN
         /\ y \in ConnType /\ y.dst = x.dst /\ y.kind = x.kind /\ y.req = x.req
         /\ y.detect = x.detect /\ y.tries = x.tries /\ x.mask \subseteq y.mask
         /\ y.dp # Null => y.dp \in Group /\ y.dp \notin y.mask
<1> DEFINE y == Find(L, x)
<1>1. PICK k \in Group :
           \/ y = [x EXCEPT !.dp = Null, !.mask = Group]
           \/ \E j \in Group :
                /\ y = [x EXCEPT !.dp = Turn(p, k)[j],
                                 !.mask = @ \cup {Turn(p, k)[i] : i \in 1 .. j - 1}]
                /\ Turn(p, k)[j] \notin x.mask
  BY FindResult
<1> DEFINE w == Turn(p, k)
<1>2. Permutes(w)
  BY OrderPermutes, TurnPermutes
<1> HIDE DEF y, w
<1>3. CASE y = [x EXCEPT !.dp = Null, !.mask = Group]
  BY <1>3 DEF ConnType, y
<1>4. CASE \E j \in Group :
                /\ y = [x EXCEPT !.dp = w[j], !.mask = @ \cup {w[i] : i \in 1 .. j - 1}]
                /\ w[j] \notin x.mask
  <2>1. PICK j \in Group : /\ y = [x EXCEPT !.dp = w[j], !.mask = @ \cup {w[i] : i \in 1 .. j - 1}]
                           /\ w[j] \notin x.mask
    BY <1>4
  <2> DEFINE S == {w[i] : i \in 1 .. j - 1}
  <2>2. \A i \in 1 .. j - 1 : i \in Group /\ i # j
    BY ConstantsDG
  <2>3. S \subseteq Group /\ w[j] \in Group /\ w[j] \notin S
    BY <1>2, <2>2 DEF Permutes
  <2>4. y = [x EXCEPT !.dp = w[j], !.mask = @ \cup S] /\ w[j] \notin x.mask
    BY <2>1
  <2> HIDE DEF S
  <2>5. /\ y \in ConnType /\ y.dst = x.dst /\ y.kind = x.kind /\ y.req = x.req
        /\ y.detect = x.detect /\ y.tries = x.tries /\ y.mask = x.mask \cup S /\ y.dp = w[j]
    BY <2>3, <2>4 DEF ConnType
  <2> QED  BY <2>3, <2>4, <2>5 DEF y
<1> QED  BY <1>1, <1>3, <1>4 DEF w

\* The loop of on_trigger, told of faults type, stopped at a place after those it passed, and
\* found the next group there or none.
StopsAt(L, p, x, type, scan, stop) ==
  /\ scan.passed = {p[j] : j \in 1 .. stop - 1}
  /\ scan.next # Null =>
       /\ stop \in Group /\ scan.next = p[stop] /\ scan.next \notin Tried(x)
       /\ L.detect[scan.next] = {} \/ L.detect[scan.next] \cap type # {}

LEMMA ScanResult ==
  ASSUME NEW L, NEW p, Order(L, p), NEW x, NEW type, NEW can
  PROVE  \E stop \in 1 .. N + 1 : StopsAt(L, p, x, type, Scan(L, x, type, can), stop)
<1> DEFINE path == Path(L)
           Passed(i) == {path[j] : j \in 1 .. i - 1}
           Exhausted(i) == Tried(x) \subseteq Passed(i) /\ L.detect[path[i]] = {}
           Takes(i) == LET g == path[i] IN
             /\ g \notin Tried(x) /\ (L.detect[g] = {} \/ L.detect[g] \cap type # {})
             /\ "onreconn" \notin L.level[g] \/ can
           stops == {i \in Group : path[i] # Null /\ (Exhausted(i) \/ Takes(i))}
           stop == IF stops = {} THEN N + 1 ELSE Min(stops)
           next == IF stop > N \/ Exhausted(stop) THEN Null ELSE path[stop]
<1>1. Scan(L, x, type, can) = [next |-> next, passed |-> Passed(stop)]
  BY DEF Scan
<1>0. path = p
  BY PathIsOrder
<1> HIDE DEF path
<1>2. stop \in 1 .. N + 1 /\ (stop <= N => stop \in stops)
  <2>1. CASE stops = {}
    BY <2>1, ConstantsDG
  <2>2. CASE stops # {}
    <3>1. stops \in SUBSET (Nat \ {0}) /\ stops \subseteq Group
      BY ConstantsDG
    <3> HIDE DEF stops
    <3>2. Min(stops) \in stops
      BY <2>2, <3>1, MinMember
    <3>3. stop = Min(stops)
      BY <2>2
    <3>4. Min(stops) \in 1 .. N
      BY <3>1, <3>2, ConstantsDG
    <3> QED  BY <3>2, <3>3, <3>4, ConstantsDG
  <2> QED  BY <2>1, <2>2
<1> HIDE DEF stop
<1>3. next # Null =>
        /\ stop \in Group /\ next = path[stop] /\ path[stop] \notin Tried(x)
        /\ L.detect[path[stop]] = {} \/ L.detect[path[stop]] \cap type # {}
  <2> SUFFICES ASSUME next # Null
               PROVE  /\ stop \in Group /\ next = path[stop] /\ path[stop] \notin Tried(x)
                      /\ L.detect[path[stop]] = {} \/ L.detect[path[stop]] \cap type # {}
    OBVIOUS
  <2>1. ~(stop > N) /\ ~Exhausted(stop) /\ next = path[stop]
    <3> HIDE DEF Exhausted
    <3> QED  OBVIOUS
  <2>2. stop \in Group /\ stop \in stops
    <3> HIDE DEF stops
    <3> QED  BY <1>2, <2>1, ConstantsDG
  <2>3. Takes(stop)
    BY <2>1, <2>2
  <2> QED  BY <2>1, <2>2, <2>3
<1> HIDE DEF next
<1> DEFINE scan == Scan(L, x, type, can)
<1>4. scan.next = next /\ scan.passed = Passed(stop)
  BY <1>1
<1> HIDE DEF scan
<1>5. scan.passed = {p[j] : j \in 1 .. stop - 1}
  BY <1>0, <1>4
<1>6. scan.next # Null =>
        /\ stop \in Group /\ scan.next = p[stop] /\ scan.next \notin Tried(x)
        /\ L.detect[scan.next] = {} \/ L.detect[scan.next] \cap type # {}
  BY <1>0, <1>3, <1>4
<1>7. StopsAt(L, p, x, type, scan, stop)
  BY <1>5, <1>6 DEF StopsAt
<1> QED  BY <1>2, <1>7 DEF scan

\* The list after a group failed: whole, and the same up to a count unless its order is not.
LEMMA SortedOrder ==
  ASSUME NEW L \in ListType, NEW p, Order(L, p), NEW x \in ConnType, x.dp \in Group,
         NEW type, NEW can, NEW scan, scan = Scan(L, x, type, can)
  PROVE  LET M == Sorted(L, x, scan) IN
         /\ M \in ListType /\ \E q : Order(M, q)
         /\ M.next = L.next => Order(M, p) /\ M.head = L.head /\ M.detect = L.detect /\ M.level = L.level
<1> DEFINE M == Sorted(L, x, scan)
           K == IF Swoppable(L, x, scan) THEN Swop(L, x.dp, scan.next) ELSE L
           C == [K EXCEPT !.pri[x.dp] = @ + 1]
<1>1. M = IF x.dp \in cache[x.dst].mask THEN L ELSE C
  BY DEF Sorted
<1>2. K \in ListType /\ (\E q : Order(K, q)) /\ (K.next = L.next => K = L)
  <2>1. CASE Swoppable(L, x, scan)
    <3>0. PICK stop \in 1 .. N + 1 : StopsAt(L, p, x, type, scan, stop)
      BY ScanResult
    <3>1. /\ scan.passed = {p[j] : j \in 1 .. stop - 1}
          /\ scan.next # Null => stop \in Group /\ scan.next = p[stop]
      BY <3>0 DEF StopsAt
    <3>2. scan.next # Null /\ x.dp \in scan.passed
      BY <2>1 DEF Swoppable
    <3>3. PICK a \in 1 .. stop - 1 : x.dp = p[a]
      BY <3>1, <3>2
    <3>4. a \in Group /\ stop \in Group /\ a < stop
      BY <3>1, <3>2, ConstantsDG
    <3> DEFINE S == Swop(L, p[a], p[stop])
    <3>5. S \in ListType /\ Order(S, Exchange(p, a, stop)) /\ S.next # L.next
      BY <3>4, SwopOrder
    <3>6. K = S
      BY <2>1, <3>1, <3>2, <3>3
    <3> HIDE DEF S, K
    <3> QED  BY <3>5, <3>6
  <2>2. CASE ~Swoppable(L, x, scan)
    BY <2>2
  <2> QED  BY <2>1, <2>2
<1> HIDE DEF K
<1>3. /\ C \in ListType /\ C.head = K.head /\ C.next = K.next /\ C.prev = K.prev
      /\ C.detect = K.detect /\ C.level = K.level
  <2>1. K \in ListType
    BY <1>2
  <2>2. K.pri \in [Group -> Nat]
    BY <2>1 DEF ListType
  <2> DEFINE r == [K.pri EXCEPT ![x.dp] = @ + 1]
  <2>3. r \in [Group -> Nat]
    BY <2>2
  <2>4. C = [K EXCEPT !.pri = r]
    BY <2>1 DEF ListType
  <2> HIDE DEF r, C
  <2> QED  BY <2>1, <2>3, <2>4 DEF ListType
<1> HIDE DEF C
<1>4. \A q : Order(K, q) => Order(C, q)
  BY <1>3 DEF Order
<1> HIDE DEF M
<1>5. M \in ListType /\ (\E q : Order(M, q))
      /\ (M.next = L.next => Order(M, p) /\ M.head = L.head /\ M.detect = L.detect /\ M.level = L.level)
  <2>1. CASE x.dp \in cache[x.dst].mask
    <3>1. M = L
      BY <1>1, <2>1
    <3> QED  BY <3>1
  <2>2. CASE x.dp \notin cache[x.dst].mask
    <3>1. M = C
      BY <1>1, <2>2
    <3>2. PICK q : Order(K, q)
      BY <1>2
    <3>3. C \in ListType /\ Order(C, q)
      BY <1>3, <1>4, <3>2
    <3>4. C.next = L.next => K = L
      BY <1>2, <1>3
    <3>5. C.next = L.next => Order(C, p) /\ C.head = L.head /\ C.detect = L.detect /\ C.level = L.level
      BY <1>3, <1>4, <3>4
    <3> QED  BY <3>1, <3>3, <3>5
  <2> QED  BY <2>1, <2>2
<1> QED  BY <1>5 DEF M

-----------------------------------------------------------------------------
(* The invariant of the list, the cache and the connections.                *)

\* A connection that has a group and a destination, and was tried less often than groups
\* other than its own are marked.
Going(x) ==
  /\ x \in ConnType
  /\ x # NoConn => x.dp \in Group /\ x.dst \in Dest
  /\ x.tries <= Cardinality(x.mask \ {x.dp})

Usable(e) == e \in EntryType /\ (e # NoEntry => e.dp \in Group)

InOrder == [i \in Group |-> i]

GInv ==
  /\ groups \in ListType /\ \E p : Order(groups, p)
  /\ cache \in [Dest -> EntryType] /\ \A d \in Dest : Usable(cache[d])
  /\ conn \in [Conn -> ConnType] /\ \A c \in Conn : Going(conn[c])
  /\ late \subseteq Dest /\ swopped \in BOOLEAN
  /\ ~swopped => Order(groups, InOrder) /\ groups.head = 1 /\ groups.detect = Detect

LEMMA Masks ==
  /\ \A S \in SUBSET Group : IsFiniteSet(S) /\ Cardinality(S) \in Nat /\ Cardinality(S) <= N
  /\ \A S, T \in SUBSET Group : S \subseteq T => Cardinality(S) <= Cardinality(T)
  /\ \A S \in SUBSET Group : \A g \in Group : g \notin S => Cardinality(S \cup {g}) = Cardinality(S) + 1
<1>1. IsFiniteSet(Group) /\ Cardinality(Group) = N
  BY FS_Interval, ConstantsDG
<1>2. ASSUME NEW S \in SUBSET Group
      PROVE  IsFiniteSet(S) /\ Cardinality(S) \in Nat /\ Cardinality(S) <= N
  BY <1>1, FS_Subset, FS_CardinalityType
<1>3. ASSUME NEW S \in SUBSET Group, NEW T \in SUBSET Group, S \subseteq T
      PROVE  Cardinality(S) <= Cardinality(T)
  BY <1>2, <1>3, FS_Subset
<1>4. ASSUME NEW S \in SUBSET Group, NEW g \in Group, g \notin S
      PROVE  Cardinality(S \cup {g}) = Cardinality(S) + 1
  BY <1>2, <1>4, FS_AddElement
<1> QED  BY <1>2, <1>3, <1>4

LEMMA GoingNoConn == Going(NoConn)
<1>1. NoConn \in ConnType
  BY ConstantsDG DEF NoConn, ConnType
<1>2. NoConn.tries = 0 /\ NoConn.mask \ {NoConn.dp} = {}
  BY DEF NoConn
<1> QED  BY <1>1, <1>2, FS_EmptySet DEF Going

\* A connection whose marks only grow while its group stays, or gives way to one not marked.
LEMMA GoingGrows ==
  ASSUME NEW x \in ConnType, Going(x), x # NoConn \/ x.tries = 0, NEW y \in ConnType,
         y.dp \in Group, y.dst \in Dest, y.tries = x.tries, x.mask \subseteq y.mask,
         y.dp = x.dp \/ y.dp \notin y.mask
  PROVE  Going(y)
<1>1. x.mask \ {x.dp} \subseteq y.mask \ {y.dp}
  OBVIOUS
<1>2. x.mask \ {x.dp} \in SUBSET Group /\ y.mask \ {y.dp} \in SUBSET Group
  BY DEF ConnType
<1>3. Cardinality(x.mask \ {x.dp}) <= Cardinality(y.mask \ {y.dp})
  BY <1>1, <1>2, Masks
<1>4. x.tries \in Nat /\ x.tries <= Cardinality(x.mask \ {x.dp})
  BY DEF ConnType, Going
<1>5. Cardinality(x.mask \ {x.dp}) \in Nat /\ Cardinality(y.mask \ {y.dp}) \in Nat
  BY <1>2, Masks
<1> QED  BY <1>3, <1>4, <1>5 DEF Going

\* One more try, with a group that is not marked, the last one being.
LEMMA GoingRetries ==
  ASSUME NEW x \in ConnType, Going(x), x # NoConn, NEW y \in ConnType,
         y.dp \in Group, y.dst \in Dest, y.tries = x.tries + 1,
         x.mask \cup {x.dp} \subseteq y.mask, y.dp \notin y.mask
  PROVE  Going(y)
<1> DEFINE S == x.mask \ {x.dp}
<1>1. S \in SUBSET Group /\ x.dp \in Group /\ x.dp \notin S /\ y.mask \in SUBSET Group
  BY DEF ConnType, Going
<1>2. S \cup {x.dp} \in SUBSET Group /\ S \cup {x.dp} \subseteq y.mask /\ y.mask \ {y.dp} = y.mask
  BY <1>1
<1>3. x.tries \in Nat /\ x.tries <= Cardinality(S)
  BY DEF ConnType, Going
<1> HIDE DEF S
<1>4. Cardinality(S \cup {x.dp}) = Cardinality(S) + 1 /\ Cardinality(S) \in Nat
  BY <1>1, Masks
<1>5. Cardinality(S \cup {x.dp}) <= Cardinality(y.mask) /\ Cardinality(y.mask) \in Nat
  BY <1>1, <1>2, Masks
<1> QED  BY <1>2, <1>3, <1>4, <1>5 DEF Going

LEMMA OneGoing ==
  ASSUME conn \in [Conn -> ConnType], \A c \in Conn : Going(conn[c]),
         NEW c \in Conn, NEW x, Going(x), conn' = [conn EXCEPT ![c] = x]
  PROVE  conn' \in [Conn -> ConnType] /\ \A d \in Conn : Going(conn'[d])
<1>1. x \in ConnType
  BY DEF Going
<1>2. conn' \in [Conn -> ConnType] /\ \A d \in Conn : conn'[d] = IF d = c THEN x ELSE conn[d]
  BY <1>1
<1> QED  BY <1>2

LEMMA OneUsable ==
  ASSUME cache \in [Dest -> EntryType], \A d \in Dest : Usable(cache[d]),
         NEW d \in Dest, NEW e, Usable(e), cache' = [cache EXCEPT ![d] = e]
  PROVE  cache' \in [Dest -> EntryType] /\ \A b \in Dest : Usable(cache'[b])
<1>1. e \in EntryType
  BY DEF Usable
<1>2. cache' \in [Dest -> EntryType] /\ \A b \in Dest : cache'[b] = IF b = d THEN e ELSE cache[b]
  BY <1>1
<1> QED  BY <1>2

LEMMA UsableNoEntry == Usable(NoEntry)
  BY ConstantsDG DEF Usable, NoEntry, EntryType

LEMMA InOrderPermutes == InOrder \in [Group -> Group] /\ \A i \in Group : InOrder[i] = i
  BY DEF InOrder

LEMMA GInit == Init => GInv
<1> SUFFICES ASSUME Init PROVE GInv
  OBVIOUS
<1> USE ConstantsDG
<1>1. groups \in ListType /\ groups.head = 1 /\ groups.detect = Detect
      /\ groups.next = [g \in Group |-> IF g < N THEN g + 1 ELSE Null]
      /\ groups.prev = [g \in Group |-> g - 1]
  BY GroupsAssumption DEF Init, ListType
<1>2. Order(groups, InOrder)
  <2>1. \A i \in 1 .. N - 1 : InOrder[i] = i /\ InOrder[i + 1] = i + 1 /\ i \in Group /\ i + 1 \in Group
    BY InOrderPermutes
  <2>2. \A i \in 1 .. N - 1 :
          groups.next[InOrder[i]] = InOrder[i + 1] /\ groups.prev[InOrder[i + 1]] = InOrder[i]
    BY <1>1, <2>1
  <2>3. InOrder[1] = 1 /\ InOrder[N] = N /\ 1 \in Group /\ N \in Group
    BY InOrderPermutes
  <2>4. groups.next[N] = Null /\ groups.prev[1] = Null
    BY <1>1, <2>3
  <2>5. \A g \in Group : \E i \in Group : InOrder[i] = g
    BY InOrderPermutes
  <2>6. \A i, j \in Group : InOrder[i] = InOrder[j] => i = j
    BY InOrderPermutes
  <2> QED  BY <1>1, <2>2, <2>3, <2>4, <2>5, <2>6, InOrderPermutes DEF Order
<1>3. cache \in [Dest -> EntryType] /\ \A d \in Dest : Usable(cache[d])
  <2>1. NoEntry \in EntryType /\ Usable(NoEntry)
    BY UsableNoEntry DEF Usable
  <2> QED  BY <2>1 DEF Init
<1>4. conn \in [Conn -> ConnType] /\ \A c \in Conn : Going(conn[c])
  <2>1. NoConn \in ConnType /\ Going(NoConn)
    BY GoingNoConn DEF Going
  <2> QED  BY <2>1 DEF Init
<1>5. late \subseteq Dest /\ swopped \in BOOLEAN
  BY DEF Init
<1> QED  BY <1>1, <1>2, <1>3, <1>4, <1>5 DEF GInv

LEMMA FreshEffect ==
  ASSUME GInv, NEW d \in Dest
  PROVE  /\ Fresh(d) \in ConnType
         /\ Fresh(d).dst = d /\ Fresh(d).tries = 0 /\ Fresh(d).req = "none"
         /\ Fresh(d).dp = (IF cache[d].old THEN Null ELSE cache[d].dp)
         /\ Fresh(d).mask = (IF cache[d].old THEN {} ELSE cache[d].mask)
<1> DEFINE dp == IF cache[d].old THEN Null ELSE cache[d].dp
           mask == IF cache[d].old THEN {} ELSE cache[d].mask
           detect == IF cache[d].old THEN {} ELSE cache[d].detect
<1>1. dp \in Group \cup {Null} /\ mask \in SUBSET Group /\ detect \in SUBSET Fault
  <2>1. cache[d] \in EntryType
    BY DEF GInv
  <2> QED  BY <2>1, ConstantsDG DEF EntryType
<1>2. Fresh(d) = [NoConn EXCEPT !.dst = d, !.dp = dp, !.mask = mask, !.detect = detect]
  BY DEF Fresh
<1>3. NoConn \in ConnType /\ NoConn.tries = 0 /\ NoConn.req = "none"
  BY ConstantsDG DEF NoConn, ConnType
<1> HIDE DEF dp, mask, detect
<1>4. /\ Fresh(d) \in ConnType /\ Fresh(d).dst = d /\ Fresh(d).tries = 0 /\ Fresh(d).req = "none"
      /\ Fresh(d).dp = dp /\ Fresh(d).mask = mask
  BY <1>1, <1>2, <1>3 DEF ConnType
<1> QED  BY <1>4 DEF dp, mask

LEMMA LookupKeeps ==
  ASSUME GInv, NEW d \in Dest, Lookup(d)
  PROVE  /\ cache' \in [Dest -> EntryType] /\ \A b \in Dest : Usable(cache'[b])
         /\ late' \subseteq Dest
<1>1. CASE cache[d].old
  <2>1. PICK e \in Dest : cache' = [cache EXCEPT ![e] = NoEntry] /\ late' = late \ {e}
    BY <1>1 DEF Lookup
  <2> QED  BY <2>1, OneUsable, UsableNoEntry DEF GInv
<1>2. CASE ~cache[d].old
  BY <1>2 DEF Lookup, GInv
<1> QED  BY <1>1, <1>2

\* A connection not tried yet, after find_dp found it a group.
LEMMA OpenGoing ==
  ASSUME GInv, NEW d \in Dest, NEW y, y = Find(groups, Fresh(d)), y.dp # Null
  PROVE  Going(y)
<1>1. PICK p : Order(groups, p)
  BY DEF GInv
<1>2. groups \in ListType
  BY DEF GInv
<1>3. Fresh(d) \in ConnType /\ Fresh(d).dst = d /\ Fresh(d).tries = 0
  BY FreshEffect
<1>4. y \in ConnType /\ y.dst = d /\ y.tries = 0 /\ y.dp \in Group
  BY <1>1, <1>2, <1>3, FindEffect
<1>5. Cardinality(y.mask \ {y.dp}) \in Nat
  <2>1. y.mask \ {y.dp} \in SUBSET Group
    BY <1>4 DEF ConnType
  <2> QED  BY <2>1, Masks
<1> QED  BY <1>4, <1>5 DEF Going

LEMMA OpenKeeps ==
  ASSUME GInv, NEW c \in Conn, NEW d \in Dest, Open(c, d)
  PROVE  GInv'
<1> DEFINE x == Find(groups, Fresh(d))
<1>1. /\ cache' \in [Dest -> EntryType] /\ \A b \in Dest : Usable(cache'[b]) /\ late' \subseteq Dest
  BY LookupKeeps DEF Open
<1>2. conn' = IF x.dp = Null THEN conn ELSE [conn EXCEPT ![c] = x]
  BY DEF Open
<1>3. x.dp # Null => Going(x)
  BY OpenGoing
<1> HIDE DEF x
<1>4. conn' \in [Conn -> ConnType] /\ \A b \in Conn : Going(conn'[b])
  <2>1. CASE x.dp = Null
    BY <1>2, <2>1 DEF GInv
  <2>2. CASE x.dp # Null
    BY <1>2, <1>3, <2>2, OneGoing DEF GInv
  <2> QED  BY <2>1, <2>2
<1>5. UNCHANGED <<groups, swopped>>
  BY DEF Open
<1> QED  BY <1>1, <1>4, <1>5 DEF GInv

\* A step that changes a connection only.
LEMMA OnlyConn ==
  ASSUME GInv, NEW c \in Conn, NEW x, Going(x), conn' = [conn EXCEPT ![c] = x],
         UNCHANGED <<groups, cache, late, swopped>>
  PROVE  GInv'
<1>1. conn' \in [Conn -> ConnType] /\ \A d \in Conn : Going(conn'[d])
  BY OneGoing DEF GInv
<1> QED  BY <1>1 DEF GInv

LEMMA AliveGoing ==
  ASSUME GInv, NEW c \in Conn, Alive(c)
  PROVE  Going(conn[c]) /\ conn[c] \in ConnType /\ conn[c] # NoConn
         /\ conn[c].dp \in Group /\ conn[c].dst \in Dest
  BY DEF GInv, Alive, Going

LEMMA RequestKeeps ==
  ASSUME GInv, NEW c \in Conn, NEW k \in Kind, NEW kept \in BOOLEAN, Request(c, k, kept)
  PROVE  GInv'
<1> DEFINE old == conn[c]
           req == IF kept THEN "kept" ELSE "gone"
           x == [old EXCEPT !.kind = k, !.req = req]
           y == Find(groups, x)
           new == IF y.dp = Null THEN NoConn ELSE y
<1>1. PICK p : Order(groups, p)
  BY DEF GInv
<1>2. groups \in ListType
  BY DEF GInv
<1>3. Going(old) /\ old \in ConnType /\ old # NoConn /\ old.dst \in Dest
  BY AliveGoing DEF Request
<1>4. x \in ConnType /\ x.dst = old.dst /\ x.tries = old.tries /\ x.mask = old.mask /\ x.dp = old.dp
  <2> HIDE DEF old
  <2> QED  BY <1>3 DEF ConnType
<1>5. conn' = [conn EXCEPT ![c] = new]
  BY DEF Request
<1> HIDE DEF x, old
<1>6. /\ y \in ConnType /\ y.dst = x.dst /\ y.tries = x.tries /\ x.mask \subseteq y.mask
      /\ y.dp # Null => y.dp \in Group /\ y.dp \notin y.mask
  BY <1>1, <1>2, <1>4, FindEffect
<1> HIDE DEF y
<1>7. y.dp # Null => Going(y)
  BY <1>3, <1>4, <1>6, GoingGrows
<1>8. Going(new)
  BY <1>7, GoingNoConn
<1> HIDE DEF new
<1>9. UNCHANGED <<groups, cache, late, swopped>>
  BY DEF Request
<1> QED  BY <1>5, <1>8, <1>9, OnlyConn

LEMMA AnswersKeeps ==
  ASSUME GInv, NEW c \in Conn, Answers(c)
  PROVE  GInv'
<1> DEFINE old == conn[c]
           x == [old EXCEPT !.req = "gone", !.mask = @ \cup {old.dp}]
<1>1. Going(old) /\ old \in ConnType /\ old # NoConn /\ old.dp \in Group /\ old.dst \in Dest
  BY AliveGoing DEF Answers
<1>2. conn' = [conn EXCEPT ![c] = x]
  <2>1. conn' = [conn EXCEPT ![c].req = "gone", ![c].mask = @ \cup {conn[c].dp}]
    BY DEF Answers
  <2>2. conn \in [Conn -> ConnType]
    BY DEF GInv
  <2> QED  BY <2>1, <2>2 DEF ConnType
<1> HIDE DEF old
<1>3. x \in ConnType /\ x.dst = old.dst /\ x.tries = old.tries /\ old.mask \subseteq x.mask /\ x.dp = old.dp
  BY <1>1 DEF ConnType
<1> HIDE DEF x
<1>4. Going(x)
  BY <1>1, <1>3, GoingGrows
<1> QED  BY <1>2, <1>4, OnlyConn DEF Answers

LEMMA EndsKeeps ==
  ASSUME GInv, NEW c \in Conn, Ends(c)
  PROVE  GInv'
  BY OnlyConn, GoingNoConn DEF Ends

LEMMA ExpiresKeeps ==
  ASSUME GInv, NEW d \in Dest, Expires(d)
  PROVE  GInv'
<1> DEFINE e == [cache[d] EXCEPT !.old = TRUE]
<1>1. cache[d] \in EntryType /\ cache[d].dp \in Group
  BY GroupsAssumption DEF GInv, Expires
<1>2. cache' = [cache EXCEPT ![d] = e]
  BY DEF Expires, GInv
<1>3. Usable(e)
  BY <1>1 DEF EntryType, Usable
<1> HIDE DEF e
<1>4. cache' \in [Dest -> EntryType] /\ \A b \in Dest : Usable(cache'[b])
  BY <1>2, <1>3, OneUsable DEF GInv
<1> QED  BY <1>4 DEF GInv, Expires

LEMMA MarkedEffect ==
  ASSUME NEW L, NEW p, Order(L, p), NEW x \in ConnType, x.dp \in Group,
         NEW type \in SUBSET Fault, NEW can, NEW scan, scan = Scan(L, x, type, can)
  PROVE  LET y == Marked(x, scan, type) IN
         /\ y \in ConnType /\ y.dst = x.dst /\ y.kind = x.kind /\ y.req = x.req /\ y.dp = x.dp
         /\ y.tries = x.tries /\ y.mask = Tried(x) \cup scan.passed /\ y.detect = type
         /\ scan.next # Null => scan.next \in Group
<1>0. PICK stop \in 1 .. N + 1 : StopsAt(L, p, x, type, scan, stop)
  BY ScanResult
<1>1. /\ scan.passed = {p[j] : j \in 1 .. stop - 1}
      /\ scan.next # Null => stop \in Group /\ scan.next = p[stop]
  BY <1>0 DEF StopsAt
<1>2. scan.passed \in SUBSET Group /\ (scan.next # Null => scan.next \in Group)
  <2>1. \A j \in 1 .. stop - 1 : j \in Group
    BY ConstantsDG
  <2> QED  BY <1>1, <2>1 DEF Order
<1>3. Tried(x) \in SUBSET Group
  BY DEF Tried, ConnType
<1> DEFINE mask == Tried(x) \cup scan.passed
           y == Marked(x, scan, type)
<1>4. y = [x EXCEPT !.mask = mask, !.detect = type]
  BY DEF Marked
<1>5. mask \in SUBSET Group
  BY <1>2, <1>3
<1> HIDE DEF mask, y
<1>6. /\ y \in ConnType /\ y.dst = x.dst /\ y.kind = x.kind /\ y.req = x.req /\ y.dp = x.dp
      /\ y.tries = x.tries /\ y.mask = mask /\ y.detect = type
  BY <1>4, <1>5 DEF ConnType
<1> QED  BY <1>2, <1>6 DEF mask, y

LEMMA SavedUsable ==
  ASSUME GInv, NEW L \in ListType, NEW x \in ConnType, x.dst \in Dest, NEW scan,
         scan.next # Null => scan.next \in Group
  PROVE  Usable(Saved(L, x, scan))
<1>1. CASE scan.next = Null
  <2>1. Saved(L, x, scan) = [NoEntry EXCEPT !.dp = L.head]
    BY <1>1 DEF Saved
  <2>2. L.head \in Group /\ NoEntry \in EntryType
    BY UsableNoEntry DEF ListType, Usable
  <2> QED  BY <2>1, <2>2 DEF Usable, EntryType
<1>2. CASE scan.next # Null
  <2> DEFINE mask == cache[x.dst].mask \cup x.mask
  <2>1. Saved(L, x, scan) = [dp |-> scan.next, mask |-> mask, detect |-> x.detect, old |-> FALSE]
    BY <1>2 DEF Saved
  <2>2. mask \in SUBSET Group /\ x.detect \in SUBSET Fault
    <3>1. cache[x.dst] \in EntryType
      BY DEF GInv
    <3> QED  BY <3>1 DEF ConnType, EntryType
  <2> HIDE DEF mask
  <2> QED  BY <1>2, <2>1, <2>2 DEF Usable, EntryType
<1> QED  BY <1>1, <1>2

LEMMA TriggerKeeps ==
  ASSUME GInv, NEW c \in Conn, Alive(c), NEW type \in SUBSET Fault, NEW can, NEW goesOn,
         Trigger(c, type, can, goesOn)
  PROVE  GInv'
<1> DEFINE x == conn[c]
           scan == Scan(groups, x, type, can)
           L == Sorted(groups, x, scan)
           marked == Marked(x, scan, type)
           again == Find(L, marked)
           retry == scan.next # Null /\ "noreconn" \notin L.level[scan.next] /\ can
           more == [again EXCEPT !.tries = @ + 1]
           mask == IF retry THEN again.mask ELSE marked.mask
           kept == [marked EXCEPT !.mask = mask, !.req = "gone"]
           new == IF retry /\ again.dp # Null THEN more ELSE IF goesOn THEN kept ELSE NoConn
<1>1. /\ groups' = L /\ swopped' = (swopped \/ L.next # groups.next)
      /\ cache' = [cache EXCEPT ![x.dst] = Saved(L, marked, scan)]
      /\ late' = IF scan.next = Null THEN late \ {x.dst}
                 ELSE IF x.dp \in cache[x.dst].mask THEN late \cup {x.dst} ELSE late
  BY DEF Trigger
<1>2. conn' = [conn EXCEPT ![c] = new]
  <2>1. conn' = [conn EXCEPT ![c] =
            IF retry /\ again.dp # Null THEN [again EXCEPT !.tries = @ + 1]
            ELSE IF goesOn THEN [marked EXCEPT !.mask = IF retry THEN again.mask ELSE @, !.req = "gone"]
            ELSE NoConn]
    BY DEF Trigger
  <2> HIDE DEF again, marked, retry
  <2> QED  BY <2>1
<1>3. Going(x) /\ x \in ConnType /\ x # NoConn /\ x.dp \in Group /\ x.dst \in Dest
  BY AliveGoing
<1>4. groups \in ListType
  BY DEF GInv
<1>5. PICK p : Order(groups, p)
  BY DEF GInv
<1>6. L \in ListType /\ \E q : Order(L, q)
  BY <1>3, <1>4, <1>5, SortedOrder
<1>7. ~swopped' => Order(L, InOrder) /\ L.head = 1 /\ L.detect = Detect
  <2> SUFFICES ASSUME ~swopped' PROVE Order(L, InOrder) /\ L.head = 1 /\ L.detect = Detect
    OBVIOUS
  <2>1. ~swopped /\ L.next = groups.next
    <3> HIDE DEF L
    <3> QED  BY <1>1
  <2>2. Order(groups, InOrder) /\ groups.head = 1 /\ groups.detect = Detect
    BY <2>1 DEF GInv
  <2>3. Order(L, InOrder) /\ L.head = groups.head /\ L.detect = groups.detect
    BY <1>3, <1>4, <2>1, <2>2, SortedOrder
  <2> HIDE DEF L
  <2> QED  BY <2>2, <2>3
<1>8. /\ marked \in ConnType /\ marked.dst = x.dst /\ marked.dp = x.dp /\ marked.tries = x.tries
      /\ marked.mask = Tried(x) \cup scan.passed
      /\ scan.next # Null => scan.next \in Group
  BY <1>3, <1>5, MarkedEffect
<1>9. x.mask \cup {x.dp} \subseteq marked.mask
  <2> HIDE DEF x, marked, scan
  <2> QED  BY <1>8 DEF Tried
<1>10. Usable(Saved(L, marked, scan))
  <2> HIDE DEF x, marked, scan, L
  <2> QED  BY <1>3, <1>6, <1>8, SavedUsable
<1>11. PICK q : Order(L, q)
  BY <1>6
<1> HIDE DEF x, scan, L, marked, retry
<1>12. /\ again \in ConnType /\ again.dst = marked.dst /\ again.tries = marked.tries
       /\ marked.mask \subseteq again.mask
       /\ again.dp # Null => again.dp \in Group /\ again.dp \notin again.mask
  BY <1>6, <1>8, <1>11, FindEffect
<1> HIDE DEF again
<1>13. again.dp # Null => Going(more)
  <2> SUFFICES ASSUME again.dp # Null PROVE Going(more)
    OBVIOUS
  <2>1. again.tries \in Nat
    BY <1>12 DEF ConnType
  <2>2. /\ more \in ConnType /\ more.dst = again.dst /\ more.tries = again.tries + 1
        /\ more.mask = again.mask /\ more.dp = again.dp
    BY <1>12, <2>1 DEF ConnType
  <2> HIDE DEF more
  <2>3. x.mask \cup {x.dp} \subseteq more.mask /\ more.dp \in Group /\ more.dp \notin more.mask
        /\ more.tries = x.tries + 1 /\ more.dst \in Dest
    BY <1>3, <1>8, <1>9, <1>12, <2>2
  <2> QED  BY <1>3, <2>2, <2>3, GoingRetries
<1>14. Going(kept)
  <2>1. mask \in SUBSET Group /\ x.mask \subseteq mask
    BY <1>8, <1>9, <1>12 DEF ConnType
  <2> HIDE DEF mask
  <2>2. /\ kept \in ConnType /\ kept.dst = x.dst /\ kept.tries = x.tries /\ kept.mask = mask
        /\ kept.dp = x.dp
    BY <1>8, <2>1 DEF ConnType
  <2> HIDE DEF kept
  <2> QED  BY <1>3, <2>1, <2>2, GoingGrows
<1> HIDE DEF more, kept
<1>15. Going(new)
  BY <1>13, <1>14, GoingNoConn
<1> HIDE DEF new
<1>16. conn' \in [Conn -> ConnType] /\ \A d \in Conn : Going(conn'[d])
  BY <1>2, <1>15, OneGoing DEF GInv
<1>17. cache' \in [Dest -> EntryType] /\ \A d \in Dest : Usable(cache'[d])
  BY <1>1, <1>3, <1>10, OneUsable DEF GInv
<1>18. late' \subseteq Dest /\ swopped' \in BOOLEAN
  <2>1. late \subseteq Dest /\ swopped \in BOOLEAN
    BY DEF GInv
  <2>2. late' \subseteq Dest
    BY <1>1, <1>3, <2>1
  <2>3. swopped' \in BOOLEAN
    BY <1>1, <2>1
  <2> QED  BY <2>2, <2>3
<1>19. groups' = L
  BY <1>1
<1> QED  BY <1>6, <1>7, <1>16, <1>17, <1>18, <1>19 DEF GInv

\* The trigger of an answer that is not as it should be.
LEMMA AnswersWrongTrigger ==
  ASSUME GInv, NEW c \in Conn, NEW fault, AnswersWrong(c, fault)
  PROVE  \E type \in SUBSET Fault : Trigger(c, type, TRUE, TRUE)
<1> DEFINE path == Path(groups)
           hits == {i \in Group : /\ path[i] \notin Tried(conn[c]) \cup {Null}
                                  /\ fault \in groups.detect[path[i]]}
           type == groups.detect[path[Min(hits)]]
<1>1. hits # {} /\ Trigger(c, type, TRUE, TRUE)
  BY DEF AnswersWrong
<1>2. Min(hits) \in hits
  <2>1. hits \in SUBSET (Nat \ {0})
    BY ConstantsDG
  <2> HIDE DEF hits
  <2> QED  BY <1>1, <2>1, MinMember
<1>3. Min(hits) \in Group
  BY <1>2
<1>4. PICK p : Order(groups, p)
  BY DEF GInv
<1>5. path = p
  BY <1>4, PathIsOrder
<1> HIDE DEF hits, path
<1>6. path[Min(hits)] \in Group
  BY <1>3, <1>4, <1>5 DEF Order
<1>7. type \in SUBSET Fault
  BY <1>6 DEF GInv, ListType
<1> HIDE DEF type
<1> QED  BY <1>1, <1>7

\* What a step does: a trigger of a connection that is alive, or one of the others.
LEMMA GroupSteps ==
  ASSUME GInv, Next
  PROVE  \/ \E c \in Conn, d \in Dest : Open(c, d)
         \/ \E c \in Conn, k \in Kind, kept \in BOOLEAN : Request(c, k, kept)
         \/ \E c \in Conn, type \in SUBSET Fault, can \in BOOLEAN, goesOn \in BOOLEAN :
              /\ Alive(c) /\ Trigger(c, type, can, goesOn)
         \/ \E c \in Conn : Answers(c) \/ Ends(c)
         \/ \E d \in Dest : Expires(d)
<1>1. {"torst"} \in SUBSET Fault /\ {"connect"} \in SUBSET Fault /\ {"tls_err"} \in SUBSET Fault
  BY DEF Fault
<1>2. ASSUME NEW c \in Conn, ServerResets(c)
      PROVE  \E type \in SUBSET Fault, can \in BOOLEAN : Alive(c) /\ Trigger(c, type, can, FALSE)
  <2>1. CanReconnect(c) \in BOOLEAN
    BY DEF CanReconnect
  <2> QED  BY <1>1, <1>2, <2>1 DEF ServerResets
<1>3. ASSUME NEW c \in Conn, ConnectFails(c)
      PROVE  \E type \in SUBSET Fault, can \in BOOLEAN : Alive(c) /\ Trigger(c, type, can, FALSE)
  BY <1>1, <1>3 DEF ConnectFails
<1>4. ASSUME NEW c \in Conn, NEW alive \in BOOLEAN, FirstRoundEnds(c, alive)
      PROVE  \E type \in SUBSET Fault, can \in BOOLEAN : Alive(c) /\ Trigger(c, type, can, FALSE)
  <2>1. (CanReconnect(c) /\ alive) \in BOOLEAN
    BY DEF CanReconnect
  <2> QED  BY <1>1, <1>4, <2>1 DEF FirstRoundEnds
<1>5. ASSUME NEW c \in Conn, NEW fault, AnswersWrong(c, fault)
      PROVE  \E type \in SUBSET Fault, can \in BOOLEAN : Alive(c) /\ Trigger(c, type, can, TRUE)
  BY <1>5, AnswersWrongTrigger DEF AnswersWrong
<1> QED  BY <1>2, <1>3, <1>4, <1>5 DEF Next

LEMMA GStep == GInv /\ [Next]_vars => GInv'
<1> SUFFICES ASSUME GInv, [Next]_vars PROVE GInv'
  OBVIOUS
<1>1. CASE UNCHANGED vars
  BY <1>1 DEF vars, GInv
<1>2. CASE Next
  <2>1. ASSUME NEW c \in Conn, NEW d \in Dest, Open(c, d) PROVE GInv'
    BY <2>1, OpenKeeps
  <2>2. ASSUME NEW c \in Conn, NEW k \in Kind, NEW kept \in BOOLEAN, Request(c, k, kept) PROVE GInv'
    BY <2>2, RequestKeeps
  <2>3. ASSUME NEW c \in Conn, NEW type \in SUBSET Fault, NEW can \in BOOLEAN, NEW goesOn \in BOOLEAN,
               Alive(c), Trigger(c, type, can, goesOn)
        PROVE  GInv'
    BY <2>3, TriggerKeeps
  <2>4. ASSUME NEW c \in Conn, Answers(c) \/ Ends(c) PROVE GInv'
    BY <2>4, AnswersKeeps, EndsKeeps
  <2>5. ASSUME NEW d \in Dest, Expires(d) PROVE GInv'
    BY <2>5, ExpiresKeeps
  <2> QED  BY <1>2, <2>1, <2>2, <2>3, <2>4, <2>5, GroupSteps
<1> QED  BY <1>1, <1>2

LEMMA GAlways == Spec => []GInv
  BY GInit, GStep, PTL DEF Spec

\* An entry and a connection name a group of the list, in every state: what cache_get and
\* find_dp dereference.
THEOREM GroupsTypeCorrect == Spec => []GroupsTypeOK
<1>1. GInv => GroupsTypeOK
  <2> SUFFICES ASSUME GInv PROVE GroupsTypeOK
    OBVIOUS
  <2>1. \A d \in Dest : cache[d] # NoEntry => cache[d].dp \in Group
    BY DEF GInv, Usable
  <2>2. \A c \in Conn : Alive(c) => conn[c].dp \in Group
    BY DEF GInv, Going, Alive
  <2> QED  BY <2>1, <2>2 DEF GInv, GroupsTypeOK, ListType, EntryType, ConnType
<1> QED  BY <1>1, GAlways, PTL

\* Whatever groups are swopped, the list holds each of them once, forwards and backwards
\* (swop_groups).
THEOREM ListAlwaysWhole == Spec => []ListWhole
<1>1. GInv => ListWhole
  <2> SUFFICES ASSUME GInv PROVE ListWhole
    OBVIOUS
  <2>1. PICK p : Order(groups, p)
    BY DEF GInv
  <2>2. Path(groups) = p
    BY <2>1, PathIsOrder
  <2>3. {p[i] : i \in Group} = Group
    BY <2>1 DEF Order
  <2>4. /\ groups.next[p[N]] = Null /\ groups.prev[p[1]] = Null
        /\ \A i \in 1 .. N - 1 : groups.prev[p[i + 1]] = p[i]
    BY <2>1 DEF Order
  <2> QED  BY <2>2, <2>3, <2>4 DEF ListWhole
<1> QED  BY <1>1, GAlways, PTL

\* A request is tried with each group once at most (dp_mask).
THEOREM TriesAlwaysBounded == Spec => []TriesBounded
<1>1. GInv => TriesBounded
  <2> SUFFICES ASSUME GInv, NEW c \in Conn PROVE conn[c].tries < N
    BY DEF TriesBounded
  <2> DEFINE x == conn[c]
  <2>1. x \in ConnType /\ Going(x)
    BY DEF GInv
  <2> HIDE DEF x
  <2>2. CASE x = NoConn
    BY <2>2, ConstantsDG DEF NoConn, x
  <2>3. CASE x # NoConn
    <3>1. x.dp \in Group /\ x.tries \in Nat /\ x.tries <= Cardinality(x.mask \ {x.dp})
      BY <2>1, <2>3 DEF Going, ConnType
    <3> DEFINE S == x.mask \ {x.dp}
    <3>2. S \in SUBSET Group /\ x.dp \notin S /\ S \cup {x.dp} \in SUBSET Group
      BY <2>1, <3>1 DEF ConnType
    <3>3. x.tries <= Cardinality(S)
      BY <3>1
    <3> HIDE DEF S
    <3>4. Cardinality(S \cup {x.dp}) = Cardinality(S) + 1 /\ Cardinality(S \cup {x.dp}) <= N
          /\ Cardinality(S) \in Nat
      BY <3>1, <3>2, Masks
    <3>5. x.tries < N
      BY <3>1, <3>3, <3>4, ConstantsDG
    <3> QED  BY <3>5 DEF x
  <2> QED  BY <2>2, <2>3
<1> QED  BY <1>1, GAlways, PTL

-----------------------------------------------------------------------------
(* What the masks are, as long as the groups are in their first order.        *)

\* The groups before some group are marked, the one of a connection that still has its
\* request being the first that is not.
MarkedUpTo(x) ==
  \E m \in 0 .. N : /\ x.mask = 1 .. m /\ x.dp - 1 <= m
                    /\ x.req # "gone" => m = x.dp - 1

\* The same of an entry, unless a group has failed again that was given up.
EntryUpTo(e, again) ==
  \E m \in 0 .. N : /\ e.mask = 1 .. m /\ e.dp - 1 <= m
                    /\ ~again => m = IF e.dp = Null THEN 0 ELSE e.dp - 1

MasksInv ==
  ~swopped => /\ \A c \in Conn : Alive(c) => MarkedUpTo(conn[c])
              /\ \A d \in Dest : EntryUpTo(cache[d], d \in late)

LEMMA TurnInOrder ==
  ASSUME NEW k \in Group, NEW i \in Group
  PROVE  Turn(InOrder, k)[i] = IF k + i - 1 <= N THEN k + i - 1 ELSE k + i - 1 - N
<1>1. k + i - 1 <= N => k + i - 1 \in Group
  BY ConstantsDG
<1>2. ~(k + i - 1 <= N) => k + i - 1 - N \in Group
  BY ConstantsDG
<1> QED  BY <1>1, <1>2, InOrderPermutes DEF Turn

\* find_dp marks the groups before the one it returns, or all.
LEMMA FindInOrder ==
  ASSUME NEW L \in ListType, Order(L, InOrder), L.head = 1, NEW x \in ConnType,
         NEW m \in 0 .. N, x.mask = 1 .. m, x.dp - 1 <= m
  PROVE  LET y == Find(L, x) IN
         IF y.dp = Null THEN y.mask = 1 .. N
         ELSE y.dp \in Group /\ y.mask = 1 .. y.dp - 1
<1> USE ConstantsDG
<1> DEFINE y == Find(L, x)
<1>1. PICK k \in Group :
           /\ InOrder[k] = IF x.dp = Null THEN L.head ELSE x.dp
           /\ \/ y = [x EXCEPT !.dp = Null, !.mask = Group]
              \/ \E j \in Group :
                   /\ y = [x EXCEPT !.dp = Turn(InOrder, k)[j],
                                    !.mask = @ \cup {Turn(InOrder, k)[i] : i \in 1 .. j - 1}]
                   /\ Turn(InOrder, k)[j] \notin x.mask
  BY FindResult
<1>2. k = (IF x.dp = Null THEN 1 ELSE x.dp) /\ k - 1 <= m
  <2>1. InOrder[k] = k
    BY InOrderPermutes
  <2>2. x.dp \in Group \cup {Null}
    BY DEF ConnType
  <2>3. k = IF x.dp = Null THEN 1 ELSE x.dp
    BY <1>1, <2>1
  <2>4. k - 1 <= m
    <3>1. CASE x.dp = Null
      BY <2>3, <3>1
    <3>2. CASE x.dp # Null
      BY <2>3, <3>2
    <3> QED  BY <3>1, <3>2
  <2> QED  BY <2>3, <2>4
<1> DEFINE w == Turn(InOrder, k)
<1>3. \A i \in Group : w[i] = IF k + i - 1 <= N THEN k + i - 1 ELSE k + i - 1 - N
  BY TurnInOrder
<1> HIDE DEF y, w
<1>4. CASE y = [x EXCEPT !.dp = Null, !.mask = Group]
  <2>1. y.dp = Null /\ y.mask = 1 .. N
    BY <1>4 DEF ConnType
  <2> QED  BY <2>1 DEF y
<1>5. CASE \E j \in Group :
             /\ y = [x EXCEPT !.dp = w[j], !.mask = @ \cup {w[i] : i \in 1 .. j - 1}]
             /\ w[j] \notin x.mask
  <2>1. PICK j \in Group :
             /\ y = [x EXCEPT !.dp = w[j], !.mask = @ \cup {w[i] : i \in 1 .. j - 1}]
             /\ w[j] \notin x.mask
    BY <1>5
  <2>2. w[j] = (IF k + j - 1 <= N THEN k + j - 1 ELSE k + j - 1 - N) /\ ~(w[j] \in 1 .. m)
    BY <1>3, <2>1
  <2>3. k + j - 1 <= N /\ w[j] = k + j - 1 /\ m < w[j]
    BY <1>2, <2>2
  <2> DEFINE S == {w[i] : i \in 1 .. j - 1}
  <2>4. S = k .. k + j - 2
    <3>1. \A i \in 1 .. j - 1 : w[i] = k + i - 1
      <4>1. \A i \in 1 .. j - 1 : i \in Group /\ k + i - 1 <= N
        BY <2>3
      <4> QED  BY <1>3, <4>1
    <3>2. ASSUME NEW g \in k .. k + j - 2 PROVE g \in S
      <4>1. g - k + 1 \in 1 .. j - 1 /\ k + (g - k + 1) - 1 = g
        OBVIOUS
      <4>2. w[g - k + 1] = g
        BY <3>1, <4>1
      <4> QED  BY <4>1, <4>2
    <3>3. ASSUME NEW g \in S PROVE g \in k .. k + j - 2
      <4>1. PICK i \in 1 .. j - 1 : g = w[i]
        BY <3>3
      <4> QED  BY <3>1, <4>1
    <3> HIDE DEF S
    <3> QED  BY <3>2, <3>3
  <2>5. y = [x EXCEPT !.dp = w[j], !.mask = @ \cup S]
    BY <2>1
  <2> HIDE DEF S
  <2>6. y.dp = k + j - 1 /\ y.mask = (1 .. m) \cup (k .. k + j - 2)
    BY <2>3, <2>4, <2>5 DEF ConnType
  <2>7. (1 .. m) \cup (k .. k + j - 2) = 1 .. k + j - 2
    BY <1>2, <2>3
  <2>8. y.dp # Null /\ y.dp \in Group /\ y.mask = 1 .. y.dp - 1
    BY <2>3, <2>6, <2>7
  <2> QED  BY <2>8 DEF y
<1> QED  BY <1>1, <1>4, <1>5 DEF y, w

\* The groups marked after on_trigger's loop are the first n, and the next one comes after.
StopsAfter(L, x, type, scan, n) ==
  /\ Tried(x) \cup scan.passed = 1 .. n /\ x.dp <= n
  /\ scan.next # Null =>
       /\ scan.next = n + 1 /\ scan.next \in Group
       /\ L.detect[scan.next] = {} \/ L.detect[scan.next] \cap type # {}

LEMMA ScanInOrder ==
  ASSUME NEW L, Order(L, InOrder), NEW x \in ConnType, x.dp \in Group,
         NEW m \in 0 .. N, x.mask = 1 .. m, x.dp - 1 <= m,
         NEW type, NEW can, NEW scan, scan = Scan(L, x, type, can)
  PROVE  \E n \in 0 .. N : StopsAfter(L, x, type, scan, n)
<1> USE ConstantsDG
<1>0. PICK stop \in 1 .. N + 1 : StopsAt(L, InOrder, x, type, scan, stop)
  BY ScanResult
<1>1. /\ scan.passed = {InOrder[j] : j \in 1 .. stop - 1}
      /\ scan.next # Null => stop \in Group /\ scan.next = InOrder[stop] /\ scan.next \notin Tried(x)
  BY <1>0 DEF StopsAt
<1>2. scan.passed = 1 .. stop - 1
  <2>1. \A j \in 1 .. stop - 1 : j \in Group /\ InOrder[j] = j
    BY InOrderPermutes
  <2> QED  BY <1>1, <2>1
<1> DEFINE t == IF m < x.dp THEN x.dp ELSE m
           n == IF t < stop - 1 THEN stop - 1 ELSE t
<1>3. Tried(x) = 1 .. t /\ t \in 0 .. N /\ x.dp <= t
  BY DEF Tried
<1>4. n \in 0 .. N /\ x.dp <= n /\ Tried(x) \cup scan.passed = 1 .. n
  BY <1>2, <1>3
<1>5. ASSUME scan.next # Null PROVE scan.next = n + 1 /\ scan.next \in Group
  <2>1. scan.next = stop /\ stop \in Group
    BY <1>1, <1>5, InOrderPermutes
  <2>2. ~(stop \in 1 .. t)
    BY <1>1, <1>3, <1>5, <2>1
  <2> QED  BY <1>3, <2>1, <2>2
<1>6. scan.next # Null => L.detect[scan.next] = {} \/ L.detect[scan.next] \cap type # {}
  BY <1>0 DEF StopsAt
<1> HIDE DEF n
<1> QED  BY <1>4, <1>5, <1>6 DEF StopsAfter

ConnsUpTo == \A c \in Conn : Alive(c) => MarkedUpTo(conn[c])

EntriesUpTo == \A d \in Dest : EntryUpTo(cache[d], d \in late)

LEMMA NoEntryUpTo == \A again \in BOOLEAN : EntryUpTo(NoEntry, again)
<1>1. NoEntry.mask = 1 .. 0 /\ NoEntry.dp = Null /\ 0 \in 0 .. N /\ Null - 1 <= 0
  BY ConstantsDG DEF NoEntry
<1> QED  BY <1>1 DEF EntryUpTo

LEMMA MasksInit == Init => MasksInv
<1> SUFFICES ASSUME Init PROVE MasksInv
  OBVIOUS
<1>1. \A c \in Conn : ~Alive(c)
  BY DEF Init, Alive
<1>2. \A d \in Dest : cache[d] = NoEntry /\ (d \in late) \in BOOLEAN
  BY DEF Init
<1> QED  BY <1>1, <1>2, NoEntryUpTo DEF MasksInv

LEMMA OneUpTo ==
  ASSUME GInv, ConnsUpTo, NEW c \in Conn, NEW x, x = NoConn \/ MarkedUpTo(x),
         conn' = [conn EXCEPT ![c] = x]
  PROVE  ConnsUpTo'
<1>1. \A d \in Conn : conn'[d] = IF d = c THEN x ELSE conn[d]
  BY DEF GInv
<1>2. ASSUME NEW d \in Conn, conn'[d] # NoConn PROVE MarkedUpTo(conn'[d])
  <2>1. CASE d = c
    BY <1>1, <1>2, <2>1
  <2>2. CASE d # c
    <3>1. conn'[d] = conn[d]
      BY <1>1, <2>2
    <3> QED  BY <1>2, <3>1 DEF ConnsUpTo, Alive
  <2> QED  BY <2>1, <2>2
<1>3. \A d \in Conn : conn'[d] # NoConn => MarkedUpTo(conn'[d])
  BY <1>2
<1>4. ConnsUpTo' <=> \A d \in Conn : conn'[d] # NoConn => MarkedUpTo(conn'[d])
  BY DEF ConnsUpTo, Alive, MarkedUpTo
<1> QED  BY <1>3, <1>4

\* The entry of one destination changes, and it alone may be marked late, or not any more.
LEMMA OneEntryUpTo ==
  ASSUME GInv, EntriesUpTo, NEW d \in Dest, NEW e, EntryUpTo(e, d \in late'),
         cache' = [cache EXCEPT ![d] = e], \A b \in Dest : b # d => (b \in late' <=> b \in late)
  PROVE  EntriesUpTo'
<1>1. \A b \in Dest : cache'[b] = IF b = d THEN e ELSE cache[b]
  BY DEF GInv
<1>2. ASSUME NEW b \in Dest PROVE EntryUpTo(cache'[b], b \in late')
  <2>1. CASE b = d
    BY <1>1, <2>1
  <2>2. CASE b # d
    <3>1. cache'[b] = cache[b] /\ (b \in late' <=> b \in late)
      BY <1>1, <2>2
    <3>2. EntryUpTo(cache[b], b \in late)
      BY DEF EntriesUpTo
    <3> QED  BY <3>1, <3>2 DEF EntryUpTo
  <2> QED  BY <2>1, <2>2
<1>3. EntriesUpTo' <=> \A b \in Dest : EntryUpTo(cache'[b], b \in late')
  BY DEF EntriesUpTo, EntryUpTo
<1> QED  BY <1>2, <1>3

LEMMA FreshUpTo ==
  ASSUME GInv, EntriesUpTo, NEW d \in Dest
  PROVE  \E m \in 0 .. N : Fresh(d).mask = 1 .. m /\ Fresh(d).dp - 1 <= m
<1>1. CASE cache[d].old
  <2>1. Fresh(d).mask = 1 .. 0 /\ Fresh(d).dp = Null /\ 0 \in 0 .. N /\ Null - 1 <= 0
    BY <1>1, FreshEffect, ConstantsDG
  <2> QED  BY <2>1
<1>2. CASE ~cache[d].old
  <2>1. Fresh(d).mask = cache[d].mask /\ Fresh(d).dp = cache[d].dp
    BY <1>2, FreshEffect
  <2>2. EntryUpTo(cache[d], d \in late)
    BY DEF EntriesUpTo
  <2> QED  BY <2>1, <2>2 DEF EntryUpTo
<1> QED  BY <1>1, <1>2

LEMMA FoundUpTo ==
  ASSUME GInv, ~swopped, NEW x \in ConnType, NEW m \in 0 .. N, x.mask = 1 .. m, x.dp - 1 <= m,
         Find(groups, x).dp # Null
  PROVE  MarkedUpTo(Find(groups, x))
<1> DEFINE y == Find(groups, x)
<1>1. y.dp \in Group /\ y.mask = 1 .. y.dp - 1
  BY FindInOrder DEF GInv
<1>2. y.dp - 1 \in 0 .. N
  BY <1>1, ConstantsDG
<1> HIDE DEF y
<1>3. MarkedUpTo(y)
  BY <1>1, <1>2, ConstantsDG DEF MarkedUpTo
<1> QED  BY <1>3 DEF y

LEMMA OpenMasks ==
  ASSUME GInv, ~swopped, ConnsUpTo, EntriesUpTo, NEW c \in Conn, NEW d \in Dest, Open(c, d)
  PROVE  ConnsUpTo' /\ EntriesUpTo'
<1> DEFINE x == Find(groups, Fresh(d))
<1>1. conn' = IF x.dp = Null THEN conn ELSE [conn EXCEPT ![c] = x]
  BY DEF Open
<1>2. x.dp # Null => MarkedUpTo(x)
  BY FreshUpTo, FreshEffect, FoundUpTo
<1> HIDE DEF x
<1>3. ConnsUpTo'
  <2>1. CASE x.dp = Null
    BY <1>1, <2>1 DEF ConnsUpTo, Alive, MarkedUpTo
  <2>2. CASE x.dp # Null
    BY <1>1, <1>2, <2>2, OneUpTo
  <2> QED  BY <2>1, <2>2
<1>4. EntriesUpTo'
  <2>1. CASE cache[d].old
    <3>1. PICK e \in Dest : cache' = [cache EXCEPT ![e] = NoEntry] /\ late' = late \ {e}
      BY <2>1 DEF Open, Lookup
    <3>2. (e \in late') \in BOOLEAN /\ \A b \in Dest : b # e => (b \in late' <=> b \in late)
      BY <3>1
    <3> QED  BY <3>1, <3>2, NoEntryUpTo, OneEntryUpTo
  <2>2. CASE ~cache[d].old
    BY <2>2 DEF Open, Lookup, EntriesUpTo, EntryUpTo
  <2> QED  BY <2>1, <2>2
<1> QED  BY <1>3, <1>4

LEMMA RequestMasks ==
  ASSUME GInv, ~swopped, ConnsUpTo, NEW c \in Conn, NEW k \in Kind, NEW kept \in BOOLEAN,
         Request(c, k, kept)
  PROVE  ConnsUpTo'
<1> DEFINE old == conn[c]
           req == IF kept THEN "kept" ELSE "gone"
           x == [old EXCEPT !.kind = k, !.req = req]
           y == Find(groups, x)
           new == IF y.dp = Null THEN NoConn ELSE y
<1>1. old \in ConnType
  BY AliveGoing DEF Request
<1>2. MarkedUpTo(old)
  BY DEF Request, ConnsUpTo
<1>3. conn' = [conn EXCEPT ![c] = new]
  BY DEF Request
<1> HIDE DEF old
<1>4. x \in ConnType /\ x.mask = old.mask /\ x.dp = old.dp
  BY <1>1 DEF ConnType
<1> HIDE DEF x
<1>5. PICK m \in 0 .. N : x.mask = 1 .. m /\ x.dp - 1 <= m
  BY <1>2, <1>4 DEF MarkedUpTo
<1>6. y.dp # Null => MarkedUpTo(y)
  BY <1>4, <1>5, FoundUpTo
<1> HIDE DEF y
<1> QED  BY <1>3, <1>6, OneUpTo

LEMMA AnswersMasks ==
  ASSUME GInv, ConnsUpTo, NEW c \in Conn, Answers(c)
  PROVE  ConnsUpTo'
<1> DEFINE old == conn[c]
           x == [old EXCEPT !.req = "gone", !.mask = @ \cup {old.dp}]
<1>1. old \in ConnType /\ old.dp \in Group /\ MarkedUpTo(old) /\ old.req # "gone"
  BY AliveGoing DEF Answers, ConnsUpTo
<1>2. conn' = [conn EXCEPT ![c] = x]
  <2>1. conn' = [conn EXCEPT ![c].req = "gone", ![c].mask = @ \cup {conn[c].dp}]
    BY DEF Answers
  <2>2. conn \in [Conn -> ConnType]
    BY DEF GInv
  <2> QED  BY <2>1, <2>2 DEF ConnType
<1> HIDE DEF old
<1>3. x.mask = old.mask \cup {old.dp} /\ x.dp = old.dp /\ x.req = "gone"
  BY <1>1 DEF ConnType
<1> HIDE DEF x
<1>4. old.mask = 1 .. old.dp - 1
  BY <1>1 DEF MarkedUpTo
<1>5. x.mask = 1 .. x.dp /\ x.dp \in 0 .. N /\ x.dp - 1 <= x.dp
  BY <1>1, <1>3, <1>4, ConstantsDG
<1>6. MarkedUpTo(x)
  BY <1>3, <1>5 DEF MarkedUpTo
<1> QED  BY <1>2, <1>6, OneUpTo

LEMMA ExpiresMasks ==
  ASSUME GInv, EntriesUpTo, NEW d \in Dest, Expires(d)
  PROVE  EntriesUpTo'
<1> DEFINE e == [cache[d] EXCEPT !.old = TRUE]
<1>1. cache[d] \in EntryType /\ late' = late
  BY DEF GInv, Expires
<1>2. cache' = [cache EXCEPT ![d] = e]
  BY DEF Expires, GInv
<1>3. e.mask = cache[d].mask /\ e.dp = cache[d].dp
  BY <1>1 DEF EntryType
<1> HIDE DEF e
<1>4. EntryUpTo(cache[d], d \in late)
  BY DEF EntriesUpTo
<1>5. EntryUpTo(e, d \in late')
  BY <1>1, <1>3, <1>4 DEF EntryUpTo
<1> QED  BY <1>1, <1>2, <1>5, OneEntryUpTo

\* The entry a failure leaves.
LEMMA SavedUpTo ==
  ASSUME GInv, EntriesUpTo, NEW d \in Dest, NEW L, L.head = 1, NEW y \in ConnType, y.dst = d,
         NEW g \in Group, NEW n \in 0 .. N, y.mask = 1 .. n, g <= n,
         NEW scan, scan.next # Null => scan.next = n + 1 /\ scan.next \in Group,
         late' = IF scan.next = Null THEN late \ {d}
                 ELSE IF g \in cache[d].mask THEN late \cup {d} ELSE late
  PROVE  EntryUpTo(Saved(L, y, scan), d \in late')
<1> USE ConstantsDG
<1>1. CASE scan.next = Null
  <2>1. Saved(L, y, scan) = [NoEntry EXCEPT !.dp = 1]
    BY <1>1 DEF Saved
  <2>2. Saved(L, y, scan).mask = 1 .. 0 /\ Saved(L, y, scan).dp = 1
    BY <2>1 DEF NoEntry
  <2> QED  BY <2>2 DEF EntryUpTo
<1>2. CASE scan.next # Null
  <2> DEFINE e == Saved(L, y, scan)
  <2>1. e = [dp |-> scan.next, mask |-> cache[d].mask \cup y.mask, detect |-> y.detect, old |-> FALSE]
    BY <1>2 DEF Saved
  <2>2. PICK k \in 0 .. N : cache[d].mask = 1 .. k
    BY DEF EntriesUpTo, EntryUpTo
  <2>3. e.dp = n + 1 /\ e.mask = (1 .. k) \cup (1 .. n) /\ e.dp # Null
    BY <1>2, <2>1, <2>2
  <2> HIDE DEF e
  <2> DEFINE m == IF k < n THEN n ELSE k
  <2>4. (1 .. k) \cup (1 .. n) = 1 .. m /\ m \in 0 .. N /\ n <= m
    OBVIOUS
  <2>5. ASSUME ~(d \in late') PROVE m = n
    <3>1. ~(g \in 1 .. k)
      BY <1>2, <2>2, <2>5
    <3> QED  BY <3>1
  <2>6. e.mask = 1 .. m /\ e.dp - 1 <= m /\ (~(d \in late') => m = e.dp - 1)
    BY <2>3, <2>4, <2>5
  <2> HIDE DEF m
  <2>7. EntryUpTo(e, d \in late')
    BY <2>3, <2>4, <2>6 DEF EntryUpTo
  <2> QED  BY <2>7 DEF e
<1> QED  BY <1>1, <1>2

LEMMA TriggerMasks ==
  ASSUME GInv, ~swopped', ConnsUpTo, EntriesUpTo, NEW c \in Conn, Alive(c),
         NEW type \in SUBSET Fault, NEW can, NEW goesOn, Trigger(c, type, can, goesOn)
  PROVE  ConnsUpTo' /\ EntriesUpTo'
<1> DEFINE x == conn[c]
           scan == Scan(groups, x, type, can)
           L == Sorted(groups, x, scan)
           marked == Marked(x, scan, type)
           again == Find(L, marked)
           retry == scan.next # Null /\ "noreconn" \notin L.level[scan.next] /\ can
           more == [again EXCEPT !.tries = @ + 1]
           mask == IF retry THEN again.mask ELSE marked.mask
           kept == [marked EXCEPT !.mask = mask, !.req = "gone"]
           new == IF retry /\ again.dp # Null THEN more ELSE IF goesOn THEN kept ELSE NoConn
<1>1. /\ swopped' = (swopped \/ L.next # groups.next)
      /\ cache' = [cache EXCEPT ![x.dst] = Saved(L, marked, scan)]
      /\ late' = IF scan.next = Null THEN late \ {x.dst}
                 ELSE IF x.dp \in cache[x.dst].mask THEN late \cup {x.dst} ELSE late
  BY DEF Trigger
<1>2. conn' = [conn EXCEPT ![c] = new]
  <2>1. conn' = [conn EXCEPT ![c] =
            IF retry /\ again.dp # Null THEN [again EXCEPT !.tries = @ + 1]
            ELSE IF goesOn THEN [marked EXCEPT !.mask = IF retry THEN again.mask ELSE @, !.req = "gone"]
            ELSE NoConn]
    BY DEF Trigger
  <2> HIDE DEF again, marked, retry
  <2> QED  BY <2>1
<1>3. x \in ConnType /\ x.dp \in Group /\ x.dst \in Dest
  BY AliveGoing
<1>4. ~swopped /\ L.next = groups.next
  <2> HIDE DEF L
  <2> QED  BY <1>1
<1>5. groups \in ListType /\ Order(groups, InOrder) /\ groups.head = 1
  BY <1>4 DEF GInv
<1>6. L \in ListType /\ Order(L, InOrder) /\ L.head = 1
  <2>1. L \in ListType /\ Order(L, InOrder) /\ L.head = groups.head
    BY <1>3, <1>4, <1>5, SortedOrder
  <2> HIDE DEF L
  <2> QED  BY <1>5, <2>1
<1>7. /\ marked \in ConnType /\ marked.dst = x.dst /\ marked.dp = x.dp
      /\ marked.mask = Tried(x) \cup scan.passed
  BY <1>3, <1>5, MarkedEffect
<1>8. MarkedUpTo(x)
  BY DEF ConnsUpTo
<1>9. PICK m \in 0 .. N : x.mask = 1 .. m /\ x.dp - 1 <= m
  <2> HIDE DEF x
  <2> QED  BY <1>8 DEF MarkedUpTo
<1>a. PICK n \in 0 .. N : StopsAfter(groups, x, type, scan, n)
  BY <1>3, <1>5, <1>9, ScanInOrder
<1>10. /\ Tried(x) \cup scan.passed = 1 .. n /\ x.dp <= n
       /\ scan.next # Null => scan.next = n + 1 /\ scan.next \in Group
  BY <1>a DEF StopsAfter
<1> HIDE DEF x, scan, L, marked, retry
<1>11. marked.mask = 1 .. n /\ marked.dp <= n /\ marked.dp - 1 <= n /\ marked.dp \in Group
  BY <1>3, <1>7, <1>10, ConstantsDG
<1>12. /\ again.dp # Null => again.mask = 1 .. again.dp - 1 /\ again.dp \in Group
       /\ again.dp = Null => again.mask = 1 .. N
  BY <1>6, <1>7, <1>11, FindInOrder
<1>13. again \in ConnType
  BY <1>6, <1>7, FindEffect
<1> HIDE DEF again
<1>14. retry /\ again.dp # Null => MarkedUpTo(more)
  <2> SUFFICES ASSUME again.dp # Null PROVE MarkedUpTo(more)
    OBVIOUS
  <2>1. more.mask = again.mask /\ more.dp = again.dp /\ more.req = again.req
    BY <1>13 DEF ConnType
  <2> HIDE DEF more
  <2>2. more.mask = 1 .. more.dp - 1 /\ more.dp - 1 \in 0 .. N /\ more.dp - 1 <= more.dp - 1
    BY <1>12, <2>1, ConstantsDG
  <2> QED  BY <2>2 DEF MarkedUpTo
<1>15. ~(retry /\ again.dp # Null) => MarkedUpTo(kept)
  <2> SUFFICES ASSUME ~(retry /\ again.dp # Null) PROVE MarkedUpTo(kept)
    OBVIOUS
  <2>1. PICK k \in 0 .. N : mask = 1 .. k /\ marked.dp - 1 <= k
    <3>1. CASE retry
      <4>1. mask = 1 .. N /\ N \in 0 .. N /\ marked.dp - 1 <= N
        BY <1>11, <1>12, <3>1, ConstantsDG
      <4> HIDE DEF mask
      <4> QED  BY <4>1
    <3>2. CASE ~retry
      <4>1. mask = 1 .. n /\ marked.dp - 1 <= n
        BY <1>11, <3>2
      <4> HIDE DEF mask
      <4> QED  BY <4>1
    <3> QED  BY <3>1, <3>2
  <2> HIDE DEF mask
  <2>2. kept.mask = mask /\ kept.dp = marked.dp /\ kept.req = "gone"
    BY <1>7 DEF ConnType
  <2> HIDE DEF kept
  <2> QED  BY <2>1, <2>2 DEF MarkedUpTo
<1> HIDE DEF more, kept
<1>16. new = NoConn \/ MarkedUpTo(new)
  BY <1>14, <1>15
<1> HIDE DEF new
<1>17. ConnsUpTo'
  BY <1>2, <1>16, OneUpTo
<1>18. EntryUpTo(Saved(L, marked, scan), x.dst \in late')
  BY <1>1, <1>3, <1>6, <1>7, <1>10, <1>11, SavedUpTo
<1>19. \A b \in Dest : b # x.dst => (b \in late' <=> b \in late)
  BY <1>1
<1>20. EntriesUpTo'
  BY <1>1, <1>3, <1>18, <1>19, OneEntryUpTo
<1> QED  BY <1>17, <1>20

LEMMA MasksStep == GInv /\ MasksInv /\ [Next]_vars => MasksInv'
<1> SUFFICES ASSUME GInv, MasksInv, [Next]_vars, ~swopped' PROVE ConnsUpTo' /\ EntriesUpTo'
  BY DEF MasksInv, ConnsUpTo, EntriesUpTo
<1>1. CASE UNCHANGED vars
  <2>1. ConnsUpTo /\ EntriesUpTo
    BY <1>1 DEF vars, MasksInv, ConnsUpTo, EntriesUpTo
  <2> QED  BY <1>1, <2>1 DEF vars, ConnsUpTo, EntriesUpTo, Alive, MarkedUpTo, EntryUpTo
<1>2. CASE Next
  <2>1. ASSUME NEW c \in Conn, NEW d \in Dest, Open(c, d) PROVE ConnsUpTo' /\ EntriesUpTo'
    <3>1. ~swopped /\ ConnsUpTo /\ EntriesUpTo
      BY <2>1 DEF Open, MasksInv, ConnsUpTo, EntriesUpTo
    <3> QED  BY <2>1, <3>1, OpenMasks
  <2>2. ASSUME NEW c \in Conn, NEW k \in Kind, NEW kept \in BOOLEAN, Request(c, k, kept)
        PROVE  ConnsUpTo' /\ EntriesUpTo'
    <3>1. ~swopped /\ ConnsUpTo /\ EntriesUpTo /\ UNCHANGED <<cache, late>>
      BY <2>2 DEF Request, MasksInv, ConnsUpTo, EntriesUpTo
    <3> QED  BY <2>2, <3>1, RequestMasks DEF EntriesUpTo, EntryUpTo
  <2>3. ASSUME NEW c \in Conn, NEW type \in SUBSET Fault, NEW can \in BOOLEAN, NEW goesOn \in BOOLEAN,
               Alive(c), Trigger(c, type, can, goesOn)
        PROVE  ConnsUpTo' /\ EntriesUpTo'
    <3>1. ~swopped
      BY <2>3 DEF Trigger
    <3>2. ConnsUpTo /\ EntriesUpTo
      BY <3>1 DEF MasksInv, ConnsUpTo, EntriesUpTo
    <3> QED  BY <2>3, <3>2, TriggerMasks
  <2>4. ASSUME NEW c \in Conn, Answers(c) PROVE ConnsUpTo' /\ EntriesUpTo'
    <3>1. ~swopped /\ ConnsUpTo /\ EntriesUpTo /\ UNCHANGED <<cache, late>>
      BY <2>4 DEF Answers, MasksInv, ConnsUpTo, EntriesUpTo
    <3> QED  BY <2>4, <3>1, AnswersMasks DEF EntriesUpTo, EntryUpTo
  <2>5. ASSUME NEW c \in Conn, Ends(c) PROVE ConnsUpTo' /\ EntriesUpTo'
    <3>1. ~swopped /\ ConnsUpTo /\ EntriesUpTo /\ UNCHANGED <<cache, late>>
      BY <2>5 DEF Ends, MasksInv, ConnsUpTo, EntriesUpTo
    <3>2. ConnsUpTo'
      BY <2>5, <3>1, OneUpTo DEF Ends
    <3> QED  BY <3>1, <3>2 DEF EntriesUpTo, EntryUpTo
  <2>6. ASSUME NEW d \in Dest, Expires(d) PROVE ConnsUpTo' /\ EntriesUpTo'
    <3>1. ~swopped /\ ConnsUpTo /\ EntriesUpTo /\ UNCHANGED conn
      BY <2>6 DEF Expires, MasksInv, ConnsUpTo, EntriesUpTo
    <3> QED  BY <2>6, <3>1, ExpiresMasks DEF ConnsUpTo, Alive, MarkedUpTo
  <2> QED  BY <1>2, <2>1, <2>2, <2>3, <2>4, <2>5, <2>6, GroupSteps
<1> QED  BY <1>1, <1>2

\* The cache never makes the proxy refuse a destination that every group from some
\* unconditional one on takes, as long as the groups are in their first order and none has
\* failed for it again that was given up (find_dp, on_trigger).
THEOREM NextConnectionAlwaysServed == Spec => []NextConnectionServed
<1>1. GInv /\ MasksInv => NextConnectionServed
  <2> SUFFICES ASSUME GInv, MasksInv, NEW d \in Dest, Served(d), ~swopped, d \notin late
               PROVE  Find(groups, Fresh(d)).dp # Null
    BY DEF NextConnectionServed
  <2> USE ConstantsDG
  <2> DEFINE x == Fresh(d)
  <2>1. /\ x \in ConnType /\ x.dst = d /\ x.req = "none"
        /\ x.dp = (IF cache[d].old THEN Null ELSE cache[d].dp)
        /\ x.mask = (IF cache[d].old THEN {} ELSE cache[d].mask)
    BY FreshEffect
  <2>2. EntryUpTo(cache[d], d \in late) /\ Usable(cache[d])
    BY DEF MasksInv, GInv
  <2>3. PICK g \in Group : Detect[g] = {} /\ \A h \in g .. N : d \in OnAddr[h]
    BY DEF Served
  <2>4. groups \in ListType /\ Order(groups, InOrder) /\ groups.detect = Detect
    BY DEF GInv
  <2> HIDE DEF x
  <2>5. x.mask = 1 .. (IF x.dp = Null THEN 0 ELSE x.dp - 1)
    <3>1. CASE cache[d].old
      BY <2>1, <3>1
    <3>2. CASE ~cache[d].old
      BY <2>1, <2>2, <3>2 DEF EntryUpTo
    <3> QED  BY <3>1, <3>2
  <2>6. \E h \in Group : h \notin x.mask /\ Accepts(groups, x, h)
    <3>1. CASE x.dp = Null
      <4>1. g \notin x.mask /\ d \in OnAddr[g]
        BY <2>3, <2>5, <3>1
      <4>2. Accepts(groups, x, g)
        BY <2>1, <2>3, <2>4, <4>1 DEF Accepts
      <4> QED  BY <4>1, <4>2
    <3>2. CASE x.dp # Null /\ g < x.dp
      <4>1. x.dp \in Group /\ x.dp \in g .. N
        BY <2>1, <3>2 DEF ConnType
      <4>2. x.dp \notin x.mask
        BY <2>5, <4>1
      <4>3. Accepts(groups, x, x.dp)
        BY <2>1, <2>3, <4>1 DEF Accepts
      <4> QED  BY <4>1, <4>2, <4>3
    <3>3. CASE x.dp # Null /\ ~(g < x.dp)
      <4>1. g \notin x.mask /\ d \in OnAddr[g]
        <5>1. x.dp \in Group
          BY <2>1, <3>3 DEF ConnType
        <5> QED  BY <2>3, <2>5, <3>3, <5>1
      <4>2. Accepts(groups, x, g)
        BY <2>1, <2>3, <2>4, <4>1 DEF Accepts
      <4> QED  BY <4>1, <4>2
    <3> QED  BY <3>1, <3>2, <3>3
  <2>7. PICK k \in Group :
           \/ \A h \in Group : h \in x.mask \/ ~Accepts(groups, x, h)
           \/ \E j \in Group :
                /\ Find(groups, x) = [x EXCEPT !.dp = Turn(InOrder, k)[j],
                       !.mask = @ \cup {Turn(InOrder, k)[i] : i \in 1 .. j - 1}]
                /\ Turn(InOrder, k)[j] \notin x.mask
    BY <2>1, <2>4, FindResult
  <2>8. PICK j \in Group : Find(groups, x) = [x EXCEPT !.dp = Turn(InOrder, k)[j],
                       !.mask = @ \cup {Turn(InOrder, k)[i] : i \in 1 .. j - 1}]
    BY <2>6, <2>7
  <2>9. Turn(InOrder, k)[j] \in Group
    <3>1. Permutes(Turn(InOrder, k))
      BY <2>4, OrderPermutes, TurnPermutes
    <3> QED  BY <3>1 DEF Permutes
  <2> DEFINE new == Turn(InOrder, k)[j]
             mask == x.mask \cup {Turn(InOrder, k)[i] : i \in 1 .. j - 1}
  <2>10. Find(groups, x) = [x EXCEPT !.dp = new, !.mask = mask]
    BY <2>1, <2>8
  <2> HIDE DEF new, mask
  <2>11. Find(groups, x).dp = new
    BY <2>1, <2>10 DEF ConnType
  <2> QED  BY <2>9, <2>11 DEF x, new
<1>2. Spec => []MasksInv
  BY MasksInit, MasksStep, GAlways, PTL DEF Spec
<1> QED  BY <1>1, <1>2, GAlways, PTL

-----------------------------------------------------------------------------
(* The connection that failed is tried with what the cache names.           *)

\* find_dp takes the first group that is not marked, if that accepts the connection.
LEMMA FindFirst ==
  ASSUME NEW L \in ListType, Order(L, InOrder), NEW x \in ConnType, x.dp \in Group,
         NEW n \in 0 .. N, x.mask = 1 .. n, x.dp <= n, n + 1 \in Group, Accepts(L, x, n + 1)
  PROVE  Find(L, x).dp = n + 1
<1> USE ConstantsDG
<1> DEFINE y == Find(L, x)
           Takes(k, j) ==
             /\ y = [x EXCEPT !.dp = Turn(InOrder, k)[j],
                              !.mask = @ \cup {Turn(InOrder, k)[i] : i \in 1 .. j - 1}]
             /\ Turn(InOrder, k)[j] \notin x.mask
             /\ \A i \in 1 .. j - 1 :
                  Turn(InOrder, k)[i] \in x.mask \/ ~Accepts(L, x, Turn(InOrder, k)[i])
<1>1. PICK k \in Group :
           /\ InOrder[k] = IF x.dp = Null THEN L.head ELSE x.dp
           /\ \/ \A g \in Group : g \in x.mask \/ ~Accepts(L, x, g)
              \/ \E j \in Group : Takes(k, j)
  BY FindResult
<1> HIDE DEF Takes
<1>2. k = x.dp
  BY <1>1, InOrderPermutes
<1>3. ~(n + 1 \in x.mask)
  OBVIOUS
<1>4. PICK j \in Group : Takes(k, j)
  BY <1>1, <1>3
<1> DEFINE w == Turn(InOrder, k)
           i == n + 2 - k
<1>5. \A h \in Group : w[h] = IF k + h - 1 <= N THEN k + h - 1 ELSE k + h - 1 - N
  BY TurnInOrder
<1>6. /\ y = [x EXCEPT !.dp = w[j], !.mask = @ \cup {w[h] : h \in 1 .. j - 1}]
      /\ w[j] \notin x.mask
      /\ \A h \in 1 .. j - 1 : w[h] \in x.mask \/ ~Accepts(L, x, w[h])
  BY <1>4 DEF Takes
<1> HIDE DEF w, y
<1>7. i \in Group /\ k + i - 1 = n + 1 /\ w[i] = n + 1
  <2>1. i \in Group /\ k + i - 1 = n + 1 /\ k + i - 1 <= N
    BY <1>2
  <2> QED  BY <1>5, <2>1
<1>8. ~(i \in 1 .. j - 1)
  BY <1>3, <1>6, <1>7
<1>9. w[j] = n + 1
  <2>1. j <= i
    BY <1>7, <1>8
  <2>2. k + j - 1 <= n + 1 /\ k + j - 1 <= N
    BY <1>2, <2>1
  <2>3. w[j] = k + j - 1
    BY <1>5, <2>2
  <2>4. ~(w[j] \in 1 .. n) /\ w[j] \in Group
    BY <1>6, <2>2, <2>3
  <2> QED  BY <2>2, <2>3, <2>4
<1> DEFINE mask == x.mask \cup {w[h] : h \in 1 .. j - 1}
<1>10. y = [x EXCEPT !.dp = w[j], !.mask = mask]
  BY <1>6
<1> HIDE DEF mask
<1>11. y.dp = w[j]
  BY <1>10 DEF ConnType
<1> QED  BY <1>9, <1>11 DEF y

LEMMA TriggerRetries ==
  ASSUME GInv, MasksInv, ~swopped', NEW c \in Conn, Alive(c), NEW type \in SUBSET Fault,
         NEW can, Trigger(c, type, can, FALSE), NEW e, e = cache'[conn[c].dst],
         e.mask # {}, "noreconn" \notin groups.level[e.dp], conn[c].dst \in OnAddr[e.dp],
         conn[c].req = "none" \/ conn[c].kind \in Suits[e.dp]
  PROVE  can => conn'[c].dp = e.dp
<1> DEFINE x == conn[c]
           scan == Scan(groups, x, type, can)
           L == Sorted(groups, x, scan)
           marked == Marked(x, scan, type)
           again == Find(L, marked)
           retry == scan.next # Null /\ "noreconn" \notin L.level[scan.next] /\ can
           more == [again EXCEPT !.tries = @ + 1]
<1>1. /\ swopped' = (swopped \/ L.next # groups.next)
      /\ cache' = [cache EXCEPT ![x.dst] = Saved(L, marked, scan)]
      /\ retry /\ again.dp # Null => conn' = [conn EXCEPT ![c] = more]
  BY DEF Trigger
<1>2. x \in ConnType /\ x.dp \in Group /\ x.dst \in Dest
  BY AliveGoing
<1>3. ~swopped /\ L.next = groups.next
  <2> HIDE DEF L
  <2> QED  BY <1>1
<1>4. groups \in ListType /\ Order(groups, InOrder) /\ groups.head = 1
  BY <1>3 DEF GInv
<1>5. L \in ListType /\ Order(L, InOrder) /\ L.detect = groups.detect /\ L.level = groups.level
  BY <1>2, <1>3, <1>4, SortedOrder
<1>6. /\ marked \in ConnType /\ marked.dst = x.dst /\ marked.dp = x.dp /\ marked.kind = x.kind
      /\ marked.req = x.req /\ marked.detect = type /\ marked.mask = Tried(x) \cup scan.passed
  BY <1>2, <1>4, MarkedEffect
<1>7. PICK m \in 0 .. N : x.mask = 1 .. m /\ x.dp - 1 <= m
  <2>1. MarkedUpTo(x)
    BY <1>3 DEF MasksInv
  <2> HIDE DEF x
  <2> QED  BY <2>1 DEF MarkedUpTo
<1>8. PICK n \in 0 .. N : StopsAfter(groups, x, type, scan, n)
  BY <1>2, <1>4, <1>7, ScanInOrder
<1>9. e = Saved(L, marked, scan)
  <2> HIDE DEF L, marked, scan, x
  <2>1. cache \in [Dest -> EntryType]
    BY DEF GInv
  <2> QED  BY <1>1, <1>2, <2>1 DEF x
<1>10. conn[c] = x /\ conn \in [Conn -> ConnType]
  BY DEF GInv
<1> HIDE DEF x, scan, L, marked
<1>11. scan.next # Null
  <2> SUFFICES ASSUME scan.next = Null PROVE FALSE
    OBVIOUS
  <2>1. e = [NoEntry EXCEPT !.dp = L.head]
    BY <1>9 DEF Saved
  <2> QED  BY <2>1 DEF NoEntry
<1>12. e.dp = scan.next
  BY <1>9, <1>11 DEF Saved
<1>13. /\ marked.mask = 1 .. n /\ marked.dp <= n /\ marked.dp \in Group /\ e.dp = n + 1 /\ e.dp \in Group
       /\ L.detect[e.dp] = {} \/ marked.detect \cap L.detect[e.dp] # {}
  BY <1>2, <1>5, <1>6, <1>8, <1>11, <1>12 DEF StopsAfter
<1>14. Accepts(L, marked, e.dp)
  BY <1>6, <1>10, <1>13 DEF Accepts
<1>15. again.dp = n + 1
  BY <1>5, <1>6, <1>13, <1>14, FindFirst
<1>16. again \in ConnType
  BY <1>5, <1>6, FindEffect
<1>17. can => retry /\ again.dp # Null
  <2> HIDE DEF again
  <2> QED  BY <1>5, <1>11, <1>12, <1>13, <1>15, ConstantsDG
<1> HIDE DEF again, retry
<1>18. more.dp = again.dp
  BY <1>16 DEF ConnType
<1> HIDE DEF more
<1>19. can => conn'[c] = more
  BY <1>1, <1>10, <1>17
<1> QED  BY <1>13, <1>15, <1>18, <1>19

\* What the cache tells others to use is what the connection that failed is tried with next
\* (on_trigger names the group, find_dp finds it), for any number of groups.
THEOREM SavedAlwaysRetried == Spec => SavedIsRetried
<1> DEFINE Retried(c) ==
             LET e == cache'[conn[c].dst] IN
             /\ (ServerResets(c) \/ ConnectFails(c)) /\ CanReconnect(c)
             /\ e.mask # {} /\ ~swopped' /\ "noreconn" \notin groups.level[e.dp]
             /\ conn[c].dst \in OnAddr[e.dp] /\ (conn[c].req = "none" \/ conn[c].kind \in Suits[e.dp])
             => conn'[c].dp = e.dp
<1>1. ASSUME GInv, MasksInv, NEW c \in Conn PROVE Retried(c)
  <2> DEFINE e == cache'[conn[c].dst]
  <2> SUFFICES ASSUME ServerResets(c) \/ ConnectFails(c), CanReconnect(c), e.mask # {}, ~swopped',
                      "noreconn" \notin groups.level[e.dp], conn[c].dst \in OnAddr[e.dp],
                      conn[c].req = "none" \/ conn[c].kind \in Suits[e.dp]
               PROVE  conn'[c].dp = e.dp
    OBVIOUS
  <2>1. {"torst"} \in SUBSET Fault /\ {"connect"} \in SUBSET Fault
    BY DEF Fault
  <2> HIDE DEF e
  <2>2. e = cache'[conn[c].dst]
    BY DEF e
  <2>3. CASE ServerResets(c)
    <3>1. Alive(c) /\ Trigger(c, {"torst"}, CanReconnect(c), FALSE)
      BY <2>3 DEF ServerResets
    <3> QED  BY <1>1, <2>1, <2>2, <3>1, TriggerRetries, Zenon
  <2>4. CASE ConnectFails(c)
    <3>1. Alive(c) /\ Trigger(c, {"connect"}, TRUE, FALSE)
      BY <2>4 DEF ConnectFails
    <3> QED  BY <1>1, <2>1, <2>2, <3>1, TriggerRetries, Zenon
  <2> QED  BY <2>3, <2>4
<1>2. GInv /\ MasksInv => [\A c \in Conn : Retried(c)]_vars
  BY <1>1
<1>3. Spec => []MasksInv
  BY MasksInit, MasksStep, GAlways, PTL DEF Spec
<1>4. SavedIsRetried <=> [][\A c \in Conn : Retried(c)]_vars
  BY DEF SavedIsRetried
<1> HIDE DEF Retried
<1> QED  BY <1>2, <1>3, <1>4, GAlways, PTL
=============================================================================
