----------------------------- MODULE DesyncGroups -----------------------------
(***************************************************************************)
(* The groups of desync options (--auto), the cache that remembers which     *)
(* group a destination needs, and the connections that look for one:         *)
(* on_trigger, swop_groups, on_response, find_dp, cache_get and cache_add    *)
(* (extend.c).  Each action is one callback of the event loop; connections   *)
(* to one destination share its entry of the cache, and all share the list.  *)
(***************************************************************************)
EXTENDS Integers, FiniteSetsExt

CONSTANTS
  N,           \* groups; a group is named by its id + 1
  Conn, Dest,  \* connections, destinations
  Detect,      \* Detect[g]: faults the group is tried after (dp->detect; none: {})
  Level,       \* Level[g]: its --auto-mode (dp->auto_level)
  OnAddr,      \* OnAddr[g]: destinations its address filters accept (check_l34)
  Suits,       \* Suits[g]: requests its --proto and --hosts accept
  Ttl,         \* groups with a --cache-ttl
  Pri,         \* Pri[g]: how little the group is wanted (--auto p=)
  MaxPri       \* bound on the sum of the priorities, which count failures

Group == 1 .. N
Null == 0
Kind == {"tls", "http"}
Fault == {"torst", "connect", "tls_err", "redirect"}
Mode == {"onreconn", "noreconn", "sort"}

ASSUME GroupsAssumption ==
  /\ N \in Nat \ {0} /\ MaxPri \in Nat /\ Pri \in [Group -> Nat]
  /\ Detect \in [Group -> SUBSET Fault] /\ Level \in [Group -> SUBSET Mode]
  /\ OnAddr \in [Group -> SUBSET Dest] /\ Suits \in [Group -> SUBSET Kind]
  /\ Ttl \subseteq Group
  /\ Pri[N] = 0   \* p= is about the group before the one it stands at
  \* parse_args adds a group without limits if there is none (all_limited)
  /\ \E g \in Group : Detect[g] = {} /\ OnAddr[g] = Dest /\ Suits[g] = Kind

VARIABLES
  groups,      \* the list: params.dp; next, prev, detect, auto_level and pri of each
  cache,       \* cache[d]: the entry of destination d (struct elem_i)
  conn,        \* conn[c]: dp, dp_mask and detect of the client's eval, and its request
  late,        \* history: destinations whose entry a group failed for again
  swopped      \* history: the order of the groups has changed

vars == <<groups, cache, conn, late, swopped>>

NoEntry == [dp |-> Null, mask |-> {}, detect |-> {}, old |-> FALSE]
NoConn == [dst |-> "none", kind |-> "none", req |-> "none",
           dp |-> Null, mask |-> {}, detect |-> {}, tries |-> 0]

Init ==
  /\ groups = [head |-> 1,
               next |-> [g \in Group |-> IF g < N THEN g + 1 ELSE Null],
               prev |-> [g \in Group |-> g - 1],
               detect |-> Detect, level |-> Level, pri |-> Pri]
  /\ cache = [d \in Dest |-> NoEntry]
  /\ conn = [c \in Conn |-> NoConn]
  /\ late = {} /\ swopped = FALSE

-----------------------------------------------------------------------------
(* The list of groups.                                                      *)

\* The groups in the order a loop over dp->next meets them.
Path(L) ==
  LET path[i \in Group] == IF i = 1 THEN L.head
                           ELSE IF path[i - 1] = Null THEN Null ELSE L.next[path[i - 1]]
  IN path

\* The groups from g on, once around the list.
Around(L, g) ==
  LET around[i \in Group] ==
        IF i = 1 THEN g
        ELSE IF L.next[around[i - 1]] = Null THEN L.head ELSE L.next[around[i - 1]]
  IN around

\* swop_groups: the assignments in the order of the code.
Swop(L, dpc, dpn) ==
  LET near == L.next[dpc] = dpn
      next1 == [L.next EXCEPT ![dpc] = L.next[dpn], ![dpn] = L.next[dpc]]
      prev1 == [L.prev EXCEPT ![dpc] = L.prev[dpn], ![dpn] = L.prev[dpc]]
      next2 == IF prev1[dpn] = Null THEN next1 ELSE [next1 EXCEPT ![prev1[dpn]] = dpn]
      prev2 == IF next2[dpc] = Null THEN prev1 ELSE [prev1 EXCEPT ![next2[dpc]] = dpc]
      prev3 == IF near THEN [prev2 EXCEPT ![dpc] = dpn] ELSE [prev2 EXCEPT ![next2[dpn]] = dpn]
      next3 == IF near THEN [next2 EXCEPT ![dpn] = dpc] ELSE [next2 EXCEPT ![prev3[dpc]] = dpc]
      Exchanged(f) == [f EXCEPT ![dpc] = f[dpn], ![dpn] = f[dpc]]
  IN [L EXCEPT !.next = next3, !.prev = prev3,
               !.detect = Exchanged(@), !.level = Exchanged(@),
               !.head = IF @ = dpc THEN dpn ELSE @]

\* Mutant of Accepts: a group once chosen for the address is not filtered again.
AcceptsCached(L, x, g) ==
  \/ g = x.dp
  \/ /\ L.detect[g] = {} \/ x.detect \cap L.detect[g] # {}
     /\ x.dst \in OnAddr[g] /\ (x.req = "none" \/ x.kind \in Suits[g])

\* Does find_dp take g for connection x, if it is not in its mask?
Accepts(L, x, g) ==
  /\ g = x.dp \/ L.detect[g] = {} \/ x.detect \cap L.detect[g] # {}
  /\ x.dst \in OnAddr[g] /\ (x.req = "none" \/ x.kind \in Suits[g])

\* find_dp: from the group x has, or the head, once around the list.
Find(L, x) ==
  LET visited == Around(L, IF x.dp = Null THEN L.head ELSE x.dp)
      hits == {i \in Group : visited[i] \notin x.mask /\ Accepts(L, x, visited[i])}
  IN IF hits = {} THEN [x EXCEPT !.dp = Null, !.mask = Group]
     ELSE [x EXCEPT !.dp = visited[Min(hits)],
                    !.mask = @ \cup {visited[i] : i \in 1 .. Min(hits) - 1}]

-----------------------------------------------------------------------------
(* Connections.                                                             *)

Alive(c) == conn[c] # NoConn

\* cache_get.  An expired entry is not used; mem_delete takes the length in bytes for
\* bits, so that what it deletes is the first entry it meets of the address family.
Lookup(d) ==
  IF cache[d].old
    THEN \E e \in Dest : /\ cache[e] # NoEntry
                         /\ cache' = [cache EXCEPT ![e] = NoEntry]
                         /\ late' = late \ {e}
    ELSE UNCHANGED <<cache, late>>

\* What a new connection to d starts from.
Fresh(d) ==
  [NoConn EXCEPT !.dst = d,
                 !.dp = IF cache[d].old THEN Null ELSE cache[d].dp,
                 !.mask = IF cache[d].old THEN {} ELSE cache[d].mask,
                 !.detect = IF cache[d].old THEN {} ELSE cache[d].detect]

\* connect_hook: the connection is refused if no group is left.
Open(c, d) ==
  /\ ~Alive(c)
  /\ Lookup(d)
  /\ LET x == Find(groups, Fresh(d)) IN
       conn' = IF x.dp = Null THEN conn ELSE [conn EXCEPT ![c] = x]
  /\ UNCHANGED <<groups, swopped>>

\* tcp_recv_hook keeps the first request, and setup_conn looks at it; one that does not
\* fit the buffer is not kept.
Request(c, k, kept) ==
  /\ Alive(c) /\ conn[c].req = "none"
  /\ LET x == Find(groups, [conn[c] EXCEPT !.kind = k, !.req = IF kept THEN "kept" ELSE "gone"]) IN
       conn' = [conn EXCEPT ![c] = IF x.dp = Null THEN NoConn ELSE x]
  /\ UNCHANGED <<groups, cache, late, swopped>>

\* Mutant of Tried: the group that failed is not marked.
TriedBefore(x) == x.mask

Tried(x) == x.mask \cup {x.dp}

\* on_trigger's loop over the list: where it stops, whether it found the next group, and
\* the groups it passed.
Scan(L, x, type, can) ==
  LET path == Path(L)
      Passed(i) == {path[j] : j \in 1 .. i - 1}
      Exhausted(i) == Tried(x) \subseteq Passed(i) /\ L.detect[path[i]] = {}
      Takes(i) == LET g == path[i] IN
        /\ g \notin Tried(x) /\ (L.detect[g] = {} \/ L.detect[g] \cap type # {})
        /\ "onreconn" \notin L.level[g] \/ can
      stops == {i \in Group : path[i] # Null /\ (Exhausted(i) \/ Takes(i))}
      stop == IF stops = {} THEN N + 1 ELSE Min(stops)
  IN [next |-> IF stop > N \/ Exhausted(stop) THEN Null ELSE path[stop], passed |-> Passed(stop)]

\* Mutant of Swoppable: the order of the two groups in the list is not looked at.
SwoppableAnyhow(L, x, scan) ==
  /\ scan.next # Null /\ "sort" \in L.level[scan.next]
  /\ L.pri[x.dp] > L.pri[scan.next]

\* The next group goes before the one that failed, if it has failed less often and the
\* loop has passed the latter.
Swoppable(L, x, scan) ==
  /\ scan.next # Null /\ "sort" \in L.level[scan.next]
  /\ L.pri[x.dp] > L.pri[scan.next]
  /\ x.dp \in scan.passed

\* The list after x failed: the failure counts once for a destination.
Sorted(L, x, scan) ==
  IF x.dp \in cache[x.dst].mask THEN L
  ELSE [(IF Swoppable(L, x, scan) THEN Swop(L, x.dp, scan.next) ELSE L)
          EXCEPT !.pri[x.dp] = @ + 1]

\* Mutant of Marked: the fault is not noted at the connection.
MarkedOnly(x, scan, type) == [x EXCEPT !.mask = Tried(x) \cup scan.passed]

\* The connection after the loop.
Marked(x, scan, type) == [x EXCEPT !.mask = Tried(x) \cup scan.passed, !.detect = type]

\* Mutant of Saved: that no group is left is not looked at.
SavedBlindly(L, x, scan) ==
  [dp |-> scan.next, mask |-> cache[x.dst].mask \cup x.mask, detect |-> x.detect, old |-> FALSE]

\* Mutant of Saved: the mask is not cleared when no group is left.
SavedExhausted(L, x, scan) ==
  [dp |-> IF scan.next = Null THEN L.head ELSE scan.next,
   mask |-> cache[x.dst].mask \cup x.mask, detect |-> x.detect, old |-> FALSE]

\* What the cache remembers of destination x.dst; nothing, if no group is left.
Saved(L, x, scan) ==
  IF scan.next = Null THEN [NoEntry EXCEPT !.dp = L.head]
  ELSE [dp |-> scan.next, mask |-> cache[x.dst].mask \cup x.mask, detect |-> x.detect, old |-> FALSE]

\* on_trigger: on -1 the connection ends, or goes on with the answer it has (on_response).
Trigger(c, type, can, goesOn) ==
  LET x == conn[c]
      scan == Scan(groups, x, type, can)
      L == Sorted(groups, x, scan)
      marked == Marked(x, scan, type)
      again == Find(L, marked)
      retry == scan.next # Null /\ "noreconn" \notin L.level[scan.next] /\ can
  IN
  /\ MapThenSumSet(LAMBDA g : L.pri[g], Group) <= MaxPri
  /\ groups' = L /\ swopped' = (swopped \/ L.next # groups.next)
  /\ cache' = [cache EXCEPT ![x.dst] = Saved(L, marked, scan)]
  /\ late' = IF scan.next = Null THEN late \ {x.dst}
             ELSE IF x.dp \in cache[x.dst].mask THEN late \cup {x.dst} ELSE late
  /\ conn' = [conn EXCEPT ![c] =
       IF retry /\ again.dp # Null THEN [again EXCEPT !.tries = @ + 1]
       ELSE IF goesOn THEN [marked EXCEPT !.mask = IF retry THEN again.mask ELSE @, !.req = "gone"]
       ELSE NoConn]

CanReconnect(c) == conn[c].req # "gone"

\* on_torst: a reset, or --timeout.
ServerResets(c) == Alive(c) /\ Trigger(c, {"torst"}, CanReconnect(c), FALSE)

\* on_connerr
ConnectFails(c) == Alive(c) /\ CanReconnect(c) /\ Trigger(c, {"connect"}, TRUE, FALSE)

\* on_fin in the first round of a TLS connection, of the server or of the client.
FirstRoundEnds(c, alive) ==
  /\ Alive(c) /\ conn[c].req # "none" /\ conn[c].kind = "tls"
  /\ Trigger(c, {"tls_err"}, CanReconnect(c) /\ alive, FALSE)

\* The server answers as it should.
Answers(c) ==
  /\ Alive(c) /\ conn[c].req = "kept"
  /\ conn' = [conn EXCEPT ![c].req = "gone", ![c].mask = @ \cup {conn[c].dp}]
  /\ UNCHANGED <<groups, cache, late, swopped>>

\* on_response: a redirect, or no server hello.  The first group that is tried after it
\* gives the faults on_trigger is told.
AnswersWrong(c, fault) ==
  /\ Alive(c) /\ conn[c].req = "kept"
  /\ fault = (IF conn[c].kind = "tls" THEN "tls_err" ELSE "redirect")
  /\ LET path == Path(groups)
         hits == {i \in Group : path[i] \notin Tried(conn[c]) \cup {Null} /\ fault \in groups.detect[path[i]]}
     IN hits # {} /\ Trigger(c, groups.detect[path[Min(hits)]], TRUE, TRUE)

Ends(c) ==
  /\ Alive(c)
  /\ conn' = [conn EXCEPT ![c] = NoConn]
  /\ UNCHANGED <<groups, cache, late, swopped>>

\* --cache-ttl seconds have passed.
Expires(d) ==
  /\ cache[d].dp \in Ttl /\ ~cache[d].old
  /\ cache' = [cache EXCEPT ![d].old = TRUE]
  /\ UNCHANGED <<groups, conn, late, swopped>>

Next ==
  \/ \E c \in Conn, d \in Dest : Open(c, d)
  \/ \E c \in Conn, k \in Kind, kept \in BOOLEAN : Request(c, k, kept)
  \/ \E c \in Conn : ServerResets(c) \/ ConnectFails(c) \/ Answers(c) \/ Ends(c)
  \/ \E c \in Conn, alive \in BOOLEAN : FirstRoundEnds(c, alive)
  \/ \E c \in Conn, fault \in {"tls_err", "redirect"} : AnswersWrong(c, fault)
  \/ \E d \in Dest : Expires(d)

Spec == Init /\ [][Next]_vars

-----------------------------------------------------------------------------
(* Properties.                                                             *)

\* Types; an entry leads to a group, which cache_get and find_dp dereference, and so does a
\* connection.
GroupsTypeOK ==
  /\ groups \in [head : Group, next : [Group -> Group \cup {Null}], prev : [Group -> Group \cup {Null}],
                 detect : [Group -> SUBSET Fault], level : [Group -> SUBSET Mode],
                 pri : [Group -> Nat]]
  /\ cache \in [Dest -> [dp : Group \cup {Null}, mask : SUBSET Group, detect : SUBSET Fault,
                         old : BOOLEAN]]
  /\ conn \in [Conn -> [dst : Dest \cup {"none"}, kind : Kind \cup {"none"},
                        req : {"none", "kept", "gone"}, dp : Group \cup {Null},
                        mask : SUBSET Group, detect : SUBSET Fault, tries : Nat]]
  /\ late \subseteq Dest /\ swopped \in BOOLEAN
  /\ \A d \in Dest : cache[d] # NoEntry => cache[d].dp \in Group
  /\ \A c \in Conn : Alive(c) => conn[c].dp \in Group

\* The list leads to every group and back, in whatever order groups have been swopped
\* (swop_groups); a lost one would never be tried, nor freed by clear_params.
ListWhole ==
  LET path == Path(groups) IN
  /\ {path[i] : i \in Group} = Group /\ groups.next[path[N]] = Null
  /\ groups.prev[path[1]] = Null /\ \A i \in 1 .. N - 1 : groups.prev[path[i + 1]] = path[i]

\* A request is not tried for ever: each group has it once at most, though find_dp starts
\* where the last one was and the list changes in between (dp_mask).
TriesBounded == \A c \in Conn : conn[c].tries < N

\* The group a request is sent through is one whose filters accept it, whatever the cache
\* knew of its address from other requests (find_dp in connect_hook and setup_conn).
RequestSuits ==
  \A c \in Conn : Alive(c) /\ conn[c].req # "none" =>
    conn[c].dst \in OnAddr[conn[c].dp] /\ conn[c].kind \in Suits[conn[c].dp]

\* A group that waits for no fault takes d, and so does every group after it.  Of others the
\* cache may name one whose address filters refuse d, and d is refused until it expires.
Served(d) == \E g \in Group : Detect[g] = {} /\ \A h \in g .. N : d \in OnAddr[h]

\* The cache never makes the proxy refuse such a destination, unless a group failed for it
\* that had been given up before, by a connection that was slower than others.
NextConnectionServed ==
  \A d \in Dest : Served(d) /\ ~swopped /\ d \notin late => Find(groups, Fresh(d)).dp # Null

\* What the cache tells others to use is what the connection that failed is tried with next,
\* as long as the groups are in their first order and that group accepts it (on_trigger
\* chooses it, reconnect leaves it to find_dp, which starts elsewhere, to find it again).
SavedIsRetried ==
  [][\A c \in Conn :
       LET e == cache'[conn[c].dst] IN
       /\ (ServerResets(c) \/ ConnectFails(c)) /\ CanReconnect(c)
       /\ e.mask # {} /\ ~swopped' /\ "noreconn" \notin groups.level[e.dp]
       /\ conn[c].dst \in OnAddr[e.dp] /\ (conn[c].req = "none" \/ conn[c].kind \in Suits[e.dp])
       => conn'[c].dp = e.dp]_vars
=============================================================================
