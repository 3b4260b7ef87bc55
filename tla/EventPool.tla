----------------------------- MODULE EventPool -----------------------------
(* The event pool of byedpi (conev.c) and the loop that runs on it: slots of  *)
(* struct eval, the links array that keeps the live ones in front, the timer  *)
(* list, the batch of epoll events being worked off, and del_event, which     *)
(* closes a whole connection by following pair.  The callbacks of proxy.c and *)
(* extend.c are modelled by what they do to the pool; bytes are left out.     *)
(* Left out too: transparent mode, the upstream proxy of option -C, and       *)
(* failures of pipe, getsockname and EPOLL_CTL_MOD on a registered descriptor.*)
EXTENDS Integers, Sequences, FiniteSets

CONSTANTS Max,       \* slots of the pool: params.max_open * 2 + 1
          Delays,    \* what set_timer is called with: await_int, ptimeout
          MaxBatch   \* bound: events that one epoll_wait returns

ASSUME MaxAssumption == Max \in Nat /\ Max >= 3
ASSUME DelaysAssumption == Delays \subseteq Nat \ {0} /\ Delays # {}
ASSUME BatchAssumption == MaxBatch \in Nat \ {0}

Slots == 0 .. Max - 1
Nil == -1
Callbacks == {"none", "ctrl", "accept", "request", "ignore", "connect", "tunnel", "udp"}

(* struct poolhd and its items, one field per member.  live: fd # -1.         *)
(* touched: mod_iter = pool->iters (the counter itself is 64 bits wide and is *)
(* compared only so).  left: tv_ms - time_ms(), never below 0, Nil when the   *)
(* slot has no timer.  conn: FLAG_CONN on the remote half of a connection.    *)
(* open counts the descriptors the callbacks opened and nobody closed, died   *)
(* the slots deleted since the last epoll_wait: both only for the properties. *)
VARIABLES pool,
          pending,   \* the events of pevents still to be looked at, in order
          phase,     \* where loop_event is
          cur,       \* the event whose callback runs
          etype,     \* kind of the last event: it survives to the next call
          brk        \* pool->brk

vars == <<pool, pending, phase, cur, etype, brk>>

Live(P, s) == s \in P.live
Full(P) == P.count >= Max
-----------------------------------------------------------------------------
(* conev.c: the operations on the pool.                                       *)

(* The slot s cleared by memset and given to the callback cb.                 *)
Cleared(P, s, cb) ==
  [P EXCEPT !.index[s] = P.count, !.cb[s] = cb, !.pair[s] = Nil, !.conn = @ \ {s},
            !.left[s] = Nil, !.next[s] = Nil, !.prev[s] = Nil]

(* Mutant of AddEvent: the slot does not remember the iteration it was made in. *)
AddEventForgetsIteration(P, cb) ==
  LET s == P.links[P.count]
  IN  [Cleared(P, s, cb) EXCEPT
         !.count = @ + 1, !.live = @ \cup {s}, !.touched = @ \ {s}]

(* add_event on a pool that has a slot left: the first slot behind the live   *)
(* ones.                                                                      *)
AddEvent(P, cb) ==
  LET s == P.links[P.count]
  IN  [Cleared(P, s, cb) EXCEPT
         !.count = @ + 1, !.live = @ \cup {s}, !.touched = @ \cup {s}]

(* Mutant of RemoveTimer: the end of the list keeps pointing to the slot.     *)
RemoveTimerKeepsEnd(P, s) ==
  LET p == P.prev[s]
      n == P.next[s]
  IN  [P EXCEPT !.next = [x \in Slots |-> IF x = s THEN Nil ELSE IF x = p THEN n ELSE @[x]],
                !.prev = [x \in Slots |-> IF x = s THEN Nil ELSE IF x = n THEN p ELSE @[x]],
                !.start = IF @ = s THEN n ELSE @,
                !.left[s] = Nil]

RemoveTimer(P, s) ==
  LET p == P.prev[s]
      n == P.next[s]
  IN  [P EXCEPT !.next = [x \in Slots |-> IF x = s THEN Nil ELSE IF x = p THEN n ELSE @[x]],
                !.prev = [x \in Slots |-> IF x = s THEN Nil ELSE IF x = n THEN p ELSE @[x]],
                !.start = IF @ = s THEN n ELSE @,
                !.end = IF @ = s THEN p ELSE @,
                !.left[s] = Nil]

(* Where set_timer inserts: from tv_end back past every timer that is not     *)
(* earlier, as <<prev, next>>.                                                *)
InsertionPoint(P, ms) ==
  LET at[i \in 0 .. Max] ==
        IF i = 0 THEN <<P.end, Nil>>
        ELSE LET p == at[i - 1][1]
             IN  IF p # Nil /\ P.left[p] >= ms THEN <<P.prev[p], p>> ELSE at[i - 1]
  IN  at[Max]

(* set_timer: a slot that has a timer keeps it.                               *)
SetTimer(P, s, ms) ==
  LET p == InsertionPoint(P, ms)[1]
      n == InsertionPoint(P, ms)[2]
  IN  IF P.left[s] # Nil THEN P
      ELSE [P EXCEPT !.left[s] = ms,
                     !.next = [x \in Slots |-> IF x = s THEN n ELSE IF x = p THEN s ELSE @[x]],
                     !.prev = [x \in Slots |-> IF x = s THEN p ELSE IF x = n THEN s ELSE @[x]],
                     !.start = IF @ = Nil \/ n = @ THEN s ELSE @,
                     !.end = IF @ = Nil \/ p = @ THEN s ELSE @]

(* Mutant of Unlink: the slot that takes the place is not told its new index. *)
UnlinkForgetsIndex(P, s) ==
  LET last == P.links[P.count - 1]
      i == P.index[s]
  IN  [P EXCEPT !.count = @ - 1,
                !.links = IF last = s THEN @
                          ELSE [@ EXCEPT ![i] = last, ![P.count - 1] = s]]

(* The middle of del_event: the last live slot takes the place of this one.   *)
Unlink(P, s) ==
  LET last == P.links[P.count - 1]
      i == P.index[s]
  IN  [P EXCEPT !.count = @ - 1,
                !.links = IF last = s THEN @
                          ELSE [@ EXCEPT ![i] = last, ![P.count - 1] = s],
                !.index = IF last = s THEN @ ELSE [@ EXCEPT ![last] = i]]

Owned(P, s) == P.cb[s] \notin {"ctrl", "accept"}

(* del_event up to the recursive call: nothing for a slot that is closed      *)
(* already; the partner forgets this slot if it points back.                  *)
DelOne(P, s) ==
  IF s = Nil \/ ~Live(P, s) THEN P
  ELSE LET Q == Unlink(RemoveTimer(P, s), s)
           q == P.pair[s]
       IN  [Q EXCEPT !.live = @ \ {s}, !.touched = @ \cup {s}, !.died = @ \cup {s},
                     !.open = IF Owned(P, s) THEN @ - 1 ELSE @,
                     !.pair = [x \in Slots |->
                                 IF x = s \/ (x = q /\ @[x] = s) THEN Nil ELSE @[x]]]

(* What del_event calls itself with.                                          *)
Follow(P, s) == IF s # Nil /\ Live(P, s) THEN P.pair[s] ELSE Nil

(* Mutant of DelEvent: the connection is closed without its other half.       *)
DelEventAlone(P, s) == DelOne(P, s)

(* del_event: it follows pair until nothing is left to close; the longest     *)
(* chain is the ring of three that udp_associate makes.                       *)
DelEvent(P, s) ==
  LET P1 == DelOne(P, s)
      s1 == Follow(P, s)
      P2 == DelOne(P1, s1)
      s2 == Follow(P1, s1)
  IN  DelOne(P2, s2)

EmptyPool ==
  [links |-> [i \in Slots |-> i], count |-> 0,
   live |-> {}, touched |-> Slots, died |-> {}, open |-> 0,
   index |-> [s \in Slots |-> 0], cb |-> [s \in Slots |-> "none"],
   pair |-> [s \in Slots |-> Nil], conn |-> {},
   left |-> [s \in Slots |-> Nil], next |-> [s \in Slots |-> Nil],
   prev |-> [s \in Slots |-> Nil], start |-> Nil, end |-> Nil]

(* init_pool registers the control pipe, start_event_loop the listener.       *)
FreshPool == AddEvent(AddEvent(EmptyPool, "ctrl"), "accept")

PoolInit ==
  /\ pool = FreshPool /\ pending = <<>>
  /\ phase = "next" /\ cur = Nil /\ etype = "none" /\ brk = FALSE
-----------------------------------------------------------------------------
(* loop_event and next_event_tv.                                              *)

(* next_event skips an event whose slot was made or deleted in this iteration. *)
Deliverable(e) == e \notin pool.touched

(* The events of the batch still to be looked at that would be delivered now. *)
Remaining == {i \in 1 .. Len(pending) : Deliverable(pending[i])}

Due == pool.start # Nil /\ pool.left[pool.start] = 0

(* The loop hands an event to its callback.                                   *)
Dispatch(s, kind) == cur' = s /\ etype' = kind /\ phase' = "callback"

(* Mutant of FireTimer: the timer is taken out before it is looked up.        *)
FireTimerSwapped ==
  /\ pool' = RemoveTimer(pool, pool.start)
  /\ Dispatch(pool'.start, "timeout")
  /\ UNCHANGED <<pending, brk>>

(* A timer that is due comes before what is left of the batch.                *)
FireTimer ==
  /\ pool' = RemoveTimer(pool, pool.start)
  /\ Dispatch(pool.start, "timeout")
  /\ UNCHANGED <<pending, brk>>

TimerDue == phase = "next" /\ ~brk /\ Due /\ FireTimer

(* The first of them is delivered; those before it are skipped.               *)
NextOfBatch ==
  /\ phase = "next" /\ ~brk /\ ~Due
  /\ \E i \in Remaining :
       /\ \A j \in Remaining : i <= j
       /\ Dispatch(pending[i], "io")
       /\ pending' = SubSeq(pending, i + 1, Len(pending))
  /\ UNCHANGED <<pool, brk>>

(* epoll_wait is called for the time that is left of the first timer.         *)
Wait ==
  /\ phase = "next" /\ ~brk /\ ~Due /\ Remaining = {}
  /\ phase' = "waiting" /\ pending' = <<>>
  /\ UNCHANGED <<pool, cur, etype, brk>>

(* epoll_wait returns some of the live events, in an order of the kernel's.   *)
EpollReturns ==
  /\ phase = "waiting"
  /\ \E n \in 1 .. MaxBatch : \E batch \in [1 .. n -> pool.live] :
       /\ \A i, j \in 1 .. n : i # j => batch[i] # batch[j]
       /\ Dispatch(batch[1], "io")
       /\ pending' = Tail(batch)
  /\ pool' = [pool EXCEPT !.touched = {}, !.died = {}]
  /\ UNCHANGED brk

WaitTimesOut == phase = "waiting" /\ Due /\ FireTimer

(* epoll_wait fails with EINTR.  type still has the value of the event before; *)
(* if that was a timeout, the first timer fires although it is not due.       *)
Interrupted ==
  /\ phase = "waiting"
  /\ IF etype = "timeout" /\ pool.start # Nil
     THEN FireTimer
     ELSE phase' = "next" /\ UNCHANGED <<pool, pending, cur, etype, brk>>

LeaveLoop ==
  /\ phase = "next" /\ brk
  /\ phase' = "destroy" /\ UNCHANGED <<pool, pending, cur, etype, brk>>

(* destroy_pool: the first live event, until there is none.  The memory is    *)
(* freed then; a later start_event_loop makes a new pool.                     *)
DestroyStep ==
  /\ phase = "destroy" /\ pool.count > 0
  /\ pool' = DelEvent(pool, pool.links[0])
  /\ UNCHANGED <<pending, phase, cur, etype, brk>>

NewPool ==
  /\ phase = "destroy" /\ pool.count = 0
  /\ pool' = FreshPool /\ pending' = <<>>
  /\ phase' = "next" /\ cur' = Nil /\ etype' = "none" /\ brk' = FALSE

(* byedpi_stop in another thread.                                             *)
Stop ==
  /\ phase # "destroy" /\ ~brk
  /\ brk' = TRUE /\ UNCHANGED <<pool, pending, phase, cur, etype>>

(* Time passes at any moment.                                                 *)
Tick ==
  /\ \E s \in Slots : pool.left[s] > 0
  /\ pool' = [pool EXCEPT !.left =
                [s \in Slots |-> IF @[s] > 0 THEN @[s] - 1 ELSE @[s]]]
  /\ UNCHANGED <<pending, phase, cur, etype, brk>>
-----------------------------------------------------------------------------
(* The callbacks.  Return0 and ReturnError end one: loop_event deletes the    *)
(* event of a callback that returned a negative number.                       *)

Running(cb) == phase = "callback" /\ pool.cb[cur] = cb

Return0(P) ==
  pool' = P /\ phase' = "next" /\ cur' = Nil /\ UNCHANGED <<pending, etype, brk>>

ReturnError(P) == Return0(DelEvent(P, cur))

OnCtrl == Running("ctrl") /\ Return0(pool)

(* Mutant of AcceptOne: a client that finds the pool full is not closed.      *)
AcceptOneLeaks ==
  /\ Running("accept")
  /\ pool' = [IF Full(pool) THEN pool ELSE AddEvent(pool, "request") EXCEPT !.open = @ + 1]
  /\ UNCHANGED <<pending, phase, cur, etype, brk>>

(* One round of the loop of on_accept; with a full pool the client is closed. *)
AcceptOne ==
  /\ Running("accept")
  /\ pool' = IF Full(pool) THEN pool
             ELSE [AddEvent(pool, "request") EXCEPT !.open = @ + 1]
  /\ UNCHANGED <<pending, phase, cur, etype, brk>>

AcceptDone == Running("accept") /\ Return0(pool)

(* accept fails: the loop ends after this callback and the listener is closed. *)
AcceptFails ==
  /\ Running("accept")
  /\ pool' = DelEvent(pool, cur) /\ phase' = "next" /\ cur' = Nil /\ brk' = TRUE
  /\ UNCHANGED <<pending, etype>>

(* Mutant of CreateConn: the connection attempt gets a timer.                 *)
CreateConnTimed(P, v) ==
  LET r == P.links[P.count]
      Q == SetTimer(AddEvent(P, "connect"), r, 1)
  IN  [Q EXCEPT !.pair = [@ EXCEPT ![v] = r, ![r] = v],
                !.cb = [@ EXCEPT ![v] = "ignore"],
                !.conn = @ \cup {r}, !.open = @ + 1]

(* create_conn on a pool that has a slot left: a remote for the client v,     *)
(* which is not read until the remote is connected.                           *)
CreateConn(P, v) ==
  LET r == P.links[P.count]
      Q == AddEvent(P, "connect")
  IN  [Q EXCEPT !.pair = [@ EXCEPT ![v] = r, ![r] = v],
                !.cb = [@ EXCEPT ![v] = "ignore"],
                !.conn = @ \cup {r}, !.open = @ + 1]

(* udp_associate on a pool that has two slots left: a ring of the control     *)
(* connection v, the client's socket and the outer one.                       *)
UdpAssociate(P, v) ==
  LET o == P.links[P.count]
      c == P.links[P.count + 1]
      Q == AddEvent(AddEvent(P, "udp"), "udp")
  IN  [Q EXCEPT !.pair = [@ EXCEPT ![v] = c, ![c] = o, ![o] = v],
                !.cb = [@ EXCEPT ![v] = "ignore"],
                !.open = @ + 2]

(* udp_associate after a later socket could not be made: the outer one is     *)
(* deleted again.                                                             *)
UdpGivenUp(P) ==
  LET o == P.links[P.count]
  IN  DelEvent([AddEvent(P, "udp") EXCEPT !.open = @ + 1], o)

(* The greeting of SOCKS5.                                                    *)
RequestGoesOn == Running("request") /\ Return0(pool)

(* The client closed, or sent nonsense, or no remote could be made.           *)
RequestFails == Running("request") /\ ReturnError(pool)

RequestConnects ==
  /\ Running("request") /\ ~Full(pool)
  /\ Return0(CreateConn(pool, cur))

RequestAssociates ==
  /\ Running("request") /\ ~Full(pool)
  /\ IF pool.count + 1 >= Max
     THEN ReturnError(UdpGivenUp(pool))
     ELSE \/ Return0(UdpAssociate(pool, cur))
          \/ ReturnError(UdpAssociate(pool, cur))   \* the answer cannot be sent
          \/ ReturnError(UdpGivenUp(pool))

(* reconnect: the client of r gets a new remote, then r is deleted alone.     *)
Reconnect(P, r) ==
  LET Q == CreateConn(P, P.pair[r])
  IN  DelEvent([Q EXCEPT !.pair = [@ EXCEPT ![r] = Nil]], r)

Untimed(P, s, t) == RemoveTimer(RemoveTimer(P, s), t)

Remote(P, s) == IF s \in P.conn THEN s ELSE P.pair[s]

(* What on_tunnel may make of the pool P that its first lines leave.          *)
(* Everything was sent; or something waits, with a timer or without; or the   *)
(* connection fails; or the remote is replaced while receiving (its timers    *)
(* and those of the client are removed after that), or while sending, where   *)
(* on_tunnel goes on with the deleted remote: mod_etype asserts that it is    *)
(* not one, and in a build without assertions fails.                          *)
Transfer(P) ==
  LET other == P.pair[cur]
      remote == Remote(P, cur)
      client == P.pair[remote]
  IN  {Untimed(P, cur, other), P, DelEvent(P, cur)}
        \cup {SetTimer(P, s, ms) : s \in {cur, other}, ms \in Delays}
        \cup (IF Full(P) THEN {}
              ELSE {RemoveTimer(Reconnect(P, remote), client),
                    DelEvent(Reconnect(P, remote), cur)})

TunnelIO ==
  /\ Running("tunnel") /\ etype = "io"
  /\ \/ \E P \in Transfer(Untimed(pool, cur, pool.pair[cur])) : Return0(P)
     \/ \E P \in Transfer(pool) : Return0(P)      \* neither POLLIN nor POLLOUT

(* on_timeout for a remote that waits for the rest of an answer, or what is   *)
(* buffered is tried again.                                                   *)
TunnelTimeout ==
  /\ Running("tunnel") /\ etype = "timeout"
  /\ \/ \E ms \in Delays : Return0(SetTimer(pool, cur, ms))
     \/ cur \in pool.conn /\ ~Full(pool) /\ Return0(Reconnect(pool, cur))
     \/ \E P \in Transfer(pool) : Return0(P)

Tunnelled(P, s) == [P EXCEPT !.cb = [@ EXCEPT ![s] = "tunnel", ![P.pair[s]] = "tunnel"]]

(* on_connect: the remote is connected.  What the client sent before is       *)
(* replayed at once by on_tunnel; without it the client gets its answer.      *)
Connected ==
  /\ Running("connect")
  /\ \/ Return0(Tunnelled(pool, cur))
     \/ ReturnError(Tunnelled(pool, cur))
     \/ \E P \in Transfer(Untimed(Tunnelled(pool, cur), cur, pool.pair[cur])) : Return0(P)

ConnectFails ==
  /\ Running("connect")
  /\ \/ ReturnError(pool)
     \/ ~Full(pool) /\ Return0(Reconnect(pool, cur))

OnIgnore ==
  /\ Running("ignore")
  /\ \/ Return0(pool)
     \/ etype = "io" /\ ReturnError(pool)    \* POLLHUP, POLLERR or POLLRDHUP

OnUdpTunnel ==
  /\ Running("udp")
  /\ Return0(pool) \/ ReturnError(pool)

Callback ==
  \/ OnCtrl \/ AcceptOne \/ AcceptDone \/ AcceptFails
  \/ RequestGoesOn \/ RequestFails \/ RequestConnects \/ RequestAssociates
  \/ Connected \/ ConnectFails \/ TunnelIO \/ TunnelTimeout
  \/ OnIgnore \/ OnUdpTunnel

PoolNext ==
  \/ TimerDue \/ NextOfBatch \/ Wait \/ EpollReturns \/ WaitTimesOut \/ Interrupted
  \/ LeaveLoop \/ DestroyStep \/ NewPool \/ Stop \/ Tick
  \/ Callback

PoolSpec == PoolInit /\ [][PoolNext]_vars
-----------------------------------------------------------------------------
(* Properties.                                                                *)

(* Types of the fields of struct poolhd and struct eval.                      *)
PoolTypeOK ==
  /\ pool \in [links : [Slots -> Slots], count : 0 .. Max,
               live : SUBSET Slots, touched : SUBSET Slots, died : SUBSET Slots, open : Int,
               index : [Slots -> Slots], cb : [Slots -> Callbacks],
               pair : [Slots -> Slots \cup {Nil}], conn : SUBSET Slots,
               left : [Slots -> Nat \cup {Nil}], next : [Slots -> Slots \cup {Nil}],
               prev : [Slots -> Slots \cup {Nil}],
               start : Slots \cup {Nil}, end : Slots \cup {Nil}]
  /\ pending \in Seq(Slots)
  /\ phase \in {"next", "waiting", "callback", "destroy"}
  /\ cur \in Slots \cup {Nil} /\ (phase = "callback" <=> cur # Nil)
  /\ etype \in {"none", "io", "timeout"}
  /\ brk \in BOOLEAN

(* The live slots are exactly the first count links, each knows its place,    *)
(* and no slot is lost or linked twice: del_event swaps the last link in.     *)
LinksExact ==
  /\ \A i, j \in Slots : pool.links[i] = pool.links[j] => i = j
  /\ \A i \in Slots : pool.links[i] \in pool.live <=> i < pool.count
  /\ \A s \in pool.live : pool.links[pool.index[s]] = s

Armed == {s \in Slots : pool.left[s] # Nil}

(* The slots met on the way from tv_start along tv_next.                      *)
TimerWalk ==
  LET at[i \in 0 .. Max] ==
        IF i = 0 THEN pool.start
        ELSE IF at[i - 1] = Nil THEN Nil ELSE pool.next[at[i - 1]]
  IN  at

(* From tv_start along tv_next one meets every slot that has a timer and no   *)
(* other, in the order in which they are due, and tv_prev leads back from     *)
(* tv_end; only live slots have one.                                          *)
TimersExact ==
  /\ {TimerWalk[i] : i \in 0 .. Max} \ {Nil} = Armed
  /\ TimerWalk[Max] = Nil
  /\ Armed \subseteq pool.live
  /\ pool.end = Nil <=> Armed = {}
  /\ \A s \in Armed :
       /\ pool.next[s] = Nil <=> s = pool.end
       /\ pool.next[s] # Nil =>
            pool.prev[pool.next[s]] = s /\ pool.left[s] <= pool.left[pool.next[s]]
       /\ pool.prev[s] = Nil <=> s = pool.start

(* An event of the batch reaches the callback exactly if the event it was     *)
(* reported for was not deleted since, whoever has its slot now.              *)
FreshDelivery ==
  \A i \in 1 .. Len(pending) :
    /\ Deliverable(pending[i]) <=> pending[i] \notin pool.died
    /\ Deliverable(pending[i]) => pending[i] \in pool.live

(* Every callback finds the partners it dereferences: a remote and its client *)
(* point to each other, the three events of a UDP association make a ring,    *)
(* and none of them outlives the others.                                      *)
RingsWhole ==
  /\ \A s \in pool.live :
       CASE pool.cb[s] \in {"ctrl", "accept", "request"} -> pool.pair[s] = Nil
         [] pool.cb[s] = "connect" ->
              /\ pool.pair[s] \in pool.live /\ pool.cb[pool.pair[s]] = "ignore"
              /\ pool.pair[pool.pair[s]] = s
         [] pool.cb[s] = "tunnel" ->
              /\ pool.pair[s] \in pool.live /\ pool.cb[pool.pair[s]] = "tunnel"
              /\ pool.pair[pool.pair[s]] = s
         [] pool.cb[s] \in {"udp", "ignore"} ->
              LET t == pool.pair[s] IN
              /\ t \in pool.live
              /\ \/ pool.cb[t] = "connect" /\ pool.pair[t] = s
                 \/ /\ pool.pair[t] \in pool.live /\ pool.pair[pool.pair[t]] = s
                    /\ {pool.cb[s], pool.cb[t], pool.cb[pool.pair[t]]} = {"udp", "ignore"}
  /\ \A s \in Slots \ pool.live : pool.pair[s] = Nil

(* Timers run only for the halves of a tunnel, or for a client that waits for *)
(* its new remote and ignores them: on_connect takes an event without POLLERR *)
(* for a connection that succeeded, a timeout included.                       *)
OnlyTunnelsTimed == \A s \in Armed : pool.cb[s] \in {"tunnel", "ignore"}

(* Every descriptor that accept4 or socket returned is closed or belongs to a *)
(* live event: none is lost when the pool is full or an association fails.    *)
FdsOwned == pool.open = Cardinality({s \in pool.live : Owned(pool, s)})

=============================================================================
