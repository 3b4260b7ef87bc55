-------------------------------- MODULE Relay --------------------------------
(***************************************************************************)
(* One client of the proxy and the servers its request is tried at: the     *)
(* callback on_tunnel (proxy.c) with tcp_recv_hook, tcp_send_hook and       *)
(* reconnect (extend.c), and the loop over the parts in desync (desync.c).  *)
(*                                                                          *)
(* The event loop runs one callback at a time.  A callback makes several    *)
(* system calls whose results the kernel chooses, so it is cut at each of   *)
(* them: "call" is where it stands, and no event is handled before it       *)
(* returns.  The request is the numbers 1, 2, .. in order; 0 is a byte that *)
(* tamp() puts in.  Byte i of the answer of the r-th server is <<r, i>>.    *)
(***************************************************************************)
EXTENDS Integers, Sequences

CONSTANTS
  Ends,        \* the last byte of each segment the client sends its requests in
  PartsOf,     \* parts of the desync group used at the r-th server: the position a part
               \* ends at, whether it is the first of a pair (disorder, disoob, fake), and
               \* whether its position is given with "s" (OFFSET_START)
  Answer,      \* bytes each server answers with
  Header,      \* position at which tamp() puts a byte in, or 0
  BufSize,     \* params.bfsize
  WaitSend,    \* params.wait_send
  AutoReconnect, \* params.auto_reconnect
  Tls,         \* is the request a TLS hello?
  KernelShort, \* may the kernel take less than it is given while parts are sent?
  MaxSent      \* bound: the first of a pair is sent until a server got that many bytes

Side == {"client", "remote"}
Pair(x) == IF x = "client" THEN "remote" ELSE "client"
Try == DOMAIN PartsOf

ASSUME RelayAssumption ==
  /\ Ends \in Seq(Nat \ {0}) /\ \A i, j \in DOMAIN Ends : i < j => Ends[i] < Ends[j]
  /\ Answer \in Nat /\ Header \in Nat /\ {BufSize, MaxSent} \subseteq Nat
  /\ {WaitSend, AutoReconnect, Tls, KernelShort} \subseteq BOOLEAN
  /\ PartsOf # <<>>
  /\ PartsOf \in Seq(Seq([pos : Int, first : BOOLEAN, start : BOOLEAN]))

VARIABLES
  phase,       \* "connect", "tunnel", "gone"
  try,         \* which server is the pair of the client
  etype,       \* events each socket is registered for
  timed,       \* sockets with a timer
  buff,        \* eval.buff: what is left to send, and how much of it is sent
  sqBuff,      \* sq_buff: the first request, kept for another server
  roundSent, roundCount, partSent,    \* round_sent, round_count, part_sent
  call,        \* where the callback stands
  taken,       \* segments the proxy has received
  answered,    \* bytes of the answer the proxy has received
  reset,       \* has the server reset the connection?
  greetings,   \* answers of the proxy itself to the client (resp_error)
  toServer, toClient,                 \* the two TCP streams
  blocked,     \* history: this server's socket took less than a part
  repeated,    \* history: a part already sent to this server came again, further back
  banner       \* history: a server spoke before the client did

poll    == <<etype, timed>>
rounds  == <<roundSent, roundCount, partSent>>
streams == <<taken, answered, greetings, toServer, toClient>>
history == <<blocked, repeated, banner>>
vars    == <<phase, try, poll, buff, sqBuff, rounds, call, reset, streams, history>>

None == [data |-> <<>>, off |-> -1]
Loaded(s) == [data |-> s, off |-> 0]
Holds(x) == buff[x] # None

\* The callback has returned, and the event loop polls.
Idle == [at |-> "poll", val |-> "client", loop |-> FALSE, n |-> 0,
         skip |-> 0, partSkip |-> 0, lp |-> 0, part |-> 0]

\* tcp_recv_hook for x, and tcp_send_hook for the n bytes x has left.
Receiving(x) == [Idle EXCEPT !.at = "recv", !.val = x]
SendingOf(x, n, loop) == [Idle EXCEPT !.at = "send", !.val = x, !.n = n, !.loop = loop]

\* Bytes the client sent in its first j segments, and those from segment i + 1 on.
SentBy(j) == IF j = 0 THEN 0 ELSE Ends[j]
Request(i, j) == [b \in 1 .. SentBy(j) - SentBy(i) |-> SentBy(i) + b]

RelayInit ==
  /\ phase = "connect" /\ try = 1
  /\ etype = [client |-> {}, remote |-> {"out"}] /\ timed = {}
  /\ buff = [x \in Side |-> None] /\ sqBuff = None
  /\ roundSent = [x \in Side |-> 0] /\ roundCount = [x \in Side |-> 0] /\ partSent = 0
  /\ call = Idle
  /\ taken = 0 /\ answered = 0 /\ reset = FALSE /\ greetings = 0
  /\ toServer = <<>> /\ toClient = <<>>
  /\ blocked = FALSE /\ repeated = FALSE /\ banner = FALSE

-----------------------------------------------------------------------------
(* Ends of a connection, and on_trigger.                                    *)

\* The callback returns -1: both evals are deleted.
Drop ==
  /\ phase' = "gone" /\ call' = Idle
  /\ UNCHANGED <<try, poll, buff, sqBuff, rounds>>

BeforeRequest == taken = 0 /\ answered = 0

\* A group is left, and the request can be sent again.
CanReconnect == (sqBuff # None \/ BeforeRequest) /\ try + 1 \in Try

\* The first request replaces whatever the client's buffer held.
Replay == IF sqBuff # None THEN sqBuff ELSE buff["client"]

\* reconnect, with connect_hook and create_conn: a new eval is the pair of the client.
Reconnect ==
  /\ CanReconnect
  /\ phase' = "connect" /\ try' = try + 1
  /\ etype' = [client |-> {}, remote |-> {"out"}] /\ timed' = timed \ {"remote"}
  /\ buff' = [client |-> Replay, remote |-> None]
  /\ roundSent' = [x \in Side |-> 0] /\ partSent' = 0
  /\ roundCount' = [roundCount EXCEPT !["remote"] = 0]
  /\ answered' = 0 /\ reset' = FALSE /\ toServer' = <<>>
  /\ call' = Idle
  /\ blocked' = FALSE /\ repeated' = FALSE
  /\ UNCHANGED <<sqBuff, taken, greetings, toClient, banner>>

GiveUp == Drop /\ UNCHANGED <<reset, streams, history>>

\* on_trigger: the next group may forbid to reconnect, or not match.
Trigger == Reconnect \/ GiveUp

-----------------------------------------------------------------------------
(* on_connect, and the head of on_tunnel.                                   *)

\* on_tunnel with a pending buffer of x: n is taken before the send.
Pending(x) == SendingOf(x, Len(buff[x].data) - buff[x].off, FALSE)

Connected ==
  /\ phase = "connect" /\ call = Idle
  /\ phase' = "tunnel"
  /\ etype' = [x \in Side |-> {"in"}]
  /\ IF Holds("client")
       THEN call' = Pending("client") /\ timed' = {} /\ UNCHANGED greetings
       ELSE greetings' = greetings + 1 /\ UNCHANGED <<call, timed>>
  /\ UNCHANGED <<try, buff, sqBuff, rounds, taken, answered, toServer, toClient, reset, history>>

\* on_connerr, or an error that triggers nothing.
ConnectFails == phase = "connect" /\ call = Idle /\ Trigger

\* The server resets the connection at any time.
Reset ==
  /\ phase = "tunnel" /\ call = Idle /\ ~reset
  /\ reset' = TRUE
  /\ UNCHANGED <<phase, try, poll, buff, sqBuff, rounds, call, streams, history>>

\* "hup" stands for what epoll reports unasked.
Reported(x) == etype[x] \cup (IF etype[x] = {} THEN {"hup"} ELSE {})
                        \cup (IF x \in timed THEN {"timeout"} ELSE {})

\* Whose buffer is sent, or filled, upon event e at x.
Valued(x, e) ==
  IF e \in {"out", "timeout"} /\ ~Holds(x) /\ Holds(Pair(x)) THEN Pair(x) ELSE x

Event(x, e) ==
  /\ phase = "tunnel" /\ call = Idle /\ e \in Reported(x)
  /\ timed' = IF e \in {"in", "out"} THEN {} ELSE timed \ (IF e = "timeout" THEN {x} ELSE {})
  /\ LET v == Valued(x, e) IN
       call' = IF Holds(v) THEN Pending(v)
               ELSE IF e = "timeout" THEN Idle
               ELSE Receiving(v)
  /\ UNCHANGED <<phase, try, etype, buff, sqBuff, rounds, reset, streams, history>>

-----------------------------------------------------------------------------
(* tcp_recv_hook, called with an empty buffer.                              *)

Receives(x) == call.at = "recv" /\ call.val = x

\* A new round of x begins when nothing it received since the last one was sent on.
NewRound(x) ==
  /\ roundCount' = [roundCount EXCEPT ![x] = @ + (IF roundSent[x] = 0 THEN 1 ELSE 0)]
  /\ roundSent' = [roundSent EXCEPT ![Pair(x)] = IF roundSent[x] = 0 THEN 0 ELSE @]

\* What was kept of the first request.
Saved == IF sqBuff = None THEN <<>> ELSE sqBuff.data

\* Mutant of Kept: a segment overwrites what was kept before.
KeptLast(s) ==
  IF ~AutoReconnect \/ (sqBuff = None /\ taken > 0) THEN sqBuff
  ELSE IF Len(Saved \o s) >= BufSize THEN None ELSE Loaded(s)

\* The first request is kept as long as it fits and nothing of it was lost.
Kept(s) ==
  IF ~AutoReconnect \/ (sqBuff = None /\ taken > 0) THEN sqBuff
  ELSE IF Len(Saved \o s) >= BufSize THEN None ELSE Loaded(Saved \o s)

\* One recv takes one or more of the client's segments.
RecvRequest(j) ==
  /\ Receives("client") /\ j \in taken + 1 .. Len(Ends)
  /\ LET s == Request(taken, j) IN
       /\ Len(s) <= BufSize
       /\ sqBuff' = Kept(s)
       /\ buff' = [buff EXCEPT !["client"] = Loaded(s)]
       /\ call' = SendingOf("client", Len(s), TRUE)
  /\ taken' = j
  /\ NewRound("client")
  /\ UNCHANGED <<phase, try, poll, partSent, reset, answered, greetings, toServer, toClient,
                 history>>

\* Mutant of FreeFirst: the request is kept while the answer is relayed.
FreeNothing == UNCHANGED sqBuff

\* free_first_req
FreeFirst == sqBuff' = None

\* The answer goes to the client unless on_response finds fault with it.
RecvAnswer(m) ==
  /\ Receives("remote") /\ m \in 1 .. Answer - answered /\ m <= BufSize
  /\ FreeFirst
  /\ LET s == [i \in 1 .. m |-> <<try, answered + i>>] IN
       /\ buff' = [buff EXCEPT !["remote"] = Loaded(s)]
       /\ call' = SendingOf("remote", m, TRUE)
  /\ answered' = answered + m
  /\ NewRound("remote")
  /\ partSent' = IF roundSent["remote"] = 0 THEN 0 ELSE partSent
  /\ banner' = (banner \/ taken = 0)
  /\ UNCHANGED <<phase, try, poll, reset, taken, greetings, toServer, toClient, blocked, repeated>>

\* on_response: a redirect, or no answer to a TLS hello; another group may do better.
WrongAnswer ==
  /\ Receives("remote") /\ answered < Answer /\ sqBuff # None
  /\ Reconnect

\* EAGAIN: the callback is through.
RecvNothing ==
  /\ call.at = "recv"
  /\ call' = Idle /\ timed' = {}
  /\ UNCHANGED <<phase, try, etype, buff, sqBuff, rounds, reset, streams, history>>

\* on_fin of the server: nothing came in the first round of a TLS connection.
RecvFin ==
  /\ Receives("remote")
  /\ IF Tls /\ taken > 0 /\ roundCount["remote"] <= 1 THEN Trigger ELSE GiveUp

\* on_fin of the client; on_ignore while the proxy connects.
ClientCloses ==
  /\ Receives("client") \/ (phase = "connect" /\ call = Idle)
  /\ GiveUp

\* handle_err: ECONNRESET of the server.
RecvReset == Receives("remote") /\ reset /\ Trigger

-----------------------------------------------------------------------------
(* The end of on_tunnel: sn bytes of the buffer of x were sent.             *)

Done(sn, wait) == sn >= call.n /\ ~wait

\* Mutant of WatchPair: the sender goes on reading.
WatchBoth(x) == etype' = [etype EXCEPT ![Pair(x)] = {"out"}]

\* Mutant of WatchPair: the receiver is not watched.
WatchNone(x) == etype' = [etype EXCEPT ![x] = {}]

\* The buffer waits until its receiver can be written to.
WatchPair(x) == etype' = [etype EXCEPT ![x] = {}, ![Pair(x)] = {"out"}]

SendReturns(sn, wait) ==
  LET x == call.val IN
  /\ roundSent' = [roundSent EXCEPT ![x] = @ + sn]
  /\ IF ~Done(sn, wait)
       THEN /\ buff' = [buff EXCEPT ![x].off = @ + sn]
            /\ timed' = IF wait THEN Side ELSE timed
            /\ WatchPair(x)
            /\ call' = Idle
       ELSE /\ buff' = [buff EXCEPT ![x] = None]
            /\ timed' = {}
            /\ IF call.loop
                 THEN call' = Idle /\ UNCHANGED etype
                 ELSE call' = Receiving(x) /\ etype' = [y \in Side |-> {"in"}]
  /\ UNCHANGED <<phase, try, sqBuff, roundCount, reset, taken, answered, greetings>>

\* Is this send one of the first round?
Desynced == call.val = "client" /\ roundCount["client"] <= 1

\* Either side may be gone.  When handle_err reconnects, tcp_send_hook returns 0 and
\* on_tunnel goes on with the eval that reconnect deleted: mod_etype refuses it, and the
\* client is dropped together with its new remote.
SendFails ==
  /\ call.at = "parts" \/ (call.at = "send" /\ ~Desynced)
  /\ call.val = "client" => reset
  /\ GiveUp

Slice(s, from, to) == [i \in 1 .. to - from |-> s[from + i]]

\* Bytes from + 1 .. to of the buffer of x are taken by the kernel.
Deliver(from, to) ==
  LET s == Slice(buff[call.val].data, from, to) IN
    IF call.val = "client" THEN toServer' = toServer \o s /\ UNCHANGED toClient
                           ELSE toClient' = toClient \o s /\ UNCHANGED toServer

\* A send that is not desynced, of m bytes.
PlainSend(m) ==
  /\ call.at = "send" /\ ~Desynced
  /\ LET off == buff[call.val].off IN
       /\ m \in 0 .. Len(buff[call.val].data) - off
       /\ Deliver(off, off + m)
  /\ SendReturns(m, FALSE)
  /\ UNCHANGED <<partSent, history>>

-----------------------------------------------------------------------------
(* desync.                                                                  *)

\* Mutant of Tamped: the room in the buffer is not looked at.
TampedBlindly(s) ==
  IF roundSent["client"] = 0 /\ Header \in 1 .. Len(s) /\ s[1] = 1
    THEN SubSeq(s, 1, Header) \o <<0>> \o SubSeq(s, Header + 1, Len(s)) ELSE s

\* tamp: a TLS record is split in two, as long as nothing was sent.
Tamped(s) ==
  IF roundSent["client"] = 0 /\ Header \in 1 .. Len(s) /\ Len(s) < BufSize /\ s[1] = 1
    THEN SubSeq(s, 1, Header) \o <<0>> \o SubSeq(s, Header + 1, Len(s)) ELSE s

StartParts ==
  /\ call.at = "send" /\ Desynced
  /\ LET s == Tamped(buff["client"].data) IN
       /\ buff' = [buff EXCEPT !["client"].data = s]
       /\ call' = [call EXCEPT !.at = "parts", !.n = IF call.loop THEN Len(s) ELSE @,
                               !.skip = roundSent["client"], !.partSkip = partSent,
                               !.lp = buff["client"].off]
  /\ UNCHANGED <<phase, try, poll, sqBuff, rounds, reset, streams, history>>

Parts == PartsOf[try]
Total == Len(buff["client"].data)

\* gen_offset: a negative position counts from the end.
Position(p) == IF p.pos < 0 THEN Total + p.pos ELSE p.pos

\* The part lies in what was sent before.
Passed(k) ==
  LET pos == Position(Parts[k]) IN
    \/ /\ ~Parts[k].start
       /\ (call.skip > 0 /\ pos < call.skip) \/ k < call.partSkip
    \/ buff["client"].off > 0 /\ pos < buff["client"].off

AtPart(k) == call.at = "parts" /\ call.part + 1 = k /\ k \in DOMAIN Parts

SkipPart(k) ==
  /\ AtPart(k) /\ Passed(k)
  /\ call' = [call EXCEPT !.part = k]
  /\ UNCHANGED <<phase, try, poll, buff, sqBuff, rounds, reset, streams, history>>

\* "split cancel"
CancelParts(k) ==
  /\ AtPart(k) /\ ~Passed(k)
  /\ Position(Parts[k]) < 0 \/ Position(Parts[k]) < call.lp
  /\ call' = [call EXCEPT !.part = Len(Parts)]
  /\ UNCHANGED <<phase, try, poll, buff, sqBuff, rounds, reset, streams, history>>

Until(k) == IF Position(Parts[k]) > Total THEN Total ELSE Position(Parts[k])

\* The kernel takes m bytes of part k; "busy" if not all before it was sent (notsent).
\* The part a call before ended with is taken for sent, which it is not when its position
\* lies further back in what is sent now (another segment of the request).
SendPart(k, m, busy) ==
  /\ AtPart(k) /\ ~Passed(k) /\ Position(Parts[k]) >= 0 /\ Position(Parts[k]) >= call.lp
  /\ LET first == Parts[k].first
         off == buff["client"].off
         s == IF k = call.partSkip THEN Until(k) - call.lp ELSE m
         next == IF first THEN call.lp ELSE Until(k)
     IN
     /\ m \in 0 .. Until(k) - call.lp /\ (k = call.partSkip => m = 0)
     /\ first => ~busy \/ Len(toServer) + m <= MaxSent
     /\ Deliver(call.lp, call.lp + m)
     /\ partSent' = IF first THEN partSent ELSE k
     /\ repeated' = (repeated \/ (k = call.partSkip /\ call.lp < Until(k)))
     /\ IF s < Until(k) - call.lp
          THEN KernelShort /\ blocked' = TRUE /\ ~busy /\ SendReturns(call.lp + s - off, FALSE)
          ELSE /\ UNCHANGED blocked
               /\ IF busy \/ (WaitSend /\ k > call.partSkip)
                    THEN SendReturns(next - off, TRUE)
                    ELSE /\ call' = [call EXCEPT !.part = k, !.lp = next]
                         /\ UNCHANGED <<phase, try, poll, buff, sqBuff, roundSent, roundCount,
                                        reset, taken, answered, greetings>>
  /\ UNCHANGED banner

\* "send all/rest": a short count is not noticed.
SendRest(m) ==
  /\ call.at = "parts" /\ call.part = Len(Parts)
  /\ m \in 0 .. Total - call.lp
  /\ Deliver(call.lp, call.lp + m)
  /\ (m < Total - call.lp) => KernelShort
  /\ blocked' = (blocked \/ m < Total - call.lp)
  /\ SendReturns((IF m = 0 THEN call.lp ELSE Total) - buff["client"].off, FALSE)
  /\ UNCHANGED <<partSent, repeated, banner>>

-----------------------------------------------------------------------------
RelayNext ==
  \/ Connected \/ ConnectFails \/ Reset
  \/ \E x \in Side, e \in {"in", "out", "hup", "timeout"} : Event(x, e)
  \/ \E j \in DOMAIN Ends : RecvRequest(j)
  \/ \E m \in 1 .. Answer : RecvAnswer(m)
  \/ WrongAnswer \/ RecvNothing \/ RecvFin \/ ClientCloses \/ RecvReset
  \/ \E m \in 0 .. BufSize : PlainSend(m)
  \/ StartParts
  \/ \E k \in DOMAIN Parts :
       \/ SkipPart(k) \/ CancelParts(k)
       \/ \E m \in 0 .. Total, busy \in BOOLEAN : SendPart(k, m, busy)
  \/ \E m \in 0 .. Total : SendRest(m)
  \/ SendFails

RelaySpec == RelayInit /\ [][RelayNext]_vars

-----------------------------------------------------------------------------
(* Properties.                                                             *)

Byte == 0 .. SentBy(Len(Ends))

\* A buffer fits its bfsize bytes, and what is marked as sent is in it.
BufferOK(b, S) ==
  /\ b \in [data : Seq(S), off : Int] /\ Len(b.data) <= BufSize
  /\ b # None => b.off \in 0 .. Len(b.data)

BuffersOK ==
  /\ buff = [x \in Side |-> buff[x]]
  /\ BufferOK(buff["client"], Byte) /\ BufferOK(buff["remote"], Nat \X Nat) /\ BufferOK(sqBuff, Byte)

CallOK ==
  call \in [at : {"poll", "recv", "send", "parts"}, val : Side, loop : BOOLEAN, n : Nat,
            skip : Nat, partSkip : Nat, lp : Nat, part : Nat]

ControlOK ==
  /\ phase \in {"connect", "tunnel", "gone"} /\ try \in Try
  /\ etype \in [Side -> SUBSET {"in", "out"}] /\ timed \in SUBSET Side
  /\ roundSent \in [Side -> Nat] /\ roundCount \in [Side -> Nat] /\ partSent \in Nat
  /\ taken \in 0 .. Len(Ends) /\ answered \in 0 .. Answer /\ greetings \in Nat
  /\ reset \in BOOLEAN /\ blocked \in BOOLEAN /\ repeated \in BOOLEAN /\ banner \in BOOLEAN

\* Types.
RelayTypeOK ==
  /\ BuffersOK /\ CallOK /\ ControlOK
  /\ toServer \in Seq(Byte) /\ toClient \in Seq(Nat \X Nat)

\* Between two callbacks of a tunnel, either nothing waits and both sockets are read, or
\* one side's buffer waits, that side is not read, and the other is watched for room
\* (on_tunnel, proxy.c:738-790).  A wait nobody is woken from, and data read over data
\* that waits, are the ways to get this wrong.
HalfDuplex ==
  phase = "tunnel" /\ call = Idle =>
    \/ ~Holds("client") /\ ~Holds("remote") /\ etype = [x \in Side |-> {"in"}]
    \/ \E x \in Side : /\ Holds(x) /\ ~Holds(Pair(x))
                       /\ etype[x] = {} /\ etype[Pair(x)] = {"out"}

\* What x still has to send.
Left(x) == IF Holds(x) THEN Slice(buff[x].data, buff[x].off, Len(buff[x].data)) ELSE <<>>

\* The bytes of s, those tamp() put in apart, are 1 .. n in order.
InOrder(s, n) ==
  LET sent == {i \in DOMAIN s : s[i] # 0} IN
  /\ {s[i] : i \in sent} = 1 .. n
  /\ \A i, j \in sent : i < j => s[i] < s[j]

Paired == \E k \in DOMAIN Parts : Parts[k].first

\* Each server gets the request from its first byte on, once and in order, whatever was
\* split, waited for, replayed or sent to servers before (desync, reconnect).  Not so when
\* the socket takes less than a part, when a part that was sent comes again in a later
\* segment, or once a pair of parts is used: see the README.
RequestWhole ==
  call = Idle /\ phase # "gone" /\ ~blocked /\ ~repeated /\ ~Paired =>
    InOrder(toServer \o Left("client"), SentBy(taken))

\* The client gets the answer of one server, once and in order, and no byte of a server
\* it was reconnected away from (reconnect, free_first_req), unless that one spoke first.
ReplyWhole ==
  call = Idle /\ phase # "gone" /\ ~banner =>
    toClient \o Left("remote") = [i \in 1 .. answered |-> <<try, i>>]

\* A callback runs to its end, and the loop polls again.  A socket whose peer reads has
\* room in the end: a send that is tried again and again succeeds.
RelayFairness ==
  /\ WF_vars(Connected \/ ConnectFails)
  /\ WF_vars(\E x \in Side, e \in {"in", "out", "timeout"} : Event(x, e))
  /\ WF_vars(call # Idle /\ RelayNext)
  /\ SF_vars(\E m \in 0 .. BufSize : PlainSend(m) /\ m = Len(buff[call.val].data) - buff[call.val].off)
  /\ SF_vars(\E m \in 0 .. Total : SendRest(m) /\ m = Total - call.lp)
  /\ \A k \in UNION {DOMAIN PartsOf[r] : r \in Try} :
       SF_vars(\E m \in 0 .. Total : /\ SendPart(k, m, FALSE)
                                   /\ (k = call.partSkip \/ m = Until(k) - call.lp))

RelayFairSpec == RelaySpec /\ RelayFairness

\* Data that waits for its receiver is passed on, or the connection ends: neither the
\* timers of --wait-send nor the interest in events is lost on the way (on_tunnel).
PendingDrains ==
  \A x \in Side : (Holds(x) /\ phase # "gone") ~> (~Holds(x) \/ phase = "gone")
=============================================================================
