---------------------------- MODULE Relay_proofs ----------------------------
(***************************************************************************)
(* Theorems about Relay: types, who waits for whom, the answer that reaches *)
(* the client, and the request that reaches a server.                       *)
(***************************************************************************)
EXTENDS Relay, SequenceTheorems, TLAPS

Whole(x) == Len(buff[x].data) - buff[x].off

\* Where the callback stands tells what the buffers hold.
CallInv ==
  /\ call # Idle => phase = "tunnel"
  /\ phase = "connect" => ~Holds("remote")
  /\ call.at = "recv" => ~Holds("client") /\ ~Holds("remote") /\ etype = [x \in Side |-> {"in"}]
  /\ call.at \in {"send", "parts"} =>
       /\ Holds(call.val) /\ ~Holds(Pair(call.val))
       /\ call.loop => etype = [x \in Side |-> {"in"}]
  /\ call.at = "send" => call.n = Whole(call.val)
  /\ call.at = "parts" => call.val = "client" /\ buff["client"].off <= call.lp /\ call.lp <= Total

\* As long as another server may be tried, the client has nothing of this one's answer;
\* what the client has and what waits for it are the answer so far.
ReplyInv ==
  ~banner =>
    /\ sqBuff # None => answered = 0
    /\ answered > 0 => taken > 0
    /\ Len(toClient) + (IF Holds("remote") THEN Whole("remote") ELSE 0) = answered
    /\ \A i \in 1 .. Len(toClient) : toClient[i] = <<try, i>>
    /\ Holds("remote") =>
         \A i \in 1 .. Len(buff["remote"].data) :
           buff["remote"].data[i] = <<try, answered - Len(buff["remote"].data) + i>>
-----------------------------------------------------------------------------
(* Types.                                                                   *)

LEMMA TryFacts == 1 \in Try /\ Try \subseteq Nat
<1>1. PartsOf \in Seq(Seq([pos : Int, first : BOOLEAN, start : BOOLEAN])) /\ PartsOf # <<>>
  BY RelayAssumption
<1>2. Len(PartsOf) \in Nat /\ Try = 1 .. Len(PartsOf)
  BY <1>1, LenProperties DEF Try
<1>3. Len(PartsOf) # 0
  BY <1>1, EmptySeq
<1>. QED
  BY <1>2, <1>3

LEMMA Bounds == Answer \in Nat /\ BufSize \in Nat /\ 0 .. BufSize \subseteq Nat
<1>1. Answer \in Nat /\ BufSize \in Nat
  BY RelayAssumption
<1>. QED
  BY <1>1

LEMMA EndsFacts == Len(Ends) \in Nat /\ DOMAIN Ends = 1 .. Len(Ends)
  BY RelayAssumption, LenProperties

LEMMA TypeInit == RelayInit => RelayTypeOK
<1> SUFFICES ASSUME RelayInit PROVE RelayTypeOK
  OBVIOUS
<1>1. BufferOK(None, Byte) /\ BufferOK(None, Nat \X Nat)
  BY RelayAssumption, EmptySeq DEF BufferOK, None
<1>2. BuffersOK
  BY <1>1 DEF RelayInit, Side, BuffersOK
<1>3. CallOK
  BY DEF RelayInit, Idle, Side, CallOK
<1>4. toServer \in Seq(Byte) /\ toClient \in Seq(Nat \X Nat)
  BY EmptySeq DEF RelayInit
<1>5. taken \in 0 .. Len(Ends) /\ answered \in 0 .. Answer /\ try \in Try
  BY TryFacts, EndsFacts, RelayAssumption DEF RelayInit
<1>6. ControlOK
  <2>1. /\ etype \in [Side -> SUBSET {"in", "out"}] /\ timed \in SUBSET Side
        /\ roundSent \in [Side -> Nat] /\ roundCount \in [Side -> Nat]
    BY DEF RelayInit, Side
  <2>. QED
    BY <1>5, <2>1 DEF RelayInit, ControlOK
<1>. QED
  BY <1>2, <1>3, <1>4, <1>6 DEF RelayTypeOK

LEMMA IdleOK == Idle \in [at : {"poll", "recv", "send", "parts"}, val : Side, loop : BOOLEAN, n : Nat,
            skip : Nat, partSkip : Nat, lp : Nat, part : Nat]
  BY DEF Idle, Side

LEMMA ReconnectTyped ==
  ASSUME RelayTypeOK, Reconnect
  PROVE  RelayTypeOK'
<1>0. BufferOK(None, Nat \X Nat)
  BY RelayAssumption, EmptySeq DEF BufferOK, None
<1>1. BuffersOK'
  BY <1>0 DEF RelayTypeOK, BuffersOK, Reconnect, Replay, Side
<1>2. CallOK'
  BY IdleOK DEF CallOK, Reconnect
<1>3. ControlOK'
  <2>1. try' \in Try
    BY DEF Reconnect, CanReconnect
  <2>2. answered' \in 0 .. Answer
    BY RelayAssumption DEF Reconnect
  <2>3. /\ (etype \in [Side -> SUBSET {"in", "out"}])' /\ (timed \in SUBSET Side)'
        /\ (roundSent \in [Side -> Nat])' /\ (roundCount \in [Side -> Nat])'
    BY DEF RelayTypeOK, ControlOK, Reconnect, Side
  <2>. QED
    BY <2>1, <2>2, <2>3 DEF RelayTypeOK, ControlOK, Reconnect
<1>4. (toServer \in Seq(Byte) /\ toClient \in Seq(Nat \X Nat))'
  BY EmptySeq DEF RelayTypeOK, Reconnect
<1>. QED
  BY <1>1, <1>2, <1>3, <1>4 DEF RelayTypeOK

LEMMA GiveUpTyped ==
  ASSUME RelayTypeOK, GiveUp
  PROVE  RelayTypeOK'
<1> USE DEF GiveUp, Drop, poll, rounds, streams, history
<1>1. BuffersOK'
  BY DEF RelayTypeOK, BuffersOK
<1>2. CallOK'
  BY IdleOK DEF CallOK
<1>3. ControlOK'
  BY DEF RelayTypeOK, ControlOK
<1>. QED
  BY <1>1, <1>2, <1>3 DEF RelayTypeOK

LEMMA BufferMoved ==
  ASSUME NEW b, NEW S, BufferOK(b, S), b # None, NEW sn \in Nat, b.off + sn <= Len(b.data)
  PROVE  BufferOK([b EXCEPT !.off = @ + sn], S)
  BY DEF BufferOK, None

LEMMA SendReturnsTyped ==
  ASSUME RelayTypeOK, Holds(call.val), NEW sn \in Nat, NEW w \in BOOLEAN,
         buff[call.val].off + sn <= Len(buff[call.val].data), SendReturns(sn, w),
         blocked' \in BOOLEAN, repeated' \in BOOLEAN, banner' = banner, partSent' \in Nat
  PROVE  BuffersOK' /\ CallOK' /\ ControlOK'
<1>1. call.val \in Side
  BY DEF RelayTypeOK, CallOK
<1>2. CASE ~Done(sn, w)
  <2>1. BuffersOK'
    <3>1. /\ buff' = [y \in Side |-> buff'[y]]
          /\ buff'[call.val] = [buff[call.val] EXCEPT !.off = @ + sn]
          /\ \A y \in Side \ {call.val} : buff'[y] = buff[y]
          /\ sqBuff' = sqBuff
      BY <1>1, <1>2 DEF SendReturns, RelayTypeOK, BuffersOK
    <3>2. BufferOK(buff["client"], Byte)'
      <4>1. CASE call.val = "client"
        <5>1. buff["client"] # None /\ buff["client"].off + sn <= Len(buff["client"].data)
          BY <4>1 DEF Holds
        <5>2. BufferOK([buff["client"] EXCEPT !.off = @ + sn], Byte)
          BY <5>1, BufferMoved DEF RelayTypeOK, BuffersOK
        <5>. QED
          BY <3>1, <4>1, <5>2
      <4>2. CASE call.val # "client"
        BY <3>1, <4>2 DEF RelayTypeOK, BuffersOK, Side
      <4>. QED
        BY <4>1, <4>2
    <3>3. BufferOK(buff["remote"], Nat \X Nat)'
      <4>1. CASE call.val = "remote"
        <5>1. buff["remote"] # None /\ buff["remote"].off + sn <= Len(buff["remote"].data)
          BY <4>1 DEF Holds
        <5>2. BufferOK([buff["remote"] EXCEPT !.off = @ + sn], Nat \X Nat)
          BY <5>1, BufferMoved DEF RelayTypeOK, BuffersOK
        <5>. QED
          BY <3>1, <4>1, <5>2
      <4>2. CASE call.val # "remote"
        BY <3>1, <4>2 DEF RelayTypeOK, BuffersOK, Side
      <4>. QED
        BY <4>1, <4>2
    <3>. QED
      BY <3>1, <3>2, <3>3 DEF RelayTypeOK, BuffersOK
  <2>2. CallOK'
    BY <1>2, IdleOK DEF SendReturns, CallOK
  <2>3. ControlOK'
    <3>1. etype' \in [Side -> SUBSET {"in", "out"}]
      <4>1. etype' = [etype EXCEPT ![call.val] = {}, ![Pair(call.val)] = {"out"}]
        BY <1>2 DEF SendReturns, WatchPair
      <4>. QED
        BY <4>1 DEF RelayTypeOK, ControlOK
    <3>2. roundSent' \in [Side -> Nat]
      BY <1>1 DEF SendReturns, RelayTypeOK, ControlOK
    <3>3. timed' \in SUBSET Side
      BY <1>2 DEF SendReturns, RelayTypeOK, ControlOK
    <3>. QED
      BY <3>1, <3>2, <3>3 DEF SendReturns, RelayTypeOK, ControlOK
  <2>. QED
    BY <2>1, <2>2, <2>3
<1>3. CASE Done(sn, w)
  <2>1. BuffersOK'
    <3>1. BufferOK(None, Byte) /\ BufferOK(None, Nat \X Nat)
      BY RelayAssumption, EmptySeq DEF BufferOK, None
    <3>. QED
      BY <3>1, <1>1, <1>3 DEF SendReturns, RelayTypeOK, BuffersOK, Side
  <2>2. CallOK'
    BY <1>1, <1>3, IdleOK DEF SendReturns, CallOK, Receiving
  <2>3. ControlOK'
    <3>1. etype' \in [Side -> SUBSET {"in", "out"}]
      BY <1>3 DEF SendReturns, RelayTypeOK, ControlOK, Side
    <3>2. roundSent' \in [Side -> Nat]
      BY <1>1 DEF SendReturns, RelayTypeOK, ControlOK
    <3>3. timed' \in SUBSET Side
      BY <1>3 DEF SendReturns
    <3>. QED
      BY <3>1, <3>2, <3>3 DEF SendReturns, RelayTypeOK, ControlOK
  <2>. QED
    BY <2>1, <2>2, <2>3
<1>. QED
  BY <1>2, <1>3

LEMMA SliceFacts ==
  ASSUME NEW S, NEW s \in Seq(S), NEW from \in Nat, NEW to \in Nat, from <= to, to <= Len(s)
  PROVE  /\ Slice(s, from, to) \in Seq(S) /\ Len(Slice(s, from, to)) = to - from
         /\ \A i \in 1 .. to - from : Slice(s, from, to)[i] = s[from + i]
<1>1. \A i \in 1 .. to - from : s[from + i] \in S
  BY ElementOfSeq
<1>2. Slice(s, from, to) \in Seq(S)
  BY <1>1, IsASeq DEF Slice
<1>. QED
  BY <1>2 DEF Slice

\* What is left of a buffer, from off on, is as long as one thinks.
LEMMA SliceAt ==
  ASSUME NEW S, NEW s \in Seq(S), NEW from \in Nat, NEW m \in Nat, from + m <= Len(s)
  PROVE  /\ Slice(s, from, from + m) \in Seq(S) /\ Len(Slice(s, from, from + m)) = m
         /\ \A i \in 1 .. m : Slice(s, from, from + m)[i] = s[from + i]
<1>1. PICK to \in Nat : to = from + m
  OBVIOUS
<1>2. from <= to /\ to <= Len(s) /\ to - from = m
  BY <1>1
<1>3. /\ Slice(s, from, to) \in Seq(S) /\ Len(Slice(s, from, to)) = to - from
      /\ \A i \in 1 .. to - from : Slice(s, from, to)[i] = s[from + i]
  BY <1>2, SliceFacts
<1>4. /\ Slice(s, from, to) \in Seq(S) /\ Len(Slice(s, from, to)) = m
      /\ \A i \in 1 .. m : Slice(s, from, to)[i] = s[from + i]
  BY <1>2, <1>3
<1>. QED
  BY <1>1, <1>4

\* Where byte i of a concatenation comes from.
LEMMA ConcatAt ==
  ASSUME NEW S, NEW s \in Seq(S), NEW t \in Seq(S), NEW i \in 1 .. Len(s) + Len(t)
  PROVE  /\ i <= Len(s) => i \in 1 .. Len(s) /\ (s \o t)[i] = s[i]
         /\ i > Len(s) => i - Len(s) \in 1 .. Len(t) /\ (s \o t)[i] = t[i - Len(s)]
  BY ConcatProperties, LenProperties

LEMMA DeliverTyped ==
  ASSUME RelayTypeOK, Holds(call.val), NEW from \in Nat, NEW to \in Nat, from <= to,
         to <= Len(buff[call.val].data), Deliver(from, to)
  PROVE  toServer' \in Seq(Byte) /\ toClient' \in Seq(Nat \X Nat)
<1>1. CASE call.val = "client"
  <2>1. Slice(buff["client"].data, from, to) \in Seq(Byte)
    BY <1>1, SliceFacts DEF RelayTypeOK, BuffersOK, BufferOK
  <2>2. toServer \o Slice(buff["client"].data, from, to) \in Seq(Byte)
    BY <2>1, ConcatProperties DEF RelayTypeOK
  <2>3. toServer' = toServer \o Slice(buff["client"].data, from, to) /\ toClient' = toClient
    BY <1>1 DEF Deliver
  <2>. QED
    BY <2>2, <2>3 DEF RelayTypeOK
<1>2. CASE call.val = "remote"
  <2>1. Slice(buff["remote"].data, from, to) \in Seq(Nat \X Nat)
    BY <1>2, SliceFacts DEF RelayTypeOK, BuffersOK, BufferOK
  <2>2. toClient \o Slice(buff["remote"].data, from, to) \in Seq(Nat \X Nat)
    BY <2>1, ConcatProperties DEF RelayTypeOK
  <2>3. toClient' = toClient \o Slice(buff["remote"].data, from, to) /\ toServer' = toServer
    BY <1>2 DEF Deliver
  <2>. QED
    BY <2>2, <2>3 DEF RelayTypeOK
<1>. QED
  BY <1>1, <1>2 DEF RelayTypeOK, CallOK, Side

LEMMA RequestFacts ==
  ASSUME NEW i \in 0 .. Len(Ends), NEW j \in 0 .. Len(Ends), i <= j
  PROVE  /\ SentBy(i) \in Nat /\ SentBy(j) \in Nat /\ SentBy(i) <= SentBy(j)
         /\ Request(i, j) \in Seq(Byte)
<1>0. \A k \in 1 .. Len(Ends) : Ends[k] \in Nat \ {0}
  BY RelayAssumption, ElementOfSeq
<1>1. \A k \in 0 .. Len(Ends) : SentBy(k) \in Nat
  BY <1>0, EndsFacts DEF SentBy
<1>2. \A k, l \in 0 .. Len(Ends) : k <= l => SentBy(k) <= SentBy(l)
  <2>1. ASSUME NEW k \in 0 .. Len(Ends), NEW l \in 0 .. Len(Ends), k <= l
        PROVE  SentBy(k) <= SentBy(l)
    <3>1. CASE k = 0
      BY <3>1, <1>1 DEF SentBy
    <3>2. CASE k > 0 /\ k = l
      BY <3>2, <1>1
    <3>3. CASE k > 0 /\ k < l
      <4>0. k \in DOMAIN Ends /\ l \in DOMAIN Ends
        BY <3>3, EndsFacts
      <4>1. Ends[k] < Ends[l]
        BY <3>3, <4>0, RelayAssumption
      <4>2. Ends[k] \in Nat /\ Ends[l] \in Nat
        BY <3>3, <1>0, EndsFacts
      <4>. QED
        BY <4>1, <4>2, <3>3, EndsFacts DEF SentBy
    <3>. QED
      BY <3>1, <3>2, <3>3, <2>1, EndsFacts
  <2>. QED
    BY <2>1
<1>3. SentBy(j) <= SentBy(Len(Ends))
  BY <1>2, EndsFacts
<1>4. SentBy(i) \in Nat /\ SentBy(j) \in Nat /\ SentBy(i) <= SentBy(j) /\ SentBy(Len(Ends)) \in Nat
  BY <1>1, <1>2, EndsFacts
<1>5. \A b \in 1 .. SentBy(j) - SentBy(i) : SentBy(i) + b \in Byte
  BY <1>3, <1>4 DEF Byte
<1>6. Request(i, j) \in Seq(Byte)
  BY <1>4, <1>5, IsASeq DEF Request
<1>. QED
  BY <1>4, <1>6

LEMMA PartFacts ==
  ASSUME RelayTypeOK, NEW k \in DOMAIN Parts
  PROVE  k \in Nat /\ Parts[k].pos \in Int /\ Parts[k].first \in BOOLEAN
         /\ (Len(buff["client"].data) \in Nat => Position(Parts[k]) \in Int)
<1>1. Parts \in Seq([pos : Int, first : BOOLEAN, start : BOOLEAN])
  BY RelayAssumption, TryFacts, ElementOfSeq DEF RelayTypeOK, ControlOK, Parts, Try
<1>2. k \in 1 .. Len(Parts) /\ Len(Parts) \in Nat
  BY <1>1, LenProperties
<1>3. Parts[k] \in [pos : Int, first : BOOLEAN, start : BOOLEAN]
  BY <1>1, <1>2, ElementOfSeq
<1>. QED
  BY <1>2, <1>3 DEF Position, Total

LEMMA LoadedOK ==
  ASSUME NEW S, NEW s \in Seq(S), Len(s) <= BufSize
  PROVE  BufferOK(Loaded(s), S)
  BY LenProperties DEF BufferOK, Loaded

LEMMA TampedFacts ==
  ASSUME RelayTypeOK, NEW s \in Seq(Byte), Len(s) <= BufSize
  PROVE  /\ Tamped(s) \in Seq(Byte) /\ Len(Tamped(s)) \in Nat
         /\ Len(s) <= Len(Tamped(s)) /\ Len(Tamped(s)) <= BufSize
<1>1. CASE Tamped(s) = s
  BY <1>1, LenProperties
<1>2. CASE Header \in 1 .. Len(s) /\ Len(s) < BufSize
           /\ Tamped(s) = SubSeq(s, 1, Header) \o <<0>> \o SubSeq(s, Header + 1, Len(s))
  <2>0. Len(s) \in Nat /\ Header \in Nat
    BY LenProperties, RelayAssumption
  <2>1. 0 \in Byte
    BY RequestFacts, EndsFacts DEF Byte
  <2>2. <<0>> \in Seq(Byte) /\ Len(<<0>>) = 1
    BY <2>1
  <2>3. /\ SubSeq(s, 1, Header) \in Seq(Byte) /\ Len(SubSeq(s, 1, Header)) = Header
        /\ SubSeq(s, Header + 1, Len(s)) \in Seq(Byte)
        /\ Len(SubSeq(s, Header + 1, Len(s))) = Len(s) - Header
    BY <1>2, <2>0, SubSeqProperties
  <2>4. /\ SubSeq(s, 1, Header) \o <<0>> \in Seq(Byte)
        /\ Len(SubSeq(s, 1, Header) \o <<0>>) = Header + 1
    BY <2>2, <2>3, ConcatProperties
  <2>5. \A a, b \in Seq(Byte) : a \o b \in Seq(Byte) /\ Len(a \o b) = Len(a) + Len(b)
    BY ConcatProperties
  <2>6. Tamped(s) \in Seq(Byte) /\ Len(Tamped(s)) = (Header + 1) + (Len(s) - Header)
    BY <1>2, <2>3, <2>4, <2>5
  <2>7. Len(Tamped(s)) = Len(s) + 1
    BY <2>0, <2>6
  <2>8. BufSize \in Nat /\ Len(s) < BufSize
    BY <1>2, RelayAssumption
  <2>9. Len(s) <= Len(Tamped(s)) /\ Len(Tamped(s)) <= BufSize /\ Len(Tamped(s)) \in Nat
    BY <2>0, <2>7, <2>8
  <2>. QED
    BY <2>6, <2>9
<1>. QED
  BY <1>1, <1>2 DEF Tamped

\* The part was sent, and the loop goes on from lp.
PartSent(k, lp) ==
  /\ buff["client"].off <= lp /\ lp <= Total
  /\ call' = [call EXCEPT !.part = k, !.lp = lp]
  /\ UNCHANGED <<phase, try, poll, buff, sqBuff, roundSent, roundCount, reset, taken, answered,
                 greetings>>

LEMMA AtParts ==
  ASSUME RelayTypeOK, CallInv, call.at = "parts"
  PROVE  /\ Holds("client") /\ call.val = "client" /\ Total \in Nat
         /\ buff["client"].off \in Nat /\ call.lp \in Nat
         /\ buff["client"].off <= call.lp /\ call.lp <= Total
<1>1. Holds("client") /\ call.val = "client" /\ buff["client"].off <= call.lp /\ call.lp <= Total
  BY DEF CallInv
<1>2. buff["client"].off \in 0 .. Total /\ Total \in Nat
  BY <1>1, LenProperties DEF Holds, RelayTypeOK, BuffersOK, BufferOK, Total
<1>. QED
  BY <1>1, <1>2 DEF RelayTypeOK, CallOK

LEMMA SendPartCases ==
  ASSUME RelayTypeOK, CallInv,
         NEW k \in DOMAIN Parts, NEW m \in 0 .. Total, NEW busy \in BOOLEAN, SendPart(k, m, busy)
  PROVE  /\ call.at = "parts" /\ call.val = "client" /\ Holds("client") /\ k \in Nat
         /\ \E to \in Nat : call.lp \in Nat /\ call.lp <= to /\ to <= Total /\ Deliver(call.lp, to)
         /\ \/ \E sn \in Nat, w \in BOOLEAN : SendReturns(sn, w) /\ buff["client"].off + sn <= Total
            \/ \E lp \in Nat : PartSent(k, lp)
<1> DEFINE off == buff["client"].off
           s == IF k = call.partSkip THEN Until(k) - call.lp ELSE m
           next == IF Parts[k].first THEN call.lp ELSE Until(k)
<1>0. /\ Holds("client") /\ call.at = "parts" /\ call.val = "client"
      /\ off \in Nat /\ call.lp \in Nat /\ off <= call.lp /\ call.lp <= Total /\ Total \in Nat
      /\ k \in Nat /\ Position(Parts[k]) \in Int /\ Position(Parts[k]) >= call.lp
  <2>1. call.at = "parts" /\ Position(Parts[k]) >= call.lp
    BY DEF SendPart, AtPart
  <2>2. k \in Nat /\ Position(Parts[k]) \in Int
    BY <2>1, AtParts, PartFacts DEF Total
  <2>. QED
    BY <2>1, <2>2, AtParts
<1>1. Until(k) \in Nat /\ call.lp <= Until(k) /\ Until(k) <= Total
  BY <1>0 DEF Until
<1>2. m \in Nat /\ call.lp + m <= Until(k) /\ s \in Nat /\ call.lp + s <= Until(k)
      /\ next \in Nat /\ off <= next /\ next <= Total
  BY <1>0, <1>1 DEF SendPart
<1>3. Deliver(call.lp, call.lp + m)
  BY DEF SendPart
<1>4. \/ SendReturns(call.lp + s - off, FALSE)
      \/ SendReturns(next - off, TRUE)
      \/ /\ call' = [call EXCEPT !.part = k, !.lp = next]
         /\ UNCHANGED <<phase, try, poll, buff, sqBuff, roundSent, roundCount,
                        reset, taken, answered, greetings>>
  BY DEF SendPart
<1> HIDE DEF off, s, next
<1>5. /\ call.lp + s - off \in Nat /\ off + (call.lp + s - off) <= Total
      /\ next - off \in Nat /\ off + (next - off) <= Total
      /\ call.lp + m \in Nat /\ call.lp <= call.lp + m /\ call.lp + m <= Total
  BY <1>0, <1>1, <1>2
<1>6. CASE SendReturns(call.lp + s - off, FALSE) \/ SendReturns(next - off, TRUE)
  BY <1>0, <1>3, <1>5, <1>6 DEF off
<1>7. CASE call' = [call EXCEPT !.part = k, !.lp = next]
           /\ UNCHANGED <<phase, try, poll, buff, sqBuff, roundSent, roundCount,
                          reset, taken, answered, greetings>>
  <2>1. PartSent(k, next)
    BY <1>7, <1>2 DEF PartSent, off
  <2>. QED
    BY <1>0, <1>2, <1>3, <1>5, <2>1
<1>. QED
  BY <1>4, <1>6, <1>7

LEMMA SendRestCases ==
  ASSUME RelayTypeOK, CallInv, NEW m \in 0 .. Total, SendRest(m)
  PROVE  /\ call.at = "parts" /\ call.val = "client" /\ Holds("client")
         /\ \E to \in Nat : call.lp \in Nat /\ call.lp <= to /\ to <= Total /\ Deliver(call.lp, to)
         /\ \E sn \in Nat : SendReturns(sn, FALSE) /\ buff["client"].off + sn <= Total
<1> DEFINE sn == (IF m = 0 THEN call.lp ELSE Total) - buff["client"].off
<1>1. call.at = "parts" /\ Deliver(call.lp, call.lp + m) /\ SendReturns(sn, FALSE)
      /\ m \in 0 .. Total - call.lp
  BY DEF SendRest
<1>2. sn \in Nat /\ buff["client"].off + sn <= Total
      /\ call.lp + m \in Nat /\ call.lp <= call.lp + m /\ call.lp + m <= Total
  BY <1>1, AtParts
<1> HIDE DEF sn
<1>. QED
  BY <1>1, <1>2, AtParts

LEMMA TypeStep ==
  RelayTypeOK /\ CallInv /\ [RelayNext]_vars => RelayTypeOK'
<1> SUFFICES ASSUME RelayTypeOK, CallInv, [RelayNext]_vars PROVE RelayTypeOK'
  OBVIOUS
<1> USE DEF poll, rounds, streams, history
<1>0. /\ buff["client"].data \in Seq(Byte) /\ Len(buff["client"].data) \in Nat /\ Total \in Nat
      /\ buff["remote"].data \in Seq(Nat \X Nat) /\ Len(buff["remote"].data) \in Nat
      /\ \A x \in Side : Holds(x) => buff[x].off \in Nat /\ buff[x].off <= Len(buff[x].data)
  BY LenProperties DEF RelayTypeOK, BuffersOK, BufferOK, Total, Holds, Side
<1>a. /\ BufferOK(None, Byte) /\ BufferOK(None, Nat \X Nat)
  BY RelayAssumption, EmptySeq DEF BufferOK, None
<1>c. \A x \in Side : Holds(x) => Len(buff[x].data) - buff[x].off \in Nat
  BY <1>0 DEF Side
<1>b. \A x \in Side, n \in Nat, l \in BOOLEAN :
        {Receiving(x), SendingOf(x, n, l)} \subseteq
          [at : {"poll", "recv", "send", "parts"}, val : Side, loop : BOOLEAN, n : Nat,
           skip : Nat, partSkip : Nat, lp : Nat, part : Nat]
  BY IdleOK DEF Receiving, SendingOf
<1>1. CASE Connected
  <2>1. CallOK'
    <3>1. CASE Holds("client")
      <4>1. call' = SendingOf("client", Len(buff["client"].data) - buff["client"].off, FALSE)
        BY <1>1, <3>1 DEF Connected, Pending
      <4>2. Len(buff["client"].data) - buff["client"].off \in Nat /\ "client" \in Side
        BY <3>1, <1>c DEF Side
      <4>. QED
        BY <4>1, <4>2, <1>b DEF CallOK
    <3>2. CASE ~Holds("client")
      BY <1>1, <3>2 DEF Connected, RelayTypeOK, CallOK
    <3>. QED
      BY <3>1, <3>2
  <2>2. ControlOK'
    <3>1. etype' \in [Side -> SUBSET {"in", "out"}]
      BY <1>1 DEF Connected
    <3>2. timed' \in SUBSET Side /\ greetings' \in Nat
      BY <1>1 DEF Connected, RelayTypeOK, ControlOK
    <3>. QED
      BY <1>1, <3>1, <3>2 DEF Connected, RelayTypeOK, ControlOK
  <2>. QED
    BY <1>1, <2>1, <2>2 DEF Connected, RelayTypeOK, BuffersOK
<1>2. CASE ConnectFails
  BY <1>2, ReconnectTyped, GiveUpTyped DEF ConnectFails, Trigger
<1>3. CASE Reset
  BY <1>3 DEF Reset, RelayTypeOK, BuffersOK, CallOK, ControlOK
<1>4. ASSUME NEW x \in Side, NEW e \in {"in", "out", "hup", "timeout"}, Event(x, e)
      PROVE  RelayTypeOK'
  <2>1. Valued(x, e) \in Side
    BY DEF Valued, Pair, Side
  <2>2. CallOK'
    <3>1. CASE Holds(Valued(x, e))
      BY <1>4, <2>1, <3>1, <1>c, <1>b DEF Event, Pending, CallOK
    <3>2. CASE ~Holds(Valued(x, e))
      BY <1>4, <2>1, <3>2, <1>b, IdleOK DEF Event, CallOK
    <3>. QED
      BY <3>1, <3>2
  <2>3. ControlOK'
    BY <1>4 DEF Event, RelayTypeOK, ControlOK
  <2>. QED
    BY <1>4, <2>2, <2>3 DEF Event, RelayTypeOK, BuffersOK
<1>5. ASSUME NEW j \in DOMAIN Ends, RecvRequest(j) PROVE RelayTypeOK'
  <2> DEFINE s == Request(taken, j)
  <2>1. s \in Seq(Byte) /\ Len(s) \in Nat /\ Len(s) <= BufSize
    BY <1>5, RequestFacts, EndsFacts, LenProperties DEF RecvRequest, RelayTypeOK, ControlOK
  <2>2. BufferOK(Kept(s), Byte)
    <3>1. Saved \in Seq(Byte)
      BY EmptySeq DEF Saved, RelayTypeOK, BuffersOK, BufferOK
    <3>2. Saved \o s \in Seq(Byte) /\ Len(Saved \o s) \in Nat
      BY <2>1, <3>1, ConcatProperties, LenProperties
    <3>3. CASE Kept(s) = Loaded(Saved \o s) /\ ~(Len(Saved \o s) >= BufSize)
      <4>1. Len(Saved \o s) <= BufSize
        BY <3>2, <3>3, RelayAssumption
      <4>. QED
        BY <3>2, <3>3, <4>1, LoadedOK
    <3>4. CASE Kept(s) \in {None, sqBuff}
      BY <3>4, <1>a DEF RelayTypeOK, BuffersOK
    <3>. QED
      BY <3>3, <3>4 DEF Kept
  <2>3. BufferOK(Loaded(s), Byte)
    BY <2>1, LoadedOK
  <2>4. BuffersOK'
    BY <1>5, <2>2, <2>3 DEF RecvRequest, RelayTypeOK, BuffersOK, Side
  <2>5. CallOK'
    BY <1>5, <2>1, <1>b DEF RecvRequest, CallOK, Side
  <2>6. roundSent' \in [Side -> Nat] /\ roundCount' \in [Side -> Nat]
    <3>1. NewRound("client")
      BY <1>5 DEF RecvRequest
    <3>. QED
      BY <3>1 DEF NewRound, RelayTypeOK, ControlOK, Side, Pair
  <2>7. ControlOK'
    BY <1>5, <2>6, EndsFacts DEF RecvRequest, RelayTypeOK, ControlOK
  <2>. QED
    BY <1>5, <2>4, <2>5, <2>7 DEF RecvRequest, RelayTypeOK
<1>6. ASSUME NEW m \in 1 .. Answer, RecvAnswer(m) PROVE RelayTypeOK'
  <2> DEFINE s == [i \in 1 .. m |-> <<try, answered + i>>]
  <2>0. m \in Nat /\ m <= BufSize /\ answered + m \in 0 .. Answer /\ answered \in Nat /\ try \in Nat
    <3>1. m <= BufSize /\ m \in 1 .. Answer - answered
      BY <1>6 DEF RecvAnswer
    <3>2. answered \in 0 .. Answer /\ try \in Nat
      BY TryFacts DEF RelayTypeOK, ControlOK
    <3>. QED
      BY <3>1, <3>2, Bounds
  <2>1. s \in Seq(Nat \X Nat) /\ Len(s) = m
    BY <2>0, IsASeq
  <2>2. BufferOK(Loaded(s), Nat \X Nat)
    BY <2>0, <2>1, LoadedOK
  <2>3. BuffersOK'
    BY <1>6, <2>2, <1>a DEF RecvAnswer, FreeFirst, RelayTypeOK, BuffersOK, Side
  <2>4. CallOK'
    BY <1>6, <2>0, <1>b DEF RecvAnswer, CallOK, Side
  <2>5. roundSent' \in [Side -> Nat] /\ roundCount' \in [Side -> Nat] /\ partSent' \in Nat
    <3>1. NewRound("remote") /\ partSent' \in {0, partSent}
      BY <1>6 DEF RecvAnswer
    <3>. QED
      BY <3>1 DEF NewRound, RelayTypeOK, ControlOK, Side, Pair
  <2>6. ControlOK'
    BY <1>6, <2>0, <2>5 DEF RecvAnswer, RelayTypeOK, ControlOK
  <2>. QED
    BY <1>6, <2>3, <2>4, <2>6 DEF RecvAnswer, RelayTypeOK
<1>7. CASE WrongAnswer
  BY <1>7, ReconnectTyped DEF WrongAnswer
<1>8. CASE RecvNothing
  BY <1>8, IdleOK DEF RecvNothing, RelayTypeOK, BuffersOK, CallOK, ControlOK
<1>9. CASE RecvFin
  BY <1>9, ReconnectTyped, GiveUpTyped DEF RecvFin, Trigger
<1>10. CASE ClientCloses
  BY <1>10, GiveUpTyped DEF ClientCloses
<1>11. CASE RecvReset
  BY <1>11, ReconnectTyped, GiveUpTyped DEF RecvReset, Trigger
<1>12. ASSUME NEW m \in 0 .. BufSize, PlainSend(m) PROVE RelayTypeOK'
  <2>0. call.val \in Side /\ Holds(call.val) /\ m \in Nat
    BY <1>12 DEF PlainSend, CallInv, RelayTypeOK, CallOK
  <2>1. /\ buff[call.val].off \in Nat /\ Len(buff[call.val].data) \in Nat
        /\ buff[call.val].off + m <= Len(buff[call.val].data)
    BY <1>12, <2>0, <1>0 DEF PlainSend, Side
  <2>2. toServer' \in Seq(Byte) /\ toClient' \in Seq(Nat \X Nat)
    BY <1>12, <2>0, <2>1, DeliverTyped DEF PlainSend
  <2>3. BuffersOK' /\ CallOK' /\ ControlOK'
    BY <1>12, <2>0, <2>1, SendReturnsTyped DEF PlainSend, RelayTypeOK, ControlOK
  <2>. QED
    BY <2>2, <2>3 DEF RelayTypeOK
<1>13. CASE StartParts
  <2> DEFINE s == Tamped(buff["client"].data)
  <2>0. Holds("client") /\ call.val = "client"
    BY <1>13 DEF StartParts, Desynced, CallInv
  <2>1. s \in Seq(Byte) /\ Len(s) \in Nat /\ Len(s) <= BufSize /\ Len(buff["client"].data) <= Len(s)
    BY TampedFacts, <1>0, <2>0 DEF RelayTypeOK, BuffersOK, BufferOK
  <2>2. buff["client"].off \in 0 .. Len(s)
    BY <1>0, <2>0, <2>1 DEF Side
  <2>3. BuffersOK'
    BY <1>13, <2>1, <2>2 DEF StartParts, RelayTypeOK, BuffersOK, BufferOK, Side
  <2>4. CallOK'
    <3>1. roundSent["client"] \in Nat /\ partSent \in Nat /\ call.n \in Nat /\ call.loop \in BOOLEAN
      BY DEF RelayTypeOK, ControlOK, CallOK, Side
    <3>2. (IF call.loop THEN Len(s) ELSE call.n) \in Nat
      BY <2>1, <3>1
    <3> HIDE DEF s
    <3>3. call' = [call EXCEPT !.at = "parts", !.n = IF call.loop THEN Len(s) ELSE @,
                               !.skip = roundSent["client"], !.partSkip = partSent,
                               !.lp = buff["client"].off]
      BY <1>13 DEF StartParts, s
    <3>. QED
      BY <3>1, <3>2, <3>3, <2>2, <1>0, <2>0 DEF RelayTypeOK, CallOK, Side
  <2>. QED
    BY <1>13, <2>3, <2>4 DEF StartParts, RelayTypeOK, ControlOK
<1>14. ASSUME NEW k \in DOMAIN Parts, SkipPart(k) PROVE RelayTypeOK'
  BY <1>14, PartFacts DEF SkipPart, RelayTypeOK, BuffersOK, CallOK, ControlOK
<1>15. ASSUME NEW k \in DOMAIN Parts, CancelParts(k) PROVE RelayTypeOK'
  <2>1. Len(Parts) \in Nat
    BY RelayAssumption, TryFacts, ElementOfSeq, LenProperties DEF RelayTypeOK, ControlOK, Parts, Try
  <2>. QED
    BY <1>15, <2>1 DEF CancelParts, RelayTypeOK, BuffersOK, CallOK, ControlOK
<1>16. ASSUME NEW k \in DOMAIN Parts, NEW m \in 0 .. Total, NEW busy \in BOOLEAN, SendPart(k, m, busy)
       PROVE  RelayTypeOK'
  <2>1. toServer' \in Seq(Byte) /\ toClient' \in Seq(Nat \X Nat)
    BY <1>16, SendPartCases, DeliverTyped DEF Total
  <2>2. partSent' \in Nat /\ banner' = banner /\ blocked' \in BOOLEAN /\ repeated' \in BOOLEAN
    BY <1>16, SendPartCases DEF SendPart, RelayTypeOK, ControlOK
  <2>3. CASE \E sn \in Nat, w \in BOOLEAN : SendReturns(sn, w) /\ buff["client"].off + sn <= Total
    BY <1>16, <2>1, <2>2, <2>3, SendPartCases, SendReturnsTyped DEF RelayTypeOK, Total
  <2>4. ASSUME NEW lp \in Nat, PartSent(k, lp) PROVE RelayTypeOK'
    <3>1. BuffersOK'
      BY <2>4 DEF PartSent, RelayTypeOK, BuffersOK
    <3>2. k \in Nat /\ call' = [call EXCEPT !.part = k, !.lp = lp]
      BY <1>16, <2>4, SendPartCases DEF PartSent
    <3>3. CallOK'
      BY <3>2 DEF RelayTypeOK, CallOK
    <3>4. ControlOK'
      BY <2>2, <2>4 DEF PartSent, RelayTypeOK, ControlOK
    <3>. QED
      BY <2>1, <3>1, <3>3, <3>4 DEF RelayTypeOK
  <2>. QED
    BY <1>16, <2>3, <2>4, SendPartCases
<1>17. ASSUME NEW m \in 0 .. Total, SendRest(m) PROVE RelayTypeOK'
  <2>1. toServer' \in Seq(Byte) /\ toClient' \in Seq(Nat \X Nat)
    BY <1>17, SendRestCases, DeliverTyped DEF Total
  <2>2. partSent' \in Nat /\ banner' = banner /\ blocked' \in BOOLEAN /\ repeated' \in BOOLEAN
    BY <1>17, <1>0, SendRestCases DEF SendRest, RelayTypeOK, ControlOK
  <2>3. BuffersOK' /\ CallOK' /\ ControlOK'
    BY <1>17, <2>2, SendRestCases, SendReturnsTyped DEF Total
  <2>. QED
    BY <2>1, <2>3 DEF RelayTypeOK
<1>18. CASE SendFails
  BY <1>18, GiveUpTyped DEF SendFails
<1>19. CASE UNCHANGED vars
  BY <1>19 DEF RelayTypeOK, BuffersOK, CallOK, ControlOK, vars
<1>20. QED
  BY <1>1, <1>2, <1>3, <1>4, <1>5, <1>6, <1>7, <1>8, <1>9, <1>10, <1>11, <1>12, <1>13, <1>14, <1>15, <1>16, <1>17, <1>18, <1>19 DEF RelayNext
-----------------------------------------------------------------------------
(* Who waits for whom.                                                      *)

LEMMA CallInit == RelayInit => CallInv /\ HalfDuplex
<1> SUFFICES ASSUME RelayInit PROVE CallInv /\ HalfDuplex
  OBVIOUS
<1>1. phase = "connect" /\ call = Idle /\ Idle.at = "poll"
  BY DEF RelayInit, Idle
<1>2. ~Holds("client") /\ ~Holds("remote")
  BY DEF RelayInit, Holds, Side
<1>. QED
  BY <1>1, <1>2 DEF CallInv, HalfDuplex

LEMMA ReconnectCall ==
  ASSUME Reconnect
  PROVE  CallInv' /\ HalfDuplex'
  BY DEF Reconnect, CallInv, HalfDuplex, Idle, Holds

LEMMA GiveUpCall ==
  ASSUME GiveUp
  PROVE  CallInv' /\ HalfDuplex'
  BY DEF GiveUp, Drop, CallInv, HalfDuplex, Idle

LEMMA SendReturnsCall ==
  ASSUME RelayTypeOK, CallInv, call.at \in {"send", "parts"}, NEW sn \in Nat, NEW w \in BOOLEAN,
         SendReturns(sn, w)
  PROVE  CallInv' /\ HalfDuplex'
<1>1. PICK x \in Side : x = call.val
  BY DEF RelayTypeOK, CallOK
<1>2. PICK y \in Side : y = Pair(x) /\ x = Pair(y) /\ x # y /\ Side = {x, y}
  BY DEF Side, Pair
<1>3. /\ phase' = "tunnel" /\ buff[x] # None /\ buff[y] = None
      /\ call.loop => etype = [z \in Side |-> {"in"}]
  BY <1>1, <1>2 DEF CallInv, SendReturns, Idle, Holds
<1>4. CASE ~Done(sn, w)
  <2>1. buff'[x] = [buff[x] EXCEPT !.off = @ + sn] /\ buff'[y] = None
    BY <1>1, <1>2, <1>3, <1>4 DEF SendReturns, RelayTypeOK, BuffersOK
  <2>2. buff'[x] # None
    <3>1. \E S : BufferOK(buff[x], S)
      BY DEF RelayTypeOK, BuffersOK, Side
    <3>. QED
      BY <3>1, <2>1, <1>3 DEF BufferOK, None
  <2>3. etype'[x] = {} /\ etype'[y] = {"out"} /\ call' = Idle
    BY <1>1, <1>2, <1>4 DEF SendReturns, WatchPair, RelayTypeOK, ControlOK
  <2>. QED
    BY <1>2, <1>3, <2>1, <2>2, <2>3 DEF CallInv, HalfDuplex, Holds, Idle
<1>5. CASE Done(sn, w)
  <2>1. buff'[x] = None /\ buff'[y] = None
    BY <1>1, <1>2, <1>3, <1>5 DEF SendReturns, RelayTypeOK, BuffersOK
  <2>2. etype' = [z \in Side |-> {"in"}] /\ call' \in {Idle, Receiving(x)}
    BY <1>1, <1>3, <1>5 DEF SendReturns
  <2>3. ~Holds("client")' /\ ~Holds("remote")'
    BY <1>2, <2>1 DEF Holds, Side
  <2>4. call'.at \in {"poll", "recv"}
    <3>1. Idle.at = "poll" /\ Receiving(x).at = "recv"
      BY DEF Idle, Receiving
    <3>. QED
      BY <2>2, <3>1
  <2>. QED
    BY <1>3, <2>2, <2>3, <2>4 DEF CallInv, HalfDuplex
<1>. QED
  BY <1>4, <1>5

LEMMA CallStep ==
  RelayTypeOK /\ RelayTypeOK' /\ CallInv /\ HalfDuplex /\ [RelayNext]_vars => CallInv' /\ HalfDuplex'
<1> SUFFICES ASSUME RelayTypeOK, RelayTypeOK', CallInv, HalfDuplex, [RelayNext]_vars
             PROVE  CallInv' /\ HalfDuplex'
  OBVIOUS
<1> USE DEF poll, rounds, streams, history
<1>0. Idle.at = "poll" /\ \A x \in Side, n \in Nat, l \in BOOLEAN :
        /\ Receiving(x).at = "recv"
        /\ SendingOf(x, n, l).at = "send" /\ SendingOf(x, n, l).val = x
        /\ SendingOf(x, n, l).n = n /\ SendingOf(x, n, l).loop = l
  BY DEF Idle, Receiving, SendingOf
<1>a. /\ \A s : Loaded(s) # None /\ Loaded(s).off = 0 /\ Loaded(s).data = s
      /\ Side = {"client", "remote"} /\ Pair("client") = "remote" /\ Pair("remote") = "client"
  BY DEF Loaded, None, Side, Pair
<1>b. \A x \in Side : Holds(x) => Whole(x) \in Nat
  <2>1. \A x \in Side : \E S : BufferOK(buff[x], S)
    BY DEF RelayTypeOK, BuffersOK, Side
  <2>. QED
    BY <2>1, LenProperties DEF BufferOK, Holds, Whole
<1>1. CASE Connected
  <2>1. ~Holds("remote") /\ phase' = "tunnel" /\ buff' = buff /\ etype' = [x \in Side |-> {"in"}]
    BY <1>1 DEF Connected, CallInv
  <2>2. CASE Holds("client")
    <3>1. call' = SendingOf("client", Whole("client"), FALSE)
      BY <1>1, <2>2 DEF Connected, Pending, Whole
    <3>2. Whole("client") \in Nat
      BY <2>2, <1>b, <1>a
    <3>3. call'.at = "send" /\ call'.val = "client" /\ call'.n = Whole("client") /\ call'.loop = FALSE
      BY <3>1, <3>2, <1>0, <1>a
    <3>. QED
      BY <2>1, <2>2, <3>3, <1>a, <1>0 DEF CallInv, HalfDuplex, Holds, Whole
  <2>3. CASE ~Holds("client")
    <3>1. call' = Idle
      BY <1>1, <2>3 DEF Connected
    <3>. QED
      BY <2>1, <2>3, <3>1, <1>0 DEF CallInv, HalfDuplex, Holds
  <2>. QED
    BY <2>2, <2>3
<1>2. CASE ConnectFails
  BY <1>2, ReconnectCall, GiveUpCall DEF ConnectFails, Trigger
<1>3. CASE Reset
  BY <1>3 DEF Reset, CallInv, HalfDuplex, Holds, Whole, Total
<1>4. ASSUME NEW x \in Side, NEW e \in {"in", "out", "hup", "timeout"}, Event(x, e)
      PROVE  CallInv' /\ HalfDuplex'
  <2> DEFINE v == Valued(x, e)
  <2>0. phase = "tunnel" /\ phase' = phase /\ call = Idle /\ buff' = buff /\ etype' = etype
        /\ e \in Reported(x) /\ v \in Side
    BY <1>4, <1>a DEF Event, Valued
  <2>1. CASE ~Holds("client") /\ ~Holds("remote") /\ etype = [z \in Side |-> {"in"}]
    <3>1. ~Holds(v)
      BY <2>0, <2>1, <1>a
    <3>2. call' \in {Idle, Receiving(v)}
      BY <1>4, <3>1 DEF Event
    <3>. QED
      BY <2>0, <2>1, <3>2, <1>0 DEF CallInv, HalfDuplex, Holds
  <2>2. ASSUME NEW y \in Side, Holds(y), ~Holds(Pair(y)), etype[y] = {}, etype[Pair(y)] = {"out"}
        PROVE  CallInv' /\ HalfDuplex'
    <3>1. v = y
      BY <2>0, <2>2, <1>a DEF Valued, Reported
    <3>2. call' = SendingOf(y, Whole(y), FALSE)
      BY <1>4, <3>1, <2>2 DEF Event, Pending, Whole
    <3>3. call'.at = "send" /\ call'.val = y /\ call'.n = Whole(y) /\ call'.loop = FALSE
      <4>1. Whole(y) \in Nat
        BY <2>2, <1>b
      <4>. QED
        BY <4>1, <3>2, <1>0
    <3>. QED
      BY <2>0, <2>2, <3>3, <1>0 DEF CallInv, HalfDuplex, Holds, Whole
  <2>. QED
    BY <2>0, <2>1, <2>2 DEF HalfDuplex
<1>5. ASSUME NEW j \in DOMAIN Ends, RecvRequest(j) PROVE CallInv' /\ HalfDuplex'
  <2> DEFINE s == Request(taken, j)
  <2>1. /\ phase = "tunnel" /\ phase' = phase /\ etype' = etype /\ etype = [z \in Side |-> {"in"}]
        /\ buff["remote"] = None
    BY <1>5, <1>0 DEF RecvRequest, Receives, CallInv, Holds
  <2>2. buff'["client"] = Loaded(s) /\ buff'["remote"] = None
    BY <1>5, <2>1, <1>a DEF RecvRequest, RelayTypeOK, BuffersOK
  <2>3. call' = SendingOf("client", Len(s), TRUE) /\ Len(s) \in Nat
    BY <1>5, RequestFacts, EndsFacts, LenProperties DEF RecvRequest, RelayTypeOK, ControlOK
  <2>4. call'.at = "send" /\ call'.val = "client" /\ call'.n = Len(s)
    BY <2>3, <1>0, <1>a
  <2>5. Whole("client")' = Len(s)
    BY <2>2, <2>3, <1>a DEF Whole
  <2>. QED
    BY <2>1, <2>2, <2>4, <2>5, <1>0, <1>a DEF CallInv, HalfDuplex, Holds
<1>6. ASSUME NEW m \in 1 .. Answer, RecvAnswer(m) PROVE CallInv' /\ HalfDuplex'
  <2> DEFINE s == [i \in 1 .. m |-> <<try, answered + i>>]
  <2>0. Len(s) = m /\ m \in Nat
    BY RelayAssumption
  <2>1. /\ phase = "tunnel" /\ phase' = phase /\ etype' = etype /\ etype = [z \in Side |-> {"in"}]
        /\ buff["client"] = None
    BY <1>6, <1>0 DEF RecvAnswer, Receives, CallInv, Holds
  <2>2. buff'["remote"] = Loaded(s) /\ buff'["client"] = None
    BY <1>6, <2>1, <1>a DEF RecvAnswer, RelayTypeOK, BuffersOK
  <2>3. call' = SendingOf("remote", m, TRUE)
    BY <1>6 DEF RecvAnswer
  <2>4. call'.at = "send" /\ call'.val = "remote" /\ call'.n = m
    BY <2>0, <2>3, <1>0, <1>a
  <2>5. Whole("remote")' = m
    BY <2>0, <2>2, <1>a DEF Whole
  <2>. QED
    BY <2>1, <2>2, <2>4, <2>5, <1>0, <1>a DEF CallInv, HalfDuplex, Holds
<1>7. CASE WrongAnswer
  BY <1>7, ReconnectCall DEF WrongAnswer
<1>8. CASE RecvNothing
  BY <1>8, <1>0 DEF RecvNothing, CallInv, HalfDuplex, Holds
<1>9. CASE RecvFin
  BY <1>9, ReconnectCall, GiveUpCall DEF RecvFin, Trigger
<1>10. CASE ClientCloses
  BY <1>10, GiveUpCall DEF ClientCloses
<1>11. CASE RecvReset
  BY <1>11, ReconnectCall, GiveUpCall DEF RecvReset, Trigger
<1>12. ASSUME NEW m \in 0 .. BufSize, PlainSend(m) PROVE CallInv' /\ HalfDuplex'
  <2>1. m \in Nat /\ call.at = "send" /\ SendReturns(m, FALSE)
    BY <1>12, Bounds DEF PlainSend
  <2>. QED
    BY <2>1, SendReturnsCall
<1>13. CASE StartParts
  <2>1. /\ call.at = "send" /\ call.val = "client" /\ phase' = phase /\ etype' = etype
        /\ buff' = [buff EXCEPT !["client"].data = Tamped(buff["client"].data)]
        /\ call'.at = "parts" /\ call'.val = "client" /\ call'.lp = buff["client"].off
        /\ call'.loop = call.loop
    BY <1>13 DEF StartParts, Desynced, RelayTypeOK, CallOK
  <2>2. /\ buff'["client"].off = buff["client"].off /\ buff'["remote"] = buff["remote"]
    BY <2>1, <1>a DEF RelayTypeOK, BuffersOK, BufferOK
  <2>3. Holds("client") /\ ~Holds("remote") /\ phase = "tunnel"
    BY <2>1, <1>a, <1>0 DEF CallInv
  <2>4. buff["client"].off # -1
    BY <2>3 DEF Holds, RelayTypeOK, BuffersOK, BufferOK, None
  <2>5. buff'["client"] # None
    BY <2>2, <2>4 DEF None
  <2>6. Holds("client")' /\ ~Holds("remote")'
    BY <2>2, <2>3, <2>5 DEF Holds
  <2>7. buff'["client"].off \in 0 .. Total'
    BY <2>6 DEF RelayTypeOK, BuffersOK, BufferOK, Holds, Total
  <2>8. buff'["client"].off <= call'.lp /\ call'.lp <= Total'
    BY <2>1, <2>2, <2>7, LenProperties DEF RelayTypeOK, BuffersOK, BufferOK, Total
  <2>. QED
    BY <2>1, <2>3, <2>6, <2>8, <1>0, <1>a DEF CallInv, HalfDuplex
<1>14. ASSUME NEW k \in DOMAIN Parts, SkipPart(k) PROVE CallInv' /\ HalfDuplex'
  BY <1>14, <1>0 DEF SkipPart, AtPart, RelayTypeOK, CallOK, CallInv, HalfDuplex, Holds, Whole, Total
<1>15. ASSUME NEW k \in DOMAIN Parts, CancelParts(k) PROVE CallInv' /\ HalfDuplex'
  BY <1>15, <1>0 DEF CancelParts, AtPart, RelayTypeOK, CallOK, CallInv, HalfDuplex, Holds, Whole, Total
<1>16. ASSUME NEW k \in DOMAIN Parts, NEW m \in 0 .. Total, NEW busy \in BOOLEAN, SendPart(k, m, busy)
       PROVE  CallInv' /\ HalfDuplex'
  <2>0. call.at = "parts"
    BY <1>16 DEF SendPart, AtPart
  <2>1. ASSUME NEW sn \in Nat, NEW w \in BOOLEAN, SendReturns(sn, w)
        PROVE  CallInv' /\ HalfDuplex'
    BY <2>0, <2>1, SendReturnsCall
  <2>2. ASSUME NEW lp \in Nat, PartSent(k, lp)
        PROVE  CallInv' /\ HalfDuplex'
    <3>1. /\ buff["client"].off <= lp /\ lp <= Total
          /\ phase' = phase /\ buff' = buff /\ etype' = etype
          /\ call' = [call EXCEPT !.part = k, !.lp = lp]
      BY <2>2 DEF PartSent
    <3>2. call'.at = "parts" /\ call'.val = call.val /\ call'.loop = call.loop /\ call'.lp = lp
      BY <3>1, <2>0 DEF RelayTypeOK, CallOK
    <3>3. Total' = Total /\ phase = "tunnel" /\ call' # Idle /\ call'.at # "poll"
      BY <3>1, <3>2, <2>0, <1>0 DEF Total, CallInv
    <3>. QED
      BY <3>1, <3>2, <3>3, <2>0 DEF CallInv, HalfDuplex, Holds
  <2>. QED
    BY <1>16, <2>1, <2>2, SendPartCases
<1>17. ASSUME NEW m \in 0 .. Total, SendRest(m) PROVE CallInv' /\ HalfDuplex'
  BY <1>17, SendRestCases, SendReturnsCall DEF SendRest
<1>18. CASE SendFails
  BY <1>18, GiveUpCall DEF SendFails
<1>19. CASE UNCHANGED vars
  BY <1>19 DEF vars, CallInv, HalfDuplex, Holds, Whole, Total
<1>20. QED
  BY <1>1, <1>2, <1>3, <1>4, <1>5, <1>6, <1>7, <1>8, <1>9, <1>10, <1>11, <1>12, <1>13, <1>14, <1>15, <1>16, <1>17, <1>18, <1>19 DEF RelayNext
-----------------------------------------------------------------------------
(* The answer.                                                              *)

LEMMA ReplyInit == RelayInit => ReplyInv
<1> SUFFICES ASSUME RelayInit PROVE ReplyInv
  OBVIOUS
<1>1. sqBuff = None /\ answered = 0 /\ toClient = <<>> /\ ~Holds("remote")
  BY DEF RelayInit, Holds, Side
<1>2. Len(toClient) = 0
  BY <1>1
<1>. QED
  BY <1>1, <1>2 DEF ReplyInv

LEMMA ReplyFrame ==
  ASSUME ReplyInv, buff'["remote"] = buff["remote"],
         UNCHANGED <<try, sqBuff, taken, answered, toClient, banner>>
  PROVE  ReplyInv'
<1>1. Holds("remote")' = Holds("remote") /\ Whole("remote")' = Whole("remote")
  BY DEF Holds, Whole
<1>. QED
  BY <1>1 DEF ReplyInv

LEMMA ReplyGiveUp ==
  ASSUME ReplyInv, GiveUp
  PROVE  ReplyInv'
  BY ReplyFrame DEF GiveUp, Drop, streams, history

LEMMA ReplyReconnect ==
  ASSUME RelayTypeOK, ReplyInv, Reconnect
  PROVE  ReplyInv'
<1> SUFFICES ASSUME ~banner' PROVE ReplyInv'
  BY DEF ReplyInv
<1>1. ~banner /\ toClient' = toClient /\ answered' = 0 /\ buff'["remote"] = None
  BY DEF Reconnect
<1>2. answered = 0
  BY <1>1 DEF Reconnect, CanReconnect, BeforeRequest, ReplyInv
<1>3. Len(toClient) \in Nat
  BY LenProperties DEF RelayTypeOK
<1>4. Holds("remote") => Whole("remote") \in Nat
  BY LenProperties DEF RelayTypeOK, BuffersOK, BufferOK, Holds, Whole
<1>5. Len(toClient) = 0
  BY <1>1, <1>2, <1>3, <1>4 DEF ReplyInv
<1>6. ~Holds("remote")'
  BY <1>1 DEF Holds
<1>. QED
  BY <1>1, <1>5, <1>6 DEF ReplyInv

\* What is sent to the server leaves the answer alone.
LEMMA ReplySent ==
  ASSUME RelayTypeOK, ReplyInv, call.val = "client", UNCHANGED <<toClient, banner>>,
         NEW sn \in Nat, NEW w \in BOOLEAN, SendReturns(sn, w)
  PROVE  ReplyInv'
<1>1. buff'["remote"] = buff["remote"]
  BY DEF SendReturns, RelayTypeOK, BuffersOK, Side
<1>. QED
  BY <1>1, ReplyFrame DEF SendReturns

LEMMA ReplyPassedOn ==
  ASSUME RelayTypeOK, CallInv, ReplyInv, NEW m \in 0 .. BufSize, PlainSend(m), call.val = "remote"
  PROVE  ReplyInv'
<1> SUFFICES ASSUME ~banner' PROVE ReplyInv'
  BY DEF ReplyInv
<1>0. ~banner /\ m \in Nat /\ Holds("remote") /\ call.n = Whole("remote") /\ call.at = "send"
  BY Bounds DEF PlainSend, history, CallInv
<1>1. PICK d, o, L : d = buff["remote"].data /\ o = buff["remote"].off /\ L = Len(toClient)
  OBVIOUS
<1>2. /\ d \in Seq(Nat \X Nat) /\ Len(d) \in Nat /\ o \in Nat /\ o <= Len(d)
      /\ toClient \in Seq(Nat \X Nat) /\ L \in Nat
  BY <1>0, <1>1, LenProperties DEF RelayTypeOK, BuffersOK, BufferOK, Holds
<1>3. answered \in Nat /\ call.n \in Nat /\ Whole("remote") = Len(d) - o
  BY <1>1, Bounds DEF RelayTypeOK, ControlOK, CallOK, Whole
<1>4. PICK sent : sent = Slice(d, o, o + m)
  OBVIOUS
<1>5. m <= Len(d) - o /\ toClient' = toClient \o sent /\ SendReturns(m, FALSE)
  <2>1. Deliver(o, o + m) /\ SendReturns(m, FALSE) /\ m \in 0 .. Len(d) - o
    BY <1>1 DEF PlainSend
  <2>2. toClient' = toClient \o Slice(d, o, o + m)
    BY <2>1, <1>1 DEF Deliver
  <2>3. toClient' = toClient \o sent
    BY <2>2, <1>4, Zenon
  <2>4. m <= Len(d) - o
    BY <2>1, <1>2
  <2>. QED
    BY <2>1, <2>3, <2>4
<1>6. sent \in Seq(Nat \X Nat) /\ Len(sent) = m /\ \A i \in 1 .. m : sent[i] = d[o + i]
  <2>1. o + m <= Len(d)
    BY <1>0, <1>2, <1>5
  <2>2. PICK n \in Nat : n = m
    BY <1>0
  <2>3. d \in Seq(Nat \X Nat) /\ o \in Nat /\ o + n <= Len(d)
    BY <1>2, <2>1, <2>2
  <2>4. /\ Slice(d, o, o + n) \in Seq(Nat \X Nat) /\ Len(Slice(d, o, o + n)) = n
        /\ \A i \in 1 .. n : Slice(d, o, o + n)[i] = d[o + i]
    BY <2>3, SliceAt
  <2>. QED
    BY <2>2, <2>4, <1>4, Zenon
<1>7. Len(toClient') = L + m
  <2>1. Len(toClient \o sent) = Len(toClient) + Len(sent)
    BY <1>2, <1>6, ConcatProperties
  <2>. QED
    BY <2>1, <1>1, <1>5, <1>6
<1>8. UNCHANGED <<try, sqBuff, taken, answered>>
  BY <1>5 DEF SendReturns
<1>9. L + (Len(d) - o) = answered
  BY <1>0, <1>1, <1>3 DEF ReplyInv
<1>a. /\ \A i \in 1 .. L : toClient[i] = <<try, i>>
      /\ \A i \in 1 .. Len(d) : d[i] = <<try, answered - Len(d) + i>>
  BY <1>0, <1>1 DEF ReplyInv
<1>10. ASSUME NEW i \in 1 .. L + m PROVE toClient'[i] = <<try, i>>
  <2>0. i \in 1 .. Len(toClient) + Len(sent) /\ i \in Nat
    BY <1>0, <1>1, <1>2, <1>6
  <2>a. /\ i <= L => toClient'[i] = toClient[i] /\ i \in 1 .. L
        /\ i > L => toClient'[i] = sent[i - L] /\ i - L \in 1 .. m
    <3>1. /\ i <= Len(toClient) => i \in 1 .. Len(toClient) /\ (toClient \o sent)[i] = toClient[i]
          /\ i > Len(toClient) =>
               i - Len(toClient) \in 1 .. Len(sent) /\ (toClient \o sent)[i] = sent[i - Len(toClient)]
      BY <2>0, <1>2, <1>6, ConcatAt
    <3>2. Len(toClient) = L /\ Len(sent) = m /\ toClient' = toClient \o sent
      BY <1>1, <1>5, <1>6
    <3>. QED
      BY <3>1, <3>2
  <2>1. CASE i <= L
    BY <2>1, <2>a, <1>a
  <2>2. CASE i > L
    <3>1. toClient'[i] = sent[i - L] /\ i - L \in 1 .. m
      BY <2>2, <2>a
    <3>2. o + (i - L) \in 1 .. Len(d) /\ answered - Len(d) + (o + (i - L)) = i
      <4>1. i - L >= 1 /\ i - L <= Len(d) - o
        BY <3>1, <2>0, <1>0, <1>2, <1>5
      <4>. QED
        BY <4>1, <2>0, <1>2, <1>9
    <3>3. sent[i - L] = d[o + (i - L)]
      BY <3>1, <1>6
    <3>4. d[o + (i - L)] = <<try, i>>
      BY <3>2, <1>a
    <3>. QED
      BY <3>1, <3>3, <3>4
  <2>. QED
    BY <2>0, <2>1, <2>2, <1>2
<1>11. CASE ~Done(m, FALSE)
  <2>1. buff'["remote"] = [buff["remote"] EXCEPT !.off = @ + m]
    BY <1>5, <1>11 DEF SendReturns, RelayTypeOK, BuffersOK, Side
  <2>2. buff'["remote"].data = d /\ buff'["remote"].off = o + m
    BY <2>1, <1>1 DEF RelayTypeOK, BuffersOK, BufferOK
  <2>3. Holds("remote")'
    BY <2>2, <1>0, <1>2 DEF Holds, None
  <2>4. Whole("remote")' = Len(d) - (o + m)
    BY <2>2 DEF Whole
  <2>5. (L + m) + (Len(d) - (o + m)) = answered
    BY <1>0, <1>2, <1>9
  <2>. QED
    BY <1>0, <1>7, <1>8, <1>a, <1>10, <2>2, <2>3, <2>4, <2>5 DEF ReplyInv
<1>12. CASE Done(m, FALSE)
  <2>1. buff'["remote"] = None
    BY <1>5, <1>12 DEF SendReturns, RelayTypeOK, BuffersOK, Side
  <2>2. ~Holds("remote")'
    BY <2>1 DEF Holds
  <2>3. L + m = answered
    BY <1>0, <1>2, <1>3, <1>5, <1>9, <1>12 DEF Done
  <2>4. /\ sqBuff' # None => answered' = 0
        /\ answered' > 0 => taken' > 0
    BY <1>0, <1>8 DEF ReplyInv
  <2>5. Len(toClient') + 0 = answered' /\ \A i \in 1 .. Len(toClient') : toClient'[i] = <<try', i>>
    BY <1>0, <1>2, <1>7, <1>8, <1>10, <2>3
  <2>. QED
    BY <2>2, <2>4, <2>5 DEF ReplyInv
<1>. QED
  BY <1>11, <1>12

LEMMA ReplyReceived ==
  ASSUME RelayTypeOK, CallInv, ReplyInv, NEW m \in 1 .. Answer, RecvAnswer(m)
  PROVE  ReplyInv'
<1> DEFINE s == [i \in 1 .. m |-> <<try, answered + i>>]
<1> SUFFICES ASSUME ~banner' PROVE ReplyInv'
  BY DEF ReplyInv
<1>1. ~banner /\ taken # 0 /\ taken \in Nat /\ m \in Nat /\ answered \in Nat
  <2>1. ~banner /\ taken # 0
    BY DEF RecvAnswer
  <2>2. taken \in Nat /\ answered \in Nat
    BY EndsFacts, Bounds DEF RelayTypeOK, ControlOK
  <2>. QED
    BY <2>1, <2>2, Bounds
<1>2. ~Holds("remote")
  BY DEF RecvAnswer, Receives, CallInv
<1>3. /\ sqBuff' = None /\ answered' = answered + m
      /\ UNCHANGED <<try, taken, toClient>> /\ buff'["remote"] = Loaded(s)
  BY DEF RecvAnswer, FreeFirst, RelayTypeOK, BuffersOK, Side
<1>4. Len(s) = m /\ \A i \in 1 .. m : s[i] = <<try, answered + i>>
  BY <1>1
<1> HIDE DEF s
<1>5. Holds("remote")' /\ buff'["remote"].data = s /\ Whole("remote")' = m
  BY <1>1, <1>3, <1>4 DEF Holds, Whole, Loaded, None
<1>6. Len(toClient') + m = answered'
  BY <1>1, <1>2, <1>3 DEF ReplyInv
<1>7. \A i \in 1 .. Len(buff'["remote"].data) :
        buff'["remote"].data[i] = <<try', answered' - Len(buff'["remote"].data) + i>>
  BY <1>1, <1>3, <1>4, <1>5
<1>8. \A i \in 1 .. Len(toClient') : toClient'[i] = <<try', i>>
  BY <1>1, <1>3 DEF ReplyInv
<1>. QED
  BY <1>1, <1>3, <1>5, <1>6, <1>7, <1>8 DEF ReplyInv

LEMMA ReplyStep ==
  RelayTypeOK /\ CallInv /\ ReplyInv /\ [RelayNext]_vars => ReplyInv'
<1> SUFFICES ASSUME RelayTypeOK, CallInv, ReplyInv, [RelayNext]_vars PROVE ReplyInv'
  OBVIOUS
<1> USE DEF streams, history
<1>1. CASE Connected
  BY <1>1, ReplyFrame DEF Connected
<1>2. CASE ConnectFails
  BY <1>2, ReplyReconnect, ReplyGiveUp DEF ConnectFails, Trigger
<1>3. CASE Reset
  BY <1>3, ReplyFrame DEF Reset
<1>4. ASSUME NEW x \in Side, NEW e \in {"in", "out", "hup", "timeout"}, Event(x, e) PROVE ReplyInv'
  BY <1>4, ReplyFrame DEF Event
<1>5. ASSUME NEW j \in DOMAIN Ends, RecvRequest(j) PROVE ReplyInv'
  <2>1. /\ buff'["remote"] = buff["remote"] /\ UNCHANGED <<try, answered, toClient, banner>>
        /\ taken' = j /\ j \in Nat /\ j > 0 /\ sqBuff' = Kept(Request(taken, j))
        /\ taken \in Nat /\ answered \in Nat
    <3>1. buff'["remote"] = buff["remote"]
      BY <1>5 DEF RecvRequest, RelayTypeOK, BuffersOK, Side
    <3>2. j \in Nat /\ j > 0
      BY EndsFacts
    <3>3. taken \in Nat /\ answered \in Nat
      BY EndsFacts, Bounds DEF RelayTypeOK, ControlOK
    <3>. QED
      BY <1>5, <3>1, <3>2, <3>3 DEF RecvRequest
  <2>2. ~banner /\ sqBuff' # None => answered = 0
    <3>1. CASE sqBuff # None
      BY <3>1 DEF ReplyInv
    <3>2. CASE sqBuff = None
      BY <2>1, <3>2 DEF ReplyInv, Kept
    <3>. QED
      BY <3>1, <3>2
  <2>3. Holds("remote")' = Holds("remote") /\ Whole("remote")' = Whole("remote")
    BY <2>1 DEF Holds, Whole
  <2>. QED
    BY <2>1, <2>2, <2>3 DEF ReplyInv
<1>6. ASSUME NEW m \in 1 .. Answer, RecvAnswer(m) PROVE ReplyInv'
  BY <1>6, ReplyReceived
<1>7. CASE WrongAnswer
  BY <1>7, ReplyReconnect DEF WrongAnswer
<1>8. CASE RecvNothing
  BY <1>8, ReplyFrame DEF RecvNothing
<1>9. CASE RecvFin
  BY <1>9, ReplyReconnect, ReplyGiveUp DEF RecvFin, Trigger
<1>10. CASE ClientCloses
  BY <1>10, ReplyGiveUp DEF ClientCloses
<1>11. CASE RecvReset
  BY <1>11, ReplyReconnect, ReplyGiveUp DEF RecvReset, Trigger
<1>12. ASSUME NEW m \in 0 .. BufSize, PlainSend(m) PROVE ReplyInv'
  <2>1. CASE call.val = "remote"
    BY <1>12, <2>1, ReplyPassedOn
  <2>2. CASE call.val = "client"
    <3>1. m \in Nat
      BY RelayAssumption
    <3>2. SendReturns(m, FALSE) /\ UNCHANGED <<toClient, banner>>
      BY <1>12, <2>2 DEF PlainSend, Deliver
    <3>. QED
      BY <2>2, <3>1, <3>2, ReplySent
  <2>. QED
    BY <2>1, <2>2 DEF RelayTypeOK, CallOK, Side
<1>13. CASE StartParts
  <2>1. buff'["remote"] = buff["remote"]
    BY <1>13 DEF StartParts, RelayTypeOK, BuffersOK, Side
  <2>. QED
    BY <1>13, <2>1, ReplyFrame DEF StartParts
<1>14. ASSUME NEW k \in DOMAIN Parts, SkipPart(k) PROVE ReplyInv'
  BY <1>14, ReplyFrame DEF SkipPart
<1>15. ASSUME NEW k \in DOMAIN Parts, CancelParts(k) PROVE ReplyInv'
  BY <1>15, ReplyFrame DEF CancelParts
<1>16. ASSUME NEW k \in DOMAIN Parts, NEW m \in 0 .. Total, NEW busy \in BOOLEAN, SendPart(k, m, busy)
       PROVE  ReplyInv'
  <2>1. call.val = "client"
    BY <1>16, SendPartCases
  <2>2. UNCHANGED <<toClient, banner>>
    BY <1>16, <2>1 DEF SendPart, Deliver
  <2>3. ASSUME NEW sn \in Nat, NEW w \in BOOLEAN, SendReturns(sn, w) PROVE ReplyInv'
    BY <2>1, <2>2, <2>3, ReplySent
  <2>4. ASSUME NEW lp \in Nat, PartSent(k, lp) PROVE ReplyInv'
    BY <2>2, <2>4, ReplyFrame DEF PartSent
  <2>. QED
    BY <1>16, <2>3, <2>4, SendPartCases
<1>17. ASSUME NEW m \in 0 .. Total, SendRest(m) PROVE ReplyInv'
  <2>1. call.val = "client" /\ \E sn \in Nat : SendReturns(sn, FALSE)
    BY <1>17, SendRestCases
  <2>2. UNCHANGED <<toClient, banner>>
    BY <1>17, <2>1 DEF SendRest, Deliver
  <2>. QED
    BY <2>1, <2>2, ReplySent
<1>18. CASE SendFails
  BY <1>18, ReplyGiveUp DEF SendFails
<1>19. CASE UNCHANGED vars
  BY <1>19, ReplyFrame DEF vars
<1>20. QED
  BY <1>1, <1>2, <1>3, <1>4, <1>5, <1>6, <1>7, <1>8, <1>9, <1>10, <1>11, <1>12, <1>13, <1>14, <1>15, <1>16, <1>17, <1>18, <1>19 DEF RelayNext

LEMMA ReplySeen ==
  ASSUME RelayTypeOK, ReplyInv
  PROVE  ReplyWhole
<1> SUFFICES ASSUME ~banner PROVE toClient \o Left("remote") = [i \in 1 .. answered |-> <<try, i>>]
  BY DEF ReplyWhole
<1>1. PICK d, o, L, left : /\ d = buff["remote"].data /\ o = buff["remote"].off
                           /\ L = Len(toClient) /\ left = Left("remote")
  OBVIOUS
<1>2. PICK all : all = [i \in 1 .. answered |-> <<try, i>>]
  OBVIOUS
<1>3. answered \in Nat /\ try \in Nat /\ toClient \in Seq(Nat \X Nat) /\ L \in Nat
  BY <1>1, Bounds, TryFacts, LenProperties DEF RelayTypeOK, ControlOK
<1>4. all \in Seq(Nat \X Nat) /\ Len(all) = answered /\ \A i \in 1 .. answered : all[i] = <<try, i>>
  BY <1>2, <1>3, IsASeq
<1>5. \A i \in 1 .. L : toClient[i] = <<try, i>>
  BY <1>1 DEF ReplyInv
<1>6. CASE ~Holds("remote")
  <2>1. left = <<>> /\ L = answered
    BY <1>1, <1>3, <1>6 DEF Left, ReplyInv
  <2>2. toClient \o left = toClient
    BY <2>1, <1>3, ConcatEmptySeq
  <2>3. toClient = all
    BY <1>1, <1>3, <1>4, <1>5, <2>1, SeqEqual
  <2>. QED
    BY <2>2, <2>3, <1>1, <1>2
<1>7. CASE Holds("remote")
  <2>1. d \in Seq(Nat \X Nat) /\ Len(d) \in Nat /\ o \in Nat /\ o <= Len(d)
    BY <1>1, <1>7, LenProperties DEF RelayTypeOK, BuffersOK, BufferOK, Holds
  <2>2. Len(d) - o \in Nat /\ o + (Len(d) - o) = Len(d)
    BY <2>1
  <2>3. left = Slice(d, o, o + (Len(d) - o))
    BY <1>1, <1>7, <2>2 DEF Left
  <2>4. /\ left \in Seq(Nat \X Nat) /\ Len(left) = Len(d) - o
        /\ \A i \in 1 .. Len(d) - o : left[i] = d[o + i]
    <3>1. PICK m \in Nat : m = Len(d) - o
      BY <2>2
    <3>2. o + m <= Len(d)
      BY <3>1, <2>1
    <3>3. /\ Slice(d, o, o + m) \in Seq(Nat \X Nat) /\ Len(Slice(d, o, o + m)) = m
          /\ \A i \in 1 .. m : Slice(d, o, o + m)[i] = d[o + i]
      BY <2>1, <3>2, SliceAt
    <3>. QED
      BY <3>1, <3>3, <2>3, Zenon
  <2>5. L + (Len(d) - o) = answered
    BY <1>1, <1>7 DEF ReplyInv, Whole
  <2>a. \A i \in 1 .. Len(d) : d[i] = <<try, answered - Len(d) + i>>
    BY <1>1, <1>7 DEF ReplyInv
  <2>6. toClient \o left \in Seq(Nat \X Nat) /\ Len(toClient \o left) = answered
    BY <1>1, <1>3, <2>4, <2>5, ConcatProperties
  <2>7. ASSUME NEW i \in 1 .. answered PROVE (toClient \o left)[i] = all[i]
    <3>0. i \in 1 .. Len(toClient) + Len(left) /\ i \in Nat
      BY <1>1, <1>3, <2>1, <2>4, <2>5
    <3>1. CASE i <= L
      <4>1. (toClient \o left)[i] = toClient[i] /\ i \in 1 .. L
        BY <3>0, <3>1, <1>1, <1>3, <2>4, ConcatAt
      <4>. QED
        BY <4>1, <1>4, <1>5
    <3>2. CASE i > L
      <4>1. (toClient \o left)[i] = left[i - L] /\ i - L \in 1 .. Len(d) - o
        BY <3>0, <3>2, <1>1, <1>3, <2>4, ConcatAt
      <4>2. o + (i - L) \in 1 .. Len(d) /\ answered - Len(d) + (o + (i - L)) = i
        <5>1. i - L >= 1 /\ i - L <= Len(d) - o
          BY <4>1, <3>0, <1>3, <2>1
        <5>2. o + (i - L) >= 1 /\ o + (i - L) <= Len(d)
          BY <5>1, <3>0, <1>3, <2>1
        <5>0. i \in Nat /\ answered \in Nat /\ L \in Nat /\ o \in Nat /\ Len(d) \in Nat
          BY <3>0, <1>3, <2>1
        <5>3. answered - Len(d) + (o + (i - L)) = i
          BY <5>0, <2>5
        <5>. QED
          BY <5>2, <5>3, <3>0, <1>3, <2>1
      <4>3. left[i - L] = d[o + (i - L)]
        BY <4>1, <2>4
      <4>4. d[o + (i - L)] = <<try, i>>
        BY <4>2, <2>a
      <4>. QED
        BY <4>1, <4>3, <4>4, <1>4
    <3>. QED
      BY <3>0, <3>1, <3>2, <1>3
  <2>8. toClient \o left = all
    BY <1>4, <2>6, <2>7, SeqEqual
  <2>. QED
    BY <2>8, <1>1, <1>2
<1>. QED
  BY <1>6, <1>7
-----------------------------------------------------------------------------
(* The request.                                                             *)

\* What a server still gets of the client's buffer: while parts are sent, what lies
\* behind the last of them.
ToSend ==
  IF ~Holds("client") THEN <<>>
  ELSE Slice(buff["client"].data, IF call.at = "parts" THEN call.lp ELSE buff["client"].off, Total)

\* What is kept is all of the request so far; tamp() only sees a buffer of which nothing
\* was sent; and the length on_tunnel took before the send is never too long.
KeptInv ==
  /\ sqBuff # None => /\ AutoReconnect /\ taken > 0
                      /\ sqBuff.off = 0 /\ Len(sqBuff.data) = SentBy(taken)
                      /\ \A b \in 1 .. SentBy(taken) : sqBuff.data[b] = b
  /\ Holds("client") => taken > 0
  /\ Holds("client") /\ roundSent["client"] = 0 => buff["client"].off = 0
  /\ call.at = "send" /\ call.loop => buff[call.val].off = 0
  /\ call.at = "parts" => call.n <= Whole("client")

\* What the server has and what it still gets are the request, at every point of a callback.
StreamInv ==
  phase # "gone" /\ ~blocked /\ ~repeated /\ ~Paired => InOrder(toServer \o ToSend, SentBy(taken))

LEMMA ZeroIsByte == 0 \in Byte /\ Byte \subseteq Nat
  BY RequestFacts, EndsFacts DEF Byte

\* Adjacent slices.
LEMMA SliceJoin ==
  ASSUME NEW S, NEW s \in Seq(S), NEW a \in Nat, NEW b \in Nat, NEW c \in Nat,
         a <= b, b <= c, c <= Len(s)
  PROVE  Slice(s, a, b) \o Slice(s, b, c) = Slice(s, a, c)
<1>0. Len(s) \in Nat /\ b <= Len(s) /\ a <= c
  BY LenProperties
<1>1. PICK l, r, w : l = Slice(s, a, b) /\ r = Slice(s, b, c) /\ w = Slice(s, a, c)
  OBVIOUS
<1>2. l \in Seq(S) /\ Len(l) = b - a /\ \A i \in 1 .. b - a : l[i] = s[a + i]
  BY <1>0, <1>1, SliceFacts
<1>3. r \in Seq(S) /\ Len(r) = c - b /\ \A i \in 1 .. c - b : r[i] = s[b + i]
  BY <1>0, <1>1, SliceFacts
<1>4. w \in Seq(S) /\ Len(w) = c - a /\ \A i \in 1 .. c - a : w[i] = s[a + i]
  BY <1>0, <1>1, SliceFacts
<1>5. l \o r \in Seq(S) /\ Len(l \o r) = Len(w)
  <2>1. l \o r \in Seq(S) /\ Len(l \o r) = Len(l) + Len(r)
    BY <1>2, <1>3, ConcatProperties
  <2>2. Len(l) + Len(r) = Len(w)
    BY <1>2, <1>3, <1>4
  <2>. QED
    BY <2>1, <2>2
<1>6. ASSUME NEW i \in 1 .. c - a PROVE (l \o r)[i] = w[i]
  <2>1. i \in 1 .. Len(l) + Len(r)
    BY <1>2, <1>3
  <2>2. /\ i <= b - a => (l \o r)[i] = l[i] /\ i \in 1 .. b - a
        /\ i > b - a => (l \o r)[i] = r[i - (b - a)] /\ i - (b - a) \in 1 .. c - b
    BY <2>1, <1>2, <1>3, ConcatAt
  <2>3. CASE i <= b - a
    BY <2>2, <2>3, <1>2, <1>4
  <2>4. CASE i > b - a
    <3>1. (l \o r)[i] = s[b + (i - (b - a))]
      BY <2>2, <2>4, <1>3
    <3>2. b + (i - (b - a)) = a + i
      OBVIOUS
    <3>. QED
      BY <3>1, <3>2, <1>4
  <2>5. i <= b - a \/ i > b - a
    OBVIOUS
  <2>. QED
    BY <2>3, <2>4, <2>5
<1>7. \A i \in 1 .. Len(l \o r) : (l \o r)[i] = w[i]
  BY <1>4, <1>5, <1>6
<1>8. l \o r = w
  BY <1>4, <1>5, <1>7, SeqEqual
<1>. QED
  BY <1>1, <1>8

\* Bytes that move from the buffer to the server.
LEMMA Moves ==
  ASSUME NEW S, NEW t \in Seq(S), NEW s \in Seq(S), NEW a \in Nat, NEW b \in Nat, NEW c \in Nat,
         a <= b, b <= c, c <= Len(s)
  PROVE  (t \o Slice(s, a, b)) \o Slice(s, b, c) = t \o Slice(s, a, c)
<1>0. Len(s) \in Nat /\ b <= Len(s)
  BY LenProperties
<1>1. Slice(s, a, b) \in Seq(S) /\ Slice(s, b, c) \in Seq(S)
  BY <1>0, SliceFacts
<1>2. (t \o Slice(s, a, b)) \o Slice(s, b, c) = t \o (Slice(s, a, b) \o Slice(s, b, c))
  BY <1>1, ConcatAssociative
<1>. QED
  BY <1>2, SliceJoin

\* InOrder, byte by byte.
Bytewise(s, n) ==
  /\ \A i \in 1 .. Len(s) : s[i] # 0 => s[i] \in 1 .. n
  /\ \A v \in 1 .. n : \E i \in 1 .. Len(s) : s[i] = v
  /\ \A i, j \in 1 .. Len(s) : s[i] # 0 /\ s[j] # 0 /\ i < j => s[i] < s[j]

LEMMA InOrderIs ==
  ASSUME NEW s \in Seq(Nat), NEW n \in Nat
  PROVE  InOrder(s, n) <=> Bytewise(s, n)
<1> DEFINE A == {i \in DOMAIN s : s[i] # 0}
<1>1. DOMAIN s = 1 .. Len(s)
  BY LenProperties
<1>2. \A i : i \in A <=> i \in 1 .. Len(s) /\ s[i] # 0
  BY <1>1
<1>3. InOrder(s, n) <=> {s[i] : i \in A} = 1 .. n /\ \A i, j \in A : i < j => s[i] < s[j]
  BY DEF InOrder
<1> HIDE DEF A
<1>4. (\A i, j \in A : i < j => s[i] < s[j])
        <=> \A i, j \in 1 .. Len(s) : s[i] # 0 /\ s[j] # 0 /\ i < j => s[i] < s[j]
  BY <1>2
<1>5. ({s[i] : i \in A} = 1 .. n)
        <=> /\ \A i \in 1 .. Len(s) : s[i] # 0 => s[i] \in 1 .. n
            /\ \A v \in 1 .. n : \E i \in 1 .. Len(s) : s[i] = v
  <2>1. ({s[i] : i \in A} = 1 .. n) <=> /\ \A i \in A : s[i] \in 1 .. n
                                        /\ \A v \in 1 .. n : \E i \in A : s[i] = v
    BY Zenon
  <2>2. (\A i \in A : s[i] \in 1 .. n) <=> \A i \in 1 .. Len(s) : s[i] # 0 => s[i] \in 1 .. n
    BY <1>2
  <2>3. \A v \in 1 .. n : (\E i \in A : s[i] = v) <=> \E i \in 1 .. Len(s) : s[i] = v
    BY <1>2
  <2>. QED
    BY <2>1, <2>2, <2>3
<1>. QED
  BY <1>3, <1>4, <1>5 DEF Bytewise

\* The bytes that follow the request as it was sent.
LEMMA InOrderGrows ==
  ASSUME NEW s \in Seq(Nat), NEW t \in Seq(Nat), NEW n \in Nat, NEW m \in Nat, n <= m, InOrder(s, n),
         Len(t) = m - n, \A i \in 1 .. m - n : t[i] = n + i
  PROVE  InOrder(s \o t, m)
<1>1. PICK w, L, K : w = s \o t /\ L = Len(s) /\ K = Len(w)
  OBVIOUS
<1>2. w \in Seq(Nat) /\ L \in Nat /\ K = L + (m - n)
  <2>1. s \o t \in Seq(Nat) /\ Len(s \o t) = Len(s) + Len(t)
    BY ConcatProperties
  <2>. QED
    BY <2>1, <1>1, LenProperties
<1>3. \A i \in 1 .. K : IF i <= L THEN i \in 1 .. L /\ w[i] = s[i]
                        ELSE i - L \in 1 .. m - n /\ w[i] = n + (i - L)
  <2>1. ASSUME NEW i \in 1 .. K
        PROVE  IF i <= L THEN i \in 1 .. L /\ w[i] = s[i]
               ELSE i - L \in 1 .. m - n /\ w[i] = n + (i - L)
    <3>1. i \in 1 .. Len(s) + Len(t)
      BY <1>1, <1>2
    <3>2. /\ i <= L => i \in 1 .. L /\ w[i] = s[i]
          /\ i > L => i - L \in 1 .. m - n /\ w[i] = t[i - L]
      BY <3>1, <1>1, ConcatAt
    <3>3. i \in Nat
      BY <3>1, <1>1, <1>2
    <3>. QED
      BY <3>2, <3>3, <1>2
  <2>. QED
    BY <2>1
<1>4. /\ \A i \in 1 .. L : s[i] # 0 => s[i] \in 1 .. n
      /\ \A v \in 1 .. n : \E i \in 1 .. L : s[i] = v
      /\ \A i, j \in 1 .. L : s[i] # 0 /\ s[j] # 0 /\ i < j => s[i] < s[j]
  BY <1>1, InOrderIs DEF Bytewise
<1>5. ASSUME NEW i \in 1 .. K, w[i] # 0
      PROVE  w[i] \in 1 .. m /\ (i <= L => w[i] <= n) /\ (i > L => w[i] > n)
  <2>1. i \in Nat
    BY <1>2
  <2>2. CASE i <= L
    BY <1>2, <1>3, <1>4, <1>5, <2>1, <2>2
  <2>3. CASE i > L
    <3>1. i - L \in 1 .. m - n /\ w[i] = n + (i - L)
      BY <1>2, <1>3, <2>1, <2>3
    <3>. QED
      BY <3>1, <2>3, <2>1, <1>2
  <2>. QED
    BY <1>2, <2>1, <2>2, <2>3
<1>6. ASSUME NEW v \in 1 .. m PROVE \E i \in 1 .. K : w[i] = v
  <2>1. CASE v <= n
    <3>1. PICK i \in 1 .. L : s[i] = v
      BY <1>4, <2>1
    <3>2. i \in 1 .. K /\ i <= L
      BY <1>2
    <3>3. w[i] = v
      BY <1>3, <3>1, <3>2
    <3>. QED
      BY <3>2, <3>3
  <2>2. CASE v > n
    <3>1. PICK i \in Nat : i = L + (v - n)
      BY <1>2, <2>2
    <3>2. i \in 1 .. K /\ ~(i <= L) /\ n + (i - L) = v
      BY <1>2, <2>2, <3>1
    <3>3. w[i] = v
      BY <1>3, <3>2
    <3>. QED
      BY <3>2, <3>3
  <2>. QED
    BY <2>1, <2>2
<1>7. ASSUME NEW i \in 1 .. K, NEW j \in 1 .. K, w[i] # 0, w[j] # 0, i < j PROVE w[i] < w[j]
  <2>0. i \in Nat /\ j \in Nat
    BY <1>2
  <2>1. CASE j <= L
    <3>1. i <= L
      BY <2>0, <2>1, <1>2, <1>7
    <3>2. i \in 1 .. L /\ j \in 1 .. L /\ w[i] = s[i] /\ w[j] = s[j]
      BY <3>1, <2>1, <1>3
    <3>. QED
      BY <3>2, <1>4, <1>7
  <2>2. CASE i <= L /\ j > L
    <3>1. w[i] <= n /\ w[j] > n /\ w[i] \in 1 .. m /\ w[j] \in 1 .. m
      BY <2>2, <1>5, <1>7
    <3>. QED
      BY <3>1
  <2>3. CASE i > L
    <3>1. ~(i <= L) /\ ~(j <= L)
      BY <2>0, <2>3, <1>2, <1>7
    <3>2. w[i] = n + (i - L) /\ w[j] = n + (j - L)
      BY <3>1, <1>3
    <3>. QED
      BY <3>2, <2>0, <1>2, <1>7
  <2>. QED
    BY <2>0, <2>1, <2>2, <2>3, <1>2
<1>8. Bytewise(w, m)
  BY <1>1, <1>5, <1>6, <1>7 DEF Bytewise
<1>. QED
  BY <1>1, <1>2, <1>8, InOrderIs

\* A byte tamp() puts in changes nothing.
LEMMA InOrderTamped ==
  ASSUME NEW u \in Seq(Nat), NEW w \in Seq(Nat), NEW n \in Nat, NEW h \in Nat,
         InOrder(u, n), h <= Len(u), Len(w) = Len(u) + 1,
         \A i \in 1 .. h : w[i] = u[i],
         w[h + 1] = 0,
         \A i \in h + 1 .. Len(u) : w[i + 1] = u[i]
  PROVE  InOrder(w, n)
<1> DEFINE From(i) == IF i <= h THEN i ELSE i - 1
<1>1. PICK L, K : L = Len(u) /\ K = Len(w)
  OBVIOUS
<1>2. L \in Nat /\ K = L + 1 /\ h <= L
  BY <1>1, LenProperties
<1>3. /\ \A i \in 1 .. L : u[i] # 0 => u[i] \in 1 .. n
      /\ \A v \in 1 .. n : \E i \in 1 .. L : u[i] = v
      /\ \A i, j \in 1 .. L : u[i] # 0 /\ u[j] # 0 /\ i < j => u[i] < u[j]
  BY <1>1, InOrderIs DEF Bytewise
<1>4. ASSUME NEW i \in 1 .. K, w[i] # 0
      PROVE  i \in Nat /\ i # h + 1 /\ From(i) \in 1 .. L /\ w[i] = u[From(i)]
  <2>1. i \in Nat /\ i # h + 1 /\ i <= L + 1
    BY <1>2, <1>4
  <2>2. CASE i <= h
    BY <2>1, <2>2, <1>2
  <2>3. CASE i > h + 1
    <3>1. PICK k \in Nat : k = i - 1
      BY <2>1, <2>3
    <3>2. k \in h + 1 .. Len(u) /\ k + 1 = i /\ ~(i <= h) /\ k \in 1 .. L
      BY <2>1, <2>3, <3>1, <1>1, <1>2
    <3>3. w[k + 1] = u[k]
      BY <3>2
    <3>. QED
      BY <2>1, <3>1, <3>2, <3>3
  <2>. QED
    BY <2>1, <2>2, <2>3
<1> HIDE DEF From
<1>5. \A i, j \in Nat : i # h + 1 /\ j # h + 1 /\ i < j => From(i) < From(j)
  BY DEF From
<1>6. ASSUME NEW v \in 1 .. n PROVE \E i \in 1 .. K : w[i] = v
  <2>1. PICK i \in 1 .. L : u[i] = v
    BY <1>3
  <2>2. CASE i <= h
    BY <2>1, <2>2, <1>2
  <2>3. CASE i > h
    <3>1. i \in h + 1 .. Len(u) /\ i + 1 \in 1 .. K
      BY <2>3, <1>1, <1>2
    <3>. QED
      BY <2>1, <3>1
  <2>. QED
    BY <2>2, <2>3, <1>2
<1>7. \A i \in 1 .. K : w[i] # 0 => w[i] \in 1 .. n
  BY <1>3, <1>4
<1>8. ASSUME NEW i \in 1 .. K, NEW j \in 1 .. K, w[i] # 0, w[j] # 0, i < j PROVE w[i] < w[j]
  <2>1. From(i) < From(j)
    BY <1>4, <1>5, <1>8
  <2>2. From(i) \in 1 .. L /\ From(j) \in 1 .. L /\ w[i] = u[From(i)] /\ w[j] = u[From(j)]
    BY <1>4, <1>8
  <2>. QED
    BY <2>1, <2>2, <1>3, <1>8
<1>9. Bytewise(w, n)
  BY <1>1, <1>6, <1>7, <1>8 DEF Bytewise
<1>. QED
  BY <1>9, InOrderIs

LEMMA NothingInOrder == InOrder(<<>>, 0) /\ InOrder(<<>> \o <<>>, 0) /\ SentBy(0) = 0 /\ <<>> \in Seq(Nat)
<1>1. <<>> \in Seq(Nat) /\ Len(<<>>) = 0 /\ <<>> \o <<>> = <<>>
  BY EmptySeq, ConcatEmptySeq
<1>2. Bytewise(<<>>, 0)
  BY <1>1 DEF Bytewise
<1>. QED
  BY <1>1, <1>2, InOrderIs DEF SentBy

\* What RelayTypeOK says of the client's buffer and of the server's stream.
LEMMA ClientFacts ==
  ASSUME RelayTypeOK
  PROVE  /\ toServer \in Seq(Nat) /\ buff["client"].data \in Seq(Nat) /\ Total \in Nat
         /\ Holds("client") => buff["client"].off \in Nat /\ buff["client"].off <= Total
         /\ taken \in 0 .. Len(Ends) /\ SentBy(taken) \in Nat
<1>1. buff["client"].data \in Seq(Byte) /\ toServer \in Seq(Byte)
  BY DEF RelayTypeOK, BuffersOK, BufferOK
<1>2. Seq(Byte) \subseteq Seq(Nat)
  BY ZeroIsByte, SeqMonotonic
<1>3. Total \in Nat
  BY <1>1, LenProperties DEF Total
<1>4. Holds("client") => buff["client"].off \in Nat /\ buff["client"].off <= Total
  BY <1>3 DEF RelayTypeOK, BuffersOK, BufferOK, Holds, Total
<1>5. taken \in 0 .. Len(Ends)
  BY DEF RelayTypeOK, ControlOK
<1>6. SentBy(taken) \in Nat
  BY <1>5, RequestFacts
<1>. QED
  BY <1>1, <1>2, <1>3, <1>4, <1>5, <1>6

LEMMA KeptInit == RelayInit => KeptInv /\ StreamInv
<1> SUFFICES ASSUME RelayInit PROVE KeptInv /\ StreamInv
  OBVIOUS
<1>1. sqBuff = None /\ ~Holds("client") /\ call.at = "poll" /\ toServer = <<>> /\ taken = 0
  BY DEF RelayInit, Holds, Side, Idle
<1>2. KeptInv
  BY <1>1 DEF KeptInv
<1>3. StreamInv
  BY <1>1, NothingInOrder DEF StreamInv, ToSend
<1>. QED
  BY <1>2, <1>3

LEMMA KeptFrame ==
  ASSUME KeptInv, buff'["client"] = buff["client"], roundSent'["client"] = roundSent["client"],
         UNCHANGED <<sqBuff, taken>>,
         call'.at = "send" => ~call'.loop,
         call'.at = "parts" => call.at = "parts" /\ call'.n = call.n
  PROVE  KeptInv'
  BY DEF KeptInv, Holds, Whole

LEMMA StreamFrame ==
  ASSUME StreamInv, UNCHANGED <<toServer, taken, try>>, ToSend' = ToSend, phase # "gone",
         blocked => blocked', repeated => repeated'
  PROVE  StreamInv'
  BY DEF StreamInv, Paired, Parts

LEMMA SendFrame ==
  ASSUME buff'["client"] = buff["client"],
         (call'.at = "parts") = (call.at = "parts"), call.at = "parts" => call'.lp = call.lp
  PROVE  ToSend' = ToSend
  BY DEF ToSend, Holds, Total

LEMMA GiveUpKept ==
  ASSUME KeptInv, GiveUp
  PROVE  KeptInv' /\ StreamInv'
<1>1. KeptInv'
  BY KeptFrame DEF GiveUp, Drop, rounds, streams, Idle
<1>2. StreamInv'
  BY DEF GiveUp, Drop, StreamInv
<1>. QED
  BY <1>1, <1>2

\* A slice, its length named.
LEMMA SliceIs ==
  ASSUME NEW S, NEW s \in Seq(S), NEW from \in Nat, NEW to \in Nat, NEW n \in Nat,
         from + n = to, to <= Len(s)
  PROVE  /\ Slice(s, from, to) \in Seq(S) /\ Len(Slice(s, from, to)) = n
         /\ \A i \in 1 .. n : Slice(s, from, to)[i] = s[from + i]
<1>1. from <= to /\ to - from = n
  OBVIOUS
<1>2. PICK t : t = Slice(s, from, to)
  OBVIOUS
<1>3. t \in Seq(S) /\ Len(t) = to - from /\ \A i \in 1 .. to - from : t[i] = s[from + i]
  BY <1>1, <1>2, SliceFacts
<1>4. t \in Seq(S) /\ Len(t) = n /\ \A i \in 1 .. n : t[i] = s[from + i]
  BY <1>1, <1>3
<1>. QED
  BY <1>2, <1>4

LEMMA SliceNone ==
  ASSUME NEW S, NEW s \in Seq(S), NEW n \in Nat, n <= Len(s)
  PROVE  Slice(s, n, n) = <<>>
<1>1. PICK z \in Nat : z = 0
  OBVIOUS
<1>2. n + z = n
  BY <1>1
<1>3. PICK t : t = Slice(s, n, n)
  OBVIOUS
<1>4. t \in Seq(S) /\ Len(t) = z
  BY <1>2, <1>3, SliceIs
<1>5. t = <<>>
  BY <1>1, <1>4, EmptySeq
<1>. QED
  BY <1>3, <1>5

\* A request that is sent from its first byte on.
LEMMA WholeSlice ==
  ASSUME NEW d \in Seq(Nat), NEW n \in Nat, Len(d) = n, \A b \in 1 .. n : d[b] = b
  PROVE  InOrder(<<>> \o Slice(d, 0, n), n)
<1>1. PICK z \in Nat : z = 0
  OBVIOUS
<1>2. PICK t : t = Slice(d, z, n)
  OBVIOUS
<1>3. z <= n /\ n <= Len(d) /\ z + n = n /\ n - z = n
  BY <1>1
<1>4. t \in Seq(Nat) /\ Len(t) = n /\ \A b \in 1 .. n : t[b] = d[z + b]
  <2>1. /\ Slice(d, z, n) \in Seq(Nat) /\ Len(Slice(d, z, n)) = n
        /\ \A b \in 1 .. n : Slice(d, z, n)[b] = d[z + b]
    BY <1>3, SliceIs
  <2>. QED
    BY <2>1, <1>2
<1>5. Len(t) = n - z /\ \A b \in 1 .. n - z : t[b] = z + b
  <2>1. ASSUME NEW b \in 1 .. n PROVE t[b] = z + b
    <3>1. z + b = b
      BY <1>1
    <3>. QED
      BY <3>1, <1>4
  <2>. QED
    BY <2>1, <1>3, <1>4
<1>6. InOrder(<<>>, z) /\ <<>> \in Seq(Nat)
  BY <1>1, NothingInOrder
<1>7. InOrder(<<>> \o t, n)
  BY <1>3, <1>4, <1>5, <1>6, InOrderGrows
<1>. QED
  BY <1>1, <1>2, <1>7

LEMMA ReconnectKept ==
  ASSUME RelayTypeOK, KeptInv, Reconnect
  PROVE  KeptInv' /\ StreamInv'
<1>1. /\ buff'["client"] = Replay /\ roundSent'["client"] = 0 /\ call' = Idle /\ Idle.at = "poll"
      /\ toServer' = <<>> /\ UNCHANGED <<sqBuff, taken>>
  BY DEF Reconnect, Idle, Side
<1>2. CASE sqBuff # None
  <2>1. buff'["client"] = sqBuff
    BY <1>1, <1>2 DEF Replay
  <2>2. /\ taken > 0 /\ sqBuff.off = 0 /\ Len(sqBuff.data) = SentBy(taken)
        /\ \A b \in 1 .. SentBy(taken) : sqBuff.data[b] = b
    BY <1>2 DEF KeptInv
  <2>3. KeptInv'
    BY <1>1, <1>2, <2>1, <2>2 DEF KeptInv
  <2>4. Holds("client")' /\ Total' = SentBy(taken)
    BY <1>2, <2>1, <2>2 DEF Holds, Total
  <2>5. ToSend' = Slice(sqBuff.data, 0, SentBy(taken))
    BY <1>1, <2>1, <2>2, <2>4 DEF ToSend
  <2>6. sqBuff.data \in Seq(Byte) /\ Seq(Byte) \subseteq Seq(Nat)
    BY ZeroIsByte, SeqMonotonic DEF RelayTypeOK, BuffersOK, BufferOK
  <2>7. InOrder(<<>> \o Slice(sqBuff.data, 0, SentBy(taken)), SentBy(taken))
    BY <2>2, <2>6, ClientFacts, WholeSlice
  <2>8. SentBy(taken') = SentBy(taken)
    BY <1>1
  <2>9. StreamInv'
    BY <1>1, <2>5, <2>7, <2>8 DEF StreamInv
  <2>. QED
    BY <2>3, <2>9
<1>3. CASE sqBuff = None
  <2>1. taken = 0
    BY <1>3 DEF Reconnect, CanReconnect, BeforeRequest
  <2>2. buff'["client"] = buff["client"] /\ ~Holds("client")
    BY <1>1, <1>3, <2>1 DEF Replay, KeptInv
  <2>3. ~Holds("client")'
    BY <2>2 DEF Holds
  <2>4. KeptInv'
    BY <1>1, <1>3, <2>3 DEF KeptInv
  <2>5. ToSend' = <<>>
    BY <2>3 DEF ToSend
  <2>6. StreamInv'
    BY <1>1, <2>1, <2>5, NothingInOrder DEF StreamInv
  <2>. QED
    BY <2>4, <2>6
<1>. QED
  BY <1>2, <1>3

LEMMA SendReturnsKept ==
  ASSUME RelayTypeOK, KeptInv, Holds(call.val), NEW sn \in Nat, NEW w \in BOOLEAN, SendReturns(sn, w)
  PROVE  KeptInv'
<1>1. /\ call.val \in Side /\ UNCHANGED <<sqBuff, taken>> /\ call'.at \in {"poll", "recv"}
  <2>1. call' \in {Idle, Receiving(call.val)}
    BY DEF SendReturns
  <2>2. Idle.at = "poll" /\ Receiving(call.val).at = "recv"
    BY DEF Idle, Receiving
  <2>. QED
    BY <2>1, <2>2 DEF SendReturns, RelayTypeOK, CallOK
<1>2. roundSent' = [roundSent EXCEPT ![call.val] = @ + sn] /\ roundSent \in [Side -> Nat]
  BY DEF SendReturns, RelayTypeOK, ControlOK
<1>3. CASE ~Done(sn, w)
  <2>1. buff' = [buff EXCEPT ![call.val].off = @ + sn]
    BY <1>3 DEF SendReturns
  <2>2. CASE call.val = "client"
    <3>1. buff["client"].off \in Nat /\ buff["client"] \in [data : Seq(Byte), off : Int]
      BY <2>2, ClientFacts DEF RelayTypeOK, BuffersOK, BufferOK
    <3>2. buff'["client"].off = buff["client"].off + sn
      BY <2>1, <2>2, <3>1 DEF RelayTypeOK, BuffersOK, Side
    <3>3. roundSent'["client"] = roundSent["client"] + sn /\ roundSent["client"] \in Nat
      BY <1>2, <2>2 DEF Side
    <3>4. roundSent'["client"] = 0 => roundSent["client"] = 0 /\ sn = 0
      BY <3>3
    <3>5. taken > 0 /\ (roundSent["client"] = 0 => buff["client"].off = 0)
      BY <2>2 DEF KeptInv
    <3>. QED
      BY <1>1, <3>1, <3>2, <3>4, <3>5 DEF KeptInv
  <2>3. CASE call.val = "remote"
    <3>1. buff'["client"] = buff["client"] /\ roundSent'["client"] = roundSent["client"]
      BY <1>2, <2>1, <2>3 DEF RelayTypeOK, BuffersOK, Side
    <3>. QED
      BY <1>1, <3>1, KeptFrame
  <2>. QED
    BY <1>1, <2>2, <2>3 DEF Side
<1>4. CASE Done(sn, w)
  <2>1. buff' = [buff EXCEPT ![call.val] = None]
    BY <1>4 DEF SendReturns
  <2>2. CASE call.val = "client"
    <3>1. ~Holds("client")'
      BY <2>1, <2>2 DEF RelayTypeOK, BuffersOK, Side, Holds
    <3>. QED
      BY <1>1, <3>1 DEF KeptInv
  <2>3. CASE call.val = "remote"
    <3>1. buff'["client"] = buff["client"] /\ roundSent'["client"] = roundSent["client"]
      BY <1>2, <2>1, <2>3 DEF RelayTypeOK, BuffersOK, Side
    <3>. QED
      BY <1>1, <3>1, KeptFrame
  <2>. QED
    BY <1>1, <2>2, <2>3 DEF Side
<1>. QED
  BY <1>3, <1>4

\* Where the client's buffer is sent from.
Front == IF call.at = "parts" THEN call.lp ELSE buff["client"].off

\* What was taken by the kernel and what is left are what was left before.
LEMMA Onward ==
  ASSUME RelayTypeOK, CallInv, Holds("client"), call.val = "client", NEW to \in Nat, Front <= to, to <= Total,
         Deliver(Front, to)
  PROVE  toServer' \in Seq(Nat) /\ toServer' \o Slice(buff["client"].data, to, Total) = toServer \o ToSend
<1>1. PICK d, f, n : d = buff["client"].data /\ f = Front /\ n = Total
  OBVIOUS
<1>2. d \in Seq(Nat) /\ f \in Nat /\ n \in Nat /\ Len(d) = n /\ f <= to /\ to <= n /\ toServer \in Seq(Nat)
  BY <1>1, ClientFacts DEF Front, RelayTypeOK, CallOK, Total
<1>3. toServer' = toServer \o Slice(d, f, to)
  BY <1>1 DEF Deliver
<1>4. ToSend = Slice(d, f, n)
  BY <1>1 DEF ToSend, Front
<1>5. (toServer \o Slice(d, f, to)) \o Slice(d, to, n) = toServer \o Slice(d, f, n)
  BY <1>2, Moves
<1>6. Slice(d, f, to) \in Seq(Nat)
  BY <1>2, SliceFacts
<1>7. toServer \o Slice(d, f, to) \in Seq(Nat)
  BY <1>2, <1>6, ConcatProperties
<1>. QED
  BY <1>1, <1>3, <1>4, <1>5, <1>7

\* A send to the server that is over, or waits for room.
LEMMA SendReturnsStream ==
  ASSUME RelayTypeOK, CallInv, StreamInv, Holds("client"), call.val = "client",
         NEW to \in Nat, buff["client"].off <= to, Front <= to, to <= Total, Deliver(Front, to),
         NEW w \in BOOLEAN, SendReturns(to - buff["client"].off, w),
         Done(to - buff["client"].off, w) => to = Total,
         blocked => blocked', repeated => repeated'
  PROVE  StreamInv'
<1>1. PICK sn \in Nat : sn = to - buff["client"].off /\ buff["client"].off + sn = to
  <2>1. buff["client"].off \in Nat
    BY ClientFacts
  <2>2. to - buff["client"].off \in Nat /\ buff["client"].off + (to - buff["client"].off) = to
    BY <2>1
  <2>. QED
    BY <2>2
<1>2. toServer' \in Seq(Nat) /\ toServer' \o Slice(buff["client"].data, to, Total) = toServer \o ToSend
  BY Onward
<1>3. UNCHANGED <<phase, try, taken>> /\ SendReturns(sn, w)
  BY <1>1 DEF SendReturns
<1>4. call'.at # "parts"
  <2>1. call' \in {Idle, Receiving(call.val)}
    BY <1>3 DEF SendReturns
  <2>2. Idle.at = "poll" /\ Receiving(call.val).at = "recv"
    BY DEF Idle, Receiving
  <2>. QED
    BY <2>1, <2>2
<1>5. toServer' \o ToSend' = toServer \o ToSend
  <2>1. CASE ~Done(sn, w)
    <3>1. buff' = [buff EXCEPT !["client"].off = @ + sn]
      BY <1>3, <2>1 DEF SendReturns
    <3>2. buff["client"] \in [data : Seq(Byte), off : Int]
      BY DEF RelayTypeOK, BuffersOK, BufferOK
    <3>3. buff'["client"].off = to /\ buff'["client"].data = buff["client"].data
      BY <1>1, <3>1, <3>2 DEF RelayTypeOK, BuffersOK, Side
    <3>4. Holds("client")' /\ Total' = Total
      BY <3>3 DEF Holds, Total, None
    <3>5. ToSend' = Slice(buff["client"].data, to, Total)
      BY <1>4, <3>3, <3>4 DEF ToSend
    <3>. QED
      BY <1>2, <3>5
  <2>2. CASE Done(sn, w)
    <3>1. to = Total
      BY <1>1, <2>2
    <3>2. buff'["client"] = None
      BY <1>3, <2>2 DEF SendReturns, RelayTypeOK, BuffersOK, Side
    <3>3. ToSend' = <<>>
      BY <3>2 DEF ToSend, Holds
    <3>4. Slice(buff["client"].data, Total, Total) = <<>>
      <4>1. Total \in Nat /\ Total <= Len(buff["client"].data) /\ buff["client"].data \in Seq(Nat)
        BY ClientFacts DEF Total
      <4>. QED
        BY <4>1, SliceNone
    <3>. QED
      BY <1>2, <3>1, <3>3, <3>4
  <2>. QED
    BY <2>1, <2>2
<1>. QED
  BY <1>3, <1>5 DEF StreamInv, Paired, Parts

LEMMA SliceWhole ==
  ASSUME NEW S, NEW s \in Seq(S), NEW n \in Nat, Len(s) = n
  PROVE  Slice(s, 0, n) = s
<1>1. PICK z \in Nat : z = 0
  OBVIOUS
<1>2. PICK t : t = Slice(s, z, n)
  OBVIOUS
<1>3. z + n = n /\ n <= Len(s)
  BY <1>1
<1>4. t \in Seq(S) /\ Len(t) = n /\ \A i \in 1 .. n : t[i] = s[z + i]
  <2>1. /\ Slice(s, z, n) \in Seq(S) /\ Len(Slice(s, z, n)) = n
        /\ \A i \in 1 .. n : Slice(s, z, n)[i] = s[z + i]
    BY <1>3, SliceIs
  <2>. QED
    BY <2>1, <1>2
<1>5. \A i \in 1 .. n : z + i = i
  BY <1>1
<1>6. t = s
  BY <1>4, <1>5, SeqEqual
<1>. QED
  BY <1>1, <1>2, <1>6

\* A concatenation, part by part.
LEMMA Joined ==
  ASSUME NEW S, NEW s \in Seq(S), NEW t \in Seq(S)
  PROVE  /\ s \o t \in Seq(S) /\ Len(s \o t) = Len(s) + Len(t)
         /\ \A i \in 1 .. Len(s) : (s \o t)[i] = s[i]
         /\ \A i \in 1 .. Len(t) : (s \o t)[Len(s) + i] = t[i]
<1>0. PICK a \in Nat, b \in Nat : a = Len(s) /\ b = Len(t)
  BY LenProperties
<1>1. PICK u : a = Len(s) /\ b = Len(t) /\ u = s \o t
  BY <1>0
<1>2. u \in Seq(S) /\ Len(u) = a + b
      /\ \A i \in 1 .. a + b : u[i] = IF i <= a THEN s[i] ELSE t[i - a]
  BY <1>1, ConcatProperties
<1>3. \A i \in 1 .. a : i \in 1 .. a + b /\ i <= a
  OBVIOUS
<1>4. ASSUME NEW i \in 1 .. b PROVE u[a + i] = t[i]
  <2>1. PICK k \in Nat : k = a + i
    OBVIOUS
  <2>2. k \in 1 .. a + b /\ ~(k <= a) /\ k - a = i
    BY <2>1
  <2>3. u[k] = t[i]
    BY <2>2, <1>2
  <2>. QED
    BY <2>1, <2>3
<1>5. \A i \in 1 .. a : u[i] = s[i]
  BY <1>2, <1>3
<1>. QED
  BY <1>1, <1>2, <1>4, <1>5

\* What one recv takes is what follows the request so far.
LEMMA RequestAt ==
  ASSUME NEW i \in 0 .. Len(Ends), NEW j \in 0 .. Len(Ends), i <= j
  PROVE  /\ Len(Request(i, j)) = SentBy(j) - SentBy(i)
         /\ \A b \in 1 .. SentBy(j) - SentBy(i) : Request(i, j)[b] = SentBy(i) + b
         /\ Request(i, j) \in Seq(Byte)
         /\ SentBy(i) \in Nat /\ SentBy(j) \in Nat /\ SentBy(i) <= SentBy(j)
  BY RequestFacts DEF Request

\* What is kept is the request so far, also with what was just received.
LEMMA KeptGrows ==
  ASSUME RelayTypeOK, KeptInv, NEW j \in 0 .. Len(Ends), taken <= j, sqBuff' = Kept(Request(taken, j)), sqBuff' # None
  PROVE  /\ AutoReconnect /\ sqBuff'.off = 0 /\ Len(sqBuff'.data) = SentBy(j)
         /\ \A b \in 1 .. SentBy(j) : sqBuff'.data[b] = b
<1>1. PICK s, g, w, n, m : s = Request(taken, j) /\ g = Saved /\ w = g \o s /\ n = SentBy(taken) /\ m = SentBy(j)
  OBVIOUS
<1>2. /\ n \in Nat /\ m \in Nat /\ n <= m /\ s \in Seq(Byte) /\ Len(s) = m - n
      /\ \A b \in 1 .. m - n : s[b] = n + b
  BY <1>1, ClientFacts, RequestAt
<1>3. AutoReconnect /\ (sqBuff = None => taken = 0)
  <2>1. taken \in Nat
    BY ClientFacts, EndsFacts
  <2>2. ~(~AutoReconnect \/ (sqBuff = None /\ taken > 0))
    BY DEF Kept, KeptInv
  <2>. QED
    BY <2>1, <2>2 DEF Kept
<1>4. sqBuff' = Loaded(w)
  BY <1>1, <1>3 DEF Kept
<1>5. g \in Seq(Byte) /\ Len(g) = n /\ \A b \in 1 .. n : g[b] = b
  <2>1. CASE sqBuff = None
    <3>1. g = <<>> /\ n = 0
      BY <1>1, <1>3, <2>1, NothingInOrder DEF Saved
    <3>2. <<>> \in Seq(Byte) /\ Len(<<>>) = 0
      BY EmptySeq
    <3>. QED
      BY <3>1, <3>2
  <2>2. CASE sqBuff # None
    BY <1>1, <2>2 DEF Saved, KeptInv, RelayTypeOK, BuffersOK, BufferOK
  <2>. QED
    BY <2>1, <2>2
<1>6. w \in Seq(Byte) /\ Len(w) = m
  <2>1. w \in Seq(Byte) /\ Len(w) = Len(g) + Len(s)
    BY <1>1, <1>2, <1>5, ConcatProperties
  <2>. QED
    BY <2>1, <1>2, <1>5
<1>7. ASSUME NEW b \in 1 .. m PROVE w[b] = b
  <2>0. PICK q \in Nat : q = m - n
    BY <1>2
  <2>a. g \in Seq(Byte) /\ s \in Seq(Byte) /\ n \in Nat /\ Len(g) = n /\ Len(s) = q
    BY <2>0, <1>2, <1>5
  <2>c. /\ \A i \in 1 .. Len(g) : (g \o s)[i] = g[i]
        /\ \A i \in 1 .. Len(s) : (g \o s)[Len(g) + i] = s[i]
    BY <2>a, Joined
  <2>b. /\ \A i \in 1 .. n : (g \o s)[i] = g[i]
        /\ \A i \in 1 .. q : (g \o s)[n + i] = s[i]
    BY <2>a, <2>c
  <2>1. /\ \A i \in 1 .. n : w[i] = g[i]
        /\ \A i \in 1 .. m - n : w[n + i] = s[i]
    BY <2>0, <2>b, <1>1
  <2>2. CASE b <= n
    <3>1. b \in 1 .. n
      BY <2>2, <1>2
    <3>. QED
      BY <3>1, <2>1, <1>5
  <2>3. CASE b > n
    <3>1. PICK k \in 1 .. m - n : n + k = b
      <4>1. b - n \in 1 .. m - n /\ n + (b - n) = b
        BY <2>3, <1>2
      <4>. QED
        BY <4>1
    <3>2. w[n + k] = n + k
      BY <2>1, <1>2
    <3>. QED
      BY <3>1, <3>2
  <2>. QED
    BY <2>2, <2>3, <1>2
<1>8. sqBuff'.off = 0 /\ sqBuff'.data = w
  BY <1>4 DEF Loaded
<1>. QED
  BY <1>1, <1>3, <1>6, <1>7, <1>8

LEMMA ReceivedKept ==
  ASSUME RelayTypeOK, CallInv, KeptInv, StreamInv, NEW j \in DOMAIN Ends, RecvRequest(j)
  PROVE  KeptInv' /\ StreamInv'
<1>1. PICK s, n, m : s = Request(taken, j) /\ n = SentBy(taken) /\ m = SentBy(j)
  OBVIOUS
<1>2. j \in 0 .. Len(Ends) /\ taken \in 0 .. Len(Ends) /\ taken <= j /\ j > 0 /\ j \in Nat
  BY ClientFacts, EndsFacts DEF RecvRequest
<1>3. /\ n \in Nat /\ m \in Nat /\ n <= m /\ s \in Seq(Byte) /\ s \in Seq(Nat) /\ Len(s) = m - n
      /\ \A b \in 1 .. m - n : s[b] = n + b
  <2>1. Seq(Byte) \subseteq Seq(Nat)
    BY ZeroIsByte, SeqMonotonic
  <2>. QED
    BY <2>1, <1>1, <1>2, RequestAt
<1>4. /\ call.at = "recv" /\ ~Holds("client") /\ phase = "tunnel"
  <2>1. call.at = "recv" /\ Idle.at = "poll"
    BY DEF RecvRequest, Receives, Idle
  <2>. QED
    BY <2>1 DEF CallInv
<1>5. /\ buff'["client"] = Loaded(s) /\ sqBuff' = Kept(s) /\ taken' = j
      /\ call'.at = "send" /\ call'.val = "client"
      /\ UNCHANGED <<phase, try, toServer, blocked, repeated>>
  <2>1. buff'["client"] = Loaded(s)
    BY <1>1 DEF RecvRequest, RelayTypeOK, BuffersOK, Side
  <2>2. call' = SendingOf("client", Len(s), TRUE)
    BY <1>1 DEF RecvRequest
  <2>3. call'.at = "send" /\ call'.val = "client"
    BY <2>2 DEF SendingOf, Idle
  <2>. QED
    BY <1>1, <2>1, <2>3 DEF RecvRequest, history
<1>6. buff'["client"].off = 0 /\ buff'["client"].data = s /\ Holds("client")'
  BY <1>5 DEF Loaded, Holds, None
<1>7. KeptInv'
  <2>1. sqBuff' # None => /\ AutoReconnect /\ sqBuff'.off = 0 /\ Len(sqBuff'.data) = m
                          /\ \A b \in 1 .. m : sqBuff'.data[b] = b
    BY <1>1, <1>2, <1>5, KeptGrows
  <2>2. SentBy(taken') = m
    BY <1>1, <1>5
  <2>. QED
    BY <2>1, <2>2, <1>2, <1>5, <1>6 DEF KeptInv
<1>8. ASSUME phase # "gone", ~blocked, ~repeated, ~Paired PROVE InOrder(toServer \o s, m)
  <2>1. toServer \in Seq(Nat) /\ toServer \o <<>> = toServer
    BY ClientFacts, ConcatEmptySeq
  <2>2. InOrder(toServer, n)
    BY <2>1, <1>1, <1>4, <1>8 DEF StreamInv, ToSend
  <2>. QED
    BY <2>1, <2>2, <1>3, InOrderGrows
<1>9. ToSend' = s
  <2>1. PICK l \in Nat : l = Len(s)
    BY <1>3
  <2>2. Total' = l
    BY <2>1, <1>6 DEF Total
  <2>3. ToSend' = Slice(s, 0, l)
    BY <2>2, <1>5, <1>6 DEF ToSend
  <2>. QED
    BY <2>1, <2>3, <1>3, SliceWhole
<1>10. StreamInv'
  BY <1>1, <1>5, <1>8, <1>9 DEF StreamInv, Paired, Parts
<1>. QED
  BY <1>7, <1>10

LEMMA AnswerKept ==
  ASSUME RelayTypeOK, CallInv, KeptInv, StreamInv, NEW m \in 1 .. Answer, RecvAnswer(m)
  PROVE  KeptInv' /\ StreamInv'
<1>1. /\ ~Holds("client") /\ phase = "tunnel"
  <2>1. call.at = "recv" /\ Idle.at = "poll"
    BY DEF RecvAnswer, Receives, Idle
  <2>. QED
    BY <2>1 DEF CallInv
<1>2. /\ sqBuff' = None /\ buff'["client"] = buff["client"] /\ buff'["remote"].off = 0
      /\ call'.at = "send" /\ call'.val = "remote"
      /\ UNCHANGED <<phase, try, taken, toServer, blocked, repeated>>
  <2>1. buff'["client"] = buff["client"] /\ buff'["remote"].off = 0
    BY DEF RecvAnswer, RelayTypeOK, BuffersOK, Side, Loaded
  <2>2. call' = SendingOf("remote", m, TRUE)
    BY DEF RecvAnswer
  <2>3. call'.at = "send" /\ call'.val = "remote"
    BY <2>2 DEF SendingOf, Idle
  <2>. QED
    BY <2>1, <2>3 DEF RecvAnswer, FreeFirst
<1>3. ~Holds("client")'
  BY <1>1, <1>2 DEF Holds
<1>4. KeptInv'
  BY <1>2, <1>3 DEF KeptInv
<1>5. ToSend' = ToSend
  BY <1>1, <1>3 DEF ToSend
<1>6. StreamInv'
  BY <1>1, <1>2, <1>5, StreamFrame
<1>. QED
  BY <1>4, <1>6

\* Where tamp() puts its byte.
LEMMA TampedAt ==
  ASSUME NEW s \in Seq(Byte), Tamped(s) # s
  PROVE  /\ roundSent["client"] = 0 /\ Header \in Nat /\ Header <= Len(s)
         /\ Tamped(s) \in Seq(Byte) /\ Len(Tamped(s)) = Len(s) + 1
         /\ \A i \in 1 .. Header : Tamped(s)[i] = s[i]
         /\ Tamped(s)[Header + 1] = 0
         /\ \A i \in Header + 1 .. Len(s) : Tamped(s)[i + 1] = s[i]
<1>1. PICK h, n, l, r, z : h = Header /\ n = Len(s) /\ l = SubSeq(s, 1, h) /\ r = SubSeq(s, h + 1, n) /\ z = <<0>>
  OBVIOUS
<1>2. roundSent["client"] = 0 /\ h \in 1 .. n /\ Tamped(s) = (l \o z) \o r
  BY <1>1 DEF Tamped
<1>3. n \in Nat /\ h \in Nat /\ h <= n
  BY <1>1, <1>2, LenProperties
<1>4. /\ l \in Seq(Byte) /\ Len(l) = h /\ \A i \in 1 .. h : l[i] = s[i]
  <2>1. PICK a \in Nat : a = 1
    OBVIOUS
  <2>2. \A i \in a .. h : s[i] \in Byte
    BY <2>1, <1>1, <1>3, ElementOfSeq
  <2>3. /\ SubSeq(s, a, h) \in Seq(Byte)
        /\ Len(SubSeq(s, a, h)) = IF a <= h THEN h - a + 1 ELSE 0
        /\ \A i \in 1 .. h - a + 1 : SubSeq(s, a, h)[i] = s[a + i - 1]
    BY <2>2, <1>3, SubSeqProperties
  <2>4. l = SubSeq(s, a, h) /\ a <= h /\ h - a + 1 = h
    BY <2>1, <1>1, <1>2, <1>3
  <2>5. \A i \in 1 .. h : i \in 1 .. h - a + 1 /\ a + i - 1 = i
    BY <2>1, <1>3
  <2>6. l \in Seq(Byte) /\ Len(l) = h
    BY <2>3, <2>4
  <2>7. \A i \in 1 .. h : l[i] = s[i]
    BY <2>3, <2>4, <2>5
  <2>. QED
    BY <2>6, <2>7
<1>5. /\ r \in Seq(Byte) /\ Len(r) = n - h /\ \A i \in 1 .. n - h : r[i] = s[h + i]
  <2>1. PICK a \in Nat : a = h + 1
    BY <1>3
  <2>2. /\ r = SubSeq(s, a, n)
    BY <1>1, <2>1
  <2>3. /\ SubSeq(s, a, n) \in Seq(Byte)
        /\ Len(SubSeq(s, a, n)) = IF a <= n THEN n - a + 1 ELSE 0
        /\ \A i \in 1 .. n - a + 1 : SubSeq(s, a, n)[i] = s[a + i - 1]
    <3>1. \A i \in a .. n : s[i] \in Byte
      BY <1>1, <1>3, <2>1, ElementOfSeq
    <3>. QED
      BY <3>1, <1>3, SubSeqProperties
  <2>4. Len(r) = n - h
    BY <2>1, <2>2, <2>3, <1>3
  <2>5. ASSUME NEW i \in 1 .. n - h PROVE r[i] = s[h + i]
    <3>1. i \in 1 .. n - a + 1 /\ a + i - 1 = h + i
      BY <2>1, <1>3
    <3>. QED
      BY <3>1, <2>2, <2>3
  <2>. QED
    BY <2>2, <2>3, <2>4, <2>5
<1>6. z \in Seq(Byte) /\ Len(z) = 1 /\ z[1] = 0
  BY <1>1, ZeroIsByte
<1>7. PICK v, w : v = l \o z /\ w = v \o r
  OBVIOUS
<1>8. /\ v \in Seq(Byte) /\ Len(v) = h + 1 /\ \A i \in 1 .. h : v[i] = s[i]
      /\ v[h + 1] = 0
  <2>0. PICK e \in Nat : e = 1
    OBVIOUS
  <2>a. l \in Seq(Byte) /\ z \in Seq(Byte) /\ h \in Nat /\ Len(l) = h /\ Len(z) = e
    BY <2>0, <1>3, <1>4, <1>6
  <2>c. /\ l \o z \in Seq(Byte) /\ Len(l \o z) = Len(l) + Len(z)
        /\ \A i \in 1 .. Len(l) : (l \o z)[i] = l[i]
        /\ \A i \in 1 .. Len(z) : (l \o z)[Len(l) + i] = z[i]
    <3>1. l \in Seq(Byte) /\ z \in Seq(Byte)
      BY <2>a
    <3>. QED
      BY <3>1, Joined
  <2>b. /\ l \o z \in Seq(Byte) /\ Len(l \o z) = h + e
        /\ \A i \in 1 .. h : (l \o z)[i] = l[i]
        /\ \A i \in 1 .. e : (l \o z)[h + i] = z[i]
    BY <2>a, <2>c
  <2>1. e \in 1 .. e
    BY <2>0
  <2>2. v[h + e] = z[e]
    BY <2>1, <2>b, <1>7
  <2>. QED
    BY <2>0, <2>2, <2>b, <1>4, <1>6, <1>7
<1>9. PICK a \in Nat : a = h + 1
  BY <1>3
<1>10. /\ w \in Seq(Byte) /\ Len(w) = a + (n - h)
       /\ \A i \in 1 .. a : w[i] = v[i]
       /\ \A i \in 1 .. n - h : w[a + i] = r[i]
  <2>0. PICK q \in Nat : q = n - h
    BY <1>3
  <2>1. v \in Seq(Byte) /\ r \in Seq(Byte) /\ a \in Nat /\ Len(v) = a /\ Len(r) = q
    BY <2>0, <1>3, <1>5, <1>8, <1>9
  <2>3. /\ v \o r \in Seq(Byte) /\ Len(v \o r) = Len(v) + Len(r)
        /\ \A i \in 1 .. Len(v) : (v \o r)[i] = v[i]
        /\ \A i \in 1 .. Len(r) : (v \o r)[Len(v) + i] = r[i]
    <3>1. v \in Seq(Byte) /\ r \in Seq(Byte)
      BY <2>1
    <3>. QED
      BY <3>1, Joined
  <2>2. /\ v \o r \in Seq(Byte) /\ Len(v \o r) = a + q
        /\ \A i \in 1 .. a : (v \o r)[i] = v[i]
        /\ \A i \in 1 .. q : (v \o r)[a + i] = r[i]
    BY <2>1, <2>3
  <2>. QED
    BY <2>0, <2>2, <1>7
<1>11. Len(w) = n + 1 /\ (\A i \in 1 .. h : w[i] = s[i]) /\ w[h + 1] = 0
  <2>1. a + (n - h) = n + 1 /\ a \in 1 .. a /\ \A i \in 1 .. h : i \in 1 .. a
    BY <1>3, <1>9
  <2>2. w[a] = v[a]
    BY <2>1, <1>10
  <2>. QED
    BY <2>1, <2>2, <1>8, <1>9, <1>10
<1>12. ASSUME NEW i \in h + 1 .. n PROVE w[i + 1] = s[i]
  <2>1. PICK k \in 1 .. n - h : h + k = i
    <3>1. i - h \in 1 .. n - h /\ h + (i - h) = i
      BY <1>3
    <3>. QED
      BY <3>1
  <2>2. w[a + k] = s[h + k]
    BY <1>5, <1>10
  <2>3. a + k = i + 1
    BY <2>1, <1>3, <1>9
  <2>. QED
    BY <2>1, <2>2, <2>3
<1>13. w = Tamped(s)
  BY <1>2, <1>7
<1>14. \A i \in h + 1 .. n : w[i + 1] = s[i]
  BY <1>12
<1>. QED
  BY <1>1, <1>2, <1>3, <1>10, <1>11, <1>13, <1>14

\* tamp() puts its byte where nothing was sent yet.
LEMMA TampedInOrder ==
  ASSUME RelayTypeOK, NEW d \in Seq(Byte), NEW n \in Nat, Tamped(d) # d, InOrder(toServer \o d, n)
  PROVE  InOrder(toServer \o Tamped(d), n)
<1>1. PICK t, c, u, w, l : t = Tamped(d) /\ c = toServer /\ u = c \o d /\ w = c \o t /\ l = Len(c)
  OBVIOUS
<1>2. /\ Header \in Nat /\ Header <= Len(d) /\ t \in Seq(Byte) /\ Len(t) = Len(d) + 1
      /\ \A i \in 1 .. Header : t[i] = d[i]
      /\ t[Header + 1] = 0
      /\ \A i \in Header + 1 .. Len(d) : t[i + 1] = d[i]
  BY <1>1, TampedAt
<1>3. c \in Seq(Byte) /\ l \in Nat /\ Len(d) \in Nat
  BY <1>1, LenProperties DEF RelayTypeOK
<1>4. /\ u \in Seq(Byte) /\ Len(u) = Len(c) + Len(d)
      /\ \A i \in 1 .. Len(c) : u[i] = c[i]
      /\ \A i \in 1 .. Len(d) : u[Len(c) + i] = d[i]
  BY <1>1, <1>3, Joined
<1>5. /\ w \in Seq(Byte) /\ Len(w) = Len(c) + Len(t)
      /\ \A i \in 1 .. Len(c) : w[i] = c[i]
      /\ \A i \in 1 .. Len(t) : w[Len(c) + i] = t[i]
  <2>1. t \in Seq(Byte) /\ c \in Seq(Byte)
    BY <1>2, <1>3
  <2>2. /\ c \o t \in Seq(Byte) /\ Len(c \o t) = Len(c) + Len(t)
        /\ \A i \in 1 .. Len(c) : (c \o t)[i] = c[i]
        /\ \A i \in 1 .. Len(t) : (c \o t)[Len(c) + i] = t[i]
    BY <2>1, Joined
  <2>. QED
    BY <2>2, <1>1
<1>6. PICK h \in Nat, x \in Nat, y \in Nat : h = l + Header /\ x = Header /\ y = Len(d)
  <2>1. l + Header \in Nat /\ Header \in Nat /\ Len(d) \in Nat
    BY <1>2, <1>3
  <2>. QED
    BY <2>1
<1>7. Len(u) = l + y /\ Len(w) = l + (y + 1) /\ x <= y /\ h = l + x
  BY <1>1, <1>2, <1>3, <1>4, <1>5, <1>6
<1>8. u \in Seq(Nat) /\ w \in Seq(Nat)
  <2>1. Seq(Byte) \subseteq Seq(Nat)
    BY ZeroIsByte, SeqMonotonic
  <2>. QED
    BY <2>1, <1>4, <1>5
<1>9. \A i \in 1 .. x : w[l + i] = t[i] /\ u[l + i] = d[i] /\ t[i] = d[i]
  <2>1. \A i \in 1 .. x : i \in 1 .. Len(t) /\ i \in 1 .. Len(d)
    BY <1>2, <1>6
  <2>. QED
    BY <2>1, <1>1, <1>2, <1>4, <1>5, <1>6
<1>10. ASSUME NEW i \in 1 .. h PROVE w[i] = u[i]
  <2>1. CASE i <= l
    <3>1. i \in 1 .. Len(c)
      BY <2>1, <1>1, <1>3
    <3>. QED
      BY <3>1, <1>4, <1>5
  <2>2. CASE i > l
    <3>1. PICK k \in 1 .. x : l + k = i
      <4>1. i - l \in 1 .. x /\ l + (i - l) = i
        BY <2>2, <1>3, <1>7
      <4>. QED
        BY <4>1
    <3>. QED
      BY <3>1, <1>9
  <2>. QED
    BY <2>1, <2>2, <1>3
<1>11. w[h + 1] = 0
  <2>1. PICK k \in Nat : k = x + 1
    OBVIOUS
  <2>2. k \in 1 .. Len(t) /\ l + k = h + 1
    BY <2>1, <1>2, <1>3, <1>6, <1>7
  <2>3. w[l + k] = t[k]
    BY <2>2, <1>1, <1>5
  <2>4. t[k] = 0
    BY <2>1, <1>2, <1>6
  <2>. QED
    BY <2>2, <2>3, <2>4
<1>12. ASSUME NEW i \in h + 1 .. Len(u) PROVE w[i + 1] = u[i]
  <2>1. PICK k \in x + 1 .. y : l + k = i
    <3>1. i - l \in x + 1 .. y /\ l + (i - l) = i
      BY <1>3, <1>7
    <3>. QED
      BY <3>1
  <2>2. PICK q \in Nat : q = k + 1
    OBVIOUS
  <2>3. q \in 1 .. Len(t) /\ k \in 1 .. Len(d) /\ k \in Header + 1 .. Len(d)
    BY <2>2, <1>2, <1>6
  <2>4. w[l + q] = t[q] /\ u[l + k] = d[k]
    BY <2>3, <1>1, <1>4, <1>5
  <2>5. t[q] = d[k]
    BY <2>2, <2>3, <1>2
  <2>6. l + q = i + 1
    BY <2>1, <2>2, <1>3
  <2>. QED
    BY <2>1, <2>4, <2>5, <2>6
<1>13. h <= Len(u) /\ Len(w) = Len(u) + 1
  BY <1>3, <1>7
<1>14. InOrder(u, n)
  BY <1>1
<1>15. InOrder(w, n)
  BY <1>8, <1>10, <1>11, <1>12, <1>13, <1>14, InOrderTamped
<1>. QED
  BY <1>1, <1>15

LEMMA StartKept ==
  ASSUME RelayTypeOK, CallInv, KeptInv, StreamInv, StartParts
  PROVE  KeptInv' /\ StreamInv'
<1> DEFINE d == buff["client"].data
           off == buff["client"].off
<1>1. call.at = "send" /\ call.val = "client" /\ Holds("client") /\ call.n = Whole("client") /\ phase = "tunnel"
  <2>1. call.at = "send" /\ call.val = "client" /\ Idle.at = "poll"
    BY DEF StartParts, Desynced, Idle
  <2>. QED
    BY <2>1 DEF CallInv
<1>2. /\ d \in Seq(Byte) /\ off \in Nat /\ off <= Len(d) /\ Len(d) \in Nat /\ Len(d) <= BufSize
      /\ buff["client"] \in [data : Seq(Byte), off : Int]
  BY <1>1, LenProperties DEF RelayTypeOK, BuffersOK, BufferOK, Holds
<1>3. /\ buff'["client"].data = Tamped(d) /\ buff'["client"].off = off
      /\ call'.at = "parts" /\ call'.lp = off /\ call'.loop = call.loop
      /\ call'.n = (IF call.loop THEN Len(Tamped(d)) ELSE call.n)
      /\ UNCHANGED <<phase, try, sqBuff, roundSent, taken, toServer, blocked, repeated>>
  <2>1. buff' = [buff EXCEPT !["client"].data = Tamped(d)]
    BY DEF StartParts
  <2>2. buff'["client"].data = Tamped(d) /\ buff'["client"].off = off
    BY <2>1, <1>2 DEF RelayTypeOK, BuffersOK, Side
  <2>. QED
    BY <2>2 DEF StartParts, rounds, streams, history, RelayTypeOK, CallOK
<1>4. Tamped(d) \in Seq(Byte) /\ Len(Tamped(d)) \in Nat /\ Len(d) <= Len(Tamped(d))
  BY <1>2, TampedFacts
<1> HIDE DEF d
<1>5. KeptInv'
  <2>1. Holds("client")' /\ taken > 0 /\ (roundSent["client"] = 0 => off = 0)
    BY <1>1, <1>2, <1>3 DEF KeptInv, Holds, None
  <2>2. call.loop => off = 0
    BY <1>1 DEF KeptInv
  <2>3. Whole("client")' = Len(Tamped(d)) - off /\ Whole("client") = Len(d) - off
    BY <1>3 DEF Whole, d
  <2>4. call'.n <= Whole("client")'
    BY <2>2, <2>3, <1>1, <1>2, <1>3, <1>4
  <2>5. call'.at = "parts" /\ call'.at # "send"
    BY <1>3
  <2>6. sqBuff' # None => /\ AutoReconnect /\ taken' > 0
                          /\ sqBuff'.off = 0 /\ Len(sqBuff'.data) = SentBy(taken')
                          /\ \A b \in 1 .. SentBy(taken') : sqBuff'.data[b] = b
    BY <1>3 DEF KeptInv
  <2>. QED
    BY <2>1, <2>4, <2>5, <2>6, <1>3 DEF KeptInv
<1>6. CASE Tamped(d) = d
  <2>1. buff'["client"] = buff["client"]
    <3>1. buff' = [buff EXCEPT !["client"].data = d]
      BY <1>6 DEF StartParts, d
    <3>. QED
      BY <3>1, <1>2 DEF d, RelayTypeOK, BuffersOK, Side
  <2>2. ToSend' = ToSend
    BY <2>1, <1>1, <1>3 DEF ToSend, Holds, Total
  <2>. QED
    BY <2>2, <1>1, <1>3, <1>5, StreamFrame
<1>7. CASE Tamped(d) # d
  <2>1. off = 0
    BY <1>1, <1>2, <1>7, TampedAt DEF KeptInv
  <2>2. PICK n \in Nat, m \in Nat : n = Len(d) /\ m = Len(Tamped(d))
    BY <1>2, <1>4
  <2>3. ToSend = d
    <3>1. ToSend = Slice(d, 0, n)
      BY <2>1, <2>2, <1>1 DEF ToSend, Total, d
    <3>. QED
      BY <3>1, <2>2, <1>2, SliceWhole
  <2>4. ToSend' = Tamped(d)
    <3>1. Holds("client")' /\ Total' = m
      BY <2>2, <1>2, <1>3 DEF Holds, None, Total
    <3>2. ToSend' = Slice(Tamped(d), 0, m)
      BY <3>1, <2>1, <1>3 DEF ToSend
    <3>. QED
      BY <3>2, <2>2, <1>4, SliceWhole
  <2>5. InOrder(toServer \o d, SentBy(taken)) => InOrder(toServer \o Tamped(d), SentBy(taken))
    BY <1>2, <1>7, ClientFacts, TampedInOrder
  <2>6. StreamInv'
    BY <2>3, <2>4, <2>5, <1>1, <1>3 DEF StreamInv, Paired, Parts
  <2>. QED
    BY <2>6, <1>5
<1>. QED
  BY <1>6, <1>7

LEMMA PlainKept ==
  ASSUME RelayTypeOK, CallInv, KeptInv, StreamInv, NEW m \in 0 .. BufSize, PlainSend(m)
  PROVE  KeptInv' /\ StreamInv'
<1>1. /\ m \in Nat /\ call.at = "send" /\ Holds(call.val) /\ call.n = Whole(call.val) /\ phase = "tunnel"
      /\ SendReturns(m, FALSE) /\ UNCHANGED <<blocked, repeated>>
  <2>1. m \in Nat /\ call.at = "send" /\ Idle.at = "poll"
    BY Bounds DEF PlainSend, Idle
  <2>. QED
    BY <2>1 DEF CallInv, PlainSend, history
<1>2. KeptInv'
  BY <1>1, SendReturnsKept
<1>3. CASE call.val = "client"
  <2>1. PICK to \in Nat : /\ to = buff["client"].off + m /\ to <= Total /\ m = to - buff["client"].off
                          /\ buff["client"].off <= to /\ Total \in Nat /\ buff["client"].off \in Nat
    <3>1. /\ buff["client"].off \in Nat /\ Total \in Nat
          /\ buff["client"].off + m <= Total
      BY <1>1, <1>3, ClientFacts DEF PlainSend, Total
    <3>. QED
      BY <3>1, <1>1
  <2>2. Front = buff["client"].off
    BY <1>1 DEF Front
  <2>3. Deliver(Front, to)
    BY <2>1, <2>2, <1>3 DEF PlainSend
  <2>4. Done(m, FALSE) => to = Total
    <3>1. call.n = Total - buff["client"].off
      BY <1>1, <1>3 DEF Whole, Total
    <3>. QED
      BY <3>1, <2>1, <1>1 DEF Done
  <2>5. StreamInv'
    <3>1. SendReturns(to - buff["client"].off, FALSE) /\ (Done(to - buff["client"].off, FALSE) => to = Total)
      BY <2>1, <2>4, <1>1
    <3>. QED
      BY <3>1, <2>1, <2>2, <2>3, <1>1, <1>3, SendReturnsStream
  <2>. QED
    BY <2>5, <1>2
<1>4. CASE call.val = "remote"
  <2>1. buff'["client"] = buff["client"]
    BY <1>1, <1>4 DEF SendReturns, RelayTypeOK, BuffersOK, Side
  <2>2. call'.at # "parts"
    <3>1. call' \in {Idle, Receiving(call.val)}
      BY <1>1 DEF SendReturns
    <3>2. Idle.at = "poll" /\ Receiving(call.val).at = "recv"
      BY DEF Idle, Receiving
    <3>. QED
      BY <3>1, <3>2
  <2>3. ToSend' = ToSend
    BY <2>1, <2>2, <1>1, SendFrame
  <2>4. UNCHANGED <<toServer, taken, try>>
    BY <1>1, <1>4 DEF PlainSend, Deliver, SendReturns
  <2>. QED
    BY <2>3, <2>4, <1>1, <1>2, StreamFrame
<1>. QED
  BY <1>3, <1>4 DEF RelayTypeOK, CallOK, Side

\* The part that was sent is not one that is sent twice, and the kernel took all of it.
LEMMA PartWhole ==
  ASSUME RelayTypeOK, CallInv,
         NEW k \in DOMAIN Parts, NEW m \in 0 .. Total, NEW busy \in BOOLEAN, SendPart(k, m, busy),
         ~blocked', ~repeated', ~Paired
  PROVE  /\ Until(k) \in Nat /\ call.lp <= Until(k) /\ Until(k) <= Total /\ Deliver(call.lp, Until(k))
         /\ \/ SendReturns(Until(k) - buff["client"].off, TRUE)
            \/ call' = [call EXCEPT !.part = k, !.lp = Until(k)] /\ UNCHANGED <<phase, try, buff, taken>>
<1>1. /\ call.lp \in Nat /\ call.lp <= Total /\ Total \in Nat
      /\ Position(Parts[k]) \in Int /\ Position(Parts[k]) >= call.lp
  <2>1. call.at = "parts" /\ Position(Parts[k]) >= call.lp
    BY DEF SendPart, AtPart
  <2>2. Position(Parts[k]) \in Int
    BY <2>1, AtParts, PartFacts DEF Total
  <2>. QED
    BY <2>1, <2>2, AtParts
<1>2. Until(k) \in Nat /\ call.lp <= Until(k) /\ Until(k) <= Total
  BY <1>1 DEF Until
<1>3. ~Parts[k].first
  BY DEF Paired
<1>4. /\ m \in 0 .. Until(k) - call.lp
      /\ k = call.partSkip => m = 0 /\ ~(call.lp < Until(k))
  BY DEF SendPart
<1>5. ~((IF k = call.partSkip THEN Until(k) - call.lp ELSE m) < Until(k) - call.lp)
  BY DEF SendPart
<1>6. call.lp + m = Until(k)
  <2>1. m \in Nat
    BY <1>1
  <2>2. CASE k = call.partSkip
    BY <2>1, <2>2, <1>1, <1>2, <1>4
  <2>3. CASE k # call.partSkip
    BY <2>1, <2>3, <1>1, <1>2, <1>4, <1>5
  <2>. QED
    BY <2>2, <2>3
<1>7. Deliver(call.lp, Until(k))
  BY <1>6 DEF SendPart
<1>8. \/ SendReturns(Until(k) - buff["client"].off, TRUE)
      \/ call' = [call EXCEPT !.part = k, !.lp = Until(k)] /\ UNCHANGED <<phase, try, buff, taken>>
  BY <1>3, <1>5 DEF SendPart
<1>. QED
  BY <1>2, <1>7, <1>8

LEMMA PartStream ==
  ASSUME RelayTypeOK, CallInv, StreamInv,
         NEW k \in DOMAIN Parts, NEW m \in 0 .. Total, NEW busy \in BOOLEAN, SendPart(k, m, busy)
  PROVE  StreamInv'
<1>1. try' = try /\ (blocked => blocked') /\ (repeated => repeated')
  <2>1. try' = try
    BY DEF SendPart, SendReturns
  <2>2. repeated => repeated'
    BY DEF SendPart
  <2>3. blocked => blocked'
    BY DEF SendPart
  <2>. QED
    BY <2>1, <2>2, <2>3
<1>2. CASE blocked' \/ repeated' \/ Paired
  BY <1>1, <1>2 DEF StreamInv, Paired, Parts
<1>3. CASE ~blocked' /\ ~repeated' /\ ~Paired
  <2>1. /\ Until(k) \in Nat /\ call.lp <= Until(k) /\ Until(k) <= Total /\ Deliver(call.lp, Until(k))
        /\ \/ SendReturns(Until(k) - buff["client"].off, TRUE)
           \/ call' = [call EXCEPT !.part = k, !.lp = Until(k)] /\ UNCHANGED <<phase, try, buff, taken>>
    BY <1>3, PartWhole
  <2>2. /\ call.at = "parts" /\ Holds("client") /\ call.val = "client" /\ Front = call.lp
        /\ buff["client"].off <= call.lp /\ buff["client"].off \in Nat /\ call.lp \in Nat
    <3>1. call.at = "parts"
      BY DEF SendPart, AtPart
    <3>. QED
      BY <3>1, AtParts DEF Front
  <2>3. PICK to \in Nat : to = Until(k) /\ Front <= to /\ to <= Total /\ Deliver(Front, to) /\ buff["client"].off <= to
    BY <2>1, <2>2
  <2>4. CASE SendReturns(Until(k) - buff["client"].off, TRUE)
    <3>1. SendReturns(to - buff["client"].off, TRUE) /\ ~Done(to - buff["client"].off, TRUE)
      BY <2>3, <2>4 DEF Done
    <3>. QED
      BY <3>1, <2>2, <2>3, <1>1, SendReturnsStream
  <2>5. CASE call' = [call EXCEPT !.part = k, !.lp = Until(k)] /\ UNCHANGED <<phase, try, buff, taken>>
    <3>1. toServer' \o Slice(buff["client"].data, to, Total) = toServer \o ToSend
      BY <2>2, <2>3, Onward
    <3>2. call'.at = "parts" /\ call'.lp = to
      BY <2>2, <2>3, <2>5 DEF RelayTypeOK, CallOK
    <3>3. ToSend' = Slice(buff["client"].data, to, Total)
      BY <3>2, <2>2, <2>5 DEF ToSend, Holds, Total
    <3>. QED
      BY <3>1, <3>3, <2>5, <1>1 DEF StreamInv, Paired, Parts
  <2>. QED
    BY <2>1, <2>4, <2>5
<1>. QED
  BY <1>2, <1>3

LEMMA RestStream ==
  ASSUME RelayTypeOK, CallInv, StreamInv, NEW m \in 0 .. Total, SendRest(m)
  PROVE  StreamInv'
<1>1. try' = try /\ (blocked => blocked') /\ repeated' = repeated
  BY DEF SendRest, SendReturns
<1>2. CASE blocked'
  BY <1>1, <1>2 DEF StreamInv
<1>3. CASE ~blocked'
  <2>1. /\ call.at = "parts" /\ Holds("client") /\ call.val = "client" /\ Front = call.lp /\ Total \in Nat
        /\ buff["client"].off <= call.lp /\ buff["client"].off \in Nat /\ call.lp \in Nat /\ call.lp <= Total
    <3>1. call.at = "parts"
      BY DEF SendRest
    <3>. QED
      BY <3>1, AtParts DEF Front
  <2>2. m \in 0 .. Total - call.lp /\ ~(m < Total - call.lp)
    BY <1>3 DEF SendRest
  <2>3. m \in Nat /\ call.lp + m = Total /\ (m = 0 => call.lp = Total)
    BY <2>1, <2>2
  <2>4. Deliver(Front, Total)
    BY <2>1, <2>3 DEF SendRest
  <2>5. SendReturns(Total - buff["client"].off, FALSE)
    BY <2>3 DEF SendRest
  <2>6. buff["client"].off <= Total /\ Front <= Total /\ Total <= Total
    BY <2>1
  <2>. QED
    BY <2>1, <2>4, <2>5, <2>6, <1>1, SendReturnsStream
<1>. QED
  BY <1>2, <1>3

LEMMA KeptStep ==
  RelayTypeOK /\ CallInv /\ KeptInv /\ StreamInv /\ [RelayNext]_vars => KeptInv' /\ StreamInv'
<1> SUFFICES ASSUME RelayTypeOK, CallInv, KeptInv, StreamInv, [RelayNext]_vars
             PROVE  KeptInv' /\ StreamInv'
  OBVIOUS
<1> USE DEF rounds, streams, history
<1>0. /\ Idle.at = "poll"
      /\ \A x : Receiving(x).at = "recv"
      /\ \A x, n : SendingOf(x, n, FALSE).at = "send" /\ SendingOf(x, n, FALSE).loop = FALSE
  BY DEF Idle, Receiving, SendingOf
<1>a. Trigger => KeptInv' /\ StreamInv'
  BY ReconnectKept, GiveUpKept DEF Trigger
<1>b. call # Idle => phase = "tunnel"
  BY DEF CallInv
<1>1. CASE Connected
  <2>1. call' \in {Idle, Pending("client")} /\ call = Idle
    BY <1>1 DEF Connected
  <2>2. call'.at # "parts" /\ call.at # "parts" /\ (call'.at = "send" => ~call'.loop)
    BY <2>1, <1>0 DEF Pending
  <2>3. /\ UNCHANGED <<buff, roundSent, sqBuff, taken, toServer, try, blocked, repeated>>
        /\ phase = "connect"
    BY <1>1 DEF Connected
  <2>4. KeptInv'
    BY <2>2, <2>3, KeptFrame
  <2>5. ToSend' = ToSend
    BY <2>2, <2>3, SendFrame
  <2>. QED
    BY <2>3, <2>4, <2>5, StreamFrame
<1>2. CASE ConnectFails
  BY <1>2, <1>a DEF ConnectFails
<1>3. CASE Reset
  <2>1. KeptInv'
    BY <1>3, <1>0, KeptFrame DEF Reset
  <2>2. ToSend' = ToSend
    BY <1>3, SendFrame DEF Reset
  <2>. QED
    BY <1>3, <2>1, <2>2, StreamFrame DEF Reset
<1>4. ASSUME NEW x \in Side, NEW e \in {"in", "out", "hup", "timeout"}, Event(x, e)
      PROVE  KeptInv' /\ StreamInv'
  <2>1. call' \in {Idle, Pending(Valued(x, e)), Receiving(Valued(x, e))} /\ call = Idle
    BY <1>4 DEF Event
  <2>2. call'.at # "parts" /\ call.at # "parts" /\ (call'.at = "send" => ~call'.loop)
    BY <2>1, <1>0 DEF Pending
  <2>3. /\ UNCHANGED <<buff, roundSent, sqBuff, taken, toServer, try, blocked, repeated>>
        /\ phase = "tunnel"
    BY <1>4 DEF Event
  <2>4. KeptInv'
    BY <2>2, <2>3, KeptFrame
  <2>5. ToSend' = ToSend
    BY <2>2, <2>3, SendFrame
  <2>. QED
    BY <2>3, <2>4, <2>5, StreamFrame
<1>5. ASSUME NEW j \in DOMAIN Ends, RecvRequest(j) PROVE KeptInv' /\ StreamInv'
  BY <1>5, ReceivedKept
<1>6. ASSUME NEW m \in 1 .. Answer, RecvAnswer(m) PROVE KeptInv' /\ StreamInv'
  BY <1>6, AnswerKept
<1>7. CASE WrongAnswer
  BY <1>7, ReconnectKept DEF WrongAnswer
<1>8. CASE RecvNothing
  <2>1. call' = Idle /\ call.at = "recv" /\ call # Idle
    BY <1>8, <1>0 DEF RecvNothing
  <2>2. UNCHANGED <<buff, roundSent, sqBuff, taken, toServer, try, blocked, repeated>>
    BY <1>8 DEF RecvNothing
  <2>3. KeptInv'
    BY <2>1, <2>2, <1>0, KeptFrame
  <2>4. ToSend' = ToSend
    BY <2>1, <2>2, <1>0, SendFrame
  <2>. QED
    BY <2>1, <2>2, <2>3, <2>4, <1>b, StreamFrame
<1>9. CASE RecvFin
  BY <1>9, <1>a, GiveUpKept DEF RecvFin
<1>10. CASE ClientCloses
  BY <1>10, GiveUpKept DEF ClientCloses
<1>11. CASE RecvReset
  BY <1>11, <1>a DEF RecvReset
<1>12. ASSUME NEW m \in 0 .. BufSize, PlainSend(m) PROVE KeptInv' /\ StreamInv'
  BY <1>12, PlainKept
<1>13. CASE StartParts
  BY <1>13, StartKept
<1>14. ASSUME NEW k \in DOMAIN Parts, SkipPart(k) \/ CancelParts(k) PROVE KeptInv' /\ StreamInv'
  <2>1. call.at = "parts" /\ \E p : call' = [call EXCEPT !.part = p]
    BY <1>14 DEF SkipPart, CancelParts, AtPart
  <2>2. call'.at = "parts" /\ call'.n = call.n /\ call'.lp = call.lp /\ call # Idle
    BY <2>1, <1>0 DEF RelayTypeOK, CallOK
  <2>3. UNCHANGED <<buff, roundSent, sqBuff, taken, toServer, try, blocked, repeated>>
    BY <1>14 DEF SkipPart, CancelParts
  <2>4. KeptInv'
    BY <2>1, <2>2, <2>3, KeptFrame
  <2>5. ToSend' = ToSend
    BY <2>1, <2>2, <2>3, SendFrame
  <2>. QED
    BY <2>2, <2>3, <2>4, <2>5, <1>b, StreamFrame
<1>15. ASSUME NEW k \in DOMAIN Parts, NEW m \in 0 .. Total, NEW busy \in BOOLEAN, SendPart(k, m, busy)
       PROVE  KeptInv' /\ StreamInv'
  <2>1. call.at = "parts" /\ call.val = "client" /\ Holds("client")
    BY <1>15, SendPartCases
  <2>2. ASSUME NEW sn \in Nat, NEW w \in BOOLEAN, SendReturns(sn, w) PROVE KeptInv'
    BY <2>1, <2>2, SendReturnsKept
  <2>3. ASSUME NEW lp \in Nat, PartSent(k, lp) PROVE KeptInv'
    <3>1. call'.at = "parts" /\ call'.n = call.n
      BY <2>1, <2>3 DEF PartSent, RelayTypeOK, CallOK
    <3>. QED
      BY <2>1, <2>3, <3>1, KeptFrame DEF PartSent
  <2>4. KeptInv'
    BY <1>15, <2>2, <2>3, SendPartCases
  <2>. QED
    BY <1>15, <2>4, PartStream
<1>16. ASSUME NEW m \in 0 .. Total, SendRest(m) PROVE KeptInv' /\ StreamInv'
  <2>1. Holds(call.val) /\ \E sn \in Nat : SendReturns(sn, FALSE)
    BY <1>16, SendRestCases
  <2>2. KeptInv'
    BY <2>1, SendReturnsKept
  <2>. QED
    BY <1>16, <2>2, RestStream
<1>17. CASE SendFails
  BY <1>17, GiveUpKept DEF SendFails
<1>18. CASE UNCHANGED vars
  <2>1. KeptInv'
    BY <1>18 DEF vars, KeptInv, Holds, Whole
  <2>2. StreamInv'
    BY <1>18 DEF vars, StreamInv, ToSend, Holds, Total, Paired, Parts
  <2>. QED
    BY <2>1, <2>2
<1>19. QED
  BY <1>1, <1>2, <1>3, <1>4, <1>5, <1>6, <1>7, <1>8, <1>9, <1>10, <1>11, <1>12, <1>13, <1>14, <1>15, <1>16, <1>17, <1>18 DEF RelayNext

LEMMA RequestSeen == StreamInv => RequestWhole
<1>1. call = Idle => call.at # "parts"
  BY DEF Idle
<1>2. call = Idle => ToSend = Left("client")
  BY <1>1 DEF ToSend, Left, Total
<1>. QED
  BY <1>2 DEF StreamInv, RequestWhole
-----------------------------------------------------------------------------
(* Theorems.                                                                *)

RelayInv == RelayTypeOK /\ CallInv /\ HalfDuplex /\ ReplyInv /\ KeptInv /\ StreamInv

LEMMA RelayInductive == RelaySpec => []RelayInv
<1>1. RelayInit => RelayInv
  BY TypeInit, CallInit, ReplyInit, KeptInit DEF RelayInv
<1>2. RelayInv /\ [RelayNext]_vars => RelayInv'
  BY TypeStep, CallStep, ReplyStep, KeptStep DEF RelayInv
<1>. QED
  BY <1>1, <1>2, PTL DEF RelaySpec

\* Types: no buffer ever holds more than the bfsize bytes it was allocated with, also
\* when tamp() puts a byte in and while the first request is collected (tcp_recv_hook),
\* and what is marked as sent stays within it (on_tunnel, desync).
THEOREM RelayTypeCorrect == RelaySpec => []RelayTypeOK
BY RelayInductive, PTL DEF RelayInv

\* Between callbacks one side at most has data that waits, and exactly then its receiver
\* is watched for room and it is not read (on_tunnel), whatever parts are sent in between.
THEOREM HalfDuplexAlways == RelaySpec => []HalfDuplex
BY RelayInductive, PTL DEF RelayInv

\* The client gets one server's answer, once and in order, for every number of groups,
\* every way its pieces are cut and every reconnection (reconnect, free_first_req).
THEOREM ReplyWholeAlways == RelaySpec => []ReplyWhole
<1>1. RelayInv => ReplyWhole
  BY ReplySeen DEF RelayInv
<1>. QED
  BY <1>1, RelayInductive, PTL

\* Each server gets the request from its first byte on, once and in order, for every
\* way the client cuts it, every list of parts whose none is the first of a pair, and every
\* reconnection, which starts it again (desync, tcp_recv_hook, reconnect), as long as the
\* server's socket takes whole parts and no part that was sent comes again further back.
THEOREM RequestAlwaysWhole == RelaySpec => []RequestWhole
<1>1. RelayInv => RequestWhole
  BY RequestSeen DEF RelayInv
<1>. QED
  BY <1>1, RelayInductive, PTL
=============================================================================
