---------------------------- MODULE EapSystemProofs ----------------------------
(***************************************************************************)
(* Proofs about EapSystem: clients that each have an address of their own, *)
(* for handshakes of any length, any number of goroutines, an engine as    *)
(* slow as may be and requests sent again as often as may be.              *)
(*                                                                         *)
(* The clients' part in a handshake rests on two things.  Whatever feeds   *)
(* an engine of the client's address is a flight the client has sent       *)
(* (FedInv), so the engine never counts past it.  And an EAP identifier    *)
(* tells the turn of the conversation it belongs to (Turn) as long as it   *)
(* does not come round, so an answer that is paired by its identifier      *)
(* answers the request the client waits for, and no older one.             *)
(*                                                                         *)
(* A client whose requests are not sent twice is in lock-step with the     *)
(* server.  It has one request at most under way (LinkInv): on the wire,   *)
(* with one handler, answered, or lost.  So its session is used by one     *)
(* goroutine at a time, and its conversation is at one of two stages: the  *)
(* engine has yet to answer the last flight (Before), or has answered it,  *)
(* and what the client has of the answer, what is on its way and what      *)
(* TLSBufOut still holds make up the whole (After).                        *)
(***************************************************************************)
EXTENDS EapSystem, EapServerProofs, InductionLemmas

\* The hypotheses: no two clients share a NAS socket, identifiers are bytes,
\* and there are fewer packets than identifiers.
OwnAddresses == \A p, q \in Peers : AddrOf[p] = AddrOf[q] => p = q
AllIds       == Ids = 0 .. 255
ShortRun     == MaxPackets < 256

\* The identifier of p's turn j, and the packets that open a conversation.
At(p, j)   == (FirstId[p] + j) % 256
Opening(x) == x.kind \in {"identity", "start"}

\* The packet x belongs to one of the first m turns of p.
Turn(p, x, m) == \E j \in 0 .. m - 1 : x.id = At(p, j) /\ (Opening(x) <=> j = 0)

\* All flights that the request r holds are among the first n.
Flown(r, n) == r.kind = "ttls" => r.data \in Seq(1 .. n)

ClientInv(p) ==
    LET c == peer[p] IN
    /\ c.sent >= 1 => IsPrefix(Stream(c.sent - 1), c.stream)
    /\ c.phase = "idle" => c.sent = 0
    /\ c.phase = "accepted" => \E r \in replies : r.kind = "success" /\ r.addr = AddrOf[p]
    /\ c.pending # None => /\ c.phase \in {"identity", "tls"}
                           /\ c.pending.addr = AddrOf[p]
                           /\ Turn(p, c.pending, received + 1)
                           /\ Flown(c.pending, c.sent)
                           /\ Opening(c.pending) => c.sent = 0

\* Where requests and replies of client p are, they belong to its turns.
TurnInv(p) ==
    /\ \A r \in wire : r.addr = AddrOf[p] => Turn(p, r, received + 1)
    /\ \A h \in Handlers :
          pc[h] # "idle" /\ request[h].addr = AddrOf[p] => Turn(p, request[h], received)
    /\ \A r \in replies : r.addr = AddrOf[p] => Turn(p, r, received)

\* What is fed to an engine of p's address, on all the way, are p's flights.
FedInv(p) ==
    LET a == AddrOf[p]
        n == peer[p].sent IN
    /\ \A r \in wire : r.addr = a => Flown(r, n)
    /\ \A h \in Handlers : pc[h] # "idle" /\ request[h].addr = a => Flown(request[h], n)
    /\ tlsIn[a] \in Seq(1 .. n)
    /\ \A h \in Handlers :
          engine[a][h].raw \in Seq(1 .. n) /\ engine[a][h].expects - 1 <= n

\* The answer of a handler is to the packet it serves.
AnswerInv(h) ==
    pc[h] = "send" => /\ reply[h].addr = request[h].addr
                      /\ reply[h].id = request[h].id
                      /\ Opening(reply[h]) <=> Opening(request[h])

\* Only a TTLS packet gets past the switch of handleEAP.
KindInv(h) == pc[h] \notin {"idle", "switch", "send"} => request[h].kind = "ttls"

PartInv ==
    /\ received <= MaxPackets
    /\ \A h \in Handlers : AnswerInv(h) /\ KindInv(h)
    /\ \A p \in Peers : ClientInv(p) /\ TurnInv(p) /\ FedInv(p)

-----------------------------------------------------------------------------
(* Prefixes, and all that the server has to say. *)

\* A prefix is no longer and agrees as far as it goes.
LEMMA PrefixMeans ==
    ASSUME NEW S, NEW s \in Seq(S), NEW t \in Seq(S)
    PROVE  IsPrefix(s, t) <=> Len(s) <= Len(t) /\ \A i \in 1 .. Len(s) : s[i] = t[i]
<1>1. Len(s) \in Nat /\ Len(t) \in Nat
  OBVIOUS
<1>2. ASSUME Len(s) <= Len(t)
      PROVE  /\ SubSeq(s, 1, Len(s)) = [i \in 1 .. Len(s) |-> s[i]]
             /\ SubSeq(t, 1, Len(s)) = [i \in 1 .. Len(s) |-> t[i]]
  BY <1>1, <1>2
<1> QED
  BY <1>2 DEF IsPrefix

\* Nothing, all of it, and what is appended to are prefixes.
LEMMA PrefixFacts ==
    ASSUME NEW S, NEW s \in Seq(S), NEW t \in Seq(S)
    PROVE  /\ IsPrefix(<< >>, s)
           /\ IsPrefix(s, s)
           /\ IsPrefix(s, s \o t)
<1>1. Len(s) \in Nat /\ Len(t) \in Nat
  OBVIOUS
<1>2. IsPrefix(<< >>, s)
  <2>1. Len(<< >>) = 0 /\ SubSeq(<< >>, 1, 0) = << >> /\ SubSeq(s, 1, 0) = << >>
    BY <1>1
  <2>2. Len(<< >>) <= Len(s)
    BY <1>1, <2>1
  <2> QED
    BY <2>1, <2>2 DEF IsPrefix
<1>3. IsPrefix(s, s)
  BY <1>1, PrefixMeans
<1>4. IsPrefix(s, s \o t)
  <2>1. /\ s \o t \in Seq(S) /\ Len(s \o t) = Len(s) + Len(t)
        /\ \A i \in 1 .. Len(s) : (s \o t)[i] = s[i]
    BY <1>1, ConcatProperties
  <2>2. Len(s) <= Len(s \o t)
    BY <1>1, <2>1
  <2> QED
    BY <2>1, <2>2, PrefixMeans
<1> QED
  BY <1>2, <1>3, <1>4

\* And so are prefixes of prefixes.
LEMMA PrefixTrans ==
    ASSUME NEW S, NEW s \in Seq(S), NEW t \in Seq(S), NEW u \in Seq(S),
           IsPrefix(s, t), IsPrefix(t, u)
    PROVE  IsPrefix(s, u)
<1>1. Len(s) \in Nat /\ Len(t) \in Nat /\ Len(u) \in Nat
  OBVIOUS
<1>2. Len(s) <= Len(t) /\ \A i \in 1 .. Len(s) : s[i] = t[i]
  BY PrefixMeans
<1>3. Len(t) <= Len(u) /\ \A i \in 1 .. Len(t) : t[i] = u[i]
  BY PrefixMeans
<1>4. Len(s) <= Len(u) /\ \A i \in 1 .. Len(s) : s[i] = u[i]
  BY <1>1, <1>2, <1>3
<1> QED
  BY <1>4, PrefixMeans

\* What the server has to say to flight k; nothing to the tunnelled AVPs.
AnswerTo(k) == IF k \in DOMAIN Answer THEN Cells(k) ELSE << >>

\* Each answer comes after those before it.
LEMMA StreamStep ==
    /\ Stream(0) = << >>
    /\ \A n \in Nat : /\ AnswerTo(n) \in Seq(Cell)
                      /\ Stream(n) \in Seq(Cell)
                      /\ Stream(n + 1) = Stream(n) \o AnswerTo(n + 1)
<1> DEFINE answers(n) == [k \in 1 .. n |-> AnswerTo(k)]
           Q == Seq(Cell)
<1>1. \A k \in Nat : AnswerTo(k) \in Q
  BY CellsType DEF AnswerTo
<1>2. \A n \in Nat : Stream(n) = FlattenSeq(answers(n))
  BY DEF Stream, AnswerTo
<1>3. answers(0) = << >>
  OBVIOUS
<1> HIDE DEF Q
<1>4. ASSUME NEW n \in Nat
      PROVE  answers(n) \in Seq(Q) /\ answers(n + 1) = Append(answers(n), AnswerTo(n + 1))
  <2>1. \A k \in 1 .. n : AnswerTo(k) \in Q
    BY <1>1
  <2>2. answers(n) \in Seq(Q) /\ Len(answers(n)) = n
    BY <2>1
  <2>3. answers(n + 1) = [k \in 1 .. n + 1 |-> IF k = n + 1 THEN AnswerTo(n + 1)
                                                         ELSE answers(n)[k]]
    OBVIOUS
  <2> QED
    BY <2>2, <2>3
<1> HIDE DEF answers
<1>5. ASSUME NEW n \in Nat
      PROVE  Stream(n) \in Q /\ Stream(n + 1) = Stream(n) \o AnswerTo(n + 1)
  <2>1. n + 1 \in Nat /\ AnswerTo(n + 1) \in Q /\ answers(n) \in Seq(Q)
    BY <1>1, <1>4
  <2>2. /\ FlattenSeq(answers(n)) \in Q
        /\ FlattenSeq(Append(answers(n), AnswerTo(n + 1)))
              = FlattenSeq(answers(n)) \o AnswerTo(n + 1)
    BY <2>1, FlattenSeqAppend DEF Q
  <2>3. Stream(n) = FlattenSeq(answers(n)) /\ Stream(n + 1) = FlattenSeq(answers(n + 1))
    BY <1>2, <2>1
  <2> QED
    BY <1>4, <2>2, <2>3
<1>6. Stream(0) = << >>
  BY <1>2, <1>3, <1>4, FlattenSeqAppend DEF Q
<1> QED
  BY <1>1, <1>5, <1>6 DEF Q

\* So what was said first stays a prefix.
LEMMA StreamGrows ==
    ASSUME NEW m \in Nat, NEW n \in Nat, m <= n
    PROVE  IsPrefix(Stream(m), Stream(n))
<1> DEFINE T == {k \in Nat : IsPrefix(Stream(m), Stream(m + k))}
<1>1. \A k \in Nat : m + k \in Nat /\ Stream(m + k) \in Seq(Cell)
  BY StreamStep
<1>2. 0 \in T
  <2>1. m + 0 = m /\ 0 \in Nat /\ Stream(m) \in Seq(Cell)
    BY StreamStep
  <2>2. IsPrefix(Stream(m), Stream(m))
    <3> HIDE DEF T
    <3>1. \A t \in Seq(Cell) : IsPrefix(t, t)
      BY PrefixFacts
    <3> QED
      BY <2>1, <3>1
  <2> QED
    BY <2>1, <2>2
<1>3. ASSUME NEW k \in T PROVE k + 1 \in T
  <2>1. m + k \in Nat /\ m + (k + 1) = (m + k) + 1
    OBVIOUS
  <2>2. ASSUME NEW i \in Nat PROVE IsPrefix(Stream(i), Stream(i + 1))
    <3> HIDE DEF T
    <3>1. i + 1 \in Nat
      OBVIOUS
    <3>2. Stream(i + 1) = Stream(i) \o AnswerTo(i + 1)
      BY StreamStep
    <3>3. AnswerTo(i + 1) \in Seq(Cell) /\ Stream(i) \in Seq(Cell)
      BY <3>1, StreamStep
    <3>4. IsPrefix(Stream(i), Stream(i) \o AnswerTo(i + 1))
      BY <3>3, PrefixFacts
    <3> QED
      BY <3>2, <3>4
  <2>3. IsPrefix(Stream(m + k), Stream(m + (k + 1)))
    BY <2>1, <2>2
  <2>4. m + (k + 1) \in Nat /\ m + 0 \in Nat /\ IsPrefix(Stream(m), Stream(m + k))
    OBVIOUS
  <2>5. IsPrefix(Stream(m), Stream(m + (k + 1)))
    <3>1. \A i \in Nat : Stream(i) \in Seq(Cell)
      BY StreamStep
    <3> QED
      BY <2>1, <2>3, <2>4, <3>1, PrefixTrans
  <2> QED
    BY <2>5
<1>4. T \in SUBSET Nat
  OBVIOUS
<1>5. T = Nat
  <2> HIDE DEF T
  <2> QED
    BY <1>2, <1>3, <1>4, NatSetInduction
<1>6. n - m \in Nat /\ m + (n - m) = n
  OBVIOUS
<1>7. n - m \in T
  <2> HIDE DEF T
  <2> QED
    BY <1>5, <1>6
<1> QED
  BY <1>6, <1>7

-----------------------------------------------------------------------------
(* Identifiers. *)

\* The identifiers of p's turns follow one another, cut to a byte.
LEMMA NextId ==
    ASSUME NEW p \in Peers, NEW j \in Nat
    PROVE  /\ At(p, j) \in 0 .. 255
           /\ At(p, 0) = FirstId[p]
           /\ (At(p, j) + 1) % 256 = At(p, j + 1)
<1>1. FirstId[p] \in 0 .. 255
  BY FirstIdAssumption, IdsAssumption
<1>2. ASSUME NEW f \in 0 .. 255
      PROVE  /\ (f + j) % 256 \in 0 .. 255
             /\ (f + 0) % 256 = f
             /\ (((f + j) % 256) + 1) % 256 = (f + (j + 1)) % 256
  OBVIOUS
<1> QED
  BY <1>1, <1>2 DEF At

\* And tell the turns, as long as there are no more than 256.
LEMMA IdTells ==
    ASSUME NEW p \in Peers, NEW i \in 0 .. 255, NEW j \in 0 .. 255, At(p, i) = At(p, j)
    PROVE  i = j
<1>1. FirstId[p] \in 0 .. 255
  BY FirstIdAssumption, IdsAssumption
<1>2. ASSUME NEW f \in 0 .. 255, (f + i) % 256 = (f + j) % 256 PROVE i = j
  BY <1>2
<1> QED
  BY <1>1, <1>2 DEF At

\* A turn stays one.
LEMMA TurnMore ==
    ASSUME NEW p, NEW x, NEW m \in Nat, NEW n \in Nat, m <= n, Turn(p, x, m)
    PROVE  Turn(p, x, n)
BY DEF Turn

\* The answer to a turn has the next one's identifier.
LEMMA TurnNext ==
    ASSUME NEW p \in Peers, NEW r, NEW q, NEW m \in Nat, Turn(p, r, m),
           q.id = ReplyId(r), ~ Opening(q)
    PROVE  Turn(p, q, m + 1)
<1>1. PICK j \in 0 .. m - 1 : r.id = At(p, j)
  BY DEF Turn
<1>2. j \in Nat /\ j + 1 \in 0 .. (m + 1) - 1 /\ j + 1 # 0
  OBVIOUS
<1>3. q.id = At(p, j + 1)
  BY <1>1, <1>2, NextId DEF ReplyId
<1> QED
  BY <1>2, <1>3 DEF Turn

-----------------------------------------------------------------------------
(* Types, and the system as a behaviour of the server. *)

\* What every answer has, and what only fragments have.
LEMMA ReplyFields ==
    ASSUME NEW r \in Reply
    PROVE  /\ r.addr \in Addrs /\ r.id \in Ids
           /\ r.kind \in {"start", "success", "fragment"}
           /\ r.kind = "fragment" =>
                 /\ r.more \in BOOLEAN /\ r.first \in BOOLEAN
                 /\ r.total \in Nat /\ r.cells \in Seq(Cell)
BY DEF Reply

\* What a client sends is a request.
LEMMA TTLSType ==
    ASSUME AllIds, NEW p \in Peers, NEW r, r.id \in Ids, NEW k \in Flights
    PROVE  /\ TTLS(p, ReplyId(r), << >>) \in Request
           /\ TTLS(p, ReplyId(r), << k >>) \in Request
<1>1. ReplyId(r) \in Ids
  BY DEF ReplyId, AllIds
<1>2. AddrOf[p] \in Addrs
  BY AddrOfAssumption
<1> QED
  BY <1>1, <1>2 DEF TTLS, Request

\* Every step of the system is a step of the server or leaves its state alone.
LEMMA ServerStep ==
    ASSUME SystemTypeOK, [SystemNext]_systemVars
    PROVE  [Next]_vars
<1>1. ASSUME NEW a \in Addrs, DeliverFrom(a) PROVE Next
  <2>1. PICK r \in wire : Deliver(r)
    BY <1>1 DEF DeliverFrom
  <2>2. r \in Request
    BY DEF SystemTypeOK
  <2> QED
    BY <2>1, <2>2 DEF Deliver, Next, Environment
<1>2. ASSUME NEW p \in Peers, PeerStart(p) \/ PeerReceives(p) \/ Retransmit(p)
      PROVE  UNCHANGED vars
  BY <1>2 DEF PeerStart, PeerReceives, Retransmit, PeerOnStart, PeerOnFragment, PeerOnFlight,
              PeerOnSuccess, Transmit, Stop
<1> QED
  BY <1>1, <1>2 DEF SystemNext, Next, systemVars

\* No client has begun.
LEMMA SystemTypeInit == SystemInit => SystemTypeOK
<1> SUFFICES ASSUME SystemInit PROVE SystemTypeOK
  OBVIOUS
<1>1. [phase |-> "idle", sent |-> 0, stream |-> << >>, pending |-> None] \in Peer
  <2>1. 0 \in 0 .. Tunnelled
    BY AnswerAssumption DEF Tunnelled
  <2> QED
    BY <2>1 DEF Peer
<1> QED
  BY <1>1, RetransmitsAssumption DEF SystemInit, SystemTypeOK

\* Clients and the network stay within the types.
LEMMA SystemTypeStep ==
    ASSUME AllIds, TypeOK, SystemTypeOK, [SystemNext]_systemVars
    PROVE  SystemTypeOK'
<1> USE DEF SystemTypeOK
<1>0. Tunnelled \in Nat /\ Tunnelled >= 1
  BY AnswerAssumption DEF Tunnelled
<1>1. ASSUME NEW p \in Peers, NEW s \in Peer, s.pending \in Request, Transmit(p, s)
      PROVE  SystemTypeOK'
  BY <1>1 DEF Transmit
<1>2. ASSUME NEW p \in Peers, NEW ph \in {"accepted", "failed"}, Stop(p, ph)
      PROVE  SystemTypeOK'
  BY <1>2 DEF Stop, Peer
<1>3. ASSUME NEW p \in Peers, PeerStart(p) PROVE SystemTypeOK'
  <2>1. PICK u \in Users :
           Transmit(p, [peer[p] EXCEPT !.phase = "identity",
                !.pending = [kind |-> "identity", addr |-> AddrOf[p], id |-> FirstId[p],
                             user |-> u]])
    BY <1>3 DEF PeerStart
  <2>2. [kind |-> "identity", addr |-> AddrOf[p], id |-> FirstId[p], user |-> u] \in Request
    BY AddrOfAssumption, FirstIdAssumption DEF Request
  <2> QED
    BY <1>1, <2>1, <2>2 DEF Peer
<1>4. ASSUME NEW p \in Peers, NEW r \in replies, PeerOnStart(p, r) PROVE SystemTypeOK'
  <2>1. r.id \in Ids /\ 1 \in Flights /\ 1 \in 0 .. Tunnelled
    BY <1>0, ReplyFields DEF TypeOK, Flights
  <2>2. TTLS(p, ReplyId(r), << 1 >>) \in Request
    BY <2>1, TTLSType
  <2> DEFINE t == TTLS(p, ReplyId(r), << 1 >>)
             s == [peer[p] EXCEPT !.phase = "tls", !.sent = 1, !.pending = t]
  <2> HIDE DEF t
  <2>3. s \in Peer /\ s.pending \in Request
    BY <2>1, <2>2 DEF Peer, t
  <2>4. Transmit(p, s)
    BY <1>4 DEF PeerOnStart, t
  <2> HIDE DEF s
  <2> QED
    BY <1>1, <2>3, <2>4
<1>5. ASSUME NEW p \in Peers, NEW r \in replies, PeerOnFragment(p, r) PROVE SystemTypeOK'
  <2>1. r.id \in Ids /\ r.cells \in Seq(Cell) /\ 1 \in Flights
    BY <1>0, <1>5, ReplyFields DEF TypeOK, PeerOnFragment, Flights
  <2>2. TTLS(p, ReplyId(r), << >>) \in Request
    BY <2>1, TTLSType
  <2>3. peer[p].stream \o r.cells \in Seq(Cell)
    BY <2>1 DEF Peer
  <2> QED
    BY <1>1, <1>5, <2>2, <2>3 DEF PeerOnFragment, Peer
<1>6. ASSUME NEW p \in Peers, NEW r \in replies, PeerOnFlight(p, r) PROVE SystemTypeOK'
  <2>1. r.id \in Ids /\ r.cells \in Seq(Cell)
    BY <1>6, ReplyFields DEF TypeOK, PeerOnFlight
  <2>2. peer[p].stream \o r.cells \in Seq(Cell)
    BY <2>1 DEF Peer
  <2>3. ASSUME peer[p].sent < Tunnelled
        PROVE  /\ peer[p].sent + 1 \in 0 .. Tunnelled
               /\ TTLS(p, ReplyId(r), << peer[p].sent + 1 >>) \in Request
    <3>1. peer[p].sent \in 0 .. Tunnelled
      BY DEF Peer
    <3>2. peer[p].sent + 1 \in Flights /\ peer[p].sent + 1 \in 0 .. Tunnelled
      BY <1>0, <2>3, <3>1 DEF Flights
    <3> QED
      BY <2>1, <3>2, TTLSType
  <2> QED
    BY <1>1, <1>2, <1>6, <2>2, <2>3 DEF PeerOnFlight, Peer
<1>7. ASSUME NEW p \in Peers, NEW r \in replies, PeerOnSuccess(p, r) PROVE SystemTypeOK'
  BY <1>2, <1>7 DEF PeerOnSuccess
<1>8. ASSUME NEW p \in Peers, Retransmit(p) PROVE SystemTypeOK'
  BY <1>8, RetransmitsAssumption DEF Retransmit, Peer
<1>9. ASSUME NEW a \in Addrs, DeliverFrom(a) PROVE SystemTypeOK'
  BY <1>9 DEF DeliverFrom, Deliver
<1>10. CASE UNCHANGED peerVars
  BY <1>10 DEF peerVars
<1> QED
  BY <1>3, <1>4, <1>5, <1>6, <1>7, <1>8, <1>9, <1>10
     DEF SystemNext, PeerReceives, systemVars

\* The clients' state is well-typed.
THEOREM SystemTypeTheorem ==
    ASSUME AllIds PROVE SystemSpec => [](TypeOK /\ HandshakeInv /\ SystemTypeOK)
<1>1. SystemInit => TypeOK /\ HandshakeInv /\ SystemTypeOK
  BY TypeInit, HandshakeInit, SystemTypeInit DEF SystemInit
<1>2. TypeOK /\ HandshakeInv /\ SystemTypeOK /\ [SystemNext]_systemVars
        => TypeOK' /\ HandshakeInv' /\ SystemTypeOK'
  BY InvariantStep, SystemTypeStep, ServerStep
<1> QED
  BY <1>1, <1>2, PTL DEF SystemSpec

\* The server with its clients is the server, in an environment that sends
\* requests: all that is proved of Spec holds of SystemSpec.
THEOREM SystemRefinement == ASSUME AllIds PROVE SystemSpec => Spec
<1>1. SystemInit => Init
  BY DEF SystemInit
<1> QED
  BY <1>1, ServerStep, SystemTypeTheorem, PTL DEF SystemSpec, Spec

-----------------------------------------------------------------------------
(* Steps of the server. *)

\* A handler touches no other, answers with the identifier of the packet it
\* serves, feeds the buffer only by Pump and starts engines only by StartEngine.
LEMMA ServeFrame ==
    ASSUME TypeOK, NEW h \in Handlers, AnswerInv(h), KindInv(h), HandlerStep(h)
    PROVE  /\ pc[h] # "idle"
           /\ \A g \in Handlers \ {h} :
                 pc'[g] = pc[g] /\ request'[g] = request[g] /\ reply'[g] = reply[g]
           /\ pc'[h] # "idle" => request'[h] = request[h]
           /\ AnswerInv(h)' /\ KindInv(h)'
           /\ \/ replies' = replies
              \/ pc[h] = "send" /\ replies' = replies \cup {reply[h]}
           /\ received' = received
           /\ tlsIn' = tlsIn \/ Pump(h)
           /\ engine' = engine \/ StartEngine(h)
<1>0. /\ pc \in [Handlers -> Labels]
      /\ request \in [Handlers -> Request \cup {None}]
      /\ reply \in [Handlers -> Reply \cup {None}]
  BY DEF TypeOK
<1> USE <1>0 DEF AnswerInv, KindInv, Opening, Goto, Retire, sessionVars, handlerVars, netVars
<1>1. CASE Identity(h) \/ Ignore(h)
  BY <1>1 DEF Identity, Ignore, Answers
<1>2. CASE Pump(h) \/ TestConn(h) \/ StartEngine(h)
  BY <1>2 DEF Pump, TestConn, StartEngine
<1>3. CASE Available(h) \/ Expire(h) \/ TakeBytes(h)
  BY <1>3 DEF Available, Expire, TakeBytes
<1>4. CASE TestFirst(h) \/ MarkSending(h) \/ MarkSent(h)
  BY <1>4 DEF TestFirst, MarkSending, MarkSent
<1>5. CASE ResetOut(h) \/ Send(h)
  BY <1>5 DEF ResetOut, Send
<1>6. CASE SendChunk(h) \/ Finish(h)
  BY <1>6 DEF SendChunk, Finish, Answers, Fragment
<1> QED
  BY <1>1, <1>2, <1>3, <1>4, <1>5, <1>6 DEF HandlerStep

\* The environment of a client's part: nothing of it but the flights fed to the
\* engines depends on more than the handlers' packets and answers.
LEMMA TurnHandler ==
    ASSUME TypeOK, HandshakeInv, PartInv, NEW h \in Handlers, HandlerStep(h),
           UNCHANGED peerVars, NEW p \in Peers
    PROVE  ClientInv(p)' /\ TurnInv(p)'
<1>0. UNCHANGED <<peer, wire>> /\ replies \subseteq replies' /\ received' = received
  BY ServeFrame DEF PartInv, peerVars
<1>1. ClientInv(p)'
  BY <1>0 DEF PartInv, ClientInv
<1>2. \A g \in Handlers : pc'[g] # "idle" => pc[g] # "idle" /\ request'[g] = request[g]
  BY ServeFrame DEF PartInv
<1>3. ASSUME NEW r \in replies', r.addr = AddrOf[p] PROVE Turn(p, r, received)
  <2>1. CASE r \in replies
    BY <1>3, <2>1 DEF PartInv, TurnInv
  <2>2. CASE r \notin replies
    <3>1. pc[h] = "send" /\ r = reply[h]
      BY <2>2, ServeFrame DEF PartInv
    <3>2. r.addr = request[h].addr /\ r.id = request[h].id /\ (Opening(r) <=> Opening(request[h]))
      BY <3>1 DEF PartInv, AnswerInv
    <3>3. Turn(p, request[h], received)
      BY <1>3, <3>1, <3>2 DEF PartInv, TurnInv
    <3> QED
      BY <3>2, <3>3 DEF Turn
  <2> QED
    BY <2>1, <2>2
<1> QED
  BY <1>0, <1>1, <1>2, <1>3 DEF PartInv, TurnInv

\* Flights of one client stay so when they are taken on.
LEMMA FlightsParts ==
    ASSUME NEW n \in Nat, NEW s \in Seq(1 .. n), NEW t \in Seq(1 .. n)
    PROVE  /\ s \o t \in Seq(1 .. n)
           /\ s # << >> => Tail(s) \in Seq(1 .. n) /\ s[1] \in 1 .. n
           /\ \A m \in Nat : n <= m => s \in Seq(1 .. m)
<1>1. s \o t \in Seq(1 .. n)
  BY ConcatProperties
<1>2. s # << >> => Tail(s) \in Seq(1 .. n) /\ s[1] \in 1 .. n
  BY HeadTailProperties
<1>3. ASSUME NEW m \in Nat, n <= m PROVE s \in Seq(1 .. m)
  <2>1. 1 .. n \subseteq 1 .. m
    BY <1>3
  <2> QED
    BY <2>1, SeqMonotonic
<1> QED
  BY <1>1, <1>2, <1>3

\* A handler feeds the engines of an address with what its packet holds.
LEMMA FedHandler ==
    ASSUME TypeOK, HandshakeInv, SystemTypeOK, PartInv, NEW h \in Handlers, HandlerStep(h),
           UNCHANGED peerVars, NEW p \in Peers
    PROVE  FedInv(p)'
<1> DEFINE a == AddrOf[p]
           n == peer[p].sent
<1>0. /\ UNCHANGED <<peer, wire>>
      /\ a \in Addrs /\ n \in Nat
      /\ tlsIn \in [Addrs -> Seq(Flights)] /\ engine \in [Addrs -> [Handlers -> Engine]]
  BY AddrOfAssumption DEF peerVars, SystemTypeOK, Peer, TypeOK
<1>1. /\ \A r \in wire : r.addr = a => Flown(r, n)
      /\ \A g \in Handlers : pc[g] # "idle" /\ request[g].addr = a => Flown(request[g], n)
      /\ tlsIn[a] \in Seq(1 .. n)
      /\ \A g \in Handlers :
            engine[a][g].raw \in Seq(1 .. n) /\ engine[a][g].expects - 1 <= n
  BY DEF PartInv, FedInv
<1>2. \A g \in Handlers : pc'[g] # "idle" => pc[g] # "idle" /\ request'[g] = request[g]
  BY ServeFrame DEF PartInv
<1>3. tlsIn'[a] \in Seq(1 .. n)
  <2>1. CASE tlsIn' = tlsIn
    BY <1>1, <2>1
  <2>2. CASE Pump(h)
    <3>1. /\ tlsIn' = [tlsIn EXCEPT ![Addr(h)] = @ \o request[h].data]
          /\ pc[h] # "idle" /\ request[h].kind = "ttls"
      BY <2>2 DEF Pump
    <3>2. CASE Addr(h) # a
      BY <1>0, <1>1, <3>1, <3>2
    <3>3. CASE Addr(h) = a
      <4>1. request[h].data \in Seq(1 .. n)
        BY <1>1, <3>1, <3>3 DEF Flown, Addr
      <4>2. tlsIn'[a] = tlsIn[a] \o request[h].data
        BY <1>0, <3>1, <3>3
      <4> QED
        BY <1>0, <1>1, <4>1, <4>2, FlightsParts
    <3> QED
      BY <3>2, <3>3
  <2> QED
    BY <2>1, <2>2, ServeFrame DEF PartInv
<1>4. \A g \in Handlers : engine'[a][g].raw \in Seq(1 .. n) /\ engine'[a][g].expects - 1 <= n
  <2>1. CASE engine' = engine
    BY <1>1, <2>1
  <2>2. CASE StartEngine(h)
    <3>1. engine' = [engine EXCEPT ![Addr(h)][h] = [pc |-> "poll", expects |-> 1, raw |-> << >>]]
      BY <2>2 DEF StartEngine
    <3>2. << >> \in Seq(1 .. n) /\ 1 - 1 <= n
      BY <1>0
    <3> QED
      BY <1>0, <1>1, <3>1, <3>2
  <2> QED
    BY <2>1, <2>2, ServeFrame DEF PartInv
<1> QED
  BY <1>0, <1>1, <1>2, <1>3, <1>4 DEF FedInv

\* An engine takes what is fed to it and answers no flight it was not fed.
LEMMA FedEngine ==
    ASSUME TypeOK, HandshakeInv, SystemTypeOK, PartInv,
           NEW b \in Addrs, NEW h \in Handlers, EngineStep(b, h),
           UNCHANGED peerVars, NEW p \in Peers
    PROVE  FedInv(p)'
<1> DEFINE a == AddrOf[p]
           n == peer[p].sent
           e == engine[a][h]
           f == engine'[a][h]
<1>0. /\ UNCHANGED <<peer, wire, pc, request>>
      /\ a \in Addrs /\ n \in Nat
      /\ tlsIn \in [Addrs -> Seq(Flights)] /\ engine \in [Addrs -> [Handlers -> Engine]]
      /\ \A c \in Addrs, g \in Handlers : c # b \/ g # h => engine'[c][g] = engine[c][g]
  BY AddrOfAssumption, EngineFrame DEF peerVars, SystemTypeOK, Peer, TypeOK
<1>1. /\ \A r \in wire : r.addr = a => Flown(r, n)
      /\ \A g \in Handlers : pc[g] # "idle" /\ request[g].addr = a => Flown(request[g], n)
      /\ tlsIn[a] \in Seq(1 .. n)
      /\ \A g \in Handlers :
            engine[a][g].raw \in Seq(1 .. n) /\ engine[a][g].expects - 1 <= n
  BY DEF PartInv, FedInv
<1>2. << >> \in Seq(1 .. n)
  OBVIOUS
<1>3. tlsIn'[a] \in Seq(1 .. n)
  BY <1>0, <1>1, <1>2 DEF EngineStep, EnginePoll, EngineRead, EngineRun, EngineAlert,
     EngineFinish, sessionVars
<1>4. ASSUME b = a PROVE f.raw \in Seq(1 .. n) /\ f.expects - 1 <= n
  <2>0. e \in Engine /\ e.raw \in Seq(1 .. n) /\ e.expects - 1 <= n
    BY <1>0, <1>1
  <2>1. CASE EnginePoll(a, h)
    BY <1>0, <2>0, <2>1 DEF EnginePoll, Engine
  <2>2. CASE EngineRead(a, h)
    <3>1. f.raw = e.raw \o tlsIn[a] /\ f.expects = e.expects
      BY <1>0, <2>0, <2>2 DEF EngineRead, Engine
    <3> DEFINE r == e.raw
               t == tlsIn[a]
    <3>2. r \in Seq(1 .. n) /\ t \in Seq(1 .. n)
      BY <1>1, <2>0
    <3> HIDE DEF r, t
    <3>3. r \o t \in Seq(1 .. n)
      BY <1>0, <3>2, FlightsParts
    <3>4. f.raw \in Seq(1 .. n)
      BY <3>1, <3>3 DEF r, t
    <3> QED
      BY <2>0, <3>1, <3>4
  <2>3. CASE EngineRun(a, h)
    <3>1. f.raw = Tail(e.raw) /\ f.expects = e.expects + 1 /\ e.raw[1] = e.expects
      BY <1>0, <2>3 DEF EngineRun
    <3>2. e.raw # << >>
      BY <1>0, <2>3 DEF HandshakeInv, EngineInv, EngineRun
    <3>3. Tail(e.raw) \in Seq(1 .. n) /\ e.raw[1] \in 1 .. n
      BY <1>0, <2>0, <3>2, FlightsParts
    <3> QED
      BY <3>1, <3>3
  <2>4. CASE EngineAlert(a, h)
    BY <1>0, <1>2, <2>0, <2>4 DEF EngineAlert, Engine
  <2>5. CASE EngineFinish(a, h)
    BY <1>0, <2>0, <2>5 DEF EngineFinish, Engine
  <2> QED
    BY <1>4, <2>1, <2>2, <2>3, <2>4, <2>5 DEF EngineStep
<1>5. \A g \in Handlers : engine'[a][g].raw \in Seq(1 .. n) /\ engine'[a][g].expects - 1 <= n
  BY <1>0, <1>1, <1>4
<1> QED
  BY <1>0, <1>1, <1>3, <1>5 DEF FedInv

\* No step of the server takes PartInv away.
LEMMA PartServer ==
    ASSUME TypeOK, HandshakeInv, SystemTypeOK, PartInv, Server, UNCHANGED peerVars
    PROVE  PartInv'
<1>1. ASSUME NEW h \in Handlers, HandlerStep(h) PROVE PartInv'
  <2>1. received' <= MaxPackets
    BY <1>1, ServeFrame DEF PartInv
  <2>2. ASSUME NEW g \in Handlers PROVE AnswerInv(g)' /\ KindInv(g)'
    <3>1. CASE g = h
      BY <1>1, <3>1, ServeFrame DEF PartInv
    <3>2. CASE g # h
      <4>1. pc'[g] = pc[g] /\ request'[g] = request[g] /\ reply'[g] = reply[g]
        BY <1>1, <3>2, ServeFrame DEF PartInv
      <4> QED
        BY <4>1 DEF PartInv, AnswerInv, KindInv
    <3> QED
      BY <3>1, <3>2
  <2> QED
    BY <1>1, <2>1, <2>2, TurnHandler, FedHandler DEF PartInv
<1>2. ASSUME NEW b \in Addrs, NEW h \in Handlers, EngineStep(b, h) PROVE PartInv'
  <2>1. UNCHANGED <<pc, request, reply, replies>>
    BY <1>2, EngineFrame
  <2>2. received' = received
    BY <1>2 DEF EngineStep, EnginePoll, EngineRead, EngineRun, EngineAlert, EngineFinish, netVars
  <2>3. \A g \in Handlers : AnswerInv(g)' /\ KindInv(g)'
    BY <2>1 DEF PartInv, AnswerInv, KindInv
  <2>4. ASSUME NEW p \in Peers PROVE ClientInv(p)' /\ TurnInv(p)'
    BY <2>1, <2>2 DEF PartInv, ClientInv, TurnInv, peerVars
  <2> QED
    BY <1>2, <2>2, <2>3, <2>4, FedEngine DEF PartInv
<1> QED
  BY <1>1, <1>2 DEF Server

-----------------------------------------------------------------------------
(* Steps of the clients and the network. *)

\* A client that sends a request of its next turn.
LEMMA PartTransmit ==
    ASSUME OwnAddresses, TypeOK, SystemTypeOK, PartInv, NEW p \in Peers, NEW s \in Peer,
           Transmit(p, s), s.pending \in Request, s.pending.addr = AddrOf[p],
           s.phase \in {"identity", "tls"}, peer[p].sent <= s.sent,
           Turn(p, s.pending, received + 1), Flown(s.pending, s.sent),
           Opening(s.pending) => s.sent = 0,
           s.sent >= 1 => IsPrefix(Stream(s.sent - 1), s.stream)
    PROVE  PartInv'
<1>1. /\ peer' = [peer EXCEPT ![p] = s] /\ wire' = wire \cup {s.pending}
      /\ UNCHANGED <<tlsIn, engine, pc, request, reply, replies, received>>
  BY DEF Transmit, vars, sessionVars, handlerVars, netVars
<1>2. peer \in [Peers -> Peer] /\ peer'[p] = s
  BY <1>1 DEF SystemTypeOK
<1>3. \A g \in Handlers : AnswerInv(g)' /\ KindInv(g)'
  BY <1>1 DEF PartInv, AnswerInv, KindInv
<1>4. ASSUME NEW q \in Peers \ {p} PROVE ClientInv(q)' /\ TurnInv(q)' /\ FedInv(q)'
  <2>1. peer'[q] = peer[q]
    BY <1>1, <1>2
  <2>2. \A r \in wire' : r.addr = AddrOf[q] => r \in wire
    BY <1>1 DEF OwnAddresses
  <2> QED
    BY <1>1, <2>1, <2>2 DEF PartInv, ClientInv, TurnInv, FedInv
<1>5. ClientInv(p)'
  BY <1>1, <1>2 DEF ClientInv
<1>6. TurnInv(p)'
  BY <1>1 DEF PartInv, TurnInv
<1>7. FedInv(p)'
  <2> DEFINE a == AddrOf[p]
             m == peer[p].sent
             n == s.sent
  <2>1. m \in Nat /\ n \in Nat /\ m <= n /\ peer'[p].sent = n
    BY <1>2 DEF Peer
  <2>2. \A t \in Seq(1 .. m) : t \in Seq(1 .. n)
    BY <2>1, FlightsParts
  <2>3. /\ \A r \in wire : r.addr = a => Flown(r, m)
        /\ \A g \in Handlers : pc[g] # "idle" /\ request[g].addr = a => Flown(request[g], m)
        /\ tlsIn[a] \in Seq(1 .. m)
        /\ \A g \in Handlers :
              engine[a][g].raw \in Seq(1 .. m) /\ engine[a][g].expects - 1 <= m
    BY DEF PartInv, FedInv
  <2>4. \A g \in Handlers : engine[a][g].expects \in Nat
    BY AddrOfAssumption DEF TypeOK, Engine
  <2>5. \A g \in Handlers : engine[a][g].expects - 1 <= n
    BY <2>1, <2>3, <2>4, SMTT(30)
  <2>6. \A r : Flown(r, m) => Flown(r, n)
    BY <2>2 DEF Flown
  <2> HIDE DEF m, n
  <2>7. \A r \in wire' : r.addr = a => Flown(r, n)
    BY <1>1, <2>3, <2>6 DEF n
  <2> QED
    BY <1>1, <2>1, <2>2, <2>3, <2>5, <2>6, <2>7 DEF FedInv
<1> QED
  BY <1>1, <1>3, <1>4, <1>5, <1>6, <1>7 DEF PartInv

\* A client that has done.
LEMMA PartStop ==
    ASSUME SystemTypeOK, PartInv, NEW p \in Peers, NEW ph \in {"accepted", "failed"},
           Stop(p, ph),
           ph = "accepted" => \E r \in replies : r.kind = "success" /\ r.addr = AddrOf[p]
    PROVE  PartInv'
<1>1. /\ peer' = [peer EXCEPT ![p].phase = ph, ![p].pending = None]
      /\ UNCHANGED <<wire, tlsIn, engine, pc, request, reply, replies, received>>
  BY DEF Stop, vars, sessionVars, handlerVars, netVars
<1>2. /\ peer'[p].phase = ph /\ peer'[p].pending = None
      /\ peer'[p].sent = peer[p].sent /\ peer'[p].stream = peer[p].stream
      /\ \A q \in Peers \ {p} : peer'[q] = peer[q]
  BY <1>1 DEF SystemTypeOK, Peer
<1>3. \A g \in Handlers : AnswerInv(g)' /\ KindInv(g)'
  BY <1>1 DEF PartInv, AnswerInv, KindInv
<1>4. \A q \in Peers : TurnInv(q)' /\ FedInv(q)'
  BY <1>1, <1>2 DEF PartInv, TurnInv, FedInv
<1>5. ClientInv(p)'
  BY <1>1, <1>2 DEF PartInv, ClientInv
<1>6. \A q \in Peers \ {p} : ClientInv(q)'
  BY <1>1, <1>2, ZenonT(40) DEF PartInv, ClientInv
<1> QED
  BY <1>1, <1>3, <1>4, <1>5, <1>6 DEF PartInv

\* Which answer the client takes: one of the turn it waits for.
LEMMA AnsweredTurn ==
    ASSUME ShortRun, TypeOK, SystemTypeOK, PartInv, NEW p \in Peers, NEW r \in replies,
           Answered(p, r)
    PROVE  /\ Turn(p, r, received)
           /\ Opening(r) <=> Opening(peer[p].pending)
           /\ received \in Nat /\ r \in Reply
<1>1. Turn(p, r, received)
  BY DEF Answered, PartInv, TurnInv
<1>2. Turn(p, peer[p].pending, received + 1)
  BY DEF Answered, PartInv, ClientInv
<1>3. received \in Nat /\ received <= 255
  BY BoundAssumption DEF TypeOK, PartInv, ShortRun
<1>4. PICK i \in 0 .. received - 1 : r.id = At(p, i) /\ (Opening(r) <=> i = 0)
  BY <1>1 DEF Turn
<1>5. PICK j \in 0 .. (received + 1) - 1 :
         peer[p].pending.id = At(p, j) /\ (Opening(peer[p].pending) <=> j = 0)
  BY <1>2 DEF Turn
<1>6. i \in 0 .. 255 /\ j \in 0 .. 255
  BY <1>3
<1>7. i = j
  BY <1>4, <1>5, <1>6, IdTells DEF Answered
<1> QED
  BY <1>1, <1>3, <1>4, <1>5, <1>7 DEF TypeOK

\* The clients' steps.
LEMMA PartClient ==
    ASSUME OwnAddresses, AllIds, ShortRun, TypeOK, SystemTypeOK, PartInv, NEW p \in Peers,
           PeerStart(p) \/ PeerReceives(p) \/ Retransmit(p)
    PROVE  PartInv'
<1>0. /\ peer[p] \in Peer /\ peer[p].sent \in 0 .. Tunnelled /\ Tunnelled \in Nat
      /\ peer[p].stream \in Seq(Cell)
      /\ received \in Nat /\ Tunnelled >= 1
  BY AnswerAssumption DEF SystemTypeOK, Peer, TypeOK, Tunnelled
<1>9. ClientInv(p)
  BY DEF PartInv
<1>1. CASE PeerStart(p)
  <2>1. PICK u \in Users :
           Transmit(p, [peer[p] EXCEPT !.phase = "identity",
                !.pending = [kind |-> "identity", addr |-> AddrOf[p], id |-> FirstId[p],
                             user |-> u]])
    BY <1>1 DEF PeerStart
  <2> DEFINE r == [kind |-> "identity", addr |-> AddrOf[p], id |-> FirstId[p], user |-> u]
             s == [peer[p] EXCEPT !.phase = "identity", !.pending = r]
  <2>2. r \in Request
    BY AddrOfAssumption, FirstIdAssumption DEF Request
  <2>3. peer[p].sent = 0
    BY <1>1, <1>9 DEF PeerStart, ClientInv
  <2>4. Turn(p, r, received + 1)
    <3>1. 0 \in 0 .. (received + 1) - 1
      BY <1>0
    <3> QED
      BY <3>1, NextId DEF Turn, Opening
  <2>5. Flown(r, 0) /\ r.addr = AddrOf[p]
    BY DEF Flown
  <2> HIDE DEF r
  <2>6. /\ s \in Peer /\ s.pending = r /\ s.sent = 0 /\ s.phase = "identity"
    BY <1>0, <2>2, <2>3 DEF Peer
  <2>7. Transmit(p, s)
    BY <2>1 DEF r
  <2> HIDE DEF s
  <2> QED
    BY <2>2, <2>3, <2>4, <2>5, <2>6, <2>7, PartTransmit
<1>2. ASSUME NEW r \in replies, PeerOnStart(p, r) PROVE PartInv'
  <2> DEFINE t == TTLS(p, ReplyId(r), << 1 >>)
             s == [peer[p] EXCEPT !.phase = "tls", !.sent = 1, !.pending = t]
  <2>1. Answered(p, r) /\ r.kind = "start" /\ Transmit(p, s)
    BY <1>2 DEF PeerOnStart
  <2>2. Turn(p, r, received) /\ Opening(peer[p].pending) /\ r \in Reply
    BY <2>1, AnsweredTurn DEF Opening
  <2>3. peer[p].sent = 0
    BY <1>9, <2>1, <2>2 DEF ClientInv, Answered
  <2>4. t \in Request
    BY <1>0, <2>2, ReplyFields, TTLSType DEF Flights
  <2>5. /\ t.kind = "ttls" /\ t.id = ReplyId(r) /\ t.addr = AddrOf[p] /\ ~ Opening(t)
        /\ Flown(t, 1)
    BY DEF TTLS, Opening, Flown
  <2> HIDE DEF t
  <2>6. Turn(p, t, received + 1)
    BY <1>0, <2>2, <2>5, TurnNext
  <2>7. /\ s \in Peer /\ s.pending = t /\ s.sent = 1 /\ s.phase = "tls"
        /\ s.stream = peer[p].stream
    <3>1. 1 \in 0 .. Tunnelled
      BY <1>0
    <3> QED
      BY <1>0, <2>4, <3>1 DEF Peer
  <2>8. IsPrefix(Stream(s.sent - 1), s.stream)
    <3>1. s.sent - 1 = 0 /\ Stream(0) = << >>
      BY <2>7, StreamStep
    <3>2. IsPrefix(<< >>, peer[p].stream)
      BY <1>0, PrefixFacts
    <3> QED
      BY <2>7, <3>1, <3>2
  <2> HIDE DEF s
  <2> QED
    BY <2>1, <2>3, <2>4, <2>5, <2>6, <2>7, <2>8, PartTransmit
<1>3. ASSUME NEW r \in replies, PeerOnFragment(p, r) PROVE PartInv'
  <2> DEFINE t == TTLS(p, ReplyId(r), << >>)
             s == [peer[p] EXCEPT !.stream = @ \o r.cells, !.pending = t]
  <2>1. Answered(p, r) /\ r.kind = "fragment" /\ Transmit(p, s)
    BY <1>3 DEF PeerOnFragment
  <2>2. Turn(p, r, received) /\ ~ Opening(peer[p].pending) /\ r \in Reply
    BY <2>1, AnsweredTurn DEF Opening
  <2>3. 1 \in Flights /\ r.id \in Ids /\ r.cells \in Seq(Cell)
    BY <1>0, <2>1, <2>2, ReplyFields DEF Flights
  <2>4. t \in Request
    BY <2>3, TTLSType
  <2>5. /\ t.kind = "ttls" /\ t.id = ReplyId(r) /\ t.addr = AddrOf[p] /\ ~ Opening(t)
        /\ Flown(t, peer[p].sent)
    BY DEF TTLS, Opening, Flown
  <2> HIDE DEF t
  <2>6. Turn(p, t, received + 1)
    BY <1>0, <2>2, <2>5, TurnNext
  <2>7. peer[p].stream \o r.cells \in Seq(Cell)
    BY <1>0, <2>3
  <2>8. /\ s \in Peer /\ s.pending = t /\ s.sent = peer[p].sent /\ s.phase = peer[p].phase
        /\ s.stream = peer[p].stream \o r.cells
    BY <1>0, <2>4, <2>7 DEF Peer
  <2>9. s.sent >= 1 => IsPrefix(Stream(s.sent - 1), s.stream)
    <3>1. IsPrefix(peer[p].stream, peer[p].stream \o r.cells)
      BY <1>0, <2>3, PrefixFacts
    <3>2. peer[p].sent >= 1 => /\ Stream(peer[p].sent - 1) \in Seq(Cell)
                               /\ IsPrefix(Stream(peer[p].sent - 1), peer[p].stream)
      <4>1. peer[p].sent >= 1 => peer[p].sent - 1 \in Nat
        BY <1>0
      <4> QED
        BY <1>9, <4>1, StreamStep DEF ClientInv
    <3>3. peer[p].sent >= 1 => IsPrefix(Stream(peer[p].sent - 1), peer[p].stream \o r.cells)
      BY <1>0, <2>7, <3>1, <3>2, PrefixTrans
    <3> QED
      BY <2>8, <3>3
  <2>10. s.phase \in {"identity", "tls"}
    BY <1>9, <2>1, <2>8 DEF ClientInv, Answered
  <2> HIDE DEF s
  <2>11. /\ Transmit(p, s) /\ s.pending.addr = AddrOf[p]
         /\ Turn(p, s.pending, received + 1) /\ Flown(s.pending, s.sent) /\ ~ Opening(s.pending)
    BY <2>1, <2>5, <2>6, <2>8
  <2>12. peer[p].sent <= s.sent
    BY <1>0, <2>8
  <2> QED
    BY <2>4, <2>8, <2>9, <2>10, <2>11, <2>12, PartTransmit
<1>4. ASSUME NEW r \in replies, PeerOnFlight(p, r) PROVE PartInv'
  <2> DEFINE c == peer[p]
             got == c.stream \o r.cells
             t == TTLS(p, ReplyId(r), << c.sent + 1 >>)
             s == [c EXCEPT !.stream = got, !.sent = @ + 1, !.pending = t]
  <2>1. /\ Answered(p, r) /\ r.kind = "fragment"
        /\ IF got = Stream(c.sent) /\ c.sent < Tunnelled THEN Transmit(p, s) ELSE Stop(p, "failed")
    BY <1>4 DEF PeerOnFlight
  <2>2. CASE ~ (got = Stream(c.sent) /\ c.sent < Tunnelled)
    BY <2>1, <2>2, PartStop
  <2>3. CASE got = Stream(c.sent) /\ c.sent < Tunnelled
    <3>1. Turn(p, r, received) /\ r \in Reply
      BY <2>1, AnsweredTurn
    <3>2. r.id \in Ids /\ r.cells \in Seq(Cell)
      BY <2>1, <3>1, ReplyFields
    <3>3. c.sent + 1 \in Flights /\ c.sent + 1 \in 0 .. Tunnelled /\ c.sent \in Nat
      BY <1>0, <2>3 DEF Flights
    <3>4. t \in Request
      BY <3>2, <3>3, TTLSType
    <3>5. /\ t.kind = "ttls" /\ t.id = ReplyId(r) /\ t.addr = AddrOf[p] /\ ~ Opening(t)
          /\ t.data = << c.sent + 1 >>
      BY DEF TTLS, Opening
    <3>6. Flown(t, c.sent + 1)
      <4>1. c.sent + 1 \in 1 .. c.sent + 1
        BY <3>3
      <4> QED
        BY <3>5, <4>1, SMTT(30) DEF Flown
    <3> HIDE DEF t
    <3>7. Turn(p, t, received + 1)
      BY <1>0, <3>1, <3>5, TurnNext
    <3>8. got \in Seq(Cell)
      BY <1>0, <3>2
    <3> HIDE DEF got
    <3>9. /\ s \in Peer /\ s.pending = t /\ s.sent = c.sent + 1 /\ s.phase = c.phase
          /\ s.stream = got
      BY <1>0, <3>3, <3>4, <3>8 DEF Peer
    <3>10. IsPrefix(Stream(s.sent - 1), s.stream)
      <4>1. s.sent - 1 = c.sent
        BY <3>3, <3>9
      <4> QED
        BY <2>3, <3>8, <3>9, <4>1, PrefixFacts
    <3>11. s.phase \in {"identity", "tls"} /\ c.sent <= s.sent
      BY <1>9, <2>1, <3>3, <3>9 DEF ClientInv, Answered
    <3>12. Transmit(p, s)
      BY <2>1, <2>3
    <3> HIDE DEF s
    <3> QED
      BY <3>4, <3>5, <3>6, <3>7, <3>9, <3>10, <3>11, <3>12, PartTransmit
  <2> QED
    BY <2>2, <2>3
<1>5. ASSUME NEW r \in replies, PeerOnSuccess(p, r) PROVE PartInv'
  BY <1>5, PartStop DEF PeerOnSuccess, Answered
<1>6. CASE Retransmit(p)
  <2>1. /\ UNCHANGED <<peer, tlsIn, engine, pc, request, reply, replies, received>>
        /\ wire' = wire \cup {peer[p].pending} /\ peer[p].pending # None
    BY <1>6 DEF Retransmit, vars, sessionVars, handlerVars, netVars
  <2>2. \A g \in Handlers : AnswerInv(g)' /\ KindInv(g)'
    BY <2>1 DEF PartInv, AnswerInv, KindInv
  <2>3. \A q \in Peers : ClientInv(q)'
    BY <2>1 DEF PartInv, ClientInv
  <2>4. /\ peer[p].pending.addr = AddrOf[p] /\ Turn(p, peer[p].pending, received + 1)
        /\ Flown(peer[p].pending, peer[p].sent)
    BY <1>9, <2>1 DEF ClientInv
  <2>5. ASSUME NEW q \in Peers, NEW r \in wire', r.addr = AddrOf[q]
        PROVE  Turn(q, r, received + 1) /\ Flown(r, peer[q].sent)
    <3>1. CASE r \in wire
      BY <2>5, <3>1 DEF PartInv, TurnInv, FedInv
    <3>2. CASE r = peer[p].pending
      <4>1. q = p
        BY <2>4, <2>5, <3>2 DEF OwnAddresses
      <4> QED
        BY <2>4, <3>2, <4>1
    <3> QED
      BY <2>1, <3>1, <3>2
  <2>6. \A q \in Peers : TurnInv(q)' /\ FedInv(q)'
    BY <2>1, <2>5 DEF PartInv, TurnInv, FedInv
  <2> QED
    BY <2>1, <2>2, <2>3, <2>6 DEF PartInv
<1> QED
  BY <1>1, <1>2, <1>3, <1>4, <1>5, <1>6 DEF PeerReceives

\* A request that is delivered counts as received.
LEMMA PartDeliver ==
    ASSUME TypeOK, SystemTypeOK, PartInv, NEW a \in Addrs, DeliverFrom(a)
    PROVE  PartInv'
<1>1. PICK r \in wire : Deliver(r)
  BY DEF DeliverFrom
<1>2. PICK h \in Handlers : Receive(h, r)
  BY <1>1 DEF Deliver
<1>3. /\ UNCHANGED <<peer, tlsIn, engine, reply, replies>>
      /\ wire' \subseteq wire /\ received' = received + 1 /\ received < MaxPackets
      /\ pc[h] = "idle" /\ pc'[h] = "switch" /\ request'[h] = r
      /\ \A g \in Handlers \ {h} : pc'[g] = pc[g] /\ request'[g] = request[g]
  BY <1>1, <1>2 DEF Deliver, Receive, Goto, TypeOK
<1>4. received \in Nat /\ received' \in Nat /\ received <= received' /\ received' <= MaxPackets
  BY <1>3, BoundAssumption DEF TypeOK
<1>5. \A g \in Handlers : AnswerInv(g)' /\ KindInv(g)'
  BY <1>3 DEF PartInv, AnswerInv, KindInv
<1>6. ASSUME NEW p \in Peers PROVE ClientInv(p)'
  <2>1. peer[p].pending # None => Turn(p, peer[p].pending, received' + 1)
    BY <1>4, TurnMore DEF PartInv, ClientInv
  <2> QED
    BY <1>3, <2>1 DEF PartInv, ClientInv
<1>7. ASSUME NEW p \in Peers PROVE TurnInv(p)'
  <2>1. \A x \in wire : x.addr = AddrOf[p] => Turn(p, x, received') /\ Turn(p, x, received' + 1)
    BY <1>3, <1>4, TurnMore DEF PartInv, TurnInv
  <2>2. ASSUME NEW g \in Handlers, pc'[g] # "idle", request'[g].addr = AddrOf[p]
        PROVE  Turn(p, request'[g], received')
    <3>1. CASE g = h
      BY <1>3, <2>1, <2>2, <3>1
    <3>2. CASE g # h
      <4>1. Turn(p, request[g], received)
        BY <1>3, <2>2, <3>2 DEF PartInv, TurnInv
      <4> QED
        BY <1>3, <1>4, <3>2, <4>1, TurnMore
    <3> QED
      BY <3>1, <3>2
  <2>3. \A x \in replies : x.addr = AddrOf[p] => Turn(p, x, received')
    BY <1>4, TurnMore DEF PartInv, TurnInv
  <2> QED
    BY <1>3, <2>1, <2>2, <2>3 DEF TurnInv
<1>8. ASSUME NEW p \in Peers PROVE FedInv(p)'
  BY <1>3 DEF PartInv, FedInv
<1> QED
  BY <1>4, <1>5, <1>6, <1>7, <1>8 DEF PartInv

-----------------------------------------------------------------------------
(* The clients' part. *)

\* Nothing has been sent.
LEMMA PartInit ==
    ASSUME SystemInit, TypeOK, SystemTypeOK PROVE PartInv
<1>1. /\ received = 0 /\ replies = {} /\ wire = {}
      /\ \A h \in Handlers : pc[h] = "idle"
      /\ \A a \in Addrs : tlsIn[a] = << >>
      /\ \A a \in Addrs, h \in Handlers : engine[a][h].expects = 1 /\ engine[a][h].raw = << >>
      /\ \A p \in Peers : /\ peer[p].phase = "idle" /\ peer[p].sent = 0
                          /\ peer[p].pending = None
  BY DEF SystemInit, Init
<1>2. \A p \in Peers : AddrOf[p] \in Addrs
  BY AddrOfAssumption
<1>3. \A p \in Peers : ClientInv(p)
  BY <1>1 DEF ClientInv
<1>4. \A p \in Peers : TurnInv(p)
  BY <1>1 DEF TurnInv
<1>5. \A p \in Peers : FedInv(p)
  <2>1. << >> \in Seq(1 .. 0) /\ 1 - 1 <= 0
    OBVIOUS
  <2> QED
    BY <1>1, <1>2, <2>1 DEF FedInv
<1>6. \A h \in Handlers : AnswerInv(h) /\ KindInv(h)
  BY <1>1 DEF AnswerInv, KindInv
<1> QED
  BY <1>1, <1>3, <1>4, <1>5, <1>6, BoundAssumption DEF PartInv

\* No step takes PartInv away.
LEMMA PartStep ==
    ASSUME OwnAddresses, AllIds, ShortRun, TypeOK, HandshakeInv, SystemTypeOK, PartInv,
           [SystemNext]_systemVars
    PROVE  PartInv'
<1>1. CASE UNCHANGED systemVars
  <2> USE <1>1 DEF systemVars, peerVars, vars, sessionVars, handlerVars, netVars
  <2>1. \A h \in Handlers : AnswerInv(h)' /\ KindInv(h)'
    BY DEF PartInv, AnswerInv, KindInv
  <2>2. \A p \in Peers : ClientInv(p)'
    BY DEF PartInv, ClientInv
  <2>3. \A p \in Peers : TurnInv(p)'
    BY DEF PartInv, TurnInv
  <2>4. \A p \in Peers : FedInv(p)'
    BY DEF PartInv, FedInv
  <2> QED
    BY <2>1, <2>2, <2>3, <2>4 DEF PartInv
<1> QED
  BY <1>1, PartServer, PartClient, PartDeliver DEF SystemNext

\* A client that is accepted has sent every flight, since the engine that
\* completed counted no other, and has seen the answers before the last.
LEMMA PartImplies ==
    ASSUME TypeOK, HandshakeInv, SystemTypeOK, PartInv PROVE AcceptedPeerTookPart
<1> SUFFICES ASSUME NEW p \in Peers, peer[p].phase = "accepted"
             PROVE  /\ peer[p].sent >= Len(Answer)
                    /\ IsPrefix(Stream(Len(Answer) - 1), peer[p].stream)
  BY DEF AcceptedPeerTookPart
<1> DEFINE a == AddrOf[p]
           n == peer[p].sent
<1>1. a \in Addrs /\ n \in Nat /\ peer[p].stream \in Seq(Cell) /\ Len(Answer) \in Nat \ {0}
  BY AddrOfAssumption, AnswerAssumption DEF SystemTypeOK, Peer
<1>2. auth[a]
  BY DEF PartInv, ClientInv, HandshakeInv, SuccessInv
<1>3. PICK h \in Handlers : engine[a][h].expects = Len(Answer) + 1
  BY <1>1, <1>2 DEF HandshakeInv, SuccessInv, Completed
<1>4. n >= Len(Answer)
  BY <1>1, <1>3 DEF PartInv, FedInv
<1>5. /\ Len(Answer) - 1 \in Nat /\ n - 1 \in Nat /\ Len(Answer) - 1 <= n - 1 /\ n >= 1
  BY <1>1, <1>4
<1>6. IsPrefix(Stream(n - 1), peer[p].stream)
  BY <1>5 DEF PartInv, ClientInv
<1>7. IsPrefix(Stream(Len(Answer) - 1), Stream(n - 1))
  BY <1>5, StreamGrows
<1>8. Stream(n - 1) \in Seq(Cell) /\ Stream(Len(Answer) - 1) \in Seq(Cell)
  BY <1>5, StreamStep
<1>10. IsPrefix(Stream(Len(Answer) - 1), peer[p].stream)
  BY <1>1, <1>6, <1>7, <1>8, PrefixTrans
<1> QED
  BY <1>4, <1>10

\* A client with an address of its own is accepted only when it has itself been
\* through the handshake, whatever is sent again, overtaken or late.
THEOREM TookPartTheorem ==
    ASSUME OwnAddresses, AllIds, ShortRun
    PROVE  SystemSpec => []AcceptedPeerTookPart
<1>1. TypeOK /\ HandshakeInv /\ SystemTypeOK /\ SystemInit => PartInv
  BY PartInit
<1>2. TypeOK /\ HandshakeInv /\ SystemTypeOK /\ PartInv /\ [SystemNext]_systemVars => PartInv'
  BY PartStep
<1>3. TypeOK /\ HandshakeInv /\ SystemTypeOK /\ PartInv => AcceptedPeerTookPart
  BY PartImplies
<1> QED
  BY <1>1, <1>2, <1>3, SystemTypeTheorem, PTL DEF SystemSpec

-----------------------------------------------------------------------------
(* Clients in lock-step. *)


\* The last hypothesis: no request is sent again.
NoCopies == Retransmits = 0

\* Handler h serves a packet of address a.
Works(h, a) == pc[h] # "idle" /\ request[h].addr = a

\* The request of p that is under way: where it is, what answers it, and that
\* no answer yet has the identifier of a later one.
LinkInv(p) ==
    LET a == AddrOf[p]
        q == peer[p].pending IN
    /\ peer[p].phase # "failed"
    /\ \A r \in wire : r.addr = a => r = q
    /\ \A h \in Handlers : Works(h, a) => request[h] = q /\ q \notin wire
    /\ \A g, h \in Handlers : Works(g, a) /\ Works(h, a) => g = h
    /\ \A r \in replies : Answered(p, r) => q \notin wire /\ \A h \in Handlers : ~ Works(h, a)
    /\ peer[p].phase = "idle" => \A r \in replies : r.addr # a
    /\ q # None => \E j \in 0 .. received :
                      /\ q.id = At(p, j)
                      /\ \A r \in replies : r.addr = a => \E i \in 0 .. j : r.id = At(p, i)

\* No second engine is started for p's session.
OneEngine(p) ==
    \A g, h \in Handlers :
        engine[AddrOf[p]][g].pc # "off" /\ engine[AddrOf[p]][h].pc # "off" => g = h

\* The pending request is not in the engine's buffer yet.
Unfed(p) ==
    \/ peer[p].pending \in wire
    \/ \E h \in Handlers : Works(h, AddrOf[p]) /\ pc[h] = "switch"

\* The engine in state e has flight n, if anything, to consume.
Consumes(e, n, in) ==
    /\ e.pc # "off" => e.expects = n /\ e.pc # "failed"
    /\ e.pc = "read" => in # << >>
    /\ IF e.pc = "run" THEN e.raw = << n >> /\ in = << >> ELSE e.raw = << >>

\* The engine has yet to answer p's last flight, which is on its way to it.
Before(p) ==
    LET a == AddrOf[p]
        n == peer[p].sent
        q == peer[p].pending IN
    /\ n >= 1 /\ q.kind = "ttls" /\ q.data = << n >>
    /\ peer[p].stream = Stream(n - 1) /\ tlsOut[a] = << >>
    /\ n >= 2 => conn[a]
    /\ state[a] = 2 <=> n = 1 /\ conn[a]
    /\ \A r \in replies : ~ Answered(p, r)
    /\ \A h \in Handlers :
          Works(h, a) => /\ pc[h] \in {"switch", "conn", "start", "wait"}
                         /\ pc[h] = "start" => ~ conn[a]
    /\ tlsIn[a] \in {<< >>, << n >>}
    /\ \A h \in Handlers : Consumes(engine[a][h], n, tlsIn[a])
    /\ Unfed(p) => tlsIn[a] = << >> /\ \A h \in Handlers : engine[a][h].pc # "run"

\* TLSBufOut holds what p has yet to get of all that is said so far.  State is
\* 2 as long as p has nothing of the first answer, and then never again.
Due(p)      == peer[p].stream \o tlsOut[AddrOf[p]] = Stream(peer[p].sent)
Fresh(p)    == peer[p].sent = 1 /\ peer[p].stream = << >>
Unmarked(p) == state[AddrOf[p]] = 2 <=> Fresh(p)
Marked(p)   == state[AddrOf[p]] # 2

\* The answer r takes p on to what TLSBufOut still holds, or to all there is.
Carries(p, r) ==
    r.kind = "fragment" =>
        /\ Marked(p)
        /\ (peer[p].stream \o r.cells) \o tlsOut[AddrOf[p]] = Stream(peer[p].sent)
        /\ IF r.more THEN r.cells # << >> ELSE tlsOut[AddrOf[p]] = << >>

\* What handler h is about to send is what TLSBufOut holds, then what it held.
Holds(p, h) ==
    /\ pc[h] # "start"
    /\ pc[h] \in {"more", "mark", "next", "last", "reset"} => output[h] = tlsOut[AddrOf[p]]
    /\ pc[h] = "mark" => first[h] /\ Fresh(p)
    /\ pc[h] = "next" => (first[h] <=> Fresh(p))
    /\ pc[h] \in {"next", "reset"} => Due(p) /\ Marked(p)
    /\ pc[h] = "finish" => /\ Marked(p) /\ tlsOut[AddrOf[p]] = << >>
                           /\ peer[p].stream \o output[h] = Stream(peer[p].sent)
    /\ pc[h] = "send" => Carries(p, reply[h])

\* Where a handler is before it changes anything of the answer.
Early == {"switch", "conn", "wait", "bytes", "more", "mark", "last"}

\* The engine has answered p's last flight, or p has sent none.
After(p) ==
    LET a == AddrOf[p]
        n == peer[p].sent
        q == peer[p].pending IN
    /\ tlsIn[a] = << >>
    /\ IF n = 0 THEN /\ ~ conn[a] /\ Marked(p) /\ (q = None \/ Opening(q))
                     /\ peer[p].stream = << >> /\ tlsOut[a] = << >>
                ELSE q.kind = "ttls" /\ \E h \in Handlers : engine[a][h].pc # "off"
    /\ \A h \in Handlers :
          LET e == engine[a][h] IN
          /\ e.pc # "off" => e.expects = n + 1 /\ e.pc \in {"poll", "returned", "finished"}
          /\ e.raw = << >>
    /\ n >= 1 /\ Unfed(p) => q.data = << >>
    /\ \A h \in Handlers : Works(h, a) => Holds(p, h)
    /\ \A r \in replies : Answered(p, r) => Carries(p, r)
    /\ \/ \E r \in replies : Answered(p, r)
       \/ \E h \in Handlers : Works(h, a) /\ pc[h] \notin Early
       \/ Due(p) /\ Unmarked(p)

\* A conversation that is not over is at one of the stages.
StageInv(p) == peer[p].phase = "accepted" \/ Before(p) \/ After(p)

PairInv(p) == LinkInv(p) /\ OneEngine(p) /\ StageInv(p)

\* All requests are the clients'.  A handler's locals are empty until it has
\* taken output.
Owned(x) == \E p \in Peers : x.addr = AddrOf[p]

LocalInv(h) ==
    /\ pc[h] # "idle" => Owned(request[h])
    /\ first[h] => pc[h] \in {"mark", "next", "send"}
    /\ output[h] # << >> => pc[h] \in {"more", "mark", "next", "last", "reset", "finish", "send"}
    /\ pc[h] = "send" => Announced(reply[h])

LockInv ==
    /\ \A r \in wire : Owned(r)
    /\ \A r \in replies : Announced(r)
    /\ \A h \in Handlers : LocalInv(h)
    /\ \A p \in Peers : PairInv(p)

-----------------------------------------------------------------------------
(* The stream. *)

\* The first cell of the first answer comes first, and nowhere else.
LEMMA FirstCellOnce ==
    ASSUME NEW n \in Nat, NEW i \in 1 .. Len(Stream(n)), Stream(n)[i] = <<1, 1>>
    PROVE  i = 1
<1> DEFINE T == {m \in Nat : \A j \in 1 .. Len(Stream(m)) : Stream(m)[j] = <<1, 1>> => j = 1}
<1>1. 0 \in T
  <2>1. 1 .. Len(<< >>) = {}
    OBVIOUS
  <2> QED
    BY <2>1, StreamStep
<1>2. ASSUME NEW m \in T PROVE m + 1 \in T
  <2> DEFINE s == Stream(m)
             t == AnswerTo(m + 1)
  <2>1. m \in Nat /\ m + 1 \in Nat /\ \A j \in 1 .. Len(s) : s[j] = <<1, 1>> => j = 1
    OBVIOUS
  <2> HIDE DEF T
  <2>2. /\ s \in Seq(Cell) /\ t \in Seq(Cell) /\ Stream(m + 1) = s \o t
        /\ m = 0 => s = << >>
    BY <2>1, StreamStep
  <2>3. \A j \in 1 .. Len(t) : t[j] = <<m + 1, j>>
    <3>1. Answer \in Seq(Nat)
      BY AnswerAssumption
    <3>2. CASE m + 1 \in DOMAIN Answer
      <4>1. t = [j \in 1 .. Answer[m + 1] |-> <<m + 1, j>>] /\ Answer[m + 1] \in Nat
        BY <3>1, <3>2 DEF AnswerTo, Cells
      <4> QED
        BY <4>1
    <3>3. CASE m + 1 \notin DOMAIN Answer
      <4>1. t = << >>
        BY <3>3 DEF AnswerTo
      <4> QED
        BY <4>1
    <3> QED
      BY <3>2, <3>3
  <2> HIDE DEF s, t
  <2>4. ASSUME NEW j \in 1 .. Len(s \o t), (s \o t)[j] = <<1, 1>> PROVE j = 1
    <3>1. /\ Len(s \o t) = Len(s) + Len(t) /\ Len(s) \in Nat /\ Len(t) \in Nat
          /\ j <= Len(s) => (s \o t)[j] = s[j]
          /\ j > Len(s) => (s \o t)[j] = t[j - Len(s)]
      BY <2>2, ConcatProperties
    <3>2. CASE j <= Len(s)
      BY <2>1, <2>4, <3>1, <3>2
    <3>3. CASE j > Len(s)
      <4>1. j - Len(s) \in 1 .. Len(t)
        BY <3>1, <3>3
      <4>2. <<m + 1, j - Len(s)>> = <<1, 1>>
        BY <2>3, <2>4, <3>1, <3>3, <4>1
      <4>3. m = 0 /\ j - Len(s) = 1
        BY <2>1, <4>2
      <4>4. Len(s) = 0
        BY <2>2, <4>3
      <4> QED
        BY <3>1, <4>3, <4>4
    <3> QED
      BY <3>1, <3>2, <3>3
  <2>5. \A j \in 1 .. Len(Stream(m + 1)) : Stream(m + 1)[j] = <<1, 1>> => j = 1
    BY <2>2, <2>4
  <2> QED
    BY <2>1, <2>5 DEF T
<1>3. T \in SUBSET Nat
  OBVIOUS
<1>4. n \in T
  <2> HIDE DEF T
  <2> QED
    BY <1>1, <1>2, <1>3, NatSetInduction
<1> QED
  BY <1>4

\* What follows the stream s opens the first answer if p has sent one flight and
\* has nothing yet; and then it is that answer.
LEMMA FirstAnswer ==
    ASSUME NEW n \in Nat, n >= 1, NEW s \in Seq(Cell), NEW t \in Seq(Cell),
           s \o t = Stream(n), IsPrefix(Stream(n - 1), s), t # << >>
    PROVE  /\ t[1] = <<1, 1>> <=> n = 1 /\ s = << >>
           /\ n = 1 /\ s = << >> => Len(t) = Answer[1]
<1>1. /\ Len(s) \in Nat /\ Len(t) \in Nat /\ Len(t) >= 1
      /\ Len(s \o t) = Len(s) + Len(t)
      /\ (s \o t)[Len(s) + 1] = t[1]
  BY ConcatProperties, EmptySeq
<1>2. n - 1 \in Nat /\ (n - 1) + 1 = n
  OBVIOUS
<1>3. /\ Stream(n) = Stream(n - 1) \o AnswerTo(n)
      /\ Stream(n - 1) \in Seq(Cell) /\ AnswerTo(n) \in Seq(Cell)
      /\ Stream(0) = << >>
  BY <1>2, StreamStep
<1>4. ASSUME s = << >> PROVE t = AnswerTo(n)
  <2>1. Stream(n - 1) = << >>
    <3>1. Len(Stream(n - 1)) <= Len(s)
      BY <1>3, PrefixMeans
    <3> QED
      BY <1>3, <1>4, <3>1, EmptySeq
  <2>2. << >> \o t = t /\ << >> \o AnswerTo(n) = AnswerTo(n)
    BY <1>3, ConcatEmptySeq
  <2> QED
    BY <1>3, <1>4, <2>1, <2>2
<1>5. ASSUME s = << >>
      PROVE  /\ t[1] = <<n, 1>>
             /\ n = 1 => Len(t) = Answer[1]
  <2>1. n \in DOMAIN Answer /\ t = Cells(n) /\ Answer[n] \in Nat
    BY <1>4, <1>5, AnswerAssumption DEF AnswerTo
  <2>2. t = [i \in 1 .. Answer[n] |-> <<n, i>>]
    BY <2>1 DEF Cells
  <2>3. Len(t) = Answer[n] /\ 1 \in 1 .. Answer[n]
    BY <1>1, <2>1, <2>2
  <2> QED
    BY <2>2, <2>3
<1>6. ASSUME t[1] = <<1, 1>> PROVE s = << >>
  <2>1. Len(s) + 1 \in 1 .. Len(Stream(n))
    BY <1>1
  <2>2. Len(s) + 1 = 1
    <3>1. Stream(n)[Len(s) + 1] = <<1, 1>>
      BY <1>1, <1>6
    <3> QED
      BY <2>1, <3>1, FirstCellOnce
  <2> QED
    BY <1>1, <2>2, EmptySeq
<1> QED
  BY <1>5, <1>6

-----------------------------------------------------------------------------
(* What does not touch p. *)

\* Nothing of p's request, its session or its handlers changes.
Same(p) ==
    LET a == AddrOf[p] IN
    /\ peer'[p] = peer[p]
    /\ \A r : r.addr = a => (r \in wire' <=> r \in wire)
    /\ \A r : r.addr = a => (r \in replies' <=> r \in replies)
    /\ received <= received' /\ received' \in Nat
    /\ state'[a] = state[a] /\ conn'[a] = conn[a] /\ engine'[a] = engine[a]
    /\ tlsIn'[a] = tlsIn[a] /\ tlsOut'[a] = tlsOut[a]
    /\ \A h \in Handlers :
          /\ Works(h, a)' <=> Works(h, a)
          /\ Works(h, a) => /\ pc'[h] = pc[h] /\ request'[h] = request[h]
                            /\ output'[h] = output[h] /\ first'[h] = first[h]
                            /\ reply'[h] = reply[h]

\* The pending request has p's address.
LEMMA PendingFacts ==
    ASSUME TypeOK, SystemTypeOK, PartInv, NEW p \in Peers
    PROVE  /\ peer[p].pending # None => /\ peer[p].pending \in Request
                                        /\ peer[p].pending.addr = AddrOf[p]
                                        /\ peer[p].phase \in {"identity", "tls"}
           /\ None \notin Request
           /\ peer[p].pending = None => peer[p].pending \notin wire
           /\ AddrOf[p] \in Addrs /\ peer[p].sent \in Nat /\ peer[p].stream \in Seq(Cell)
<1>1. None \notin Request
  BY DEF None, Request
<1>2. ClientInv(p)
  BY DEF PartInv
<1>3. peer[p] \in Peer /\ wire \in SUBSET Request
  BY DEF SystemTypeOK
<1>4. Tunnelled \in Nat
  BY AnswerAssumption DEF Tunnelled
<1>5. peer[p].pending \in Request \cup {None} /\ peer[p].sent \in Nat /\ peer[p].stream \in Seq(Cell)
  BY <1>3, <1>4 DEF Peer
<1> QED
  BY <1>1, <1>2, <1>3, <1>5, AddrOfAssumption DEF ClientInv

\* What a handler that works for p serves is p's pending request.
LEMMA WorkFacts ==
    ASSUME TypeOK, HandshakeInv, SystemTypeOK, PartInv, NEW p \in Peers, LinkInv(p),
           NEW h \in Handlers, Works(h, AddrOf[p])
    PROVE  /\ request[h] = peer[p].pending /\ peer[p].pending \in Request
           /\ peer[p].pending # None /\ peer[p].pending \notin wire
           /\ peer[p].phase \in {"identity", "tls"}
           /\ \A r \in replies : ~ Answered(p, r)
           /\ \A g \in Handlers : Works(g, AddrOf[p]) => g = h
<1>1. request[h] \in Request
  BY DEF Works, HandshakeInv, HandlerInv
<1>2. request[h] = peer[p].pending /\ peer[p].pending \notin wire
  BY DEF LinkInv
<1>3. peer[p].pending # None
  BY <1>1, <1>2, PendingFacts
<1> QED
  BY <1>1, <1>2, <1>3, PendingFacts DEF LinkInv

\* And so p's invariant stays.
LEMMA PairFrame ==
    ASSUME TypeOK, HandshakeInv, SystemTypeOK, PartInv, NEW p \in Peers, PairInv(p), Same(p)
    PROVE  PairInv(p)'
<1> DEFINE a == AddrOf[p]
           q == peer[p].pending
<1>1. /\ peer'[p] = peer[p]
      /\ \A r : r.addr = a => (r \in replies' <=> r \in replies)
      /\ received <= received' /\ received' \in Nat /\ received \in Nat
      /\ state'[a] = state[a] /\ conn'[a] = conn[a] /\ engine'[a] = engine[a]
      /\ tlsIn'[a] = tlsIn[a] /\ tlsOut'[a] = tlsOut[a]
  BY DEF Same, TypeOK
<1>2. \A h \in Handlers :
          /\ Works(h, a)' <=> Works(h, a)
          /\ Works(h, a) => /\ pc'[h] = pc[h] /\ request'[h] = request[h]
                            /\ output'[h] = output[h] /\ first'[h] = first[h]
                            /\ reply'[h] = reply[h]
  BY DEF Same
<1>3. /\ q # None => (q \in wire' <=> q \in wire)
      /\ \A r : r.addr = a => (r \in wire' <=> r \in wire)
  BY PendingFacts DEF Same
<1>4. \A r : Answered(p, r)' <=> Answered(p, r)
  BY <1>1 DEF Answered
<1>5. \A h \in Handlers : Works(h, a) => q # None
  BY WorkFacts DEF PairInv
<1>6. LinkInv(p)'
  <2>1. /\ peer'[p].phase # "failed"
        /\ \A r \in wire' : r.addr = a => r = q
        /\ peer'[p].phase = "idle" => \A r \in replies' : r.addr # a
    BY <1>1, <1>3 DEF PairInv, LinkInv
  <2>2. \A h \in Handlers : Works(h, a)' => request'[h] = q /\ q \notin wire'
    BY <1>2, <1>3, <1>5 DEF PairInv, LinkInv
  <2>3. \A g, h \in Handlers : Works(g, a)' /\ Works(h, a)' => g = h
    BY <1>2 DEF PairInv, LinkInv
  <2>4. \A r \in replies' : Answered(p, r)' => q \notin wire' /\ \A h \in Handlers : ~ Works(h, a)'
    <3> SUFFICES ASSUME NEW r \in replies', Answered(p, r)
                 PROVE  q \notin wire' /\ \A h \in Handlers : ~ Works(h, a)'
      BY <1>4
    <3>1. r \in replies /\ q # None
      BY DEF Answered
    <3> QED
      BY <1>2, <1>3, <3>1 DEF PairInv, LinkInv
  <2>5. ASSUME q # None
        PROVE  \E j \in 0 .. received' :
                   /\ q.id = At(p, j)
                   /\ \A r \in replies' : r.addr = a => \E i \in 0 .. j : r.id = At(p, i)
    <3>1. PICK j \in 0 .. received :
             /\ q.id = At(p, j)
             /\ \A r \in replies : r.addr = a => \E i \in 0 .. j : r.id = At(p, i)
      BY <2>5 DEF PairInv, LinkInv
    <3>2. j \in 0 .. received'
      BY <1>1
    <3> QED
      BY <1>1, <3>1, <3>2
  <2> QED
    BY <1>1, <2>1, <2>2, <2>3, <2>4, <2>5 DEF LinkInv
<1>7. OneEngine(p)'
  BY <1>1 DEF PairInv, OneEngine
<1>8. (\A r \in replies : ~ Answered(p, r)) <=> \A r \in replies' : ~ Answered(p, r)'
  BY <1>4 DEF Answered
<1>9. q # None => (Unfed(p)' <=> Unfed(p))
  BY <1>1, <1>2, <1>3 DEF Unfed
<1>10. ASSUME Before(p) PROVE Before(p)'
  <2>1. q # None
    BY <1>10 DEF Before, None
  <2>2. \A h \in Handlers :
          Works(h, a)' => /\ pc'[h] \in {"switch", "conn", "start", "wait"}
                          /\ pc'[h] = "start" => ~ conn'[a]
    BY <1>1, <1>2, <1>10 DEF Before
  <2>3. \A h \in Handlers : Consumes(engine[a][h], peer[p].sent, tlsIn[a])'
    BY <1>1, <1>10 DEF Before, Consumes
  <2>4. \A r \in replies' : ~ Answered(p, r)'
    BY <1>8, <1>10 DEF Before
  <2>5. Unfed(p)' => tlsIn'[a] = << >> /\ \A h \in Handlers : engine'[a][h].pc # "run"
    BY <1>1, <1>9, <1>10, <2>1 DEF Before
  <2> QED
    BY <1>1, <1>10, <2>2, <2>3, <2>4, <2>5 DEF Before
<1>11. ASSUME After(p) PROVE After(p)'
  <2>1. ASSUME NEW h \in Handlers, Works(h, a)' PROVE Holds(p, h)'
    <3>1. /\ pc'[h] = pc[h] /\ output'[h] = output[h]
          /\ first'[h] = first[h] /\ reply'[h] = reply[h]
      BY <1>2, <2>1
    <3>2. Holds(p, h)
      BY <1>2, <1>11, <2>1 DEF After
    <3>3. (Due(p)' <=> Due(p)) /\ (Marked(p)' <=> Marked(p)) /\ (Fresh(p)' <=> Fresh(p))
      BY <1>1 DEF Due, Marked, Fresh
    <3>4. Carries(p, reply[h])' <=> Carries(p, reply[h])
      BY <1>1, <3>1, <3>3 DEF Carries
    <3> QED
      BY <1>1, <3>1, <3>2, <3>3, <3>4 DEF Holds
  <2>2. \A r \in replies' : Answered(p, r)' => Carries(p, r)'
    BY <1>1, <1>4, <1>11 DEF After, Carries, Answered, Marked
  <2>3. \/ \E r \in replies' : Answered(p, r)'
        \/ \E h \in Handlers : Works(h, a)' /\ pc'[h] \notin Early
        \/ Due(p)' /\ Unmarked(p)'
    <3>1. (Due(p)' <=> Due(p)) /\ (Unmarked(p)' <=> Unmarked(p))
      BY <1>1 DEF Due, Unmarked, Fresh
    <3> QED
      BY <1>1, <1>2, <1>8, <1>11, <3>1 DEF After
  <2>4. peer[p].sent >= 1 /\ Unfed(p)' => q.data = << >>
    <3>1. peer[p].sent >= 1 => q # None
      BY <1>11 DEF After, None
    <3> QED
      BY <1>9, <1>11, <3>1 DEF After
  <2> QED
    BY <1>1, <1>11, <2>1, <2>2, <2>3, <2>4 DEF After, Marked
<1> QED
  BY <1>1, <1>6, <1>7, <1>10, <1>11 DEF PairInv, StageInv
-----------------------------------------------------------------------------
(* Steps of the handlers. *)

\* A handler touches the session of its own address only, and no other handler.
LEMMA StepFrame ==
    ASSUME TypeOK, NEW h \in Handlers, HandlerStep(h)
    PROVE  /\ \A a \in Addrs : a # Addr(h) =>
                 /\ state'[a] = state[a] /\ conn'[a] = conn[a] /\ engine'[a] = engine[a]
                 /\ tlsIn'[a] = tlsIn[a] /\ tlsOut'[a] = tlsOut[a]
           /\ \A g \in Handlers \ {h} : output'[g] = output[g] /\ first'[g] = first[g]
<1> USE DEF TypeOK, Goto, Retire, sessionVars, handlerVars, netVars
<1>1. CASE Identity(h) \/ Ignore(h)
  BY <1>1 DEF Identity, Ignore, Answers
<1>2. CASE Pump(h) \/ TestConn(h)
  BY <1>2 DEF Pump, TestConn
<1>3. CASE StartEngine(h)
  BY <1>3 DEF StartEngine
<1>4. CASE Available(h) \/ Expire(h) \/ TakeBytes(h)
  BY <1>4 DEF Available, Expire, TakeBytes
<1>5. CASE TestFirst(h) \/ MarkSending(h) \/ MarkSent(h)
  BY <1>5 DEF TestFirst, MarkSending, MarkSent
<1>6. CASE ResetOut(h) \/ Send(h)
  BY <1>6 DEF ResetOut, Send
<1>7. CASE SendChunk(h) \/ Finish(h)
  BY <1>7 DEF SendChunk, Finish, Answers
<1> QED
  BY <1>1, <1>2, <1>3, <1>4, <1>5, <1>6, <1>7 DEF HandlerStep

\* A handler that does not work for p leaves p alone.
LEMMA HandlerSame ==
    ASSUME TypeOK, HandshakeInv, SystemTypeOK, PartInv, NEW h \in Handlers, HandlerStep(h),
           UNCHANGED peerVars, NEW p \in Peers, ~ Works(h, AddrOf[p])
    PROVE  Same(p)
<1> DEFINE a == AddrOf[p]
<1>1. /\ pc[h] # "idle" /\ Addr(h) # a /\ a \in Addrs
      /\ pc'[h] # "idle" => request'[h] = request[h]
      /\ received' = received /\ received \in Nat
      /\ \A g \in Handlers \ {h} :
            pc'[g] = pc[g] /\ request'[g] = request[g] /\ reply'[g] = reply[g]
  BY ServeFrame, PendingFacts DEF PartInv, Works, Addr, TypeOK
<1>2. \A r : r.addr = a => (r \in replies' <=> r \in replies)
  <2>1. CASE replies' = replies
    BY <2>1
  <2>2. CASE pc[h] = "send" /\ replies' = replies \cup {reply[h]}
    <3>1. reply[h].addr = Addr(h)
      BY <2>2 DEF PartInv, AnswerInv, Addr
    <3> QED
      BY <1>1, <2>2, <3>1
  <2> QED
    BY <2>1, <2>2, ServeFrame DEF PartInv
<1>3. /\ state'[a] = state[a] /\ conn'[a] = conn[a] /\ engine'[a] = engine[a]
      /\ tlsIn'[a] = tlsIn[a] /\ tlsOut'[a] = tlsOut[a]
      /\ \A g \in Handlers \ {h} : output'[g] = output[g] /\ first'[g] = first[g]
  BY <1>1, StepFrame
<1>4. ~ Works(h, a)'
  BY <1>1 DEF Works, Addr
<1>5. \A g \in Handlers \ {h} : Works(g, a)' <=> Works(g, a)
  BY <1>1 DEF Works
<1> QED
  BY <1>1, <1>2, <1>3, <1>4, <1>5 DEF Same, peerVars

\* The handler that works for p is the only one, and answers p with what it sends.
LEMMA OwnStep ==
    ASSUME TypeOK, HandshakeInv, SystemTypeOK, PartInv, NEW h \in Handlers, HandlerStep(h),
           UNCHANGED peerVars, NEW p \in Peers, LinkInv(p), Works(h, AddrOf[p])
    PROVE  /\ \A g \in Handlers : Works(g, AddrOf[p])' => g = h /\ pc'[h] # "idle"
           /\ pc'[h] # "idle" => Works(h, AddrOf[p])'
           /\ ~ Unfed(p)'
           /\ pc[h] # "send" => \A r \in replies' : ~ Answered(p, r)'
           /\ pc[h] = "send" => /\ \E r \in replies' : Answered(p, r)'
                                /\ \A r \in replies' : Answered(p, r)' => r = reply[h]
           /\ LinkInv(p)'
<1> DEFINE a == AddrOf[p]
           q == peer[p].pending
<1>1. /\ request[h] = q /\ q \in Request /\ q # None /\ q \notin wire
      /\ peer[p].phase \in {"identity", "tls"}
      /\ \A r \in replies : ~ Answered(p, r)
      /\ \A g \in Handlers : Works(g, a) => g = h
  BY WorkFacts
<1>2. /\ UNCHANGED <<peer, wire>>
      /\ pc[h] # "idle" /\ received' = received
      /\ pc'[h] # "idle" => request'[h] = request[h]
      /\ \A g \in Handlers \ {h} : pc'[g] = pc[g] /\ request'[g] = request[g]
      /\ \/ replies' = replies
         \/ pc[h] = "send" /\ replies' = replies \cup {reply[h]}
  BY ServeFrame DEF PartInv, peerVars
<1>3. /\ pc'[h] # "switch"
      /\ pc[h] = "send" => replies' = replies \cup {reply[h]} /\ pc'[h] = "idle"
  BY DEF HandlerStep, Identity, Ignore, Pump, TestConn, StartEngine, Available, Expire,
     TakeBytes, TestFirst, MarkSending, SendChunk, MarkSent, ResetOut, Finish, Send,
     Answers, Retire, Goto, TypeOK
<1>4. pc[h] = "send" => reply[h].addr = a /\ reply[h].id = q.id
  BY <1>1 DEF PartInv, AnswerInv, Works
<1>5. \A g \in Handlers : Works(g, a)' => g = h /\ pc'[h] # "idle"
  BY <1>1, <1>2 DEF Works
<1>6. pc'[h] # "idle" => Works(h, a)'
  BY <1>2 DEF Works
<1>7. ~ Unfed(p)'
  BY <1>1, <1>2, <1>3, <1>5 DEF Unfed
<1>8. \A r : r \notin replies => ~ Answered(p, r)
  BY DEF Answered
<1>9. pc[h] # "send" => \A r \in replies' : ~ Answered(p, r)'
  BY <1>1, <1>2 DEF Answered
<1>10. ASSUME pc[h] = "send"
       PROVE  /\ \E r \in replies' : Answered(p, r)'
              /\ \A r \in replies' : Answered(p, r)' => r = reply[h]
  <2>1. replies' = replies \cup {reply[h]} /\ peer' = peer
    BY <1>2, <1>3, <1>10
  <2>2. \A r : Answered(p, r)' <=> r \in replies' /\ r.addr = a /\ r.id = q.id
    BY <1>1, <2>1 DEF Answered
  <2>3. \A r \in replies : ~ (r.addr = a /\ r.id = q.id)
    BY <1>1 DEF Answered
  <2> QED
    BY <1>4, <1>10, <2>1, <2>2, <2>3
<1>11. LinkInv(p)'
  <2>1. /\ peer'[p].phase # "failed" /\ peer'[p].phase # "idle"
        /\ \A r \in wire' : r.addr = a => r = q
    BY <1>1, <1>2 DEF LinkInv
  <2>2. \A g \in Handlers : Works(g, a)' => request'[g] = q /\ q \notin wire'
    BY <1>1, <1>2, <1>5
  <2>3. \A g, f \in Handlers : Works(g, a)' /\ Works(f, a)' => g = f
    BY <1>5
  <2>4. \A r \in replies' : Answered(p, r)' => q \notin wire' /\ \A g \in Handlers : ~ Works(g, a)'
    BY <1>1, <1>2, <1>3, <1>5, <1>9
  <2>5. \E j \in 0 .. received :
           /\ q.id = At(p, j)
           /\ \A r \in replies' : r.addr = a => \E i \in 0 .. j : r.id = At(p, i)
    <3>1. PICK j \in 0 .. received :
             /\ q.id = At(p, j)
             /\ \A r \in replies : r.addr = a => \E i \in 0 .. j : r.id = At(p, i)
      BY <1>1 DEF LinkInv
    <3>2. j \in 0 .. j
      OBVIOUS
    <3> QED
      BY <1>2, <1>4, <3>1, <3>2
  <2> QED
    BY <1>2, <2>1, <2>2, <2>3, <2>4, <2>5 DEF LinkInv
<1> QED
  BY <1>5, <1>6, <1>7, <1>9, <1>10, <1>11

\* Before the answer: the flight gets to the engine, which is started for the
\* first one.
LEMMA BeforeHandler ==
    ASSUME TypeOK, HandshakeInv, SystemTypeOK, PartInv, NEW h \in Handlers, HandlerStep(h),
           UNCHANGED peerVars, NEW p \in Peers, PairInv(p), Before(p), Works(h, AddrOf[p])
    PROVE  Before(p)' /\ OneEngine(p)'
<1> DEFINE a == AddrOf[p]
           n == peer[p].sent
           q == peer[p].pending
<1>0. /\ request[h] = q /\ Addr(h) = a /\ a \in Addrs /\ peer' = peer /\ n \in Nat
      /\ q.kind = "ttls" /\ q.data = << n >>
  BY WorkFacts, PendingFacts DEF PairInv, Works, Addr, peerVars, Before
<1>1. /\ \A g \in Handlers : Works(g, a)' => g = h /\ pc'[h] # "idle"
      /\ ~ Unfed(p)'
  BY OwnStep DEF PairInv
<1>2. pc[h] \in {"switch", "conn", "start", "wait"} /\ (pc[h] = "start" => ~ conn[a])
  BY DEF Before
<1>3. \A r \in replies' : ~ Answered(p, r)'
  BY <1>2, OwnStep DEF PairInv
<1>4. /\ tlsOut[a] = << >> /\ tlsIn[a] \in {<< >>, << n >>}
      /\ \A g \in Handlers : Consumes(engine[a][g], n, tlsIn[a])
  BY DEF Before
\* What is left is to say how the session changes.
<1>5. ASSUME tlsOut'[a] = << >>, tlsIn'[a] \in {<< >>, << n >>},
             conn[a] => conn'[a], state'[a] = 2 <=> n = 1 /\ conn'[a],
             pc'[h] # "idle" => /\ pc'[h] \in {"switch", "conn", "start", "wait"}
                                /\ pc'[h] = "start" => ~ conn'[a],
             \A g \in Handlers : Consumes(engine'[a][g], n, tlsIn'[a])
      PROVE  Before(p)'
  <2>1. \A g \in Handlers : Consumes(engine[a][g], peer[p].sent, tlsIn[a])'
    BY <1>0, <1>5 DEF Consumes
  <2> QED
    BY <1>0, <1>1, <1>3, <1>5, <2>1 DEF Before
<1>6. CASE Pump(h)
  <2>1. /\ tlsIn' = [tlsIn EXCEPT ![Addr(h)] = @ \o request[h].data]
        /\ pc' = [pc EXCEPT ![h] = "conn"] /\ pc[h] = "switch"
        /\ UNCHANGED <<tlsOut, conn, state, engine>>
    BY <1>6 DEF Pump, Goto
  <2>2. tlsIn[a] = << >> /\ \A g \in Handlers : engine[a][g].pc # "run"
    BY <2>1 DEF Before, Unfed
  <2>3. tlsIn'[a] = << n >>
    BY <1>0, <2>1, <2>2 DEF TypeOK
  <2>4. \A g \in Handlers : Consumes(engine'[a][g], n, tlsIn'[a])
    BY <1>4, <2>1, <2>2, <2>3 DEF Consumes
  <2>5. pc'[h] = "conn"
    BY <2>1 DEF TypeOK
  <2>6. Before(p)'
    BY <1>4, <1>5, <2>1, <2>3, <2>4, <2>5 DEF Before
  <2> QED
    BY <2>1, <2>6 DEF PairInv, OneEngine
<1>7. CASE TestConn(h) \/ Expire(h)
  <2>1. /\ UNCHANGED <<tlsIn, tlsOut, conn, state, engine>>
        /\ pc'[h] \in {"idle", "wait", "start"} /\ (pc'[h] = "start" => ~ conn[a])
    BY <1>0, <1>7 DEF TestConn, Expire, Retire, Goto, sessionVars, TypeOK
  <2>2. Before(p)'
    BY <1>4, <1>5, <2>1 DEF Before
  <2> QED
    BY <2>1, <2>2 DEF PairInv, OneEngine
<1>8. CASE StartEngine(h)
  <2>1. /\ conn' = [conn EXCEPT ![a] = TRUE] /\ state' = [state EXCEPT ![a] = 2]
        /\ engine' = [engine EXCEPT ![a][h] = [pc |-> "poll", expects |-> 1, raw |-> << >>]]
        /\ pc' = [pc EXCEPT ![h] = "wait"] /\ pc[h] = "start"
        /\ UNCHANGED <<tlsIn, tlsOut>>
    BY <1>0, <1>8 DEF StartEngine, Goto
  <2>2. ~ conn[a] /\ n = 1
    BY <1>0, <1>2, <2>1 DEF Before
  <2>3. \A g \in Handlers : engine[a][g].pc = "off"
    BY <1>0, <2>2 DEF HandshakeInv, EngineInv
  <2>4. /\ conn'[a] = TRUE /\ state'[a] = 2 /\ pc'[h] = "wait"
        /\ engine'[a][h] = [pc |-> "poll", expects |-> 1, raw |-> << >>]
        /\ \A g \in Handlers \ {h} : engine'[a][g] = engine[a][g]
    BY <1>0, <2>1 DEF TypeOK
  <2>5. \A g \in Handlers : Consumes(engine'[a][g], n, tlsIn'[a])
    <3>1. Consumes(engine'[a][h], n, tlsIn'[a])
      BY <2>2, <2>4 DEF Consumes
    <3> QED
      BY <1>4, <2>1, <2>4, <3>1
  <2>6. Before(p)'
    BY <1>4, <1>5, <2>1, <2>2, <2>4, <2>5
  <2>7. OneEngine(p)'
    BY <2>3, <2>4 DEF OneEngine
  <2> QED
    BY <2>6, <2>7
<1> QED
  BY <1>0, <1>2, <1>4, <1>6, <1>7, <1>8
     DEF HandlerStep, Identity, Ignore, Available, TakeBytes, TestFirst, MarkSending, SendChunk,
         MarkSent, ResetOut, Finish, Send

\* What the server has put together for p never falls short.
LEMMA Rejoin ==
    ASSUME NEW s \in Seq(Cell), NEW t \in Seq(Cell)
    PROVE  /\ Len(t) > 1 => /\ Tail(t) \in Seq(Cell)
                            /\ (s \o << t[1] >>) \o Tail(t) = s \o t
           /\ s \o t \in Seq(Cell) /\ (s \o t) \o << >> = s \o t /\ s \o << >> = s
<1>1. ASSUME Len(t) > 1
      PROVE  /\ Tail(t) \in Seq(Cell) /\ t[1] \in Cell
             /\ << t[1] >> \o Tail(t) = t
  <2>1. t # << >>
    BY <1>1
  <2>2. Tail(t) \in Seq(Cell) /\ Head(t) \in Cell /\ t[1] = Head(t)
    BY <2>1, HeadTailProperties
  <2>3. << t[1] >> \o Tail(t) = t
    BY <2>1, <2>2
  <2> QED
    BY <2>2, <2>3
<1>2. s \o t \in Seq(Cell)
  BY ConcatProperties
<1>3. (s \o t) \o << >> = s \o t /\ s \o << >> = s
  BY <1>2, ConcatEmptySeq
<1>4. ASSUME Len(t) > 1 PROVE (s \o << t[1] >>) \o Tail(t) = s \o t
  <2>1. << t[1] >> \in Seq(Cell)
    BY <1>1, <1>4
  <2>2. (s \o << t[1] >>) \o Tail(t) = s \o (<< t[1] >> \o Tail(t))
    BY <1>1, <1>4, <2>1, ConcatAssociative
  <2> QED
    BY <1>1, <1>4, <2>2
<1> QED
  BY <1>1, <1>2, <1>3, <1>4

\* After the answer: what is taken from TLSBufOut gets into what is sent.
LEMMA AfterHandler ==
    ASSUME TypeOK, HandshakeInv, SystemTypeOK, PartInv, NEW h \in Handlers, HandlerStep(h),
           UNCHANGED peerVars, NEW p \in Peers, PairInv(p), After(p), Works(h, AddrOf[p])
    PROVE  After(p)' /\ OneEngine(p)'
<1> DEFINE a == AddrOf[p]
           n == peer[p].sent
           q == peer[p].pending
           s == peer[p].stream
           out == tlsOut[a]
<1>0. /\ request[h] = q /\ Addr(h) = a /\ a \in Addrs /\ peer' = peer
      /\ n \in Nat /\ s \in Seq(Cell) /\ out \in Seq(Cell) /\ q # None
  BY WorkFacts, PendingFacts DEF PairInv, Works, Addr, peerVars, TypeOK
<1>1. /\ \A g \in Handlers : Works(g, a)' => g = h /\ pc'[h] # "idle"
      /\ pc'[h] # "idle" => Works(h, a)'
      /\ ~ Unfed(p)'
      /\ pc[h] # "send" => \A r \in replies' : ~ Answered(p, r)'
      /\ pc[h] = "send" => /\ \E r \in replies' : Answered(p, r)'
                           /\ \A r \in replies' : Answered(p, r)' => r = reply[h]
  BY OwnStep DEF PairInv
<1>2. pc[h] \in Early => Due(p) /\ Unmarked(p)
  BY WorkFacts DEF After, PairInv
<1>3. Holds(p, h) /\ tlsIn[a] = << >>
  BY DEF After
<1>4. pc[h] \notin {"idle", "switch", "send"} => n >= 1 /\ q.kind = "ttls"
  BY <1>0, WorkFacts DEF PartInv, KindInv, After, Opening, PairInv
<1>5. n >= 1 => conn[a]
  BY <1>0 DEF After, HandshakeInv, EngineInv
<1>6. Marked(p) => Marked(p)'
  <2>1. ASSUME ~ StartEngine(h) PROVE state'[a] \in {state[a], 1, 21, 3}
    BY <1>0, <2>1 DEF HandlerStep, Identity, Ignore, Pump, TestConn, Available, Expire, TakeBytes,
       TestFirst, MarkSending, SendChunk, MarkSent, ResetOut, Finish, Send, sessionVars, TypeOK
  <2>2. ~ StartEngine(h)
    BY <1>3 DEF Holds, StartEngine
  <2> QED
    BY <2>1, <2>2 DEF Marked
\* What is left is to say how output changes.
<1>7. ASSUME tlsIn'[a] = << >>, conn' = conn, engine' = engine,
             tlsOut'[a] = tlsOut[a] \/ n >= 1,
             pc'[h] # "idle" => Holds(p, h)',
             \A r \in replies' : Answered(p, r)' => Carries(p, r)',
             \/ \E r \in replies' : Answered(p, r)'
             \/ pc'[h] \notin Early \cup {"idle"}
             \/ Due(p)' /\ Unmarked(p)'
      PROVE  After(p)' /\ OneEngine(p)'
  <2>1. \A g \in Handlers : Works(g, a)' => Holds(p, g)'
    BY <1>1, <1>7
  <2>2. \/ \E r \in replies' : Answered(p, r)'
        \/ \E g \in Handlers : Works(g, a)' /\ pc'[g] \notin Early
        \/ Due(p)' /\ Unmarked(p)'
    BY <1>1, <1>7
  <2>3. After(p)'
    BY <1>0, <1>1, <1>7, <1>6, <2>1, <2>2 DEF After
  <2> QED
    BY <1>0, <1>7, <2>3 DEF PairInv, OneEngine
\* All but Send: no answer has been sent.
<1>8. ASSUME pc[h] # "send", tlsIn'[a] = << >>, conn' = conn, engine' = engine,
             tlsOut'[a] = tlsOut[a] \/ n >= 1,
             pc'[h] # "idle" => Holds(p, h)',
             \/ pc'[h] \notin Early \cup {"idle"}
             \/ Due(p)' /\ Unmarked(p)'
      PROVE  After(p)' /\ OneEngine(p)'
  BY <1>1, <1>7, <1>8
<1>9. CASE Identity(h)
  <2>1. /\ pc[h] = "switch" /\ pc' = [pc EXCEPT ![h] = "send"]
        /\ reply' = [reply EXCEPT ![h] = [kind |-> "start", addr |-> request[h].addr,
                                          id |-> request[h].id]]
        /\ UNCHANGED <<tlsIn, tlsOut, conn, engine>>
    BY <1>9 DEF Identity, Answers, Goto
  <2>2. pc'[h] = "send" /\ reply'[h].kind = "start"
    BY <2>1 DEF TypeOK
  <2>3. Holds(p, h)'
    BY <2>2 DEF Holds, Carries
  <2> QED
    BY <1>3, <1>8, <2>1, <2>2, <2>3 DEF Early
<1>10. CASE Ignore(h) \/ Expire(h) \/ TestConn(h) \/ Available(h)
  <2>1. /\ pc[h] \in {"switch", "wait", "conn"} /\ pc'[h] \in {"idle", "wait", "start", "bytes"}
        /\ pc'[h] = "start" => pc[h] = "conn" /\ ~ conn[a]
        /\ UNCHANGED <<tlsIn, tlsOut, conn, state, engine>>
    BY <1>0, <1>10 DEF Ignore, Expire, TestConn, Available, Retire, Goto, sessionVars, TypeOK
  <2>2. pc'[h] # "start"
    BY <1>4, <1>5, <2>1
  <2>3. Due(p)' /\ Unmarked(p)'
    BY <1>0, <1>2, <2>1 DEF Due, Unmarked, Fresh, Early
  <2>4. Holds(p, h)'
    BY <2>1, <2>2 DEF Holds
  <2> QED
    BY <1>3, <1>8, <2>1, <2>3, <2>4
<1>11. CASE Pump(h)
  <2>1. /\ pc[h] = "switch" /\ pc' = [pc EXCEPT ![h] = "conn"] /\ request[h].kind = "ttls"
        /\ tlsIn' = [tlsIn EXCEPT ![Addr(h)] = @ \o request[h].data]
        /\ UNCHANGED <<tlsOut, conn, state, engine>>
    BY <1>11 DEF Pump, Goto
  <2>2. n >= 1 /\ Unfed(p)
    BY <1>0, <2>1 DEF After, Unfed, Opening
  <2>3. q.data = << >>
    BY <2>2 DEF After
  <2>4. tlsIn'[a] = << >> /\ pc'[h] = "conn"
    BY <1>0, <1>3, <2>1, <2>3 DEF TypeOK
  <2>5. Due(p)' /\ Unmarked(p)'
    BY <1>0, <1>2, <2>1 DEF Due, Unmarked, Fresh, Early
  <2>6. Holds(p, h)'
    BY <2>4 DEF Holds
  <2> QED
    BY <1>8, <2>1, <2>4, <2>5, <2>6
<1>12. CASE TakeBytes(h)
  <2>1. /\ pc[h] = "bytes" /\ pc'[h] \in {"more", "last"} /\ output'[h] = out
        /\ UNCHANGED <<tlsIn, tlsOut, conn, state, engine>>
    BY <1>0, <1>12 DEF TakeBytes, Goto, sessionVars, TypeOK
  <2>2. Due(p)' /\ Unmarked(p)'
    BY <1>0, <1>2, <2>1 DEF Due, Unmarked, Fresh, Early
  <2>3. Holds(p, h)'
    BY <2>1 DEF Holds
  <2> QED
    BY <1>3, <1>8, <2>1, <2>2, <2>3
<1>13. CASE TestFirst(h)
  <2>1. /\ pc[h] = "more" /\ (first'[h] <=> state[a] = 2)
        /\ pc'[h] = IF state[a] = 2 THEN "mark" ELSE "next"
        /\ UNCHANGED <<tlsIn, tlsOut, conn, state, engine, output>>
    BY <1>0, <1>13 DEF TestFirst, Goto, sessionVars, TypeOK
  <2>2. Due(p)' /\ Unmarked(p)' /\ (Fresh(p)' <=> state[a] = 2)
    BY <1>0, <1>2, <2>1 DEF Due, Unmarked, Fresh, Early
  <2>3. output'[h] = tlsOut'[a]
    BY <1>3, <2>1 DEF Holds
  <2>4. Holds(p, h)'
    BY <2>1, <2>2, <2>3 DEF Holds, Marked
  <2> QED
    BY <1>3, <1>8, <2>1, <2>2, <2>4
<1>14. CASE MarkSending(h)
  <2>1. /\ pc[h] = "mark" /\ pc'[h] = "next" /\ state'[a] = 21
        /\ UNCHANGED <<tlsIn, tlsOut, conn, engine, output, first>>
    BY <1>0, <1>14 DEF MarkSending, Goto, TypeOK
  <2>2. Due(p)' /\ Marked(p)' /\ (Fresh(p)' <=> Fresh(p))
    <3>1. Due(p)
      BY <1>2, <2>1 DEF Early
    <3>2. Due(p)' /\ (Fresh(p)' <=> Fresh(p))
      BY <1>0, <2>1, <3>1 DEF Due, Fresh
    <3>3. Marked(p)'
      BY <2>1 DEF Marked
    <3> QED
      BY <3>2, <3>3
  <2>3. Holds(p, h)'
    BY <1>3, <2>1, <2>2 DEF Holds
  <2> QED
    BY <1>3, <1>8, <2>1, <2>3 DEF Early
<1>15. CASE SendChunk(h)
  <2> DEFINE r == Fragment(h, TRUE, << output[h][1] >>)
  <2>1. /\ pc[h] = "next" /\ pc'[h] = "send" /\ reply'[h] = r
        /\ tlsOut'[a] = IF out = << >> THEN out ELSE Tail(out)
        /\ UNCHANGED <<tlsIn, conn, state, engine>>
    BY <1>0, <1>15 DEF SendChunk, Answers, Goto, TypeOK
  <2>2. output[h] = out /\ Due(p) /\ Marked(p) /\ Len(out) > 1
    BY <1>3, <2>1 DEF Holds, HandshakeInv, HandlerInv
  <2>3. r.more = TRUE /\ r.cells = << out[1] >> /\ r.cells # << >>
    BY <2>2 DEF Fragment
  <2>4. tlsOut'[a] = Tail(out)
    BY <2>1, <2>2
  <2>5. (s \o r.cells) \o tlsOut'[a] = Stream(n)
    <3>1. (s \o << out[1] >>) \o Tail(out) = s \o out
      BY <1>0, <2>2, Rejoin
    <3>2. s \o out = Stream(n)
      BY <2>2 DEF Due
    <3> QED
      BY <2>3, <2>4, <3>1, <3>2
  <2>6. Carries(p, reply[h])'
    BY <1>0, <2>1, <2>2, <2>3, <2>5 DEF Carries, Marked
  <2>7. Holds(p, h)'
    BY <2>1, <2>6 DEF Holds
  <2> QED
    BY <1>3, <1>4, <1>8, <2>1, <2>7 DEF Early
<1>16. CASE MarkSent(h)
  <2>1. /\ pc[h] = "last" /\ pc'[h] = "reset"
        /\ state'[a] = IF state[a] \in {2, 21} THEN 3 ELSE state[a]
        /\ UNCHANGED <<tlsIn, tlsOut, conn, engine, output>>
    BY <1>0, <1>16 DEF MarkSent, Goto, TypeOK
  <2>2. Due(p)' /\ Marked(p)'
    <3>1. Due(p)
      BY <1>2, <2>1 DEF Early
    <3>2. Due(p)'
      BY <1>0, <2>1, <3>1 DEF Due
    <3>3. Marked(p)'
      BY <2>1 DEF Marked
    <3> QED
      BY <3>2, <3>3
  <2>3. Holds(p, h)'
    BY <1>3, <2>1, <2>2 DEF Holds
  <2> QED
    BY <1>3, <1>8, <2>1, <2>3 DEF Early
<1>17. CASE ResetOut(h)
  <2>1. /\ pc[h] = "reset" /\ pc'[h] = "finish" /\ tlsOut'[a] = << >>
        /\ UNCHANGED <<tlsIn, conn, state, engine, output>>
    BY <1>0, <1>17 DEF ResetOut, Goto, TypeOK
  <2>2. output[h] = out /\ Due(p) /\ Marked(p)
    BY <1>3, <2>1 DEF Holds
  <2>3. Holds(p, h)'
    BY <1>0, <2>1, <2>2 DEF Holds, Due, Marked
  <2> QED
    BY <1>3, <1>4, <1>8, <2>1, <2>3 DEF Early
<1>18. CASE Finish(h)
  <2> DEFINE r == Fragment(h, FALSE, output[h])
  <2>1. /\ pc[h] = "finish" /\ pc'[h] = "send"
        /\ reply'[h].kind = "fragment" => reply'[h] = r
        /\ UNCHANGED <<tlsIn, tlsOut, conn, state, engine>>
    BY <1>0, <1>18 DEF Finish, Answers, Goto, sessionVars, TypeOK
  <2>2. Marked(p) /\ out = << >> /\ s \o output[h] = Stream(n)
    BY <1>3, <2>1 DEF Holds
  <2>3. r.more = FALSE /\ r.cells = output[h] /\ output[h] \in Seq(Cell)
    BY DEF Fragment, TypeOK
  <2>4. (s \o r.cells) \o tlsOut'[a] = Stream(n)
    BY <1>0, <2>1, <2>2, <2>3, Rejoin
  <2>5. Carries(p, reply[h])'
    BY <1>0, <2>1, <2>2, <2>3, <2>4 DEF Carries, Marked
  <2>6. Holds(p, h)'
    BY <2>1, <2>5 DEF Holds
  <2> QED
    BY <1>3, <1>8, <2>1, <2>6 DEF Early
<1>19. CASE Send(h)
  <2>1. /\ pc[h] = "send" /\ pc'[h] = "idle"
        /\ UNCHANGED <<tlsIn, tlsOut, conn, state, engine>>
    BY <1>19 DEF Send, Retire, Goto, sessionVars, TypeOK
  <2>2. Carries(p, reply[h])
    BY <1>3, <2>1 DEF Holds
  <2>3. \A r \in replies' : Answered(p, r)' => Carries(p, r)'
    <3> SUFFICES ASSUME NEW r, r = reply[h] PROVE Carries(p, r)'
      BY <1>1, <2>1
    <3> QED
      BY <1>0, <2>1, <2>2 DEF Carries, Marked
  <2> QED
    BY <1>1, <1>3, <1>7, <2>1, <2>3
<1>20. ~ StartEngine(h)
  BY <1>3 DEF Holds, StartEngine
<1> QED
  BY <1>9, <1>10, <1>11, <1>12, <1>13, <1>14, <1>15, <1>16, <1>17, <1>18, <1>19, <1>20
     DEF HandlerStep

-----------------------------------------------------------------------------
(* Steps of the engines. *)

\* An engine touches its session's buffers, and no output but one of a handler
\* of that session.
LEMMA EngineReach ==
    ASSUME TypeOK, NEW b \in Addrs, NEW g \in Handlers, EngineStep(b, g)
    PROVE  /\ UNCHANGED <<state, first, received>>
           /\ \A a \in Addrs : a # b => /\ tlsIn'[a] = tlsIn[a] /\ tlsOut'[a] = tlsOut[a]
                                        /\ engine'[a] = engine[a]
           /\ \A f \in Handlers : output[f] = << >> \/ Addr(f) # b => output'[f] = output[f]
<1> USE DEF TypeOK, sessionVars, handlerVars, netVars
<1>1. CASE EnginePoll(b, g) \/ EngineRead(b, g) \/ EngineFinish(b, g)
  BY <1>1 DEF EnginePoll, EngineRead, EngineFinish
<1>2. CASE EngineRun(b, g)
  BY <1>2 DEF EngineRun, Write
<1>3. CASE EngineAlert(b, g)
  BY <1>3 DEF EngineAlert, Write
<1> QED
  BY <1>1, <1>2, <1>3 DEF EngineStep

\* An engine of another session leaves p alone.
LEMMA EngineSame ==
    ASSUME TypeOK, HandshakeInv, SystemTypeOK, PartInv, NEW b \in Addrs, NEW g \in Handlers,
           EngineStep(b, g), UNCHANGED peerVars, NEW p \in Peers, b # AddrOf[p]
    PROVE  Same(p)
<1>1. /\ UNCHANGED <<state, conn, first, pc, request, reply, replies, received>>
      /\ \A a \in Addrs : a # b => /\ tlsIn'[a] = tlsIn[a] /\ tlsOut'[a] = tlsOut[a]
                                   /\ engine'[a] = engine[a]
      /\ \A f \in Handlers : Addr(f) # b => output'[f] = output[f]
  BY EngineFrame, EngineReach
<1>2. AddrOf[p] \in Addrs /\ received \in Nat
  BY PendingFacts DEF TypeOK
<1> QED
  BY <1>1, <1>2 DEF Same, Works, Addr, peerVars

\* The request under way is no matter of the engine's, nor does it start another.
LEMMA EngineLinks ==
    ASSUME TypeOK, NEW p \in Peers, NEW g \in Handlers, EngineStep(AddrOf[p], g),
           AddrOf[p] \in Addrs, UNCHANGED peerVars, PairInv(p)
    PROVE  LinkInv(p)' /\ OneEngine(p)'
<1>1. UNCHANGED <<peer, wire, pc, request, replies, received>>
  BY EngineFrame, EngineReach DEF peerVars
<1>2. LinkInv(p)'
  BY <1>1 DEF PairInv, LinkInv, Works, Answered
<1>3. /\ engine[AddrOf[p]][g].pc # "off"
      /\ \A h \in Handlers : h # g => engine'[AddrOf[p]][h] = engine[AddrOf[p]][h]
  BY EngineFrame
<1>4. OneEngine(p)'
  BY <1>1, <1>3 DEF PairInv, OneEngine
<1> QED
  BY <1>2, <1>4

\* The engine takes the flight it waits for, and answers it.
LEMMA BeforeEngine ==
    ASSUME TypeOK, HandshakeInv, SystemTypeOK, PartInv, NEW p \in Peers, NEW g \in Handlers,
           EngineStep(AddrOf[p], g), UNCHANGED peerVars, PairInv(p), Before(p)
    PROVE  Before(p)' \/ After(p)'
<1> DEFINE a == AddrOf[p]
           n == peer[p].sent
           q == peer[p].pending
           e == engine[a][g]
           f == engine'[a][g]
<1>0. /\ a \in Addrs /\ n \in Nat /\ n >= 1 /\ e \in Engine
      /\ tlsIn[a] \in Seq(Flights)
  BY PendingFacts DEF Before, TypeOK
<1>1. UNCHANGED <<peer, wire, pc, request, replies, reply, received, state, conn, first>>
  BY <1>0, EngineFrame, EngineReach DEF peerVars
<1>2. /\ e.pc # "off" /\ Consumes(e, n, tlsIn[a])
      /\ \A h \in Handlers \ {g} : /\ engine[a][h].pc = "off" /\ engine'[a][h] = engine[a][h]
                                   /\ engine[a][h].raw = << >>
  <2>1. /\ e.pc # "off" /\ \A h \in Handlers \ {g} : engine'[a][h] = engine[a][h]
    BY <1>0, EngineFrame
  <2>2. \A h \in Handlers : Consumes(engine[a][h], n, tlsIn[a])
    BY DEF Before
  <2>3. \A h \in Handlers \ {g} : engine[a][h].pc = "off"
    BY <2>1 DEF PairInv, OneEngine
  <2> QED
    BY <2>1, <2>2, <2>3 DEF Consumes
<1>3. conn[a]
  BY <1>0, <1>2 DEF HandshakeInv, EngineInv
<1>4. (Unfed(p)' <=> Unfed(p)) /\ \A r : Answered(p, r)' <=> Answered(p, r)
  BY <1>1 DEF Unfed, Works, Answered
<1>5. /\ tlsIn[a] \in {<< >>, << n >>} /\ tlsOut[a] = << >>
      /\ Unfed(p) => tlsIn[a] = << >> /\ e.pc # "run"
  BY DEF Before
\* The flight is not answered yet.
<1>6. ASSUME tlsIn'[a] \in {<< >>, << n >>}, tlsOut'[a] = << >>, Consumes(f, n, tlsIn'[a]),
             Unfed(p) => tlsIn'[a] = << >> /\ f.pc # "run"
      PROVE  Before(p)'
  <2>1. \A h \in Handlers : Consumes(engine[a][h], peer[p].sent, tlsIn[a])'
    <3>1. ASSUME NEW h \in Handlers, h # g PROVE Consumes(engine'[a][h], n, tlsIn'[a])
      BY <1>2, <3>1 DEF Consumes
    <3>2. \A h \in Handlers : Consumes(engine'[a][h], n, tlsIn'[a])
      BY <1>6, <3>1
    <3> QED
      BY <1>1, <3>2 DEF Consumes
  <2>2. Unfed(p)' => tlsIn'[a] = << >> /\ \A h \in Handlers : engine'[a][h].pc # "run"
    BY <1>2, <1>4, <1>6
  <2>3. \A r \in replies' : ~ Answered(p, r)'
    BY <1>1, <1>4 DEF Before
  <2>4. \A h \in Handlers :
          Works(h, a)' => /\ pc'[h] \in {"switch", "conn", "start", "wait"}
                          /\ pc'[h] = "start" => ~ conn'[a]
    BY <1>1 DEF Before, Works
  <2>5. /\ peer'[p].sent >= 1 /\ peer'[p].pending.kind = "ttls"
        /\ peer'[p].pending.data = << peer'[p].sent >>
        /\ peer'[p].stream = Stream(peer'[p].sent - 1)
        /\ peer'[p].sent >= 2 => conn'[a]
        /\ state'[a] = 2 <=> peer'[p].sent = 1 /\ conn'[a]
    BY <1>1 DEF Before
  <2> QED
    BY <1>1, <1>6, <2>1, <2>2, <2>3, <2>4, <2>5 DEF Before
<1>7. CASE EnginePoll(a, g)
  <2>1. /\ e.pc = "poll" /\ tlsIn[a] # << >> /\ f = [e EXCEPT !.pc = "read"]
        /\ tlsIn' = tlsIn /\ tlsOut' = tlsOut
    BY <1>0, <1>7 DEF EnginePoll, sessionVars, TypeOK
  <2>2. Consumes(f, n, tlsIn'[a])
    BY <1>0, <1>2, <2>1 DEF Consumes, Engine
  <2> QED
    BY <1>5, <1>6, <2>1, <2>2
<1>8. CASE EngineRead(a, g)
  <2>1. /\ e.pc = "read" /\ tlsIn'[a] = << >> /\ tlsOut' = tlsOut
        /\ f = [e EXCEPT !.raw = e.raw \o tlsIn[a],
                         !.pc = IF tlsIn[a] = << >> THEN "failed" ELSE "run"]
    BY <1>0, <1>8 DEF EngineRead, TypeOK
  <2>2. tlsIn[a] = << n >> /\ tlsIn[a] # << >> /\ e.raw = << >> /\ e.expects = n /\ ~ Unfed(p)
    BY <1>2, <1>5, <2>1 DEF Consumes
  <2>3. << >> \o << n >> = << n >>
    OBVIOUS
  <2>4. f.raw = << n >> /\ f.pc = "run" /\ f.expects = n
    BY <1>0, <2>1, <2>2, <2>3 DEF Engine
  <2>5. Consumes(f, n, tlsIn'[a])
    BY <2>1, <2>4 DEF Consumes
  <2> QED
    BY <1>5, <1>6, <2>1, <2>2, <2>5
<1>9. CASE EngineFinish(a, g)
  <2>1. /\ e.pc = "returned" /\ f = [e EXCEPT !.pc = "finished"]
        /\ tlsIn' = tlsIn /\ tlsOut' = tlsOut
    BY <1>0, <1>9 DEF EngineFinish, TypeOK
  <2>2. Consumes(f, n, tlsIn'[a]) /\ f.pc # "run"
    BY <1>0, <1>2, <2>1 DEF Consumes, Engine
  <2> QED
    BY <1>5, <1>6, <2>1, <2>2
<1>10. CASE EngineAlert(a, g)
  BY <1>2, <1>10 DEF EngineAlert, Consumes
<1>11. CASE EngineRun(a, g)
  <2>1. /\ e.pc = "run" /\ tlsIn' = tlsIn /\ tlsOut'[a] = tlsOut[a] \o Cells(e.expects)
        /\ f = [pc |-> IF e.expects = Len(Answer) THEN "returned"
                       ELSE IF Len(e.raw) = 1 THEN "poll" ELSE "run",
                expects |-> e.expects + 1, raw |-> Tail(e.raw)]
    BY <1>0, <1>11 DEF EngineRun, Write, TypeOK
  <2>2. e.expects = n /\ e.raw = << n >> /\ tlsIn[a] = << >> /\ ~ Unfed(p)
    BY <1>2, <1>5, <2>1 DEF Consumes
  <2>3. Len(<< n >>) = 1 /\ Tail(<< n >>) = << >>
    OBVIOUS
  <2>4. f.expects = n + 1 /\ f.raw = << >> /\ f.pc \in {"returned", "poll"}
    BY <2>1, <2>2, <2>3
  <2>5. Cells(n) \in Seq(Cell) /\ Cells(n) = AnswerTo(n) /\ n - 1 \in Nat /\ (n - 1) + 1 = n
    <3>1. n \in DOMAIN Answer
      BY <1>0, <2>1, <2>2 DEF HandshakeInv, EngineInv
    <3> QED
      BY <1>0, <3>1, CellsType DEF AnswerTo
  <2>6. tlsOut'[a] = Cells(n)
    BY <1>5, <2>1, <2>2, <2>5, ConcatEmptySeq
  <2>7. Due(p)'
    <3>1. Stream(n) = Stream(n - 1) \o AnswerTo(n)
      BY <2>5, StreamStep
    <3> QED
      BY <1>1, <2>5, <2>6, <3>1 DEF Due, Before
  <2>8. Unmarked(p)'
    <3>1. n = 1 => peer[p].stream = << >>
      BY StreamStep DEF Before
    <3> QED
      BY <1>1, <1>3, <3>1 DEF Unmarked, Fresh, Before
  <2>9. \A h \in Handlers : Works(h, a)' => Holds(p, h)'
    <3> SUFFICES ASSUME NEW h \in Handlers, Works(h, a)' PROVE Holds(p, h)'
      OBVIOUS
    <3>1. pc'[h] \in {"switch", "conn", "wait"}
      BY <1>1, <1>3 DEF Before, Works
    <3> QED
      BY <3>1 DEF Holds
  <2>10. \A r \in replies' : ~ Answered(p, r)'
    BY <1>1, <1>4 DEF Before
  <2>11. \A h \in Handlers :
            /\ engine'[a][h].pc # "off" => /\ engine'[a][h].expects = n + 1
                                           /\ engine'[a][h].pc \in {"poll", "returned", "finished"}
            /\ engine'[a][h].raw = << >>
    BY <1>2, <2>4
  <2>12. \E h \in Handlers : engine'[a][h].pc # "off"
    BY <2>4
  <2>13. /\ tlsIn'[a] = << >> /\ peer'[p].sent = n /\ n # 0 /\ peer'[p].pending.kind = "ttls"
         /\ ~ Unfed(p)'
    BY <1>0, <1>1, <1>4, <2>1, <2>2 DEF Before
  <2>14. After(p)'
    BY <1>1, <2>7, <2>8, <2>9, <2>10, <2>11, <2>12, <2>13 DEF After
  <2> QED
    BY <2>14
<1> QED
  BY <1>7, <1>8, <1>9, <1>10, <1>11 DEF EngineStep

\* After the answer the engine has nothing to do but set its flag.
LEMMA AfterEngine ==
    ASSUME TypeOK, HandshakeInv, SystemTypeOK, PartInv, NEW p \in Peers, NEW g \in Handlers,
           EngineStep(AddrOf[p], g), UNCHANGED peerVars, PairInv(p), After(p)
    PROVE  After(p)'
<1> DEFINE a == AddrOf[p]
           e == engine[a][g]
<1>0. a \in Addrs /\ e \in Engine
  BY PendingFacts DEF TypeOK
<1>1. /\ tlsIn[a] = << >>
      /\ e.pc # "off" => e.pc \in {"poll", "returned", "finished"}
  BY DEF After
<1>2. EngineFinish(a, g)
  BY <1>1 DEF EngineStep, EnginePoll, EngineRead, EngineRun, EngineAlert
<1>3. /\ UNCHANGED <<peer, wire, pc, request, replies, reply, state, conn, first, output,
                     tlsIn, tlsOut>>
      /\ e.pc = "returned"
      /\ engine'[a][g] = [e EXCEPT !.pc = "finished"]
      /\ \A h \in Handlers : h # g => engine'[a][h] = engine[a][h]
  BY <1>0, <1>2 DEF EngineFinish, handlerVars, netVars, peerVars, TypeOK
<1>4. /\ engine'[a][g].pc = "finished"
      /\ engine'[a][g].expects = e.expects /\ engine'[a][g].raw = e.raw
  BY <1>0, <1>3 DEF Engine
<1>5. /\ Due(p)' <=> Due(p)
      /\ Unmarked(p)' <=> Unmarked(p)
      /\ Marked(p)' <=> Marked(p)
      /\ Fresh(p)' <=> Fresh(p)
      /\ Unfed(p)' <=> Unfed(p)
      /\ \A r : (Answered(p, r)' <=> Answered(p, r)) /\ (Carries(p, r)' <=> Carries(p, r))
      /\ \A h \in Handlers : Works(h, a)' <=> Works(h, a)
  BY <1>3 DEF Due, Unmarked, Marked, Fresh, Unfed, Answered, Carries, Works
<1>6. \A h \in Handlers : Works(h, a)' => Holds(p, h)'
  <2> SUFFICES ASSUME NEW h \in Handlers, Works(h, a) PROVE Holds(p, h)'
    BY <1>5
  <2>1. Holds(p, h)
    BY DEF After
  <2>2. Carries(p, reply[h])' <=> Carries(p, reply[h])
    BY <1>3 DEF Carries, Marked
  <2> QED
    BY <1>3, <1>5, <2>1, <2>2 DEF Holds
<1>7. \A r \in replies' : Answered(p, r)' => Carries(p, r)'
  BY <1>3, <1>5 DEF After
<1>8. \/ \E r \in replies' : Answered(p, r)'
      \/ \E h \in Handlers : Works(h, a)' /\ pc'[h] \notin Early
      \/ Due(p)' /\ Unmarked(p)'
  BY <1>3, <1>5 DEF After
<1>9. \A h \in Handlers :
          /\ engine'[a][h].pc # "off" =>
                /\ engine'[a][h].expects = peer[p].sent + 1
                /\ engine'[a][h].pc \in {"poll", "returned", "finished"}
          /\ engine'[a][h].raw = << >>
          /\ engine[a][h].pc # "off" => engine'[a][h].pc # "off"
  BY <1>3, <1>4, ZenonT(40) DEF After
<1> QED
  BY <1>3, <1>5, <1>6, <1>7, <1>8, <1>9 DEF After

-----------------------------------------------------------------------------
(* Locals, and the length that is announced. *)

\* The first fragment of the first answer, if it takes several, and no other
\* has the L flag, with the length of that answer.
LEMMA SaidHandler ==
    ASSUME TypeOK, HandshakeInv, SystemTypeOK, PartInv, LockInv, NEW h \in Handlers,
           HandlerStep(h), pc'[h] = "send"
    PROVE  Announced(reply'[h])
<1>1. \/ /\ pc[h] = "switch" /\ reply'[h].kind = "start"
      \/ /\ pc[h] = "next" /\ reply'[h] = Fragment(h, TRUE, << output[h][1] >>)
      \/ /\ pc[h] = "finish"
         /\ reply'[h].kind = "fragment" => reply'[h] = Fragment(h, FALSE, output[h])
  <2> USE DEF Goto, Answers, Retire, TypeOK
  <2>1. CASE Identity(h)
    BY <2>1 DEF Identity
  <2>2. CASE SendChunk(h)
    BY <2>2 DEF SendChunk
  <2>3. CASE Finish(h)
    BY <2>3 DEF Finish
  <2>4. CASE Ignore(h) \/ Pump(h) \/ TestConn(h) \/ StartEngine(h) \/ Available(h) \/ Expire(h)
    BY <2>4 DEF Ignore, Pump, TestConn, StartEngine, Available, Expire
  <2>5. CASE TakeBytes(h) \/ TestFirst(h) \/ MarkSending(h) \/ MarkSent(h) \/ ResetOut(h) \/ Send(h)
    BY <2>5 DEF TakeBytes, TestFirst, MarkSending, MarkSent, ResetOut, Send
  <2> QED
    BY <2>1, <2>2, <2>3, <2>4, <2>5 DEF HandlerStep
<1>2. CASE pc[h] = "switch" /\ reply'[h].kind = "start"
  BY <1>2 DEF Announced
<1>3. CASE /\ pc[h] = "finish"
           /\ reply'[h].kind = "fragment" => reply'[h] = Fragment(h, FALSE, output[h])
  <2>1. first[h] = FALSE
    BY <1>3 DEF LockInv, LocalInv, TypeOK
  <2> QED
    BY <1>3, <2>1 DEF Announced, Fragment
<1>4. CASE pc[h] = "next" /\ reply'[h] = Fragment(h, TRUE, << output[h][1] >>)
  <2>1. PICK p \in Peers : request[h].addr = AddrOf[p]
    BY <1>4 DEF LockInv, LocalInv, Owned
  <2> DEFINE a == AddrOf[p]
             n == peer[p].sent
             s == peer[p].stream
             t == tlsOut[a]
  <2>2. Works(h, a) /\ PairInv(p)
    BY <1>4, <2>1 DEF Works, LockInv
  <2>3. /\ peer[p].pending # None /\ request[h] = peer[p].pending
        /\ peer[p].phase # "accepted"
    BY <2>2, WorkFacts DEF PairInv
  <2>4. After(p)
    BY <1>4, <2>2, <2>3 DEF PairInv, StageInv, Before
  <2>5. /\ output[h] = t /\ Due(p) /\ (first[h] <=> Fresh(p))
        /\ Len(t) > 1
    BY <1>4, <2>2, <2>4 DEF After, Holds, HandshakeInv, HandlerInv
  <2>6. n \in Nat /\ n >= 1 /\ s \in Seq(Cell) /\ t \in Seq(Cell) /\ t # << >>
    <3>1. request[h].kind = "ttls"
      BY <1>4 DEF PartInv, KindInv
    <3>2. n \in Nat /\ s \in Seq(Cell) /\ a \in Addrs
      BY PendingFacts
    <3>3. n # 0
      BY <2>3, <2>4, <3>1 DEF After, Opening
    <3> QED
      BY <2>5, <3>2, <3>3 DEF TypeOK
  <2>7. IsPrefix(Stream(n - 1), s)
    BY <2>6 DEF PartInv, ClientInv
  <2>8. /\ t[1] = <<1, 1>> <=> Fresh(p)
        /\ Fresh(p) => Len(t) = Answer[1]
    <3>1. s \o t = Stream(n)
      BY <2>5 DEF Due
    <3> QED
      BY <2>6, <2>7, <3>1, FirstAnswer DEF Fresh
  <2>9. /\ reply'[h].kind = "fragment" /\ reply'[h].more = TRUE
        /\ reply'[h].first = first[h]
        /\ reply'[h].cells = << t[1] >> /\ reply'[h].total = Len(t)
    BY <1>4, <2>5 DEF Fragment
  <2>10. reply'[h].cells[1] = t[1]
    BY <2>9
  <2> QED
    BY <2>5, <2>8, <2>9, <2>10 DEF Announced
<1> QED
  BY <1>1, <1>2, <1>3, <1>4

\* A handler's locals are its own.
LEMMA LocalHandler ==
    ASSUME TypeOK, HandshakeInv, SystemTypeOK, PartInv, LockInv, NEW h \in Handlers,
           HandlerStep(h)
    PROVE  (\A g \in Handlers : LocalInv(g)') /\ \A r \in replies' : Announced(r)
<1>1. /\ pc[h] # "idle" /\ (pc'[h] # "idle" => request'[h] = request[h])
      /\ \A g \in Handlers \ {h} :
            /\ pc'[g] = pc[g] /\ request'[g] = request[g] /\ reply'[g] = reply[g]
            /\ output'[g] = output[g] /\ first'[g] = first[g]
      /\ \/ replies' = replies
         \/ pc[h] = "send" /\ replies' = replies \cup {reply[h]}
  BY ServeFrame, StepFrame DEF PartInv
<1>2. LocalInv(h)
  BY DEF LockInv
<1>3. \A r \in replies' : Announced(r)
  BY <1>1, <1>2 DEF LockInv, LocalInv
<1>4. ASSUME NEW g \in Handlers, g # h PROVE LocalInv(g)'
  <2>1. LocalInv(g)
    BY DEF LockInv
  <2>2. /\ Owned(request'[g]) <=> Owned(request[g])
        /\ Announced(reply'[g]) <=> Announced(reply[g])
    BY <1>1, <1>4
  <2> QED
    BY <1>1, <1>4, <2>1, <2>2 DEF LocalInv
<1>5. /\ first'[h] => pc'[h] \in {"mark", "next", "send"}
      /\ output'[h] # << >> =>
            pc'[h] \in {"more", "mark", "next", "last", "reset", "finish", "send"}
  <2> USE <1>2 DEF LocalInv, Goto, Answers, Retire, TypeOK
  <2>1. CASE Identity(h) \/ Ignore(h)
    BY <2>1 DEF Identity, Ignore
  <2>2. CASE Pump(h) \/ TestConn(h) \/ StartEngine(h)
    BY <2>2 DEF Pump, TestConn, StartEngine
  <2>3. CASE Available(h) \/ Expire(h) \/ TakeBytes(h)
    BY <2>3 DEF Available, Expire, TakeBytes
  <2>4. CASE TestFirst(h)
    BY <2>4 DEF TestFirst
  <2>5. CASE MarkSending(h) \/ MarkSent(h)
    BY <2>5 DEF MarkSending, MarkSent
  <2>6. CASE ResetOut(h) \/ Send(h)
    BY <2>6 DEF ResetOut, Send
  <2>7. CASE SendChunk(h) \/ Finish(h)
    BY <2>7 DEF SendChunk, Finish
  <2> QED
    BY <2>1, <2>2, <2>3, <2>4, <2>5, <2>6, <2>7 DEF HandlerStep
<1>6. LocalInv(h)'
  <2>1. pc'[h] # "idle" => Owned(request'[h])
    BY <1>1, <1>2 DEF LocalInv
  <2>2. pc'[h] = "send" => Announced(reply'[h])
    BY SaidHandler
  <2>3. /\ (pc'[h] # "idle" => Owned(request[h])') <=> (pc'[h] # "idle" => Owned(request'[h]))
        /\ Announced(reply[h])' <=> Announced(reply'[h])
    BY DEF Owned, Announced
  <2> QED
    BY <1>5, <2>1, <2>2, <2>3 DEF LocalInv
<1> QED
  BY <1>3, <1>4, <1>6

\* No step of the server takes LockInv away.
LEMMA LockServer ==
    ASSUME TypeOK, HandshakeInv, SystemTypeOK, PartInv, LockInv, Server, UNCHANGED peerVars
    PROVE  LockInv'
<1>0. \A r \in wire' : Owned(r)
  BY DEF LockInv, peerVars
<1>1. ASSUME NEW h \in Handlers, HandlerStep(h) PROVE LockInv'
  <2>1. ASSUME NEW p \in Peers, ~ Works(h, AddrOf[p]) PROVE PairInv(p)'
    BY <1>1, <2>1, HandlerSame, PairFrame DEF LockInv
  <2>2. ASSUME NEW p \in Peers, Works(h, AddrOf[p]) PROVE PairInv(p)'
    <3>1. PairInv(p) /\ peer[p].phase # "accepted"
      BY <2>2, WorkFacts DEF LockInv, PairInv
    <3>2. LinkInv(p)'
      BY <1>1, <2>2, <3>1, OwnStep DEF PairInv
    <3>3. (Before(p)' \/ After(p)') /\ OneEngine(p)'
      BY <1>1, <2>2, <3>1, BeforeHandler, AfterHandler DEF PairInv, StageInv
    <3> QED
      BY <3>2, <3>3 DEF PairInv, StageInv
  <2> QED
    BY <1>0, <1>1, <2>1, <2>2, LocalHandler DEF LockInv
<1>2. ASSUME NEW b \in Addrs, NEW g \in Handlers, EngineStep(b, g) PROVE LockInv'
  <2>1. ASSUME NEW p \in Peers, b # AddrOf[p] PROVE PairInv(p)'
    BY <1>2, <2>1, EngineSame, PairFrame DEF LockInv
  <2>2. ASSUME NEW p \in Peers, b = AddrOf[p] PROVE PairInv(p)'
    <3>1. PairInv(p) /\ EngineStep(AddrOf[p], g) /\ AddrOf[p] \in Addrs
      BY <1>2, <2>2 DEF LockInv
    <3>2. LinkInv(p)' /\ OneEngine(p)'
      BY <3>1, EngineLinks
    <3>3. CASE peer[p].phase = "accepted"
      BY <3>2, <3>3 DEF PairInv, StageInv, peerVars
    <3>4. CASE Before(p) \/ After(p)
      BY <3>1, <3>2, <3>4, BeforeEngine, AfterEngine DEF PairInv, StageInv
    <3> QED
      BY <3>1, <3>3, <3>4 DEF PairInv, StageInv
  <2>3. UNCHANGED <<pc, request, reply, replies, first>>
    BY <1>2, EngineFrame, EngineReach
  <2>4. ASSUME NEW f \in Handlers PROVE LocalInv(f)'
    <3>1. LocalInv(f) /\ (output'[f] # << >> => output[f] # << >>)
      BY <1>2, EngineReach DEF LockInv
    <3> QED
      BY <2>3, <3>1 DEF LocalInv
  <2> QED
    BY <1>0, <2>1, <2>2, <2>3, <2>4 DEF LockInv
<1> QED
  BY <1>1, <1>2 DEF Server

-----------------------------------------------------------------------------
(* Steps of the clients and the network. *)

\* What one client sends or ends is nothing to the others.
LEMMA ClientSame ==
    ASSUME OwnAddresses, TypeOK, SystemTypeOK, PartInv, NEW p \in Peers,
           UNCHANGED vars, NEW s, peer' = [peer EXCEPT ![p] = s],
           \/ wire' = wire
           \/ wire' = wire \cup {s.pending} /\ s.pending.addr = AddrOf[p],
           NEW c \in Peers, c # p
    PROVE  Same(c)
<1>1. UNCHANGED <<state, conn, engine, tlsIn, tlsOut, pc, request, output, first, reply, replies,
                  received>>
  BY DEF vars, sessionVars, handlerVars, netVars
<1>2. AddrOf[c] # AddrOf[p] /\ peer'[c] = peer[c] /\ received \in Nat
  BY DEF OwnAddresses, SystemTypeOK, TypeOK
<1>3. \A r : r.addr = AddrOf[c] => (r \in wire' <=> r \in wire)
  BY <1>2
<1> QED
  BY <1>1, <1>2, <1>3 DEF Same, Works

\* The locals and what has been sent are the server's.
LEMMA ClientLocals ==
    ASSUME LockInv, UNCHANGED vars
    PROVE  (\A h \in Handlers : LocalInv(h)') /\ \A r \in replies' : Announced(r)
BY DEF LockInv, LocalInv, vars, sessionVars, handlerVars, netVars

\* A client that is answered has nothing under way, and the identifier of what
\* it sends next is none that has been answered.
LEMMA NextTurn ==
    ASSUME ShortRun, TypeOK, HandshakeInv, SystemTypeOK, PartInv, NEW p \in Peers, LinkInv(p),
           NEW r \in replies, Answered(p, r)
    PROVE  /\ \A x \in wire : x.addr # AddrOf[p]
           /\ \A h \in Handlers : ~ Works(h, AddrOf[p])
           /\ \E j \in 0 .. received :
                 /\ ReplyId(r) = At(p, j)
                 /\ \A x \in replies : x.addr = AddrOf[p] => \E i \in 0 .. j - 1 : x.id = At(p, i)
<1> DEFINE a == AddrOf[p]
           q == peer[p].pending
<1>1. /\ r.addr = a /\ q # None /\ r.id = q.id /\ q \notin wire
      /\ \A h \in Handlers : ~ Works(h, a)
      /\ \A x \in wire : x.addr # a
  BY DEF LinkInv, Answered
<1>2. PICK k \in 0 .. received :
         /\ q.id = At(p, k)
         /\ \A x \in replies : x.addr = a => \E i \in 0 .. k : x.id = At(p, i)
  BY <1>1 DEF LinkInv
<1>3. /\ received \in Nat /\ received <= 255
      /\ Turn(p, r, received)
  BY AnsweredTurn, BoundAssumption DEF PartInv, ShortRun
<1>4. PICK i \in 0 .. received - 1 : r.id = At(p, i)
  BY <1>3 DEF Turn
<1>5. i = k
  <2>1. i \in 0 .. 255 /\ k \in 0 .. 255
    BY <1>3
  <2> QED
    BY <1>1, <1>2, <1>4, <2>1, IdTells, ZenonT(40)
<1>6. k \in Nat /\ k + 1 \in 0 .. received /\ (k + 1) - 1 = k
  BY <1>3, <1>5
<1>7. ReplyId(r) = At(p, k + 1)
  BY <1>1, <1>2, <1>6, NextId DEF ReplyId
<1> QED
  BY <1>1, <1>2, <1>6, <1>7

\* A client that sends the request of a new turn, with nothing else under way.
LEMMA LinkTransmit ==
    ASSUME ShortRun, TypeOK, SystemTypeOK, PartInv, NEW p \in Peers,
           NEW s \in Peer, Transmit(p, s), s.pending \in Request, s.pending.addr = AddrOf[p],
           s.phase \in {"identity", "tls"},
           \A x \in wire : x.addr # AddrOf[p],
           \A h \in Handlers : ~ Works(h, AddrOf[p]),
           \E j \in 0 .. received :
              /\ s.pending.id = At(p, j)
              /\ \A x \in replies : x.addr = AddrOf[p] => \E i \in 0 .. j - 1 : x.id = At(p, i)
    PROVE  /\ LinkInv(p)'
           /\ \A r \in replies' : ~ Answered(p, r)'
           /\ \A h \in Handlers : ~ Works(h, AddrOf[p])'
<1> DEFINE a == AddrOf[p]
           q == s.pending
<1>1. /\ peer'[p] = s /\ wire' = wire \cup {q}
      /\ UNCHANGED <<pc, request, replies, received>>
      /\ q # None
  BY PendingFacts DEF Transmit, vars, handlerVars, netVars, SystemTypeOK
<1>2. \A h \in Handlers : ~ Works(h, a)'
  BY <1>1 DEF Works
<1>3. PICK j \in 0 .. received :
         /\ q.id = At(p, j)
         /\ \A x \in replies : x.addr = a => \E i \in 0 .. j - 1 : x.id = At(p, i)
  OBVIOUS
<1>4. received \in Nat /\ received <= 255
  BY BoundAssumption DEF PartInv, ShortRun, TypeOK
<1>5. ASSUME NEW x \in replies, x.addr = a PROVE x.id # q.id
  <2>1. PICK i \in 0 .. j - 1 : x.id = At(p, i)
    BY <1>3, <1>5
  <2>2. j \in Nat /\ j <= 255 /\ i \in Nat /\ i < j
    BY <1>4
  <2>3. i \in 0 .. 255 /\ j \in 0 .. 255 /\ i # j
    BY <2>2
  <2> QED
    <3>1. At(p, i) # At(p, j)
      BY <2>3, IdTells
    <3> QED
      BY <1>3, <2>1, <3>1
<1>6. \A r \in replies' : ~ Answered(p, r)'
  BY <1>1, <1>5 DEF Answered
<1>7. \A x \in replies : x.addr = a => \E i \in 0 .. j : x.id = At(p, i)
  <2>1. 0 .. j - 1 \subseteq 0 .. j
    BY <1>4
  <2> QED
    BY <1>3, <2>1
<1>8. LinkInv(p)'
  <2>1. peer'[p].phase # "failed" /\ peer'[p].phase # "idle" /\ peer'[p].pending = q
    BY <1>1
  <2>2. \A r \in wire' : r.addr = a => r = q
    BY <1>1
  <2> QED
    BY <1>1, <1>2, <1>3, <1>6, <1>7, <2>1, <2>2 DEF LinkInv
<1> QED
  BY <1>2, <1>6, <1>8

\* What is left to say of a step in which p sends something.
LEMMA LockTransmit ==
    ASSUME OwnAddresses, ShortRun, TypeOK, HandshakeInv, SystemTypeOK, PartInv, LockInv,
           NEW p \in Peers, NEW s \in Peer, Transmit(p, s), s.pending.addr = AddrOf[p],
           LinkInv(p)', Before(p)' \/ After(p)'
    PROVE  LockInv'
<1>1. /\ peer' = [peer EXCEPT ![p] = s] /\ wire' = wire \cup {s.pending}
      /\ UNCHANGED vars
  BY DEF Transmit
<1>2. OneEngine(p)'
  BY <1>1 DEF LockInv, PairInv, OneEngine, vars
<1>3. PairInv(p)'
  BY <1>2 DEF PairInv, StageInv
<1>4. ASSUME NEW c \in Peers, c # p PROVE PairInv(c)'
  <2>1. Same(c)
    BY <1>1, <1>4, ClientSame
  <2> QED
    BY <2>1, PairFrame DEF LockInv
<1>5. \A r \in wire' : Owned(r)
  BY <1>1 DEF LockInv, Owned
<1> QED
  BY <1>1, <1>3, <1>4, <1>5, ClientLocals DEF LockInv

\* A client begins.
LEMMA LockStart ==
    ASSUME OwnAddresses, ShortRun, TypeOK, HandshakeInv, SystemTypeOK, PartInv, LockInv,
           NEW p \in Peers, PeerStart(p)
    PROVE  LockInv'
<1> DEFINE a == AddrOf[p]
<1>1. PICK u \in Users :
         Transmit(p, [peer[p] EXCEPT !.phase = "identity",
              !.pending = [kind |-> "identity", addr |-> AddrOf[p], id |-> FirstId[p],
                           user |-> u]])
  BY DEF PeerStart
<1> DEFINE r == [kind |-> "identity", addr |-> AddrOf[p], id |-> FirstId[p], user |-> u]
           s == [peer[p] EXCEPT !.phase = "identity", !.pending = r]
<1>2. r \in Request
  BY AddrOfAssumption, FirstIdAssumption DEF Request
<1>3. r.kind = "identity" /\ r.addr = a /\ r.id = At(p, 0)
  BY NextId
<1> HIDE DEF r
<1>4. peer[p] \in Peer /\ received \in Nat
  BY DEF SystemTypeOK, TypeOK
<1>5. /\ s \in Peer /\ s.pending = r /\ s.phase = "identity"
      /\ s.sent = peer[p].sent /\ s.stream = peer[p].stream
  BY <1>2, <1>4 DEF Peer
<1>6. Transmit(p, s)
  BY <1>1 DEF r
<1> HIDE DEF s
<1>7. /\ peer[p].pending = None /\ peer[p].sent = 0 /\ peer[p].phase = "idle"
  BY PendingFacts DEF PeerStart, PartInv, ClientInv
<1>8. PairInv(p) /\ LinkInv(p) /\ \A x \in replies : x.addr # a
  BY <1>7 DEF LockInv, PairInv, LinkInv
<1>9. \A h \in Handlers : ~ Works(h, a)
  BY <1>7, <1>8, WorkFacts
<1>10. \A x \in wire : x.addr # a
  BY <1>7, <1>8, PendingFacts DEF LinkInv
<1>11. /\ LinkInv(p)' /\ (\A x \in replies' : ~ Answered(p, x)')
       /\ \A h \in Handlers : ~ Works(h, a)'
  <2>1. 0 \in 0 .. received
    BY <1>4
  <2> QED
    BY <1>2, <1>3, <1>5, <1>6, <1>8, <1>9, <1>10, <2>1, LinkTransmit
<1>12. After(p)
  BY <1>7, <1>8 DEF PairInv, StageInv, Before
<1>13. /\ peer'[p] = s /\ UNCHANGED <<tlsIn, tlsOut, conn, state, engine>>
  BY <1>6 DEF Transmit, SystemTypeOK, vars, sessionVars
<1>14. Due(p)' /\ Unmarked(p)'
  <2>1. \A x \in replies : ~ Answered(p, x)
    BY <1>7 DEF Answered
  <2>2. Due(p) /\ Unmarked(p)
    BY <1>9, <1>12, <2>1 DEF After
  <2> QED
    BY <1>5, <1>13, <2>2 DEF Due, Unmarked, Fresh
<1>15. After(p)'
  BY <1>3, <1>5, <1>7, <1>11, <1>12, <1>13, <1>14 DEF After, Marked, Opening
<1> QED
  BY <1>3, <1>5, <1>6, <1>11, <1>15, LockTransmit

\* What an answered client knows: the answer is one to all it has sent, and
\* nothing is at the engine.
LEMMA AnsweredFacts ==
    ASSUME ShortRun, TypeOK, HandshakeInv, SystemTypeOK, PartInv, LockInv,
           NEW p \in Peers, NEW r \in replies, Answered(p, r)
    PROVE  /\ PairInv(p) /\ LinkInv(p) /\ After(p) /\ Carries(p, r) /\ r \in Reply
           /\ peer[p].phase \in {"identity", "tls"} /\ peer[p] \in Peer
           /\ peer[p].sent = 0 <=> Opening(r)
<1>1. peer[p].pending # None
  BY DEF Answered
<1>2. PairInv(p) /\ LinkInv(p) /\ peer[p].phase \in {"identity", "tls"}
  BY <1>1, PendingFacts DEF LockInv, PairInv
<1>3. After(p)
  BY <1>2 DEF PairInv, StageInv, Before
<1>4. r \in Reply /\ (Opening(r) <=> Opening(peer[p].pending))
  BY AnsweredTurn
<1>5. peer[p].sent = 0 <=> Opening(peer[p].pending)
  BY <1>1, <1>3, PendingFacts DEF After, PartInv, ClientInv, Opening
<1> QED
  BY <1>2, <1>3, <1>4, <1>5 DEF After, SystemTypeOK

\* TTLS-Start: the client sends its first flight.
LEMMA LockOnStart ==
    ASSUME OwnAddresses, AllIds, ShortRun, TypeOK, HandshakeInv, SystemTypeOK, PartInv, LockInv,
           NEW p \in Peers, NEW r \in replies, PeerOnStart(p, r)
    PROVE  LockInv'
<1> DEFINE a == AddrOf[p]
           t == TTLS(p, ReplyId(r), << 1 >>)
           s == [peer[p] EXCEPT !.phase = "tls", !.sent = 1, !.pending = t]
<1>1. Answered(p, r) /\ r.kind = "start" /\ Transmit(p, s)
  BY DEF PeerOnStart
<1>2. /\ LinkInv(p) /\ After(p) /\ r \in Reply /\ peer[p] \in Peer /\ peer[p].sent = 0
  BY <1>1, AnsweredFacts DEF Opening
<1>3. Tunnelled \in Nat /\ Tunnelled >= 1
  BY AnswerAssumption DEF Tunnelled
<1>4. t \in Request
  <2>1. 1 \in Flights /\ r.id \in Ids
    BY <1>2, <1>3, ReplyFields DEF Flights
  <2> QED
    BY <2>1, TTLSType
<1>5. t.kind = "ttls" /\ t.id = ReplyId(r) /\ t.addr = a /\ t.data = << 1 >>
  BY DEF TTLS
<1> HIDE DEF t
<1>6. /\ s \in Peer /\ s.pending = t /\ s.sent = 1 /\ s.phase = "tls"
      /\ s.stream = peer[p].stream
  <2>1. 1 \in 0 .. Tunnelled
    BY <1>3
  <2> QED
    BY <1>2, <1>4, <2>1 DEF Peer
<1> HIDE DEF s
<1>7. /\ LinkInv(p)' /\ (\A x \in replies' : ~ Answered(p, x)')
      /\ \A h \in Handlers : ~ Works(h, a)'
  BY <1>1, <1>2, <1>4, <1>5, <1>6, NextTurn, LinkTransmit
<1>8. /\ peer'[p] = s /\ UNCHANGED <<tlsIn, tlsOut, conn, state, engine>>
  BY <1>1 DEF Transmit, SystemTypeOK, vars, sessionVars
<1>9. /\ ~ conn[a] /\ state[a] # 2 /\ peer[p].stream = << >> /\ tlsOut[a] = << >>
      /\ tlsIn[a] = << >>
      /\ \A h \in Handlers : engine[a][h].raw = << >> /\ engine[a][h].pc = "off"
  BY <1>2, PendingFacts DEF After, Marked, HandshakeInv, EngineInv
<1>10. s.stream = Stream(1 - 1)
  BY <1>6, <1>9, StreamStep
<1>11. \A h \in Handlers : Consumes(engine[a][h], peer[p].sent, tlsIn[a])'
  BY <1>8, <1>9 DEF Consumes
<1>12. Before(p)'
  BY <1>5, <1>6, <1>7, <1>8, <1>9, <1>10, <1>11 DEF Before
<1> QED
  BY <1>1, <1>5, <1>6, <1>7, <1>12, LockTransmit

\* A fragment: the client has one cell more, and TLSBufOut one less.
LEMMA LockOnFragment ==
    ASSUME OwnAddresses, AllIds, ShortRun, TypeOK, HandshakeInv, SystemTypeOK, PartInv, LockInv,
           NEW p \in Peers, NEW r \in replies, PeerOnFragment(p, r)
    PROVE  LockInv'
<1> DEFINE a == AddrOf[p]
           t == TTLS(p, ReplyId(r), << >>)
           got == peer[p].stream \o r.cells
           s == [peer[p] EXCEPT !.stream = got, !.pending = t]
<1>1. Answered(p, r) /\ r.kind = "fragment" /\ r.more /\ Transmit(p, s)
  BY DEF PeerOnFragment
<1>2. /\ LinkInv(p) /\ After(p) /\ Carries(p, r) /\ r \in Reply /\ peer[p] \in Peer
      /\ peer[p].sent # 0 /\ peer[p].phase \in {"identity", "tls"}
  BY <1>1, AnsweredFacts DEF Opening
<1>3. /\ peer[p].sent \in Nat /\ peer[p].stream \in Seq(Cell) /\ r.cells \in Seq(Cell)
      /\ r.id \in Ids /\ a \in Addrs
  BY <1>1, <1>2, PendingFacts, ReplyFields
<1>4. t \in Request
  <2>1. 1 \in Flights
    BY AnswerAssumption DEF Flights, Tunnelled
  <2> QED
    BY <1>3, <2>1, TTLSType
<1>5. t.kind = "ttls" /\ t.id = ReplyId(r) /\ t.addr = a /\ t.data = << >>
  BY DEF TTLS
<1> HIDE DEF t
<1>6. Marked(p) /\ r.cells # << >> /\ got \o tlsOut[a] = Stream(peer[p].sent)
  BY <1>1, <1>2 DEF Carries
<1>7. got \in Seq(Cell) /\ got # << >>
  <2>1. got \in Seq(Cell) /\ Len(got) = Len(peer[p].stream) + Len(r.cells)
    BY <1>3, ConcatProperties
  <2>2. Len(peer[p].stream) \in Nat /\ Len(r.cells) \in Nat /\ Len(r.cells) # 0
    BY <1>3, <1>6, EmptySeq
  <2> HIDE DEF got
  <2>3. Len(got) # 0
    <3>1. \A i, j \in Nat : j # 0 => i + j # 0
      OBVIOUS
    <3> QED
      BY <2>1, <2>2, <3>1
  <2>4. Len(<< >>) = 0
    OBVIOUS
  <2> QED
    BY <2>1, <2>3, <2>4
<1> HIDE DEF got
<1>8. /\ s \in Peer /\ s.pending = t /\ s.sent = peer[p].sent /\ s.phase = peer[p].phase
      /\ s.stream = got
  BY <1>2, <1>4, <1>7 DEF Peer
<1> HIDE DEF s
<1>9. Transmit(p, s)
  BY <1>1 DEF s, got, t
<1>10. /\ LinkInv(p)' /\ (\A x \in replies' : ~ Answered(p, x)')
       /\ \A h \in Handlers : ~ Works(h, a)'
  BY <1>1, <1>2, <1>4, <1>5, <1>8, <1>9, NextTurn, LinkTransmit
<1>11. /\ peer'[p] = s /\ UNCHANGED <<tlsIn, tlsOut, conn, state, engine>>
  BY <1>9 DEF Transmit, SystemTypeOK, vars, sessionVars
<1>12. Due(p)' /\ Unmarked(p)'
  BY <1>6, <1>7, <1>8, <1>11 DEF Due, Unmarked, Fresh, Marked
<1>13. After(p)'
  BY <1>2, <1>5, <1>8, <1>10, <1>11, <1>12 DEF After
<1> QED
  BY <1>5, <1>8, <1>9, <1>10, <1>13, LockTransmit

\* The last fragment: the client has the whole answer, and sends its next flight.
LEMMA LockOnFlight ==
    ASSUME OwnAddresses, AllIds, ShortRun, TypeOK, HandshakeInv, SystemTypeOK, PartInv, LockInv,
           NEW p \in Peers, NEW r \in replies, PeerOnFlight(p, r)
    PROVE  LockInv'
<1> DEFINE a == AddrOf[p]
           n == peer[p].sent
           t == TTLS(p, ReplyId(r), << n + 1 >>)
           got == peer[p].stream \o r.cells
           s == [peer[p] EXCEPT !.stream = got, !.sent = @ + 1, !.pending = t]
<1>1. /\ Answered(p, r) /\ r.kind = "fragment" /\ ~ r.more
      /\ got = Stream(n) /\ n < Tunnelled => Transmit(p, s)
  BY DEF PeerOnFlight
<1>2. /\ LinkInv(p) /\ After(p) /\ Carries(p, r) /\ r \in Reply /\ peer[p] \in Peer
      /\ n # 0 /\ peer[p].phase \in {"identity", "tls"}
  BY <1>1, AnsweredFacts DEF Opening
<1>3. /\ n \in Nat /\ peer[p].stream \in Seq(Cell) /\ r.cells \in Seq(Cell)
      /\ r.id \in Ids /\ a \in Addrs /\ Tunnelled \in Nat
  BY <1>1, <1>2, PendingFacts, ReplyFields, AnswerAssumption DEF Tunnelled
<1>4. Marked(p) /\ tlsOut[a] = << >> /\ got = Stream(n) /\ got \in Seq(Cell)
  <2>1. Marked(p) /\ tlsOut[a] = << >> /\ got \o tlsOut[a] = Stream(n)
    BY <1>1, <1>2 DEF Carries
  <2>2. got \in Seq(Cell) /\ got \o << >> = got
    BY <1>3, Rejoin
  <2> QED
    BY <2>1, <2>2
<1>5. /\ conn[a] /\ n + 1 \in Flights /\ n < Tunnelled /\ n + 1 \in 0 .. Tunnelled
      /\ \A h \in Handlers :
            /\ engine[a][h].raw = << >>
            /\ engine[a][h].pc # "off" => /\ engine[a][h].expects = n + 1
                                          /\ engine[a][h].pc \in {"poll", "returned", "finished"}
  <2>1. PICK g \in Handlers : engine[a][g].pc # "off"
    BY <1>2 DEF After
  <2>2. conn[a] /\ engine[a][g].expects \in 1 .. Tunnelled
    BY <1>3, <2>1 DEF HandshakeInv, EngineInv
  <2>3. engine[a][g].expects = n + 1
    BY <1>2, <2>1 DEF After
  <2> QED
    BY <1>2, <1>3, <2>2, <2>3 DEF After, Flights
<1>6. t \in Request
  BY <1>3, <1>5, TTLSType
<1>7. t.kind = "ttls" /\ t.id = ReplyId(r) /\ t.addr = a /\ t.data = << n + 1 >>
  BY DEF TTLS
<1>8. Transmit(p, s)
  BY <1>1, <1>4, <1>5
<1> HIDE DEF t, got
<1>9. /\ s \in Peer /\ s.pending = t /\ s.sent = n + 1 /\ s.phase = peer[p].phase
      /\ s.stream = got
  BY <1>2, <1>4, <1>5, <1>6 DEF Peer
<1> HIDE DEF s
<1>10. /\ LinkInv(p)' /\ (\A x \in replies' : ~ Answered(p, x)')
       /\ \A h \in Handlers : ~ Works(h, a)'
  BY <1>1, <1>2, <1>6, <1>7, <1>8, <1>9, NextTurn, LinkTransmit
<1>11. /\ peer'[p] = s /\ UNCHANGED <<tlsIn, tlsOut, conn, state, engine>>
  BY <1>8 DEF Transmit, SystemTypeOK, vars, sessionVars
<1>12. \A h \in Handlers : Consumes(engine[a][h], peer[p].sent, tlsIn[a])'
  <2>1. \A h \in Handlers : Consumes(engine[a][h], n + 1, tlsIn[a])
    BY <1>5 DEF Consumes
  <2> QED
    BY <1>9, <1>11, <2>1 DEF Consumes
<1>13. Before(p)'
  <2>1. tlsIn[a] = << >> /\ \A h \in Handlers : engine[a][h].pc # "run"
    BY <1>2, <1>5 DEF After
  <2>2. (n + 1) - 1 = n /\ n + 1 # 1 /\ n + 1 >= 1
    BY <1>2, <1>3
  <2>3. s.stream = Stream(s.sent - 1)
    BY <1>4, <1>9, <2>2
  <2> QED
    BY <1>4, <1>5, <1>7, <1>9, <1>10, <1>11, <1>12, <2>1, <2>2, <2>3 DEF Before, Marked
<1> QED
  BY <1>7, <1>8, <1>9, <1>10, <1>13, LockTransmit

\* EAP-Success ends the conversation.
LEMMA LockOnSuccess ==
    ASSUME OwnAddresses, AllIds, ShortRun, TypeOK, HandshakeInv, SystemTypeOK, PartInv, LockInv,
           NEW p \in Peers, NEW r \in replies, PeerOnSuccess(p, r)
    PROVE  LockInv'
<1> DEFINE a == AddrOf[p]
           s == [peer[p] EXCEPT !.phase = "accepted", !.pending = None]
<1>1. /\ Answered(p, r) /\ peer' = [peer EXCEPT ![p] = s] /\ wire' = wire /\ UNCHANGED vars
  BY DEF PeerOnSuccess, Stop
<1>2. LinkInv(p) /\ peer[p] \in Peer /\ OneEngine(p)
  BY <1>1, AnsweredFacts DEF PairInv
<1>3. s.phase = "accepted" /\ s.pending = None
  BY <1>2 DEF Peer
<1> HIDE DEF s
<1>4. peer'[p] = s /\ UNCHANGED <<pc, request, replies, engine>>
  BY <1>1 DEF SystemTypeOK, vars, sessionVars, handlerVars, netVars
<1>5. (\A x \in wire : x.addr # a) /\ \A h \in Handlers : ~ Works(h, a)
  BY <1>1, <1>2, NextTurn
<1>6. LinkInv(p)'
  BY <1>1, <1>3, <1>4, <1>5 DEF LinkInv, Works, Answered
<1>7. PairInv(p)'
  BY <1>2, <1>3, <1>4, <1>6 DEF PairInv, StageInv, OneEngine
<1>8. ASSUME NEW c \in Peers, c # p PROVE PairInv(c)'
  <2>1. Same(c)
    BY <1>1, <1>8, ClientSame
  <2> QED
    BY <2>1, PairFrame DEF LockInv
<1> QED
  BY <1>1, <1>7, <1>8, ClientLocals DEF LockInv

\* A request is delivered to a handler, the only one of its client.
LEMMA LockDeliver ==
    ASSUME OwnAddresses, TypeOK, HandshakeInv, SystemTypeOK, PartInv, LockInv,
           NEW b \in Addrs, DeliverFrom(b)
    PROVE  LockInv'
<1>1. PICK r \in wire : Deliver(r)
  BY DEF DeliverFrom
<1>2. PICK h \in Handlers : Receive(h, r)
  BY <1>1 DEF Deliver
<1>3. PICK p \in Peers : r.addr = AddrOf[p]
  BY DEF LockInv, Owned
<1> DEFINE a == AddrOf[p]
           q == peer[p].pending
<1>4. /\ UNCHANGED <<peer, state, tlsIn, tlsOut, conn, engine, output, first, reply, replies>>
      /\ wire' = wire \ {r} /\ received' = received + 1
      /\ pc[h] = "idle" /\ pc'[h] = "switch" /\ request'[h] = r
      /\ \A g \in Handlers \ {h} : pc'[g] = pc[g] /\ request'[g] = request[g]
  BY <1>1, <1>2 DEF Deliver, Receive, Goto, TypeOK
<1>5. received \in Nat /\ received' \in Nat /\ received <= received'
  BY <1>4 DEF TypeOK
<1>6. PairInv(p) /\ r = q /\ r \in Request /\ r # None
  BY <1>3, PendingFacts DEF LockInv, PairInv, LinkInv, SystemTypeOK
<1>7. /\ \A g \in Handlers : ~ Works(g, a)
      /\ \A x \in replies : ~ Answered(p, x)
      /\ peer[p].phase # "accepted" /\ peer[p].phase # "idle"
  BY <1>6, PendingFacts DEF PairInv, LinkInv
<1>8. /\ \A g \in Handlers : Works(g, a)' <=> g = h
      /\ \A x : ~ Answered(p, x)'
  BY <1>3, <1>4, <1>7 DEF Works, Answered
<1>9. LinkInv(p)'
  <2>1. \A x \in wire' : x.addr = a => x = q
    BY <1>4, <1>6 DEF PairInv, LinkInv
  <2>2. PICK j \in 0 .. received :
           /\ q.id = At(p, j)
           /\ \A x \in replies : x.addr = a => \E i \in 0 .. j : x.id = At(p, i)
    BY <1>6 DEF PairInv, LinkInv
  <2>3. j \in 0 .. received'
    BY <1>5
  <2>4. \E k \in 0 .. received' :
           /\ q.id = At(p, k)
           /\ \A x \in replies' : x.addr = a => \E i \in 0 .. k : x.id = At(p, i)
    BY <1>4, <2>2, <2>3
  <2>5. peer'[p].phase # "failed" /\ peer'[p].phase # "idle"
    BY <1>4, <1>6, <1>7 DEF PairInv, LinkInv
  <2> QED
    BY <1>4, <1>6, <1>8, <2>1, <2>4, <2>5 DEF LinkInv
<1>10. OneEngine(p)'
  BY <1>4, <1>6 DEF PairInv, OneEngine
<1>11. Unfed(p)
  BY <1>6 DEF Unfed
<1>12. ASSUME Before(p) PROVE Before(p)'
  <2>1. \A g \in Handlers : Consumes(engine[a][g], peer[p].sent, tlsIn[a])'
    BY <1>4, <1>12 DEF Before, Consumes
  <2>2. \A g \in Handlers :
          Works(g, a)' => /\ pc'[g] \in {"switch", "conn", "start", "wait"}
                          /\ pc'[g] = "start" => ~ conn'[a]
    BY <1>4, <1>8
  <2>3. tlsIn'[a] = << >> /\ \A g \in Handlers : engine'[a][g].pc # "run"
    BY <1>4, <1>11, <1>12 DEF Before
  <2> QED
    BY <1>4, <1>8, <1>12, <2>1, <2>2, <2>3 DEF Before
<1>13. ASSUME After(p) PROVE After(p)'
  <2>1. Due(p)' /\ Unmarked(p)'
    BY <1>4, <1>7, <1>13 DEF After, Due, Unmarked, Fresh
  <2>2. \A g \in Handlers : Works(g, a)' => Holds(p, g)'
    BY <1>4, <1>8 DEF Holds
  <2> QED
    BY <1>4, <1>8, <1>11, <1>13, <2>1, <2>2 DEF After, Marked
<1>14. PairInv(p)'
  BY <1>6, <1>7, <1>9, <1>10, <1>12, <1>13 DEF PairInv, StageInv
<1>15. ASSUME NEW c \in Peers, c # p PROVE PairInv(c)'
  <2>1. r.addr # AddrOf[c]
    BY <1>3, <1>15 DEF OwnAddresses
  <2>2. Same(c)
    BY <1>4, <1>5, <2>1 DEF Same, Works
  <2> QED
    BY <2>2, PairFrame DEF LockInv
<1>16. ASSUME NEW g \in Handlers PROVE LocalInv(g)'
  <2>1. LocalInv(g) /\ LocalInv(h) /\ Owned(r)
    BY DEF LockInv
  <2>2. CASE g = h
    BY <1>4, <2>1, <2>2 DEF LocalInv, Owned
  <2>3. CASE g # h
    BY <1>4, <2>1, <2>3 DEF LocalInv, Owned
  <2> QED
    BY <2>2, <2>3
<1> QED
  BY <1>4, <1>14, <1>15, <1>16 DEF LockInv

-----------------------------------------------------------------------------
(* What clients in lock-step are given. *)

\* No step takes LockInv away.
LEMMA LockStep ==
    ASSUME OwnAddresses, AllIds, ShortRun, NoCopies, TypeOK, HandshakeInv, SystemTypeOK,
           PartInv, LockInv, [SystemNext]_systemVars
    PROVE  LockInv'
<1>1. CASE UNCHANGED systemVars
  <2>1. UNCHANGED vars /\ UNCHANGED <<peer, wire>>
    BY <1>1 DEF systemVars, peerVars
  <2>2. ASSUME NEW p \in Peers PROVE Same(p)
    BY <2>1 DEF Same, Works, vars, sessionVars, handlerVars, netVars, TypeOK
  <2>3. \A p \in Peers : PairInv(p)'
    BY <2>2, PairFrame DEF LockInv
  <2> QED
    BY <2>1, <2>3, ClientLocals DEF LockInv
<1>2. ASSUME NEW p \in Peers PROVE ~ Retransmit(p)
  BY DEF NoCopies, Retransmit, SystemTypeOK
<1>3. ASSUME NEW p \in Peers, PeerReceives(p) PROVE LockInv'
  BY <1>3, LockOnStart, LockOnFragment, LockOnFlight, LockOnSuccess DEF PeerReceives
<1> QED
  BY <1>1, <1>2, <1>3, LockServer, LockStart, LockDeliver DEF SystemNext

\* Nothing has been sent.
LEMMA LockInit ==
    ASSUME SystemInit, TypeOK, SystemTypeOK, PartInv PROVE LockInv
<1>1. /\ replies = {} /\ wire = {}
      /\ \A h \in Handlers : pc[h] = "idle" /\ first[h] = FALSE /\ output[h] = << >>
      /\ \A a \in Addrs : /\ tlsIn[a] = << >> /\ tlsOut[a] = << >> /\ conn[a] = FALSE
                          /\ state[a] = 0
      /\ \A a \in Addrs, h \in Handlers : engine[a][h].pc = "off" /\ engine[a][h].raw = << >>
      /\ \A p \in Peers : /\ peer[p].phase = "idle" /\ peer[p].sent = 0
                          /\ peer[p].stream = << >> /\ peer[p].pending = None
  BY DEF SystemInit, Init
<1>2. \A p \in Peers : AddrOf[p] \in Addrs
  BY AddrOfAssumption
<1>3. ASSUME NEW p \in Peers PROVE PairInv(p)
  <2>1. LinkInv(p)
    BY <1>1 DEF LinkInv, Works
  <2>2. OneEngine(p)
    BY <1>1, <1>2 DEF OneEngine
  <2>3. Due(p) /\ Unmarked(p) /\ Marked(p)
    <3>1. Stream(0) = << >> /\ << >> \o << >> = << >>
      BY StreamStep
    <3>2. Due(p)
      BY <1>1, <1>2, <3>1 DEF Due
    <3>3. Unmarked(p) /\ Marked(p)
      BY <1>1, <1>2 DEF Unmarked, Marked, Fresh
    <3> QED
      BY <3>2, <3>3
  <2>4. After(p)
    BY <1>1, <1>2, <2>3 DEF After, Works
  <2> QED
    BY <2>1, <2>2, <2>4 DEF PairInv, StageInv
<1>4. \A h \in Handlers : LocalInv(h)
  BY <1>1 DEF LocalInv
<1> QED
  BY <1>1, <1>3, <1>4 DEF LockInv

\* LockInv is an inductive invariant, together with those before it.
LEMMA LockstepInvariance ==
    ASSUME OwnAddresses, AllIds, ShortRun, NoCopies
    PROVE  SystemSpec => []LockInv
<1>1. TypeOK /\ HandshakeInv /\ SystemTypeOK /\ SystemInit => PartInv
  BY PartInit
<1>2. TypeOK /\ HandshakeInv /\ SystemTypeOK /\ PartInv /\ [SystemNext]_systemVars => PartInv'
  BY PartStep
<1>3. TypeOK /\ HandshakeInv /\ SystemTypeOK /\ PartInv /\ SystemInit => LockInv
  BY LockInit
<1>4. TypeOK /\ HandshakeInv /\ SystemTypeOK /\ PartInv /\ LockInv /\ [SystemNext]_systemVars
         => LockInv'
  BY LockStep
<1> QED
  BY <1>1, <1>2, <1>3, <1>4, SystemTypeTheorem, PTL DEF SystemSpec

\* A client in lock-step gets each of the engine's answers whole and in order,
\* whatever other clients do and however slow the engine is.
THEOREM StreamTheorem ==
    ASSUME OwnAddresses, AllIds, ShortRun, NoCopies
    PROVE  SystemSpec => []StreamIntact
<1>1. LockInv => StreamIntact
  BY DEF LockInv, PairInv, LinkInv, StreamIntact
<1> QED
  BY <1>1, LockstepInvariance, PTL

\* To clients in lock-step the TLS Message Length is announced with the first
\* fragment of the first answer, if that takes several, is right, and is not
\* announced again.
THEOREM AnnouncedTheorem ==
    ASSUME OwnAddresses, AllIds, ShortRun, NoCopies
    PROVE  SystemSpec => []AnnouncedLength
<1>1. LockInv => AnnouncedLength
  BY DEF LockInv, AnnouncedLength
<1> QED
  BY <1>1, LockstepInvariance, PTL
================================================================================
