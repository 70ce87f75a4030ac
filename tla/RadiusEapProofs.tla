--------------------------- MODULE RadiusEapProofs ---------------------------
(***************************************************************************)
(* Proofs about RadiusEap, for any datagrams, any number of clients and    *)
(* goroutines: the server as a whole behaves, towards its sessions, as     *)
(* EapServer says and, towards the network, as RadiusServer says, so what  *)
(* is proved of EapServer holds of it; only verified packets feed a TLS    *)
(* session; and an Access-Accept verifies against one of them.             *)
(*                                                                         *)
(* The inductive invariant is FullInv.  The listener validates a packet,   *)
(* and the handler uses it later, while the buffers, the session and the   *)
(* other goroutines go on: FullInv says what the goroutine of a handler    *)
(* still knows of the datagram it was started for (GoroutineInv), and what *)
(* its pc says of that datagram (KindInv).                                 *)
(***************************************************************************)
EXTENDS RadiusEap, EapServerProofs

\* The goroutine h was started for the datagram d.
Serves(h, d) == d.from = from[h] /\ d.packet = R!Packet(h)

ListenerInv ==
    /\ wire \subseteq sent
    /\ sent \subseteq Datagrams
    /\ stage \in [Handlers -> {"idle", "check", "eap", "answer"}]
    /\ from \in [Handlers -> Addrs \cup {R!NoAddr}]
    /\ buffer \in [Handlers -> {d.packet : d \in Datagrams} \cup {R!Blank}]

\* What a goroutine knows of the packet in its buffer.
GoroutineInv(h) ==
    /\ stage[h] # "idle" => \E d \in sent : Serves(h, d)
    /\ stage[h] = "eap" => ~ R!Forged(R!Packet(h))
    /\ pc[h] # "idle" =>
          /\ stage[h] = "eap"
          /\ HasEap(R!Packet(h))
          /\ request[h] = EapRequest(Served(h))

\* Where a handler is says what kind of request it serves.
KindInv(h) ==
    /\ pc[h] \notin {"idle", "switch", "send"} => request[h].kind = "ttls"
    /\ pc[h] = "send" =>
          /\ request[h].kind \in {"identity", "ttls"}
          /\ reply[h].kind = "success" => request[h].kind = "ttls"
          /\ reply[h].addr = request[h].addr

\* The flights that came from address a in packets that passed the check.
Verified(a) ==
    {k \in Flights : \E d \in sent :
        d.from = a /\ GoodTtls(d) /\ EapRequest(d).data = << k >>}

\* OnlyVerifiedFeedTls, buffer by buffer.
FedInv ==
    \A a \in Addrs :
        /\ tlsIn[a] \in Seq(Verified(a))
        /\ \A h \in Handlers :
              /\ engine[a][h].raw \in Seq(Verified(a))
              /\ \A k \in 1 .. engine[a][h].expects - 1 : k \in Verified(a)

\* An Access-Accept that carries an EAP packet answers a verified one.
AcceptAnswers ==
    \A r \in responses :
        /\ r.packet.code = R!AccessAccept
        /\ \E i \in DOMAIN r.packet.attrs : r.packet.attrs[i].type = "eap"
        =>
            /\ \E s \in replies : s.kind = "success" /\ s.addr = r.to
            /\ \E d \in sent :
                  d.from = r.to /\ GoodTtls(d) /\ R!Verifies(d.packet, r.packet)

FullInv ==
    /\ TypeOK
    /\ HandshakeInv
    /\ ListenerInv
    /\ \A h \in Handlers : GoroutineInv(h) /\ KindInv(h)
    /\ FedInv
    /\ AcceptAnswers

-----------------------------------------------------------------------------
(* Steps of the listener and of the sessions. *)

\* The actions that leave the sessions alone.
Listening ==
    \/ SendDatagram
    \/ MainLoop
    \/ \E h \in Handlers : ReceiveDatagram(h) \/ HandlePacket(h) \/ EnterWithout(h)

\* The request of a goroutine is that of its datagram.
LEMMA RequestServed ==
    ASSUME NEW h \in Handlers, NEW d \in Datagrams, Serves(h, d),
           HasEap(R!Packet(h))
    PROVE  /\ EapRequest(Served(h)) = EapRequest(d)
           /\ EapRequest(d) \in Request
           /\ EapRequest(d).addr = from[h]
           /\ EapRequest(d).kind = R!First(R!Packet(h), "eap").message
<1>1. EapRequest(Served(h)) = EapRequest(d)
  BY DEF Serves, Served, EapRequest
<1>2. /\ EapRequest(d) \in Request
      /\ EapRequest(d).kind = R!First(R!Packet(h), "eap").message
  BY DatagramsAssumption DEF Serves
<1>3. EapRequest(d).addr = from[h]
  <2> DEFINE q == R!First(d.packet, "eap").request
  <2>1. EapRequest(d) = [q EXCEPT !.addr = d.from]
    BY DEF EapRequest
  <2>2. "addr" \in DOMAIN EapRequest(d)
    BY <1>2 DEF Request
  <2>3. "addr" \in DOMAIN q
    BY <2>1, <2>2
  <2> QED
    BY <2>1, <2>3 DEF Serves
<1> QED
  BY <1>1, <1>2, <1>3

\* Every step of the whole server is one of EapServer, or leaves its state alone.
LEMMA SessionStep ==
    ASSUME FullInv, [FullNext]_allVars
    PROVE  [Next]_vars
<1>1. ASSUME Listening PROVE UNCHANGED vars
  BY <1>1 DEF Listening, SendDatagram, MainLoop, ReceiveDatagram, HandlePacket, EnterWithout
<1>2. ASSUME NEW h \in Handlers, Enter(h) PROVE Next
  <2>1. PICK d \in sent : Serves(h, d)
    BY <1>2 DEF Enter, FullInv, GoroutineInv
  <2>2. EapRequest(Served(h)) \in Request
    BY <1>2, <2>1, RequestServed DEF Enter, FullInv, ListenerInv
  <2> QED
    BY <1>2, <2>2 DEF Enter, Next, Environment
<1>3. ASSUME NEW h \in Handlers, HandlerGoesOn(h) PROVE Next
  BY <1>3 DEF HandlerGoesOn, Next, Server
<1>4. ASSUME EngineGoesOn PROVE Next
  BY <1>4 DEF EngineGoesOn, Next, Server
<1>5. CASE UNCHANGED allVars
  BY <1>5 DEF allVars
<1> QED
  BY <1>1, <1>2, <1>3, <1>4, <1>5 DEF FullNext, Goroutine, Listening

-----------------------------------------------------------------------------
(* What a goroutine knows stays true. *)

\* A step of a handler touches no other handler, and keeps the request it
\* serves until it ends.
LEMMA HandlerFrame ==
    ASSUME TypeOK, NEW h \in Handlers, HandlerStep(h)
    PROVE  /\ pc[h] # "idle"
           /\ \A g \in Handlers \ {h} :
                 pc'[g] = pc[g] /\ request'[g] = request[g] /\ reply'[g] = reply[g]
           /\ pc'[h] # "idle" => request'[h] = request[h]
<1>0. /\ pc \in [Handlers -> Labels]
      /\ request \in [Handlers -> Request \cup {None}]
      /\ reply \in [Handlers -> Reply \cup {None}]
  BY DEF TypeOK
<1> USE <1>0 DEF Goto, Retire, sessionVars, handlerVars, netVars
<1>1. CASE Identity(h) \/ Ignore(h)
  BY <1>1 DEF Identity, Ignore, Answers
<1>2. CASE Pump(h) \/ TestConn(h) \/ StartEngine(h)
  BY <1>2 DEF Pump, TestConn, StartEngine
<1>3. CASE Available(h) \/ Expire(h) \/ TakeBytes(h)
  BY <1>3 DEF Available, Expire, TakeBytes
<1>4. CASE TestFirst(h) \/ MarkSending(h) \/ MarkSent(h)
  BY <1>4 DEF TestFirst, MarkSending, MarkSent
<1>5. CASE ResetOut(h) \/ Send(h)
  BY <1>5 DEF ResetOut, Send
<1>6. CASE SendChunk(h) \/ Finish(h)
  BY <1>6 DEF SendChunk, Finish, Answers, Fragment
<1> QED
  BY <1>1, <1>2, <1>3, <1>4, <1>5, <1>6 DEF HandlerStep

\* An engine step leaves the handlers where they are.
LEMMA EngineQuiet ==
    ASSUME NEW a \in Addrs, NEW h \in Handlers, EngineStep(a, h)
    PROVE  UNCHANGED <<pc, request, reply, replies>>
BY DEF EngineStep, EnginePoll, EngineRead, EngineRun, EngineAlert, EngineFinish,
       handlerVars, netVars

\* Only a TTLS packet gets past the switch of handleEAP.
LEMMA KindStep ==
    ASSUME TypeOK, NEW h \in Handlers, HandlerInv(h), KindInv(h), HandlerStep(h)
    PROVE  KindInv(h)'
<1>0. /\ pc \in [Handlers -> Labels]
      /\ request \in [Handlers -> Request \cup {None}]
      /\ reply \in [Handlers -> Reply \cup {None}]
  BY DEF TypeOK
<1> USE <1>0 DEF KindInv, Goto, Retire, sessionVars, handlerVars, netVars
<1>1. CASE Identity(h) \/ Ignore(h)
  BY <1>1 DEF Identity, Ignore, Answers
<1>2. CASE Pump(h) \/ TestConn(h) \/ StartEngine(h)
  BY <1>2 DEF Pump, TestConn, StartEngine
<1>3. CASE Available(h) \/ Expire(h) \/ TakeBytes(h)
  BY <1>3 DEF Available, Expire, TakeBytes
<1>4. CASE TestFirst(h) \/ MarkSending(h) \/ MarkSent(h)
  BY <1>4 DEF TestFirst, MarkSending, MarkSent
<1>5. CASE ResetOut(h) \/ Send(h)
  BY <1>5 DEF ResetOut, Send
<1>6. CASE SendChunk(h) \/ Finish(h)
  BY <1>6 DEF SendChunk, Finish, Answers, Fragment
<1> QED
  BY <1>1, <1>2, <1>3, <1>4, <1>5, <1>6 DEF HandlerStep

\* A handler that ends has sent its answer, or had a packet other than an
\* Identity.
LEMMA HandlerEnds ==
    ASSUME TypeOK, NEW h \in Handlers, KindInv(h), HandlerStep(h), pc'[h] = "idle"
    PROVE  \/ pc[h] = "send" /\ Send(h)
           \/ pc[h] # "send" /\ request[h].kind # "identity" /\ UNCHANGED replies
<1>0. /\ pc \in [Handlers -> Labels]
      /\ request \in [Handlers -> Request \cup {None}]
      /\ reply \in [Handlers -> Reply \cup {None}]
  BY DEF TypeOK
<1> USE <1>0 DEF KindInv, Goto, Retire, sessionVars, handlerVars, netVars
<1>1. CASE Identity(h) \/ Ignore(h)
  BY <1>1 DEF Identity, Ignore, Answers
<1>2. CASE Pump(h) \/ TestConn(h) \/ StartEngine(h)
  BY <1>2 DEF Pump, TestConn, StartEngine
<1>3. CASE Available(h) \/ Expire(h) \/ TakeBytes(h)
  BY <1>3 DEF Available, Expire, TakeBytes
<1>4. CASE TestFirst(h) \/ MarkSending(h) \/ MarkSent(h)
  BY <1>4 DEF TestFirst, MarkSending, MarkSent
<1>5. CASE ResetOut(h) \/ Send(h)
  BY <1>5 DEF ResetOut, Send
<1>6. CASE SendChunk(h) \/ Finish(h)
  BY <1>6 DEF SendChunk, Finish, Answers, Fragment
<1> QED
  BY <1>1, <1>2, <1>3, <1>4, <1>5, <1>6 DEF HandlerStep

\* What a goroutine knows does not depend on what others do.
LEMMA GoroutineKept ==
    ASSUME NEW g \in Handlers, GoroutineInv(g), sent \subseteq sent',
           stage'[g] = stage[g], from'[g] = from[g], buffer'[g] = buffer[g],
           pc'[g] = pc[g], request'[g] = request[g]
    PROVE  GoroutineInv(g)'
<1>1. R!Packet(g)' = R!Packet(g)
  BY DEF R!Packet, R!Buffer
<1>2. Served(g)' = Served(g)
  BY <1>1 DEF Served
<1> QED
  BY <1>1, <1>2 DEF GoroutineInv, Serves

\* Nor does where a handler is, and what it serves.
LEMMA KindKept ==
    ASSUME NEW g \in Handlers, KindInv(g),
           pc'[g] = pc[g], request'[g] = request[g], reply'[g] = reply[g]
    PROVE  KindInv(g)'
BY DEF KindInv

\* When a goroutine returns, its slot is free, and no other is touched.
LEMMA Returned ==
    ASSUME ListenerInv, NEW h \in Handlers, R!HandlerReturns(h)
    PROVE  /\ stage' \in [Handlers -> {"idle", "check", "eap", "answer"}]
           /\ from' \in [Handlers -> Addrs \cup {R!NoAddr}]
           /\ buffer' \in [Handlers -> {d.packet : d \in Datagrams} \cup {R!Blank}]
           /\ wire' = wire
           /\ stage'[h] = "idle"
           /\ \A g \in Handlers \ {h} :
                 stage'[g] = stage[g] /\ from'[g] = from[g] /\ buffer'[g] = buffer[g]
BY DEF ListenerInv, R!HandlerReturns

\* Invariants of one goroutine after a step that ends it.
LEMMA ReturnedInv ==
    ASSUME ListenerInv, NEW h \in Handlers, R!HandlerReturns(h), UNCHANGED sent,
           pc' \in [Handlers -> Labels], pc'[h] = "idle",
           \A g \in Handlers : GoroutineInv(g),
           \A g \in Handlers \ {h} : pc'[g] = pc[g] /\ request'[g] = request[g]
    PROVE  ListenerInv' /\ \A g \in Handlers : GoroutineInv(g)'
<1>1. ListenerInv'
  BY Returned DEF ListenerInv
<1>2. GoroutineInv(h)'
  BY Returned DEF GoroutineInv
<1>3. \A g \in Handlers \ {h} : GoroutineInv(g)'
  BY Returned, GoroutineKept
<1> QED
  BY <1>1, <1>2, <1>3

\* What an invariant of the listener needs of a step of the listener.
LEMMA ListeningStep ==
    ASSUME TypeOK, ListenerInv, \A h \in Handlers : GoroutineInv(h), Listening
    PROVE  ListenerInv' /\ \A h \in Handlers : GoroutineInv(h)'
<1>0. UNCHANGED <<pc, request>>
  BY DEF Listening, SendDatagram, MainLoop, ReceiveDatagram, HandlePacket, EnterWithout,
         vars, handlerVars
<1>1. CASE SendDatagram
  <2>1. /\ sent \subseteq sent' /\ sent' \subseteq Datagrams /\ wire' \subseteq sent'
        /\ UNCHANGED <<stage, from, buffer>>
    BY <1>1 DEF SendDatagram, ListenerInv
  <2>2. ListenerInv'
    BY <2>1 DEF ListenerInv
  <2> QED
    BY <1>0, <2>1, <2>2, GoroutineKept
<1>2. CASE MainLoop
  <2>1. UNCHANGED <<wire, sent, stage, from, buffer>>
    BY <1>2 DEF MainLoop, R!ReadTimeout, R!Signal, ghostVars
  <2> QED
    BY <1>0, <2>1, GoroutineKept DEF ListenerInv
<1>3. ASSUME NEW h \in Handlers, ReceiveDatagram(h)
      PROVE  ListenerInv' /\ \A g \in Handlers : GoroutineInv(g)'
  <2>1. PICK d \in wire : /\ wire' \subseteq wire
                          /\ from' = [from EXCEPT ![h] = d.from]
                          /\ buffer' = [buffer EXCEPT ![h] = d.packet]
    BY <1>3 DEF ReceiveDatagram, R!Receive, R!Buffer
  <2>2. /\ stage[h] = "idle" /\ sent' = sent
        /\ stage' = [stage EXCEPT ![h] = "check"]
    BY <1>3 DEF ReceiveDatagram, R!Receive
  <2>3. d \in sent /\ d \in Datagrams /\ d.from \in Addrs
    BY DatagramsAssumption DEF ListenerInv
  <2>4. ListenerInv'
    BY <2>1, <2>2, <2>3 DEF ListenerInv
  <2>5. GoroutineInv(h)'
    <3>1. pc'[h] = "idle"
      BY <1>0, <2>2 DEF GoroutineInv
    <3>2. Serves(h, d)'
      BY <2>1 DEF Serves, R!Packet, R!Buffer, ListenerInv
    <3>3. stage'[h] = "check"
      BY <2>2 DEF ListenerInv
    <3> QED
      BY <2>2, <2>3, <3>1, <3>2, <3>3 DEF GoroutineInv
  <2>6. ASSUME NEW g \in Handlers \ {h} PROVE GoroutineInv(g)'
    <3>1. /\ stage'[g] = stage[g] /\ from'[g] = from[g] /\ buffer'[g] = buffer[g]
          /\ sent \subseteq sent'
      BY <2>1, <2>2 DEF ListenerInv
    <3> QED
      BY <1>0, <3>1, GoroutineKept
  <2> QED
    BY <2>4, <2>5, <2>6
<1>4. ASSUME NEW h \in Handlers, R!Dispatch(h), UNCHANGED sent
      PROVE  ListenerInv' /\ \A g \in Handlers : GoroutineInv(g)'
  <2>1. PICK l \in {"eap", "answer"} :
           /\ stage' = [stage EXCEPT ![h] = l]
           /\ UNCHANGED <<wire, from, buffer>>
           /\ stage[h] = "check"
           /\ ~ R!Forged(R!Packet(h))
    BY <1>4 DEF R!Dispatch, R!Readies, R!Looked
  <2>2. ListenerInv'
    BY <1>4, <2>1 DEF ListenerInv
  <2>3. GoroutineInv(h)'
    <3>1. pc'[h] = "idle"
      BY <1>0, <2>1 DEF GoroutineInv
    <3>2. R!Packet(h)' = R!Packet(h) /\ \A d : Serves(h, d)' <=> Serves(h, d)
      BY <2>1 DEF Serves, R!Packet, R!Buffer
    <3>3. \E d \in sent : Serves(h, d)
      BY <2>1 DEF GoroutineInv
    <3> QED
      BY <1>4, <2>1, <3>1, <3>2, <3>3 DEF GoroutineInv
  <2>4. ASSUME NEW g \in Handlers \ {h} PROVE GoroutineInv(g)'
    <3>1. /\ stage'[g] = stage[g] /\ from'[g] = from[g] /\ buffer'[g] = buffer[g]
          /\ sent \subseteq sent'
      BY <1>4, <2>1 DEF ListenerInv
    <3> QED
      BY <1>0, <3>1, GoroutineKept
  <2> QED
    BY <2>2, <2>3, <2>4
<1>5. ASSUME NEW h \in Handlers, R!HandlerReturns(h), UNCHANGED sent,
             stage[h] # "eap" \/ ~ HasEap(R!Packet(h))
      PROVE  ListenerInv' /\ \A g \in Handlers : GoroutineInv(g)'
  <2>1. pc' \in [Handlers -> Labels] /\ pc'[h] = "idle"
    BY <1>0, <1>5 DEF TypeOK, GoroutineInv
  <2> QED
    BY <1>0, <1>5, <2>1, ReturnedInv
<1>6. ASSUME NEW h \in Handlers, HandlePacket(h)
      PROVE  ListenerInv' /\ \A g \in Handlers : GoroutineInv(g)'
  <2>1. UNCHANGED sent
    BY <1>6 DEF HandlePacket, ghostVars
  <2>2. CASE R!Ignore(h) \/ R!RejectForged(h) \/ R!Serve(h)
    <3>1. R!HandlerReturns(h) /\ stage[h] # "eap"
      BY <2>2 DEF R!Ignore, R!RejectForged, R!Serve, R!Readies, R!Looked,
         R!Drop, R!Respond
    <3> QED
      BY <2>1, <3>1, <1>5
  <2>3. CASE R!Panic(h)
    <3>1. UNCHANGED <<wire, stage, from, buffer>>
      BY <2>3 DEF R!Panic
    <3> QED
      BY <1>0, <2>1, <3>1, GoroutineKept DEF ListenerInv
  <2> QED
    BY <1>4, <1>6, <2>1, <2>2, <2>3 DEF HandlePacket
<1>7. ASSUME NEW h \in Handlers, EnterWithout(h)
      PROVE  ListenerInv' /\ \A g \in Handlers : GoroutineInv(g)'
  BY <1>5, <1>7 DEF EnterWithout, R!Drop, ghostVars
<1> QED
  BY <1>1, <1>2, <1>3, <1>6, <1>7 DEF Listening

\* The invariants of the listener and its goroutines, and steps of a session.
LEMMA ServingStep ==
    ASSUME TypeOK, TypeOK', HandshakeInv, ListenerInv,
           \A h \in Handlers : GoroutineInv(h) /\ KindInv(h),
           EngineGoesOn \/ \E h \in Handlers : Enter(h) \/ HandlerGoesOn(h)
    PROVE  ListenerInv' /\ \A h \in Handlers : GoroutineInv(h)'
<1>1. CASE EngineGoesOn
  <2>1. UNCHANGED <<pc, request, wire, sent, stage, from, buffer>>
    BY <1>1, EngineQuiet DEF EngineGoesOn, listenerVars, ghostVars
  <2> QED
    BY <2>1, GoroutineKept DEF ListenerInv
<1>2. ASSUME NEW h \in Handlers, Enter(h)
      PROVE  ListenerInv' /\ \A g \in Handlers : GoroutineInv(g)'
  <2>1. UNCHANGED <<wire, sent, stage, from, buffer>>
    BY <1>2 DEF Enter, listenerVars, ghostVars
  <2>2. ListenerInv'
    BY <2>1 DEF ListenerInv
  <2>3. /\ request' = [request EXCEPT ![h] = EapRequest(Served(h))]
        /\ pc' = [pc EXCEPT ![h] = "switch"]
        /\ stage[h] = "eap" /\ HasEap(R!Packet(h))
    BY <1>2 DEF Enter, Receive, Goto
  <2>4. GoroutineInv(h)'
    <3>1. Served(h)' = Served(h) /\ R!Packet(h)' = R!Packet(h)
      BY <2>1 DEF Served, R!Packet, R!Buffer
    <3>2. request'[h] = EapRequest(Served(h))
      BY <2>3 DEF TypeOK
    <3> QED
      BY <2>1, <2>3, <3>1, <3>2 DEF GoroutineInv, Serves
  <2>5. ASSUME NEW g \in Handlers \ {h} PROVE GoroutineInv(g)'
    <3>1. pc'[g] = pc[g] /\ request'[g] = request[g]
      BY <2>3 DEF TypeOK
    <3> QED
      BY <2>1, <3>1, GoroutineKept
  <2> QED
    BY <2>2, <2>4, <2>5
<1>3. ASSUME NEW h \in Handlers, HandlerGoesOn(h)
      PROVE  ListenerInv' /\ \A g \in Handlers : GoroutineInv(g)'
  <2>1. HandlerStep(h) /\ UNCHANGED sent
    BY <1>3 DEF HandlerGoesOn, ghostVars
  <2>2. \A g \in Handlers \ {h} : pc'[g] = pc[g] /\ request'[g] = request[g]
    BY <2>1, HandlerFrame
  <2>3. CASE pc'[h] # "idle"
    <3>1. UNCHANGED <<wire, sent, stage, from, buffer>>
      BY <1>3, <2>1, <2>3 DEF HandlerGoesOn, listenerVars
    <3>2. ListenerInv'
      BY <3>1 DEF ListenerInv
    <3>3. GoroutineInv(h)'
      <4>1. pc[h] # "idle" /\ request'[h] = request[h]
        BY <2>1, <2>3, HandlerFrame
      <4>2. Served(h)' = Served(h) /\ R!Packet(h)' = R!Packet(h)
        BY <3>1 DEF Served, R!Packet, R!Buffer
      <4> QED
        BY <3>1, <4>1, <4>2 DEF GoroutineInv, Serves
    <3>4. \A g \in Handlers \ {h} : GoroutineInv(g)'
      BY <2>2, <3>1, GoroutineKept
    <3> QED
      BY <3>2, <3>3, <3>4
  <2>4. CASE pc'[h] = "idle"
    <3>1. R!HandlerReturns(h)
      BY <1>3, <2>4 DEF HandlerGoesOn, R!Respond, R!Drop
    <3>2. pc' \in [Handlers -> Labels]
      BY DEF TypeOK
    <3> QED
      BY <2>1, <2>2, <2>4, <3>1, <3>2, ReturnedInv
  <2> QED
    BY <2>3, <2>4
<1> QED
  BY <1>1, <1>2, <1>3

\* Where the handlers are, and what they serve, after any step.
LEMMA KindsStep ==
    ASSUME TypeOK, HandshakeInv, \A h \in Handlers : KindInv(h),
           EngineGoesOn \/ \E h \in Handlers : Enter(h) \/ HandlerGoesOn(h)
    PROVE  \A h \in Handlers : KindInv(h)'
<1>1. CASE EngineGoesOn
  BY <1>1, EngineQuiet, KindKept DEF EngineGoesOn
<1>2. ASSUME NEW h \in Handlers, Enter(h) PROVE \A g \in Handlers : KindInv(g)'
  <2>1. /\ request' = [request EXCEPT ![h] = EapRequest(Served(h))]
        /\ pc' = [pc EXCEPT ![h] = "switch"]
        /\ reply' = reply
    BY <1>2 DEF Enter, Receive, Goto
  <2>2. KindInv(h)'
    BY <2>1 DEF KindInv, TypeOK
  <2>3. ASSUME NEW g \in Handlers \ {h} PROVE KindInv(g)'
    <3>1. pc'[g] = pc[g] /\ request'[g] = request[g]
      BY <2>1 DEF TypeOK
    <3> QED
      BY <2>1, <3>1, KindKept
  <2> QED
    BY <2>2, <2>3
<1>3. ASSUME NEW h \in Handlers, HandlerGoesOn(h) PROVE \A g \in Handlers : KindInv(g)'
  <2>1. HandlerStep(h) /\ HandlerInv(h)
    BY <1>3 DEF HandlerGoesOn, HandshakeInv
  <2>2. KindInv(h)'
    BY <2>1, KindStep
  <2>3. \A g \in Handlers \ {h} : KindInv(g)'
    BY <2>1, HandlerFrame, KindKept
  <2> QED
    BY <2>2, <2>3
<1> QED
  BY <1>1, <1>2, <1>3

-----------------------------------------------------------------------------
(* What the TLS sessions are fed with. *)

\* A flight stays verified.
LEMMA VerifiedGrows ==
    ASSUME sent \subseteq sent', NEW a \in Addrs
    PROVE  /\ Verified(a) \subseteq Verified(a)'
           /\ \A s \in Seq(Verified(a)) : s \in Seq(Verified(a)')
<1>1. Verified(a) \subseteq Verified(a)'
  BY DEF Verified
<1> QED
  BY <1>1

\* The data of a TTLS packet that was not forged is verified.
LEMMA PumpedVerified ==
    ASSUME NEW h \in Handlers, ListenerInv, GoroutineInv(h), pc[h] # "idle",
           request[h].kind = "ttls"
    PROVE  /\ Addr(h) = from[h]
           /\ Addr(h) \in Addrs
           /\ request[h].data \in Seq(Verified(Addr(h)))
           /\ \E d \in sent : Serves(h, d) /\ d.from = Addr(h) /\ GoodTtls(d)
<1>1. /\ ~ R!Forged(R!Packet(h))
      /\ HasEap(R!Packet(h))
      /\ request[h] = EapRequest(Served(h))
  BY DEF GoroutineInv
<1>2. PICK d \in sent : Serves(h, d)
  BY DEF GoroutineInv
<1>3. /\ request[h] = EapRequest(d) /\ request[h] \in Request
      /\ request[h].addr = from[h]
  BY <1>1, <1>2, RequestServed DEF ListenerInv
<1>4. GoodTtls(d) /\ d.from = from[h]
  BY <1>1, <1>2, <1>3 DEF GoodTtls, Serves
<1>5. Addr(h) = from[h] /\ from[h] \in Addrs
  BY <1>3, RequestFields DEF Addr
<1>6. request[h].data = << >> \/ \E k \in Flights : request[h].data = << k >>
  BY <1>3 DEF Request
<1>7. ASSUME NEW k \in Flights, request[h].data = << k >>
      PROVE  request[h].data \in Seq(Verified(from[h]))
  <2>1. k \in Verified(from[h])
    BY <1>3, <1>4, <1>7 DEF Verified
  <2> QED
    BY <1>7, <2>1
<1>8. << >> \in Seq(Verified(from[h]))
  OBVIOUS
<1> QED
  BY <1>2, <1>4, <1>5, <1>6, <1>7, <1>8

\* A step that touches no buffer of the TLS sessions.
LEMMA FedKept ==
    ASSUME FedInv, sent \subseteq sent', UNCHANGED <<tlsIn, engine>>
    PROVE  FedInv'
BY VerifiedGrows DEF FedInv

\* A handler pumps what it was sent, and engines start with nothing.
LEMMA FedHandler ==
    ASSUME TypeOK, HandshakeInv, ListenerInv, FedInv, NEW h \in Handlers,
           GoroutineInv(h), HandlerStep(h), UNCHANGED sent
    PROVE  FedInv'
<1>0. \A a \in Addrs : Verified(a)' = Verified(a)
  BY DEF Verified
<1>1. CASE Pump(h)
  <2>1. /\ pc[h] = "switch" /\ request[h].kind = "ttls" /\ engine' = engine
        /\ tlsIn' = [tlsIn EXCEPT ![Addr(h)] = tlsIn[Addr(h)] \o request[h].data]
    BY <1>1 DEF Pump
  <2>2. request[h].data \in Seq(Verified(Addr(h))) /\ Addr(h) \in Addrs
    BY <2>1, PumpedVerified
  <2>3. \A S : \A s, t \in Seq(S) : s \o t \in Seq(S)
    OBVIOUS
  <2>4. \A a \in Addrs : tlsIn'[a] \in Seq(Verified(a))
    BY <2>1, <2>2, <2>3 DEF FedInv, TypeOK
  <2> QED
    BY <1>0, <2>1, <2>4 DEF FedInv
<1>2. CASE StartEngine(h)
  <2>1. Addr(h) \in Addrs
    BY <1>2, RequestFields DEF StartEngine, HandshakeInv, HandlerInv, Addr
  <2>2. /\ engine'[Addr(h)][h] = [pc |-> "poll", expects |-> 1, raw |-> << >>]
        /\ \A a \in Addrs, g \in Handlers :
              a # Addr(h) \/ g # h => engine'[a][g] = engine[a][g]
        /\ tlsIn' = tlsIn
    BY <1>2, <2>1 DEF StartEngine, TypeOK
  <2>3. ASSUME NEW a \in Addrs, NEW g \in Handlers
        PROVE  /\ engine'[a][g].raw \in Seq(Verified(a))
               /\ \A k \in 1 .. engine'[a][g].expects - 1 : k \in Verified(a)
    <3>1. CASE a = Addr(h) /\ g = h
      <4>1. engine'[a][g].raw = << >> /\ engine'[a][g].expects = 1
        BY <2>2, <3>1
      <4>2. << >> \in Seq(Verified(a)) /\ 1 .. 1 - 1 = {}
        OBVIOUS
      <4> QED
        BY <4>1, <4>2
    <3>2. CASE a # Addr(h) \/ g # h
      BY <2>2, <3>2 DEF FedInv
    <3> QED
      BY <3>1, <3>2
  <2> QED
    BY <1>0, <2>2, <2>3 DEF FedInv
<1>3. CASE ~ Pump(h) /\ ~ StartEngine(h)
  <2>1. UNCHANGED <<tlsIn, engine>>
    BY <1>3 DEF HandlerStep, Identity, Ignore, TestConn, Available, Expire, TakeBytes,
       TestFirst, MarkSending, SendChunk, MarkSent, ResetOut, Finish, Send, sessionVars
  <2> QED
    BY <2>1, FedKept
<1> QED
  BY <1>1, <1>2, <1>3

\* An engine takes what is in its buffer, and consumes what it has taken.
LEMMA FedEngine ==
    ASSUME TypeOK, HandshakeInv, FedInv, NEW a \in Addrs, NEW h \in Handlers,
           EngineStep(a, h), UNCHANGED sent
    PROVE  FedInv'
<1> DEFINE e == engine[a][h]
           f == engine'[a][h]
<1>0. \A b \in Addrs : Verified(b)' = Verified(b)
  BY DEF Verified
<1>1. \A b \in Addrs, g \in Handlers : b # a \/ g # h => engine'[b][g] = engine[b][g]
  BY EngineFrame
<1>2. e \in Engine /\ EngineInv(a, h) /\ tlsIn[a] \in Seq(Verified(a))
      /\ e.raw \in Seq(Verified(a)) /\ (\A k \in 1 .. e.expects - 1 : k \in Verified(a))
  BY DEF TypeOK, HandshakeInv, FedInv
<1>3. \A b \in Addrs : tlsIn'[b] = tlsIn[b] \/ tlsIn'[b] = << >>
  BY DEF EngineStep, EnginePoll, EngineRead, EngineRun, EngineAlert, EngineFinish,
         sessionVars, TypeOK
<1>4. \A b \in Addrs : tlsIn'[b] \in Seq(Verified(b))
  <2>1. \A S : << >> \in Seq(S)
    OBVIOUS
  <2>2. \A b \in Addrs : tlsIn[b] \in Seq(Verified(b))
    BY DEF FedInv
  <2> QED
    BY <1>3, <2>1, <2>2
<1>5. f.raw \in Seq(Verified(a)) /\ \A k \in 1 .. f.expects - 1 : k \in Verified(a)
  <2>1. CASE EnginePoll(a, h) \/ EngineFinish(a, h)
    <3>1. CASE EnginePoll(a, h)
      BY <3>1, <1>2 DEF EnginePoll, TypeOK, Engine
    <3>2. CASE EngineFinish(a, h)
      BY <3>2, <1>2 DEF EngineFinish, TypeOK, Engine
    <3> QED
      BY <2>1, <3>1, <3>2
  <2>2. CASE EngineRead(a, h)
    <3>1. f.raw = e.raw \o tlsIn[a] /\ f.expects = e.expects
      BY <2>2, <1>2 DEF EngineRead, TypeOK, Engine
    <3>2. \A S : \A s, t \in Seq(S) : s \o t \in Seq(S)
      OBVIOUS
    <3> QED
      BY <1>2, <3>1, <3>2
  <2>3. CASE EngineRun(a, h)
    <3>1. f.raw = Tail(e.raw) /\ f.expects = e.expects + 1 /\ e.raw[1] = e.expects
      BY <2>3 DEF EngineRun, TypeOK
    <3>2. e.raw # << >> /\ e.expects \in 1 .. Tunnelled
      BY <2>3, <1>2 DEF EngineRun, EngineInv
    <3>3. \A S : \A s \in Seq(S) : s # << >> => s[1] \in S /\ Tail(s) \in Seq(S)
      OBVIOUS
    <3>4. e.expects \in Verified(a) /\ Tail(e.raw) \in Seq(Verified(a))
      BY <1>2, <3>1, <3>2, <3>3
    <3>5. e.expects \in Nat
      BY <1>2 DEF Engine
    <3>6. \A n \in Nat : \A k \in 1 .. (n + 1) - 1 : k = n \/ k \in 1 .. n - 1
      OBVIOUS
    <3>7. \A k \in 1 .. f.expects - 1 : k = e.expects \/ k \in 1 .. e.expects - 1
      BY <3>1, <3>5, <3>6
    <3> QED
      BY <1>2, <3>1, <3>4, <3>7
  <2>4. CASE EngineAlert(a, h)
    <3>1. f.raw = << >> /\ f.expects = e.expects
      BY <2>4, <1>2 DEF EngineAlert, TypeOK, Engine
    <3> QED
      BY <1>2, <3>1
  <2> QED
    BY <2>1, <2>2, <2>3, <2>4 DEF EngineStep
<1>6. \A b \in Addrs, g \in Handlers :
        /\ engine'[b][g].raw \in Seq(Verified(b))
        /\ \A k \in 1 .. engine'[b][g].expects - 1 : k \in Verified(b)
  BY <1>1, <1>5 DEF FedInv
<1> QED
  BY <1>0, <1>4, <1>6 DEF FedInv

\* Buffer by buffer or all at once, the same flights.
LEMMA FedIsVerified ==
    ASSUME FedInv
    PROVE  OnlyVerifiedFeedTls
<1> SUFFICES ASSUME NEW a \in Addrs, NEW k \in Consumed(a) \cup Waiting(a)
             PROVE  k \in Verified(a)
  BY DEF OnlyVerifiedFeedTls, Verified
<1>1. CASE k \in Consumed(a)
  BY <1>1 DEF Consumed, FedInv
<1>2. \A S : \A s \in Seq(S) : \A i \in DOMAIN s : s[i] \in S
  OBVIOUS
<1>3. CASE k \in Waiting(a)
  BY <1>2, <1>3 DEF Waiting, FedInv
<1> QED
  BY <1>1, <1>3

-----------------------------------------------------------------------------
(* What an Access-Accept answers. *)

\* An authenticator in the last place is zeroed, whatever it holds.
LEMMA Zeroed ==
    ASSUME NEW x, NEW y, x.type = "eap", y.type = "ma"
    PROVE  R!replaceOrAddMA(<< x, y >>) = << x, R!ZeroMA >>
<1> DEFINE pair == << x, y >>
<1>1. DOMAIN pair = {1, 2} /\ pair[1].type # "ma" /\ pair[2].type = "ma"
  OBVIOUS
<1>2. R!replaceOrAddMA(pair) =
         [i \in DOMAIN pair |-> IF pair[i].type = "ma" THEN R!ZeroMA ELSE pair[i]]
  BY <1>1 DEF R!replaceOrAddMA
<1>3. [i \in DOMAIN pair |-> IF pair[i].type = "ma" THEN R!ZeroMA ELSE pair[i]]
         = << x, R!ZeroMA >>
  <2> DEFINE f == [i \in DOMAIN pair |-> IF pair[i].type = "ma" THEN R!ZeroMA ELSE pair[i]]
             g == << x, R!ZeroMA >>
  <2>1. DOMAIN f = DOMAIN g
    OBVIOUS
  <2>2. f[1] = g[1] /\ f[2] = g[2]
    BY <1>1
  <2>3. \A i \in DOMAIN f : f[i] = g[i]
    BY <1>1, <2>2
  <2>4. f = [i \in DOMAIN f |-> f[i]] /\ g = [i \in DOMAIN g |-> g[i]]
    OBVIOUS
  <2> HIDE DEF f, g
  <2> QED
    BY <2>1, <2>3, <2>4
<1> QED
  BY <1>2, <1>3

\* Joining three pieces, the middle one empty.
LEMMA Joined ==
    ASSUME NEW x, NEW z
    PROVE  << x >> \o << >> \o << z >> = << x, z >>
<1> DEFINE S == {x, z}
<1>1. << x >> \in Seq(S) /\ << z >> \in Seq(S)
  OBVIOUS
<1>2. << x >> \o << >> = << x >>
  BY <1>1, ConcatEmptySeq
<1>3. << x >> \o << z >> = << x, z >>
  <2> DEFINE c == << x >> \o << z >>
             d == << x, z >>
  <2>1. Len(<< x >>) = 1 /\ Len(<< z >>) = 1 /\ << x >>[1] = x /\ << z >>[1] = z
    OBVIOUS
  <2>2. c \in Seq(S) /\ Len(c) = 2 /\ c[1] = x /\ c[2] = z
    BY <1>1, <2>1, ConcatProperties
  <2>3. d \in Seq(S) /\ Len(d) = 2 /\ d[1] = x /\ d[2] = z
    OBVIOUS
  <2>4. \A i \in 1 .. 2 : c[i] = d[i]
    BY <2>2, <2>3
  <2> HIDE DEF c, d
  <2> QED
    BY <2>2, <2>3, <2>4, SeqEqual DEF c, d
<1> QED
  BY <1>2, <1>3

\* The Access-Accept of handleEAP carries an EAP packet and an authenticator,
\* and a client that knows the request can verify it.
LEMMA AcceptVerifies ==
    ASSUME NEW p
    PROVE  R!Verifies(p, R!EAPResponse(p, TRUE))
<1> DEFINE eap   == [type |-> "eap"]
           attrs == << eap, R!ZeroMA >>
           ma    == R!calculateMessageAuthenticator(Secret, 2, p.id, p.auth, attrs, "none")
           last  == [type |-> "ma", mac |-> ma]
           whole == << eap, last >>
           resp  == R!EAPResponse(p, TRUE)
<1>1. << eap >> \o << >> \o << R!ZeroMA >> = attrs
  <2> HIDE DEF eap
  <2> QED
    BY Joined
<1>2. resp = R!Sealed(2, p.id, p.auth, whole)
  <2>1. [attrs EXCEPT ![Len(attrs)] = last] = whole
    <3> HIDE DEF eap, last
    <3> QED
      OBVIOUS
  <2>2. resp = R!SealEAP(p, 2, attrs)
    BY <1>1 DEF R!EAPResponse, R!EAPResponseCode, R!AccessAccept
  <2> QED
    BY <2>1, <2>2 DEF R!SealEAP
<1>3. /\ resp.code = 2 /\ resp.id = p.id /\ resp.attrs = whole
      /\ resp.auth = [key |-> Secret, over |-> <<2, p.id, p.auth, whole>>]
  <2> HIDE DEF whole, resp
  <2> QED
    BY <1>2 DEF R!Sealed, R!ResponseAuthenticator
<1>4. R!calculateMessageAuthenticator(Secret, 2, p.id, p.auth, whole, "none") = ma
  <2>1. R!ZeroMA.type = "ma" /\ last.type = "ma" /\ eap.type = "eap"
    BY DEF R!ZeroMA
  <2>2. R!replaceOrAddMA(attrs) = attrs /\ R!replaceOrAddMA(whole) = attrs
    <3> HIDE DEF eap, last
    <3> QED
      BY <2>1, Zeroed
  <2> HIDE DEF attrs, whole
  <2> QED
    BY <2>2 DEF R!calculateMessageAuthenticator
<1>5. \A i \in DOMAIN whole : whole[i].type = "ma" => whole[i].mac = ma
  <2> HIDE DEF ma
  <2> QED
    OBVIOUS
<1> HIDE DEF whole, resp, ma
<1>6. R!Verifies(p, resp)
  BY <1>3, <1>4, <1>5 DEF R!Verifies
<1> QED
  BY <1>6 DEF resp

\* What was right about the responses sent stays right.
LEMMA AcceptKept ==
    ASSUME AcceptAnswers, replies \subseteq replies', sent \subseteq sent',
           NEW new,
           \A r \in responses' : r \in responses \/ r = new,
           \/ new.packet.code # R!AccessAccept
           \/ ~ \E i \in DOMAIN new.packet.attrs : new.packet.attrs[i].type = "eap"
           \/ /\ \E s \in replies' : s.kind = "success" /\ s.addr = new.to
              /\ \E d \in sent :
                    d.from = new.to /\ GoodTtls(d) /\ R!Verifies(d.packet, new.packet)
    PROVE  AcceptAnswers'
BY DEF AcceptAnswers

\* A verdict without EAP carries none.
LEMMA VerdictCarriesNone ==
    ASSUME NEW p, NEW code
    PROVE  LET response == R!buildResponsePacket(p, code) IN
           \/ response.code # R!AccessAccept
           \/ ~ \E i \in DOMAIN response.attrs : response.attrs[i].type = "eap"
<1>1. R!buildResponsePacket(p, code).code = code
  BY DEF R!buildResponsePacket, R!Sealed
<1>2. CASE code = R!AccessAccept
  <2>1. R!buildResponsePacket(p, code).attrs = << >>
    BY <1>2 DEF R!buildResponsePacket, R!Sealed
  <2> QED
    BY <2>1
<1> QED
  BY <1>1, <1>2

\* Every Access-Accept with an EAP packet comes of an EAP-Success, built by a
\* handler that served a TTLS packet.
LEMMA AcceptStep ==
    ASSUME FullInv, [FullNext]_allVars
    PROVE  AcceptAnswers'
<1>0. /\ TypeOK /\ HandshakeInv /\ ListenerInv /\ AcceptAnswers
      /\ \A h \in Handlers : GoroutineInv(h) /\ KindInv(h)
  BY DEF FullInv
<1>1. ASSUME UNCHANGED responses, replies \subseteq replies', sent \subseteq sent'
      PROVE  AcceptAnswers'
  BY <1>0, <1>1 DEF AcceptAnswers
<1>2. ASSUME NEW h \in Handlers, NEW p, NEW code, UNCHANGED <<replies, sent>>,
             R!Respond(h, R!buildResponsePacket(p, code))
      PROVE  AcceptAnswers'
  <2> DEFINE new == [to |-> from[h], packet |-> R!buildResponsePacket(p, code)]
  <2>1. responses' = responses \cup {new}
    BY <1>2 DEF R!Respond
  <2>2. new.packet = R!buildResponsePacket(p, code)
    OBVIOUS
  <2> HIDE DEF new
  <2> QED
    BY <1>0, <1>2, <2>1, <2>2, VerdictCarriesNone, AcceptKept
<1>3. ASSUME NEW h \in Handlers, HandlePacket(h) PROVE AcceptAnswers'
  <2>1. UNCHANGED <<replies, sent>>
    BY <1>3 DEF HandlePacket, vars, netVars, ghostVars
  <2>2. CASE R!Ignore(h) \/ R!Dispatch(h) \/ R!Panic(h)
    BY <1>1, <2>1, <2>2 DEF R!Ignore, R!Dispatch, R!Panic, R!Drop
  <2>3. CASE R!RejectForged(h)
    BY <1>2, <2>1, <2>3 DEF R!RejectForged
  <2>4. CASE R!Serve(h)
    BY <1>2, <2>1, <2>4 DEF R!Serve
  <2> QED
    BY <1>3, <2>2, <2>3, <2>4 DEF HandlePacket
<1>4. ASSUME NEW h \in Handlers, HandlerGoesOn(h) PROVE AcceptAnswers'
  <2>1. HandlerStep(h) /\ UNCHANGED sent
    BY <1>4 DEF HandlerGoesOn, ghostVars
  <2>2. replies \subseteq replies'
    BY <2>1 DEF HandlerStep, Identity, Ignore, Pump, TestConn, StartEngine, Available,
       Expire, TakeBytes, TestFirst, MarkSending, SendChunk, MarkSent, ResetOut, Finish,
       Send, netVars
  <2>3. CASE pc'[h] # "idle" \/ pc[h] # "send"
    <3>1. UNCHANGED responses
      BY <1>4, <2>3 DEF HandlerGoesOn, listenerVars, R!Drop
    <3> QED
      BY <1>1, <2>1, <2>2, <3>1
  <2>4. CASE pc'[h] = "idle" /\ pc[h] = "send"
    <3> DEFINE success == reply[h].kind = "success"
               p       == R!Packet(h)
               new     == [to |-> from[h], packet |-> R!EAPResponse(p, success)]
    <3>1. responses' = responses \cup {new}
      BY <1>4, <2>4 DEF HandlerGoesOn, R!Respond
    <3>2. replies' = replies \cup {reply[h]}
      BY <1>0, <2>1, <2>4, HandlerEnds DEF Send
    <3>3. CASE success
      <4>1. success = TRUE
        BY <3>3
      <4>2. request[h].kind = "ttls" /\ reply[h].addr = Addr(h) /\ pc[h] # "idle"
        BY <1>0, <2>4, <3>3 DEF KindInv, Addr
      <4>3. Addr(h) = from[h] /\ \E d \in sent : Serves(h, d) /\ d.from = Addr(h) /\ GoodTtls(d)
        BY <1>0, <4>2, PumpedVerified
      <4>4. PICK d \in sent : d.packet = p /\ d.from = from[h] /\ GoodTtls(d)
        BY <4>3 DEF Serves
      <4>5. new.to = from[h] /\ new.packet = R!EAPResponse(p, TRUE)
        BY <4>1
      <4>6. R!Verifies(d.packet, new.packet)
        BY <4>4, <4>5, AcceptVerifies
      <4>7. \E s \in replies' : s.kind = "success" /\ s.addr = new.to
        BY <3>2, <3>3, <4>2, <4>3, <4>5
      <4> HIDE DEF new, p, success
      <4> QED
        BY <1>0, <2>1, <2>2, <3>1, <4>4, <4>5, <4>6, <4>7, AcceptKept
    <3>4. CASE ~ success
      <4>1. new.packet.code # R!AccessAccept
        BY <3>4 DEF R!EAPResponse, R!EAPResponseCode, R!SealEAP, R!Sealed,
           R!AccessAccept, R!AccessChallenge
      <4> HIDE DEF new, p, success
      <4> QED
        BY <1>0, <2>1, <2>2, <3>1, <4>1, AcceptKept
    <3> QED
      BY <3>3, <3>4
  <2> QED
    BY <2>3, <2>4
<1>5. CASE SendDatagram \/ MainLoop \/ \E h \in Handlers : ReceiveDatagram(h) \/ EnterWithout(h)
  BY <1>1, <1>5 DEF SendDatagram, MainLoop, ReceiveDatagram, EnterWithout, R!ReadTimeout,
     R!Signal, R!Receive, R!Drop, vars, netVars, ghostVars
<1>6. CASE EngineGoesOn
  BY <1>1, <1>6, EngineQuiet DEF EngineGoesOn, listenerVars, ghostVars
<1>7. ASSUME NEW h \in Handlers, Enter(h) PROVE AcceptAnswers'
  BY <1>1, <1>7 DEF Enter, Receive, listenerVars, ghostVars
<1>8. CASE UNCHANGED allVars
  BY <1>1, <1>8 DEF allVars, vars, netVars, listenerVars, ghostVars
<1> QED
  BY <1>3, <1>4, <1>5, <1>6, <1>7, <1>8 DEF FullNext, Goroutine

-----------------------------------------------------------------------------
(* The inductive invariant. *)

\* Nothing has been sent, and nothing runs.
LEMMA FullInvInit == FullInit => FullInv
<1> SUFFICES ASSUME FullInit PROVE FullInv
  OBVIOUS
<1>1. TypeOK /\ HandshakeInv
  BY TypeInit, HandshakeInit DEF FullInit
<1>2. ListenerInv
  BY DEF FullInit, R!ServerInit, ListenerInv
<1>3. \A h \in Handlers : GoroutineInv(h) /\ KindInv(h)
  BY DEF FullInit, Init, R!ServerInit, GoroutineInv, KindInv
<1>4. FedInv
  <2>1. \A S : << >> \in Seq(S)
    OBVIOUS
  <2>2. 1 .. 1 - 1 = {}
    OBVIOUS
  <2>3. /\ \A a \in Addrs : tlsIn[a] = << >>
        /\ \A a \in Addrs, h \in Handlers :
              engine[a][h].raw = << >> /\ engine[a][h].expects = 1
    BY DEF FullInit, Init
  <2> QED
    BY <2>1, <2>2, <2>3 DEF FedInv
<1>5. AcceptAnswers
  BY DEF FullInit, R!ServerInit, AcceptAnswers
<1> QED
  BY <1>1, <1>2, <1>3, <1>4, <1>5 DEF FullInv

\* Every step preserves it.
LEMMA FullInvStep ==
    ASSUME FullInv, [FullNext]_allVars
    PROVE  FullInv'
<1>0. /\ TypeOK /\ HandshakeInv /\ ListenerInv /\ FedInv
      /\ \A h \in Handlers : GoroutineInv(h) /\ KindInv(h)
  BY DEF FullInv
<1>1. TypeOK' /\ HandshakeInv'
  BY <1>0, SessionStep, InvariantStep
<1>2. AcceptAnswers'
  BY AcceptStep
<1>3. CASE Listening
  <2>1. ListenerInv' /\ \A h \in Handlers : GoroutineInv(h)'
    BY <1>0, <1>3, ListeningStep
  <2>2. UNCHANGED vars /\ sent \subseteq sent'
    BY <1>3 DEF Listening, SendDatagram, MainLoop, ReceiveDatagram, HandlePacket,
       EnterWithout, ghostVars
  <2>3. UNCHANGED <<pc, request, reply, tlsIn, engine>>
    BY <2>2 DEF vars, sessionVars, handlerVars
  <2>4. \A h \in Handlers : KindInv(h)'
    BY <1>0, <2>3, KindKept
  <2>5. FedInv'
    BY <1>0, <2>2, <2>3, FedKept
  <2> QED
    BY <1>1, <1>2, <2>1, <2>4, <2>5 DEF FullInv
<1>4. CASE EngineGoesOn \/ \E h \in Handlers : Enter(h) \/ HandlerGoesOn(h)
  <2>1. ListenerInv' /\ \A h \in Handlers : GoroutineInv(h)'
    BY <1>0, <1>1, <1>4, ServingStep
  <2>2. \A h \in Handlers : KindInv(h)'
    BY <1>0, <1>4, KindsStep
  <2>3. FedInv'
    <3>1. CASE EngineGoesOn
      BY <1>0, <3>1, FedEngine DEF EngineGoesOn, ghostVars
    <3>2. ASSUME NEW h \in Handlers, Enter(h) PROVE FedInv'
      <4>1. UNCHANGED <<tlsIn, engine, sent>>
        BY <3>2 DEF Enter, Receive, ghostVars
      <4> QED
        BY <1>0, <4>1, FedKept
    <3>3. ASSUME NEW h \in Handlers, HandlerGoesOn(h) PROVE FedInv'
      BY <1>0, <3>3, FedHandler DEF HandlerGoesOn, ghostVars
    <3> QED
      BY <1>4, <3>1, <3>2, <3>3
  <2> QED
    BY <1>1, <1>2, <2>1, <2>2, <2>3 DEF FullInv
<1>5. CASE UNCHANGED allVars
  <2>1. /\ UNCHANGED <<pc, request, reply, tlsIn, engine>>
        /\ UNCHANGED <<wire, sent, stage, from, buffer>>
    BY <1>5 DEF allVars, vars, sessionVars, handlerVars, listenerVars, ghostVars
  <2>2. ListenerInv' /\ FedInv'
    BY <1>0, <2>1, FedKept DEF ListenerInv
  <2>3. \A h \in Handlers : GoroutineInv(h)' /\ KindInv(h)'
    BY <1>0, <2>1, GoroutineKept, KindKept
  <2> QED
    BY <1>1, <1>2, <2>2, <2>3 DEF FullInv
<1> QED
  BY <1>3, <1>4, <1>5 DEF FullNext, Goroutine, Listening

\* FullInv holds throughout every behaviour of the whole server.
THEOREM FullInvariance == FullSpec => []FullInv
<1>1. FullInv /\ [FullNext]_allVars => FullInv'
  BY FullInvStep
<1> QED
  BY <1>1, FullInvInit, PTL DEF FullSpec

-----------------------------------------------------------------------------
(* The theorems. *)

\* Towards its sessions the whole server is the server of EapServer: what is
\* proved there of any environment holds of the packets the listener passes on.
THEOREM SessionRefinement == FullSpec => Spec
<1>1. FullInit => Init
  BY DEF FullInit
<1>2. FullInv /\ [FullNext]_allVars => [Next]_vars
  BY SessionStep
<1> QED
  BY <1>1, <1>2, FullInvariance, PTL DEF FullSpec, Spec

\* So an Access-Accept leaves it only when a handshake is complete.
THEOREM WholeServerAccept == FullSpec => []AcceptOnlyAfterHandshake
BY SessionRefinement, AcceptTheorem

\* Only packets that passed the check of their authenticator feed a session.
THEOREM FedTheorem == FullSpec => []OnlyVerifiedFeedTls
<1>1. FullInv => OnlyVerifiedFeedTls
  BY FedIsVerified DEF FullInv
<1> QED
  BY <1>1, FullInvariance, PTL

\* An Access-Accept with EAP-Success follows a complete handshake of the
\* address it goes to, and verifies against a genuine packet of that address.
THEOREM AdmittedTheorem == FullSpec => []AdmittedByVerified
<1>1. ASSUME FullInv PROVE AdmittedByVerified
  <2>1. ASSUME NEW s \in replies, s.kind = "success"
        PROVE  \E h \in Handlers : Completed(s.addr, h)
    <3>1. s.addr \in Addrs
      BY <1>1 DEF FullInv, TypeOK, Reply
    <3> QED
      BY <1>1, <2>1, <3>1 DEF FullInv, HandshakeInv, SuccessInv
  <2>2. AcceptAnswers
    BY <1>1 DEF FullInv
  <2> QED
    BY <2>1, <2>2 DEF AcceptAnswers, AdmittedByVerified
<1> QED
  BY <1>1, FullInvariance, PTL

\* Towards the network every step is one of RadiusServer, or changes nothing.
LEMMA NetworkStep ==
    ASSUME FullInv, [FullNext]_allVars
    PROVE  [R!ServerNext]_(R!serverVars)
<1>0. /\ TypeOK /\ ListenerInv
      /\ \A h \in Handlers : GoroutineInv(h) /\ KindInv(h)
  BY DEF FullInv
<1>1. ASSUME NEW h \in Handlers, R!HandlePacket(h) PROVE R!ServerNext
  BY <1>1 DEF R!ServerNext
<1>2. CASE SendDatagram
  <2>1. R!Arrive
    BY <1>2 DEF SendDatagram, R!Arrive
  <2> QED
    BY <2>1 DEF R!ServerNext
<1>3. CASE MainLoop
  BY <1>3 DEF MainLoop, R!ServerNext, R!Loop
<1>4. ASSUME NEW h \in Handlers, ReceiveDatagram(h) PROVE R!ServerNext
  BY <1>4 DEF ReceiveDatagram, R!ServerNext, R!Loop
<1>5. ASSUME NEW h \in Handlers, HandlePacket(h) PROVE R!ServerNext
  BY <1>1, <1>5 DEF HandlePacket, R!HandlePacket
<1>6. ASSUME NEW h \in Handlers, EnterWithout(h) PROVE R!ServerNext
  <2>1. R!HandleEAP(h)
    BY <1>6 DEF EnterWithout, R!HandleEAP, HasEap
  <2> QED
    BY <1>1, <2>1 DEF R!HandlePacket
<1>7. CASE EngineGoesOn \/ (\E h \in Handlers : Enter(h)) \/ UNCHANGED allVars
  BY <1>7 DEF EngineGoesOn, Enter, allVars, listenerVars, R!serverVars
<1>8. ASSUME NEW h \in Handlers, HandlerGoesOn(h)
      PROVE  [R!ServerNext]_(R!serverVars)
  <2> DEFINE p       == R!Packet(h)
             message == R!First(p, "eap").message
             success == reply[h].kind = "success"
  <2>1. HandlerStep(h)
    BY <1>8 DEF HandlerGoesOn
  <2>2. pc[h] # "idle"
    BY <1>0, <2>1, HandlerFrame
  <2>3. stage[h] = "eap" /\ HasEap(p) /\ request[h] = EapRequest(Served(h))
    BY <1>0, <2>2 DEF GoroutineInv
  <2>4. PICK d \in sent : Serves(h, d)
    BY <1>0, <2>3 DEF GoroutineInv
  <2>5. request[h].kind = message
    BY <1>0, <2>3, <2>4, RequestServed DEF ListenerInv
  <2>6. CASE pc'[h] # "idle"
    BY <1>8, <2>6 DEF HandlerGoesOn, listenerVars, R!serverVars
  <2>7. CASE pc'[h] = "idle" /\ pc[h] # "send"
    <3>1. R!Drop(h) /\ message # "identity"
      BY <1>0, <1>8, <2>1, <2>5, <2>7, HandlerEnds DEF HandlerGoesOn
    <3>2. R!HandleEAP(h)
      BY <2>3, <3>1 DEF R!HandleEAP, HasEap
    <3> QED
      BY <1>1, <3>2 DEF R!HandlePacket
  <2>8. CASE pc'[h] = "idle" /\ pc[h] = "send"
    <3>1. R!Respond(h, R!EAPResponse(p, success))
      BY <1>8, <2>8 DEF HandlerGoesOn
    <3>2. message \in {"identity", "ttls"} /\ (success => message = "ttls")
      BY <1>0, <2>5, <2>8 DEF KindInv
    <3>3. (success = TRUE) \/ (success = FALSE)
      OBVIOUS
    <3>4. R!HandleEAP(h)
      <4> HIDE DEF success
      <4> QED
        BY <2>3, <3>1, <3>2, <3>3 DEF R!HandleEAP, HasEap
    <3> QED
      BY <1>1, <3>4 DEF R!HandlePacket
  <2> QED
    BY <2>6, <2>7, <2>8
<1> QED
  BY <1>2, <1>3, <1>4, <1>5, <1>6, <1>7, <1>8 DEF FullNext, Goroutine

\* The whole server implements the listener with its sessions left out: one
\* response at most to a datagram, and none but the kinds allowed there.
THEOREM NetworkRefinement == FullSpec => ImplementsRadiusServer
<1>1. FullInit => R!ServerInit
  BY DEF FullInit
<1>2. FullInv /\ [FullNext]_allVars => [R!ServerNext]_(R!serverVars)
  BY NetworkStep
<1> QED
  BY <1>1, <1>2, FullInvariance, PTL DEF FullSpec, ImplementsRadiusServer, R!ServerSpec
=============================================================================
