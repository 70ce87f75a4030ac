---------------------------- MODULE RadiusProofs ----------------------------
(***************************************************************************)
(* Proofs about RadiusSystem, for any number of clients, NAS packets and   *)
(* handlers and for packets with any number of attributes: a run of the    *)
(* CLI with nothing too long for its attributes is sent, and shows, the    *)
(* verdict on its own command line, and one with a name too long is        *)
(* accepted or sent nothing; no request whose authenticator does           *)
(* not verify gets more than a reject; no request with a no_ name that can *)
(* be read is accepted without EAP; and a response verifies if and only if *)
(* its request declared the length of a header.                            *)
(*                                                                         *)
(* They follow from SystemInv: every response is the answer that           *)
(* handlePacket, run by itself, gives to a packet that its addressee sent, *)
(* though the goroutine reads the buffer in steps and others run between.  *)
(***************************************************************************)
EXTENDS RadiusSystem, InductionLemmas

\* Every attribute of a run of the CLI has room for what it holds.
Fits(o) == ~ NameTooLong(o) /\ ~ DataTooLong(o)

\* Packet p was sent from address a.
Known(a, p) ==
    \/ a \in Clients /\ p = CliRequest(a)
    \/ a = Nas /\ p \in nasSent

\* What handlePacket may answer to packet p.
Answer(p, response) ==
  /\ ~ Panics(p)
  /\ \/ Forged(p) /\ response = buildResponsePacket(p, AccessReject)
     \/ /\ ~ Forged(p) /\ ~ hasEAPAttributes(p)
        /\ response = buildResponsePacket(p, Verdict(p))
     \/ /\ ~ Forged(p) /\ hasEAPAttributes(p)
        /\ HasReadable(p, "eap")
        /\ First(p, "eap").message \in {"identity", "ttls"}
        /\ response = EAPResponse(p, FALSE)
     \/ /\ ~ Forged(p) /\ hasEAPAttributes(p)
        /\ HasReadable(p, "eap")
        /\ First(p, "eap").message = "ttls"
        /\ response = EAPResponse(p, TRUE)

\* What a goroutine has found out about the packet in its buffer.
GoroutineInv(h) ==
    /\ pc[h] # "idle" => Known(from[h], buffer[h])
    /\ pc[h] \in {"answer", "eap"} =>
          /\ ~ Panics(buffer[h]) /\ ~ Forged(buffer[h])
          /\ hasEAPAttributes(buffer[h]) <=> pc[h] = "eap"

Packets == {CliRequest(c) : c \in Clients} \cup NasPackets \cup {Blank}

SystemInv ==
    /\ main \in {"reading", "stopped", "crashed"}
    /\ signalled \in BOOLEAN
    /\ nasSent \subseteq NasPackets
    /\ options \in [Clients -> Options]
    /\ client \in [Clients -> {"new", "waiting", "answered", "failed"}]
    /\ pc \in [Handlers -> {"idle", "check", "eap", "answer"}]
    /\ from \in [Handlers -> Clients \cup {Nas, NoAddr}]
    /\ buffer \in [Handlers -> Packets]
    /\ DOMAIN shown = Clients
    /\ \A d \in wire : Known(d.from, d.packet)
    /\ \A h \in Handlers : GoroutineInv(h)
    /\ \A r \in responses : \E p : Known(r.to, p) /\ Answer(p, r.packet)
    /\ \A c \in Clients :
          client[c] = "answered" => \E r \in responses : r.to = c /\ r.packet = shown[c]

-----------------------------------------------------------------------------
(* The invariant. *)

\* Nothing has been sent.
LEMMA InvInit == SystemInit => SystemInv
BY DEF SystemInit, ServerInit, SystemInv, GoroutineInv, Packets

\* A packet that was sent stays sent.
LEMMA KnownKept ==
    ASSUME UNCHANGED options, nasSent \subseteq nasSent', NEW a, NEW p, Known(a, p)
    PROVE  Known(a, p)'
BY DEF Known, CliRequest, NameTooLong, DataTooLong, Attributes, PAPAttributes,
       CHAPAttributes, MSCHAPAttributes, EAPAttributes, User

\* The command lines do not change, nor do the packets there may be.
LEMMA PacketsKept ==
    ASSUME UNCHANGED options
    PROVE  Packets' = Packets
BY DEF Packets, CliRequest, NameTooLong, DataTooLong, Attributes, PAPAttributes,
       CHAPAttributes, MSCHAPAttributes, EAPAttributes, User

\* What a goroutine has found out stays true while others run.
LEMMA GoroutineKept ==
    ASSUME UNCHANGED options, nasSent \subseteq nasSent', NEW h \in Handlers,
           GoroutineInv(h), pc'[h] = pc[h], from'[h] = from[h], buffer'[h] = buffer[h]
    PROVE  GoroutineInv(h)'
BY KnownKept DEF GoroutineInv

\* Packets that were answered stay known.
LEMMA ResponsesKept ==
    ASSUME UNCHANGED options, nasSent \subseteq nasSent', SystemInv,
           \A r \in responses' :
               r \in responses \/ \E p : Known(r.to, p) /\ Answer(p, r.packet)
    PROVE  \A r \in responses' : \E p : Known(r.to, p)' /\ Answer(p, r.packet)
BY KnownKept DEF SystemInv

\* The goroutine of h ends, with the answer due to its packet or without one.
LEMMA InvReturns ==
    ASSUME SystemInv, NEW h \in Handlers, HandlerReturns(h),
           UNCHANGED <<options, client, shown, nasSent>>,
           responses \subseteq responses',
           \A r \in responses' :
               r \in responses \/ \E p : Known(r.to, p) /\ Answer(p, r.packet)
    PROVE  SystemInv'
<1>1. /\ pc' = [pc EXCEPT ![h] = "idle"]
      /\ from' = [from EXCEPT ![h] = NoAddr]
      /\ buffer' = [buffer EXCEPT ![h] = Blank]
      /\ UNCHANGED <<main, signalled, wire>>
  BY DEF HandlerReturns
<1>2. \A g \in Handlers : GoroutineInv(g)'
  <2>1. GoroutineInv(h)'
    BY <1>1 DEF GoroutineInv, SystemInv
  <2>2. ASSUME NEW g \in Handlers \ {h} PROVE GoroutineInv(g)'
    <3>1. pc'[g] = pc[g] /\ from'[g] = from[g] /\ buffer'[g] = buffer[g]
      BY <1>1 DEF SystemInv
    <3> QED
      BY <3>1, GoroutineKept DEF SystemInv
  <2> QED
    BY <2>1, <2>2
<1>3. buffer' \in [Handlers -> Packets']
  BY <1>1, PacketsKept DEF SystemInv, Packets
<1>4. \A r \in responses' : \E p : Known(r.to, p)' /\ Answer(p, r.packet)
  BY ResponsesKept
<1>5. \A d \in wire' : Known(d.from, d.packet)'
  BY <1>1, KnownKept DEF SystemInv
<1> QED
  BY <1>1, <1>2, <1>3, <1>4, <1>5 DEF SystemInv

\* Steps that neither end a goroutine nor send a response.
LEMMA InvQuiet ==
    ASSUME SystemInv,
           UNCHANGED <<options, nasSent, responses, client, shown>>,
           main' \in {"reading", "stopped", "crashed"}, signalled' \in BOOLEAN,
           pc' \in [Handlers -> {"idle", "check", "eap", "answer"}],
           from' \in [Handlers -> Clients \cup {Nas, NoAddr}],
           buffer' \in [Handlers -> Packets],
           wire' \subseteq wire,
           \A h \in Handlers : GoroutineInv(h)'
    PROVE  SystemInv'
<1>1. buffer' \in [Handlers -> Packets']
  BY PacketsKept
<1>2. \A r \in responses' : \E p : Known(r.to, p)' /\ Answer(p, r.packet)
  BY ResponsesKept
<1>3. \A d \in wire' : Known(d.from, d.packet)'
  BY KnownKept DEF SystemInv
<1> QED
  BY <1>1, <1>2, <1>3 DEF SystemInv

\* The loop of main(), a signal, and a lossy network.
LEMMA InvLoop ==
    ASSUME SystemInv, Loop \/ Signal \/ Lose,
           UNCHANGED <<options, client, shown, nasSent>>
    PROVE  SystemInv'
<1>1. ASSUME NEW h \in Handlers, Receive(h) PROVE SystemInv'
  <2>1. PICK d \in wire : /\ from' = [from EXCEPT ![h] = d.from]
                          /\ buffer' = [buffer EXCEPT ![h] = d.packet]
                          /\ wire' \subseteq wire
    BY <1>1 DEF Receive, Buffer
  <2>2. /\ pc' = [pc EXCEPT ![h] = "check"]
        /\ UNCHANGED <<main, signalled, responses>>
    BY <1>1 DEF Receive
  <2>3. Known(d.from, d.packet)
    BY DEF SystemInv
  <2>4. d.from \in Clients \cup {Nas} /\ d.packet \in Packets
    BY <2>3 DEF Known, Packets, SystemInv
  <2>5. GoroutineInv(h)'
    <3>1. pc'[h] = "check" /\ from'[h] = d.from /\ buffer'[h] = d.packet
      BY <2>1, <2>2 DEF SystemInv
    <3>2. Known(d.from, d.packet)'
      BY <2>3, KnownKept
    <3>3. Known(from[h], buffer[h])'
      BY <3>1, <3>2
    <3> QED
      BY <3>1, <3>3 DEF GoroutineInv
  <2>6. ASSUME NEW g \in Handlers \ {h} PROVE GoroutineInv(g)'
    <3>1. pc'[g] = pc[g] /\ from'[g] = from[g] /\ buffer'[g] = buffer[g]
      BY <2>1, <2>2 DEF SystemInv
    <3> QED
      BY <3>1, GoroutineKept DEF SystemInv
  <2>7. /\ main' \in {"reading", "stopped", "crashed"} /\ signalled' \in BOOLEAN
        /\ pc' \in [Handlers -> {"idle", "check", "eap", "answer"}]
        /\ from' \in [Handlers -> Clients \cup {Nas, NoAddr}]
        /\ buffer' \in [Handlers -> Packets]
    BY <2>1, <2>2, <2>4 DEF SystemInv
  <2> QED
    BY <2>1, <2>2, <2>5, <2>6, <2>7, InvQuiet
<1>2. CASE ReadTimeout \/ Signal \/ Lose
  <2>1. /\ UNCHANGED <<pc, from, buffer, responses>>
        /\ main' \in {"reading", "stopped", "crashed"} /\ signalled' \in BOOLEAN
        /\ wire' \subseteq wire
    BY <1>2 DEF ReadTimeout, Signal, Lose, SystemInv
  <2>2. \A h \in Handlers : GoroutineInv(h)'
    BY <2>1, GoroutineKept DEF SystemInv
  <2> QED
    BY <2>1, <2>2, InvQuiet DEF SystemInv
<1> QED
  BY <1>1, <1>2 DEF Loop

\* handlePacket, in its steps.
LEMMA InvHandlePacket ==
    ASSUME SystemInv, NEW h \in Handlers, HandlePacket(h),
           UNCHANGED <<options, client, shown, nasSent>>
    PROVE  SystemInv'
<1> DEFINE p == buffer[h]
<1>0. Packet(h) = p
  BY DEF Packet, Buffer
<1>1. ASSUME Drop(h) PROVE SystemInv'
  BY <1>1, InvReturns DEF Drop
<1>2. ASSUME NEW response, pc[h] # "idle", Answer(p, response), Respond(h, response)
      PROVE  SystemInv'
  <2> DEFINE new == [to |-> from[h], packet |-> response]
  <2>1. responses' = responses \cup {new} /\ HandlerReturns(h)
    BY <1>2 DEF Respond
  <2>2. Known(new.to, p) /\ Answer(p, new.packet)
    BY <1>2 DEF SystemInv, GoroutineInv
  <2> HIDE DEF new, p
  <2> QED
    BY <2>1, <2>2, InvReturns
<1>3. CASE Ignore(h)
  BY <1>1, <1>3 DEF Ignore
<1>4. CASE RejectForged(h)
  <2>1. Answer(p, buildResponsePacket(p, AccessReject)) /\ pc[h] # "idle"
    BY <1>0, <1>4 DEF RejectForged, Readies, Looked, Answer
  <2> QED
    BY <1>0, <1>2, <1>4, <2>1 DEF RejectForged
<1>5. CASE Dispatch(h)
  <2>1. /\ pc[h] = "check" /\ ~ Panics(p) /\ ~ Forged(p)
        /\ pc' = [pc EXCEPT ![h] = IF hasEAPAttributes(p) THEN "eap" ELSE "answer"]
        /\ UNCHANGED <<main, signalled, wire, from, buffer, responses>>
    BY <1>0, <1>5 DEF Dispatch, Readies, Looked
  <2>2. /\ pc'[h] = IF hasEAPAttributes(p) THEN "eap" ELSE "answer"
        /\ pc' \in [Handlers -> {"idle", "check", "eap", "answer"}]
        /\ \A g \in Handlers \ {h} : pc'[g] = pc[g]
    BY <2>1 DEF SystemInv
  <2>3. GoroutineInv(h)'
    <3>1. Known(from[h], p)'
      BY <2>1, KnownKept DEF SystemInv, GoroutineInv
    <3>2. Known(from[h], buffer[h])'
      BY <2>1, <3>1
    <3> QED
      BY <2>1, <2>2, <3>2 DEF GoroutineInv
  <2>4. \A g \in Handlers \ {h} : GoroutineInv(g)'
    BY <2>1, <2>2, GoroutineKept DEF SystemInv
  <2> QED
    BY <2>1, <2>2, <2>3, <2>4, InvQuiet DEF SystemInv
<1>8. CASE Panic(h)
  <2>1. /\ UNCHANGED <<signalled, wire, pc, from, buffer, responses>>
        /\ main' = "crashed"
    BY <1>8 DEF Panic
  <2>2. \A g \in Handlers : GoroutineInv(g)'
    BY <2>1, GoroutineKept DEF SystemInv
  <2> QED
    BY <2>1, <2>2, InvQuiet DEF SystemInv
<1>6. CASE Serve(h)
  <2>1. Answer(p, buildResponsePacket(p, Verdict(p))) /\ pc[h] # "idle"
    BY <1>6 DEF Serve, Answer, SystemInv, GoroutineInv
  <2> QED
    BY <1>0, <1>2, <1>6, <2>1 DEF Serve
<1>7. CASE HandleEAP(h)
  <2>1. pc[h] = "eap" /\ ~ Panics(p) /\ ~ Forged(p) /\ hasEAPAttributes(p)
    BY <1>7 DEF HandleEAP, SystemInv, GoroutineInv
  <2>2. ASSUME HasReadable(p, "eap"), First(p, "eap").message \in {"identity", "ttls"},
               Respond(h, EAPResponse(p, FALSE))
        PROVE  SystemInv'
    BY <1>2, <2>1, <2>2 DEF Answer
  <2>3. ASSUME HasReadable(p, "eap"), First(p, "eap").message = "ttls",
               Respond(h, EAPResponse(p, TRUE))
        PROVE  SystemInv'
    BY <1>2, <2>1, <2>3 DEF Answer
  <2> QED
    BY <1>0, <1>1, <1>7, <2>2, <2>3 DEF HandleEAP
<1> QED
  BY <1>3, <1>4, <1>5, <1>6, <1>7, <1>8 DEF HandlePacket

\* A client or the NAS sends something.
LEMMA InvSend ==
    ASSUME SystemInv, (\E c \in Clients : SendAccessRequest(c)) \/ NasSend
    PROVE  SystemInv'
<1>1. /\ UNCHANGED <<main, signalled, pc, from, buffer, responses, options, shown>>
      /\ nasSent \subseteq nasSent' /\ nasSent' \subseteq NasPackets
      /\ client' \in [Clients -> {"new", "waiting", "answered", "failed"}]
      /\ \A c \in Clients : client'[c] = "answered" => client[c] = "answered"
  BY DEF SendAccessRequest, NasSend, SystemInv
<1>2. ASSUME NEW d \in wire' PROVE Known(d.from, d.packet)'
  <2>1. CASE d \in wire
    BY <1>1, <2>1, KnownKept DEF SystemInv
  <2>2. ASSUME NEW c \in Clients, SendAccessRequest(c), d \notin wire
        PROVE  Known(d.from, d.packet)'
    <3>1. d = [from |-> c, packet |-> CliRequest(c)]
      BY <2>2 DEF SendAccessRequest
    <3>2. Known(d.from, d.packet)
      BY <3>1 DEF Known
    <3> QED
      BY <1>1, <3>2, KnownKept
  <2>3. CASE NasSend /\ d \notin wire
    BY <2>3 DEF NasSend, Known
  <2> QED
    BY <2>1, <2>2, <2>3
<1>3. \A h \in Handlers : GoroutineInv(h)'
  BY <1>1, GoroutineKept DEF SystemInv
<1>4. \A r \in responses' : \E p : Known(r.to, p)' /\ Answer(p, r.packet)
  BY <1>1, ResponsesKept
<1> QED
  BY <1>1, <1>2, <1>3, <1>4, PacketsKept DEF SystemInv

\* A run of the CLI ends, with a response or without.
LEMMA InvRead ==
    ASSUME SystemInv, NEW c \in Clients, ReadResponse(c) \/ ReadDeadline(c)
    PROVE  SystemInv'
<1>1. UNCHANGED <<main, signalled, wire, pc, from, buffer, responses, options, nasSent>>
  BY DEF ReadResponse, ReadDeadline, serverVars
<1>2. client' \in [Clients -> {"new", "waiting", "answered", "failed"}]
  BY DEF ReadResponse, ReadDeadline, SystemInv
<1>8. \A v, b : b \in Clients => [shown EXCEPT ![c] = v][b] = IF b = c THEN v ELSE shown[b]
  <2>1. DOMAIN shown = Clients
    BY DEF SystemInv
  <2>2. \A v : [shown EXCEPT ![c] = v] = [b \in DOMAIN shown |-> IF b = c THEN v ELSE shown[b]]
    OBVIOUS
  <2> QED
    BY <2>1, <2>2
<1>7. DOMAIN shown' = Clients
  BY DEF ReadResponse, ReadDeadline, SystemInv
<1>3. ASSUME NEW b \in Clients, client'[b] = "answered"
      PROVE  \E r \in responses : r.to = b /\ r.packet = shown'[b]
  <2>1. CASE client[b] = "answered" /\ shown'[b] = shown[b]
    BY <2>1 DEF SystemInv
  <2>2. CASE b # c
    <3>1. client'[b] = client[b]
      BY <2>2 DEF ReadResponse, ReadDeadline, SystemInv
    <3>2. shown'[b] = shown[b]
      <4>1. ASSUME NEW v, shown' = [shown EXCEPT ![c] = v] PROVE shown'[b] = shown[b]
        BY <1>8, <2>2, <4>1
      <4> QED
        BY <4>1 DEF ReadResponse, ReadDeadline
    <3> QED
      BY <1>3, <2>1, <3>1, <3>2
  <2>3. CASE b = c
    <3>1. PICK r \in responses : /\ r.to = c
                                 /\ shown' = [shown EXCEPT ![c] = r.packet]
      BY <1>3, <2>3 DEF ReadResponse, ReadDeadline, SystemInv
    <3> QED
      BY <1>8, <2>3, <3>1
  <2> QED
    BY <2>2, <2>3
<1>4. \A h \in Handlers : GoroutineInv(h)'
  BY <1>1, GoroutineKept DEF SystemInv
<1>5. \A r \in responses' : \E p : Known(r.to, p)' /\ Answer(p, r.packet)
  BY <1>1, ResponsesKept
<1>6. \A d \in wire' : Known(d.from, d.packet)'
  BY <1>1, KnownKept DEF SystemInv
<1> QED
  BY <1>1, <1>2, <1>3, <1>4, <1>5, <1>6, <1>7, PacketsKept DEF SystemInv

\* Every step preserves the invariant.
LEMMA InvStep == SystemInv /\ [SystemNext]_systemVars => SystemInv'
<1> SUFFICES ASSUME SystemInv, [SystemNext]_systemVars PROVE SystemInv'
  OBVIOUS
<1>1. CASE ServerStep
  BY <1>1, InvLoop, InvHandlePacket DEF ServerStep
<1>2. CASE NasSend \/ \E c \in Clients :
              SendAccessRequest(c) \/ ReadResponse(c) \/ ReadDeadline(c)
  BY <1>2, InvSend, InvRead
<1>3. CASE UNCHANGED systemVars
  <2>1. /\ UNCHANGED serverVars
        /\ UNCHANGED <<options, nasSent, client, shown>>
    BY <1>3 DEF systemVars
  <2>2. \A h \in Handlers : GoroutineInv(h)'
    BY <2>1, GoroutineKept DEF SystemInv, serverVars
  <2> QED
    BY <2>1, <2>2, InvQuiet DEF SystemInv, serverVars
<1> QED
  BY <1>1, <1>2, <1>3 DEF SystemNext

\* Every response is the answer due to a packet of its addressee, in every
\* behaviour of the system.
THEOREM SystemInvariance == SystemSpec => []SystemInv
BY InvInit, InvStep, PTL DEF SystemSpec

-----------------------------------------------------------------------------
(* What an answer is. *)

\* Every set of numbers but the empty one has a least element.
LEMMA Least ==
    ASSUME NEW S \in SUBSET Nat, S # {}
    PROVE  Min(S) \in S
<1> DEFINE R == OpToRel(<, Nat)
<1>1. IsWellFoundedOn(R, Nat)
  BY NatLessThanWellFounded
<1>2. \E x \in S : \A y \in S : ~ (<<y, x>> \in R)
  <2> HIDE DEF R
  <2> QED
    BY <1>1, WFMin
<1>3. \E x \in S : \A y \in S : ~ (y < x)
  BY <1>2 DEF OpToRel
<1>4. \E x \in S : \A y \in S : x =< y
  BY <1>3
<1> QED
  BY <1>4 DEF Min

\* An authenticator that validates is an authentic one.
LEMMA ValidIsAuthentic ==
    ASSUME NEW p, DOMAIN p.attrs \subseteq Nat, validateMessageAuthenticator(p)
    PROVE  Authentic(p)
<1> DEFINE whole == {i \in Readable(p, "ma") : "mac" \in DOMAIN p.attrs[i]}
<1>1. Min(whole) \in whole
  <2>1. whole # {} /\ whole \in SUBSET Nat
    BY DEF validateMessageAuthenticator, Readable
  <2> HIDE DEF whole
  <2> QED
    BY <2>1, Least
<1>2. p.attrs[Min(whole)].mac = calculateMessageAuthenticator(
          Secret, p.code, p.id, p.auth, p.attrs, p.tail)
  BY DEF validateMessageAuthenticator
<1>3. /\ Min(whole) \in DOMAIN p.attrs
      /\ p.attrs[Min(whole)].type = "ma" /\ "mac" \in DOMAIN p.attrs[Min(whole)]
  BY <1>1 DEF Readable
<1> HIDE DEF whole
<1> QED
  BY <1>2, <1>3 DEF Authentic

\* A packet that carries an authenticator and none that verifies is forged.
LEMMA NotAuthenticIsForged ==
    ASSUME NEW p, DOMAIN p.attrs \subseteq Nat, CarriesMA(p), ~ Authentic(p)
    PROVE  Forged(p)
<1>1. hasMessageAuthenticator(p)
  BY DEF CarriesMA, hasMessageAuthenticator, Has, HasReadable, Readable
<1> QED
  BY <1>1, ValidIsAuthentic DEF Forged

\* A verdict is an accept or a reject, and a reject for a no_ name.
LEMMA Verdicts ==
    ASSUME NEW p
    PROVE  /\ Verdict(p) \in {AccessAccept, AccessReject}
           /\ extractUsername(p) \in Denied => Verdict(p) = AccessReject
<1>1. \A user, v : /\ ServeRadiusWithMSCHAP(user, v) \in {AccessAccept, AccessReject}
                   /\ user \in Denied => ServeRadiusWithMSCHAP(user, v) = AccessReject
  BY DEF ServeRadiusWithMSCHAP, hasNoPrefix
<1>2. \A user, v : /\ ServeRadiusWithCHAP(user, v) \in {AccessAccept, AccessReject}
                   /\ user \in Denied => ServeRadiusWithCHAP(user, v) = AccessReject
  BY DEF ServeRadiusWithCHAP, hasNoPrefix
<1>3. \A user : /\ ServeRadius(user) \in {AccessAccept, AccessReject}
                /\ user \in Denied => ServeRadius(user) = AccessReject
  BY DEF ServeRadius, hasNoPrefix
<1> QED
  BY <1>1, <1>2, <1>3 DEF Verdict

\* The code and the identifier of an answer.
LEMMA AnswerHeader ==
    ASSUME NEW p, NEW response, Answer(p, response)
    PROVE  /\ response.id = p.id
           /\ response.code \in {AccessAccept, AccessReject, AccessChallenge}
           /\ Forged(p) => response.code = AccessReject
           /\ ~ Forged(p) /\ ~ hasEAPAttributes(p) => response.code = Verdict(p)
<1>1. \A code : /\ buildResponsePacket(p, code).id = p.id
                /\ buildResponsePacket(p, code).code = code
  BY DEF buildResponsePacket, Sealed
<1>2. \A b \in BOOLEAN : /\ EAPResponse(p, b).id = p.id
                         /\ EAPResponse(p, b).code = EAPResponseCode(b)
  BY DEF EAPResponse, SealEAP, Sealed
<1>3. \A b \in BOOLEAN : EAPResponseCode(b) \in {AccessAccept, AccessChallenge}
  BY DEF EAPResponseCode
<1> QED
  BY <1>1, <1>2, <1>3, Verdicts DEF Answer

\* A response has one request, and is the answer due to it.
LEMMA AnswersItsRequest ==
    ASSUME SystemInv, NEW r \in responses, NEW p \in Sent(r)
    PROVE  Answer(p, r.packet) /\ Known(r.to, p)
<1>1. PICK q : Known(r.to, q) /\ Answer(q, r.packet)
  BY DEF SystemInv
<1>2. r.packet.id = q.id
  BY <1>1, AnswerHeader
<1>3. p = q
  <2>1. CASE r.to = Nas
    <3>1. p \in NasPackets /\ q \in NasPackets /\ p.id = r.packet.id
      BY <1>1, <2>1, NasAssumption DEF Known, Sent, SystemInv
    <3> QED
      BY <1>2, <3>1, NasPacketsAssumption
  <2>2. CASE r.to # Nas
    BY <1>1, <2>2 DEF Known, Sent
  <2> QED
    BY <2>1, <2>2
<1> QED
  BY <1>1, <1>3

\* No request with a readable no_ name and without EAP is accepted.
THEOREM DeniedTheorem == SystemSpec => []DeniedNeverAccepted
<1>1. ASSUME SystemInv, NEW r \in responses, NEW p \in Sent(r),
             extractUsername(p) \in Denied, ~ Has(p, "eap")
      PROVE  r.packet.code # AccessAccept
  <2>1. Answer(p, r.packet) /\ ~ hasEAPAttributes(p)
    BY <1>1, AnswersItsRequest DEF hasEAPAttributes
  <2>2. r.packet.code = AccessReject
    BY <1>1, <2>1, AnswerHeader, Verdicts
  <2> QED
    BY <2>2 DEF AccessAccept, AccessReject
<1>2. SystemInv => DeniedNeverAccepted
  BY <1>1 DEF DeniedNeverAccepted
<1> QED
  BY <1>2, SystemInvariance, PTL

-----------------------------------------------------------------------------
(* The requests of radius-cli. *)

\* What Append does, position by position.
LEMMA Appended ==
    ASSUME NEW S, NEW s \in Seq(S), NEW x
    PROVE  /\ Append(s, x) \in Seq(S \cup {x})
           /\ Len(Append(s, x)) = Len(s) + 1
           /\ \A i \in 1 .. Len(s) : Append(s, x)[i] = s[i]
           /\ Append(s, x)[Len(s) + 1] = x
<1>1. s \in Seq(S \cup {x}) /\ x \in S \cup {x}
  OBVIOUS
<1> QED
  BY <1>1, AppendProperties

\* The attributes A of a request with command line o: a name first, no
\* authenticator yet, and what the method adds.
Shaped(o, A) ==
    /\ \E S : A \in Seq(S)
    /\ Len(A) \in 2 .. 4
    /\ A[1].type = "user" /\ A[1].name = o.user
    /\ \A i \in 2 .. Len(A) : A[i].type \notin {"ma", "user"}
    /\ o.mode = "pap" => \A i \in 2 .. Len(A) : A[i].type = "other"
    /\ o.mode = "chap" =>
          /\ A[2].type = "chapResponse" /\ A[2].len = 17
          /\ \A i \in 3 .. Len(A) : A[i].type \in {"chapChallenge", "other"}
    /\ o.mode = "mschap" =>
          /\ A[2].type = "mschap" /\ A[2].name = o.user
          /\ \A i \in 3 .. Len(A) : A[i].type = "other"
    /\ o.mode = "ttls" => Len(A) = 2 /\ A[2].type = "eap" /\ A[2].message = "identity"

\* Every method of radius-cli lays its request out so.
LEMMA CliAttributes ==
    ASSUME SystemInv, NEW c \in Clients
    PROVE  Shaped(options[c], Attributes(c))
<1> DEFINE o == options[c]
           A == Attributes(c)
<1> SUFFICES Shaped(o, A)
  OBVIOUS
<1>0. o \in Options /\ o.mode \in Modes
  BY DEF SystemInv, Options
<1>1. \A S, x, y : x \in S /\ y \in S => << x, y >> \in Seq(S) /\ Len(<< x, y >>) = 2
  OBVIOUS
<1>2. \A S, x, y, z : x \in S /\ y \in S /\ z \in S =>
         << x, y, z >> \in Seq(S) /\ Len(<< x, y, z >>) = 3
  OBVIOUS
<1>3. \A S, x, y, z, w : x \in S /\ y \in S /\ z \in S /\ w \in S =>
         << x, y, z, w >> \in Seq(S) /\ Len(<< x, y, z, w >>) = 4
  OBVIOUS
<1>4. User(c).type = "user" /\ User(c).name = o.user /\ Nameless.type = "other"
  BY DEF User, Nameless
<1>5. CASE o.mode = "pap"
  <2>1. A = << User(c), Nameless >>
    BY <1>5 DEF Attributes, PAPAttributes
  <2>2. Len(A) = 2 /\ A \in Seq({User(c), Nameless})
    BY <2>1, <1>1
  <2> HIDE DEF A, o
  <2>4. A[1] = User(c) /\ A[2] = Nameless
    BY <2>1
  <2>5. \A i \in 2 .. 2 : i = 2
    OBVIOUS
  <2>6. \A i \in 3 .. 2 : FALSE
    OBVIOUS
  <2>7. \E S : A \in Seq(S)
    BY <2>2
  <2>8. Len(A) \in 2 .. 4 /\ A[1].type = "user" /\ A[1].name = o.user
    BY <1>4, <2>2, <2>4
  <2>9. \A i \in 2 .. Len(A) : A[i].type \notin {"ma", "user"}
    BY <1>4, <2>2, <2>4, <2>5
  <2> QED
    BY <1>4, <1>5, <2>2, <2>4, <2>5, <2>6, <2>7, <2>8, <2>9 DEF Shaped
<1>6. CASE o.mode = "chap"
  <2> DEFINE r == [type |-> "chapResponse", len |-> 17]
             g == [type |-> "chapChallenge"]
  <2>1. A = << User(c), r, g, Nameless >>
    BY <1>6 DEF Attributes, CHAPAttributes
  <2>2. Len(A) = 4 /\ A \in Seq({User(c), r, g, Nameless})
    BY <2>1, <1>3
  <2>3. r.type = "chapResponse" /\ r.len = 17 /\ g.type = "chapChallenge"
    OBVIOUS
  <2> HIDE DEF A, r, g, o
  <2>4. A[1] = User(c) /\ A[2] = r /\ A[3] = g /\ A[4] = Nameless
    BY <2>1
  <2>5. \A i \in 2 .. 4 : i = 2 \/ i = 3 \/ i = 4
    OBVIOUS
  <2>6. \A i \in 3 .. 4 : i = 3 \/ i = 4
    OBVIOUS
  <2>7. \E S : A \in Seq(S)
    BY <2>2
  <2>8. Len(A) \in 2 .. 4 /\ A[1].type = "user" /\ A[1].name = o.user
    BY <1>4, <2>2, <2>4
  <2>9. \A i \in 2 .. Len(A) : A[i].type \notin {"ma", "user"}
    BY <1>4, <2>2, <2>3, <2>4, <2>5
  <2> QED
    BY <1>4, <1>6, <2>2, <2>3, <2>4, <2>5, <2>6, <2>7, <2>8, <2>9 DEF Shaped
<1>7. CASE o.mode = "mschap"
  <2> DEFINE v == [type |-> "mschap", version |-> 3, msLen |-> 53,
                   size |-> 53 + NameLen[o.user], name |-> o.user]
  <2>1. A = << User(c), v, Nameless >>
    BY <1>7 DEF Attributes, MSCHAPAttributes
  <2>2. Len(A) = 3 /\ A \in Seq({User(c), v, Nameless})
    BY <2>1, <1>2
  <2>3. v.type = "mschap" /\ v.name = o.user
    OBVIOUS
  <2> HIDE DEF A, v, o
  <2>4. A[1] = User(c) /\ A[2] = v /\ A[3] = Nameless
    BY <2>1
  <2>5. \A i \in 2 .. 3 : i = 2 \/ i = 3
    OBVIOUS
  <2>6. \A i \in 3 .. 3 : i = 3
    OBVIOUS
  <2>7. \E S : A \in Seq(S)
    BY <2>2
  <2>8. Len(A) \in 2 .. 4 /\ A[1].type = "user" /\ A[1].name = o.user
    BY <1>4, <2>2, <2>4
  <2>9. \A i \in 2 .. Len(A) : A[i].type \notin {"ma", "user"}
    BY <1>4, <2>2, <2>3, <2>4, <2>5
  <2> QED
    BY <1>4, <1>7, <2>2, <2>3, <2>4, <2>5, <2>6, <2>7, <2>8, <2>9 DEF Shaped
<1>8. CASE o.mode = "ttls"
  <2> DEFINE e == [type |-> "eap", message |-> "identity"]
  <2>1. A = << User(c), e >>
    BY <1>8 DEF Attributes, EAPAttributes
  <2>2. Len(A) = 2 /\ A \in Seq({User(c), e})
    BY <2>1, <1>1
  <2>3. e.type = "eap" /\ e.message = "identity"
    OBVIOUS
  <2> HIDE DEF A, e, o
  <2>4. A[1] = User(c) /\ A[2] = e
    BY <2>1
  <2>5. \A i \in 2 .. 2 : i = 2
    OBVIOUS
  <2>6. \A i \in 3 .. 2 : FALSE
    OBVIOUS
  <2>7. \E S : A \in Seq(S)
    BY <2>2
  <2>8. Len(A) \in 2 .. 4 /\ A[1].type = "user" /\ A[1].name = o.user
    BY <1>4, <2>2, <2>4
  <2>9. \A i \in 2 .. Len(A) : A[i].type \notin {"ma", "user"}
    BY <1>4, <2>2, <2>3, <2>4, <2>5
  <2> QED
    BY <1>4, <1>8, <2>2, <2>3, <2>4, <2>5, <2>6, <2>7, <2>8, <2>9 DEF Shaped
<1> QED
  BY <1>0, <1>5, <1>6, <1>7, <1>8 DEF Modes

\* The authenticator that Signed puts behind attributes A.
Mac(c) ==
    calculateMessageAuthenticator(options[c].secret, AccessRequest, 0, c, Attributes(c), "none")

\* The packet of a run none of whose attributes is too long: its attributes, and
\* the authenticator behind them.
LEMMA CliPacket ==
    ASSUME SystemInv, NEW c \in Clients, Fits(options[c])
    PROVE  LET A == Attributes(c)
               q == CliRequest(c)
           IN  /\ q.code = AccessRequest /\ q.id = 0 /\ q.auth = c /\ q.tail = "none"
               /\ \E S : q.attrs \in Seq(S)
               /\ q.attrs = Append(A, [type |-> "ma", mac |-> Mac(c)])
               /\ DOMAIN q.attrs = 1 .. Len(A) + 1
               /\ \A i \in 1 .. Len(A) : q.attrs[i] = A[i]
               /\ q.attrs[Len(A) + 1] = [type |-> "ma", mac |-> Mac(c)]
<1> DEFINE A == Attributes(c)
           last == [type |-> "ma", mac |-> Mac(c)]
           q == CliRequest(c)
<1>1. PICK S : A \in Seq(S)
  BY CliAttributes DEF Shaped
<1>2. /\ q.code = AccessRequest /\ q.id = 0 /\ q.auth = c /\ q.tail = "none"
      /\ q.attrs = Append(A, last)
  BY DEF CliRequest, Fits, Signed, Mac
<1> HIDE DEF A, last, q
<1>3. /\ Append(A, last) \in Seq(S \cup {last})
      /\ Len(Append(A, last)) = Len(A) + 1
      /\ \A i \in 1 .. Len(A) : Append(A, last)[i] = A[i]
      /\ Append(A, last)[Len(A) + 1] = last
  BY <1>1, Appended
<1>4. DOMAIN Append(A, last) = 1 .. Len(A) + 1
  BY <1>3
<1> QED
  BY <1>2, <1>3, <1>4 DEF A, last, q

\* The position of the first of one attribute.
LEMMA OneLeast ==
    ASSUME NEW n \in Nat
    PROVE  Min({n}) = n
<1>1. Min({n}) \in {n}
  BY Least
<1> QED
  BY <1>1

\* Zeroing the authenticator at the end, or adding a zeroed one there.
LEMMA CliZeroed ==
    ASSUME SystemInv, NEW c \in Clients, Fits(options[c])
    PROVE  replaceOrAddMA(CliRequest(c).attrs) = replaceOrAddMA(Attributes(c))
<1> DEFINE A == Attributes(c)
           B == CliRequest(c).attrs
           n == Len(A)
           Z == [i \in DOMAIN B |-> IF B[i].type = "ma" THEN ZeroMA ELSE B[i]]
<1>1. PICK S : A \in Seq(S)
  BY CliAttributes DEF Shaped
<1>2. /\ DOMAIN B = 1 .. n + 1 /\ B[n + 1].type = "ma"
      /\ \A i \in 1 .. n : B[i] = A[i]
  <2> DEFINE last == [type |-> "ma", mac |-> Mac(c)]
  <2>1. last.type = "ma"
    OBVIOUS
  <2>2. /\ DOMAIN B = 1 .. n + 1 /\ B[n + 1] = last
        /\ \A i \in 1 .. n : B[i] = A[i]
    BY CliPacket
  <2> HIDE DEF last, B, A, n
  <2> QED
    BY <2>1, <2>2
<1>3. n \in 2 .. 4 /\ \A i \in 1 .. n : A[i].type # "ma"
  <2>1. Shaped(options[c], A)
    BY CliAttributes
  <2>2. \A i \in 1 .. n : i = 1 \/ i \in 2 .. n
    BY <2>1 DEF Shaped
  <2> QED
    BY <2>1, <2>2 DEF Shaped
<1> HIDE DEF A, B, n
<1>4. DOMAIN A = 1 .. n
  BY <1>1 DEF n
<1>5. replaceOrAddMA(A) = Append(A, ZeroMA)
  BY <1>3, <1>4 DEF replaceOrAddMA
<1>6. replaceOrAddMA(B) = Z
  <2>1. n + 1 \in DOMAIN B
    BY <1>2, <1>3
  <2> QED
    BY <1>2, <2>1 DEF replaceOrAddMA
<1>7. /\ Append(A, ZeroMA) \in Seq(S \cup {ZeroMA})
      /\ Len(Append(A, ZeroMA)) = n + 1
      /\ \A i \in 1 .. n : Append(A, ZeroMA)[i] = A[i]
      /\ Append(A, ZeroMA)[n + 1] = ZeroMA
  BY <1>1, Appended DEF n
<1>8. \A i \in 1 .. n : A[i] \in S
  BY <1>1, ElementOfSeq DEF n
<1>9. ASSUME NEW i \in 1 .. n + 1 PROVE Z[i] = Append(A, ZeroMA)[i] /\ Z[i] \in S \cup {ZeroMA}
  <2>1. i \in 1 .. n \/ i = n + 1
    BY <1>3
  <2>2. CASE i \in 1 .. n
    <3>1. B[i] = A[i] /\ A[i].type # "ma"
      BY <1>2, <1>3, <2>2
    <3>2. Z[i] = A[i]
      BY <1>2, <3>1
    <3> QED
      BY <1>7, <1>8, <2>2, <3>2
  <2>3. CASE i = n + 1
    <3>1. Z[i] = ZeroMA
      BY <1>2, <2>3
    <3> QED
      BY <1>7, <2>3, <3>1
  <2> QED
    BY <2>1, <2>2, <2>3
<1>10. Z \in Seq(S \cup {ZeroMA}) /\ Len(Z) = n + 1
  <2>1. Z = [i \in 1 .. n + 1 |-> Z[i]]
    BY <1>2
  <2>2. n + 1 \in Nat
    BY <1>3
  <2> HIDE DEF Z
  <2>3. Z \in [1 .. n + 1 -> S \cup {ZeroMA}]
    BY <1>9, <2>1
  <2> QED
    BY <2>2, <2>3
<1> HIDE DEF Z
<1>11. Z = Append(A, ZeroMA)
  BY <1>7, <1>9, <1>10, SeqEqual
<1> QED
  BY <1>5, <1>6, <1>11 DEF A, B

\* A request of radius-cli with nothing too long in it is forged when, and only
\* when, the secrets differ.
LEMMA CliForged ==
    ASSUME SystemInv, NEW c \in Clients, Fits(options[c])
    PROVE  Forged(CliRequest(c)) <=> options[c].secret # Secret
<1> DEFINE A    == Attributes(c)
           n    == Len(A)
           q    == CliRequest(c)
           last == [type |-> "ma", mac |-> Mac(c)]
           whole == {i \in Readable(q, "ma") : "mac" \in DOMAIN q.attrs[i]}
           over == <<AccessRequest, 0, c, replaceOrAddMA(A), "none">>
           good == [key |-> Secret, over |-> over]
<1>1. /\ q.code = AccessRequest /\ q.id = 0 /\ q.auth = c /\ q.tail = "none"
      /\ DOMAIN q.attrs = 1 .. n + 1
      /\ \A i \in 1 .. n : q.attrs[i] = A[i]
      /\ q.attrs[n + 1] = last
  BY CliPacket
<1>2. n \in 2 .. 4 /\ \A i \in 1 .. n : A[i].type # "ma"
  <2>1. Shaped(options[c], A)
    BY CliAttributes
  <2>2. \A i \in 1 .. n : i = 1 \/ i \in 2 .. n
    BY <2>1 DEF Shaped
  <2> QED
    BY <2>1, <2>2 DEF Shaped
<1>3. last.type = "ma" /\ "mac" \in DOMAIN last /\ last.mac = Mac(c)
  OBVIOUS
<1>4. Mac(c) = [key |-> options[c].secret, over |-> over]
  BY DEF Mac, calculateMessageAuthenticator
<1>5. calculateMessageAuthenticator(Secret, q.code, q.id, q.auth, q.attrs, q.tail) = good
  <2>1. replaceOrAddMA(q.attrs) = replaceOrAddMA(A)
    BY CliZeroed
  <2> HIDE DEF q, A
  <2> QED
    BY <1>1, <2>1 DEF calculateMessageAuthenticator
<1>6. (Mac(c) = good) <=> (options[c].secret = Secret)
  <2> HIDE DEF over
  <2>1. \A k : ([key |-> k, over |-> over] = [key |-> Secret, over |-> over]) <=> (k = Secret)
    OBVIOUS
  <2> QED
    BY <1>4, <2>1
<1> HIDE DEF A, n, q, last, over, good
<1>7. \A i \in 1 .. n + 1 : i \in 1 .. n \/ i = n + 1
  BY <1>2
<1>8. n + 1 \in 1 .. n + 1 /\ n + 1 \in Nat
  BY <1>2
<1>9. Readable(q, "ma") = {n + 1}
  BY <1>1, <1>2, <1>3, <1>7, <1>8 DEF Readable
<1>10. whole = {n + 1}
  BY <1>1, <1>3, <1>9
<1>11. Min(whole) = n + 1
  BY <1>8, <1>10, OneLeast
<1>12. whole # {} /\ q.attrs[Min(whole)].mac = Mac(c)
  BY <1>1, <1>3, <1>10, <1>11
<1>13. validateMessageAuthenticator(q) <=> Mac(c) = good
  BY <1>5, <1>12 DEF validateMessageAuthenticator
<1>14. hasMessageAuthenticator(q)
  BY <1>9 DEF hasMessageAuthenticator, Has, HasReadable
<1> QED
  BY <1>6, <1>13, <1>14 DEF Forged, q

\* What a scanner finds in a request of radius-cli: the first two attributes
\* have types of their own.
LEMMA CliScanned ==
    ASSUME SystemInv, NEW c \in Clients, Fits(options[c])
    PROVE  LET A == Attributes(c)
               q == CliRequest(c)
           IN  /\ \A t : HasReadable(q, t) <=> t = "ma" \/ \E i \in 1 .. Len(A) : A[i].type = t
               /\ First(q, "user") = A[1] /\ HasReadable(q, "user")
               /\ \A t : /\ A[2].type = t
                         /\ \A i \in 3 .. Len(A) : A[i].type # t
                         => First(q, t) = A[2] /\ HasReadable(q, t)
<1> DEFINE A    == Attributes(c)
           n    == Len(A)
           q    == CliRequest(c)
           last == [type |-> "ma", mac |-> Mac(c)]
<1>1. /\ DOMAIN q.attrs = 1 .. n + 1
      /\ \A i \in 1 .. n : q.attrs[i] = A[i]
      /\ q.attrs[n + 1] = last
  BY CliPacket
<1>2. /\ n \in 2 .. 4 /\ A[1].type = "user"
      /\ \A i \in 2 .. n : A[i].type \notin {"ma", "user"}
  BY CliAttributes DEF Shaped
<1>3. last.type = "ma"
  OBVIOUS
<1> HIDE DEF A, n, q, last
<1>4. /\ 1 \in 1 .. n /\ 2 \in 2 .. n /\ 2 \in 1 .. n /\ n + 1 \in 1 .. n + 1
      /\ \A i \in 1 .. n + 1 : i \in 1 .. n \/ i = n + 1
      /\ \A i \in 1 .. n : i \in 1 .. n + 1
      /\ \A i \in 1 .. n : i = 1 \/ i \in 2 .. n
      /\ \A i \in 2 .. n : i = 2 \/ i \in 3 .. n
  BY <1>2
<1>5. \A t : HasReadable(q, t) <=> t = "ma" \/ \E i \in 1 .. n : A[i].type = t
  BY <1>1, <1>3, <1>4 DEF HasReadable, Readable
<1>6. ASSUME NEW t, t # "ma", NEW k \in 1 .. n, A[k].type = t,
             \A i \in 1 .. n : A[i].type = t => i = k
      PROVE  First(q, t) = A[k] /\ HasReadable(q, t)
  <2>1. Readable(q, t) = {k}
    BY <1>1, <1>3, <1>4, <1>6 DEF Readable
  <2>2. k \in Nat
    BY <1>2
  <2> QED
    BY <1>1, <2>1, <2>2, OneLeast DEF First, HasReadable
<1>7. First(q, "user") = A[1] /\ HasReadable(q, "user")
  BY <1>2, <1>4, <1>6
<1>8. ASSUME NEW t, A[2].type = t, \A i \in 3 .. n : A[i].type # t
      PROVE  First(q, t) = A[2] /\ HasReadable(q, t)
  <2>1. t # "ma" /\ t # "user"
    BY <1>2, <1>4, <1>8
  <2>2. \A i \in 1 .. n : A[i].type = t => i = 2
    BY <1>2, <1>4, <1>8, <2>1
  <2> QED
    BY <1>4, <1>6, <1>8, <2>1, <2>2
<1> QED
  BY <1>5, <1>7, <1>8 DEF A, n, q

-----------------------------------------------------------------------------
(* The verdict on a run of radius-cli. *)

\* What the first attributes of a run's request say, by its method.
LEMMA CliContents ==
    ASSUME SystemInv, NEW c \in Clients, Fits(options[c])
    PROVE  LET o == options[c]
               q == CliRequest(c)
           IN  /\ extractUsername(q) = o.user
               /\ hasEAPAttributes(q) <=> o.mode = "ttls"
               /\ o.mode = "ttls" => First(q, "eap").message = "identity"
               /\ hasMSCHAPAttributes(q) <=> o.mode = "mschap"
               /\ o.mode = "mschap" => First(q, "mschap").name = o.user
               /\ hasCHAPAttributes(q) <=> o.mode = "chap"
               /\ o.mode = "chap" => /\ extractCHAPResponse(q).len = 17
                                     /\ extractCHAPResponse(q).nil = FALSE
<1> DEFINE o == options[c]
           A == Attributes(c)
           n == Len(A)
           q == CliRequest(c)
           Holds(t) == \E i \in 1 .. n : A[i].type = t
<1>1. /\ \A t : HasReadable(q, t) <=> t = "ma" \/ Holds(t)
      /\ First(q, "user") = A[1] /\ HasReadable(q, "user")
      /\ \A t : A[2].type = t /\ (\A i \in 3 .. n : A[i].type # t)
                => First(q, t) = A[2] /\ HasReadable(q, t)
  BY CliScanned
<1>2. q.tail = "none"
  BY CliPacket
<1>3. Shaped(o, A) /\ o.mode \in Modes
  BY CliAttributes DEF SystemInv, Options
<1> HIDE DEF o, A, q
<1>4. n \in 2 .. 4
  BY <1>3 DEF Shaped
<1> HIDE DEF n
<1>5. /\ 2 \in 1 .. n
      /\ \A i \in 1 .. n : i = 1 \/ i \in 2 .. n
      /\ \A i \in 1 .. n : i = 1 \/ i = 2 \/ i \in 3 .. n
  BY <1>4
<1>6. /\ A[1].type = "user" /\ A[1].name = o.user
      /\ o.mode = "pap" => \A i \in 2 .. n : A[i].type = "other"
      /\ o.mode = "chap" =>
            /\ A[2].type = "chapResponse" /\ A[2].len = 17
            /\ \A i \in 3 .. n : A[i].type \in {"chapChallenge", "other"}
      /\ o.mode = "mschap" =>
            /\ A[2].type = "mschap" /\ A[2].name = o.user
            /\ \A i \in 3 .. n : A[i].type = "other"
      /\ o.mode = "ttls" => n = 2 /\ A[2].type = "eap" /\ A[2].message = "identity"
  BY <1>3 DEF Shaped, n
<1>7. extractUsername(q) = o.user
  BY <1>1, <1>6 DEF extractUsername
<1>8. CASE o.mode = "pap"
  <2>1. ~ Holds("eap") /\ ~ Holds("mschap") /\ ~ Holds("chapResponse") /\ ~ Holds("chapChallenge")
    BY <1>5, <1>6, <1>8
  <2> HIDE DEF Holds
  <2> QED
    BY <1>1, <1>2, <1>7, <1>8, <2>1
       DEF hasEAPAttributes, hasMSCHAPAttributes, hasCHAPAttributes, Has, o, q
<1>9. CASE o.mode = "chap"
  <2>1. ~ Holds("eap") /\ ~ Holds("mschap")
    BY <1>5, <1>6, <1>9
  <2>2. \A i \in 3 .. n : A[i].type # "chapResponse"
    BY <1>6, <1>9
  <2> HIDE DEF Holds
  <2>3. First(q, "chapResponse") = A[2] /\ HasReadable(q, "chapResponse")
    BY <1>1, <1>6, <1>9, <2>2
  <2>4. extractCHAPResponse(q).len = 17 /\ extractCHAPResponse(q).nil = FALSE
    BY <1>6, <1>9, <2>3 DEF extractCHAPResponse
  <2> QED
    BY <1>1, <1>2, <1>7, <1>9, <2>1, <2>3, <2>4
       DEF hasEAPAttributes, hasMSCHAPAttributes, hasCHAPAttributes, Has, o, q
<1>10. CASE o.mode = "mschap"
  <2>1. ~ Holds("eap") /\ ~ Holds("chapResponse") /\ ~ Holds("chapChallenge")
    BY <1>5, <1>6, <1>10
  <2>2. \A i \in 3 .. n : A[i].type # "mschap"
    BY <1>6, <1>10
  <2> HIDE DEF Holds
  <2>3. First(q, "mschap") = A[2] /\ HasReadable(q, "mschap")
    BY <1>1, <1>6, <1>10, <2>2
  <2> QED
    BY <1>1, <1>2, <1>6, <1>7, <1>10, <2>1, <2>3
       DEF hasEAPAttributes, hasMSCHAPAttributes, hasCHAPAttributes, Has, o, q
<1>11. CASE o.mode = "ttls"
  <2>1. ~ Holds("mschap") /\ ~ Holds("chapResponse") /\ ~ Holds("chapChallenge")
    BY <1>5, <1>6, <1>11
  <2>2. \A i \in 3 .. n : FALSE
    BY <1>6, <1>11
  <2> HIDE DEF Holds
  <2>3. First(q, "eap") = A[2] /\ HasReadable(q, "eap")
    BY <1>1, <1>6, <1>11, <2>2
  <2> QED
    BY <1>1, <1>2, <1>6, <1>7, <1>11, <2>1, <2>3
       DEF hasEAPAttributes, hasMSCHAPAttributes, hasCHAPAttributes, Has, o, q
<1> QED
  BY <1>3, <1>8, <1>9, <1>10, <1>11 DEF Modes

\* The answer due to a run is the one its command line asks for.
LEMMA CliAnswer ==
    ASSUME SystemInv, NEW c \in Clients, Fits(options[c]),
           NEW response, Answer(CliRequest(c), response)
    PROVE  response.code = Expected(options[c])
<1> DEFINE o == options[c]
           q == CliRequest(c)
<1>0. ~ NameTooLong(o)
  BY DEF Fits
<1>1. Forged(q) <=> o.secret # Secret
  BY CliForged
<1>2. /\ extractUsername(q) = o.user
      /\ hasEAPAttributes(q) <=> o.mode = "ttls"
      /\ o.mode = "ttls" => First(q, "eap").message = "identity"
      /\ hasMSCHAPAttributes(q) <=> o.mode = "mschap"
      /\ o.mode = "mschap" => First(q, "mschap").name = o.user
      /\ hasCHAPAttributes(q) <=> o.mode = "chap"
      /\ o.mode = "chap" => /\ extractCHAPResponse(q).len = 17
                            /\ extractCHAPResponse(q).nil = FALSE
  BY CliContents
<1> HIDE DEF o, q
<1>3. Answer(q, response)
  BY DEF q
<1> SUFFICES response.code = Expected(o)
  BY DEF o
<1>4. CASE o.secret # Secret
  BY <1>0, <1>1, <1>3, <1>4, AnswerHeader DEF Expected
<1>5. CASE o.secret = Secret /\ o.mode = "ttls"
  <2>1. response = EAPResponse(q, FALSE)
    BY <1>1, <1>2, <1>3, <1>5 DEF Answer
  <2>2. response.code = AccessChallenge
    BY <2>1 DEF EAPResponse, SealEAP, Sealed, EAPResponseCode
  <2> QED
    BY <1>0, <1>5, <2>2 DEF Expected
<1>6. CASE o.secret = Secret /\ o.mode # "ttls"
  <2>1. response.code = Verdict(q)
    BY <1>1, <1>2, <1>3, <1>6, AnswerHeader
  <2>2. Verdict(q) = IF o.user \in Denied THEN AccessReject ELSE AccessAccept
    BY <1>2 DEF Verdict, ServeRadius, ServeRadiusWithCHAP, ServeRadiusWithMSCHAP, hasNoPrefix
  <2> QED
    BY <1>0, <1>6, <2>1, <2>2 DEF Expected
<1> QED
  BY <1>4, <1>5, <1>6

-----------------------------------------------------------------------------
(* The theorems about requests and their responses. *)

\* What can be read of a request that was cut has no authenticator.
LEMMA CutRequest ==
    ASSUME NEW c, ~ Fits(options[c])
    PROVE  LET q == CliRequest(c) IN
           /\ q.len = "ok"
           /\ q.attrs = << >> \/ q.attrs = << User(c) >>
           /\ NameTooLong(options[c]) => q.attrs = << >> /\ q.tail = "user"
           /\ DataTooLong(options[c]) => /\ q.attrs = << User(c) >>
                                         /\ q.tail \in {"vendor", "eap"}
BY DEF CliRequest, Fits, Cut, DataTooLong

\* A request whose name was cut off is accepted, and one whose data were cut off is
\* not answered: it panics, or has an EAP-Message that cannot be read.
LEMMA CutAnswer ==
    ASSUME NEW c, ~ Fits(options[c]), NEW response, Answer(CliRequest(c), response)
    PROVE  /\ ~ DataTooLong(options[c])
           /\ response.code = AccessAccept
<1> DEFINE q == CliRequest(c)
<1>1. \A t : HasReadable(q, t) => t = "user" /\ q.attrs # << >>
  <2>1. q.attrs = << >> \/ q.attrs = << User(c) >>
    BY CutRequest
  <2>2. /\ DOMAIN << >> = {}
        /\ \A x : DOMAIN << x >> = {1} /\ << x >>[1] = x
    OBVIOUS
  <2>3. User(c).type = "user"
    BY DEF User
  <2> QED
    BY <2>1, <2>2, <2>3 DEF HasReadable, Readable
<1>2. CASE DataTooLong(options[c])
  <2>1. q.tail \in {"vendor", "eap"}
    BY <1>2, CutRequest
  <2>2. ~ HasReadable(q, "mschap") /\ ~ HasReadable(q, "eap") /\ ~ HasReadable(q, "ma")
    BY <1>1
  <2>3. q.tail = "eap"
    BY <2>1, <2>2 DEF Answer, Panics
  <2>4. ~ Forged(q) /\ hasEAPAttributes(q)
    BY <2>2, <2>3 DEF Forged, hasMessageAuthenticator, hasEAPAttributes, Has
  <2> QED
    BY <2>2, <2>4 DEF Answer
<1>3. CASE NameTooLong(options[c])
  <2>1. q.attrs = << >> /\ q.tail = "user"
    BY <1>3, CutRequest
  <2>2. \A t : ~ HasReadable(q, t)
    BY <1>1, <2>1
  <2>3. ~ Forged(q) /\ ~ hasEAPAttributes(q) /\ ~ hasCHAPAttributes(q)
        /\ ~ hasMSCHAPAttributes(q) /\ extractUsername(q) = Unknown
    BY <2>1, <2>2 DEF Forged, hasMessageAuthenticator, hasEAPAttributes, hasCHAPAttributes,
       hasMSCHAPAttributes, Has, extractUsername
  <2>4. Verdict(q) = AccessAccept
    BY <2>3, UnknownAssumption DEF Verdict, ServeRadius, hasNoPrefix
  <2>5. response.code = AccessAccept
    BY <2>3, <2>4, AnswerHeader
  <2> QED
    BY <1>3, <2>5 DEF DataTooLong
<1> QED
  BY <1>2, <1>3 DEF Fits

\* Every run of the CLI whose name leaves room for what goes before it is sent,
\* and shows, the verdict on its own command line; a longer name, by an octet or
\* two, is accepted unread where it does not fit the User-Name, and not answered
\* where it only does not fit the attribute of its mode.
THEOREM VerdictTheorem == SystemSpec => []VerdictIsRight
<1>1. ASSUME SystemInv, NEW r \in responses, r.to \in Clients
      PROVE  ~ DataTooLong(options[r.to]) /\ r.packet.code = Expected(options[r.to])
  <2>1. PICK q : Known(r.to, q) /\ Answer(q, r.packet)
    BY <1>1 DEF SystemInv
  <2>2. q = CliRequest(r.to)
    BY <1>1, <2>1, NasAssumption DEF Known
  <2>3. CASE Fits(options[r.to])
    BY <1>1, <2>1, <2>2, <2>3, CliAnswer DEF Fits
  <2>4. CASE ~ Fits(options[r.to])
    <3>1. ~ DataTooLong(options[r.to]) /\ r.packet.code = AccessAccept
      BY <2>1, <2>2, <2>4, CutAnswer
    <3> QED
      BY <2>4, <3>1 DEF Fits, Expected
  <2> QED
    BY <2>3, <2>4
<1>2. ASSUME SystemInv, NEW c \in Clients, client[c] = "answered"
      PROVE  shown[c].code = Expected(options[c])
  <2>1. PICK r \in responses : r.to = c /\ r.packet = shown[c]
    BY <1>2 DEF SystemInv
  <2>2. r.packet.code = Expected(options[r.to])
    BY <1>1, <1>2, <2>1
  <2> QED
    BY <2>1, <2>2
<1>3. SystemInv => VerdictIsRight
  BY <1>1, <1>2 DEF VerdictIsRight
<1> QED
  BY <1>3, SystemInvariance, PTL

\* The attributes of a packet that was sent are numbered.
LEMMA AttributesNumbered ==
    ASSUME SystemInv, NEW a, NEW p, Known(a, p)
    PROVE  DOMAIN p.attrs \subseteq Nat
<1>1. CASE a = Nas /\ p \in nasSent
  <2>1. p.attrs \in Seq(Range(p.attrs))
    BY <1>1, NasPacketsAssumption DEF SystemInv
  <2>2. \A S, s : s \in Seq(S) => DOMAIN s = 1 .. Len(s) /\ Len(s) \in Nat
    OBVIOUS
  <2>3. DOMAIN p.attrs = 1 .. Len(p.attrs) /\ Len(p.attrs) \in Nat
    BY <2>1, <2>2
  <2> QED
    BY <2>3
<1>2. CASE a \in Clients /\ p = CliRequest(a) /\ Fits(options[a])
  <2>1. DOMAIN p.attrs = 1 .. Len(Attributes(a)) + 1
    BY <1>2, CliPacket
  <2>2. Len(Attributes(a)) \in 2 .. 4
    BY <1>2, CliAttributes DEF Shaped
  <2> QED
    BY <2>1, <2>2
<1>3. CASE p = CliRequest(a) /\ ~ Fits(options[a])
  <2>1. p.attrs = << >> \/ p.attrs = << User(a) >>
    BY <1>3, CutRequest
  <2>2. DOMAIN << >> = {} /\ \A x : DOMAIN << x >> = {1}
    OBVIOUS
  <2> QED
    BY <2>1, <2>2
<1> QED
  BY <1>1, <1>2, <1>3 DEF Known

\* A request with an authenticator, and none that verifies, gets a reject or
\* nothing.
THEOREM ForgedTheorem == SystemSpec => []ForgedOnlyRejected
<1>1. ASSUME SystemInv, NEW r \in responses, NEW p \in Sent(r),
             CarriesMA(p), ~ Authentic(p)
      PROVE  r.packet.code = AccessReject
  <2>1. Answer(p, r.packet) /\ Known(r.to, p)
    BY <1>1, AnswersItsRequest
  <2>2. Forged(p)
    BY <1>1, <2>1, AttributesNumbered, NotAuthenticIsForged
  <2> QED
    BY <2>1, <2>2, AnswerHeader
<1>2. SystemInv => ForgedOnlyRejected
  BY <1>1 DEF ForgedOnlyRejected
<1> QED
  BY <1>2, SystemInvariance, PTL

\* The type invariant: the packets on the wire were sent, and the server has
\* answered with codes of the protocol only.
THEOREM TypeTheorem == SystemSpec => []TypeOK
<1>1. ASSUME SystemInv, NEW r \in responses
      PROVE  /\ r.to \in Clients \cup {Nas}
             /\ r.packet.code \in {AccessAccept, AccessReject, AccessChallenge}
  <2>1. PICK q : Known(r.to, q) /\ Answer(q, r.packet)
    BY <1>1 DEF SystemInv
  <2> QED
    BY <2>1, AnswerHeader DEF Known
<1>2. SystemInv => TypeOK
  BY <1>1 DEF SystemInv, TypeOK, Known
<1> QED
  BY <1>2, SystemInvariance, PTL

-----------------------------------------------------------------------------
(* Which responses verify. *)

\* The recursive function inside mirrored, for the attributes A.
Kept(A) ==
    CHOOSE f : f = [i \in 0 .. Len(A) |->
                      IF i = 0 THEN << >>
                      ELSE IF A[i].type \in {"proxy", "state"} THEN Append(f[i - 1], A[i])
                      ELSE f[i - 1]]

\* What a reject repeats of a request are attributes of it, and of two types only.
LEMMA MirroredTypes ==
    ASSUME NEW S, NEW A \in Seq(S)
    PROVE  mirrored(A) \in Seq({a \in S : a.type \in {"proxy", "state"}})
<1> DEFINE n == Len(A)
           K == {a \in S : a.type \in {"proxy", "state"}}
           Q == Seq(K)
           From(i) == i \in 1 .. n /\ A[i].type \in {"proxy", "state"}
           step == [i \in Nat |-> [t \in Q |-> IF From(i) THEN Append(t, A[i]) ELSE t]]
           Step(f, i) == IF i = 0 THEN << >>
                         ELSE IF A[i].type \in {"proxy", "state"} THEN Append(f[i - 1], A[i])
                         ELSE f[i - 1]
<1>1. n \in Nat /\ \A i \in 1 .. n : A[i] \in S
  OBVIOUS
<1>2. << >> \in Q
  OBVIOUS
<1>3. \A i : From(i) => A[i] \in K
  BY <1>1
<1>4. \A t \in Q, i \in Nat : From(i) => Append(t, A[i]) \in Q
  <2> TAKE t \in Q, i \in Nat
  <2> HIDE DEF From, K
  <2> QED
    BY <1>3
<1> HIDE DEF Q, K
<1>5. step \in [Nat -> [Q -> Q]]
  <2> HIDE DEF From
  <2> QED
    BY <1>4
<1>6. \A i \in Nat, t \in Q : step[i][t] = IF From(i) THEN Append(t, A[i]) ELSE t
  OBVIOUS
<1> HIDE DEF step, From, n
<1>7. PICK F \in [Nat -> Q] : F[0] = << >> /\ \A i \in Nat : F[i + 1] = step[i + 1][F[i]]
  <2>1. \E F \in [Nat -> Q] : Recurs(F, << >>, step)
    BY <1>2, <1>5, NatRecursion
  <2> QED
    BY <2>1 DEF Recurs
<1> DEFINE f == [i \in 0 .. n |-> F[i]]
<1>8. f = [i \in 0 .. n |-> Step(f, i)]
  <2>1. ASSUME NEW i \in 0 .. n PROVE F[i] = Step(f, i)
    <3>1. CASE i = 0
      BY <1>7, <3>1
    <3>2. CASE i # 0
      <4>1. i - 1 \in Nat /\ (i - 1) + 1 = i /\ i \in Nat /\ i \in 1 .. n /\ i - 1 \in 0 .. n
        BY <1>1, <3>2
      <4>2. f[i - 1] = F[i - 1] /\ F[i - 1] \in Q
        BY <4>1
      <4>3. F[i] = step[i][F[i - 1]]
        BY <1>7, <4>1
      <4>4. F[i] = IF From(i) THEN Append(F[i - 1], A[i]) ELSE F[i - 1]
        BY <1>6, <4>1, <4>2, <4>3
      <4> QED
        BY <3>2, <4>1, <4>2, <4>4 DEF From
    <3> QED
      BY <3>1, <3>2
  <2> QED
    BY <2>1
<1> DEFINE g == Kept(A)
<1>9. g = [i \in 0 .. n |-> Step(g, i)]
  <2> HIDE DEF f
  <2> QED
    BY <1>8 DEF Kept, n
<1> HIDE DEF g
<1> DEFINE T == {i \in Nat : i \in 0 .. n => g[i] \in Q}
<1>10. 0 \in T
  BY <1>1, <1>2, <1>9
<1>11. ASSUME NEW i \in T PROVE i + 1 \in T
  <2> SUFFICES ASSUME i + 1 \in 0 .. n PROVE g[i + 1] \in Q
    OBVIOUS
  <2>1. i \in 0 .. n /\ i + 1 # 0 /\ (i + 1) - 1 = i /\ i + 1 \in 1 .. n /\ i + 1 \in Nat
    BY <1>1
  <2>2. g[i] \in Q
    BY <2>1
  <2>3. g[i + 1] = IF A[i + 1].type \in {"proxy", "state"} THEN Append(g[i], A[i + 1])
                   ELSE g[i]
    BY <1>9, <2>1
  <2>4. A[i + 1].type \in {"proxy", "state"} => Append(g[i], A[i + 1]) \in Q
    BY <1>4, <2>1, <2>2 DEF From
  <2> QED
    BY <2>2, <2>3, <2>4
<1>12. T \in SUBSET Nat
  OBVIOUS
<1>13. T = Nat
  <2> HIDE DEF T
  <2> QED
    BY <1>10, <1>11, <1>12, NatSetInduction
<1>14. n \in T /\ n \in 0 .. n
  BY <1>1, <1>13
<1>15. mirrored(A) = g[n]
  BY DEF mirrored, Kept, g, n
<1> QED
  BY <1>14, <1>15 DEF Q, K

\* Responses without EAP carry no authenticator but the header's, which is signed
\* over what is sent, and over the authenticator of a request that has one.
LEMMA PlainVerifies ==
    ASSUME NEW p, NEW S, p.attrs \in Seq(S), NEW code
    PROVE  Verifies(p, buildResponsePacket(p, code)) <=> p.len # "short" \/ p.auth = Zeros
<1> DEFINE repeated == mirrored(p.attrs)
           message  == [type |-> "reply"]
           attrs == IF code = AccessAccept THEN << >> ELSE Append(repeated, message)
           resp  == buildResponsePacket(p, code)
<1>1. \A i \in DOMAIN attrs : attrs[i].type # "ma"
  <2> DEFINE K == {a \in S : a.type \in {"proxy", "state"}}
  <2>1. repeated \in Seq(K)
    BY MirroredTypes
  <2>2. message.type = "reply"
    OBVIOUS
  <2>3. ASSUME NEW s \in Seq(K), NEW i \in DOMAIN Append(s, message)
        PROVE  Append(s, message)[i].type # "ma"
    <3>1. /\ Len(Append(s, message)) = Len(s) + 1
          /\ \A j \in 1 .. Len(s) : Append(s, message)[j] = s[j]
          /\ Append(s, message)[Len(s) + 1] = message
          /\ Append(s, message) \in Seq(K \cup {message})
      BY Appended
    <3>2. i \in 1 .. Len(s) \/ i = Len(s) + 1
      BY <3>1
    <3>3. \A j \in 1 .. Len(s) : s[j] \in K
      OBVIOUS
    <3> HIDE DEF message
    <3> QED
      BY <2>2, <3>1, <3>2, <3>3
  <2> HIDE DEF repeated, message, K
  <2> QED
    BY <2>1, <2>3
<1> HIDE DEF attrs
<1> DEFINE over(auth) == [key |-> Secret, over |-> <<code, p.id, auth, attrs>>]
<1>2. resp = Sealed(code, p.id, requestAuth(p), attrs)
  BY DEF buildResponsePacket, attrs
<1>3. /\ resp.code = code /\ resp.id = p.id /\ resp.attrs = attrs
      /\ resp.auth = over(requestAuth(p))
  <2> HIDE DEF resp
  <2> QED
    BY <1>2 DEF Sealed, ResponseAuthenticator
<1>5. \A a, b : over(a) = over(b) <=> a = b
  OBVIOUS
<1> HIDE DEF resp
<1>6. Verifies(p, resp) <=> resp.auth = over(p.auth)
  BY <1>1, <1>3 DEF Verifies
<1> HIDE DEF over
<1>7. Verifies(p, resp) <=> requestAuth(p) = p.auth
  BY <1>3, <1>5, <1>6
<1>4. Verifies(p, resp) <=> p.len # "short" \/ p.auth = Zeros
  BY <1>7 DEF requestAuth
<1> QED
  BY <1>4 DEF resp

\* Writing out short sequences that were joined.
LEMMA PairAppended ==
    ASSUME NEW x, NEW z
    PROVE  Append(<< x >>, z) = << x, z >>
<1> DEFINE S == {x, z}
           c == Append(<< x >>, z)
           d == << x, z >>
<1>1. << x >> \in Seq(S) /\ z \in S /\ Len(<< x >>) = 1 /\ << x >>[1] = x
  OBVIOUS
<1>2. c \in Seq(S) /\ Len(c) = 2 /\ c[1] = x /\ c[2] = z
  BY <1>1, AppendProperties
<1>3. d \in Seq(S) /\ Len(d) = 2 /\ d[1] = x /\ d[2] = z
  OBVIOUS
<1>4. \A i \in 1 .. 2 : c[i] = d[i]
  BY <1>2, <1>3
<1> HIDE DEF c, d
<1> QED
  BY <1>2, <1>3, <1>4, SeqEqual DEF c, d

LEMMA Joined ==
    ASSUME NEW x, NEW z
    PROVE  << x >> \o << >> \o << z >> = << x, z >>
<1> DEFINE S == {x, z}
<1>1. << x >> \in Seq(S) /\ z \in S
  OBVIOUS
<1>2. << x >> \o << >> = << x >>
  BY <1>1, ConcatEmptySeq
<1>3. << x >> \o << z >> = Append(<< x >>, z)
  BY <1>1, AppendIsConcat
<1> QED
  BY <1>2, <1>3, PairAppended

LEMMA JoinedThree ==
    ASSUME NEW x, NEW y, NEW z
    PROVE  << x >> \o << y >> \o << z >> = << x, y, z >>
<1> DEFINE S == {x, y, z}
<1>1. << x >> \in Seq(S) /\ << x, y >> \in Seq(S) /\ y \in S /\ z \in S
  OBVIOUS
<1>2. << x >> \o << y >> = Append(<< x >>, y) /\ << x, y >> \o << z >> = Append(<< x, y >>, z)
  BY <1>1, AppendIsConcat
<1>3. Append(<< x >>, y) = << x, y >>
  BY <1>1, <1>2, PairAppended
<1>4. Append(<< x, y >>, z) = << x, y, z >>
  <2> DEFINE b == << x, y >>
             c == Append(b, z)
             d == << x, y, z >>
  <2>1. b \in Seq(S) /\ Len(b) = 2 /\ b[1] = x /\ b[2] = y
    OBVIOUS
  <2> HIDE DEF b
  <2>2. c \in Seq(S) /\ Len(c) = 3 /\ c[1] = x /\ c[2] = y /\ c[3] = z
    <3>1. b \in Seq(S) /\ z \in S
      BY <1>1, <2>1
    <3> HIDE DEF S
    <3>2. /\ c \in Seq(S) /\ Len(c) = Len(b) + 1 /\ c[Len(b) + 1] = z
          /\ \A i \in 1 .. Len(b) : c[i] = b[i]
      BY <3>1, AppendProperties
    <3>3. 1 \in 1 .. Len(b) /\ 2 \in 1 .. Len(b)
      BY <2>1
    <3> QED
      BY <2>1, <3>2, <3>3
  <2>3. d \in Seq(S) /\ Len(d) = 3 /\ d[1] = x /\ d[2] = y /\ d[3] = z
    OBVIOUS
  <2>4. \A i \in 1 .. 3 : c[i] = d[i]
    <3>1. \A i \in 1 .. 3 : i = 1 \/ i = 2 \/ i = 3
      OBVIOUS
    <3> QED
      BY <2>2, <2>3, <3>1
  <2> HIDE DEF c, d
  <2> QED
    BY <2>2, <2>3, <2>4, SeqEqual DEF b, c, d
<1> QED
  BY <1>2, <1>3, <1>4

\* The attributes of a response with EAP, the last of which is x.
Carrying(success, x) ==
    IF success THEN << [type |-> "eap"], x >> ELSE << [type |-> "eap"], [type |-> "state"], x >>

\* Whatever authenticator comes last, it is zeroed before the sum is taken.
LEMMA CarryingZeroed ==
    ASSUME NEW success \in BOOLEAN, NEW x, x.type = "ma"
    PROVE  /\ replaceOrAddMA(Carrying(success, x)) = Carrying(success, ZeroMA)
           /\ \A i \in DOMAIN Carrying(success, x) :
                 Carrying(success, x)[i].type = "ma" => Carrying(success, x)[i] = x
<1> DEFINE e == [type |-> "eap"]
           s == [type |-> "state"]
<1>1. e.type = "eap" /\ s.type = "state"
  OBVIOUS
<1> HIDE DEF e, s
<1>2. CASE success
  <2>1. DOMAIN << e, x >> = {1, 2} /\ << e, x >>[1] = e /\ << e, x >>[2] = x
    OBVIOUS
  <2>2. [i \in DOMAIN << e, x >> |-> IF << e, x >>[i].type = "ma" THEN ZeroMA ELSE << e, x >>[i]]
          = << e, ZeroMA >>
    <3>1. DOMAIN << e, ZeroMA >> = {1, 2} /\ << e, ZeroMA >>[1] = e /\ << e, ZeroMA >>[2] = ZeroMA
      OBVIOUS
    <3> QED
      BY <1>1, <2>1
  <2>3. replaceOrAddMA(<< e, x >>) = << e, ZeroMA >>
    BY <2>1, <2>2 DEF replaceOrAddMA
  <2>4. Carrying(success, x) = << e, x >> /\ Carrying(success, ZeroMA) = << e, ZeroMA >>
    BY <1>2 DEF Carrying, e
  <2> QED
    BY <1>1, <2>1, <2>3, <2>4
<1>3. CASE ~ success
  <2> DEFINE t == << e, s, x >>
  <2>1. DOMAIN t = {1, 2, 3} /\ t[1] = e /\ t[2] = s /\ t[3] = x
    OBVIOUS
  <2>2. [i \in DOMAIN t |-> IF t[i].type = "ma" THEN ZeroMA ELSE t[i]] = << e, s, ZeroMA >>
    BY <1>1, <2>1
  <2>4. Carrying(success, x) = t /\ Carrying(success, ZeroMA) = << e, s, ZeroMA >>
    BY <1>3 DEF Carrying, e, s
  <2> HIDE DEF t
  <2>3. replaceOrAddMA(t) = << e, s, ZeroMA >>
    BY <2>1, <2>2 DEF replaceOrAddMA
  <2> QED
    BY <1>1, <2>1, <2>3, <2>4
<1> QED
  BY <1>2, <1>3

\* Responses with EAP verify: the authenticator is taken over the attributes that
\* a client zeroes it in, and put in before the header is signed.
LEMMA EAPVerifies ==
    ASSUME NEW p, NEW success \in BOOLEAN
    PROVE  Verifies(p, EAPResponse(p, success))
<1> DEFINE code  == EAPResponseCode(success)
           zeroed == Carrying(success, ZeroMA)
           ma    == calculateMessageAuthenticator(Secret, code, p.id, p.auth, zeroed, "none")
           last  == [type |-> "ma", mac |-> ma]
           whole == Carrying(success, last)
           resp  == EAPResponse(p, success)
<1>1. resp = SealEAP(p, code, zeroed)
  <2> DEFINE e == [type |-> "eap"]
             s == [type |-> "state"]
  <2>1. << e >> \o << >> \o << ZeroMA >> = << e, ZeroMA >>
    <3> HIDE DEF e
    <3> QED
      BY Joined
  <2>2. << e >> \o << s >> \o << ZeroMA >> = << e, s, ZeroMA >>
    <3> HIDE DEF e, s
    <3> QED
      BY JoinedThree
  <2>3. (code = AccessAccept) <=> success
    BY DEF EAPResponseCode, AccessAccept, AccessChallenge
  <2>4. resp = SealEAP(p, code, << e >> \o (IF code = AccessAccept THEN << >> ELSE << s >>)
                                      \o << ZeroMA >>)
    BY DEF EAPResponse
  <2> HIDE DEF resp, code
  <2> QED
    BY <2>1, <2>2, <2>3, <2>4 DEF Carrying
<1>2. [zeroed EXCEPT ![Len(zeroed)] = last] = whole
  <2> HIDE DEF last
  <2>1. CASE success
    BY <2>1 DEF Carrying
  <2>2. CASE ~ success
    BY <2>2 DEF Carrying
  <2> QED
    BY <2>1, <2>2
<1> HIDE DEF resp, zeroed, whole, code
<1>3. resp = Sealed(code, p.id, p.auth, whole)
  BY <1>1, <1>2 DEF SealEAP
<1>4. /\ resp.code = code /\ resp.id = p.id /\ resp.attrs = whole
      /\ resp.auth = [key |-> Secret, over |-> <<code, p.id, p.auth, whole>>]
  BY <1>3 DEF Sealed, ResponseAuthenticator
<1>5. last.type = "ma" /\ last.mac = ma
  OBVIOUS
<1> HIDE DEF last
<1>6. calculateMessageAuthenticator(Secret, code, p.id, p.auth, whole, "none") = ma
  <2>1. ZeroMA.type = "ma"
    BY DEF ZeroMA
  <2>2. replaceOrAddMA(zeroed) = zeroed /\ replaceOrAddMA(whole) = zeroed
    BY <1>5, <2>1, CarryingZeroed DEF zeroed, whole
  <2> QED
    BY <2>2 DEF calculateMessageAuthenticator
<1>7. \A i \in DOMAIN whole : whole[i].type = "ma" => whole[i].mac = ma
  BY <1>5, CarryingZeroed DEF whole
<1> HIDE DEF ma
<1>8. Verifies(p, resp)
  BY <1>4, <1>6, <1>7 DEF Verifies
<1> QED
  BY <1>8 DEF resp

\* The attributes of a request are a sequence, and there are none in a request
\* that declares less than a header.
LEMMA RequestWhole ==
    ASSUME SystemInv, NEW r \in responses, NEW p \in Sent(r)
    PROVE  /\ \E S : p.attrs \in Seq(S)
           /\ p.len = "short" => p.attrs = << >> /\ p.tail = "none"
<1>1. CASE r.to = Nas
  <2>1. p \in NasPackets
    BY <1>1 DEF Sent, SystemInv
  <2> QED
    BY <2>1, NasPacketsAssumption
<1>2. CASE r.to \in Clients /\ p = CliRequest(r.to) /\ Fits(options[r.to])
  <2>1. p.len = "ok"
    BY <1>2 DEF CliRequest, Fits, Signed
  <2>2. \E S : p.attrs \in Seq(S)
    BY <1>2, CliPacket
  <2> QED
    BY <2>1, <2>2
<1>3. CASE r.to \in Clients /\ p = CliRequest(r.to) /\ ~ Fits(options[r.to])
  <2>1. p.len = "ok" /\ (p.attrs = << >> \/ p.attrs = << User(r.to) >>)
    BY <1>3, CutRequest
  <2>2. << >> \in Seq({}) /\ \A x : << x >> \in Seq({x})
    OBVIOUS
  <2> QED
    BY <2>1, <2>2
<1>4. r.to # Nas => r.to \in Clients /\ p = CliRequest(r.to)
  BY AnswersItsRequest DEF Known
<1> QED
  BY <1>1, <1>2, <1>3, <1>4

\* A response verifies against the request it answers, whatever attributes that
\* has and whichever of the builders made the response, but for a request without
\* a whole header.
THEOREM ResponseTheorem == SystemSpec => []ResponseVerifies
<1>1. ASSUME SystemInv, NEW r \in responses, NEW p \in Sent(r)
      PROVE  Verifies(p, r.packet) <=> p.len # "short" \/ p.auth = Zeros
  <2>1. Answer(p, r.packet)
    BY <1>1, AnswersItsRequest
  <2>2. PICK S : p.attrs \in Seq(S)
    BY <1>1, RequestWhole
  <2>3. \A code : Verifies(p, buildResponsePacket(p, code)) <=> p.len # "short" \/ p.auth = Zeros
    BY <2>2, PlainVerifies
  <2>4. Verifies(p, EAPResponse(p, FALSE)) /\ Verifies(p, EAPResponse(p, TRUE))
    BY EAPVerifies
  <2>5. p.len = "short" => ~ hasEAPAttributes(p)
    BY <1>1, RequestWhole DEF hasEAPAttributes, Has, HasReadable, Readable
  <2> QED
    BY <2>1, <2>3, <2>4, <2>5 DEF Answer
<1>2. SystemInv => ResponseVerifies
  BY <1>1 DEF ResponseVerifies
<1> QED
  BY <1>2, SystemInvariance, PTL
=============================================================================
