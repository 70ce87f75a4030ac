------------------------------ MODULE RadiusEap ------------------------------
(***************************************************************************)
(* The whole RADIUS server: the listener of module RadiusServer and, for   *)
(* the packets it passes on to handleEAP, the sessions, handlers and       *)
(* engines of module EapServer.                                            *)
(*                                                                         *)
(* A goroutine of RadiusServer whose pc is "eap" is the handler of the     *)
(* same name here: it has not entered handleEAP as long as the handler is  *)
(* idle, and returns with it.  The EAP attribute of a packet carries the   *)
(* EAP request of module EapServer.                                        *)
(***************************************************************************)
EXTENDS EapServer

CONSTANTS
    Secret,      \* the server's shared secret
    Denied,      \* the user names that start with no_
    Duplicates,  \* the addresses whose datagrams may be delivered again
    Datagrams,   \* what may be sent to the server
    MaxSent      \* bound: datagrams sent

ASSUME SentAssumption == MaxSent \in Nat

VARIABLES
    main, signalled, wire, from, buffer, responses,  \* as in RadiusServer
    stage,      \* its pc
    sent,       \* every datagram sent
    delivered   \* number of datagrams read from the socket, for MaxPackets

R == INSTANCE RadiusServer WITH pc <- stage

\* Is there an EAP-Message that can be read?
HasEap(p) == R!HasReadable(p, "eap")

\* The address in an EAP request is where its datagram comes from.
EapRequest(d) == [R!First(d.packet, "eap").request EXCEPT !.addr = d.from]

ASSUME DatagramsAssumption ==
    \A d \in Datagrams :
        /\ d.from \in Addrs /\ d.packet.len = "ok"
        /\ HasEap(d.packet) =>
              /\ EapRequest(d) \in Request
              /\ EapRequest(d).kind = R!First(d.packet, "eap").message

listenerVars == <<main, signalled, wire, stage, from, buffer, responses>>
ghostVars    == <<sent, delivered>>
allVars      == <<vars, listenerVars, ghostVars>>

FullInit == Init /\ R!ServerInit /\ sent = {} /\ delivered = 0

-----------------------------------------------------------------------------
(* The listener. *)

SendDatagram ==
    /\ Cardinality(sent) < MaxSent
    /\ \E d \in Datagrams \ sent : sent' = sent \cup {d} /\ wire' = wire \cup {d}
    /\ UNCHANGED <<vars, main, signalled, stage, from, buffer, responses, delivered>>

ReceiveDatagram(h) ==
    /\ delivered < MaxPackets
    /\ R!Receive(h)
    /\ delivered' = delivered + 1
    /\ UNCHANGED <<vars, sent>>

\* A datagram that is never read has been lost.
MainLoop ==
    /\ R!ReadTimeout \/ R!Signal
    /\ UNCHANGED <<vars, ghostVars>>

\* All of handlePacket but the call of handleEAP.
HandlePacket(h) ==
    /\ \/ R!Ignore(h) \/ R!Panic(h) \/ R!RejectForged(h)
       \/ R!Dispatch(h) \/ R!Serve(h)
    /\ UNCHANGED <<vars, ghostVars>>

-----------------------------------------------------------------------------
(* handleEAP. *)

Served(h) == [from |-> from[h], packet |-> R!Packet(h)]

\* No EAP-Message can be read: there is no session yet, and none is made.
EnterWithout(h) ==
    /\ stage[h] = "eap"
    /\ pc[h] = "idle"
    /\ ~ HasEap(R!Packet(h))
    /\ R!Drop(h)
    /\ UNCHANGED <<vars, ghostVars>>

Enter(h) ==
    /\ stage[h] = "eap"
    /\ HasEap(R!Packet(h))
    /\ Receive(h, EapRequest(Served(h)))
    /\ UNCHANGED <<listenerVars, ghostVars>>

\* The handler goes on; when it ends, so does the goroutine: with the response
\* it sends, or without one.
HandlerGoesOn(h) ==
    /\ HandlerStep(h)
    /\ IF pc'[h] # "idle"
       THEN UNCHANGED listenerVars
       ELSE IF pc[h] = "send"
       THEN R!Respond(h, R!EAPResponse(R!Packet(h), reply[h].kind = "success"))
       ELSE R!Drop(h)
    /\ UNCHANGED ghostVars

EngineGoesOn ==
    /\ \E a \in Addrs, h \in Handlers : EngineStep(a, h)
    /\ UNCHANGED <<listenerVars, ghostVars>>

Goroutine(h) == HandlePacket(h) \/ EnterWithout(h) \/ Enter(h) \/ HandlerGoesOn(h)

FullNext ==
    \/ SendDatagram
    \/ MainLoop
    \/ EngineGoesOn
    \/ \E h \in Handlers : ReceiveDatagram(h) \/ Goroutine(h)

FullSpec == FullInit /\ [][FullNext]_allVars

\* A goroutine that can go on does, while the process lives.
FullFairSpec ==
    FullSpec /\ \A h \in Handlers : WF_allVars(main = "reading" /\ Goroutine(h))

-----------------------------------------------------------------------------
(* Properties *)

\* With its sessions and the goroutines of crypto/tls put in, the server is
\* still the one of module RadiusServer: at most one response to a datagram,
\* an Identity answered with a challenge, a TTLS packet with a challenge, a
\* success or nothing, anything else not at all.
ImplementsRadiusServer == R!ServerSpec

\* d is a TTLS packet whose authenticator is good, or that has none.
GoodTtls(d) ==
    /\ ~ R!Forged(d.packet)
    /\ HasEap(d.packet)
    /\ EapRequest(d).kind = "ttls"

\* The flights of address a that its engines have consumed.
Consumed(a) == UNION {1 .. engine[a][h].expects - 1 : h \in Handlers}

Waiting(a) ==
    {tlsIn[a][i] : i \in DOMAIN tlsIn[a]}
      \cup UNION {{engine[a][h].raw[i] : i \in DOMAIN engine[a][h].raw} : h \in Handlers}

\* Nothing gets to the TLS session of an address but what came from it in a
\* packet whose Message-Authenticator, if it had one, was good: the packet is
\* validated and used by a goroutine that shares its session with others.
OnlyVerifiedFeedTls ==
    \A a \in Addrs : \A k \in Consumed(a) \cup Waiting(a) :
        \E d \in sent : d.from = a /\ GoodTtls(d) /\ EapRequest(d).data = <<k>>

\* An Access-Accept with EAP-Success goes to an address whose handshake is
\* complete, and verifies against a TTLS packet of that address that was not
\* forged: however long its handler has waited, it answers the packet that it
\* was started for, and not one of another kind that has come in since.
AdmittedByVerified ==
    \A r \in responses :
        /\ r.packet.code = R!AccessAccept
        /\ \E i \in DOMAIN r.packet.attrs : r.packet.attrs[i].type = "eap"
        =>
            /\ \E h \in Handlers : Completed(r.to, h)
            /\ \E d \in sent :
                  d.from = r.to /\ GoodTtls(d) /\ R!Verifies(d.packet, r.packet)

\* Every goroutine started for a datagram ends, or the process does, though
\* handleTLSHandshake waits for an engine that others feed and drain.
GoroutinesEnd ==
    \A h \in Handlers : stage[h] # "idle" ~> stage[h] = "idle" \/ main # "reading"
=============================================================================
