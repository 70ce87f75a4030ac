------------------------------ MODULE EapSystem ------------------------------
(***************************************************************************)
(* The EAP server with its clients: supplicants that go through EAP-TTLS   *)
(* in lock-step, as RFC 3748 and RFC 5281 want it, each behind a NAS that  *)
(* may send a request again while it has no answer.  Requests and          *)
(* responses may be delayed and overtake one another.  Supplicants that    *)
(* use the same NAS socket have the same source address.                   *)
(*                                                                         *)
(* The clients are not part of the repository.  They are modelled from     *)
(* what handleEAP and handleTLSHandshake expect of them.                   *)
(***************************************************************************)
EXTENDS EapServer, SequencesExt

CONSTANTS
    Peers,        \* the supplicants
    AddrOf,       \* AddrOf[p]: the source address p's requests come from
    FirstId,      \* FirstId[p]: the EAP identifier of p's EAP-Identity
    Denied,       \* the users whose name starts with no_
    Retransmits   \* bound: requests sent again, by all clients together

ASSUME AddrOfAssumption == AddrOf \in [Peers -> Addrs]
ASSUME FirstIdAssumption == FirstId \in [Peers -> Ids]
ASSUME RetransmitsAssumption == Retransmits \in Nat

VARIABLES
    peer,         \* the supplicants
    wire,         \* requests under way to the server
    copies        \* requests sent again so far

peerVars   == <<peer, wire, copies>>
systemVars == <<vars, peerVars>>

-----------------------------------------------------------------------------
\* sent: the last flight sent.  stream: the TLS bytes received.  pending: the
\* request the client waits to see answered.
Peer == [phase : {"idle", "identity", "tls", "accepted", "failed"},
         sent : 0 .. Tunnelled, stream : Seq(Cell), pending : Request \cup {None}]

SystemTypeOK ==
    /\ peer \in [Peers -> Peer]
    /\ wire \in SUBSET Request
    /\ copies \in 0 .. Retransmits

SystemInit ==
    /\ Init
    /\ peer = [p \in Peers |-> [phase |-> "idle", sent |-> 0, stream |-> << >>,
                                pending |-> None]]
    /\ wire = {}
    /\ copies = 0

\* All that the server has to say up to and with its answer to flight n.
Stream(n) == FlattenSeq([k \in 1 .. n |-> IF k \in DOMAIN Answer THEN Cells(k) ELSE << >>])

TTLS(p, i, d) == [kind |-> "ttls", addr |-> AddrOf[p], id |-> i, data |-> d]

\* Client p goes on to state s and sends the request s waits to see answered.
Transmit(p, s) ==
    /\ peer' = [peer EXCEPT ![p] = s]
    /\ wire' = wire \cup {s.pending}
    /\ UNCHANGED <<copies, vars>>

Stop(p, ph) ==
    /\ peer' = [peer EXCEPT ![p].phase = ph, ![p].pending = None]
    /\ UNCHANGED <<wire, copies, vars>>

PeerStart(p) ==
    /\ peer[p].phase = "idle"
    /\ \E u \in Users :
          Transmit(p, [peer[p] EXCEPT !.phase = "identity",
                !.pending = [kind |-> "identity", addr |-> AddrOf[p], id |-> FirstId[p],
                             user |-> u]])

\* A response is paired with the request it answers; any other is dropped.
Answered(p, r) ==
    /\ peer[p].pending # None
    /\ r \in replies
    /\ r.addr = AddrOf[p]
    /\ r.id = peer[p].pending.id

PeerOnStart(p, r) ==
    /\ Answered(p, r)
    /\ r.kind = "start"
    /\ Transmit(p, [peer[p] EXCEPT !.phase = "tls", !.sent = 1,
                                   !.pending = TTLS(p, ReplyId(r), << 1 >>)])

\* A fragment with the M bit is acknowledged with an empty packet.
PeerOnFragment(p, r) ==
    /\ Answered(p, r)
    /\ r.kind = "fragment"
    /\ r.more
    /\ Transmit(p, [peer[p] EXCEPT !.stream = @ \o r.cells,
                                   !.pending = TTLS(p, ReplyId(r), << >>)])

\* After the last fragment the TLS client has the whole answer to its flight
\* and sends the next, or finds the bytes to be no TLS.
PeerOnFlight(p, r) ==
    LET got == peer[p].stream \o r.cells IN
    /\ Answered(p, r)
    /\ r.kind = "fragment"
    /\ ~ r.more
    /\ IF got = Stream(peer[p].sent) /\ peer[p].sent < Tunnelled
       THEN Transmit(p, [peer[p] EXCEPT !.stream = got, !.sent = @ + 1,
                                        !.pending = TTLS(p, ReplyId(r), << peer[p].sent + 1 >>)])
       ELSE Stop(p, "failed")

PeerOnSuccess(p, r) ==
    /\ Answered(p, r)
    /\ r.kind = "success"
    /\ Stop(p, "accepted")

\* The NAS sends the pending request once more.
Retransmit(p) ==
    /\ peer[p].pending # None
    /\ copies < Retransmits
    /\ wire' = wire \cup {peer[p].pending}
    /\ copies' = copies + 1
    /\ UNCHANGED <<peer, vars>>

Deliver(r) ==
    /\ wire' = wire \ {r}
    /\ \E h \in Handlers : Receive(h, r)
    /\ UNCHANGED <<peer, copies>>

PeerReceives(p) ==
    \E r \in replies :
        \/ PeerOnStart(p, r)
        \/ PeerOnFragment(p, r)
        \/ PeerOnFlight(p, r)
        \/ PeerOnSuccess(p, r)

DeliverFrom(a) == \E r \in wire : r.addr = a /\ Deliver(r)

SystemNext ==
    \/ Server /\ UNCHANGED peerVars
    \/ \E p \in Peers : PeerStart(p) \/ PeerReceives(p) \/ Retransmit(p)
    \/ \E a \in Addrs : DeliverFrom(a)

SystemSpec == SystemInit /\ [][SystemNext]_systemVars

\* Nothing is lost for good, and clients go on as long as they are answered.
SystemFairness ==
    /\ \A h \in Handlers : WF_systemVars(HandlerStep(h) /\ UNCHANGED peerVars)
    /\ \A a \in Addrs, h \in Handlers : WF_systemVars(EngineStep(a, h) /\ UNCHANGED peerVars)
    /\ \A p \in Peers : WF_systemVars(PeerStart(p)) /\ WF_systemVars(PeerReceives(p))
    /\ \A a \in Addrs : WF_systemVars(DeliverFrom(a))

FairSystemSpec == SystemSpec /\ SystemFairness

-----------------------------------------------------------------------------
(* Properties *)

\* A client that gets the answer to each flight, fragment by fragment, has got
\* what the TLS engine wrote, all of it, in order, once: no chunk is skipped,
\* sent twice, cut off by Reset() or mixed with a later flight.
StreamIntact == \A p \in Peers : peer[p].phase # "failed"

\* The fragment r has a TLS Message Length if it opens the answer to the client's
\* first flight and others follow, and then it is the length of that answer.
Announced(r) ==
    r.kind = "fragment" =>
        /\ r.first <=> r.more /\ r.cells[1] = <<1, 1>>
        /\ r.first => r.total = Answer[1]

\* The TLS Message Length stands on the first fragment of the server's first
\* flight, if that takes several (main.go:710), and nowhere else.  Later long
\* flights go without, since State is never 2 again.
AnnouncedLength == \A r \in replies : Announced(r)

\* A client is accepted only when it has itself sent every flight of the
\* handshake and seen the server's answers to all but the last: what other
\* clients do, and what is sent twice, opens no other way.
AcceptedPeerTookPart ==
    \A p \in Peers : peer[p].phase = "accepted" =>
        /\ peer[p].sent >= Len(Answer)
        /\ IsPrefix(Stream(Len(Answer) - 1), peer[p].stream)

\* A client flight that the TLS engine answers is answered to the client, in
\* full or by EAP-Success.
FlightAnswered ==
    \A p \in Peers, k \in DOMAIN Answer :
        peer[p].sent = k /\ Answer[k] > 0 ~>
            peer[p].sent > k \/ peer[p].phase = "accepted"

-----------------------------------------------------------------------------
(* What the program's own words say of it, and the program does not do. *)

\* main.go:667: "If this is the first data packet, start the TLS server".
OneEnginePerSession ==
    \A a \in Addrs, g, h \in Handlers :
        engine[a][g].pc # "off" /\ engine[a][h].pc # "off" => g = h

\* main.go:741: "If the TLS handshake completed and authenticated, send
\* EAP-Success".
SuccessIsSent ==
    \A a \in Addrs : auth[a] ~> \E r \in replies : r.kind = "success" /\ r.addr = a

\* README.md:132: users no_* get Access-Reject.
DeniedUsersRejected ==
    \A r \in replies : Code(r) = "Access-Accept" => username[r.addr] \notin Denied
=============================================================================
