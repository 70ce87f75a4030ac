---------------------------- MODULE MCEapSystem ----------------------------
(* The EAP server with its clients, on small instances. *)
EXTENDS EapSystem, TLC

CONSTANTS a1, a2, h1, h2, p1, p2, u1, no_admin, nobody

\* A handshake of two client flights.  The server's first flight takes three
\* EAP packets; the client's last is answered with one (TLS 1.2) or with nothing
\* at all (TLS 1.3).  A handshake with a HelloRetryRequest has one client flight
\* more, here with two long flights in answer.
AnswerTLS12 == <<3, 1>>
AnswerRetry == <<3, 2, 1>>
AnswerTLS13 == <<3, 0>>

\* Every client has an address of its own, or all share the NAS's socket.  The
\* identifiers of one that goes through a handshake do not meet the other's.
AddrOwn    == p1 :> a1 @@ p2 :> a2
AddrFirst  == p1 :> a1
AddrNas    == p1 :> a1 @@ p2 :> a1
FirstIds   == p1 :> 254 @@ p2 :> 100
FirstIdOne == p1 :> 254
FirstIdBoth == p1 :> 254 @@ p2 :> 254
IdsTwo     == {254, 255} \cup 0 .. 6 \cup 100 .. 106
============================================================================
