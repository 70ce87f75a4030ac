---------------------------- MODULE MCEapServer ----------------------------
(* The EAP server in an open environment, on small instances. *)
EXTENDS EapServer, TLC

CONSTANTS a1, a2, h1, h2, u1, nobody

\* Two client flights.  The server answers the ClientHello with a flight that
\* takes two EAP packets, and the client's last flight with one (TLS 1.2).
AnswerTLS12 == <<2, 1>>

\* Handlers are interchangeable, and so are clients.
Symmetry == Permutations(Handlers) \cup Permutations(Addrs)
=============================================================================
