--------------------------- MODULE EapConversation ---------------------------
(***************************************************************************)
(* What the EAP server promises, without packets, buffers and goroutines:  *)
(* every client address may have runs of the TLS handshake; a run answers  *)
(* the client flights one by one; only a run that has been through all of  *)
(* them makes its address authenticated; and only an authenticated address *)
(* is ever admitted.                                                       *)
(***************************************************************************)
EXTENDS Naturals

CONSTANTS
    Addrs,     \* client addresses
    Runs,      \* names for the runs of the handshake at one address
    Rounds     \* client flights in a handshake

VARIABLES
    started,        \* started[a]: the runs begun for a
    progress,       \* progress[a][h]: flights of a that run h has answered
    authenticated,  \* addresses with a complete run
    admitted        \* addresses that were sent an Access-Accept

vars == <<started, progress, authenticated, admitted>>

Init ==
    /\ started = [a \in Addrs |-> {}]
    /\ progress = [a \in Addrs |-> [h \in Runs |-> 0]]
    /\ authenticated = {}
    /\ admitted = {}

\* A run begins once.
Start(a, h) ==
    /\ h \notin started[a]
    /\ started' = [started EXCEPT ![a] = @ \cup {h}]
    /\ UNCHANGED <<progress, authenticated, admitted>>

Advance(a, h) ==
    /\ h \in started[a]
    /\ progress[a][h] < Rounds
    /\ progress' = [progress EXCEPT ![a][h] = @ + 1]
    /\ UNCHANGED <<started, authenticated, admitted>>

Complete(a, h) ==
    /\ h \in started[a]
    /\ progress[a][h] = Rounds
    /\ authenticated' = authenticated \cup {a}
    /\ UNCHANGED <<started, progress, admitted>>

Admit(a) ==
    /\ a \in authenticated
    /\ admitted' = admitted \cup {a}
    /\ UNCHANGED <<started, progress, authenticated>>

Next ==
    \E a \in Addrs :
        \/ Admit(a)
        \/ \E h \in Runs : Start(a, h) \/ Advance(a, h) \/ Complete(a, h)

Spec == Init /\ [][Next]_vars
=============================================================================
