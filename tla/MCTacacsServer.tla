--------------------------- MODULE MCTacacsServer ---------------------------
(* The TACACS+ server by itself. *)
EXTENDS TacacsServer, TLC

CONSTANTS c1, s1, s2, good, bad, alice, no_admin, empty, arg

Base == [version |-> "v12", type |-> "authen", seq |-> 255, session |-> s1,
         single |-> TRUE, clear |-> FALSE, secret |-> good,
         body |-> [kind |-> "start", user |-> no_admin, ascii |-> TRUE]]

\* An ASCII login that does not name its user, and the CONTINUE that answers the
\* question for the name; a packet of another version.
Dialogue ==
    {[Base EXCEPT !.seq = 1, !.body.user = empty],
     [Base EXCEPT !.seq = 3, !.body = [kind |-> "continue"]],
     [Base EXCEPT !.version = "other"]}

ArgLists == {<< >>, << arg >>}
=============================================================================
