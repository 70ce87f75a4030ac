--------------------------- MODULE MCTacacsSystem ---------------------------
(* The TACACS+ server, one client that sends what it likes on a single      *)
(* connection, and one run of the command-line client.                      *)
EXTENDS TacacsSystem, TLC

CONSTANTS c1, c2, s1, s2, good, bad, alice, no_admin, empty, arg

Base == [version |-> "v12", type |-> "authen", seq |-> 255, session |-> s1,
         single |-> TRUE, clear |-> FALSE, secret |-> good,
         body |-> [kind |-> "start", user |-> no_admin, ascii |-> TRUE]]

\* What the other client may send besides the START of a run of this client: a
\* login without a name, the CONTINUE with one, and an authorization, in a single
\* connection.
Others ==
    {[Base EXCEPT !.seq = 1, !.body.user = empty],
     [Base EXCEPT !.seq = 3, !.body = [kind |-> "continue"]],
     [Base EXCEPT !.type = "author",
                  !.body = [kind |-> "author", user |-> no_admin, args |-> << arg >>]]}

\* What is typed: the right secret for every user, the wrong one for one.
Typed == [secret : {good}, user : {alice, no_admin}]
           \cup [secret : {bad}, user : {alice}]

Starts == {Start(t) : t \in Typed}

AllRequests == Others \cup Starts

ArgLists == {<< >>, << arg >>}
=============================================================================
