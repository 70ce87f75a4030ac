----------------------------- MODULE TacacsSystem -----------------------------
(***************************************************************************)
(* The TACACS+ server together with runs of the command-line client        *)
(* (cmd/cli/tacacs_client.go): each dials the server, sends one START and  *)
(* waits for one reply, with no deadline.  Other clients send what they    *)
(* like on the other connections, and Close may be called at any moment.   *)
(*                                                                         *)
(* That the octets the client writes are read by the server as the START   *)
(* meant here is the subject of module WireFormats.                        *)
(***************************************************************************)
EXTENDS TacacsServer

CONSTANTS
    Cli,         \* the connections of runs of the command-line client
    CliSession,  \* 1001, the session identifier of all of them
    Inputs       \* the secrets and user names that are typed, neither empty

VARIABLES cli    \* the runs

cliVars == <<vars, cli>>

ASSUME CliAssumption == Cli \subseteq Conns /\ CliSession \in Sessions
ASSUME InputsAssumption ==
    Inputs \subseteq [secret : {Secret, OtherSecret}, user : Users]

Answers == Status \cup {"unknown", "error"}

Run == [pc : {"dial", "write", "read", "done"}, input : Inputs,
        shown : Answers \cup {"none"}]

\* The only packet of a run.
Start(input) ==
    [version |-> "v12", type |-> "authen", seq |-> 1, session |-> CliSession,
     single |-> FALSE, clear |-> FALSE, secret |-> input.secret,
     body |-> [kind |-> "start", user |-> input.user, ascii |-> TRUE]]

ASSUME StartAssumption == \A input \in Inputs : Start(input) \in Requests

CliTypeOK == TypeOK /\ cli \in [Cli -> Run]

CliInit ==
    /\ Init
    /\ cli \in [Cli -> [pc : {"dial"}, input : Inputs, shown : {"none"}]]

-----------------------------------------------------------------------------
\* A run ends: conn.Close is deferred, and the result is printed.
Return(c, shown) ==
    /\ eof' = [eof EXCEPT ![c] = TRUE]
    /\ cli' = [cli EXCEPT ![c] = [@ EXCEPT !.pc = "done", !.shown = shown]]

Dial(c) ==
    /\ cli[c].pc = "dial"
    /\ Connect(c)
    /\ cli' = [cli EXCEPT ![c].pc = "write"]

\* Mutant: conn.Close is deferred before the error is tested.
DialErrorDeferred(c) ==
    /\ cli[c].pc = "dial"
    /\ Return(c, "error")
    /\ UNCHANGED <<serverVars, conn, inbox, sent, got>>

\* Nobody listens, or nobody answers within three seconds.
DialError(c) ==
    /\ cli[c].pc = "dial"
    /\ cli' = [cli EXCEPT ![c].pc = "done", ![c].shown = "error"]
    /\ UNCHANGED vars

WriteStart(c) ==
    /\ cli[c].pc = "write"
    /\ SendRequest(c, Start(cli[c].input))
    /\ cli' = [cli EXCEPT ![c].pc = "read"]

\* What the client takes the status of p to be.
Read(run, p) ==
    IF p.clear \/ run.input.secret = Secret THEN {p.status} ELSE Answers

ReadReply(c) ==
    /\ cli[c].pc = "read"
    /\ got[c] # << >>
    /\ \E shown \in Read(cli[c], Head(got[c])) : Return(c, shown)
    /\ UNCHANGED <<serverVars, conn, inbox, sent, got>>

\* The stream ends before a reply: the server has closed the connection, or
\* its listener with the connection still in the backlog.
ReadError(c) ==
    /\ cli[c].pc = "read"
    /\ got[c] = << >>
    /\ conn[c].pc = "closed" \/ (conn[c].pc = "backlog" /\ socket = "closed")
    /\ Return(c, "error")
    /\ UNCHANGED <<serverVars, conn, inbox, sent, got>>

Await(c) == ReadReply(c) \/ ReadError(c)

RunCli(c) == Dial(c) \/ DialError(c) \/ WriteStart(c) \/ Await(c)

ServerStep ==
    /\ ListenAndServe \/ SetClosed \/ CloseReturns \/ \E c \in Conns : Serve(c)
    /\ UNCHANGED cli

OtherClient ==
    /\ \E c \in Conns \ Cli : Client(c)
    /\ UNCHANGED cli

CliNext == ServerStep \/ OtherClient \/ \E c \in Cli : RunCli(c)

CliSpec == CliInit /\ [][CliNext]_cliVars

\* The client writes as soon as it is connected, and reads as soon as there is
\* something to read; the rest is as in TacacsServer.
CliFairSpec ==
    /\ CliSpec /\ Fairness
    /\ \A c \in Cli : WF_cliVars(WriteStart(c)) /\ WF_cliVars(Await(c))

-----------------------------------------------------------------------------
(* Properties *)

\* The command-line client is one of the clients that module TacacsServer
\* allows: what is shown there of the server holds here.
ImplementsServer == Spec

Due(user) == IF user \in Denied THEN "fail" ELSE "pass"

\* A run with the right secret prints the verdict its user is due, and an error
\* only if the server never took its connection: not when Close is called while
\* it waits, and not whatever other clients do.
VerdictShown ==
    \A c \in Cli :
        cli[c].pc = "done" /\ cli[c].input.secret = Secret =>
            \/ cli[c].shown = Due(cli[c].input.user)
            \/ cli[c].shown = "error" /\ conn[c].pc \in {"none", "backlog"}

\* The listening socket, once closed, is not opened again.
ListenerInv ==
    /\ listener \/ socket = "closed" => listening \notin {"listen", "assign"}
    /\ closing = "close" => listener

\* Where a run is, and what it has sent; what the server has for it, if it can
\* read it.
RunInv(c) ==
    LET run == cli[c] IN
    /\ run.pc = "dial" => conn[c].pc = "none"
    /\ run.pc \in {"write", "read"} => conn[c].pc # "none"
    /\ run.pc \in {"dial", "write"} => sent[c] = << >>
    /\ run.pc = "read" => sent[c] = << Start(run.input) >>
    /\ run.pc # "done" => ~ eof[c]
    /\ run.pc # "done" /\ run.input.secret = Secret =>
          /\ conn[c].pc = "write" => conn[c].reply.status = Due(run.input.user)
          /\ conn[c].pc = "closed" => got[c] # << >>
          /\ got[c] # << >> => got[c][1].status = Due(run.input.user)

\* A run that has failed stays without a connection.
FailedInv(c) ==
    cli[c].pc = "done" /\ cli[c].input.secret = Secret =>
        \/ cli[c].shown = Due(cli[c].input.user)
        \/ cli[c].shown = "error" /\ conn[c].pc = "none"
        \/ cli[c].shown = "error" /\ conn[c].pc = "backlog" /\ socket = "closed"

CliInv ==
    /\ CliTypeOK
    /\ ListenerInv
    /\ \A c \in Cli : RunInv(c) /\ FailedInv(c)

\* A run never waits for ever once the server has taken its connection or has
\* closed its listener, though the client sets no deadline and the server may
\* make nothing of what it sent: whatever it cannot read, it closes.
CliEnds ==
    \A c \in Cli :
        /\ cli[c].pc \in {"write", "read"}
        /\ conn[c].pc \notin {"none", "backlog"} \/ socket = "closed"
        ~> cli[c].pc = "done"
=============================================================================
