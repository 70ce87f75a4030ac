----------------------------- MODULE TacacsServer -----------------------------
(***************************************************************************)
(* The TACACS+ server of pkg/tacacs: ListenAndServe accepts connections,   *)
(* one goroutine serves each of them request by request, and Close may be  *)
(* called at any moment from another goroutine.                            *)
(*                                                                         *)
(* A TCP connection is a FIFO each way that may be closed by the client at *)
(* any time, in the middle of a packet too, which is to the server what    *)
(* closing before that packet is.  A body is what it says: encrypted with  *)
(* a secret it reads back under that secret only, and under another one,   *)
(* or as another kind of body than it is, it may be taken for anything.    *)
(***************************************************************************)
EXTENDS Integers, Sequences

CONSTANTS
    Conns,        \* TCP connections
    Secret,       \* the server's shared secret
    OtherSecret,  \* another one
    Sessions,     \* session identifiers
    Users,        \* user names
    NoName,       \* the empty user name
    Denied,       \* the user names that start with no_
    Args,         \* lists of authorization arguments
    Requests,     \* the packets that clients send
    MaxRequests   \* bound: packets sent on one connection

\* "continue" is the body of an authentication CONTINUE packet, "short" any body
\* that is too short for the lengths that its packet's type has in it.
Body == [kind : {"start"}, user : Users \cup {NoName}, ascii : BOOLEAN]
          \cup [kind : {"author"}, user : Users \cup {NoName}, args : Args]
          \cup [kind : {"continue", "short"}]

Request == [version : {"v12", "other"}, type : {"authen", "author", "acct"},
            seq : 0 .. 255, session : Sessions, single : BOOLEAN, clear : BOOLEAN,
            secret : {Secret, OtherSecret}, body : Body]

Status == {"pass", "fail", "getuser", "pass_add"}

Reply == [type : {"authen", "author"}, seq : 0 .. 255, session : Sessions,
          single : BOOLEAN, clear : BOOLEAN, status : Status, args : Args]

ASSUME RequestsAssumption == Requests \subseteq Request
ASSUME DeniedAssumption == Denied \subseteq Users /\ NoName \notin Users
ASSUME ArgsAssumption == << >> \in Args
ASSUME BoundAssumption == MaxRequests \in Nat

VARIABLES
    listening,    \* where ListenAndServe is
    closing,      \* where Close is
    closed,       \* Server.closed
    listener,     \* Server.listener # nil
    socket,       \* the listening socket
    conn,         \* the server's side of each connection
    inbox,        \* packets a client has sent that are not read yet
    eof,          \* has the client closed its side?
    sent,         \* every packet a client has sent
    got           \* every reply a client was sent

serverVars == <<listening, closing, closed, listener, socket>>
clientVars == <<inbox, eof, sent, got>>
vars       == <<serverVars, conn, clientVars>>

NoReply == [status |-> "none"]

Conn == [pc : {"none", "backlog", "read", "write", "closed"},
         single : BOOLEAN, reply : Reply \cup {NoReply}]

TypeOK ==
    /\ listening \in {"listen", "assign", "accept", "check", "returned"}
    /\ closing \in {"idle", "test", "close", "returned"}
    /\ closed \in BOOLEAN
    /\ listener \in BOOLEAN
    /\ socket \in {"none", "open", "closed"}
    /\ conn \in [Conns -> Conn]
    /\ inbox \in [Conns -> Seq(Requests)]
    /\ eof \in [Conns -> BOOLEAN]
    /\ sent \in [Conns -> Seq(Requests)]
    /\ got \in [Conns -> Seq(Reply)]

Init ==
    /\ listening = "listen"
    /\ closing = "idle"
    /\ closed = FALSE
    /\ listener = FALSE
    /\ socket = "none"
    /\ conn = [c \in Conns |-> [pc |-> "none", single |-> FALSE, reply |-> NoReply]]
    /\ inbox = [c \in Conns |-> << >>]
    /\ eof = [c \in Conns |-> FALSE]
    /\ sent = [c \in Conns |-> << >>]
    /\ got = [c \in Conns |-> << >>]

-----------------------------------------------------------------------------
(* ListenAndServe *)

Listen ==
    /\ listening = "listen"
    /\ \/ socket' = "open" /\ listening' = "assign"
       \/ socket' = socket /\ listening' = "returned"
    /\ UNCHANGED <<closing, closed, listener, conn, clientVars>>

\* The field is written without the mutex.
AssignListener ==
    /\ listening = "assign"
    /\ listener' = TRUE
    /\ listening' = "accept"
    /\ UNCHANGED <<closing, closed, socket, conn, clientVars>>

Accept(c) ==
    /\ listening = "accept"
    /\ socket = "open"
    /\ conn[c].pc = "backlog"
    /\ conn' = [conn EXCEPT ![c].pc = "read"]
    /\ UNCHANGED <<serverVars, clientVars>>

\* Accept fails for good when the socket is closed, and may fail any time.
AcceptError ==
    /\ listening = "accept"
    /\ listening' = "check"
    /\ UNCHANGED <<closing, closed, listener, socket, conn, clientVars>>

\* An error is the end only if the server was told to close.
CheckClosed ==
    /\ listening = "check"
    /\ listening' = IF closed THEN "returned" ELSE "accept"
    /\ UNCHANGED <<closing, closed, listener, socket, conn, clientVars>>

-----------------------------------------------------------------------------
(* Close *)

\* Mutant: Close only closes the socket.
SetClosedNot ==
    /\ closing = "idle"
    /\ closing' = "test"
    /\ UNCHANGED <<listening, closed, listener, socket, conn, clientVars>>

SetClosed ==
    /\ closing = "idle"
    /\ closed' = TRUE
    /\ closing' = "test"
    /\ UNCHANGED <<listening, listener, socket, conn, clientVars>>

\* The field is read without the mutex.
TestListener ==
    /\ closing = "test"
    /\ closing' = IF listener THEN "close" ELSE "returned"
    /\ UNCHANGED <<listening, closed, listener, socket, conn, clientVars>>

CloseListener ==
    /\ closing = "close"
    /\ socket' = "closed"
    /\ closing' = "returned"
    /\ UNCHANGED <<listening, closed, listener, conn, clientVars>>

-----------------------------------------------------------------------------
(* handleConnection *)

\* The kind of body that the code for a type of packet decodes, whatever it is
\* that the packet has.
Wanted(type) == IF type = "authen" THEN "start" ELSE "author"

\* Does the server read the body of r as it was meant?
Legible(r) == (r.clear \/ r.secret = Secret) /\ r.body.kind = Wanted(r.type)

\* What DecodeAuthenStart and DecodeAuthorRequest may make of the body of r.  One
\* of another kind, such as a CONTINUE, is taken for anything, as is one under
\* another secret.
Decoded(r) ==
    IF (r.clear \/ r.secret = Secret) /\ r.body.kind \in {Wanted(r.type), "short"}
    THEN {r.body}
    ELSE Body

\* SeqNo is a uint8.
SeqNo(n) == (n + 1) % 256

\* Mutant: only authentication knows the prefix.
ProcessAuthorRequestAll(b) == [status |-> "pass_add", args |-> b.args]

\* The arguments are mirrored.
ProcessAuthorRequest(b) ==
    IF b.user \in Denied THEN [status |-> "fail", args |-> << >>]
    ELSE [status |-> "pass_add", args |-> b.args]

ProcessAuthenStart(b) ==
    [status |-> IF b.user \in Denied THEN "fail"
                ELSE IF b.user = NoName /\ b.ascii THEN "getuser"
                ELSE "pass",
     args |-> << >>]

\* The replies the server may give to r; none if it gives up on the connection.
Replies(r) ==
    IF r.version # "v12" THEN {}
    ELSE LET verdicts ==
               CASE r.type = "authen" ->
                      {ProcessAuthenStart(b) : b \in {d \in Decoded(r) : d.kind = "start"}}
                 [] r.type = "author" ->
                      {ProcessAuthorRequest(b) : b \in {d \in Decoded(r) : d.kind = "author"}}
                 [] OTHER -> {}
         IN  {[type |-> r.type, seq |-> SeqNo(r.seq), session |-> r.session,
               single |-> r.single, clear |-> r.clear, status |-> v.status,
               args |-> v.args] : v \in verdicts}

\* Can the body of r fail to decode?
MayReject(r) ==
    \/ r.version # "v12" \/ r.type = "acct"
    \/ \E b \in Decoded(r) : b.kind # Wanted(r.type)

\* Mutant: what cannot be decoded is logged, and the next packet read.
ReadRequestLogging(c) ==
    LET r == Head(inbox[c]) IN
    /\ conn[c].pc = "read"
    /\ inbox[c] # << >>
    /\ inbox' = [inbox EXCEPT ![c] = Tail(@)]
    /\ \/ \E p \in Replies(r) :
             conn' = [conn EXCEPT ![c] = [pc |-> "write", single |-> r.single, reply |-> p]]
       \/ MayReject(r) /\ UNCHANGED conn
    /\ UNCHANGED <<serverVars, eof, sent, got>>

\* A packet is read, decrypted, decoded and processed: the goroutine touches
\* nothing shared until it writes the reply.
ReadRequest(c) ==
    LET r == Head(inbox[c]) IN
    /\ conn[c].pc = "read"
    /\ inbox[c] # << >>
    /\ inbox' = [inbox EXCEPT ![c] = Tail(@)]
    /\ \/ \E p \in Replies(r) :
             conn' = [conn EXCEPT ![c] = [pc |-> "write", single |-> r.single, reply |-> p]]
       \/ MayReject(r) /\ conn' = [conn EXCEPT ![c].pc = "closed"]
    /\ UNCHANGED <<serverVars, eof, sent, got>>

\* Mutant: the end of the stream is an error like any other to be logged.
ReadEndLogged(c) ==
    /\ conn[c].pc = "read" /\ inbox[c] = << >> /\ eof[c]
    /\ UNCHANGED vars

\* The end of the stream: io.EOF, or a header or body cut short.
ReadEnd(c) ==
    /\ conn[c].pc = "read"
    /\ inbox[c] = << >>
    /\ eof[c]
    /\ conn' = [conn EXCEPT ![c].pc = "closed"]
    /\ UNCHANGED <<serverVars, clientVars>>

\* Mutant: the connection is kept, as if every one were a single connection.
WriteReplyKeep(c) ==
    /\ conn[c].pc = "write"
    /\ got' = [got EXCEPT ![c] = Append(@, conn[c].reply)]
    /\ conn' = [conn EXCEPT ![c] = [@ EXCEPT !.pc = "read", !.reply = NoReply]]
    /\ UNCHANGED <<serverVars, inbox, eof, sent>>

\* Mutant: a connection that outlives Close is given up.
WriteReplyUnlessClosed(c) ==
    /\ conn[c].pc = "write"
    /\ \/ /\ ~ closed
          /\ got' = [got EXCEPT ![c] = Append(@, conn[c].reply)]
       \/ (eof[c] \/ closed) /\ UNCHANGED got
    /\ conn' = [conn EXCEPT ![c] = [@ EXCEPT !.pc = "closed", !.reply = NoReply]]
    /\ UNCHANGED <<serverVars, inbox, eof, sent>>

\* Without the single-connect flag, one request and reply is all.  The write
\* may fail if the client has gone.
WriteReply(c) ==
    /\ conn[c].pc = "write"
    /\ \/ /\ got' = [got EXCEPT ![c] = Append(@, conn[c].reply)]
          /\ conn' = [conn EXCEPT ![c] =
                        [@ EXCEPT !.pc = IF conn[c].single THEN "read" ELSE "closed",
                                  !.reply = NoReply]]
       \/ /\ eof[c]
          /\ conn' = [conn EXCEPT ![c] = [@ EXCEPT !.pc = "closed", !.reply = NoReply]]
          /\ UNCHANGED got
    /\ UNCHANGED <<serverVars, inbox, eof, sent>>

-----------------------------------------------------------------------------
(* Clients *)

Connect(c) ==
    /\ conn[c].pc = "none"
    /\ socket = "open"
    /\ conn' = [conn EXCEPT ![c].pc = "backlog"]
    /\ UNCHANGED <<serverVars, clientVars>>

\* Requests may be sent before earlier ones are answered.
SendRequest(c, r) ==
    /\ conn[c].pc # "none"
    /\ ~ eof[c]
    /\ Len(sent[c]) < MaxRequests
    /\ sent' = [sent EXCEPT ![c] = Append(@, r)]
    /\ inbox' = [inbox EXCEPT ![c] = Append(@, r)]
    /\ UNCHANGED <<serverVars, conn, eof, got>>

CloseConn(c) ==
    /\ conn[c].pc # "none"
    /\ ~ eof[c]
    /\ eof' = [eof EXCEPT ![c] = TRUE]
    /\ UNCHANGED <<serverVars, conn, inbox, sent, got>>

-----------------------------------------------------------------------------
Serve(c) == ReadRequest(c) \/ ReadEnd(c) \/ WriteReply(c)

ListenAndServe ==
    \/ Listen
    \/ AssignListener
    \/ \E c \in Conns : Accept(c)
    \/ AcceptError
    \/ CheckClosed

CloseReturns == TestListener \/ CloseListener

Client(c) ==
    \/ Connect(c)
    \/ CloseConn(c)
    \/ \E r \in Requests : SendRequest(c, r)

Next ==
    \/ ListenAndServe
    \/ SetClosed
    \/ CloseReturns
    \/ \E c \in Conns : Serve(c) \/ Client(c)

Spec == Init /\ [][Next]_vars

\* Goroutines that can run do run.  Whether Close is called, and what clients
\* do, is open.
Fairness ==
    /\ WF_vars(Listen) /\ WF_vars(AssignListener) /\ WF_vars(CheckClosed)
    /\ WF_vars(AcceptError /\ socket = "closed")
    /\ \A c \in Conns : WF_vars(Accept(c)) /\ WF_vars(Serve(c))
    /\ WF_vars(CloseReturns)

FairSpec == Spec /\ Fairness

-----------------------------------------------------------------------------
(* Properties *)

\* p is a right answer to r: of its session and type, numbered next, and, if the
\* server could read r as it was meant, the verdict its user is due (README.md,
\* Auth Behavior).  A CONTINUE gets the next number, too, and no more.
RightAnswer(r, p) ==
    /\ p.session = r.session /\ p.type = r.type
    /\ p.seq = (r.seq + 1) % 256
    /\ Legible(r) =>
          /\ p.status = "fail" <=> r.body.user \in Denied
          /\ p.status = "pass_add" => p.args = r.body.args

\* Replies come in the order of the requests on their connection, none is
\* skipped or given twice, however many requests a client sends ahead.
PairedReplies ==
    \A c \in Conns :
        /\ Len(got[c]) <= Len(sent[c])
        /\ \A i \in 1 .. Len(got[c]) : RightAnswer(sent[c][i], got[c][i])

\* A connection serves more than one request only as long as the client asks for
\* a single connection with each (server.go:197).
OneReplyUnlessSingle ==
    \A c \in Conns : \A i \in 1 .. Len(got[c]) - 1 : sent[c][i].single

\* How many of the packets sent on c have been read.
Taken(c) == Len(sent[c]) - Len(inbox[c])

\* The packets a client has sent are those read and, after them, those that
\* wait; those read are those answered and, after them, the one whose reply is
\* about to be written.
PairingInv ==
    \A c \in Conns :
        /\ Len(inbox[c]) <= Len(sent[c])
        /\ \A i \in 1 .. Len(inbox[c]) : inbox[c][i] = sent[c][Taken(c) + i]
        /\ Len(got[c]) <= Taken(c)
        /\ conn[c].pc \in {"none", "backlog", "read"} => Len(got[c]) = Taken(c)
        /\ conn[c].pc = "write" =>
              /\ Taken(c) = Len(got[c]) + 1
              /\ RightAnswer(sent[c][Taken(c)], conn[c].reply)
              /\ conn[c].reply \in Reply
              /\ conn[c].single = sent[c][Taken(c)].single
        /\ conn[c].pc # "closed" => \A i \in 1 .. Len(got[c]) : sent[c][i].single

\* A connection whose client has closed it is closed by the server, however much
\* was still to be read from it: no goroutine is left behind.
ConnectionEnds ==
    \A c \in Conns :
        conn[c].pc \in {"read", "write"} /\ eof[c] ~> conn[c].pc = "closed"

\* Close called when the listener is known ends ListenAndServe.
CloseStopsListener ==
    closing = "test" /\ listener ~> listening = "returned"

-----------------------------------------------------------------------------
(* What the program's own words say of it, and the program does not do. *)

\* server.go:62: "Close stops the TACACS+ server."
CloseStopsServer == closing = "returned" ~> listening = "returned"
=============================================================================
