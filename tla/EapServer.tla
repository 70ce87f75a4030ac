------------------------------ MODULE EapServer ------------------------------
(***************************************************************************)
(* The EAP-TTLS half of the RADIUS server: handleEAP, handleTLSHandshake   *)
(* and MemConn of cmd/server/main.go.                                      *)
(*                                                                         *)
(* Every UDP packet is served by a goroutine of its own (a handler), and   *)
(* every session has a goroutine that runs crypto/tls (an engine).  They   *)
(* share the EAPSession of the packet's source address, its two            *)
(* bytes.Buffers included, and only the lookup in the sessions map is done *)
(* under a lock.  So a handler takes one step for each access it makes to  *)
(* the session, and steps of different goroutines interleave freely.       *)
(*                                                                         *)
(* Data is abstracted as follows.  A client flight is its number; the      *)
(* bytes the engine writes are cells of chunkSize bytes, <<k, i>> being    *)
(* the i-th cell of the answer to client flight k.  The session's ID,      *)
(* Type, LastSeen and HandshakeDone are written but never read by the      *)
(* program, and are left out.                                              *)
(***************************************************************************)
EXTENDS Naturals, Sequences, FiniteSets

CONSTANTS
    Addrs,       \* source addresses (ip:port) packets come from
    Handlers,    \* slots for handler goroutines running at the same time
    Users,       \* user names an EAP-Identity may carry
    NoUser,      \* the zero value of EAPSession.Username
    Ids,         \* EAP identifiers in use, a subset of the byte values
    Answer,      \* Answer[k]: cells the TLS engine writes for client flight k
    SlowEngine,  \* may the engine need longer than the 2s a handler waits?
    MaxPackets   \* bound: packets the server ever receives

ASSUME HandlersAssumption == Handlers # {}
ASSUME AnswerAssumption   == Answer \in Seq(Nat) /\ Answer # << >>
ASSUME IdsAssumption      == Ids \subseteq 0 .. 255
ASSUME BoundAssumption    == MaxPackets \in Nat
ASSUME SlowAssumption     == SlowEngine \in BOOLEAN
ASSUME NoUserAssumption   == NoUser \notin Users

VARIABLES
    known,       \* is the address a key of the sessions map?
    state,       \* EAPSession.State
    username,    \* EAPSession.Username
    tlsIn,       \* EAPSession.TLSBufIn: client flights not read by an engine
    tlsOut,      \* EAPSession.TLSBufOut: cells not taken by a handler
    conn,        \* EAPSession.TLSConn # nil
    auth,        \* EAPSession.Authenticated
    engine,      \* engine[a][h]: the engine handler h started for address a
    pc,          \* where each handler is
    request,     \* the packet a handler serves
    output,      \* handleTLSHandshake's local: the bytes taken by Bytes()
    first,       \* handleTLSHandshake's local: the L flag is to be set
    reply,       \* the EAP packet a handler is about to send
    replies,     \* every RADIUS response sent so far
    received     \* number of packets received, for MaxPackets

sessionVars == <<known, state, username, tlsIn, tlsOut, conn, auth>>
handlerVars == <<pc, request, output, first, reply>>
netVars     == <<replies, received>>
vars        == <<sessionVars, engine, handlerVars, netVars>>

-----------------------------------------------------------------------------
\* The client flights of the handshake, and the tunnelled AVPs (the inner
\* authentication) that a client sends when its handshake is over.
Tunnelled == Len(Answer) + 1
Flights   == 1 .. Tunnelled

\* What the engine writes: its answer to client flight k, or a TLS alert.
Cells(k) == [i \in 1 .. Answer[k] |-> <<k, i>>]
Alert    == <<0, 0>>
Cell     == Nat \X Nat

\* An "other" packet is one for which the switch of handleEAP builds no
\* answer: an EAP-Request, another EAP type, a TTLS packet under 6 bytes.
Request == [kind : {"identity"}, addr : Addrs, id : Ids, user : Users]
             \cup [kind : {"ttls"}, addr : Addrs, id : Ids,
                   data : {<< >>} \cup {<<k>> : k \in Flights}]
             \cup [kind : {"other"}, addr : Addrs, id : Ids]

Reply == [kind : {"start", "success"}, addr : Addrs, id : Ids]
           \cup [kind : {"fragment"}, addr : Addrs, id : Ids, more : BOOLEAN,
                 first : BOOLEAN, total : Nat, cells : Seq(Cell)]

None == [kind |-> "none"]

\* RFC 3579 2.6.2: EAP-Success travels in Access-Accept, all else in a
\* challenge.
Code(r) == IF r.kind = "success" THEN "Access-Accept" ELSE "Access-Challenge"

\* Mutant: the sum is not cut to a byte.
ReplyIdWide(r) == r.id + 1

\* The byte eapID + 1 that every EAP packet of the server carries.
ReplyId(r) == (r.id + 1) % 256

Labels == {"idle", "switch", "conn", "start", "wait", "bytes", "more", "mark",
           "next", "last", "reset", "finish", "send"}

EngineLabels == {"off", "poll", "read", "run", "returned", "finished", "failed"}

Engine == [pc : EngineLabels, expects : Nat, raw : Seq(Flights)]

TypeOK ==
    /\ known \in [Addrs -> BOOLEAN]
    /\ state \in [Addrs -> {0, 1, 2, 3, 21}]
    /\ username \in [Addrs -> Users \cup {NoUser}]
    /\ tlsIn \in [Addrs -> Seq(Flights)]
    /\ tlsOut \in [Addrs -> Seq(Cell)]
    /\ conn \in [Addrs -> BOOLEAN]
    /\ auth \in [Addrs -> BOOLEAN]
    /\ engine \in [Addrs -> [Handlers -> Engine]]
    /\ pc \in [Handlers -> Labels]
    /\ request \in [Handlers -> Request \cup {None}]
    /\ output \in [Handlers -> Seq(Cell)]
    /\ first \in [Handlers -> BOOLEAN]
    /\ reply \in [Handlers -> Reply \cup {None}]
    /\ replies \in SUBSET Reply
    /\ received \in Nat

Init ==
    /\ known = [a \in Addrs |-> FALSE]
    /\ state = [a \in Addrs |-> 0]
    /\ username = [a \in Addrs |-> NoUser]
    /\ tlsIn = [a \in Addrs |-> << >>]
    /\ tlsOut = [a \in Addrs |-> << >>]
    /\ conn = [a \in Addrs |-> FALSE]
    /\ auth = [a \in Addrs |-> FALSE]
    /\ engine = [a \in Addrs |->
                   [h \in Handlers |-> [pc |-> "off", expects |-> 1, raw |-> << >>]]]
    /\ pc = [h \in Handlers |-> "idle"]
    /\ request = [h \in Handlers |-> None]
    /\ output = [h \in Handlers |-> << >>]
    /\ first = [h \in Handlers |-> FALSE]
    /\ reply = [h \in Handlers |-> None]
    /\ replies = {}
    /\ received = 0

-----------------------------------------------------------------------------
(* Control flow of a handler. *)

\* Mutant: the sessions map is keyed by something that all clients share.
AddrShared(h) == CHOOSE a \in Addrs : TRUE

\* The key of the session a handler works on: its client's ip:port.
Addr(h) == request[h].addr

Goto(h, l) == pc' = [pc EXCEPT ![h] = l]

\* The handler builds the packet r and goes on to send it.
Answers(h, r) ==
    /\ reply' = [reply EXCEPT ![h] = r]
    /\ Goto(h, "send")

\* The goroutine ends; its locals are garbage.
Retire(h) ==
    /\ Goto(h, "idle")
    /\ request' = [request EXCEPT ![h] = None]
    /\ output' = [output EXCEPT ![h] = << >>]
    /\ first' = [first EXCEPT ![h] = FALSE]
    /\ reply' = [reply EXCEPT ![h] = None]

-----------------------------------------------------------------------------
(* handleEAP *)

\* The receive loop starts a handler, which finds or creates the session of
\* the source address under sessionMu and lets go of the lock.
Receive(h, r) ==
    /\ pc[h] = "idle"
    /\ received < MaxPackets
    /\ known' = [known EXCEPT ![r.addr] = TRUE]
    /\ request' = [request EXCEPT ![h] = r]
    /\ received' = received + 1
    /\ Goto(h, "switch")
    /\ UNCHANGED <<state, username, tlsIn, tlsOut, conn, auth, engine,
                   output, first, reply, replies>>

\* An EAP-Identity restarts the conversation and is answered with TTLS-Start.
Identity(h) ==
    /\ pc[h] = "switch"
    /\ request[h].kind = "identity"
    /\ username' = [username EXCEPT ![Addr(h)] = request[h].user]
    /\ state' = [state EXCEPT ![Addr(h)] = 1]
    /\ Answers(h, [kind |-> "start", addr |-> request[h].addr, id |-> request[h].id])
    /\ UNCHANGED <<known, tlsIn, tlsOut, conn, auth, engine, request, output,
                   first, netVars>>

\* Mutant: an answer is built for every EAP-Response.
IgnoreAnswered(h) ==
    /\ pc[h] = "switch"
    /\ request[h].kind = "other"
    /\ Answers(h, [kind |-> "start", addr |-> request[h].addr, id |-> request[h].id])
    /\ UNCHANGED <<sessionVars, engine, request, output, first, netVars>>

Ignore(h) ==
    /\ pc[h] = "switch"
    /\ request[h].kind = "other"
    /\ Retire(h)
    /\ UNCHANGED <<sessionVars, engine, netVars>>

\* The RADIUS response leaves on the UDP socket.
Send(h) ==
    /\ pc[h] = "send"
    /\ replies' = replies \cup {reply[h]}
    /\ Retire(h)
    /\ UNCHANGED <<sessionVars, engine, received>>

-----------------------------------------------------------------------------
(* handleTLSHandshake *)

\* 1. The TLS bytes of the packet are written to TLSBufIn.
Pump(h) ==
    /\ pc[h] = "switch"
    /\ request[h].kind = "ttls"
    /\ tlsIn' = [tlsIn EXCEPT ![Addr(h)] = @ \o request[h].data]
    /\ Goto(h, "conn")
    /\ UNCHANGED <<known, state, username, tlsOut, conn, auth, engine, request,
                   output, first, reply, netVars>>

\* 2. The test for the first data packet ...
TestConn(h) ==
    /\ pc[h] = "conn"
    /\ Goto(h, IF conn[Addr(h)] THEN "wait" ELSE "start")
    /\ UNCHANGED <<sessionVars, engine, request, output, first, reply, netVars>>

\* Mutant: the engine is started without being recorded in TLSConn.
StartEngineUnrecorded(h) ==
    /\ pc[h] = "start"
    /\ state' = [state EXCEPT ![Addr(h)] = 2]
    /\ engine' = [engine EXCEPT ![Addr(h)][h] =
                    [pc |-> "poll", expects |-> 1, raw |-> << >>]]
    /\ Goto(h, "wait")
    /\ UNCHANGED <<known, username, tlsIn, tlsOut, conn, auth, request, output,
                   first, reply, netVars>>

\* ... and what it guards: the engine goroutine of the session is started.
StartEngine(h) ==
    /\ pc[h] = "start"
    /\ conn' = [conn EXCEPT ![Addr(h)] = TRUE]
    /\ state' = [state EXCEPT ![Addr(h)] = 2]
    /\ engine' = [engine EXCEPT ![Addr(h)][h] =
                    [pc |-> "poll", expects |-> 1, raw |-> << >>]]
    /\ Goto(h, "wait")
    /\ UNCHANGED <<known, username, tlsIn, tlsOut, auth, request, output, first,
                   reply, netVars>>

\* An engine of address a has something to do, not counting waiting for input.
EngineBusy(a) ==
    \E h \in Handlers :
        \/ engine[a][h].pc \in {"read", "run", "returned"}
        \/ engine[a][h].pc = "poll" /\ tlsIn[a] # << >>

\* Mutant: the loop waits for a full chunk and more.
AvailableFull(h) ==
    /\ pc[h] = "wait"
    /\ Len(tlsOut[Addr(h)]) > 1
    /\ Goto(h, "bytes")
    /\ UNCHANGED <<sessionVars, engine, request, output, first, reply, netVars>>

\* 3. The polling loop sees output ...
Available(h) ==
    /\ pc[h] = "wait"
    /\ tlsOut[Addr(h)] # << >>
    /\ Goto(h, "bytes")
    /\ UNCHANGED <<sessionVars, engine, request, output, first, reply, netVars>>

\* Mutant: the rounds of the polling loop are not counted.
PollAgain(h) ==
    /\ pc[h] = "wait"
    /\ tlsOut[Addr(h)] = << >>
    /\ UNCHANGED vars

\* ... or gives up after 400 rounds, and the packet is not answered at all.
Expire(h) ==
    /\ pc[h] = "wait"
    /\ tlsOut[Addr(h)] = << >>
    /\ SlowEngine \/ ~ EngineBusy(Addr(h))
    /\ Retire(h)
    /\ UNCHANGED <<sessionVars, engine, netVars>>

\* 4. All that is buffered is looked at, and decides on fragmentation.
TakeBytes(h) ==
    /\ pc[h] = "bytes"
    /\ output' = [output EXCEPT ![h] = tlsOut[Addr(h)]]
    /\ Goto(h, IF Len(tlsOut[Addr(h)]) > 1 THEN "more" ELSE "last")
    /\ UNCHANGED <<sessionVars, engine, request, first, reply, netVars>>

\* More fragments follow: the L flag is for the first one only.
TestFirst(h) ==
    /\ pc[h] = "more"
    /\ first' = [first EXCEPT ![h] = state[Addr(h)] = 2]
    /\ Goto(h, IF state[Addr(h)] = 2 THEN "mark" ELSE "next")
    /\ UNCHANGED <<sessionVars, engine, request, output, reply, netVars>>

\* Mutant: State stays at 2, as if it were reset only with the last fragment.
MarkSendingLate(h) ==
    /\ pc[h] = "mark"
    /\ Goto(h, "next")
    /\ UNCHANGED <<sessionVars, engine, request, output, first, reply, netVars>>

\* State 21 records that the L flag has been sent.
MarkSending(h) ==
    /\ pc[h] = "mark"
    /\ state' = [state EXCEPT ![Addr(h)] = 21]
    /\ Goto(h, "next")
    /\ UNCHANGED <<known, username, tlsIn, tlsOut, conn, auth, engine, request,
                   output, first, reply, netVars>>

Fragment(h, m, cs) ==
    [kind |-> "fragment", addr |-> request[h].addr, id |-> request[h].id, more |-> m,
     first |-> first[h], total |-> Len(output[h]), cells |-> cs]

\* Mutant: the chunk is sliced off after Next() instead of before.
SendChunkAfterNext(h) ==
    /\ pc[h] = "next"
    /\ tlsOut' = [tlsOut EXCEPT ![Addr(h)] = IF @ = << >> THEN @ ELSE Tail(@)]
    /\ Answers(h, Fragment(h, TRUE, << output[h][2] >>))
    /\ UNCHANGED <<known, state, username, tlsIn, conn, auth, engine, request,
                   output, first, netVars>>

\* One chunk is removed from TLSBufOut, whatever it now holds, and sent.
SendChunk(h) ==
    /\ pc[h] = "next"
    /\ tlsOut' = [tlsOut EXCEPT ![Addr(h)] = IF @ = << >> THEN @ ELSE Tail(@)]
    /\ Answers(h, Fragment(h, TRUE, << output[h][1] >>))
    /\ UNCHANGED <<known, state, username, tlsIn, conn, auth, engine, request,
                   output, first, netVars>>

\* Mutant: the State is advanced instead of set.
MarkSentAdvance(h) ==
    /\ pc[h] = "last"
    /\ state' = [state EXCEPT ![Addr(h)] = IF @ \in {2, 21} THEN @ + 1 ELSE @]
    /\ Goto(h, "reset")
    /\ UNCHANGED <<known, username, tlsIn, tlsOut, conn, auth, engine, request,
                   output, first, reply, netVars>>

\* 5. The final chunk.
MarkSent(h) ==
    /\ pc[h] = "last"
    /\ state' = [state EXCEPT ![Addr(h)] = IF @ \in {2, 21} THEN 3 ELSE @]
    /\ Goto(h, "reset")
    /\ UNCHANGED <<known, username, tlsIn, tlsOut, conn, auth, engine, request,
                   output, first, reply, netVars>>

\* TLSBufOut.Reset() discards everything, later output included.
ResetOut(h) ==
    /\ pc[h] = "reset"
    /\ tlsOut' = [tlsOut EXCEPT ![Addr(h)] = << >>]
    /\ Goto(h, "finish")
    /\ UNCHANGED <<known, state, username, tlsIn, conn, auth, engine, request,
                   output, first, reply, netVars>>

\* Authenticated decides between the final chunk and EAP-Success.
Finish(h) ==
    /\ pc[h] = "finish"
    /\ Answers(h, IF auth[Addr(h)]
                    THEN [kind |-> "success", addr |-> request[h].addr, id |-> request[h].id]
                    ELSE Fragment(h, FALSE, output[h]))
    /\ UNCHANGED <<sessionVars, engine, request, output, first, netVars>>

-----------------------------------------------------------------------------
(* The engine goroutine: MemConn below, crypto/tls above. *)

\* MemConn.Read polls TLSBufIn without a lock and without a deadline, ...
EnginePoll(a, h) ==
    /\ engine[a][h].pc = "poll"
    /\ tlsIn[a] # << >>
    /\ engine' = [engine EXCEPT ![a][h].pc = "read"]
    /\ UNCHANGED <<sessionVars, handlerVars, netVars>>

\* ... then takes all there is.  An empty buffer is io.EOF to crypto/tls.
EngineRead(a, h) ==
    LET e == engine[a][h] IN
    /\ e.pc = "read"
    /\ engine' = [engine EXCEPT ![a][h] =
         [e EXCEPT !.raw = e.raw \o tlsIn[a],
                   !.pc  = IF tlsIn[a] = << >> THEN "failed" ELSE "run"]]
    /\ tlsIn' = [tlsIn EXCEPT ![a] = << >>]
    /\ UNCHANGED <<known, state, username, tlsOut, conn, auth, handlerVars, netVars>>

\* MemConn.Write appends cs to TLSBufOut.  The output of a handler is a view of
\* that buffer's array: once its cells have been taken from the buffer, the
\* space is free to write to, and the handler may not have copied them yet.
Write(a, cs) ==
    LET Stale(g) == /\ output[g] # << >>
                    /\ Addr(g) = a
                    /\ tlsOut[a] = << >> \/ tlsOut[a][1] # output[g][1]
    IN  /\ tlsOut' = [tlsOut EXCEPT ![a] = @ \o cs]
        /\ \E hit \in [Handlers -> 0 .. Len(cs)] :
               output' = [g \in Handlers |->
                            IF hit[g] # 0 /\ Stale(g)
                            THEN [output[g] EXCEPT ![1] = cs[hit[g]]]
                            ELSE output[g]]

\* crypto/tls consumes the flight it expects and answers it through
\* MemConn.Write.  After the last one Handshake() returns.
EngineRun(a, h) ==
    LET e == engine[a][h] IN
    /\ e.pc = "run"
    /\ e.raw[1] = e.expects
    /\ Write(a, Cells(e.expects))
    /\ engine' = [engine EXCEPT ![a][h] =
         [pc |-> IF e.expects = Len(Answer) THEN "returned"
                 ELSE IF Len(e.raw) = 1 THEN "poll" ELSE "run",
          expects |-> e.expects + 1,
          raw |-> Tail(e.raw)]]
    /\ UNCHANGED <<known, state, username, tlsIn, conn, auth, pc, request, first,
                   reply, netVars>>

\* Mutant: the error of Handshake() is not followed by a return.
EngineAlertFallsThrough(a, h) ==
    LET e == engine[a][h] IN
    /\ e.pc = "run"
    /\ e.raw[1] # e.expects
    /\ Write(a, << Alert >>)
    /\ engine' = [engine EXCEPT ![a][h] = [e EXCEPT !.pc = "returned", !.raw = << >>]]
    /\ UNCHANGED <<known, state, username, tlsIn, conn, auth, pc, request, first,
                   reply, netVars>>

\* Anything else is fatal: an alert is written and the goroutine returns.
EngineAlert(a, h) ==
    LET e == engine[a][h] IN
    /\ e.pc = "run"
    /\ e.raw[1] # e.expects
    /\ Write(a, << Alert >>)
    /\ engine' = [engine EXCEPT ![a][h] = [e EXCEPT !.pc = "failed", !.raw = << >>]]
    /\ UNCHANGED <<known, state, username, tlsIn, conn, auth, pc, request, first,
                   reply, netVars>>

\* Only after Handshake() has returned are the session's flags set.
EngineFinish(a, h) ==
    /\ engine[a][h].pc = "returned"
    /\ auth' = [auth EXCEPT ![a] = TRUE]
    /\ engine' = [engine EXCEPT ![a][h].pc = "finished"]
    /\ UNCHANGED <<known, state, username, tlsIn, tlsOut, conn, handlerVars, netVars>>

-----------------------------------------------------------------------------
HandlerStep(h) ==
    \/ Identity(h)
    \/ Ignore(h)
    \/ Pump(h)
    \/ TestConn(h)
    \/ StartEngine(h)
    \/ Available(h)
    \/ Expire(h)
    \/ TakeBytes(h)
    \/ TestFirst(h)
    \/ MarkSending(h)
    \/ SendChunk(h)
    \/ MarkSent(h)
    \/ ResetOut(h)
    \/ Finish(h)
    \/ Send(h)

EngineStep(a, h) ==
    \/ EnginePoll(a, h)
    \/ EngineRead(a, h)
    \/ EngineRun(a, h)
    \/ EngineAlert(a, h)
    \/ EngineFinish(a, h)

Server ==
    \/ \E h \in Handlers : HandlerStep(h)
    \/ \E a \in Addrs, h \in Handlers : EngineStep(a, h)

\* Any packet may arrive from anywhere at any time.
Environment == \E h \in Handlers, r \in Request : Receive(h, r)

Next == Server \/ Environment

Spec == Init /\ [][Next]_vars

\* The Go scheduler runs every goroutine that can run.  Nothing is assumed of
\* the clients.
Fairness ==
    /\ \A h \in Handlers : WF_vars(HandlerStep(h))
    /\ \A a \in Addrs, h \in Handlers : WF_vars(EngineStep(a, h))

FairSpec == Spec /\ Fairness

-----------------------------------------------------------------------------
(* What the server promises, and what of its state says so. *)

Conversation == INSTANCE EapConversation WITH
    Runs          <- Handlers,
    Rounds        <- Len(Answer),
    started       <- [a \in Addrs |-> {h \in Handlers : engine[a][h].pc # "off"}],
    progress      <- [a \in Addrs |-> [h \in Handlers |-> engine[a][h].expects - 1]],
    authenticated <- {a \in Addrs : auth[a]},
    admitted      <- {a \in Addrs : \E r \in replies : r.kind = "success" /\ r.addr = a}

-----------------------------------------------------------------------------
(* Properties *)

\* The engine that handler h started for a has returned from Handshake()
\* without an error, every client flight consumed in its turn.
Completed(a, h) ==
    /\ engine[a][h].pc = "finished"
    /\ engine[a][h].expects = Len(Answer) + 1

\* Whatever packets arrive and however goroutines interleave, an address that
\* was sent an Access-Accept is one whose TLS handshake has been completed: the
\* Authenticated flag is read by one goroutine and set by another.
AcceptOnlyAfterHandshake ==
    \A r \in replies :
        Code(r) = "Access-Accept" => \E h \in Handlers : Completed(r.addr, h)

\* Every step of the server is a step of the conversation it promises, or
\* changes nothing of it: no run of the handshake is begun twice, none skips or
\* repeats a client flight, no address is authenticated or admitted early.
ImplementsConversation == Conversation!Spec

(* The inductive invariant behind these two. *)

\* A handler that works has a packet, and one that sends has an answer.
HandlerInv(h) ==
    /\ pc[h] # "idle" => request[h] \in Request
    /\ pc[h] = "send" => reply[h] \in Reply
    /\ pc[h] \in {"more", "mark", "next"} => Len(output[h]) > 1

\* An engine's counter says how far its handshake has got.
EngineInv(a, h) ==
    LET e == engine[a][h] IN
    /\ e.expects \in 1 .. Tunnelled
    /\ e.pc # "off" => conn[a]
    /\ e.pc = "off" => e.expects = 1
    /\ e.pc \in {"poll", "read", "run"} => e.expects \in DOMAIN Answer
    /\ e.pc = "run" => e.raw # << >>
    /\ e.pc \in {"returned", "finished"} => e.expects = Tunnelled

\* A handler about to start an engine has not started one for this session.
StartInv(h) == pc[h] = "start" => engine[Addr(h)][h].pc = "off"

\* EAP-Success, in the making or sent, rests on a completed handshake.
SuccessInv ==
    /\ \A a \in Addrs : auth[a] => \E h \in Handlers : Completed(a, h)
    /\ \A h \in Handlers :
          pc[h] = "send" /\ reply[h].kind = "success" => auth[reply[h].addr]
    /\ \A r \in replies : r.kind = "success" => auth[r.addr]

\* Together with TypeOK, what every step preserves.
HandshakeInv ==
    /\ \A h \in Handlers : HandlerInv(h) /\ StartInv(h)
    /\ \A a \in Addrs, h \in Handlers : EngineInv(a, h)
    /\ SuccessInv

\* What an engine in state e has written so far, and all engines of address a.
Wrote(e) ==
    (UNION {{<<k, i>> : i \in 1 .. Answer[k]} : k \in 1 .. e.expects - 1})
      \cup IF e.pc = "failed" THEN {Alert} ELSE {}

Written(a) == UNION {Wrote(engine[a][h]) : h \in Handlers}

\* TLS bytes never cross from one client's session to another's, and none is
\* sent that no engine has written: not even when buffers are reset, refilled
\* and overwritten under the hands of a handler.
SessionIsolation ==
    \A r \in replies : r.kind = "fragment" =>
        \A i \in 1 .. Len(r.cells) : r.cells[i] \in Written(r.addr)

\* No handler is stuck: the wait of handleTLSHandshake ends with output or
\* with the timeout, whoever else takes the output or feeds the engine.
EveryHandlerEnds == \A h \in Handlers : pc[h] # "idle" ~> pc[h] = "idle"

=============================================================================
