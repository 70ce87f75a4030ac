---------------------------- MODULE RadiusServer ----------------------------
(***************************************************************************)
(* The RADIUS listener: the loop at the end of main() in                   *)
(* cmd/server/main.go and the handlePacket goroutines it starts.           *)
(*                                                                         *)
(* The loop reads with a deadline of one second, and looks at the signal   *)
(* channel only when a read times out.  A datagram is handed, with the     *)
(* buffer it was read into, to a goroutine of its own, which reads it      *)
(* twice: for the checks, and for the answer.  A panic in one of them ends *)
(* the process: nothing recovers.                                          *)
(*                                                                         *)
(* The wire is a set of datagrams that may be lost, reordered or, those of *)
(* some addresses, delivered any number of times.                          *)
(***************************************************************************)
EXTENDS RadiusPacket

CONSTANTS
    Handlers,    \* slots for handlePacket goroutines running at the same time
    Duplicates   \* the addresses whose datagrams may be delivered again, by the
                 \* network or a NAS that repeats them

ASSUME HandlersAssumption == Handlers # {}

VARIABLES
    main,       \* "reading"; "stopped" when main() has returned, "crashed"
                \* when a goroutine has panicked
    signalled,  \* is a signal waiting in sigChan?
    wire,       \* datagrams in flight to the server: [from, packet]
    pc,         \* where each handler is
    from,       \* handlePacket's clientAddr
    buffer,     \* the bytes a handler was given
    responses   \* every response sent: [to, packet]

serverVars == <<main, signalled, wire, pc, from, buffer, responses>>

NoAddr == "none"

\* What a buffer holds before anything is read into it.
Blank == [len |-> "tiny", code |-> 0, id |-> 0, auth |-> Zeros, attrs |-> << >>,
          tail |-> "none"]

ServerInit ==
    /\ main = "reading"
    /\ signalled = FALSE
    /\ wire = {}
    /\ pc = [h \in Handlers |-> "idle"]
    /\ from = [h \in Handlers |-> NoAddr]
    /\ buffer = [h \in Handlers |-> Blank]
    /\ responses = {}

-----------------------------------------------------------------------------
(* The loop of main(). *)

\* Mutant: the buffer is made once, before the loop.
BufferHoisted(h) == CHOOSE g \in Handlers : TRUE

\* make([]byte, 2048) inside the loop: a buffer for every goroutine.
Buffer(h) == h

\* Lines 191 and 208: a datagram is read and handed to a new goroutine.
Receive(h) ==
    /\ main = "reading"
    /\ pc[h] = "idle"
    /\ \E d \in wire :
           /\ wire' \in {wire \ {d}} \cup (IF d.from \in Duplicates THEN {wire} ELSE {})
           /\ from' = [from EXCEPT ![h] = d.from]
           /\ buffer' = [buffer EXCEPT ![Buffer(h)] = d.packet]
    /\ pc' = [pc EXCEPT ![h] = "check"]
    /\ UNCHANGED <<main, signalled, responses>>

\* Mutant: a read that times out is retried like every other failed read.
ReadTimeoutRetried ==
    /\ main = "reading"
    /\ signalled
    /\ UNCHANGED serverVars

\* Lines 192 to 201: the read timed out and a signal is waiting.
ReadTimeout ==
    /\ main = "reading"
    /\ signalled
    /\ main' = "stopped"
    /\ UNCHANGED <<signalled, wire, pc, from, buffer, responses>>

\* Somebody sends the server a datagram.
Arrive ==
    /\ wire \subseteq wire'
    /\ UNCHANGED <<main, signalled, pc, from, buffer, responses>>

\* The operating system delivers SIGINT or SIGTERM.
Signal ==
    /\ ~signalled
    /\ signalled' = TRUE
    /\ UNCHANGED <<main, wire, pc, from, buffer, responses>>

\* The network drops a datagram.
Lose ==
    /\ \E d \in wire : wire' = wire \ {d}
    /\ UNCHANGED <<main, signalled, pc, from, buffer, responses>>

-----------------------------------------------------------------------------
(* handlePacket.  Between the return of main(), or a panic, and the end of
   the process a handler may or may not get to run.                          *)

Packet(h) == buffer[Buffer(h)]

\* The goroutine ends, and its locals are gone.
HandlerReturns(h) ==
    /\ pc' = [pc EXCEPT ![h] = "idle"]
    /\ from' = [from EXCEPT ![h] = NoAddr]
    /\ buffer' = [buffer EXCEPT ![h] = Blank]
    /\ UNCHANGED <<main, signalled, wire>>

Drop(h) == HandlerReturns(h) /\ UNCHANGED responses

Respond(h, response) ==
    /\ HandlerReturns(h)
    /\ responses' = responses \cup {[to |-> from[h], packet |-> response]}

\* Lines 222 to 240: too short, truncated, or not an Access-Request.
Ignore(h) ==
    /\ pc[h] = "check"
    /\ Packet(h).len \in {"tiny", "over"} \/ Packet(h).code # AccessRequest
    /\ Drop(h)

\* An Access-Request whose lengths are right gets past line 244.
Looked(h) ==
    /\ pc[h] = "check"
    /\ Packet(h).len \in {"short", "ok"}
    /\ Packet(h).code = AccessRequest

\* Line 246: hasMSCHAPAttributes slices out of range.
Panic(h) ==
    /\ main = "reading"
    /\ Looked(h)
    /\ Panics(Packet(h))
    /\ main' = "crashed"
    /\ UNCHANGED <<signalled, wire, pc, from, buffer, responses>>

\* Past line 250.
Readies(h) == Looked(h) /\ ~ Panics(Packet(h))

Forged(p) == hasMessageAuthenticator(p) /\ ~validateMessageAuthenticator(p)

\* Lines 252 to 269.
RejectForged(h) ==
    /\ Readies(h)
    /\ Forged(Packet(h))
    /\ Respond(h, buildResponsePacket(Packet(h), AccessReject))

\* Mutant: EAP is looked for before the authenticator is validated.
DispatchEAPFirst(h) ==
    /\ Readies(h)
    /\ hasEAPAttributes(Packet(h)) \/ ~Forged(Packet(h))
    /\ pc' = [pc EXCEPT ![h] =
                 IF hasEAPAttributes(Packet(h)) THEN "eap" ELSE "answer"]
    /\ UNCHANGED <<main, signalled, wire, from, buffer, responses>>

\* Lines 275 to 278.
Dispatch(h) ==
    /\ Readies(h)
    /\ ~Forged(Packet(h))
    /\ pc' = [pc EXCEPT ![h] =
                 IF hasEAPAttributes(Packet(h)) THEN "eap" ELSE "answer"]
    /\ UNCHANGED <<main, signalled, wire, from, buffer, responses>>

\* Lines 280 to 319.
Serve(h) ==
    /\ pc[h] = "answer"
    /\ Respond(h, buildResponsePacket(Packet(h), Verdict(Packet(h))))

\* handleEAP, with its session left out (see module EapServer): an Identity
\* is always answered with a challenge, a TTLS packet with a challenge, a
\* success or nothing, and anything else with nothing.
HandleEAP(h) ==
    /\ pc[h] = "eap"
    /\ LET message == IF HasReadable(Packet(h), "eap")
                      THEN First(Packet(h), "eap").message
                      ELSE "none"
       IN  \/ /\ message # "identity"
              /\ Drop(h)
           \/ /\ message \in {"identity", "ttls"}
              /\ Respond(h, EAPResponse(Packet(h), FALSE))
           \/ /\ message = "ttls"
              /\ Respond(h, EAPResponse(Packet(h), TRUE))

HandlePacket(h) ==
    \/ Ignore(h) \/ Panic(h) \/ RejectForged(h) \/ Dispatch(h)
    \/ Serve(h) \/ HandleEAP(h)

\* The loop takes a turn whenever it can, and so does every goroutine while
\* the process lives.
Loop == ReadTimeout \/ \E h \in Handlers : Receive(h)

ServerNext ==
    \/ Loop
    \/ Arrive
    \/ Lose
    \/ Signal
    \/ \E h \in Handlers : HandlePacket(h)

ServerSpec == ServerInit /\ [][ServerNext]_serverVars

ServerFairness ==
    /\ WF_serverVars(Loop)
    /\ \A h \in Handlers : WF_serverVars(main = "reading" /\ HandlePacket(h))
=============================================================================
