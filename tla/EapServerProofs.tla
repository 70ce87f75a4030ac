--------------------------- MODULE EapServerProofs ---------------------------
(***************************************************************************)
(* Proofs about EapServer, for any set of clients, any number of handlers  *)
(* and packets, and handshakes of any length: its state is well-typed, no  *)
(* Access-Accept goes out before a handshake is complete, every step is a  *)
(* step of EapConversation, and TLS bytes do not cross between sessions.   *)
(*                                                                         *)
(* The inductive invariant is TypeOK /\ HandshakeInv.  The two need each   *)
(* other: what a handler sends is well-typed because of what it holds at   *)
(* its pc (HandlerInv), and an engine only counts up to Tunnelled because  *)
(* of where it is in its own loop (EngineInv).                             *)
(***************************************************************************)
EXTENDS EapServer, TLAPS, SequenceTheorems

-----------------------------------------------------------------------------
(* Data. *)

\* What every packet has, and what only some have.
LEMMA RequestFields ==
    ASSUME NEW r \in Request
    PROVE  /\ r.addr \in Addrs
           /\ r.id \in Ids
           /\ r.kind \in {"identity", "ttls", "other"}
           /\ r.kind = "identity" => r.user \in Users
           /\ r.kind = "ttls" => r.data \in Seq(Flights)
<1>1. \A k \in Flights : << k >> \in Seq(Flights)
  OBVIOUS
<1>2. << >> \in Seq(Flights)
  OBVIOUS
<1> QED
  BY <1>1, <1>2 DEF Request

\* The updates of an engine's record that the engine steps make.
LEMMA EngineExcept ==
    ASSUME NEW e \in Engine, NEW l \in EngineLabels, NEW s \in Seq(Flights)
    PROVE  /\ [e EXCEPT !.pc = l] \in Engine
           /\ [e EXCEPT !.raw = s, !.pc = l] \in Engine
           /\ [e EXCEPT !.pc = l, !.raw = s] \in Engine
<1>1. \A x \in Engine : [x EXCEPT !.pc = l] \in Engine
  BY DEF Engine
<1>2. \A x \in Engine : [x EXCEPT !.raw = s] \in Engine
  BY DEF Engine
<1>3. [e EXCEPT !.raw = s, !.pc = l] = [[e EXCEPT !.raw = s] EXCEPT !.pc = l]
  OBVIOUS
<1>4. [e EXCEPT !.pc = l, !.raw = s] = [[e EXCEPT !.pc = l] EXCEPT !.raw = s]
  OBVIOUS
<1> QED
  BY <1>1, <1>2, <1>3, <1>4

\* What an engine answers to a flight of the handshake is a sequence of cells.
LEMMA CellsType ==
    ASSUME NEW k \in DOMAIN Answer
    PROVE  Cells(k) \in Seq(Cell)
<1>1. Answer[k] \in Nat /\ k \in Nat
  BY AnswerAssumption
<1> QED
  BY <1>1 DEF Cells, Cell

\* MemConn.Write keeps buffers and views of them sequences of cells.
LEMMA WriteType ==
    ASSUME TypeOK, NEW a \in Addrs, NEW cs \in Seq(Cell), Write(a, cs)
    PROVE  /\ tlsOut' \in [Addrs -> Seq(Cell)]
           /\ output' \in [Handlers -> Seq(Cell)]
<1>1. tlsOut' \in [Addrs -> Seq(Cell)]
  BY DEF TypeOK, Write
<1>2. \A s \in Seq(Cell), c \in Cell : s # << >> => [s EXCEPT ![1] = c] \in Seq(Cell)
  <2> SUFFICES ASSUME NEW s \in Seq(Cell), NEW c \in Cell, s # << >>
               PROVE  [s EXCEPT ![1] = c] \in Seq(Cell)
    OBVIOUS
  <2>1. 1 \in 1 .. Len(s)
    OBVIOUS
  <2> QED
    BY <2>1, ExceptSeq
<1>3. output' \in [Handlers -> Seq(Cell)]
  BY <1>2 DEF TypeOK, Write
<1> QED
  BY <1>1, <1>3

-----------------------------------------------------------------------------
(* Type correctness. *)

\* The sessions map is empty and nothing runs: all of it well-typed.
LEMMA TypeInit == Init => TypeOK
BY NoUserAssumption DEF Init, TypeOK, Engine, EngineLabels, Labels, None

\* Starting a handler for a packet keeps the types.
LEMMA TypeReceive ==
    ASSUME TypeOK, NEW h \in Handlers, NEW r \in Request, Receive(h, r)
    PROVE  TypeOK'
BY RequestFields DEF TypeOK, Receive, Goto, Labels

\* So does every step of a handler.
LEMMA TypeHandlerStep ==
    ASSUME TypeOK, NEW h \in Handlers, HandlerInv(h), HandlerStep(h)
    PROVE  TypeOK'
<1> USE DEF TypeOK, Goto, Addr, Labels, sessionVars, handlerVars, netVars
<1>1. CASE Identity(h)
  BY <1>1, RequestFields DEF Identity, Answers, HandlerInv, Reply
<1>2. CASE Ignore(h)
  BY <1>2 DEF Ignore, Retire
<1>3. CASE Pump(h)
  BY <1>3, RequestFields DEF Pump, HandlerInv
<1>4. CASE TestConn(h)
  BY <1>4 DEF TestConn
<1>5. CASE StartEngine(h)
  BY <1>5, RequestFields DEF StartEngine, HandlerInv, Engine, EngineLabels
<1>6. CASE Available(h)
  BY <1>6 DEF Available
<1>7. CASE Expire(h)
  BY <1>7 DEF Expire, Retire
<1>8. CASE TakeBytes(h)
  BY <1>8, RequestFields DEF TakeBytes, HandlerInv
<1>9. CASE TestFirst(h)
  BY <1>9 DEF TestFirst
<1>10. CASE MarkSending(h)
  BY <1>10, RequestFields DEF MarkSending, HandlerInv
<1>11. CASE SendChunk(h)
  BY <1>11, RequestFields DEF SendChunk, Answers, Fragment, HandlerInv, Reply
<1>12. CASE MarkSent(h)
  BY <1>12, RequestFields DEF MarkSent, HandlerInv
<1>13. CASE ResetOut(h)
  BY <1>13, RequestFields DEF ResetOut, HandlerInv
<1>14. CASE Finish(h)
  BY <1>14, RequestFields DEF Finish, Answers, Fragment, HandlerInv, Reply
<1>15. CASE Send(h)
  BY <1>15 DEF Send, Retire, HandlerInv, Reply
<1> QED
  BY <1>1, <1>2, <1>3, <1>4, <1>5, <1>6, <1>7, <1>8, <1>9, <1>10, <1>11,
       <1>12, <1>13, <1>14, <1>15 DEF HandlerStep

\* And every step of an engine.
LEMMA TypeEngineStep ==
    ASSUME TypeOK, NEW a \in Addrs, NEW h \in Handlers, EngineInv(a, h), EngineStep(a, h)
    PROVE  TypeOK'
<1> DEFINE e == engine[a][h]
<1>1. e \in Engine /\ tlsIn[a] \in Seq(Flights) /\ e.raw \o tlsIn[a] \in Seq(Flights)
  BY DEF TypeOK, Engine
<1>2. CASE EnginePoll(a, h)
  <2>1. engine' \in [Addrs -> [Handlers -> Engine]]
    BY <1>1, <1>2, EngineExcept DEF TypeOK, EnginePoll, EngineLabels
  <2> QED
    BY <2>1, <1>2 DEF TypeOK, EnginePoll, sessionVars, handlerVars, netVars
<1>3. CASE EngineRead(a, h)
  <2>1. engine' \in [Addrs -> [Handlers -> Engine]]
    <3>1. \A l \in {"failed", "run"} :
             [e EXCEPT !.raw = e.raw \o tlsIn[a], !.pc = l] \in Engine
      BY <1>1, EngineExcept DEF EngineLabels
    <3>2. [e EXCEPT !.raw = e.raw \o tlsIn[a],
                    !.pc = IF tlsIn[a] = << >> THEN "failed" ELSE "run"] \in Engine
      BY <3>1
    <3> QED
      BY <3>2, <1>3 DEF TypeOK, EngineRead
  <2>2. tlsIn' \in [Addrs -> Seq(Flights)]
    BY <1>3 DEF TypeOK, EngineRead
  <2> QED
    BY <2>1, <2>2, <1>3 DEF TypeOK, EngineRead, handlerVars, netVars
<1>4. CASE EngineRun(a, h)
  <2>1. e.expects \in DOMAIN Answer /\ e.raw # << >>
    BY <1>4 DEF EngineRun, EngineInv
  <2>2. engine' \in [Addrs -> [Handlers -> Engine]]
    <3>1. \A l \in EngineLabels :
             [pc |-> l, expects |-> e.expects + 1, raw |-> Tail(e.raw)] \in Engine
      BY <1>1, <2>1 DEF Engine
    <3>2. {"returned", "poll", "run"} \subseteq EngineLabels
      BY DEF EngineLabels
    <3> QED
      BY <3>1, <3>2, <1>4 DEF TypeOK, EngineRun
  <2>3. tlsOut' \in [Addrs -> Seq(Cell)] /\ output' \in [Handlers -> Seq(Cell)]
    BY <1>4, <2>1, CellsType, WriteType DEF EngineRun
  <2> QED
    BY <2>2, <2>3, <1>4 DEF TypeOK, EngineRun, netVars
<1>5. CASE EngineAlert(a, h)
  <2>1. engine' \in [Addrs -> [Handlers -> Engine]]
    <3>1. "failed" \in EngineLabels /\ << >> \in Seq(Flights)
      BY DEF EngineLabels
    <3>2. [e EXCEPT !.pc = "failed", !.raw = << >>] \in Engine
      BY <1>1, <3>1, EngineExcept
    <3> QED
      BY <3>2, <1>5 DEF TypeOK, EngineAlert
  <2>2. << Alert >> \in Seq(Cell)
    BY DEF Alert, Cell
  <2>3. tlsOut' \in [Addrs -> Seq(Cell)] /\ output' \in [Handlers -> Seq(Cell)]
    BY <1>5, <2>2, WriteType DEF EngineAlert
  <2> QED
    BY <2>1, <2>3, <1>5 DEF TypeOK, EngineAlert, netVars
<1>6. CASE EngineFinish(a, h)
  <2>1. engine' \in [Addrs -> [Handlers -> Engine]]
    BY <1>1, <1>6, EngineExcept DEF TypeOK, EngineFinish, EngineLabels
  <2> QED
    BY <2>1, <1>6 DEF TypeOK, EngineFinish, handlerVars, netVars
<1> QED
  BY <1>2, <1>3, <1>4, <1>5, <1>6 DEF EngineStep

\* No step of the server or its environment leaves the types.
LEMMA TypeStep ==
    ASSUME TypeOK, HandshakeInv, [Next]_vars
    PROVE  TypeOK'
<1>1. ASSUME NEW h \in Handlers, HandlerStep(h) PROVE TypeOK'
  BY <1>1, TypeHandlerStep DEF HandshakeInv
<1>2. ASSUME NEW a \in Addrs, NEW h \in Handlers, EngineStep(a, h) PROVE TypeOK'
  BY <1>2, TypeEngineStep DEF HandshakeInv
<1>3. ASSUME NEW h \in Handlers, NEW r \in Request, Receive(h, r) PROVE TypeOK'
  BY <1>3, TypeReceive
<1>4. CASE UNCHANGED vars
  BY <1>4 DEF TypeOK, vars, sessionVars, handlerVars, netVars
<1> QED
  BY <1>1, <1>2, <1>3, <1>4 DEF Next, Server, Environment

-----------------------------------------------------------------------------
(* The handshake invariant. *)

\* No engine has been started and nothing was sent.
LEMMA HandshakeInit == Init => HandshakeInv
<1> SUFFICES ASSUME Init PROVE HandshakeInv
  OBVIOUS
<1>1. Tunnelled \in Nat /\ 1 \in 1 .. Tunnelled
  BY AnswerAssumption DEF Tunnelled
<1>2. \A h \in Handlers : HandlerInv(h) /\ StartInv(h)
  BY DEF Init, HandlerInv, StartInv
<1>3. \A a \in Addrs, h \in Handlers : EngineInv(a, h)
  BY <1>1 DEF Init, EngineInv
<1>4. SuccessInv
  BY DEF Init, SuccessInv
<1> QED
  BY <1>2, <1>3, <1>4 DEF HandshakeInv

\* A handler is given a packet before it works.
LEMMA HandshakeReceive ==
    ASSUME TypeOK, HandshakeInv, NEW h \in Handlers, NEW r \in Request, Receive(h, r)
    PROVE  HandshakeInv'
<1> USE DEF TypeOK, HandshakeInv, Receive, Goto, Labels
<1>1. \A g \in Handlers : HandlerInv(g)'
  BY DEF HandlerInv
<1>2. \A g \in Handlers : StartInv(g)'
  BY DEF StartInv, Addr
<1>3. \A b \in Addrs, g \in Handlers : EngineInv(b, g)'
  BY DEF EngineInv
<1>4. SuccessInv'
  BY DEF SuccessInv, Completed
<1> QED
  BY <1>1, <1>2, <1>3, <1>4

\* Handlers other than the one that starts an engine leave engines alone.
LEMMA HandshakeQuietStep ==
    ASSUME TypeOK, HandshakeInv, TypeOK', NEW h \in Handlers, HandlerStep(h),
           ~ StartEngine(h)
    PROVE  HandshakeInv'
<1> USE DEF TypeOK, HandshakeInv, Goto, Addr, Labels, sessionVars, handlerVars, netVars
<1>1. UNCHANGED <<conn, auth, engine>>
  BY DEF HandlerStep, Identity, Ignore, Pump, TestConn, Available, Expire, TakeBytes,
         TestFirst, MarkSending, SendChunk, MarkSent, ResetOut, Finish, Send
<1>2. \A b \in Addrs, g \in Handlers : EngineInv(b, g)'
  BY <1>1 DEF EngineInv
<1>3. \A b \in Addrs : auth[b]' => \E g \in Handlers : Completed(b, g)'
  BY <1>1 DEF SuccessInv, Completed
<1>4. CASE Identity(h)
  <2>1. \A g \in Handlers : HandlerInv(g)'
    BY <1>4, RequestFields DEF HandlerInv, Identity, Answers, Reply
  <2>2. \A g \in Handlers : StartInv(g)'
    BY <1>4, <1>1, RequestFields DEF StartInv, HandlerInv, EngineInv,
         Identity, Answers
  <2>3. SuccessInv'
    BY <1>4, <1>1, <1>3 DEF SuccessInv, HandlerInv, Identity, Answers, Reply
  <2> QED
    BY <2>1, <2>2, <2>3, <1>2
<1>5. CASE Ignore(h)
  <2>1. \A g \in Handlers : HandlerInv(g)'
    BY <1>5, RequestFields DEF HandlerInv, Ignore, Retire, Reply
  <2>2. \A g \in Handlers : StartInv(g)'
    BY <1>5, <1>1, RequestFields DEF StartInv, HandlerInv, EngineInv, Ignore,
         Retire
  <2>3. SuccessInv'
    BY <1>5, <1>1, <1>3 DEF SuccessInv, HandlerInv, Ignore, Retire, Reply
  <2> QED
    BY <2>1, <2>2, <2>3, <1>2
<1>6. CASE Pump(h)
  <2>1. \A g \in Handlers : HandlerInv(g)'
    BY <1>6, RequestFields DEF HandlerInv, Pump, Reply
  <2>2. \A g \in Handlers : StartInv(g)'
    BY <1>6, <1>1, RequestFields DEF StartInv, HandlerInv, EngineInv, Pump
  <2>3. SuccessInv'
    BY <1>6, <1>1, <1>3 DEF SuccessInv, HandlerInv, Pump, Reply
  <2> QED
    BY <2>1, <2>2, <2>3, <1>2
<1>7. CASE TestConn(h)
  <2>1. \A g \in Handlers : HandlerInv(g)'
    BY <1>7, RequestFields DEF HandlerInv, TestConn, Reply
  <2>2. \A g \in Handlers : StartInv(g)'
    BY <1>7, <1>1, RequestFields DEF StartInv, HandlerInv, EngineInv, TestConn
  <2>3. SuccessInv'
    BY <1>7, <1>1, <1>3 DEF SuccessInv, HandlerInv, TestConn, Reply
  <2> QED
    BY <2>1, <2>2, <2>3, <1>2
<1>8. CASE Available(h)
  <2>1. \A g \in Handlers : HandlerInv(g)'
    BY <1>8, RequestFields DEF HandlerInv, Available, Reply
  <2>2. \A g \in Handlers : StartInv(g)'
    BY <1>8, <1>1, RequestFields DEF StartInv, HandlerInv, EngineInv,
         Available
  <2>3. SuccessInv'
    BY <1>8, <1>1, <1>3 DEF SuccessInv, HandlerInv, Available, Reply
  <2> QED
    BY <2>1, <2>2, <2>3, <1>2
<1>9. CASE Expire(h)
  <2>1. \A g \in Handlers : HandlerInv(g)'
    BY <1>9, RequestFields DEF HandlerInv, Expire, Retire, Reply
  <2>2. \A g \in Handlers : StartInv(g)'
    BY <1>9, <1>1, RequestFields DEF StartInv, HandlerInv, EngineInv, Expire,
         Retire
  <2>3. SuccessInv'
    BY <1>9, <1>1, <1>3 DEF SuccessInv, HandlerInv, Expire, Retire, Reply
  <2> QED
    BY <2>1, <2>2, <2>3, <1>2
<1>10. CASE TakeBytes(h)
  <2>1. \A g \in Handlers : HandlerInv(g)'
    BY <1>10, RequestFields DEF HandlerInv, TakeBytes, Reply
  <2>2. \A g \in Handlers : StartInv(g)'
    BY <1>10, <1>1, RequestFields DEF StartInv, HandlerInv, EngineInv,
         TakeBytes
  <2>3. SuccessInv'
    BY <1>10, <1>1, <1>3 DEF SuccessInv, HandlerInv, TakeBytes, Reply
  <2> QED
    BY <2>1, <2>2, <2>3, <1>2
<1>11. CASE TestFirst(h)
  <2>1. \A g \in Handlers : HandlerInv(g)'
    BY <1>11, RequestFields DEF HandlerInv, TestFirst, Reply
  <2>2. \A g \in Handlers : StartInv(g)'
    BY <1>11, <1>1, RequestFields DEF StartInv, HandlerInv, EngineInv,
         TestFirst
  <2>3. SuccessInv'
    BY <1>11, <1>1, <1>3 DEF SuccessInv, HandlerInv, TestFirst, Reply
  <2> QED
    BY <2>1, <2>2, <2>3, <1>2
<1>12. CASE MarkSending(h)
  <2>1. \A g \in Handlers : HandlerInv(g)'
    BY <1>12, RequestFields DEF HandlerInv, MarkSending, Reply
  <2>2. \A g \in Handlers : StartInv(g)'
    BY <1>12, <1>1, RequestFields DEF StartInv, HandlerInv, EngineInv,
         MarkSending
  <2>3. SuccessInv'
    BY <1>12, <1>1, <1>3 DEF SuccessInv, HandlerInv, MarkSending, Reply
  <2> QED
    BY <2>1, <2>2, <2>3, <1>2
<1>13. CASE SendChunk(h)
  <2>1. \A g \in Handlers : HandlerInv(g)'
    BY <1>13, RequestFields DEF HandlerInv, SendChunk, Answers, Fragment,
         Reply
  <2>2. \A g \in Handlers : StartInv(g)'
    BY <1>13, <1>1, RequestFields DEF StartInv, HandlerInv, EngineInv,
         SendChunk, Answers, Fragment
  <2>3. SuccessInv'
    BY <1>13, <1>1, <1>3 DEF SuccessInv, HandlerInv, SendChunk, Answers,
         Fragment, Reply
  <2> QED
    BY <2>1, <2>2, <2>3, <1>2
<1>14. CASE MarkSent(h)
  <2>1. \A g \in Handlers : HandlerInv(g)'
    BY <1>14, RequestFields DEF HandlerInv, MarkSent, Reply
  <2>2. \A g \in Handlers : StartInv(g)'
    BY <1>14, <1>1, RequestFields DEF StartInv, HandlerInv, EngineInv,
         MarkSent
  <2>3. SuccessInv'
    BY <1>14, <1>1, <1>3 DEF SuccessInv, HandlerInv, MarkSent, Reply
  <2> QED
    BY <2>1, <2>2, <2>3, <1>2
<1>15. CASE ResetOut(h)
  <2>1. \A g \in Handlers : HandlerInv(g)'
    BY <1>15, RequestFields DEF HandlerInv, ResetOut, Reply
  <2>2. \A g \in Handlers : StartInv(g)'
    BY <1>15, <1>1, RequestFields DEF StartInv, HandlerInv, EngineInv,
         ResetOut
  <2>3. SuccessInv'
    BY <1>15, <1>1, <1>3 DEF SuccessInv, HandlerInv, ResetOut, Reply
  <2> QED
    BY <2>1, <2>2, <2>3, <1>2
<1>16. CASE Finish(h)
  <2>1. \A g \in Handlers : HandlerInv(g)'
    BY <1>16, RequestFields DEF HandlerInv, Finish, Answers, Fragment, Reply
  <2>2. \A g \in Handlers : StartInv(g)'
    BY <1>16, <1>1, RequestFields DEF StartInv, HandlerInv, EngineInv, Finish,
         Answers, Fragment
  <2>3. SuccessInv'
    BY <1>16, <1>1, <1>3 DEF SuccessInv, HandlerInv, Finish, Answers,
         Fragment, Reply
  <2> QED
    BY <2>1, <2>2, <2>3, <1>2
<1>17. CASE Send(h)
  <2>1. \A g \in Handlers : HandlerInv(g)'
    BY <1>17, RequestFields DEF HandlerInv, Send, Retire, Reply
  <2>2. \A g \in Handlers : StartInv(g)'
    BY <1>17, <1>1, RequestFields DEF StartInv, HandlerInv, EngineInv, Send,
         Retire
  <2>3. SuccessInv'
    BY <1>17, <1>1, <1>3 DEF SuccessInv, HandlerInv, Send, Retire, Reply
  <2> QED
    BY <2>1, <2>2, <2>3, <1>2
<1> QED
  BY <1>4, <1>5, <1>6, <1>7, <1>8, <1>9, <1>10, <1>11, <1>12, <1>13, <1>14,
       <1>15, <1>16, <1>17 DEF HandlerStep

\* The step that starts an engine starts it from the beginning, and once.
LEMMA HandshakeStartEngine ==
    ASSUME TypeOK, HandshakeInv, NEW h \in Handlers, StartEngine(h)
    PROVE  HandshakeInv'
<1> USE DEF TypeOK, HandshakeInv
<1> DEFINE a == Addr(h)
<1>1. a \in Addrs /\ engine[a][h].pc = "off" /\ pc[h] = "start"
  BY RequestFields DEF StartEngine, HandlerInv, StartInv, Addr
<1>2. engine'[a][h] = [pc |-> "poll", expects |-> 1, raw |-> << >>]
  BY <1>1 DEF StartEngine
<1>3. \A b \in Addrs, g \in Handlers :
         b # a \/ g # h => engine'[b][g] = engine[b][g]
  BY <1>1 DEF StartEngine
<1>4. \A b \in Addrs : conn[b] => conn'[b]
  BY <1>1 DEF StartEngine
<1>5. \A g \in Handlers : HandlerInv(g)'
  BY DEF StartEngine, HandlerInv, Goto, Labels
<1>6. \A g \in Handlers : StartInv(g)'
  <2> SUFFICES ASSUME NEW g \in Handlers, pc'[g] = "start"
               PROVE  engine'[Addr(g)][g].pc = "off"
    BY DEF StartInv, Addr, StartEngine
  <2>1. g # h /\ pc[g] = "start"
    BY DEF StartEngine, Goto
  <2>2. Addr(g) \in Addrs
    BY <2>1, RequestFields DEF HandlerInv, Addr
  <2> QED
    BY <2>1, <2>2, <1>3 DEF StartInv
<1>7. \A b \in Addrs, g \in Handlers : EngineInv(b, g)'
  <2> SUFFICES ASSUME NEW b \in Addrs, NEW g \in Handlers PROVE EngineInv(b, g)'
    OBVIOUS
  <2>1. CASE b = a /\ g = h
    <3>1. 1 \in 1 .. Tunnelled /\ 1 \in DOMAIN Answer
      BY AnswerAssumption DEF Tunnelled
    <3>2. conn'[a]
      BY <1>1 DEF StartEngine
    <3> QED
      BY <3>1, <3>2, <2>1, <1>2 DEF EngineInv
  <2>2. CASE b # a \/ g # h
    BY <2>2, <1>3, <1>4 DEF EngineInv
  <2> QED
    BY <2>1, <2>2
<1>8. SuccessInv'
  <2>1. \A b \in Addrs, g \in Handlers : Completed(b, g) => Completed(b, g)'
    BY <1>1, <1>3 DEF Completed
  <2>2. \A g \in Handlers : pc'[g] = "send" => pc[g] = "send"
    BY DEF StartEngine, Goto
  <2> QED
    BY <2>1, <2>2 DEF SuccessInv, StartEngine, netVars
<1> QED
  BY <1>5, <1>6, <1>7, <1>8

\* What an engine step does to the engines, seen from outside.
LEMMA EngineFrame ==
    ASSUME TypeOK, NEW a \in Addrs, NEW h \in Handlers, EngineStep(a, h)
    PROVE  /\ \A b \in Addrs, g \in Handlers :
                 b # a \/ g # h => engine'[b][g] = engine[b][g]
           /\ engine[a][h].pc \notin {"off", "finished", "failed"}
           /\ engine'[a][h].pc # "off"
           /\ UNCHANGED <<conn, pc, request, reply, replies>>
           /\ auth' = auth \/ EngineFinish(a, h)
<1> USE DEF TypeOK, sessionVars, handlerVars, netVars
<1>1. CASE EnginePoll(a, h)
  BY <1>1 DEF EnginePoll
<1>2. CASE EngineRead(a, h)
  BY <1>2 DEF EngineRead, Engine
<1>3. CASE EngineRun(a, h)
  BY <1>3 DEF EngineRun
<1>4. CASE EngineAlert(a, h)
  BY <1>4 DEF EngineAlert, Engine
<1>5. CASE EngineFinish(a, h)
  BY <1>5 DEF EngineFinish
<1> QED
  BY <1>1, <1>2, <1>3, <1>4, <1>5 DEF EngineStep

\* An engine counts its flights, and sets the flag only at their end.
LEMMA HandshakeEngineStep ==
    ASSUME TypeOK, HandshakeInv, TypeOK', NEW a \in Addrs, NEW h \in Handlers,
           EngineStep(a, h)
    PROVE  HandshakeInv'
<1> USE DEF TypeOK, HandshakeInv
<1> DEFINE e == engine[a][h]
           f == engine'[a][h]
<1>1. /\ \A b \in Addrs, g \in Handlers :
           b # a \/ g # h => engine'[b][g] = engine[b][g]
      /\ e.pc \notin {"off", "finished", "failed"}
      /\ f.pc # "off"
      /\ UNCHANGED <<conn, pc, request, reply, replies>>
  BY EngineFrame
<1>2. EngineInv(a, h) /\ e \in Engine
  OBVIOUS
<1>3. \A g \in Handlers : HandlerInv(g)'
  <2>1. \A g \in Handlers : Len(output'[g]) = Len(output[g])
    <3>1. \A s \in Seq(Cell), c \in Cell :
             s # << >> => Len([s EXCEPT ![1] = c]) = Len(s)
      <4> SUFFICES ASSUME NEW s \in Seq(Cell), NEW c \in Cell, s # << >>
                   PROVE  Len([s EXCEPT ![1] = c]) = Len(s)
        OBVIOUS
      <4>1. 1 \in 1 .. Len(s)
        OBVIOUS
      <4> QED
        BY <4>1, ExceptSeq
    <3>2. ASSUME NEW cs \in Seq(Cell), Write(a, cs)
          PROVE  \A g \in Handlers : Len(output'[g]) = Len(output[g])
      BY <3>1, <3>2 DEF Write
    <3>3. CASE EngineRun(a, h)
      BY <1>2, <3>2, <3>3, CellsType DEF EngineRun, EngineInv
    <3>4. CASE EngineAlert(a, h)
      <4>1. << Alert >> \in Seq(Cell)
        BY DEF Alert, Cell
      <4> QED
        BY <4>1, <3>2, <3>4 DEF EngineAlert
    <3> QED
      BY <3>3, <3>4 DEF EngineStep, EnginePoll, EngineRead, EngineFinish, handlerVars
  <2> QED
    BY <2>1, <1>1 DEF HandlerInv
<1>4. \A g \in Handlers : StartInv(g)'
  <2> SUFFICES ASSUME NEW g \in Handlers, pc[g] = "start"
               PROVE  engine'[Addr(g)][g].pc = "off"
    BY <1>1 DEF StartInv, Addr
  <2>1. Addr(g) \in Addrs /\ engine[Addr(g)][g].pc = "off"
    BY RequestFields DEF HandlerInv, StartInv, Addr
  <2> QED
    BY <2>1, <1>1
<1>5. EngineInv(a, h)'
  <2>1. CASE EnginePoll(a, h)
    BY <2>1, <1>1, <1>2 DEF EngineInv, EnginePoll, Engine
  <2>2. CASE EngineRead(a, h)
    <3>1. f.expects = e.expects /\ f.pc = IF tlsIn[a] = << >> THEN "failed" ELSE "run"
      BY <2>2, <1>2 DEF EngineRead, Engine
    <3>2. f.raw = e.raw \o tlsIn[a]
      BY <2>2, <1>2 DEF EngineRead, Engine
    <3>3. e.pc = "read"
      BY <2>2 DEF EngineRead
    <3>4. tlsIn[a] # << >> => f.raw # << >>
      BY <3>2, <1>2 DEF Engine
    <3> QED
      BY <3>1, <3>3, <3>4, <1>1, <1>2 DEF EngineInv
  <2>3. CASE EngineRun(a, h)
    <3>1. /\ f.expects = e.expects + 1
          /\ f.raw = Tail(e.raw)
          /\ f.pc = IF e.expects = Len(Answer) THEN "returned"
                    ELSE IF Len(e.raw) = 1 THEN "poll" ELSE "run"
      BY <2>3 DEF EngineRun
    <3>2. e.pc = "run" /\ e.expects \in DOMAIN Answer /\ e.raw # << >>
      BY <2>3, <1>2 DEF EngineRun, EngineInv
    <3>3. Len(e.raw) # 1 => Tail(e.raw) # << >>
      <4>1. e.raw \in Seq(Flights)
        BY <1>2 DEF Engine
      <4>2. Len(Tail(e.raw)) = Len(e.raw) - 1 /\ Len(e.raw) \in Nat \ {0}
        BY <4>1, <3>2
      <4>3. Len(Tail(e.raw)) = 0 => Len(e.raw) = 1
        BY <4>2
      <4>4. Len(<< >>) = 0
        BY EmptySeq
      <4> QED
        BY <4>3, <4>4
    <3>4. /\ e.expects \in 1 .. Len(Answer) /\ Len(Answer) \in Nat
      BY <3>2, AnswerAssumption
    <3>5. e.expects + 1 \in 1 .. Tunnelled
      BY <3>4 DEF Tunnelled
    <3>6. e.expects = Len(Answer) => e.expects + 1 = Tunnelled
      BY DEF Tunnelled
    <3>7. e.expects # Len(Answer) => e.expects + 1 \in DOMAIN Answer
      BY <3>4, AnswerAssumption
    <3> QED
      BY <3>1, <3>2, <3>3, <3>5, <3>6, <3>7, <1>1, <1>2 DEF EngineInv
  <2>4. CASE EngineAlert(a, h)
    <3>1. f.expects = e.expects /\ f.pc = "failed" /\ e.pc = "run"
      BY <2>4, <1>2 DEF EngineAlert, Engine
    <3> QED
      BY <3>1, <1>1, <1>2 DEF EngineInv
  <2>5. CASE EngineFinish(a, h)
    BY <2>5, <1>1, <1>2 DEF EngineInv, EngineFinish, Engine
  <2> QED
    BY <2>1, <2>2, <2>3, <2>4, <2>5 DEF EngineStep
<1>6. \A b \in Addrs, g \in Handlers : EngineInv(b, g)'
  <2> SUFFICES ASSUME NEW b \in Addrs, NEW g \in Handlers, b # a \/ g # h
               PROVE  EngineInv(b, g)'
    BY <1>5
  <2> QED
    BY <1>1 DEF EngineInv
<1>7. SuccessInv'
  <2>1. \A b \in Addrs, g \in Handlers : Completed(b, g) => Completed(b, g)'
    BY <1>1 DEF Completed
  <2>2. CASE auth' = auth
    BY <2>1, <2>2, <1>1 DEF SuccessInv
  <2>3. CASE EngineFinish(a, h)
    <3>1. Completed(a, h)'
      BY <2>3, <1>2 DEF Completed, EngineFinish, EngineInv, Engine, Tunnelled
    <3>2. \A b \in Addrs : auth'[b] <=> auth[b] \/ b = a
      BY <2>3 DEF EngineFinish
    <3>3. \A b \in Addrs : auth'[b] => \E g \in Handlers : Completed(b, g)'
      <4> SUFFICES ASSUME NEW b \in Addrs, auth'[b]
                   PROVE  \E g \in Handlers : Completed(b, g)'
        OBVIOUS
      <4>1. CASE b = a
        BY <4>1, <3>1
      <4>2. CASE auth[b]
        <5>1. PICK g \in Handlers : Completed(b, g)
          BY <4>2 DEF SuccessInv
        <5> QED
          BY <5>1, <2>1
      <4> QED
        BY <4>1, <4>2, <3>2
    <3>4. \A g \in Handlers : pc[g] = "send" => reply[g].addr \in Addrs
      BY DEF HandlerInv, Reply
    <3>5. \A r \in replies : r.addr \in Addrs
      BY DEF Reply
    <3> QED
      BY <3>2, <3>3, <3>4, <3>5, <1>1 DEF SuccessInv
  <2> QED
    BY <2>2, <2>3, EngineFrame
<1> QED
  BY <1>3, <1>4, <1>6, <1>7

\* TypeOK and HandshakeInv are inductive together.
LEMMA InvariantStep ==
    ASSUME TypeOK, HandshakeInv, [Next]_vars
    PROVE  TypeOK' /\ HandshakeInv'
<1>1. TypeOK'
  BY TypeStep
<1>2. ASSUME NEW h \in Handlers, HandlerStep(h) PROVE HandshakeInv'
  BY <1>1, <1>2, HandshakeQuietStep, HandshakeStartEngine
<1>3. ASSUME NEW a \in Addrs, NEW h \in Handlers, EngineStep(a, h) PROVE HandshakeInv'
  BY <1>1, <1>3, HandshakeEngineStep
<1>4. ASSUME NEW h \in Handlers, NEW r \in Request, Receive(h, r) PROVE HandshakeInv'
  BY <1>4, HandshakeReceive
<1>5. CASE UNCHANGED vars
  <2> USE <1>5 DEF HandshakeInv, vars, sessionVars, handlerVars, netVars
  <2>1. \A h \in Handlers : HandlerInv(h)' /\ StartInv(h)'
    BY DEF HandlerInv, StartInv, Addr
  <2>2. \A a \in Addrs, h \in Handlers : EngineInv(a, h)'
    BY DEF EngineInv
  <2>3. SuccessInv'
    BY DEF SuccessInv, Completed
  <2> QED
    BY <1>1, <2>1, <2>2, <2>3
<1> QED
  BY <1>1, <1>2, <1>3, <1>4, <1>5 DEF Next, Server, Environment

\* Type correctness, and the invariant of the handshake, of every behaviour of
\* the server in any environment.
THEOREM Invariance == Spec => [](TypeOK /\ HandshakeInv)
<1>1. Init => TypeOK /\ HandshakeInv
  BY TypeInit, HandshakeInit
<1>2. TypeOK /\ HandshakeInv /\ [Next]_vars => TypeOK' /\ HandshakeInv'
  BY InvariantStep
<1> QED
  BY <1>1, <1>2, PTL DEF Spec

\* The state of the server is well-typed, whatever packets arrive.
THEOREM TypeCorrectness == Spec => []TypeOK
BY Invariance, PTL

\* No Access-Accept is sent to an address whose TLS handshake is not complete.
THEOREM AcceptTheorem == Spec => []AcceptOnlyAfterHandshake
<1>1. TypeOK /\ HandshakeInv => AcceptOnlyAfterHandshake
  BY DEF HandshakeInv, SuccessInv, AcceptOnlyAfterHandshake, Code, TypeOK, Reply
<1> QED
  BY <1>1, Invariance, PTL

-----------------------------------------------------------------------------
(* The server implements the abstract conversation. *)

\* Nothing has begun in either specification.
LEMMA ConversationInit == Init => Conversation!Init
BY DEF Init, Conversation!Init

\* Only engines, auth and replies show in the conversation.
LEMMA ConversationStutter ==
    ASSUME UNCHANGED <<engine, auth, replies>>
    PROVE  UNCHANGED Conversation!vars
BY DEF Conversation!vars

\* Starting an engine starts a run that was not started before.
LEMMA ConversationStart ==
    ASSUME TypeOK, HandshakeInv, NEW h \in Handlers, StartEngine(h),
           NEW a \in Addrs, a = Addr(h)
    PROVE  Conversation!Start(a, h)
<1>1. a \in Addrs /\ engine[a][h].pc = "off" /\ engine[a][h].expects = 1
  BY RequestFields DEF StartEngine, HandshakeInv, HandlerInv, StartInv, EngineInv, Addr
<1>2. /\ engine'[a][h] = [pc |-> "poll", expects |-> 1, raw |-> << >>]
      /\ \A b \in Addrs, g \in Handlers :
           b # a \/ g # h => engine'[b][g] = engine[b][g]
  BY <1>1 DEF StartEngine, TypeOK
<1>3. [b \in Addrs |-> {g \in Handlers : engine'[b][g].pc # "off"}]
        = [[b \in Addrs |-> {g \in Handlers : engine[b][g].pc # "off"}]
             EXCEPT ![a] = @ \cup {h}]
  <2>1. {g \in Handlers : engine'[a][g].pc # "off"}
          = {g \in Handlers : engine[a][g].pc # "off"} \cup {h}
    BY <1>1, <1>2
  <2>2. \A b \in Addrs : b # a =>
          {g \in Handlers : engine'[b][g].pc # "off"}
            = {g \in Handlers : engine[b][g].pc # "off"}
    BY <1>2
  <2> QED
    BY <2>1, <2>2, <1>1
<1>4. [b \in Addrs |-> [g \in Handlers |-> engine'[b][g].expects - 1]]
        = [b \in Addrs |-> [g \in Handlers |-> engine[b][g].expects - 1]]
  <2>1. \A b \in Addrs, g \in Handlers : engine'[b][g].expects = engine[b][g].expects
    BY <1>1, <1>2
  <2> QED
    BY <2>1
<1>5. auth' = auth /\ replies' = replies
  BY DEF StartEngine, netVars
<1> QED
  BY <1>1, <1>3, <1>4, <1>5 DEF Conversation!Start

\* An engine that answers a flight, or returns, advances or completes its run.
LEMMA ConversationEngine ==
    ASSUME TypeOK, HandshakeInv, NEW a \in Addrs, NEW h \in Handlers, EngineStep(a, h)
    PROVE  \/ Conversation!Advance(a, h)
           \/ Conversation!Complete(a, h)
           \/ UNCHANGED Conversation!vars
<1> DEFINE e == engine[a][h]
           f == engine'[a][h]
           Started(en)  == [b \in Addrs |-> {g \in Handlers : en[b][g].pc # "off"}]
           Progress(en) == [b \in Addrs |-> [g \in Handlers |-> en[b][g].expects - 1]]
<1>1. /\ \A b \in Addrs, g \in Handlers :
           b # a \/ g # h => engine'[b][g] = engine[b][g]
      /\ e.pc # "off" /\ f.pc # "off"
      /\ replies' = replies
      /\ auth' = auth \/ EngineFinish(a, h)
  BY EngineFrame
<1>2. e \in Engine /\ EngineInv(a, h)
  BY DEF TypeOK, HandshakeInv
<1>3. Started(engine') = Started(engine)
  <2>1. \A b \in Addrs, g \in Handlers :
           engine'[b][g].pc # "off" <=> engine[b][g].pc # "off"
    BY <1>1
  <2> QED
    BY <2>1
<1>4. ASSUME f.expects = e.expects PROVE Progress(engine') = Progress(engine)
  <2>1. \A b \in Addrs, g \in Handlers : engine'[b][g].expects = engine[b][g].expects
    BY <1>1, <1>4
  <2> QED
    BY <2>1
<1>5. CASE EngineRun(a, h)
  <2>1. f.expects = e.expects + 1
    BY <1>5 DEF EngineRun, TypeOK
  <2>2. e.expects \in 1 .. Len(Answer)
    BY <1>5, <1>2, AnswerAssumption DEF EngineRun, EngineInv
  <2>3. Progress(engine') = [Progress(engine) EXCEPT ![a][h] = @ + 1]
    <3>1. f.expects - 1 = (e.expects - 1) + 1
      BY <2>1, <2>2
    <3>2. Progress(engine')[a] = [Progress(engine)[a] EXCEPT ![h] = @ + 1]
      BY <3>1, <1>1
    <3>3. \A b \in Addrs : b # a => Progress(engine')[b] = Progress(engine)[b]
      BY <1>1
    <3>4. [Progress(engine) EXCEPT ![a][h] = @ + 1]
            = [Progress(engine) EXCEPT ![a] = [Progress(engine)[a] EXCEPT ![h] = @ + 1]]
      OBVIOUS
    <3>5. ASSUME NEW P, NEW Q, P = [b \in Addrs |-> P[b]], Q = [b \in Addrs |-> Q[b]],
                 NEW v, P[a] = v, \A b \in Addrs : b # a => P[b] = Q[b]
          PROVE  P = [Q EXCEPT ![a] = v]
      BY <3>5
    <3> HIDE DEF Progress
    <3>6. Progress(engine') = [Progress(engine) EXCEPT ![a] =
                                 [Progress(engine)[a] EXCEPT ![h] = @ + 1]]
      <4>1. /\ Progress(engine) = [b \in Addrs |-> Progress(engine)[b]]
            /\ Progress(engine') = [b \in Addrs |-> Progress(engine')[b]]
        BY DEF Progress
      <4> QED
        BY <4>1, <3>2, <3>3, <3>5
    <3> QED
      BY <3>4, <3>6
  <2>4. Progress(engine)[a][h] < Len(Answer)
    BY <2>2, AnswerAssumption
  <2>5. auth' = auth
    BY <1>5 DEF EngineRun
  <2>6. h \in Started(engine)[a]
    BY <1>1
  <2> QED
    BY <2>3, <2>4, <2>5, <2>6, <1>1, <1>3 DEF Conversation!Advance
<1>6. CASE EngineFinish(a, h)
  <2>1. f.expects = e.expects
    BY <1>6 DEF EngineFinish, TypeOK
  <2>2. e.expects - 1 = Len(Answer)
    BY <1>6, <1>2, AnswerAssumption DEF EngineFinish, EngineInv, Tunnelled
  <2>3. {b \in Addrs : auth'[b]} = {b \in Addrs : auth[b]} \cup {a}
    BY <1>6 DEF EngineFinish, TypeOK
  <2>4. h \in Started(engine)[a] /\ Progress(engine)[a][h] = Len(Answer)
    BY <2>2, <1>1
  <2> QED
    BY <2>1, <2>3, <2>4, <1>1, <1>3, <1>4 DEF Conversation!Complete
<1>7. CASE ~ EngineRun(a, h) /\ ~ EngineFinish(a, h)
  <2>1. f.expects = e.expects
    <3>1. CASE EnginePoll(a, h)
      BY <3>1, <1>2 DEF EnginePoll, Engine, TypeOK
    <3>2. CASE EngineRead(a, h)
      BY <3>2, <1>2 DEF EngineRead, Engine, TypeOK
    <3>3. CASE EngineAlert(a, h)
      BY <3>3, <1>2 DEF EngineAlert, Engine, TypeOK
    <3> QED
      BY <3>1, <3>2, <3>3, <1>7 DEF EngineStep
  <2>2. auth' = auth
    BY <1>7, <1>1
  <2> QED
    BY <2>1, <2>2, <1>1, <1>3, <1>4 DEF Conversation!vars
<1> QED
  BY <1>5, <1>6, <1>7

\* An EAP-Success that is sent admits an authenticated address.
LEMMA ConversationSend ==
    ASSUME TypeOK, HandshakeInv, NEW h \in Handlers, Send(h),
           NEW a \in Addrs, a = reply[h].addr
    PROVE  Conversation!Admit(a) \/ UNCHANGED Conversation!vars
<1> DEFINE Admitted(rs) == {b \in Addrs : \E r \in rs : r.kind = "success" /\ r.addr = b}
<1>1. /\ pc[h] = "send" /\ reply[h] \in Reply
      /\ replies' = replies \cup {reply[h]}
      /\ engine' = engine /\ auth' = auth
  BY DEF Send, HandshakeInv, HandlerInv, sessionVars
<1>3. CASE reply[h].kind = "success"
  <2>1. auth[a]
    BY <1>1, <1>3 DEF HandshakeInv, SuccessInv
  <2>2. Admitted(replies') = Admitted(replies) \cup {a}
    BY <1>1, <1>3
  <2> QED
    BY <1>1, <2>1, <2>2 DEF Conversation!Admit
<1>4. CASE reply[h].kind # "success"
  <2>1. Admitted(replies') = Admitted(replies)
    BY <1>1, <1>4
  <2> QED
    BY <1>1, <2>1 DEF Conversation!vars
<1> QED
  BY <1>3, <1>4

\* Every step of the server is a step of the conversation or stutters.
LEMMA ConversationStep ==
    ASSUME TypeOK, HandshakeInv, [Next]_vars
    PROVE  [Conversation!Next]_(Conversation!vars)
<1>1. ASSUME NEW h \in Handlers, HandlerStep(h)
      PROVE  [Conversation!Next]_(Conversation!vars)
  <2>1. CASE StartEngine(h)
    <3>1. PICK a \in Addrs : a = Addr(h)
      BY <2>1, RequestFields DEF StartEngine, HandshakeInv, HandlerInv, Addr
    <3>2. Conversation!Start(a, h)
      BY <2>1, <3>1, ConversationStart
    <3> QED
      BY <3>2 DEF Conversation!Next
  <2>2. CASE Send(h)
    <3>1. PICK a \in Addrs : a = reply[h].addr
      BY <2>2 DEF Send, HandshakeInv, HandlerInv, Reply
    <3>2. Conversation!Admit(a) \/ UNCHANGED Conversation!vars
      BY <2>2, <3>1, ConversationSend
    <3> QED
      BY <3>2 DEF Conversation!Next
  <2>3. CASE ~ StartEngine(h) /\ ~ Send(h)
    <3>1. UNCHANGED <<engine, auth, replies>>
      BY <1>1, <2>3 DEF HandlerStep, Identity, Ignore, Pump, TestConn, Available, Expire,
         TakeBytes, TestFirst, MarkSending, SendChunk, MarkSent, ResetOut, Finish,
         sessionVars, netVars
    <3> QED
      BY <3>1, ConversationStutter
  <2> QED
    BY <2>1, <2>2, <2>3
<1>2. ASSUME NEW a \in Addrs, NEW h \in Handlers, EngineStep(a, h)
      PROVE  [Conversation!Next]_(Conversation!vars)
  BY <1>2, ConversationEngine DEF Conversation!Next
<1>3. ASSUME NEW h \in Handlers, NEW r \in Request, Receive(h, r)
      PROVE  [Conversation!Next]_(Conversation!vars)
  BY <1>3, ConversationStutter DEF Receive
<1>4. CASE UNCHANGED vars
  BY <1>4, ConversationStutter DEF vars, sessionVars, netVars
<1> QED
  BY <1>1, <1>2, <1>3, <1>4 DEF Next, Server, Environment

\* The server, its buffers, goroutines and races included, implements the
\* conversation it promises.
THEOREM Refinement == Spec => ImplementsConversation
<1>1. Init => Conversation!Init
  BY ConversationInit
<1>2. TypeOK /\ HandshakeInv /\ [Next]_vars => [Conversation!Next]_(Conversation!vars)
  BY ConversationStep
<1> QED
  BY <1>1, <1>2, Invariance, PTL DEF Spec, ImplementsConversation, Conversation!Spec

-----------------------------------------------------------------------------
(* The buffers.  TLS bytes do not cross between sessions, although handlers
   read TLSBufOut without a lock, reset it under each other's hands and keep
   views of an array that an engine writes to again.

   IsolationInv follows the bytes along their way: every cell in a buffer, in
   the view a handler has of it, in the packet it is about to send and in a
   packet sent was written by an engine of the same address, and what engines
   have written only grows.                                                  *)

\* Every element of s is one of W.
Among(s, W) == \A i \in 1 .. Len(s) : s[i] \in W

\* What engines have written for address a when they are in states E.
WrittenIn(E, a) == UNION {Wrote(E[a][h]) : h \in Handlers}

IsolationInv ==
    /\ \A a \in Addrs : Among(tlsOut[a], WrittenIn(engine, a))
    /\ \A h \in Handlers : pc[h] = "idle" => output[h] = << >>
    /\ \A h \in Handlers :
          pc[h] # "idle" => Among(output[h], WrittenIn(engine, request[h].addr))
    /\ \A h \in Handlers :
          pc[h] = "send" /\ reply[h].kind = "fragment" =>
              Among(reply[h].cells, WrittenIn(engine, reply[h].addr))
    /\ \A r \in replies :
          r.kind = "fragment" => Among(r.cells, WrittenIn(engine, r.addr))

-----------------------------------------------------------------------------
(* Sequences of cells. *)

\* What sequences made from others hold.
LEMMA AmongParts ==
    ASSUME NEW W, NEW s \in Seq(Cell), Among(s, W)
    PROVE  /\ s # << >> => Among(Tail(s), W)
           /\ s # << >> => Among(<< s[1] >>, W)
           /\ \A t \in Seq(Cell) : Among(t, W) => Among(s \o t, W)
           /\ \A c \in W \cap Cell : s # << >> => Among([s EXCEPT ![1] = c], W)
<1>1. ASSUME s # << >> PROVE Among(Tail(s), W)
  <2>1. /\ Len(s) \in Nat \ {0} /\ Len(Tail(s)) = Len(s) - 1
        /\ \A i \in 1 .. Len(Tail(s)) : Tail(s)[i] = s[i + 1]
    BY <1>1
  <2>2. \A i \in 1 .. Len(Tail(s)) : i + 1 \in 1 .. Len(s)
    BY <2>1
  <2> QED
    BY <2>1, <2>2 DEF Among
<1>2. ASSUME s # << >> PROVE Among(<< s[1] >>, W)
  <2>1. 1 \in 1 .. Len(s)
    BY <1>2
  <2>2. s[1] \in W
    BY <2>1 DEF Among
  <2> QED
    BY <2>2 DEF Among
<1>3. ASSUME NEW t \in Seq(Cell), Among(t, W) PROVE Among(s \o t, W)
  <2>1. /\ Len(s \o t) = Len(s) + Len(t) /\ Len(s) \in Nat /\ Len(t) \in Nat
        /\ \A i \in 1 .. Len(s) + Len(t) :
              (s \o t)[i] = IF i =< Len(s) THEN s[i] ELSE t[i - Len(s)]
    BY ConcatProperties
  <2>2. \A i \in 1 .. Len(s) + Len(t) :
           IF i =< Len(s) THEN i \in 1 .. Len(s) ELSE i - Len(s) \in 1 .. Len(t)
    BY <2>1
  <2> QED
    BY <1>3, <2>1, <2>2 DEF Among
<1>4. ASSUME NEW c \in W \cap Cell, s # << >> PROVE Among([s EXCEPT ![1] = c], W)
  <2>1. 1 \in 1 .. Len(s) /\ c \in Cell
    BY <1>4
  <2>2. /\ Len([s EXCEPT ![1] = c]) = Len(s)
        /\ \A i \in 1 .. Len(s) : [s EXCEPT ![1] = c][i] = IF i = 1 THEN c ELSE s[i]
    BY <2>1, ExceptSeq
  <2> QED
    BY <2>2, <1>4 DEF Among
<1> QED
  BY <1>1, <1>2, <1>3, <1>4

\* A larger set holds them too.
LEMMA AmongMore ==
    ASSUME NEW W, NEW V, W \subseteq V, NEW s, Among(s, W)
    PROVE  Among(s, V)
BY DEF Among

\* Nothing is in the empty sequence.
LEMMA AmongNone == \A W : Among(<< >>, W)
BY DEF Among

-----------------------------------------------------------------------------
(* What engines have written. *)

\* An engine that has got further has written more.
LEMMA WroteMore ==
    ASSUME NEW e, NEW f, e.expects \in Nat, f.expects \in Nat,
           e.expects =< f.expects, e.pc = "failed" => f.pc = "failed"
    PROVE  Wrote(e) \subseteq Wrote(f)
<1> SUFFICES ASSUME NEW x \in Wrote(e) PROVE x \in Wrote(f)
  OBVIOUS
<1>1. CASE \E k \in 1 .. e.expects - 1 : x \in {<<k, i>> : i \in 1 .. Answer[k]}
  <2>1. PICK k \in 1 .. e.expects - 1 : x \in {<<k, i>> : i \in 1 .. Answer[k]}
    BY <1>1
  <2>2. k \in 1 .. f.expects - 1
    OBVIOUS
  <2> QED
    BY <2>1, <2>2 DEF Wrote
<1>2. CASE e.pc = "failed" /\ x = Alert
  BY <1>2 DEF Wrote
<1> QED
  BY <1>1, <1>2 DEF Wrote

\* What that is, element by element.
LEMMA WroteThese ==
    ASSUME NEW f
    PROVE  /\ \A k \in 1 .. f.expects - 1 : \A i \in 1 .. Answer[k] : <<k, i>> \in Wrote(f)
           /\ f.pc = "failed" => Alert \in Wrote(f)
<1>1. ASSUME NEW k \in 1 .. f.expects - 1, NEW i \in 1 .. Answer[k]
      PROVE  <<k, i>> \in Wrote(f)
  <2>1. <<k, i>> \in {<<k, j>> : j \in 1 .. Answer[k]}
    OBVIOUS
  <2> QED
    BY <2>1 DEF Wrote
<1>2. f.pc = "failed" => Alert \in Wrote(f)
  BY DEF Wrote
<1> QED
  BY <1>1, <1>2

\* An engine only gets further.
LEMMA EnginesAdvance ==
    ASSUME TypeOK, HandshakeInv, TypeOK', [Next]_vars, NEW a \in Addrs, NEW g \in Handlers
    PROVE  /\ engine[a][g].expects =< engine'[a][g].expects
           /\ engine[a][g].pc = "failed" => engine'[a][g].pc = "failed"
<1> DEFINE e == engine[a][g]
           f == engine'[a][g]
<1>0. e \in Engine /\ f \in Engine /\ e.expects \in Nat /\ EngineInv(a, g)
  BY DEF TypeOK, Engine, HandshakeInv
<1>1. CASE engine' = engine
  BY <1>0, <1>1
<1>2. ASSUME NEW b \in Addrs, NEW h \in Handlers, EngineStep(b, h)
      PROVE  e.expects =< f.expects /\ (e.pc = "failed" => f.pc = "failed")
  <2>1. CASE b # a \/ h # g
    <3>1. f = e
      BY <1>2, <2>1, EngineFrame
    <3> QED
      BY <1>0, <3>1
  <2>2. CASE b = a /\ h = g
    <3>1. e.pc # "failed"
      BY <1>2, <2>2, EngineFrame
    <3>2. CASE EngineRun(a, g)
      <4>1. f.expects = e.expects + 1
        BY <3>2 DEF TypeOK, EngineRun
      <4> QED
        BY <1>0, <3>1, <4>1
    <3>3. CASE EnginePoll(a, g) \/ EngineRead(a, g) \/ EngineAlert(a, g) \/ EngineFinish(a, g)
      <4>1. f.expects = e.expects
        <5>1. CASE EnginePoll(a, g)
          BY <1>0, <5>1 DEF TypeOK, Engine, EnginePoll
        <5>2. CASE EngineRead(a, g)
          BY <1>0, <5>2 DEF TypeOK, Engine, EngineRead
        <5>3. CASE EngineAlert(a, g)
          BY <1>0, <5>3 DEF TypeOK, Engine, EngineAlert
        <5>4. CASE EngineFinish(a, g)
          BY <1>0, <5>4 DEF TypeOK, Engine, EngineFinish
        <5> QED
          BY <3>3, <5>1, <5>2, <5>3, <5>4
      <4> QED
        BY <1>0, <3>1, <4>1
    <3> QED
      BY <1>2, <2>2, <3>2, <3>3 DEF EngineStep
  <2> QED
    BY <2>1, <2>2
<1>3. ASSUME NEW h \in Handlers, StartEngine(h)
      PROVE  e.expects =< f.expects /\ (e.pc = "failed" => f.pc = "failed")
  <2>1. Addr(h) \in Addrs /\ engine[Addr(h)][h].pc = "off"
    BY <1>3, RequestFields DEF StartEngine, HandshakeInv, HandlerInv, StartInv, Addr
  <2>2. CASE a = Addr(h) /\ g = h
    <3>1. e.pc = "off" /\ e.expects = 1 /\ f.expects = 1
      BY <1>0, <1>3, <2>1, <2>2 DEF TypeOK, EngineInv, StartEngine
    <3> QED
      BY <3>1
  <2>3. CASE a # Addr(h) \/ g # h
    <3>1. f = e
      BY <1>3, <2>1, <2>3 DEF TypeOK, StartEngine
    <3> QED
      BY <1>0, <3>1
  <2> QED
    BY <2>2, <2>3
<1>4. ASSUME NEW h \in Handlers, HandlerStep(h), ~ StartEngine(h) PROVE engine' = engine
  BY <1>4 DEF HandlerStep, Identity, Ignore, Pump, TestConn, Available, Expire, TakeBytes,
     TestFirst, MarkSending, SendChunk, MarkSent, ResetOut, Finish, Send
<1>5. ASSUME NEW h \in Handlers, NEW r \in Request, Receive(h, r) PROVE engine' = engine
  BY <1>5 DEF Receive
<1>6. CASE UNCHANGED vars
  BY <1>1, <1>6 DEF vars
<1> QED
  BY <1>1, <1>2, <1>3, <1>4, <1>5, <1>6 DEF Next, Server, Environment

\* What was written stays written.
LEMMA WrittenGrows ==
    ASSUME TypeOK, HandshakeInv, TypeOK', [Next]_vars, NEW a \in Addrs
    PROVE  WrittenIn(engine, a) \subseteq WrittenIn(engine', a)
<1>1. ASSUME NEW h \in Handlers PROVE Wrote(engine[a][h]) \subseteq Wrote(engine'[a][h])
  <2>1. engine[a][h].expects \in Nat /\ engine'[a][h].expects \in Nat
    BY DEF TypeOK, Engine
  <2>2. /\ engine[a][h].expects =< engine'[a][h].expects
        /\ engine[a][h].pc = "failed" => engine'[a][h].pc = "failed"
    BY EnginesAdvance
  <2> QED
    BY <2>1, <2>2, WroteMore
<1> QED
  BY <1>1 DEF WrittenIn

-----------------------------------------------------------------------------
(* The steps. *)

\* What a step of handler h does to buffers, views and packets.
LEMMA OutputFrame ==
    ASSUME TypeOK, HandshakeInv, NEW h \in Handlers, HandlerStep(h)
    PROVE  /\ \A g \in Handlers \ {h} :
                 /\ pc'[g] = pc[g] /\ output'[g] = output[g]
                 /\ reply'[g] = reply[g] /\ request'[g] = request[g]
           /\ \A a \in Addrs : \/ tlsOut'[a] \in {tlsOut[a], << >>}
                               \/ tlsOut[a] # << >> /\ tlsOut'[a] = Tail(tlsOut[a])
           /\ \/ replies' = replies
              \/ pc[h] = "send" /\ replies' = replies \cup {reply[h]}
           /\ pc'[h] = "idle" => output'[h] = << >>
           /\ pc[h] # "idle"
           /\ pc'[h] # "idle" => /\ request'[h] = request[h]
                                 /\ output'[h] \in {output[h], tlsOut[Addr(h)]}
           /\ pc'[h] = "send" /\ reply'[h].kind = "fragment" =>
                 /\ reply'[h].addr = Addr(h)
                 /\ \/ reply'[h].cells = output[h]
                    \/ output[h] # << >> /\ reply'[h].cells = << output[h][1] >>
<1> USE DEF TypeOK, Goto, Labels, sessionVars, handlerVars, netVars
<1>0. pc[h] # "idle" => Addr(h) \in Addrs
  BY RequestFields DEF HandshakeInv, HandlerInv, Addr
<1>1. CASE Identity(h)
  BY <1>1 DEF Identity, Answers
<1>2. CASE Ignore(h)
  BY <1>2 DEF Ignore, Retire
<1>3. CASE Pump(h)
  BY <1>3 DEF Pump
<1>4. CASE TestConn(h)
  BY <1>4 DEF TestConn
<1>5. CASE StartEngine(h)
  BY <1>5 DEF StartEngine
<1>6. CASE Available(h)
  BY <1>6 DEF Available
<1>7. CASE Expire(h)
  BY <1>7 DEF Expire, Retire
<1>8. CASE TakeBytes(h)
  BY <1>8 DEF TakeBytes
<1>9. CASE TestFirst(h)
  BY <1>9 DEF TestFirst
<1>10. CASE MarkSending(h)
  BY <1>10 DEF MarkSending
<1>11. CASE SendChunk(h)
  <2>1. output[h] # << >>
    <3>1. Len(output[h]) > 1
      BY <1>11 DEF SendChunk, HandshakeInv, HandlerInv
    <3> QED
      BY <3>1
  <2>2. reply'[h] = Fragment(h, TRUE, << output[h][1] >>)
    BY <1>11 DEF SendChunk, Answers
  <2>3. reply'[h].addr = Addr(h) /\ reply'[h].cells = << output[h][1] >>
    BY <2>2 DEF Fragment, Addr
  <2>4. pc'[h] = "send" /\ pc[h] = "next"
    BY <1>11 DEF SendChunk, Answers
  <2>5. \A a \in Addrs : \/ tlsOut'[a] \in {tlsOut[a], << >>}
                         \/ tlsOut[a] # << >> /\ tlsOut'[a] = Tail(tlsOut[a])
    BY <1>0, <1>11, <2>4 DEF SendChunk
  <2> QED
    BY <1>11, <2>1, <2>3, <2>4, <2>5 DEF SendChunk, Answers
<1>12. CASE MarkSent(h)
  BY <1>12 DEF MarkSent
<1>13. CASE ResetOut(h)
  BY <1>0, <1>13 DEF ResetOut
<1>14. CASE Finish(h)
  <2>1. pc'[h] = "send" /\ pc[h] = "finish"
    BY <1>14 DEF Finish, Answers
  <2>2. reply'[h].kind = "fragment" => reply'[h].addr = Addr(h) /\ reply'[h].cells = output[h]
    BY <1>14 DEF Finish, Answers, Fragment, Addr
  <2> QED
    BY <1>14, <2>1, <2>2 DEF Finish, Answers
<1>15. CASE Send(h)
  BY <1>15 DEF Send, Retire
<1> QED
  BY <1>1, <1>2, <1>3, <1>4, <1>5, <1>6, <1>7, <1>8, <1>9, <1>10, <1>11,
       <1>12, <1>13, <1>14, <1>15 DEF HandlerStep

\* Views, packets and buffers of the others keep what they hold.
LEMMA IsolationHandler ==
    ASSUME TypeOK, HandshakeInv, TypeOK', HandshakeInv', IsolationInv,
           NEW h \in Handlers, HandlerStep(h)
    PROVE  IsolationInv'
<1> DEFINE W(a) == WrittenIn(engine, a)
           V(a) == WrittenIn(engine', a)
<1>1. \A a \in Addrs : W(a) \subseteq V(a)
  BY WrittenGrows DEF Next, Server
<1>2. /\ \A g \in Handlers : pc[g] # "idle" => request[g].addr \in Addrs
      /\ \A g \in Handlers : pc[g] = "send" => reply[g].addr \in Addrs
      /\ \A r \in replies : r.addr \in Addrs
  BY RequestFields DEF TypeOK, HandshakeInv, HandlerInv, Reply
<1>3. /\ \A a \in Addrs : tlsOut[a] \in Seq(Cell)
      /\ \A g \in Handlers : output[g] \in Seq(Cell)
  BY DEF TypeOK
<1>4. /\ \A g \in Handlers \ {h} :
            /\ pc'[g] = pc[g] /\ output'[g] = output[g]
            /\ reply'[g] = reply[g] /\ request'[g] = request[g]
      /\ \A a \in Addrs : \/ tlsOut'[a] \in {tlsOut[a], << >>}
                          \/ tlsOut[a] # << >> /\ tlsOut'[a] = Tail(tlsOut[a])
      /\ \/ replies' = replies
         \/ pc[h] = "send" /\ replies' = replies \cup {reply[h]}
      /\ pc'[h] = "idle" => output'[h] = << >>
      /\ pc[h] # "idle"
      /\ pc'[h] # "idle" => /\ request'[h] = request[h]
                            /\ output'[h] \in {output[h], tlsOut[request[h].addr]}
      /\ pc'[h] = "send" /\ reply'[h].kind = "fragment" =>
            /\ reply'[h].addr = request[h].addr
            /\ \/ reply'[h].cells = output[h]
               \/ output[h] # << >> /\ reply'[h].cells = << output[h][1] >>
  BY OutputFrame DEF Addr
<1>5. /\ \A a \in Addrs : Among(tlsOut[a], W(a))
      /\ \A g \in Handlers : pc[g] = "idle" => output[g] = << >>
      /\ \A g \in Handlers : pc[g] # "idle" => Among(output[g], W(request[g].addr))
      /\ \A g \in Handlers :
            pc[g] = "send" /\ reply[g].kind = "fragment" =>
                Among(reply[g].cells, W(reply[g].addr))
      /\ \A r \in replies : r.kind = "fragment" => Among(r.cells, W(r.addr))
  BY DEF IsolationInv
<1> HIDE DEF W, V
<1>6. \A a \in Addrs : \A s : Among(s, W(a)) => Among(s, V(a))
  BY <1>1, AmongMore
<1>7. \A a \in Addrs : Among(tlsOut'[a], V(a))
  <2> SUFFICES ASSUME NEW a \in Addrs PROVE Among(tlsOut'[a], V(a))
    OBVIOUS
  <2>1. Among(tlsOut[a], W(a)) /\ tlsOut[a] \in Seq(Cell)
    BY <1>3, <1>5
  <2>2. tlsOut[a] # << >> => Among(Tail(tlsOut[a]), W(a))
    BY <2>1, AmongParts
  <2>3. Among(<< >>, W(a))
    BY AmongNone
  <2> QED
    BY <1>4, <1>6, <2>1, <2>2, <2>3
<1>8. \A g \in Handlers : pc'[g] = "idle" => output'[g] = << >>
  BY <1>4, <1>5
<1>9. \A g \in Handlers : pc'[g] # "idle" => Among(output'[g], V(request'[g].addr))
  <2>1. ASSUME NEW g \in Handlers \ {h}, pc'[g] # "idle"
        PROVE  Among(output'[g], V(request'[g].addr))
    BY <1>2, <1>4, <1>5, <1>6, <2>1
  <2>2. ASSUME pc'[h] # "idle" PROVE Among(output'[h], V(request'[h].addr))
    BY <1>2, <1>4, <1>5, <1>6, <2>2
  <2> QED
    BY <2>1, <2>2
<1>10. ASSUME NEW g \in Handlers, pc'[g] = "send", reply'[g].kind = "fragment"
       PROVE  Among(reply'[g].cells, V(reply'[g].addr))
  <2>1. CASE g # h
    BY <1>2, <1>4, <1>5, <1>6, <1>10, <2>1
  <2>2. CASE g = h
    <3>1. Among(output[h], W(request[h].addr)) /\ output[h] \in Seq(Cell)
      BY <1>3, <1>4, <1>5
    <3>2. output[h] # << >> => Among(<< output[h][1] >>, W(request[h].addr))
      BY <3>1, AmongParts
    <3> QED
      BY <1>2, <1>4, <1>6, <1>10, <2>2, <3>1, <3>2
  <2> QED
    BY <2>1, <2>2
<1>11. ASSUME NEW r \in replies', r.kind = "fragment" PROVE Among(r.cells, V(r.addr))
  <2>1. CASE r \in replies
    BY <1>2, <1>5, <1>6, <1>11, <2>1
  <2>2. CASE r \notin replies
    <3>1. pc[h] = "send" /\ r = reply[h]
      BY <1>4, <2>2
    <3> QED
      BY <1>2, <1>5, <1>6, <1>11, <3>1
  <2> QED
    BY <2>1, <2>2
<1> QED
  BY <1>7, <1>8, <1>9, <1>10, <1>11 DEF IsolationInv, V

\* An engine puts what it has written into the buffer of its own address, and
\* into views of that buffer.
LEMMA IsolationEngine ==
    ASSUME TypeOK, HandshakeInv, TypeOK', HandshakeInv', IsolationInv,
           NEW b \in Addrs, NEW h \in Handlers, EngineStep(b, h)
    PROVE  IsolationInv'
<1> DEFINE W(a) == WrittenIn(engine, a)
           V(a) == WrittenIn(engine', a)
<1>1. \A a \in Addrs : W(a) \subseteq V(a)
  BY WrittenGrows DEF Next, Server
<1>2. /\ \A g \in Handlers : pc[g] # "idle" => request[g].addr \in Addrs
      /\ \A g \in Handlers : pc[g] = "send" => reply[g].addr \in Addrs
      /\ \A r \in replies : r.addr \in Addrs
  BY RequestFields DEF TypeOK, HandshakeInv, HandlerInv, Reply
<1>3. /\ \A a \in Addrs : tlsOut[a] \in Seq(Cell)
      /\ \A g \in Handlers : output[g] \in Seq(Cell)
      /\ DOMAIN output = Handlers
  BY DEF TypeOK
<1>4. UNCHANGED <<pc, request, reply, replies>>
  BY EngineFrame
<1>5. /\ \A a \in Addrs : Among(tlsOut[a], W(a))
      /\ \A g \in Handlers : pc[g] = "idle" => output[g] = << >>
      /\ \A g \in Handlers : pc[g] # "idle" => Among(output[g], W(request[g].addr))
      /\ \A g \in Handlers :
            pc[g] = "send" /\ reply[g].kind = "fragment" =>
                Among(reply[g].cells, W(reply[g].addr))
      /\ \A r \in replies : r.kind = "fragment" => Among(r.cells, W(r.addr))
  BY DEF IsolationInv
<1>6. \A a \in Addrs : \A s : Among(s, W(a)) => Among(s, V(a))
  <2> HIDE DEF W, V
  <2> QED
    BY <1>1, AmongMore
\* What Write does, and that it wrote it.
<1>7. \/ UNCHANGED <<tlsOut, output>>
      \/ \E cs \in Seq(Cell) : Write(b, cs) /\ Among(cs, V(b))
  <2> DEFINE e == engine[b][h]
             f == engine'[b][h]
  <2>1. V(b) = UNION {Wrote(engine'[b][g]) : g \in Handlers}
    BY DEF WrittenIn
  <2>2. Wrote(f) \subseteq V(b)
    BY <2>1
  <2>3. e \in Engine /\ EngineInv(b, h)
    BY DEF TypeOK, HandshakeInv
  <2>4. CASE EngineRun(b, h)
    <3>1. e.expects \in DOMAIN Answer /\ Write(b, Cells(e.expects))
      BY <2>3, <2>4 DEF EngineRun, EngineInv
    <3>2. f.expects = e.expects + 1
      BY <2>4 DEF TypeOK, EngineRun
    <3>3. e.expects \in 1 .. f.expects - 1 /\ Answer[e.expects] \in Nat
      BY <3>1, <3>2, AnswerAssumption
    <3>4. ASSUME NEW i \in 1 .. Answer[e.expects] PROVE <<e.expects, i>> \in Wrote(f)
      BY <3>3, WroteThese
    <3>5. /\ Len(Cells(e.expects)) = Answer[e.expects]
          /\ \A i \in 1 .. Answer[e.expects] : Cells(e.expects)[i] = <<e.expects, i>>
      BY <3>3 DEF Cells
    <3>6. Among(Cells(e.expects), V(b))
      BY <2>2, <3>4, <3>5 DEF Among
    <3>7. Cells(e.expects) \in Seq(Cell)
      BY <3>1, CellsType
    <3> QED
      BY <3>1, <3>6, <3>7
  <2>5. CASE EngineAlert(b, h)
    <3>1. f.pc = "failed"
      BY <2>3, <2>5 DEF TypeOK, Engine, EngineAlert
    <3>2. Alert \in Wrote(f)
      BY <3>1, WroteThese
    <3>3. Among(<< Alert >>, V(b))
      BY <2>2, <3>2 DEF Among
    <3>4. << Alert >> \in Seq(Cell) /\ Write(b, << Alert >>)
      BY <2>5 DEF Alert, Cell, EngineAlert
    <3> QED
      BY <3>3, <3>4
  <2>6. CASE EnginePoll(b, h) \/ EngineRead(b, h) \/ EngineFinish(b, h)
    BY <2>6 DEF EnginePoll, EngineRead, EngineFinish, sessionVars, handlerVars
  <2> QED
    BY <2>4, <2>5, <2>6 DEF EngineStep
<1>8. /\ \A a \in Addrs : Among(tlsOut'[a], V(a))
      /\ \A g \in Handlers : pc[g] = "idle" => output'[g] = << >>
      /\ \A g \in Handlers : pc[g] # "idle" => Among(output'[g], V(request[g].addr))
  <2> HIDE DEF W, V
  <2>1. CASE UNCHANGED <<tlsOut, output>>
    BY <1>2, <1>5, <1>6, <2>1
  <2>2. ASSUME NEW cs \in Seq(Cell), Write(b, cs), Among(cs, V(b))
        PROVE  /\ \A a \in Addrs : Among(tlsOut'[a], V(a))
               /\ \A g \in Handlers : pc[g] = "idle" => output'[g] = << >>
               /\ \A g \in Handlers : pc[g] # "idle" => Among(output'[g], V(request[g].addr))
    <3>1. /\ tlsOut' = [tlsOut EXCEPT ![b] = @ \o cs]
          /\ tlsOut \in [Addrs -> Seq(Cell)]
      BY <2>2 DEF Write, TypeOK
    <3>2. ASSUME NEW a \in Addrs PROVE Among(tlsOut'[a], V(a))
      <4>1. Among(tlsOut[a], V(a)) /\ tlsOut[a] \in Seq(Cell)
        BY <1>3, <1>5, <1>6
      <4>2. a = b => Among(tlsOut[a] \o cs, V(a))
        BY <2>2, <4>1, AmongParts
      <4> QED
        BY <3>1, <4>1, <4>2
    <3>3. ASSUME NEW g \in Handlers
          PROVE  \/ output'[g] = output[g]
                 \/ /\ output[g] # << >> /\ request[g].addr = b
                    /\ \E i \in 1 .. Len(cs) : output'[g] = [output[g] EXCEPT ![1] = cs[i]]
      BY <2>2 DEF Write, Addr
    <3>4. ASSUME NEW g \in Handlers, pc[g] = "idle" PROVE output'[g] = << >>
      BY <1>5, <3>3, <3>4
    <3>5. ASSUME NEW g \in Handlers, pc[g] # "idle"
          PROVE  Among(output'[g], V(request[g].addr))
      <4>1. Among(output[g], V(request[g].addr)) /\ output[g] \in Seq(Cell)
        BY <1>2, <1>3, <1>5, <1>6, <3>5
      <4>2. ASSUME output[g] # << >>, request[g].addr = b, NEW i \in 1 .. Len(cs)
            PROVE  Among([output[g] EXCEPT ![1] = cs[i]], V(b))
        <5>1. cs[i] \in V(b) /\ cs[i] \in Cell
          BY <2>2, ElementOfSeq DEF Among
        <5> QED
          BY <4>1, <4>2, <5>1, AmongParts
      <4> QED
        BY <3>3, <4>1, <4>2
    <3> QED
      BY <3>2, <3>4, <3>5
  <2> QED
    BY <1>7, <2>1, <2>2
<1> HIDE DEF W, V
<1>9. ASSUME NEW g \in Handlers, pc'[g] = "send", reply'[g].kind = "fragment"
      PROVE  Among(reply'[g].cells, V(reply'[g].addr))
  BY <1>2, <1>4, <1>5, <1>6, <1>9
<1>10. ASSUME NEW r \in replies', r.kind = "fragment" PROVE Among(r.cells, V(r.addr))
  BY <1>2, <1>4, <1>5, <1>6, <1>10
<1>11. \A g \in Handlers : pc'[g] = pc[g] /\ request'[g] = request[g]
  BY <1>4
<1> QED
  BY <1>8, <1>9, <1>10, <1>11 DEF IsolationInv, V

\* A new handler has an empty view.
LEMMA IsolationReceive ==
    ASSUME TypeOK, HandshakeInv, IsolationInv, NEW h \in Handlers, NEW r \in Request,
           Receive(h, r)
    PROVE  IsolationInv'
<1>1. /\ UNCHANGED <<engine, tlsOut, output, reply, replies>>
      /\ output[h] = << >> /\ pc'[h] = "switch"
      /\ \A g \in Handlers \ {h} : pc'[g] = pc[g] /\ request'[g] = request[g]
  BY DEF Receive, Goto, IsolationInv, TypeOK
<1>2. ASSUME NEW g \in Handlers, pc'[g] # "idle"
      PROVE  Among(output'[g], WrittenIn(engine', request'[g].addr))
  <2>1. CASE g = h
    BY <1>1, <2>1, AmongNone
  <2>2. CASE g # h
    BY <1>1, <1>2, <2>2 DEF IsolationInv
  <2> QED
    BY <2>1, <2>2
<1>3. ASSUME NEW g \in Handlers, pc'[g] = "send" PROVE pc[g] = "send"
  BY <1>1, <1>3
<1>4. \A g \in Handlers : pc'[g] = "idle" => output'[g] = << >>
  BY <1>1 DEF IsolationInv
<1> QED
  BY <1>1, <1>2, <1>3, <1>4 DEF IsolationInv

\* Nothing is buffered or sent at the start, and no step mixes sessions.
LEMMA IsolationStep ==
    ASSUME TypeOK, HandshakeInv, IsolationInv, [Next]_vars
    PROVE  IsolationInv'
<1>1. TypeOK' /\ HandshakeInv'
  BY InvariantStep
<1>2. CASE UNCHANGED vars
  BY <1>2 DEF IsolationInv, vars, sessionVars, handlerVars, netVars
<1> QED
  BY <1>1, <1>2, IsolationHandler, IsolationEngine, IsolationReceive
     DEF Next, Server, Environment

\* TLS bytes never cross from one client's session to another's, and none is
\* sent that no engine has written.
THEOREM IsolationTheorem == Spec => []SessionIsolation
<1>1. Init => IsolationInv
  BY AmongNone DEF Init, IsolationInv
<1>2. IsolationInv => SessionIsolation
  BY DEF IsolationInv, SessionIsolation, Among, WrittenIn, Written
<1> QED
  BY <1>1, <1>2, IsolationStep, Invariance, PTL DEF Spec
=============================================================================
