----------------------------- MODULE TacacsProofs -----------------------------
(***************************************************************************)
(* Proofs about the TACACS+ server, for any connections, packets and users *)
(* and any number of packets sent ahead: its state is well-typed, replies  *)
(* are paired with requests, and only a single connection gets more than   *)
(* one.  All of it holds with the command-line client among the clients,   *)
(* and every run of that client prints the verdict it is due.              *)
(*                                                                         *)
(* The inductive invariant is TypeOK /\ PairingInv /\ PairedReplies /\     *)
(* OneReplyUnlessSingle: the last two speak of what clients have seen,     *)
(* PairingInv of what is still on its way to them.  CliInv adds how far    *)
(* each run has got and what the server holds for it by then.              *)
(***************************************************************************)
EXTENDS TacacsSystem, TLAPS, SequenceTheorems

ServerInv == TypeOK /\ PairingInv /\ PairedReplies /\ OneReplyUnlessSingle

-----------------------------------------------------------------------------
(* Replies. *)

\* What a body of each kind has.
LEMMA BodyFields ==
    ASSUME NEW b \in Body
    PROVE  /\ b.kind = "start" => b.user \in Users \cup {NoName}
           /\ b.kind = "author" => b.user \in Users \cup {NoName} /\ b.args \in Args
BY DEF Body

\* The body of a packet that is read as it was meant is the one that was sent.
LEMMA DecodedBodies ==
    ASSUME NEW r \in Requests
    PROVE  /\ Decoded(r) \subseteq Body
           /\ Legible(r) => Decoded(r) = {r.body}
<1>1. r \in Request /\ r.body \in Body
  BY RequestsAssumption DEF Request
<1> QED
  BY <1>1 DEF Decoded, Legible

\* Whatever the server may reply to a packet is a right answer to it.
LEMMA RepliesRight ==
    ASSUME NEW r \in Requests, NEW p \in Replies(r)
    PROVE  p \in Reply /\ RightAnswer(r, p) /\ p.single = r.single
<1>1. /\ r.seq \in 0 .. 255 /\ r.session \in Sessions
      /\ r.single \in BOOLEAN /\ r.clear \in BOOLEAN
  BY RequestsAssumption DEF Request
<1>2. SeqNo(r.seq) \in 0 .. 255 /\ SeqNo(r.seq) = (r.seq + 1) % 256
  BY <1>1 DEF SeqNo
<1> DEFINE Answer(v) ==
      [type |-> r.type, seq |-> SeqNo(r.seq), session |-> r.session, single |-> r.single,
       clear |-> r.clear, status |-> v.status, args |-> v.args]
<1>3. CASE r.type = "authen"
  <2>1. PICK b \in Decoded(r) : b.kind = "start" /\ p = Answer(ProcessAuthenStart(b))
    BY <1>3 DEF Replies
  <2>2. /\ ProcessAuthenStart(b).status \in {"pass", "fail", "getuser"}
        /\ ProcessAuthenStart(b).status = "fail" <=> b.user \in Denied
        /\ ProcessAuthenStart(b).args \in Args
    BY ArgsAssumption DEF ProcessAuthenStart
  <2>3. Legible(r) => b = r.body
    BY DecodedBodies
  <2> HIDE DEF Answer
  <2>4. /\ p.type = "authen" /\ p.seq = SeqNo(r.seq) /\ p.session = r.session
        /\ p.single = r.single /\ p.clear = r.clear
        /\ p.status = ProcessAuthenStart(b).status /\ p.args = ProcessAuthenStart(b).args
    BY <1>3, <2>1 DEF Answer
  <2>5. p \in Reply
    BY <1>1, <1>2, <1>3, <2>1, <2>2 DEF Reply, Status, Answer
  <2> QED
    BY <1>2, <1>3, <2>2, <2>3, <2>4, <2>5 DEF RightAnswer
<1>4. CASE r.type = "author"
  <2>1. PICK b \in Decoded(r) : b.kind = "author" /\ p = Answer(ProcessAuthorRequest(b))
    BY <1>4 DEF Replies
  <2>2. b.args \in Args
    BY <2>1, DecodedBodies, BodyFields
  <2>3. /\ ProcessAuthorRequest(b).status \in {"fail", "pass_add"}
        /\ ProcessAuthorRequest(b).status = "fail" <=> b.user \in Denied
        /\ ProcessAuthorRequest(b).status = "pass_add" => ProcessAuthorRequest(b).args = b.args
        /\ ProcessAuthorRequest(b).args \in Args
    BY <2>2, ArgsAssumption DEF ProcessAuthorRequest
  <2>4. Legible(r) => b = r.body
    BY DecodedBodies
  <2> HIDE DEF Answer
  <2>5. /\ p.type = "author" /\ p.seq = SeqNo(r.seq) /\ p.session = r.session
        /\ p.single = r.single /\ p.clear = r.clear
        /\ p.status = ProcessAuthorRequest(b).status /\ p.args = ProcessAuthorRequest(b).args
    BY <1>4, <2>1 DEF Answer
  <2>6. p \in Reply
    BY <1>1, <1>2, <1>4, <2>1, <2>3 DEF Reply, Status, Answer
  <2> QED
    BY <1>2, <1>4, <2>3, <2>4, <2>5, <2>6 DEF RightAnswer
<1>5. CASE r.type \notin {"authen", "author"}
  BY <1>5 DEF Replies
<1> QED
  BY <1>3, <1>4, <1>5

-----------------------------------------------------------------------------
(* Type correctness. *)

\* Nothing is open and nothing has been sent.
LEMMA TypeInit == Init => TypeOK
<1> SUFFICES ASSUME Init PROVE TypeOK
  OBVIOUS
<1>1. << >> \in Seq(Requests) /\ << >> \in Seq(Reply)
  OBVIOUS
<1>2. [pc |-> "none", single |-> FALSE, reply |-> NoReply] \in Conn
  BY DEF Conn
<1> QED
  BY <1>1, <1>2 DEF Init, TypeOK

\* Steps of ListenAndServe and Close, which touch connections only to accept them.
LEMMA TypeServer ==
    ASSUME TypeOK, ListenAndServe \/ SetClosed \/ CloseReturns
    PROVE  TypeOK'
<1> USE DEF TypeOK, serverVars, clientVars
<1>1. CASE Listen
  BY <1>1 DEF Listen
<1>2. CASE AssignListener
  BY <1>2 DEF AssignListener
<1>3. ASSUME NEW c \in Conns, Accept(c)
      PROVE  TypeOK'
  BY <1>3 DEF Accept, Conn
<1>4. CASE AcceptError
  BY <1>4 DEF AcceptError
<1>5. CASE CheckClosed
  BY <1>5 DEF CheckClosed
<1>6. CASE SetClosed
  BY <1>6 DEF SetClosed
<1>7. CASE CloseReturns
  BY <1>7 DEF CloseReturns, TestListener, CloseListener
<1> QED
  BY <1>1, <1>2, <1>3, <1>4, <1>5, <1>6, <1>7 DEF ListenAndServe

\* Steps of handleConnection.
LEMMA TypeServe ==
    ASSUME TypeOK, PairingInv, NEW c \in Conns, Serve(c)
    PROVE  TypeOK'
<1> USE DEF TypeOK, serverVars, clientVars
<1>1. CASE ReadRequest(c)
  <2> DEFINE r == Head(inbox[c])
  <2>1. inbox[c] \in Seq(Requests) /\ inbox[c] # << >>
    BY <1>1 DEF ReadRequest
  <2>2. r \in Requests /\ Tail(inbox[c]) \in Seq(Requests)
    BY <2>1
  <2>3. inbox' \in [Conns -> Seq(Requests)]
    BY <1>1, <2>2 DEF ReadRequest
  <2>4. conn' \in [Conns -> Conn]
    <3>1. r.single \in BOOLEAN
      BY <2>2, RequestsAssumption DEF Request
    <3>2. \A p \in Replies(r) : p \in Reply
      BY <2>2, RepliesRight
    <3>3. \A p \in Replies(r) : [pc |-> "write", single |-> r.single, reply |-> p] \in Conn
      BY <3>1, <3>2 DEF Conn
    <3>4. \A x \in Conn : [x EXCEPT !.pc = "closed"] \in Conn
      BY DEF Conn
    <3>5. \/ \E p \in Replies(r) :
               conn' = [conn EXCEPT ![c] = [pc |-> "write", single |-> r.single, reply |-> p]]
          \/ conn' = [conn EXCEPT ![c].pc = "closed"]
      BY <1>1 DEF ReadRequest
    <3> HIDE DEF r
    <3>6. conn \in [Conns -> Conn]
      OBVIOUS
    <3> HIDE DEF TypeOK
    <3> QED
      BY <3>3, <3>4, <3>5, <3>6
  <2> QED
    BY <1>1, <2>3, <2>4 DEF ReadRequest
<1>2. CASE ReadEnd(c)
  BY <1>2 DEF ReadEnd, Conn
<1>3. CASE WriteReply(c)
  <2>1. conn[c].reply \in Reply
    BY <1>3 DEF WriteReply, PairingInv
  <2>2. Append(got[c], conn[c].reply) \in Seq(Reply)
    BY <2>1
  <2>3. got' \in [Conns -> Seq(Reply)]
    BY <1>3, <2>2 DEF WriteReply
  <2>4. conn' \in [Conns -> Conn]
    <3>1. \A x \in Conn : \A l \in {"read", "closed"} :
             [x EXCEPT !.pc = l, !.reply = NoReply] \in Conn
      BY DEF Conn
    <3>2. conn[c] \in Conn
      OBVIOUS
    <3> HIDE DEF TypeOK
    <3>3. conn \in [Conns -> Conn]
      BY DEF TypeOK
    <3> QED
      BY <1>3, <3>1, <3>2, <3>3 DEF WriteReply
  <2> QED
    BY <1>3, <2>3, <2>4 DEF WriteReply
<1> QED
  BY <1>1, <1>2, <1>3 DEF Serve

\* Steps of clients.
LEMMA TypeClient ==
    ASSUME TypeOK, NEW c \in Conns, Client(c)
    PROVE  TypeOK'
<1> USE DEF TypeOK, serverVars, clientVars
<1>1. CASE Connect(c)
  BY <1>1 DEF Connect, Conn
<1>2. CASE CloseConn(c)
  BY <1>2 DEF CloseConn
<1>3. ASSUME NEW r \in Requests, SendRequest(c, r)
      PROVE  TypeOK'
  <2>1. Append(sent[c], r) \in Seq(Requests) /\ Append(inbox[c], r) \in Seq(Requests)
    OBVIOUS
  <2> QED
    BY <1>3, <2>1 DEF SendRequest
<1> QED
  BY <1>1, <1>2, <1>3 DEF Client

-----------------------------------------------------------------------------
(* Pairing, one connection at a time. *)

\* What PairingInv, PairedReplies and OneReplyUnlessSingle say of connection c.
Paired(c) ==
    /\ Len(inbox[c]) <= Len(sent[c])
    /\ \A i \in 1 .. Len(inbox[c]) : inbox[c][i] = sent[c][Taken(c) + i]
    /\ Len(got[c]) <= Taken(c)
    /\ conn[c].pc \in {"none", "backlog", "read"} => Len(got[c]) = Taken(c)
    /\ conn[c].pc = "write" =>
          /\ Taken(c) = Len(got[c]) + 1
          /\ RightAnswer(sent[c][Taken(c)], conn[c].reply)
          /\ conn[c].reply \in Reply
          /\ conn[c].single = sent[c][Taken(c)].single
    /\ conn[c].pc # "closed" => \A i \in 1 .. Len(got[c]) : sent[c][i].single
    /\ \A i \in 1 .. Len(got[c]) : RightAnswer(sent[c][i], got[c][i])
    /\ \A i \in 1 .. Len(got[c]) - 1 : sent[c][i].single

\* What is needed of the difference of two lengths.
LEMMA Difference ==
    ASSUME NEW m \in Nat, NEW n \in Nat
    PROVE  /\ m - n \in Int
           /\ \A k \in Nat : k <= m - n => k <= m
           /\ n >= 1 => m - (n - 1) = (m - n) + 1
           /\ (m + 1) - (n + 1) = m - n
           /\ (m - n) + n = m
           /\ n <= m => m - n \in 0 .. m
OBVIOUS

\* The three invariants are Paired for every connection ...
LEMMA PairedIsInv ==
    ASSUME TypeOK
    PROVE  PairingInv /\ PairedReplies /\ OneReplyUnlessSingle <=> \A c \in Conns : Paired(c)
<1>1. \A c \in Conns : Len(inbox[c]) \in Nat /\ Len(sent[c]) \in Nat /\ Len(got[c]) \in Nat
  BY DEF TypeOK
<1>2. \A c \in Conns : Len(got[c]) <= Taken(c) => Len(got[c]) <= Len(sent[c])
  BY <1>1, Difference DEF Taken
<1> QED
  BY <1>1, <1>2 DEF PairingInv, PairedReplies, OneReplyUnlessSingle, Paired

\* ... after a step as well.
LEMMA PairedIsInvNext ==
    ASSUME TypeOK'
    PROVE  (\A c \in Conns : Paired(c)') => (PairingInv /\ PairedReplies /\ OneReplyUnlessSingle)'
<1>1. \A c \in Conns : Len(inbox'[c]) \in Nat /\ Len(sent'[c]) \in Nat /\ Len(got'[c]) \in Nat
  BY DEF TypeOK
<1>2. \A c \in Conns : Len(got'[c]) <= Taken(c)' => Len(got'[c]) <= Len(sent'[c])
  BY <1>1, Difference DEF Taken
<1> QED
  BY <1>1, <1>2 DEF PairingInv, PairedReplies, OneReplyUnlessSingle, Paired

\* A step that leaves the packets of c alone, and its connection but for moving
\* it on before anything is read or closing it, keeps it paired.
LEMMA PairedFrame ==
    ASSUME NEW c \in Conns, Paired(c),
           UNCHANGED <<inbox[c], sent[c], got[c]>>,
           \/ UNCHANGED conn[c]
           \/ /\ conn[c].pc \in {"none", "backlog", "read"}
              /\ conn[c]'.pc \in {"backlog", "read", "closed"}
           \/ conn[c]'.pc = "closed"
    PROVE  Paired(c)'
BY DEF Paired, Taken

\* A packet is read, and its reply prepared or its connection closed.
LEMMA PairedRead ==
    ASSUME TypeOK, NEW c \in Conns, Paired(c), ReadRequest(c)
    PROVE  Paired(c)'
<1> DEFINE r == Head(inbox[c])
<1>1. /\ inbox[c] \in Seq(Requests) /\ inbox[c] # << >>
      /\ sent[c] \in Seq(Requests) /\ got[c] \in Seq(Reply)
  BY DEF TypeOK, ReadRequest
<1>2. Len(inbox[c]) \in Nat /\ Len(inbox[c]) >= 1 /\ Len(sent[c]) \in Nat /\ Len(got[c]) \in Nat
  BY <1>1
<1>3. /\ inbox'[c] = Tail(inbox[c]) /\ sent' = sent /\ got' = got
      /\ conn[c].pc = "read"
  BY DEF TypeOK, ReadRequest
<1>4. /\ Len(inbox'[c]) = Len(inbox[c]) - 1
      /\ \A i \in 1 .. Len(inbox[c]) - 1 : inbox'[c][i] = inbox[c][i + 1]
  BY <1>1, <1>3
<1>5. Taken(c)' = Taken(c) + 1
  <2>1. Taken(c)' = Len(sent[c]) - (Len(inbox[c]) - 1)
    BY <1>3, <1>4 DEF Taken
  <2>2. Taken(c) = Len(sent[c]) - Len(inbox[c])
    BY DEF Taken
  <2> QED
    BY <1>2, <2>1, <2>2, Difference
<1>6. r = inbox[c][1] /\ r \in Requests
  BY <1>1
<1>7. r = sent[c][Taken(c) + 1]
  BY <1>2, <1>6 DEF Paired
<1>8. Len(got[c]) = Taken(c) /\ Taken(c) \in Nat
  BY <1>2, <1>3 DEF Paired, Taken
<1>9. \A i \in 1 .. Len(inbox'[c]) : inbox'[c][i] = sent'[c][Taken(c)' + i]
  <2> SUFFICES ASSUME NEW i \in 1 .. Len(inbox'[c])
               PROVE  inbox'[c][i] = sent'[c][Taken(c)' + i]
    OBVIOUS
  <2>1. i + 1 \in 1 .. Len(inbox[c]) /\ inbox'[c][i] = inbox[c][i + 1]
    BY <1>2, <1>4
  <2>2. inbox[c][i + 1] = sent[c][Taken(c) + (i + 1)]
    BY <2>1 DEF Paired
  <2>3. Taken(c) + (i + 1) = Taken(c)' + i
    BY <1>5, <1>8
  <2> QED
    BY <1>3, <2>1, <2>2, <2>3
<1>10. ASSUME NEW p \in Replies(r),
              conn' = [conn EXCEPT ![c] = [pc |-> "write", single |-> r.single, reply |-> p]]
       PROVE  Paired(c)'
  <2>1. conn'[c] = [pc |-> "write", single |-> r.single, reply |-> p]
    BY <1>10 DEF TypeOK
  <2>2. p \in Reply /\ RightAnswer(r, p)
    BY <1>6, RepliesRight
  <2> HIDE DEF r
  <2>3. /\ conn'[c].pc = "write" /\ conn'[c].single = r.single /\ conn'[c].reply = p
    BY <2>1
  <2>4. r = sent'[c][Taken(c)']
    BY <1>3, <1>5, <1>7
  <2> QED
    BY <1>2, <1>3, <1>4, <1>5, <1>8, <1>9, <2>2, <2>3, <2>4 DEF Paired
<1>11. CASE conn' = [conn EXCEPT ![c].pc = "closed"]
  <2>1. conn'[c].pc = "closed"
    BY <1>11 DEF TypeOK, Conn
  <2> QED
    BY <1>2, <1>3, <1>4, <1>5, <1>8, <1>9, <2>1 DEF Paired
<1> QED
  BY <1>10, <1>11 DEF ReadRequest

\* The reply is written, or lost with the connection.
LEMMA PairedWrite ==
    ASSUME TypeOK, NEW c \in Conns, Paired(c), WriteReply(c)
    PROVE  Paired(c)'
<1>1. /\ inbox[c] \in Seq(Requests) /\ sent[c] \in Seq(Requests) /\ got[c] \in Seq(Reply)
      /\ conn[c].pc = "write" /\ inbox' = inbox /\ sent' = sent
  BY DEF TypeOK, WriteReply
<1>2. Len(inbox[c]) \in Nat /\ Len(sent[c]) \in Nat /\ Len(got[c]) \in Nat
  BY <1>1
<1>3. Taken(c)' = Taken(c) /\ Taken(c) = Len(got[c]) + 1
  BY <1>1 DEF Paired, Taken
<1>4. CASE /\ got' = [got EXCEPT ![c] = Append(@, conn[c].reply)]
           /\ conn' = [conn EXCEPT ![c] =
                 [@ EXCEPT !.pc = IF conn[c].single THEN "read" ELSE "closed",
                           !.reply = NoReply]]
  <2>1. /\ got'[c] = Append(got[c], conn[c].reply)
        /\ conn'[c].pc = IF conn[c].single THEN "read" ELSE "closed"
    BY <1>4 DEF TypeOK, Conn
  <2>2. /\ Len(got'[c]) = Len(got[c]) + 1
        /\ \A i \in 1 .. Len(got[c]) : got'[c][i] = got[c][i]
        /\ got'[c][Len(got[c]) + 1] = conn[c].reply
    BY <1>1, <2>1
  <2>3. \A i \in 1 .. Len(got'[c]) : RightAnswer(sent'[c][i], got'[c][i])
    <3>1. \A i \in 1 .. Len(got[c]) : RightAnswer(sent'[c][i], got'[c][i])
      BY <1>1, <2>2 DEF Paired
    <3>2. RightAnswer(sent'[c][Len(got[c]) + 1], got'[c][Len(got[c]) + 1])
      BY <1>1, <1>3, <2>2 DEF Paired
    <3> QED
      BY <1>2, <2>2, <3>1, <3>2
  <2>4. \A i \in 1 .. Len(got[c]) : sent'[c][i].single
    BY <1>1 DEF Paired
  <2>5. conn'[c].pc # "closed" => sent'[c][Len(got[c]) + 1].single
    BY <1>1, <1>3, <2>1 DEF Paired
  <2>6. conn'[c].pc # "closed" => \A i \in 1 .. Len(got'[c]) : sent'[c][i].single
    BY <1>2, <2>2, <2>4, <2>5
  <2>7. \A i \in 1 .. Len(got'[c]) - 1 : sent'[c][i].single
    BY <1>2, <2>2, <2>4
  <2>8. /\ Len(inbox'[c]) <= Len(sent'[c])
        /\ \A i \in 1 .. Len(inbox'[c]) : inbox'[c][i] = sent'[c][Taken(c)' + i]
        /\ Len(got'[c]) = Taken(c)'
    BY <1>1, <1>2, <1>3, <2>2 DEF Paired
  <2>9. conn'[c].pc # "write"
    BY <2>1
  <2> QED
    BY <1>2, <1>3, <2>2, <2>3, <2>6, <2>7, <2>8, <2>9 DEF Paired
<1>5. CASE got' = got /\ conn' = [conn EXCEPT ![c] = [@ EXCEPT !.pc = "closed", !.reply = NoReply]]
  <2>1. conn'[c].pc = "closed"
    BY <1>5 DEF TypeOK, Conn
  <2> QED
    BY <1>1, <1>5, <2>1, PairedFrame
<1> QED
  BY <1>4, <1>5 DEF WriteReply

\* A packet is sent, ahead of replies or not.
LEMMA PairedSend ==
    ASSUME TypeOK, NEW c \in Conns, Paired(c), NEW r \in Requests, SendRequest(c, r)
    PROVE  Paired(c)'
<1>1. /\ inbox[c] \in Seq(Requests) /\ sent[c] \in Seq(Requests) /\ got[c] \in Seq(Reply)
      /\ conn' = conn /\ got' = got
      /\ sent'[c] = Append(sent[c], r) /\ inbox'[c] = Append(inbox[c], r)
  BY DEF TypeOK, SendRequest, serverVars
<1>2. Len(inbox[c]) \in Nat /\ Len(sent[c]) \in Nat /\ Len(got[c]) \in Nat
  BY <1>1
<1>3. /\ Len(sent'[c]) = Len(sent[c]) + 1 /\ Len(inbox'[c]) = Len(inbox[c]) + 1
      /\ \A i \in 1 .. Len(sent[c]) : sent'[c][i] = sent[c][i]
      /\ \A i \in 1 .. Len(inbox[c]) : inbox'[c][i] = inbox[c][i]
      /\ sent'[c][Len(sent[c]) + 1] = r /\ inbox'[c][Len(inbox[c]) + 1] = r
  BY <1>1
<1>4. Taken(c)' = Taken(c) /\ Taken(c) \in 0 .. Len(sent[c])
      /\ Taken(c) + Len(inbox[c]) = Len(sent[c])
  <2>1. Len(inbox[c]) <= Len(sent[c])
    BY DEF Paired
  <2> QED
    <3>1. Taken(c)' = (Len(sent[c]) + 1) - (Len(inbox[c]) + 1)
      BY <1>3 DEF Taken
    <3>2. Taken(c) = Len(sent[c]) - Len(inbox[c])
      BY DEF Taken
    <3> QED
      <4>1. \A m, n \in Nat : (m + 1) - (n + 1) = m - n
        OBVIOUS
      <4>2. \A m, n \in Nat : n <= m => m - n \in 0 .. m /\ (m - n) + n = m
        OBVIOUS
      <4>3. Taken(c)' = Taken(c)
        BY <1>2, <3>1, <3>2, <4>1
      <4>4. Taken(c) \in 0 .. Len(sent[c]) /\ Taken(c) + Len(inbox[c]) = Len(sent[c])
        BY <1>2, <2>1, <3>2, <4>2
      <4> QED
        BY <4>3, <4>4
<1>5. \A i \in 1 .. Len(inbox'[c]) : inbox'[c][i] = sent'[c][Taken(c)' + i]
  <2>1. \A i \in 1 .. Len(inbox[c]) : Taken(c) + i \in 1 .. Len(sent[c])
    BY <1>2, <1>4
  <2>2. \A i \in 1 .. Len(inbox[c]) : inbox'[c][i] = sent'[c][Taken(c)' + i]
    BY <1>3, <1>4, <2>1 DEF Paired
  <2>3. Taken(c)' + (Len(inbox[c]) + 1) = Len(sent[c]) + 1
    BY <1>2, <1>4
  <2>4. inbox'[c][Len(inbox[c]) + 1] = sent'[c][Taken(c)' + (Len(inbox[c]) + 1)]
    BY <1>3, <2>3
  <2> QED
    BY <1>2, <1>3, <2>2, <2>4
<1>6. Len(got[c]) <= Taken(c) /\ Taken(c) <= Len(sent[c])
  BY <1>4 DEF Paired
<1>7. \A i \in 1 .. Len(got[c]) : sent'[c][i] = sent[c][i]
  BY <1>2, <1>3, <1>4, <1>6
<1>8. ASSUME conn[c].pc = "write"
      PROVE  sent'[c][Taken(c)'] = sent[c][Taken(c)]
  <2>1. Taken(c) = Len(got[c]) + 1
    BY <1>8 DEF Paired
  <2>2. Taken(c) \in 1 .. Len(sent[c])
    BY <1>2, <1>4, <2>1
  <2> QED
    BY <1>3, <1>4, <2>2
<1>9. Len(inbox'[c]) <= Len(sent'[c])
  BY <1>2, <1>3 DEF Paired
<1>10. \A i \in 1 .. Len(got'[c]) : RightAnswer(sent'[c][i], got'[c][i])
  BY <1>1, <1>7 DEF Paired
<1>11. conn'[c].pc # "closed" => \A i \in 1 .. Len(got'[c]) : sent'[c][i].single
  BY <1>1, <1>7 DEF Paired
<1>12. \A i \in 1 .. Len(got'[c]) - 1 : sent'[c][i].single
  <2>1. \A i \in 1 .. Len(got[c]) - 1 : i \in 1 .. Len(got[c])
    BY <1>2
  <2> QED
    BY <1>1, <1>7, <2>1 DEF Paired
<1>13. conn'[c].pc = "write" =>
          /\ Taken(c)' = Len(got'[c]) + 1
          /\ RightAnswer(sent'[c][Taken(c)'], conn'[c].reply)
          /\ conn'[c].reply \in Reply
          /\ conn'[c].single = sent'[c][Taken(c)'].single
  BY <1>1, <1>4, <1>8 DEF Paired
<1>14. /\ Len(got'[c]) <= Taken(c)'
       /\ conn'[c].pc \in {"none", "backlog", "read"} => Len(got'[c]) = Taken(c)'
  BY <1>1, <1>4 DEF Paired
<1> QED
  BY <1>5, <1>9, <1>10, <1>11, <1>12, <1>13, <1>14 DEF Paired

\* No step leaves requests and replies unpaired.
LEMMA PairedStep ==
    ASSUME TypeOK, NEW d \in Conns, Paired(d), Next
    PROVE  Paired(d)'
<1> USE DEF serverVars, clientVars
<1>1. conn \in [Conns -> Conn]
  BY DEF TypeOK
<1>2. CASE ListenAndServe \/ SetClosed \/ CloseReturns
  <2>1. /\ UNCHANGED <<inbox, sent, got>>
        /\ \/ UNCHANGED conn
           \/ \E c \in Conns : conn[c].pc = "backlog" /\ conn' = [conn EXCEPT ![c].pc = "read"]
    BY <1>2 DEF ListenAndServe, Listen, AssignListener, Accept, AcceptError, CheckClosed,
       SetClosed, CloseReturns, TestListener, CloseListener
  <2>2. \/ UNCHANGED conn[d]
        \/ conn[d].pc = "backlog" /\ conn'[d].pc = "read"
    BY <1>1, <2>1 DEF Conn
  <2> QED
    BY <2>1, <2>2, PairedFrame
<1>3. ASSUME NEW c \in Conns, c # d, Serve(c) \/ Client(c)
      PROVE  Paired(d)'
  <2>1. UNCHANGED <<inbox[d], sent[d], got[d], conn[d]>>
    BY <1>3 DEF TypeOK, Serve, Client, ReadRequest, ReadEnd, WriteReply, Connect, CloseConn,
       SendRequest
  <2> QED
    BY <2>1, PairedFrame
<1>4. CASE ReadRequest(d)
  BY <1>4, PairedRead
<1>5. CASE ReadEnd(d)
  <2>1. UNCHANGED <<inbox, sent, got>> /\ conn'[d].pc = "closed"
    BY <1>1, <1>5 DEF ReadEnd, Conn
  <2> QED
    BY <2>1, PairedFrame
<1>6. CASE WriteReply(d)
  BY <1>6, PairedWrite
<1>7. CASE Connect(d)
  <2>1. /\ UNCHANGED <<inbox, sent, got>>
        /\ conn[d].pc = "none" /\ conn'[d].pc = "backlog"
    BY <1>1, <1>7 DEF Connect, Conn
  <2> QED
    BY <2>1, PairedFrame
<1>8. CASE CloseConn(d)
  BY <1>8, PairedFrame DEF CloseConn
<1>9. ASSUME NEW r \in Requests, SendRequest(d, r)
      PROVE  Paired(d)'
  BY <1>9, PairedSend
<1> QED
  BY <1>2, <1>3, <1>4, <1>5, <1>6, <1>7, <1>8, <1>9 DEF Next, Serve, Client

-----------------------------------------------------------------------------
(* The invariant and what it implies. *)

\* Nothing has been sent, so nothing is unpaired.
LEMMA InvInit == Init => ServerInv
<1> SUFFICES ASSUME Init PROVE ServerInv
  OBVIOUS
<1>1. TypeOK
  BY TypeInit
<1>2. Len(<< >>) = 0
  OBVIOUS
<1>3. \A c \in Conns : inbox[c] = << >> /\ sent[c] = << >> /\ got[c] = << >> /\ conn[c].pc = "none"
  BY DEF Init
<1>4. \A c \in Conns : Paired(c)
  <2> SUFFICES ASSUME NEW c \in Conns PROVE Paired(c)
    OBVIOUS
  <2>1. Len(inbox[c]) = 0 /\ Len(sent[c]) = 0 /\ Len(got[c]) = 0
    BY <1>2, <1>3
  <2>2. Taken(c) = 0
    BY <2>1 DEF Taken
  <2>3. conn[c].pc = "none"
    BY <1>3
  <2> QED
    BY <2>1, <2>2, <2>3 DEF Paired
<1> QED
  BY <1>1, <1>4, PairedIsInv DEF ServerInv

\* The invariant is inductive.
LEMMA InvStep == ServerInv /\ [Next]_vars => ServerInv'
<1> SUFFICES ASSUME ServerInv, [Next]_vars PROVE ServerInv'
  OBVIOUS
<1>1. TypeOK /\ \A c \in Conns : Paired(c)
  BY PairedIsInv DEF ServerInv
<1>2. CASE Next
  <2>1. TypeOK'
    BY <1>1, <1>2, TypeServer, TypeServe, TypeClient DEF ServerInv, Next
  <2>2. \A c \in Conns : Paired(c)'
    BY <1>1, <1>2, PairedStep
  <2> QED
    BY <2>1, <2>2, PairedIsInvNext DEF ServerInv
<1>3. CASE UNCHANGED vars
  <2>1. TypeOK'
    BY <1>1, <1>3 DEF TypeOK, vars, serverVars, clientVars
  <2>2. \A c \in Conns : Paired(c)'
    BY <1>1, <1>3, PairedFrame DEF vars, clientVars
  <2> QED
    BY <2>1, <2>2, PairedIsInvNext DEF ServerInv
<1> QED
  BY <1>2, <1>3

\* The server never leaves its invariant.
THEOREM Invariance == Spec => []ServerInv
BY InvInit, InvStep, PTL DEF Spec

\* The server's state is always well-typed: sequence numbers stay bytes.
THEOREM TypeCorrectness == Spec => []TypeOK
<1>1. ServerInv => TypeOK
  BY DEF ServerInv
<1> QED
  BY <1>1, Invariance, PTL

\* Replies come in the order of the requests, none skipped or given twice, and
\* each is the right answer to its request: for any requests, however many of
\* them a client sends ahead.
THEOREM Pairing == Spec => []PairedReplies
<1>1. ServerInv => PairedReplies
  BY DEF ServerInv
<1> QED
  BY <1>1, Invariance, PTL

\* Only a client that asks for a single connection with every request gets
\* more than one reply.
THEOREM SingleConnection == Spec => []OneReplyUnlessSingle
<1>1. ServerInv => OneReplyUnlessSingle
  BY DEF ServerInv
<1> QED
  BY <1>1, Invariance, PTL

-----------------------------------------------------------------------------
(* The command-line client. *)

\* The server's reply to a START that it can read is the verdict due.
LEMMA StartReply ==
    ASSUME NEW input \in Inputs, input.secret = Secret
    PROVE  /\ ~ MayReject(Start(input))
           /\ \A p \in Replies(Start(input)) : p.status = Due(input.user)
<1> DEFINE r == Start(input)
<1>1. /\ r.type = "authen" /\ r.version = "v12" /\ r.secret = Secret
      /\ r.body.kind = "start" /\ r.body.user = input.user /\ r.body.ascii = TRUE
  BY DEF Start
<1> HIDE DEF r
<1>2. Decoded(r) = {r.body}
  BY <1>1 DEF Decoded, Wanted
<1>3. ~ MayReject(r)
  BY <1>1, <1>2 DEF MayReject, Wanted
<1>4. ProcessAuthenStart(r.body).status = Due(input.user)
  <2>1. input.user # NoName
    BY InputsAssumption, DeniedAssumption
  <2> QED
    BY <1>1, <2>1 DEF ProcessAuthenStart, Due
<1>5. ASSUME NEW p \in Replies(r)
      PROVE  p.status = Due(input.user)
  <2>1. PICK v \in {ProcessAuthenStart(b) : b \in {d \in Decoded(r) : d.kind = "start"}} :
           p = [type |-> r.type, seq |-> SeqNo(r.seq), session |-> r.session,
                single |-> r.single, clear |-> r.clear, status |-> v.status, args |-> v.args]
    BY <1>1, <1>5 DEF Replies
  <2>2. v = ProcessAuthenStart(r.body)
    BY <1>2
  <2> QED
    BY <1>4, <2>1, <2>2
<1> QED
  BY <1>3, <1>5 DEF r

\* Steps that concern the listener leave what is known of it as it is.
LEMMA ListenerStep ==
    ASSUME ListenerInv, [CliNext]_cliVars
    PROVE  ListenerInv' /\ (socket = "closed" => socket' = "closed")
<1> USE DEF ListenerInv
<1>1. CASE Listen
  BY <1>1 DEF Listen
<1>2. CASE AssignListener
  BY <1>2 DEF AssignListener
<1>3. CASE AcceptError \/ CheckClosed \/ SetClosed
  BY <1>3 DEF AcceptError, CheckClosed, SetClosed
<1>4. CASE TestListener \/ CloseListener
  BY <1>4 DEF TestListener, CloseListener
<1>5. CASE UNCHANGED serverVars
  BY <1>5 DEF serverVars
<1>6. ASSUME NEW c \in Conns, Accept(c) \/ Serve(c) \/ Client(c)
      PROVE  UNCHANGED serverVars
  BY <1>6 DEF Accept, Serve, Client, ReadRequest, ReadEnd, WriteReply, Connect, CloseConn,
     SendRequest, serverVars
<1>7. ASSUME NEW c \in Cli, RunCli(c)
      PROVE  UNCHANGED serverVars
  BY <1>7 DEF RunCli, Dial, DialError, WriteStart, Await, ReadReply, ReadError, Connect,
     SendRequest, serverVars, vars
<1>8. CASE UNCHANGED cliVars
  BY <1>8 DEF cliVars, vars, serverVars
<1>9. CASE ServerStep
  BY <1>1, <1>2, <1>3, <1>4, <1>5, <1>6, <1>9 DEF ServerStep, ListenAndServe, CloseReturns
<1>10. CASE OtherClient
  BY <1>5, <1>6, <1>10 DEF OtherClient
<1> QED
  BY <1>5, <1>7, <1>8, <1>9, <1>10 DEF CliNext

\* A step that does not touch a run, or what the server has for it.
LEMMA RunFrame ==
    ASSUME NEW c \in Cli, RunInv(c), FailedInv(c), socket = "closed" => socket' = "closed",
           UNCHANGED <<cli[c], conn[c], sent[c], got[c], eof[c]>>
    PROVE  RunInv(c)' /\ FailedInv(c)'
BY DEF RunInv, FailedInv

\* The server takes a step on the connection of a run.
LEMMA RunServed ==
    ASSUME TypeOK, NEW c \in Cli, c \in Conns, cli[c] \in Run, Paired(c),
           RunInv(c), FailedInv(c),
           Accept(c) \/ Serve(c), UNCHANGED cli
    PROVE  RunInv(c)' /\ FailedInv(c)'
<1>1. /\ conn \in [Conns -> Conn]
      /\ inbox[c] \in Seq(Requests) /\ sent[c] \in Seq(Requests) /\ got[c] \in Seq(Reply)
  BY DEF TypeOK
<1>2. Len(inbox[c]) \in Nat /\ Len(sent[c]) \in Nat /\ Len(got[c]) \in Nat
  BY <1>1
<1>3. UNCHANGED <<sent, eof>>
  BY DEF Accept, Serve, ReadRequest, ReadEnd, WriteReply, clientVars
<1>4. CASE Accept(c)
  <2>1. conn[c].pc = "backlog" /\ socket = "open" /\ conn'[c].pc = "read" /\ got' = got
    BY <1>1, <1>4 DEF Accept, clientVars, Conn
  <2> QED
    BY <1>3, <2>1 DEF RunInv, FailedInv
<1>5. CASE ReadRequest(c)
  <2>1. /\ conn[c].pc = "read" /\ inbox[c] # << >> /\ got' = got
    BY <1>5 DEF ReadRequest
  <2>2. Len(inbox[c]) >= 1
    BY <1>1, <2>1
  <2>3. conn'[c].pc \in {"write", "closed"}
    BY <1>1, <1>5 DEF ReadRequest, Conn
  <2>4. ASSUME cli[c].pc = "read", cli[c].input.secret = Secret
        PROVE  /\ conn'[c].pc = "write"
               /\ conn'[c].reply.status = Due(cli[c].input.user)
    <3>1. sent[c] = << Start(cli[c].input) >>
      BY <2>4 DEF RunInv
    <3>2. Len(sent[c]) = 1
      BY <3>1
    <3>3. Len(inbox[c]) = 1 /\ Taken(c) = 0
      <4>1. Len(inbox[c]) <= Len(sent[c]) /\ Taken(c) = Len(sent[c]) - Len(inbox[c])
        BY DEF Paired, Taken
      <4>2. \A i, j \in Nat : i >= 1 /\ i <= j /\ j = 1 => i = 1 /\ j - i = 0
        OBVIOUS
      <4> QED
        BY <1>2, <2>2, <3>2, <4>1, <4>2
    <3>4. inbox[c][1] = sent[c][1]
      BY <3>3 DEF Paired
    <3>5. Head(inbox[c]) = Start(cli[c].input)
      BY <1>1, <2>1, <3>1, <3>4
    <3>6. cli[c].input \in Inputs
      BY DEF Run
    <3>7. \E p \in Replies(Start(cli[c].input)) :
             conn' = [conn EXCEPT ![c] =
                        [pc |-> "write", single |-> Start(cli[c].input).single, reply |-> p]]
      BY <1>5, <2>4, <3>5, <3>6, StartReply DEF ReadRequest
    <3> QED
      BY <1>1, <2>4, <3>6, <3>7, StartReply
  <2>5. cli[c].pc \notin {"dial", "write"}
    <3>1. CASE cli[c].pc = "write"
      <4>1. sent[c] = << >>
        BY <3>1 DEF RunInv
      <4>2. Len(sent[c]) = 0
        BY <4>1
      <4> QED
        BY <1>2, <2>2, <4>2 DEF Paired
    <3>2. CASE cli[c].pc = "dial"
      BY <2>1, <3>2 DEF RunInv
    <3> QED
      BY <3>1, <3>2
  <2>6. RunInv(c)'
    BY <1>3, <2>1, <2>3, <2>4, <2>5 DEF RunInv, Run
  <2>7. FailedInv(c)'
    BY <2>1 DEF FailedInv
  <2> QED
    BY <2>6, <2>7
<1>6. CASE ReadEnd(c)
  <2>1. conn[c].pc = "read" /\ eof[c]
    BY <1>6 DEF ReadEnd
  <2>2. cli[c].pc = "done"
    BY <2>1 DEF RunInv
  <2> QED
    BY <2>1, <2>2 DEF RunInv, FailedInv
<1>7. CASE WriteReply(c)
  <2>1. conn[c].pc = "write"
    BY <1>7 DEF WriteReply
  <2>2. CASE cli[c].pc = "done"
    BY <2>1, <2>2 DEF RunInv, FailedInv
  <2>3. CASE cli[c].pc # "done"
    <3>1. ~ eof[c] /\ cli[c].pc \in {"write", "read"}
      BY <2>1, <2>3 DEF RunInv, Run
    <3>2. /\ got'[c] = Append(got[c], conn[c].reply)
          /\ conn'[c].pc \in {"read", "closed"}
      <4>1. /\ got' = [got EXCEPT ![c] = Append(@, conn[c].reply)]
            /\ conn' = [conn EXCEPT ![c] =
                  [@ EXCEPT !.pc = IF conn[c].single THEN "read" ELSE "closed",
                            !.reply = NoReply]]
        BY <1>7, <3>1 DEF WriteReply
      <4>2. got'[c] = Append(got[c], conn[c].reply)
        BY <4>1 DEF TypeOK
      <4>3. conn[c] \in Conn
        BY <1>1
      <4>4. conn'[c] = [conn[c] EXCEPT !.pc = IF conn[c].single THEN "read" ELSE "closed",
                                      !.reply = NoReply]
        BY <1>1, <4>1
      <4>5. conn'[c].pc \in {"read", "closed"}
        BY <4>3, <4>4 DEF Conn
      <4> QED
        BY <4>2, <4>5
    <3>3. Len(sent[c]) <= 1
      <4>1. sent[c] = << >> \/ sent[c] = << Start(cli[c].input) >>
        BY <3>1 DEF RunInv
      <4>2. CASE sent[c] = << >>
        <5>1. Len(sent[c]) = 0
          BY <4>2
        <5> QED
          BY <5>1
      <4>3. CASE sent[c] = << Start(cli[c].input) >>
        <5>1. Len(sent[c]) = 1
          BY <4>3
        <5> QED
          BY <5>1
      <4> QED
        BY <4>1, <4>2, <4>3
    <3>4. Len(got[c]) = 0
      <4>1. Taken(c) = Len(got[c]) + 1 /\ Taken(c) = Len(sent[c]) - Len(inbox[c])
        BY <2>1 DEF Paired, Taken
      <4>2. \A i, j, k \in Nat : j <= 1 /\ j - i = k + 1 => k = 0
        OBVIOUS
      <4> QED
        BY <1>2, <3>3, <4>1, <4>2
    <3>5. got'[c] # << >> /\ got'[c][1] = conn[c].reply
      <4>1. conn[c].reply \in Reply
        BY <2>1 DEF Paired
      <4>2. got[c] = << >>
        BY <1>1, <3>4
      <4>3. got'[c] = << conn[c].reply >>
        BY <3>2, <4>2
      <4> QED
        BY <4>3
    <3>6. RunInv(c)'
      BY <1>3, <2>1, <3>1, <3>2, <3>5 DEF RunInv
    <3> QED
      BY <2>3, <3>6 DEF FailedInv
  <2> QED
    BY <2>2, <2>3
<1> QED
  BY <1>4, <1>5, <1>6, <1>7 DEF Serve

\* A run takes a step of its own.
LEMMA RunStep ==
    ASSUME TypeOK, cli \in [Cli -> Run], NEW c \in Cli, c \in Conns, Paired(c),
           RunInv(c), FailedInv(c), RunCli(c)
    PROVE  RunInv(c)' /\ FailedInv(c)' /\ cli' \in [Cli -> Run]
<1>1. /\ conn \in [Conns -> Conn] /\ eof \in [Conns -> BOOLEAN]
      /\ inbox[c] \in Seq(Requests) /\ sent[c] \in Seq(Requests) /\ got[c] \in Seq(Reply)
      /\ cli[c] \in Run
  BY DEF TypeOK
<1>2. \A x \in Run, l \in {"dial", "write", "read", "done"} :
         /\ [x EXCEPT !.pc = l] \in Run
         /\ \A a \in Answers : [x EXCEPT !.pc = l, !.shown = a] \in Run
  BY DEF Run
<1>3. CASE Dial(c)
  <2>1. /\ conn[c].pc = "none" /\ conn'[c].pc = "backlog" /\ UNCHANGED <<sent, got, eof>>
        /\ cli[c].pc = "dial" /\ cli'[c] = [cli[c] EXCEPT !.pc = "write"]
    BY <1>1, <1>3 DEF Dial, Connect, clientVars, Conn
  <2>2. /\ cli'[c].pc = "write" /\ cli'[c].input = cli[c].input
    BY <1>1, <2>1 DEF Run
  <2>3. got[c] # << >> => got[c][1].status = Due(cli[c].input.user) \/ cli[c].input.secret # Secret
    BY <2>1 DEF RunInv
  <2>4. RunInv(c)' /\ FailedInv(c)'
    BY <2>1, <2>2, <2>3 DEF RunInv, FailedInv
  <2>5. cli' \in [Cli -> Run]
    BY <1>1, <1>2, <1>3 DEF Dial
  <2> QED
    BY <2>4, <2>5
<1>4. CASE DialError(c)
  <2>1. /\ conn[c].pc = "none" /\ UNCHANGED vars
        /\ cli' = [cli EXCEPT ![c] = [cli[c] EXCEPT !.pc = "done", !.shown = "error"]]
    BY <1>1, <1>4 DEF DialError, RunInv
  <2>2. cli'[c].pc = "done" /\ cli'[c].shown = "error" /\ cli'[c].input = cli[c].input
    BY <1>1, <2>1 DEF Run
  <2>3. conn' = conn
    BY <2>1 DEF vars
  <2>4. RunInv(c)' /\ FailedInv(c)'
    BY <2>1, <2>2, <2>3 DEF RunInv, FailedInv
  <2>5. "error" \in Answers
    BY DEF Answers
  <2> QED
    BY <1>1, <1>2, <2>1, <2>4, <2>5
<1>5. CASE WriteStart(c)
  <2>1. /\ cli[c].pc = "write" /\ cli'[c] = [cli[c] EXCEPT !.pc = "read"]
        /\ sent'[c] = Append(sent[c], Start(cli[c].input))
        /\ UNCHANGED <<conn, got, eof>>
    BY <1>1, <1>5 DEF WriteStart, SendRequest, TypeOK
  <2>2. cli'[c].pc = "read" /\ cli'[c].input = cli[c].input
    BY <1>1, <2>1 DEF Run
  <2>3. sent[c] = << >>
    BY <2>1 DEF RunInv
  <2>4. sent'[c] = << Start(cli[c].input) >>
    BY <2>1, <2>3
  <2>5. RunInv(c)' /\ FailedInv(c)'
    BY <2>1, <2>2, <2>4 DEF RunInv, FailedInv
  <2>6. cli' \in [Cli -> Run]
    BY <1>1, <1>2, <1>5 DEF WriteStart
  <2> QED
    BY <2>5, <2>6
<1>6. ASSUME NEW shown \in Answers, cli[c].pc = "read", Return(c, shown),
             UNCHANGED <<serverVars, conn, inbox, sent, got>>,
             cli[c].input.secret = Secret =>
                \/ shown = Due(cli[c].input.user)
                \/ shown = "error" /\ conn[c].pc = "backlog" /\ socket = "closed"
      PROVE  RunInv(c)' /\ FailedInv(c)' /\ cli' \in [Cli -> Run]
  <2>1. /\ cli' = [cli EXCEPT ![c] = [cli[c] EXCEPT !.pc = "done", !.shown = shown]]
        /\ conn' = conn /\ socket' = socket
    BY <1>6 DEF Return, serverVars
  <2>2. cli'[c].pc = "done" /\ cli'[c].shown = shown /\ cli'[c].input = cli[c].input
    BY <1>1, <2>1 DEF Run
  <2>3. RunInv(c)'
    BY <2>2 DEF RunInv
  <2>4. FailedInv(c)'
    BY <1>6, <2>1, <2>2 DEF FailedInv
  <2>5. cli' \in [Cli -> Run]
    BY <1>1, <1>2, <2>1
  <2> QED
    BY <2>3, <2>4, <2>5
<1>7. CASE ReadReply(c)
  <2>1. /\ cli[c].pc = "read" /\ got[c] # << >>
        /\ UNCHANGED <<serverVars, conn, inbox, sent, got>>
    BY <1>7 DEF ReadReply
  <2>2. PICK shown \in Read(cli[c], Head(got[c])) : Return(c, shown)
    BY <1>7 DEF ReadReply
  <2>3. Head(got[c]) = got[c][1] /\ Head(got[c]) \in Reply
    BY <1>1, <2>1
  <2>4. shown \in Answers
    BY <2>2, <2>3 DEF Read, Reply, Answers
  <2>5. cli[c].input.secret = Secret => shown = Due(cli[c].input.user)
    BY <2>1, <2>2, <2>3 DEF Read, RunInv
  <2> QED
    BY <1>6, <2>1, <2>2, <2>4, <2>5
<1>8. CASE ReadError(c)
  <2>1. /\ cli[c].pc = "read" /\ got[c] = << >>
        /\ conn[c].pc = "closed" \/ (conn[c].pc = "backlog" /\ socket = "closed")
        /\ Return(c, "error")
        /\ UNCHANGED <<serverVars, conn, inbox, sent, got>>
    BY <1>8 DEF ReadError
  <2>2. cli[c].input.secret = Secret => conn[c].pc = "backlog" /\ socket = "closed"
    BY <2>1 DEF RunInv
  <2>3. "error" \in Answers
    BY DEF Answers
  <2> QED
    BY <1>6, <2>1, <2>2, <2>3
<1> QED
  BY <1>3, <1>4, <1>5, <1>7, <1>8 DEF RunCli, Await

\* No run has dialled yet.
LEMMA CliInvInit == CliInit => CliInv
<1> SUFFICES ASSUME CliInit PROVE CliInv
  OBVIOUS
<1>1. CliTypeOK
  BY TypeInit DEF CliInit, CliTypeOK, Run
<1>2. ListenerInv
  BY DEF CliInit, Init, ListenerInv
<1>3. ASSUME NEW c \in Cli
      PROVE  RunInv(c) /\ FailedInv(c)
  <2>1. /\ conn[c].pc = "none" /\ sent[c] = << >> /\ got[c] = << >> /\ ~ eof[c]
        /\ cli[c].pc = "dial"
    BY CliAssumption DEF CliInit, Init
  <2> QED
    BY <2>1 DEF RunInv, FailedInv
<1> QED
  BY <1>1, <1>2, <1>3 DEF CliInv

\* A step of a run of the client is one that TacacsServer allows its clients.
LEMMA CliStep == CliInv /\ [CliNext]_cliVars => [Next]_vars
<1> SUFFICES ASSUME CliInv, [CliNext]_cliVars PROVE [Next]_vars
  OBVIOUS
<1>1. CASE ServerStep \/ OtherClient
  BY <1>1 DEF ServerStep, OtherClient, Next
<1>2. ASSUME NEW c \in Cli, RunCli(c)
      PROVE  [Next]_vars
  <2>1. c \in Conns /\ cli[c].input \in Inputs
    BY CliAssumption DEF CliInv, CliTypeOK, Run
  <2>2. CASE Dial(c)
    BY <2>1, <2>2 DEF Dial, Next, Client
  <2>3. CASE DialError(c)
    BY <2>3 DEF DialError
  <2>4. CASE WriteStart(c)
    <3>1. SendRequest(c, Start(cli[c].input)) /\ Start(cli[c].input) \in Requests
      BY <2>1, <2>4, StartAssumption DEF WriteStart
    <3> QED
      BY <2>1, <3>1 DEF Next, Client
  <2>5. CASE Await(c)
    <3>1. /\ cli[c].pc = "read"
          /\ eof' = [eof EXCEPT ![c] = TRUE]
          /\ UNCHANGED <<serverVars, conn, inbox, sent, got>>
      BY <2>5 DEF Await, ReadReply, ReadError, Return
    <3>2. conn[c].pc # "none" /\ ~ eof[c]
      BY <3>1 DEF CliInv, RunInv
    <3>3. CloseConn(c)
      BY <3>1, <3>2 DEF CloseConn
    <3> QED
      BY <2>1, <3>3 DEF Next, Client
  <2> QED
    BY <1>2, <2>2, <2>3, <2>4, <2>5 DEF RunCli
<1>3. CASE UNCHANGED cliVars
  BY <1>3 DEF cliVars
<1> QED
  BY <1>1, <1>2, <1>3 DEF CliNext

\* The invariant of the runs is inductive relative to that of the server.
LEMMA CliInvStep == ServerInv /\ ServerInv' /\ CliInv /\ [CliNext]_cliVars => CliInv'
<1> SUFFICES ASSUME ServerInv, ServerInv', CliInv, [CliNext]_cliVars PROVE CliInv'
  OBVIOUS
<1>1. /\ TypeOK /\ TypeOK' /\ \A c \in Conns : Paired(c)
      /\ conn \in [Conns -> Conn]
      /\ \A c \in Cli : c \in Conns /\ RunInv(c) /\ FailedInv(c)
      /\ cli \in [Cli -> Run]
  BY PairedIsInv, CliAssumption DEF ServerInv, CliInv, CliTypeOK, TypeOK
<1>2. ListenerInv' /\ (socket = "closed" => socket' = "closed")
  BY ListenerStep DEF CliInv
<1>3. ASSUME NEW d \in Cli
      PROVE  (RunInv(d) /\ FailedInv(d))' /\ cli' \in [Cli -> Run]
  <2>1. ASSUME UNCHANGED <<cli, conn[d], sent[d], got[d], eof[d]>>
        PROVE  (RunInv(d) /\ FailedInv(d))' /\ cli' \in [Cli -> Run]
    BY <1>1, <1>2, <2>1, RunFrame
  <2>2. CASE UNCHANGED cliVars
    BY <2>1, <2>2 DEF cliVars, vars, clientVars
  <2>3. CASE ServerStep
    <3>1. CASE Accept(d) \/ Serve(d)
      <4>1. UNCHANGED cli
        BY <2>3 DEF ServerStep
      <4>2. RunInv(d)' /\ FailedInv(d)'
        BY <1>1, <3>1, <4>1, RunServed
      <4> QED
        BY <1>1, <4>1, <4>2
    <3>2. ASSUME NEW c \in Conns, c # d, Accept(c) \/ Serve(c)
          PROVE  UNCHANGED <<conn[d], sent[d], got[d], eof[d]>>
      BY <1>1, <3>2 DEF Accept, Serve, ReadRequest, ReadEnd, WriteReply, clientVars, TypeOK
    <3>3. CASE \/ Listen \/ AssignListener \/ AcceptError \/ CheckClosed \/ SetClosed
               \/ TestListener \/ CloseListener
      BY <2>1, <2>3, <3>3 DEF Listen, AssignListener, AcceptError, CheckClosed, SetClosed,
         TestListener, CloseListener, clientVars, ServerStep
    <3> QED
      BY <1>1, <2>1, <2>3, <3>1, <3>2, <3>3 DEF ServerStep, ListenAndServe, CloseReturns
  <2>4. CASE OtherClient
    <3>1. PICK c \in Conns \ Cli : Client(c) /\ UNCHANGED cli
      BY <2>4 DEF OtherClient
    <3>2. UNCHANGED <<conn[d], sent[d], got[d], eof[d]>>
      BY <1>1, <3>1 DEF Client, Connect, CloseConn, SendRequest, clientVars, TypeOK
    <3> QED
      BY <2>1, <3>1, <3>2
  <2>5. CASE RunCli(d)
    BY <1>1, <2>5, RunStep
  <2>6. ASSUME NEW c \in Cli, c # d, RunCli(c)
        PROVE  (RunInv(d) /\ FailedInv(d))' /\ cli' \in [Cli -> Run]
    <3>1. UNCHANGED <<cli[d], conn[d], sent[d], got[d], eof[d]>>
      BY <1>1, <2>6 DEF RunCli, Dial, DialError, WriteStart, Await, ReadReply, ReadError,
         Return, Connect, SendRequest, clientVars, vars, TypeOK
    <3>2. cli' \in [Cli -> Run]
      BY <1>1, <2>6, RunStep
    <3> QED
      BY <1>1, <1>2, <3>1, <3>2, RunFrame
  <2> QED
    BY <2>2, <2>3, <2>4, <2>5, <2>6 DEF CliNext
<1>4. cli' \in [Cli -> Run]
  <2>1. CASE Cli = {}
    <3>1. UNCHANGED cli
      BY <2>1 DEF CliNext, ServerStep, OtherClient, cliVars
    <3> QED
      BY <1>1, <3>1
  <2> QED
    BY <1>3, <2>1
<1> QED
  BY <1>1, <1>2, <1>3, <1>4 DEF CliInv, CliTypeOK

\* Neither does the server with runs of the client.
THEOREM CliInvariance == CliSpec => [](ServerInv /\ CliInv)
<1>1. CliInit => ServerInv /\ CliInv
  BY InvInit, CliInvInit DEF CliInit
<1>2. ServerInv /\ CliInv /\ [CliNext]_cliVars => ServerInv' /\ CliInv'
  BY InvStep, CliStep, CliInvStep
<1> QED
  BY <1>1, <1>2, PTL DEF CliSpec

\* Whatever is shown of the server holds with the command-line client as one
\* of its clients.
THEOREM CliRefinement == CliSpec => ImplementsServer
<1>1. CliInit => Init
  BY DEF CliInit
<1>2. CliInv /\ [CliNext]_cliVars => [Next]_vars
  BY CliStep
<1> QED
  BY <1>1, <1>2, CliInvariance, PTL DEF CliSpec, Spec, ImplementsServer

\* A run with the right secret prints the verdict its user is due, or an error
\* if the server never took its connection: with any number of runs and other
\* clients, and whenever Close is called.
THEOREM VerdictTheorem == CliSpec => []VerdictShown
<1>1. CliInv => VerdictShown
  BY DEF CliInv, FailedInv, VerdictShown
<1> QED
  BY <1>1, CliInvariance, PTL
=============================================================================
