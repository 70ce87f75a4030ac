----------------------------- MODULE WireFormats -----------------------------
(***************************************************************************)
(* Every short string of octets, given to the codecs of RADIUS and         *)
(* TACACS+: as the attributes of a packet, as a user name or other text    *)
(* that is to be sent, as a TACACS+ header, and as the body of a TACACS+   *)
(* START or authorization request.  A string grows octet by octet.         *)
(***************************************************************************)
EXTENDS RadiusBytes, TacacsBytes

CONSTANTS
    MaxLen,          \* bound: MaxLen[k] is the length of the longest strings of kind k
    Letters(_, _)    \* Letters(k, s): the octets a string s of kind k may go on with

VARIABLES kind, octets

wireVars == <<kind, octets>>

WireInit == kind \in DOMAIN MaxLen /\ octets = << >>

Grow ==
    /\ Len(octets) < MaxLen[kind]
    /\ \E b \in Letters(kind, octets) : octets' = Append(octets, b)
    /\ UNCHANGED kind

WireSpec == WireInit /\ [][Grow]_wireVars

-----------------------------------------------------------------------------
(* What module RadiusPacket takes a packet to be. *)

P == INSTANCE RadiusPacket WITH Secret <- "secret", Denied <- {}

TypeName(type) ==
    CASE type = UserNameType         -> "user"
      [] type = EAPMessageType       -> "eap"
      [] type = MessageAuthenticator -> "ma"
      [] type = CHAPChallengeType    -> "chapChallenge"
      [] type = CHAPResponseType     -> "chapResponse"
      [] OTHER                       -> "other"

Whole(o) == Among(Scan(o), Sound(o) \cap Inside(o))

\* The octets from the first malformed attribute on.
Rest(o) == LET w == Whole(o)
           IN  Slice(o, IF w = << >> THEN 0 ELSE Last(w) + Size(o, Last(w)), Len(o))

Abstract(o) ==
    [attrs |-> [i \in DOMAIN Whole(o) |->
                  LET pos == Whole(o)[i] IN
                  [type  |-> IF At(o, pos) = VendorSpecificType /\ Microsoft(Value(o, pos))
                             THEN "mschap" ELSE TypeName(At(o, pos)),
                   value |-> Value(o, pos), name |-> Value(o, pos), len |-> Size(o, pos) - 2]],
     tail  |-> IF Len(Rest(o)) < 2 THEN "none"
               ELSE IF Rest(o)[1] = VendorSpecificType /\ Rest(o)[2] < 2 THEN "vendor"
               ELSE TypeName(Rest(o)[1])]

-----------------------------------------------------------------------------
(* Properties of the RADIUS codecs *)

Values(p, t) ==
    LET readable == Among(p.attrs, {p.attrs[i] : i \in P!Readable(p, t)})
    IN  [i \in DOMAIN readable |-> readable[i].value]

FirstValue(p, t) == IF P!HasReadable(p, t) THEN P!First(p, t).value ELSE NoOctets

\* For every string of octets nine hand-written attribute loops of handler.go and
\* main.go agree with one reading of it, into whole attributes and the type of
\* the malformed one behind them: the has* loops count that one, the extract*
\* loops do not, none sees anything else, and hasMSCHAPAttributes panics exactly
\* where that reading says so.
ScannersAgree ==
    kind = "attributes" =>
        LET p == Abstract(octets) IN
        /\ hasEAPAttributes(octets) <=> P!hasEAPAttributes(p)
        /\ hasMessageAuthenticator(octets) <=> P!hasMessageAuthenticator(p)
        /\ hasCHAPAttributes(octets) <=> P!hasCHAPAttributes(p)
        /\ hasMSCHAPAttributes(octets) <=> P!hasMSCHAPAttributes(p)
        /\ hasMSCHAPPanics(octets) <=> P!Panics(p)
        /\ extractUsername(octets) = FirstValue(p, "user")
        /\ extractCHAPResponse(octets) = FirstValue(p, "chapResponse")
        /\ extractCHAPChallenge(octets) = FirstValue(p, "chapChallenge")
        /\ extractMSCHAPAttribute(octets) # NoOctets <=> P!HasReadable(p, "mschap")
        /\ extractEAPMessage(octets) = FlattenSeq(Values(p, "eap"))

\* What the extract* loops, the search for an authenticator and parseMSCHAPData
\* slice lies inside the packet, whatever the length octets say.  What
\* hasMSCHAPAttributes slices does so, too, unless a vendor attribute says that
\* it is shorter than its own header; then it never does.
InBounds ==
    kind = "attributes" =>
        /\ OutOfRange \notin {extractUsername(octets), extractCHAPResponse(octets),
                              extractCHAPChallenge(octets), extractMSCHAPAttribute(octets),
                              receivedMA(octets), parseMSCHAPData(octets).name}
        /\ \A i \in DOMAIN VendorData(octets) :
              VendorData(octets)[i] = OutOfRange <=> Size(octets, Scan(octets)[i]) < 2

\* The client signs its request with its own copy of replaceOrAddMA, before it
\* adds the authenticator; the server verifies with another copy, over the
\* packet with it.  They hash the same octets for whatever whole attributes a
\* request has, and the server leaves no octet of a malformed rest out.
MACoverage ==
    kind = "attributes" =>
        LET mac    == [i \in 1 .. MacLen |-> Octets - 1]
            signed == octets \o buildAttribute(MessageAuthenticator, mac)
            hasMA  == P!HasReadable(Abstract(octets), "ma")
        IN  /\ Rest(octets) = << >> => replaceOrAddMA(octets) = cliReplaceOrAddMA(octets)
            /\ Rest(octets) = << >> /\ ~ hasMA =>
                  /\ replaceOrAddMA(signed) = cliReplaceOrAddMA(octets)
                  /\ receivedMA(signed) = mac
            /\ ~ hasMA => replaceOrAddMA(octets) = octets \o ZeroMA

\* What the client lists of a reject is each Proxy-State and State of the request
\* whose length can be trusted, as it was and in order, and then the message:
\* whatever comes after the last whole attribute of a request, nothing of the
\* response is swallowed by it.
RejectShown ==
    kind = "request" =>
        LET kept == Among(Whole(octets), Typed(octets, {ProxyStateType, StateType}))
        IN  DisplayResponse(rejectAttributes(octets, << 8, 9 >>)) =
                Append([i \in DOMAIN kept |-> << At(octets, kept[i]), Value(octets, kept[i]) >>],
                       << ReplyMessageType, << 8, 9 >> >>)

\* A name is read back from the User-Name attribute exactly when it leaves room
\* for the header in what a length octet can say (253 octets); from a longer
\* one another name is read, or none.
NameCarried ==
    kind = "text" =>
        (extractUsername(buildAttribute(UserNameType, octets) \o ZeroMA) = octets
            <=> Len(octets) <= Octets - 3)

EAPResponse == 2
Identity(o) == IF Len(o) < 5 THEN NoOctets ELSE Slice(o, 5, Len(o))

\* What the server splits over EAP-Message attributes is put together again,
\* whatever its length; the client sends an EAP-Identity in one attribute, and
\* its name is read exactly when it leaves room for both headers.
EAPCarried ==
    kind = "text" =>
        /\ extractEAPMessage(splitEAP(octets) \o ZeroMA) = octets
        /\ LET eap == buildEAPPacket(EAPResponse, 0, 1, octets)
           IN  Identity(extractEAPMessage(buildAttribute(EAPMessageType, eap) \o ZeroMA)) = octets
                  <=> Len(octets) <= Octets - 8

\* The server gets the client's MS-CHAP v2 attribute as it was meant exactly when the
\* name has four octets or more, for which the comparison of lengths in
\* parseMSCHAPData happens to leave room, and the attribute is not too long.  A
\* shorter name makes a response that does not parse, from a longer one another
\* name is read, or none; and if it is longer by an octet or two, the server does
\* not come as far as this, for hasMSCHAPAttributes panics.
MSCHAPCarried ==
    kind = "text" =>
        LET part(n, b) == [i \in 1 .. n |-> b]
            data   == mschapVendorData(part(ChallengeLen, 5), part(ResponseLen, 6), 0, octets)
            vendor == MicrosoftVendorID \o data
            read   == extractMSCHAPAttribute(buildAttribute(VendorSpecificType, vendor) \o ZeroMA)
            parsed == IF read = NoOctets THEN NoMSCHAP ELSE parseMSCHAPData(read)
            fits   == Len(vendor) <= Octets - 3
            meant  == [version |-> MSCHAPv2, response |-> part(ResponseLen, 6),
                       challenge |-> part(ChallengeLen, 5), name |-> octets]
            cut    == buildAttribute(VendorSpecificType, vendor)
        IN  /\ parsed = meant <=> Len(octets) >= 4 /\ fits
            /\ Len(octets) < 4 /\ fits => parsed = NoMSCHAP
            /\ Len(vendor) \in {Octets - 2, Octets - 1} => hasMSCHAPPanics(cut)

\* RFC 2865 5.2, from the receiver's side; the server never does this.
Revealed(c, secret, authenticator) ==
    FlattenSeq([n \in 1 .. Len(c) \div MacLen |->
        Xor(Chunk(c, n - 1),
            MD5(<< secret >> \o IF n = 1 THEN authenticator ELSE Chunk(c, n - 2)))])

\* Whoever holds the secret gets the password back from User-Password, whatever
\* its length, with fewer zeros behind it than a chunk has; with a mistyped
\* secret not even its first chunk.
PasswordHidden ==
    kind = "text" =>
        LET ra == Plain([i \in 1 .. MacLen |-> 9])
            c  == encryptPassword(octets, "secret", ra)
            x  == Revealed(c, "secret", ra)
        IN  /\ Legible(x) /\ IsPrefix(octets, Text(x))
            /\ Len(x) < Len(octets) + MacLen
            /\ octets # << >> =>
                  ~ Legible(c) /\ ~ Legible(Chunk(Revealed(c, "mistyped", ra), 0))

-----------------------------------------------------------------------------
(* Properties of the TACACS+ codecs *)

\* A header is what its twelve octets say, in the order of RFC 8907, and is
\* refused only for its major version.  The strings of a START are the octets
\* behind its lengths, each as long as its length octet says, none overlapping
\* and none left out; it is refused exactly when there are too few.
PacketTiled ==
    /\ kind = "header" /\ Len(octets) = HeaderLen =>
        LET h == DecodeHeader(octets) IN
        IF octets[1] \div Nibble = MajorVer THEN EncodeHeader(h) = octets ELSE h = NoHeader
    /\ kind = "start" =>
        LET s    == DecodeAuthenStart(octets)
            ends == 8 + SumTo(Slice(octets, 4, 8), 4)
        IN  IF Len(octets) < 8 \/ Len(octets) < ends THEN s = NoStart
            ELSE /\ s.user \o s.port \o s.remAddr \o s.data = Slice(octets, 8, ends)
                 /\ <<Len(s.user), Len(s.port), Len(s.remAddr), Len(s.data)>> = Slice(octets, 4, 8)

\* The layout of RFC 8907 6.2, read independently of the encoder.
ResponseArgs(b) ==
    LET n == b[2] IN
    Fields(b, 6 + n + Number(Slice(b, 2, 4)) + Number(Slice(b, 4, 6)), Slice(b, 6, 6 + n))

\* The arguments of an authorization request are the last strings of its body,
\* and come back in the response, each with its own length, in their order.
ArgsMirrored ==
    kind = "author" =>
        LET r == DecodeAuthorRequest(octets)
            b == EncodeAuthorResponse(1, << 3, 5, 7 >>, r.args)
        IN  r # NoAuthor =>
              LET ends == 8 + octets[8] + SumTo(Slice(octets, 4, 7), 3)
                            + SumTo(Slice(octets, 8, 8 + octets[8]), octets[8])
              IN  /\ r.user \o r.port \o r.remAddr \o FlattenSeq(r.args)
                        = Slice(octets, 8 + octets[8], ends)
                  /\ ResponseArgs(b) = r.args

Head1 == [version |-> MajorVer * Nibble, type |-> TypeAuthen, seqNo |-> 1, flags |-> 0,
          sessionID |-> 9, length |-> 0]

\* Obfuscation hides every octet, is undone under the same secret, session and
\* sequence number and not under another of any of them, and combines no two
\* octets of a body with the same octet of a pad.
PadUndone ==
    kind = "text" =>
        LET x    == Plain(octets)
            wire == CryptPayload(Head1, x, "secret")
            p    == pad(Head1, x, "secret")
        IN  /\ CryptPayload(Head1, wire, "secret") = x
            /\ \A i, j \in DOMAIN p : p[i] = p[j] => i = j
            /\ octets # << >> =>
                  /\ ~ Legible(wire)
                  /\ ~ Legible(CryptPayload(Head1, wire, "mistyped"))
                  /\ ~ Legible(CryptPayload([Head1 EXCEPT !.seqNo = 2], wire, "secret"))
                  /\ ~ Legible(CryptPayload([Head1 EXCEPT !.sessionID = 8], wire, "secret"))

\* The client's START, and the server's reply to it as the client shows it.
Asked(user, pass) ==
    LET body == StartBody(user, << 6 >>, << 7, 7 >>, pass)
        h    == [Head1 EXCEPT !.length = Len(body)]
        wire == CryptPayload(h, Plain(body), "secret")
    IN  DecodeAuthenStart(Text(CryptPayload(DecodeHeader(EncodeHeader(h)), wire, "secret")))

Shown(start, msg) ==
    LET h == [Head1 EXCEPT !.seqNo = 2]
    IN  ReadReply(Text(CryptPayload(h,
            CryptPayload(h, Plain(EncodeReply(ProcessAuthenStart(start), msg, << >>)), "secret"),
            "secret")))

\* The name and the password given to the client are what the server reads, exactly
\* when their lengths fit an octet; and the client then shows the status due to
\* that name, and the server's message.  A message is shown whole exactly when 6
\* more than its length still fits two octets; from there on its encoder panics,
\* and one that does not fit two octets itself is cut.
TypedNameDecides ==
  /\ kind = "message" =>
        LET reply == EncodeReply(AuthenStatusPass, octets, << >>)
        IN  /\ ReadReply(reply) = [status |-> AuthenStatusPass, msg |-> octets]
                  <=> Len(octets) + 6 < Word
            /\ reply = OutOfRange <=> 6 + (Len(octets) % Word) >= Word
  /\ kind = "text" =>
        /\ Asked(octets, << 5 >>) # NoStart
        /\ Asked(octets, << 5 >>).user = octets <=> Len(octets) < Octets
        /\ Asked(<< 5 >>, octets).data = octets <=> Len(octets) < Octets
        /\ Len(octets) + 6 < Word =>
              Shown(Asked(<< 5 >>, << >>), octets) = [status |-> AuthenStatusPass, msg |-> octets]
        /\ Len(octets) < Octets =>
              Shown(Asked(octets, << 5 >>), << 1, 2 >>) =
                  [status |-> IF hasNoPrefix(octets) THEN AuthenStatusFail
                              ELSE IF octets = << >> THEN AuthenStatusGetUser
                              ELSE AuthenStatusPass,
                   msg    |-> << 1, 2 >>]
=============================================================================
