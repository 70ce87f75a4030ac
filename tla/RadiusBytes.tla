----------------------------- MODULE RadiusBytes -----------------------------
(***************************************************************************)
(* RADIUS attributes as octets: the scanners and the encoder of            *)
(* cmd/server/handler.go and cmd/server/main.go, and the copies of them    *)
(* that cmd/cli/radius-cli.go has.                                         *)
(*                                                                         *)
(* Offsets count from 0 at the first attribute, packet[20] in the code.    *)
(***************************************************************************)
EXTENDS ByteStrings

CONSTANTS
    UserNameType,          \* 1
    ReplyMessageType,      \* 18
    StateType,             \* 24
    VendorSpecificType,    \* 26
    ProxyStateType,        \* 33
    CHAPChallengeType,     \* 60
    CHAPResponseType,      \* 61
    EAPMessageType,        \* 79
    MessageAuthenticator,  \* 80, MessageAuthenticatorType in the code
    MicrosoftVendorID,     \* the four octets of 311
    ChallengeLen, ReservedLen, ResponseLen   \* 16, 8, 24: parts of MS-CHAP v2

Types == << UserNameType, VendorSpecificType, CHAPChallengeType, CHAPResponseType,
            EAPMessageType, MessageAuthenticator, ReplyMessageType, StateType,
            ProxyStateType >>

ASSUME MacAssumption   == MacLen + 2 < Octets
ASSUME TypesAssumption ==
    \A i, j \in 1 .. 9 : Types[i] \in 0 .. Octets - 1 /\ (Types[i] = Types[j] => i = j)
ASSUME VendorAssumption == MicrosoftVendorID \in Seq(0 .. Octets - 1) \ {<< >>}

-----------------------------------------------------------------------------
(* The attribute loops. *)

At(o, pos)   == o[pos + 1]
Size(o, pos) == At(o, pos + 1)
Fits(o, pos) == pos + Size(o, pos) <= Len(o)
Value(o, pos) == Slice(o, pos + 2, pos + Size(o, pos))

\* Where there is room for type and length, and what the loops test there.
Heads(o)        == 0 .. Len(o) - 2
Typed(o, types) == {pos \in Heads(o) : At(o, pos) \in types}
Sound(o)        == {pos \in Heads(o) : Size(o, pos) >= 2}
Inside(o)       == {pos \in Heads(o) : Fits(o, pos)}

\* The offsets at which the body of a has* loop runs: it ends at a length that
\* is too small or too large.
Scan(o) ==
    LET from[pos \in 0 .. Len(o)] ==
            IF pos + 2 > Len(o) THEN << >>
            ELSE << pos >> \o IF Size(o, pos) >= 2 /\ Fits(o, pos)
                              THEN from[pos + Size(o, pos)] ELSE << >>
    IN  from[0]

\* The offsets for an extract* loop, which runs past the end.
LooseScan(o) ==
    LET from[pos \in 0 .. Len(o) + Octets] ==
            IF pos + 2 > Len(o) THEN << >>
            ELSE << pos >> \o IF Size(o, pos) >= 2
                              THEN from[pos + Size(o, pos)] ELSE << >>
    IN  from[0]

Has(o, types) == \E i \in DOMAIN Scan(o) : At(o, Scan(o)[i]) \in types

\* Mutant: the length is tested before the type.
hasEAPAttributesFitting(o) ==
    \E i \in DOMAIN Scan(o) : /\ At(o, Scan(o)[i]) = EAPMessageType
                              /\ Size(o, Scan(o)[i]) >= 2 /\ Fits(o, Scan(o)[i])

hasEAPAttributes(o)        == Has(o, {EAPMessageType})
hasMessageAuthenticator(o) == Has(o, {MessageAuthenticator})
hasCHAPAttributes(o)       == Has(o, {CHAPChallengeType, CHAPResponseType})

Microsoft(v) ==
    Len(v) >= Len(MicrosoftVendorID) /\ IsPrefix(MicrosoftVendorID, v)

\* The vendor attributes hasMSCHAPAttributes looks into: it slices before it
\* tests that the length is at least 2.
VendorData(o) == [i \in {j \in DOMAIN Scan(o) : /\ At(o, Scan(o)[j]) = VendorSpecificType
                                                /\ Fits(o, Scan(o)[j])}
                    |-> Value(o, Scan(o)[i])]

hasMSCHAPAttributes(o) == \E i \in DOMAIN VendorData(o) : Microsoft(VendorData(o)[i])

\* The slice is out of range, and the loop has not returned before.
hasMSCHAPPanics(o) ==
    /\ ~ hasMSCHAPAttributes(o)
    /\ \E i \in DOMAIN VendorData(o) : VendorData(o)[i] = OutOfRange

\* Where an extract* loop finds an attribute of a type, fitting or not.
OfType(o, type) ==
    Among(LooseScan(o), Sound(o) \cap Typed(o, {type}))

\* The value at the first of the positions, or an error.
Extract(o, found) == IF found = << >> THEN NoOctets ELSE Value(o, Head(found))

ExtractType(o, type) ==
    Extract(o, Among(OfType(o, type), Inside(o)))

\* Mutant: the type alone decides.
extractUsernameUnbounded(o) == Extract(o, OfType(o, UserNameType))

extractUsername(o)      == ExtractType(o, UserNameType)
extractCHAPChallenge(o) == ExtractType(o, CHAPChallengeType)
extractCHAPResponse(o)  == ExtractType(o, CHAPResponseType)

\* What follows the vendor id of the first Microsoft attribute.
extractMSCHAPAttribute(o) ==
    LET v == Extract(o, Among(OfType(o, VendorSpecificType),
                              {pos \in Inside(o) : Microsoft(Value(o, pos))}))
    IN  IF v = NoOctets THEN v ELSE Slice(v, Len(MicrosoftVendorID), Len(v))

\* The Message-Authenticator that validateMessageAuthenticator compares: the
\* first of the right length.
receivedMA(o) ==
    LET whole == Among(Scan(o), {pos \in Typed(o, {MessageAuthenticator}) \cap Inside(o) :
                                   Size(o, pos) = MacLen + 2})
    IN  IF whole = << >> THEN NoOctets ELSE Value(o, Head(whole))

\* The values of all EAP-Message attributes, in order.
extractEAPMessage(o) ==
    LET eap == Among(Scan(o), Typed(o, {EAPMessageType}) \cap Sound(o) \cap Inside(o))
    IN  FlattenSeq([i \in DOMAIN eap |-> Value(o, eap[i])])

-----------------------------------------------------------------------------
(* The encoder. *)

\* Mutant: the length is that of the value.
buildAttributeValueLength(type, value) == << type, Len(value) % Octets >> \o value

\* The length octet is the length cut to an octet.
buildAttribute(type, value) == << type, (2 + Len(value)) % Octets >> \o value

\* Mutant: the largest length octet instead of the largest value.
eapChunkLong == Octets - 2

\* 253: the longest value an attribute holds.
eapChunk == Octets - 3

\* The attributes that carry an EAP packet in a response of handleEAP.
splitEAP(data) ==
    LET from[pos \in 0 .. Len(data) + eapChunk] ==
            IF pos >= Len(data) THEN << >>
            ELSE LET end == IF pos + eapChunk < Len(data) THEN pos + eapChunk ELSE Len(data)
                 IN  buildAttribute(EAPMessageType, Slice(data, pos, end)) \o from[end]
    IN  from[0]

\* An EAP packet; EAP-Success and its like have type 0 and no data.
buildEAPPacket(code, id, type, data) ==
    LET length == IF type = 0 THEN 4 ELSE 5 + Len(data)
    IN  << code, id, (length \div Octets) % Octets, length % Octets >>
          \o IF type = 0 THEN << >> ELSE << type >> \o data

\* Mutant: the type is tested before the length, as the has* loops do.
mirroredUnbounded(o) ==
    LET kept == Among(Scan(o), Typed(o, {ProxyStateType, StateType}))
        end(pos) == IF Fits(o, pos) THEN pos + Size(o, pos) ELSE Len(o)
    IN  FlattenSeq([i \in DOMAIN kept |-> Slice(o, kept[i], end(kept[i]))])

\* The attributes of a request that an Access-Reject repeats.
mirrored(o) ==
    LET kept == Among(Scan(o), Typed(o, {ProxyStateType, StateType}) \cap Sound(o) \cap Inside(o))
    IN  FlattenSeq([i \in DOMAIN kept |-> Slice(o, kept[i], kept[i] + Size(o, kept[i]))])

\* The attributes of an Access-Reject: buildResponsePacket.
rejectAttributes(o, replyMessage) ==
    mirrored(o) \o buildAttribute(ReplyMessageType, replyMessage)

\* The types and values that the client lists of a response.
DisplayResponse(o) ==
    LET whole == Among(Scan(o), Sound(o) \cap Inside(o))
    IN  [i \in DOMAIN whole |-> << At(o, whole[i]), Value(o, whole[i]) >>]

ZeroMA == buildAttribute(MessageAuthenticator, [i \in 1 .. MacLen |-> 0])

\* Mutant: octets after the last whole attribute are dropped.
replaceOrAddMADropping(o) ==
    LET whole == Among(Scan(o), Sound(o) \cap Inside(o))
        part(pos) == IF At(o, pos) = MessageAuthenticator
                     THEN ZeroMA ELSE Slice(o, pos, pos + Size(o, pos))
    IN  FlattenSeq([i \in DOMAIN whole |-> part(whole[i])])
          \o IF \E i \in DOMAIN whole : At(o, whole[i]) = MessageAuthenticator
             THEN << >> ELSE ZeroMA

\* The server's replaceOrAddMA: every whole authenticator becomes a zeroed
\* one, whatever comes after the last whole attribute is kept, and an
\* authenticator is added where there was none.
replaceOrAddMA(o) ==
    LET whole == Among(Scan(o), Sound(o) \cap Inside(o))
        part(pos) == IF At(o, pos) = MessageAuthenticator
                     THEN ZeroMA ELSE Slice(o, pos, pos + Size(o, pos))
        end  == IF whole = << >> THEN 0 ELSE Last(whole) + Size(o, Last(whole))
    IN  FlattenSeq([i \in DOMAIN whole |-> part(whole[i])])
          \o Slice(o, end, Len(o))
          \o IF \E i \in DOMAIN whole : At(o, whole[i]) = MessageAuthenticator
             THEN << >> ELSE ZeroMA

\* The client's: trailing octets are dropped, and an authenticator counts
\* even where it does not fit.
cliReplaceOrAddMA(o) ==
    LET seen == Among(LooseScan(o), Sound(o))
        part(pos) == IF At(o, pos) = MessageAuthenticator THEN ZeroMA
                     ELSE IF Fits(o, pos) THEN Slice(o, pos, pos + Size(o, pos)) ELSE << >>
    IN  FlattenSeq([i \in DOMAIN seen |-> part(seen[i])])
          \o IF \E i \in DOMAIN seen : At(o, seen[i]) = MessageAuthenticator
             THEN << >> ELSE ZeroMA

-----------------------------------------------------------------------------
(* MS-CHAP, between the vendor id and the end of the attribute. *)

MSCHAPv1 == 1
MSCHAPv2 == 3

\* The client's MS-CHAP v2 data: type, reserved, length (of header and data),
\* data, and the user name, which the length leaves out.
mschapVendorData(challenge, response, flags, username) ==
    LET data  == challenge \o [i \in 1 .. ReservedLen |-> 0] \o response \o << flags >>
        msLen == 4 + Len(data)
    IN  << MSCHAPv2, 0, msLen \div Octets, msLen % Octets >> \o data \o username

NoMSCHAP == [version |-> 0, response |-> << >>, challenge |-> << >>, name |-> << >>]

\* Mutant: the user name is looked for one octet too far.
parseMSCHAPDataLate(v) ==
    LET msLen == v[3] * Octets + v[4]
    IN  IF Len(v) < 4 \/ msLen > Len(v) - 4 \/ msLen < 4 THEN NoMSCHAP
        ELSE [version |-> v[1], response |-> << >>, challenge |-> << >>,
              name |-> Slice(v, msLen + 1, Len(v))]

\* The server's reading of it.  The length is compared with what follows the
\* header, though it counts the header too.
parseMSCHAPData(v) ==
    LET msLen == v[3] * Octets + v[4]
        data  == Slice(v, 4, msLen)
        name  == Slice(v, msLen, Len(v))
    IN  IF Len(v) < 4 THEN NoMSCHAP
        ELSE IF msLen > Len(v) - 4 \/ msLen < 4 THEN NoMSCHAP
        ELSE IF v[1] = MSCHAPv1 /\ Len(data) >= ResponseLen
        THEN [version |-> MSCHAPv1, response |-> Slice(data, 0, ResponseLen),
              challenge |-> << >>, name |-> name]
        ELSE IF v[1] = MSCHAPv2 /\ Len(data) >= ChallengeLen + ReservedLen + ResponseLen + 1
        THEN [version |-> MSCHAPv2,
              response |-> Slice(data, ChallengeLen + ReservedLen,
                                 ChallengeLen + ReservedLen + ResponseLen),
              challenge |-> Slice(data, 0, ChallengeLen), name |-> name]
        ELSE NoMSCHAP

-----------------------------------------------------------------------------
(* User-Password. *)

Chunk(s, n) == SubSeq(s, n * MacLen + 1, (n + 1) * MacLen)

\* Mutant: a chunk is chained on the password before it.
encryptPasswordChained(password, secret, authenticator) ==
    LET chunks == (Len(password) + MacLen - 1) \div MacLen
        padded == password \o [i \in 1 .. chunks * MacLen - Len(password) |-> 0]
        hidden[n \in 0 .. chunks] ==
            Xor(Plain(Chunk(padded, n)),
                MD5(<< secret >> \o IF n = 0 THEN authenticator ELSE Plain(Chunk(padded, n - 1))))
    IN  FlattenSeq([n \in 1 .. chunks |-> hidden[n - 1]])

\* The client's hiding of a password: it is filled up to whole chunks, and each
\* is combined with the sum of the secret and the hidden chunk before it.
encryptPassword(password, secret, authenticator) ==
    LET chunks == (Len(password) + MacLen - 1) \div MacLen
        padded == password \o [i \in 1 .. chunks * MacLen - Len(password) |-> 0]
        hidden[n \in 0 .. chunks] ==
            Xor(Plain(Chunk(padded, n)),
                MD5(<< secret >> \o IF n = 0 THEN authenticator ELSE hidden[n - 1]))
    IN  FlattenSeq([n \in 1 .. chunks |-> hidden[n - 1]])
=============================================================================
