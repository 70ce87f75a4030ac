----------------------------- MODULE TacacsBytes -----------------------------
(***************************************************************************)
(* TACACS+ packets as octets: pkg/tacacs/header.go, authen.go, author.go,  *)
(* and what cmd/cli/tacacs_client.go builds and reads by hand.             *)
(***************************************************************************)
EXTENDS ByteStrings

CONSTANTS
    Nibble,     \* 16
    MajorVer,   \* 12, MajorVer12 in the code
    NoPrefix    \* the octets of "no_"

ASSUME NibbleAssumption == Nibble \in Nat \ {0}

\* The sum of the first i elements of a sequence.
SumTo(s, i) ==
    LET sum[n \in 0 .. i] == IF n = 0 THEN 0 ELSE sum[n - 1] + s[n]
    IN  sum[i]

\* The strings that stand one after the other from an offset on.
Fields(s, start, lens) ==
    [i \in DOMAIN lens |-> Slice(s, start + SumTo(lens, i - 1), start + SumTo(lens, i))]

\* n shifted right by i octets, and the last k octets of n.
ShiftRight(n, i) ==
    LET shifted[j \in 0 .. i] == IF j = 0 THEN n ELSE shifted[j - 1] \div Octets
    IN  shifted[i]
BigEndian(n, k) == [i \in 1 .. k |-> ShiftRight(n, k - i) % Octets]

\* The number that the octets s are, the highest first.
Number(s) ==
    LET value[n \in 0 .. Len(s)] == IF n = 0 THEN 0 ELSE value[n - 1] * Octets + s[n]
    IN  value[Len(s)]

-----------------------------------------------------------------------------
(* header.go *)

HeaderLen == 12

TypeAuthen == 1
TypeAuthor == 2

FlagUnencrypted(flags) == flags % 2 = 1

NoHeader == [version |-> -1]

DecodeHeader(data) ==
    IF Len(data) < HeaderLen \/ data[1] \div Nibble # MajorVer THEN NoHeader
    ELSE [version |-> data[1], type |-> data[2], seqNo |-> data[3], flags |-> data[4],
          sessionID |-> Number(Slice(data, 4, 8)), length |-> Number(Slice(data, 8, 12))]

EncodeHeader(h) ==
    << h.version, h.type, h.seqNo, h.flags >> \o BigEndian(h.sessionID, 4)
        \o BigEndian(h.length, 4)

\* Mutant: each block is chained on the text and not on the pad before it.
padChainedOnText(h, payload, secret) ==
    LET key == << h.sessionID, secret, h.version, h.seqNo >>
        block[n \in 0 .. Len(payload) \div MacLen] ==
            MD5(IF n = 0 THEN key ELSE key \o SubSeq(payload, (n - 1) * MacLen + 1, n * MacLen))
    IN  [i \in DOMAIN payload |-> block[(i - 1) \div MacLen][((i - 1) % MacLen) + 1]]

\* The octets a payload is combined with: MD5 sums of the key, each but the
\* first also of the sum before it.
pad(h, payload, secret) ==
    LET key == << h.sessionID, secret, h.version, h.seqNo >>
        block[n \in 0 .. Len(payload) \div MacLen] ==
            MD5(IF n = 0 THEN key ELSE key \o block[n - 1])
    IN  [i \in DOMAIN payload |-> block[(i - 1) \div MacLen][((i - 1) % MacLen) + 1]]

\* Obfuscation, and what undoes it.
CryptPayload(h, payload, secret) ==
    IF FlagUnencrypted(h.flags) THEN payload
    ELSE Xor(payload, pad(h, payload, secret))

-----------------------------------------------------------------------------
(* authen.go *)

AuthenStatusPass    == 1
AuthenStatusFail    == 2
AuthenStatusGetUser == 4
AuthenTypeASCII     == 1

NoStart == [user |-> NoOctets]

\* Mutant: the offset of the data forgets the remote address.
DecodeAuthenStartSkewed(data) ==
    LET lens == Slice(data, 4, 8)
    IN  IF Len(data) < 8 \/ Len(data) < 8 + SumTo(lens, 4) THEN NoStart
        ELSE LET f == Fields(data, 8, lens)
             IN  [type |-> data[3], user |-> f[1], port |-> f[2], remAddr |-> f[3],
                  data |-> Slice(data, 8 + lens[1] + lens[2], 8 + lens[1] + lens[2] + lens[4])]

\* Four lengths, and the four strings one after the other.
DecodeAuthenStart(data) ==
    LET lens == Slice(data, 4, 8)
    IN  IF Len(data) < 8 \/ Len(data) < 8 + SumTo(lens, 4) THEN NoStart
        ELSE LET f == Fields(data, 8, lens)
             IN  [type |-> data[3], user |-> f[1], port |-> f[2], remAddr |-> f[3],
                  data |-> f[4]]

\* The client's START: uint8 cuts each length to an octet.
StartBody(user, port, remAddr, pass) ==
    << 1, 1, AuthenTypeASCII, 1, Len(user) % Octets, Len(port) % Octets,
       Len(remAddr) % Octets, Len(pass) % Octets >> \o user \o port \o remAddr \o pass

hasNoPrefix(user) == IsPrefix(NoPrefix, user)

ProcessAuthenStart(start) ==
    IF hasNoPrefix(start.user) THEN AuthenStatusFail
    ELSE IF start.user = << >> /\ start.type = AuthenTypeASCII THEN AuthenStatusGetUser
    ELSE AuthenStatusPass

\* A uint16 counts up to 65535.
Word == Octets * Octets

\* Mutant: the length of the data is put before that of the message.
EncodeReplySwapped(status, msg, data) ==
    << status, 0 >> \o BigEndian(Len(data), 2) \o BigEndian(Len(msg), 2) \o msg \o data

\* AuthenReply.Encode.  Lengths are cut to a uint16, and so are the sums of them:
\* when one wraps, the buffer made is too small for what is then sliced of it.
EncodeReply(status, msg, data) ==
    LET msgLen  == Len(msg) % Word
        dataLen == Len(data) % Word
    IN  IF 6 + msgLen + dataLen >= Word THEN OutOfRange
        ELSE << status, 0 >> \o BigEndian(msgLen, 2) \o BigEndian(dataLen, 2)
               \o SubSeq(msg, 1, msgLen) \o SubSeq(data, 1, dataLen)

\* The client's reading of a reply: a message that does not fit is not shown.
\* The end of the message is a uint16, too.
ReadReply(body) ==
    LET msgLen == Number(Slice(body, 2, 4))
    IN  [status |-> body[1],
         msg    |-> IF msgLen <= Len(body) - 6 THEN Slice(body, 6, (6 + msgLen) % Word)
                    ELSE << >>]

-----------------------------------------------------------------------------
(* author.go *)

NoAuthor == [user |-> NoOctets]

\* Three lengths, the number of arguments, their lengths, and all the strings.
DecodeAuthorRequest(data) ==
    LET argCnt == data[8]
        lens   == Slice(data, 4, 7) \o Slice(data, 8, 8 + argCnt)
        f      == Fields(data, 8 + argCnt, lens)
    IN  IF Len(data) < 8 THEN NoAuthor
        ELSE IF Len(data) < 8 + argCnt THEN NoAuthor
        ELSE IF Len(data) < 8 + argCnt + SumTo(lens, Len(lens)) THEN NoAuthor
        ELSE [user |-> f[1], port |-> f[2], remAddr |-> f[3],
              args |-> SubSeq(f, 4, 3 + argCnt)]

\* Mutant: the lengths of the arguments follow the message.
EncodeAuthorResponseLate(status, msg, args) ==
    << status, Len(args) % Octets >> \o BigEndian(Len(msg), 2) \o BigEndian(0, 2)
        \o msg \o [i \in DOMAIN args |-> Len(args[i]) % Octets] \o FlattenSeq(args)

\* AuthorResponse.Encode; the server sends no data.
EncodeAuthorResponse(status, msg, args) ==
    << status, Len(args) % Octets >> \o BigEndian(Len(msg), 2) \o BigEndian(0, 2)
        \o [i \in DOMAIN args |-> Len(args[i]) % Octets] \o msg \o FlattenSeq(args)
=============================================================================
