---------------------------- MODULE RadiusPacket ----------------------------
(***************************************************************************)
(* What cmd/server/handler.go computes from one RADIUS packet: the         *)
(* attribute scanners, the Message-Authenticator, the verdict of each      *)
(* authentication method and the response packet.                          *)
(*                                                                         *)
(* A packet is what is left after packet[:length].  Its attributes up to   *)
(* the first one whose length byte does not fit are a sequence of records; *)
(* "tail" is the type byte of that last, malformed attribute ("none" when  *)
(* the packet ends cleanly, "vendor" for a Vendor-Specific attribute whose *)
(* length byte is 0 or 1, "other" for one too long).  "len" says how the   *)
(* lengths relate: fewer than 20 bytes ("tiny"), declared more than        *)
(* received ("over"), declared under the 20 bytes of a header ("short", no *)
(* attribute), or "ok".                                                    *)
(* Keyed hashes are symbolic: a record of the key and of what it covers.   *)
(***************************************************************************)
EXTENDS Naturals, Sequences, FiniteSetsExt

CONSTANTS
    Secret,   \* the server's shared secret
    Denied    \* the user names that start with "no_"

AccessRequest   == 1
AccessAccept    == 2
AccessReject    == 3
AccessChallenge == 11

\* The name handlePacket uses when there is no User-Name to read, and the
\* request authenticator of a packet too short to hold one.
Unknown == "(unknown)"
Zeros   == "zeros"

ASSUME UnknownAssumption == Unknown \notin Denied

-----------------------------------------------------------------------------
(* Scanners.  The has* functions test the type byte before the length, so a
   malformed last attribute counts; the extract* functions skip it.          *)

\* Where the attributes of type t are that can be read, and the first of them.
Readable(p, t) == {i \in DOMAIN p.attrs : p.attrs[i].type = t}
First(p, t)    == p.attrs[Min(Readable(p, t))]

HasReadable(p, t) == Readable(p, t) # {}
Has(p, t)         == HasReadable(p, t) \/ p.tail = t

hasEAPAttributes(p) == Has(p, "eap")

\* Mutant: a malformed Message-Authenticator counts as no authenticator.
hasReadableMA(p) == HasReadable(p, "ma")

hasMessageAuthenticator(p) == Has(p, "ma")

hasCHAPAttributes(p) == Has(p, "chapResponse") \/ Has(p, "chapChallenge")

\* hasMSCHAPAttributes alone wants the attribute to fit: it reads its vendor.
hasMSCHAPAttributes(p) == HasReadable(p, "mschap")

\* It slices the value before it tests that the length is 2 or more, unless it
\* has found what it looks for before it comes to the malformed attribute.
Panics(p) == p.tail = "vendor" /\ ~ HasReadable(p, "mschap")

extractUsername(p) ==
    IF HasReadable(p, "user") THEN First(p, "user").name ELSE Unknown

\* The length of the CHAP-Response value, or nil.
nil == [len |-> 0, nil |-> TRUE]
extractCHAPResponse(p) ==
    IF HasReadable(p, "chapResponse")
    THEN [len |-> First(p, "chapResponse").len, nil |-> FALSE]
    ELSE nil

-----------------------------------------------------------------------------
(* The Message-Authenticator. *)

ZeroMA == [type |-> "ma", zero |-> TRUE]

replaceOrAddMA(attrs) ==
    IF \E i \in DOMAIN attrs : attrs[i].type = "ma"
    THEN [i \in DOMAIN attrs |-> IF attrs[i].type = "ma" THEN ZeroMA ELSE attrs[i]]
    ELSE Append(attrs, ZeroMA)

\* HMAC-MD5 over the header, the attributes with a zeroed authenticator and
\* the bytes of a malformed tail.
calculateMessageAuthenticator(key, code, id, auth, attrs, tail) ==
    [key  |-> key,
     over |-> <<code, id, auth, replaceOrAddMA(attrs), tail>>]

\* Only an attribute of 18 bytes holds an authenticator to compare; the
\* first one counts, and a packet with none of that size is invalid.
validateMessageAuthenticator(p) ==
    LET whole == {i \in Readable(p, "ma") : "mac" \in DOMAIN p.attrs[i]}
    IN  /\ whole # {}
        /\ p.attrs[Min(whole)].mac = calculateMessageAuthenticator(
               Secret, p.code, p.id, p.auth, p.attrs, p.tail)

-----------------------------------------------------------------------------
(* The verdicts. *)

hasNoPrefix(user) == user \in Denied

ServeRadius(user) == IF hasNoPrefix(user) THEN AccessReject ELSE AccessAccept

\* Any CHAP-Response of 17 bytes or more is accepted, and so is none at all.
ServeRadiusWithCHAP(user, response) ==
    IF hasNoPrefix(user) \/ (~response.nil /\ response.len < 17)
    THEN AccessReject
    ELSE AccessAccept

\* parseMSCHAPData: size is the number of bytes after the vendor id, name
\* what the bytes from msLen on spell.
MSCHAPDataSize == [v \in {1, 3} |-> IF v = 1 THEN 24 ELSE 49]

parsesMSCHAP(v) ==
    /\ v.msLen + 4 <= v.size
    /\ v.msLen >= 4
    /\ v.version \in {1, 3}
    /\ v.msLen - 4 >= MSCHAPDataSize[v.version]

\* Mutant: the guard for missing data comes before the test of the name.
ServeRadiusWithMSCHAPLate(user, v) ==
    IF parsesMSCHAP(v) /\ (hasNoPrefix(user) \/ v.name # user)
    THEN AccessReject
    ELSE AccessAccept

\* Data that does not parse reaches the handler as nil, which is accepted.
ServeRadiusWithMSCHAP(user, v) ==
    IF hasNoPrefix(user) \/ (parsesMSCHAP(v) /\ v.name # user)
    THEN AccessReject
    ELSE AccessAccept

\* The three-way choice at the end of handlePacket.
Verdict(p) ==
    LET user == extractUsername(p)
    IN  IF hasMSCHAPAttributes(p)
        THEN ServeRadiusWithMSCHAP(user, First(p, "mschap"))
        ELSE IF hasCHAPAttributes(p)
        THEN ServeRadiusWithCHAP(user, extractCHAPResponse(p))
        ELSE ServeRadius(user)

-----------------------------------------------------------------------------
(* Responses. *)

\* MD5(Code + Id + Length + RequestAuth + Attributes + Secret).
ResponseAuthenticator(code, id, auth, attrs) ==
    [key |-> Secret, over |-> <<code, id, auth, attrs>>]

Sealed(code, id, auth, attrs) ==
    [code |-> code, id |-> id, attrs |-> attrs,
     auth |-> ResponseAuthenticator(code, id, auth, attrs)]

requestAuth(p) == IF p.len = "short" THEN Zeros ELSE p.auth

\* The Proxy-State and State attributes of a request, as they come.
mirrored(attrs) ==
    LET kept[i \in 0 .. Len(attrs)] ==
            IF i = 0 THEN << >>
            ELSE IF attrs[i].type \in {"proxy", "state"} THEN Append(kept[i - 1], attrs[i])
            ELSE kept[i - 1]
    IN  kept[Len(attrs)]

\* An Access-Accept has no attribute; an Access-Reject repeats Proxy-State
\* and State and adds a Reply-Message.  Neither has a Message-Authenticator.
buildResponsePacket(p, code) ==
    Sealed(code, p.id, requestAuth(p),
           IF code = AccessAccept
           THEN << >>
           ELSE Append(mirrored(p.attrs), [type |-> "reply"]))

\* Mutant: respCode is left at its zero value.
EAPResponseCodeZero(success) == IF success THEN AccessAccept ELSE 0

EAPResponseCode(success) == IF success THEN AccessAccept ELSE AccessChallenge

\* Mutant: the header is signed over the zeroed authenticator.
SealEAPEarly(p, code, attrs) ==
    LET ma == calculateMessageAuthenticator(Secret, code, p.id, p.auth, attrs, "none")
    IN  [Sealed(code, p.id, p.auth, attrs)
            EXCEPT !.attrs = [attrs EXCEPT ![Len(attrs)] = [type |-> "ma", mac |-> ma]]]

\* handleEAP's steps 2 to 4: the authenticator is computed over the request
\* authenticator and put in the last attribute, then the header is signed.
SealEAP(p, code, attrs) ==
    LET ma == calculateMessageAuthenticator(Secret, code, p.id, p.auth, attrs, "none")
    IN  Sealed(code, p.id, p.auth,
               [attrs EXCEPT ![Len(attrs)] = [type |-> "ma", mac |-> ma]])

\* The response that carries an EAP packet: State only in a challenge.
EAPResponse(p, success) ==
    LET code == EAPResponseCode(success)
    IN  SealEAP(p, code,
                <<[type |-> "eap"]>>
                \o (IF code = AccessAccept THEN << >> ELSE <<[type |-> "state"]>>)
                \o <<ZeroMA>>)

\* What a client that follows RFC 2865 and RFC 3579 computes to check a
\* response: the response authenticator over the request's, and the
\* Message-Authenticator, where there is one, over the request's as well.
Verifies(p, response) ==
    /\ response.id = p.id
    /\ response.auth = [key  |-> Secret,
                        over |-> <<response.code, p.id, p.auth, response.attrs>>]
    /\ \A i \in DOMAIN response.attrs :
           response.attrs[i].type = "ma" =>
               response.attrs[i].mac = calculateMessageAuthenticator(
                   Secret, response.code, p.id, p.auth, response.attrs, "none")
=============================================================================
