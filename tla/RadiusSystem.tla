---------------------------- MODULE RadiusSystem ----------------------------
(***************************************************************************)
(* The RADIUS listener with the clients that talk to it: runs of           *)
(* radius-cli (cmd/cli/radius-cli.go), and a NAS that sends packets laid   *)
(* out differently.                                                        *)
(*                                                                         *)
(* A run of the CLI sends one request, always with identifier 0, from a    *)
(* socket of its own, and waits five seconds for one answer.  Its address  *)
(* and its random request authenticator are its name.                      *)
(***************************************************************************)
EXTENDS RadiusServer, FiniteSets

CONSTANTS
    Clients,      \* runs of radius-cli, and their addresses
    Nas,          \* the address of the NAS
    NasPackets,   \* packets the NAS may send, with distinct identifiers
    MaxNas,       \* bound: packets the NAS sends
    NameLen,      \* NameLen[u]: length of user name u, in octets
    WrongSecret   \* what a misconfigured client uses as the secret

ASSUME NasAssumption == Nas \notin Clients
ASSUME NasPacketsAssumption ==
    /\ \A p, q \in NasPackets : p.id = q.id => p = q
    /\ \A p \in NasPackets : p.attrs \in Seq(Range(p.attrs))
    /\ \A p \in NasPackets : p.len = "short" => p.attrs = << >> /\ p.tail = "none"

Users   == DOMAIN NameLen
Modes   == {"pap", "chap", "mschap", "ttls"}

ASSUME NameLenAssumption == NameLen \in [Users -> Nat]

\* The User-Name attribute holds the name; one more attribute of a mode holds
\* it behind a vendor id and the MS-CHAP data, or behind an EAP header.
LongestValue == 253
Overhead     == [pap |-> 0, chap |-> 0, mschap |-> 57, ttls |-> 5]

NameTooLong(o) == NameLen[o.user] > LongestValue
DataTooLong(o) == ~ NameTooLong(o) /\ NameLen[o.user] + Overhead[o.mode] > LongestValue

\* Bound: the first value that is too long is so by one octet or two.  Its length
\* octet then reads 0 or 1, where every scanner stops; behind a larger one
\* the scanners would go on, in the middle of the value.
Options == {o \in [mode : Modes, user : Users, secret : {Secret, WrongSecret}] :
               \/ NameTooLong(o) /\ NameLen[o.user] <= LongestValue + 2
               \/ ~ NameTooLong(o) /\ NameLen[o.user] + Overhead[o.mode] <= LongestValue + 2}

VARIABLES
    options,   \* the command line of each run
    client,    \* "new", "waiting", "answered" or "failed"
    shown,     \* the response a run passes to DisplayResponse
    nasSent    \* packets the NAS has sent

systemVars == <<serverVars, options, client, shown, nasSent>>

NoResponse == [code |-> 0]

SystemInit ==
    /\ ServerInit
    /\ options \in [Clients -> Options]
    /\ client = [c \in Clients |-> "new"]
    /\ shown = [c \in Clients |-> NoResponse]
    /\ nasSent = {}

-----------------------------------------------------------------------------
(* radius-cli. *)

User(c) == [type |-> "user", name |-> options[c].user]
Nameless == [type |-> "other"]

\* What the four Send functions put in a request before its authenticator;
\* vendorData of MS-CHAP v2 declares 4 + 49 bytes and ends with the name.
PAPAttributes(c)  == <<User(c), Nameless>>
CHAPAttributes(c) == <<User(c), [type |-> "chapResponse", len |-> 17],
                       [type |-> "chapChallenge"], Nameless>>
MSCHAPAttributes(c) ==
    <<User(c),
      [type |-> "mschap", version |-> 3, msLen |-> 53,
       size |-> 53 + NameLen[options[c].user], name |-> options[c].user],
      Nameless>>
EAPAttributes(c)  == <<User(c), [type |-> "eap", message |-> "identity"]>>

Attributes(c) == CASE options[c].mode = "pap"    -> PAPAttributes(c)
                   [] options[c].mode = "chap"   -> CHAPAttributes(c)
                   [] options[c].mode = "mschap" -> MSCHAPAttributes(c)
                   [] options[c].mode = "ttls"   -> EAPAttributes(c)

\* The authenticator covers the attributes with a zeroed authenticator added
\* at the end, where the real one is then appended.
Signed(key, attrs, auth) ==
    [len |-> "ok", code |-> AccessRequest, id |-> 0, auth |-> auth, tail |-> "none",
     attrs |-> Append(attrs,
         [type |-> "ma",
          mac  |-> calculateMessageAuthenticator(key, AccessRequest, 0, auth, attrs, "none")])]

\* What can be read of a request whose attributes end at a length octet of 0
\* or 1: nothing behind it, and no authenticator.
Cut(attrs, tail, auth) ==
    [len |-> "ok", code |-> AccessRequest, id |-> 0, auth |-> auth, tail |-> tail,
     attrs |-> attrs]

\* buildAttribute cuts the length of an attribute to an octet.
CliRequest(c) ==
    IF NameTooLong(options[c]) THEN Cut(<< >>, "user", c)
    ELSE IF DataTooLong(options[c])
    THEN Cut(<<User(c)>>, IF options[c].mode = "mschap" THEN "vendor" ELSE "eap", c)
    ELSE Signed(options[c].secret, Attributes(c), c)

SendAccessRequest(c) ==
    /\ client[c] = "new"
    /\ client' = [client EXCEPT ![c] = "waiting"]
    /\ wire' = wire \cup {[from |-> c, packet |-> CliRequest(c)]}
    /\ UNCHANGED <<main, signalled, pc, from, buffer, responses, options, shown, nasSent>>

\* A --ttls run goes on only with an EAP-Message; the others take anything.
Acceptable(c, response) ==
    options[c].mode = "ttls" => HasReadable(response, "eap")

\* conn.Read returns the first response; no authenticator of it is verified.
ReadResponse(c) ==
    /\ client[c] = "waiting"
    /\ \E r \in responses :
           /\ r.to = c
           /\ IF Acceptable(c, r.packet)
              THEN /\ shown' = [shown EXCEPT ![c] = r.packet]
                   /\ client' = [client EXCEPT ![c] = "answered"]
              ELSE /\ client' = [client EXCEPT ![c] = "failed"]
                   /\ UNCHANGED shown
    /\ UNCHANGED <<serverVars, options, nasSent>>

\* Five seconds pass: the run ends with an error.
ReadDeadline(c) ==
    /\ client[c] = "waiting"
    /\ client' = [client EXCEPT ![c] = "failed"]
    /\ UNCHANGED <<serverVars, options, shown, nasSent>>

\* The NAS sends a packet.
NasSend ==
    /\ Cardinality(nasSent) < MaxNas
    /\ \E p \in NasPackets \ nasSent :
           /\ nasSent' = nasSent \cup {p}
           /\ wire' = wire \cup {[from |-> Nas, packet |-> p]}
    /\ UNCHANGED <<main, signalled, pc, from, buffer, responses, options, client, shown>>

ServerStep ==
    /\ \/ Loop
       \/ Signal
       \/ Lose
       \/ \E h \in Handlers : HandlePacket(h)
    /\ UNCHANGED <<options, client, shown, nasSent>>

SystemNext ==
    \/ ServerStep
    \/ \E c \in Clients : SendAccessRequest(c) \/ ReadResponse(c) \/ ReadDeadline(c)
    \/ NasSend

SystemSpec == SystemInit /\ [][SystemNext]_systemVars

FairSystemSpec == SystemSpec /\ ServerFairness

-----------------------------------------------------------------------------
(* Properties. *)

\* Every request is one that a client sent, and responses have a code the
\* program knows: none is an uninitialised or a request code.
TypeOK ==
    /\ main \in {"reading", "stopped", "crashed"}
    /\ signalled \in BOOLEAN
    /\ \A d \in wire : \/ d.from \in Clients /\ d.packet = CliRequest(d.from)
                       \/ d.from = Nas /\ d.packet \in nasSent
    /\ pc \in [Handlers -> {"idle", "check", "eap", "answer"}]
    /\ from \in [Handlers -> Clients \cup {Nas, NoAddr}]
    /\ \A r \in responses :
           /\ r.to \in Clients \cup {Nas}
           /\ r.packet.code \in {AccessAccept, AccessReject, AccessChallenge}
    /\ client \in [Clients -> {"new", "waiting", "answered", "failed"}]
    /\ options \in [Clients -> Options]
    /\ nasSent \subseteq NasPackets

\* The answer a run of the CLI gets: a reject when the secrets differ; else
\* a challenge in EAP mode, and in the others the verdict on its user name
\* (README.md, Auth Behavior).  But if the name is too long for its attribute, the
\* server sees neither it nor what follows, and accepts the run as "(unknown)".
Expected(o) ==
    IF NameTooLong(o) THEN AccessAccept
    ELSE IF o.secret # Secret THEN AccessReject
    ELSE IF o.mode = "ttls" THEN AccessChallenge
    ELSE IF o.user \in Denied THEN AccessReject ELSE AccessAccept

\* What a run of the CLI is sent, and shown, is the verdict on its own command
\* line, whatever the method and the packets of other clients the server handles
\* at the same time: client and server agree on how requests are laid out, signed,
\* scanned and judged.  A run whose user name leaves no room for what goes before
\* it in the attribute of its mode (249 or 250 octets with EAP, 197 or 198 with
\* MS-CHAP) is sent nothing; one with a name of 254 or 255 octets is accepted.
VerdictIsRight ==
    /\ \A r \in responses :
           r.to \in Clients =>
              /\ ~ DataTooLong(options[r.to])
              /\ r.packet.code = Expected(options[r.to])
    /\ \A c \in Clients :
           client[c] = "answered" => shown[c].code = Expected(options[c])

\* The request a response answers: same peer, same identifier.
Sent(r) == IF r.to = Nas
           THEN {p \in nasSent : p.id = r.packet.id}
           ELSE {CliRequest(r.to)}

\* A response verifies against the request it answers, in that each of the
\* response builders signs in the order and over the bytes a client expects
\* (the regression of debug0002.md, Bug 1); but the answer to a request that
\* declares fewer octets than a header has is signed over zeros, and does not
\* verify unless the request authenticator happens to be zeros.
ResponseVerifies ==
    \A r \in responses : \A p \in Sent(r) :
        Verifies(p, r.packet) <=> p.len # "short" \/ p.auth = Zeros

\* Does some attribute hold the HMAC of this very packet?
Authentic(p) ==
    \E i \in DOMAIN p.attrs :
        /\ p.attrs[i].type = "ma" /\ "mac" \in DOMAIN p.attrs[i]
        /\ p.attrs[i].mac = calculateMessageAuthenticator(
               Secret, p.code, p.id, p.auth, p.attrs, p.tail)

CarriesMA(p) == p.tail = "ma" \/ \E i \in DOMAIN p.attrs : p.attrs[i].type = "ma"

\* A request that carries a Message-Authenticator of any shape, and none
\* that verifies, gets an Access-Reject or nothing: it is neither judged
\* nor passed on to EAP.
ForgedOnlyRejected ==
    \A r \in responses : \A p \in Sent(r) :
        CarriesMA(p) /\ ~Authentic(p) => r.packet.code = AccessReject

\* No request with a readable "no_" name and without EAP is accepted, what-
\* ever other attributes it carries, malformed ones included (the
\* regressions of debug0001.md, Bugs 1 and 2).
DeniedNeverAccepted ==
    \A r \in responses : \A p \in Sent(r) :
        extractUsername(p) \in Denied /\ ~Has(p, "eap")
            => r.packet.code # AccessAccept

\* If traffic ends, a waiting signal stops the listener, unless a panic has: the
\* loop then times out, and a time-out is where it looks at the signal channel.
Shutdown == <>[](wire = {}) => (signalled ~> main # "reading")
=============================================================================
