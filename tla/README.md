# FakeRADIUS: verification project

TLA+ models, TLC runs and TLAPS proofs for the Go program in `src/`: a mock
RADIUS and TACACS+ server (`cmd/server`, `pkg/tacacs`) and its command-line
client (`cmd/cli`). Modules are named for what they model; a definition that
translates code has the name of the function, field or step it stands for, and
`PROJECT.json` gives the lines (`map`), the hazards each property is for
(`hazards`), and the code a property tells from its broken variants (`mutants`;
the variants are the definitions commented "Mutant:").

## 1. Inventory

| Component | Code | State | Operations | Interacts with |
|---|---|---|---|---|
| EAP-TTLS sessions | `main.go` `handleEAP`, `handleTLSHandshake` | `sessions` map of `EAPSession` (State, Username, TLSBufIn, TLSBufOut, TLSConn, Authenticated), one per client ip:port, never removed | session lookup, Identity, TTLS data, fragment, success | a goroutine per packet; engine goroutine through the two buffers |
| TLS bridge | `main.go` `MemConn`, goroutine in `handleTLSHandshake` | the session's buffers | Read (polls), Write, return of `Handshake()` | crypto/tls above, handlers below |
| RADIUS packets | `handler.go` | none | scanners, Message-Authenticator, verdicts for PAP, CHAP, MS-CHAP, responses | `handlePacket`, the CLI |
| RADIUS listener | `main.go` `main`, `handlePacket` | socket, signal channel, a buffer per datagram | read with deadline, start a handler, stop | clients, EAP |
| TACACS+ server | `pkg/tacacs/server.go` | `listener`, `closed`, connections | ListenAndServe, Close, handleConnection | `main`, clients |
| TACACS+ packets | `header.go`, `authen.go`, `author.go` | none | decode, encode, obfuscate, decide | server, CLI |
| RADIUS client | `cmd/cli/radius-cli.go` | a socket per run | one request per mode, one response, 5 s | the listener |
| TACACS+ client | `cmd/cli/tacacs_client.go` | a connection per run | one request, one reply | the TACACS+ server |
| Logger, flags, display, scripts | `main.go`, `cmd/cli/main.go`, `dist/`, `scripts/` | - | output only | - |

What is hard here, and what correctness means:

- **EAP sessions.** Every packet has a goroutine; all goroutines of a client
  share a session, and only the map lookup is locked. Nothing orders two
  packets of one client, the engine and the handlers. Correct means: an
  Access-Accept only after a complete handshake; no bytes from one session in
  another; a client in lock-step gets the engine's stream whole; every handler
  ends; a flight the engine answers is answered.
- **RADIUS packets.** Scanners come in two families that disagree about a
  malformed last attribute, and client and server each have their own copy of
  the authenticator code. Correct means: a request that cannot be authenticated
  is only rejected, a `no_` name is never accepted, answers verify, and client
  and server agree.
- **Listener.** Each datagram needs its own buffer, which its goroutine reads
  again after waiting for the TLS engine; packets are validated before they
  may touch a session; the signal is seen only after a second of silence.
- **TACACS+ server.** Close races ListenAndServe; requests may be pipelined,
  mis-keyed or cut short. Correct means: replies pair with requests in order
  and carry the right verdict; connections and the listener end; a client that
  waits without a deadline is not left waiting.

Nothing is persisted, so a restart simply begins at `Init`; there is no recovery to
model. What can end the process is modelled where it happens: nothing recovers
from a panic, so an index out of range in one `handlePacket` goroutine ends every
other, the EAP sessions and the TACACS+ server with it (`Panic`).

## 2. Modules

| Module | Models |
|---|---|
| `EapConversation` | abstract specification: runs of the handshake start once, advance flight by flight, complete, and only then admit an address |
| `EapServer` | `handleEAP`, `handleTLSHandshake`, `MemConn`, the engine goroutine, in an environment that sends anything; implements `EapConversation` by a refinement mapping |
| `EapSystem` | `EapServer` with lock-step EAP-TTLS supplicants and a retransmitting NAS (external) |
| `RadiusPacket` | `handler.go` as operators on symbolic packets |
| `RadiusServer` | the read loop, shutdown and `handlePacket`; also the abstract specification of the whole RADIUS server |
| `RadiusSystem` | `RadiusServer` with runs of `radius-cli` (from `cmd/cli`) and a NAS (external) |
| `RadiusEap` | `RadiusServer` composed with `EapServer`: `handleEAP` is no longer a choice of answers but the sessions and goroutines themselves; implements both |
| `ByteStrings` | octets, slices, MD5 and XOR |
| `RadiusBytes` | the attribute loops and encoders of `handler.go`, `main.go` and `radius-cli.go`, octet by octet |
| `TacacsBytes` | `header.go`, `authen.go`, `author.go` and the packets of `tacacs_client.go`, octet by octet |
| `WireFormats` | all short strings of octets, given to these codecs |
| `TacacsServer` | `ListenAndServe`, `Close`, `handleConnection`, and TCP clients (external) |
| `TacacsSystem` | `TacacsServer` with runs of the command-line client; implements `TacacsServer` |
| `EapServerProofs`, `EapSystemProofs`, `RadiusProofs`, `RadiusEapProofs`, `TacacsProofs`, `WireProofs`, `AttributeProofs`, `InductionLemmas` | theorems (section 5) |
| `MC*` | values for TLC |

### EapServer

A handler goes through the labels of `pc` in the order of the code, one step per
access to the session:

| Action | Code (`cmd/server/main.go`) |
|---|---|
| `Receive` | goroutine start and session lookup under `sessionMu`, 445-455 |
| `Identity`, `Ignore` | the switch, 461-501 |
| `Pump` | `TLSBufIn.Write`, 662-665 |
| `TestConn`, `StartEngine` | the test of `TLSConn` and its body, 668-685; two steps, so that two handlers may pass the test |
| `Available`, `Expire` | the polling loop, 690-699 |
| `TakeBytes` | `Bytes()`, 702-706: `output` is a view, not a copy |
| `TestFirst`, `MarkSending`, `SendChunk` | a fragment with more to follow, 706-729 |
| `MarkSent`, `ResetOut`, `Finish` | the last one, or EAP-Success, 732-745 |
| `Send` | the RADIUS response, 501-573 |
| `EnginePoll`, `EngineRead`, `EngineRun`, `EngineAlert`, `EngineFinish` | `MemConn` and the engine goroutine, 639-652 and 673-684 |

Abstractions. TLS bytes are cells of `chunkSize`: `<<k, i>>` is cell i of the
answer to client flight k, and `Answer[k]` how many there are. A client flight
travels in one packet. `ID`, `Type`, `LastSeen` and `HandshakeDone` are never
read by the code and are left out. Inputs are EAP packets long enough for
`eapData[4]`. `output` aliases the array of `TLSBufOut`: `Write` may overwrite a
view that has been taken out of the buffer, in any of the ways the array's
growth allows. `SlowEngine = FALSE` says that two seconds always outlast the TLS
engine; where it is TRUE the wait may end at any time. The re-check of
`TLSBufOut.Len()` after the loop is merged with the loop's last round.

### RadiusPacket, RadiusServer, RadiusSystem

A packet is its attributes up to the first malformed one, and the type of that
one (`tail`): that is what tells the has* scanners from the extract* ones. Hashes
are records of key and covered data, so two are equal exactly when the code
hashes the same bytes under the same secret. Reply texts and password hiding are
left out. A malformed attribute with `tail = "vendor"` is a vendor attribute whose
length is under two, at which `hasMSCHAPAttributes` slices out of range
(`Panics`); `Panic` then sets `main` to "crashed". `buffer` and
`from` are the goroutine's arguments; after `main` returns, or a goroutine
panics, handlers may or may not still run. The session is left out of
`HandleEAP`, which may therefore answer a TTLS packet in any way `EapServer`
might.

`buildAttribute` cuts the length of an attribute to an octet. A user name has a
length (`NameLen`), and a run whose name fills an attribute by more than it holds
sends what the server can read of that (`Cut`): up to two octets too many the
length octet is 0 or 1, every scanner stops there, and what follows, the
authenticator too, is not seen. Longer names are left out (`Options`): the
scanners would go on inside the value, and read attributes the name itself
spells. So an MS-CHAP run with a name of 199 octets, whose authenticator is then
hidden, and with it a wrong secret, is not in this model. `MSCHAPCarried`,
`EAPCarried` and `NameCarried` say, octet by octet, what is read of a
name of any length. A `--pap` run has the same with a password of
more than 240 octets; passwords are not in this model either.

### EapSystem

Supplicants go from Identity to success in lock-step and give up when the bytes
they collect are not the engine's. `AddrOf` says which source address the
requests of a supplicant come from: its own, or the one of a NAS socket it shares
with others. A NAS may send a pending request again, and the network reorders.

### RadiusEap

`pc` of `RadiusServer` is called `stage` here, and a goroutine at stage "eap" is
the `EapServer` handler of the same name: `Enter` is the session lookup,
`HandlerGoesOn` a step in the session, and the step with which the handler ends
also ends the goroutine, with `EAPResponse` on the wire or without an answer.
A packet that panics (`R!Panic`) ends nothing here but the process.
`R!Packet(h)`, read again there, is the buffer the goroutine was given. `sent`
remembers every datagram. A lost datagram is one that is never read.

### RadiusBytes, TacacsBytes, WireFormats

Loops over attributes are recursive functions of the offset. `Scan` and
`LooseScan` are the two shapes of loop head, which yield the offsets the loop's
body runs at, and each named function takes those `Among` the offsets that pass its own
tests: `Typed`, `Sound` (a length of two or more), `Inside` (it does not pass the
end), in the code's order where the order matters. A slice out of range gives `OutOfRange`, an error
`NoOctets`. The number of octets is a constant (20 in the run, 256 in the code),
so that a value too long for its length octet is a string of 18 and not of 254
octets; the sizes of MD5 sums and of the parts of MS-CHAP shrink with it. Under
XOR an octet is the set of terms combined, so that it is plain text exactly when
the pads cancel. `Abstract` reads a string as a packet of `RadiusPacket`, which
ties the two levels together: `ScannersAgree` says that the operators there are
what the nine loops compute, and that `hasMSCHAPAttributes` panics where they
say. A uint16 is counted modulo `Word` (20 * 20 in the run): `EncodeReply` and
`ReadReply` add lengths in it, as the code does.

### TacacsServer, TacacsSystem

`listening` and `closing` are the program counters of `ListenAndServe` and
`Close`. Writing and reading `listener` are steps of their own since no lock is
held (`AssignListener`, `TestListener`); each connection reads, decides and
writes by itself. A body under the wrong secret may decode to anything, and so may
one of another kind than its packet's type is decoded as: a CONTINUE is read as a
START, and refused or answered as what it happens to look like (`Decoded`,
`Legible`). A run of the client dials, writes one START and reads one reply; it is
not interrupted. `main` refuses an empty name, so runs have none; other clients
may. `Close` is modelled as the package offers it, at any moment. The one call of it
in the program is deferred by `main` (`main.go:176`), whose return then ends the
process and cuts the connections that had been taken: that end is not modelled, and
`VerdictShown` and `CliEnds` are about a process that goes on.

## 3. Runs

Runs that pass:

| Run | Question | Bounds, and why they are enough |
|---|---|---|
| `EapServerSafety` | `TypeOK`, `AcceptOnlyAfterHandshake`, `SessionIsolation`, `ImplementsConversation` | 2 addresses, 2 handlers at a time, 3 packets, slow engine: two handlers suffice for each race of test and use, and three packets for a handshake up to its success |
| `EapSystemLockstep` | `SystemTypeOK`, `StreamIntact`, `AnnouncedLength`, `FlightAnswered` | 2 clients, three flights answered with 3, 2 and 1 packets (first, middle and last fragment; a second long flight), identifiers that wrap at 255, no loss |
| `EapSystemRetransmit` | `AcceptedPeerTookPart`, `EveryHandlerEnds` | 1 client and 2 handlers, a request sent again and overtaking, slow engine: handlers compete for output, and some find none |
| `RadiusServer` | `TypeOK`, `VerdictIsRight`, `ResponseVerifies`, `ForgedOnlyRejected`, `DeniedNeverAccepted`, `Shutdown` | a run of the CLI in any of the 4 modes, with a user of 3 letters (one fewer than `parseMSCHAPData` wants), a denied one, one of 197 (an octet too many for MS-CHAP: the server panics) or a denied one of 254 (too many for any attribute) and the right or a wrong secret, beside a NAS with one of 20 layouts (every branch of `handlePacket`, malformed CHAP, EAP, vendor and authenticator attributes, declared lengths under 20); 2 handlers, any number of copies of what the NAS sends |
| `RadiusEap` | `OnlyVerifiedFeedTls`, `AdmittedByVerified`, `ImplementsRadiusServer`, `GoroutinesEnd` | 1 address, 2 goroutines, 3 of 9 datagrams (TTLS data, forged and genuine, before and after the handshake; Identity, other EAP, none, unreadable, one that panics, another code): two goroutines in one session, one of them waiting |
| `TacacsSystem` | `CliInv`, `VerdictShown`, `PairedReplies`, `OneReplyUnlessSingle`, `ImplementsServer`, `CliEnds`, `ConnectionEnds`, `CloseStopsListener` | a run of the CLI (right or wrong secret, allowed or denied user) beside one connection (connections share nothing but the listener) with up to 2 pipelined requests out of 6 (a START without a name and the CONTINUE that answers its prompt, an authorization with sequence number 255, and what the CLI sends), Close at any moment |
| `WireFormats` | `ScannersAgree`, `InBounds`, `MACoverage`, `RejectShown`, `NameCarried`, `EAPCarried`, `MSCHAPCarried`, `PasswordHidden`, `PacketTiled`, `ArgsMirrored`, `PadUndone`, `TypedNameDecides` | all attribute strings of up to 8 octets over every type and small length (room for three attributes and a malformed rest); requests of up to 7 octets with what a reject repeats; texts of up to 27 octets, past the largest length octet and far enough that an MS-CHAP attribute whose length wrapped parses again; messages of up to 402 octets, past the 400 a uint16 stands for; bodies with all small lengths and up to two arguments |

Deadlock is not checked in these runs: bounded traffic ends, the server stops on
a signal, a run of a CLI exits, and strings end.

With 256 octets the boundaries that `NameCarried`, `EAPCarried`,
`MSCHAPCarried` and `TypedNameDecides` state are: a User-Name of up to 253 octets; a name of up to 248
in the client's EAP-Identity, which it puts in one attribute; and a name of 4 to
196 in its MS-CHAP v2 attribute. Under 4 the response does not parse and is
accepted unread; of a longer name than these the server reads another one, or
none, and never the name itself. At 197 and 198 octets in an MS-CHAP v2
attribute it reads nothing at all, for `hasMSCHAPAttributes` panics before. Names
and passwords of up to 255 octets arrive over TACACS+. A message of the TACACS+
server would be shown whole up to 65529 octets; from 65530 to 65535 its encoder
panics, and a longer one is cut. The messages it has are short.

Runs that find a document or comment contradicted by the code (`findings` quotes
each line):

| Run | What it shows |
|---|---|
| `TwoEngines` | two copies of the first packet start two TLS servers on one pair of buffers |
| `SharedNas` | two supplicants behind one NAS socket share a session, and one is accepted on the other's handshake |
| `DeniedUser` | EAP-TTLS accepts `no_` users |
| `SuccessTLS13` | no EAP-Success when the engine has nothing to write after the last client flight |
| `TacacsClose` | Close between Listen and the assignment of `listener` closes nothing |

Three more disagreements are part of properties that hold, since these say
exactly what the code does:

- `InBounds`: `hasMSCHAPAttributes` slices out of range at every vendor attribute of
  length 0 or 1 that it comes to, and with that the process ends, although
  `debug0001.md:219` has "Attribute parsing bounds" as "Fixed — consistent checks"
  and line 205 names this function; `radius-cli --mschap` sends such an attribute for a
  name of 197 octets (`MSCHAPCarried`).
- `VerdictIsRight`: a run with a name of 254 octets is accepted, whoever it names and
  whatever its secret, although `README.md:132` has `no_*` rejected: the length octet
  of its User-Name is 0, and the server reads neither name nor authenticator.
- `ResponseVerifies`: the response to a request that declares fewer than 20 octets is
  signed over zeros and does not verify, although `handler.go:101` calls the
  responses of `buildResponsePacket` "fully RFC-compliant".

Others can be read off the modules without a property: a handler may send
an empty fragment although the loop before `main.go:702` waits so as not to, when
another handler's Reset comes between; responses of `buildResponsePacket` carry no
Message-Authenticator, which `debug0002.md:25` says they start with; the CONTINUE
that answers the prompt of `authen.go:100` is decoded as a START (`Decoded`);
State 3 means "a flight was sent", not "Authenticated" as `main.go:33` has it
(`MarkSent`); Access-Accept is sent before anything is said in the tunnel that
`main.go:492` speaks of (`Finish`); and traffic that never pauses for a second
keeps a signal from being seen (`ReadTimeout`; `Shutdown` therefore assumes that
traffic ends).

## 4. Fairness

- `EapServer`: weak fairness on each handler and each engine goroutine. The Go
  scheduler runs every runnable goroutine, and no step waits on a lock that
  another may hold for ever. Clients owe nothing.
- `EapSystem`: in addition, no packet is lost for good and a client that has been
  answered goes on; only `FlightAnswered` and `SuccessIsSent` need it.
- `RadiusServer`: the loop takes a turn whenever it can, by a datagram or by a
  time-out (one fairness condition on both: which one it gets is up to the
  traffic); handlers run while the process lives.
- `RadiusEap`: each goroutine while the process lives. Nothing is needed of the
  loop, the engines or the senders for `GoroutinesEnd`.
- `TacacsServer`: listener, Close (once called) and connections run. Accept fails
  when the socket is closed; whether it fails otherwise is open. `TacacsSystem`
  adds that a connected run of the client writes, and reads what there is.

## 5. Proofs

All for every value of the constants (any number of clients, goroutines, packets,
connections, any `Answer`, texts and packets of any length, any number of
octets), from the named assumptions of the modules; what a theorem needs besides
is a hypothesis of it and explained below.

| Module | Theorem | States |
|---|---|---|
| `EapServerProofs` | `Invariance`, `TypeCorrectness` | `Spec => [](TypeOK /\ HandshakeInv)` |
| | `AcceptTheorem` | `Spec => []AcceptOnlyAfterHandshake` |
| | `Refinement` | `Spec => ImplementsConversation` |
| | `IsolationTheorem` | `Spec => []SessionIsolation` |
| `EapSystemProofs` | `SystemTypeTheorem` | `SystemSpec => [](TypeOK /\ HandshakeInv /\ SystemTypeOK)` |
| | `SystemRefinement` | `SystemSpec => Spec` |
| | `TookPartTheorem` | `SystemSpec => []AcceptedPeerTookPart` |
| | `StreamTheorem`, `AnnouncedTheorem` | `SystemSpec => []StreamIntact`, `[]AnnouncedLength` |
| `RadiusProofs` | `SystemInvariance`, `TypeTheorem` | `SystemSpec => []SystemInv`, `[]TypeOK` |
| | `VerdictTheorem` | `SystemSpec => []VerdictIsRight` |
| | `ResponseTheorem` | `SystemSpec => []ResponseVerifies` |
| | `ForgedTheorem` | `SystemSpec => []ForgedOnlyRejected` |
| | `DeniedTheorem` | `SystemSpec => []DeniedNeverAccepted` |
| `RadiusEapProofs` | `SessionRefinement`, `WholeServerAccept` | `FullSpec => Spec` of `EapServer`, and so `[]AcceptOnlyAfterHandshake` |
| | `FedTheorem`, `AdmittedTheorem` | `FullSpec => []OnlyVerifiedFeedTls`, `[]AdmittedByVerified` |
| | `NetworkRefinement` | `FullSpec => ImplementsRadiusServer` |
| `TacacsProofs` | `TypeCorrectness`, `Invariance` | `Spec => []TypeOK`, `[]PairingInv` |
| | `Pairing`, `SingleConnection` | `Spec => []PairedReplies`, `[]OneReplyUnlessSingle` |
| | `CliRefinement` | `CliSpec => ImplementsServer` |
| | `CliInvariance`, `VerdictTheorem` | `CliSpec => []CliInv`, `[]VerdictShown` |
| `WireProofs` | `PadTheorem`, `PasswordTheorem` | `WireSpec => []PadUndone`, `[]PasswordHidden` |
| | `TiledTheorem`, `ArgsTheorem` | `WireSpec => []PacketTiled`, `[]ArgsMirrored` |
| | `TypedNameTheorem` | `WireSpec => []TypedNameDecides` |
| `AttributeProofs` | `ScannersTheorem`, `BoundsTheorem` | `WireSpec => []ScannersAgree`, `[]InBounds` |
| | `CoverageTheorem`, `RejectTheorem` | `WireSpec => []MACoverage`, `[]RejectShown` |
| | `NameTheorem`, `MSCHAPTheorem` | `WireSpec => []NameCarried`, `[]MSCHAPCarried` |
| | `EAPTheorem` | `WireSpec => []EAPCarried` |

**InductionLemmas.** The induction theorems of the library take an operator for
what is proved, which the provers cannot instantiate. Here the induction
hypothesis is a set of numbers (`NatSetInduction`; of sequences, in
`WireProofs`), and the step of a recursion is a function; both are
first-order. It rests on `WFMin` of the library. With it each recursive function
of the models is shown to exist and to satisfy its equation, for data of any
length.

**EapServer.** `AcceptOnlyAfterHandshake` is not inductive: a success is decided
in `Finish` from a flag that another goroutine set earlier, and sent later.
`HandshakeInv` closes the gap. `SuccessInv` carries the chain from a sent success
back to the success being sent, to the flag, to an engine that has finished.
`EngineInv` says that an engine's counter is the number of flights it has
consumed, and that one that returned consumed them all. `StartInv` says that the
slot in which a handler is about to start an engine is not in use: a started
engine leaves `TLSConn` set, and a handler that saw it unset started none before.
The refinement follows action by action: `StartEngine` is `Start` (by `StartInv`),
`EngineRun` is `Advance`, `EngineFinish` is `Complete`, `Send` of a success is
`Admit`, and all else stutters.

**Sessions.** `IsolationInv` says of every place where cells may be, `tlsOut`, a
handler's view and its answer, that they are among those written by the engines
of its address. What has been written only grows, since an engine's counter only
grows (its slot is reused by no one, `StartInv`); `Write` puts nothing in a view
that it does not put in the buffer of the same address.

**EapSystem.** Supplicants send nothing the environment of `EapServer` could not
(`SystemRefinement`), so what is proved of the server holds beside them. That one
that is sent EAP-Success has sent its whole handshake needs three hypotheses, and
the code justifies none of them: they are the conditions under which it is
right. `OwnAddresses`: no two supplicants send from one socket; the run
`SharedNas` shows the property fail without it. `AllIds`: identifiers are the
numbers 0 to 255, as bytes are. `ShortRun`: fewer packets than identifiers, since
an answer is paired with a request by its identifier alone, and a very late
answer would pair with a later request. `PartInv` then ties every packet on its
way to a turn of the conversation (`Turn`), and every flight that has reached a
buffer or an engine to one its supplicant has sent (`FedInv`).

`StreamIntact` and `AnnouncedLength` are about lock-step and have the fourth
hypothesis `NoCopies`, that the NAS sends no request twice; with one copy TLC finds
both violated (put them in `EapSystemRetransmit.cfg`), since two handlers then
share one output buffer. `LockInv` has two parts. `LinkInv`: at
most one request of a client is under way, in one place, so one goroutine at a
time uses its session and one engine runs (`OneEngine`). `Before` and `After`:
the engine has yet to answer the last flight, and the buffers are empty; or it
has, and what the client has, what is on the way to it and what `TLSBufOut`
still holds make up the answer. The engine may be as slow as it likes. Only the
first fragment of the first flight, and only when there are several, announces a
length, and it is that flight's.

**RADIUS.** `SystemInv` says that every response is the answer to the packet of
the peer it goes to: `Known` (the peer has sent it, with this identifier) and
`Answer` (a reject of a forged packet, the verdict on one without EAP, or an
EAP response). The properties then are statements about `Answer`: a forged
packet has the first case only, a denied name gets `AccessReject` from each of the
three `Serve*` functions, for the four layouts of the CLI the scanners find
what `Expected` says if the name fits (`Fits`), the others are accepted or not
answered (`CutAnswer`), and a response is hashed in the
order in which it is verified, whatever it mirrors, but over an authenticator of
zeros if the request declared less than a header: `ResponseVerifies` says that it
verifies exactly in the other cases, or when the request's was zeros as well. It
rests on `NasPacketsAssumption`: packets of the NAS differ in their identifiers,
their attributes are sequences, and those that declare less than a header have
none; and on `NameLenAssumption`: lengths of names are numbers.

**RadiusEap.** `FullInv` adds to the invariants above what the two halves owe each
other: a handler in a session has the packet of its goroutine, unforged and with a
readable EAP attribute (`GoroutineInv`), it is past the switch only with TTLS data
(`KindInv`), what engines have read or will read came in verified packets
(`FedInv`), and every EAP accept answers one (`AcceptAnswers`). With it each step
of the whole is a step, or a stutter, of either half; so `AcceptTheorem` holds of
the whole by `SessionRefinement`.

**TACACS+.** `PairingInv` ties what was sent to what is answered, under way and
unread. `CliInv` adds where a run stands and what its connection then holds
(`RunInv`), and that a run that failed had no connection and will get none, since
the listener does not come back (`ListenerInv`, `FailedInv`).

**Codecs.** The theorems of `WireProofs` and `AttributeProofs` are about all texts
and packets, where the run has all short ones. The state machine only grows a
string; what is proved is that the property holds of every string of octets
(`LettersAreOctets`: the letters offered are octets). MD5 and XOR are symbolic, so
"hidden" means that a sum of terms is left that is not a plain octet.

- `PadTheorem`: each block of the pad is the sum of the key and the block before
  it, so all of its octets are different terms (`Chained`), and an octet XORed
  with one of them is plain only when the same one is XORed again. Secret, session
  and sequence number are in the key: with another of any of them nothing cancels.
- `PasswordTheorem`: the receiver forms each sum from the secret and the hidden
  chunk before; with another secret no octet of the first chunk cancels.
- `ScannersTheorem`, `BoundsTheorem`: both kinds of loop visit the same offsets
  as long as they matter (`SameOffsets`): those of the whole attributes, one
  behind the other (`Parsed`, `WholeShape`), and at most one more where these
  end. Lemmas about `Among` say what a selection from them finds. The exception is
  part of the theorems: at a vendor attribute of length under two the slice of
  `hasMSCHAPAttributes` is out of range (`VendorSlices`), and the panic is where
  `RadiusPacket` has it (`PanicsAgree`).
- The others are about packets put together from attributes: what is appended to
  whole attributes is one more (`Attach`), so `CoverageTheorem` can follow both
  copies of the authenticator code, `RejectTheorem` the list of what a reject
  repeats, and `NameTheorem` and `MSCHAPTheorem` one attribute with a zeroed
  authenticator behind it. Past the bounds the length octet has wrapped, the
  attribute found is shorter than the text, and so never the text. One or two
  octets past the bound of MS-CHAP it is 0 or 1, and the server panics
  (`MSCHAPWrapped`).
- `EAPTheorem`: each attribute adds its value to the EAP packet that is read
  (`EapSteps`, `EapAttached`), so a split packet is joined again, by induction from
  the last chunk backwards (`SplitJoined`). A name that is too long is harder: behind
  the attribute whose length wrapped the name's own octets may spell any number of
  EAP attributes. But each has a header, so an octet that is read lies further
  behind in the packet than the octet it should be (`EapShift`). Were the name read,
  every octet behind the first attribute would equal a later one, and in the end
  one of the authenticator (`Settled`); then none of them is the type of an EAP
  attribute, and only the first one is read, which is too short (`LongNameLost`).
- `TiledTheorem`, `ArgsTheorem`, `TypedNameTheorem`: sums of lengths and numbers of
  several octets are recursive functions. What is read as a number is written as
  the same octets, and what fits is read back (`ReadThenWritten`,
  `WrittenThenRead`). Strings cut at the sums of their lengths join again to what
  they were cut from (`FieldsJoin`), and strings put in a row are cut into
  themselves if their lengths were not (`FieldsBack`). So a request is accounted
  for octet by octet whatever it holds, and what the client writes is what the
  server reads exactly up to the longest length. A reply whose sums of lengths stay
  under `Word` is read as it was written (`Unwrapped`); else it is out of range, or
  its message was cut (`ReplyCut`), and never comes back whole.
- Assumptions: the types are nine different octets (`TypesAssumption`), a vendor
  id is octets (`VendorAssumption`), and an authenticator fits its attribute
  (`MacAssumption`). `RejectTheorem` needs 8 and 9 to be octets, of which its
  message consists; `MSCHAPTheorem` needs the parts of a response to fit one attribute
  (`PartsFit`: 16 + 8 + 24 of 256 in the code); `EAPTheorem` that the type of an EAP
  attribute (79) is none of 0, 1 and the length of an authenticator attribute, 18
  (`EapTypeApart`). `ArgsTheorem` and `TypedNameTheorem`
  need the length of the one's message (3) and the session of the other (9) to be
  octets; the latter also the version to be a number and its short name not to be
  one that is refused.

`HandshakeInv`, `PairingInv`, `PartInv` and `LockInv` are proved inductive and are
in no run; `CliInv` is in both.

Every safety property of the passing runs, invariant, action property or
refinement, is so proved. Checked by TLC only: the seven liveness properties
(`FlightAnswered`, `EveryHandlerEnds`, `Shutdown`, `GoroutinesEnd`, `CliEnds`,
`ConnectionEnds`, `CloseStopsListener`), since liveness under fairness and ENABLED
are out of the prover's reach; and the counterexamples of section 3, which are facts
about single behaviours.

## 6. Not modelled

crypto/tls and the tunnelled AVPs, certificates, logging, debug output (`extractMA`
and `showMABreakdown` included), flags, usage text and hex dumps, scripts. An
EAP-Response of four bytes (`main.go:463`) is outside the inputs. So are user names
more than two octets too long in the model of the whole RADIUS exchange (the codecs
have them), and the cut of taken TACACS+ connections when the process exits.
`parseCHAPChallenge`, `parseCHAPResponse` and `validateCHAPResponse` are never
called by the server, nor `eapConn` by the client, and TACACS+ accounting is only a
number. The client ignores what `getTLSConfig` returns: an EAP-TTLS run of it ends
with TTLS-Start.

## 7. How it was built, and what could follow

The EAP server came first, with its abstract specification and its clients; then
RADIUS packets, listener and CLI; the TACACS+ server and its client; the codecs;
and the composition of listener and sessions. Proofs followed in the same order.

What would add most now:

- A composition of `RadiusEap` with the supplicants of `EapSystem`, and larger
  instances of `EapSystem` by simulation.
