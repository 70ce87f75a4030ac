----------------------------- MODULE MCRadiusEap -----------------------------
(* One client behind one NAS, a handshake of one flight, and packets of all  *)
(* kinds that share the session: genuine, forged and malformed ones.         *)
EXTENDS RadiusEap, TLC

CONSTANTS a1, h1, h2, bob, nobody, good, other

AnswerOne == <<1>>

\* The request authenticator is as unique as the identifier.
Signed(key, n, attrs) ==
    [from   |-> a1,
     packet |-> [len |-> "ok", code |-> 1, id |-> n, auth |-> n, tail |-> "none",
                 attrs |-> Append(attrs, [type |-> "ma",
                     mac |-> R!calculateMessageAuthenticator(key, 1, n, n, attrs, "none")])]]

EapAttr(r) == << [type |-> "eap", message |-> r.kind, request |-> r] >>

Ttls(k)  == EapAttr([kind |-> "ttls", addr |-> a1, id |-> 255, data |-> <<k>>])
Hello    == EapAttr([kind |-> "identity", addr |-> a1, id |-> 255, user |-> bob])
Other    == EapAttr([kind |-> "other", addr |-> a1, id |-> 255])
Password == << [type |-> "user", name |-> bob] >>

Unreadable == [Signed(good, 7, Password) EXCEPT !.packet.attrs = Password, !.packet.tail = "eap"]

\* A Vendor-Specific attribute of length 0 behind the name.
Vendor == [Signed(good, 9, Password) EXCEPT !.packet.attrs = Password, !.packet.tail = "vendor"]

Accounting == [Signed(good, 8, Password) EXCEPT !.packet.code = 4]

AllDatagrams ==
    {Signed(good, 1, Ttls(1)), Signed(good, 2, Ttls(2)), Signed(other, 3, Ttls(1)),
     Signed(good, 4, Hello), Signed(good, 5, Other), Signed(good, 6, Password), Unreadable, Vendor,
     Accounting}
=============================================================================
