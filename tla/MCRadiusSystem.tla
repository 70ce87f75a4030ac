--------------------------- MODULE MCRadiusSystem ---------------------------
(* Values for TLC. *)
EXTENDS RadiusSystem, TLC

\* The third name is too long for MS-CHAP, the fourth for every method.
Names == "bob" :> 3 @@ "no_bob" :> 6 @@ "bob197" :> 197 @@ "no_bob254" :> 254

Base(n) == [len |-> "ok", code |-> 1, id |-> n, auth |-> "nas", tail |-> "none",
            attrs |-> << >>]

Named(n, u, more) == [Base(n) EXCEPT !.attrs = <<[type |-> "user", name |-> u]>> \o more]

HmacOf(key, n, attrs) ==
    [type |-> "ma",
     mac  |-> calculateMessageAuthenticator(key, 1, n, "nas", attrs, "none")]

\* Signed first, as firewalls do, and with Proxy-State on both sides.
SignedFirst(key, n, attrs) ==
    [Base(n) EXCEPT !.attrs =
        <<HmacOf(key, n, <<ZeroMA>> \o attrs)>> \o attrs]

Denied1 == <<[type |-> "user", name |-> "no_bob"], [type |-> "proxy"]>>
Eap     == <<[type |-> "user", name |-> "bob"], [type |-> "eap", message |-> "ttls"]>>

Layouts ==
    { [Base(1) EXCEPT !.len = "tiny"],
      [Base(2) EXCEPT !.len = "over"],
      [Base(3) EXCEPT !.len = "short"],
      [Base(4) EXCEPT !.code = 4],
      Named(5, "bob", << >>),
      [Named(6, "no_bob", << >>) EXCEPT !.tail = "chapResponse"],
      Named(7, "no_bob", <<[type |-> "chapResponse", len |-> 17]>>),
      Named(8, "bob", <<[type |-> "chapResponse", len |-> 3], [type |-> "proxy"]>>),
      Named(9, "no_bob", <<[type |-> "mschap", version |-> 3, msLen |-> 60,
                            size |-> 53, name |-> "no_bob"]>>),
      Named(10, "bob", <<[type |-> "mschap", version |-> 1, msLen |-> 28,
                          size |-> 33, name |-> "alice"]>>),
      [Named(11, "bob", << >>) EXCEPT !.tail = "ma"],
      Named(12, "bob", <<[type |-> "ma", cut |-> TRUE]>>),
      SignedFirst(Secret, 13, Denied1),
      SignedFirst("other", 14, Denied1),
      SignedFirst(Secret, 15, Eap),
      SignedFirst("other", 16, Eap),
      [Named(17, "bob", << >>) EXCEPT !.tail = "eap"],
      Named(18, "bob", <<[type |-> "eap", message |-> "other"]>>),
      [Base(19) EXCEPT !.len = "short", !.auth = Zeros],
      [Named(20, "no_bob", <<[type |-> "mschap", version |-> 3, msLen |-> 60,
                              size |-> 53, name |-> "no_bob"]>>) EXCEPT !.tail = "vendor"] }
=============================================================================
