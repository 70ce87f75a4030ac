---------------------------- MODULE MCWireFormats ----------------------------
(* The codecs over short strings, with 20 octets for 256. *)
EXTENDS WireFormats

\* The longest strings of each kind.
Lengths == [attributes |-> 8, request |-> 7, text |-> 27, message |-> 402, header |-> 12,
            start |-> 17, author |-> 17]

\* In a packet every octet may be any type or any small length; for what a reject
\* repeats, some lengths and two of the types will do.  Of a text it matters how
\* it begins, and of a message how long it is (20 * 20 octets for 65536).  The
\* lengths in a TACACS+ body are small, and what they measure is numbered, so
\* that no two octets of it are alike.
Continuations(k, s) ==
    LET next == Len(s) + 1
        mark == {next % Octets}
    IN  CASE k = "attributes" -> 0 .. 4
          [] k = "request"    -> {1, 2, 3, 6, 7}
          [] k = "text"       -> IF next <= 3 THEN {0, 1} ELSE {1}
          [] k = "message"    -> {1}
          [] k = "header"     -> {0, 3}
          [] k = "start"      -> IF next <= 4 THEN {1} ELSE IF next <= 8 THEN 0 .. 2 ELSE mark
          [] OTHER            -> IF next <= 4 THEN {1}
                                 ELSE IF next <= 7 THEN 0 .. 1
                                 ELSE IF next = 8 \/ next <= 8 + s[8] THEN 0 .. 2
                                 ELSE mark

VendorId == << 1 >>
Refused  == << 0, 1, 0 >>
==============================================================================
