----------------------------- MODULE ByteStrings -----------------------------
(***************************************************************************)
(* Strings of octets, as the packet codecs of the program use them.  The   *)
(* program's octets are 0 .. 255; here their number is a constant, so that *)
(* lengths that do not fit an octet can be met by short strings.           *)
(*                                                                         *)
(* Where text is hidden by a stream of MD5 sums, an octet is the set of    *)
(* terms that were combined by XOR: an octet of plain text is one term, an *)
(* octet of a sum another, and XOR is the symmetric difference.            *)
(***************************************************************************)
EXTENDS Integers, SequencesExt

CONSTANTS
    Octets,    \* 256
    MacLen     \* 16, the size of an MD5 sum

ASSUME MacLenAssumption == MacLen \in Nat \ {0}
ASSUME OctetsAssumption == Octets \in Nat \ {0}

\* No string of octets: what a function that returns an error gives, and what
\* a slice expression out of range comes to.
NoOctets   == << -1 >>
OutOfRange == << -2 >>

\* s[i:j] of Go.
Slice(s, i, j) == IF i <= j /\ j <= Len(s) THEN SubSeq(s, i + 1, j) ELSE OutOfRange

\* The elements of s that are in S, in their order.
Among(s, S) ==
    LET kept[i \in 0 .. Len(s)] ==
            IF i = 0 THEN << >>
            ELSE IF s[i] \in S THEN Append(kept[i - 1], s[i]) ELSE kept[i - 1]
    IN  kept[Len(s)]

-----------------------------------------------------------------------------
Plain(s)   == [i \in DOMAIN s |-> {<< 0, s[i] >>}]
MD5(input) == [i \in 1 .. MacLen |-> {<< 1, i, input >>}]
Xor(s, t)  == [i \in DOMAIN s |-> (s[i] \ t[i]) \cup (t[i] \ s[i])]

\* Nothing of a sum is left in s, and the octets s then stands for.
Legible(s) == \A i \in DOMAIN s : \E n \in 0 .. Octets - 1 : s[i] = {<< 0, n >>}
Text(s)    == [i \in DOMAIN s |-> CHOOSE n \in 0 .. Octets - 1 : s[i] = {<< 0, n >>}]
=============================================================================
