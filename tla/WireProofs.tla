------------------------------ MODULE WireProofs ------------------------------
(***************************************************************************)
(* Proofs about WireFormats: what hides text under sums, and how strings   *)
(* stand behind their lengths, for strings of any length, sums of any size *)
(* and any number of octets.                                               *)
(*                                                                         *)
(* The obfuscation of TACACS+ bodies: the octets of the pad are all        *)
(* different, however long it is, since each block is the sum of the key   *)
(* and the block before it (Chained); so it hides every octet, and comes   *)
(* off under the same secret, session and sequence number and no other.    *)
(*                                                                         *)
(* User-Password: each chunk is hidden by the sum of the secret and the    *)
(* hidden chunk before it, which whoever holds the secret can form again.  *)
(*                                                                         *)
(* TACACS+ headers and bodies: a number is written and read back octet by  *)
(* octet (WrittenThenRead, ReadThenWritten); strings in a row are told     *)
(* apart by the sums of their lengths and join to what they were cut from  *)
(* (FieldsJoin, FieldsBack).                                               *)
(***************************************************************************)
EXTENDS WireFormats, InductionLemmas

\* A string of octets is a sequence.
Sequence == \E S : octets \in Seq(S)

\* It grows octet by octet.
THEOREM SequenceTheorem == WireSpec => []Sequence
<1>1. WireInit => Sequence
  BY DEF WireInit, Sequence
<1>2. ASSUME Sequence, Grow PROVE Sequence'
  <2>1. PICK S : octets \in Seq(S)
    BY <1>2 DEF Sequence
  <2>2. PICK b : octets' = Append(octets, b)
    BY <1>2 DEF Grow
  <2>3. octets \in Seq(S \cup {b}) /\ b \in S \cup {b}
    BY <2>1
  <2>4. octets' \in Seq(S \cup {b})
    BY <2>2, <2>3, AppendProperties
  <2> QED
    BY <2>4 DEF Sequence
<1>3. ASSUME Sequence, UNCHANGED wireVars PROVE Sequence'
  BY <1>3 DEF Sequence, wireVars
<1> QED
  BY <1>1, <1>2, <1>3, PTL DEF WireSpec

-----------------------------------------------------------------------------
(* Strings and their parts. *)

\* Induction over sequences: a set with the empty one, and with each sequence
\* those that are longer by one element.
LEMMA SeqSetInduction ==
    ASSUME NEW R, NEW T \in SUBSET Seq(R), << >> \in T, \A s \in T, x \in R : Append(s, x) \in T
    PROVE  T = Seq(R)
<1> DEFINE N == {n \in Nat : \A s \in Seq(R) : Len(s) = n => s \in T}
<1>1. 0 \in N
  OBVIOUS
<1>2. ASSUME NEW n \in N PROVE n + 1 \in N
  <2> SUFFICES ASSUME NEW s \in Seq(R), Len(s) = n + 1 PROVE s \in T
    OBVIOUS
  <2> DEFINE f == [i \in 1 .. n |-> s[i]]
  <2>1. \A i \in 1 .. n + 1 : s[i] \in R
    OBVIOUS
  <2>2. f \in [1 .. n -> R]
    BY <2>1
  <2>3. \A i \in 1 .. n : f[i] = s[i]
    OBVIOUS
  <2> HIDE DEF f
  <2>4. f \in Seq(R) /\ Len(f) = n
    BY <2>2
  <2>5. f \in T
    BY <2>4
  <2> DEFINE x == s[n + 1]
             g == Append(f, x)
  <2>6. x \in R
    <3>1. n + 1 \in 1 .. n + 1
      OBVIOUS
    <3> QED
      BY <2>1, <3>1
  <2> HIDE DEF x
  <2>7. g = s
    <3>1. g \in Seq(R) /\ Len(g) = n + 1 /\ g[n + 1] = x /\ \A i \in 1 .. n : g[i] = f[i]
      <4>1. /\ g \in Seq(R) /\ Len(g) = Len(f) + 1 /\ g[Len(f) + 1] = x
            /\ \A i \in 1 .. Len(f) : g[i] = f[i]
        <5>1. f \in Seq(R) /\ x \in R
          BY <2>4, <2>6
        <5> HIDE DEF f
        <5> QED
          BY <5>1, AppendProperties
      <4> HIDE DEF g
      <4> QED
        BY <2>4, <4>1
    <3>2. \A i \in 1 .. n + 1 : g[i] = s[i]
      <4> HIDE DEF g
      <4>1. \A i \in 1 .. n + 1 : i \in 1 .. n \/ i = n + 1
        OBVIOUS
      <4> QED
        BY <2>3, <3>1, <4>1 DEF x
    <3> HIDE DEF g
    <3> QED
      BY <3>1, <3>2, SeqEqual
  <2> QED
    BY <2>5, <2>6, <2>7
<1>3. N \in SUBSET Nat
  OBVIOUS
<1>4. N = Nat
  <2> HIDE DEF N
  <2> QED
    BY <1>1, <1>2, <1>3, NatSetInduction
<1>5. ASSUME NEW s \in Seq(R) PROVE s \in T
  <2>1. Len(s) \in N
    <3> HIDE DEF N
    <3> QED
      BY <1>4
  <2> QED
    BY <2>1
<1> QED
  BY <1>5

\* A part of a string.
LEMMA SubSeqBy ==
    ASSUME NEW u, NEW p \in Nat, NEW q \in Nat
    PROVE  SubSeq(u, p + 1, q) = [k \in 1 .. q - p |-> u[p + k]]
<1>1. SubSeq(u, p + 1, q) = [k \in 1 .. (1 + q) - (p + 1) |-> u[(p + 1) + k - 1]]
  OBVIOUS
<1>2. (1 + q) - (p + 1) = q - p /\ \A k \in 1 .. q - p : (p + 1) + k - 1 = p + k
  OBVIOUS
<1> QED
  BY <1>1, <1>2

\* A slice in range is a string of the same octets.
LEMMA SliceOctets ==
    ASSUME NEW S, NEW s \in Seq(S), NEW i \in Nat, NEW j \in Nat, i <= j, j <= Len(s)
    PROVE  Slice(s, i, j) \in Seq(S) /\ Len(Slice(s, i, j)) = j - i
<1>1. Slice(s, i, j) = SubSeq(s, i + 1, j)
  BY DEF Slice
<1> DEFINE f == [k \in 1 .. j - i |-> s[i + k]]
<1>2. \A k \in 1 .. j - i : i + k \in 1 .. Len(s)
  OBVIOUS
<1>3. \A k \in 1 .. Len(s) : s[k] \in S
  OBVIOUS
<1>4. f \in [1 .. j - i -> S]
  BY <1>2, <1>3
<1>5. SubSeq(s, i + 1, j) = f
  OBVIOUS
<1>6. j - i \in Nat
  OBVIOUS
<1> HIDE DEF f
<1> QED
  BY <1>1, <1>4, <1>5, <1>6

\* The octets of a string that is one with another behind it.
LEMMA Behind ==
    ASSUME NEW S, NEW x \in Seq(S), NEW a \in Seq(S)
    PROVE  /\ x \o a \in Seq(S) /\ Len(x \o a) = Len(x) + Len(a)
           /\ \A k \in 1 .. Len(x) : (x \o a)[k] = x[k]
           /\ \A k \in 1 .. Len(a) : (x \o a)[Len(x) + k] = a[k]
           /\ \A i, j \in Nat : i <= j /\ j <= Len(x) => Slice(x \o a, i, j) = Slice(x, i, j)
           /\ \A i, j \in Nat : i <= j /\ j <= Len(a) =>
                 Slice(x \o a, Len(x) + i, Len(x) + j) = Slice(a, i, j)
<1> DEFINE y == x \o a
           m == Len(x)
           n == Len(a)
<1>0. m \in Nat /\ n \in Nat
  OBVIOUS
<1>1. /\ y \in Seq(S) /\ Len(y) = m + n
      /\ \A k \in 1 .. m + n : y[k] = IF k <= m THEN x[k] ELSE a[k - m]
  BY ConcatProperties
<1> HIDE DEF y, m, n
<1>2. \A k \in 1 .. m : y[k] = x[k]
  BY <1>0, <1>1
<1>3. ASSUME NEW k \in 1 .. n PROVE y[m + k] = a[k]
  <2>1. m + k \in 1 .. m + n /\ ~ (m + k <= m) /\ (m + k) - m = k
    BY <1>0
  <2> QED
    BY <1>1, <2>1
<1>4. ASSUME NEW i \in Nat, NEW j \in Nat, i <= j, j <= m PROVE Slice(y, i, j) = Slice(x, i, j)
  <2>1. /\ Slice(y, i, j) = SubSeq(y, i + 1, j) /\ Slice(x, i, j) = SubSeq(x, i + 1, j)
    BY <1>0, <1>1, <1>4 DEF Slice, m
  <2>2. \A z : SubSeq(z, i + 1, j) = [k \in 1 .. j - i |-> z[i + k]]
    BY SubSeqBy
  <2>3. \A k \in 1 .. j - i : y[i + k] = x[i + k]
    <3>1. \A k \in 1 .. j - i : i + k \in 1 .. m
      BY <1>0, <1>4
    <3> QED
      BY <1>2, <3>1
  <2> QED
    BY <2>1, <2>2, <2>3
<1>5. ASSUME NEW i \in Nat, NEW j \in Nat, i <= j, j <= n
      PROVE  Slice(y, m + i, m + j) = Slice(a, i, j)
  <2>1. /\ Slice(y, m + i, m + j) = SubSeq(y, (m + i) + 1, m + j)
        /\ Slice(a, i, j) = SubSeq(a, i + 1, j)
    BY <1>0, <1>1, <1>5 DEF Slice, n
  <2>2. \A z : \A p, q \in Nat : SubSeq(z, p + 1, q) = [k \in 1 .. q - p |-> z[p + k]]
    BY SubSeqBy
  <2>3. m + i \in Nat /\ m + j \in Nat /\ (m + j) - (m + i) = j - i
    BY <1>0
  <2>4. \A k \in 1 .. j - i : y[(m + i) + k] = a[i + k]
    <3>1. \A k \in 1 .. j - i : i + k \in 1 .. n /\ (m + i) + k = m + (i + k)
      BY <1>0, <1>5
    <3> QED
      BY <1>3, <3>1
  <2>5. SubSeq(y, (m + i) + 1, m + j) = [k \in 1 .. j - i |-> y[(m + i) + k]]
    BY <2>2, <2>3
  <2>6. SubSeq(a, i + 1, j) = [k \in 1 .. j - i |-> a[i + k]]
    BY <2>2
  <2> QED
    BY <2>1, <2>4, <2>5, <2>6
<1> QED
  BY <1>1, <1>2, <1>3, <1>4, <1>5 DEF y, m, n

\* Two slices, one behind the other.
LEMMA SlicesJoin ==
    ASSUME NEW S, NEW s \in Seq(S), NEW i \in Nat, NEW j \in Nat, i <= j, j <= Len(s)
    PROVE  /\ Slice(s, 0, i) \o Slice(s, i, j) = Slice(s, 0, j)
           /\ Slice(s, 0, 0) = << >> /\ Slice(s, 0, Len(s)) = s
<1> DEFINE n == Len(s)
           p == Slice(s, 0, i)
           q == Slice(s, i, j)
           r == Slice(s, 0, j)
<1>0. n \in Nat /\ i <= n /\ 0 <= i /\ 0 <= j /\ 0 <= n
  OBVIOUS
<1>1. \A a, b \in Nat : a <= b /\ b <= n =>
         /\ Slice(s, a, b) \in Seq(S) /\ Len(Slice(s, a, b)) = b - a
         /\ \A k \in 1 .. b - a : Slice(s, a, b)[k] = s[a + k]
  <2> TAKE a, b \in Nat
  <2> SUFFICES ASSUME a <= b /\ b <= n
               PROVE  /\ Slice(s, a, b) \in Seq(S) /\ Len(Slice(s, a, b)) = b - a
                      /\ \A k \in 1 .. b - a : Slice(s, a, b)[k] = s[a + k]
    OBVIOUS
  <2>1. Slice(s, a, b) \in Seq(S) /\ Len(Slice(s, a, b)) = b - a
    BY SliceOctets
  <2>2. Slice(s, a, b) = SubSeq(s, a + 1, b)
    BY DEF Slice
  <2>3. \A k \in 1 .. b - a : SubSeq(s, a + 1, b)[k] = s[a + k]
    <3>1. SubSeq(s, a + 1, b) = [k \in 1 .. b - a |-> s[a + k]]
      BY SubSeqBy
    <3> QED
      BY <3>1
  <2> QED
    BY <2>1, <2>2, <2>3
<1> HIDE DEF n
<1>2. /\ p \in Seq(S) /\ Len(p) = i - 0 /\ \A k \in 1 .. i - 0 : p[k] = s[0 + k]
      /\ q \in Seq(S) /\ Len(q) = j - i /\ \A k \in 1 .. j - i : q[k] = s[i + k]
      /\ r \in Seq(S) /\ Len(r) = j - 0 /\ \A k \in 1 .. j - 0 : r[k] = s[0 + k]
  BY <1>0, <1>1 DEF n
<1> HIDE DEF p, q, r
<1>3. p \o q = r
  <2> DEFINE t == p \o q
  <2>1. /\ t \in Seq(S) /\ Len(t) = Len(p) + Len(q)
        /\ \A k \in 1 .. Len(p) + Len(q) : t[k] = IF k <= Len(p) THEN p[k] ELSE q[k - Len(p)]
    BY <1>2, ConcatProperties
  <2> HIDE DEF t
  <2>2. Len(t) = j /\ Len(r) = j /\ Len(p) = i
    BY <1>2, <2>1
  <2>3. ASSUME NEW k \in 1 .. j PROVE t[k] = r[k]
    <3>0. k \in 1 .. Len(p) + Len(q) /\ r[k] = s[k]
      <4>1. k \in 1 .. j - 0 /\ 0 + k = k
        OBVIOUS
      <4> QED
        BY <1>2, <2>2, <4>1
    <3>1. CASE k <= i
      <4>1. k \in 1 .. i - 0 /\ 0 + k = k
        BY <3>1
      <4> QED
        BY <1>2, <2>1, <2>2, <3>0, <3>1, <4>1
    <3>2. CASE ~ (k <= i)
      <4>1. k - i \in 1 .. j - i /\ i + (k - i) = k
        BY <3>2
      <4> QED
        BY <1>2, <2>1, <2>2, <3>0, <3>2, <4>1
    <3> QED
      BY <3>1, <3>2
  <2>4. t = r
    BY <1>2, <2>1, <2>2, <2>3, SeqEqual
  <2> QED
    BY <2>4 DEF t
<1>4. Slice(s, 0, 0) = << >>
  <2>1. Slice(s, 0, 0) \in Seq(S) /\ Len(Slice(s, 0, 0)) = 0
    BY <1>0, <1>1 DEF n
  <2> QED
    BY <2>1
<1>5. Slice(s, 0, n) = s
  <2>1. Slice(s, 0, n) = SubSeq(s, 0 + 1, n)
    BY <1>0 DEF Slice, n
  <2>2. SubSeq(s, 1, Len(s)) = s
    OBVIOUS
  <2> QED
    BY <2>1, <2>2 DEF n
<1> QED
  BY <1>3, <1>4, <1>5 DEF p, q, r, n

\* A slice of the string in front, and one of the string behind.
LEMMA SliceFront ==
    ASSUME NEW S, NEW x \in Seq(S), NEW y \in Seq(S), NEW i \in Nat, NEW j \in Nat,
           i <= j, j <= Len(x)
    PROVE  Slice(x \o y, i, j) = Slice(x, i, j)
BY Behind

LEMMA SliceBack ==
    ASSUME NEW S, NEW x \in Seq(S), NEW y \in Seq(S)
    PROVE  /\ Slice(x \o y, Len(x), Len(x) + Len(y)) = y
           /\ Slice(x, 0, Len(x)) = x
<1>1. Len(x) \in Nat /\ Len(y) \in Nat /\ 0 <= Len(y) /\ Len(y) <= Len(y) /\ Len(x) + 0 = Len(x)
  OBVIOUS
<1>2. \A i, j \in Nat : i <= j /\ j <= Len(y) =>
         Slice(x \o y, Len(x) + i, Len(x) + j) = Slice(y, i, j)
  BY Behind
<1>3. Slice(x \o y, Len(x) + 0, Len(x) + Len(y)) = Slice(y, 0, Len(y))
  BY <1>1, <1>2
<1>4. Slice(y, 0, Len(y)) = y /\ Slice(x, 0, Len(x)) = x
  <2>1. 0 <= Len(y) /\ 0 <= Len(x) /\ Len(x) <= Len(x)
    BY <1>1
  <2> QED
    BY <1>1, <2>1, SlicesJoin
<1> QED
  BY <1>1, <1>3, <1>4

\* Strings of octets are neither of the two that stand for an error.
LEMMA OctetsNoError ==
    ASSUME NEW s \in Seq(0 .. Octets - 1)
    PROVE  s # NoOctets /\ s # OutOfRange
<1> DEFINE S == 0 .. Octets - 1
<1>1. -1 \notin S /\ -2 \notin S /\ s \in Seq(S)
  OBVIOUS
<1> HIDE DEF S
<1>2. Len(s) = 1 => s[1] \in S
  BY <1>1
<1>3. Len(NoOctets) = 1 /\ NoOctets[1] = -1 /\ Len(OutOfRange) = 1 /\ OutOfRange[1] = -2
  BY DEF NoOctets, OutOfRange
<1> QED
  BY <1>1, <1>2, <1>3

-----------------------------------------------------------------------------
(* Chunks: how an offset falls into chunks of MacLen octets. *)

LEMMA Offsets ==
    ASSUME NEW a \in Nat
    PROVE  /\ a \div MacLen \in Nat /\ a % MacLen \in 0 .. MacLen - 1
           /\ a = MacLen * (a \div MacLen) + (a % MacLen)
           /\ 0 \div MacLen = 0 /\ 0 % MacLen = 0
           /\ \A b \in Nat : a <= b => a \div MacLen <= b \div MacLen
<1>1. MacLen \in Nat \ {0}
  BY MacLenAssumption
<1> QED
  BY <1>1

\* Two offsets with the same chunk and the same place in it are the same.
LEMMA OffsetsDiffer ==
    ASSUME NEW a \in Nat, NEW b \in Nat,
           a \div MacLen = b \div MacLen, a % MacLen = b % MacLen
    PROVE  a = b
BY Offsets

-----------------------------------------------------------------------------
(* The pad. *)

\* f is the list of sums, up to number q, that the key starts.
Chained(f, q, key) ==
    f = [n \in 0 .. q |-> MD5(IF n = 0 THEN key ELSE key \o f[n - 1])]

Key(h, secret) == << h.sessionID, secret, h.version, h.seqNo >>

\* What block n of the list is the sum of.
Input(f, key, n) == IF n = 0 THEN key ELSE key \o f[n - 1]

\* There is such a list, of any length.
LEMMA ChainExists ==
    ASSUME NEW q \in Nat, NEW key
    PROVE  \E f : Chained(f, q, key)
<1> DEFINE T == {n \in Nat : \E f : Chained(f, n, key)}
<1>1. 0 \in T
  <2> DEFINE f == [n \in 0 .. 0 |-> MD5(key)]
  <2>1. f = [n \in 0 .. 0 |-> MD5(IF n = 0 THEN key ELSE key \o f[n - 1])]
    OBVIOUS
  <2> HIDE DEF f
  <2> QED
    BY <2>1 DEF Chained
<1>2. ASSUME NEW n \in T PROVE n + 1 \in T
  <2>1. PICK f : Chained(f, n, key)
    OBVIOUS
  <2> DEFINE g == [m \in 0 .. n + 1 |-> IF m = n + 1 THEN MD5(key \o f[n]) ELSE f[m]]
  <2>2. \A m \in 0 .. n : f[m] = MD5(IF m = 0 THEN key ELSE key \o f[m - 1])
    BY <2>1 DEF Chained
  <2>3. ASSUME NEW m \in 0 .. n + 1
        PROVE  g[m] = MD5(IF m = 0 THEN key ELSE key \o g[m - 1])
    <3>1. CASE m = n + 1
      <4>1. m # 0 /\ m - 1 = n /\ n \in 0 .. n + 1 /\ n # n + 1
        BY <3>1
      <4> QED
        BY <3>1, <4>1
    <3>2. CASE m \in 0 .. n
      <4>1. m # n + 1 /\ g[m] = f[m]
        BY <3>2
      <4>2. m # 0 => m - 1 \in 0 .. n + 1 /\ m - 1 # n + 1 /\ g[m - 1] = f[m - 1]
        BY <3>2
      <4> HIDE DEF g
      <4> QED
        BY <2>2, <3>2, <4>1, <4>2
    <3> QED
      BY <3>1, <3>2
  <2>4. g = [m \in 0 .. n + 1 |-> g[m]]
    OBVIOUS
  <2> HIDE DEF g
  <2>5. Chained(g, n + 1, key)
    BY <2>3, <2>4 DEF Chained
  <2> QED
    BY <2>5
<1>3. T \in SUBSET Nat
  OBVIOUS
<1>4. T = Nat
  <2> HIDE DEF T
  <2> QED
    BY <1>1, <1>2, <1>3, NatSetInduction
<1> QED
  BY <1>4

\* Its blocks are whole sums.
LEMMA ChainBlocks ==
    ASSUME NEW q \in Nat, NEW key, NEW f, Chained(f, q, key), NEW n \in 0 .. q
    PROVE  /\ f[n] = MD5(Input(f, key, n))
           /\ Len(f[n]) = MacLen
           /\ \E S : f[n] \in Seq(S)
           /\ \A i \in 1 .. MacLen : f[n][i] = {<< 1, i, Input(f, key, n) >>}
<1>1. f[n] = MD5(Input(f, key, n))
  BY DEF Chained, Input
<1> DEFINE x == Input(f, key, n)
           S == {{<< 1, i, x >>} : i \in 1 .. MacLen}
<1> HIDE DEF x
<1>2. f[n] = [i \in 1 .. MacLen |-> {<< 1, i, x >>}]
  BY <1>1 DEF MD5, x
<1>3. MacLen \in Nat
  BY MacLenAssumption
<1>4. f[n] \in [1 .. MacLen -> S]
  BY <1>2
<1> HIDE DEF S
<1>5. f[n] \in Seq(S) /\ Len(f[n]) = MacLen
  BY <1>3, <1>4
<1> QED
  BY <1>1, <1>2, <1>5 DEF x

\* No two of them are the sums of the same octets.
LEMMA InputsDiffer ==
    ASSUME NEW q \in Nat, NEW K, NEW key \in Seq(K), NEW f, Chained(f, q, key)
    PROVE  \A k, m \in 0 .. q : Input(f, key, k) = Input(f, key, m) => k = m
<1> DEFINE T == {k \in Nat : k <= q =>
                    \A m \in 0 .. q : Input(f, key, k) = Input(f, key, m) => k = m}
<1>0. MacLen \in Nat \ {0}
  BY MacLenAssumption
<1>1. ASSUME NEW k \in 0 .. q, k # 0
      PROVE  /\ k - 1 \in 0 .. q
             /\ Input(f, key, k) = key \o f[k - 1]
             /\ \E S : f[k - 1] \in Seq(S) /\ key \in Seq(S)
             /\ Len(key \o f[k - 1]) = Len(key) + MacLen
  <2>1. k - 1 \in 0 .. q
    BY <1>1
  <2>2. PICK R : f[k - 1] \in Seq(R)
    BY <2>1, ChainBlocks
  <2>3. f[k - 1] \in Seq(R \cup K) /\ key \in Seq(R \cup K)
    BY <2>2
  <2>4. Len(key \o f[k - 1]) = Len(key) + Len(f[k - 1])
    BY <2>3, ConcatProperties
  <2>5. Len(f[k - 1]) = MacLen
    BY <2>1, ChainBlocks
  <2>6. Input(f, key, k) = key \o f[k - 1]
    BY <1>1 DEF Input
  <2> QED
    BY <2>1, <2>3, <2>4, <2>5, <2>6
<1>2. 0 \in T
  <2> SUFFICES ASSUME NEW m \in 0 .. q, m # 0 PROVE Input(f, key, 0) # Input(f, key, m)
    OBVIOUS
  <2>1. Len(Input(f, key, m)) = Len(key) + MacLen
    BY <1>1
  <2>2. Input(f, key, 0) = key /\ Len(key) \in Nat
    BY DEF Input
  <2> QED
    BY <1>0, <2>1, <2>2
<1>3. ASSUME NEW k \in T PROVE k + 1 \in T
  <2> SUFFICES ASSUME k + 1 <= q, NEW m \in 0 .. q, Input(f, key, k + 1) = Input(f, key, m)
               PROVE  k + 1 = m
    OBVIOUS
  <2>1. k + 1 \in 0 .. q /\ k + 1 # 0 /\ (k + 1) - 1 = k /\ k \in 0 .. q /\ k \in Nat
    OBVIOUS
  <2>2. CASE m = 0
    <3>1. Len(Input(f, key, k + 1)) = Len(key) + MacLen
      BY <1>1, <2>1
    <3>2. Input(f, key, m) = key /\ Len(key) \in Nat
      BY <2>2 DEF Input
    <3> QED
      BY <1>0, <3>1, <3>2
  <2>3. CASE m # 0
    <3>1. key \o f[k] = key \o f[m - 1] /\ m - 1 \in 0 .. q
      BY <1>1, <2>1, <2>3
    <3>2. PICK R : f[k] \in Seq(R) /\ key \in Seq(R)
      BY <1>1, <2>1
    <3>3. PICK S : f[m - 1] \in Seq(S) /\ key \in Seq(S)
      BY <1>1, <2>3
    <3>4. (key \o f[k])[Len(key) + 1] = f[k][1]
      <4>1. Len(f[k]) = MacLen /\ Len(key) \in Nat
        BY <2>1, ChainBlocks
      <4> QED
        BY <1>0, <3>2, <4>1, ConcatProperties
    <3>5. (key \o f[m - 1])[Len(key) + 1] = f[m - 1][1]
      <4>1. Len(f[m - 1]) = MacLen /\ Len(key) \in Nat
        BY <3>1, ChainBlocks
      <4> QED
        BY <1>0, <3>3, <4>1, ConcatProperties
    <3>6. f[k][1] = {<< 1, 1, Input(f, key, k) >>}
      BY <1>0, <2>1, ChainBlocks
    <3>7. f[m - 1][1] = {<< 1, 1, Input(f, key, m - 1) >>}
      <4>1. \A n \in 0 .. q : f[n][1] = {<< 1, 1, Input(f, key, n) >>}
        BY <1>0, ChainBlocks
      <4> QED
        BY <3>1, <4>1
    <3>8. Input(f, key, k) = Input(f, key, m - 1)
      BY <3>1, <3>4, <3>5, <3>6, <3>7
    <3>9. k = m - 1
      BY <2>1, <3>1, <3>8
    <3> QED
      BY <3>9
  <2> QED
    BY <2>2, <2>3
<1>4. T \in SUBSET Nat
  OBVIOUS
<1>5. T = Nat
  <2> HIDE DEF T
  <2> QED
    BY <1>2, <1>3, <1>4, NatSetInduction
<1>6. ASSUME NEW k \in 0 .. q, NEW m \in 0 .. q, Input(f, key, k) = Input(f, key, m)
      PROVE  k = m
  <2>1. k \in T
    <3> HIDE DEF T
    <3> QED
      BY <1>5
  <2> QED
    BY <1>6, <2>1
<1> QED
  BY <1>6

\* The list of the sums for q + 1 blocks.
Chain(q, key) == CHOOSE f : Chained(f, q, key)

\* Each octet of the pad is one of a sum, and which.
LEMMA PadOctets ==
    ASSUME NEW h, NEW secret, NEW S, NEW s \in Seq(S)
    PROVE  LET key == Key(h, secret)
               q   == Len(s) \div MacLen
               f   == Chain(q, key)
               p   == pad(h, s, secret)
           IN  /\ q \in Nat /\ Chained(f, q, key)
               /\ DOMAIN p = 1 .. Len(s)
               /\ \A i \in 1 .. Len(s) :
                     /\ i - 1 \in Nat /\ (i - 1) \div MacLen \in 0 .. q
                     /\ p[i] = {<< 1, ((i - 1) % MacLen) + 1,
                                   Input(f, key, (i - 1) \div MacLen) >>}
<1> DEFINE key == Key(h, secret)
           q   == Len(s) \div MacLen
           f   == Chain(q, key)
           p   == pad(h, s, secret)
<1>1. q \in Nat
  BY Offsets
<1>2. Chained(f, q, key)
  <2> HIDE DEF q, key
  <2> QED
    BY <1>1, ChainExists DEF Chain
<1>3. p = [i \in DOMAIN s |-> f[(i - 1) \div MacLen][((i - 1) % MacLen) + 1]]
  BY DEF pad, Chain, Chained, Key
<1>4. DOMAIN s = 1 .. Len(s)
  OBVIOUS
<1> HIDE DEF f, key, p
<1>5. ASSUME NEW i \in 1 .. Len(s)
      PROVE  /\ i - 1 \in Nat /\ (i - 1) \div MacLen \in 0 .. q
             /\ p[i] = {<< 1, ((i - 1) % MacLen) + 1, Input(f, key, (i - 1) \div MacLen) >>}
  <2> DEFINE a == i - 1
             n == a \div MacLen
             j == (a % MacLen) + 1
  <2>1. a \in Nat /\ a <= Len(s) /\ Len(s) \in Nat
    OBVIOUS
  <2>2. n \in 0 .. q /\ a % MacLen \in 0 .. MacLen - 1
    <3> HIDE DEF a
    <3> QED
      BY <2>1, Offsets
  <2>3. j \in 1 .. MacLen
    <3> HIDE DEF a
    <3> QED
      BY <2>2, MacLenAssumption
  <2>4. p[i] = f[n][j]
    BY <1>3, <1>4
  <2> HIDE DEF n, j
  <2>5. f[n][j] = {<< 1, j, Input(f, key, n) >>}
    BY <1>1, <1>2, <2>2, <2>3, ChainBlocks, SMTT(30)
  <2> QED
    BY <2>1, <2>2, <2>4, <2>5 DEF n, j
<1>6. DOMAIN p = 1 .. Len(s)
  BY <1>3, <1>4
<1> QED
  BY <1>1, <1>2, <1>5, <1>6 DEF f, key, p

\* No two octets of a pad are the same.
LEMMA PadDiffers ==
    ASSUME NEW h, NEW secret, NEW S, NEW s \in Seq(S), NEW K, Key(h, secret) \in Seq(K),
           NEW i \in DOMAIN s, NEW j \in DOMAIN s,
           pad(h, s, secret)[i] = pad(h, s, secret)[j]
    PROVE  i = j
<1> DEFINE key == Key(h, secret)
           q   == Len(s) \div MacLen
           f   == Chain(q, key)
           p   == pad(h, s, secret)
           a   == i - 1
           b   == j - 1
<1>1. i \in 1 .. Len(s) /\ j \in 1 .. Len(s)
  OBVIOUS
<1>2. /\ q \in Nat /\ Chained(f, q, key)
      /\ a \in Nat /\ a \div MacLen \in 0 .. q
      /\ b \in Nat /\ b \div MacLen \in 0 .. q
      /\ p[i] = {<< 1, (a % MacLen) + 1, Input(f, key, a \div MacLen) >>}
      /\ p[j] = {<< 1, (b % MacLen) + 1, Input(f, key, b \div MacLen) >>}
  BY <1>1, PadOctets
<1>3. p[i] = p[j]
  OBVIOUS
<1> HIDE DEF q, f, p, a, b, key
<1>4. /\ (a % MacLen) + 1 = (b % MacLen) + 1
      /\ Input(f, key, a \div MacLen) = Input(f, key, b \div MacLen)
  <2> DEFINE u == (a % MacLen) + 1
             v == (b % MacLen) + 1
             x == Input(f, key, a \div MacLen)
             y == Input(f, key, b \div MacLen)
  <2>1. p[i] = {<< 1, u, x >>} /\ p[j] = {<< 1, v, y >>}
    BY <1>2
  <2> HIDE DEF u, v, x, y
  <2>2. << 1, u, x >> = << 1, v, y >>
    <3> DEFINE l == << 1, u, x >>
               r == << 1, v, y >>
    <3>1. {l} = {r}
      BY <1>3, <2>1
    <3> HIDE DEF l, r
    <3>2. l = r
      BY <3>1
    <3> QED
      BY <3>2 DEF l, r
  <2>3. u = v /\ x = y
    BY <2>2
  <2> QED
    BY <2>3 DEF u, v, x, y
<1>5. a \div MacLen = b \div MacLen
  <2>1. key \in Seq(K)
    BY DEF key
  <2> QED
    BY <1>2, <1>4, <2>1, InputsDiffer
<1>6. a % MacLen = b % MacLen
  <2>1. a % MacLen \in Nat /\ b % MacLen \in Nat
    <3>1. \A c \in Nat : c % MacLen \in 0 .. MacLen - 1
      BY Offsets
    <3> QED
      BY <1>2, <3>1, MacLenAssumption
  <2> QED
    BY <1>4, <2>1
<1>7. a = b
  BY <1>2, <1>5, <1>6, OffsetsDiffer
<1> QED
  BY <1>1, <1>7 DEF a, b

\* The first octet of a pad is one of the sum of the key.
LEMMA PadFirst ==
    ASSUME NEW h, NEW secret, NEW S, NEW s \in Seq(S), s # << >>
    PROVE  1 \in DOMAIN s /\ pad(h, s, secret)[1] = {<< 1, 1, Key(h, secret) >>}
<1>1. 1 \in 1 .. Len(s) /\ DOMAIN s = 1 .. Len(s)
  OBVIOUS
<1>2. pad(h, s, secret)[1] =
        {<< 1, ((1 - 1) % MacLen) + 1,
            Input(Chain(Len(s) \div MacLen, Key(h, secret)), Key(h, secret),
                  (1 - 1) \div MacLen) >>}
  BY <1>1, PadOctets
<1>3. 1 - 1 = 0 /\ 0 + 1 = 1 /\ 0 \in Nat
  OBVIOUS
<1>4. 0 \div MacLen = 0 /\ 0 % MacLen = 0
  BY <1>3, Offsets
<1>5. \A f : Input(f, Key(h, secret), 0) = Key(h, secret)
  BY DEF Input
<1> QED
  BY <1>1, <1>2, <1>3, <1>4, <1>5

\* Only its length decides what pad a string is combined with.
LEMMA PadByLength ==
    ASSUME NEW h, NEW secret, NEW s, NEW t, DOMAIN s = DOMAIN t, Len(s) = Len(t)
    PROVE  pad(h, s, secret) = pad(h, t, secret)
BY DEF pad

-----------------------------------------------------------------------------
(* Obfuscation. *)

\* A header whose flags do not switch obfuscation off.
Hiding(h) == ~ FlagUnencrypted(h.flags)

\* Combined twice with the same octets, a string is what it was.
LEMMA XorTwice ==
    ASSUME NEW n \in Nat, NEW s, NEW p, s = [i \in 1 .. n |-> s[i]]
    PROVE  Xor(Xor(s, p), p) = s
<1>1. DOMAIN s = 1 .. n
  OBVIOUS
<1>2. DOMAIN Xor(s, p) = 1 .. n
  BY <1>1 DEF Xor
<1>3. \A i \in 1 .. n : Xor(s, p)[i] = (s[i] \ p[i]) \cup (p[i] \ s[i])
  BY <1>1 DEF Xor
<1>4. Xor(Xor(s, p), p) =
        [i \in 1 .. n |-> (Xor(s, p)[i] \ p[i]) \cup (p[i] \ Xor(s, p)[i])]
  BY <1>2 DEF Xor
<1>5. \A x, y : (((x \ y) \cup (y \ x)) \ y) \cup (y \ ((x \ y) \cup (y \ x))) = x
  OBVIOUS
<1>6. \A i \in 1 .. n : (Xor(s, p)[i] \ p[i]) \cup (p[i] \ Xor(s, p)[i]) = s[i]
  BY <1>3, <1>5
<1> QED
  BY <1>4, <1>6

\* What is hidden is as long as the text.
LEMMA CryptLength ==
    ASSUME NEW h, Hiding(h), NEW secret, NEW S, NEW s \in Seq(S)
    PROVE  LET wire == CryptPayload(h, s, secret)
           IN  /\ wire = Xor(s, pad(h, s, secret))
               /\ DOMAIN wire = DOMAIN s /\ Len(wire) = Len(s)
               /\ \E T : wire \in Seq(T)
<1> DEFINE wire == CryptPayload(h, s, secret)
           p == pad(h, s, secret)
           x == [i \in 1 .. Len(s) |-> (s[i] \ p[i]) \cup (p[i] \ s[i])]
           T == {x[i] : i \in 1 .. Len(s)}
<1>1. wire = Xor(s, p)
  BY DEF CryptPayload, Hiding
<1>2. DOMAIN s = 1 .. Len(s) /\ Len(s) \in Nat
  OBVIOUS
<1> HIDE DEF p
<1>3. wire = x
  BY <1>1, <1>2 DEF Xor
<1>4. x \in [1 .. Len(s) -> T]
  OBVIOUS
<1>5. x = [i \in 1 .. Len(s) |-> x[i]]
  OBVIOUS
<1> HIDE DEF x, T, wire
<1>6. wire \in Seq(T) /\ Len(wire) = Len(s) /\ DOMAIN wire = DOMAIN s
  BY <1>2, <1>3, <1>4
<1> QED
  BY <1>1, <1>6 DEF wire, p

\* Obfuscation with the same secret, session and number undoes it.
LEMMA CryptUndone ==
    ASSUME NEW h, Hiding(h), NEW secret, NEW S, NEW s \in Seq(S)
    PROVE  CryptPayload(h, CryptPayload(h, s, secret), secret) = s
<1> DEFINE wire == CryptPayload(h, s, secret)
           p == pad(h, s, secret)
<1>1. /\ wire = Xor(s, p) /\ DOMAIN wire = DOMAIN s /\ Len(wire) = Len(s)
  BY CryptLength
<1>2. CryptPayload(h, wire, secret) = Xor(wire, pad(h, wire, secret))
  BY DEF CryptPayload, Hiding
<1>3. pad(h, wire, secret) = p
  BY <1>1, PadByLength
<1> HIDE DEF wire, p
<1>4. s = [i \in 1 .. Len(s) |-> s[i]] /\ Len(s) \in Nat
  OBVIOUS
<1>5. Xor(Xor(s, p), p) = s
  BY <1>4, XorTwice
<1> QED
  BY <1>1, <1>2, <1>3, <1>5 DEF wire, p

\* Text as sets of terms is a sequence as long.
LEMMA PlainSequence ==
    ASSUME NEW S, NEW s \in Seq(S)
    PROVE  /\ \E T : Plain(s) \in Seq(T)
           /\ DOMAIN Plain(s) = DOMAIN s /\ Len(Plain(s)) = Len(s)
           /\ \A i \in DOMAIN s : Plain(s)[i] = {<< 0, s[i] >>}
<1> DEFINE x == [i \in 1 .. Len(s) |-> {<< 0, s[i] >>}]
           T == {x[i] : i \in 1 .. Len(s)}
<1>1. DOMAIN s = 1 .. Len(s) /\ Len(s) \in Nat
  OBVIOUS
<1>2. Plain(s) = x
  BY <1>1 DEF Plain
<1>3. \A i \in 1 .. Len(s) : x[i] = {<< 0, s[i] >>}
  OBVIOUS
<1>4. x \in [1 .. Len(s) -> T]
  OBVIOUS
<1> HIDE DEF x, T
<1>5. x \in Seq(T) /\ Len(x) = Len(s) /\ DOMAIN x = DOMAIN s
  BY <1>1, <1>4
<1> QED
  BY <1>1, <1>2, <1>3, <1>5

\* Octets that hold a term of a sum cannot be read.
LEMMA SumIsIllegible ==
    ASSUME NEW s, 1 \in DOMAIN s, NEW x, << 1, 1, x >> \in s[1]
    PROVE  ~ Legible(s)
<1>1. \A n : << 1, 1, x >> # << 0, n >>
  OBVIOUS
<1>2. \A n : s[1] # {<< 0, n >>}
  <2> DEFINE t == << 1, 1, x >>
  <2>1. t \in s[1] /\ \A n : t # << 0, n >>
    BY <1>1
  <2> HIDE DEF t
  <2> QED
    BY <2>1
<1> QED
  BY <1>2 DEF Legible

\* The first octet that is hidden holds the sum of the key, and still does when a
\* pad of another key is taken off.
LEMMA HiddenFirst ==
    ASSUME NEW h, Hiding(h), NEW secret, NEW S, NEW s \in Seq(S), s # << >>
    PROVE  LET wire == CryptPayload(h, Plain(s), secret)
           IN  /\ ~ Legible(wire)
               /\ \A g, other : Hiding(g) /\ Key(g, other) # Key(h, secret) =>
                     ~ Legible(CryptPayload(g, wire, other))
<1> DEFINE x    == Plain(s)
           wire == CryptPayload(h, x, secret)
           key  == Key(h, secret)
           term == << 1, 1, key >>
<1>1. PICK T : x \in Seq(T)
  BY PlainSequence
<1>2. DOMAIN x = DOMAIN s /\ Len(x) = Len(s) /\ 1 \in DOMAIN s
  BY PlainSequence
<1>3. x[1] = {<< 0, s[1] >>}
  BY <1>2, PlainSequence
<1> HIDE DEF x
<1>4. /\ wire = Xor(x, pad(h, x, secret)) /\ DOMAIN wire = DOMAIN x
      /\ Len(wire) = Len(x) /\ \E U : wire \in Seq(U)
  BY <1>1, CryptLength
<1>5. x # << >>
  BY <1>2
<1>6. pad(h, x, secret)[1] = {term}
  BY <1>1, <1>5, PadFirst
<1>7. term # << 0, s[1] >>
  OBVIOUS
<1> HIDE DEF term
<1>8. term \in Xor(x, pad(h, x, secret))[1]
  BY <1>2, <1>3, <1>6, <1>7 DEF Xor
<1>9. term \in wire[1] /\ 1 \in DOMAIN wire
  BY <1>2, <1>4, <1>8
<1> HIDE DEF wire
<1>10. ~ Legible(wire)
  BY <1>9, SumIsIllegible DEF term
<1>11. ASSUME NEW g, NEW other, Hiding(g), Key(g, other) # key
       PROVE  ~ Legible(CryptPayload(g, wire, other))
  <2> DEFINE w == CryptPayload(g, wire, other)
             mask == << 1, 1, Key(g, other) >>
  <2>1. PICK U : wire \in Seq(U)
    BY <1>4
  <2>2. wire # << >>
    BY <1>9
  <2>3. w = Xor(wire, pad(g, wire, other)) /\ DOMAIN w = DOMAIN wire
    BY <1>11, <2>1, CryptLength
  <2>4. pad(g, wire, other)[1] = {mask}
    BY <2>1, <2>2, PadFirst
  <2>5. term # mask
    <3> DEFINE k == Key(g, other)
    <3> HIDE DEF k, key
    <3>1. k # key => << 1, 1, key >> # << 1, 1, k >>
      OBVIOUS
    <3> QED
      BY <1>11, <3>1 DEF term, k
  <2> HIDE DEF w, mask
  <2>6. term \in w[1] /\ 1 \in DOMAIN w
    BY <1>9, <2>3, <2>4, <2>5 DEF Xor
  <2>7. ~ Legible(w)
    BY <2>6, SumIsIllegible DEF term
  <2> QED
    BY <2>7 DEF w
<1> QED
  BY <1>10, <1>11 DEF wire, x, key

\* Obfuscation hides every body, comes off under the same secret, session and
\* sequence number and under no other, and never uses an octet of a pad twice,
\* however long the body is.
THEOREM PadTheorem == WireSpec => []PadUndone
<1> DEFINE g == [Head1 EXCEPT !.seqNo = 2]
           e == [Head1 EXCEPT !.sessionID = 8]
           K == {9, "secret", MajorVer * Nibble, 1}
<1>1. /\ Hiding(Head1) /\ Hiding(g) /\ Hiding(e)
      /\ Key(Head1, "secret") = << 9, "secret", MajorVer * Nibble, 1 >>
      /\ Key(Head1, "mistyped") = << 9, "mistyped", MajorVer * Nibble, 1 >>
      /\ Key(g, "secret") = << 9, "secret", MajorVer * Nibble, 2 >>
      /\ Key(e, "secret") = << 8, "secret", MajorVer * Nibble, 1 >>
  <2>1. Head1.flags = 0 /\ g.flags = 0 /\ e.flags = 0 /\ ~ (0 % 2 = 1)
    BY DEF Head1
  <2>2. /\ Head1.sessionID = 9 /\ Head1.version = MajorVer * Nibble /\ Head1.seqNo = 1
        /\ g.sessionID = 9 /\ g.version = MajorVer * Nibble /\ g.seqNo = 2
        /\ e.sessionID = 8 /\ e.version = MajorVer * Nibble /\ e.seqNo = 1
    BY DEF Head1
  <2> HIDE DEF g, e
  <2> QED
    BY <2>1, <2>2 DEF Hiding, FlagUnencrypted, Key
<1>2. \A v : << 9, "secret", v, 1 >> \in Seq({9, "secret", v, 1})
  OBVIOUS
<1>3. \A v : /\ << 9, "mistyped", v, 1 >> # << 9, "secret", v, 1 >>
             /\ << 9, "secret", v, 2 >> # << 9, "secret", v, 1 >>
             /\ << 8, "secret", v, 1 >> # << 9, "secret", v, 1 >>
  OBVIOUS
<1>4. /\ Key(Head1, "mistyped") # Key(Head1, "secret") /\ Key(g, "secret") # Key(Head1, "secret")
      /\ Key(e, "secret") # Key(Head1, "secret")
      /\ Key(Head1, "secret") \in Seq(K)
  BY <1>1, <1>2, <1>3
<1> HIDE DEF g, e, K
<1>5. ASSUME Sequence PROVE PadUndone
  <2> DEFINE x    == Plain(octets)
             wire == CryptPayload(Head1, x, "secret")
             p    == pad(Head1, x, "secret")
  <2>1. PICK S : octets \in Seq(S)
    BY <1>5 DEF Sequence
  <2>2. PICK T : x \in Seq(T)
    BY <2>1, PlainSequence
  <2> HIDE DEF x
  <2>3. CryptPayload(Head1, wire, "secret") = x
    BY <1>1, <2>2, CryptUndone
  <2>4. DOMAIN p = DOMAIN x
    BY <2>2, PadOctets
  <2>5. \A i, j \in DOMAIN p : p[i] = p[j] => i = j
    BY <1>4, <2>2, <2>4, PadDiffers
  <2>6. octets # << >> =>
          /\ ~ Legible(wire)
          /\ ~ Legible(CryptPayload(Head1, wire, "mistyped"))
          /\ ~ Legible(CryptPayload(g, wire, "secret"))
          /\ ~ Legible(CryptPayload(e, wire, "secret"))
    BY <1>1, <1>4, <2>1, HiddenFirst DEF x
  <2> QED
    BY <2>3, <2>5, <2>6 DEF PadUndone, x, g, e
<1>6. Sequence => PadUndone
  BY <1>5
<1> QED
  BY <1>6, SequenceTheorem, PTL

-----------------------------------------------------------------------------
(* User-Password. *)

\* The offset of place r in chunk m.
LEMMA OffsetOf ==
    ASSUME NEW m \in Nat, NEW r \in 0 .. MacLen - 1
    PROVE  /\ m * MacLen + r \in Nat
           /\ (m * MacLen + r) \div MacLen = m /\ (m * MacLen + r) % MacLen = r
<1>1. MacLen \in Nat \ {0}
  BY MacLenAssumption
<1>2. m * MacLen + r \in Nat
  BY <1>1
<1> QED
  BY <1>1, <1>2

\* Octet j of the concatenation of the chunks cs.
Octet(cs, j) == cs[((j - 1) \div MacLen) + 1][((j - 1) % MacLen) + 1]

\* The first n of cs are whole chunks.
WholeChunks(cs, n) == \A i \in 1 .. n : cs[i] = [j \in 1 .. MacLen |-> cs[i][j]]

\* Whole chunks, one after the other.
LEMMA FlattenChunks ==
    ASSUME NEW n \in Nat, NEW cs, cs = [i \in 1 .. n |-> cs[i]], WholeChunks(cs, n)
    PROVE  FlattenSeq(cs) = [j \in 1 .. n * MacLen |-> Octet(cs, j)]
<1> DEFINE S == {cs[i][j] : i \in 1 .. n, j \in 1 .. MacLen}
<1>0. MacLen \in Nat \ {0}
  BY MacLenAssumption
<1>1. ASSUME NEW i \in 1 .. n PROVE cs[i] \in Seq(S) /\ Len(cs[i]) = MacLen
  <2> DEFINE c == cs[i]
  <2>1. c = [j \in 1 .. MacLen |-> c[j]]
    BY DEF WholeChunks
  <2>2. \A j \in 1 .. MacLen : c[j] \in S
    OBVIOUS
  <2> HIDE DEF S, c
  <2>3. c \in [1 .. MacLen -> S]
    BY <2>1, <2>2
  <2>4. c \in Seq(S) /\ Len(c) = MacLen
    BY <1>0, <2>3
  <2> QED
    BY <2>4 DEF c
<1> HIDE DEF S
<1>2. cs \in Seq(Seq(S)) /\ Len(cs) = n
  <2>1. cs \in [1 .. n -> Seq(S)]
    BY <1>1
  <2> QED
    BY <2>1
<1>3. /\ Len(cs) = 0 => FlattenSeq(cs) = cs
      /\ Len(cs) # 0 => FlattenSeq(cs) = Flattened(cs)[Len(cs)]
  BY DEF FlattenSeq, Flattened
<1>4. CASE n = 0
  <2>1. 1 .. n = {} /\ n * MacLen = 0 /\ 1 .. n * MacLen = {}
    BY <1>0, <1>4
  <2>2. FlattenSeq(cs) = cs
    BY <1>2, <1>3, <1>4
  <2>3. cs = [j \in {} |-> Octet(cs, j)]
    BY <2>1
  <2> QED
    BY <2>1, <2>2, <2>3
<1>5. CASE n # 0
  <2> DEFINE F == Flattened(cs)
  <2>1. /\ F \in [1 .. n -> Seq(S)] /\ F[1] = cs[1]
        /\ \A i \in 1 .. n - 1 : F[i + 1] = F[i] \o cs[i + 1]
    <3>1. cs # << >>
      BY <1>2, <1>5
    <3> QED
      BY <1>2, <3>1, FlattenedSteps
  <2> HIDE DEF F
  <2> DEFINE Good(i) == Len(F[i]) = i * MacLen /\ \A j \in 1 .. i * MacLen : F[i][j] = Octet(cs, j)
             T == {i \in Nat : i \in 1 .. n => Good(i)}
  <2>2. Good(1)
    <3>1. 1 \in 1 .. n /\ 1 * MacLen = MacLen
      BY <1>0, <1>5
    <3>2. Len(F[1]) = MacLen
      BY <1>1, <2>1, <3>1
    <3>3. ASSUME NEW j \in 1 .. MacLen PROVE F[1][j] = Octet(cs, j)
      <4>1. j - 1 \in 0 .. MacLen - 1 /\ 0 \in Nat /\ 0 * MacLen + (j - 1) = j - 1
        BY <1>0
      <4>2. (j - 1) \div MacLen = 0 /\ (j - 1) % MacLen = j - 1
        BY <4>1, OffsetOf
      <4>3. ((j - 1) \div MacLen) + 1 = 1 /\ ((j - 1) % MacLen) + 1 = j
        BY <4>2
      <4> QED
        BY <2>1, <4>3 DEF Octet
    <3> QED
      BY <3>1, <3>2, <3>3
  <2>3. 0 \in T
    OBVIOUS
  <2>4. ASSUME NEW i \in T PROVE i + 1 \in T
    <3> SUFFICES ASSUME i + 1 \in 1 .. n PROVE Good(i + 1)
      OBVIOUS
    <3>1. CASE i = 0
      <4>1. i + 1 = 1
        BY <3>1
      <4> HIDE DEF Good
      <4> QED
        BY <2>2, <4>1
    <3>2. CASE i # 0
      <4>1. i \in 1 .. n - 1 /\ i \in 1 .. n /\ i \in Nat
        BY <3>2
      <4>2. Good(i)
        BY <4>1
      <4>3. F[i + 1] = F[i] \o cs[i + 1] /\ F[i] \in Seq(S) /\ cs[i + 1] \in Seq(S)
            /\ Len(cs[i + 1]) = MacLen
        BY <1>1, <2>1, <4>1
      <4>4. i * MacLen \in Nat /\ (i + 1) * MacLen = i * MacLen + MacLen
        BY <1>0, <4>1
      <4> DEFINE b == i * MacLen
      <4>5. Len(F[i + 1]) = b + MacLen
        <5>1. Len(F[i + 1]) = Len(F[i]) + Len(cs[i + 1])
          BY <4>3, ConcatProperties
        <5> QED
          BY <4>2, <4>3, <5>1
      <4>6. ASSUME NEW j \in 1 .. b + MacLen PROVE F[i + 1][j] = Octet(cs, j)
        <5>1. F[i + 1][j] = IF j <= Len(F[i]) THEN F[i][j] ELSE cs[i + 1][j - Len(F[i])]
          <6>1. j \in 1 .. Len(F[i]) + Len(cs[i + 1])
            BY <4>2, <4>3
          <6> QED
            BY <4>3, <6>1, ConcatProperties
        <5>2. CASE j <= b
          <6>1. j \in 1 .. b
            BY <4>4, <5>2
          <6> QED
            BY <4>2, <5>1, <5>2, <6>1
        <5>3. CASE ~ (j <= b)
          <6> DEFINE r == j - 1 - b
          <6>1. r \in 0 .. MacLen - 1 /\ b + r = j - 1 /\ r + 1 = j - b
            BY <1>0, <4>4, <5>3, SMTT(30)
          <6> HIDE DEF r
          <6>2. (j - 1) \div MacLen = i /\ (j - 1) % MacLen = r
            BY <4>1, <6>1, OffsetOf
          <6>3. Octet(cs, j) = cs[i + 1][j - b]
            BY <6>1, <6>2 DEF Octet
          <6>4. F[i + 1][j] = cs[i + 1][j - b]
            BY <4>2, <5>1, <5>3
          <6> QED
            BY <6>3, <6>4
        <5> QED
          BY <5>2, <5>3
      <4> QED
        BY <4>4, <4>5, <4>6
    <3> QED
      BY <3>1, <3>2
  <2>5. T \in SUBSET Nat
    OBVIOUS
  <2>6. T = Nat
    <3> HIDE DEF T
    <3> QED
      BY <2>3, <2>4, <2>5, NatSetInduction
  <2>7. n \in T /\ n \in 1 .. n
    BY <1>5, <2>6
  <2>8. Good(n)
    <3> HIDE DEF Good
    <3> QED
      BY <2>7
  <2>9. FlattenSeq(cs) = F[n] /\ F[n] \in Seq(S)
    BY <1>2, <1>3, <1>5, <2>1, <2>7 DEF F
  <2>10. F[n] = [j \in 1 .. n * MacLen |-> F[n][j]]
    <3>1. Len(F[n]) = n * MacLen
      BY <2>8
    <3>2. \A s : s \in Seq(S) => s = [j \in 1 .. Len(s) |-> s[j]]
      OBVIOUS
    <3>3. F[n] = [j \in 1 .. Len(F[n]) |-> F[n][j]]
      BY <2>9, <3>2
    <3> QED
      BY <3>1, <3>3
  <2> QED
    BY <2>8, <2>9, <2>10
<1> QED
  BY <1>4, <1>5

\* encryptPassword fills a password up with zeros to so many chunks.
Chunks(s) == (Len(s) + MacLen - 1) \div MacLen
Padded(s) == s \o [i \in 1 .. Chunks(s) * MacLen - Len(s) |-> 0]

\* It is filled up by less than a chunk.
LEMMA PaddedString ==
    ASSUME NEW S, NEW s \in Seq(S)
    PROVE  /\ Chunks(s) \in Nat
           /\ Len(s) <= Chunks(s) * MacLen /\ Chunks(s) * MacLen < Len(s) + MacLen
           /\ Padded(s) \in Seq(S \cup {0}) /\ Len(Padded(s)) = Chunks(s) * MacLen
           /\ \A i \in 1 .. Len(s) : Padded(s)[i] = s[i]
           /\ s # << >> => 0 \in 0 .. Chunks(s) - 1
<1> DEFINE q == Chunks(s)
           a == Len(s) + MacLen - 1
           z == [i \in 1 .. q * MacLen - Len(s) |-> 0]
<1>0. MacLen \in Nat \ {0} /\ Len(s) \in Nat
  BY MacLenAssumption
<1>1. a \in Nat /\ q = a \div MacLen
  BY <1>0 DEF Chunks
<1>2. /\ q \in Nat /\ a % MacLen \in 0 .. MacLen - 1
      /\ a = MacLen * q + (a % MacLen)
  <2> HIDE DEF a, q
  <2> QED
    BY <1>1, Offsets
<1>3. q * MacLen = MacLen * q /\ MacLen * q \in Nat
  BY <1>0, <1>2
<1>4. Len(s) <= q * MacLen /\ q * MacLen < Len(s) + MacLen
  BY <1>0, <1>2, <1>3
<1>5. q * MacLen - Len(s) \in Nat
  BY <1>0, <1>3, <1>4
<1>6. z \in Seq(S \cup {0}) /\ Len(z) = q * MacLen - Len(s)
  <2>1. z \in [1 .. q * MacLen - Len(s) -> S \cup {0}]
    OBVIOUS
  <2> HIDE DEF q
  <2> QED
    BY <1>5, <2>1
<1>7. s \in Seq(S \cup {0})
  OBVIOUS
<1> HIDE DEF q, a, z
<1>8. /\ s \o z \in Seq(S \cup {0}) /\ Len(s \o z) = Len(s) + Len(z)
      /\ \A i \in 1 .. Len(s) + Len(z) : (s \o z)[i] = IF i <= Len(s) THEN s[i] ELSE z[i - Len(s)]
  BY <1>6, <1>7, ConcatProperties
<1>9. Padded(s) = s \o z
  BY DEF Padded, q, z
<1>10. Len(s) + Len(z) = q * MacLen
  BY <1>0, <1>3, <1>6
<1>11. \A i \in 1 .. Len(s) : i \in 1 .. Len(s) + Len(z) /\ i <= Len(s)
  BY <1>0, <1>3, <1>4, <1>10
<1>12. \A i \in 1 .. Len(s) : Padded(s)[i] = s[i]
  BY <1>8, <1>9, <1>11
<1>13. s # << >> => q # 0
  <2> SUFFICES ASSUME s # << >>, q = 0 PROVE FALSE
    OBVIOUS
  <2>1. Len(s) # 0 /\ q * MacLen = 0
    BY <1>0
  <2> QED
    BY <1>0, <1>4, <2>1
<1>14. s # << >> => 0 \in 0 .. q - 1
  BY <1>2, <1>13
<1> QED
  BY <1>2, <1>4, <1>8, <1>9, <1>10, <1>12, <1>14 DEF q

\* Chunk n of a long enough string.
LEMMA ChunkOctets ==
    ASSUME NEW S, NEW s \in Seq(S), NEW q \in Nat, Len(s) = q * MacLen, NEW n \in 0 .. q - 1
    PROVE  /\ Chunk(s, n) = [j \in 1 .. MacLen |-> s[n * MacLen + j]]
           /\ \A j \in 1 .. MacLen : n * MacLen + j \in 1 .. Len(s)
<1> DEFINE b == n * MacLen
           e == (n + 1) * MacLen
<1>0. MacLen \in Nat \ {0}
  BY MacLenAssumption
<1>1. b \in Nat /\ e = b + MacLen /\ e \in Nat /\ n \in Nat
  BY <1>0
<1>2. e <= q * MacLen
  <2>1. n + 1 <= q /\ n + 1 \in Nat
    OBVIOUS
  <2>2. \A u, v \in Nat : u <= v => u * MacLen <= v * MacLen
    BY <1>0
  <2> QED
    BY <2>1, <2>2
<1>3. \A j \in 1 .. MacLen : b + j \in 1 .. Len(s)
  BY <1>0, <1>1, <1>2
<1>4. Chunk(s, n) = SubSeq(s, b + 1, e)
  BY DEF Chunk
<1> HIDE DEF b, e
<1>5. \A x, y \in Int : SubSeq(s, x, y) = [i \in 1 .. (1 + y - x) |-> s[i + x - 1]]
  OBVIOUS
<1>6. b + 1 \in Int /\ e \in Int /\ 1 + e - (b + 1) = MacLen
  BY <1>0, <1>1
<1>7. Chunk(s, n) = [j \in 1 .. MacLen |-> s[j + (b + 1) - 1]]
  BY <1>4, <1>5, <1>6
<1>8. \A j \in 1 .. MacLen : j + (b + 1) - 1 = b + j
  BY <1>0, <1>1
<1>9. Chunk(s, n) = [j \in 1 .. MacLen |-> s[b + j]]
  BY <1>7, <1>8
<1> QED
  BY <1>3, <1>9 DEF b

\* What chunk n is combined with, after the hidden chunks f.
Mask(f, secret, ra, n) == MD5(<< secret >> \o (IF n = 0 THEN ra ELSE f[n - 1]))

\* f is the list of the chunks of text, hidden.
HiddenIn(f, q, text, secret, ra) ==
    f = [n \in 0 .. q |->
            Xor(Plain(Chunk(text, n)), MD5(<< secret >> \o IF n = 0 THEN ra ELSE f[n - 1]))]

\* There is such a list, of any length.
LEMMA HiddenExists ==
    ASSUME NEW q \in Nat, NEW text, NEW secret, NEW ra
    PROVE  \E f : HiddenIn(f, q, text, secret, ra)
<1> DEFINE Next1(n, t) == Xor(Plain(Chunk(text, n)), MD5(<< secret >> \o t))
           T == {n \in Nat : \E f : HiddenIn(f, n, text, secret, ra)}
<1>0. ASSUME NEW n \in Nat, NEW f
      PROVE  HiddenIn(f, n, text, secret, ra) <=>
               f = [m \in 0 .. n |-> Next1(m, IF m = 0 THEN ra ELSE f[m - 1])]
  BY DEF HiddenIn
<1> HIDE DEF Next1
<1>1. 0 \in T
  <2> DEFINE f == [n \in 0 .. 0 |-> Next1(0, ra)]
  <2>1. f = [m \in 0 .. 0 |-> Next1(m, IF m = 0 THEN ra ELSE f[m - 1])]
    OBVIOUS
  <2> HIDE DEF f
  <2> QED
    BY <1>0, <2>1
<1>2. ASSUME NEW n \in T PROVE n + 1 \in T
  <2>1. PICK f : HiddenIn(f, n, text, secret, ra)
    OBVIOUS
  <2> DEFINE g == [m \in 0 .. n + 1 |-> IF m = n + 1 THEN Next1(m, f[n]) ELSE f[m]]
  <2>2. \A m \in 0 .. n : f[m] = Next1(m, IF m = 0 THEN ra ELSE f[m - 1])
    <3>1. f = [m \in 0 .. n |-> Next1(m, IF m = 0 THEN ra ELSE f[m - 1])]
      BY <1>0, <2>1
    <3> QED
      BY <3>1
  <2>3. ASSUME NEW m \in 0 .. n + 1
        PROVE  g[m] = Next1(m, IF m = 0 THEN ra ELSE g[m - 1])
    <3>1. CASE m = n + 1
      <4>1. m # 0 /\ m - 1 = n /\ n \in 0 .. n + 1 /\ n # n + 1
        BY <3>1
      <4> QED
        BY <3>1, <4>1
    <3>2. CASE m \in 0 .. n
      <4>1. m # n + 1 /\ g[m] = f[m]
        BY <3>2
      <4>2. m # 0 => m - 1 \in 0 .. n + 1 /\ m - 1 # n + 1 /\ g[m - 1] = f[m - 1]
        BY <3>2
      <4> HIDE DEF g
      <4> QED
        BY <2>2, <3>2, <4>1, <4>2
    <3> QED
      BY <3>1, <3>2
  <2>4. g = [m \in 0 .. n + 1 |-> g[m]]
    OBVIOUS
  <2>5. n + 1 \in Nat
    OBVIOUS
  <2> HIDE DEF g
  <2>6. g = [m \in 0 .. n + 1 |-> Next1(m, IF m = 0 THEN ra ELSE g[m - 1])]
    BY <2>3, <2>4
  <2>7. HiddenIn(g, n + 1, text, secret, ra)
    BY <1>0, <2>5, <2>6
  <2> QED
    BY <2>5, <2>7
<1>3. T \in SUBSET Nat
  OBVIOUS
<1>4. T = Nat
  <2> HIDE DEF T
  <2> QED
    BY <1>1, <1>2, <1>3, NatSetInduction
<1> QED
  BY <1>4

\* Every chunk that is hidden is a whole one.
LEMMA HiddenChunks ==
    ASSUME NEW S, NEW text \in Seq(S), NEW q \in Nat, Len(text) = q * MacLen,
           NEW secret, NEW ra, NEW f, HiddenIn(f, q, text, secret, ra), NEW n \in 0 .. q - 1
    PROVE  f[n] = [j \in 1 .. MacLen |-> f[n][j]]
<1> DEFINE plain == Plain(Chunk(text, n))
           mask  == Mask(f, secret, ra, n)
<1>1. Chunk(text, n) = [j \in 1 .. MacLen |-> text[n * MacLen + j]]
  BY ChunkOctets
<1>2. DOMAIN plain = 1 .. MacLen
  BY <1>1 DEF Plain
<1>3. f[n] = Xor(plain, mask)
  <2>1. n \in 0 .. q
    OBVIOUS
  <2> QED
    BY <2>1 DEF HiddenIn, Mask
<1> HIDE DEF plain, mask
<1>4. Xor(plain, mask) = [j \in 1 .. MacLen |-> Xor(plain, mask)[j]]
  BY <1>2 DEF Xor
<1> QED
  BY <1>3, <1>4

\* A hidden password is its hidden chunks, one after the other.
LEMMA EncryptChunks ==
    ASSUME NEW S, NEW s \in Seq(S), NEW secret, NEW ra
    PROVE  LET q == Chunks(s)
               c == encryptPassword(s, secret, ra)
           IN  \E f : /\ HiddenIn(f, q, Padded(s), secret, ra)
                      /\ Len(c) = q * MacLen /\ Len(c) \div MacLen = q
                      /\ DOMAIN c = 1 .. q * MacLen
                      /\ \A n \in 0 .. q - 1 : Chunk(c, n) = f[n]
                      /\ \A n \in 0 .. q - 1 : \A j \in 1 .. MacLen : c[n * MacLen + j] = f[n][j]
<1> DEFINE q  == Chunks(s)
           c  == encryptPassword(s, secret, ra)
           f  == CHOOSE g : HiddenIn(g, q, Padded(s), secret, ra)
           cs == [n \in 1 .. q |-> f[n - 1]]
<1>0. MacLen \in Nat \ {0}
  BY MacLenAssumption
<1>1. q \in Nat /\ Padded(s) \in Seq(S \cup {0}) /\ Len(Padded(s)) = q * MacLen
  BY PaddedString
<1>2. c = FlattenSeq(cs)
  BY DEF encryptPassword, Padded, Chunks, HiddenIn
<1>3. HiddenIn(f, q, Padded(s), secret, ra)
  <2> HIDE DEF q
  <2> QED
    BY <1>1, HiddenExists
<1> HIDE DEF f, q, c
<1>4. \A n \in 0 .. q - 1 : f[n] = [j \in 1 .. MacLen |-> f[n][j]]
  BY <1>1, <1>3, HiddenChunks
<1>5. \A n \in 1 .. q : n - 1 \in 0 .. q - 1
  BY <1>1
<1>6. WholeChunks(cs, q) /\ cs = [n \in 1 .. q |-> cs[n]]
  BY <1>4, <1>5 DEF WholeChunks
<1>7. \A n \in 0 .. q - 1 : n + 1 \in 1 .. q /\ cs[n + 1] = f[n]
  BY <1>1
<1> HIDE DEF cs
<1>8. c = [j \in 1 .. q * MacLen |-> Octet(cs, j)]
  BY <1>1, <1>2, <1>6, FlattenChunks
<1>9. q * MacLen \in Nat /\ (q * MacLen) \div MacLen = q
  <2>1. 0 \in 0 .. MacLen - 1
    BY <1>0
  <2>2. q * MacLen + 0 \in Nat /\ (q * MacLen + 0) \div MacLen = q
    BY <1>1, <2>1, OffsetOf
  <2>3. q * MacLen + 0 = q * MacLen
    BY <1>0, <1>1
  <2> QED
    BY <2>2, <2>3
<1> DEFINE R == {Octet(cs, j) : j \in 1 .. q * MacLen}
<1>10. c \in Seq(R) /\ Len(c) = q * MacLen /\ DOMAIN c = 1 .. q * MacLen
  <2>1. c \in [1 .. q * MacLen -> R]
    BY <1>8
  <2> HIDE DEF R
  <2> QED
    BY <1>9, <2>1
<1> HIDE DEF R
<1>11. ASSUME NEW n \in 0 .. q - 1, NEW j \in 1 .. MacLen PROVE c[n * MacLen + j] = f[n][j]
  <2> DEFINE i == n * MacLen + j
  <2>1. i \in 1 .. q * MacLen
    BY <1>1, <1>10, ChunkOctets
  <2>2. j - 1 \in 0 .. MacLen - 1 /\ n \in Nat /\ i - 1 = n * MacLen + (j - 1)
    BY <1>0, <1>1
  <2> HIDE DEF i
  <2>3. (i - 1) \div MacLen = n /\ (i - 1) % MacLen = j - 1
    BY <2>2, OffsetOf
  <2>4. Octet(cs, i) = cs[n + 1][j]
    BY <2>2, <2>3 DEF Octet
  <2>5. c[i] = f[n][j]
    BY <1>7, <1>8, <2>1, <2>4
  <2> QED
    BY <2>5 DEF i
<1>12. ASSUME NEW n \in 0 .. q - 1 PROVE Chunk(c, n) = f[n]
  <2>1. Chunk(c, n) = [j \in 1 .. MacLen |-> c[n * MacLen + j]]
    BY <1>1, <1>10, ChunkOctets
  <2>2. \A j \in 1 .. MacLen : c[n * MacLen + j] = f[n][j]
    BY <1>11
  <2>3. f[n] = [j \in 1 .. MacLen |-> f[n][j]]
    BY <1>4
  <2> QED
    BY <2>1, <2>2, <2>3
<1> QED
  BY <1>3, <1>9, <1>10, <1>11, <1>12 DEF q, c

\* Taking the masks off gives the padded password.
LEMMA RevealedText ==
    ASSUME NEW S, NEW s \in Seq(S), NEW secret, NEW ra
    PROVE  LET n == Chunks(s) * MacLen
           IN  /\ n \in Nat
               /\ Revealed(encryptPassword(s, secret, ra), secret, ra)
                     = [j \in 1 .. n |-> {<< 0, Padded(s)[j] >>}]
<1> DEFINE q == Chunks(s)
           c == encryptPassword(s, secret, ra)
           x == Revealed(c, secret, ra)
           t == Padded(s)
<1>0. MacLen \in Nat \ {0}
  BY MacLenAssumption
<1>1. q \in Nat /\ t \in Seq(S \cup {0}) /\ Len(t) = q * MacLen
  BY PaddedString
<1>2. PICK f : /\ HiddenIn(f, q, t, secret, ra)
               /\ Len(c) \div MacLen = q
               /\ \A n \in 0 .. q - 1 : Chunk(c, n) = f[n]
  BY EncryptChunks
<1> HIDE DEF q, c, t
<1>11. ASSUME NEW m \in 0 .. q - 1
       PROVE  /\ f[m] = Xor(Plain(Chunk(t, m)), Mask(f, secret, ra, m))
              /\ Plain(Chunk(t, m)) = [j \in 1 .. MacLen |-> {<< 0, t[m * MacLen + j] >>}]
  <2>1. HiddenIn(f, q, t, secret, ra)
    BY <1>2
  <2>2. f[m] = Xor(Plain(Chunk(t, m)), Mask(f, secret, ra, m))
    <3>1. m \in 0 .. q
      BY <1>1
    <3> QED
      BY <2>1, <3>1 DEF HiddenIn, Mask
  <2>3. Chunk(t, m) = [j \in 1 .. MacLen |-> t[m * MacLen + j]]
    BY <1>1, ChunkOctets
  <2>4. Plain(Chunk(t, m)) = [j \in 1 .. MacLen |-> {<< 0, t[m * MacLen + j] >>}]
    BY <2>3 DEF Plain
  <2> QED
    BY <2>2, <2>4
<1> DEFINE ds == [n \in 1 .. q |-> Xor(Chunk(c, n - 1),
                      MD5(<< secret >> \o IF n = 1 THEN ra ELSE Chunk(c, n - 2)))]
<1>3. x = FlattenSeq(ds)
  BY <1>2 DEF Revealed
<1>4. ASSUME NEW n \in 1 .. q
      PROVE  ds[n] = [j \in 1 .. MacLen |-> {<< 0, t[(n - 1) * MacLen + j] >>}]
  <2> DEFINE m == n - 1
             plain == Plain(Chunk(t, m))
             mask == Mask(f, secret, ra, m)
  <2>1. m \in 0 .. q - 1 /\ (m = 0 <=> n = 1) /\ (m # 0 => n - 2 = m - 1 /\ m - 1 \in 0 .. q - 1)
    BY <1>1
  <2>2. ds[n] = Xor(Chunk(c, m), MD5(<< secret >> \o IF n = 1 THEN ra ELSE Chunk(c, n - 2)))
    OBVIOUS
  <2> HIDE DEF ds, m
  <2>3. ds[n] = Xor(f[m], mask)
    <3>1. Chunk(c, m) = f[m]
      BY <1>2, <2>1
    <3>2. CASE m = 0
      BY <2>1, <2>2, <3>1, <3>2 DEF Mask
    <3>3. CASE m # 0
      <4>1. Chunk(c, n - 2) = f[m - 1] /\ n # 1
        BY <1>2, <2>1, <3>3
      <4> QED
        BY <2>2, <3>1, <3>3, <4>1 DEF Mask
    <3> QED
      BY <3>2, <3>3
  <2>4. /\ f[m] = Xor(plain, mask)
        /\ plain = [j \in 1 .. MacLen |-> {<< 0, t[m * MacLen + j] >>}]
    BY <1>11, <2>1
  <2> HIDE DEF plain, mask
  <2>5. plain = [j \in 1 .. MacLen |-> plain[j]]
    BY <2>4
  <2>6. Xor(Xor(plain, mask), mask) = plain
    BY <1>0, <2>5, XorTwice
  <2>7. ds[n] = [j \in 1 .. MacLen |-> {<< 0, t[m * MacLen + j] >>}]
    BY <2>3, <2>4, <2>6
  <2> QED
    BY <2>7 DEF m
<1>5. ds = [n \in 1 .. q |-> ds[n]]
  OBVIOUS
<1> HIDE DEF ds, x
<1>6. WholeChunks(ds, q)
  <2>1. ASSUME NEW n \in 1 .. q PROVE ds[n] = [j \in 1 .. MacLen |-> ds[n][j]]
    <3> DEFINE e == [j \in 1 .. MacLen |-> {<< 0, t[(n - 1) * MacLen + j] >>}]
    <3>1. e = [j \in 1 .. MacLen |-> e[j]]
      OBVIOUS
    <3>2. ds[n] = e
      BY <1>4
    <3> HIDE DEF e
    <3> QED
      BY <3>1, <3>2
  <2> QED
    BY <2>1 DEF WholeChunks
<1>7. x = [j \in 1 .. q * MacLen |-> Octet(ds, j)]
  BY <1>1, <1>3, <1>5, <1>6, FlattenChunks
<1>8. ASSUME NEW j \in 1 .. q * MacLen PROVE Octet(ds, j) = {<< 0, t[j] >>}
  <2> DEFINE a == j - 1
             m == a \div MacLen
             r == a % MacLen
  <2>1. a \in Nat /\ q * MacLen \in Nat
    BY <1>0, <1>1
  <2>2. m \in Nat /\ r \in 0 .. MacLen - 1 /\ a = MacLen * m + r
    <3> HIDE DEF a
    <3> QED
      BY <2>1, Offsets
  <2> HIDE DEF m, r
  <2>3. m + 1 \in 1 .. q /\ (m + 1) - 1 = m
    <3>1. MacLen * m < q * MacLen
      BY <1>0, <1>1, <2>2
    <3>2. m < q
      <4>1. \A u, v \in Nat : u <= v => MacLen * u <= MacLen * v
        BY <1>0
      <4>2. q * MacLen = MacLen * q
        BY <1>0, <1>1
      <4> QED
        BY <1>0, <1>1, <2>2, <3>1, <4>1, <4>2
    <3> QED
      BY <1>1, <2>2, <3>2
  <2>4. r + 1 \in 1 .. MacLen /\ m * MacLen + (r + 1) = j
    <3>1. m * MacLen = MacLen * m /\ MacLen * m \in Nat
      BY <1>0, <2>2
    <3> QED
      BY <1>0, <2>2, <3>1
  <2>5. ds[m + 1][r + 1] = {<< 0, t[m * MacLen + (r + 1)] >>}
    BY <1>4, <2>3, <2>4, ZenonT(40)
  <2> QED
    BY <2>4, <2>5 DEF Octet, a, m, r
<1>9. q * MacLen \in Nat
  BY <1>0, <1>1
<1>10. x = [j \in 1 .. q * MacLen |-> {<< 0, t[j] >>}]
  BY <1>7, <1>8
<1> QED
  BY <1>9, <1>10 DEF q, x, c, t

\* The stand-in for a request authenticator is a sequence.
LEMMA RaSequence ==
    \A s : (<< s >> \o Plain([i \in 1 .. MacLen |-> 9]))[1] = s
<1>1. MacLen \in Nat
  BY MacLenAssumption
<1>2. [i \in 1 .. MacLen |-> 9] \in Seq({9})
  BY <1>1
<1>3. PICK T : Plain([i \in 1 .. MacLen |-> 9]) \in Seq(T)
  BY <1>2, PlainSequence
<1> TAKE s
<1> DEFINE ra == Plain([i \in 1 .. MacLen |-> 9])
<1>4. << s >> \in Seq(T \cup {s}) /\ ra \in Seq(T \cup {s}) /\ Len(<< s >>) = 1 /\ << s >>[1] = s
  BY <1>3
<1> HIDE DEF ra
<1>5. (<< s >> \o ra)[1] = << s >>[1]
  BY <1>4, ConcatProperties
<1> QED
  BY <1>4, <1>5 DEF ra

\* The first octet of a hidden password holds the sum of the secret, and still
\* does when the mask of another secret is taken off.
LEMMA HiddenIllegible ==
    ASSUME NEW S, NEW s \in Seq(S), s # << >>, NEW secret, NEW ra
    PROVE  LET c == encryptPassword(s, secret, ra)
           IN  /\ ~ Legible(c)
               /\ \A other : << other >> \o ra # << secret >> \o ra =>
                     ~ Legible(Chunk(Revealed(c, other, ra), 0))
<1> DEFINE q == Chunks(s)
           c == encryptPassword(s, secret, ra)
           t == Padded(s)
           key  == << secret >> \o ra
           term == << 1, 1, key >>
<1>0. MacLen \in Nat \ {0} /\ 1 \in 1 .. MacLen /\ 0 * MacLen + 1 = 1
  BY MacLenAssumption
<1>1. q \in Nat /\ 0 \in 0 .. q - 1 /\ t \in Seq(S \cup {0}) /\ Len(t) = q * MacLen
  BY PaddedString
<1>2. PICK f : /\ HiddenIn(f, q, t, secret, ra)
               /\ Len(c) = q * MacLen /\ Len(c) \div MacLen = q
               /\ DOMAIN c = 1 .. q * MacLen
               /\ \A n \in 0 .. q - 1 : Chunk(c, n) = f[n]
               /\ \A n \in 0 .. q - 1 : \A j \in 1 .. MacLen : c[n * MacLen + j] = f[n][j]
  BY EncryptChunks
<1> HIDE DEF q, c, t, key, term
<1>3. \A n \in 0 .. q - 1 : f[n] = [j \in 1 .. MacLen |-> f[n][j]]
  BY <1>1, <1>2, HiddenChunks
<1>4. c[1] = f[0][1]
  <2>1. \A j \in 1 .. MacLen : c[0 * MacLen + j] = f[0][j]
    BY <1>1, <1>2
  <2>2. c[0 * MacLen + 1] = f[0][1]
    BY <1>0, <2>1
  <2> QED
    BY <1>0, <2>2
<1>5. term \in c[1]
  <2> DEFINE plain == Plain(Chunk(t, 0))
  <2>1. Chunk(t, 0) = [j \in 1 .. MacLen |-> t[0 * MacLen + j]]
    BY <1>1, ChunkOctets
  <2>2. 1 \in DOMAIN plain /\ plain[1] = {<< 0, t[1] >>}
    BY <1>0, <2>1 DEF Plain
  <2> HIDE DEF plain
  <2>3. f[0] = Xor(plain, MD5(key))
    <3>1. 0 \in 0 .. q
      BY <1>1
    <3> QED
      BY <1>2, <3>1 DEF HiddenIn, plain, key
  <2>4. MD5(key)[1] = {term}
    BY <1>0 DEF MD5, term
  <2>5. term # << 0, t[1] >>
    BY DEF term
  <2> QED
    BY <1>4, <2>2, <2>3, <2>4, <2>5 DEF Xor
<1>6. 1 \in DOMAIN c
  <2>1. 0 * MacLen + 1 \in 1 .. Len(t)
    BY <1>0, <1>1, ChunkOctets
  <2> QED
    BY <1>0, <1>1, <1>2, <2>1
<1>7. ~ Legible(c)
  BY <1>5, <1>6, SumIsIllegible DEF term
<1>8. ASSUME NEW other, << other >> \o ra # key
      PROVE  ~ Legible(Chunk(Revealed(c, other, ra), 0))
  <2> DEFINE y  == Revealed(c, other, ra)
             ds == [n \in 1 .. q |-> Xor(Chunk(c, n - 1),
                      MD5(<< other >> \o IF n = 1 THEN ra ELSE Chunk(c, n - 2)))]
             wrong == << other >> \o ra
             mask == << 1, 1, wrong >>
  <2>1. y = FlattenSeq(ds)
    BY <1>2 DEF Revealed
  <2>2. ASSUME NEW n \in 1 .. q PROVE ds[n] = [j \in 1 .. MacLen |-> ds[n][j]]
    <3> DEFINE m == MD5(<< other >> \o IF n = 1 THEN ra ELSE Chunk(c, n - 2))
    <3>1. n - 1 \in 0 .. q - 1
      BY <1>1
    <3>2. ds[n] = Xor(f[n - 1], m)
      BY <1>2, <3>1
    <3> HIDE DEF m, ds
    <3>3. DOMAIN f[n - 1] = 1 .. MacLen
      BY <1>3, <3>1
    <3> QED
      BY <3>2, <3>3 DEF Xor
  <2>3. ds = [n \in 1 .. q |-> ds[n]]
    OBVIOUS
  <2>4. ds[1] = Xor(f[0], MD5(wrong))
    <3>1. 1 \in 1 .. q /\ 1 - 1 = 0
      BY <1>1
    <3> QED
      BY <1>1, <1>2, <3>1
  <2> HIDE DEF ds, y, wrong
  <2>5. y = [j \in 1 .. q * MacLen |-> Octet(ds, j)]
    BY <1>1, <2>1, <2>2, <2>3, FlattenChunks DEF WholeChunks
  <2>6. y[1] = ds[1][1]
    <3>1. 1 \in 1 .. q * MacLen
      BY <1>2, <1>6
    <3>2. 1 - 1 = 0 /\ 0 + 1 = 1 /\ 0 \in Nat
      OBVIOUS
    <3>3. 0 \div MacLen = 0 /\ 0 % MacLen = 0
      BY <3>2, Offsets
    <3> QED
      BY <2>5, <3>1, <3>2, <3>3 DEF Octet
  <2> DEFINE R == {Octet(ds, j) : j \in 1 .. q * MacLen}
  <2>7. y \in Seq(R) /\ Len(y) = q * MacLen
    <3>1. y \in [1 .. q * MacLen -> R] /\ q * MacLen \in Nat
      BY <1>0, <1>1, <2>5
    <3> HIDE DEF R
    <3> QED
      BY <3>1
  <2> HIDE DEF R
  <2>8. Chunk(y, 0) = [j \in 1 .. MacLen |-> y[0 * MacLen + j]]
    BY <1>1, <2>7, ChunkOctets
  <2>9. 1 \in DOMAIN Chunk(y, 0) /\ Chunk(y, 0)[1] = ds[1][1]
    BY <1>0, <2>6, <2>8
  <2>10. term \in f[0][1] /\ 1 \in DOMAIN f[0]
    BY <1>0, <1>1, <1>3, <1>4, <1>5
  <2>11. MD5(wrong)[1] = {mask}
    BY <1>0 DEF MD5
  <2>12. term # mask
    <3>1. key # wrong => << 1, 1, key >> # << 1, 1, wrong >>
      OBVIOUS
    <3> QED
      BY <1>8, <3>1 DEF term, wrong
  <2> HIDE DEF mask
  <2>13. term \in ds[1][1]
    BY <2>4, <2>10, <2>11, <2>12 DEF Xor
  <2>14. term \in Chunk(y, 0)[1]
    BY <2>9, <2>13
  <2>15. ~ Legible(Chunk(y, 0))
    BY <2>9, <2>14, SumIsIllegible DEF term
  <2> QED
    BY <2>15 DEF y
<1> QED
  BY <1>7, <1>8 DEF c, key

\* Strings go on with octets only.
LettersAreOctets ==
    \A k \in DOMAIN MaxLen : \A s \in Seq(0 .. Octets - 1) : Letters(k, s) \subseteq 0 .. Octets - 1

OctetString == kind \in DOMAIN MaxLen /\ octets \in Seq(0 .. Octets - 1)

\* So they are strings of octets.
THEOREM OctetTheorem == ASSUME LettersAreOctets PROVE WireSpec => []OctetString
<1>1. WireInit => OctetString
  BY DEF WireInit, OctetString
<1>2. ASSUME OctetString, Grow PROVE OctetString'
  BY <1>2, AppendProperties DEF OctetString, Grow, LettersAreOctets
<1>3. ASSUME OctetString, UNCHANGED wireVars PROVE OctetString'
  BY <1>3 DEF OctetString, wireVars
<1> QED
  BY <1>1, <1>2, <1>3, PTL DEF WireSpec

\* Whoever holds the secret gets the password back, with fewer zeros behind it than
\* a chunk has, and whoever does not reads nothing of it, however long it is.
THEOREM PasswordTheorem == ASSUME LettersAreOctets PROVE WireSpec => []PasswordHidden
<1> DEFINE ra == Plain([i \in 1 .. MacLen |-> 9])
           c  == encryptPassword(octets, "secret", ra)
           x  == Revealed(c, "secret", ra)
           Q  == 0 .. Octets - 1
           t  == Padded(octets)
           n  == Chunks(octets) * MacLen
<1>0. MacLen \in Nat \ {0} /\ 0 \in Q
  BY MacLenAssumption, OctetsAssumption
<1>1. ASSUME OctetString PROVE Legible(x) /\ IsPrefix(octets, Text(x)) /\ Len(x) < Len(octets) + MacLen
  <2>1. octets \in Seq(Q)
    BY <1>1 DEF OctetString
  <2>2. n \in Nat /\ x = [j \in 1 .. n |-> {<< 0, t[j] >>}]
    BY <2>1, RevealedText, ZenonT(40)
  <2>3. /\ Len(octets) <= n /\ n < Len(octets) + MacLen
        /\ t \in Seq(Q \cup {0}) /\ Len(t) = n
        /\ \A i \in 1 .. Len(octets) : t[i] = octets[i]
    BY <2>1, PaddedString
  <2> HIDE DEF ra, c, x, t, n
  <2>4. \A j \in 1 .. n : t[j] \in Q
    BY <1>0, <2>3
  <2>5. DOMAIN x = 1 .. n /\ \A j \in 1 .. n : x[j] = {<< 0, t[j] >>}
    BY <2>2
  <2>6. Legible(x)
    BY <2>4, <2>5 DEF Legible
  <2>7. Len(x) = n
    BY <2>2
  <2>8. ASSUME NEW j \in 1 .. n PROVE Text(x)[j] = t[j]
    <3>1. Text(x)[j] = CHOOSE b \in Q : x[j] = {<< 0, b >>}
      BY <2>5 DEF Text
    <3>2. \A b : {<< 0, t[j] >>} = {<< 0, b >>} => t[j] = b
      <4> TAKE b
      <4> DEFINE l == << 0, t[j] >>
                 r == << 0, b >>
      <4>1. {l} = {r} => l = r
        <5> HIDE DEF l, r
        <5> QED
          OBVIOUS
      <4>2. l = r => t[j] = b
        OBVIOUS
      <4> QED
        BY <4>1, <4>2
    <3>3. x[j] = {<< 0, t[j] >>} /\ t[j] \in Q
      BY <2>4, <2>5
    <3> QED
      BY <3>1, <3>2, <3>3
  <2>9. DOMAIN Text(x) = 1 .. n
    BY <2>5 DEF Text
  <2>10. Text(x) \in Seq(Q) /\ Len(Text(x)) = n
    <3> DEFINE u == Text(x)
    <3>1. u = [j \in 1 .. n |-> u[j]]
      BY <2>5 DEF Text
    <3>2. \A j \in 1 .. n : u[j] \in Q
      BY <2>4, <2>8
    <3> HIDE DEF u, Q
    <3>3. u \in [1 .. n -> Q]
      BY <3>1, <3>2
    <3>4. u \in Seq(Q) /\ Len(u) = n
      BY <2>2, <3>3
    <3> QED
      BY <3>4 DEF u
  <2>11. IsPrefix(octets, Text(x))
    <3> DEFINE u == Text(x)
               k == Len(octets)
    <3>1. k \in Nat /\ k <= n /\ \A i \in 1 .. k : i \in 1 .. n /\ u[i] = octets[i]
      BY <2>1, <2>2, <2>3, <2>8
    <3> HIDE DEF u
    <3>2. \A s : SubSeq(s, 1, k) = [i \in 1 .. (1 + k - 1) |-> s[i + 1 - 1]]
      BY <3>1
    <3>3. SubSeq(octets, 1, k) = SubSeq(u, 1, k)
      <4>1. \A s : SubSeq(s, 1, k) = [i \in 1 .. k |-> s[i]]
        BY <3>1, <3>2
      <4> QED
        BY <3>1, <4>1
    <3> QED
      BY <2>10, <3>1, <3>3 DEF IsPrefix, u
  <2> QED
    BY <2>3, <2>6, <2>7, <2>11
<1>2. ASSUME OctetString, octets # << >>
      PROVE  ~ Legible(c) /\ ~ Legible(Chunk(Revealed(c, "mistyped", ra), 0))
  <2>1. octets \in Seq(Q)
    BY <1>2 DEF OctetString
  <2> HIDE DEF ra
  <2>2. << "mistyped" >> \o ra # << "secret" >> \o ra
    <3>1. \A s \in {"mistyped", "secret"} : (<< s >> \o ra)[1] = s
      BY RaSequence DEF ra
    <3> QED
      BY <3>1
  <2> QED
    BY <1>2, <2>1, <2>2, HiddenIllegible
<1>3. OctetString => PasswordHidden
  BY <1>1, <1>2 DEF PasswordHidden
<1> QED
  BY <1>3, OctetTheorem, PTL

-----------------------------------------------------------------------------
(* TACACS+ bodies: numbers, and strings behind their lengths. *)

\* Two adjacent slices.
LEMMA SlicesAdjoin ==
    ASSUME NEW S, NEW s \in Seq(S), NEW h \in Nat, NEW i \in Nat, NEW j \in Nat,
           h <= i, i <= j, j <= Len(s)
    PROVE  Slice(s, h, i) \o Slice(s, i, j) = Slice(s, h, j)
<1> DEFINE x == Slice(s, h, i)
           y == Slice(s, i, j)
           z == Slice(s, h, j)
<1>0. Len(s) \in Nat /\ i <= Len(s) /\ h <= j
  OBVIOUS
<1>1. /\ x = [k \in 1 .. i - h |-> s[h + k]]
      /\ y = [k \in 1 .. j - i |-> s[i + k]]
      /\ z = [k \in 1 .. j - h |-> s[h + k]]
  BY <1>0, SubSeqBy DEF Slice
<1>2. /\ x \in Seq(S) /\ y \in Seq(S) /\ z \in Seq(S)
      /\ Len(x) = i - h /\ Len(y) = j - i /\ Len(z) = j - h
  BY <1>0, SliceOctets, ZenonT(40)
<1> HIDE DEF x, y, z
<1>3. /\ x \o y \in Seq(S) /\ Len(x \o y) = j - h
      /\ \A k \in 1 .. Len(x) : (x \o y)[k] = x[k]
      /\ \A k \in 1 .. Len(y) : (x \o y)[Len(x) + k] = y[k]
  <2>1. x \in Seq(S) /\ y \in Seq(S)
    BY <1>2
  <2>2. /\ x \o y \in Seq(S) /\ Len(x \o y) = Len(x) + Len(y)
        /\ \A k \in 1 .. Len(x) : (x \o y)[k] = x[k]
        /\ \A k \in 1 .. Len(y) : (x \o y)[Len(x) + k] = y[k]
    BY <2>1, Behind
  <2> QED
    BY <1>0, <1>2, <2>2, SMTT(30)
<1>4. ASSUME NEW k \in 1 .. j - h PROVE (x \o y)[k] = z[k]
  <2>1. CASE k <= i - h
    <3>1. k \in 1 .. Len(x) /\ k \in 1 .. i - h
      BY <1>2, <2>1
    <3> QED
      BY <1>1, <1>3, <3>1
  <2>2. CASE ~ (k <= i - h)
    <3> DEFINE m == k - (i - h)
    <3>1. m \in 1 .. Len(y) /\ m \in 1 .. j - i /\ Len(x) + m = k /\ i + m = h + k
      BY <1>2, <2>2
    <3> HIDE DEF m
    <3>2. (x \o y)[Len(x) + m] = y[m]
      BY <1>3, <3>1
    <3>3. y[m] = s[i + m] /\ z[k] = s[h + k]
      BY <1>1, <3>1
    <3> QED
      BY <3>1, <3>2, <3>3
  <2> QED
    BY <2>1, <2>2
<1>5. x \o y = z
  <2> DEFINE w == x \o y
  <2>1. w \in Seq(S) /\ Len(w) = j - h /\ \A k \in 1 .. j - h : w[k] = z[k]
    BY <1>3, <1>4
  <2> HIDE DEF w
  <2>2. w = [k \in 1 .. j - h |-> w[k]] /\ z = [k \in 1 .. j - h |-> z[k]]
    BY <1>1, <2>1
  <2>3. w = z
    BY <2>1, <2>2
  <2> QED
    BY <2>3 DEF w
<1> QED
  BY <1>5 DEF x, y, z

\* Two functions that begin alike and go on alike are alike up to n.
LEMMA SameUpTo ==
    ASSUME NEW n \in Nat, NEW f, NEW g, f[0] = g[0],
           \A i \in 0 .. n - 1 : f[i] = g[i] => f[i + 1] = g[i + 1]
    PROVE  \A i \in 0 .. n : f[i] = g[i]
<1> DEFINE T == {i \in Nat : i <= n => f[i] = g[i]}
<1>1. 0 \in T
  OBVIOUS
<1>2. ASSUME NEW i \in T PROVE i + 1 \in T
  <2>1. i + 1 <= n => i \in 0 .. n - 1 /\ f[i] = g[i]
    OBVIOUS
  <2> QED
    BY <2>1
<1>3. T \in SUBSET Nat
  OBVIOUS
<1>4. T = Nat
  <2> HIDE DEF T
  <2> QED
    BY <1>1, <1>2, <1>3, NatSetInduction
<1> QED
  BY <1>4

\* A sum of lengths, from its end.
LEMMA SumSteps ==
    ASSUME NEW s \in Seq(Nat)
    PROVE  /\ SumTo(s, 0) = 0
           /\ \A i \in 0 .. Len(s) : SumTo(s, i) \in Nat
           /\ \A i \in 0 .. Len(s) - 1 : SumTo(s, i + 1) = SumTo(s, i) + s[i + 1]
<1> DEFINE add == [i \in Nat |-> [v \in Nat |-> IF i \in 1 .. Len(s) THEN v + s[i] ELSE v]]
<1>0. Len(s) \in Nat /\ \A i \in 1 .. Len(s) : s[i] \in Nat
  BY ElementOfSeq
<1>1. add \in [Nat -> [Nat -> Nat]] /\ 0 \in Nat
  BY <1>0
<1>2. \A i \in 1 .. Len(s) : \A v \in Nat : add[i][v] = v + s[i]
  OBVIOUS
<1> HIDE DEF add
<1>3. PICK F \in [Nat -> Nat] : Recurs(F, 0, add)
  BY <1>1, NatRecursion
<1>4. ASSUME NEW i \in 0 .. Len(s) PROVE SumTo(s, i) = F[i]
  <2> DEFINE Sums(f) == f = [n \in 0 .. i |-> IF n = 0 THEN 0 ELSE f[n - 1] + s[n]]
             f == CHOOSE f : Sums(f)
             c == [n \in 0 .. i |-> F[n]]
  <2>0. \A n \in 0 .. i - 1 : F[n + 1] = F[n] + s[n + 1]
    <3> SUFFICES ASSUME NEW n \in 0 .. i - 1 PROVE F[n + 1] = F[n] + s[n + 1]
      OBVIOUS
    <3>1. n \in Nat /\ n + 1 \in 1 .. Len(s)
      BY <1>0
    <3>2. F[n + 1] = add[n + 1][F[n]] /\ F[n] \in Nat
      BY <1>3, <3>1 DEF Recurs
    <3> QED
      BY <1>2, <3>1, <3>2
  <2>1. F[0] = 0 /\ i \in Nat
    BY <1>3 DEF Recurs
  <2>2. Sums(c)
    <3>1. ASSUME NEW n \in 0 .. i PROVE F[n] = IF n = 0 THEN 0 ELSE c[n - 1] + s[n]
      <4>1. CASE n = 0
        BY <2>1, <4>1
      <4>2. CASE n # 0
        <5>1. n - 1 \in 0 .. i - 1 /\ (n - 1) + 1 = n /\ n - 1 \in 0 .. i
          BY <4>2
        <5>2. F[(n - 1) + 1] = F[n - 1] + s[(n - 1) + 1] /\ c[n - 1] = F[n - 1]
          BY <2>0, <5>1
        <5> QED
          BY <4>2, <5>1, <5>2
      <4> QED
        BY <4>1, <4>2
    <3> QED
      BY <3>1
  <2>3. Sums(f)
    <3> HIDE DEF c, Sums
    <3> QED
      BY <2>2
  <2>4. SumTo(s, i) = f[i]
    BY DEF SumTo
  <2> HIDE DEF f
  <2>5. \A n \in 0 .. i : f[n] = IF n = 0 THEN 0 ELSE f[n - 1] + s[n]
    BY <2>3
  <2> HIDE DEF Sums
  <2>6. f[0] = F[0]
    BY <2>1, <2>5
  <2>7. ASSUME NEW n \in 0 .. i - 1, f[n] = F[n] PROVE f[n + 1] = F[n + 1]
    <3>1. n + 1 \in 0 .. i /\ n + 1 # 0 /\ (n + 1) - 1 = n
      OBVIOUS
    <3>2. f[n + 1] = f[n] + s[n + 1]
      BY <2>5, <3>1
    <3> QED
      BY <2>0, <2>7, <3>2
  <2>8. \A n \in 0 .. i : f[n] = F[n]
    BY <2>1, <2>6, <2>7, SameUpTo, ZenonT(40)
  <2> QED
    BY <2>1, <2>4, <2>8
<1>5. ASSUME NEW i \in 0 .. Len(s) - 1 PROVE SumTo(s, i + 1) = SumTo(s, i) + s[i + 1]
  <2>1. i \in Nat /\ i \in 0 .. Len(s) /\ i + 1 \in 0 .. Len(s) /\ i + 1 \in 1 .. Len(s)
    BY <1>0
  <2>2. F[i + 1] = add[i + 1][F[i]] /\ F[i] \in Nat
    BY <1>3, <2>1 DEF Recurs
  <2> QED
    BY <1>2, <1>4, <2>1, <2>2, ZenonT(40)
<1>6. 0 \in 0 .. Len(s) /\ F[0] = 0
  BY <1>0, <1>3 DEF Recurs
<1> QED
  BY <1>3, <1>4, <1>5, <1>6

\* What a shift does by one octet.
LEMMA ShiftSteps ==
    ASSUME NEW n \in Nat
    PROVE  /\ ShiftRight(n, 0) = n
           /\ \A i \in Nat : /\ ShiftRight(n, i) \in Nat
                             /\ ShiftRight(n, i + 1) = ShiftRight(n, i) \div Octets
<1> DEFINE down == [i \in Nat |-> [v \in Nat |-> v \div Octets]]
<1>0. Octets \in Nat \ {0} /\ \A v \in Nat : v \div Octets \in Nat
  BY OctetsAssumption
<1>1. down \in [Nat -> [Nat -> Nat]]
  BY <1>0
<1>2. \A i, v \in Nat : down[i][v] = v \div Octets
  OBVIOUS
<1> HIDE DEF down
<1>3. PICK F \in [Nat -> Nat] : Recurs(F, n, down)
  BY <1>1, NatRecursion
<1>4. F[0] = n /\ \A i \in Nat : F[i] \in Nat /\ F[i + 1] = F[i] \div Octets
  <2>1. F[0] = n /\ \A i \in Nat : F[i] \in Nat /\ i + 1 \in Nat /\ F[i + 1] = down[i + 1][F[i]]
    BY <1>3 DEF Recurs
  <2>2. ASSUME NEW i \in Nat PROVE F[i] \in Nat /\ F[i + 1] = F[i] \div Octets
    BY <1>2, <2>1
  <2> QED
    BY <2>1, <2>2
<1>5. ASSUME NEW i \in Nat PROVE ShiftRight(n, i) = F[i]
  <2> DEFINE Shifts(f) == f = [j \in 0 .. i |-> IF j = 0 THEN n ELSE f[j - 1] \div Octets]
             f == CHOOSE f : Shifts(f)
             c == [j \in 0 .. i |-> F[j]]
  <2>1. Shifts(c)
    <3>1. ASSUME NEW j \in 0 .. i PROVE F[j] = IF j = 0 THEN n ELSE c[j - 1] \div Octets
      <4>1. CASE j = 0
        BY <1>4, <4>1
      <4>2. CASE j # 0
        <5>1. j - 1 \in Nat /\ j - 1 \in 0 .. i /\ (j - 1) + 1 = j
          BY <4>2
        <5>2. F[(j - 1) + 1] = F[j - 1] \div Octets /\ c[j - 1] = F[j - 1]
          BY <1>4, <5>1
        <5> QED
          BY <4>2, <5>1, <5>2
      <4> QED
        BY <4>1, <4>2
    <3> QED
      BY <3>1
  <2>2. Shifts(f)
    <3> HIDE DEF c, Shifts
    <3> QED
      BY <2>1
  <2>3. ShiftRight(n, i) = f[i]
    BY DEF ShiftRight
  <2> HIDE DEF f
  <2>4. \A j \in 0 .. i : f[j] = IF j = 0 THEN n ELSE f[j - 1] \div Octets
    BY <2>2
  <2> HIDE DEF Shifts
  <2>5. f[0] = F[0]
    BY <1>4, <2>4
  <2>6. ASSUME NEW j \in 0 .. i - 1, f[j] = F[j] PROVE f[j + 1] = F[j + 1]
    <3>1. j \in Nat /\ j + 1 \in 0 .. i /\ j + 1 # 0 /\ (j + 1) - 1 = j
      OBVIOUS
    <3> QED
      BY <1>4, <2>4, <2>6, <3>1
  <2>7. \A j \in 0 .. i : f[j] = F[j]
    BY <2>5, <2>6, SameUpTo
  <2> QED
    BY <2>3, <2>7
<1> QED
  BY <1>4, <1>5

\* What a number does that is read octet by octet.
LEMMA NumberSteps ==
    ASSUME NEW s \in Seq(0 .. Octets - 1)
    PROVE  \E F \in [Nat -> Nat] :
              /\ F[0] = 0 /\ Number(s) = F[Len(s)]
              /\ \A i \in 0 .. Len(s) - 1 : F[i + 1] = F[i] * Octets + s[i + 1]
<1> DEFINE join == [i \in Nat |-> [v \in Nat |->
                      IF i \in 1 .. Len(s) THEN v * Octets + s[i] ELSE v]]
<1>0. /\ Len(s) \in Nat /\ Octets \in Nat
      /\ \A i \in 1 .. Len(s) : s[i] \in Nat
  <2>1. \A i \in 1 .. Len(s) : s[i] \in 0 .. Octets - 1
    BY ElementOfSeq
  <2> QED
    BY <2>1, OctetsAssumption
<1>1. join \in [Nat -> [Nat -> Nat]] /\ 0 \in Nat
  <2>1. \A v \in Nat : v * Octets \in Nat
    BY <1>0
  <2>2. ASSUME NEW i \in Nat, NEW v \in Nat
        PROVE  (IF i \in 1 .. Len(s) THEN v * Octets + s[i] ELSE v) \in Nat
    BY <1>0, <2>1
  <2> QED
    BY <2>2
<1>2. \A i \in 1 .. Len(s) : \A v \in Nat : join[i][v] = v * Octets + s[i]
  OBVIOUS
<1> HIDE DEF join
<1>3. PICK F \in [Nat -> Nat] : Recurs(F, 0, join)
  BY <1>1, NatRecursion
<1> DEFINE L == Len(s)
<1>4. F[0] = 0 /\ \A i \in 0 .. L - 1 : F[i + 1] = F[i] * Octets + s[i + 1]
  <2>1. ASSUME NEW i \in 0 .. L - 1 PROVE F[i + 1] = F[i] * Octets + s[i + 1]
    <3>1. i \in Nat /\ i + 1 \in 1 .. Len(s)
      BY <1>0
    <3>2. F[i + 1] = join[i + 1][F[i]] /\ F[i] \in Nat
      BY <1>3, <3>1 DEF Recurs
    <3> QED
      BY <1>2, <3>1, <3>2
  <2> QED
    BY <1>3, <2>1 DEF Recurs
<1>5. Number(s) = F[L]
  <2> DEFINE Reads(f) == f = [n \in 0 .. L |-> IF n = 0 THEN 0 ELSE f[n - 1] * Octets + s[n]]
             f == CHOOSE f : Reads(f)
             c == [n \in 0 .. L |-> F[n]]
  <2>1. Reads(c)
    <3>1. ASSUME NEW n \in 0 .. L PROVE F[n] = IF n = 0 THEN 0 ELSE c[n - 1] * Octets + s[n]
      <4>1. CASE n = 0
        BY <1>4, <4>1
      <4>2. CASE n # 0
        <5>1. n - 1 \in 0 .. L - 1 /\ n - 1 \in 0 .. L /\ (n - 1) + 1 = n
          BY <1>0, <4>2
        <5>2. F[(n - 1) + 1] = F[n - 1] * Octets + s[(n - 1) + 1] /\ c[n - 1] = F[n - 1]
          BY <1>4, <5>1
        <5> QED
          BY <4>2, <5>1, <5>2
      <4> QED
        BY <4>1, <4>2
    <3> QED
      BY <3>1
  <2>2. Reads(f)
    <3> HIDE DEF c, Reads
    <3> QED
      BY <2>1
  <2>3. Number(s) = f[L]
    BY DEF Number
  <2> HIDE DEF f
  <2>4. \A n \in 0 .. L : f[n] = IF n = 0 THEN 0 ELSE f[n - 1] * Octets + s[n]
    BY <2>2
  <2> HIDE DEF Reads
  <2>5. L \in Nat /\ 0 \in 0 .. L
    BY <1>0
  <2>6. f[0] = F[0]
    BY <1>4, <2>4, <2>5
  <2>7. ASSUME NEW n \in 0 .. L - 1, f[n] = F[n] PROVE f[n + 1] = F[n + 1]
    <3>1. n + 1 \in 0 .. L /\ n + 1 # 0 /\ (n + 1) - 1 = n
      BY <2>5
    <3>2. f[n + 1] = f[n] * Octets + s[n + 1]
      BY <2>4, <3>1
    <3> QED
      BY <1>4, <2>7, <3>2
  <2> HIDE DEF L
  <2>8. \A n \in 0 .. L : f[n] = F[n]
    BY <2>5, <2>6, <2>7, SameUpTo
  <2> QED
    BY <2>3, <2>5, <2>8
<1> QED
  BY <1>3, <1>4, <1>5

\* One octet more, and one less.
LEMMA OctetBehind ==
    ASSUME NEW a \in Nat, NEW b \in 0 .. Octets - 1
    PROVE  /\ a * Octets + b \in Nat
           /\ (a * Octets + b) \div Octets = a /\ (a * Octets + b) % Octets = b
<1>1. Octets \in Nat \ {0}
  BY OctetsAssumption
<1>2. a * Octets + b \in Nat
  BY <1>1
<1> QED
  BY <1>1, <1>2

LEMMA OctetsOf ==
    ASSUME NEW a \in Nat
    PROVE  /\ a \div Octets \in Nat /\ a % Octets \in 0 .. Octets - 1
           /\ (a \div Octets) * Octets + (a % Octets) = a
           /\ a < Octets => a \div Octets = 0 /\ a % Octets = a
           /\ a < Octets * Octets => a \div Octets < Octets
<1>1. Octets \in Nat \ {0}
  BY OctetsAssumption
<1>2. a \div Octets \in Nat /\ a % Octets \in 0 .. Octets - 1
  BY <1>1
<1>3. a = Octets * (a \div Octets) + (a % Octets)
  BY <1>1
<1> DEFINE q == a \div Octets
           r == a % Octets
<1>4. q \in Nat /\ r \in 0 .. Octets - 1 /\ a = Octets * q + r
  BY <1>2, <1>3
<1>5. Octets * q = q * Octets
  BY <1>1, <1>4
<1>6. a < Octets => a \div Octets = 0 /\ a % Octets = a
  BY <1>1
<1>7. a < Octets * Octets => q < Octets
  <2> HIDE DEF q, r
  <2> SUFFICES ASSUME a < Octets * Octets, ~ (q < Octets) PROVE FALSE
    OBVIOUS
  <2>1. Octets * q >= Octets * Octets
    BY <1>1, <1>4
  <2> QED
    BY <1>1, <1>4, <2>1
<1> QED
  BY <1>2, <1>4, <1>5, <1>6, <1>7

\* A number that was read is written as it was.
LEMMA ReadThenWritten ==
    ASSUME NEW s \in Seq(0 .. Octets - 1)
    PROVE  BigEndian(Number(s), Len(s)) = s /\ Number(s) \in Nat
<1> DEFINE L == Len(s)
<1>1. L \in Nat /\ \A i \in 1 .. L : s[i] \in 0 .. Octets - 1
  <2> DEFINE S == 0 .. Octets - 1
  <2> HIDE DEF S
  <2>1. \A r \in Seq(S) : Len(r) \in Nat /\ \A i \in 1 .. Len(r) : r[i] \in S
    BY ElementOfSeq
  <2> QED
    BY <2>1 DEF S
<1>2. PICK F \in [Nat -> Nat] :
         /\ F[0] = 0 /\ Number(s) = F[L]
         /\ \A i \in 0 .. L - 1 : F[i + 1] = F[i] * Octets + s[i + 1]
  BY NumberSteps
<1>3. ASSUME NEW i \in 1 .. L PROVE F[i] \div Octets = F[i - 1] /\ F[i] % Octets = s[i]
  <2>1. i - 1 \in 0 .. L - 1 /\ (i - 1) + 1 = i /\ i - 1 \in Nat
    BY <1>1
  <2>2. F[(i - 1) + 1] = F[i - 1] * Octets + s[(i - 1) + 1] /\ F[i - 1] \in Nat
    BY <1>2, <2>1
  <2>3. F[i] = F[i - 1] * Octets + s[i] /\ s[i] \in 0 .. Octets - 1
    BY <1>1, <2>1, <2>2
  <2> DEFINE a == F[i - 1]
             b == s[i]
  <2>4. a \in Nat /\ b \in 0 .. Octets - 1 /\ F[i] = a * Octets + b
    BY <2>2, <2>3
  <2> HIDE DEF a, b
  <2>5. F[i] \div Octets = a /\ F[i] % Octets = b
    BY <2>4, OctetBehind
  <2> QED
    BY <2>5 DEF a, b
<1> DEFINE N == F[L]
           f == [i \in Nat |-> ShiftRight(N, i)]
           g == [i \in Nat |-> F[L - i]]
<1>4. N \in Nat
  BY <1>1, <1>2
<1> HIDE DEF N
<1>5. f[0] = g[0]
  BY <1>1, <1>4, ShiftSteps DEF N
<1>6. ASSUME NEW i \in 0 .. L - 1, f[i] = g[i] PROVE f[i + 1] = g[i + 1]
  <2>1. i \in Nat /\ i + 1 \in Nat /\ L - i \in 1 .. L /\ (L - i) - 1 = L - (i + 1)
    BY <1>1
  <2>2. f[i + 1] = ShiftRight(N, i) \div Octets /\ ShiftRight(N, i) = F[L - i]
    BY <1>4, <1>6, <2>1, ShiftSteps
  <2>3. F[L - i] \div Octets = F[(L - i) - 1]
    BY <1>3, <2>1
  <2> QED
    BY <2>1, <2>2, <2>3
<1> HIDE DEF f, g, L
<1>7. \A i \in 0 .. L : f[i] = g[i]
  BY <1>1, <1>5, <1>6, SameUpTo
<1>8. ASSUME NEW i \in 1 .. L PROVE ShiftRight(N, L - i) % Octets = s[i]
  <2>1. L - i \in 0 .. L /\ L - i \in Nat /\ L - (L - i) = i
    BY <1>1
  <2>2. ShiftRight(N, L - i) = F[i]
    BY <1>7, <2>1 DEF f, g
  <2> QED
    BY <1>3, <2>2
<1>9. BigEndian(N, L) = [i \in 1 .. L |-> s[i]]
  BY <1>8 DEF BigEndian
<1>10. s = [i \in 1 .. L |-> s[i]]
  BY DEF L
<1>11. BigEndian(N, L) = s
  BY <1>9, <1>10
<1> QED
  BY <1>2, <1>4, <1>11 DEF N, L

\* A number that was written is read as it was, if it has no more octets.
LEMMA WrittenThenRead ==
    ASSUME NEW n \in Nat, NEW k \in Nat
    PROVE  /\ BigEndian(n, k) \in Seq(0 .. Octets - 1) /\ Len(BigEndian(n, k)) = k
           /\ ShiftRight(n, k) = 0 => Number(BigEndian(n, k)) = n
<1> DEFINE s == BigEndian(n, k)
           S == 0 .. Octets - 1
<1>1. \A i \in Nat : ShiftRight(n, i) \in Nat
  BY ShiftSteps
<1>2. s = [i \in 1 .. k |-> ShiftRight(n, k - i) % Octets]
  BY DEF BigEndian
<1> HIDE DEF s
<1>3. ASSUME NEW i \in 1 .. k PROVE ShiftRight(n, k - i) % Octets \in S
  <2>1. k - i \in Nat
    OBVIOUS
  <2> QED
    BY <1>1, <2>1, OctetsOf
<1>4. s \in Seq(S) /\ Len(s) = k
  <2> HIDE DEF S
  <2>1. s \in [1 .. k -> S]
    BY <1>2, <1>3
  <2> QED
    BY <2>1
<1>5. ASSUME ShiftRight(n, k) = 0 PROVE Number(s) = n
  <2>1. PICK F \in [Nat -> Nat] :
           /\ F[0] = 0 /\ Number(s) = F[Len(s)]
           /\ \A i \in 0 .. Len(s) - 1 : F[i + 1] = F[i] * Octets + s[i + 1]
    BY <1>4, NumberSteps
  <2> DEFINE g == [i \in Nat |-> ShiftRight(n, k - i)]
  <2>2. F[0] = g[0]
    BY <1>5, <2>1
  <2>3. ASSUME NEW i \in 0 .. k - 1, F[i] = g[i] PROVE F[i + 1] = g[i + 1]
    <3> DEFINE m == k - (i + 1)
               q == ShiftRight(n, m)
    <3>1. m \in Nat /\ m + 1 = k - i /\ i + 1 \in 1 .. k /\ i \in Nat /\ i + 1 \in Nat
      OBVIOUS
    <3>2. F[i] = q \div Octets /\ q \in Nat
      <4>1. ShiftRight(n, m) \in Nat /\ ShiftRight(n, m + 1) = ShiftRight(n, m) \div Octets
        <5> HIDE DEF m
        <5> QED
          BY <3>1, ShiftSteps
      <4>2. F[i] = ShiftRight(n, k - i)
        BY <2>3, <3>1
      <4> HIDE DEF m
      <4> QED
        BY <3>1, <4>1, <4>2
    <3>3. s[i + 1] = q % Octets
      BY <1>2, <3>1
    <3>4. F[i + 1] = F[i] * Octets + s[i + 1]
      BY <1>4, <2>1
    <3>5. g[i + 1] = q
      BY <3>1
    <3> HIDE DEF q, g
    <3> QED
      BY <3>2, <3>3, <3>4, <3>5, OctetsOf
  <2>4. \A i \in 0 .. k : F[i] = g[i]
    <3> HIDE DEF g
    <3> QED
      BY <2>2, <2>3, SameUpTo
  <2>5. g[k] = n
    BY ShiftSteps
  <2> QED
    BY <1>4, <2>1, <2>4, <2>5
<1> QED
  BY <1>4, <1>5 DEF s

\* So are the numbers that occur.
LEMMA NumberBack ==
    ASSUME NEW n \in Nat
    PROVE  /\ n < Octets * Octets => Number(BigEndian(n, 2)) = n
           /\ n < Octets => Number(BigEndian(n, 2)) = n /\ Number(BigEndian(n, 4)) = n
<1>1. /\ ShiftRight(n, 0) = n /\ ShiftRight(n, 1) = n \div Octets
      /\ ShiftRight(n, 2) = (n \div Octets) \div Octets
      /\ ShiftRight(n, 3) = ShiftRight(n, 2) \div Octets
      /\ ShiftRight(n, 4) = ShiftRight(n, 3) \div Octets
  <2>1. \A i \in Nat : ShiftRight(n, i + 1) = ShiftRight(n, i) \div Octets
    BY ShiftSteps
  <2>2. /\ ShiftRight(n, 0 + 1) = ShiftRight(n, 0) \div Octets
        /\ ShiftRight(n, 1 + 1) = ShiftRight(n, 1) \div Octets
        /\ ShiftRight(n, 2 + 1) = ShiftRight(n, 2) \div Octets
        /\ ShiftRight(n, 3 + 1) = ShiftRight(n, 3) \div Octets
    BY <2>1
  <2> QED
    BY <2>2, ShiftSteps
<1>2. 0 \div Octets = 0 /\ n \div Octets \in Nat
  BY OctetsAssumption, OctetsOf
<1>3. n < Octets * Octets => ShiftRight(n, 2) = 0
  <2> SUFFICES ASSUME n < Octets * Octets PROVE (n \div Octets) \div Octets = 0
    BY <1>1
  <2>1. n \div Octets \in Nat /\ n \div Octets < Octets
    BY OctetsOf
  <2> QED
    BY <2>1, OctetsOf
<1>4. n < Octets => ShiftRight(n, 2) = 0 /\ ShiftRight(n, 4) = 0
  <2> SUFFICES ASSUME n < Octets PROVE ShiftRight(n, 2) = 0 /\ ShiftRight(n, 4) = 0
    OBVIOUS
  <2>1. n \div Octets = 0
    BY OctetsOf
  <2> QED
    BY <1>1, <1>2, <2>1
<1> QED
  BY <1>3, <1>4, WrittenThenRead

\* More lengths do not have a smaller sum.
LEMMA SumGrows ==
    ASSUME NEW s \in Seq(Nat), NEW j \in 0 .. Len(s), NEW i \in 0 .. j
    PROVE  SumTo(s, i) <= SumTo(s, j)
<1> DEFINE T == {k \in Nat : i <= k /\ k <= Len(s) => SumTo(s, i) <= SumTo(s, k)}
<1>0. Len(s) \in Nat /\ i \in 0 .. Len(s) /\ i \in Nat /\ j \in Nat
  OBVIOUS
<1>1. 0 \in T
  <2>1. i <= 0 => i = 0
    BY <1>0
  <2>2. SumTo(s, 0) = 0
    BY SumSteps
  <2> QED
    BY <2>1, <2>2
<1>2. ASSUME NEW k \in T PROVE k + 1 \in T
  <2> SUFFICES ASSUME i <= k + 1, k + 1 <= Len(s) PROVE SumTo(s, i) <= SumTo(s, k + 1)
    OBVIOUS
  <2>1. k \in 0 .. Len(s) - 1 /\ k \in 0 .. Len(s) /\ k + 1 \in 1 .. Len(s) /\ k + 1 \in 0 .. Len(s)
    BY <1>0
  <2>2. SumTo(s, k + 1) = SumTo(s, k) + s[k + 1] /\ SumTo(s, k) \in Nat /\ SumTo(s, i) \in Nat
        /\ SumTo(s, k + 1) \in Nat
    BY <1>0, <2>1, SumSteps
  <2>3. s[k + 1] \in Nat
    BY <2>1, ElementOfSeq
  <2>4. i = k + 1 \/ i <= k
    BY <1>0
  <2> DEFINE a == SumTo(s, i)
             b == SumTo(s, k)
             c == SumTo(s, k + 1)
  <2>5. i <= k => a <= b
    BY <2>1
  <2>6. i = k + 1 => a = c
    OBVIOUS
  <2>7. c = b + s[k + 1] /\ a \in Nat /\ b \in Nat /\ c \in Nat
    BY <2>2
  <2> HIDE DEF a, b, c
  <2>8. a <= c
    BY <2>3, <2>4, <2>5, <2>6, <2>7
  <2> QED
    BY <2>8 DEF a, c
<1>3. T \in SUBSET Nat
  OBVIOUS
<1>4. T = Nat
  <2> HIDE DEF T
  <2> QED
    BY <1>1, <1>2, <1>3, NatSetInduction
<1>5. i <= j /\ j <= Len(s)
  BY <1>0
<1> QED
  BY <1>0, <1>4, <1>5

\* The strings behind an offset, if there are as many octets as their lengths add
\* up to, have these lengths, ...
LEMMA FieldsShape ==
    ASSUME NEW S, NEW o \in Seq(S), NEW start \in Nat, NEW lens \in Seq(Nat),
           start + SumTo(lens, Len(lens)) <= Len(o)
    PROVE  /\ Fields(o, start, lens) \in Seq(Seq(S))
           /\ Len(Fields(o, start, lens)) = Len(lens)
           /\ \A i \in 1 .. Len(lens) :
                 /\ Fields(o, start, lens)[i] =
                       Slice(o, start + SumTo(lens, i - 1), start + SumTo(lens, i))
                 /\ Fields(o, start, lens)[i] \in Seq(S)
                 /\ Len(Fields(o, start, lens)[i]) = lens[i]
<1> DEFINE f == Fields(o, start, lens)
           n == Len(lens)
<1>0. Len(lens) \in Nat /\ DOMAIN lens = 1 .. n /\ Len(o) \in Nat
  OBVIOUS
<1>1. f = [i \in 1 .. n |-> Slice(o, start + SumTo(lens, i - 1), start + SumTo(lens, i))]
  BY <1>0 DEF Fields
<1> HIDE DEF f
<1>2. ASSUME NEW i \in 1 .. n
      PROVE  f[i] \in Seq(S) /\ Len(f[i]) = lens[i]
  <2> DEFINE a == SumTo(lens, i - 1)
             b == SumTo(lens, i)
             c == SumTo(lens, n)
  <2>1. i - 1 \in 0 .. n - 1 /\ i - 1 \in 0 .. n /\ i \in 0 .. n /\ n \in 0 .. n /\ (i - 1) + 1 = i
    BY <1>0
  <2>2. a \in Nat /\ b \in Nat /\ c \in Nat /\ b = a + lens[i] /\ lens[i] \in Nat
    <3>1. SumTo(lens, (i - 1) + 1) = SumTo(lens, i - 1) + lens[(i - 1) + 1]
      BY <2>1, SumSteps
    <3>2. lens[i] \in Nat
      BY ElementOfSeq
    <3> QED
      BY <2>1, <3>1, <3>2, SumSteps
  <2>3. b <= c
    BY <2>1, SumGrows
  <2>4. f[i] = Slice(o, start + a, start + b) /\ start + c <= Len(o)
    BY <1>1
  <2> HIDE DEF a, b, c
  <2> DEFINE l == lens[i]
             m == Len(o)
  <2>t. l \in Nat /\ m \in Nat /\ b = a + l /\ start + c <= m
    BY <1>0, <2>2, <2>4
  <2> HIDE DEF l, m
  <2>5. /\ start + a \in Nat /\ start + b \in Nat /\ start + a <= start + b
        /\ start + b <= m /\ (start + b) - (start + a) = l
    BY <2>2, <2>3, <2>t, SMTT(30)
  <2> DEFINE u == start + a
             v == start + b
  <2>6. u \in Nat /\ v \in Nat /\ u <= v /\ v <= Len(o) /\ v - u = l /\ f[i] = Slice(o, u, v)
    BY <2>4, <2>5 DEF m
  <2> HIDE DEF u, v
  <2>7. f[i] \in Seq(S) /\ Len(f[i]) = v - u
    BY <2>6, SliceOctets, ZenonT(40)
  <2> QED
    BY <2>6, <2>7 DEF l
<1>3. f \in Seq(Seq(S)) /\ Len(f) = n
  <2> DEFINE Q == Seq(S)
  <2>1. \A i \in 1 .. n : f[i] \in Q
    BY <1>2
  <2> HIDE DEF Q
  <2>2. f = [i \in 1 .. n |-> f[i]]
    BY <1>1
  <2>3. f \in [1 .. n -> Q]
    BY <2>1, <2>2
  <2>4. f \in Seq(Q) /\ Len(f) = n
    BY <1>0, <2>3, SMTT(30)
  <2> QED
    BY <2>4 DEF Q
<1> QED
  BY <1>1, <1>2, <1>3 DEF f

\* ... and are all the octets there.
LEMMA FieldsJoin ==
    ASSUME NEW S, NEW o \in Seq(S), NEW start \in Nat, NEW lens \in Seq(Nat),
           start + SumTo(lens, Len(lens)) <= Len(o)
    PROVE  FlattenSeq(Fields(o, start, lens)) =
              Slice(o, start, start + SumTo(lens, Len(lens)))
<1> DEFINE f == Fields(o, start, lens)
           n == Len(lens)
           Q == Seq(S)
           sum(k) == SumTo(lens, k)
           part(k) == [i \in 1 .. k |-> f[i]]
<1>0. n \in Nat /\ Len(o) \in Nat
  OBVIOUS
<1>1. /\ f \in Seq(Q) /\ Len(f) = n
      /\ \A i \in 1 .. n : f[i] = Slice(o, start + sum(i - 1), start + sum(i)) /\ f[i] \in Q
  BY FieldsShape
<1>2. /\ sum(0) = 0 /\ \A k \in 0 .. n : sum(k) \in Nat /\ sum(k) <= sum(n)
      /\ \A k \in 0 .. n - 1 : sum(k) <= sum(k + 1)
  <2>1. \A k \in 0 .. n : SumTo(lens, k) \in Nat /\ SumTo(lens, k) <= SumTo(lens, n)
    BY <1>0, SumSteps, SumGrows
  <2>2. ASSUME NEW k \in 0 .. n - 1 PROVE SumTo(lens, k) <= SumTo(lens, k + 1)
    <3>1. k \in 0 .. k + 1 /\ k + 1 \in 0 .. n
      BY <1>0
    <3> QED
      BY <3>1, SumGrows
  <2> QED
    BY <2>1, <2>2, SumSteps
<1>3. start + sum(n) <= Len(o)
  OBVIOUS
<1> HIDE DEF f, sum, Q
<1> DEFINE T == {k \in Nat : k <= n => /\ part(k) \in Seq(Q)
                                      /\ FlattenSeq(part(k)) = Slice(o, start, start + sum(k))}
<1>4. 0 \in T
  <2>1. part(0) = << >>
    OBVIOUS
  <2>2. << >> \in Seq(Q) /\ << >> \in Seq(Seq(S)) /\ {} \in {{}}
    OBVIOUS
  <2>3. FlattenSeq(<< >>) = << >>
    BY <2>2, FlattenSeqAppend
  <2>4. Slice(o, start, start + sum(0)) = << >>
    <3>1. start + sum(0) = start /\ start \in Nat /\ start <= start /\ start <= Len(o)
      <4>1. sum(n) \in Nat
        BY <1>0, <1>2
      <4> QED
        BY <1>0, <1>2, <1>3, <4>1
    <3>2. Slice(o, start, start) \in Seq(S) /\ Len(Slice(o, start, start)) = start - start
      BY <3>1, SliceOctets
    <3> DEFINE z == Slice(o, start, start)
    <3>3. z \in Seq(S) /\ Len(z) = 0
      BY <3>1, <3>2
    <3> HIDE DEF z
    <3>4. z = << >>
      BY <3>3, EmptySeq
    <3> QED
      BY <3>1, <3>4 DEF z
  <2> QED
    BY <2>1, <2>2, <2>3, <2>4
<1>5. ASSUME NEW k \in T PROVE k + 1 \in T
  <2> SUFFICES ASSUME k + 1 <= n
               PROVE  /\ part(k + 1) \in Seq(Q)
                      /\ FlattenSeq(part(k + 1)) = Slice(o, start, start + sum(k + 1))
    OBVIOUS
  <2>1. k + 1 \in 1 .. n /\ k \in 0 .. n - 1 /\ k \in 0 .. n /\ k + 1 \in 0 .. n /\ (k + 1) - 1 = k
    BY <1>0
  <2>2. part(k) \in Seq(Q) /\ FlattenSeq(part(k)) = Slice(o, start, start + sum(k))
    BY <2>1
  <2>3. f[k + 1] \in Q /\ f[k + 1] = Slice(o, start + sum(k), start + sum(k + 1))
    <3>1. f[k + 1] = Slice(o, start + sum((k + 1) - 1), start + sum(k + 1))
      BY <1>1, <2>1
    <3> QED
      BY <1>1, <2>1, <3>1
  <2>4. part(k + 1) = Append(part(k), f[k + 1])
    <3>1. Len(part(k)) = k /\ k + 1 \in Nat
      BY <2>1
    <3> DEFINE t == Append(part(k), f[k + 1])
    <3>2. t = [i \in 1 .. k + 1 |-> IF i = k + 1 THEN f[k + 1] ELSE part(k)[i]]
      BY <2>1, <3>1
    <3>3. \A i \in 1 .. k + 1 : i = k + 1 \/ i \in 1 .. k
      BY <2>1
    <3>4. \A i \in 1 .. k : part(k)[i] = f[i]
      OBVIOUS
    <3> QED
      BY <3>2, <3>3, <3>4
  <2> DEFINE p == part(k)
             x == f[k + 1]
  <2>5. p \in Seq(Q) /\ x \in Q /\ part(k + 1) = Append(p, x)
    BY <2>2, <2>3, <2>4
  <2> HIDE DEF p, x
  <2>6. Append(p, x) \in Seq(Q) /\ FlattenSeq(Append(p, x)) = FlattenSeq(p) \o x
    BY <2>5, FlattenSeqAppend DEF Q
  <2>7. Slice(o, start, start + sum(k)) \o Slice(o, start + sum(k), start + sum(k + 1))
          = Slice(o, start, start + sum(k + 1))
    <3> DEFINE a == sum(k)
               b == sum(k + 1)
               c == sum(n)
    <3>1. a \in Nat /\ b \in Nat /\ c \in Nat /\ a <= b /\ b <= c /\ start + c <= Len(o)
      BY <1>0, <1>2, <1>3, <2>1
    <3> HIDE DEF a, b, c
    <3>2. /\ start + a \in Nat /\ start + b \in Nat /\ start <= start + a
          /\ start + a <= start + b /\ start + b <= Len(o)
      BY <1>0, <3>1
    <3>3. Slice(o, start, start + a) \o Slice(o, start + a, start + b) = Slice(o, start, start + b)
      BY <3>2, SlicesAdjoin
    <3> QED
      BY <3>3 DEF a, b
  <2> QED
    BY <2>2, <2>3, <2>5, <2>6, <2>7 DEF p, x
<1>6. T \in SUBSET Nat
  OBVIOUS
<1>7. T = Nat
  <2> HIDE DEF T
  <2> QED
    BY <1>4, <1>5, <1>6, NatSetInduction
<1>8. part(n) = f
  BY <1>1
<1>9. FlattenSeq(f) = Slice(o, start, start + sum(n))
  <2>1. n \in T /\ n <= n
    <3> HIDE DEF T
    <3> QED
      BY <1>0, <1>7
  <2>2. FlattenSeq(part(n)) = Slice(o, start, start + sum(n))
    BY <2>1
  <2> QED
    BY <1>8, <2>2
<1> QED
  BY <1>9 DEF f, sum

-----------------------------------------------------------------------------
(* Headers and STARTs. *)

\* The slice between two offsets that are numerals.
LEMMA Cut ==
    ASSUME NEW S, NEW s \in Seq(S), NEW i \in Nat, NEW j \in Nat, NEW k \in Nat,
           j = i + k, j <= Len(s)
    PROVE  Slice(s, i, j) \in Seq(S) /\ Len(Slice(s, i, j)) = k
<1>1. i <= j /\ j - i = k
  OBVIOUS
<1> QED
  BY <1>1, SliceOctets

\* A header that is accepted is encoded as it was.
LEMMA HeaderTiled ==
    ASSUME NEW o \in Seq(0 .. Octets - 1), Len(o) = HeaderLen
    PROVE  IF o[1] \div Nibble = MajorVer THEN EncodeHeader(DecodeHeader(o)) = o
                                          ELSE DecodeHeader(o) = NoHeader
<1> DEFINE S == 0 .. Octets - 1
           h == DecodeHeader(o)
           x == Slice(o, 4, 8)
           y == Slice(o, 8, 12)
           w == << o[1], o[2], o[3], o[4] >>
<1>0. Len(o) = 12 /\ ~ (Len(o) < HeaderLen)
  BY DEF HeaderLen
<1>b. \A i, j, k \in Nat : i <= j /\ j <= k /\ k <= Len(o) =>
         Slice(o, i, j) \o Slice(o, j, k) = Slice(o, i, k)
  <2> HIDE DEF S
  <2>1. o \in Seq(S)
    BY DEF S
  <2> QED
    BY <2>1, SlicesAdjoin
<1>c. Slice(o, 0, Len(o)) = o
  <2> HIDE DEF S
  <2>1. o \in Seq(S) /\ Len(o) \in Nat /\ Len(o) <= Len(o)
    BY DEF S
  <2> QED
    BY <2>1, SlicesJoin
<1>1. CASE o[1] \div Nibble # MajorVer
  BY <1>1 DEF DecodeHeader
<1>2. CASE o[1] \div Nibble = MajorVer
  <2>1. /\ h.version = o[1] /\ h.type = o[2] /\ h.seqNo = o[3] /\ h.flags = o[4]
        /\ h.sessionID = Number(x) /\ h.length = Number(y)
    BY <1>0, <1>2 DEF DecodeHeader
  <2> HIDE DEF h
  <2>2. o \in Seq(S) /\ 0 \in Nat /\ 4 \in Nat /\ 8 \in Nat /\ 12 \in Nat
    OBVIOUS
  <2> HIDE DEF S
  <2>3. x \in Seq(S) /\ Len(x) = 4 /\ y \in Seq(S) /\ Len(y) = 4
    <3> DEFINE a == 4
               b == 8
               c == 12
    <3>1. /\ a \in Nat /\ b \in Nat /\ c \in Nat
          /\ b = a + a /\ c = b + a /\ b <= Len(o) /\ c <= Len(o)
      BY <1>0
    <3> HIDE DEF a, b, c
    <3>2. Slice(o, a, b) \in Seq(S) /\ Len(Slice(o, a, b)) = a
      BY <2>2, <3>1, Cut
    <3>3. Slice(o, b, c) \in Seq(S) /\ Len(Slice(o, b, c)) = a
      BY <2>2, <3>1, Cut
    <3> QED
      BY <3>2, <3>3 DEF a, b, c
  <2> HIDE DEF x, y, w
  <2>4. BigEndian(Number(x), 4) = x /\ BigEndian(Number(y), 4) = y
    BY <2>3, ReadThenWritten DEF S
  <2>5. w = Slice(o, 0, 4)
    <3>1. Slice(o, 0, 4) = SubSeq(o, 0 + 1, 4)
      BY <1>0 DEF Slice
    <3>2. SubSeq(o, 0 + 1, 4) = [k \in 1 .. 4 - 0 |-> o[0 + k]]
      BY <2>2, SubSeqBy
    <3>3. 4 - 0 = 4 /\ \A k \in 1 .. 4 : 0 + k = k
      OBVIOUS
    <3>4. Slice(o, 0, 4) = [k \in 1 .. 4 |-> o[k]]
      BY <3>1, <3>2, <3>3
    <3>5. w = [k \in 1 .. 4 |-> o[k]]
      <4>1. w = [k \in 1 .. 4 |-> w[k]] /\ \A k \in 1 .. 4 : k = 1 \/ k = 2 \/ k = 3 \/ k = 4
        BY DEF w
      <4>2. w[1] = o[1] /\ w[2] = o[2] /\ w[3] = o[3] /\ w[4] = o[4]
        BY DEF w
      <4> QED
        BY <4>1, <4>2
    <3> QED
      BY <3>4, <3>5
  <2>6. Slice(o, 0, 4) \o x = Slice(o, 0, 8) /\ Slice(o, 0, 8) \o y = Slice(o, 0, 12)
    <3> DEFINE a == 4
               b == 8
               c == 12
               z == 0
    <3>1. /\ z \in Nat /\ a \in Nat /\ b \in Nat /\ c \in Nat
          /\ z <= a /\ a <= b /\ z <= b /\ b <= c /\ b <= Len(o) /\ c <= Len(o)
      BY <1>0
    <3> HIDE DEF a, b, c, z
    <3>2. /\ Slice(o, z, a) \o Slice(o, a, b) = Slice(o, z, b)
          /\ Slice(o, z, b) \o Slice(o, b, c) = Slice(o, z, c)
      BY <1>b, <3>1
    <3> QED
      BY <3>2 DEF a, b, c, z, x, y
  <2>7. Slice(o, 0, 12) = o
    BY <1>0, <1>c
  <2>8. EncodeHeader(h) = w \o x \o y
    BY <2>1, <2>4 DEF EncodeHeader, w
  <2>9. EncodeHeader(h) = o
    BY <2>5, <2>6, <2>7, <2>8
  <2> QED
    BY <1>2, <2>9 DEF h
<1> QED
  BY <1>1, <1>2

\* Numbers that are octets are numbers.
LEMMA OctetsAreNumbers ==
    /\ Seq(0 .. Octets - 1) \subseteq Seq(Nat)
    /\ \A s \in Seq(0 .. Octets - 1) : \A i \in 1 .. Len(s) : s[i] \in 0 .. Octets - 1
<1> DEFINE S == 0 .. Octets - 1
<1>1. S \subseteq Nat
  BY OctetsAssumption
<1> HIDE DEF S
<1>2. ASSUME NEW s \in Seq(S) PROVE s \in Seq(Nat)
  <2>1. s \in [1 .. Len(s) -> S] /\ Len(s) \in Nat
    OBVIOUS
  <2>2. s \in [1 .. Len(s) -> Nat]
    BY <1>1, <2>1
  <2> QED
    BY <2>1, <2>2
<1>3. \A s \in Seq(S) : \A i \in 1 .. Len(s) : s[i] \in S
  BY ElementOfSeq
<1> QED
  BY <1>2, <1>3 DEF S

\* The first three of the strings that stand one after the other.
LEMMA ThreeJoin ==
    ASSUME NEW S, NEW o \in Seq(S), NEW start \in Nat, NEW lens \in Seq(Nat), 3 <= Len(lens),
           start + SumTo(lens, Len(lens)) <= Len(o)
    PROVE  LET f == Fields(o, start, lens)
           IN  f[1] \o f[2] \o f[3] = Slice(o, start, start + SumTo(lens, 3))
<1> DEFINE f == Fields(o, start, lens)
           n == Len(lens)
           a == start + SumTo(lens, 1)
           b == start + SumTo(lens, 2)
           c == start + SumTo(lens, 3)
<1>0. Len(o) \in Nat /\ n \in Nat /\ 3 <= n
  OBVIOUS
<1>1. /\ f[1] = Slice(o, start, a) /\ f[2] = Slice(o, a, b) /\ f[3] = Slice(o, b, c)
  <2>1. \A i \in 1 .. n : f[i] = Slice(o, start + SumTo(lens, i - 1), start + SumTo(lens, i))
    BY FieldsShape
  <2>2. /\ 1 - 1 = 0 /\ 2 - 1 = 1 /\ 3 - 1 = 2 /\ start + SumTo(lens, 0) = start
        /\ 1 \in 1 .. n /\ 2 \in 1 .. n /\ 3 \in 1 .. n
    BY <1>0, SumSteps
  <2> HIDE DEF f
  <2> QED
    BY <2>1, <2>2
<1>2. /\ a \in Nat /\ b \in Nat /\ c \in Nat
      /\ start <= a /\ a <= b /\ b <= c /\ c <= Len(o)
  <2>1. /\ SumTo(lens, 1) \in Nat /\ SumTo(lens, 2) \in Nat /\ SumTo(lens, 3) \in Nat
        /\ SumTo(lens, n) \in Nat
    <3>1. 1 \in 0 .. n /\ 2 \in 0 .. n /\ 3 \in 0 .. n /\ n \in 0 .. n
      BY <1>0
    <3> QED
      BY <3>1, SumSteps
  <2>2. SumTo(lens, 1) <= SumTo(lens, 2) /\ SumTo(lens, 2) <= SumTo(lens, 3)
        /\ SumTo(lens, 3) <= SumTo(lens, n)
    <3>1. \A j \in 0 .. n : \A i \in 0 .. j : SumTo(lens, i) <= SumTo(lens, j)
      BY SumGrows
    <3>2. 1 \in 0 .. 2 /\ 2 \in 0 .. 3 /\ 3 \in 0 .. n /\ {2, 3, n} \subseteq 0 .. n
      BY <1>0
    <3> QED
      BY <3>1, <3>2
  <2> QED
    BY <1>0, <2>1, <2>2, SMTT(30)
<1> HIDE DEF a, b, c, f
<1>3. /\ Slice(o, start, a) \o Slice(o, a, b) = Slice(o, start, b)
      /\ Slice(o, start, b) \o Slice(o, b, c) = Slice(o, start, c)
  <2>1. start <= b /\ start <= c /\ b <= Len(o)
    BY <1>0, <1>2
  <2> QED
    BY <1>0, <1>2, <2>1, SlicesAdjoin, ZenonT(40)
<1>4. f[1] \o f[2] \o f[3] = Slice(o, start, c)
  BY <1>1, <1>3
<1> QED
  BY <1>4 DEF f, c

\* The four strings of a START.
LEMMA StartTiled ==
    ASSUME NEW o \in Seq(0 .. Octets - 1)
    PROVE  LET s    == DecodeAuthenStart(o)
               ends == 8 + SumTo(Slice(o, 4, 8), 4)
           IN  IF Len(o) < 8 \/ Len(o) < ends THEN s = NoStart
               ELSE /\ s.user \o s.port \o s.remAddr \o s.data = Slice(o, 8, ends)
                    /\ <<Len(s.user), Len(s.port), Len(s.remAddr), Len(s.data)>> = Slice(o, 4, 8)
<1> DEFINE S == 0 .. Octets - 1
           s == DecodeAuthenStart(o)
           lens == Slice(o, 4, 8)
           ends == 8 + SumTo(lens, 4)
           f == Fields(o, 8, lens)
<1>0. o \in Seq(S) /\ Len(o) \in Nat /\ 4 \in Nat /\ 8 \in Nat
  OBVIOUS
<1>1. CASE Len(o) < 8 \/ Len(o) < ends
  BY <1>1 DEF DecodeAuthenStart
<1>2. CASE ~ (Len(o) < 8) /\ ~ (Len(o) < ends)
  <2>1. s.user = f[1] /\ s.port = f[2] /\ s.remAddr = f[3] /\ s.data = f[4]
    <3> HIDE DEF f
    <3>1. s = [type |-> o[3], user |-> f[1], port |-> f[2], remAddr |-> f[3], data |-> f[4]]
      BY <1>2 DEF DecodeAuthenStart, f
    <3> QED
      BY <3>1
  <2> HIDE DEF s
  <2>2. lens \in Seq(S) /\ Len(lens) = 4
    <3> HIDE DEF S
    <3> DEFINE a == 4
               b == 8
    <3>1. a \in Nat /\ b \in Nat /\ b = a + a /\ b <= Len(o)
      BY <1>0, <1>2
    <3> HIDE DEF a, b
    <3>2. Slice(o, a, b) \in Seq(S) /\ Len(Slice(o, a, b)) = a
      BY <1>0, <3>1, Cut
    <3> QED
      BY <3>2 DEF a, b
  <2>3. lens \in Seq(Nat)
    <3> HIDE DEF lens
    <3> QED
      BY <2>2, OctetsAreNumbers
  <2> HIDE DEF lens
  <2>4. \A i \in 0 .. 4 : SumTo(lens, i) \in Nat
    BY <2>2, <2>3, SumSteps
  <2>5. 8 + SumTo(lens, Len(lens)) <= Len(o)
    BY <1>0, <1>2, <2>2, <2>4
  <2> HIDE DEF S, f
  <2>6. \A i \in 1 .. 4 : /\ f[i] = Slice(o, 8 + SumTo(lens, i - 1), 8 + SumTo(lens, i))
                          /\ Len(f[i]) = lens[i]
    <3>1. \A i \in 1 .. Len(lens) :
             /\ Fields(o, 8, lens)[i] = Slice(o, 8 + SumTo(lens, i - 1), 8 + SumTo(lens, i))
             /\ Len(Fields(o, 8, lens)[i]) = lens[i]
      BY <1>0, <2>3, <2>5, FieldsShape
    <3> QED
      BY <2>2, <3>1 DEF f
  <2>7. f[1] \o f[2] \o f[3] \o f[4] = Slice(o, 8, ends)
    <3> DEFINE start == 8
               c == start + SumTo(lens, 3)
    <3>1. f[4] = Slice(o, c, ends)
      <4>1. f[4] = Slice(o, 8 + SumTo(lens, 4 - 1), 8 + SumTo(lens, 4)) /\ 4 - 1 = 3
        BY <2>6
      <4> QED
        BY <4>1
    <3>2. SumTo(lens, 3) \in Nat /\ SumTo(lens, 4) \in Nat /\ SumTo(lens, 3) <= SumTo(lens, 4)
      <4>1. 4 \in 0 .. Len(lens) /\ 3 \in 0 .. 4
        BY <2>2
      <4> QED
        BY <2>3, <2>4, <4>1, SumGrows
    <3>3. /\ start \in Nat /\ c \in Nat /\ ends \in Nat /\ start <= c /\ c <= ends /\ ends <= Len(o)
          /\ 3 <= Len(lens) /\ start + SumTo(lens, Len(lens)) <= Len(o)
      BY <1>0, <1>2, <2>2, <2>5, <3>2
    <3>4. f[1] \o f[2] \o f[3] = Slice(o, start, c)
      <4>1. f = Fields(o, start, lens)
        BY DEF f
      <4> HIDE DEF start
      <4> QED
        BY <1>0, <2>3, <3>3, <4>1, ThreeJoin
    <3> HIDE DEF start, c, ends
    <3>5. Slice(o, start, c) \o Slice(o, c, ends) = Slice(o, start, ends)
      BY <1>0, <3>3, SlicesAdjoin
    <3>6. f[1] \o f[2] \o f[3] \o f[4] = Slice(o, start, ends)
      BY <3>1, <3>4, <3>5
    <3> QED
      BY <3>6 DEF start
  <2>8. <<Len(f[1]), Len(f[2]), Len(f[3]), Len(f[4])>> = lens
    <3> DEFINE t == <<Len(f[1]), Len(f[2]), Len(f[3]), Len(f[4])>>
    <3>1. t = [i \in 1 .. 4 |-> t[i]] /\ \A i \in 1 .. 4 : i = 1 \/ i = 2 \/ i = 3 \/ i = 4
      OBVIOUS
    <3>2. t[1] = lens[1] /\ t[2] = lens[2] /\ t[3] = lens[3] /\ t[4] = lens[4]
      BY <2>6
    <3>3. lens = [i \in 1 .. 4 |-> lens[i]]
      BY <2>2
    <3> HIDE DEF t
    <3>4. t = lens
      BY <3>1, <3>2, <3>3
    <3> QED
      BY <3>4 DEF t
  <2> QED
    BY <1>2, <2>1, <2>7, <2>8 DEF s, lens
<1> QED
  BY <1>1, <1>2

\* Every header and every START, of any length, with octets of any size.
THEOREM TiledTheorem == ASSUME LettersAreOctets PROVE WireSpec => []PacketTiled
<1>1. OctetString => PacketTiled
  <2> SUFFICES ASSUME OctetString PROVE PacketTiled
    OBVIOUS
  <2>1. octets \in Seq(0 .. Octets - 1)
    BY DEF OctetString
  <2>2. Len(octets) = HeaderLen =>
          IF octets[1] \div Nibble = MajorVer THEN EncodeHeader(DecodeHeader(octets)) = octets
                                              ELSE DecodeHeader(octets) = NoHeader
    BY <2>1, HeaderTiled
  <2>3. LET s    == DecodeAuthenStart(octets)
            ends == 8 + SumTo(Slice(octets, 4, 8), 4)
        IN  IF Len(octets) < 8 \/ Len(octets) < ends THEN s = NoStart
            ELSE /\ s.user \o s.port \o s.remAddr \o s.data = Slice(octets, 8, ends)
                 /\ <<Len(s.user), Len(s.port), Len(s.remAddr), Len(s.data)>>
                       = Slice(octets, 4, 8)
    BY <2>1, StartTiled
  <2> QED
    BY <2>2, <2>3 DEF PacketTiled
<1> QED
  BY <1>1, OctetTheorem, PTL

-----------------------------------------------------------------------------
(* Arguments of an authorization request. *)

\* Lists of lengths that begin alike have the same sums there.
LEMMA SumSame ==
    ASSUME NEW s \in Seq(Nat), NEW t \in Seq(Nat), NEW n \in Nat, n <= Len(s), n <= Len(t),
           \A k \in 1 .. n : s[k] = t[k]
    PROVE  \A i \in 0 .. n : SumTo(s, i) = SumTo(t, i)
<1> DEFINE f == [i \in Nat |-> SumTo(s, i)]
           g == [i \in Nat |-> SumTo(t, i)]
<1>1. f[0] = g[0]
  BY SumSteps
<1>2. ASSUME NEW i \in 0 .. n - 1, f[i] = g[i] PROVE f[i + 1] = g[i + 1]
  <2>1. /\ i \in Nat /\ i + 1 \in Nat /\ i + 1 \in 1 .. n
        /\ i \in 0 .. Len(s) - 1 /\ i \in 0 .. Len(t) - 1
    OBVIOUS
  <2>2. SumTo(s, i + 1) = SumTo(s, i) + s[i + 1] /\ SumTo(t, i + 1) = SumTo(t, i) + t[i + 1]
    BY <2>1, SumSteps
  <2> QED
    BY <1>2, <2>1, <2>2
<1>3. \A i \in 0 .. n : f[i] = g[i]
  <2> HIDE DEF f, g
  <2> QED
    BY <1>1, <1>2, SameUpTo, ZenonT(40)
<1> QED
  BY <1>3

\* The sums of two lists, one behind the other.
LEMMA SumBehind ==
    ASSUME NEW p \in Seq(Nat), NEW q \in Seq(Nat)
    PROVE  /\ p \o q \in Seq(Nat) /\ Len(p \o q) = Len(p) + Len(q)
           /\ \A i \in 0 .. Len(p) : SumTo(p \o q, i) = SumTo(p, i)
           /\ \A i \in 0 .. Len(q) :
                 SumTo(p \o q, Len(p) + i) = SumTo(p, Len(p)) + SumTo(q, i)
<1> DEFINE t == p \o q
           m == Len(p)
           f == [i \in Nat |-> SumTo(t, m + i)]
           g == [i \in Nat |-> SumTo(p, m) + SumTo(q, i)]
<1>0. m \in Nat /\ Len(q) \in Nat
  OBVIOUS
<1>1. /\ t \in Seq(Nat) /\ Len(t) = m + Len(q)
      /\ \A k \in 1 .. m : t[k] = p[k]
      /\ \A k \in 1 .. Len(q) : t[m + k] = q[k]
  BY Behind
<1> HIDE DEF t
<1>2. \A i \in 0 .. m : SumTo(t, i) = SumTo(p, i)
  <2>1. m <= Len(p) /\ m <= Len(t)
    <3>1. m <= m /\ m <= m + Len(q)
      BY <1>0
    <3> QED
      BY <1>1, <3>1
  <2> QED
    BY <1>0, <1>1, <2>1, SumSame
<1>3. SumTo(p, m) \in Nat /\ \A i \in 0 .. Len(q) : SumTo(q, i) \in Nat
  BY <1>0, SumSteps
<1>4. f[0] = g[0]
  <2>1. m \in 0 .. m /\ m + 0 = m /\ SumTo(q, 0) = 0 /\ SumTo(p, m) + 0 = SumTo(p, m)
    BY <1>0, <1>3, SumSteps
  <2> QED
    BY <1>2, <2>1
<1>5. ASSUME NEW i \in 0 .. Len(q) - 1, f[i] = g[i] PROVE f[i + 1] = g[i + 1]
  <2>1. /\ i \in Nat /\ i + 1 \in Nat /\ i + 1 \in 1 .. Len(q) /\ i \in 0 .. Len(q)
        /\ m + i \in 0 .. Len(t) - 1 /\ m + (i + 1) = (m + i) + 1
    BY <1>0, <1>1
  <2>2. SumTo(t, (m + i) + 1) = SumTo(t, m + i) + t[(m + i) + 1]
    BY <1>1, <2>1, SumSteps
  <2>3. SumTo(q, i + 1) = SumTo(q, i) + q[i + 1] /\ q[i + 1] \in Nat
    BY <2>1, SumSteps, ElementOfSeq
  <2>4. t[(m + i) + 1] = q[i + 1]
    BY <1>1, <2>1
  <2>5. f[i] = SumTo(t, m + i) /\ g[i] = SumTo(p, m) + SumTo(q, i)
    BY <2>1
  <2>6. f[i + 1] = SumTo(t, m + (i + 1)) /\ g[i + 1] = SumTo(p, m) + SumTo(q, i + 1)
    BY <2>1
  <2>7. SumTo(q, i) \in Nat /\ SumTo(p, m) \in Nat
    BY <1>3, <2>1
  <2> HIDE DEF f, g
  <2>8. (SumTo(p, m) + SumTo(q, i)) + q[i + 1] = SumTo(p, m) + (SumTo(q, i) + q[i + 1])
    BY <2>3, <2>7
  <2> QED
    BY <1>5, <2>1, <2>2, <2>3, <2>4, <2>5, <2>6, <2>8
<1>6. \A i \in 0 .. Len(q) : f[i] = g[i]
  <2> HIDE DEF f, g, m
  <2> QED
    BY <1>0, <1>4, <1>5, SameUpTo, ZenonT(40)
<1> QED
  BY <1>1, <1>2, <1>6 DEF t

\* The lengths of strings.
Lens(a) == [i \in 1 .. Len(a) |-> Len(a[i])]

\* Strings one after the other can be told apart by their lengths.
LEMMA FlattenedApart ==
    ASSUME NEW S, NEW a \in Seq(Seq(S))
    PROVE  /\ Lens(a) \in Seq(Nat) /\ Len(Lens(a)) = Len(a)
           /\ FlattenSeq(a) \in Seq(S)
           /\ Len(FlattenSeq(a)) = SumTo(Lens(a), Len(a))
           /\ \A i \in 1 .. Len(a) :
                 Slice(FlattenSeq(a), SumTo(Lens(a), i - 1), SumTo(Lens(a), i)) = a[i]
<1> DEFINE Q == Seq(S)
           Good(c) == /\ Lens(c) \in Seq(Nat) /\ Len(Lens(c)) = Len(c)
                      /\ FlattenSeq(c) \in Q
                      /\ Len(FlattenSeq(c)) = SumTo(Lens(c), Len(c))
                      /\ \A i \in 1 .. Len(c) :
                           Slice(FlattenSeq(c), SumTo(Lens(c), i - 1), SumTo(Lens(c), i)) = c[i]
           T == {c \in Seq(Q) : Good(c)}
<1>1. << >> \in T
  <2>1. Len(<< >>) = 0 /\ << >> \in Seq(Nat) /\ << >> \in Q /\ << >> \in Seq(Q)
    OBVIOUS
  <2>2. Lens(<< >>) = << >>
    BY <2>1 DEF Lens
  <2>3. FlattenSeq(<< >>) = << >>
    BY <2>1, FlattenSeqAppend
  <2>4. SumTo(<< >>, 0) = 0
    <3> DEFINE e == << >>
    <3>1. e \in Seq(Nat)
      OBVIOUS
    <3> HIDE DEF e
    <3>2. SumTo(e, 0) = 0
      BY <3>1, SumSteps
    <3> QED
      BY <3>2 DEF e
  <2>5. \A i \in 1 .. 0 : FALSE
    OBVIOUS
  <2>6. Good(<< >>)
    <3> HIDE DEF Q
    <3> QED
      BY <2>1, <2>2, <2>3, <2>4, <2>5
  <2> QED
    BY <2>1, <2>6
<1>2. ASSUME NEW c \in T, NEW x \in Q PROVE Append(c, x) \in T
  <2> DEFINE d == Append(c, x)
             n == Len(c)
             u == FlattenSeq(c)
             l == Lens(c)
             k == Lens(d)
  <2>1. c \in Seq(Q) /\ Good(c) /\ n \in Nat
    OBVIOUS
  <2> HIDE DEF T
  <2>2. d \in Seq(Q) /\ Len(d) = n + 1 /\ d[n + 1] = x /\ \A i \in 1 .. n : d[i] = c[i]
    <3> HIDE DEF Q
    <3> QED
      BY <2>1, AppendProperties
  <2>3. FlattenSeq(d) = u \o x
    BY <2>1, FlattenSeqAppend
  <2> HIDE DEF d
  <2>4. /\ l \in Seq(Nat) /\ Len(l) = n /\ u \in Q /\ Len(u) = SumTo(l, n)
        /\ \A i \in 1 .. n : Slice(u, SumTo(l, i - 1), SumTo(l, i)) = c[i]
    <3> HIDE DEF Q
    <3> QED
      BY <2>1
  <2> HIDE DEF Good
  <2>5. /\ k \in Seq(Nat) /\ Len(k) = n + 1 /\ k[n + 1] = Len(x)
        /\ \A i \in 1 .. n : k[i] = l[i]
    <3>1. k = [i \in 1 .. n + 1 |-> Len(d[i])] /\ n + 1 \in Nat
      BY <2>1, <2>2 DEF Lens
    <3>2. \A i \in 1 .. n + 1 : d[i] \in Q
      <4> HIDE DEF Q
      <4> QED
        BY <2>2, ElementOfSeq
    <3>3. \A y \in Q : Len(y) \in Nat
      OBVIOUS
    <3> HIDE DEF k
    <3>4. \A i \in 1 .. n + 1 : k[i] = Len(d[i]) /\ k[i] \in Nat
      BY <3>1, <3>2, <3>3
    <3>5. k \in [1 .. n + 1 -> Nat]
      BY <3>1, <3>4
    <3>6. k \in Seq(Nat) /\ Len(k) = n + 1
      BY <3>1, <3>5
    <3>7. \A i \in 1 .. n : i \in 1 .. n + 1 /\ l[i] = Len(c[i])
      BY <2>1 DEF Lens
    <3>8. n + 1 \in 1 .. n + 1
      BY <2>1
    <3> QED
      BY <2>2, <3>4, <3>6, <3>7, <3>8
  <2> HIDE DEF k, l, u
  <2>6. \A i \in 0 .. n : SumTo(k, i) = SumTo(l, i)
    <3>1. n <= Len(k) /\ n <= Len(l)
      BY <2>1, <2>4, <2>5
    <3> QED
      BY <2>1, <2>4, <2>5, <3>1, SumSame
  <2>7. SumTo(k, n + 1) = SumTo(k, n) + Len(x) /\ SumTo(k, n) = Len(u)
    <3>1. n \in 0 .. Len(k) - 1 /\ n \in 0 .. n
      BY <2>1, <2>5
    <3> QED
      BY <2>4, <2>5, <2>6, <3>1, SumSteps
  <2> DEFINE w == u \o x
  <2>8. /\ w \in Q /\ Len(w) = Len(u) + Len(x)
        /\ \A i, j \in Nat : i <= j /\ j <= Len(u) => Slice(w, i, j) = Slice(u, i, j)
        /\ Slice(w, Len(u), Len(u) + Len(x)) = x
    <3>1. u \in Seq(S) /\ x \in Seq(S)
      BY <2>4
    <3> QED
      BY <3>1, Behind, SliceBack
  <2>9. ASSUME NEW i \in 1 .. n + 1
        PROVE  Slice(w, SumTo(k, i - 1), SumTo(k, i)) = d[i]
    <3> HIDE DEF w
    <3>1. CASE i = n + 1
      <4>1. i - 1 = n
        BY <2>1, <3>1
      <4> QED
        BY <2>2, <2>7, <2>8, <3>1, <4>1
    <3>2. CASE i \in 1 .. n
      <4>1. i - 1 \in 0 .. n /\ i \in 0 .. n /\ i - 1 \in 0 .. i /\ n \in 0 .. n /\ i \in 0 .. Len(l)
            /\ i - 1 \in 0 .. Len(l) /\ n \in 0 .. Len(l)
        BY <2>1, <2>4, <3>2
      <4>2. SumTo(l, i - 1) \in Nat /\ SumTo(l, i) \in Nat /\ SumTo(l, i - 1) <= SumTo(l, i)
        BY <2>4, <4>1, SumSteps, SumGrows
      <4>3. SumTo(l, i) <= Len(u)
        BY <2>4, <4>1, SumGrows
      <4>4. Slice(w, SumTo(l, i - 1), SumTo(l, i)) = Slice(u, SumTo(l, i - 1), SumTo(l, i))
        BY <2>8, <4>2, <4>3
      <4> QED
        BY <2>2, <2>4, <2>6, <3>2, <4>1, <4>4
    <3> QED
      BY <2>1, <3>1, <3>2
  <2>10. Good(d)
    <3>1. /\ Lens(d) \in Seq(Nat) /\ Len(Lens(d)) = Len(d) /\ FlattenSeq(d) = w /\ w \in Q
          /\ Len(w) = SumTo(Lens(d), Len(d))
      BY <2>2, <2>3, <2>5, <2>7, <2>8 DEF k
    <3>2. \A i \in 1 .. Len(d) : Slice(w, SumTo(Lens(d), i - 1), SumTo(Lens(d), i)) = d[i]
      BY <2>2, <2>9 DEF k
    <3> HIDE DEF Q, w
    <3> QED
      BY <3>1, <3>2 DEF Good
  <2> QED
    BY <2>2, <2>10 DEF T, d
<1>3. T \in SUBSET Seq(Q)
  OBVIOUS
<1>4. T = Seq(Q)
  <2> HIDE DEF T, Q
  <2> QED
    BY <1>1, <1>2, <1>3, SeqSetInduction
<1>5. Good(a)
  <2>1. a \in T
    <3> HIDE DEF T
    <3> QED
      BY <1>4
  <2> QED
    BY <2>1
<1> QED
  BY <1>5

\* Strings that are put behind others are read back by their lengths.
LEMMA FieldsBack ==
    ASSUME NEW S, NEW x \in Seq(S), NEW a \in Seq(Seq(S))
    PROVE  Fields(x \o FlattenSeq(a), Len(x), Lens(a)) = a
<1> DEFINE u == FlattenSeq(a)
           l == Lens(a)
           n == Len(a)
           m == Len(x)
<1>0. n \in Nat /\ m \in Nat
  OBVIOUS
<1>1. /\ l \in Seq(Nat) /\ Len(l) = n /\ u \in Seq(S) /\ Len(u) = SumTo(l, n)
      /\ \A i \in 1 .. n : Slice(u, SumTo(l, i - 1), SumTo(l, i)) = a[i]
  BY FlattenedApart
<1> HIDE DEF u, l
<1>2. DOMAIN l = 1 .. n
  BY <1>0, <1>1
<1>3. \A i, j \in Nat : i <= j /\ j <= Len(u) => Slice(x \o u, m + i, m + j) = Slice(u, i, j)
  BY <1>1, Behind
<1>4. ASSUME NEW i \in 1 .. n
      PROVE  Slice(x \o u, m + SumTo(l, i - 1), m + SumTo(l, i)) = a[i]
  <2>1. i - 1 \in 0 .. n /\ i \in 0 .. n /\ i - 1 \in 0 .. i /\ n \in 0 .. n
    BY <1>0
  <2>2. SumTo(l, i - 1) \in Nat /\ SumTo(l, i) \in Nat
    BY <1>1, <2>1, SumSteps
  <2>3. SumTo(l, i - 1) <= SumTo(l, i) /\ SumTo(l, i) <= SumTo(l, n)
    BY <1>1, <2>1, SumGrows
  <2> QED
    BY <1>1, <1>3, <2>2, <2>3
<1>5. Fields(x \o u, m, l) = [i \in 1 .. n |-> a[i]]
  BY <1>2, <1>4 DEF Fields
<1>6. a = [i \in 1 .. n |-> a[i]]
  OBVIOUS
<1>7. Fields(x \o u, m, l) = a
  BY <1>5, <1>6
<1> QED
  BY <1>7 DEF u, l

\* The first six octets of what the server answers: a status, an octet, the
\* length of the message, and that of the data, which there is none of.
Answer(status, n, m) == << status, n >> \o BigEndian(m, 2) \o BigEndian(0, 2)

LEMMA AnswerOctets ==
    ASSUME NEW status \in 0 .. Octets - 1, NEW n \in 0 .. Octets - 1,
           NEW m \in Nat, m < Octets * Octets
    PROVE  LET w == Answer(status, n, m)
           IN  /\ w \in Seq(0 .. Octets - 1) /\ Len(w) = 6 /\ w[1] = status /\ w[2] = n
               /\ Number(Slice(w, 2, 4)) = m /\ Number(Slice(w, 4, 6)) = 0
<1> DEFINE S == 0 .. Octets - 1
           a == << status, n >>
           b == BigEndian(m, 2)
           c == BigEndian(0, 2)
           w == Answer(status, n, m)
<1>0. 0 \in Nat /\ 0 < Octets * Octets
  BY OctetsAssumption
<1>1. a \in Seq(S) /\ Len(a) = 2 /\ a[1] = status /\ a[2] = n
  OBVIOUS
<1>2. /\ b \in Seq(S) /\ Len(b) = 2 /\ Number(b) = m
      /\ c \in Seq(S) /\ Len(c) = 2 /\ Number(c) = 0
  <2>1. \A k \in Nat : /\ BigEndian(k, 2) \in Seq(S) /\ Len(BigEndian(k, 2)) = 2
                       /\ k < Octets * Octets => Number(BigEndian(k, 2)) = k
    BY WrittenThenRead, NumberBack
  <2> QED
    BY <1>0, <2>1
<1>3. w = (a \o b) \o c
  BY DEF Answer
<1> HIDE DEF a, b, c, S
<1> DEFINE d == a \o b
           two == 2
           four == 4
           six == 6
           z == 0
<1>4. two \in Nat /\ z \in Nat /\ z <= two /\ two <= two /\ two + z = two /\ two + two = four
      /\ four + z = four /\ four + two = six /\ two <= four /\ four <= four
      /\ Len(a) = two /\ Len(b) = two /\ Len(c) = two /\ four \in Nat
  BY <1>1, <1>2
<1> HIDE DEF two, four, six, z
<1>5. d \in Seq(S) /\ Len(d) = four /\ Slice(d, two, four) = b
      /\ \A k \in 1 .. Len(a) : d[k] = a[k]
  <2>1. a \in Seq(S) /\ b \in Seq(S)
    BY <1>1, <1>2
  <2>2. d \in Seq(S) /\ Len(d) = Len(a) + Len(b) /\ Slice(d, Len(a), Len(a) + Len(b)) = b
        /\ \A k \in 1 .. Len(a) : d[k] = a[k]
    BY <2>1, Behind, SliceBack
  <2> QED
    BY <1>4, <2>2
<1> HIDE DEF d
<1> DEFINE e == d \o c
<1>6. /\ e \in Seq(S) /\ Len(e) = six /\ Slice(e, two, four) = b /\ Slice(e, four, six) = c
      /\ \A k \in 1 .. Len(d) : e[k] = d[k]
  <2>1. d \in Seq(S) /\ c \in Seq(S)
    BY <1>2, <1>5
  <2>2. /\ e \in Seq(S) /\ Len(e) = Len(d) + Len(c)
        /\ \A k \in 1 .. Len(d) : e[k] = d[k]
        /\ \A i, j \in Nat : i <= j /\ j <= Len(d) => Slice(e, i, j) = Slice(d, i, j)
    BY <2>1, Behind
  <2>3. Slice(e, Len(d), Len(d) + Len(c)) = c
    BY <2>1, SliceBack
  <2> HIDE DEF e
  <2>4. Slice(e, two, four) = Slice(d, two, four)
    BY <1>4, <1>5, <2>2
  <2> QED
    BY <1>4, <1>5, <2>2, <2>3, <2>4
<1>7. e[1] = status /\ e[2] = n
  <2>1. 1 \in 1 .. Len(d) /\ 2 \in 1 .. Len(d) /\ 1 \in 1 .. Len(a) /\ 2 \in 1 .. Len(a)
    BY <1>1, <1>5 DEF four
  <2>2. e[1] = d[1] /\ d[1] = a[1] /\ e[2] = d[2] /\ d[2] = a[2]
    BY <1>5, <1>6, <2>1
  <2> QED
    BY <1>1, <2>2
<1> QED
  BY <1>2, <1>3, <1>6, <1>7 DEF S, d, two, four, six

\* A response is read back: its arguments are those that were put in, with a message
\* and a number of arguments that are short enough for an octet, and arguments that are.
LEMMA ResponseRead ==
    ASSUME 1 < Octets, NEW msg \in Seq(Nat), Len(msg) < Octets,
           NEW args \in Seq(Seq(Nat)), Len(args) < Octets,
           \A i \in 1 .. Len(args) : Len(args[i]) < Octets
    PROVE  ResponseArgs(EncodeAuthorResponse(1, msg, args)) = args
<1> DEFINE n == Len(args)
           m == Len(msg)
           w == Answer(1, n, m)
           l == Lens(args)
           u == FlattenSeq(args)
           b == EncodeAuthorResponse(1, msg, args)
<1>0. /\ n \in 0 .. Octets - 1 /\ m \in 0 .. Octets - 1 /\ n \in Nat /\ m \in Nat
      /\ DOMAIN args = 1 .. n /\ 1 \in 0 .. Octets - 1 /\ n % Octets = n /\ m < Octets * Octets
  <2>1. Octets \in Nat /\ n \in Nat /\ n < Octets /\ m \in Nat /\ m < Octets
    BY OctetsAssumption
  <2> DEFINE square == Octets * Octets
  <2>2. Octets <= square /\ square \in Nat
    BY <2>1
  <2>3. n % Octets = n /\ DOMAIN args = 1 .. n
    BY <2>1, OctetsOf, SMTT(30)
  <2> HIDE DEF n, m, square
  <2>4. m < square
    BY <2>1, <2>2
  <2> QED
    BY <2>1, <2>3, <2>4 DEF square
<1>1. /\ w \in Seq(Nat) /\ Len(w) = 6 /\ w[2] = n
      /\ Number(Slice(w, 2, 4)) = m /\ Number(Slice(w, 4, 6)) = 0
  <2> HIDE DEF n, m
  <2> QED
    BY <1>0, AnswerOctets, OctetsAreNumbers
<1>2. l \in Seq(Nat) /\ Len(l) = n /\ u \in Seq(Nat)
  BY FlattenedApart
<1>3. [i \in DOMAIN args |-> Len(args[i]) % Octets] = l
  <2>1. \A i \in 1 .. n : Len(args[i]) \in Nat /\ Len(args[i]) < Octets
    <3>1. \A i \in 1 .. n : args[i] \in Seq(Nat)
      <4> DEFINE Q == Seq(Nat)
      <4> HIDE DEF Q
      <4>1. args \in Seq(Q)
        BY DEF Q
      <4>2. \A i \in 1 .. n : args[i] \in Q
        BY <4>1, ElementOfSeq
      <4> QED
        BY <4>2 DEF Q
    <3> QED
      BY <3>1
  <2>2. \A i \in 1 .. n : Len(args[i]) % Octets = Len(args[i])
    BY <2>1, OctetsOf
  <2> QED
    BY <1>0, <2>2 DEF Lens
<1>4. b = ((w \o l) \o msg) \o u
  <2>1. b = w \o [i \in DOMAIN args |-> Len(args[i]) % Octets] \o msg \o u
    BY <1>0 DEF EncodeAuthorResponse, Answer
  <2> HIDE DEF b, l, u, w
  <2> QED
    BY <1>3, <2>1
<1> HIDE DEF b, l, u, w
<1> DEFINE x == w \o l
           y == x \o msg
           v == y \o u
<1>5. /\ x \in Seq(Nat) /\ Len(x) = 6 + n /\ Slice(x, 6, 6 + n) = l
      /\ \A k \in 1 .. 6 : x[k] = w[k]
      /\ \A i, j \in Nat : i <= j /\ j <= 6 => Slice(x, i, j) = Slice(w, i, j)
  <2>0. w \in Seq(Nat) /\ l \in Seq(Nat)
    BY <1>1, <1>2
  <2>1. /\ x \in Seq(Nat) /\ Len(x) = Len(w) + Len(l)
        /\ \A k \in 1 .. Len(w) : x[k] = w[k]
        /\ \A i, j \in Nat : i <= j /\ j <= Len(w) => Slice(x, i, j) = Slice(w, i, j)
    BY <2>0, Behind
  <2>2. Slice(x, Len(w), Len(w) + Len(l)) = l
    BY <2>0, SliceBack
  <2> HIDE DEF x, n
  <2> QED
    BY <1>1, <1>2, <2>1, <2>2
<1> HIDE DEF x, n, m
<1>6. /\ y \in Seq(Nat) /\ Len(y) = 6 + n + m
      /\ \A k \in 1 .. Len(x) : y[k] = x[k]
      /\ \A i, j \in Nat : i <= j /\ j <= Len(x) => Slice(y, i, j) = Slice(x, i, j)
  <2>1. /\ y \in Seq(Nat) /\ Len(y) = Len(x) + Len(msg)
        /\ \A k \in 1 .. Len(x) : y[k] = x[k]
        /\ \A i, j \in Nat : i <= j /\ j <= Len(x) => Slice(y, i, j) = Slice(x, i, j)
    <3>1. x \in Seq(Nat) /\ msg \in Seq(Nat)
      BY <1>5
    <3> QED
      BY <3>1, Behind
  <2> HIDE DEF y
  <2> QED
    BY <1>5, <2>1 DEF m
<1> HIDE DEF y
<1>7. /\ \A k \in 1 .. Len(y) : v[k] = y[k]
      /\ \A i, j \in Nat : i <= j /\ j <= Len(y) => Slice(v, i, j) = Slice(y, i, j)
      /\ Fields(v, Len(y), l) = args
  <2>1. /\ \A k \in 1 .. Len(y) : v[k] = y[k]
        /\ \A i, j \in Nat : i <= j /\ j <= Len(y) => Slice(v, i, j) = Slice(y, i, j)
    <3>1. y \in Seq(Nat) /\ u \in Seq(Nat)
      BY <1>2, <1>6
    <3> QED
      BY <3>1, Behind
  <2>2. Fields(y \o FlattenSeq(args), Len(y), Lens(args)) = args
    BY <1>6, FieldsBack
  <2> QED
    BY <2>1, <2>2 DEF u, l
<1>8. v[2] = n
  <2>1. 2 \in 1 .. 6 /\ 2 \in 1 .. Len(x) /\ 2 \in 1 .. Len(y)
    BY <1>0, <1>5, <1>6
  <2> QED
    BY <1>1, <1>5, <1>6, <1>7, <2>1
<1>9. \A i, j \in Nat : i <= j /\ j <= 6 => Slice(v, i, j) = Slice(w, i, j)
  <2> SUFFICES ASSUME NEW i \in Nat, NEW j \in Nat, i <= j, j <= 6
               PROVE  Slice(v, i, j) = Slice(w, i, j)
    OBVIOUS
  <2>1. j <= Len(x) /\ j <= Len(y)
    BY <1>0, <1>5, <1>6
  <2> QED
    BY <1>5, <1>6, <1>7, <2>1
<1>10. Slice(v, 2, 4) = Slice(w, 2, 4) /\ Slice(v, 4, 6) = Slice(w, 4, 6)
  BY <1>9
<1>11. Slice(v, 6, 6 + n) = l
  <2> DEFINE six == 6
             q == 6 + n
  <2>1. six \in Nat /\ q \in Nat /\ six <= q /\ q <= Len(x) /\ q <= Len(y)
    BY <1>0, <1>5, <1>6
  <2> HIDE DEF six, q
  <2>2. Slice(v, six, q) = Slice(x, six, q)
    BY <1>6, <1>7, <2>1
  <2> QED
    BY <1>5, <2>2 DEF six, q
<1>12. ResponseArgs(v) = Fields(v, 6 + n + m + 0, l)
  BY <1>1, <1>8, <1>10, <1>11 DEF ResponseArgs
<1>13. 6 + n + m + 0 = Len(y)
  BY <1>0, <1>6
<1>14. ResponseArgs(v) = args
  BY <1>7, <1>12, <1>13
<1>15. v = b
  BY <1>4 DEF y, x
<1>16. ResponseArgs(b) = args
  BY <1>14, <1>15
<1> QED
  BY <1>16 DEF b

\* The strings of an authorization request, and its arguments in the response.
LEMMA AuthorMirrored ==
    ASSUME NEW o \in Seq(0 .. Octets - 1), 3 < Octets
    PROVE  LET r == DecodeAuthorRequest(o)
               b == EncodeAuthorResponse(1, << 3, 5, 7 >>, r.args)
           IN  r # NoAuthor =>
                 LET ends == 8 + o[8] + SumTo(Slice(o, 4, 7), 3) + SumTo(Slice(o, 8, 8 + o[8]), o[8])
                 IN  /\ r.user \o r.port \o r.remAddr \o FlattenSeq(r.args)
                           = Slice(o, 8 + o[8], ends)
                     /\ ResponseArgs(b) = r.args
<1> DEFINE S == 0 .. Octets - 1
           r == DecodeAuthorRequest(o)
           n == o[8]
           p == Slice(o, 4, 7)
           q == Slice(o, 8, 8 + n)
           start == 8 + n
           lens == p \o q
           f == Fields(o, start, lens)
           args == SubSeq(f, 4, 3 + n)
           mid == start + SumTo(p, 3)
           ends == 8 + n + SumTo(p, 3) + SumTo(q, n)
<1>0. o \in Seq(S) /\ Len(o) \in Nat
  OBVIOUS
<1> SUFFICES ASSUME r # NoAuthor
             PROVE  /\ r.user \o r.port \o r.remAddr \o FlattenSeq(r.args) = Slice(o, start, ends)
                    /\ ResponseArgs(EncodeAuthorResponse(1, << 3, 5, 7 >>, r.args)) = r.args
  OBVIOUS
<1>1. /\ ~ (Len(o) < 8) /\ ~ (Len(o) < start) /\ ~ (Len(o) < start + SumTo(lens, Len(lens)))
      /\ r = [user |-> f[1], port |-> f[2], remAddr |-> f[3], args |-> args]
  <2> HIDE DEF S, f, p, q
  <2> QED
    BY DEF DecodeAuthorRequest, f, p, q
<1>2. r.user = f[1] /\ r.port = f[2] /\ r.remAddr = f[3] /\ r.args = args
  <2> HIDE DEF r, f, args
  <2> QED
    BY <1>1
<1> HIDE DEF r
<1>3. n \in S /\ n \in Nat /\ n < Octets
  <2>1. 8 \in 1 .. Len(o)
    BY <1>0, <1>1
  <2>2. n \in S
    BY <2>1, OctetsAreNumbers
  <2> QED
    BY <2>2, OctetsAssumption
<1> HIDE DEF n
<1>4. p \in Seq(S) /\ Len(p) = 3 /\ q \in Seq(S) /\ Len(q) = n
  <2> HIDE DEF S
  <2> DEFINE a == 4
             b == 7
             c == 3
             d == 8
             e == 8 + n
  <2>1. /\ a \in Nat /\ b \in Nat /\ c \in Nat /\ d \in Nat /\ e \in Nat /\ b = a + c /\ e = d + n
        /\ b <= Len(o) /\ e <= Len(o)
    BY <1>0, <1>1, <1>3
  <2> HIDE DEF a, b, c, d, e
  <2>2. /\ Slice(o, a, b) \in Seq(S) /\ Len(Slice(o, a, b)) = c
        /\ Slice(o, d, e) \in Seq(S) /\ Len(Slice(o, d, e)) = n
    BY <1>0, <1>3, <2>1, Cut
  <2> QED
    BY <2>2 DEF a, b, c, d, e
<1> HIDE DEF p, q
<1>5. p \in Seq(Nat) /\ q \in Seq(Nat) /\ \A i \in 1 .. n : q[i] \in S
  BY <1>4, OctetsAreNumbers
<1>6. /\ lens \in Seq(Nat) /\ Len(lens) = 3 + n
      /\ \A i \in 0 .. 3 : SumTo(lens, i) = SumTo(p, i)
      /\ \A i \in 0 .. n : SumTo(lens, 3 + i) = SumTo(p, 3) + SumTo(q, i)
  <2>1. /\ lens \in Seq(Nat) /\ Len(lens) = Len(p) + Len(q)
        /\ \A i \in 0 .. Len(p) : SumTo(lens, i) = SumTo(p, i)
        /\ \A i \in 0 .. Len(q) : SumTo(lens, Len(p) + i) = SumTo(p, Len(p)) + SumTo(q, i)
    BY <1>5, SumBehind
  <2> HIDE DEF lens
  <2> QED
    BY <1>4, <2>1
<1>7. SumTo(p, 3) \in Nat /\ \A i \in 0 .. n : SumTo(q, i) \in Nat
  <2>1. 3 \in 0 .. Len(p)
    BY <1>4
  <2> QED
    BY <1>4, <1>5, <2>1, SumSteps
<1> HIDE DEF lens
<1>8. /\ start \in Nat /\ mid \in Nat /\ ends = mid + SumTo(q, n) /\ ends \in Nat
      /\ start + SumTo(lens, Len(lens)) = ends /\ ends <= Len(o)
      /\ start <= mid /\ mid <= ends
  <2>1. n \in 0 .. n
    BY <1>3
  <2>2. /\ SumTo(q, n) \in Nat /\ SumTo(p, 3) \in Nat
        /\ SumTo(lens, Len(lens)) = SumTo(p, 3) + SumTo(q, n)
    BY <1>6, <1>7, <2>1
  <2>3. ~ (Len(o) < start + SumTo(lens, Len(lens)))
    BY <1>1
  <2> QED
    BY <1>0, <1>3, <2>2, <2>3
<1>9. f[1] \o f[2] \o f[3] = Slice(o, start, mid)
  <2>1. 3 <= Len(lens) /\ start + SumTo(lens, Len(lens)) <= Len(o)
    BY <1>3, <1>6, <1>8
  <2>2. 3 \in 0 .. 3
    OBVIOUS
  <2>3. start + SumTo(lens, 3) = mid
    BY <1>6, <2>2
  <2> HIDE DEF S, start, mid
  <2>4. f[1] \o f[2] \o f[3] = Slice(o, start, start + SumTo(lens, 3))
    BY <1>0, <1>6, <1>8, <2>1, ThreeJoin
  <2> QED
    BY <2>3, <2>4
<1> DEFINE g == Fields(o, mid, q)
<1>10. args = g
  <2>1. \A i \in 1 .. 3 + n :
           f[i] = Slice(o, start + SumTo(lens, i - 1), start + SumTo(lens, i))
    <3>1. start + SumTo(lens, Len(lens)) <= Len(o)
      BY <1>8
    <3> HIDE DEF S, start
    <3> QED
      BY <1>0, <1>6, <1>8, <3>1, FieldsShape
  <2> HIDE DEF f
  <2>2. args = [k \in 1 .. n |-> f[3 + k]]
    <3> DEFINE a == 3
               b == 3 + n
    <3>1. a \in Nat /\ b \in Nat /\ b - a = n /\ a + 1 = 4
      BY <1>3
    <3> HIDE DEF a, b
    <3>2. SubSeq(f, a + 1, b) = [k \in 1 .. n |-> f[a + k]]
      BY <3>1, SubSeqBy
    <3>3. SubSeq(f, 4, b) = [k \in 1 .. n |-> f[a + k]]
      BY <3>1, <3>2
    <3> QED
      BY <3>3 DEF a, b
  <2>3. \A k \in 1 .. n : f[3 + k] = Slice(o, mid + SumTo(q, k - 1), mid + SumTo(q, k))
    <3> SUFFICES ASSUME NEW k \in 1 .. n
                 PROVE  f[3 + k] = Slice(o, mid + SumTo(q, k - 1), mid + SumTo(q, k))
      OBVIOUS
    <3>1. /\ 3 + k \in 1 .. 3 + n /\ (3 + k) - 1 = 3 + (k - 1)
          /\ k - 1 \in 0 .. n /\ k \in 0 .. n
      BY <1>3
    <3>2. /\ SumTo(lens, 3 + k) = SumTo(p, 3) + SumTo(q, k)
          /\ SumTo(lens, (3 + k) - 1) = SumTo(p, 3) + SumTo(q, k - 1)
      BY <1>6, <3>1
    <3>3. SumTo(q, k) \in Nat /\ SumTo(q, k - 1) \in Nat
      BY <1>7, <3>1
    <3>4. /\ start + SumTo(lens, 3 + k) = mid + SumTo(q, k)
          /\ start + SumTo(lens, (3 + k) - 1) = mid + SumTo(q, k - 1)
      BY <1>7, <1>8, <3>2, <3>3
    <3> HIDE DEF start, mid
    <3> QED
      BY <2>1, <3>1, <3>4
  <2>4. DOMAIN q = 1 .. n
    BY <1>3, <1>4
  <2>5. g = [k \in 1 .. n |-> Slice(o, mid + SumTo(q, k - 1), mid + SumTo(q, k))]
    BY <2>4 DEF Fields
  <2> HIDE DEF args, g, mid
  <2> QED
    BY <2>2, <2>3, <2>5
<1> HIDE DEF args
<1>11. /\ g \in Seq(Seq(S)) /\ Len(g) = n
       /\ \A i \in 1 .. n : Len(g[i]) = q[i] /\ g[i] \in Seq(S)
       /\ FlattenSeq(g) = Slice(o, mid, ends)
  <2>1. mid + SumTo(q, Len(q)) <= Len(o) /\ mid + SumTo(q, Len(q)) = ends
    BY <1>4, <1>8
  <2> HIDE DEF S, mid, ends
  <2> QED
    BY <1>0, <1>4, <1>5, <1>8, <2>1, FieldsShape, FieldsJoin, SMTT(30)
<1> HIDE DEF g
<1>12. f[1] \o f[2] \o f[3] \o FlattenSeq(args) = Slice(o, start, ends)
  <2> HIDE DEF S, start, mid, ends, f
  <2>1. Slice(o, start, mid) \o Slice(o, mid, ends) = Slice(o, start, ends)
    BY <1>0, <1>8, SlicesAdjoin
  <2> QED
    BY <1>9, <1>10, <1>11, <2>1
<1>13. ResponseArgs(EncodeAuthorResponse(1, << 3, 5, 7 >>, args)) = args
  <2> DEFINE msg == << 3, 5, 7 >>
  <2>1. msg \in Seq(Nat) /\ Len(msg) = 3
    OBVIOUS
  <2>2. 1 < Octets /\ Len(msg) < Octets
    BY <2>1, OctetsAssumption
  <2> HIDE DEF msg
  <2>3. args \in Seq(Seq(Nat)) /\ Len(args) < Octets /\ \A i \in 1 .. Len(args) : Len(args[i]) < Octets
    <3>1. g \in [1 .. n -> Seq(Nat)]
      <4>1. g = [i \in 1 .. n |-> g[i]] /\ \A i \in 1 .. n : g[i] \in Seq(S)
        BY <1>3, <1>11
      <4>2. \A i \in 1 .. n : g[i] \in Seq(Nat)
        BY <4>1, OctetsAreNumbers
      <4> DEFINE Q == Seq(Nat)
      <4> HIDE DEF Q
      <4>3. g \in [1 .. n -> Q]
        BY <4>1, <4>2 DEF Q
      <4> QED
        BY <4>3 DEF Q
    <3>2. \A i \in 1 .. n : q[i] < Octets
      BY <1>5, OctetsAssumption
    <3>3. g \in Seq(Seq(Nat))
      BY <1>3, <3>1
    <3>4. Len(g) < Octets /\ \A i \in 1 .. Len(g) : Len(g[i]) < Octets
      BY <1>3, <1>11, <3>2
    <3> QED
      BY <1>10, <3>3, <3>4
  <2>4. ResponseArgs(EncodeAuthorResponse(1, msg, args)) = args
    BY <2>1, <2>2, <2>3, ResponseRead
  <2> QED
    BY <2>4 DEF msg
<1> QED
  BY <1>2, <1>12, <1>13

\* Every request, of any length, with octets of any size; the message of the
\* response is three octets long, which is to fit a length octet.
THEOREM ArgsTheorem == ASSUME LettersAreOctets, 3 < Octets PROVE WireSpec => []ArgsMirrored
<1>1. OctetString => ArgsMirrored
  <2> SUFFICES ASSUME OctetString PROVE ArgsMirrored
    OBVIOUS
  <2>1. octets \in Seq(0 .. Octets - 1)
    BY DEF OctetString
  <2> QED
    BY <2>1, AuthorMirrored DEF ArgsMirrored
<1> QED
  BY <1>1, OctetTheorem, PTL

-----------------------------------------------------------------------------
(* A name and a password, and the answer to them. *)

\* Octets are told apart as terms.
LEMMA TextBack ==
    ASSUME NEW o \in Seq(0 .. Octets - 1)
    PROVE  Text(Plain(o)) = o
<1> DEFINE S == 0 .. Octets - 1
           x == Plain(o)
<1>1. DOMAIN x = DOMAIN o /\ \A i \in DOMAIN o : x[i] = {<< 0, o[i] >>}
  BY PlainSequence
<1>2. o = [i \in DOMAIN o |-> o[i]] /\ \A i \in DOMAIN o : o[i] \in S
  <2>1. DOMAIN o = 1 .. Len(o) /\ o = [i \in 1 .. Len(o) |-> o[i]]
    OBVIOUS
  <2> QED
    BY <2>1, OctetsAreNumbers
<1> HIDE DEF x, S
<1>3. \A m, n : {<< 0, m >>} = {<< 0, n >>} => m = n
  <2> SUFFICES ASSUME NEW m, NEW n, {<< 0, m >>} = {<< 0, n >>} PROVE m = n
    OBVIOUS
  <2>1. << 0, m >> = << 0, n >>
    OBVIOUS
  <2>2. << 0, m >>[2] = << 0, n >>[2]
    BY <2>1
  <2> QED
    BY <2>2
<1>4. \A i \in DOMAIN o : (CHOOSE n \in S : x[i] = {<< 0, n >>}) = o[i]
  <2> SUFFICES ASSUME NEW i \in DOMAIN o
               PROVE  (CHOOSE n \in S : x[i] = {<< 0, n >>}) = o[i]
    OBVIOUS
  <2>1. o[i] \in S /\ x[i] = {<< 0, o[i] >>}
    BY <1>1, <1>2
  <2> DEFINE c == CHOOSE n \in S : x[i] = {<< 0, n >>}
  <2>2. c \in S /\ x[i] = {<< 0, c >>}
    BY <2>1
  <2> HIDE DEF c
  <2>3. c = o[i]
    BY <1>3, <2>1, <2>2
  <2> QED
    BY <2>3 DEF c
<1>5. Text(x) = [i \in DOMAIN o |-> CHOOSE n \in S : x[i] = {<< 0, n >>}]
  BY <1>1 DEF Text, S
<1>6. Text(x) = o
  BY <1>2, <1>4, <1>5
<1> QED
  BY <1>6 DEF x

\* A header written and read back obfuscates alike, if its version and its
\* session can be written.
LEMMA HeaderBack ==
    ASSUME 9 < Octets, MajorVer \in Nat, NEW n \in Nat
    PROVE  LET h == [Head1 EXCEPT !.length = n]
               d == DecodeHeader(EncodeHeader(h))
           IN  /\ Hiding(h)
               /\ \A s, secret : CryptPayload(d, s, secret) = CryptPayload(h, s, secret)
<1> DEFINE h == [Head1 EXCEPT !.length = n]
           v == MajorVer * Nibble
           w == << v, TypeAuthen, 1, 0 >>
           x == BigEndian(9, 4)
           y == BigEndian(n, 4)
           e == EncodeHeader(h)
           d == DecodeHeader(e)
<1>1. /\ h.version = v /\ h.type = TypeAuthen /\ h.seqNo = 1 /\ h.flags = 0
      /\ h.sessionID = 9 /\ h.length = n
  BY DEF Head1
<1>2. v \in Nat /\ v \div Nibble = MajorVer
  BY NibbleAssumption
<1>3. /\ x \in Seq(Nat) /\ Len(x) = 4 /\ Number(x) = 9 /\ y \in Seq(Nat) /\ Len(y) = 4
  <2>1. \A k \in Nat : /\ BigEndian(k, 4) \in Seq(0 .. Octets - 1) /\ Len(BigEndian(k, 4)) = 4
                       /\ k < Octets => Number(BigEndian(k, 4)) = k
    BY WrittenThenRead, NumberBack
  <2>2. 9 \in Nat
    OBVIOUS
  <2> QED
    BY <2>1, <2>2, OctetsAreNumbers
<1> HIDE DEF h, v, x, y
<1>4. e = (w \o x) \o y
  BY <1>1 DEF EncodeHeader, x, y
<1>5. w \in Seq(Nat) /\ Len(w) = 4 /\ w[1] = v /\ w[3] = 1 /\ w[4] = 0
  BY <1>2 DEF TypeAuthen
<1> HIDE DEF w, e
<1> DEFINE four == 4
           eight == 8
           u == w \o x
<1>6. /\ four \in Nat /\ eight \in Nat /\ four <= eight /\ eight <= eight /\ four + four = eight
      /\ Len(w) = four /\ Len(x) = four /\ Len(y) = four /\ eight + four = 12
  BY <1>3, <1>5
<1> HIDE DEF four, eight
<1>7. /\ u \in Seq(Nat) /\ Len(u) = eight /\ Slice(u, four, eight) = x
      /\ \A k \in 1 .. Len(w) : u[k] = w[k]
  <2>1. w \in Seq(Nat) /\ x \in Seq(Nat)
    BY <1>3, <1>5
  <2>2. u \in Seq(Nat) /\ Len(u) = Len(w) + Len(x) /\ \A k \in 1 .. Len(w) : u[k] = w[k]
    BY <2>1, Behind
  <2>3. Slice(u, Len(w), Len(w) + Len(x)) = x
    BY <2>1, SliceBack
  <2> HIDE DEF u
  <2> QED
    BY <1>6, <2>2, <2>3
<1> HIDE DEF u
<1>8. /\ Len(e) = 12 /\ Slice(e, four, eight) = x /\ \A k \in 1 .. Len(u) : e[k] = u[k]
  <2>1. u \in Seq(Nat) /\ y \in Seq(Nat)
    BY <1>3, <1>7
  <2>2. /\ Len(u \o y) = Len(u) + Len(y) /\ \A k \in 1 .. Len(u) : (u \o y)[k] = u[k]
        /\ \A i, j \in Nat : i <= j /\ j <= Len(u) => Slice(u \o y, i, j) = Slice(u, i, j)
    BY <2>1, Behind
  <2>3. e = u \o y
    BY <1>4 DEF u
  <2>4. Slice(e, four, eight) = Slice(u, four, eight)
    BY <1>6, <1>7, <2>2, <2>3
  <2> QED
    BY <1>6, <1>7, <2>2, <2>3, <2>4
<1>9. e[1] = v /\ e[3] = 1 /\ e[4] = 0
  <2>1. /\ 1 \in 1 .. Len(w) /\ 3 \in 1 .. Len(w) /\ 4 \in 1 .. Len(w)
        /\ 1 \in 1 .. Len(u) /\ 3 \in 1 .. Len(u) /\ 4 \in 1 .. Len(u)
    BY <1>5, <1>7 DEF eight
  <2> QED
    BY <1>5, <1>7, <1>8, <2>1
<1>10. /\ d.version = v /\ d.seqNo = 1 /\ d.flags = 0 /\ d.sessionID = 9
  <2> DEFINE z == Number(Slice(e, 8, 12))
  <2>1. ~ (Len(e) < HeaderLen) /\ ~ (e[1] \div Nibble # MajorVer)
    BY <1>2, <1>8, <1>9 DEF HeaderLen
  <2>2. Number(Slice(e, 4, 8)) = 9
    BY <1>3, <1>8 DEF four, eight
  <2>3. d = [version |-> v, type |-> e[2], seqNo |-> 1, flags |-> 0, sessionID |-> 9, length |-> z]
    BY <1>9, <2>1, <2>2 DEF DecodeHeader
  <2> HIDE DEF z, d
  <2> QED
    BY <2>3
<1> HIDE DEF d
<1>11. Hiding(h)
  <2>1. ~ (0 % 2 = 1)
    OBVIOUS
  <2> QED
    BY <1>1, <2>1 DEF Hiding, FlagUnencrypted
<1>12. \A s, secret : CryptPayload(d, s, secret) = CryptPayload(h, s, secret)
  BY <1>1, <1>10 DEF CryptPayload, pad
<1> QED
  BY <1>11, <1>12 DEF h, d, e

\* Four strings in a row.
LEMMA FourFlattened ==
    ASSUME NEW S, NEW x \in Seq(S), NEW t \in Seq(Seq(S)), Len(t) = 4
    PROVE  x \o t[1] \o t[2] \o t[3] \o t[4] = x \o FlattenSeq(t)
<1> DEFINE Q == Seq(S)
           a == t[1]
           b == t[2]
           c == t[3]
           d == t[4]
           s == << a, b, c >>
<1>0. a \in Seq(S) /\ b \in Seq(S) /\ c \in Seq(S) /\ d \in Seq(S) /\ t = << a, b, c, d >>
  <2>1. t \in Seq(Q) /\ 1 \in 1 .. Len(t) /\ 2 \in 1 .. Len(t) /\ 3 \in 1 .. Len(t) /\ 4 \in 1 .. Len(t)
    OBVIOUS
  <2> HIDE DEF Q
  <2>2. a \in Q /\ b \in Q /\ c \in Q /\ d \in Q
    BY <2>1, ElementOfSeq
  <2>3. t = << a, b, c, d >>
    BY <2>1
  <2> QED
    BY <2>2, <2>3 DEF Q
<1> HIDE DEF a, b, c, d
<1>1. /\ << >> \in Seq(Q) /\ << a >> \in Seq(Q) /\ << a, b >> \in Seq(Q) /\ s \in Seq(Q)
      /\ << a, b, c, d >> \in Seq(Q)
      /\ << a >> = Append(<< >>, a) /\ << a, b >> = Append(<< a >>, b)
      /\ s = Append(<< a, b >>, c) /\ << a, b, c, d >> = Append(s, d)
  <2>1. a \in Q /\ b \in Q /\ c \in Q /\ d \in Q
    BY <1>0
  <2> HIDE DEF Q
  <2> QED
    BY <2>1
<1>2. /\ FlattenSeq(<< a >>) = << >> \o a /\ FlattenSeq(<< a, b >>) = FlattenSeq(<< a >>) \o b
      /\ FlattenSeq(s) = FlattenSeq(<< a, b >>) \o c
      /\ FlattenSeq(<< a, b, c, d >>) = FlattenSeq(s) \o d
  <2>1. \A r \in Seq(Q), y \in Seq(S) : /\ FlattenSeq(<< >>) = << >>
                                        /\ FlattenSeq(Append(r, y)) = FlattenSeq(r) \o y
    BY FlattenSeqAppend
  <2> HIDE DEF s, Q
  <2> QED
    BY <1>0, <1>1, <2>1
<1>3. << >> \o a = a
  BY <1>0, ConcatEmptySeq
<1>4. FlattenSeq(<< a, b, c, d >>) = a \o b \o c \o d
  BY <1>2, <1>3
<1>5. /\ a \o b \in Seq(S) /\ a \o b \o c \in Seq(S)
  BY <1>0
<1>6. /\ (x \o a) \o b = x \o (a \o b)
      /\ (x \o (a \o b)) \o c = x \o ((a \o b) \o c)
      /\ (x \o ((a \o b) \o c)) \o d = x \o (((a \o b) \o c) \o d)
  <2> DEFINE e == a \o b
             g == e \o c
  <2>1. e \in Seq(S) /\ g \in Seq(S)
    BY <1>5
  <2>2. (x \o a) \o b = x \o e
    <3>1. a \in Seq(S) /\ b \in Seq(S)
      BY <1>0
    <3> QED
      BY <3>1, ConcatAssociative, SMTT(30)
  <2> HIDE DEF e
  <2>3. (x \o e) \o c = x \o g
    <3>1. e \in Seq(S) /\ c \in Seq(S)
      BY <1>0, <2>1
    <3> QED
      BY <3>1, ConcatAssociative, SMTT(30)
  <2> HIDE DEF g
  <2>4. (x \o g) \o d = x \o (g \o d)
    <3>1. g \in Seq(S)
      BY <2>1
    <3> QED
      BY <1>0, <3>1, ConcatAssociative, SMTT(30)
  <2> QED
    BY <2>2, <2>3, <2>4 DEF e, g
<1>7. x \o a \o b \o c \o d = x \o (a \o b \o c \o d)
  BY <1>6
<1> QED
  BY <1>0, <1>4, <1>7 DEF a, b, c, d

\* How a START is laid out: eight octets, the last four the lengths of the
\* strings behind them, as far as an octet goes.
Laid(body, user, port, remAddr, pass) ==
    \E head \in Seq(0 .. Octets - 1) :
        /\ Len(head) = 8 /\ body \in Seq(0 .. Octets - 1)
        /\ Len(body) = 8 + Len(user) + Len(port) + Len(remAddr) + Len(pass)
        /\ body = head \o FlattenSeq(<< user, port, remAddr, pass >>)
        /\ body[3] = AuthenTypeASCII
        /\ Slice(body, 4, 8) = << Len(user) % Octets, Len(port) % Octets,
                                 Len(remAddr) % Octets, Len(pass) % Octets >>

LEMMA StartLengths ==
    ASSUME 1 < Octets, NEW user \in Seq(0 .. Octets - 1), NEW port \in Seq(0 .. Octets - 1),
           NEW remAddr \in Seq(0 .. Octets - 1), NEW pass \in Seq(0 .. Octets - 1)
    PROVE  Laid(StartBody(user, port, remAddr, pass), user, port, remAddr, pass)
<1> DEFINE S == 0 .. Octets - 1
           i == Len(user) % Octets
           j == Len(port) % Octets
           k == Len(remAddr) % Octets
           l == Len(pass) % Octets
           head == << 1, 1, AuthenTypeASCII, 1, i, j, k, l >>
           body == StartBody(user, port, remAddr, pass)
           lens == << i, j, k, l >>
           a == head \o user
           b == a \o port
           c == b \o remAddr
           d == c \o pass
<1>1. i \in S /\ j \in S /\ k \in S /\ l \in S /\ 1 \in S
  <2>1. Len(user) \in Nat /\ Len(port) \in Nat /\ Len(remAddr) \in Nat /\ Len(pass) \in Nat
    OBVIOUS
  <2>2. 1 \in S
    BY OctetsAssumption
  <2> QED
    BY <2>1, <2>2, OctetsOf
<1>2. body = d
  BY DEF StartBody
<1> HIDE DEF i, j, k, l, S
<1>3. head \in Seq(S) /\ Len(head) = 8 /\ head[3] = AuthenTypeASCII
  BY <1>1 DEF AuthenTypeASCII
<1>4. Slice(head, 4, 8) = lens
  <2>1. SubSeq(head, 5, 8) = lens
    <3> DEFINE p == 4
               q == 8
    <3>1. p \in Nat /\ q \in Nat /\ p + 1 = 5 /\ q - p = 4
      OBVIOUS
    <3> HIDE DEF p, q
    <3>2. SubSeq(head, p + 1, q) = [m \in 1 .. q - p |-> head[p + m]]
      BY <3>1, SubSeqBy
    <3>3. SubSeq(head, p + 1, q) = [m \in 1 .. 4 |-> head[4 + m]]
      BY <3>1, <3>2 DEF p
    <3>4. lens = [m \in 1 .. 4 |-> lens[m]] /\ \A m \in 1 .. 4 : m = 1 \/ m = 2 \/ m = 3 \/ m = 4
      OBVIOUS
    <3>5. /\ head[4 + 1] = lens[1] /\ head[4 + 2] = lens[2] /\ head[4 + 3] = lens[3]
          /\ head[4 + 4] = lens[4]
      OBVIOUS
    <3> HIDE DEF head, lens
    <3>6. SubSeq(head, p + 1, q) = lens
      BY <3>3, <3>4, <3>5
    <3> QED
      BY <3>1, <3>6 DEF q
  <2>2. 4 <= 8 /\ 8 <= Len(head) /\ 4 + 1 = 5
    BY <1>3
  <2> HIDE DEF head, lens
  <2> QED
    BY <2>1, <2>2 DEF Slice
<1> HIDE DEF head, lens
<1>5. user \in Seq(S) /\ port \in Seq(S) /\ remAddr \in Seq(S) /\ pass \in Seq(S)
  BY DEF S
<1>6. d = head \o FlattenSeq(<< user, port, remAddr, pass >>)
  <2>1. head \o user \o port \o remAddr \o pass = head \o FlattenSeq(<< user, port, remAddr, pass >>)
    <3>1. head \in Seq(S)
      BY <1>3
    <3> DEFINE Q == Seq(S)
               t == << user, port, remAddr, pass >>
    <3>2. user \in Q /\ port \in Q /\ remAddr \in Q /\ pass \in Q
      BY <1>5
    <3> HIDE DEF Q
    <3>3. /\ t \in Seq(Q) /\ Len(t) = 4
          /\ t[1] = user /\ t[2] = port /\ t[3] = remAddr /\ t[4] = pass
      BY <3>2
    <3> HIDE DEF t
    <3>4. t \in Seq(Seq(S))
      BY <3>3 DEF Q
    <3>5. head \o t[1] \o t[2] \o t[3] \o t[4] = head \o FlattenSeq(t)
      BY <3>1, <3>3, <3>4, FourFlattened
    <3> QED
      BY <3>3, <3>5 DEF t
  <2> QED
    BY <2>1
<1> DEFINE Kept(x, y) == /\ y \in Seq(S) /\ Len(x) <= Len(y) /\ \A m \in 1 .. Len(x) : y[m] = x[m]
                         /\ \A p, q \in Nat : p <= q /\ q <= Len(x) => Slice(y, p, q) = Slice(x, p, q)
<1>7. \A x, y \in Seq(S) : Kept(x, x \o y) /\ Len(x \o y) = Len(x) + Len(y) /\ Len(x) \in Nat
  <2> SUFFICES ASSUME NEW x \in Seq(S), NEW y \in Seq(S)
               PROVE  Kept(x, x \o y) /\ Len(x \o y) = Len(x) + Len(y) /\ Len(x) \in Nat
    OBVIOUS
  <2>1. Len(x) \in Nat /\ Len(y) \in Nat
    OBVIOUS
  <2>2. /\ x \o y \in Seq(S) /\ Len(x \o y) = Len(x) + Len(y)
        /\ \A m \in 1 .. Len(x) : (x \o y)[m] = x[m]
        /\ \A p, q \in Nat : p <= q /\ q <= Len(x) => Slice(x \o y, p, q) = Slice(x, p, q)
    BY Behind
  <2>3. Len(x) <= Len(x \o y)
    BY <2>1, <2>2
  <2> QED
    BY <2>1, <2>2, <2>3
<1>8. a \in Seq(S) /\ b \in Seq(S) /\ c \in Seq(S)
  BY <1>3, <1>5, <1>7
<1>9. Kept(head, a) /\ Kept(a, b) /\ Kept(b, c) /\ Kept(c, d)
  <2> HIDE DEF Kept
  <2> QED
    BY <1>3, <1>5, <1>7, <1>8
<1>10. /\ Len(a) = Len(head) + Len(user) /\ Len(b) = Len(a) + Len(port)
       /\ Len(c) = Len(b) + Len(remAddr) /\ Len(d) = Len(c) + Len(pass)
       /\ Len(user) \in Nat /\ Len(port) \in Nat /\ Len(remAddr) \in Nat /\ Len(pass) \in Nat
  <2> HIDE DEF Kept
  <2> QED
    BY <1>3, <1>5, <1>7, <1>8
<1> HIDE DEF a, b, c, d
<1>11. /\ 8 <= Len(a) /\ 8 <= Len(b) /\ 8 <= Len(c)
       /\ Len(d) = 8 + Len(user) + Len(port) + Len(remAddr) + Len(pass)
  BY <1>3, <1>10
<1>12. d[3] = head[3]
  <2>1. 3 \in 1 .. Len(head) /\ 3 \in 1 .. Len(a) /\ 3 \in 1 .. Len(b) /\ 3 \in 1 .. Len(c)
    <3>1. Len(a) \in Nat /\ Len(b) \in Nat /\ Len(c) \in Nat
      BY <1>8
    <3> QED
      BY <1>3, <1>11, <3>1
  <2>2. d[3] = c[3] /\ c[3] = b[3] /\ b[3] = a[3] /\ a[3] = head[3]
    BY <1>9, <2>1
  <2> QED
    BY <2>2
<1>13. Slice(d, 4, 8) = Slice(head, 4, 8)
  <2> DEFINE p == 4
             q == 8
  <2>1. /\ p \in Nat /\ q \in Nat /\ p <= q
        /\ q <= Len(head) /\ q <= Len(a) /\ q <= Len(b) /\ q <= Len(c)
    BY <1>3, <1>11
  <2> HIDE DEF p, q
  <2>2. /\ Slice(d, p, q) = Slice(c, p, q) /\ Slice(c, p, q) = Slice(b, p, q)
        /\ Slice(b, p, q) = Slice(a, p, q) /\ Slice(a, p, q) = Slice(head, p, q)
    BY <1>9, <2>1
  <2>3. Slice(d, p, q) = Slice(head, p, q)
    BY <2>2
  <2> QED
    BY <2>3 DEF p, q
<1>14. d \in Seq(S)
  BY <1>9
<1>15. /\ head \in Seq(S) /\ Len(head) = 8 /\ body \in Seq(S)
       /\ Len(body) = 8 + Len(user) + Len(port) + Len(remAddr) + Len(pass)
       /\ body = head \o FlattenSeq(<< user, port, remAddr, pass >>)
       /\ body[3] = AuthenTypeASCII /\ Slice(body, 4, 8) = lens
  BY <1>2, <1>3, <1>4, <1>6, <1>11, <1>12, <1>13, <1>14
<1> HIDE DEF body
<1>16. \E e \in Seq(S) : /\ Len(e) = 8 /\ body \in Seq(S)
                         /\ Len(body) = 8 + Len(user) + Len(port) + Len(remAddr) + Len(pass)
                         /\ body = e \o FlattenSeq(<< user, port, remAddr, pass >>)
                         /\ body[3] = AuthenTypeASCII /\ Slice(body, 4, 8) = lens
  BY <1>15
<1> QED
  BY <1>16 DEF Laid, S, body, lens, i, j, k, l

\* A START that the client writes, as the server reads it: no string is longer
\* than its length octet says, and all are what was given when that fits.
LEMMA StartRead ==
    ASSUME 1 < Octets, NEW user \in Seq(0 .. Octets - 1), NEW port \in Seq(0 .. Octets - 1),
           NEW remAddr \in Seq(0 .. Octets - 1), NEW pass \in Seq(0 .. Octets - 1)
    PROVE  LET s == DecodeAuthenStart(StartBody(user, port, remAddr, pass))
           IN  /\ s # NoStart /\ s.type = AuthenTypeASCII
               /\ Len(s.user) < Octets /\ Len(s.data) < Octets
               /\ (Len(user) < Octets /\ Len(port) < Octets /\ Len(remAddr) < Octets
                    /\ Len(pass) < Octets) => s.user = user /\ s.data = pass
<1> DEFINE S == 0 .. Octets - 1
           body == StartBody(user, port, remAddr, pass)
           i == Len(user) % Octets
           j == Len(port) % Octets
           k == Len(remAddr) % Octets
           l == Len(pass) % Octets
           lens == << i, j, k, l >>
           t == << user, port, remAddr, pass >>
           f == Fields(body, 8, lens)
           s == DecodeAuthenStart(body)
<1>1. PICK head \in Seq(S) :
         /\ Len(head) = 8 /\ body \in Seq(S)
         /\ Len(body) = 8 + Len(user) + Len(port) + Len(remAddr) + Len(pass)
         /\ body = head \o FlattenSeq(t)
         /\ body[3] = AuthenTypeASCII /\ Slice(body, 4, 8) = lens
  <2>1. Laid(body, user, port, remAddr, pass)
    BY StartLengths
  <2> HIDE DEF body
  <2> QED
    BY <2>1 DEF Laid
<1> HIDE DEF body
<1>2. /\ Len(user) \in Nat /\ Len(port) \in Nat /\ Len(remAddr) \in Nat /\ Len(pass) \in Nat
      /\ Octets \in Nat
  BY OctetsAssumption
<1>3. \A n \in Nat : n % Octets \in Nat /\ n % Octets < Octets /\ n % Octets <= n
                     /\ (n < Octets => n % Octets = n)
  <2> SUFFICES ASSUME NEW n \in Nat
               PROVE  /\ n % Octets \in Nat /\ n % Octets < Octets /\ n % Octets <= n
                      /\ n < Octets => n % Octets = n
    OBVIOUS
  <2>1. n % Octets \in 0 .. Octets - 1 /\ (n < Octets => n % Octets = n)
    BY OctetsOf
  <2> DEFINE m == n % Octets
  <2> HIDE DEF m
  <2>2. m \in 0 .. Octets - 1 /\ (n < Octets => m = n)
    BY <2>1 DEF m
  <2>3. m \in Nat /\ m < Octets /\ m <= n
    BY <1>2, <2>2
  <2> QED
    BY <2>2, <2>3 DEF m
<1>4. /\ i \in Nat /\ i < Octets /\ i <= Len(user) /\ j \in Nat /\ j <= Len(port)
      /\ k \in Nat /\ k <= Len(remAddr) /\ l \in Nat /\ l < Octets /\ l <= Len(pass)
  BY <1>2, <1>3
<1>5. Len(user) < Octets /\ Len(port) < Octets /\ Len(remAddr) < Octets /\ Len(pass) < Octets
        => lens = Lens(t)
  <2>1. Lens(t) = [n \in 1 .. 4 |-> Len(t[n])] /\ t[1] = user /\ t[2] = port /\ t[3] = remAddr
        /\ t[4] = pass
    BY DEF Lens
  <2>2. lens = [n \in 1 .. 4 |-> lens[n]] /\ lens[1] = i /\ lens[2] = j /\ lens[3] = k /\ lens[4] = l
    OBVIOUS
  <2>3. \A n \in 1 .. 4 : n = 1 \/ n = 2 \/ n = 3 \/ n = 4
    OBVIOUS
  <2> HIDE DEF lens, t
  <2>4. Len(user) < Octets /\ Len(port) < Octets /\ Len(remAddr) < Octets /\ Len(pass) < Octets
          => \A n \in 1 .. 4 : lens[n] = Len(t[n])
    BY <1>2, <1>3, <2>1, <2>2, <2>3, ZenonT(40)
  <2> QED
    BY <2>1, <2>2, <2>4
<1> HIDE DEF i, j, k, l
<1>6. lens \in Seq(Nat) /\ Len(lens) = 4 /\ lens[1] = i /\ lens[2] = j /\ lens[3] = k /\ lens[4] = l
  BY <1>4
<1> HIDE DEF lens
<1>7. SumTo(lens, 4) = i + j + k + l
  <2>1. /\ \A n \in 0 .. 3 : SumTo(lens, n + 1) = SumTo(lens, n) + lens[n + 1]
        /\ \A n \in 0 .. 4 : SumTo(lens, n) \in Nat
    <3>1. lens \in Seq(Nat) /\ 0 .. Len(lens) - 1 = 0 .. 3 /\ 0 .. Len(lens) = 0 .. 4
      BY <1>6
    <3>2. /\ \A n \in 0 .. Len(lens) - 1 : SumTo(lens, n + 1) = SumTo(lens, n) + lens[n + 1]
          /\ \A n \in 0 .. Len(lens) : SumTo(lens, n) \in Nat
      BY <3>1, SumSteps
    <3> QED
      BY <3>1, <3>2
  <2>2. /\ SumTo(lens, 1) = SumTo(lens, 0) + i /\ SumTo(lens, 2) = SumTo(lens, 1) + j
        /\ SumTo(lens, 3) = SumTo(lens, 2) + k /\ SumTo(lens, 4) = SumTo(lens, 3) + l
    <3>1. /\ SumTo(lens, 0 + 1) = SumTo(lens, 0) + lens[0 + 1]
          /\ SumTo(lens, 1 + 1) = SumTo(lens, 1) + lens[1 + 1]
          /\ SumTo(lens, 2 + 1) = SumTo(lens, 2) + lens[2 + 1]
          /\ SumTo(lens, 3 + 1) = SumTo(lens, 3) + lens[3 + 1]
      BY <2>1
    <3>2. 0 + 1 = 1 /\ 1 + 1 = 2 /\ 2 + 1 = 3 /\ 3 + 1 = 4
      OBVIOUS
    <3> QED
      BY <1>6, <3>1, <3>2
  <2> DEFINE a == SumTo(lens, 1)
             b == SumTo(lens, 2)
             c == SumTo(lens, 3)
             d == SumTo(lens, 4)
  <2>3. SumTo(lens, 0) = 0
    BY <1>6, SumSteps
  <2>4. /\ a \in Nat /\ b \in Nat /\ c \in Nat /\ d \in Nat
        /\ a = 0 + i /\ b = a + j /\ c = b + k /\ d = c + l
    BY <2>1, <2>2, <2>3
  <2> HIDE DEF a, b, c, d
  <2>5. d = i + j + k + l
    BY <1>4, <2>4
  <2> QED
    BY <2>5 DEF d
<1>8. ~ (Len(body) < 8) /\ ~ (Len(body) < 8 + SumTo(lens, 4)) /\ 8 + SumTo(lens, Len(lens)) <= Len(body)
  <2> DEFINE d == SumTo(lens, 4)
  <2>1. d = i + j + k + l /\ SumTo(lens, Len(lens)) = d
    BY <1>6, <1>7
  <2> DEFINE m == Len(body)
             u == Len(user)
             v == Len(port)
             w == Len(remAddr)
             x == Len(pass)
  <2>2. /\ m = 8 + u + v + w + x /\ u \in Nat /\ v \in Nat /\ w \in Nat /\ x \in Nat
        /\ i <= u /\ j <= v /\ k <= w /\ l <= x
        /\ i \in Nat /\ j \in Nat /\ k \in Nat /\ l \in Nat
    BY <1>1, <1>2, <1>4
  <2> HIDE DEF d, m, u, v, w, x
  <2>3. ~ (m < 8) /\ ~ (m < 8 + d) /\ 8 + d <= m
    BY <2>1, <2>2
  <2> QED
    BY <2>1, <2>3 DEF d, m
<1>9. s.type = AuthenTypeASCII /\ s.user = f[1] /\ s.data = f[4]
  <2>1. s = [type |-> body[3], user |-> f[1], port |-> f[2], remAddr |-> f[3], data |-> f[4]]
    BY <1>1, <1>8 DEF DecodeAuthenStart
  <2> HIDE DEF s, f
  <2> QED
    BY <1>1, <2>1
<1> HIDE DEF s
<1>10. f[1] \in Seq(S) /\ Len(f[1]) = i /\ Len(f[4]) = l
  <2>1. \A n \in 1 .. Len(lens) : f[n] \in Seq(S) /\ Len(f[n]) = lens[n]
    <3> DEFINE eight == 8
    <3>1. /\ eight \in Nat /\ eight + SumTo(lens, Len(lens)) <= Len(body) /\ body \in Seq(S)
          /\ lens \in Seq(Nat)
      BY <1>1, <1>6, <1>8
    <3> HIDE DEF eight, f, S
    <3>2. \A n \in 1 .. Len(lens) : /\ Fields(body, eight, lens)[n] \in Seq(S)
                                    /\ Len(Fields(body, eight, lens)[n]) = lens[n]
      BY <3>1, FieldsShape
    <3> QED
      BY <3>2 DEF eight, f
  <2> HIDE DEF f, S
  <2>2. 1 \in 1 .. Len(lens) /\ 4 \in 1 .. Len(lens)
    BY <1>6
  <2> QED
    BY <1>6, <2>1, <2>2
<1>11. lens = Lens(t) => f = t
  <2>1. t \in Seq(Seq(S)) /\ head \in Seq(S) /\ Len(head) = 8
    <3> DEFINE Q == Seq(S)
    <3>1. user \in Q /\ port \in Q /\ remAddr \in Q /\ pass \in Q
      OBVIOUS
    <3> HIDE DEF Q
    <3>2. t \in Seq(Q)
      BY <3>1
    <3> HIDE DEF t
    <3> QED
      BY <1>1, <3>2 DEF Q
  <2> HIDE DEF t, S
  <2>2. Fields(head \o FlattenSeq(t), Len(head), Lens(t)) = t
    BY <2>1, FieldsBack
  <2> QED
    BY <1>1, <2>1, <2>2
<1>12. f = t => f[1] = user /\ f[4] = pass
  <2>1. t[1] = user /\ t[4] = pass
    OBVIOUS
  <2> HIDE DEF f, t
  <2> QED
    BY <2>1
<1>13. s # NoStart
  <2>1. f[1] # NoOctets
    BY <1>10, OctetsNoError
  <2>2. NoStart.user = NoOctets
    BY DEF NoStart
  <2> HIDE DEF f
  <2> QED
    BY <1>9, <2>1, <2>2
<1> HIDE DEF f, t
<1>14. /\ Len(s.user) < Octets /\ Len(s.data) < Octets
  BY <1>4, <1>9, <1>10
<1> QED
  BY <1>5, <1>9, <1>11, <1>12, <1>13, <1>14 DEF s, body

\* What the client sends under a header and a secret is what the server decodes.
LEMMA AskedStart ==
    ASSUME 9 < Octets, MajorVer \in Nat,
           NEW user \in Seq(0 .. Octets - 1), NEW pass \in Seq(0 .. Octets - 1)
    PROVE  Asked(user, pass) = DecodeAuthenStart(StartBody(user, << 6 >>, << 7, 7 >>, pass))
<1> DEFINE S == 0 .. Octets - 1
           body == StartBody(user, << 6 >>, << 7, 7 >>, pass)
           h == [Head1 EXCEPT !.length = Len(body)]
           d == DecodeHeader(EncodeHeader(h))
           x == Plain(body)
           wire == CryptPayload(h, x, "secret")
<1>1. body \in Seq(S) /\ Len(body) \in Nat
  <2>1. 1 < Octets /\ << 6 >> \in Seq(S) /\ << 7, 7 >> \in Seq(S)
    BY OctetsAssumption
  <2>2. body \in Seq(S)
    BY <2>1, StartLengths DEF Laid
  <2> HIDE DEF body
  <2> QED
    BY <2>2
<1>2. Asked(user, pass) = DecodeAuthenStart(Text(CryptPayload(d, wire, "secret")))
  BY DEF Asked
<1> HIDE DEF body
<1>3. Hiding(h) /\ \A s, secret : CryptPayload(d, s, secret) = CryptPayload(h, s, secret)
  BY <1>1, HeaderBack
<1> HIDE DEF h, d
<1>4. PICK T : x \in Seq(T)
  BY <1>1, PlainSequence
<1> HIDE DEF x
<1>5. CryptPayload(h, wire, "secret") = x
  BY <1>3, <1>4, CryptUndone
<1>6. Text(x) = body
  BY <1>1, TextBack DEF x
<1> HIDE DEF wire
<1>7. Asked(user, pass) = DecodeAuthenStart(body)
  BY <1>2, <1>3, <1>5, <1>6
<1> QED
  BY <1>7 DEF body

\* What fits two octets with room for a header is not wrapped.
LEMMA Unwrapped ==
    ASSUME 9 < Octets
    PROVE  /\ Word \in Nat /\ 6 < Word /\ Word = Octets * Octets
           /\ \A n \in Nat : n < Word => n % Word = n
           /\ \A n \in Nat : n % Word \in Nat /\ n % Word < Word /\ n % Word <= n
<1>1. Octets \in Nat /\ Octets <= Octets * Octets
  BY OctetsAssumption
<1>2. Word \in Nat /\ Octets <= Word
  BY <1>1 DEF Word
<1>3. \A n, w \in Nat : n < w => n % w = n
  OBVIOUS
<1>4. \A n, w \in Nat : 0 < w => n % w \in Nat /\ n % w < w /\ n % w <= n
  OBVIOUS
<1>5. Word = Octets * Octets
  BY DEF Word
<1> QED
  BY <1>1, <1>2, <1>3, <1>4, <1>5

\* A reply written and read back.
LEMMA ReplyRead ==
    ASSUME 9 < Octets,
           NEW status \in 0 .. Octets - 1, NEW msg \in Seq(0 .. Octets - 1),
           Len(msg) + 6 < Word
    PROVE  LET body == EncodeReply(status, msg, << >>)
           IN  /\ body \in Seq(0 .. Octets - 1)
               /\ Len(body) = 6 + Len(msg)
               /\ ReadReply(body) = [status |-> status, msg |-> msg]
<1> DEFINE S == 0 .. Octets - 1
           m == Len(msg)
           w == Answer(status, 0, m)
           body == EncodeReply(status, msg, << >>)
           y == w \o msg
<1>0. m \in Nat /\ 0 \in S /\ m < Octets * Octets /\ m < Word /\ m % Word = m
      /\ 0 % Word = 0 /\ 6 + m < Word /\ 6 + m \in Nat /\ (6 + m) % Word = 6 + m
  <2>1. m \in Nat /\ 0 \in S
    BY OctetsAssumption
  <2> HIDE DEF m
  <2>2. Word \in Nat /\ m + 6 < Word
    BY Unwrapped DEF m
  <2>3. m < Word /\ 0 < Word /\ 6 + m < Word /\ 6 + m \in Nat
    BY <2>1, <2>2
  <2> QED
    BY <2>1, <2>3, Unwrapped
<1>1. /\ w \in Seq(S) /\ Len(w) = 6 /\ w[1] = status /\ Number(Slice(w, 2, 4)) = m
  BY <1>0, AnswerOctets
<1>2. body = (w \o msg) \o << >>
  <2>1. Len(<< >>) = 0 /\ SubSeq(<< >>, 1, 0) = << >>
    OBVIOUS
  <2>2. SubSeq(msg, 1, m) = msg
    OBVIOUS
  <2> HIDE DEF m
  <2>3. 6 + m + 0 = 6 + m /\ ~ (6 + m >= Word)
    BY <1>0, Unwrapped
  <2>4. EncodeReply(status, msg, << >>) =
          << status, 0 >> \o BigEndian(m, 2) \o BigEndian(0, 2)
            \o SubSeq(msg, 1, m) \o SubSeq(<< >>, 1, 0)
    BY <1>0, <2>1, <2>3 DEF EncodeReply, m
  <2> QED
    BY <2>1, <2>2, <2>4 DEF Answer
<1> HIDE DEF w, S, m
<1>3. msg \in Seq(S)
  BY DEF S
<1>4. /\ y \in Seq(S) /\ Len(y) = Len(w) + Len(msg) /\ \A k \in 1 .. Len(w) : y[k] = w[k]
      /\ \A i, j \in Nat : i <= j /\ j <= Len(w) => Slice(y, i, j) = Slice(w, i, j)
  <2>1. w \in Seq(S) /\ msg \in Seq(S)
    BY <1>1, <1>3
  <2> QED
    BY <2>1, Behind
<1>5. Slice(y, Len(w), Len(w) + Len(msg)) = msg
  <2>1. w \in Seq(S) /\ msg \in Seq(S)
    BY <1>1, <1>3
  <2> QED
    BY <2>1, SliceBack
<1> HIDE DEF y
<1>6. body = y
  BY <1>2, <1>4, ConcatEmptySeq DEF y
<1> HIDE DEF body
<1>7. body[1] = status
  <2>1. 1 \in 1 .. Len(w)
    BY <1>1
  <2> QED
    BY <1>1, <1>4, <1>6, <2>1
<1>8. Slice(body, 2, 4) = Slice(w, 2, 4)
  <2> DEFINE i == 2
             j == 4
  <2>1. i \in Nat /\ j \in Nat /\ i <= j /\ j <= Len(w)
    BY <1>1
  <2> HIDE DEF i, j
  <2>2. Slice(y, i, j) = Slice(w, i, j)
    BY <1>4, <2>1
  <2> QED
    BY <1>6, <2>2 DEF i, j
<1>9. Slice(body, 6, 6 + m) = msg
  BY <1>1, <1>5, <1>6 DEF m
<1>10. Len(body) = 6 + m /\ m <= Len(body) - 6
  <2>1. Len(body) = 6 + m
    BY <1>1, <1>4, <1>6 DEF m
  <2> QED
    BY <1>0, <2>1
<1>11. ReadReply(body) = [status |-> status, msg |-> msg]
  BY <1>0, <1>1, <1>7, <1>8, <1>9, <1>10 DEF ReadReply
<1>12. body \in Seq(S)
  BY <1>4, <1>6
<1> QED
  BY <1>10, <1>11, <1>12 DEF body, S, m

\* Of any message, what fits the length that is written is encoded, unless 6 more
\* than that length does not fit two octets.
LEMMA ReplyCut ==
    ASSUME 9 < Octets,
           NEW status \in 0 .. Octets - 1, NEW msg \in Seq(0 .. Octets - 1)
    PROVE  LET m   == Len(msg) % Word
               cut == SubSeq(msg, 1, m)
           IN  /\ m \in Nat /\ cut \in Seq(0 .. Octets - 1) /\ Len(cut) = m
               /\ 6 + m >= Word => EncodeReply(status, msg, << >>) = OutOfRange
               /\ 6 + m < Word =>
                     EncodeReply(status, msg, << >>) = EncodeReply(status, cut, << >>)
<1> DEFINE S == 0 .. Octets - 1
           m == Len(msg) % Word
           cut == SubSeq(msg, 1, m)
<1>1. m \in Nat /\ m <= Len(msg) /\ m < Word /\ 0 % Word = 0
  <2>1. Word \in Nat /\ 6 < Word
    BY Unwrapped
  <2>2. Len(msg) \in Nat /\ 0 \in Nat /\ 0 < Word
    BY <2>1
  <2> QED
    BY <2>2, Unwrapped
<1>2. cut \in Seq(S) /\ Len(cut) = m
  <2> HIDE DEF m, S
  <2>1. msg \in Seq(S)
    BY DEF S
  <2> QED
    BY <1>1, <2>1
<1>3. SubSeq(cut, 1, m) = cut
  <2> HIDE DEF m, S
  <2>1. \A t \in Seq(S) : SubSeq(t, 1, Len(t)) = t
    OBVIOUS
  <2> HIDE DEF cut
  <2> QED
    BY <1>2, <2>1
<1>4. m % Word = m
  <2> HIDE DEF m
  <2> QED
    BY <1>1, Unwrapped
<1>5. Len(<< >>) = 0
  OBVIOUS
<1>6. ASSUME NEW c
      PROVE  EncodeReply(status, c, << >>) =
               IF 6 + (Len(c) % Word) + 0 >= Word THEN OutOfRange
               ELSE << status, 0 >> \o BigEndian(Len(c) % Word, 2) \o BigEndian(0, 2)
                      \o SubSeq(c, 1, Len(c) % Word) \o SubSeq(<< >>, 1, 0)
  <2> HIDE DEF m, cut
  <2> QED
    BY <1>1, <1>5 DEF EncodeReply
<1> DEFINE Encoded(c) == << status, 0 >> \o BigEndian(m, 2) \o BigEndian(0, 2)
                           \o c \o SubSeq(<< >>, 1, 0)
<1>7. EncodeReply(status, msg, << >>) = IF 6 + m + 0 >= Word THEN OutOfRange ELSE Encoded(cut)
  BY <1>6
<1>8. EncodeReply(status, cut, << >>) = IF 6 + m + 0 >= Word THEN OutOfRange ELSE Encoded(cut)
  <2>1. Len(cut) % Word = m /\ SubSeq(cut, 1, Len(cut) % Word) = cut
    BY <1>2, <1>3, <1>4
  <2> HIDE DEF cut, m
  <2> QED
    BY <1>6, <2>1
<1> HIDE DEF cut, m, Encoded, S
<1>9. 6 + m >= Word => EncodeReply(status, msg, << >>) = OutOfRange
  BY <1>1, <1>7
<1>10. 6 + m < Word => EncodeReply(status, msg, << >>) = EncodeReply(status, cut, << >>)
  BY <1>7, <1>8
<1> QED
  BY <1>1, <1>2, <1>9, <1>10 DEF cut, m, S

\* A message is read back whole exactly when 6 more than its length fits two
\* octets, and its encoder fails exactly when 6 more than the length that it writes
\* does not.
LEMMA ReplyBounded ==
    ASSUME 9 < Octets,
           NEW status \in 0 .. Octets - 1, NEW msg \in Seq(0 .. Octets - 1)
    PROVE  LET reply == EncodeReply(status, msg, << >>)
           IN  /\ ReadReply(reply) = [status |-> status, msg |-> msg] <=> Len(msg) + 6 < Word
               /\ reply = OutOfRange <=> 6 + (Len(msg) % Word) >= Word
<1> DEFINE S == 0 .. Octets - 1
           L == Len(msg)
           m == L % Word
           cut == SubSeq(msg, 1, m)
           reply == EncodeReply(status, msg, << >>)
<1>1. L \in Nat /\ Word \in Nat /\ 6 < Word
  BY Unwrapped
<1>2. /\ m \in Nat /\ cut \in Seq(S) /\ Len(cut) = m
      /\ 6 + m >= Word => reply = OutOfRange
      /\ 6 + m < Word => reply = EncodeReply(status, cut, << >>)
  BY ReplyCut
<1>3. m <= L /\ (L < Word => m = L) /\ m < Word
  BY <1>1, Unwrapped
<1> HIDE DEF L, m, cut, reply
<1>4. CASE 6 + m >= Word
  <2>1. reply = OutOfRange
    BY <1>2, <1>4
  <2>2. ~ (L + 6 < Word)
    BY <1>1, <1>2, <1>3, <1>4
  <2>3. ReadReply(reply).status = -2
    <3>1. OutOfRange[1] = -2
      BY DEF OutOfRange
    <3> QED
      BY <2>1, <3>1 DEF ReadReply
  <2>4. [status |-> status, msg |-> msg].status = status /\ status # -2
    BY OctetsAssumption
  <2>5. ReadReply(reply) # [status |-> status, msg |-> msg]
    BY <2>3, <2>4
  <2> QED
    BY <1>4, <2>1, <2>2, <2>5 DEF reply, L, m
<1>5. CASE 6 + m < Word
  <2>1. m + 6 < Word /\ ~ (6 + m >= Word)
    BY <1>1, <1>2, <1>5
  <2>2. /\ Len(reply) = 6 + m /\ ReadReply(reply) = [status |-> status, msg |-> cut]
    <3>1. Len(cut) + 6 < Word
      BY <1>2, <2>1
    <3>2. cut \in Seq(0 .. Octets - 1)
      BY <1>2 DEF S
    <3> QED
      BY <1>2, <1>5, <3>1, <3>2, ReplyRead
  <2>3. reply # OutOfRange
    <3>1. Len(OutOfRange) = 1 /\ 6 + m # 1
      BY <1>2 DEF OutOfRange
    <3> QED
      BY <2>2, <3>1
  <2>4. L + 6 < Word <=> m = L
    <3>1. L + 6 < Word => L < Word
      BY <1>1
    <3>2. m = L => L + 6 < Word
      BY <2>1
    <3> QED
      BY <1>3, <3>1, <3>2
  <2>5. m = L <=> cut = msg
    <3>1. m = L => cut = msg
      BY DEF cut, L, S
    <3>2. cut = msg => m = L
      BY <1>2 DEF L
    <3> QED
      BY <3>1, <3>2
  <2>6. ReadReply(reply) = [status |-> status, msg |-> msg] <=> cut = msg
    <3>1. \A a, b : [status |-> status, msg |-> a] = [status |-> status, msg |-> b] <=> a = b
      OBVIOUS
    <3> QED
      BY <2>2, <3>1
  <2> QED
    BY <2>1, <2>3, <2>4, <2>5, <2>6 DEF reply, L, m
<1>6. 6 + m >= Word \/ 6 + m < Word
  BY <1>1, <1>2
<1> QED
  BY <1>4, <1>5, <1>6

\* What the client shows is the status the server decides on, and its message.
LEMMA ShownReply ==
    ASSUME 9 < Octets, NEW start, ProcessAuthenStart(start) \in 0 .. Octets - 1,
           NEW msg \in Seq(0 .. Octets - 1), Len(msg) + 6 < Word
    PROVE  Shown(start, msg) = [status |-> ProcessAuthenStart(start), msg |-> msg]
<1> DEFINE S == 0 .. Octets - 1
           status == ProcessAuthenStart(start)
           body == EncodeReply(status, msg, << >>)
           h == [Head1 EXCEPT !.seqNo = 2]
           x == Plain(body)
<1>1. body \in Seq(S) /\ ReadReply(body) = [status |-> status, msg |-> msg]
  <2> HIDE DEF status
  <2>1. status \in 0 .. Octets - 1
    BY DEF status
  <2> QED
    BY <2>1, ReplyRead
<1>2. Shown(start, msg) = ReadReply(Text(CryptPayload(h, CryptPayload(h, x, "secret"), "secret")))
  BY DEF Shown
<1> HIDE DEF body
<1>3. Hiding(h)
  <2>1. h.flags = 0 /\ ~ (0 % 2 = 1)
    BY DEF Head1
  <2> QED
    BY <2>1 DEF Hiding, FlagUnencrypted
<1> HIDE DEF h
<1>4. PICK T : x \in Seq(T)
  BY <1>1, PlainSequence
<1> HIDE DEF x
<1>5. CryptPayload(h, CryptPayload(h, x, "secret"), "secret") = x
  BY <1>3, <1>4, CryptUndone
<1>6. Text(x) = body
  BY <1>1, TextBack DEF x
<1>7. Shown(start, msg) = ReadReply(body)
  BY <1>2, <1>5, <1>6
<1> QED
  BY <1>1, <1>7

\* What the server decides on a START.
LEMMA DecidedStatus ==
    ASSUME 9 < Octets, NEW s, s.type = AuthenTypeASCII
    PROVE  /\ ProcessAuthenStart(s) \in 0 .. Octets - 1
           /\ ProcessAuthenStart(s) = IF hasNoPrefix(s.user) THEN AuthenStatusFail
                                      ELSE IF s.user = << >> THEN AuthenStatusGetUser
                                      ELSE AuthenStatusPass
<1>1. {1, 2, 4} \subseteq 0 .. Octets - 1
  BY OctetsAssumption
<1>2. ProcessAuthenStart(s) \in {1, 2, 4}
  BY DEF ProcessAuthenStart, AuthenStatusFail, AuthenStatusGetUser, AuthenStatusPass
<1>3. ProcessAuthenStart(s) = IF hasNoPrefix(s.user) THEN AuthenStatusFail
                              ELSE IF s.user = << >> THEN AuthenStatusGetUser
                              ELSE AuthenStatusPass
  BY DEF ProcessAuthenStart
<1> QED
  BY <1>1, <1>2, <1>3

\* Every name, password and message: nothing is assumed of the numbers but that
\* the session and the version are written in the octets they have, and of the
\* names that the one the message is tried under is not refused.
THEOREM TypedNameTheorem ==
    ASSUME LettersAreOctets, 9 < Octets, MajorVer \in Nat, ~ hasNoPrefix(<< 5 >>)
    PROVE  WireSpec => []TypedNameDecides
<1> DEFINE S == 0 .. Octets - 1
           five == << 5 >>
           none == << >>
           hi == << 1, 2 >>
           port == << 6 >>
           host == << 7, 7 >>
<1>1. /\ five \in Seq(S) /\ none \in Seq(S) /\ hi \in Seq(S) /\ port \in Seq(S) /\ host \in Seq(S)
      /\ Len(five) < Octets /\ Len(none) < Octets /\ Len(port) < Octets /\ Len(host) < Octets
      /\ five # none /\ 1 < Octets
  BY OctetsAssumption
<1>2. Len(hi) + 6 < Word
  <2>1. Octets \in Nat /\ Len(hi) = 2 /\ 9 <= Octets
    BY OctetsAssumption
  <2>2. 9 * 9 <= Octets * Octets
    BY <2>1
  <2> HIDE DEF hi
  <2> QED
    BY <2>1, <2>2, Unwrapped
<1> DEFINE T(u, p) == DecodeAuthenStart(StartBody(u, port, host, p))
<1>3. \A u, p \in Seq(S) :
         /\ Asked(u, p) = T(u, p) /\ T(u, p) # NoStart /\ T(u, p).type = AuthenTypeASCII
         /\ Len(T(u, p).user) < Octets /\ Len(T(u, p).data) < Octets
         /\ Len(u) < Octets /\ Len(p) < Octets => T(u, p).user = u /\ T(u, p).data = p
  <2> SUFFICES ASSUME NEW u \in Seq(S), NEW p \in Seq(S)
               PROVE  /\ Asked(u, p) = T(u, p) /\ T(u, p) # NoStart /\ T(u, p).type = AuthenTypeASCII
                      /\ Len(T(u, p).user) < Octets /\ Len(T(u, p).data) < Octets
                      /\ Len(u) < Octets /\ Len(p) < Octets => T(u, p).user = u /\ T(u, p).data = p
    OBVIOUS
  <2>1. Asked(u, p) = T(u, p)
    BY AskedStart
  <2> HIDE DEF port, host
  <2> QED
    BY <1>1, <2>1, StartRead, SMTT(30)
<1> HIDE DEF five, none, hi, port, host, T
<1>4. ASSUME OctetString PROVE TypedNameDecides
  <2>1. octets \in Seq(S) /\ Len(octets) \in Nat
    BY <1>4 DEF OctetString
  <2> HIDE DEF S
  <2>2. Asked(octets, five) # NoStart
    BY <1>1, <1>3, <2>1
  <2>3. Asked(octets, five).user = octets <=> Len(octets) < Octets
    BY <1>1, <1>3, <2>1
  <2>4. Asked(five, octets).data = octets <=> Len(octets) < Octets
    BY <1>1, <1>3, <2>1
  <2>5. Len(octets) + 6 < Word =>
          Shown(Asked(five, none), octets) = [status |-> AuthenStatusPass, msg |-> octets]
    <3> DEFINE s == Asked(five, none)
    <3>1. s.type = AuthenTypeASCII /\ s.user = five
      BY <1>1, <1>3
    <3> HIDE DEF s
    <3>2. ~ hasNoPrefix(five)
      BY DEF five
    <3>3. five # << >>
      BY <1>1 DEF none
    <3>4. ProcessAuthenStart(s) \in S /\ ProcessAuthenStart(s) = AuthenStatusPass
      <4>1. ProcessAuthenStart(s) \in S
        BY <3>1, DecidedStatus DEF S
      <4>2. ProcessAuthenStart(s) = AuthenStatusPass
        BY <3>1, <3>2, <3>3 DEF ProcessAuthenStart
      <4> QED
        BY <4>1, <4>2
    <3>5. Len(octets) + 6 < Word =>
            Shown(s, octets) = [status |-> ProcessAuthenStart(s), msg |-> octets]
      BY <2>1, <3>4, ShownReply DEF S
    <3> QED
      BY <3>4, <3>5 DEF s
  <2>6. Len(octets) < Octets =>
          Shown(Asked(octets, five), hi) =
              [status |-> IF hasNoPrefix(octets) THEN AuthenStatusFail
                          ELSE IF octets = << >> THEN AuthenStatusGetUser
                          ELSE AuthenStatusPass,
               msg    |-> hi]
    <3> SUFFICES ASSUME Len(octets) < Octets
                 PROVE  Shown(Asked(octets, five), hi) =
                          [status |-> IF hasNoPrefix(octets) THEN AuthenStatusFail
                                      ELSE IF octets = << >> THEN AuthenStatusGetUser
                                      ELSE AuthenStatusPass,
                           msg    |-> hi]
      OBVIOUS
    <3> DEFINE s == Asked(octets, five)
    <3>1. s.type = AuthenTypeASCII /\ s.user = octets
      BY <1>1, <1>3, <2>1
    <3> HIDE DEF s
    <3>2. /\ ProcessAuthenStart(s) \in S
          /\ ProcessAuthenStart(s) = IF hasNoPrefix(octets) THEN AuthenStatusFail
                                     ELSE IF octets = << >> THEN AuthenStatusGetUser
                                     ELSE AuthenStatusPass
      BY <3>1, DecidedStatus DEF S
    <3>3. Shown(s, hi) = [status |-> ProcessAuthenStart(s), msg |-> hi]
      BY <1>1, <1>2, <3>2, ShownReply DEF S
    <3> QED
      BY <3>2, <3>3 DEF s
  <2>7. LET reply == EncodeReply(AuthenStatusPass, octets, << >>)
        IN  /\ ReadReply(reply) = [status |-> AuthenStatusPass, msg |-> octets]
                  <=> Len(octets) + 6 < Word
            /\ reply = OutOfRange <=> 6 + (Len(octets) % Word) >= Word
    <3>1. AuthenStatusPass \in 0 .. Octets - 1
      BY OctetsAssumption DEF AuthenStatusPass
    <3> QED
      BY <2>1, <3>1, ReplyBounded DEF S
  <2> QED
    BY <2>2, <2>3, <2>4, <2>5, <2>6, <2>7 DEF TypedNameDecides, five, none, hi
<1>5. OctetString => TypedNameDecides
  BY <1>4
<1> QED
  BY <1>5, OctetTheorem, PTL
=============================================================================
