---------------------------- MODULE AttributeProofs ----------------------------
(***************************************************************************)
(* Proofs about WireFormats, of RADIUS attributes: for packets and texts   *)
(* of any length, and any number of octets.                                *)
(*                                                                         *)
(* An attribute loop visits offsets, and a function of the packet picks    *)
(* some of them (Among).  Every loop visits the same offsets, whether it   *)
(* stops at a bad length or runs past the end (SameOffsets): those of the  *)
(* whole attributes, which lie one behind the other, and at most one more  *)
(* where they end (Parsed, WholeShape).  So what any loop finds is told by *)
(* the whole attributes and the type of a malformed one behind them.       *)
(*                                                                         *)
(* A packet that is put together of attributes has exactly these as its    *)
(* whole ones (Attach), so what is sent is what is listed, signed and read *)
(* back.                                                                   *)
(***************************************************************************)
EXTENDS WireProofs

-----------------------------------------------------------------------------
(* What Among selects. *)

\* f is the recursive function inside Among, for the first n elements of s.
KeptBy(f, s, S, n) ==
    f = [i \in 0 .. n |-> IF i = 0 THEN << >>
                          ELSE IF s[i] \in S THEN Append(f[i - 1], s[i]) ELSE f[i - 1]]

\* There is such a function, for any number of elements.
LEMMA KeptExists ==
    ASSUME NEW n \in Nat, NEW s, NEW S
    PROVE  \E f : KeptBy(f, s, S, n)
<1> DEFINE Next(m, v) == IF s[m] \in S THEN Append(v, s[m]) ELSE v
           T == {m \in Nat : \E f : KeptBy(f, s, S, m)}
<1>1. 0 \in T
  <2> DEFINE f == [i \in 0 .. 0 |-> << >>]
  <2>1. f = [i \in 0 .. 0 |-> IF i = 0 THEN << >> ELSE Next(i, f[i - 1])]
    OBVIOUS
  <2> HIDE DEF f
  <2>2. KeptBy(f, s, S, 0)
    BY <2>1 DEF KeptBy
  <2> QED
    BY <2>2
<1>2. ASSUME NEW m \in T PROVE m + 1 \in T
  <2>1. PICK f : KeptBy(f, s, S, m)
    OBVIOUS
  <2> DEFINE g == [i \in 0 .. m + 1 |-> IF i = m + 1 THEN Next(i, f[m]) ELSE f[i]]
  <2>2. \A i \in 0 .. m : f[i] = IF i = 0 THEN << >> ELSE Next(i, f[i - 1])
    BY <2>1 DEF KeptBy
  <2> HIDE DEF Next
  <2>3. ASSUME NEW i \in 0 .. m + 1
        PROVE  g[i] = IF i = 0 THEN << >> ELSE Next(i, g[i - 1])
    <3>1. CASE i = m + 1
      <4>1. i # 0 /\ i - 1 = m /\ m \in 0 .. m + 1 /\ m # m + 1
        BY <3>1
      <4> QED
        BY <3>1, <4>1
    <3>2. CASE i \in 0 .. m
      <4>1. i # m + 1 /\ g[i] = f[i]
        BY <3>2
      <4>2. i # 0 => i - 1 \in 0 .. m + 1 /\ i - 1 # m + 1 /\ g[i - 1] = f[i - 1]
        BY <3>2
      <4> HIDE DEF g
      <4> QED
        BY <2>2, <3>2, <4>1, <4>2
    <3> QED
      BY <3>1, <3>2
  <2>4. g = [i \in 0 .. m + 1 |-> g[i]]
    OBVIOUS
  <2> HIDE DEF g
  <2>5. KeptBy(g, s, S, m + 1)
    BY <2>3, <2>4 DEF KeptBy, Next
  <2> QED
    BY <2>5
<1>3. T \in SUBSET Nat
  OBVIOUS
<1>4. T = Nat
  <2> HIDE DEF T
  <2> QED
    BY <1>1, <1>2, <1>3, NatSetInduction
<1> QED
  BY <1>4

\* From the end: the last element is kept if it is in S.
LEMMA AmongAppend ==
    ASSUME NEW R, NEW s \in Seq(R), NEW x \in R, NEW S
    PROVE  /\ Among(<< >>, S) = << >>
           /\ Among(Append(s, x), S) =
                 IF x \in S THEN Append(Among(s, S), x) ELSE Among(s, S)
<1> DEFINE F(r) == CHOOSE f : KeptBy(f, r, S, Len(r))
           t == Append(s, x)
           n == Len(s)
           Next(r, m, v) == IF r[m] \in S THEN Append(v, r[m]) ELSE v
<1>1. \A r : Among(r, S) = F(r)[Len(r)]
  BY DEF Among, KeptBy
<1>2. ASSUME NEW r, Len(r) \in Nat
      PROVE  /\ F(r)[0] = << >>
             /\ \A i \in 1 .. Len(r) : F(r)[i] = Next(r, i, F(r)[i - 1])
  <2> DEFINE f == F(r)
  <2>1. KeptBy(f, r, S, Len(r))
    <3>1. \E g : KeptBy(g, r, S, Len(r))
      BY <1>2, KeptExists
    <3> QED
      BY <3>1
  <2> HIDE DEF f
  <2>2. \A i \in 0 .. Len(r) : f[i] = IF i = 0 THEN << >> ELSE Next(r, i, f[i - 1])
    BY <2>1 DEF KeptBy
  <2> HIDE DEF Next
  <2>3. 0 \in 0 .. Len(r) /\ \A i \in 1 .. Len(r) : i \in 0 .. Len(r) /\ i # 0
    BY <1>2
  <2>4. f[0] = << >> /\ \A i \in 1 .. Len(r) : f[i] = Next(r, i, f[i - 1])
    BY <2>2, <2>3
  <2> QED
    BY <2>4 DEF f
<1> HIDE DEF F
<1>3. /\ n \in Nat /\ Len(t) = n + 1 /\ t[n + 1] = x /\ \A i \in 1 .. n : t[i] = s[i]
  BY AppendProperties
<1>4. Len(t) \in Nat /\ n + 1 \in 1 .. Len(t) /\ (n + 1) - 1 = n
  BY <1>3
<1> HIDE DEF t
<1>5. Among(<< >>, S) = << >>
  <2>1. Len(<< >>) = 0
    OBVIOUS
  <2>2. F(<< >>)[0] = << >>
    BY <1>2, <2>1
  <2> QED
    BY <1>1, <2>1, <2>2
<1>6. F(t)[n] = F(s)[n]
  <2> DEFINE T == {i \in Nat : i <= n => F(t)[i] = F(s)[i]}
  <2>1. 0 \in T
    BY <1>2, <1>3, <1>4
  <2>2. ASSUME NEW i \in T PROVE i + 1 \in T
    <3> SUFFICES ASSUME i + 1 <= n PROVE F(t)[i + 1] = F(s)[i + 1]
      OBVIOUS
    <3>1. i + 1 \in 1 .. n /\ i + 1 \in 1 .. Len(t) /\ (i + 1) - 1 = i
      BY <1>3
    <3>2. F(t)[i] = F(s)[i] /\ t[i + 1] = s[i + 1]
      BY <1>3, <3>1
    <3>3. F(t)[i + 1] = Next(t, i + 1, F(t)[(i + 1) - 1])
      <4> HIDE DEF Next
      <4> QED
        BY <1>2, <1>4, <3>1
    <3>4. F(s)[i + 1] = Next(s, i + 1, F(s)[(i + 1) - 1])
      <4> HIDE DEF Next
      <4> QED
        BY <1>2, <1>3, <3>1
    <3> QED
      BY <3>1, <3>2, <3>3, <3>4
  <2>3. T \in SUBSET Nat
    OBVIOUS
  <2>4. T = Nat
    <3> HIDE DEF T
    <3> QED
      BY <2>1, <2>2, <2>3, NatSetInduction
  <2> QED
    BY <1>3, <2>4
<1>7. F(t)[n + 1] = Next(t, n + 1, F(t)[n])
  <2>1. F(t)[n + 1] = Next(t, n + 1, F(t)[(n + 1) - 1])
    <3> HIDE DEF Next
    <3> QED
      BY <1>2, <1>4
  <2> QED
    BY <1>4, <2>1
<1> QED
  BY <1>1, <1>3, <1>5, <1>6, <1>7 DEF t

\* Only elements of S are kept, and of these all.
LEMMA AmongElements ==
    ASSUME NEW R, NEW s \in Seq(R), NEW S
    PROVE  /\ Among(s, S) \in Seq(R \cap S)
           /\ R \subseteq S => Among(s, S) = s
           /\ \A A : (\A x \in R : x \in A <=> x \in S) => Among(s, A) = Among(s, S)
<1> DEFINE Good(r) == /\ Among(r, S) \in Seq(R \cap S)
                      /\ R \subseteq S => Among(r, S) = r
                      /\ \A A : (\A x \in R : x \in A <=> x \in S) => Among(r, A) = Among(r, S)
           T == {r \in Seq(R) : Good(r)}
<1>1. << >> \in T
  <2>1. \A A : Among(<< >>, A) = << >>
    <3>1. << >> \in Seq({{}}) /\ {} \in {{}}
      OBVIOUS
    <3> QED
      BY <3>1, AmongAppend
  <2>2. << >> \in Seq(R \cap S) /\ << >> \in Seq(R)
    OBVIOUS
  <2>3. Good(<< >>)
    BY <2>1, <2>2
  <2> HIDE DEF Good
  <2> QED
    BY <2>2, <2>3
<1>2. ASSUME NEW r \in T, NEW x \in R PROVE Append(r, x) \in T
  <2>1. r \in Seq(R) /\ Good(r) /\ Append(r, x) \in Seq(R)
    OBVIOUS
  <2>2. \A A : Among(Append(r, x), A) = IF x \in A THEN Append(Among(r, A), x) ELSE Among(r, A)
    BY <2>1, AmongAppend
  <2>3. Among(Append(r, x), S) \in Seq(R \cap S)
    <3>1. CASE x \in S
      <4>1. x \in R \cap S /\ Among(Append(r, x), S) = Append(Among(r, S), x)
        BY <2>2, <3>1
      <4> QED
        BY <2>1, <4>1, AppendProperties
    <3> QED
      BY <2>1, <2>2, <3>1
  <2>4. R \subseteq S => Among(Append(r, x), S) = Append(r, x)
    BY <2>1, <2>2
  <2>5. ASSUME NEW A, \A y \in R : y \in A <=> y \in S
        PROVE  Among(Append(r, x), A) = Among(Append(r, x), S)
    <3>1. Among(r, A) = Among(r, S) /\ (x \in A <=> x \in S)
      BY <2>1, <2>5
    <3> QED
      BY <2>2, <3>1
  <2> QED
    BY <2>1, <2>3, <2>4, <2>5
<1>3. T \in SUBSET Seq(R)
  OBVIOUS
<1>4. T = Seq(R)
  <2> HIDE DEF T
  <2> QED
    BY <1>1, <1>2, <1>3, SeqSetInduction
<1>5. s \in T
  BY <1>4
<1> QED
  BY <1>5

\* Selecting twice is selecting what is in both sets.
LEMMA AmongTwice ==
    ASSUME NEW R, NEW s \in Seq(R), NEW A, NEW B
    PROVE  Among(Among(s, A), B) = Among(s, A \cap B)
<1> DEFINE T == {r \in Seq(R) : Among(Among(r, A), B) = Among(r, A \cap B)}
<1>1. << >> \in T
  <2>1. \A C : Among(<< >>, C) = << >>
    <3>1. << >> \in Seq({{}}) /\ {} \in {{}}
      OBVIOUS
    <3> QED
      BY <3>1, AmongAppend
  <2> QED
    BY <2>1
<1>2. ASSUME NEW r \in T, NEW x \in R PROVE Append(r, x) \in T
  <2>1. r \in Seq(R) /\ Append(r, x) \in Seq(R) /\ Among(Among(r, A), B) = Among(r, A \cap B)
    OBVIOUS
  <2>2. \A C : Among(Append(r, x), C) = IF x \in C THEN Append(Among(r, C), x) ELSE Among(r, C)
    BY <2>1, AmongAppend
  <2>3. Among(r, A) \in Seq(R)
    <3>1. Among(r, A) \in Seq(R \cap A)
      BY <2>1, AmongElements
    <3> QED
      BY <3>1
  <2>4. Among(Append(Among(r, A), x), B) =
           IF x \in B THEN Append(Among(Among(r, A), B), x) ELSE Among(Among(r, A), B)
    <3> DEFINE a == Among(r, A)
    <3>1. a \in Seq(R)
      BY <2>3
    <3> HIDE DEF a
    <3>2. Among(Append(a, x), B) = IF x \in B THEN Append(Among(a, B), x) ELSE Among(a, B)
      BY <3>1, AmongAppend
    <3> QED
      BY <3>2 DEF a
  <2> QED
    BY <2>1, <2>2, <2>4
<1>3. T \in SUBSET Seq(R)
  OBVIOUS
<1>4. T = Seq(R)
  <2> HIDE DEF T
  <2> QED
    BY <1>1, <1>2, <1>3, SeqSetInduction
<1>5. s \in T
  BY <1>4
<1> QED
  BY <1>5

\* The first element kept is the first in S, if there is one.
LEMMA AmongFirst ==
    ASSUME NEW R, NEW s \in Seq(R), NEW S
    PROVE  /\ (\A i \in 1 .. Len(s) : s[i] \notin S) => Among(s, S) = << >>
           /\ \A m \in 1 .. Len(s) :
                 s[m] \in S /\ (\A i \in 1 .. m - 1 : s[i] \notin S) =>
                    Among(s, S) # << >> /\ Among(s, S)[1] = s[m]
<1> DEFINE Good(r) == /\ (\A i \in 1 .. Len(r) : r[i] \notin S) => Among(r, S) = << >>
                      /\ \A m \in 1 .. Len(r) :
                            r[m] \in S /\ (\A i \in 1 .. m - 1 : r[i] \notin S) =>
                               Among(r, S) # << >> /\ Among(r, S)[1] = r[m]
           T == {r \in Seq(R) : Good(r)}
<1>1. << >> \in T
  <2>1. Among(<< >>, S) = << >>
    <3>1. << >> \in Seq({{}}) /\ {} \in {{}}
      OBVIOUS
    <3> QED
      BY <3>1, AmongAppend
  <2> QED
    BY <2>1
<1>2. ASSUME NEW r \in T, NEW x \in R PROVE Append(r, x) \in T
  <2> DEFINE t == Append(r, x)
             a == Among(r, S)
             b == Among(t, S)
             n == Len(r)
  <2>1. r \in Seq(R) /\ Good(r) /\ n \in Nat
    OBVIOUS
  <2>2. b = IF x \in S THEN Append(a, x) ELSE a
    BY <2>1, AmongAppend
  <2>3. a \in Seq(R)
    <3>1. a \in Seq(R \cap S)
      BY <2>1, AmongElements
    <3> QED
      BY <3>1
  <2>4. t \in Seq(R) /\ Len(t) = n + 1 /\ t[n + 1] = x /\ \A i \in 1 .. n : t[i] = r[i]
    BY <2>1, AppendProperties
  <2>5. /\ (\A i \in 1 .. n : r[i] \notin S) => a = << >>
        /\ \A m \in 1 .. n : r[m] \in S /\ (\A i \in 1 .. m - 1 : r[i] \notin S) =>
              a # << >> /\ a[1] = r[m]
    BY <2>1
  <2>6. ASSUME NEW u \in Seq(R)
        PROVE  /\ Append(u, x) # << >>
               /\ u # << >> => Append(u, x)[1] = u[1]
               /\ u = << >> => Append(u, x)[1] = x
    <3> DEFINE v == Append(u, x)
    <3>1. Len(v) = Len(u) + 1 /\ v[Len(u) + 1] = x /\ \A i \in 1 .. Len(u) : v[i] = u[i]
      BY <2>6, AppendProperties
    <3>2. Len(u) \in Nat /\ (u = << >> => Len(u) = 0) /\ (u # << >> => 1 \in 1 .. Len(u))
      BY <2>6
    <3>3. Len(<< >>) = 0
      OBVIOUS
    <3> HIDE DEF v
    <3>4. v # << >> /\ (u # << >> => v[1] = u[1]) /\ (u = << >> => v[1] = x)
      BY <3>1, <3>2, <3>3
    <3> QED
      BY <3>4 DEF v
  <2> HIDE DEF t, a, b, n
  <2>7. ASSUME \A i \in 1 .. Len(t) : t[i] \notin S PROVE b = << >>
    <3>1. n + 1 \in 1 .. Len(t) /\ \A i \in 1 .. n : i \in 1 .. Len(t)
      BY <2>1, <2>4
    <3>2. x \notin S /\ \A i \in 1 .. n : r[i] \notin S
      BY <2>4, <2>7, <3>1
    <3> QED
      BY <2>2, <2>5, <3>2
  <2>8. ASSUME NEW m \in 1 .. Len(t), t[m] \in S, \A i \in 1 .. m - 1 : t[i] \notin S
        PROVE  b # << >> /\ b[1] = t[m]
    <3>1. CASE m \in 1 .. n
      <4>1. \A i \in 1 .. m - 1 : i \in 1 .. n
        BY <2>1, <3>1
      <4>2. a # << >> /\ a[1] = t[m]
        BY <2>4, <2>5, <2>8, <3>1, <4>1
      <4> QED
        BY <2>2, <2>3, <2>6, <4>2
    <3>2. CASE m = n + 1
      <4>1. \A i \in 1 .. n : i \in 1 .. m - 1
        BY <2>1, <3>2
      <4>2. \A i \in 1 .. n : r[i] \notin S
        BY <2>4, <2>8, <4>1
      <4>3. a = << >> /\ x \in S
        BY <2>4, <2>5, <2>8, <3>2, <4>2
      <4> QED
        BY <2>2, <2>3, <2>4, <2>6, <3>2, <4>3
    <3>3. m \in 1 .. n \/ m = n + 1
      BY <2>1, <2>4
    <3> QED
      BY <3>1, <3>2, <3>3
  <2>9. Good(t)
    BY <2>7, <2>8 DEF b
  <2> QED
    BY <2>4, <2>9 DEF t
<1>3. T \in SUBSET Seq(R)
  OBVIOUS
<1>4. T = Seq(R)
  <2> HIDE DEF T
  <2> QED
    BY <1>1, <1>2, <1>3, SeqSetInduction
<1>5. s \in T
  BY <1>4
<1> QED
  BY <1>5

\* The images of the elements of s.
Mapped(g, s) == [i \in DOMAIN s |-> g[s[i]]]

LEMMA MappedAppend ==
    ASSUME NEW R, NEW s \in Seq(R), NEW x \in R, NEW g
    PROVE  /\ Mapped(g, << >>) = << >>
           /\ \E G : Mapped(g, s) \in Seq(G) /\ g[x] \in G
           /\ Mapped(g, Append(s, x)) = Append(Mapped(g, s), g[x])
<1> DEFINE G == {g[y] : y \in R}
<1>1. ASSUME NEW r \in Seq(R)
      PROVE  /\ Mapped(g, r) \in Seq(G) /\ Len(Mapped(g, r)) = Len(r)
             /\ \A i \in 1 .. Len(r) : Mapped(g, r)[i] = g[r[i]]
  <2> DEFINE m == Mapped(g, r)
  <2>1. m = [i \in 1 .. Len(r) |-> g[r[i]]]
    BY <1>1 DEF Mapped
  <2>2. \A i \in 1 .. Len(r) : g[r[i]] \in G
    <3>1. \A i \in 1 .. Len(r) : r[i] \in R
      BY <1>1
    <3> QED
      BY <3>1
  <2>3. Len(r) \in Nat
    BY <1>1
  <2> HIDE DEF m, G
  <2>4. m \in [1 .. Len(r) -> G]
    BY <2>1, <2>2
  <2>5. m \in Seq(G) /\ Len(m) = Len(r)
    BY <2>3, <2>4
  <2> QED
    BY <2>1, <2>5 DEF m
<1>2. Mapped(g, << >>) = << >>
  <2>1. << >> \in Seq(R) /\ Len(<< >>) = 0
    OBVIOUS
  <2>2. Mapped(g, << >>) \in Seq(G) /\ Len(Mapped(g, << >>)) = 0
    BY <1>1, <2>1
  <2> HIDE DEF G
  <2> QED
    BY <2>2
<1> DEFINE t == Append(s, x)
           a == Mapped(g, t)
           b == Append(Mapped(g, s), g[x])
<1>3. a = b
  <2>1. t \in Seq(R) /\ Len(t) = Len(s) + 1 /\ t[Len(s) + 1] = x /\ Len(s) \in Nat
        /\ \A i \in 1 .. Len(s) : t[i] = s[i]
    BY AppendProperties
  <2> HIDE DEF t
  <2>2. a \in Seq(G) /\ Len(a) = Len(s) + 1 /\ \A i \in 1 .. Len(s) + 1 : a[i] = g[t[i]]
    BY <1>1, <2>1
  <2> DEFINE m == Mapped(g, s)
  <2>3. m \in Seq(G) /\ Len(m) = Len(s) /\ \A i \in 1 .. Len(s) : m[i] = g[s[i]]
    BY <1>1
  <2>4. g[x] \in G
    OBVIOUS
  <2> HIDE DEF m, G, a
  <2>5. b \in Seq(G) /\ Len(b) = Len(m) + 1 /\ b[Len(m) + 1] = g[x]
        /\ \A i \in 1 .. Len(m) : b[i] = m[i]
    BY <2>3, <2>4, AppendProperties DEF m
  <2> HIDE DEF b
  <2>6. ASSUME NEW i \in 1 .. Len(s) + 1 PROVE a[i] = b[i]
    <3>1. i \in 1 .. Len(s) \/ i = Len(s) + 1
      BY <2>1
    <3>2. CASE i \in 1 .. Len(s)
      BY <2>1, <2>2, <2>3, <2>5, <3>2
    <3>3. CASE i = Len(s) + 1
      BY <2>1, <2>2, <2>3, <2>5, <3>3
    <3> QED
      BY <3>1, <3>2, <3>3
  <2>7. Len(b) = Len(s) + 1
    BY <2>3, <2>5
  <2> QED
    BY <2>2, <2>5, <2>6, <2>7, SeqEqual
<1>4. \E H : Mapped(g, s) \in Seq(H) /\ g[x] \in H
  <2>1. Mapped(g, s) \in Seq(G)
    BY <1>1
  <2>2. g[x] \in G
    OBVIOUS
  <2> HIDE DEF G
  <2> QED
    BY <2>1, <2>2
<1> QED
  BY <1>2, <1>3, <1>4

\* What is kept of the images are the images of what is kept.
LEMMA AmongMapped ==
    ASSUME NEW R, NEW s \in Seq(R), NEW g, NEW A, NEW B, \A x \in R : g[x] \in B <=> x \in A
    PROVE  Among(Mapped(g, s), B) = Mapped(g, Among(s, A))
<1> DEFINE T == {r \in Seq(R) : Among(Mapped(g, r), B) = Mapped(g, Among(r, A))}
<1>0. /\ \A C : Among(<< >>, C) = << >>
      /\ Mapped(g, << >>) = << >>
  <2>1. << >> \in Seq({{}}) /\ {} \in {{}}
    OBVIOUS
  <2> QED
    BY <2>1, AmongAppend, MappedAppend
<1>1. << >> \in T
  BY <1>0
<1>2. ASSUME NEW r \in T, NEW x \in R PROVE Append(r, x) \in T
  <2> DEFINE m == Mapped(g, r)
             a == Among(r, A)
  <2>1. r \in Seq(R) /\ Append(r, x) \in Seq(R) /\ Among(m, B) = Mapped(g, a)
    OBVIOUS
  <2>2. /\ \E G : m \in Seq(G) /\ g[x] \in G
        /\ Mapped(g, Append(r, x)) = Append(m, g[x])
    BY <2>1, MappedAppend
  <2>3. Among(Append(m, g[x]), B) = IF g[x] \in B THEN Append(Among(m, B), g[x]) ELSE Among(m, B)
    <3> DEFINE y == g[x]
    <3>1. PICK G : m \in Seq(G) /\ y \in G
      BY <2>2
    <3> HIDE DEF m, y
    <3>2. Among(Append(m, y), B) = IF y \in B THEN Append(Among(m, B), y) ELSE Among(m, B)
      BY <3>1, AmongAppend
    <3> QED
      BY <3>2 DEF y
  <2>4. Among(Append(r, x), A) = IF x \in A THEN Append(a, x) ELSE a
    BY <2>1, AmongAppend
  <2>5. a \in Seq(R)
    <3>1. a \in Seq(R \cap A)
      BY <2>1, AmongElements
    <3> QED
      BY <3>1
  <2> HIDE DEF a, m
  <2>6. Mapped(g, Append(a, x)) = Append(Mapped(g, a), g[x])
    BY <2>5, MappedAppend
  <2>7. g[x] \in B <=> x \in A
    OBVIOUS
  <2>8. Among(Mapped(g, Append(r, x)), B) = Mapped(g, Among(Append(r, x), A))
    BY <2>1, <2>2, <2>3, <2>4, <2>6, <2>7
  <2> QED
    BY <2>1, <2>8
<1>3. T \in SUBSET Seq(R)
  OBVIOUS
<1>4. T = Seq(R)
  <2> HIDE DEF T
  <2> QED
    BY <1>1, <1>2, <1>3, SeqSetInduction
<1>5. s \in T
  BY <1>4
<1> QED
  BY <1>5

-----------------------------------------------------------------------------
(* The attribute loops. *)

\* The offsets of attributes with a length that is possible and fits.
WholeHeads(o) == Sound(o) \cap Inside(o)

\* f is the recursive function inside Scan, and inside LooseScan.
ScanBy(o, f) ==
    f = [pos \in 0 .. Len(o) |->
            IF pos + 2 > Len(o) THEN << >>
            ELSE << pos >> \o IF Size(o, pos) >= 2 /\ Fits(o, pos)
                              THEN f[pos + Size(o, pos)] ELSE << >>]

LooseBy(o, f) ==
    f = [pos \in 0 .. Len(o) + Octets |->
            IF pos + 2 > Len(o) THEN << >>
            ELSE << pos >> \o IF Size(o, pos) >= 2
                              THEN f[pos + Size(o, pos)] ELSE << >>]

\* An octet in a packet is a number, and less than Octets.
LEMMA HeadOctets ==
    ASSUME NEW o \in Seq(0 .. Octets - 1), NEW pos \in 0 .. Len(o), ~ (pos + 2 > Len(o))
    PROVE  /\ Len(o) \in Nat /\ Octets \in Nat /\ pos \in Heads(o)
           /\ At(o, pos) \in 0 .. Octets - 1 /\ Size(o, pos) \in 0 .. Octets - 1
           /\ Size(o, pos) >= 2 /\ Fits(o, pos) <=> pos \in WholeHeads(o)
<1>0. Len(o) \in Nat /\ Octets \in Nat
  BY OctetsAssumption
<1>1. pos + 1 \in 1 .. Len(o) /\ (pos + 1) + 1 \in 1 .. Len(o)
  BY <1>0
<1>2. \A i \in 1 .. Len(o) : o[i] \in 0 .. Octets - 1
  <2> DEFINE S == 0 .. Octets - 1
  <2>1. o \in Seq(S)
    OBVIOUS
  <2> HIDE DEF S
  <2>2. \A i \in 1 .. Len(o) : o[i] \in S
    BY <2>1
  <2> QED
    BY <2>2 DEF S
<1>3. pos \in Heads(o)
  BY <1>0 DEF Heads
<1>4. At(o, pos) \in 0 .. Octets - 1 /\ Size(o, pos) \in 0 .. Octets - 1
  BY <1>1, <1>2 DEF At, Size
<1> QED
  BY <1>0, <1>3, <1>4 DEF WholeHeads, Sound, Inside

\* There is such a function: from the end of the packet backwards.
LEMMA ScanExists ==
    ASSUME NEW o \in Seq(0 .. Octets - 1)
    PROVE  \E f : ScanBy(o, f)
<1> DEFINE L == Len(o)
           Rhs(pos, f) == IF pos + 2 > L THEN << >>
                          ELSE << pos >> \o IF Size(o, pos) >= 2 /\ Fits(o, pos)
                                            THEN f[pos + Size(o, pos)] ELSE << >>
           From(f, n) == \A pos \in 0 .. L : pos >= L - n => f[pos] = Rhs(pos, f)
           T == {n \in Nat : \E f : f = [pos \in 0 .. L |-> f[pos]] /\ From(f, n)}
<1>0. L \in Nat
  OBVIOUS
<1>1. ASSUME NEW pos \in 0 .. L, ~ (pos + 2 > L), Size(o, pos) >= 2, Fits(o, pos)
      PROVE  pos + Size(o, pos) \in 0 .. L /\ pos + Size(o, pos) >= pos + 2
  <2>1. Size(o, pos) \in 0 .. Octets - 1 /\ Octets \in Nat
    BY <1>1, HeadOctets
  <2> QED
    BY <1>0, <1>1, <2>1 DEF Fits
<1>2. 0 \in T
  <2> DEFINE f == [pos \in 0 .. L |-> << >>]
  <2>1. f = [pos \in 0 .. L |-> f[pos]]
    OBVIOUS
  <2>2. ASSUME NEW pos \in 0 .. L, pos >= L - 0 PROVE f[pos] = Rhs(pos, f)
    <3>1. pos + 2 > L
      BY <1>0, <2>2
    <3> QED
      BY <3>1
  <2>3. From(f, 0)
    BY <2>2
  <2> HIDE DEF f, From
  <2> QED
    BY <2>1, <2>3
<1>3. ASSUME NEW n \in T PROVE n + 1 \in T
  <2>1. PICK f : f = [pos \in 0 .. L |-> f[pos]] /\ From(f, n)
    OBVIOUS
  <2> DEFINE q == L - (n + 1)
             g == [pos \in 0 .. L |-> IF pos = q THEN Rhs(pos, f) ELSE f[pos]]
  <2>2. q \in Int /\ n \in Nat
    BY <1>0
  <2>3. ASSUME NEW pos \in 0 .. L, pos >= q PROVE g[pos] = Rhs(pos, g)
    <3>1. Rhs(pos, g) = Rhs(pos, f)
      <4> SUFFICES ASSUME ~ (pos + 2 > L), Size(o, pos) >= 2, Fits(o, pos)
                   PROVE  g[pos + Size(o, pos)] = f[pos + Size(o, pos)]
        OBVIOUS
      <4> DEFINE p == pos + Size(o, pos)
      <4>1. p \in 0 .. L /\ p >= pos + 2
        BY <1>1
      <4>2. p # q
        <5> HIDE DEF p, q
        <5> QED
          BY <2>2, <2>3, <4>1
      <4> HIDE DEF p, q
      <4>3. g[p] = f[p]
        BY <4>1, <4>2
      <4> QED
        BY <4>3 DEF p
    <3>2. CASE pos = q
      <4>1. g[pos] = Rhs(pos, f)
        BY <3>2
      <4> QED
        BY <3>1, <4>1
    <3>3. CASE pos # q
      <4>1. pos >= L - n
        BY <1>0, <2>2, <2>3, <3>3
      <4>2. f[pos] = Rhs(pos, f)
        BY <2>1, <4>1
      <4>3. g[pos] = f[pos]
        BY <3>3
      <4> QED
        BY <3>1, <4>2, <4>3
    <3> QED
      BY <3>2, <3>3
  <2>4. g = [pos \in 0 .. L |-> g[pos]]
    OBVIOUS
  <2> HIDE DEF g
  <2>5. From(g, n + 1)
    BY <2>3
  <2>6. n + 1 \in Nat /\ \E k : k = [pos \in 0 .. L |-> k[pos]] /\ From(k, n + 1)
    <3> HIDE DEF From
    <3> QED
      BY <2>2, <2>4, <2>5
  <2> HIDE DEF From
  <2> QED
    BY <2>6
<1>4. T \in SUBSET Nat
  OBVIOUS
<1>5. T = Nat
  <2> HIDE DEF T
  <2> QED
    BY <1>2, <1>3, <1>4, NatSetInduction
<1>6. PICK f : f = [pos \in 0 .. L |-> f[pos]] /\ From(f, L)
  <2>1. L \in T
    <3> HIDE DEF T, L
    <3> QED
      BY <1>0, <1>5
  <2> QED
    BY <2>1
<1>7. \A pos \in 0 .. L : f[pos] = Rhs(pos, f)
  <2>1. \A pos \in 0 .. L : pos >= L - L
    BY <1>0
  <2> QED
    BY <1>6, <2>1
<1> QED
  BY <1>6, <1>7 DEF ScanBy

\* An attribute that does not fit ends an extract* loop as it ends a has* loop:
\* both run at the same offsets.
LEMMA SameOffsets ==
    ASSUME NEW o \in Seq(0 .. Octets - 1)
    PROVE  LooseScan(o) = Scan(o)
<1> DEFINE L == Len(o)
           f == CHOOSE f : ScanBy(o, f)
           g == [pos \in 0 .. L + Octets |-> IF pos <= L THEN f[pos] ELSE << >>]
           h == CHOOSE h : LooseBy(o, h)
           Rhs(pos, k) == IF pos + 2 > L THEN << >>
                          ELSE << pos >> \o IF Size(o, pos) >= 2
                                            THEN k[pos + Size(o, pos)] ELSE << >>
<1>0. L \in Nat /\ Octets \in Nat
  BY OctetsAssumption
<1>1. Scan(o) = f[0] /\ LooseScan(o) = h[0]
  BY DEF Scan, LooseScan, ScanBy, LooseBy
<1>2. ScanBy(o, f)
  BY ScanExists
<1> HIDE DEF f
<1>3. ASSUME NEW pos \in 0 .. L + Octets PROVE g[pos] = Rhs(pos, g)
  <2>1. CASE pos + 2 > L
    <3>1. pos \in 0 .. L => f[pos] = << >>
      BY <1>2, <2>1 DEF ScanBy
    <3> QED
      BY <1>0, <2>1, <3>1
  <2>2. CASE ~ (pos + 2 > L)
    <3>1. pos \in 0 .. L /\ pos <= L
      BY <1>0, <2>2
    <3>2. f[pos] = << pos >> \o IF Size(o, pos) >= 2 /\ Fits(o, pos)
                                THEN f[pos + Size(o, pos)] ELSE << >>
      BY <1>2, <2>2, <3>1 DEF ScanBy
    <3> DEFINE p == pos + Size(o, pos)
    <3>3. p \in 0 .. L + Octets /\ (Fits(o, pos) <=> p <= L)
      <4>1. Size(o, pos) \in 0 .. Octets - 1
        BY <2>2, <3>1, HeadOctets
      <4> QED
        BY <1>0, <2>2, <3>1, <4>1 DEF Fits
    <3>4. g[p] = IF Fits(o, pos) THEN f[p] ELSE << >>
      <4> HIDE DEF p
      <4> QED
        BY <3>3
    <3>5. g[pos] = f[pos]
      BY <3>1
    <3> HIDE DEF g
    <3> QED
      BY <2>2, <3>2, <3>4, <3>5
  <2> QED
    BY <2>1, <2>2
<1>4. LooseBy(o, h)
  <2>1. g = [pos \in 0 .. L + Octets |-> g[pos]]
    OBVIOUS
  <2> HIDE DEF g
  <2>2. LooseBy(o, g)
    BY <1>3, <2>1 DEF LooseBy
  <2> QED
    BY <2>2
<1>5. \A pos \in 0 .. L + Octets : h[pos] = Rhs(pos, h)
  <2> HIDE DEF h
  <2> QED
    BY <1>4 DEF LooseBy
<1> HIDE DEF h
<1> DEFINE M == L + Octets
           T == {n \in Nat : \A pos \in 0 .. M : pos >= M - n => h[pos] = g[pos]}
<1>6. M \in Nat /\ Octets # 0
  BY <1>0, OctetsAssumption
<1>7. ASSUME NEW n \in Nat, \A pos \in 0 .. M : pos >= M - n => h[pos] = g[pos],
             NEW pos \in 0 .. M, pos >= M - (n + 1)
      PROVE  h[pos] = g[pos]
  <2>1. Rhs(pos, h) = Rhs(pos, g)
    <3> SUFFICES ASSUME ~ (pos + 2 > L), Size(o, pos) >= 2
                 PROVE  h[pos + Size(o, pos)] = g[pos + Size(o, pos)]
      OBVIOUS
    <3>1. Size(o, pos) \in 0 .. Octets - 1
      <4>1. pos \in 0 .. L
        BY <1>0
      <4> QED
        BY <4>1, HeadOctets
    <3> DEFINE p == pos + Size(o, pos)
    <3>2. p \in 0 .. M /\ p >= M - n
      BY <1>0, <1>7, <3>1
    <3> HIDE DEF p, M, g
    <3>3. h[p] = g[p]
      BY <1>7, <3>2
    <3> QED
      BY <3>3 DEF p
  <2> HIDE DEF g
  <2> QED
    BY <1>3, <1>5, <2>1
<1>8. 0 \in T
  <2> SUFFICES ASSUME NEW pos \in 0 .. M, pos >= M - 0 PROVE h[pos] = g[pos]
    OBVIOUS
  <2>1. pos + 2 > L
    BY <1>0
  <2>2. Rhs(pos, h) = Rhs(pos, g)
    BY <2>1
  <2> HIDE DEF g
  <2> QED
    BY <1>3, <1>5, <2>2
<1>9. ASSUME NEW n \in T PROVE n + 1 \in T
  BY <1>7
<1>10. T \in SUBSET Nat
  OBVIOUS
<1>11. T = Nat
  <2> HIDE DEF T
  <2> QED
    BY <1>8, <1>9, <1>10, NatSetInduction
<1>12. h[0] = g[0]
  <2>1. M \in T
    <3> HIDE DEF T, M
    <3> QED
      BY <1>6, <1>11
  <2>2. 0 \in 0 .. M /\ 0 >= M - M
    BY <1>6
  <2> HIDE DEF M, g
  <2> QED
    BY <2>1, <2>2
<1>13. g[0] = f[0]
  BY <1>0
<1> QED
  BY <1>1, <1>12, <1>13

\* s is what a has* loop sees that starts at pos: offsets of whole attributes one
\* after the other, and one more behind them if there is room for its type
\* and length.
Parsed(o, s, pos) ==
    /\ s \in Seq(Heads(o))
    /\ pos + 2 > Len(o) => s = << >>
    /\ pos + 2 <= Len(o) => s # << >> /\ s[1] = pos
    /\ \A i \in 1 .. Len(s) - 1 : s[i] \in WholeHeads(o) /\ s[i + 1] = s[i] + Size(o, s[i])
    /\ s # << >> /\ s[Len(s)] \in WholeHeads(o) => s[Len(s)] + Size(o, s[Len(s)]) + 2 > Len(o)

\* The offset before those of a loop that starts later.
LEMMA ParsedBefore ==
    ASSUME NEW o \in Seq(0 .. Octets - 1), NEW pos \in WholeHeads(o),
           NEW t, Parsed(o, t, pos + Size(o, pos))
    PROVE  Parsed(o, << pos >> \o t, pos)
<1> DEFINE s == << pos >> \o t
           q == pos + Size(o, pos)
           n == Len(t)
<1>1. pos \in Heads(o) /\ Heads(o) \subseteq Nat /\ Len(o) \in Nat /\ pos + 2 <= Len(o)
  <2>1. Len(o) \in Nat
    OBVIOUS
  <2> QED
    BY <2>1 DEF WholeHeads, Sound, Inside, Heads
<1>2. t \in Seq(Heads(o)) /\ << pos >> \in Seq(Heads(o)) /\ Len(<< pos >>) = 1 /\ << pos >>[1] = pos
  BY <1>1 DEF Parsed
<1>3. n \in Nat
  BY <1>2
<1>4. /\ s \in Seq(Heads(o)) /\ Len(s) = 1 + n /\ s[1] = pos
      /\ \A i \in 2 .. n + 1 : s[i] = t[i - 1]
  <2> DEFINE H == Heads(o)
             u == << pos >>
  <2>1. t \in Seq(H) /\ u \in Seq(H) /\ Len(u) = 1 /\ u[1] = pos
    BY <1>2
  <2> HIDE DEF H, u
  <2>2. /\ u \o t \in Seq(H) /\ Len(u \o t) = Len(u) + Len(t)
        /\ \A i \in 1 .. Len(u) + Len(t) :
              (u \o t)[i] = IF i <= Len(u) THEN u[i] ELSE t[i - Len(u)]
    BY <2>1, ConcatProperties
  <2>3. (u \o t)[1] = pos
    BY <1>3, <2>1, <2>2
  <2>4. ASSUME NEW i \in 2 .. n + 1 PROVE (u \o t)[i] = t[i - 1]
    <3>1. i \in 1 .. Len(u) + Len(t) /\ ~ (i <= Len(u))
      BY <1>3, <2>1
    <3> QED
      BY <2>1, <2>2, <3>1
  <2> QED
    BY <2>1, <2>2, <2>3, <2>4 DEF H, u
<1>5. /\ q + 2 > Len(o) => t = << >>
      /\ q + 2 <= Len(o) => t # << >> /\ t[1] = q
      /\ \A i \in 1 .. n - 1 : t[i] \in WholeHeads(o) /\ t[i + 1] = t[i] + Size(o, t[i])
      /\ t # << >> /\ t[n] \in WholeHeads(o) => t[n] + Size(o, t[n]) + 2 > Len(o)
  BY DEF Parsed
<1>6. q \in Int
  <2>1. Size(o, pos) \in 0 .. Octets - 1 /\ Octets \in Nat
    <3>1. pos \in 0 .. Len(o) /\ ~ (pos + 2 > Len(o))
      BY <1>1
    <3> QED
      BY <3>1, HeadOctets
  <2> QED
    BY <1>1, <2>1
<1>7. (t = << >> <=> n = 0)
  BY <1>2
<1> HIDE DEF s, q, n
<1>8. s # << >>
  <2>1. Len(<< >>) = 0
    OBVIOUS
  <2> QED
    BY <1>3, <1>4, <2>1
<1>9. ASSUME NEW i \in 1 .. Len(s) - 1
      PROVE  s[i] \in WholeHeads(o) /\ s[i + 1] = s[i] + Size(o, s[i])
  <2>1. CASE i = 1
    <3>1. n # 0 /\ 2 \in 2 .. n + 1 /\ 2 - 1 = 1 /\ i + 1 = 2
      BY <1>3, <1>4, <2>1
    <3>2. t # << >> /\ t[1] = q
      BY <1>1, <1>5, <1>6, <1>7, <3>1
    <3>3. s[2] = q
      BY <1>4, <3>1, <3>2
    <3> QED
      BY <1>4, <2>1, <3>1, <3>3 DEF q
  <2>2. CASE i # 1
    <3>1. i \in 2 .. n + 1 /\ i + 1 \in 2 .. n + 1 /\ i - 1 \in 1 .. n - 1
          /\ (i - 1) + 1 = i /\ (i + 1) - 1 = i
      BY <1>3, <1>4, <2>2
    <3>2. s[i] = t[i - 1] /\ s[i + 1] = t[i]
      BY <1>4, <3>1
    <3>3. t[i - 1] \in WholeHeads(o) /\ t[(i - 1) + 1] = t[i - 1] + Size(o, t[i - 1])
      BY <1>5, <3>1
    <3> QED
      BY <3>1, <3>2, <3>3
  <2> QED
    BY <2>1, <2>2
<1>10. ASSUME s[Len(s)] \in WholeHeads(o)
       PROVE  s[Len(s)] + Size(o, s[Len(s)]) + 2 > Len(o)
  <2>1. CASE n = 0
    <3>1. s[Len(s)] = pos
      BY <1>4, <2>1
    <3>2. q + 2 > Len(o)
      BY <1>1, <1>5, <1>6, <1>7, <2>1
    <3> QED
      BY <3>1, <3>2 DEF q
  <2>2. CASE n # 0
    <3>1. n + 1 \in 2 .. n + 1 /\ (n + 1) - 1 = n /\ Len(s) = n + 1
      BY <1>3, <1>4, <2>2
    <3>2. s[Len(s)] = t[n]
      BY <1>4, <3>1
    <3> QED
      BY <1>5, <1>7, <1>10, <2>2, <3>2
  <2> QED
    BY <2>1, <2>2
<1>11. Parsed(o, s, pos)
  BY <1>1, <1>4, <1>8, <1>9, <1>10 DEF Parsed
<1> QED
  BY <1>11 DEF s

\* The one offset of a loop that ends where it starts.
LEMMA ParsedLast ==
    ASSUME NEW o \in Seq(0 .. Octets - 1), NEW pos \in Heads(o), pos \notin WholeHeads(o)
    PROVE  Parsed(o, << pos >> \o << >>, pos)
<1>1. Len(o) \in Nat /\ ~ (pos + 2 > Len(o))
  <2>1. Len(o) \in Nat
    OBVIOUS
  <2> QED
    BY <2>1 DEF Heads
<1> DEFINE s == << pos >>
<1>2. s \o << >> = s
  OBVIOUS
<1>3. s \in Seq(Heads(o)) /\ Len(s) = 1 /\ s[1] = pos /\ s # << >>
  OBVIOUS
<1> HIDE DEF s
<1>4. Parsed(o, s, pos)
  BY <1>1, <1>3 DEF Parsed
<1> QED
  BY <1>2, <1>4 DEF s

\* What the loops see of a packet.
LEMMA ScanParsed ==
    ASSUME NEW o \in Seq(0 .. Octets - 1)
    PROVE  Parsed(o, Scan(o), 0)
<1> DEFINE L == Len(o)
           f == CHOOSE f : ScanBy(o, f)
           T == {n \in Nat : \A pos \in 0 .. L : pos >= L - n => Parsed(o, f[pos], pos)}
<1>0. L \in Nat
  OBVIOUS
<1>1. ScanBy(o, f)
  BY ScanExists
<1>2. Scan(o) = f[0]
  BY DEF Scan, ScanBy
<1> HIDE DEF f
<1>3. ASSUME NEW pos \in 0 .. L
      PROVE  f[pos] = IF pos + 2 > L THEN << >>
                      ELSE << pos >> \o IF Size(o, pos) >= 2 /\ Fits(o, pos)
                                        THEN f[pos + Size(o, pos)] ELSE << >>
  BY <1>1 DEF ScanBy
<1>4. ASSUME NEW pos \in 0 .. L, pos + 2 > L PROVE Parsed(o, f[pos], pos)
  <2>1. f[pos] = << >>
    BY <1>3, <1>4
  <2>2. << >> \in Seq(Heads(o)) /\ Len(<< >>) = 0
    OBVIOUS
  <2>3. Parsed(o, << >>, pos)
    BY <1>0, <1>4, <2>2 DEF Parsed
  <2> QED
    BY <2>1, <2>3
<1>5. 0 \in T
  <2> SUFFICES ASSUME NEW pos \in 0 .. L, pos >= L - 0 PROVE Parsed(o, f[pos], pos)
    OBVIOUS
  <2>1. pos + 2 > L
    BY <1>0
  <2> QED
    BY <1>4, <2>1
<1>6. ASSUME NEW n \in T PROVE n + 1 \in T
  <2> SUFFICES ASSUME NEW pos \in 0 .. L, pos >= L - (n + 1) PROVE Parsed(o, f[pos], pos)
    OBVIOUS
  <2>0. n \in Nat /\ \A p \in 0 .. L : p >= L - n => Parsed(o, f[p], p)
    OBVIOUS
  <2>1. CASE pos + 2 > L
    BY <1>4, <2>1
  <2>2. CASE ~ (pos + 2 > L)
    <3>1. /\ pos \in Heads(o) /\ Size(o, pos) \in 0 .. Octets - 1 /\ Octets \in Nat
          /\ Size(o, pos) >= 2 /\ Fits(o, pos) <=> pos \in WholeHeads(o)
      BY <2>2, HeadOctets
    <3>2. CASE pos \in WholeHeads(o)
      <4> DEFINE p == pos + Size(o, pos)
      <4>1. p \in 0 .. L /\ p >= L - n
        BY <1>0, <2>0, <3>1, <3>2 DEF Fits
      <4>2. Parsed(o, f[p], p)
        <5> HIDE DEF p
        <5> QED
          BY <2>0, <4>1
      <4>3. f[pos] = << pos >> \o f[p]
        BY <1>3, <2>2, <3>1, <3>2
      <4>4. Parsed(o, << pos >> \o f[p], pos)
        BY <3>2, <4>2, ParsedBefore
      <4> QED
        BY <4>3, <4>4
    <3>3. CASE pos \notin WholeHeads(o)
      <4>1. f[pos] = << pos >> \o << >>
        BY <1>3, <2>2, <3>1, <3>3
      <4>2. Parsed(o, << pos >> \o << >>, pos)
        BY <3>1, <3>3, ParsedLast
      <4> QED
        BY <4>1, <4>2
    <3> QED
      BY <3>2, <3>3
  <2> QED
    BY <2>1, <2>2
<1>7. T \in SUBSET Nat
  OBVIOUS
<1>8. T = Nat
  <2> HIDE DEF T
  <2> QED
    BY <1>5, <1>6, <1>7, NatSetInduction
<1>9. Parsed(o, f[0], 0)
  <2>1. L \in T
    <3> HIDE DEF T, L
    <3> QED
      BY <1>0, <1>8
  <2>2. 0 \in 0 .. L /\ 0 >= L - L
    BY <1>0
  <2> HIDE DEF L
  <2> QED
    BY <2>1, <2>2
<1> QED
  BY <1>2, <1>9

\* Where the octets begin that are no whole attribute.
EndOf(o) == IF Whole(o) = << >> THEN 0 ELSE Last(Whole(o)) + Size(o, Last(Whole(o)))

\* A packet is its whole attributes, and a malformed one where they end or nothing
\* that has room for one.
LEMMA WholeShape ==
    ASSUME NEW o \in Seq(0 .. Octets - 1)
    PROVE  /\ Whole(o) \in Seq(WholeHeads(o))
           /\ EndOf(o) \in 0 .. Len(o)
           /\ \/ Scan(o) = Whole(o) /\ EndOf(o) + 2 > Len(o)
              \/ /\ Scan(o) = Append(Whole(o), EndOf(o))
                 /\ EndOf(o) \in Heads(o) /\ EndOf(o) \notin WholeHeads(o)
<1> DEFINE L == Len(o)
           G == WholeHeads(o)
           H == Heads(o)
           s == Scan(o)
           n == Len(s)
<1>0. L \in Nat
  OBVIOUS
<1>1. /\ s \in Seq(H)
      /\ 0 + 2 > L => s = << >>
      /\ 0 + 2 <= L => s # << >> /\ s[1] = 0
      /\ \A i \in 1 .. n - 1 : s[i] \in G /\ s[i + 1] = s[i] + Size(o, s[i])
      /\ s # << >> /\ s[n] \in G => s[n] + Size(o, s[n]) + 2 > L
  BY ScanParsed DEF Parsed
<1>2. Whole(o) = Among(s, G)
  BY DEF Whole, WholeHeads
<1>3. n \in Nat /\ (s = << >> <=> n = 0) /\ \A i \in 1 .. n : s[i] \in H
  <2> HIDE DEF s, H
  <2> QED
    BY <1>1
<1>4. \A p \in G : p \in Nat /\ p \in H /\ p + Size(o, p) \in 0 .. L
  <2> TAKE p \in G
  <2>1. p \in H /\ p \in Nat /\ ~ (p + 2 > L) /\ Fits(o, p) /\ p \in 0 .. L
    BY <1>0 DEF WholeHeads, Sound, Inside, Heads
  <2>2. Size(o, p) \in 0 .. Octets - 1 /\ Octets \in Nat
    BY <2>1, HeadOctets
  <2> QED
    BY <1>0, <2>1, <2>2 DEF Fits
<1>5. \A p \in H : p \in 0 .. L /\ p + 2 <= L
  BY <1>0 DEF Heads
<1> HIDE DEF s, G, H, L, n
<1>6. CASE s = << >>
  <2>1. Whole(o) = << >>
    <3>1. << >> \in Seq({{}}) /\ {} \in {{}}
      OBVIOUS
    <3> QED
      BY <1>2, <1>6, <3>1, AmongAppend
  <2>2. EndOf(o) = 0 /\ 0 + 2 > L
    BY <1>0, <1>1, <1>6, <2>1 DEF EndOf
  <2>3. << >> \in Seq(G)
    OBVIOUS
  <2> QED
    BY <1>0, <1>6, <2>1, <2>2, <2>3 DEF s, G, L
<1>7. CASE s # << >> /\ s[n] \in G
  <2>1. \A i \in 1 .. n : s[i] \in G
    <3>1. \A i \in 1 .. n : i = n \/ i \in 1 .. n - 1
      BY <1>3
    <3> QED
      BY <1>1, <1>7, <3>1
  <2>2. s \in Seq(G)
    <3>1. s = [i \in 1 .. n |-> s[i]]
      BY <1>1 DEF n
    <3> QED
      BY <1>3, <2>1, <3>1
  <2>3. Whole(o) = s
    BY <1>2, <2>2, AmongElements
  <2>4. EndOf(o) = s[n] + Size(o, s[n])
    BY <1>7, <2>3 DEF EndOf, Last, n
  <2>5. EndOf(o) \in 0 .. L /\ EndOf(o) + 2 > L
    BY <1>1, <1>4, <1>7, <2>4
  <2> QED
    BY <2>2, <2>3, <2>5 DEF s, G, L
<1>8. CASE s # << >> /\ s[n] \notin G
  <2> DEFINE w == [i \in 1 .. n - 1 |-> s[i]]
             x == s[n]
  <2>1. n - 1 \in Nat /\ n \in 1 .. n
    BY <1>3, <1>8
  <2>2. w \in [1 .. n - 1 -> G] /\ \A i \in 1 .. n - 1 : w[i] = s[i]
    BY <1>1
  <2>3. x \in H
    BY <1>3, <2>1
  <2> HIDE DEF w, x
  <2>4. w \in Seq(G) /\ Len(w) = n - 1
    BY <2>1, <2>2
  <2>5. w \in Seq(H)
    BY <1>4, <2>4
  <2>6. s = Append(w, x)
    <3> DEFINE g == Append(w, x)
    <3>1. g \in Seq(H) /\ Len(g) = Len(w) + 1 /\ g[Len(w) + 1] = x
          /\ \A i \in 1 .. Len(w) : g[i] = w[i]
      BY <2>3, <2>5, AppendProperties
    <3> HIDE DEF g
    <3>2. Len(g) = n /\ g[n] = x /\ \A i \in 1 .. n - 1 : g[i] = s[i]
      BY <1>3, <2>1, <2>2, <2>4, <3>1
    <3>3. \A i \in 1 .. n : g[i] = s[i]
      <4>1. \A i \in 1 .. n : i = n \/ i \in 1 .. n - 1
        BY <1>3
      <4> QED
        BY <3>2, <4>1 DEF x
    <3>4. Len(s) = n
      BY DEF n
    <3>5. s = g
      BY <1>1, <3>1, <3>2, <3>3, <3>4, SeqEqual
    <3> QED
      BY <3>5 DEF g
  <2>7. Whole(o) = w
    <3>1. x \notin G
      BY <1>8 DEF x
    <3>2. Among(Append(w, x), G) = Among(w, G)
      BY <2>3, <2>5, <3>1, AmongAppend
    <3>3. Among(w, G) = w
      BY <2>4, AmongElements
    <3> QED
      BY <1>2, <2>6, <3>2, <3>3
  <2>8. EndOf(o) = x
    <3>1. CASE n = 1
      <4>1. w = << >> /\ s[1] = 0
        BY <1>0, <1>1, <1>8, <2>4, <3>1
      <4> QED
        BY <2>7, <3>1, <4>1 DEF EndOf, x
    <3>2. CASE n # 1
      <4>1. n - 1 \in 1 .. n - 1 /\ (n - 1) + 1 = n
        BY <1>3, <2>1, <3>2
      <4>2. w # << >> /\ Last(w) = s[n - 1]
        <5>1. Len(<< >>) = 0
          OBVIOUS
        <5> QED
          BY <2>2, <2>4, <4>1, <5>1 DEF Last
      <4>3. s[(n - 1) + 1] = s[n - 1] + Size(o, s[n - 1])
        BY <1>1, <4>1
      <4> QED
        BY <2>7, <4>1, <4>2, <4>3 DEF EndOf, x
    <3> QED
      BY <3>1, <3>2
  <2>9. x \in 0 .. L /\ x \notin G
    BY <1>5, <1>8, <2>3 DEF x
  <2> QED
    BY <2>3, <2>4, <2>6, <2>7, <2>8, <2>9 DEF s, G, H, L
<1> QED
  BY <1>6, <1>7, <1>8

-----------------------------------------------------------------------------
(* The loops against one reading of the packet. *)

\* No two of the types are the same.
LEMMA TypesDiffer ==
    /\ UserNameType \notin {VendorSpecificType, CHAPChallengeType, CHAPResponseType,
                            EAPMessageType, MessageAuthenticator}
    /\ VendorSpecificType \notin {CHAPChallengeType, CHAPResponseType, EAPMessageType,
                                  MessageAuthenticator}
    /\ CHAPChallengeType \notin {CHAPResponseType, EAPMessageType, MessageAuthenticator}
    /\ CHAPResponseType \notin {EAPMessageType, MessageAuthenticator}
    /\ EAPMessageType # MessageAuthenticator
<1>1. /\ Types[1] = UserNameType /\ Types[2] = VendorSpecificType
      /\ Types[3] = CHAPChallengeType /\ Types[4] = CHAPResponseType
      /\ Types[5] = EAPMessageType /\ Types[6] = MessageAuthenticator
  BY DEF Types
<1>2. \A i, j \in 1 .. 9 : i # j => Types[i] # Types[j]
  BY TypesAssumption
<1>3. {1, 2, 3, 4, 5, 6} \subseteq 1 .. 9
  OBVIOUS
<1>4. \A i, j \in {1, 2, 3, 4, 5, 6} : i # j => Types[i] # Types[j]
  BY <1>2, <1>3
<1> HIDE DEF Types
<1> QED
  BY <1>1, <1>4

\* The attributes named t are those of type c, and can be told from vendor ones.
NameFor(t, c) ==
    /\ \A x : TypeName(x) = t <=> x = c
    /\ c # VendorSpecificType /\ t # "mschap" /\ t # "none" /\ t # "vendor"

LEMMA Names ==
    /\ NameFor("user", UserNameType) /\ NameFor("eap", EAPMessageType)
    /\ NameFor("ma", MessageAuthenticator)
    /\ NameFor("chapChallenge", CHAPChallengeType)
    /\ NameFor("chapResponse", CHAPResponseType)
<1>1. \A x : /\ TypeName(x) = "user" <=> x = UserNameType
             /\ TypeName(x) = "eap" <=> x = EAPMessageType
             /\ TypeName(x) = "ma" <=> x = MessageAuthenticator
             /\ TypeName(x) = "chapChallenge" <=> x = CHAPChallengeType
             /\ TypeName(x) = "chapResponse" <=> x = CHAPResponseType
  BY TypesDiffer DEF TypeName
<1> QED
  BY <1>1, TypesDiffer DEF NameFor

\* The attributes of the reading of a packet, and of those the vendor ones.
Vendored(o) == {pos \in Heads(o) : At(o, pos) = VendorSpecificType /\ Microsoft(Value(o, pos))}

LEMMA ReadableAre ==
    ASSUME NEW o \in Seq(0 .. Octets - 1)
    PROVE  /\ DOMAIN Abstract(o).attrs = DOMAIN Whole(o)
           /\ \A i \in DOMAIN Whole(o) : Abstract(o).attrs[i].value = Value(o, Whole(o)[i])
           /\ P!Readable(Abstract(o), "mschap") =
                 {i \in DOMAIN Whole(o) : Whole(o)[i] \in Vendored(o)}
           /\ \A t, c : NameFor(t, c) =>
                 P!Readable(Abstract(o), t) =
                    {i \in DOMAIN Whole(o) : Whole(o)[i] \in Typed(o, {c})}
<1> DEFINE w == Whole(o)
           p == Abstract(o)
           type(pos) == IF At(o, pos) = VendorSpecificType /\ Microsoft(Value(o, pos))
                        THEN "mschap" ELSE TypeName(At(o, pos))
<1>1. /\ DOMAIN p.attrs = DOMAIN w
      /\ \A i \in DOMAIN w : p.attrs[i].type = type(w[i]) /\ p.attrs[i].value = Value(o, w[i])
  BY DEF Abstract
<1>2. \A i \in DOMAIN w : w[i] \in Heads(o)
  <2>1. w \in Seq(WholeHeads(o))
    BY WholeShape
  <2> HIDE DEF w
  <2>2. \A i \in DOMAIN w : w[i] \in WholeHeads(o)
    BY <2>1
  <2> QED
    BY <2>2 DEF WholeHeads, Sound
<1> HIDE DEF w, p
<1>3. \A t : P!Readable(p, t) = {i \in DOMAIN w : type(w[i]) = t}
  BY <1>1 DEF P!Readable
<1>4. \A x : TypeName(x) # "mschap"
  BY DEF TypeName
<1>5. P!Readable(p, "mschap") = {i \in DOMAIN w : w[i] \in Vendored(o)}
  BY <1>2, <1>3, <1>4 DEF Vendored
<1>6. ASSUME NEW t, NEW c, NameFor(t, c)
      PROVE  P!Readable(p, t) = {i \in DOMAIN w : w[i] \in Typed(o, {c})}
  <2>1. \A i \in DOMAIN w : type(w[i]) = t <=> At(o, w[i]) = c
    BY <1>6 DEF NameFor
  <2>2. \A i \in DOMAIN w : w[i] \in Typed(o, {c}) <=> At(o, w[i]) = c
    BY <1>2 DEF Typed
  <2> HIDE DEF type
  <2> QED
    BY <1>3, <2>1, <2>2
<1> QED
  BY <1>1, <1>5, <1>6 DEF w, p

\* The octets that are no whole attribute begin where those end.
LEMMA RestHead ==
    ASSUME NEW o \in Seq(0 .. Octets - 1)
    PROVE  /\ Len(Rest(o)) = Len(o) - EndOf(o)
           /\ EndOf(o) + 2 <= Len(o) =>
                 Rest(o)[1] = At(o, EndOf(o)) /\ Rest(o)[2] = Size(o, EndOf(o))
<1> DEFINE e == EndOf(o)
           L == Len(o)
           r == Rest(o)
           S == 0 .. Octets - 1
<1>1. L \in Nat /\ o \in Seq(S) /\ e \in 0 .. L
  BY WholeShape
<1>2. r = SubSeq(o, e + 1, L)
  <2>1. r = Slice(o, e, L)
    BY DEF Rest, EndOf
  <2> HIDE DEF e, r
  <2> QED
    BY <1>1, <2>1 DEF Slice
<1>3. e + 1 \in Int /\ e + 1 <= L + 1
  BY <1>1
<1> HIDE DEF e, r, S
<1>4. Len(r) = L - e
  BY <1>1, <1>2, <1>3
<1>5. ASSUME e + 2 <= L PROVE r[1] = o[e + 1] /\ r[2] = o[(e + 1) + 1]
  BY <1>1, <1>2, <1>3, <1>5
<1> QED
  BY <1>4, <1>5 DEF e, r, At, Size

\* A has* loop finds the types of the whole attributes and that of the malformed
\* one behind them.
LEMMA HasAgrees ==
    ASSUME NEW o \in Seq(0 .. Octets - 1), NEW t, NEW c, NameFor(t, c)
    PROVE  Has(o, {c}) <=> P!Has(Abstract(o), t)
<1> DEFINE w == Whole(o)
           e == EndOf(o)
           p == Abstract(o)
           s == Scan(o)
           L == Len(o)
           r == Rest(o)
<1>0. L \in Nat /\ o \in Seq(0 .. Octets - 1)
  OBVIOUS
<1>1. /\ w \in Seq(WholeHeads(o)) /\ e \in 0 .. L
      /\ \/ s = w /\ e + 2 > L
         \/ s = Append(w, e) /\ e \in Heads(o) /\ e \notin WholeHeads(o)
  BY WholeShape
<1>2. e \in Heads(o) => e + 2 <= L
  BY <1>0 DEF Heads
<1>4. Len(r) = L - e /\ (e + 2 <= L => r[1] = At(o, e))
  BY RestHead
<1>5. p.tail = IF Len(r) < 2 THEN "none"
               ELSE IF r[1] = VendorSpecificType /\ r[2] < 2 THEN "vendor"
               ELSE TypeName(r[1])
  BY DEF Abstract
<1>6. P!HasReadable(p, t) <=> \E i \in DOMAIN w : w[i] \in Typed(o, {c})
  BY ReadableAre DEF P!HasReadable
<1>7. \A pos \in Heads(o) : pos \in Typed(o, {c}) <=> At(o, pos) = c
  BY DEF Typed
<1>8. Has(o, {c}) <=> \E i \in DOMAIN s : At(o, s[i]) = c
  BY DEF Has
<1>9. WholeHeads(o) \subseteq Heads(o)
  BY DEF WholeHeads, Sound
<1> HIDE DEF w, e, p, s, r
<1>10. CASE s = w /\ e + 2 > L
  <2>1. Len(r) < 2
    BY <1>0, <1>1, <1>4, <1>10
  <2>2. P!Has(p, t) <=> P!HasReadable(p, t)
    BY <1>5, <2>1 DEF P!Has, NameFor
  <2>3. \A i \in DOMAIN w : w[i] \in Heads(o)
    BY <1>1, <1>9
  <2> QED
    BY <1>6, <1>7, <1>8, <1>10, <2>2, <2>3 DEF p
<1>11. CASE s = Append(w, e) /\ e \in Heads(o) /\ e \notin WholeHeads(o)
  <2>1. e + 2 <= L /\ ~ (Len(r) < 2)
    BY <1>0, <1>1, <1>2, <1>4, <1>11
  <2>2. P!Has(p, t) <=> P!HasReadable(p, t) \/ At(o, e) = c
    BY <1>4, <1>5, <2>1 DEF P!Has, NameFor
  <2>3. w \in Seq(Heads(o)) /\ e \in Heads(o)
    BY <1>1, <1>9, <1>11
  <2>4. DOMAIN s = 1 .. Len(w) + 1 /\ s[Len(w) + 1] = e /\ \A i \in 1 .. Len(w) : s[i] = w[i]
    <3> DEFINE a == Append(w, e)
    <3>1. a \in Seq(Heads(o)) /\ Len(a) = Len(w) + 1 /\ a[Len(w) + 1] = e
          /\ \A i \in 1 .. Len(w) : a[i] = w[i]
      BY <2>3, AppendProperties
    <3>2. a = s
      BY <1>11
    <3> HIDE DEF a
    <3> QED
      BY <3>1, <3>2
  <2>5. DOMAIN w = 1 .. Len(w) /\ Len(w) \in Nat /\ \A i \in DOMAIN w : w[i] \in Heads(o)
    BY <2>3
  <2>6. (\E i \in DOMAIN s : At(o, s[i]) = c) <=>
           (\E i \in DOMAIN w : At(o, w[i]) = c) \/ At(o, e) = c
    <3>1. \A i \in 1 .. Len(w) + 1 : i \in 1 .. Len(w) \/ i = Len(w) + 1
      BY <2>5
    <3>2. Len(w) + 1 \in 1 .. Len(w) + 1 /\ \A i \in 1 .. Len(w) : i \in 1 .. Len(w) + 1
      BY <2>5
    <3> QED
      BY <2>4, <2>5, <3>1, <3>2
  <2> QED
    BY <1>6, <1>7, <1>8, <2>2, <2>5, <2>6 DEF p
<1> QED
  BY <1>1, <1>10, <1>11

\* The least of a set of indices.
LEMMA LeastIndex ==
    ASSUME NEW K \in SUBSET Nat, K # {}
    PROVE  P!Min(K) \in K /\ \A k \in K : P!Min(K) <= k
<1>1. PICK m \in K : \A y \in K : ~ (<<y, m>> \in Less)
  BY LessWF, WFMin
<1>2. \A k \in K : m <= k
  <2> TAKE k \in K
  <2>1. ~ (<<k, m>> \in Less) /\ k \in Nat /\ m \in Nat
    BY <1>1
  <2> QED
    BY <2>1 DEF Less
<1> QED
  BY <1>1, <1>2 DEF P!Min

\* What an extract* loop finds is the value of the first whole attribute in T.
LEMMA ExtractFirst ==
    ASSUME NEW o, NEW R, NEW w \in Seq(R), NEW T, NEW K,
           K = {i \in DOMAIN w : w[i] \in T}
    PROVE  Extract(o, Among(w, T)) = IF K = {} THEN NoOctets ELSE Value(o, w[P!Min(K)])
<1> DEFINE a == Among(w, T)
           m == P!Min(K)
<1>0. DOMAIN w = 1 .. Len(w) /\ Len(w) \in Nat
  OBVIOUS
<1>1. /\ (\A i \in 1 .. Len(w) : w[i] \notin T) => a = << >>
      /\ \A k \in 1 .. Len(w) : w[k] \in T /\ (\A i \in 1 .. k - 1 : w[i] \notin T) =>
            a # << >> /\ a[1] = w[k]
  BY AmongFirst
<1> HIDE DEF a
<1>2. CASE K = {}
  <2>1. a = << >>
    BY <1>0, <1>1, <1>2
  <2> QED
    BY <1>2, <2>1 DEF Extract, a
<1>3. CASE K # {}
  <2>1. K \in SUBSET Nat
    BY <1>0
  <2>2. m \in K /\ \A k \in K : m <= k
    BY <1>3, <2>1, LeastIndex
  <2> HIDE DEF m
  <2>3. m \in 1 .. Len(w) /\ w[m] \in T
    BY <1>0, <2>2
  <2>4. ASSUME NEW i \in 1 .. m - 1 PROVE w[i] \notin T
    <3>1. i \in 1 .. Len(w) /\ ~ (m <= i)
      BY <1>0, <2>3
    <3> QED
      BY <1>0, <2>2, <3>1
  <2>5. a # << >> /\ a[1] = w[m]
    BY <1>1, <2>3, <2>4
  <2> QED
    BY <1>3, <2>5 DEF Extract, a, m
<1> QED
  BY <1>2, <1>3

\* An extract* loop looks at the whole attributes only.
LEMMA ExtractWhole ==
    ASSUME NEW o \in Seq(0 .. Octets - 1), NEW c, NEW T
    PROVE  Among(OfType(o, c), Inside(o) \cap T) = Among(Whole(o), Typed(o, {c}) \cap T)
<1> DEFINE s == Scan(o)
           A == Sound(o) \cap Typed(o, {c})
           B == Inside(o) \cap T
           C == Typed(o, {c}) \cap T
<1>1. s \in Seq(Heads(o))
  BY ScanParsed DEF Parsed
<1>2. OfType(o, c) = Among(s, A)
  BY SameOffsets DEF OfType
<1>3. Whole(o) = Among(s, WholeHeads(o))
  BY DEF Whole, WholeHeads
<1>4. A \cap B = WholeHeads(o) \cap C
  BY DEF WholeHeads
<1> HIDE DEF s, A, B, C
<1>5. Among(Among(s, A), B) = Among(s, A \cap B)
  BY <1>1, AmongTwice
<1>6. Among(Among(s, WholeHeads(o)), C) = Among(s, WholeHeads(o) \cap C)
  BY <1>1, AmongTwice
<1> QED
  BY <1>2, <1>3, <1>4, <1>5, <1>6 DEF B, C

\* The value of a whole attribute lies in the packet.
LEMMA ValueOctets ==
    ASSUME NEW o \in Seq(0 .. Octets - 1), NEW pos \in WholeHeads(o)
    PROVE  Value(o, pos) \in Seq(0 .. Octets - 1)
<1> DEFINE j == pos + Size(o, pos)
           S == 0 .. Octets - 1
<1>0. Len(o) \in Nat /\ o \in Seq(S)
  OBVIOUS
<1>1. pos \in 0 .. Len(o) /\ ~ (pos + 2 > Len(o)) /\ Size(o, pos) >= 2 /\ Fits(o, pos)
  BY <1>0 DEF WholeHeads, Sound, Inside, Heads
<1>2. Size(o, pos) \in 0 .. Octets - 1 /\ Octets \in Nat
  BY <1>1, HeadOctets
<1>3. pos + 2 \in Nat /\ j \in Nat /\ pos + 2 <= j /\ j <= Len(o)
  BY <1>0, <1>1, <1>2 DEF Fits
<1>4. Value(o, pos) = Slice(o, pos + 2, j)
  BY DEF Value
<1> HIDE DEF j, S
<1>5. Slice(o, pos + 2, j) \in Seq(S)
  BY <1>0, <1>3, SliceOctets
<1> QED
  BY <1>4, <1>5 DEF S

\* Every whole attribute is one: by index.
LEMMA WholeAt ==
    ASSUME NEW o \in Seq(0 .. Octets - 1), NEW i \in DOMAIN Whole(o)
    PROVE  Whole(o)[i] \in WholeHeads(o) /\ Whole(o)[i] \in Heads(o)
<1>1. Whole(o) \in Seq(WholeHeads(o))
  BY WholeShape
<1>2. Whole(o)[i] \in WholeHeads(o)
  BY <1>1
<1> QED
  BY <1>2 DEF WholeHeads, Sound

\* The first value of a named type.
LEMMA TypeAgrees ==
    ASSUME NEW o \in Seq(0 .. Octets - 1), NEW t, NEW c, NameFor(t, c)
    PROVE  /\ ExtractType(o, c) = FirstValue(Abstract(o), t)
           /\ ExtractType(o, c) # OutOfRange
<1> DEFINE w == Whole(o)
           p == Abstract(o)
           K == P!Readable(p, t)
           T == Typed(o, {c})
<1>1. ExtractType(o, c) = Extract(o, Among(w, T))
  <2>1. Among(OfType(o, c), Inside(o) \cap Heads(o)) = Among(w, T \cap Heads(o))
    BY ExtractWhole
  <2>2. Inside(o) \cap Heads(o) = Inside(o) /\ T \cap Heads(o) = T
    BY DEF Inside, Typed
  <2> QED
    BY <2>1, <2>2 DEF ExtractType
<1>2. /\ K = {i \in DOMAIN w : w[i] \in T}
      /\ \A i \in DOMAIN w : p.attrs[i].value = Value(o, w[i])
  BY ReadableAre
<1>3. w \in Seq(WholeHeads(o))
  BY WholeShape
<1> HIDE DEF w, K, T
<1>4. Extract(o, Among(w, T)) = IF K = {} THEN NoOctets ELSE Value(o, w[P!Min(K)])
  BY <1>2, <1>3, ExtractFirst
<1>5. K # {} => P!Min(K) \in DOMAIN w
  <2>1. K \in SUBSET Nat
    BY <1>2, <1>3
  <2>2. K # {} => P!Min(K) \in K
    BY <2>1, LeastIndex
  <2> QED
    BY <1>2, <2>2
<1>6. FirstValue(p, t) = IF K # {} THEN p.attrs[P!Min(K)].value ELSE NoOctets
  BY DEF FirstValue, P!HasReadable, P!First, K
<1>7. NoOctets # OutOfRange
  BY DEF NoOctets, OutOfRange
<1>8. K # {} => Value(o, w[P!Min(K)]) # OutOfRange
  <2> SUFFICES ASSUME K # {} PROVE Value(o, w[P!Min(K)]) # OutOfRange
    OBVIOUS
  <2>1. w[P!Min(K)] \in WholeHeads(o)
    BY <1>5, WholeAt DEF w
  <2> QED
    BY <2>1, ValueOctets, OctetsNoError
<1> QED
  BY <1>1, <1>2, <1>4, <1>5, <1>6, <1>7, <1>8 DEF p

\* The first Microsoft attribute.
LEMMA VendorAgrees ==
    ASSUME NEW o \in Seq(0 .. Octets - 1)
    PROVE  /\ extractMSCHAPAttribute(o) # NoOctets <=> P!HasReadable(Abstract(o), "mschap")
           /\ extractMSCHAPAttribute(o) # OutOfRange
<1> DEFINE w == Whole(o)
           K == P!Readable(Abstract(o), "mschap")
           M == {pos \in Heads(o) : Microsoft(Value(o, pos))}
           T == Vendored(o)
           v == Extract(o, Among(w, T))
           n == Len(MicrosoftVendorID)
           x == extractMSCHAPAttribute(o)
<1>1. x = IF v = NoOctets THEN v ELSE Slice(v, n, Len(v))
  <2>1. Among(OfType(o, VendorSpecificType), Inside(o) \cap M) =
           Among(w, Typed(o, {VendorSpecificType}) \cap M)
    BY ExtractWhole
  <2>2. Inside(o) \cap M = {pos \in Inside(o) : Microsoft(Value(o, pos))}
    BY DEF Inside
  <2>3. Typed(o, {VendorSpecificType}) \cap M = T
    BY DEF Typed, Vendored
  <2> HIDE DEF w, M, T
  <2>4. Among(OfType(o, VendorSpecificType), {pos \in Inside(o) : Microsoft(Value(o, pos))})
           = Among(w, T)
    BY <2>1, <2>2, <2>3
  <2> QED
    BY <2>4 DEF extractMSCHAPAttribute
<1>2. K = {i \in DOMAIN w : w[i] \in T}
  BY ReadableAre
<1>3. w \in Seq(WholeHeads(o))
  BY WholeShape
<1> HIDE DEF w, K, T
<1>4. v = IF K = {} THEN NoOctets ELSE Value(o, w[P!Min(K)])
  BY <1>2, <1>3, ExtractFirst
<1>5. P!HasReadable(Abstract(o), "mschap") <=> K # {}
  BY DEF P!HasReadable, K
<1>6. NoOctets # OutOfRange
  BY DEF NoOctets, OutOfRange
<1>7. CASE K = {}
  BY <1>1, <1>4, <1>5, <1>6, <1>7
<1>8. CASE K # {}
  <2> DEFINE m == P!Min(K)
             pos == w[m]
             S == 0 .. Octets - 1
  <2>1. m \in K /\ m \in DOMAIN w
    <3>1. K \in SUBSET Nat
      BY <1>2, <1>3
    <3>2. m \in K
      BY <1>8, <3>1, LeastIndex
    <3> QED
      BY <1>2, <3>2
  <2>2. pos \in WholeHeads(o) /\ pos \in Vendored(o)
    BY <1>2, <2>1, WholeAt DEF w, T
  <2> HIDE DEF pos
  <2>3. v = Value(o, pos)
    BY <1>4, <1>8 DEF pos
  <2>4. v \in Seq(S)
    BY <2>2, <2>3, ValueOctets
  <2>5. Microsoft(v)
    BY <2>2, <2>3 DEF Vendored
  <2> HIDE DEF v
  <2>6. n \in Nat /\ n <= Len(v) /\ Len(v) \in Nat
    <3>1. n \in Nat
      BY VendorAssumption
    <3> QED
      BY <2>4, <2>5, <3>1 DEF Microsoft
  <2> HIDE DEF n
  <2>7. Slice(v, n, Len(v)) \in Seq(S)
    <3> HIDE DEF S
    <3> QED
      BY <2>4, <2>6, SliceOctets
  <2>8. v # NoOctets /\ Slice(v, n, Len(v)) # NoOctets /\ Slice(v, n, Len(v)) # OutOfRange
    BY <2>4, <2>7, OctetsNoError
  <2> QED
    BY <1>1, <1>5, <1>8, <2>8
<1> QED
  BY <1>7, <1>8

\* The values of the EAP-Message attributes.
LEMMA EAPAgrees ==
    ASSUME NEW o \in Seq(0 .. Octets - 1)
    PROVE  extractEAPMessage(o) = FlattenSeq(Values(Abstract(o), "eap"))
<1> DEFINE w == Whole(o)
           p == Abstract(o)
           T == Typed(o, {EAPMessageType})
           R == {w[i] : i \in DOMAIN w}
           rec(pos) == [type  |-> IF At(o, pos) = VendorSpecificType /\ Microsoft(Value(o, pos))
                                  THEN "mschap" ELSE TypeName(At(o, pos)),
                        value |-> Value(o, pos), name |-> Value(o, pos), len |-> Size(o, pos) - 2]
           g == [pos \in R |-> rec(pos)]
           eap == Among(w, T)
           K == P!Readable(p, "eap")
           B == {p.attrs[i] : i \in K}
           readable == Among(p.attrs, B)
<1>1. Among(Scan(o), Typed(o, {EAPMessageType}) \cap Sound(o) \cap Inside(o)) = eap
  <2> DEFINE s == Scan(o)
             G == WholeHeads(o)
  <2>1. s \in Seq(Heads(o))
    BY ScanParsed DEF Parsed
  <2>2. w = Among(s, G)
    BY DEF Whole, WholeHeads
  <2>3. T \cap Sound(o) \cap Inside(o) = G \cap T
    BY DEF WholeHeads
  <2> HIDE DEF s, G, T, w
  <2>4. Among(Among(s, G), T) = Among(s, G \cap T)
    BY <2>1, AmongTwice
  <2> QED
    BY <2>2, <2>3, <2>4 DEF s, T
<1>2. w \in Seq(WholeHeads(o)) /\ w \in Seq(R)
  <2>1. w \in Seq(WholeHeads(o))
    BY WholeShape
  <2> HIDE DEF w
  <2>2. w = [i \in 1 .. Len(w) |-> w[i]] /\ Len(w) \in Nat /\ DOMAIN w = 1 .. Len(w)
    BY <2>1
  <2>3. \A i \in 1 .. Len(w) : w[i] \in R
    BY <2>2
  <2> HIDE DEF R
  <2> QED
    BY <2>1, <2>2, <2>3
<1>3. p.attrs = [i \in DOMAIN w |-> rec(w[i])]
  BY DEF Abstract
<1>4. K = {i \in DOMAIN w : w[i] \in T}
  <2>1. NameFor("eap", EAPMessageType)
    BY Names
  <2> QED
    BY <2>1, ReadableAre
<1>5. K = {i \in DOMAIN w : p.attrs[i].type = "eap"}
  <2>1. DOMAIN p.attrs = DOMAIN w
    BY ReadableAre
  <2> QED
    BY <2>1 DEF P!Readable
<1> HIDE DEF w, p, T, K
<1>6. p.attrs = Mapped(g, w)
  <2>1. \A i \in DOMAIN w : w[i] \in R
    OBVIOUS
  <2>2. \A i \in DOMAIN w : g[w[i]] = rec(w[i])
    <3> HIDE DEF rec
    <3> QED
      BY <2>1
  <2> HIDE DEF g, rec
  <2> QED
    BY <1>3, <2>2 DEF Mapped
<1>7. \A i \in DOMAIN w : p.attrs[i] = g[w[i]] /\ g[w[i]].value = Value(o, w[i])
  <2>1. \A i \in DOMAIN w : w[i] \in R
    OBVIOUS
  <2>2. \A i \in DOMAIN w : g[w[i]] = rec(w[i])
    <3> HIDE DEF rec
    <3> QED
      BY <2>1
  <2>3. \A pos : rec(pos).value = Value(o, pos)
    OBVIOUS
  <2> HIDE DEF g, rec
  <2> QED
    BY <1>3, <2>2, <2>3
<1> HIDE DEF g
<1>8. \A x \in R : g[x] \in B <=> x \in T
  <2> TAKE x \in R
  <2>1. PICK i \in DOMAIN w : x = w[i]
    OBVIOUS
  <2>2. g[x] = p.attrs[i]
    BY <1>7, <2>1
  <2>3. p.attrs[i] \in B <=> i \in K
    BY <1>4, <1>5, <2>1
  <2> HIDE DEF B
  <2> QED
    BY <1>4, <2>1, <2>2, <2>3
<1> HIDE DEF B
<1>9. readable = Mapped(g, eap)
  <2> HIDE DEF R
  <2>1. Among(Mapped(g, w), B) = Mapped(g, Among(w, T))
    BY <1>2, <1>8, AmongMapped
  <2> QED
    BY <1>6, <2>1
<1>10. \A k \in DOMAIN eap : g[eap[k]].value = Value(o, eap[k])
  <2>1. eap \in Seq(R \cap T)
    <3> HIDE DEF R
    <3> QED
      BY <1>2, AmongElements
  <2>2. \A x \in R : g[x].value = Value(o, x)
    BY <1>7
  <2> HIDE DEF eap, R
  <2>3. \A k \in DOMAIN eap : eap[k] \in R
    BY <2>1
  <2> QED
    BY <2>2, <2>3
<1> HIDE DEF eap
<1>11. [i \in DOMAIN readable |-> readable[i].value] = [i \in DOMAIN eap |-> Value(o, eap[i])]
  BY <1>9, <1>10 DEF Mapped
<1>12. Values(p, "eap") = [i \in DOMAIN readable |-> readable[i].value]
  BY DEF Values, B, K
<1>13. extractEAPMessage(o) = FlattenSeq([i \in DOMAIN eap |-> Value(o, eap[i])])
  BY <1>1 DEF extractEAPMessage
<1> QED
  BY <1>11, <1>12, <1>13 DEF p

\* A value that is out of range is no Microsoft one.
LEMMA NotMicrosoft == ~ Microsoft(OutOfRange)
<1> DEFINE S == 0 .. Octets - 1
           n == Len(MicrosoftVendorID)
<1>1. MicrosoftVendorID \in Seq(S) /\ n \in Nat /\ n # 0 /\ -2 \notin S
  BY VendorAssumption
<1> HIDE DEF S
<1>2. n = 1 => MicrosoftVendorID[1] \in S
  <2>1. n = 1 => 1 \in 1 .. Len(MicrosoftVendorID)
    OBVIOUS
  <2> QED
    BY <1>1, <2>1, ElementOfSeq
<1>3. Len(OutOfRange) = 1 /\ OutOfRange[1] = -2
  BY DEF OutOfRange
<1> SUFFICES ASSUME n <= 1, IsPrefix(MicrosoftVendorID, OutOfRange) PROVE FALSE
  BY <1>3 DEF Microsoft
<1>4. n = 1
  <2> HIDE DEF n
  <2> QED
    BY <1>1
<1>5. SubSeq(MicrosoftVendorID, 1, 1) = SubSeq(OutOfRange, 1, 1)
  BY <1>4 DEF IsPrefix
<1>6. MicrosoftVendorID[1] = OutOfRange[1]
  <2>1. OutOfRange \in Seq({-2})
    BY DEF OutOfRange
  <2> HIDE DEF n
  <2>2. SubSeq(MicrosoftVendorID, 1, 1)[1] = MicrosoftVendorID[1]
    BY <1>1, <1>4 DEF n
  <2>3. SubSeq(OutOfRange, 1, 1)[1] = OutOfRange[1]
    BY <1>3, <2>1
  <2> QED
    BY <1>5, <2>2, <2>3
<1> QED
  BY <1>1, <1>2, <1>3, <1>4, <1>6

\* What hasMSCHAPAttributes slices is out of range exactly where the length octet is
\* less than 2.
LEMMA VendorSlices ==
    ASSUME NEW o \in Seq(0 .. Octets - 1), NEW pos \in Heads(o), Fits(o, pos)
    PROVE  Value(o, pos) = OutOfRange <=> Size(o, pos) < 2
<1>0. Len(o) \in Nat
  OBVIOUS
<1>1. pos \in 0 .. Len(o) /\ ~ (pos + 2 > Len(o))
  BY <1>0 DEF Heads
<1>2. Size(o, pos) \in 0 .. Octets - 1 /\ Octets \in Nat
  BY <1>1, HeadOctets
<1>3. ASSUME Size(o, pos) < 2 PROVE Value(o, pos) = OutOfRange
  BY <1>0, <1>1, <1>2, <1>3 DEF Value, Slice
<1>4. ASSUME ~ (Size(o, pos) < 2) PROVE Value(o, pos) # OutOfRange
  <2>1. Size(o, pos) >= 2
    BY <1>2, <1>4
  <2>2. pos \in WholeHeads(o)
    BY <1>1, <2>1, HeadOctets
  <2> QED
    BY <2>2, ValueOctets, OctetsNoError
<1> QED
  BY <1>3, <1>4

\* The Microsoft attributes: one that does not fit is no reading, and neither is one
\* of length 0 or 1.
LEMMA MSCHAPAgrees ==
    ASSUME NEW o \in Seq(0 .. Octets - 1)
    PROVE  hasMSCHAPAttributes(o) <=> P!HasReadable(Abstract(o), "mschap")
<1> DEFINE w == Whole(o)
           s == Scan(o)
           e == EndOf(o)
           V(pos) == At(o, pos) = VendorSpecificType /\ Fits(o, pos) /\ Microsoft(Value(o, pos))
<1>1. hasMSCHAPAttributes(o) <=> \E i \in DOMAIN s : V(s[i])
  BY DEF hasMSCHAPAttributes, VendorData
<1>2. P!HasReadable(Abstract(o), "mschap") <=> \E i \in DOMAIN w : w[i] \in Vendored(o)
  BY ReadableAre DEF P!HasReadable
<1>3. \A i \in DOMAIN w : w[i] \in Vendored(o) <=> V(w[i])
  <2>1. \A i \in DOMAIN w : w[i] \in WholeHeads(o) /\ w[i] \in Heads(o)
    BY WholeAt
  <2>2. \A pos \in WholeHeads(o) : Fits(o, pos)
    BY DEF WholeHeads, Inside
  <2> QED
    BY <2>1, <2>2 DEF Vendored
<1>4. ASSUME e \in Heads(o), e \notin WholeHeads(o) PROVE ~ V(e)
  <2> SUFFICES ASSUME Fits(o, e) PROVE ~ Microsoft(Value(o, e))
    OBVIOUS
  <2>0. Len(o) \in Nat
    OBVIOUS
  <2>1. e \in 0 .. Len(o) /\ ~ (e + 2 > Len(o))
    BY <1>4, <2>0 DEF Heads
  <2>2. Size(o, e) \in 0 .. Octets - 1 /\ Octets \in Nat /\ ~ (Size(o, e) >= 2)
    BY <1>4, <2>1, HeadOctets
  <2>3. Size(o, e) < 2
    BY <2>2
  <2> QED
    BY <1>4, <2>3, VendorSlices, NotMicrosoft
<1>5. /\ w \in Seq(WholeHeads(o))
      /\ s = w \/ (s = Append(w, e) /\ e \in Heads(o) /\ e \notin WholeHeads(o))
  BY WholeShape
<1>6. WholeHeads(o) \subseteq Heads(o)
  BY DEF WholeHeads, Sound
<1> HIDE DEF w, s, e, V
<1>7. CASE s = w
  BY <1>1, <1>2, <1>3, <1>7
<1>8. CASE s = Append(w, e) /\ e \in Heads(o) /\ e \notin WholeHeads(o)
  <2>1. w \in Seq(Heads(o))
    BY <1>5, <1>6
  <2>2. /\ DOMAIN s = 1 .. Len(w) + 1 /\ s[Len(w) + 1] = e
        /\ \A i \in 1 .. Len(w) : s[i] = w[i]
    <3> DEFINE a == Append(w, e)
    <3>1. a \in Seq(Heads(o)) /\ Len(a) = Len(w) + 1 /\ a[Len(w) + 1] = e
          /\ \A i \in 1 .. Len(w) : a[i] = w[i]
      BY <1>8, <2>1, AppendProperties
    <3>2. a = s
      BY <1>8
    <3> HIDE DEF a
    <3> QED
      BY <3>1, <3>2
  <2>3. DOMAIN w = 1 .. Len(w) /\ Len(w) \in Nat
    BY <2>1
  <2>4. (\E i \in DOMAIN s : V(s[i])) <=> \E i \in DOMAIN w : V(w[i])
    <3>1. \A i \in 1 .. Len(w) + 1 : i \in 1 .. Len(w) \/ i = Len(w) + 1
      BY <2>3
    <3>2. \A i \in 1 .. Len(w) : i \in 1 .. Len(w) + 1
      BY <2>3
    <3>3. ~ V(e)
      BY <1>4, <1>8
    <3> QED
      BY <2>2, <2>3, <3>1, <3>2, <3>3
  <2> QED
    BY <1>1, <1>2, <1>3, <2>4
<1> QED
  BY <1>5, <1>7, <1>8

\* hasMSCHAPAttributes panics exactly if a vendor attribute without room for its own
\* header comes behind whole attributes, none of which is a Microsoft one.
LEMMA PanicsAgree ==
    ASSUME NEW o \in Seq(0 .. Octets - 1)
    PROVE  hasMSCHAPPanics(o) <=> P!Panics(Abstract(o))
<1> DEFINE w == Whole(o)
           s == Scan(o)
           e == EndOf(o)
           L == Len(o)
           r == Rest(o)
           p == Abstract(o)
           B(pos) == At(o, pos) = VendorSpecificType /\ Fits(o, pos) /\ Size(o, pos) < 2
<1>0. L \in Nat
  OBVIOUS
<1>1. /\ w \in Seq(WholeHeads(o)) /\ e \in 0 .. L
      /\ \/ s = w /\ e + 2 > L
         \/ s = Append(w, e) /\ e \in Heads(o) /\ e \notin WholeHeads(o)
  BY WholeShape
<1>2. \A pos \in WholeHeads(o) : pos \in Heads(o) /\ ~ B(pos)
  <2> TAKE pos \in WholeHeads(o)
  <2>1. pos \in Heads(o) /\ Size(o, pos) >= 2
    BY DEF WholeHeads, Sound
  <2>2. pos \in 0 .. L /\ ~ (pos + 2 > L)
    BY <1>0, <2>1 DEF Heads
  <2>3. Size(o, pos) \in 0 .. Octets - 1 /\ Octets \in Nat
    BY <2>2, HeadOctets
  <2> QED
    BY <2>1, <2>3
<1>3. s \in Seq(Heads(o))
  BY ScanParsed DEF Parsed
<1>4. \A i \in DOMAIN s : s[i] \in Heads(o)
  <2> HIDE DEF s
  <2> QED
    BY <1>3
<1>5. (\E i \in DOMAIN VendorData(o) : VendorData(o)[i] = OutOfRange) <=>
         \E i \in DOMAIN s : B(s[i])
  <2>1. \A i \in DOMAIN s : Fits(o, s[i]) =>
           (Value(o, s[i]) = OutOfRange <=> Size(o, s[i]) < 2)
    BY <1>4, VendorSlices
  <2> QED
    BY <2>1 DEF VendorData
<1>6. Len(r) = L - e /\ (e + 2 <= L => r[1] = At(o, e) /\ r[2] = Size(o, e))
  BY RestHead
<1>7. p.tail = "vendor" <=> ~ (Len(r) < 2) /\ r[1] = VendorSpecificType /\ r[2] < 2
  <2>1. \A x : TypeName(x) # "vendor"
    BY DEF TypeName
  <2>2. p.tail = IF Len(r) < 2 THEN "none"
                 ELSE IF r[1] = VendorSpecificType /\ r[2] < 2 THEN "vendor"
                 ELSE TypeName(r[1])
    BY DEF Abstract
  <2> HIDE DEF p, r
  <2> QED
    BY <2>1, <2>2
<1>8. \A pos \in Heads(o) : pos + 2 <= L /\ pos \in Nat
  BY <1>0 DEF Heads
<1>9. hasMSCHAPPanics(o) <=> ~ P!HasReadable(p, "mschap") /\ \E i \in DOMAIN s : B(s[i])
  <2>1. hasMSCHAPAttributes(o) <=> P!HasReadable(p, "mschap")
    BY MSCHAPAgrees
  <2> HIDE DEF p, s, B
  <2> QED
    BY <1>5, <2>1 DEF hasMSCHAPPanics
<1> HIDE DEF w, s, e, r, p
<1>10. CASE s = w /\ e + 2 > L
  <2>1. Len(r) < 2
    BY <1>0, <1>1, <1>6, <1>10
  <2>2. \A i \in DOMAIN w : ~ B(w[i])
    <3> HIDE DEF B
    <3> QED
      BY <1>1, <1>2
  <2> QED
    BY <1>7, <1>9, <1>10, <2>1, <2>2 DEF P!Panics, p
<1>11. CASE s = Append(w, e) /\ e \in Heads(o) /\ e \notin WholeHeads(o)
  <2>1. e + 2 <= L /\ ~ (Len(r) < 2)
    BY <1>0, <1>1, <1>6, <1>8, <1>11
  <2>2. Size(o, e) < 2 => Fits(o, e)
    <3>1. e \in 0 .. L /\ ~ (e + 2 > L)
      BY <1>0, <1>1, <2>1
    <3>2. Size(o, e) \in 0 .. Octets - 1 /\ Octets \in Nat
      BY <3>1, HeadOctets
    <3> QED
      BY <1>0, <2>1, <3>1, <3>2 DEF Fits
  <2>3. p.tail = "vendor" <=> B(e)
    BY <1>6, <1>7, <2>1, <2>2
  <2>4. w \in Seq(Heads(o)) /\ e \in Heads(o)
    <3>1. WholeHeads(o) \subseteq Heads(o)
      BY <1>2
    <3> QED
      BY <1>1, <1>11, <3>1
  <2>5. DOMAIN s = 1 .. Len(w) + 1 /\ s[Len(w) + 1] = e /\ \A i \in 1 .. Len(w) : s[i] = w[i]
    <3> DEFINE a == Append(w, e)
    <3>1. a \in Seq(Heads(o)) /\ Len(a) = Len(w) + 1 /\ a[Len(w) + 1] = e
          /\ \A i \in 1 .. Len(w) : a[i] = w[i]
      BY <2>4, AppendProperties
    <3>2. a = s
      BY <1>11
    <3> HIDE DEF a
    <3> QED
      BY <3>1, <3>2
  <2> HIDE DEF B
  <2>6. DOMAIN w = 1 .. Len(w) /\ Len(w) \in Nat /\ \A i \in 1 .. Len(w) : ~ B(w[i])
    BY <1>1, <1>2, <2>4
  <2>7. (\E i \in DOMAIN s : B(s[i])) <=> B(e)
    <3>1. \A i \in 1 .. Len(w) + 1 : i \in 1 .. Len(w) \/ i = Len(w) + 1
      BY <2>6
    <3>2. Len(w) + 1 \in 1 .. Len(w) + 1
      BY <2>6
    <3> QED
      BY <2>5, <2>6, <3>1, <3>2
  <2> QED
    BY <1>9, <2>3, <2>7 DEF P!Panics, p
<1> QED
  BY <1>1, <1>10, <1>11

\* Nine attribute loops agree with one reading of the packet, whatever its octets,
\* however many, and one of them panics exactly where that reading says so.
THEOREM ScannersTheorem == ASSUME LettersAreOctets PROVE WireSpec => []ScannersAgree
<1>1. ASSUME OctetString PROVE ScannersAgree
  <2> DEFINE o == octets
             p == Abstract(o)
  <2>1. o \in Seq(0 .. Octets - 1)
    BY <1>1 DEF OctetString
  <2> HIDE DEF o
  <2>2. /\ hasEAPAttributes(o) <=> P!hasEAPAttributes(p)
        /\ hasMessageAuthenticator(o) <=> P!hasMessageAuthenticator(p)
    BY <2>1, Names, HasAgrees
       DEF hasEAPAttributes, hasMessageAuthenticator, P!hasEAPAttributes,
           P!hasMessageAuthenticator
  <2>3. hasCHAPAttributes(o) <=> P!hasCHAPAttributes(p)
    <3>1. /\ Has(o, {CHAPChallengeType}) <=> P!Has(p, "chapChallenge")
          /\ Has(o, {CHAPResponseType}) <=> P!Has(p, "chapResponse")
      BY <2>1, Names, HasAgrees
    <3>2. Has(o, {CHAPChallengeType, CHAPResponseType}) <=>
             Has(o, {CHAPChallengeType}) \/ Has(o, {CHAPResponseType})
      BY DEF Has
    <3> HIDE DEF p
    <3> QED
      BY <3>1, <3>2 DEF hasCHAPAttributes, P!hasCHAPAttributes
  <2>4. hasMSCHAPAttributes(o) <=> P!hasMSCHAPAttributes(p)
    BY <2>1, MSCHAPAgrees DEF P!hasMSCHAPAttributes
  <2>8. hasMSCHAPPanics(o) <=> P!Panics(p)
    BY <2>1, PanicsAgree
  <2>5. /\ extractUsername(o) = FirstValue(p, "user")
        /\ extractCHAPResponse(o) = FirstValue(p, "chapResponse")
        /\ extractCHAPChallenge(o) = FirstValue(p, "chapChallenge")
    BY <2>1, Names, TypeAgrees DEF extractUsername, extractCHAPResponse, extractCHAPChallenge
  <2>6. extractMSCHAPAttribute(o) # NoOctets <=> P!HasReadable(p, "mschap")
    BY <2>1, VendorAgrees
  <2>7. extractEAPMessage(o) = FlattenSeq(Values(p, "eap"))
    BY <2>1, EAPAgrees
  <2> HIDE DEF p
  <2> QED
    BY <2>2, <2>3, <2>4, <2>5, <2>6, <2>7, <2>8 DEF ScannersAgree, o, p
<1>2. OctetString => ScannersAgree
  BY <1>1
<1> QED
  BY <1>2, OctetTheorem, PTL

\* The authenticator that is compared is one of the packet's octets, or none.
LEMMA ReceivedInRange ==
    ASSUME NEW o \in Seq(0 .. Octets - 1)
    PROVE  receivedMA(o) # OutOfRange
<1> DEFINE s == Scan(o)
           X == {pos \in Typed(o, {MessageAuthenticator}) \cap Inside(o) :
                    Size(o, pos) = MacLen + 2}
           a == Among(s, X)
<1>1. s \in Seq(Heads(o))
  BY ScanParsed DEF Parsed
<1>2. X \subseteq WholeHeads(o)
  <2>1. MacLen + 2 >= 2
    BY MacLenAssumption
  <2> QED
    BY <2>1 DEF WholeHeads, Sound, Inside
<1> HIDE DEF s, X
<1>3. a \in Seq(Heads(o) \cap X)
  BY <1>1, AmongElements
<1>4. receivedMA(o) = IF a = << >> THEN NoOctets ELSE Value(o, Head(a))
  BY DEF receivedMA, s, X
<1> HIDE DEF a
<1>5. CASE a = << >>
  BY <1>4, <1>5 DEF NoOctets, OutOfRange
<1>6. CASE a # << >>
  <2>1. Head(a) \in WholeHeads(o)
    BY <1>2, <1>3, <1>6
  <2> QED
    BY <1>4, <1>6, <2>1, ValueOctets, OctetsNoError
<1> QED
  BY <1>5, <1>6

\* The name in MS-CHAP data is behind a length that was tested.
LEMMA NameInRange ==
    ASSUME NEW v \in Seq(0 .. Octets - 1)
    PROVE  parseMSCHAPData(v).name # OutOfRange
<1> DEFINE msLen == v[3] * Octets + v[4]
           name  == Slice(v, msLen, Len(v))
           S     == 0 .. Octets - 1
<1>1. Len(v) \in Nat /\ v \in Seq(S)
  OBVIOUS
<1>2. ASSUME Len(v) >= 4, ~ (msLen > Len(v) - 4), ~ (msLen < 4)
      PROVE  name # OutOfRange
  <2>1. v[3] \in S /\ v[4] \in S
    <3>1. 3 \in 1 .. Len(v) /\ 4 \in 1 .. Len(v)
      BY <1>1, <1>2
    <3> HIDE DEF S
    <3> QED
      BY <1>1, <3>1, ElementOfSeq
  <2>2. msLen \in Nat
    <3>1. \A x, y, z \in Nat : x * y + z \in Nat
      OBVIOUS
    <3>2. v[3] \in Nat /\ v[4] \in Nat /\ Octets \in Nat
      BY <2>1, OctetsAssumption
    <3> QED
      BY <3>1, <3>2
  <2> HIDE DEF msLen, S
  <2>3. Slice(v, msLen, Len(v)) \in Seq(S)
    <3>1. msLen <= Len(v) /\ Len(v) <= Len(v)
      BY <1>1, <1>2, <2>2
    <3> QED
      BY <1>1, <2>2, <3>1, SliceOctets
  <2> QED
    BY <2>3, OctetsNoError DEF S
<1>3. NoMSCHAP.name # OutOfRange
  <2>1. << >> # OutOfRange
    BY DEF OutOfRange
  <2> QED
    BY <2>1 DEF NoMSCHAP
<1> HIDE DEF msLen, S
<1>4. \/ parseMSCHAPData(v) = NoMSCHAP
      \/ /\ ~ (Len(v) < 4) /\ ~ (msLen > Len(v) - 4) /\ ~ (msLen < 4)
         /\ parseMSCHAPData(v).name = name
  BY DEF parseMSCHAPData, msLen
<1> QED
  BY <1>1, <1>2, <1>3, <1>4

\* Whatever the octets of a packet, however many, the loops slice inside it, but for
\* hasMSCHAPAttributes at a vendor attribute whose length octet is less than 2; there
\* it always slices out of range.
THEOREM BoundsTheorem == ASSUME LettersAreOctets PROVE WireSpec => []InBounds
<1>1. ASSUME OctetString PROVE InBounds
  <2> DEFINE o == octets
             s == Scan(o)
             V == VendorData(o)
  <2>1. o \in Seq(0 .. Octets - 1)
    BY <1>1 DEF OctetString
  <2> HIDE DEF o
  <2>2. /\ extractUsername(o) # OutOfRange /\ extractCHAPResponse(o) # OutOfRange
        /\ extractCHAPChallenge(o) # OutOfRange
    BY <2>1, Names, TypeAgrees DEF extractUsername, extractCHAPResponse, extractCHAPChallenge
  <2>3. /\ extractMSCHAPAttribute(o) # OutOfRange /\ receivedMA(o) # OutOfRange
        /\ parseMSCHAPData(o).name # OutOfRange
    BY <2>1, VendorAgrees, ReceivedInRange, NameInRange
  <2>4. ASSUME NEW i \in DOMAIN V
        PROVE  V[i] = OutOfRange <=> Size(o, s[i]) < 2
    <3>1. i \in DOMAIN s /\ Fits(o, s[i]) /\ V[i] = Value(o, s[i])
      BY <2>4 DEF VendorData
    <3>2. s \in Seq(Heads(o))
      BY <2>1, ScanParsed DEF Parsed
    <3> HIDE DEF s
    <3>3. s[i] \in Heads(o)
      BY <3>1, <3>2
    <3> QED
      BY <2>1, <3>1, <3>3, VendorSlices
  <2> HIDE DEF V, s
  <2>5. OutOfRange \notin {extractUsername(o), extractCHAPResponse(o), extractCHAPChallenge(o),
                           extractMSCHAPAttribute(o), receivedMA(o), parseMSCHAPData(o).name}
    BY <2>2, <2>3
  <2> QED
    BY <2>4, <2>5 DEF InBounds, V, s, o
<1>2. OctetString => InBounds
  BY <1>1
<1> QED
  BY <1>2, OctetTheorem, PTL

-----------------------------------------------------------------------------
(* Packets that are put together of attributes. *)

\* There is one way to walk a packet from an offset.
LEMMA ParsedUpTo ==
    ASSUME NEW o \in Seq(0 .. Octets - 1), NEW pos \in Nat,
           NEW s, Parsed(o, s, pos), NEW t, Parsed(o, t, pos)
    PROVE  \A n \in Nat : n \in 1 .. Len(s) => n \in 1 .. Len(t) /\ s[n] = t[n]
<1> DEFINE L == Len(o)
           H == Heads(o)
           G == WholeHeads(o)
           Shape(r) == /\ r \in Seq(H)
                       /\ pos + 2 > L => r = << >>
                       /\ pos + 2 <= L => r # << >> /\ r[1] = pos
                       /\ \A i \in 1 .. Len(r) - 1 : r[i] \in G /\ r[i + 1] = r[i] + Size(o, r[i])
                       /\ r # << >> /\ r[Len(r)] \in G => r[Len(r)] + Size(o, r[Len(r)]) + 2 > L
           T == {n \in Nat : n \in 1 .. Len(s) => n \in 1 .. Len(t) /\ s[n] = t[n]}
<1>0. L \in Nat
  OBVIOUS
<1>1. Shape(s) /\ Shape(t)
  BY DEF Parsed
<1>2. \A p \in H : p \in Nat /\ p + 2 <= L
  BY <1>0 DEF Heads
<1> HIDE DEF L, H, G
<1>3. Len(s) \in Nat /\ Len(t) \in Nat /\ (t = << >> <=> Len(t) = 0) /\ (s = << >> <=> Len(s) = 0)
  BY <1>1
<1>4. 0 \in T
  OBVIOUS
<1>5. ASSUME NEW n \in T PROVE n + 1 \in T
  <2> SUFFICES ASSUME n + 1 \in 1 .. Len(s) PROVE n + 1 \in 1 .. Len(t) /\ s[n + 1] = t[n + 1]
    OBVIOUS
  <2>0. n \in Nat /\ (n \in 1 .. Len(s) => n \in 1 .. Len(t) /\ s[n] = t[n])
    OBVIOUS
  <2>1. s[n + 1] \in H
    <3>1. s \in Seq(H)
      BY <1>1
    <3> QED
      BY <3>1, ElementOfSeq
  <2>2. CASE n = 0
    <3>1. s # << >> /\ s[1] = pos
      <4>1. Len(s) # 0
        BY <2>2
      <4>2. pos + 2 > L \/ pos + 2 <= L
        BY <1>0
      <4> QED
        BY <1>1, <1>3, <4>1, <4>2
    <3>2. pos + 2 <= L
      BY <1>2, <2>1, <2>2, <3>1
    <3>3. t # << >> /\ t[1] = pos
      BY <1>1, <3>2
    <3> QED
      BY <1>3, <2>2, <3>1, <3>3
  <2>3. CASE n # 0
    <3>1. n \in 1 .. Len(s) - 1 /\ n \in 1 .. Len(t) /\ s[n] = t[n]
      BY <1>3, <2>0, <2>3
    <3>2. s[n] \in G /\ s[n + 1] = s[n] + Size(o, s[n])
      BY <1>1, <3>1
    <3>3. s[n + 1] + 2 <= L /\ s[n + 1] \in Nat
      BY <1>2, <2>1
    <3>4. CASE n = Len(t)
      <4>1. t # << >> /\ t[Len(t)] \in G
        BY <1>3, <2>3, <3>1, <3>2, <3>4
      <4>2. t[Len(t)] + Size(o, t[Len(t)]) + 2 > L
        BY <1>1, <4>1
      <4>3. s[n + 1] + 2 > L
        BY <3>1, <3>2, <3>4, <4>2
      <4> QED
        BY <1>0, <3>3, <4>3 DEF L
    <3>5. CASE n # Len(t)
      <4>1. n \in 1 .. Len(t) - 1 /\ n + 1 \in 1 .. Len(t)
        BY <1>3, <3>1, <3>5
      <4>2. t[n + 1] = t[n] + Size(o, t[n])
        BY <1>1, <4>1
      <4> QED
        BY <3>1, <3>2, <4>1, <4>2
    <3> QED
      BY <3>4, <3>5
  <2> QED
    BY <2>2, <2>3
<1>6. T \in SUBSET Nat
  OBVIOUS
<1>7. T = Nat
  <2> HIDE DEF T
  <2> QED
    BY <1>4, <1>5, <1>6, NatSetInduction
<1> QED
  BY <1>7

LEMMA ParsedUnique ==
    ASSUME NEW o \in Seq(0 .. Octets - 1), NEW pos \in Nat,
           NEW s, Parsed(o, s, pos), NEW t, Parsed(o, t, pos)
    PROVE  s = t
<1>1. \A n \in Nat : n \in 1 .. Len(s) => n \in 1 .. Len(t) /\ s[n] = t[n]
  BY ParsedUpTo
<1>2. \A n \in Nat : n \in 1 .. Len(t) => n \in 1 .. Len(s) /\ t[n] = s[n]
  BY ParsedUpTo
<1>3. s \in Seq(Heads(o)) /\ t \in Seq(Heads(o))
  BY DEF Parsed
<1>4. Len(s) \in Nat /\ Len(t) \in Nat
  BY <1>3
<1>5. Len(s) = Len(t)
  <2>1. Len(s) # 0 => Len(s) \in 1 .. Len(t)
    BY <1>1, <1>4
  <2>2. Len(t) # 0 => Len(t) \in 1 .. Len(s)
    BY <1>2, <1>4
  <2> QED
    BY <1>4, <2>1, <2>2
<1> QED
  BY <1>1, <1>3, <1>4, <1>5, SeqEqual

\* A whole attribute on its own.
Attributes == {a \in Seq(0 .. Octets - 1) : Len(a) >= 2 /\ a[2] = Len(a)}

\* Nothing is left of a packet but whole attributes.
Tiled(o) == o \in Seq(0 .. Octets - 1) /\ EndOf(o) = Len(o)

\* What the loops see of a packet that ends with its last whole attribute.
LEMMA TiledShape ==
    ASSUME NEW o, Tiled(o)
    PROVE  /\ Scan(o) = Whole(o) /\ Parsed(o, Whole(o), 0)
           /\ Whole(o) \in Seq(WholeHeads(o)) /\ Rest(o) = << >>
<1>1. /\ o \in Seq(0 .. Octets - 1) /\ EndOf(o) = Len(o) /\ Len(o) \in Nat
  BY DEF Tiled
<1>2. Len(o) \notin Heads(o)
  BY <1>1 DEF Heads
<1>3. Scan(o) = Whole(o) /\ Whole(o) \in Seq(WholeHeads(o))
  BY <1>1, <1>2, WholeShape
<1>4. Rest(o) = Slice(o, EndOf(o), Len(o))
  BY DEF Rest, EndOf
<1>5. Slice(o, Len(o), Len(o)) = << >>
  <2>1. Slice(o, Len(o), Len(o)) \in Seq(0 .. Octets - 1)
        /\ Len(Slice(o, Len(o), Len(o))) = Len(o) - Len(o)
    <3> DEFINE S == 0 .. Octets - 1
    <3>1. o \in Seq(S) /\ Len(o) <= Len(o)
      BY <1>1
    <3> HIDE DEF S
    <3>2. Slice(o, Len(o), Len(o)) \in Seq(S) /\ Len(Slice(o, Len(o), Len(o))) = Len(o) - Len(o)
      BY <1>1, <3>1, SliceOctets, ZenonT(40)
    <3> QED
      BY <3>2 DEF S
  <2>2. Len(o) - Len(o) = 0
    BY <1>1
  <2> QED
    BY <2>1, <2>2
<1> QED
  BY <1>1, <1>3, <1>4, <1>5, ScanParsed

\* What is found at an offset of a packet, when more comes behind it.
SameAt(x, y, pos) ==
    /\ At(y, pos) = At(x, pos) /\ Size(y, pos) = Size(x, pos)
    /\ Value(y, pos) = Value(x, pos)
    /\ Slice(y, pos, pos + Size(y, pos)) = Slice(x, pos, pos + Size(x, pos))

\* What is found in front is not changed by what comes behind.
LEMMA BehindSame ==
    ASSUME NEW x \in Seq(0 .. Octets - 1), NEW a \in Seq(0 .. Octets - 1),
           NEW pos \in WholeHeads(x)
    PROVE  /\ SameAt(x, x \o a, pos) /\ pos \in WholeHeads(x \o a)
           /\ Size(x, pos) \in Nat /\ Size(x, pos) >= 2 /\ pos + Size(x, pos) <= Len(x)
<1> DEFINE y == x \o a
           S == 0 .. Octets - 1
           m == Len(x)
           n == Len(a)
<1>0. m \in Nat /\ n \in Nat /\ x \in Seq(S) /\ a \in Seq(S)
  OBVIOUS
<1>1. pos \in 0 .. m /\ ~ (pos + 2 > m) /\ pos \in Nat /\ Size(x, pos) >= 2 /\ Fits(x, pos)
  BY <1>0 DEF WholeHeads, Sound, Inside, Heads
<1>2. Size(x, pos) \in 0 .. Octets - 1 /\ Octets \in Nat
  BY <1>1, HeadOctets
<1> DEFINE z == Size(x, pos)
<1>3. z \in Nat /\ z >= 2 /\ pos + z <= m
  BY <1>1, <1>2 DEF Fits
<1> HIDE DEF S
<1>4. /\ y \in Seq(S) /\ Len(y) = m + n
      /\ \A k \in 1 .. m : y[k] = x[k]
      /\ \A i, j \in Nat : i <= j /\ j <= m => Slice(y, i, j) = Slice(x, i, j)
  <2> HIDE DEF y
  <2> QED
    BY <1>0, Behind DEF y
<1> HIDE DEF y, m, n
<1>5. pos + 1 \in 1 .. m /\ (pos + 1) + 1 \in 1 .. m
  BY <1>0, <1>1
<1>6. At(y, pos) = At(x, pos) /\ Size(y, pos) = z
  BY <1>4, <1>5 DEF At, Size
<1> HIDE DEF z
<1>7. /\ pos + 2 \in Nat /\ pos + z \in Nat /\ pos + 2 <= pos + z
      /\ pos <= pos + z
  BY <1>1, <1>3
<1>8. Slice(y, pos + 2, pos + z) = Slice(x, pos + 2, pos + z)
      /\ Slice(y, pos, pos + z) = Slice(x, pos, pos + z)
  BY <1>1, <1>3, <1>4, <1>7
<1>9. SameAt(x, y, pos)
  BY <1>6, <1>8 DEF SameAt, Value, z
<1>10. pos \in WholeHeads(y)
  <2>1. pos \in 0 .. (m + n) - 2 /\ pos + z <= m + n
    BY <1>0, <1>1, <1>3
  <2> QED
    BY <1>3, <1>4, <1>6, <2>1 DEF WholeHeads, Sound, Inside, Heads, Fits
<1> QED
  BY <1>3, <1>9, <1>10 DEF y, z, m

\* A walk goes on behind its last whole attribute.
LEMMA ParsedAfter ==
    ASSUME NEW o \in Seq(0 .. Octets - 1), NEW s \in Seq(WholeHeads(o)), NEW e \in WholeHeads(o),
           \A i \in 1 .. Len(s) - 1 : s[i + 1] = s[i] + Size(o, s[i]),
           s # << >> => s[1] = 0 /\ s[Len(s)] + Size(o, s[Len(s)]) = e,
           s = << >> => e = 0,
           e + Size(o, e) = Len(o)
    PROVE  Parsed(o, Append(s, e), 0)
<1> DEFINE t == Append(s, e)
           G == WholeHeads(o)
           n == Len(s)
<1>0. n \in Nat /\ (s = << >> <=> n = 0) /\ Len(o) \in Nat
  <2> HIDE DEF G
  <2> QED
    OBVIOUS
<1>1. /\ t \in Seq(G) /\ Len(t) = n + 1 /\ t[n + 1] = e
      /\ \A i \in 1 .. n : t[i] = s[i]
  <2> HIDE DEF t, G
  <2> QED
    BY AppendProperties DEF t, G
<1>2. G \subseteq Heads(o) /\ \A p \in Heads(o) : p \in Nat /\ p + 2 <= Len(o)
  BY <1>0 DEF WholeHeads, Sound, Heads
<1> HIDE DEF t, G
<1>3. \A i \in 1 .. n : s[i] \in G
  BY ElementOfSeq DEF G, n
<1>4. t # << >> /\ t[1] = 0
  <2>1. t # << >>
    BY <1>0, <1>1
  <2>2. CASE n = 0
    <3>1. e = 0 /\ t[0 + 1] = e
      BY <1>0, <1>1, <2>2
    <3> QED
      BY <2>1, <3>1
  <2>3. CASE n # 0
    <3>1. 1 \in 1 .. n /\ s[1] = 0
      BY <1>0, <2>3
    <3> QED
      BY <1>1, <2>1, <3>1
  <2> QED
    BY <2>1, <2>2, <2>3
<1>5. 0 + 2 <= Len(o)
  <2>1. t[1] \in G
    BY <1>0, <1>1, ElementOfSeq
  <2> QED
    BY <1>2, <1>4, <2>1
<1>6. ASSUME NEW i \in 1 .. Len(t) - 1 PROVE t[i] \in G /\ t[i + 1] = t[i] + Size(o, t[i])
  <2>1. i \in 1 .. n /\ t[i] = s[i]
    BY <1>0, <1>1
  <2>2. CASE i = n
    <3>1. t[i + 1] = e /\ s # << >>
      BY <1>0, <1>1, <2>1, <2>2
    <3> QED
      BY <1>3, <2>1, <2>2, <3>1 DEF n
  <2>3. CASE i # n
    <3>1. i \in 1 .. n - 1 /\ i + 1 \in 1 .. n
      BY <1>0, <2>1, <2>3
    <3>2. s[i + 1] = s[i] + Size(o, s[i])
      BY <3>1 DEF n
    <3> QED
      BY <1>1, <1>3, <2>1, <3>1, <3>2
  <2> QED
    BY <2>2, <2>3
<1>7. t[Len(t)] = e /\ Len(o) + 2 > Len(o)
  BY <1>0, <1>1
<1>8. t \in Seq(Heads(o))
  BY <1>1, <1>2
<1>9. Parsed(o, t, 0)
  BY <1>0, <1>4, <1>5, <1>6, <1>7, <1>8 DEF Parsed, G
<1> QED
  BY <1>9 DEF t

\* An attribute behind a packet of whole ones is the last of them.
LEMMA Attach ==
    ASSUME NEW x, Tiled(x), NEW a \in Attributes
    PROVE  LET y == x \o a
               e == Len(x)
           IN  /\ Tiled(y) /\ Len(y) = Len(x) + Len(a)
               /\ Whole(y) = Append(Whole(x), e)
               /\ e \in WholeHeads(y) /\ At(y, e) = a[1] /\ Size(y, e) = Len(a)
               /\ Value(y, e) = Slice(a, 2, Len(a))
               /\ Slice(y, e, e + Size(y, e)) = a
               /\ \A i \in DOMAIN Whole(x) : SameAt(x, y, Whole(x)[i])
<1> DEFINE y == x \o a
           e == Len(x)
           n == Len(a)
           w == Whole(x)
           S == 0 .. Octets - 1
<1>0. /\ x \in Seq(S) /\ a \in Seq(S) /\ e \in Nat /\ n \in Nat
      /\ n >= 2 /\ a[2] = n /\ EndOf(x) = e
  BY DEF Tiled, Attributes
<1>1. /\ y \in Seq(S) /\ Len(y) = e + n
      /\ \A k \in 1 .. n : y[e + k] = a[k]
      /\ \A i, j \in Nat : i <= j /\ j <= n => Slice(y, e + i, e + j) = Slice(a, i, j)
  <2> HIDE DEF S, y
  <2>1. x \in Seq(S) /\ a \in Seq(S)
    BY <1>0
  <2>2. /\ y \in Seq(S) /\ Len(y) = Len(x) + Len(a)
        /\ \A k \in 1 .. Len(a) : y[Len(x) + k] = a[k]
    BY <2>1, Behind DEF y
  <2>3. \A i, j \in Nat : i <= j /\ j <= Len(a) =>
           Slice(y, Len(x) + i, Len(x) + j) = Slice(a, i, j)
    BY <2>1, Behind DEF y
  <2> QED
    BY <2>2, <2>3
<1>2. /\ Parsed(x, w, 0) /\ w \in Seq(WholeHeads(x))
  BY TiledShape
<1>3. ASSUME NEW pos \in WholeHeads(x)
      PROVE  SameAt(x, y, pos) /\ pos \in WholeHeads(y)
  BY <1>0, BehindSame
<1> HIDE DEF y, e, n, w, S
<1>4. At(y, e) = a[1] /\ Size(y, e) = n
  <2>1. (e + 1) + 1 = e + 2 /\ 1 \in 1 .. n /\ 2 \in 1 .. n
    BY <1>0
  <2> QED
    BY <1>0, <1>1, <2>1 DEF At, Size
<1>5. Value(y, e) = Slice(a, 2, n) /\ Slice(y, e, e + Size(y, e)) = a
  <2>1. Value(y, e) = Slice(a, 2, n)
    BY <1>0, <1>1, <1>4 DEF Value
  <2>2. e + 0 = e /\ Slice(y, e + 0, e + n) = Slice(a, 0, n)
    BY <1>0, <1>1
  <2>3. Slice(a, 0, n) = a
    <3>1. Slice(a, 0, n) = SubSeq(a, 0 + 1, n)
      BY <1>0 DEF Slice, n
    <3>2. SubSeq(a, 1, Len(a)) = a
      BY <1>0
    <3> QED
      BY <3>1, <3>2 DEF n
  <2> QED
    BY <1>4, <2>1, <2>2, <2>3
<1>6. e \in WholeHeads(y)
  <2>1. e \in 0 .. (e + n) - 2 /\ e + n <= e + n
    BY <1>0
  <2> QED
    BY <1>0, <1>1, <1>4, <2>1 DEF WholeHeads, Sound, Inside, Heads, Fits
<1>7. w \in Seq(WholeHeads(y)) /\ Len(w) \in Nat /\ (w = << >> <=> Len(w) = 0)
      /\ \A i \in 1 .. Len(w) : w[i] \in WholeHeads(x)
  <2> DEFINE A == WholeHeads(x)
             B == WholeHeads(y)
  <2>1. w \in Seq(A) /\ A \subseteq B
    BY <1>2, <1>3
  <2> HIDE DEF A, B
  <2> QED
    BY <2>1 DEF A, B
<1>8. \A i \in 1 .. Len(w) - 1 : w[i + 1] = w[i] + Size(y, w[i])
  <2> TAKE i \in 1 .. Len(w) - 1
  <2>1. w[i + 1] = w[i] + Size(x, w[i]) /\ w[i] \in WholeHeads(x)
    BY <1>2 DEF Parsed
  <2> QED
    BY <1>3, <2>1 DEF SameAt
<1>9. w # << >> => w[1] = 0 /\ w[Len(w)] + Size(y, w[Len(w)]) = e
  <2> SUFFICES ASSUME w # << >> PROVE w[1] = 0 /\ w[Len(w)] + Size(y, w[Len(w)]) = e
    OBVIOUS
  <2>1. w[1] = 0
    <3>1. 0 + 2 > Len(x) \/ 0 + 2 <= Len(x)
      BY <1>0 DEF e
    <3> QED
      BY <1>2, <3>1 DEF Parsed
  <2>2. w[Len(w)] \in WholeHeads(x)
    BY <1>7
  <2>3. w[Len(w)] + Size(x, w[Len(w)]) = e
    BY <1>0 DEF EndOf, Last, w
  <2> QED
    BY <1>3, <2>1, <2>2, <2>3 DEF SameAt
<1>10. w = << >> => e = 0
  BY <1>0 DEF EndOf, w
<1>11. Parsed(y, Append(w, e), 0)
  BY <1>1, <1>4, <1>6, <1>7, <1>8, <1>9, <1>10, ParsedAfter DEF S
<1>12. Scan(y) = Append(w, e)
  BY <1>1, <1>11, ScanParsed, ParsedUnique DEF S
<1> DEFINE t == Append(w, e)
           G == WholeHeads(y)
<1>13. /\ t \in Seq(G) /\ Len(t) = Len(w) + 1 /\ t[Len(w) + 1] = e
  <2>1. w \in Seq(G) /\ e \in G
    BY <1>6, <1>7
  <2> HIDE DEF G
  <2> QED
    BY <2>1, AppendProperties
<1>14. Whole(y) = t
  <2> HIDE DEF t
  <2>1. Whole(y) = Among(t, WholeHeads(y))
    BY <1>12 DEF Whole, WholeHeads, t
  <2> QED
    BY <1>13, <2>1, AmongElements
<1>15. EndOf(y) = e + n
  <2> HIDE DEF t
  <2>1. t # << >> /\ Last(t) = e
    BY <1>7, <1>13 DEF Last
  <2> QED
    BY <1>4, <1>14, <2>1 DEF EndOf
<1>16. Tiled(y)
  BY <1>1, <1>15 DEF Tiled, S
<1>17. \A i \in DOMAIN w : SameAt(x, y, w[i])
  <2>1. DOMAIN w = 1 .. Len(w)
    BY <1>7
  <2> QED
    BY <1>3, <1>7, <2>1
<1> QED
  BY <1>1, <1>4, <1>5, <1>6, <1>14, <1>16, <1>17 DEF y, e, n, w

\* The encoder makes whole attributes of values that fit, and strings of octets of
\* the others.
LEMMA Encoded ==
    ASSUME NEW t \in 0 .. Octets - 1, NEW v \in Seq(0 .. Octets - 1)
    PROVE  /\ buildAttribute(t, v) \in Seq(0 .. Octets - 1)
           /\ Len(buildAttribute(t, v)) = 2 + Len(v)
           /\ buildAttribute(t, v)[1] = t
           /\ buildAttribute(t, v)[2] = (2 + Len(v)) % Octets
           /\ Len(v) <= Octets - 3 =>
                 /\ buildAttribute(t, v) \in Attributes
                 /\ Slice(buildAttribute(t, v), 2, 2 + Len(v)) = v
<1> DEFINE S == 0 .. Octets - 1
           n == Len(v)
           h == << t, (2 + n) % Octets >>
           a == h \o v
<1>0. n \in Nat /\ v \in Seq(S) /\ Octets \in Nat \ {0}
  BY OctetsAssumption
<1>1. (2 + n) % Octets \in S
  BY <1>0
<1>2. n <= Octets - 3 => (2 + n) % Octets = 2 + n
  BY <1>0
<1> DEFINE l == (2 + n) % Octets
<1> HIDE DEF S, n, l
<1>3. h \in Seq(S) /\ Len(h) = 2 /\ h[1] = t /\ h[2] = l
  BY <1>1 DEF S, l
<1> HIDE DEF h
<1>4. /\ a \in Seq(S) /\ Len(a) = 2 + n
      /\ \A k \in 1 .. 2 : a[k] = h[k]
  <2>0. h \in Seq(S) /\ v \in Seq(S)
    BY <1>0, <1>3
  <2>1. /\ h \o v \in Seq(S) /\ Len(h \o v) = Len(h) + Len(v)
        /\ \A k \in 1 .. Len(h) : (h \o v)[k] = h[k]
    BY <2>0, Behind
  <2> QED
    BY <1>3, <2>1 DEF n
<1>5. Slice(a, 2, 2 + n) = v
  <2>0. h \in Seq(S) /\ v \in Seq(S)
    BY <1>0, <1>3
  <2>1. \A i, j \in Nat : i <= j /\ j <= Len(v) =>
           Slice(h \o v, Len(h) + i, Len(h) + j) = Slice(v, i, j)
    BY <2>0, Behind
  <2>2. Slice(a, 2 + 0, 2 + n) = Slice(v, 0, n)
    BY <1>0, <1>3, <2>1 DEF n
  <2>3. Slice(v, 0, n) = SubSeq(v, 0 + 1, n)
    BY <1>0 DEF Slice, n
  <2>4. SubSeq(v, 1, Len(v)) = v
    BY <1>0
  <2> QED
    BY <2>2, <2>3, <2>4 DEF n
<1> HIDE DEF a
<1>6. a[1] = t /\ a[2] = l
  BY <1>3, <1>4
<1>7. buildAttribute(t, v) = a
  BY DEF buildAttribute, a, h, l, n
<1>8. n <= Octets - 3 => a \in Attributes
  <2>1. n <= Octets - 3 => a[2] = Len(a) /\ Len(a) >= 2
    BY <1>0, <1>2, <1>4, <1>6 DEF l
  <2> QED
    BY <1>4, <2>1 DEF Attributes, S
<1> QED
  BY <1>4, <1>5, <1>6, <1>7, <1>8 DEF S, n, l

\* The types that are sent are octets.
LEMMA TypeOctets ==
    {UserNameType, VendorSpecificType, EAPMessageType, MessageAuthenticator, ReplyMessageType,
     StateType, ProxyStateType} \subseteq 0 .. Octets - 1
<1>1. /\ Types[1] = UserNameType /\ Types[2] = VendorSpecificType
      /\ Types[5] = EAPMessageType /\ Types[6] = MessageAuthenticator
      /\ Types[7] = ReplyMessageType /\ Types[8] = StateType /\ Types[9] = ProxyStateType
  BY DEF Types
<1>2. \A i \in 1 .. 9 : Types[i] \in 0 .. Octets - 1
  BY TypesAssumption
<1>3. {1, 2, 5, 6, 7, 8, 9} \subseteq 1 .. 9
  OBVIOUS
<1>4. \A i \in {1, 2, 5, 6, 7, 8, 9} : Types[i] \in 0 .. Octets - 1
  BY <1>2, <1>3
<1> HIDE DEF Types
<1> DEFINE S == 0 .. Octets - 1
<1>5. \A i \in {1, 2, 5, 6, 7, 8, 9} : Types[i] \in S
  BY <1>4
<1> HIDE DEF S
<1> QED
  BY <1>1, <1>5 DEF S

\* An authenticator of MacLen equal octets fits.
LEMMA Authenticator ==
    ASSUME NEW b \in 0 .. Octets - 1
    PROVE  LET v == [i \in 1 .. MacLen |-> b]
           IN  /\ v \in Seq(0 .. Octets - 1) /\ Len(v) = MacLen
               /\ buildAttribute(MessageAuthenticator, v) \in Attributes
               /\ buildAttribute(MessageAuthenticator, v)[1] = MessageAuthenticator
               /\ Len(buildAttribute(MessageAuthenticator, v)) = MacLen + 2
               /\ Slice(buildAttribute(MessageAuthenticator, v), 2, MacLen + 2) = v
<1> DEFINE v == [i \in 1 .. MacLen |-> b]
           S == 0 .. Octets - 1
<1>0. MacLen \in Nat /\ Octets \in Nat /\ MacLen + 2 < Octets
  BY MacLenAssumption, OctetsAssumption, MacAssumption
<1>1. v \in [1 .. MacLen -> S]
  OBVIOUS
<1> HIDE DEF v
<1>2. v \in Seq(S) /\ Len(v) = MacLen
  <2> HIDE DEF S
  <2> QED
    BY <1>0, <1>1
<1>3. Len(v) <= Octets - 3 /\ 2 + Len(v) = MacLen + 2
  BY <1>0, <1>2
<1>4. MessageAuthenticator \in S
  BY TypeOctets
<1>5. /\ buildAttribute(MessageAuthenticator, v) \in Attributes
      /\ buildAttribute(MessageAuthenticator, v)[1] = MessageAuthenticator
      /\ Len(buildAttribute(MessageAuthenticator, v)) = 2 + Len(v)
      /\ Slice(buildAttribute(MessageAuthenticator, v), 2, 2 + Len(v)) = v
  BY <1>2, <1>3, <1>4, Encoded
<1> QED
  BY <1>2, <1>3, <1>5 DEF v

LEMMA ZeroAuthenticator ==
    /\ ZeroMA \in Attributes /\ ZeroMA[1] = MessageAuthenticator /\ Len(ZeroMA) = MacLen + 2
    /\ ZeroMA \in Seq(0 .. Octets - 1)
<1>1. 0 \in 0 .. Octets - 1
  BY OctetsAssumption
<1> QED
  BY <1>1, Authenticator DEF ZeroMA, Attributes

\* The empty packet.
LEMMA TiledEmpty == Tiled(<< >>) /\ Whole(<< >>) = << >>
<1>1. << >> \in Seq(0 .. Octets - 1) /\ Len(<< >>) = 0
  OBVIOUS
<1> DEFINE e == << >>
<1>2. e \in Seq(0 .. Octets - 1) /\ Len(e) = 0
  BY <1>1
<1> HIDE DEF e
<1>3. Scan(e) = << >>
  <2>1. Parsed(e, Scan(e), 0)
    BY <1>2, ScanParsed
  <2>2. 0 + 2 > Len(e)
    BY <1>2
  <2> QED
    BY <2>1, <2>2 DEF Parsed
<1>4. Whole(e) = << >>
  <2>1. << >> \in Seq({{}}) /\ {} \in {{}}
    OBVIOUS
  <2> DEFINE G == Sound(e) \cap Inside(e)
  <2>2. Whole(e) = Among(<< >>, G)
    BY <1>3 DEF Whole
  <2> HIDE DEF G
  <2> QED
    BY <2>1, <2>2, AmongAppend
<1>5. EndOf(e) = 0
  BY <1>4 DEF EndOf
<1> QED
  BY <1>2, <1>4, <1>5 DEF Tiled, e

\* What an extract* loop finds in the first attribute.
LEMMA ExtractHead ==
    ASSUME NEW o \in Seq(0 .. Octets - 1), NEW c,
           Whole(o) # << >>, At(o, Whole(o)[1]) = c
    PROVE  ExtractType(o, c) = Value(o, Whole(o)[1])
<1> DEFINE w == Whole(o)
           T == Typed(o, {c})
<1>1. ExtractType(o, c) = Extract(o, Among(w, T))
  <2>1. Among(OfType(o, c), Inside(o) \cap Heads(o)) = Among(w, T \cap Heads(o))
    BY ExtractWhole
  <2>2. Inside(o) \cap Heads(o) = Inside(o) /\ T \cap Heads(o) = T
    BY DEF Inside, Typed
  <2> QED
    BY <2>1, <2>2 DEF ExtractType
<1>2. w \in Seq(WholeHeads(o))
  BY WholeShape
<1>3. 1 \in 1 .. Len(w)
  BY <1>2
<1>4. w[1] \in T
  <2>1. w[1] \in Heads(o)
    BY <1>2, <1>3, WholeAt
  <2> QED
    BY <2>1 DEF Typed
<1>5. Among(w, T) # << >> /\ Among(w, T)[1] = w[1]
  <2> HIDE DEF w, T
  <2>1. \A i \in 1 .. 1 - 1 : w[i] \notin T
    OBVIOUS
  <2> QED
    BY <1>2, <1>3, <1>4, <2>1, AmongFirst
<1> QED
  BY <1>1, <1>5 DEF Extract

\* What an extract* loop finds is no longer than a length octet can say.
LEMMA ExtractShort ==
    ASSUME NEW o \in Seq(0 .. Octets - 1), NEW t, NEW c, NameFor(t, c),
           ExtractType(o, c) # NoOctets
    PROVE  Len(ExtractType(o, c)) <= Octets - 3
<1> DEFINE K == P!Readable(Abstract(o), t)
           m == P!Min(K)
           w == Whole(o)
           pos == w[m]
<1>1. K = {i \in DOMAIN w : w[i] \in Typed(o, {c})}
  BY ReadableAre
<1>2. \A i \in DOMAIN w : Abstract(o).attrs[i].value = Value(o, w[i])
  BY ReadableAre
<1>3. ExtractType(o, c) = IF K # {} THEN Abstract(o).attrs[m].value ELSE NoOctets
  BY TypeAgrees DEF FirstValue, P!HasReadable, P!First
<1>4. w \in Seq(WholeHeads(o))
  BY WholeShape
<1> HIDE DEF K, w
<1>5. m \in DOMAIN w
  <2>1. K \in SUBSET Nat /\ K # {}
    BY <1>1, <1>3, <1>4
  <2> QED
    BY <1>1, <2>1, LeastIndex
<1>6. ExtractType(o, c) = Value(o, pos)
  BY <1>2, <1>3, <1>5
<1> HIDE DEF pos
<1>7. pos \in WholeHeads(o)
  BY <1>5, WholeAt DEF w, pos
<1>8. Len(o) \in Nat /\ Octets \in Nat
  BY OctetsAssumption
<1>9. pos \in 0 .. Len(o) /\ ~ (pos + 2 > Len(o)) /\ Size(o, pos) >= 2 /\ Fits(o, pos)
  BY <1>7, <1>8 DEF WholeHeads, Sound, Inside, Heads
<1>10. Size(o, pos) \in 0 .. Octets - 1
  BY <1>9, HeadOctets
<1> DEFINE S == 0 .. Octets - 1
           j == pos + Size(o, pos)
<1>11. o \in Seq(S) /\ pos + 2 \in Nat /\ j \in Nat /\ pos + 2 <= j /\ j <= Len(o)
       /\ j - (pos + 2) <= Octets - 3
  BY <1>8, <1>9, <1>10 DEF Fits
<1>12. Value(o, pos) = Slice(o, pos + 2, j)
  BY DEF Value
<1> HIDE DEF S, j
<1>13. Len(Slice(o, pos + 2, j)) = j - (pos + 2)
  BY <1>11, SliceOctets
<1> QED
  BY <1>6, <1>11, <1>12, <1>13

\* What is read in front of the authenticator that follows an attribute.
LEMMA FirstAttribute ==
    ASSUME NEW a \in Attributes
    PROVE  LET o == a \o ZeroMA
           IN  /\ o \in Seq(0 .. Octets - 1) /\ Tiled(o)
               /\ Whole(o) # << >> /\ Whole(o)[1] = 0 /\ 0 \in WholeHeads(o)
               /\ Whole(o) = Append(<< 0 >>, Len(a))
               /\ At(o, 0) = a[1] /\ Value(o, 0) = Slice(a, 2, Len(a))
               /\ Len(a) \in WholeHeads(o) /\ At(o, Len(a)) = MessageAuthenticator
<1> DEFINE S == 0 .. Octets - 1
           o == a \o ZeroMA
           e == << >> \o a
           v == Slice(a, 2, Len(a))
<1>0. a \in Seq(S) /\ Len(a) \in Nat
  BY DEF Attributes
<1>1. ZeroMA \in Attributes /\ ZeroMA[1] = MessageAuthenticator
  BY ZeroAuthenticator
<1>2. e = a
  <2> HIDE DEF S
  <2> QED
    BY <1>0
<1>3. << >> \in Seq(S) /\ Len(<< >>) = 0
  OBVIOUS
<1>4. /\ Tiled(e) /\ Whole(e) = Append(<< >>, 0)
      /\ At(e, 0) = a[1] /\ Value(e, 0) = v
  BY <1>3, TiledEmpty, Attach
<1>5. Tiled(a) /\ Whole(a) = << 0 >> /\ At(a, 0) = a[1] /\ Value(a, 0) = v
  <2>1. Append(<< >>, 0) = << 0 >>
    OBVIOUS
  <2> HIDE DEF e
  <2> QED
    BY <1>2, <1>4, <2>1
<1>6. Whole(a)[1] = 0 /\ 1 \in DOMAIN Whole(a) /\ Len(Whole(a)) = 1
  BY <1>5
<1>7. /\ Whole(o) = Append(Whole(a), Len(a)) /\ SameAt(a, o, Whole(a)[1]) /\ Tiled(o)
      /\ Len(a) \in WholeHeads(o) /\ At(o, Len(a)) = MessageAuthenticator
  BY <1>1, <1>5, <1>6, Attach
<1>8. Whole(o) # << >> /\ Whole(o)[1] = 0
  <2>1. << 0 >> \in Seq(Nat) /\ Len(<< 0 >>) = 1 /\ << 0 >>[1] = 0
    OBVIOUS
  <2> DEFINE z == << 0 >>
  <2> HIDE DEF z
  <2>2. Append(z, Len(a)) # << >> /\ Append(z, Len(a))[1] = z[1]
    BY <1>0, <2>1, AppendProperties DEF z
  <2> QED
    BY <1>5, <1>7, <2>1, <2>2 DEF z
<1>9. At(o, 0) = a[1] /\ Value(o, 0) = v
  BY <1>5, <1>6, <1>7 DEF SameAt
<1> HIDE DEF o
<1>10. 0 \in WholeHeads(o)
  <2>1. Whole(o) \in Seq(WholeHeads(o))
    BY <1>7, TiledShape
  <2>2. 1 \in DOMAIN Whole(o)
    BY <1>8, <2>1
  <2> QED
    BY <1>7, <1>8, <2>2, WholeAt DEF Tiled
<1> QED
  BY <1>5, <1>7, <1>8, <1>9, <1>10 DEF Tiled, o

\* A name is read from the User-Name attribute exactly when it leaves room for the
\* header, for names of any length.
LEMMA NameRead ==
    ASSUME NEW s \in Seq(0 .. Octets - 1)
    PROVE  extractUsername(buildAttribute(UserNameType, s) \o ZeroMA) = s
              <=> Len(s) <= Octets - 3
<1> DEFINE a == buildAttribute(UserNameType, s)
           o == a \o ZeroMA
           S == 0 .. Octets - 1
<1>0. UserNameType \in S /\ s \in Seq(S)
  BY TypeOctets
<1>1. /\ a \in Seq(S) /\ a[1] = UserNameType
      /\ Len(s) <= Octets - 3 => a \in Attributes /\ Slice(a, 2, Len(a)) = s
  BY <1>0, Encoded
<1> HIDE DEF a
<1>2. o \in Seq(S)
  <2>1. ZeroMA \in Seq(S)
    BY ZeroAuthenticator
  <2> HIDE DEF S
  <2> QED
    BY <1>1, <2>1, ConcatProperties
<1>3. ASSUME Len(s) <= Octets - 3 PROVE extractUsername(o) = s
  <2>1. /\ Whole(o) # << >> /\ Whole(o)[1] = 0
        /\ At(o, 0) = UserNameType /\ Value(o, 0) = s
    BY <1>1, <1>3, FirstAttribute
  <2> HIDE DEF o
  <2>2. ExtractType(o, UserNameType) = Value(o, Whole(o)[1])
    BY <1>2, <2>1, ExtractHead
  <2> QED
    BY <2>1, <2>2 DEF extractUsername
<1>4. ASSUME extractUsername(o) = s PROVE Len(s) <= Octets - 3
  <2>1. s # NoOctets
    BY OctetsNoError
  <2> HIDE DEF o
  <2> QED
    BY <1>2, <1>4, <2>1, Names, ExtractShort DEF extractUsername
<1> QED
  BY <1>3, <1>4 DEF a

THEOREM NameTheorem == ASSUME LettersAreOctets PROVE WireSpec => []NameCarried
<1>1. OctetString => NameCarried
  BY NameRead DEF OctetString, NameCarried
<1> QED
  BY <1>1, OctetTheorem, PTL

-----------------------------------------------------------------------------
(* What a Message-Authenticator is computed over. *)

\* What is hashed of the attribute at pos, and of all whole ones.
Part(o, pos) == IF At(o, pos) = MessageAuthenticator
                THEN ZeroMA ELSE Slice(o, pos, pos + Size(o, pos))

Hashed(o) == FlattenSeq([i \in DOMAIN Whole(o) |-> Part(o, Whole(o)[i])])

Carries(o) == \E i \in DOMAIN Whole(o) : At(o, Whole(o)[i]) = MessageAuthenticator

\* A whole attribute is a string of octets.
LEMMA PartOctets ==
    ASSUME NEW o \in Seq(0 .. Octets - 1), NEW pos \in WholeHeads(o)
    PROVE  Part(o, pos) \in Seq(0 .. Octets - 1)
<1> DEFINE j == pos + Size(o, pos)
           S == 0 .. Octets - 1
<1>0. Len(o) \in Nat /\ o \in Seq(S)
  OBVIOUS
<1>1. pos \in 0 .. Len(o) /\ ~ (pos + 2 > Len(o)) /\ Size(o, pos) >= 2 /\ Fits(o, pos)
  BY <1>0 DEF WholeHeads, Sound, Inside, Heads
<1>2. Size(o, pos) \in 0 .. Octets - 1 /\ Octets \in Nat
  BY <1>1, HeadOctets
<1>3. pos \in Nat /\ j \in Nat /\ pos <= j /\ j <= Len(o)
  BY <1>0, <1>1, <1>2 DEF Fits
<1> HIDE DEF j, S
<1>4. Slice(o, pos, j) \in Seq(S) /\ ZeroMA \in Seq(S)
  BY <1>0, <1>3, SliceOctets, ZeroAuthenticator DEF S
<1> QED
  BY <1>4 DEF Part, j, S

LEMMA PartsOctets ==
    ASSUME NEW o \in Seq(0 .. Octets - 1)
    PROVE  /\ [i \in DOMAIN Whole(o) |-> Part(o, Whole(o)[i])] \in Seq(Seq(0 .. Octets - 1))
           /\ Hashed(o) \in Seq(0 .. Octets - 1)
<1> DEFINE w == Whole(o)
           S == 0 .. Octets - 1
           Q == Seq(S)
           parts == [i \in DOMAIN w |-> Part(o, w[i])]
<1>1. DOMAIN w = 1 .. Len(w) /\ Len(w) \in Nat
  BY WholeShape
<1>2. \A i \in DOMAIN w : Part(o, w[i]) \in Q
  BY WholeAt, PartOctets
<1>3. parts \in Seq(Q)
  <2> HIDE DEF w, Q
  <2> QED
    BY <1>1, <1>2
<1> HIDE DEF parts, S
<1>4. FlattenSeq(parts) \in Seq(S)
  <2>1. << >> \in Seq(S)
    OBVIOUS
  <2> QED
    BY <1>3, <2>1, FlattenSeqAppend
<1> QED
  BY <1>3, <1>4 DEF Hashed, parts, S

\* Both copies hash the whole attributes and what they add; the server's hashes the
\* rest as well.
LEMMA HashedByServer ==
    ASSUME NEW o
    PROVE  replaceOrAddMA(o) =
              Hashed(o) \o Rest(o) \o IF Carries(o) THEN << >> ELSE ZeroMA
BY DEF replaceOrAddMA, Hashed, Rest, Carries, Part, Whole

LEMMA HashedByClient ==
    ASSUME NEW o, Tiled(o)
    PROVE  cliReplaceOrAddMA(o) = Hashed(o) \o IF Carries(o) THEN << >> ELSE ZeroMA
<1> DEFINE seen == Among(LooseScan(o), Sound(o))
           w == Whole(o)
           part(pos) == IF At(o, pos) = MessageAuthenticator THEN ZeroMA
                        ELSE IF Fits(o, pos) THEN Slice(o, pos, pos + Size(o, pos)) ELSE << >>
<1>0. o \in Seq(0 .. Octets - 1)
  BY DEF Tiled
<1>1. seen = w
  <2>1. LooseScan(o) = w /\ w \in Seq(WholeHeads(o))
    BY <1>0, SameOffsets, TiledShape
  <2>2. WholeHeads(o) \subseteq Sound(o)
    BY DEF WholeHeads
  <2> HIDE DEF w
  <2>3. Among(w, Sound(o)) = w
    BY <2>1, <2>2, AmongElements
  <2> QED
    BY <2>1, <2>3
<1>2. \A i \in DOMAIN w : part(w[i]) = Part(o, w[i])
  <2> TAKE i \in DOMAIN w
  <2>1. Fits(o, w[i])
    BY <1>0, WholeAt DEF WholeHeads, Inside
  <2> QED
    BY <2>1 DEF Part
<1>3. cliReplaceOrAddMA(o) =
         FlattenSeq([i \in DOMAIN seen |-> part(seen[i])])
           \o IF \E i \in DOMAIN seen : At(o, seen[i]) = MessageAuthenticator
              THEN << >> ELSE ZeroMA
  BY DEF cliReplaceOrAddMA
<1> HIDE DEF w, part, seen
<1>4. [i \in DOMAIN w |-> part(w[i])] = [i \in DOMAIN w |-> Part(o, w[i])]
  BY <1>2
<1> QED
  BY <1>1, <1>3, <1>4 DEF Hashed, Carries, w

\* An authenticator behind whole attributes is hashed as zeros.
LEMMA HashedSigned ==
    ASSUME NEW x, Tiled(x), NEW a \in Attributes, a[1] = MessageAuthenticator
    PROVE  Hashed(x \o a) = Hashed(x) \o ZeroMA /\ Carries(x \o a)
<1> DEFINE y == x \o a
           e == Len(x)
           w == Whole(x)
           v == Whole(y)
           S == 0 .. Octets - 1
           Q == Seq(S)
           before == [i \in DOMAIN w |-> Part(x, w[i])]
           after  == [i \in DOMAIN v |-> Part(y, v[i])]
<1>1. /\ v = Append(w, e) /\ At(y, e) = a[1]
      /\ \A i \in DOMAIN w : SameAt(x, y, w[i])
  BY Attach
<1>2. w \in Seq(WholeHeads(x)) /\ DOMAIN w = 1 .. Len(w) /\ Len(w) \in Nat
  BY TiledShape
<1>3. /\ DOMAIN v = 1 .. Len(w) + 1 /\ v[Len(w) + 1] = e
      /\ \A i \in 1 .. Len(w) : v[i] = w[i]
  <2> DEFINE R == WholeHeads(x) \cup {e}
             t == Append(w, e)
  <2>1. e \in R /\ WholeHeads(x) \subseteq R
    OBVIOUS
  <2> HIDE DEF R, w, e, t
  <2>2. w \in Seq(R)
    BY <1>2, <2>1
  <2>3. /\ t \in Seq(R) /\ Len(t) = Len(w) + 1 /\ t[Len(w) + 1] = e
        /\ \A i \in 1 .. Len(w) : t[i] = w[i]
    BY <2>1, <2>2, AppendProperties DEF t
  <2>4. v = t
    BY <1>1 DEF t
  <2> HIDE DEF v
  <2> QED
    BY <2>3, <2>4
<1> HIDE DEF y, e, w, v
<1>4. before \in Seq(Q) /\ DOMAIN before = 1 .. Len(w) /\ Len(before) = Len(w)
  <2>1. before \in Seq(Q)
    BY PartsOctets DEF Tiled, w
  <2> HIDE DEF Q
  <2> QED
    BY <1>2, <2>1
<1>5. ZeroMA \in Q
  BY ZeroAuthenticator
<1> HIDE DEF S
<1>6. after = Append(before, ZeroMA)
  <2>1. Part(y, v[Len(w) + 1]) = ZeroMA
    BY <1>1, <1>3 DEF Part
  <2>2. \A i \in 1 .. Len(w) : Part(y, v[i]) = before[i]
    BY <1>1, <1>2, <1>3 DEF Part, SameAt
  <2> DEFINE t == Append(before, ZeroMA)
  <2>3. /\ t = [i \in 1 .. Len(w) + 1 |-> t[i]]
        /\ t[Len(w) + 1] = ZeroMA
        /\ \A i \in 1 .. Len(w) : t[i] = before[i]
    <3> HIDE DEF before, Q
    <3>1. /\ t \in Seq(Q) /\ Len(t) = Len(before) + 1 /\ t[Len(before) + 1] = ZeroMA
          /\ \A i \in 1 .. Len(before) : t[i] = before[i]
      BY <1>4, <1>5, AppendProperties
    <3> HIDE DEF t
    <3> QED
      BY <1>4, <3>1
  <2> HIDE DEF t, before
  <2>4. \A i \in 1 .. Len(w) + 1 : Part(y, v[i]) = t[i]
    <3>1. \A i \in 1 .. Len(w) + 1 : i = Len(w) + 1 \/ i \in 1 .. Len(w)
      BY <1>2
    <3> QED
      BY <2>1, <2>2, <2>3, <3>1
  <2>5. after = [i \in 1 .. Len(w) + 1 |-> Part(y, v[i])]
    BY <1>3
  <2> HIDE DEF after
  <2>6. after = t
    BY <2>3, <2>4, <2>5
  <2> QED
    BY <2>6 DEF t
<1>7. FlattenSeq(after) = FlattenSeq(before) \o ZeroMA
  <2> HIDE DEF before, after
  <2> QED
    BY <1>4, <1>5, <1>6, FlattenSeqAppend
<1>8. Carries(y)
  <2>1. Len(w) + 1 \in DOMAIN v
    BY <1>2, <1>3
  <2> QED
    BY <1>1, <1>3, <2>1 DEF Carries, v
<1> QED
  BY <1>7, <1>8 DEF Hashed, before, after, w, v, y

\* Where the attribute behind the first n begins.
EndAfter(o, n) == IF n = 0 THEN 0 ELSE Whole(o)[n] + Size(o, Whole(o)[n])

\* The whole attributes of a packet lie one behind the other, and leave nothing out.
LEMMA WholeTiles ==
    ASSUME NEW o \in Seq(0 .. Octets - 1)
    PROVE  /\ \A n \in 0 .. Len(Whole(o)) : EndAfter(o, n) \in 0 .. Len(o)
           /\ EndAfter(o, Len(Whole(o))) = EndOf(o)
           /\ \A n \in 1 .. Len(Whole(o)) :
                 /\ Whole(o)[n] = EndAfter(o, n - 1)
                 /\ EndAfter(o, n - 1) <= EndAfter(o, n)
<1> DEFINE w == Whole(o)
           l == Len(w)
           s == Scan(o)
<1>0. w \in Seq(WholeHeads(o)) /\ l \in Nat /\ Len(o) \in Nat /\ (w = << >> <=> l = 0)
      /\ DOMAIN w = 1 .. l
  <2>1. w \in Seq(WholeHeads(o))
    BY WholeShape
  <2> HIDE DEF w
  <2> QED
    BY <2>1
<1>1. ASSUME NEW n \in 1 .. l
      PROVE  /\ w[n] \in 0 .. Len(o) /\ Size(o, w[n]) \in Nat
             /\ w[n] + Size(o, w[n]) \in 0 .. Len(o) /\ w[n] \in Heads(o)
  <2>1. w[n] \in WholeHeads(o) /\ w[n] \in Heads(o)
    BY <1>0, WholeAt
  <2> HIDE DEF w
  <2>2. w[n] \in 0 .. Len(o) /\ ~ (w[n] + 2 > Len(o)) /\ Fits(o, w[n])
    BY <1>0, <2>1 DEF WholeHeads, Inside, Heads
  <2>3. Size(o, w[n]) \in 0 .. Octets - 1 /\ Octets \in Nat
    BY <2>2, HeadOctets
  <2> QED
    BY <1>0, <2>1, <2>2, <2>3 DEF Fits
<1>2. ASSUME NEW n \in 1 .. l
      PROVE  /\ w[n] = EndAfter(o, n - 1)
  <2>1. \A i \in 1 .. l : s[i] = w[i] /\ i \in 1 .. Len(s)
    <3>1. s = w \/ (s = Append(w, EndOf(o)) /\ EndOf(o) \in Heads(o))
      BY WholeShape
    <3>2. CASE s = Append(w, EndOf(o)) /\ EndOf(o) \in Heads(o)
      <4> DEFINE R == Heads(o)
                 e == EndOf(o)
      <4>1. w \in Seq(R) /\ e \in R
        <5>1. \A i \in 1 .. l : w[i] \in R
          BY <1>1
        <5> HIDE DEF w, R
        <5> QED
          BY <1>0, <3>2, <5>1 DEF R
      <4> HIDE DEF R, e
      <4>2. Len(Append(w, e)) = l + 1 /\ \A i \in 1 .. l : Append(w, e)[i] = w[i]
        <5> HIDE DEF w
        <5> QED
          BY <4>1, AppendProperties
      <4>3. s = Append(w, e)
        BY <3>2 DEF e
      <4> HIDE DEF s, w, l
      <4> QED
        BY <1>0, <4>2, <4>3
    <3> QED
      BY <3>1, <3>2
  <2>2. CASE n = 1
    <3>1. s # << >> => s[1] = 0
      <4>1. 0 + 2 > Len(o) \/ 0 + 2 <= Len(o)
        BY <1>0
      <4> QED
        BY <4>1, ScanParsed DEF Parsed
    <3>2. s # << >>
      <4>1. Len(<< >>) = 0
        OBVIOUS
      <4>2. 1 \in 1 .. Len(s)
        BY <2>1, <2>2
      <4> HIDE DEF s
      <4> QED
        BY <4>1, <4>2
    <3>3. w[1] = 0
      BY <2>1, <2>2, <3>1, <3>2
    <3> QED
      BY <2>2, <3>3 DEF EndAfter
  <2>3. CASE n # 1
    <3>1. n - 1 \in 1 .. l /\ (n - 1) + 1 = n /\ n - 1 # 0
      BY <1>0, <2>3
    <3>2. n - 1 \in 1 .. Len(s) - 1
      <4>1. s \in Seq(Heads(o))
        BY ScanParsed DEF Parsed
      <4>2. Len(s) \in Nat /\ n \in 1 .. Len(s)
        BY <2>1, <4>1
      <4> QED
        BY <3>1, <4>2
    <3>3. s[(n - 1) + 1] = s[n - 1] + Size(o, s[n - 1])
      BY <3>2, ScanParsed DEF Parsed
    <3> QED
      BY <2>1, <3>1, <3>3 DEF EndAfter
  <2> QED
    BY <2>2, <2>3
<1>3. ASSUME NEW n \in 0 .. l PROVE EndAfter(o, n) \in 0 .. Len(o)
  <2>1. CASE n = 0
    BY <1>0, <2>1 DEF EndAfter
  <2>2. CASE n # 0
    <3>1. n \in 1 .. l
      BY <1>0, <2>2
    <3> QED
      BY <1>1, <2>2, <3>1 DEF EndAfter
  <2> QED
    BY <2>1, <2>2
<1>4. ASSUME NEW n \in 1 .. l PROVE EndAfter(o, n - 1) <= EndAfter(o, n)
  <2>1. EndAfter(o, n) = w[n] + Size(o, w[n])
    BY DEF EndAfter
  <2> HIDE DEF w
  <2> QED
    BY <1>1, <1>2, <2>1
<1>5. EndAfter(o, l) = EndOf(o)
  BY <1>0 DEF EndAfter, EndOf, Last
<1> QED
  BY <1>2, <1>3, <1>4, <1>5

\* Without an authenticator, what is hashed of the whole attributes is the packet up to
\* their end.
LEMMA HashedTiles ==
    ASSUME NEW o \in Seq(0 .. Octets - 1), ~ Carries(o)
    PROVE  Hashed(o) \o Rest(o) = o
<1> DEFINE w == Whole(o)
           l == Len(w)
           S == 0 .. Octets - 1
           Q == Seq(S)
           upTo(n) == [i \in 1 .. n |-> Part(o, w[i])]
           End(n) == EndAfter(o, n)
           T == {n \in Nat : n <= l => FlattenSeq(upTo(n)) = Slice(o, 0, End(n))}
<1>0. l \in Nat /\ DOMAIN w = 1 .. l /\ o \in Seq(S) /\ Len(o) \in Nat
  BY WholeShape
<1>1. /\ \A n \in 0 .. l : End(n) \in 0 .. Len(o)
      /\ End(l) = EndOf(o)
      /\ \A n \in 1 .. l : w[n] = End(n - 1) /\ End(n - 1) <= End(n)
  BY WholeTiles
<1>2. \A n \in 1 .. l : Part(o, w[n]) = Slice(o, End(n - 1), End(n))
  <2> TAKE n \in 1 .. l
  <2>1. At(o, w[n]) # MessageAuthenticator
    BY <1>0 DEF Carries
  <2>2. End(n) = w[n] + Size(o, w[n])
    BY DEF EndAfter
  <2> HIDE DEF End, w
  <2> QED
    BY <1>1, <2>1, <2>2 DEF Part
<1>3. \A n \in 1 .. l : Part(o, w[n]) \in Q
  BY <1>0, WholeAt, PartOctets
<1> HIDE DEF w, l, S, End
<1>4. 0 \in T
  <2>1. upTo(0) = << >>
    OBVIOUS
  <2>2. FlattenSeq(<< >>) = << >>
    <3>1. << >> \in Seq(Seq(S)) /\ << >> \in Seq(S)
      OBVIOUS
    <3> QED
      BY <3>1, FlattenSeqAppend
  <2>3. End(0) = 0
    BY DEF EndAfter, End
  <2>4. Slice(o, 0, 0) = << >>
    <3>1. 0 <= Len(o)
      BY <1>0
    <3> QED
      BY <1>0, <3>1, SlicesJoin
  <2> HIDE DEF upTo
  <2>5. FlattenSeq(upTo(0)) = Slice(o, 0, End(0))
    BY <2>1, <2>2, <2>3, <2>4
  <2> QED
    BY <2>5
<1>5. ASSUME NEW n \in T PROVE n + 1 \in T
  <2> SUFFICES ASSUME n + 1 <= l
               PROVE  FlattenSeq(upTo(n + 1)) = Slice(o, 0, End(n + 1))
    OBVIOUS
  <2>0. n \in Nat /\ n <= l /\ FlattenSeq(upTo(n)) = Slice(o, 0, End(n))
    BY <1>0
  <2>1. n \in 0 .. l /\ n + 1 \in 1 .. l /\ n + 1 \in 0 .. l /\ (n + 1) - 1 = n
    BY <1>0, <2>0
  <2> DEFINE p == Part(o, w[n + 1])
  <2>2. p \in Q /\ p = Slice(o, End(n), End(n + 1))
    BY <1>2, <1>3, <2>1
  <2>3. /\ End(n) \in Nat /\ End(n + 1) \in Nat
        /\ End(n) <= End(n + 1) /\ End(n + 1) <= Len(o)
    BY <1>0, <1>1, <2>1
  <2>4. Slice(o, 0, End(n)) \o Slice(o, End(n), End(n + 1)) = Slice(o, 0, End(n + 1))
    BY <1>0, <2>3, SlicesJoin
  <2>5. upTo(n) \in Seq(Q) /\ Len(upTo(n)) = n
    <3> HIDE DEF Q
    <3>1. \A i \in 1 .. n : i \in 1 .. l
      BY <1>0, <2>0
    <3> QED
      BY <1>3, <2>0, <3>1
  <2>6. upTo(n + 1) = Append(upTo(n), p)
    <3> DEFINE u == upTo(n)
               t == Append(u, p)
    <3>1. /\ t = [i \in 1 .. n + 1 |-> t[i]] /\ t[n + 1] = p
          /\ \A i \in 1 .. n : t[i] = u[i]
      <4> HIDE DEF u, p, Q, upTo
      <4>1. u \in Seq(Q) /\ Len(u) = n
        BY <2>5 DEF u
      <4>2. /\ t \in Seq(Q) /\ Len(t) = Len(u) + 1 /\ t[Len(u) + 1] = p
            /\ \A i \in 1 .. Len(u) : t[i] = u[i]
        BY <2>2, <4>1, AppendProperties
      <4> HIDE DEF t
      <4> QED
        BY <2>0, <4>1, <4>2
    <3>2. \A i \in 1 .. n : u[i] = Part(o, w[i])
      OBVIOUS
    <3> HIDE DEF u, t
    <3>3. \A i \in 1 .. n + 1 : t[i] = Part(o, w[i])
      <4>1. \A i \in 1 .. n + 1 : i = n + 1 \/ i \in 1 .. n
        BY <2>0
      <4> QED
        BY <3>1, <3>2, <4>1
    <3>4. t = upTo(n + 1)
      <4> HIDE DEF p
      <4> QED
        BY <3>1, <3>3
    <3> QED
      BY <3>4 DEF t, u
  <2>7. FlattenSeq(Append(upTo(n), p)) = FlattenSeq(upTo(n)) \o p
    <3> HIDE DEF upTo, p
    <3> QED
      BY <2>2, <2>5, FlattenSeqAppend DEF Q
  <2> HIDE DEF upTo, p
  <2> QED
    BY <2>0, <2>2, <2>4, <2>6, <2>7
<1>6. T \in SUBSET Nat
  OBVIOUS
<1>7. T = Nat
  <2> HIDE DEF T
  <2> QED
    BY <1>4, <1>5, <1>6, NatSetInduction
<1>8. FlattenSeq(upTo(l)) = Slice(o, 0, End(l))
  <2>1. l \in T /\ l <= l
    <3> HIDE DEF T
    <3> QED
      BY <1>0, <1>7
  <2> HIDE DEF upTo
  <2> QED
    BY <2>1
<1>9. Hashed(o) = Slice(o, 0, EndOf(o))
  <2>1. Hashed(o) = FlattenSeq(upTo(l))
    BY <1>0 DEF Hashed, w
  <2> HIDE DEF upTo
  <2> QED
    BY <1>1, <1>8, <2>1
<1>10. Rest(o) = Slice(o, EndOf(o), Len(o))
  BY DEF Rest, EndOf
<1>11. EndOf(o) \in Nat /\ EndOf(o) <= Len(o) /\ Len(o) <= Len(o)
  BY <1>0, WholeShape
<1> DEFINE e == EndOf(o)
<1> HIDE DEF e
<1>12. e \in Nat /\ e <= Len(o) /\ Len(o) \in Nat /\ Len(o) <= Len(o) /\ o \in Seq(S)
  BY <1>0, <1>11 DEF e
<1>13. /\ Slice(o, 0, e) \o Slice(o, e, Len(o)) = Slice(o, 0, Len(o))
       /\ Slice(o, 0, Len(o)) = o
  BY <1>12, SlicesJoin
<1> QED
  BY <1>9, <1>10, <1>13 DEF e

\* The octets behind the last whole attribute.
LEMMA RestOctets ==
    ASSUME NEW o \in Seq(0 .. Octets - 1)
    PROVE  /\ Rest(o) \in Seq(0 .. Octets - 1)
           /\ Rest(o) = << >> => Tiled(o)
<1> DEFINE S == 0 .. Octets - 1
           e == EndOf(o)
<1>1. o \in Seq(S) /\ Len(o) \in Nat /\ e \in Nat /\ e <= Len(o) /\ Len(o) <= Len(o)
  BY WholeShape
<1>2. Rest(o) = Slice(o, e, Len(o))
  BY DEF Rest, EndOf
<1> HIDE DEF S, e
<1> DEFINE n == Len(o)
<1> HIDE DEF n
<1>s. o \in Seq(S) /\ n \in Nat /\ e \in Nat /\ e <= n /\ n <= Len(o)
  BY <1>1 DEF n
<1>t. Slice(o, e, n) \in Seq(S) /\ Len(Slice(o, e, n)) = n - e
  BY <1>s, SliceOctets
<1>3. Rest(o) \in Seq(S) /\ Len(Rest(o)) = Len(o) - e
  BY <1>2, <1>t DEF n
<1>4. Rest(o) = << >> => e = Len(o)
  <2>1. Len(<< >>) = 0
    OBVIOUS
  <2> QED
    BY <1>1, <1>3, <2>1
<1> QED
  BY <1>3, <1>4 DEF Tiled, S, e

\* The reading of a packet has an authenticator when one of its whole attributes is one.
LEMMA CarriesReadable ==
    ASSUME NEW o \in Seq(0 .. Octets - 1)
    PROVE  Carries(o) <=> P!HasReadable(Abstract(o), "ma")
<1>1. P!Readable(Abstract(o), "ma") =
         {i \in DOMAIN Whole(o) : Whole(o)[i] \in Typed(o, {MessageAuthenticator})}
  BY Names, ReadableAre
<1>2. \A i \in DOMAIN Whole(o) :
         Whole(o)[i] \in Typed(o, {MessageAuthenticator})
            <=> At(o, Whole(o)[i]) = MessageAuthenticator
  BY WholeAt DEF Typed
<1> QED
  BY <1>1, <1>2 DEF Carries, P!HasReadable

\* The authenticator behind a packet without one is the one that is compared.
LEMMA ReceivedSigned ==
    ASSUME NEW x, Tiled(x), ~ Carries(x), NEW b \in 0 .. Octets - 1
    PROVE  LET mac == [i \in 1 .. MacLen |-> b]
           IN  receivedMA(x \o buildAttribute(MessageAuthenticator, mac)) = mac
<1> DEFINE mac == [i \in 1 .. MacLen |-> b]
           a == buildAttribute(MessageAuthenticator, mac)
           y == x \o a
           e == Len(x)
           w == Whole(x)
           v == Whole(y)
           X == {pos \in Typed(y, {MessageAuthenticator}) \cap Inside(y) :
                    Size(y, pos) = MacLen + 2}
<1>1. /\ a \in Attributes /\ a[1] = MessageAuthenticator /\ Len(a) = MacLen + 2
      /\ Slice(a, 2, MacLen + 2) = mac
  BY Authenticator
<1> HIDE DEF mac, a
<1>2. /\ Tiled(y) /\ v = Append(w, e) /\ At(y, e) = MessageAuthenticator
      /\ Size(y, e) = MacLen + 2 /\ Value(y, e) = mac /\ e \in WholeHeads(y)
      /\ \A i \in DOMAIN w : SameAt(x, y, w[i])
  BY <1>1, Attach
<1>3. w \in Seq(WholeHeads(x)) /\ DOMAIN w = 1 .. Len(w) /\ Len(w) \in Nat
  BY TiledShape
<1>4. Scan(y) = v /\ v \in Seq(WholeHeads(y))
  BY <1>2, TiledShape
<1>5. e \in X
  BY <1>2 DEF Typed, WholeHeads, Sound, Inside
<1>6. \A i \in DOMAIN w : w[i] \notin X
  BY <1>2 DEF Typed, SameAt, Carries
<1> HIDE DEF y, e, w, v, X
<1>7. Len(v) = Len(w) + 1 /\ v[Len(w) + 1] = e /\ \A i \in 1 .. Len(w) : v[i] = w[i]
  <2> DEFINE R == WholeHeads(x) \cup {e}
             t == Append(w, e)
  <2>1. e \in R /\ WholeHeads(x) \subseteq R
    OBVIOUS
  <2> HIDE DEF R, t
  <2>2. w \in Seq(R)
    BY <1>3, <2>1
  <2>3. Len(t) = Len(w) + 1 /\ t[Len(w) + 1] = e /\ \A i \in 1 .. Len(w) : t[i] = w[i]
    BY <2>1, <2>2, AppendProperties DEF t
  <2> QED
    BY <1>2, <2>3 DEF t
<1>8. Among(v, X) # << >> /\ Among(v, X)[1] = e
  <2>1. Len(w) + 1 \in 1 .. Len(v)
    BY <1>3, <1>7
  <2>2. \A i \in 1 .. (Len(w) + 1) - 1 : v[i] \notin X
    BY <1>3, <1>6, <1>7
  <2> QED
    BY <1>4, <1>5, <1>7, <2>1, <2>2, AmongFirst
<1>9. receivedMA(y) = IF Among(v, X) = << >> THEN NoOctets ELSE Value(y, Head(Among(v, X)))
  BY <1>4 DEF receivedMA, X
<1>10. receivedMA(y) = mac
  BY <1>2, <1>8, <1>9
<1> QED
  BY <1>10 DEF y, a, mac

\* The client's copy hashes of a request without authenticator what the server's hashes
\* of it with one, and both hash every octet of it, for requests of any size.
THEOREM CoverageTheorem == ASSUME LettersAreOctets PROVE WireSpec => []MACoverage
<1>1. ASSUME OctetString PROVE MACoverage
  <2> DEFINE o == octets
             S == 0 .. Octets - 1
             mac == [i \in 1 .. MacLen |-> Octets - 1]
             a == buildAttribute(MessageAuthenticator, mac)
             signed == o \o a
  <2>0. o \in Seq(S) /\ Hashed(o) \in Seq(S) /\ Rest(o) \in Seq(S)
    BY <1>1, PartsOctets, RestOctets DEF OctetString
  <2>1. Octets - 1 \in S
    BY OctetsAssumption
  <2>2. a \in Attributes /\ a[1] = MessageAuthenticator
    BY <2>1, Authenticator
  <2>3. ZeroMA \in Seq(S)
    BY ZeroAuthenticator
  <2>4. Carries(o) <=> P!HasReadable(Abstract(o), "ma")
    BY <2>0, CarriesReadable
  <2> HIDE DEF S, a, mac
  <2>5. \A s \in Seq(S) : s \o << >> = s
    OBVIOUS
  <2>6. ASSUME Rest(o) = << >> PROVE replaceOrAddMA(o) = cliReplaceOrAddMA(o)
    <3>1. Tiled(o)
      BY <2>0, <2>6, RestOctets DEF S
    <3>2. cliReplaceOrAddMA(o) = Hashed(o) \o IF Carries(o) THEN << >> ELSE ZeroMA
      BY <3>1, HashedByClient
    <3>3. replaceOrAddMA(o) =
             Hashed(o) \o << >> \o IF Carries(o) THEN << >> ELSE ZeroMA
      BY <2>6, HashedByServer
    <3> QED
      BY <2>0, <2>5, <3>2, <3>3
  <2>7. ASSUME Rest(o) = << >>, ~ Carries(o)
        PROVE  replaceOrAddMA(signed) = cliReplaceOrAddMA(o) /\ receivedMA(signed) = mac
    <3>1. Tiled(o)
      BY <2>0, <2>7, RestOctets DEF S
    <3>2. cliReplaceOrAddMA(o) = Hashed(o) \o ZeroMA
      BY <2>7, <3>1, HashedByClient
    <3>3. Hashed(signed) = Hashed(o) \o ZeroMA /\ Carries(signed)
      BY <2>2, <3>1, HashedSigned
    <3>4. Tiled(signed)
      BY <2>2, <3>1, Attach
    <3> HIDE DEF signed
    <3>5. Rest(signed) = << >>
      BY <3>4, TiledShape
    <3>6. replaceOrAddMA(signed) = Hashed(signed) \o << >> \o << >>
      BY <3>3, <3>5, HashedByServer
    <3>7. Hashed(signed) \in Seq(S)
      BY <3>4, PartsOctets DEF Tiled, S
    <3>8. replaceOrAddMA(signed) = Hashed(o) \o ZeroMA
      BY <2>5, <3>3, <3>6, <3>7
    <3>9. receivedMA(signed) = mac
      BY <2>1, <2>7, <3>1, ReceivedSigned DEF S, signed, a, mac
    <3> QED
      BY <3>2, <3>8, <3>9
  <2>8. ASSUME ~ Carries(o) PROVE replaceOrAddMA(o) = o \o ZeroMA
    <3>1. Hashed(o) \o Rest(o) = o
      BY <2>0, <2>8, HashedTiles DEF S
    <3>2. replaceOrAddMA(o) = Hashed(o) \o Rest(o) \o ZeroMA
      BY <2>8, HashedByServer
    <3> QED
      BY <3>1, <3>2
  <2> QED
    BY <2>4, <2>6, <2>7, <2>8 DEF MACoverage, signed, a, mac
<1>2. OctetString => MACoverage
  BY <1>1
<1> QED
  BY <1>2, OctetTheorem, PTL

-----------------------------------------------------------------------------
(* What the client lists of a reject. *)

\* The octets of an attribute.
Piece(o, pos) == Slice(o, pos, pos + Size(o, pos))

\* Cut out of its packet, a whole attribute is one.
LEMMA PieceAttribute ==
    ASSUME NEW o \in Seq(0 .. Octets - 1), NEW pos \in WholeHeads(o)
    PROVE  /\ Piece(o, pos) \in Attributes /\ Piece(o, pos)[1] = At(o, pos)
           /\ Slice(Piece(o, pos), 2, Len(Piece(o, pos))) = Value(o, pos)
<1> DEFINE z == Size(o, pos)
           j == pos + z
           S == 0 .. Octets - 1
           a == Piece(o, pos)
<1>0. Len(o) \in Nat /\ o \in Seq(S)
  OBVIOUS
<1>1. pos \in 0 .. Len(o) /\ ~ (pos + 2 > Len(o)) /\ z >= 2 /\ Fits(o, pos)
  BY <1>0 DEF WholeHeads, Sound, Inside, Heads
<1>2. z \in 0 .. Octets - 1 /\ Octets \in Nat
  BY <1>1, HeadOctets
<1>3. pos \in Nat /\ z \in Nat /\ j \in Nat /\ pos <= j /\ j <= Len(o) /\ j - pos = z
  BY <1>0, <1>1, <1>2 DEF Fits
<1>4. a = SubSeq(o, pos + 1, j)
  BY <1>3 DEF Piece, Slice
<1>5. a \in Seq(S) /\ Len(a) = z
  <2>1. Slice(o, pos, j) \in Seq(S) /\ Len(Slice(o, pos, j)) = j - pos
    <3> HIDE DEF S, j
    <3> QED
      BY <1>0, <1>3, SliceOctets
  <2> QED
    BY <1>3, <2>1 DEF Piece
<1>6. ASSUME NEW k \in 1 .. z PROVE a[k] = o[pos + k]
  <2> HIDE DEF j, a, z
  <2>1. SubSeq(o, pos + 1, j) = [l \in 1 .. j - pos |-> o[pos + l]]
    BY <1>3, SubSeqBy
  <2> QED
    BY <1>3, <1>4, <2>1
<1> HIDE DEF a
<1>7. a[1] = At(o, pos) /\ a[2] = z
  <2>1. 1 \in 1 .. z /\ 2 \in 1 .. z /\ (pos + 1) + 1 = pos + 2
    BY <1>1, <1>3
  <2>2. a[1] = o[pos + 1] /\ a[2] = o[pos + 2]
    <3> HIDE DEF z
    <3> QED
      BY <1>6, <2>1
  <2> QED
    BY <2>1, <2>2 DEF At, Size
<1>8. Slice(a, 2, z) = Value(o, pos)
  <2> HIDE DEF z
  <2>1. /\ Slice(a, 2, z) = SubSeq(a, 2 + 1, z)
        /\ Value(o, pos) = SubSeq(o, (pos + 2) + 1, pos + z)
    BY <1>0, <1>1, <1>3, <1>5, SMTT(30) DEF Slice, Value, z
  <2>2. SubSeq(a, 2 + 1, z) = [k \in 1 .. z - 2 |-> a[2 + k]]
    BY <1>3, SubSeqBy
  <2>3. SubSeq(o, (pos + 2) + 1, pos + z)
           = [k \in 1 .. (pos + z) - (pos + 2) |-> o[(pos + 2) + k]]
    <3>1. pos + 2 \in Nat /\ pos + z \in Nat
      BY <1>3
    <3> QED
      BY <3>1, SubSeqBy, SMTT(30)
  <2>4. (pos + z) - (pos + 2) = z - 2
    BY <1>3
  <2>5. \A k \in 1 .. z - 2 : a[2 + k] = o[(pos + 2) + k]
    <3> TAKE k \in 1 .. z - 2
    <3>1. 2 + k \in 1 .. z /\ (pos + 2) + k = pos + (2 + k)
      BY <1>3
    <3> QED
      BY <1>6, <3>1
  <2> QED
    BY <2>1, <2>2, <2>3, <2>4, <2>5
<1>9. a \in Attributes
  BY <1>1, <1>5, <1>7 DEF Attributes
<1> QED
  BY <1>5, <1>7, <1>8, <1>9 DEF a

\* What is listed of a packet of whole attributes.
LEMMA ListedWhole ==
    ASSUME NEW o
    PROVE  DisplayResponse(o) =
              [i \in DOMAIN Whole(o) |-> << At(o, Whole(o)[i]), Value(o, Whole(o)[i]) >>]
BY DEF DisplayResponse, Whole

\* An attribute behind whole attributes is listed behind them.
LEMMA ListedAttached ==
    ASSUME NEW x, Tiled(x), NEW a \in Attributes
    PROVE  /\ DisplayResponse(x \o a) =
                 Append(DisplayResponse(x), << a[1], Slice(a, 2, Len(a)) >>)
           /\ \E R : DisplayResponse(x) \in Seq(R)
<1> DEFINE y == x \o a
           e == Len(x)
           w == Whole(x)
           v == Whole(y)
           item == << a[1], Slice(a, 2, Len(a)) >>
           before == [i \in DOMAIN w |-> << At(x, w[i]), Value(x, w[i]) >>]
           after == [i \in DOMAIN v |-> << At(y, v[i]), Value(y, v[i]) >>]
           B == {before[i] : i \in DOMAIN w} \cup {item}
<1>1. /\ v = Append(w, e) /\ At(y, e) = a[1] /\ Value(y, e) = Slice(a, 2, Len(a))
      /\ \A i \in DOMAIN w : SameAt(x, y, w[i])
  BY Attach
<1>2. w \in Seq(WholeHeads(x)) /\ DOMAIN w = 1 .. Len(w) /\ Len(w) \in Nat
  BY TiledShape
<1> HIDE DEF y, e, w, v
<1>3. DOMAIN v = 1 .. Len(w) + 1 /\ v[Len(w) + 1] = e /\ \A i \in 1 .. Len(w) : v[i] = w[i]
  <2> DEFINE R == WholeHeads(x) \cup {e}
             t == Append(w, e)
  <2>1. e \in R /\ WholeHeads(x) \subseteq R
    OBVIOUS
  <2> HIDE DEF R, t
  <2>2. w \in Seq(R)
    BY <1>2, <2>1
  <2>3. t \in Seq(R) /\ Len(t) = Len(w) + 1 /\ t[Len(w) + 1] = e
        /\ \A i \in 1 .. Len(w) : t[i] = w[i]
    BY <2>1, <2>2, AppendProperties DEF t
  <2> QED
    BY <1>1, <2>3 DEF t
<1>4. before \in Seq(B) /\ Len(before) = Len(w) /\ item \in B
  <2>1. item \in B /\ \A i \in DOMAIN w : before[i] \in B
    OBVIOUS
  <2>2. before = [i \in 1 .. Len(w) |-> before[i]]
    BY <1>2
  <2> HIDE DEF before, B, item
  <2> QED
    BY <1>2, <2>1, <2>2
<1>5. after = Append(before, item)
  <2>1. << At(y, v[Len(w) + 1]), Value(y, v[Len(w) + 1]) >> = item
    BY <1>1, <1>3
  <2>2. \A i \in 1 .. Len(w) : << At(y, v[i]), Value(y, v[i]) >> = before[i]
    BY <1>1, <1>2, <1>3 DEF SameAt
  <2> DEFINE t == Append(before, item)
  <2>3. /\ t = [i \in 1 .. Len(w) + 1 |-> t[i]]
        /\ t[Len(w) + 1] = item
        /\ \A i \in 1 .. Len(w) : t[i] = before[i]
    <3> HIDE DEF before, item, B
    <3>1. /\ t \in Seq(B) /\ Len(t) = Len(before) + 1 /\ t[Len(before) + 1] = item
          /\ \A i \in 1 .. Len(before) : t[i] = before[i]
      BY <1>4, AppendProperties
    <3> HIDE DEF t
    <3> QED
      BY <1>2, <1>4, <3>1
  <2> HIDE DEF t, before, item
  <2>4. \A i \in 1 .. Len(w) + 1 : << At(y, v[i]), Value(y, v[i]) >> = t[i]
    <3>1. \A i \in 1 .. Len(w) + 1 : i = Len(w) + 1 \/ i \in 1 .. Len(w)
      BY <1>2
    <3> QED
      BY <2>1, <2>2, <2>3, <3>1
  <2>5. after = [i \in 1 .. Len(w) + 1 |-> << At(y, v[i]), Value(y, v[i]) >>]
    BY <1>3
  <2> HIDE DEF after
  <2>6. after = t
    BY <2>3, <2>4, <2>5
  <2> QED
    BY <2>6 DEF t
<1>6. DisplayResponse(x) = before /\ DisplayResponse(y) = after
  BY ListedWhole DEF w, v
<1> HIDE DEF before, after, item, B
<1>7. \E R : before \in Seq(R)
  BY <1>4
<1> QED
  BY <1>5, <1>6, <1>7 DEF y, item

\* A packet of attributes cut out of another lists them, each as it was.
LEMMA ListedPieces ==
    ASSUME NEW o \in Seq(0 .. Octets - 1), NEW k \in Seq(WholeHeads(o))
    PROVE  LET y == FlattenSeq([i \in DOMAIN k |-> Piece(o, k[i])])
           IN  /\ Tiled(y)
               /\ DisplayResponse(y) = [i \in DOMAIN k |-> << At(o, k[i]), Value(o, k[i]) >>]
<1> DEFINE S == 0 .. Octets - 1
           Q == Seq(S)
           G == WholeHeads(o)
           g == [p \in G |-> Piece(o, p)]
           h == [p \in G |-> << At(o, p), Value(o, p) >>]
           y(s) == FlattenSeq(Mapped(g, s))
           Good(s) == Tiled(y(s)) /\ DisplayResponse(y(s)) = Mapped(h, s)
           T == {s \in Seq(G) : Good(s)}
<1>1. \A p \in G : /\ g[p] \in Attributes /\ g[p] \in Q
                   /\ h[p] = << g[p][1], Slice(g[p], 2, Len(g[p])) >>
  <2> TAKE p \in G
  <2>1. g[p] = Piece(o, p) /\ h[p] = << At(o, p), Value(o, p) >>
    OBVIOUS
  <2>2. /\ Piece(o, p) \in Attributes /\ Piece(o, p)[1] = At(o, p)
        /\ Slice(Piece(o, p), 2, Len(Piece(o, p))) = Value(o, p)
    BY PieceAttribute
  <2> QED
    BY <2>1, <2>2 DEF Attributes
<1>2. \A s \in Seq(G) : Mapped(g, s) \in Seq(Q)
  <2> TAKE s \in Seq(G)
  <2>1. Mapped(g, s) = [i \in 1 .. Len(s) |-> g[s[i]]]
    BY DEF Mapped
  <2> HIDE DEF g, Q, G
  <2>2. \A i \in 1 .. Len(s) : s[i] \in G
    BY ElementOfSeq
  <2>3. \A i \in 1 .. Len(s) : g[s[i]] \in Q
    BY <1>1, <2>2
  <2>4. Len(s) \in Nat
    OBVIOUS
  <2> QED
    BY <2>1, <2>3, <2>4
<1> HIDE DEF G, g, h
<1>3. << >> \in T
  <2>1. Mapped(g, << >>) = << >> /\ Mapped(h, << >>) = << >>
    BY DEF Mapped
  <2>2. FlattenSeq(<< >>) = << >>
    <3>1. << >> \in Seq(Seq(S)) /\ << >> \in Seq(S)
      OBVIOUS
    <3> HIDE DEF S
    <3> QED
      BY <3>1, FlattenSeqAppend
  <2>3. Tiled(<< >>) /\ Whole(<< >>) = << >>
    BY TiledEmpty
  <2>4. DisplayResponse(<< >>) = << >>
    <3> DEFINE e == << >>
    <3>1. DisplayResponse(e) =
             [i \in DOMAIN Whole(e) |-> << At(e, Whole(e)[i]), Value(e, Whole(e)[i]) >>]
      BY ListedWhole
    <3>2. DOMAIN Whole(e) = {}
      BY <2>3
    <3> HIDE DEF e
    <3>3. DisplayResponse(e) = [i \in {} |-> i]
      BY <3>1, <3>2
    <3>4. [i \in {} |-> i] = << >>
      OBVIOUS
    <3> QED
      BY <3>3, <3>4 DEF e
  <2>5. Good(<< >>)
    BY <2>1, <2>2, <2>3, <2>4
  <2>6. << >> \in Seq(G)
    OBVIOUS
  <2> HIDE DEF Good
  <2> QED
    BY <2>5, <2>6
<1>4. ASSUME NEW s \in T, NEW p \in G PROVE Append(s, p) \in T
  <2>0. s \in Seq(G) /\ Good(s) /\ Append(s, p) \in Seq(G)
    <3>1. s \in Seq(G) /\ Good(s)
      OBVIOUS
    <3> HIDE DEF Good, T
    <3> QED
      BY <3>1, AppendProperties
  <2> DEFINE x == y(s)
             a == g[p]
  <2>1. Tiled(x) /\ DisplayResponse(x) = Mapped(h, s)
    BY <2>0
  <2>2. a \in Attributes /\ a \in Q /\ h[p] = << a[1], Slice(a, 2, Len(a)) >>
    BY <1>1
  <2>3. y(Append(s, p)) = x \o a
    <3>1. Mapped(g, Append(s, p)) = Append(Mapped(g, s), a)
      BY <2>0, MappedAppend
    <3>2. Mapped(g, s) \in Seq(Q)
      BY <1>2, <2>0
    <3> DEFINE m == Mapped(g, s)
    <3> HIDE DEF m, a, S
    <3>3. FlattenSeq(Append(m, a)) = FlattenSeq(m) \o a
      BY <2>2, <3>2, FlattenSeqAppend DEF m
    <3> QED
      BY <3>1, <3>3 DEF m
  <2> HIDE DEF x, a, y
  <2>4. /\ Tiled(x \o a)
        /\ DisplayResponse(x \o a) = Append(DisplayResponse(x), << a[1], Slice(a, 2, Len(a)) >>)
    BY <2>1, <2>2, Attach, ListedAttached
  <2>5. Mapped(h, Append(s, p)) = Append(Mapped(h, s), h[p])
    BY <2>0, MappedAppend
  <2>6. Good(Append(s, p))
    BY <2>1, <2>2, <2>3, <2>4, <2>5
  <2> HIDE DEF Good
  <2> QED
    BY <2>0, <2>6
<1>5. T \in SUBSET Seq(G)
  OBVIOUS
<1>6. T = Seq(G)
  <2> HIDE DEF T
  <2> QED
    BY <1>3, <1>4, <1>5, SeqSetInduction
<1>7. Good(k)
  <2>1. k \in Seq(G)
    BY DEF G
  <2> HIDE DEF Good
  <2> QED
    BY <1>6, <2>1
<1>8. \A i \in DOMAIN k : k[i] \in G
  <2>1. k \in Seq(G)
    BY DEF G
  <2> QED
    BY <2>1
<1>9. Mapped(g, k) = [i \in DOMAIN k |-> Piece(o, k[i])]
  <2>1. \A i \in DOMAIN k : g[k[i]] = Piece(o, k[i])
    BY <1>8 DEF g
  <2> QED
    BY <2>1 DEF Mapped
<1>10. Mapped(h, k) = [i \in DOMAIN k |-> << At(o, k[i]), Value(o, k[i]) >>]
  <2>1. \A i \in DOMAIN k : h[k[i]] = << At(o, k[i]), Value(o, k[i]) >>
    BY <1>8 DEF h
  <2> QED
    BY <2>1 DEF Mapped
<1> QED
  BY <1>7, <1>9, <1>10

\* A reject shows what it repeats of a request, and then its message.
LEMMA RejectLists ==
    ASSUME NEW o \in Seq(0 .. Octets - 1), NEW msg \in Seq(0 .. Octets - 1),
           Len(msg) <= Octets - 3
    PROVE  LET kept == Among(Whole(o), Typed(o, {ProxyStateType, StateType}))
           IN  DisplayResponse(rejectAttributes(o, msg)) =
                   Append([i \in DOMAIN kept |-> << At(o, kept[i]), Value(o, kept[i]) >>],
                          << ReplyMessageType, msg >>)
<1> DEFINE G == WholeHeads(o)
           X == Typed(o, {ProxyStateType, StateType})
           s == Scan(o)
           kept == Among(Whole(o), X)
           y == mirrored(o)
           a == buildAttribute(ReplyMessageType, msg)
<1>1. Whole(o) \in Seq(G) /\ Whole(o) = Among(s, G) /\ s \in Seq(Heads(o))
  BY WholeShape, ScanParsed DEF Parsed, Whole, WholeHeads
<1>2. Among(s, X \cap Sound(o) \cap Inside(o)) = kept
  <2>1. X \cap Sound(o) \cap Inside(o) = G \cap X
    BY DEF WholeHeads
  <2> HIDE DEF X, G, s
  <2> QED
    BY <1>1, <2>1, AmongTwice
<1>3. kept \in Seq(G)
  <2> DEFINE w == Whole(o)
             z == Among(w, X)
  <2>1. w \in Seq(G)
    BY <1>1
  <2> HIDE DEF w, X, G
  <2>2. z \in Seq(G \cap X)
    BY <2>1, AmongElements
  <2> DEFINE H == G \cap X
  <2>3. H \subseteq G
    OBVIOUS
  <2> HIDE DEF H, z
  <2>4. z \in Seq(G)
    BY <2>2, <2>3 DEF H
  <2> QED
    BY <2>4 DEF z, w
<1>4. y = FlattenSeq([i \in DOMAIN kept |-> Piece(o, kept[i])])
  <2> DEFINE r == Among(s, X \cap Sound(o) \cap Inside(o))
  <2>1. y = FlattenSeq([i \in DOMAIN r |-> Slice(o, r[i], r[i] + Size(o, r[i]))])
    BY DEF mirrored
  <2>2. r = kept
    BY <1>2
  <2> HIDE DEF r, kept, y
  <2> QED
    BY <2>1, <2>2 DEF Piece
<1> HIDE DEF kept, G, y, a
<1>5. /\ Tiled(y)
      /\ DisplayResponse(y) = [i \in DOMAIN kept |-> << At(o, kept[i]), Value(o, kept[i]) >>]
  BY <1>3, <1>4, ListedPieces DEF G
<1>6. a \in Attributes /\ a[1] = ReplyMessageType /\ Slice(a, 2, Len(a)) = msg
  <2>1. ReplyMessageType \in 0 .. Octets - 1
    BY TypeOctets
  <2> QED
    BY <2>1, Encoded DEF a
<1>7. DisplayResponse(y \o a) =
         Append(DisplayResponse(y), << ReplyMessageType, msg >>)
  BY <1>5, <1>6, ListedAttached
<1>8. rejectAttributes(o, msg) = y \o a
  BY DEF rejectAttributes, y, a
<1> QED
  BY <1>5, <1>7, <1>8 DEF kept

\* So it is for requests of any size, where 8 and 9 are octets.
THEOREM RejectTheorem ==
    ASSUME LettersAreOctets, Octets > 9 PROVE WireSpec => []RejectShown
<1>1. ASSUME OctetString PROVE RejectShown
  <2> DEFINE m == << 8, 9 >>
             S == 0 .. Octets - 1
  <2>1. Octets \in Nat
    BY OctetsAssumption
  <2>2. 8 \in S /\ 9 \in S
    BY <2>1
  <2>3. m \in Seq(S) /\ Len(m) = 2 /\ Len(m) <= Octets - 3
    <3>1. 2 <= Octets - 3
      BY <2>1
    <3> HIDE DEF S
    <3> QED
      BY <2>2, <3>1
  <2> HIDE DEF m
  <2>4. octets \in Seq(S)
    BY <1>1 DEF OctetString
  <2> QED
    BY <2>3, <2>4, RejectLists DEF RejectShown, m
<1>2. OctetString => RejectShown
  BY <1>1
<1> QED
  BY <1>2, OctetTheorem, PTL

-----------------------------------------------------------------------------
(* The MS-CHAP v2 attribute. *)

\* The parts of MS-CHAP v2 data have lengths, which together are an octet; so are the
\* octets the property fills them with.
PartsFit ==
    /\ ChallengeLen \in Nat /\ ReservedLen \in Nat /\ ResponseLen \in Nat
    /\ ChallengeLen + ReservedLen + ResponseLen + 5 < Octets
    /\ 6 < Octets

\* What follows the vendor id is no longer than a length octet leaves it room.
LEMMA VendorShort ==
    ASSUME NEW o \in Seq(0 .. Octets - 1), extractMSCHAPAttribute(o) # NoOctets
    PROVE  /\ extractMSCHAPAttribute(o) \in Seq(0 .. Octets - 1)
           /\ Len(extractMSCHAPAttribute(o)) + Len(MicrosoftVendorID) <= Octets - 3
<1> DEFINE s == LooseScan(o)
           X == {pos \in Inside(o) : Microsoft(Value(o, pos))}
           a == Among(OfType(o, VendorSpecificType), X)
           v == Extract(o, a)
           n == Len(MicrosoftVendorID)
           S == 0 .. Octets - 1
<1>1. extractMSCHAPAttribute(o) = IF v = NoOctets THEN v ELSE Slice(v, n, Len(v))
  BY DEF extractMSCHAPAttribute
<1>2. a \in Seq(WholeHeads(o) \cap X)
  <2> DEFINE Y == Sound(o) \cap Typed(o, {VendorSpecificType})
             b == Among(s, Y)
             R == Heads(o)
  <2>1. s \in Seq(R)
    BY SameOffsets, ScanParsed DEF Parsed
  <2>2. OfType(o, VendorSpecificType) = b
    BY DEF OfType
  <2>3. (R \cap Y) \cap X \subseteq WholeHeads(o) \cap X
    BY DEF WholeHeads
  <2> HIDE DEF s, Y, R, X, b
  <2>4. b \in Seq(R \cap Y)
    BY <2>1, AmongElements DEF b
  <2> DEFINE c == Among(b, X)
             Z == (R \cap Y) \cap X
             G == WholeHeads(o) \cap X
  <2>5. c \in Seq(Z)
    BY <2>4, AmongElements
  <2> HIDE DEF c, Z, G
  <2>6. c \in Seq(G)
    BY <2>3, <2>5 DEF Z, G
  <2> QED
    BY <2>2, <2>6 DEF c, G
<1>3. a # << >>
  <2> HIDE DEF a
  <2> QED
    BY <1>1 DEF Extract
<1> DEFINE pos == Head(a)
<1>4. pos \in WholeHeads(o) /\ pos \in X
  <2> HIDE DEF a, X
  <2> QED
    BY <1>2, <1>3
<1>5. v = Value(o, pos)
  <2> HIDE DEF a
  <2> QED
    BY <1>3 DEF Extract
<1>6. Microsoft(v)
  BY <1>4, <1>5
<1> HIDE DEF v, pos
<1>7. v \in Seq(S) /\ v # NoOctets
  BY <1>4, <1>5, ValueOctets, OctetsNoError
<1>8. Len(v) <= Octets - 3
  <2> DEFINE z == Size(o, pos)
             j == pos + z
  <2>0. Len(o) \in Nat /\ o \in Seq(S)
    OBVIOUS
  <2>1. pos \in 0 .. Len(o) /\ ~ (pos + 2 > Len(o)) /\ z >= 2 /\ Fits(o, pos)
    BY <1>4, <2>0 DEF WholeHeads, Sound, Inside, Heads
  <2>2. z \in 0 .. Octets - 1 /\ Octets \in Nat
    BY <2>1, HeadOctets
  <2>3. pos + 2 \in Nat /\ j \in Nat /\ pos + 2 <= j /\ j <= Len(o) /\ j - (pos + 2) <= Octets - 3
    BY <2>0, <2>1, <2>2 DEF Fits
  <2>4. v = Slice(o, pos + 2, j)
    BY <1>5 DEF Value
  <2> HIDE DEF j, S, z
  <2>5. Len(v) = j - (pos + 2)
    BY <2>0, <2>3, <2>4, SliceOctets, ZenonT(40)
  <2> QED
    BY <2>3, <2>5
<1>9. n \in Nat /\ n <= Len(v) /\ Len(v) \in Nat /\ Len(v) <= Len(v)
  <2>1. n \in Nat
    BY VendorAssumption
  <2>2. Len(v) \in Nat
    BY <1>7
  <2> QED
    BY <1>6, <2>1, <2>2 DEF Microsoft
<1> HIDE DEF S, n
<1>10. Slice(v, n, Len(v)) \in Seq(S) /\ Len(Slice(v, n, Len(v))) = Len(v) - n
  BY <1>7, <1>9, SliceOctets
<1>11. Octets \in Nat
  BY OctetsAssumption
<1> HIDE DEF a
<1> QED
  BY <1>1, <1>7, <1>8, <1>9, <1>10, <1>11 DEF S, n

\* MS-CHAP v2 data that was read as such has a name as long as what is left of it.
LEMMA ParsedName ==
    ASSUME PartsFit, NEW v \in Seq(0 .. Octets - 1), parseMSCHAPData(v).version = MSCHAPv2
    PROVE  Len(parseMSCHAPData(v).name) + ChallengeLen + ReservedLen + ResponseLen + 5 <= Len(v)
<1> DEFINE msLen == v[3] * Octets + v[4]
           data == Slice(v, 4, msLen)
           name == Slice(v, msLen, Len(v))
           S    == 0 .. Octets - 1
           r    == parseMSCHAPData(v)
<1>0. Len(v) \in Nat /\ v \in Seq(S)
  OBVIOUS
<1>1. NoMSCHAP.version = 0 /\ MSCHAPv1 # MSCHAPv2 /\ MSCHAPv2 # 0
  BY DEF NoMSCHAP, MSCHAPv1, MSCHAPv2
<1> HIDE DEF msLen, data, name
<1>2. /\ ~ (Len(v) < 4) /\ ~ (msLen > Len(v) - 4) /\ ~ (msLen < 4)
      /\ Len(data) >= ChallengeLen + ReservedLen + ResponseLen + 1
      /\ r.name = name
  BY <1>1 DEF parseMSCHAPData, msLen, data, name
<1>3. msLen \in Nat
  <2>1. v[3] \in S /\ v[4] \in S
    <3>1. 3 \in 1 .. Len(v) /\ 4 \in 1 .. Len(v)
      BY <1>0, <1>2
    <3> HIDE DEF S
    <3> QED
      BY <1>0, <3>1, ElementOfSeq
  <2>2. \A x, y, z \in Nat : x * y + z \in Nat
    OBVIOUS
  <2>3. v[3] \in Nat /\ v[4] \in Nat /\ Octets \in Nat
    BY <2>1, OctetsAssumption
  <2> QED
    BY <2>2, <2>3 DEF msLen
<1>4. 4 <= msLen /\ msLen <= Len(v) /\ Len(v) <= Len(v)
  BY <1>0, <1>2, <1>3
<1> HIDE DEF S, r
<1>5. Len(data) = msLen - 4
  BY <1>0, <1>3, <1>4, SliceOctets DEF data
<1>6. Len(name) = Len(v) - msLen
  BY <1>0, <1>3, <1>4, SliceOctets DEF name
<1> QED
  BY <1>0, <1>2, <1>3, <1>4, <1>5, <1>6 DEF r, PartsFit

Ones(n, b) == [i \in 1 .. n |-> b]

LEMMA OnesOctets ==
    ASSUME NEW S, NEW n \in Nat, NEW b \in S
    PROVE  Ones(n, b) \in Seq(S) /\ Len(Ones(n, b)) = n
BY DEF Ones

\* What the data in front of the name is made of.
DataPart(flags) == Ones(ChallengeLen, 5) \o Ones(ReservedLen, 0) \o Ones(ResponseLen, 6) \o << flags >>

LEMMA FrontParts ==
    ASSUME PartsFit
    PROVE  /\ DataPart(0) \in Seq(0 .. Octets - 1)
           /\ Len(DataPart(0)) = ChallengeLen + ReservedLen + ResponseLen + 1
           /\ Slice(DataPart(0), 0, ChallengeLen) = Ones(ChallengeLen, 5)
           /\ Slice(DataPart(0), ChallengeLen + ReservedLen, ChallengeLen + ReservedLen + ResponseLen)
                 = Ones(ResponseLen, 6)
<1> DEFINE S == 0 .. Octets - 1
           c == Ones(ChallengeLen, 5)
           z == Ones(ReservedLen, 0)
           r == Ones(ResponseLen, 6)
           f == << 0 >>
<1>1. 0 \in S /\ 5 \in S /\ 6 \in S
  BY OctetsAssumption DEF PartsFit
<1>2. ChallengeLen \in Nat /\ ReservedLen \in Nat /\ ResponseLen \in Nat
  BY DEF PartsFit
<1> HIDE DEF S
<1>3. /\ c \in Seq(S) /\ Len(c) = ChallengeLen /\ z \in Seq(S) /\ Len(z) = ReservedLen
      /\ r \in Seq(S) /\ Len(r) = ResponseLen /\ f \in Seq(S) /\ Len(f) = 1
  <2>1. c \in Seq(S) /\ Len(c) = ChallengeLen
    BY <1>1, <1>2, OnesOctets
  <2>2. z \in Seq(S) /\ Len(z) = ReservedLen
    BY <1>1, <1>2, OnesOctets
  <2>3. r \in Seq(S) /\ Len(r) = ResponseLen
    BY <1>1, <1>2, OnesOctets
  <2>4. f \in Seq(S) /\ Len(f) = 1
    BY <1>1
  <2> QED
    BY <2>1, <2>2, <2>3, <2>4
<1> HIDE DEF c, z, r, f
<1> DEFINE cz == c \o z
           czr == cz \o r
           d == czr \o f
<1>4. cz \in Seq(S) /\ Len(cz) = Len(c) + Len(z)
  BY <1>3, ConcatProperties
<1>5. czr \in Seq(S) /\ Len(czr) = Len(cz) + Len(r)
  <2> HIDE DEF cz
  <2> QED
    BY <1>3, <1>4, ConcatProperties
<1>6. d \in Seq(S) /\ Len(d) = Len(czr) + Len(f)
  <2> HIDE DEF cz, czr
  <2> QED
    BY <1>3, <1>5, ConcatProperties
<1>7. Slice(d, 0, Len(c)) = c
  <2>1. Len(c) \in Nat /\ Len(c) <= Len(cz) /\ Len(c) <= Len(czr) /\ 0 <= Len(c) /\ Len(c) <= Len(c)
    BY <1>2, <1>3, <1>4, <1>5
  <2>2. Slice(d, 0, Len(c)) = Slice(czr, 0, Len(c))
    <3> HIDE DEF cz, czr
    <3> QED
      BY <1>3, <1>5, <2>1, SliceFront
  <2>3. Slice(czr, 0, Len(c)) = Slice(cz, 0, Len(c))
    <3> HIDE DEF cz
    <3> QED
      BY <1>3, <1>4, <2>1, SliceFront
  <2>4. Slice(cz, 0, Len(c)) = Slice(c, 0, Len(c))
    BY <1>3, <2>1, SliceFront
  <2>5. Slice(c, 0, Len(c)) = c
    BY <1>3, SliceBack
  <2> QED
    BY <2>2, <2>3, <2>4, <2>5
<1>8. Slice(d, Len(cz), Len(cz) + Len(r)) = r
  <2>1. Len(cz) \in Nat /\ Len(cz) + Len(r) \in Nat /\ Len(cz) <= Len(cz) + Len(r)
        /\ Len(cz) + Len(r) <= Len(czr)
    BY <1>2, <1>3, <1>4, <1>5
  <2>2. Slice(d, Len(cz), Len(cz) + Len(r)) = Slice(czr, Len(cz), Len(cz) + Len(r))
    <3> HIDE DEF cz, czr
    <3> QED
      BY <1>3, <1>5, <2>1, SliceFront
  <2>3. Slice(czr, Len(cz), Len(cz) + Len(r)) = r
    <3> HIDE DEF cz
    <3> QED
      BY <1>3, <1>4, SliceBack
  <2> QED
    BY <2>2, <2>3
<1>9. d = DataPart(0)
  BY DEF DataPart, c, z, r, f
<1> HIDE DEF d, czr, cz
<1> QED
  BY <1>2, <1>3, <1>4, <1>5, <1>6, <1>7, <1>8, <1>9 DEF S, c, r

\* The data is parsed as it was meant, when the name is long enough.
LEMMA ParsedMeant ==
    ASSUME PartsFit, NEW s \in Seq(0 .. Octets - 1)
    PROVE  LET x == mschapVendorData(Ones(ChallengeLen, 5), Ones(ResponseLen, 6), 0, s)
           IN  /\ x \in Seq(0 .. Octets - 1)
               /\ Len(x) = ChallengeLen + ReservedLen + ResponseLen + 5 + Len(s)
               /\ parseMSCHAPData(x) =
                     IF Len(s) >= 4
                     THEN [version |-> MSCHAPv2, response |-> Ones(ResponseLen, 6),
                           challenge |-> Ones(ChallengeLen, 5), name |-> s]
                     ELSE NoMSCHAP
<1> DEFINE S == 0 .. Octets - 1
           d == DataPart(0)
           m == 4 + Len(d)
           h == << MSCHAPv2, 0, m \div Octets, m % Octets >>
           hd == h \o d
           x == hd \o s
           n == Len(s)
           R == ChallengeLen + ReservedLen + ResponseLen
           bad == m > Len(x) - 4 \/ m < 4
<1>0. Octets \in Nat /\ s \in Seq(S) /\ n \in Nat
  BY OctetsAssumption
<1>1. /\ ChallengeLen \in Nat /\ ReservedLen \in Nat /\ ResponseLen \in Nat
      /\ R \in Nat /\ R + 5 < Octets /\ 6 < Octets
  BY DEF PartsFit
<1>2. /\ d \in Seq(S) /\ Len(d) = R + 1
      /\ Slice(d, 0, ChallengeLen) = Ones(ChallengeLen, 5)
      /\ Slice(d, ChallengeLen + ReservedLen, R) = Ones(ResponseLen, 6)
  BY FrontParts
<1>3. mschapVendorData(Ones(ChallengeLen, 5), Ones(ResponseLen, 6), 0, s) = x
  BY DEF mschapVendorData, DataPart, Ones
<1> HIDE DEF d, R
<1>4. m \in Nat /\ m = R + 5 /\ m < Octets /\ m \div Octets = 0 /\ m % Octets = m
  <2>1. m \in Nat /\ m = R + 5 /\ m < Octets
    BY <1>0, <1>1, <1>2
  <2> HIDE DEF m
  <2>2. m % Octets = m
    <3>1. Octets \in Nat \ {0} /\ m \in 0 .. Octets - 1
      BY <1>0, <2>1
    <3>2. \A a \in Nat \ {0} : \A b \in 0 .. a - 1 : b % a = b
      OBVIOUS
    <3> QED
      BY <3>1, <3>2
  <2>3. m \div Octets = 0
    BY <1>0, <2>1
  <2> QED
    BY <2>1, <2>2, <2>3
<1> HIDE DEF m
<1>5. h \in Seq(S) /\ Len(h) = 4 /\ h[1] = MSCHAPv2 /\ h[3] = 0 /\ h[4] = m
  <2>1. MSCHAPv2 \in S /\ 0 \in S /\ m \in S
    BY <1>0, <1>1, <1>4 DEF MSCHAPv2
  <2>2. h = << MSCHAPv2, 0, 0, m >>
    BY <1>4
  <2> HIDE DEF S
  <2> QED
    BY <2>1, <2>2
<1> HIDE DEF h, n
<1>6. hd \in Seq(S) /\ Len(hd) = Len(h) + Len(d) /\ \A k \in 1 .. Len(h) : hd[k] = h[k]
  <2> HIDE DEF S
  <2> QED
    BY <1>2, <1>5, Behind, ZenonT(40)
<1>7. Slice(hd, Len(h), Len(h) + Len(d)) = d
  <2> HIDE DEF S
  <2> QED
    BY <1>2, <1>5, SliceBack
<1> HIDE DEF hd
<1>8. Len(hd) = m /\ Slice(hd, 4, m) = d
  BY <1>2, <1>4, <1>5, <1>6, <1>7 DEF m
<1>9. x \in Seq(S) /\ Len(x) = Len(hd) + Len(s) /\ \A k \in 1 .. Len(hd) : x[k] = hd[k]
  <2>1. hd \in Seq(S) /\ s \in Seq(S)
    BY <1>0, <1>6
  <2> HIDE DEF S
  <2> QED
    BY <2>1, Behind
<1>10. Slice(x, 4, m) = d
  <2>1. 4 <= m /\ m <= Len(hd) /\ m \in Nat /\ 4 \in Nat
    BY <1>1, <1>4, <1>8
  <2>2. Slice(x, 4, m) = Slice(hd, 4, m)
    <3> HIDE DEF S
    <3> QED
      BY <1>0, <1>6, <2>1, SliceFront
  <2> QED
    BY <1>8, <2>2
<1>11. Slice(x, m, Len(x)) = s
  <2>1. Slice(hd \o s, Len(hd), Len(hd) + Len(s)) = s
    <3> HIDE DEF S
    <3> QED
      BY <1>0, <1>6, SliceBack
  <2> QED
    BY <1>8, <1>9, <2>1
<1>12. x[1] = MSCHAPv2 /\ x[3] = 0 /\ x[4] = m
  <2>1. 1 \in 1 .. Len(h) /\ 3 \in 1 .. Len(h) /\ 4 \in 1 .. Len(h)
    BY <1>5
  <2>2. 1 \in 1 .. Len(hd) /\ 3 \in 1 .. Len(hd) /\ 4 \in 1 .. Len(hd)
    BY <1>1, <1>4, <1>8
  <2> QED
    BY <1>5, <1>6, <1>9, <2>1, <2>2
<1> HIDE DEF x
<1>13. Len(x) = R + 5 + n /\ ~ (Len(x) < 4) /\ (bad <=> n < 4)
  BY <1>0, <1>1, <1>4, <1>8, <1>9 DEF n
<1>14. x[3] * Octets + x[4] = m
  BY <1>0, <1>4, <1>12
<1>15. MSCHAPv1 # MSCHAPv2 /\ Len(d) >= ChallengeLen + ReservedLen + ResponseLen + 1
  BY <1>1, <1>2 DEF MSCHAPv1, MSCHAPv2, R
<1>16. parseMSCHAPData(x) =
          IF bad THEN NoMSCHAP
          ELSE [version |-> MSCHAPv2,
                response |-> Slice(d, ChallengeLen + ReservedLen,
                                   ChallengeLen + ReservedLen + ResponseLen),
                challenge |-> Slice(d, 0, ChallengeLen), name |-> s]
  <2> HIDE DEF bad
  <2> QED
    BY <1>10, <1>11, <1>12, <1>13, <1>14, <1>15 DEF parseMSCHAPData, bad
<1>17. parseMSCHAPData(x) =
          IF n >= 4
          THEN [version |-> MSCHAPv2, response |-> Ones(ResponseLen, 6),
                challenge |-> Ones(ChallengeLen, 5), name |-> s]
          ELSE NoMSCHAP
  <2>1. bad <=> ~ (n >= 4)
    BY <1>0, <1>13 DEF n
  <2> HIDE DEF bad
  <2> QED
    BY <1>2, <1>16, <2>1 DEF R
<1> QED
  BY <1>3, <1>9, <1>13, <1>17 DEF S, n, R

\* A Microsoft attribute in front is the one that is read.
LEMMA VendorHead ==
    ASSUME NEW x \in Seq(0 .. Octets - 1),
           Len(MicrosoftVendorID \o x) <= Octets - 3
    PROVE  extractMSCHAPAttribute(
               buildAttribute(VendorSpecificType, MicrosoftVendorID \o x) \o ZeroMA) = x
<1> DEFINE S == 0 .. Octets - 1
           id == MicrosoftVendorID
           v  == id \o x
           a  == buildAttribute(VendorSpecificType, v)
           o  == a \o ZeroMA
           w  == Whole(o)
           M  == {pos \in Heads(o) : Microsoft(Value(o, pos))}
           T  == Vendored(o)
           f  == Among(w, T)
<1>1. id \in Seq(S) /\ x \in Seq(S) /\ VendorSpecificType \in S
  BY VendorAssumption, TypeOctets
<1>2. v \in Seq(S) /\ Len(v) = Len(id) + Len(x) /\ \A k \in 1 .. Len(id) : v[k] = id[k]
  <2> HIDE DEF S, id
  <2> QED
    BY <1>1, Behind
<1>3. Slice(v, Len(id), Len(v)) = x
  <2>1. Slice(id \o x, Len(id), Len(id) + Len(x)) = x
    <3> HIDE DEF S, id
    <3> QED
      BY <1>1, SliceBack
  <2> QED
    BY <1>2, <2>1
<1> HIDE DEF id
<1>4. Len(id) \in Nat /\ Len(x) \in Nat
  BY <1>1
<1>5. Microsoft(v)
  <2>1. Len(v) >= Len(id) /\ Len(id) <= Len(v)
    BY <1>2, <1>4
  <2>2. SubSeq(id, 1, Len(id)) = SubSeq(v, 1, Len(id))
    <3> HIDE DEF v
    <3>1. \A u : SubSeq(u, 0 + 1, Len(id)) = [k \in 1 .. Len(id) - 0 |-> u[0 + k]]
      BY <1>4, SubSeqBy
    <3>2. \A u : SubSeq(u, 1, Len(id)) = [k \in 1 .. Len(id) |-> u[k]]
      BY <1>4, <3>1
    <3>3. [k \in 1 .. Len(id) |-> id[k]] = [k \in 1 .. Len(id) |-> v[k]]
      BY <1>2
    <3> QED
      BY <3>2, <3>3
  <2> HIDE DEF v
  <2> QED
    BY <2>1, <2>2 DEF Microsoft, IsPrefix, id
<1>6. Len(v) <= Octets - 3
  BY DEF id
<1> HIDE DEF v
<1>7. a \in Attributes /\ a[1] = VendorSpecificType /\ Slice(a, 2, Len(a)) = v
  BY <1>1, <1>2, <1>6, Encoded
<1> HIDE DEF a
<1>8. /\ o \in Seq(S) /\ w # << >> /\ w[1] = 0 /\ 0 \in WholeHeads(o)
      /\ At(o, 0) = VendorSpecificType /\ Value(o, 0) = v /\ w \in Seq(WholeHeads(o))
  <2>1. Tiled(o)
    BY <1>7, FirstAttribute
  <2> QED
    BY <1>7, <2>1, FirstAttribute, TiledShape
<1> HIDE DEF o
<1>9. extractMSCHAPAttribute(o) =
         LET u == Extract(o, f) IN IF u = NoOctets THEN u ELSE Slice(u, Len(id), Len(u))
  <2>1. Among(OfType(o, VendorSpecificType), Inside(o) \cap M) =
           Among(w, Typed(o, {VendorSpecificType}) \cap M)
    BY <1>8, ExtractWhole
  <2>2. Inside(o) \cap M = {pos \in Inside(o) : Microsoft(Value(o, pos))}
    BY DEF Inside
  <2>3. Typed(o, {VendorSpecificType}) \cap M = T
    BY DEF Typed, Vendored
  <2> HIDE DEF w, M, T
  <2>4. Among(OfType(o, VendorSpecificType), {pos \in Inside(o) : Microsoft(Value(o, pos))}) = f
    BY <2>1, <2>2, <2>3
  <2> HIDE DEF f
  <2> QED
    BY <2>4 DEF extractMSCHAPAttribute, id
<1>10. f # << >> /\ f[1] = 0
  <2>1. 0 \in T
    BY <1>5, <1>8 DEF Vendored, WholeHeads, Sound
  <2> HIDE DEF w, T
  <2>2. 1 \in 1 .. Len(w) /\ \A i \in 1 .. 1 - 1 : w[i] \notin T
    BY <1>8
  <2> QED
    BY <1>8, <2>1, <2>2, AmongFirst
<1>11. v # NoOctets
  BY <1>2, OctetsNoError
<1>12. Extract(o, f) = v
  <2> HIDE DEF f
  <2> QED
    BY <1>8, <1>10 DEF Extract
<1> HIDE DEF f
<1>13. extractMSCHAPAttribute(o) = x
  BY <1>3, <1>9, <1>11, <1>12
<1> QED
  BY <1>13 DEF o, a, v, id

\* The server reads the client's MS-CHAP v2 attribute as it was meant exactly when the
\* name is long enough for the comparison of lengths and the attribute short enough.
LEMMA MSCHAPRead ==
    ASSUME PartsFit, NEW s \in Seq(0 .. Octets - 1)
    PROVE  LET data   == mschapVendorData(Ones(ChallengeLen, 5), Ones(ResponseLen, 6), 0, s)
               vendor == MicrosoftVendorID \o data
               read   == extractMSCHAPAttribute(buildAttribute(VendorSpecificType, vendor) \o ZeroMA)
               parsed == IF read = NoOctets THEN NoMSCHAP ELSE parseMSCHAPData(read)
               fits   == Len(vendor) <= Octets - 3
               meant  == [version |-> MSCHAPv2, response |-> Ones(ResponseLen, 6),
                          challenge |-> Ones(ChallengeLen, 5), name |-> s]
           IN  /\ parsed = meant <=> Len(s) >= 4 /\ fits
               /\ Len(s) < 4 /\ fits => parsed = NoMSCHAP
<1> DEFINE S      == 0 .. Octets - 1
           id     == MicrosoftVendorID
           x      == mschapVendorData(Ones(ChallengeLen, 5), Ones(ResponseLen, 6), 0, s)
           vendor == id \o x
           a      == buildAttribute(VendorSpecificType, vendor)
           o      == a \o ZeroMA
           read   == extractMSCHAPAttribute(o)
           parsed == IF read = NoOctets THEN NoMSCHAP ELSE parseMSCHAPData(read)
           fits   == Len(vendor) <= Octets - 3
           meant  == [version |-> MSCHAPv2, response |-> Ones(ResponseLen, 6),
                      challenge |-> Ones(ChallengeLen, 5), name |-> s]
           R      == ChallengeLen + ReservedLen + ResponseLen + 5
<1>1. /\ x \in Seq(S) /\ Len(x) = R + Len(s)
      /\ parseMSCHAPData(x) = IF Len(s) >= 4 THEN meant ELSE NoMSCHAP
  BY ParsedMeant
<1> HIDE DEF x
<1>2. id \in Seq(S) /\ VendorSpecificType \in S /\ Len(id) \in Nat /\ Len(s) \in Nat /\ s \in Seq(S)
      /\ Octets \in Nat /\ R \in Nat
  BY VendorAssumption, TypeOctets, OctetsAssumption DEF PartsFit
<1>3. vendor \in Seq(S) /\ Len(vendor) = Len(id) + R + Len(s)
  <2>1. vendor \in Seq(S) /\ Len(vendor) = Len(id) + Len(x)
    <3> HIDE DEF S, id
    <3> QED
      BY <1>1, <1>2, ConcatProperties
  <2> HIDE DEF vendor, id, R
  <2> QED
    BY <1>1, <1>2, <2>1
<1>4. meant # NoMSCHAP
  <2>1. meant.version = 3 /\ NoMSCHAP.version = 0
    BY DEF MSCHAPv2, NoMSCHAP
  <2> HIDE DEF meant
  <2> QED
    BY <2>1
<1>5. ASSUME fits PROVE parsed = parseMSCHAPData(x)
  <2>1. read = x
    BY <1>1, <1>5, VendorHead
  <2>2. x # NoOctets
    BY <1>1, OctetsNoError
  <2> HIDE DEF read
  <2> QED
    BY <2>1, <2>2
<1>6. ASSUME ~ fits PROVE parsed # meant
  <2> SUFFICES ASSUME parsed = meant PROVE FALSE
    OBVIOUS
  <2>1. o \in Seq(S)
    <3>1. a \in Seq(S) /\ ZeroMA \in Seq(S)
      BY <1>2, <1>3, Encoded, ZeroAuthenticator
    <3> HIDE DEF S, a
    <3> QED
      BY <3>1, ConcatProperties
  <2> HIDE DEF o, vendor, id
  <2>2. read # NoOctets /\ parseMSCHAPData(read) = meant
    BY <1>4
  <2>3. read \in Seq(S) /\ Len(read) + Len(id) <= Octets - 3
    BY <2>1, <2>2, VendorShort DEF id
  <2>4. parseMSCHAPData(read).version = MSCHAPv2 /\ parseMSCHAPData(read).name = s
    BY <2>2
  <2>5. Len(s) + R <= Len(read)
    <3>1. Len(parseMSCHAPData(read).name) + ChallengeLen + ReservedLen + ResponseLen + 5
             <= Len(read)
      BY <2>3, <2>4, ParsedName
    <3> HIDE DEF read
    <3> QED
      BY <1>2, <2>4, <3>1, SMTT(30) DEF PartsFit
  <2>6. Len(read) \in Nat
    BY <2>3
  <2> HIDE DEF read, R
  <2> QED
    BY <1>2, <1>3, <1>6, <2>3, <2>5, <2>6
<1>7. Len(s) >= 4 \/ Len(s) < 4
  BY <1>2
<1>8. ~ (Len(s) >= 4 /\ Len(s) < 4)
  BY <1>2
<1> HIDE DEF parsed, fits, meant
<1>9. (parsed = meant <=> Len(s) >= 4 /\ fits) /\ (Len(s) < 4 /\ fits => parsed = NoMSCHAP)
  BY <1>1, <1>4, <1>5, <1>6, <1>7, <1>8
<1> QED
  BY <1>9 DEF parsed, fits, meant, read, o, a, vendor, x, id

\* A vendor attribute with a value that is longer by one octet or two than one can be
\* has a length octet of 0 or 1, and is the last thing that is seen of its packet.
LEMMA VendorWrapped ==
    ASSUME NEW v \in Seq(0 .. Octets - 1), Len(v) \in {Octets - 2, Octets - 1}
    PROVE  hasMSCHAPPanics(buildAttribute(VendorSpecificType, v))
<1> DEFINE S == 0 .. Octets - 1
           o == buildAttribute(VendorSpecificType, v)
           s == Scan(o)
<1>1. Octets \in Nat /\ 2 < Octets /\ VendorSpecificType \in S
  BY OctetsAssumption, MacAssumption, MacLenAssumption, TypeOctets
<1>2. /\ o \in Seq(S) /\ o[1] = VendorSpecificType /\ Len(o) = 2 + Len(v)
      /\ o[2] = (2 + Len(v)) % Octets
  BY <1>1, Encoded
<1>3. o[2] \in {0, 1}
  <2>1. 2 + Len(v) = Octets \/ 2 + Len(v) = Octets + 1
    BY <1>1
  <2>2. \A n \in Nat : 1 < n => n % n = 0 /\ (n + 1) % n = 1
    BY SMTT(30)
  <2>3. Octets % Octets = 0 /\ (Octets + 1) % Octets = 1
    BY <1>1, <2>2
  <2> QED
    BY <1>2, <2>1, <2>3
<1>4. Len(o) \in Nat /\ Len(o) >= 2
  BY <1>1, <1>2
<1> HIDE DEF o, S
<1>5. Parsed(o, s, 0)
  BY <1>2, ScanParsed DEF S
<1>6. 0 \in Heads(o) /\ At(o, 0) = VendorSpecificType /\ Size(o, 0) = o[2] /\ Size(o, 0) < 2
      /\ Fits(o, 0)
  BY <1>2, <1>3, <1>4 DEF Heads, At, Size, Fits
<1>7. 0 \notin WholeHeads(o)
  BY <1>3, <1>6 DEF WholeHeads, Sound
<1>8. Value(o, 0) = OutOfRange
  BY <1>2, <1>6, VendorSlices DEF S
<1>9. DOMAIN s = {1} /\ s[1] = 0
  <2>1. s \in Seq(Heads(o)) /\ s # << >> /\ s[1] = 0 /\ \A i \in 1 .. Len(s) - 1 : s[i] \in WholeHeads(o)
    BY <1>4, <1>5 DEF Parsed
  <2> HIDE DEF s
  <2>2. Len(s) \in Nat /\ Len(s) # 0 /\ DOMAIN s = 1 .. Len(s)
    BY <2>1
  <2>3. ~ (1 \in 1 .. Len(s) - 1)
    BY <1>7, <2>1
  <2>4. Len(s) = 1
    BY <2>2, <2>3
  <2> QED
    BY <2>1, <2>2, <2>4
<1>10. DOMAIN VendorData(o) = {1} /\ VendorData(o)[1] = OutOfRange
  BY <1>6, <1>8, <1>9 DEF VendorData
<1>11. ~ hasMSCHAPAttributes(o)
  BY <1>10, NotMicrosoft DEF hasMSCHAPAttributes
<1> QED
  BY <1>10, <1>11 DEF hasMSCHAPPanics, o

\* An MS-CHAP attribute that is too long by an octet or two has a length of 0 or
\* 1, at which hasMSCHAPAttributes panics.
LEMMA MSCHAPWrapped ==
    ASSUME PartsFit, NEW s \in Seq(0 .. Octets - 1)
    PROVE  LET data   == mschapVendorData(Ones(ChallengeLen, 5), Ones(ResponseLen, 6), 0, s)
               vendor == MicrosoftVendorID \o data
           IN  Len(vendor) \in {Octets - 2, Octets - 1} =>
                  hasMSCHAPPanics(buildAttribute(VendorSpecificType, vendor))
<1> DEFINE S      == 0 .. Octets - 1
           id     == MicrosoftVendorID
           x      == mschapVendorData(Ones(ChallengeLen, 5), Ones(ResponseLen, 6), 0, s)
           vendor == id \o x
<1>1. x \in Seq(S)
  BY ParsedMeant
<1>2. id \in Seq(S)
  BY VendorAssumption
<1>3. vendor \in Seq(S)
  <2> HIDE DEF S, id, x
  <2> QED
    BY <1>1, <1>2, ConcatProperties
<1> HIDE DEF vendor
<1>4. Len(vendor) \in {Octets - 2, Octets - 1} =>
         hasMSCHAPPanics(buildAttribute(VendorSpecificType, vendor))
  BY <1>3, VendorWrapped
<1> QED
  BY <1>4 DEF vendor, x, id

\* Whatever the name: the server gets the MS-CHAP v2 attribute as it was meant exactly
\* when the name is neither too short nor too long, and panics at one that is longer
\* by an octet or two.
THEOREM MSCHAPTheorem ==
    ASSUME LettersAreOctets, PartsFit PROVE WireSpec => []MSCHAPCarried
<1>1. ASSUME OctetString PROVE MSCHAPCarried
  <2>1. octets \in Seq(0 .. Octets - 1)
    BY <1>1 DEF OctetString
  <2> QED
    BY <2>1, MSCHAPRead, MSCHAPWrapped DEF MSCHAPCarried, Ones
<1>2. OctetString => MSCHAPCarried
  BY <1>1
<1> QED
  BY <1>2, OctetTheorem, PTL

-----------------------------------------------------------------------------
(* EAP packets, split over attributes and joined. *)

\* The images of elements are where the function goes.
LEMMA MappedInto ==
    ASSUME NEW R, NEW s \in Seq(R), NEW Q, NEW g, \A x \in R : g[x] \in Q
    PROVE  Mapped(g, s) \in Seq(Q)
<1>1. Mapped(g, s) = [i \in 1 .. Len(s) |-> g[s[i]]]
  BY DEF Mapped
<1>2. \A i \in 1 .. Len(s) : s[i] \in R
  BY ElementOfSeq
<1>3. \A i \in 1 .. Len(s) : g[s[i]] \in Q
  BY <1>2
<1>4. Len(s) \in Nat
  OBVIOUS
<1> QED
  BY <1>1, <1>3, <1>4

\* To leave an element out is to join nothing for it.
LEMMA AmongFlattened ==
    ASSUME NEW R, NEW s \in Seq(R), NEW A, NEW S, NEW g, NEW h,
           \A x \in R : g[x] \in Seq(S) /\ h[x] = IF x \in A THEN g[x] ELSE << >>
    PROVE  FlattenSeq(Mapped(g, Among(s, A))) = FlattenSeq(Mapped(h, s))
<1> DEFINE Q == Seq(S)
           left(r) == FlattenSeq(Mapped(g, Among(r, A)))
           right(r) == FlattenSeq(Mapped(h, r))
           T == {r \in Seq(R) : left(r) = right(r)}
<1>1. << >> \in Q /\ \A x \in R : g[x] \in Q /\ h[x] \in Q
  <2>1. << >> \in Q
    OBVIOUS
  <2> HIDE DEF Q
  <2>2. \A x \in R : g[x] \in Q
    BY DEF Q
  <2> QED
    BY <2>1, <2>2
<1>2. \A u \in Q : u \o << >> = u
  BY ConcatEmptySeq
<1>3. ASSUME NEW m \in Seq(Q), NEW u \in Q
      PROVE  FlattenSeq(m) \in Q /\ FlattenSeq(Append(m, u)) = FlattenSeq(m) \o u
  BY <1>3, FlattenSeqAppend
<1> HIDE DEF Q
<1>4. << >> \in T
  <2>1. << >> \in Seq(R)
    OBVIOUS
  <2>2. Among(<< >>, A) = << >> /\ Mapped(g, << >>) = << >> /\ Mapped(h, << >>) = << >>
    <3>1. << >> \in Seq({0}) /\ 0 \in {0}
      OBVIOUS
    <3>2. Among(<< >>, A) = << >>
      BY <3>1, AmongAppend
    <3> QED
      BY <3>2 DEF Mapped
  <2> QED
    BY <2>1, <2>2
<1>5. ASSUME NEW r \in T, NEW x \in R PROVE Append(r, x) \in T
  <2>0. r \in Seq(R) /\ left(r) = right(r)
    OBVIOUS
  <2>1. Append(r, x) \in Seq(R)
    BY <2>0, AppendProperties
  <2> HIDE DEF T, left, right
  <2> DEFINE k == Among(r, A)
             m == Mapped(g, k)
             n == Mapped(h, r)
  <2>2. k \in Seq(R)
    <3>1. k \in Seq(R \cap A)
      BY <2>0, AmongElements
    <3> HIDE DEF k
    <3> QED
      BY <3>1
  <2>3. Among(Append(r, x), A) = IF x \in A THEN Append(k, x) ELSE k
    BY <2>0, AmongAppend
  <2> HIDE DEF k
  <2>4. m \in Seq(Q) /\ n \in Seq(Q)
    BY <1>1, <2>0, <2>2, MappedInto
  <2>5. Mapped(g, Append(k, x)) = Append(m, g[x]) /\ Mapped(h, Append(r, x)) = Append(n, h[x])
    BY <2>0, <2>2, MappedAppend, ZenonT(40)
  <2>6. left(r) = FlattenSeq(m) /\ right(r) = FlattenSeq(n)
    BY DEF left, right, k
  <2> HIDE DEF m, n
  <2>7. right(Append(r, x)) = FlattenSeq(n) \o h[x]
    BY <1>1, <1>3, <2>4, <2>5 DEF right
  <2>8. CASE x \in A
    <3>1. left(Append(r, x)) = FlattenSeq(m) \o g[x]
      BY <1>1, <1>3, <2>3, <2>4, <2>5, <2>8 DEF left
    <3>2. h[x] = g[x]
      BY <2>8
    <3>3. left(Append(r, x)) = right(Append(r, x))
      BY <2>0, <2>6, <2>7, <3>1, <3>2
    <3> QED
      BY <2>1, <3>3 DEF T
  <2>9. CASE x \notin A
    <3>1. left(Append(r, x)) = FlattenSeq(m)
      BY <2>3, <2>9 DEF left, m
    <3>2. h[x] = << >>
      BY <2>9
    <3>3. FlattenSeq(n) \o << >> = FlattenSeq(n)
      BY <1>1, <1>2, <1>3, <2>4
    <3>4. left(Append(r, x)) = right(Append(r, x))
      BY <2>0, <2>6, <2>7, <3>1, <3>2, <3>3
    <3> QED
      BY <2>1, <3>4 DEF T
  <2> QED
    BY <2>8, <2>9
<1>6. T \in SUBSET Seq(R)
  OBVIOUS
<1>7. T = Seq(R)
  <2> HIDE DEF T
  <2> QED
    BY <1>4, <1>5, <1>6, SeqSetInduction
<1> QED
  BY <1>7

\* What the first n whole attributes of a packet add to the EAP packet in it.
EapPart(o, pos) == IF At(o, pos) = EAPMessageType THEN Value(o, pos) ELSE << >>

EapUpTo(o, n) == FlattenSeq([i \in 1 .. n |-> EapPart(o, Whole(o)[i])])

\* All of them add all of it, each behind those before.
LEMMA EapSteps ==
    ASSUME NEW o \in Seq(0 .. Octets - 1)
    PROVE  /\ EapUpTo(o, 0) = << >>
           /\ \A n \in 0 .. Len(Whole(o)) : EapUpTo(o, n) \in Seq(0 .. Octets - 1)
           /\ \A n \in 1 .. Len(Whole(o)) :
                 /\ EapPart(o, Whole(o)[n]) \in Seq(0 .. Octets - 1)
                 /\ EapUpTo(o, n) = EapUpTo(o, n - 1) \o EapPart(o, Whole(o)[n])
           /\ extractEAPMessage(o) = EapUpTo(o, Len(Whole(o)))
<1> DEFINE S == 0 .. Octets - 1
           Q == Seq(S)
           w == Whole(o)
           l == Len(w)
           R == WholeHeads(o)
           A == Typed(o, {EAPMessageType})
           parts(n) == [i \in 1 .. n |-> EapPart(o, w[i])]
           g == [pos \in R |-> Value(o, pos)]
           h == [pos \in R |-> EapPart(o, pos)]
<1>1. w \in Seq(R)
  BY WholeShape
<1>2. << >> \in Q
  OBVIOUS
<1>3. \A pos \in R : Value(o, pos) \in Q /\ EapPart(o, pos) \in Q
  <2> TAKE pos \in R
  <2>1. Value(o, pos) \in Q
    BY ValueOctets
  <2> HIDE DEF Q
  <2> QED
    BY <1>2, <2>1 DEF EapPart
<1>4. \A pos \in R : pos \in A <=> At(o, pos) = EAPMessageType
  BY DEF WholeHeads, Sound, Typed
<1>5. extractEAPMessage(o) = FlattenSeq(Mapped(g, Among(w, A)))
  <2> DEFINE s == Scan(o)
             k == Among(s, A \cap Sound(o) \cap Inside(o))
  <2>1. s \in Seq(Heads(o))
    BY ScanParsed DEF Parsed
  <2>2. w = Among(s, R)
    BY DEF Whole, WholeHeads
  <2>3. A \cap Sound(o) \cap Inside(o) = R \cap A
    BY DEF WholeHeads
  <2>4. extractEAPMessage(o) = FlattenSeq([i \in DOMAIN k |-> Value(o, k[i])])
    BY DEF extractEAPMessage
  <2> HIDE DEF s, A, w
  <2>5. k = Among(w, A)
    <3> HIDE DEF R
    <3> QED
      BY <2>1, <2>2, <2>3, AmongTwice
  <2>6. k \in Seq(R \cap A)
    <3> HIDE DEF R, k
    <3> QED
      BY <1>1, <2>5, AmongElements
  <2> HIDE DEF k
  <2>7. \A i \in DOMAIN k : k[i] \in R
    <3> HIDE DEF R
    <3> QED
      BY <2>6
  <2>8. \A i \in DOMAIN k : g[k[i]] = Value(o, k[i])
    BY <2>7
  <2> HIDE DEF g
  <2>9. [i \in DOMAIN k |-> Value(o, k[i])] = Mapped(g, k)
    BY <2>8 DEF Mapped
  <2> QED
    BY <2>4, <2>5, <2>9
<1>6. FlattenSeq(Mapped(g, Among(w, A))) = FlattenSeq(Mapped(h, w))
  <2>1. \A x \in R : g[x] \in Seq(S) /\ h[x] = IF x \in A THEN g[x] ELSE << >>
    <3> TAKE x \in R
    <3>1. g[x] = Value(o, x) /\ h[x] = EapPart(o, x)
      OBVIOUS
    <3> HIDE DEF g, h, R, S, A
    <3> QED
      BY <1>3, <1>4, <3>1 DEF EapPart
  <2> HIDE DEF g, h, R, S, A, w
  <2> QED
    BY <1>1, <2>1, AmongFlattened
<1>7. l \in Nat /\ DOMAIN w = 1 .. l /\ \A i \in 1 .. l : w[i] \in R
  <2> HIDE DEF w, R
  <2> QED
    BY <1>1
<1>8. Mapped(h, w) = parts(l)
  <2>1. \A i \in 1 .. l : h[w[i]] = EapPart(o, w[i])
    <3> HIDE DEF w, R, l
    <3> QED
      BY <1>7
  <2> HIDE DEF h, w, l
  <2> QED
    BY <1>7, <2>1 DEF Mapped
<1> HIDE DEF R, w, l
<1>9. \A i \in 1 .. l : EapPart(o, w[i]) \in Q
  BY <1>3, <1>7
<1>10. ASSUME NEW n \in 0 .. l
       PROVE  parts(n) \in Seq(Q) /\ n \in Nat
  <2>1. n \in Nat /\ \A i \in 1 .. n : i \in 1 .. l
    BY <1>7
  <2> HIDE DEF Q
  <2>2. \A i \in 1 .. n : EapPart(o, w[i]) \in Q
    BY <1>9, <2>1
  <2> QED
    BY <2>1, <2>2
<1>11. ASSUME NEW n \in 1 .. l
       PROVE  parts(n) = Append(parts(n - 1), EapPart(o, w[n])) /\ n - 1 \in 0 .. l
  <2>1. n - 1 \in 0 .. l /\ n \in 0 .. l /\ n - 1 \in Nat
    BY <1>7
  <2> DEFINE a == parts(n)
             c == parts(n - 1)
             u == EapPart(o, w[n])
             b == Append(c, u)
  <2>2. a \in Seq(Q) /\ Len(a) = n /\ \A i \in 1 .. n : a[i] = EapPart(o, w[i])
    <3>1. a \in Seq(Q) /\ DOMAIN a = 1 .. n
      BY <1>10, <2>1
    <3>2. \A i \in 1 .. n : a[i] = EapPart(o, w[i])
      OBVIOUS
    <3> HIDE DEF a, Q
    <3>3. Len(a) = n
      BY <2>1, <3>1
    <3> QED
      BY <3>1, <3>2, <3>3
  <2>3. c \in Seq(Q) /\ Len(c) = n - 1 /\ \A i \in 1 .. n - 1 : c[i] = EapPart(o, w[i])
    <3>1. c \in Seq(Q) /\ DOMAIN c = 1 .. n - 1
      BY <1>10, <2>1
    <3>2. \A i \in 1 .. n - 1 : c[i] = EapPart(o, w[i])
      OBVIOUS
    <3> HIDE DEF c, Q
    <3>3. Len(c) = n - 1
      BY <2>1, <3>1
    <3> QED
      BY <3>1, <3>2, <3>3
  <2>4. u \in Q
    BY <1>9
  <2> HIDE DEF a, c, u, Q
  <2>5. b \in Seq(Q) /\ Len(b) = Len(c) + 1 /\ b[Len(c) + 1] = u
        /\ \A i \in 1 .. Len(c) : b[i] = c[i]
    BY <2>3, <2>4, AppendProperties
  <2> HIDE DEF b
  <2>6. (n - 1) + 1 = n /\ \A i \in 1 .. n : i = n \/ i \in 1 .. n - 1
    BY <2>1
  <2>7. Len(b) = n /\ b[n] = u /\ \A i \in 1 .. n - 1 : b[i] = c[i]
    BY <2>3, <2>5, <2>6
  <2>8. \A i \in 1 .. n : a[i] = b[i]
    BY <2>2, <2>3, <2>6, <2>7 DEF u
  <2>9. a = b
    BY <2>2, <2>5, <2>7, <2>8, SeqEqual
  <2> QED
    BY <2>1, <2>9 DEF a, b, c, u
<1>12. ASSUME NEW n \in 0 .. l PROVE FlattenSeq(parts(n)) \in Q
  <2> DEFINE a == parts(n)
  <2>1. a \in Seq(Seq(S))
    BY <1>10
  <2>2. << >> \in Seq(S)
    BY <1>2
  <2> HIDE DEF a, S
  <2>3. FlattenSeq(a) \in Seq(S)
    BY <2>1, <2>2, FlattenSeqAppend
  <2> QED
    BY <2>3 DEF a
<1>13. ASSUME NEW n \in 1 .. l
       PROVE  FlattenSeq(parts(n)) = FlattenSeq(parts(n - 1)) \o EapPart(o, w[n])
  <2> DEFINE a == parts(n - 1)
             u == EapPart(o, w[n])
  <2>1. a \in Seq(Seq(S))
    BY <1>10, <1>11
  <2>2. u \in Seq(S)
    BY <1>9
  <2>3. parts(n) = Append(a, u)
    BY <1>11
  <2> HIDE DEF a, u, S
  <2>4. FlattenSeq(Append(a, u)) = FlattenSeq(a) \o u
    BY <2>1, <2>2, FlattenSeqAppend
  <2> QED
    BY <2>3, <2>4 DEF a, u
<1>14. FlattenSeq(parts(0)) = << >>
  <2>1. parts(0) = << >>
    OBVIOUS
  <2>2. << >> \in Seq(Seq(S)) /\ << >> \in Seq(S)
    OBVIOUS
  <2> HIDE DEF S
  <2>3. FlattenSeq(<< >>) = << >>
    BY <2>2, FlattenSeqAppend
  <2> QED
    BY <2>1, <2>3
<1>15. \A n : EapUpTo(o, n) = FlattenSeq(parts(n))
  BY DEF EapUpTo, w
<1> HIDE DEF parts, Q, g, h, A
<1>16. \A n \in 0 .. l : EapUpTo(o, n) \in Q
  BY <1>12, <1>15
<1>17. \A n \in 1 .. l : /\ EapPart(o, w[n]) \in Q
                         /\ EapUpTo(o, n) = EapUpTo(o, n - 1) \o EapPart(o, w[n])
  BY <1>9, <1>13, <1>15
<1>18. extractEAPMessage(o) = EapUpTo(o, l) /\ EapUpTo(o, 0) = << >>
  BY <1>5, <1>6, <1>8, <1>14, <1>15
<1> QED
  BY <1>16, <1>17, <1>18 DEF w, l, Q

\* So an attribute at the end adds its value if it is of that type.
LEMMA EapAttached ==
    ASSUME NEW x, Tiled(x), NEW a \in Attributes
    PROVE  extractEAPMessage(x \o a) =
               extractEAPMessage(x) \o IF a[1] = EAPMessageType THEN Slice(a, 2, Len(a)) ELSE << >>
<1> DEFINE y == x \o a
           e == Len(x)
           w == Whole(x)
           v == Whole(y)
           l == Len(w)
           u == IF a[1] = EAPMessageType THEN Slice(a, 2, Len(a)) ELSE << >>
<1>1. /\ v = Append(w, e) /\ At(y, e) = a[1] /\ Value(y, e) = Slice(a, 2, Len(a)) /\ Tiled(y)
      /\ \A i \in DOMAIN w : SameAt(x, y, w[i])
  BY Attach
<1>2. /\ w \in Seq(WholeHeads(x)) /\ DOMAIN w = 1 .. l /\ l \in Nat
      /\ x \in Seq(0 .. Octets - 1) /\ y \in Seq(0 .. Octets - 1)
  <2>1. w \in Seq(WholeHeads(x)) /\ x \in Seq(0 .. Octets - 1) /\ y \in Seq(0 .. Octets - 1)
    BY <1>1, TiledShape DEF Tiled
  <2> HIDE DEF w, y
  <2> QED
    BY <2>1
<1>3. /\ Len(v) = l + 1 /\ v[l + 1] = e
      /\ \A i \in 1 .. l : v[i] = w[i]
  <2> DEFINE R == WholeHeads(x) \cup {e}
             t == Append(w, e)
  <2>1. e \in R /\ WholeHeads(x) \subseteq R
    OBVIOUS
  <2> HIDE DEF R, w, e, t
  <2>2. w \in Seq(R)
    BY <1>2, <2>1
  <2>3. /\ t \in Seq(R) /\ Len(t) = Len(w) + 1 /\ t[Len(w) + 1] = e
        /\ \A i \in 1 .. Len(w) : t[i] = w[i]
    BY <2>1, <2>2, AppendProperties DEF t
  <2>4. v = t
    BY <1>1 DEF t
  <2> HIDE DEF v
  <2> QED
    BY <2>3, <2>4
<1> HIDE DEF y, e, w, v, l
<1>4. EapPart(y, v[l + 1]) = u
  BY <1>1, <1>3 DEF EapPart
<1>5. \A i \in 1 .. l : EapPart(y, v[i]) = EapPart(x, w[i])
  BY <1>1, <1>2, <1>3 DEF EapPart, SameAt
<1>6. EapUpTo(y, l) = EapUpTo(x, l)
  <2>1. [i \in 1 .. l |-> EapPart(y, v[i])] = [i \in 1 .. l |-> EapPart(x, w[i])]
    BY <1>5
  <2> QED
    BY <2>1 DEF EapUpTo, v, w
<1>7. extractEAPMessage(x) = EapUpTo(x, l)
  BY <1>2, EapSteps DEF w, l
<1>8. extractEAPMessage(y) = EapUpTo(y, l + 1)
  BY <1>2, <1>3, EapSteps DEF v
<1>9. EapUpTo(y, l + 1) = EapUpTo(y, l) \o u
  <2>1. l + 1 \in 1 .. Len(v) /\ (l + 1) - 1 = l
    BY <1>2, <1>3
  <2>2. EapUpTo(y, l + 1) = EapUpTo(y, (l + 1) - 1) \o EapPart(y, v[l + 1])
    BY <1>2, <2>1, EapSteps DEF v
  <2> QED
    BY <1>4, <2>1, <2>2
<1> QED
  BY <1>6, <1>7, <1>8, <1>9 DEF y, u

\* Where the chunk of a text that begins at an offset ends, and the recursive function
\* inside splitEAP.
ChunkEnd(data, pos) == IF pos + eapChunk < Len(data) THEN pos + eapChunk ELSE Len(data)

ChunkAt(data, pos) == buildAttribute(EAPMessageType, Slice(data, pos, ChunkEnd(data, pos)))

SplitBy(data, f) ==
    f = [pos \in 0 .. Len(data) + eapChunk |->
            IF pos >= Len(data) THEN << >>
            ELSE LET end == IF pos + eapChunk < Len(data) THEN pos + eapChunk ELSE Len(data)
                 IN  buildAttribute(EAPMessageType, Slice(data, pos, end)) \o f[end]]

\* A chunk has at least one octet, and no more than a length octet leaves room for.
LEMMA ChunkBounds ==
    ASSUME NEW S, NEW data \in Seq(S), NEW pos \in Nat, pos < Len(data)
    PROVE  /\ ChunkEnd(data, pos) \in Nat /\ ChunkEnd(data, pos) <= Len(data)
           /\ pos < ChunkEnd(data, pos) /\ ChunkEnd(data, pos) - pos <= Octets - 3
           /\ eapChunk \in Nat
<1>1. Octets - 3 \in Nat /\ Octets - 3 >= 1 /\ eapChunk = Octets - 3 /\ Len(data) \in Nat
  BY MacAssumption, MacLenAssumption, OctetsAssumption DEF eapChunk
<1> QED
  BY <1>1 DEF ChunkEnd

\* There is such a function: from the end of the text backwards.
LEMMA SplitExists ==
    ASSUME NEW S, NEW data \in Seq(S)
    PROVE  \E f : SplitBy(data, f)
<1> DEFINE L == Len(data)
           M == L + eapChunk
           Rhs(pos, f) == IF pos >= L THEN << >>
                          ELSE ChunkAt(data, pos) \o f[ChunkEnd(data, pos)]
           From(f, n) == \A pos \in 0 .. M : pos >= L - n => f[pos] = Rhs(pos, f)
           T == {n \in Nat : \E f : f = [pos \in 0 .. M |-> f[pos]] /\ From(f, n)}
<1>0. L \in Nat /\ eapChunk \in Nat
  BY MacAssumption, MacLenAssumption, OctetsAssumption DEF eapChunk
<1>1. ASSUME NEW pos \in 0 .. M, ~ (pos >= L)
      PROVE  ChunkEnd(data, pos) \in 0 .. M /\ ChunkEnd(data, pos) > pos
  <2>1. pos \in Nat /\ pos < Len(data)
    BY <1>0, <1>1
  <2>2. ChunkEnd(data, pos) \in Nat /\ ChunkEnd(data, pos) <= L /\ pos < ChunkEnd(data, pos)
    BY <2>1, ChunkBounds
  <2> QED
    BY <1>0, <2>1, <2>2
<1>2. 0 \in T
  <2> DEFINE f == [pos \in 0 .. M |-> << >>]
  <2>1. f = [pos \in 0 .. M |-> f[pos]]
    OBVIOUS
  <2>2. ASSUME NEW pos \in 0 .. M, pos >= L - 0 PROVE f[pos] = Rhs(pos, f)
    <3>1. pos >= L
      BY <1>0, <2>2
    <3> QED
      BY <3>1
  <2>3. From(f, 0)
    BY <2>2
  <2> HIDE DEF f, From
  <2> QED
    BY <2>1, <2>3
<1>3. ASSUME NEW n \in T PROVE n + 1 \in T
  <2>1. PICK f : f = [pos \in 0 .. M |-> f[pos]] /\ From(f, n)
    OBVIOUS
  <2> DEFINE q == L - (n + 1)
             g == [pos \in 0 .. M |-> IF pos = q THEN Rhs(pos, f) ELSE f[pos]]
  <2>2. q \in Int /\ n \in Nat
    BY <1>0
  <2>3. ASSUME NEW pos \in 0 .. M, pos >= q PROVE g[pos] = Rhs(pos, g)
    <3>1. Rhs(pos, g) = Rhs(pos, f)
      <4> SUFFICES ASSUME ~ (pos >= L)
                   PROVE  g[ChunkEnd(data, pos)] = f[ChunkEnd(data, pos)]
        OBVIOUS
      <4> DEFINE p == ChunkEnd(data, pos)
      <4>1. p \in 0 .. M /\ p > pos
        BY <1>1
      <4>2. p # q
        <5> HIDE DEF p, q
        <5> QED
          BY <1>0, <2>2, <2>3, <4>1
      <4> HIDE DEF p, q
      <4>3. g[p] = f[p]
        BY <4>1, <4>2
      <4> QED
        BY <4>3 DEF p
    <3>2. CASE pos = q
      <4>1. g[pos] = Rhs(pos, f)
        BY <3>2
      <4> QED
        BY <3>1, <4>1
    <3>3. CASE pos # q
      <4>1. pos >= L - n
        BY <1>0, <2>2, <2>3, <3>3
      <4>2. f[pos] = Rhs(pos, f)
        BY <2>1, <4>1
      <4>3. g[pos] = f[pos]
        BY <3>3
      <4> QED
        BY <3>1, <4>2, <4>3
    <3> QED
      BY <3>2, <3>3
  <2>4. g = [pos \in 0 .. M |-> g[pos]]
    OBVIOUS
  <2> HIDE DEF g
  <2>5. From(g, n + 1)
    BY <2>3
  <2>6. n + 1 \in Nat /\ \E k : k = [pos \in 0 .. M |-> k[pos]] /\ From(k, n + 1)
    <3> HIDE DEF From, M
    <3>1. n + 1 \in Nat
      BY <2>2
    <3> QED
      BY <2>4, <2>5, <3>1
  <2> HIDE DEF From
  <2> QED
    BY <2>6
<1>4. T \in SUBSET Nat
  OBVIOUS
<1>5. T = Nat
  <2> HIDE DEF T
  <2> QED
    BY <1>2, <1>3, <1>4, NatSetInduction
<1>6. PICK f : f = [pos \in 0 .. M |-> f[pos]] /\ From(f, L)
  <2>1. L \in T
    <3> HIDE DEF T, L
    <3> QED
      BY <1>0, <1>5
  <2> QED
    BY <2>1
<1>7. \A pos \in 0 .. M : f[pos] = Rhs(pos, f)
  <2>1. \A pos \in 0 .. M : pos >= L - L
    BY <1>0
  <2> QED
    BY <1>6, <2>1
<1> QED
  BY <1>6, <1>7 DEF SplitBy, ChunkAt, ChunkEnd

\* Nothing is read from nothing.
LEMMA EapNone == extractEAPMessage(<< >>) = << >>
<1> DEFINE z == << >>
<1>1. Len(Whole(z)) = 0 /\ z \in Seq(0 .. Octets - 1)
  BY TiledEmpty DEF Tiled
<1> HIDE DEF z
<1>2. extractEAPMessage(z) = EapUpTo(z, Len(Whole(z))) /\ EapUpTo(z, 0) = << >>
  BY <1>1, EapSteps
<1> QED
  BY <1>1, <1>2 DEF z

\* A text that is split over attributes, behind whole ones, is read again behind what is
\* read of these.
LEMMA SplitJoined ==
    ASSUME NEW data \in Seq(0 .. Octets - 1)
    PROVE  Tiled(splitEAP(data)) /\ extractEAPMessage(splitEAP(data)) = data
<1> DEFINE S == 0 .. Octets - 1
           Q == Seq(S)
           L == Len(data)
           f == CHOOSE f : SplitBy(data, f)
           Joins(s, pos) ==
               /\ s \in Q
               /\ \A x : Tiled(x) =>
                     /\ Tiled(x \o s)
                     /\ extractEAPMessage(x \o s) = extractEAPMessage(x) \o Slice(data, pos, L)
           T == {n \in Nat : \A pos \in 0 .. L : pos >= L - n => Joins(f[pos], pos)}
<1>0. L \in Nat /\ eapChunk \in Nat /\ data \in Q
  BY MacAssumption, MacLenAssumption, OctetsAssumption DEF eapChunk
<1>1. SplitBy(data, f)
  BY SplitExists
<1>2. splitEAP(data) = f[0]
  BY DEF splitEAP, SplitBy
<1> HIDE DEF f
<1>3. ASSUME NEW pos \in 0 .. L
      PROVE  f[pos] = IF pos >= L THEN << >>
                      ELSE ChunkAt(data, pos) \o f[ChunkEnd(data, pos)]
  <2>1. pos \in 0 .. Len(data) + eapChunk
    BY <1>0
  <2> QED
    BY <1>1, <2>1 DEF SplitBy, ChunkAt, ChunkEnd
<1>4. ASSUME NEW x, Tiled(x) PROVE x \in Q /\ extractEAPMessage(x) \in Q
  <2>1. x \in Q
    BY <1>4 DEF Tiled
  <2>2. Len(Whole(x)) \in 0 .. Len(Whole(x))
    <3>1. Whole(x) \in Seq(WholeHeads(x))
      BY <1>4, TiledShape
    <3>2. Len(Whole(x)) \in Nat
      BY <3>1
    <3> QED
      BY <3>2
  <2> QED
    BY <2>1, <2>2, EapSteps
<1>5. Joins(f[L], L)
  <2>1. f[L] = << >>
    <3>1. L \in 0 .. L /\ L >= L
      BY <1>0
    <3> QED
      BY <1>3, <3>1
  <2>2. Slice(data, L, L) = << >>
    <3>0. L \in Nat /\ L <= L /\ L <= Len(data) /\ L - L = 0 /\ data \in Seq(S)
      BY <1>0
    <3>1. Slice(data, L, L) \in Q /\ Len(Slice(data, L, L)) = L - L /\ L - L = 0
      <4> HIDE DEF L, S
      <4> QED
        BY <3>0, SliceOctets
    <3> HIDE DEF L, S
    <3> QED
      BY <3>1
  <2>3. << >> \in Q
    OBVIOUS
  <2> HIDE DEF Q
  <2>4. \A u \in Q : u \o << >> = u
    BY ConcatEmptySeq DEF Q
  <2>5. ASSUME NEW x, Tiled(x)
        PROVE  /\ Tiled(x \o << >>)
               /\ extractEAPMessage(x \o << >>) = extractEAPMessage(x) \o << >>
    <3>1. x \in Q /\ extractEAPMessage(x) \in Q
      BY <1>4, <2>5
    <3>2. x \o << >> = x /\ extractEAPMessage(x) \o << >> = extractEAPMessage(x)
      BY <2>4, <3>1
    <3> QED
      BY <2>5, <3>2
  <2> QED
    BY <2>1, <2>2, <2>3, <2>5
<1>6. 0 \in T
  <2> SUFFICES ASSUME NEW pos \in 0 .. L, pos >= L - 0 PROVE Joins(f[pos], pos)
    OBVIOUS
  <2>1. pos = L
    BY <1>0
  <2> HIDE DEF Joins
  <2> QED
    BY <1>5, <2>1
<1>7. ASSUME NEW n \in T PROVE n + 1 \in T
  <2> SUFFICES ASSUME NEW pos \in 0 .. L, pos >= L - (n + 1) PROVE Joins(f[pos], pos)
    OBVIOUS
  <2>0. n \in Nat /\ \A p \in 0 .. L : p >= L - n => Joins(f[p], p)
    OBVIOUS
  <2>1. CASE pos >= L
    <3>1. pos = L
      BY <1>0, <2>1
    <3> HIDE DEF Joins
    <3> QED
      BY <1>5, <3>1
  <2>2. CASE ~ (pos >= L)
    <3> DEFINE e == ChunkEnd(data, pos)
               v == Slice(data, pos, e)
               b == ChunkAt(data, pos)
               s == f[e]
               t == Slice(data, e, L)
    <3>1. /\ pos \in Nat /\ e \in Nat /\ e <= L /\ pos <= e /\ e - pos <= Octets - 3
          /\ e >= L - n /\ e \in 0 .. L
      <4>1. pos \in Nat /\ pos < Len(data)
        BY <1>0, <2>2
      <4>2. e \in Nat /\ e <= L /\ pos < e /\ e - pos <= Octets - 3
        BY <4>1, ChunkBounds
      <4> HIDE DEF e
      <4> QED
        BY <1>0, <2>0, <4>1, <4>2
    <3>2. Joins(s, e)
      <4> HIDE DEF Joins, e
      <4> QED
        BY <2>0, <3>1
    <3>3. f[pos] = b \o s
      BY <1>3, <2>2
    <3> HIDE DEF e
    <3>4. v \in Q /\ Len(v) = e - pos /\ t \in Q /\ v \o t = Slice(data, pos, L)
      <4>1. v \in Q /\ Len(v) = e - pos
        BY <1>0, <3>1, SliceOctets
      <4>2. t \in Q
        BY <1>0, <3>1, SliceOctets
      <4>3. v \o t = Slice(data, pos, L)
        BY <1>0, <3>1, SlicesAdjoin, SMTT(30)
      <4> QED
        BY <4>1, <4>2, <4>3
    <3> HIDE DEF v
    <3>5. /\ b \in Attributes /\ b[1] = EAPMessageType /\ Slice(b, 2, Len(b)) = v /\ b \in Q
      <4>1. EAPMessageType \in S /\ Len(v) <= Octets - 3
        BY <3>1, <3>4, TypeOctets
      <4>2. b = buildAttribute(EAPMessageType, v)
        BY DEF ChunkAt, e, v
      <4> HIDE DEF b
      <4> QED
        BY <3>4, <4>1, <4>2, Encoded, ZenonT(40)
    <3>6. s \in Q
      BY <3>2
    <3> HIDE DEF b, s, t, Q
    <3>7. b \o s \in Q
      BY <3>5, <3>6, ConcatProperties DEF Q
    <3>8. ASSUME NEW x, Tiled(x)
          PROVE  /\ Tiled(x \o (b \o s))
                 /\ extractEAPMessage(x \o (b \o s)) = extractEAPMessage(x) \o Slice(data, pos, L)
      <4> DEFINE y == x \o b
                 r == extractEAPMessage(x)
      <4>1. x \in Q /\ r \in Q
        BY <1>4, <3>8
      <4>2. Tiled(y)
        BY <3>5, <3>8, Attach
      <4>3. extractEAPMessage(y) = r \o v
        BY <3>5, <3>8, EapAttached
      <4> HIDE DEF y, r
      <4>4. Tiled(y \o s) /\ extractEAPMessage(y \o s) = (r \o v) \o t
        BY <3>2, <4>2, <4>3 DEF t
      <4>5. (r \o v) \o t = r \o (v \o t)
        <5>1. r \in Seq(S) /\ v \in Seq(S) /\ t \in Seq(S)
          BY <3>4, <4>1 DEF Q
        <5> HIDE DEF S
        <5> QED
          BY <5>1, ConcatAssociative, SMTT(30)
      <4>6. y \o s = x \o (b \o s)
        <5>1. x \in Seq(S) /\ b \in Seq(S) /\ s \in Seq(S)
          BY <3>5, <3>6, <4>1 DEF Q
        <5> HIDE DEF S
        <5> QED
          BY <5>1, ConcatAssociative, SMTT(30) DEF y
      <4> QED
        BY <3>4, <4>4, <4>5, <4>6 DEF r
    <3> QED
      BY <3>3, <3>7, <3>8 DEF Q
  <2> QED
    BY <2>1, <2>2
<1>8. T \in SUBSET Nat
  OBVIOUS
<1>9. T = Nat
  <2> HIDE DEF T
  <2> QED
    BY <1>6, <1>7, <1>8, NatSetInduction
<1>10. Joins(f[0], 0)
  <2>1. L \in T
    <3> HIDE DEF T, L
    <3> QED
      BY <1>0, <1>9
  <2>2. 0 \in 0 .. L /\ 0 >= L - L
    BY <1>0
  <2> HIDE DEF Joins, L
  <2> QED
    BY <2>1, <2>2
<1>11. Tiled(<< >>) /\ extractEAPMessage(<< >>) = << >>
  BY TiledEmpty, EapNone
<1>12. \A u \in Q : << >> \o u = u
  BY ConcatEmptySeq
<1>13. Slice(data, 0, L) = data
  BY <1>0, SlicesJoin
<1>14. f[0] \in Q
  BY <1>10
<1>15. Tiled(<< >> \o f[0]) /\ extractEAPMessage(<< >> \o f[0]) = << >> \o data
  BY <1>10, <1>11, <1>13
<1> HIDE DEF Q
<1> QED
  BY <1>0, <1>2, <1>12, <1>14, <1>15

\* What an attribute adds to the EAP packet is shorter than it, by its header, and lies
\* behind this header.
LEMMA EapPartOctets ==
    ASSUME NEW o \in Seq(0 .. Octets - 1), NEW pos \in WholeHeads(o)
    PROVE  /\ pos \in Nat /\ Size(o, pos) \in Nat /\ Size(o, pos) >= 2 /\ Size(o, pos) < Octets
           /\ pos + Size(o, pos) <= Len(o)
           /\ Len(EapPart(o, pos)) \in Nat /\ Len(EapPart(o, pos)) <= Size(o, pos) - 2
           /\ \A k \in 1 .. Len(EapPart(o, pos)) : EapPart(o, pos)[k] = o[pos + 2 + k]
<1> DEFINE z == Size(o, pos)
           j == pos + z
           i == pos + 2
           v == Value(o, pos)
<1>0. Len(o) \in Nat
  OBVIOUS
<1>1. pos \in 0 .. Len(o) /\ ~ (pos + 2 > Len(o)) /\ z >= 2 /\ Fits(o, pos)
  BY <1>0 DEF WholeHeads, Sound, Inside, Heads
<1>2. z \in 0 .. Octets - 1 /\ Octets \in Nat
  BY <1>1, HeadOctets
<1>3. pos \in Nat /\ i \in Nat /\ j \in Nat /\ i <= j /\ j <= Len(o) /\ j - i = z - 2
      /\ z \in Nat /\ z < Octets
  BY <1>0, <1>1, <1>2 DEF Fits
<1>4. v = Slice(o, i, j)
  BY DEF Value
<1> HIDE DEF i, j, z
<1>5. Slice(o, i, j) = SubSeq(o, i + 1, j)
  BY <1>3 DEF Slice
<1>6. SubSeq(o, i + 1, j) = [k \in 1 .. j - i |-> o[i + k]]
  BY <1>3, SubSeqBy
<1>7. Len(v) = z - 2
  <2>1. i \in Nat /\ j \in Nat /\ i <= j /\ j <= Len(o)
    BY <1>3
  <2>2. Len(Slice(o, i, j)) = j - i
    BY <2>1, SliceOctets
  <2> QED
    BY <1>3, <1>4, <2>2
<1>8. \A k \in 1 .. Len(v) : v[k] = o[i + k]
  BY <1>3, <1>4, <1>5, <1>6, <1>7
<1> HIDE DEF v
<1>9. CASE At(o, pos) = EAPMessageType
  <2>1. EapPart(o, pos) = v
    BY <1>9 DEF EapPart, v
  <2>2. Len(v) \in Nat
    BY <1>1, <1>3, <1>7
  <2> QED
    BY <1>1, <1>3, <1>7, <1>8, <2>1, <2>2 DEF i, j, z
<1>10. CASE At(o, pos) # EAPMessageType
  <2>1. EapPart(o, pos) = << >> /\ Len(<< >>) = 0
    BY <1>10 DEF EapPart
  <2>2. Len(EapPart(o, pos)) = 0
    BY <2>1
  <2> QED
    BY <1>1, <1>3, <2>2 DEF j, z
<1> QED
  BY <1>9, <1>10

\* As every attribute has a header, what is read lies further behind in the packet: of
\* what the first attribute does not add, by two headers at least.
LEMMA EapShift ==
    ASSUME NEW o \in Seq(0 .. Octets - 1), NEW n \in 1 .. Len(Whole(o))
    PROVE  LET r == EapUpTo(o, n)
               z == EndAfter(o, 1)
           IN  /\ Len(r) + 2 * n <= EndAfter(o, n) /\ z <= EndAfter(o, n)
               /\ \A i \in Nat : z - 2 < i /\ i <= Len(r) =>
                     \E j \in Nat : i + 4 <= j /\ j <= Len(o) /\ r[i] = o[j]
<1> DEFINE w == Whole(o)
           l == Len(w)
           S == 0 .. Octets - 1
           z == EndAfter(o, 1)
           R(m) == EapUpTo(o, m)
           E(m) == EndAfter(o, m)
           Behinds(m) == \A i \in Nat : z - 2 < i /\ i <= Len(R(m)) =>
                            \E j \in Nat : i + 4 <= j /\ j <= Len(o) /\ R(m)[i] = o[j]
           Good(m) == Len(R(m)) + 2 * m <= E(m) /\ z <= E(m) /\ Behinds(m)
           T == {m \in Nat : m + 1 \in 1 .. l => Good(m + 1)}
<1>0. w \in Seq(WholeHeads(o)) /\ l \in Nat /\ Len(o) \in Nat
  <2>1. w \in Seq(WholeHeads(o))
    BY WholeShape
  <2> HIDE DEF w
  <2> QED
    BY <2>1
<1>1. ASSUME NEW m \in 1 .. l
      PROVE  /\ w[m] = E(m - 1) /\ E(m) = w[m] + Size(o, w[m]) /\ w[m] \in WholeHeads(o)
             /\ R(m) = R(m - 1) \o EapPart(o, w[m])
             /\ R(m - 1) \in Seq(S) /\ EapPart(o, w[m]) \in Seq(S)
  <2>1. w[m] \in WholeHeads(o)
    <3> HIDE DEF w
    <3> QED
      BY <1>0
  <2>2. m # 0 /\ m - 1 \in 0 .. l
    BY <1>0
  <2>3. w[m] = E(m - 1) /\ E(m) = w[m] + Size(o, w[m])
    BY <2>2, WholeTiles DEF EndAfter
  <2>4. R(m) = R(m - 1) \o EapPart(o, w[m]) /\ R(m - 1) \in Seq(S)
        /\ EapPart(o, w[m]) \in Seq(S)
    BY <2>2, EapSteps
  <2> QED
    BY <2>1, <2>3, <2>4
<1>2. R(0) = << >> /\ E(0) = 0
  BY EapSteps DEF EndAfter
<1> HIDE DEF R, E
<1>3. ASSUME NEW m \in 1 .. l
      PROVE  /\ R(m - 1) \in Seq(S) /\ Len(R(m - 1)) \in Nat /\ Len(R(m)) \in Nat
             /\ E(m - 1) \in Nat /\ E(m) \in Nat /\ E(m) <= Len(o)
             /\ Len(R(m)) <= Len(R(m - 1)) + (E(m) - E(m - 1)) - 2 /\ E(m - 1) + 2 <= E(m)
             /\ \A i \in 1 .. Len(R(m - 1)) : R(m)[i] = R(m - 1)[i]
             /\ \A i \in Nat : Len(R(m - 1)) < i /\ i <= Len(R(m)) =>
                   \E j \in Nat : /\ j = E(m - 1) + 2 + (i - Len(R(m - 1)))
                                  /\ j <= Len(o) /\ R(m)[i] = o[j]
  <2> DEFINE a == R(m - 1)
             u == EapPart(o, w[m])
             pos == E(m - 1)
             k == Len(a)
             size == Size(o, w[m])
  <2>1. a \in Seq(S) /\ u \in Seq(S)
    BY <1>1
  <2> HIDE DEF S, a, u
  <2>2. /\ Len(a \o u) = Len(a) + Len(u)
        /\ \A i \in 1 .. Len(a) : (a \o u)[i] = a[i]
        /\ \A i \in 1 .. Len(u) : (a \o u)[Len(a) + i] = u[i]
        /\ Len(a) \in Nat
    BY <2>1, Behind
  <2>3. R(m) = a \o u /\ w[m] = pos /\ E(m) = pos + size
    BY <1>1 DEF a, u
  <2>4. /\ pos \in Nat /\ size \in Nat /\ size >= 2 /\ pos + size <= Len(o)
        /\ Len(u) \in Nat /\ Len(u) <= size - 2
        /\ \A i \in 1 .. Len(u) : u[i] = o[pos + 2 + i]
    <3>1. w[m] \in WholeHeads(o)
      BY <1>1
    <3> HIDE DEF w, pos
    <3> QED
      BY <2>3, <3>1, EapPartOctets DEF u
  <2> DEFINE t == R(m)
  <2>5. /\ Len(t) = k + Len(u)
        /\ \A i \in 1 .. k : t[i] = a[i]
        /\ \A i \in 1 .. Len(u) : t[k + i] = o[pos + 2 + i]
    BY <2>2, <2>3, <2>4
  <2>6. k \in Nat
    BY <2>2
  <2>9. E(m) = pos + size
    BY <2>3
  <2> HIDE DEF t, k, pos, size
  <2>7. ASSUME NEW i \in Nat, k < i, i <= Len(t)
        PROVE  \E j \in Nat : j = pos + 2 + (i - k) /\ j <= Len(o) /\ t[i] = o[j]
    <3>1. i - k \in 1 .. Len(u) /\ k + (i - k) = i
      BY <2>4, <2>5, <2>6, <2>7
    <3>2. t[i] = o[pos + 2 + (i - k)]
      BY <2>5, <3>1
    <3>3. pos + 2 + (i - k) \in Nat /\ pos + 2 + (i - k) <= Len(o)
      BY <1>0, <2>4, <3>1
    <3> QED
      BY <3>2, <3>3
  <2>8. /\ Len(t) \in Nat /\ pos + size \in Nat /\ Len(t) <= k + ((pos + size) - pos) - 2
        /\ pos + 2 <= pos + size
    BY <2>4, <2>5, <2>6
  <2> QED
    BY <2>1, <2>4, <2>5, <2>6, <2>7, <2>8, <2>9 DEF t, k, a, pos, S
<1> HIDE DEF w, l
<1>4. ASSUME 1 \in 1 .. l PROVE Good(1)
  <2>1. 1 - 1 = 0 /\ Len(R(0)) = 0
    BY <1>2
  <2>2. /\ Len(R(1)) \in Nat /\ E(1) \in Nat /\ Len(R(1)) <= E(1) - 2
    BY <1>2, <1>3, <1>4, <2>1
  <2>3. z = E(1)
    BY DEF E
  <2> HIDE DEF z
  <2>4. Len(R(1)) + 2 * 1 <= E(1) /\ z <= E(1)
    BY <2>2, <2>3
  <2>5. \A i \in Nat : ~ (z - 2 < i /\ i <= Len(R(1)))
    BY <2>2, <2>3
  <2> QED
    BY <2>4, <2>5
<1>5. 0 \in T
  <2> HIDE DEF Good
  <2>1. 0 + 1 = 1
    OBVIOUS
  <2> QED
    BY <1>4, <2>1
<1>6. ASSUME NEW m \in T PROVE m + 1 \in T
  <2> DEFINE p == m + 1
             q == p + 1
             k == Len(R(p))
  <2>0. m \in Nat /\ p \in Nat /\ q \in Nat
    OBVIOUS
  <2> SUFFICES ASSUME q \in 1 .. l PROVE Good(q)
    BY <2>0
  <2>1. p \in 1 .. l /\ q - 1 = p
    BY <1>0, <2>0
  <2>2. Good(p)
    <3> HIDE DEF Good
    <3> QED
      BY <2>1
  <2>4. /\ k \in Nat /\ Len(R(q)) \in Nat
        /\ E(p) \in Nat /\ E(q) \in Nat
        /\ Len(R(q)) <= k + (E(q) - E(p)) - 2 /\ E(p) + 2 <= E(q)
        /\ \A i \in 1 .. k : R(q)[i] = R(p)[i]
        /\ \A i \in Nat : k < i /\ i <= Len(R(q)) =>
              \E j \in Nat : j = E(p) + 2 + (i - k) /\ j <= Len(o) /\ R(q)[i] = o[j]
    <3> HIDE DEF p, q
    <3> QED
      BY <1>3, <2>1, ZenonT(40)
  <2>5. k + 2 * p <= E(p) /\ z <= E(p)
    BY <2>2
  <2>6. Behinds(p)
    BY <2>2
  <2>7. z \in Int
    <3>1. 1 \in 1 .. l
      BY <1>0, <2>1
    <3>2. E(1) \in Nat
      BY <1>3, <3>1
    <3> QED
      BY <3>2 DEF E
  <2>10. p >= 1 /\ q = p + 1
    BY <2>0
  <2> HIDE DEF z, p, q
  <2>8. Len(R(q)) + 2 * q <= E(q) /\ z <= E(q)
    <3> DEFINE e == E(p)
               f == E(q)
               n1 == Len(R(q))
    <3>1. /\ k \in Nat /\ n1 \in Nat /\ e \in Nat /\ f \in Nat
          /\ n1 <= k + (f - e) - 2 /\ e + 2 <= f /\ k + 2 * p <= e /\ z <= e
      BY <2>4, <2>5
    <3> HIDE DEF k, e, f, n1
    <3>2. n1 + 2 * q <= f /\ z <= f
      BY <2>0, <2>7, <2>10, <3>1, SMTT(30)
    <3> QED
      BY <3>2 DEF f, n1
  <2>9. ASSUME NEW i \in Nat, z - 2 < i, i <= Len(R(q))
        PROVE  \E j \in Nat : i + 4 <= j /\ j <= Len(o) /\ R(q)[i] = o[j]
    <3>1. CASE i <= k
      <4>1. PICK j \in Nat : i + 4 <= j /\ j <= Len(o) /\ R(p)[i] = o[j]
        BY <2>6, <2>9, <3>1
      <4>2. R(q)[i] = R(p)[i]
        <5>1. i \in 1 .. k
          <6>1. i # 0
            <7>1. z >= 2
              <8>1. 1 \in 1 .. l /\ 1 - 1 = 0
                BY <1>0, <2>1
              <8>2. E(0) + 2 <= E(1) /\ E(1) \in Nat
                BY <1>3, <8>1
              <8> QED
                BY <1>2, <8>2 DEF E, z
            <7> QED
              BY <2>7, <2>9, <7>1
          <6> QED
            BY <2>4, <3>1, <6>1
        <5> QED
          BY <2>4, <5>1
      <4> QED
        BY <4>1, <4>2
    <3>2. CASE ~ (i <= k)
      <4>1. k < i
        BY <2>4, <3>2
      <4>2. PICK j \in Nat : j = E(p) + 2 + (i - k) /\ j <= Len(o) /\ R(q)[i] = o[j]
        BY <2>4, <2>9, <4>1
      <4>3. i + 4 <= j
        <5> DEFINE e == E(p)
        <5>1. k \in Nat /\ e \in Nat /\ k + 2 * p <= e /\ j = e + 2 + (i - k)
          BY <2>4, <2>5, <4>2
        <5> HIDE DEF k, e
        <5> QED
          BY <2>0, <2>10, <4>2, <5>1, SMTT(30)
      <4> QED
        BY <4>2, <4>3
    <3> QED
      BY <3>1, <3>2
  <2> QED
    BY <2>8, <2>9
<1>7. T \in SUBSET Nat
  OBVIOUS
<1>8. T = Nat
  <2> HIDE DEF T
  <2> QED
    BY <1>5, <1>6, <1>7, NatSetInduction
<1>9. n \in Nat /\ n - 1 \in Nat /\ (n - 1) + 1 = n /\ n \in 1 .. l
  BY <1>0 DEF l, w
<1>10. Good(n)
  <2>1. n - 1 \in T
    <3> HIDE DEF T
    <3> QED
      BY <1>8, <1>9
  <2> HIDE DEF Good
  <2> QED
    BY <1>9, <2>1
<1> QED
  BY <1>10 DEF R, E

\* Octets that are in a set, or equal to a later one, are all in it if the last ones are.
LEMMA Settled ==
    ASSUME NEW o, Len(o) \in Nat, NEW m \in Nat, NEW M,
           \A q \in m + 1 .. Len(o) :
              o[q] \in M \/ \E j \in Nat : q < j /\ j <= Len(o) /\ o[q] = o[j]
    PROVE  \A q \in m + 1 .. Len(o) : o[q] \in M
<1> DEFINE L == Len(o)
           T == {n \in Nat : \A q \in m + 1 .. L : q > L - n => o[q] \in M}
<1>1. 0 \in T
  <2>1. \A q \in m + 1 .. L : ~ (q > L - 0)
    OBVIOUS
  <2> QED
    BY <2>1
<1>2. ASSUME NEW n \in T PROVE n + 1 \in T
  <2>0. n \in Nat /\ \A q \in m + 1 .. L : q > L - n => o[q] \in M
    OBVIOUS
  <2> SUFFICES ASSUME NEW q \in m + 1 .. L, q > L - (n + 1) PROVE o[q] \in M
    OBVIOUS
  <2> SUFFICES ASSUME NEW j \in Nat, q < j, j <= Len(o), o[q] = o[j] PROVE o[q] \in M
    OBVIOUS
  <2>1. j \in m + 1 .. L /\ j > L - n
    BY <2>0
  <2> QED
    BY <2>0, <2>1
<1>3. T \in SUBSET Nat
  OBVIOUS
<1>4. T = Nat
  <2> HIDE DEF T
  <2> QED
    BY <1>1, <1>2, <1>3, NatSetInduction
<1>5. \A q \in m + 1 .. L : q > L - L
  OBVIOUS
<1>6. L \in T
  <2> HIDE DEF T
  <2> QED
    BY <1>4
<1> QED
  BY <1>5, <1>6

\* If only the first attribute adds something, it is all that is read.
LEMMA EapOnlyFirst ==
    ASSUME NEW o \in Seq(0 .. Octets - 1), 1 \in 1 .. Len(Whole(o)),
           \A n \in 2 .. Len(Whole(o)) : EapPart(o, Whole(o)[n]) = << >>
    PROVE  extractEAPMessage(o) = EapPart(o, Whole(o)[1])
<1> DEFINE w == Whole(o)
           l == Len(w)
           S == 0 .. Octets - 1
           u == EapPart(o, w[1])
           T == {m \in Nat : m + 1 \in 1 .. l => EapUpTo(o, m + 1) = u}
<1>0. l \in Nat /\ 1 \in 1 .. l
  <2>1. w \in Seq(WholeHeads(o))
    BY WholeShape
  <2> HIDE DEF w
  <2>2. l \in Nat
    BY <2>1
  <2> QED
    BY <2>2 DEF w
<1>1. u \in Seq(S)
  BY <1>0, EapSteps
<1>2. u \o << >> = u /\ << >> \o u = u
  <2> HIDE DEF S, u
  <2> QED
    BY <1>1, ConcatEmptySeq
<1>3. \A n \in 1 .. l : EapUpTo(o, n) = EapUpTo(o, n - 1) \o EapPart(o, w[n])
  BY EapSteps
<1>4. EapUpTo(o, 0) = << >> /\ extractEAPMessage(o) = EapUpTo(o, l)
  BY EapSteps
<1>5. \A n \in 2 .. l : EapPart(o, w[n]) = << >>
  OBVIOUS
<1> HIDE DEF w, l
<1>6. 0 \in T
  <2>1. 0 + 1 = 1 /\ 1 - 1 = 0
    OBVIOUS
  <2>2. EapUpTo(o, 1) = << >> \o EapPart(o, w[1])
    BY <1>0, <1>3, <1>4, <2>1
  <2> QED
    BY <1>2, <2>1, <2>2
<1> HIDE DEF u
<1>7. ASSUME NEW m \in T PROVE m + 1 \in T
  <2> DEFINE p == m + 1
             q == p + 1
  <2>0. m \in Nat /\ p \in Nat /\ q \in Nat /\ q >= 2
    OBVIOUS
  <2> SUFFICES ASSUME q \in 1 .. l PROVE EapUpTo(o, q) = u
    BY <2>0
  <2>1. p \in 1 .. l /\ q - 1 = p /\ q \in 2 .. l
    BY <1>0, <2>0
  <2>2. EapUpTo(o, p) = u
    BY <2>1
  <2> HIDE DEF p, q
  <2>3. EapUpTo(o, q) = EapUpTo(o, p) \o << >>
    BY <1>3, <1>5, <2>1
  <2> QED
    BY <1>2, <2>2, <2>3
<1>8. T \in SUBSET Nat
  OBVIOUS
<1>9. T = Nat
  <2> HIDE DEF T
  <2> QED
    BY <1>6, <1>7, <1>8, NatSetInduction
<1>10. l - 1 \in Nat /\ (l - 1) + 1 = l /\ l \in 1 .. l
  BY <1>0
<1>11. EapUpTo(o, l) = u
  <2>1. l - 1 \in T
    <3> HIDE DEF T
    <3> QED
      BY <1>9, <1>10
  <2> QED
    BY <1>10, <2>1
<1> QED
  BY <1>4, <1>11 DEF u, w

\* The zeroed authenticator behind a packet is no part of the EAP packet in it.
LEMMA EapSigned ==
    ASSUME NEW x, Tiled(x)
    PROVE  extractEAPMessage(x \o ZeroMA) = extractEAPMessage(x)
<1> DEFINE S == 0 .. Octets - 1
           r == extractEAPMessage(x)
<1>1. ZeroMA \in Attributes /\ ZeroMA[1] # EAPMessageType
  BY ZeroAuthenticator, TypesDiffer
<1>2. extractEAPMessage(x \o ZeroMA) = r \o << >>
  BY <1>1, EapAttached
<1>3. r \in Seq(S)
  <2>1. x \in Seq(S) /\ Whole(x) \in Seq(WholeHeads(x))
    BY TiledShape DEF Tiled
  <2>2. Len(Whole(x)) \in Nat
    BY <2>1
  <2>3. Len(Whole(x)) \in 0 .. Len(Whole(x))
    BY <2>2
  <2> QED
    BY <2>1, <2>3, EapSteps
<1>4. r \o << >> = r
  <2> HIDE DEF r, S
  <2> QED
    BY <1>3, ConcatEmptySeq
<1> QED
  BY <1>2, <1>4

\* The client's EAP-Identity packet: five octets, and the name.
IdentityPacket(s) == buildEAPPacket(EAPResponse, 0, 1, s)

LEMMA IdentityOctets ==
    ASSUME NEW s \in Seq(0 .. Octets - 1)
    PROVE  LET eap == IdentityPacket(s)
           IN  /\ eap \in Seq(0 .. Octets - 1) /\ Len(eap) = 5 + Len(s)
               /\ eap[1] = 2 /\ eap[2] = 0 /\ eap[4] = (5 + Len(s)) % Octets /\ eap[5] = 1
               /\ \A k \in 1 .. Len(s) : eap[5 + k] = s[k]
               /\ Slice(eap, 5, 5 + Len(s)) = s
<1> DEFINE S == 0 .. Octets - 1
           n == Len(s)
           l == 5 + n
           hi == (l \div Octets) % Octets
           lo == l % Octets
           h == << 2, 0, hi, lo >>
           c == << 1 >>
           g == h \o c
           eap == h \o (c \o s)
<1>0. n \in Nat /\ s \in Seq(S) /\ Octets \in Nat \ {0} /\ 2 \in S /\ 1 \in S /\ 0 \in S
  BY MacAssumption, MacLenAssumption, OctetsAssumption
<1>1. hi \in S /\ lo \in S
  <2>1. l \in Nat
    BY <1>0
  <2> HIDE DEF l
  <2>2. l \div Octets \in Nat /\ l % Octets \in S
    BY <2>1, OctetsOf
  <2> DEFINE d == l \div Octets
  <2> HIDE DEF d
  <2>3. d % Octets \in S
    BY <2>2, OctetsOf DEF d
  <2> QED
    BY <2>2, <2>3 DEF d
<1>2. IdentityPacket(s) = eap
  BY DEF IdentityPacket, buildEAPPacket, EAPResponse
<1> HIDE DEF hi, lo, S, n, l
<1>3. h \in Seq(S) /\ Len(h) = 4 /\ h[1] = 2 /\ h[2] = 0 /\ h[4] = lo
  BY <1>0, <1>1
<1>4. c \in Seq(S) /\ Len(c) = 1 /\ c[1] = 1
  BY <1>0
<1> HIDE DEF h, c
<1>5. h \in Seq(S) /\ c \in Seq(S)
  BY <1>3, <1>4
<1>6. /\ g \in Seq(S) /\ Len(g) = Len(h) + Len(c)
      /\ \A k \in 1 .. Len(h) : g[k] = h[k]
      /\ \A k \in 1 .. Len(c) : g[Len(h) + k] = c[k]
  BY <1>5, Behind
<1>7. eap = g \o s
  <2>1. h \in Seq(S) /\ c \in Seq(S) /\ s \in Seq(S)
    BY <1>0, <1>5
  <2> QED
    BY <2>1, ConcatAssociative, SMTT(30)
<1> HIDE DEF g, eap
<1>8. /\ Len(g) = 5 /\ g[1] = 2 /\ g[2] = 0 /\ g[4] = lo /\ g[5] = 1
  <2>1. 1 \in 1 .. 4 /\ 2 \in 1 .. 4 /\ 4 \in 1 .. 4 /\ 1 \in 1 .. 1 /\ 4 + 1 = 5
    OBVIOUS
  <2>2. g[1] = h[1] /\ g[2] = h[2] /\ g[4] = h[4]
    BY <1>3, <1>6, <2>1
  <2>3. g[4 + 1] = c[1]
    BY <1>3, <1>4, <1>6, <2>1
  <2> QED
    BY <1>3, <1>4, <1>6, <2>1, <2>2, <2>3
<1>9. /\ g \o s \in Seq(S) /\ Len(g \o s) = Len(g) + Len(s)
      /\ \A k \in 1 .. Len(g) : (g \o s)[k] = g[k]
      /\ \A k \in 1 .. Len(s) : (g \o s)[Len(g) + k] = s[k]
      /\ Slice(g \o s, Len(g), Len(g) + Len(s)) = s
  <2>1. g \in Seq(S) /\ s \in Seq(S)
    BY <1>0, <1>6
  <2>2. /\ g \o s \in Seq(S) /\ Len(g \o s) = Len(g) + Len(s)
        /\ \A k \in 1 .. Len(g) : (g \o s)[k] = g[k]
        /\ \A k \in 1 .. Len(s) : (g \o s)[Len(g) + k] = s[k]
    BY <2>1, Behind
  <2>3. Slice(g \o s, Len(g), Len(g) + Len(s)) = s
    BY <2>1, SliceBack
  <2> QED
    BY <2>2, <2>3
<1>10. /\ eap \in Seq(S) /\ Len(eap) = 5 + n
       /\ eap[1] = 2 /\ eap[2] = 0 /\ eap[4] = lo /\ eap[5] = 1
       /\ \A k \in 1 .. n : eap[5 + k] = s[k]
       /\ Slice(eap, 5, 5 + n) = s
  <2>1. 1 \in 1 .. 5 /\ 2 \in 1 .. 5 /\ 4 \in 1 .. 5 /\ 5 \in 1 .. 5
    OBVIOUS
  <2>2. /\ eap \in Seq(S) /\ Len(eap) = 5 + n /\ Slice(eap, 5, 5 + n) = s
        /\ \A k \in 1 .. 5 : eap[k] = g[k]
        /\ \A k \in 1 .. n : eap[5 + k] = s[k]
    BY <1>7, <1>8, <1>9 DEF n
  <2> QED
    BY <1>8, <2>1, <2>2
<1> QED
  BY <1>2, <1>10 DEF S, n, l, lo

\* What an attribute has behind its header is its value, whatever its length octet says.
LEMMA AttributeOctets ==
    ASSUME NEW t \in 0 .. Octets - 1, NEW v \in Seq(0 .. Octets - 1)
    PROVE  /\ buildAttribute(t, v)[2] = (2 + Len(v)) % Octets
           /\ \A k \in 1 .. Len(v) : buildAttribute(t, v)[2 + k] = v[k]
<1> DEFINE S == 0 .. Octets - 1
           lo == (2 + Len(v)) % Octets
           h == << t, lo >>
<1>1. lo \in S /\ v \in Seq(S)
  BY OctetsAssumption
<1>2. buildAttribute(t, v) = h \o v
  BY DEF buildAttribute
<1> HIDE DEF lo, S
<1>3. h \in Seq(S) /\ Len(h) = 2 /\ h[2] = lo
  BY <1>1 DEF S
<1> HIDE DEF h
<1>4. h \in Seq(S) /\ v \in Seq(S)
  BY <1>1, <1>3
<1>5. /\ \A k \in 1 .. Len(h) : (h \o v)[k] = h[k]
      /\ \A k \in 1 .. Len(v) : (h \o v)[Len(h) + k] = v[k]
  BY <1>4, Behind
<1>6. 2 \in 1 .. 2
  OBVIOUS
<1> QED
  BY <1>2, <1>3, <1>5, <1>6 DEF lo

\* The octets of the zeroed authenticator.
LEMMA ZeroOctets ==
    \A k \in 1 .. Len(ZeroMA) : ZeroMA[k] \in {MessageAuthenticator, MacLen + 2, 0}
<1> DEFINE S == 0 .. Octets - 1
           v == [i \in 1 .. MacLen |-> 0]
<1>1. v \in Seq(S) /\ Len(v) = MacLen /\ MessageAuthenticator \in S /\ \A k \in 1 .. Len(v) : v[k] = 0
  <2>1. 0 \in S /\ MacLen \in Nat
    BY MacLenAssumption, OctetsAssumption
  <2>2. v \in Seq(S) /\ Len(v) = MacLen
    BY <2>1, Authenticator
  <2> QED
    BY <2>1, <2>2, TypeOctets
<1>2. ZeroMA = buildAttribute(MessageAuthenticator, v)
  BY DEF ZeroMA
<1> HIDE DEF v
<1>3. /\ buildAttribute(MessageAuthenticator, v)[2] = (2 + Len(v)) % Octets
      /\ \A k \in 1 .. Len(v) : buildAttribute(MessageAuthenticator, v)[2 + k] = v[k]
  BY <1>1, AttributeOctets
<1>4. (2 + MacLen) % Octets = MacLen + 2 /\ MacLen \in Nat
  BY MacAssumption, MacLenAssumption, OctetsAssumption
<1>5. ZeroMA[1] = MessageAuthenticator /\ Len(ZeroMA) = MacLen + 2
  BY ZeroAuthenticator
<1> SUFFICES ASSUME NEW k \in 1 .. Len(ZeroMA)
             PROVE  ZeroMA[k] \in {MessageAuthenticator, MacLen + 2, 0}
  OBVIOUS
<1>6. k = 1 \/ k = 2 \/ (k - 2 \in 1 .. MacLen /\ 2 + (k - 2) = k)
  BY <1>4, <1>5
<1>7. CASE k = 1
  BY <1>5, <1>7
<1>8. CASE k = 2
  BY <1>1, <1>2, <1>3, <1>4, <1>8
<1>9. CASE k - 2 \in 1 .. MacLen /\ 2 + (k - 2) = k
  <2>1. ZeroMA[2 + (k - 2)] = 0
    BY <1>1, <1>2, <1>3, <1>9
  <2> QED
    BY <1>9, <2>1
<1> QED
  BY <1>6, <1>7, <1>8, <1>9

\* A name that leaves room for both headers is read.
LEMMA IdentityRead ==
    ASSUME NEW s \in Seq(0 .. Octets - 1), Len(s) <= Octets - 8
    PROVE  Identity(extractEAPMessage(
               buildAttribute(EAPMessageType, IdentityPacket(s)) \o ZeroMA)) = s
<1> DEFINE S == 0 .. Octets - 1
           eap == IdentityPacket(s)
           a == buildAttribute(EAPMessageType, eap)
<1>0. Len(s) \in Nat
  OBVIOUS
<1>1. eap \in Seq(S) /\ Len(eap) = 5 + Len(s) /\ Slice(eap, 5, 5 + Len(s)) = s
  BY IdentityOctets
<1>2. Len(eap) <= Octets - 3 /\ EAPMessageType \in S
  BY <1>0, <1>1, OctetsAssumption, TypeOctets
<1> HIDE DEF eap
<1>3. a \in Attributes /\ a[1] = EAPMessageType /\ a \in Seq(S) /\ Slice(a, 2, Len(a)) = eap
  BY <1>1, <1>2, Encoded
<1> HIDE DEF a
<1>4. Tiled(<< >> \o a) /\ extractEAPMessage(<< >> \o a) = << >> \o eap
  BY <1>3, TiledEmpty, Attach, EapAttached, EapNone
<1>5. << >> \o a = a /\ << >> \o eap = eap
  <2> HIDE DEF S
  <2> QED
    BY <1>1, <1>3, ConcatEmptySeq
<1>6. extractEAPMessage(a \o ZeroMA) = eap
  BY <1>4, <1>5, EapSigned
<1>7. Identity(eap) = s
  BY <1>0, <1>1 DEF Identity
<1> QED
  BY <1>6, <1>7 DEF a, eap

\* EAPMessageType is 79: not the type of an EAP-Identity, a zero, or the length octet of
\* an authenticator, which are 1, 0 and 18.
EapTypeApart == EAPMessageType \notin {0, 1, MacLen + 2}

\* The octets of a request whose EAP-Message holds a name that leaves too little room.
LEMMA LongPacket ==
    ASSUME NEW s \in Seq(0 .. Octets - 1), Len(s) > Octets - 8
    PROVE  LET n == 7 + Len(s)
               z == n % Octets
               o == buildAttribute(EAPMessageType, IdentityPacket(s)) \o ZeroMA
           IN  /\ o \in Seq(0 .. Octets - 1) /\ Len(o) > n /\ n \in Nat /\ n >= 7
               /\ z \in Nat /\ z < Octets /\ z - 2 < 5 + Len(s)
               /\ o[1] = EAPMessageType /\ o[2] = z /\ o[3] = 2 /\ o[4] = 0 /\ o[7] = 1
               /\ z >= 2 => o[6] = z - 2
               /\ \A k \in 1 .. Len(s) : o[7 + k] = s[k]
               /\ \A q \in n + 1 .. Len(o) : o[q] \in {MessageAuthenticator, MacLen + 2, 0}
<1> DEFINE S == 0 .. Octets - 1
           m == Len(s)
           n == 7 + m
           z == n % Octets
           eap == IdentityPacket(s)
           a == buildAttribute(EAPMessageType, eap)
           o == a \o ZeroMA
<1>0. m \in Nat /\ m > Octets - 8 /\ Octets \in Nat \ {0} /\ n \in Nat /\ n >= 7
  BY OctetsAssumption
<1>1. /\ eap \in Seq(S) /\ Len(eap) = 5 + m
      /\ eap[1] = 2 /\ eap[2] = 0 /\ eap[4] = (5 + m) % Octets /\ eap[5] = 1
      /\ \A k \in 1 .. m : eap[5 + k] = s[k]
  BY IdentityOctets
<1>2. EAPMessageType \in S
  BY TypeOctets
<1> HIDE DEF eap, m
<1>3. /\ a \in Seq(S) /\ Len(a) = 2 + Len(eap) /\ a[1] = EAPMessageType
      /\ a[2] = (2 + Len(eap)) % Octets
      /\ \A k \in 1 .. Len(eap) : a[2 + k] = eap[k]
  BY <1>1, <1>2, Encoded, AttributeOctets
<1> HIDE DEF a, S
<1>4. Len(a) = n /\ a[2] = z
  <2>1. 2 + (5 + m) = n
    BY <1>0
  <2> QED
    BY <1>1, <1>3, <2>1
<1>5. z \in 0 .. Octets - 1 /\ n = (n \div Octets) * Octets + z /\ n \div Octets \in Nat
  <2> HIDE DEF n
  <2> QED
    BY <1>0, OctetsOf
<1>6. z >= 2 => (5 + m) % Octets = z - 2
  <2> SUFFICES ASSUME z >= 2 PROVE (5 + m) % Octets = z - 2
    OBVIOUS
  <2> DEFINE d == n \div Octets
             e == d * Octets
  <2>1. d \in Nat /\ z - 2 \in 0 .. Octets - 1
    BY <1>0, <1>5
  <2>2. n = e + z
    BY <1>5
  <2>3. e \in Nat
    <3> HIDE DEF d
    <3> QED
      BY <1>0, <2>1
  <2>4. (d * Octets + (z - 2)) % Octets = z - 2
    <3> HIDE DEF d, z
    <3> QED
      BY <2>1, OctetBehind
  <2>5. e + (z - 2) = 5 + m
    <3>1. z \in Int
      BY <1>5
    <3> DEFINE y == z
    <3>2. 7 + m = e + y /\ y \in Int
      BY <2>2, <3>1
    <3> HIDE DEF e, y
    <3>3. e + (y - 2) = 5 + m
      BY <1>0, <2>3, <3>2
    <3> QED
      BY <3>3 DEF y
  <2> QED
    BY <2>4, <2>5
<1>7. z - 2 < 5 + m
  <2> DEFINE y == z
  <2>1. y \in Int /\ y <= Octets - 1
    BY <1>0, <1>5
  <2> HIDE DEF y
  <2>2. y - 2 < 5 + m
    BY <1>0, <2>1
  <2> QED
    BY <2>2 DEF y
<1> HIDE DEF z
<1>8. /\ o \in Seq(S) /\ Len(o) = Len(a) + Len(ZeroMA)
      /\ \A k \in 1 .. Len(a) : o[k] = a[k]
      /\ \A k \in 1 .. Len(ZeroMA) : o[Len(a) + k] = ZeroMA[k]
  <2>1. a \in Seq(S) /\ ZeroMA \in Seq(S)
    BY <1>3, ZeroAuthenticator DEF S
  <2> QED
    BY <2>1, Behind
<1>9. Len(ZeroMA) = MacLen + 2 /\ MacLen \in Nat
  BY ZeroAuthenticator, MacLenAssumption
<1> HIDE DEF o
<1>10. \A k \in 1 .. n : o[k] = a[k]
  BY <1>4, <1>8
<1>11. \A k \in 1 .. 5 + m : o[2 + k] = eap[k]
  <2> TAKE k \in 1 .. 5 + m
  <2>1. 2 + k \in 1 .. n
    BY <1>0
  <2> QED
    BY <1>1, <1>3, <1>10, <2>1
<1>12. o[1] = EAPMessageType /\ o[2] = z
  <2>1. 1 \in 1 .. n /\ 2 \in 1 .. n
    BY <1>0
  <2> QED
    BY <1>3, <1>4, <1>10, <2>1
<1>13. o[3] = 2 /\ o[4] = 0 /\ o[6] = (5 + m) % Octets /\ o[7] = 1
  <2>1. 1 \in 1 .. 5 + m /\ 2 \in 1 .. 5 + m /\ 4 \in 1 .. 5 + m /\ 5 \in 1 .. 5 + m
        /\ 2 + 1 = 3 /\ 2 + 2 = 4 /\ 2 + 4 = 6 /\ 2 + 5 = 7
    BY <1>0
  <2>2. o[2 + 1] = eap[1] /\ o[2 + 2] = eap[2] /\ o[2 + 4] = eap[4] /\ o[2 + 5] = eap[5]
    BY <1>11, <2>1
  <2> QED
    BY <1>1, <2>1, <2>2
<1>14. \A k \in 1 .. m : o[7 + k] = s[k]
  <2> TAKE k \in 1 .. m
  <2>1. 5 + k \in 1 .. 5 + m /\ 2 + (5 + k) = 7 + k
    BY <1>0
  <2> QED
    BY <1>1, <1>11, <2>1
<1>15. \A q \in n + 1 .. Len(o) : o[q] \in {MessageAuthenticator, MacLen + 2, 0}
  <2> TAKE q \in n + 1 .. Len(o)
  <2>1. q - n \in 1 .. Len(ZeroMA) /\ n + (q - n) = q
    BY <1>0, <1>4, <1>8, <1>9
  <2>2. o[n + (q - n)] = ZeroMA[q - n]
    BY <1>4, <1>8, <2>1
  <2> QED
    BY <2>1, <2>2, ZeroOctets
<1>16. Len(o) > n
  BY <1>0, <1>4, <1>8, <1>9
<1>17. z \in Nat /\ z < Octets
  BY <1>0, <1>5 DEF z
<1> QED
  BY <1>0, <1>6, <1>7, <1>8, <1>12, <1>13, <1>14, <1>15, <1>16, <1>17
     DEF S, z, m, o, a, eap

\* From a longer name another one is read, or none: its length octet wrapped, so what is
\* read of it lies further behind than what was meant, and its octets would have to be
\* those of the authenticator.
LEMMA LongNameLost ==
    ASSUME EapTypeApart, NEW s \in Seq(0 .. Octets - 1), Len(s) > Octets - 8
    PROVE  Identity(extractEAPMessage(
               buildAttribute(EAPMessageType, IdentityPacket(s)) \o ZeroMA)) # s
<1> DEFINE S == 0 .. Octets - 1
           m == Len(s)
           n == 7 + m
           z == n % Octets
           o == buildAttribute(EAPMessageType, IdentityPacket(s)) \o ZeroMA
           r == extractEAPMessage(o)
           w == Whole(o)
           l == Len(w)
           M == {MessageAuthenticator, MacLen + 2, 0}
<1> SUFFICES ASSUME Identity(r) = s PROVE FALSE
  OBVIOUS
<1>0. m \in Nat /\ s \in Seq(S)
  OBVIOUS
<1>1. /\ o \in Seq(S) /\ Len(o) > n /\ n \in Nat /\ n >= 7
      /\ z \in Nat /\ z < Octets /\ z - 2 < 5 + m
      /\ o[1] = EAPMessageType /\ o[2] = z /\ o[3] = 2 /\ o[4] = 0 /\ o[7] = 1
      /\ z >= 2 => o[6] = z - 2
      /\ \A k \in 1 .. m : o[7 + k] = s[k]
      /\ \A q \in n + 1 .. Len(o) : o[q] \in M
  BY LongPacket
<1>2. EAPMessageType \notin M /\ EAPMessageType \notin {0, 1}
  BY TypesDiffer DEF EapTypeApart
<1>3. m > Octets - 8
  OBVIOUS
<1> HIDE DEF o, z, m, M, S, l, w, r
<1>4. Len(o) \in Nat /\ w \in Seq(WholeHeads(o)) /\ l \in Nat
  <2>1. w \in Seq(WholeHeads(o))
    BY <1>1, WholeShape DEF S, w
  <2>2. l \in Nat
    BY <2>1 DEF l
  <2> QED
    BY <1>1, <2>1, <2>2
<1>5. /\ r = EapUpTo(o, l) /\ r \in Seq(S) /\ EapUpTo(o, 0) = << >>
  <2>1. l \in 0 .. Len(Whole(o))
    BY <1>4 DEF l, w
  <2> QED
    BY <1>1, <2>1, EapSteps DEF S, l, w, r
\* What is read is as long as what was meant, and has the name at the same place.
<1>6. Len(r) = 5 + m /\ \A k \in 1 .. m : r[5 + k] = s[k]
  <2>1. s # NoOctets
    BY <1>0, OctetsNoError DEF S
  <2>2. ~ (Len(r) < 5) /\ Slice(r, 5, Len(r)) = s
    BY <2>1 DEF Identity
  <2>3. Len(r) \in Nat
    BY <1>5
  <2> DEFINE a == 5
             b == Len(r)
  <2>4. a \in Nat /\ b \in Nat /\ a <= b /\ b <= Len(r)
    BY <2>2, <2>3
  <2> HIDE DEF a, b
  <2>5. Len(Slice(r, a, b)) = b - a
    BY <1>5, <2>4, SliceOctets
  <2>6. Slice(r, a, b) = [k \in 1 .. b - a |-> r[a + k]]
    BY <2>4, SubSeqBy DEF Slice
  <2>7. b - a = m
    BY <2>2, <2>5 DEF a, b, m
  <2>8. \A k \in 1 .. m : s[k] = r[a + k]
    BY <2>2, <2>6, <2>7 DEF a, b
  <2> QED
    BY <1>0, <2>4, <2>7, <2>8 DEF a, b
\* The first attribute is whole, and of the length that its octet says.
<1>7. 1 \in 1 .. l
  <2>1. l # 0
    <3>1. l = 0 => Len(r) = 0
      BY <1>5
    <3> QED
      BY <1>0, <1>6, <3>1
  <2> QED
    BY <1>4, <2>1
<1>8. \A k \in 1 .. l : w[k] \in WholeHeads(o) /\ w[k] = EndAfter(o, k - 1)
  <2> TAKE k \in 1 .. l
  <2>1. w[k] \in WholeHeads(o)
    BY <1>4 DEF l
  <2> QED
    BY <1>1, <2>1, WholeTiles DEF S, l, w
<1>9. w[1] = 0 /\ EndAfter(o, 1) = z /\ Size(o, 0) = z /\ z >= 2 /\ 0 \in WholeHeads(o)
  <2>1. w[1] = 0 /\ 0 \in WholeHeads(o)
    <3>1. 1 - 1 = 0 /\ EndAfter(o, 0) = 0
      BY DEF EndAfter
    <3> QED
      BY <1>7, <1>8, <3>1
  <2>2. Size(o, 0) = z
    BY <1>1 DEF Size, At
  <2>3. Size(o, 0) >= 2
    BY <1>1, <2>1, EapPartOctets DEF S
  <2>4. EndAfter(o, 1) = 0 + Size(o, 0)
    BY <2>1 DEF EndAfter, w
  <2> QED
    BY <1>1, <2>1, <2>2, <2>3, <2>4
\* So every octet behind it that is not of the authenticator equals a later one, ...
<1>10. \A i \in Nat : z - 2 < i /\ i <= Len(r) =>
          \E j \in Nat : i + 4 <= j /\ j <= Len(o) /\ r[i] = o[j]
  <2>1. l \in 1 .. Len(Whole(o)) /\ o \in Seq(0 .. Octets - 1)
    BY <1>1, <1>4, <1>7 DEF l, w, S
  <2>2. \A i \in Nat : EndAfter(o, 1) - 2 < i /\ i <= Len(EapUpTo(o, l)) =>
           \E j \in Nat : i + 4 <= j /\ j <= Len(o) /\ EapUpTo(o, l)[i] = o[j]
    BY <2>1, EapShift
  <2> QED
    BY <1>5, <1>9, <2>2
<1> DEFINE top == IF z < 7 THEN 7 ELSE z
<1>11. top \in Nat /\ top >= 7 /\ top >= z /\ (top = z \/ top = 7)
  BY <1>1
<1> HIDE DEF top
<1>12. ASSUME NEW q \in top + 1 .. Len(o)
       PROVE  o[q] \in M \/ \E j \in Nat : q < j /\ j <= Len(o) /\ o[q] = o[j]
  <2>1. CASE q > n
    BY <1>1, <1>4, <1>11, <2>1
  <2>2. CASE ~ (q > n)
    <3> DEFINE i == q - 2
               k == q - 7
    <3>1. /\ i \in Nat /\ k \in 1 .. m /\ i = 5 + k /\ q = 7 + k
          /\ z - 2 < i /\ i <= 5 + m
      BY <1>0, <1>1, <1>4, <1>11, <2>2
    <3>2. o[q] = s[k] /\ r[i] = s[k]
      <4> HIDE DEF i, k
      <4>1. o[7 + k] = s[k] /\ r[5 + k] = s[k]
        BY <1>1, <1>6, <3>1
      <4> QED
        BY <3>1, <4>1
    <3>3. PICK j \in Nat : i + 4 <= j /\ j <= Len(o) /\ r[i] = o[j]
      <4> HIDE DEF i
      <4> QED
        BY <1>6, <1>10, <3>1
    <3>4. q < j
      BY <1>11, <3>3
    <3> QED
      BY <3>2, <3>3, <3>4
  <2> QED
    BY <2>1, <2>2
\* ... and at last one of the authenticator.
<1>13. \A q \in top + 1 .. Len(o) : o[q] \in M
  BY <1>4, <1>11, <1>12, Settled
\* No later attribute adds an octet: behind the packet's own ones there is none of the
\* type, and among them only one without a value.
<1>14. \A k \in 2 .. l : EapPart(o, w[k]) = << >>
  <2> TAKE k \in 2 .. l
  <2> DEFINE pos == w[k]
             size == Size(o, pos)
  <2>1. k - 1 \in 1 .. l /\ k \in 1 .. l
    BY <1>4
  <2>2. pos \in WholeHeads(o) /\ pos = EndAfter(o, k - 1)
    BY <1>8, <2>1
  <2>3. z <= pos
    <3>1. EndAfter(o, 1) <= EndAfter(o, k - 1)
      <4>1. k - 1 \in 1 .. Len(Whole(o)) /\ o \in Seq(0 .. Octets - 1)
        BY <1>1, <2>1 DEF l, w, S
      <4> DEFINE p == k - 1
      <4> HIDE DEF p
      <4>2. p \in 1 .. Len(Whole(o)) => EndAfter(o, 1) <= EndAfter(o, p)
        BY <4>1, EapShift
      <4> QED
        BY <4>1, <4>2 DEF p
    <3> QED
      BY <1>9, <2>2, <3>1
  <2> HIDE DEF pos
  <2>4. /\ pos \in Nat /\ size \in Nat /\ size >= 2 /\ pos + size <= Len(o)
        /\ Len(EapPart(o, pos)) \in Nat /\ Len(EapPart(o, pos)) <= size - 2
    BY <1>1, <2>2, EapPartOctets DEF S
  <2>5. EapPart(o, pos) \in Seq(S)
    BY <1>1, <2>1, EapSteps DEF S, l, w, pos
  <2> SUFFICES ASSUME At(o, pos) = EAPMessageType PROVE EapPart(o, pos) = << >>
    BY DEF EapPart, pos
  <2>6. o[pos + 1] = EAPMessageType /\ size = o[pos + 2]
    <3>1. pos + 1 + 1 = pos + 2
      BY <2>4
    <3> QED
      BY <3>1 DEF At, Size
  <2>7. ~ (pos + 1 > top)
    <3>1. pos + 1 > top => pos + 1 \in top + 1 .. Len(o)
      BY <1>4, <1>11, <2>4
    <3> QED
      BY <1>2, <1>13, <2>6, <3>1
  <2>8. pos \in 2 .. 6 /\ z <= pos
    BY <1>1, <1>9, <1>11, <2>3, <2>4, <2>7
  <2>9. pos # 2
    <3>1. pos = 2 => size = o[4]
      BY <2>6
    <3> QED
      BY <1>1, <2>4, <3>1
  <2>10. pos # 3
    <3>1. pos = 3 => o[4] = EAPMessageType
      BY <2>6
    <3> QED
      BY <1>1, <1>2, <3>1
  <2>11. pos # 5
    <3>1. pos = 5 => size = o[7]
      BY <2>6
    <3> QED
      BY <1>1, <2>4, <3>1
  <2>12. pos # 6
    <3>1. pos = 6 => o[7] = EAPMessageType
      BY <2>6
    <3> QED
      BY <1>1, <1>2, <3>1
  <2>13. pos = 4
    BY <2>8, <2>9, <2>10, <2>11, <2>12
  <2>14. size = z - 2
    BY <1>1, <1>9, <2>6, <2>13
  <2>15. Len(EapPart(o, pos)) = 0
    <3> HIDE DEF size
    <3> QED
      BY <1>1, <2>3, <2>4, <2>13, <2>14
  <2> QED
    BY <2>5, <2>15
\* So only the first attribute is read, and it is too short.
<1>15. r = EapPart(o, 0)
  <2>1. extractEAPMessage(o) = EapPart(o, Whole(o)[1])
    BY <1>1, <1>7, <1>14, EapOnlyFirst DEF S, l, w
  <2> QED
    BY <1>9, <2>1 DEF r, w
<1>16. Len(r) <= z - 2 /\ Len(r) \in Nat
  BY <1>1, <1>9, <1>15, EapPartOctets DEF S
<1> QED
  BY <1>0, <1>1, <1>6, <1>16

\* What the server splits is joined, and what the client sends is read exactly when it
\* leaves room for both headers: for texts of any length.
THEOREM EAPTheorem ==
    ASSUME LettersAreOctets, EapTypeApart PROVE WireSpec => []EAPCarried
<1>1. ASSUME NEW s \in Seq(0 .. Octets - 1)
      PROVE  /\ extractEAPMessage(splitEAP(s) \o ZeroMA) = s
             /\ LET eap == buildEAPPacket(EAPResponse, 0, 1, s)
                IN  Identity(extractEAPMessage(buildAttribute(EAPMessageType, eap) \o ZeroMA)) = s
                       <=> Len(s) <= Octets - 8
  <2>1. extractEAPMessage(splitEAP(s) \o ZeroMA) = s
    BY SplitJoined, EapSigned
  <2>2. Len(s) <= Octets - 8 \/ Len(s) > Octets - 8
    BY OctetsAssumption
  <2>3. Len(s) > Octets - 8 => ~ (Len(s) <= Octets - 8)
    BY OctetsAssumption
  <2> QED
    BY <2>1, <2>2, <2>3, IdentityRead, LongNameLost DEF IdentityPacket
<1>2. OctetString => EAPCarried
  BY <1>1 DEF OctetString, EAPCarried
<1> QED
  BY <1>2, OctetTheorem, PTL
================================================================================
