---------------------------- MODULE InductionLemmas ----------------------------
(***************************************************************************)
(* Induction over the natural numbers, and what it gives: functions        *)
(* defined by recursion, and the concatenation of a sequence of sequences. *)
(*                                                                         *)
(* The induction theorems of the library take an operator, P(_), for what  *)
(* is proved.  Here it is a set T, of the numbers for which it holds, and  *)
(* the step of a recursion is a function: first-order, as the provers want *)
(* it.  All rests on WFMin, that a well-founded relation has minima.       *)
(***************************************************************************)
EXTENDS SequencesExt, SequenceTheorems, WellFoundedInduction, NaturalsInduction, TLAPS

Less == {p \in Nat \X Nat : p[1] < p[2]}

\* The numbers are well-founded by their order.
LEMMA LessWF == IsWellFoundedOn(Less, Nat)
<1>1. Less = OpToRel(<, Nat)
  BY DEF Less, OpToRel
<1> QED
  BY <1>1, NatLessThanWellFounded

\* Induction: a set with 0 that is closed under successors is all of Nat.
LEMMA NatSetInduction ==
    ASSUME NEW T \in SUBSET Nat, 0 \in T, \A n \in T : n + 1 \in T
    PROVE  T = Nat
<1> SUFFICES ASSUME Nat \ T # {} PROVE FALSE
  OBVIOUS
<1>1. PICK m \in Nat \ T : \A y \in Nat \ T : ~ (<<y, m>> \in Less)
  <2>1. Nat \ T \subseteq Nat
    OBVIOUS
  <2> QED
    BY <2>1, LessWF, WFMin
<1>2. m # 0 /\ m - 1 \in Nat /\ m \in Nat
  OBVIOUS
<1>3. m - 1 \in T
  <2> SUFFICES ASSUME m - 1 \notin T PROVE FALSE
    OBVIOUS
  <2>1. m - 1 \in Nat \ T
    BY <1>2
  <2>2. <<m - 1, m>> \in Less
    BY <1>2 DEF Less
  <2> QED
    BY <2>1, <2>2, <1>1
<1>4. (m - 1) + 1 \in T
  BY <1>3
<1> QED
  BY <1>4, <1>2

\* F starts with s0 and goes on by step.
Recurs(F, s0, step) == F[0] = s0 /\ \A n \in Nat : F[n + 1] = step[n + 1][F[n]]

\* Recursion: a first value, and a step from each value to the next, make a
\* function.
LEMMA NatRecursion ==
    ASSUME NEW S, NEW s0 \in S, NEW step \in [Nat -> [S -> S]]
    PROVE  \E F \in [Nat -> S] : Recurs(F, s0, step)
<1> DEFINE Good(n, g) == /\ g \in [0 .. n -> S]
                         /\ g[0] = s0
                         /\ \A i \in 0 .. n - 1 : g[i + 1] = step[i + 1][g[i]]
           T == {n \in Nat : \E g \in [0 .. n -> S] : Good(n, g)}
\* Every number has a function that is good up to it, ...
<1>1. T = Nat
  <2>1. 0 \in T
    <3> DEFINE g == [i \in 0 .. 0 |-> s0]
    <3>1. g \in [0 .. 0 -> S] /\ Good(0, g)
      OBVIOUS
    <3> QED
      BY <3>1
  <2>2. ASSUME NEW n \in T PROVE n + 1 \in T
    <3>1. PICK g \in [0 .. n -> S] : Good(n, g)
      OBVIOUS
    <3> DEFINE h == [i \in 0 .. n + 1 |-> IF i = n + 1 THEN step[n + 1][g[n]] ELSE g[i]]
    <3>2. h \in [0 .. n + 1 -> S]
      BY <3>1
    <3>3. h[0] = s0
      BY <3>1
    <3>4. \A i \in 0 .. n : h[i + 1] = step[i + 1][h[i]]
      BY <3>1
    <3>5. n + 1 \in Nat /\ (n + 1) - 1 = n
      OBVIOUS
    <3>6. Good(n + 1, h)
      BY <3>2, <3>3, <3>4, <3>5
    <3> QED
      BY <3>2, <3>5, <3>6
  <2>3. T \in SUBSET Nat
    OBVIOUS
  <2> HIDE DEF T
  <2> QED
    BY <2>1, <2>2, <2>3, NatSetInduction
\* ... and any two agree as far as both go, ...
<1>2. ASSUME NEW m \in Nat, NEW n \in Nat, NEW g, NEW h, Good(m, g), Good(n, h), m <= n
      PROVE  g[m] = h[m]
  <2> DEFINE U == {i \in Nat : i <= m => g[i] = h[i]}
  <2>1. 0 \in U
    BY <1>2
  <2>2. ASSUME NEW i \in U PROVE i + 1 \in U
    BY <1>2
  <2>3. U \in SUBSET Nat
    OBVIOUS
  <2>4. U = Nat
    <3> HIDE DEF U
    <3> QED
      BY <2>1, <2>2, <2>3, NatSetInduction
  <2> QED
    BY <2>4
\* ... so their last values make the function.
<1> DEFINE G(n) == CHOOSE g \in [0 .. n -> S] : Good(n, g)
           F == [n \in Nat |-> G(n)[n]]
<1>3. \A n \in Nat : G(n) \in [0 .. n -> S] /\ Good(n, G(n))
  BY <1>1
<1> HIDE DEF G
<1>4. F \in [Nat -> S]
  BY <1>3
<1>5. F[0] = s0
  BY <1>3
<1>6. \A n \in Nat : F[n + 1] = step[n + 1][F[n]]
  <2> TAKE n \in Nat
  <2>1. Good(n, G(n)) /\ Good(n + 1, G(n + 1)) /\ n + 1 \in Nat /\ n <= n + 1
    BY <1>3
  <2>2. G(n)[n] = G(n + 1)[n]
    <3> HIDE DEF Good
    <3> QED
      BY <1>2, <2>1
  <2>3. G(n + 1)[n + 1] = step[n + 1][G(n + 1)[n]]
    BY <2>1
  <2> QED
    BY <2>2, <2>3, <2>1
<1> HIDE DEF F
<1> QED
  BY <1>4, <1>5, <1>6 DEF Recurs

-----------------------------------------------------------------------------
(* The concatenation of a sequence of sequences. *)

\* The recursive function inside FlattenSeq, for the sequences s.
Flattened(s) ==
    CHOOSE f : f = [i \in 1 .. Len(s) |-> IF i = 1 THEN s[i] ELSE f[i - 1] \o s[i]]

\* It is a function, one sequence longer at every step.
LEMMA FlattenedSteps ==
    ASSUME NEW S, NEW s \in Seq(Seq(S)), s # << >>
    PROVE  /\ Flattened(s) \in [1 .. Len(s) -> Seq(S)]
           /\ Flattened(s)[1] = s[1]
           /\ \A i \in 1 .. Len(s) - 1 : Flattened(s)[i + 1] = Flattened(s)[i] \o s[i + 1]
<1> DEFINE n == Len(s)
           Q == Seq(S)
           At == [i \in Nat |-> IF i \in 1 .. n THEN s[i] ELSE << >>]
           step == [i \in Nat |-> [t \in Q |-> t \o At[i]]]
<1>1. n \in Nat /\ n # 0 /\ \A i \in 1 .. n : s[i] \in Q
  OBVIOUS
<1>2. << >> \in Q /\ At \in [Nat -> Q]
  BY <1>1
<1>3. \A t, u \in Q : t \o u \in Q
  BY ConcatProperties
<1>20. \A u \in Q : << >> \o u = u
  BY ConcatEmptySeq
<1>21. \A i \in 1 .. n : At[i] = s[i]
  BY <1>1
<1>22. DOMAIN s = 1 .. n
  OBVIOUS
<1> HIDE DEF Q, At, n
<1>4. step \in [Nat -> [Q -> Q]]
  BY <1>2, <1>3
<1>23. \A i \in Nat, t \in Q : step[i][t] = t \o At[i]
  OBVIOUS
<1> HIDE DEF step
<1>5. PICK F \in [Nat -> Q] : F[0] = << >> /\ \A i \in Nat : F[i + 1] = step[i + 1][F[i]]
  <2>1. \E F \in [Nat -> Q] : Recurs(F, << >>, step)
    BY <1>2, <1>4, NatRecursion
  <2> QED
    BY <2>1 DEF Recurs
<1>6. \A i \in Nat : F[i + 1] = F[i] \o At[i + 1]
  <2> TAKE i \in Nat
  <2>1. i + 1 \in Nat /\ F[i] \in Q
    OBVIOUS
  <2> QED
    BY <1>5, <1>23, <2>1
<1> DEFINE f == [i \in 1 .. n |-> F[i]]
<1>7. F[1] = s[1]
  <2>1. 0 \in Nat /\ 0 + 1 = 1 /\ 1 \in 1 .. n
    BY <1>1
  <2>2. F[0 + 1] = F[0] \o At[0 + 1]
    BY <1>6, <2>1
  <2> QED
    BY <1>1, <1>5, <1>20, <1>21, <2>1, <2>2
<1>8. \A i \in 1 .. n - 1 : F[i + 1] = F[i] \o s[i + 1]
  <2> TAKE i \in 1 .. n - 1
  <2>1. i \in Nat /\ i + 1 \in 1 .. n
    BY <1>1
  <2> QED
    BY <1>6, <1>21, <2>1
<1>9. f = [i \in 1 .. n |-> IF i = 1 THEN s[i] ELSE f[i - 1] \o s[i]]
  <2>1. ASSUME NEW i \in 1 .. n, i # 1 PROVE f[i] = f[i - 1] \o s[i]
    <3>1. i - 1 \in 1 .. n - 1 /\ i - 1 \in 1 .. n /\ (i - 1) + 1 = i
      BY <1>1, <2>1
    <3> QED
      BY <1>8, <3>1
  <2> QED
    BY <1>7, <2>1
<1> DEFINE g == Flattened(s)
<1>10. g = [i \in 1 .. n |-> IF i = 1 THEN s[i] ELSE g[i - 1] \o s[i]]
  <2> HIDE DEF f
  <2> QED
    BY <1>9 DEF Flattened, n
<1> HIDE DEF g
<1>11. g[1] = s[1]
  BY <1>1, <1>10
<1>12. \A i \in 1 .. n - 1 : g[i + 1] = g[i] \o s[i + 1]
  <2> TAKE i \in 1 .. n - 1
  <2>1. i + 1 \in 1 .. n /\ i + 1 # 1 /\ (i + 1) - 1 = i
    BY <1>1
  <2> QED
    BY <1>10, <2>1
<1>13. g \in [1 .. n -> Q]
  <2> DEFINE T == {i \in Nat : i \in 1 .. n => g[i] \in Q}
  <2>1. 0 \in T
    OBVIOUS
  <2>2. ASSUME NEW i \in T PROVE i + 1 \in T
    <3> SUFFICES ASSUME i + 1 \in 1 .. n PROVE g[i + 1] \in Q
      OBVIOUS
    <3>1. CASE i = 0
      BY <1>1, <1>11, <3>1
    <3>2. CASE i # 0
      <4>1. i \in 1 .. n - 1 /\ i \in 1 .. n
        BY <1>1, <3>2
      <4> QED
        BY <1>1, <1>3, <1>12, <4>1
    <3> QED
      BY <3>1, <3>2
  <2>3. T \in SUBSET Nat
    OBVIOUS
  <2>4. T = Nat
    <3> HIDE DEF T
    <3> QED
      BY <2>1, <2>2, <2>3, NatSetInduction
  <2>5. ASSUME NEW i \in 1 .. n PROVE g[i] \in Q
    <3>1. i \in Nat
      BY <1>1
    <3>2. i \in T
      <4> HIDE DEF T
      <4> QED
        BY <2>4, <3>1
    <3> QED
      BY <3>2
  <2>6. g = [i \in 1 .. n |-> g[i]]
    BY <1>10
  <2> QED
    BY <2>5, <2>6
<1> QED
  BY <1>11, <1>12, <1>13 DEF g, Q, n

\* The first values do not depend on what follows.
LEMMA FlattenedPrefix ==
    ASSUME NEW S, NEW s \in Seq(Seq(S)), NEW t \in Seq(Seq(S)), s # << >>,
           Len(s) <= Len(t), \A i \in 1 .. Len(s) : s[i] = t[i]
    PROVE  \A i \in 1 .. Len(s) : Flattened(s)[i] = Flattened(t)[i]
<1> DEFINE T == {i \in Nat : i \in 1 .. Len(s) => Flattened(s)[i] = Flattened(t)[i]}
<1>1. t # << >> /\ Len(s) \in Nat /\ Len(t) \in Nat /\ Len(s) # 0
  OBVIOUS
<1>2. 0 \in T
  OBVIOUS
<1>3. ASSUME NEW i \in T PROVE i + 1 \in T
  <2> SUFFICES ASSUME i + 1 \in 1 .. Len(s)
               PROVE  Flattened(s)[i + 1] = Flattened(t)[i + 1]
    OBVIOUS
  <2>1. CASE i = 0
    <3>1. Flattened(s)[1] = s[1]
      BY FlattenedSteps
    <3>2. Flattened(t)[1] = t[1]
      BY <1>1, FlattenedSteps
    <3>3. i + 1 = 1 /\ 1 \in 1 .. Len(s)
      BY <2>1
    <3> QED
      BY <3>1, <3>2, <3>3
  <2>2. CASE i # 0
    <3>1. i \in 1 .. Len(s) - 1 /\ i \in 1 .. Len(t) - 1 /\ i \in 1 .. Len(s)
      BY <1>1, <2>2
    <3>2. Flattened(s)[i + 1] = Flattened(s)[i] \o s[i + 1]
      BY <3>1, FlattenedSteps
    <3>3. Flattened(t)[i + 1] = Flattened(t)[i] \o t[i + 1]
      BY <1>1, <3>1, FlattenedSteps
    <3> QED
      BY <3>1, <3>2, <3>3
  <2> QED
    BY <2>1, <2>2
<1>4. T \in SUBSET Nat
  OBVIOUS
<1>5. T = Nat
  <2> HIDE DEF T
  <2> QED
    BY <1>2, <1>3, <1>4, NatSetInduction
<1> QED
  <2> SUFFICES ASSUME NEW i \in 1 .. Len(s) PROVE Flattened(s)[i] = Flattened(t)[i]
    OBVIOUS
  <2>1. i \in Nat
    BY <1>1
  <2>2. i \in T
    <3> HIDE DEF T
    <3> QED
      BY <1>5, <2>1
  <2> QED
    BY <2>2

\* FlattenSeq, from the end: what is appended comes last.
LEMMA FlattenSeqAppend ==
    ASSUME NEW S, NEW s \in Seq(Seq(S)), NEW x \in Seq(S)
    PROVE  /\ FlattenSeq(<< >>) = << >>
           /\ FlattenSeq(s) \in Seq(S)
           /\ FlattenSeq(Append(s, x)) = FlattenSeq(s) \o x
<1> DEFINE t == Append(s, x)
<1>0. ASSUME NEW r
      PROVE  /\ Len(r) = 0 => FlattenSeq(r) = r
             /\ Len(r) # 0 => FlattenSeq(r) = Flattened(r)[Len(r)]
  BY DEF FlattenSeq, Flattened
<1>1. /\ t \in Seq(Seq(S)) /\ t # << >> /\ Len(t) = Len(s) + 1 /\ Len(s) \in Nat
      /\ t[Len(s) + 1] = x /\ \A i \in 1 .. Len(s) : t[i] = s[i]
  BY AppendProperties
<1> HIDE DEF t
<1>2. FlattenSeq(<< >>) = << >>
  BY <1>0
<1>3. CASE s = << >>
  <2>1. Len(t) = 1 /\ t[1] = x /\ FlattenSeq(s) = << >>
    BY <1>0, <1>1, <1>3
  <2>2. FlattenSeq(t) = Flattened(t)[1]
    <3>1. Len(t) # 0
      BY <2>1
    <3>2. FlattenSeq(t) = Flattened(t)[Len(t)]
      BY <1>0, <3>1
    <3> QED
      BY <2>1, <3>2
  <2>3. Flattened(t)[1] = t[1]
    BY <1>1, FlattenedSteps
  <2>4. << >> \o x = x
    BY ConcatEmptySeq
  <2> QED
    BY <1>2, <2>1, <2>2, <2>3, <2>4 DEF t
<1>4. CASE s # << >>
  <2>1. Len(s) # 0 /\ Len(t) # 0 /\ Len(s) \in 1 .. Len(s) /\ Len(s) \in 1 .. Len(t) - 1
    BY <1>1, <1>4
  <2>2. FlattenSeq(s) = Flattened(s)[Len(s)] /\ FlattenSeq(t) = Flattened(t)[Len(s) + 1]
    BY <1>0, <1>1, <2>1
  <2>3. Flattened(t)[Len(s) + 1] = Flattened(t)[Len(s)] \o x
    BY <1>1, <2>1, FlattenedSteps
  <2>4. Flattened(s)[Len(s)] = Flattened(t)[Len(s)]
    <3>1. Len(s) <= Len(t)
      BY <1>1
    <3>2. \A i \in 1 .. Len(s) : Flattened(s)[i] = Flattened(t)[i]
      BY <1>1, <1>4, <3>1, FlattenedPrefix
    <3> QED
      BY <2>1, <3>2
  <2>5. Flattened(s)[Len(s)] \in Seq(S)
    BY <1>4, <2>1, FlattenedSteps
  <2> QED
    BY <1>2, <2>2, <2>3, <2>4, <2>5 DEF t
<1> QED
  BY <1>3, <1>4
=============================================================================
