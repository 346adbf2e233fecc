------------------------------ MODULE FoldFacts ------------------------------
(***************************************************************************)
(* What holds of a loop, by induction over what it reads.                  *)
(*                                                                         *)
(* The library's theorems about folds and its induction rules take         *)
(* operators as parameters of a theorem, which no prover here can          *)
(* instantiate.  This module has them as CONSTANTs instead: an INSTANCE of *)
(* it, with the step of a loop for Op and with what the loop keeps for     *)
(* Holds, gives the theorems for that loop.                                *)
(***************************************************************************)
EXTENDS Sequences, Integers, WellFoundedInduction

CONSTANTS
    Op(_, _, _),     \* one step of the loop: environment, result so far, element
    Holds(_, _, _)   \* what the loop keeps: something given, elements read, result

\* A loop of the code: what FoldLeft of the community modules is, for a
\* step Op that may use some environment.  It is written out here because
\* every instance of this module would bring those modules with it, and
\* the proofs that use it would slow down.
GreatestOf(s) == CHOOSE x \in s : \A y \in s : x >= y
Fold(env, base, seq) ==
  LET iter[s \in SUBSET DOMAIN seq] ==
        IF s = {} THEN base
        ELSE Op(env, iter[s \ {GreatestOf(s)}], seq[GreatestOf(s)])
  IN  iter[DOMAIN seq]

\* Induction over a set rather than a predicate, which no prover here could
\* instantiate: a set that has 0 and the successor of each of its numbers
\* has every number.
LEMMA SetInduction ==
  ASSUME NEW S, 0 \in S, \A n \in Nat : n \in S => n + 1 \in S
  PROVE Nat \subseteq S
  <1> SUFFICES ASSUME Nat \ S # {} PROVE FALSE OBVIOUS
  <1> DEFINE R == OpToRel(<, Nat)
  <1>1. PICK x \in Nat \ S : \A y \in Nat \ S : ~(y < x)
    <2>1. IsWellFoundedOn(R, Nat) BY NatLessThanWellFounded
    <2>2. \E x \in Nat \ S : \A y \in Nat \ S : <<y, x>> \notin R
      <3> HIDE DEF R
      <3> QED BY <2>1, WFMin
    <2>3. \A x, y \in Nat : y < x => <<y, x>> \in R
      BY DEF OpToRel
    <2> HIDE DEF R
    <2> QED BY <2>2, <2>3
  <1> HIDE DEF R
  <1>2. x - 1 \in Nat /\ x - 1 < x BY <1>1
  <1>3. x - 1 \in S BY <1>1, <1>2
  <1>4. (x - 1) + 1 = x BY <1>1
  <1> QED BY <1>2, <1>3, <1>4, <1>1

\* The function FoldLeft is defined by, over sets of indexes; taking off
\* the greatest index is the only step ever used.
Iter(env, base, seq, n, f) ==
  f = [s \in SUBSET (1..n) |-> IF s = {} THEN base ELSE Op(env, f[s \ {GreatestOf(s)}], seq[GreatestOf(s)])]

\* FoldLeft is the value of that function at all indexes.
LEMMA Unfold ==
  ASSUME NEW env, NEW base, NEW seq, NEW n \in Nat, DOMAIN seq = 1..n
  PROVE  Fold(env, base, seq) = (CHOOSE f : Iter(env, base, seq, n, f))[1..n]
  BY DEF Fold, Iter

\* The greatest index of a set within 1..n+1 that has n+1.
LEMMA MaxOfTop ==
  ASSUME NEW n \in Nat, NEW s \in SUBSET (1..(n + 1)), n + 1 \in s
  PROVE  GreatestOf(s) = n + 1
  <1>1. s \subseteq Int /\ \A y \in s : n + 1 >= y OBVIOUS
  <1>2. \E x \in s : \A y \in s : x >= y BY <1>1
  <1>3. GreatestOf(s) \in s /\ \A y \in s : GreatestOf(s) >= y
    <2> DEFINE P(x) == \A y \in s : x >= y
    <2>1. \E x \in s : P(x) BY <1>2
    <2>2. GreatestOf(s) = CHOOSE x \in s : P(x) BY DEF GreatestOf
    <2> HIDE DEF P
    <2>3. GreatestOf(s) \in s /\ P(GreatestOf(s)) BY <2>1, <2>2
    <2> QED BY <2>3 DEF P
  <1>4. GreatestOf(s) \in Int /\ GreatestOf(s) >= n + 1 /\ n + 1 >= GreatestOf(s) BY <1>1, <1>3
  <1> QED BY <1>4

\* There is such a function for every length, so that the CHOOSE in
\* FoldLeft has something to choose.
LEMMA IterExists ==
  ASSUME NEW env, NEW base, NEW seq, NEW n \in Nat
  PROVE  \E f : Iter(env, base, seq, n, f)
  <1> DEFINE S == {m \in Nat : \E f : Iter(env, base, seq, m, f)}
  <1>1. 0 \in S
    <2> DEFINE f == [s \in SUBSET (1..0) |-> base]
    <2>1. \A s \in SUBSET (1..0) : s = {} OBVIOUS
    <2>2. Iter(env, base, seq, 0, f) BY <2>1 DEF Iter
    <2> QED BY <2>2
  <1>2. ASSUME NEW m \in Nat, m \in S
        PROVE  m + 1 \in S
    <2>1. PICK f : Iter(env, base, seq, m, f) BY <1>2
    <2> DEFINE g == [s \in SUBSET (1..(m + 1)) |->
                       IF m + 1 \in s THEN Op(env, f[s \ {m + 1}], seq[m + 1]) ELSE f[s]]
    <2>2. ASSUME NEW s \in SUBSET (1..(m + 1))
          PROVE  g[s] = IF s = {} THEN base ELSE Op(env, g[s \ {GreatestOf(s)}], seq[GreatestOf(s)])
      <3>1. CASE m + 1 \in s
        <4>1. GreatestOf(s) = m + 1 BY <3>1, MaxOfTop
        <4>2. s \ {m + 1} \in SUBSET (1..(m + 1)) /\ m + 1 \notin s \ {m + 1} OBVIOUS
        <4> QED BY <3>1, <4>1, <4>2
      <3>2. CASE m + 1 \notin s
        <4>1. s \in SUBSET (1..m)
          <5>1. \A i \in s : i \in 1..(m + 1) /\ i # m + 1 BY <3>2
          <5>2. \A i \in 1..(m + 1) : i # m + 1 => i \in 1..m OBVIOUS
          <5> QED BY <5>1, <5>2
        <4>2. f[s] = IF s = {} THEN base ELSE Op(env, f[s \ {GreatestOf(s)}], seq[GreatestOf(s)])
          BY <2>1, <4>1 DEF Iter
        <4>3. /\ s \ {GreatestOf(s)} \in SUBSET (1..(m + 1))
              /\ m + 1 \notin s \ {GreatestOf(s)}
          BY <3>2
        <4> QED BY <3>2, <4>2, <4>3
      <3> QED BY <3>1, <3>2
    <2>3. Iter(env, base, seq, m + 1, g) BY <2>2 DEF Iter
    <2> HIDE DEF g
    <2> QED BY <2>3
  <1> HIDE DEF S
  <1>3. n \in S BY <1>1, <1>2, SetInduction
  <1> QED BY <1>3 DEF S

\* The partial results of a fold, one for each number of elements read.
Steps(h, env, base, seq, n) ==
  h[0] = base /\ \A k \in 1..n : h[k] = Op(env, h[k - 1], seq[k])

\* Every fold has its partial results, and the last of them is its value.
LEMMA FoldSteps ==
  ASSUME NEW env, NEW base, NEW seq, NEW n \in Nat, DOMAIN seq = 1..n
  PROVE  \E h : Steps(h, env, base, seq, n) /\ Fold(env, base, seq) = h[n]
  <1> DEFINE F == CHOOSE f : Iter(env, base, seq, n, f)
             h == [k \in 0..n |-> F[1..k]]
  <1>1. Iter(env, base, seq, n, F)
    <2>1. \E f : Iter(env, base, seq, n, f) BY IterExists
    <2> QED BY <2>1
  <1>2. Fold(env, base, seq) = F[1..n] BY Unfold
  <1> HIDE DEF F
  <1>3. h[0] = base
    <2>1. 1..0 = {} OBVIOUS
    <2> QED BY <1>1, <2>1 DEF Iter
  <1>4. ASSUME NEW k \in 1..n
        PROVE  h[k] = Op(env, h[k - 1], seq[k])
    <2>1. 1..k \in SUBSET (1..n) /\ 1..k # {}
      <3>1. 1 \in 1..k /\ \A i \in 1..k : i \in 1..n OBVIOUS
      <3> QED BY <3>1
    <2>2. GreatestOf(1..k) = k
      <3>1. (k - 1) \in Nat /\ 1..k \in SUBSET (1..((k - 1) + 1)) /\ (k - 1) + 1 \in 1..k OBVIOUS
      <3>2. GreatestOf(1..k) = (k - 1) + 1 BY <3>1, MaxOfTop
      <3> QED BY <3>2
    <2>3. (1..k) \ {k} = 1..(k - 1) OBVIOUS
    <2>4. F[1..k] = Op(env, F[1..(k - 1)], seq[k])
      <3>1. F[1..k] = Op(env, F[(1..k) \ {GreatestOf(1..k)}], seq[GreatestOf(1..k)])
        BY <1>1, <2>1 DEF Iter
      <3> QED BY <3>1, <2>2, <2>3
    <2>5. k \in 0..n /\ k - 1 \in 0..n OBVIOUS
    <2> QED BY <2>4, <2>5
  <1>5. h[n] = F[1..n] OBVIOUS
  <1>6. Steps(h, env, base, seq, n) BY <1>3, <1>4 DEF Steps
  <1> HIDE DEF h
  <1> QED BY <1>2, <1>5, <1>6

\* Two rows of partial results over the same elements end alike.
LEMMA StepsAgree ==
  ASSUME NEW env, NEW base, NEW seq, NEW n \in Nat, NEW g, NEW h,
         Steps(g, env, base, seq, n), Steps(h, env, base, seq, n)
  PROVE  g[n] = h[n]
  <1> DEFINE S == {k \in Nat : k <= n => g[k] = h[k]}
  <1>1. 0 \in S BY DEF Steps
  <1>2. ASSUME NEW k \in Nat, k \in S PROVE k + 1 \in S
    <2> SUFFICES ASSUME k + 1 <= n PROVE g[k + 1] = h[k + 1] OBVIOUS
    <2>1. k + 1 \in 1..n /\ (k + 1) - 1 = k /\ k <= n OBVIOUS
    <2>2. g[k + 1] = Op(env, g[(k + 1) - 1], seq[k + 1]) BY <2>1 DEF Steps
    <2>3. h[k + 1] = Op(env, h[(k + 1) - 1], seq[k + 1]) BY <2>1 DEF Steps
    <2> QED BY <1>2, <2>1, <2>2, <2>3
  <1> HIDE DEF S
  <1>3. n \in S BY <1>1, <1>2, SetInduction
  <1> QED BY <1>3 DEF S

\* What holds of the base, and is kept by each step, holds of the result:
\* the invariant of a loop, with the number of elements read and with
\* something given from outside.
LEMMA FoldKeeps ==
  ASSUME NEW env, NEW given, NEW base, NEW seq, NEW n \in Nat, DOMAIN seq = 1..n,
         Holds(given, 0, base),
         \A acc : \A k \in 1..n :
            Holds(given, k - 1, acc) => Holds(given, k, Op(env, acc, seq[k]))
  PROVE  Holds(given, n, Fold(env, base, seq))
  <1>1. PICK h : Steps(h, env, base, seq, n) /\ Fold(env, base, seq) = h[n]
    BY FoldSteps
  <1> DEFINE S == {k \in Nat : k <= n => Holds(given, k, h[k])}
  <1>2. 0 \in S BY <1>1 DEF Steps
  <1>3. ASSUME NEW k \in Nat, k \in S PROVE k + 1 \in S
    <2> SUFFICES ASSUME k + 1 <= n PROVE Holds(given, k + 1, h[k + 1]) OBVIOUS
    <2>1. k + 1 \in 1..n /\ (k + 1) - 1 = k /\ k <= n OBVIOUS
    <2>2. h[k + 1] = Op(env, h[k], seq[k + 1])
      <3>1. h[k + 1] = Op(env, h[(k + 1) - 1], seq[k + 1])
        BY <1>1, <2>1 DEF Steps
      <3> QED BY <2>1, <3>1
    <2>3. Holds(given, k, h[k]) BY <1>3, <2>1
    <2>4. Holds(given, (k + 1) - 1, h[k]) BY <2>1, <2>3
    <2>5. Holds(given, k + 1, Op(env, h[k], seq[k + 1])) BY <2>1, <2>4
    <2> QED BY <2>2, <2>5
  <1> HIDE DEF S
  <1>4. n \in S BY <1>2, <1>3, SetInduction
  <1> QED BY <1>1, <1>4 DEF S

\* A fold over nothing is its base.
LEMMA FoldEmpty ==
  ASSUME NEW env, NEW base
  PROVE  Fold(env, base, <<>>) = base
  <1>1. DOMAIN <<>> = 1..0 OBVIOUS
  <1>2. PICK h : Steps(h, env, base, <<>>, 0) /\ Fold(env, base, <<>>) = h[0] BY <1>1, FoldSteps
  <1> QED BY <1>2 DEF Steps

\* A fold over one more element is one more step.
LEMMA FoldAppend ==
  ASSUME NEW E, NEW env, NEW base, NEW seq \in Seq(E), NEW e \in E
  PROVE  Fold(env, base, Append(seq, e)) = Op(env, Fold(env, base, seq), e)
  <1> DEFINE n == Len(seq)
             more == Append(seq, e)
  <1>1. n \in Nat /\ DOMAIN seq = 1..n OBVIOUS
  <1>2. /\ DOMAIN more = 1..(n + 1) /\ more[n + 1] = e
        /\ \A k \in 1..n : more[k] = seq[k]
    OBVIOUS
  <1> HIDE DEF n, more
  <1>3. PICK h : Steps(h, env, base, seq, n) /\ Fold(env, base, seq) = h[n] BY <1>1, FoldSteps
  <1>4. PICK g : Steps(g, env, base, more, n + 1) /\ Fold(env, base, more) = g[n + 1]
    BY <1>1, <1>2, FoldSteps
  <1>5. Steps(g, env, base, seq, n) BY <1>1, <1>2, <1>4 DEF Steps
  <1>6. g[n] = h[n] BY <1>1, <1>3, <1>5, StepsAgree
  <1>7. g[n + 1] = Op(env, g[n], e)
    <2>1. n + 1 \in 1..(n + 1) /\ (n + 1) - 1 = n BY <1>1
    <2>2. g[n + 1] = Op(env, g[(n + 1) - 1], more[n + 1]) BY <1>4, <2>1 DEF Steps
    <2> QED BY <1>2, <2>1, <2>2
  <1>8. Fold(env, base, more) = Op(env, Fold(env, base, seq), e) BY <1>3, <1>4, <1>6, <1>7
  <1> QED BY <1>8 DEF more

\* A loop that appends the elements of a set and skips the others returns
\* only elements of that set, and all there are in the sequence.
LEMMA FilterMembers ==
  ASSUME NEW env, NEW E, NEW T, NEW seq \in Seq(E),
         \A acc : \A k \in DOMAIN seq :
            Op(env, acc, seq[k]) = IF seq[k] \in T THEN Append(acc, seq[k]) ELSE acc
  PROVE  /\ Fold(env, <<>>, seq) \in Seq(T)
         /\ \A k \in DOMAIN seq : seq[k] \in T =>
               \E i \in DOMAIN Fold(env, <<>>, seq) : Fold(env, <<>>, seq)[i] = seq[k]
  <1> DEFINE n == Len(seq)
  <1>1. n \in Nat /\ DOMAIN seq = 1..n OBVIOUS
  <1>2. PICK h : Steps(h, env, <<>>, seq, n) /\ Fold(env, <<>>, seq) = h[n]
    BY <1>1, FoldSteps
  <1> DEFINE Kept(j) ==
               /\ h[j] \in Seq(T)
               /\ \A k \in 1..j : seq[k] \in T => \E i \in DOMAIN h[j] : h[j][i] = seq[k]
             S == {j \in Nat : j <= n => Kept(j)}
  <1>3. 0 \in S
    <2>1. h[0] = <<>> BY <1>2 DEF Steps
    <2>2. Kept(0) BY <2>1
    <2> QED BY <2>2
  <1>4. ASSUME NEW j \in Nat, j \in S PROVE j + 1 \in S
    <2> SUFFICES ASSUME j + 1 <= n PROVE Kept(j + 1) OBVIOUS
    <2>1. j + 1 \in 1..n /\ (j + 1) - 1 = j /\ j <= n BY <1>1
    <2>2. h[j + 1] = Op(env, h[j], seq[j + 1])
      <3>1. h[j + 1] = Op(env, h[(j + 1) - 1], seq[j + 1]) BY <1>2, <2>1 DEF Steps
      <3> QED BY <2>1, <3>1
    <2>3. h[j + 1] = IF seq[j + 1] \in T THEN Append(h[j], seq[j + 1]) ELSE h[j]
      BY <1>1, <2>1, <2>2
    <2>4. Kept(j) BY <1>4, <2>1
    <2>5. h[j + 1] \in Seq(T) BY <2>3, <2>4
    <2>6. ASSUME NEW k \in 1..(j + 1), seq[k] \in T
          PROVE  \E i \in DOMAIN h[j + 1] : h[j + 1][i] = seq[k]
      <3>1. CASE k = j + 1
        <4>1. h[j + 1] = Append(h[j], seq[k]) BY <2>3, <2>6, <3>1
        <4>2. h[j] \in Seq(T) BY <2>4
        <4>3. /\ Len(h[j]) + 1 \in DOMAIN h[j + 1]
              /\ h[j + 1][Len(h[j]) + 1] = seq[k]
          BY <4>1, <4>2
        <4> QED BY <4>3
      <3>2. CASE k # j + 1
        <4>1. k \in 1..j BY <3>2
        <4>2. PICK i \in DOMAIN h[j] : h[j][i] = seq[k] BY <2>4, <2>6, <4>1
        <4>3. h[j] \in Seq(T) BY <2>4
        <4>4. i \in DOMAIN h[j + 1] /\ h[j + 1][i] = h[j][i]
          BY <2>3, <4>2, <4>3
        <4> QED BY <4>2, <4>4
      <3> QED BY <3>1, <3>2
    <2> QED BY <2>5, <2>6
  <1> HIDE DEF S
  <1>5. n \in S BY <1>1, <1>3, <1>4, SetInduction
  <1>6. Kept(n) BY <1>1, <1>5 DEF S
  <1> QED BY <1>1, <1>2, <1>6
==============================================================================
