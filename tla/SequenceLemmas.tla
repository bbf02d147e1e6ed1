--------------------------- MODULE SequenceLemmas ---------------------------
(***************************************************************************)
(* What FlattenSeq, a loop over a sequence and a recursive function compute *)
(* whatever their length: the lemmas that the proofs about the list of      *)
(* users and about the bytes of gRPC rest on.                               *)
(***************************************************************************)
EXTENDS SequencesExt, SequenceTheorems, FiniteSetTheorems, TLAPS

-----------------------------------------------------------------------------
(* Induction and iteration.                                                 *)

\* A set of naturals that is not empty has a least element.
LEMMA NatLeast ==
    ASSUME NEW T \in SUBSET Nat, T # {}
    PROVE  \E x \in T : \A y \in T : x <= y
  <1>1. PICK x \in T : \A y \in T : ~(<<y, x>> \in OpToRel(<, Nat))
    BY NatLessThanWellFounded, WFMin
  <1>2. \A y \in T : ~(y < x)
    BY <1>1 DEF OpToRel
  <1> QED
    BY <1>2

\* Induction up to N over a set: no operator is a parameter, so the provers can
\* use it. The proof looks at the least counterexample.
LEMMA UpTo ==
    ASSUME NEW N \in Nat, NEW T, 0 \in T, \A n \in 1..N : n - 1 \in T => n \in T
    PROVE  \A n \in 0..N : n \in T
  <1> DEFINE B == {n \in 0..N : n \notin T}
  <1> SUFFICES ASSUME B # {} PROVE FALSE
    OBVIOUS
  <1>0. B \in SUBSET Nat
    OBVIOUS
  <1>1. PICK x \in B : \A y \in B : x <= y
    <2> HIDE DEF B
    <2> QED
      BY <1>0, NatLeast
  <1>2. x \in 1..N /\ x - 1 \in 0..N /\ ~(x <= x - 1)
    BY <1>1
  <1> QED
    BY <1>1, <1>2

\* f is what N steps make of first.
Iterates(f, N, S, first, step) ==
    f \in [0..N -> S] /\ f[0] = first /\ \A i \in 1..N : f[i] = step[i][f[i - 1]]

\* A loop of N steps over a typed state has the function that its recursive
\* definition chooses.
LEMMA IteratesExist ==
    ASSUME NEW N \in Nat, NEW S, NEW first \in S, NEW step \in [1..N -> [S -> S]]
    PROVE  \E f : Iterates(f, N, S, first, step)
  <1> DEFINE Good(n, f) == f[0] = first /\ \A i \in 1..n : f[i] = step[i][f[i-1]]
             T == {n \in 0..N : \E f \in [0..n -> S] : Good(n, f)}
  <1>1. 0 \in T
    <2> DEFINE g == [i \in 0..0 |-> first]
    <2>1. g \in [0..0 -> S] /\ Good(0, g)
      OBVIOUS
    <2> HIDE DEF g, Good
    <2> QED
      BY <2>1
  <1>2. ASSUME NEW n \in 1..N, n - 1 \in T PROVE n \in T
    <2>1. PICK f \in [0..(n - 1) -> S] : Good(n - 1, f)
      BY <1>2
    <2> DEFINE g == [i \in 0..n |-> IF i = n THEN step[n][f[n - 1]] ELSE f[i]]
    <2>2. g \in [0..n -> S]
      BY <2>1
    <2>3. Good(n, g)
      <3>1. g[0] = first
        BY <2>1
      <3>2. ASSUME NEW i \in 1..n PROVE g[i] = step[i][g[i - 1]]
        <4>1. i - 1 \in 0..(n-1) /\ g[i-1] = f[i-1]
          OBVIOUS
        <4>2. CASE i = n
          BY <4>1, <4>2
        <4>3. CASE i # n
          BY <4>1, <4>3, <2>1
        <4> QED
          BY <4>2, <4>3
      <3> QED
        BY <3>1, <3>2
    <2> HIDE DEF g, Good
    <2> QED
      BY <2>2, <2>3
  <1>3. N \in T
    <2>1. \A n \in 0..N : n \in T
      <3> HIDE DEF T
      <3> QED
        BY <1>1, <1>2, UpTo
    <2> QED
      BY <2>1
  <1> QED
    BY <1>3 DEF Iterates

\* f is the function on D that goes by pre to where m is smaller, down to base.
Chain(f, D, S, base, first, pre, step) ==
    /\ f \in [D -> S]
    /\ \A x \in base : f[x] = first[x]
    /\ \A x \in D \ base : f[x] = step[x][f[pre[x]]]

\* Induction by a measure, over a set.
LEMMA Descent ==
    ASSUME NEW D, NEW m \in [D -> Nat], NEW T,
           \A x \in D : (\A y \in D : m[y] < m[x] => y \in T) => x \in T
    PROVE  \A x \in D : x \in T
  <1> DEFINE B == {x \in D : x \notin T}
             C == {m[x] : x \in B}
  <1> SUFFICES ASSUME B # {} PROVE FALSE
    OBVIOUS
  <1>1. C \in SUBSET Nat /\ C # {}
    OBVIOUS
  <1>2. PICK n \in C : \A k \in C : n <= k
    <2> HIDE DEF C
    <2> QED
      BY <1>1, NatLeast
  <1>3. PICK x \in B : n = m[x]
    BY <1>2
  <1>4. \A y \in D : m[y] < m[x] => y \in T
    <2> SUFFICES ASSUME NEW y \in D, m[y] < m[x], y \notin T PROVE FALSE
      OBVIOUS
    <2>1. m[x] <= m[y]
      BY <1>2, <1>3
    <2> QED
      BY <2>1
  <1> QED
    BY <1>4

\* A recursive definition of this form has the function that it chooses.
LEMMA ChainExists ==
    ASSUME NEW D, NEW S, NEW m \in [D -> Nat], NEW base \in SUBSET D,
           NEW first \in [base -> S], NEW pre \in [D \ base -> D],
           NEW step \in [D \ base -> [S -> S]],
           \A x \in D \ base : m[pre[x]] < m[x]
    PROVE  \E f : Chain(f, D, S, base, first, pre, step)
  <1> DEFINE Closed(R) ==
                 /\ \A x \in base : <<x, first[x]>> \in R
                 /\ \A x \in D \ base : \A y \in S : <<pre[x], y>> \in R => <<x, step[x][y]>> \in R
             G == {p \in D \X S : \A R \in SUBSET (D \X S) : Closed(R) => p \in R}
             T == {x \in D : \E y \in S : <<x, y>> \in G /\ \A z \in S : <<x, z>> \in G => z = y}
  <1>1. Closed(G) /\ G \in SUBSET (D \X S)
    OBVIOUS
  <1>2. \A R \in SUBSET (D \X S) : Closed(R) => G \subseteq R
    OBVIOUS
  <1> HIDE DEF G
  <1>3. ASSUME NEW x \in D, \A y \in D : m[y] < m[x] => y \in T PROVE x \in T
    <2>1. PICK y \in S : /\ <<x, y>> \in G
                         /\ x \in base => y = first[x]
                         /\ x \notin base => \A z \in S : <<pre[x], z>> \in G => y = step[x][z]
      <3>1. CASE x \in base
        BY <1>1, <3>1
      <3>2. CASE x \notin base
        <4>1. pre[x] \in T
          BY <1>3, <3>2
        <4>2. PICK y \in S : <<pre[x], y>> \in G /\ \A z \in S : <<pre[x], z>> \in G => z = y
          BY <4>1
        <4>3. <<x, step[x][y]>> \in G /\ step[x][y] \in S
          BY <1>1, <3>2, <4>2
        <4> QED
          BY <3>2, <4>2, <4>3
      <3> QED
        BY <3>1, <3>2
    <2>2. ASSUME NEW z \in S, <<x, z>> \in G, z # y PROVE FALSE
      <3> DEFINE R == G \ {<<x, z>>}
      <3>1. Closed(R)
        <4>1. ASSUME NEW v \in base PROVE <<v, first[v]>> \in R
          BY <1>1, <2>1, <2>2
        <4>2. ASSUME NEW v \in D \ base, NEW w \in S, <<pre[v], w>> \in R PROVE <<v, step[v][w]>> \in R
          <5>1. <<v, step[v][w]>> \in G
            BY <1>1, <4>2
          <5>2. v = x => step[v][w] = y
            BY <2>1, <4>2
          <5> QED
            BY <2>2, <5>1, <5>2
        <4> QED
          BY <4>1, <4>2
      <3>2. R \in SUBSET (D \X S)
        BY <1>1
      <3> HIDE DEF Closed
      <3> QED
        BY <1>2, <2>2, <3>1, <3>2
    <2> QED
      BY <2>1, <2>2
  <1>4. \A x \in D : x \in T
    <2> HIDE DEF T
    <2> QED
      BY <1>3, Descent
  <1> DEFINE f == [x \in D |-> CHOOSE y \in S : <<x, y>> \in G]
  <1>5. \A x \in D : f[x] \in S /\ <<x, f[x]>> \in G /\ \A z \in S : <<x, z>> \in G => z = f[x]
    BY <1>4
  <1>6. f \in [D -> S]
    BY <1>5
  <1> HIDE DEF f
  <1>7. \A x \in base : f[x] = first[x]
    BY <1>1, <1>5
  <1>8. ASSUME NEW x \in D \ base PROVE f[x] = step[x][f[pre[x]]]
    <2>1. f[pre[x]] \in S /\ <<pre[x], f[pre[x]]>> \in G
      BY <1>5
    <2>2. <<x, step[x][f[pre[x]]]>> \in G /\ step[x][f[pre[x]]] \in S
      BY <1>1, <2>1
    <2> QED
      BY <1>5, <2>2
  <1> QED
    BY <1>6, <1>7, <1>8 DEF Chain

-----------------------------------------------------------------------------
(* FlattenSeq.                                                              *)

\* FlattenSeq joins the sequences one after another.
LEMMA FlattenSteps ==
    ASSUME NEW S, NEW ss \in Seq(Seq(S))
    PROVE  \E f \in [0..Len(ss) -> Seq(S)] :
              /\ f[0] = <<>> /\ \A i \in 1..Len(ss) : f[i] = f[i - 1] \o ss[i]
              /\ FlattenSeq(ss) = f[Len(ss)]
  <1> DEFINE N == Len(ss)
  <1>0. N \in Nat
    OBVIOUS
  <1>a. \A i \in 1..N : ss[i] \in Seq(S)
    OBVIOUS
  <1>b. \A i \in 1..N : i \in 0..N /\ i - 1 \in 0..N /\ (i # 1 => i - 1 \in 1..N)
    BY <1>0
  <1>c. FlattenSeq(ss) = IF N = 0 THEN ss ELSE
           LET flatten[i \in 1..N] == IF i = 1 THEN ss[i] ELSE flatten[i-1] \o ss[i]
           IN flatten[N]
    BY DEF FlattenSeq
  <1>d. N = 0 => ss = <<>>
    OBVIOUS
  <1> HIDE DEF N
  <1>1. PICK f \in [0..N -> Seq(S)] : f[0] = <<>> /\ \A i \in 1..N : f[i] = f[i - 1] \o ss[i]
    <2> DEFINE Z == Seq(S)
               step == [i \in 1..N |-> [s \in Z |-> s \o ss[i]]]
    <2>1. \A i \in 1..N : \A s \in Z : s \o ss[i] \in Z
      BY <1>a
    <2>2. <<>> \in Z
      OBVIOUS
    <2>3. step \in [1..N -> [Z -> Z]] /\ \A i \in 1..N : \A s \in Z : step[i][s] = s \o ss[i]
      <3> HIDE DEF Z
      <3> QED
        BY <2>1
    <2>4. PICK f : Iterates(f, N, Z, <<>>, step)
      <3> HIDE DEF step, Z
      <3> QED
        BY <1>0, <2>2, <2>3, IteratesExist
    <2>5. ASSUME NEW i \in 1..N PROVE f[i] = f[i - 1] \o ss[i]
      <3>1. f[i - 1] \in Z
        BY <1>b, <2>4 DEF Iterates
      <3> HIDE DEF step, Z
      <3> QED
        BY <2>4, <2>3, <3>1 DEF Iterates
    <2> QED
      BY <2>4, <2>5 DEF Iterates
  <1>2. CASE N = 0
    BY <1>1, <1>2, <1>c, <1>d DEF N
  <1>3. CASE N # 0
    <2> DEFINE Def(g) == g = [i \in 1..N |-> IF i = 1 THEN ss[i] ELSE g[i-1] \o ss[i]]
               h == CHOOSE g : Def(g)
               f1 == [i \in 1..N |-> f[i]]
    <2>1. Def(f1)
      <3>1. ASSUME NEW i \in 1..N PROVE f1[i] = IF i = 1 THEN ss[i] ELSE f1[i-1] \o ss[i]
        <4>1. CASE i = 1
          <5>1. f[1] = f[1 - 1] \o ss[1]
            BY <1>1, <4>1
          <5>2. f[1] = <<>> \o ss[1]
            <6>1. 1 - 1 = 0
              OBVIOUS
            <6>2. f[1 - 1] = <<>>
              BY <6>1, <1>1
            <6> QED
              BY <5>1, <6>2
          <5>3. ss[1] \in Seq(S)
            BY <1>a, <4>1
          <5> QED
            BY <4>1, <5>3, <5>2
        <4>2. CASE i # 1
          BY <1>b, <1>1, <4>2
        <4> QED
          BY <4>1, <4>2
      <3> QED
        BY <3>1
    <2>2. Def(h)
      <3> HIDE DEF Def
      <3> QED
        BY <2>1
    <2> HIDE DEF h
    <2>3. \A i \in 1..N : h[i] = IF i = 1 THEN ss[i] ELSE h[i-1] \o ss[i]
      BY <2>2
    <2>4. \A i \in 0..N : i = 0 \/ h[i] = f[i]
      <3> DEFINE T == {i \in 0..N : i = 0 \/ h[i] = f[i]}
      <3>1. ASSUME NEW n \in 1..N, n - 1 \in T PROVE n \in T
        <4>1. CASE n = 1
          <5>1. f[1] = f[1 - 1] \o ss[1]
            BY <1>1, <4>1
          <5>2. f[1] = <<>> \o ss[1]
            <6>1. 1 - 1 = 0
              OBVIOUS
            <6>2. f[1 - 1] = <<>>
              BY <6>1, <1>1
            <6> QED
              BY <5>1, <6>2
          <5>3. ss[1] \in Seq(S)
            BY <1>a, <4>1
          <5> QED
            BY <4>1, <5>3, <5>2, <2>3
        <4>2. CASE n # 1
          <5>1. n - 1 \in 1..N /\ n - 1 # 0
            BY <4>2, <1>0
          <5>2. h[n - 1] = f[n - 1]
            BY <3>1, <5>1
          <5>3. h[n] = h[n - 1] \o ss[n] /\ f[n] = f[n - 1] \o ss[n]
            BY <4>2, <1>1, <2>3
          <5> QED
            BY <5>2, <5>3, <1>b
        <4> QED
          BY <4>1, <4>2
      <3>2. 0 \in T
        BY <1>0
      <3>3. \A n \in 0..N : n \in T
        <4> HIDE DEF T
        <4> QED
          BY <1>0, <3>1, <3>2, UpTo
      <3> QED
        BY <3>3
    <2>5. FlattenSeq(ss) = h[N]
      BY <1>3, <1>c DEF h
    <2>6. FlattenSeq(ss) = f[N]
      BY <1>0, <1>3, <2>4, <2>5
    <2> QED
      BY <1>1, <2>6 DEF N
  <1> QED
    BY <1>1, <1>2, <1>3

\* It is a sequence of what they are sequences of.
LEMMA FlattenType ==
    ASSUME NEW S, NEW ss \in Seq(Seq(S))
    PROVE  FlattenSeq(ss) \in Seq(S)
  <1>1. PICK f \in [0..Len(ss) -> Seq(S)] : FlattenSeq(ss) = f[Len(ss)]
    BY FlattenSteps
  <1>2. Len(ss) \in 0..Len(ss)
    OBVIOUS
  <1> QED
    BY <1>1, <1>2

\* x is an element of s.
Occurs(x, s) == \E i \in 1..Len(s) : s[i] = x

\* The elements of a concatenation are those of its two parts,
LEMMA OccursConcat ==
    ASSUME NEW S, NEW s \in Seq(S), NEW t \in Seq(S), NEW x
    PROVE  Occurs(x, s \o t) <=> Occurs(x, s) \/ Occurs(x, t)
  <1>0. Len(s) \in Nat /\ Len(t) \in Nat
    OBVIOUS
  <1>1. /\ Len(s \o t) = Len(s) + Len(t)
        /\ \A i \in 1..(Len(s) + Len(t)) : (s \o t)[i] = IF i <= Len(s) THEN s[i] ELSE t[i - Len(s)]
    BY ConcatProperties
  <1>2. ASSUME NEW i \in 1..(Len(s) + Len(t)), (s \o t)[i] = x PROVE Occurs(x, s) \/ Occurs(x, t)
    <2>1. CASE i <= Len(s)
      BY <1>0, <1>1, <1>2, <2>1 DEF Occurs
    <2>2. CASE ~(i <= Len(s))
      <3>1. i - Len(s) \in 1..Len(t) /\ t[i - Len(s)] = x
        BY <1>0, <1>1, <1>2, <2>2
      <3> QED
        BY <3>1 DEF Occurs
    <2> QED
      BY <2>1, <2>2
  <1>3. ASSUME NEW i \in 1..Len(s), s[i] = x PROVE Occurs(x, s \o t)
    BY <1>0, <1>1, <1>3 DEF Occurs
  <1>4. ASSUME NEW i \in 1..Len(t), t[i] = x PROVE Occurs(x, s \o t)
    <2>1. i + Len(s) \in 1..(Len(s) + Len(t)) /\ ~(i + Len(s) <= Len(s)) /\ i + Len(s) - Len(s) = i
      BY <1>0
    <2>2. (s \o t)[i + Len(s)] = x
      BY <1>1, <1>4, <2>1
    <2> QED
      BY <1>1, <2>1, <2>2 DEF Occurs
  <1> QED
    BY <1>1, <1>2, <1>3, <1>4 DEF Occurs

\* and those of FlattenSeq are those of all the sequences.
LEMMA FlattenOccurs ==
    ASSUME NEW S, NEW ss \in Seq(Seq(S)), NEW x
    PROVE  Occurs(x, FlattenSeq(ss)) <=> \E j \in 1..Len(ss) : Occurs(x, ss[j])
  <1>0. Len(ss) \in Nat /\ \A i \in 1..Len(ss) : ss[i] \in Seq(S)
    OBVIOUS
  <1>1. PICK f \in [0..Len(ss) -> Seq(S)] :
              /\ f[0] = <<>> /\ \A i \in 1..Len(ss) : f[i] = f[i - 1] \o ss[i]
              /\ FlattenSeq(ss) = f[Len(ss)]
    BY FlattenSteps
  <1> DEFINE P(n) == Occurs(x, f[n]) <=> \E j \in 1..n : Occurs(x, ss[j])
             T == {n \in 0..Len(ss) : P(n)}
  <1>2. 0 \in T
    <2>1. Len(f[0]) = 0
      BY <1>1
    <2> QED
      BY <1>0, <2>1 DEF Occurs
  <1>3. ASSUME NEW n \in 1..Len(ss), n - 1 \in T PROVE n \in T
    <2>1. n - 1 \in 0..Len(ss) /\ n \in 0..Len(ss) /\ 1..n = 1..(n - 1) \cup {n}
      BY <1>0
    <2>2. f[n - 1] \in Seq(S) /\ ss[n] \in Seq(S) /\ f[n] = f[n - 1] \o ss[n]
      BY <1>0, <1>1, <2>1
    <2>3. Occurs(x, f[n]) <=> Occurs(x, f[n - 1]) \/ Occurs(x, ss[n])
      <3> HIDE DEF P
      <3> QED
        BY <2>2, OccursConcat
    <2> QED
      BY <1>3, <2>1, <2>3
  <1>4. \A n \in 0..Len(ss) : n \in T
    <2> HIDE DEF T
    <2> QED
      BY <1>0, <1>2, <1>3, UpTo
  <1>5. P(Len(ss))
    <2>1. Len(ss) \in T
      <3> HIDE DEF T
      <3> QED
        BY <1>0, <1>4
    <2> QED
      BY <2>1
  <1> QED
    BY <1>1, <1>5

-----------------------------------------------------------------------------
(* Sequences in which each user occurs once.                                *)

\* No two elements have the same user.
OnceEach(s) == \A i, j \in 1..Len(s) : s[i].user = s[j].user => i = j
\* No element of s and no element of t have the same user.
Disjoint(s, t) == \A x, y : Occurs(x, s) /\ Occurs(y, t) => x.user # y.user

\* A concatenation has no user twice when its parts have not and share none,
LEMMA OnceConcat ==
    ASSUME NEW S, NEW s \in Seq(S), NEW t \in Seq(S), OnceEach(s), OnceEach(t), Disjoint(s, t)
    PROVE  OnceEach(s \o t)
  <1>0. Len(s) \in Nat /\ Len(t) \in Nat
    OBVIOUS
  <1>1. /\ Len(s \o t) = Len(s) + Len(t)
        /\ \A i \in 1..(Len(s) + Len(t)) : (s \o t)[i] = IF i <= Len(s) THEN s[i] ELSE t[i - Len(s)]
    BY ConcatProperties
  <1>2. SUFFICES ASSUME NEW i \in 1..(Len(s) + Len(t)), NEW j \in 1..(Len(s) + Len(t)),
                        (s \o t)[i].user = (s \o t)[j].user
                 PROVE  i = j
    BY <1>1 DEF OnceEach
  <1>3. \A k \in 1..(Len(s) + Len(t)) :
           \/ k \in 1..Len(s) /\ (s \o t)[k] = s[k]
           \/ k - Len(s) \in 1..Len(t) /\ (s \o t)[k] = t[k - Len(s)]
    BY <1>0, <1>1
  <1>4. CASE i \in 1..Len(s) /\ j \in 1..Len(s)
    BY <1>0, <1>1, <1>2, <1>4 DEF OnceEach
  <1>5. CASE i - Len(s) \in 1..Len(t) /\ j - Len(s) \in 1..Len(t)
    <2>1. (s \o t)[i] = t[i - Len(s)] /\ (s \o t)[j] = t[j - Len(s)]
      BY <1>0, <1>1, <1>5
    <2>2. i - Len(s) = j - Len(s)
      BY <1>2, <1>5, <2>1 DEF OnceEach
    <2> QED
      BY <1>0, <2>2
  <1>6. CASE i \in 1..Len(s) /\ j - Len(s) \in 1..Len(t)
    <2>1. (s \o t)[i] = s[i] /\ (s \o t)[j] = t[j - Len(s)]
      BY <1>0, <1>1, <1>6
    <2> QED
      BY <1>2, <1>6, <2>1 DEF Disjoint, Occurs
  <1>7. CASE j \in 1..Len(s) /\ i - Len(s) \in 1..Len(t)
    <2>1. (s \o t)[j] = s[j] /\ (s \o t)[i] = t[i - Len(s)]
      BY <1>0, <1>1, <1>7
    <2> QED
      BY <1>2, <1>7, <2>1 DEF Disjoint, Occurs
  <1> QED
    BY <1>3, <1>4, <1>5, <1>6, <1>7

\* and so has FlattenSeq.
LEMMA FlattenOnce ==
    ASSUME NEW S, NEW ss \in Seq(Seq(S)),
           \A j \in 1..Len(ss) : OnceEach(ss[j]),
           \A j, k \in 1..Len(ss) : j # k => Disjoint(ss[j], ss[k])
    PROVE  OnceEach(FlattenSeq(ss))
  <1>0. Len(ss) \in Nat /\ \A i \in 1..Len(ss) : ss[i] \in Seq(S)
    OBVIOUS
  <1>1. PICK f \in [0..Len(ss) -> Seq(S)] :
              /\ f[0] = <<>> /\ \A i \in 1..Len(ss) : f[i] = f[i - 1] \o ss[i]
              /\ FlattenSeq(ss) = f[Len(ss)]
    BY FlattenSteps
  <1> DEFINE P(n) == /\ OnceEach(f[n])
                     /\ \A x : Occurs(x, f[n]) => \E j \in 1..n : Occurs(x, ss[j])
             T == {n \in 0..Len(ss) : P(n)}
  <1>2. 0 \in T
    <2>1. Len(f[0]) = 0
      BY <1>1
    <2> QED
      BY <1>0, <2>1 DEF Occurs, OnceEach
  <1>3. ASSUME NEW n \in 1..Len(ss), n - 1 \in T PROVE n \in T
    <2>1. n - 1 \in 0..Len(ss) /\ n \in 0..Len(ss) /\ 1..n = 1..(n - 1) \cup {n}
      BY <1>0
    <2>2. f[n - 1] \in Seq(S) /\ ss[n] \in Seq(S) /\ f[n] = f[n - 1] \o ss[n]
      BY <1>0, <1>1, <2>1
    <2>3. \A x : Occurs(x, f[n]) <=> Occurs(x, f[n - 1]) \/ Occurs(x, ss[n])
      <3> HIDE DEF P
      <3> QED
        BY <2>2, OccursConcat
    <2>4. Disjoint(f[n - 1], ss[n])
      <3> SUFFICES ASSUME NEW x, NEW y, Occurs(x, f[n - 1]), Occurs(y, ss[n]) PROVE x.user # y.user
        BY DEF Disjoint
      <3>1. PICK j \in 1..(n - 1) : Occurs(x, ss[j])
        BY <1>3
      <3>2. j \in 1..Len(ss) /\ j # n
        BY <1>0
      <3> QED
        BY <3>1, <3>2 DEF Disjoint
    <2>5. OnceEach(f[n])
      <3>1. OnceEach(f[n - 1]) /\ OnceEach(ss[n])
        BY <1>3
      <3> HIDE DEF P
      <3> QED
        BY <2>2, <2>4, <3>1, OnceConcat
    <2> QED
      BY <1>3, <2>1, <2>3, <2>5
  <1>4. \A n \in 0..Len(ss) : n \in T
    <2> HIDE DEF T
    <2> QED
      BY <1>0, <1>2, <1>3, UpTo
  <1>5. P(Len(ss))
    <2>1. Len(ss) \in T
      <3> HIDE DEF T
      <3> QED
        BY <1>0, <1>4
    <2> QED
      BY <2>1
  <1> QED
    BY <1>1, <1>5

\* One more sequence is joined at the end.
LEMMA FlattenAppend ==
    ASSUME NEW S, NEW ss \in Seq(Seq(S)), NEW s \in Seq(S)
    PROVE  FlattenSeq(Append(ss, s)) = FlattenSeq(ss) \o s
  <1> DEFINE N == Len(ss)
             tt == Append(ss, s)
  <1>0. /\ N \in Nat /\ tt \in Seq(Seq(S)) /\ Len(tt) = N + 1 /\ tt[N + 1] = s
        /\ \A i \in 1..N : tt[i] = ss[i]
    OBVIOUS
  <1>1. PICK f \in [0..N -> Seq(S)] :
              /\ f[0] = <<>> /\ \A i \in 1..N : f[i] = f[i - 1] \o ss[i]
              /\ FlattenSeq(ss) = f[N]
    BY FlattenSteps
  <1>2. PICK g \in [0..(N + 1) -> Seq(S)] :
              /\ g[0] = <<>> /\ \A i \in 1..(N + 1) : g[i] = g[i - 1] \o tt[i]
              /\ FlattenSeq(tt) = g[N + 1]
    <2>1. \E g \in [0..Len(tt) -> Seq(S)] :
              /\ g[0] = <<>> /\ \A i \in 1..Len(tt) : g[i] = g[i - 1] \o tt[i]
              /\ FlattenSeq(tt) = g[Len(tt)]
      <3> HIDE DEF tt
      <3> QED
        BY <1>0, FlattenSteps
    <2> HIDE DEF tt
    <2> QED
      BY <1>0, <2>1
  <1> HIDE DEF N, tt
  <1> DEFINE T == {n \in 0..N : f[n] = g[n]}
  <1>3. 0 \in T
    BY <1>0, <1>1, <1>2
  <1>4. ASSUME NEW n \in 1..N, n - 1 \in T PROVE n \in T
    <2>1. n \in 1..(N + 1) /\ n \in 0..N
      BY <1>0
    <2>2. f[n] = f[n - 1] \o ss[n] /\ g[n] = g[n - 1] \o ss[n]
      BY <1>0, <1>1, <1>2, <2>1
    <2>3. f[n - 1] = g[n - 1]
      BY <1>4
    <2> QED
      BY <2>1, <2>2, <2>3
  <1>5. \A n \in 0..N : n \in T
    <2> HIDE DEF T
    <2> QED
      BY <1>0, <1>3, <1>4, UpTo
  <1>6. f[N] = g[N]
    BY <1>0, <1>5
  <1>7. ASSUME NEW k \in 1..(N + 1), k = N + 1 PROVE g[k] = g[N] \o s
    <2>1. k - 1 = N
      BY <1>0, <1>7
    <2>2. g[k] = g[k - 1] \o tt[k]
      BY <1>2
    <2> QED
      BY <2>1, <2>2, <1>0, <1>7
  <1>8. g[N + 1] = g[N] \o s
    BY <1>0, <1>7
  <1> QED
    BY <1>1, <1>2, <1>6, <1>8 DEF tt

-----------------------------------------------------------------------------
(* The elements of a finite set, in some order.                             *)

\* SetToSeq has every element once.
LEMMA SetToSeqOf ==
    ASSUME NEW S, IsFiniteSet(S)
    PROVE  /\ SetToSeq(S) \in Seq(S) /\ Len(SetToSeq(S)) = Cardinality(S)
           /\ DOMAIN SetToSeq(S) = 1..Len(SetToSeq(S))
           /\ \A x \in S : \E i \in 1..Len(SetToSeq(S)) : SetToSeq(S)[i] = x
           /\ \A i, j \in 1..Len(SetToSeq(S)) : SetToSeq(S)[i] = SetToSeq(S)[j] => i = j
  <1> DEFINE n == Cardinality(S)
             f == SetToSeq(S)
  <1>1. n \in Nat /\ ExistsBijection(1..n, S)
    BY FS_CardinalityType
  <1>2. f \in [1..n -> S] /\ IsInjective(f)
    BY <1>1 DEF ExistsBijection, Bijection, Injection, SetToSeq
  <1>3. f \in Surjection(1..n, S)
    <2>1. f \in Injection(1..n, S)
      BY <1>2 DEF Injection
    <2>2. Cardinality(1..n) = n
      BY <1>1, FS_Interval
    <2> HIDE DEF f
    <2> QED
      BY <2>1, <2>2, FS_Injection
  <1> HIDE DEF f, n
  <1>4. f \in Seq(S) /\ Len(f) = n
    BY <1>1, <1>2
  <1> QED
    BY <1>2, <1>3, <1>4 DEF Surjection, IsInjective, f, n
=============================================================================
