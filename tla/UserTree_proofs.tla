--------------------------- MODULE UserTree_proofs ---------------------------
(***************************************************************************)
(* The list of users the admin can ask for, for any users, names and        *)
(* limits: it shows everybody once, and is cut without a loss. Both are     *)
(* about recursive functions. What they compute is shown by looking at the  *)
(* least counterexample: the shortest text, the smallest group of users.    *)
(***************************************************************************)
EXTENDS UserTree, SequenceLemmas, Membership_proofs

-----------------------------------------------------------------------------
(* The length of a chunk.                                                   *)

\* What a chunk is made of.
Pieces == [line : Nat, from : Nat, to : Nat]

\* Its length may be anything as yet.
LEMMA CharsType == ASSUME NEW q \in Pieces PROVE Chars(q) \in Int
  BY DEF Pieces, Chars

\* The length of a chunk adds up its pieces one after another,
LEMMA LengthSteps ==
    ASSUME NEW s \in Seq(Pieces)
    PROVE  \E f \in [0..Len(s) -> Int] :
              /\ f[0] = 0 /\ \A k \in 1..Len(s) : f[k] = f[k - 1] + Chars(s[k])
              /\ LengthOf(s) = f[Len(s)] + Len(s) - 1
  <1> DEFINE N == Len(s)
  <1>0. N \in Nat
    OBVIOUS
  <1>a. \A k \in 1..N : Chars(s[k]) \in Int
    BY CharsType
  <1>b. LengthOf(s) = (LET chars[k \in 0..N] == IF k = 0 THEN 0 ELSE chars[k - 1] + Chars(s[k])
                       IN chars[N]) + N - 1
    BY DEF LengthOf
  <1> HIDE DEF N
  <1> DEFINE Z == Int
             step == [k \in 1..N |-> [n \in Z |-> n + Chars(s[k])]]
             Def(h) == h = [k \in 0..N |-> IF k = 0 THEN 0 ELSE h[k - 1] + Chars(s[k])]
             g == CHOOSE h : Def(h)
  <1>1. PICK f : Iterates(f, N, Z, 0, step)
    <2>1. step \in [1..N -> [Z -> Z]] /\ 0 \in Z
      BY <1>a
    <2> HIDE DEF step, Z
    <2> QED
      BY <1>0, <2>1, IteratesExist
  <1>2. \A k \in 1..N : f[k] = f[k - 1] + Chars(s[k])
    <2> TAKE k \in 1..N
    <2>1. k - 1 \in 0..N /\ f[k - 1] \in Int /\ f[k] = step[k][f[k - 1]]
      BY <1>0, <1>1 DEF Iterates
    <2> QED
      BY <2>1
  <1>3. Def(f)
    BY <1>1, <1>2, <1>0 DEF Iterates
  <1>4. Def(g)
    <2> HIDE DEF Def
    <2> QED
      BY <1>3
  <1>5. LengthOf(s) = g[N] + N - 1
    BY <1>b
  <1> HIDE DEF g
  <1> DEFINE T == {k \in 0..N : f[k] = g[k]}
  <1>6. 0 \in T
    BY <1>0, <1>1, <1>4 DEF Iterates
  <1>7. ASSUME NEW k \in 1..N, k - 1 \in T PROVE k \in T
    <2>1. g[k] = g[k - 1] + Chars(s[k]) /\ k \in 0..N
      BY <1>0, <1>4
    <2> QED
      BY <2>1, <1>2, <1>7
  <1>8. f[N] = g[N]
    <2>1. \A k \in 0..N : k \in T
      <3> HIDE DEF T
      <3> QED
        BY <1>0, <1>6, <1>7, UpTo
    <2> QED
      BY <1>0, <2>1
  <1> QED
    BY <1>1, <1>2, <1>5, <1>8 DEF Iterates, N

\* that of a chunk of one piece is the piece,
LEMMA LengthOfOne ==
    ASSUME NEW q \in Pieces
    PROVE  LengthOf(<<q>>) = Chars(q)
  <1>1. PICK f \in [0..1 -> Int] :
              /\ f[0] = 0 /\ \A k \in 1..1 : f[k] = f[k - 1] + Chars(<<q>>[k])
              /\ LengthOf(<<q>>) = f[1] + 1 - 1
    <2>1. <<q>> \in Seq(Pieces) /\ Len(<<q>>) = 1
      OBVIOUS
    <2> QED
      BY <2>1, LengthSteps
  <1>2. f[1] = f[1 - 1] + Chars(q)
    BY <1>1
  <1>3. Chars(q) \in Int /\ f[1 - 1] = 0
    BY <1>1, CharsType
  <1> QED
    BY <1>1, <1>2, <1>3

\* and one more piece adds itself and a newline.
LEMMA LengthOfAppend ==
    ASSUME NEW s \in Seq(Pieces), NEW q \in Pieces
    PROVE  LengthOf(Append(s, q)) = LengthOf(s) + Chars(q) + 1 /\ LengthOf(s) \in Int
  <1> DEFINE N == Len(s)
             t == Append(s, q)
  <1>0. /\ N \in Nat /\ t \in Seq(Pieces) /\ Len(t) = N + 1 /\ t[N + 1] = q
        /\ \A i \in 1..N : t[i] = s[i]
    OBVIOUS
  <1>a. Chars(q) \in Int
    BY CharsType
  <1>1. PICK f \in [0..N -> Int] :
              /\ f[0] = 0 /\ \A k \in 1..N : f[k] = f[k - 1] + Chars(s[k])
              /\ LengthOf(s) = f[N] + N - 1
    BY LengthSteps
  <1> HIDE DEF t, N
  <1>2. PICK g \in [0..Len(t) -> Int] :
              /\ g[0] = 0 /\ \A k \in 1..Len(t) : g[k] = g[k - 1] + Chars(t[k])
              /\ LengthOf(t) = g[Len(t)] + Len(t) - 1
    BY <1>0, LengthSteps
  <1> DEFINE T == {n \in 0..N : f[n] = g[n]}
  <1>3. 0 \in T
    BY <1>0, <1>1, <1>2
  <1>4. ASSUME NEW n \in 1..N, n - 1 \in T PROVE n \in T
    <2>1. n \in 1..Len(t) /\ n \in 0..N
      BY <1>0
    <2>2. t[n] = s[n]
      BY <1>0
    <2> QED
      BY <2>1, <2>2, <1>1, <1>2, <1>4
  <1>5. f[N] = g[N]
    <2>1. \A n \in 0..N : n \in T
      <3> HIDE DEF T
      <3> QED
        BY <1>0, <1>3, <1>4, UpTo
    <2> QED
      BY <1>0, <2>1
  <1>6. ASSUME NEW k \in 1..Len(t), k = N + 1 PROVE g[k] = g[N] + Chars(q)
    <2>1. k - 1 = N
      BY <1>0, <1>6
    <2>2. g[k] = g[k - 1] + Chars(t[k])
      BY <1>2
    <2> QED
      BY <2>1, <2>2, <1>0, <1>6
  <1>7. g[Len(t)] = g[N] + Chars(q)
    BY <1>0, <1>6
  <1>8. f[N] \in Int
    BY <1>0, <1>1
  <1>9. LengthOf(t) = g[N] + Chars(q) + N + 1 - 1 /\ LengthOf(s) = g[N] + N - 1
    BY <1>0, <1>1, <1>2, <1>5, <1>7, <1>8, <1>a
  <1>10. LengthOf(t) = LengthOf(s) + Chars(q) + 1 /\ LengthOf(s) \in Int
    BY <1>0, <1>5, <1>8, <1>9, <1>a
  <1> QED
    BY <1>10 DEF t

\* One sequence of one piece for each.
Singles(s) == [j \in DOMAIN s |-> <<s[j]>>]

\* c is ss followed by a chunk for each piece of s.
Extends(c, ss, s, S) ==
    /\ c \in Seq(Seq(S)) /\ Len(c) = Len(ss) + Len(s)
    /\ \A i \in 1..Len(s) : c[Len(ss) + i] = <<s[i]>>
    /\ \A i \in 1..Len(ss) : c[i] = ss[i]
    /\ FlattenSeq(c) = FlattenSeq(ss) \o s

\* The chunks of the parts of a long line, read one after another, are the parts.
LEMMA FlattenSingles ==
    ASSUME NEW S, NEW ss \in Seq(Seq(S)), NEW s \in Seq(S)
    PROVE  Extends(ss \o Singles(s), ss, s, S)
  <1> DEFINE N == Len(s)
             pre(n) == SubSeq(s, 1, n)
             P(n) == FlattenSeq(ss \o Singles(pre(n))) = FlattenSeq(ss) \o pre(n)
             T == {n \in 0..N : P(n)}
  <1>0. N \in Nat /\ DOMAIN s = 1..N /\ FlattenSeq(ss) \in Seq(S) /\ Len(ss) \in Nat
    BY FlattenType
  <1>1. \A n \in 0..N : /\ pre(n) \in Seq(S) /\ Len(pre(n)) = n /\ DOMAIN pre(n) = 1..n
                        /\ \A i \in 1..n : pre(n)[i] = s[i]
    <2> TAKE n \in 0..N
    <2>1. \A i \in 1..n : s[i] \in S
      OBVIOUS
    <2>2. 1 \in Int /\ n \in Int
      OBVIOUS
    <2>3. pre(n) \in Seq(S) /\ Len(pre(n)) = n
      BY <2>1, <2>2, SubSeqProperties
    <2> QED
      BY <2>1, <2>2, <2>3, SubSeqProperties
  <1>2. \A n \in 0..N : /\ Singles(pre(n)) = [j \in 1..n |-> <<s[j]>>]
                        /\ Singles(pre(n)) \in Seq(Seq(S)) /\ Len(Singles(pre(n))) = n
    <2> TAKE n \in 0..N
    <2> HIDE DEF pre
    <2>1. Singles(pre(n)) = [j \in 1..n |-> <<s[j]>>]
      BY <1>1 DEF Singles
    <2>2. \A j \in 1..n : <<s[j]>> \in Seq(S)
      OBVIOUS
    <2> QED
      BY <2>1, <2>2
  <1>3. 0 \in T
    <2>1. Singles(pre(0)) = <<>> /\ pre(0) = <<>>
      <3> HIDE DEF pre
      <3> QED
        BY <1>0, <1>1, <1>2
    <2>2. ss \o <<>> = ss /\ FlattenSeq(ss) \o <<>> = FlattenSeq(ss)
      <3> HIDE DEF T
      <3> QED
        BY <1>0, ConcatEmptySeq
    <2>3. P(0)
      BY <2>1, <2>2
    <2> HIDE DEF P
    <2> QED
      BY <1>0, <2>3
  <1>4. ASSUME NEW n \in 1..N, n - 1 \in T PROVE n \in T
    <2> HIDE DEF pre
    <2>0. n - 1 \in 0..N /\ n \in 0..N
      BY <1>0
    <2>1. Singles(pre(n)) = Append(Singles(pre(n - 1)), <<s[n]>>)
      <3> DEFINE a == Singles(pre(n - 1))
                 b == Singles(pre(n))
      <3>1. a \in Seq(Seq(S)) /\ Len(a) = n - 1 /\ b \in Seq(Seq(S)) /\ Len(b) = n
        BY <1>2, <2>0
      <3>2. \A j \in 1..(n - 1) : a[j] = <<s[j]>>
        BY <1>2, <2>0
      <3>3. \A j \in 1..n : b[j] = <<s[j]>>
        BY <1>2, <2>0
      <3>4. <<s[n]>> \in Seq(S)
        OBVIOUS
      <3> HIDE DEF a, b
      <3> DEFINE e == <<s[n]>>
      <3>a. \A j \in 1..(Len(a) + 1) : Append(a, e)[j] = IF j <= Len(a) THEN a[j] ELSE e
        <4> HIDE DEF e
        <4> QED
          BY <3>1
      <3>5. Append(a, <<s[n]>>) \in Seq(Seq(S)) /\ Len(Append(a, <<s[n]>>)) = n
        BY <2>0, <3>1, <3>4
      <3>6. \A j \in 1..n : Append(a, <<s[n]>>)[j] = b[j]
        <4> TAKE j \in 1..n
        <4>1. CASE j = n
          BY <2>0, <3>1, <3>3, <3>a, <4>1, SMTT(30)
        <4>2. CASE j # n
          <5>1. j \in 1..(n - 1)
            BY <1>0, <4>2
          <5>2. j <= Len(a) /\ j \in 1..(Len(a) + 1)
            BY <1>0, <3>1, <5>1
          <5> QED
            BY <3>2, <3>3, <3>a, <5>1, <5>2
        <4> QED
          BY <4>1, <4>2
      <3>7. Append(a, <<s[n]>>) = b
        BY <3>1, <3>5, <3>6, SeqEqual
      <3> QED
        BY <3>7 DEF a, b
    <2>2. ss \o Singles(pre(n)) = Append(ss \o Singles(pre(n - 1)), <<s[n]>>)
      BY <1>2, <2>0, <2>1
    <2>3. ss \o Singles(pre(n - 1)) \in Seq(Seq(S)) /\ <<s[n]>> \in Seq(S)
      BY <1>2, <2>0
    <2>4. FlattenSeq(ss \o Singles(pre(n))) = FlattenSeq(ss \o Singles(pre(n - 1))) \o <<s[n]>>
      BY <2>2, <2>3, FlattenAppend
    <2>5. FlattenSeq(ss \o Singles(pre(n - 1))) = FlattenSeq(ss) \o pre(n - 1)
      BY <1>4
    <2>6. pre(n) = pre(n - 1) \o <<s[n]>>
      <3>1. s \in Seq(S) /\ 1 \in 1..N /\ n \in 1..N
        BY <1>0
      <3>2. 1 \in 1..Len(s) /\ n \in 1..Len(s)
        BY <3>1
      <3> QED
        BY <3>1, <3>2, SubSeqRecursiveSecond DEF pre
    <2>7. (FlattenSeq(ss) \o pre(n - 1)) \o <<s[n]>> = FlattenSeq(ss) \o pre(n)
      <3>1. FlattenSeq(ss) \in Seq(S) /\ pre(n - 1) \in Seq(S) /\ <<s[n]>> \in Seq(S)
        BY <1>0, <1>1, <2>0
      <3>2. \A x, y, z \in Seq(S) : (x \o y) \o z = x \o (y \o z)
        <4> TAKE x, y, z \in Seq(S)
        <4> QED
          BY ConcatAssociative, SMTT(30)
      <3> HIDE DEF T, P
      <3>3. (FlattenSeq(ss) \o pre(n - 1)) \o <<s[n]>> = FlattenSeq(ss) \o (pre(n - 1) \o <<s[n]>>)
        BY <3>1, <3>2, ZenonT(30)
      <3> QED
        BY <2>6, <3>3
    <2>8. P(n)
      BY <2>4, <2>5, <2>7
    <2> HIDE DEF P
    <2> QED
      BY <2>0, <2>8
  <1>5. N \in T
    <2>1. \A n \in 0..N : n \in T
      <3> HIDE DEF T
      <3> QED
        BY <1>0, <1>3, <1>4, UpTo
    <2> QED
      BY <1>0, <2>1
  <1>6. pre(N) = s
    <2> HIDE DEF pre
    <2> QED
      BY <1>0, <1>1, SMTT(30)
  <1>7. Singles(s) \in Seq(Seq(S)) /\ Len(Singles(s)) = N /\ \A i \in 1..N : Singles(s)[i] = <<s[i]>>
    <2> HIDE DEF pre
    <2>1. N \in 0..N
      BY <1>0
    <2>2. Singles(s) = [j \in 1..N |-> <<s[j]>>] /\ Singles(s) \in Seq(Seq(S)) /\ Len(Singles(s)) = N
      BY <1>2, <1>6, <2>1
    <2> QED
      BY <2>2
  <1>8. FlattenSeq(ss \o Singles(s)) = FlattenSeq(ss) \o s
    <2> HIDE DEF pre
    <2> QED
      BY <1>5, <1>6
  <1> HIDE DEF N
  <1>9. /\ ss \o Singles(s) \in Seq(Seq(S))
        /\ Len(ss \o Singles(s)) = Len(ss) + N
        /\ \A i \in 1..Len(ss) + N : (ss \o Singles(s))[i] =
              IF i <= Len(ss) THEN ss[i] ELSE Singles(s)[i - Len(ss)]
    BY <1>7, ConcatProperties
  <1>10. ASSUME NEW i \in 1..N PROVE (ss \o Singles(s))[Len(ss) + i] = <<s[i]>>
    <2>1. Len(ss) + i \in 1..Len(ss) + N /\ ~(Len(ss) + i <= Len(ss)) /\ Len(ss) + i - Len(ss) = i
      BY <1>0
    <2> QED
      BY <1>7, <1>9, <2>1
  <1>11. ASSUME NEW i \in 1..Len(ss) PROVE (ss \o Singles(s))[i] = ss[i]
    BY <1>0, <1>9
  <1> QED
    BY <1>8, <1>9, <1>10, <1>11 DEF N, Extends

-----------------------------------------------------------------------------
(* The lines in pieces.                                                     *)

\* q goes on where p ends: within its line, or with the next one.
Follows(p, q, w) ==
    IF p.to = w[p.line] THEN q.line = p.line + 1 /\ q.from = 1
    ELSE q.line = p.line /\ q.from = p.to + 1

\* The pieces are the first n lines.
CoverTo(ps, w, n) ==
    /\ IF ps = <<>> THEN n = 0 ELSE
         /\ ps[1].line = 1 /\ ps[1].from = 1
         /\ ps[Len(ps)].line = n /\ ps[Len(ps)].to = w[n]
    /\ \A k \in 1..(Len(ps) - 1) : Follows(ps[k], ps[k + 1], w)

\* The pieces are line n.
OfLine(qs, n, len) ==
    /\ qs # <<>> /\ qs[1].from = 1 /\ qs[Len(qs)].to = len
    /\ \A k \in 1..Len(qs) : qs[k].line = n
    /\ \A k \in 1..(Len(qs) - 1) : qs[k].to # len /\ qs[k + 1].from = qs[k].to + 1

\* The pieces of one more line cover one more line.
LEMMA CoverMore ==
    ASSUME NEW ps \in Seq(Pieces), NEW qs \in Seq(Pieces), NEW w, NEW n \in Nat \ {0},
           CoverTo(ps, w, n - 1), OfLine(qs, n, w[n])
    PROVE  CoverTo(ps \o qs, w, n)
  <1> DEFINE a == Len(ps)
             b == Len(qs)
             r == ps \o qs
  <1>0. a \in Nat /\ b \in Nat \ {0} /\ (ps = <<>> <=> a = 0)
    BY DEF OfLine
  <1>1. /\ Len(r) = a + b
        /\ \A i \in 1..a : r[i] = ps[i]
        /\ \A i \in 1..b : r[a + i] = qs[i]
    <2>1. /\ Len(r) = a + b
          /\ \A i \in 1..(a + b) : r[i] = IF i <= a THEN ps[i] ELSE qs[i - a]
      BY ConcatProperties
    <2>2. ASSUME NEW i \in 1..b PROVE r[a + i] = qs[i]
      <3> HIDE DEF a, b, r
      <3>1. ASSUME NEW k, k = a + i PROVE r[k] = qs[i]
        <4>1. k \in 1..(a + b) /\ ~(k <= a) /\ k - a = i
          BY <1>0, <3>1
        <4> QED
          BY <2>1, <4>1
      <3> QED
        BY <3>1
    <2>3. ASSUME NEW i \in 1..a PROVE r[i] = ps[i]
      <3>1. i \in 1..(a + b) /\ i <= a
        BY <1>0
      <3> HIDE DEF a, b, r
      <3> QED
        BY <2>1, <3>1
    <2> QED
      BY <2>1, <2>2, <2>3
  <1> HIDE DEF a, b, r
  <1>2. /\ r # <<>> /\ r[Len(r)] = qs[b] /\ qs[b].line = n /\ qs[b].to = w[n]
        /\ qs[1].line = n /\ qs[1].from = 1
    <2>1. b \in 1..b /\ 1 \in 1..b
      BY <1>0
    <2>2. r[a + b] = qs[b]
      BY <1>1, <2>1
    <2>3. Len(r) # 0
      BY <1>0, <1>1
    <2>4. r # <<>>
      BY <2>3
    <2> QED
      BY <1>1, <2>1, <2>2, <2>4 DEF OfLine, b
  <1>3. r[1].line = 1 /\ r[1].from = 1
    <2>1. CASE a = 0
      <3>1. n = 1
        BY <1>0, <2>1 DEF CoverTo
      <3>2. r[a + 1] = qs[1] /\ a + 1 = 1
        BY <1>0, <1>1, <2>1
      <3> QED
        BY <1>2, <3>1, <3>2
    <2>2. CASE a # 0
      <3>1. r[1] = ps[1]
        BY <1>0, <1>1, <2>2
      <3> QED
        BY <1>0, <3>1, <2>2 DEF CoverTo
    <2> QED
      BY <2>1, <2>2
  <1>4. ASSUME NEW k \in 1..(a + b - 1) PROVE Follows(r[k], r[k + 1], w)
    <2>1. CASE k < a
      <3>1. k \in 1..(a - 1) /\ k \in 1..a /\ k + 1 \in 1..a
        BY <1>0, <2>1
      <3>2. r[k] = ps[k] /\ r[k + 1] = ps[k + 1]
        BY <1>1, <3>1
      <3> QED
        BY <3>1, <3>2 DEF CoverTo, a
    <2>2. CASE k = a
      <3>1. r[k] = ps[a] /\ r[k + 1] = qs[1]
        BY <1>0, <1>1, <2>2
      <3>2. ps[a].line = n - 1 /\ ps[a].to = w[n - 1]
        BY <1>0, <2>2 DEF CoverTo, a
      <3> QED
        BY <1>2, <3>1, <3>2 DEF Follows
    <2>3. CASE k > a
      <3>1. PICK i \in 1..(b - 1) : k = a + i
        <4>1. k - a \in 1..(b - 1) /\ k = a + (k - a)
          BY <1>0, <2>3
        <4> QED
          BY <4>1
      <3>2. i \in 1..b /\ i + 1 \in 1..b /\ k + 1 = a + (i + 1)
        BY <1>0, <3>1
      <3>3. r[k] = qs[i] /\ r[k + 1] = qs[i + 1]
        BY <1>1, <3>1, <3>2
      <3>4. qs[i].line = n /\ qs[i + 1].line = n /\ qs[i].to # w[n] /\ qs[i + 1].from = qs[i].to + 1
        BY <3>1, <3>2 DEF OfLine, b
      <3> QED
        BY <3>3, <3>4 DEF Follows
    <2> QED
      BY <1>0, <2>1, <2>2, <2>3
  <1>5. CoverTo(r, w, n)
    <2>1. \A k \in 1..(Len(r) - 1) : Follows(r[k], r[k + 1], w)
      <3>1. Len(r) = a + b
        BY <1>1
      <3> SUFFICES ASSUME NEW k \in 1..(Len(r) - 1) PROVE Follows(r[k], r[k + 1], w)
        OBVIOUS
      <3>2. k \in 1..(a + b - 1)
        BY <1>0, <3>1
      <3> QED
        BY <1>4, <3>2
    <2>2. r[Len(r)].line = n /\ r[Len(r)].to = w[n]
      BY <1>2
    <2> QED
      BY <1>2, <1>3, <2>1, <2>2 DEF CoverTo
  <1> QED
    BY <1>5 DEF r

\* A line that fits is one piece,
LEMMA OneWhole ==
    ASSUME NEW n \in Nat, NEW len \in Nat
    PROVE  /\ OfLine(<<Piece(n, 1, len)>>, n, len) /\ Piece(n, 1, len) \in Pieces
           /\ Chars(Piece(n, 1, len)) = len
  BY DEF OfLine, Piece, Pieces, Chars

\* A product grows with its factor.
LEMMA Times == ASSUME NEW a \in Int, NEW b \in Int, NEW c \in Nat, a <= b
               PROVE  a * c <= b * c /\ a * c \in Int
  OBVIOUS

\* and a longer one is cut into parts that cover it and fit.
LEMMA PartsCover ==
    ASSUME NEW n \in Nat, NEW len \in Nat \ {0}, NEW cap \in Nat \ {0}
    PROVE  /\ Parts(n, len, cap) \in Seq(Pieces) /\ OfLine(Parts(n, len, cap), n, len)
           /\ \A j \in 1..Len(Parts(n, len, cap)) : Chars(Parts(n, len, cap)[j]) \in 1..cap
  <1> DEFINE K == (len + cap - 1) \div cap
             p == Parts(n, len, cap)
  <1>1. K \in Nat \ {0} /\ (K - 1) * cap < len /\ len <= K * cap
    <2>1. K \in Int /\ K * cap <= len + cap - 1 /\ len + cap - 1 < (K + 1) * cap
      OBVIOUS
    <2>2. (K + 1) * cap = K * cap + cap /\ (K - 1) * cap = K * cap - cap
      BY <2>1
    <2>3. (K - 1) * cap < len /\ len <= K * cap
      BY <2>1, <2>2
    <2>4. ~(K <= 0)
      <3>1. K <= 0 => K * cap <= 0 * cap
        BY <2>1, Times
      <3> QED
        BY <2>1, <2>3, <3>1
    <2> QED
      BY <2>1, <2>3, <2>4
  <1> HIDE DEF K
  <1>2. \A j \in 1..K : /\ j * cap \in Nat /\ (j - 1) * cap \in Nat /\ (j - 1) * cap < len
                        /\ (j * cap < len <=> j # K) /\ j * cap = (j - 1) * cap + cap
    <2> TAKE j \in 1..K
    <2>1. (j - 1) * cap <= (K - 1) * cap /\ 0 * cap <= (j - 1) * cap
      BY <1>1, Times
    <2>2. j * cap = (j - 1) * cap + cap /\ (j - 1) * cap \in Int
      OBVIOUS
    <2>3. j # K => j * cap <= (K - 1) * cap
      BY <1>1, Times
    <2> QED
      BY <1>1, <2>1, <2>2, <2>3
  <1>3. p = [j \in 1..K |-> Piece(n, (j - 1) * cap + 1, IF j * cap < len THEN j * cap ELSE len)]
    BY DEF Parts, K
  <1> HIDE DEF p
  <1>4. p \in Seq(Pieces) /\ Len(p) = K
    <2>1. ASSUME NEW j \in 1..K PROVE Piece(n, (j - 1) * cap + 1, IF j * cap < len THEN j * cap ELSE len) \in Pieces
      <3>1. j * cap \in Nat /\ (j - 1) * cap \in Nat
        BY <1>2
      <3> QED
        BY <3>1 DEF Piece, Pieces
    <2> QED
      BY <1>1, <1>3, <2>1
  <1>5. \A j \in 1..K : /\ p[j].line = n /\ p[j].from = (j - 1) * cap + 1
                        /\ p[j].to = IF j # K THEN j * cap ELSE len
    BY <1>2, <1>3 DEF Piece
  <1>6. ASSUME NEW j \in 1..K PROVE Chars(p[j]) \in 1..cap
    <2>1. /\ j * cap \in Nat /\ (j - 1) * cap \in Nat /\ (j - 1) * cap < len
          /\ (j * cap < len <=> j # K) /\ j * cap = (j - 1) * cap + cap
          /\ p[j].from = (j - 1) * cap + 1 /\ p[j].to = IF j # K THEN j * cap ELSE len
      BY <1>2, <1>5
    <2> DEFINE x == (j - 1) * cap
               y == j * cap
    <2> HIDE DEF x, y
    <2>2. /\ y \in Nat /\ x \in Nat /\ x < len /\ (y < len <=> j # K) /\ y = x + cap
          /\ p[j].from = x + 1 /\ p[j].to = IF j # K THEN y ELSE len
      BY <2>1 DEF x, y
    <2>3. CASE j # K
      BY <2>2, <2>3 DEF Chars
    <2>4. CASE j = K
      BY <2>2, <2>4 DEF Chars
    <2> QED
      BY <2>3, <2>4
  <1>7. OfLine(p, n, len)
    <2>1. p # <<>> /\ 1 \in 1..K /\ K \in 1..K
      BY <1>1, <1>4
    <2>2. p[1].from = 1
      <3>1. p[1].from = (1 - 1) * cap + 1
        BY <1>5, <2>1
      <3> QED
        BY <3>1
    <2>3. p[K].to = len
      BY <1>5, <2>1
    <2>4. ASSUME NEW k \in 1..(K - 1) PROVE p[k].to # len /\ p[k + 1].from = p[k].to + 1
      <3>1. k \in 1..K /\ k + 1 \in 1..K /\ k # K /\ k + 1 - 1 = k
        BY <1>1
      <3>2. p[k].to = k * cap /\ k * cap < len /\ k * cap \in Nat
        BY <1>2, <1>5, <3>1
      <3>3. p[k + 1].from = (k + 1 - 1) * cap + 1
        BY <1>5, <3>1
      <3> QED
        BY <3>1, <3>2, <3>3
    <2> QED
      BY <1>4, <1>5, <2>1, <2>2, <2>3, <2>4 DEF OfLine
  <1> QED
    BY <1>4, <1>6, <1>7 DEF p

-----------------------------------------------------------------------------
(* The loop of _chunk_text.                                                 *)

\* The states of the loop, after n lines.
States == [chunks : Seq(Seq(Pieces)), buf : Seq(Pieces), size : Nat, cap : Nat \ {0}]

\* The chunks keep to the limits, and none is empty.
Fits(chunks, maxLen, firstMax) ==
    \A j \in 1..Len(chunks) : LengthOf(chunks[j]) \in 1..(IF j = 1 THEN firstMax ELSE maxLen)

\* The loop invariant of _chunk_text, after n lines.
ChunkInv(st, w, n, maxLen, firstMax) ==
    /\ st \in States
    /\ Fits(st.chunks, maxLen, firstMax)
    /\ st.cap = IF st.chunks = <<>> THEN firstMax ELSE maxLen
    /\ IF st.buf = <<>> THEN st.size = 0 ELSE st.size = LengthOf(st.buf) /\ st.size \in 1..st.cap
    /\ CoverTo(FlattenSeq(st.chunks) \o st.buf, w, n)

\* The chunks once what is collected has become one.
Flushed(st) == IF st.buf = <<>> THEN st.chunks ELSE Append(st.chunks, st.buf)

\* That changes neither what they cover nor that they fit.
LEMMA FlushedFits ==
    ASSUME NEW w, NEW n, NEW maxLen \in Nat \ {0}, NEW firstMax \in 1..maxLen, NEW st,
           ChunkInv(st, w, n, maxLen, firstMax)
    PROVE  /\ Flushed(st) \in Seq(Seq(Pieces)) /\ Fits(Flushed(st), maxLen, firstMax)
           /\ FlattenSeq(Flushed(st)) = FlattenSeq(st.chunks) \o st.buf
           /\ st.chunks = <<>> /\ st.buf = <<>> => Flushed(st) = <<>>
           /\ ~(st.chunks = <<>> /\ st.buf = <<>>) => Flushed(st) # <<>>
  <1>0. st.chunks \in Seq(Seq(Pieces)) /\ st.buf \in Seq(Pieces) /\ FlattenSeq(st.chunks) \in Seq(Pieces)
    BY FlattenType DEF ChunkInv, States
  <1>1. CASE st.buf = <<>>
    <2>1. Flushed(st) = st.chunks
      BY <1>1 DEF Flushed
    <2>2. FlattenSeq(st.chunks) \o <<>> = FlattenSeq(st.chunks)
      BY <1>0, ConcatEmptySeq
    <2> QED
      BY <1>0, <1>1, <2>1, <2>2 DEF ChunkInv
  <1>2. CASE st.buf # <<>>
    <2> DEFINE c == Append(st.chunks, st.buf)
    <2>1. Flushed(st) = c
      BY <1>2 DEF Flushed
    <2>2. /\ c \in Seq(Seq(Pieces)) /\ c # <<>> /\ Len(c) = Len(st.chunks) + 1
          /\ \A i \in 1..Len(st.chunks) : c[i] = st.chunks[i]
          /\ c[Len(st.chunks) + 1] = st.buf
      <3> DEFINE x == st.chunks
                 y == st.buf
      <3>1. x \in Seq(Seq(Pieces)) /\ y \in Seq(Pieces)
        BY <1>0
      <3> HIDE DEF x, y
      <3>2. /\ Append(x, y) \in Seq(Seq(Pieces)) /\ Append(x, y) # <<>> /\ Len(Append(x, y)) = Len(x) + 1
            /\ \A i \in 1..Len(x) : Append(x, y)[i] = x[i]
            /\ Append(x, y)[Len(x) + 1] = y
        BY <3>1, AppendProperties
      <3> QED
        BY <3>2 DEF x, y
    <2>3. FlattenSeq(c) = FlattenSeq(st.chunks) \o st.buf
      BY <1>0, FlattenAppend
    <2> HIDE DEF c
    <2>4. ASSUME NEW j \in 1..Len(c) PROVE LengthOf(c[j]) \in 1..(IF j = 1 THEN firstMax ELSE maxLen)
      <3>0. Len(st.chunks) \in Nat
        BY <1>0
      <3>1. CASE j \in 1..Len(st.chunks)
        BY <2>2, <3>1 DEF ChunkInv, Fits
      <3>2. CASE j = Len(st.chunks) + 1
        <4>1. c[j] = st.buf
          BY <2>2, <3>2
        <4>2. LengthOf(st.buf) \in 1..(IF st.chunks = <<>> THEN firstMax ELSE maxLen)
          BY <1>2 DEF ChunkInv
        <4>3. st.chunks = <<>> <=> j = 1
          BY <1>0, <3>0, <3>2
        <4> QED
          BY <4>1, <4>2, <4>3
      <3> QED
        BY <2>2, <3>0, <3>1, <3>2
    <2> QED
      BY <1>2, <2>1, <2>2, <2>3, <2>4 DEF Fits
  <1> QED
    BY <1>1, <1>2

\* The three branches of the loop.
LEMMA ChunkLineIs ==
    ASSUME NEW st, NEW n, NEW len, NEW maxLen
    PROVE  ChunkLine(st, n, len, maxLen) =
               IF len > st.cap
               THEN [chunks |-> Flushed(st) \o Singles(Parts(n, len, st.cap)),
                     buf |-> <<>>, size |-> 0, cap |-> maxLen]
               ELSE IF st.size + len + (IF st.buf = <<>> THEN 0 ELSE 1) > st.cap
               THEN [chunks |-> Flushed(st), buf |-> <<Piece(n, 1, len)>>, size |-> len, cap |-> maxLen]
               ELSE [chunks |-> st.chunks, buf |-> Append(st.buf, Piece(n, 1, len)),
                     size |-> st.size + len + (IF st.buf = <<>> THEN 0 ELSE 1), cap |-> st.cap]
  BY DEF ChunkLine, Flushed, Singles

\* One more line keeps the loop invariant.
LEMMA ChunkLineInv ==
    ASSUME NEW w, NEW n \in Nat \ {0}, w[n] \in Nat \ {0},
           NEW maxLen \in Nat \ {0}, NEW firstMax \in 1..maxLen, NEW st,
           ChunkInv(st, w, n - 1, maxLen, firstMax)
    PROVE  ChunkInv(ChunkLine(st, n, w[n], maxLen), w, n, maxLen, firstMax)
  <1> DEFINE len == w[n]
             f == Flushed(st)
             extra == IF st.buf = <<>> THEN 0 ELSE 1
             q == Piece(n, 1, len)
             next == ChunkLine(st, n, len, maxLen)
  <1>0. /\ st.chunks \in Seq(Seq(Pieces)) /\ st.buf \in Seq(Pieces) /\ FlattenSeq(st.chunks) \in Seq(Pieces)
        /\ st.size \in Nat /\ st.cap \in Nat \ {0} /\ len \in Nat \ {0}
        /\ st = [chunks |-> st.chunks, buf |-> st.buf, size |-> st.size, cap |-> st.cap]
    BY FlattenType DEF ChunkInv, States
  <1>a. /\ f \in Seq(Seq(Pieces)) /\ Fits(f, maxLen, firstMax)
        /\ FlattenSeq(f) = FlattenSeq(st.chunks) \o st.buf
        /\ st.chunks = <<>> /\ st.buf = <<>> => f = <<>>
        /\ ~(st.chunks = <<>> /\ st.buf = <<>>) => f # <<>>
    BY FlushedFits
  <1>b. FlattenSeq(f) \in Seq(Pieces) /\ CoverTo(FlattenSeq(f), w, n - 1)
    BY <1>0, <1>a DEF ChunkInv
  <1>c. q \in Pieces /\ <<q>> \in Seq(Pieces) /\ OfLine(<<q>>, n, len) /\ Chars(q) = len
    <2> HIDE DEF len
    <2>1. n \in Nat /\ len \in Nat
      BY <1>0
    <2>2. OfLine(<<q>>, n, len) /\ q \in Pieces /\ Chars(q) = len
      BY <2>1, OneWhole
    <2> QED
      BY <2>2
  <1>d. st.cap <= maxLen /\ (f = <<>> => st.cap = firstMax) /\ st.cap = IF st.chunks = <<>> THEN firstMax ELSE maxLen
    BY <1>a DEF ChunkInv
  <1>e. next = IF len > st.cap
               THEN [chunks |-> f \o Singles(Parts(n, len, st.cap)), buf |-> <<>>, size |-> 0, cap |-> maxLen]
               ELSE IF st.size + len + extra > st.cap
               THEN [chunks |-> f, buf |-> <<q>>, size |-> len, cap |-> maxLen]
               ELSE [chunks |-> st.chunks, buf |-> Append(st.buf, q), size |-> st.size + len + extra, cap |-> st.cap]
    BY ChunkLineIs
  <1> HIDE DEF len, f, q, next
  <1>1. CASE len > st.cap
    <2> DEFINE p == Parts(n, len, st.cap)
               c == f \o Singles(p)
    <2>1. /\ p \in Seq(Pieces) /\ OfLine(p, n, len)
          /\ \A j \in 1..Len(p) : Chars(p[j]) \in 1..st.cap
      BY <1>0, PartsCover
    <2> HIDE DEF p
    <2>2. /\ c \in Seq(Seq(Pieces)) /\ Len(c) = Len(f) + Len(p)
          /\ \A i \in 1..Len(p) : c[Len(f) + i] = <<p[i]>>
          /\ \A i \in 1..Len(f) : c[i] = f[i]
          /\ FlattenSeq(c) = FlattenSeq(f) \o p
      <3>1. f \in Seq(Seq(Pieces))
        BY <1>a
      <3> QED
        BY <2>1, <3>1, FlattenSingles DEF Extends
    <2> HIDE DEF c
    <2>3. next = [chunks |-> c, buf |-> <<>>, size |-> 0, cap |-> maxLen]
      BY <1>1, <1>e DEF c, p
    <2>4. Fits(c, maxLen, firstMax)
      <3> SUFFICES ASSUME NEW j \in 1..Len(c) PROVE LengthOf(c[j]) \in 1..(IF j = 1 THEN firstMax ELSE maxLen)
        BY DEF Fits
      <3>0. Len(f) \in Nat /\ Len(p) \in Nat
        BY <1>a, <2>1
      <3>1. CASE j \in 1..Len(f)
        BY <1>a, <2>2, <3>1 DEF Fits
      <3>2. CASE j \notin 1..Len(f)
        <4>1. PICK i \in 1..Len(p) : j = Len(f) + i
          <5>1. j - Len(f) \in 1..Len(p) /\ j = Len(f) + (j - Len(f))
            BY <2>2, <3>0, <3>2, SMTT(30)
          <5> QED
            BY <5>1
        <4>2. c[j] = <<p[i]>> /\ p[i] \in Pieces
          <5>1. c[Len(f) + i] = <<p[i]>>
            BY <2>2
          <5> QED
            BY <2>1, <4>1, <5>1
        <4>3. LengthOf(c[j]) \in 1..st.cap
          BY <2>1, <4>2, LengthOfOne
        <4>4. j = 1 => st.cap = firstMax
          <5>1. j = 1 => Len(f) = 0
            BY <3>0, <4>1
          <5>2. Len(f) = 0 => f = <<>>
            BY <1>a
          <5> QED
            BY <1>d, <5>1, <5>2
        <4> QED
          BY <1>0, <1>d, <4>3, <4>4
      <3> QED
        BY <3>1, <3>2
    <2>5. c # <<>>
      <3>1. Len(p) \in Nat \ {0} /\ Len(f) \in Nat
        BY <1>a, <2>1 DEF OfLine
      <3>2. Len(c) # 0
        BY <2>2, <3>1
      <3> QED
        BY <3>2
    <2>6. CoverTo(FlattenSeq(c) \o <<>>, w, n)
      <3>1. CoverTo(FlattenSeq(f) \o p, w, n)
        BY <1>b, <2>1, CoverMore DEF len
      <3>2. FlattenSeq(c) \o <<>> = FlattenSeq(c)
        BY <2>2, FlattenType, ConcatEmptySeq
      <3> QED
        BY <2>2, <3>1, <3>2
    <2>7. next \in States
      BY <2>2, <2>3 DEF States
    <2>8. next.chunks = c /\ next.buf = <<>> /\ next.size = 0 /\ next.cap = maxLen
      BY <2>3
    <2> QED
      BY <2>4, <2>5, <2>6, <2>7, <2>8 DEF ChunkInv, next, len
  <1>2. CASE ~(len > st.cap) /\ st.size + len + extra > st.cap
    <2>1. next = [chunks |-> f, buf |-> <<q>>, size |-> len, cap |-> maxLen]
      BY <1>2, <1>e
    <2>2. f # <<>>
      BY <1>0, <1>2, <1>a DEF ChunkInv
    <2>3. next.chunks = f /\ next.buf = <<q>> /\ next.size = len /\ next.cap = maxLen /\ <<q>> # <<>>
      BY <2>1
    <2>4. next \in States
      BY <1>0, <1>a, <1>c, <2>1 DEF States
    <2>5. LengthOf(<<q>>) = len /\ len \in 1..maxLen
      BY <1>0, <1>2, <1>c, <1>d, LengthOfOne
    <2>6. CoverTo(FlattenSeq(f) \o <<q>>, w, n)
      BY <1>b, <1>c, CoverMore DEF len
    <2> QED
      BY <1>a, <2>2, <2>3, <2>4, <2>5, <2>6 DEF ChunkInv, next, len
  <1>3. CASE ~(len > st.cap) /\ ~(st.size + len + extra > st.cap)
    <2> DEFINE b == Append(st.buf, q)
    <2>1. b \in Seq(Pieces) /\ b # <<>> /\ b = st.buf \o <<q>>
      BY <1>0, <1>c, AppendProperties, AppendIsConcat
    <2>2. LengthOf(b) = st.size + len + extra
      <3>1. CASE st.buf = <<>>
        <4>1. b = <<q>> /\ st.size = 0 /\ extra = 0
          BY <3>1 DEF ChunkInv
        <4>2. LengthOf(<<q>>) = len
          BY <1>c, LengthOfOne
        <4> QED
          BY <1>0, <4>1, <4>2
      <3>2. CASE st.buf # <<>>
        <4>1. LengthOf(b) = LengthOf(st.buf) + Chars(q) + 1
          BY <1>0, <1>c, LengthOfAppend
        <4>2. st.size = LengthOf(st.buf) /\ extra = 1
          BY <3>2 DEF ChunkInv
        <4> QED
          BY <1>0, <1>c, <4>1, <4>2
      <3> QED
        BY <3>1, <3>2
    <2> HIDE DEF b
    <2>3. next = [chunks |-> st.chunks, buf |-> b, size |-> st.size + len + extra, cap |-> st.cap]
      BY <1>3, <1>e DEF b
    <2>4. /\ next.chunks = st.chunks /\ next.buf = b /\ next.size = st.size + len + extra /\ next.cap = st.cap
          /\ next.size \in 1..st.cap
      BY <1>0, <1>3, <2>3
    <2>5. next \in States
      BY <1>0, <2>1, <2>3, SMTT(30) DEF States
    <2>6. CoverTo(FlattenSeq(st.chunks) \o b, w, n)
      <3>1. CoverTo(FlattenSeq(f) \o <<q>>, w, n)
        BY <1>b, <1>c, CoverMore DEF len
      <3>2. \A x, y, z \in Seq(Pieces) : (x \o y) \o z = x \o (y \o z)
        <4> TAKE x, y, z \in Seq(Pieces)
        <4> QED
          BY ConcatAssociative, SMTT(30)
      <3>3. FlattenSeq(f) \o <<q>> = FlattenSeq(st.chunks) \o b
        <4>1. (FlattenSeq(st.chunks) \o st.buf) \o <<q>> = FlattenSeq(st.chunks) \o (st.buf \o <<q>>)
          BY <1>0, <1>c, <3>2, Zenon
        <4> QED
          BY <1>a, <2>1, <4>1
      <3> QED
        BY <3>1, <3>3
    <2> QED
      BY <2>1, <2>2, <2>4, <2>5, <2>6 DEF ChunkInv, next, len
  <1> QED
    BY <1>1, <1>2, <1>3

\* Whatever state of the loop a line is handled in, the next one is a state too.
LEMMA ChunkLineType ==
    ASSUME NEW st \in States, NEW n \in Nat, NEW len \in Nat \ {0}, NEW maxLen \in Nat \ {0}
    PROVE  ChunkLine(st, n, len, maxLen) \in States
  <1> DEFINE f == Flushed(st)
             extra == IF st.buf = <<>> THEN 0 ELSE 1
             q == Piece(n, 1, len)
  <1>0. /\ st.chunks \in Seq(Seq(Pieces)) /\ st.buf \in Seq(Pieces)
        /\ st.size \in Nat /\ st.cap \in Nat \ {0}
        /\ st = [chunks |-> st.chunks, buf |-> st.buf, size |-> st.size, cap |-> st.cap]
    BY DEF States
  <1>1. f \in Seq(Seq(Pieces))
    BY <1>0 DEF Flushed
  <1>2. q \in Pieces /\ <<q>> \in Seq(Pieces)
    <2>1. q \in Pieces
      BY OneWhole
    <2> QED
      BY <2>1
  <1>3. f \o Singles(Parts(n, len, st.cap)) \in Seq(Seq(Pieces))
    <2>1. Parts(n, len, st.cap) \in Seq(Pieces)
      BY <1>0, PartsCover
    <2>2. \A x \in Seq(Seq(Pieces)), y \in Seq(Pieces) : x \o Singles(y) \in Seq(Seq(Pieces))
      BY FlattenSingles DEF Extends
    <2> QED
      BY <1>1, <2>1, <2>2
  <1>4. ChunkLine(st, n, len, maxLen) =
               IF len > st.cap
               THEN [chunks |-> f \o Singles(Parts(n, len, st.cap)), buf |-> <<>>, size |-> 0, cap |-> maxLen]
               ELSE IF st.size + len + extra > st.cap
               THEN [chunks |-> f, buf |-> <<q>>, size |-> len, cap |-> maxLen]
               ELSE [chunks |-> st.chunks, buf |-> Append(st.buf, q), size |-> st.size + len + extra, cap |-> st.cap]
    BY ChunkLineIs
  <1> HIDE DEF f, q
  <1>5. Append(st.buf, q) \in Seq(Pieces) /\ st.size + len + extra \in Nat /\ <<>> \in Seq(Pieces)
    BY <1>0, <1>2
  <1> QED
    BY <1>0, <1>1, <1>2, <1>3, <1>4, <1>5 DEF States

\* Whatever the text and the limits are, _chunk_text makes messages that are
\* within them, none of them empty, and that hold the text from its first
\* character to its last: nothing is lost or repeated where it is cut.
THEOREM ChunksCorrect ==
    ASSUME NEW w \in Seq(Nat \ {0}), NEW maxLen \in Nat \ {0}, NEW firstMax \in 1..maxLen
    PROVE  LET chunks == ChunkText(w, maxLen, firstMax)
           IN /\ chunks \in Seq(Seq(Pieces)) /\ Fits(chunks, maxLen, firstMax)
              /\ Cover(FlattenSeq(chunks), w)
  <1> DEFINE N == Len(w)
             start == [chunks |-> <<>>, buf |-> <<>>, size |-> 0, cap |-> firstMax]
             step == [i \in 1..N |-> [st \in States |-> ChunkLine(st, i, w[i], maxLen)]]
             Def(h) == h = [i \in 0..N |-> IF i = 0 THEN start ELSE ChunkLine(h[i - 1], i, w[i], maxLen)]
             g == CHOOSE h : Def(h)
             end == g[N]
  <1>0. N \in Nat /\ \A i \in 1..N : w[i] \in Nat \ {0}
    OBVIOUS
  <1>a. ChunkText(w, maxLen, firstMax) = IF end.buf = <<>> THEN end.chunks ELSE Append(end.chunks, end.buf)
    BY DEF ChunkText
  <1> HIDE DEF N
  <1>b. start \in States
    BY DEF States
  <1>1. PICK f : Iterates(f, N, States, start, step)
    <2>1. step \in [1..N -> [States -> States]]
      <3>1. ASSUME NEW i \in 1..N, NEW st \in States PROVE ChunkLine(st, i, w[i], maxLen) \in States
        <4>1. i \in Nat /\ w[i] \in Nat \ {0}
          BY <1>0
        <4> QED
          BY <4>1, ChunkLineType
      <3> QED
        BY <3>1
    <2> HIDE DEF step, start
    <2> QED
      BY <1>0, <1>b, <2>1, IteratesExist
  <1>2. Def(f)
    <2>1. \A i \in 1..N : f[i] = ChunkLine(f[i - 1], i, w[i], maxLen)
      <3> TAKE i \in 1..N
      <3>1. f[i - 1] \in States /\ f[i] = step[i][f[i - 1]]
        BY <1>0, <1>1, SMTT(30) DEF Iterates
      <3> QED
        BY <3>1
    <2> HIDE DEF start
    <2> QED
      BY <1>0, <1>1, <2>1 DEF Iterates
  <1>3. Def(g)
    <2> HIDE DEF Def
    <2> QED
      BY <1>2
  <1>4. g[0] = start /\ \A i \in 1..N : g[i] = ChunkLine(g[i - 1], i, w[i], maxLen)
    <2> HIDE DEF g, start
    <2> QED
      BY <1>0, <1>3
  <1> HIDE DEF g
  <1> DEFINE P(i) == ChunkInv(g[i], w, i, maxLen, firstMax)
             T == {i \in 0..N : P(i)}
  <1>5. 0 \in T
    <2>1. Fits(<<>>, maxLen, firstMax)
      BY DEF Fits
    <2>2. CoverTo(FlattenSeq(<<>>) \o <<>>, w, 0)
      <3>1. FlattenSeq(<<>>) = <<>>
        BY DEF FlattenSeq
      <3>2. <<>> \o <<>> = <<>>
        OBVIOUS
      <3>3. CoverTo(<<>>, w, 0)
        BY DEF CoverTo
      <3> QED
        BY <3>1, <3>2, <3>3
    <2>3. start.chunks = <<>> /\ start.buf = <<>> /\ start.size = 0 /\ start.cap = firstMax
      OBVIOUS
    <2>4. P(0)
      <3> HIDE DEF start
      <3> QED
        BY <1>b, <1>4, <2>1, <2>2, <2>3 DEF ChunkInv
    <2> QED
      BY <1>0, <2>4
  <1>6. ASSUME NEW n \in 1..N, n - 1 \in T PROVE n \in T
    <2>1. n \in 0..N /\ n \in Nat \ {0} /\ w[n] \in Nat \ {0}
      BY <1>0
    <2>2. ChunkInv(g[n - 1], w, n - 1, maxLen, firstMax)
      BY <1>6
    <2>3. P(n)
      BY <1>4, <2>1, <2>2, ChunkLineInv
    <2> HIDE DEF P
    <2> QED
      BY <2>1, <2>3
  <1>7. ChunkInv(end, w, N, maxLen, firstMax)
    <2>1. \A i \in 0..N : i \in T
      <3> HIDE DEF T
      <3> QED
        BY <1>0, <1>5, <1>6, UpTo
    <2> QED
      BY <1>0, <2>1
  <1> HIDE DEF end
  <1>8. ChunkText(w, maxLen, firstMax) = Flushed(end)
    BY <1>a DEF Flushed
  <1>9. /\ Flushed(end) \in Seq(Seq(Pieces)) /\ Fits(Flushed(end), maxLen, firstMax)
        /\ FlattenSeq(Flushed(end)) = FlattenSeq(end.chunks) \o end.buf
    BY <1>7, FlushedFits
  <1>10. CoverTo(FlattenSeq(Flushed(end)), w, N)
    BY <1>7, <1>9 DEF ChunkInv
  <1>11. \A ps : CoverTo(ps, w, N) => Cover(ps, w)
    BY DEF CoverTo, Cover, Follows, N
  <1> QED
    BY <1>8, <1>9, <1>10, <1>11

-----------------------------------------------------------------------------
(* Induction over the forest of the inviters.                               *)

\* A forest of finitely many members.
Forest == IsFiniteSet(Members) /\ InviterForest

\* Among any of them somebody has invited none of them: otherwise the smallest
\* group without such a one would lose its root and still have none.
LEMMA SomeoneWithoutFriends ==
    ASSUME Forest, NEW S \in SUBSET Members, S # {}
    PROVE  \E p \in S : \A u \in S : users[u].by # p
  <1> DEFINE B == {U \in SUBSET S : U # {} /\ \A p \in U : \E u \in U : users[u].by = p}
             C == {Cardinality(U) : U \in B}
  <1> SUFFICES ASSUME S \in B PROVE FALSE
    OBVIOUS
  <1>1. \A U \in B : IsFiniteSet(U) /\ Cardinality(U) \in Nat
    <2> TAKE U \in B
    <2>1. U \in SUBSET Members
      OBVIOUS
    <2>2. IsFiniteSet(U)
      BY <2>1, FS_Subset DEF Forest
    <2> QED
      BY <2>2, FS_CardinalityType
  <1>2. C \in SUBSET Nat /\ C # {}
    BY <1>1
  <1>3. PICK n \in C : \A m \in C : n <= m
    <2> HIDE DEF C
    <2> QED
      BY <1>2, NatLeast
  <1>4. PICK U \in B : n = Cardinality(U)
    BY <1>3
  <1>5. PICK r \in U : users[r].by \notin U
    <2>1. U \in (SUBSET Members) \ {{}}
      OBVIOUS
    <2> QED
      BY <2>1 DEF Forest, InviterForest
  <1>6. U \ {r} \in B
    <2>1. ASSUME NEW p \in U PROVE \E u \in U \ {r} : users[u].by = p
      <3>1. PICK u \in U : users[u].by = p
        OBVIOUS
      <3>2. u # r
        BY <1>5, <3>1
      <3> QED
        BY <3>1, <3>2
    <2> QED
      BY <1>5, <2>1
  <1>7. Cardinality(U \ {r}) = n - 1 /\ n \in Nat
    BY <1>1, <1>4, <1>5, FS_RemoveElement
  <1>8. n <= n - 1
    BY <1>3, <1>6, <1>7
  <1> QED
    BY <1>7, <1>8

\* Induction over the forest, from those who have invited nobody.
LEMMA FromFriendsUp ==
    ASSUME Forest, NEW T, \A p \in Members : (\A u \in Members : users[u].by = p => u \in T) => p \in T
    PROVE  \A p \in Members : p \in T
  <1> SUFFICES ASSUME Members \ T # {} PROVE FALSE
    OBVIOUS
  <1>1. PICK p \in Members \ T : \A u \in Members \ T : users[u].by # p
    <2>1. Members \ T \in SUBSET Members
      OBVIOUS
    <2> QED
      BY <2>1, SomeoneWithoutFriends
  <1> QED
    BY <1>1

\* The members can be put in one after another, each after those it has invited.
LEMMA GrowToMembers ==
    ASSUME Forest, NEW B, {} \in B,
           \A D \in SUBSET Members, p \in Members :
               D \in B /\ p \notin D /\ (\A u \in Members : users[u].by = p => u \in D) => D \cup {p} \in B
    PROVE  Members \in B
  <1> DEFINE R == {U \in SUBSET Members : Members \ U \in B}
             C == {Cardinality(U) : U \in R}
  <1>1. \A U \in R : IsFiniteSet(U) /\ Cardinality(U) \in Nat
    BY FS_Subset, FS_CardinalityType DEF Forest
  <1>2. C \in SUBSET Nat /\ C # {}
    <2>1. Members \in R
      <3>1. Members \ Members = {}
        OBVIOUS
      <3> QED
        BY <3>1
    <2> QED
      BY <1>1, <2>1
  <1>3. PICK n \in C : \A m \in C : n <= m
    <2> HIDE DEF C
    <2> QED
      BY <1>2, NatLeast
  <1>4. PICK U \in R : n = Cardinality(U)
    BY <1>3
  <1>5. ASSUME U # {} PROVE FALSE
    <2>1. PICK p \in U : \A u \in U : users[u].by # p
      BY <1>5, SomeoneWithoutFriends
    <2>2. (Members \ U) \cup {p} \in B
      <3>1. Members \ U \in SUBSET Members /\ p \in Members /\ p \notin Members \ U /\ Members \ U \in B
        OBVIOUS
      <3>2. \A u \in Members : users[u].by = p => u \in Members \ U
        BY <2>1
      <3> QED
        BY <3>1, <3>2
    <2>3. U \ {p} \in R
      <3>1. Members \ (U \ {p}) = (Members \ U) \cup {p}
        OBVIOUS
      <3> QED
        BY <2>2, <3>1
    <2>4. Cardinality(U \ {p}) = n - 1 /\ n \in Nat
      BY <1>1, <1>4, <2>1, FS_RemoveElement
    <2>5. n <= n - 1
      BY <1>3, <2>3, <2>4
    <2> QED
      BY <2>4, <2>5
  <1>6. U = {}
    BY <1>5
  <1> QED
    BY <1>6

-----------------------------------------------------------------------------
(* Trees.                                                                   *)

\* The tree of a user goes down from the user.
LEMMA TreeOf ==
    ASSUME Forest, NEW p \in Members
    PROVE  /\ p \in Tree(p) /\ Tree(p) \subseteq Members
           /\ \A u \in Members : users[u].by \in Tree(p) => u \in Tree(p)
           /\ \A u \in Tree(p) : u # p => users[u].by \in Tree(p)
  <1>1. p \in Tree(p) /\ Tree(p) \subseteq Members
    BY DEF Tree
  <1>2. ASSUME NEW u \in Members, users[u].by \in Tree(p) PROVE u \in Tree(p)
    BY <1>2 DEF Tree
  <1>3. ASSUME NEW u \in Tree(p), u # p, users[u].by \notin Tree(p) PROVE FALSE
    <2> DEFINE S == Tree(p) \ {u}
    <2>1. p \in S /\ S \in SUBSET Members
      BY <1>1, <1>3
    <2>2. \A q \in Members : users[q].by \in S => q \in S
      BY <1>2, <1>3
    <2>3. u \in S
      BY <2>1, <2>2 DEF Tree
    <2> QED
      BY <2>3
  <1> QED
    BY <1>1, <1>2, <1>3

\* The tree of a user is the user and the trees of those it has invited.
LEMMA TreeOfFriends ==
    ASSUME Forest, NEW p \in Members, NEW u
    PROVE  u \in Tree(p) <=> u = p \/ \E c \in Members : users[c].by = p /\ u \in Tree(c)
  <1> DEFINE S == {p} \cup {v \in Members : \E c \in Members : users[c].by = p /\ v \in Tree(c)}
  <1>1. p \in S /\ S \in SUBSET Members
    OBVIOUS
  <1>2. ASSUME NEW q \in Members, users[q].by \in S PROVE q \in S
    <2>1. CASE users[q].by = p
      BY <2>1, TreeOf
    <2>2. CASE users[q].by # p
      <3>1. PICK c \in Members : users[c].by = p /\ users[q].by \in Tree(c)
        BY <1>2, <2>2
      <3>2. q \in Tree(c)
        BY <3>1, TreeOf
      <3> QED
        BY <3>1, <3>2
    <2> QED
      BY <2>1, <2>2
  <1>3. ASSUME u \in Tree(p) PROVE u \in S
    BY <1>1, <1>2, <1>3 DEF Tree
  <1>4. ASSUME NEW c \in Members, users[c].by = p, u \in Tree(c) PROVE u \in Tree(p)
    <2>1. Tree(p) \in SUBSET Members /\ c \in Tree(p) /\ \A q \in Members : users[q].by \in Tree(p) => q \in Tree(p)
      BY <1>4, TreeOf
    <2> QED
      BY <1>4, <2>1 DEF Tree
  <1> QED
    BY <1>3, <1>4, TreeOf

\* Nobody is below two siblings.
LEMMA TreesApart ==
    ASSUME Forest, NEW c \in Members, NEW d \in Members, c # d, users[c].by = users[d].by,
           None \notin Members
    PROVE  Tree(c) \cap Tree(d) = {}
  <1>1. ASSUME NEW x \in Members PROVE users[x].by \notin Tree(x)
    <2>1. PICK u \in Tree(x) : users[u].by \notin Tree(x)
      <3>1. Tree(x) \in (SUBSET Members) \ {{}}
        BY TreeOf
      <3> QED
        BY <3>1 DEF Forest, InviterForest
    <2>2. u = x
      BY <2>1, TreeOf
    <2> QED
      BY <2>1, <2>2
  <1> DEFINE S == Tree(c) \cap Tree(d)
  <1> SUFFICES ASSUME S # {} PROVE FALSE
    OBVIOUS
  <1>2. PICK u \in S : users[u].by \notin S
    <2>1. S \in (SUBSET Members) \ {{}}
      BY TreeOf
    <2> QED
      BY <2>1 DEF Forest, InviterForest
  <1>3. CASE u = c
    BY <1>1, <1>2, <1>3, TreeOf
  <1>4. CASE u = d
    BY <1>1, <1>2, <1>4, TreeOf
  <1>5. CASE u # c /\ u # d
    BY <1>2, <1>5, TreeOf
  <1> QED
    BY <1>3, <1>4, <1>5

-----------------------------------------------------------------------------
(* The walk.                                                                *)

\* What the walk makes.
Lines == [user : People, depth : Nat]

\* What the walk of a user is, of those of the users it has invited.
WalkOf(w, p) ==
    [depth \in Nat |->
        <<[user |-> p, depth |-> depth]>> \o
            FlattenSeq([i \in DOMAIN Invited(p) |-> w[Invited(p)[i]][depth + 1]])]

\* The users that somebody has invited, each once.
LEMMA InvitedSeq ==
    ASSUME Forest, NEW p
    PROVE  /\ Invited(p) \in Seq(Members) /\ DOMAIN Invited(p) = 1..Len(Invited(p))
           /\ Len(Invited(p)) \in Nat
           /\ \A i \in 1..Len(Invited(p)) : Invited(p)[i] \in Members /\ users[Invited(p)[i]].by = p
           /\ \A u \in Members : users[u].by = p => \E i \in 1..Len(Invited(p)) : Invited(p)[i] = u
           /\ \A i, j \in 1..Len(Invited(p)) : Invited(p)[i] = Invited(p)[j] => i = j
  <1> DEFINE S == {u \in Members : users[u].by = p}
  <1>1. IsFiniteSet(S)
    BY FS_Subset DEF Forest
  <1>2. Invited(p) = SetToSeq(S)
    BY DEF Invited
  <1> HIDE DEF S
  <1>3. /\ Invited(p) \in Seq(S)
        /\ DOMAIN Invited(p) = 1..Len(Invited(p))
        /\ \A x \in S : \E i \in 1..Len(Invited(p)) : Invited(p)[i] = x
        /\ \A i, j \in 1..Len(Invited(p)) : Invited(p)[i] = Invited(p)[j] => i = j
    BY <1>1, <1>2, SetToSeqOf
  <1>4. Invited(p) \in Seq(Members) /\ \A i \in 1..Len(Invited(p)) : Invited(p)[i] \in S
    <2>1. S \subseteq Members
      BY DEF S
    <2> QED
      BY <1>3, <2>1
  <1> QED
    BY <1>3, <1>4 DEF S

\* w is the walk of the users of D, whose friends are all in D.
Handled(w, D) ==
    /\ w \in [D -> [Nat -> Seq(Lines)]]
    /\ \A p \in D : w[p] = WalkOf(w, p)
    /\ \A p \in D : \A u \in Members : users[u].by = p => u \in D

\* One more level keeps the type of a walk,
LEMMA WalkOfType ==
    ASSUME Forest, Members \subseteq People, NEW D \in SUBSET Members, NEW p \in Members, NEW w \in [D -> [Nat -> Seq(Lines)]],
           \A u \in Members : users[u].by = p => u \in D
    PROVE  WalkOf(w, p) \in [Nat -> Seq(Lines)]
  <1> SUFFICES ASSUME NEW depth \in Nat
               PROVE  <<[user |-> p, depth |-> depth]>> \o
                        FlattenSeq([i \in DOMAIN Invited(p) |-> w[Invited(p)[i]][depth + 1]]) \in Seq(Lines)
    BY DEF WalkOf
  <1> DEFINE ss == [i \in DOMAIN Invited(p) |-> w[Invited(p)[i]][depth + 1]]
             n == Len(Invited(p))
  <1>1. n \in Nat /\ DOMAIN Invited(p) = 1..n /\ \A i \in 1..n : Invited(p)[i] \in D
    BY InvitedSeq
  <1> HIDE DEF n
  <1>2. \A i \in 1..n : w[Invited(p)[i]][depth + 1] \in Seq(Lines)
    BY <1>1
  <1>3. ss \in Seq(Seq(Lines))
    BY <1>1, <1>2
  <1> HIDE DEF ss
  <1>4. FlattenSeq(ss) \in Seq(Lines)
    BY <1>3, FlattenType
  <1>5. <<[user |-> p, depth |-> depth]>> \in Seq(Lines)
    <2>1. [user |-> p, depth |-> depth] \in Lines
      BY DEF Lines
    <2> QED
      BY <2>1
  <1>6. <<[user |-> p, depth |-> depth]>> \o FlattenSeq(ss) \in Seq(Lines)
    BY <1>4, <1>5
  <1> QED
    BY <1>6 DEF ss

\* and the walk of a user depends on those of the friends alone.
LEMMA SameWalkOf ==
    ASSUME Forest, NEW v, NEW w, NEW p, \A u \in Members : users[u].by = p => v[u] = w[u]
    PROVE  WalkOf(v, p) = WalkOf(w, p)
  <1>1. \A i \in DOMAIN Invited(p) : v[Invited(p)[i]] = w[Invited(p)[i]]
    BY InvitedSeq
  <1>2. \A depth \in Nat : [i \in DOMAIN Invited(p) |-> v[Invited(p)[i]][depth + 1]]
                             = [i \in DOMAIN Invited(p) |-> w[Invited(p)[i]][depth + 1]]
    BY <1>1
  <1> QED
    BY <1>2 DEF WalkOf

\* In a forest the recursion of _walk ends: the walk is what its definition says.
\* Adding the users one after another, each after the friends, builds it.
LEMMA WalkExists ==
    ASSUME Forest, Members \subseteq People
    PROVE  Walk \in [Members -> [Nat -> Seq(Lines)]] /\ \A p \in Members : Walk[p] = WalkOf(Walk, p)
  <1> DEFINE B == {D \in SUBSET Members : \E w : Handled(w, D)}
  <1>1. {} \in B
    <2>1. Handled([p \in {} |-> <<>>], {})
      BY DEF Handled
    <2> QED
      BY <2>1
  <1>2. ASSUME NEW D \in SUBSET Members, NEW p \in Members,
               D \in B, p \notin D, \A u \in Members : users[u].by = p => u \in D
        PROVE  D \cup {p} \in B
    <2>1. PICK w : Handled(w, D)
      BY <1>2
    <2> DEFINE v == [q \in D \cup {p} |-> IF q = p THEN WalkOf(w, p) ELSE w[q]]
    <2>2. WalkOf(w, p) \in [Nat -> Seq(Lines)]
      BY <1>2, <2>1, WalkOfType DEF Handled
    <2>3. v \in [D \cup {p} -> [Nat -> Seq(Lines)]]
      BY <2>1, <2>2 DEF Handled
    <2>4. /\ \A q \in D : v[q] = w[q]
          /\ v[p] = WalkOf(w, p)
      BY <1>2
    <2> HIDE DEF v
    <2>5. ASSUME NEW q \in D \cup {p} PROVE v[q] = WalkOf(v, q)
      <3>1. \A u \in Members : users[u].by = q => u \in D
        BY <1>2, <2>1 DEF Handled
      <3>2. \A u \in Members : users[u].by = q => v[u] = w[u]
        BY <2>4, <3>1
      <3>3. WalkOf(v, q) = WalkOf(w, q)
        BY <3>2, SameWalkOf
      <3>4. v[q] = WalkOf(w, q)
        BY <2>1, <2>4 DEF Handled
      <3> QED
        BY <3>3, <3>4
    <2>6. \A q \in D \cup {p} : \A u \in Members : users[u].by = q => u \in D \cup {p}
      BY <1>2, <2>1 DEF Handled
    <2>7. Handled(v, D \cup {p})
      BY <2>3, <2>5, <2>6 DEF Handled
    <2> QED
      BY <2>7
  <1>3. Members \in B
    <2> HIDE DEF B
    <2> QED
      BY <1>1, <1>2, GrowToMembers
  <1>4. PICK w : Handled(w, Members)
    BY <1>3
  <1> DEFINE Def(h) == h = [p \in Members |-> WalkOf(h, p)]
  <1>5. Def(w)
    BY <1>4 DEF Handled
  <1>6. Walk = CHOOSE h : Def(h)
    BY DEF Walk, WalkOf
  <1>7. Def(Walk)
    <2> HIDE DEF Def
    <2> QED
      BY <1>5, <1>6
  <1>8. \A p \in Members : Walk[p] = WalkOf(Walk, p)
    <2> DEFINE F == [p \in Members |-> WalkOf(Walk, p)]
    <2>1. Walk = F
      BY <1>7
    <2>2. \A p \in Members : F[p] = WalkOf(Walk, p)
      OBVIOUS
    <2> HIDE DEF F
    <2> QED
      BY <2>1, <2>2
  <1>9. \A p \in Members : p \in {q \in Members : Walk[q] = w[q]}
    <2> DEFINE T == {q \in Members : Walk[q] = w[q]}
    <2>1. ASSUME NEW p \in Members, \A u \in Members : users[u].by = p => u \in T PROVE p \in T
      <3>1. WalkOf(Walk, p) = WalkOf(w, p)
        BY <2>1, SameWalkOf
      <3> QED
        BY <1>4, <1>8, <3>1 DEF Handled
    <2> HIDE DEF T
    <2>2. \A p \in Members : p \in T
      BY <2>1, FromFriendsUp
    <2> QED
      BY <2>2 DEF T
  <1>10. DOMAIN Walk = Members
    BY <1>7
  <1> QED
    BY <1>4, <1>7, <1>8, <1>9 DEF Handled

-----------------------------------------------------------------------------
(* The walk lists the tree.                                                 *)

\* The lines are those of the users of U, each once.
ListsOnce(s, U) ==
    /\ s \in Seq(Lines) /\ OnceEach(s)
    /\ \A u : u \in U <=> \E x : Occurs(x, s) /\ x.user = u

\* The users below p.
FriendsTrees(p) == {u \in Members : \E c \in Members : users[c].by = p /\ u \in Tree(c)}

\* If the walk of each friend of p lists the tree of the friend, the walks one
\* after another list the users below p.
LEMMA WalksOfFriends ==
    ASSUME Forest, Members \subseteq People, None \notin Members, NEW p, NEW depth \in Nat,
           \A c \in Members : users[c].by = p => ListsOnce(Walk[c][depth], Tree(c))
    PROVE  ListsOnce(FlattenSeq([i \in DOMAIN Invited(p) |-> Walk[Invited(p)[i]][depth]]), FriendsTrees(p))
  <1> DEFINE n == Len(Invited(p))
             c(i) == Invited(p)[i]
             ss == [i \in DOMAIN Invited(p) |-> Walk[Invited(p)[i]][depth]]
  <1>1. /\ n \in Nat /\ DOMAIN Invited(p) = 1..n
        /\ \A i \in 1..n : c(i) \in Members /\ users[c(i)].by = p
        /\ \A u \in Members : users[u].by = p => \E i \in 1..n : c(i) = u
        /\ \A i, j \in 1..n : c(i) = c(j) => i = j
    BY InvitedSeq
  <1>2. DOMAIN ss = 1..n /\ \A i \in 1..n : ss[i] = Walk[c(i)][depth]
    BY <1>1
  <1>3. \A i \in 1..n : ListsOnce(ss[i], Tree(c(i)))
    BY <1>1, <1>2
  <1>4. ss \in Seq(Seq(Lines)) /\ Len(ss) = n
    <2>1. \A i \in 1..n : Walk[c(i)][depth] \in Seq(Lines)
      BY <1>1 DEF ListsOnce
    <2> HIDE DEF n, c
    <2>2. ss = [i \in 1..n |-> Walk[c(i)][depth]]
      BY <1>1 DEF c
    <2> QED
      BY <1>1, <2>1, <2>2
  <1> HIDE DEF n, c, ss
  <1>5. \A i, j \in 1..n : i # j => Tree(c(i)) \cap Tree(c(j)) = {}
    BY <1>1, TreesApart
  <1>6. \A i, j \in 1..Len(ss) : i # j => Disjoint(ss[i], ss[j])
    <2> SUFFICES ASSUME NEW i \in 1..n, NEW j \in 1..n, i # j,
                        NEW x, NEW y, Occurs(x, ss[i]), Occurs(y, ss[j])
                 PROVE  x.user # y.user
      BY <1>4 DEF Disjoint
    <2>1. x.user \in Tree(c(i)) /\ y.user \in Tree(c(j))
      BY <1>3 DEF ListsOnce
    <2> QED
      BY <1>5, <2>1
  <1>7. OnceEach(FlattenSeq(ss))
    <2>1. \A i \in 1..Len(ss) : OnceEach(ss[i])
      BY <1>3, <1>4 DEF ListsOnce
    <2> QED
      BY <1>4, <1>6, <2>1, FlattenOnce
  <1>8. FlattenSeq(ss) \in Seq(Lines)
    BY <1>4, FlattenType
  <1>9. ASSUME NEW u PROVE u \in FriendsTrees(p) <=> \E x : Occurs(x, FlattenSeq(ss)) /\ x.user = u
    <2>1. ASSUME NEW x, Occurs(x, FlattenSeq(ss)), x.user = u PROVE u \in FriendsTrees(p)
      <3>1. PICK i \in 1..n : Occurs(x, ss[i])
        BY <1>4, <2>1, FlattenOccurs
      <3>2. u \in Tree(c(i)) /\ c(i) \in Members /\ users[c(i)].by = p
        BY <1>1, <1>3, <2>1, <3>1 DEF ListsOnce
      <3> QED
        BY <3>2, TreeOf DEF FriendsTrees
    <2>2. ASSUME NEW d \in Members, users[d].by = p, u \in Tree(d)
          PROVE  \E x : Occurs(x, FlattenSeq(ss)) /\ x.user = u
      <3>1. PICK i \in 1..n : c(i) = d
        BY <1>1, <2>2
      <3>2. PICK x : Occurs(x, ss[i]) /\ x.user = u
        BY <1>3, <2>2, <3>1 DEF ListsOnce
      <3>3. Occurs(x, FlattenSeq(ss))
        BY <1>4, <3>2, FlattenOccurs
      <3> QED
        BY <3>2, <3>3
    <2> QED
      BY <2>1, <2>2 DEF FriendsTrees
  <1>10. ListsOnce(FlattenSeq(ss), FriendsTrees(p))
    BY <1>7, <1>8, <1>9 DEF ListsOnce
  <1> QED
    BY <1>10 DEF ss

\* By induction over the forest the walk of a user lists the tree of the user,
LEMMA WalkListsTree ==
    ASSUME Forest, Members \subseteq People, None \notin Members
    PROVE  \A p \in Members : \A depth \in Nat : ListsOnce(Walk[p][depth], Tree(p))
  <1> DEFINE T == {p \in Members : \A depth \in Nat : ListsOnce(Walk[p][depth], Tree(p))}
  <1>1. ASSUME NEW p \in Members, \A u \in Members : users[u].by = p => u \in T PROVE p \in T
    <2> SUFFICES ASSUME NEW depth \in Nat PROVE ListsOnce(Walk[p][depth], Tree(p))
      OBVIOUS
    <2> DEFINE line == [user |-> p, depth |-> depth]
               rest == FlattenSeq([i \in DOMAIN Invited(p) |-> Walk[Invited(p)[i]][depth + 1]])
    <2>1. Walk[p][depth] = <<line>> \o rest
      BY WalkExists DEF WalkOf
    <2>2. ListsOnce(rest, FriendsTrees(p))
      <3>1. depth + 1 \in Nat /\ \A c \in Members : users[c].by = p => ListsOnce(Walk[c][depth + 1], Tree(c))
        BY <1>1
      <3> QED
        BY <3>1, WalksOfFriends
    <2>3. line \in Lines /\ line.user = p
      BY DEF Lines
    <2> HIDE DEF line, rest
    <2>4. <<line>> \in Seq(Lines) /\ OnceEach(<<line>>) /\ \A x : Occurs(x, <<line>>) <=> x = line
      BY <2>3 DEF OnceEach, Occurs
    <2>5. p \notin FriendsTrees(p)
      <3> SUFFICES ASSUME NEW c \in Members, users[c].by = p, p \in Tree(c) PROVE FALSE
        BY DEF FriendsTrees
      <3>1. PICK u \in Tree(c) : users[u].by \notin Tree(c)
        <4>1. Tree(c) \in (SUBSET Members) \ {{}}
          BY TreeOf
        <4> QED
          BY <4>1 DEF Forest, InviterForest
      <3>2. u = c
        BY <3>1, TreeOf
      <3> QED
        BY <3>1, <3>2
    <2>6. Disjoint(<<line>>, rest)
      <3> SUFFICES ASSUME NEW x, NEW y, Occurs(x, <<line>>), Occurs(y, rest) PROVE x.user # y.user
        BY DEF Disjoint
      <3>1. x.user = p
        BY <2>3, <2>4
      <3>2. y.user \in FriendsTrees(p)
        BY <2>2 DEF ListsOnce
      <3> QED
        BY <2>5, <3>1, <3>2
    <2>7. <<line>> \o rest \in Seq(Lines) /\ OnceEach(<<line>> \o rest)
      <3>1. rest \in Seq(Lines) /\ OnceEach(rest)
        BY <2>2 DEF ListsOnce
      <3>2. <<line>> \o rest \in Seq(Lines)
        BY <2>4, <3>1
      <3> HIDE DEF ListsOnce
      <3>3. OnceEach(<<line>> \o rest)
        BY <2>4, <2>6, <3>1, OnceConcat
      <3> QED
        BY <3>2, <3>3
    <2>8. \A x : Occurs(x, <<line>> \o rest) <=> x = line \/ Occurs(x, rest)
      BY <2>2, <2>4, OccursConcat DEF ListsOnce
    <2>9. ASSUME NEW u PROVE u \in Tree(p) <=> \E x : Occurs(x, <<line>> \o rest) /\ x.user = u
      <3>1. u \in FriendsTrees(p) <=> \E x : Occurs(x, rest) /\ x.user = u
        BY <2>2 DEF ListsOnce
      <3>2. u \in Tree(p) <=> u = p \/ u \in FriendsTrees(p)
        BY TreeOfFriends, TreeOf DEF FriendsTrees
      <3> QED
        BY <2>3, <2>8, <3>1, <3>2
    <2>10. ListsOnce(<<line>> \o rest, Tree(p))
      BY <2>7, <2>9 DEF ListsOnce
    <2> QED
      BY <2>1, <2>10
  <1>2. \A p \in Members : p \in T
    <2> HIDE DEF T
    <2> QED
      BY <1>1, FromFriendsUp
  <1> QED
    BY <1>2

\* and the walks of those without an inviter list everybody, for everybody is
\* below one of them.
LEMMA LinesListMembers ==
    ASSUME Forest, Members \subseteq People, None \notin Members
    PROVE  ListsOnce(TreeLines, Members)
  <1>1. ListsOnce(TreeLines, FriendsTrees(None))
    BY WalkListsTree, WalksOfFriends DEF TreeLines
  <1>2. ASSUME NEW u \in Members PROVE u \in FriendsTrees(None)
    <2> DEFINE S == Members \ FriendsTrees(None)
    <2> SUFFICES ASSUME S # {} PROVE FALSE
      OBVIOUS
    <2>1. PICK v \in S : users[v].by \notin S
      <3>1. S \in (SUBSET Members) \ {{}}
        OBVIOUS
      <3> QED
        BY <3>1 DEF Forest, InviterForest
    <2>2. CASE users[v].by = None
      BY <2>1, <2>2, TreeOf DEF FriendsTrees
    <2>3. CASE users[v].by # None
      <3>1. users[v].by \in FriendsTrees(None)
        BY <2>1, <2>3 DEF Forest, InviterForest
      <3>2. PICK c \in Members : users[c].by = None /\ users[v].by \in Tree(c)
        BY <3>1 DEF FriendsTrees
      <3>3. v \in Tree(c)
        BY <2>1, <3>2, TreeOf
      <3> QED
        BY <2>1, <3>2, <3>3 DEF FriendsTrees
    <2> QED
      BY <2>2, <2>3
  <1>3. FriendsTrees(None) = Members
    BY <1>2 DEF FriendsTrees
  <1> QED
    BY <1>1, <1>3

\* As many lines as members, then.
LEMMA ListedOnce ==
    ASSUME Forest, Members \subseteq People, None \notin Members
    PROVE  /\ {TreeLines[i].user : i \in DOMAIN TreeLines} = Members
           /\ Len(TreeLines) = Cardinality(Members)
  <1> DEFINE s == TreeLines
             n == Len(s)
             f == [i \in 1..n |-> s[i].user]
  <1>1. ListsOnce(s, Members)
    BY LinesListMembers
  <1> HIDE DEF s
  <1>2. n \in Nat /\ DOMAIN s = 1..n
    BY <1>1 DEF ListsOnce
  <1>3. \A u : u \in Members <=> \E i \in 1..n : s[i].user = u
    BY <1>1 DEF ListsOnce, Occurs
  <1>4. f \in Bijection(1..n, Members)
    BY <1>1, <1>3 DEF ListsOnce, OnceEach, Bijection, Injection, Surjection, IsInjective
  <1>5. Cardinality(Members) = n
    <2> HIDE DEF f
    <2>1. ExistsBijection(1..n, Members)
      BY <1>4 DEF ExistsBijection
    <2> QED
      BY <1>2, <2>1, FS_CountingElements
  <1>6. {s[i].user : i \in DOMAIN s} = Members
    BY <1>2, <1>3
  <1> QED
    BY <1>5, <1>6 DEF s

-----------------------------------------------------------------------------
(* The members stay finitely many.                                          *)

\* Only a commit changes the table of the users.
LEMMA CommitsOnly ==
    ASSUME Next, users' # users
    PROVE  \E t \in Handlers : Commit(t)
  <1>1. PICK t \in Handlers :
            \/ \E p \in People : Arrive(t, p)
            \/ Profile(t) \/ Answered(t)
            \/ Start(t) \/ Invitation(t) \/ Removal(t)
            \/ Commit(t) \/ HandlerRaises(t)
    BY DEF Next
  <1>2. ~(\E p \in People : Arrive(t, p)) /\ ~Profile(t) /\ ~Answered(t) /\ ~HandlerRaises(t)
    BY DEF Arrive, Profile, Answered, HandlerRaises, tables
  <1>3. ~Start(t)
    BY DEF Start, StartAdmin, StartWithCode, CreateUser, Reactivate, MarkUsed, Refused, tables
  <1>4. ~Invitation(t)
    BY DEF Invitation, CmdInvite, InviteRoleCallback, GenerateAndSend, CreateInvitation, Refused, tables
  <1>5. ~Removal(t)
    BY DEF Removal, FriendsRevokeConfirm, DeleteConfirm, DeactivateUser, DeleteCodes, DetachCodes,
           NullifyInviters, DeleteUsers, Refused, tables
  <1> QED
    BY <1>1, <1>2, <1>3, <1>4, <1>5

\* A transaction creates at most one user.
LEMMA MembersFinite == Spec => []IsFiniteSet(Members)
  <1>1. Init => IsFiniteSet(Members)
    <2> SUFFICES ASSUME Init PROVE IsFiniteSet(Members)
      OBVIOUS
    <2>1. Members = {}
      BY DEF Init, Members
    <2> QED
      BY <2>1, FS_EmptySet
  <1>2. IsFiniteSet(Members) /\ [Next]_vars => IsFiniteSet(Members)'
    <2> SUFFICES ASSUME IsFiniteSet(Members), [Next]_vars
                 PROVE  IsFiniteSet(DOMAIN users')
      BY DEF Members
    <2>1. CASE users' = users
      BY <2>1 DEF Members
    <2>2. CASE users' # users
      <3>1. Next
        BY <2>2 DEF vars
      <3>2. PICK t \in Handlers : Commit(t)
        BY <2>2, <3>1, CommitsOnly
      <3>3. DOMAIN users' \subseteq Members \cup {caller[t]}
        BY <3>2 DEF Commit, CommitJoin, CommitReturn, CommitInvite, CommitRevoke, CommitDelete, Members
      <3>4. IsFiniteSet(Members \cup {caller[t]})
        BY FS_AddElement
      <3> QED
        BY <3>3, <3>4, FS_Subset
    <2> QED
      BY <2>1, <2>2
  <1> QED
    BY <1>1, <1>2, PTL DEF Spec

-----------------------------------------------------------------------------
(* What the admin is sent.                                                  *)

\* The invariant of Membership is what the lemmas about the forest need.
LEMMA InvForest ==
    ASSUME Inv, IsFiniteSet(Members)
    PROVE  Forest /\ Members \subseteq People /\ None \notin Members
  <1>1. Members \subseteq People /\ InviterForest
    BY DEF Inv, TypeOK
  <1> QED
    BY <1>1, PeopleAssumption DEF Forest

\* The text of the tree shows every user exactly once, however the users came to
\* be registered and whoever was deleted: _build_tree_text starts from those
\* without an inviter, and would miss whoever is not below one of them.
THEOREM EveryoneIsListedOnce == Spec => []TreeListsEveryone
  <1>1. Inv /\ IsFiniteSet(Members) => TreeListsEveryone
    BY InvForest, ListedOnce DEF TreeListsEveryone
  <1> QED
    BY <1>1, AlwaysInv, MembersFinite, PTL

\* No line is empty.
LEMMA WidthType ==
    ASSUME NEW line \in Lines
    PROVE  Width(line) \in Nat \ {0}
  <1> DEFINE n == NameWidth[line.user]
             d == line.depth
  <1>1. n \in Nat \ {0} /\ d \in Nat
    BY WidthAssumption DEF Lines
  <1>2. Width(line) = n + IF d = 0 THEN 0 ELSE 2 + 3 * (d - 1) + 3
    BY DEF Width
  <1> HIDE DEF n, d
  <1> QED
    BY <1>1, <1>2

\* Whatever the tree and the names are, the messages into which _chunk_text cuts
\* its text keep to their limits, the smaller one of a first message that has a
\* header included; none is empty, and nothing is lost or repeated.
THEOREM ChunksFitTheirMessages == Spec => []ChunksFit
  <1>1. Inv /\ IsFiniteSet(Members) => ChunksFit
    <2> SUFFICES ASSUME Inv, IsFiniteSet(Members)
                 PROVE  ChunksFit
      OBVIOUS
    <2> DEFINE s == TreeLines
               w == [i \in DOMAIN s |-> Width(s[i])]
    <2>1. s \in Seq(Lines)
      BY InvForest, LinesListMembers DEF ListsOnce
    <2>2. w \in Seq(Nat \ {0})
      <3> HIDE DEF s
      <3>1. \A i \in 1..Len(s) : Width(s[i]) \in Nat \ {0}
        BY <2>1, WidthType
      <3>2. DOMAIN s = 1..Len(s) /\ Len(s) \in Nat
        BY <2>1
      <3> QED
        BY <3>1, <3>2
    <2> HIDE DEF w
    <2>3. ASSUME NEW maxLen \in 1..MaxLen, NEW firstMax \in 1..maxLen
          PROVE  LET chunks == ChunkText(w, maxLen, firstMax)
                 IN /\ \A j \in DOMAIN chunks :
                         LengthOf(chunks[j]) \in 1..(IF j = 1 THEN firstMax ELSE maxLen)
                    /\ Cover(FlattenSeq(chunks), w)
      <3> DEFINE chunks == ChunkText(w, maxLen, firstMax)
      <3>1. maxLen \in Nat \ {0}
        BY WidthAssumption
      <3>2. /\ chunks \in Seq(Seq(Pieces)) /\ Fits(chunks, maxLen, firstMax)
            /\ Cover(FlattenSeq(chunks), w)
        BY <2>2, <3>1, ChunksCorrect
      <3> HIDE DEF chunks
      <3>3. DOMAIN chunks = 1..Len(chunks)
        BY <3>2
      <3>4. \A j \in DOMAIN chunks : LengthOf(chunks[j]) \in 1..(IF j = 1 THEN firstMax ELSE maxLen)
        BY <3>2, <3>3 DEF Fits
      <3> QED
        BY <3>2, <3>4 DEF chunks
    <2> QED
      BY <2>3 DEF ChunksFit, w
  <1> QED
    BY <1>1, AlwaysInv, MembersFinite, PTL
=============================================================================
