---------------------- MODULE ConnectionLimiter_proofs ----------------------
(***************************************************************************)
(* Theorems of ConnectionLimiter for any clients, lengths of e-mails and    *)
(* counts of addresses: bot and relay read in the bytes what the other one  *)
(* wrote, and what KeySync guarantees holds beside the limiter.  The first  *)
(* sections prove the functions of ProtoWire right for every input, by      *)
(* induction over what is left to encode or to read.                        *)
(***************************************************************************)
EXTENDS ConnectionLimiter, KeySync_proofs, SequenceLemmas, FunctionTheorems

-----------------------------------------------------------------------------
(* Varints.                                                                 *)

\* A number is encoded by its lowest seven bits and what is left of it;
LEMMA EncodeVarintSteps ==
    ASSUME NEW v \in Nat
    PROVE  EncodeVarint(v) = IF v > 127 THEN <<(v % 128) + 128>> \o EncodeVarint(v \div 128) ELSE <<v>>
  <1> DEFINE Def(h) == h = [n \in Nat |-> IF n > 127 THEN <<(n % 128) + 128>> \o h[n \div 128] ELSE <<n>>]
             P == CHOOSE h : Def(h)
             Z == Seq(Nat)
             m == [n \in Nat |-> n]
             base == 0..127
             first == [n \in base |-> <<n>>]
             pre == [n \in Nat \ base |-> n \div 128]
             step == [n \in Nat \ base |-> [s \in Z |-> <<(n % 128) + 128>> \o s]]
  <1>1. PICK f : Chain(f, Nat, Z, base, first, pre, step)
    <2>1. m \in [Nat -> Nat] /\ base \in SUBSET Nat /\ first \in [base -> Z]
      OBVIOUS
    <2>2. pre \in [Nat \ base -> Nat] /\ \A n \in Nat \ base : m[pre[n]] < m[n]
      OBVIOUS
    <2>3. step \in [Nat \ base -> [Z -> Z]]
      <3> SUFFICES ASSUME NEW n \in Nat \ base, NEW s \in Seq(Nat)
                   PROVE  <<(n % 128) + 128>> \o s \in Seq(Nat)
        OBVIOUS
      <3>1. (n % 128) + 128 \in Nat
        OBVIOUS
      <3>2. <<(n % 128) + 128>> \in Seq(Nat)
        BY <3>1
      <3> QED
        BY <3>2
    <2> HIDE DEF Z, m, base, first, pre, step
    <2> QED
      BY <2>1, <2>2, <2>3, ChainExists
  <1>2. Def(f)
    <2>1. f \in [Nat -> Z]
      BY <1>1 DEF Chain
    <2>2. ASSUME NEW n \in Nat
          PROVE  f[n] = IF n > 127 THEN <<(n % 128) + 128>> \o f[n \div 128] ELSE <<n>>
      <3>1. CASE n > 127
        <4>1. n \in Nat \ base /\ pre[n] = n \div 128 /\ n \div 128 \in Nat
          BY <3>1
        <4>2. f[n \div 128] \in Z
          BY <2>1, <4>1
        <4>3. f[n] = step[n][f[n \div 128]]
          <5> HIDE DEF Z, base, pre, step, first
          <5> QED
            BY <1>1, <4>1 DEF Chain
        <4> HIDE DEF Z, Def
        <4> QED
          BY <3>1, <4>1, <4>2, <4>3
      <3>2. CASE ~(n > 127)
        <4>1. n \in base /\ first[n] = <<n>>
          BY <3>2
        <4>2. f[n] = first[n]
          <5> HIDE DEF Z, base, pre, step, first
          <5> QED
            BY <1>1, <4>1 DEF Chain
        <4> HIDE DEF Z, Def, first
        <4> QED
          BY <3>2, <4>1, <4>2
      <3> QED
        BY <3>1, <3>2
    <2> QED
      BY <2>1, <2>2
  <1>3. Def(P)
    <2> HIDE DEF Def
    <2> QED
      BY <1>2
  <1>4. \A n \in Nat : EncodeVarint(n) = P[n]
    BY DEF EncodeVarint
  <1>5. v \div 128 \in Nat
    OBVIOUS
  <1> HIDE DEF P
  <1> QED
    BY <1>3, <1>4, <1>5, ZenonT(40)

\* the result is never empty.
LEMMA EncodeVarintType ==
    ASSUME NEW v \in Nat
    PROVE  EncodeVarint(v) \in Seq(Nat) /\ Len(EncodeVarint(v)) \in Nat \ {0}
  <1> DEFINE P(n) == EncodeVarint(n) \in Seq(Nat) /\ Len(EncodeVarint(n)) \in Nat \ {0}
             T == {n \in Nat : P(n)}
             m == [n \in Nat |-> n]
  <1>1. ASSUME NEW n \in Nat, \A k \in Nat : m[k] < m[n] => k \in T PROVE n \in T
    <2>1. CASE n > 127
      <3>1. n \div 128 \in Nat /\ n \div 128 < n /\ (n % 128) + 128 \in Nat
        BY <2>1
      <3>2. EncodeVarint(n \div 128) \in Seq(Nat)
        BY <1>1, <3>1
      <3>3. EncodeVarint(n) = <<(n % 128) + 128>> \o EncodeVarint(n \div 128)
        BY <2>1, EncodeVarintSteps
      <3> QED
        BY <3>1, <3>2, <3>3, SMTT(30)
    <2>2. CASE ~(n > 127)
      <3>1. EncodeVarint(n) = <<n>>
        BY <2>2, EncodeVarintSteps
      <3>2. <<n>> \in Seq(Nat) /\ Len(<<n>>) = 1
        OBVIOUS
      <3>3. EncodeVarint(n) \in Seq(Nat) /\ Len(EncodeVarint(n)) = 1
        BY <3>1, <3>2
      <3>4. P(n)
        BY <3>3
      <3> HIDE DEF P
      <3> QED
        BY <3>4
    <2> QED
      BY <2>1, <2>2
  <1>2. \A n \in Nat : n \in T
    <2>1. m \in [Nat -> Nat]
      OBVIOUS
    <2> HIDE DEF T, m
    <2> QED
      BY <1>1, <2>1, Descent
  <1> QED
    BY <1>2

\* s stands in data from pos on.
Holds(data, pos, s) ==
    /\ pos \in Nat \ {0} /\ pos + Len(s) <= Len(data) + 1
    /\ \A i \in 1..Len(s) : data[pos + i - 1] = s[i]

\* A text stands at the start of itself,
LEMMA HoldsSelf ==
    ASSUME NEW s \in Seq(Nat)
    PROVE  Holds(s, 1, s)
  <1>1. \A i \in 1..Len(s) : 1 + i - 1 = i
    OBVIOUS
  <1> QED
    BY <1>1 DEF Holds

\* and the parts of a text stand where the text does.
LEMMA HoldsConcat ==
    ASSUME NEW data \in Seq(Nat), NEW s \in Seq(Nat), NEW t \in Seq(Nat), NEW pos,
           Holds(data, pos, s \o t)
    PROVE  Holds(data, pos, s) /\ Holds(data, pos + Len(s), t)
  <1> DEFINE a == Len(s)
             b == Len(t)
             r == s \o t
  <1>1. a \in Nat /\ b \in Nat /\ Len(data) \in Nat
    OBVIOUS
  <1>2. Len(r) = a + b /\ \A i \in 1..(a + b) : r[i] = IF i <= a THEN s[i] ELSE t[i - a]
    BY ConcatProperties
  <1>3. /\ pos \in Nat \ {0} /\ pos + Len(r) <= Len(data) + 1
        /\ \A i \in 1..Len(r) : data[pos + i - 1] = r[i]
    BY DEF Holds
  <1> HIDE DEF r
  <1>4. Holds(data, pos, s)
    <2>1. ASSUME NEW i \in 1..a PROVE data[pos + i - 1] = s[i]
      <3>1. i \in 1..(a + b) /\ i <= a
        BY <1>1
      <3> QED
        BY <1>2, <1>3, <3>1
    <2> QED
      BY <1>1, <1>2, <1>3, <2>1 DEF Holds
  <1>5. Holds(data, pos + a, t)
    <2>1. ASSUME NEW i \in 1..b PROVE data[pos + a + i - 1] = t[i]
      <3> HIDE DEF a, b
      <3>1. ASSUME NEW k, k = a + i PROVE data[pos + a + i - 1] = t[i]
        <4>1. k \in 1..(a + b) /\ ~(k <= a) /\ k - a = i /\ pos + k - 1 = pos + a + i - 1
          BY <1>1, <1>3, <3>1
        <4> QED
          BY <1>2, <1>3, <4>1
      <3> QED
        BY <3>1
    <2> QED
      BY <1>1, <1>2, <1>3, <2>1 DEF Holds
  <1> QED
    BY <1>4, <1>5

\* What the bytes from i to last stand for.
Bits(data, last) ==
    LET bits[i \in 1..last] == (data[i] % 128) + IF i = last THEN 0 ELSE 128 * bits[i + 1]
    IN bits

\* The bits of a varint add up from its last byte.
LEMMA BitsSteps ==
    ASSUME NEW data \in Seq(Nat), NEW last \in 1..Len(data), NEW k \in 1..last
    PROVE  Bits(data, last)[k] = (data[k] % 128) + IF k = last THEN 0 ELSE 128 * Bits(data, last)[k + 1]
  <1> DEFINE Def(h) == h = [i \in 1..last |-> (data[i] % 128) + IF i = last THEN 0 ELSE 128 * h[i + 1]]
             D == 1..last
             m == [i \in D |-> last - i]
             base == {last}
             first == [i \in base |-> (data[last] % 128) + 0]
             pre == [i \in D \ base |-> i + 1]
             step == [i \in D \ base |-> [n \in Nat |-> (data[i] % 128) + 128 * n]]
  <1>1. PICK f : Chain(f, D, Nat, base, first, pre, step)
    <2>0. last \in Nat \ {0} /\ \A i \in D : data[i] \in Nat /\ data[i] % 128 \in Nat
      OBVIOUS
    <2>1. m \in [D -> Nat] /\ base \in SUBSET D /\ first \in [base -> Nat]
      BY <2>0
    <2>2. pre \in [D \ base -> D] /\ \A i \in D \ base : m[pre[i]] < m[i]
      BY <2>0
    <2>3. step \in [D \ base -> [Nat -> Nat]]
      BY <2>0
    <2> HIDE DEF D, m, base, first, pre, step
    <2> QED
      BY <2>1, <2>2, <2>3, ChainExists
  <1>2. Def(f)
    <2>1. f \in [1..last -> Nat]
      BY <1>1 DEF Chain
    <2>2. ASSUME NEW i \in 1..last
          PROVE  f[i] = (data[i] % 128) + IF i = last THEN 0 ELSE 128 * f[i + 1]
      <3>1. CASE i = last
        <4>1. f[last] = first[last]
          BY <1>1 DEF Chain
        <4> QED
          BY <3>1, <4>1
      <3>2. CASE i # last
        <4>1. i \in D \ base /\ pre[i] = i + 1 /\ f[i + 1] \in Nat
          BY <2>1, <3>2
        <4>2. f[i] = step[i][f[i + 1]]
          <5> HIDE DEF D, base, pre, step, first
          <5> QED
            BY <1>1, <4>1 DEF Chain
        <4> QED
          BY <3>2, <4>1, <4>2
      <3> QED
        BY <3>1, <3>2
    <2> QED
      BY <2>1, <2>2
  <1> DEFINE P == CHOOSE h : Def(h)
  <1>3. Def(P)
    <2> HIDE DEF Def
    <2> QED
      BY <1>2
  <1>4. Bits(data, last) = P
    BY DEF Bits
  <1> HIDE DEF P
  <1> QED
    BY <1>3, <1>4

\* A varint ends with its first byte below 128.
LEMMA DecodeAt ==
    ASSUME NEW data \in Seq(Nat), NEW pos \in Nat \ {0}, NEW last \in pos..Len(data),
           data[last] < 128, \A i \in pos..(last - 1) : ~(data[i] < 128)
    PROVE  DecodeVarint(data, pos) = [value |-> Bits(data, last)[pos], next |-> last + 1]
  <1> DEFINE ends == {i \in pos..Len(data) : data[i] < 128}
             e == CHOOSE i \in ends : \A j \in ends : i <= j
  <1>1. last \in ends /\ \A j \in ends : last <= j
    <2>1. ASSUME NEW j \in ends, ~(last <= j) PROVE FALSE
      <3>1. j \in pos..(last - 1)
        BY <2>1
      <3> QED
        BY <3>1
    <2> QED
      BY <2>1
  <1>2. \A i \in ends : (\A j \in ends : i <= j) => i = last
    BY <1>1
  <1>3. e = last
    <2> HIDE DEF ends
    <2> QED
      BY <1>1, <1>2
  <1>4. ends # {}
    BY <1>1
  <1> HIDE DEF e
  <1>5. DecodeVarint(data, pos) = [value |-> Bits(data, e)[pos], next |-> e + 1]
    BY <1>4 DEF DecodeVarint, Bits, e
  <1> QED
    BY <1>3, <1>5

\* Whatever the number and wherever its varint stands in a message: the bot decodes
\* it, and goes on behind it.
THEOREM VarintRoundTrip ==
    ASSUME NEW data \in Seq(Nat), NEW v \in Nat, NEW pos, Holds(data, pos, EncodeVarint(v))
    PROVE  DecodeVarint(data, pos) = [value |-> v, next |-> pos + Len(EncodeVarint(v))]
  <1> DEFINE End(p, n) == p + Len(EncodeVarint(n)) - 1
             Reads(p, n) ==
                 /\ End(p, n) \in p..Len(data) /\ data[End(p, n)] < 128
                 /\ \A i \in p..(End(p, n) - 1) : ~(data[i] < 128)
                 /\ Bits(data, End(p, n))[p] = n
             P(n) == \A p \in Nat \ {0} : Holds(data, p, EncodeVarint(n)) => Reads(p, n)
             T == {n \in Nat : P(n)}
             m == [n \in Nat |-> n]
  <1>1. ASSUME NEW n \in Nat, \A k \in Nat : m[k] < m[n] => k \in T PROVE n \in T
    <2>1. ASSUME NEW p \in Nat \ {0}, Holds(data, p, EncodeVarint(n)) PROVE Reads(p, n)
      <3>0. Len(data) \in Nat
        OBVIOUS
      <3>1. CASE n > 127
        <4> DEFINE k == n \div 128
                   e == End(p + 1, k)
                   c == (n % 128) + 128
        <4>1. k \in Nat /\ k < n /\ n % 128 \in 0..127 /\ c \in Nat /\ n = (n % 128) + 128 * k
          BY <3>1
        <4>2. EncodeVarint(n) = <<c>> \o EncodeVarint(k) /\ EncodeVarint(k) \in Seq(Nat) /\ <<c>> \in Seq(Nat)
          <5>1. EncodeVarint(n) = <<c>> \o EncodeVarint(k)
            BY <3>1, EncodeVarintSteps
          <5>2. EncodeVarint(k) \in Seq(Nat)
            BY <4>1, EncodeVarintType
          <5>3. <<c>> \in Seq(Nat)
            BY <4>1
          <5> QED
            BY <5>1, <5>2, <5>3
        <4>3. Holds(data, p, <<c>>) /\ Holds(data, p + Len(<<c>>), EncodeVarint(k))
          <5>1. Holds(data, p, <<c>> \o EncodeVarint(k))
            BY <2>1, <4>2
          <5> HIDE DEF c, k, Reads
          <5> QED
            BY <4>2, <5>1, HoldsConcat
        <4>4. data[p] = c /\ Holds(data, p + 1, EncodeVarint(k)) /\ p + 1 \in Nat \ {0}
          <5>1. Len(<<c>>) = 1 /\ p + 1 - 1 = p
            OBVIOUS
          <5>2. data[p + 1 - 1] = <<c>>[1]
            BY <4>3, <5>1 DEF Holds
          <5> QED
            BY <4>3, <5>1, <5>2
        <4>5. P(k)
          BY <1>1, <4>1
        <4>6. Reads(p + 1, k)
          <5> HIDE DEF Reads, k
          <5> QED
            BY <4>4, <4>5
        <4>7. End(p, n) = e
          <5>1. Len(EncodeVarint(n)) = 1 + Len(EncodeVarint(k)) /\ Len(EncodeVarint(k)) \in Nat
            BY <4>2
          <5> QED
            BY <5>1
        <4> HIDE DEF k, e
        <4>8. e \in (p + 1)..Len(data) /\ data[e] < 128 /\ Bits(data, e)[p + 1] = k
              /\ \A i \in (p + 1)..(e - 1) : ~(data[i] < 128)
          BY <4>6 DEF e
        <4>9. e \in p..Len(data) /\ e \in 1..Len(data) /\ p \in 1..e /\ p # e
          BY <3>0, <4>8
        <4>10. \A i \in p..(e - 1) : ~(data[i] < 128)
          BY <4>1, <4>4, <4>8, SMTT(30)
        <4>11. Bits(data, e)[p] = (data[p] % 128) + 128 * Bits(data, e)[p + 1]
          BY <4>9, BitsSteps
        <4>12. c % 128 = n % 128
          BY <4>1
        <4>13. Bits(data, e)[p] = n
          BY <4>1, <4>4, <4>8, <4>11, <4>12
        <4> QED
          BY <4>7, <4>8, <4>9, <4>10, <4>13
      <3>2. CASE ~(n > 127)
        <4>1. EncodeVarint(n) = <<n>> /\ Len(<<n>>) = 1 /\ <<n>>[1] = n
          BY <3>2, EncodeVarintSteps
        <4>2. End(p, n) = p
          BY <4>1
        <4>3. p <= Len(data) /\ data[p] = n
          <5>1. p + 1 - 1 = p
            OBVIOUS
          <5>2. data[p + 1 - 1] = n /\ p + 1 <= Len(data) + 1
            BY <2>1, <4>1 DEF Holds
          <5> QED
            BY <3>0, <5>1, <5>2
        <4>4. p \in 1..Len(data) /\ p \in 1..p
          BY <3>0, <4>3
        <4>5. Bits(data, p)[p] = (data[p] % 128) + 0
          BY <4>4, BitsSteps
        <4>6. n % 128 = n
          BY <3>2
        <4> QED
          BY <3>2, <4>2, <4>3, <4>4, <4>5, <4>6, SMTT(30)
      <3> QED
        BY <3>1, <3>2
    <2>2. P(n)
      BY <2>1
    <2> HIDE DEF P
    <2> QED
      BY <2>2
  <1>2. P(v)
    <2>1. m \in [Nat -> Nat]
      OBVIOUS
    <2>2. \A n \in Nat : n \in T
      <3> HIDE DEF T, m
      <3> QED
        BY <1>1, <2>1, Descent, ZenonT(40)
    <2> QED
      BY <2>2
  <1>3. pos \in Nat \ {0}
    BY DEF Holds
  <1>4. Reads(pos, v) /\ Len(EncodeVarint(v)) \in Nat
    BY <1>2, <1>3, EncodeVarintType
  <1> DEFINE last == End(pos, v)
  <1>5. last + 1 = pos + Len(EncodeVarint(v))
    BY <1>3, <1>4
  <1>6. DecodeVarint(data, pos) = [value |-> Bits(data, last)[pos], next |-> last + 1]
    <2> HIDE DEF last
    <2>1. last \in pos..Len(data) /\ data[last] < 128 /\ \A i \in pos..(last - 1) : ~(data[i] < 128)
      BY <1>4 DEF last
    <2> QED
      BY <1>3, <2>1, DecodeAt
  <1> QED
    BY <1>4, <1>5, <1>6

\* A varint stands for a natural number,
LEMMA BitsType ==
    ASSUME NEW data \in Seq(Nat), NEW last \in 1..Len(data), NEW k \in 1..last
    PROVE  Bits(data, last)[k] \in Nat
  <1> DEFINE D == 1..last
             T == {i \in D : Bits(data, last)[i] \in Nat}
             m == [i \in D |-> last - i]
  <1>0. m \in [D -> Nat] /\ last \in Nat
    OBVIOUS
  <1>1. ASSUME NEW i \in D, \A j \in D : m[j] < m[i] => j \in T PROVE i \in T
    <2>1. data[i] % 128 \in Nat
      OBVIOUS
    <2>2. Bits(data, last)[i] = (data[i] % 128) + IF i = last THEN 0 ELSE 128 * Bits(data, last)[i + 1]
      BY BitsSteps
    <2>3. i # last => i + 1 \in T
      BY <1>0, <1>1
    <2>4. ASSUME NEW x \in Nat, NEW b PROVE (i # last => b \in Nat) => x + (IF i = last THEN 0 ELSE 128 * b) \in Nat
      OBVIOUS
    <2>5. Bits(data, last)[i] \in Nat
      <3>1. i # last => Bits(data, last)[i + 1] \in Nat
        BY <2>3 DEF T
      <3> HIDE DEF D, T, m
      <3> QED
        BY <2>1, <2>2, <2>4, <3>1
    <2> QED
      BY <2>5
  <1>2. \A i \in D : i \in T
    <2> HIDE DEF D, T, m
    <2> QED
      BY <1>0, <1>1, Descent
  <1> QED
    BY <1>2

\* and reading one moves on, never beyond the end of the message.
LEMMA DecodeType ==
    ASSUME NEW data \in Seq(Nat), NEW pos \in 1..(Len(data) + 1)
    PROVE  LET d == DecodeVarint(data, pos)
           IN /\ d.value \in Nat /\ d.next \in 1..(Len(data) + 1) /\ pos <= d.next
              /\ pos <= Len(data) => pos < d.next
  <1> DEFINE ends == {i \in pos..Len(data) : data[i] < 128}
  <1>0. Len(data) \in Nat
    OBVIOUS
  <1>1. CASE ends = {}
    <2>1. DecodeVarint(data, pos) = [value |-> 0, next |-> Len(data) + 1]
      BY <1>1 DEF DecodeVarint
    <2> QED
      BY <1>0, <2>1
  <1>2. CASE ends # {}
    <2>1. PICK last \in ends : \A j \in ends : last <= j
      <3>1. ends \in SUBSET Nat
        OBVIOUS
      <3> HIDE DEF ends
      <3> QED
        BY <1>2, <3>1, NatLeast
    <2>2. \A i \in pos..(last - 1) : ~(data[i] < 128)
      <3> SUFFICES ASSUME NEW i \in pos..(last - 1), data[i] < 128 PROVE FALSE
        OBVIOUS
      <3>1. i \in ends
        OBVIOUS
      <3> QED
        BY <2>1, <3>1
    <2>3. pos \in Nat \ {0} /\ last \in pos..Len(data) /\ data[last] < 128 /\ last \in 1..Len(data) /\ pos \in 1..last
      BY <1>0, <2>1
    <2>4. DecodeVarint(data, pos) = [value |-> Bits(data, last)[pos], next |-> last + 1]
      BY <2>2, <2>3, DecodeAt
    <2>5. Bits(data, last)[pos] \in Nat
      BY <2>3, BitsType
    <2> QED
      BY <1>0, <2>3, <2>4, <2>5
  <1> QED
    BY <1>1, <1>2

-----------------------------------------------------------------------------
(* Fields.                                                                  *)

\* What a message consists of.
FieldRecords == [field : Nat, wire : Nat, value : Nat \cup Seq(Nat)]

\* The parts of the field at pos: its tag and its value or length, what it adds to
\* the fields, and where the next one is.
TagAt(data, pos) == DecodeVarint(data, pos)
ValAt(data, pos) == DecodeVarint(data, TagAt(data, pos).next)
WireAt(data, pos) == TagAt(data, pos).value % 8
FieldAt(data, pos) ==
    LET Field(v) == <<[field |-> TagAt(data, pos).value \div 8, wire |-> WireAt(data, pos), value |-> v]>>
    IN IF WireAt(data, pos) = 0 THEN Field(ValAt(data, pos).value)
       ELSE IF WireAt(data, pos) = 2
       THEN Field(Slice(data, ValAt(data, pos).next, ValAt(data, pos).value))
       ELSE <<>>
NextAt(data, pos) ==
    IF WireAt(data, pos) = 0 THEN ValAt(data, pos).next
    ELSE IF WireAt(data, pos) = 2 THEN ValAt(data, pos).next + ValAt(data, pos).value
    ELSE IF WireAt(data, pos) = 1 THEN TagAt(data, pos).next + 8
    ELSE TagAt(data, pos).next + 4

\* A slice of bytes is one too.
LEMMA SliceType ==
    ASSUME NEW data \in Seq(Nat), NEW pos \in Nat \ {0}, NEW length \in Nat
    PROVE  Slice(data, pos, length) \in Seq(Nat)
  <1> DEFINE e == IF pos + length - 1 < Len(data) THEN pos + length - 1 ELSE Len(data)
  <1>1. e \in Int /\ \A i \in pos..e : data[i] \in Nat
    OBVIOUS
  <1> HIDE DEF e
  <1>2. SubSeq(data, pos, e) \in Seq(Nat)
    BY <1>1, SubSeqProperties
  <1> QED
    BY <1>2 DEF Slice, e

\* Reading a field moves on.
LEMMA PartsType ==
    ASSUME NEW data \in Seq(Nat), NEW pos \in 1..Len(data)
    PROVE  /\ TagAt(data, pos).value \in Nat /\ TagAt(data, pos).next \in Nat \ {0}
           /\ ValAt(data, pos).value \in Nat /\ ValAt(data, pos).next \in Nat \ {0}
           /\ FieldAt(data, pos) \in Seq(FieldRecords)
           /\ NextAt(data, pos) \in Nat \ {0} /\ pos < NextAt(data, pos)
  <1> DEFINE tag == TagAt(data, pos)
             val == ValAt(data, pos)
             w == WireAt(data, pos)
  <1>0. Len(data) \in Nat /\ pos \in 1..(Len(data) + 1)
    OBVIOUS
  <1>1. tag.value \in Nat /\ tag.next \in 1..(Len(data) + 1) /\ pos < tag.next
    BY <1>0, DecodeType DEF TagAt
  <1>2. val.value \in Nat /\ val.next \in 1..(Len(data) + 1) /\ tag.next <= val.next
    BY <1>1, DecodeType DEF ValAt
  <1>3. tag.value \div 8 \in Nat /\ w \in Nat
    BY <1>1 DEF WireAt
  <1>4. val.next \in Nat \ {0}
    BY <1>0, <1>2
  <1>5. FieldAt(data, pos) \in Seq(FieldRecords)
    <2>1. Slice(data, val.next, val.value) \in Seq(Nat)
      BY <1>2, <1>4, SliceType
    <2> HIDE DEF tag, val, w
    <2>2. \A v \in Nat \cup Seq(Nat) : [field |-> tag.value \div 8, wire |-> w, value |-> v] \in FieldRecords
      BY <1>3 DEF FieldRecords
    <2>3. [field |-> tag.value \div 8, wire |-> w, value |-> val.value] \in FieldRecords
      BY <1>2, <2>2
    <2>4. [field |-> tag.value \div 8, wire |-> w, value |-> Slice(data, val.next, val.value)] \in FieldRecords
      BY <2>1, <2>2
    <2> QED
      BY <2>3, <2>4 DEF FieldAt, tag, val, w
  <1>6. NextAt(data, pos) \in Nat \ {0} /\ pos < NextAt(data, pos)
    <2>1. \/ NextAt(data, pos) = val.next
          \/ NextAt(data, pos) = val.next + val.value
          \/ NextAt(data, pos) = tag.next + 8
          \/ NextAt(data, pos) = tag.next + 4
      BY DEF NextAt
    <2>2. ASSUME NEW a \in Nat, NEW b \in Nat, NEW c \in Nat, pos < a, a <= b
          PROVE  /\ b \in Nat \ {0} /\ pos < b
                 /\ b + c \in Nat \ {0} /\ pos < b + c
                 /\ a + 8 \in Nat \ {0} /\ pos < a + 8
                 /\ a + 4 \in Nat \ {0} /\ pos < a + 4
      <3>1. pos \in Nat
        BY <1>0
      <3> QED
        BY <2>2, <3>1
    <2>3. tag.next \in Nat /\ val.next \in Nat /\ val.value \in Nat /\ pos < tag.next /\ tag.next <= val.next
      BY <1>0, <1>1, <1>2
    <2> HIDE DEF tag, val
    <2>4. /\ val.next \in Nat \ {0} /\ pos < val.next
          /\ val.next + val.value \in Nat \ {0} /\ pos < val.next + val.value
          /\ tag.next + 8 \in Nat \ {0} /\ pos < tag.next + 8
          /\ tag.next + 4 \in Nat \ {0} /\ pos < tag.next + 4
      BY <2>2, <2>3
    <2> QED
      BY <2>1, <2>4
  <1> QED
    BY <1>0, <1>1, <1>2, <1>5, <1>6

\* Where the message ends.
AtEnd(data, pos) == pos > Len(data) \/ WireAt(data, pos) \notin {0, 1, 2, 5}

\* What the definition says of one position.
StepAt(h, data, pos) ==
    IF pos > Len(data) THEN <<>> ELSE
    LET tag == DecodeVarint(data, pos)
        val == DecodeVarint(data, tag.next)
        Field(t, v) == <<[field |-> t.value \div 8, wire |-> t.value % 8, value |-> v]>>
    IN CASE tag.value % 8 = 0 -> Field(tag, val.value) \o h[val.next]
         [] tag.value % 8 = 2 -> Field(tag, Slice(data, val.next, val.value)) \o h[val.next + val.value]
         [] tag.value % 8 = 1 -> h[tag.next + 8]
         [] tag.value % 8 = 5 -> h[tag.next + 4]
         [] OTHER -> <<>>

\* A field is what it adds and the fields behind it.
LEMMA StepIs ==
    ASSUME NEW data \in Seq(Nat), NEW pos \in Nat \ {0}, NEW h,
           h[NextAt(data, pos)] \in Seq(FieldRecords)
    PROVE  StepAt(h, data, pos) = IF AtEnd(data, pos) THEN <<>> ELSE FieldAt(data, pos) \o h[NextAt(data, pos)]
  <1> DEFINE w == WireAt(data, pos)
  <1>1. CASE pos > Len(data)
    BY <1>1 DEF StepAt, AtEnd
  <1>2. CASE ~(pos > Len(data))
    <2>0. AtEnd(data, pos) <=> w \notin {0, 1, 2, 5}
      BY <1>2 DEF AtEnd
    <2>1. StepAt(h, data, pos) =
            LET Field(t, v) == <<[field |-> t.value \div 8, wire |-> t.value % 8, value |-> v]>>
            IN CASE w = 0 -> Field(TagAt(data, pos), ValAt(data, pos).value) \o h[ValAt(data, pos).next]
                 [] w = 2 -> Field(TagAt(data, pos), Slice(data, ValAt(data, pos).next, ValAt(data, pos).value))
                               \o h[ValAt(data, pos).next + ValAt(data, pos).value]
                 [] w = 1 -> h[TagAt(data, pos).next + 8]
                 [] w = 5 -> h[TagAt(data, pos).next + 4]
                 [] OTHER -> <<>>
      BY <1>2 DEF StepAt, WireAt, TagAt, ValAt
    <2>2. CASE w = 0
      BY <2>0, <2>1, <2>2 DEF FieldAt, NextAt, WireAt
    <2>3. CASE w = 2
      BY <2>0, <2>1, <2>3 DEF FieldAt, NextAt, WireAt
    <2>4. CASE w = 1
      <3>1. FieldAt(data, pos) = <<>> /\ NextAt(data, pos) = TagAt(data, pos).next + 8
        BY <2>4 DEF FieldAt, NextAt
      <3>2. <<>> \o h[NextAt(data, pos)] = h[NextAt(data, pos)]
        BY ConcatEmptySeq
      <3> QED
        BY <2>0, <2>1, <2>4, <3>1, <3>2
    <2>5. CASE w = 5
      <3>1. FieldAt(data, pos) = <<>> /\ NextAt(data, pos) = TagAt(data, pos).next + 4
        BY <2>5 DEF FieldAt, NextAt
      <3>2. <<>> \o h[NextAt(data, pos)] = h[NextAt(data, pos)]
        BY ConcatEmptySeq
      <3> QED
        BY <2>0, <2>1, <2>5, <3>1, <3>2
    <2>6. CASE w \notin {0, 1, 2, 5}
      BY <2>0, <2>1, <2>6
    <2> QED
      BY <2>2, <2>3, <2>4, <2>5, <2>6
  <1> QED
    BY <1>1, <1>2

\* FieldsFrom is the function of its recursive definition: every step moves on.
LEMMA FieldsSteps ==
    ASSUME NEW data \in Seq(Nat)
    PROVE  \A pos \in Nat \ {0} : FieldsFrom(data)[pos] = StepAt(FieldsFrom(data), data, pos)
  <1> DEFINE D == Nat \ {0}
             Z == Seq(FieldRecords)
             Def(h) == h = [pos \in D |-> StepAt(h, data, pos)]
             m == [pos \in D |-> IF pos > Len(data) THEN 0 ELSE Len(data) + 1 - pos]
             base == {pos \in D : AtEnd(data, pos)}
             first == [pos \in base |-> <<>>]
             pre == [pos \in D \ base |-> NextAt(data, pos)]
             step == [pos \in D \ base |-> [s \in Z |-> FieldAt(data, pos) \o s]]
  <1>1. PICK f : Chain(f, D, Z, base, first, pre, step)
    <2>0. Len(data) \in Nat /\ \A pos \in D \ base : pos \in 1..Len(data)
      BY DEF AtEnd
    <2>1. m \in [D -> Nat] /\ base \in SUBSET D
      BY <2>0
    <2>2. first \in [base -> Z]
      <3>1. <<>> \in Z
        OBVIOUS
      <3> HIDE DEF Z
      <3> QED
        BY <3>1
    <2>3. pre \in [D \ base -> D] /\ \A pos \in D \ base : m[pre[pos]] < m[pos]
      <3>1. \A pos \in D \ base : NextAt(data, pos) \in D /\ pos < NextAt(data, pos)
        BY <2>0, PartsType
      <3> HIDE DEF base
      <3> QED
        BY <2>0, <3>1
    <2>4. step \in [D \ base -> [Z -> Z]]
      <3>1. \A pos \in D \ base : FieldAt(data, pos) \in Z
        BY <2>0, PartsType
      <3>2. \A x, y \in Z : x \o y \in Z
        OBVIOUS
      <3> HIDE DEF D, Z, base
      <3> QED
        BY <3>1, <3>2
    <2> HIDE DEF D, Z, m, base, first, pre, step
    <2> QED
      BY <2>1, <2>2, <2>3, <2>4, ChainExists
  <1>2. Def(f)
    <2>1. f \in [D -> Z]
      BY <1>1 DEF Chain
    <2>2. ASSUME NEW pos \in D PROVE f[pos] = StepAt(f, data, pos)
      <3>1. CASE AtEnd(data, pos)
        <4>1. f[pos] = first[pos] /\ pos \in base
          <5>1. pos \in base
            BY <3>1
          <5> HIDE DEF D, Z, base, first, pre, step
          <5> QED
            BY <1>1, <5>1 DEF Chain
        <4>2. f[pos] = <<>>
          BY <4>1
        <4>3. StepAt(f, data, pos) = <<>>
          BY <3>1 DEF StepAt, AtEnd, WireAt, TagAt
        <4> QED
          BY <4>2, <4>3
      <3>2. CASE ~AtEnd(data, pos)
        <4>1. pos \in D \ base /\ pre[pos] = NextAt(data, pos)
          BY <3>2
        <4>2. NextAt(data, pos) \in D
          <5>1. pos \in 1..Len(data)
            BY <3>2 DEF AtEnd
          <5> QED
            BY <5>1, PartsType
        <4>3. f[NextAt(data, pos)] \in Z
          BY <2>1, <4>2
        <4>4. f[pos] = step[pos][f[NextAt(data, pos)]]
          <5> HIDE DEF D, Z, base, first, pre, step
          <5> QED
            BY <1>1, <4>1 DEF Chain
        <4>5. f[pos] = FieldAt(data, pos) \o f[NextAt(data, pos)]
          <5> HIDE DEF Z, base, D
          <5> QED
            BY <4>1, <4>3, <4>4
        <4>6. StepAt(f, data, pos) = FieldAt(data, pos) \o f[NextAt(data, pos)]
          BY <3>2, <4>3, StepIs
        <4> QED
          BY <4>5, <4>6
      <3> QED
        BY <3>1, <3>2
    <2> QED
      BY <2>1, <2>2
  <1> DEFINE P == CHOOSE h : Def(h)
  <1>3. Def(P)
    <2> HIDE DEF Def
    <2> QED
      BY <1>2
  <1>4. FieldsFrom(data) = P
    BY DEF FieldsFrom, StepAt
  <1> HIDE DEF P
  <1> QED
    BY <1>3, <1>4

-----------------------------------------------------------------------------
(* Messages.                                                                *)

\* A field of a message.
Record(field, wire, value) == [field |-> field, wire |-> wire, value |-> value]

\* A field of text is never empty.
LEMMA EncodeBytesType ==
    ASSUME NEW field \in Nat, NEW text \in Seq(Nat)
    PROVE  EncodeBytes(field, text) \in Seq(Nat) /\ Len(EncodeBytes(field, text)) \in Nat \ {0}
  <1> DEFINE a == EncodeVarint(field * 8 + 2)
             b == EncodeVarint(Len(text))
  <1>1. a \in Seq(Nat) /\ Len(a) \in Nat \ {0} /\ b \in Seq(Nat)
    <2>1. field * 8 + 2 \in Nat /\ Len(text) \in Nat
      OBVIOUS
    <2> QED
      BY <2>1, EncodeVarintType
  <1>2. EncodeBytes(field, text) = (a \o b) \o text
    BY DEF EncodeBytes
  <1> HIDE DEF a, b
  <1>3. (a \o b) \o text \in Seq(Nat) /\ Len((a \o b) \o text) = Len(a) + Len(b) + Len(text)
    BY <1>1
  <1>4. Len(b) \in Nat /\ Len(text) \in Nat
    BY <1>1
  <1> QED
    BY <1>1, <1>2, <1>3, <1>4

\* The slice of the length of a text is the text.
LEMMA SliceHeld ==
    ASSUME NEW data \in Seq(Nat), NEW pos, NEW text \in Seq(Nat), Holds(data, pos, text)
    PROVE  Slice(data, pos, Len(text)) = text
  <1> DEFINE n == Len(text)
             e == pos + n - 1
             s == SubSeq(data, pos, e)
  <1>1. n \in Nat /\ Len(data) \in Nat /\ pos \in Nat \ {0} /\ e \in Int /\ e <= Len(data)
    BY DEF Holds
  <1>2. Slice(data, pos, n) = s
    <2>1. (IF e < Len(data) THEN e ELSE Len(data)) = e
      BY <1>1
    <2> HIDE DEF n
    <2> QED
      BY <2>1 DEF Slice
  <1>3. s \in Seq(Nat) /\ Len(s) = n /\ \A i \in 1..n : s[i] = data[pos + i - 1]
    <2>1. \A i \in pos..e : data[i] \in Nat
      BY <1>1
    <2>2. Len(s) = n
      BY <1>1, <2>1, SubSeqProperties
    <2>3. s \in Seq(Nat)
      BY <1>1, <2>1, SubSeqProperties
    <2>4. \A i \in 1..n : s[i] = data[pos + i - 1]
      BY <1>1, <2>1, SubSeqProperties
    <2> QED
      BY <2>2, <2>3, <2>4
  <1>4. \A i \in 1..n : s[i] = text[i]
    BY <1>3 DEF Holds
  <1> HIDE DEF s
  <1>5. s = text
    BY <1>3, <1>4, SeqEqual
  <1> QED
    BY <1>2, <1>5

\* A field of text at pos is read as one,
LEMMA TextField ==
    ASSUME NEW data \in Seq(Nat), NEW field \in Nat, NEW text \in Seq(Nat), NEW pos,
           Holds(data, pos, EncodeBytes(field, text)),
           FieldsFrom(data)[pos + Len(EncodeBytes(field, text))] \in Seq(FieldRecords)
    PROVE  FieldsFrom(data)[pos] =
               <<Record(field, 2, text)>> \o FieldsFrom(data)[pos + Len(EncodeBytes(field, text))]
  <1> DEFINE t == field * 8 + 2
             a == EncodeVarint(t)
             b == EncodeVarint(Len(text))
             F == FieldsFrom(data)
             next == pos + Len(EncodeBytes(field, text))
  <1>1. a \in Seq(Nat) /\ Len(a) \in Nat \ {0} /\ b \in Seq(Nat) /\ Len(b) \in Nat \ {0} /\ t \in Nat /\ Len(text) \in Nat
    <2>1. t \in Nat /\ Len(text) \in Nat
      OBVIOUS
    <2> QED
      BY <2>1, EncodeVarintType
  <1>2. EncodeBytes(field, text) = (a \o b) \o text
    BY DEF EncodeBytes
  <1>3. t % 8 = 2 /\ t \div 8 = field
    OBVIOUS
  <1>4. pos \in Nat \ {0} /\ Len(data) \in Nat
    BY DEF Holds
  <1> HIDE DEF a, b
  <1>5. /\ Holds(data, pos, a) /\ Holds(data, pos + Len(a), b)
        /\ Holds(data, pos + Len(a \o b), text)
    <2>1. a \o b \in Seq(Nat)
      BY <1>1
    <2>2. Holds(data, pos, (a \o b) \o text)
      BY <1>2
    <2>3. Holds(data, pos, a \o b) /\ Holds(data, pos + Len(a \o b), text)
      BY <2>1, <2>2, HoldsConcat
    <2>4. Holds(data, pos, a) /\ Holds(data, pos + Len(a), b)
      BY <1>1, <2>3, HoldsConcat
    <2> QED
      BY <2>3, <2>4
  <1>6. Len(a \o b) = Len(a) + Len(b) /\ next = pos + Len(a) + Len(b) + Len(text)
    <2>1. Len((a \o b) \o text) = Len(a) + Len(b) + Len(text) /\ Len(a \o b) = Len(a) + Len(b)
      BY <1>1
    <2> QED
      BY <1>1, <1>2, <1>4, <2>1
  <1> HIDE DEF t, next, F
  <1>7. TagAt(data, pos) = [value |-> t, next |-> pos + Len(a)]
    BY <1>1, <1>5, VarintRoundTrip DEF TagAt, a
  <1>8. ValAt(data, pos) = [value |-> Len(text), next |-> pos + Len(a) + Len(b)]
    <2>1. DecodeVarint(data, pos + Len(a)) = [value |-> Len(text), next |-> pos + Len(a) + Len(b)]
      BY <1>1, <1>5, VarintRoundTrip DEF b
    <2> QED
      BY <1>7, <2>1 DEF ValAt
  <1>9. WireAt(data, pos) = 2 /\ NextAt(data, pos) = next
    BY <1>1, <1>3, <1>6, <1>7, <1>8 DEF WireAt, NextAt
  <1>10. Slice(data, pos + Len(a) + Len(b), Len(text)) = text
    <2>1. pos + Len(a) + Len(b) = pos + Len(a \o b)
      BY <1>1, <1>4, <1>6
    <2> QED
      BY <1>5, <2>1, SliceHeld
  <1>11. FieldAt(data, pos) = <<Record(field, 2, text)>>
    BY <1>3, <1>7, <1>8, <1>9, <1>10 DEF FieldAt, Record
  <1>12. ~AtEnd(data, pos)
    <2>1. pos <= Len(data)
      BY <1>1, <1>4, <1>5, SMTT(30) DEF Holds
    <2> QED
      BY <1>4, <1>9, <2>1 DEF AtEnd
  <1>13. F[next] \in Seq(FieldRecords)
    BY DEF F, next
  <1>14. F[pos] = StepAt(F, data, pos)
    BY <1>4, FieldsSteps DEF F
  <1>15. StepAt(F, data, pos) = FieldAt(data, pos) \o F[next]
    BY <1>4, <1>9, <1>12, <1>13, StepIs
  <1> QED
    BY <1>11, <1>14, <1>15 DEF F, next

\* and so is one of a number.
LEMMA CountField ==
    ASSUME NEW data \in Seq(Nat), NEW v \in Nat, NEW pos,
           Holds(data, pos, << 16 >> \o EncodeVarint(v)),
           FieldsFrom(data)[pos + 1 + Len(EncodeVarint(v))] \in Seq(FieldRecords)
    PROVE  FieldsFrom(data)[pos] =
               <<Record(2, 0, v)>> \o FieldsFrom(data)[pos + 1 + Len(EncodeVarint(v))]
  <1> DEFINE b == EncodeVarint(v)
             F == FieldsFrom(data)
             next == pos + 1 + Len(b)
  <1>1. b \in Seq(Nat) /\ Len(b) \in Nat \ {0} /\ <<16>> \in Seq(Nat) /\ Len(<<16>>) = 1
    BY EncodeVarintType
  <1>2. EncodeVarint(16) = <<16>>
    <2>1. 16 \in Nat /\ ~(16 > 127)
      OBVIOUS
    <2>2. EncodeVarint(16) = IF 16 > 127 THEN <<(16 % 128) + 128>> \o EncodeVarint(16 \div 128) ELSE <<16>>
      BY <2>1, EncodeVarintSteps, Zenon
    <2> QED
      BY <2>1, <2>2, Zenon
  <1>4. pos \in Nat \ {0} /\ Len(data) \in Nat
    BY DEF Holds
  <1> HIDE DEF b
  <1>5. Holds(data, pos, <<16>>) /\ Holds(data, pos + 1, b)
    <2>1. Holds(data, pos, <<16>> \o b)
      BY DEF b
    <2>2. Holds(data, pos, <<16>>) /\ Holds(data, pos + Len(<<16>>), b)
      BY <1>1, <2>1, HoldsConcat
    <2> QED
      BY <1>1, <2>2
  <1> HIDE DEF next, F
  <1>7. TagAt(data, pos) = [value |-> 16, next |-> pos + 1]
    <2>1. Holds(data, pos, EncodeVarint(16)) /\ Len(EncodeVarint(16)) = 1
      BY <1>1, <1>2, <1>5
    <2>2. DecodeVarint(data, pos) = [value |-> 16, next |-> pos + Len(EncodeVarint(16))]
      BY <2>1, VarintRoundTrip
    <2> QED
      BY <2>1, <2>2 DEF TagAt
  <1>8. ValAt(data, pos) = [value |-> v, next |-> next]
    <2>1. DecodeVarint(data, pos + 1) = [value |-> v, next |-> next]
      BY <1>1, <1>5, VarintRoundTrip DEF b, next
    <2> QED
      BY <1>7, <2>1 DEF ValAt
  <1>9. WireAt(data, pos) = 0 /\ NextAt(data, pos) = next
    <2>1. 16 % 8 = 0
      OBVIOUS
    <2> QED
      BY <1>7, <1>8, <2>1 DEF WireAt, NextAt
  <1>11. FieldAt(data, pos) = <<Record(2, 0, v)>>
    <2>1. 16 \div 8 = 2
      OBVIOUS
    <2> QED
      BY <1>7, <1>8, <1>9, <2>1 DEF FieldAt, Record
  <1>12. ~AtEnd(data, pos)
    <2>1. pos <= Len(data)
      BY <1>1, <1>4, <1>5 DEF Holds
    <2> QED
      BY <1>4, <1>9, <2>1 DEF AtEnd
  <1>13. F[next] \in Seq(FieldRecords)
    BY DEF F, next, b
  <1>14. F[pos] = StepAt(F, data, pos)
    BY <1>4, FieldsSteps DEF F
  <1>15. StepAt(F, data, pos) = FieldAt(data, pos) \o F[next]
    BY <1>4, <1>9, <1>12, <1>13, StepIs
  <1> QED
    BY <1>11, <1>14, <1>15 DEF F, next, b

\* The fields of a message are those from its first byte, and none behind its end.
LEMMA IterIs ==
    ASSUME NEW data \in Seq(Nat)
    PROVE  /\ IterProtoFields(data) = FieldsFrom(data)[1]
           /\ FieldsFrom(data)[1 + Len(data)] = <<>>
           /\ <<>> \in Seq(FieldRecords)
  <1>1. IterProtoFields(data) = FieldsFrom(data)[1]
    BY DEF IterProtoFields
  <1>2. 1 + Len(data) \in Nat \ {0} /\ 1 + Len(data) > Len(data)
    OBVIOUS
  <1>3. FieldsFrom(data)[1 + Len(data)] = StepAt(FieldsFrom(data), data, 1 + Len(data))
    BY <1>2, FieldsSteps
  <1>4. StepAt(FieldsFrom(data), data, 1 + Len(data)) = <<>>
    BY <1>2 DEF StepAt
  <1> QED
    BY <1>1, <1>3, <1>4

\* What a field is made of.
LEMMA RecordType ==
    ASSUME NEW field \in Nat, NEW wire \in Nat, NEW v \in Nat \cup Seq(Nat)
    PROVE  Record(field, wire, v) \in FieldRecords /\ <<Record(field, wire, v)>> \in Seq(FieldRecords)
  <1>1. Record(field, wire, v) \in FieldRecords
    BY DEF Record, FieldRecords
  <1> QED
    BY <1>1

\* Two fields in a row.
LEMMA Pair ==
    ASSUME NEW r \in FieldRecords, NEW q \in FieldRecords
    PROVE  <<r>> \o <<q>> = <<r, q>>
  <1> DEFINE S == FieldRecords
  <1>1. r \in S /\ q \in S
    OBVIOUS
  <1> HIDE DEF S
  <1>2. <<r>> \in Seq(S) /\ <<q>> \in Seq(S) /\ <<r, q>> \in Seq(S)
    BY <1>1
  <1>3. <<r>> \o <<q>> \in Seq(S) /\ Len(<<r>> \o <<q>>) = 2
    BY <1>2
  <1>4. \A i \in 1..2 : (<<r>> \o <<q>>)[i] = <<r, q>>[i]
    <2>1. (<<r>> \o <<q>>)[1] = r
      BY <1>2
    <2>2. (<<r>> \o <<q>>)[2] = q
      BY <1>2
    <2> QED
      BY <2>1, <2>2
  <1> QED
    BY <1>2, <1>3, <1>4, SeqEqual

\* What a message of one text is read as,
LEMMA OneText ==
    ASSUME NEW f \in Nat, NEW x \in Seq(Nat)
    PROVE  IterProtoFields(EncodeBytes(f, x)) = <<Record(f, 2, x)>>
  <1> DEFINE data == EncodeBytes(f, x)
             r == <<Record(f, 2, x)>>
  <1>1. data \in Seq(Nat)
    BY EncodeBytesType
  <1>2. r \in Seq(FieldRecords)
    BY RecordType
  <1>3. Holds(data, 1, EncodeBytes(f, x))
    BY <1>1, HoldsSelf
  <1>4. FieldsFrom(data)[1 + Len(data)] = <<>> /\ <<>> \in Seq(FieldRecords)
    BY <1>1, IterIs
  <1>5. FieldsFrom(data)[1] = r \o FieldsFrom(data)[1 + Len(data)]
    BY <1>1, <1>3, <1>4, TextField
  <1> HIDE DEF r
  <1>6. r \o <<>> = r
    BY <1>2, ConcatEmptySeq
  <1>7. IterProtoFields(data) = r
    BY <1>1, <1>4, <1>5, <1>6, IterIs
  <1> QED
    BY <1>7 DEF r

\* and one of two texts,
LEMMA TwoTexts ==
    ASSUME NEW f \in Nat, NEW x \in Seq(Nat), NEW g \in Nat, NEW y \in Seq(Nat)
    PROVE  IterProtoFields(EncodeBytes(f, x) \o EncodeBytes(g, y)) = <<Record(f, 2, x), Record(g, 2, y)>>
  <1> DEFINE a == EncodeBytes(f, x)
             b == EncodeBytes(g, y)
             data == a \o b
             p == 1 + Len(a)
             r == Record(f, 2, x)
             q == Record(g, 2, y)
  <1>1. a \in Seq(Nat) /\ b \in Seq(Nat) /\ Len(a) \in Nat /\ Len(b) \in Nat
    BY EncodeBytesType
  <1>2. /\ <<r>> \in Seq(FieldRecords) /\ <<q>> \in Seq(FieldRecords)
        /\ r \in FieldRecords /\ q \in FieldRecords
    BY RecordType
  <1> HIDE DEF r, q, a, b
  <1>3. data \in Seq(Nat) /\ p + Len(b) = 1 + Len(data)
    BY <1>1
  <1> HIDE DEF data, p
  <1>4. Holds(data, 1, a) /\ Holds(data, p, b)
    <2>1. Holds(data, 1, a \o b)
      BY <1>3, HoldsSelf DEF data
    <2> QED
      BY <1>1, <1>3, <2>1, HoldsConcat DEF p
  <1>5. FieldsFrom(data)[p + Len(b)] = <<>> /\ <<>> \in Seq(FieldRecords)
    BY <1>3, IterIs
  <1>6. FieldsFrom(data)[p] = <<q>> \o FieldsFrom(data)[p + Len(b)]
    BY <1>3, <1>4, <1>5, TextField, ZenonT(40) DEF b, q
  <1>7. FieldsFrom(data)[p] = <<q>>
    <2>1. <<q>> \o <<>> = <<q>>
      BY <1>2, ConcatEmptySeq
    <2> QED
      BY <1>5, <1>6, <2>1
  <1>8. FieldsFrom(data)[1] = <<r>> \o FieldsFrom(data)[p]
    BY <1>2, <1>3, <1>4, <1>7, TextField, ZenonT(40) DEF a, p, r
  <1>9. <<r>> \o <<q>> = <<r, q>>
    BY <1>2, Pair
  <1>10. IterProtoFields(data) = <<r, q>>
    BY <1>3, <1>7, <1>8, <1>9, IterIs
  <1> QED
    BY <1>10 DEF data, a, b, r, q

\* and one of a text and a number.
LEMMA TextAndCount ==
    ASSUME NEW f \in Nat, NEW x \in Seq(Nat), NEW v \in Nat
    PROVE  IterProtoFields(EncodeBytes(f, x) \o (<<16>> \o EncodeVarint(v))) = <<Record(f, 2, x), Record(2, 0, v)>>
  <1> DEFINE a == EncodeBytes(f, x)
             b == <<16>> \o EncodeVarint(v)
             data == a \o b
             p == 1 + Len(a)
             r == Record(f, 2, x)
             q == Record(2, 0, v)
  <1>1. a \in Seq(Nat) /\ b \in Seq(Nat) /\ Len(a) \in Nat /\ Len(b) \in Nat
    <2>1. EncodeVarint(v) \in Seq(Nat) /\ <<16>> \in Seq(Nat)
      BY EncodeVarintType
    <2> QED
      BY <2>1, EncodeBytesType
  <1>0. Len(b) = 1 + Len(EncodeVarint(v)) /\ Len(EncodeVarint(v)) \in Nat
    BY EncodeVarintType
  <1>2. /\ <<r>> \in Seq(FieldRecords) /\ <<q>> \in Seq(FieldRecords)
        /\ r \in FieldRecords /\ q \in FieldRecords
    BY RecordType
  <1> HIDE DEF r, q, a, b
  <1>3. data \in Seq(Nat) /\ p + 1 + Len(EncodeVarint(v)) = 1 + Len(data)
    <2>1. data \in Seq(Nat) /\ Len(data) = Len(a) + Len(b)
      BY <1>1
    <2> QED
      BY <1>0, <1>1, <2>1
  <1> HIDE DEF data, p
  <1>4. Holds(data, 1, a) /\ Holds(data, p, b)
    <2>1. Holds(data, 1, a \o b)
      BY <1>3, HoldsSelf DEF data
    <2> QED
      BY <1>1, <1>3, <2>1, HoldsConcat DEF p
  <1>5. FieldsFrom(data)[p + 1 + Len(EncodeVarint(v))] = <<>> /\ <<>> \in Seq(FieldRecords)
    BY <1>3, IterIs
  <1>6. FieldsFrom(data)[p] = <<q>> \o FieldsFrom(data)[p + 1 + Len(EncodeVarint(v))]
    BY <1>3, <1>4, <1>5, CountField DEF b, q
  <1>7. FieldsFrom(data)[p] = <<q>>
    <2>1. <<q>> \o <<>> = <<q>>
      BY <1>2, ConcatEmptySeq
    <2> QED
      BY <1>5, <1>6, <2>1
  <1>8. FieldsFrom(data)[1] = <<r>> \o FieldsFrom(data)[p]
    BY <1>2, <1>3, <1>4, <1>7, TextField, ZenonT(40) DEF a, p, r
  <1>9. <<r>> \o <<q>> = <<r, q>>
    BY <1>2, Pair
  <1>10. IterProtoFields(data) = <<r, q>>
    BY <1>3, <1>7, <1>8, <1>9, IterIs
  <1> QED
    BY <1>10 DEF data, a, b, r, q

\* The greatest of one number.
LEMMA MaxOfOne ==
    ASSUME NEW n \in Nat
    PROVE  Max({n}) = n
  BY DEF Max

\* A field that is there once, or not at all.
LEMMA FieldOfFound ==
    ASSUME NEW s, NEW f, NEW w, NEW d
    PROVE  /\ Found(s, f, w) = {} => FieldOf(s, f, w, d) = d
           /\ \A n \in Nat : Found(s, f, w) = {n} => FieldOf(s, f, w, d) = s[n].value
  <1>1. ASSUME NEW n \in Nat, Found(s, f, w) = {n} PROVE FieldOf(s, f, w, d) = s[n].value
    <2>1. {n} # {}
      OBVIOUS
    <2> QED
      BY <1>1, <2>1, MaxOfOne, Zenon DEF FieldOf
  <1> QED
    BY <1>1, Zenon DEF FieldOf

\* Of a message of one field: the field,
LEMMA FieldOfOne ==
    ASSUME NEW f, NEW w, NEW x, NEW d
    PROVE  FieldOf(<<Record(f, w, x)>>, f, w, d) = x
  <1> DEFINE s == <<Record(f, w, x)>>
  <1>1. DOMAIN s = {1} /\ s[1].field = f /\ s[1].wire = w /\ s[1].value = x
    BY DEF Record
  <1> HIDE DEF s
  <1>2. Found(s, f, w) = {1}
    BY <1>1 DEF Found
  <1>3. FieldOf(s, f, w, d) = x
    BY <1>1, <1>2, FieldOfFound
  <1> QED
    BY <1>3 DEF s

\* and any other one.
LEMMA FieldOfOther ==
    ASSUME NEW f, NEW w, NEW x, NEW d, NEW g, NEW u, g # f \/ u # w
    PROVE  FieldOf(<<Record(f, w, x)>>, g, u, d) = d
  <1> DEFINE s == <<Record(f, w, x)>>
  <1>1. DOMAIN s = {1} /\ s[1].field = f /\ s[1].wire = w
    BY DEF Record
  <1> HIDE DEF s
  <1>2. Found(s, g, u) = {}
    BY <1>1 DEF Found
  <1>3. FieldOf(s, g, u, d) = d
    BY <1>2, FieldOfFound
  <1> QED
    BY <1>3 DEF s

\* Of a message of two fields.
LEMMA FieldOfTwo ==
    ASSUME NEW f, NEW w, NEW x, NEW g, NEW u, NEW y, NEW d, f # g \/ w # u
    PROVE  /\ FieldOf(<<Record(f, w, x), Record(g, u, y)>>, f, w, d) = x
           /\ FieldOf(<<Record(f, w, x), Record(g, u, y)>>, g, u, d) = y
  <1> DEFINE s == <<Record(f, w, x), Record(g, u, y)>>
  <1>1. /\ DOMAIN s = {1, 2} /\ s[1].field = f /\ s[1].wire = w /\ s[1].value = x
        /\ s[2].field = g /\ s[2].wire = u /\ s[2].value = y
    BY DEF Record
  <1> HIDE DEF s
  <1>2. Found(s, f, w) = {1} /\ Found(s, g, u) = {2}
    BY <1>1 DEF Found
  <1>3. FieldOf(s, f, w, d) = x /\ FieldOf(s, g, u, d) = y
    BY <1>1, <1>2, FieldOfFound
  <1> QED
    BY <1>3 DEF s

-----------------------------------------------------------------------------
(* Answers.                                                                 *)

\* The last k elements.
LastOf(g, N, k) == [j \in 1..k |-> g[N - k + j]]

\* g has N elements.
Row(g, N, S) == g \in [1..N -> S]

\* One more of the last elements.
LEMMA LastOfStep ==
    ASSUME NEW S, NEW N \in Nat, NEW g, Row(g, N, S), NEW k \in 1..N
    PROVE  /\ <<g[N - k + 1]>> \o LastOf(g, N, k - 1) = LastOf(g, N, k)
           /\ LastOf(g, N, k) \in Seq(S) /\ LastOf(g, N, k - 1) \in Seq(S)
  <1> DEFINE r == <<g[N - k + 1]>>
             s == LastOf(g, N, k - 1)
             t == LastOf(g, N, k)
  <1>0. N \in Nat /\ k \in Nat /\ k - 1 \in Nat /\ N - k + 1 \in 1..N /\ g \in [1..N -> S]
    BY DEF Row
  <1>1. r \in Seq(S) /\ Len(r) = 1 /\ r[1] = g[N - k + 1]
    BY <1>0
  <1>2. s \in Seq(S) /\ Len(s) = k - 1 /\ \A j \in 1..(k - 1) : s[j] = g[N - (k - 1) + j]
    <2>1. \A j \in 1..(k - 1) : N - (k - 1) + j \in 1..N
      BY <1>0
    <2> QED
      BY <1>0, <2>1 DEF LastOf
  <1>3. t \in Seq(S) /\ Len(t) = k /\ \A j \in 1..k : t[j] = g[N - k + j]
    <2>1. \A j \in 1..k : N - k + j \in 1..N
      BY <1>0
    <2> QED
      BY <1>0, <2>1 DEF LastOf
  <1> HIDE DEF r, s, t
  <1>4. /\ r \o s \in Seq(S) /\ Len(r \o s) = 1 + (k - 1)
        /\ \A j \in 1..(1 + (k - 1)) : (r \o s)[j] = IF j <= 1 THEN r[j] ELSE s[j - 1]
    <2>1. r \o s \in Seq(S)
      BY <1>1, <1>2
    <2>2. Len(r \o s) = 1 + (k - 1) /\ \A j \in 1..(1 + (k - 1)) : (r \o s)[j] = IF j <= 1 THEN r[j] ELSE s[j - 1]
      <3>1. /\ Len(r \o s) = Len(r) + Len(s)
            /\ \A j \in 1..(Len(r) + Len(s)) : (r \o s)[j] = IF j <= Len(r) THEN r[j] ELSE s[j - Len(r)]
        <4>1. r \in Seq(S) /\ s \in Seq(S)
          BY <1>1, <1>2
        <4> QED
          BY <4>1, ConcatProperties, Zenon
      <3> QED
        BY <1>1, <1>2, <3>1
    <2> QED
      BY <2>1, <2>2
  <1>5. ASSUME NEW j \in 1..k PROVE (r \o s)[j] = t[j]
    <2>1. CASE j = 1
      <3>1. 1 \in 1..(1 + (k - 1)) /\ 1 <= 1 /\ 1 \in 1..k
        BY <1>0
      <3>2. (r \o s)[1] = r[1]
        BY <1>4, <3>1
      <3>3. t[1] = g[N - k + 1]
        BY <1>3, <3>1
      <3> QED
        BY <1>1, <2>1, <3>2, <3>3
    <2>2. CASE j # 1
      <3>1. j - 1 \in 1..(k - 1) /\ ~(j <= 1) /\ N - (k - 1) + (j - 1) = N - k + j /\ j \in 1..(1 + (k - 1))
        BY <1>0, <2>2
      <3> QED
        BY <1>2, <1>3, <1>4, <3>1
    <2> QED
      BY <2>1, <2>2
  <1>6. r \o s = t
    <2>1. Len(r \o s) = Len(t) /\ Len(t) = k
      BY <1>0, <1>3, <1>4
    <2> QED
      BY <1>3, <1>4, <1>5, <2>1, SeqEqual
  <1> QED
    BY <1>2, <1>3, <1>6 DEF r, s, t

\* A message of any number of texts, field 1, is read as them.
LEMMA ManyTexts ==
    ASSUME NEW N \in Nat, NEW d \in [1..N -> Seq(Nat)]
    PROVE  /\ FlattenSeq([i \in 1..N |-> EncodeBytes(1, d[i])]) \in Seq(Nat)
           /\ IterProtoFields(FlattenSeq([i \in 1..N |-> EncodeBytes(1, d[i])])) = [i \in 1..N |-> Record(1, 2, d[i])]
  <1> DEFINE ss == [i \in 1..N |-> EncodeBytes(1, d[i])]
             g == [i \in 1..N |-> Record(1, 2, d[i])]
             data == FlattenSeq(ss)
             F == FieldsFrom(data)
  <1>1. /\ ss \in Seq(Seq(Nat)) /\ Len(ss) = N
        /\ \A i \in 1..N : ss[i] = EncodeBytes(1, d[i]) /\ ss[i] \in Seq(Nat) /\ Len(ss[i]) \in Nat
    <2>1. \A i \in 1..N : EncodeBytes(1, d[i]) \in Seq(Nat)
      BY EncodeBytesType
    <2> QED
      BY <2>1
  <1>2. g \in [1..N -> FieldRecords] /\ \A i \in 1..N : g[i] = Record(1, 2, d[i])
    <2>1. \A i \in 1..N : Record(1, 2, d[i]) \in FieldRecords
      BY RecordType
    <2> QED
      BY <2>1
  <1> HIDE DEF ss, g
  <1>3. PICK f \in [0..N -> Seq(Nat)] :
            /\ f[0] = <<>> /\ \A i \in 1..N : f[i] = f[i - 1] \o ss[i]
            /\ data = f[N]
    BY <1>1, FlattenSteps
  <1>4. data \in Seq(Nat)
    BY <1>3
  <1> HIDE DEF data, F
  <1>5. \A k \in 0..N : Holds(data, 1, f[N - k])
    <2> DEFINE T == {k \in 0..N : Holds(data, 1, f[N - k])}
    <2>1. 0 \in T
      <3>1. N - 0 = N
        OBVIOUS
      <3> QED
        BY <1>3, <1>4, <3>1, HoldsSelf
    <2>2. ASSUME NEW k \in 1..N, k - 1 \in T PROVE k \in T
      <3>1. N - (k - 1) \in 1..N /\ N - (k - 1) - 1 = N - k /\ N - k \in 0..N
        OBVIOUS
      <3>2. Holds(data, 1, f[N - k] \o ss[N - (k - 1)])
        BY <1>3, <2>2, <3>1
      <3>3. Holds(data, 1, f[N - k])
        BY <1>1, <1>3, <1>4, <3>1, <3>2, HoldsConcat
      <3> QED
        BY <3>3
    <2> HIDE DEF T
    <2>3. \A k \in 0..N : k \in T
      BY <2>1, <2>2, UpTo
    <2> QED
      BY <2>3 DEF T
  <1>6. ASSUME NEW i \in 1..N
        PROVE  /\ Holds(data, 1 + Len(f[i - 1]), EncodeBytes(1, d[i]))
               /\ 1 + Len(f[i]) = 1 + Len(f[i - 1]) + Len(EncodeBytes(1, d[i]))
    <2>1. N - i \in 0..N /\ N - (N - i) = i /\ i - 1 \in 0..N
      OBVIOUS
    <2>2. Holds(data, 1, f[i - 1] \o ss[i]) /\ f[i - 1] \in Seq(Nat)
      BY <1>3, <1>5, <2>1
    <2>3. Holds(data, 1 + Len(f[i - 1]), ss[i])
      BY <1>1, <1>4, <2>2, HoldsConcat
    <2>4. ASSUME NEW a \in Seq(Nat), NEW b \in Seq(Nat)
          PROVE  Len(a \o b) = Len(a) + Len(b) /\ Len(a) \in Nat /\ Len(b) \in Nat
      OBVIOUS
    <2>5. ss[i] = EncodeBytes(1, d[i]) /\ ss[i] \in Seq(Nat) /\ f[i] = f[i - 1] \o ss[i]
      BY <1>1, <1>3
    <2>6. Len(f[i]) = Len(f[i - 1]) + Len(ss[i]) /\ Len(f[i - 1]) \in Nat /\ Len(ss[i]) \in Nat
      BY <2>2, <2>4, <2>5
    <2>7. 1 + Len(f[i]) = 1 + Len(f[i - 1]) + Len(ss[i])
      <3> DEFINE x == Len(f[i])
                 y == Len(f[i - 1])
                 z == Len(ss[i])
      <3>1. x = y + z /\ y \in Nat /\ z \in Nat
        BY <2>6
      <3> HIDE DEF x, y, z
      <3>2. 1 + x = 1 + y + z
        BY <3>1
      <3> QED
        BY <3>2 DEF x, y, z
    <2> QED
      BY <2>3, <2>5, <2>7
  <1>7. \A k \in 0..N : F[1 + Len(f[N - k])] = LastOf(g, N, k)
    <2> DEFINE P(k) == F[1 + Len(f[N - k])] = LastOf(g, N, k)
               T == {k \in 0..N : P(k)}
    <2>0. \A k \in 1..N : /\ <<g[N - k + 1]>> \o LastOf(g, N, k - 1) = LastOf(g, N, k)
                          /\ LastOf(g, N, k - 1) \in Seq(FieldRecords)
      <3>1. Row(g, N, FieldRecords)
        BY <1>2 DEF Row
      <3> QED
        BY <3>1, LastOfStep
    <2>1. 0 \in T
      <3>1. N - 0 = N /\ 0 \in 0..N
        OBVIOUS
      <3>2. F[1 + Len(data)] = <<>>
        BY <1>4, IterIs DEF F
      <3>3. LastOf(g, N, 0) = <<>>
        BY DEF LastOf
      <3>4. P(0)
        BY <1>3, <3>1, <3>2, <3>3
      <3> HIDE DEF P
      <3> QED
        BY <3>1, <3>4
    <2>2. ASSUME NEW k \in 1..N, k - 1 \in T PROVE k \in T
      <3> DEFINE i == N - (k - 1)
                 pos == 1 + Len(f[i - 1])
      <3>1. i \in 1..N /\ i - 1 = N - k /\ i = N - k + 1 /\ k \in 0..N
        OBVIOUS
      <3>2. P(k - 1)
        BY <2>2
      <3>3. F[1 + Len(f[i])] = LastOf(g, N, k - 1)
        BY <3>2
      <3> HIDE DEF i
      <3>4. Holds(data, pos, EncodeBytes(1, d[i])) /\ 1 + Len(f[i]) = pos + Len(EncodeBytes(1, d[i])) /\ d[i] \in Seq(Nat)
        BY <1>6, <3>1
      <3>5. F[pos + Len(EncodeBytes(1, d[i]))] = LastOf(g, N, k - 1)
        BY <3>3, <3>4
      <3>6. F[pos + Len(EncodeBytes(1, d[i]))] \in Seq(FieldRecords)
        BY <2>0, <3>5
      <3> HIDE DEF pos
      <3>7. F[pos] = <<Record(1, 2, d[i])>> \o F[pos + Len(EncodeBytes(1, d[i]))]
        <4>1. /\ FieldsFrom(data)[pos + Len(EncodeBytes(1, d[i]))] \in Seq(FieldRecords)
              /\ 1 \in Nat /\ data \in Seq(Nat) /\ d[i] \in Seq(Nat)
              /\ Holds(data, pos, EncodeBytes(1, d[i]))
          BY <1>4, <3>4, <3>6 DEF F
        <4>2. FieldsFrom(data)[pos] = <<Record(1, 2, d[i])>> \o FieldsFrom(data)[pos + Len(EncodeBytes(1, d[i]))]
          BY <4>1, TextField, SMTT(30)
        <4> QED
          BY <4>2 DEF F
      <3>8. F[pos] = LastOf(g, N, k)
        <4>1. Record(1, 2, d[i]) = g[N - k + 1]
          BY <1>2, <3>1
        <4> QED
          BY <2>0, <3>5, <3>7, <4>1
      <3>9. P(k)
        BY <3>1, <3>8 DEF pos
      <3> HIDE DEF P
      <3> QED
        BY <3>1, <3>9
    <2> HIDE DEF T
    <2>3. \A k \in 0..N : k \in T
      BY <2>1, <2>2, UpTo
    <2> QED
      BY <2>3 DEF T
  <1>8. F[1] = LastOf(g, N, N)
    <2>1. N \in 0..N /\ N - N = 0 /\ Len(<<>>) = 0 /\ 1 + 0 = 1
      OBVIOUS
    <2>2. F[1 + Len(f[N - N])] = LastOf(g, N, N)
      BY <1>7, <2>1
    <2> QED
      BY <1>3, <2>1, <2>2
  <1>9. LastOf(g, N, N) = g
    <2>1. \A j \in 1..N : N - N + j = j
      OBVIOUS
    <2> QED
      BY <1>2, <2>1 DEF LastOf
  <1>10. IterProtoFields(data) = g
    BY <1>4, <1>8, <1>9, IterIs DEF F
  <1> QED
    BY <1>4, <1>10 DEF data, ss, g

\* What Xray writes of one name.
Stat(name, v) == EncodeBytes(1, name) \o (IF v = 0 THEN <<>> ELSE <<16>> \o EncodeVarint(v))
\* What the bot reads of one name.
NameIn(text) == FieldOf(IterProtoFields(text), 1, 2, <<>>)
ValueIn(text) == FieldOf(IterProtoFields(text), 2, 0, 0)

\* The bot reads the name and the number of a stat, a zero that is left out included.
LEMMA StatRead ==
    ASSUME NEW name \in Seq(Nat), NEW v \in Nat
    PROVE  /\ Stat(name, v) \in Seq(Nat)
           /\ NameIn(Stat(name, v)) = name
           /\ ValueIn(Stat(name, v)) = v
  <1> DEFINE a == EncodeBytes(1, name)
             b == <<16>> \o EncodeVarint(v)
             t == Stat(name, v)
  <1>0. a \in Seq(Nat) /\ b \in Seq(Nat) /\ 1 \in Nat
    <2>1. 1 \in Nat /\ <<16>> \in Seq(Nat) /\ EncodeVarint(v) \in Seq(Nat)
      BY EncodeVarintType
    <2> QED
      BY <2>1, EncodeBytesType
  <1>1. CASE v = 0
    <2>1. t = a
      <3>1. t = a \o <<>>
        BY <1>1 DEF Stat
      <3> HIDE DEF a, t
      <3> QED
        BY <1>0, <3>1, ConcatEmptySeq
    <2>2. IterProtoFields(t) = <<Record(1, 2, name)>>
      BY <1>0, <2>1, OneText
    <2> HIDE DEF a, t
    <2>4. NameIn(t) = name /\ ValueIn(t) = 0
      <3>1. FieldOf(<<Record(1, 2, name)>>, 1, 2, <<>>) = name
        BY FieldOfOne
      <3>2. FieldOf(<<Record(1, 2, name)>>, 2, 0, 0) = 0
        <4>1. 2 # 1
          OBVIOUS
        <4> QED
          BY <4>1, FieldOfOther
      <3> QED
        BY <2>2, <3>1, <3>2 DEF NameIn, ValueIn
    <2> QED
      BY <1>0, <1>1, <2>1, <2>4 DEF t
  <1>2. CASE v # 0
    <2>1. t = a \o b
      BY <1>2 DEF Stat
    <2>2. IterProtoFields(t) = <<Record(1, 2, name), Record(2, 0, v)>>
      BY <1>0, <2>1, TextAndCount
    <2>5. t \in Seq(Nat)
      <3> HIDE DEF a, b, t
      <3> QED
        BY <1>0, <2>1
    <2> HIDE DEF a, b, t
    <2>4. NameIn(t) = name /\ ValueIn(t) = v
      BY <2>2, FieldOfTwo DEF NameIn, ValueIn
    <2> QED
      BY <2>4, <2>5 DEF t
  <1> QED
    BY <1>1, <1>2

\* ParseQueryStatsResponse in these terms.
LEMMA AnswerIs ==
    ASSUME NEW data
    PROVE  LET fields == IterProtoFields(data)
           IN ParseQueryStatsResponse(data) =
                  [name \in {NameIn(fields[i].value) : i \in Found(fields, 1, 2)} \ {<<>>} |->
                      ValueIn(fields[Max({i \in Found(fields, 1, 2) : NameIn(fields[i].value) = name})].value)]
  BY DEF ParseQueryStatsResponse, NameIn, ValueIn

\* Whatever Xray has counted, of whomever: the bot reads it in the bytes of the answer.
THEOREM AnswerRead ==
    ASSUME NEW N, IsFiniteSet(N), N \subseteq Seq(Nat) \ {<<>>}, NEW online \in [N -> Nat]
    PROVE  ParseQueryStatsResponse(QueryStatsResponse(online)) = online
  <1> DEFINE names == SetToSeq(N)
             n == Len(names)
             d == [i \in 1..n |-> Stat(names[i], online[names[i]])]
             data == QueryStatsResponse(online)
             fields == IterProtoFields(data)
             stats == Found(fields, 1, 2)
             same(name) == {i \in stats : NameIn(fields[i].value) = name}
  <1>1. /\ names \in Seq(N) /\ n \in Nat /\ DOMAIN names = 1..n
        /\ \A i \in 1..n : names[i] \in N
        /\ \A x \in N : \E i \in 1..n : names[i] = x
        /\ \A i, j \in 1..n : names[i] = names[j] => i = j
    <2>1. /\ names \in Seq(N) /\ DOMAIN names = 1..n
          /\ \A x \in N : \E i \in 1..n : names[i] = x
          /\ \A i, j \in 1..n : names[i] = names[j] => i = j
      BY SetToSeqOf, Zenon
    <2> HIDE DEF names
    <2>2. n \in Nat /\ \A i \in 1..n : names[i] \in N
      BY <2>1
    <2> QED
      BY <2>1, <2>2, Zenon
  <1>2. data = FlattenSeq([i \in DOMAIN names |->
                   EncodeBytes(1, EncodeBytes(1, names[i]) \o
                       (IF online[names[i]] = 0 THEN <<>> ELSE <<16>> \o EncodeVarint(online[names[i]])))])
    <2>1. DOMAIN online = N
      OBVIOUS
    <2> QED
      BY <2>1 DEF QueryStatsResponse
  <1> HIDE DEF names, n
  <1>3. \A i \in 1..n : /\ Stat(names[i], online[names[i]]) \in Seq(Nat)
                        /\ NameIn(Stat(names[i], online[names[i]])) = names[i]
                        /\ ValueIn(Stat(names[i], online[names[i]])) = online[names[i]]
    <2>1. \A i \in 1..n : names[i] \in Seq(Nat) /\ online[names[i]] \in Nat
      BY <1>1
    <2> QED
      BY <2>1, StatRead
  <1>4. d \in [1..n -> Seq(Nat)] /\ \A i \in 1..n : d[i] = Stat(names[i], online[names[i]])
    BY <1>3
  <1>5. data = FlattenSeq([i \in 1..n |-> EncodeBytes(1, d[i])])
    BY <1>1, <1>2 DEF Stat
  <1> HIDE DEF d, data
  <1>6. fields = [i \in 1..n |-> Record(1, 2, d[i])]
    BY <1>1, <1>4, <1>5, ManyTexts
  <1> HIDE DEF fields
  <1>7. stats = 1..n /\ \A i \in 1..n : fields[i].value = d[i]
    <2>1. DOMAIN fields = 1..n /\ \A i \in 1..n : fields[i].field = 1 /\ fields[i].wire = 2 /\ fields[i].value = d[i]
      BY <1>6 DEF Record
    <2> QED
      BY <2>1 DEF Found
  <1>8. \A i \in 1..n : NameIn(fields[i].value) = names[i] /\ ValueIn(fields[i].value) = online[names[i]]
    BY <1>3, <1>4, <1>7
  <1>9. {NameIn(fields[i].value) : i \in stats} \ {<<>>} = N
    BY <1>1, <1>7, <1>8
  <1>10. ASSUME NEW name \in N
         PROVE  ValueIn(fields[Max(same(name))].value) = online[name]
    <2>1. PICK i \in 1..n : names[i] = name
      BY <1>1
    <2>2. same(name) = {i}
      <3>1. \A k \in stats : NameIn(fields[k].value) = name <=> k = i
        <4>1. ASSUME NEW k \in 1..n PROVE NameIn(fields[k].value) = name <=> k = i
          <5>1. NameIn(fields[k].value) = names[k]
            BY <1>8
          <5> QED
            BY <1>1, <2>1, <5>1
        <4> QED
          BY <1>7, <4>1
      <3>2. i \in stats
        BY <1>7
      <3> HIDE DEF stats
      <3> QED
        BY <3>1, <3>2
    <2>3. Max({i}) = i
      BY <1>1, <2>1, MaxOfOne
    <2> QED
      BY <1>8, <2>1, <2>2, <2>3
  <1>11. ParseQueryStatsResponse(data) =
             [name \in {NameIn(fields[i].value) : i \in stats} \ {<<>>} |-> ValueIn(fields[Max(same(name))].value)]
    BY AnswerIs DEF fields
  <1>12. ParseQueryStatsResponse(data) = [name \in N |-> ValueIn(fields[Max(same(name))].value)]
    <2> HIDE DEF stats, same
    <2> QED
      BY <1>9, <1>11
  <1>13. ParseQueryStatsResponse(data) = online
    <2> HIDE DEF same
    <2> QED
      BY <1>10, <1>12
  <1> QED
    BY <1>13 DEF data

-----------------------------------------------------------------------------
(* Requests.                                                                *)

\* The text of a field of a message.
TextIn(data, field) == FieldOf(IterProtoFields(data), field, 2, <<>>)

\* A text is a sequence of bytes
LEMMA TextType ==
    ASSUME NEW length \in Nat, NEW byte \in Nat
    PROVE  Text(length, byte) \in Seq(Nat)
  BY DEF Text

\* of its length.
LEMMA TextLength ==
    ASSUME NEW length \in Nat, NEW byte \in Nat
    PROVE  Len(Text(length, byte)) = length
  BY DEF Text

\* The two texts of a message of two,
LEMMA TextsIn ==
    ASSUME NEW f \in Nat, NEW x \in Seq(Nat), NEW g \in Nat, NEW y \in Seq(Nat), f # g
    PROVE  /\ EncodeBytes(f, x) \o EncodeBytes(g, y) \in Seq(Nat)
           /\ TextIn(EncodeBytes(f, x) \o EncodeBytes(g, y), f) = x
           /\ TextIn(EncodeBytes(f, x) \o EncodeBytes(g, y), g) = y
  <1>1. EncodeBytes(f, x) \in Seq(Nat) /\ EncodeBytes(g, y) \in Seq(Nat)
    BY EncodeBytesType
  <1>2. IterProtoFields(EncodeBytes(f, x) \o EncodeBytes(g, y)) = <<Record(f, 2, x), Record(g, 2, y)>>
    BY TwoTexts
  <1>3. /\ FieldOf(<<Record(f, 2, x), Record(g, 2, y)>>, f, 2, <<>>) = x
        /\ FieldOf(<<Record(f, 2, x), Record(g, 2, y)>>, g, 2, <<>>) = y
    BY FieldOfTwo
  <1> QED
    BY <1>1, <1>2, <1>3 DEF TextIn

\* the text of a message of one.
LEMMA TextInOne ==
    ASSUME NEW f \in Nat, NEW x \in Seq(Nat)
    PROVE  EncodeBytes(f, x) \in Seq(Nat) /\ TextIn(EncodeBytes(f, x), f) = x
  <1>1. IterProtoFields(EncodeBytes(f, x)) = <<Record(f, 2, x)>>
    BY OneText
  <1>2. FieldOf(<<Record(f, 2, x)>>, f, 2, <<>>) = x
    BY FieldOfOne
  <1> QED
    BY <1>1, <1>2, EncodeBytesType DEF TextIn

\* ReadAlterInboundRequest in these terms.
LEMMA RequestIs ==
    ASSUME NEW data
    PROVE  ReadAlterInboundRequest(data) =
               LET type == TextIn(TextIn(data, 2), 1)
                   operation == TextIn(TextIn(data, 2), 2)
                   member == TextIn(operation, 1)
                   account == TextIn(member, 3)
               IN IF type = AddUserType
                  THEN [tag |-> TextIn(data, 1), type |-> type, email |-> TextIn(member, 2),
                        account |-> TextIn(account, 1), uuid |-> TextIn(TextIn(account, 2), 1)]
                  ELSE [tag |-> TextIn(data, 1), type |-> type, email |-> TextIn(operation, 1)]
  BY DEF ReadAlterInboundRequest, TextIn

\* Xray reads the type and the value of a typed message,
LEMMA TypedRead ==
    ASSUME NEW t \in Seq(Nat), NEW v \in Seq(Nat)
    PROVE  /\ BuildTypedMessage(t, v) \in Seq(Nat)
           /\ TextIn(BuildTypedMessage(t, v), 1) = t /\ TextIn(BuildTypedMessage(t, v), 2) = v
  BY TextsIn DEF BuildTypedMessage

\* and the tag, the type and the operation of a request.
LEMMA RequestRead ==
    ASSUME NEW tag \in Seq(Nat), NEW t \in Seq(Nat), NEW v \in Seq(Nat)
    PROVE  LET data == BuildAlterInboundRequest(tag, t, v)
           IN TextIn(data, 1) = tag /\ TextIn(TextIn(data, 2), 1) = t /\ TextIn(TextIn(data, 2), 2) = v
  <1> DEFINE typed == BuildTypedMessage(t, v)
             data == BuildAlterInboundRequest(tag, t, v)
  <1>1. typed \in Seq(Nat) /\ TextIn(typed, 1) = t /\ TextIn(typed, 2) = v
    BY TypedRead
  <1>2. data = EncodeBytes(1, tag) \o EncodeBytes(2, typed)
    BY DEF BuildAlterInboundRequest
  <1> HIDE DEF typed, data
  <1>3. TextIn(data, 1) = tag /\ TextIn(data, 2) = typed
    BY <1>1, <1>2, TextsIn
  <1> QED
    BY <1>1, <1>3 DEF data

\* It tells the operations apart.
LEMMA TypesDiffer ==
    RemoveUserType \in Seq(Nat) /\ RemoveUserType # AddUserType
  <1>1. Len(Text(45, 114)) = 45
    BY TextLength
  <1>2. Len(Text(42, 97)) = 42
    BY TextLength
  <1>3. Text(45, 114) \in Seq(Nat)
    BY TextType
  <1>4. 45 # 42
    OBVIOUS
  <1>5. Text(45, 114) # Text(42, 97)
    BY <1>1, <1>2, <1>4
  <1> QED
    BY <1>3, <1>5 DEF RemoveUserType, AddUserType

\* Xray reads whom to remove,
LEMMA RemovalRead ==
    ASSUME NEW tag \in Seq(Nat), NEW email \in Seq(Nat)
    PROVE  ReadAlterInboundRequest(BuildAlterInboundRequest(tag, RemoveUserType, BuildRemoveUserOperation(email))) =
               [tag |-> tag, type |-> RemoveUserType, email |-> email]
  <1> DEFINE command == BuildRemoveUserOperation(email)
             data == BuildAlterInboundRequest(tag, RemoveUserType, command)
  <1>1. command \in Seq(Nat) /\ TextIn(command, 1) = email
    BY TextInOne DEF BuildRemoveUserOperation
  <1>2. RemoveUserType \in Seq(Nat) /\ RemoveUserType # AddUserType
    BY TypesDiffer
  <1> HIDE DEF command
  <1>4. TextIn(data, 1) = tag /\ TextIn(TextIn(data, 2), 1) = RemoveUserType /\ TextIn(TextIn(data, 2), 2) = command
    BY <1>1, <1>2, RequestRead
  <1> HIDE DEF data
  <1>5. ReadAlterInboundRequest(data) = [tag |-> tag, type |-> RemoveUserType, email |-> email]
    BY <1>1, <1>2, <1>4, RequestIs
  <1> QED
    BY <1>5 DEF data, command

\* and whom to add, with which account.
LEMMA AdditionRead ==
    ASSUME NEW tag \in Seq(Nat), NEW email \in Seq(Nat), NEW uuid \in Seq(Nat)
    PROVE  ReadAlterInboundRequest(BuildAlterInboundRequest(tag, AddUserType, BuildAddUserOperation(uuid, email))) =
               [tag |-> tag, type |-> AddUserType, email |-> email, account |-> VlessAccountType, uuid |-> uuid]
  <1> DEFINE id == EncodeBytes(1, uuid)
             account == BuildTypedMessage(VlessAccountType, id)
             member == EncodeBytes(2, email) \o EncodeBytes(3, account)
             command == BuildAddUserOperation(uuid, email)
             data == BuildAlterInboundRequest(tag, AddUserType, command)
  <1>1. id \in Seq(Nat) /\ TextIn(id, 1) = uuid
    BY TextInOne
  <1>2. VlessAccountType \in Seq(Nat) /\ AddUserType \in Seq(Nat)
    BY TextType DEF VlessAccountType, AddUserType
  <1>0. command = EncodeBytes(1, member)
    BY DEF BuildAddUserOperation
  <1> HIDE DEF id
  <1>3. account \in Seq(Nat) /\ TextIn(account, 1) = VlessAccountType /\ TextIn(account, 2) = id
    BY <1>1, <1>2, TypedRead
  <1> HIDE DEF account
  <1>4. member \in Seq(Nat) /\ TextIn(member, 2) = email /\ TextIn(member, 3) = account
    BY <1>3, TextsIn
  <1> HIDE DEF member, command
  <1>5. command \in Seq(Nat) /\ TextIn(command, 1) = member
    BY <1>0, <1>4, TextInOne
  <1>6. TextIn(data, 1) = tag /\ TextIn(TextIn(data, 2), 1) = AddUserType /\ TextIn(TextIn(data, 2), 2) = command
    BY <1>2, <1>5, RequestRead
  <1> HIDE DEF data
  <1>7. ReadAlterInboundRequest(data) =
            [tag |-> tag, type |-> AddUserType, email |-> email, account |-> VlessAccountType, uuid |-> uuid]
    BY <1>1, <1>3, <1>4, <1>5, <1>6, RequestIs
  <1> QED
    BY <1>7 DEF data, command

-----------------------------------------------------------------------------
(* Names.                                                                   *)

\* There is a letter for every client, since the clients are finitely many,
LEMMA LetterOf ==
    /\ Letter \in [Clients -> Nat]
    /\ \A c, d \in Clients : Letter[c] = Letter[d] => c = d
  <1> DEFINE n == Cardinality(Clients)
             Good(f) == \A c, d \in Clients : f[c] = f[d] => c = d
  <1>1. IsFiniteSet(Clients)
    BY CountAssumption
  <1>2. n \in Nat /\ ExistsBijection(Clients, 1..n)
    BY <1>1, FS_CardinalityType, Fun_ExistsBijSymmetric
  <1>3. PICK f : f \in Bijection(Clients, 1..n)
    BY <1>2 DEF ExistsBijection
  <1>4. f \in [Clients -> 1..n] /\ Good(f)
    BY <1>3 DEF Bijection, Injection, IsInjective
  <1> HIDE DEF Good, n
  <1>5. \E g \in [Clients -> 1..n] : Good(g)
    BY <1>4
  <1>6. Letter = CHOOSE g \in [Clients -> 1..n] : Good(g)
    BY DEF Letter, Good, n
  <1>7. Letter \in [Clients -> 1..n] /\ Good(Letter)
    BY <1>5, <1>6
  <1>8. 1..n \subseteq Nat
    BY <1>2
  <1> QED
    BY <1>7, <1>8 DEF Good

\* so an e-mail has the length that is asked for,
LEMMA EmailOf ==
    ASSUME NEW c \in Clients
    PROVE  /\ Email[c] \in Seq(Nat) /\ Len(Email[c]) = EmailLength[c]
           /\ Email[c][1] = Letter[c]
  <1> DEFINE n == EmailLength[c]
             b == Letter[c]
  <1>1. n \in Nat \ {0} /\ b \in Nat
    BY CountAssumption, LetterOf
  <1>2. Email[c] = Text(n, b)
    BY DEF Email
  <1> HIDE DEF n, b
  <1>3. Text(n, b) \in Seq(Nat) /\ Len(Text(n, b)) = n /\ Text(n, b)[1] = b
    BY <1>1 DEF Text
  <1> QED
    BY <1>2, <1>3 DEF n, b

\* and no two clients have the same,
LEMMA EmailsDiffer ==
    ASSUME NEW c \in Clients, NEW d \in Clients, Email[c] = Email[d]
    PROVE  c = d
  <1>1. Letter[c] = Letter[d]
    BY EmailOf
  <1> QED
    BY <1>1, LetterOf

\* and the bot finds the e-mail in the name of the stat.
LEMMA StatNameOf ==
    ASSUME NEW c \in Clients
    PROVE  /\ StatName(c) \in Seq(Nat) \ {<<>>}
           /\ EmailFromStat(StatName(c)) = Email[c]
  <1> DEFINE a == Text(7, 117)
             e == Email[c]
             z == Text(9, 111)
             s == (a \o e) \o z
             n == Len(e)
             k == Len(s) - 9
  <1>1. a \in Seq(Nat) /\ z \in Seq(Nat)
    BY TextType
  <1>2. Len(a) = 7
    BY TextLength
  <1>3. Len(z) = 9
    BY TextLength
  <1>4. e \in Seq(Nat) /\ n \in Nat
    BY EmailOf
  <1>5. StatName(c) = s
    BY DEF StatName
  <1> HIDE DEF a, e, z
  <1>6. /\ a \o e \in Seq(Nat) /\ Len(a \o e) = 7 + n
        /\ \A i \in 1..(7 + n) : (a \o e)[i] = IF i <= 7 THEN a[i] ELSE e[i - 7]
    <2>1. /\ a \o e \in Seq(Nat) /\ Len(a \o e) = Len(a) + Len(e)
          /\ \A i \in 1..(Len(a) + Len(e)) : (a \o e)[i] = IF i <= Len(a) THEN a[i] ELSE e[i - Len(a)]
      BY <1>1, <1>4, ConcatProperties
    <2> QED
      BY <1>2, <2>1
  <1>7. /\ s \in Seq(Nat) /\ Len(s) = 7 + n + 9
        /\ \A i \in 1..(7 + n) : s[i] = (a \o e)[i]
    <2> DEFINE ae == a \o e
    <2>0. ae \in Seq(Nat) /\ Len(ae) = 7 + n
      BY <1>6
    <2> HIDE DEF ae
    <2>1. /\ ae \o z \in Seq(Nat) /\ Len(ae \o z) = Len(ae) + Len(z)
          /\ \A i \in 1..(Len(ae) + Len(z)) : (ae \o z)[i] = IF i <= Len(ae) THEN ae[i] ELSE z[i - Len(ae)]
      <3>1. z \in Seq(Nat) /\ ae \in Seq(Nat)
        BY <1>1, <2>0
      <3> QED
        BY ONLY <3>1, ConcatProperties
    <2>2. \A i \in 1..(7 + n) : i \in 1..(7 + n + 9) /\ i <= 7 + n
      BY <1>4
    <2>3. \A i \in 1..(7 + n) : (ae \o z)[i] = ae[i]
      BY <1>3, <2>0, <2>1, <2>2
    <2> QED
      BY <1>3, <2>0, <2>1, <2>3 DEF ae
  <1> HIDE DEF s, n
  <1>8. k = 7 + n /\ k \in Int /\ n \in Nat
    BY <1>4, <1>7 DEF n
  <1> HIDE DEF k
  <1>9. \A i \in 1..n : s[8 + i - 1] = e[i]
    <2> TAKE i \in 1..n
    <2>1. ASSUME NEW j, j = 8 + i - 1 PROVE s[j] = e[i]
      <3>1. j \in 1..(7 + n) /\ ~(j <= 7) /\ j - 7 = i
        BY <1>8, <2>1
      <3>2. s[j] = (a \o e)[j]
        BY <1>7, <3>1
      <3>3. (a \o e)[j] = e[j - 7]
        BY <1>6, <3>1
      <3> QED
        BY <3>1, <3>2, <3>3
    <2> QED
      BY <2>1
  <1>10. SubSeq(s, 8, k) \in Seq(Nat) /\ Len(SubSeq(s, 8, k)) = n /\ \A i \in 1..n : SubSeq(s, 8, k)[i] = s[8 + i - 1]
    <2>1. \A i \in 8..k : s[i] \in Nat
      BY <1>7, <1>8
    <2>2. /\ SubSeq(s, 8, k) \in Seq(Nat)
          /\ Len(SubSeq(s, 8, k)) = IF 8 <= k THEN k - 8 + 1 ELSE 0
          /\ \A i \in 1..(k - 8 + 1) : SubSeq(s, 8, k)[i] = s[8 + i - 1]
      BY <1>8, <2>1, SubSeqProperties
    <2>3. k - 8 + 1 = n /\ (IF 8 <= k THEN k - 8 + 1 ELSE 0) = n
      BY <1>8
    <2> QED
      BY <2>2, <2>3
  <1>11. SubSeq(s, 8, k) = e
    BY <1>4, <1>9, <1>10, SeqEqual DEF n
  <1>12. s # <<>>
    BY <1>7, <1>8
  <1> QED
    <2>1. EmailFromStat(s) = SubSeq(s, 8, k)
      BY DEF EmailFromStat, k
    <2> QED
      BY <1>5, <1>7, <1>11, <1>12, <2>1 DEF e

\* The limiter finds whose count is over the limit, and nobody else.
LEMMA FoundOverIs ==
    ASSUME NEW D \in SUBSET Clients, NEW counts \in [D -> Nat]
    PROVE  FoundOver(counts) = {c \in D : counts[c] > MaxIps}
  <1> DEFINE N == {StatName(c) : c \in D}
             Client(name) == CHOOSE c \in D : StatName(c) = name
             sent == [name \in N |-> counts[Client(name)]]
             f == [c \in D |-> StatName(c)]
             online == ParseQueryStatsResponse(QueryStatsResponse(sent))
  <1>1. IsFiniteSet(N)
    <2>1. IsFiniteSet(D)
      BY CountAssumption, FS_Subset
    <2>2. f \in Surjection(D, N)
      BY DEF Surjection
    <2> HIDE DEF f, N
    <2> QED
      BY <2>1, <2>2, FS_Surjection
  <1>2. \A c \in D : StatName(c) \in Seq(Nat) \ {<<>>} /\ EmailFromStat(StatName(c)) = Email[c]
    BY StatNameOf
  <1>3. N \subseteq Seq(Nat) \ {<<>>}
    BY <1>2
  <1>4. ASSUME NEW c \in D PROVE Client(StatName(c)) = c
    <2>1. \A d \in D : StatName(d) = StatName(c) => d = c
      <3> SUFFICES ASSUME NEW d \in D, StatName(d) = StatName(c) PROVE d = c
        OBVIOUS
      <3>1. Email[d] = Email[c]
        BY <1>2
      <3> QED
        BY <3>1, EmailsDiffer
    <2> QED
      BY <2>1
  <1> HIDE DEF Client
  <1>5. sent \in [N -> Nat] /\ \A c \in D : sent[StatName(c)] = counts[c]
    BY <1>4
  <1> HIDE DEF N, sent
  <1>6. online = sent
    BY <1>1, <1>3, <1>5, AnswerRead
  <1>7. FoundOver(counts) = {c \in Clients : \E name \in DOMAIN online :
                                EmailFromStat(name) = Email[c] /\ online[name] > MaxIps}
    BY DEF FoundOver, sent, N, Client
  <1>8. DOMAIN online = N
    BY <1>5, <1>6
  <1>9. ASSUME NEW c \in Clients
        PROVE  (\E name \in N : EmailFromStat(name) = Email[c] /\ sent[name] > MaxIps) <=> c \in D /\ counts[c] > MaxIps
    <2>1. ASSUME NEW name \in N, EmailFromStat(name) = Email[c], sent[name] > MaxIps
          PROVE  c \in D /\ counts[c] > MaxIps
      <3>1. PICK d \in D : name = StatName(d)
        BY DEF N
      <3>2. c = d
        BY <1>2, <2>1, <3>1, EmailsDiffer
      <3> QED
        BY <1>5, <2>1, <3>1, <3>2
    <2>2. ASSUME c \in D, counts[c] > MaxIps
          PROVE  \E name \in N : EmailFromStat(name) = Email[c] /\ sent[name] > MaxIps
      <3>1. StatName(c) \in N
        BY <2>2 DEF N
      <3> QED
        BY <1>2, <1>5, <2>2, <3>1
    <2> QED
      BY <2>1, <2>2
  <1> HIDE DEF online
  <1>10. FoundOver(counts) = {c \in Clients : c \in D /\ counts[c] > MaxIps}
    BY <1>6, <1>7, <1>8, <1>9
  <1> QED
    BY <1>10

-----------------------------------------------------------------------------
(* The limiter beside KeySync.                                              *)

\* The types of the limiter's variables that go over the wire; it resets nobody
\* unless a round has begun, and a round costs a fault.
LimiterInv ==
    /\ over \subseteq Clients /\ removed \in Clients \cup {None} /\ at \in XrayEndpoints \cup {None}
    /\ NoFault => endpoints = {} /\ over = {} /\ removed = None

\* What a step of the limiter leaves alone.
LimiterMoves ==
    /\ UNCHANGED <<db, userpass, late, pc, calls, locals, loopState, payload, open, generated, booting, hooks>>
    /\ xray' \in [XrayEndpoints -> SUBSET Clients]
    /\ faults' \in 0..MaxFaults
    /\ ~NoFault'

\* No step of the limiter does more,
LEMMA LimiterStepMoves ==
    ASSUME TypeInv, LimiterInv, LoadActiveSubscriptions \/ LimiterStep
    PROVE  LimiterMoves /\ LimiterInv'
  <1>0. xray \in [XrayEndpoints -> SUBSET Clients] /\ faults \in 0..MaxFaults /\ MaxFaults \in Nat
    BY FaultAssumption DEF TypeInv, TypeOK
  <1>1. CASE LoadActiveSubscriptions
    <2>1. UNCHANGED <<db, userpass, late, xray, pc, calls, locals, loopState, payload, open, generated, booting, hooks>>
      BY <1>1 DEF LoadActiveSubscriptions, relays
    <2>2. faults' \in 0..MaxFaults /\ faults' # MaxFaults
      BY <1>0, <1>1 DEF LoadActiveSubscriptions, Fault
    <2>3. UNCHANGED <<at, over, removed>>
      BY <1>1 DEF LoadActiveSubscriptions
    <2> QED
      BY <1>0, <2>1, <2>2, <2>3 DEF LimiterMoves, LimiterInv, NoFault
  <1>2. ASSUME NEW e \in XrayEndpoints, NothingToReset(e)
        PROVE  LimiterMoves /\ LimiterInv'
    <2>1. UNCHANGED <<db, userpass, late, xray, pc, calls, locals, loopState, payload, open, generated, booting, hooks, faults>>
      BY <1>2 DEF NothingToReset, vars, db, locals, loopState
    <2>2. UNCHANGED <<at, over, removed>> /\ ~NoFault
      BY <1>2 DEF NothingToReset, LimiterInv
    <2> QED
      BY <1>0, <2>1, <2>2 DEF LimiterMoves, LimiterInv, NoFault
  <1>3. ASSUME NEW e \in XrayEndpoints, SomeOver(e)
        PROVE  LimiterMoves /\ LimiterInv'
    <2>1. UNCHANGED <<db, userpass, late, xray, pc, calls, locals, loopState, payload, open, generated, booting, hooks, faults>>
      BY <1>3 DEF SomeOver, vars, db, locals, loopState
    <2>2. at' = e /\ UNCHANGED removed /\ over' \subseteq xray[e] /\ ~NoFault
      BY <1>3 DEF SomeOver, LimiterInv
    <2>3. over' \subseteq Clients
      BY <1>0, <2>2
    <2> QED
      BY <1>0, <2>1, <2>2, <2>3 DEF LimiterMoves, LimiterInv, NoFault
  <1>4. ASSUME NEW c \in Clients, Reset(c)
        PROVE  LimiterMoves /\ LimiterInv'
    <2>1. UNCHANGED <<db, userpass, late, pc, calls, locals, loopState, payload, open, generated, booting, hooks, faults>>
      BY <1>4 DEF Reset, world
    <2>2. /\ over' \subseteq over /\ removed' \in {None, c} /\ at' \in {None, at}
          /\ xray' \in [XrayEndpoints -> SUBSET Clients] /\ ~NoFault
      <3>1. xray' \in [XrayEndpoints -> SUBSET Clients]
        BY <1>0, <1>4 DEF Reset
      <3> QED
        BY <1>4, <3>1 DEF Reset, LimiterInv
    <2> QED
      BY <1>0, <2>1, <2>2 DEF LimiterMoves, LimiterInv, NoFault
  <1>5. CASE AddAgain
    <2>1. UNCHANGED <<db, userpass, late, pc, calls, locals, loopState, payload, open, generated, booting, hooks, faults>>
      BY <1>5 DEF AddAgain, world
    <2>2. /\ over' = over /\ removed' = None /\ at' \in {None, at}
          /\ xray' \in [XrayEndpoints -> SUBSET Clients] /\ ~NoFault
      <3>1. removed \in Clients
        BY <1>5 DEF AddAgain, LimiterInv
      <3>2. xray' \in [XrayEndpoints -> SUBSET Clients]
        BY <1>0, <1>5, <3>1 DEF AddAgain
      <3> QED
        BY <1>5, <3>2 DEF AddAgain, LimiterInv
    <2> QED
      BY <1>0, <2>1, <2>2 DEF LimiterMoves, LimiterInv, NoFault
  <1> QED
    BY <1>1, <1>2, <1>3, <1>4, <1>5 DEF LimiterStep

\* All that KeySync keeps, and what the limiter adds.
AllInv ==
    TypeInv /\ RowInv /\ Intents /\ HysteriaInv /\ ServedUnlessFault /\ LimiterInv

\* and nothing that KeySync keeps depends on what it does:
LEMMA LimiterMovesInv ==
    ASSUME AllInv, LimiterMoves, LimiterInv'
    PROVE  AllInv'
  <1>1. TypeInv'
    BY DEF AllInv, LimiterMoves, TypeInv, TypeOK, db, locals, loopState, NoFault
  <1>2. RowInv'
    <2>1. UNCHANGED <<row, user, generated>> /\ \A s \in Handlers : Quiet(s)
      BY DEF LimiterMoves, Quiet, db, locals
    <2> QED
      BY <2>1, QuietStep DEF AllInv
  <1>3. HysteriaInv'
    BY DEF AllInv, LimiterMoves, HysteriaInv, LatePosts, HysteriaOnlyCommitted, Committed, db
  <1>4. ServedUnlessFault'
    BY DEF LimiterMoves, ServedUnlessFault
  <1>5. Intents'
    <2>1. UNCHANGED <<user, pc, op, caller, keys, who, left>>
      BY DEF LimiterMoves, db, locals
    <2>2. Intents
      BY DEF AllInv
    <2> QED
      BY ONLY <2>1, <2>2 DEF Intents, Intent, Ledger!KeysOf
  <1> QED
    BY <1>1, <1>2, <1>3, <1>4, <1>5 DEF AllInv

\* all of it holds at the start,
LEMMA LimiterInitInv == LimiterInit => AllInv
  BY InitType, InitRow, InitIntents, InitServed, InitHysteria DEF LimiterInit, AllInv, LimiterInv

\* after every step of either,
LEMMA LimiterNextInv == AllInv /\ [NextWithLimiter]_allVars => AllInv'
  <1> SUFFICES ASSUME AllInv, [NextWithLimiter]_allVars
               PROVE  AllInv'
    OBVIOUS
  <1>1. ASSUME [Next]_vars, (Next /\ LimiterEnds) \/ UNCHANGED limiter
        PROVE  AllInv'
    <2>1. TypeInv' /\ RowInv' /\ Intents' /\ ServedUnlessFault'
      BY <1>1, NextType, NextRow, NextIntents, NextServed DEF AllInv
    <2>2. HysteriaInv'
      BY <1>1, HysteriaStep DEF AllInv
    <2>3. LimiterInv'
      <3>1. CASE LimiterEnds
        BY <3>1 DEF LimiterEnds, LimiterInv
      <3>2. CASE UNCHANGED limiter
        BY <1>1, <3>2, NoFaultBefore DEF AllInv, LimiterInv, limiter
      <3> QED
        BY <1>1, <3>1, <3>2
    <2> QED
      BY <2>1, <2>2, <2>3 DEF AllInv
  <1>2. CASE LoadActiveSubscriptions \/ LimiterStep
    BY <1>2, LimiterStepMoves, LimiterMovesInv DEF AllInv
  <1>3. CASE Next /\ IF booting' THEN LimiterEnds ELSE UNCHANGED limiter
    BY <1>1, <1>3
  <1>4. CASE UNCHANGED allVars
    BY <1>1, <1>4 DEF allVars
  <1> QED
    BY <1>2, <1>3, <1>4 DEF NextWithLimiter

\* and so always.
LEMMA LimiterInvariant == SpecWithLimiter => []AllInv
  BY LimiterInitInv, LimiterNextInv, PTL DEF SpecWithLimiter

\* What is in the bytes depends on nothing but the types of the variables.
LEMMA TypedIsUnderstood ==
    ASSUME TypeInv, LimiterInv
    PROVE  WireUnderstood
  <1>1. Tag \in Seq(Nat) /\ Uuid \in Seq(Nat)
    BY TextType DEF Tag, Uuid
  <1>2. ASSUME at # None, NEW few \in IpCounts, NEW many \in IpCounts, few <= MaxIps, many > MaxIps
        PROVE  FoundOver([c \in xray[at] \cup over |-> IF c \in over THEN many ELSE few]) = over
    <2> DEFINE D == xray[at] \cup over
               counts == [c \in D |-> IF c \in over THEN many ELSE few]
    <2>1. D \in SUBSET Clients /\ over \subseteq D
      BY <1>2 DEF LimiterInv, TypeInv, TypeOK
    <2>2. few \in Nat /\ many \in Nat /\ MaxIps \in Nat
      BY CountAssumption
    <2> HIDE DEF D
    <2>3. counts \in [D -> Nat] /\ \A c \in D : counts[c] > MaxIps <=> c \in over
      BY <1>2, <2>2
    <2> HIDE DEF counts
    <2>4. FoundOver(counts) = {c \in D : counts[c] > MaxIps}
      BY <2>1, <2>3, FoundOverIs
    <2>5. FoundOver(counts) = over
      BY <2>1, <2>3, <2>4
    <2> QED
      BY <2>5 DEF counts, D
  <1>3. ASSUME NEW c \in over
        PROVE  ReadAlterInboundRequest(RemoveVlessClient(c)) =
                   [tag |-> Tag, type |-> RemoveUserType, email |-> Email[c]]
    <2>1. Email[c] \in Seq(Nat)
      BY EmailOf DEF LimiterInv
    <2> QED
      BY <1>1, <2>1, RemovalRead DEF RemoveVlessClient
  <1>4. ASSUME removed # None
        PROVE  ReadAlterInboundRequest(AddVlessClient(removed)) =
                   [tag |-> Tag, type |-> AddUserType, email |-> Email[removed],
                    account |-> VlessAccountType, uuid |-> Uuid]
    <2>1. Email[removed] \in Seq(Nat)
      BY <1>4, EmailOf DEF LimiterInv
    <2> QED
      BY <1>1, <2>1, AdditionRead DEF AddVlessClient
  <1> QED
    BY <1>2, <1>3, <1>4 DEF WireUnderstood

\* Bot and relay understand each other's bytes, whatever the lengths of the e-mails
\* and the numbers of addresses.
THEOREM RequestsUnderstood == SpecWithLimiter => []WireUnderstood
  <1>1. AllInv => WireUnderstood
    BY TypedIsUnderstood DEF AllInv
  <1> QED
    BY <1>1, LimiterInvariant, PTL

\* No Hysteria server accepts a key whose row was not committed, beside the limiter
\* too.
THEOREM CredentialsBesideLimiter == SpecWithLimiter => []HysteriaOnlyCommitted
  <1>1. AllInv => HysteriaOnlyCommitted
    BY DEF AllInv, HysteriaInv
  <1> QED
    BY <1>1, LimiterInvariant, PTL

\* Beside the limiter too: every variable keeps its type, a deleted user has no
\* active key, a friend's revocation posts no key that it revokes, and while nothing
\* has failed every active key can be used, for the limiter resets nobody then.
THEOREM KeysBesideLimiter ==
    SpecWithLimiter => [](/\ TypeOK /\ DeletedUserHasNoKey
                          /\ FriendRevokeNotRepublished /\ NoFaultServed)
  <1>1. TypeInv => TypeOK
    BY DEF TypeInv
  <1>2. RowInv => DeletedUserHasNoKey /\ FriendRevokeNotRepublished
    BY DEF RowInv, FriendCommitted, FriendRevokeNotRepublished
  <1>3. AllInv => /\ TypeOK /\ DeletedUserHasNoKey
                  /\ FriendRevokeNotRepublished /\ NoFaultServed
    BY <1>1, <1>2, ServedUsable DEF AllInv
  <1> QED
    BY <1>3, LimiterInvariant, PTL

\* Beside the limiter too the rows change by whole operations of the ledger only.
THEOREM LedgerBesideLimiter == SpecWithLimiter => KeepsLedger
  <1>1. ASSUME AllInv, [NextWithLimiter]_allVars
        PROVE  [Ledger!Next]_<<row, user>>
    <2>1. CASE LoadActiveSubscriptions \/ LimiterStep
      BY <1>1, <2>1, LimiterStepMoves DEF AllInv, LimiterMoves, db
    <2>2. CASE ~(LoadActiveSubscriptions \/ LimiterStep)
      <3>1. [Next]_vars
        BY <1>1, <2>2 DEF NextWithLimiter, allVars
      <3> QED
        BY <1>1, <3>1, LedgerStep DEF AllInv
    <2> QED
      BY <2>1, <2>2
  <1>2. LimiterInit => Ledger!Init
    BY InitLedger DEF LimiterInit
  <1> QED
    BY <1>1, <1>2, LimiterInvariant, PTL DEF SpecWithLimiter, KeepsLedger, Ledger!Spec
=============================================================================
