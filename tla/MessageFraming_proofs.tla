------------------------- MODULE MessageFraming_proofs -------------------------
(* For packets of any lengths, reads that end anywhere and channels of any  *)
(* capacity: both directions of a connection implement the message stream,  *)
(* as far as safety goes, and answers come in the order of the requests.    *)
EXTENDS MessageFraming, SequenceTheorems, FiniteSetTheorems, FunctionTheorems, TLAPS

(* Numbers are ranked by how many of a set are not above them. *)
Upto(i, S) == {j \in S : j =< i}

LEMMA RankGrows ==
  ASSUME NEW S \in SUBSET Nat, IsFiniteSet(S), NEW j \in S
  PROVE  /\ Cardinality(Upto(j, S)) \in 1..Cardinality(S)
         /\ \A i \in S : i < j => Cardinality(Upto(i, S)) < Cardinality(Upto(j, S))
<1>1. \A i \in S : IsFiniteSet(Upto(i, S)) /\ Cardinality(Upto(i, S)) \in Nat
  BY FS_Subset, FS_CardinalityType DEF Upto
<1>2. Cardinality(Upto(j, S)) =< Cardinality(S) /\ Cardinality(S) \in Nat
  BY FS_Subset, FS_CardinalityType DEF Upto
<1>3. Upto(j, S) # {}
  BY DEF Upto
<1>4. Cardinality(Upto(j, S)) # 0
  BY <1>1, <1>3, FS_EmptySet
<1>5. ASSUME NEW i \in S, i < j
      PROVE  Cardinality(Upto(i, S)) < Cardinality(Upto(j, S))
  <2> i \in Nat /\ j \in Nat
    OBVIOUS
  <2>1. Upto(i, S) \in SUBSET Upto(j, S) /\ j \in Upto(j, S) /\ j \notin Upto(i, S)
    <3>1. \A k \in S : k \in Nat /\ (k =< i => k =< j)
      BY <1>5
    <3>2. j \in Upto(j, S) /\ j \notin Upto(i, S)
      BY <1>5 DEF Upto
    <3>3. Upto(i, S) \subseteq Upto(j, S)
      BY <3>1 DEF Upto
    <3> QED
      BY <3>2, <3>3
  <2>2. /\ Cardinality(Upto(i, S)) =< Cardinality(Upto(j, S))
        /\ Cardinality(Upto(j, S)) = Cardinality(Upto(i, S)) => Upto(j, S) = Upto(i, S)
    BY <1>1, <2>1, FS_Subset
  <2> QED
    BY <1>1, <2>1, <2>2
<1> QED
  BY <1>1, <1>2, <1>4, <1>5

(* Every rank is the rank of one member. *)
LEMMA NthHasItsRank ==
  ASSUME NEW S \in SUBSET Nat, IsFiniteSet(S), NEW k \in 1..Cardinality(S)
  PROVE  Nth(k, S) \in S /\ Cardinality(Upto(Nth(k, S), S)) = k
<1> DEFINE rank == [i \in S |-> Cardinality(Upto(i, S))]
<1>1. Cardinality(S) \in Nat
  BY FS_CardinalityType
<1>2. /\ IsFiniteSet(1..Cardinality(S))
      /\ Cardinality(1..Cardinality(S)) = Cardinality(S)
  BY <1>1, FS_Interval
<1>3. rank \in [S -> 1..Cardinality(S)]
  BY RankGrows
<1>4. ASSUME NEW i \in S, NEW j \in S, rank[i] = rank[j]
      PROVE  i = j
  <2>1. i \in Nat /\ j \in Nat /\ rank[i] \in Nat
    BY <1>3
  <2>2. ~(i < j) /\ ~(j < i)
    BY <1>4, <2>1, RankGrows
  <2> QED
    BY <2>1, <2>2
<1>5. rank \in Injection(S, 1..Cardinality(S))
  BY <1>3, <1>4 DEF Injection, IsInjective
<1>6. rank \in Surjection(S, 1..Cardinality(S))
  BY <1>2, <1>5, FS_Injection
<1>7. PICK i \in S : rank[i] = k
  BY <1>6 DEF Surjection
<1>8. Cardinality({j \in S : j =< i}) = k
  BY <1>7 DEF Upto
<1> QED
  BY <1>8 DEF Nth, Upto

LEMMA OneOfEachRank ==
  ASSUME NEW S \in SUBSET Nat, IsFiniteSet(S), NEW i \in S, NEW j \in S,
         Cardinality(Upto(i, S)) = Cardinality(Upto(j, S))
  PROVE  i = j
<1>1. Cardinality(Upto(i, S)) \in Nat /\ i \in Nat /\ j \in Nat
  BY RankGrows
<1>2. ~(i < j) /\ ~(j < i)
  BY <1>1, RankGrows
<1> QED
  BY <1>1, <1>2

-----------------------------------------------------------------------------
(* f lists the places where messages end in bytes, from left to right. *)
Lists(f, n, bytes) ==
  /\ f \in [1..n -> Ends(bytes)]
  /\ \A i, j \in 1..n : i < j => f[i] < f[j]
  /\ \A e \in Ends(bytes) : \E i \in 1..n : f[i] = e

LEMMA EndsAreFinite ==
  ASSUME NEW bytes \in Seq(Bytes)
  PROVE  Ends(bytes) \in SUBSET Nat /\ IsFiniteSet(Ends(bytes))
<1>1. Len(bytes) \in Nat /\ DOMAIN bytes = 1..Len(bytes)
  BY LenProperties
<1>2. Ends(bytes) \in SUBSET (1..Len(bytes))
  BY <1>1 DEF Ends
<1>3. IsFiniteSet(1..Len(bytes))
  BY <1>1, FS_Interval
<1> QED
  BY <1>1, <1>2, <1>3, FS_Subset

(* Ending is what any such list says. *)
LEMMA EndingIsListed ==
  ASSUME NEW bytes \in Seq(Bytes), NEW n \in Nat, NEW f, Lists(f, n, bytes)
  PROVE  Ending(bytes) = [k \in 1..n |-> bytes[f[k]].msg]
<1> DEFINE S == Ends(bytes)
<1>1. S \in SUBSET Nat /\ IsFiniteSet(S)
  BY EndsAreFinite
<1>2. /\ f \in [1..n -> S]
      /\ \A i, j \in 1..n : i < j => f[i] < f[j]
      /\ \A e \in S : \E i \in 1..n : f[i] = e
  BY DEF Lists
<1>3. \A i \in 1..n : f[i] \in Nat
  BY <1>1, <1>2
<1> HIDE DEF S
<1>4. \A i, j \in 1..n : f[i] = f[j] => i = j
  <2> SUFFICES ASSUME NEW i \in 1..n, NEW j \in 1..n, f[i] = f[j]
               PROVE  i = j
    OBVIOUS
  <2>1. ~(i < j) /\ ~(j < i)
    BY <1>2, <1>3
  <2> QED
    BY <2>1
<1>5. f \in Bijection(1..n, S)
  BY <1>2, <1>4 DEF Bijection, Injection, Surjection, IsInjective
<1>6. Cardinality(S) = n
  <2>1. IsFiniteSet(1..n) /\ Cardinality(1..n) = n
    BY FS_Interval
  <2> QED
    BY <1>5, <2>1, FS_Bijection DEF ExistsBijection
<1>7. ASSUME NEW k \in 1..n
      PROVE  Nth(k, S) = f[k]
  <2> DEFINE g == [i \in 1..k |-> f[i]]
  <2>1. ASSUME NEW i \in 1..k
        PROVE  f[i] \in Upto(f[k], S)
    <3>1. i \in 1..n /\ (i = k \/ i < k)
      OBVIOUS
    <3> QED
      BY <1>2, <1>3, <3>1 DEF Upto
  <2>2. ASSUME NEW e \in Upto(f[k], S)
        PROVE  \E i \in 1..k : f[i] = e
    <3>1. e \in S /\ e =< f[k]
      BY DEF Upto
    <3>2. PICK i \in 1..n : f[i] = e
      BY <1>2, <3>1
    <3>3. ~(k < i)
      BY <1>2, <1>3, <3>1, <3>2
    <3> QED
      BY <3>2, <3>3
  <2>3. g \in Bijection(1..k, Upto(f[k], S))
    <3>1. g \in [1..k -> Upto(f[k], S)]
      BY <2>1
    <3>2. \A i, j \in 1..k : g[i] = g[j] => i = j
      BY <1>4
    <3> QED
      BY <2>2, <3>1, <3>2 DEF Bijection, Injection, Surjection, IsInjective
  <2>4. Cardinality(Upto(f[k], S)) = k
    <3>1. IsFiniteSet(1..k) /\ Cardinality(1..k) = k
      BY FS_Interval
    <3> QED
      BY <2>3, <3>1, FS_Bijection DEF ExistsBijection
  <2>5. Nth(k, S) \in S /\ Cardinality(Upto(Nth(k, S), S)) = k
    BY <1>1, <1>6, NthHasItsRank
  <2> QED
    BY <1>1, <1>2, <2>4, <2>5, OneOfEachRank
<1> QED
  BY <1>6, <1>7 DEF Ending, S

LEMMA EndsAreListed ==
  ASSUME NEW bytes \in Seq(Bytes)
  PROVE  \E n \in Nat : \E f : Lists(f, n, bytes)
<1> DEFINE S == Ends(bytes)
           n == Cardinality(S)
           f == [k \in 1..n |-> Nth(k, S)]
<1>1. S \in SUBSET Nat /\ IsFiniteSet(S) /\ n \in Nat
  BY EndsAreFinite, FS_CardinalityType
<1> HIDE DEF S, n
<1>2. \A k \in 1..n : f[k] \in S /\ f[k] \in Nat /\ Cardinality(Upto(f[k], S)) = k
  BY <1>1, NthHasItsRank DEF n
<1>3. ASSUME NEW i \in 1..n, NEW j \in 1..n, i < j
      PROVE  f[i] < f[j]
  <2>1. f[i] # f[j]
    BY <1>2, <1>3
  <2>2. ~(f[j] < f[i])
    BY <1>1, <1>2, <1>3, RankGrows
  <2> QED
    BY <1>2, <2>1, <2>2
<1>4. ASSUME NEW e \in S
      PROVE  \E i \in 1..n : f[i] = e
  <2>1. Cardinality(Upto(e, S)) \in 1..n
    BY <1>1, RankGrows DEF n
  <2> QED
    BY <1>1, <1>2, <2>1, OneOfEachRank
<1>5. f \in [1..n -> S]
  BY <1>2
<1> HIDE DEF f
<1> QED
  BY <1>1, <1>3, <1>4, <1>5 DEF Lists, S

(* What ends in a stream ends in its front or in its rest. *)
LEMMA EndingOfConcat ==
  ASSUME NEW a \in Seq(Bytes), NEW b \in Seq(Bytes)
  PROVE  Ending(a \o b) = Ending(a) \o Ending(b)
<1>n. PICK n \in Nat : \E f : Lists(f, n, a)
  BY EndsAreListed
<1>1. PICK f : Lists(f, n, a)
  BY <1>n
<1> USE <1>n
<1>m. PICK m \in Nat : \E g : Lists(g, m, b)
  BY EndsAreListed
<1>2. PICK g : Lists(g, m, b)
  BY <1>m
<1> USE <1>m
<1> DEFINE c == a \o b
           h == [k \in 1..n + m |-> IF k =< n THEN f[k] ELSE Len(a) + g[k - n]]
<1>3. /\ Len(a) \in Nat /\ Len(b) \in Nat /\ c \in Seq(Bytes) /\ Len(c) = Len(a) + Len(b)
      /\ DOMAIN a = 1..Len(a) /\ DOMAIN b = 1..Len(b) /\ DOMAIN c = 1..(Len(a) + Len(b))
      /\ \A i \in 1..Len(a) : c[i] = a[i]
      /\ \A i \in 1..Len(b) : c[Len(a) + i] = b[i]
  BY ConcatProperties, LenProperties
<1>4. /\ \A i \in 1..n : f[i] \in Ends(a) /\ f[i] \in 1..Len(a)
      /\ \A i \in 1..m : g[i] \in Ends(b) /\ g[i] \in 1..Len(b)
  BY <1>1, <1>2, <1>3 DEF Lists, Ends
<1>5. /\ \A i \in Ends(a) : i \in 1..Len(a) /\ i \in Ends(c)
      /\ \A i \in Ends(b) : i \in 1..Len(b) /\ Len(a) + i \in Ends(c)
      /\ \A e \in Ends(c) : e \in Ends(a) \/ (e - Len(a) \in Ends(b) /\ e \in Nat)
  <2>1. \A i \in Ends(a) : i \in 1..Len(a) /\ i \in Ends(c)
    BY <1>3 DEF Ends
  <2>2. \A i \in Ends(b) : i \in 1..Len(b) /\ Len(a) + i \in Ends(c)
    BY <1>3 DEF Ends
  <2>3. ASSUME NEW e \in Ends(c)
        PROVE  e \in Ends(a) \/ (e - Len(a) \in Ends(b) /\ e \in Nat)
    <3>1. e \in 1..(Len(a) + Len(b)) /\ c[e].at = HeaderSize + c[e].len
      BY <1>3 DEF Ends
    <3>2. CASE e =< Len(a)
      BY <1>3, <3>1, <3>2 DEF Ends
    <3>3. CASE e > Len(a)
      <4>1. e - Len(a) \in 1..Len(b) /\ Len(a) + (e - Len(a)) = e
        BY <1>3, <3>1, <3>3
      <4>2. c[e] = b[e - Len(a)]
        BY <1>3, <4>1
      <4> QED
        BY <1>3, <3>1, <4>1, <4>2 DEF Ends
    <3> QED
      BY <1>3, <3>1, <3>2, <3>3
  <2> QED
    BY <2>1, <2>2, <2>3
<1> HIDE DEF c
<1>6. Lists(h, n + m, c)
  <2>1. h \in [1..n + m -> Ends(c)]
    <3> SUFFICES ASSUME NEW k \in 1..n + m
                 PROVE  (IF k =< n THEN f[k] ELSE Len(a) + g[k - n]) \in Ends(c)
      OBVIOUS
    <3>1. CASE k =< n
      BY <1>4, <1>5, <3>1
    <3>2. CASE k > n
      <4>1. k - n \in 1..m
        BY <3>2
      <4> QED
        BY <1>4, <1>5, <3>2, <4>1
    <3> QED
      BY <3>1, <3>2
  <2>2. ASSUME NEW i \in 1..n + m, NEW j \in 1..n + m, i < j
        PROVE  h[i] < h[j]
    <3>1. CASE j =< n
      BY <1>1, <2>2, <3>1 DEF Lists
    <3>2. CASE i =< n /\ j > n
      <4>1. j - n \in 1..m
        BY <3>2
      <4> QED
        BY <1>3, <1>4, <3>2, <4>1
    <3>3. CASE i > n
      <4>1. j - n \in 1..m /\ i - n \in 1..m /\ i - n < j - n
        BY <2>2, <3>3
      <4>2. g[i - n] < g[j - n] /\ g[i - n] \in Nat /\ g[j - n] \in Nat
        <5>1. \A x, y \in 1..m : x < y => g[x] < g[y]
          BY <1>2 DEF Lists
        <5> QED
          BY <1>4, <4>1, <5>1
      <4>3. h[i] = Len(a) + g[i - n] /\ h[j] = Len(a) + g[j - n]
        BY <2>2, <3>3
      <4> HIDE DEF h
      <4> QED
        BY <1>1, <1>2, <1>3, <4>2, <4>3
    <3> QED
      BY <2>2, <3>1, <3>2, <3>3
  <2>3. ASSUME NEW e \in Ends(c)
        PROVE  \E i \in 1..n + m : h[i] = e
    <3>1. CASE e \in Ends(a)
      <4>1. PICK i \in 1..n : f[i] = e
        BY <1>1, <3>1 DEF Lists
      <4> QED
        BY <4>1
    <3>2. CASE e - Len(a) \in Ends(b) /\ e \in Nat
      <4>1. PICK i \in 1..m : g[i] = e - Len(a)
        BY <1>2, <3>2 DEF Lists
      <4>2. n + i \in 1..n + m /\ ~(n + i =< n) /\ (n + i) - n = i
        OBVIOUS
      <4>3. h[n + i] = Len(a) + g[i]
        BY <4>2
      <4> HIDE DEF h
      <4>4. h[n + i] = e
        BY <1>3, <3>2, <4>1, <4>3
      <4> QED
        BY <4>2, <4>4
    <3> QED
      BY <1>5, <3>1, <3>2
  <2> HIDE DEF h
  <2> QED
    BY <2>1, <2>2, <2>3 DEF Lists
<1>7. /\ Ending(a) = [k \in 1..n |-> a[f[k]].msg]
      /\ Ending(b) = [k \in 1..m |-> b[g[k]].msg]
  BY <1>1, <1>2, EndingIsListed
<1>8. Ending(c) = [k \in 1..n + m |-> c[h[k]].msg]
  <2> HIDE DEF h
  <2> QED
    BY <1>3, <1>6, EndingIsListed
<1>9. /\ Ending(a) \in Seq(Requests) /\ Len(Ending(a)) = n
      /\ Ending(b) \in Seq(Requests) /\ Len(Ending(b)) = m
      /\ Ending(c) \in Seq(Requests) /\ Len(Ending(c)) = n + m
  <2>1. /\ \A k \in 1..n : a[f[k]].msg \in Requests
        /\ \A k \in 1..m : b[g[k]].msg \in Requests
    <3>1. /\ \A k \in 1..n : a[f[k]] \in Bytes
          /\ \A k \in 1..m : b[g[k]] \in Bytes
      BY <1>4, ElementOfSeq
    <3> QED
      BY <3>1 DEF Bytes
  <2>2. \A k \in 1..n + m : c[h[k]].msg \in Requests
    <3> SUFFICES ASSUME NEW k \in 1..n + m PROVE c[h[k]].msg \in Requests
      OBVIOUS
    <3>1. h[k] \in Ends(c)
      <4> HIDE DEF h
      <4> QED BY <1>6 DEF Lists
    <3>2. h[k] \in 1..Len(c)
      <4> HIDE DEF h
      <4> QED BY <1>3, <3>1 DEF Ends
    <3>3. c[h[k]] \in Bytes
      <4> HIDE DEF h
      <4> QED BY <1>3, <3>2, ElementOfSeq
    <3> QED
      BY <3>3 DEF Bytes
  <2> HIDE DEF h
  <2> QED
    BY <1>7, <1>8, <2>1, <2>2
<1>10. ASSUME NEW k \in 1..n + m
       PROVE  Ending(c)[k] = (Ending(a) \o Ending(b))[k]
  <2>1. Ending(c)[k] = c[IF k =< n THEN f[k] ELSE Len(a) + g[k - n]].msg
    BY <1>8
  <2>2. CASE k =< n
    <3>1. c[f[k]] = a[f[k]]
      BY <1>3, <1>4, <2>2
    <3>2. (Ending(a) \o Ending(b))[k] = Ending(a)[k]
      BY <1>9, <2>2, ConcatProperties
    <3> QED
      BY <1>7, <2>1, <2>2, <3>1, <3>2
  <2>3. CASE k > n
    <3>1. k - n \in 1..m
      BY <2>3
    <3>2. c[Len(a) + g[k - n]] = b[g[k - n]]
      BY <1>3, <1>4, <3>1
    <3>3. (Ending(a) \o Ending(b))[k] = Ending(b)[k - n]
      BY <1>9, <2>3, ConcatProperties
    <3> QED
      BY <1>7, <2>1, <2>3, <3>1, <3>2, <3>3
  <2>4. k =< n \/ k > n
    OBVIOUS
  <2> QED
    BY <2>2, <2>3, <2>4
<1>11. /\ Ending(a) \o Ending(b) \in Seq(Requests)
       /\ Len(Ending(a) \o Ending(b)) = n + m
  BY <1>9, ConcatProperties
<1>12. Ending(c) = Ending(a) \o Ending(b)
  BY <1>9, <1>10, <1>11, SeqEqual
<1> QED
  BY <1>12 DEF c

LEMMA EndingTyped ==
  ASSUME NEW bytes \in Seq(Bytes)
  PROVE  Ending(bytes) \in Seq(Requests)
<1>n. PICK n \in Nat : \E f : Lists(f, n, bytes)
  BY EndsAreListed
<1>1. PICK f : Lists(f, n, bytes)
  BY <1>n
<1> USE <1>n
<1>2. Ending(bytes) = [k \in 1..n |-> bytes[f[k]].msg]
  BY <1>1, EndingIsListed
<1>3. ASSUME NEW k \in 1..n
      PROVE  bytes[f[k]].msg \in Requests
  <2>1. f[k] \in 1..Len(bytes)
    BY <1>1, LenProperties DEF Lists, Ends
  <2>2. bytes[f[k]] \in Bytes
    BY <2>1, ElementOfSeq
  <2> QED
    BY <2>2 DEF Bytes
<1> QED
  BY <1>2, <1>3

LEMMA EndingOfNothing == Ending(<<>>) = <<>>
<1>1. Ends(<<>>) = {}
  BY DEF Ends
<1>2. Cardinality(Ends(<<>>)) = 0
  BY <1>1, FS_EmptySet
<1> QED
  BY <1>2 DEF Ending

-----------------------------------------------------------------------------
(* Packets, and streams of whole packets. *)
LEMMA PacketTyped ==
  ASSUME NEW m \in Requests, NEW len \in Lengths
  PROVE  /\ HeaderSize \in Nat \ {0} /\ len \in Nat \ {0}
         /\ Packet(m, len) \in Seq(Bytes) /\ Packet(m, len) # <<>>
         /\ Len(Packet(m, len)) = HeaderSize + len
         /\ \A i \in 1..HeaderSize + len :
              /\ Packet(m, len)[i] = [msg |-> m, at |-> i, len |-> len]
              /\ Packet(m, len)[i] \in Bytes
<1>1. HeaderSize \in Nat \ {0} /\ len \in Nat \ {0}
  BY FramingConstants
<1>2. ASSUME NEW i \in 1..HeaderSize + len
      PROVE  [msg |-> m, at |-> i, len |-> len] \in Bytes
  <2>1. i \in Nat \ {0}
    BY <1>1
  <2> QED
    BY <2>1 DEF Bytes
<1>3. HeaderSize + len \in Nat \ {0}
  BY <1>1
<1>4. /\ Packet(m, len) \in Seq(Bytes)
      /\ Len(Packet(m, len)) = HeaderSize + len
  BY <1>2, <1>3 DEF Packet
<1> QED
  BY <1>1, <1>2, <1>3, <1>4 DEF Packet

LEMMA EndingOfPacket ==
  ASSUME NEW m \in Requests, NEW len \in Lengths
  PROVE  Ending(Packet(m, len)) = <<m>>
<1> DEFINE p == Packet(m, len)
           f == [k \in 1..1 |-> HeaderSize + len]
<1>1. /\ HeaderSize + len \in Nat \ {0}
      /\ p \in Seq(Bytes) /\ DOMAIN p = 1..HeaderSize + len
      /\ \A i \in 1..HeaderSize + len : p[i] = [msg |-> m, at |-> i, len |-> len]
  BY PacketTyped, LenProperties
<1> HIDE DEF p
<1>2. \A i \in 1..HeaderSize + len : p[i].msg = m /\ p[i].at = i /\ p[i].len = len
  BY <1>1
<1>3. Ends(p) = {HeaderSize + len}
  BY <1>1, <1>2 DEF Ends
<1>4. Lists(f, 1, p)
  BY <1>3 DEF Lists
<1>5. Ending(p) = [k \in 1..1 |-> p[f[k]].msg]
  <2> HIDE DEF f
  <2>1. p \in Seq(Bytes) /\ 1 \in Nat
    BY <1>1
  <2> HIDE DEF p
  <2> QED
    BY <1>4, <2>1, EndingIsListed
<1>6. \A k \in 1..1 : p[f[k]].msg = m
  BY <1>1, <1>2
<1>7. Ending(p) = [k \in 1..1 |-> m]
  BY <1>5, <1>6
<1> QED
  BY <1>7 DEF p

LEMMA PacketIsWhole ==
  ASSUME NEW m \in Requests, NEW len \in Lengths
  PROVE  IsWhole(Packet(m, len))
<1>1. HeaderSize \in Nat /\ len \in Nat /\ Len(Packet(m, len)) = HeaderSize + len
  BY PacketTyped
<1>2. PacketBehind(0, Packet(m, len), m, len)
  BY <1>1 DEF PacketBehind
<1>3. \A i \in 1..Len(Packet(m, len)) : 0 \in 0..i - 1 /\ i =< 0 + HeaderSize + len
  BY <1>1
<1> QED
  BY <1>2, <1>3 DEF IsWhole

LEMMA WholeConcat ==
  ASSUME NEW a \in Seq(Bytes), NEW b \in Seq(Bytes), IsWhole(a), IsWhole(b)
  PROVE  IsWhole(a \o b)
<1> DEFINE c == a \o b
<1>1. /\ Len(a) \in Nat /\ Len(b) \in Nat /\ c \in Seq(Bytes) /\ Len(c) = Len(a) + Len(b)
      /\ \A i \in 1..Len(a) : c[i] = a[i]
      /\ \A i \in 1..Len(b) : c[Len(a) + i] = b[i]
  BY ConcatProperties
<1> HIDE DEF c
<1>2. HeaderSize \in Nat /\ Lengths \subseteq Nat
  BY FramingConstants
<1> SUFFICES ASSUME NEW i \in 1..Len(c)
             PROVE  \E n \in 0..i - 1, m \in Requests, len \in Lengths :
                      i =< n + HeaderSize + len /\ PacketBehind(n, c, m, len)
  BY DEF IsWhole, c
<1>3. CASE i =< Len(a)
  <2>1. i \in 1..Len(a)
    BY <1>1, <1>3
  <2>2. PICK n \in 0..i - 1, m \in Requests, len \in Lengths :
          i =< n + HeaderSize + len /\ PacketBehind(n, a, m, len)
    BY <2>1 DEF IsWhole
  <2>3. n \in Nat /\ len \in Nat
    BY <1>2, <2>1
  <2>4. /\ n + HeaderSize + len =< Len(a)
        /\ \A j \in 1..HeaderSize + len : a[n + j] = Packet(m, len)[j]
    BY <2>2 DEF PacketBehind
  <2>5. \A j \in 1..HeaderSize + len : n + j \in 1..Len(a)
    BY <1>1, <1>2, <2>3, <2>4
  <2>6. PacketBehind(n, c, m, len)
    BY <1>1, <1>2, <2>3, <2>4, <2>5 DEF PacketBehind
  <2> QED
    BY <2>2, <2>6
<1>4. CASE i > Len(a)
  <2>1. i - Len(a) \in 1..Len(b)
    BY <1>1, <1>4
  <2>2. PICK n \in 0..(i - Len(a)) - 1, m \in Requests, len \in Lengths :
          i - Len(a) =< n + HeaderSize + len /\ PacketBehind(n, b, m, len)
    BY <2>1 DEF IsWhole
  <2>3. n \in Nat /\ len \in Nat
    BY <1>2, <2>1
  <2>4. /\ n + HeaderSize + len =< Len(b)
        /\ \A j \in 1..HeaderSize + len : b[n + j] = Packet(m, len)[j]
    BY <2>2 DEF PacketBehind
  <2>5. \A j \in 1..HeaderSize + len :
          n + j \in 1..Len(b) /\ (Len(a) + n) + j = Len(a) + (n + j)
    BY <1>1, <1>2, <2>3, <2>4
  <2>6. PacketBehind(Len(a) + n, c, m, len)
    <3>1. (Len(a) + n) + HeaderSize + len =< Len(c)
      BY <1>1, <1>2, <2>3, <2>4
    <3>2. \A j \in 1..HeaderSize + len : c[(Len(a) + n) + j] = Packet(m, len)[j]
      BY <1>1, <2>4, <2>5
    <3> QED
      BY <3>1, <3>2 DEF PacketBehind
  <2>7. Len(a) + n \in 0..i - 1 /\ i =< (Len(a) + n) + HeaderSize + len
    BY <1>1, <1>2, <1>4, <2>1, <2>2, <2>3
  <2> QED
    BY <2>6, <2>7
<1>5. i =< Len(a) \/ i > Len(a)
  BY <1>1
<1> QED
  BY <1>3, <1>4, <1>5

(* A stream of whole packets is its first packet and a stream of whole      *)
(* packets.                                                                 *)
LEMMA FirstPacket ==
  ASSUME NEW c \in Seq(Bytes), IsWhole(c), c # <<>>
  PROVE  /\ c[1].msg \in Requests /\ c[1].len \in Lengths
         /\ PacketBehind(0, c, c[1].msg, c[1].len)
<1>1. HeaderSize \in Nat \ {0} /\ Lengths \subseteq Nat
  BY FramingConstants
<1>2. Len(c) \in Nat \ {0} /\ 1 \in 1..Len(c)
  BY EmptySeq
<1>3. PICK n \in 0..1 - 1, m \in Requests, len \in Lengths : PacketBehind(n, c, m, len)
  BY <1>2 DEF IsWhole
<1>4. n = 0 /\ PacketBehind(0, c, m, len)
  <2>1. n = 0
    OBVIOUS
  <2> QED
    BY <1>3, <2>1
<1>5. c[1] = [msg |-> m, at |-> 1, len |-> len]
  <2>1. 1 \in 1..HeaderSize + len /\ 0 + 1 = 1
    BY <1>1
  <2>2. c[1] = Packet(m, len)[1]
    BY <1>4, <2>1 DEF PacketBehind
  <2> QED
    BY <2>1, <2>2, PacketTyped
<1>6. c[1].msg = m /\ c[1].len = len
  BY <1>5
<1> QED
  BY <1>4, <1>6

LEMMA FrontAndRest ==
  ASSUME NEW c \in Seq(Bytes), NEW m \in Requests, NEW len \in Lengths,
         PacketBehind(0, c, m, len)
  PROVE  /\ SubSeq(c, HeaderSize + len + 1, Len(c)) \in Seq(Bytes)
         /\ SubSeq(c, 1, HeaderSize + len) = Packet(m, len)
         /\ c = Packet(m, len) \o SubSeq(c, HeaderSize + len + 1, Len(c))
<1> DEFINE p == HeaderSize + len
           r == SubSeq(c, p + 1, Len(c))
<1>1. /\ HeaderSize \in Nat \ {0} /\ Lengths \subseteq Nat \ {0} /\ len \in Nat \ {0}
      /\ p \in Nat /\ Len(c) \in Nat /\ p = HeaderSize + len
  BY FramingConstants, LenProperties
<1>2. p =< Len(c) /\ \A j \in 1..p : c[j] = Packet(m, len)[j]
  <2>1. 0 + HeaderSize + len = p /\ \A j \in 1..p : 0 + j = j
    BY <1>1
  <2> QED
    BY <2>1 DEF PacketBehind
<1>3. Packet(m, len) \in Seq(Bytes) /\ Len(Packet(m, len)) = p
  BY PacketTyped
<1> HIDE DEF p
<1>4. \A i \in 1..Len(c) : c[i] \in Bytes
  BY ElementOfSeq
<1>5. /\ SubSeq(c, 1, p) \in Seq(Bytes) /\ Len(SubSeq(c, 1, p)) = p
      /\ \A i \in 1..p : SubSeq(c, 1, p)[i] = c[i]
  BY <1>1, <1>2, <1>4
<1>6. SubSeq(c, 1, p) = Packet(m, len)
  BY <1>2, <1>3, <1>5, SeqEqual
<1>7. r \in Seq(Bytes)
  BY <1>1, <1>2, <1>4
<1>8. c = SubSeq(c, 1, p) \o r
  <2>1. 1 \in 1..Len(c) + 1 /\ p \in 1 - 1..Len(c) /\ Len(c) \in p..Len(c)
    BY <1>1, <1>2
  <2> QED
    BY <2>1, ConcatAdjacentSubSeq, SubSeqFull
<1> QED
  BY <1>6, <1>7, <1>8 DEF p

LEMMA RestIsWhole ==
  ASSUME NEW m \in Requests, NEW len \in Lengths, NEW r \in Seq(Bytes),
         IsWhole(Packet(m, len) \o r)
  PROVE  IsWhole(r)
<1> DEFINE p == HeaderSize + len
           c == Packet(m, len) \o r
<1>1. /\ HeaderSize \in Nat \ {0} /\ Lengths \subseteq Nat \ {0} /\ len \in Nat \ {0}
      /\ p \in Nat /\ Len(r) \in Nat
  BY FramingConstants, LenProperties
<1>2. /\ Packet(m, len) \in Seq(Bytes) /\ Len(Packet(m, len)) = p
      /\ \A j \in 1..p : Packet(m, len)[j] = [msg |-> m, at |-> j, len |-> len]
  BY PacketTyped
<1>3. /\ Len(c) = p + Len(r)
      /\ \A j \in 1..p : c[j] = [msg |-> m, at |-> j, len |-> len]
      /\ \A j \in 1..Len(r) : c[p + j] = r[j]
  <2>1. PICK d \in Seq(Bytes) : d = Packet(m, len)
    BY <1>2
  <2>2. /\ Len(d \o r) = Len(d) + Len(r) /\ Len(d) \in Nat
        /\ \A j \in 1..Len(d) : (d \o r)[j] = d[j]
        /\ \A j \in 1..Len(r) : (d \o r)[Len(d) + j] = r[j]
    BY <1>1, ConcatProperties, LenProperties
  <2> QED
    BY <1>2, <2>1, <2>2
<1>4. p >= len + 1
  BY <1>1
<1>5. p = HeaderSize + len
  OBVIOUS
<1> HIDE DEF p, c
<1> SUFFICES ASSUME NEW i \in 1..Len(r)
             PROVE  \E n \in 0..i - 1, x \in Requests, l \in Lengths :
                      i =< n + HeaderSize + l /\ PacketBehind(n, r, x, l)
  BY DEF IsWhole
<1>6. PICK k \in 1..Len(c) : k = p + i /\ i \in Nat
  BY <1>1, <1>3
<1>7. PICK n \in 0..k - 1, x \in Requests, l \in Lengths :
        k =< n + HeaderSize + l /\ PacketBehind(n, c, x, l)
  <2>1. IsWhole(c)
    BY DEF c
  <2> QED
    BY <2>1 DEF IsWhole
<1>8. /\ n \in Nat /\ l \in Nat \ {0} /\ HeaderSize + l \in Nat
      /\ Len(c) = p + Len(r) /\ Len(c) \in Nat
  BY <1>1, <1>3, <1>6
<1>9. /\ n + HeaderSize + l =< Len(c)
      /\ \A j \in 1..HeaderSize + l : c[n + j] = Packet(x, l)[j]
  BY <1>7 DEF PacketBehind
<1>10. n >= p
  <2> SUFFICES ASSUME n < p PROVE FALSE
    BY <1>1, <1>8
  <2>1. n + 1 \in 1..p /\ 1 \in 1..HeaderSize + l
    BY <1>1, <1>8
  <2>2. c[n + 1] = [msg |-> m, at |-> n + 1, len |-> len]
    BY <1>3, <2>1
  <2>3. c[n + 1] = [msg |-> x, at |-> 1, len |-> l]
    <3>1. c[n + 1] = Packet(x, l)[1]
      BY <1>9, <2>1
    <3>2. Packet(x, l)[1] = [msg |-> x, at |-> 1, len |-> l]
      BY <2>1, PacketTyped
    <3> QED
      BY <3>1, <3>2
  <2>4. n + 1 = 1 /\ len = l
    <3>1. c[n + 1].at = n + 1 /\ c[n + 1].len = len
      BY <2>2
    <3>2. c[n + 1].at = 1 /\ c[n + 1].len = l
      BY <2>3
    <3> QED
      BY <3>1, <3>2
  <2> QED
    BY <1>1, <1>5, <1>6, <1>7, <1>8, <2>4
<1>11. ASSUME NEW j \in 1..HeaderSize + l
       PROVE  (n - p) + j \in 1..Len(r) /\ p + ((n - p) + j) = n + j
  <2>1. n \in Nat /\ p \in Nat /\ j \in Nat \ {0} /\ n + j =< Len(c)
    BY <1>1, <1>8, <1>9
  <2> QED
    BY <1>1, <1>8, <1>10, <2>1
<1>12. PacketBehind(n - p, r, x, l)
  <2>1. (n - p) + HeaderSize + l =< Len(r)
    BY <1>1, <1>8, <1>9, <1>10
  <2>2. \A j \in 1..HeaderSize + l : r[(n - p) + j] = Packet(x, l)[j]
    BY <1>3, <1>9, <1>11
  <2> QED
    BY <2>1, <2>2 DEF PacketBehind
<1>13. n - p \in 0..i - 1 /\ i =< (n - p) + HeaderSize + l
  BY <1>1, <1>6, <1>7, <1>8, <1>10
<1> QED
  BY <1>12, <1>13

(* What the inner loop takes out of a buffer is the packet at its front:    *)
(* a message whole, and the rest of a stream of whole packets.              *)
LEMMA Parsed ==
  ASSUME NEW b \in Seq(Bytes), NEW w \in Seq(Bytes), IsWhole(b \o w), HasPacket(b)
  PROVE  \E m \in Requests, len \in Lengths :
           /\ Unmarshals(MessageBuf(b)) /\ MessageBuf(b)[1].msg = m
           /\ Rest(b) \in Seq(Bytes) /\ b = Packet(m, len) \o Rest(b)
           /\ IsWhole(Rest(b) \o w)
<1> DEFINE c == b \o w
<1>1. /\ HeaderSize \in Nat \ {0} /\ Lengths \subseteq Nat \ {0}
      /\ Len(b) \in Nat /\ Len(b) >= HeaderSize
  BY FramingConstants, LenProperties DEF HasPacket
<1>2. /\ c \in Seq(Bytes) /\ Len(c) >= Len(b) /\ Len(c) \in Nat
      /\ \A i \in 1..Len(b) : c[i] = b[i]
  BY ConcatProperties, LenProperties
<1> HIDE DEF c
<1>3. c # <<>>
  BY <1>1, <1>2
<1>4. PICK m \in Requests, len \in Lengths :
        PacketBehind(0, c, m, len) /\ c[1].len = len
  BY <1>2, <1>3, FirstPacket DEF c
<1>5. len \in Nat \ {0}
  BY <1>1
<1>6. \A j \in 1..HeaderSize + len : c[j] = Packet(m, len)[j] /\ Len(c) >= HeaderSize + len
  <2>1. 0 + HeaderSize + len = HeaderSize + len /\ \A j \in 1..HeaderSize + len : 0 + j = j
    BY <1>1, <1>5
  <2> QED
    BY <1>1, <1>4, <1>5, <2>1 DEF PacketBehind
<1>7. ASSUME NEW i \in 1..HeaderSize
      PROVE  b[i] = [msg |-> m, at |-> i, len |-> len]
  <2>1. i \in 1..Len(b) /\ i \in 1..HeaderSize + len
    BY <1>1, <1>5
  <2> QED
    BY <1>2, <1>6, <2>1, PacketTyped
<1>8. AnnouncedLength(b) = len
  <2>1. 1 \in 1..HeaderSize
    BY <1>1
  <2>2. ASSUME NEW i \in 1..HeaderSize
        PROVE  b[i].msg = m /\ b[i].at = i /\ b[i].len = len
    <3>1. b[i] = [msg |-> m, at |-> i, len |-> len]
      BY <1>7
    <3> QED
      BY <3>1
  <2> QED
    BY <2>1, <2>2 DEF AnnouncedLength
<1>9. Len(b) >= HeaderSize + len
  BY <1>8 DEF HasPacket
<1>10. PacketBehind(0, b, m, len)
  <2>1. \A j \in 1..HeaderSize + len : 0 + j = j /\ j \in 1..Len(b)
    BY <1>1, <1>5, <1>9
  <2>2. 0 + HeaderSize + len =< Len(b)
    BY <1>1, <1>5, <1>9
  <2> QED
    BY <1>2, <1>6, <2>1, <2>2 DEF PacketBehind
<1>11. /\ Rest(b) \in Seq(Bytes) /\ b = Packet(m, len) \o Rest(b)
  BY <1>8, <1>10, FrontAndRest DEF Rest
<1>12. Packet(m, len) \in Seq(Bytes) /\ Len(Packet(m, len)) = HeaderSize + len
  BY PacketTyped
<1>13. IsWhole(Rest(b) \o w)
  <2>1. Rest(b) \o w \in Seq(Bytes)
    BY <1>11, ConcatProperties
  <2>2. c = Packet(m, len) \o (Rest(b) \o w)
    <3>1. (Packet(m, len) \o Rest(b)) \o w = Packet(m, len) \o (Rest(b) \o w)
      <4>1. Packet(m, len) \in Seq(Bytes) /\ Rest(b) \in Seq(Bytes)
        BY <1>11, <1>12, Zenon
      <4> QED
        BY <4>1, ConcatAssociative
    <3> QED
      BY <1>11, <3>1, Zenon DEF c
  <2>3. IsWhole(Packet(m, len) \o (Rest(b) \o w))
    BY <2>2 DEF c
  <2> QED
    BY <2>1, <2>3, RestIsWhole
<1>14. Unmarshals(MessageBuf(b)) /\ MessageBuf(b)[1].msg = m
  <2> DEFINE p == Packet(m, len)
             body == SubSeq(p, HeaderSize + 1, HeaderSize + len)
  <2>1. /\ \A i \in 1..HeaderSize + len : p[i] = [msg |-> m, at |-> i, len |-> len]
        /\ \A i \in 1..HeaderSize + len : p[i] \in Bytes
    BY PacketTyped
  <2> HIDE DEF p
  <2>2. AnnouncedLength(p) = len
    <3>1. 1 \in 1..HeaderSize /\ \A i \in 1..HeaderSize : i \in 1..HeaderSize + len
      BY <1>1, <1>5
    <3>2. ASSUME NEW i \in 1..HeaderSize
          PROVE  p[i].msg = m /\ p[i].at = i /\ p[i].len = len
      <4>1. p[i] = [msg |-> m, at |-> i, len |-> len]
        BY <2>1, <3>1
      <4> QED
        BY <4>1
    <3> QED
      BY <3>1, <3>2 DEF AnnouncedLength
  <2>3. MessageBuf(p) = body
    BY <2>2 DEF MessageBuf
  <2>4. MessageBuf(b) = body
    <3>1. HeaderSize + 1 \in 1..Len(p) /\ HeaderSize + len \in 1..Len(p)
      BY <1>1, <1>5, <1>12 DEF p
    <3>2. SubSeq(p \o Rest(b), HeaderSize + 1, HeaderSize + len) = body
      BY <1>11, <1>12, <3>1, SubSeqOfConcat1 DEF p
    <3> QED
      BY <1>8, <1>11, <3>2 DEF MessageBuf, p
  <2>5. body # <<>> /\ body[1] = [msg |-> m, at |-> HeaderSize + 1, len |-> len]
    <3>1. HeaderSize + 1 \in 1..HeaderSize + len /\ 1 \in 1..len
      BY <1>1, <1>5
    <3>2. \A i \in HeaderSize + 1..HeaderSize + len : p[i] \in Bytes
      BY <1>1, <1>5, <2>1
    <3>3. /\ Len(body) = (HeaderSize + len) - (HeaderSize + 1) + 1
          /\ body[1] = p[(HeaderSize + 1) + 1 - 1]
      BY <1>1, <1>5, <3>1, <3>2, SubSeqProperties
    <3>4. Len(body) = len /\ body[1] = p[HeaderSize + 1]
      BY <1>1, <1>5, <3>3
    <3> QED
      BY <1>5, <2>1, <3>1, <3>4
  <2> HIDE DEF body
  <2>6. body[1].msg = m /\ body[1].len = len
    BY <2>5
  <2> QED
    BY <2>3, <2>4, <2>5, <2>6 DEF Unmarshals, p
<1> QED
  BY <1>11, <1>13, <1>14

LEMMA FrontTaken ==
  ASSUME NEW S, NEW m \in S, NEW s \in Seq(S)
  PROVE  /\ <<m>> \o s \in Seq(S) /\ <<m>> \o s # <<>>
         /\ Head(<<m>> \o s) = m /\ Tail(<<m>> \o s) = s
<1> DEFINE t == <<m>> \o s
<1>1. <<m>> \in Seq(S) /\ Len(<<m>>) = 1 /\ <<m>>[1] = m /\ Len(s) \in Nat
  BY LenProperties
<1>2. /\ t \in Seq(S) /\ Len(t) = 1 + Len(s)
      /\ t[1] = m /\ \A i \in 1..Len(s) : t[i + 1] = s[i]
  BY <1>1, ConcatProperties
<1> HIDE DEF t
<1>3. t # <<>> /\ Head(t) = t[1]
  BY <1>1, <1>2
<1>4. /\ Tail(t) \in Seq(S) /\ Len(Tail(t)) = Len(s)
      /\ \A i \in 1..Len(s) : Tail(t)[i] = t[i + 1]
  BY <1>1, <1>2, <1>3, HeadTailProperties
<1>5. Tail(t) = s
  BY <1>2, <1>4, SeqEqual
<1> QED
  BY <1>2, <1>3, <1>5 DEF t

(* The same of a buffer that ends with a packet. *)
LEMMA ParsedWhole ==
  ASSUME NEW b \in Seq(Bytes), IsWhole(b), HasPacket(b)
  PROVE  /\ IsWhole(Rest(b)) /\ Rest(b) \in Seq(Bytes)
         /\ Unmarshals(MessageBuf(b)) /\ Ending(b) # <<>>
         /\ Head(Ending(b)) = MessageBuf(b)[1].msg /\ Ending(Rest(b)) = Tail(Ending(b))
<1>1. <<>> \in Seq(Bytes) /\ IsWhole(b \o <<>>)
  <2>1. b \o <<>> = b
    BY ConcatEmptySeq
  <2> QED
    BY <2>1
<1>2. PICK m \in Requests, len \in Lengths :
        /\ Unmarshals(MessageBuf(b)) /\ MessageBuf(b)[1].msg = m
        /\ Rest(b) \in Seq(Bytes) /\ b = Packet(m, len) \o Rest(b)
  BY <1>1, Parsed, Zenon
<1>3. Packet(m, len) \in Seq(Bytes)
  BY PacketTyped
<1>4. Ending(b) = <<m>> \o Ending(Rest(b))
  <2>1. Ending(Packet(m, len) \o Rest(b)) = Ending(Packet(m, len)) \o Ending(Rest(b))
    BY <1>2, <1>3, EndingOfConcat
  <2> QED
    BY <1>2, <2>1, EndingOfPacket
<1>5. Ending(Rest(b)) \in Seq(Requests)
  BY <1>2, EndingTyped
<1>6. IsWhole(Rest(b))
  <2>1. IsWhole(Packet(m, len) \o Rest(b))
    BY <1>2
  <2> QED
    BY <1>2, <2>1, RestIsWhole
<1>7. /\ <<m>> \o Ending(Rest(b)) # <<>>
      /\ Head(<<m>> \o Ending(Rest(b))) = m
      /\ Tail(<<m>> \o Ending(Rest(b))) = Ending(Rest(b))
  BY <1>5, FrontTaken
<1>8. Ending(b) # <<>> /\ Head(Ending(b)) = m /\ Tail(Ending(b)) = Ending(Rest(b))
  BY <1>4, <1>7, Zenon
<1> QED
  BY <1>2, <1>6, <1>8, Zenon

(* A message more at the end of a stream. *)
LEMMA EndingOfOneMore ==
  ASSUME NEW b \in Seq(Bytes), NEW m \in Requests, NEW len \in Lengths
  PROVE  Ending(b \o Packet(m, len)) = Append(Ending(b), m)
<1>1. Packet(m, len) \in Seq(Bytes) /\ Ending(b) \in Seq(Requests)
  BY PacketTyped, EndingTyped
<1>2. Ending(b \o Packet(m, len)) = Ending(b) \o <<m>>
  BY <1>1, EndingOfConcat, EndingOfPacket
<1> QED
  BY <1>1, <1>2, AppendIsConcat

LEMMA MessagesTyped ==
  ASSUME NEW ps \in Seq(Seq(Bytes)), ArePackets(ps)
  PROVE  MessagesOf(ps) \in Seq(Requests) /\ Len(MessagesOf(ps)) = Len(ps)
<1>1. Len(ps) \in Nat
  BY LenProperties
<1>2. ASSUME NEW i \in 1..Len(ps)
      PROVE  ps[i][1].msg \in Requests
  <2>1. PICK m \in Requests, len \in Lengths : ps[i] = Packet(m, len)
    BY DEF ArePackets
  <2>2. 1 \in 1..HeaderSize + len
    BY PacketTyped
  <2>3. Packet(m, len)[1] = [msg |-> m, at |-> 1, len |-> len]
    BY <2>2, PacketTyped
  <2> QED
    BY <2>1, <2>3
<1> QED
  BY <1>1, <1>2 DEF MessagesOf

LEMMA MessagesAppend ==
  ASSUME NEW ps \in Seq(Seq(Bytes)), ArePackets(ps), NEW m \in Requests, NEW len \in Lengths
  PROVE  /\ ArePackets(Append(ps, Packet(m, len)))
         /\ MessagesOf(Append(ps, Packet(m, len))) = Append(MessagesOf(ps), m)
<1>1. PICK d \in Seq(Bytes) : d = Packet(m, len)
  BY PacketTyped
<1>2. d[1].msg = m
  <2>1. 1 \in 1..HeaderSize + len
    BY PacketTyped
  <2>2. Packet(m, len)[1] = [msg |-> m, at |-> 1, len |-> len]
    BY <2>1, PacketTyped
  <2> QED
    BY <1>1, <2>2
<1>3. /\ Append(ps, d) \in Seq(Seq(Bytes)) /\ Len(Append(ps, d)) = Len(ps) + 1 /\ Len(ps) \in Nat
      /\ \A i \in 1..Len(ps) : Append(ps, d)[i] = ps[i]
      /\ Append(ps, d)[Len(ps) + 1] = d
  BY AppendProperties, LenProperties
<1>4. ArePackets(Append(ps, d))
  <2> SUFFICES ASSUME NEW i \in 1..Len(Append(ps, d))
               PROVE  \E x \in Requests, l \in Lengths : Append(ps, d)[i] = Packet(x, l)
    BY DEF ArePackets
  <2>1. i \in 1..Len(ps) \/ i = Len(ps) + 1
    BY <1>3
  <2> QED
    BY <1>1, <1>3, <2>1 DEF ArePackets
<1>5. /\ MessagesOf(ps) \in Seq(Requests) /\ Len(MessagesOf(ps)) = Len(ps)
      /\ MessagesOf(Append(ps, d)) \in Seq(Requests) /\ Len(MessagesOf(Append(ps, d))) = Len(ps) + 1
  BY <1>3, <1>4, MessagesTyped
<1>6. /\ Append(MessagesOf(ps), m) \in Seq(Requests)
      /\ Len(Append(MessagesOf(ps), m)) = Len(ps) + 1
      /\ \A i \in 1..Len(ps) : Append(MessagesOf(ps), m)[i] = MessagesOf(ps)[i]
      /\ Append(MessagesOf(ps), m)[Len(ps) + 1] = m
  BY <1>5, AppendProperties
<1>7. ASSUME NEW i \in 1..Len(ps) + 1
      PROVE  MessagesOf(Append(ps, d))[i] = Append(MessagesOf(ps), m)[i]
  <2>1. MessagesOf(Append(ps, d))[i] = Append(ps, d)[i][1].msg
    BY <1>3 DEF MessagesOf
  <2>2. CASE i \in 1..Len(ps)
    BY <1>3, <1>6, <2>1, <2>2 DEF MessagesOf
  <2>3. CASE i = Len(ps) + 1
    BY <1>2, <1>3, <1>6, <2>1, <2>3
  <2>4. i \in 1..Len(ps) \/ i = Len(ps) + 1
    BY <1>3
  <2> QED
    BY <2>2, <2>3, <2>4
<1> QED
  BY <1>1, <1>4, <1>5, <1>6, <1>7, SeqEqual

LEMMA MessagesTail ==
  ASSUME NEW ps \in Seq(Seq(Bytes)), ArePackets(ps), ps # <<>>
  PROVE  /\ Tail(ps) \in Seq(Seq(Bytes)) /\ ArePackets(Tail(ps))
         /\ \E m \in Requests, len \in Lengths :
              Head(ps) = Packet(m, len) /\ MessagesOf(ps) = <<m>> \o MessagesOf(Tail(ps))
<1>1. /\ Len(ps) \in Nat \ {0} /\ Tail(ps) \in Seq(Seq(Bytes)) /\ Len(Tail(ps)) = Len(ps) - 1
      /\ \A i \in 1..Len(ps) - 1 : Tail(ps)[i] = ps[i + 1]
      /\ Head(ps) = ps[1] /\ 1 \in 1..Len(ps)
  BY HeadTailProperties, EmptySeq
<1>2. ArePackets(Tail(ps))
  <2>1. \A i \in 1..Len(ps) - 1 : i + 1 \in 1..Len(ps)
    BY <1>1
  <2> QED
    BY <1>1, <2>1 DEF ArePackets
<1>3. PICK m \in Requests, len \in Lengths : ps[1] = Packet(m, len)
  BY <1>1 DEF ArePackets
<1>4. ps[1][1].msg = m
  <2>1. 1 \in 1..HeaderSize + len
    BY PacketTyped
  <2>2. Packet(m, len)[1] = [msg |-> m, at |-> 1, len |-> len]
    BY <2>1, PacketTyped
  <2> QED
    BY <1>3, <2>2
<1>5. /\ MessagesOf(ps) \in Seq(Requests) /\ Len(MessagesOf(ps)) = Len(ps)
      /\ MessagesOf(Tail(ps)) \in Seq(Requests) /\ Len(MessagesOf(Tail(ps))) = Len(ps) - 1
  BY <1>1, <1>2, MessagesTyped
<1>6. /\ <<m>> \o MessagesOf(Tail(ps)) \in Seq(Requests)
      /\ Len(<<m>> \o MessagesOf(Tail(ps))) = Len(ps)
      /\ \A i \in 1..Len(ps) : (<<m>> \o MessagesOf(Tail(ps)))[i]
                                = IF i =< 1 THEN m ELSE MessagesOf(Tail(ps))[i - 1]
  <2> DEFINE t == MessagesOf(Tail(ps))
             c == <<m>> \o t
  <2>1. <<m>> \in Seq(Requests) /\ Len(<<m>>) = 1 /\ <<m>>[1] = m
    OBVIOUS
  <2>2. t \in Seq(Requests) /\ Len(t) = Len(ps) - 1
    BY <1>5
  <2> HIDE DEF t
  <2>3. /\ c \in Seq(Requests) /\ Len(c) = 1 + Len(t)
        /\ \A i \in 1..1 + Len(t) : c[i] = IF i =< 1 THEN <<m>>[i] ELSE t[i - 1]
    BY <2>1, <2>2, ConcatProperties
  <2> HIDE DEF c
  <2>4. \A i \in 1..1 + Len(t) : c[i] = IF i =< 1 THEN m ELSE t[i - 1]
    BY <2>1, <2>3
  <2>5. 1 + Len(t) = Len(ps)
    BY <1>1, <2>2
  <2> QED
    BY <2>3, <2>4, <2>5 DEF c, t
<1>7. ASSUME NEW i \in 1..Len(ps)
      PROVE  MessagesOf(ps)[i] = (<<m>> \o MessagesOf(Tail(ps)))[i]
  <2>1. MessagesOf(ps)[i] = ps[i][1].msg
    BY DEF MessagesOf
  <2>2. CASE i = 1
    BY <1>4, <1>6, <2>1, <2>2
  <2>3. CASE i # 1
    <3>1. i - 1 \in 1..Len(ps) - 1 /\ (i - 1) + 1 = i
      BY <1>1, <2>3
    <3>2. MessagesOf(Tail(ps))[i - 1] = ps[i][1].msg
      BY <1>1, <3>1 DEF MessagesOf
    <3> QED
      BY <1>6, <2>1, <2>3, <3>1, <3>2
  <2> QED
    BY <2>2, <2>3
<1>8. MessagesOf(ps) = <<m>> \o MessagesOf(Tail(ps))
  BY <1>5, <1>6, <1>7, SeqEqual
<1> QED
  BY <1>1, <1>2, <1>3, <1>8

-----------------------------------------------------------------------------
(* What each step does to the requests and the answers under way. *)
LEMMA UnderwayTyped ==
  ASSUME TypeOK, StreamsAreWhole
  PROVE  /\ Asked \in Seq(Requests) /\ Answered \in Seq(Requests)
         /\ Ending(message_buffer) \in Seq(Requests) /\ MessagesOf(packets) \in Seq(Requests)
         /\ SendChan \in Seq(Requests)
<1>1. /\ buffer \in Seq(Bytes) /\ wire \in Seq(Bytes) /\ message_buffer \in Seq(Bytes)
      /\ packets \in Seq(Seq(Bytes)) /\ SendChan \in Seq(Requests)
  BY DEF TypeOK
<1>2. buffer \o wire \in Seq(Bytes)
  BY <1>1, ConcatProperties
<1>3. Asked \in Seq(Requests)
  BY <1>2, EndingTyped DEF Asked
<1>4. /\ Ending(message_buffer) \in Seq(Requests) /\ MessagesOf(packets) \in Seq(Requests)
  BY <1>1, EndingTyped, MessagesTyped DEF StreamsAreWhole
<1>5. Answered \in Seq(Requests)
  BY <1>1, <1>4, ConcatProperties DEF Answered
<1> QED
  BY <1>1, <1>3, <1>4, <1>5

LEMMA SendMessageEffect ==
  ASSUME TypeOK, StreamsAreWhole, SendMessage
  PROVE  /\ TypeOK' /\ StreamsAreWhole'
         /\ serial' = serial + 1 /\ serial' \in Requests /\ Asked' = Append(Asked, serial')
         /\ Answered' = Answered
         /\ UNCHANGED <<link, RecvChan, handler, received, overflowed, answers>>
<1>1. /\ serial \in Nat /\ serial < MaxRequests /\ MaxRequests \in Nat /\ serial' = serial + 1
      /\ buffer \in Seq(Bytes) /\ wire \in Seq(Bytes)
      /\ UNCHANGED <<link, reader, buffer, received, overflowed, RecvChan, handler, SendChan,
                     sender, down>>
  BY FramingConstants DEF TypeOK, SendMessage
<1>2. PICK len \in Lengths : wire' = wire \o Packet(serial', len)
  BY DEF SendMessage
<1>3. serial' \in Requests /\ serial' \in 0..MaxRequests
  BY <1>1 DEF Requests
<1>4. Packet(serial', len) \in Seq(Bytes) /\ IsWhole(Packet(serial', len))
  BY <1>3, PacketTyped, PacketIsWhole
<1>5. wire' \in Seq(Bytes)
  BY <1>1, <1>2, <1>4, ConcatProperties
<1>6. TypeOK'
  BY <1>1, <1>3, <1>5 DEF TypeOK, link, down
<1>7. buffer' \o wire' = (buffer \o wire) \o Packet(serial', len)
  <2>1. buffer \in Seq(Bytes) /\ wire \in Seq(Bytes) /\ Packet(serial', len) \in Seq(Bytes)
    BY <1>1, <1>4
  <2>2. PICK d \in Seq(Bytes) : d = Packet(serial', len)
    BY <2>1
  <2>3. (buffer \o wire) \o d = buffer \o (wire \o d)
    <3>1. buffer \in Seq(Bytes) /\ wire \in Seq(Bytes) /\ d \in Seq(Bytes)
      BY <2>1, <2>2
    <3> QED
      BY <3>1, ConcatAssociative
  <2>4. buffer' = buffer /\ wire' = wire \o Packet(serial', len)
    BY <1>1, <1>2
  <2> QED
    BY <2>2, <2>3, <2>4, Zenon
<1>8. buffer \o wire \in Seq(Bytes)
  BY <1>1, ConcatProperties
<1>9. StreamsAreWhole'
  <2>1. IsWhole(buffer' \o wire')
    BY <1>4, <1>7, <1>8, WholeConcat DEF StreamsAreWhole
  <2>2. IsWhole(wire) => IsWhole(wire')
    BY <1>1, <1>2, <1>4, WholeConcat
  <2> QED
    BY <1>1, <2>1, <2>2 DEF StreamsAreWhole, link, down
<1>10. Asked' = Append(Asked, serial')
  BY <1>3, <1>7, <1>8, EndingOfOneMore DEF Asked
<1> QED
  BY <1>1, <1>3, <1>6, <1>9, <1>10 DEF Answered, link, down

(* A read takes the front of the wire, a read of a websocket a packet. *)
LEMMA ChunkTaken ==
  ASSUME TypeOK, StreamsAreWhole, wire # <<>>, NEW chunk \in Chunks
  PROVE  LET rest == SubSeq(wire, Len(chunk) + 1, Len(wire)) IN
         /\ chunk \in Seq(Bytes) /\ rest \in Seq(Bytes) /\ wire = chunk \o rest
         /\ kind = "ws" => IsWhole(chunk) /\ IsWhole(rest)
<1> DEFINE rest == SubSeq(wire, Len(chunk) + 1, Len(wire))
<1>1. /\ wire \in Seq(Bytes) /\ Len(wire) \in Nat \ {0} /\ kind \in {"tcp", "ws"}
      /\ \A i \in 1..Len(wire) : wire[i] \in Bytes
      /\ ReadSize \in Nat \ {0} /\ HeaderSize \in Nat \ {0} /\ Lengths \subseteq Nat \ {0}
  BY FramingConstants, EmptySeq, ElementOfSeq DEF TypeOK
<1>2. CASE kind = "tcp"
  <2>1. PICK n \in 1 .. IF Len(wire) < ReadSize THEN Len(wire) ELSE ReadSize :
          chunk = SubSeq(wire, 1, n)
    BY <1>2 DEF Chunks
  <2>2. n \in 1..Len(wire)
    BY <1>1
  <2>3. chunk \in Seq(Bytes) /\ Len(chunk) = n
    BY <1>1, <2>1, <2>2
  <2>4. rest \in Seq(Bytes)
    BY <1>1, <2>2, <2>3
  <2>5. wire = chunk \o rest
    <3>1. 1 \in 1..Len(wire) + 1 /\ n \in 1 - 1..Len(wire) /\ Len(wire) \in n..Len(wire)
      BY <1>1, <2>2
    <3> QED
      BY <1>1, <2>1, <2>3, <3>1, ConcatAdjacentSubSeq, SubSeqFull
  <2> QED
    BY <1>2, <2>3, <2>4, <2>5
<1>3. CASE kind = "ws"
  <2>1. IsWhole(wire)
    BY <1>3 DEF StreamsAreWhole
  <2>2. PICK m \in Requests, len \in Lengths : wire[1].len = len /\ PacketBehind(0, wire, m, len)
    BY <1>1, <2>1, FirstPacket
  <2>3. chunk = SubSeq(wire, 1, HeaderSize + len)
    BY <1>3, <2>2 DEF Chunks
  <2>4. /\ chunk = Packet(m, len) /\ SubSeq(wire, HeaderSize + len + 1, Len(wire)) \in Seq(Bytes)
        /\ wire = Packet(m, len) \o SubSeq(wire, HeaderSize + len + 1, Len(wire))
    BY <1>1, <2>2, <2>3, FrontAndRest
  <2>5. Len(chunk) = HeaderSize + len /\ chunk \in Seq(Bytes) /\ IsWhole(chunk)
    BY <2>4, PacketTyped, PacketIsWhole
  <2>6. rest = SubSeq(wire, HeaderSize + len + 1, Len(wire))
    BY <2>5
  <2> HIDE DEF rest
  <2>7. wire = Packet(m, len) \o rest /\ rest \in Seq(Bytes)
    BY <2>4, <2>6
  <2>8. IsWhole(Packet(m, len) \o rest)
    BY <2>1, <2>7
  <2>9. IsWhole(rest)
    BY <2>7, <2>8, RestIsWhole
  <2>10. wire = chunk \o rest
    BY <2>4, <2>7, Zenon
  <2> QED
    BY <2>5, <2>7, <2>9, <2>10, Zenon DEF rest
<1> QED
  BY <1>1, <1>2, <1>3

LEMMA ReadEffect ==
  ASSUME TypeOK, StreamsAreWhole, Read
  PROVE  /\ TypeOK' /\ StreamsAreWhole'
         /\ Asked' = Asked /\ Answered' = Answered
         /\ UNCHANGED <<link, serial, RecvChan, handler, received, overflowed, answers>>
<1>1. /\ wire # <<>> /\ reader' = "parse" /\ buffer \in Seq(Bytes)
      /\ UNCHANGED <<link, serial, RecvChan, handler, SendChan, sender, received, overflowed,
                     down>>
  BY DEF Read, TypeOK
<1>2. PICK chunk \in Chunks :
        buffer' = buffer \o chunk /\ wire' = SubSeq(wire, Len(chunk) + 1, Len(wire))
  BY DEF Read
<1>3. /\ chunk \in Seq(Bytes) /\ wire' \in Seq(Bytes) /\ wire = chunk \o wire'
      /\ kind = "ws" => IsWhole(chunk) /\ IsWhole(wire')
  BY <1>1, <1>2, ChunkTaken
<1>4. buffer' \in Seq(Bytes)
  BY <1>1, <1>2, <1>3, ConcatProperties
<1>5. buffer' \o wire' = buffer \o wire
  <2>1. buffer \in Seq(Bytes) /\ chunk \in Seq(Bytes) /\ wire' \in Seq(Bytes)
    BY <1>1, <1>3
  <2>2. (buffer \o chunk) \o wire' = buffer \o (chunk \o wire')
    BY <2>1, ConcatAssociative
  <2> QED
    BY <1>2, <1>3, <2>2, Zenon
<1>6. TypeOK'
  BY <1>1, <1>3, <1>4 DEF TypeOK, link, down
<1>7. StreamsAreWhole'
  <2>1. kind' = "ws" => IsWhole(buffer')
    BY <1>1, <1>2, <1>3, WholeConcat DEF StreamsAreWhole, link
  <2> QED
    BY <1>1, <1>3, <1>5, <2>1 DEF StreamsAreWhole, link, down
<1> QED
  BY <1>1, <1>5, <1>6, <1>7 DEF Asked, Answered, down

-----------------------------------------------------------------------------
(* Sequences whose ends meet. *)
LEMMA ConcatAppend ==
  ASSUME NEW S, NEW s \in Seq(S), NEW t \in Seq(S), NEW x \in S
  PROVE  s \o Append(t, x) = Append(s \o t, x)
<1>1. <<x>> \in Seq(S) /\ s \o t \in Seq(S)
  BY ConcatProperties
<1>2. Append(t, x) = t \o <<x>> /\ Append(s \o t, x) = (s \o t) \o <<x>>
  BY <1>1, AppendIsConcat
<1>3. (s \o t) \o <<x>> = s \o (t \o <<x>>)
  BY <1>1, ConcatAssociative
<1> QED
  BY <1>2, <1>3, Zenon

LEMMA HeadAndTail ==
  ASSUME NEW S, NEW t \in Seq(S), t # <<>>
  PROVE  Head(t) \in S /\ Tail(t) \in Seq(S) /\ t = <<Head(t)>> \o Tail(t)
<1>1. /\ Head(t) \in S /\ Tail(t) \in Seq(S) /\ Len(Tail(t)) = Len(t) - 1
      /\ \A i \in 1..Len(Tail(t)) : Tail(t)[i] = t[i + 1]
      /\ Len(t) \in Nat \ {0} /\ Head(t) = t[1]
  BY HeadTailProperties, EmptySeq
<1> DEFINE u == <<Head(t)>> \o Tail(t)
<1>2. PICK h \in Seq(S) : h = <<Head(t)>>
  <2>1. PICK x \in S : x = Head(t)
    BY <1>1
  <2>2. <<x>> \in Seq(S)
    OBVIOUS
  <2> QED
    BY <2>1, <2>2
<1>3. Len(h) = 1 /\ h[1] = t[1]
  BY <1>1, <1>2
<1>4. /\ h \o Tail(t) \in Seq(S) /\ Len(h \o Tail(t)) = Len(h) + Len(Tail(t))
      /\ \A i \in 1..Len(h) + Len(Tail(t)) :
           (h \o Tail(t))[i] = IF i =< Len(h) THEN h[i] ELSE Tail(t)[i - Len(h)]
  BY <1>1, ConcatProperties
<1>5. u \in Seq(S) /\ Len(u) = Len(t)
  BY <1>1, <1>2, <1>3, <1>4
<1>6. ASSUME NEW i \in 1..Len(t)
      PROVE  t[i] = u[i]
  <2>1. u[i] = IF i =< 1 THEN t[1] ELSE Tail(t)[i - 1]
    BY <1>1, <1>2, <1>3, <1>4
  <2>2. i = 1 \/ (i - 1 \in 1..Len(Tail(t)) /\ (i - 1) + 1 = i /\ ~(i =< 1))
    BY <1>1
  <2> QED
    BY <1>1, <2>1, <2>2
<1>7. t = u
  BY <1>5, <1>6, SeqEqual
<1> QED
  BY <1>1, <1>7

LEMMA MoveHead ==
  ASSUME NEW S, NEW s \in Seq(S), NEW t \in Seq(S), t # <<>>
  PROVE  Append(s, Head(t)) \o Tail(t) = s \o t
<1>1. Head(t) \in S /\ Tail(t) \in Seq(S) /\ t = <<Head(t)>> \o Tail(t)
  BY HeadAndTail
<1>2. <<Head(t)>> \in Seq(S) /\ Append(s, Head(t)) = s \o <<Head(t)>>
  BY <1>1, AppendIsConcat
<1>3. (s \o <<Head(t)>>) \o Tail(t) = s \o (<<Head(t)>> \o Tail(t))
  BY <1>1, <1>2, ConcatAssociative
<1> QED
  BY <1>1, <1>2, <1>3, Zenon

LEMMA TailOfConcat ==
  ASSUME NEW S, NEW s \in Seq(S), NEW t \in Seq(S), s # <<>>
  PROVE  s \o t # <<>> /\ Head(s \o t) = Head(s) /\ Tail(s \o t) = Tail(s) \o t
<1>1. Head(s) \in S /\ Tail(s) \in Seq(S) /\ s = <<Head(s)>> \o Tail(s)
  BY HeadAndTail
<1>2. <<Head(s)>> \in Seq(S) /\ Tail(s) \o t \in Seq(S)
  BY <1>1, ConcatProperties
<1>3. (<<Head(s)>> \o Tail(s)) \o t = <<Head(s)>> \o (Tail(s) \o t)
  BY <1>1, <1>2, ConcatAssociative
<1>4. s \o t = <<Head(s)>> \o (Tail(s) \o t)
  BY <1>1, <1>3, Zenon
<1>5. /\ <<Head(s)>> \o (Tail(s) \o t) # <<>>
      /\ Head(<<Head(s)>> \o (Tail(s) \o t)) = Head(s)
      /\ Tail(<<Head(s)>> \o (Tail(s) \o t)) = Tail(s) \o t
  BY <1>1, <1>2, FrontTaken
<1> QED
  BY <1>4, <1>5, Zenon

(* s without its element at i. *)
Without(s, i) == SubSeq(s, 1, i - 1) \o SubSeq(s, i + 1, Len(s))

LEMMA DropHead ==
  ASSUME NEW S, NEW s \in Seq(S), NEW t \in Seq(S), t # <<>>
  PROVE  \E i \in 1..Len(s \o t) :
           s \o Tail(t) = Without(s \o t, i) /\ (s \o t)[i] = Head(t)
<1> DEFINE c == s \o t
<1>1. /\ Len(s) \in Nat /\ Len(t) \in Nat \ {0} /\ c \in Seq(S) /\ Len(c) = Len(s) + Len(t)
      /\ \A i \in 1..Len(s) : c[i] = s[i]
      /\ \A i \in 1..Len(t) : c[Len(s) + i] = t[i]
  BY ConcatProperties, LenProperties, EmptySeq
<1>2. /\ Tail(t) \in Seq(S) /\ Len(Tail(t)) = Len(t) - 1
      /\ \A i \in 1..Len(t) - 1 : Tail(t)[i] = t[i + 1]
  BY HeadTailProperties
<1> HIDE DEF c
<1>3. PICK i \in 1..Len(c) : i = Len(s) + 1
  BY <1>1
<1>4. \A j \in 1..Len(c) : c[j] \in S
  BY <1>1, ElementOfSeq
<1>5. SubSeq(c, 1, i - 1) = s
  <2>1. /\ SubSeq(c, 1, Len(s)) \in Seq(S) /\ Len(SubSeq(c, 1, Len(s))) = Len(s)
        /\ \A j \in 1..Len(s) : SubSeq(c, 1, Len(s))[j] = s[j]
    BY <1>1, <1>4
  <2>2. SubSeq(c, 1, Len(s)) = s
    BY <2>1, SeqEqual
  <2>3. i - 1 = Len(s)
    BY <1>1, <1>3
  <2> QED
    BY <2>2, <2>3
<1>6. SubSeq(c, i + 1, Len(c)) = Tail(t)
  <2> DEFINE r == SubSeq(c, i + 1, Len(c))
  <2>1. /\ r \in Seq(S) /\ Len(r) = Len(t) - 1
        /\ \A j \in 1..Len(t) - 1 : r[j] = c[Len(s) + (j + 1)]
    <3>1. \A j \in i + 1..Len(c) : c[j] \in S
      BY <1>1, <1>3, <1>4
    <3>2. /\ r \in Seq(S)
          /\ Len(r) = IF i + 1 <= Len(c) THEN Len(c) - (i + 1) + 1 ELSE 0
          /\ \A j \in 1..Len(c) - (i + 1) + 1 : r[j] = c[(i + 1) + j - 1]
      BY <1>1, <1>3, <3>1, SubSeqProperties
    <3> HIDE DEF r
    <3>3. /\ Len(c) - (i + 1) + 1 = Len(t) - 1
          /\ \A j \in 1..Len(t) - 1 : (i + 1) + j - 1 = Len(s) + (j + 1)
      BY <1>1, <1>3
    <3>4. Len(r) = Len(t) - 1
      <4>1. PICK m \in Nat, n \in Nat :
              m = Len(s) /\ n = Len(t) /\ n >= 1 /\ i = m + 1 /\ Len(c) = m + n
        BY <1>1, <1>3
      <4>2. Len(r) = IF m + 1 + 1 <= m + n THEN m + n - (m + 1 + 1) + 1 ELSE 0
        BY <3>2, <4>1
      <4>3. Len(r) = n - 1
        BY <4>1, <4>2
      <4> QED
        BY <4>1, <4>3
    <3>5. ASSUME NEW j \in 1..Len(t) - 1
          PROVE  r[j] = c[Len(s) + (j + 1)]
      <4>1. j \in 1..Len(c) - (i + 1) + 1
        BY <3>3
      <4>2. r[j] = c[(i + 1) + j - 1]
        BY <3>2, <4>1
      <4>3. (i + 1) + j - 1 = Len(s) + (j + 1)
        BY <3>3
      <4> QED
        BY <4>2, <4>3
    <3> QED
      BY <3>2, <3>4, <3>5
  <2> HIDE DEF r
  <2>2. \A j \in 1..Len(t) - 1 : r[j] = Tail(t)[j]
    <3>1. \A j \in 1..Len(t) - 1 : j + 1 \in 1..Len(t)
      BY <1>1
    <3> QED
      BY <1>1, <1>2, <2>1, <3>1
  <2>3. r = Tail(t)
    BY <1>2, <2>1, <2>2, SeqEqual
  <2> QED
    BY <2>3 DEF r
<1>7. s \o Tail(t) = Without(c, i)
  BY <1>5, <1>6 DEF Without
<1>8. c[i] = Head(t)
  <2>1. 1 \in 1..Len(t) /\ Head(t) = t[1]
    BY <1>1
  <2> QED
    BY <1>1, <1>3, <2>1
<1> QED
  BY <1>3, <1>7, <1>8 DEF c

-----------------------------------------------------------------------------
LEMMA ParsePacketEffect ==
  ASSUME TypeOK, StreamsAreWhole, ParsePacket
  PROVE  /\ TypeOK' /\ StreamsAreWhole'
         /\ Asked # <<>> /\ Asked' = Tail(Asked) /\ Answered' = Answered
         /\ \/ /\ RecvChan' = Append(RecvChan, Head(Asked))
               /\ received' = Append(received, Head(Asked)) /\ UNCHANGED overflowed
            \/ /\ Len(RecvChan) = RecvCap
               /\ overflowed' = overflowed \cup {Head(Asked)} /\ UNCHANGED <<RecvChan, received>>
         /\ UNCHANGED <<link, serial, handler, answers>>
<1>1. /\ buffer \in Seq(Bytes) /\ wire \in Seq(Bytes) /\ HasPacket(buffer)
      /\ IsWhole(buffer \o wire) /\ buffer' = Rest(buffer)
      /\ UNCHANGED <<link, serial, wire, reader, handler, SendChan, sender, down>>
  BY DEF ParsePacket, TypeOK, StreamsAreWhole
<1>2. PICK m \in Requests, len \in Lengths :
        /\ Unmarshals(MessageBuf(buffer)) /\ MessageBuf(buffer)[1].msg = m
        /\ Rest(buffer) \in Seq(Bytes) /\ buffer = Packet(m, len) \o Rest(buffer)
        /\ IsWhole(Rest(buffer) \o wire)
  BY <1>1, Parsed
<1>3. /\ Packet(m, len) \in Seq(Bytes) /\ Rest(buffer) \in Seq(Bytes)
      /\ Rest(buffer) \o wire \in Seq(Bytes)
  BY <1>1, <1>2, PacketTyped, ConcatProperties
<1>4. Asked = <<m>> \o Ending(Rest(buffer) \o wire)
  <2>1. (Packet(m, len) \o Rest(buffer)) \o wire = Packet(m, len) \o (Rest(buffer) \o wire)
    <3>1. Packet(m, len) \in Seq(Bytes) /\ Rest(buffer) \in Seq(Bytes) /\ wire \in Seq(Bytes)
      BY <1>1, <1>3
    <3> QED
      BY <3>1, ConcatAssociative
  <2>2. buffer \o wire = Packet(m, len) \o (Rest(buffer) \o wire)
    BY <1>2, <2>1, Zenon
  <2>3. Ending(Packet(m, len) \o (Rest(buffer) \o wire))
          = <<m>> \o Ending(Rest(buffer) \o wire)
    BY <1>3, EndingOfConcat, EndingOfPacket
  <2> QED
    BY <2>2, <2>3, Zenon DEF Asked
<1>5. Asked' = Ending(Rest(buffer) \o wire)
  BY <1>1 DEF Asked
<1>6. Asked # <<>> /\ Head(Asked) = m /\ Asked' = Tail(Asked)
  <2>1. Ending(Rest(buffer) \o wire) \in Seq(Requests)
    BY <1>3, EndingTyped
  <2>2. /\ <<m>> \o Ending(Rest(buffer) \o wire) # <<>>
        /\ Head(<<m>> \o Ending(Rest(buffer) \o wire)) = m
        /\ Tail(<<m>> \o Ending(Rest(buffer) \o wire)) = Ending(Rest(buffer) \o wire)
    BY <2>1, FrontTaken
  <2> QED
    BY <1>4, <1>5, <2>2, Zenon
<1>7. \/ /\ Len(RecvChan) < RecvCap /\ RecvChan' = Append(RecvChan, m)
         /\ received' = Append(received, m) /\ UNCHANGED overflowed
      \/ /\ ~(Len(RecvChan) < RecvCap)
         /\ overflowed' = overflowed \cup {m} /\ UNCHANGED <<RecvChan, received>>
  BY <1>2 DEF ParsePacket
<1>8. /\ RecvChan \in Seq(Requests) /\ received \in Seq(Requests) /\ overflowed \subseteq Requests
      /\ Len(RecvChan) =< RecvCap /\ RecvCap \in Nat
  BY FramingConstants DEF TypeOK
<1>9. TypeOK'
  <2>1. /\ RecvChan' \in Seq(Requests) /\ Len(RecvChan') =< RecvCap
        /\ received' \in Seq(Requests) /\ overflowed' \subseteq Requests
    <3>1. CASE Len(RecvChan) < RecvCap
      <4>1. /\ Len(Append(RecvChan, m)) = Len(RecvChan) + 1 /\ Len(RecvChan) \in Nat
            /\ Append(RecvChan, m) \in Seq(Requests) /\ Append(received, m) \in Seq(Requests)
        BY <1>8, AppendProperties, LenProperties
      <4>2. /\ RecvChan' = Append(RecvChan, m) /\ received' = Append(received, m)
            /\ overflowed' = overflowed
        BY <1>7, <3>1
      <4> QED
        BY <1>8, <3>1, <4>1, <4>2
    <3>2. CASE ~(Len(RecvChan) < RecvCap)
      BY <1>7, <1>8, <3>2
    <3> QED
      BY <3>1, <3>2
  <2> QED
    BY <1>1, <1>2, <2>1 DEF TypeOK, link, down
<1>10. StreamsAreWhole'
  <2>1. kind = "ws" => IsWhole(Rest(buffer))
    BY <1>1, ParsedWhole DEF StreamsAreWhole
  <2> QED
    BY <1>1, <1>2, <2>1 DEF StreamsAreWhole, link, down
<1>11. Len(RecvChan) < RecvCap \/ Len(RecvChan) = RecvCap
  BY <1>8, LenProperties
<1>12. /\ Answered' = Answered
       /\ UNCHANGED <<link, serial, handler, answers>>
  BY <1>1 DEF Answered, down
<1> QED
  BY <1>6, <1>7, <1>9, <1>10, <1>11, <1>12

LEMMA HandlerTakesEffect ==
  ASSUME TypeOK, StreamsAreWhole, HandlerTakes
  PROVE  /\ TypeOK' /\ StreamsAreWhole' /\ Asked' = Asked /\ Answered' = Answered
         /\ handler = Idle /\ RecvChan # <<>>
         /\ handler' = Head(RecvChan) /\ handler' \in Requests /\ RecvChan' = Tail(RecvChan)
         /\ UNCHANGED <<link, serial, received, overflowed, answers>>
<1>1. /\ handler = Idle /\ RecvChan # <<>> /\ RecvChan \in Seq(Requests)
      /\ handler' = Head(RecvChan) /\ RecvChan' = Tail(RecvChan)
      /\ UNCHANGED <<link, serial, up, SendChan, sender, down>>
  BY DEF HandlerTakes, TypeOK
<1>2. /\ Head(RecvChan) \in Requests /\ Tail(RecvChan) \in Seq(Requests)
      /\ Len(Tail(RecvChan)) = Len(RecvChan) - 1 /\ Len(RecvChan) \in Nat
  BY <1>1, HeadTailProperties, LenProperties
<1>3. Len(Tail(RecvChan)) =< RecvCap
  BY <1>2, FramingConstants DEF TypeOK
<1>4. TypeOK'
  BY <1>1, <1>2, <1>3 DEF TypeOK, link, up, down
<1> QED
  BY <1>1, <1>2, <1>4 DEF StreamsAreWhole, Asked, Answered, link, up, down

LEMMA SendResponseEffect ==
  ASSUME TypeOK, StreamsAreWhole, SendResponse
  PROVE  /\ TypeOK' /\ StreamsAreWhole' /\ Asked' = Asked
         /\ handler \in Requests /\ handler' = Idle /\ Answered' = Append(Answered, handler)
         /\ UNCHANGED <<link, serial, RecvChan, received, overflowed, answers>>
<1>1. /\ handler \in Requests /\ Len(SendChan) < SendCap /\ SendChan \in Seq(Requests)
      /\ handler' = Idle /\ SendChan' = Append(SendChan, handler)
      /\ UNCHANGED <<link, serial, up, RecvChan, sender, down>>
  BY DEF SendResponse, TypeOK
<1>2. /\ Append(SendChan, handler) \in Seq(Requests)
      /\ Len(Append(SendChan, handler)) = Len(SendChan) + 1 /\ Len(SendChan) \in Nat
      /\ SendCap \in Nat
  BY <1>1, FramingConstants, AppendProperties, LenProperties
<1>3. TypeOK'
  BY <1>1, <1>2 DEF TypeOK, link, up, down
<1>4. Answered' = Append(Answered, handler)
  <2> DEFINE front == Ending(message_buffer) \o MessagesOf(packets)
  <2>1. front \in Seq(Requests)
    BY UnderwayTyped, ConcatProperties
  <2>2. Answered = front \o SendChan /\ Answered' = front \o Append(SendChan, handler)
    BY <1>1 DEF Answered, down
  <2> HIDE DEF front
  <2> QED
    BY <1>1, <2>1, <2>2, ConcatAppend
<1> QED
  BY <1>1, <1>3, <1>4 DEF StreamsAreWhole, Asked, link, up, down

LEMMA WriteEffect ==
  ASSUME TypeOK, StreamsAreWhole, Write
  PROVE  /\ TypeOK' /\ StreamsAreWhole' /\ Asked' = Asked /\ Answered' = Answered
         /\ UNCHANGED <<link, serial, RecvChan, handler, received, overflowed, answers>>
<1>1. /\ SendChan # <<>> /\ SendChan \in Seq(Requests) /\ SendChan' = Tail(SendChan)
      /\ packets \in Seq(Seq(Bytes)) /\ ArePackets(packets)
      /\ UNCHANGED <<link, serial, up, RecvChan, handler, sender, client, message_buffer,
                     answers>>
  BY DEF Write, TypeOK, StreamsAreWhole
<1>2. PICK len \in Lengths : packets' = Append(packets, Packet(Head(SendChan), len))
  BY DEF Write
<1>3. /\ Head(SendChan) \in Requests /\ Tail(SendChan) \in Seq(Requests)
      /\ Len(Tail(SendChan)) = Len(SendChan) - 1 /\ Len(SendChan) \in Nat
  BY <1>1, HeadTailProperties, LenProperties
<1>4. Len(Tail(SendChan)) =< SendCap
  BY <1>3, FramingConstants DEF TypeOK
<1>5. packets' \in Seq(Seq(Bytes))
  BY <1>1, <1>2, <1>3, PacketTyped, AppendProperties
<1>6. TypeOK'
  BY <1>1, <1>3, <1>4, <1>5 DEF TypeOK, link, up
<1>7. ArePackets(packets') /\ MessagesOf(packets') = Append(MessagesOf(packets), Head(SendChan))
  BY <1>1, <1>2, <1>3, MessagesAppend
<1>8. Answered' = Answered
  <2> DEFINE e == Ending(message_buffer)
             f == MessagesOf(packets)
  <2>1. e \in Seq(Requests) /\ f \in Seq(Requests) /\ e \o f \in Seq(Requests)
    BY UnderwayTyped, ConcatProperties
  <2>2. Answered = (e \o f) \o SendChan /\ Answered' = (e \o MessagesOf(packets')) \o Tail(SendChan)
    BY <1>1 DEF Answered
  <2> HIDE DEF e, f
  <2>3. e \o Append(f, Head(SendChan)) = Append(e \o f, Head(SendChan))
    BY <1>3, <2>1, ConcatAppend
  <2>4. Append(e \o f, Head(SendChan)) \o Tail(SendChan) = (e \o f) \o SendChan
    BY <1>1, <2>1, MoveHead
  <2>5. MessagesOf(packets') = Append(f, Head(SendChan))
    BY <1>7 DEF f
  <2> QED
    BY <2>2, <2>3, <2>4, <2>5, Zenon
<1> QED
  BY <1>1, <1>6, <1>7, <1>8 DEF StreamsAreWhole, Asked, link, up

LEMMA WriteFailsEffect ==
  ASSUME TypeOK, StreamsAreWhole, WriteFails
  PROVE  /\ TypeOK' /\ StreamsAreWhole' /\ Asked' = Asked
         /\ cancelled' = TRUE
         /\ \E s \in Seq(Requests), t \in Seq(Requests) :
              t # <<>> /\ Answered = s \o t /\ Answered' = s \o Tail(t)
         /\ UNCHANGED <<open, crashed, serial, RecvChan, handler, received, overflowed, answers>>
<1>1. /\ SendChan # <<>> /\ SendChan \in Seq(Requests) /\ SendChan' = Tail(SendChan)
      /\ sender' = "done" /\ cancelled' = TRUE
      /\ UNCHANGED <<kind, open, crashed, serial, up, RecvChan, handler, down>>
  BY DEF WriteFails, TypeOK
<1>2. /\ Tail(SendChan) \in Seq(Requests)
      /\ Len(Tail(SendChan)) = Len(SendChan) - 1 /\ Len(SendChan) \in Nat
  BY <1>1, HeadTailProperties, LenProperties
<1>3. Len(Tail(SendChan)) =< SendCap
  BY <1>2, FramingConstants DEF TypeOK
<1>4. TypeOK'
  BY <1>1, <1>2, <1>3 DEF TypeOK, up, down
<1>5. \E s \in Seq(Requests), t \in Seq(Requests) :
        t # <<>> /\ Answered = s \o t /\ Answered' = s \o Tail(t)
  <2> DEFINE front == Ending(message_buffer) \o MessagesOf(packets)
  <2>1. front \in Seq(Requests)
    BY UnderwayTyped, ConcatProperties
  <2>2. Answered = front \o SendChan /\ Answered' = front \o Tail(SendChan)
    BY <1>1 DEF Answered, down
  <2> HIDE DEF front
  <2> QED
    BY <1>1, <2>1, <2>2
<1> QED
  BY <1>1, <1>4, <1>5 DEF StreamsAreWhole, Asked, up, down

LEMMA PollEffect ==
  ASSUME TypeOK, StreamsAreWhole, Poll
  PROVE  /\ TypeOK' /\ StreamsAreWhole' /\ Asked' = Asked /\ Answered' = Answered
         /\ UNCHANGED <<link, serial, RecvChan, handler, received, overflowed, answers>>
<1>1. /\ packets # <<>> /\ packets \in Seq(Seq(Bytes)) /\ ArePackets(packets)
      /\ message_buffer \in Seq(Bytes) /\ IsWhole(message_buffer)
      /\ message_buffer' = message_buffer \o Head(packets) /\ packets' = Tail(packets)
      /\ client' = "parse"
      /\ UNCHANGED <<link, serial, up, RecvChan, handler, SendChan, sender, answers>>
  BY DEF Poll, TypeOK, StreamsAreWhole
<1>2. Tail(packets) \in Seq(Seq(Bytes)) /\ ArePackets(Tail(packets))
  BY <1>1, MessagesTail
<1>3. PICK m \in Requests, len \in Lengths :
        /\ Head(packets) = Packet(m, len)
        /\ MessagesOf(packets) = <<m>> \o MessagesOf(Tail(packets))
  BY <1>1, MessagesTail
<1>4. Packet(m, len) \in Seq(Bytes) /\ IsWhole(Packet(m, len))
  BY PacketTyped, PacketIsWhole
<1>5. message_buffer' \in Seq(Bytes) /\ IsWhole(message_buffer')
  BY <1>1, <1>3, <1>4, ConcatProperties, WholeConcat
<1>6. TypeOK'
  BY <1>1, <1>2, <1>5 DEF TypeOK, link, up
<1>7. Answered' = Answered
  <2> DEFINE e == Ending(message_buffer)
             f == MessagesOf(Tail(packets))
  <2>1. e \in Seq(Requests) /\ f \in Seq(Requests) /\ <<m>> \in Seq(Requests)
    <3>1. e \in Seq(Requests)
      BY UnderwayTyped
    <3>2. f \in Seq(Requests)
      BY <1>2, MessagesTyped
    <3> QED
      BY <3>1, <3>2
  <2>2. /\ Answered = (e \o (<<m>> \o f)) \o SendChan
        /\ Answered' = (Ending(message_buffer') \o f) \o SendChan
    BY <1>1, <1>3 DEF Answered
  <2>3. Ending(message_buffer') = Append(e, m)
    BY <1>1, <1>3, EndingOfOneMore
  <2> HIDE DEF e, f
  <2>4. Append(e, m) = e \o <<m>>
    BY <2>1, AppendIsConcat
  <2>5. (e \o <<m>>) \o f = e \o (<<m>> \o f)
    BY <2>1, ConcatAssociative
  <2> QED
    BY <2>2, <2>3, <2>4, <2>5, Zenon
<1> QED
  BY <1>1, <1>2, <1>5, <1>6, <1>7 DEF StreamsAreWhole, Asked, link, up

LEMMA ProcessMessageEffect ==
  ASSUME TypeOK, StreamsAreWhole, ProcessMessage
  PROVE  /\ TypeOK' /\ StreamsAreWhole' /\ Asked' = Asked
         /\ Answered # <<>> /\ Answered' = Tail(Answered)
         /\ answers' = Append(answers, Head(Answered))
         /\ UNCHANGED <<link, serial, RecvChan, handler, received, overflowed>>
<1>1. /\ message_buffer \in Seq(Bytes) /\ IsWhole(message_buffer) /\ HasPacket(message_buffer)
      /\ answers \in Seq(Requests) /\ message_buffer' = Rest(message_buffer)
      /\ UNCHANGED <<link, serial, up, RecvChan, handler, SendChan, sender, packets, client>>
  BY DEF ProcessMessage, TypeOK, StreamsAreWhole
<1>2. /\ IsWhole(Rest(message_buffer)) /\ Rest(message_buffer) \in Seq(Bytes)
      /\ Unmarshals(MessageBuf(message_buffer)) /\ Ending(message_buffer) # <<>>
      /\ Head(Ending(message_buffer)) = MessageBuf(message_buffer)[1].msg
      /\ Ending(Rest(message_buffer)) = Tail(Ending(message_buffer))
  BY <1>1, ParsedWhole
<1>3. answers' = Append(answers, Head(Ending(message_buffer)))
  BY <1>2 DEF ProcessMessage
<1>4. /\ Ending(message_buffer) \in Seq(Requests) /\ MessagesOf(packets) \in Seq(Requests)
      /\ SendChan \in Seq(Requests)
  BY UnderwayTyped
<1>5. Head(Ending(message_buffer)) \in Requests
  BY <1>2, <1>4, HeadTailProperties
<1>6. TypeOK'
  <2>1. answers' \in Seq(Requests)
    BY <1>1, <1>3, <1>5, AppendProperties
  <2> QED
    BY <1>1, <1>2, <2>1 DEF TypeOK, link, up
<1>7. Answered # <<>> /\ Head(Answered) = Head(Ending(message_buffer)) /\ Answered' = Tail(Answered)
  <2> DEFINE e == Ending(message_buffer)
             f == MessagesOf(packets)
  <2>1. Answered = (e \o f) \o SendChan /\ Answered' = (Tail(e) \o f) \o SendChan
    BY <1>1, <1>2 DEF Answered
  <2>2. e \in Seq(Requests) /\ e # <<>> /\ f \in Seq(Requests) /\ e \o f \in Seq(Requests)
    BY <1>2, <1>4, ConcatProperties
  <2> HIDE DEF e, f
  <2>3. e \o f # <<>> /\ Head(e \o f) = Head(e) /\ Tail(e \o f) = Tail(e) \o f
    BY <2>2, TailOfConcat
  <2>4. /\ (e \o f) \o SendChan # <<>> /\ Head((e \o f) \o SendChan) = Head(e \o f)
        /\ Tail((e \o f) \o SendChan) = Tail(e \o f) \o SendChan
    BY <1>4, <2>2, <2>3, TailOfConcat
  <2> QED
    BY <2>1, <2>3, <2>4, Zenon DEF e
<1> QED
  BY <1>1, <1>2, <1>3, <1>6, <1>7 DEF StreamsAreWhole, Asked, link, up

LEMMA QuietEffect ==
  ASSUME TypeOK, StreamsAreWhole,
         \/ Disconnect \/ ReadPanics \/ ReadFails \/ ParseEnds
         \/ HandlerStops \/ SenderStops \/ ProcessEnds \/ UNCHANGED vars
  PROVE  /\ TypeOK' /\ StreamsAreWhole' /\ Asked' = Asked /\ Answered' = Answered
         /\ Handling' = Handling
         /\ UNCHANGED <<serial, RecvChan, received, overflowed, answers>>
         /\ open' => open
         /\ cancelled => cancelled'
         /\ crashed => crashed'
<1>1. Idle \notin Requests /\ Done \notin Requests
  BY DEF Idle, Done, Requests
<1>2. CASE Disconnect
  <2>1. TypeOK'
    BY <1>2 DEF Disconnect, TypeOK, up, down
  <2> QED
    BY <1>2, <2>1 DEF Disconnect, StreamsAreWhole, Asked, Answered, Handling, up, down
<1>3. CASE ReadPanics
  <2>1. TypeOK'
    BY <1>3 DEF ReadPanics, TypeOK, up, down
  <2> QED
    BY <1>3, <2>1 DEF ReadPanics, StreamsAreWhole, Asked, Answered, Handling, up, down
<1>4. CASE ReadFails
  <2>1. TypeOK'
    BY <1>4 DEF ReadFails, TypeOK, down
  <2> QED
    BY <1>4, <2>1 DEF ReadFails, StreamsAreWhole, Asked, Answered, Handling, down
<1>5. CASE ParseEnds
  <2>1. TypeOK'
    BY <1>5 DEF ParseEnds, TypeOK, link, down
  <2> QED
    BY <1>5, <2>1 DEF ParseEnds, StreamsAreWhole, Asked, Answered, Handling, link, down
<1>6. CASE HandlerStops
  <2>1. TypeOK'
    BY <1>6 DEF HandlerStops, TypeOK, link, up, down
  <2>2. Handling' = Handling
    BY <1>1, <1>6 DEF HandlerStops, Handling
  <2> QED
    BY <1>6, <2>1, <2>2 DEF HandlerStops, StreamsAreWhole, Asked, Answered, link, up, down
<1>7. CASE SenderStops
  <2>1. TypeOK'
    BY <1>7 DEF SenderStops, TypeOK, link, up, down
  <2> QED
    BY <1>7, <2>1 DEF SenderStops, StreamsAreWhole, Asked, Answered, Handling, link, up, down
<1>8. CASE ProcessEnds
  <2>1. TypeOK'
    BY <1>8 DEF ProcessEnds, TypeOK, link, up
  <2> QED
    BY <1>8, <2>1 DEF ProcessEnds, StreamsAreWhole, Asked, Answered, Handling, link, up
<1>9. CASE UNCHANGED vars
  <2>1. TypeOK'
    BY <1>9 DEF vars, TypeOK, link, up, down
  <2> QED
    BY <1>9, <2>1 DEF vars, StreamsAreWhole, Asked, Answered, Handling, link, up, down
<1> QED
  BY <1>2, <1>3, <1>4, <1>5, <1>6, <1>7, <1>8, <1>9

-----------------------------------------------------------------------------
(* The chain from the answers back to the requests. *)
Rising(c) == \A i, j \in 1..Len(c) : i < j => c[i] < c[j]

LEMMA WithoutEffect ==
  ASSUME NEW S, NEW c \in Seq(S), NEW i \in 1..Len(c)
  PROVE  /\ Without(c, i) \in Seq(S) /\ Len(Without(c, i)) = Len(c) - 1
         /\ \A j \in 1..Len(c) - 1 : Without(c, i)[j] = c[IF j < i THEN j ELSE j + 1]
<1> DEFINE a == SubSeq(c, 1, i - 1)
           b == SubSeq(c, i + 1, Len(c))
<1>1. Len(c) \in Nat /\ i \in Nat /\ i >= 1 /\ i =< Len(c) /\ \A j \in 1..Len(c) : c[j] \in S
  BY LenProperties, ElementOfSeq
<1>2. /\ a \in Seq(S) /\ Len(a) = i - 1 /\ \A j \in 1..i - 1 : a[j] = c[j]
  BY <1>1
<1>3. /\ b \in Seq(S) /\ Len(b) = Len(c) - i /\ \A j \in 1..Len(c) - i : b[j] = c[i + j]
  <2>1. /\ b \in Seq(S)
        /\ Len(b) = IF i + 1 <= Len(c) THEN Len(c) - (i + 1) + 1 ELSE 0
        /\ \A j \in 1..Len(c) - (i + 1) + 1 : b[j] = c[(i + 1) + j - 1]
    BY <1>1, SubSeqProperties
  <2> HIDE DEF b
  <2>2. Len(b) = Len(c) - i
    <3>1. PICK n \in Nat : n = Len(c)
      BY <1>1
    <3>2. Len(b) = IF i + 1 <= n THEN n - (i + 1) + 1 ELSE 0
      BY <2>1, <3>1
    <3>3. Len(b) = n - i
      BY <1>1, <3>1, <3>2
    <3> QED
      BY <3>1, <3>3
  <2>3. ASSUME NEW j \in 1..Len(c) - i
        PROVE  b[j] = c[i + j]
    <3>1. j \in 1..Len(c) - (i + 1) + 1 /\ (i + 1) + j - 1 = i + j
      BY <1>1
    <3>2. b[j] = c[(i + 1) + j - 1]
      BY <2>1, <3>1
    <3> QED
      BY <3>1, <3>2
  <2> QED
    BY <2>1, <2>2, <2>3
<1> HIDE DEF a, b
<1>4. /\ a \o b \in Seq(S) /\ Len(a \o b) = Len(a) + Len(b)
      /\ \A j \in 1..Len(a) + Len(b) : (a \o b)[j] = IF j <= Len(a) THEN a[j] ELSE b[j - Len(a)]
  BY <1>2, <1>3, ConcatProperties
<1>5. Len(a) + Len(b) = Len(c) - 1
  BY <1>1, <1>2, <1>3
<1>6. ASSUME NEW j \in 1..Len(c) - 1
      PROVE  (a \o b)[j] = c[IF j < i THEN j ELSE j + 1]
  <2>1. (a \o b)[j] = IF j <= i - 1 THEN a[j] ELSE b[j - (i - 1)]
    BY <1>2, <1>4, <1>5
  <2>2. CASE j < i
    <3>1. j \in 1..i - 1 /\ j <= i - 1
      BY <1>1, <2>2
    <3> QED
      BY <1>2, <2>1, <2>2, <3>1
  <2>3. CASE ~(j < i)
    <3>1. j - (i - 1) \in 1..Len(c) - i /\ ~(j <= i - 1) /\ i + (j - (i - 1)) = j + 1
      BY <1>1, <2>3
    <3> QED
      BY <1>3, <2>1, <2>3, <3>1
  <2> QED
    BY <2>2, <2>3
<1>7. Without(c, i) = a \o b
  BY DEF Without, a, b
<1> QED
  BY <1>4, <1>5, <1>6, <1>7

LEMMA RisingWithout ==
  ASSUME NEW c \in Seq(Requests), Rising(c), NEW i \in 1..Len(c)
  PROVE  /\ Without(c, i) \in Seq(Requests) /\ Rising(Without(c, i))
         /\ \A j \in 1..Len(Without(c, i)) :
              /\ \E k \in 1..Len(c) : Without(c, i)[j] = c[k]
              /\ Without(c, i)[j] # c[i]
<1>1. PICK d \in Seq(Requests) : d = Without(c, i)
  BY WithoutEffect
<1>2. /\ Len(d) = Len(c) - 1
      /\ \A j \in 1..Len(c) - 1 : d[j] = c[IF j < i THEN j ELSE j + 1]
  BY <1>1, WithoutEffect
<1>3. /\ Len(c) \in Nat /\ i \in Nat /\ i >= 1 /\ i =< Len(c)
      /\ \A j \in 1..Len(c) : c[j] \in Requests /\ c[j] \in Nat
  <2>1. Len(c) \in Nat /\ i \in Nat /\ i >= 1 /\ i =< Len(c)
    BY LenProperties
  <2>2. \A j \in 1..Len(c) : c[j] \in Requests
    BY ElementOfSeq
  <2>3. Requests \subseteq Nat
    BY FramingConstants DEF Requests
  <2> QED
    BY <2>1, <2>2, <2>3
<1>4. ASSUME NEW j \in 1..Len(d)
      PROVE  \E k \in 1..Len(c) : d[j] = c[k] /\ k # i
  <2>1. CASE j < i
    <3>1. j \in 1..Len(c) /\ j \in 1..Len(c) - 1 /\ j # i
      BY <1>2, <1>3, <2>1
    <3>2. d[j] = c[j]
      BY <1>2, <2>1, <3>1
    <3> QED
      BY <3>1, <3>2
  <2>2. CASE ~(j < i)
    <3>1. j + 1 \in 1..Len(c) /\ j + 1 # i
      BY <1>2, <1>3, <2>2
    <3>2. d[j] = c[j + 1]
      BY <1>2, <2>2
    <3> QED
      BY <3>1, <3>2
  <2> QED
    BY <2>1, <2>2
<1>5. ASSUME NEW k \in 1..Len(c), k # i
      PROVE  c[k] # c[i]
  <2>1. k < i \/ i < k
    BY <1>3, <1>5
  <2>2. c[k] < c[i] \/ c[i] < c[k]
    BY <2>1 DEF Rising
  <2> QED
    BY <1>3, <2>2
<1>6. Rising(d)
  <2> SUFFICES ASSUME NEW j \in 1..Len(d), NEW k \in 1..Len(d), j < k
               PROVE  d[j] < d[k]
    BY DEF Rising
  <2> DEFINE x == IF j < i THEN j ELSE j + 1
             y == IF k < i THEN k ELSE k + 1
  <2>1. x \in 1..Len(c) /\ y \in 1..Len(c) /\ x < y
    BY <1>2, <1>3
  <2>2. d[j] = c[x] /\ d[k] = c[y]
    BY <1>2
  <2> HIDE DEF x, y
  <2> QED
    BY <2>1, <2>2 DEF Rising
<1> QED
  BY <1>1, <1>4, <1>5, <1>6

LEMMA RisingAppend ==
  ASSUME NEW c \in Seq(Requests), NEW x \in Requests, Rising(c),
         \A i \in 1..Len(c) : c[i] < x
  PROVE  Append(c, x) \in Seq(Requests) /\ Rising(Append(c, x))
<1>1. /\ Append(c, x) \in Seq(Requests) /\ Len(Append(c, x)) = Len(c) + 1 /\ Len(c) \in Nat
      /\ \A i \in 1..Len(c) : Append(c, x)[i] = c[i]
      /\ Append(c, x)[Len(c) + 1] = x
  BY AppendProperties, LenProperties
<1>2. ASSUME NEW i \in 1..Len(c) + 1, NEW j \in 1..Len(c) + 1, i < j
      PROVE  Append(c, x)[i] < Append(c, x)[j]
  <2>1. i \in 1..Len(c)
    BY <1>1, <1>2
  <2>2. j \in 1..Len(c) \/ j = Len(c) + 1
    BY <1>1
  <2> QED
    BY <1>1, <1>2, <2>1, <2>2 DEF Rising
<1> QED
  BY <1>1, <1>2 DEF Rising


(* The chain of a connection as a function of its links. *)
Joined(a, d, h, r, q) == a \o d \o h \o r \o q

LEMMA JoinTyped ==
  ASSUME NEW S, NEW a \in Seq(S), NEW d \in Seq(S), NEW h \in Seq(S), NEW r \in Seq(S),
         NEW q \in Seq(S)
  PROVE  /\ a \o d \in Seq(S) /\ a \o d \o h \in Seq(S) /\ a \o d \o h \o r \in Seq(S)
         /\ Joined(a, d, h, r, q) \in Seq(S)
<1>1. a \o d \in Seq(S)
  BY ConcatProperties
<1>2. a \o d \o h \in Seq(S)
  BY <1>1, ConcatProperties
<1>3. a \o d \o h \o r \in Seq(S)
  BY <1>2, ConcatProperties
<1>4. a \o d \o h \o r \o q \in Seq(S)
  BY <1>3, ConcatProperties
<1> QED
  BY <1>1, <1>2, <1>3, <1>4 DEF Joined

(* What the actions that move a message to the next link keep. *)
Arrived(a, d, h, r, q) ==
  q # <<>> => Joined(a, d, h, Append(r, Head(q)), Tail(q)) = Joined(a, d, h, r, q)
Taken(a, d, r, q) ==
  r # <<>> => Joined(a, d, <<Head(r)>>, Tail(r), q) = Joined(a, d, <<>>, r, q)
Responded(a, d, x, r, q) ==
  Joined(a, Append(d, x), <<>>, r, q) = Joined(a, d, <<x>>, r, q)
GivenBack(a, d, h, r, q) ==
  d # <<>> => Joined(Append(a, Head(d)), Tail(d), h, r, q) = Joined(a, d, h, r, q)
Sent(a, d, h, r, q, x) ==
  Joined(a, d, h, r, Append(q, x)) = Append(Joined(a, d, h, r, q), x)

LEMMA JoinMoves ==
  ASSUME NEW S, NEW a \in Seq(S), NEW d \in Seq(S), NEW h \in Seq(S), NEW r \in Seq(S),
         NEW q \in Seq(S), NEW x \in S
  PROVE  /\ Arrived(a, d, h, r, q) /\ Taken(a, d, r, q) /\ Responded(a, d, x, r, q)
         /\ GivenBack(a, d, h, r, q) /\ Sent(a, d, h, r, q, x)
<1> DEFINE T == Seq(S)
           Cat(u, v) == u \o v
           App(u, y) == Append(u, y)
           First(u) == Head(u)
           Drop(u) == Tail(u)
           One(y) == <<y>>
<1>1. \A u, v \in T : Cat(u, v) \in T
  BY ConcatProperties
<1>2. \A u \in T : u # <<>> => First(u) \in S /\ Drop(u) \in T
  BY HeadAndTail
<1>3. \A u, v \in T : \A y \in S : Cat(u, App(v, y)) = App(Cat(u, v), y)
  BY ConcatAppend
<1>4. \A u, v \in T : v # <<>> => Cat(App(u, First(v)), Drop(v)) = Cat(u, v)
  BY MoveHead
<1>5. \A u \in T : Cat(u, <<>>) = u
  BY ConcatEmptySeq
<1>6. \A u \in T : \A y \in S : App(u, y) \in T /\ Cat(u, One(y)) = App(u, y)
  <2>1. ASSUME NEW u \in T, NEW y \in S
        PROVE  App(u, y) \in T /\ Cat(u, One(y)) = App(u, y)
    <3>1. One(y) = App(<<>>, y) /\ <<>> \in T
      OBVIOUS
    <3>2. Cat(u, App(<<>>, y)) = App(Cat(u, <<>>), y)
      BY <1>3, <2>1, <3>1
    <3>3. App(u, y) \in T
      BY <2>1, AppendProperties
    <3> HIDE DEF T, Cat, App, One
    <3> QED
      BY <1>5, <2>1, <3>1, <3>2, <3>3
  <2> QED
    BY <2>1
<1>7. a \in T /\ d \in T /\ h \in T /\ r \in T /\ q \in T /\ x \in S
  OBVIOUS
<1> HIDE DEF T, Cat, App, First, Drop, One
<1>8. Cat(a, d) \in T /\ Cat(Cat(a, d), h) \in T /\ Cat(Cat(Cat(a, d), h), r) \in T
  BY <1>1, <1>7
<1>9. q # <<>> => Cat(Cat(Cat(Cat(a, d), h), App(r, First(q))), Drop(q))
                    = Cat(Cat(Cat(Cat(a, d), h), r), q)
  BY <1>2, <1>3, <1>4, <1>7, <1>8
<1>10. r # <<>> => Cat(Cat(Cat(Cat(a, d), One(First(r))), Drop(r)), q)
                     = Cat(Cat(Cat(Cat(a, d), <<>>), r), q)
  BY <1>2, <1>4, <1>5, <1>6, <1>7, <1>8
<1>11. Cat(Cat(Cat(Cat(a, App(d, x)), <<>>), r), q) = Cat(Cat(Cat(Cat(a, d), One(x)), r), q)
  BY <1>3, <1>5, <1>6, <1>7, <1>8
<1>12. d # <<>> => Cat(Cat(Cat(Cat(App(a, First(d)), Drop(d)), h), r), q)
                     = Cat(Cat(Cat(Cat(a, d), h), r), q)
  BY <1>4, <1>7
<1>13. Cat(Cat(Cat(Cat(a, d), h), r), App(q, x)) = App(Cat(Cat(Cat(Cat(a, d), h), r), q), x)
  BY <1>3, <1>7, <1>8
<1> QED
  BY <1>9, <1>10, <1>11, <1>12, <1>13, Zenon
     DEF Arrived, Taken, Responded, GivenBack, Sent, Joined, Cat, App, First, Drop, One

(* A request met by a full RecvChan leaves the chain... *)
Dropped(a, d, h, r, q) ==
  \E i \in 1..Len(Joined(a, d, h, r, q)) :
    /\ Joined(a, d, h, r, Tail(q)) = Without(Joined(a, d, h, r, q), i)
    /\ Joined(a, d, h, r, q)[i] = Head(q)

LEMMA JoinDrops ==
  ASSUME NEW S, NEW a \in Seq(S), NEW d \in Seq(S), NEW h \in Seq(S), NEW r \in Seq(S),
         NEW q \in Seq(S), q # <<>>
  PROVE  Dropped(a, d, h, r, q)
<1>1. a \o d \o h \o r \in Seq(S)
  BY JoinTyped
<1> QED
  BY <1>1, DropHead DEF Joined, Dropped

(* ... and so does an answer whose write fails, wherever it is. *)
Lost(a, s, t, h, r, q) ==
  \E i \in 1..Len(Joined(a, s \o t, h, r, q)) :
    Joined(a, s \o Tail(t), h, r, q) = Without(Joined(a, s \o t, h, r, q), i)

LEMMA JoinLoses ==
  ASSUME NEW S
  PROVE  \A a, s, t, h, r, q \in Seq(S) : t # <<>> => Lost(a, s, t, h, r, q)
<1> DEFINE T == Seq(S)
           Cat(x, y) == x \o y
           Drop(x) == Tail(x)
<1>1. \A x, y \in T : Cat(x, y) \in T
  BY ConcatProperties
<1>2. \A x, y, z \in T : Cat(Cat(x, y), z) = Cat(x, Cat(y, z))
  BY ConcatAssociative
<1>3. \A x, y \in T : x # <<>> => Cat(x, y) # <<>> /\ Drop(Cat(x, y)) = Cat(Drop(x), y)
  BY TailOfConcat
<1>4. \A x \in T : x # <<>> => Drop(x) \in T
  BY HeadAndTail
<1>5. \A x, y \in T :
        y # <<>> => \E i \in 1..Len(Cat(x, y)) : Cat(x, Drop(y)) = Without(Cat(x, y), i)
  BY DropHead
<1> HIDE DEF T, Cat, Drop
<1>6. ASSUME NEW a \in T, NEW s \in T, NEW t \in T, NEW h \in T, NEW r \in T, NEW q \in T,
             t # <<>>
      PROVE  LET full == Cat(Cat(Cat(Cat(a, Cat(s, t)), h), r), q) IN
             \E i \in 1..Len(full) :
               Cat(Cat(Cat(Cat(a, Cat(s, Drop(t))), h), r), q) = Without(full, i)
  <2>1. ASSUME NEW u \in T
        PROVE  Cat(Cat(Cat(Cat(a, Cat(s, u)), h), r), q) = Cat(Cat(a, s), Cat(Cat(Cat(u, h), r), q))
    <3>1. Cat(a, s) \in T /\ Cat(u, h) \in T /\ Cat(Cat(u, h), r) \in T
      BY <1>1, <1>6, <2>1
    <3> QED
      BY <1>2, <1>6, <2>1, <3>1
  <2>2. /\ Cat(a, s) \in T /\ Drop(t) \in T
        /\ Cat(t, h) \in T /\ Cat(Cat(t, h), r) \in T /\ Cat(Cat(Cat(t, h), r), q) \in T
    BY <1>1, <1>4, <1>6
  <2>3. /\ Cat(Cat(Cat(t, h), r), q) # <<>>
        /\ Drop(Cat(Cat(Cat(t, h), r), q)) = Cat(Cat(Cat(Drop(t), h), r), q)
    BY <1>3, <1>6, <2>2
  <2>4. PICK i \in 1..Len(Cat(Cat(a, s), Cat(Cat(Cat(t, h), r), q))) :
          Cat(Cat(a, s), Drop(Cat(Cat(Cat(t, h), r), q)))
            = Without(Cat(Cat(a, s), Cat(Cat(Cat(t, h), r), q)), i)
    BY <1>5, <2>2, <2>3
  <2> QED
    BY <1>6, <2>1, <2>2, <2>3, <2>4
<1> QED
  BY <1>6, Zenon DEF Lost, Joined, T, Cat, Drop


-----------------------------------------------------------------------------
(* What each step does to the chain: nothing, one request more at its end, *)
(* or one less anywhere.                                                   *)
ChainKeeps == Chain' = Chain /\ UNCHANGED <<serial, overflowed>>

ChainGrows ==
  /\ serial' = serial + 1 /\ serial' \in Requests
  /\ Chain' = Append(Chain, serial') /\ UNCHANGED overflowed

ChainLoses ==
  /\ UNCHANGED serial
  /\ \E i \in 1..Len(Chain) :
       Chain' = Without(Chain, i) /\ overflowed' \subseteq overflowed \cup {Chain[i]}

LEMMA LinksTyped ==
  ASSUME TypeOK, StreamsAreWhole
  PROVE  /\ answers \in Seq(Requests) /\ Answered \in Seq(Requests) /\ Handling \in Seq(Requests)
         /\ RecvChan \in Seq(Requests) /\ Asked \in Seq(Requests)
         /\ Chain \in Seq(Requests) /\ Chain = Joined(answers, Answered, Handling, RecvChan, Asked)
<1>1. answers \in Seq(Requests) /\ RecvChan \in Seq(Requests)
  BY DEF TypeOK
<1>2. Handling \in Seq(Requests)
  BY DEF Handling
<1>3. Answered \in Seq(Requests) /\ Asked \in Seq(Requests)
  BY UnderwayTyped
<1>4. Chain = Joined(answers, Answered, Handling, RecvChan, Asked)
  BY Zenon DEF Chain, Joined
<1> QED
  BY <1>1, <1>2, <1>3, <1>4, JoinTyped

LEMMA LinksNext ==
  Chain' = Joined(answers', Answered', Handling', RecvChan', Asked')
BY Zenon DEF Chain, Joined

LEMMA SendMessageOnChain ==
  ASSUME TypeOK, StreamsAreWhole, SendMessage
  PROVE  ChainGrows
<1>1. /\ serial' = serial + 1 /\ serial' \in Requests /\ Asked' = Append(Asked, serial')
      /\ Answered' = Answered
      /\ UNCHANGED <<link, RecvChan, handler, received, overflowed, answers>>
  BY SendMessageEffect
<1>2. Handling' = Handling
  BY <1>1 DEF Handling
<1>3. Chain' = Joined(answers, Answered, Handling, RecvChan, Append(Asked, serial'))
  BY <1>1, <1>2, LinksNext
<1>4. Chain' = Append(Chain, serial')
  <2>1. Sent(answers, Answered, Handling, RecvChan, Asked, serial')
    BY <1>1, LinksTyped, JoinMoves
  <2> QED
    BY <1>3, <2>1, LinksTyped, Zenon DEF Sent
<1> QED
  BY <1>1, <1>4 DEF ChainGrows

LEMMA ParsePacketOnChain ==
  ASSUME TypeOK, StreamsAreWhole, ParsePacket
  PROVE  ChainKeeps \/ ChainLoses
<1>1. /\ Asked # <<>> /\ Asked' = Tail(Asked) /\ Answered' = Answered
      /\ \/ RecvChan' = Append(RecvChan, Head(Asked)) /\ UNCHANGED overflowed
         \/ overflowed' = overflowed \cup {Head(Asked)} /\ UNCHANGED RecvChan
      /\ UNCHANGED <<serial, handler, answers>>
  BY ParsePacketEffect
<1>2. Handling' = Handling
  BY <1>1 DEF Handling
<1>3. CASE RecvChan' = Append(RecvChan, Head(Asked)) /\ UNCHANGED overflowed
  <2>1. Chain' = Joined(answers, Answered, Handling, Append(RecvChan, Head(Asked)), Tail(Asked))
    BY <1>1, <1>2, <1>3, LinksNext
  <2>2. Head(Asked) \in Requests
    BY <1>1, LinksTyped, HeadAndTail
  <2>3. Chain' = Chain
    <3>1. Arrived(answers, Answered, Handling, RecvChan, Asked)
      BY <2>2, LinksTyped, JoinMoves
    <3> QED
      BY <1>1, <2>1, <3>1, LinksTyped, Zenon DEF Arrived
  <2> QED
    BY <1>1, <1>3, <2>3 DEF ChainKeeps
<1>4. CASE overflowed' = overflowed \cup {Head(Asked)} /\ UNCHANGED RecvChan
  <2>1. Chain' = Joined(answers, Answered, Handling, RecvChan, Tail(Asked))
    BY <1>1, <1>2, <1>4, LinksNext
  <2>2. PICK i \in 1..Len(Chain) : Chain' = Without(Chain, i) /\ Chain[i] = Head(Asked)
    <3>1. Dropped(answers, Answered, Handling, RecvChan, Asked)
      BY <1>1, LinksTyped, JoinDrops
    <3> QED
      BY <2>1, <3>1, LinksTyped, Zenon DEF Dropped
  <2> QED
    BY <1>1, <1>4, <2>2 DEF ChainLoses
<1> QED
  BY <1>1, <1>3, <1>4

LEMMA HandlerTakesOnChain ==
  ASSUME TypeOK, StreamsAreWhole, HandlerTakes
  PROVE  ChainKeeps
<1>1. /\ Asked' = Asked /\ Answered' = Answered
      /\ handler = Idle /\ RecvChan # <<>>
      /\ handler' = Head(RecvChan) /\ handler' \in Requests /\ RecvChan' = Tail(RecvChan)
      /\ UNCHANGED <<serial, overflowed, answers>>
  BY HandlerTakesEffect
<1>2. Handling = <<>> /\ Handling' = <<Head(RecvChan)>>
  BY <1>1, FramingConstants DEF Handling, Idle, Requests
<1>3. Chain' = Joined(answers, Answered, <<Head(RecvChan)>>, Tail(RecvChan), Asked)
  BY <1>1, <1>2, LinksNext
<1>4. Chain = Joined(answers, Answered, <<>>, RecvChan, Asked)
  BY <1>2, LinksTyped
<1>5. Chain' = Chain
  <2>1. Taken(answers, Answered, RecvChan, Asked)
    BY <1>1, LinksTyped, JoinMoves
  <2> QED
    BY <1>1, <1>3, <1>4, <2>1, LinksTyped, Zenon DEF Taken
<1> QED
  BY <1>1, <1>5 DEF ChainKeeps

LEMMA SendResponseOnChain ==
  ASSUME TypeOK, StreamsAreWhole, SendResponse
  PROVE  ChainKeeps
<1>1. /\ Asked' = Asked /\ handler \in Requests /\ handler' = Idle
      /\ Answered' = Append(Answered, handler)
      /\ UNCHANGED <<serial, RecvChan, overflowed, answers>>
  BY SendResponseEffect
<1>2. Handling = <<handler>> /\ Handling' = <<>>
  BY <1>1, FramingConstants DEF Handling, Idle, Requests
<1>3. Chain' = Joined(answers, Append(Answered, handler), <<>>, RecvChan, Asked)
  BY <1>1, <1>2, LinksNext
<1>4. Chain = Joined(answers, Answered, <<handler>>, RecvChan, Asked)
  BY <1>2, LinksTyped
<1>5. Chain' = Chain
  <2>1. Responded(answers, Answered, handler, RecvChan, Asked)
    BY <1>1, LinksTyped, JoinMoves
  <2> QED
    BY <1>1, <1>3, <1>4, <2>1, LinksTyped, Zenon DEF Responded
<1> QED
  BY <1>1, <1>5 DEF ChainKeeps

LEMMA ProcessMessageOnChain ==
  ASSUME TypeOK, StreamsAreWhole, ProcessMessage
  PROVE  ChainKeeps
<1>1. /\ Asked' = Asked /\ Answered # <<>> /\ Answered' = Tail(Answered)
      /\ answers' = Append(answers, Head(Answered))
      /\ UNCHANGED <<serial, RecvChan, handler, overflowed>>
  BY ProcessMessageEffect
<1>2. Handling' = Handling
  BY <1>1 DEF Handling
<1>3. Chain' = Joined(Append(answers, Head(Answered)), Tail(Answered), Handling, RecvChan, Asked)
  BY <1>1, <1>2, LinksNext
<1>4. Head(Answered) \in Requests
  BY <1>1, LinksTyped, HeadAndTail
<1>5. Chain' = Chain
  <2>1. GivenBack(answers, Answered, Handling, RecvChan, Asked)
    BY <1>4, LinksTyped, JoinMoves
  <2> QED
    BY <1>1, <1>3, <1>4, <2>1, LinksTyped, Zenon DEF GivenBack
<1> QED
  BY <1>1, <1>5 DEF ChainKeeps

LEMMA WriteFailsOnChain ==
  ASSUME TypeOK, StreamsAreWhole, WriteFails
  PROVE  ChainLoses
<1>1. /\ Asked' = Asked
      /\ \E s \in Seq(Requests), t \in Seq(Requests) :
           t # <<>> /\ Answered = s \o t /\ Answered' = s \o Tail(t)
      /\ UNCHANGED <<serial, RecvChan, handler, overflowed, answers>>
  BY WriteFailsEffect
<1>2. PICK s \in Seq(Requests), t \in Seq(Requests) :
        t # <<>> /\ Answered = s \o t /\ Answered' = s \o Tail(t)
  BY <1>1
<1>3. Handling' = Handling
  BY <1>1 DEF Handling
<1>4. Chain' = Joined(answers, s \o Tail(t), Handling, RecvChan, Asked)
  BY <1>1, <1>2, <1>3, LinksNext, Zenon
<1>5. Chain = Joined(answers, s \o t, Handling, RecvChan, Asked)
  BY <1>2, LinksTyped, Zenon
<1>6. /\ answers \in Seq(Requests) /\ Handling \in Seq(Requests)
      /\ RecvChan \in Seq(Requests) /\ Asked \in Seq(Requests)
  BY LinksTyped
<1>7. \E i \in 1..Len(Chain) : Chain' = Without(Chain, i)
  <2>1. Lost(answers, s, t, Handling, RecvChan, Asked)
    BY <1>2, <1>6, JoinLoses
  <2> QED
    BY <1>4, <1>5, <2>1, Zenon DEF Lost
<1> QED
  BY <1>1, <1>7 DEF ChainLoses


-----------------------------------------------------------------------------
(* The inductive invariant. *)
LEMMA ChainStaysInOrder ==
  ASSUME TypeOK, StreamsAreWhole, ChainInOrder, ChainKeeps \/ ChainGrows \/ ChainLoses
  PROVE  ChainInOrder'
<1>1. /\ Chain \in Seq(Requests) /\ Rising(Chain)
      /\ \A i \in 1..Len(Chain) : Chain[i] =< serial /\ Chain[i] \notin overflowed
      /\ \A m \in overflowed : m =< serial
      /\ serial \in Nat /\ overflowed \subseteq Requests /\ Requests \subseteq Nat
  <2>1. Chain \in Seq(Requests)
    BY LinksTyped
  <2>2. /\ Rising(Chain)
        /\ \A i \in 1..Len(Chain) : Chain[i] =< serial /\ Chain[i] \notin overflowed
        /\ \A m \in overflowed : m =< serial
    BY DEF ChainInOrder, Rising
  <2>3. serial \in 0..MaxRequests /\ overflowed \subseteq Requests
    BY DEF TypeOK
  <2>4. serial \in Nat /\ Requests \subseteq Nat
    BY <2>3, FramingConstants DEF Requests
  <2> QED
    BY <2>1, <2>2, <2>3, <2>4
<1>2. ASSUME Rising(Chain'), \A i \in 1..Len(Chain') : Chain'[i] =< serial' /\ Chain'[i] \notin overflowed',
             \A m \in overflowed' : m =< serial'
      PROVE  ChainInOrder'
  BY <1>2 DEF ChainInOrder, Rising
<1>3. PICK c \in Seq(Requests) : c = Chain
  BY <1>1
<1>4. \A i \in 1..Len(c) : c[i] \in Requests /\ c[i] \in Nat
  BY <1>1, ElementOfSeq
<1>5. CASE ChainKeeps
  BY <1>1, <1>2, <1>5 DEF ChainKeeps
<1>6. CASE ChainGrows
  <2>1. PICK x \in Requests : x = serial'
    BY <1>6 DEF ChainGrows
  <2>2. /\ x = serial + 1 /\ Chain' = Append(c, x) /\ overflowed' = overflowed
    BY <1>3, <1>6, <2>1 DEF ChainGrows
  <2>3. \A i \in 1..Len(c) : c[i] =< serial /\ c[i] < x
    BY <1>1, <1>3, <1>4, <2>2
  <2>4. Append(c, x) \in Seq(Requests) /\ Rising(Append(c, x))
    BY <1>1, <1>3, <2>3, RisingAppend
  <2>5. ASSUME NEW i \in 1..Len(Append(c, x))
        PROVE  Append(c, x)[i] =< x /\ Append(c, x)[i] \notin overflowed
    <3>1. Len(Append(c, x)) = Len(c) + 1 /\ Len(c) \in Nat
      BY AppendProperties, LenProperties
    <3>2. CASE i \in 1..Len(c)
      <4>1. Append(c, x)[i] = c[i]
        BY <3>2, AppendProperties
      <4> QED
        BY <1>1, <1>3, <1>4, <2>2, <3>2, <4>1
    <3>3. CASE i = Len(c) + 1
      <4>1. Append(c, x)[i] = x
        BY <3>3, AppendProperties
      <4> QED
        BY <1>1, <2>1, <2>2, <4>1
    <3> QED
      BY <3>1, <3>2, <3>3
  <2>6. \A m \in overflowed : m =< x
    BY <1>1, <2>2
  <2> QED
    BY <1>2, <2>1, <2>2, <2>4, <2>5, <2>6
<1>7. CASE ChainLoses
  <2>1. PICK i \in 1..Len(c) :
          Chain' = Without(c, i) /\ overflowed' \subseteq overflowed \cup {c[i]}
    BY <1>3, <1>7 DEF ChainLoses
  <2>2. serial' = serial
    BY <1>7 DEF ChainLoses
  <2>3. /\ Rising(Without(c, i))
        /\ \A j \in 1..Len(Without(c, i)) :
             /\ \E k \in 1..Len(c) : Without(c, i)[j] = c[k]
             /\ Without(c, i)[j] # c[i]
    BY <1>1, <1>3, RisingWithout
  <2> DEFINE w == Without(c, i)
  <2>4. Chain' = w
    BY <2>1
  <2> HIDE DEF w
  <2>5. \A j \in 1..Len(w) : w[j] =< serial /\ w[j] \notin overflowed \cup {c[i]}
    BY <1>1, <1>3, <2>3 DEF w
  <2>6. \A m \in overflowed \cup {c[i]} : m =< serial
    BY <1>1, <1>3
  <2>7. Rising(w)
    BY <2>3 DEF w
  <2> QED
    BY <1>2, <2>1, <2>2, <2>4, <2>5, <2>6, <2>7
<1> QED
  BY <1>5, <1>6, <1>7

LEMMA FramingInit == Init => FramingInv
<1> SUFFICES ASSUME Init
             PROVE  FramingInv
  OBVIOUS
<1>1. /\ wire = <<>> /\ buffer = <<>> /\ message_buffer = <<>> /\ packets = <<>>
      /\ RecvChan = <<>> /\ SendChan = <<>> /\ answers = <<>> /\ handler = Idle
      /\ serial = 0 /\ overflowed = {}
  BY DEF Init
<1>2. TypeOK
  <2>1. <<>> \in Seq(Bytes) /\ <<>> \in Seq(Seq(Bytes)) /\ <<>> \in Seq(Requests) /\ Len(<<>>) = 0
    OBVIOUS
  <2>2. 0 \in 0..MaxRequests /\ 0 =< RecvCap /\ 0 =< SendCap
    BY FramingConstants
  <2> QED
    BY <2>1, <2>2 DEF Init, TypeOK
<1>3. <<>> \o <<>> = <<>>
  OBVIOUS
<1>4. StreamsAreWhole
  BY <1>1, <1>3 DEF StreamsAreWhole, IsWhole, ArePackets
<1>5. Asked = <<>> /\ Handling = <<>>
  BY <1>1, <1>3, EndingOfNothing, FramingConstants DEF Asked, Handling, Idle, Requests
<1>6. MessagesOf(packets) = <<>>
  BY <1>1 DEF MessagesOf
<1>7. Answered = <<>>
  BY <1>1, <1>3, <1>6, EndingOfNothing DEF Answered
<1>8. Chain = <<>>
  BY <1>1, <1>3, <1>5, <1>7 DEF Chain
<1>9. ChainInOrder
  BY <1>1, <1>8 DEF ChainInOrder
<1> QED
  BY <1>2, <1>4, <1>9 DEF FramingInv

LEMMA FramingStep == FramingInv /\ [Next]_vars => FramingInv'
<1> SUFFICES ASSUME TypeOK, StreamsAreWhole, ChainInOrder, [Next]_vars
             PROVE  FramingInv'
  BY DEF FramingInv
<1>1. ASSUME TypeOK', StreamsAreWhole', ChainKeeps \/ ChainGrows \/ ChainLoses
      PROVE  FramingInv'
  BY <1>1, ChainStaysInOrder DEF FramingInv
<1>2. ASSUME Asked' = Asked, Answered' = Answered, Handling' = Handling,
             UNCHANGED <<serial, RecvChan, overflowed, answers>>
      PROVE  ChainKeeps
  <2>1. Chain' = Chain
    BY <1>2, LinksTyped, LinksNext, Zenon
  <2> QED
    BY <1>2, <2>1 DEF ChainKeeps
<1>3. CASE SendMessage
  BY <1>1, <1>3, SendMessageEffect, SendMessageOnChain
<1>4. CASE Read
  <2>1. Handling' = Handling
    BY <1>4, ReadEffect DEF Handling
  <2> QED
    BY <1>1, <1>2, <1>4, <2>1, ReadEffect
<1>5. CASE ParsePacket
  BY <1>1, <1>5, ParsePacketEffect, ParsePacketOnChain
<1>6. CASE HandlerTakes
  BY <1>1, <1>6, HandlerTakesEffect, HandlerTakesOnChain
<1>7. CASE SendResponse
  BY <1>1, <1>7, SendResponseEffect, SendResponseOnChain
<1>8. CASE Write
  <2>1. Handling' = Handling
    BY <1>8, WriteEffect DEF Handling
  <2> QED
    BY <1>1, <1>2, <1>8, <2>1, WriteEffect
<1>9. CASE WriteFails
  BY <1>1, <1>9, WriteFailsEffect, WriteFailsOnChain
<1>10. CASE Poll
  <2>1. Handling' = Handling
    BY <1>10, PollEffect DEF Handling
  <2> QED
    BY <1>1, <1>2, <1>10, <2>1, PollEffect
<1>11. CASE ProcessMessage
  BY <1>1, <1>11, ProcessMessageEffect, ProcessMessageOnChain
<1>12. CASE \/ Disconnect \/ ReadPanics \/ ReadFails \/ ParseEnds
            \/ HandlerStops \/ SenderStops \/ ProcessEnds \/ UNCHANGED vars
  BY <1>1, <1>2, <1>12, QuietEffect
<1> QED
  BY <1>3, <1>4, <1>5, <1>6, <1>7, <1>8, <1>9, <1>10, <1>11, <1>12, Zenon
     DEF Next, Reader, Handler, Sender, Client

(* Every byte under way is in a packet, and the requests are in the order they were sent *)
(* in, from the answers the client has had back to the bytes it has sent.                *)
THEOREM FramingCorrect == Spec => []FramingInv
<1>1. Spec => Init /\ [][Next]_vars
  BY DEF Spec
<1> QED
  BY <1>1, FramingInit, FramingStep, PTL


(* The variables always have their types: no channel goes over its capacity, and the   *)
(* streams and buffers hold bytes of the client's packets.                             *)
THEOREM TypeCorrect == Spec => []TypeOK
<1>1. FramingInv => TypeOK
  BY DEF FramingInv
<1> QED
  BY <1>1, FramingCorrect, PTL

LEMMA FrontOfConcat ==
  ASSUME NEW s \in Seq(Requests), NEW t \in Seq(Requests)
  PROVE  /\ s \o t \in Seq(Requests) /\ Len(s) =< Len(s \o t) /\ Len(s) \in Nat /\ Len(s \o t) \in Nat
         /\ \A i \in 1..Len(s) : (s \o t)[i] = s[i]
<1>1. /\ Len(s) \in Nat /\ Len(t) \in Nat /\ s \o t \in Seq(Requests)
      /\ Len(s \o t) = Len(s) + Len(t)
      /\ \A i \in 1..Len(s) + Len(t) : (s \o t)[i] = IF i <= Len(s) THEN s[i] ELSE t[i - Len(s)]
  BY ConcatProperties, LenProperties
<1> QED
  BY <1>1

InFront(s, c) ==
  /\ Len(s) \in Nat /\ Len(c) \in Nat /\ Len(s) =< Len(c)
  /\ \A i \in 1..Len(s) : c[i] = s[i]

LEMMA AnswersAreInFront ==
  ASSUME NEW a \in Seq(Requests), NEW d \in Seq(Requests), NEW h \in Seq(Requests),
         NEW r \in Seq(Requests), NEW q \in Seq(Requests)
  PROVE  InFront(a, Joined(a, d, h, r, q))
<1> DEFINE Cat(x, y) == x \o y
           T == Seq(Requests)
           L(x) == Len(x)
<1>1. \A x, y \in T :
        /\ Cat(x, y) \in T /\ L(x) =< L(Cat(x, y)) /\ L(x) \in Nat /\ L(Cat(x, y)) \in Nat
        /\ \A i \in 1..L(x) : Cat(x, y)[i] = x[i]
  BY FrontOfConcat
<1>2. a \in T /\ d \in T /\ h \in T /\ r \in T /\ q \in T
  OBVIOUS
<1> HIDE DEF Cat, T, L
<1>3. Cat(a, d) \in T /\ Cat(Cat(a, d), h) \in T /\ Cat(Cat(Cat(a, d), h), r) \in T
  BY <1>1, <1>2
<1>4. /\ L(a) \in Nat /\ L(a) =< L(Cat(a, d)) /\ L(Cat(a, d)) \in Nat
      /\ \A i \in 1..L(a) : Cat(a, d)[i] = a[i]
  BY <1>1, <1>2
<1>5. /\ L(Cat(a, d)) =< L(Cat(Cat(a, d), h)) /\ L(Cat(Cat(a, d), h)) \in Nat
      /\ \A i \in 1..L(Cat(a, d)) : Cat(Cat(a, d), h)[i] = Cat(a, d)[i]
  BY <1>1, <1>2, <1>3
<1>6. /\ L(Cat(Cat(a, d), h)) =< L(Cat(Cat(Cat(a, d), h), r)) /\ L(Cat(Cat(Cat(a, d), h), r)) \in Nat
      /\ \A i \in 1..L(Cat(Cat(a, d), h)) : Cat(Cat(Cat(a, d), h), r)[i] = Cat(Cat(a, d), h)[i]
  BY <1>1, <1>2, <1>3
<1>7. /\ L(Cat(Cat(Cat(a, d), h), r)) =< L(Cat(Cat(Cat(Cat(a, d), h), r), q))
      /\ L(Cat(Cat(Cat(Cat(a, d), h), r), q)) \in Nat
      /\ \A i \in 1..L(Cat(Cat(Cat(a, d), h), r)) :
           Cat(Cat(Cat(Cat(a, d), h), r), q)[i] = Cat(Cat(Cat(a, d), h), r)[i]
  BY <1>1, <1>2, <1>3
<1>8. /\ L(a) \in Nat /\ L(Cat(Cat(Cat(Cat(a, d), h), r), q)) \in Nat
      /\ L(a) =< L(Cat(Cat(Cat(Cat(a, d), h), r), q))
      /\ \A i \in 1..L(a) : Cat(Cat(Cat(Cat(a, d), h), r), q)[i] = a[i]
  BY <1>4, <1>5, <1>6, <1>7
<1> QED
  BY <1>8, Zenon DEF InFront, Joined, Cat, L

(* The client is answered in the order it asked, each request at most once, and never  *)
(* for a request that a full RecvChan threw away.                                      *)
THEOREM AnswersComeInOrder == Spec => []AnswersInOrder
<1>1. ASSUME FramingInv
      PROVE  AnswersInOrder
  <2>1. TypeOK /\ StreamsAreWhole
    BY <1>1 DEF FramingInv
  <2>2. InFront(answers, Joined(answers, Answered, Handling, RecvChan, Asked))
    BY <2>1, LinksTyped, AnswersAreInFront
  <2>3. /\ Len(answers) \in Nat /\ Len(Chain) \in Nat /\ Len(answers) =< Len(Chain)
        /\ \A i \in 1..Len(answers) : Chain[i] = answers[i]
    BY <2>1, <2>2, LinksTyped, Zenon DEF InFront
  <2>4. /\ \A i, j \in 1..Len(Chain) : i < j => Chain[i] < Chain[j]
        /\ \A i \in 1..Len(Chain) : Chain[i] =< serial /\ Chain[i] \notin overflowed
    BY <1>1 DEF FramingInv, ChainInOrder
  <2>5. \A i \in 1..Len(answers) : i \in 1..Len(Chain)
    BY <2>3
  <2> QED
    BY <2>3, <2>4, <2>5 DEF AnswersInOrder
<1> QED
  BY <1>1, FramingCorrect, PTL


-----------------------------------------------------------------------------
(* The two directions are message streams. *)
alive == open /\ ~cancelled /\ ~crashed

LEMMA NothingRevives ==
  ASSUME TypeOK, StreamsAreWhole, [Next]_vars
  PROVE  alive' => alive
<1>1. ASSUME UNCHANGED link
      PROVE  alive' => alive
  BY <1>1 DEF link, alive
<1>2. ASSUME open' => open, cancelled => cancelled', crashed => crashed'
      PROVE  alive' => alive
  BY <1>2, Zenon DEF alive
<1>3. CASE SendMessage
  BY <1>1, <1>3, SendMessageEffect
<1>4. CASE Read
  BY <1>1, <1>4, ReadEffect
<1>5. CASE ParsePacket
  BY <1>1, <1>5, ParsePacketEffect
<1>6. CASE HandlerTakes
  BY <1>1, <1>6, HandlerTakesEffect
<1>7. CASE SendResponse
  BY <1>1, <1>7, SendResponseEffect
<1>8. CASE Write
  BY <1>1, <1>8, WriteEffect
<1>9. CASE WriteFails
  BY <1>9, WriteFailsEffect, Zenon DEF alive
<1>10. CASE Poll
  BY <1>1, <1>10, PollEffect
<1>11. CASE ProcessMessage
  BY <1>1, <1>11, ProcessMessageEffect
<1>12. CASE \/ Disconnect \/ ReadPanics \/ ReadFails \/ ParseEnds
            \/ HandlerStops \/ SenderStops \/ ProcessEnds \/ UNCHANGED vars
  BY <1>2, <1>12, QuietEffect, Zenon
<1> QED
  BY <1>3, <1>4, <1>5, <1>6, <1>7, <1>8, <1>9, <1>10, <1>11, <1>12, Zenon
     DEF Next, Reader, Handler, Sender, Client

(* A request in the stream is added behind the others, is the first to arrive or to be *)
(* thrown away by a full RecvChan, or the stream is left alone.                        *)
LEMMA UpstreamStep ==
  ASSUME TypeOK, StreamsAreWhole, [Next]_vars
  PROVE  Upstream!Next
<1>1. ASSUME \/ \E m \in Requests : Asked' = Append(Asked, m) /\ received' = received
             \/ /\ Asked # <<>> /\ Asked' = Tail(Asked)
                /\ \/ received' = Append(received, Head(Asked))
                   \/ Len(RecvChan) = RecvCap /\ received' = received
             \/ Asked' = Asked /\ received' = received
      PROVE  Upstream!Next
  BY <1>1, NothingRevives, Zenon
     DEF Upstream!Next, Upstream!Send, Upstream!Arrive, alive
<1>2. CASE SendMessage
  BY <1>1, <1>2, SendMessageEffect
<1>3. CASE Read
  BY <1>1, <1>3, ReadEffect
<1>4. CASE ParsePacket
  BY <1>1, <1>4, ParsePacketEffect
<1>5. CASE HandlerTakes
  BY <1>1, <1>5, HandlerTakesEffect
<1>6. CASE SendResponse
  BY <1>1, <1>6, SendResponseEffect
<1>7. CASE Write
  BY <1>1, <1>7, WriteEffect
<1>8. CASE WriteFails
  BY <1>1, <1>8, WriteFailsEffect
<1>9. CASE Poll
  BY <1>1, <1>9, PollEffect
<1>10. CASE ProcessMessage
  BY <1>1, <1>10, ProcessMessageEffect
<1>11. CASE \/ Disconnect \/ ReadPanics \/ ReadFails \/ ParseEnds
            \/ HandlerStops \/ SenderStops \/ ProcessEnds \/ UNCHANGED vars
  BY <1>1, <1>11, QuietEffect
<1> QED
  BY <1>2, <1>3, <1>4, <1>5, <1>6, <1>7, <1>8, <1>9, <1>10, <1>11, Zenon
     DEF Next, Reader, Handler, Sender, Client

(* The reader gives the handler the client's requests whole, in their order and each   *)
(* once; it loses one only to a full RecvChan.                                         *)
THEOREM RequestsArriveInOrder == Spec => Upstream!InOrder
<1>1. Init => Upstream!Init
  <2> SUFFICES ASSUME Init
               PROVE  Upstream!Init
    OBVIOUS
  <2>1. /\ wire = <<>> /\ buffer = <<>> /\ received = <<>>
        /\ open = TRUE /\ cancelled = FALSE /\ crashed = FALSE
    BY DEF Init
  <2>2. <<>> \o <<>> = <<>>
    OBVIOUS
  <2>3. Asked = <<>>
    BY <2>1, <2>2, EndingOfNothing DEF Asked
  <2> QED
    BY <2>1, <2>3, Zenon DEF Upstream!Init
<1>2. FramingInv /\ [Next]_vars => [Upstream!Next]_Upstream!stream
  BY UpstreamStep DEF FramingInv
<1> QED
  BY <1>1, <1>2, FramingCorrect, PTL DEF Spec, Upstream!InOrder

(* An answer is put behind the others, the first is handled by the client, or one of   *)
(* those under way is lost with the connection.                                        *)
LEMMA DownstreamStep ==
  ASSUME TypeOK, StreamsAreWhole, [Next]_vars
  PROVE  Downstream!Next
<1>1. ASSUME \/ \E m \in Requests : Answered' = Append(Answered, m) /\ answers' = answers
             \/ /\ Answered # <<>> /\ Answered' = Tail(Answered)
                /\ answers' = Append(answers, Head(Answered))
             \/ Answered' = Answered /\ answers' = answers
      PROVE  Downstream!Next
  BY <1>1, NothingRevives, Zenon
     DEF Downstream!Next, Downstream!Send, Downstream!Arrive, alive
<1>2. CASE SendMessage
  BY <1>1, <1>2, SendMessageEffect
<1>3. CASE Read
  BY <1>1, <1>3, ReadEffect
<1>4. CASE ParsePacket
  BY <1>1, <1>4, ParsePacketEffect
<1>5. CASE HandlerTakes
  BY <1>1, <1>5, HandlerTakesEffect
<1>6. CASE SendResponse
  BY <1>1, <1>6, SendResponseEffect
<1>7. CASE Write
  BY <1>1, <1>7, WriteEffect
<1>8. CASE WriteFails
  <2>1. PICK s \in Seq(Requests), t \in Seq(Requests) :
          t # <<>> /\ Answered = s \o t /\ Answered' = s \o Tail(t)
    BY <1>8, WriteFailsEffect
  <2>2. PICK i \in 1..Len(s \o t) : s \o Tail(t) = Without(s \o t, i)
    BY <2>1, DropHead
  <2>3. cancelled' = TRUE /\ answers' = answers
    BY <1>8, WriteFailsEffect
  <2>4. \E j \in 1..Len(Answered) : Answered' = Without(Answered, j)
    BY <2>1, <2>2, Zenon
  <2>5. Downstream!Break
    BY <2>3, <2>4, Zenon DEF Downstream!Break, Downstream!RemoveAt, Without
  <2> QED
    BY <2>5, NothingRevives, Zenon DEF Downstream!Next, alive
<1>9. CASE Poll
  BY <1>1, <1>9, PollEffect
<1>10. CASE ProcessMessage
  BY <1>1, <1>10, ProcessMessageEffect
<1>11. CASE \/ Disconnect \/ ReadPanics \/ ReadFails \/ ParseEnds
            \/ HandlerStops \/ SenderStops \/ ProcessEnds \/ UNCHANGED vars
  BY <1>1, <1>11, QuietEffect
<1> QED
  BY <1>2, <1>3, <1>4, <1>5, <1>6, <1>7, <1>8, <1>9, <1>10, <1>11, Zenon
     DEF Next, Reader, Handler, Sender, Client

(* The client handles the server's answers whole, in their order and each once; one is *)
(* lost only with the connection.                                                      *)
THEOREM AnswersArriveInOrder == Spec => Downstream!InOrder
<1>1. Init => Downstream!Init
  <2> SUFFICES ASSUME Init
               PROVE  Downstream!Init
    OBVIOUS
  <2>1. /\ message_buffer = <<>> /\ packets = <<>> /\ SendChan = <<>> /\ answers = <<>>
        /\ open = TRUE /\ cancelled = FALSE /\ crashed = FALSE
    BY DEF Init
  <2>2. <<>> \o <<>> = <<>>
    OBVIOUS
  <2>3. MessagesOf(packets) = <<>>
    BY <2>1 DEF MessagesOf
  <2>4. Answered = <<>>
    BY <2>1, <2>2, <2>3, EndingOfNothing DEF Answered
  <2> QED
    BY <2>1, <2>4, Zenon DEF Downstream!Init
<1>2. FramingInv /\ [Next]_vars => [Downstream!Next]_Downstream!stream
  BY DownstreamStep DEF FramingInv
<1> QED
  BY <1>1, <1>2, FramingCorrect, PTL DEF Spec, Downstream!InOrder

=============================================================================
