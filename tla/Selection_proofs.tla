--------------------------- MODULE Selection_proofs ---------------------------
(***************************************************************************)
(* What the operators of Selection return, for any sequence and any set,   *)
(* and how prefixes and concatenations of sequences are taken apart.       *)
(***************************************************************************)
EXTENDS Selection, SequencesExt, SequenceTheorems, FiniteSetTheorems, TLAPS

-----------------------------------------------------------------------------
(* Counts.                                                                 *)

LEMMA CountIsNat ==
    ASSUME NEW T, NEW s \in Seq(T), NEW V
    PROVE  IsFiniteSet(Places(s, V)) /\ Count(s, V) \in Nat
<1>1. DOMAIN s = 1 .. Len(s) /\ Len(s) \in Nat
  BY LenProperties
<1>2. IsFiniteSet(DOMAIN s) /\ Places(s, V) \in SUBSET DOMAIN s
  BY <1>1, FS_Interval DEF Places
<1> QED
  BY <1>2, FS_Subset, FS_CardinalityType DEF Count

LEMMA CountAppend ==
    ASSUME NEW T, NEW s \in Seq(T), NEW x \in T, NEW V
    PROVE  Count(Append(s, x), V) = Count(s, V) + IF x \in V THEN 1 ELSE 0
<1> DEFINE k == Len(s) + 1
<1>1. /\ DOMAIN s = 1 .. Len(s) /\ Len(s) \in Nat
      /\ DOMAIN Append(s, x) = 1 .. k
      /\ \A n \in 1 .. Len(s) : Append(s, x)[n] = s[n]
      /\ Append(s, x)[k] = x
  <2>1. Append(s, x) \in Seq(T) /\ Len(Append(s, x)) = k
    BY AppendProperties
  <2> QED
    BY <2>1, LenProperties, AppendProperties
<1>2. k \notin Places(s, V)
  BY <1>1 DEF Places
<1>3. Places(Append(s, x), V) = IF x \in V THEN Places(s, V) \cup {k} ELSE Places(s, V)
  <2>1. 1 .. k = (1 .. Len(s)) \cup {k} /\ k \notin 1 .. Len(s)
    BY <1>1
  <2> HIDE DEF k
  <2> QED
    BY <1>1, <2>1 DEF Places
<1> HIDE DEF k
<1>4. IsFiniteSet(Places(s, V)) /\ Count(s, V) \in Nat
  BY CountIsNat
<1>5. Cardinality(Places(s, V) \cup {k}) = Cardinality(Places(s, V)) + 1
  BY <1>2, <1>4, FS_AddElement DEF Count
<1> QED
  BY <1>3, <1>4, <1>5 DEF Count

LEMMA CountTail ==
    ASSUME NEW T, NEW s \in Seq(T), s # <<>>, NEW V
    PROVE  Count(s, V) = Count(Tail(s), V) + IF Head(s) \in V THEN 1 ELSE 0
<1>1. /\ DOMAIN s = 1 .. Len(s) /\ Len(s) \in Nat \ {0}
      /\ Tail(s) \in Seq(T) /\ DOMAIN Tail(s) = 1 .. Len(s) - 1
      /\ \A n \in 1 .. Len(s) - 1 : Tail(s)[n] = s[n + 1]
      /\ Head(s) = s[1]
  <2>1. Tail(s) \in Seq(T) /\ Len(Tail(s)) = Len(s) - 1
    BY HeadTailProperties
  <2> QED
    BY <2>1, LenProperties, HeadTailProperties, EmptySeq
<1> DEFINE A == Places(s, V) \ {1}
           B == Places(Tail(s), V)
           f == [n \in B |-> n + 1]
<1>2. /\ IsFiniteSet(B) /\ Cardinality(B) \in Nat
      /\ IsFiniteSet(Places(s, V)) /\ Cardinality(Places(s, V)) \in Nat
  BY <1>1, CountIsNat DEF Count
<1>3. f \in Bijection(B, A)
  <2>1. \A n \in B : n \in Nat /\ n + 1 \in A
    BY <1>1 DEF Places
  <2>2. \A m \in A : m - 1 \in B /\ m \in Int
    BY <1>1 DEF Places
  <2> HIDE DEF A, B
  <2>3. f \in [B -> A] /\ (\A n \in B : f[n] = n + 1)
    BY <2>1
  <2>4. \A m \in A : \E n \in B : f[n] = m
    <3> SUFFICES ASSUME NEW m \in A PROVE f[m - 1] = m /\ m - 1 \in B
      OBVIOUS
    <3> QED
      BY <2>2, <2>3
  <2>5. \A m, n \in B : f[m] = f[n] => m = n
    BY <2>1, <2>3
  <2> HIDE DEF f
  <2> QED
    BY <2>3, <2>4, <2>5 DEF Bijection, Injection, Surjection, IsInjective
<1> HIDE DEF f
<1>4. Cardinality(A) = Cardinality(B)
  BY <1>2, <1>3, FS_Bijection DEF ExistsBijection
<1>5. 1 \in Places(s, V) <=> Head(s) \in V
  BY <1>1 DEF Places
<1>6. Cardinality(A) = IF 1 \in Places(s, V) THEN Cardinality(Places(s, V)) - 1
                       ELSE Cardinality(Places(s, V))
  BY <1>2, FS_RemoveElement
<1> QED
  BY <1>2, <1>4, <1>5, <1>6 DEF Count

LEMMA CountConcat ==
    ASSUME NEW T, NEW s \in Seq(T), NEW t \in Seq(T), NEW V
    PROVE  Count(s \o t, V) = Count(s, V) + Count(t, V)
<1> DEFINE k == Len(s)
           f == [n \in Places(t, V) |-> k + n]
           B == {k + n : n \in Places(t, V)}
<1>1. /\ DOMAIN s = 1 .. k /\ k \in Nat
      /\ DOMAIN t = 1 .. Len(t) /\ Len(t) \in Nat
      /\ s \o t \in Seq(T) /\ DOMAIN (s \o t) = 1 .. k + Len(t)
      /\ \A n \in 1 .. k + Len(t) : (s \o t)[n] = IF n <= k THEN s[n] ELSE t[n - k]
  BY ConcatProperties, LenProperties
<1>2. /\ IsFiniteSet(Places(s, V)) /\ Cardinality(Places(s, V)) \in Nat
      /\ IsFiniteSet(Places(t, V)) /\ Cardinality(Places(t, V)) \in Nat
  BY CountIsNat DEF Count
<1> HIDE DEF k
<1>3. f \in Bijection(Places(t, V), B)
  <2>1. \A n \in Places(t, V) : n \in Nat
    BY <1>1 DEF Places
  <2>2. f \in [Places(t, V) -> B] /\ \A b \in B : \E n \in Places(t, V) : f[n] = b
    OBVIOUS
  <2>3. \A m, n \in Places(t, V) : f[m] = f[n] => m = n
    BY <1>1, <2>1
  <2> HIDE DEF f, B
  <2> QED
    BY <2>2, <2>3 DEF Bijection, Injection, Surjection, IsInjective
<1>4. Places(s \o t, V) = Places(s, V) \cup B
  <2>1. ASSUME NEW n \in Places(s \o t, V) PROVE n \in Places(s, V) \cup B
    <3>1. CASE n <= k
      BY <1>1, <3>1 DEF Places
    <3>2. CASE ~(n <= k)
      <4>1. n - k \in Places(t, V) /\ n = k + (n - k)
        BY <1>1, <3>2 DEF Places
      <4> QED
        BY <4>1
    <3> QED
      BY <3>1, <3>2
  <2>2. Places(s, V) \subseteq Places(s \o t, V)
    BY <1>1 DEF Places
  <2>3. ASSUME NEW n \in Places(t, V) PROVE k + n \in Places(s \o t, V)
    <3>1. n \in 1 .. Len(t) /\ t[n] \in V
      BY <1>1 DEF Places
    <3>2. k + n \in 1 .. k + Len(t) /\ ~(k + n <= k) /\ (k + n) - k = n
      BY <1>1, <3>1
    <3>3. (s \o t)[k + n] = t[n]
      BY <1>1, <3>2
    <3> QED
      BY <1>1, <3>1, <3>2, <3>3 DEF Places
  <2> QED
    BY <2>1, <2>2, <2>3
<1>5. Places(s, V) \cap B = {}
  BY <1>1 DEF Places
<1> HIDE DEF f, B
<1>6. IsFiniteSet(B) /\ Cardinality(B) = Cardinality(Places(t, V))
  BY <1>2, <1>3, FS_Bijection DEF ExistsBijection
<1>7. Cardinality(Places(s, V) \cup B)
         = Cardinality(Places(s, V)) + Cardinality(B) - Cardinality({})
  BY <1>2, <1>5, <1>6, FS_Union
<1> QED
  BY <1>2, <1>4, <1>6, <1>7, FS_EmptySet DEF Count

-----------------------------------------------------------------------------
(* Prefixes and concatenations.                                            *)

\* What is appended leaves what was there where it was.
LEMMA PrefixOfConcat ==
    ASSUME NEW T, NEW s \in Seq(T), NEW t \in Seq(T)
    PROVE  IsPrefix(s, s \o t)
<1>1. /\ s \o t \in Seq(T) /\ Len(s \o t) = Len(s) + Len(t)
      /\ Len(s) \in Nat /\ Len(t) \in Nat
  BY ConcatProperties, LenProperties
<1>2. SubSeq(s \o t, 1, Len(s)) = SubSeq(s, 1, Len(s))
  <2>1. CASE Len(s) = 0
    BY <2>1, SubSeqEmpty
  <2>2. CASE Len(s) # 0
    BY <1>1, <2>2, SubSeqOfConcat1
  <2> QED
    BY <2>1, <2>2
<1> QED
  BY <1>1, <1>2 DEF IsPrefix

\* The first n of s \o t, and the rest of it, where n is within s.
LEMMA FrontOfConcat ==
    ASSUME NEW T, NEW s \in Seq(T), NEW t \in Seq(T), NEW n \in 0 .. Len(s)
    PROVE  /\ SubSeq(s \o t, 1, n) = SubSeq(s, 1, n)
           /\ SubSeq(s \o t, n + 1, Len(s \o t)) = SubSeq(s, n + 1, Len(s)) \o t
           /\ SubSeq(s, n + 1, Len(s)) \o t \in Seq(T)
           /\ Len(SubSeq(s, n + 1, Len(s)) \o t) = Len(s \o t) - n
<1>1. /\ s \o t \in Seq(T) /\ Len(s \o t) = Len(s) + Len(t)
      /\ Len(s) \in Nat /\ Len(t) \in Nat /\ n \in Nat /\ n <= Len(s)
      /\ \A k \in 1 .. Len(s) + Len(t) :
            (s \o t)[k] = IF k <= Len(s) THEN s[k] ELSE t[k - Len(s)]
  BY ConcatProperties, LenProperties
<1>2. SubSeq(s \o t, 1, n) = SubSeq(s, 1, n)
  <2>1. CASE n = 0
    BY <2>1, SubSeqEmpty
  <2>2. CASE n # 0
    BY <1>1, <2>2, SubSeqOfConcat1
  <2> QED
    BY <2>1, <2>2
<1> DEFINE u == SubSeq(s, n + 1, Len(s))
           v == SubSeq(s \o t, n + 1, Len(s \o t))
<1>3. /\ u \in Seq(T) /\ Len(u) = Len(s) - n
      /\ \A k \in 1 .. Len(s) - n : u[k] = s[n + k]
  <2>1. \A k \in n + 1 .. Len(s) : s[k] \in T
    BY <1>1, ElementOfSeq
  <2> QED
    BY <1>1, <2>1, SubSeqProperties
<1>4. /\ v \in Seq(T) /\ Len(v) = Len(s) + Len(t) - n
      /\ \A k \in 1 .. Len(s) + Len(t) - n : v[k] = (s \o t)[n + k]
  <2>1. \A k \in n + 1 .. Len(s) + Len(t) : (s \o t)[k] \in T
    BY <1>1, ElementOfSeq
  <2> QED
    BY <1>1, <2>1, SubSeqProperties
<1> HIDE DEF u, v
<1>5. /\ u \o t \in Seq(T) /\ Len(u \o t) = Len(u) + Len(t)
      /\ \A k \in 1 .. Len(u) + Len(t) :
            (u \o t)[k] = IF k <= Len(u) THEN u[k] ELSE t[k - Len(u)]
  BY <1>3, ConcatProperties
<1>6. v = u \o t
  <2>1. Len(v) = Len(u \o t)
    BY <1>1, <1>3, <1>4, <1>5
  <2>2. ASSUME NEW k \in 1 .. Len(v) PROVE v[k] = (u \o t)[k]
    <3>1. n + k \in 1 .. Len(s) + Len(t) /\ v[k] = (s \o t)[n + k]
      BY <1>1, <1>4
    <3>2. CASE k <= Len(u)
      BY <1>1, <1>3, <1>4, <1>5, <3>1, <3>2
    <3>3. CASE ~(k <= Len(u))
      <4>1. k - Len(u) = (n + k) - Len(s) /\ ~(n + k <= Len(s))
        BY <1>1, <1>3, <1>4, <3>3
      <4> QED
        BY <1>1, <1>3, <1>4, <1>5, <3>1, <3>3, <4>1
    <3> QED
      BY <3>2, <3>3
  <2> QED
    BY <1>4, <1>5, <2>1, <2>2, SeqEqual
<1>7. Len(u \o t) = Len(s \o t) - n
  BY <1>1, <1>3, <1>5
<1> QED
  BY <1>2, <1>5, <1>6, <1>7 DEF u, v

LEMMA PartsOfConcat ==
    ASSUME NEW T, NEW s \in Seq(T), NEW t \in Seq(T)
    PROVE  /\ SubSeq(s \o t, 1, Len(s)) = s
           /\ SubSeq(s \o t, Len(s) + 1, Len(s \o t)) = t
<1>1. Len(s) \in Nat /\ Len(s) \in 0 .. Len(s)
  BY LenProperties
<1>2. \A n \in 0 .. Len(s) :
          /\ SubSeq(s \o t, 1, n) = SubSeq(s, 1, n)
          /\ SubSeq(s \o t, n + 1, Len(s \o t)) = SubSeq(s, n + 1, Len(s)) \o t
  BY FrontOfConcat
<1>3. /\ SubSeq(s \o t, 1, Len(s)) = SubSeq(s, 1, Len(s))
      /\ SubSeq(s \o t, Len(s) + 1, Len(s \o t)) = SubSeq(s, Len(s) + 1, Len(s)) \o t
  BY <1>1, <1>2, Zenon
<1>4. SubSeq(s, 1, Len(s)) = s /\ SubSeq(s, Len(s) + 1, Len(s)) = <<>>
  <2>1. SubSeq(s, 1, Len(s)) = s
    BY SubSeqFull
  <2>2. SubSeq(s, Len(s) + 1, Len(s)) = <<>>
    BY <1>1, SubSeqEmpty
  <2> QED
    BY <2>1, <2>2
<1>5. <<>> \o t = t
  BY ConcatEmptySeq
<1> QED
  BY <1>3, <1>4, <1>5, Zenon

LEMMA LengthOfRest ==
    ASSUME NEW T, NEW s \in Seq(T), NEW t \in Seq(T), NEW n \in 0 .. Len(s)
    PROVE  Len(SubSeq(s, n + 1, Len(s)) \o t) = Len(s \o t) - n
BY FrontOfConcat

-----------------------------------------------------------------------------
(* The numbers of a set, in order.                                         *)

\* f lists the numbers of S from the least to the greatest.
Lists(f, n, S) ==
    /\ f \in [1 .. n -> S]
    /\ \A x \in S : \E k \in 1 .. n : f[k] = x
    /\ \A j, k \in 1 .. n : j < k => f[j] < f[k]

LEMMA SizeOfInterval ==
    ASSUME NEW n \in Nat
    PROVE  IsFiniteSet(1 .. n) /\ Cardinality(1 .. n) = n
<1>1. n \in Int /\ 1 \in Int
  OBVIOUS
<1>2. IsFiniteSet(1 .. n) /\ Cardinality(1 .. n) = IF 1 > n THEN 0 ELSE n - 1 + 1
  BY <1>1, FS_Interval
<1> QED
  BY <1>2

LEMMA BijectionCounts ==
    ASSUME NEW A, NEW B, NEW f \in [A -> B], IsFiniteSet(A),
           \A x, y \in A : f[x] = f[y] => x = y,
           \A y \in B : \E x \in A : f[x] = y
    PROVE  IsFiniteSet(B) /\ Cardinality(B) = Cardinality(A)
<1>1. f \in Surjection(A, B)
  BY DEF Surjection
<1>2. f \in Injection(A, B)
  BY DEF Injection, IsInjective
<1> QED
  BY <1>1, <1>2, FS_Surjection

LEMMA ListDetermines ==
    ASSUME NEW S \in SUBSET Nat, NEW n \in Nat, NEW f, Lists(f, n, S)
    PROVE  /\ IsFiniteSet(S) /\ Cardinality(S) = n
           /\ \A k \in 1 .. n : Nth(S, k) = f[k]
<1>1. /\ f \in [1 .. n -> S]
      /\ \A x \in S : \E k \in 1 .. n : f[k] = x
      /\ \A j, k \in 1 .. n : j < k => f[j] < f[k]
  BY DEF Lists
<1>2. \A k \in 1 .. n : f[k] \in S /\ f[k] \in Nat
  BY <1>1
<1>3. \A j, k \in 1 .. n : f[j] = f[k] => j = k
  <2> SUFFICES ASSUME NEW j \in 1 .. n, NEW k \in 1 .. n, f[j] = f[k], j # k PROVE FALSE
    OBVIOUS
  <2>1. j < k \/ k < j
    OBVIOUS
  <2>2. f[j] < f[k] \/ f[k] < f[j]
    BY <1>1, <2>1
  <2> QED
    BY <1>2, <2>2
<1>4. \A j, k \in 1 .. n : f[j] <= f[k] => j <= k
  <2> SUFFICES ASSUME NEW j \in 1 .. n, NEW k \in 1 .. n, f[j] <= f[k], ~(j <= k) PROVE FALSE
    OBVIOUS
  <2>1. k < j
    OBVIOUS
  <2>2. f[k] < f[j]
    BY <1>1, <2>1
  <2>3. f[k] \in Nat /\ f[j] \in Nat
    BY <1>2
  <2> QED
    BY <2>2, <2>3
<1>5. IsFiniteSet(S) /\ Cardinality(S) = n
  <2>1. IsFiniteSet(1 .. n) /\ Cardinality(1 .. n) = n
    BY SizeOfInterval
  <2> QED
    BY <1>1, <1>3, <2>1, BijectionCounts
<1>6. ASSUME NEW k \in 1 .. n PROVE Cardinality({m \in S : m <= f[k]}) = k
  <2> DEFINE B == {m \in S : m <= f[k]}
             g == [j \in 1 .. k |-> f[j]]
  <2>1. k \in Nat /\ \A j \in 1 .. k : j \in 1 .. n /\ j <= k
    OBVIOUS
  <2>2. ASSUME NEW j \in 1 .. k PROVE f[j] \in B
    <3>1. j = k \/ j < k
      BY <2>1
    <3>2. f[j] <= f[k]
      BY <1>1, <1>2, <2>1, <3>1
    <3> QED
      BY <1>2, <2>1, <3>2
  <2>3. g \in [1 .. k -> B]
    BY <2>2
  <2>4. \A x, y \in 1 .. k : g[x] = g[y] => x = y
    BY <1>3, <2>1
  <2>5. ASSUME NEW y \in B PROVE \E x \in 1 .. k : g[x] = y
    <3>1. PICK x \in 1 .. n : f[x] = y
      BY <1>1
    <3>2. f[x] <= f[k]
      BY <3>1
    <3>3. x <= k
      BY <1>4, <3>2
    <3>4. x \in 1 .. k
      BY <3>3
    <3> QED
      BY <3>1, <3>4
  <2>6. IsFiniteSet(1 .. k) /\ Cardinality(1 .. k) = k
    BY <2>1, SizeOfInterval
  <2> HIDE DEF B, g
  <2>7. Cardinality(B) = k
    BY <2>3, <2>4, <2>5, <2>6, BijectionCounts
  <2> QED
    BY <2>7 DEF B
<1>7. ASSUME NEW k \in 1 .. n PROVE Nth(S, k) = f[k]
  <2>1. f[k] \in S /\ Cardinality({m \in S : m <= f[k]}) = k
    BY <1>2, <1>6
  <2>2. \A x \in S : Cardinality({m \in S : m <= x}) = k => x = f[k]
    BY <1>1, <1>6
  <2> QED
    BY <2>1, <2>2 DEF Nth
<1> QED
  BY <1>5, <1>7

LEMMA NthLists ==
    ASSUME NEW S \in SUBSET Nat, IsFiniteSet(S)
    PROVE  /\ Cardinality(S) \in Nat
           /\ Lists([k \in 1 .. Cardinality(S) |-> Nth(S, k)], Cardinality(S), S)
<1> DEFINE c == Cardinality(S)
           upto(n) == Cardinality({m \in S : m <= n})
           r == [n \in S |-> upto(n)]
           f == [k \in 1 .. c |-> Nth(S, k)]
<1>1. c \in Nat
  BY FS_CardinalityType
<1>2. \A n \in S : {m \in S : m <= n} \in SUBSET S /\ n \in {m \in S : m <= n}
  OBVIOUS
<1>3. ASSUME NEW n \in S PROVE upto(n) \in 1 .. c
  <2> DEFINE B == {m \in S : m <= n}
  <2>1. IsFiniteSet(B) /\ Cardinality(B) <= c
    BY <1>2, FS_Subset
  <2>2. B # {}
    BY <1>2
  <2>3. Cardinality(B) \in Nat /\ Cardinality(B) # 0
    BY <2>1, <2>2, FS_CardinalityType, FS_EmptySet
  <2> HIDE DEF B, c
  <2>4. Cardinality(B) \in 1 .. c
    BY <1>1, <2>1, <2>3
  <2> QED
    BY <2>4 DEF B
<1>4. ASSUME NEW m \in S, NEW n \in S, m < n PROVE upto(m) < upto(n)
  <2> DEFINE A == {x \in S : x <= m}
             B == {x \in S : x <= n}
  <2>1. A \in SUBSET B /\ n \in B /\ n \notin A
    <3>1. m \in Nat /\ n \in Nat /\ m < n
      BY <1>4
    <3>2. \A x \in S : x <= m => x <= n
      BY <3>1
    <3>3. A \in SUBSET B
      BY <3>2
    <3>4. n \in B
      BY <3>1
    <3>5. n \notin A
      BY <3>1
    <3> QED
      BY <3>3, <3>4, <3>5
  <2>2. IsFiniteSet(B)
    BY FS_Subset
  <2>3. A # B
    BY <2>1
  <2>4. Cardinality(A) <= Cardinality(B) /\ Cardinality(A) # Cardinality(B)
    BY <2>1, <2>2, <2>3, FS_Subset
  <2>5. Cardinality(A) \in Nat /\ Cardinality(B) \in Nat
    BY <2>1, <2>2, FS_Subset, FS_CardinalityType
  <2> HIDE DEF A, B
  <2>6. Cardinality(A) < Cardinality(B)
    BY <2>4, <2>5
  <2> QED
    BY <2>6 DEF A, B
<1> HIDE DEF upto
<1>5. \A m, n \in S : upto(m) = upto(n) => m = n
  <2> SUFFICES ASSUME NEW m \in S, NEW n \in S, upto(m) = upto(n), m # n PROVE FALSE
    OBVIOUS
  <2>1. m < n \/ n < m
    OBVIOUS
  <2>2. upto(m) < upto(n) \/ upto(n) < upto(m)
    BY <1>4, <2>1
  <2> QED
    BY <1>3, <2>2
<1>6. r \in Injection(S, 1 .. c)
  BY <1>3, <1>5 DEF Injection, IsInjective
<1>7. IsFiniteSet(1 .. c) /\ Cardinality(1 .. c) = c
  BY <1>1, SizeOfInterval
<1>8. r \in Surjection(S, 1 .. c)
  BY <1>6, <1>7, FS_Injection
<1>9. \A k \in 1 .. c : \E n \in S : upto(n) = k
  BY <1>8 DEF Surjection
<1>10. \A k \in 1 .. c : Nth(S, k) \in S /\ upto(Nth(S, k)) = k
  BY <1>9 DEF Nth, upto
<1>11. f \in [1 .. c -> S]
  BY <1>10
<1>12. \A x \in S : \E k \in 1 .. c : f[k] = x
  <2> SUFFICES ASSUME NEW x \in S PROVE f[upto(x)] = x /\ upto(x) \in 1 .. c
    OBVIOUS
  <2>1. upto(x) \in 1 .. c
    BY <1>3
  <2>2. Nth(S, upto(x)) = x
    BY <1>5, <1>10, <2>1
  <2> QED
    BY <2>1, <2>2
<1>13. \A j, k \in 1 .. c : j < k => f[j] < f[k]
  <2> SUFFICES ASSUME NEW j \in 1 .. c, NEW k \in 1 .. c, j < k, ~(f[j] < f[k]) PROVE FALSE
    OBVIOUS
  <2>1. f[j] \in S /\ f[k] \in S /\ upto(f[j]) = j /\ upto(f[k]) = k
    BY <1>10
  <2>2. f[k] = f[j] \/ f[k] < f[j]
    <3>1. f[j] \in Nat /\ f[k] \in Nat /\ ~(f[j] < f[k])
      BY <2>1
    <3>2. \A x, y \in Nat : ~(x < y) => y = x \/ y < x
      OBVIOUS
    <3> HIDE DEF f
    <3> QED
      BY <3>1, <3>2
  <2>3. upto(f[k]) = upto(f[j]) \/ upto(f[k]) < upto(f[j])
    BY <1>4, <2>1, <2>2
  <2> QED
    BY <2>1, <2>3
<1> QED
  BY <1>1, <1>11, <1>12, <1>13 DEF Lists

-----------------------------------------------------------------------------
(* The part of a sequence that lies in a set.                              *)

LEMMA PlacesAreFinite ==
    ASSUME NEW E, NEW s \in Seq(E), NEW T
    PROVE  Places(s, T) \in SUBSET Nat /\ IsFiniteSet(Places(s, T))
<1>1. DOMAIN s = 1 .. Len(s) /\ Len(s) \in Nat
  BY LenProperties
<1>2. IsFiniteSet(DOMAIN s)
  BY <1>1, SizeOfInterval
<1>3. Places(s, T) \in SUBSET DOMAIN s
  BY DEF Places
<1> QED
  BY <1>1, <1>2, <1>3, FS_Subset

\* The places of what is kept, in order.
Listing(s, T) == [k \in 1 .. Count(s, T) |-> Nth(Places(s, T), k)]

\* What u holds is what s has at those places.
Follows(u, f, s, T) ==
    /\ Lists(f, Len(u), Places(s, T))
    /\ \A k \in 1 .. Len(u) : u[k] = s[f[k]]

LEMMA OnlyFacts ==
    ASSUME NEW E, NEW s \in Seq(E), NEW T
    PROVE  /\ Only(s, T) \in Seq(E \cap T) /\ Len(Only(s, T)) \in Nat
           /\ Follows(Only(s, T), Listing(s, T), s, T)
<1> DEFINE S == Places(s, T)
           n == Cardinality(S)
           f == [k \in 1 .. n |-> Nth(S, k)]
<1>1. S \in SUBSET Nat /\ IsFiniteSet(S)
  BY PlacesAreFinite
<1>0. Listing(s, T) = f
  BY DEF Listing, Count
<1> HIDE DEF S
<1>2. n \in Nat /\ Lists(f, n, S)
  BY <1>1, NthLists
<1>3. f \in [1 .. n -> S]
  BY <1>2 DEF Lists
<1>4. Only(s, T) = [k \in 1 .. n |-> s[f[k]]]
  BY DEF Only, Count, S
<1> HIDE DEF n, f
<1>5. \A k \in 1 .. n : s[f[k]] \in E \cap T
  <2>1. \A k \in 1 .. n : f[k] \in DOMAIN s /\ s[f[k]] \in T
    BY <1>3 DEF S, Places
  <2>2. \A x \in DOMAIN s : s[x] \in E
    BY ElementOfSeq, LenProperties
  <2> QED
    BY <2>1, <2>2
<1>6. Only(s, T) \in [1 .. n -> E \cap T]
  BY <1>4, <1>5
<1>7. Only(s, T) \in Seq(E \cap T) /\ Len(Only(s, T)) = n
  BY <1>2, <1>6
<1> QED
  BY <1>0, <1>2, <1>4, <1>7 DEF S, Follows

LEMMA OnlyIs ==
    ASSUME NEW E, NEW s \in Seq(E), NEW T, NEW n \in Nat, NEW f, Lists(f, n, Places(s, T))
    PROVE  Len(Only(s, T)) = n /\ \A k \in 1 .. n : Only(s, T)[k] = s[f[k]]
<1>1. Places(s, T) \in SUBSET Nat
  BY PlacesAreFinite
<1>2. Count(s, T) = n /\ \A k \in 1 .. n : Nth(Places(s, T), k) = f[k]
  BY <1>1, ListDetermines DEF Count
<1>3. Only(s, T) = [k \in 1 .. n |-> s[Nth(Places(s, T), k)]]
  BY <1>2 DEF Only, Count
<1>4. Len(Only(s, T)) = n
  BY <1>3
<1> QED
  BY <1>2, <1>3, <1>4

LEMMA OnlyConcat ==
    ASSUME NEW E, NEW s \in Seq(E), NEW t \in Seq(E), NEW T
    PROVE  Only(s \o t, T) = Only(s, T) \o Only(t, T)
<1> DEFINE a == Len(Only(s, T))
           b == Len(Only(t, T))
           f == Listing(s, T)
           g == Listing(t, T)
<1>a. ASSUME NEW u \in Seq(E)
      PROVE  /\ Only(u, T) \in Seq(E \cap T) /\ Len(Only(u, T)) \in Nat
             /\ Follows(Only(u, T), Listing(u, T), u, T)
  BY OnlyFacts
<1>1. /\ Only(s, T) \in Seq(E \cap T) /\ a \in Nat /\ Lists(f, a, Places(s, T))
      /\ \A k \in 1 .. a : Only(s, T)[k] = s[f[k]]
  BY <1>a DEF Follows
<1>2. /\ Only(t, T) \in Seq(E \cap T) /\ b \in Nat /\ Lists(g, b, Places(t, T))
      /\ \A k \in 1 .. b : Only(t, T)[k] = t[g[k]]
  BY <1>a DEF Follows
<1> DEFINE m == Len(s)
           h == [k \in 1 .. a + b |-> IF k <= a THEN f[k] ELSE m + g[k - a]]
<1>3. /\ m \in Nat /\ Len(t) \in Nat /\ DOMAIN s = 1 .. m /\ DOMAIN t = 1 .. Len(t)
      /\ s \o t \in Seq(E) /\ DOMAIN (s \o t) = 1 .. m + Len(t)
      /\ \A i \in 1 .. m : (s \o t)[i] = s[i]
      /\ \A i \in 1 .. Len(t) : (s \o t)[m + i] = t[i]
  <2>1. /\ m \in Nat /\ Len(t) \in Nat /\ DOMAIN s = 1 .. m /\ DOMAIN t = 1 .. Len(t)
    BY LenProperties
  <2>2. s \o t \in Seq(E) /\ Len(s \o t) = m + Len(t)
    BY ConcatProperties
  <2>3. DOMAIN (s \o t) = 1 .. m + Len(t)
    BY <2>2, LenProperties
  <2>4. \A i \in 1 .. m + Len(t) : (s \o t)[i] = IF i <= m THEN s[i] ELSE t[i - m]
    BY ConcatProperties
  <2> HIDE DEF m
  <2>5. \A i \in 1 .. m : (s \o t)[i] = s[i]
    <3>1. \A i \in 1 .. m : i \in 1 .. m + Len(t) /\ i <= m
      BY <2>1
    <3> QED
      BY <2>4, <3>1
  <2>6. \A i \in 1 .. Len(t) : (s \o t)[m + i] = t[i]
    <3> SUFFICES ASSUME NEW i \in 1 .. Len(t) PROVE (s \o t)[m + i] = t[i]
      OBVIOUS
    <3>1. m + i \in 1 .. m + Len(t) /\ ~(m + i <= m) /\ m + i - m = i
      BY <2>1
    <3> DEFINE x == m + i
    <3>2. x \in 1 .. m + Len(t) /\ ~(x <= m) /\ x - m = i
      BY <2>1, <3>1
    <3> HIDE DEF x
    <3>3. (s \o t)[x] = t[x - m]
      BY <2>4, <3>2
    <3>4. (s \o t)[x] = t[i]
      BY <3>2, <3>3
    <3> QED
      BY <3>4 DEF x
  <2> QED
    BY <2>1, <2>2, <2>3, <2>5, <2>6
<1>0. a = Len(Only(s, T)) /\ b = Len(Only(t, T))
  OBVIOUS
<1> HIDE DEF m, a, b, f, g
<1>4. /\ f \in [1 .. a -> Places(s, T)] /\ \A x \in Places(s, T) : \E k \in 1 .. a : f[k] = x
      /\ \A j, k \in 1 .. a : j < k => f[j] < f[k]
      /\ \A x : x \in Places(s, T) <=> x \in 1 .. m /\ s[x] \in T
  BY <1>1, <1>3 DEF Lists, Places
<1>5. /\ g \in [1 .. b -> Places(t, T)] /\ \A x \in Places(t, T) : \E k \in 1 .. b : g[k] = x
      /\ \A j, k \in 1 .. b : j < k => g[j] < g[k]
      /\ \A x : x \in Places(t, T) <=> x \in 1 .. Len(t) /\ t[x] \in T
  BY <1>2, <1>3 DEF Lists, Places
<1>6. \A x : x \in Places(s \o t, T) <=> x \in 1 .. m + Len(t) /\ (s \o t)[x] \in T
  BY <1>3 DEF Places
<1>7. /\ \A k \in 1 .. a : f[k] \in 1 .. m /\ f[k] \in Places(s \o t, T)
      /\ \A k \in 1 .. b : g[k] \in 1 .. Len(t) /\ m + g[k] \in Places(s \o t, T)
  <2>1. \A i \in 1 .. m : i \in 1 .. m + Len(t)
    BY <1>3
  <2>2. \A i \in 1 .. Len(t) : m + i \in 1 .. m + Len(t)
    BY <1>3
  <2>3. \A k \in 1 .. a : f[k] \in Places(s, T)
    BY <1>3, <1>4
  <2>4. \A k \in 1 .. a : f[k] \in 1 .. m /\ s[f[k]] \in T
    BY <1>4, <2>3, ZenonT(60)
  <2>5. \A k \in 1 .. a : (s \o t)[f[k]] \in T /\ f[k] \in 1 .. m + Len(t)
    BY <1>3, <2>1, <2>4
  <2>6. \A k \in 1 .. b : g[k] \in Places(t, T)
    BY <1>3, <1>5
  <2>7. \A k \in 1 .. b : g[k] \in 1 .. Len(t) /\ t[g[k]] \in T
    BY <1>5, <2>6, ZenonT(60)
  <2>8. \A k \in 1 .. b : (s \o t)[m + g[k]] \in T /\ m + g[k] \in 1 .. m + Len(t)
    BY <1>3, <2>2, <2>7
  <2> QED
    BY <1>6, <2>4, <2>5, <2>7, <2>8, ZenonT(60)
<1>8. ASSUME NEW k \in 1 .. a + b
      PROVE  \/ k \in 1 .. a /\ h[k] = f[k]
             \/ k - a \in 1 .. b /\ ~(k \in 1 .. a) /\ h[k] = m + g[k - a]
  <2>1. CASE k <= a
    BY <1>1, <1>2, <2>1
  <2>2. CASE ~(k <= a)
    BY <1>1, <1>2, <2>2
  <2> QED
    BY <2>1, <2>2
<1>9. /\ \A k \in 1 .. a : k \in 1 .. a + b /\ h[k] = f[k]
      /\ \A k \in 1 .. b : a + k \in 1 .. a + b /\ h[a + k] = m + g[k]
  <2>1. \A k \in 1 .. a : k \in 1 .. a + b /\ h[k] = f[k]
    BY <1>1, <1>2
  <2>2. ASSUME NEW k \in 1 .. b PROVE a + k \in 1 .. a + b /\ h[a + k] = m + g[k]
    <3>1. a + k \in 1 .. a + b /\ ~(a + k <= a) /\ (a + k) - a = k
      BY <1>1, <1>2
    <3> QED
      BY <3>1
  <2> QED
    BY <2>1, <2>2
<1>10. DOMAIN h = 1 .. a + b /\ h = [k \in 1 .. a + b |-> h[k]]
  OBVIOUS
<1> HIDE DEF h
<1>11. h \in [1 .. a + b -> Places(s \o t, T)]
  <2>1. \A k \in 1 .. a + b : h[k] \in Places(s \o t, T)
    BY <1>7, <1>8
  <2> QED
    BY <1>10, <2>1
<1>12. ASSUME NEW x \in Places(s \o t, T) PROVE \E k \in 1 .. a + b : h[k] = x
  <2>1. x \in 1 .. m + Len(t) /\ (s \o t)[x] \in T
    BY <1>6
  <2>2. CASE x \in 1 .. m
    <3>1. x \in Places(s, T)
      BY <1>3, <1>4, <2>1, <2>2
    <3> QED
      BY <1>4, <1>9, <3>1
  <2>3. CASE x \notin 1 .. m
    <3>1. x - m \in 1 .. Len(t) /\ m + (x - m) = x
      BY <1>3, <2>1, <2>3
    <3>2. x - m \in Places(t, T)
      BY <1>3, <1>5, <2>1, <3>1
    <3>3. PICK k \in 1 .. b : g[k] = x - m
      BY <1>5, <3>2
    <3> QED
      BY <1>9, <3>1, <3>3
  <2> QED
    BY <2>2, <2>3
<1>13. ASSUME NEW j \in 1 .. a + b, NEW k \in 1 .. a + b, j < k PROVE h[j] < h[k]
  <2>1. CASE j \in 1 .. a /\ k \in 1 .. a
    BY <1>4, <1>8, <1>13, <2>1
  <2>2. CASE j \in 1 .. a /\ k \notin 1 .. a
    <3>1. h[j] = f[j] /\ f[j] \in 1 .. m
      BY <1>7, <1>9, <2>2
    <3>2. h[k] = m + g[k - a] /\ g[k - a] \in 1 .. Len(t)
      BY <1>7, <1>8, <2>2
    <3>3. \A u \in 1 .. m, v \in 1 .. Len(t) : u < m + v
      BY <1>3
    <3> QED
      BY <3>1, <3>2, <3>3
  <2>3. CASE j \notin 1 .. a
    <3>1. k \notin 1 .. a
      BY <1>1, <1>2, <1>13, <2>3
    <3>2. /\ h[k] = m + g[k - a] /\ g[k - a] \in 1 .. Len(t) /\ k - a \in 1 .. b
          /\ h[j] = m + g[j - a] /\ g[j - a] \in 1 .. Len(t) /\ j - a \in 1 .. b
      BY <1>7, <1>8, <2>3, <3>1
    <3>3. j - a < k - a
      BY <1>1, <1>2, <1>13
    <3>4. g[j - a] < g[k - a]
      BY <1>5, <3>2, <3>3
    <3>5. \A u, v \in 1 .. Len(t) : u < v => m + u < m + v
      BY <1>3
    <3> QED
      BY <3>2, <3>4, <3>5
  <2> QED
    BY <2>1, <2>2, <2>3
<1>14. Lists(h, a + b, Places(s \o t, T))
  BY <1>11, <1>12, <1>13 DEF Lists
<1>15. Len(Only(s \o t, T)) = a + b /\ \A k \in 1 .. a + b : Only(s \o t, T)[k] = (s \o t)[h[k]]
  <2> DEFINE c == a + b
  <2>1. s \o t \in Seq(E) /\ c \in Nat /\ Lists(h, c, Places(s \o t, T))
    BY <1>1, <1>2, <1>3, <1>14
  <2>2. ASSUME NEW u \in Seq(E), NEW n \in Nat, NEW v, Lists(v, n, Places(u, T))
        PROVE  Len(Only(u, T)) = n /\ \A k \in 1 .. n : Only(u, T)[k] = u[v[k]]
    BY <2>2, OnlyIs
  <2> HIDE DEF c
  <2>3. Len(Only(s \o t, T)) = c /\ \A k \in 1 .. c : Only(s \o t, T)[k] = (s \o t)[h[k]]
    BY <2>1, <2>2, ZenonT(60)
  <2> QED
    BY <2>3 DEF c
<1>16. /\ Only(s, T) \o Only(t, T) \in Seq(E \cap T) /\ Len(Only(s, T) \o Only(t, T)) = a + b
       /\ \A k \in 1 .. a + b : (Only(s, T) \o Only(t, T))[k] =
              IF k <= a THEN Only(s, T)[k] ELSE Only(t, T)[k - a]
  BY <1>0, <1>1, <1>2, ConcatProperties
<1>17. ASSUME NEW k \in 1 .. a + b
       PROVE  (s \o t)[h[k]] = IF k <= a THEN Only(s, T)[k] ELSE Only(t, T)[k - a]
  <2>1. CASE k \in 1 .. a
    <3>1. h[k] = f[k] /\ f[k] \in 1 .. m /\ k <= a
      BY <1>7, <1>9, <2>1
    <3> QED
      BY <1>1, <1>3, <2>1, <3>1
  <2>2. CASE k \notin 1 .. a
    <3>1. h[k] = m + g[k - a] /\ g[k - a] \in 1 .. Len(t) /\ k - a \in 1 .. b
      BY <1>7, <1>8, <2>2
    <3>2. ~(k <= a)
      BY <2>2
    <3> QED
      BY <1>2, <1>3, <3>1, <3>2
  <2> QED
    BY <2>1, <2>2
<1>18. Only(s \o t, T) \in Seq(E \cap T)
  BY <1>3, <1>a
<1>19. \A k \in 1 .. a + b : Only(s \o t, T)[k] = (Only(s, T) \o Only(t, T))[k]
  BY <1>15, <1>16, <1>17
<1> QED
  BY <1>15, <1>16, <1>18, <1>19, SeqEqual

LEMMA OnlyOfNone ==
    ASSUME NEW T
    PROVE  Only(<<>>, T) = <<>>
<1>1. Places(<<>>, T) = {}
  BY DEF Places
<1>2. Count(<<>>, T) = 0
  BY <1>1, FS_EmptySet DEF Count
<1> QED
  BY <1>2 DEF Only, Count

LEMMA OnlyOfOne ==
    ASSUME NEW E, NEW e \in E, NEW T
    PROVE  Only(<<e>>, T) = IF e \in T THEN <<e>> ELSE <<>>
<1> DEFINE s == <<e>>
<1>1. s \in Seq(E) /\ DOMAIN s = {1} /\ s[1] = e
  OBVIOUS
<1>2. CASE e \in T
  <2> DEFINE f == [k \in 1 .. 1 |-> 1]
  <2>1. Places(s, T) = {1}
    BY <1>1, <1>2 DEF Places
  <2>2. f \in [1 .. 1 -> {1}] /\ 1 .. 1 = {1} /\ f[1] = 1
    OBVIOUS
  <2>3. \A j, k \in 1 .. 1 : ~(j < k)
    OBVIOUS
  <2> HIDE DEF f, s
  <2>4. Lists(f, 1, Places(s, T))
    BY <2>1, <2>2, <2>3 DEF Lists
  <2>5. Len(Only(s, T)) = 1 /\ \A k \in 1 .. 1 : Only(s, T)[k] = s[f[k]]
    BY <1>1, <2>4, OnlyIs
  <2>6. Only(s, T) \in Seq(E \cap T)
    BY <1>1, OnlyFacts
  <2>7. Only(s, T)[1] = e
    BY <1>1, <2>2, <2>5
  <2>8. Only(s, T) = <<e>>
    BY <2>5, <2>6, <2>7
  <2> QED
    BY <1>2, <2>8 DEF s
<1>3. CASE e \notin T
  <2>1. Places(s, T) = {}
    BY <1>1, <1>3 DEF Places
  <2>2. Count(s, T) = 0
    BY <2>1, FS_EmptySet DEF Count
  <2>3. Only(s, T) = <<>>
    BY <2>2 DEF Only, Count
  <2> QED
    BY <1>3, <2>3
<1> QED
  BY <1>2, <1>3

\* What is kept is counted as before.
LEMMA OnlyCounts ==
    ASSUME NEW E, NEW s \in Seq(E), NEW T, NEW R \in SUBSET T
    PROVE  Count(Only(s, T), R) = Count(s, R)
<1> DEFINE n == Len(Only(s, T))
           f == Listing(s, T)
           A == Places(Only(s, T), R)
           B == Places(s, R)
           g == [k \in A |-> f[k]]
<1>1. /\ Only(s, T) \in Seq(E \cap T) /\ n \in Nat
      /\ Lists(f, n, Places(s, T))
      /\ \A k \in 1 .. n : Only(s, T)[k] = s[f[k]]
  <2>1. /\ Only(s, T) \in Seq(E \cap T) /\ n \in Nat /\ Follows(Only(s, T), f, s, T)
    BY OnlyFacts
  <2> QED
    BY <2>1 DEF Follows
<1>2. /\ f \in [1 .. n -> Places(s, T)]
      /\ \A x \in Places(s, T) : \E k \in 1 .. n : f[k] = x
      /\ \A j, k \in 1 .. n : j < k => f[j] < f[k]
  BY <1>1 DEF Lists
<1>3. Places(s, T) \in SUBSET Nat
  BY PlacesAreFinite
<1>4. DOMAIN Only(s, T) = 1 .. n
  BY <1>1, LenProperties
<1> HIDE DEF n, f
<1>5. \A k : k \in A <=> k \in 1 .. n /\ s[f[k]] \in R
  BY <1>1, <1>4 DEF Places
<1>6. \A x : x \in B <=> x \in Places(s, T) /\ s[x] \in R
  BY DEF Places
<1>7. IsFiniteSet(A)
  BY <1>1, PlacesAreFinite
<1> HIDE DEF A, B
<1>8. g \in [A -> B]
  BY <1>2, <1>5, <1>6
<1>9. \A y \in B : \E x \in A : g[x] = y
  <2> SUFFICES ASSUME NEW y \in B PROVE \E x \in A : g[x] = y
    OBVIOUS
  <2>1. PICK k \in 1 .. n : f[k] = y
    BY <1>2, <1>6
  <2>2. k \in A
    BY <1>5, <1>6, <2>1
  <2> QED
    BY <2>1, <2>2
<1>10. \A x, y \in A : g[x] = g[y] => x = y
  <2> SUFFICES ASSUME NEW x \in A, NEW y \in A, f[x] = f[y], x # y PROVE FALSE
    OBVIOUS
  <2>1. x \in 1 .. n /\ y \in 1 .. n
    BY <1>5
  <2>2. x < y \/ y < x
    BY <2>1
  <2>3. f[x] < f[y] \/ f[y] < f[x]
    BY <1>2, <2>1, <2>2
  <2>4. f[x] \in Nat
    BY <1>2, <1>3, <2>1
  <2> QED
    BY <2>3, <2>4
<1> HIDE DEF g
<1>11. Cardinality(B) = Cardinality(A)
  BY <1>7, <1>8, <1>9, <1>10, BijectionCounts
<1> QED
  BY <1>11 DEF Count, A, B

\* Two sequences with the same places keep the entries of the same places.
LEMMA OnlyAlike ==
    ASSUME NEW E, NEW s \in Seq(E), NEW F, NEW t \in Seq(F), NEW T, NEW U,
           Places(s, T) = Places(t, U)
    PROVE  /\ Len(Only(s, T)) = Len(Only(t, U)) /\ Len(Only(s, T)) \in Nat
           /\ \A k \in 1 .. Len(Only(s, T)) :
                  \E n \in Places(s, T) : Only(s, T)[k] = s[n] /\ Only(t, U)[k] = t[n]
<1> DEFINE n == Len(Only(s, T))
           f == Listing(s, T)
<1>1. /\ n \in Nat /\ Lists(f, n, Places(s, T))
      /\ \A k \in 1 .. n : Only(s, T)[k] = s[f[k]]
  <2>1. /\ Only(s, T) \in Seq(E \cap T) /\ n \in Nat /\ Follows(Only(s, T), f, s, T)
    BY OnlyFacts
  <2> QED
    BY <2>1 DEF Follows
<1> HIDE DEF n, f
<1>2. Lists(f, n, Places(t, U))
  BY <1>1
<1>3. Len(Only(t, U)) = n /\ \A k \in 1 .. n : Only(t, U)[k] = t[f[k]]
  BY <1>1, <1>2, OnlyIs
<1>4. \A k \in 1 .. n : f[k] \in Places(s, T)
  BY <1>1 DEF Lists
<1> QED
  BY <1>1, <1>3, <1>4 DEF n

-----------------------------------------------------------------------------
(* What a function makes of the entries it is defined for.                 *)

\* p is the sequence k of entries in T, each replaced by its image in M.
MadeOf(p, k, f, T, M) ==
    /\ p \in Seq(M) /\ Len(p) = Len(k)
    /\ k \in Seq(T) /\ Len(k) \in Nat
    /\ \A n \in 1 .. Len(k) : p[n] = f[k[n]]

LEMMA PickedIs ==
    ASSUME NEW E, NEW s \in Seq(E), NEW T, NEW M, NEW f \in [T -> M]
    PROVE  MadeOf(Picked(s, f), Only(s, T), f, T, M)
<1> DEFINE k == Only(s, T)
<1>1. k \in Seq(T) /\ Len(k) \in Nat /\ DOMAIN k = 1 .. Len(k)
  <2>1. k \in Seq(E \cap T)
    BY OnlyFacts
  <2>2. \A u \in Seq(E \cap T) : u \in Seq(T)
    OBVIOUS
  <2> HIDE DEF k
  <2> QED
    BY <2>1, <2>2, LenProperties
<1>2. Picked(s, f) = [n \in DOMAIN k |-> f[k[n]]]
  BY DEF Picked
<1> HIDE DEF k
<1>3. \A n \in 1 .. Len(k) : k[n] \in T /\ f[k[n]] \in M
  <2>1. \A n \in 1 .. Len(k) : k[n] \in T
    BY <1>1, ElementOfSeq
  <2> QED
    BY <2>1
<1>4. Picked(s, f) \in [1 .. Len(k) -> M]
  BY <1>1, <1>2, <1>3
<1>5. Picked(s, f) \in Seq(M) /\ Len(Picked(s, f)) = Len(k)
  BY <1>1, <1>4
<1>6. \A n \in 1 .. Len(k) : Picked(s, f)[n] = f[k[n]]
  BY <1>1, <1>2
<1> QED
  BY <1>1, <1>5, <1>6 DEF k, MadeOf

PickedInParts(s, t, f) == Picked(s \o t, f) = Picked(s, f) \o Picked(t, f)

LEMMA PickedConcat ==
    ASSUME NEW E, NEW s \in Seq(E), NEW t \in Seq(E), NEW T, NEW M, NEW f \in [T -> M]
    PROVE  PickedInParts(s, t, f)
<1> DEFINE a == Only(s, T)
           b == Only(t, T)
           c == Only(s \o t, T)
           p == Picked(s, f)
           q == Picked(t, f)
           r == Picked(s \o t, f)
           k == Len(a)
           l == Len(b)
<1>1. s \o t \in Seq(E)
  BY ConcatProperties
<1>2. MadeOf(p, a, f, T, M) /\ MadeOf(q, b, f, T, M) /\ MadeOf(r, c, f, T, M)
  BY <1>1, PickedIs
<1>5. c = a \o b
  BY OnlyConcat
<1> HIDE DEF a, b, c, p, q, r
<1>3. /\ p \in Seq(M) /\ Len(p) = k /\ a \in Seq(T) /\ k \in Nat
      /\ q \in Seq(M) /\ Len(q) = l /\ b \in Seq(T) /\ l \in Nat
      /\ \A n \in 1 .. k : p[n] = f[a[n]]
      /\ \A n \in 1 .. l : q[n] = f[b[n]]
  BY <1>2 DEF MadeOf
<1>4. /\ r \in Seq(M) /\ Len(r) = Len(c) /\ c \in Seq(T)
      /\ \A n \in 1 .. Len(c) : r[n] = f[c[n]]
  BY <1>2 DEF MadeOf
<1>6. /\ Len(a \o b) = k + l
      /\ \A n \in 1 .. k : (a \o b)[n] = a[n]
      /\ \A n \in k + 1 .. k + l : (a \o b)[n] = b[n - k]
  BY <1>3, ConcatProperties
<1>7. /\ p \o q \in Seq(M) /\ Len(p \o q) = k + l
      /\ \A n \in 1 .. k : (p \o q)[n] = p[n]
      /\ \A n \in k + 1 .. k + l : (p \o q)[n] = q[n - k]
  <2>1. /\ p \o q \in Seq(M) /\ Len(p \o q) = Len(p) + Len(q)
        /\ \A n \in 1 .. Len(p) : (p \o q)[n] = p[n]
        /\ \A n \in Len(p) + 1 .. Len(p) + Len(q) : (p \o q)[n] = q[n - Len(p)]
    <3>1. p \in Seq(M) /\ q \in Seq(M)
      BY <1>3
    <3> QED
      BY <3>1, ConcatProperties, LenProperties
  <2> QED
    BY <1>3, <2>1
<1> HIDE DEF k, l
<1>8. ASSUME NEW n \in 1 .. k + l PROVE r[n] = (p \o q)[n]
  <2>1. r[n] = f[(a \o b)[n]]
    BY <1>4, <1>5, <1>6
  <2>2. CASE n <= k
    <3>1. n \in 1 .. k
      BY <1>3, <2>2
    <3> QED
      BY <1>3, <1>6, <1>7, <2>1, <3>1
  <2>3. CASE ~(n <= k)
    <3>1. n \in k + 1 .. k + l /\ n - k \in 1 .. l
      BY <1>3, <2>3
    <3> QED
      BY <1>3, <1>6, <1>7, <2>1, <3>1
  <2> QED
    BY <2>2, <2>3
<1>9. Len(r) = k + l
  BY <1>4, <1>5, <1>6
<1>10. r = p \o q
  BY <1>4, <1>7, <1>8, <1>9, SeqEqual
<1> QED
  BY <1>10 DEF p, q, r, PickedInParts

LEMMA PickedNone ==
    ASSUME NEW E, NEW s \in Seq(E), NEW T, NEW M, NEW f \in [T -> M],
           \A n \in 1 .. Len(s) : s[n] \notin T
    PROVE  Picked(s, f) = <<>>
<1>1. Places(s, T) = {}
  <2>1. DOMAIN s = 1 .. Len(s)
    BY LenProperties
  <2> QED
    BY <2>1 DEF Places
<1>2. Only(s, T) = <<>>
  <2>1. Cardinality(Places(s, T)) = 0
    BY <1>1, FS_EmptySet
  <2> QED
    BY <2>1 DEF Only
<1>3. Len(Only(s, T)) = 0
  BY <1>2
<1>4. Picked(s, f) \in Seq(M) /\ Len(Picked(s, f)) = 0
  <2>1. MadeOf(Picked(s, f), Only(s, T), f, T, M)
    BY PickedIs
  <2> QED
    BY <1>3, <2>1 DEF MadeOf
<1> QED
  BY <1>4, EmptySeq

LEMMA PickedOfOne ==
    ASSUME NEW E, NEW e \in E, NEW T, NEW M, NEW f \in [T -> M]
    PROVE  /\ e \in T => Picked(<<e>>, f) = <<f[e]>>
           /\ e \notin T => Picked(<<e>>, f) = <<>>
<1> DEFINE s == <<e>>
<1>1. s \in Seq(E) /\ Len(s) = 1 /\ s[1] = e
  OBVIOUS
<1>2. e \in T => Only(s, T) = <<e>>
  BY OnlyOfOne
<1> HIDE DEF s
<1>3. ASSUME e \in T PROVE Picked(s, f) = <<f[e]>>
  <2>1. Len(<<e>>) = 1 /\ <<e>>[1] = e
    OBVIOUS
  <2>2. /\ Picked(s, f) \in Seq(M) /\ Len(Picked(s, f)) = Len(Only(s, T))
        /\ \A n \in 1 .. Len(Only(s, T)) : Picked(s, f)[n] = f[Only(s, T)[n]]
    <3>1. MadeOf(Picked(s, f), Only(s, T), f, T, M)
      BY <1>1, PickedIs
    <3> QED
      BY <3>1 DEF MadeOf
  <2>3. Len(Picked(s, f)) = 1 /\ Picked(s, f)[1] = f[e]
    BY <1>2, <1>3, <2>1, <2>2
  <2> QED
    BY <2>2, <2>3
<1>4. ASSUME e \notin T PROVE Picked(s, f) = <<>>
  <2>1. \A n \in 1 .. Len(s) : s[n] \notin T
    BY <1>1, <1>4
  <2> QED
    BY <1>1, <2>1, PickedNone
<1> QED
  BY <1>3, <1>4 DEF s

LEMMA PickedAlike ==
    ASSUME NEW E, NEW s \in Seq(E), NEW t \in Seq(E), NEW T, NEW M, NEW f \in [T -> M],
           Places(s, T) = Places(t, T), \A n \in Places(s, T) : f[s[n]] = f[t[n]]
    PROVE  Picked(s, f) = Picked(t, f)
<1> DEFINE a == Only(s, T)
           b == Only(t, T)
           p == Picked(s, f)
           q == Picked(t, f)
<1>1. /\ Len(a) = Len(b)
      /\ \A k \in 1 .. Len(a) : \E n \in Places(s, T) : a[k] = s[n] /\ b[k] = t[n]
  BY SMTT(30), OnlyAlike
<1>2. /\ p \in Seq(M) /\ Len(p) = Len(a) /\ \A n \in 1 .. Len(a) : p[n] = f[a[n]]
      /\ q \in Seq(M) /\ Len(q) = Len(b) /\ \A n \in 1 .. Len(b) : q[n] = f[b[n]]
  <2>1. MadeOf(p, a, f, T, M) /\ MadeOf(q, b, f, T, M)
    BY PickedIs
  <2> QED
    BY <2>1 DEF MadeOf
<1> HIDE DEF a, b, p, q
<1>3. \A k \in 1 .. Len(a) : p[k] = q[k]
  BY <1>1, <1>2
<1>4. p = q
  BY <1>1, <1>2, <1>3, SeqEqual
<1> QED
  BY <1>4 DEF p, q

PickedCounted(s, f, T, W) == Count(Picked(s, f), W) = Count(s, {x \in T : f[x] \in W})

LEMMA PickedCounts ==
    ASSUME NEW E, NEW s \in Seq(E), NEW T, NEW M, NEW f \in [T -> M], NEW W
    PROVE  PickedCounted(s, f, T, W)
<1> DEFINE R == {x \in T : f[x] \in W}
           k == Only(s, T)
           p == Picked(s, f)
<1>1. /\ p \in Seq(M) /\ Len(p) = Len(k) /\ k \in Seq(T)
      /\ \A n \in 1 .. Len(k) : p[n] = f[k[n]]
  <2>1. MadeOf(p, k, f, T, M)
    BY PickedIs
  <2> QED
    BY <2>1 DEF MadeOf
<1>2. Count(k, R) = Count(s, R)
  <2>1. R \in SUBSET T
    OBVIOUS
  <2> HIDE DEF R
  <2> QED
    BY <2>1, OnlyCounts
<1> HIDE DEF k, p
<1>3. DOMAIN p = 1 .. Len(k) /\ DOMAIN k = 1 .. Len(k) /\ \A n \in 1 .. Len(k) : k[n] \in T
  BY <1>1, LenProperties, ElementOfSeq
<1>4. Places(p, W) = Places(k, R)
  BY <1>1, <1>3 DEF Places
<1>5. Count(p, W) = Count(k, R)
  BY <1>4 DEF Count
<1> QED
  BY <1>2, <1>5 DEF p, PickedCounted

-----------------------------------------------------------------------------
(* The entries of several queues.                                          *)

Held(queues, Q, V) ==
    {p \in Q \X Nat : p[2] \in DOMAIN queues[p[1]] /\ queues[p[1]][p[2]] \in V}

LEMMA PlacesInAre ==
    ASSUME NEW E, NEW Q, IsFiniteSet(Q), NEW queues \in [Q -> Seq(E)], NEW V
    PROVE  /\ PlacesIn(queues, V) = Held(queues, Q, V)
           /\ IsFiniteSet(Held(queues, Q, V)) /\ CountIn(queues, V) \in Nat
<1> DEFINE f == [q \in Q |-> {q} \X Places(queues[q], V)]
           S == {f[q] : q \in Q}
<1>1. \A q \in Q : \A n \in DOMAIN queues[q] : n \in Nat
  <2> SUFFICES ASSUME NEW q \in Q PROVE \A n \in DOMAIN queues[q] : n \in Nat
    OBVIOUS
  <2>1. queues[q] \in Seq(E)
    OBVIOUS
  <2> QED
    BY <2>1, LenProperties
<1>2. PlacesIn(queues, V) = UNION S
  <2>1. \A q \in Q : {<<q, n>> : n \in Places(queues[q], V)} = f[q]
    OBVIOUS
  <2> QED
    BY <2>1 DEF PlacesIn
<1>3. UNION S = Held(queues, Q, V)
  <2>1. ASSUME NEW p \in UNION S PROVE p \in Held(queues, Q, V)
    <3>1. PICK q \in Q : p \in {q} \X Places(queues[q], V)
      OBVIOUS
    <3>2. p[1] = q /\ p[2] \in Places(queues[q], V) /\ p = <<p[1], p[2]>>
      BY <3>1
    <3> QED
      BY <1>1, <3>2 DEF Held, Places
  <2>2. ASSUME NEW p \in Held(queues, Q, V) PROVE p \in UNION S
    <3>1. p[1] \in Q /\ p[2] \in Places(queues[p[1]], V) /\ p = <<p[1], p[2]>>
      BY DEF Held, Places
    <3>2. p \in {p[1]} \X Places(queues[p[1]], V)
      BY <3>1
    <3> QED
      BY <3>1, <3>2
  <2> QED
    BY <2>1, <2>2
<1>4. IsFiniteSet(S)
  <2>1. f \in Surjection(Q, S)
    BY DEF Surjection
  <2> HIDE DEF f, S
  <2> QED
    BY <2>1, FS_Surjection
<1>5. \A x \in S : IsFiniteSet(x)
  <2>1. ASSUME NEW q \in Q PROVE IsFiniteSet(f[q])
    <3>1. IsFiniteSet({q})
      BY FS_Singleton
    <3>2. IsFiniteSet(Places(queues[q], V))
      BY CountIsNat
    <3> QED
      BY <3>1, <3>2, FS_Product
  <2> QED
    BY <2>1
<1> HIDE DEF S
<1>6. IsFiniteSet(UNION S)
  BY <1>4, <1>5, FS_UNION
<1> QED
  BY <1>2, <1>3, <1>6, FS_CardinalityType DEF CountIn

LEMMA CountInOfEmpty ==
    ASSUME NEW queues, \A q \in DOMAIN queues : queues[q] = <<>>, NEW V
    PROVE  CountIn(queues, V) = 0
<1>1. \A q \in DOMAIN queues : Places(queues[q], V) = {}
  BY DEF Places
<1>2. PlacesIn(queues, V) = {}
  BY <1>1 DEF PlacesIn
<1> QED
  BY <1>2, FS_EmptySet DEF CountIn

\* Only which entries are in V matters.
LEMMA CountInAlike ==
    ASSUME NEW Q, NEW queues, NEW others, DOMAIN queues = Q, DOMAIN others = Q, NEW V,
           \A q \in Q : Places(others[q], V) = Places(queues[q], V)
    PROVE  CountIn(others, V) = CountIn(queues, V)
BY DEF CountIn, PlacesIn

\* One of the queues with one more entry.
WithLast(queues, q, x) == [queues EXCEPT ![q] = Append(@, x)]

LEMMA CountInAppend ==
    ASSUME NEW E, NEW Q, IsFiniteSet(Q), NEW queues \in [Q -> Seq(E)],
           NEW q \in Q, NEW x \in E, NEW V
    PROVE  CountIn(WithLast(queues, q, x), V) = CountIn(queues, V) + IF x \in V THEN 1 ELSE 0
<1> DEFINE then == WithLast(queues, q, x)
           k == Len(queues[q]) + 1
           A == Held(queues, Q, V)
           B == Held(then, Q, V)
<1>1. /\ DOMAIN queues[q] = 1 .. k - 1 /\ k \in Nat \ {0}
      /\ Append(queues[q], x) \in Seq(E)
      /\ DOMAIN Append(queues[q], x) = 1 .. k /\ Append(queues[q], x)[k] = x
      /\ \A n \in 1 .. k - 1 : Append(queues[q], x)[n] = queues[q][n]
  <2>1. queues[q] \in Seq(E)
    OBVIOUS
  <2>2. Append(queues[q], x) \in Seq(E)
    BY <2>1, AppendProperties
  <2> QED
    BY <2>1, <2>2, AppendProperties, LenProperties
<1>2. /\ then \in [Q -> Seq(E)] /\ then[q] = Append(queues[q], x)
      /\ \A r \in Q \ {q} : then[r] = queues[r]
  BY <1>1 DEF WithLast
<1> HIDE DEF then, k
<1>3. /\ CountIn(queues, V) = Cardinality(A) /\ IsFiniteSet(A) /\ CountIn(queues, V) \in Nat
      /\ CountIn(then, V) = Cardinality(B)
  <2>1. PlacesIn(queues, V) = A /\ IsFiniteSet(A) /\ CountIn(queues, V) \in Nat
    BY PlacesInAre
  <2>2. PlacesIn(then, V) = B
    BY <1>2, PlacesInAre
  <2> QED
    BY <2>1, <2>2 DEF CountIn
<1>4. \A n : n \in DOMAIN then[q] /\ then[q][n] \in V
             <=> \/ n \in DOMAIN queues[q] /\ queues[q][n] \in V
                 \/ n = k /\ x \in V
  <2> TAKE n
  <2>1. CASE n = k
    <3>1. n \in DOMAIN then[q] /\ n \notin DOMAIN queues[q]
      BY <1>1, <1>2, <2>1
    <3> QED
      BY <1>1, <1>2, <2>1, <3>1
  <2>2. CASE n # k
    <3>1. n \in DOMAIN then[q] <=> n \in DOMAIN queues[q]
      BY <1>1, <1>2, <2>2
    <3> QED
      BY <1>1, <1>2, <2>2, <3>1
  <2> QED
    BY <2>1, <2>2
<1>5. ASSUME NEW p \in Q \X Nat
      PROVE  p \in B <=> p \in A \/ (p = <<q, k>> /\ x \in V)
  <2>1. CASE p[1] = q
    <3>1. p = <<q, k>> <=> p[2] = k
      BY <2>1
    <3> QED
      BY <1>4, <2>1, <3>1 DEF Held
  <2>2. CASE p[1] # q
    <3>1. then[p[1]] = queues[p[1]] /\ p # <<q, k>>
      BY <1>2, <2>2
    <3>2. p \in B <=> p \in A
      BY <3>1 DEF Held
    <3> QED
      BY <3>1, <3>2
  <2> QED
    BY <2>1, <2>2
<1>6. <<q, k>> \in Q \X Nat /\ A \subseteq Q \X Nat /\ B \subseteq Q \X Nat /\ <<q, k>> \notin A
  BY <1>1 DEF Held
<1> HIDE DEF A, B
<1>7. CASE x \in V
  <2>1. \A p : p \in B <=> p \in A \cup {<<q, k>>}
    BY <1>5, <1>6, <1>7
  <2>2. B = A \cup {<<q, k>>}
    BY <2>1
  <2>3. Cardinality(B) = Cardinality(A) + 1
    BY <1>3, <1>6, <2>2, FS_AddElement
  <2> QED
    BY <1>3, <1>7, <2>3 DEF then
<1>8. CASE x \notin V
  <2>1. \A p : p \in B <=> p \in A
    BY <1>5, <1>6, <1>8
  <2>2. B = A
    BY <2>1
  <2> QED
    BY <1>3, <1>8, <2>2 DEF then
<1> QED
  BY <1>7, <1>8

\* The queues of G without their heads.
WithoutHeads(queues, Q, G) == [q \in Q |-> IF q \in G THEN Tail(queues[q]) ELSE queues[q]]

OnlyHeadsGo(queues, Q, G, V) ==
    LET left == WithoutHeads(queues, Q, G)
    IN  /\ CountIn(left, V) = Cardinality(Held(queues, Q, V) \ (G \X {1}))
        /\ CountIn(left, V) \in Nat

\* Each entry that is left is where it was or one place further on.
LEMMA PlacesLeft ==
    ASSUME NEW E, NEW Q, IsFiniteSet(Q), NEW queues \in [Q -> Seq(E)], NEW G \in SUBSET Q,
           \A q \in G : queues[q] # <<>>, NEW V
    PROVE  WithoutHeads(queues, Q, G) \in [Q -> Seq(E)] /\ OnlyHeadsGo(queues, Q, G, V)
<1> DEFINE left == WithoutHeads(queues, Q, G)
           D == Held(left, Q, V)
           C == Held(queues, Q, V) \ (G \X {1})
           f == [p \in D |-> IF p[1] \in G THEN <<p[1], p[2] + 1>> ELSE p]
<1>0. left = [q \in Q |-> IF q \in G THEN Tail(queues[q]) ELSE queues[q]]
  BY DEF WithoutHeads
<1> HIDE DEF left
<1>1. \A q \in Q : /\ left[q] \in Seq(E)
                   /\ DOMAIN queues[q] = 1 .. Len(queues[q]) /\ Len(queues[q]) \in Nat
                   /\ q \notin G => left[q] = queues[q]
                   /\ q \in G => /\ DOMAIN left[q] = 1 .. Len(queues[q]) - 1
                                 /\ \A n \in 1 .. Len(queues[q]) - 1 : left[q][n] = queues[q][n + 1]
  <2> SUFFICES ASSUME NEW q \in Q
               PROVE  /\ left[q] \in Seq(E)
                      /\ DOMAIN queues[q] = 1 .. Len(queues[q]) /\ Len(queues[q]) \in Nat
                      /\ q \notin G => left[q] = queues[q]
                      /\ q \in G => /\ DOMAIN left[q] = 1 .. Len(queues[q]) - 1
                                    /\ \A n \in 1 .. Len(queues[q]) - 1 : left[q][n] = queues[q][n + 1]
    OBVIOUS
  <2>1. queues[q] \in Seq(E)
    OBVIOUS
  <2>2. DOMAIN queues[q] = 1 .. Len(queues[q]) /\ Len(queues[q]) \in Nat
    BY <2>1, LenProperties
  <2>3. ASSUME q \in G
        PROVE  /\ left[q] \in Seq(E) /\ DOMAIN left[q] = 1 .. Len(queues[q]) - 1
               /\ \A n \in 1 .. Len(queues[q]) - 1 : left[q][n] = queues[q][n + 1]
    <3>1. left[q] = Tail(queues[q]) /\ queues[q] # <<>>
      BY <1>0, <2>3
    <3>2. /\ Tail(queues[q]) \in Seq(E) /\ Len(Tail(queues[q])) = Len(queues[q]) - 1
          /\ \A n \in 1 .. Len(Tail(queues[q])) : Tail(queues[q])[n] = queues[q][n + 1]
      BY <2>1, <3>1, HeadTailProperties
    <3> QED
      BY <3>1, <3>2, LenProperties
  <2> QED
    BY <1>0, <2>1, <2>2, <2>3
<1>2. left \in [Q -> Seq(E)]
  BY <1>0, <1>1
<1>3. \A p \in D : p[1] \in Q /\ p[2] \in Nat /\ p = <<p[1], p[2]>>
                   /\ p[2] \in DOMAIN left[p[1]] /\ left[p[1]][p[2]] \in V
  BY DEF Held
<1>4. \A p \in C : p[1] \in Q /\ p[2] \in Nat /\ p = <<p[1], p[2]>>
                   /\ p[2] \in DOMAIN queues[p[1]] /\ queues[p[1]][p[2]] \in V
                   /\ (p[1] \in G => p[2] # 1)
  BY DEF Held
<1>5. ASSUME NEW p \in Q \X Nat, p[2] \in DOMAIN queues[p[1]], queues[p[1]][p[2]] \in V,
             p[1] \in G => p[2] # 1
      PROVE  p \in C
  BY <1>5 DEF Held
<1>6. ASSUME NEW p \in Q \X Nat, p[2] \in DOMAIN left[p[1]], left[p[1]][p[2]] \in V
      PROVE  p \in D
  BY <1>6 DEF Held
<1>7. IsFiniteSet(D) /\ CountIn(left, V) = Cardinality(D) /\ CountIn(left, V) \in Nat
  <2>1. PlacesIn(left, V) = D /\ IsFiniteSet(D) /\ CountIn(left, V) \in Nat
    BY ZenonT(60), <1>2, PlacesInAre
  <2> QED
    BY <2>1 DEF CountIn
<1> HIDE DEF D, C
<1>a. \A p \in D : /\ p[1] \in G => f[p] = <<p[1], p[2] + 1>>
                   /\ p[1] \notin G => f[p] = p
  OBVIOUS
<1>b. f = [p \in D |-> f[p]]
  OBVIOUS
<1> HIDE DEF f
<1>c. ASSUME NEW p \in D PROVE f[p] \in C
  <2>1. CASE p[1] \in G
    <3>1. f[p] = <<p[1], p[2] + 1>> /\ p[1] \in Q /\ p[2] \in Nat /\ p[2] + 1 \in Nat
      BY <1>3, <1>a, <2>1
    <3>2. p[2] \in 1 .. Len(queues[p[1]]) - 1 /\ queues[p[1]][p[2] + 1] \in V
      BY <1>1, <1>3, <2>1
    <3>3. p[2] + 1 \in DOMAIN queues[p[1]] /\ p[2] + 1 # 1
      BY <1>1, <3>1, <3>2
    <3>4. f[p] \in Q \X Nat /\ f[p][1] = p[1] /\ f[p][2] = p[2] + 1
      BY <3>1
    <3> QED
      BY <1>5, <3>2, <3>3, <3>4
  <2>2. CASE p[1] \notin G
    <3>1. f[p] = p /\ left[p[1]] = queues[p[1]] /\ p \in Q \X Nat
      BY <1>1, <1>3, <1>a, <2>2
    <3> QED
      BY <1>3, <1>5, <2>2, <3>1
  <2> QED
    BY <2>1, <2>2
<1>8. f \in [D -> C]
  BY <1>b, <1>c
<1>d. \A p \in D : /\ f[p][1] = p[1]
                   /\ p[1] \in G => f[p][2] = p[2] + 1
                   /\ p[1] \notin G => f[p][2] = p[2]
  BY <1>a
<1>9. \A p, r \in D : f[p] = f[r] => p = r
  <2> SUFFICES ASSUME NEW p \in D, NEW r \in D, f[p] = f[r] PROVE p = r
    OBVIOUS
  <2>1. p = <<p[1], p[2]>> /\ r = <<r[1], r[2]>> /\ p[2] \in Nat /\ r[2] \in Nat
    BY <1>3
  <2>2. p[1] = r[1]
    BY <1>d
  <2>3. p[2] = r[2]
    <3>1. CASE p[1] \in G
      <4>1. p[2] + 1 = r[2] + 1
        BY <1>d, <2>2, <3>1
      <4> QED
        BY <2>1, <4>1
    <3>2. CASE p[1] \notin G
      BY <1>d, <2>2, <3>2
    <3> QED
      BY <3>1, <3>2
  <2> QED
    BY <2>1, <2>2, <2>3
<1>10. \A r \in C : \E p \in D : f[p] = r
  <2> SUFFICES ASSUME NEW r \in C PROVE \E p \in D : f[p] = r
    OBVIOUS
  <2>1. CASE r[1] \in G
    <3> DEFINE p == <<r[1], r[2] - 1>>
    <3>1. /\ r[2] \in 1 .. Len(queues[r[1]]) /\ r[2] # 1 /\ r[1] \in Q /\ Len(queues[r[1]]) \in Nat
          /\ r = <<r[1], r[2]>> /\ queues[r[1]][r[2]] \in V
      BY <1>1, <1>4, <2>1
    <3>2. r[2] - 1 \in 1 .. Len(queues[r[1]]) - 1 /\ r[2] - 1 \in Nat /\ (r[2] - 1) + 1 = r[2]
      BY <3>1
    <3>3. r[2] - 1 \in DOMAIN left[r[1]] /\ left[r[1]][r[2] - 1] \in V
      BY <1>1, <2>1, <3>1, <3>2
    <3>4. p \in Q \X Nat /\ p[1] = r[1] /\ p[2] = r[2] - 1
      BY <3>1, <3>2
    <3> HIDE DEF p
    <3>5. p \in D
      BY <1>6, <3>3, <3>4
    <3>6. f[p] = <<r[1], (r[2] - 1) + 1>>
      BY <1>a, <2>1, <3>4, <3>5
    <3> QED
      BY <3>1, <3>2, <3>5, <3>6
  <2>2. CASE r[1] \notin G
    <3>1. left[r[1]] = queues[r[1]] /\ r \in Q \X Nat
      BY <1>1, <1>4, <2>2
    <3>2. r \in D
      BY <1>4, <1>6, <3>1
    <3>3. f[r] = r
      BY <1>a, <2>2, <3>2
    <3> QED
      BY <3>2, <3>3
  <2> QED
    BY <2>1, <2>2
<1>11. Cardinality(C) = Cardinality(D)
  BY <1>7, <1>8, <1>9, <1>10, BijectionCounts
<1> QED
  BY <1>2, <1>7, <1>11 DEF C, left, OnlyHeadsGo

\* Of the heads that are gone at most one was in V.
LEMMA CountInTails ==
    ASSUME NEW E, NEW Q, IsFiniteSet(Q), NEW queues \in [Q -> Seq(E)], NEW G \in SUBSET Q,
           \A q \in G : queues[q] # <<>>, NEW V,
           \A q, r \in G : Head(queues[q]) \in V /\ Head(queues[r]) \in V => q = r
    PROVE  /\ CountIn(queues, V)
                 = CountIn(WithoutHeads(queues, Q, G), V)
                      + IF \E q \in G : Head(queues[q]) \in V THEN 1 ELSE 0
           /\ CountIn(WithoutHeads(queues, Q, G), V) \in Nat
<1> DEFINE F == Held(queues, Q, V)
           left == WithoutHeads(queues, Q, G)
<1>1. /\ CountIn(left, V) = Cardinality(F \ (G \X {1})) /\ CountIn(left, V) \in Nat
      /\ CountIn(queues, V) = Cardinality(F) /\ CountIn(queues, V) \in Nat /\ IsFiniteSet(F)
  <2>1. CountIn(left, V) = Cardinality(F \ (G \X {1})) /\ CountIn(left, V) \in Nat
    <3>1. OnlyHeadsGo(queues, Q, G, V)
      BY PlacesLeft
    <3> QED
      BY <3>1 DEF OnlyHeadsGo
  <2>2. CountIn(queues, V) = Cardinality(F) /\ CountIn(queues, V) \in Nat /\ IsFiniteSet(F)
    <3>1. PlacesIn(queues, V) = F /\ IsFiniteSet(F) /\ CountIn(queues, V) \in Nat
      BY PlacesInAre
    <3> QED
      BY <3>1 DEF CountIn
  <2> QED
    BY <2>1, <2>2
<1>2. \A q \in G : <<q, 1>> \in F <=> Head(queues[q]) \in V
  <2> SUFFICES ASSUME NEW q \in G PROVE <<q, 1>> \in F <=> Head(queues[q]) \in V
    OBVIOUS
  <2>1. queues[q] \in Seq(E) /\ queues[q] # <<>> /\ q \in Q
    OBVIOUS
  <2>2. 1 \in DOMAIN queues[q] /\ Head(queues[q]) = queues[q][1]
    <3>1. Len(queues[q]) \in Nat \ {0} /\ DOMAIN queues[q] = 1 .. Len(queues[q])
      BY <2>1, LenProperties, EmptySeq
    <3> QED
      BY <2>1, <3>1, HeadTailProperties
  <2> QED
    BY <2>1, <2>2 DEF Held
<1>3. \A p \in F : p \in G \X {1} => p[1] \in G /\ p = <<p[1], 1>> /\ Head(queues[p[1]]) \in V
  <2> SUFFICES ASSUME NEW p \in F, p \in G \X {1}
               PROVE  p[1] \in G /\ p = <<p[1], 1>> /\ Head(queues[p[1]]) \in V
    OBVIOUS
  <2>1. p[1] \in G /\ p = <<p[1], 1>>
    OBVIOUS
  <2> HIDE DEF F
  <2> QED
    BY <1>2, <2>1
<1> HIDE DEF F, left
<1> DEFINE x == CountIn(left, V)
           y == CountIn(queues, V)
<1>4. CASE \E q \in G : Head(queues[q]) \in V
  <2>1. PICK q \in G : Head(queues[q]) \in V
    BY <1>4
  <2>2. <<q, 1>> \in F /\ <<q, 1>> \in G \X {1}
    BY <1>2, <2>1
  <2>3. \A p \in F : p \in G \X {1} => p = <<q, 1>>
    BY <1>3, <2>1
  <2>4. F \ (G \X {1}) = F \ {<<q, 1>>}
    BY <2>2, <2>3
  <2>5. Cardinality(F \ {<<q, 1>>}) = Cardinality(F) - 1
    BY ZenonT(60), <1>1, <2>2, FS_RemoveElement
  <2>6. x \in Nat /\ y \in Nat /\ x = y - 1
    BY <1>1, <2>4, <2>5
  <2> HIDE DEF x, y
  <2>7. y = x + 1
    BY <2>6
  <2> QED
    BY <1>4, <2>6, <2>7 DEF x, y, left
<1>5. CASE ~\E q \in G : Head(queues[q]) \in V
  <2>1. F \ (G \X {1}) = F
    BY <1>3, <1>5
  <2>2. x \in Nat /\ y = x
    BY <1>1, <2>1
  <2> HIDE DEF x, y
  <2>3. y = x + 0
    BY <2>2
  <2> QED
    BY <1>5, <2>2, <2>3 DEF x, y, left
<1> QED
  BY <1>4, <1>5
=============================================================================
