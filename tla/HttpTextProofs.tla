---------------------------- MODULE HttpTextProofs ----------------------------
(***************************************************************************)
(* Theorems about the texts of HttpText: what Lines, Join and the folds    *)
(* over lines return, for every text.                                      *)
(***************************************************************************)
EXTENDS HttpText, TLAPS, FiniteSetTheorems

-----------------------------------------------------------------------------
(* Induction.                                                              *)

\* A set of naturals has a smallest one.
LEMMA Smallest ==
    ASSUME NEW S \in SUBSET Nat, S # {}
    PROVE  \E m \in S : \A n \in S : m <= n
<1>1. PICK m \in S : \A n \in S : ~ (<<n, m>> \in OpToRel(<, Nat))
  BY WFMin, NatLessThanWellFounded, Zenon
<1>2. \A n \in S : ~ (n < m)
  BY <1>1 DEF OpToRel
<1> QED  BY <1>2

\* Induction over the naturals, for a set of them.
LEMMA SetOfNaturals ==
    ASSUME NEW T \in SUBSET Nat, 0 \in T, \A n \in T : n + 1 \in T
    PROVE  \A n \in Nat : n \in T
<1> SUFFICES ASSUME Nat \ T # {} PROVE FALSE
  OBVIOUS
<1>1. PICK m \in Nat \ T : \A n \in Nat \ T : m <= n
  BY Smallest
<1>2. m # 0 /\ m - 1 \in Nat /\ m - 1 < m /\ m - 1 + 1 = m
  <2>1. m # 0
    OBVIOUS
  <2> QED  BY <2>1
<1>3. m - 1 \notin T
  BY <1>2
<1> QED  BY <1>1, <1>2, <1>3

\* A set of naturals below a bound has a largest one.
LEMMA Largest ==
    ASSUME NEW n \in Nat, NEW S \in SUBSET (1 .. n), S # {}
    PROVE  \E m \in S : \A k \in S : k <= m
<1> DEFINE U == {b \in 0 .. n : \A k \in S : k <= b}
<1>1. n \in U /\ U \in SUBSET Nat
  OBVIOUS
<1>2. PICK m \in U : \A b \in U : m <= b
  BY <1>1, Smallest
<1>3. m \in S
  <2> SUFFICES ASSUME m \notin S PROVE FALSE
    OBVIOUS
  <2>1. \A k \in S : k \in Nat /\ k <= m /\ k # m
    OBVIOUS
  <2>2. \A k \in S : k <= m - 1
    BY <2>1
  <2>3. PICK k \in S : TRUE
    OBVIOUS
  <2>4. k \in 1 .. n /\ k <= m
    OBVIOUS
  <2>5. m - 1 \in U
    BY <2>2, <2>4
  <2> QED  BY <1>2, <2>5
<1> QED  BY <1>3

-----------------------------------------------------------------------------
(* Sequences.                                                              *)

\* Concatenation.
LEMMA Concat ==
    ASSUME NEW S, NEW s \in Seq(S), NEW t \in Seq(S)
    PROVE  /\ s \o t \in Seq(S) /\ Len(s \o t) = Len(s) + Len(t)
           /\ \A i \in 1 .. Len(s) : (s \o t)[i] = s[i]
           /\ \A i \in 1 .. Len(t) : (s \o t)[Len(s) + i] = t[i]
OBVIOUS

\* A sequence with one more element in front.
LEMMA ConsIs ==
    ASSUME NEW S, NEW x \in S, NEW s \in Seq(S)
    PROVE  /\ <<x>> \o s \in Seq(S) /\ Len(<<x>> \o s) = 1 + Len(s)
           /\ (<<x>> \o s)[1] = x
           /\ \A i \in 1 .. Len(s) : (<<x>> \o s)[1 + i] = s[i]
OBVIOUS

\* Two sequences with the same elements are equal.
LEMMA SameSeq ==
    ASSUME NEW S, NEW s \in Seq(S), NEW t \in Seq(S), Len(s) = Len(t),
           \A i \in 1 .. Len(s) : s[i] = t[i]
    PROVE  s = t
OBVIOUS

\* Concatenation is associative, and has a neutral element.
LEMMA ConcatAssoc ==
    ASSUME NEW S, NEW s \in Seq(S), NEW t \in Seq(S), NEW u \in Seq(S)
    PROVE  /\ (s \o t) \o u = s \o (t \o u)
           /\ <<>> \o s = s /\ s \o <<>> = s
OBVIOUS

\* A function on 1 .. n is a sequence of length n.
LEMMA FunctionSeq ==
    ASSUME NEW S, NEW n \in Nat, NEW f \in [1 .. n -> S]
    PROVE  f \in Seq(S) /\ Len(f) = n
OBVIOUS

\* A part of a sequence.
LEMMA Part ==
    ASSUME NEW S, NEW s \in Seq(S), NEW a \in Nat \ {0}, NEW b \in Int, b <= Len(s)
    PROVE  /\ SubSeq(s, a, b) \in Seq(S)
           /\ Len(SubSeq(s, a, b)) = IF a <= b THEN b - a + 1 ELSE 0
           /\ \A i \in 1 .. b - a + 1 : SubSeq(s, a, b)[i] = s[a + i - 1]
OBVIOUS

-----------------------------------------------------------------------------
(* Sets of numbers, counted from below.                                    *)

\* The numbers of E up to i: how many they are tells the elements of E apart, and
\* every count up to the size of E occurs.
LEMMA Rank ==
    ASSUME NEW E \in SUBSET Nat, IsFiniteSet(E)
    PROVE  /\ Cardinality(E) \in Nat
           /\ \A i \in E : Cardinality({j \in E : j <= i}) \in 1 .. Cardinality(E)
           /\ \A i, k \in E : Cardinality({j \in E : j <= i}) = Cardinality({j \in E : j <= k})
                                 => i = k
           /\ \A k \in 1 .. Cardinality(E) :
                 \E i \in E : Cardinality({j \in E : j <= i}) = k
<1> DEFINE upTo(i) == {j \in E : j <= i}
           N == Cardinality(E)
           rank == [i \in E |-> Cardinality(upTo(i))]
<1>1. N \in Nat
  BY FS_CardinalityType
<1>2. ASSUME NEW i \in E PROVE /\ IsFiniteSet(upTo(i)) /\ Cardinality(upTo(i)) \in 1 .. N
  <2>1. upTo(i) \in SUBSET E /\ upTo(i) # {}
    OBVIOUS
  <2> HIDE DEF upTo
  <2>2. IsFiniteSet(upTo(i)) /\ Cardinality(upTo(i)) <= N
    BY <2>1, FS_Subset
  <2>3. Cardinality(upTo(i)) \in Nat /\ Cardinality(upTo(i)) # 0
    BY <2>1, <2>2, FS_CardinalityType, FS_EmptySet
  <2> QED  BY <1>1, <2>2, <2>3
<1>3. ASSUME NEW i \in E, NEW k \in E, i < k
      PROVE  Cardinality(upTo(i)) # Cardinality(upTo(k))
  <2>0. k \in upTo(k) /\ k \notin upTo(i) /\ \A j \in E : j <= i => j <= k
    BY <1>3
  <2>1. upTo(i) \in SUBSET upTo(k) /\ upTo(i) # upTo(k)
    BY <2>0
  <2>2. IsFiniteSet(upTo(k))
    BY <1>2
  <2> HIDE DEF upTo
  <2> QED  BY <2>1, <2>2, FS_Subset
<1>4. \A i, k \in E : Cardinality(upTo(i)) = Cardinality(upTo(k)) => i = k
  <2>1. \A i, k \in E : i < k \/ k < i \/ i = k
    OBVIOUS
  <2> HIDE DEF upTo
  <2> QED  BY <1>3, <2>1
<1> HIDE DEF upTo
<1>5. rank \in Injection(E, 1 .. N)
  BY <1>2, <1>4 DEF Injection, IsInjective
<1>6. IsFiniteSet(1 .. N) /\ Cardinality(1 .. N) = N
  BY <1>1, FS_Interval
<1>7. rank \in Surjection(E, 1 .. N)
  BY <1>5, <1>6, FS_Injection
<1>8. \A k \in 1 .. N : \E i \in E : rank[i] = k
  BY <1>7 DEF Surjection
<1>9. \A k \in 1 .. N : \E i \in E : Cardinality(upTo(i)) = k
  BY <1>8
<1> HIDE DEF N
<1>10. \A i \in E : Cardinality(upTo(i)) \in 1 .. N
  BY <1>2
<1> QED  BY <1>1, <1>4, <1>9, <1>10 DEF upTo, N

\* A set moved up by n, with n itself, has one element more.
LEMMA Moved ==
    ASSUME NEW E \in SUBSET (Nat \ {0}), IsFiniteSet(E), NEW n \in Nat
    PROVE  /\ IsFiniteSet({n} \cup {n + j : j \in E})
           /\ Cardinality({n} \cup {n + j : j \in E}) = Cardinality(E) + 1
<1> DEFINE G == {n + j : j \in E}
           move == [j \in E |-> n + j]
<1>1. move \in Bijection(E, G)
  <2>1. move \in [E -> G] /\ \A a, b \in E : move[a] = move[b] => a = b
    OBVIOUS
  <2>2. \A g \in G : \E j \in E : move[j] = g
    OBVIOUS
  <2> HIDE DEF move, G
  <2> QED  BY <2>1, <2>2 DEF Bijection, Injection, Surjection, IsInjective
<1>2. n \notin G
  OBVIOUS
<1>3. IsFiniteSet(G) /\ Cardinality(G) = Cardinality(E)
  <2> HIDE DEF move, G
  <2> QED  BY <1>1, FS_Bijection DEF ExistsBijection
<1> HIDE DEF G
<1>4. {n} \cup G = G \cup {n}
  OBVIOUS
<1>5. IsFiniteSet({n} \cup G) /\ Cardinality({n} \cup G) = Cardinality(E) + 1
  BY <1>2, <1>3, <1>4, FS_AddElement
<1> QED  BY <1>5 DEF G

-----------------------------------------------------------------------------
(* Request::parse cuts a text into lines.                                  *)

\* A text has finitely many line ends, and a word is not one.
LEMMA EndsFinite ==
    ASSUME NEW t \in Text
    PROVE  /\ Ends(t) \in SUBSET (1 .. Len(t)) /\ Ends(t) \in SUBSET (Nat \ {0})
           /\ IsFiniteSet(Ends(t)) /\ Cardinality(Ends(t)) \in Nat
<1>1. Ends(t) \in SUBSET (1 .. Len(t)) /\ Len(t) \in Nat
  BY DEF Ends, Text
<1>2. IsFiniteSet(1 .. Len(t))
  BY <1>1, FS_Interval
<1> QED  BY <1>1, <1>2, FS_Subset, FS_CardinalityType

\* The k-th line end exists, and is the only one with k line ends up to it.
LEMMA EndOfIs ==
    ASSUME NEW t \in Text, NEW k \in 1 .. Cardinality(Ends(t))
    PROVE  /\ EndOf(t, k) \in Ends(t)
           /\ Cardinality({j \in Ends(t) : j <= EndOf(t, k)}) = k
           /\ \A i \in Ends(t) : Cardinality({j \in Ends(t) : j <= i}) = k => EndOf(t, k) = i
<1>1. Ends(t) \in SUBSET Nat /\ IsFiniteSet(Ends(t))
  BY EndsFinite
<1>2. \E i \in Ends(t) : Cardinality({j \in Ends(t) : j <= i}) = k
  BY <1>1, Rank
<1>3. EndOf(t, k) \in Ends(t) /\ Cardinality({j \in Ends(t) : j <= EndOf(t, k)}) = k
  BY <1>2 DEF EndOf
<1>4. \A i \in Ends(t) : Cardinality({j \in Ends(t) : j <= i})
                            = Cardinality({j \in Ends(t) : j <= EndOf(t, k)}) => i = EndOf(t, k)
  BY <1>1, <1>3, Rank
<1> QED  BY <1>3, <1>4

\* A line, its end and the rest of a text.
LEMMA LineFirst ==
    ASSUME NEW l \in Seq(Word), NEW e \in LineEnd, NEW t \in Text
    PROVE  LET text == l \o <<e>> \o t
               n == Len(l) + 1
           IN /\ text \in Text /\ Len(text) = n + Len(t) /\ n \in Nat \ {0}
              /\ \A i \in 1 .. Len(l) : text[i] = l[i] /\ text[i] \notin LineEnd
              /\ text[n] = e
              /\ \A i \in 1 .. Len(t) : text[n + i] = t[i]
<1>1. l \in Text /\ <<e>> \in Text /\ l \o <<e>> \in Text
  BY DEF Text
<1>2. Len(l) \in Nat /\ Len(l \o <<e>>) = Len(l) + 1 /\ (l \o <<e>>)[Len(l) + 1] = e
      /\ \A i \in 1 .. Len(l) : (l \o <<e>>)[i] = l[i]
  BY <1>1 DEF Text
<1>3. \A i \in 1 .. Len(l) : l[i] \notin LineEnd
  BY WordAssumption
<1> DEFINE p == l \o <<e>>
<1> HIDE DEF p
<1>4. p \in Text /\ t \in Text
  BY <1>1 DEF p, Text
<1>5. /\ p \o t \in Text /\ Len(p \o t) = Len(p) + Len(t)
      /\ \A i \in 1 .. Len(p) : (p \o t)[i] = p[i]
      /\ \A i \in 1 .. Len(t) : (p \o t)[Len(p) + i] = t[i]
  BY <1>4, Concat DEF Text
<1>6. /\ Len(p) = Len(l) + 1 /\ p[Len(l) + 1] = e
      /\ \A i \in 1 .. Len(l) : p[i] = l[i]
  BY <1>2 DEF p
<1>7. /\ \A i \in 1 .. Len(l) : (p \o t)[i] = l[i]
      /\ (p \o t)[Len(l) + 1] = e
  BY <1>2, <1>5, <1>6
<1> QED  BY <1>2, <1>3, <1>5, <1>6, <1>7 DEF p, Text

\* The line ends of such a text: that of the line, and those of the rest.
LEMMA EndsFirst ==
    ASSUME NEW l \in Seq(Word), NEW e \in LineEnd, NEW t \in Text
    PROVE  LET text == l \o <<e>> \o t
               n == Len(l) + 1
           IN /\ Ends(text) = {n} \cup {n + j : j \in Ends(t)}
              /\ Cardinality(Ends(text)) = Cardinality(Ends(t)) + 1
              /\ EndOf(text, 1) = n
              /\ \A k \in 1 .. Cardinality(Ends(t)) : EndOf(text, k + 1) = n + EndOf(t, k)
<1> DEFINE text == l \o <<e>> \o t
           n == Len(l) + 1
<1>1. /\ text \in Text /\ Len(text) = n + Len(t) /\ n \in Nat \ {0} /\ Len(t) \in Nat
      /\ \A i \in 1 .. n - 1 : text[i] \notin LineEnd
      /\ text[n] \in LineEnd
      /\ \A i \in 1 .. Len(t) : text[n + i] = t[i]
  BY LineFirst DEF Text
<1> HIDE DEF text, n
<1>2. DOMAIN text = 1 .. n + Len(t) /\ DOMAIN t = 1 .. Len(t)
  BY <1>1 DEF Text
<1>3. Ends(text) = {n} \cup {n + j : j \in Ends(t)}
  <2>1. ASSUME NEW i \in Ends(text) PROVE i \in {n} \cup {n + j : j \in Ends(t)}
    <3>1. i \in 1 .. n + Len(t) /\ text[i] \in LineEnd
      BY <1>2 DEF Ends
    <3>2. i >= n
      BY <1>1, <3>1
    <3>3. CASE i > n
      <4>1. i - n \in 1 .. Len(t) /\ i = n + (i - n)
        BY <3>1, <3>3, <1>1
      <4>2. i - n \in Ends(t)
        BY <4>1, <3>1, <1>1, <1>2 DEF Ends
      <4> QED  BY <4>1, <4>2
    <3> QED  BY <3>2, <3>3, <3>1, <1>1
  <2>2. n \in Ends(text)
    BY <1>1, <1>2 DEF Ends
  <2>3. ASSUME NEW j \in Ends(t) PROVE n + j \in Ends(text)
    BY <1>1, <1>2 DEF Ends
  <2> QED  BY <2>1, <2>2, <2>3
<1>4. /\ Ends(t) \in SUBSET (Nat \ {0}) /\ IsFiniteSet(Ends(t)) /\ Cardinality(Ends(t)) \in Nat
  BY EndsFinite
<1>5. Cardinality(Ends(text)) = Cardinality(Ends(t)) + 1
  BY <1>1, <1>3, <1>4, Moved
<1>6. EndOf(text, 1) = n
  <2>1. {j \in Ends(text) : j <= n} = {n}
    BY <1>1, <1>3, <1>4
  <2>2. Cardinality({j \in Ends(text) : j <= n}) = 1
    BY <2>1, FS_Singleton
  <2>3. 1 \in 1 .. Cardinality(Ends(text)) /\ n \in Ends(text)
    BY <1>3, <1>4, <1>5
  <2> QED  BY <1>1, <2>2, <2>3, EndOfIs
<1>7. ASSUME NEW k \in 1 .. Cardinality(Ends(t)) PROVE EndOf(text, k + 1) = n + EndOf(t, k)
  <2> DEFINE i == EndOf(t, k)
             E == {j \in Ends(t) : j <= i}
  <2>1. i \in Ends(t) /\ Cardinality(E) = k
    BY EndOfIs
  <2> HIDE DEF i
  <2>2. {j \in Ends(text) : j <= n + i} = {n} \cup {n + j : j \in E}
    <3>1. i \in Nat /\ n \in Nat /\ \A j \in Ends(t) : j \in Nat /\ (n + j <= n + i <=> j <= i)
      BY <1>1, <1>4, <2>1
    <3> QED  BY <1>3, <3>1
  <2>3. E \in SUBSET (Nat \ {0}) /\ IsFiniteSet(E)
    BY <1>4, FS_Subset
  <2> HIDE DEF E
  <2>4. Cardinality({j \in Ends(text) : j <= n + i}) = k + 1
    BY <1>1, <2>1, <2>2, <2>3, Moved
  <2>5. n + i \in Ends(text) /\ k + 1 \in 1 .. Cardinality(Ends(text))
    BY <1>3, <1>4, <1>5, <2>1
  <2>6. EndOf(text, k + 1) = n + i
    BY <1>1, <2>4, <2>5, EndOfIs
  <2> QED  BY <2>6 DEF i
<1> QED  BY <1>3, <1>5, <1>6, <1>7 DEF text, n

\* The lines that have an end, and what follows the last of them.
Closed(t) == [k \in 1 .. Cardinality(Ends(t)) |-> SubSeq(t, From(t, k), EndOf(t, k) - 1)]
Rest(t) == SubSeq(t, From(t, Cardinality(Ends(t)) + 1), Len(t))

\* Where lines begin and end.
LEMMA Places ==
    ASSUME NEW t \in Text
    PROVE  /\ \A k \in 1 .. Cardinality(Ends(t)) : EndOf(t, k) \in 1 .. Len(t)
           /\ \A k \in 1 .. Cardinality(Ends(t)) + 1 : From(t, k) \in 1 .. Len(t) + 1
<1>1. Len(t) \in Nat /\ Cardinality(Ends(t)) \in Nat
  BY EndsFinite DEF Text
<1>2. \A k \in 1 .. Cardinality(Ends(t)) : EndOf(t, k) \in 1 .. Len(t)
  BY EndOfIs, EndsFinite
<1>3. ASSUME NEW k \in 1 .. Cardinality(Ends(t)) + 1 PROVE From(t, k) \in 1 .. Len(t) + 1
  <2>1. CASE k = 1
    BY <2>1, <1>1 DEF From
  <2>2. CASE k # 1
    <3>1. k - 1 \in 1 .. Cardinality(Ends(t))
      BY <2>2, <1>1
    <3>2. EndOf(t, k - 1) \in 1 .. Len(t)
      BY <3>1, <1>2
    <3> QED  BY <2>2, <3>2, <1>1 DEF From
  <2> QED  BY <2>1, <2>2
<1> QED  BY <1>2, <1>3

\* Lines, without its local definitions.
LEMMA LinesAre ==
    ASSUME NEW t \in Text
    PROVE  /\ Closed(t) \in Seq(Text) /\ Rest(t) \in Text
           /\ Len(Closed(t)) = Cardinality(Ends(t))
           /\ Lines(t) = IF Rest(t) = <<>> THEN Closed(t) ELSE Append(Closed(t), Rest(t))
           /\ Lines(t) \in Seq(Text)
<1>1. Len(t) \in Nat /\ Cardinality(Ends(t)) \in Nat
  BY EndsFinite DEF Text
<1>2. ASSUME NEW k \in 1 .. Cardinality(Ends(t))
      PROVE  SubSeq(t, From(t, k), EndOf(t, k) - 1) \in Text
  <2>1. k \in 1 .. Cardinality(Ends(t)) + 1
    BY <1>1
  <2>2. From(t, k) \in 1 .. Len(t) + 1 /\ EndOf(t, k) \in 1 .. Len(t)
    BY <2>1, Places
  <2>3. From(t, k) \in Nat \ {0} /\ EndOf(t, k) - 1 \in Int /\ EndOf(t, k) - 1 <= Len(t)
    BY <2>2, <1>1
  <2> HIDE DEF Text
  <2> QED  BY <2>3, Part DEF Text
<1>3. Closed(t) \in Seq(Text) /\ Len(Closed(t)) = Cardinality(Ends(t))
  <2>1. Closed(t) \in [1 .. Cardinality(Ends(t)) -> Text]
    BY <1>2 DEF Closed
  <2> QED  BY <1>1, <2>1, FunctionSeq
<1>4. Rest(t) \in Text
  <2>1. Cardinality(Ends(t)) + 1 \in 1 .. Cardinality(Ends(t)) + 1
    BY <1>1
  <2>2. From(t, Cardinality(Ends(t)) + 1) \in 1 .. Len(t) + 1
    BY <2>1, Places
  <2>3. From(t, Cardinality(Ends(t)) + 1) \in Nat \ {0} /\ Len(t) \in Int /\ Len(t) <= Len(t)
    BY <2>2, <1>1
  <2> QED  BY <2>3, Part DEF Rest, Text
<1>5. Lines(t) = IF Rest(t) = <<>> THEN Closed(t) ELSE Append(Closed(t), Rest(t))
  BY DEF Lines, Closed, Rest
<1> QED  BY <1>3, <1>4, <1>5

\* Nothing has no lines, and words without a line end are one line.
LEMMA LinesWords ==
    ASSUME NEW l \in Seq(Word)
    PROVE  Lines(l) = IF l = <<>> THEN <<>> ELSE <<l>>
<1>1. l \in Text /\ Len(l) \in Nat
  BY DEF Text
<1>2. Ends(l) = {}
  BY WordAssumption DEF Ends
<1>3. Cardinality(Ends(l)) = 0
  BY <1>2, FS_EmptySet
<1>4. Closed(l) = <<>>
  <2>1. Closed(l) \in Seq(Text) /\ Len(Closed(l)) = 0
    BY <1>1, <1>3, LinesAre
  <2> QED  BY <2>1
<1>5. Rest(l) = l
  <2>1. Rest(l) = SubSeq(l, 1, Len(l))
    BY <1>3 DEF Rest, From
  <2> QED  BY <2>1
<1>6. Lines(l) = IF l = <<>> THEN <<>> ELSE Append(<<>>, l)
  BY <1>1, <1>4, <1>5, LinesAre
<1> QED  BY <1>6

\* A part of the rest of a text.
LEMMA PartOfRest ==
    ASSUME NEW l \in Seq(Word), NEW e \in LineEnd, NEW t \in Text,
           NEW a \in Nat \ {0}, NEW b \in Int, b <= Len(t)
    PROVE  SubSeq(l \o <<e>> \o t, Len(l) + 1 + a, Len(l) + 1 + b) = SubSeq(t, a, b)
<1> DEFINE text == l \o <<e>> \o t
           n == Len(l) + 1
           part == SubSeq(text, n + a, n + b)
<1>1. /\ text \in Text /\ Len(text) = n + Len(t) /\ n \in Nat \ {0} /\ Len(t) \in Nat
      /\ \A i \in 1 .. Len(t) : text[n + i] = t[i]
  BY LineFirst DEF Text
<1> HIDE DEF text, n
<1>2. n + a \in Nat \ {0} /\ n + b \in Int /\ n + b <= Len(text)
  BY <1>1
<1>3. /\ part \in Text
      /\ Len(part) = IF n + a <= n + b THEN n + b - (n + a) + 1 ELSE 0
      /\ \A i \in 1 .. n + b - (n + a) + 1 : part[i] = text[n + a + i - 1]
  BY <1>1, <1>2, Part DEF Text
<1>4. /\ SubSeq(t, a, b) \in Text
      /\ Len(SubSeq(t, a, b)) = IF a <= b THEN b - a + 1 ELSE 0
      /\ \A i \in 1 .. b - a + 1 : SubSeq(t, a, b)[i] = t[a + i - 1]
  BY Part DEF Text
<1> HIDE DEF part
<1>5. Len(part) = Len(SubSeq(t, a, b)) /\ n + b - (n + a) + 1 = b - a + 1
  BY <1>1, <1>3, <1>4
<1>6. ASSUME NEW i \in 1 .. Len(part) PROVE part[i] = SubSeq(t, a, b)[i]
  <2>1. i \in 1 .. b - a + 1 /\ a + i - 1 \in 1 .. Len(t) /\ n + a + i - 1 = n + (a + i - 1)
    BY <1>1, <1>4, <1>5
  <2>2. part[i] = text[n + (a + i - 1)] /\ SubSeq(t, a, b)[i] = t[a + i - 1]
    BY <1>3, <1>4, <1>5, <2>1
  <2> QED  BY <1>1, <2>1, <2>2
<1>7. part = SubSeq(t, a, b)
  BY <1>3, <1>4, <1>5, <1>6, SameSeq DEF Text
<1> QED  BY <1>7 DEF part, text, n

\* The lines of a text are its first line and the lines of the rest.
LEMMA LinesFirst ==
    ASSUME NEW l \in Seq(Word), NEW e \in LineEnd, NEW t \in Text
    PROVE  Lines(l \o <<e>> \o t) = <<l>> \o Lines(t)
<1> DEFINE text == l \o <<e>> \o t
           n == Len(l) + 1
           N == Cardinality(Ends(t))
<1>1. /\ text \in Text /\ Len(text) = n + Len(t) /\ n \in Nat \ {0} /\ Len(t) \in Nat
      /\ n = Len(l) + 1 /\ N \in Nat /\ l \in Text
  BY LineFirst, EndsFinite DEF Text
<1>2. /\ Cardinality(Ends(text)) = N + 1 /\ EndOf(text, 1) = n
      /\ \A k \in 1 .. N : EndOf(text, k + 1) = n + EndOf(t, k)
  BY EndsFirst
<1>3. \A a \in Nat \ {0}, b \in Int :
         b <= Len(t) => SubSeq(text, n + a, n + b) = SubSeq(t, a, b)
  BY PartOfRest
<1>4. SubSeq(text, 1, n - 1) = l
  <2>1. \A i \in 1 .. Len(l) : text[i] = l[i]
    BY LineFirst
  <2> HIDE DEF text, n
  <2>2. n - 1 = Len(l) /\ n - 1 <= Len(text) /\ Len(l) \in Nat /\ n - 1 \in Int
    BY <1>1
  <2>3. /\ SubSeq(text, 1, n - 1) \in Text /\ Len(SubSeq(text, 1, n - 1)) = Len(l)
        /\ \A i \in 1 .. Len(l) : SubSeq(text, 1, n - 1)[i] = text[i]
    <3>1. /\ SubSeq(text, 1, n - 1) \in Text
          /\ Len(SubSeq(text, 1, n - 1)) = IF 1 <= n - 1 THEN n - 1 - 1 + 1 ELSE 0
          /\ \A i \in 1 .. n - 1 - 1 + 1 : SubSeq(text, 1, n - 1)[i] = text[1 + i - 1]
      BY <1>1, <2>2, Part DEF Text
    <3> QED  BY <3>1, <2>2
  <2> QED  BY <1>1, <2>1, <2>3, SameSeq DEF Text
<1> HIDE DEF text, n, N
<1>5. \A k \in 1 .. N : EndOf(t, k) \in 1 .. Len(t)
  BY Places DEF N
<1>6. \A k \in 1 .. N + 1 : From(t, k) \in 1 .. Len(t) + 1
  BY Places DEF N
<1>7. ASSUME NEW k \in 1 .. N + 1 PROVE From(text, k + 1) = n + From(t, k)
  <2>1. CASE k = 1
    BY <1>1, <1>2, <2>1 DEF From
  <2>2. CASE k # 1
    <3>1. k - 1 \in 1 .. N /\ k - 1 + 1 = k /\ k + 1 # 1 /\ k + 1 - 1 = k
      BY <1>1, <2>2
    <3>2. From(text, k + 1) = EndOf(text, k) + 1 /\ From(t, k) = EndOf(t, k - 1) + 1
      BY <2>2, <3>1 DEF From
    <3>3. EndOf(text, k) = n + EndOf(t, k - 1) /\ EndOf(t, k - 1) \in 1 .. Len(t)
      BY <1>2, <1>5, <3>1
    <3> QED  BY <1>1, <3>2, <3>3
  <2> QED  BY <2>1, <2>2
<1>8. ASSUME NEW k \in 1 .. N PROVE Closed(text)[k + 1] = Closed(t)[k]
  <2>1. k + 1 \in 1 .. N + 1 /\ k \in 1 .. N + 1
    BY <1>1
  <2>2. Closed(text)[k + 1] = SubSeq(text, From(text, k + 1), EndOf(text, k + 1) - 1)
    BY <1>2, <2>1 DEF Closed
  <2>3. From(text, k + 1) = n + From(t, k) /\ EndOf(text, k + 1) = n + EndOf(t, k)
    BY <1>2, <1>7, <2>1
  <2>4. /\ From(t, k) \in Nat \ {0} /\ EndOf(t, k) - 1 \in Int /\ EndOf(t, k) - 1 <= Len(t)
        /\ n + EndOf(t, k) - 1 = n + (EndOf(t, k) - 1)
    BY <1>1, <1>5, <1>6, <2>1
  <2>5. SubSeq(text, n + From(t, k), n + (EndOf(t, k) - 1)) = SubSeq(t, From(t, k), EndOf(t, k) - 1)
    BY <1>3, <2>4, Zenon
  <2>6. EndOf(text, k + 1) - 1 = n + (EndOf(t, k) - 1)
    BY <1>1, <1>5, <2>3
  <2>7. Closed(text)[k + 1] = SubSeq(t, From(t, k), EndOf(t, k) - 1)
    BY <2>2, <2>3, <2>5, <2>6, Zenon
  <2> QED  BY <2>7 DEF Closed, N
<1>9. Closed(text)[1] = l
  <2>1. 1 \in 1 .. N + 1
    BY <1>1
  <2>2. Closed(text)[1] = SubSeq(text, From(text, 1), EndOf(text, 1) - 1)
    BY <1>2, <2>1 DEF Closed
  <2> QED  BY <1>2, <1>4, <2>2 DEF From
<1>10. Rest(text) = Rest(t)
  <2>1. N + 1 \in 1 .. N + 1
    BY <1>1
  <2>2. From(text, N + 1 + 1) = n + From(t, N + 1) /\ From(t, N + 1) \in Nat \ {0}
        /\ Len(t) \in Int /\ Len(t) <= Len(t)
    BY <1>1, <1>6, <1>7, <2>1
  <2>3. Rest(text) = SubSeq(text, n + From(t, N + 1), n + Len(t))
    BY <1>1, <1>2, <2>2 DEF Rest
  <2> QED  BY <1>3, <2>2, <2>3 DEF Rest, N
<1>11. /\ Closed(t) \in Seq(Text) /\ Closed(text) \in Seq(Text) /\ Rest(t) \in Text
       /\ Len(Closed(t)) = N /\ Len(Closed(text)) = N + 1
  BY <1>1, <1>2, LinesAre DEF N
<1> DEFINE first == <<l>>
<1>12. first \in Seq(Text) /\ Len(first) = 1 /\ first[1] = l
  BY <1>1
<1> HIDE DEF first
<1>13. Closed(text) = first \o Closed(t)
  <2>1. /\ first \o Closed(t) \in Seq(Text) /\ Len(first \o Closed(t)) = 1 + N
        /\ (first \o Closed(t))[1] = l
        /\ \A i \in 1 .. N : (first \o Closed(t))[1 + i] = Closed(t)[i]
    <3> DEFINE c == Closed(t)
    <3>1. c \in Seq(Text) /\ Len(c) = N
      BY <1>11
    <3> HIDE DEF c
    <3>2. /\ first \o c \in Seq(Text)
          /\ Len(first \o c) = Len(first) + Len(c)
          /\ \A i \in 1 .. Len(first) : (first \o c)[i] = first[i]
          /\ \A i \in 1 .. Len(c) : (first \o c)[Len(first) + i] = c[i]
      <4>1. first \in Seq(Text) /\ c \in Seq(Text)
        BY <1>12, <3>1
      <4> QED  BY <4>1, Concat
    <3>3. /\ first \o c \in Seq(Text) /\ Len(first \o c) = 1 + N
          /\ (first \o c)[1] = l
          /\ \A i \in 1 .. N : (first \o c)[1 + i] = c[i]
      BY <1>12, <3>1, <3>2
    <3> QED  BY <3>3 DEF c
  <2>2. ASSUME NEW i \in 1 .. N + 1 PROVE Closed(text)[i] = (first \o Closed(t))[i]
    <3>1. CASE i = 1
      BY <1>9, <2>1, <3>1
    <3>2. CASE i # 1
      <4>1. i - 1 \in 1 .. N /\ i - 1 + 1 = i /\ 1 + (i - 1) = i
        BY <1>1, <3>2
      <4> QED  BY <1>8, <2>1, <4>1
    <3> QED  BY <3>1, <3>2
  <2>3. Len(Closed(text)) = Len(first \o Closed(t))
    BY <1>1, <1>11, <2>1
  <2> HIDE DEF Text
  <2> QED  BY <1>11, <2>1, <2>2, <2>3, SameSeq
<1>14. Lines(t) = IF Rest(t) = <<>> THEN Closed(t) ELSE Append(Closed(t), Rest(t))
  BY LinesAre
<1>15. Lines(text) = IF Rest(t) = <<>> THEN first \o Closed(t)
                     ELSE Append(first \o Closed(t), Rest(t))
  BY <1>1, <1>10, <1>13, LinesAre
<1>16. Append(first \o Closed(t), Rest(t)) = first \o Append(Closed(t), Rest(t))
  <2> DEFINE c == Closed(t)
             r == Rest(t)
  <2>1. c \in Seq(Text) /\ r \in Text
    BY <1>11
  <2> HIDE DEF c, r, Text
  <2>2. Append(first \o c, r) = first \o Append(c, r)
    BY <1>12, <2>1
  <2> QED  BY <2>2 DEF c, r
<1>17. Lines(text) = first \o Lines(t)
  BY <1>14, <1>15, <1>16
<1> QED  BY <1>17 DEF text, first

-----------------------------------------------------------------------------
(* FlattenSeq is a recursive function on 1 .. Len(ss).                     *)

FlatStep(ss, f, i) == IF i = 1 THEN ss[i] ELSE f[i - 1] \o ss[i]
IsFlat(ss, f, n) == f = [i \in 1 .. n |-> FlatStep(ss, f, i)]

\* The recursive function exists: it is built for one n after the other.
LEMMA FlatExists ==
    ASSUME NEW ss, NEW m \in Nat
    PROVE  \E f : IsFlat(ss, f, m)
<1> DEFINE T == {n \in Nat : \E f : IsFlat(ss, f, n)}
<1>1. 0 \in T
  <2> DEFINE f == [i \in 1 .. 0 |-> ss]
  <2>1. f = [i \in 1 .. 0 |-> FlatStep(ss, f, i)]
    OBVIOUS
  <2> HIDE DEF f
  <2> QED  BY <2>1 DEF IsFlat
<1>2. ASSUME NEW n \in T PROVE n + 1 \in T
  <2>1. n \in Nat /\ n + 1 \in Nat
    OBVIOUS
  <2>2. PICK g : g = [i \in 1 .. n |-> FlatStep(ss, g, i)]
    BY DEF IsFlat
  <2> DEFINE f == [i \in 1 .. n + 1 |-> FlatStep(ss, g, i)]
  <2>3. \A i \in 1 .. n : i \in 1 .. n + 1
    BY <2>1
  <2>4. \A i \in 1 .. n + 1 : i # 1 => i - 1 \in 1 .. n
    BY <2>1
  <2>5. \A i \in 1 .. n : f[i] = g[i]
    BY <2>2, <2>3
  <2>6. f = [i \in 1 .. n + 1 |-> FlatStep(ss, g, i)]
    OBVIOUS
  <2> HIDE DEF f
  <2>7. \A i \in 1 .. n + 1 : FlatStep(ss, f, i) = FlatStep(ss, g, i)
    BY <2>4, <2>5 DEF FlatStep
  <2>8. f = [i \in 1 .. n + 1 |-> FlatStep(ss, f, i)]
    BY <2>6, <2>7
  <2> QED  BY <2>1, <2>8 DEF IsFlat
<1>3. m \in T
  <2>1. T \in SUBSET Nat
    OBVIOUS
  <2> HIDE DEF T
  <2> QED  BY <2>1, <1>1, <1>2, SetOfNaturals
<1> QED  BY <1>3

\* FlattenSeq appends the sequences of ss one after the other.
LEMMA FlattenIs ==
    ASSUME NEW S, NEW ss \in Seq(Seq(S))
    PROVE  \E f \in [0 .. Len(ss) -> Seq(S)] :
              /\ f[0] = <<>>
              /\ \A i \in 1 .. Len(ss) : f[i] = f[i - 1] \o ss[i]
              /\ FlattenSeq(ss) = f[Len(ss)]
<1> DEFINE n == Len(ss)
           g == CHOOSE h : IsFlat(ss, h, n)
           f == [i \in 0 .. n |-> IF i = 0 THEN <<>> ELSE g[i]]
<1>1. n \in Nat /\ \A i \in 1 .. n : ss[i] \in Seq(S)
  OBVIOUS
<1>2. FlattenSeq(ss) = IF n = 0 THEN ss ELSE g[n]
  BY Zenon DEF FlattenSeq, IsFlat, FlatStep
<1>3. n = 0 => ss = <<>>
  OBVIOUS
<1> HIDE DEF n
<1>4. IsFlat(ss, g, n)
  BY <1>1, FlatExists
<1> HIDE DEF g
<1>5. f[0] = <<>> /\ \A i \in 1 .. n : f[i] = FlatStep(ss, g, i) /\ f[i] = g[i]
  BY <1>1, <1>4 DEF IsFlat
<1>6. f \in [0 .. n -> {f[i] : i \in 0 .. n}]
  OBVIOUS
<1> HIDE DEF f
<1>7. ASSUME NEW i \in 1 .. n, f[i - 1] \in Seq(S)
      PROVE  f[i] = f[i - 1] \o ss[i] /\ f[i] \in Seq(S)
  <2>1. ss[i] \in Seq(S)
    BY <1>1
  <2>2. CASE i = 1
    <3>1. f[i - 1] = <<>> /\ f[i] = ss[i]
      BY <2>2, <1>5 DEF FlatStep
    <3> QED  BY <2>1, <3>1
  <2>3. CASE i # 1
    <3>1. i - 1 \in 1 .. n
      BY <1>1, <2>3
    <3>2. f[i] = f[i - 1] \o ss[i]
      BY <2>3, <3>1, <1>5 DEF FlatStep
    <3> QED  BY <1>7, <2>1, <3>2
  <2> QED  BY <2>2, <2>3
<1>71. \A i \in 1 .. n : f[i - 1] \in Seq(S) => f[i] \in Seq(S)
  BY <1>7, Zenon
<1> DEFINE T == {k \in Nat : k <= n => f[k] \in Seq(S)}
<1>8. 0 \in T
  <2>1. <<>> \in Seq(S)
    OBVIOUS
  <2>2. f[0] \in Seq(S)
    BY <1>5, <2>1, Zenon
  <2> QED  BY <2>2
<1>9. ASSUME NEW k \in T PROVE k + 1 \in T
  <2>1. k \in Nat /\ k + 1 \in Nat /\ k + 1 - 1 = k
    OBVIOUS
  <2>2. SUFFICES ASSUME k + 1 <= n PROVE f[k + 1] \in Seq(S)
    BY <2>1
  <2>3. k + 1 \in 1 .. n /\ f[k] \in Seq(S)
    BY <1>1, <2>1, <2>2
  <2>4. ASSUME NEW i \in 1 .. n, i = k + 1 PROVE f[i] \in Seq(S)
    <3>1. i - 1 = k
      BY <2>1, <2>4
    <3>2. f[i - 1] \in Seq(S)
      BY <2>3, <3>1
    <3> QED  BY <1>71, <3>2
  <2> HIDE DEF T
  <2> QED  BY <2>3, <2>4
<1>10. \A k \in Nat : k \in T
  <2>1. T \in SUBSET Nat
    OBVIOUS
  <2> HIDE DEF T
  <2> QED  BY <2>1, <1>8, <1>9, SetOfNaturals
<1>11. \A k \in 0 .. n : f[k] \in Seq(S)
  BY <1>1, <1>10
<1>12. f \in [0 .. n -> Seq(S)]
  BY <1>6, <1>11
<1>13. ASSUME NEW i \in 1 .. n PROVE f[i] = f[i - 1] \o ss[i]
  <2>1. i - 1 \in 0 .. n
    BY <1>1
  <2>2. f[i - 1] \in Seq(S)
    BY <1>11, <2>1
  <2> QED  BY <1>7, <2>2
<1>14. FlattenSeq(ss) = f[n]
  <2>1. CASE n = 0
    BY <2>1, <1>2, <1>3, <1>5
  <2>2. CASE n # 0
    <3>1. n \in 1 .. n
      BY <1>1, <2>2
    <3> QED  BY <2>2, <3>1, <1>2, <1>5
  <2> QED  BY <2>1, <2>2
<1> QED  BY <1>5, <1>12, <1>13, <1>14 DEF n

-----------------------------------------------------------------------------
(* FoldLeft takes the lines of the head one after the other: it is a       *)
(* recursive function on the sets of their places.                         *)

HeadStep(ls, it, s) ==
    IF s = {} THEN NoHeaders ELSE AddHeader(it[s \ {Max(s)}], ls[Max(s)])
IsHeadFold(ls, it, n) == it = [s \in SUBSET (1 .. n) |-> HeadStep(ls, it, s)]

\* The largest of some places.
LEMMA MaxIs ==
    ASSUME NEW n \in Nat, NEW s \in SUBSET (1 .. n), s # {}
    PROVE  Max(s) \in s /\ \A k \in s : k <= Max(s)
<1>1. \E m \in s : \A k \in s : m >= k
  BY Largest
<1>2. Max(s) \in s /\ \A k \in s : Max(s) >= k
  BY <1>1 DEF Max
<1> QED  BY <1>2

\* The recursive function exists: it is built for one n after the other.
LEMMA HeadFoldExists ==
    ASSUME NEW ls, NEW m \in Nat
    PROVE  \E it : IsHeadFold(ls, it, m)
<1> DEFINE T == {n \in Nat : \E it : IsHeadFold(ls, it, n)}
<1>1. 0 \in T
  <2> DEFINE g == [s \in SUBSET (1 .. 0) |-> NoHeaders]
  <2>1. \A s \in SUBSET (1 .. 0) : s = {}
    OBVIOUS
  <2>2. \A s \in SUBSET (1 .. 0) : HeadStep(ls, g, s) = NoHeaders
    BY <2>1 DEF HeadStep
  <2>3. g = [s \in SUBSET (1 .. 0) |-> HeadStep(ls, g, s)]
    BY <2>2
  <2> HIDE DEF g
  <2> QED  BY <2>3 DEF IsHeadFold
<1>2. ASSUME NEW n \in T PROVE n + 1 \in T
  <2>1. n \in Nat /\ n + 1 \in Nat
    OBVIOUS
  <2>2. PICK g : g = [s \in SUBSET (1 .. n) |-> HeadStep(ls, g, s)]
    BY DEF IsHeadFold
  <2> DEFINE f == [s \in SUBSET (1 .. n + 1) |-> HeadStep(ls, g, s)]
  <2>3. ASSUME NEW s \in SUBSET (1 .. n + 1), s # {}
        PROVE  s \ {Max(s)} \in SUBSET (1 .. n)
    <3>1. Max(s) \in s /\ \A k \in s : k <= Max(s)
      BY <2>1, <2>3, MaxIs
    <3>2. ASSUME NEW k \in s, k # Max(s) PROVE k \in 1 .. n
      <4>1. k \in 1 .. n + 1 /\ Max(s) \in 1 .. n + 1 /\ k <= Max(s)
        BY <3>1
      <4> QED  BY <2>1, <3>2, <4>1
    <3> QED  BY <3>2
  <2>4. SUBSET (1 .. n) \subseteq SUBSET (1 .. n + 1)
    <3>1. \A i \in 1 .. n : i \in 1 .. n + 1
      BY <2>1
    <3> QED  BY <3>1
  <2>5. \A s \in SUBSET (1 .. n) : f[s] = g[s]
    BY <2>2, <2>4
  <2>6. f = [s \in SUBSET (1 .. n + 1) |-> HeadStep(ls, g, s)]
    OBVIOUS
  <2> HIDE DEF f
  <2>7. ASSUME NEW s \in SUBSET (1 .. n + 1) PROVE HeadStep(ls, f, s) = HeadStep(ls, g, s)
    <3>1. CASE s = {}
      BY <3>1 DEF HeadStep
    <3>2. CASE s # {}
      <4>1. f[s \ {Max(s)}] = g[s \ {Max(s)}]
        BY <2>3, <2>5, <3>2, Zenon
      <4> QED  BY <4>1, <3>2, Zenon DEF HeadStep
    <3> QED  BY <3>1, <3>2
  <2>8. f = [s \in SUBSET (1 .. n + 1) |-> HeadStep(ls, f, s)]
    BY <2>6, <2>7
  <2> QED  BY <2>1, <2>8 DEF IsHeadFold
<1>3. m \in T
  <2>1. T \in SUBSET Nat
    OBVIOUS
  <2> HIDE DEF T
  <2> QED  BY <2>1, <1>1, <1>2, SetOfNaturals
<1> QED  BY <1>3

\* The headers after the first i lines, for every i.
LEMMA HeadersAre ==
    ASSUME NEW S, NEW ls \in Seq(S)
    PROVE  \E h : /\ h[0] = NoHeaders
                  /\ \A i \in 1 .. Len(ls) : h[i] = AddHeader(h[i - 1], ls[i])
                  /\ FoldLeft(AddHeader, NoHeaders, ls) = h[Len(ls)]
<1> DEFINE n == Len(ls)
           it == CHOOSE f : IsHeadFold(ls, f, n)
           h == [k \in 0 .. n |-> it[1 .. k]]
<1>1. n \in Nat /\ DOMAIN ls = 1 .. n
  OBVIOUS
<1>2. FoldLeft(AddHeader, NoHeaders, ls) = it[1 .. n]
  BY <1>1, Zenon DEF FoldLeft, MapThenFoldSet, IsHeadFold, HeadStep
<1> HIDE DEF n
<1>3. IsHeadFold(ls, it, n)
  BY <1>1, HeadFoldExists
<1> HIDE DEF it
<1>4. \A k \in 0 .. n : 1 .. k \in SUBSET (1 .. n) /\ it[1 .. k] = HeadStep(ls, it, 1 .. k)
  <2>1. \A k \in 0 .. n : 1 .. k \in SUBSET (1 .. n)
    BY <1>1
  <2> QED  BY <1>3, <2>1 DEF IsHeadFold
<1>5. h[0] = NoHeaders
  <2>1. 0 \in 0 .. n /\ 1 .. 0 = {}
    BY <1>1
  <2>2. h[0] = it[1 .. 0]
    BY <2>1
  <2> QED  BY <2>1, <2>2, <1>4 DEF HeadStep
<1>6. ASSUME NEW i \in 1 .. n PROVE h[i] = AddHeader(h[i - 1], ls[i])
  <2>1. i \in 0 .. n /\ i - 1 \in 0 .. n /\ 1 .. i # {} /\ i \in Nat
    <3>1. i \in 0 .. n /\ i - 1 \in 0 .. n /\ 1 \in 1 .. i /\ i \in Nat
      BY <1>1
    <3> QED  BY <3>1
  <2>2. Max(1 .. i) = i
    <3>1. Max(1 .. i) \in 1 .. i /\ \A k \in 1 .. i : k <= Max(1 .. i)
      BY <2>1, MaxIs
    <3>2. i \in 1 .. i
      BY <2>1
    <3> QED  BY <3>1, <3>2, <2>1
  <2>3. (1 .. i) \ {i} = 1 .. i - 1
    BY <2>1
  <2>4. it[1 .. i] = AddHeader(it[(1 .. i) \ {Max(1 .. i)}], ls[Max(1 .. i)])
    BY <1>4, <2>1, Zenon DEF HeadStep
  <2>5. it[1 .. i] = AddHeader(it[1 .. i - 1], ls[i])
    BY <2>2, <2>3, <2>4
  <2> QED  BY <2>1, <2>5, Zenon
<1>7. h[n] = it[1 .. n]
  BY <1>1
<1> HIDE DEF h
<1> QED  BY <1>2, <1>5, <1>6, <1>7 DEF n

-----------------------------------------------------------------------------
(* The body: its lines, put together again.                                *)

\* What join("\n") puts together.
Glued(lines) == [i \in DOMAIN lines |-> IF i = 1 THEN lines[1] ELSE <<"LF">> \o lines[i]]

\* They are texts, one for each line.
LEMMA GluedAre ==
    ASSUME NEW ls \in Seq(Text)
    PROVE  /\ Glued(ls) \in Seq(Text) /\ Len(Glued(ls)) = Len(ls)
           /\ \A i \in 1 .. Len(ls) :
                 Glued(ls)[i] = IF i = 1 THEN ls[1] ELSE <<"LF">> \o ls[i]
           /\ Join(ls) = FlattenSeq(Glued(ls))
<1>1. Len(ls) \in Nat /\ DOMAIN ls = 1 .. Len(ls) /\ \A i \in 1 .. Len(ls) : ls[i] \in Text
  OBVIOUS
<1>2. <<"LF">> \in Text
  BY DEF Text, LineEnd
<1>3. ASSUME NEW i \in 1 .. Len(ls) PROVE <<"LF">> \o ls[i] \in Text
  <2>1. ls[i] \in Text
    BY <1>1
  <2> QED  BY <1>2, <2>1, Concat DEF Text
<1>4. /\ Glued(ls) \in [1 .. Len(ls) -> Text]
      /\ \A i \in 1 .. Len(ls) : Glued(ls)[i] = IF i = 1 THEN ls[1] ELSE <<"LF">> \o ls[i]
  BY <1>1, <1>3 DEF Glued
<1>5. Glued(ls) \in Seq(Text) /\ Len(Glued(ls)) = Len(ls)
  BY <1>1, <1>4, FunctionSeq
<1>6. Join(ls) = FlattenSeq(Glued(ls))
  BY Zenon DEF Join, Glued
<1> QED  BY <1>4, <1>5, <1>6

\* The lines are appended one after the other.
LEMMA JoinIs ==
    ASSUME NEW ls \in Seq(Text)
    PROVE  \E f \in [0 .. Len(ls) -> Seq(Word \cup LineEnd)] :
              /\ f[0] = <<>> /\ Join(ls) = f[Len(ls)]
              /\ \A i \in 1 .. Len(ls) :
                    f[i] = f[i - 1] \o (IF i = 1 THEN ls[1] ELSE <<"LF">> \o ls[i])
<1> DEFINE ss == Glued(ls)
           W == Word \cup LineEnd
<1>1. /\ ss \in Seq(Seq(W)) /\ Len(ss) = Len(ls)
      /\ \A i \in 1 .. Len(ls) : ss[i] = IF i = 1 THEN ls[1] ELSE <<"LF">> \o ls[i]
      /\ Join(ls) = FlattenSeq(ss)
  BY GluedAre DEF Text
<1> HIDE DEF ss, W
<1>2. PICK f \in [0 .. Len(ss) -> Seq(W)] :
         /\ f[0] = <<>>
         /\ \A i \in 1 .. Len(ss) : f[i] = f[i - 1] \o ss[i]
         /\ FlattenSeq(ss) = f[Len(ss)]
  BY <1>1, FlattenIs
<1>3. f \in [0 .. Len(ls) -> Seq(W)] /\ f[0] = <<>> /\ Join(ls) = f[Len(ls)]
  BY <1>1, <1>2
<1>4. ASSUME NEW i \in 1 .. Len(ls)
      PROVE  f[i] = f[i - 1] \o (IF i = 1 THEN ls[1] ELSE <<"LF">> \o ls[i])
  <2>1. f[i] = f[i - 1] \o ss[i] /\ ss[i] = IF i = 1 THEN ls[1] ELSE <<"LF">> \o ls[i]
    BY <1>1, <1>2
  <2> QED  BY <2>1, Zenon
<1> QED  BY <1>3, <1>4 DEF W

\* One line put together is itself.
LEMMA JoinOne ==
    ASSUME NEW l \in Text
    PROVE  Join(<<l>>) = l
<1> DEFINE ls == <<l>>
<1>1. ls \in Seq(Text) /\ Len(ls) = 1 /\ ls[1] = l
  OBVIOUS
<1> HIDE DEF ls
<1>2. PICK f : /\ f[0] = <<>> /\ Join(ls) = f[Len(ls)]
               /\ \A i \in 1 .. Len(ls) :
                     f[i] = f[i - 1] \o (IF i = 1 THEN ls[1] ELSE <<"LF">> \o ls[i])
  BY <1>1, JoinIs, Zenon
<1>3. 1 \in 1 .. Len(ls) /\ 1 - 1 = 0
  BY <1>1
<1>4. f[1] = f[0] \o ls[1]
  BY <1>2, <1>3
<1>5. <<>> \o l = l
  BY DEF Text
<1> QED  BY <1>1, <1>2, <1>4, <1>5 DEF ls

\* A first line put before others.
LEMMA JoinFirst ==
    ASSUME NEW l \in Text, NEW ls \in Seq(Text), ls # <<>>
    PROVE  Join(<<l>> \o ls) = l \o <<"LF">> \o Join(ls)
<1> DEFINE all == <<l>> \o ls
           m == Len(ls)
           a == l \o <<"LF">>
           W == Word \cup LineEnd
<1>1. m \in Nat /\ m >= 1
  OBVIOUS
<1>2. /\ all \in Seq(Text) /\ Len(all) = 1 + m /\ all[1] = l
      /\ \A i \in 1 .. m : all[1 + i] = ls[i]
  BY ConsIs
<1>3. \A i \in 1 .. m : ls[i] \in Seq(W)
  BY DEF Text
<1>4. <<"LF">> \in Seq(W) /\ l \in Seq(W)
  BY DEF Text, LineEnd
<1>5. a \in Seq(W)
  BY <1>4, Concat
<1>6. PICK f \in [0 .. Len(all) -> Seq(W)] :
         /\ f[0] = <<>> /\ Join(all) = f[Len(all)]
         /\ \A i \in 1 .. Len(all) :
               f[i] = f[i - 1] \o (IF i = 1 THEN all[1] ELSE <<"LF">> \o all[i])
  <2> HIDE DEF all
  <2> QED  BY <1>2, JoinIs
<1>7. PICK g \in [0 .. m -> Seq(W)] :
         /\ g[0] = <<>> /\ Join(ls) = g[m]
         /\ \A i \in 1 .. m :
               g[i] = g[i - 1] \o (IF i = 1 THEN ls[1] ELSE <<"LF">> \o ls[i])
  BY JoinIs
<1> HIDE DEF all, m, a, W
<1>8. f[1] = l /\ g[1] = ls[1]
  <2>1. 1 \in 1 .. Len(all) /\ 1 \in 1 .. m /\ 1 - 1 = 0
    BY <1>1, <1>2
  <2>2. f[1] = <<>> \o l
    BY <1>2, <1>6, <2>1
  <2>6. g[1] = <<>> \o ls[1]
    BY <1>7, <2>1
  <2>3. l \in Seq(W) /\ ls[1] \in Seq(W)
    BY <1>3, <1>4, <2>1
  <2>4. <<>> \o l = l
    BY <2>3
  <2>5. <<>> \o ls[1] = ls[1]
    BY <2>3
  <2> QED  BY <2>2, <2>4, <2>5, <2>6
<1>9. ASSUME NEW i \in 1 .. m
       PROVE  f[1 + i] = f[i] \o (<<"LF">> \o ls[i])
  <2>1. 1 + i \in 1 .. Len(all) /\ (1 + i) - 1 = i /\ 1 + i # 1
    BY <1>1, <1>2
  <2>2. f[1 + i] = f[(1 + i) - 1] \o (<<"LF">> \o all[1 + i])
    BY <1>6, <2>1, Zenon
  <2>3. all[1 + i] = ls[i]
    BY <1>2
  <2> QED  BY <2>1, <2>2, <2>3
<1> DEFINE T == {k \in Nat : k + 1 <= m => f[1 + (k + 1)] = a \o g[k + 1]}
<1>10. 0 \in T
  <2>1. 1 \in 1 .. m /\ 0 + 1 = 1
    BY <1>1
  <2>2. f[1 + 1] = l \o (<<"LF">> \o ls[1])
    BY <1>8, <1>9, <2>1
  <2>3. l \o (<<"LF">> \o ls[1]) = (l \o <<"LF">>) \o ls[1]
    <3> DEFINE x == ls[1]
               y == <<"LF">>
    <3>1. x \in Seq(W) /\ y \in Seq(W)
      BY <1>3, <1>4, <2>1
    <3> HIDE DEF x, y
    <3>2. l \o (y \o x) = (l \o y) \o x
      BY <1>4, <3>1, SMTT(30)
    <3> QED  BY <3>2 DEF x, y
  <2> QED  BY <1>8, <2>1, <2>2, <2>3 DEF a
<1>11. ASSUME NEW k \in T PROVE k + 1 \in T
  <2>1. k \in Nat /\ k + 1 \in Nat
    OBVIOUS
  <2>2. SUFFICES ASSUME k + 1 + 1 <= m PROVE f[1 + (k + 1 + 1)] = a \o g[k + 1 + 1]
    BY <2>1
  <2>3. f[1 + (k + 1)] = a \o g[k + 1]
    <3>1. k + 1 <= m
      BY <1>1, <2>1, <2>2
    <3> QED  BY <3>1, Zenon
  <2>4. ASSUME NEW i \in 2 .. m, i = k + 1 + 1 PROVE f[1 + i] = a \o g[i]
    <3>1. i \in 1 .. m /\ i - 1 = k + 1 /\ i = 1 + (k + 1) /\ k + 1 \in 0 .. m
      BY <1>1, <2>1, <2>4
    <3> DEFINE c == <<"LF">> \o ls[i]
    <3>2. f[1 + i] = f[i] \o c /\ f[i] = a \o g[k + 1]
      BY <1>9, <2>3, <3>1
    <3>3. g[i] = g[k + 1] \o c
      <4>1. i # 1
        OBVIOUS
      <4>2. g[i] = g[i - 1] \o c
        BY <1>7, <3>1, <4>1, Zenon
      <4> QED  BY <3>1, <4>2
    <3>4. c \in Seq(W) /\ g[k + 1] \in Seq(W)
      <4>1. ls[i] \in Seq(W)
        BY <1>3, <3>1
      <4>2. c \in Seq(W)
        BY <1>4, <4>1, Concat
      <4> QED  BY <3>1, <4>2
    <3> HIDE DEF c
    <3> DEFINE b == g[k + 1]
    <3>5. b \in Seq(W)
      BY <3>4
    <3> HIDE DEF b
    <3>6. (a \o b) \o c = a \o (b \o c)
      BY <1>5, <3>4, <3>5, SMTT(30)
    <3> QED  BY <3>2, <3>3, <3>6 DEF b
  <2>5. k + 1 + 1 \in 2 .. m
    BY <1>1, <2>1, <2>2
  <2> QED  BY <2>4, <2>5
<1>12. f[1 + m] = a \o g[m]
  <2>1. T \in SUBSET Nat /\ m - 1 \in Nat /\ (m - 1) + 1 = m
    BY <1>1
  <2>2. m - 1 \in T
    <3> HIDE DEF T
    <3> QED  BY <2>1, <1>10, <1>11, SetOfNaturals
  <2> QED  BY <1>1, <2>1, <2>2
<1> QED  BY <1>2, <1>6, <1>7, <1>12 DEF all, a

\* A text is one line, or a line, its end, and a shorter text.
LEMMA Split ==
    ASSUME NEW b \in Text
    PROVE  \/ b \in Seq(Word)
           \/ \E l \in Seq(Word), e \in LineEnd, t \in Text :
                 b = l \o <<e>> \o t /\ Len(t) < Len(b)
<1> DEFINE n == Len(b)
           W == Word \cup LineEnd
<1>1. b \in Seq(W) /\ n \in Nat /\ DOMAIN b = 1 .. n /\ \A i \in 1 .. n : b[i] \in W
  BY DEF Text
<1>2. CASE Ends(b) = {}
  <2>1. \A i \in 1 .. n : b[i] \in Word
    BY <1>1, <1>2 DEF Ends
  <2>2. b \in [1 .. n -> Word]
    <3>1. b \in [1 .. n -> W]
      BY <1>1
    <3> HIDE DEF n, W
    <3> QED  BY <2>1, <3>1
  <2> QED  BY <1>1, <2>2, FunctionSeq
<1>3. CASE Ends(b) # {}
  <2>1. Ends(b) \in SUBSET Nat
    BY <1>1 DEF Ends
  <2>2. PICK m \in Ends(b) : \A i \in Ends(b) : m <= i
    BY <1>3, <2>1, Smallest
  <2>3. m \in 1 .. n /\ b[m] \in LineEnd /\ \A i \in 1 .. m - 1 : i \in 1 .. n /\ b[i] \in Word
    BY <1>1, <2>2 DEF Ends
  <2> DEFINE l == SubSeq(b, 1, m - 1)
             t == SubSeq(b, m + 1, n)
             e == b[m]
  <2>4. /\ l \in Seq(W) /\ Len(l) = m - 1 /\ \A i \in 1 .. m - 1 : l[i] = b[i]
    <3>1. 1 \in Nat \ {0} /\ m - 1 \in Int /\ m - 1 <= n /\ (m - 1) - 1 + 1 = m - 1
      BY <1>1, <2>3
    <3>2. /\ l \in Seq(W) /\ Len(l) = IF 1 <= m - 1 THEN (m - 1) - 1 + 1 ELSE 0
          /\ \A i \in 1 .. (m - 1) - 1 + 1 : l[i] = b[1 + i - 1]
      BY <1>1, <3>1, Part
    <3>3. \A i \in 1 .. m - 1 : 1 + i - 1 = i
      BY <1>1, <2>3
    <3> HIDE DEF l, n
    <3> QED  BY <2>3, <3>1, <3>2, <3>3
  <2>5. /\ t \in Seq(W) /\ Len(t) = n - m /\ \A i \in 1 .. n - m : t[i] = b[m + i]
    <3>1. m + 1 \in Nat \ {0} /\ n \in Int /\ n <= n /\ n - (m + 1) + 1 = n - m
      BY <1>1, <2>3
    <3>2. /\ t \in Seq(W) /\ Len(t) = IF m + 1 <= n THEN n - (m + 1) + 1 ELSE 0
          /\ \A i \in 1 .. n - (m + 1) + 1 : t[i] = b[(m + 1) + i - 1]
      BY <1>1, <3>1, Part
    <3>3. \A i \in 1 .. n - m : (m + 1) + i - 1 = m + i
      BY <1>1, <2>3
    <3> HIDE DEF t, n
    <3> QED  BY <1>1, <2>3, <3>1, <3>2, <3>3
  <2> HIDE DEF l, t, n
  <2>6. l \in Seq(Word)
    BY <1>1, <2>3, <2>4
  <2>7. <<e>> \in Seq(W)
    BY <2>3
  <2>8. b = l \o <<e>> \o t
    <3> DEFINE x == <<e>>
               y == l \o x
               s == y \o t
    <3>1. x \in Seq(W) /\ Len(x) = 1 /\ x[1] = e
      BY <2>7
    <3> HIDE DEF x
    <3>8. l \in Seq(W) /\ x \in Seq(W)
      BY <2>4, <3>1
    <3>2. /\ y \in Seq(W) /\ Len(y) = Len(l) + Len(x)
          /\ \A i \in 1 .. Len(l) : y[i] = l[i]
          /\ \A i \in 1 .. Len(x) : y[Len(l) + i] = x[i]
      <4> HIDE DEF W
      <4> QED  BY <3>8, Concat
    <3> HIDE DEF y
    <3>3. /\ s \in Seq(W) /\ Len(s) = Len(y) + Len(t)
          /\ \A i \in 1 .. Len(y) : s[i] = y[i]
          /\ \A i \in 1 .. Len(t) : s[Len(y) + i] = t[i]
      BY <2>5, <3>2, Concat
    <3> HIDE DEF s
    <3>4. Len(y) = m /\ Len(s) = n /\ \A i \in 1 .. m - 1 : y[i] = b[i]
      BY <1>1, <2>3, <2>4, <2>5, <3>1, <3>2, <3>3
    <3>5. y[m] = b[m]
      <4>1. 1 \in 1 .. Len(x) /\ Len(l) + 1 = m
        BY <1>1, <2>3, <2>4, <3>1
      <4> QED  BY <3>1, <3>2, <4>1
    <3>6. ASSUME NEW i \in 1 .. n PROVE s[i] = b[i]
      <4>1. CASE i <= m
        <5>1. i \in 1 .. Len(y) /\ (i = m \/ i \in 1 .. m - 1)
          BY <1>1, <2>3, <3>4, <4>1
        <5> QED  BY <3>3, <3>4, <3>5, <5>1
      <4>2. CASE ~(i <= m)
        <5>1. i - m \in 1 .. n - m /\ i - m \in 1 .. Len(t) /\ m + (i - m) = i
          BY <1>1, <2>3, <2>5, <4>2
        <5>2. s[m + (i - m)] = t[i - m] /\ t[i - m] = b[m + (i - m)]
          BY <2>5, <3>3, <3>4, <5>1
        <5> QED  BY <5>1, <5>2
      <4> QED  BY <4>1, <4>2
    <3>7. s = b
      BY <1>1, <3>3, <3>4, <3>6, SameSeq DEF n
    <3> QED  BY <3>7 DEF s, y, x
  <2>9. t \in Text /\ Len(t) < Len(b)
    BY <1>1, <2>3, <2>5 DEF Text, n
  <2> QED  BY <2>3, <2>6, <2>8, <2>9
<1> QED  BY <1>2, <1>3

\* A body that survives parse(): it has no CRLF, and no line end at its end.
Plain(b) ==
    /\ \A i \in 1 .. Len(b) : b[i] # "CRLF"
    /\ b # <<>> => b[Len(b)] # "LF"

\* The lines of a plain body, joined again, are the body.
LEMMA BodyKept ==
    ASSUME NEW body \in Text, Plain(body), body # <<>>
    PROVE  Lines(body) # <<>> /\ Join(Lines(body)) = body
<1> DEFINE kept(b) == Lines(b) # <<>> /\ Join(Lines(b)) = b
           T == {n \in Nat : \A b \in Text : Len(b) <= n /\ b # <<>> /\ Plain(b) => kept(b)}
<1> HIDE DEF kept
<1>1. 0 \in T
  <2>1. \A b \in Text : Len(b) <= 0 => b = <<>>
    BY DEF Text
  <2> QED  BY <2>1
<1>2. ASSUME NEW n \in T PROVE n + 1 \in T
  <2>1. n \in Nat /\ \A b \in Text : Len(b) <= n /\ b # <<>> /\ Plain(b) => kept(b)
    OBVIOUS
  <2>2. SUFFICES ASSUME NEW b \in Text, Len(b) <= n + 1, b # <<>>, Plain(b) PROVE kept(b)
    BY <2>1
  <2> HIDE DEF T
  <2>3. CASE b \in Seq(Word)
    <3>1. Lines(b) = <<b>> /\ Join(<<b>>) = b
      BY <2>2, <2>3, LinesWords, JoinOne
    <3>2. <<b>> # <<>>
      OBVIOUS
    <3> QED  BY <3>1, <3>2 DEF kept
  <2>4. CASE \E l \in Seq(Word), e \in LineEnd, t \in Text :
                b = l \o <<e>> \o t /\ Len(t) < Len(b)
    <3>1. PICK l \in Seq(Word), e \in LineEnd, t \in Text :
                 b = l \o <<e>> \o t /\ Len(t) < Len(b)
      BY <2>4
    <3> DEFINE W == Word \cup LineEnd
               x == <<e>>
               y == l \o x
    <3>2. /\ l \in Seq(W) /\ x \in Seq(W) /\ t \in Seq(W) /\ b \in Seq(W)
          /\ Len(l) \in Nat /\ Len(t) \in Nat /\ Len(b) \in Nat
      BY DEF Text
    <3>3. Len(x) = 1 /\ x[1] = e
      OBVIOUS
    <3> HIDE DEF x, W
    <3>4. /\ y \in Seq(W) /\ Len(y) = Len(l) + Len(x)
          /\ \A i \in 1 .. Len(x) : y[Len(l) + i] = x[i]
      BY <3>2, Concat
    <3>5. b = y \o t
      BY <3>1 DEF x
    <3> HIDE DEF y
    <3>6. /\ Len(b) = Len(y) + Len(t)
          /\ \A i \in 1 .. Len(y) : b[i] = y[i]
          /\ \A i \in 1 .. Len(t) : b[Len(y) + i] = t[i]
      <4> DEFINE s == y \o t
      <4>1. /\ Len(s) = Len(y) + Len(t)
            /\ \A i \in 1 .. Len(y) : s[i] = y[i]
            /\ \A i \in 1 .. Len(t) : s[Len(y) + i] = t[i]
        <5>1. y \in Seq(W) /\ t \in Seq(W)
          BY <3>2, <3>4
        <5> QED  BY <5>1, Concat
      <4> HIDE DEF s
      <4>2. b = s
        BY <3>5 DEF s
      <4> QED  BY <4>1, <4>2
    <3>7. b[Len(y)] = e
      <4>1. 1 \in 1 .. Len(x) /\ Len(l) + 1 = Len(y) /\ Len(y) \in 1 .. Len(y)
        BY <3>2, <3>3, <3>4
      <4> QED  BY <3>3, <3>4, <3>6, <4>1
    <3>8. Len(y) \in 1 .. Len(b) /\ \A i \in 1 .. Len(t) : Len(y) + i \in 1 .. Len(b)
      BY <3>2, <3>3, <3>4, <3>6
    <3>9. e = "LF"
      BY <2>2, <3>7, <3>8 DEF Plain, LineEnd
    <3>10. t # <<>>
      <4>1. SUFFICES ASSUME t = <<>> PROVE FALSE
        OBVIOUS
      <4>2. Len(t) = 0
        BY <4>1
      <4>3. Len(b) = Len(y)
        BY <3>2, <3>3, <3>4, <3>6, <4>2
      <4> QED  BY <2>2, <3>7, <3>9, <4>3 DEF Plain
    <3>11. Plain(t)
      <4>1. \A i \in 1 .. Len(t) : t[i] # "CRLF"
        BY <2>2, <3>6, <3>8 DEF Plain
      <4>2. Len(t) \in 1 .. Len(t) /\ Len(y) + Len(t) = Len(b)
        BY <3>2, <3>6, <3>10
      <4>3. t[Len(t)] = b[Len(b)]
        BY <3>6, <4>2
      <4> QED  BY <2>2, <4>1, <4>3 DEF Plain
    <3>12. kept(t)
      <4>1. Len(t) <= n
        BY <2>1, <2>2, <3>1, <3>2
      <4> QED  BY <2>1, <3>10, <3>11, <4>1
    <3>13. Lines(t) \in Seq(Text) /\ Lines(t) # <<>> /\ Join(Lines(t)) = t /\ l \in Text
      BY <3>2, <3>12, LinesAre DEF kept, Text, W
    <3>14. Lines(b) = <<l>> \o Lines(t)
      BY <3>1, LinesFirst
    <3>15. Join(<<l>> \o Lines(t)) = l \o <<"LF">> \o Join(Lines(t))
      BY <3>13, JoinFirst
    <3>16. Join(Lines(b)) = b
      BY <3>1, <3>9, <3>13, <3>14, <3>15
    <3>17. <<l>> \o Lines(t) # <<>>
      <4> DEFINE u == Lines(t)
      <4>1. u \in Seq(Text) /\ l \in Text
        BY <3>13
      <4> HIDE DEF u
      <4>2. Len(<<l>> \o u) = 1 + Len(u) /\ Len(u) \in Nat
        BY <4>1, ConsIs
      <4>3. <<l>> \o u # <<>>
        BY <4>2
      <4> QED  BY <4>3 DEF u
    <3> QED  BY <3>14, <3>16, <3>17 DEF kept
  <2> QED  BY <2>2, <2>3, <2>4, Split
<1>3. Len(body) \in T
  <2>1. T \in SUBSET Nat /\ Len(body) \in Nat
    BY DEF Text
  <2> HIDE DEF T
  <2> QED  BY <2>1, <1>1, <1>2, SetOfNaturals
<1>4. kept(body)
  BY <1>3
<1> QED  BY <1>4 DEF kept
===============================================================================
