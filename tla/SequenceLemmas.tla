--------------------------- MODULE SequenceLemmas ----------------------------
(***************************************************************************)
(* What the proofs about the components have in common: induction over the *)
(* natural numbers, in a form that needs no operator for its property, and *)
(* what Filter makes of a sequence.                                        *)
(***************************************************************************)
EXTENDS Filters, WellFoundedInduction, TLAPS

------------------------------------------------------------------------------
(* Induction *)

\* A set of natural numbers that has any has a least one.
LEMMA Least ==
    ASSUME NEW T \in SUBSET Nat, T # {}
    PROVE  \E x \in T : \A y \in T : x <= y
<1> DEFINE R == OpToRel(<, Nat)
<1>1. IsWellFoundedOn(R, Nat)
  BY NatLessThanWellFounded, Zenon
<1>2. \A x, y \in Nat : y < x => <<y, x>> \in R
  BY Zenon DEF OpToRel
<1> HIDE DEF R
<1>3. PICK x \in T : \A y \in T : ~ (<<y, x>> \in R)
  BY <1>1, WFMin, Zenon
<1>4. ASSUME NEW y \in T PROVE x <= y
  <2>1. x \in Nat /\ y \in Nat /\ ~ (<<y, x>> \in R)
    BY <1>3, Zenon
  <2>2. ~ (y < x)
    BY <2>1, <1>2, Zenon
  <2> QED
    BY <2>1, <2>2
<1> QED
  BY <1>4, Zenon

\* A set that has 0 and every successor has every natural number.
LEMMA SetInduction ==
    ASSUME NEW S, 0 \in S, \A n \in Nat : n \in S => n + 1 \in S
    PROVE  \A n \in Nat : n \in S
<1> SUFFICES ASSUME Nat \ S # {} PROVE FALSE
  BY Zenon
<1>1. PICK x \in Nat \ S : \A y \in Nat \ S : x <= y
  BY Least, Zenon
<1>2. x # 0 /\ x - 1 \in Nat /\ x - 1 \notin Nat \ S
  BY <1>1
<1> QED
  BY <1>1, <1>2

------------------------------------------------------------------------------
(* Sequences *)

\* Two sequences of the same length with the same members are one.
LEMMA SeqEqual ==
    ASSUME NEW S, NEW s \in Seq(S), NEW t \in Seq(S),
           Len(s) = Len(t), \A i \in 1 .. Len(s) : s[i] = t[i]
    PROVE  s = t
<1>1. s = [i \in 1 .. Len(s) |-> s[i]] /\ t = [i \in 1 .. Len(t) |-> t[i]]
  OBVIOUS
<1> QED
  BY <1>1, Zenon

LEMMA ElementOfSeq ==
    ASSUME NEW S, NEW s \in Seq(S), NEW n \in 1 .. Len(s)
    PROVE  s[n] \in S
OBVIOUS

\* A sequence over a set is one over every larger set.
LEMMA SeqMonotonic ==
    ASSUME NEW S, NEW T, NEW s \in Seq(S), S \subseteq T
    PROVE  s \in Seq(T)
<1>1. Len(s) \in Nat /\ s = [i \in 1 .. Len(s) |-> s[i]] /\ \A i \in 1 .. Len(s) : s[i] \in T
  OBVIOUS
<1>2. [i \in 1 .. Len(s) |-> s[i]] \in Seq(T)
  BY <1>1
<1> QED
  BY <1>1, <1>2, Zenon

\* What s \o t is: the members of s, then those of t.
LEMMA ConcatProperties ==
    ASSUME NEW S, NEW s \in Seq(S), NEW t \in Seq(S)
    PROVE  /\ s \o t \in Seq(S)
           /\ Len(s \o t) = Len(s) + Len(t)
           /\ \A i \in 1 .. Len(s) + Len(t) :
                 (s \o t)[i] = IF i <= Len(s) THEN s[i] ELSE t[i - Len(s)]
OBVIOUS

LEMMA ConcatEmptySeq ==
    ASSUME NEW S, NEW s \in Seq(S)
    PROVE  s \o <<>> = s /\ <<>> \o s = s
OBVIOUS

LEMMA ConcatAssociative ==
    ASSUME NEW S, NEW s \in Seq(S), NEW t \in Seq(S), NEW u \in Seq(S)
    PROVE  (s \o t) \o u = s \o (t \o u)
OBVIOUS

\* A prefix and what follows it make up the sequence.
LEMMA PrefixAndRest ==
    ASSUME NEW S, NEW s \in Seq(S), NEW k \in 0 .. Len(s)
    PROVE  SubSeq(s, 1, k) \o SubSeq(s, k + 1, Len(s)) = s
<1>1. Len(s) \in Nat /\ k \in Nat /\ k <= Len(s)
  OBVIOUS
<1>2. SubSeq(s, 1, k) \in Seq(S) /\ Len(SubSeq(s, 1, k)) = k
      /\ \A i \in 1 .. k : SubSeq(s, 1, k)[i] = s[i]
  BY <1>1
<1>3. SubSeq(s, k + 1, Len(s)) \in Seq(S) /\ Len(SubSeq(s, k + 1, Len(s))) = Len(s) - k
      /\ \A i \in 1 .. Len(s) - k : SubSeq(s, k + 1, Len(s))[i] = s[k + i]
  BY <1>1
<1>4. PICK a \in Seq(S) :
          a = SubSeq(s, 1, k) /\ Len(a) = k /\ \A i \in 1 .. k : a[i] = s[i]
  BY <1>2, Zenon
<1>5. PICK b \in Seq(S) :
          /\ b = SubSeq(s, k + 1, Len(s)) /\ Len(b) = Len(s) - k
          /\ \A i \in 1 .. Len(s) - k : b[i] = s[k + i]
  BY <1>3, Zenon
<1>6. /\ a \o b \in Seq(S) /\ Len(a \o b) = Len(a) + Len(b)
      /\ \A i \in 1 .. Len(a) + Len(b) : (a \o b)[i] = IF i <= Len(a) THEN a[i] ELSE b[i - Len(a)]
  BY ConcatProperties, Zenon
<1>7. Len(a) + Len(b) = Len(s)
  <2>1. k + (Len(s) - k) = Len(s)
    BY <1>1
  <2> QED
    BY <1>4, <1>5, <2>1, Zenon
<1>8. ASSUME NEW i \in 1 .. Len(s) PROVE (a \o b)[i] = s[i]
  <2>1. CASE i <= k
    <3>1. i \in 1 .. k
      BY <1>1, <2>1
    <3> QED
      BY <1>4, <1>6, <1>7, <2>1, <3>1, Zenon
  <2>2. CASE ~ i <= k
    <3>1. i - k \in 1 .. Len(s) - k /\ k + (i - k) = i
      BY <1>1, <2>2
    <3>2. b[i - k] = s[i]
      BY <1>5, <3>1, Zenon
    <3> QED
      BY <1>4, <1>6, <1>7, <2>2, <3>2, Zenon
  <2> QED
    BY <2>1, <2>2, Zenon
<1>9. a \o b = s
  BY <1>6, <1>7, <1>8, SeqEqual, Zenon
<1> QED
  BY <1>4, <1>5, <1>9, Zenon

------------------------------------------------------------------------------
(* Filters *)

\* g collects the members of s that are in T, as the recursion of Filter does.
Builds(g, s, T) ==
    /\ g[0] = <<>>
    /\ \A i \in 1 .. Len(s) :
          g[i] = IF s[i] \in T THEN Append(g[i - 1], s[i]) ELSE g[i - 1]

\* There is such a function.
LEMMA SomeBuilds ==
    ASSUME NEW S, NEW s \in Seq(S), NEW T
    PROVE  \E g : g = [i \in 0 .. Len(s) |-> g[i]] /\ Builds(g, s, T)
<1> DEFINE Upto(g, n) ==
             /\ g = [i \in 0 .. n |-> g[i]]
             /\ g[0] = <<>>
             /\ \A i \in 1 .. n :
                   g[i] = IF s[i] \in T THEN Append(g[i - 1], s[i]) ELSE g[i - 1]
           P == {n \in Nat : \E g : Upto(g, n)}
<1>1. 0 \in P
  <2> DEFINE g == [i \in 0 .. 0 |-> <<>>]
  <2>1. Upto(g, 0)
    OBVIOUS
  <2> QED
    BY <2>1, Zenon
<1>2. ASSUME NEW n \in Nat, n \in P PROVE n + 1 \in P
  <2>1. PICK g : Upto(g, n)
    BY <1>2, Zenon
  <2> DEFINE last == IF s[n + 1] \in T THEN Append(g[n], s[n + 1]) ELSE g[n]
             h == [i \in 0 .. n + 1 |-> IF i = n + 1 THEN last ELSE g[i]]
  <2>2. h[0] = <<>> /\ h[n + 1] = last /\ \A i \in 0 .. n : h[i] = g[i]
    BY <2>1
  <2>3. h = [i \in 0 .. n + 1 |-> h[i]]
    BY Zenon
  <2> HIDE DEF h
  <2>4. ASSUME NEW i \in 1 .. n + 1
        PROVE  h[i] = IF s[i] \in T THEN Append(h[i - 1], s[i]) ELSE h[i - 1]
    <3>1. CASE i = n + 1
      <4>1. i - 1 = n /\ h[i - 1] = g[n]
        BY <3>1, <2>2
      <4> QED
        BY <3>1, <4>1, <2>2, Zenon
    <3>2. CASE i # n + 1
      <4>1. i \in 1 .. n /\ i - 1 \in 0 .. n /\ h[i] = g[i] /\ h[i - 1] = g[i - 1]
        BY <3>2, <2>2
      <4> QED
        BY <4>1, <2>1, Zenon
    <3> QED
      BY <3>1, <3>2, Zenon
  <2>5. Upto(h, n + 1)
    BY <2>2, <2>3, <2>4, Zenon
  <2> HIDE DEF Upto
  <2> QED
    BY <2>5
<1> HIDE DEF P
<1>3. Len(s) \in P
  BY <1>1, <1>2, SetInduction
<1> QED
  BY <1>3, Zenon DEF P, Builds

\* Two that do so get the same result.
LEMMA BuildsOne ==
    ASSUME NEW S, NEW s \in Seq(S), NEW T, NEW g, NEW h, Builds(g, s, T), Builds(h, s, T)
    PROVE  g[Len(s)] = h[Len(s)]
<1> DEFINE P == {n \in Nat : n \in 0 .. Len(s) => g[n] = h[n]}
<1>1. 0 \in P
  BY Zenon DEF Builds
<1>2. ASSUME NEW n \in Nat, n \in P PROVE n + 1 \in P
  <2> SUFFICES ASSUME n + 1 \in 0 .. Len(s) PROVE g[n + 1] = h[n + 1]
    OBVIOUS
  <2>1. n + 1 \in 1 .. Len(s) /\ (n + 1) - 1 = n /\ g[n] = h[n]
    BY <1>2
  <2> QED
    BY <2>1, Zenon DEF Builds
<1> HIDE DEF P
<1>3. Len(s) \in P
  BY <1>1, <1>2, SetInduction
<1> QED
  BY <1>3 DEF P

\* Whatever collects the members of s that are in T ends with the filter.
LEMMA FilterIs ==
    ASSUME NEW S, NEW s \in Seq(S), NEW T, NEW h, Builds(h, s, T)
    PROVE  Filter(s, T) = h[Len(s)]
<1> DEFINE Walk(g) == [i \in 0 .. Len(s) |->
                         IF i = 0 THEN <<>>
                         ELSE IF s[i] \in T THEN Append(g[i - 1], s[i]) ELSE g[i - 1]]
           kept == CHOOSE g : g = Walk(g)
<1>1. Filter(s, T) = kept[Len(s)]
  BY Zenon DEF Filter
<1>2. \E g : g = Walk(g)
  <2>1. PICK g : g = [i \in 0 .. Len(s) |-> g[i]] /\ Builds(g, s, T)
    BY SomeBuilds, Zenon
  <2>2. Builds(g, s, T)
    BY <2>1, Zenon
  <2>3. \A i \in 0 .. Len(s) : g[i] = Walk(g)[i]
    BY <2>2 DEF Builds
  <2>4. Walk(g) = [i \in 0 .. Len(s) |-> Walk(g)[i]]
    BY Zenon
  <2> HIDE DEF Walk
  <2>5. g = Walk(g)
    BY <2>1, <2>3, <2>4, Zenon
  <2> QED
    BY <2>5, Zenon
<1>3. kept = Walk(kept)
  BY <1>2, Zenon
<1> HIDE DEF kept
<1>4. \A g : /\ Walk(g)[0] = <<>>
             /\ \A i \in 1 .. Len(s) :
                   Walk(g)[i] = IF s[i] \in T THEN Append(g[i - 1], s[i]) ELSE g[i - 1]
  OBVIOUS
<1> HIDE DEF Walk
<1>5. Builds(kept, s, T)
  BY <1>3, <1>4, Zenon DEF Builds
<1> QED
  BY <1>1, <1>5, BuildsOne, Zenon

\* So there is one, and what it gets is the filter.
LEMMA FilterBuilt ==
    ASSUME NEW S, NEW s \in Seq(S), NEW T
    PROVE  \E g : Builds(g, s, T) /\ Filter(s, T) = g[Len(s)]
BY SomeBuilds, FilterIs, Zenon

\* All along, only members of s that are in T are collected.
LEMMA BuildsType ==
    ASSUME NEW S, NEW s \in Seq(S), NEW T, NEW g, Builds(g, s, T)
    PROVE  \A n \in 0 .. Len(s) : g[n] \in Seq(S \cap T) /\ Len(g[n]) <= n
<1> DEFINE P == {n \in Nat : n \in 0 .. Len(s) => g[n] \in Seq(S \cap T) /\ Len(g[n]) <= n}
<1>1. 0 \in P
  <2>1. g[0] = <<>> /\ <<>> \in Seq(S \cap T) /\ Len(<<>>) <= 0
    BY DEF Builds
  <2>2. g[0] \in Seq(S \cap T) /\ Len(g[0]) <= 0
    BY <2>1, Zenon
  <2> QED
    BY <2>2, Zenon
<1>2. ASSUME NEW n \in Nat, n \in P PROVE n + 1 \in P
  <2> SUFFICES ASSUME n + 1 \in 0 .. Len(s)
               PROVE  g[n + 1] \in Seq(S \cap T) /\ Len(g[n + 1]) <= n + 1
    OBVIOUS
  <2>1. /\ n + 1 \in 1 .. Len(s) /\ (n + 1) - 1 = n /\ s[n + 1] \in S
        /\ g[n] \in Seq(S \cap T) /\ Len(g[n]) <= n
    BY <1>2
  <2>2. g[n + 1] = IF s[n + 1] \in T THEN Append(g[n], s[n + 1]) ELSE g[n]
    BY <2>1, Zenon DEF Builds
  <2> QED
    BY <2>1, <2>2
<1> HIDE DEF P
<1>3. \A n \in Nat : n \in P
  BY <1>1, <1>2, SetInduction, Zenon
<1> QED
  BY <1>3 DEF P

LEMMA FilterType ==
    ASSUME NEW S, NEW s \in Seq(S), NEW T
    PROVE  Filter(s, T) \in Seq(S \cap T) /\ Filter(s, T) \in Seq(S)
             /\ Len(Filter(s, T)) <= Len(s)
<1>1. PICK g : Builds(g, s, T) /\ Filter(s, T) = g[Len(s)]
  BY FilterBuilt, Zenon
<1>2. g[Len(s)] \in Seq(S \cap T) /\ Len(g[Len(s)]) <= Len(s)
  <2>1. \A n \in 0 .. Len(s) : g[n] \in Seq(S \cap T) /\ Len(g[n]) <= n
    BY <1>1, BuildsType, Zenon
  <2>2. Len(s) \in 0 .. Len(s)
    OBVIOUS
  <2> QED
    BY <2>1, <2>2, Zenon
<1>3. Seq(S \cap T) \subseteq Seq(S)
  OBVIOUS
<1> QED
  BY <1>1, <1>2, <1>3, Zenon

LEMMA ConcatAppend ==
    ASSUME NEW S, NEW a \in Seq(S), NEW b \in Seq(S), NEW x \in S
    PROVE  a \o Append(b, x) = Append(a \o b, x)
<1>1. a \o Append(b, x) \in Seq(S) /\ Append(a \o b, x) \in Seq(S)
  OBVIOUS
<1>2. Len(a \o Append(b, x)) = Len(Append(a \o b, x))
  OBVIOUS
<1>3. ASSUME NEW i \in 1 .. Len(a \o Append(b, x))
      PROVE  (a \o Append(b, x))[i] = Append(a \o b, x)[i]
  OBVIOUS
<1> QED
  BY <1>1, <1>2, <1>3, SeqEqual, Zenon

\* A filter goes over a concatenation part by part.
LEMMA FilterConcat ==
    ASSUME NEW S, NEW s \in Seq(S), NEW t \in Seq(S), NEW T
    PROVE  Filter(s \o t, T) = Filter(s, T) \o Filter(t, T)
<1>1. PICK g : Builds(g, s, T) /\ Filter(s, T) = g[Len(s)]
  BY FilterBuilt, Zenon
<1>2. PICK h : Builds(h, t, T) /\ Filter(t, T) = h[Len(t)]
  BY FilterBuilt, Zenon
<1> DEFINE m == Len(s)
           n == Len(t)
           k == [i \in 0 .. m + n |-> IF i <= m THEN g[i] ELSE g[m] \o h[i - m]]
<1>3. /\ m \in Nat /\ n \in Nat /\ s \o t \in Seq(S) /\ Len(s \o t) = m + n
      /\ \A i \in 1 .. m : (s \o t)[i] = s[i]
      /\ \A i \in m + 1 .. m + n : (s \o t)[i] = t[i - m]
  OBVIOUS
<1>4. g[m] \in Seq(S) /\ \A i \in 0 .. n : h[i] \in Seq(S)
  <2>1. Seq(S \cap T) \subseteq Seq(S)
    OBVIOUS
  <2>2. g[m] \in Seq(S \cap T)
    BY <1>1, <1>3, BuildsType
  <2>3. \A i \in 0 .. n : h[i] \in Seq(S \cap T)
    BY <1>2, BuildsType, Zenon
  <2> QED
    BY <2>1, <2>2, <2>3, Zenon
<1>5. h[0] = <<>> /\ g[m] \o <<>> = g[m]
  BY <1>2, <1>4 DEF Builds
<1>6. /\ \A i \in 0 .. m : k[i] = g[i]
      /\ \A i \in m .. m + n : k[i] = g[m] \o h[i - m]
  <2> HIDE DEF m, n
  <2>1. ASSUME NEW i \in 0 .. m PROVE k[i] = g[i]
    <3>1. i \in 0 .. m + n /\ i <= m
      BY <1>3
    <3> QED
      BY <3>1, Zenon
  <2>2. ASSUME NEW i \in m .. m + n PROVE k[i] = g[m] \o h[i - m]
    <3>1. CASE i = m
      <4>1. m \in 0 .. m + n /\ m - m = 0 /\ m <= m
        BY <1>3
      <4> QED
        BY <1>5, <3>1, <4>1, Zenon
    <3>2. CASE i # m
      <4>1. i \in 0 .. m + n /\ ~ (i <= m)
        BY <1>3, <3>2
      <4> QED
        BY <4>1, Zenon
    <3> QED
      BY <3>1, <3>2, Zenon
  <2> QED
    BY <2>1, <2>2, Zenon
<1> HIDE DEF k, m, n
<1>7. Builds(k, s \o t, T)
  <2>1. k[0] = <<>>
    BY <1>1, <1>3, <1>6 DEF Builds
  <2>2. ASSUME NEW i \in 1 .. m
        PROVE  k[i] = IF (s \o t)[i] \in T THEN Append(k[i - 1], (s \o t)[i]) ELSE k[i - 1]
    <3>1. i \in 0 .. m /\ i - 1 \in 0 .. m /\ i \in 1 .. Len(s)
      BY <1>3 DEF m
    <3>2. g[i] = IF s[i] \in T THEN Append(g[i - 1], s[i]) ELSE g[i - 1]
      BY <1>1, <3>1, Zenon DEF Builds
    <3> QED
      BY <1>3, <1>6, <3>1, <3>2, Zenon
  <2>3. ASSUME NEW i \in m + 1 .. m + n
        PROVE  k[i] = IF (s \o t)[i] \in T THEN Append(k[i - 1], (s \o t)[i]) ELSE k[i - 1]
    <3>1. i \in m .. m + n /\ i - 1 \in m .. m + n /\ i - m \in 1 .. Len(t)
            /\ (i - m) - 1 = (i - 1) - m /\ (i - m) - 1 \in 0 .. n
      BY <1>3 DEF n
    <3>2. h[i - m] = IF t[i - m] \in T THEN Append(h[(i - m) - 1], t[i - m])
                     ELSE h[(i - m) - 1]
      BY <1>2, <3>1, Zenon DEF Builds
    <3>3. k[i] = g[m] \o h[i - m] /\ k[i - 1] = g[m] \o h[(i - m) - 1]
      BY <1>6, <3>1, Zenon
    <3>4. t[i - m] \in S /\ h[(i - m) - 1] \in Seq(S) /\ (s \o t)[i] = t[i - m]
      BY <1>3, <1>4, <3>1
    <3>5. g[m] \o Append(h[(i - m) - 1], t[i - m]) = Append(g[m] \o h[(i - m) - 1], t[i - m])
      <4>1. PICK a \in Seq(S), b \in Seq(S), x \in S :
                a = g[m] /\ b = h[(i - m) - 1] /\ x = t[i - m]
        BY <1>4, <3>4, Zenon
      <4>2. a \o Append(b, x) = Append(a \o b, x)
        BY ConcatAppend
      <4> QED
        BY <4>1, <4>2, Zenon
    <3> QED
      BY <3>2, <3>3, <3>4, <3>5, Zenon
  <2>4. \A i \in 1 .. Len(s \o t) : i \in 1 .. m \/ i \in m + 1 .. m + n
    BY <1>3
  <2> QED
    BY <2>1, <2>2, <2>3, <2>4, Zenon DEF Builds
<1>8. Filter(s \o t, T) = k[Len(s \o t)]
  BY <1>3, <1>7, FilterIs, Zenon
<1>9. k[m + n] = g[m] \o h[n]
  <2>1. m + n \in m .. m + n /\ (m + n) - m = n
    BY <1>3
  <2> QED
    BY <1>6, <2>1, Zenon
<1> QED
  BY <1>1, <1>2, <1>3, <1>8, <1>9, Zenon DEF m, n

\* A sequence of one item.
LEMMA FilterOne ==
    ASSUME NEW x, NEW T
    PROVE  Filter(<<x>>, T) = IF x \in T THEN <<x>> ELSE <<>>
<1> DEFINE g == [i \in 0 .. 1 |-> IF i = 0 THEN <<>> ELSE IF x \in T THEN <<x>> ELSE <<>>]
<1>1. <<x>> \in Seq({x}) /\ Len(<<x>>) = 1 /\ <<x>>[1] = x /\ Append(<<>>, x) = <<x>>
  OBVIOUS
<1>2. g[0] = <<>> /\ g[1] = IF x \in T THEN <<x>> ELSE <<>>
  OBVIOUS
<1> HIDE DEF g
<1>3. Builds(g, <<x>>, T)
  <2>1. \A i \in 1 .. 1 : i = 1 /\ i - 1 = 0
    OBVIOUS
  <2> QED
    BY <1>1, <1>2, <2>1, Zenon DEF Builds
<1> QED
  BY <1>1, <1>2, <1>3, FilterIs, Zenon

LEMMA FilterAppend ==
    ASSUME NEW S, NEW s \in Seq(S), NEW x \in S, NEW T
    PROVE  Filter(Append(s, x), T) = IF x \in T THEN Append(Filter(s, T), x) ELSE Filter(s, T)
<1>1. <<x>> \in Seq(S) /\ Append(s, x) = s \o <<x>>
  OBVIOUS
<1>2. Filter(s \o <<x>>, T) = Filter(s, T) \o Filter(<<x>>, T)
  <2> DEFINE t == <<x>>
  <2>1. t \in Seq(S)
    OBVIOUS
  <2> HIDE DEF t
  <2>2. Filter(s \o t, T) = Filter(s, T) \o Filter(t, T)
    BY <2>1, FilterConcat
  <2> QED
    BY <2>2, Zenon DEF t
<1>3. Filter(s, T) \in Seq(S)
  BY FilterType, Zenon
<1>4. Filter(s, T) \o <<x>> = Append(Filter(s, T), x) /\ Filter(s, T) \o <<>> = Filter(s, T)
  BY <1>3
<1> QED
  BY <1>1, <1>2, <1>4, FilterOne, Zenon

LEMMA AppendMembers ==
    ASSUME NEW S, NEW s \in Seq(S), NEW x \in S
    PROVE  /\ Members(Append(s, x)) = Members(s) \cup {x}
           /\ Distinct(s) /\ x \notin Members(s) => Distinct(Append(s, x))
<1>1. /\ Len(s) \in Nat /\ Len(Append(s, x)) = Len(s) + 1
      /\ \A i \in 1 .. Len(s) + 1 : Append(s, x)[i] = IF i = Len(s) + 1 THEN x ELSE s[i]
  OBVIOUS
<1>2. Members(Append(s, x)) \subseteq Members(s) \cup {x}
  BY <1>1 DEF Members
<1>3. Members(s) \cup {x} \subseteq Members(Append(s, x))
  <2>1. ASSUME NEW i \in 1 .. Len(s) PROVE s[i] \in Members(Append(s, x))
    <3>1. i \in 1 .. Len(s) + 1 /\ i # Len(s) + 1
      BY <1>1
    <3> QED
      BY <1>1, <3>1, Zenon DEF Members
  <2>2. x \in Members(Append(s, x))
    <3>1. Len(s) + 1 \in 1 .. Len(s) + 1
      BY <1>1
    <3> QED
      BY <1>1, <3>1, Zenon DEF Members
  <2> QED
    BY <2>1, <2>2, Zenon DEF Members
<1>4. ASSUME Distinct(s), x \notin Members(s) PROVE Distinct(Append(s, x))
  BY <1>1, <1>4 DEF Distinct, Members
<1> QED
  BY <1>2, <1>3, <1>4, Zenon

\* The filter has the members that are in T, and each once if s has.
LEMMA FilterMembers ==
    ASSUME NEW S, NEW s \in Seq(S), NEW T
    PROVE  /\ Members(Filter(s, T)) = Members(s) \cap T
           /\ Distinct(s) => Distinct(Filter(s, T))
<1>1. PICK g : Builds(g, s, T) /\ Filter(s, T) = g[Len(s)]
  BY FilterBuilt, Zenon
<1> DEFINE Some(n) == {s[i] : i \in 1 .. n} \cap T
           P == {n \in Nat : n \in 0 .. Len(s) =>
                    Members(g[n]) = Some(n) /\ (Distinct(s) => Distinct(g[n]))}
<1>2. 0 \in P
  <2>1. g[0] = <<>>
    BY <1>1, Zenon DEF Builds
  <2>2. Members(<<>>) = {} /\ Distinct(<<>>) /\ Some(0) = {}
    BY DEF Members, Distinct
  <2> HIDE DEF Some
  <2> QED
    BY <2>1, <2>2, Zenon
<1>3. ASSUME NEW n \in Nat, n \in P PROVE n + 1 \in P
  <2> SUFFICES ASSUME n + 1 \in 0 .. Len(s)
               PROVE  Members(g[n + 1]) = Some(n + 1) /\ (Distinct(s) => Distinct(g[n + 1]))
    OBVIOUS
  <2>1. /\ n + 1 \in 1 .. Len(s) /\ (n + 1) - 1 = n /\ s[n + 1] \in S /\ n \in 0 .. Len(s)
    OBVIOUS
  <2>2. Members(g[n]) = Some(n) /\ (Distinct(s) => Distinct(g[n]))
    BY <1>3, <2>1, Zenon
  <2>3. g[n] \in Seq(S)
    <3>1. g[n] \in Seq(S \cap T)
      BY <1>1, <2>1, BuildsType, Zenon
    <3>2. Seq(S \cap T) \subseteq Seq(S)
      OBVIOUS
    <3> QED
      BY <3>1, <3>2, Zenon
  <2>4. g[n + 1] = IF s[n + 1] \in T THEN Append(g[n], s[n + 1]) ELSE g[n]
    BY <1>1, <2>1, Zenon DEF Builds
  <2>5. Some(n + 1) = IF s[n + 1] \in T THEN Some(n) \cup {s[n + 1]} ELSE Some(n)
    <3>1. 1 .. n + 1 = (1 .. n) \cup {n + 1}
      OBVIOUS
    <3> QED
      BY <3>1, Zenon
  <2>6. ASSUME Distinct(s) PROVE s[n + 1] \notin Some(n)
    BY <2>1, <2>6 DEF Distinct
  <2> HIDE DEF Some
  <2>7. CASE s[n + 1] \in T
    <3>1. PICK h \in Seq(S), x \in S : h = g[n] /\ x = s[n + 1]
      BY <2>1, <2>3, Zenon
    <3>2. /\ Members(Append(h, x)) = Members(h) \cup {x}
          /\ Distinct(h) /\ x \notin Members(h) => Distinct(Append(h, x))
      BY AppendMembers, Zenon
    <3> QED
      BY <2>2, <2>4, <2>5, <2>6, <2>7, <3>1, <3>2, Zenon
  <2>8. CASE s[n + 1] \notin T
    BY <2>2, <2>4, <2>5, <2>8, Zenon
  <2> QED
    BY <2>7, <2>8, Zenon
<1> HIDE DEF P
<1>4. Len(s) \in P
  BY <1>2, <1>3, SetInduction
<1>5. Some(Len(s)) = Members(s) \cap T /\ Len(s) \in 0 .. Len(s)
  BY DEF Members
<1> QED
  BY <1>1, <1>4, <1>5, Zenon DEF P

\* Filters of two sequences whose items are kept at the same places are as long.
LEMMA FilterSameLen ==
    ASSUME NEW S, NEW s \in Seq(S), NEW T, NEW R, NEW t \in Seq(R), NEW U, Len(s) = Len(t),
           \A i \in 1 .. Len(s) : s[i] \in T <=> t[i] \in U
    PROVE  Len(Filter(s, T)) = Len(Filter(t, U))
<1>1. PICK g : Builds(g, s, T) /\ Filter(s, T) = g[Len(s)]
  BY FilterBuilt, Zenon
<1>2. PICK h : Builds(h, t, U) /\ Filter(t, U) = h[Len(t)]
  BY FilterBuilt, Zenon
<1>3. \A n \in 0 .. Len(s) : g[n] \in Seq(S \cap T)
  BY <1>1, BuildsType, Zenon
<1>4. \A n \in 0 .. Len(t) : h[n] \in Seq(R \cap U)
  BY <1>2, BuildsType, Zenon
<1> DEFINE P == {n \in Nat : n \in 0 .. Len(s) => Len(g[n]) = Len(h[n])}
<1>5. 0 \in P
  <2>1. g[0] = h[0]
    BY <1>1, <1>2, Zenon DEF Builds
  <2> QED
    BY <2>1, Zenon
<1>6. ASSUME NEW n \in Nat, n \in P PROVE n + 1 \in P
  <2> SUFFICES ASSUME n + 1 \in 0 .. Len(s) PROVE Len(g[n + 1]) = Len(h[n + 1])
    OBVIOUS
  <2>1. /\ n + 1 \in 1 .. Len(s) /\ (n + 1) - 1 = n /\ n \in 0 .. Len(s)
        /\ s[n + 1] \in S /\ t[n + 1] \in R
    OBVIOUS
  <2>2. Len(g[n]) = Len(h[n]) /\ (s[n + 1] \in T <=> t[n + 1] \in U)
    BY <1>6, <2>1, Zenon
  <2>3. /\ g[n + 1] = IF s[n + 1] \in T THEN Append(g[n], s[n + 1]) ELSE g[n]
        /\ h[n + 1] = IF t[n + 1] \in U THEN Append(h[n], t[n + 1]) ELSE h[n]
    BY <1>1, <1>2, <2>1 DEF Builds
  <2>4. g[n] \in Seq(S \cap T) /\ h[n] \in Seq(R \cap U)
    BY <1>3, <1>4, <2>1, Zenon
  <2>5. CASE s[n + 1] \in T
    <3>1. Len(Append(g[n], s[n + 1])) = Len(g[n]) + 1
      BY <2>1, <2>4, <2>5
    <3>2. Len(Append(h[n], t[n + 1])) = Len(h[n]) + 1
      BY <2>1, <2>2, <2>4, <2>5
    <3> QED
      BY <2>2, <2>3, <2>5, <3>1, <3>2, Zenon
  <2>6. CASE s[n + 1] \notin T
    BY <2>2, <2>3, <2>6, Zenon
  <2> QED
    BY <2>5, <2>6, Zenon
<1> HIDE DEF P
<1>7. Len(s) \in P
  BY <1>5, <1>6, SetInduction
<1> QED
  BY <1>1, <1>2, <1>7 DEF P

\* A filter that keeps everything, or nothing.
LEMMA FilterAll ==
    ASSUME NEW S, NEW s \in Seq(S), NEW T, \A i \in 1 .. Len(s) : s[i] \in T
    PROVE  Filter(s, T) = s
<1> DEFINE g == [n \in 0 .. Len(s) |-> SubSeq(s, 1, n)]
<1>1. g[0] = <<>> /\ \A n \in 0 .. Len(s) : g[n] = SubSeq(s, 1, n)
  OBVIOUS
<1>2. ASSUME NEW i \in 1 .. Len(s) PROVE g[i] = Append(g[i - 1], s[i])
  <2>1. i \in 0 .. Len(s) /\ i - 1 \in 0 .. Len(s)
    OBVIOUS
  <2>2. SubSeq(s, 1, i) = Append(SubSeq(s, 1, i - 1), s[i])
    <3>1. SubSeq(s, 1, i) \in Seq(S) /\ Len(SubSeq(s, 1, i)) = i
      OBVIOUS
    <3>2. SubSeq(s, 1, i - 1) \in Seq(S) /\ Len(SubSeq(s, 1, i - 1)) = i - 1 /\ s[i] \in S
      OBVIOUS
    <3>3. Append(SubSeq(s, 1, i - 1), s[i]) \in Seq(S)
            /\ Len(Append(SubSeq(s, 1, i - 1), s[i])) = i
      BY <3>2
    <3>4. ASSUME NEW j \in 1 .. i
          PROVE  SubSeq(s, 1, i)[j] = Append(SubSeq(s, 1, i - 1), s[i])[j]
      BY <3>2
    <3> QED
      BY <3>1, <3>3, <3>4, SeqEqual, Zenon
  <2> QED
    BY <1>1, <2>1, <2>2, Zenon
<1> HIDE DEF g
<1>3. Builds(g, s, T)
  BY <1>1, <1>2, Zenon DEF Builds
<1>4. Filter(s, T) = g[Len(s)]
  BY <1>3, FilterIs, Zenon
<1>5. Len(s) \in 0 .. Len(s) /\ SubSeq(s, 1, Len(s)) = s
  OBVIOUS
<1> QED
  BY <1>1, <1>4, <1>5, Zenon

LEMMA FilterNone ==
    ASSUME NEW S, NEW s \in Seq(S), NEW T, \A i \in 1 .. Len(s) : s[i] \notin T
    PROVE  Filter(s, T) = <<>>
<1> DEFINE g == [n \in 0 .. Len(s) |-> <<>>]
<1>1. \A n \in 0 .. Len(s) : g[n] = <<>>
  BY Zenon
<1>2. g[0] = <<>> /\ \A i \in 1 .. Len(s) : g[i] = g[i - 1]
  OBVIOUS
<1> HIDE DEF g
<1>3. Builds(g, s, T)
  BY <1>2, Zenon DEF Builds
<1>4. Filter(s, T) = g[Len(s)]
  BY <1>3, FilterIs, Zenon
<1> QED
  BY <1>1, <1>4

------------------------------------------------------------------------------
(* Queues *)

LEMMA TailFacts ==
    ASSUME NEW S, NEW s \in Seq(S), s # <<>>
    PROVE  /\ Head(s) \in S /\ Head(s) = s[1] /\ Head(s) \in Members(s)
           /\ Tail(s) \in Seq(S) /\ Len(Tail(s)) = Len(s) - 1
           /\ \A i \in 1 .. Len(s) - 1 : Tail(s)[i] = s[i + 1]
           /\ Members(Tail(s)) \subseteq Members(s)
           /\ Distinct(s) => Distinct(Tail(s)) /\ Head(s) \notin Members(Tail(s))
<1>1. Len(s) \in Nat /\ Len(s) >= 1 /\ 1 \in 1 .. Len(s)
  OBVIOUS
<1>2. /\ Head(s) \in S /\ Head(s) = s[1]
      /\ Tail(s) \in Seq(S) /\ Len(Tail(s)) = Len(s) - 1
      /\ \A i \in 1 .. Len(s) - 1 : Tail(s)[i] = s[i + 1]
  OBVIOUS
<1>3. \A i \in 1 .. Len(s) - 1 : i + 1 \in 1 .. Len(s) /\ i + 1 # 1
  BY <1>1
<1>4. Members(Tail(s)) \subseteq Members(s) /\ Head(s) \in Members(s)
  BY <1>1, <1>2, <1>3 DEF Members
<1>5. ASSUME Distinct(s) PROVE Distinct(Tail(s)) /\ Head(s) \notin Members(Tail(s))
  BY <1>1, <1>2, <1>3, <1>5 DEF Members, Distinct
<1> QED
  BY <1>2, <1>4, <1>5, Zenon

LEMMA ConcatMembers ==
    ASSUME NEW S, NEW s \in Seq(S), NEW t \in Seq(S)
    PROVE  /\ Members(s \o t) = Members(s) \cup Members(t)
           /\ Distinct(s) /\ Distinct(t) /\ Members(s) \cap Members(t) = {} => Distinct(s \o t)
<1> DEFINE m == Len(s)
           n == Len(t)
<1>1. /\ m \in Nat /\ n \in Nat /\ Len(s \o t) = m + n
      /\ \A i \in 1 .. m + n : (s \o t)[i] = IF i <= m THEN s[i] ELSE t[i - m]
  OBVIOUS
<1> HIDE DEF m, n
<1>2. \A i \in 1 .. m + n : IF i <= m THEN i \in 1 .. m ELSE i - m \in 1 .. n
  BY <1>1
<1>3. Members(s \o t) \subseteq Members(s) \cup Members(t)
  BY <1>1, <1>2, Zenon DEF Members, m, n
<1>4. Members(s) \subseteq Members(s \o t)
  <2>1. \A i \in 1 .. m : i \in 1 .. m + n /\ i <= m
    BY <1>1
  <2> QED
    BY <1>1, <2>1, Zenon DEF Members, m
<1>5. Members(t) \subseteq Members(s \o t)
  <2>1. ASSUME NEW i \in 1 .. n PROVE t[i] \in Members(s \o t)
    <3>1. i + m \in 1 .. m + n /\ ~ (i + m <= m) /\ (i + m) - m = i
      BY <1>1
    <3>2. (s \o t)[i + m] = t[i]
      BY <1>1, <3>1, Zenon
    <3> QED
      BY <1>1, <3>1, <3>2, Zenon DEF Members
  <2> QED
    BY <2>1, Zenon DEF Members, n
<1>6. ASSUME Distinct(s), Distinct(t), Members(s) \cap Members(t) = {},
             NEW i \in 1 .. m + n, NEW j \in 1 .. m + n, (s \o t)[i] = (s \o t)[j]
      PROVE  i = j
  <2>1. ASSUME NEW a \in 1 .. m, NEW b \in 1 .. n PROVE s[a] # t[b]
    <3>1. s[a] \in Members(s) /\ t[b] \in Members(t)
      BY Zenon DEF Members, m, n
    <3> QED
      BY <1>6, <3>1, Zenon
  <2>2. CASE i <= m /\ j <= m
    BY <1>1, <1>2, <1>6, <2>2, Zenon DEF Distinct, m
  <2>3. CASE ~ (i <= m) /\ ~ (j <= m)
    <3>1. i - m \in 1 .. n /\ j - m \in 1 .. n /\ t[i - m] = t[j - m]
      BY <1>1, <1>2, <1>6, <2>3, Zenon
    <3>2. i - m = j - m
      BY <1>6, <3>1, Zenon DEF Distinct, n
    <3> QED
      BY <1>1, <3>2
  <2>4. CASE (i <= m /\ ~ (j <= m)) \/ (~ (i <= m) /\ j <= m)
    BY <1>1, <1>2, <1>6, <2>1, <2>4, Zenon
  <2> QED
    BY <2>2, <2>3, <2>4, Zenon
<1> QED
  BY <1>1, <1>3, <1>4, <1>5, <1>6, Zenon DEF Distinct

\* What follows position m of s, when t is put behind s.
LEMMA SuffixConcat ==
    ASSUME NEW S, NEW s \in Seq(S), NEW t \in Seq(S), NEW m \in 0 .. Len(s)
    PROVE  SubSeq(s \o t, m + 1, Len(s \o t)) = SubSeq(s, m + 1, Len(s)) \o t
<1> DEFINE a == SubSeq(s \o t, m + 1, Len(s \o t))
           b == SubSeq(s, m + 1, Len(s))
<1>1. s \o t \in Seq(S) /\ Len(s \o t) = Len(s) + Len(t) /\ m \in Nat /\ m <= Len(s)
      /\ \A i \in 1 .. Len(s) + Len(t) : (s \o t)[i] = IF i <= Len(s) THEN s[i] ELSE t[i - Len(s)]
  BY ConcatProperties
<1>2. /\ b \in Seq(S) /\ Len(b) = Len(s) - m
      /\ \A i \in 1 .. Len(s) - m : b[i] = s[m + i]
  OBVIOUS
<1>3. /\ a \in Seq(S) /\ Len(a) = Len(s) + Len(t) - m
      /\ \A i \in 1 .. Len(s) + Len(t) - m : a[i] = (s \o t)[m + i]
  <2> DEFINE u == s \o t
  <2>1. u \in Seq(S) /\ Len(u) = Len(s) + Len(t)
    BY <1>1, Zenon
  <2> HIDE DEF u
  <2>2. /\ SubSeq(u, m + 1, Len(u)) \in Seq(S) /\ Len(SubSeq(u, m + 1, Len(u))) = Len(s) + Len(t) - m
        /\ \A i \in 1 .. Len(s) + Len(t) - m : SubSeq(u, m + 1, Len(u))[i] = u[m + i]
    BY <2>1
  <2> QED
    BY <2>2, Zenon DEF u
<1> HIDE DEF a, b
<1>4. b \o t \in Seq(S) /\ Len(b \o t) = Len(s) - m + Len(t)
      /\ \A i \in 1 .. Len(s) - m + Len(t) :
            (b \o t)[i] = IF i <= Len(s) - m THEN b[i] ELSE t[i - (Len(s) - m)]
  <2>1. b \o t \in Seq(S) /\ Len(b \o t) = Len(b) + Len(t)
        /\ \A i \in 1 .. Len(b) + Len(t) : (b \o t)[i] = IF i <= Len(b) THEN b[i] ELSE t[i - Len(b)]
    BY <1>2, ConcatProperties, Zenon
  <2> QED
    BY <1>2, <2>1, Zenon
<1>5. ASSUME NEW i \in 1 .. Len(a) PROVE a[i] = (b \o t)[i]
  <2>1. i \in 1 .. Len(s) + Len(t) - m /\ m + i \in 1 .. Len(s) + Len(t)
    BY <1>1, <1>3
  <2>2. a[i] = IF m + i <= Len(s) THEN s[m + i] ELSE t[m + i - Len(s)]
    BY <1>1, <1>3, <2>1
  <2>3. (b \o t)[i] = IF i <= Len(s) - m THEN b[i] ELSE t[i - (Len(s) - m)]
    BY <1>4, <2>1
  <2>4. m + i <= Len(s) <=> i <= Len(s) - m
    BY <1>1, <2>1
  <2>5. m + i - Len(s) = i - (Len(s) - m)
    BY <1>1, <2>1
  <2>6. CASE i <= Len(s) - m
    <3>1. b[i] = s[m + i]
      BY <1>1, <1>2, <2>1, <2>6
    <3> QED
      BY <2>2, <2>3, <2>4, <2>6, <3>1, Zenon
  <2>7. CASE ~ (i <= Len(s) - m)
    BY <2>2, <2>3, <2>4, <2>5, <2>7, Zenon
  <2> QED
    BY <2>6, <2>7, Zenon
<1>6. Len(a) = Len(b \o t)
  BY <1>1, <1>3, <1>4
<1>7. a = b \o t
  BY <1>3, <1>4, <1>5, <1>6, SeqEqual, Zenon
<1> QED
  BY <1>7, Zenon DEF a, b

\* The last member of s is the last that is collected, if it is in T.
LEMMA FilterLast ==
    ASSUME NEW S, NEW s \in Seq(S), NEW T, s # <<>>, s[Len(s)] \in T
    PROVE  /\ Filter(s, T) # <<>>
           /\ Filter(s, T)[Len(Filter(s, T))] = s[Len(s)]
<1>1. PICK r \in Seq(S), x \in S : s = Append(r, x) /\ x = s[Len(s)]
  <2>1. Len(s) \in Nat \ {0} /\ s[Len(s)] \in S
    OBVIOUS
  <2>2. SubSeq(s, 1, Len(s) - 1) \in Seq(S)
    BY <2>1
  <2>3. s = Append(SubSeq(s, 1, Len(s) - 1), s[Len(s)])
    BY <2>1
  <2> QED
    BY <2>1, <2>2, <2>3, Zenon
<1>2. Filter(s, T) = Append(Filter(r, T), x)
  BY <1>1, FilterAppend
<1>3. PICK f \in Seq(S) : f = Filter(r, T)
  BY FilterType, Zenon
<1>4. Filter(s, T) = Append(f, x)
  BY <1>2, <1>3, Zenon
<1> QED
  BY <1>1, <1>4

\* A sequence is cut in two at k.
LEMMA SplitAt ==
    ASSUME NEW S, NEW s \in Seq(S), NEW k \in 0 .. Len(s)
    PROVE  /\ SubSeq(s, 1, k) \in Seq(S) /\ SubSeq(s, k + 1, Len(s)) \in Seq(S)
           /\ Len(SubSeq(s, 1, k)) = k /\ Len(SubSeq(s, k + 1, Len(s))) = Len(s) - k
           /\ SubSeq(s, 1, k) \o SubSeq(s, k + 1, Len(s)) = s
<1>1. Len(s) \in Nat /\ k \in Nat /\ k <= Len(s)
  OBVIOUS
<1>2. SubSeq(s, 1, k) \in Seq(S) /\ Len(SubSeq(s, 1, k)) = k
  BY <1>1
<1>3. SubSeq(s, k + 1, Len(s)) \in Seq(S) /\ Len(SubSeq(s, k + 1, Len(s))) = Len(s) - k
  BY <1>1
<1>4. SubSeq(s, 1, k) \o SubSeq(s, k + 1, Len(s)) = s
  BY PrefixAndRest, Zenon
<1> QED
  BY <1>2, <1>3, <1>4, Zenon

------------------------------------------------------------------------------
(* Parts of sequences *)

LEMMA LenNat == ASSUME NEW E, NEW s \in Seq(E) PROVE Len(s) \in Nat
  OBVIOUS

\* The part after the first n elements, and the first n.
LEMMA SuffixFacts ==
    ASSUME NEW E, NEW w \in Seq(E), NEW n \in 0 .. Len(w)
    PROVE  /\ SubSeq(w, n + 1, Len(w)) \in Seq(E)
           /\ Len(SubSeq(w, n + 1, Len(w))) = Len(w) - n
           /\ \A i \in 1 .. Len(w) - n : SubSeq(w, n + 1, Len(w))[i] = w[n + i]
  OBVIOUS

LEMMA PrefixFacts ==
    ASSUME NEW E, NEW w \in Seq(E), NEW n \in 0 .. Len(w)
    PROVE  /\ SubSeq(w, 1, n) \in Seq(E) /\ Len(SubSeq(w, 1, n)) = n
           /\ \A i \in 1 .. n : SubSeq(w, 1, n)[i] = w[i]
  OBVIOUS

\* ib is what of w comes before place t and was not used yet, and k more
\* elements of w are read behind it.
LEMMA ReadOn ==
    ASSUME NEW E, NEW w \in Seq(E), NEW ib \in Seq(E), NEW t \in 0 .. Len(w), Len(ib) <= t,
           \A i \in 1 .. Len(ib) : ib[i] = w[t - Len(ib) + i],
           NEW k \in Nat, t + k <= Len(w)
    PROVE  LET b == ib \o SubSeq(SubSeq(w, t + 1, Len(w)), 1, k)
           IN  /\ b \in Seq(E) /\ Len(b) = Len(ib) + k
               /\ \A i \in 1 .. Len(b) : b[i] = w[t - Len(ib) + i]
<1>1. PICK u \in Seq(E) : /\ u = SubSeq(w, t + 1, Len(w)) /\ Len(u) = Len(w) - t
                          /\ \A i \in 1 .. Len(w) - t : u[i] = w[t + i]
  <2>1. /\ SubSeq(w, t + 1, Len(w)) \in Seq(E) /\ Len(SubSeq(w, t + 1, Len(w))) = Len(w) - t
        /\ \A i \in 1 .. Len(w) - t : SubSeq(w, t + 1, Len(w))[i] = w[t + i]
    BY SuffixFacts, Zenon
  <2> QED
    BY <2>1, Zenon
<1>2. PICK v \in Seq(E) : /\ v = SubSeq(u, 1, k) /\ Len(v) = k
                          /\ \A i \in 1 .. k : v[i] = u[i]
  <2>1. k \in 0 .. Len(u)
    BY <1>1
  <2>2. /\ SubSeq(u, 1, k) \in Seq(E) /\ Len(SubSeq(u, 1, k)) = k
        /\ \A i \in 1 .. k : SubSeq(u, 1, k)[i] = u[i]
    BY <2>1, PrefixFacts, Zenon
  <2> QED
    BY <2>2, Zenon
<1>3. ib \o v \in Seq(E) /\ Len(ib \o v) = Len(ib) + Len(v)
      /\ \A i \in 1 .. Len(ib) + Len(v) :
            (ib \o v)[i] = IF i <= Len(ib) THEN ib[i] ELSE v[i - Len(ib)]
  BY ConcatProperties, Zenon
<1>4. ASSUME NEW i \in 1 .. Len(ib) + k PROVE (ib \o v)[i] = w[t - Len(ib) + i]
  <2>1. Len(ib) \in Nat /\ Len(w) \in Nat
    OBVIOUS
  <2>2. CASE i <= Len(ib)
    BY <1>2, <1>3, <2>1, <2>2
  <2>3. CASE ~ i <= Len(ib)
    <3>1. i - Len(ib) \in 1 .. k /\ t + (i - Len(ib)) = t - Len(ib) + i
      BY <2>1, <2>3
    <3>2. (ib \o v)[i] = v[i - Len(ib)]
      BY <1>2, <1>3, <2>3, Zenon
    <3>3. v[i - Len(ib)] = u[i - Len(ib)]
      BY <1>2, <3>1, Zenon
    <3>4. i - Len(ib) \in 1 .. Len(w) - t
      BY <2>1, <3>1
    <3>5. u[i - Len(ib)] = w[t + (i - Len(ib))]
      BY <1>1, <3>4, Zenon
    <3> QED
      BY <3>1, <3>2, <3>3, <3>5, Zenon
  <2> QED
    BY <2>2, <2>3, Zenon
<1> QED
  BY <1>1, <1>2, <1>3, <1>4, Zenon

\* What the filters keep of two sequences joined is what they keep of each, joined.
Joins(s, t) == \A T : Filter(s \o t, T) = Filter(s, T) \o Filter(t, T)

LEMMA FilterJoin ==
    ASSUME NEW E, NEW s \in Seq(E), NEW t \in Seq(E)
    PROVE  Joins(s, t)
BY FilterConcat DEF Joins

\* A part of a sequence that is cut out of it where another ends.
CutOut(b, w, u, m) == u + m <= Len(w) /\ Len(b) = m /\ \A i \in 1 .. m : b[i] = w[u + i]

\* What the filters keep of the part before it and of it.
ReadsOn(b, w, u, m) ==
    \A T : Filter(SubSeq(w, 1, u), T) \o Filter(b, T) = Filter(SubSeq(w, 1, u + m), T)

LEMMA FilterOn ==
    ASSUME NEW E, NEW w \in Seq(E), NEW u \in Nat, NEW m \in Nat,
           NEW b \in Seq(E), CutOut(b, w, u, m)
    PROVE  ReadsOn(b, w, u, m)
<1> SUFFICES ASSUME NEW T
             PROVE  Filter(SubSeq(w, 1, u), T) \o Filter(b, T) = Filter(SubSeq(w, 1, u + m), T)
  BY Zenon DEF ReadsOn
<1>0. u + m <= Len(w) /\ Len(b) = m /\ \A i \in 1 .. m : b[i] = w[u + i]
  BY Zenon DEF CutOut
<1>1. PICK p \in Seq(E) : /\ p = SubSeq(w, 1, u) /\ Len(p) = u
                                /\ \A i \in 1 .. u : p[i] = w[i]
  <2>1. /\ SubSeq(w, 1, u) \in Seq(E) /\ Len(SubSeq(w, 1, u)) = u
        /\ \A i \in 1 .. u : SubSeq(w, 1, u)[i] = w[i]
    BY <1>0, PrefixFacts
  <2> QED
    BY <2>1, Zenon
<1>2. PICK q \in Seq(E) : /\ q = SubSeq(w, 1, u + m) /\ Len(q) = u + m
                                /\ \A i \in 1 .. u + m : q[i] = w[i]
  <2>1. /\ SubSeq(w, 1, u + m) \in Seq(E) /\ Len(SubSeq(w, 1, u + m)) = u + m
        /\ \A i \in 1 .. u + m : SubSeq(w, 1, u + m)[i] = w[i]
    BY <1>0, PrefixFacts
  <2> QED
    BY <2>1, Zenon
<1>3. p \o b \in Seq(E) /\ Len(p \o b) = Len(p) + Len(b)
      /\ \A i \in 1 .. Len(p) + Len(b) : (p \o b)[i] = IF i <= Len(p) THEN p[i] ELSE b[i - Len(p)]
  BY ConcatProperties, Zenon
<1>4. ASSUME NEW i \in 1 .. u + m PROVE (p \o b)[i] = q[i]
  <2>1. CASE i <= u
    BY <1>0, <1>1, <1>2, <1>3, <2>1
  <2>2. CASE ~ i <= u
    <3>1. i - u \in 1 .. m /\ u + (i - u) = i
      BY <2>2
    <3>2. (p \o b)[i] = b[i - u]
      BY <1>0, <1>1, <1>3, <2>2, Zenon
    <3> QED
      BY <1>0, <1>2, <3>1, <3>2, Zenon
  <2> QED
    BY <2>1, <2>2, Zenon
<1>5. p \o b = q
  <2>1. /\ p \o b \in Seq(E) /\ Len(p \o b) = Len(q)
        /\ \A i \in 1 .. Len(q) : (p \o b)[i] = q[i]
    BY <1>0, <1>1, <1>2, <1>3, <1>4, Zenon
  <2> QED
    BY <2>1, SeqEqual, Zenon
<1>6. Filter(p \o b, T) = Filter(p, T) \o Filter(b, T)
  <2>1. Joins(p, b)
    BY FilterJoin, Zenon
  <2> QED
    BY <2>1, Zenon DEF Joins
<1> QED
  BY <1>1, <1>2, <1>5, <1>6, Zenon

\* A filter within a filter.
LEMMA FilterTwice ==
    ASSUME NEW E, NEW s \in Seq(E), NEW T, NEW U, U \subseteq T
    PROVE  Filter(Filter(s, T), U) = Filter(s, U)
<1> DEFINE Same(r) == Filter(Filter(r, T), U) = Filter(r, U)
           P == {n \in Nat : n <= Len(s) => Same(SubSeq(s, 1, n))}
<1>1. Len(s) \in Nat
  OBVIOUS
<1>2. 0 \in P
  <2>1. SubSeq(s, 1, 0) \in Seq(E) /\ Len(SubSeq(s, 1, 0)) = 0
    BY PrefixFacts, <1>1
  <2>2. SubSeq(s, 1, 0) = <<>>
    BY <2>1
  <2>3. <<>> \in Seq(E) /\ \A i \in 1 .. Len(<<>>) : <<>>[i] \notin T /\ <<>>[i] \notin U
    OBVIOUS
  <2>4. Filter(<<>>, T) = <<>> /\ Filter(<<>>, U) = <<>>
    BY <2>3, FilterNone, Zenon
  <2>5. Same(SubSeq(s, 1, 0))
    BY <2>2, <2>4, Zenon
  <2> QED
    BY <2>5, Zenon
<1>3. ASSUME NEW n \in Nat, n \in P, n + 1 <= Len(s) PROVE n + 1 \in P
  <2>0. n \in 0 .. Len(s) /\ n + 1 \in 1 .. Len(s)
    BY <1>1, <1>3
  <2>1. PICK r \in Seq(E) : r = SubSeq(s, 1, n)
    <3>1. SubSeq(s, 1, n) \in Seq(E)
      BY <2>0, PrefixFacts, Zenon
    <3> QED
      BY <3>1, Zenon
  <2>2. PICK x \in E : x = s[n + 1]
    BY <2>0
  <2>3. SubSeq(s, 1, n + 1) = Append(r, x)
    BY <2>0, <2>1, <2>2
  <2>4. Filter(Filter(r, T), U) = Filter(r, U)
    BY <1>3, <2>0, <2>1
  <2>5. Filter(Append(r, x), T) = (IF x \in T THEN Append(Filter(r, T), x) ELSE Filter(r, T))
        /\ Filter(Append(r, x), U) = IF x \in U THEN Append(Filter(r, U), x) ELSE Filter(r, U)
    BY FilterAppend, Zenon
  <2>6. Filter(r, T) \in Seq(E)
    BY FilterType, Zenon
  <2>7. Filter(Append(Filter(r, T), x), U)
          = IF x \in U THEN Append(Filter(Filter(r, T), U), x) ELSE Filter(Filter(r, T), U)
    BY <2>6, FilterAppend
  <2>8. Same(Append(r, x))
    BY <2>4, <2>5, <2>7, Zenon
  <2>9. Same(SubSeq(s, 1, n + 1))
    BY <2>3, <2>8, Zenon
  <2> QED
    BY <2>9
<1>4. ASSUME NEW n \in Nat, n \in P PROVE n + 1 \in P
  <2>1. CASE n + 1 <= Len(s)
    BY <1>3, <1>4, <2>1, Zenon
  <2>2. CASE ~ n + 1 <= Len(s)
    BY <2>2
  <2> QED
    BY <2>1, <2>2, Zenon
<1>5. Len(s) \in P
  <2> HIDE DEF P
  <2> QED
    BY <1>1, <1>2, <1>4, SetInduction, Zenon
<1>6. SubSeq(s, 1, Len(s)) = s
  BY <1>1
<1>7. Same(SubSeq(s, 1, Len(s)))
  BY <1>1, <1>5
<1> QED
  BY <1>6, <1>7, Zenon

\* Sequences that agree in the first n places.
LEMMA SamePrefix ==
    ASSUME NEW E, NEW v \in Seq(E), NEW w \in Seq(E), NEW n \in Nat,
           n <= Len(v), n <= Len(w), \A i \in 1 .. n : v[i] = w[i]
    PROVE  SubSeq(v, 1, n) = SubSeq(w, 1, n)
<1>1. n \in 0 .. Len(v) /\ n \in 0 .. Len(w)
  OBVIOUS
<1>2. /\ SubSeq(v, 1, n) \in Seq(E) /\ Len(SubSeq(v, 1, n)) = n
      /\ \A i \in 1 .. n : SubSeq(v, 1, n)[i] = v[i]
  BY <1>1, PrefixFacts, Zenon
<1>3. /\ SubSeq(w, 1, n) \in Seq(E) /\ Len(SubSeq(w, 1, n)) = n
      /\ \A i \in 1 .. n : SubSeq(w, 1, n)[i] = w[i]
  BY <1>1, PrefixFacts, Zenon
<1> QED
  BY <1>2, <1>3

\* The first part of the end of a sequence.
EndsWith(q, k, s) == k <= Len(q) /\ s = SubSeq(q, k + 1, Len(q))
Comes(q, k, a) == k + Len(a) \in k .. Len(q) /\ a = SubSeq(q, k + 1, k + Len(a))

LEMMA HeadOfEnd ==
    ASSUME NEW E
    PROVE  \A q, a, b \in Seq(E) : \A k \in Nat : EndsWith(q, k, a \o b) => Comes(q, k, a)
<1> SUFFICES ASSUME NEW q \in Seq(E), NEW a \in Seq(E), NEW b \in Seq(E),
                    NEW k \in Nat, k <= Len(q), a \o b = SubSeq(q, k + 1, Len(q))
             PROVE  k + Len(a) \in k .. Len(q) /\ a = SubSeq(q, k + 1, k + Len(a))
  BY Zenon DEF EndsWith, Comes
<1>1. k \in 0 .. Len(q)
  OBVIOUS
<1>2. /\ Len(SubSeq(q, k + 1, Len(q))) = Len(q) - k
      /\ \A i \in 1 .. Len(q) - k : SubSeq(q, k + 1, Len(q))[i] = q[k + i]
  BY <1>1, SuffixFacts, Zenon
<1>3. /\ Len(a \o b) = Len(a) + Len(b)
      /\ \A i \in 1 .. Len(a) : (a \o b)[i] = a[i]
  <2>1. \A i \in 1 .. Len(a) + Len(b) : (a \o b)[i] = IF i <= Len(a) THEN a[i] ELSE b[i - Len(a)]
    BY ConcatProperties, Zenon
  <2>2. \A i \in 1 .. Len(a) : i \in 1 .. Len(a) + Len(b) /\ i <= Len(a)
    OBVIOUS
  <2> QED
    BY <2>1, <2>2, ConcatProperties, Zenon
<1>4. PICK m \in Nat, l \in Nat, n \in Nat : m = Len(a) /\ l = Len(b) /\ n = Len(q)
  OBVIOUS
<1>5. m + l = n - k
  BY <1>2, <1>3, <1>4, Zenon
<1>6. k + m \in k .. n
  BY <1>4, <1>5
<1>7. \A i \in 1 .. m : a[i] = q[k + i]
  <2> TAKE i \in 1 .. m
  <2>1. i \in 1 .. n - k
    BY <1>4, <1>5
  <2> QED
    BY <1>2, <1>3, <1>4, <2>1, Zenon
<1>8. /\ SubSeq(q, k + 1, k + m) \in Seq(E) /\ Len(SubSeq(q, k + 1, k + m)) = m
      /\ \A i \in 1 .. m : SubSeq(q, k + 1, k + m)[i] = q[k + i]
  <2>1. k + m \in Nat /\ k + m <= Len(q) /\ (k + m) - k = m
    BY <1>4, <1>6
  <2> QED
    BY <1>4, <2>1
<1>9. a = SubSeq(q, k + 1, k + m)
  <2>1. PICK r \in Seq(E) : r = SubSeq(q, k + 1, k + m)
    BY <1>8, Zenon
  <2>2. Len(r) = Len(a) /\ \A i \in 1 .. Len(a) : a[i] = r[i]
    BY <1>4, <1>7, <1>8, <2>1, Zenon
  <2>3. a = r
    BY <2>2
  <2> QED
    BY <2>1, <2>3, Zenon
<1> QED
  BY <1>4, <1>6, <1>9, Zenon

------------------------------------------------------------------------------
(* Loops written as recursive functions of the number of rounds done *)

\* A loop of n rounds whose body stays in S can be run.
Loop(g, S, n, b, step) ==
    /\ g \in [0 .. n -> S] /\ g[0] = b
    /\ \A i \in 1 .. n : g[i] = step[<<g[i - 1], i>>]

LEMMA LoopRuns ==
    ASSUME NEW S, NEW n \in Nat, NEW b \in S, NEW step \in [S \X (1 .. n) -> S]
    PROVE  \E g : Loop(g, S, n, b, step)
<1> DEFINE Runs(g, m) == /\ g \in [0 .. m -> S] /\ g[0] = b
                         /\ \A i \in 1 .. m : g[i] = step[<<g[i - 1], i>>]
           P == {m \in Nat : m <= n => \E g : Runs(g, m)}
<1>1. 0 \in P
  <2> DEFINE g == [i \in 0 .. 0 |-> b]
  <2>1. Runs(g, 0)
    OBVIOUS
  <2> QED
    BY <2>1, Zenon
<1>2. ASSUME NEW m \in Nat, m \in P PROVE m + 1 \in P
  <2> SUFFICES ASSUME m + 1 <= n PROVE \E g : Runs(g, m + 1)
    OBVIOUS
  <2>1. PICK g : Runs(g, m)
    BY <1>2
  <2> DEFINE last == step[<<g[m], m + 1>>]
             h == [i \in 0 .. m + 1 |-> IF i = m + 1 THEN last ELSE g[i]]
  <2>2. last \in S
    <3>1. g[m] \in S /\ m + 1 \in 1 .. n
      BY <2>1
    <3> QED
      BY <3>1, Zenon
  <2>3. h \in [0 .. m + 1 -> S]
    BY <2>1, <2>2
  <2>4. h[0] = b /\ h[m + 1] = last /\ \A i \in 0 .. m : h[i] = g[i]
    BY <2>1
  <2> HIDE DEF h
  <2>5. ASSUME NEW i \in 1 .. m + 1 PROVE h[i] = step[<<h[i - 1], i>>]
    <3>1. CASE i = m + 1
      <4>1. i - 1 = m /\ h[i - 1] = g[m]
        BY <3>1, <2>4
      <4> QED
        BY <3>1, <4>1, <2>4, Zenon
    <3>2. CASE i # m + 1
      <4>1. i \in 1 .. m /\ i - 1 \in 0 .. m /\ h[i] = g[i] /\ h[i - 1] = g[i - 1]
        BY <3>2, <2>4
      <4> QED
        BY <4>1, <2>1, Zenon
    <3> QED
      BY <3>1, <3>2, Zenon
  <2>6. Runs(h, m + 1)
    BY <2>3, <2>4, <2>5, Zenon
  <2> HIDE DEF Runs
  <2> QED
    BY <2>6, Zenon
<1> HIDE DEF P
<1>3. n \in P
  BY <1>1, <1>2, SetInduction, Zenon
<1> QED
  BY <1>3 DEF P, Loop

\* What every round keeps is kept all along.
LEMMA LoopKeeps ==
    ASSUME NEW S, NEW n \in Nat, NEW g, g[0] \in S,
           \A i \in 1 .. n : g[i - 1] \in S => g[i] \in S
    PROVE  \A i \in 0 .. n : g[i] \in S
<1> DEFINE P == {m \in Nat : m <= n => g[m] \in S}
<1>1. 0 \in P
  BY Zenon
<1>2. ASSUME NEW m \in Nat, m \in P PROVE m + 1 \in P
  <2> SUFFICES ASSUME m + 1 <= n PROVE g[m + 1] \in S
    OBVIOUS
  <2>1. m + 1 \in 1 .. n /\ (m + 1) - 1 = m /\ g[m] \in S
    BY <1>2
  <2> QED
    BY <2>1, Zenon
<1> HIDE DEF P
<1>3. \A m \in Nat : m \in P
  BY <1>1, <1>2, SetInduction, Zenon
<1> QED
  BY <1>3 DEF P

------------------------------------------------------------------------------

\* A larger set keeps more.
LEMMA FilterMore ==
    ASSUME NEW S, NEW s \in Seq(S), NEW T, NEW U, T \subseteq U
    PROVE  Len(Filter(s, T)) <= Len(Filter(s, U))
<1>1. PICK g : Builds(g, s, T) /\ Filter(s, T) = g[Len(s)]
  BY FilterBuilt, Zenon
<1>2. PICK h : Builds(h, s, U) /\ Filter(s, U) = h[Len(s)]
  BY FilterBuilt, Zenon
<1> DEFINE P == {n \in Nat : n \in 0 .. Len(s) => Len(g[n]) <= Len(h[n])}
<1>3. Len(s) \in Nat /\ \A i \in 1 .. Len(s) : s[i] \in S
  OBVIOUS
<1>4. \A n \in 0 .. Len(s) : g[n] \in Seq(S \cap T) /\ h[n] \in Seq(S \cap U)
  BY <1>1, <1>2, BuildsType, Zenon
<1>5. 0 \in P
  <2>1. g[0] = <<>> /\ h[0] = <<>>
    BY <1>1, <1>2, Zenon DEF Builds
  <2> QED
    BY <2>1
<1>6. ASSUME NEW n \in Nat, n \in P PROVE n + 1 \in P
  <2> SUFFICES ASSUME n + 1 \in 0 .. Len(s) PROVE Len(g[n + 1]) <= Len(h[n + 1])
    OBVIOUS
  <2>1. n + 1 \in 1 .. Len(s) /\ n \in 0 .. Len(s) /\ (n + 1) - 1 = n
    BY <1>3
  <2> DEFINE x == s[n + 1]
             u == g[n]
             v == h[n]
  <2>2. g[n + 1] = IF x \in T THEN Append(u, x) ELSE u
    BY <1>1, <2>1, Zenon DEF Builds
  <2>3. h[n + 1] = IF x \in U THEN Append(v, x) ELSE v
    BY <1>2, <2>1, Zenon DEF Builds
  <2>4. x \in S /\ u \in Seq(S \cap T) /\ v \in Seq(S \cap U) /\ Len(u) <= Len(v)
    BY <1>3, <1>4, <1>6, <2>1, Zenon
  <2> HIDE DEF x, u, v
  <2>5. /\ x \in T => Len(Append(u, x)) = Len(u) + 1
        /\ x \in U => Len(Append(v, x)) = Len(v) + 1
        /\ Len(u) \in Nat /\ Len(v) \in Nat
    BY <2>4
  <2>6. \A p, q \in Nat : p <= q => p <= q + 1 /\ p + 1 <= q + 1
    OBVIOUS
  <2> QED
    BY <2>2, <2>3, <2>4, <2>5, <2>6, Zenon
<1> HIDE DEF P
<1>7. Len(s) \in P
  BY <1>3, <1>5, <1>6, SetInduction, Zenon
<1> QED
  BY <1>1, <1>2, <1>3, <1>7 DEF P
==============================================================================
