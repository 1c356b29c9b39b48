--------------------------- MODULE JitCacheProofs ---------------------------
(***************************************************************************)
(* The code cache stays sound for any functions, sizes and limits, and what *)
(* it answers with is the code it knows as used last.                       *)
(***************************************************************************)
EXTENDS JitCache, FiniteSetTheorems, TLAPS

-----------------------------------------------------------------------------
(* Sequences and numbers *)

\* A sequence has a length, and its elements are of its set.
LEMMA EntriesFacts ==
  ASSUME NEW S, NEW q \in Seq(S)
  PROVE  /\ Len(q) \in Nat
         /\ DOMAIN q = 1..Len(q)
         /\ \A i \in 1..Len(q) : q[i] \in S
OBVIOUS

\* The empty sequence is a sequence over every set.
LEMMA NoEntries == \A S : <<>> \in Seq(S) /\ Len(<<>>) = 0
OBVIOUS

\* A sequence is empty exactly when its length is 0.
LEMMA EmptyWhen ==
  ASSUME NEW S, NEW q \in Seq(S)
  PROVE  q = <<>> <=> Len(q) = 0
OBVIOUS

\* Append keeps the elements and adds one at the end.
LEMMA AppendedFacts ==
  ASSUME NEW S, NEW q \in Seq(S), NEW x \in S
  PROVE  /\ Append(q, x) \in Seq(S)
         /\ Len(Append(q, x)) = Len(q) + 1
         /\ \A i \in 1..Len(q) : Append(q, x)[i] = q[i]
         /\ Append(q, x)[Len(q) + 1] = x
OBVIOUS

\* The elements of a part of a sequence are those of the sequence, shifted.
LEMMA PartFacts ==
  ASSUME NEW S, NEW q \in Seq(S), NEW m \in 1..(Len(q) + 1), NEW n \in 0..Len(q)
  PROVE  /\ SubSeq(q, m, n) \in Seq(S)
         /\ Len(SubSeq(q, m, n)) = IF m <= n THEN n - m + 1 ELSE 0
         /\ \A i \in 1..(n - m + 1) : SubSeq(q, m, n)[i] = q[m + i - 1]
OBVIOUS

\* Taking one entry out of the list keeps the order of the others.
LEMMA WithoutFacts ==
  ASSUME NEW S, NEW q \in Seq(S), NEW i \in 1..Len(q)
  PROVE  /\ Without(q, i) \in Seq(S)
         /\ Len(Without(q, i)) = Len(q) - 1
         /\ \A k \in 1..(Len(q) - 1) : Without(q, i)[k] = q[IF k < i THEN k ELSE k + 1]
BY DEF Without

\* Every nonempty set of numbers has a least element.
LEMMA LeastNumber ==
  ASSUME NEW T, T \subseteq Nat, T # {}
  PROVE  \E x \in T : \A y \in T : x <= y
<1>1. PICK x \in T : \A y \in T : ~(<<y, x>> \in OpToRel(<, Nat))
  BY Zenon, WFMin, NatLessThanWellFounded
<1>2. \A y \in T : ~ (y < x)
  BY Zenon, <1>1 DEF OpToRel
<1> QED
  BY <1>2

\* A set with a property closed under successors holds every number up to n.
LEMMA Upto ==
  ASSUME NEW n \in Nat, NEW T, 0 \in T, \A k \in Nat : k < n /\ k \in T => k + 1 \in T
  PROVE  \A k \in 0..n : k \in T
<1> DEFINE U == {k \in Nat : k <= n /\ k \notin T}
<1>1. SUFFICES ASSUME U # {} PROVE FALSE
  OBVIOUS
<1>2. PICK x \in U : \A y \in U : x <= y
  BY Zenon, <1>1, LeastNumber
<1>3. x # 0 /\ x - 1 \in Nat /\ x - 1 < n /\ x - 1 \notin U /\ (x - 1) + 1 = x
  BY <1>2
<1> QED BY <1>2, <1>3

-----------------------------------------------------------------------------
(* The size of the cached code *)

\* g[n] is the size of the first n entries of s.
Prefix(s, g, n) ==
  /\ g \in [0..n -> Nat] /\ g[0] = 0
  /\ \A i \in 1..n : g[i] = g[i - 1] + Size[s[i].fn]

\* Every mapping has a size.
LEMMA SizeType == \A c \in Mapping : Size[c.fn] \in Nat
BY JitCacheAssumption DEF Mapping

\* The prefix sums of a sequence exist.
LEMMA PrefixExists ==
  ASSUME NEW s \in Seq(Mapping)
  PROVE  \E g \in [0..Len(s) -> Nat] : Prefix(s, g, Len(s))
<1> DEFINE T == {n \in 0..Len(s) : \E g \in [0..n -> Nat] : Prefix(s, g, n)}
<1>1. Len(s) \in Nat /\ \A i \in 1..Len(s) : Size[s[i].fn] \in Nat
  BY EntriesFacts, SizeType
<1>2. 0 \in T
  <2> DEFINE g == [i \in 0..0 |-> 0]
  <2>1. g \in [0..0 -> Nat] /\ Prefix(s, g, 0) BY DEF Prefix
  <2> QED BY <1>1, <2>1
<1>3. ASSUME NEW k \in Nat, k < Len(s), k \in T PROVE k + 1 \in T
  <2>1. PICK g \in [0..k -> Nat] : Prefix(s, g, k) BY <1>3
  <2>2. PICK z \in Nat : z = Size[s[k + 1].fn]
    <3>1. k + 1 \in 1..Len(s) BY <1>1, <1>3
    <3>2. Size[s[k + 1].fn] \in Nat BY Zenon, <1>1, <3>1
    <3> QED BY Zenon, <3>2
  <2> DEFINE h == [i \in 0..(k + 1) |-> IF i = k + 1 THEN g[k] + z ELSE g[i]]
  <2>3. h \in [0..(k + 1) -> Nat] /\ h[0] = 0 BY <2>1 DEF Prefix
  <2>4. \A i \in 1..(k + 1) : h[i] = h[i - 1] + Size[s[i].fn]
    BY <2>1, <2>2 DEF Prefix
  <2> HIDE DEF h
  <2>5. Prefix(s, h, k + 1) BY Zenon, <2>3, <2>4 DEF Prefix
  <2>6. k + 1 \in 0..Len(s) BY <1>1, <1>3
  <2> QED BY Zenon, <2>3, <2>5, <2>6
<1> HIDE DEF T
<1>4. \A k \in 0..Len(s) : k \in T
  BY Zenon, <1>1, <1>2, <1>3, Upto
<1>5. Len(s) \in T BY <1>1, <1>4
<1> QED BY <1>5 DEF T

\* Total is the last of them.
LEMMA TotalIs ==
  ASSUME NEW s \in Seq(Mapping), NEW g, Prefix(s, g, Len(s))
  PROVE  Total(s) = g[Len(s)] /\ Total(s) \in Nat
<1> DEFINE F(f) == [n \in 0..Len(s) |-> IF n = 0 THEN 0 ELSE f[n - 1] + Size[s[n].fn]]
<1>1. Len(s) \in Nat BY EntriesFacts
<1>2. g = F(g)
  <2>1. g = [i \in 0..Len(s) |-> g[i]] BY DEF Prefix
  <2>2. \A i \in 0..Len(s) : g[i] = IF i = 0 THEN 0 ELSE g[i - 1] + Size[s[i].fn]
    BY <1>1 DEF Prefix
  <2> QED BY Zenon, <2>1, <2>2
<1>3. PICK f : f = F(f) /\ f = CHOOSE h : h = F(h)
  BY Zenon, <1>2
<1>4. Total(s) = f[Len(s)]
  BY Zenon, <1>3 DEF Total
<1>5. \A n \in 0..Len(s) : f[n] = IF n = 0 THEN 0 ELSE f[n - 1] + Size[s[n].fn]
  BY Zenon, <1>3
<1> DEFINE T == {n \in 0..Len(s) : f[n] = g[n]}
<1> HIDE DEF F
<1>6. 0 \in T BY <1>1, <1>5 DEF Prefix
<1>7. ASSUME NEW k \in Nat, k < Len(s), k \in T PROVE k + 1 \in T
  <2>1. k + 1 \in 1..Len(s) /\ (k + 1) - 1 = k /\ k + 1 # 0 /\ k + 1 \in 0..Len(s)
    BY <1>1, <1>7
  <2>2. f[k + 1] = f[k] + Size[s[k + 1].fn] BY <1>5, <2>1
  <2>3. g[k + 1] = g[k] + Size[s[k + 1].fn] BY <2>1 DEF Prefix
  <2> QED BY <2>1, <2>2, <2>3, <1>7
<1> HIDE DEF T
<1>8. \A k \in 0..Len(s) : k \in T
  BY <1>1, <1>6, <1>7, Upto
<1>9. f[Len(s)] = g[Len(s)] BY <1>1, <1>8 DEF T
<1> QED BY <1>1, <1>4, <1>9 DEF Prefix

Adds(s, g, k) ==
  g[k + 1] = g[k] + Size[s[k + 1].fn] /\ g[k] \in Nat /\ g[k + 1] \in Nat

\* A sequence of partial sums grows at each entry by that entry's size.
LEMMA PrefixStep ==
  ASSUME NEW s, NEW g, NEW n \in Nat, Prefix(s, g, n), NEW k \in Nat, k < n
  PROVE  Adds(s, g, k)
<1>1. k + 1 \in 1..n /\ (k + 1) - 1 = k /\ k \in 0..n /\ k + 1 \in 0..n
  OBVIOUS
<1>2. g \in [0..n -> Nat] /\ \A i \in 1..n : g[i] = g[i - 1] + Size[s[i].fn]
  BY Zenon DEF Prefix
<1>3. g[k + 1] = g[(k + 1) - 1] + Size[s[k + 1].fn]
  BY Zenon, <1>1, <1>2
<1> QED BY <1>1, <1>2, <1>3 DEF Adds

\* A function that starts at 0 and grows by each entry's size is a sequence of
\* partial sums.
LEMMA PrefixIs ==
  ASSUME NEW s, NEW n \in Nat, NEW g \in [0..n -> Nat], g[0] = 0,
         \A k \in Nat : k < n => g[k + 1] = g[k] + Size[s[k + 1].fn]
  PROVE  Prefix(s, g, n)
<1>1. ASSUME NEW i \in 1..n PROVE g[i] = g[i - 1] + Size[s[i].fn]
  <2>1. i - 1 \in Nat /\ i - 1 < n /\ (i - 1) + 1 = i OBVIOUS
  <2>2. g[(i - 1) + 1] = g[i - 1] + Size[s[(i - 1) + 1].fn] BY <2>1
  <2> QED BY <2>1, <2>2
<1> QED BY <1>1 DEF Prefix

\* The bytes that a list of entries takes are a natural number.
LEMMA TotalNat ==
  ASSUME NEW s \in Seq(Mapping)
  PROVE  Total(s) \in Nat
BY Zenon, PrefixExists, TotalIs

\* An empty list takes no bytes.
LEMMA TotalEmpty == Total(<<>>) = 0
<1> USE Zenon
<1>1. PICK s \in Seq(Mapping) : s = <<>> /\ Len(s) = 0
  BY NoEntries
<1>2. PICK g \in [0..Len(s) -> Nat] : Prefix(s, g, Len(s)) BY PrefixExists
<1>3. Total(s) = g[Len(s)] BY <1>2, TotalIs
<1> QED BY SMT, <1>1, <1>2, <1>3 DEF Prefix

\* An entry is added at the end.
LEMMA TotalAppend ==
  ASSUME NEW s \in Seq(Mapping), NEW c \in Mapping
  PROVE  Total(Append(s, c)) = Total(s) + Size[c.fn]
<1>1. PICK n \in Nat : n = Len(s) BY EntriesFacts
<1>2. PICK g \in [0..n -> Nat] : Prefix(s, g, n) BY Zenon, <1>1, PrefixExists
<1>3. Total(s) = g[n] BY Zenon, <1>1, <1>2, TotalIs
<1>4. PICK t \in Seq(Mapping) : t = Append(s, c) BY Zenon, AppendedFacts
<1>5. Len(t) = n + 1 /\ t[n + 1] = c /\ \A i \in 1..n : t[i] = s[i]
  BY <1>1, <1>4, AppendedFacts
<1>6. PICK z \in Nat : z = Size[c.fn] BY Zenon, SizeType
<1> DEFINE h == [i \in 0..(n + 1) |-> IF i = n + 1 THEN g[n] + z ELSE g[i]]
<1>7. h \in [0..(n + 1) -> Nat] /\ h[0] = 0 /\ h[n + 1] = g[n] + z BY <1>2 DEF Prefix
<1>8. ASSUME NEW k \in Nat, k < n + 1 PROVE h[k + 1] = h[k] + Size[t[k + 1].fn]
  <2>1. CASE k = n BY <2>1, <1>5, <1>6
  <2>2. CASE k < n
    <3>1. Adds(s, g, k) BY Zenon, <2>2, <1>2, PrefixStep
    <3>2. t[k + 1] = s[k + 1] BY <2>2, <1>5
    <3>3. h[k] = g[k] /\ h[k + 1] = g[k + 1] BY <2>2
    <3> QED BY <3>1, <3>2, <3>3 DEF Adds
  <2> QED BY <2>1, <2>2, <1>8
<1> HIDE DEF h
<1>9. Prefix(t, h, Len(t))
  <2>1. n + 1 \in Nat OBVIOUS
  <2> QED BY Zenon, <2>1, <1>5, <1>7, <1>8, PrefixIs
<1>10. Total(t) = h[n + 1] BY Zenon, <1>5, <1>9, TotalIs
<1> QED BY <1>3, <1>4, <1>6, <1>7, <1>10

\* A sequence is split in two.
LEMMA TotalSplit ==
  ASSUME NEW s \in Seq(Mapping), NEW k \in 0..Len(s)
  PROVE  Total(s) = Total(SubSeq(s, 1, k)) + Total(SubSeq(s, k + 1, Len(s)))
<1>1. PICK n \in Nat : n = Len(s) BY EntriesFacts
<1>2. PICK g \in [0..n -> Nat] : Prefix(s, g, n) BY Zenon, <1>1, PrefixExists
<1>3. Total(s) = g[n] BY Zenon, <1>1, <1>2, TotalIs
<1>4. PICK p : p = SubSeq(s, 1, k) BY Zenon
<1>5. p \in Seq(Mapping) /\ Len(p) = k /\ \A i \in 1..k : p[i] = s[i]
  <2>1. 1 \in 1..(n + 1) /\ k \in 0..n BY <1>1
  <2>2. /\ SubSeq(s, 1, k) \in Seq(Mapping)
        /\ Len(SubSeq(s, 1, k)) = IF 1 <= k THEN k - 1 + 1 ELSE 0
        /\ \A i \in 1..(k - 1 + 1) : SubSeq(s, 1, k)[i] = s[1 + i - 1]
    BY <2>1, <1>1, PartFacts
  <2> QED BY <2>1, <2>2, <1>4
<1>6. PICK q : q = SubSeq(s, k + 1, n) BY Zenon
<1>7. q \in Seq(Mapping) /\ Len(q) = n - k /\ \A i \in 1..(n - k) : q[i] = s[k + i]
  <2>1. k + 1 \in 1..(n + 1) /\ n \in 0..n BY <1>1
  <2>2. /\ SubSeq(s, k + 1, n) \in Seq(Mapping)
        /\ Len(SubSeq(s, k + 1, n)) = IF k + 1 <= n THEN n - (k + 1) + 1 ELSE 0
        /\ \A i \in 1..(n - (k + 1) + 1) : SubSeq(s, k + 1, n)[i] = s[(k + 1) + i - 1]
    BY <2>1, <1>1, PartFacts
  <2> QED BY <2>1, <2>2, <1>1, <1>6
<1>8. Total(p) = g[k]
  <2> DEFINE h == [i \in 0..k |-> g[i]]
  <2>1. k \in Nat /\ k <= n BY <1>1
  <2>2. h \in [0..k -> Nat] /\ h[0] = 0 /\ h[k] = g[k] BY <2>1, <1>2 DEF Prefix
  <2>3. ASSUME NEW i \in Nat, i < k PROVE h[i + 1] = h[i] + Size[p[i + 1].fn]
    <3>3. i < n BY <2>1, <2>3
    <3>1. Adds(s, g, i) BY Zenon, <3>3, <1>2, PrefixStep
    <3>2. p[i + 1] = s[i + 1] /\ h[i] = g[i] /\ h[i + 1] = g[i + 1] BY <2>1, <2>3, <1>5
    <3> QED BY <3>1, <3>2 DEF Adds
  <2> HIDE DEF h
  <2>4. Prefix(p, h, k) BY Zenon, <2>1, <2>2, <2>3, PrefixIs
  <2> QED BY <1>5, <2>2, <2>4, TotalIs
<1>9. PICK m : m = n - k /\ m \in Nat BY <1>1
<1>10. PICK h \in [0..m -> Nat] : Prefix(q, h, m) BY Zenon, <1>7, <1>9, PrefixExists
<1>11. Total(q) = h[m] BY Zenon, <1>7, <1>9, <1>10, TotalIs
<1>12. g[n] = g[k] + h[m]
  <2> DEFINE P(i) == g[k + i] = g[k] + h[i]
  <2> DEFINE T == {i \in 0..m : P(i)}
  <2>1. P(0) BY <1>1, <1>2, <1>10 DEF Prefix
  <2>2. ASSUME NEW i \in Nat, i < m, P(i) PROVE P(i + 1)
    <3> HIDE DEF T
    <3>1. i + 1 \in 1..m /\ k + i \in Nat /\ k + i < n /\ (k + i) + 1 = k + (i + 1)
      BY <1>1, <1>9, <2>2
    <3>2. q[i + 1] = s[k + (i + 1)] BY <3>1, <1>7, <1>9
    <3>3. Adds(q, h, i) BY Zenon, <2>2, <1>9, <1>10, PrefixStep
    <3>4. Adds(s, g, k + i) BY Zenon, <3>1, <1>2, PrefixStep
    <3>5. g[k] \in Nat /\ Size[s[k + (i + 1)].fn] \in Nat
      <4>1. k \in 0..n /\ k + (i + 1) \in 1..n BY <3>1, <1>1
      <4>2. g[k] \in Nat BY <4>1, <1>2
      <4> QED BY <4>1, <4>2, <1>1, EntriesFacts, SizeType
    <3>6. PICK z \in Nat : z = Size[s[k + (i + 1)].fn] BY Zenon, <3>5
    <3>7. PICK x \in Nat, y \in Nat : x = g[k] /\ y = h[i] BY <3>3, <3>5 DEF Adds
    <3>8. h[i + 1] = y + z BY Zenon, <3>2, <3>3, <3>6, <3>7 DEF Adds
    <3>9. g[k + (i + 1)] = g[k + i] + z BY Zenon, <3>1, <3>4, <3>6 DEF Adds
    <3>10. g[k + i] = x + y BY Zenon, <2>2, <3>7
    <3>11. (x + y) + z = x + (y + z) OBVIOUS
    <3> QED BY Zenon, <3>7, <3>8, <3>9, <3>10, <3>11
  <2> HIDE DEF P
  <2>5. 0 \in T BY <1>9, <2>1
  <2>6. \A i \in Nat : i < m /\ i \in T => i + 1 \in T BY <1>9, <2>2
  <2> HIDE DEF T
  <2>3. \A i \in 0..m : i \in T BY Zenon, <1>9, <2>5, <2>6, Upto
  <2>4. m \in T BY <1>9, <2>3
  <2>7. P(m) BY <2>4 DEF T
  <2> QED BY <2>7, <1>9, <1>1 DEF P
<1> QED BY Zenon, <1>1, <1>3, <1>4, <1>6, <1>8, <1>11, <1>12

\* An entry is taken out.
LEMMA TotalWithout ==
  ASSUME NEW s \in Seq(Mapping), NEW i \in 1..Len(s)
  PROVE  Total(Without(s, i)) + Size[s[i].fn] = Total(s)
<1>1. PICK n \in Nat : n = Len(s) /\ n # 0 BY EntriesFacts
<1>2. PICK g \in [0..n -> Nat] : Prefix(s, g, n) BY Zenon, <1>1, PrefixExists
<1>3. Total(s) = g[n] BY Zenon, <1>1, <1>2, TotalIs
<1>4. PICK w \in Seq(Mapping) : w = Without(s, i) BY Zenon, WithoutFacts
<1>5. Len(w) = n - 1 /\ \A k \in 1..(n - 1) : w[k] = s[IF k < i THEN k ELSE k + 1]
  BY Zenon, <1>1, <1>4, WithoutFacts
<1>6. PICK m \in Nat : m = n - 1 BY <1>1
<1>7. PICK h \in [0..m -> Nat] : Prefix(w, h, m) BY Zenon, <1>5, <1>6, PrefixExists
<1>8. Total(w) = h[m] BY Zenon, <1>5, <1>6, <1>7, TotalIs
<1>9. \A k \in 1..n : Size[s[k].fn] \in Nat BY <1>1, EntriesFacts, SizeType
<1>10. PICK z \in Nat : z = Size[s[i].fn] BY Zenon, <1>1, <1>9
<1> DEFINE P(k) == h[k] + (IF k < i THEN 0 ELSE z) = g[IF k < i THEN k ELSE k + 1]
<1> DEFINE T == {k \in 0..m : P(k)}
<1>11. P(0) BY <1>1, <1>2, <1>7 DEF Prefix
<1>12. ASSUME NEW k \in Nat, k < m, P(k) PROVE P(k + 1)
  <2> HIDE DEF T
  <2>1. /\ k + 1 \in 1..m /\ k + 1 \in 1..n /\ k + 2 \in 1..n /\ i \in 1..n
        /\ k < n /\ k + 1 \in Nat /\ k + 1 < n /\ (k + 1) + 1 = k + 2
    BY <1>1, <1>6, <1>12
  <2>2. h[k + 1] = h[k] + Size[w[k + 1].fn] /\ h[k] \in Nat
    <3>1. Adds(w, h, k) BY Zenon, <1>7, <1>12, PrefixStep
    <3> QED BY <3>1 DEF Adds
  <2>3. g[k + 1] = g[k] + Size[s[k + 1].fn] /\ g[k] \in Nat /\ g[k + 1] \in Nat
    <3>1. Adds(s, g, k) BY Zenon, <2>1, <1>2, PrefixStep
    <3> QED BY <3>1 DEF Adds
  <2>4. g[k + 2] = g[k + 1] + Size[s[k + 2].fn]
    <3>1. Adds(s, g, k + 1) BY Zenon, <2>1, <1>2, PrefixStep
    <3> QED BY <3>1, <2>1 DEF Adds
  <2>5. w[k + 1] = s[IF k + 1 < i THEN k + 1 ELSE (k + 1) + 1] BY Zenon, <2>1, <1>5, <1>6
  <2>6. Size[s[k + 1].fn] \in Nat /\ Size[s[k + 2].fn] \in Nat BY Zenon, <2>1, <1>9
  <2>7. CASE k + 1 < i
    <3>1. k < i BY <2>7, <1>1
    <3>2. h[k] + 0 = g[k] BY Zenon, <1>12, <3>1
    <3>3. h[k] = g[k] BY <3>2, <2>2
    <3>4. w[k + 1] = s[k + 1] BY Zenon, <2>5, <2>7
    <3>5. h[k + 1] = g[k + 1] BY Zenon, <2>2, <2>3, <3>3, <3>4
    <3> QED BY <2>3, <2>7, <3>5
  <2>10. PICK x \in Nat, y \in Nat, v \in Nat :
          x = h[k] /\ y = Size[s[k + 1].fn] /\ v = Size[s[k + 2].fn]
    BY Zenon, <2>2, <2>6
  <2>8. CASE k + 1 = i
    <3>1. k < i /\ ~(k + 1 < i) BY <1>1, <2>8
    <3>2. h[k] + 0 = g[k] BY Zenon, <1>12, <3>1
    <3>3. w[k + 1] = s[k + 2] BY Zenon, <2>1, <2>5, <3>1
    <3>4. h[k] = g[k] BY <2>2, <3>2
    <3>5. h[k + 1] = x + v /\ z = y BY Zenon, <3>3, <2>2, <2>8, <2>10, <1>10
    <3>6. g[k + 2] = (x + y) + v BY Zenon, <3>4, <2>3, <2>4, <2>10
    <3>7. h[k + 1] + z = g[k + 2] BY <3>5, <3>6
    <3> QED BY <3>7, <2>1, <2>8
  <2>9. CASE k + 1 > i
    <3>1. ~(k < i) /\ ~(k + 1 < i) BY <2>1, <2>9
    <3>2. x + z = g[k + 1] BY Zenon, <1>12, <2>10, <3>1
    <3>3. w[k + 1] = s[k + 2] BY Zenon, <2>1, <2>5, <3>1
    <3>4. h[k + 1] = x + v BY Zenon, <3>3, <2>2, <2>10
    <3>5. g[k + 2] = (x + z) + v BY Zenon, <3>2, <2>4, <2>10
    <3>6. h[k + 1] + z = g[k + 2] BY <3>4, <3>5
    <3> QED BY <3>6, <2>1, <2>9
  <2> QED BY <2>7, <2>8, <2>9, <2>1
<1> HIDE DEF P
<1>15. 0 \in T BY <1>11
<1>16. \A k \in Nat : k < m /\ k \in T => k + 1 \in T BY <1>12
<1> HIDE DEF T
<1>13. \A k \in 0..m : k \in T BY Zenon, <1>15, <1>16, Upto
<1>14. h[m] + z = g[n]
  <2>1. P(m) /\ ~(m < i /\ i # n) BY <1>1, <1>6, <1>13 DEF T
  <2>2. CASE m < i
    <3>4. h[m] + 0 = g[m] BY Zenon, <2>1, <2>2 DEF P
    <3>5. h[m] \in Nat BY <1>7
    <3>1. i = n /\ h[m] = g[m] BY <2>1, <2>2, <3>4, <3>5
    <3>2. n \in 1..n /\ n - 1 = m BY <1>1, <1>6
    <3>3. g[n] = g[m] + z BY <1>2, <1>10, <3>1, <3>2 DEF Prefix
    <3> QED BY <3>1, <3>3
  <2>3. CASE ~(m < i) BY <1>1, <1>6, <2>1, <2>3 DEF P
  <2> QED BY <2>2, <2>3
<1> QED BY Zenon, <1>3, <1>4, <1>8, <1>10, <1>14

-----------------------------------------------------------------------------
(* The cache *)


\* What a sound cache says about the types of its fields.
LEMMA SoundType ==
  ASSUME NEW s, NEW u, NEW d, NEW e, Sound(s, u, d, e)
  PROVE  /\ s \in Seq(Mapping) /\ Len(s) \in Nat /\ DOMAIN s = 1..Len(s)
         /\ \A i \in 1..Len(s) : s[i] \in Mapping
         /\ u \in Nat
<1>1. s \in Seq(Mapping) /\ u = Total(s) BY DEF Sound
<1>2. u \in Nat BY Zenon, <1>1, TotalNat
<1> QED BY Zenon, <1>1, <1>2, EntriesFacts

\* touch_compiled keeps the cache sound.
LEMMA TouchSound ==
  ASSUME CacheInv, NEW c \in Range(lru)
  PROVE  /\ Sound(Touched(c), used_bytes, disabled, rejected)
         /\ Touched(c) # <<>> /\ Touched(c)[Len(Touched(c))] = c
<1> USE Zenon
<1>1. Sound(lru, used_bytes, disabled, rejected) BY SMT DEF CacheInv
<1>2. PICK n \in Nat : n = Len(lru) /\ lru \in Seq(Mapping) /\ DOMAIN lru = 1..n
                       /\ \A i \in 1..n : lru[i] \in Mapping
  BY <1>1, SoundType
<1>3. \E i \in DOMAIN lru : lru[i] = c BY SMT DEF Range
<1>4. PICK j \in 1..n : lru[j] = c /\ j = CHOOSE i \in DOMAIN lru : lru[i] = c
  BY <1>2, <1>3
<1>5. PICK w \in Seq(Mapping) : w = Without(lru, j) BY <1>2, WithoutFacts
<1>6. Len(w) = n - 1 /\ \A k \in 1..(n - 1) : w[k] = lru[IF k < j THEN k ELSE k + 1]
  BY <1>2, <1>5, WithoutFacts
<1>7. c \in Mapping BY SMT, <1>2, <1>4
<1>8. PICK t \in Seq(Mapping) : t = Append(w, c) BY <1>7, AppendedFacts
<1>9. Len(t) = n /\ t[n] = c /\ \A k \in 1..(n - 1) : t[k] = lru[IF k < j THEN k ELSE k + 1]
  <2>1. /\ Len(t) = Len(w) + 1 /\ t[Len(w) + 1] = c
        /\ \A i \in 1..Len(w) : t[i] = w[i]
    BY SMT, <1>7, <1>8, AppendedFacts
  <2> QED BY SMT, <2>1, <1>6
<1>10. Touched(c) = t
  BY <1>4, <1>5, <1>8 DEF Touched
<1>11. DOMAIN t = 1..n BY SMT, <1>8, <1>9, EntriesFacts
<1> DEFINE old == [k \in 1..n |-> IF k = n THEN j ELSE IF k < j THEN k ELSE k + 1]
<1>12. \A k \in 1..n : old[k] \in 1..n /\ t[k] = lru[old[k]]
  BY SMT, <1>4, <1>9
<1>13. \A k, l \in 1..n : old[k] = old[l] => k = l
  BY SMT
<1> HIDE DEF old
<1>14. OncePerFn(t)
  <2>1. \A k, l \in 1..n : lru[k].fn = lru[l].fn => k = l
    BY <1>1, <1>2 DEF Sound, OncePerFn
  <2>2. ASSUME NEW k \in 1..n, NEW l \in 1..n, t[k].fn = t[l].fn PROVE k = l
    <3>1. lru[old[k]].fn = lru[old[l]].fn BY <1>12, <2>2
    <3>2. old[k] = old[l] BY <1>12, <2>1, <3>1
    <3> QED BY <1>13, <3>2
  <2> QED BY <2>2, <1>11 DEF OncePerFn
<1>15. \A k \in DOMAIN t : t[k].fn \notin disabled
  BY <1>1, <1>2, <1>11, <1>12 DEF Sound
<1>16. used_bytes = Total(t)
  <2>1. Total(t) = Total(w) + Size[c.fn] BY <1>7, <1>8, TotalAppend
  <2>2. Total(w) + Size[c.fn] = Total(lru) BY <1>2, <1>4, <1>5, TotalWithout
  <2> QED BY SMT, <2>1, <2>2, <1>1 DEF Sound
<1>17. Sound(t, used_bytes, disabled, rejected)
  BY <1>1, <1>8, <1>14, <1>15, <1>16 DEF Sound
<1>18. t # <<>> /\ t[Len(t)] = c BY SMT, <1>8, <1>9
<1> QED BY <1>10, <1>17, <1>18

Kept(k) == SubSeq(lru, k + 1, Len(lru))
Left(k) == used_bytes - Total(SubSeq(lru, 1, k))

\* evict_until finds how much to drop, and what is left is sound.
LEMMA EvictSound ==
  ASSUME CacheInv, NEW target \in Nat, target <= MaxBytes
  PROVE  \E k \in 0..Len(lru) :
           /\ k = EvictUntil(target) /\ Left(k) <= target /\ Left(k) \in Nat
           /\ Sound(Kept(k), Left(k), disabled, rejected)
           /\ \A x \in DOMAIN Kept(k) : \E y \in DOMAIN lru : Kept(k)[x] = lru[y]
<1> USE Zenon
<1>1. Sound(lru, used_bytes, disabled, rejected) BY SMT DEF CacheInv
<1>2. PICK n \in Nat : n = Len(lru) /\ lru \in Seq(Mapping) /\ DOMAIN lru = 1..n
  BY <1>1, SoundType
<1>3. ASSUME NEW k \in 0..n
      PROVE  Left(k) = Total(Kept(k)) /\ Left(k) \in Nat
  <2>1. Total(lru) = Total(SubSeq(lru, 1, k)) + Total(SubSeq(lru, k + 1, Len(lru)))
    BY <1>2, TotalSplit
  <2>2. Total(SubSeq(lru, 1, k)) \in Nat /\ Total(SubSeq(lru, k + 1, Len(lru))) \in Nat
    <3>1. 1 \in 1..(n + 1) /\ k + 1 \in 1..(n + 1) /\ n \in 0..n BY SMT
    <3>2. SubSeq(lru, 1, k) \in Seq(Mapping) /\ SubSeq(lru, k + 1, n) \in Seq(Mapping)
      BY <3>1, <1>2, PartFacts
    <3> QED BY <3>2, <1>2, TotalNat
  <2>3. used_bytes = Total(lru) BY SMT, <1>1 DEF Sound
  <2>4. PICK x \in Nat, y \in Nat : x = Total(SubSeq(lru, 1, k)) /\ y = Total(SubSeq(lru, k + 1, Len(lru)))
    BY <2>2
  <2>5. used_bytes = x + y BY <2>1, <2>3, <2>4
  <2>6. Left(k) = (x + y) - x /\ Total(Kept(k)) = y BY <2>4, <2>5 DEF Left, Kept
  <2> QED BY SMT, <2>6
<1> DEFINE fits == {k \in 0..Len(lru) : used_bytes - Total(SubSeq(lru, 1, k)) <= target}
<1>4. n \in fits
  <2>1. Kept(n) = <<>>
    <3>1. n + 1 \in 1..(n + 1) /\ n \in 0..n /\ ~(n + 1 <= n) BY SMT
    <3>2. SubSeq(lru, n + 1, n) \in Seq(Mapping) /\ Len(SubSeq(lru, n + 1, n)) = 0
      BY <3>1, <1>2, PartFacts
    <3> QED BY <3>2, <1>2, EmptyWhen DEF Kept
  <2>2. n \in 0..n BY SMT
  <2>3. Left(n) = 0 BY <2>1, <2>2, <1>3, TotalEmpty
  <2>4. Left(n) <= target BY SMT, <2>3
  <2> QED BY <2>2, <2>4, <1>2 DEF Left
<1>5. fits \subseteq Nat /\ fits # {} BY SMT, <1>2, <1>4
<1>6. \E k \in fits : \A o \in fits : k <= o BY <1>5, LeastNumber
<1>7. PICK k : k \in fits /\ k = EvictUntil(target)
  BY <1>6 DEF EvictUntil
<1>8. k \in 0..n /\ Left(k) <= target BY SMT, <1>2, <1>7 DEF Left
<1> HIDE DEF fits
<1>9. PICK q : q = Kept(k) OBVIOUS
<1>10. q \in Seq(Mapping) /\ Len(q) = n - k /\ \A i \in 1..(n - k) : q[i] = lru[k + i]
  <2>1. k + 1 \in 1..(n + 1) /\ n \in 0..n BY SMT, <1>8
  <2>2. /\ SubSeq(lru, k + 1, n) \in Seq(Mapping)
        /\ Len(SubSeq(lru, k + 1, n)) = IF k + 1 <= n THEN n - (k + 1) + 1 ELSE 0
        /\ \A i \in 1..(n - (k + 1) + 1) : SubSeq(lru, k + 1, n)[i] = lru[(k + 1) + i - 1]
    BY SMT, <2>1, <1>2, PartFacts
  <2> QED BY SMT, <2>1, <2>2, <1>2, <1>8, <1>9 DEF Kept
<1>11. DOMAIN q = 1..(n - k) BY <1>10, EntriesFacts
<1>12. \A i \in 1..(n - k) : k + i \in 1..n BY SMT, <1>8
<1>13. \A x \in DOMAIN q : \E y \in DOMAIN lru : q[x] = lru[y]
  BY <1>2, <1>10, <1>11, <1>12
<1>14. OncePerFn(q)
  <2>1. \A i, j \in 1..n : lru[i].fn = lru[j].fn => i = j
    BY <1>1, <1>2 DEF Sound, OncePerFn
  <2>2. ASSUME NEW i \in 1..(n - k), NEW j \in 1..(n - k), q[i].fn = q[j].fn PROVE i = j
    <3>2. q[i] = lru[k + i] /\ q[j] = lru[k + j] /\ k + i \in 1..n /\ k + j \in 1..n
      BY <1>10, <1>12
    <3>3. lru[k + i].fn = lru[k + j].fn BY <2>2, <3>2
    <3>1. k + i = k + j BY <2>1, <3>2, <3>3
    <3> QED BY SMT, <3>1, <1>8
  <2> QED BY <2>2, <1>11 DEF OncePerFn
<1>15. \A x \in DOMAIN q : q[x].fn \notin disabled
  BY <1>1, <1>13 DEF Sound
<1>16. Left(k) = Total(q) /\ Left(k) \in Nat BY <1>3, <1>8, <1>9
<1>17. Left(k) <= MaxBytes BY SMT, <1>8, <1>16, JitCacheAssumption
<1>18. Sound(q, Left(k), disabled, rejected)
  BY <1>1, <1>10, <1>14, <1>15, <1>16, <1>17 DEF Sound
<1> QED BY <1>2, <1>7, <1>8, <1>9, <1>13, <1>16, <1>18

\* The numbers taken so far leave one free.
LEMMA FreshFacts ==
  ASSUME CacheInv, NEW f \in Funcs, NEW held, IsFiniteSet(held), held \subseteq Mapping
  PROVE  FreshId(f, held) \in Nat \ {0}
<1> USE Zenon
<1> DEFINE D == {d \in Range(lru) \cup held : d.fn = f}
           taken == {weak[f]} \cup {c.id : c \in D}
           free == 1..(Cardinality(taken) + 1) \ taken
<1>1. PICK n \in Nat : n = Len(lru) /\ DOMAIN lru = 1..n
  BY SoundType DEF CacheInv
<1>2. IsFiniteSet(Range(lru))
  <2> DEFINE g == [i \in 1..n |-> lru[i]]
  <2>1. g \in Surjection(1..n, Range(lru)) BY SMT, <1>1 DEF Surjection, Range
  <2>2. IsFiniteSet(1..n) BY SMT, FS_Interval
  <2> HIDE DEF g
  <2> QED BY <2>1, <2>2, FS_Surjection DEF ExistsSurjection
<1>3. IsFiniteSet(D)
  <2>1. IsFiniteSet(Range(lru) \cup held) BY <1>2, FS_Union
  <2>2. D \in SUBSET (Range(lru) \cup held) BY SMT
  <2> HIDE DEF D
  <2> QED BY <2>1, <2>2, FS_Subset
<1> HIDE DEF D
<1>4. IsFiniteSet({c.id : c \in D})
  <2> DEFINE I == {c.id : c \in D}
             g == [c \in D |-> c.id]
  <2>1. g \in Surjection(D, I) BY SMT DEF Surjection
  <2> HIDE DEF g
  <2> QED BY <1>3, <2>1, FS_Surjection DEF ExistsSurjection
<1>5. IsFiniteSet(taken)
  <2>1. IsFiniteSet({weak[f]}) BY FS_Singleton
  <2> QED BY <1>4, <2>1, FS_Union
<1> HIDE DEF taken
<1>6. PICK m \in Nat : m = Cardinality(taken) BY <1>5, FS_CardinalityType
<1>7. free # {}
  <2>1. SUFFICES ASSUME 1..(m + 1) \subseteq taken PROVE FALSE BY SMT, <1>6
  <2>2. Cardinality(1..(m + 1)) = m + 1 BY SMT, FS_Interval
  <2>3. 1..(m + 1) \in SUBSET taken BY SMT, <2>1
  <2>4. Cardinality(1..(m + 1)) <= m BY <1>5, <1>6, <2>3, FS_Subset
  <2> QED BY SMT, <2>2, <2>4
<1>8. free \subseteq Nat \ {0} BY SMT, <1>6
<1>9. \E x \in free : \A o \in free : x <= o
  <2>1. free \subseteq Nat BY SMT, <1>8
  <2> HIDE DEF free
  <2> QED BY <1>7, <2>1, LeastNumber
<1>10. FreshId(f, held) = CHOOSE x \in free : \A o \in free : x <= o
  BY DEF FreshId, free, taken, D
<1> HIDE DEF free
<1>11. FreshId(f, held) \in free BY <1>9, <1>10
<1> QED BY <1>8, <1>11

\* A hit answers with code the cache holds.
LEMMA HitGood ==
  ASSUME CacheInv, NEW f \in Funcs, NEW c \in Cached(f)
  PROVE  Good(Contents(Touched(c), used_bytes, c), f)
<1>1. c \in Range(lru) /\ c.fn = f BY DEF Cached
<1>2. c \in Mapping
  <2>1. PICK i \in DOMAIN lru : lru[i] = c BY <1>1 DEF Range
  <2> QED BY Zenon, <2>1, SoundType DEF CacheInv
<1>3. /\ Sound(Touched(c), used_bytes, disabled, rejected)
      /\ Touched(c) # <<>> /\ Touched(c)[Len(Touched(c))] = c
  BY Zenon, <1>1, TouchSound
<1> QED BY <1>1, <1>2, <1>3 DEF Good, Contents

\* A function that cannot be compiled is rejected in the store and in the cache.
LEMMA RejectGood ==
  ASSUME NEW f \in Funcs, NEW s, NEW u, Sound(s, u, disabled, rejected),
         \A i \in DOMAIN s : s[i].fn # f
  PROVE  Good(Reject(f, Contents(s, u, NoCode)), f)
<1>1. PICK r : r = Reject(f, Contents(s, u, NoCode)) BY Zenon
<1>2. /\ r.lru = s /\ r.used = u /\ r.code = NoCode
      /\ r.disabled = disabled \cup {f} /\ r.rejected = rejected \cup {f}
  BY <1>1 DEF Reject, Contents
<1>3. Sound(s, u, disabled \cup {f}, rejected \cup {f})
  BY DEF Sound
<1> QED BY Zenon, <1>1, <1>2, <1>3 DEF Good

\* New code is put in last.
LEMMA InsertGood ==
  ASSUME CacheInv, NEW f \in Funcs, f \notin rejected, NEW new \in Mapping, new.fn = f,
         NEW s, NEW u \in Nat, Sound(s, u, disabled, rejected), u + Size[f] <= MaxBytes,
         \A i \in DOMAIN s : s[i].fn # f
  PROVE  Good(Contents(Append(s, new), u + Size[f], new), f)
<1> USE Zenon
<1>1. PICK n \in Nat : n = Len(s) /\ s \in Seq(Mapping) /\ DOMAIN s = 1..n
  BY SoundType
<1>2. PICK t \in Seq(Mapping) : t = Append(s, new) BY <1>1, AppendedFacts
<1>3. Len(t) = n + 1 /\ t[n + 1] = new /\ \A i \in 1..n : t[i] = s[i]
  BY SMT, <1>1, <1>2, AppendedFacts
<1>4. DOMAIN t = 1..(n + 1) BY <1>3, EntriesFacts
<1>5. OncePerFn(t)
  <2>1. \A i, j \in 1..n : s[i].fn = s[j].fn => i = j BY <1>1 DEF Sound, OncePerFn
  <2>2. ASSUME NEW i \in 1..(n + 1), NEW j \in 1..(n + 1), t[i].fn = t[j].fn PROVE i = j
    <3>1. CASE i \in 1..n /\ j \in 1..n
      <4>1. s[i].fn = s[j].fn BY <3>1, <1>3, <2>2
      <4> QED BY <4>1, <3>1, <2>1
    <3>2. CASE i = n + 1 /\ j = n + 1 BY SMT, <3>2
    <3>3. CASE i = n + 1 /\ j \in 1..n
      <4>1. f = s[j].fn BY <3>3, <1>3, <2>2
      <4> QED BY <4>1, <3>3, <1>1
    <3>4. CASE i \in 1..n /\ j = n + 1
      <4>1. s[i].fn = f BY <3>4, <1>3, <2>2
      <4> QED BY <4>1, <3>4, <1>1
    <3> QED BY SMT, <3>1, <3>2, <3>3, <3>4
  <2> QED BY <2>2, <1>4 DEF OncePerFn
<1>6. Total(t) = Total(s) + Size[f] BY <1>1, <1>2, TotalAppend
<1>7. u + Size[f] = Total(t) BY <1>6 DEF Sound
<1>8. disabled = rejected BY SMT DEF CacheInv, Sound
<1>9. ASSUME NEW i \in 1..(n + 1) PROVE t[i].fn \notin disabled
  <2>1. CASE i \in 1..n BY <2>1, <1>1, <1>3 DEF Sound
  <2>2. CASE i = n + 1 BY <2>2, <1>3, <1>8
  <2> QED BY SMT, <2>1, <2>2
<1>10. Sound(t, u + Size[f], disabled, rejected)
  BY <1>2, <1>4, <1>5, <1>7, <1>9 DEF Sound
<1>11. t # <<>> /\ t[Len(t)] = new BY SMT, <1>2, <1>3
<1> QED BY SMT, <1>2, <1>10, <1>11 DEF Good, Contents

\* What get_or_compile answers with.
LEMMA CompileGood ==
  ASSUME CacheInv, NEW f \in Funcs, f \notin rejected, NEW held, IsFiniteSet(held),
         held \subseteq Mapping, NEW mapped
  PROVE  Good(GetOrCompile(f, held, mapped), f)
<1> USE Zenon
<1>1. Sound(lru, used_bytes, disabled, rejected) BY SMT DEF CacheInv
<1>2. MaxBytes \in Nat /\ Size[f] \in Nat BY SMT, JitCacheAssumption
<1> DEFINE k == EvictUntil(MaxBytes - Size[f])
           new == [fn |-> f, id |-> FreshId(f, held)]
<1>3. CASE MaxBytes = 0 \/ f \in disabled
  <2>1. GetOrCompile(f, held, mapped) = Contents(lru, used_bytes, NoCode)
    BY <1>3 DEF GetOrCompile
  <2>2. Good(Contents(lru, used_bytes, NoCode), f) BY SMT, <1>1 DEF Good, Contents
  <2> QED BY <2>1, <2>2
<1>4. CASE ~(MaxBytes = 0 \/ f \in disabled) /\ Cached(f) # {}
  <2>1. PICK c \in Cached(f) : c = CHOOSE d \in Cached(f) : TRUE BY <1>4
  <2>2. GetOrCompile(f, held, mapped) = Contents(Touched(c), used_bytes, c)
    BY <1>4, <2>1 DEF GetOrCompile
  <2> QED BY <2>2, HitGood
<1>5. CASE ~(MaxBytes = 0 \/ f \in disabled) /\ Cached(f) = {}
  <2>1. \A i \in DOMAIN lru : lru[i].fn # f BY SMT, <1>5 DEF Cached, Range
  <2>2. CASE f \in Broken \/ Size[f] > MaxBytes
    <3>1. GetOrCompile(f, held, mapped) = Reject(f, Contents(lru, used_bytes, NoCode))
      BY <1>5, <2>2 DEF GetOrCompile
    <3> QED BY <3>1, <2>1, <1>1, RejectGood
  <2>3. CASE ~(f \in Broken \/ Size[f] > MaxBytes)
    <3>1. PICK target \in Nat : target = MaxBytes - Size[f] /\ target <= MaxBytes
      BY SMT, <1>2, <2>3
    <3>2. PICK e \in 0..Len(lru) :
            /\ e = EvictUntil(target) /\ Left(e) <= target /\ Left(e) \in Nat
            /\ Sound(Kept(e), Left(e), disabled, rejected)
            /\ \A x \in DOMAIN Kept(e) : \E y \in DOMAIN lru : Kept(e)[x] = lru[y]
      BY <3>1, EvictSound
    <3>3. \A x \in DOMAIN Kept(e) : Kept(e)[x].fn # f BY <3>2, <2>1
    <3>4. CASE mapped
      <4>1. GetOrCompile(f, held, mapped) = Contents(Append(Kept(e), new), Left(e) + Size[f], new)
        BY <1>5, <2>3, <3>1, <3>2, <3>4 DEF GetOrCompile, Kept, Left
      <4>2. FreshId(f, held) \in Nat \ {0} BY FreshFacts
      <4>3. new \in Mapping /\ new.fn = f BY SMT, <4>2 DEF Mapping
      <4>4. Left(e) + Size[f] <= MaxBytes BY SMT, <1>2, <3>1, <3>2
      <4> HIDE DEF new
      <4> QED BY ZenonT(40), <4>1, <4>3, <4>4, <3>2, <3>3, InsertGood
    <3>5. CASE ~mapped
      <4>1. GetOrCompile(f, held, mapped) = Reject(f, Contents(Kept(e), Left(e), NoCode))
        BY <1>5, <2>3, <3>1, <3>2, <3>5 DEF GetOrCompile, Kept, Left
      <4> QED BY ZenonT(40), <4>1, <3>2, <3>3, RejectGood
    <3> QED BY <3>4, <3>5
  <2> QED BY <2>2, <2>3
<1> QED BY <1>3, <1>4, <1>5

\* What enter_current_frame_raw obtains.
LEMMA ObtainGood ==
  ASSUME CacheInv, NEW f \in Funcs, f \notin rejected, NEW held, IsFiniteSet(held),
         held \subseteq Mapping, NEW mapped
  PROVE  Good(Obtain(f, held, mapped), f)
<1> USE Zenon
<1>1. CASE FrameHit(f, held) # {}
  <2>1. PICK c \in FrameHit(f, held) : c = CHOOSE d \in FrameHit(f, held) : TRUE BY <1>1
  <2>2. Obtain(f, held, mapped) = Contents(Touched(c), used_bytes, c)
    BY <1>1, <2>1 DEF Obtain
  <2>3. c \in Cached(f) BY SMT, <2>1 DEF FrameHit
  <2> QED BY <2>2, <2>3, HitGood
<1>2. CASE FrameHit(f, held) = {}
  <2>1. Obtain(f, held, mapped) = GetOrCompile(f, held, mapped)
    BY <1>2 DEF Obtain
  <2> QED BY <2>1, CompileGood
<1> QED BY <1>1, <1>2
=============================================================================
