-------------------------- MODULE SharedWaitProofs --------------------------
(***************************************************************************)
(* Proofs about SharedWait for any number of tasks, offsets and waits: no   *)
(* wait and no wake-up is lost, and the queues implement Futex.             *)
(***************************************************************************)
EXTENDS SharedWait, WellFoundedInduction, TLAPS

\* Facts about sequences.
LEMMA SeqFacts ==
  ASSUME NEW S, NEW q \in Seq(S)
  PROVE  /\ Len(q) \in Nat
         /\ DOMAIN q = 1..Len(q)
         /\ \A i \in 1..Len(q) : q[i] \in S
OBVIOUS

\* The empty sequence is a sequence over every set.
LEMMA EmptyFacts == \A S : <<>> \in Seq(S) /\ Len(<<>>) = 0
OBVIOUS

\* A sequence over a set is one over every larger set.
LEMMA SeqGrows ==
  ASSUME NEW S, NEW T, S \subseteq T, NEW q \in Seq(S)
  PROVE  q \in Seq(T)
OBVIOUS

\* Append keeps the elements and adds one at the end.
LEMMA AppendFacts ==
  ASSUME NEW S, NEW q \in Seq(S), NEW x \in S
  PROVE  /\ Append(q, x) \in Seq(S)
         /\ Len(Append(q, x)) = Len(q) + 1
         /\ \A i \in 1..Len(q) : Append(q, x)[i] = q[i]
         /\ Append(q, x)[Len(q) + 1] = x
OBVIOUS

\* The elements of a part of a sequence are those of the sequence, shifted.
LEMMA SubSeqFacts ==
  ASSUME NEW S, NEW q \in Seq(S), NEW m \in 1..(Len(q) + 1), NEW n \in 0..Len(q)
  PROVE  /\ SubSeq(q, m, n) \in Seq(S)
         /\ Len(SubSeq(q, m, n)) = IF m <= n THEN n - m + 1 ELSE 0
         /\ \A i \in 1..(n - m + 1) : SubSeq(q, m, n)[i] = q[m + i - 1]
OBVIOUS

\* The elements of the tail are those of the sequence, shifted by one.
LEMMA TailFacts ==
  ASSUME NEW S, NEW q \in Seq(S), q # <<>>
  PROVE  /\ Head(q) \in S
         /\ Tail(q) \in Seq(S)
         /\ Len(Tail(q)) = Len(q) - 1
         /\ \A i \in 1..Len(Tail(q)) : Tail(q)[i] = q[i + 1]
OBVIOUS

\* Every nonempty set of numbers has a least element.
LEMMA LeastNat ==
  ASSUME NEW T, T \subseteq Nat, T # {}
  PROVE  \E x \in T : \A y \in T : x <= y
<1>1. PICK x \in T : \A y \in T : ~(<<y, x>> \in OpToRel(<, Nat))
  BY WFMin, NatLessThanWellFounded
<1>2. \A y \in T : ~ (y < x)
  BY Zenon, <1>1 DEF OpToRel
<1> QED
  BY <1>2

\* What VecDeque::retain has kept of the first i entries.
UptoStep(q, kept, f, i) ==
  f[i] = IF i = 0 THEN <<>> ELSE IF q[i] \in kept THEN Append(f[i - 1], q[i]) ELSE f[i - 1]

UptoTo(q, kept, S, n) == \E f \in [0..n -> Seq(S)] : \A i \in 0..n : UptoStep(q, kept, f, i)

\* The prefix function of Retained exists.
LEMMA UptoExists ==
  ASSUME NEW S, NEW q \in Seq(S), NEW kept
  PROVE  UptoTo(q, kept, S, Len(q))
<1> DEFINE T == {n \in Nat : n <= Len(q) /\ ~ UptoTo(q, kept, S, n)}
<1>1. Len(q) \in Nat /\ \A i \in 1..Len(q) : q[i] \in S
  BY SeqFacts
<1>2. UptoTo(q, kept, S, 0)
  <2> DEFINE f == [i \in 0..0 |-> <<>>]
  <2>1. f \in [0..0 -> Seq(S)] /\ \A i \in 0..0 : UptoStep(q, kept, f, i)
    BY EmptyFacts DEF UptoStep
  <2> QED BY Zenon, <2>1 DEF UptoTo
<1>3. ASSUME NEW n \in Nat, n + 1 <= Len(q), UptoTo(q, kept, S, n)
      PROVE  UptoTo(q, kept, S, n + 1)
  <2>1. PICK f \in [0..n -> Seq(S)] : \A i \in 0..n : UptoStep(q, kept, f, i)
    BY <1>3 DEF UptoTo
  <2>2. f[n] \in Seq(S) /\ q[n + 1] \in S
    BY <1>1, <1>3, <2>1
  <2>3. PICK e \in Seq(S) : e = IF q[n + 1] \in kept THEN Append(f[n], q[n + 1]) ELSE f[n]
    BY Zenon, <2>2, AppendFacts
  <2> DEFINE g == [i \in 0..(n + 1) |-> IF i = n + 1 THEN e ELSE f[i]]
  <2>4. g \in [0..(n + 1) -> Seq(S)]
    BY <2>1
  <2>5. ASSUME NEW i \in 0..n PROVE UptoStep(q, kept, g, i)
    <3>1. UptoStep(q, kept, f, i) BY <2>1, <2>5
    <3>2. g[i] = f[i] /\ (i # 0 => g[i - 1] = f[i - 1]) OBVIOUS
    <3> QED BY <3>1, <3>2 DEF UptoStep
  <2>6. UptoStep(q, kept, g, n + 1)
    <3>1. g[n + 1] = e /\ g[(n + 1) - 1] = f[n] /\ n + 1 # 0 OBVIOUS
    <3> HIDE DEF g
    <3> QED BY <3>1, <2>3 DEF UptoStep
  <2> HIDE DEF g
  <2>7. \A i \in 0..(n + 1) : UptoStep(q, kept, g, i)
    BY <2>5, <2>6
  <2> QED BY Zenon, <2>4, <2>7 DEF UptoTo
<1>4. SUFFICES ASSUME T # {} PROVE FALSE
  BY <1>1
<1>5. PICK n \in T : \A m \in T : n <= m
  BY Zenon, <1>4, LeastNat
<1>6. n # 0 BY <1>2, <1>5
<1>7. n - 1 \in Nat /\ (n - 1) + 1 = n /\ n <= Len(q) /\ n - 1 \notin T
  BY <1>5, <1>6
<1>8. UptoTo(q, kept, S, n - 1)
  BY <1>7, <1>1
<1> QED BY <1>3, <1>5, <1>7, <1>8

Increasing(q) == \A i, j \in 1..Len(q) : i < j => q[i] < q[j]

\* r has the entries of the first n of q that are in kept, in their order.
IsRetained(q, kept, n, r) ==
  /\ \A w : (\E i \in 1..Len(r) : r[i] = w) <=> (w \in kept /\ \E i \in 1..n : q[i] = w)
  /\ Increasing(q) => Increasing(r)

\* One more entry is looked at: dropped ...
LEMMA RetainSkips ==
  ASSUME NEW S, NEW q \in Seq(S), NEW kept, NEW n \in Nat, n + 1 <= Len(q),
         NEW r \in Seq(S), IsRetained(q, kept, n, r), q[n + 1] \notin kept
  PROVE  IsRetained(q, kept, n + 1, r)
<1>1. ASSUME NEW w
      PROVE  (w \in kept /\ \E i \in 1..n : q[i] = w) <=> (w \in kept /\ \E i \in 1..(n + 1) : q[i] = w)
  OBVIOUS
<1> QED BY <1>1 DEF IsRetained

\* ... or kept.
LEMMA RetainKeeps ==
  ASSUME NEW S, S \subseteq Nat, NEW q \in Seq(S), NEW kept, NEW n \in Nat, n + 1 <= Len(q),
         NEW r \in Seq(S), IsRetained(q, kept, n, r), q[n + 1] \in kept
  PROVE  IsRetained(q, kept, n + 1, Append(r, q[n + 1]))
<1>1. Len(q) \in Nat /\ \A i \in 1..Len(q) : q[i] \in S
  BY SeqFacts
<1>2. PICK x \in S : x = q[n + 1]
  <2>1. n + 1 \in 1..Len(q) BY <1>1
  <2> QED BY Zenon, <1>1, <2>1
<1>3. Len(r) \in Nat /\ \A i \in 1..Len(r) : r[i] \in S
  BY SeqFacts
<1>4. PICK m \in Nat : m = Len(r)
  BY <1>3
<1>5. PICK e : e = Append(r, x)
  BY Zenon
<1>6. Len(e) = m + 1 /\ e[m + 1] = x /\ \A i \in 1..m : e[i] = r[i]
  BY <1>4, <1>5, AppendFacts
<1>7. ASSUME NEW w
      PROVE  (\E i \in 1..Len(e) : e[i] = w) <=> (w \in kept /\ \E i \in 1..(n + 1) : q[i] = w)
  <2>1. (\E i \in 1..(m + 1) : e[i] = w) <=> (w = x \/ \E i \in 1..m : r[i] = w)
    BY <1>6
  <2>2. (\E i \in 1..m : r[i] = w) <=> (w \in kept /\ \E i \in 1..n : q[i] = w)
    BY <1>4 DEF IsRetained
  <2>3. (\E i \in 1..(n + 1) : q[i] = w) <=> (w = x \/ \E i \in 1..n : q[i] = w)
    BY <1>2
  <2> QED BY <2>1, <2>2, <2>3, <1>2, <1>6
<1>8. ASSUME Increasing(q) PROVE Increasing(e)
  <2>1. \A i, j \in 1..m : i < j => r[i] < r[j]
    BY <1>4, <1>8 DEF IsRetained, Increasing
  <2>2. ASSUME NEW i \in 1..m PROVE r[i] < x
    <3>1. PICK j \in 1..n : q[j] = r[i]
      BY Zenon, <1>4, <2>2 DEF IsRetained
    <3>2. j < n + 1 /\ j \in 1..Len(q) /\ n + 1 \in 1..Len(q)
      BY <1>1, <3>1
    <3> QED BY <3>1, <3>2, <1>2, <1>8 DEF Increasing
  <2>3. ASSUME NEW i \in 1..(m + 1), NEW j \in 1..(m + 1), i < j PROVE e[i] < e[j]
    <3>1. i \in 1..m /\ (j \in 1..m \/ j = m + 1)
      BY <2>3
    <3> QED BY <3>1, <2>1, <2>2, <2>3, <1>6
  <2> QED BY <2>3, <1>6 DEF Increasing
<1> QED BY <1>2, <1>5, <1>7, <1>8 DEF IsRetained

\* What retain keeps of a queue.
LEMMA RetainedFacts ==
  ASSUME NEW S, S \subseteq Nat, NEW q \in Seq(S), NEW kept
  PROVE  /\ Retained(q, kept) \in Seq(S)
         /\ Range(Retained(q, kept)) = Range(q) \cap kept
         /\ Increasing(q) => Increasing(Retained(q, kept))
<1> DEFINE F(f) == [i \in 0..Len(q) |-> IF i = 0 THEN <<>>
                                       ELSE IF q[i] \in kept THEN Append(f[i - 1], q[i])
                                       ELSE f[i - 1]]
<1>1. Len(q) \in Nat /\ \A i \in 1..Len(q) : q[i] \in S
  BY SeqFacts
<1>2. \E f : f = F(f)
  <2>1. PICK f \in [0..Len(q) -> Seq(S)] : \A i \in 0..Len(q) : UptoStep(q, kept, f, i)
    BY Zenon, UptoExists DEF UptoTo
  <2>2. f = [i \in 0..Len(q) |-> f[i]]
    BY <2>1
  <2>3. f = F(f)
    BY <2>1, <2>2 DEF UptoStep
  <2> QED BY <2>3
<1>3. PICK f : f = F(f) /\ f = CHOOSE g : g = F(g)
  BY Zenon, <1>2
<1>4. Retained(q, kept) = f[Len(q)]
  BY Zenon, <1>3 DEF Retained
<1>5. /\ f[0] = <<>>
      /\ \A n \in Nat : n + 1 <= Len(q) =>
           f[n + 1] = IF q[n + 1] \in kept THEN Append(f[n], q[n + 1]) ELSE f[n]
  <2>1. \A i \in 0..Len(q) : f[i] = IF i = 0 THEN <<>> ELSE IF q[i] \in kept THEN Append(f[i - 1], q[i])
                                    ELSE f[i - 1]
    BY Zenon, <1>3
  <2> HIDE DEF F
  <2>2. f[0] = <<>>
    BY <1>1, <2>1
  <2>3. ASSUME NEW n \in Nat, n + 1 <= Len(q)
        PROVE  f[n + 1] = IF q[n + 1] \in kept THEN Append(f[n], q[n + 1]) ELSE f[n]
    <3>1. n + 1 \in 0..Len(q) /\ n + 1 # 0 /\ (n + 1) - 1 = n
      BY <1>1, <2>3
    <3> QED BY <2>1, <3>1
  <2> QED BY <2>2, <2>3
<1> HIDE DEF F
<1> DEFINE Good(n) == f[n] \in Seq(S) /\ IsRetained(q, kept, n, f[n])
<1>6. Good(0)
  <2>1. f[0] \in Seq(S) /\ Len(f[0]) = 0
    BY <1>5, EmptyFacts
  <2> QED BY <2>1 DEF IsRetained, Increasing
<1>7. ASSUME NEW n \in Nat, n + 1 <= Len(q), Good(n) PROVE Good(n + 1)
  <2>1. PICK r \in Seq(S) : r = f[n]
    BY <1>7
  <2>2. IsRetained(q, kept, n, r)
    BY <1>7, <2>1
  <2>3. q[n + 1] \in S
    BY <1>1, <1>7
  <2>4. CASE q[n + 1] \in kept
    <3>1. f[n + 1] = Append(r, q[n + 1])
      BY Zenon, <1>5, <1>7, <2>1, <2>4
    <3>2. f[n + 1] \in Seq(S)
      BY <3>1, <2>3, AppendFacts
    <3>3. IsRetained(q, kept, n + 1, Append(r, q[n + 1]))
      BY Zenon, <1>7, <2>2, <2>4, RetainKeeps
    <3> QED BY <3>1, <3>2, <3>3
  <2>5. CASE q[n + 1] \notin kept
    <3>1. f[n + 1] = r
      BY <1>5, <1>7, <2>1, <2>5
    <3>2. IsRetained(q, kept, n + 1, r)
      BY <1>7, <2>2, <2>5, RetainSkips
    <3> QED BY <3>1, <3>2
  <2> QED BY <2>4, <2>5
<1> DEFINE T == {n \in Nat : n <= Len(q) /\ ~ Good(n)}
<1>8. T = {}
  <2> SUFFICES ASSUME T # {} PROVE FALSE OBVIOUS
  <2>1. PICK n \in T : \A m \in T : n <= m
    BY Zenon, LeastNat
  <2> HIDE DEF Good
  <2>2. n # 0 BY <1>6, <2>1
  <2>3. n - 1 \in Nat /\ (n - 1) + 1 = n /\ n <= Len(q) /\ n - 1 \notin T
    BY <2>1, <2>2
  <2>4. Good(n - 1)
    BY <2>3, <1>1
  <2> QED BY <1>7, <2>1, <2>3, <2>4
<1>9. Good(Len(q))
  <2> HIDE DEF Good
  <2> QED BY <1>1, <1>8
<1>10. PICK r \in Seq(S) : r = Retained(q, kept) /\ IsRetained(q, kept, Len(q), r)
  BY <1>4, <1>9
<1>11. DOMAIN r = 1..Len(r) /\ DOMAIN q = 1..Len(q)
  BY SeqFacts
<1>12. Range(r) = Range(q) \cap kept
  BY <1>10, <1>11 DEF Range, IsRetained
<1> QED BY <1>10, <1>12 DEF IsRetained

-----------------------------------------------------------------------------
\* The two parts of a queue.
Parts(q, k, p, r) ==
  /\ \A w : w \in Range(p) <=> \E i \in 1..k : q[i] = w
  /\ \A w : w \in Range(r) <=> \E i \in (k + 1)..Len(q) : q[i] = w
  /\ Increasing(q) => Increasing(p) /\ Increasing(r)

\* A queue cut in two has its entries in the one part or in the other, in order.
LEMMA QueueParts ==
  ASSUME NEW S, S \subseteq Nat, NEW q \in Seq(S), NEW k \in 0..Len(q)
  PROVE  /\ SubSeq(q, 1, k) \in Seq(S) /\ SubSeq(q, k + 1, Len(q)) \in Seq(S)
         /\ Parts(q, k, SubSeq(q, 1, k), SubSeq(q, k + 1, Len(q)))
<1>1. \A i \in 1..Len(q) : q[i] \in S
  BY SeqFacts
<1>2. PICK n \in Nat : n = Len(q)
  BY SeqFacts
<1>3. k \in 0..n /\ k \in Int /\ k + 1 \in Int /\ n \in Int
  BY <1>2
<1>4. PICK p : p = SubSeq(q, 1, k)
  BY Zenon
<1>5. PICK r : r = SubSeq(q, k + 1, Len(q))
  BY Zenon
<1>6. p \in Seq(S) /\ Len(p) = k /\ \A i \in 1..k : p[i] = q[i]
  <2>1. \A i \in 1..k : q[i] \in S
    BY <1>1, <1>2, <1>3
  <2>2. /\ p \in Seq(S)
        /\ Len(p) = IF 1 <= k THEN k - 1 + 1 ELSE 0
        /\ \A i \in 1..(k - 1 + 1) : p[i] = q[1 + i - 1]
    BY <1>2, <1>3, <1>4, <2>1, SubSeqFacts
  <2> QED BY <1>3, <2>2
<1>7. r \in Seq(S) /\ Len(r) = n - k /\ \A i \in 1..(n - k) : r[i] = q[k + i]
  <2>1. \A i \in (k + 1)..n : q[i] \in S
    BY <1>1, <1>2, <1>3
  <2>2. /\ r \in Seq(S)
        /\ Len(r) = IF k + 1 <= n THEN n - (k + 1) + 1 ELSE 0
        /\ \A i \in 1..(n - (k + 1) + 1) : r[i] = q[(k + 1) + i - 1]
    BY <1>2, <1>3, <1>5, <2>1, SubSeqFacts
  <2>3. n - (k + 1) + 1 = n - k /\ \A i \in 1..(n - k) : (k + 1) + i - 1 = k + i
    BY <1>3
  <2> QED BY <1>3, <2>2, <2>3
<1>8. Range(p) = {p[i] : i \in 1..k} /\ Range(r) = {r[i] : i \in 1..(n - k)}
  BY Zenon, <1>6, <1>7, SeqFacts DEF Range
<1>9. ASSUME NEW w PROVE w \in Range(p) <=> \E i \in 1..k : q[i] = w
  BY <1>6, <1>8
<1>10. ASSUME NEW w PROVE w \in Range(r) <=> \E i \in (k + 1)..Len(q) : q[i] = w
  <2>1. ASSUME NEW i \in 1..(n - k), r[i] = w PROVE \E j \in (k + 1)..n : q[j] = w
    <3>1. k + i \in (k + 1)..n /\ q[k + i] = w
      BY <1>3, <1>7, <2>1
    <3> QED BY <3>1
  <2>2. ASSUME NEW j \in (k + 1)..n, q[j] = w PROVE \E i \in 1..(n - k) : r[i] = w
    <3>1. j - k \in 1..(n - k) /\ k + (j - k) = j
      BY <1>3, <2>2
    <3>2. r[j - k] = w
      BY <1>7, <2>2, <3>1
    <3> QED BY <3>1, <3>2
  <2> QED BY <1>2, <1>8, <2>1, <2>2
<1>11. ASSUME Increasing(q) PROVE Increasing(p) /\ Increasing(r)
  <2>1. \A i, j \in 1..n : i < j => q[i] < q[j]
    BY <1>2, <1>11 DEF Increasing
  <2>2. Increasing(p)
    BY <1>3, <1>6, <2>1 DEF Increasing
  <2>3. ASSUME NEW i \in 1..(n - k), NEW j \in 1..(n - k), i < j PROVE r[i] < r[j]
    <3>1. k + i \in 1..n /\ k + j \in 1..n /\ k + i < k + j
      BY <1>3, <2>3
    <3>2. q[k + i] < q[k + j]
      BY <2>1, <3>1
    <3> QED BY <1>7, <3>2
  <2> QED BY <1>7, <2>2, <2>3 DEF Increasing
<1>12. Parts(q, k, p, r)
  BY <1>9, <1>10, <1>11 DEF Parts
<1> QED BY <1>4, <1>5, <1>6, <1>7, <1>12

\* The pop loop pops a prefix of the queue.
LEMMA PoppedIsPrefix ==
  ASSUME NEW S, NEW q \in Seq(S), NEW waiting, NEW n
  PROVE  Popped(q, waiting, n) \in 0..Len(q)
<1> DEFINE enough == {k \in 0..Len(q) : Cardinality({i \in 1..k : q[i] \in waiting}) = n}
<1>1. Len(q) \in Nat /\ enough \subseteq Nat /\ enough \subseteq 0..Len(q)
  BY SeqFacts
<1>2. Popped(q, waiting, n) =
        IF enough = {} THEN Len(q) ELSE CHOOSE k \in enough : \A j \in enough : k <= j
  BY DEF Popped
<1>3. enough # {} => \E k \in enough : \A j \in enough : k <= j
  BY Zenon, <1>1, LeastNat
<1> HIDE DEF enough
<1>4. CASE enough = {}
  <2>1. Popped(q, waiting, n) = Len(q)
    BY <1>2, <1>4
  <2> QED BY <1>1, <2>1
<1>5. CASE enough # {}
  <2>1. Popped(q, waiting, n) \in enough
    BY <1>2, <1>3, <1>5
  <2> QED BY Zenon, <1>1, <2>1
<1> QED BY <1>4, <1>5

\* What notify_waiters makes of a queue: the waiters it wakes are the oldest that
\* still wait, and the others that wait stay queued.
Splits(q, waiting, wake, rest) ==
  /\ \A w : (w \in Range(wake) \/ w \in Range(rest)) <=> (w \in Range(q) /\ w \in waiting)
  /\ \A u \in Range(wake), w \in Range(rest) : u < w
  /\ Increasing(rest)

\* A notify divides the waiters that still wait into those it wakes and those
\* that stay.
LEMMA NotifySplits ==
  ASSUME NEW S, S \subseteq Nat, NEW q \in Seq(S), Increasing(q), NEW waiting, NEW k \in 0..Len(q),
         NEW wake, wake = Retained(SubSeq(q, 1, k), waiting),
         NEW rest, rest = Retained(SubSeq(q, k + 1, Len(q)), waiting)
  PROVE  wake \in Seq(S) /\ rest \in Seq(S) /\ Splits(q, waiting, wake, rest)
<1>1. PICK m \in Nat : m = Len(q)
  BY SeqFacts
<1>2. k \in 0..m
  BY <1>1
<1>3. PICK p \in Seq(S) : p = SubSeq(q, 1, k)
  BY Zenon, <1>1, <1>2, QueueParts
<1>4. PICK r \in Seq(S) : r = SubSeq(q, k + 1, Len(q))
  BY Zenon, <1>1, <1>2, QueueParts
<1>5. Parts(q, k, p, r)
  BY Zenon, <1>1, <1>2, <1>3, <1>4, QueueParts
<1>6. wake \in Seq(S) /\ Range(wake) = Range(p) \cap waiting
  BY Zenon, <1>3, RetainedFacts
<1>7. rest \in Seq(S) /\ Range(rest) = Range(r) \cap waiting /\ Increasing(rest)
  BY Zenon, <1>4, <1>5, RetainedFacts DEF Parts
<1>8. Range(q) = {q[i] : i \in 1..m} /\ \A i \in 1..m : q[i] \in Nat
  BY Zenon, <1>1, SeqFacts DEF Range
<1>9. \A w : w \in Range(p) <=> \E i \in 1..k : q[i] = w
  BY <1>5 DEF Parts
<1>10. \A w : w \in Range(r) <=> \E i \in (k + 1)..m : q[i] = w
  BY <1>1, <1>5 DEF Parts
<1>11. ASSUME NEW w PROVE (w \in Range(p) \/ w \in Range(r)) <=> w \in Range(q)
  BY <1>2, <1>8, <1>9, <1>10
<1>12. ASSUME NEW u \in Range(p), NEW w \in Range(r) PROVE u < w
  <2>1. PICK i \in 1..k : q[i] = u
    BY <1>9
  <2>2. PICK j \in (k + 1)..m : q[j] = w
    BY <1>10
  <2>3. i \in 1..m /\ j \in 1..m /\ i < j
    BY <1>2
  <2> QED BY <1>1, <2>1, <2>2, <2>3 DEF Increasing
<1> QED BY <1>6, <1>7, <1>11, <1>12 DEF Splits

-----------------------------------------------------------------------------
\* The inductive invariant.  Ids are handed out in order, so a queue is sorted
\* and an id is in at most one queue.
Ordered ==
  /\ \A a \in Addrs : Increasing(wait_queues[a])
  /\ \A a, b \in Addrs, w \in Waits :
       w \in Range(wait_queues[a]) /\ w \in Range(wait_queues[b]) => a = b
  /\ \A w \in Waits : state[w] = "none" <=> w >= next_waiter_id

\* A permit, or a notify_waiters that has marked w and is not done.
Coming(w) == permit[w] \/ \E u \in Tasks : w \in Range(task[u].wake)

\* The waiter w of a blocked task.
Owns(t, w) ==
  /\ w \in Waits /\ w < next_waiter_id
  /\ task[t].addr \in Addrs
  /\ \A a \in Addrs : w \in Range(wait_queues[a]) => a = task[t].addr
  /\ state[w] = "WAITING" => w \in Range(wait_queues[task[t].addr])
  /\ At(t, "removing") <=> state[w] = "TIMED_OUT"
  /\ state[w] = "NOTIFIED" => Coming(w)

Owned ==
  /\ \A t \in Tasks, w \in 0..MaxWaits : Blocked(t) /\ task[t].id = w => Owns(t, w)
  /\ \A t, u \in Tasks : Blocked(t) /\ Blocked(u) /\ task[t].id = task[u].id => t = u
  /\ \A t \in Tasks : ~ At(t, "waking") => task[t].wake = <<>>

IInv == TypeOK /\ Ordered /\ Owned /\ QueueClean

Pcs == {"running", "registered", "checked", "parked", "expired", "removing", "waking"}
TaskRecords == [pc : Pcs, addr : Addrs \cup {""}, id : 0..MaxWaits, timed : BOOLEAN, wake : Seq(Waits)]

\* An empty queue holds no waiter.
LEMMA EmptyRange == Range(<<>>) = {} /\ \A S : <<>> \in Seq(S) /\ Len(<<>>) = 0
  BY EmptyFacts DEF Range

\* A running task is a task, and has nobody left to wake.
LEMMA RunningIsRecord == Running \in TaskRecords /\ Running.pc = "running" /\ Running.wake = <<>>
  BY SharedWaitAssumption, EmptyRange DEF Running, TaskRecords, Pcs

\* The initial states satisfy the invariant.
LEMMA InitEstablishes == Init => IInv
<1> SUFFICES ASSUME Init PROVE IInv OBVIOUS
<1>1. TypeOK
  <2>1. task \in [Tasks -> TaskRecords]
    BY RunningIsRecord DEF Init
  <2>2. wait_queues \in [Addrs -> Seq(1..(next_waiter_id - 1))]
    BY EmptyRange DEF Init
  <2>3. next_waiter_id \in 1..(MaxWaits + 1)
    BY SharedWaitAssumption DEF Init
  <2>4. state \in [Waits -> {"none", "WAITING", "NOTIFIED", "TIMED_OUT"}] /\ permit \in [Waits -> BOOLEAN]
    BY DEF Init
  <2> QED BY <2>1, <2>2, <2>3, <2>4 DEF Init, TypeOK, TaskRecords, Pcs
<1>2. Ordered
  BY SharedWaitAssumption, EmptyRange DEF Init, Ordered, Increasing, Waits
<1>3. Owned
  BY RunningIsRecord DEF Init, Owned, Blocked, At
<1>4. QueueClean
  BY EmptyRange DEF Init, QueueClean
<1> QED BY <1>1, <1>2, <1>3, <1>4 DEF IInv

\* A task moves on while the queues and the marks stay: it still waits on the
\* same waiter, or it is done with it.
MovesOn(t, r) ==
  /\ task' = [task EXCEPT ![t] = r]
  /\ r \in TaskRecords
  /\ r.wake = <<>>
  /\ \/ r.pc \in {"registered", "checked", "parked", "expired"} /\ r.id = task[t].id /\ r.addr = task[t].addr
     \/ r.pc = "running"
  /\ Blocked(t) /\ ~ At(t, "removing")
  /\ UNCHANGED <<cell, wait_queues, next_waiter_id, state>>
  /\ permit' \in [Waits -> BOOLEAN]
  /\ \A w \in Waits : permit'[w] = permit[w] \/ (r.pc = "running" /\ w = task[t].id)

\* A step of one task that touches no queue and no waiter keeps the invariant.
LEMMA MovingOnKeeps ==
  ASSUME IInv, NEW t \in Tasks, NEW r, MovesOn(t, r)
  PROVE  IInv'
<1>1. task \in [Tasks -> TaskRecords]
  BY DEF IInv, TypeOK, TaskRecords, Pcs
<1>2. /\ task'[t] = r
      /\ \A u \in Tasks : u # t => task'[u] = task[u]
      /\ task' \in [Tasks -> TaskRecords]
  BY <1>1 DEF MovesOn
<1>3. wait_queues' = wait_queues /\ next_waiter_id' = next_waiter_id /\ state' = state /\ cell' = cell
  BY DEF MovesOn
<1>4. TypeOK'
  BY <1>2, <1>3 DEF MovesOn, IInv, TypeOK, TaskRecords, Pcs
<1>5. Ordered'
  BY <1>3 DEF IInv, Ordered
<1>6. task[t].wake = <<>>
  BY DEF MovesOn, IInv, Owned, Blocked, At
<1>7. \A u \in Tasks : task'[u].wake = task[u].wake
  BY <1>2, <1>6 DEF MovesOn
<1>8. \A u \in Tasks : Blocked(u)' => Blocked(u) /\ task'[u].id = task[u].id /\ task'[u].addr = task[u].addr
                                       /\ (At(u, "removing")' <=> At(u, "removing"))
  BY <1>2 DEF MovesOn, Blocked, At
<1>9. ASSUME NEW u \in Tasks, NEW w \in Waits, Blocked(u)', w = task[u].id, Coming(w)
      PROVE  Coming(w)'
  <2>1. CASE permit[w]
    <3>1. u = t => r.pc # "running"
      BY <1>2, <1>9 DEF Blocked
    <3>2. u # t => w # task[t].id
      BY <1>8, <1>9 DEF MovesOn, IInv, Owned
    <3>3. permit'[w] = permit[w]
      BY <1>9, <3>1, <3>2 DEF MovesOn
    <3> QED BY <2>1, <3>3 DEF Coming
  <2>2. CASE \E v \in Tasks : w \in Range(task[v].wake)
    BY <1>7, <2>2 DEF Coming
  <2> QED BY <1>9, <2>1, <2>2 DEF Coming
<1>10. ASSUME NEW u \in Tasks, NEW w \in 0..MaxWaits, Blocked(u)', task'[u].id = w
       PROVE  Owns(u, w)'
  <2>1. Owns(u, w) /\ task[u].id = w
    BY <1>8, <1>10 DEF IInv, Owned
  <2>2. Coming(w) => Coming(w)'
    BY <1>9, <1>10, <2>1 DEF Owns
  <2>3. task'[u].addr = task[u].addr /\ (At(u, "removing")' <=> At(u, "removing"))
    BY <1>8, <1>10
  <2> QED BY <1>3, <2>1, <2>2, <2>3 DEF Owns
<1>11. \A u \in Tasks : ~ At(u, "waking")' => task'[u].wake = <<>>
  BY <1>2 DEF MovesOn, IInv, Owned, At
<1>12. Owned'
  BY <1>8, <1>10, <1>11 DEF IInv, Owned
<1>13. QueueClean'
  <2>1. \A u \in Tasks : At(u, "removing") => At(u, "removing")' /\ task'[u].id = task[u].id
    BY <1>2 DEF MovesOn, At
  <2> QED BY <1>3, <2>1 DEF IInv, QueueClean
<1> QED BY <1>4, <1>5, <1>12, <1>13 DEF IInv

\* The state a task is in, and the record after a change of its pc.
LEMMA TaskIsRecord ==
  ASSUME TypeOK, NEW t \in Tasks
  PROVE  /\ task[t] \in TaskRecords
         /\ \A pc \in Pcs : /\ [task[t] EXCEPT !.pc = pc] \in TaskRecords
                            /\ [task[t] EXCEPT !.pc = pc].pc = pc
                            /\ [task[t] EXCEPT !.pc = pc].id = task[t].id
                            /\ [task[t] EXCEPT !.pc = pc].addr = task[t].addr
                            /\ [task[t] EXCEPT !.pc = pc].wake = task[t].wake
<1>1. task[t] \in TaskRecords
  BY DEF TypeOK, TaskRecords, Pcs
<1>2. PICK r \in TaskRecords : r = task[t]
  BY <1>1
<1>3. ASSUME NEW pc \in Pcs
      PROVE  /\ [r EXCEPT !.pc = pc] \in TaskRecords
             /\ [r EXCEPT !.pc = pc].pc = pc /\ [r EXCEPT !.pc = pc].id = r.id
             /\ [r EXCEPT !.pc = pc].addr = r.addr /\ [r EXCEPT !.pc = pc].wake = r.wake
  BY DEF TaskRecords
<1> QED BY <1>1, <1>2, <1>3

\* Goto to a waiting place, and the end of a wait, are moves.
LEMMA GotoMoves ==
  ASSUME IInv, NEW t \in Tasks, Blocked(t), ~ At(t, "removing"),
         NEW pc \in {"registered", "checked", "parked", "expired"}, Goto(t, pc),
         UNCHANGED <<cell, wait_queues, next_waiter_id, state, permit>>
  PROVE  IInv'
<1>1. PICK r : r = [task[t] EXCEPT !.pc = pc]
  BY Zenon
<1>2. r \in TaskRecords /\ r.pc = pc /\ r.id = task[t].id /\ r.addr = task[t].addr /\ r.wake = task[t].wake
  <2>1. TypeOK /\ pc \in Pcs
    BY DEF IInv, Pcs
  <2> QED BY <1>1, <2>1, TaskIsRecord
<1>3. task' = [task EXCEPT ![t] = r]
  BY <1>1 DEF Goto
<1>4. task[t].wake = <<>>
  BY DEF IInv, Owned, Blocked, At
<1>5. permit' \in [Waits -> BOOLEAN] /\ \A w \in Waits : permit'[w] = permit[w]
  BY DEF IInv, TypeOK
<1>6. MovesOn(t, r)
  BY <1>2, <1>3, <1>4, <1>5 DEF MovesOn
<1> QED BY <1>6, MovingOnKeeps

\* A task that goes on running, its entry left in the queue or not, keeps the
\* invariant.
LEMMA ResumeMoves ==
  ASSUME IInv, NEW t \in Tasks, Blocked(t), ~ At(t, "removing"), Resume(t),
         UNCHANGED <<cell, wait_queues, next_waiter_id, state>>,
         permit' = permit \/ permit' = [permit EXCEPT ![task[t].id] = FALSE]
  PROVE  IInv'
<1>1. permit \in [Waits -> BOOLEAN]
  BY DEF IInv, TypeOK
<1>2. permit' \in [Waits -> BOOLEAN] /\ \A w \in Waits : permit'[w] = permit[w] \/ w = task[t].id
  BY Zenon, <1>1
<1>3. MovesOn(t, Running)
  BY <1>2, RunningIsRecord DEF MovesOn, Resume
<1> QED BY <1>3, MovingOnKeeps

\* Polling the wait future keeps the invariant.
LEMMA PollWaitKeeps == ASSUME IInv, NEW t \in Tasks, PollWait(t) PROVE IInv'
<1>1. Blocked(t) /\ ~ At(t, "removing")
  BY DEF PollWait, Blocked, At
<1>2. UNCHANGED <<cell, wait_queues, next_waiter_id, state, permit>>
  BY DEF PollWait
<1>3. Resume(t) \/ Goto(t, "checked")
  BY DEF PollWait
<1> QED BY <1>1, <1>2, <1>3, ResumeMoves, GotoMoves

\* Parking keeps the invariant.
LEMMA ParkKeeps == ASSUME IInv, NEW t \in Tasks, Park(t) PROVE IInv'
<1>1. Blocked(t) /\ ~ At(t, "removing")
  BY DEF Park, Blocked, At
<1> QED BY <1>1, GotoMoves DEF Park

\* Consuming the permit of a notification keeps the invariant.
LEMMA NotifiedKeeps == ASSUME IInv, NEW t \in Tasks, Notified(t) PROVE IInv'
<1>1. Blocked(t) /\ ~ At(t, "removing")
  BY DEF Notified, Blocked, At
<1> QED BY Zenon, <1>1, ResumeMoves DEF Notified

\* A timeout that elapses keeps the invariant.
LEMMA ExpireKeeps == ASSUME IInv, NEW t \in Tasks, Expire(t) PROVE IInv'
<1>1. Blocked(t) /\ ~ At(t, "removing")
  BY DEF Expire, Blocked, At
<1> QED BY <1>1, GotoMoves DEF Expire

\* Dropping a waiting call keeps the invariant.
LEMMA AbandonKeeps == ASSUME IInv, NEW t \in Tasks, Abandon(t) PROVE IInv'
<1>1. Blocked(t) /\ ~ At(t, "removing")
  BY DEF Abandon, Blocked, At
<1> QED BY <1>1, ResumeMoves DEF Abandon

\* A guest store keeps the invariant.
LEMMA StoreKeeps ==
  ASSUME IInv, NEW t \in Tasks, NEW a \in Addrs, NEW v \in Values, Store(t, a, v) PROVE IInv'
<1>1. cell' \in [Addrs -> Values]
  BY DEF Store, IInv, TypeOK
<1>2. wait_queues' = wait_queues /\ next_waiter_id' = next_waiter_id /\ state' = state /\ permit' = permit
      /\ task' = task
  BY DEF Store
<1>3. TypeOK'
  BY <1>1, <1>2 DEF IInv, TypeOK
<1>4. Ordered' /\ QueueClean'
  BY <1>2 DEF IInv, Ordered, QueueClean, At
<1>5. Owned'
  BY <1>2 DEF IInv, Owned, Owns, Blocked, At, Coming
<1> QED BY <1>3, <1>4, <1>5 DEF IInv

\* A step that changes nothing keeps the invariant.
LEMMA StutterKeeps == ASSUME IInv, UNCHANGED vars PROVE IInv'
<1>1. wait_queues' = wait_queues /\ next_waiter_id' = next_waiter_id /\ state' = state /\ permit' = permit
      /\ task' = task /\ cell' = cell
  BY DEF vars
<1>2. TypeOK'
  BY <1>1 DEF IInv, TypeOK
<1>3. Ordered' /\ QueueClean'
  BY <1>1 DEF IInv, Ordered, QueueClean, At
<1>4. Owned'
  BY <1>1 DEF IInv, Owned, Owns, Blocked, At, Coming
<1> QED BY <1>2, <1>3, <1>4 DEF IInv

\* A marked waiter gives up its place in the queue: try_mark_timed_out wins.
LEMMA TimedOutKeeps ==
  ASSUME IInv, NEW t \in Tasks, NEW w, w = task[t].id, At(t, "expired"), CasWins(w),
         state' = [state EXCEPT ![w] = "TIMED_OUT"], Goto(t, "removing"),
         UNCHANGED <<cell, wait_queues, next_waiter_id, permit>>
  PROVE  IInv'
<1>1. PICK r : r = [task[t] EXCEPT !.pc = "removing"]
  BY Zenon
<1>2. r \in TaskRecords /\ r.pc = "removing" /\ r.id = w /\ r.addr = task[t].addr /\ r.wake = task[t].wake
  <2>1. TypeOK /\ "removing" \in Pcs
    BY DEF IInv, Pcs
  <2> QED BY <1>1, <2>1, TaskIsRecord
<1>3. task \in [Tasks -> TaskRecords]
  BY DEF IInv, TypeOK, TaskRecords, Pcs
<1>4. task' = [task EXCEPT ![t] = r]
  BY <1>1 DEF Goto
<1>5. /\ task' \in [Tasks -> TaskRecords] /\ task'[t] = r
      /\ \A u \in Tasks : u # t => task'[u] = task[u]
  BY <1>2, <1>3, <1>4
<1>6. Blocked(t) /\ Owns(t, w)
  <2>1. Blocked(t) /\ w \in 0..MaxWaits
    BY <1>3 DEF Blocked, At, TaskRecords
  <2> QED BY <2>1 DEF IInv, Owned
<1>7. state \in [Waits -> {"none", "WAITING", "NOTIFIED", "TIMED_OUT"}] /\ w \in Waits
  BY <1>6 DEF IInv, TypeOK, Owns
<1>8. /\ state' \in [Waits -> {"none", "WAITING", "NOTIFIED", "TIMED_OUT"}]
      /\ state'[w] = "TIMED_OUT" /\ state[w] = "WAITING"
      /\ \A u \in Waits : u # w => state'[u] = state[u]
  BY <1>7 DEF CasWins
<1>9. wait_queues' = wait_queues /\ next_waiter_id' = next_waiter_id /\ permit' = permit /\ cell' = cell
  OBVIOUS
<1>10. TypeOK'
  BY <1>5, <1>8, <1>9 DEF IInv, TypeOK, TaskRecords, Pcs
<1>11. Ordered'
  <2>1. \A u \in Waits : state'[u] = "none" <=> u >= next_waiter_id
    BY <1>7, <1>8 DEF IInv, Ordered
  <2> QED BY <1>9, <2>1 DEF IInv, Ordered
<1>12. \A u \in Tasks : task'[u].wake = task[u].wake /\ task'[u].id = task[u].id /\ task'[u].addr = task[u].addr
                        /\ (Blocked(u)' <=> Blocked(u)) /\ (At(u, "waking")' <=> At(u, "waking"))
                        /\ (u # t => (At(u, "removing")' <=> At(u, "removing")))
  BY <1>2, <1>5, <1>6 DEF Blocked, At
<1>13. \A x \in Waits : Coming(x) => Coming(x)'
  BY <1>9, <1>12 DEF Coming
<1>14. ASSUME NEW u \in Tasks, NEW x \in 0..MaxWaits, Blocked(u)', task'[u].id = x
       PROVE  Owns(u, x)'
  <2>1. Owns(u, x) /\ task[u].id = x /\ Blocked(u)
    BY <1>12, <1>14 DEF IInv, Owned
  <2>2. x \in Waits /\ (u # t => x # w)
    BY <1>6, <2>1 DEF IInv, Owned, Owns
  <2>3. CASE u = t
    <3>1. x = w /\ At(u, "removing")'
      BY <1>2, <1>5, <1>14, <2>3 DEF At
    <3> QED BY <1>8, <1>9, <1>12, <2>1, <2>3, <3>1 DEF Owns
  <2>4. CASE u # t
    <3>1. state'[x] = state[x]
      BY SMTT(20), <1>8, <2>2, <2>4
    <3> QED BY <1>9, <1>12, <1>13, <2>1, <2>2, <2>4, <3>1 DEF Owns
  <2> QED BY <2>3, <2>4
<1>15. Owned'
  BY <1>12, <1>14 DEF IInv, Owned
<1>16. QueueClean'
  <2> SUFFICES ASSUME NEW a \in Addrs, NEW x \in Range(wait_queues'[a]), state'[x] # "WAITING"
               PROVE  \E u \in Tasks : At(u, "removing")' /\ task'[u].id = x
    BY DEF QueueClean
  <2>1. CASE x = w
    BY <1>2, <1>5, <2>1 DEF At
  <2>2. CASE x # w
    <3>1. state'[x] = state[x]
      BY <1>7, <2>2
    <3>2. PICK u \in Tasks : At(u, "removing") /\ task[u].id = x
      BY <1>9, <3>1 DEF IInv, QueueClean
    <3> QED BY <1>12, <2>2, <3>2
  <2> QED BY <2>1, <2>2
<1> QED BY <1>10, <1>11, <1>15, <1>16 DEF IInv

\* The compare-and-swap to TIMED_OUT keeps the invariant, whether it wins or
\* loses.
LEMMA MarkTimedOutKeeps == ASSUME IInv, NEW t \in Tasks, MarkTimedOut(t) PROVE IInv'
<1>1. At(t, "expired") /\ UNCHANGED <<cell, wait_queues, next_waiter_id, permit>>
  BY DEF MarkTimedOut
<1>2. CASE CasWins(task[t].id)
  BY <1>1, <1>2, TimedOutKeeps DEF MarkTimedOut, MarkWins
<1>3. CASE ~ CasWins(task[t].id)
  <2>1. Blocked(t) /\ ~ At(t, "removing")
    BY <1>1 DEF Blocked, At
  <2> QED BY <1>1, <1>3, <2>1, ResumeMoves DEF MarkTimedOut, MarkWins
<1> QED BY <1>2, <1>3

\* The ids handed out so far.
LEMMA IdsAre ==
  ASSUME TypeOK
  PROVE  /\ 1..(next_waiter_id - 1) \subseteq Waits /\ Waits \subseteq Nat /\ next_waiter_id \in Nat
         /\ \A a \in Addrs : wait_queues[a] \in Seq(1..(next_waiter_id - 1))
         /\ \A a \in Addrs : \A w \in Range(wait_queues[a]) : w \in Waits /\ w < next_waiter_id
<1>1. 1..(next_waiter_id - 1) \subseteq Waits /\ Waits \subseteq Nat /\ next_waiter_id \in Nat
  <2>1. next_waiter_id \in 1..(MaxWaits + 1)
    BY DEF TypeOK
  <2>2. next_waiter_id \in Nat /\ next_waiter_id <= MaxWaits + 1
    BY <2>1, SharedWaitAssumption
  <2>3. \A w \in 1..(next_waiter_id - 1) : w \in 1..MaxWaits
    BY <2>2, SharedWaitAssumption
  <2> QED BY <2>2, <2>3, SharedWaitAssumption DEF Waits
<1>2. \A a \in Addrs : wait_queues[a] \in Seq(1..(next_waiter_id - 1))
  BY DEF TypeOK
<1>3. ASSUME NEW a \in Addrs, NEW w \in Range(wait_queues[a]) PROVE w \in 1..(next_waiter_id - 1)
  <2>1. PICK q \in Seq(1..(next_waiter_id - 1)) : q = wait_queues[a]
    BY <1>2
  <2>2. PICK i \in 1..Len(q) : w = q[i]
    BY <2>1, SeqFacts DEF Range
  <2> QED BY Zenon, <2>2, SeqFacts
<1>4. \A w \in 1..(next_waiter_id - 1) : w < next_waiter_id
  BY <1>1
<1> QED BY Zenon, <1>1, <1>2, <1>3, <1>4

\* Removing the own entry from the queue keeps the invariant.
LEMMA RemoveWaiterKeeps == ASSUME IInv, NEW t \in Tasks, RemoveWaiter(t) PROVE IInv'
<1>1. task \in [Tasks -> TaskRecords] /\ At(t, "removing")
  BY DEF IInv, TypeOK, TaskRecords, Pcs, RemoveWaiter
<1>2. PICK w \in 0..MaxWaits : w = task[t].id
  BY <1>1 DEF TaskRecords
<1>3. Blocked(t) /\ Owns(t, w)
  BY <1>1, <1>2 DEF Blocked, At, IInv, Owned
<1>4. PICK a \in Addrs : a = task[t].addr
  BY <1>3 DEF Owns
<1>5. PICK q \in Seq(1..(next_waiter_id - 1)) : q = wait_queues[a]
  BY IdsAre DEF IInv
<1>6. PICK r : r = Removed(q, w)
  OBVIOUS
<1>7. wait_queues \in [Addrs -> Seq(1..(next_waiter_id - 1))]
  BY DEF IInv, TypeOK
<1>8. wait_queues' = [wait_queues EXCEPT ![a] = r]
  BY <1>2, <1>4, <1>5, <1>6 DEF RemoveWaiter
<1>9. 1..(next_waiter_id - 1) \subseteq Waits /\ 1..(next_waiter_id - 1) \subseteq Nat
      /\ \A b \in Addrs : \A x \in Range(wait_queues[b]) : x \in Waits
  BY IdsAre DEF IInv
<1>10. Increasing(q)
  BY <1>5 DEF IInv, Ordered
<1>11. r \in Seq(1..(next_waiter_id - 1)) /\ Range(r) = Range(q) \cap (Waits \ {w}) /\ Increasing(r)
  BY Zenon, <1>6, <1>9, <1>10, RetainedFacts DEF Removed
<1>12. /\ wait_queues' \in [Addrs -> Seq(1..(next_waiter_id - 1))]
       /\ wait_queues'[a] = r
       /\ \A b \in Addrs : b # a => wait_queues'[b] = wait_queues[b]
  BY <1>7, <1>8, <1>11
<1>13. \A b \in Addrs : \A x \in Waits : x \in Range(wait_queues'[b]) <=> x \in Range(wait_queues[b]) /\ x # w
  <2>1. \A x \in Waits : x \in Range(wait_queues'[a]) <=> x \in Range(wait_queues[a]) /\ x # w
    BY <1>5, <1>11, <1>12
  <2>2. ASSUME NEW b \in Addrs, b # a PROVE w \notin Range(wait_queues[b])
    BY <1>3, <1>4, <2>2 DEF Owns
  <2> QED BY <1>12, <2>1, <2>2
<1>14. next_waiter_id' = next_waiter_id /\ permit' = permit /\ cell' = cell /\ state' = state
  BY DEF RemoveWaiter
<1>15. /\ task' \in [Tasks -> TaskRecords] /\ task'[t] = Running
       /\ \A u \in Tasks : u # t => task'[u] = task[u]
  BY <1>1, RunningIsRecord DEF RemoveWaiter, Resume
<1>16. TypeOK'
  BY <1>12, <1>14, <1>15 DEF IInv, TypeOK, TaskRecords, Pcs
<1>17. Ordered'
  <2>1. \A b \in Addrs : Increasing(wait_queues'[b])
    BY <1>11, <1>12 DEF IInv, Ordered
  <2>2. \A b, c \in Addrs, x \in Waits :
          x \in Range(wait_queues'[b]) /\ x \in Range(wait_queues'[c]) => b = c
    BY <1>13 DEF IInv, Ordered
  <2> QED BY <1>14, <2>1, <2>2 DEF IInv, Ordered
<1>18. task[t].wake = <<>>
  BY <1>1 DEF IInv, Owned, At
<1>19. \A u \in Tasks : task'[u].wake = task[u].wake
  BY <1>15, <1>18, RunningIsRecord
<1>20. \A x \in Waits : Coming(x) => Coming(x)'
  BY <1>14, <1>19 DEF Coming
<1>21. \A u \in Tasks : Blocked(u)' => u # t
  BY <1>15, RunningIsRecord DEF Blocked
<1>22. \A u \in Tasks : u # t => /\ Blocked(u)' <=> Blocked(u)
                                 /\ At(u, "removing")' <=> At(u, "removing")
                                 /\ At(u, "waking")' <=> At(u, "waking")
  BY <1>15 DEF Blocked, At
<1>23. ASSUME NEW u \in Tasks, NEW x \in 0..MaxWaits, Blocked(u)', task'[u].id = x
       PROVE  Owns(u, x)'
  <2>1. u # t /\ task'[u] = task[u] /\ Blocked(u)
    BY <1>15, <1>21, <1>22, <1>23
  <2>2. Owns(u, x)
    BY <1>23, <2>1 DEF IInv, Owned
  <2>3. x \in Waits /\ x # w
    BY <1>2, <1>3, <1>23, <2>1, <2>2 DEF IInv, Owned, Owns
  <2>4. \A b \in Addrs : x \in Range(wait_queues'[b]) <=> x \in Range(wait_queues[b])
    BY <1>13, <2>3
  <2>5. Coming(x) => Coming(x)'
    BY <1>20, <2>3
  <2>6. At(u, "removing")' <=> At(u, "removing")
    BY <1>22, <2>1
  <2> QED BY <1>14, <2>1, <2>2, <2>4, <2>5, <2>6 DEF Owns
<1>24. \A u \in Tasks : ~ At(u, "waking")' => task'[u].wake = <<>>
  BY <1>15, <1>22, RunningIsRecord DEF IInv, Owned
<1>25. \A u, v \in Tasks : Blocked(u)' /\ Blocked(v)' /\ task'[u].id = task'[v].id => u = v
  BY <1>15, <1>21, <1>22 DEF IInv, Owned
<1>26. Owned'
  BY <1>23, <1>24, <1>25 DEF Owned
<1>27. QueueClean'
  <2> SUFFICES ASSUME NEW b \in Addrs, NEW x \in Range(wait_queues'[b]), state'[x] # "WAITING"
               PROVE  \E u \in Tasks : At(u, "removing")' /\ task'[u].id = x
    BY DEF QueueClean
  <2>1. x \in Waits
    BY <1>9, <1>11, <1>12
  <2>2. x \in Range(wait_queues[b]) /\ x # w
    BY <1>13, <2>1
  <2>3. PICK u \in Tasks : At(u, "removing") /\ task[u].id = x
    BY <1>14, <2>2 DEF IInv, QueueClean
  <2>4. u # t
    BY <1>2, <2>2, <2>3
  <2> QED BY <1>15, <1>22, <2>3, <2>4
<1> QED BY <1>16, <1>17, <1>26, <1>27 DEF IInv

\* A newer id is queued behind the older ones.
LEMMA QueuedBehind ==
  ASSUME NEW n \in Nat, NEW q \in Seq(1..(n - 1)), n >= 1, Increasing(q)
  PROVE  /\ Append(q, n) \in Seq(1..n)
         /\ Range(Append(q, n)) = Range(q) \cup {n}
         /\ Increasing(Append(q, n))
<1>1. q \in Seq(1..n)
  <2>1. 1..(n - 1) \subseteq 1..n
    OBVIOUS
  <2> QED BY <2>1, SeqGrows
<1>2. \A i \in 1..Len(q) : q[i] \in 1..(n - 1)
  BY SeqFacts
<1>3. PICK m \in Nat : m = Len(q)
  BY SeqFacts
<1>4. PICK e : e = Append(q, n)
  BY Zenon
<1>5. e \in Seq(1..n) /\ Len(e) = m + 1 /\ e[m + 1] = n /\ \A i \in 1..m : e[i] = q[i]
  <2>1. n \in 1..n
    OBVIOUS
  <2> QED BY <1>1, <1>3, <1>4, <2>1, AppendFacts
<1>6. Range(e) = {e[i] : i \in 1..(m + 1)} /\ Range(q) = {q[i] : i \in 1..m}
  BY Zenon, <1>3, <1>5, SeqFacts DEF Range
<1>7. Range(e) = Range(q) \cup {n}
  <2>1. ASSUME NEW x \in Range(e) PROVE x \in Range(q) \cup {n}
    <3>1. PICK i \in 1..(m + 1) : x = e[i]
      BY <1>6
    <3>2. i = m + 1 \/ i \in 1..m
      OBVIOUS
    <3> QED BY Zenon, <1>5, <1>6, <3>1, <3>2
  <2>2. \A i \in 1..m : i \in 1..(m + 1) /\ e[i] = q[i]
    BY <1>5
  <2>3. m + 1 \in 1..(m + 1)
    OBVIOUS
  <2> QED BY <1>5, <1>6, <2>1, <2>2, <2>3
<1>8. ASSUME NEW i \in 1..(m + 1), NEW j \in 1..(m + 1), i < j PROVE e[i] < e[j]
  <2>1. i \in 1..m /\ (j \in 1..m \/ j = m + 1) /\ e[i] = q[i]
    BY <1>5, <1>8
  <2>2. CASE j \in 1..m
    BY <1>3, <1>5, <1>8, <2>1, <2>2 DEF Increasing
  <2>3. CASE j = m + 1
    <3>1. q[i] \in 1..(n - 1)
      BY <1>2, <1>3, <2>1
    <3> QED BY <1>5, <2>1, <2>3, <3>1
  <2> QED BY <2>1, <2>2, <2>3
<1>9. Increasing(e)
  BY <1>5, <1>8 DEF Increasing
<1> QED BY <1>4, <1>5, <1>7, <1>9

\* The word has the expected value: the task queues a new waiter n.
Queues(t, a, n, timed, r) ==
  /\ At(t, "running") /\ n = next_waiter_id /\ n \in Waits
  /\ next_waiter_id' = n + 1
  /\ wait_queues' = [wait_queues EXCEPT ![a] = Append(wait_queues[a], n)]
  /\ state' = [state EXCEPT ![n] = "WAITING"]
  /\ task' = [task EXCEPT ![t] = r]
  /\ r = [pc |-> "registered", addr |-> a, id |-> n, timed |-> timed, wake |-> <<>>]
  /\ UNCHANGED <<cell, permit>>

\* Registering a fresh waiter at the back of a queue keeps the invariant.
LEMMA QueuesKeeps ==
  ASSUME IInv, NEW t \in Tasks, NEW a \in Addrs, NEW n, NEW timed \in BOOLEAN, NEW r,
         Queues(t, a, n, timed, r)
  PROVE  IInv'
<1>1. task \in [Tasks -> TaskRecords] /\ At(t, "running")
  BY DEF IInv, TypeOK, TaskRecords, Pcs, Queues
<1>2. n \in Nat /\ n >= 1 /\ n \in Waits /\ n = next_waiter_id /\ n \in 1..MaxWaits /\ n <= MaxWaits
  BY SharedWaitAssumption DEF Queues, Waits
<1>3. wait_queues \in [Addrs -> Seq(1..(n - 1))]
  BY <1>2 DEF IInv, TypeOK
<1>4. PICK q \in Seq(1..(n - 1)) : q = wait_queues[a]
  BY <1>3
<1>5. Increasing(q)
  BY <1>4 DEF IInv, Ordered
<1>6. PICK e : e = Append(q, n)
  BY Zenon
<1>7. e \in Seq(1..n) /\ Range(e) = Range(q) \cup {n} /\ Increasing(e)
  BY <1>2, <1>5, <1>6, QueuedBehind
<1>8. wait_queues' = [wait_queues EXCEPT ![a] = e]
  BY <1>4, <1>6 DEF Queues
<1>9. \A b \in Addrs : wait_queues[b] \in Seq(1..n)
  <2>1. 1..(n - 1) \subseteq 1..n
    BY <1>2
  <2>2. \A s \in Seq(1..(n - 1)) : s \in Seq(1..n)
    BY Zenon, <2>1, SeqGrows
  <2> QED BY <1>3, <2>2
<1>10. /\ wait_queues' \in [Addrs -> Seq(1..n)]
       /\ wait_queues'[a] = e
       /\ \A b \in Addrs : b # a => wait_queues'[b] = wait_queues[b]
  BY <1>3, <1>7, <1>8, <1>9
<1>11. \A b \in Addrs : \A w \in Range(wait_queues[b]) : w \in Waits /\ w < n
  BY <1>2, IdsAre DEF IInv
<1>12. \A b \in Addrs : n \notin Range(wait_queues[b])
  BY <1>2, <1>11
<1>13. /\ \A b \in Addrs, w \in Waits : w # n =>
            (w \in Range(wait_queues'[b]) <=> w \in Range(wait_queues[b]))
       /\ \A b \in Addrs : n \in Range(wait_queues'[b]) <=> b = a
  <2>1. \A w : w \in Range(wait_queues'[a]) <=> w \in Range(wait_queues[a]) \/ w = n
    BY <1>4, <1>7, <1>10
  <2> QED BY Zenon, <1>10, <1>12, <2>1
<1>14. state \in [Waits -> {"none", "WAITING", "NOTIFIED", "TIMED_OUT"}]
  BY DEF IInv, TypeOK
<1>15. /\ state' \in [Waits -> {"none", "WAITING", "NOTIFIED", "TIMED_OUT"}] /\ state'[n] = "WAITING"
       /\ \A w \in Waits : w # n => state'[w] = state[w]
  BY <1>2, <1>14 DEF Queues
<1>16. next_waiter_id' = n + 1 /\ cell' = cell /\ permit' = permit
  BY DEF Queues
<1>17. r \in TaskRecords /\ r.pc = "registered" /\ r.addr = a /\ r.id = n /\ r.wake = <<>>
  <2>1. r = [pc |-> "registered", addr |-> a, id |-> n, timed |-> timed, wake |-> <<>>]
    BY DEF Queues
  <2>2. n \in 0..MaxWaits /\ <<>> \in Seq(Waits)
    BY <1>2, EmptyRange, SharedWaitAssumption
  <2> QED BY <2>1, <2>2 DEF TaskRecords, Pcs
<1>18. /\ task' \in [Tasks -> TaskRecords] /\ task'[t] = r
       /\ \A u \in Tasks : u # t => task'[u] = task[u]
  BY <1>1, <1>17 DEF Queues
<1>19. TypeOK'
  <2>1. next_waiter_id' \in 1..(MaxWaits + 1) /\ next_waiter_id' - 1 = n
    BY <1>2, <1>16, SharedWaitAssumption
  <2>2. wait_queues' \in [Addrs -> Seq(1..(next_waiter_id' - 1))]
    BY <1>10, <2>1
  <2> QED BY <1>15, <1>16, <1>18, <2>1, <2>2 DEF IInv, TypeOK, TaskRecords, Pcs
<1>20. Ordered'
  <2>1. \A b \in Addrs : Increasing(wait_queues'[b])
    BY <1>7, <1>10 DEF IInv, Ordered
  <2>2. \A b, c \in Addrs, w \in Waits :
          w \in Range(wait_queues'[b]) /\ w \in Range(wait_queues'[c]) => b = c
    BY <1>13 DEF IInv, Ordered
  <2>3. ASSUME NEW w \in Waits PROVE state'[w] = "none" <=> w >= next_waiter_id'
    <3>1. state[w] = "none" <=> w >= n
      BY <1>2 DEF IInv, Ordered
    <3>2. w \in Nat
      BY SharedWaitAssumption DEF Waits
    <3> QED BY <1>2, <1>15, <1>16, <3>1, <3>2
  <2> QED BY <2>1, <2>2, <2>3 DEF Ordered
<1>21. task[t].wake = <<>> /\ ~ Blocked(t)
  BY <1>1 DEF IInv, Owned, At, Blocked
<1>22. \A u \in Tasks : task'[u].wake = task[u].wake
  BY <1>17, <1>18, <1>21
<1>23. \A w \in Waits : Coming(w) => Coming(w)'
  BY <1>16, <1>22 DEF Coming
<1>24. \A u \in Tasks : u # t => /\ Blocked(u)' <=> Blocked(u)
                                 /\ At(u, "removing")' <=> At(u, "removing")
                                 /\ At(u, "waking")' <=> At(u, "waking")
  BY <1>18 DEF Blocked, At
<1>25. \A u \in Tasks, w \in 0..MaxWaits : u # t /\ Blocked(u) /\ task[u].id = w => w \in Waits /\ w # n /\ w < n
  BY <1>2, IdsAre DEF IInv, Owned, Owns
<1>26. ASSUME NEW u \in Tasks, NEW w \in 0..MaxWaits, Blocked(u)', task'[u].id = w
       PROVE  Owns(u, w)'
  <2>1. CASE u = t
    <3>1. w = n /\ task'[u].addr = a /\ ~ At(u, "removing")'
      BY <1>17, <1>18, <1>26, <2>1 DEF At
    <3>2. w \in Waits /\ w < next_waiter_id' /\ state'[w] = "WAITING"
      BY <1>2, <1>15, <1>16, <3>1
    <3> QED BY <1>13, <3>1, <3>2 DEF Owns
  <2>2. CASE u # t
    <3>1. task'[u] = task[u] /\ Blocked(u) /\ Owns(u, w) /\ w \in Waits /\ w # n
      BY SMTT(20), <1>18, <1>24, <1>25, <1>26, <2>2 DEF IInv, Owned
    <3>2. \A b \in Addrs : w \in Range(wait_queues'[b]) <=> w \in Range(wait_queues[b])
      BY <1>13, <3>1
    <3>3. state'[w] = state[w] /\ (Coming(w) => Coming(w)')
      BY <1>15, <1>23, <3>1
    <3>4. At(u, "removing")' <=> At(u, "removing")
      BY <1>24, <2>2
    <3>5. w < next_waiter_id'
      BY <1>2, <1>16, <1>25, <2>2, <3>1, <1>26
    <3> QED BY SMTT(20), <3>1, <3>2, <3>3, <3>4, <3>5 DEF Owns
  <2> QED BY <2>1, <2>2
<1>27. ASSUME NEW u \in Tasks, NEW v \in Tasks, Blocked(u)', Blocked(v)', task'[u].id = task'[v].id
       PROVE  u = v
  <2>1. \A x \in Tasks : task[x].id \in 0..MaxWaits
    BY <1>1 DEF TaskRecords
  <2>2. \A x \in Tasks : x # t /\ Blocked(x)' => Blocked(x) /\ task'[x].id = task[x].id /\ task'[x].id # n
    BY <1>18, <1>24, <1>25, <2>1
  <2>3. task'[t].id = n
    BY SMTT(20), <1>17, <1>18
  <2>4. CASE u # t /\ v # t
    BY <1>27, <2>2, <2>4 DEF IInv, Owned
  <2> QED BY <1>27, <2>2, <2>3, <2>4
<1>28. \A u \in Tasks : ~ At(u, "waking")' => task'[u].wake = <<>>
  BY <1>17, <1>18, <1>24 DEF IInv, Owned
<1>29. Owned'
  BY <1>26, <1>27, <1>28 DEF Owned
<1>30. QueueClean'
  <2> SUFFICES ASSUME NEW b \in Addrs, NEW w \in Range(wait_queues'[b]), state'[w] # "WAITING"
               PROVE  \E u \in Tasks : At(u, "removing")' /\ task'[u].id = w
    BY DEF QueueClean
  <2>1. w \in Range(wait_queues[b]) /\ w # n
    BY Zenon, <1>4, <1>7, <1>10, <1>15
  <2>2. state'[w] = state[w]
    BY <1>11, <1>15, <2>1
  <2>3. PICK u \in Tasks : At(u, "removing") /\ task[u].id = w
    BY <2>1, <2>2 DEF IInv, QueueClean
  <2>4. u # t
    BY <1>1, <2>3 DEF At
  <2> QED BY <1>18, <1>24, <2>3, <2>4
<1> QED BY <1>19, <1>20, <1>29, <1>30 DEF IInv

\* A wait keeps the invariant, whether the cell matches or not.
LEMMA RegisterKeeps ==
  ASSUME IInv, NEW t \in Tasks, NEW a \in Addrs, NEW v \in Values, NEW timed \in BOOLEAN,
         Register(t, a, v, timed)
  PROVE  IInv'
<1>1. CASE cell[a] = v
  <2>1. PICK r : r = [pc |-> "registered", addr |-> a, id |-> next_waiter_id, timed |-> timed, wake |-> <<>>]
    BY Zenon
  <2>2. Queues(t, a, next_waiter_id, timed, r)
    BY <1>1, <2>1 DEF Register, Queues
  <2> QED BY <2>2, QueuesKeeps
<1>2. CASE cell[a] # v
  <2>1. UNCHANGED vars
    BY <1>2 DEF Register, vars
  <2> QED BY <2>1, StutterKeeps
<1> QED BY <1>1, <1>2

\* notify_waiters up to the unlock, by what it does to the queue.
Notifies(t, a, n, wake, rest, r) ==
  /\ At(t, "running")
  /\ wake = Retained(SubSeq(wait_queues[a], 1, Popped(wait_queues[a], IsWaiting, n)), IsWaiting)
  /\ wake \in Seq(1..(next_waiter_id - 1)) /\ rest \in Seq(1..(next_waiter_id - 1))
  /\ Splits(wait_queues[a], IsWaiting, wake, rest)
  /\ wait_queues' = [wait_queues EXCEPT ![a] = rest]
  /\ state' = [w \in Waits |-> IF w \in Range(wake) THEN "NOTIFIED" ELSE state[w]]
  /\ task' = [task EXCEPT ![t] = r]
  /\ r \in TaskRecords /\ r.pc = "waking" /\ r.wake = wake
  /\ UNCHANGED <<cell, next_waiter_id, permit>>

\* What a notify does to the queue and to the waiters it takes.
LEMMA NotifyIsSplit ==
  ASSUME IInv, NEW t \in Tasks, NEW a \in Addrs, NEW n \in Counts, NotifyWaiters(t, a, n)
  PROVE  \E wake, rest, r : Notifies(t, a, n, wake, rest, r)
<1>1. PICK q \in Seq(1..(next_waiter_id - 1)) : q = wait_queues[a]
  BY IdsAre DEF IInv
<1>2. Increasing(q)
  BY <1>1 DEF IInv, Ordered
<1>3. PICK k \in 0..Len(q) : k = Popped(q, IsWaiting, n)
  BY PoppedIsPrefix
<1>4. PICK wake : wake = Retained(SubSeq(q, 1, k), IsWaiting)
  OBVIOUS
<1>5. PICK rest : rest = Retained(SubSeq(q, k + 1, Len(q)), IsWaiting)
  OBVIOUS
<1>6. 1..(next_waiter_id - 1) \subseteq Nat /\ 1..(next_waiter_id - 1) \subseteq Waits /\ n \in Nat
  BY IdsAre, SharedWaitAssumption DEF IInv
<1>7. wake \in Seq(1..(next_waiter_id - 1)) /\ rest \in Seq(1..(next_waiter_id - 1))
      /\ Splits(q, IsWaiting, wake, rest)
  BY Zenon, <1>2, <1>4, <1>5, <1>6, NotifySplits
<1>8. PICK x \in TaskRecords : x = task[t]
  BY TaskIsRecord DEF IInv
<1>9. PICK r : r = [x EXCEPT !.pc = "waking", !.wake = wake]
  OBVIOUS
<1>10. wake \in Seq(Waits)
  BY Zenon, <1>6, <1>7, SeqGrows
<1>11. r \in TaskRecords /\ r.pc = "waking" /\ r.wake = wake
  BY <1>9, <1>10 DEF TaskRecords, Pcs
<1>12. task' = [task EXCEPT ![t].pc = "waking", ![t].wake = wake]
  BY <1>1, <1>3, <1>4 DEF NotifyWaiters
<1>13. task' = [task EXCEPT ![t] = r]
  BY <1>8, <1>9, <1>12 DEF IInv, TypeOK
<1>14. wait_queues' = [wait_queues EXCEPT ![a] = rest]
  BY <1>1, <1>3, <1>5 DEF NotifyWaiters
<1>15. state' = [w \in Waits |-> IF w \in Range(wake) THEN "NOTIFIED" ELSE state[w]]
  BY <1>1, <1>3, <1>4 DEF NotifyWaiters
<1>16. At(t, "running") /\ UNCHANGED <<cell, next_waiter_id, permit>>
  BY DEF NotifyWaiters
<1>17. Notifies(t, a, n, wake, rest, r)
  BY <1>1, <1>3, <1>4, <1>7, <1>11, <1>13, <1>14, <1>15, <1>16 DEF Notifies
<1> QED BY <1>17

\* Dividing a queue into woken and retained waiters keeps the invariant.
LEMMA NotifiesKeeps ==
  ASSUME IInv, NEW t \in Tasks, NEW a \in Addrs, NEW n, NEW wake, NEW rest, NEW r,
         Notifies(t, a, n, wake, rest, r)
  PROVE  IInv'
<1>1. task \in [Tasks -> TaskRecords] /\ At(t, "running") /\ r \in TaskRecords /\ r.pc = "waking" /\ r.wake = wake
  BY DEF IInv, TypeOK, TaskRecords, Pcs, Notifies
<1>2. /\ task' \in [Tasks -> TaskRecords] /\ task'[t] = r
      /\ \A u \in Tasks : u # t => task'[u] = task[u]
  BY <1>1 DEF Notifies
<1>3. next_waiter_id' = next_waiter_id /\ permit' = permit /\ cell' = cell
  BY DEF Notifies
<1>4. wait_queues \in [Addrs -> Seq(1..(next_waiter_id - 1))] /\ rest \in Seq(1..(next_waiter_id - 1))
  BY DEF IInv, TypeOK, Notifies
<1>5. /\ wait_queues' \in [Addrs -> Seq(1..(next_waiter_id - 1))]
      /\ wait_queues'[a] = rest
      /\ \A b \in Addrs : b # a => wait_queues'[b] = wait_queues[b]
  BY <1>4 DEF Notifies
<1>6. /\ state \in [Waits -> {"none", "WAITING", "NOTIFIED", "TIMED_OUT"}]
      /\ state' = [w \in Waits |-> IF w \in Range(wake) THEN "NOTIFIED" ELSE state[w]]
  BY DEF IInv, TypeOK, Notifies
<1>7. /\ state' \in [Waits -> {"none", "WAITING", "NOTIFIED", "TIMED_OUT"}]
      /\ \A w \in Waits : state'[w] = IF w \in Range(wake) THEN "NOTIFIED" ELSE state[w]
  BY <1>6
<1>8. /\ \A b \in Addrs : \A w \in Range(wait_queues[b]) : w \in Waits /\ w < next_waiter_id
      /\ Waits \subseteq Nat
  BY IdsAre DEF IInv
<1>9. /\ \A w : (w \in Range(wake) \/ w \in Range(rest)) <=>
                (w \in Range(wait_queues[a]) /\ w \in Waits /\ state[w] = "WAITING")
      /\ \A u \in Range(wake), w \in Range(rest) : u < w
      /\ Increasing(rest)
  BY DEF Notifies, Splits, IsWaiting, CasWins
<1>10. \A w \in Range(rest) : w \notin Range(wake)
  <2>1. \A w \in Range(rest) : w \in Nat
    BY Zenon, <1>8, <1>9
  <2>2. \A w \in Nat : ~ (w < w)
    OBVIOUS
  <2> QED BY <1>9, <2>1, <2>2
<1>11. \A b \in Addrs, w \in Waits : w \in Range(wait_queues'[b]) => w \in Range(wait_queues[b])
  BY SMTT(20), <1>5, <1>9
<1>12. TypeOK'
  BY <1>2, <1>3, <1>5, <1>7 DEF IInv, TypeOK, TaskRecords, Pcs
<1>13. Ordered'
  <2>1. \A b \in Addrs : Increasing(wait_queues'[b])
    BY <1>5, <1>9 DEF IInv, Ordered
  <2>2. \A b, c \in Addrs, w \in Waits :
          w \in Range(wait_queues'[b]) /\ w \in Range(wait_queues'[c]) => b = c
    BY <1>11 DEF IInv, Ordered
  <2>3. \A w \in Waits : state'[w] = "none" <=> w >= next_waiter_id
    BY <1>7, <1>9 DEF IInv, Ordered
  <2> QED BY <1>3, <2>1, <2>2, <2>3 DEF Ordered
<1>14. task[t].wake = <<>> /\ ~ Blocked(t)
  BY <1>1 DEF IInv, Owned, At, Blocked
<1>15. \A w \in Waits : (Coming(w) \/ w \in Range(wake)) => Coming(w)'
  <2>1. \A w \in Range(wake) : w \in Range(task'[t].wake)
    BY <1>1, <1>2
  <2>2. \A u \in Tasks : \A w \in Range(task[u].wake) : w \in Range(task'[u].wake)
    BY <1>2, <1>14, EmptyRange
  <2> QED BY <1>3, <2>1, <2>2 DEF Coming
<1>16. \A u \in Tasks : u # t => /\ Blocked(u)' <=> Blocked(u)
                                 /\ At(u, "removing")' <=> At(u, "removing")
                                 /\ At(u, "waking")' <=> At(u, "waking")
  BY <1>2 DEF Blocked, At
<1>17. ~ Blocked(t)' /\ At(t, "waking")'
  BY <1>1, <1>2 DEF Blocked, At
<1>18. ASSUME NEW u \in Tasks, NEW w \in 0..MaxWaits, Blocked(u)', task'[u].id = w
       PROVE  Owns(u, w)'
  <2>1. u # t /\ task'[u] = task[u] /\ Blocked(u)
    BY SMTT(20), <1>2, <1>16, <1>17, <1>18
  <2>2. Owns(u, w) /\ w \in Waits
    BY <1>18, <2>1 DEF IInv, Owned, Owns
  <2>3. PICK c \in Addrs : c = task[u].addr
    BY <2>2 DEF Owns
  <2>4. \A b \in Addrs : w \in Range(wait_queues'[b]) => b = c
    BY <1>11, <2>2, <2>3 DEF Owns
  <2>5. state'[w] = "WAITING" => w \in Range(wait_queues'[c])
    <3> SUFFICES ASSUME state'[w] = "WAITING" PROVE w \in Range(wait_queues'[c])
      OBVIOUS
    <3>1. w \notin Range(wake) /\ state[w] = "WAITING"
      BY <1>7, <2>2
    <3>2. w \in Range(wait_queues[c])
      BY SMTT(20), <2>2, <2>3, <3>1 DEF Owns
    <3> QED BY <1>5, <1>9, <2>2, <3>1, <3>2
  <2>6. At(u, "removing")' <=> state'[w] = "TIMED_OUT"
    <3>1. At(u, "removing") <=> state[w] = "TIMED_OUT"
      BY <2>2 DEF Owns
    <3>2. w \in Range(wake) => state[w] = "WAITING"
      BY <1>9
    <3> QED BY SMTT(20), <1>7, <1>16, <2>1, <2>2, <3>1, <3>2
  <2>7. state'[w] = "NOTIFIED" => Coming(w)'
    BY SMTT(20), <1>7, <1>15, <2>2 DEF Owns
  <2>8. w < next_waiter_id' /\ task'[u].addr = c
    BY SMTT(20), <1>3, <2>1, <2>2, <2>3 DEF Owns
  <2> QED BY SMTT(20), <2>2, <2>3, <2>4, <2>5, <2>6, <2>7, <2>8 DEF Owns
<1>19. \A u, v \in Tasks : Blocked(u)' /\ Blocked(v)' /\ task'[u].id = task'[v].id => u = v
  BY <1>2, <1>16, <1>17 DEF IInv, Owned
<1>20. \A u \in Tasks : ~ At(u, "waking")' => task'[u].wake = <<>>
  BY SMTT(20), <1>2, <1>16, <1>17 DEF IInv, Owned
<1>21. Owned'
  BY SMTT(20), <1>18, <1>19, <1>20 DEF Owned
<1>22. QueueClean'
  <2> SUFFICES ASSUME NEW b \in Addrs, NEW w \in Range(wait_queues'[b]), state'[w] # "WAITING"
               PROVE  \E u \in Tasks : At(u, "removing")' /\ task'[u].id = w
    BY DEF QueueClean
  <2>1. b # a
    BY <1>5, <1>7, <1>9, <1>10
  <2>2. w \in Range(wait_queues[b]) /\ w \in Waits
    BY <1>5, <1>8, <2>1
  <2>3. w \notin Range(wake)
    BY <1>9, <2>1, <2>2 DEF IInv, Ordered
  <2>4. state[w] # "WAITING"
    BY <1>7, <2>2, <2>3
  <2>5. PICK u \in Tasks : At(u, "removing") /\ task[u].id = w
    BY <2>2, <2>4 DEF IInv, QueueClean
  <2>6. u # t
    BY <1>1, <2>5 DEF At
  <2> QED BY SMTT(20), <1>2, <1>16, <2>5, <2>6
<1> QED BY SMTT(20), <1>12, <1>13, <1>21, <1>22 DEF IInv

\* A notify keeps the invariant.
LEMMA NotifyWaitersKeeps ==
  ASSUME IInv, NEW t \in Tasks, NEW a \in Addrs, NEW n \in Counts, NotifyWaiters(t, a, n)
  PROVE  IInv'
BY NotifyIsSplit, NotifiesKeeps

\* One notify_one, or the end of notify_waiters.
Wakes(t, r, w) ==
  /\ At(t, "waking") /\ task' = [task EXCEPT ![t] = r] /\ r \in TaskRecords
  /\ r.pc \in {"running", "waking"}
  /\ r.pc = "running" => r.wake = <<>>
  /\ \A x \in Waits : x \in Range(task[t].wake) => x = w \/ x \in Range(r.wake)
  /\ permit' \in [Waits -> BOOLEAN]
  /\ \A x \in Waits : permit'[x] = (permit[x] \/ (x = w /\ r.pc = "waking"))
  /\ r.pc = "running" => task[t].wake = <<>>
  /\ UNCHANGED <<cell, wait_queues, next_waiter_id, state>>

\* What waking the next of the taken waiters does.
LEMMA NotifyOneWakes ==
  ASSUME IInv, NEW t \in Tasks, NotifyOne(t)
  PROVE  \E r, w : Wakes(t, r, w)
<1>1. PICK x \in TaskRecords : x = task[t]
  BY TaskIsRecord DEF IInv
<1>2. PICK s \in Seq(Waits) : s = task[t].wake
  BY <1>1 DEF TaskRecords
<1>3. At(t, "waking") /\ UNCHANGED <<cell, wait_queues, next_waiter_id, state>>
  BY DEF NotifyOne
<1>4. permit \in [Waits -> BOOLEAN]
  BY DEF IInv, TypeOK
<1>5. CASE s = <<>>
  <2>1. task' = [task EXCEPT ![t] = Running] /\ permit' = permit
    BY <1>2, <1>5 DEF NotifyOne, Resume
  <2>2. \A y \in Waits : y \notin Range(task[t].wake)
    BY <1>2, <1>5, EmptyRange
  <2>3. Wakes(t, Running, 0)
    BY <1>2, <1>3, <1>4, <1>5, <2>1, <2>2, RunningIsRecord DEF Wakes
  <2> QED BY <2>3
<1>6. CASE s # <<>>
  <2>1. PICK w \in Waits : w = Head(s)
    BY <1>6, TailFacts
  <2>2. PICK m \in Nat : m = Len(s)
    BY SeqFacts
  <2>3. PICK l \in Seq(Waits) : l = Tail(s)
    BY Zenon, <1>6, TailFacts
  <2>4. Len(l) = m - 1 /\ \A i \in 1..(m - 1) : l[i] = s[i + 1]
    BY <1>6, <2>2, <2>3, TailFacts
  <2>5. w = s[1]
    BY <1>6, <2>1
  <2>6. ASSUME NEW y \in Range(s) PROVE y = w \/ y \in Range(l)
    <3>1. PICK i \in 1..m : y = s[i]
      BY <2>2, SeqFacts DEF Range
    <3>2. CASE i = 1
      BY <2>5, <3>1, <3>2
    <3>3. CASE i # 1
      <4>1. i - 1 \in 1..(m - 1) /\ (i - 1) + 1 = i
        BY <3>3
      <4>2. l[i - 1] = y
        BY <2>4, <3>1, <4>1
      <4> QED BY <2>4, <4>1, <4>2, SeqFacts DEF Range
    <3> QED BY <3>2, <3>3
  <2>7. PICK r : r = [x EXCEPT !.wake = l]
    BY Zenon
  <2>8. r \in TaskRecords /\ r.pc = "waking" /\ r.wake = l
    BY <1>1, <1>3, <2>7 DEF TaskRecords, At
  <2>9. permit' = [permit EXCEPT ![w] = TRUE] /\ task' = [task EXCEPT ![t].wake = Tail(@)]
    BY <1>2, <1>6, <2>1 DEF NotifyOne
  <2>10. task' = [task EXCEPT ![t] = r]
    BY <1>1, <1>2, <2>3, <2>7, <2>9
  <2>11. permit' \in [Waits -> BOOLEAN]
    BY <1>4, <2>9
  <2>12. \A y \in Waits : permit'[y] = (permit[y] \/ (y = w /\ r.pc = "waking"))
    BY Zenon, <1>4, <2>8, <2>9
  <2>13. Wakes(t, r, w)
    BY <1>2, <1>3, <2>6, <2>8, <2>10, <2>11, <2>12 DEF Wakes
  <2> QED BY <2>13
<1> QED BY <1>5, <1>6

\* Giving one waiter its permit keeps the invariant.
LEMMA WakesKeeps ==
  ASSUME IInv, NEW t \in Tasks, NEW r, NEW w, Wakes(t, r, w)
  PROVE  IInv'
<1>1. task \in [Tasks -> TaskRecords] /\ At(t, "waking") /\ r \in TaskRecords /\ r.pc \in {"running", "waking"}
  BY DEF IInv, TypeOK, TaskRecords, Pcs, Wakes
<1>2. /\ task' \in [Tasks -> TaskRecords] /\ task'[t] = r
      /\ \A u \in Tasks : u # t => task'[u] = task[u]
  BY <1>1 DEF Wakes
<1>3. wait_queues' = wait_queues /\ next_waiter_id' = next_waiter_id /\ state' = state /\ cell' = cell
  BY SMTT(20) DEF Wakes
<1>4. TypeOK'
  BY <1>2, <1>3 DEF Wakes, IInv, TypeOK, TaskRecords, Pcs
<1>5. Ordered'
  BY <1>3 DEF IInv, Ordered
<1>6. ASSUME NEW x \in Waits, Coming(x) PROVE Coming(x)'
  <2>1. CASE permit[x]
    BY <2>1 DEF Wakes, Coming
  <2>2. CASE \E u \in Tasks : x \in Range(task[u].wake)
    <3>1. PICK u \in Tasks : x \in Range(task[u].wake)
      BY <2>2
    <3>2. CASE u # t
      BY <1>2, <3>1, <3>2 DEF Coming
    <3>3. CASE u = t
      <4>1. r.pc = "waking"
        BY SMTT(20), <1>1, <3>1, <3>3, EmptyRange DEF Wakes
      <4>2. x = w \/ x \in Range(task'[t].wake)
        BY <1>2, <3>1, <3>3 DEF Wakes
      <4>3. x = w => permit'[x]
        BY <4>1 DEF Wakes
      <4> QED BY <4>2, <4>3 DEF Coming
    <3> QED BY <3>2, <3>3
  <2> QED BY <1>6, <2>1, <2>2 DEF Coming
<1>7. ~ Blocked(t) /\ ~ Blocked(t)' /\ ~ At(t, "removing")
  BY <1>1, <1>2 DEF Blocked, At
<1>8. \A u \in Tasks : u # t => /\ Blocked(u)' <=> Blocked(u)
                                /\ At(u, "removing")' <=> At(u, "removing")
                                /\ At(u, "waking")' <=> At(u, "waking")
  BY <1>2 DEF Blocked, At
<1>9. ASSUME NEW u \in Tasks, NEW x \in 0..MaxWaits, Blocked(u)', task'[u].id = x
      PROVE  Owns(u, x)'
  <2>1. u # t /\ task'[u] = task[u] /\ Blocked(u)
    BY SMTT(20), <1>2, <1>7, <1>8, <1>9
  <2>2. Owns(u, x) /\ x \in Waits
    BY <1>9, <2>1 DEF IInv, Owned, Owns
  <2>3. Coming(x) => Coming(x)'
    BY <1>6, <2>2
  <2>4. At(u, "removing")' <=> At(u, "removing")
    BY SMTT(20), <1>8, <2>1
  <2> QED BY SMTT(20), <1>3, <2>1, <2>2, <2>3, <2>4 DEF Owns
<1>10. \A u, v \in Tasks : Blocked(u)' /\ Blocked(v)' /\ task'[u].id = task'[v].id => u = v
  BY SMTT(20), <1>2, <1>7, <1>8 DEF IInv, Owned
<1>11. ~ At(t, "waking")' => task'[t].wake = <<>>
  BY SMTT(20), <1>1, <1>2 DEF Wakes, At
<1>12. \A u \in Tasks : ~ At(u, "waking")' => task'[u].wake = <<>>
  BY SMTT(20), <1>2, <1>8, <1>11 DEF IInv, Owned
<1>13. Owned'
  BY <1>9, <1>10, <1>12 DEF Owned
<1>14. QueueClean'
  BY <1>2, <1>3, <1>7, <1>8 DEF IInv, QueueClean
<1> QED BY SMTT(20), <1>4, <1>5, <1>13, <1>14 DEF IInv

\* Waking the next of the taken waiters keeps the invariant.
LEMMA NotifyOneKeeps == ASSUME IInv, NEW t \in Tasks, NotifyOne(t) PROVE IInv'
BY NotifyOneWakes, WakesKeeps

\* Every step keeps the invariant.
LEMMA StepKeeps == ASSUME IInv, [Next]_vars PROVE IInv'
<1>1. CASE UNCHANGED vars
  BY <1>1, StutterKeeps
<1>2. CASE Next
  <2>1. PICK t \in Tasks :
          \/ \E a \in Addrs, v \in Values : Store(t, a, v)
          \/ \E a \in Addrs, v \in Values, timed \in BOOLEAN : Register(t, a, v, timed)
          \/ \E a \in Addrs, n \in Counts : NotifyWaiters(t, a, n)
          \/ WaitStep(t)
          \/ Abandon(t)
    BY <1>2 DEF Next
  <2>2. CASE \E a \in Addrs, v \in Values : Store(t, a, v)
    BY <2>2, StoreKeeps
  <2>3. CASE \E a \in Addrs, v \in Values, timed \in BOOLEAN : Register(t, a, v, timed)
    BY <2>3, RegisterKeeps
  <2>4. CASE \E a \in Addrs, n \in Counts : NotifyWaiters(t, a, n)
    BY <2>4, NotifyWaitersKeeps
  <2>5. CASE WaitStep(t)
    BY <2>5, PollWaitKeeps, ParkKeeps, NotifiedKeeps, ExpireKeeps, MarkTimedOutKeeps, RemoveWaiterKeeps,
       NotifyOneKeeps DEF WaitStep
  <2>6. CASE Abandon(t)
    BY <2>6, AbandonKeeps
  <2> QED BY <2>1, <2>2, <2>3, <2>4, <2>5, <2>6
<1> QED BY <1>1, <1>2

\* The inductive invariant holds in every reachable state.
THEOREM Inductive == Spec => []IInv
<1>1. Init => IInv
  BY InitEstablishes
<1>2. IInv /\ [Next]_vars => IInv'
  BY StepKeeps
<1> QED BY <1>1, <1>2, PTL DEF Spec

\* A blocked task owns the waiter that it blocks on.
LEMMA OwnsOf ==
  ASSUME IInv, NEW t \in Tasks, Blocked(t)
  PROVE  Owns(t, task[t].id)
<1>1. PICK w \in 0..MaxWaits : w = task[t].id
  BY TaskIsRecord DEF IInv, TaskRecords
<1> QED BY <1>1 DEF IInv, Owned

\* No wait is lost in the queues and no dead entry stays there: register_wait,
\* notify_waiters and remove_waiter keep the queues and the waiters in agreement.
THEOREM QueuesTheorem == Spec => []QueuesMatchWaits
<1>1. ASSUME IInv PROVE QueuesMatchWaits
  <2>1. ASSUME NEW t \in Tasks, Blocked(t), state[task[t].id] = "WAITING", NEW a \in Addrs
        PROVE  task[t].id \in Range(wait_queues[a]) <=> a = task[t].addr
    BY <1>1, <2>1, OwnsOf DEF Owns
  <2>2. StillQueued
    BY <2>1 DEF StillQueued
  <2> QED BY <1>1, <2>2 DEF IInv, QueuesMatchWaits
<1> QED BY <1>1, Inductive, PTL

\* No wake-up is lost: whoever is parked on a marked waiter has a permit, or the
\* notify_waiters that marked it is still to give it one.
THEOREM WakeTheorem == Spec => []WakeComing
<1>1. ASSUME IInv PROVE WakeComing
  <2>1. ASSUME NEW t \in Tasks, At(t, "parked"), state[task[t].id] = "NOTIFIED"
        PROVE  permit[task[t].id] \/ \E u \in Tasks : task[t].id \in Range(task[u].wake)
    <3>1. Blocked(t)
      BY <2>1 DEF At, Blocked
    <3> QED BY <1>1, <2>1, <3>1, OwnsOf DEF Owns, Coming
  <2> QED BY <2>1 DEF WakeComing
<1> QED BY <1>1, Inductive, PTL
=============================================================================
