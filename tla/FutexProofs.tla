---------------------------- MODULE FutexProofs ----------------------------
(***************************************************************************)
(* SharedWait implements Futex, for any number of tasks, offsets and waits.*)
(***************************************************************************)
EXTENDS SharedWaitProofs, FiniteSetTheorems

\* How many of the first k entries can be marked.
Marked(q, waiting, k) == Cardinality({i \in 1..k : q[i] \in waiting})

\* Counting the waiting entries of a queue one entry at a time.
LEMMA MarkedCount ==
  ASSUME NEW q, NEW waiting
  PROVE  /\ Marked(q, waiting, 0) = 0
         /\ \A k \in Nat : /\ Marked(q, waiting, k) \in Nat
                           /\ Marked(q, waiting, k + 1) \in
                                {Marked(q, waiting, k), Marked(q, waiting, k) + 1}
<1> DEFINE M(k) == {i \in 1..k : q[i] \in waiting}
<1>1. M(0) = {}
  OBVIOUS
<1>2. Marked(q, waiting, 0) = 0
  BY <1>1, FS_EmptySet DEF Marked
<1>3. ASSUME NEW k \in Nat
      PROVE  IsFiniteSet(M(k)) /\ Cardinality(M(k)) \in Nat
  <2>1. IsFiniteSet(1..k)
    BY FS_Interval
  <2>2. M(k) \in SUBSET (1..k)
    OBVIOUS
  <2> QED BY <2>1, <2>2, FS_Subset, FS_CardinalityType
<1>4. ASSUME NEW k \in Nat
      PROVE  Cardinality(M(k + 1)) \in {Cardinality(M(k)), Cardinality(M(k)) + 1}
  <2>1. CASE q[k + 1] \in waiting
    <3>1. M(k + 1) = M(k) \cup {k + 1} /\ k + 1 \notin M(k)
      BY <2>1
    <3> QED BY Zenon, <1>3, <3>1, FS_AddElement
  <2>2. CASE q[k + 1] \notin waiting
    <3>1. M(k + 1) = M(k)
      BY <2>2
    <3> QED BY <3>1
  <2> QED BY <2>1, <2>2
<1> QED BY Zenon, <1>2, <1>3, <1>4 DEF Marked

\* The pop loop stops after the n-th entry that it could mark, or at the end.
LEMMA PoppedFacts ==
  ASSUME NEW S, NEW q \in Seq(S), NEW waiting, NEW n \in Nat
  PROVE  /\ Popped(q, waiting, n) \in 0..Len(q)
         /\ \/ Marked(q, waiting, Popped(q, waiting, n)) = n
            \/ Popped(q, waiting, n) = Len(q) /\ Marked(q, waiting, Len(q)) < n
<1> DEFINE enough == {k \in 0..Len(q) : Marked(q, waiting, k) = n}
           reach  == {k \in Nat : Marked(q, waiting, k) >= n}
<1>1. PICK m \in Nat : m = Len(q)
  BY SeqFacts
<1>2. Popped(q, waiting, n) =
        IF enough = {} THEN Len(q) ELSE CHOOSE k \in enough : \A j \in enough : k <= j
  BY DEF Popped, Marked
<1>3. CASE enough = {}
  <2>1. ~ Marked(q, waiting, m) >= n
    <3> SUFFICES ASSUME Marked(q, waiting, m) >= n PROVE FALSE OBVIOUS
    <3>1. m \in reach
      OBVIOUS
    <3>2. PICK k \in reach : \A j \in reach : k <= j
      BY Zenon, <3>1, LeastNat
    <3>3. k \in Nat /\ k <= m /\ Marked(q, waiting, k) >= n
      BY <3>1, <3>2
    <3>4. Marked(q, waiting, k) # n
      BY <1>1, <1>3, <3>3
    <3>5. k # 0
      BY <3>3, <3>4, MarkedCount
    <3>6. PICK j \in Nat : k = j + 1
      <4>1. k - 1 \in Nat /\ k = (k - 1) + 1
        BY <3>3, <3>5
      <4> QED BY <4>1
    <3>7. j \notin reach
      BY <3>2, <3>3, <3>6
    <3>8. PICK a \in Nat : a = Marked(q, waiting, j)
      BY MarkedCount
    <3>9. Marked(q, waiting, j + 1) \in {a, a + 1}
      BY Zenon, <3>8, MarkedCount
    <3>10. ~ a >= n
      BY <3>7, <3>8
    <3> QED BY <3>3, <3>4, <3>6, <3>9, <3>10
  <2>2. Marked(q, waiting, m) \in Nat
    BY Zenon, MarkedCount
  <2> QED BY <1>1, <1>2, <1>3, <2>1, <2>2
<1>4. CASE enough # {}
  <2>1. enough \subseteq Nat
    BY <1>1
  <2>2. \E k \in enough : \A j \in enough : k <= j
    BY Zenon, <1>4, <2>1, LeastNat
  <2> HIDE DEF enough
  <2>3. Popped(q, waiting, n) \in enough
    BY <1>2, <1>4, <2>2
  <2> QED BY <2>3 DEF enough
<1> QED BY <1>3, <1>4

\* n waiters are woken, or all that wait when there are fewer.
Enough(wake, rest, n) ==
  \/ Cardinality(Range(wake)) = n
  \/ Range(rest) = {} /\ Cardinality(Range(wake)) < n

\* notify_waiters wakes as many waiters as it was asked for and there are.
LEMMA WokenCount ==
  ASSUME NEW S, S \subseteq Nat, NEW q \in Seq(S), Increasing(q), NEW waiting, NEW n \in Nat,
         NEW k, k = Popped(q, waiting, n),
         NEW wake, wake = Retained(SubSeq(q, 1, k), waiting), NEW rest,
         Splits(q, waiting, wake, rest)
  PROVE  Enough(wake, rest, n)
<1>1. PICK m \in Nat : m = Len(q)
  BY SeqFacts
<1>2. k \in 0..m
  BY <1>1, PoppedIsPrefix
<1>3. PICK p \in Seq(S) : p = SubSeq(q, 1, k)
  BY Zenon, <1>1, <1>2, QueueParts
<1>5. \A w : w \in Range(p) <=> \E i \in 1..k : q[i] = w
  <2>1. Parts(q, k, p, SubSeq(q, k + 1, Len(q)))
    BY Zenon, <1>1, <1>2, <1>3, QueueParts
  <2> QED BY <2>1 DEF Parts
<1>6. Range(wake) = Range(p) \cap waiting
  <2>1. Range(Retained(p, waiting)) = Range(p) \cap waiting
    BY Zenon, RetainedFacts
  <2> QED BY <1>3, <2>1
<1>8. Range(q) = {q[i] : i \in 1..m} /\ \A i \in 1..m : q[i] \in Nat
  BY Zenon, <1>1, SeqFacts DEF Range
<1>13. Cardinality(Range(wake)) = Marked(q, waiting, k)
  <2> DEFINE M == {i \in 1..k : q[i] \in waiting}
             f == [i \in M |-> q[i]]
  <2>1. IsFiniteSet(M)
    <3>1. IsFiniteSet(1..k) /\ M \in SUBSET (1..k)
      BY <1>2, FS_Interval
    <3> QED BY Zenon, <3>1, FS_Subset
  <2>2. f \in [M -> Range(wake)]
    BY <1>6, <1>5
  <2>3. \A w \in Range(wake) : \E i \in M : f[i] = w
    BY <1>6, <1>5
  <2>4. ASSUME NEW i \in M, NEW j \in M, f[i] = f[j] PROVE i = j
    <3>1. i \in 1..m /\ j \in 1..m /\ q[i] = q[j]
      BY <1>2, <2>4
    <3>2. ~ (i < j) /\ ~ (j < i)
      BY <1>1, <1>8, <3>1 DEF Increasing
    <3> QED BY <3>1, <3>2
  <2> HIDE DEF f
  <2>5. f \in Bijection(M, Range(wake))
    <3>1. f \in Injection(M, Range(wake))
      BY <2>2, <2>4 DEF Injection, IsInjective
    <3>2. f \in Surjection(M, Range(wake))
      BY <2>2, <2>3 DEF Surjection
    <3> QED BY <3>1, <3>2 DEF Bijection
  <2>6. ExistsBijection(M, Range(wake))
    BY <2>5 DEF ExistsBijection
  <2>7. Cardinality(Range(wake)) = Cardinality(M)
    BY <2>1, <2>6, FS_Bijection
  <2> QED BY <2>7 DEF Marked
<1>14. Enough(wake, rest, n)
  <2>1. Marked(q, waiting, k) = n \/ (k = m /\ Marked(q, waiting, k) < n)
    BY <1>1, PoppedFacts
  <2>2. k = m => Range(wake) = Range(q) \cap waiting
    BY <1>5, <1>6, <1>8
  <2>3. k = m => Range(rest) = {}
    <3> SUFFICES ASSUME k = m, NEW w \in Range(rest) PROVE FALSE
      OBVIOUS
    <3>1. w \in Range(wake) /\ w \in Nat
      BY <1>8, <2>2 DEF Splits
    <3>2. w < w
      BY <3>1 DEF Splits
    <3> QED BY <3>1, <3>2
  <2> QED BY <1>13, <2>1, <2>3 DEF Enough
<1> QED BY <1>14
-----------------------------------------------------------------------------
\* The refinement mapping.
Asleep == [a \in Addrs |-> Range(wait_queues[a]) \cap IsWaiting]
FateOf(s) == CASE s = "WAITING" -> "asleep" [] s = "NOTIFIED" -> "woken" [] s = "TIMED_OUT" -> "timed out"
               [] OTHER -> "none"
Fate == [w \in Waits |-> FateOf(state[w])]

\* A step that changes neither the words nor the marks nor who waits where.
LEMMA NothingPromised ==
  ASSUME cell' = cell, Asleep' = Asleep, Fate' = Fate
  PROVE  UNCHANGED Promise!vars
BY DEF Promise!vars, Asleep, Fate, FateOf

\* The initial states are initial states of the futex.
LEMMA InitPromised == Init => Promise!Init
BY EmptyRange DEF Init, Promise!Init

\* The instance counts as this module does.
LEMMA SameCardinality == \A S : Promise!Cardinality(S) = Cardinality(S)
BY DEF Promise!Cardinality, Cardinality, Promise!IsFiniteSet, IsFiniteSet

\* The actions of Futex, in terms of the mapping.
LEMMA IsStore ==
  ASSUME NEW a, NEW v, cell' = [cell EXCEPT ![a] = v], Asleep' = Asleep, Fate' = Fate
  PROVE  Promise!Store(a, v)
BY DEF Promise!Store, Asleep, Fate, FateOf

\* A step that puts the next wait to sleep at a matching cell is the futex's
\* Sleep.
LEMMA IsSleep ==
  ASSUME NEW a, NEW v, NEW w, cell[a] = v, Fate[w] = "none",
         \A u \in Waits : Fate[u] = "none" => w <= u,
         Asleep' = [Asleep EXCEPT ![a] = Asleep[a] \cup {w}],
         Fate' = [Fate EXCEPT ![w] = "asleep"], cell' = cell
  PROVE  Promise!Sleep(a, v, w)
BY DEF Promise!Sleep, Asleep, Fate, FateOf

\* A step that wakes the oldest sleepers is the futex's Wake.
LEMMA IsWake ==
  ASSUME NEW a, NEW n, NEW woken \in SUBSET Asleep[a], Promise!IsOldest(woken, Asleep[a], n),
         Asleep' = [Asleep EXCEPT ![a] = Asleep[a] \ woken],
         Fate' = [w \in Waits |-> IF w \in woken THEN "woken" ELSE Fate[w]], cell' = cell
  PROVE  Promise!Wake(a, n)
BY DEF Promise!Wake, Asleep, Fate, FateOf

\* A step that times one sleeper out is the futex's TimeOut.
LEMMA IsTimeOut ==
  ASSUME NEW a, NEW w, w \in Asleep[a],
         Asleep' = [Asleep EXCEPT ![a] = Asleep[a] \ {w}],
         Fate' = [Fate EXCEPT ![w] = "timed out"], cell' = cell
  PROVE  Promise!TimeOut(a, w)
BY DEF Promise!TimeOut, Asleep, Fate, FateOf

\* A step that leaves cells, queues and waiter states alone is invisible to the
\* futex.
LEMMA QuietStep ==
  ASSUME UNCHANGED <<cell, wait_queues, state>>
  PROVE  UNCHANGED Promise!vars
<1>1. Asleep' = Asleep
  BY DEF Asleep, IsWaiting, CasWins
<1>2. Fate' = Fate
  BY DEF Fate
<1> QED BY <1>1, <1>2, NothingPromised

\* A guest store is the futex's Store.
LEMMA StorePromised ==
  ASSUME NEW t, NEW a, NEW v, Store(t, a, v)
  PROVE  Promise!Store(a, v)
<1>1. wait_queues' = wait_queues /\ state' = state /\ cell' = [cell EXCEPT ![a] = v]
  BY DEF Store
<1>2. Asleep' = Asleep
  BY <1>1 DEF Asleep, IsWaiting, CasWins
<1>3. Fate' = Fate
  BY <1>1 DEF Fate
<1> QED BY Zenon, <1>1, <1>2, <1>3, IsStore

\* Registering a waiter is the futex's Sleep.
LEMMA QueuesPromised ==
  ASSUME IInv, NEW t \in Tasks, NEW a \in Addrs, NEW n, NEW timed \in BOOLEAN, NEW r,
         Queues(t, a, n, timed, r)
  PROVE  Promise!Sleep(a, cell[a], n)
<1>1. n \in Waits /\ n = next_waiter_id /\ cell' = cell /\ Waits \subseteq Nat
  BY IdsAre DEF Queues, IInv
<1>2. wait_queues \in [Addrs -> Seq(1..(n - 1))]
  BY <1>1 DEF IInv, TypeOK
<1>3. PICK q \in Seq(1..(n - 1)) : q = wait_queues[a] /\ Increasing(q)
  BY <1>2 DEF IInv, Ordered
<1>4. Range(Append(q, n)) = Range(q) \cup {n}
  <2>1. n \in Nat /\ n >= 1
    BY <1>1, SharedWaitAssumption DEF Waits
  <2> QED BY <1>3, <2>1, QueuedBehind
<1>5. Range(wait_queues'[a]) = Range(wait_queues[a]) \cup {n}
      /\ \A b \in Addrs : b # a => wait_queues'[b] = wait_queues[b]
  BY <1>2, <1>3, <1>4 DEF Queues
<1>6. \A b \in Addrs : n \notin Range(wait_queues[b])
  BY <1>1, IdsAre DEF IInv
<1>7. state \in [Waits -> {"none", "WAITING", "NOTIFIED", "TIMED_OUT"}]
  BY DEF IInv, TypeOK
<1>8. /\ state' \in [Waits -> {"none", "WAITING", "NOTIFIED", "TIMED_OUT"}] /\ state'[n] = "WAITING"
      /\ \A w \in Waits : w # n => state'[w] = state[w]
  BY <1>1, <1>7 DEF Queues
<1>9. \A w \in Waits : state[w] = "none" <=> w >= n
  BY <1>1 DEF IInv, Ordered
<1>10. \A w \in Waits : w \in IsWaiting' <=> w \in IsWaiting \/ w = n
  BY <1>1, <1>8 DEF IsWaiting, CasWins
<1>11. Asleep' = [Asleep EXCEPT ![a] = Asleep[a] \cup {n}]
  <2>1. IsWaiting' = IsWaiting \cup {n}
    BY Zenon, <1>1, <1>10 DEF IsWaiting
  <2>2. Range(wait_queues'[a]) \cap IsWaiting' = (Range(wait_queues[a]) \cap IsWaiting) \cup {n}
    BY <1>5, <1>6, <2>1
  <2>3. ASSUME NEW b \in Addrs, b # a
        PROVE  Range(wait_queues'[b]) \cap IsWaiting' = Range(wait_queues[b]) \cap IsWaiting
    BY <1>5, <1>6, <2>1, <2>3
  <2> QED BY Zenon, <2>2, <2>3 DEF Asleep
<1>12. Fate' = [Fate EXCEPT ![n] = "asleep"]
  BY <1>1, <1>8 DEF Fate, FateOf
<1>13. \A u \in Waits : Fate[u] = "none" <=> u >= n
  <2>1. \A u \in Waits : Fate[u] = "none" <=> state[u] = "none"
    BY <1>7 DEF Fate, FateOf
  <2> QED BY <1>9, <2>1
<1>14. Fate[n] = "none" /\ \A u \in Waits : Fate[u] = "none" => n <= u
  BY <1>1, <1>13
<1> QED BY Zenon, <1>1, <1>11, <1>12, <1>14, IsSleep

\* Winning the compare-and-swap to TIMED_OUT is the futex's TimeOut.
LEMMA TimedOutPromised ==
  ASSUME IInv, NEW t \in Tasks, NEW w, w = task[t].id, At(t, "expired"), CasWins(w),
         state' = [state EXCEPT ![w] = "TIMED_OUT"],
         UNCHANGED <<cell, wait_queues, next_waiter_id, permit>>
  PROVE  \E a \in Addrs : Promise!TimeOut(a, w) /\ w \in Waits
<1>1. Owns(t, w)
  BY OwnsOf DEF Blocked, At
<1>2. PICK a \in Addrs : a = task[t].addr
  BY <1>1 DEF Owns
<1>3. w \in Waits /\ w \in Range(wait_queues[a]) /\ \A b \in Addrs : w \in Range(wait_queues[b]) => b = a
  BY <1>1, <1>2 DEF Owns, CasWins
<1>4. state \in [Waits -> {"none", "WAITING", "NOTIFIED", "TIMED_OUT"}]
  BY DEF IInv, TypeOK
<1>5. IsWaiting' = IsWaiting \ {w} /\ w \in IsWaiting
  BY <1>3, <1>4 DEF IsWaiting, CasWins
<1>6. Asleep' = [Asleep EXCEPT ![a] = Asleep[a] \ {w}]
  <2>1. ASSUME NEW b \in Addrs, b # a
        PROVE  Range(wait_queues[b]) \cap IsWaiting' = Range(wait_queues[b]) \cap IsWaiting
    BY <1>3, <1>5, <2>1
  <2>2. Range(wait_queues[a]) \cap IsWaiting' = (Range(wait_queues[a]) \cap IsWaiting) \ {w}
    BY <1>5
  <2> QED BY Zenon, <2>1, <2>2 DEF Asleep
<1>7. Fate' = [Fate EXCEPT ![w] = "timed out"]
  BY <1>3, <1>4 DEF Fate, FateOf
<1>8. w \in Asleep[a]
  BY <1>3, <1>5 DEF Asleep
<1>9. Promise!TimeOut(a, w)
  BY <1>6, <1>7, <1>8, IsTimeOut
<1> QED BY <1>3, <1>9

\* Removing the entry of a waiter that is settled is invisible to the futex.
LEMMA RemovePromised ==
  ASSUME IInv, NEW t \in Tasks, RemoveWaiter(t)
  PROVE  UNCHANGED Promise!vars
<1>1. PICK w : w = task[t].id
  OBVIOUS
<1>2. Owns(t, w) /\ state[w] = "TIMED_OUT"
  BY <1>1, OwnsOf DEF RemoveWaiter, Blocked, At, Owns
<1>3. PICK a \in Addrs : a = task[t].addr
  BY <1>2 DEF Owns
<1>4. PICK q \in Seq(1..(next_waiter_id - 1)) : q = wait_queues[a]
  BY IdsAre DEF IInv
<1>5. Range(Removed(q, w)) = Range(q) \cap (Waits \ {w})
  <2>1. 1..(next_waiter_id - 1) \subseteq Nat
    BY IdsAre DEF IInv
  <2> QED BY Zenon, <2>1, RetainedFacts DEF Removed
<1>6. /\ Range(wait_queues'[a]) = Range(wait_queues[a]) \cap (Waits \ {w})
      /\ \A b \in Addrs : b # a => wait_queues'[b] = wait_queues[b]
  BY <1>1, <1>3, <1>4, <1>5 DEF RemoveWaiter, IInv, TypeOK
<1>7. state' = state /\ cell' = cell
  BY DEF RemoveWaiter
<1>8. IsWaiting' = IsWaiting /\ w \notin IsWaiting /\ IsWaiting \subseteq Waits
  BY <1>2, <1>7 DEF IsWaiting, CasWins
<1>9. Asleep' = Asleep
  BY <1>6, <1>8 DEF Asleep
<1>10. Fate' = Fate
  BY <1>7 DEF Fate
<1> QED BY <1>7, <1>9, <1>10, NothingPromised

\* Taking the waiters of a notify is the futex's Wake, of the oldest sleepers.
LEMMA NotifyPromised ==
  ASSUME IInv, NEW t \in Tasks, NEW a \in Addrs, NEW n \in Counts, NEW wake, NEW rest, NEW r,
         Notifies(t, a, n, wake, rest, r)
  PROVE  Promise!Wake(a, n)
<1>1. PICK woken : woken = Range(wake)
  OBVIOUS
<1>2. /\ \A w : (w \in woken \/ w \in Range(rest)) <=> (w \in Range(wait_queues[a]) /\ w \in IsWaiting)
      /\ \A u \in woken, w \in Range(rest) : u < w
      /\ \/ Cardinality(woken) = n
         \/ Range(rest) = {} /\ Cardinality(woken) < n
  <2>1. PICK S : S = 1..(next_waiter_id - 1)
    OBVIOUS
  <2>2. PICK q \in Seq(S) : q = wait_queues[a]
    BY <2>1, IdsAre DEF IInv
  <2>3. Increasing(q) /\ S \subseteq Nat /\ n \in Nat
    BY <2>1, <2>2, IdsAre, SharedWaitAssumption DEF IInv, Ordered
  <2>4. PICK W : W = IsWaiting
    OBVIOUS
  <2>5. PICK k : k = Popped(q, W, n)
    OBVIOUS
  <2>6. Splits(q, W, wake, rest) /\ wake = Retained(SubSeq(q, 1, k), W)
    BY <2>2, <2>4, <2>5 DEF Notifies
  <2>7. Enough(wake, rest, n)
    BY Zenon, <2>3, <2>5, <2>6, WokenCount
  <2> QED BY <1>1, <2>2, <2>4, <2>6, <2>7 DEF Splits, Enough
<1>3. Asleep[a] = woken \cup Range(rest) /\ \A b \in Addrs : Asleep[b] = Range(wait_queues[b]) \cap IsWaiting
  BY <1>2 DEF Asleep
<1>4. woken \in SUBSET Asleep[a]
  BY <1>3
<1>5. Promise!IsOldest(woken, Asleep[a], n)
  <2>1. PICK asleep : asleep = Asleep[a]
    OBVIOUS
  <2>2. asleep = woken \cup Range(rest)
    BY <1>3, <2>1
  <2>3. \A u \in woken, w \in asleep \ woken : u < w
    BY <1>2, <2>2
  <2>4. \/ Cardinality(woken) = n
        \/ woken = asleep /\ Cardinality(woken) < n
    BY <1>2, <2>2
  <2> QED BY <2>1, <2>2, <2>3, <2>4, SameCardinality DEF Promise!IsOldest
<1>6. Range(rest) \cap woken = {}
  <2>1. \A w \in Range(rest) : w \in Nat
    BY <1>2, IdsAre DEF IInv
  <2>2. \A w \in Nat : ~ (w < w)
    OBVIOUS
  <2> QED BY <1>2, <2>1, <2>2
<1>7. IsWaiting' = IsWaiting \ woken
  <2>1. \A w \in Waits : state'[w] = IF w \in woken THEN "NOTIFIED" ELSE state[w]
    BY <1>1 DEF Notifies
  <2> QED BY <2>1 DEF IsWaiting, CasWins
<1>8. /\ wait_queues'[a] = rest
      /\ \A b \in Addrs : b # a => wait_queues'[b] = wait_queues[b]
  BY DEF Notifies, IInv, TypeOK
<1>9. Asleep' = [Asleep EXCEPT ![a] = Asleep[a] \ woken]
  <2>1. Range(wait_queues'[a]) \cap IsWaiting' = Asleep[a] \ woken
    BY <1>2, <1>3, <1>6, <1>7, <1>8
  <2>2. ASSUME NEW b \in Addrs, b # a PROVE Range(wait_queues'[b]) \cap IsWaiting' = Asleep[b]
    <3>1. \A w \in woken : w \in Waits /\ w \in Range(wait_queues[a])
      BY <1>2 DEF IsWaiting
    <3>2. Range(wait_queues[b]) \cap woken = {}
      BY <2>2, <3>1 DEF IInv, Ordered
    <3> QED BY <1>3, <1>7, <1>8, <2>2, <3>2
  <2>3. Asleep' = [b \in Addrs |-> Range(wait_queues'[b]) \cap IsWaiting'] /\ Asleep = [b \in Addrs |-> Asleep[b]]
    BY DEF Asleep
  <2> QED BY Zenon, <2>1, <2>2, <2>3
<1>10. Fate' = [w \in Waits |-> IF w \in woken THEN "woken" ELSE Fate[w]]
  <2>1. state' = [w \in Waits |-> IF w \in woken THEN "NOTIFIED" ELSE state[w]]
    BY <1>1 DEF Notifies
  <2>2. ASSUME NEW w \in Waits
        PROVE  FateOf(state'[w]) = IF w \in woken THEN "woken" ELSE FateOf(state[w])
    BY <2>1 DEF FateOf
  <2> QED BY <2>2 DEF Fate
<1>11. cell' = cell
  BY DEF Notifies
<1> QED BY Zenon, <1>4, <1>5, <1>9, <1>10, <1>11, IsWake

\* Every step is a step of the futex, or leaves it alone.
LEMMA StepPromised == ASSUME IInv, [Next]_vars PROVE [Promise!Next]_(Promise!vars)
<1>1. CASE UNCHANGED vars
  BY <1>1, QuietStep DEF vars
<1>2. CASE Next
  <2>1. PICK t \in Tasks :
          \/ \E a \in Addrs, v \in Values : Store(t, a, v)
          \/ \E a \in Addrs, v \in Values, timed \in BOOLEAN : Register(t, a, v, timed)
          \/ \E a \in Addrs, n \in Counts : NotifyWaiters(t, a, n)
          \/ WaitStep(t)
          \/ Abandon(t)
    BY <1>2 DEF Next
  <2>2. CASE \E a \in Addrs, v \in Values : Store(t, a, v)
    BY <2>2, StorePromised DEF Promise!Next
  <2>3. CASE \E a \in Addrs, v \in Values, timed \in BOOLEAN : Register(t, a, v, timed)
    <3>1. PICK a \in Addrs, v \in Values, timed \in BOOLEAN : Register(t, a, v, timed)
      BY <2>3
    <3>2. CASE cell[a] = v
      <4>1. PICK n : n = next_waiter_id
        OBVIOUS
      <4>2. PICK r : r = [pc |-> "registered", addr |-> a, id |-> n, timed |-> timed, wake |-> <<>>]
        BY Zenon
      <4>3. Queues(t, a, n, timed, r)
        BY <3>1, <3>2, <4>1, <4>2 DEF Register, Queues
      <4>4. Promise!Sleep(a, v, n) /\ n \in Waits
        BY Zenon, <3>2, <4>3, QueuesPromised DEF Queues
      <4> QED BY <4>4 DEF Promise!Next
    <3>3. CASE cell[a] # v
      BY <3>1, <3>3, QuietStep DEF Register
    <3> QED BY <3>2, <3>3
  <2>4. CASE \E a \in Addrs, n \in Counts : NotifyWaiters(t, a, n)
    <3>1. PICK a \in Addrs, n \in Counts : NotifyWaiters(t, a, n)
      BY <2>4
    <3>2. Promise!Wake(a, n)
      BY <3>1, NotifyIsSplit, NotifyPromised
    <3> QED BY <3>2 DEF Promise!Next
  <2>5. CASE PollWait(t) \/ Park(t) \/ Notified(t) \/ Expire(t) \/ NotifyOne(t) \/ Abandon(t)
    BY <2>5, QuietStep DEF PollWait, Park, Notified, Expire, NotifyOne, Abandon
  <2>6. CASE MarkTimedOut(t)
    <3>1. PICK w : w = task[t].id
      OBVIOUS
    <3>2. At(t, "expired") /\ UNCHANGED <<cell, wait_queues, next_waiter_id, permit>>
      BY <2>6 DEF MarkTimedOut
    <3>3. CASE CasWins(w)
      <4>1. state' = [state EXCEPT ![w] = "TIMED_OUT"]
        BY <2>6, <3>1, <3>3 DEF MarkTimedOut, MarkWins
      <4>2. PICK a \in Addrs : Promise!TimeOut(a, w) /\ w \in Waits
        BY Zenon, <3>1, <3>2, <3>3, <4>1, TimedOutPromised
      <4> QED BY <4>2 DEF Promise!Next
    <3>4. CASE ~ CasWins(w)
      <4>1. state' = state
        BY <2>6, <3>1, <3>4 DEF MarkTimedOut, MarkWins
      <4> QED BY <3>2, <4>1, QuietStep
    <3> QED BY <3>3, <3>4
  <2>7. CASE RemoveWaiter(t)
    BY <2>7, RemovePromised
  <2> QED BY <2>1, <2>2, <2>3, <2>4, <2>5, <2>6, <2>7 DEF WaitStep
<1> QED BY <1>1, <1>2

\* register_wait, notify_waiters and wait_result implement the compare-and-sleep
\* of Futex: a wait has one fate, a wake-up goes to the oldest sleepers, and a
\* notify wakes as many as it was asked for and there are.
THEOREM FutexTheorem == Spec => ImplementsFutex
<1>1. Init => Promise!Init
  BY InitPromised
<1>2. IInv /\ [Next]_vars => [Promise!Next]_(Promise!vars)
  BY StepPromised
<1> QED BY <1>1, <1>2, Inductive, PTL DEF Spec, ImplementsFutex, Promise!Spec
=============================================================================
