----------------------------- MODULE JitProofs ------------------------------
(***************************************************************************)
(* The inductive invariant of Jit and what its actions do, for any          *)
(* functions, sizes and limits.  That the code cache serves what Served     *)
(* says is a hypothesis here; JitCacheProofs proves it.                     *)
(***************************************************************************)
EXTENDS Jit, WellFoundedInduction, TLAPS

-----------------------------------------------------------------------------
(* The two stacks *)

SamePlace(a, b) == a.fn = b.fn /\ a.pc = b.pc

\* phi gives for each of the n entries of the Rust stack as the frame of fs it
\* stands for.  Native activations stand for frames of their own, from the
\* bottom to the top; a bridge stands for the frame of the native caller it
\* lies on.
Threaded(phi, fs, as, n) ==
  /\ \A i \in 1..n : SamePlace(as[i], fs[phi[i]])
  /\ \A i, j \in 1..n : i < j /\ as[j].kind = "native" => phi[i] < phi[j]
  /\ \A j \in 1..n : as[j].kind = "bridge" =>
       j > 1 /\ as[j - 1].kind = "native" /\ phi[j - 1] = phi[j]

\* Native code runs the top frame, the m-th; a bridge lies below it.
AtTop(phi, m, as, n) ==
  n # 0 => IF as[n].kind = "native" THEN phi[n] = m ELSE phi[n] < m

\* The n entries of as stand for some of the m frames fs; for some below the
\* top one; for the top one if native code runs.
LooseN(fs, m, as, n) == \E phi \in [1..n -> 1..m] : Threaded(phi, fs, as, n)
BelowN(fs, m, as, n) ==
  \E phi \in [1..n -> 1..m] : Threaded(phi, fs, as, n) /\ \A i \in 1..n : phi[i] < m
TightN(fs, m, as, n) ==
  \E phi \in [1..n -> 1..m] : Threaded(phi, fs, as, n) /\ AtTop(phi, m, as, n)

\* The sequences p and q have the same first k elements.
Agree(p, q, k) == \A i \in 1..k : p[i] = q[i]

\* The first k values of phi.
Cut(phi, k) == [i \in 1..k |-> phi[i]]

\* Cutting a matching keeps what it assigns to the activations that stay.
LEMMA CutFacts ==
  ASSUME NEW m, NEW n \in Nat, NEW k \in 0..n, NEW phi \in [1..n -> 1..m]
  PROVE  /\ Cut(phi, k) \in [1..k -> 1..m]
         /\ \A i \in 1..k : Cut(phi, k)[i] = phi[i] /\ i \in 1..n
BY DEF Cut

\* A matching of activations with frames, cut to the outer activations, is a
\* matching of these.
LEMMA CutThreaded ==
  ASSUME NEW m \in Nat, NEW n \in Nat, NEW k \in 0..n, NEW fs, NEW as, NEW bs,
         Agree(bs, as, k), NEW phi \in [1..n -> 1..m], Threaded(phi, fs, as, n)
  PROVE  Threaded(Cut(phi, k), fs, bs, k)
<1> USE Zenon
<1> DEFINE psi == Cut(phi, k)
<1>3. \A i \in 1..k : psi[i] = phi[i] /\ i \in 1..n BY CutFacts
<1> HIDE DEF psi
<1>4. \A i \in 1..k : SamePlace(bs[i], fs[psi[i]]) BY <1>3 DEF Threaded, Agree
<1>5. \A i, j \in 1..k : i < j /\ bs[j].kind = "native" => psi[i] < psi[j]
  BY <1>3 DEF Threaded, Agree
<1>6. ASSUME NEW j \in 1..k, bs[j].kind = "bridge"
      PROVE  j > 1 /\ bs[j - 1].kind = "native" /\ psi[j - 1] = psi[j]
  <2>1. j > 1 /\ as[j - 1].kind = "native" /\ phi[j - 1] = phi[j]
    BY <1>3, <1>6 DEF Threaded, Agree
  <2>2. j - 1 \in 1..k BY SMT, <2>1
  <2> QED BY <1>3, <2>1, <2>2 DEF Agree
<1>7. Threaded(psi, fs, bs, k) BY <1>4, <1>5, <1>6 DEF Threaded
<1> QED BY <1>7 DEF psi

\* A part of the Rust stack from the bottom on stands for the same frames.
LEMMA PartN ==
  ASSUME NEW m \in Nat, NEW n \in Nat, NEW k \in 0..n, NEW fs, NEW as, NEW bs,
         Agree(bs, as, k)
  PROVE  /\ LooseN(fs, m, as, n) => LooseN(fs, m, bs, k)
         /\ BelowN(fs, m, as, n) => BelowN(fs, m, bs, k)
<1> USE Zenon
<1>1. ASSUME LooseN(fs, m, as, n) PROVE LooseN(fs, m, bs, k)
  <2>1. PICK phi \in [1..n -> 1..m] : Threaded(phi, fs, as, n) BY <1>1 DEF LooseN
  <2>2. Threaded(Cut(phi, k), fs, bs, k) BY <2>1, CutThreaded
  <2> QED BY <2>2, CutFacts DEF LooseN
<1>2. ASSUME BelowN(fs, m, as, n) PROVE BelowN(fs, m, bs, k)
  <2>1. PICK phi \in [1..n -> 1..m] : Threaded(phi, fs, as, n) /\ \A i \in 1..n : phi[i] < m
    BY <1>2 DEF BelowN
  <2>2. Threaded(Cut(phi, k), fs, bs, k) BY <2>1, CutThreaded
  <2>3. Cut(phi, k) \in [1..k -> 1..m] /\ \A i \in 1..k : Cut(phi, k)[i] < m
    <3>1. /\ Cut(phi, k) \in [1..k -> 1..m]
          /\ \A i \in 1..k : Cut(phi, k)[i] = phi[i] /\ i \in 1..n
      BY CutFacts
    <3> QED BY <2>1, <3>1
  <2> QED BY <2>2, <2>3 DEF BelowN
<1> QED BY <1>1, <1>2

\* Only native code at the top of the Rust stack stands for the top frame.
LEMMA TightBelowN ==
  ASSUME NEW m \in Nat, NEW n \in Nat, NEW fs, NEW as,
         \A i \in 1..n : as[i].kind \in {"native", "bridge"}, TightN(fs, m, as, n)
  PROVE  BelowN(fs, m, as, IF n # 0 /\ as[n].kind = "native" THEN n - 1 ELSE n)
<1>1. PICK phi \in [1..n -> 1..m] : Threaded(phi, fs, as, n) /\ AtTop(phi, m, as, n)
  BY Zenon DEF TightN
<1>2. CASE n = 0
  <2>1. \A i \in 1..n : phi[i] < m BY <1>2
  <2>2. BelowN(fs, m, as, n) BY Zenon, <1>1, <2>1 DEF BelowN
  <2> QED BY Zenon, <1>2, <2>2
<1>3. CASE n # 0 /\ as[n].kind = "native"
  <2>1. n - 1 \in 0..n BY <1>3
  <2>5. Agree(as, as, n - 1) BY DEF Agree
  <2>2. phi[n] = m BY <1>1, <1>3 DEF AtTop
  <2>3. ASSUME NEW i \in 1..(n - 1) PROVE phi[i] < phi[n]
    <3>1. i \in 1..n /\ n \in 1..n /\ i < n BY <1>3
    <3> QED BY Zenon, <1>1, <1>3, <3>1 DEF Threaded
  <2>4. Threaded(Cut(phi, n - 1), fs, as, n - 1) BY Zenon, <1>1, <2>1, <2>5, CutThreaded
  <2>6. /\ Cut(phi, n - 1) \in [1..(n - 1) -> 1..m]
        /\ \A i \in 1..(n - 1) : Cut(phi, n - 1)[i] < m
    <3>1. /\ Cut(phi, n - 1) \in [1..(n - 1) -> 1..m]
          /\ \A i \in 1..(n - 1) : Cut(phi, n - 1)[i] = phi[i] /\ i \in 1..n
      BY Zenon, <1>1, <2>1, CutFacts
    <3> QED BY Zenon, <2>2, <2>3, <3>1
  <2>7. BelowN(fs, m, as, n - 1) BY Zenon, <2>4, <2>6 DEF BelowN
  <2> QED BY Zenon, <1>3, <2>7
<1>4. CASE n # 0 /\ as[n].kind = "bridge"
  <2>1. phi[n] < m BY <1>1, <1>4 DEF AtTop
  <2>2. n > 1 /\ as[n - 1].kind = "native" /\ phi[n - 1] = phi[n]
    <3>1. n \in 1..n BY <1>4
    <3> QED BY Zenon, <1>1, <1>4, <3>1 DEF Threaded
  <2>3. ASSUME NEW i \in 1..(n - 2) PROVE phi[i] < phi[n - 1]
    <3>1. i \in 1..n /\ n - 1 \in 1..n /\ i < n - 1 BY <2>2
    <3> QED BY Zenon, <1>1, <2>2, <3>1 DEF Threaded
  <2>4. ASSUME NEW i \in 1..n PROVE phi[i] < m
    <3>1. phi[i] \in 1..m /\ phi[n] \in 1..m BY <1>1, <1>4
    <3>2. CASE i \in {n, n - 1} BY <2>1, <2>2, <3>2
    <3>3. CASE i \in 1..(n - 2) BY <2>1, <2>2, <2>3, <3>1, <3>3
    <3> QED BY <2>2, <3>2, <3>3
  <2>5. BelowN(fs, m, as, n) BY Zenon, <1>1, <2>4 DEF BelowN
  <2> QED BY <1>4, <2>5
<1>5. n # 0 => as[n].kind = "native" \/ as[n].kind = "bridge"
  <2>1. n # 0 => n \in 1..n OBVIOUS
  <2> QED BY Zenon, <2>1
<1> QED BY Zenon, <1>2, <1>3, <1>4, <1>5

\* Both ways in which activations fit their frames fit them loosely.
LEMMA BelowLooseN ==
  ASSUME NEW m, NEW n, NEW fs, NEW as, BelowN(fs, m, as, n) \/ TightN(fs, m, as, n)
  PROVE  LooseN(fs, m, as, n)
BY Zenon DEF BelowN, TightN, LooseN

\* Changing the top frame disturbs nothing that stands for a lower one.
LEMMA BelowMoveN ==
  ASSUME NEW m \in Nat, NEW n \in Nat, NEW fs, NEW gs, NEW as,
         Agree(gs, fs, m - 1), BelowN(fs, m, as, n)
  PROVE  BelowN(gs, m, as, n)
<1> USE Zenon
<1>1. PICK phi \in [1..n -> 1..m] : Threaded(phi, fs, as, n) /\ \A i \in 1..n : phi[i] < m
  BY DEF BelowN
<1>2. \A i \in 1..n : gs[phi[i]] = fs[phi[i]]
  <2>1. \A i \in 1..n : phi[i] \in 1..(m - 1) BY SMT, <1>1
  <2> QED BY <2>1 DEF Agree
<1>3. Threaded(phi, gs, as, n) BY <1>1, <1>2 DEF Threaded
<1> QED BY <1>1, <1>3 DEF BelowN

\* The top frame is left.
LEMMA BelowFrontN ==
  ASSUME NEW m \in Nat \ {0}, NEW n \in Nat, NEW fs, NEW gs, NEW as,
         Agree(gs, fs, m - 1), BelowN(fs, m, as, n)
  PROVE  LooseN(gs, m - 1, as, n)
<1> USE Zenon
<1>1. PICK phi \in [1..n -> 1..m] : Threaded(phi, fs, as, n) /\ \A i \in 1..n : phi[i] < m
  BY DEF BelowN
<1>2. \A i \in 1..n : phi[i] \in 1..(m - 1) BY SMT, <1>1
<1>3. phi \in [1..n -> 1..(m - 1)] BY SMT, <1>1, <1>2
<1>4. \A i \in 1..n : gs[phi[i]] = fs[phi[i]] BY <1>2 DEF Agree
<1>5. Threaded(phi, gs, as, n) BY <1>1, <1>4 DEF Threaded
<1> QED BY <1>3, <1>5 DEF LooseN

\* A frame is pushed.
LEMMA LoosePushN ==
  ASSUME NEW m \in Nat, NEW n \in Nat, NEW fs, NEW gs, NEW as,
         Agree(gs, fs, m), LooseN(fs, m, as, n)
  PROVE  BelowN(gs, m + 1, as, n)
<1> USE Zenon
<1>1. PICK phi \in [1..n -> 1..m] : Threaded(phi, fs, as, n) BY DEF LooseN
<1>2. \A i \in 1..n : phi[i] \in 1..m BY SMT, <1>1
<1>3. phi \in [1..n -> 1..(m + 1)] /\ \A i \in 1..n : phi[i] < m + 1 BY SMT, <1>1, <1>2
<1>4. \A i \in 1..n : gs[phi[i]] = fs[phi[i]] BY <1>2 DEF Agree
<1>5. Threaded(phi, gs, as, n) BY <1>1, <1>4 DEF Threaded
<1> QED BY <1>3, <1>5 DEF BelowN

\* Native code is entered for the top frame.
LEMMA EnterN ==
  ASSUME NEW m \in Nat \ {0}, NEW n \in Nat, NEW fs, NEW as, NEW bs, Agree(bs, as, n),
         BelowN(fs, m, as, n), bs[n + 1].kind = "native", SamePlace(bs[n + 1], fs[m])
  PROVE  TightN(fs, m, bs, n + 1)
<1> USE Zenon
<1>1. PICK phi \in [1..n -> 1..m] : Threaded(phi, fs, as, n) /\ \A i \in 1..n : phi[i] < m
  BY DEF BelowN
<1> DEFINE psi == [i \in 1..(n + 1) |-> IF i = n + 1 THEN m ELSE phi[i]]
<1>2. psi \in [1..(n + 1) -> 1..m] BY SMT, <1>1
<1>3. psi[n + 1] = m /\ \A i \in 1..n : psi[i] = phi[i] /\ bs[i] = as[i]
  <2>1. psi[n + 1] = m BY SMT
  <2>2. \A i \in 1..n : psi[i] = phi[i] BY SMT
  <2> QED BY <2>1, <2>2 DEF Agree
<1> HIDE DEF psi
<1>4. ASSUME NEW i \in 1..(n + 1) PROVE SamePlace(bs[i], fs[psi[i]])
  <2>1. CASE i = n + 1 BY <1>3, <2>1
  <2>2. CASE i \in 1..n BY <1>1, <1>3, <2>2 DEF Threaded
  <2> QED BY SMT, <2>1, <2>2
<1>5. ASSUME NEW i \in 1..(n + 1), NEW j \in 1..(n + 1), i < j, bs[j].kind = "native"
      PROVE  psi[i] < psi[j]
  <2>1. i \in 1..n BY SMT, <1>5
  <2>2. CASE j = n + 1 BY <1>1, <1>3, <2>1, <2>2
  <2>3. CASE j \in 1..n BY <1>1, <1>3, <1>5, <2>1, <2>3 DEF Threaded
  <2> QED BY SMT, <2>2, <2>3
<1>6. ASSUME NEW j \in 1..(n + 1), bs[j].kind = "bridge"
      PROVE  j > 1 /\ bs[j - 1].kind = "native" /\ psi[j - 1] = psi[j]
  <2>1. j \in 1..n BY SMT, <1>6
  <2>2. as[j].kind = "bridge" BY <1>3, <1>6, <2>1
  <2>3. j > 1 /\ as[j - 1].kind = "native" /\ phi[j - 1] = phi[j]
    BY <1>1, <2>1, <2>2 DEF Threaded
  <2>4. j - 1 \in 1..n BY SMT, <2>1, <2>3
  <2> QED BY <1>3, <2>1, <2>3, <2>4
<1>7. Threaded(psi, fs, bs, n + 1) BY <1>4, <1>5, <1>6 DEF Threaded
<1>8. AtTop(psi, m, bs, n + 1) BY SMT, <1>3 DEF AtTop
<1> QED BY <1>2, <1>7, <1>8 DEF TightN

\* Native code is at the top of the Rust stack, at the place of the top frame.
LEMMA SettleN ==
  ASSUME NEW m \in Nat \ {0}, NEW n \in Nat \ {0}, NEW fs, NEW as,
         LooseN(fs, m, as, n), as[n].kind = "native", SamePlace(as[n], fs[m])
  PROVE  TightN(fs, m, as, n)
<1> USE Zenon
<1>1. PICK phi \in [1..n -> 1..m] : Threaded(phi, fs, as, n) BY DEF LooseN
<1> DEFINE psi == [i \in 1..n |-> IF i = n THEN m ELSE phi[i]]
<1>2. psi \in [1..n -> 1..m] BY SMT, <1>1
<1>3. psi[n] = m /\ \A i \in 1..n : i # n => psi[i] = phi[i] BY SMT
<1> HIDE DEF psi
<1>4. ASSUME NEW i \in 1..n PROVE SamePlace(as[i], fs[psi[i]])
  <2>1. CASE i = n BY <1>3, <2>1
  <2>2. CASE i # n BY <1>1, <1>3, <2>2 DEF Threaded
  <2> QED BY <2>1, <2>2
<1>5. ASSUME NEW i \in 1..n, NEW j \in 1..n, i < j, as[j].kind = "native"
      PROVE  psi[i] < psi[j]
  <2>1. i # n /\ psi[i] = phi[i] BY SMT, <1>3, <1>5
  <2>2. phi[i] < phi[j] BY <1>1, <1>5 DEF Threaded
  <2>3. phi[i] \in 1..m /\ phi[j] \in 1..m BY <1>1
  <2>4. CASE j = n BY SMT, <1>3, <2>1, <2>2, <2>3, <2>4
  <2>5. CASE j # n BY SMT, <1>3, <2>1, <2>2, <2>5
  <2> QED BY SMT, <2>4, <2>5
<1>6. ASSUME NEW j \in 1..n, as[j].kind = "bridge"
      PROVE  j > 1 /\ as[j - 1].kind = "native" /\ psi[j - 1] = psi[j]
  <2>1. j # n BY <1>6
  <2>2. j > 1 /\ as[j - 1].kind = "native" /\ phi[j - 1] = phi[j]
    BY <1>1, <1>6 DEF Threaded
  <2>3. j - 1 \in 1..n /\ j - 1 # n BY SMT, <2>2
  <2> QED BY <1>3, <2>1, <2>2, <2>3
<1>7. Threaded(psi, fs, as, n) BY <1>4, <1>5, <1>6 DEF Threaded
<1>8. AtTop(psi, m, as, n) BY SMT, <1>3 DEF AtTop
<1> QED BY <1>2, <1>7, <1>8 DEF TightN

\* What stands for a frame at another place than the top one is not at the top.
LEMMA ElsewhereN ==
  ASSUME NEW m \in Nat \ {0}, NEW n \in Nat \ {0}, NEW fs, NEW as,
         NEW phi \in [1..n -> 1..m], Threaded(phi, fs, as, n), ~SamePlace(as[n], fs[m])
  PROVE  phi[n] < m
<1>1. n \in 1..n OBVIOUS
<1>2. SamePlace(as[n], fs[phi[n]]) BY Zenon, <1>1 DEF Threaded
<1>3. phi[n] # m BY Zenon, <1>2
<1>4. phi[n] \in 1..m BY <1>1
<1> QED BY <1>3, <1>4

\* A bridge whose stop_pc the top frame has not reached goes on.
LEMMA WaitN ==
  ASSUME NEW m \in Nat \ {0}, NEW n \in Nat \ {0}, NEW fs, NEW as,
         LooseN(fs, m, as, n), as[n].kind = "bridge", ~SamePlace(as[n], fs[m])
  PROVE  TightN(fs, m, as, n)
<1> USE Zenon
<1>1. PICK phi \in [1..n -> 1..m] : Threaded(phi, fs, as, n) BY DEF LooseN
<1>2. phi[n] < m BY <1>1, ElsewhereN
<1>3. AtTop(phi, m, as, n) BY SMT, <1>2 DEF AtTop
<1> QED BY <1>1, <1>3 DEF TightN

\* A bridge whose stop_pc the top frame has reached returns to its caller.
LEMMA ReachedN ==
  ASSUME NEW m \in Nat \ {0}, NEW n \in Nat \ {0}, NEW fs, NEW as, NEW bs,
         LooseN(fs, m, as, n), as[n].kind = "bridge", SamePlace(as[n], fs[m]),
         Agree(bs, as, n - 1)
  PROVE  TightN(fs, m, bs, n - 1)
<1> USE Zenon
<1>1. PICK phi \in [1..n -> 1..m] : Threaded(phi, fs, as, n) BY DEF LooseN
<1>2. n \in 1..n BY SMT
<1>3. n > 1 /\ as[n - 1].kind = "native" /\ phi[n - 1] = phi[n]
  BY <1>1, <1>2 DEF Threaded
<1>4. n - 1 \in 0..n /\ n - 1 \in 1..n /\ n - 1 \in 1..(n - 1) /\ n - 1 \in Nat \ {0} BY SMT, <1>3
<1>5. SamePlace(as[n - 1], fs[phi[n]]) /\ SamePlace(as[n], fs[phi[n]])
  BY <1>1, <1>2, <1>3, <1>4 DEF Threaded
<1>6. SamePlace(bs[n - 1], fs[m]) /\ bs[n - 1].kind = "native"
  BY <1>3, <1>4, <1>5 DEF SamePlace, Agree
<1>7. LooseN(fs, m, bs, n - 1) BY <1>4, PartN
<1> QED BY <1>4, <1>6, <1>7, SettleN

\* Native code that is not at the place of the top frame gets a bridge.
LEMMA BridgeN ==
  ASSUME NEW m \in Nat \ {0}, NEW n \in Nat \ {0}, NEW fs, NEW as, NEW bs,
         LooseN(fs, m, as, n), as[n].kind = "native", ~SamePlace(as[n], fs[m]),
         Agree(bs, as, n), bs[n + 1].kind = "bridge", SamePlace(bs[n + 1], as[n])
  PROVE  TightN(fs, m, bs, n + 1)
<1>1. PICK phi \in [1..n -> 1..m] : Threaded(phi, fs, as, n) BY Zenon DEF LooseN
<1>2. phi[n] < m BY Zenon, <1>1, ElsewhereN
<1> DEFINE psi == [i \in 1..(n + 1) |-> IF i = n + 1 THEN phi[n] ELSE phi[i]]
<1>3. psi \in [1..(n + 1) -> 1..m] BY <1>1
<1>4. psi[n + 1] = phi[n] /\ \A i \in 1..n : psi[i] = phi[i] /\ bs[i] = as[i]
  <2>1. psi[n + 1] = phi[n] OBVIOUS
  <2>2. \A i \in 1..n : psi[i] = phi[i] OBVIOUS
  <2> QED BY Zenon, <2>1, <2>2 DEF Agree
<1> HIDE DEF psi
<1>5. n \in 1..n /\ n \in Nat OBVIOUS
<1>6. ASSUME NEW i \in 1..(n + 1) PROVE SamePlace(bs[i], fs[psi[i]])
  <2>1. CASE i = n + 1
    <3>1. SamePlace(as[n], fs[phi[n]]) BY Zenon, <1>1, <1>5 DEF Threaded
    <3> QED BY <1>4, <2>1, <3>1 DEF SamePlace
  <2>2. CASE i \in 1..n BY Zenon, <1>1, <1>4, <2>2 DEF Threaded
  <2> QED BY <2>1, <2>2
<1>7. ASSUME NEW i \in 1..(n + 1), NEW j \in 1..(n + 1), i < j, bs[j].kind = "native"
      PROVE  psi[i] < psi[j]
  <2>1. i \in 1..n /\ j # n + 1 BY <1>7
  <2>2. j \in 1..n BY <2>1
  <2> QED BY Zenon, <1>1, <1>4, <1>7, <2>1, <2>2 DEF Threaded
<1>8. ASSUME NEW j \in 1..(n + 1), bs[j].kind = "bridge"
      PROVE  j > 1 /\ bs[j - 1].kind = "native" /\ psi[j - 1] = psi[j]
  <2>1. CASE j = n + 1
    <3>1. j > 1 /\ j - 1 = n BY <2>1
    <3> QED BY Zenon, <1>4, <1>5, <2>1, <3>1
  <2>2. CASE j \in 1..n
    <3>1. as[j].kind = "bridge" BY Zenon, <1>4, <1>8, <2>2
    <3>2. j > 1 /\ as[j - 1].kind = "native" /\ phi[j - 1] = phi[j]
      BY Zenon, <1>1, <2>2, <3>1 DEF Threaded
    <3>3. j - 1 \in 1..n BY <2>2, <3>2
    <3> QED BY Zenon, <1>4, <2>2, <3>2, <3>3
  <2> QED BY <2>1, <2>2
<1>9. Threaded(psi, fs, bs, n + 1) BY Zenon, <1>6, <1>7, <1>8 DEF Threaded
<1>10. AtTop(psi, m, bs, n + 1) BY <1>2, <1>4 DEF AtTop
<1> QED BY Zenon, <1>3, <1>9, <1>10 DEF TightN

-----------------------------------------------------------------------------
(* One frame *)

\* Nothing stands for a frame below the only one.
LEMMA OneFrameN ==
  ASSUME NEW n \in Nat, NEW fs, NEW as, BelowN(fs, 1, as, n)
  PROVE  n = 0
<1>1. PICK phi \in [1..n -> 1..1] : \A i \in 1..n : phi[i] < 1 BY Zenon DEF BelowN
<1>2. ASSUME n # 0 PROVE FALSE
  <2>1. 1 \in 1..n BY <1>2
  <2>2. phi[1] \in 1..1 /\ phi[1] < 1 BY Zenon, <1>1, <2>1
  <2> QED BY <2>2
<1> QED BY Zenon, <1>2

-----------------------------------------------------------------------------
(* Sequences and numbers *)

\* A sequence has a length, and its elements are of its set.
LEMMA SeqFacts ==
  ASSUME NEW S, NEW q \in Seq(S)
  PROVE  /\ Len(q) \in Nat
         /\ DOMAIN q = 1..Len(q)
         /\ \A i \in 1..Len(q) : q[i] \in S
OBVIOUS

\* The empty sequence is a sequence over every set.
LEMMA EmptyFacts == \A S : <<>> \in Seq(S) /\ Len(<<>>) = 0
OBVIOUS

\* A sequence is empty exactly when its length is 0.
LEMMA EmptyIs ==
  ASSUME NEW S, NEW q \in Seq(S)
  PROVE  q = <<>> <=> Len(q) = 0
OBVIOUS

\* Append keeps the elements and adds one at the end.
LEMMA AppendFacts ==
  ASSUME NEW S, NEW q \in Seq(S), NEW x \in S
  PROVE  /\ Append(q, x) \in Seq(S)
         /\ Len(Append(q, x)) = Len(q) + 1
         /\ \A i \in 1..Len(q) : Append(q, x)[i] = q[i]
         /\ Append(q, x)[Len(q) + 1] = x
OBVIOUS

\* The elements of a part of a sequence are those of the sequence, shifted.
LEMMA SubSeqFacts ==
  ASSUME NEW S, NEW q \in Seq(S), NEW m \in 1..(Len(q) + 1), NEW n \in 0..Len(q)
  PROVE  /\ SubSeq(q, m, n) \in Seq(S)
         /\ Len(SubSeq(q, m, n)) = IF m <= n THEN n - m + 1 ELSE 0
         /\ \A i \in 1..(n - m + 1) : SubSeq(q, m, n)[i] = q[m + i - 1]
OBVIOUS

\* Every nonempty set of numbers has a least element.
LEMMA LeastNat ==
  ASSUME NEW T, T \subseteq Nat, T # {}
  PROVE  \E x \in T : \A y \in T : x <= y
<1>1. PICK x \in T : \A y \in T : ~(<<y, x>> \in OpToRel(<, Nat))
  BY Zenon, WFMin, NatLessThanWellFounded
<1>2. \A y \in T : ~ (y < x)
  BY Zenon, <1>1 DEF OpToRel
<1> QED
  BY <1>2

\* Every nonempty set of numbers up to n has a greatest element.
LEMMA GreatestNat ==
  ASSUME NEW n \in Nat, NEW T, T \subseteq 0..n, T # {}
  PROVE  \E x \in T : \A y \in T : y <= x
<1> DEFINE B == {u \in Nat : \A y \in T : y <= u}
<1>1. n \in B OBVIOUS
<1>2. PICK u \in B : \A v \in B : u <= v
  <2>1. B \subseteq Nat /\ B # {} BY <1>1
  <2> HIDE DEF B
  <2> QED BY Zenon, <2>1, LeastNat
<1>3. u \in Nat /\ \A y \in T : y <= u BY <1>2
<1>4. ASSUME u \notin T PROVE FALSE
  <2>1. \A y \in T : y \in Nat /\ y < u BY <1>3, <1>4
  <2>4. PICK z \in T : TRUE BY Zenon
  <2>5. u - 1 \in Nat BY <1>3, <2>1, <2>4
  <2>2. u - 1 \in B BY <1>3, <2>1, <2>5
  <2>3. u <= u - 1 BY <1>2, <2>2
  <2> QED BY <1>3, <2>3
<1> QED BY <1>3, <1>4

-----------------------------------------------------------------------------
(* The invariant *)

Frame == [fn : Funcs, pc : Nat \ {0}]
NativeAct == [kind : {"native"}, fn : Funcs, pc : Nat \ {0}, depth : Nat, code : Mapping]
BridgeAct == [kind : {"bridge"}, fn : Funcs, pc : Nat \ {0}]
Act == NativeAct \cup BridgeAct

\* The guest stack is empty exactly while no call runs.
GuestInv ==
  /\ frames \in Seq(Frame) /\ Len(frames) <= MaxFrames
  /\ acts \in Seq(Act)
  /\ status \in {"idle", "running", "waiting"} /\ pending \in BOOLEAN
  /\ status = "idle" <=> frames = <<>>
  /\ status = "idle" => acts = <<>>

Loose(fs, as) == LooseN(fs, Len(fs), as, Len(as))
Below(fs, as) == BelowN(fs, Len(fs), as, Len(as))
Tight(fs, as) == TightN(fs, Len(fs), as, Len(as))

IInv == CacheInv /\ GuestInv /\ Tight(frames, acts)

\* A sound cache answers well.  JitCacheProofs proves it, and JitTheorems applies it.
Served ==
  CacheInv => \A f \in Funcs \ rejected, mapped \in BOOLEAN : Good(Obtain(f, Held, mapped), f)

\* Some function calls f.
Called(f) == \E g \in Funcs : \E j \in DOMAIN Code[g] : Code[g][j] = f

\* Only a function that no function calls waits for the host.
AsyncAtEntry == \A f \in Funcs : \A i \in DOMAIN Code[f] : Code[f][i] = "async" => ~Called(f)

\* Every frame but the lowest is that of a function some function calls.
CalledAbove(fs) == \A k \in 1..Len(fs) : k > 1 => Called(fs[k].fn)

-----------------------------------------------------------------------------
(* Frames and activations *)

\* Popping a stack keeps every element below its top.
LEMMA PoppedFacts ==
  ASSUME NEW S, NEW q \in Seq(S), Len(q) # 0
  PROVE  /\ Popped(q) \in Seq(S)
         /\ Len(Popped(q)) = Len(q) - 1
         /\ \A i \in 1..(Len(q) - 1) : Popped(q)[i] = q[i]
BY DEF Popped

\* Native code in bs was in as, at the same place of the Rust stack.
Fewer(bs, as) ==
  \A i \in 1..Len(bs) : bs[i].kind = "native" =>
    /\ i \in 1..Len(as) /\ as[i].kind = "native"
    /\ bs[i].depth = as[i].depth /\ bs[i].fn = as[i].fn

\* The Rust stack without native code at its top.
Rest(as) == IF InNative(as) THEN Popped(as) ELSE as

\* A stack whose top goes on at pc.
Moved(s, pc) == [s EXCEPT ![Len(s)].pc = pc]

\* The fields of a frame.
LEMMA FrameFacts ==
  ASSUME NEW x \in Frame
  PROVE  x.fn \in Funcs /\ x.pc \in Nat \ {0} /\ x = [fn |-> x.fn, pc |-> x.pc]
BY DEF Frame

\* The fields of an activation; a native one also runs a mapping at a depth.
LEMMA ActFacts ==
  ASSUME NEW a \in Act
  PROVE  /\ a.fn \in Funcs /\ a.pc \in Nat \ {0}
         /\ a.kind \in {"native", "bridge"}
         /\ a.kind = "native" => a.depth \in Nat /\ a.code \in Mapping
BY DEF Act, NativeAct, BridgeAct

\* p is the sequence q with x in place of its n-th element.
Changed(p, S, q, n, x) ==
  /\ p \in Seq(S) /\ Len(p) = Len(q)
  /\ \A k \in 1..Len(q) : p[k] = IF k = n THEN x ELSE q[k]

\* Replacing one element of a sequence leaves the others alone.
LEMMA ChangeFacts ==
  ASSUME NEW S, NEW q \in Seq(S), NEW n \in 1..Len(q), NEW x \in S
  PROVE  Changed([q EXCEPT ![n] = x], S, q, n, x)
BY DEF Changed

\* p is the sequence q, of length n, with x added at its end.
Added(p, S, q, n, x) == p \in Seq(S) /\ Len(p) = n + 1 /\ Agree(p, q, n) /\ p[n + 1] = x

\* Pushing an element leaves the elements below it alone.
LEMMA AddedFacts ==
  ASSUME NEW S, NEW q \in Seq(S), NEW n, n = Len(q), NEW x \in S
  PROVE  Added(Append(q, x), S, q, n, x)
BY AppendFacts DEF Added, Agree

\* Moving the innermost frame to another position changes that position only.
LEMMA MovedFrames ==
  ASSUME NEW fs \in Seq(Frame), Len(fs) # 0, NEW pc \in Nat \ {0}
  PROVE  /\ Moved(fs, pc) \in Seq(Frame) /\ Len(Moved(fs, pc)) = Len(fs)
         /\ Agree(Moved(fs, pc), fs, Len(fs) - 1)
         /\ Moved(fs, pc)[Len(fs)] = [fn |-> fs[Len(fs)].fn, pc |-> pc]
         /\ \A k \in 1..Len(fs) : Moved(fs, pc)[k].fn = fs[k].fn
<1> DEFINE n == Len(fs)
<1>1. n \in Nat /\ n \in 1..n /\ fs[n] \in Frame BY SeqFacts
<1>2. [fs[n] EXCEPT !.pc = pc] = [fn |-> fs[n].fn, pc |-> pc]
  BY <1>1 DEF Frame
<1>3. [fs[n] EXCEPT !.pc = pc] \in Frame BY <1>1, <1>2 DEF Frame
<1>4. Moved(fs, pc) = [fs EXCEPT ![n] = [fs[n] EXCEPT !.pc = pc]] BY DEF Moved
<1>5. /\ Moved(fs, pc) \in Seq(Frame) /\ Len(Moved(fs, pc)) = n
      /\ \A k \in 1..n : Moved(fs, pc)[k] = IF k = n THEN [fs[n] EXCEPT !.pc = pc] ELSE fs[k]
  BY <1>1, <1>3, <1>4
<1>6. Agree(Moved(fs, pc), fs, n - 1) BY <1>1, <1>5 DEF Agree
<1>7. Moved(fs, pc)[n] = [fn |-> fs[n].fn, pc |-> pc] BY <1>1, <1>2, <1>5
<1>8. \A k \in 1..n : Moved(fs, pc)[k].fn = fs[k].fn BY <1>1, <1>2, <1>5
<1> QED BY <1>5, <1>6, <1>7, <1>8

\* The top of a stack that is not empty is its last element.
LEMMA LastFacts ==
  ASSUME NEW S, NEW q \in Seq(S), Len(q) # 0
  PROVE  /\ Top(q) = q[Len(q)] /\ q[Len(q)] \in S
         /\ Len(q) \in Nat \ {0} /\ Len(q) \in 1..Len(q)
BY DEF Top

\* A stack of activations that is not empty has a native or a bridge one on top,
\* never both.
LEMMA TopFacts ==
  ASSUME NEW as \in Seq(Act)
  PROVE  /\ Len(as) \in Nat
         /\ InNative(as) <=> Len(as) # 0 /\ as[Len(as)].kind = "native"
         /\ InBridge(as) <=> Len(as) # 0 /\ as[Len(as)].kind = "bridge"
         /\ \A i \in 1..Len(as) : as[i].kind \in {"native", "bridge"}
         /\ Len(as) # 0 /\ ~InNative(as) => InBridge(as)
<1> USE Zenon
<1>1. Len(as) \in Nat /\ (as = <<>> <=> Len(as) = 0) BY SeqFacts, EmptyIs
<1>2. \A i \in 1..Len(as) : as[i].kind \in {"native", "bridge"} BY SeqFacts, ActFacts
<1>3. Len(as) # 0 => Top(as) = as[Len(as)] /\ Len(as) \in 1..Len(as) BY LastFacts
<1> QED BY <1>1, <1>2, <1>3 DEF InNative, InBridge

\* Moving the innermost native activation changes its position only.
LEMMA MovedActs ==
  ASSUME NEW as \in Seq(Act), InNative(as), NEW pc \in Nat \ {0}
  PROVE  /\ Moved(as, pc) \in Seq(Act) /\ Len(Moved(as, pc)) = Len(as)
         /\ Agree(Moved(as, pc), as, Len(as) - 1)
         /\ Moved(as, pc)[Len(as)].kind = "native"
         /\ Moved(as, pc)[Len(as)].fn = as[Len(as)].fn /\ Moved(as, pc)[Len(as)].pc = pc
         /\ Fewer(Moved(as, pc), as)
<1> USE Zenon
<1>1. PICK n \in Nat : n = Len(as) /\ n # 0 /\ as[n].kind = "native" BY TopFacts
<1>2. n \in 1..n /\ \A k \in 1..(n - 1) : k \in 1..n /\ k # n
  <2>1. n # 0 BY <1>1
  <2> QED BY SMT, <2>1
<1>3. as[n] \in Act BY <1>1, <1>2, SeqFacts
<1> DEFINE a == [as[n] EXCEPT !.pc = pc]
<1>4. as[n] \in NativeAct BY <1>1, <1>3 DEF Act, BridgeAct
<1>5. a \in NativeAct /\ a.kind = "native" /\ a.fn = as[n].fn /\ a.pc = pc /\ a.depth = as[n].depth
  BY <1>4 DEF NativeAct
<1>6. Moved(as, pc) = [as EXCEPT ![n] = a] BY <1>1 DEF Moved
<1>7. a \in Act BY <1>5 DEF Act
<1> HIDE DEF a
<1>8. /\ Moved(as, pc) \in Seq(Act) /\ Len(Moved(as, pc)) = n
      /\ \A k \in 1..n : Moved(as, pc)[k] = IF k = n THEN a ELSE as[k]
  <2>1. Changed([as EXCEPT ![n] = a], Act, as, n, a) BY <1>1, <1>2, <1>7, ChangeFacts
  <2> QED BY <1>1, <1>6, <2>1 DEF Changed
<1>9. Agree(Moved(as, pc), as, n - 1) BY <1>2, <1>8 DEF Agree
<1>10. Moved(as, pc)[n] = a BY <1>2, <1>8
<1>11. Fewer(Moved(as, pc), as)
  <2>1. SUFFICES ASSUME NEW i \in 1..n, Moved(as, pc)[i].kind = "native"
                 PROVE  /\ as[i].kind = "native" /\ Moved(as, pc)[i].depth = as[i].depth
                        /\ Moved(as, pc)[i].fn = as[i].fn
    BY <1>1, <1>8 DEF Fewer
  <2>2. CASE i = n BY <1>1, <1>5, <1>10, <2>2
  <2>3. CASE i # n BY <1>8, <2>1, <2>3
  <2> QED BY <2>2, <2>3
<1> QED BY <1>1, <1>5, <1>8, <1>9, <1>10, <1>11

\* A stack of activations enters no code that it does not already hold.
LEMMA FewerSelf == \A as : Fewer(as, as)
BY Zenon DEF Fewer

\* Leaving the innermost native activation keeps those below it.
LEMMA RestFacts ==
  ASSUME NEW as \in Seq(Act)
  PROVE  /\ Rest(as) \in Seq(Act) /\ Fewer(Rest(as), as)
         /\ Len(Rest(as)) \in 0..Len(as) /\ Agree(Rest(as), as, Len(Rest(as)))
         /\ Len(Rest(as)) = IF Len(as) # 0 /\ as[Len(as)].kind = "native" THEN Len(as) - 1 ELSE Len(as)
         /\ InNative(as) => Rest(as) = Popped(as)
         /\ ~InNative(as) => Rest(as) = as
<1> USE Zenon
<1>1. PICK n \in Nat : n = Len(as) BY SeqFacts
<1>2. CASE InNative(as)
  <2>1. n # 0 /\ as[n].kind = "native" BY <1>1, <1>2, TopFacts
  <2>2. Rest(as) = Popped(as) BY <1>2 DEF Rest
  <2>3. /\ Popped(as) \in Seq(Act) /\ Len(Popped(as)) = n - 1
        /\ \A i \in 1..(n - 1) : Popped(as)[i] = as[i]
    BY <1>1, <2>1, PoppedFacts
  <2>4. n # 0 BY <2>1
  <2>5. n - 1 \in 0..n /\ \A i \in 1..(n - 1) : i \in 1..n BY SMT, <2>4
  <2>6. Fewer(Popped(as), as) /\ Agree(Popped(as), as, n - 1)
    BY <1>1, <2>3, <2>5 DEF Fewer, Agree
  <2> QED BY <1>1, <1>2, <2>1, <2>2, <2>3, <2>5, <2>6
<1>3. CASE ~InNative(as)
  <2>1. ~(n # 0 /\ as[n].kind = "native") BY <1>1, <1>3, TopFacts
  <2>2. Rest(as) = as BY <1>3 DEF Rest
  <2>3. Fewer(as, as) /\ Agree(as, as, n) BY DEF Fewer, Agree
  <2>4. n \in 0..n BY SMT
  <2> QED BY <1>1, <1>3, <2>1, <2>2, <2>3, <2>4
<1> QED BY <1>2, <1>3

-----------------------------------------------------------------------------
(* The two stacks of a call *)

\* bs is what the Rust stack as becomes when the interpreter goes on, or returns
\* to native code, at the top of fs.
Settled(fs, bs, as) == bs \in Seq(Act) /\ Tight(fs, bs) /\ Fewer(bs, as)

\* Native code comes and goes at the top only.
LEMMA FewerTrans ==
  ASSUME NEW as, NEW bs, NEW cs, Fewer(cs, bs), Fewer(bs, as)
  PROVE  Fewer(cs, as)
BY Zenon DEF Fewer

\* What lies below native code at the top stands for frames below the top one.
LEMMA TightBelow ==
  ASSUME NEW fs \in Seq(Frame), NEW as \in Seq(Act), Tight(fs, as)
  PROVE  Below(fs, Rest(as))
<1> USE Zenon
<1>1. PICK m \in Nat, n \in Nat : m = Len(fs) /\ n = Len(as) BY SeqFacts
<1>2. PICK k \in Nat : k = Len(Rest(as)) /\ k = IF n # 0 /\ as[n].kind = "native" THEN n - 1 ELSE n
  BY <1>1, RestFacts, SeqFacts
<1>3. TightN(fs, m, as, n) BY <1>1 DEF Tight
<1>4. \A i \in 1..n : as[i].kind \in {"native", "bridge"} BY <1>1, TopFacts
<1>5. BelowN(fs, m, as, k) BY <1>2, <1>3, <1>4, TightBelowN
<1>6. k \in 0..k BY SMT
<1>7. Agree(Rest(as), as, k) BY <1>2, RestFacts
<1>8. BelowN(fs, m, Rest(as), k) BY <1>5, <1>6, <1>7, PartN
<1> QED BY <1>1, <1>2, <1>8 DEF Below

\* Native code in charge is where the top frame is.
LEMMA TightTop ==
  ASSUME NEW fs \in Seq(Frame), NEW as \in Seq(Act), Tight(fs, as), InNative(as)
  PROVE  Len(fs) # 0 /\ SamePlace(as[Len(as)], fs[Len(fs)])
<1> USE Zenon
<1>1. PICK m \in Nat, n \in Nat : m = Len(fs) /\ n = Len(as) BY SeqFacts
<1>2. PICK phi \in [1..n -> 1..m] : Threaded(phi, fs, as, n) /\ AtTop(phi, m, as, n)
  BY <1>1 DEF Tight, TightN
<1>3. n # 0 /\ as[n].kind = "native" BY <1>1, TopFacts
<1>4. n # 0 BY <1>3
<1>5. n \in 1..n BY SMT, <1>4
<1>6. phi[n] = m BY <1>2, <1>3 DEF AtTop
<1>7. SamePlace(as[n], fs[phi[n]]) BY <1>2, <1>5 DEF Threaded
<1>8. m \in 1..m BY <1>2, <1>5, <1>6
<1>9. m # 0 BY SMT, <1>8
<1> QED BY <1>1, <1>6, <1>7, <1>9

\* No activation and no bridge: nothing to relate.
LEMMA TightEmpty ==
  ASSUME NEW fs \in Seq(Frame), NEW as \in Seq(Act), Len(as) = 0
  PROVE  Tight(fs, as) /\ Below(fs, as)
<1>1. PICK m \in Nat : m = Len(fs) BY Zenon, SeqFacts
<1> DEFINE phi == [i \in 1..0 |-> i]
<1>2. phi \in [1..0 -> 1..m] /\ \A i \in 1..0 : phi[i] < m OBVIOUS
<1>3. Threaded(phi, fs, as, 0) BY DEF Threaded
<1>4. AtTop(phi, m, as, 0) BY DEF AtTop
<1> HIDE DEF phi
<1>5. TightN(fs, m, as, 0) /\ BelowN(fs, m, as, 0) BY Zenon, <1>2, <1>3, <1>4 DEF TightN, BelowN
<1> QED BY Zenon, <1>1, <1>5 DEF Tight, Below

\* run_interpreter_continue_from_jit_call stops at a bridge, or goes on.
LEMMA ResumeSettled ==
  ASSUME NEW fs \in Seq(Frame), Len(fs) # 0, NEW as \in Seq(Act), Loose(fs, as), ~InNative(as)
  PROVE  Settled(fs, Resume(fs, as), as)
<1> USE Zenon
<1>1. PICK m \in Nat, n \in Nat : m = Len(fs) /\ n = Len(as) /\ m # 0 BY SeqFacts
<1>2. LooseN(fs, m, as, n) BY <1>1 DEF Loose
<1>3. CASE n = 0
  <2>1. ~InBridge(as) BY <1>1, <1>3, TopFacts
  <2>2. Resume(fs, as) = as BY <2>1 DEF Resume
  <2>3. Tight(fs, as) BY <1>1, <1>3, TightEmpty
  <2> QED BY <2>2, <2>3, FewerSelf DEF Settled
<1>4. CASE n # 0
  <2>1. InBridge(as) /\ as[n].kind = "bridge" BY <1>1, <1>4, TopFacts
  <2>2. m \in Nat \ {0} /\ n \in Nat \ {0} BY <1>1, <1>4
  <2>3. Top(as) = as[n] /\ Top(fs) = fs[m] BY <1>1 DEF Top
  <2>4. CASE SamePlace(as[n], fs[m])
    <3>1. Resume(fs, as) = Popped(as) BY <2>1, <2>3, <2>4 DEF Resume, SamePlace
    <3>2. /\ Popped(as) \in Seq(Act) /\ Len(Popped(as)) = n - 1
          /\ \A i \in 1..(n - 1) : Popped(as)[i] = as[i]
      BY <1>1, <1>4, PoppedFacts
    <3>3. Agree(Popped(as), as, n - 1) BY <3>2 DEF Agree
    <3>4. TightN(fs, m, Popped(as), n - 1) BY <1>2, <2>1, <2>2, <2>4, <3>3, ReachedN
    <3>5. Fewer(Popped(as), as)
      <4>1. \A i \in 1..(n - 1) : i \in 1..n BY SMT, <1>4
      <4> QED BY <1>1, <3>2, <4>1 DEF Fewer
    <3> QED BY <1>1, <3>1, <3>2, <3>4, <3>5 DEF Settled, Tight
  <2>5. CASE ~SamePlace(as[n], fs[m])
    <3>1. Resume(fs, as) = as BY <2>3, <2>5 DEF Resume, SamePlace
    <3>2. TightN(fs, m, as, n) BY <1>2, <2>1, <2>2, <2>5, WaitN
    <3> QED BY <1>1, <3>1, <3>2, FewerSelf DEF Settled, Tight
  <2> QED BY <2>4, <2>5
<1> QED BY <1>3, <1>4

\* A native caller goes on, or gets a bridge.
LEMMA ContinueSettled ==
  ASSUME NEW fs \in Seq(Frame), Len(fs) # 0, NEW as \in Seq(Act), Loose(fs, as)
  PROVE  Settled(fs, Continue(fs, as), as)
<1> USE Zenon
<1>1. PICK m \in Nat, n \in Nat : m = Len(fs) /\ n = Len(as) /\ m # 0 BY SeqFacts
<1>2. LooseN(fs, m, as, n) BY <1>1 DEF Loose
<1>3. CASE ~InNative(as)
  <2>1. Continue(fs, as) = Resume(fs, as) BY <1>3 DEF Continue
  <2> QED BY <1>3, <2>1, ResumeSettled
<1>4. CASE InNative(as)
  <2>1. n # 0 /\ as[n].kind = "native" BY <1>1, <1>4, TopFacts
  <2>2. m \in Nat \ {0} /\ n \in Nat \ {0}
    <3>1. n # 0 BY <2>1
    <3> QED BY <1>1, <3>1
  <2>3. Top(as) = as[n] /\ Top(fs) = fs[m] BY <1>1 DEF Top
  <2>4. CASE SamePlace(as[n], fs[m])
    <3>1. Continue(fs, as) = as BY <1>4, <2>3, <2>4 DEF Continue, SamePlace
    <3>2. TightN(fs, m, as, n) BY <1>2, <2>1, <2>2, <2>4, SettleN
    <3> QED BY <1>1, <3>1, <3>2, FewerSelf DEF Settled, Tight
  <2>5. CASE ~SamePlace(as[n], fs[m])
    <3> DEFINE b == Bridge(as[n].fn, as[n].pc)
    <3>1. Continue(fs, as) = Append(as, b) BY <1>4, <2>3, <2>5 DEF Continue, SamePlace
    <3>2. n \in 1..n BY SMT, <2>2
    <3>3. as[n].fn \in Funcs /\ as[n].pc \in Nat \ {0} BY <1>1, <3>2, SeqFacts, ActFacts
    <3>4. b \in Act /\ b.kind = "bridge" /\ SamePlace(b, as[n])
      BY <3>3 DEF Bridge, Act, BridgeAct, SamePlace
    <3> HIDE DEF b
    <3>5. Added(Append(as, b), Act, as, n, b) BY <1>1, <3>4, AddedFacts
    <3>6. PICK bs \in Seq(Act) : bs = Continue(fs, as) /\ Added(bs, Act, as, n, b)
      BY <3>1, <3>5 DEF Added
    <3>7. TightN(fs, m, bs, n + 1)
      <4>1. Agree(bs, as, n) /\ bs[n + 1].kind = "bridge" /\ SamePlace(bs[n + 1], as[n])
        BY <3>4, <3>6 DEF Added
      <4> QED BY <4>1, <1>2, <2>1, <2>2, <2>5, BridgeN
    <3>8. Fewer(bs, as)
      <4>1. SUFFICES ASSUME NEW i \in 1..(n + 1), bs[i].kind = "native"
                     PROVE  i \in 1..n /\ bs[i] = as[i]
        BY <1>1, <3>6 DEF Fewer, Added
      <4>2. i # n + 1 BY <3>4, <3>6, <4>1 DEF Added
      <4>3. i \in 1..n BY SMT, <4>2
      <4> QED BY <3>6, <4>3 DEF Added, Agree
    <3>9. Tight(fs, bs) BY <1>1, <3>6, <3>7 DEF Tight, Added
    <3> QED BY <3>6, <3>8, <3>9 DEF Settled
  <2> QED BY <2>4, <2>5
<1> QED BY <1>3, <1>4

\* A pending effect leaves native code down to a bridge.
LEMMA UnwindFacts ==
  ASSUME NEW as \in Seq(Act)
  PROVE  /\ Unwind(as) \in Seq(Act) /\ ~InNative(Unwind(as))
         /\ Len(Unwind(as)) \in 0..Len(Rest(as)) /\ Agree(Unwind(as), Rest(as), Len(Unwind(as)))
         /\ Fewer(Unwind(as), as)
<1> USE Zenon
<1>1. PICK n \in Nat : n = Len(as) /\ DOMAIN as = 1..n BY SeqFacts
<1> DEFINE stops == {0} \cup {i \in DOMAIN as : as[i].kind = "bridge"}
<1>2. stops \subseteq 0..n /\ stops # {}
  <2>1. 0 \in 0..n /\ \A i \in 1..n : i \in 0..n BY SMT
  <2> QED BY <1>1, <2>1
<1>3. PICK k \in stops : k = CHOOSE i \in stops : \A j \in stops : j <= i
  <2> HIDE DEF stops
  <2>1. \E i \in stops : \A j \in stops : j <= i BY <1>2, GreatestNat
  <2> QED BY <2>1
<1>4. Unwind(as) = SubSeq(as, 1, k) BY <1>3 DEF Unwind
<1>5. k \in 0..n /\ (k # 0 => as[k].kind = "bridge") BY <1>2, <1>3
<1> HIDE DEF stops
<1>6. PICK us : us = Unwind(as) OBVIOUS
<1>7. us \in Seq(Act) /\ Len(us) = k /\ \A i \in 1..k : us[i] = as[i]
  <2>1. 1 \in 1..(n + 1) BY SMT
  <2>2. /\ SubSeq(as, 1, k) \in Seq(Act)
        /\ Len(SubSeq(as, 1, k)) = IF 1 <= k THEN k - 1 + 1 ELSE 0
        /\ \A i \in 1..(k - 1 + 1) : SubSeq(as, 1, k)[i] = as[1 + i - 1]
    BY <1>1, <1>5, <2>1, SubSeqFacts
  <2>3. k \in 0..n BY <1>5
  <2>4. (IF 1 <= k THEN k - 1 + 1 ELSE 0) = k /\ k - 1 + 1 = k /\ \A i \in 1..k : 1 + i - 1 = i
    BY SMT, <2>3
  <2> QED BY <1>4, <1>6, <2>2, <2>4
<1>8. ~InNative(us)
  <2>1. ASSUME InNative(us) PROVE FALSE
    <3>1. k # 0 /\ us[k].kind = "native" BY <1>7, <2>1, TopFacts
    <3>2. k # 0 BY <3>1
    <3>3. k \in 0..n BY <1>5
    <3>4. k \in 1..k BY SMT, <3>2, <3>3
    <3>5. us[k].kind = "bridge" BY <1>5, <1>7, <3>2, <3>4
    <3>6. "native" # "bridge" BY SMT
    <3> QED BY <3>1, <3>5, <3>6
  <2> QED BY <2>1
<1>9. PICK l \in Nat : /\ l = Len(Rest(as)) /\ Agree(Rest(as), as, l)
                       /\ l = IF n # 0 /\ as[n].kind = "native" THEN n - 1 ELSE n
  BY <1>1, RestFacts, SeqFacts
<1>10. k \in 0..l
  <2>1. CASE n # 0 /\ as[n].kind = "native"
    <3>1. l = n - 1 BY <1>9, <2>1
    <3>2. k # n
      <4>1. "native" # "bridge" BY SMT
      <4> QED BY <1>5, <2>1, <4>1
    <3>3. k \in 0..n BY <1>5
    <3> QED BY SMT, <3>1, <3>2, <3>3
  <2>2. CASE ~(n # 0 /\ as[n].kind = "native")
    <3>1. l = n BY <1>9, <2>2
    <3> QED BY <1>5, <3>1
  <2> QED BY <2>1, <2>2
<1>11. Agree(us, Rest(as), k)
  <2>1. \A i \in 1..k : i \in 1..l BY SMT, <1>10
  <2> QED BY <1>7, <1>9, <2>1 DEF Agree
<1>12. Fewer(us, as)
  <2>1. k \in 0..n BY <1>5
  <2>2. \A i \in 1..k : i \in 1..n BY SMT, <2>1
  <2> QED BY <1>1, <1>7, <2>2 DEF Fewer
<1> QED BY <1>6, <1>7, <1>8, <1>9, <1>10, <1>11, <1>12

\* Less of the Rust stack stands for frames below the top one all the more.
LEMMA BelowPart ==
  ASSUME NEW fs \in Seq(Frame), NEW as \in Seq(Act), NEW bs \in Seq(Act),
         Len(bs) \in 0..Len(as), Agree(bs, as, Len(bs)), Below(fs, as)
  PROVE  Below(fs, bs)
<1> USE Zenon
<1>1. PICK m \in Nat, n \in Nat : m = Len(fs) /\ n = Len(as) BY SeqFacts
<1>2. BelowN(fs, m, as, n) BY <1>1 DEF Below
<1>3. BelowN(fs, m, bs, Len(bs)) BY <1>1, <1>2, PartN
<1> QED BY <1>1, <1>3 DEF Below

\* The top frame goes on at another pc.
LEMMA BelowMoved ==
  ASSUME NEW fs \in Seq(Frame), Len(fs) # 0, NEW pc \in Nat \ {0}, NEW as \in Seq(Act), Below(fs, as)
  PROVE  Below(Moved(fs, pc), as) /\ Loose(Moved(fs, pc), as)
<1> USE Zenon
<1>1. PICK m \in Nat, n \in Nat : m = Len(fs) /\ n = Len(as) BY SeqFacts
<1>2. BelowN(fs, m, as, n) BY <1>1 DEF Below
<1>3. Agree(Moved(fs, pc), fs, m - 1) /\ Len(Moved(fs, pc)) = m BY <1>1, MovedFrames
<1>4. BelowN(Moved(fs, pc), m, as, n) BY <1>2, <1>3, BelowMoveN
<1>5. LooseN(Moved(fs, pc), m, as, n) BY <1>4, BelowLooseN
<1> QED BY <1>1, <1>3, <1>4, <1>5 DEF Below, Loose

\* The top frame is left.
LEMMA BelowPopped ==
  ASSUME NEW fs \in Seq(Frame), Len(fs) # 0, NEW as \in Seq(Act), Below(fs, as)
  PROVE  Loose(Popped(fs), as)
<1> USE Zenon
<1>1. PICK m \in Nat, n \in Nat : m = Len(fs) /\ n = Len(as) /\ m # 0 BY SeqFacts
<1>2. BelowN(fs, m, as, n) BY <1>1 DEF Below
<1>3. Len(Popped(fs)) = m - 1 /\ Agree(Popped(fs), fs, m - 1) BY <1>1, PoppedFacts DEF Agree
<1>4. m \in Nat \ {0} BY SMT, <1>1
<1>5. LooseN(Popped(fs), m - 1, as, n) BY <1>2, <1>3, <1>4, BelowFrontN
<1> QED BY <1>1, <1>3, <1>5 DEF Loose

\* A frame is pushed.
LEMMA LoosePushed ==
  ASSUME NEW fs \in Seq(Frame), NEW x \in Frame, NEW as \in Seq(Act), Loose(fs, as)
  PROVE  Below(Append(fs, x), as)
<1> USE Zenon
<1>1. PICK m \in Nat, n \in Nat : m = Len(fs) /\ n = Len(as) BY SeqFacts
<1>2. LooseN(fs, m, as, n) BY <1>1 DEF Loose
<1>3. Added(Append(fs, x), Frame, fs, m, x) BY <1>1, AddedFacts
<1>4. BelowN(Append(fs, x), m + 1, as, n) BY <1>2, <1>3, LoosePushN DEF Added
<1> QED BY <1>1, <1>3, <1>4 DEF Below, Added

-----------------------------------------------------------------------------
(* The steps of a call *)

\* Native code that runs the top frame goes on at another pc, and so does the
\* frame.
LEMMA MovedTight ==
  ASSUME NEW fs \in Seq(Frame), NEW as \in Seq(Act), Tight(fs, as), InNative(as), NEW pc \in Nat \ {0}
  PROVE  Tight(Moved(fs, pc), Moved(as, pc))
<1> USE Zenon
<1>1. PICK m \in Nat, n \in Nat : m = Len(fs) /\ n = Len(as) BY SeqFacts
<1>2. m # 0 /\ SamePlace(as[n], fs[m]) BY <1>1, TightTop
<1>3. n # 0 /\ as[n].kind = "native" BY <1>1, TopFacts
<1>4. PICK k \in Nat : n = k + 1 /\ n - 1 = k /\ k \in 0..k
  <2>1. n # 0 BY <1>3
  <2>2. n - 1 \in Nat /\ n = (n - 1) + 1 /\ n - 1 \in 0..(n - 1) BY SMT, <2>1
  <2> QED BY <2>2
<1>5. Rest(as) \in Seq(Act) /\ Len(Rest(as)) = k /\ Agree(Rest(as), as, k)
  BY <1>1, <1>3, <1>4, RestFacts
<1>6. Below(Moved(fs, pc), Rest(as)) BY <1>1, <1>2, <1>5, TightBelow, BelowMoved
<1>7. Len(Moved(fs, pc)) = m /\ Moved(fs, pc)[m] = [fn |-> fs[m].fn, pc |-> pc]
  BY <1>1, <1>2, MovedFrames
<1>8. BelowN(Moved(fs, pc), m, Rest(as), k) BY <1>5, <1>6, <1>7 DEF Below
<1>9. /\ Len(Moved(as, pc)) = n /\ Agree(Moved(as, pc), as, k)
      /\ Moved(as, pc)[n].kind = "native"
      /\ Moved(as, pc)[n].fn = as[n].fn /\ Moved(as, pc)[n].pc = pc
  <2>1. /\ Len(Moved(as, pc)) = Len(as) /\ Agree(Moved(as, pc), as, Len(as) - 1)
        /\ Moved(as, pc)[Len(as)].kind = "native"
        /\ Moved(as, pc)[Len(as)].fn = as[Len(as)].fn /\ Moved(as, pc)[Len(as)].pc = pc
    BY MovedActs
  <2> QED BY <1>1, <1>4, <2>1
<1>10. Agree(Moved(as, pc), Rest(as), k) BY <1>5, <1>9 DEF Agree
<1>11. SamePlace(Moved(as, pc)[n], Moved(fs, pc)[m]) BY SMT, <1>2, <1>7, <1>9 DEF SamePlace
<1>12. m \in Nat \ {0}
  <2>1. m # 0 BY <1>2
  <2> QED BY SMT, <2>1
<1>13. TightN(Moved(fs, pc), m, Moved(as, pc), k + 1)
  BY <1>4, <1>8, <1>9, <1>10, <1>11, <1>12, EnterN
<1> QED BY <1>4, <1>7, <1>9, <1>13 DEF Tight

\* The engine in charge is at the top frame.
LEMMA PositionIs ==
  ASSUME GuestInv, Tight(frames, acts), frames # <<>>
  PROVE  /\ Len(frames) # 0 /\ Position = frames[Len(frames)]
         /\ Position \in Frame /\ Position.fn \in Funcs /\ Position.pc \in Nat \ {0}
<1> USE Zenon
<1>1. frames \in Seq(Frame) /\ acts \in Seq(Act) BY DEF GuestInv
<1>2. Len(frames) # 0 BY <1>1, EmptyIs
<1>3. PICK x \in Frame : x = frames[Len(frames)] /\ x = Top(frames) BY <1>1, <1>2, LastFacts
<1>4. x.fn \in Funcs /\ x.pc \in Nat \ {0} /\ x = [fn |-> x.fn, pc |-> x.pc] BY FrameFacts
<1>5. CASE InNative(acts)
  <2>1. SamePlace(acts[Len(acts)], x) BY <1>1, <1>3, <1>5, TightTop
  <2>2. Position = [fn |-> Top(acts).fn, pc |-> Top(acts).pc] BY <1>5 DEF Position
  <2>3. Position = x BY <1>4, <2>1, <2>2 DEF SamePlace, Top
  <2> QED BY <1>2, <1>3, <1>4, <2>3
<1>6. CASE ~InNative(acts)
  <2>1. Position = [fn |-> Top(frames).fn, pc |-> Top(frames).pc] BY <1>6 DEF Position
  <2>2. Position = x BY <1>3, <1>4, <2>1
  <2> QED BY <1>2, <1>3, <1>4, <2>2
<1> QED BY <1>5, <1>6

\* The instruction at the top frame.
LEMMA HereFacts ==
  ASSUME GuestInv, Tight(frames, acts), frames # <<>>
  PROVE  /\ Position.pc + 1 \in Nat \ {0} /\ Len(Code[Position.fn]) + 1 \in Nat \ {0}
         /\ Here # "return" =>
              Position.pc \in DOMAIN Code[Position.fn] /\ Here = Code[Position.fn][Position.pc]
<1> USE Zenon
<1>1. PICK f \in Funcs, pc \in Nat \ {0} : f = Position.fn /\ pc = Position.pc BY PositionIs
<1>2. Code[f] \in Seq(Instrs) BY JitAssumption
<1>3. PICK n \in Nat : n = Len(Code[f]) /\ DOMAIN Code[f] = 1..n BY <1>2, SeqFacts
<1>4. pc + 1 \in Nat \ {0} /\ n + 1 \in Nat \ {0} /\ (~(pc > n) => pc \in 1..n) BY SMT
<1>5. ASSUME Here # "return" PROVE pc \in 1..n /\ Here = Code[f][pc]
  BY <1>1, <1>3, <1>4, <1>5 DEF Here
<1> QED BY <1>1, <1>3, <1>4, <1>5

\* Native code and its frame, or the frame alone, at another pc.
LEMMA ActsAtFacts ==
  ASSUME GuestInv, Tight(frames, acts), frames # <<>>, NEW pc \in Nat \ {0}
  PROVE  /\ ActsAt(pc) \in Seq(Act) /\ Fewer(ActsAt(pc), acts)
         /\ Loose(FramesAt(pc), ActsAt(pc))
         /\ InNative(acts) => Tight(FramesAt(pc), ActsAt(pc))
<1> USE Zenon
<1>1. frames \in Seq(Frame) /\ acts \in Seq(Act) /\ Len(frames) # 0 BY PositionIs DEF GuestInv
<1>2. FramesAt(pc) = Moved(frames, pc) BY DEF FramesAt, Moved
<1>3. CASE InNative(acts)
  <2>1. ActsAt(pc) = Moved(acts, pc) BY <1>3 DEF ActsAt, Moved
  <2>2. Tight(FramesAt(pc), ActsAt(pc)) BY <1>1, <1>2, <1>3, <2>1, MovedTight
  <2>3. Loose(FramesAt(pc), ActsAt(pc)) BY <2>2, BelowLooseN DEF Tight, Loose
  <2> QED BY ZenonT(40), <1>1, <1>3, <2>1, <2>2, <2>3, MovedActs
<1>4. CASE ~InNative(acts)
  <2>1. ActsAt(pc) = acts /\ Rest(acts) = acts BY <1>4 DEF ActsAt, Rest
  <2>2. Below(frames, acts) BY <1>1, <2>1, TightBelow
  <2> QED BY <1>1, <1>2, <1>4, <2>1, <2>2, BelowMoved, FewerSelf
<1> QED BY <1>3, <1>4

\* An instruction that stays in its function.
LEMMA GoToSettled ==
  ASSUME GuestInv, Tight(frames, acts), frames # <<>>, NEW pc \in Nat \ {0}, GoTo(pc)
  PROVE  frames' = FramesAt(pc) /\ Settled(FramesAt(pc), acts', acts)
<1> USE Zenon
<1>1. /\ ActsAt(pc) \in Seq(Act) /\ Fewer(ActsAt(pc), acts)
      /\ Loose(FramesAt(pc), ActsAt(pc))
      /\ InNative(acts) => Tight(FramesAt(pc), ActsAt(pc))
  BY ActsAtFacts
<1>2. frames' = FramesAt(pc) BY DEF GoTo
<1>3. CASE InNative(acts) BY <1>1, <1>2, <1>3 DEF GoTo, Settled
<1>4. CASE ~InNative(acts)
  <2>1. acts' = Resume(FramesAt(pc), acts) /\ ActsAt(pc) = acts BY <1>4 DEF GoTo, ActsAt
  <2>2. FramesAt(pc) \in Seq(Frame) /\ Len(FramesAt(pc)) = Len(frames) /\ Len(frames) # 0
    BY PositionIs, MovedFrames DEF FramesAt, Moved, GuestInv
  <2> QED BY <1>1, <1>2, <1>4, <2>1, <2>2, ResumeSettled
<1> QED BY <1>3, <1>4

-----------------------------------------------------------------------------
(* Entering a function *)

\* Native code in acts' was there before, or has been entered for the frame d of
\* the function f and is the code the cache knows as used last.
Grown(d, f) ==
  \A i \in 1..Len(acts') : acts'[i].kind = "native" =>
    \/ /\ i \in 1..Len(acts) /\ acts[i].kind = "native"
       /\ acts'[i].depth = acts[i].depth /\ acts'[i].fn = acts[i].fn
    \/ /\ acts'[i].depth = d /\ acts'[i].fn = f
       /\ lru' # <<>> /\ acts'[i].code = Top(lru')

\* The call of f, whose frame is at the top of fs, goes on; or it ends because
\* the Rust stack is too deep.
Entered(f, fs) ==
  /\ frames' = fs /\ status' = "running"
  /\ acts' \in Seq(Act) /\ Tight(fs, acts') /\ Grown(Len(fs), f)
Ended == frames' = <<>> /\ acts' = <<>> /\ status' = "idle" /\ UNCHANGED cacheVars

\* The native activation of a function that is entered.
LEMMA EnterNative ==
  ASSUME NEW f \in Funcs, NEW fs \in Seq(Frame), Len(fs) # 0, SamePlace([fn |-> f, pc |-> 1], fs[Len(fs)]),
         NEW as \in Seq(Act), Below(fs, as), NEW c \in Mapping
  PROVE  /\ Added(Append(as, Native(f, Len(fs), c)), Act, as, Len(as), Native(f, Len(fs), c))
         /\ Tight(fs, Append(as, Native(f, Len(fs), c)))
<1> USE Zenon
<1>1. PICK m \in Nat, n \in Nat : m = Len(fs) /\ n = Len(as) /\ m # 0 BY SeqFacts
<1> DEFINE a == Native(f, m, c)
<1>2. a \in Act /\ a.kind = "native" /\ SamePlace(a, [fn |-> f, pc |-> 1])
  BY SMT DEF Native, Act, NativeAct, SamePlace
<1> HIDE DEF a
<1>3. PICK bs : bs = Append(as, a) OBVIOUS
<1>4. Added(bs, Act, as, n, a) BY <1>1, <1>2, <1>3, AddedFacts
<1>5. BelowN(fs, m, as, n) BY <1>1 DEF Below
<1>6. SamePlace(a, fs[m]) BY <1>1, <1>2 DEF SamePlace
<1>7. m \in Nat \ {0} BY SMT, <1>1
<1>8. TightN(fs, m, bs, n + 1) BY <1>2, <1>4, <1>5, <1>6, <1>7, EnterN DEF Added
<1>9. Tight(fs, bs) BY <1>1, <1>4, <1>8 DEF Tight, Added
<1> QED BY <1>1, <1>3, <1>4, <1>9 DEF a

\* What the cache holds after its answer.
LEMMA AnswerSound ==
  ASSUME CacheInv, NEW f \in Funcs, NEW r, Good(r, f), Answer(r)
  PROVE  /\ CacheInv'
         /\ r.code # NoCode => r.code \in Mapping /\ lru' # <<>> /\ Top(lru') = r.code
<1> USE Zenon
<1>1. Sound(lru', used_bytes', disabled', rejected') BY DEF Good, Answer
<1>2. weak' \in [Funcs -> Nat]
  <2>1. weak \in [Funcs -> Nat] BY DEF CacheInv
  <2>2. CASE r.code = NoCode BY <2>1, <2>2 DEF Answer, Slots
  <2>3. CASE r.code # NoCode
    <3>1. r.code \in Mapping BY <2>3 DEF Good
    <3>2. r.code.fn \in Funcs /\ r.code.id \in Nat BY SMT, <3>1 DEF Mapping
    <3>3. weak' = [weak EXCEPT ![r.code.fn] = r.code.id] BY <2>3 DEF Answer, Slots
    <3> QED BY SMT, <2>1, <3>2, <3>3
  <2> QED BY <2>2, <2>3
<1>3. CacheInv' BY <1>1, <1>2 DEF CacheInv
<1> QED BY <1>3 DEF Good, Answer, Top

\* A step that leaves the cache alone keeps its invariant.
LEMMA CacheKept == ASSUME CacheInv, UNCHANGED cacheVars PROVE CacheInv'
BY DEF CacheInv, Sound, OncePerFn, cacheVars, Total

\* The call goes on without native code of its own.
LEMMA GrownFewer ==
  ASSUME NEW d, NEW f, Fewer(acts', acts)
  PROVE  Grown(d, f)
BY Zenon DEF Grown, Fewer

\* enter_current_frame_raw: the call ends, goes on interpreted, or in native code.
LEMMA EnterFacts ==
  ASSUME Served, CacheInv, NEW f \in Funcs, NEW fs \in Seq(Frame), Len(fs) # 0,
         SamePlace([fn |-> f, pc |-> 1], fs[Len(fs)]),
         NEW as \in Seq(Act), Below(fs, as), Fewer(as, acts), Enter(f, fs, as)
  PROVE  CacheInv' /\ (Ended \/ Entered(f, fs))
<1> USE Zenon
<1>1. Settled(fs, Continue(fs, as), as)
  <2>1. Loose(fs, as) BY BelowLooseN DEF Below, Loose
  <2> QED BY <2>1, ContinueSettled
<1>2. ASSUME acts' = Continue(fs, as), frames' = fs, status' = "running"
      PROVE  Entered(f, fs)
  <2>1. acts' \in Seq(Act) /\ Tight(fs, acts') /\ Fewer(acts', as) BY <1>1, <1>2 DEF Settled
  <2>2. Fewer(acts', acts) BY <2>1, FewerTrans
  <2>3. Grown(Len(fs), f) BY <2>2, GrownFewer
  <2> QED BY <1>2, <2>1, <2>3 DEF Entered
<1>3. CASE f \in rejected
  <2>1. /\ acts' = Continue(fs, as) /\ UNCHANGED cacheVars
        /\ frames' = fs /\ status' = "running"
    BY <1>3 DEF Enter
  <2> QED BY <1>2, <2>1, CacheKept
<1>4. CASE f \notin rejected /\ Cardinality(Natives) >= MaxEntries
  <2>1. Ended BY <1>4 DEF Enter, Ended
  <2> QED BY <2>1, CacheKept DEF Ended
<1>5. CASE f \notin rejected /\ ~(Cardinality(Natives) >= MaxEntries)
  <2>1. PICK mapped \in BOOLEAN :
          LET r == Obtain(f, Held, mapped) IN
          /\ Answer(r)
          /\ acts' = IF r.code = NoCode THEN Continue(fs, as)
                     ELSE Append(as, Native(f, Len(fs), r.code))
          /\ frames' = fs /\ status' = "running"
    BY <1>5 DEF Enter
  <2>2. PICK r : r = Obtain(f, Held, mapped) OBVIOUS
  <2>3. /\ Answer(r) /\ frames' = fs /\ status' = "running"
        /\ acts' = IF r.code = NoCode THEN Continue(fs, as)
                   ELSE Append(as, Native(f, Len(fs), r.code))
    BY <2>1, <2>2
  <2>4. Good(r, f) BY <1>5, <2>2 DEF Served
  <2>5. /\ CacheInv'
        /\ r.code # NoCode => r.code \in Mapping /\ lru' # <<>> /\ Top(lru') = r.code
    BY <2>3, <2>4, AnswerSound
  <2>6. CASE r.code = NoCode BY <1>2, <2>3, <2>5, <2>6
  <2>7. CASE r.code # NoCode
    <3>1. PICK n \in Nat, m \in Nat : n = Len(as) /\ m = Len(fs) BY SeqFacts
    <3>2. PICK a : a = Native(f, m, r.code) OBVIOUS
    <3>3. Added(acts', Act, as, n, a) /\ Tight(fs, acts')
      BY <2>3, <2>5, <2>7, <3>1, <3>2, EnterNative
    <3>4. a.depth = m /\ a.fn = f /\ a.code = r.code BY SMT, <3>2 DEF Native
    <3>5. ASSUME NEW i \in 1..Len(acts'), acts'[i].kind = "native"
          PROVE  \/ /\ i \in 1..Len(acts) /\ acts[i].kind = "native"
                    /\ acts'[i].depth = acts[i].depth /\ acts'[i].fn = acts[i].fn
                 \/ /\ acts'[i].depth = m /\ acts'[i].fn = f
                    /\ lru' # <<>> /\ acts'[i].code = Top(lru')
      <4>1. i \in 1..(n + 1) BY <3>3, <3>5 DEF Added
      <4>2. i \in 1..n \/ i = n + 1 BY SMT, <4>1
      <4>3. CASE i = n + 1 BY <2>5, <2>7, <3>3, <3>4, <4>3 DEF Added
      <4>4. CASE i \in 1..n
        <5>1. acts'[i] = as[i] BY <3>3, <4>4 DEF Added, Agree
        <5> QED BY <3>1, <3>5, <4>4, <5>1 DEF Fewer
      <4> QED BY <4>2, <4>3, <4>4
    <3>6. Grown(Len(fs), f) BY <3>1, <3>5 DEF Grown
    <3>7. acts' \in Seq(Act) BY <3>3 DEF Added
    <3>8. Entered(f, fs) BY <2>3, <3>3, <3>6, <3>7 DEF Entered
    <3> QED BY <2>5, <3>8
  <2> QED BY <2>6, <2>7
<1> QED BY <1>3, <1>4, <1>5

-----------------------------------------------------------------------------
(* What each action does to the two stacks *)

First(f) == <<[fn |-> f, pc |-> 1]>>
Callee == Append(FramesAt(Position.pc + 1), [fn |-> Here, pc |-> 1])

\* A call that runs has a frame.
LEMMA Running ==
  ASSUME IInv, status = "running" \/ status = "waiting"
  PROVE  frames # <<>> /\ Len(frames) # 0 /\ frames \in Seq(Frame) /\ acts \in Seq(Act)
<1>1. status # "idle" OBVIOUS
<1>2. frames # <<>> /\ frames \in Seq(Frame) /\ acts \in Seq(Act) BY Zenon, <1>1 DEF IInv, GuestInv
<1> QED BY Zenon, <1>2, EmptyIs

\* Starting a guest call enters an entry function on an empty stack, or ends the
\* call at once.
LEMMA StartStep ==
  ASSUME Served, IInv, Start
  PROVE  /\ CacheInv' /\ frames = <<>> /\ pending' = pending
         /\ \E f \in Entries : Ended \/ Entered(f, First(f))
<1> USE Zenon
<1>1. PICK f \in Entries : Enter(f, First(f), <<>>) BY DEF Start, First
<1>2. frames = <<>> /\ acts = <<>> BY DEF IInv, GuestInv, Start
<1>3. f \in Funcs BY JitAssumption
<1>4. First(f) \in Seq(Frame) /\ Len(First(f)) # 0 /\ First(f)[Len(First(f))] = [fn |-> f, pc |-> 1]
  BY SMT, <1>3 DEF First, Frame
<1>5. <<>> \in Seq(Act) /\ Len(<<>>) = 0 BY EmptyFacts
<1>6. Below(First(f), <<>>) BY <1>4, <1>5, TightEmpty
<1>7. Fewer(<<>>, acts) BY <1>2, FewerSelf
<1>8. SamePlace([fn |-> f, pc |-> 1], First(f)[Len(First(f))]) BY <1>4 DEF SamePlace
<1>9. CacheInv' /\ (Ended \/ Entered(f, First(f)))
  BY <1>1, <1>3, <1>4, <1>5, <1>6, <1>7, <1>8, EnterFacts DEF IInv
<1> QED BY <1>2, <1>9 DEF Start

\* Before a call the caller's frame and its native code are at the continuation.
LEMMA CalleeFacts ==
  ASSUME IInv, frames # <<>>, Here \in Funcs
  PROVE  /\ Added(Callee, Frame, FramesAt(Position.pc + 1), Len(frames), [fn |-> Here, pc |-> 1])
         /\ FramesAt(Position.pc + 1) \in Seq(Frame)
         /\ Below(Callee, ActsAt(Position.pc + 1))
<1> USE Zenon
<1>1. PICK pc \in Nat \ {0} : pc = Position.pc + 1 BY HereFacts DEF IInv
<1>2. /\ ActsAt(pc) \in Seq(Act) /\ Loose(FramesAt(pc), ActsAt(pc))
  BY ActsAtFacts DEF IInv
<1>3. FramesAt(pc) \in Seq(Frame) /\ Len(FramesAt(pc)) = Len(frames)
  BY PositionIs, MovedFrames DEF FramesAt, Moved, IInv, GuestInv
<1>4. [fn |-> Here, pc |-> 1] \in Frame BY SMT DEF Frame
<1>5. Below(Callee, ActsAt(pc)) BY <1>1, <1>2, <1>3, <1>4, LoosePushed DEF Callee
<1>6. Added(Callee, Frame, FramesAt(pc), Len(frames), [fn |-> Here, pc |-> 1])
  BY <1>1, <1>3, <1>4, AddedFacts DEF Callee
<1> QED BY <1>1, <1>3, <1>5, <1>6

\* A call pushes the callee's frame and enters it, or traps.
LEMMA CallStep ==
  ASSUME Served, IInv, Call
  PROVE  CacheInv' /\ pending' = pending /\ (Ended \/ Entered(Here, Callee))
<1> USE Zenon
<1>1. status = "running" /\ Here \in Funcs /\ pending' = pending
      /\ Enter(Here, Callee, ActsAt(Position.pc + 1))
  BY DEF Call, Callee
<1>2. frames # <<>> BY <1>1, Running
<1>3. PICK m \in Nat : m = Len(frames) BY SeqFacts DEF IInv, GuestInv
<1>4. PICK pc \in Nat \ {0} : pc = Position.pc + 1 BY <1>2, HereFacts DEF IInv
<1>5. /\ Callee \in Seq(Frame) /\ Len(Callee) = m + 1
      /\ Callee[m + 1] = [fn |-> Here, pc |-> 1] /\ Below(Callee, ActsAt(pc))
  BY <1>1, <1>2, <1>3, <1>4, CalleeFacts DEF Added
<1>6. m + 1 # 0 BY SMT
<1>7. SamePlace([fn |-> Here, pc |-> 1], Callee[Len(Callee)]) BY <1>5 DEF SamePlace
<1>8. ActsAt(pc) \in Seq(Act) /\ Fewer(ActsAt(pc), acts) BY <1>2, ActsAtFacts DEF IInv
<1>9. CacheInv' /\ (Ended \/ Entered(Here, Callee))
  BY <1>1, <1>4, <1>5, <1>6, <1>7, <1>8, EnterFacts DEF IInv
<1> QED BY <1>1, <1>9

\* The top frame goes on at pc; native code may be left or entered again.
Walks(fs) == frames' = fs /\ Settled(fs, acts', acts) /\ UNCHANGED cacheVars

\* A plain instruction moves the innermost frame to the next one.
LEMMA OpStep ==
  ASSUME IInv, Op
  PROVE  Walks(FramesAt(Position.pc + 1)) /\ status' = status /\ pending' = pending
<1> USE Zenon
<1>1. frames # <<>> BY Running DEF Op
<1>2. PICK pc \in Nat \ {0} : pc = Position.pc + 1 BY <1>1, HereFacts DEF IInv
<1>3. GoTo(pc) /\ UNCHANGED cacheVars /\ status' = status /\ pending' = pending BY SMT, <1>2 DEF Op
<1> QED BY <1>1, <1>2, <1>3, GoToSettled DEF IInv, Walks

\* A branch moves the innermost frame on, or to the end of its function.
LEMMA BranchStep ==
  ASSUME IInv, Branch
  PROVE  /\ \E pc \in {Position.pc + 1, Len(Code[Position.fn]) + 1} :
              pc \in Nat \ {0} /\ Walks(FramesAt(pc))
         /\ status' = status /\ pending' = pending
<1> USE Zenon
<1>1. frames # <<>> BY Running DEF Branch
<1>2. UNCHANGED cacheVars /\ status' = status /\ pending' = pending BY SMT DEF Branch
<1>3. PICK pc \in {Position.pc + 1, Len(Code[Position.fn]) + 1} : GoTo(pc) BY DEF Branch
<1>4. pc \in Nat \ {0} BY <1>1, HereFacts DEF IInv
<1>5. Walks(FramesAt(pc)) BY <1>1, <1>2, <1>3, <1>4, GoToSettled DEF IInv, Walks
<1> QED BY <1>2, <1>4, <1>5

\* FALLBACK_PTR.
LEMMA FallBackStep ==
  ASSUME IInv, FallBack
  PROVE  Walks(FramesAt(Position.pc)) /\ status' = status /\ pending' = pending
<1> USE Zenon
<1>1. /\ frames # <<>> /\ Len(frames) # 0 /\ frames \in Seq(Frame) /\ acts \in Seq(Act)
  BY Running DEF FallBack
<1>2. /\ UNCHANGED cacheVars /\ status' = status /\ pending' = pending
      /\ InNative(acts)
      /\ frames' = FramesAt(Position.pc)
      /\ acts' = Continue(FramesAt(Position.pc), Popped(acts))
  BY SMT DEF FallBack
<1>3. PICK pc \in Nat \ {0} : pc = Position.pc BY <1>1, PositionIs DEF IInv
<1>4. FramesAt(pc) = Moved(frames, pc) BY DEF FramesAt, Moved
<1>5. Rest(acts) = Popped(acts) /\ Rest(acts) \in Seq(Act) /\ Fewer(Rest(acts), acts)
  BY <1>1, <1>2, RestFacts
<1>6. Loose(FramesAt(pc), Rest(acts)) BY <1>1, <1>4, <1>5, TightBelow, BelowMoved DEF IInv
<1>7. FramesAt(pc) \in Seq(Frame) /\ Len(FramesAt(pc)) # 0 BY <1>1, <1>4, MovedFrames
<1>8. Settled(FramesAt(pc), acts', Rest(acts)) BY <1>2, <1>3, <1>5, <1>6, <1>7, ContinueSettled
<1>9. Settled(FramesAt(pc), acts', acts) BY <1>5, <1>8, FewerTrans DEF Settled
<1> QED BY <1>2, <1>3, <1>9 DEF Walks

\* A return pops the innermost frame, and ends the guest call with the
\* outermost.
LEMMA ReturnStep ==
  ASSUME IInv, Return
  PROVE  /\ pending' = pending
         /\ IF Len(frames) = 1 THEN Ended
            ELSE Walks(Popped(frames)) /\ status' = status /\ Fewer(acts', Rest(acts))
<1> USE Zenon
<1>1. /\ frames # <<>> /\ Len(frames) # 0 /\ frames \in Seq(Frame) /\ acts \in Seq(Act)
  BY Running DEF Return
<1>2. UNCHANGED cacheVars /\ pending' = pending /\ frames' = Popped(frames) BY SMT DEF Return
<1>3. PICK m \in Nat : m = Len(frames) BY <1>1, SeqFacts
<1>4. Popped(frames) \in Seq(Frame) /\ Len(Popped(frames)) = m - 1 BY <1>1, <1>3, PoppedFacts
<1>5. CASE m = 1
  <2>1. m - 1 = 0 BY SMT, <1>5
  <2>2. Popped(frames) = <<>> BY <1>4, <2>1, EmptyIs
  <2>3. acts' = <<>> /\ status' = "idle" BY <1>3, <1>5 DEF Return
  <2> QED BY <1>2, <1>3, <1>5, <2>2, <2>3 DEF Ended
<1>6. CASE m # 1
  <2>1. m - 1 # 0 BY SMT, <1>1, <1>3, <1>6
  <2>2. /\ acts' = IF InNative(acts) THEN Continue(Popped(frames), Popped(acts))
                   ELSE Resume(Popped(frames), acts)
        /\ status' = status
    BY <1>3, <1>6 DEF Return
  <2>3. Rest(acts) \in Seq(Act) /\ Fewer(Rest(acts), acts) BY <1>1, RestFacts
  <2>4. Loose(Popped(frames), Rest(acts)) BY <1>1, <2>3, TightBelow, BelowPopped DEF IInv
  <2>5. CASE InNative(acts)
    <3>1. acts' = Continue(Popped(frames), Rest(acts)) BY <2>2, <2>5 DEF Rest
    <3>2. Settled(Popped(frames), acts', Rest(acts)) BY <1>4, <2>1, <2>3, <2>4, <3>1, ContinueSettled
    <3>3. Settled(Popped(frames), acts', acts) /\ Fewer(acts', Rest(acts))
      BY <2>3, <3>2, FewerTrans DEF Settled
    <3> QED BY <1>2, <1>3, <1>6, <2>2, <3>3 DEF Walks
  <2>6. CASE ~InNative(acts)
    <3>1. acts' = Resume(Popped(frames), acts) /\ Rest(acts) = acts BY <2>2, <2>6 DEF Rest
    <3>2. Settled(Popped(frames), acts', acts) BY <1>1, <1>4, <2>1, <2>4, <2>6, <3>1, ResumeSettled
    <3> QED BY <1>2, <1>3, <1>6, <2>2, <3>1, <3>2 DEF Walks, Settled
  <2> QED BY <2>5, <2>6
<1> QED BY <1>5, <1>6

\* An asynchronous host call moves on with an effect pending, suspended or not.
LEMMA AsyncStep ==
  ASSUME IInv, Async
  PROVE  Walks(FramesAt(Position.pc + 1)) /\ pending' = TRUE /\ status' \in {"waiting", "running"}
<1> USE Zenon
<1>1. /\ frames # <<>> /\ Len(frames) # 0 /\ frames \in Seq(Frame) /\ acts \in Seq(Act)
  BY Running DEF Async
<1>2. PICK pc \in Nat \ {0} : pc = Position.pc + 1 BY <1>1, HereFacts DEF IInv
<1>3. /\ UNCHANGED cacheVars /\ pending' = TRUE /\ frames' = FramesAt(pc)
      /\ acts' = Resume(FramesAt(pc), Unwind(acts))
      /\ status' \in {"waiting", "running"}
  BY <1>2 DEF Async
<1>4. FramesAt(pc) = Moved(frames, pc) BY DEF FramesAt, Moved
<1>5. FramesAt(pc) \in Seq(Frame) /\ Len(FramesAt(pc)) # 0 BY <1>1, <1>4, MovedFrames
<1>6. PICK us \in Seq(Act) :
        /\ us = Unwind(acts) /\ ~InNative(us) /\ Fewer(us, acts)
        /\ Len(us) \in 0..Len(Rest(acts)) /\ Agree(us, Rest(acts), Len(us))
  BY <1>1, UnwindFacts
<1>7. Rest(acts) \in Seq(Act) /\ Below(frames, Rest(acts)) BY <1>1, RestFacts, TightBelow DEF IInv
<1>8. Below(frames, us) BY <1>1, <1>6, <1>7, BelowPart
<1>9. Loose(FramesAt(pc), us) BY <1>1, <1>4, <1>8, BelowMoved
<1>10. Settled(FramesAt(pc), acts', us) BY <1>3, <1>5, <1>6, <1>9, ResumeSettled
<1>11. Settled(FramesAt(pc), acts', acts) BY <1>6, <1>10, FewerTrans DEF Settled
<1> QED BY <1>2, <1>3, <1>11 DEF Walks

-----------------------------------------------------------------------------
(* The inductive invariant *)

\* A call that goes on with the frames fs.
LEMMA InvLive ==
  ASSUME CacheInv', NEW fs \in Seq(Frame), Len(fs) # 0, Len(fs) <= MaxFrames, frames' = fs,
         acts' \in Seq(Act), Tight(fs, acts'), status' \in {"running", "waiting"}, pending' \in BOOLEAN
  PROVE  IInv'
<1> USE Zenon
<1>1. frames' # <<>> BY EmptyIs
<1>2. status' # "idle" /\ status' \in {"idle", "running", "waiting"} BY SMT
<1>3. GuestInv' BY <1>1, <1>2 DEF GuestInv
<1>4. Tight(frames', acts') OBVIOUS
<1> QED BY <1>3, <1>4 DEF IInv

\* A guest call that ended leaves nothing on either stack, which the invariant
\* allows.
LEMMA InvEnded ==
  ASSUME CacheInv, Ended, pending' \in BOOLEAN
  PROVE  IInv'
<1> USE Zenon
<1>1. frames' = <<>> /\ acts' = <<>> /\ status' = "idle" BY DEF Ended
<1>2. frames' \in Seq(Frame) /\ acts' \in Seq(Act) /\ Len(frames') = 0 /\ Len(acts') = 0
  BY <1>1, EmptyFacts
<1>3. Len(frames') <= MaxFrames BY SMT, <1>2, JitAssumption
<1>4. GuestInv' BY SMT, <1>1, <1>2, <1>3 DEF GuestInv
<1>5. Tight(frames', acts') BY <1>2, TightEmpty
<1>6. CacheInv' BY CacheKept DEF Ended
<1> QED BY <1>4, <1>5, <1>6 DEF IInv

\* The frames with another pc at the top.
LEMMA FramesAtFacts ==
  ASSUME IInv, frames # <<>>, NEW pc \in Nat \ {0}
  PROVE  /\ FramesAt(pc) \in Seq(Frame) /\ Len(FramesAt(pc)) = Len(frames)
         /\ Len(FramesAt(pc)) # 0 /\ Len(FramesAt(pc)) <= MaxFrames
         /\ \A k \in 1..Len(frames) : FramesAt(pc)[k].fn = frames[k].fn
<1> USE Zenon
<1>1. Len(frames) # 0 /\ frames \in Seq(Frame) /\ Len(frames) <= MaxFrames
  BY PositionIs DEF IInv, GuestInv
<1>2. FramesAt(pc) = Moved(frames, pc) BY DEF FramesAt, Moved
<1>3. /\ Moved(frames, pc) \in Seq(Frame) /\ Len(Moved(frames, pc)) = Len(frames)
      /\ \A k \in 1..Len(frames) : Moved(frames, pc)[k].fn = frames[k].fn
  BY <1>1, MovedFrames
<1> QED BY <1>1, <1>2, <1>3

\* The frames after a call: those before it, the innermost at its next
\* instruction, and the callee's.
LEMMA CalleeType ==
  ASSUME IInv, Call
  PROVE  /\ Callee \in Seq(Frame) /\ Len(Callee) = Len(frames) + 1
         /\ Len(Callee) # 0 /\ Len(Callee) <= MaxFrames
         /\ \A k \in 1..Len(frames) : Callee[k].fn = frames[k].fn
         /\ Callee[Len(frames) + 1] = [fn |-> Here, pc |-> 1]
<1> USE Zenon
<1>1. frames # <<>> /\ Here \in Funcs BY Running DEF Call
<1>2. PICK m \in Nat : m = Len(frames) BY SeqFacts DEF IInv, GuestInv
<1>3. PICK pc \in Nat \ {0} : pc = Position.pc + 1 BY <1>1, HereFacts DEF IInv
<1>4. Added(Callee, Frame, FramesAt(pc), m, [fn |-> Here, pc |-> 1])
  BY <1>1, <1>2, <1>3, CalleeFacts
<1>5. \A k \in 1..m : Callee[k].fn = frames[k].fn
  BY <1>1, <1>2, <1>4, FramesAtFacts DEF Added, Agree
<1>6. m < MaxFrames BY <1>2 DEF Call, RoomForFrame
<1>7. m + 1 # 0 /\ m + 1 <= MaxFrames BY SMT, <1>6, JitAssumption
<1> QED BY <1>2, <1>4, <1>5, <1>7 DEF Added

\* The frames of a guest call that has just started: one, at its first
\* instruction.
LEMMA FirstFacts ==
  ASSUME NEW f \in Entries
  PROVE  /\ First(f) \in Seq(Frame) /\ Len(First(f)) = 1 /\ First(f)[1] = [fn |-> f, pc |-> 1]
         /\ Len(First(f)) # 0 /\ Len(First(f)) <= MaxFrames
BY JitAssumption DEF First, Frame

\* The frames after a return: those before it but the innermost.
LEMMA PoppedFrames ==
  ASSUME IInv, frames # <<>>, Len(frames) # 1
  PROVE  /\ Popped(frames) \in Seq(Frame) /\ Len(Popped(frames)) = Len(frames) - 1
         /\ Len(Popped(frames)) # 0 /\ Len(Popped(frames)) <= MaxFrames
         /\ Agree(Popped(frames), frames, Len(frames) - 1)
<1> USE Zenon
<1>1. Len(frames) # 0 /\ frames \in Seq(Frame) /\ Len(frames) <= MaxFrames
  BY PositionIs DEF IInv, GuestInv
<1>2. PICK m \in Nat : m = Len(frames) BY <1>1, SeqFacts
<1>3. /\ Popped(frames) \in Seq(Frame) /\ Len(Popped(frames)) = m - 1
      /\ \A i \in 1..(m - 1) : Popped(frames)[i] = frames[i]
  BY <1>1, <1>2, PoppedFacts
<1>4. m - 1 # 0 /\ m - 1 <= MaxFrames BY SMT, <1>1, <1>2, JitAssumption
<1> QED BY <1>2, <1>3, <1>4 DEF Agree

\* Every step keeps the inductive invariant.
LEMMA InvNext ==
  ASSUME Served, IInv, [Next]_vars
  PROVE  IInv'
<1> USE Zenon
<1>1. pending \in BOOLEAN /\ status \in {"idle", "running", "waiting"} BY DEF IInv, GuestInv
<1>2. ASSUME NEW pc \in Nat \ {0}, frames # <<>>, Walks(FramesAt(pc)),
             status' \in {"running", "waiting"}, pending' \in BOOLEAN
      PROVE  IInv'
  BY <1>2, CacheKept, FramesAtFacts, InvLive DEF Walks, Settled, IInv
<1>3. CASE Start
  <2>1. /\ CacheInv' /\ pending' = pending /\ \E f \in Entries : Ended \/ Entered(f, First(f))
    BY <1>3, StartStep
  <2>2. PICK f \in Entries : Ended \/ Entered(f, First(f)) BY <2>1
  <2>3. CASE Ended BY <1>1, <2>1, <2>3, InvEnded DEF IInv
  <2>4. CASE Entered(f, First(f)) BY <1>1, <2>1, <2>4, FirstFacts, InvLive DEF Entered
  <2> QED BY <2>2, <2>3, <2>4
<1>4. CASE Call
  <2>1. CacheInv' /\ pending' = pending /\ (Ended \/ Entered(Here, Callee)) BY <1>4, CallStep
  <2>2. CASE Ended BY <1>1, <2>1, <2>2, InvEnded DEF IInv
  <2>3. CASE Entered(Here, Callee) BY <1>1, <1>4, <2>1, <2>3, CalleeType, InvLive DEF Entered
  <2> QED BY <2>1, <2>2, <2>3
<1>5. CASE Op
  <2>1. frames # <<>> /\ status = "running" BY <1>5, Running DEF Op
  <2>2. Position.pc + 1 \in Nat \ {0} BY <2>1, HereFacts DEF IInv
  <2> QED BY <1>1, <1>2, <1>5, <2>1, <2>2, OpStep
<1>6. CASE Branch
  <2>1. frames # <<>> /\ status = "running" BY <1>6, Running DEF Branch
  <2>2. PICK pc \in Nat \ {0} : Walks(FramesAt(pc)) BY <1>6, BranchStep
  <2> QED BY <1>1, <1>2, <1>6, <2>1, <2>2, BranchStep
<1>7. CASE FallBack
  <2>1. frames # <<>> /\ status = "running" BY <1>7, Running DEF FallBack
  <2>2. Position.pc \in Nat \ {0} BY <2>1, PositionIs DEF IInv
  <2> QED BY <1>1, <1>2, <1>7, <2>1, <2>2, FallBackStep
<1>8. CASE Return
  <2>1. frames # <<>> /\ status = "running" BY <1>8, Running DEF Return
  <2>2. pending' = pending BY <1>8, ReturnStep
  <2>3. CASE Len(frames) = 1
    <3>1. Ended BY <1>8, <2>3, ReturnStep
    <3> QED BY <1>1, <2>2, <3>1, InvEnded DEF IInv
  <2>4. CASE Len(frames) # 1
    <3>1. Walks(Popped(frames)) /\ status' = status BY <1>8, <2>4, ReturnStep
    <3>2. CacheInv' BY <3>1, CacheKept DEF Walks, IInv
    <3> QED BY <1>1, <2>1, <2>2, <2>4, <3>1, <3>2, PoppedFrames, InvLive DEF Walks, Settled
  <2> QED BY <2>3, <2>4
<1>9. CASE Async
  <2>1. frames # <<>> BY <1>9, Running DEF Async
  <2>2. Position.pc + 1 \in Nat \ {0} BY <2>1, HereFacts DEF IInv
  <2>3. TRUE \in BOOLEAN BY SMT
  <2> QED BY <1>2, <1>9, <2>1, <2>2, <2>3, AsyncStep
<1>10. CASE Trap
  <2>1. Ended /\ pending' = pending BY SMT, <1>10 DEF Trap, Ended
  <2> QED BY <1>1, <2>1, InvEnded DEF IInv
<1>11. CASE Answered
  <2>1. frames # <<>> /\ Len(frames) # 0 /\ frames \in Seq(Frame) /\ acts \in Seq(Act)
    BY <1>11, Running DEF Answered
  <2>2. UNCHANGED cacheVars /\ frames' = frames /\ acts' = acts /\ status' = "running" /\ pending' = FALSE
    BY SMT, <1>11 DEF Answered
  <2>3. CacheInv' BY <2>2, CacheKept DEF IInv
  <2>4. FALSE \in BOOLEAN BY SMT
  <2> QED BY <2>1, <2>2, <2>3, <2>4, InvLive DEF IInv, GuestInv
<1>12. CASE UNCHANGED vars
  <2>1. UNCHANGED cacheVars /\ UNCHANGED guestVars BY SMT, <1>12 DEF vars
  <2>2. CacheInv' BY <2>1, CacheKept DEF IInv
  <2>3. frames' = frames /\ acts' = acts /\ status' = status /\ pending' = pending
    BY SMT, <2>1 DEF guestVars
  <2>4. GuestInv' BY <2>3 DEF IInv, GuestInv
  <2>5. Tight(frames', acts') BY <2>3 DEF IInv
  <2> QED BY <2>2, <2>4, <2>5 DEF IInv
<1> QED
  BY <1>3, <1>4, <1>5, <1>6, <1>7, <1>8, <1>9, <1>10, <1>11, <1>12 DEF Next, GuestStep

-----------------------------------------------------------------------------
(* The code cache *)

\* Native code that a step adds is the code the cache knows as used last.
LEMMA NextEnters ==
  ASSUME Served, IInv, [Next]_vars
  PROVE  [\A i \in DOMAIN acts' : i > Len(acts) /\ acts'[i].kind = "native"
            => lru' # <<>> /\ acts'[i].code = Top(lru')]_vars
<1> USE Zenon
<1> DEFINE Known == \A i \in DOMAIN acts' : i > Len(acts) /\ acts'[i].kind = "native"
                      => lru' # <<>> /\ acts'[i].code = Top(lru')
<1>1. PICK n \in Nat : n = Len(acts) BY SeqFacts DEF IInv, GuestInv
<1>2. \A i \in 1..n : ~(i > n) BY SMT
<1>3. ASSUME acts' \in Seq(Act), NEW d, NEW f, Grown(d, f) PROVE Known
  <2>1. DOMAIN acts' = 1..Len(acts') BY <1>3, SeqFacts
  <2> QED BY <1>1, <1>2, <1>3, <2>1 DEF Grown
<1>4. ASSUME Ended PROVE Known
  <2>1. acts' = <<>> BY <1>4 DEF Ended
  <2>2. DOMAIN acts' = {} BY SMT, <2>1
  <2> QED BY <2>2
<1>5. ASSUME NEW fs, Walks(fs) PROVE Known
  <2>1. acts' \in Seq(Act) /\ Fewer(acts', acts) BY <1>5 DEF Walks, Settled
  <2>2. Grown(0, 0) BY <2>1, GrownFewer
  <2> QED BY <1>3, <2>1, <2>2
<1>6. ASSUME acts' = acts PROVE Known
  <2>1. acts' \in Seq(Act) /\ Fewer(acts', acts) BY <1>6, FewerSelf DEF IInv, GuestInv
  <2>2. Grown(0, 0) BY <2>1, GrownFewer
  <2> QED BY <1>3, <2>1, <2>2
<1>16. SUFFICES ASSUME Next PROVE Known OBVIOUS
<1> HIDE DEF Known
<1>7. CASE Start BY <1>3, <1>4, <1>7, StartStep DEF Entered
<1>8. CASE Call BY <1>3, <1>4, <1>8, CallStep DEF Entered
<1>9. CASE Op BY <1>5, <1>9, OpStep
<1>10. CASE Branch BY <1>5, <1>10, BranchStep
<1>11. CASE FallBack BY <1>5, <1>11, FallBackStep
<1>12. CASE Return BY <1>4, <1>5, <1>12, ReturnStep
<1>13. CASE Async BY <1>5, <1>13, AsyncStep
<1>14. CASE Trap
  <2>1. Ended BY SMT, <1>14 DEF Trap, Ended
  <2> QED BY <1>4, <2>1
<1>15. CASE Answered
  <2>1. acts' = acts BY SMT, <1>15 DEF Answered
  <2> QED BY <1>6, <2>1
<1> QED
  BY <1>7, <1>8, <1>9, <1>10, <1>11, <1>12, <1>13, <1>14, <1>15, <1>16 DEF Next, GuestStep

-----------------------------------------------------------------------------
(* Effects: only functions no function calls wait for the host *)

\* A function is below another on the guest stack only if it called one.
LEMMA CalledNext ==
  ASSUME Served, IInv, CalledAbove(frames), [Next]_vars
  PROVE  CalledAbove(frames')
<1> USE Zenon
<1>1. PICK m \in Nat : m = Len(frames) BY SeqFacts DEF IInv, GuestInv
<1>2. ASSUME NEW pc \in Nat \ {0}, frames # <<>>, Walks(FramesAt(pc)) PROVE CalledAbove(frames')
  <2>1. frames' = FramesAt(pc) /\ Len(FramesAt(pc)) = m BY <1>1, <1>2, FramesAtFacts DEF Walks
  <2>2. \A k \in 1..m : FramesAt(pc)[k].fn = frames[k].fn BY <1>1, <1>2, FramesAtFacts
  <2> QED BY <1>1, <2>1, <2>2 DEF CalledAbove
<1>3. ASSUME Ended PROVE CalledAbove(frames')
  <2>1. Len(frames') = 0 BY <1>3, EmptyFacts DEF Ended
  <2>2. 1..0 = {} BY SMT
  <2> QED BY <2>1, <2>2 DEF CalledAbove
<1>4. ASSUME frames' = frames PROVE CalledAbove(frames') BY <1>4
<1>5. CASE Start
  <2>1. PICK f \in Entries : Ended \/ Entered(f, First(f)) BY <1>5, StartStep
  <2>2. ASSUME Entered(f, First(f)) PROVE CalledAbove(frames')
    <3>1. Len(frames') = 1 BY <2>2, FirstFacts DEF Entered
    <3>2. \A k \in 1..1 : ~(k > 1) BY SMT
    <3> QED BY <3>1, <3>2 DEF CalledAbove
  <2> QED BY <1>3, <2>1, <2>2
<1>6. CASE Call
  <2>1. ASSUME Entered(Here, Callee) PROVE CalledAbove(frames')
    <3>1. frames' = Callee /\ Len(Callee) = m + 1 /\ Callee[m + 1] = [fn |-> Here, pc |-> 1]
      BY <1>1, <1>6, <2>1, CalleeType DEF Entered
    <3>2. \A k \in 1..m : Callee[k].fn = frames[k].fn BY <1>1, <1>6, CalleeType
    <3>3. Called(Here)
      <4>1. frames # <<>> /\ Here \in Funcs BY <1>6, Running DEF Call
      <4>2. Here # "return" BY SMT, <4>1, JitAssumption
      <4> QED BY <4>1, <4>2, HereFacts, PositionIs DEF Called, IInv
    <3>4. Callee[m + 1].fn = Here BY SMT, <3>1
    <3>5. SUFFICES ASSUME NEW k \in 1..(m + 1), k > 1 PROVE Called(Callee[k].fn)
      BY <3>1 DEF CalledAbove
    <3>6. k \in 1..m \/ k = m + 1 BY SMT, <3>5
    <3> QED BY <1>1, <3>2, <3>3, <3>4, <3>5, <3>6 DEF CalledAbove
  <2> QED BY <1>3, <1>6, <2>1, CallStep
<1>7. CASE Op
  <2>1. frames # <<>> BY <1>7, Running DEF Op
  <2> QED BY <1>2, <1>7, <2>1, HereFacts, OpStep DEF IInv
<1>8. CASE Branch
  <2>1. frames # <<>> BY <1>8, Running DEF Branch
  <2> QED BY <1>2, <1>8, <2>1, BranchStep
<1>9. CASE FallBack
  <2>1. frames # <<>> BY <1>9, Running DEF FallBack
  <2> QED BY <1>2, <1>9, <2>1, PositionIs, FallBackStep DEF IInv
<1>10. CASE Return
  <2>1. frames # <<>> BY <1>10, Running DEF Return
  <2>2. ASSUME m # 1 PROVE CalledAbove(frames')
    <3>1. frames' = Popped(frames) BY <1>1, <1>10, <2>2, ReturnStep DEF Walks
    <3>2. Len(Popped(frames)) = m - 1 /\ Agree(Popped(frames), frames, m - 1)
      BY <1>1, <2>1, <2>2, PoppedFrames
    <3>3. \A k \in 1..(m - 1) : k \in 1..m BY SMT
    <3> QED BY <1>1, <3>1, <3>2, <3>3 DEF CalledAbove, Agree
  <2> QED BY <1>1, <1>3, <1>10, <2>2, ReturnStep
<1>11. CASE Async
  <2>1. frames # <<>> BY <1>11, Running DEF Async
  <2> QED BY <1>2, <1>11, <2>1, HereFacts, AsyncStep DEF IInv
<1>12. CASE Trap
  <2>1. Ended BY SMT, <1>12 DEF Trap, Ended
  <2> QED BY <1>3, <2>1
<1>13. CASE Answered
  <2>1. frames' = frames BY SMT, <1>13 DEF Answered
  <2> QED BY <1>4, <2>1
<1>14. CASE UNCHANGED vars
  <2>1. frames' = frames BY SMT, <1>14 DEF vars, guestVars
  <2> QED BY <1>4, <2>1
<1> QED
  BY <1>5, <1>6, <1>7, <1>8, <1>9, <1>10, <1>11, <1>12, <1>13, <1>14 DEF Next, GuestStep

\* Then there is one frame when a host function is called, so no bridge takes its
\* continuation for more to interpret.
LEMMA AsyncWaits ==
  ASSUME AsyncAtEntry, IInv, CalledAbove(frames), Async
  PROVE  status' = "waiting"
<1> USE Zenon
<1>1. /\ frames # <<>> /\ Len(frames) # 0 /\ frames \in Seq(Frame) /\ acts \in Seq(Act)
  BY Running DEF Async
<1>2. PICK m \in Nat : m = Len(frames) BY <1>1, SeqFacts
<1>3. Here = "async" /\ Here # "return" BY SMT DEF Async
<1>4. PICK f \in Funcs : f = Position.fn /\ f = frames[m].fn BY <1>1, <1>2, PositionIs DEF IInv
<1>5. ~Called(f)
  <2>1. Position.pc \in DOMAIN Code[f] /\ Code[f][Position.pc] = "async"
    BY <1>1, <1>3, <1>4, HereFacts DEF IInv
  <2> QED BY <2>1 DEF AsyncAtEntry
<1>6. m = 1
  <2>1. m # 0 BY <1>1, <1>2
  <2>2. m \in 1..m /\ (m = 1 \/ m > 1) BY SMT, <2>1
  <2> QED BY <1>2, <1>4, <1>5, <2>2 DEF CalledAbove
<1>7. PICK rs \in Seq(Act) : rs = Rest(acts) BY <1>1, RestFacts
<1>8. Below(frames, rs) BY <1>1, <1>7, TightBelow DEF IInv
<1>9. PICK n \in Nat : n = Len(rs) BY SeqFacts
<1>10. BelowN(frames, 1, rs, n) BY <1>2, <1>6, <1>8, <1>9 DEF Below
<1>11. n = 0 BY <1>10, OneFrameN
<1>12. Unwind(acts) \in Seq(Act) /\ Len(Unwind(acts)) \in 0..0
  BY <1>1, <1>7, <1>9, <1>11, UnwindFacts
<1>13. Len(Unwind(acts)) = 0 BY SMT, <1>12
<1>14. Unwind(acts) = <<>> BY <1>12, <1>13, EmptyIs
<1> QED BY <1>14 DEF Async

\* What holds besides IInv when only entries wait for the host.
EffectInv == IInv /\ CalledAbove(frames) /\ SuspendsAtEffect

\* Every step keeps that only called functions lie above the lowest frame, and
\* that the guest waits while an effect is pending.
LEMMA EffectNext ==
  ASSUME AsyncAtEntry, Served, EffectInv, [Next]_vars
  PROVE  EffectInv'
<1> USE Zenon
<1>1. IInv /\ CalledAbove(frames) /\ (pending => status = "waiting")
  BY DEF EffectInv, SuspendsAtEffect
<1>2. IInv' BY <1>1, InvNext
<1>3. CalledAbove(frames') BY <1>1, CalledNext
<1>4. "idle" # "waiting" /\ "running" # "waiting" BY SMT
<1>5. pending' => status' = "waiting"
  <2>1. CASE Start
    <3>1. pending' = pending BY <1>1, <2>1, StartStep
    <3>2. status = "idle" BY SMT, <2>1 DEF Start
    <3> QED BY <1>1, <1>4, <3>1, <3>2
  <2>2. CASE Call \/ Op \/ Branch \/ FallBack \/ Return \/ Trap
    <3>1. status = "running" /\ pending' = pending BY SMT, <2>2 DEF Call, Op, Branch, FallBack, Return, Trap
    <3> QED BY <1>1, <1>4, <3>1
  <2>3. CASE Async BY <1>1, <2>3, AsyncWaits
  <2>4. CASE Answered
    <3>1. pending' = FALSE BY SMT, <2>4 DEF Answered
    <3> QED BY <3>1
  <2>5. CASE UNCHANGED vars
    <3>1. pending' = pending /\ status' = status BY SMT, <2>5 DEF vars, guestVars
    <3> QED BY <1>1, <3>1
  <2> QED BY <2>1, <2>2, <2>3, <2>4, <2>5 DEF Next, GuestStep
<1> QED BY <1>2, <1>3, <1>5 DEF EffectInv, SuspendsAtEffect

=============================================================================
