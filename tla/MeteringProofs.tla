--------------------------- MODULE MeteringProofs ---------------------------
(***************************************************************************)
(* The accounting of Metering holds for every chunk size, fuel value, bulk *)
(* size, nesting depth and number of set_fuel calls.                       *)
(***************************************************************************)
EXTENDS Metering, TLAPS

\* Everything published to the ledger: what was charged, less what the live
\* contexts have spent of reservations they still hold.
Published == spent - (ReservedTotal - BudgetTotal)

\* outer really is the sum over the enclosing contexts.
Stacked ==
  /\ depth > 0 => outer[1].reserved = 0 /\ outer[1].budget = 0
  /\ \A d \in 1..(depth - 1) :
       /\ outer[d + 1].reserved = outer[d].reserved + ctx[d].reserved
       /\ outer[d + 1].budget = outer[d].budget + ctx[d].budget
  /\ \A d \in 1..MaxDepth : ctx[d].budget <= ctx[d].reserved
  /\ \A d \in 1..MaxDepth : outer[d].budget <= outer[d].reserved

ConsumedInv ==
  /\ Published \in Nat
  /\ consumed = Lesser(Published, U64Max)

\* What is known of the current epoch.
EpochInv ==
  /\ since.fuel = Unlimited <=> limit = Unlimited
  /\ limit # Unlimited =>
       /\ since.fuel <= U64Max
       /\ since.ran + limit + BudgetTotal <= since.fuel + since.budget
  /\ since.depth <= 1 => since.budget <= Chunk
  /\ since.depth = 0 =>
       /\ since.consumed = Lesser(since.spent, U64Max)
       /\ since.spent <= Published
       /\ \A d \in 1..depth : ctx[d].budget = 0 \/ ctx[d].epoch = epoch
       /\ limit # Unlimited =>
            since.fuel + since.spent = limit + Published + ReservedTotal

IInv == TypeOK /\ Stacked /\ ConsumedInv /\ EpochInv
-----------------------------------------------------------------------------
\* Saturating the same sum twice is saturating it once.
LEMMA Saturation ==
  ASSUME NEW p \in Nat, NEW x \in Nat
  PROVE  SaturatingAdd(Lesser(p, U64Max), x) = Lesser(p + x, U64Max)
BY MeteringAssumption DEF SaturatingAdd, Lesser

\* A reservation is at most a chunk and never more than the ledger has.
LEMMA TakeBound ==
  ASSUME NEW l \in Nat \cup {Unlimited}
  PROVE  /\ Take(l) \in 0..Chunk
         /\ l # Unlimited => Take(l) <= l /\ Debit(l, Take(l)) = l - Take(l)
         /\ l = Unlimited => Debit(l, Take(l)) = Unlimited
BY MeteringAssumption DEF Take, Debit, Lesser

\* The fields of contexts have their types.
LEMMA ContextFields ==
  /\ NewContext \in Context
  /\ \A c \in Context : /\ c.reserved \in 0..Chunk /\ c.budget \in 0..Chunk
                        /\ c.epoch \in Nat
  /\ \A h \in Held : h.reserved \in Nat /\ h.budget \in Nat
BY MeteringAssumption DEF NewContext, Context, Held

\* The totals are natural numbers, and a slice that is under way has a context.
LEMMA Totals ==
  ASSUME TypeOK
  PROVE  /\ ReservedTotal \in Nat /\ BudgetTotal \in Nat
         /\ depth > 0 => /\ depth \in 1..MaxDepth
                         /\ Top \in Context
                         /\ outer[depth] \in Held
<1>1. CASE depth = 0
  BY <1>1 DEF ReservedTotal, BudgetTotal
<1>2. CASE depth > 0
  <2>1. depth \in 1..MaxDepth
    BY <1>2, MeteringAssumption DEF TypeOK
  <2>2. Top \in Context /\ outer[depth] \in Held
    BY <2>1 DEF TypeOK, Top
  <2>3. /\ Top.reserved \in Nat /\ Top.budget \in Nat
        /\ outer[depth].reserved \in Nat /\ outer[depth].budget \in Nat
    BY <2>2, ContextFields, MeteringAssumption
  <2> QED BY <1>2, <2>1, <2>2, <2>3 DEF ReservedTotal, BudgetTotal
<1> QED BY <1>1, <1>2, MeteringAssumption DEF TypeOK

\* No context has more budget than it reserved, and so neither have all together.
LEMMA TotalsOrdered ==
  ASSUME TypeOK, Stacked
  PROVE  /\ BudgetTotal <= ReservedTotal
         /\ depth > 0 => /\ Top.reserved \in 0..Chunk /\ Top.budget \in 0..Chunk
                         /\ Top.budget <= Top.reserved
                         /\ Top.reserved <= ReservedTotal /\ Top.budget <= BudgetTotal
                         /\ ReservedTotal - Top.reserved >= BudgetTotal - Top.budget
<1>1. CASE depth = 0
  BY <1>1 DEF ReservedTotal, BudgetTotal
<1>2. CASE depth > 0
  <2>1. depth \in 1..MaxDepth /\ Top \in Context /\ outer[depth] \in Held
    BY <1>2, Totals
  <2>2. Top.budget <= Top.reserved /\ outer[depth].budget <= outer[depth].reserved
    BY <2>1 DEF Stacked, Top
  <2> QED BY <1>2, <2>1, <2>2, ContextFields, MeteringAssumption DEF ReservedTotal, BudgetTotal
<1> QED BY <1>1, <1>2, MeteringAssumption DEF TypeOK

\* The initial states satisfy the invariant.
LEMMA InitInv == Init => IInv
<1> SUFFICES ASSUME Init PROVE IInv
  OBVIOUS
<1> USE MeteringAssumption DEF Init
<1>1. limit \in Nat \cup {Unlimited} /\ (limit # Unlimited => limit <= U64Max)
  BY DEF FiniteLimit
<1>2. [reserved |-> 0, budget |-> 0] \in Held
  BY DEF Held
<1>3. ReservedTotal = 0 /\ BudgetTotal = 0 /\ Published = 0
  BY DEF ReservedTotal, BudgetTotal, Published
<1>4. since = [fuel |-> limit, spent |-> 0, consumed |-> 0,
               budget |-> 0, depth |-> 0, ran |-> 0]
  BY <1>3 DEF Epoch
<1>5. TypeOK
  <2>1. since \in [fuel : Nat \cup {Unlimited}, spent : Nat, consumed : 0..U64Max,
                   budget : Nat, depth : 0..MaxDepth, ran : Nat]
    BY <1>1, <1>4
  <2>2. interrupted \in BOOLEAN
    BY Zenon
  <2>3. ctx \in [1..MaxDepth -> Context] /\ outer \in [1..MaxDepth -> Held]
    BY <1>2, ContextFields
  <2>4. consumed \in 0..U64Max /\ epoch \in Nat /\ depth \in 0..MaxDepth /\ spent \in Nat
    OBVIOUS
  <2> HIDE DEF Init
  <2> QED BY <1>1, <2>1, <2>2, <2>3, <2>4 DEF TypeOK
<1>6. Stacked
  BY <1>3 DEF Stacked, NewContext
<1>7. ConsumedInv
  BY <1>3 DEF ConsumedInv, Lesser
<1>8. EpochInv
  <2>1. /\ since.fuel = limit /\ since.spent = 0 /\ since.consumed = 0
        /\ since.budget = 0 /\ since.ran = 0
    BY <1>4
  <2> QED BY <1>1, <1>3, <2>1 DEF EpochInv, Lesser
<1> QED BY <1>5, <1>6, <1>7, <1>8 DEF IInv

\* Beginning a slice, which sets the outer context aside, keeps the invariant.
LEMMA BeginSliceInv == IInv /\ BeginSlice => IInv'
<1> SUFFICES ASSUME IInv, BeginSlice PROVE IInv'
  OBVIOUS
<1> USE MeteringAssumption DEF IInv
<1>1. ReservedTotal \in Nat /\ BudgetTotal \in Nat /\ depth + 1 \in 1..MaxDepth
  BY Totals DEF BeginSlice, TypeOK
<1>2. /\ ctx'[depth + 1] = NewContext
      /\ outer'[depth + 1] = [reserved |-> ReservedTotal, budget |-> BudgetTotal]
      /\ \A d \in 1..MaxDepth : d # depth + 1 => ctx'[d] = ctx[d] /\ outer'[d] = outer[d]
  BY <1>1 DEF BeginSlice, TypeOK
<1>3. ReservedTotal' = ReservedTotal /\ BudgetTotal' = BudgetTotal
  BY <1>1, <1>2 DEF BeginSlice, ReservedTotal, BudgetTotal, Top, NewContext, TypeOK
<1>4. TypeOK'
  <2>1. [reserved |-> ReservedTotal, budget |-> BudgetTotal] \in Held
    BY <1>1 DEF Held
  <2> QED BY <1>1, <2>1, ContextFields DEF TypeOK, BeginSlice
<1>5. Stacked'
  <2>1. depth' = depth + 1 /\ depth \in 0..MaxDepth
    BY DEF BeginSlice, TypeOK
  <2>2. outer'[1].reserved = 0 /\ outer'[1].budget = 0
    BY <1>1, <1>2, <2>1 DEF Stacked, ReservedTotal, BudgetTotal
  <2>3. ASSUME NEW d \in 1..depth
        PROVE  /\ outer'[d + 1].reserved = outer'[d].reserved + ctx'[d].reserved
               /\ outer'[d + 1].budget = outer'[d].budget + ctx'[d].budget
    <3>1. CASE d = depth
      BY <1>1, <1>2, <2>1, <3>1 DEF ReservedTotal, BudgetTotal, Top
    <3>2. CASE d # depth
      <4>1. d \in 1..(depth - 1) /\ d \in 1..MaxDepth /\ d + 1 \in 1..MaxDepth
            /\ d # depth + 1 /\ d + 1 # depth + 1
        BY <2>1, <3>2
      <4> QED BY <1>2, <4>1 DEF Stacked
    <3> QED BY <3>1, <3>2
  <2>4. \A d \in 1..MaxDepth : ctx'[d].budget <= ctx'[d].reserved
    BY <1>2, <2>1 DEF Stacked, NewContext
  <2>5. \A d \in 1..MaxDepth : outer'[d].budget <= outer'[d].reserved
    BY <1>1, <1>2, TotalsOrdered DEF Stacked
  <2> QED BY <2>1, <2>2, <2>3, <2>4, <2>5 DEF Stacked
<1>6. ConsumedInv'
  BY <1>3 DEF ConsumedInv, Published, BeginSlice
<1>7. EpochInv'
  <2>1. \A d \in 1..depth' : d \in 1..depth \/ ctx'[d].budget = 0
    BY <1>1, <1>2 DEF BeginSlice, TypeOK, NewContext
  <2>2. \A d \in 1..depth : ctx'[d] = ctx[d]
    BY <1>1, <1>2 DEF TypeOK
  <2> QED BY <1>3, <2>1, <2>2 DEF EpochInv, Published, BeginSlice
<1> QED BY <1>4, <1>5, <1>6, <1>7

\* Replacing the running context by c moves the totals by the difference.
LEMMA TopStep ==
  ASSUME IInv, depth > 0, NEW c \in Context, c.budget <= c.reserved, SetTop(c),
         depth' = depth, outer' = outer
  PROVE  /\ ctx' \in [1..MaxDepth -> Context]
         /\ Stacked'
         /\ ReservedTotal' = ReservedTotal - Top.reserved + c.reserved
         /\ BudgetTotal' = BudgetTotal - Top.budget + c.budget
         /\ ctx'[depth] = c
         /\ \A d \in 1..depth : d # depth => ctx'[d] = ctx[d]
<1> USE MeteringAssumption DEF IInv
<1>1. depth \in 1..MaxDepth /\ Top \in Context /\ outer[depth] \in Held
  BY Totals
<1>2. /\ ctx' \in [1..MaxDepth -> Context]
      /\ ctx'[depth] = c
      /\ \A d \in 1..MaxDepth : d # depth => ctx'[d] = ctx[d]
  BY <1>1 DEF SetTop, TypeOK
<1>3. /\ Top.reserved \in Nat /\ Top.budget \in Nat /\ Top.budget <= Top.reserved
      /\ c.reserved \in Nat /\ c.budget \in Nat
      /\ outer[depth].reserved \in Nat /\ outer[depth].budget \in Nat
  BY <1>1, ContextFields DEF Stacked, Top
<1>4. outer[depth].budget <= outer[depth].reserved
  BY <1>1 DEF Stacked
<1>5. /\ ReservedTotal' = outer[depth].reserved + c.reserved
      /\ BudgetTotal' = outer[depth].budget + c.budget
      /\ ReservedTotal = outer[depth].reserved + Top.reserved
      /\ BudgetTotal = outer[depth].budget + Top.budget
  BY <1>2 DEF ReservedTotal, BudgetTotal, Top
<1>6. Stacked'
  <2>1. \A d \in 1..(depth - 1) : d \in 1..MaxDepth /\ d # depth
    BY <1>1
  <2>2. \A d \in 1..MaxDepth : ctx'[d].budget <= ctx'[d].reserved
    BY <1>2 DEF Stacked
  <2> QED BY <1>2, <1>3, <1>4, <1>5, <2>1, <2>2 DEF Stacked
<1>7. \A d \in 1..depth : d # depth => ctx'[d] = ctx[d]
  BY <1>1, <1>2
<1> HIDE MeteringAssumption DEF IInv
<1>8. /\ ReservedTotal' = ReservedTotal - Top.reserved + c.reserved
      /\ BudgetTotal' = BudgetTotal - Top.budget + c.budget
  BY <1>3, <1>5
<1> QED BY <1>2, <1>6, <1>7, <1>8

\* Within an epoch it is enough that a step loses no fuel, mints no fuel and
\* leaves every runnable budget tagged with the epoch that granted it.
LEMMA EpochStep ==
  ASSUME IInv, TypeOK', Published' \in Nat, Published <= Published', epoch' = epoch,
         ReservedTotal' \in Nat, BudgetTotal' \in Nat,
         limit' = Unlimited <=> limit = Unlimited,
         limit # Unlimited =>
           /\ since'.ran + limit' + BudgetTotal' <= since.ran + limit + BudgetTotal
           /\ since.depth = 0 => limit' + Published' + ReservedTotal'
                                   = limit + Published + ReservedTotal,
         since.depth = 0 => \A d \in 1..depth' : ctx'[d].budget = 0 \/ ctx'[d].epoch = epoch,
         since'.fuel = since.fuel, since'.spent = since.spent,
         since'.consumed = since.consumed, since'.budget = since.budget,
         since'.depth = since.depth
  PROVE  EpochInv'
<1>1. /\ since.spent \in Nat /\ since.ran \in Nat /\ since.budget \in Nat
      /\ since.fuel \in Nat \cup {Unlimited} /\ since'.ran \in Nat
      /\ limit \in Nat \cup {Unlimited} /\ limit' \in Nat \cup {Unlimited}
  BY DEF IInv, TypeOK
<1>2. Published \in Nat /\ ReservedTotal \in Nat /\ BudgetTotal \in Nat
  BY Totals DEF IInv, ConsumedInv
<1>3. ASSUME limit' # Unlimited
      PROVE  /\ since'.fuel <= U64Max
             /\ since'.ran + limit' + BudgetTotal' <= since'.fuel + since'.budget
  <2>1. /\ since.fuel <= U64Max
        /\ since.ran + limit + BudgetTotal <= since.fuel + since.budget
        /\ since.fuel # Unlimited
    BY <1>3 DEF IInv, EpochInv
  <2>2. PICK a \in Nat, b \in Nat, f \in Nat :
          /\ a = since'.ran + limit' + BudgetTotal'
          /\ b = since.ran + limit + BudgetTotal
          /\ f = since'.fuel + since'.budget
    BY <1>1, <1>2, <1>3, <2>1
  <2>3. a <= b /\ b <= f
    BY <1>3, <2>1, <2>2
  <2> QED BY <2>1, <2>2, <2>3
<1>4. ASSUME since.depth = 0
      PROVE  /\ since'.consumed = Lesser(since'.spent, U64Max)
             /\ since'.spent <= Published'
             /\ limit' # Unlimited =>
                  since'.fuel + since'.spent = limit' + Published' + ReservedTotal'
  <2>1. since.consumed = Lesser(since.spent, U64Max) /\ since.spent <= Published
    BY <1>4 DEF IInv, EpochInv
  <2>2. limit' # Unlimited =>
          since'.fuel + since'.spent = limit' + Published' + ReservedTotal'
    BY <1>4 DEF IInv, EpochInv
  <2>3. since'.consumed = Lesser(since'.spent, U64Max) /\ since'.spent <= Published'
    BY <1>1, <1>2, <2>1
  <2> QED BY <2>2, <2>3
<1> QED BY <1>3, <1>4 DEF IInv, EpochInv

\* Charge counts n units of guest work and leaves the rest of since alone.
LEMMA ChargeFacts ==
  ASSUME TypeOK, NEW n \in Nat, Charge(n)
  PROVE  /\ spent' = spent + n
         /\ since' \in [fuel : Nat \cup {Unlimited}, spent : Nat, consumed : 0..U64Max,
                        budget : Nat, depth : 0..MaxDepth, ran : Nat]
         /\ since'.ran = since.ran + n
         /\ since'.fuel = since.fuel /\ since'.spent = since.spent
         /\ since'.consumed = since.consumed /\ since'.budget = since.budget
         /\ since'.depth = since.depth
<1>1. since.ran + n \in Nat
  BY DEF TypeOK
<1>2. since' = [since EXCEPT !.ran = since.ran + n] /\ spent' = spent + n
  BY DEF Charge
<1> QED BY <1>1, <1>2 DEF TypeOK

\* Stopping the running context without touching its reservation.
LEMMA RetagInv ==
  ASSUME IInv, depth > 0, NEW c \in Context, SetTop(c), c.budget = Top.budget,
         c.reserved = Top.reserved, c.epoch = Top.epoch,
         depth' = depth, outer' = outer, limit' = limit, consumed' = consumed,
         epoch' = epoch, spent' = spent, since' = since, interrupted' = interrupted
  PROVE  IInv'
<1> USE MeteringAssumption DEF IInv
<1>1. /\ Top.budget <= Top.reserved /\ ReservedTotal \in Nat /\ BudgetTotal \in Nat
      /\ Top.reserved \in Nat /\ Top.budget \in Nat
  BY Totals, TotalsOrdered
<1>2. /\ ctx' \in [1..MaxDepth -> Context] /\ Stacked'
      /\ ReservedTotal' = ReservedTotal /\ BudgetTotal' = BudgetTotal
      /\ ctx'[depth] = c
      /\ \A d \in 1..depth : d # depth => ctx'[d] = ctx[d]
  BY <1>1, TopStep
<1>3. TypeOK'
  BY <1>2 DEF TypeOK
<1>4. ConsumedInv'
  BY <1>2 DEF ConsumedInv, Published
<1>5. \A d \in 1..depth : ctx'[d].budget = ctx[d].budget /\ ctx'[d].epoch = ctx[d].epoch
  BY <1>2 DEF Top
<1>6. EpochInv'
  BY <1>2, <1>5 DEF EpochInv, Published
<1> QED BY <1>2, <1>3, <1>4, <1>6

\* Adding twice with saturation is adding the sum with saturation.
LEMMA SaturationTwice ==
  ASSUME NEW a \in Nat, NEW x \in Nat, NEW y \in Nat
  PROVE  SaturatingAdd(SaturatingAdd(a, x), y) = SaturatingAdd(a, x + y)
BY MeteringAssumption DEF SaturatingAdd, Lesser

\* An exchange with the ledger: the running context becomes c, x units are
\* published, y units are charged, n of them for guest work that now runs.
NewTop(c) ==
  /\ c \in Context /\ c.budget <= c.reserved /\ SetTop(c)
  /\ depth' = depth /\ outer' = outer /\ epoch' = epoch /\ interrupted' = interrupted

Publishes(c, x, y) ==
  /\ consumed' = SaturatingAdd(consumed, x)
  /\ spent' = spent + y
  /\ y + c.budget + Top.reserved = x + c.reserved + Top.budget

Conserved(c, x, n) ==
  /\ c.budget = 0 \/ c.epoch = epoch \/ (c.epoch = Top.epoch /\ Top.budget # 0)
  /\ limit = Unlimited => limit' = Unlimited
  /\ limit # Unlimited => /\ limit' \in Nat
                          /\ limit' + x + c.reserved = limit + Top.reserved
                          /\ n + limit' + c.budget <= limit + Top.budget

EpochType == [fuel : Nat \cup {Unlimited}, spent : Nat, consumed : 0..U64Max,
              budget : Nat, depth : 0..MaxDepth, ran : Nat]

Ran(n) ==
  /\ since' \in EpochType
  /\ since'.ran = since.ran + n
  /\ since'.fuel = since.fuel /\ since'.spent = since.spent
  /\ since'.consumed = since.consumed /\ since'.budget = since.budget
  /\ since'.depth = since.depth

\* A step that publishes a new context with the same total, less what ran, keeps
\* the invariant.
LEMMA LedgerInv ==
  ASSUME IInv, depth > 0, NEW c, NEW x \in Nat, NEW y \in Nat, NEW n \in Nat,
         NewTop(c), Publishes(c, x, y), Conserved(c, x, n), Ran(n)
  PROVE  IInv'
<1>1. /\ Top.reserved \in Nat /\ Top.budget \in Nat /\ Top.budget <= Top.reserved
      /\ Top.budget <= BudgetTotal /\ Top.reserved <= ReservedTotal
      /\ ReservedTotal \in Nat /\ BudgetTotal \in Nat
  BY Totals, TotalsOrdered, MeteringAssumption DEF IInv
<1>2. /\ spent \in Nat /\ consumed \in 0..U64Max /\ since.ran \in Nat
      /\ limit \in Nat \cup {Unlimited}
      /\ Published \in Nat /\ consumed = Lesser(Published, U64Max)
  BY DEF IInv, TypeOK, ConsumedInv
<1>3. c.reserved \in Nat /\ c.budget \in Nat
  BY ContextFields, MeteringAssumption DEF NewTop
<1>4. /\ ctx' \in [1..MaxDepth -> Context] /\ Stacked'
      /\ ReservedTotal' = ReservedTotal - Top.reserved + c.reserved
      /\ BudgetTotal' = BudgetTotal - Top.budget + c.budget
      /\ ctx'[depth] = c
      /\ \A d \in 1..depth : d # depth => ctx'[d] = ctx[d]
  BY TopStep DEF NewTop
<1>4b. /\ ReservedTotal' = ReservedTotal - Top.reserved + c.reserved
       /\ BudgetTotal' = BudgetTotal - Top.budget + c.budget
  BY <1>4
<1>5. ReservedTotal' \in Nat /\ BudgetTotal' \in Nat
  BY <1>1, <1>3, <1>4b
<1>6. Published' = Published + x
  BY <1>1, <1>2, <1>3, <1>4b DEF Published, Publishes
<1>7. consumed' = Lesser(Published', U64Max) /\ consumed' \in 0..U64Max
  <2>1. consumed' = Lesser(Published', U64Max)
    BY <1>2, <1>6, Saturation DEF Publishes
  <2> QED BY <1>2, <1>6, <2>1, MeteringAssumption DEF Lesser
<1>8. Published' \in Nat /\ Published <= Published'
  BY <1>2, <1>6
<1>9. TypeOK'
  <2>1. limit' \in Nat \cup {Unlimited}
    BY <1>2 DEF Conserved
  <2>2. spent' \in Nat
    BY <1>2 DEF Publishes
  <2> QED BY <1>4, <1>7, <2>1, <2>2 DEF IInv, TypeOK, NewTop, Ran, EpochType
<1>10. EpochInv'
  <2>1. ASSUME limit # Unlimited
        PROVE  /\ since'.ran + limit' + BudgetTotal' <= since.ran + limit + BudgetTotal
               /\ limit' + Published' + ReservedTotal' = limit + Published + ReservedTotal
    <3>1. /\ limit' \in Nat /\ limit \in Nat
          /\ limit' + x + c.reserved = limit + Top.reserved
          /\ n + limit' + c.budget <= limit + Top.budget
      BY <1>2, <2>1 DEF Conserved
    <3>2. since'.ran = since.ran + n
      BY DEF Ran
    <3>3. since'.ran + limit' + BudgetTotal' <= since.ran + limit + BudgetTotal
      BY <1>1, <1>2, <1>3, <1>4b, <3>1, <3>2
    <3>4. limit' + Published' + ReservedTotal' = limit + Published + ReservedTotal
      <4>1. ReservedTotal' + limit' + x = ReservedTotal + limit
        BY <1>1, <1>3, <1>4b, <3>1
      <4>2. limit' + (Published + x) + ReservedTotal' = limit + Published + ReservedTotal
        <5>1. \A p \in Nat : limit' + (p + x) + ReservedTotal' = limit + p + ReservedTotal
          <6>1. PICK l \in Nat, m \in Nat, t \in Nat, r \in Nat :
                  l = limit /\ m = limit' /\ t = ReservedTotal' /\ r = ReservedTotal
            BY <1>1, <1>5, <3>1
          <6>2. t + m + x = r + l
            BY <4>1, <6>1
          <6>3. \A p \in Nat : m + (p + x) + t = l + p + r
            BY <6>2
          <6> QED BY <6>1, <6>3
        <5> QED BY <1>2, <5>1
      <4> QED BY <1>6, <4>2
    <3> QED BY <3>3, <3>4
  <2>2. since.depth = 0 => \A d \in 1..depth' : ctx'[d].budget = 0 \/ ctx'[d].epoch = epoch
    <3>1. depth \in 1..depth
      BY MeteringAssumption DEF IInv, TypeOK
    <3> QED BY <1>4, <3>1 DEF IInv, EpochInv, NewTop, Conserved, Top
  <2>3. limit' = Unlimited <=> limit = Unlimited
    BY MeteringAssumption DEF Conserved
  <2> QED BY <1>4, <1>5, <1>8, <1>9, <2>1, <2>2, <2>3, EpochStep DEF Ran, NewTop
<1> QED BY <1>4, <1>7, <1>8, <1>9, <1>10 DEF IInv, ConsumedInv

\* What the running context is known to be.
LEMMA RunningTop ==
  ASSUME IInv, Running
  PROVE  /\ depth > 0 /\ Top \in Context
         /\ Top.reserved \in 0..Chunk /\ Top.budget \in 0..Chunk
         /\ Top.budget <= Top.reserved
         /\ limit \in Nat \cup {Unlimited} /\ spent \in Nat /\ consumed \in Nat
         /\ epoch \in Nat
BY Totals, TotalsOrdered, MeteringAssumption DEF IInv, Running, TypeOK

\* since is left alone or counts n more units.
LEMMA RanFacts ==
  ASSUME IInv
  PROVE  /\ since' = since => Ran(0)
         /\ \A n \in Nat : Charge(n) => Ran(n) /\ spent' = spent + n
<1>1. since \in EpochType /\ since.ran \in Nat
  BY DEF IInv, TypeOK, EpochType
<1>2. since' = since => Ran(0)
  BY <1>1 DEF Ran
<1>3. ASSUME NEW n \in Nat, Charge(n) PROVE Ran(n) /\ spent' = spent + n
  BY <1>3, ChargeFacts DEF Ran, EpochType, IInv
<1> QED BY <1>2, <1>3

\* Spending from the local counter keeps the invariant.
LEMMA SpendInv ==
  ASSUME IInv, NEW n \in Nat \ {0}, Spend(n)
  PROVE  IInv'
<1>1. /\ depth > 0 /\ Top \in Context /\ Top.budget >= n /\ depth \in 1..MaxDepth
      /\ Top.reserved \in Nat /\ Top.budget \in Nat /\ Top.budget <= Top.reserved
      /\ Top.budget <= BudgetTotal /\ ReservedTotal \in Nat /\ BudgetTotal \in Nat
  BY Totals, TotalsOrdered, MeteringAssumption DEF IInv, Spend, Running
<1>2. CASE Cancelled(Top)
  <2> DEFINE c == [Top EXCEPT !.outcome = "Cancelled"]
  <2>1. /\ c \in Context /\ c.budget = Top.budget /\ c.reserved = Top.reserved
        /\ c.epoch = Top.epoch
    BY <1>1 DEF Context
  <2>2. /\ SetTop(c) /\ depth' = depth /\ outer' = outer /\ limit' = limit
        /\ consumed' = consumed /\ epoch' = epoch /\ spent' = spent
        /\ since' = since /\ interrupted' = interrupted
    BY <1>2 DEF Spend, Stop
  <2> HIDE DEF c
  <2> QED BY <1>1, <2>1, <2>2, RetagInv
<1>3. CASE ~Cancelled(Top)
  <2> DEFINE c == [Top EXCEPT !.budget = @ - n]
  <2>1. /\ c \in Context /\ c.budget = Top.budget - n /\ c.reserved = Top.reserved
        /\ c.epoch = Top.epoch
    BY <1>1, ContextFields, MeteringAssumption DEF Context
  <2>2. /\ SetTop(c) /\ depth' = depth /\ outer' = outer /\ limit' = limit
        /\ consumed' = consumed /\ epoch' = epoch /\ Charge(n)
        /\ interrupted' = interrupted
    BY <1>3 DEF Spend
  <2> HIDE DEF c
  <2>3. NewTop(c)
    BY <1>1, <2>1, <2>2 DEF NewTop
  <2>4. SaturatingAdd(consumed, 0) = consumed
    BY MeteringAssumption DEF SaturatingAdd, Lesser, IInv, TypeOK
  <2>5. Publishes(c, 0, n) /\ Ran(n)
    BY <1>1, <2>1, <2>2, <2>4, RanFacts DEF Publishes
  <2>6. Conserved(c, 0, n)
    BY <1>1, <2>1, <2>2 DEF Conserved, IInv, TypeOK
  <2> QED BY <1>1, <2>3, <2>5, <2>6, LedgerInv
<1> QED BY <1>2, <1>3

\* Refilling the local counter keeps the invariant.
LEMMA RefillInv == ASSUME IInv, Refill PROVE IInv'
<1> DEFINE take  == Take(limit)
           empty == [Top EXCEPT !.reserved = 0, !.budget = 0]
<1>1. /\ depth > 0 /\ Top \in Context /\ Top.budget = 0 /\ Top.reserved \in Nat
      /\ limit \in Nat \cup {Unlimited} /\ spent \in Nat /\ epoch \in Nat
  BY RunningTop, MeteringAssumption DEF Refill
<1>2. /\ depth' = depth /\ outer' = outer /\ epoch' = epoch /\ interrupted' = interrupted
      /\ consumed' = SaturatingAdd(consumed, Top.reserved)
  BY DEF Refill
<1>3. ASSUME NEW why \in {"FuelExhausted", "Cancelled"},
             Stop(empty, why), UNCHANGED <<limit, spent, since>>
      PROVE  IInv'
  <2> DEFINE c == [empty EXCEPT !.outcome = why]
  <2>1. /\ c \in Context /\ c.budget = 0 /\ c.reserved = 0 /\ SetTop(c)
    BY <1>1, <1>3, MeteringAssumption DEF Context, Stop
  <2> HIDE DEF c
  <2>2. NewTop(c)
    BY <1>2, <2>1 DEF NewTop
  <2>3. Publishes(c, Top.reserved, 0)
    BY <1>1, <1>2, <1>3, <2>1 DEF Publishes
  <2>4. Conserved(c, Top.reserved, 0)
    BY <1>1, <1>3, <2>1 DEF Conserved
  <2>5. Ran(0)
    BY <1>3, RanFacts
  <2> QED BY <1>1, <2>2, <2>3, <2>4, <2>5, LedgerInv
<1>4. ASSUME take # 0, limit' = Debit(limit, take), Charge(1),
             SetTop([empty EXCEPT !.reserved = take, !.budget = take - 1, !.epoch = epoch])
      PROVE  IInv'
  <2> DEFINE c == [empty EXCEPT !.reserved = take, !.budget = take - 1, !.epoch = epoch]
  <2>1. take \in 1..Chunk /\ take - 1 \in 0..Chunk /\ take \in 0..Chunk /\ 0 \in 0..Chunk
    BY <1>1, <1>4, TakeBound, MeteringAssumption
  <2>2. /\ limit = Unlimited => limit' = Unlimited
        /\ limit # Unlimited => limit' = limit - take /\ take <= limit
    BY <1>1, <1>4, TakeBound
  <2> HIDE DEF take
  <2>3. /\ c \in Context /\ c.budget = take - 1 /\ c.reserved = take
        /\ c.epoch = epoch /\ SetTop(c)
    BY <1>1, <1>4, <2>1 DEF Context
  <2> HIDE DEF c
  <2>4. NewTop(c)
    BY <1>2, <2>1, <2>3, MeteringAssumption DEF NewTop
  <2>5. Publishes(c, Top.reserved, 1) /\ Ran(1)
    BY <1>1, <1>2, <1>4, <2>1, <2>3, RanFacts, MeteringAssumption DEF Publishes
  <2>6. Conserved(c, Top.reserved, 1)
    BY <1>1, <2>1, <2>2, <2>3, MeteringAssumption DEF Conserved
  <2> QED BY <1>1, <2>4, <2>5, <2>6, LedgerInv
<1> QED BY <1>3, <1>4 DEF Refill

\* Charging several instructions at once keeps the invariant.
LEMMA ChargeNInv ==
  ASSUME IInv, NEW n \in Nat \ {0}, ChargeN(n)
  PROVE  IInv'
<1> DEFINE additional == n - Top.budget
           left == Debit(limit, additional)
<1>1. /\ depth > 0 /\ Top \in Context
      /\ Top.reserved \in Nat /\ Top.budget \in Nat /\ Top.budget <= Top.reserved
      /\ limit \in Nat \cup {Unlimited} /\ spent \in Nat /\ epoch \in Nat
      /\ consumed \in Nat
  BY RunningTop, MeteringAssumption DEF ChargeN
<1>2. /\ depth' = depth /\ outer' = outer /\ epoch' = epoch /\ interrupted' = interrupted
      /\ additional \in Nat
  BY <1>1 DEF ChargeN
<1> HIDE DEF additional
<1>3. ASSUME ~Covers(limit, additional),
             consumed' = SaturatingAdd(SaturatingAdd(consumed, Top.reserved), limit),
             limit' = 0, spent' = spent + Top.budget + limit, since' = since,
             SetTop([Top EXCEPT !.reserved = 0, !.budget = 0, !.epoch = epoch,
                                !.outcome = "FuelExhausted"])
      PROVE  IInv'
  <2> DEFINE c == [Top EXCEPT !.reserved = 0, !.budget = 0, !.epoch = epoch,
                              !.outcome = "FuelExhausted"]
  <2>0. 0 \in 0..Chunk
    BY MeteringAssumption
  <2>1. c \in Context /\ c.budget = 0 /\ c.reserved = 0 /\ SetTop(c)
    BY <1>1, <1>3, <2>0 DEF Context
  <2> HIDE DEF c
  <2>2. limit \in Nat
    BY <1>1, <1>3 DEF Covers
  <2>3. NewTop(c)
    BY <1>2, <2>1 DEF NewTop
  <2>4. consumed' = SaturatingAdd(consumed, Top.reserved + limit)
    BY <1>1, <1>3, <2>2, SaturationTwice
  <2>5. Publishes(c, Top.reserved + limit, Top.budget + limit)
    BY <1>1, <1>3, <2>1, <2>2, <2>4 DEF Publishes
  <2>6. Conserved(c, Top.reserved + limit, 0)
    BY <1>1, <1>3, <2>1, <2>2, MeteringAssumption DEF Conserved
  <2>7. Ran(0)
    BY <1>3, RanFacts
  <2>8. Top.reserved + limit \in Nat /\ Top.budget + limit \in Nat
    BY <1>1, <2>2
  <2> QED BY <1>1, <2>3, <2>5, <2>6, <2>7, <2>8, LedgerInv
<1>4. ASSUME Stop(Top, "Cancelled"), UNCHANGED <<limit, consumed, spent, since>>
      PROVE  IInv'
  <2> DEFINE c == [Top EXCEPT !.outcome = "Cancelled"]
  <2>1. /\ c \in Context /\ c.budget = Top.budget /\ c.reserved = Top.reserved
        /\ c.epoch = Top.epoch /\ SetTop(c)
    BY <1>1, <1>4 DEF Context, Stop
  <2> HIDE DEF c
  <2> QED BY <1>1, <1>2, <1>4, <2>1, RetagInv
<1>5. ASSUME Covers(limit, additional), Charge(n),
             consumed' = SaturatingAdd(SaturatingAdd(consumed, Top.reserved), additional),
             limit' = Debit(left, Take(left)),
             SetTop([Top EXCEPT !.reserved = Take(left), !.budget = Take(left),
                                !.epoch = epoch])
      PROVE  IInv'
  <2> DEFINE take == Take(left)
             c == [Top EXCEPT !.reserved = take, !.budget = take, !.epoch = epoch]
  <2>1. /\ limit = Unlimited => left = Unlimited
        /\ limit # Unlimited => left \in Nat /\ left = limit - additional
    BY <1>1, <1>2, <1>5 DEF Covers, Debit
  <2> HIDE DEF left
  <2>2. /\ take \in 0..Chunk
        /\ limit = Unlimited => limit' = Unlimited
        /\ limit # Unlimited => limit' = left - take /\ take <= left
    BY <1>1, <1>5, <2>1, TakeBound, MeteringAssumption
  <2> HIDE DEF take
  <2>3. /\ c \in Context /\ c.budget = take /\ c.reserved = take
        /\ c.epoch = epoch /\ SetTop(c)
    BY <1>1, <1>5, <2>2 DEF Context, take
  <2> HIDE DEF c
  <2>4. NewTop(c)
    BY <1>2, <2>2, <2>3, MeteringAssumption DEF NewTop
  <2>5. consumed' = SaturatingAdd(consumed, Top.reserved + additional)
    BY <1>1, <1>2, <1>5, SaturationTwice
  <2>6. Publishes(c, Top.reserved + additional, n) /\ Ran(n)
    BY <1>1, <1>2, <1>5, <2>2, <2>3, <2>5, RanFacts, MeteringAssumption
       DEF Publishes, additional
  <2>7. Conserved(c, Top.reserved + additional, n)
    BY <1>1, <1>2, <2>1, <2>2, <2>3, MeteringAssumption DEF Conserved, additional
  <2>8. Top.reserved + additional \in Nat
    BY <1>1, <1>2
  <2> QED BY <1>1, <2>4, <2>6, <2>7, <2>8, LedgerInv
<1> HIDE DEF left
<1> QED BY <1>3, <1>4, <1>5 DEF ChargeN, additional, left

\* The running context ends: the enclosing one is on top again and holds what
\* outer recorded when the slice began.
LEMMA Unwound ==
  ASSUME IInv, EndSlice
  PROVE  /\ ctx' \in [1..MaxDepth -> Context]
         /\ Stacked'
         /\ ReservedTotal' = ReservedTotal - Top.reserved
         /\ BudgetTotal' = BudgetTotal - Top.budget
         /\ \A d \in 1..depth' : d \in 1..depth /\ ctx'[d] = ctx[d]
<1>1. /\ depth \in 1..MaxDepth /\ Top \in Context /\ outer[depth] \in Held
      /\ depth' = depth - 1 /\ outer' = outer /\ MaxDepth \in Nat
  BY Totals, MeteringAssumption DEF IInv, EndSlice
<1>2. /\ ctx' \in [1..MaxDepth -> Context]
      /\ ctx'[depth] = NewContext
      /\ \A d \in 1..MaxDepth : d # depth => ctx'[d] = ctx[d]
  BY <1>1, ContextFields DEF EndSlice, SetTop, IInv, TypeOK
<1>3. \A d \in 1..(depth - 1) : d \in 1..depth /\ d \in 1..MaxDepth /\ d # depth
  BY <1>1
<1>4. Stacked'
  <2>1. \A d \in 1..(depth' - 1) : d \in 1..(depth - 1)
    BY <1>1
  <2>2. \A d \in 1..MaxDepth : ctx'[d].budget <= ctx'[d].reserved
    BY <1>2 DEF IInv, Stacked, NewContext
  <2>3. depth > 0
    BY <1>1
  <2> QED BY <1>1, <1>2, <1>3, <2>1, <2>2, <2>3 DEF IInv, Stacked
<1>5. /\ Top.reserved \in Nat /\ Top.budget \in Nat
      /\ outer[depth].reserved \in Nat /\ outer[depth].budget \in Nat
  BY <1>1, ContextFields, MeteringAssumption
<1>6. /\ ReservedTotal - Top.reserved = outer[depth].reserved
      /\ BudgetTotal - Top.budget = outer[depth].budget
  BY <1>1, <1>5 DEF ReservedTotal, BudgetTotal
<1>7. ReservedTotal' = outer[depth].reserved /\ BudgetTotal' = outer[depth].budget
  <2>1. CASE depth = 1
    BY <1>1, <2>1 DEF IInv, Stacked, ReservedTotal, BudgetTotal
  <2>2. CASE depth # 1
    <3>1. depth - 1 \in 1..(depth - 1) /\ (depth - 1) + 1 = depth /\ depth - 1 # 0
      BY <1>1, <2>2
    <3>2. ctx'[depth - 1] = ctx[depth - 1]
      BY <1>2, <1>3, <3>1
    <3>3. /\ outer[depth].reserved = outer[depth - 1].reserved + ctx[depth - 1].reserved
          /\ outer[depth].budget = outer[depth - 1].budget + ctx[depth - 1].budget
      BY <3>1 DEF IInv, Stacked
    <3> QED BY <1>1, <3>1, <3>2, <3>3 DEF ReservedTotal, BudgetTotal, Top
  <2> QED BY <2>1, <2>2
<1> QED BY <1>1, <1>2, <1>3, <1>4, <1>6, <1>7

\* In an epoch that began on an idle store a refund cannot saturate.
LEMMA LimitBound ==
  ASSUME IInv, since.depth = 0, limit # Unlimited
  PROVE  limit + ReservedTotal <= U64Max /\ ReservedTotal \in Nat /\ limit \in Nat
<1>1. /\ since.fuel <= U64Max /\ since.spent <= Published
      /\ since.fuel + since.spent = limit + Published + ReservedTotal
  BY DEF IInv, EpochInv
<1>2. since.fuel \in Nat /\ since.spent \in Nat /\ limit \in Nat
  BY DEF IInv, EpochInv, TypeOK
<1>3. ReservedTotal \in Nat /\ Published \in Nat
  BY Totals DEF IInv, ConsumedInv
<1> QED BY <1>1, <1>2, <1>3, MeteringAssumption

\* Ending a slice, which gives the rest back and restores the outer context,
\* keeps the invariant.
LEMMA EndSliceInv == ASSUME IInv, EndSlice PROVE IInv'
<1>1. /\ ctx' \in [1..MaxDepth -> Context] /\ Stacked'
      /\ \A d \in 1..depth' : d \in 1..depth /\ ctx'[d] = ctx[d]
  BY Unwound
<1>2. /\ ReservedTotal' = ReservedTotal - Top.reserved
      /\ BudgetTotal' = BudgetTotal - Top.budget
  BY Unwound
<1>3. /\ Top.reserved \in Nat /\ Top.budget \in Nat /\ Top.budget <= Top.reserved
      /\ Top.reserved <= ReservedTotal /\ Top.budget <= BudgetTotal
      /\ ReservedTotal \in Nat /\ BudgetTotal \in Nat
  BY Totals, TotalsOrdered, MeteringAssumption DEF IInv, EndSlice
<1>4. /\ limit \in Nat \cup {Unlimited} /\ spent \in Nat /\ Published \in Nat
      /\ consumed = Lesser(Published, U64Max)
  BY DEF IInv, TypeOK, ConsumedInv
<1>5. Published' = Published + SpentPart(Top) /\ SpentPart(Top) \in Nat
  BY <1>2, <1>3, <1>4 DEF Published, SpentPart, EndSlice
<1>6. Published' \in Nat /\ Published <= Published'
  BY <1>4, <1>5
<1>7. consumed' = Lesser(Published', U64Max)
  BY <1>4, <1>5, Saturation DEF EndSlice
<1>8. consumed' \in 0..U64Max
  BY <1>6, <1>7, MeteringAssumption DEF Lesser
<1>9. /\ limit = Unlimited => limit' = Unlimited
      /\ limit # Unlimited => limit' \in Nat /\ limit' <= limit + Top.budget
      /\ limit # Unlimited /\ Top.epoch # epoch => limit' = limit
      /\ limit # Unlimited /\ Top.epoch = epoch =>
           limit' = Lesser(limit + Top.budget, U64Max)
  BY <1>3, <1>4, MeteringAssumption DEF EndSlice, Refund, SaturatingAdd, Lesser
<1>10. TypeOK'
  <2>1. limit' \in Nat \cup {Unlimited}
    BY <1>4, <1>9
  <2>2. depth' \in 0..MaxDepth
    BY MeteringAssumption DEF EndSlice, IInv, TypeOK
  <2> QED BY <1>1, <1>8, <2>1, <2>2 DEF EndSlice, IInv, TypeOK
<1>11. EpochInv'
  <2>1. ASSUME limit # Unlimited
        PROVE  since'.ran + limit' + BudgetTotal' <= since.ran + limit + BudgetTotal
    <3>1. since'.ran = since.ran /\ since.ran \in Nat
      BY DEF EndSlice, IInv, TypeOK
    <3> QED BY <1>2, <1>3, <1>4, <1>9, <2>1, <3>1
  <2>2. ASSUME limit # Unlimited, since.depth = 0
        PROVE  limit' + Published' + ReservedTotal' = limit + Published + ReservedTotal
    <3>1. limit' = limit + Top.budget
      <4>1. CASE Top.budget = 0
        <5>1. limit + ReservedTotal <= U64Max /\ limit \in Nat
          BY <2>2, LimitBound, Zenon
        <5> QED BY <1>3, <1>4, <1>9, <2>2, <4>1, <5>1, MeteringAssumption DEF Lesser
      <4>2. CASE Top.budget # 0
        <5>1. Top.epoch = epoch
          BY <2>2, <4>2, MeteringAssumption DEF IInv, EpochInv, TypeOK, EndSlice, Top
        <5>2. limit + ReservedTotal <= U64Max /\ limit \in Nat
          BY <2>2, LimitBound, Zenon
        <5> QED BY <1>3, <1>4, <1>9, <2>2, <5>1, <5>2, MeteringAssumption DEF Lesser
      <4> QED BY <4>1, <4>2
    <3>2. limit \in Nat
      BY <1>4, <2>2
    <3>3. ReservedTotal' \in Nat /\ limit' \in Nat
      BY <1>2, <1>3, <3>1, <3>2
    <3>4. ReservedTotal' + limit' + SpentPart(Top) = ReservedTotal + limit
      BY <1>2, <1>3, <3>1, <3>2 DEF SpentPart
    <3>5. limit' + (Published + SpentPart(Top)) + ReservedTotal'
            = limit + Published + ReservedTotal
      <4>1. \A p \in Nat : limit' + (p + SpentPart(Top)) + ReservedTotal'
                              = limit + p + ReservedTotal
        <5>1. PICK l \in Nat, m \in Nat, t \in Nat, r \in Nat, x \in Nat :
                /\ l = limit /\ m = limit' /\ t = ReservedTotal' /\ r = ReservedTotal
                /\ x = SpentPart(Top)
          BY <1>3, <1>5, <3>2, <3>3
        <5>2. t + m + x = r + l
          BY <3>4, <5>1
        <5>3. \A p \in Nat : m + (p + x) + t = l + p + r
          BY <5>2
        <5> QED BY <5>1, <5>3
      <4> QED BY <1>4, <4>1
    <3> QED BY <1>5, <3>5
  <2>3. since.depth = 0 => \A d \in 1..depth' : ctx'[d].budget = 0 \/ ctx'[d].epoch = epoch
    BY <1>1 DEF IInv, EpochInv
  <2>4. limit' = Unlimited <=> limit = Unlimited
    BY <1>9, MeteringAssumption
  <2>5. ReservedTotal' \in Nat /\ BudgetTotal' \in Nat
    BY <1>2, <1>3
  <2> QED BY <1>6, <1>10, <2>1, <2>2, <2>3, <2>4, <2>5, EpochStep DEF EndSlice
<1> QED BY <1>1, <1>6, <1>7, <1>10, <1>11 DEF IInv, ConsumedInv

\* Setting the fuel keeps the invariant.
LEMMA SetFuelInv ==
  ASSUME IInv, NEW fuel \in Fuels, SetFuel(fuel)
  PROVE  IInv'
<1>1. /\ ReservedTotal' = ReservedTotal /\ BudgetTotal' = BudgetTotal
      /\ Published' = Published
  BY DEF SetFuel, ReservedTotal, BudgetTotal, Published, Top
<1>2. Stacked' /\ ConsumedInv'
  BY <1>1 DEF IInv, Stacked, ConsumedInv, SetFuel
<1>3. /\ limit' \in Nat \cup {Unlimited}
      /\ limit' # Unlimited => limit' <= U64Max
      /\ limit' = FiniteLimit(fuel)
  BY MeteringAssumption DEF SetFuel, FiniteLimit
<1>4. /\ since'.fuel = limit' /\ since'.spent = spent /\ since'.consumed = consumed
      /\ since'.budget = BudgetTotal /\ since'.depth = depth /\ since'.ran = 0
      /\ since' \in EpochType
  BY <1>3, Totals DEF SetFuel, Epoch, EpochType, IInv, TypeOK
<1>5. TypeOK'
  BY <1>3, <1>4 DEF SetFuel, IInv, TypeOK, EpochType
<1>6. ASSUME depth <= 1 PROVE BudgetTotal <= Chunk
  <2>1. depth = 0 \/ depth = 1
    BY <1>6, MeteringAssumption DEF IInv, TypeOK
  <2>2. CASE depth = 0
    BY <2>2, MeteringAssumption DEF BudgetTotal
  <2>3. CASE depth = 1
    BY <2>3, TotalsOrdered, MeteringAssumption DEF IInv, Stacked, BudgetTotal
  <2> QED BY <2>1, <2>2, <2>3
<1>7. ASSUME depth = 0
      PROVE  ReservedTotal = 0 /\ Published = spent /\ consumed = Lesser(spent, U64Max)
  BY <1>7 DEF ReservedTotal, BudgetTotal, Published, IInv, ConsumedInv, TypeOK
<1>8. EpochInv'
  <2>1. limit' # Unlimited =>
          since'.ran + limit' + BudgetTotal' <= since'.fuel + since'.budget
    <3>1. BudgetTotal \in Nat
      BY Totals DEF IInv
    <3> QED BY <1>1, <1>3, <1>4, <3>1
  <2>2. since'.depth <= 1 => since'.budget <= Chunk
    BY <1>4, <1>6
  <2>3. ASSUME since'.depth = 0
        PROVE  /\ since'.consumed = Lesser(since'.spent, U64Max)
               /\ since'.spent <= Published'
               /\ limit' # Unlimited =>
                    since'.fuel + since'.spent = limit' + Published' + ReservedTotal'
    BY <1>1, <1>3, <1>4, <1>7, <2>3 DEF IInv, TypeOK
  <2>4. since'.depth = 0 => \A d \in 1..depth' : FALSE
    BY <1>4 DEF SetFuel
  <2> QED BY <1>3, <1>4, <2>1, <2>2, <2>3, <2>4 DEF EpochInv
<1> QED BY <1>2, <1>5, <1>8 DEF IInv

\* A step that touches at most the cancellation flag.
LEMMA FlagInv ==
  ASSUME IInv, interrupted' \in BOOLEAN,
         UNCHANGED <<limit, consumed, epoch, depth, ctx, outer, spent, since>>
  PROVE  IInv'
<1>1. /\ ReservedTotal' = ReservedTotal /\ BudgetTotal' = BudgetTotal
      /\ Published' = Published
  BY DEF ReservedTotal, BudgetTotal, Published, Top
<1> QED BY <1>1 DEF IInv, TypeOK, Stacked, ConsumedInv, EpochInv

\* Every step keeps the invariant.
LEMMA NextInv == IInv /\ [Next]_vars => IInv'
<1> SUFFICES ASSUME IInv, [Next]_vars PROVE IInv'
  OBVIOUS
<1>1. CASE BeginSlice
  BY <1>1, BeginSliceInv
<1>2. CASE GuestStep
  BY <1>2, SpendInv, RefillInv, ChargeNInv, MeteringAssumption DEF GuestStep
<1>3. CASE EndSlice
  BY <1>3, EndSliceInv
<1>4. CASE \E fuel \in Fuels : SetFuel(fuel)
  BY <1>4, SetFuelInv
<1>5. CASE Interrupt
  BY <1>5, FlagInv DEF Interrupt
<1>6. CASE ResetInterrupt
  BY <1>6, FlagInv DEF ResetInterrupt
<1>7. CASE UNCHANGED vars
  BY <1>7, FlagInv DEF vars, IInv, TypeOK
<1> QED BY <1>1, <1>2, <1>3, <1>4, <1>5, <1>6, <1>7 DEF Next
-----------------------------------------------------------------------------
\* The inductive invariant holds in every reachable state.
THEOREM Invariance == Spec => []IInv
BY InitInv, NextInv, PTL DEF Spec

\* Every variable keeps its type; no context ever holds more than one chunk.
THEOREM TypeCorrect == Spec => []TypeOK
<1>1. IInv => TypeOK
  BY DEF IInv
<1> QED BY <1>1, Invariance, PTL

\* fuel_consumed accounts for every unit charged, for every schedule of refills,
\* bulk charges, nested calls, stops and set_fuel calls.
THEOREM ConsumedIsExact == Spec => []ConsumedExact
<1>1. IInv => ConsumedExact
  BY DEF IInv, ConsumedInv, Published, ConsumedExact
<1> QED BY <1>1, Invariance, PTL

\* No fuel is lost or minted in an epoch that began on an idle store, however
\* deep the calls nest.
THEOREM FuelIsConserved == Spec => []Conservation
<1>1. ASSUME IInv PROVE Conservation
  <2> SUFFICES ASSUME since.depth = 0, limit # Unlimited, consumed < U64Max
               PROVE  since.fuel = limit + (consumed - since.consumed) + ReservedTotal
    BY DEF Conservation
  <2>1. /\ since.consumed = Lesser(since.spent, U64Max) /\ since.spent <= Published
        /\ since.fuel + since.spent = limit + Published + ReservedTotal
        /\ consumed = Lesser(Published, U64Max)
    BY <1>1 DEF IInv, EpochInv, ConsumedInv
  <2>2. /\ since.fuel \in Nat /\ since.spent \in Nat /\ Published \in Nat
        /\ limit \in Nat /\ ReservedTotal \in Nat
    BY <1>1, Totals DEF IInv, TypeOK, EpochInv, ConsumedInv
  <2>3. consumed = Published /\ since.consumed = since.spent
    BY <2>1, <2>2, MeteringAssumption DEF Lesser
  <2>4. PICK f \in Nat, s \in Nat, p \in Nat, l \in Nat, r \in Nat :
          /\ f = since.fuel /\ s = since.spent /\ p = Published
          /\ l = limit /\ r = ReservedTotal
    BY <2>2
  <2>5. f + s = l + p + r
    BY <2>1, <2>4
  <2>6. f = l + (p - s) + r
    BY <2>5
  <2> QED BY <2>3, <2>4, <2>6
<1> QED BY <1>1, Invariance, PTL

\* After set_fuel(n) at most n units plus the budgets live at that moment run.
THEOREM OverrunIsBounded == Spec => []OverrunBounded
<1>1. ASSUME IInv PROVE OverrunBounded
  <2> SUFFICES ASSUME limit # Unlimited PROVE since.ran <= since.fuel + since.budget
    BY DEF OverrunBounded
  <2>1. since.ran + limit + BudgetTotal <= since.fuel + since.budget
    BY <1>1 DEF IInv, EpochInv
  <2>2. /\ since.ran \in Nat /\ since.fuel \in Nat /\ since.budget \in Nat
        /\ limit \in Nat /\ BudgetTotal \in Nat
    BY <1>1, Totals DEF IInv, TypeOK, EpochInv
  <2> QED BY <2>1, <2>2
<1> QED BY <1>1, Invariance, PTL

\* No checkpoint admits guest work while cancellation is requested.
THEOREM InterruptedDoesNoWork == Spec => NoWorkWhenInterrupted
<1>1. ASSUME IInv, [Next]_vars PROVE [since'.ran > since.ran => ~interrupted]_vars
  <2> SUFFICES ASSUME Next, since'.ran > since.ran, interrupted PROVE FALSE
    BY <1>1
  <2>1. since.ran \in Nat /\ ~(since.ran > since.ran)
    BY <1>1 DEF IInv, TypeOK
  <2>2. CASE GuestStep
    <3>1. Running
      BY <2>2 DEF GuestStep, Spend, Refill, ChargeN
    <3>2. Top.reserved \in Nat /\ Top.budget \in Nat /\ Top.budget <= Top.reserved
      BY <1>1, <3>1, RunningTop, MeteringAssumption
    <3>3. since' # since
      BY <2>1
    <3>4. ASSUME NEW n \in Nat \ {0}, Spend(n) PROVE FALSE
      BY <3>2, <3>3, <3>4 DEF Spend, Cancelled
    <3>5. ASSUME NEW n \in Nat, ChargeN(n) PROVE FALSE
      BY <3>3, <3>5 DEF ChargeN
    <3>6. ASSUME Refill PROVE FALSE
      BY <3>3, <3>6 DEF Refill
    <3> QED BY <2>2, <3>4, <3>5, <3>6, MeteringAssumption DEF GuestStep
  <2>3. CASE \E fuel \in Fuels : SetFuel(fuel)
    <3>1. since'.ran = 0
      BY <2>3 DEF SetFuel, Epoch
    <3> QED BY <2>1, <3>1
  <2>4. CASE since' = since
    BY <2>1, <2>4
  <2> QED BY <2>2, <2>3, <2>4 DEF Next, BeginSlice, EndSlice, Interrupt, ResetInterrupt
<1> QED BY <1>1, Invariance, PTL DEF Spec, NoWorkWhenInterrupted

-----------------------------------------------------------------------------
(* What the contexts can still give back to the epoch that is current: only    *)
(* the budgets that this epoch granted, wherever on the stack they are held.   *)

FreshOf(c) == IF c.epoch = epoch THEN c.budget ELSE 0

\* g[d] is the sum over the d outermost contexts.
Sums(g) ==
  /\ g \in [0..MaxDepth -> Nat] /\ g[0] = 0
  /\ \A d \in 1..depth : g[d] = g[d - 1] + FreshOf(ctx[d])

Backed(g) == limit # Unlimited => limit + g[depth] <= since.fuel

FreshInv ==
  /\ \A d \in 1..MaxDepth : ctx[d].epoch <= epoch
  /\ \E g : Sums(g) /\ Backed(g)

\* The types that the following steps need.
LEMMA FreshTypes ==
  ASSUME IInv
  PROVE  /\ depth \in 0..MaxDepth /\ MaxDepth \in Nat /\ epoch \in Nat
         /\ ctx \in [1..MaxDepth -> Context] /\ \A c \in Context : c.budget \in Nat /\ c.epoch \in Nat
         /\ limit # Unlimited => limit \in Nat /\ since.fuel \in Nat
BY MeteringAssumption, ContextFields DEF IInv, TypeOK, EpochInv

\* The running context becomes c, and the ledger gets no more than it gives.
LEMMA FreshTop ==
  ASSUME IInv, FreshInv, depth > 0, NEW c \in Context, SetTop(c), c.epoch <= epoch,
         depth' = depth, epoch' = epoch, since'.fuel = since.fuel,
         limit' # Unlimited => /\ limit # Unlimited /\ limit' \in Nat
                               /\ limit' + FreshOf(c) <= limit + FreshOf(Top)
  PROVE  FreshInv'
<1>1. /\ depth \in 0..MaxDepth /\ MaxDepth \in Nat /\ epoch \in Nat
      /\ ctx \in [1..MaxDepth -> Context] /\ \A b \in Context : b.budget \in Nat /\ b.epoch \in Nat
      /\ limit # Unlimited => limit \in Nat /\ since.fuel \in Nat
  BY FreshTypes
<1>2. depth \in 1..MaxDepth
  BY <1>1
<1>3. ctx' = [ctx EXCEPT ![depth] = c]
  BY DEF SetTop
<1>4. ctx'[depth] = c /\ \A d \in 1..MaxDepth : d # depth => ctx'[d] = ctx[d]
  BY <1>1, <1>2, <1>3
<1>5. \A d \in 1..MaxDepth : ctx'[d].epoch <= epoch'
  BY <1>4 DEF FreshInv
<1>6. PICK g : Sums(g) /\ Backed(g)
  BY DEF FreshInv
<1>7. PICK x \in Nat : x = FreshOf(c)
  BY <1>1 DEF FreshOf
<1>8. PICK y \in Nat : y = FreshOf(Top)
  BY <1>1, <1>2 DEF FreshOf, Top
<1>9. PICK b \in Nat : b = g[depth - 1] /\ g[depth] = b + y
  <2>1. depth \in 1..depth /\ depth - 1 \in 0..MaxDepth
    BY <1>2, <1>1
  <2>2. g[depth - 1] \in Nat /\ g[depth] = g[depth - 1] + FreshOf(ctx[depth])
    BY <1>6, <2>1 DEF Sums
  <2> QED BY <1>8, <2>2 DEF Top
<1>10. PICK h : h = [g EXCEPT ![depth] = b + x]
  OBVIOUS
<1>11. /\ h \in [0..MaxDepth -> Nat] /\ h[0] = 0 /\ h[depth] = b + x
       /\ \A d \in 0..MaxDepth : d # depth => h[d] = g[d]
  BY <1>2, <1>6, <1>7, <1>9, <1>10 DEF Sums
<1>12. \A a \in Context : FreshOf(a)' = FreshOf(a)
  BY DEF FreshOf
<1>13. ASSUME NEW d \in 1..depth PROVE h[d] = h[d - 1] + FreshOf(ctx[d])'
  <2>1. d \in 1..MaxDepth /\ d - 1 \in 0..MaxDepth /\ d - 1 # depth
    BY <1>1
  <2>2. CASE d = depth
    <3>1. FreshOf(ctx[d])' = x
      BY <1>4, <1>7, <2>2 DEF FreshOf
    <3> QED BY <1>9, <1>11, <2>1, <2>2, <3>1
  <2>3. CASE d # depth
    <3>1. FreshOf(ctx[d])' = FreshOf(ctx[d])
      BY <1>4, <2>1, <2>3 DEF FreshOf
    <3> QED BY <1>6, <1>11, <2>1, <2>3, <3>1 DEF Sums
  <2> QED BY <2>2, <2>3
<1>14. Sums(h)'
  BY <1>11, <1>13 DEF Sums
<1>15. Backed(h)'
  <2> SUFFICES ASSUME limit' # Unlimited PROVE limit' + (b + x) <= since.fuel
    BY <1>11 DEF Backed
  <2>1. PICK l \in Nat, k \in Nat, f \in Nat : l = limit /\ k = limit' /\ f = since.fuel
    BY <1>1
  <2>2. l + (b + y) <= f
    BY <1>6, <1>9, <2>1 DEF Backed
  <2>3. k + x <= l + y
    BY <1>7, <1>8, <2>1
  <2>4. k + (b + x) <= f
    BY <2>2, <2>3
  <2> QED BY <2>1, <2>4
<1> QED BY <1>5, <1>14, <1>15 DEF FreshInv

\* The initial states satisfy the invariant of the metering steps.
LEMMA FreshInit == Init => FreshInv
<1> SUFFICES ASSUME Init PROVE FreshInv
  OBVIOUS
<1>1. PICK g : g = [d \in 0..MaxDepth |-> 0]
  OBVIOUS
<1>2. depth = 0 /\ epoch = 0 /\ \A d \in 1..MaxDepth : ctx[d].epoch = 0
  BY DEF Init, NewContext
<1>3. Sums(g)
  BY <1>1, <1>2, MeteringAssumption DEF Sums
<1>4. Backed(g)
  BY <1>1, <1>2, MeteringAssumption DEF Backed, Init, Epoch, FiniteLimit
<1> QED BY <1>2, <1>3, <1>4 DEF FreshInv

\* Beginning a slice keeps the invariant of the metering steps.
LEMMA FreshBegin == ASSUME IInv, FreshInv, BeginSlice PROVE FreshInv'
<1>1. /\ depth \in 0..MaxDepth /\ MaxDepth \in Nat /\ epoch \in Nat
      /\ ctx \in [1..MaxDepth -> Context] /\ \A b \in Context : b.budget \in Nat /\ b.epoch \in Nat
      /\ limit # Unlimited => limit \in Nat /\ since.fuel \in Nat
  BY FreshTypes
<1>2. /\ depth < MaxDepth /\ depth' = depth + 1 /\ ctx' = [ctx EXCEPT ![depth + 1] = NewContext]
      /\ limit' = limit /\ epoch' = epoch /\ since' = since
  BY DEF BeginSlice
<1>3. ctx'[depth + 1] = NewContext /\ \A d \in 1..MaxDepth : d # depth + 1 => ctx'[d] = ctx[d]
  BY <1>1, <1>2
<1>4. NewContext.epoch = 0 /\ NewContext.budget = 0
  BY DEF NewContext
<1>5. \A d \in 1..MaxDepth : ctx'[d].epoch <= epoch'
  BY <1>1, <1>2, <1>3, <1>4 DEF FreshInv
<1>6. PICK g : Sums(g) /\ Backed(g)
  BY DEF FreshInv
<1>7. PICK b \in Nat : b = g[depth]
  BY <1>1, <1>6 DEF Sums
<1>8. PICK h : h = [g EXCEPT ![depth + 1] = b]
  OBVIOUS
<1>9. /\ h \in [0..MaxDepth -> Nat] /\ h[0] = 0 /\ h[depth + 1] = b /\ h[depth] = b
      /\ \A d \in 0..MaxDepth : d # depth + 1 => h[d] = g[d]
  BY <1>1, <1>2, <1>6, <1>7, <1>8 DEF Sums
<1>10. ASSUME NEW d \in 1..(depth + 1) PROVE h[d] = h[d - 1] + FreshOf(ctx[d])'
  <2>1. d \in 1..MaxDepth /\ d - 1 \in 0..MaxDepth /\ d - 1 # depth + 1
    BY <1>1, <1>2
  <2>2. CASE d = depth + 1
    <3>1. FreshOf(ctx[d])' = 0
      BY <1>3, <1>4, <2>2 DEF FreshOf
    <3> QED BY <1>1, <1>9, <2>2, <3>1
  <2>3. CASE d # depth + 1
    <3>1. FreshOf(ctx[d])' = FreshOf(ctx[d]) /\ d \in 1..depth
      BY <1>1, <1>2, <1>3, <2>1, <2>3 DEF FreshOf
    <3> QED BY <1>6, <1>9, <2>1, <2>3, <3>1 DEF Sums
  <2> QED BY <2>2, <2>3
<1>11. Sums(h)'
  BY <1>2, <1>9, <1>10 DEF Sums
<1>12. Backed(h)'
  BY <1>2, <1>6, <1>7, <1>9 DEF Backed
<1> QED BY <1>5, <1>11, <1>12 DEF FreshInv

\* A checkpoint or a charge: what is reserved for the context is taken from limit.
LEMMA FreshGuest == ASSUME IInv, FreshInv, GuestStep PROVE FreshInv'
<1>1. /\ epoch \in Nat /\ \A b \in Context : b.budget \in Nat /\ b.epoch \in Nat
      /\ limit # Unlimited => limit \in Nat /\ since.fuel \in Nat
  BY FreshTypes
<1>2. /\ Running /\ depth > 0 /\ depth' = depth /\ epoch' = epoch
  BY DEF GuestStep, Spend, Refill, ChargeN, Running
<1>3. Top \in Context /\ depth \in 1..MaxDepth
  BY <1>2, Totals DEF IInv
<1>4. PICK t \in Context : t = Top /\ t.epoch <= epoch /\ t.budget \in Nat /\ t.reserved \in 0..Chunk
  BY <1>1, <1>3, ContextFields DEF FreshInv, Top
<1>5. since'.fuel = since.fuel
  BY DEF IInv, TypeOK, GuestStep, Spend, Refill, ChargeN, Charge
<1>6. limit \in Nat \cup {Unlimited} /\ Unlimited \notin Nat /\ Chunk \in Nat
  BY MeteringAssumption DEF IInv, TypeOK
<1>7. ASSUME NEW c \in Context, SetTop(c), c.epoch = t.epoch, c.budget <= t.budget, limit' = limit
      PROVE  FreshInv'
  <2>1. FreshOf(c) <= FreshOf(Top) /\ FreshOf(c) \in Nat /\ FreshOf(Top) \in Nat /\ c.epoch <= epoch
    BY <1>1, <1>4, <1>7 DEF FreshOf
  <2>2. limit' # Unlimited => /\ limit # Unlimited /\ limit' \in Nat
                              /\ limit' + FreshOf(c) <= limit + FreshOf(Top)
    BY <1>1, <1>7, <2>1
  <2> QED BY <1>2, <1>5, <1>7, <2>1, <2>2, FreshTop
<1>8. ASSUME NEW c \in Context, SetTop(c), c.epoch = epoch,
             limit' # Unlimited => limit # Unlimited /\ limit' \in Nat /\ limit' + c.budget <= limit
      PROVE  FreshInv'
  <2>1. FreshOf(c) = c.budget /\ FreshOf(Top) \in Nat /\ c.budget \in Nat /\ c.epoch <= epoch
    BY <1>1, <1>4, <1>8 DEF FreshOf
  <2>2. limit' # Unlimited => /\ limit # Unlimited /\ limit' \in Nat
                              /\ limit' + FreshOf(c) <= limit + FreshOf(Top)
    BY <1>1, <1>8, <2>1
  <2> QED BY <1>2, <1>5, <1>8, <2>1, <2>2, FreshTop
<1>9. ASSUME NEW n \in Nat, Spend(n) PROVE FreshInv'
  <2>1. limit' = limit /\ t.budget >= n
    BY <1>4, <1>9 DEF Spend
  <2>2. CASE SetTop([Top EXCEPT !.outcome = "Cancelled"])
    <3>1. PICK c : c = [t EXCEPT !.outcome = "Cancelled"]
      OBVIOUS
    <3>2. c \in Context /\ c.epoch = t.epoch /\ c.budget <= t.budget
      BY <1>4, <3>1 DEF Context
    <3> QED BY <1>4, <1>7, <2>1, <2>2, <3>1, <3>2
  <2>3. CASE SetTop([Top EXCEPT !.budget = @ - n])
    <3>1. PICK c : c = [t EXCEPT !.budget = @ - n]
      OBVIOUS
    <3>2. t.budget - n \in 0..Chunk /\ t.budget - n <= t.budget
      BY <1>4, <1>6, <2>1, ContextFields
    <3>3. c \in Context /\ c.epoch = t.epoch /\ c.budget <= t.budget
      BY <1>4, <3>1, <3>2 DEF Context
    <3> QED BY <1>4, <1>7, <2>1, <2>3, <3>1, <3>3
  <2> QED BY <1>9, <2>2, <2>3 DEF Spend, Stop
<1>10. CASE Refill
  <2>1. Take(limit) \in 0..Chunk /\ (limit # Unlimited => Take(limit) <= limit)
    BY <1>6, TakeBound
  <2>2. PICK k \in 0..Chunk : k = Take(limit)
    BY <2>1
  <2>3. CASE /\ k # 0 /\ limit' = Debit(limit, k)
             /\ SetTop([[Top EXCEPT !.reserved = 0, !.budget = 0] EXCEPT !.reserved = k, !.budget = k - 1,
                                                                        !.epoch = epoch])
    <3>1. PICK c : c = [[t EXCEPT !.reserved = 0, !.budget = 0] EXCEPT !.reserved = k, !.budget = k - 1,
                                                                      !.epoch = epoch]
      OBVIOUS
    <3>2. k - 1 \in 0..Chunk
      BY <1>6, <2>3
    <3>3. c \in Context /\ c.epoch = epoch /\ c.budget = k - 1
      BY <1>1, <1>4, <3>1, <3>2 DEF Context
    <3>4. limit' # Unlimited => limit # Unlimited /\ limit' \in Nat /\ limit' + c.budget <= limit
      BY <1>6, <2>1, <2>2, <2>3, <3>3 DEF Debit
    <3> QED BY <1>4, <1>8, <2>3, <3>1, <3>3, <3>4
  <2>4. CASE /\ limit' = limit
             /\ \E why \in {"FuelExhausted", "Cancelled"} :
                  SetTop([[Top EXCEPT !.reserved = 0, !.budget = 0] EXCEPT !.outcome = why])
    <3>1. PICK why \in {"FuelExhausted", "Cancelled"} :
            SetTop([[Top EXCEPT !.reserved = 0, !.budget = 0] EXCEPT !.outcome = why])
      BY <2>4
    <3>2. PICK c : c = [[t EXCEPT !.reserved = 0, !.budget = 0] EXCEPT !.outcome = why]
      OBVIOUS
    <3>3. 0 \in 0..Chunk
      BY <1>6
    <3>4. c = [t EXCEPT !.reserved = 0, !.budget = 0, !.outcome = why]
      BY <3>2 DEF Context
    <3>5. c \in Context /\ c.epoch = t.epoch /\ c.budget = 0
      BY <3>3, <3>4 DEF Context
    <3>6. c.budget <= t.budget
      BY <1>4, <3>5
    <3>7. SetTop(c) /\ limit' = limit
      BY <1>4, <2>4, <3>1, <3>2
    <3> QED BY <1>7, <3>5, <3>6, <3>7
  <2> QED BY <1>10, <2>2, <2>3, <2>4 DEF Refill, Stop
<1>11. ASSUME NEW n \in Nat, ChargeN(n) PROVE FreshInv'
  <2>1. PICK m \in Nat : m = n - Top.budget
    BY <1>4, <1>11 DEF ChargeN
  <2>2. CASE /\ ~ Covers(limit, m) /\ limit' = 0
             /\ SetTop([Top EXCEPT !.reserved = 0, !.budget = 0, !.epoch = epoch,
                                   !.outcome = "FuelExhausted"])
    <3>1. PICK c : c = [t EXCEPT !.reserved = 0, !.budget = 0, !.epoch = epoch, !.outcome = "FuelExhausted"]
      OBVIOUS
    <3>2. 0 \in 0..Chunk
      BY <1>6
    <3>3. c \in Context /\ c.epoch = epoch /\ c.budget = 0
      BY <1>1, <1>4, <3>1, <3>2 DEF Context
    <3>4. limit' # Unlimited => limit # Unlimited /\ limit' \in Nat /\ limit' + c.budget <= limit
      BY <1>6, <2>2, <3>3 DEF Covers
    <3> QED BY <1>4, <1>8, <2>2, <3>1, <3>3, <3>4
  <2>3. CASE limit' = limit /\ SetTop([Top EXCEPT !.outcome = "Cancelled"])
    <3>1. PICK c : c = [t EXCEPT !.outcome = "Cancelled"]
      OBVIOUS
    <3>2. c \in Context /\ c.epoch = t.epoch /\ c.budget <= t.budget
      BY <1>4, <3>1 DEF Context
    <3> QED BY <1>4, <1>7, <2>3, <3>1, <3>2
  <2>4. CASE /\ Covers(limit, m) /\ limit' = Debit(Debit(limit, m), Take(Debit(limit, m)))
             /\ SetTop([Top EXCEPT !.reserved = Take(Debit(limit, m)), !.budget = Take(Debit(limit, m)),
                                   !.epoch = epoch])
    <3>1. PICK l \in Nat \cup {Unlimited} : /\ l = Debit(limit, m)
                                            /\ l # Unlimited => limit # Unlimited /\ l <= limit
      BY <1>6, <2>4 DEF Covers, Debit
    <3>2. PICK k \in 0..Chunk : k = Take(l) /\ (l # Unlimited => k <= l /\ Debit(l, k) = l - k)
                                /\ (l = Unlimited => Debit(l, k) = Unlimited)
      BY <3>1, TakeBound
    <3>3. PICK c : c = [t EXCEPT !.reserved = k, !.budget = k, !.epoch = epoch]
      OBVIOUS
    <3>4. c \in Context /\ c.epoch = epoch /\ c.budget = k
      BY <1>1, <1>4, <3>3 DEF Context
    <3>5. limit' # Unlimited => limit # Unlimited /\ limit' \in Nat /\ limit' + c.budget <= limit
      BY <1>1, <1>6, <2>4, <3>1, <3>2, <3>4
    <3> QED BY <1>4, <1>8, <2>4, <3>1, <3>2, <3>3, <3>4, <3>5
  <2> QED BY <1>11, <2>1, <2>2, <2>3, <2>4 DEF ChargeN, Stop
<1> QED BY <1>9, <1>10, <1>11, MeteringAssumption DEF GuestStep

\* release gives back the budget that the current epoch granted, and no other.
LEMMA FreshEnd == ASSUME IInv, FreshInv, EndSlice PROVE FreshInv'
<1>1. /\ depth \in 0..MaxDepth /\ MaxDepth \in Nat /\ epoch \in Nat
      /\ ctx \in [1..MaxDepth -> Context] /\ \A b \in Context : b.budget \in Nat /\ b.epoch \in Nat
      /\ limit # Unlimited => limit \in Nat /\ since.fuel \in Nat
  BY FreshTypes
<1>2. /\ depth > 0 /\ depth' = depth - 1 /\ ctx' = [ctx EXCEPT ![depth] = NewContext]
      /\ limit' = Refund(limit, Top) /\ epoch' = epoch /\ since' = since
  BY DEF EndSlice, SetTop
<1>3. depth \in 1..MaxDepth /\ depth - 1 \in 0..MaxDepth
  BY <1>1, <1>2
<1>4. ctx'[depth] = NewContext /\ \A d \in 1..MaxDepth : d # depth => ctx'[d] = ctx[d]
  BY <1>1, <1>2, <1>3
<1>5. \A d \in 1..MaxDepth : ctx'[d].epoch <= epoch'
  <2>1. NewContext.epoch = 0
    BY DEF NewContext
  <2> QED BY <1>1, <1>2, <1>4, <2>1 DEF FreshInv
<1>6. PICK g : Sums(g) /\ Backed(g)
  BY DEF FreshInv
<1>7. PICK y \in Nat : y = FreshOf(Top)
  BY <1>1, <1>3 DEF FreshOf, Top
<1>8. g[depth - 1] \in Nat /\ g[depth] = g[depth - 1] + y
  BY <1>3, <1>6, <1>7 DEF Sums, Top
<1>9. ASSUME NEW d \in 1..(depth - 1) PROVE g[d] = g[d - 1] + FreshOf(ctx[d])'
  <2>1. d \in 1..depth /\ d \in 1..MaxDepth /\ d # depth
    BY <1>1, <1>2
  <2>2. FreshOf(ctx[d])' = FreshOf(ctx[d])
    BY <1>2, <1>4, <2>1 DEF FreshOf
  <2> QED BY <1>6, <2>1, <2>2 DEF Sums
<1>10. Sums(g)'
  BY <1>2, <1>6, <1>9 DEF Sums
<1>11. Backed(g)'
  <2> SUFFICES ASSUME limit' # Unlimited PROVE limit' + g[depth - 1] <= since.fuel
    BY <1>2 DEF Backed
  <2>1. limit # Unlimited /\ limit \in Nat /\ since.fuel \in Nat
    BY <1>1, <1>2 DEF Refund
  <2>2. limit' \in Nat /\ limit' <= limit + y
    BY <1>2, <1>7, <2>1, MeteringAssumption DEF Refund, FreshOf, SaturatingAdd, Lesser
  <2>3. limit + g[depth] <= since.fuel
    BY <1>6, <2>1 DEF Backed
  <2> QED BY <1>8, <2>1, <2>2, <2>3
<1> QED BY <1>5, <1>10, <1>11 DEF FreshInv

\* A new epoch has granted nothing yet.
LEMMA FreshSet == ASSUME IInv, FreshInv, NEW fuel \in Fuels, SetFuel(fuel) PROVE FreshInv'
<1>1. /\ depth \in 0..MaxDepth /\ MaxDepth \in Nat /\ epoch \in Nat
      /\ ctx \in [1..MaxDepth -> Context] /\ \A b \in Context : b.budget \in Nat /\ b.epoch \in Nat
  BY FreshTypes
<1>2. /\ epoch' = epoch + 1 /\ depth' = depth /\ ctx' = ctx
      /\ limit' = FiniteLimit(fuel) /\ since'.fuel = FiniteLimit(fuel)
  BY DEF SetFuel, Epoch
<1>3. \A d \in 1..MaxDepth : ctx[d].epoch \in Nat /\ ctx[d].epoch <= epoch
  BY <1>1 DEF FreshInv
<1>4. \A d \in 1..MaxDepth : ctx'[d].epoch <= epoch' /\ ctx'[d].epoch # epoch'
  BY <1>1, <1>2, <1>3
<1>5. PICK g : g = [d \in 0..MaxDepth |-> 0]
  OBVIOUS
<1>6. Sums(g)'
  <2>1. ASSUME NEW d \in 1..depth PROVE FreshOf(ctx[d])' = 0 /\ g[d] = 0 /\ g[d - 1] = 0
    BY <1>1, <1>4, <1>5 DEF FreshOf
  <2> QED BY <1>1, <1>2, <1>5, <2>1 DEF Sums
<1>7. Backed(g)'
  BY <1>1, <1>2, <1>5, MeteringAssumption DEF Backed, FiniteLimit
<1> QED BY <1>4, <1>6, <1>7 DEF FreshInv

\* Every step keeps the invariant of the metering steps.
LEMMA FreshNext == ASSUME IInv, FreshInv, [Next]_vars PROVE FreshInv'
<1>1. CASE limit' = limit /\ epoch' = epoch /\ depth' = depth /\ ctx' = ctx /\ since' = since
  BY <1>1 DEF FreshInv, Sums, Backed, FreshOf
<1> QED BY <1>1, FreshBegin, FreshGuest, FreshEnd, FreshSet DEF Next, Interrupt, ResetInterrupt, vars

\* After set_fuel(n) fuel_remaining() never exceeds n, however many contexts of
\* earlier epochs release their reservations afterwards.
THEOREM NeverAboveTheorem == Spec => []NeverAboveSet
<1>1. ASSUME IInv, FreshInv PROVE NeverAboveSet
  <2> SUFFICES ASSUME limit # Unlimited PROVE limit <= since.fuel
    BY DEF NeverAboveSet
  <2>1. PICK g : Sums(g) /\ Backed(g)
    BY <1>1 DEF FreshInv
  <2>2. limit \in Nat /\ since.fuel \in Nat /\ g[depth] \in Nat
    BY <1>1, <2>1, FreshTypes DEF Sums
  <2> QED BY <2>1, <2>2 DEF Backed
<1>2. Init => FreshInv
  BY FreshInit
<1>3. ASSUME IInv, FreshInv, [Next]_vars PROVE FreshInv'
  BY <1>3, FreshNext
<1> QED BY <1>1, <1>2, <1>3, Invariance, PTL DEF Spec
=============================================================================
