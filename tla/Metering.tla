------------------------------ MODULE Metering ------------------------------
(***************************************************************************)
(* Store-scoped fuel metering (crates/telomere/src/common/metering.rs) and *)
(* the execution contexts that spend the fuel (runtime/scheduler.rs and    *)
(* the checkpoint helpers of runtime/vm.rs).                               *)
(*                                                                         *)
(* The ledger lives behind one mutex, so every operation on it is one      *)
(* step.  An execution context is owned by the thread that holds the store *)
(* lock; a synchronous host call may start a nested context on the same    *)
(* thread, so the live contexts form a stack of height depth and only the  *)
(* top one runs.  A watchdog thread calls set_fuel, interrupt and          *)
(* reset_interrupt at any time.                                            *)
(***************************************************************************)
EXTENDS Integers

CONSTANTS
  Chunk,      \* CHECKPOINT_CHUNK
  U64Max,     \* the largest u64; set_fuel(U64Max) means unlimited
  Unlimited,  \* the None of Ledger.limit
  Fuels,      \* the arguments set_fuel and initial_fuel are tried with
  Bulks,      \* the amounts of the bulk charges that are tried
  MaxDepth,   \* bound on nested execution contexts
  MaxEpoch,   \* bound on the number of set_fuel calls
  MaxSpent    \* bound on the fuel units charged while fuel is unlimited

ASSUME MeteringAssumption ==
  /\ Chunk \in Nat \ {0}
  /\ U64Max \in Nat
  /\ Unlimited \notin Nat
  /\ Fuels \subseteq 0..U64Max
  /\ Bulks \subseteq Nat \ {0}
  /\ MaxDepth \in Nat
  /\ MaxEpoch \in Nat
  /\ MaxSpent \in Nat

VARIABLES
  limit,        \* Ledger.limit: unreserved fuel, or Unlimited
  consumed,     \* Ledger.consumed
  epoch,        \* Ledger.epoch
  interrupted,  \* MeteringState.interrupted
  depth,        \* number of live execution contexts
  ctx,          \* their reserved, budget, budget_epoch and outcome
  outer,        \* history: what the contexts below each context hold
  spent,        \* history: every unit charged since the store was made
  since         \* history: what is known about the current fuel epoch

vars == <<limit, consumed, epoch, interrupted, depth, ctx, outer, spent, since>>

Lesser(a, b) == IF a <= b THEN a ELSE b

\* u64::saturating_add
SaturatingAdd(a, b) == Lesser(a + b, U64Max)

\* finite_limit: u64::MAX is the spelling of "no limit"
FiniteLimit(fuel) == IF fuel = U64Max THEN Unlimited ELSE fuel

\* The size of the next reservation.  Mutation: all that is left is taken.
TakeAll(available) == IF available = Unlimited THEN Chunk ELSE available
Take(available) == IF available = Unlimited THEN Chunk ELSE Lesser(available, Chunk)

Covers(available, n) == IF available = Unlimited THEN TRUE ELSE n <= available

\* Mutation: the reservation is handed out but never taken from the ledger.
DebitNothing(available, n) == available
Debit(available, n) == IF available = Unlimited THEN Unlimited ELSE available - n

\* The refund of release: only to the epoch that granted the reservation.
\* Mutations: a refund into whatever epoch is current; a refund of the whole
\* reservation.
RefundStale(available, c) ==
  IF available # Unlimited THEN SaturatingAdd(available, c.budget) ELSE available
RefundReserved(available, c) ==
  IF c.epoch = epoch /\ available # Unlimited
  THEN SaturatingAdd(available, c.reserved) ELSE available
Refund(available, c) ==
  IF c.epoch = epoch /\ available # Unlimited
  THEN SaturatingAdd(available, c.budget) ELSE available

\* What release adds to consumed.  Mutation: the unspent budget is added too.
ReservedPart(c) == c.reserved
SpentPart(c) == c.reserved - c.budget

\* Whether a checkpoint that the budget covers observes the cancellation flag.
\* Mutation: the flag is looked at only when a reservation runs out.
PollAtRefill(c) == interrupted /\ c.budget = 0
Cancelled(c) == interrupted /\ c.reserved # 0

NewContext == [reserved |-> 0, budget |-> 0, epoch |-> 0, outcome |-> "running"]

Top     == ctx[depth]
Running == depth > 0 /\ Top.outcome = "running"

\* What all live contexts together hold.
ReservedTotal == IF depth = 0 THEN 0 ELSE outer[depth].reserved + Top.reserved
BudgetTotal   == IF depth = 0 THEN 0 ELSE outer[depth].budget + Top.budget

SetTop(c)    == ctx' = [ctx EXCEPT ![depth] = c]
\* Mutation: the refusal of a checkpoint is not propagated.
IgnoreStop(c, why) == SetTop(c)
Stop(c, why) == SetTop([c EXCEPT !.outcome = why])

\* n further units are charged, and the guest work they admit runs.
Charge(n) ==
  /\ limit = Unlimited => spent + n <= MaxSpent
  /\ spent' = spent + n
  /\ since' = [since EXCEPT !.ran = @ + n]

Epoch(fuel) ==
  [fuel |-> fuel, spent |-> spent, consumed |-> consumed,
   budget |-> BudgetTotal, depth |-> depth, ran |-> 0]
-----------------------------------------------------------------------------
Init ==
  /\ limit \in {FiniteLimit(fuel) : fuel \in Fuels}
  /\ consumed = 0 /\ epoch = 0 /\ interrupted = FALSE
  /\ depth = 0
  /\ ctx   = [d \in 1..MaxDepth |-> NewContext]
  /\ outer = [d \in 1..MaxDepth |-> [reserved |-> 0, budget |-> 0]]
  /\ spent = 0
  /\ since = Epoch(limit)

\* A ready task is about to run: its context starts without a reservation.
BeginSlice ==
  /\ depth < MaxDepth
  /\ depth = 0 \/ Running
  /\ depth' = depth + 1
  /\ ctx'   = [ctx EXCEPT ![depth + 1] = NewContext]
  /\ outer' = [outer EXCEPT ![depth + 1] =
                 [reserved |-> ReservedTotal, budget |-> BudgetTotal]]
  /\ UNCHANGED <<limit, consumed, epoch, interrupted, spent, since>>

\* The hot path of checkpoint (n = 1) and of charge_n: the budget covers n.
Spend(n) ==
  /\ Running /\ Top.budget >= n
  /\ IF Cancelled(Top)
     THEN Stop(Top, "Cancelled") /\ UNCHANGED <<spent, since>>
     ELSE SetTop([Top EXCEPT !.budget = @ - n]) /\ Charge(n)
  /\ UNCHANGED <<limit, consumed, epoch, interrupted, depth, outer>>

\* checkpoint with an empty budget: refill_checkpoint_budget and grant.  The
\* finished reservation is published, then the next one is reserved and the
\* checkpoint that came here is charged.  Exhaustion wins over cancellation.
Refill ==
  LET take  == Take(limit)
      empty == [Top EXCEPT !.reserved = 0, !.budget = 0]
  IN
  /\ Running /\ Top.budget = 0
  /\ consumed' = SaturatingAdd(consumed, Top.reserved)
  /\ \/ /\ take = 0
        /\ Stop(empty, "FuelExhausted")
        /\ UNCHANGED <<limit, spent, since>>
     \/ /\ take # 0 /\ interrupted
        /\ Stop(empty, "Cancelled")
        /\ UNCHANGED <<limit, spent, since>>
     \/ /\ take # 0 /\ ~interrupted
        /\ limit' = Debit(limit, take)
        /\ SetTop([empty EXCEPT !.reserved = take, !.budget = take - 1,
                                !.epoch = epoch])
        /\ Charge(1)
  /\ UNCHANGED <<epoch, interrupted, depth, outer>>

\* charge_n when the budget does not cover n: the rest is paid from the ledger
\* and the next chunk is reserved, or everything that is left is consumed and
\* the operation must not run.
ChargeN(n) ==
  LET additional == n - Top.budget
      left == Debit(limit, additional)
  IN
  /\ Running /\ n > Top.budget
  /\ \/ /\ ~Covers(limit, additional)
        /\ consumed' = SaturatingAdd(SaturatingAdd(consumed, Top.reserved), limit)
        /\ limit' = 0
        /\ spent' = spent + Top.budget + limit
        /\ SetTop([Top EXCEPT !.reserved = 0, !.budget = 0, !.epoch = epoch,
                              !.outcome = "FuelExhausted"])
        /\ UNCHANGED since
     \/ /\ Covers(limit, additional)
        /\ interrupted
        /\ Stop(Top, "Cancelled")
        /\ UNCHANGED <<limit, consumed, spent, since>>
     \/ /\ Covers(limit, additional)
        /\ ~interrupted
        /\ consumed' = SaturatingAdd(SaturatingAdd(consumed, Top.reserved), additional)
        /\ limit' = Debit(left, Take(left))
        /\ SetTop([Top EXCEPT !.reserved = Take(left), !.budget = Take(left),
                              !.epoch = epoch])
        /\ Charge(n)
  /\ UNCHANGED <<epoch, interrupted, depth, outer>>

\* The task's op returned (finished, suspended, trapped or was stopped): its
\* reservation is released and the enclosing context, if any, goes on.
EndSlice ==
  /\ depth > 0
  /\ consumed' = SaturatingAdd(consumed, SpentPart(Top))
  /\ limit' = Refund(limit, Top)
  /\ SetTop(NewContext)
  /\ depth' = depth - 1
  /\ UNCHANGED <<epoch, interrupted, outer, spent, since>>

SetFuel(fuel) ==
  /\ epoch < MaxEpoch
  /\ limit' = FiniteLimit(fuel)
  /\ epoch' = epoch + 1
  /\ since' = Epoch(FiniteLimit(fuel))
  /\ UNCHANGED <<consumed, interrupted, depth, ctx, outer, spent>>

Interrupt ==
  /\ interrupted' = TRUE
  /\ UNCHANGED <<limit, consumed, epoch, depth, ctx, outer, spent, since>>

ResetInterrupt ==
  /\ interrupted' = FALSE
  /\ UNCHANGED <<limit, consumed, epoch, depth, ctx, outer, spent, since>>

GuestStep == Spend(1) \/ Refill \/ \E n \in Bulks : Spend(n) \/ ChargeN(n)

Next ==
  \/ BeginSlice
  \/ GuestStep
  \/ EndSlice
  \/ \E fuel \in Fuels : SetFuel(fuel)
  \/ Interrupt
  \/ ResetInterrupt

Spec == Init /\ [][Next]_vars

\* A guest may loop for ever: a running one goes on to its next checkpoint and
\* need not return, a stopped one unwinds.
FairSpec ==
  /\ Spec
  /\ WF_vars(Spend(1) \/ Refill)
  /\ WF_vars(~Running /\ EndSlice)
-----------------------------------------------------------------------------
Context == [reserved : 0..Chunk, budget : 0..Chunk, epoch : Nat,
            outcome : {"running", "FuelExhausted", "Cancelled"}]
Held    == [reserved : Nat, budget : Nat]

\* Type correctness; a context never holds more than one chunk
\* (MeteringGrant), and the ledger never counts past the u64 range.
TypeOK ==
  /\ limit \in Nat \cup {Unlimited}
  /\ consumed \in 0..U64Max
  /\ epoch \in Nat
  /\ interrupted \in BOOLEAN
  /\ depth \in 0..MaxDepth
  /\ ctx \in [1..MaxDepth -> Context]
  /\ outer \in [1..MaxDepth -> Held]
  /\ spent \in Nat
  /\ since \in [fuel : Nat \cup {Unlimited}, spent : Nat, consumed : 0..U64Max,
                budget : Nat, depth : 0..MaxDepth, ran : Nat]

\* fuel_consumed() plus what the live contexts have spent of their
\* reservations is every unit ever charged, through refills, bulk charges,
\* stops, releases and set_fuel, up to the saturation of the u64 counter.  In
\* particular it is exact while the store is idle.
ConsumedExact ==
  consumed = Lesser(spent - (ReservedTotal - BudgetTotal), U64Max)

\* The conservation rule for a finite epoch that began on an idle store: what
\* was configured is what is left, plus what was consumed since, plus what the
\* live contexts have reserved; nothing is lost or minted.
Conservation ==
  (since.depth = 0 /\ limit # Unlimited /\ consumed < U64Max) =>
    since.fuel = limit + (consumed - since.consumed) + ReservedTotal

\* After set_fuel(n) fuel_remaining() never exceeds n: the refund of a
\* reservation that an earlier epoch granted is dropped by release.
NeverAboveSet == limit # Unlimited => limit <= since.fuel

\* After set_fuel(n) the guest runs at most n further units plus the budgets that
\* the live contexts held at that moment, however deeply they are nested.
OverrunBounded == limit # Unlimited => since.ran <= since.fuel + since.budget

\* "after a concurrent finite `set_fuel(n)`, guest code can execute up to
\* `n + CHECKPOINT_CHUNK - 1` further fuel units" (set_fuel), for one live context.
DocumentedOverrun ==
  (limit # Unlimited /\ since.depth = 1) => since.ran <= since.fuel + Chunk - 1

\* A checkpoint never admits guest work while cancellation is requested.
NoWorkWhenInterrupted == [][since'.ran > since.ran => ~interrupted]_vars

\* With finite fuel, or while interrupted, a guest that never returns by itself
\* is stopped by its checkpoints, however deeply the calls are nested.
FuelOrInterruptStops ==
  []<>(~Running \/ (limit = Unlimited /\ ~interrupted))
=============================================================================
