----------------------------- MODULE SharedWait -----------------------------
(***************************************************************************)
(* memory.atomic.wait and memory.atomic.notify on a shared memory          *)
(* (common/memory.rs, runtime/vm/atomics.rs, TokioDriver in                *)
(* runtime/scheduler.rs).                                                  *)
(*                                                                         *)
(* A task is a guest thread.  The mutex of SharedMemoryObject makes        *)
(* register_wait, remove_waiter and the first part of notify_waiters one   *)
(* step each; the compare-and-swap on a waiter's state, its tokio Notify   *)
(* and the polls of wait_result interleave freely with them.               *)
(***************************************************************************)
EXTENDS Naturals, Sequences, FiniteSets, Functions

CONSTANTS
  Tasks,
  Addrs,     \* aligned, in-bounds offsets
  Values,    \* contents of the guest words
  Counts,    \* the counts notify is tried with
  MaxWaits   \* bound on next_waiter_id

Waits == 1..MaxWaits

\* A count is a u32.
ASSUME SharedWaitAssumption == MaxWaits \in Nat /\ Counts \subseteq Nat

VARIABLES
  cell,            \* the guest words
  wait_queues,     \* per offset; an absent entry is an empty queue
  next_waiter_id,
  state,           \* SharedWaiter.state, or "none" before the waiter exists
  permit,          \* a notify_one not yet consumed by notified()
  task             \* where each task is

vars == <<cell, wait_queues, next_waiter_id, state, permit, task>>

\* VecDeque::retain: the entries of q that are in kept, in their order.
Retained(q, kept) ==
  LET upto[i \in 0..Len(q)] == IF i = 0 THEN <<>>
                               ELSE IF q[i] \in kept THEN Append(upto[i - 1], q[i])
                               ELSE upto[i - 1]
  IN upto[Len(q)]

Running == [pc |-> "running", addr |-> "", id |-> 0, timed |-> FALSE, wake |-> <<>>]

Init ==
  /\ cell \in [Addrs -> Values]
  /\ wait_queues = [a \in Addrs |-> <<>>]
  /\ next_waiter_id = 1
  /\ state = [w \in Waits |-> "none"]
  /\ permit = [w \in Waits |-> FALSE]
  /\ task = [t \in Tasks |-> Running]

At(t, pc) == task[t].pc = pc
Goto(t, pc) == task' = [task EXCEPT ![t].pc = pc]

\* The wait is over: the i32 result is pushed and the task is ready again.
Resume(t) == task' = [task EXCEPT ![t] = Running]

\* compare_exchange(WAITING, to): whether it succeeds, and its effect.
CasWins(w) == state[w] = "WAITING"
IsWaiting == {w \in Waits : CasWins(w)}

Store(t, a, v) ==
  /\ At(t, "running")
  /\ cell' = [cell EXCEPT ![a] = v]
  /\ UNCHANGED <<wait_queues, next_waiter_id, state, permit, task>>

\* register_wait32 / register_wait64.  On a mismatch (NotEqual) the wait returns
\* 1 at once; otherwise the waiter is queued in the same critical section.
Register(t, a, v, timed) ==
  /\ At(t, "running")
  /\ IF cell[a] = v
     THEN /\ next_waiter_id \in Waits
          /\ next_waiter_id' = next_waiter_id + 1
          /\ wait_queues' = [wait_queues EXCEPT ![a] = Append(@, next_waiter_id)]
          /\ state' = [state EXCEPT ![next_waiter_id] = "WAITING"]
          /\ task' = [task EXCEPT ![t] = [pc |-> "registered", addr |-> a,
                        id |-> next_waiter_id, timed |-> timed, wake |-> <<>>]]
     ELSE UNCHANGED <<next_waiter_id, wait_queues, state, task>>
  /\ UNCHANGED <<cell, permit>>

\* First poll of SharedWaiter::wait: the state is loaded ...
PollWait(t) ==
  /\ At(t, "registered")
  /\ IF state[task[t].id] = "NOTIFIED" THEN Resume(t) ELSE Goto(t, "checked")
  /\ UNCHANGED <<cell, wait_queues, next_waiter_id, state, permit>>

\* ... and the task parks on notified() if there is no permit yet.
Park(t) ==
  /\ At(t, "checked") /\ ~permit[task[t].id]
  /\ Goto(t, "parked")
  /\ UNCHANGED <<cell, wait_queues, next_waiter_id, state, permit>>

\* notified() completes: the wait returns 0.
Notified(t) ==
  /\ At(t, "checked") \/ At(t, "parked")
  /\ permit[task[t].id]
  /\ permit' = [permit EXCEPT ![task[t].id] = FALSE]
  /\ Resume(t)
  /\ UNCHANGED <<cell, wait_queues, next_waiter_id, state>>

\* The sleep of a timed wait elapses and select finds no permit.
Expire(t) ==
  /\ At(t, "parked") /\ task[t].timed /\ ~permit[task[t].id]
  /\ Goto(t, "expired")
  /\ UNCHANGED <<cell, wait_queues, next_waiter_id, state, permit>>

\* try_mark_timed_out: against a concurrent notify exactly one of the two wins.
\* Mutation: a store instead of a compare-and-swap.
MarkAlways(w) == TRUE
MarkWins(w) == CasWins(w)
MarkTimedOut(t) ==
  LET w == task[t].id IN
  /\ At(t, "expired")
  /\ IF MarkWins(w)
     THEN state' = [state EXCEPT ![w] = "TIMED_OUT"] /\ Goto(t, "removing")
     ELSE Resume(t) /\ UNCHANGED state
  /\ UNCHANGED <<cell, wait_queues, next_waiter_id, permit>>

\* remove_waiter, by id; the wait returns 2.  Mutation: the front of the queue
\* is removed whoever it is.
RemoveFront(q, w) == IF q = <<>> THEN q ELSE Tail(q)
Removed(q, w) == Retained(q, Waits \ {w})
RemoveWaiter(t) ==
  /\ At(t, "removing")
  /\ wait_queues' = [wait_queues EXCEPT ![task[t].addr] = Removed(@, task[t].id)]
  /\ Resume(t)
  /\ UNCHANGED <<cell, next_waiter_id, state, permit>>

\* The pop loop of notify_waiters: entries are popped until n of them could be
\* marked.  This is the length of the popped prefix.
Popped(q, waiting, n) ==
  LET marked(k) == Cardinality({i \in 1..k : q[i] \in waiting})
      enough == {k \in 0..Len(q) : marked(k) = n}
  IN IF enough = {} THEN Len(q) ELSE CHOOSE k \in enough : \A j \in enough : k <= j

\* notify_waiters up to the unlock.
NotifyWaiters(t, a, n) ==
  LET q == wait_queues[a]
      k == Popped(q, IsWaiting, n)
      wake == Retained(SubSeq(q, 1, k), IsWaiting)
  IN
  /\ At(t, "running")
  /\ wait_queues' = [wait_queues EXCEPT ![a] = Retained(SubSeq(q, k + 1, Len(q)), IsWaiting)]
  /\ state' = [w \in Waits |-> IF w \in Range(wake) THEN "NOTIFIED" ELSE state[w]]
  /\ task' = [task EXCEPT ![t].pc = "waking", ![t].wake = wake]
  /\ UNCHANGED <<cell, next_waiter_id, permit>>

\* The loop after the unlock: one notify_one per marked waiter, then the count
\* of them is the result.
\* Mutation: only a task that is parked already is notified; no permit is kept.
NotifyParked(t) ==
  /\ At(t, "waking")
  /\ IF task[t].wake = <<>>
     THEN Resume(t) /\ UNCHANGED permit
     ELSE /\ permit' = [permit EXCEPT ![Head(task[t].wake)] =
                         \E u \in Tasks : At(u, "parked") /\ task[u].id = Head(task[t].wake)]
          /\ task' = [task EXCEPT ![t].wake = Tail(@)]
  /\ UNCHANGED <<cell, wait_queues, next_waiter_id, state>>
NotifyOne(t) ==
  /\ At(t, "waking")
  /\ IF task[t].wake = <<>>
     THEN Resume(t) /\ UNCHANGED permit
     ELSE /\ permit' = [permit EXCEPT ![Head(task[t].wake)] = TRUE]
          /\ task' = [task EXCEPT ![t].wake = Tail(@)]
  /\ UNCHANGED <<cell, wait_queues, next_waiter_id, state>>

\* The guest call is given up while it waits: a synchronous call reports
\* AsyncPending and drops the operation before any poll, or the future of an
\* asynchronous call is dropped.  Nothing is unregistered.
Abandon(t) ==
  /\ At(t, "registered") \/ At(t, "parked")
  /\ Resume(t)
  /\ UNCHANGED <<cell, wait_queues, next_waiter_id, state, permit>>

WaitStep(t) ==
  PollWait(t) \/ Park(t) \/ Notified(t) \/ Expire(t) \/ MarkTimedOut(t) \/ RemoveWaiter(t) \/ NotifyOne(t)

Next ==
  \E t \in Tasks :
    \/ \E a \in Addrs, v \in Values : Store(t, a, v)
    \/ \E a \in Addrs, v \in Values, timed \in BOOLEAN : Register(t, a, v, timed)
    \/ \E a \in Addrs, n \in Counts : NotifyWaiters(t, a, n)
    \/ WaitStep(t)
    \/ Abandon(t)

Spec == Init /\ [][Next]_vars

\* Every task's executor keeps polling it.
FairSpec == Spec /\ \A t \in Tasks : WF_vars(WaitStep(t))
-----------------------------------------------------------------------------
Blocked(t) == task[t].pc \in {"registered", "checked", "parked", "expired", "removing"}

\* Type correctness; a queue holds only waiters that register_wait created.
TypeOK ==
  /\ cell \in [Addrs -> Values]
  /\ next_waiter_id \in 1..(MaxWaits + 1)
  /\ wait_queues \in [Addrs -> Seq(1..(next_waiter_id - 1))]
  /\ state \in [Waits -> {"none", "WAITING", "NOTIFIED", "TIMED_OUT"}]
  /\ permit \in [Waits -> BOOLEAN]
  /\ task \in [Tasks -> [pc : {"running", "registered", "checked", "parked", "expired", "removing", "waking"},
                         addr : Addrs \cup {""}, id : 0..MaxWaits, timed : BOOLEAN,
                         wake : Seq(Waits)]]

\* No wait is lost: a task that still waits is in the queue of its address, and
\* in no other, so that a later notify finds it.
StillQueued ==
  \A t \in Tasks : (Blocked(t) /\ state[task[t].id] = "WAITING") =>
    \A a \in Addrs : task[t].id \in Range(wait_queues[a]) <=> a = task[t].addr

\* No wake-up is lost: a task parked on a waiter that notify has marked has a
\* permit or will be given one, although the mark is set under the lock and the
\* permit after it.
WakeComing ==
  \A t \in Tasks : (At(t, "parked") /\ state[task[t].id] = "NOTIFIED") =>
    permit[task[t].id] \/ \E u \in Tasks : task[t].id \in Range(task[u].wake)

\* No garbage stays in the queues: an entry that can no longer be woken is one
\* its own task is just about to remove.
QueueClean ==
  \A a \in Addrs : \A w \in Range(wait_queues[a]) :
    state[w] # "WAITING" => \E t \in Tasks : At(t, "removing") /\ task[t].id = w

\* The queues and the waiters agree: no wait is lost and no garbage is kept.
QueuesMatchWaits == TypeOK /\ StillQueued /\ QueueClean

\* The queues, marks and timeouts implement the compare-and-sleep of Futex: at
\* most one fate per wait, first in, first out, and notify wakes exactly as many
\* sleepers as it was asked for and there are.
Promise == INSTANCE Futex WITH
  sleeping <- [a \in Addrs |-> Range(wait_queues[a]) \cap IsWaiting],
  fate <- [w \in Waits |-> CASE state[w] = "WAITING"   -> "asleep"
                             [] state[w] = "NOTIFIED"  -> "woken"
                             [] state[w] = "TIMED_OUT" -> "timed out"
                             [] OTHER                  -> "none"]
ImplementsFutex == Promise!Spec

\* A wait that was notified, and a wait with a timeout, returns to the guest.
WaitReturns ==
  \A t \in Tasks :
    (Blocked(t) /\ (task[t].timed \/ state[task[t].id] = "NOTIFIED")) ~> ~Blocked(t)

\* docs/core/metering.md: the wait queue "is bounded by the number of guest
\* threads concurrently blocked in atomic.wait".
QueueBounded ==
  \A a \in Addrs :
    Len(wait_queues[a]) <= Cardinality({t \in Tasks : Blocked(t) /\ task[t].addr = a})
=============================================================================
