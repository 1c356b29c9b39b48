----------------------------- MODULE StoreCalls -----------------------------
(***************************************************************************)
(* Guest calls on one Store: its execution lease, synchronous re-entry and *)
(* the trap slot (common/store.rs, runtime/vm.rs, runtime/instantiate.rs). *)
(*                                                                         *)
(* A call is asynchronous (run_module_function, instantiate), which gives  *)
(* the lease back whenever it awaits, or synchronous                       *)
(* (run_core_export_sync_reentrant), which a host callback may also make   *)
(* from inside a guest call.  The future of an asynchronous call is not    *)
(* Send: it stays on its thread.                                           *)
(***************************************************************************)
EXTENDS Naturals, Sequences

CONSTANTS
  Threads,
  MaxCalls   \* bound on the calls made

VARIABLES
  lock,      \* Store.runtime: {} or the thread that holds it
  active,    \* entries of ACTIVE_STORE_RUNTIME, per thread
  slot,      \* StoreInner.last_trap: {} or the owner and the call that failed
  stack,     \* the calls on each thread's stack, innermost last
  calls,     \* the calls made so far
  taken,     \* history: what the last take_last_trap returned
  last       \* history: the outermost call that completed last on each thread

callVars == <<lock, active, slot, stack, calls, taken, last>>

Ids == DOMAIN calls
Top(t) == stack[t][Len(stack[t])]
Pop(t) == [stack EXCEPT ![t] = SubSeq(@, 1, Len(@) - 1)]
AtTop(t, state) == stack[t] # <<>> /\ calls[Top(t)].state = state

CallsInit ==
  /\ lock = {} /\ slot = {} /\ taken = {}
  /\ active = [t \in Threads |-> 0]
  /\ stack = [t \in Threads |-> <<>>]
  /\ calls = <<>>
  /\ last = [t \in Threads |-> 0]

\* has_active_runtime_on_current_thread
Active(t) == active[t] # 0

\* lock_runtime_unchecked and the drop of its guard.
Acquire(t) == lock = {} /\ lock' = {t} /\ active' = [active EXCEPT ![t] = @ + 1]
Release(t) == lock' = {} /\ active' = [active EXCEPT ![t] = @ - 1]

\* set_last_trap with the trap of call c, if it failed.
\* Mutation: a call that succeeds leaves the slot alone.
KeepTrap(t, c, out) == IF out = "trap" THEN {[owner |-> t, call |-> c]} ELSE slot
SetLastTrap(t, c, out) == IF out = "trap" THEN {[owner |-> t, call |-> c]} ELSE {}

\* Embedder code runs on t: at top level, or in a host callback of a guest.
EmbedderRuns(t) == stack[t] = <<>> \/ AtTop(t, "guest")

NewCall(t, kind, state) ==
  [kind |-> kind, thread |-> t, state |-> state, out |-> "none",
   parent |-> IF stack[t] = <<>> THEN 0 ELSE Top(t)]

Ended(c, out) == [calls EXCEPT ![c].state = "done", ![c].out = out]
LastCompleted(t, c) == IF calls[c].parent = 0 THEN [last EXCEPT ![t] = c] ELSE last
-----------------------------------------------------------------------------
(* Asynchronous calls *)

\* The first critical section.  lock_runtime refuses a thread on which the
\* store is active: the call reports Unlinkable and nothing has happened.  The
\* slot is cleared; an unknown export, wrong arguments or an instance without
\* start function end the call at once.
BeginAsync(t, early) ==
  LET c == Len(calls) + 1 IN
  /\ EmbedderRuns(t) /\ ~Active(t) /\ c <= MaxCalls
  /\ lock = {}
  /\ slot' = {}
  /\ IF early
     THEN /\ calls' = Append(calls, [NewCall(t, "async", "done") EXCEPT !.out = "ok"])
          /\ last' = [last EXCEPT ![t] = c]
          /\ UNCHANGED stack
     ELSE /\ calls' = Append(calls, NewCall(t, "async", "runnable"))
          /\ stack' = [stack EXCEPT ![t] = Append(@, c)]
          /\ UNCHANGED last
  /\ UNCHANGED <<lock, active, taken>>

\* run_with_driver takes the lease for the ready task.
EnterSlice(t) ==
  /\ AtTop(t, "runnable")
  /\ ~Active(t) /\ Acquire(t)
  /\ calls' = [calls EXCEPT ![Top(t)].state = "guest"]
  /\ UNCHANGED <<slot, stack, taken, last>>

\* The slice ends: the lease is given back and the call awaits its effect, or it
\* has its result.
LeaveSlice(t, out) ==
  /\ AtTop(t, "guest") /\ calls[Top(t)].kind = "async"
  /\ Release(t)
  /\ IF out = "pending"
     THEN /\ calls' = [calls EXCEPT ![Top(t)].state = "suspended"]
          /\ stack' = Pop(t)
     ELSE /\ calls' = [calls EXCEPT ![Top(t)].state = "returning", ![Top(t)].out = out]
          /\ UNCHANGED stack
  /\ UNCHANGED <<slot, taken, last>>

\* A completion arrives and the future is polled on its thread.  The end of a wait
\* makes the task ready; a host call's completion needs the lease first.
\* Mutation: the call is ready but nobody polls it.
ResumeUnpolled(c, host) ==
  /\ calls[c].state = "suspended" /\ stack[calls[c].thread] = <<>>
  /\ calls' = [calls EXCEPT ![c].state = IF host THEN "completing" ELSE "runnable"]
  /\ UNCHANGED <<lock, active, slot, stack, taken, last>>
Resume(c, host) ==
  LET t == calls[c].thread IN
  /\ calls[c].state = "suspended" /\ stack[t] = <<>>
  /\ stack' = [stack EXCEPT ![t] = <<c>>]
  /\ calls' = [calls EXCEPT ![c].state = IF host THEN "completing" ELSE "runnable"]
  /\ UNCHANGED <<lock, active, slot, taken, last>>

\* apply_completion takes the lease to relocate the pc, or to capture the trap of
\* an error, which ends the call, and gives it back.
CompletionApplied(t, ok) ==
  /\ AtTop(t, "completing") /\ ~Active(t) /\ lock = {}
  /\ calls' = [calls EXCEPT ![Top(t)].state = IF ok THEN "runnable" ELSE "returning",
                            ![Top(t)].out = IF ok THEN "none" ELSE "trap"]
  /\ UNCHANGED <<lock, active, slot, stack, taken, last>>

\* The embedder drops the future of a suspended call.
DropCall(c) ==
  /\ calls[c].state = "suspended"
  /\ calls' = [calls EXCEPT ![c].state = "dropped"]
  /\ UNCHANGED <<lock, active, slot, stack, taken, last>>

\* The last critical section: the result's trap goes to the slot.
Publish(t) ==
  LET c == Top(t) IN
  /\ AtTop(t, "returning") /\ ~Active(t) /\ lock = {}
  /\ slot' = SetLastTrap(t, c, calls[c].out)
  /\ calls' = Ended(c, calls[c].out)
  /\ stack' = Pop(t)
  /\ last' = LastCompleted(t, c)
  /\ UNCHANGED <<lock, active, taken>>
-----------------------------------------------------------------------------
(* Synchronous calls *)

\* with_active_or_locked_runtime: a call from a host callback shares the lease;
\* any other waits for it.
BeginSync(t) ==
  LET c == Len(calls) + 1 IN
  /\ EmbedderRuns(t) /\ c <= MaxCalls
  /\ slot' = IF Active(t) THEN {} ELSE slot
  /\ calls' = Append(calls, NewCall(t, "sync", IF Active(t) THEN "guest" ELSE "entering"))
  /\ stack' = [stack EXCEPT ![t] = Append(@, c)]
  /\ UNCHANGED <<lock, active, taken, last>>

\* The lease is granted to the synchronous call that waits for it.
EnterSync(t) ==
  /\ AtTop(t, "entering") /\ Acquire(t)
  /\ slot' = {}
  /\ calls' = [calls EXCEPT ![Top(t)].state = "guest"]
  /\ UNCHANGED <<stack, taken, last>>

\* The synchronous run ends, or stops at an effect with AsyncPending: then the
\* slot is left as it is.  The lease goes back with the outermost guard.
\* Mutation: every synchronous call gives the lease back.
ReleaseAlways(t) == Release(t)
ReleaseOutermost(t) == IF Len(stack[t]) = 1 THEN Release(t) ELSE UNCHANGED <<lock, active>>
EndSync(t, out) ==
  LET c == Top(t) IN
  /\ AtTop(t, "guest") /\ calls[c].kind = "sync"
  /\ slot' = IF out = "pending" THEN slot ELSE SetLastTrap(t, c, out)
  /\ ReleaseOutermost(t)
  /\ calls' = Ended(c, out)
  /\ stack' = Pop(t)
  /\ last' = LastCompleted(t, c)
  /\ UNCHANGED taken
-----------------------------------------------------------------------------
\* Store::take_last_trap on thread t.  A thread on which the store is active gets
\* None.
OwnTrap(t) == {s \in slot : s.owner = t}
TakeLastTrap(t) ==
  /\ stack[t] = <<>> /\ lock = {}
  /\ slot' = slot \ OwnTrap(t)
  /\ taken' = {[thread |-> t, call |-> s.call, last |-> last[t]] : s \in OwnTrap(t)}
  /\ UNCHANGED <<lock, active, stack, calls, last>>

Outcomes == {"ok", "trap", "pending"}

CallsNext ==
  \/ \E t \in Threads :
       \/ \E early \in BOOLEAN : BeginAsync(t, early)
       \/ EnterSlice(t)
       \/ \E out \in Outcomes : LeaveSlice(t, out) \/ EndSync(t, out)
       \/ \E ok \in BOOLEAN : CompletionApplied(t, ok)
       \/ Publish(t)
       \/ BeginSync(t) \/ EnterSync(t)
       \/ TakeLastTrap(t)
  \/ \E c \in Ids : DropCall(c) \/ \E host \in BOOLEAN : Resume(c, host)

CallsSpec == CallsInit /\ [][CallsNext]_callVars

\* The mutex is granted to t, whose innermost call waits for it.
Granted(t) ==
  EnterSlice(t) \/ EnterSync(t) \/ Publish(t) \/ \E ok \in BOOLEAN : CompletionApplied(t, ok)

\* The guest of t leaves its slice, or its synchronous run.
GuestLeaves(t) == \E out \in Outcomes : LeaveSlice(t, out) \/ EndSync(t, out)

\* A slice ends, and the mutex is fair to a thread that waits for it.
FairCallsSpec ==
  /\ CallsSpec
  /\ \A t \in Threads :
       SF_callVars(Granted(t)) /\ WF_callVars(GuestLeaves(t))
-----------------------------------------------------------------------------
\* Type correctness; the mutex has at most one holder and the slot one lease.
CallsTypeOK ==
  /\ lock \subseteq Threads /\ \A t, u \in lock : t = u
  /\ active \in [Threads -> Nat]
  /\ slot \subseteq [owner : Threads, call : Ids] /\ \A l, m \in slot : l = m
  /\ stack \in [Threads -> Seq(Ids)]
  /\ calls \in Seq([kind : {"async", "sync"}, thread : Threads,
                    state : {"entering", "runnable", "guest", "suspended", "completing",
                             "returning", "done", "dropped"},
                    out : {"none", "ok", "trap", "pending"}, parent : Nat])
  /\ last \in [Threads -> Nat]

\* The lease is balanced and exclusive: a thread has one entry of
\* ACTIVE_STORE_RUNTIME exactly while it holds the lock, it holds the lock
\* exactly while it runs guest code, and so guest code of two threads never
\* runs at once, however calls nest, suspend and return.
LeaseBalanced ==
  CallsTypeOK /\ \A t \in Threads :
    /\ active[t] = IF t \in lock THEN 1 ELSE 0
    /\ t \in lock <=> \E c \in Ids : calls[c].state = "guest" /\ calls[c].thread = t

\* "You are never handed someone else's" trap: what take_last_trap returns is the
\* trap of a call that failed on the calling thread.
NeverAnothersTrap ==
  \A r \in taken : calls[r.call].thread = r.thread /\ calls[r.call].out = "trap"

\* The trap of an outermost call is handed out only while that call is the most
\* recent one to complete on the thread: a later success, or a later call that
\* failed to start, has cleared it.
NeverStaleTrap ==
  \A r \in taken : calls[r.call].parent = 0 => r.call = r.last

\* take_last_trap returns only the caller's own trap, and no old one.
TrapIsOwn == NeverAnothersTrap /\ NeverStaleTrap

\* The states in which a call needs the lease to go on.
Waiting == {"entering", "runnable", "completing", "returning"}

\* No call waits for the lease for ever: one that is ready to run, asynchronous or
\* synchronous, nested or not, enters the guest; one whose completion has arrived
\* applies it; one that has its result returns it.
LeaseIsGranted ==
  \A c \in 1..MaxCalls :
    (c \in Ids /\ calls[c].state \in Waiting) ~> (c \in Ids /\ calls[c].state \notin Waiting)

\* "take_last_trap() returns the trap that failed the most recent **outermost**
\* guest call".
OutermostOnly == \A r \in taken : calls[r.call].parent = 0
=============================================================================
