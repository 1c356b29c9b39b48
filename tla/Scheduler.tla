------------------------------ MODULE Scheduler ------------------------------
(***************************************************************************)
(* The task scheduler of one guest call (runtime/scheduler.rs): the queue  *)
(* of tasks, the effects their slices push, the driver that completes them *)
(* and the two run loops, run_with_driver and run_sync_with_runtime.       *)
(*                                                                         *)
(* A slice is one entry into the interpreter or the JIT.  What the guest   *)
(* does in it is reduced to the effects it pushes and to how it ends:      *)
(* "cont" (stopped with a continuation), "done" (the outermost function    *)
(* returned) or "trap".                                                    *)
(***************************************************************************)
EXTENDS Naturals, Sequences, FiniteSets, Functions

CONSTANTS
  Tasks,       \* the tasks pushed before the loop starts
  MaxEffects,  \* effects one slice of a task may push; the operations of the VM push one
  MaxOps       \* bound on the effects one task pushes in its life

ASSUME SchedulerAssumption ==
  IsFiniteSet(Tasks) /\ MaxEffects \in [Tasks -> Nat] /\ MaxOps \in Nat

VARIABLES
  tasks,          \* Scheduler.tasks, front first
  ready_count,
  pending_queue,  \* effects not yet submitted
  completed_tasks,
  inflight,       \* effects the driver holds
  pc,             \* where the run loop is
  mode,           \* the run loop: "sync", or with a driver that completes every
                  \* operation ("driver") or may give up on some ("quitter")
  result,         \* what run_sync_with_runtime returned
  issued,         \* history: effects each task has pushed
  failed          \* history: the tasks that trapped or had an effect fail

vars == <<tasks, ready_count, pending_queue, completed_tasks, inflight, pc,
          mode, result, issued, failed>>

Push(q, t) == Append(q, t)

NewTask(id) == [id |-> id, flag |-> "Ready", pending |-> 0, terminal |-> "none", trap |-> "none"]

Init ==
  /\ \E order \in [1..Cardinality(Tasks) -> Tasks] :
       /\ Range(order) = Tasks
       /\ tasks = [i \in DOMAIN order |-> NewTask(order[i])]
  /\ ready_count = Cardinality(Tasks)
  /\ pending_queue = <<>> /\ completed_tasks = <<>> /\ inflight = {}
  /\ pc = "ready" /\ mode \in {"driver", "quitter", "sync"} /\ result = "none"
  /\ issued = [t \in Tasks |-> 0]
  /\ failed = {}

Completed(t) == [id |-> t.id, result |-> t.terminal, trap |-> t.trap]
-----------------------------------------------------------------------------
(* run_ready_tasks_with_runtime *)

Rotate ==
  /\ pc = "ready" /\ ready_count # 0
  /\ tasks # <<>> /\ Head(tasks).flag = "NonReady"
  /\ tasks' = Push(Tail(tasks), Head(tasks))
  /\ UNCHANGED <<ready_count, pending_queue, completed_tasks, inflight, pc, mode, result, issued, failed>>

\* The task after a slice that leaves p effects pending.  The terminal result of
\* an earlier completion is not carried over.
\* Mutation: a stopped task is Ready at once.
ReadyAfterSlice(t, p, end) ==
  [t EXCEPT !.flag = IF end = "cont" THEN "Ready" ELSE "NonReady",
            !.pending = p,
            !.terminal = CASE end = "cont" -> "none" [] end = "done" -> "Success" [] OTHER -> "Trap",
            !.trap = IF end = "trap" THEN "Trap" ELSE "none"]
AfterSlice(t, p, end) ==
  [t EXCEPT !.flag = IF end = "cont" /\ p = 0 THEN "Ready" ELSE "NonReady",
            !.pending = p,
            !.terminal = CASE end = "cont" -> "none" [] end = "done" -> "Success" [] OTHER -> "Trap",
            !.trap = IF end = "trap" THEN "Trap" ELSE "none"]

\* The slice took a Ready task off the queue; it is Ready again if it only yielded.
CountAfterSlice(t, p, end) == ready_count - 1 + (IF end = "cont" /\ p = 0 THEN 1 ELSE 0)

\* Mutation: the count restarts with each slice although effects of an earlier
\* one are pending.
FreshPending(t, ops) == Len(ops)
PendingAfter(t, ops) == t.pending + Len(ops)

FinishesNow(p, end) == end # "cont" /\ p = 0

RunSlice(kinds, end) ==
  LET t == Head(tasks)
      ops == [i \in DOMAIN kinds |-> [id |-> t.id, n |-> issued[t.id] + i, kind |-> kinds[i]]]
      p == PendingAfter(t, ops)
      after == AfterSlice(t, p, end)
  IN
  /\ pc = "ready" /\ ready_count # 0
  /\ tasks # <<>> /\ t.flag = "Ready"
  /\ issued[t.id] + Len(kinds) <= MaxOps
  /\ ready_count' = CountAfterSlice(t, p, end)
  /\ pending_queue' = pending_queue \o ops
  /\ IF FinishesNow(p, end)
     THEN /\ completed_tasks' = Append(completed_tasks, Completed(after))
          /\ tasks' = Tail(tasks)
     ELSE /\ tasks' = Push(Tail(tasks), after)
          /\ UNCHANGED completed_tasks
  /\ issued' = [issued EXCEPT ![t.id] = @ + Len(kinds)]
  /\ failed' = IF end = "trap" THEN failed \cup {t.id} ELSE failed
  /\ UNCHANGED <<inflight, pc, mode, result>>
-----------------------------------------------------------------------------
(* run_with_driver and run_sync_with_runtime, after the ready tasks ran *)

\* Mutation: the operations are dropped.
SubmitNone == pending_queue' = <<>> /\ UNCHANGED inflight
SubmitPendingOps == /\ inflight' = inflight \cup Range(pending_queue)
                    /\ pending_queue' = <<>>

\* Mutation: the synchronous loop gives up before it looks at the queue.
GiveUp == "Stalled"
SyncError == IF pending_queue # <<>> THEN "AsyncPending" ELSE "Stalled"

LeaveReady ==
  /\ pc = "ready" /\ ready_count = 0
  /\ CASE tasks = <<>> ->
            /\ pc' = "done" /\ result' = "Ok"
            /\ UNCHANGED <<pending_queue, inflight>>
       [] tasks # <<>> /\ mode # "sync" ->
            /\ SubmitPendingOps
            /\ pc' = "await" /\ UNCHANGED result
       [] OTHER ->
            /\ pc' = "done" /\ result' = SyncError
            /\ UNCHANGED <<pending_queue, inflight>>
  /\ UNCHANGED <<tasks, ready_count, completed_tasks, mode, issued, failed>>

\* next_completion returns None and the loop ends: TokioDriver does so when it
\* has nothing to poll, another driver "when no more work can complete".
NoCompletion ==
  /\ pc = "await" /\ (inflight = {} \/ mode = "quitter")
  /\ pc' = "done" /\ result' = "Ok"
  /\ UNCHANGED <<tasks, ready_count, pending_queue, completed_tasks, inflight, mode, issued, failed>>

\* The future of the call is dropped while it awaits a completion.
Drop ==
  /\ pc = "await"
  /\ pc' = "dropped"
  /\ UNCHANGED <<tasks, ready_count, pending_queue, completed_tasks, inflight, mode, result, issued, failed>>
-----------------------------------------------------------------------------
(* apply_completion.  A host call comes back with Success or an error; the    *)
(* result of a wait is pushed on the stack, which may be full.                *)

Left(t) == t.pending - 1
Error(op) == IF op.kind = "host" THEN "HostError" ELSE "StackOverflow"

\* With the last effect gone a task without a terminal result can run again.
\* A wait that returns wakes the task even while other effects are pending.
Wakes(t, op, ok) ==
  /\ ok
  /\ IF Left(t) = 0 THEN t.terminal = "none" ELSE op.kind = "wait"

Finishes(t, op, ok) == Left(t) = 0 /\ (~ok \/ t.terminal # "none")

\* Mutation: a result the slice left behind takes precedence over the error.
KeepTerminal(t, op, ok) == IF ok \/ t.terminal # "none" THEN t.terminal ELSE Error(op)
TerminalAfter(t, op, ok) == IF ok THEN t.terminal ELSE Error(op)

TrapAfter(t, op, ok) == IF ok THEN t.trap ELSE Error(op)

Settled(t, op, ok) ==
  [t EXCEPT !.pending = Left(t),
            !.flag = IF Wakes(t, op, ok) THEN "Ready" ELSE @,
            !.terminal = TerminalAfter(t, op, ok),
            !.trap = TrapAfter(t, op, ok)]

\* tasks.remove(i).
Without(i) == [k \in 1..(Len(tasks) - 1) |-> tasks[IF k < i THEN k ELSE k + 1]]

ApplyCompletion(op, ok) ==
  LET i == CHOOSE k \in DOMAIN tasks : tasks[k].id = op.id
      t == Settled(tasks[i], op, ok)
  IN
  IF \A k \in DOMAIN tasks : tasks[k].id # op.id
  THEN UNCHANGED <<tasks, completed_tasks, ready_count>>
  ELSE IF Finishes(tasks[i], op, ok)
  THEN /\ tasks' = Without(i)
       /\ completed_tasks' = Append(completed_tasks, Completed(t))
       /\ UNCHANGED ready_count
  ELSE /\ tasks' = [tasks EXCEPT ![i] = t]
       /\ ready_count' = ready_count + (IF Wakes(tasks[i], op, ok) THEN 1 ELSE 0)
       /\ UNCHANGED completed_tasks

\* next_completion returns, and the loop goes round.
Complete(op, ok) ==
  /\ pc = "await" /\ op \in inflight
  /\ inflight' = inflight \ {op}
  /\ ApplyCompletion(op, ok)
  /\ IF tasks' = <<>> THEN pc' = "done" /\ result' = "Ok" ELSE pc' = "ready" /\ UNCHANGED result
  /\ failed' = IF ok THEN failed ELSE failed \cup {op.id}
  /\ UNCHANGED <<pending_queue, mode, issued>>
-----------------------------------------------------------------------------
Kinds == {"host", "wait"}
Effects(id) == UNION {[1..n -> Kinds] : n \in 0..MaxEffects[id]}

LoopStep ==
  \/ Rotate
  \/ /\ tasks # <<>>
     /\ \E kinds \in Effects(Head(tasks).id), end \in {"cont", "done", "trap"} : RunSlice(kinds, end)
  \/ LeaveReady

DriverStep ==
  \/ \E op \in inflight, ok \in BOOLEAN : Complete(op, ok)
  \/ NoCompletion

Finished == pc \in {"done", "dropped"} /\ UNCHANGED vars

Next == LoopStep \/ DriverStep \/ Drop \/ Finished

Spec == Init /\ [][Next]_vars

\* The loop is polled, and the driver "must eventually return a completion for
\* every submitted operation" (ExecutionDriver).
FairSpec == Spec /\ WF_vars(LoopStep) /\ WF_vars(DriverStep)
-----------------------------------------------------------------------------
Outstanding(id) ==
  Cardinality({op \in inflight : op.id = id})
    + Cardinality({i \in DOMAIN pending_queue : pending_queue[i].id = id})

\* Type correctness.
TypeOK ==
  /\ tasks \in Seq([id : Tasks, flag : {"Ready", "NonReady"}, pending : Nat,
                    terminal : {"none", "Success", "Trap", "HostError", "StackOverflow"},
                    trap : {"none", "Trap", "HostError", "StackOverflow"}])
  /\ ready_count \in Nat
  /\ Range(pending_queue) \cup inflight \subseteq [id : Tasks, n : 1..MaxOps, kind : Kinds]
  /\ pc \in {"ready", "await", "done", "dropped"}
  /\ result \in {"none", "Ok", "AsyncPending", "Stalled"}

\* ready_count counts the Ready tasks of the queue.  Too low and a runnable task
\* is never run; too high and run_ready_tasks rotates blocked tasks for ever or
\* pops an empty queue.
ReadyCountExact ==
  ready_count = Cardinality({i \in DOMAIN tasks : tasks[i].flag = "Ready"})

\* pending_effects of a task is the number of its operations that are queued or
\* in flight: the subtraction in apply_completion cannot underflow, and no task
\* waits for a completion that nobody owes it.
EffectsOwed ==
  \A i \in DOMAIN tasks : tasks[i].pending = Outstanding(tasks[i].id)

\* Each task pushed is queued once or has completed once, and never both.
TaskOnce ==
  \A id \in Tasks :
    Cardinality({i \in DOMAIN tasks : tasks[i].id = id})
      + Cardinality({i \in DOMAIN completed_tasks : completed_tasks[i].id = id}) = 1

\* The counters and the queue account for every task and every effect: nothing is
\* run twice, waited for in vain or forgotten.
Accounted == TypeOK /\ ReadyCountExact /\ EffectsOwed /\ TaskOnce

\* A guest call, whose slices stop at their first effect.
GuestCall(id) == MaxEffects[id] <= 1

\* A guest call that trapped, or one of whose effects failed, does not complete with
\* Success; the trap context it carries is there exactly when it failed and is
\* the context of the failure it reports.
FailureReported ==
  \A i \in DOMAIN completed_tasks :
    LET c == completed_tasks[i] IN
    GuestCall(c.id) =>
    /\ c.id \in failed <=> c.result # "Success"
    /\ c.trap = IF c.result = "Success" THEN "none" ELSE c.result

\* A guest call is not run again before its effects have completed.
ReadyIsSettled ==
  \A i \in DOMAIN tasks : GuestCall(tasks[i].id) /\ tasks[i].flag = "Ready" =>
    Outstanding(tasks[i].id) = 0 /\ tasks[i].terminal = "none"

\* When the loop returns Ok every task has completed, so the pop().unwrap() of
\* run_module_function finds its result, unless the driver gave up; a synchronous run that cannot go on
\* reports AsyncPending, with an operation left in the queue, and never Stalled.
ReturnsComplete ==
  /\ result = "Ok" /\ mode # "quitter" => tasks = <<>> /\ Len(completed_tasks) = Cardinality(Tasks)
  /\ result # "Stalled"
  /\ pc = "await" => inflight # {}

\* A suspended task is resumed or completes, unless the call is dropped, returns
\* AsyncPending, or its driver may give up, or another task yields for ever
\* without an effect: run_ready_tasks goes on while any task is ready.
SuspendedResumes ==
  []<>(pc # "ready") =>
  \A id \in Tasks :
    (\E i \in DOMAIN tasks : tasks[i].id = id /\ tasks[i].flag = "NonReady")
      ~> ((\A i \in DOMAIN tasks : tasks[i].id = id => tasks[i].flag = "Ready")
          \/ pc = "dropped" \/ result = "AsyncPending" \/ mode = "quitter")
=============================================================================
