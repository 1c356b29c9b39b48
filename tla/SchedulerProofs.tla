-------------------------- MODULE SchedulerProofs --------------------------
(***************************************************************************)
(* The invariants of Scheduler, for any number of tasks and of effects.    *)
(*                                                                         *)
(* The queue is only ever rotated, shortened by a task that completes, or  *)
(* changed at one task, so the proofs speak of the set of its tasks.       *)
(***************************************************************************)
EXTENDS Scheduler, FiniteSetTheorems, TLAPS

\* One sequence behind another.
LEMMA ConcatFacts ==
  ASSUME NEW S, NEW q \in Seq(S), NEW p \in Seq(S)
  PROVE  /\ q \o p \in Seq(S) /\ DOMAIN (q \o p) = 1..(Len(q) + Len(p))
         /\ \A i \in 1..(Len(q) + Len(p)) : (q \o p)[i] = IF i <= Len(q) THEN q[i] ELSE p[i - Len(q)]
OBVIOUS

\* No two entries are of one task.
Distinct(q) == \A i, j \in DOMAIN q : q[i].id = q[j].id => i = j

\* The entry old of q has gone from r, and those of new have come.
Replaced(q, r, old, new) == Distinct(r) /\ Range(r) = (Range(q) \ {old}) \cup new

\* The first task leaves the queue.
LEMMA TailReplaces ==
  ASSUME NEW S, NEW q \in Seq(S), q # <<>>, Distinct(q)
  PROVE  Tail(q) \in Seq(S) /\ Head(q) \in Range(q) /\ Replaced(q, Tail(q), Head(q), {})
<1>1. PICK m \in Nat : m = Len(q) /\ m # 0 /\ DOMAIN q = 1..m /\ Head(q) = q[1]
  OBVIOUS
<1>2. /\ Tail(q) \in Seq(S) /\ DOMAIN Tail(q) = 1..(m - 1)
      /\ \A i \in 1..(m - 1) : Tail(q)[i] = q[i + 1]
  BY <1>1
<1>3. Distinct(Tail(q))
  BY <1>1, <1>2 DEF Distinct
<1>4. ASSUME NEW t PROVE t \in Range(Tail(q)) <=> t \in Range(q) /\ t # q[1]
  <2>1. ASSUME NEW i \in 1..(m - 1) PROVE q[i + 1] # q[1] /\ i + 1 \in 1..m
    BY <1>1 DEF Distinct
  <2>2. ASSUME NEW i \in 1..m, i # 1 PROVE i - 1 \in 1..(m - 1) /\ Tail(q)[i - 1] = q[i]
    BY <1>1, <1>2, <2>2
  <2>3. ASSUME t \in Range(Tail(q)) PROVE t \in Range(q) /\ t # q[1]
    BY <1>1, <1>2, <2>1, <2>3 DEF Range
  <2>4. ASSUME t \in Range(q), t # q[1] PROVE t \in Range(Tail(q))
    <3>1. PICK i \in 1..m : t = q[i] /\ i # 1
      BY <1>1, <2>4 DEF Range
    <3> QED BY Zenon, <1>2, <2>2, <3>1 DEF Range
  <2> QED BY <2>3, <2>4
<1>5. Head(q) \in Range(q)
  BY <1>1 DEF Range
<1>6. Range(Tail(q)) = (Range(q) \ {Head(q)}) \cup {}
  BY <1>1, <1>4
<1> QED BY <1>2, <1>3, <1>5, <1>6 DEF Replaced

\* A task is pushed at the back.
LEMMA AppendAdds ==
  ASSUME NEW S, NEW q \in Seq(S), NEW x \in S, Distinct(q), \A t \in Range(q) : t.id # x.id
  PROVE  /\ Append(q, x) \in Seq(S) /\ Append(q, x) # <<>>
         /\ Distinct(Append(q, x)) /\ Range(Append(q, x)) = Range(q) \cup {x}
<1>1. PICK m \in Nat : m = Len(q) /\ DOMAIN q = 1..m
  OBVIOUS
<1>2. /\ Append(q, x) \in Seq(S) /\ DOMAIN Append(q, x) = 1..(m + 1)
      /\ \A i \in 1..(m + 1) : Append(q, x)[i] = IF i = m + 1 THEN x ELSE q[i]
  BY <1>1
<1>3. ASSUME NEW t PROVE t \in Range(Append(q, x)) <=> t \in Range(q) \/ t = x
  BY <1>1, <1>2 DEF Range
<1>4. Distinct(Append(q, x))
  BY <1>1, <1>2 DEF Distinct, Range
<1>5. Append(q, x) # <<>>
  BY <1>2
<1> QED BY <1>2, <1>3, <1>4, <1>5

\* The first task goes to the back, possibly changed.
LEMMA RotateReplaces ==
  ASSUME NEW S, NEW q \in Seq(S), q # <<>>, Distinct(q), NEW x \in S, x.id = Head(q).id
  PROVE  /\ Append(Tail(q), x) \in Seq(S) /\ Append(Tail(q), x) # <<>>
         /\ Replaced(q, Append(Tail(q), x), Head(q), {x})
<1>1. PICK r : r = Tail(q)
  BY Zenon
<1>2. r \in Seq(S) /\ Head(q) \in Range(q) /\ Replaced(q, r, Head(q), {})
  BY <1>1, TailReplaces
<1>3. ASSUME NEW t \in Range(r) PROVE t.id # x.id
  <2>1. t \in Range(q) /\ t # Head(q)
    BY Zenon, <1>2 DEF Replaced
  <2>2. PICK i \in DOMAIN q : q[i] = t
    BY Zenon, <2>1 DEF Range
  <2>3. PICK j \in DOMAIN q : q[j] = Head(q)
    BY Zenon, <1>2 DEF Range
  <2>4. q[i].id # q[j].id
    BY Zenon, <2>1, <2>2, <2>3 DEF Distinct
  <2> QED BY Zenon, <2>2, <2>3, <2>4
<1>4. /\ Append(r, x) \in Seq(S) /\ Append(r, x) # <<>>
      /\ Distinct(Append(r, x)) /\ Range(Append(r, x)) = Range(r) \cup {x}
  BY <1>2, <1>3, AppendAdds DEF Replaced
<1> QED BY <1>1, <1>2, <1>4 DEF Replaced

\* tasks.remove(i).
LEMMA RemoveReplaces ==
  ASSUME NEW S, NEW q \in Seq(S), Distinct(q), NEW i \in DOMAIN q,
         NEW r, r = [k \in 1..(Len(q) - 1) |-> q[IF k < i THEN k ELSE k + 1]]
  PROVE  r \in Seq(S) /\ Replaced(q, r, q[i], {})
<1>1. PICK m \in Nat : m = Len(q) /\ DOMAIN q = 1..m
  OBVIOUS
<1>2. /\ DOMAIN r = 1..(m - 1)
      /\ \A k \in 1..(m - 1) : r[k] = IF k < i THEN q[k] ELSE q[k + 1]
  BY <1>1
<1>5. r \in Seq(S)
  <2>1. i \in 1..m /\ m - 1 \in Nat
    BY <1>1
  <2>2. \A k \in 1..(m - 1) : q[IF k < i THEN k ELSE k + 1] \in S
    BY <1>1, <2>1
  <2>3. r \in [1..(m - 1) -> S]
    BY <1>1, <2>2
  <2> QED BY <2>1, <2>3
<1>3. Distinct(r)
  BY <1>1, <1>2 DEF Distinct
<1>4. ASSUME NEW t PROVE t \in Range(r) <=> t \in Range(q) /\ t # q[i]
  <2>1. ASSUME NEW k \in 1..(m - 1) PROVE r[k] # q[i] /\ r[k] \in Range(q)
    BY <1>1, <1>2 DEF Distinct, Range
  <2>2. ASSUME NEW k \in 1..m, k # i PROVE q[k] \in Range(r)
    <3>1. CASE k < i
      BY <1>1, <1>2, <3>1 DEF Range
    <3>2. CASE k > i
      <4>1. k - 1 \in 1..(m - 1) /\ r[k - 1] = q[k]
        BY <1>1, <1>2, <3>2
      <4> QED BY Zenon, <1>2, <4>1 DEF Range
    <3> QED BY <1>1, <2>2, <3>1, <3>2
  <2>3. t \in Range(r) => t \in Range(q) /\ t # q[i]
    BY Zenon, <1>2, <2>1 DEF Range
  <2>4. t \in Range(q) /\ t # q[i] => t \in Range(r)
    BY SMTT(20), <1>1, <2>2 DEF Range
  <2> QED BY <2>3, <2>4
<1> QED BY <1>3, <1>4, <1>5 DEF Replaced

\* One task of the queue changes in place.
LEMMA ExceptReplaces ==
  ASSUME NEW S, NEW q \in Seq(S), Distinct(q), NEW i \in DOMAIN q, NEW x \in S, x.id = q[i].id,
         NEW r, r = [q EXCEPT ![i] = x]
  PROVE  r \in Seq(S) /\ r # <<>> /\ Replaced(q, r, q[i], {x})
<1>1. PICK m \in Nat : m = Len(q) /\ DOMAIN q = 1..m
  OBVIOUS
<1>2. /\ r \in Seq(S) /\ DOMAIN r = 1..m /\ r # <<>>
      /\ \A k \in 1..m : r[k] = IF k = i THEN x ELSE q[k]
  BY <1>1
<1>3. Distinct(r)
  BY <1>1, <1>2 DEF Distinct
<1>4. ASSUME NEW t PROVE t \in Range(r) <=> (t \in Range(q) /\ t # q[i]) \/ t = x
  BY <1>1, <1>2 DEF Range, Distinct
<1> QED BY Zenon, <1>2, <1>3, <1>4 DEF Replaced

-----------------------------------------------------------------------------
(* The inductive invariant. *)

TaskRecs ==
  [id : Tasks, flag : {"Ready", "NonReady"}, pending : Nat,
   terminal : {"none", "Success", "Trap", "HostError", "StackOverflow"},
   trap : {"none", "Trap", "HostError", "StackOverflow"}]
DoneRecs ==
  [id : Tasks, result : {"none", "Success", "Trap", "HostError", "StackOverflow"},
   trap : {"none", "Trap", "HostError", "StackOverflow"}]
OpRecs == [id : Tasks, n : 1..MaxOps, kind : Kinds]

\* A task is queued or completed.
Partition(q, c) ==
  /\ Distinct(q) /\ Distinct(c)
  /\ \A id \in Tasks : (\E t \in Range(q) : t.id = id) <=> ~ (\E t \in Range(c) : t.id = id)

\* No operation is held twice, and a task's next operations will have new numbers.
OpsOnce(queue, held, count) ==
  /\ \A i, j \in DOMAIN queue : queue[i] = queue[j] => i = j
  /\ held \cap Range(queue) = {}
  /\ \A op \in held \cup Range(queue) : op.n <= count[op.id]

ReadyOf(Q) == {t \in Q : t.flag = "Ready"}
OwedTo(O, id) == {op \in O : op.id = id}

\* The tasks of Q wait for the operations of O.
Owed(Q, O) ==
  /\ \A t \in Q : t.pending = Cardinality(OwedTo(O, t.id))
  /\ \A op \in O : \E t \in Q : t.id = op.id

\* A task that is not ready waits for something; a guest call that is ready does not.
Blocked(t) == t.flag = "NonReady" => t.pending # 0
Told(t, result_, failures) ==
  /\ t.id \in failures <=> result_ \notin {"none", "Success"}
  /\ t.trap = IF result_ \in {"none", "Success"} THEN "none" ELSE result_
GuestTask(t, failures) ==
  GuestCall(t.id) =>
    /\ t.pending <= 1
    /\ t.flag = "Ready" => t.pending = 0 /\ t.terminal = "none"
    /\ Told(t, t.terminal, failures)
GuestDone(c, failures) ==
  GuestCall(c.id) => c.result # "none" /\ Told(c, c.result, failures)

TasksOK ==
  /\ tasks \in Seq(TaskRecs) /\ completed_tasks \in Seq(DoneRecs) /\ ready_count \in Nat
  /\ Partition(tasks, completed_tasks)
  /\ ready_count = Cardinality(ReadyOf(Range(tasks)))
  /\ \A t \in Range(tasks) : Blocked(t) /\ GuestTask(t, failed)
  /\ \A c \in Range(completed_tasks) : GuestDone(c, failed)

OpsOK ==
  /\ pending_queue \in Seq(OpRecs) /\ inflight \subseteq OpRecs /\ IsFiniteSet(inflight)
  /\ issued \in [Tasks -> 0..MaxOps]
  /\ OpsOnce(pending_queue, inflight, issued)

\* The driver is awaited only for an operation, by a loop that has no task to run.
LoopOK ==
  /\ pc \in {"ready", "await", "done", "dropped"} /\ mode \in {"driver", "quitter", "sync"}
  /\ result \in {"none", "Ok", "AsyncPending"}
  /\ pc # "done" => result = "none"
  /\ pc = "await" => /\ \A t \in Range(tasks) : t.flag = "NonReady"
                     /\ inflight # {} /\ mode # "sync"
  /\ mode = "sync" => inflight = {}
  /\ result = "Ok" /\ mode # "quitter" => tasks = <<>>

IInv ==
  TasksOK /\ OpsOK /\ LoopOK /\ Owed(Range(tasks), inflight \cup Range(pending_queue))
-----------------------------------------------------------------------------
(* Lemmas about the sets of tasks and of operations. *)

UniqueIn(Q) == \A t, u \in Q : t.id = u.id => t = u

\* A queue in which no two entries have the same id holds at most one record of
\* each task.
LEMMA DistinctIsUnique ==
  ASSUME NEW q, Distinct(q)
  PROVE  UniqueIn(Range(q))
BY DEF Distinct, UniqueIn, Range

\* The ready tasks after a task was replaced by another, or by none.
LEMMA ReadyReplaced ==
  ASSUME NEW Q, IsFiniteSet(Q), NEW old \in Q, NEW new, new \notin Q \ {old}
  PROVE  /\ Cardinality(ReadyOf(Q)) \in Nat
         /\ Cardinality(ReadyOf(Q \ {old})) =
              Cardinality(ReadyOf(Q)) - (IF old.flag = "Ready" THEN 1 ELSE 0)
         /\ Cardinality(ReadyOf((Q \ {old}) \cup {new})) =
              Cardinality(ReadyOf(Q)) - (IF old.flag = "Ready" THEN 1 ELSE 0)
                                      + (IF new.flag = "Ready" THEN 1 ELSE 0)
<1>1. PICK R : R = ReadyOf(Q)
  OBVIOUS
<1>2. IsFiniteSet(R) /\ Cardinality(R) \in Nat
  <2>1. R \in SUBSET Q
    BY <1>1 DEF ReadyOf
  <2> QED BY <2>1, FS_Subset, FS_CardinalityType
<1>3. PICK P : P = ReadyOf(Q \ {old})
  OBVIOUS
<1>4. /\ IsFiniteSet(P) /\ Cardinality(P) \in Nat
      /\ Cardinality(P) = Cardinality(R) - (IF old.flag = "Ready" THEN 1 ELSE 0)
  <2>1. P = R \ {old} /\ (old \in R <=> old.flag = "Ready")
    BY <1>1, <1>3 DEF ReadyOf
  <2>2. /\ IsFiniteSet(R \ {old})
        /\ Cardinality(R \ {old}) = IF old \in R THEN Cardinality(R) - 1 ELSE Cardinality(R)
    BY <1>2, FS_RemoveElement
  <2>3. Cardinality(P) \in Nat
    BY <2>1, <2>2, FS_CardinalityType
  <2> QED BY <1>2, <2>1, <2>2, <2>3
<1>5. Cardinality(ReadyOf((Q \ {old}) \cup {new})) = Cardinality(P) + (IF new.flag = "Ready" THEN 1 ELSE 0)
  <2>1. CASE new.flag = "Ready"
    <3>1. ReadyOf((Q \ {old}) \cup {new}) = P \cup {new} /\ new \notin P
      BY <1>3, <2>1 DEF ReadyOf
    <3>2. Cardinality(P \cup {new}) = Cardinality(P) + 1
      BY Zenon, <1>4, <3>1, FS_AddElement
    <3> QED BY <2>1, <3>1, <3>2
  <2>2. CASE new.flag # "Ready"
    <3>1. ReadyOf((Q \ {old}) \cup {new}) = P
      BY <1>3, <2>2 DEF ReadyOf
    <3> QED BY <1>4, <2>2, <3>1
  <2> QED BY <2>1, <2>2
<1> QED BY <1>1, <1>2, <1>3, <1>4, <1>5

\* A task with nothing pending leaves.
LEMMA OwedWithout ==
  ASSUME NEW Q, NEW O, IsFiniteSet(O), Owed(Q, O), NEW t \in Q, t.pending = 0
  PROVE  Owed(Q \ {t}, O)
<1>1. OwedTo(O, t.id) = {}
  <2>1. OwedTo(O, t.id) \in SUBSET O
    BY DEF OwedTo
  <2>2. IsFiniteSet(OwedTo(O, t.id))
    BY <2>1, FS_Subset
  <2>3. Cardinality(OwedTo(O, t.id)) = 0
    BY DEF Owed
  <2> QED BY <2>2, <2>3, FS_EmptySet
<1>2. \A op \in O : op.id # t.id
  BY <1>1 DEF OwedTo
<1> QED BY <1>2 DEF Owed

\* A slice of t pushes the operations of N.
LEMMA OwedAfterSlice ==
  ASSUME NEW Q, NEW O, IsFiniteSet(O), Owed(Q, O), UniqueIn(Q), NEW t \in Q,
         NEW N, IsFiniteSet(N), N \cap O = {}, \A op \in N : op.id = t.id,
         NEW u, u.id = t.id, u.pending = t.pending + Cardinality(N)
  PROVE  Owed((Q \ {t}) \cup {u}, O \cup N)
<1>1. Cardinality(OwedTo(O \cup N, t.id)) = t.pending + Cardinality(N)
  <2>1. OwedTo(O \cup N, t.id) = OwedTo(O, t.id) \cup N /\ OwedTo(O, t.id) \in SUBSET O
    BY DEF OwedTo
  <2>2. IsFiniteSet(OwedTo(O, t.id)) /\ OwedTo(O, t.id) \cap N = {}
    BY <2>1, FS_Subset
  <2>3. PICK c \in Nat : c = Cardinality(OwedTo(O, t.id))
    BY <2>2, FS_CardinalityType
  <2>4. PICK d \in Nat : d = Cardinality(N)
    BY FS_CardinalityType
  <2>5. Cardinality(OwedTo(O, t.id) \cup N) = c + d - Cardinality(OwedTo(O, t.id) \cap N)
    BY <2>2, <2>3, <2>4, FS_Union
  <2>6. Cardinality(OwedTo(O, t.id) \cap N) = 0
    BY Zenon, <2>2, FS_EmptySet
  <2>7. t.pending = c
    BY <2>3 DEF Owed
  <2>8. Cardinality(OwedTo(O, t.id) \cup N) = c + d
    BY <2>5, <2>6
  <2> QED BY Zenon, <2>1, <2>4, <2>7, <2>8
<1>2. \A v \in Q \ {t} : OwedTo(O \cup N, v.id) = OwedTo(O, v.id)
  BY DEF OwedTo, UniqueIn
<1>3. \A op \in O \cup N : \E v \in (Q \ {t}) \cup {u} : v.id = op.id
  BY DEF Owed
<1>4. \A v \in (Q \ {t}) \cup {u} : v.pending = Cardinality(OwedTo(O \cup N, v.id))
  BY Zenon, <1>1, <1>2 DEF Owed
<1> QED BY Zenon, <1>3, <1>4 DEF Owed

\* An operation of t completes.
LEMMA OwedAfterCompletion ==
  ASSUME NEW Q, NEW O, IsFiniteSet(O), Owed(Q, O), UniqueIn(Q), NEW t \in Q,
         NEW op \in O, op.id = t.id, NEW u, u.id = t.id, u.pending = t.pending - 1
  PROVE  Owed((Q \ {t}) \cup {u}, O \ {op}) /\ t.pending \in Nat /\ t.pending # 0
<1>1. PICK P : P = OwedTo(O, t.id)
  OBVIOUS
<1>2. P \in SUBSET O /\ op \in P /\ OwedTo(O \ {op}, t.id) = P \ {op}
  BY <1>1 DEF OwedTo
<1>3. IsFiniteSet(P) /\ Cardinality(P) \in Nat /\ Cardinality(P) = t.pending
  BY <1>1, <1>2, FS_Subset, FS_CardinalityType DEF Owed
<1>4. Cardinality(P \ {op}) = t.pending - 1 /\ t.pending # 0
  <2>1. Cardinality(P \ {op}) = Cardinality(P) - 1
    BY Zenon, <1>2, <1>3, FS_RemoveElement
  <2>2. Cardinality(P) # 0
    BY <1>2, <1>3, FS_EmptySet
  <2> QED BY <1>3, <2>1, <2>2
<1>5. \A v \in Q \ {t} : OwedTo(O \ {op}, v.id) = OwedTo(O, v.id)
  BY DEF OwedTo, UniqueIn
<1>6. \A o \in O \ {op} : \E v \in (Q \ {t}) \cup {u} : v.id = o.id
  BY DEF Owed
<1>7. \A v \in (Q \ {t}) \cup {u} : v.pending = Cardinality(OwedTo(O \ {op}, v.id))
  BY Zenon, <1>2, <1>4, <1>5 DEF Owed
<1> QED BY Zenon, <1>3, <1>4, <1>6, <1>7 DEF Owed

\* A queued task is replaced by one with the same id, or completes.
LEMMA PartitionReplaced ==
  ASSUME NEW q, NEW r, NEW c, NEW old \in Range(q), NEW new, new.id = old.id,
         Partition(q, c), Replaced(q, r, old, {new})
  PROVE  Partition(r, c)
BY DEF Partition, Replaced

Joined(r, c, d) ==
  /\ Partition(r, Append(c, d)) /\ Append(c, d) \in Seq(DoneRecs)
  /\ Range(Append(c, d)) = Range(c) \cup {d}

\* Moving a task from the queue to the completed list leaves each task in one of
\* the two.
LEMMA PartitionMoved ==
  ASSUME NEW q, NEW r, NEW c \in Seq(DoneRecs), NEW old \in Range(q), NEW d \in DoneRecs, d.id = old.id,
         Partition(q, c), Replaced(q, r, old, {})
  PROVE  Joined(r, c, d)
<1>1. d.id \in Tasks /\ old.id = d.id
  BY DEF DoneRecs
<1>2. \A t \in Range(c) : t.id # d.id
  BY <1>1 DEF Partition
<1>3. /\ Append(c, d) \in Seq(DoneRecs)
      /\ Distinct(Append(c, d)) /\ Range(Append(c, d)) = Range(c) \cup {d}
  BY <1>2, AppendAdds DEF Partition
<1>4. UniqueIn(Range(q))
  BY DistinctIsUnique DEF Partition
<1>5. ASSUME NEW id \in Tasks
      PROVE  (\E t \in Range(r) : t.id = id) <=> ~ (\E t \in Range(c) \cup {d} : t.id = id)
  <2>1. CASE id = d.id
    BY <1>1, <1>4, <2>1 DEF Replaced, UniqueIn
  <2>2. CASE id # d.id
    BY <1>1, <2>2 DEF Replaced, Partition
  <2> QED BY <2>1, <2>2
<1> QED BY <1>3, <1>5 DEF Partition, Replaced, Joined

\* The operations a slice pushes: n new ones of task id, numbered from base.
NewOps(ops, id, base, n) ==
  /\ ops \in Seq(OpRecs) /\ Len(ops) = n
  /\ \A i, j \in DOMAIN ops : ops[i] = ops[j] => i = j
  /\ \A op \in Range(ops) : op.id = id /\ base < op.n /\ op.n <= base + n

\* The operations that a slice submits are numbered from the task's count on.
LEMMA NewOpsFacts ==
  ASSUME NEW id \in Tasks, NEW n \in Nat, NEW base \in Nat, base + n <= MaxOps,
         NEW kinds \in [1..n -> Kinds], NEW ops,
         ops = [i \in DOMAIN kinds |-> [id |-> id, n |-> base + i, kind |-> kinds[i]]]
  PROVE  NewOps(ops, id, base, n)
<1>1. DOMAIN ops = 1..n /\ \A i \in 1..n : ops[i] = [id |-> id, n |-> base + i, kind |-> kinds[i]]
  OBVIOUS
<1>2. \A i \in 1..n : base + i \in 1..MaxOps
  BY SchedulerAssumption
<1>3. \A i \in 1..n : ops[i] \in OpRecs
  BY <1>1, <1>2 DEF OpRecs
<1>4. ops \in Seq(OpRecs) /\ Len(ops) = n
  BY <1>3
<1>5. \A i \in 1..n : ops[i].id = id /\ ops[i].n = base + i
  BY <1>1
<1>6. \A i, j \in DOMAIN ops : ops[i] = ops[j] => i = j
  BY <1>1, <1>5
<1>7. \A op \in Range(ops) : op.id = id /\ base < op.n /\ op.n <= base + n
  BY <1>1, <1>5 DEF Range
<1> QED BY Zenon, <1>4, <1>6, <1>7 DEF NewOps

\* A slice submits as many operations as it counts.
LEMMA NewOpsCount ==
  ASSUME NEW id, NEW base, NEW n \in Nat, NEW ops, NewOps(ops, id, base, n)
  PROVE  IsFiniteSet(Range(ops)) /\ Cardinality(Range(ops)) = n
<1>1. ops \in [1..n -> Range(ops)] /\ DOMAIN ops = 1..n
  BY DEF NewOps, Range
<1>2. ops \in Bijection(1..n, Range(ops))
  <2>1. ops \in Injection(1..n, Range(ops))
    BY <1>1 DEF NewOps, Injection, IsInjective
  <2>2. ops \in Surjection(1..n, Range(ops))
    BY <1>1 DEF Surjection, Range
  <2> QED BY <2>1, <2>2 DEF Bijection
<1>3. ExistsBijection(1..n, Range(ops))
  BY <1>2 DEF ExistsBijection
<1>4. IsFiniteSet(1..n) /\ Cardinality(1..n) = n
  BY FS_Interval
<1> QED BY <1>3, <1>4, FS_Bijection

\* They are queued behind the others.
Grows(queue, held, count, id, n, ops) ==
  /\ queue \o ops \in Seq(OpRecs) /\ Range(queue \o ops) = Range(queue) \cup Range(ops)
  /\ Range(ops) \cap (held \cup Range(queue)) = {}
  /\ OpsOnce(queue \o ops, held, [count EXCEPT ![id] = @ + n])

\* Submitting newly numbered operations keeps every operation in one place.
LEMMA OpsOnceGrows ==
  ASSUME NEW queue \in Seq(OpRecs), NEW held, held \subseteq OpRecs, NEW count \in [Tasks -> 0..MaxOps],
         OpsOnce(queue, held, count), NEW id \in Tasks, NEW n \in Nat,
         NEW ops, NewOps(ops, id, count[id], n)
  PROVE  Grows(queue, held, count, id, n, ops)
<1>1. PICK m \in Nat : m = Len(queue) /\ DOMAIN queue = 1..m
  OBVIOUS
<1>2. ops \in Seq(OpRecs) /\ Len(ops) = n /\ DOMAIN ops = 1..n
  BY DEF NewOps
<1>3. PICK r : r = queue \o ops
  BY Zenon
<1>4. /\ r \in Seq(OpRecs) /\ DOMAIN r = 1..(m + n)
      /\ \A i \in 1..(m + n) : r[i] = IF i <= m THEN queue[i] ELSE ops[i - m]
  BY <1>1, <1>2, <1>3, ConcatFacts
<1>5. ASSUME NEW op PROVE op \in Range(r) <=> op \in Range(queue) \/ op \in Range(ops)
  <2>1. ASSUME op \in Range(r) PROVE op \in Range(queue) \/ op \in Range(ops)
    <3>1. PICK i \in 1..(m + n) : op = r[i]
      BY <1>4, <2>1 DEF Range
    <3>2. CASE i <= m
      BY <1>1, <1>4, <3>1, <3>2 DEF Range
    <3>3. CASE ~ i <= m
      <4>1. i - m \in 1..n
        BY <3>3
      <4> QED BY <1>2, <1>4, <3>1, <3>3, <4>1 DEF Range
    <3> QED BY <3>2, <3>3
  <2>2. ASSUME op \in Range(queue) PROVE op \in Range(r)
    <3>1. PICK i \in 1..m : op = queue[i]
      BY <1>1, <2>2 DEF Range
    <3>2. i \in 1..(m + n) /\ r[i] = op
      BY <1>4, <3>1
    <3> QED BY <1>4, <3>2 DEF Range
  <2>3. ASSUME op \in Range(ops) PROVE op \in Range(r)
    <3>1. PICK i \in 1..n : op = ops[i]
      BY <1>2, <2>3 DEF Range
    <3>2. i + m \in 1..(m + n) /\ ~ (i + m <= m) /\ (i + m) - m = i
      BY <3>1
    <3>3. r[i + m] = op
      BY <1>4, <3>1, <3>2
    <3> QED BY Zenon, <1>4, <3>2, <3>3 DEF Range
  <2> QED BY <2>1, <2>2, <2>3
<1>6. PICK c \in 0..MaxOps : c = count[id]
  OBVIOUS
<1>7. \A op \in Range(ops) : op \in OpRecs /\ op.id = id /\ c < op.n /\ op.n <= c + n
  BY <1>2, <1>6 DEF NewOps, Range
<1>8. \A op \in held \cup Range(queue) : op \in OpRecs /\ op.n <= count[op.id]
  BY <1>1 DEF OpsOnce, Range
<1>9. Range(ops) \cap (held \cup Range(queue)) = {}
  <2> SUFFICES ASSUME NEW op \in Range(ops), op \in held \cup Range(queue) PROVE FALSE
    OBVIOUS
  <2>1. op.n \in 1..MaxOps /\ op.n <= c /\ c < op.n
    BY <1>6, <1>7, <1>8 DEF OpRecs
  <2> QED BY <1>6, <2>1
<1>10. \A i, j \in DOMAIN r : r[i] = r[j] => i = j
  <2> SUFFICES ASSUME NEW i \in 1..(m + n), NEW j \in 1..(m + n), i < j, r[i] = r[j] PROVE FALSE
    BY <1>4
  <2>1. CASE j <= m
    <3>1. i \in DOMAIN queue /\ j \in DOMAIN queue /\ queue[i] = queue[j]
      BY <1>1, <1>4, <2>1
    <3> QED BY <3>1 DEF OpsOnce
  <2>2. CASE ~ i <= m
    <3>1. i - m \in DOMAIN ops /\ j - m \in DOMAIN ops /\ ops[i - m] = ops[j - m]
      BY <1>2, <1>4, <2>2
    <3>2. i - m = j - m
      BY Zenon, <3>1 DEF NewOps
    <3> QED BY <3>2
  <2>3. CASE i <= m /\ ~ j <= m
    <3>1. i \in 1..m /\ j - m \in 1..n /\ queue[i] = ops[j - m]
      BY <1>4, <2>3
    <3>2. queue[i] \in Range(queue) /\ ops[j - m] \in Range(ops)
      BY Zenon, <1>1, <1>2, <3>1 DEF Range
    <3> QED BY <1>9, <3>1, <3>2
  <2> QED BY <2>1, <2>2, <2>3
<1>11. PICK more : more = [count EXCEPT ![id] = @ + n]
  BY Zenon
<1>12. more[id] = c + n /\ \A o \in Tasks : o # id => more[o] = count[o]
  BY <1>6, <1>11
<1>13. \A op \in held \cup Range(r) : op.n <= more[op.id]
  <2> SUFFICES ASSUME NEW op \in held \cup Range(r) PROVE op.n <= more[op.id]
    OBVIOUS
  <2>1. CASE op \in Range(ops)
    BY <1>7, <1>12, <2>1
  <2>2. CASE op \in held \cup Range(queue)
    <3>1. op.id \in Tasks /\ op.n \in Nat /\ op.n <= count[op.id]
      BY <1>8, <2>2 DEF OpRecs
    <3> QED BY <1>6, <1>12, <3>1
  <2> QED BY <1>5, <2>1, <2>2
<1>14. held \cap Range(r) = {}
  BY <1>5, <1>9 DEF OpsOnce
<1>15. OpsOnce(r, held, more)
  BY <1>10, <1>13, <1>14 DEF OpsOnce
<1> QED BY <1>3, <1>4, <1>5, <1>9, <1>11, <1>15 DEF Grows

-----------------------------------------------------------------------------
(* The task after a slice, and after a completion. *)

\* A failure of one task says nothing of another.
LEMMA GuestFrame ==
  ASSUME NEW v, NEW id, v.id # id, NEW F, NEW G, G \in {F, F \cup {id}}
  PROVE  /\ GuestTask(v, F) => GuestTask(v, G)
         /\ GuestDone(v, F) => GuestDone(v, G)
BY DEF GuestTask, GuestDone, Told

\* The task t goes on as u, or completes as u.
Continues(t, u, failures) ==
  u \in TaskRecs /\ u.id = t.id /\ Blocked(u) /\ GuestTask(u, failures)
Ends(t, u, failures) ==
  /\ u \in TaskRecs /\ u.id = t.id /\ Completed(u) \in DoneRecs /\ Completed(u).id = t.id
  /\ GuestDone(Completed(u), failures)

Sliced(t, p, end, u, failures) ==
  /\ u.id = t.id /\ u.pending = p /\ p \in Nat
  /\ u.flag = "Ready" <=> end = "cont" /\ p = 0
  /\ ~ FinishesNow(p, end) => Continues(t, u, failures)
  /\ FinishesNow(p, end) => Ends(t, u, failures)

\* The task that a slice leaves behind: ready, waiting, done or failed.
LEMMA AfterSliceFacts ==
  ASSUME NEW t \in TaskRecs, t.flag = "Ready", NEW F, GuestTask(t, F),
         NEW n \in 0..MaxEffects[t.id], NEW end \in {"cont", "done", "trap"},
         NEW p, p = t.pending + n, NEW u, u = AfterSlice(t, p, end),
         NEW G, G = IF end = "trap" THEN F \cup {t.id} ELSE F
  PROVE  Sliced(t, p, end, u, G)
<1>1. t.id \in Tasks /\ t.pending \in Nat /\ MaxEffects[t.id] \in Nat
  BY SchedulerAssumption DEF TaskRecs
<1>2. p \in Nat
  BY <1>1
<1>3. /\ u \in TaskRecs /\ u.id = t.id /\ u.pending = p
      /\ u.flag = IF end = "cont" /\ p = 0 THEN "Ready" ELSE "NonReady"
      /\ u.terminal = IF end = "cont" THEN "none" ELSE IF end = "done" THEN "Success" ELSE "Trap"
      /\ u.trap = IF end = "trap" THEN "Trap" ELSE "none"
  BY Zenon, <1>2 DEF AfterSlice, TaskRecs
<1>4. GuestCall(t.id) => n <= 1 /\ t.pending = 0 /\ t.id \notin F
  BY <1>1 DEF GuestTask, GuestCall, Told
<1>5. GuestCall(t.id) => p <= 1 /\ (t.id \in G <=> end = "trap")
  BY <1>1, <1>4
<1>6. ~ FinishesNow(p, end) => Blocked(u)
  BY <1>3 DEF FinishesNow, Blocked
<1>7. GuestTask(u, G)
  BY <1>3, <1>5 DEF GuestTask, Told
<1>8. ASSUME FinishesNow(p, end) PROVE GuestDone(Completed(u), G)
  <2>1. Completed(u).id = t.id /\ Completed(u).result = u.terminal /\ Completed(u).trap = u.trap
    BY <1>3 DEF Completed
  <2> QED BY <1>3, <1>5, <1>8, <2>1 DEF FinishesNow, GuestDone, Told
<1>9. Completed(u) \in DoneRecs /\ Completed(u).id = t.id
  BY <1>3 DEF Completed, DoneRecs, TaskRecs
<1> QED BY <1>2, <1>3, <1>6, <1>7, <1>8, <1>9 DEF Continues, Ends, Sliced

Settles(t, op, ok, u, failures) ==
  /\ u.id = t.id /\ u.pending = t.pending - 1
  /\ u.flag = IF Wakes(t, op, ok) THEN "Ready" ELSE "NonReady"
  /\ ~ Finishes(t, op, ok) => Continues(t, u, failures)
  /\ Finishes(t, op, ok) => u.pending = 0 /\ Ends(t, u, failures)

\* The task that a completion leaves behind: one operation fewer, ready when it
\* was the last.
LEMMA SettledFacts ==
  ASSUME NEW t \in TaskRecs, t.flag = "NonReady", t.pending # 0, NEW F, GuestTask(t, F),
         NEW op \in OpRecs, op.id = t.id, NEW ok \in BOOLEAN,
         NEW u, u = Settled(t, op, ok), NEW G, G = IF ok THEN F ELSE F \cup {op.id}
  PROVE  Settles(t, op, ok, u, G)
<1>1. t.id \in Tasks /\ t.pending \in Nat /\ t.pending - 1 \in Nat
  BY DEF TaskRecs
<1>2. PICK e \in {"HostError", "StackOverflow"} : e = Error(op)
  BY DEF Error
<1>3. /\ u \in TaskRecs /\ u.id = t.id /\ u.pending = t.pending - 1
      /\ u.flag = IF Wakes(t, op, ok) THEN "Ready" ELSE "NonReady"
      /\ u.terminal = IF ok THEN t.terminal ELSE e
      /\ u.trap = IF ok THEN t.trap ELSE e
  BY Zenon, <1>1, <1>2 DEF Settled, TaskRecs, Left, TerminalAfter, TrapAfter
<1>4. ~ Finishes(t, op, ok) => Blocked(u)
  BY <1>1, <1>3 DEF Finishes, Wakes, Left, Blocked
<1>5. GuestCall(t.id) => t.pending = 1
  BY <1>1 DEF GuestTask
<1>6. GuestCall(t.id) => Told(u, u.terminal, G)
  BY <1>2, <1>3 DEF GuestTask, Told
<1>7. ~ Finishes(t, op, ok) => GuestTask(u, G)
  <2> SUFFICES ASSUME ~ Finishes(t, op, ok), GuestCall(t.id) PROVE GuestTask(u, G)
    BY <1>3 DEF GuestTask
  <2>1. ok /\ t.terminal = "none"
    BY <1>5 DEF Finishes, Left
  <2>2. u.pending = 0 /\ u.terminal = "none"
    BY <1>3, <1>5, <2>1
  <2>3. Told(u, u.terminal, G)
    BY <1>6
  <2>4. u.id = t.id /\ u.pending <= 1
    BY <1>3, <2>2
  <2> QED BY <2>2, <2>3, <2>4 DEF GuestTask
<1>8. ASSUME Finishes(t, op, ok) PROVE GuestDone(Completed(u), G) /\ u.pending = 0
  <2>1. Completed(u).id = t.id /\ Completed(u).result = u.terminal /\ Completed(u).trap = u.trap
    BY <1>3 DEF Completed
  <2>2. u.terminal # "none"
    BY <1>2, <1>3, <1>8 DEF Finishes
  <2>3. u.pending = 0
    BY <1>3, <1>8 DEF Finishes, Left
  <2> QED BY Zenon, <1>3, <1>6, <2>1, <2>2, <2>3 DEF GuestDone, Told
<1>9. Completed(u) \in DoneRecs /\ Completed(u).id = t.id
  BY <1>3 DEF Completed, DoneRecs, TaskRecs
<1> QED BY <1>3, <1>4, <1>7, <1>8, <1>9 DEF Continues, Ends, Settles

-----------------------------------------------------------------------------
(* Every step keeps the invariant. *)

\* What the proofs of the steps need to know of the queue and of the operations.
LEMMA Finiteness ==
  ASSUME IInv
  PROVE  /\ IsFiniteSet(Range(tasks)) /\ UniqueIn(Range(tasks)) /\ Range(tasks) \subseteq TaskRecs
         /\ IsFiniteSet(inflight \cup Range(pending_queue))
         /\ inflight \cup Range(pending_queue) \subseteq OpRecs
<1>1. ASSUME NEW S, NEW q \in Seq(S) PROVE IsFiniteSet(Range(q)) /\ Range(q) \subseteq S
  <2>1. q \in [1..Len(q) -> Range(q)] /\ Len(q) \in Nat /\ DOMAIN q = 1..Len(q) /\ Range(q) \subseteq S
    BY DEF Range
  <2>2. q \in Surjection(1..Len(q), Range(q))
    BY <2>1 DEF Surjection, Range
  <2>3. IsFiniteSet(1..Len(q))
    BY <2>1, FS_Interval
  <2> QED BY <2>1, <2>2, <2>3, FS_Surjection
<1>2. UniqueIn(Range(tasks))
  BY DistinctIsUnique DEF IInv, TasksOK, Partition
<1>3. IsFiniteSet(Range(tasks)) /\ Range(tasks) \subseteq TaskRecs
  BY <1>1 DEF IInv, TasksOK, OpsOK
<1>4. IsFiniteSet(Range(pending_queue)) /\ Range(pending_queue) \subseteq OpRecs
  BY <1>1 DEF IInv, TasksOK, OpsOK
<1>5. IsFiniteSet(inflight) /\ inflight \subseteq OpRecs
  BY DEF IInv, TasksOK, OpsOK
<1>6. IsFiniteSet(inflight \cup Range(pending_queue))
  BY Zenon, <1>4, <1>5, FS_Union
<1> QED BY <1>2, <1>3, <1>4, <1>5, <1>6

\* What becomes of the tasks when one of them goes on as u, or completes as u.
Moves(t, u) ==
  \/ /\ Continues(t, u, failed')
     /\ tasks' \in Seq(TaskRecs) /\ tasks' # <<>> /\ Replaced(tasks, tasks', t, {u})
     /\ completed_tasks' = completed_tasks
     /\ ready_count' = ready_count - (IF t.flag = "Ready" THEN 1 ELSE 0)
                                   + (IF u.flag = "Ready" THEN 1 ELSE 0)
  \/ /\ Ends(t, u, failed') /\ u.pending = 0
     /\ tasks' \in Seq(TaskRecs) /\ Replaced(tasks, tasks', t, {})
     /\ completed_tasks' = Append(completed_tasks, Completed(u))
     /\ ready_count' = ready_count - (IF t.flag = "Ready" THEN 1 ELSE 0)

\* A step that replaces one task by its next state keeps the tasks partitioned.
LEMMA MovesKeeps ==
  ASSUME IInv, NEW t \in Range(tasks), NEW u, u.id = t.id, failed' \in {failed, failed \cup {t.id}},
         NEW O, Owed((Range(tasks) \ {t}) \cup {u}, O), IsFiniteSet(O), Moves(t, u)
  PROVE  TasksOK' /\ Owed(Range(tasks'), O)
<1>1. PICK Q : Q = Range(tasks)
  OBVIOUS
<1>2. IsFiniteSet(Q) /\ UniqueIn(Q) /\ t \in Q
  BY <1>1, Finiteness
<1>3. u \notin Q \ {t}
  BY <1>2 DEF UniqueIn
<1>4. \A v \in Q \ {t} : Blocked(v) /\ GuestTask(v, failed')
  <2>1. \A v \in Q \ {t} : v.id # t.id /\ Blocked(v) /\ GuestTask(v, failed)
    BY <1>1, <1>2 DEF IInv, TasksOK, UniqueIn
  <2> QED BY Zenon, <2>1, GuestFrame
<1>5. t.id \in Tasks
  BY <1>1, Finiteness DEF TaskRecs
<1>6. \A c \in Range(completed_tasks) : GuestDone(c, failed')
  <2>1. \A c \in Range(completed_tasks) : c.id # t.id /\ GuestDone(c, failed)
    BY <1>5 DEF IInv, TasksOK, Partition
  <2> QED BY Zenon, <2>1, GuestFrame
<1>7. PICK c \in Nat : c = ready_count /\ c = Cardinality(ReadyOf(Q))
  BY <1>1 DEF IInv, TasksOK, OpsOK
<1>8. /\ Cardinality(ReadyOf(Q \ {t})) = c - (IF t.flag = "Ready" THEN 1 ELSE 0)
      /\ Cardinality(ReadyOf((Q \ {t}) \cup {u})) = c - (IF t.flag = "Ready" THEN 1 ELSE 0)
                                                     + (IF u.flag = "Ready" THEN 1 ELSE 0)
  BY <1>2, <1>3, <1>7, ReadyReplaced
<1>9. \A P : P \in SUBSET (Q \cup {u}) => Cardinality(ReadyOf(P)) \in Nat
  <2> SUFFICES ASSUME NEW P \in SUBSET (Q \cup {u}) PROVE Cardinality(ReadyOf(P)) \in Nat
    OBVIOUS
  <2>1. IsFiniteSet(Q \cup {u})
    BY <1>2, FS_AddElement
  <2>2. ReadyOf(P) \in SUBSET (Q \cup {u})
    BY DEF ReadyOf
  <2> QED BY <2>1, <2>2, FS_Subset, FS_CardinalityType
<1>10. CASE /\ Continues(t, u, failed')
            /\ tasks' \in Seq(TaskRecs) /\ Replaced(tasks, tasks', t, {u})
            /\ completed_tasks' = completed_tasks
            /\ ready_count' = ready_count - (IF t.flag = "Ready" THEN 1 ELSE 0)
                                          + (IF u.flag = "Ready" THEN 1 ELSE 0)
  <2>1. Range(tasks') = (Q \ {t}) \cup {u}
    BY <1>1, <1>10 DEF Replaced
  <2>2. Partition(tasks', completed_tasks')
    BY <1>10, PartitionReplaced DEF IInv, TasksOK
  <2>3. ready_count' = Cardinality(ReadyOf(Range(tasks')))
    BY Zenon, <1>7, <1>8, <1>10, <2>1
  <2>4. ready_count' \in Nat
    BY <1>9, <2>1, <2>3
  <2>5. \A v \in Range(tasks') : Blocked(v) /\ GuestTask(v, failed')
    BY <1>4, <1>10, <2>1 DEF Continues
  <2>6. \A d \in Range(completed_tasks') : GuestDone(d, failed')
    BY <1>6, <1>10
  <2>7. completed_tasks' \in Seq(DoneRecs)
    BY <1>10 DEF IInv, TasksOK, OpsOK
  <2> QED BY <1>1, <1>10, <2>1, <2>2, <2>3, <2>4, <2>5, <2>6, <2>7 DEF TasksOK
<1>11. CASE /\ Ends(t, u, failed') /\ u.pending = 0
            /\ tasks' \in Seq(TaskRecs) /\ Replaced(tasks, tasks', t, {})
            /\ completed_tasks' = Append(completed_tasks, Completed(u))
            /\ ready_count' = ready_count - (IF t.flag = "Ready" THEN 1 ELSE 0)
  <2>1. Range(tasks') = Q \ {t}
    BY <1>1, <1>11 DEF Replaced
  <2>2. PICK d \in DoneRecs : d = Completed(u) /\ d.id = t.id /\ GuestDone(d, failed')
    BY <1>11 DEF Ends
  <2>3. completed_tasks \in Seq(DoneRecs) /\ Partition(tasks, completed_tasks)
    BY DEF IInv, TasksOK, OpsOK
  <2>4. /\ Partition(tasks', completed_tasks') /\ completed_tasks' \in Seq(DoneRecs)
        /\ Range(completed_tasks') = Range(completed_tasks) \cup {d}
    <3>1. Replaced(tasks, tasks', t, {}) /\ completed_tasks' = Append(completed_tasks, d)
      BY <1>11, <2>2
    <3>2. Joined(tasks', completed_tasks, d)
      BY Zenon, <2>2, <2>3, <3>1, PartitionMoved
    <3> QED BY <3>1, <3>2 DEF Joined
  <2>5. ready_count' = Cardinality(ReadyOf(Range(tasks')))
    BY Zenon, <1>7, <1>8, <1>11, <2>1
  <2>6. ready_count' \in Nat
    BY <1>9, <2>1, <2>5
  <2>7. \A v \in Range(tasks') : Blocked(v) /\ GuestTask(v, failed')
    BY <1>4, <2>1
  <2>8. \A e \in Range(completed_tasks') : GuestDone(e, failed')
    BY <1>6, <2>2, <2>4
  <2>9. Owed(Range(tasks'), O)
    <3>1. Owed(((Q \ {t}) \cup {u}) \ {u}, O)
      BY <1>1, <1>11, OwedWithout
    <3>2. ((Q \ {t}) \cup {u}) \ {u} = Q \ {t}
      BY <1>3
    <3> QED BY <2>1, <3>1, <3>2
  <2> QED BY <1>11, <2>4, <2>5, <2>6, <2>7, <2>8, <2>9 DEF TasksOK
<1> QED BY <1>10, <1>11 DEF Moves

\* Moving a task that is not ready to the back keeps the invariant.
LEMMA RotateKeeps ==
  ASSUME IInv, Rotate
  PROVE  IInv'
<1>1. /\ tasks \in Seq(TaskRecs) /\ tasks # <<>> /\ Distinct(tasks)
      /\ tasks' = Append(Tail(tasks), Head(tasks))
      /\ UNCHANGED <<ready_count, pending_queue, completed_tasks, inflight, pc, mode, result, issued, failed>>
  BY DEF Rotate, Push, IInv, TasksOK, Partition
<1>2. PICK t \in Range(tasks) : t = Head(tasks)
  BY <1>1, TailReplaces
<1>3. t \in TaskRecs
  BY Finiteness
<1>4. /\ tasks' \in Seq(TaskRecs) /\ tasks' # <<>>
      /\ Replaced(tasks, tasks', t, {t})
  BY Zenon, <1>1, <1>2, <1>3, RotateReplaces
<1>5. Range(tasks') = Range(tasks)
  BY <1>4 DEF Replaced
<1>6. Partition(tasks', completed_tasks')
  <2>1. Partition(tasks, completed_tasks)
    BY DEF IInv, TasksOK
  <2>2. Partition(tasks', completed_tasks)
    BY <1>4, <2>1, PartitionReplaced
  <2> QED BY <1>1, <2>2
<1>7. TasksOK'
  BY <1>1, <1>4, <1>5, <1>6 DEF IInv, TasksOK
<1>8. OpsOK'
  BY <1>1 DEF IInv, OpsOK
<1>9. LoopOK'
  BY <1>1, <1>5 DEF IInv, LoopOK, Rotate
<1>10. Owed(Range(tasks'), inflight' \cup Range(pending_queue'))
  BY <1>1, <1>5 DEF IInv
<1> QED BY <1>7, <1>8, <1>9, <1>10 DEF IInv

\* Running a slice of the first task keeps the invariant.
LEMMA SliceKeeps ==
  ASSUME IInv, tasks # <<>>, NEW kinds \in Effects(Head(tasks).id), NEW end \in {"cont", "done", "trap"},
         RunSlice(kinds, end)
  PROVE  IInv'
<1>1. tasks \in Seq(TaskRecs) /\ Distinct(tasks)
  BY DEF IInv, TasksOK, Partition
<1>2. PICK t \in Range(tasks) : t = Head(tasks)
  BY SMTT(20), <1>1, TailReplaces
<1>3. t \in TaskRecs /\ t.id \in Tasks /\ t.pending \in Nat /\ t.flag = "Ready" /\ GuestTask(t, failed)
  BY <1>2, Finiteness DEF TaskRecs, RunSlice, IInv, TasksOK
<1>4. PICK n \in 0..MaxEffects[t.id] : kinds \in [1..n -> Kinds]
  BY <1>2 DEF Effects
<1>5. n \in Nat /\ Len(kinds) = n
  <2>1. MaxEffects[t.id] \in Nat
    BY <1>3, SchedulerAssumption
  <2>2. n \in Nat
    BY <2>1
  <2> QED BY <1>4, <2>2
<1>6. PICK base \in 0..MaxOps : base = issued[t.id]
  BY <1>3 DEF IInv, OpsOK
<1>7. PICK ops : ops = [i \in DOMAIN kinds |-> [id |-> t.id, n |-> issued[t.id] + i, kind |-> kinds[i]]]
  BY Zenon
<1>8. NewOps(ops, t.id, base, n)
  <2>1. base + n <= MaxOps
    BY Zenon, <1>2, <1>5, <1>6 DEF RunSlice
  <2>2. ops = [i \in DOMAIN kinds |-> [id |-> t.id, n |-> base + i, kind |-> kinds[i]]]
    BY <1>6, <1>7
  <2>3. base \in Nat
    BY SchedulerAssumption
  <2> QED BY Zenon, <1>3, <1>4, <1>5, <2>1, <2>2, <2>3, NewOpsFacts
<1>9. PICK p : p = t.pending + n
  OBVIOUS
<1>10. PICK u : u = AfterSlice(t, p, end)
  OBVIOUS
<1>11. PICK G : G = IF end = "trap" THEN failed \cup {t.id} ELSE failed
  BY Zenon
<1>12. Sliced(t, p, end, u, G)
  BY Zenon, <1>3, <1>4, <1>9, <1>10, <1>11, AfterSliceFacts
<1>13. /\ pc = "ready" /\ failed' = G /\ UNCHANGED <<inflight, pc, mode, result>>
       /\ ready_count' = CountAfterSlice(t, p, end)
       /\ pending_queue' = pending_queue \o ops /\ issued' = [issued EXCEPT ![t.id] = @ + n]
       /\ FinishesNow(p, end) =>
            completed_tasks' = Append(completed_tasks, Completed(u)) /\ tasks' = Tail(tasks)
       /\ ~ FinishesNow(p, end) => tasks' = Append(Tail(tasks), u) /\ completed_tasks' = completed_tasks
  <2>1. PendingAfter(t, ops) = p
    BY <1>8, <1>9 DEF PendingAfter, NewOps
  <2> QED BY Zenon, <1>2, <1>5, <1>7, <1>10, <1>11, <2>1 DEF RunSlice, Push
<1>14. Moves(t, u)
  <2>1. CASE FinishesNow(p, end)
    <3>1. Tail(tasks) \in Seq(TaskRecs) /\ Replaced(tasks, Tail(tasks), Head(tasks), {})
      BY <1>1, TailReplaces
    <3>2. p = 0 /\ ready_count' = ready_count - 1
      BY <1>13, <2>1 DEF FinishesNow, CountAfterSlice, IInv, TasksOK
    <3> QED BY Zenon, <1>2, <1>3, <1>12, <1>13, <2>1, <3>1, <3>2 DEF Moves, Sliced
  <2>2. CASE ~ FinishesNow(p, end)
    <3>1. u \in TaskRecs /\ u.id = Head(tasks).id
      BY SMTT(20), <1>2, <1>12, <2>2 DEF Continues, Sliced
    <3>2. /\ tasks' \in Seq(TaskRecs) /\ tasks' # <<>>
          /\ Replaced(tasks, tasks', t, {u})
      BY Zenon, <1>1, <1>2, <1>13, <2>2, <3>1, RotateReplaces
    <3>3. ready_count' = ready_count - 1 + (IF u.flag = "Ready" THEN 1 ELSE 0)
      BY <1>12, <1>13 DEF CountAfterSlice, Sliced
    <3> QED BY <1>3, <1>12, <1>13, <2>2, <3>2, <3>3 DEF Moves, Sliced
  <2> QED BY SMTT(20), <2>1, <2>2
<1>15. PICK O : O = inflight \cup Range(pending_queue)
  BY Zenon
<1>16. IsFiniteSet(O) /\ UniqueIn(Range(tasks)) /\ Owed(Range(tasks), O)
  BY <1>15, Finiteness DEF IInv
<1>17. IsFiniteSet(Range(ops)) /\ Cardinality(Range(ops)) = n
  BY <1>5, <1>8, NewOpsCount
<1>18. Grows(pending_queue, inflight, issued, t.id, n, ops)
  <2>1. /\ pending_queue \in Seq(OpRecs) /\ inflight \subseteq OpRecs /\ issued \in [Tasks -> 0..MaxOps]
        /\ OpsOnce(pending_queue, inflight, issued) /\ NewOps(ops, t.id, issued[t.id], n)
    BY <1>6, <1>8 DEF IInv, OpsOK
  <2> QED BY Zenon, <1>3, <1>5, <2>1, OpsOnceGrows
<1>19. Owed((Range(tasks) \ {t}) \cup {u}, O \cup Range(ops))
  <2>1. u.id = t.id /\ u.pending = t.pending + Cardinality(Range(ops)) /\ \A op \in Range(ops) : op.id = t.id
    BY <1>8, <1>9, <1>12, <1>17 DEF Sliced, NewOps
  <2>2. Range(ops) \cap O = {}
    BY <1>15, <1>18 DEF Grows
  <2> QED BY <1>16, <1>17, <2>1, <2>2, OwedAfterSlice
<1>20. TasksOK' /\ Owed(Range(tasks'), O \cup Range(ops))
  <2>1. IsFiniteSet(O \cup Range(ops))
    BY Zenon, <1>16, <1>17, FS_Union
  <2>2. u.id = t.id /\ failed' \in {failed, failed \cup {t.id}}
    BY <1>11, <1>12, <1>13 DEF Sliced
  <2> QED BY <1>14, <1>19, <2>1, <2>2, MovesKeeps
<1>21. Owed(Range(tasks'), inflight' \cup Range(pending_queue'))
  <2>1. inflight' \cup Range(pending_queue') = O \cup Range(ops)
    BY <1>13, <1>15, <1>18 DEF Grows
  <2> QED BY Zenon, <1>20, <2>1
<1>22. OpsOK'
  <2>1. issued' \in [Tasks -> 0..MaxOps]
    <3>1. base + n \in 0..MaxOps
      <4>1. base + n <= MaxOps
        BY Zenon, <1>2, <1>5, <1>6 DEF RunSlice
      <4>2. base \in Nat /\ n \in Nat /\ MaxOps \in Nat
        BY <1>5, <1>6, SchedulerAssumption
      <4> QED BY <4>1, <4>2
    <3> QED BY SMTT(20), <1>3, <1>6, <1>13, <3>1 DEF IInv, OpsOK
  <2>2. pending_queue' \in Seq(OpRecs) /\ OpsOnce(pending_queue', inflight', issued')
    BY <1>13, <1>18 DEF Grows
  <2> QED BY <1>13, <2>1, <2>2 DEF IInv, OpsOK
<1>23. LoopOK'
  BY <1>13 DEF IInv, LoopOK
<1> QED BY <1>20, <1>21, <1>22, <1>23 DEF IInv

\* Applying the completion of an operation in flight keeps the invariant.
LEMMA CompleteKeeps ==
  ASSUME IInv, NEW op \in inflight, NEW ok \in BOOLEAN, Complete(op, ok)
  PROVE  IInv'
<1>1. PICK O : O = inflight \cup Range(pending_queue)
  BY Zenon
<1>2. /\ IsFiniteSet(O) /\ UniqueIn(Range(tasks)) /\ Owed(Range(tasks), O)
      /\ op \in O /\ op \in OpRecs /\ pc = "await"
  BY <1>1, Finiteness DEF IInv, Complete
<1>3. tasks \in Seq(TaskRecs) /\ Distinct(tasks)
  BY DEF IInv, TasksOK, Partition
<1>4. \E k \in DOMAIN tasks : tasks[k].id = op.id
  BY <1>2 DEF Owed, Range
<1>5. PICK i \in DOMAIN tasks : tasks[i].id = op.id /\ i = CHOOSE k \in DOMAIN tasks : tasks[k].id = op.id
  BY <1>4
<1>6. PICK t \in Range(tasks) : t = tasks[i] /\ t.id = op.id
  BY Zenon, <1>5 DEF Range
<1>7. t \in TaskRecs /\ t.flag = "NonReady" /\ t.pending # 0 /\ GuestTask(t, failed)
  BY <1>2, Finiteness DEF IInv, TasksOK, LoopOK, Blocked
<1>8. PICK u : u = Settled(t, op, ok)
  OBVIOUS
<1>9. PICK G : G = IF ok THEN failed ELSE failed \cup {op.id}
  BY Zenon
<1>10. Settles(t, op, ok, u, G)
  BY <1>2, <1>6, <1>7, <1>8, <1>9, SettledFacts
<1>11. /\ failed' = G /\ inflight' = inflight \ {op} /\ UNCHANGED <<pending_queue, mode, issued>>
       /\ IF tasks' = <<>> THEN pc' = "done" /\ result' = "Ok" ELSE pc' = "ready" /\ result' = result
       /\ Finishes(t, op, ok) => /\ tasks' = Without(i) /\ ready_count' = ready_count
                                 /\ completed_tasks' = Append(completed_tasks, Completed(u))
       /\ ~ Finishes(t, op, ok) =>
            /\ tasks' = [tasks EXCEPT ![i] = u] /\ completed_tasks' = completed_tasks
            /\ ready_count' = ready_count + (IF Wakes(t, op, ok) THEN 1 ELSE 0)
  BY <1>5, <1>6, <1>8, <1>9 DEF Complete, ApplyCompletion
<1>12. Moves(t, u)
  <2>1. ready_count \in Nat
    BY DEF IInv, TasksOK
  <2>2. CASE Finishes(t, op, ok)
    <3>1. tasks' \in Seq(TaskRecs) /\ Replaced(tasks, tasks', t, {})
      BY <1>3, <1>6, <1>11, <2>2, RemoveReplaces DEF Without
    <3> QED BY <1>7, <1>10, <1>11, <2>1, <2>2, <3>1 DEF Moves, Settles
  <2>3. CASE ~ Finishes(t, op, ok)
    <3>1. u \in TaskRecs /\ u.id = tasks[i].id
      BY <1>6, <1>10, <2>3 DEF Continues, Settles
    <3>2. /\ tasks' \in Seq(TaskRecs) /\ tasks' # <<>>
          /\ Replaced(tasks, tasks', t, {u})
      BY <1>3, <1>6, <1>11, <2>3, <3>1, ExceptReplaces
    <3>3. ready_count' = ready_count + (IF u.flag = "Ready" THEN 1 ELSE 0)
      BY SMTT(20), <1>10, <1>11, <2>3 DEF Settles
    <3> QED BY SMTT(20), <1>7, <1>10, <1>11, <2>1, <2>3, <3>2, <3>3 DEF Moves, Settles
  <2> QED BY <2>2, <2>3
<1>13. Owed((Range(tasks) \ {t}) \cup {u}, O \ {op})
  BY <1>2, <1>6, <1>10, OwedAfterCompletion DEF Settles
<1>14. TasksOK' /\ Owed(Range(tasks'), O \ {op})
  <2>1. IsFiniteSet(O \ {op})
    BY <1>2, FS_RemoveElement
  <2>2. u.id = t.id /\ failed' \in {failed, failed \cup {t.id}}
    BY <1>6, <1>9, <1>10, <1>11 DEF Settles
  <2> QED BY <1>12, <1>13, <2>1, <2>2, MovesKeeps
<1>15. Owed(Range(tasks'), inflight' \cup Range(pending_queue'))
  <2>1. op \notin Range(pending_queue)
    BY DEF IInv, OpsOK, OpsOnce
  <2>2. inflight' \cup Range(pending_queue') = O \ {op}
    BY <1>1, <1>11, <2>1
  <2> QED BY <1>14, <2>2
<1>16. OpsOK'
  <2>1. IsFiniteSet(inflight \ {op})
    BY FS_RemoveElement DEF IInv, OpsOK
  <2>2. OpsOnce(pending_queue, inflight \ {op}, issued)
    BY DEF IInv, OpsOK, OpsOnce
  <2> QED BY <1>11, <2>1, <2>2 DEF IInv, OpsOK
<1>17. LoopOK'
  BY <1>2, <1>11 DEF IInv, LoopOK
<1> QED BY <1>14, <1>15, <1>16, <1>17 DEF IInv

\* When no task is ready, each of the queue waits for an operation.
LEMMA AllWait ==
  ASSUME IInv, ready_count = 0
  PROVE  /\ \A t \in Range(tasks) : t.flag = "NonReady"
         /\ tasks # <<>> => inflight \cup Range(pending_queue) # {}
<1>1. PICK R : R = ReadyOf(Range(tasks))
  OBVIOUS
<1>2. R \in SUBSET Range(tasks)
  BY <1>1 DEF ReadyOf
<1>3. IsFiniteSet(R) /\ Cardinality(R) = 0
  BY Zenon, <1>1, <1>2, Finiteness, FS_Subset DEF IInv, TasksOK
<1>4. R = {}
  BY <1>3, FS_EmptySet
<1>5. \A t \in Range(tasks) : t.flag = "NonReady"
  BY <1>1, <1>4, Finiteness DEF ReadyOf, TaskRecs
<1>6. ASSUME tasks # <<>> PROVE inflight \cup Range(pending_queue) # {}
  <2>1. tasks \in Seq(TaskRecs) /\ Distinct(tasks)
    BY DEF IInv, TasksOK, Partition
  <2>2. PICK t \in Range(tasks) : t = Head(tasks)
    BY <1>6, <2>1, TailReplaces
  <2>3. t.pending # 0
    BY <1>5 DEF IInv, TasksOK, Blocked
  <2>4. t.pending = Cardinality(OwedTo(inflight \cup Range(pending_queue), t.id))
    BY Zenon DEF IInv, Owed
  <2>5. OwedTo(inflight \cup Range(pending_queue), t.id) # {}
    BY <2>3, <2>4, FS_EmptySet
  <2> QED BY <2>5 DEF OwedTo
<1> QED BY <1>5, <1>6

\* Leaving the loop over ready tasks keeps the invariant.
LEMMA LeaveKeeps ==
  ASSUME IInv, LeaveReady
  PROVE  IInv'
<1>1. /\ \A t \in Range(tasks) : t.flag = "NonReady"
      /\ tasks # <<>> => inflight \cup Range(pending_queue) # {}
  BY AllWait DEF LeaveReady
<1>2. Range(<<>>) = {}
  BY DEF Range
<1>3. TasksOK'
  BY Zenon DEF LeaveReady, IInv, TasksOK
<1>4. \/ tasks = <<>> /\ pc' = "done" /\ result' = "Ok" /\ UNCHANGED <<pending_queue, inflight>>
      \/ tasks # <<>> /\ mode # "sync" /\ SubmitPendingOps /\ pc' = "await" /\ result' = result
      \/ tasks # <<>> /\ mode = "sync" /\ pc' = "done" /\ result' = SyncError
         /\ UNCHANGED <<pending_queue, inflight>>
  BY DEF LeaveReady
<1>5. tasks' = tasks /\ mode' = mode /\ issued' = issued /\ pc = "ready"
  BY DEF LeaveReady
<1>6. CASE tasks = <<>> /\ pc' = "done" /\ result' = "Ok" /\ UNCHANGED <<pending_queue, inflight>>
  <2>1. OpsOK' /\ Owed(Range(tasks'), inflight' \cup Range(pending_queue'))
    BY <1>5, <1>6 DEF IInv, OpsOK
  <2>2. LoopOK'
    BY <1>5, <1>6 DEF IInv, LoopOK
  <2> QED BY <1>3, <2>1, <2>2 DEF IInv
<1>7. CASE tasks # <<>> /\ mode # "sync" /\ SubmitPendingOps /\ pc' = "await" /\ result' = result
  <2>1. inflight' = inflight \cup Range(pending_queue) /\ pending_queue' = <<>>
    BY <1>7 DEF SubmitPendingOps
  <2>2. inflight' \cup Range(pending_queue') = inflight \cup Range(pending_queue)
    BY <1>2, <2>1
  <2>3. Owed(Range(tasks'), inflight' \cup Range(pending_queue'))
    BY <1>5, <2>2 DEF IInv
  <2>4. OpsOK'
    <3>1. OpsOnce(<<>>, inflight \cup Range(pending_queue), issued)
      BY <1>2 DEF IInv, OpsOK, OpsOnce
    <3>2. IsFiniteSet(inflight') /\ inflight' \subseteq OpRecs /\ pending_queue' \in Seq(OpRecs)
      BY <2>1, Finiteness
    <3> QED BY <1>5, <2>1, <3>1, <3>2 DEF IInv, OpsOK
  <2>5. LoopOK'
    BY <1>1, <1>5, <1>7, <2>1 DEF IInv, LoopOK
  <2> QED BY <1>3, <2>3, <2>4, <2>5 DEF IInv
<1>8. CASE tasks # <<>> /\ mode = "sync" /\ pc' = "done" /\ result' = SyncError
           /\ UNCHANGED <<pending_queue, inflight>>
  <2>1. OpsOK' /\ Owed(Range(tasks'), inflight' \cup Range(pending_queue'))
    BY <1>5, <1>8 DEF IInv, OpsOK
  <2>2. inflight = {} /\ Range(pending_queue) # {}
    BY <1>1, <1>8 DEF IInv, LoopOK
  <2>3. result' = "AsyncPending"
    BY <1>2, <1>8, <2>2 DEF SyncError
  <2>4. LoopOK'
    BY <1>5, <1>8, <2>2, <2>3 DEF IInv, LoopOK
  <2> QED BY <1>3, <2>1, <2>4 DEF IInv
<1> QED BY <1>4, <1>6, <1>7, <1>8

\* A driver that gives up, or a run that is dropped, keeps the invariant.
LEMMA StopKeeps ==
  ASSUME IInv, NoCompletion \/ Drop
  PROVE  IInv'
<1>1. UNCHANGED <<tasks, ready_count, pending_queue, completed_tasks, inflight, mode, issued, failed>>
  BY DEF NoCompletion, Drop
<1>2. TasksOK' /\ OpsOK' /\ Owed(Range(tasks'), inflight' \cup Range(pending_queue'))
  BY <1>1 DEF IInv, TasksOK, OpsOK
<1>3. LoopOK'
  BY <1>1 DEF IInv, LoopOK, NoCompletion, Drop
<1> QED BY <1>2, <1>3 DEF IInv

\* The run starts in a state of the invariant.
LEMMA InitHolds == Init => IInv
<1> SUFFICES ASSUME Init PROVE IInv
  OBVIOUS
<1>1. PICK N \in Nat : N = Cardinality(Tasks)
  BY SchedulerAssumption, FS_CardinalityType
<1>2. PICK order \in [1..N -> Tasks] : /\ Range(order) = Tasks
                                       /\ tasks = [i \in DOMAIN order |-> NewTask(order[i])]
  BY <1>1 DEF Init
<1>3. \A i, j \in 1..N : order[i] = order[j] => i = j
  <2>1. IsFiniteSet(1..N) /\ Cardinality(1..N) = Cardinality(Tasks)
    BY <1>1, FS_Interval
  <2>2. order \in Surjection(1..N, Tasks)
    BY <1>2 DEF Surjection, Range
  <2>3. order \in Injection(1..N, Tasks)
    BY <2>1, <2>2, FS_SurjSameCardinalityImpliesInj
  <2> QED BY <1>2, <2>3 DEF Injection, IsInjective
<1>4. DOMAIN tasks = 1..N /\ \A i \in 1..N : tasks[i] = NewTask(order[i])
  BY <1>2
<1>5. \A id \in Tasks : /\ NewTask(id) \in TaskRecs /\ NewTask(id).id = id /\ NewTask(id).flag = "Ready"
                        /\ NewTask(id).pending = 0 /\ NewTask(id).terminal = "none" /\ NewTask(id).trap = "none"
  BY DEF NewTask, TaskRecs
<1>6. tasks \in Seq(TaskRecs)
  <2>1. tasks \in [1..N -> TaskRecs]
    BY <1>2, <1>5
  <2> QED BY <2>1
<1>7. \A t \in Range(tasks) : \E id \in Tasks : t = NewTask(id)
  BY <1>2, <1>4 DEF Range
<1>8. \A id \in Tasks : NewTask(id) \in Range(tasks)
  BY <1>2, <1>4 DEF Range
<1>9. /\ pending_queue = <<>> /\ completed_tasks = <<>> /\ inflight = {} /\ ready_count = N
      /\ issued = [t \in Tasks |-> 0] /\ failed = {} /\ pc = "ready"
      /\ mode \in {"driver", "quitter", "sync"} /\ result = "none"
  BY <1>1 DEF Init
<1>10. Range(<<>>) = {} /\ Distinct(<<>>)
  BY DEF Range, Distinct
<1>11. Partition(tasks, completed_tasks)
  <2>1. Distinct(tasks)
    BY <1>2, <1>3, <1>4, <1>5 DEF Distinct
  <2> QED BY <1>5, <1>8, <1>9, <1>10, <2>1 DEF Partition
<1>12. ready_count = Cardinality(ReadyOf(Range(tasks)))
  <2> DEFINE R == ReadyOf(Range(tasks))
  <2>1. R = Range(tasks)
    BY <1>5, <1>7 DEF ReadyOf
  <2>2. tasks \in Bijection(1..N, Range(tasks))
    <3>1. tasks \in [1..N -> Range(tasks)]
      BY <1>4, <1>6 DEF Range
    <3>2. tasks \in Injection(1..N, Range(tasks))
      BY <1>4, <1>11, <3>1 DEF Partition, Distinct, Injection, IsInjective
    <3>3. tasks \in Surjection(1..N, Range(tasks))
      BY <1>4, <3>1 DEF Surjection, Range
    <3> QED BY <3>2, <3>3 DEF Bijection
  <2>3. ExistsBijection(1..N, Range(tasks))
    BY <2>2 DEF ExistsBijection
  <2>4. Cardinality(Range(tasks)) = N
    BY <2>3, FS_CountingElements
  <2> QED BY <1>9, <2>1, <2>4
<1>13. \A t \in Range(tasks) : Blocked(t) /\ GuestTask(t, failed)
  <2>1. \A t \in Range(tasks) : t.flag = "Ready" /\ t.pending = 0 /\ t.terminal = "none" /\ t.trap = "none"
    BY <1>5, <1>7
  <2> QED BY <1>9, <2>1 DEF Blocked, GuestTask, Told
<1>14. TasksOK
  BY <1>6, <1>9, <1>10, <1>11, <1>12, <1>13 DEF TasksOK
<1>15. OpsOK
  BY <1>9, <1>10, FS_EmptySet, SchedulerAssumption DEF OpsOK, OpsOnce
<1>16. LoopOK
  BY <1>9 DEF LoopOK
<1>17. Owed(Range(tasks), inflight \cup Range(pending_queue))
  <2>1. inflight \cup Range(pending_queue) = {}
    BY <1>9, <1>10
  <2>2. \A id \in Tasks : OwedTo({}, id) = {}
    BY DEF OwedTo
  <2>3. \A t \in Range(tasks) : t.pending = 0 /\ t.id \in Tasks
    BY <1>5, <1>7
  <2>4. Owed(Range(tasks), {})
    BY <2>2, <2>3, FS_EmptySet DEF Owed
  <2> QED BY <2>1, <2>4
<1> QED BY <1>14, <1>15, <1>16, <1>17 DEF IInv

\* Every step keeps the invariant.
LEMMA StepKeeps ==
  ASSUME IInv, [Next]_vars
  PROVE  IInv'
<1>1. CASE Rotate
  BY <1>1, RotateKeeps
<1>2. ASSUME tasks # <<>>, NEW kinds \in Effects(Head(tasks).id), NEW end \in {"cont", "done", "trap"},
             RunSlice(kinds, end)
      PROVE  IInv'
  BY <1>2, SliceKeeps
<1>3. CASE LeaveReady
  BY <1>3, LeaveKeeps
<1>4. ASSUME NEW op \in inflight, NEW ok \in BOOLEAN, Complete(op, ok) PROVE IInv'
  BY <1>4, CompleteKeeps
<1>5. CASE NoCompletion \/ Drop
  BY <1>5, StopKeeps
<1>6. CASE UNCHANGED vars
  BY <1>6 DEF vars, IInv, TasksOK, OpsOK, LoopOK
<1> QED BY <1>1, <1>2, <1>3, <1>4, <1>5, <1>6 DEF Next, LoopStep, DriverStep, Finished

\* The invariant holds in every state of the scheduler.
THEOREM Inductive == Spec => []IInv
BY InitHolds, StepKeeps, PTL DEF Spec
-----------------------------------------------------------------------------
(* The invariants of the runs follow. *)

\* Positions and entries are as many, in a sequence without repetition.
LEMMA PositionsCount ==
  ASSUME NEW S, NEW q \in Seq(S), \A i, j \in DOMAIN q : q[i] = q[j] => i = j, NEW K
  PROVE  /\ IsFiniteSet({x \in Range(q) : x \in K})
         /\ Cardinality({i \in DOMAIN q : q[i] \in K}) = Cardinality({x \in Range(q) : x \in K})
<1> DEFINE P == {i \in DOMAIN q : q[i] \in K}
           E == {x \in Range(q) : x \in K}
           f == [i \in P |-> q[i]]
<1>1. IsFiniteSet(P)
  <2>1. IsFiniteSet(1..Len(q)) /\ P \in SUBSET (1..Len(q))
    BY FS_Interval
  <2> QED BY <2>1, FS_Subset
<1>2. f \in [P -> E]
  BY DEF Range
<1>3. f \in Injection(P, E)
  BY <1>2 DEF Injection, IsInjective
<1>4. f \in Surjection(P, E)
  BY <1>2 DEF Surjection, Range
<1>5. ExistsBijection(P, E)
  BY <1>3, <1>4 DEF ExistsBijection, Bijection
<1> HIDE DEF P, E, f
<1>6. IsFiniteSet(E) /\ Cardinality(P) = Cardinality(E)
  BY <1>1, <1>5, FS_Bijection
<1> QED BY <1>6 DEF P, E

\* The count kept for a task is the number of its operations queued or in
\* flight.
LEMMA OutstandingIsOwed ==
  ASSUME IInv, NEW id \in Tasks
  PROVE  Outstanding(id) = Cardinality(OwedTo(inflight \cup Range(pending_queue), id))
<1>1. PICK q \in Seq(OpRecs) : q = pending_queue
  BY DEF IInv, OpsOK
<1>2. PICK K : K = {op \in OpRecs : op.id = id}
  BY Zenon
<1>3. /\ IsFiniteSet({op \in Range(q) : op \in K})
      /\ Cardinality({i \in DOMAIN q : q[i] \in K}) = Cardinality({op \in Range(q) : op \in K})
  <2>1. \A i, j \in DOMAIN q : q[i] = q[j] => i = j
    BY <1>1 DEF IInv, OpsOK, OpsOnce
  <2> QED BY Zenon, <2>1, PositionsCount
<1>4. {i \in DOMAIN q : q[i] \in K} = {i \in DOMAIN q : q[i].id = id}
  BY <1>2
<1>5. {op \in Range(q) : op \in K} = OwedTo(Range(q), id)
  BY <1>2 DEF OwedTo, Range
<1>6. IsFiniteSet(OwedTo(inflight, id))
  <2>1. OwedTo(inflight, id) \in SUBSET inflight /\ IsFiniteSet(inflight)
    BY DEF OwedTo, IInv, OpsOK
  <2> QED BY <2>1, FS_Subset
<1>7. /\ OwedTo(inflight, id) \cap OwedTo(Range(q), id) = {}
      /\ OwedTo(inflight, id) \cup OwedTo(Range(q), id) = OwedTo(inflight \cup Range(pending_queue), id)
  BY <1>1 DEF OwedTo, IInv, OpsOK, OpsOnce
<1>8. PICK a \in Nat : a = Cardinality(OwedTo(inflight, id))
  BY <1>6, FS_CardinalityType
<1>9. PICK b \in Nat : b = Cardinality(OwedTo(Range(q), id))
  BY Zenon, <1>3, <1>5, FS_CardinalityType
<1>10. Cardinality(OwedTo(inflight \cup Range(pending_queue), id)) = a + b
  <2>1. Cardinality(OwedTo(inflight, id) \cup OwedTo(Range(q), id)) =
          a + b - Cardinality(OwedTo(inflight, id) \cap OwedTo(Range(q), id))
    BY Zenon, <1>3, <1>5, <1>6, <1>8, <1>9, FS_Union
  <2>2. Cardinality(OwedTo(inflight, id) \cap OwedTo(Range(q), id)) = 0
    BY Zenon, <1>7, FS_EmptySet
  <2>3. Cardinality(OwedTo(inflight, id) \cup OwedTo(Range(q), id)) = a + b
    BY <2>1, <2>2
  <2> QED BY Zenon, <1>7, <2>3
<1>11. Outstanding(id) = a + b
  BY Zenon, <1>1, <1>3, <1>4, <1>5, <1>8, <1>9 DEF Outstanding, OwedTo
<1> QED BY <1>10, <1>11

\* The type invariant, and the counts of ready tasks and of pending effects.
LEMMA IInvCounts ==
  ASSUME IInv
  PROVE  TypeOK /\ ReadyCountExact /\ EffectsOwed
<1>1. TypeOK
  BY Zenon, Finiteness DEF IInv, TasksOK, OpsOK, LoopOK, TypeOK, TaskRecs, OpRecs
<1>2. ReadyCountExact
  <2>1. PICK q \in Seq(TaskRecs) : q = tasks
    BY DEF IInv, TasksOK
  <2>2. PICK K : K = {t \in TaskRecs : t.flag = "Ready"}
    BY Zenon
  <2>3. Cardinality({i \in DOMAIN q : q[i] \in K}) = Cardinality({t \in Range(q) : t \in K})
    <3>1. \A i, j \in DOMAIN q : q[i] = q[j] => i = j
      BY <2>1 DEF IInv, TasksOK, Partition, Distinct
    <3> QED BY Zenon, <3>1, PositionsCount
  <2>4. {i \in DOMAIN q : q[i] \in K} = {i \in DOMAIN q : q[i].flag = "Ready"}
    BY <2>2
  <2>5. {t \in Range(q) : t \in K} = ReadyOf(Range(q))
    BY <2>2 DEF ReadyOf, Range
  <2> QED BY Zenon, <2>1, <2>3, <2>4, <2>5 DEF ReadyCountExact, IInv, TasksOK
<1>3. EffectsOwed
  <2> SUFFICES ASSUME NEW i \in DOMAIN tasks PROVE tasks[i].pending = Outstanding(tasks[i].id)
    BY DEF EffectsOwed
  <2>1. PICK t \in Range(tasks) : t = tasks[i]
    BY DEF Range
  <2>2. t.id \in Tasks
    BY Finiteness DEF TaskRecs
  <2>3. Outstanding(t.id) = t.pending
    BY Zenon, <2>2, OutstandingIsOwed DEF IInv, Owed
  <2> QED BY <2>1, <2>3
<1> QED BY <1>1, <1>2, <1>3

\* The positions at which a sequence holds a task.
At(q, id) == {i \in DOMAIN q : q[i].id = id}

\* A task whose record is in the queue is at one place of it.
LEMMA AtMostOnce ==
  ASSUME NEW q, Distinct(q), NEW id
  PROVE  /\ (\E t \in Range(q) : t.id = id) => Cardinality(At(q, id)) = 1
         /\ ~ (\E t \in Range(q) : t.id = id) => Cardinality(At(q, id)) = 0
<1>1. ASSUME NEW t \in Range(q), t.id = id PROVE Cardinality(At(q, id)) = 1
  <2>1. PICK i \in DOMAIN q : q[i].id = id
    BY <1>1 DEF Range
  <2>2. At(q, id) = {i}
    BY <2>1 DEF At, Distinct
  <2> QED BY <2>2, FS_Singleton
<1>2. ASSUME ~ (\E t \in Range(q) : t.id = id) PROVE Cardinality(At(q, id)) = 0
  <2>1. At(q, id) = {}
    BY <1>2 DEF At, Range
  <2> QED BY <2>1, FS_EmptySet
<1> QED BY <1>1, <1>2

\* The invariant implies that every task is in exactly one place.
LEMMA IInvTaskOnce ==
  ASSUME IInv
  PROVE  TaskOnce
<1>1. Distinct(tasks) /\ Distinct(completed_tasks)
  BY DEF IInv, TasksOK, Partition
<1>2. ASSUME NEW id \in Tasks
      PROVE  Cardinality(At(tasks, id)) + Cardinality(At(completed_tasks, id)) = 1
  <2>1. (\E t \in Range(tasks) : t.id = id) <=> ~ (\E t \in Range(completed_tasks) : t.id = id)
    BY DEF IInv, TasksOK, Partition
  <2>2. CASE \E t \in Range(tasks) : t.id = id
    <3>1. Cardinality(At(tasks, id)) = 1 /\ Cardinality(At(completed_tasks, id)) = 0
      BY <1>1, <2>1, <2>2, AtMostOnce
    <3> QED BY <3>1
  <2>3. CASE \E t \in Range(completed_tasks) : t.id = id
    <3>1. Cardinality(At(tasks, id)) = 0 /\ Cardinality(At(completed_tasks, id)) = 1
      BY <1>1, <2>1, <2>3, AtMostOnce
    <3> QED BY <3>1
  <2> QED BY <2>1, <2>2, <2>3
<1> QED BY <1>2 DEF TaskOnce, At

\* The invariant implies what the run promises when it returns.
LEMMA IInvReturns ==
  ASSUME IInv
  PROVE  ReturnsComplete
<1>1. ASSUME result = "Ok", mode # "quitter"
      PROVE  tasks = <<>> /\ Len(completed_tasks) = Cardinality(Tasks)
  <2>1. tasks = <<>>
    BY <1>1 DEF IInv, LoopOK
  <2>2. PICK c \in Seq(DoneRecs) : c = completed_tasks /\ Distinct(c)
    BY DEF IInv, TasksOK, Partition
  <2>3. PICK m \in Nat : m = Len(c) /\ DOMAIN c = 1..m
    OBVIOUS
  <2> DEFINE f == [i \in 1..m |-> c[i].id]
  <2>4. f \in [1..m -> Tasks]
    <3>1. \A i \in 1..m : c[i] \in DoneRecs
      BY <2>3
    <3> QED BY <3>1 DEF DoneRecs
  <2>5. \A id \in Tasks : \E i \in 1..m : f[i] = id
    <3>1. \A id \in Tasks : \E t \in Range(c) : t.id = id
      BY <2>1, <2>2 DEF IInv, TasksOK, Partition, Range
    <3> QED BY <2>3, <3>1 DEF Range
  <2>6. f \in Injection(1..m, Tasks)
    BY <2>2, <2>3, <2>4 DEF Injection, IsInjective, Distinct
  <2>7. f \in Surjection(1..m, Tasks)
    BY Zenon, <2>4, <2>5 DEF Surjection
  <2>8. ExistsBijection(1..m, Tasks)
    BY <2>6, <2>7 DEF ExistsBijection, Bijection
  <2>9. Cardinality(Tasks) = m
    BY <2>8, FS_CountingElements
  <2> QED BY <2>1, <2>2, <2>3, <2>9
<1>2. result # "Stalled" /\ (pc = "await" => inflight # {})
  BY DEF IInv, LoopOK
<1> QED BY <1>1, <1>2 DEF ReturnsComplete

\* The invariant implies that a failure is reported, and that a ready task waits
\* for nothing.
LEMMA IInvFailure ==
  ASSUME IInv
  PROVE  FailureReported /\ ReadyIsSettled
<1>1. ASSUME NEW i \in DOMAIN completed_tasks, GuestCall(completed_tasks[i].id)
      PROVE  /\ completed_tasks[i].id \in failed <=> completed_tasks[i].result # "Success"
             /\ completed_tasks[i].trap =
                  IF completed_tasks[i].result = "Success" THEN "none" ELSE completed_tasks[i].result
  <2>1. PICK c \in Range(completed_tasks) : c = completed_tasks[i]
    BY DEF Range
  <2>2. c.result # "none" /\ Told(c, c.result, failed)
    BY <1>1, <2>1 DEF IInv, TasksOK, GuestDone
  <2> QED BY SMTT(20), <2>1, <2>2 DEF Told
<1>2. ASSUME NEW i \in DOMAIN tasks, GuestCall(tasks[i].id), tasks[i].flag = "Ready"
      PROVE  Outstanding(tasks[i].id) = 0 /\ tasks[i].terminal = "none"
  <2>1. tasks[i] \in Range(tasks)
    BY SMTT(20) DEF Range
  <2>2. tasks[i].pending = 0 /\ tasks[i].terminal = "none"
    BY <1>2, <2>1 DEF IInv, TasksOK, GuestTask
  <2> QED BY <2>2, IInvCounts DEF EffectsOwed
<1> QED BY <1>1, <1>2 DEF FailureReported, ReadyIsSettled

\* The counters and the queue account for every task and every effect: ready_count
\* is the number of Ready tasks, pending_effects of a task the number of its
\* operations that are queued or in flight, and no task is lost or run twice.
THEOREM AccountsTheorem == Spec => []Accounted
BY Inductive, IInvCounts, IInvTaskOnce, PTL DEF Accounted

\* run_with_driver and run_sync_with_runtime return Ok only with every task
\* completed, and never Stalled; the driver is awaited only when it owes something.
THEOREM ReturnsTheorem == Spec => []ReturnsComplete
BY Inductive, IInvReturns, PTL

\* A guest call that trapped, or whose effect failed, completes with that failure.
THEOREM FailureTheorem == Spec => []FailureReported
BY Inductive, IInvFailure, PTL

\* A guest call does not run again before its effects have completed.
THEOREM SettledTheorem == Spec => []ReadyIsSettled
BY Inductive, IInvFailure, PTL
=============================================================================
