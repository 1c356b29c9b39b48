-------------------------- MODULE StoreCallsProofs --------------------------
(***************************************************************************)
(* The lease and the trap slot of StoreCalls for any set of threads and    *)
(* any number of calls.                                                    *)
(***************************************************************************)
EXTENDS StoreCalls, TLAPS

States == {"entering", "runnable", "guest", "suspended", "completing", "returning", "done", "dropped"}
Call == [kind : {"async", "sync"}, thread : Threads,
         state : States,
         out : {"none", "ok", "trap", "pending"}, parent : Nat]
OnStack == {"entering", "runnable", "guest", "completing", "returning"}

\* Types, without the cardinalities.
Typed ==
  /\ lock \subseteq Threads
  /\ active \in [Threads -> Nat]
  /\ slot \subseteq [owner : Threads, call : Ids]
  /\ stack \in [Threads -> Seq(Ids)]
  /\ calls \in Seq(Call)
  /\ last \in [Threads -> Nat]

\* What is on a thread's stack: its own calls, the outermost first; only the
\* outermost can be asynchronous, and only alone can it be outside the guest.
StackOK(s, cs, t) ==
  \A i \in 1..Len(s) :
    /\ cs[s[i]].thread = t
    /\ cs[s[i]].state \in OnStack
    /\ cs[s[i]].state # "guest" => Len(s) = 1
    /\ cs[s[i]].kind = "async" => i = 1
    /\ (cs[s[i]].parent = 0) = (i = 1)
    /\ \A j \in 1..Len(s) : s[i] = s[j] => i = j
StackedAt(t) == StackOK(stack[t], calls, t)
Stacked == \A t \in Threads : StackedAt(t)

\* A call that is under way is on the stack of its thread, an asynchronous one is
\* an outermost one, and a synchronous one waits for nothing but its first
\* grant of the lease.
UnderWayAt(c) ==
  /\ calls[c].state \in OnStack => \E i \in 1..Len(stack[calls[c].thread]) : stack[calls[c].thread][i] = c
  /\ calls[c].kind = "async" => calls[c].parent = 0
  /\ calls[c].kind = "sync" => calls[c].state \in {"entering", "guest", "done"}
UnderWay == \A c \in Ids : UnderWayAt(c)

\* The lease is with the one thread whose outermost call is in the guest.
LeasedAt(t) ==
  /\ active[t] = IF t \in lock THEN 1 ELSE 0
  /\ t \in lock <=> stack[t] # <<>> /\ calls[stack[t][1]].state = "guest"
Leased ==
  /\ \A t \in Threads : LeasedAt(t)
  /\ \A t, u \in lock : t = u

\* The slot holds the trap of a finished call of its owner, which is a nested one
\* or the last to complete there.  While an outermost synchronous call runs, the
\* slot holds only traps of calls nested in it.
Slotted ==
  /\ \A s \in slot :
       /\ calls[s.call].thread = s.owner /\ calls[s.call].out = "trap" /\ calls[s.call].state = "done"
       /\ calls[s.call].parent = 0 => s.call = last[s.owner]
  /\ \A r, s \in slot : r = s
  /\ \A t \in lock : calls[stack[t][1]].kind = "sync" => \A s \in slot : calls[s.call].parent # 0

\* What was taken belongs to a finished call.
Handed ==
  \A r \in taken :
    /\ r.call \in Ids
    /\ calls[r.call].thread = r.thread /\ calls[r.call].out = "trap" /\ calls[r.call].state = "done"
    /\ calls[r.call].parent = 0 => r.call = r.last

IInv == Typed /\ Stacked /\ UnderWay /\ Leased /\ Slotted /\ Handed
-----------------------------------------------------------------------------
(* Sequences. *)

\* A sequence is a function on 1..Len with values in its set.
LEMMA SeqFacts ==
  ASSUME NEW S, NEW q \in Seq(S)
  PROVE  /\ Len(q) \in Nat /\ DOMAIN q = 1..Len(q)
         /\ \A i \in 1..Len(q) : q[i] \in S
OBVIOUS

\* Only the empty sequence has length 0.
LEMMA EmptyFacts ==
  ASSUME NEW S
  PROVE  /\ <<>> \in Seq(S) /\ Len(<<>>) = 0
         /\ \A q \in Seq(S) : q # <<>> => Len(q) \in Nat \ {0}
OBVIOUS

\* A sequence over a set is one over any larger set.
LEMMA WiderSeq ==
  ASSUME NEW S, NEW T, NEW q \in Seq(S), S \subseteq T
  PROVE  q \in Seq(T)
OBVIOUS

\* What Append keeps and adds.
LEMMA AppendFacts ==
  ASSUME NEW S, NEW q \in Seq(S), NEW x \in S
  PROVE  /\ Append(q, x) \in Seq(S) /\ Len(Append(q, x)) = Len(q) + 1
         /\ \A i \in 1..Len(q) : Append(q, x)[i] = q[i]
         /\ Append(q, x)[Len(q) + 1] = x
OBVIOUS

\* What an update of one entry keeps and changes.
LEMMA ExceptFacts ==
  ASSUME NEW S, NEW q \in Seq(S), NEW i \in 1..Len(q), NEW x \in S
  PROVE  /\ [q EXCEPT ![i] = x] \in Seq(S) /\ Len([q EXCEPT ![i] = x]) = Len(q)
         /\ \A j \in 1..Len(q) : [q EXCEPT ![i] = x][j] = IF j = i THEN x ELSE q[j]
OBVIOUS

\* A sequence without its last entry.
LEMMA FrontFacts ==
  ASSUME NEW S, NEW q \in Seq(S), Len(q) # 0
  PROVE  /\ SubSeq(q, 1, Len(q) - 1) \in Seq(S)
         /\ Len(SubSeq(q, 1, Len(q) - 1)) = Len(q) - 1
         /\ \A i \in 1..(Len(q) - 1) : SubSeq(q, 1, Len(q) - 1)[i] = q[i]
OBVIOUS
-----------------------------------------------------------------------------
(* How the sequences change. *)

\* The calls are numbered from 1, and each has a record.
LEMMA IdsOf ==
  ASSUME calls \in Seq(Call)
  PROVE  Ids = 1..Len(calls) /\ Len(calls) \in Nat /\ \A c \in Ids : calls[c] \in Call
BY SeqFacts DEF Ids

\* A call is made.
LEMMA Grown ==
  ASSUME Typed, NEW r \in Call, calls' = Append(calls, r)
  PROVE  /\ calls' \in Seq(Call)
         /\ Ids' = Ids \cup {Len(calls) + 1}
         /\ Len(calls) + 1 \notin Ids
         /\ \A c \in Ids : calls'[c] = calls[c]
         /\ calls'[Len(calls) + 1] = r
         /\ Len(calls) + 1 \in Nat \ {0}
<1>1. calls \in Seq(Call)
  BY DEF Typed
<1>2. Ids = 1..Len(calls) /\ Len(calls) \in Nat
  BY <1>1, IdsOf
<1>3. /\ Append(calls, r) \in Seq(Call) /\ Len(Append(calls, r)) = Len(calls) + 1
      /\ \A i \in 1..Len(calls) : Append(calls, r)[i] = calls[i]
      /\ Append(calls, r)[Len(calls) + 1] = r
  BY <1>1, AppendFacts
<1>4. Ids' = 1..(Len(calls) + 1)
  BY <1>3, SeqFacts DEF Ids
<1> QED
  BY <1>2, <1>3, <1>4

\* The record of a call changes.
LEMMA Changed ==
  ASSUME Typed, NEW c \in Ids, NEW r \in Call, calls' = [calls EXCEPT ![c] = r]
  PROVE  /\ calls' \in Seq(Call)
         /\ Ids' = Ids
         /\ \A d \in Ids : calls'[d] = IF d = c THEN r ELSE calls[d]
<1>1. calls \in Seq(Call)
  BY DEF Typed
<1>2. Ids = 1..Len(calls) /\ Len(calls) \in Nat
  BY <1>1, IdsOf
<1>3. /\ [calls EXCEPT ![c] = r] \in Seq(Call) /\ Len([calls EXCEPT ![c] = r]) = Len(calls)
      /\ \A j \in 1..Len(calls) : [calls EXCEPT ![c] = r][j] = IF j = c THEN r ELSE calls[j]
  BY <1>1, <1>2, ExceptFacts
<1>4. Ids' = 1..Len(calls)
  BY <1>3, SeqFacts DEF Ids
<1> QED
  BY <1>2, <1>3, <1>4

\* The innermost call of a thread, and the stack without it.
LEMMA Innermost ==
  ASSUME Typed, NEW t \in Threads, stack[t] # <<>>
  PROVE  /\ stack[t] \in Seq(Ids)
         /\ Len(stack[t]) \in Nat \ {0} /\ Top(t) \in Ids
         /\ \A i \in 1..Len(stack[t]) : stack[t][i] \in Ids
<1>1. stack[t] \in Seq(Ids)
  BY DEF Typed
<1>2. Len(stack[t]) \in Nat \ {0}
  BY <1>1, EmptyFacts
<1>3. \A i \in 1..Len(stack[t]) : stack[t][i] \in Ids
  BY <1>1, SeqFacts
<1> QED
  BY <1>1, <1>2, <1>3 DEF Top

\* Popping a thread's stack changes that stack only, and there its top only.
LEMMA Popped ==
  ASSUME Typed, NEW t \in Threads, stack[t] # <<>>, stack' = Pop(t)
  PROVE  /\ stack' \in [Threads -> Seq(Ids)]
         /\ Len(stack'[t]) = Len(stack[t]) - 1
         /\ \A i \in 1..(Len(stack[t]) - 1) : stack'[t][i] = stack[t][i]
         /\ \A u \in Threads \ {t} : stack'[u] = stack[u]
         /\ Len(stack[t]) = 1 => stack'[t] = <<>>
<1>1. stack[t] \in Seq(Ids) /\ Len(stack[t]) \in Nat \ {0}
  BY Innermost
<1> DEFINE s == SubSeq(stack[t], 1, Len(stack[t]) - 1)
<1>2. /\ s \in Seq(Ids) /\ Len(s) = Len(stack[t]) - 1
      /\ \A i \in 1..(Len(stack[t]) - 1) : s[i] = stack[t][i]
  BY <1>1, FrontFacts
<1>3. stack' = [stack EXCEPT ![t] = s]
  BY DEF Pop
<1>4. Len(stack[t]) = 1 => s = <<>>
  BY <1>2, EmptyFacts
<1> HIDE DEF s
<1> QED
  BY <1>1, <1>2, <1>3, <1>4 DEF Typed

\* Pushing a call leaves those below it alone.
LEMMA Pushed ==
  ASSUME NEW I, NEW s \in Seq(I), NEW c
  PROVE  /\ Append(s, c) \in Seq(I \cup {c})
         /\ Len(s) \in Nat /\ Len(Append(s, c)) = Len(s) + 1
         /\ \A i \in 1..Len(s) : Append(s, c)[i] = s[i] /\ s[i] \in I
         /\ Append(s, c)[Len(s) + 1] = c
<1>1. s \in Seq(I \cup {c})
  BY WiderSeq
<1>2. Len(s) \in Nat /\ \A i \in 1..Len(s) : s[i] \in I
  BY SeqFacts
<1> QED
  BY <1>1, <1>2, AppendFacts
-----------------------------------------------------------------------------
(* Who holds the lease. *)

\* Guest code at the top of a thread's stack runs under the lease.
LEMMA GuestHolds ==
  ASSUME IInv, NEW t \in Threads, AtTop(t, "guest")
  PROVE  /\ t \in lock /\ lock = {t} /\ active[t] = 1
         /\ stack[t] # <<>> /\ Top(t) \in Ids /\ calls[Top(t)].thread = t
<1>1. /\ stack[t] # <<>> /\ Len(stack[t]) \in Nat \ {0} /\ Top(t) \in Ids
  BY Innermost DEF IInv, AtTop
<1>2. /\ calls[stack[t][1]].state = "guest" /\ calls[Top(t)].thread = t
  BY <1>1 DEF IInv, Stacked, StackedAt, StackOK, AtTop, Top
<1>3. t \in lock
  BY <1>1, <1>2 DEF IInv, Leased, LeasedAt
<1>4. lock = {t}
  BY <1>3 DEF IInv, Leased, LeasedAt
<1> QED
  BY <1>1, <1>2, <1>3, <1>4 DEF IInv, Leased, LeasedAt

\* Embedder code on a thread without the lease is at top level.
LEMMA IdleOutside ==
  ASSUME IInv, NEW t \in Threads, EmbedderRuns(t), ~Active(t)
  PROVE  stack[t] = <<>> /\ t \notin lock
BY GuestHolds DEF IInv, Leased, LeasedAt, EmbedderRuns, Active

\* A call that waits for the lease is alone on a stack without lease.
LEMMA AloneOutside ==
  ASSUME IInv, NEW t \in Threads, NEW x \in Waiting, AtTop(t, x)
  PROVE  /\ t \notin lock /\ active[t] = 0 /\ stack[t] # <<>> /\ Len(stack[t]) = 1
         /\ Top(t) = stack[t][1] /\ Top(t) \in Ids /\ calls[Top(t)].thread = t
         /\ calls[Top(t)].parent = 0 /\ calls[Top(t)].state = x
<1>1. stack[t] # <<>> /\ Len(stack[t]) \in Nat \ {0} /\ Top(t) \in Ids
  BY Innermost DEF IInv, AtTop
<1>2. calls[Top(t)].state = x /\ Top(t) = stack[t][Len(stack[t])] /\ Len(stack[t]) \in 1..Len(stack[t])
  BY <1>1 DEF AtTop, Top
<1>3. Len(stack[t]) = 1 /\ calls[Top(t)].thread = t /\ calls[Top(t)].parent = 0
  BY <1>1, <1>2 DEF IInv, Stacked, StackedAt, StackOK, Waiting
<1>4. t \notin lock
  BY <1>2, <1>3 DEF IInv, Leased, LeasedAt, Waiting
<1> QED
  BY <1>1, <1>2, <1>3, <1>4 DEF IInv, Leased, LeasedAt
-----------------------------------------------------------------------------
(* What a step does not touch. *)

\* A thread whose stack and whose calls on it stay as they are.
LEMMA StackStays ==
  ASSUME NEW s, NEW cs, NEW ds, NEW t, StackOK(s, cs, t), \A i \in 1..Len(s) : ds[s[i]] = cs[s[i]]
  PROVE  StackOK(s, ds, t)
<1> SUFFICES ASSUME NEW i \in 1..Len(s)
             PROVE  /\ ds[s[i]].thread = t
                    /\ ds[s[i]].state \in OnStack
                    /\ ds[s[i]].state # "guest" => Len(s) = 1
                    /\ ds[s[i]].kind = "async" => i = 1
                    /\ (ds[s[i]].parent = 0) = (i = 1)
                    /\ \A j \in 1..Len(s) : s[i] = s[j] => i = j
  BY DEF StackOK
<1>1. ds[s[i]] = cs[s[i]]
  OBVIOUS
<1> QED
  BY <1>1 DEF StackOK

\* A new call on top of calls in the guest.
MayPush(I, s, n, cs, ds, t) ==
  /\ s \in Seq(I) /\ n \notin I /\ StackOK(s, cs, t)
  /\ \A c \in I : ds[c] = cs[c]
  /\ \A i \in 1..Len(s) : cs[s[i]].state = "guest"
  /\ ds[n].thread = t /\ ds[n].state \in OnStack /\ (ds[n].parent = 0) = (s = <<>>)
  /\ ds[n].state # "guest" \/ ds[n].kind = "async" => s = <<>>

\* A stack on which a call may be pushed stays in order.
LEMMA StackGrows ==
  ASSUME NEW I, NEW s, NEW n, NEW cs, NEW ds, NEW t, MayPush(I, s, n, cs, ds, t)
  PROVE  StackOK(Append(s, n), ds, t)
<1> USE DEF MayPush
<1>1. /\ Len(s) \in Nat /\ Len(Append(s, n)) = Len(s) + 1
      /\ \A i \in 1..Len(s) : Append(s, n)[i] = s[i] /\ s[i] \in I
      /\ Append(s, n)[Len(s) + 1] = n
  BY Pushed
<1>2. PICK p : p = Append(s, n)
  BY Zenon
<1>3. Len(s) = 0 <=> s = <<>>
  BY EmptyFacts
<1> SUFFICES ASSUME NEW i \in 1..(Len(s) + 1)
             PROVE  /\ ds[p[i]].thread = t
                    /\ ds[p[i]].state \in OnStack
                    /\ ds[p[i]].state # "guest" => Len(s) + 1 = 1
                    /\ ds[p[i]].kind = "async" => i = 1
                    /\ (ds[p[i]].parent = 0) = (i = 1)
                    /\ \A j \in 1..(Len(s) + 1) : p[i] = p[j] => i = j
  BY <1>1, <1>2 DEF StackOK
<1>4. CASE i \in 1..Len(s)
  <2>1. p[i] = s[i] /\ s[i] \in I /\ ds[s[i]] = cs[s[i]]
    BY <1>1, <1>2, <1>4
  <2>2. \A j \in 1..(Len(s) + 1) : p[i] = p[j] => i = j
    BY <2>1, <1>1, <1>2, <1>4 DEF StackOK
  <2> QED
    BY <2>1, <2>2, <1>4 DEF StackOK, OnStack
<1>5. CASE i = Len(s) + 1
  <2>1. p[i] = n
    BY <1>1, <1>2, <1>5
  <2>2. \A j \in 1..(Len(s) + 1) : p[i] = p[j] => i = j
    BY <2>1, <1>1, <1>2, <1>5
  <2> QED
    BY <2>1, <2>2, <1>1, <1>3, <1>5
<1> QED
  BY <1>1, <1>4, <1>5

\* All that concerns a thread other than the one whose call c changes, or any
\* thread when c was suspended or is new.
LEMMA Elsewhere ==
  ASSUME IInv, NEW u \in Threads, NEW c,
         c \in Ids => calls[c].thread # u \/ calls[c].state \notin OnStack,
         \A d \in Ids \ {c} : calls'[d] = calls[d],
         stack'[u] = stack[u]
  PROVE  /\ StackedAt(u)'
         /\ active'[u] = active[u] /\ (u \in lock' <=> u \in lock) => LeasedAt(u)'
<1>1. \A i \in 1..Len(stack[u]) : stack[u][i] \in Ids \ {c}
  <2>1. stack[u] \in Seq(Ids)
    BY DEF IInv, Typed
  <2>2. \A i \in 1..Len(stack[u]) : stack[u][i] \in Ids
    BY <2>1, SeqFacts
  <2> QED
    BY <2>2 DEF IInv, Stacked, StackedAt, StackOK
<1>2. \A i \in 1..Len(stack[u]) : calls'[stack[u][i]] = calls[stack[u][i]]
  BY <1>1
<1>3. stack[u] # <<>> => calls'[stack[u][1]] = calls[stack[u][1]]
  BY <1>2, Innermost DEF IInv
<1>4. StackedAt(u) /\ LeasedAt(u)
  BY DEF IInv, Stacked, Leased
<1>5. StackedAt(u)'
  BY <1>2, <1>4, StackStays DEF StackedAt
<1> QED
  BY <1>3, <1>4, <1>5 DEF LeasedAt

(* Each action keeps the invariant. *)

\* The initial states satisfy the invariant.
LEMMA InitEstablishes == CallsInit => IInv
<1> SUFFICES ASSUME CallsInit PROVE IInv
  OBVIOUS
<1>1. Ids = {} /\ \A t \in Threads : Len(stack[t]) = 0
  BY DEF CallsInit, Ids
<1>2. Typed
  BY EmptyFacts DEF CallsInit, Typed
<1>3. Stacked /\ UnderWay
  BY <1>1 DEF Stacked, StackedAt, StackOK, UnderWay
<1>4. Leased /\ Slotted /\ Handed
  BY DEF CallsInit, Leased, LeasedAt, Slotted, Handed
<1> QED
  BY <1>2, <1>3, <1>4 DEF IInv

\* A call begins: call n with the record r goes on the stack of thread t, above
\* calls in the guest.
Begins(t, r, n) ==
  /\ n = Len(calls) + 1 /\ r \in Call
  /\ calls' = Append(calls, r) /\ stack' = [stack EXCEPT ![t] = Append(@, n)]
  /\ EmbedderRuns(t) /\ r.thread = t /\ r.state \in {"entering", "runnable", "guest"}
  /\ r.parent = IF stack[t] = <<>> THEN 0 ELSE Top(t)
  /\ r.state # "guest" \/ r.kind = "async" => stack[t] = <<>>
  /\ r.kind = "sync" => r.state \in {"entering", "guest"}
Begun(t, r, n) ==
  /\ calls' \in Seq(Call) /\ Ids' = Ids \cup {n} /\ n \notin Ids /\ n \in Nat \ {0}
  /\ stack' \in [Threads -> Seq(Ids')]
  /\ \A c \in Ids : calls'[c] = calls[c]
  /\ calls'[n] = r
  /\ Stacked' /\ UnderWay'
  /\ stack'[t] # <<>> /\ stack'[t][1] = IF stack[t] = <<>> THEN n ELSE stack[t][1]
  /\ \A u \in Threads \ {t} : stack'[u] = stack[u]

\* Beginning a call adds its record and changes no other.
LEMMA BeginsIsBegun ==
  ASSUME IInv, NEW t \in Threads, NEW r, NEW n, Begins(t, r, n)
  PROVE  Begun(t, r, n)
<1> USE DEF Begins
<1>1. Typed
  BY DEF IInv
<1>2. /\ calls' \in Seq(Call) /\ Ids' = Ids \cup {n} /\ n \notin Ids /\ n \in Nat \ {0}
      /\ \A c \in Ids : calls'[c] = calls[c]
      /\ calls'[n] = r
  BY Zenon, <1>1, Grown
<1>k. PICK k : k = Len(stack[t])
  BY Zenon
<1>3. /\ stack' \in [Threads -> Seq(Ids')] /\ k \in Nat /\ Len(stack'[t]) = k + 1
      /\ \A i \in 1..k : stack'[t][i] = stack[t][i] /\ stack[t][i] \in Ids
      /\ stack'[t][k + 1] = n
      /\ \A u \in Threads \ {t} : stack'[u] = stack[u]
  <2>1. \A u \in Threads : stack[u] \in Seq(Ids) /\ stack[u] \in Seq(Ids')
    BY <1>1, <1>2, WiderSeq DEF Typed
  <2>2. stack'[t] = Append(stack[t], n) /\ \A u \in Threads \ {t} : stack'[u] = stack[u]
    BY <1>1 DEF Typed
  <2>3. /\ Append(stack[t], n) \in Seq(Ids \cup {n})
        /\ Len(stack[t]) \in Nat /\ Len(Append(stack[t], n)) = Len(stack[t]) + 1
        /\ \A i \in 1..Len(stack[t]) : Append(stack[t], n)[i] = stack[t][i] /\ stack[t][i] \in Ids
        /\ Append(stack[t], n)[Len(stack[t]) + 1] = n
    BY <2>1, Pushed
  <2>4. stack' \in [Threads -> Seq(Ids')]
    BY <1>1, <1>2, <2>1, <2>3 DEF Typed
  <2> QED
    BY <1>k, <2>2, <2>3, <2>4
<1>4. k = 0 <=> stack[t] = <<>>
  BY <1>1, <1>k, EmptyFacts DEF Typed
<1>5. \A i \in 1..k : calls[stack[t][i]].state = "guest"
  BY <1>3, <1>4, <1>k DEF IInv, Stacked, StackedAt, StackOK, EmbedderRuns, AtTop, Top
<1>6. (r.parent = 0) = (k = 0)
  <2>1. k # 0 => Top(t) \in Ids /\ 0 \notin Ids
    BY <1>1, <1>3, <1>4, IdsOf, Innermost DEF Typed
  <2> QED
    BY <1>4, <2>1
<1>7. StackedAt(t)'
  <2>1. stack[t] \in Seq(Ids) /\ StackOK(stack[t], calls, t)
    BY <1>1 DEF IInv, Typed, Stacked, StackedAt
  <2>2. /\ calls'[n].thread = t /\ calls'[n].state \in OnStack /\ (calls'[n].parent = 0) = (stack[t] = <<>>)
        /\ calls'[n].state # "guest" \/ calls'[n].kind = "async" => stack[t] = <<>>
    BY <1>2, <1>4, <1>6 DEF OnStack
  <2>3. StackOK(Append(stack[t], n), calls', t)
    <3>1. \A i \in 1..Len(stack[t]) : calls[stack[t][i]].state = "guest"
      BY <1>5, <1>k
    <3>2. MayPush(Ids, stack[t], n, calls, calls', t)
      BY Zenon, <2>1, <2>2, <3>1, <1>2 DEF MayPush
    <3> QED
      BY <3>2, StackGrows
  <2> QED
    BY <1>1, <2>3 DEF StackedAt, Typed
<1>8. Stacked'
  <2>1. \A u \in Threads \ {t} : StackedAt(u)'
    BY Zenon, <1>2, <1>3, Elsewhere
  <2> QED
    BY <2>1, <1>7 DEF Stacked
<1>9. UnderWay'
  <2>1. ASSUME NEW c \in Ids PROVE UnderWayAt(c)'
    <3>1. UnderWayAt(c) /\ calls'[c] = calls[c]
      BY Zenon, <1>2 DEF IInv, UnderWay
    <3>2. ASSUME calls[c].state \in OnStack
          PROVE  \E i \in 1..Len(stack'[calls[c].thread]) : stack'[calls[c].thread][i] = c
      <4>1. PICK i \in 1..Len(stack[calls[c].thread]) : stack[calls[c].thread][i] = c
        BY <3>1, <3>2 DEF UnderWayAt
      <4>2. calls[c].thread \in Threads
        BY Zenon, <1>1, IdsOf DEF Typed, Call
      <4>3. CASE calls[c].thread = t
        BY <4>1, <4>3, <1>3, <1>k
      <4> QED
        BY <4>1, <4>2, <4>3, <1>3
    <3> QED
      BY <3>1, <3>2 DEF UnderWayAt, OnStack
  <2>2. UnderWayAt(n)'
    <3>1. calls'[n] = r /\ k + 1 \in 1..Len(stack'[t]) /\ stack'[t][k + 1] = n
      BY <1>2, <1>3
    <3>2. (r.kind = "async" => r.parent = 0) /\ (r.kind = "sync" => r.state \in {"entering", "guest", "done"})
      OBVIOUS
    <3> QED
      BY <3>1, <3>2 DEF UnderWayAt, OnStack
  <2> QED
    BY <2>1, <2>2, <1>2 DEF UnderWay
<1>10. stack'[t] # <<>> /\ stack'[t][1] = IF stack[t] = <<>> THEN n ELSE stack[t][1]
  <2>1. Len(stack'[t]) # 0
    BY <1>3
  <2>2. stack'[t] # <<>>
    BY <2>1, EmptyFacts
  <2> QED
    BY <2>2, <1>3, <1>4
<1> QED
  BY Zenon, <1>2, <1>3, <1>8, <1>9, <1>10 DEF Begun

\* A call ends at once: only the sequence of calls and last change.
LEMMA EarlyEndKeeps ==
  ASSUME IInv, NEW t \in Threads, BeginAsync(t, TRUE)
  PROVE  IInv'
<1>1. Typed /\ stack[t] = <<>>
  BY IdleOutside DEF BeginAsync, IInv
<1>2. PICK r \in Call : /\ calls' = Append(calls, r)
                        /\ r.kind = "async" /\ r.thread = t /\ r.state = "done" /\ r.parent = 0
  BY <1>1 DEF BeginAsync, NewCall, Call, States
<1>3. PICK n : n = Len(calls) + 1
  OBVIOUS
<1>4. last' = [last EXCEPT ![t] = n] /\ slot' = {} /\ UNCHANGED <<lock, active, stack, taken>>
  BY <1>3 DEF BeginAsync
<1>5. /\ calls' \in Seq(Call) /\ Ids' = Ids \cup {n} /\ n \notin Ids /\ n \in Nat
      /\ \A c \in Ids : calls'[c] = calls[c]
      /\ calls'[n] = r
  BY Zenon, <1>1, <1>2, <1>3, Grown
<1>6. \A u \in Threads : stack[u] \in Seq(Ids) /\ \A i \in 1..Len(stack[u]) : stack[u][i] \in Ids
  BY SeqFacts DEF IInv, Typed
<1>7. Typed'
  BY <1>4, <1>5, <1>6, WiderSeq DEF IInv, Typed
<1>8. Stacked'
  BY <1>4, <1>5, Elsewhere DEF Stacked
<1>9. UnderWay'
  <2>1. \A c \in Ids : UnderWayAt(c)'
    BY <1>4, <1>5 DEF IInv, UnderWay, UnderWayAt, OnStack
  <2>2. UnderWayAt(n)'
    BY <1>2, <1>5 DEF UnderWayAt, OnStack
  <2> QED
    BY <2>1, <2>2, <1>5 DEF UnderWay
<1>10. Leased'
  BY <1>4, <1>5, Elsewhere DEF IInv, Leased
<1>11. Slotted' /\ Handed'
  BY <1>4, <1>5 DEF IInv, Slotted, Handed
<1> QED
  BY <1>7, <1>8, <1>9, <1>10, <1>11 DEF IInv

\* Creating an asynchronous call keeps the invariant.
LEMMA AsyncBeginKeeps ==
  ASSUME IInv, NEW t \in Threads, BeginAsync(t, FALSE)
  PROVE  IInv'
<1>1. stack[t] = <<>> /\ t \notin lock /\ EmbedderRuns(t)
  BY IdleOutside DEF BeginAsync
<1>2. PICK r \in Call : /\ calls' = Append(calls, r)
                        /\ r.kind = "async" /\ r.thread = t /\ r.state = "runnable" /\ r.parent = 0
  BY <1>1 DEF BeginAsync, NewCall, Call, States
<1>3. PICK n : n = Len(calls) + 1
  OBVIOUS
<1>4. /\ stack' = [stack EXCEPT ![t] = Append(@, n)] /\ slot' = {}
      /\ lock' = lock /\ active' = active /\ taken' = taken /\ last' = last
  BY <1>3 DEF BeginAsync
<1>5. Begun(t, r, n)
  <2>1. Begins(t, r, n)
    BY <1>1, <1>2, <1>3, <1>4 DEF Begins
  <2> QED
    BY <2>1, BeginsIsBegun
<1>6. Typed'
  BY <1>4, <1>5 DEF IInv, Typed, Begun
<1>7. Leased'
  <2>1. \A u \in Threads \ {t} : LeasedAt(u)'
    BY <1>4, <1>5, Elsewhere DEF Begun
  <2>2. LeasedAt(t)'
    BY Zenon, <1>1, <1>2, <1>4, <1>5 DEF IInv, Leased, LeasedAt, Begun
  <2> QED
    BY <2>1, <2>2, <1>4 DEF IInv, Leased
<1>8. Slotted' /\ Handed'
  BY <1>4, <1>5 DEF IInv, Slotted, Handed, Begun
<1> QED
  BY <1>5, <1>6, <1>7, <1>8 DEF IInv, Begun

\* Beginning a synchronous call keeps the invariant.
LEMMA SyncBeginKeeps ==
  ASSUME IInv, NEW t \in Threads, BeginSync(t)
  PROVE  IInv'
<1>1. PICK n : n = Len(calls) + 1
  OBVIOUS
<1>2. PICK r \in Call : /\ calls' = Append(calls, r)
                        /\ r.kind = "sync" /\ r.thread = t
                        /\ r.state = IF Active(t) THEN "guest" ELSE "entering"
                        /\ r.parent = IF stack[t] = <<>> THEN 0 ELSE Top(t)
  <2>1. stack[t] # <<>> => Top(t) \in Nat
    BY Innermost, IdsOf DEF IInv, Typed
  <2>2. PICK x \in {"guest", "entering"} : x = IF Active(t) THEN "guest" ELSE "entering"
    OBVIOUS
  <2>3. calls' = Append(calls, NewCall(t, "sync", x))
    BY <2>2 DEF BeginSync
  <2> QED
    BY <2>1, <2>2, <2>3 DEF NewCall, Call, States
<1>3. /\ stack' = [stack EXCEPT ![t] = Append(@, n)] /\ slot' = (IF Active(t) THEN {} ELSE slot)
      /\ lock' = lock /\ active' = active /\ taken' = taken /\ last' = last /\ EmbedderRuns(t)
  BY <1>1 DEF BeginSync
<1>4. ~Active(t) => stack[t] = <<>> /\ t \notin lock
  BY <1>3, IdleOutside
<1>5. Begun(t, r, n)
  <2>1. Begins(t, r, n)
    BY <1>1, <1>2, <1>3, <1>4 DEF Begins
  <2> QED
    BY <2>1, BeginsIsBegun
<1>6. Typed'
  BY <1>3, <1>5 DEF IInv, Typed, Begun
<1>7. \A u \in lock : u \in Threads /\ stack[u] # <<>> /\ calls[stack[u][1]].state = "guest" /\ stack[u][1] \in Ids
  <2>1. ASSUME NEW u \in lock PROVE u \in Threads /\ stack[u] # <<>> /\ calls[stack[u][1]].state = "guest"
    BY DEF IInv, Typed, Leased, LeasedAt
  <2> QED
    BY <2>1, Innermost DEF IInv
<1>8. \A u \in lock : stack'[u][1] = stack[u][1] /\ calls'[stack[u][1]] = calls[stack[u][1]]
  BY <1>5, <1>7 DEF Begun
<1>9. Leased'
  <2>1. \A u \in Threads \ {t} : LeasedAt(u)'
    BY <1>3, <1>5, Elsewhere DEF Begun
  <2>2. LeasedAt(t)'
    <3>1. CASE Active(t)
      <4>1. t \in lock /\ active[t] = 1
        BY <3>1 DEF Active, IInv, Leased, LeasedAt
      <4> QED
        BY <4>1, <1>3, <1>5, <1>7, <1>8 DEF LeasedAt, Begun
    <3>2. CASE ~Active(t)
      <4>1. stack'[t][1] = n /\ calls'[n].state = "entering"
        BY <3>2, <1>2, <1>4, <1>5 DEF Begun
      <4> QED
        BY <3>2, <4>1, <1>3, <1>4 DEF LeasedAt, Active
    <3> QED
      BY <3>1, <3>2
  <2> QED
    BY <2>1, <2>2, <1>3 DEF IInv, Leased
<1>10. slot' \subseteq slot /\ \A s \in slot : s.call \in Ids /\ calls'[s.call] = calls[s.call]
  BY <1>3, <1>5 DEF IInv, Typed, Begun
<1>11. Slotted'
  BY <1>3, <1>8, <1>10 DEF IInv, Slotted
<1>12. Handed'
  BY <1>3, <1>5 DEF IInv, Handed, Begun
<1> QED
  BY <1>5, <1>6, <1>9, <1>11, <1>12 DEF IInv, Begun
-----------------------------------------------------------------------------
(* The innermost call c of thread t changes to r: it stays on the stack, or *)
(* it leaves it.                                                            *)
Changes(t, c, r) ==
  /\ stack[t] # <<>> /\ c = Top(t) /\ r \in Call
  /\ calls' = [calls EXCEPT ![c] = r]
  /\ r.thread = t /\ r.kind = calls[c].kind /\ r.parent = calls[c].parent
  /\ r.kind = "sync" => r.state \in {"entering", "guest", "done"}
Stays(t, c, r) ==
  /\ Changes(t, c, r) /\ stack' = stack
  /\ r.state \in OnStack /\ (r.state # "guest" => Len(stack[t]) = 1)
Leaves(t, c, r) ==
  Changes(t, c, r) /\ stack' = Pop(t) /\ r.state \notin OnStack

Replaced(c, r) ==
  /\ c \in Ids /\ calls' \in Seq(Call) /\ Ids' = Ids
  /\ \A d \in Ids \ {c} : calls'[d] = calls[d]
  /\ calls'[c] = r

\* Replacing the record of one call leaves the others alone.
LEMMA RecordReplaced ==
  ASSUME Typed, NEW c \in Ids, NEW r \in Call, calls' = [calls EXCEPT ![c] = r]
  PROVE  Replaced(c, r)
<1>1. /\ calls' \in Seq(Call) /\ Ids' = Ids
      /\ \A d \in Ids : calls'[d] = IF d = c THEN r ELSE calls[d]
  BY Zenon, Changed
<1> QED
  BY <1>1 DEF Replaced

\* A step of a call replaces the record of that call only.
LEMMA IsReplaced ==
  ASSUME IInv, NEW t \in Threads, NEW c, NEW r, Changes(t, c, r)
  PROVE  Replaced(c, r)
<1>1. Typed /\ c \in Ids /\ r \in Call /\ calls' = [calls EXCEPT ![c] = r]
  BY Innermost DEF IInv, Changes
<1> QED
  BY Zenon, <1>1, RecordReplaced

\* The change of its innermost call keeps a stack in order.
MayChange(s, c, cs, ds, t) ==
  /\ s # <<>> /\ c = s[Len(s)] /\ Len(s) \in Nat \ {0} /\ StackOK(s, cs, t)
  /\ \A i \in 1..Len(s) : s[i] # c => ds[s[i]] = cs[s[i]]
  /\ ds[c].thread = t /\ ds[c].kind = cs[c].kind /\ ds[c].parent = cs[c].parent

\* A stack stays in order when one of its calls changes state and may stay on
\* it.
LEMMA StackChanges ==
  ASSUME NEW s, NEW c, NEW cs, NEW ds, NEW t, MayChange(s, c, cs, ds, t),
         ds[c].state \in OnStack, ds[c].state # "guest" => Len(s) = 1
  PROVE  StackOK(s, ds, t)
<1> SUFFICES ASSUME NEW i \in 1..Len(s)
             PROVE  /\ ds[s[i]].thread = t
                    /\ ds[s[i]].state \in OnStack
                    /\ ds[s[i]].state # "guest" => Len(s) = 1
                    /\ ds[s[i]].kind = "async" => i = 1
                    /\ (ds[s[i]].parent = 0) = (i = 1)
                    /\ \A j \in 1..Len(s) : s[i] = s[j] => i = j
  BY DEF StackOK
<1>1. CASE s[i] = c
  BY <1>1 DEF MayChange, StackOK
<1>2. CASE s[i] # c
  BY <1>2 DEF MayChange, StackOK
<1> QED
  BY <1>1, <1>2

\* A stack stays in order when the call on top leaves it.
LEMMA StackShrinks ==
  ASSUME NEW s, NEW p, NEW c, NEW cs, NEW ds, NEW t, MayChange(s, c, cs, ds, t),
         Len(p) = Len(s) - 1, \A i \in 1..(Len(s) - 1) : p[i] = s[i]
  PROVE  StackOK(p, ds, t)
<1> SUFFICES ASSUME NEW i \in 1..(Len(s) - 1)
             PROVE  /\ ds[s[i]].thread = t
                    /\ ds[s[i]].state \in OnStack
                    /\ ds[s[i]].state # "guest" => Len(p) = 1
                    /\ ds[s[i]].kind = "async" => i = 1
                    /\ (ds[s[i]].parent = 0) = (i = 1)
                    /\ \A j \in 1..(Len(s) - 1) : s[i] = s[j] => i = j
  BY DEF StackOK
<1>1. i \in 1..Len(s) /\ Len(s) \in 1..Len(s) /\ i # Len(s)
  BY DEF MayChange
<1>2. s[i] # c /\ ds[s[i]] = cs[s[i]]
  BY <1>1 DEF MayChange, StackOK
<1>3. cs[s[i]].state # "guest" => Len(s) = 1
  BY <1>1 DEF MayChange, StackOK
<1> QED
  BY <1>1, <1>2, <1>3 DEF MayChange, StackOK

\* A step of a thread changes only the call on top of its stack.
LEMMA ChangeIsAllowed ==
  ASSUME IInv, NEW t \in Threads, NEW c, NEW r, Changes(t, c, r)
  PROVE  MayChange(stack[t], c, calls, calls', t)
<1>1. Replaced(c, r)
  BY IsReplaced
<1>2. /\ Len(stack[t]) \in Nat \ {0} /\ \A i \in 1..Len(stack[t]) : stack[t][i] \in Ids
  BY Innermost DEF IInv, Changes
<1>3. StackOK(stack[t], calls, t)
  BY DEF IInv, Stacked, StackedAt
<1> QED
  BY <1>1, <1>2, <1>3 DEF Changes, Replaced, MayChange, Top

\* A step that keeps its call on the stack keeps every stack in order.
LEMMA StaysStacked ==
  ASSUME IInv, NEW t \in Threads, NEW c, NEW r, Stays(t, c, r)
  PROVE  Replaced(c, r) /\ Stacked' /\ UnderWay'
<1>1. Replaced(c, r) /\ Changes(t, c, r)
  BY IsReplaced DEF Stays
<1>2. MayChange(stack[t], c, calls, calls', t)
  BY <1>1, ChangeIsAllowed
<1>3. StackedAt(t)'
  <2>1. calls'[c].state \in OnStack /\ (calls'[c].state # "guest" => Len(stack[t]) = 1)
    BY <1>1 DEF Stays, Replaced
  <2>2. StackOK(stack[t], calls', t)
    BY <1>2, <2>1, StackChanges
  <2> QED
    BY <2>2 DEF StackedAt, Stays
<1>4. c \in Ids /\ calls[c].thread = t
  BY <1>1, <1>2 DEF Replaced, MayChange, StackOK
<1>5. \A u \in Threads \ {t} : StackedAt(u)'
  BY <1>1, <1>4, Elsewhere DEF Replaced, Stays
<1>6. ASSUME NEW d \in Ids PROVE UnderWayAt(d)'
  <2>1. CASE d # c
    BY <2>1, <1>1 DEF IInv, UnderWay, UnderWayAt, Replaced, Stays, OnStack
  <2>2. CASE d = c
    <3>1. /\ calls'[c].thread = t /\ calls'[c].kind = calls[c].kind /\ calls'[c].parent = calls[c].parent
          /\ calls'[c].kind = "sync" => calls'[c].state \in {"entering", "guest", "done"}
      BY <1>1 DEF Replaced, Changes
    <3>2. Len(stack[t]) \in 1..Len(stack[t]) /\ stack[t][Len(stack[t])] = c
      BY <1>2 DEF MayChange
    <3> QED
      BY <2>2, <3>1, <3>2 DEF IInv, UnderWay, UnderWayAt, Stays, OnStack
  <2> QED
    BY <2>1, <2>2
<1> QED
  BY <1>1, <1>3, <1>5, <1>6 DEF Stacked, UnderWay, Replaced

\* What a thread's stack is when its innermost call has left.
Shrunk(t, c) ==
  /\ stack' \in [Threads -> Seq(Ids')]
  /\ \A u \in Threads \ {t} : stack'[u] = stack[u]
  /\ Len(stack[t]) = 1 => stack'[t] = <<>> /\ c = stack[t][1]
  /\ Len(stack[t]) # 1 => stack'[t] # <<>> /\ stack'[t][1] = stack[t][1] /\ stack[t][1] # c /\ stack[t][1] \in Ids

\* A step whose call leaves the stack keeps every stack in order.
LEMMA LeavesStacked ==
  ASSUME IInv, NEW t \in Threads, NEW c, NEW r, Leaves(t, c, r)
  PROVE  Replaced(c, r) /\ Shrunk(t, c) /\ Stacked' /\ UnderWay'
<1>1. Replaced(c, r) /\ Changes(t, c, r)
  BY IsReplaced DEF Leaves
<1>2. MayChange(stack[t], c, calls, calls', t)
  BY <1>1, ChangeIsAllowed
<1>3. /\ stack' \in [Threads -> Seq(Ids)]
      /\ Len(stack'[t]) = Len(stack[t]) - 1
      /\ \A i \in 1..(Len(stack[t]) - 1) : stack'[t][i] = stack[t][i]
      /\ \A u \in Threads \ {t} : stack'[u] = stack[u]
      /\ Len(stack[t]) = 1 => stack'[t] = <<>>
  BY SMTT(20), <1>1, Popped DEF IInv, Leaves, Changes
<1>4. c \in Ids /\ calls[c].thread = t /\ Len(stack[t]) \in Nat \ {0} /\ stack[t][Len(stack[t])] = c
  BY <1>1, <1>2 DEF Replaced, MayChange, StackOK
<1>5. StackedAt(t)'
  <2>1. StackOK(stack'[t], calls', t)
    BY <1>2, <1>3, StackShrinks
  <2> QED
    BY <2>1 DEF StackedAt
<1>6. \A u \in Threads \ {t} : StackedAt(u)'
  BY <1>1, <1>3, <1>4, Elsewhere DEF Replaced
<1>7. ASSUME NEW d \in Ids PROVE UnderWayAt(d)'
  <2>1. CASE d # c
    <3>1. UnderWayAt(d) /\ calls'[d] = calls[d]
      BY <2>1, <1>1 DEF IInv, UnderWay, Replaced
    <3>2. ASSUME calls[d].state \in OnStack
          PROVE  \E i \in 1..Len(stack'[calls[d].thread]) : stack'[calls[d].thread][i] = d
      <4>1. PICK i \in 1..Len(stack[calls[d].thread]) : stack[calls[d].thread][i] = d
        BY <3>1, <3>2 DEF UnderWayAt
      <4>2. calls[d].thread \in Threads
        BY Zenon, IdsOf DEF IInv, Typed, Call
      <4>3. CASE calls[d].thread = t
        <5>1. i # Len(stack[t])
          BY <4>1, <4>3, <2>1, <1>4
        <5> QED
          BY <5>1, <4>1, <4>3, <1>3, <1>4
      <4> QED
        BY <4>1, <4>2, <4>3, <1>3
    <3> QED
      BY <3>1, <3>2 DEF UnderWayAt, OnStack
  <2>2. CASE d = c
    <3>1. /\ calls'[c].state \notin OnStack /\ calls'[c].kind = calls[c].kind /\ calls'[c].parent = calls[c].parent
          /\ calls'[c].kind = "sync" => calls'[c].state \in {"entering", "guest", "done"}
      BY <1>1 DEF Replaced, Changes, Leaves
    <3> QED
      BY <2>2, <3>1 DEF IInv, UnderWay, UnderWayAt, OnStack
  <2> QED
    BY <2>1, <2>2
<1>8. Shrunk(t, c)
  <2>1. CASE Len(stack[t]) = 1
    BY <2>1, <1>1, <1>3, <1>4 DEF Shrunk, Replaced
  <2>2. CASE Len(stack[t]) # 1
    <3>0. PICK k \in Nat \ {0} : k = Len(stack[t]) /\ Len(stack'[t]) = k - 1
      BY <1>3, <1>4
    <3>1. 1 \in 1..(Len(stack[t]) - 1) /\ Len(stack'[t]) # 0
      <4>1. k # 1
        BY <2>2, <3>0
      <4>2. 1 \in 1..(k - 1) /\ k - 1 # 0
        BY <4>1
      <4> QED
        BY <3>0, <4>2
    <3>2. stack'[t] # <<>>
      BY SMTT(20), <3>1, EmptyFacts
    <3>3. stack[t][1] # c
      BY <3>1, <1>2, <1>4 DEF MayChange, StackOK
    <3>4. stack[t][1] \in Ids
      BY <3>1, Innermost, <1>1 DEF IInv, Changes
    <3> QED
      BY <2>2, <3>1, <3>2, <3>3, <3>4, <1>1, <1>3 DEF Shrunk, Replaced
  <2> QED
    BY <2>1, <2>2
<1> QED
  BY <1>1, <1>5, <1>6, <1>7, <1>8 DEF Stacked, UnderWay, Replaced
-----------------------------------------------------------------------------
\* The new record of a call whose state, and out, are assigned.
Updates(c, x, o, r) ==
  /\ r.kind = calls[c].kind /\ r.thread = calls[c].thread /\ r.parent = calls[c].parent
  /\ r.state = x /\ r.out = o

\* Setting the state of a call leaves its outcome alone.
LEMMA StateUpdate ==
  ASSUME Typed, NEW c \in Ids,
         NEW x \in States,
         calls' = [calls EXCEPT ![c].state = x]
  PROVE  \E r \in Call : calls' = [calls EXCEPT ![c] = r] /\ Updates(c, x, calls[c].out, r)
<1>1. calls[c] \in Call
  BY IdsOf DEF Typed
<1>2. PICK r : r = [calls[c] EXCEPT !.state = x]
  BY Zenon
<1>3. r \in Call /\ Updates(c, x, calls[c].out, r)
  BY <1>1, <1>2 DEF Call, Updates
<1>4. calls' = [calls EXCEPT ![c] = r]
  BY <1>2
<1> QED
  BY Zenon, <1>3, <1>4

\* Setting the state and the outcome of a call leaves a call.
LEMMA OutcomeUpdate ==
  ASSUME Typed, NEW c \in Ids,
         NEW x \in States,
         NEW o \in {"none", "ok", "trap", "pending"},
         calls' = [calls EXCEPT ![c].state = x, ![c].out = o]
  PROVE  \E r \in Call : calls' = [calls EXCEPT ![c] = r] /\ Updates(c, x, o, r)
<1>1. calls[c] \in Call /\ c \in DOMAIN calls
  BY IdsOf DEF Typed, Ids
<1>2. PICK r : r = [calls[c] EXCEPT !.state = x, !.out = o]
  OBVIOUS
<1>3. r \in Call /\ Updates(c, x, o, r)
  BY <1>1, <1>2 DEF Call, Updates
<1>4. calls' = [calls EXCEPT ![c] = r]
  BY Zenon, <1>1, <1>2
<1> QED
  BY Zenon, <1>3, <1>4

\* The traps in the slot and those taken are of other calls than one that is not
\* done.
LEMMA DoneStays ==
  ASSUME IInv, NEW c, NEW r, Replaced(c, r), calls[c].state # "done"
  PROVE  /\ \A s \in slot : s.call \in Ids /\ s.call # c /\ calls'[s.call] = calls[s.call]
         /\ taken' = taken => Handed'
<1>1. \A s \in slot : s.call \in Ids /\ s.call # c
  BY DEF IInv, Typed, Slotted
<1>2. \A s \in taken : s.call \in Ids /\ s.call # c /\ calls'[s.call] = calls[s.call]
  BY DEF IInv, Handed, Replaced
<1> QED
  BY <1>1, <1>2 DEF IInv, Handed, Replaced

\* Entering a slice keeps the invariant.
LEMMA EnterKeeps ==
  ASSUME IInv, NEW t \in Threads, EnterSlice(t)
  PROVE  IInv'
<1>1. /\ t \notin lock /\ active[t] = 0 /\ stack[t] # <<>> /\ Len(stack[t]) = 1
      /\ Top(t) = stack[t][1] /\ Top(t) \in Ids /\ calls[Top(t)].thread = t
      /\ calls[Top(t)].parent = 0 /\ calls[Top(t)].state = "runnable"
  BY AloneOutside DEF EnterSlice, Waiting
<1>2. PICK c : c = Top(t)
  OBVIOUS
<1>3. calls[c] \in Call /\ calls[c].kind = "async"
  <2>1. calls[c] \in Call /\ UnderWayAt(c)
    BY <1>1, <1>2, IdsOf DEF IInv, Typed, UnderWay
  <2>2. calls[c].kind \in {"async", "sync"}
    BY <2>1 DEF Call
  <2> QED
    BY <2>1, <2>2, <1>1, <1>2 DEF UnderWayAt
<1>4. PICK r \in Call : calls' = [calls EXCEPT ![c] = r] /\ Updates(c, "guest", calls[c].out, r)
  BY Zenon, <1>1, <1>2, StateUpdate DEF EnterSlice, IInv, States
<1>5. /\ lock = {} /\ lock' = {t} /\ active' = [active EXCEPT ![t] = @ + 1]
      /\ slot' = slot /\ stack' = stack /\ taken' = taken /\ last' = last
  BY DEF EnterSlice, Acquire
<1>6. Replaced(c, r) /\ Stacked' /\ UnderWay'
  <2>1. Stays(t, c, r)
    BY <1>1, <1>2, <1>3, <1>4, <1>5 DEF Stays, Changes, OnStack, Updates
  <2> QED
    BY <2>1, StaysStacked
<1>7. Typed'
  BY <1>5, <1>6 DEF IInv, Typed, Replaced
<1>8. Leased'
  <2>1. ASSUME NEW u \in Threads \ {t} PROVE LeasedAt(u)'
    <3>1. active'[u] = active[u] /\ (u \in lock' <=> u \in lock)
      BY <1>5 DEF IInv, Typed
    <3> QED
      BY <3>1, <1>1, <1>2, <1>5, <1>6, Elsewhere DEF Replaced
  <2>2. LeasedAt(t)'
    BY <1>1, <1>2, <1>4, <1>5, <1>6 DEF LeasedAt, Replaced, Updates, IInv, Typed
  <2>3. \A a, b \in lock' : a = b
    BY <1>5
  <2> QED
    BY <2>1, <2>2, <2>3, <1>5 DEF Leased
<1>9. Slotted'
  <2>1. \A s \in slot : calls'[s.call] = calls[s.call]
    BY <1>1, <1>2, <1>6, DoneStays
  <2>2. calls'[stack'[t][1]].kind = "async"
    BY <1>1, <1>2, <1>3, <1>4, <1>5, <1>6 DEF Replaced, Updates
  <2> QED
    BY <2>1, <2>2, <1>5 DEF IInv, Slotted
<1>10. Handed'
  BY <1>1, <1>2, <1>5, <1>6, DoneStays
<1> QED
  BY <1>6, <1>7, <1>8, <1>9, <1>10 DEF IInv

\* The slice of an asynchronous call, which is alone on its stack, ends.
LEMMA LeaveKeeps ==
  ASSUME IInv, NEW t \in Threads, NEW out \in Outcomes, LeaveSlice(t, out)
  PROVE  IInv'
<1>1. PICK c : c = Top(t)
  OBVIOUS
<1>2. /\ lock = {t} /\ active[t] = 1 /\ stack[t] # <<>> /\ c \in Ids /\ calls[c].thread = t
      /\ calls[c].state = "guest" /\ calls[c].kind = "async"
  BY <1>1, GuestHolds DEF LeaveSlice, AtTop
<1>3. Len(stack[t]) = 1 /\ stack[t][1] = c
  <2>1. Len(stack[t]) \in Nat \ {0}
    BY <1>2, Innermost DEF IInv
  <2>2. StackOK(stack[t], calls, t) /\ Len(stack[t]) \in 1..Len(stack[t]) /\ stack[t][Len(stack[t])] = c
    BY <2>1, <1>1 DEF IInv, Stacked, StackedAt, Top
  <2>3. Len(stack[t]) = 1
    BY Zenon, <2>2, <1>2 DEF StackOK
  <2> QED
    BY <2>2, <2>3
<1>4. /\ lock' = {} /\ active' = [active EXCEPT ![t] = @ - 1]
      /\ slot' = slot /\ taken' = taken /\ last' = last
  BY DEF LeaveSlice, Release
<1>5. PICK r \in Call : Replaced(c, r) /\ r.state # "guest" /\ Stacked' /\ UnderWay'
                        /\ stack' \in [Threads -> Seq(Ids')]
                        /\ (stack'[t] # <<>> => stack'[t][1] = c)
                        /\ \A u \in Threads \ {t} : stack'[u] = stack[u]
  <2>1. CASE out = "pending"
    <3>1. calls' = [calls EXCEPT ![c].state = "suspended"] /\ stack' = Pop(t)
      BY <2>1, <1>1 DEF LeaveSlice
    <3>2. PICK r \in Call : calls' = [calls EXCEPT ![c] = r] /\ Updates(c, "suspended", calls[c].out, r)
      BY Zenon, <3>1, <1>2, StateUpdate DEF IInv, States
    <3>3. Leaves(t, c, r)
      BY Zenon, <3>1, <3>2, <1>1, <1>2 DEF Leaves, Changes, Updates, OnStack
    <3>4. Replaced(c, r) /\ Shrunk(t, c) /\ Stacked' /\ UnderWay'
      BY <3>3, LeavesStacked
    <3> QED
      BY <3>2, <3>4, <1>3 DEF Shrunk, Updates
  <2>2. CASE out # "pending"
    <3>1. calls' = [calls EXCEPT ![c].state = "returning", ![c].out = out] /\ stack' = stack
      BY <2>2, <1>1 DEF LeaveSlice
    <3>2. PICK r \in Call : calls' = [calls EXCEPT ![c] = r] /\ Updates(c, "returning", out, r)
      <4>1. out \in {"none", "ok", "trap", "pending"} /\ Typed
        BY DEF Outcomes, IInv
      <4> QED
        BY Zenon, <3>1, <4>1, <1>2, OutcomeUpdate DEF States
    <3>3. Stays(t, c, r)
      BY Zenon, <3>1, <3>2, <1>1, <1>2, <1>3 DEF Stays, Changes, Updates, OnStack
    <3>4. Replaced(c, r) /\ Stacked' /\ UnderWay'
      BY <3>3, StaysStacked
    <3> QED
      BY Zenon, <3>1, <3>2, <3>4, <1>3 DEF Updates, Replaced, IInv, Typed
  <2> QED
    BY <2>1, <2>2
<1>6. Typed'
  <2>1. active' \in [Threads -> Nat]
    BY <1>2, <1>4 DEF IInv, Typed
  <2> QED
    BY Zenon, <2>1, <1>4, <1>5 DEF IInv, Typed, Replaced
<1>7. Leased'
  <2>1. ASSUME NEW u \in Threads \ {t} PROVE LeasedAt(u)'
    <3>1. active'[u] = active[u] /\ (u \in lock' <=> u \in lock)
      BY <1>2, <1>4 DEF IInv, Typed
    <3> QED
      BY <3>1, <1>2, <1>5, Elsewhere DEF Replaced
  <2>2. LeasedAt(t)'
    <3>1. active'[t] = 0
      BY SMTT(20), <1>2, <1>4 DEF IInv, Typed
    <3> QED
      BY <3>1, <1>4, <1>5 DEF LeasedAt, Replaced
  <2> QED
    BY <2>1, <2>2, <1>4 DEF Leased
<1>8. Slotted' /\ Handed'
  <2>1. (\A s \in slot : calls'[s.call] = calls[s.call]) /\ Handed'
    BY <1>2, <1>4, <1>5, DoneStays
  <2> QED
    BY <2>1, <1>4 DEF IInv, Slotted
<1> QED
  BY <1>5, <1>6, <1>7, <1>8 DEF IInv

\* The trap of the call's result goes to the slot, and the call is the last to
\* complete on its thread.
LEMMA PublishKeeps ==
  ASSUME IInv, NEW t \in Threads, Publish(t)
  PROVE  IInv'
<1>1. PICK c : c = Top(t)
  OBVIOUS
<1>2. /\ t \notin lock /\ active[t] = 0 /\ stack[t] # <<>> /\ Len(stack[t]) = 1
      /\ c \in Ids /\ calls[c].thread = t /\ calls[c].parent = 0 /\ calls[c].state = "returning"
  BY <1>1, AloneOutside DEF Publish, Waiting
<1>3. calls[c] \in Call /\ c \in Nat
  BY <1>2, IdsOf DEF IInv, Typed
<1>4. PICK o \in {"none", "ok", "trap", "pending"} : o = calls[c].out
  BY <1>3 DEF Call
<1>5. /\ slot' = IF o = "trap" THEN {[owner |-> t, call |-> c]} ELSE {}
      /\ calls' = [calls EXCEPT ![c].state = "done", ![c].out = o] /\ stack' = Pop(t)
      /\ last' = [last EXCEPT ![t] = c]
      /\ lock' = lock /\ active' = active /\ taken' = taken /\ lock = {}
  BY SMTT(20), <1>1, <1>2, <1>4 DEF Publish, SetLastTrap, Ended, LastCompleted
<1>6. PICK r \in Call : calls' = [calls EXCEPT ![c] = r] /\ Updates(c, "done", o, r)
  BY Zenon, <1>2, <1>5, OutcomeUpdate DEF IInv, States
<1>7. Replaced(c, r) /\ Shrunk(t, c) /\ Stacked' /\ UnderWay'
  <2>1. Leaves(t, c, r)
    BY Zenon, <1>1, <1>2, <1>5, <1>6 DEF Leaves, Changes, Updates, OnStack
  <2> QED
    BY <2>1, LeavesStacked
<1>8. Typed'
  <2>1. last' \in [Threads -> Nat]
    BY <1>3, <1>5 DEF IInv, Typed
  <2>2. slot' \subseteq [owner : Threads, call : Ids']
    BY <1>2, <1>5, <1>7 DEF Replaced
  <2> QED
    BY Zenon, <2>1, <2>2, <1>5, <1>7 DEF IInv, Typed, Replaced, Shrunk
<1>9. Leased'
  <2>1. \A u \in Threads \ {t} : LeasedAt(u)'
    BY Zenon, <1>2, <1>5, <1>7, Elsewhere DEF Replaced, Shrunk
  <2>2. LeasedAt(t)'
    BY <1>2, <1>5, <1>7 DEF LeasedAt, Shrunk
  <2> QED
    BY <2>1, <2>2, <1>5 DEF Leased
<1>10. Slotted'
  <2>1. /\ calls'[c].thread = t /\ calls'[c].out = o /\ calls'[c].state = "done" /\ last'[t] = c
    BY <1>2, <1>5, <1>6, <1>7 DEF Replaced, Updates, IInv, Typed
  <2>2. CASE o = "trap"
    BY <2>1, <2>2, <1>5 DEF Slotted
  <2>3. CASE o # "trap"
    BY <2>3, <1>5 DEF Slotted
  <2> QED
    BY <2>2, <2>3
<1>11. Handed'
  BY <1>2, <1>5, <1>7, DoneStays
<1> QED
  BY SMTT(20), <1>7, <1>8, <1>9, <1>10, <1>11 DEF IInv

\* A synchronous call ends.  That an outermost one which stops at an effect leaves
\* the slot alone is sound because the call cleared it when it began, and only
\* calls nested in it have written it since.
LEMMA EndSyncKeeps ==
  ASSUME IInv, NEW t \in Threads, NEW out \in Outcomes, EndSync(t, out)
  PROVE  IInv'
<1>1. PICK c : c = Top(t)
  OBVIOUS
<1>2. /\ lock = {t} /\ active[t] = 1 /\ stack[t] # <<>> /\ c \in Ids /\ calls[c].thread = t
      /\ calls[c].state = "guest" /\ calls[c].kind = "sync"
  BY <1>1, GuestHolds DEF EndSync, AtTop
<1>3. PICK k \in Nat \ {0} : k = Len(stack[t])
  BY <1>2, Innermost DEF IInv
<1>4. (calls[c].parent = 0) = (k = 1)
  <2>1. StackOK(stack[t], calls, t) /\ k \in 1..Len(stack[t]) /\ stack[t][k] = c
    BY <1>1, <1>3 DEF IInv, Stacked, StackedAt, Top
  <2> QED
    BY <2>1 DEF StackOK
<1>5. /\ slot' = IF out = "pending" THEN slot ELSE IF out = "trap" THEN {[owner |-> t, call |-> c]} ELSE {}
      /\ calls' = [calls EXCEPT ![c].state = "done", ![c].out = out] /\ stack' = Pop(t)
      /\ taken' = taken
  BY <1>1 DEF EndSync, SetLastTrap, Ended
<1>6. /\ k = 1 => lock' = {} /\ active' = [active EXCEPT ![t] = @ - 1] /\ last' = [last EXCEPT ![t] = c]
      /\ k # 1 => lock' = lock /\ active' = active /\ last' = last
  BY SMTT(20), <1>1, <1>3, <1>4 DEF EndSync, ReleaseOutermost, Release, LastCompleted
<1>7. PICK r \in Call : calls' = [calls EXCEPT ![c] = r] /\ Updates(c, "done", out, r)
  <2>1. out \in {"none", "ok", "trap", "pending"} /\ Typed
    BY DEF Outcomes, IInv
  <2> QED
    BY Zenon, <2>1, <1>2, <1>5, OutcomeUpdate DEF States
<1>8. Replaced(c, r) /\ Shrunk(t, c) /\ Stacked' /\ UnderWay'
  <2>1. Leaves(t, c, r)
    BY Zenon, <1>1, <1>2, <1>5, <1>7 DEF Leaves, Changes, Updates, OnStack
  <2> QED
    BY <2>1, LeavesStacked
<1>9. /\ calls'[c].thread = t /\ calls'[c].out = out /\ calls'[c].state = "done"
      /\ calls'[c].parent = calls[c].parent
  BY <1>2, <1>7, <1>8 DEF Replaced, Updates
<1>10. \A s \in slot : s.call \in Ids /\ calls'[s.call] = calls[s.call]
  BY <1>2, <1>8, DoneStays
<1>11. Typed'
  <2>1. active' \in [Threads -> Nat] /\ lock' \subseteq Threads
    BY <1>2, <1>6 DEF IInv, Typed
  <2>2. last' \in [Threads -> Nat]
    <3>1. c \in Nat
      BY <1>2, IdsOf DEF IInv, Typed
    <3> QED
      BY Zenon, <3>1, <1>6 DEF IInv, Typed
  <2>3. slot' \subseteq [owner : Threads, call : Ids']
    BY <1>2, <1>5, <1>8 DEF Replaced, IInv, Typed
  <2> QED
    BY <2>1, <2>2, <2>3, <1>8 DEF Typed, Replaced, Shrunk
<1>12. Leased'
  <2>1. ASSUME NEW u \in Threads \ {t} PROVE LeasedAt(u)'
    <3>1. active'[u] = active[u] /\ (u \in lock' <=> u \in lock)
      BY <1>2, <1>6 DEF IInv, Typed
    <3> QED
      BY <3>1, <1>2, <1>8, Elsewhere DEF Replaced, Shrunk
  <2>2. LeasedAt(t)'
    <3>1. CASE k = 1
      <4>1. active'[t] = 0 /\ t \notin lock' /\ stack'[t] = <<>>
        BY <3>1, <1>2, <1>3, <1>6, <1>8 DEF IInv, Typed, Shrunk
      <4> QED
        BY <4>1 DEF LeasedAt
    <3>2. CASE k # 1
      <4>1. stack'[t] # <<>> /\ stack'[t][1] = stack[t][1] /\ calls'[stack[t][1]] = calls[stack[t][1]]
        BY <3>2, <1>3, <1>8 DEF Shrunk, Replaced
      <4>2. LeasedAt(t)
        BY DEF IInv, Leased
      <4> QED
        BY <3>2, <4>1, <4>2, <1>2, <1>6 DEF LeasedAt
    <3> QED
      BY <3>1, <3>2
  <2>3. \A a, b \in lock' : a = b
    BY <1>2, <1>6
  <2> QED
    BY SMTT(20), <2>1, <2>2, <2>3, <1>11 DEF Leased, Typed
<1>13. Slotted'
  <2>1. ASSUME NEW s \in slot'
        PROVE  /\ calls'[s.call].thread = s.owner /\ calls'[s.call].out = "trap" /\ calls'[s.call].state = "done"
               /\ calls'[s.call].parent = 0 => s.call = last'[s.owner]
               /\ k # 1 /\ calls[stack[t][1]].kind = "sync" => calls'[s.call].parent # 0
    <3>1. CASE out = "pending"
      <4>1. s \in slot /\ calls'[s.call] = calls[s.call]
        BY Zenon, <3>1, <1>5, <1>10
      <4>2. calls[stack[t][1]].kind = "sync" => calls[s.call].parent # 0
        BY <4>1, <1>2 DEF IInv, Slotted
      <4>3. CASE k = 1
        <5>1. stack[t][1] = c
          BY SMTT(20), <4>3, <1>1, <1>3 DEF Top
        <5> QED
          BY <4>1, <4>2, <4>3, <5>1, <1>2 DEF IInv, Slotted
      <4>4. CASE k # 1
        BY SMTT(20), <4>1, <4>2, <4>4, <1>6 DEF IInv, Slotted
      <4> QED
        BY <4>3, <4>4
    <3>2. CASE out # "pending"
      <4>1. out = "trap" /\ s = [owner |-> t, call |-> c]
        BY <3>2, <1>5
      <4>2. s.owner = t /\ s.call = c
        BY SMTT(20), <4>1
      <4>3. calls[c].parent = 0 => last'[t] = c
        BY <1>4, <1>6 DEF IInv, Typed
      <4> QED
        BY <4>1, <4>2, <4>3, <1>4, <1>9
    <3> QED
      BY <3>1, <3>2
  <2>2. \A a, b \in slot' : a = b
    BY <1>5 DEF IInv, Slotted
  <2>3. \A u \in lock' : calls'[stack'[u][1]].kind = "sync" => \A s \in slot' : calls'[s.call].parent # 0
    <3>1. CASE k = 1
      BY <3>1, <1>6
    <3>2. CASE k # 1
      <4>1. lock' = {t} /\ stack'[t][1] = stack[t][1] /\ calls'[stack[t][1]] = calls[stack[t][1]]
        BY <3>2, <1>2, <1>3, <1>6, <1>8 DEF Shrunk, Replaced
      <4> QED
        BY <3>2, <4>1, <2>1
    <3> QED
      BY <3>1, <3>2
  <2> QED
    BY SMTT(20), <2>1, <2>2, <2>3 DEF Slotted
<1>14. Handed'
  BY <1>2, <1>5, <1>8, DoneStays
<1> QED
  BY <1>8, <1>11, <1>12, <1>13, <1>14 DEF IInv

\* The completion of a suspended call, whose thread's stack is empty.
LEMMA ResumeKeeps ==
  ASSUME IInv, NEW c \in Ids, NEW host \in BOOLEAN, Resume(c, host)
  PROVE  IInv'
<1>1. PICK t : t = calls[c].thread
  OBVIOUS
<1>2. PICK x \in {"completing", "runnable"} : x = IF host THEN "completing" ELSE "runnable"
  OBVIOUS
<1>3. /\ calls[c].state = "suspended" /\ stack[t] = <<>> /\ stack' = [stack EXCEPT ![t] = <<c>>]
      /\ calls' = [calls EXCEPT ![c].state = x]
      /\ lock' = lock /\ active' = active /\ slot' = slot /\ taken' = taken /\ last' = last
  BY <1>1, <1>2 DEF Resume
<1>4. calls[c] \in Call /\ t \in Threads /\ calls[c].kind = "async" /\ calls[c].parent = 0
  <2>1. calls[c] \in Call /\ UnderWayAt(c)
    BY IdsOf DEF IInv, Typed, UnderWay
  <2> QED
    BY <2>1, <1>1, <1>3 DEF Call, UnderWayAt
<1>5. PICK r \in Call : calls' = [calls EXCEPT ![c] = r] /\ Updates(c, x, calls[c].out, r)
  <2>1. x \in States /\ Typed
    BY DEF States, IInv
  <2> QED
    BY Zenon, <2>1, <1>3, StateUpdate
<1>6. Replaced(c, r)
  BY Zenon, <1>5, RecordReplaced DEF IInv
<1>7. /\ calls'[c].thread = t /\ calls'[c].kind = "async" /\ calls'[c].parent = 0
      /\ calls'[c].state \in {"completing", "runnable"}
  BY <1>1, <1>2, <1>4, <1>5, <1>6 DEF Replaced, Updates
<1>8. stack'[t] = <<c>> /\ \A u \in Threads \ {t} : stack'[u] = stack[u]
  BY <1>3, <1>4 DEF IInv, Typed
<1>9. Typed'
  <2>1. <<c>> \in Seq(Ids)
    OBVIOUS
  <2> QED
    BY Zenon, <2>1, <1>3, <1>6 DEF IInv, Typed, Replaced
<1>10. Stacked'
  <2>1. StackedAt(t)'
    BY <1>7, <1>8 DEF StackedAt, StackOK, OnStack
  <2>2. \A u \in Threads \ {t} : StackedAt(u)'
    BY Zenon, <1>3, <1>6, <1>8, Elsewhere DEF Replaced, OnStack
  <2> QED
    BY <2>1, <2>2 DEF Stacked
<1>11. ASSUME NEW d \in Ids PROVE UnderWayAt(d)'
  <2>1. CASE d = c
    <3>1. 1 \in 1..Len(stack'[t]) /\ stack'[t][1] = c
      BY <1>8
    <3> QED
      BY <2>1, <3>1, <1>7 DEF UnderWayAt
  <2>2. CASE d # c
    <3>1. UnderWayAt(d) /\ calls'[d] = calls[d] /\ calls[d] \in Call
      BY <2>2, <1>6, IdsOf DEF IInv, Typed, UnderWay, Replaced
    <3>2. calls[d].state \in OnStack => calls[d].thread \in Threads \ {t}
      BY <3>1, <1>3 DEF UnderWayAt, Call
    <3> QED
      BY <3>1, <3>2, <1>8 DEF UnderWayAt, OnStack
  <2> QED
    BY <2>1, <2>2
<1>12. UnderWay'
  BY <1>6, <1>11 DEF UnderWay, Replaced
<1>13. Leased'
  <2>1. \A u \in Threads \ {t} : LeasedAt(u)'
    BY Zenon, <1>3, <1>6, <1>8, Elsewhere DEF Replaced, OnStack
  <2>2. LeasedAt(t)'
    <3>1. LeasedAt(t)
      BY <1>4 DEF IInv, Leased
    <3>2. t \notin lock /\ active[t] = 0
      BY <3>1, <1>3 DEF LeasedAt
    <3>3. calls'[stack'[t][1]].state # "guest"
      BY <1>7, <1>8
    <3> QED
      BY <3>2, <3>3, <1>3 DEF LeasedAt
  <2> QED
    BY <2>1, <2>2, <1>3 DEF IInv, Leased
<1>14. Slotted' /\ Handed'
  <2>1. (\A s \in slot : calls'[s.call] = calls[s.call]) /\ Handed'
    BY Zenon, <1>3, <1>6, DoneStays
  <2>2. \A u \in lock : u \in Threads /\ u # t /\ stack[u] # <<>> /\ stack[u][1] \in Ids \ {c}
    <3>1. ASSUME NEW u \in lock PROVE u \in Threads /\ stack[u] # <<>> /\ calls[stack[u][1]].state = "guest"
      BY DEF IInv, Typed, Leased, LeasedAt
    <3>2. \A u \in lock : stack[u][1] \in Ids
      BY <3>1, Innermost DEF IInv
    <3> QED
      BY <3>1, <3>2, <1>3
  <2>3. \A u \in lock : stack'[u][1] = stack[u][1] /\ calls'[stack[u][1]] = calls[stack[u][1]]
    BY <2>2, <1>6, <1>8 DEF Replaced
  <2>4. Slotted'
    <3>1. slot' = slot /\ lock' = lock /\ last' = last
      BY <1>3
    <3>2. ASSUME NEW s \in slot'
          PROVE  /\ calls'[s.call].thread = s.owner /\ calls'[s.call].out = "trap" /\ calls'[s.call].state = "done"
                 /\ calls'[s.call].parent = 0 => s.call = last'[s.owner]
      BY <3>1, <2>1 DEF IInv, Slotted
    <3>3. \A a, b \in slot' : a = b
      BY <3>1 DEF IInv, Slotted
    <3>4. \A u \in lock' : calls'[stack'[u][1]].kind = "sync" => \A s \in slot' : calls'[s.call].parent # 0
      BY <3>1, <2>1, <2>3 DEF IInv, Slotted
    <3> QED
      BY <3>2, <3>3, <3>4 DEF Slotted
  <2> QED
    BY <2>1, <2>4
<1> QED
  BY <1>9, <1>10, <1>12, <1>13, <1>14 DEF IInv

\* Applying a completion, which keeps the call on its stack, keeps the invariant.
LEMMA ApplyKeeps ==
  ASSUME IInv, NEW t \in Threads, NEW ok \in BOOLEAN, CompletionApplied(t, ok)
  PROVE  IInv'
<1>1. /\ t \notin lock /\ active[t] = 0 /\ stack[t] # <<>> /\ Len(stack[t]) = 1
      /\ Top(t) = stack[t][1] /\ Top(t) \in Ids /\ calls[Top(t)].thread = t
      /\ calls[Top(t)].parent = 0 /\ calls[Top(t)].state = "completing"
  BY AloneOutside DEF CompletionApplied, Waiting
<1>2. PICK c : c = Top(t)
  OBVIOUS
<1>3. calls[c] \in Call /\ calls[c].kind = "async"
  <2>1. calls[c] \in Call /\ UnderWayAt(c)
    BY <1>1, <1>2, IdsOf DEF IInv, Typed, UnderWay
  <2>2. calls[c].kind \in {"async", "sync"}
    BY <2>1 DEF Call
  <2> QED
    BY <2>1, <2>2, <1>1, <1>2 DEF UnderWayAt
<1>4. Typed /\ c \in Ids
  BY <1>1, <1>2 DEF IInv
<1>5. PICK r \in Call : calls' = [calls EXCEPT ![c] = r] /\ r.kind = calls[c].kind
                        /\ r.thread = t /\ r.parent = calls[c].parent /\ r.state \in {"runnable", "returning"}
  <2>1. CASE ok
    <3>1. calls' = [calls EXCEPT ![c].state = "runnable", ![c].out = "none"]
      BY <2>1, <1>2 DEF CompletionApplied
    <3>2. PICK r \in Call : calls' = [calls EXCEPT ![c] = r] /\ Updates(c, "runnable", "none", r)
      BY Zenon, <3>1, <1>4, OutcomeUpdate DEF States
    <3> QED
      BY Zenon, <3>2, <1>1, <1>2 DEF Updates
  <2>2. CASE ~ok
    <3>1. calls' = [calls EXCEPT ![c].state = "returning", ![c].out = "trap"]
      BY <2>2, <1>2 DEF CompletionApplied
    <3>2. PICK r \in Call : calls' = [calls EXCEPT ![c] = r] /\ Updates(c, "returning", "trap", r)
      BY Zenon, <3>1, <1>4, OutcomeUpdate DEF States
    <3> QED
      BY Zenon, <3>2, <1>1, <1>2 DEF Updates
  <2> QED
    BY <2>1, <2>2
<1>6. /\ lock = {} /\ lock' = lock /\ active' = active
      /\ slot' = slot /\ stack' = stack /\ taken' = taken /\ last' = last
  BY DEF CompletionApplied
<1>7. Replaced(c, r) /\ Stacked' /\ UnderWay'
  <2>1. Stays(t, c, r)
    BY <1>1, <1>2, <1>3, <1>5, <1>6 DEF Stays, Changes, OnStack
  <2> QED
    BY <2>1, StaysStacked
<1>8. Typed'
  BY <1>6, <1>7 DEF IInv, Typed, Replaced
<1>9. Leased'
  <2>1. \A u \in Threads \ {t} : LeasedAt(u)'
    BY Zenon, <1>1, <1>2, <1>6, <1>7, Elsewhere DEF Replaced
  <2>2. calls'[stack'[t][1]].state # "guest"
    BY <1>1, <1>2, <1>5, <1>6, <1>7 DEF Replaced
  <2>3. LeasedAt(t)'
    BY <2>2, <1>1, <1>6 DEF LeasedAt
  <2> QED
    BY <2>1, <2>3, <1>6 DEF IInv, Leased
<1>10. Slotted' /\ Handed'
  <2>1. (\A s \in slot : calls'[s.call] = calls[s.call]) /\ Handed'
    BY <1>1, <1>2, <1>6, <1>7, DoneStays
  <2> QED
    BY <2>1, <1>6 DEF IInv, Slotted
<1> QED
  BY <1>7, <1>8, <1>9, <1>10 DEF IInv

\* The grant of the lease to a synchronous call keeps the invariant.
LEMMA EnterSyncKeeps ==
  ASSUME IInv, NEW t \in Threads, EnterSync(t)
  PROVE  IInv'
<1>1. /\ t \notin lock /\ active[t] = 0 /\ stack[t] # <<>> /\ Len(stack[t]) = 1
      /\ Top(t) = stack[t][1] /\ Top(t) \in Ids /\ calls[Top(t)].thread = t
      /\ calls[Top(t)].parent = 0 /\ calls[Top(t)].state = "entering"
  BY AloneOutside DEF EnterSync, Waiting
<1>2. PICK c : c = Top(t)
  OBVIOUS
<1>3. PICK r \in Call : calls' = [calls EXCEPT ![c] = r] /\ Updates(c, "guest", calls[c].out, r)
  <2>1. "guest" \in States /\ Typed /\ c \in Ids /\ calls' = [calls EXCEPT ![c].state = "guest"]
    BY <1>1, <1>2 DEF States, IInv, EnterSync
  <2> QED
    BY Zenon, <2>1, StateUpdate
<1>4. /\ lock' = {t} /\ active' = [active EXCEPT ![t] = @ + 1]
      /\ slot' = {} /\ stack' = stack /\ taken' = taken /\ last' = last /\ lock = {}
  BY DEF EnterSync, Acquire
<1>5. Replaced(c, r) /\ Stacked' /\ UnderWay'
  <2>1. Stays(t, c, r)
    BY <1>1, <1>2, <1>3, <1>4 DEF Stays, Changes, OnStack, Updates
  <2> QED
    BY <2>1, StaysStacked
<1>6. Typed'
  BY <1>4, <1>5 DEF IInv, Typed, Replaced
<1>7. Leased'
  <2>1. ASSUME NEW u \in Threads \ {t} PROVE LeasedAt(u)'
    <3>1. active'[u] = active[u] /\ (u \in lock' <=> u \in lock)
      BY <1>4 DEF IInv, Typed
    <3> QED
      BY <3>1, <1>1, <1>2, <1>4, <1>5, Elsewhere DEF Replaced
  <2>2. LeasedAt(t)'
    BY <1>1, <1>2, <1>3, <1>4, <1>5 DEF LeasedAt, Replaced, Updates, IInv, Typed
  <2>3. \A a, b \in lock' : a = b
    BY <1>4
  <2> QED
    BY <2>1, <2>2, <2>3, <1>4 DEF Leased
<1>8. Slotted'
  BY <1>4 DEF Slotted
<1>9. Handed'
  BY <1>1, <1>2, <1>4, <1>5, DoneStays
<1> QED
  BY <1>5, <1>6, <1>7, <1>8, <1>9 DEF IInv

\* Dropping a call keeps the invariant.
LEMMA DropKeeps ==
  ASSUME IInv, NEW c \in Ids, DropCall(c)
  PROVE  IInv'
<1>1. /\ calls[c].state = "suspended" /\ calls' = [calls EXCEPT ![c].state = "dropped"]
      /\ lock' = lock /\ active' = active /\ slot' = slot /\ stack' = stack /\ taken' = taken /\ last' = last
  BY DEF DropCall
<1>2. PICK r \in Call : calls' = [calls EXCEPT ![c] = r] /\ Updates(c, "dropped", calls[c].out, r)
  BY Zenon, <1>1, StateUpdate DEF IInv, States
<1>3. Replaced(c, r)
  BY Zenon, <1>2, RecordReplaced DEF IInv
<1>4. Typed'
  BY <1>1, <1>3 DEF IInv, Typed, Replaced
<1>5. Stacked'
  BY <1>1, <1>3, Elsewhere DEF Replaced, OnStack, Stacked
<1>6. ASSUME NEW d \in Ids PROVE UnderWayAt(d)'
  <2>1. CASE d = c
    BY <2>1, <1>1, <1>2, <1>3 DEF UnderWayAt, UnderWay, IInv, Replaced, Updates, OnStack
  <2>2. CASE d # c
    BY <2>2, <1>1, <1>3 DEF UnderWayAt, UnderWay, IInv, Replaced, OnStack
  <2> QED
    BY <2>1, <2>2
<1>7. UnderWay'
  BY <1>3, <1>6 DEF UnderWay, Replaced
<1>8. Leased'
  BY <1>1, <1>3, Elsewhere DEF Replaced, OnStack, Leased, IInv
<1>9. Slotted' /\ Handed'
  <2>1. (\A s \in slot : calls'[s.call] = calls[s.call]) /\ Handed'
    BY <1>1, <1>3, DoneStays
  <2>2. \A u \in lock : stack[u][1] \in Ids \ {c}
    <3>1. ASSUME NEW u \in lock PROVE u \in Threads /\ stack[u] # <<>> /\ calls[stack[u][1]].state = "guest"
      BY DEF IInv, Typed, Leased, LeasedAt
    <3>2. \A u \in lock : stack[u][1] \in Ids
      BY <3>1, Innermost DEF IInv
    <3> QED
      BY <3>1, <3>2, <1>1
  <2>3. \A u \in lock : calls'[stack[u][1]] = calls[stack[u][1]]
    BY <2>2, <1>3 DEF Replaced
  <2> QED
    BY <2>1, <2>3, <1>1 DEF IInv, Slotted
<1> QED
  BY <1>4, <1>5, <1>7, <1>8, <1>9 DEF IInv

\* Taking the last trap keeps the invariant.
LEMMA TakeKeeps ==
  ASSUME IInv, NEW t \in Threads, TakeLastTrap(t)
  PROVE  IInv'
<1>1. /\ slot' \subseteq slot /\ lock' = lock /\ active' = active /\ stack' = stack /\ calls' = calls /\ last' = last
      /\ taken' = {[thread |-> t, call |-> s.call, last |-> last[t]] : s \in OwnTrap(t)}
  BY DEF TakeLastTrap
<1>2. Ids' = Ids
  BY SMTT(20), <1>1 DEF Ids
<1>3. Typed'
  BY SMTT(20), <1>1, <1>2 DEF IInv, Typed
<1>4. Stacked' /\ UnderWay' /\ Leased'
  BY Zenon, <1>1, <1>2 DEF IInv, Stacked, StackedAt, UnderWay, UnderWayAt, Leased, LeasedAt
<1>5. Slotted'
  BY Zenon, <1>1 DEF IInv, Slotted
<1>6. ASSUME NEW s \in OwnTrap(t)
      PROVE  /\ s.call \in Ids /\ calls[s.call].thread = t /\ calls[s.call].out = "trap" /\ calls[s.call].state = "done"
             /\ calls[s.call].parent = 0 => s.call = last[t]
  BY DEF OwnTrap, IInv, Typed, Slotted
<1>7. Handed'
  BY <1>1, <1>2, <1>6 DEF Handed
<1> QED
  BY <1>3, <1>4, <1>5, <1>7 DEF IInv

\* A step that changes nothing keeps the invariant.
LEMMA StutterKeeps == IInv /\ UNCHANGED callVars => IInv'
<1> SUFFICES ASSUME IInv, UNCHANGED callVars PROVE IInv'
  OBVIOUS
<1>1. /\ slot' = slot /\ lock' = lock /\ active' = active /\ stack' = stack /\ calls' = calls /\ last' = last
      /\ taken' = taken /\ Ids' = Ids
  BY DEF callVars, Ids
<1>2. Typed' /\ Stacked' /\ UnderWay'
  BY <1>1 DEF IInv, Typed, Stacked, StackedAt, UnderWay, UnderWayAt
<1>3. Leased' /\ Slotted'
  BY <1>1 DEF IInv, Leased, LeasedAt, Slotted
<1>4. Handed'
  BY <1>1 DEF IInv, Handed
<1> QED
  BY <1>2, <1>3, <1>4 DEF IInv
-----------------------------------------------------------------------------
\* The inductive invariant holds in every reachable state.
THEOREM Inductive == CallsSpec => []IInv
<1>1. IInv /\ [CallsNext]_callVars => IInv'
  <2> SUFFICES ASSUME IInv, [CallsNext]_callVars PROVE IInv'
    OBVIOUS
  <2>1. ASSUME NEW t \in Threads, NEW early \in BOOLEAN, BeginAsync(t, early) PROVE IInv'
    BY Zenon, <2>1, EarlyEndKeeps, AsyncBeginKeeps
  <2>2. ASSUME NEW t \in Threads, EnterSlice(t) PROVE IInv'
    BY <2>2, EnterKeeps
  <2>3. ASSUME NEW t \in Threads, NEW out \in Outcomes, LeaveSlice(t, out) \/ EndSync(t, out) PROVE IInv'
    BY <2>3, LeaveKeeps, EndSyncKeeps
  <2>4. ASSUME NEW t \in Threads, Publish(t) \/ BeginSync(t) \/ TakeLastTrap(t) PROVE IInv'
    BY <2>4, PublishKeeps, SyncBeginKeeps, TakeKeeps
  <2>5. ASSUME NEW c \in Ids, DropCall(c) PROVE IInv'
    BY <2>5, DropKeeps
  <2>6. ASSUME NEW c \in Ids, NEW host \in BOOLEAN, Resume(c, host) PROVE IInv'
    BY <2>6, ResumeKeeps
  <2>7. ASSUME UNCHANGED callVars PROVE IInv'
    BY <2>7, StutterKeeps
  <2>8. ASSUME NEW t \in Threads, NEW ok \in BOOLEAN, CompletionApplied(t, ok) PROVE IInv'
    BY <2>8, ApplyKeeps
  <2>9. ASSUME NEW t \in Threads, EnterSync(t) PROVE IInv'
    BY <2>9, EnterSyncKeeps
  <2> QED
    BY <2>1, <2>2, <2>3, <2>4, <2>5, <2>6, <2>7, <2>8, <2>9 DEF CallsNext
<1> QED
  BY <1>1, InitEstablishes, PTL DEF CallsSpec

\* The lease of lock_runtime and ACTIVE_STORE_RUNTIME is balanced and exclusive,
\* for any threads and any number of calls, however they nest and suspend.
THEOREM LeaseTheorem == CallsSpec => []LeaseBalanced
<1>1. IInv => LeaseBalanced
  <2> SUFFICES ASSUME IInv PROVE LeaseBalanced
    OBVIOUS
  <2>1. (\A t, u \in lock : t = u) /\ (\A l, m \in slot : l = m)
    BY DEF IInv, Leased, Slotted
  <2>2. CallsTypeOK
    BY <2>1 DEF IInv, Typed, CallsTypeOK, Call, States
  <2>3. ASSUME NEW t \in Threads
        PROVE  t \in lock <=> \E c \in Ids : calls[c].state = "guest" /\ calls[c].thread = t
    <3>1. ASSUME t \in lock PROVE \E c \in Ids : calls[c].state = "guest" /\ calls[c].thread = t
      <4>1. stack[t] # <<>> /\ calls[stack[t][1]].state = "guest"
        BY <3>1 DEF IInv, Leased, LeasedAt
      <4>2. stack[t][1] \in Ids /\ 1 \in 1..Len(stack[t])
        BY <4>1, Innermost DEF IInv
      <4>3. calls[stack[t][1]].thread = t
        BY <4>2 DEF IInv, Stacked, StackedAt, StackOK
      <4> QED
        BY <4>1, <4>2, <4>3
    <3>2. ASSUME NEW c \in Ids, calls[c].state = "guest", calls[c].thread = t PROVE t \in lock
      <4>1. PICK i \in 1..Len(stack[t]) : stack[t][i] = c
        BY <3>2 DEF IInv, UnderWay, UnderWayAt, OnStack
      <4>2. stack[t] \in Seq(Ids) /\ StackOK(stack[t], calls, t) /\ LeasedAt(t)
        BY DEF IInv, Typed, Stacked, StackedAt, Leased
      <4>3. stack[t] # <<>> /\ 1 \in 1..Len(stack[t]) /\ Len(stack[t]) \in Nat
        BY <4>1, <4>2, EmptyFacts, SeqFacts
      <4>4. calls[stack[t][1]].state = "guest"
        BY <4>1, <4>2, <4>3, <3>2 DEF StackOK
      <4> QED
        BY <4>2, <4>3, <4>4 DEF LeasedAt
    <3> QED
      BY <3>1, <3>2
  <2> QED
    BY <2>2, <2>3 DEF IInv, Leased, LeasedAt, LeaseBalanced
<1> QED
  BY <1>1, Inductive, PTL

\* take_last_trap returns the trap of a call that failed on the calling thread,
\* and of an outermost call only while that is the last to complete there.
THEOREM TrapTheorem == CallsSpec => []TrapIsOwn
<1>1. IInv => TrapIsOwn
  BY DEF IInv, Handed, TrapIsOwn, NeverAnothersTrap, NeverStaleTrap
<1> QED
  BY <1>1, Inductive, PTL
=============================================================================
