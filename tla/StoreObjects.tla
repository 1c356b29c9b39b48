---------------------------- MODULE StoreObjects ----------------------------
(***************************************************************************)
(* The linear memory object (common/memory.rs) and the copies between two  *)
(* of them (common/store.rs).  A memory has the fields                     *)
(*   shared   whether it is a shared one                                   *)
(*   data     its bytes, a whole number of pages                           *)
(*   max      the largest number of pages                                  *)
(*   commits  whether the system lets it grow                              *)
(*   waiting  how many waiters are queued at address 0                     *)
(* An operation returns the error or "none", the memory, and a value.      *)
(* A shared one takes the lock of the memory for the whole operation, so   *)
(* that it is one step; only a copy between two memories takes several.    *)
(***************************************************************************)
EXTENDS Numeric

CONSTANTS PageBytes, \* the size of a page (65536 bytes)
          ChunkBytes \* what a copy between memories moves at a time (4096 bytes)

ASSUME SizesAssumption == {PageBytes, ChunkBytes} \subseteq Nat \ {0}

Done(mem, v) == [error |-> "none", mem |-> mem, v |-> v]
Failed(mem, error) == [error |-> error, mem |-> mem, v |-> 0]
OutOfRange(mem) == Failed(mem, "MemoryIndexOutOfRange")

(* The address of an access; the sum is one of u32.                        *)
compute_memory_offset(offset, base) ==
  IF offset + base <= MaxOf("u32") THEN <<offset + base>> ELSE <<>>

page_size(mem) == Len(mem.data) \div PageBytes
read_at(mem, a, t) ==
  IF a + Bytes[t] > Len(mem.data) THEN OutOfRange(mem)
  ELSE Done(mem, ReadBytes(mem.data, a, Bytes[t]))
write_bytes(mem, a, xs) ==
  IF a + Len(xs) > Len(mem.data) THEN OutOfRange(mem)
  ELSE Done([mem EXCEPT !.data =
               [j \in 1 .. Len(@) |-> IF j > a /\ j <= a + Len(xs) THEN xs[j - a] ELSE @[j]]], 0)
BytesOf(t, v) == [i \in 1 .. Bytes[t] |-> (v \div 2^(ByteBits * (i - 1))) % 2^ByteBits]

-----------------------------------------------------------------------------
(* Atomic accesses: the alignment is checked before the range.             *)
ensure_atomic_alignment(a, t) == a % Bytes[t] = 0
atomic_load(mem, a, t) ==
  IF ~ensure_atomic_alignment(a, t) THEN Failed(mem, "UnalignedAtomic") ELSE read_at(mem, a, t)
atomic_store(mem, a, t, v) ==
  IF ~ensure_atomic_alignment(a, t) THEN Failed(mem, "UnalignedAtomic")
  ELSE write_bytes(mem, a, BytesOf(t, v))

RmwOps ==
  [Add |-> "wrapping_add", Sub |-> "wrapping_sub", And |-> "and", Or |-> "or", Xor |-> "bitxor"]
AtomicRmwOp_apply(op, t, old, v) ==
  IF op = "Xchg" THEN v ELSE Wrap(Bits(t), IntArith(RmwOps[op], t, old, v)[1])
atomic_rmw(mem, a, t, op, v) ==
  LET old == atomic_load(mem, a, t)
  IN IF old.error # "none" THEN old
     ELSE [atomic_store(mem, a, t, AtomicRmwOp_apply(op, t, old.v, v)) EXCEPT !.v = old.v]

(* Mutation: the value is stored whatever was found.                       *)
CmpxchgAlways(mem, a, t, expected, v) ==
  LET old == atomic_load(mem, a, t)
  IN IF old.error # "none" THEN old ELSE [atomic_store(mem, a, t, v) EXCEPT !.v = old.v]

atomic_cmpxchg(mem, a, t, expected, v) ==
  LET old == atomic_load(mem, a, t)
  IN IF old.error # "none" \/ old.v # expected THEN old
     ELSE [atomic_store(mem, a, t, v) EXCEPT !.v = old.v]

(* A wait reads the value under the lock; it is registered, which is the   *)
(* value 0 here, or answered at once.                                      *)
WAIT_RESULT_NOT_EQUAL == 1
register_wait(mem, a, t, expected) ==
  LET current == atomic_load(mem, a, t)
  IN IF current.error # "none" THEN current
     ELSE Done(mem, IF current.v # expected THEN WAIT_RESULT_NOT_EQUAL ELSE 0)
notify_waiters(mem, a, count) ==
  LET current == atomic_load(mem, a, "u32")
      woken == IF a = 0 THEN Min({count, mem.waiting}) ELSE 0
  IN IF current.error # "none" THEN current
     ELSE Done([mem EXCEPT !.waiting = @ - woken], woken)

-----------------------------------------------------------------------------
minus_one == MaxOf("u32") \* -1, as the stack holds it
commit(mem, pages) == pages * PageBytes \in {0, Len(mem.data)} \/ mem.commits
grow(mem, delta) ==
  LET pages == page_size(mem)
      new_page_size == pages + delta
  IN IF new_page_size > MaxOf("u32") \/ new_page_size > mem.max \/ ~commit(mem, new_page_size)
     THEN Done(mem, minus_one)
     ELSE Done([mem EXCEPT !.data = @ \o [i \in 1 .. delta * PageBytes |-> 0]], pages)
InBounds(mem, a, len) == a + len <= MaxOf("u32") /\ a + len <= Len(mem.data)
fill(mem, ptr, len, data) ==
  IF ~InBounds(mem, ptr, len) THEN OutOfRange(mem)
  ELSE write_bytes(mem, ptr, [i \in 1 .. len |-> data % 2^ByteBits])
copy(mem, dst, src, len) ==
  IF ~InBounds(mem, src, len) \/ ~InBounds(mem, dst, len) THEN OutOfRange(mem)
  ELSE write_bytes(mem, dst, SubSeq(mem.data, src + 1, src + len))

(* Between two memories: both ranges are checked first, as usize; then one *)
(* chunk is moved at a time.                                               *)
check_memory_range(mem, a, len) == a + len <= Len(mem.data)
Chunks(len) == (len + ChunkBytes - 1) \div ChunkBytes
copy_chunk(to, from, dst, src, len, i) ==
  LET done == (i - 1) * ChunkBytes
      size == Min({len - done, ChunkBytes})
  IN write_bytes(to, dst + done, SubSeq(from.data, src + done + 1, src + done + size)).mem
-----------------------------------------------------------------------------
(***************************************************************************)
(* Tables and segments of an instance, as the handlers of                  *)
(* runtime/vm/tables.rs and runtime/vm/bulk_memory.rs use them.  A table   *)
(* has its references (elems) and, if declared, its maximal length (max,   *)
(* or -1).  A segment is <<contents>>, or <<>> once it has been dropped;   *)
(* an element of one is a constant expression or the index of a function.  *)
(***************************************************************************)

TableError(tab) == Failed(tab, "TableIndexOutOfRange")
Overwrite(xs, at, ys) ==
  [j \in 1 .. Len(xs) |-> IF j > at /\ j <= at + Len(ys) THEN ys[j - at] ELSE xs[j]]

table_get(tab, i) ==
  IF i >= Len(tab.elems) THEN TableError(tab) ELSE Done(tab, tab.elems[i + 1])
table_set(tab, i, val) ==
  IF i >= Len(tab.elems) THEN TableError(tab) ELSE Done([tab EXCEPT !.elems[i + 1] = val], 0)
table_size(tab) == Done(tab, Len(tab.elems))
table_grow(tab, n, val) ==
  IF tab.max >= 0 /\ tab.max < Len(tab.elems) + n THEN Done(tab, minus_one)
  ELSE Done([tab EXCEPT !.elems = @ \o [i \in 1 .. n |-> val]], Len(tab.elems))
table_fill(tab, i, n, val) ==
  IF i + n > Len(tab.elems) THEN TableError(tab)
  ELSE Done([tab EXCEPT !.elems = Overwrite(@, i, [j \in 1 .. n |-> val])], 0)
table_copy(to, from, dst, src, len) ==
  IF src + len > Len(from.elems) \/ dst + len > Len(to.elems) THEN TableError(to)
  ELSE Done([to EXCEPT !.elems = Overwrite(@, dst, SubSeq(from.elems, src + 1, src + len))], 0)

(* What table.init may do, before it touches an element: the table first,  *)
(* then the segment.                                                       *)
table_init_error(tab, segment, dst, src, len) ==
  IF dst + len > Len(tab.elems) THEN TRUE
  ELSE IF segment = <<>> THEN ~(len = 0 /\ src = 0)
  ELSE src + len > Len(segment[1])
(* The reference an element of a segment denotes.                          *)
ElemRef(elem, funcs, globals) ==
  CASE elem.e = "func" -> funcs[elem.i + 1]
    [] elem.e = "global" -> globals[elem.i + 1]
    [] elem.e = "null" -> 0

(* The bytes memory.init copies.                                           *)
mem_init_bytes(mem, segment, src, len) ==
  IF segment = <<>> /\ len = 0 /\ src = 0 THEN Done(mem, <<>>)
  ELSE IF segment = <<>> \/ src + len > MaxOf("u32") \/ src + len > Len(segment[1]) THEN OutOfRange(mem)
  ELSE Done(mem, SubSeq(segment[1], src + 1, src + len))
=============================================================================
