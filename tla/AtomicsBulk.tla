---------------------------- MODULE AtomicsBulk -----------------------------
(***************************************************************************)
(* The handlers of the threads instructions (runtime/vm/atomics.rs): loads,*)
(* stores, read-modify-write operations, wait, notify and fence.  As in    *)
(* the source, there is a macro for each kind of access and of memory, and *)
(* one list of its uses for each operation.                                *)
(***************************************************************************)
EXTENDS Simd

(* The width in memory and on the stack, in the order of the lists.        *)
AtomicTypes ==
  <<<<"u32", "u32">>, <<"u64", "u64">>, <<"u8", "u32">>, <<"u16", "u32">>,
    <<"u8", "u64">>, <<"u16", "u64">>, <<"u32", "u64">>>>
Uses(macro(_, _)) == [i \in 1 .. Len(AtomicTypes) |-> macro(AtomicTypes[i][1], AtomicTypes[i][2])]

atomic_start == <<Pop("base", "u32")>>
atomic_start_indexed == atomic_start
AsNarrow(x, t) == Let(x, F("wrapping_add", t, V(x), N(0)))

LoadOf(start, slots, mem, t, u) == H(slots, start \o <<Atomic("old", "load", t, mem, V("base"), <<>>), Push(u, V("old"))>>)
AtomicStoreOf(start, slots, mem, t, u) ==
  H(slots, <<Pop("v", u), AsNarrow("v", t)>> \o start \o <<Atomic("old", "store", t, mem, V("base"), <<V("v")>>)>>)
RmwOf(start, slots, mem, t, u, op) ==
  H(slots, <<Pop("v", u), AsNarrow("v", t)>> \o start
             \o <<Atomic("old", op, t, mem, V("base"), <<V("v")>>), Push(u, V("old"))>>)
CmpxchgOf(start, slots, mem, t, u) ==
  H(slots, <<Pop("v", u), AsNarrow("v", t), Pop("expected", u), AsNarrow("expected", t)>> \o start
             \o <<Atomic("old", "cmpxchg", t, mem, V("base"), <<V("expected"), V("v")>>), Push(u, V("old"))>>)

atomic_load_op(t, u) == LoadOf(atomic_start, 1, Default, t, u)
atomic_load_op_shared(t, u) == LoadOf(atomic_start, 1, DefaultShared, t, u)
atomic_store_op(t, u) == AtomicStoreOf(atomic_start, 1, Default, t, u)
atomic_store_op_shared(t, u) == AtomicStoreOf(atomic_start, 1, DefaultShared, t, u)
atomic_rmw_op(op, t, u) == RmwOf(atomic_start, 1, Default, t, u, op)
atomic_rmw_op_shared(op, t, u) == RmwOf(atomic_start, 1, DefaultShared, t, u, op)
atomic_cmpxchg_op(t, u) == CmpxchgOf(atomic_start, 1, Default, t, u)
atomic_cmpxchg_op_shared(t, u) == CmpxchgOf(atomic_start, 1, DefaultShared, t, u)
(* These define a handler for local and one for shared memories.           *)
IndexedBy(shared) == IF shared THEN IndexedShared(1) ELSE Indexed(1)
atomic_load_op_indexed(shared, t, u) == LoadOf(atomic_start_indexed, 2, IndexedBy(shared), t, u)
atomic_store_op_indexed(shared, t, u) == AtomicStoreOf(atomic_start_indexed, 2, IndexedBy(shared), t, u)
atomic_rmw_op_indexed(shared, op, t, u) == RmwOf(atomic_start_indexed, 2, IndexedBy(shared), t, u, op)
atomic_cmpxchg_op_indexed(shared, t, u) == CmpxchgOf(atomic_start_indexed, 2, IndexedBy(shared), t, u)

Rmw(op) == Uses(LAMBDA t, u : atomic_rmw_op(op, t, u))
AtomicLoadToSub ==
  [op_atomic_load |-> Uses(atomic_load_op),
   op_atomic_store |-> Uses(atomic_store_op),
   op_atomic_rmw_add |-> Rmw("Add"),
   op_atomic_rmw_sub |-> Rmw("Sub")]
AtomicAndOr ==
  [op_atomic_rmw_and |-> Rmw("And"),
   op_atomic_rmw_or |-> Rmw("Or")]
AtomicXorXchg ==
  [op_atomic_rmw_xor |-> Rmw("Xor"),
   op_atomic_rmw_xchg |-> Rmw("Xchg")]

AtomicCmpxchgLoads ==
  [op_atomic_rmw_cmpxchg |-> Uses(atomic_cmpxchg_op),
   op_atomic_load_shared |-> Uses(atomic_load_op_shared),
   op_atomic_store_shared |-> Uses(atomic_store_op_shared)]
RmwShared(op) == Uses(LAMBDA t, u : atomic_rmw_op_shared(op, t, u))
SharedAddSub ==
  [op_atomic_rmw_add_shared |-> RmwShared("Add"),
   op_atomic_rmw_sub_shared |-> RmwShared("Sub")]
SharedAndOr ==
  [op_atomic_rmw_and_shared |-> RmwShared("And"),
   op_atomic_rmw_or_shared |-> RmwShared("Or")]
SharedXorXchg ==
  [op_atomic_rmw_xor_shared |-> RmwShared("Xor"),
   op_atomic_rmw_xchg_shared |-> RmwShared("Xchg")]
op_atomic_rmw_cmpxchg_shared == Uses(atomic_cmpxchg_op_shared)

op_atomic_load_indexed(shared) == Uses(LAMBDA t, u : atomic_load_op_indexed(shared, t, u))
op_atomic_store_indexed(shared) == Uses(LAMBDA t, u : atomic_store_op_indexed(shared, t, u))
RmwIndexed(shared, op) == Uses(LAMBDA t, u : atomic_rmw_op_indexed(shared, op, t, u))
op_atomic_rmw_add_indexed(shared) == RmwIndexed(shared, "Add")
op_atomic_rmw_sub_indexed(shared) == RmwIndexed(shared, "Sub")
op_atomic_rmw_and_indexed(shared) == RmwIndexed(shared, "And")
op_atomic_rmw_or_indexed(shared) == RmwIndexed(shared, "Or")
op_atomic_rmw_xor_indexed(shared) == RmwIndexed(shared, "Xor")
op_atomic_rmw_xchg_indexed(shared) == RmwIndexed(shared, "Xchg")
op_atomic_rmw_cmpxchg_indexed(shared) == Uses(LAMBDA t, u : atomic_cmpxchg_op_indexed(shared, t, u))

-----------------------------------------------------------------------------
NotifyShared(slots, mem, start) ==
  H(slots, <<Pop("count", "u32")>> \o start
             \o <<Atomic("woken", "notify_waiters", "u32", mem, V("base"), <<V("count")>>),
                  Charge(Plus(N(1), V("woken"))), Push("u32", V("woken"))>>)

(* Wait: an error on an unshared memory; on a shared one the answer that   *)
(* the values differ, or a registration and the effect of waiting for it.  *)
WaitUnshared(slots, t, start) ==
  H(slots, <<Pop("timeout_ns", "u64"), Pop("expected", t)>> \o start \o <<Offset(V("base"), 0), Fail("InvalidOperand")>>)
(* Notify: nothing waits on an unshared memory, and the address is only    *)
(* computed.  On a shared one the work done is paid for afterwards.        *)
NotifyOps ==
  [op_memory_atomic_notify |-> H(1, <<Pop("count", "u32")>> \o atomic_start \o <<Offset(V("base"), 0),
                                                                                 Push("u32", N(0))>>),
   op_memory_atomic_notify_shared |-> NotifyShared(1, DefaultShared, atomic_start),
   op_memory_atomic_notify_indexed_unshared |->
      H(2, <<Pop("count", "u32")>> \o atomic_start_indexed \o <<Offset(V("base"), 0), Push("u32", N(0))>>),
   op_memory_atomic_notify_indexed_shared |-> NotifyShared(2, IndexedShared(1), atomic_start_indexed),
   push_wait_effect |-> <<Yield>>]
WaitShared(slots, t, mem, start) ==
  H(slots, <<Pop("timeout_ns", "u64"), Pop("expected", t)>> \o start
             \o <<Atomic("result", "register_wait", t, mem, V("base"), <<V("expected")>>),
                  Either(V("result"), NotifyOps.push_wait_effect, <<Push("u32", V("result"))>>)>>)
Waits32 ==
  [op_memory_atomic_wait32 |-> WaitUnshared(1, "u32", atomic_start),
   op_memory_atomic_wait32_shared |-> WaitShared(1, "u32", DefaultShared, atomic_start),
   op_memory_atomic_wait32_indexed_unshared |-> WaitUnshared(2, "u32", atomic_start_indexed),
   op_memory_atomic_wait32_indexed_shared |-> WaitShared(2, "u32", IndexedShared(1), atomic_start_indexed)]

Waits64 ==
  [op_memory_atomic_wait64 |-> WaitUnshared(1, "u64", atomic_start),
   op_memory_atomic_wait64_shared |-> WaitShared(1, "u64", DefaultShared, atomic_start),
   op_memory_atomic_wait64_indexed_unshared |-> WaitUnshared(2, "u64", atomic_start_indexed),
   op_memory_atomic_wait64_indexed_shared |-> WaitShared(2, "u64", IndexedShared(1), atomic_start_indexed),
   (* A fence takes and releases the lock of a shared memory.                 *)
   op_atomic_fence |-> H(1, <<>>)]
op_atomic_fence_shared == H(1, <<>>)
-----------------------------------------------------------------------------
(***************************************************************************)
(* The handlers of memory.size and memory.grow (runtime/vm/memory.rs), of  *)
(* the bulk memory instructions (bulk_memory.rs), of tables (tables.rs),   *)
(* globals (globals.rs) and references (refs.rs).                          *)
(***************************************************************************)

CONSTANTS MemoryGranule, \* bytes per unit of fuel, as a power of 2 (12)
          TableGranule, \* elements per unit of fuel, as a power of 2 (10)
          PageGranules \* units of fuel per page, as a power of 2 (4)

ASSUME GranuleAssumption == {MemoryGranule, TableGranule, PageGranules} \subseteq Nat

(* As u64, which the sums and shifts cannot overflow.                      *)
memory_bulk_charge(len) == F("wrapping_add", "u64", N(1), Shr(len, N(MemoryGranule)))
page_charge(delta) == F("wrapping_add", "u64", N(1), F("wasm_shl", "u64", delta, N(PageGranules)))
table_bulk_charge(len) == F("wrapping_add", "u64", N(1), Shr(len, N(TableGranule)))

MemSize(slots, mem) == H(slots, <<WholeMemory("pages", "page_size", mem, <<>>), Push("u32", V("pages"))>>)
MemGrow(slots, mem) ==
  H(slots, <<Pop("delta", "u32"), Charge(page_charge(V("delta"))),
             WholeMemory("result", "grow", mem, <<V("delta")>>), Push("u32", V("result"))>>)
SizeAndGrow ==
  [op_mem_size |-> MemSize(0, Default),
   op_mem_grow |-> MemGrow(0, Default)]
SizesAndGrows ==
  [op_mem_size_shared |-> MemSize(0, DefaultShared),
   op_mem_grow_shared |-> MemGrow(0, DefaultShared),
   op_mem_size_indexed_local |-> MemSize(1, Indexed(0)),
   op_mem_size_indexed_shared |-> MemSize(1, IndexedShared(0)),
   op_mem_grow_indexed_local |-> MemGrow(1, Indexed(0))]
op_mem_grow_indexed_shared == MemGrow(1, IndexedShared(0))

-----------------------------------------------------------------------------
PopRange == <<Pop("len", "u32"), Pop("src", "u32"), Pop("dst", "u32")>>
MemInit(slots, mem) ==
  H(slots, PopRange \o <<Charge(memory_bulk_charge(V("len"))), InitMemory(0, mem, V("dst"), V("src"), V("len"))>>)
MemCopy(mem) ==
  H(0, <<ReturnIfPending>> \o PopRange
         \o <<Charge(memory_bulk_charge(V("len"))), WholeMemory("r", "copy", mem, <<V("dst"), V("src"), V("len")>>)>>)
MemFill(slots, mem) ==
  H(slots, <<Pop("len", "u32"), Pop("data", "u32"), Pop("ptr", "u32"), Charge(memory_bulk_charge(V("len"))),
             WholeMemory("r", "fill", mem, <<V("ptr"), V("len"), V("data")>>)>>)
BulkMemory ==
  [op_mem_init |-> MemInit(1, Default),
   op_data_drop |-> H(1, <<ReturnIfPending, DropSegment("data", 0)>>),
   op_mem_copy |-> MemCopy(Default),
   op_mem_fill |-> MemFill(0, Default),
   op_mem_init_shared |-> MemInit(1, DefaultShared)]
BulkShared ==
  [op_mem_copy_shared |-> MemCopy(DefaultShared),
   op_mem_fill_shared |-> MemFill(0, DefaultShared),
   op_mem_init_indexed_local |-> MemInit(2, Indexed(1)),
   op_mem_init_indexed_shared |-> MemInit(2, IndexedShared(1))]

(* Between memories of one kind the two may be the same one, which is then *)
(* paid for in advance.                                                    *)
ChargeIfSame == When(Equal(MemoryNamed(0), MemoryNamed(1)), <<Charge(memory_bulk_charge(V("len")))>>)
MemCopyIndexed(to, from, charge) ==
  H(2, <<ReturnIfPending>> \o PopRange \o charge \o <<CopyMemory(to, from, V("dst"), V("src"), V("len"))>>)
BulkCopies ==
  [op_mem_copy_indexed_local_local |-> MemCopyIndexed(Indexed(0), Indexed(1), <<ChargeIfSame>>),
   op_mem_copy_indexed_local_shared |-> MemCopyIndexed(Indexed(0), IndexedShared(1), <<>>),
   op_mem_copy_indexed_shared_local |-> MemCopyIndexed(IndexedShared(0), Indexed(1), <<>>)]
BulkFills ==
  [op_mem_copy_indexed_shared_shared |-> MemCopyIndexed(IndexedShared(0), IndexedShared(1), <<ChargeIfSame>>),
   op_mem_fill_indexed_local |-> MemFill(1, Indexed(0)),
   op_mem_fill_indexed_shared |-> MemFill(1, IndexedShared(0))]

-----------------------------------------------------------------------------
TableAccess ==
  [op_table_get |-> H(1, <<Pop("i", "u32"), OnTable("val", "get", 0, <<V("i")>>), Push("u32", V("val"))>>),
   op_table_set |-> H(1, <<Pop("val", "u32"), Pop("i", "u32"), OnTable("r", "set", 0, <<V("i"), V("val")>>)>>)]
op_table_init == H(2, PopRange \o <<InitTable(0, 1, V("dst"), V("src"), V("len"))>>)
op_elem_drop == H(1, <<DropSegment("elem", 0)>>)

(* Mutation: the work is paid for once it is done.                         *)
TableCopyChargedAfter ==
  H(2, PopRange \o <<CopyTable(0, 1, V("dst"), V("src"), V("len")), Charge(table_bulk_charge(V("len")))>>)

op_table_copy == H(2, PopRange \o <<Charge(table_bulk_charge(V("len"))), CopyTable(0, 1, V("dst"), V("src"), V("len"))>>)
(* A length with the sign bit set is refused before anything is paid.      *)
TableSizes ==
  [op_table_grow |->
      H(1, <<Pop("n", "u32"), Pop("val", "u32"),
             Either(F("lt", "i32", V("n"), N(0)),
                    <<Charge(table_bulk_charge(V("n"))), OnTable("sz", "grow", 0, <<V("n"), V("val")>>),
                      Push("u32", V("sz"))>>,
                    <<Push("u32", N(minus_one))>>)>>),
   op_table_size |-> H(1, <<OnTable("val", "size", 0, <<>>), Push("u32", V("val"))>>),
   op_table_fill |->
      H(1, <<Pop("n", "u32"), Pop("val", "u32"), Pop("i", "u32"), Charge(table_bulk_charge(V("n"))),
             OnTable("r", "fill", 0, <<V("i"), V("n"), V("val")>>)>>)]

-----------------------------------------------------------------------------
GlobalAccess ==
  [op_global_get4 |-> H(1, <<GetGlobal("v", 0), Push("u32", V("v"))>>),
   op_global_get8 |-> H(1, <<GetGlobal("v", 0), Push("u64", V("v"))>>),
   op_global_get16 |-> H(1, <<GetGlobal("v", 0), Push("u128", V("v"))>>),
   op_global_set4 |-> H(1, <<Pop("v", "u32"), SetGlobal(0, V("v"))>>),
   op_global_set8 |-> H(1, <<Pop("v", "u64"), SetGlobal(0, V("v"))>>),
   op_global_set16 |-> H(1, <<Pop("v", "u128"), SetGlobal(0, V("v"))>>)]
References ==
  [op_ref_null |-> H(0, <<Push("u32", N(0))>>),
   op_ref_is_null |-> H(0, <<Pop("v", "u32"), Push("u32", IsZero(V("v")))>>),
   op_ref_func |-> H(1, <<GetFunc("f", 0), Push("u32", V("f"))>>)]

=============================================================================
