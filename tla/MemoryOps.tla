----------------------------- MODULE MemoryOps -----------------------------
(***************************************************************************)
(* The handlers of linear memory (runtime/vm/memory.rs): loads and stores  *)
(* on the default and on indexed memories, local and shared, with three    *)
(* ways to form the address, and the superinstructions around them.        *)
(* Floats are moved as the bytes they are.                                 *)
(***************************************************************************)
EXTENDS Locals

(***************************************************************************)
(* The accesses: what is read or written in memory, and what is pushed or  *)
(* popped.                                                                 *)
(***************************************************************************)
LoadRow(t, u) == [load |-> TRUE, t |-> t, u |-> u]
StoreRow(t, u) == [load |-> FALSE, t |-> t, u |-> u]
Accesses ==
  [i32_load |-> LoadRow("u32", "u32"), i64_load |-> LoadRow("u64", "u64"),
   f32_load |-> LoadRow("f32", "f32"), f64_load |-> LoadRow("f64", "f64"),
   i32_load8_u |-> LoadRow("u8", "u32"), i32_load8_s |-> LoadRow("i8", "u32"),
   i32_load16_s |-> LoadRow("i16", "u32"), i32_load16_u |-> LoadRow("u16", "u32"),
   i64_load8_s |-> LoadRow("i8", "u64"), i64_load8_u |-> LoadRow("u8", "u64"),
   i64_load16_s |-> LoadRow("i16", "u64"), i64_load16_u |-> LoadRow("u16", "u64"),
   i64_load32_s |-> LoadRow("i32", "u64"), i64_load32_u |-> LoadRow("u32", "u64"),
   i32_store |-> StoreRow("u32", "u32"), i64_store |-> StoreRow("u64", "u64"),
   f32_store |-> StoreRow("f32", "f32"), f64_store |-> StoreRow("f64", "f64"),
   i32_store8 |-> StoreRow("u8", "u32"), i32_store16 |-> StoreRow("u16", "u32"),
   i64_store8 |-> StoreRow("u8", "u64"), i64_store16 |-> StoreRow("u16", "u64"),
   i64_store32 |-> StoreRow("u32", "u64")]
I32LoadTypes ==
  [i32_load |-> "u32", i32_load8_u |-> "u8", i32_load8_s |-> "i8", i32_load16_u |-> "u16", i32_load16_s |-> "i16"]
I32Loads == DOMAIN I32LoadTypes
I32Stores == {"i32_store", "i32_store8", "i32_store16"}

(* How an address is formed: from the stack, or from slots.                *)
load_start == [pre |-> <<Pop("base", "u32")>>, a |-> V("base"), k |-> 0]
load_start_indexed == load_start
load_start_local_base == [pre |-> <<>>, a |-> Plus(L(0), K(1)), k |-> 2]
load_start_indexed_local_base == load_start_local_base
load_start_shared_local_base == load_start_local_base
load_start_indexed_shared_local_base == load_start_local_base

load_start_local_scaled_index ==
  [pre |-> <<>>, a |-> Plus(Plus(L(0), Shl(L(1), K(2))), K(3)), k |-> 4]
load_start_indexed_local_scaled_index == load_start_local_scaled_index
load_start_shared_local_scaled_index == load_start_local_scaled_index
load_start_indexed_shared_local_scaled_index == load_start_local_scaled_index

(* The operands are those of the address, the memarg and, if there is one, *)
(* the index of the memory.                                                *)
OnDefault(s) == [mem |-> Default, slots |-> s.k + 1] @@ s
OnShared(s) == [mem |-> DefaultShared, slots |-> s.k + 1] @@ s
OnIndexed(s) == [mem |-> Indexed(s.k + 1), slots |-> s.k + 2] @@ s
OnIndexedShared(s) == [mem |-> IndexedShared(s.k + 1), slots |-> s.k + 2] @@ s

Loads(s, t, u) == H(s.slots, s.pre \o <<Load("v", t, u, s.mem, s.a, s.k), Push(u, V("v"))>>)
(* A store takes its value before its address.                             *)
Stores(s, t, u) == H(s.slots, <<Pop("v", u)>> \o s.pre \o <<Store(t, s.mem, s.a, s.k, V("v"))>>)

-----------------------------------------------------------------------------
(* The default local memory, address on the stack.                         *)
DefaultLoads(t, u) == Loads(OnDefault(load_start), t, u)
store_internal_local(t, u) == Stores(OnDefault(load_start), t, u)
op_i32_load == DefaultLoads("u32", "u32")
WholeLoads ==
  LET by(load(_, _)) ==
        [op_i64_load |-> load("u64", "u64"), op_f32_load |-> load("f32", "f32"), op_f64_load |-> load("f64", "f64"),
         op_i32_load8_u |-> load("u8", "u32"), op_i32_load8_s |-> load("i8", "u32"),
         op_i32_load16_s |-> load("i16", "u32")]
  IN by(DefaultLoads)
ExtendingLoads ==
  LET by(load(_, _)) ==
        [op_i32_load16_u |-> load("u16", "u32"), op_i64_load8_s |-> load("i8", "u64"),
         op_i64_load8_u |-> load("u8", "u64"), op_i64_load16_s |-> load("i16", "u64"),
         op_i64_load16_u |-> load("u16", "u64"), op_i64_load32_s |-> load("i32", "u64")]
  IN by(DefaultLoads)
PlainStores ==
  LET by(load(_, _), store(_, _)) ==
        [op_i64_load32_u |-> load("u32", "u64"), op_i32_store |-> store("u32", "u32"),
         op_i64_store |-> store("u64", "u64"), op_f32_store |-> store("f32", "f32"),
         op_f64_store |-> store("f64", "f64"), op_i32_store8 |-> store("u8", "u32"),
         op_i32_store16 |-> store("u16", "u32")]
  IN by(DefaultLoads, store_internal_local)
I64NarrowStores ==
  LET by(store(_, _)) ==
        [op_i64_store8 |-> store("u8", "u64"), op_i64_store16 |-> store("u16", "u64"),
         op_i64_store32 |-> store("u32", "u64")]
  IN by(store_internal_local)

PlainOps ==
  LET over(ops) ==
        [i32_load |-> op_i32_load, i64_load |-> ops.op_i64_load, f32_load |-> ops.op_f32_load,
         f64_load |-> ops.op_f64_load, i32_load8_u |-> ops.op_i32_load8_u, i32_load8_s |-> ops.op_i32_load8_s,
         i32_load16_s |-> ops.op_i32_load16_s, i32_load16_u |-> ops.op_i32_load16_u,
         i64_load8_s |-> ops.op_i64_load8_s, i64_load8_u |-> ops.op_i64_load8_u,
         i64_load16_s |-> ops.op_i64_load16_s, i64_load16_u |-> ops.op_i64_load16_u,
         i64_load32_s |-> ops.op_i64_load32_s, i64_load32_u |-> ops.op_i64_load32_u,
         i32_store |-> ops.op_i32_store, i64_store |-> ops.op_i64_store, f32_store |-> ops.op_f32_store,
         f64_store |-> ops.op_f64_store, i32_store8 |-> ops.op_i32_store8, i32_store16 |-> ops.op_i32_store16,
         i64_store8 |-> ops.op_i64_store8, i64_store16 |-> ops.op_i64_store16, i64_store32 |-> ops.op_i64_store32]
  IN over(WholeLoads @@ ExtendingLoads @@ PlainStores @@ I64NarrowStores)

-----------------------------------------------------------------------------
(***************************************************************************)
(* The other memories and address forms: what each macro of the source     *)
(* defines, and the handlers it is used for.                               *)
(***************************************************************************)
Family(push(_), scalar(_, _), store(_, _)) ==
  LET of(x) == IF ~x.load THEN store(x.t, x.u) ELSE IF x.t = x.u THEN push(x.t) ELSE scalar(x.t, x.u)
      over(rows) == [n \in DOMAIN rows |-> of(rows[n])]
  IN over(Accesses)

store_internal_shared(t, u) == Stores(OnShared(load_start), t, u)
store_internal_local_indexed(t, u) == Stores(OnIndexed(load_start_indexed), t, u)
store_internal_shared_indexed(t, u) == Stores(OnIndexedShared(load_start_indexed), t, u)

shared_push_load(t) == Loads(OnShared(load_start), t, t)
shared_scalar_load(t, u) == Loads(OnShared(load_start), t, u)
shared_store_alias(t, u) == store_internal_shared(t, u)
SharedOps == Family(shared_push_load, shared_scalar_load, shared_store_alias)

(* These macros define a handler for local and one for shared memories.    *)
On(shared, s) == IF shared THEN OnIndexedShared(s) ELSE OnIndexed(s)
indexed_push_load(shared, t) == Loads(On(shared, load_start_indexed), t, t)
indexed_scalar_load(shared, t, u) == Loads(On(shared, load_start_indexed), t, u)
indexed_store_alias(shared, t, u) ==
  IF shared THEN store_internal_shared_indexed(t, u) ELSE store_internal_local_indexed(t, u)
IndexedOps ==
  Family(LAMBDA t : indexed_push_load(FALSE, t), LAMBDA t, u : indexed_scalar_load(FALSE, t, u),
         LAMBDA t, u : indexed_store_alias(FALSE, t, u))
IndexedSharedOps ==
  Family(LAMBDA t : indexed_push_load(TRUE, t), LAMBDA t, u : indexed_scalar_load(TRUE, t, u),
         LAMBDA t, u : indexed_store_alias(TRUE, t, u))

local_base_push_load(t) == Loads(OnDefault(load_start_local_base), t, t)
local_base_scalar_load(t, u) == Loads(OnDefault(load_start_local_base), t, u)
store_internal_local_base(t, u) == Stores(OnDefault(load_start_local_base), t, u)
local_base_store_alias(t, u) == store_internal_local_base(t, u)
LocalBaseOps == Family(local_base_push_load, local_base_scalar_load, local_base_store_alias)

indexed_local_base_push_load(t) == Loads(OnIndexed(load_start_indexed_local_base), t, t)
indexed_local_base_scalar_load(t, u) == Loads(OnIndexed(load_start_indexed_local_base), t, u)
store_internal_indexed_local_base(t, u) == Stores(OnIndexed(load_start_indexed_local_base), t, u)
indexed_local_base_store_alias(t, u) == store_internal_indexed_local_base(t, u)
IndexedLocalBaseOps ==
  Family(indexed_local_base_push_load, indexed_local_base_scalar_load, indexed_local_base_store_alias)

shared_local_base_push_load(t) == Loads(OnShared(load_start_shared_local_base), t, t)
shared_local_base_scalar_load(t, u) == Loads(OnShared(load_start_shared_local_base), t, u)
store_internal_shared_local_base(t, u) == Stores(OnShared(load_start_local_base), t, u)
shared_local_base_store_alias(t, u) == store_internal_shared_local_base(t, u)
SharedLocalBaseOps ==
  Family(shared_local_base_push_load, shared_local_base_scalar_load, shared_local_base_store_alias)

indexed_shared_local_base_push_load(t) == Loads(OnIndexedShared(load_start_indexed_shared_local_base), t, t)
indexed_shared_local_base_scalar_load(t, u) == Loads(OnIndexedShared(load_start_indexed_shared_local_base), t, u)
store_internal_indexed_shared_local_base(t, u) == Stores(OnIndexedShared(load_start_indexed_local_base), t, u)
indexed_shared_local_base_store_alias(t, u) == store_internal_indexed_shared_local_base(t, u)
IndexedSharedLocalBaseOps ==
  Family(indexed_shared_local_base_push_load, indexed_shared_local_base_scalar_load, indexed_shared_local_base_store_alias)

local_scaled_index_push_load(t) == Loads(OnDefault(load_start_local_scaled_index), t, t)
local_scaled_index_scalar_load(t, u) == Loads(OnDefault(load_start_local_scaled_index), t, u)
store_internal_local_scaled_index(t, u) == Stores(OnDefault(load_start_local_scaled_index), t, u)
local_scaled_index_store_alias(t, u) == store_internal_local_scaled_index(t, u)
LocalScaledIndexOps ==
  Family(local_scaled_index_push_load, local_scaled_index_scalar_load, local_scaled_index_store_alias)

indexed_local_scaled_index_push_load(t) == Loads(OnIndexed(load_start_indexed_local_scaled_index), t, t)
indexed_local_scaled_index_scalar_load(t, u) == Loads(OnIndexed(load_start_indexed_local_scaled_index), t, u)
store_internal_indexed_local_scaled_index(t, u) == Stores(OnIndexed(load_start_indexed_local_scaled_index), t, u)
indexed_local_scaled_index_store_alias(t, u) == store_internal_indexed_local_scaled_index(t, u)
IndexedLocalScaledIndexOps ==
  Family(indexed_local_scaled_index_push_load, indexed_local_scaled_index_scalar_load, indexed_local_scaled_index_store_alias)

shared_local_scaled_index_push_load(t) == Loads(OnShared(load_start_shared_local_scaled_index), t, t)
shared_local_scaled_index_scalar_load(t, u) == Loads(OnShared(load_start_shared_local_scaled_index), t, u)
store_internal_shared_local_scaled_index(t, u) == Stores(OnShared(load_start_shared_local_scaled_index), t, u)
shared_local_scaled_index_store_alias(t, u) == store_internal_shared_local_scaled_index(t, u)
SharedLocalScaledIndexOps ==
  Family(shared_local_scaled_index_push_load, shared_local_scaled_index_scalar_load, shared_local_scaled_index_store_alias)

indexed_shared_local_scaled_index_push_load(t) == Loads(OnIndexedShared(load_start_indexed_shared_local_scaled_index), t, t)
indexed_shared_local_scaled_index_scalar_load(t, u) == Loads(OnIndexedShared(load_start_indexed_shared_local_scaled_index), t, u)
store_internal_indexed_shared_local_scaled_index(t, u) == Stores(OnIndexedShared(load_start_indexed_shared_local_scaled_index), t, u)
indexed_shared_local_scaled_index_store_alias(t, u) == store_internal_indexed_shared_local_scaled_index(t, u)
IndexedSharedLocalScaledIndexOps ==
  Family(indexed_shared_local_scaled_index_push_load, indexed_shared_local_scaled_index_scalar_load, indexed_shared_local_scaled_index_store_alias)

=============================================================================
