----------------------------- MODULE ParsePlain -----------------------------
(***************************************************************************)
(* What the parser does with the numeric instructions (parse_inst in       *)
(* parser/core/instruction.rs): the handler it emits and the operand types *)
(* it checks.  Each sequence holds the rows of consecutive opcodes.        *)
(***************************************************************************)
EXTENDS AtomicsBulk

op(takes, gives, handler) == [takes |-> takes, gives |-> gives, code |-> <<handler>>]
(* Mutation: a comparison leaves a value of the type it compares.          *)
CondOfOperandType(t, handler) == op(<<t, t>>, <<t>>, handler)

cond_op(t, handler) == op(<<t, t>>, <<"i32">>, handler)
unary_op(t, handler) == op(<<t, t>>, <<t>>, handler)
binary_op(t, handler) == op(<<t>>, <<t>>, handler)
(* An instruction that only changes the type of its operand.               *)
erased(takes, gives) == [takes |-> takes, gives |-> gives, code |-> <<>>]

ParseI32Compare == <<
  op(<<"i32">>, <<"i32">>, I64Shifts.op_i32_eqz), cond_op("i32", I64OrderI32Equality.op_i32_eq),
  cond_op("i32", I64OrderI32Equality.op_i32_ne), cond_op("i32", I32Order.op_i32_lt_s),
  cond_op("i32", I32Order.op_i32_lt_u), cond_op("i32", I32Order.op_i32_gt_s),
  cond_op("i32", I32Order.op_i32_gt_u), cond_op("i32", I32Order.op_i32_le_s),
  cond_op("i32", I32Order.op_i32_le_u), cond_op("i32", I32OrderExtend.op_i32_ge_s),
  cond_op("i32", I32OrderExtend.op_i32_ge_u)>>

ParseI64Compare == <<
  op(<<"i64">>, <<"i32">>, I64Shifts.op_i64_eqz), cond_op("i64", I64Order.op_i64_eq),
  cond_op("i64", I64Order.op_i64_ne), cond_op("i64", I64Order.op_i64_lt_s),
  cond_op("i64", I64Order.op_i64_lt_u), cond_op("i64", I64Order.op_i64_gt_s),
  cond_op("i64", I64Order.op_i64_gt_u), cond_op("i64", I64OrderI32Equality.op_i64_le_s),
  cond_op("i64", I64OrderI32Equality.op_i64_le_u), cond_op("i64", I64OrderI32Equality.op_i64_ge_s),
  cond_op("i64", I64OrderI32Equality.op_i64_ge_u)>>

ParseFloatCompare == <<
  cond_op("f32", F64Rounding.op_f32_eq), cond_op("f32", FloatEquality.op_f32_ne), cond_op("f32", ConstsF32Order.op_f32_lt),
  cond_op("f32", ConstsF32Order.op_f32_gt), cond_op("f32", FloatEquality.op_f32_le), cond_op("f32", FloatEquality.op_f32_ge),
  cond_op("f64", FloatEquality.op_f64_eq), cond_op("f64", FloatEquality.op_f64_ne), cond_op("f64", FloatEquality.op_f64_lt),
  cond_op("f64", F64OrderI32Counts.op_f64_gt), cond_op("f64", F64OrderI32Counts.op_f64_le), cond_op("f64", F64OrderI32Counts.op_f64_ge)>>

ParseI32Arith == <<
  binary_op("i32", F64OrderI32Counts.op_i32_clz), binary_op("i32", F64OrderI32Counts.op_i32_ctz),
  binary_op("i32", F64OrderI32Counts.op_i32_popcnt), unary_op("i32", I32SumI64Counts.op_i32_add),
  unary_op("i32", I32SumI64Counts.op_i32_sub), unary_op("i32", MulDiv.op_i32_mul),
  unary_op("i32", MulDiv.op_i32_div_s), unary_op("i32", MulDiv.op_i32_div_u),
  unary_op("i32", I64LogicRem.op_i32_rem_s), unary_op("i32", I64LogicRem.op_i32_rem_u),
  unary_op("i32", RemI32Logic.op_i32_and), unary_op("i32", RemI32Logic.op_i32_or),
  unary_op("i32", RemI32Logic.op_i32_xor), unary_op("i32", I32Shifts.op_i32_shl),
  unary_op("i32", I32Shifts.op_i32_shr_s), unary_op("i32", I32Shifts.op_i32_shr_u),
  unary_op("i32", I32Shifts.op_i32_rotl), unary_op("i32", I32Shifts.op_i32_rotr)>>

ParseI64Arith == <<
  binary_op("i64", I32SumI64Counts.op_i64_clz), binary_op("i64", I32SumI64Counts.op_i64_ctz),
  binary_op("i64", I32SumI64Counts.op_i64_popcnt), unary_op("i64", Sat64I64Add.op_i64_add),
  unary_op("i64", ConstsF32Order.op_i64_sub), unary_op("i64", I64LogicRem.op_i64_mul),
  unary_op("i64", MulDiv.op_i64_div_s), unary_op("i64", MulDiv.op_i64_div_u),
  unary_op("i64", I64LogicRem.op_i64_rem_s), unary_op("i64", RemI32Logic.op_i64_rem_u),
  unary_op("i64", MulDiv.op_i64_and), unary_op("i64", I64LogicRem.op_i64_or),
  unary_op("i64", I64LogicRem.op_i64_xor), unary_op("i64", I64Shifts.op_i64_shl),
  unary_op("i64", I64Shifts.op_i64_shr_s), unary_op("i64", I64Shifts.op_i64_shr_u),
  unary_op("i64", I32Shifts.op_i64_rotl), unary_op("i64", I64Shifts.op_i64_rotr)>>

ParseF32Arith == <<
  binary_op("f32", F32Rounding.op_f32_abs), binary_op("f32", F32Rounding.op_f32_neg),
  binary_op("f32", F32Rounding.op_f32_ceil), binary_op("f32", F32Rounding.op_f32_floor),
  binary_op("f32", F32Rounding.op_f32_trunc), binary_op("f32", F32Rounding.op_f32_nearest),
  binary_op("f32", F32Arith.op_f32_sqrt), unary_op("f32", F32Arith.op_f32_add),
  unary_op("f32", F32Arith.op_f32_sub), unary_op("f32", F32Arith.op_f32_mul),
  unary_op("f32", F32Arith.op_f32_div), unary_op("f32", F32Arith.op_f32_min),
  unary_op("f32", F32MaxF64Arith.op_f32_max), unary_op("f32", F32MaxF64Arith.op_f32_copysign)>>

ParseF64Arith == <<
  binary_op("f64", F64Rounding.op_f64_abs), binary_op("f64", F64Rounding.op_f64_neg),
  binary_op("f64", F32Rounding.op_f64_ceil), binary_op("f64", F64Rounding.op_f64_floor),
  binary_op("f64", F64Rounding.op_f64_trunc), binary_op("f64", F64Rounding.op_f64_nearest),
  binary_op("f64", F64Rounding.op_f64_sqrt), unary_op("f64", F32MaxF64Arith.op_f64_add),
  unary_op("f64", F32MaxF64Arith.op_f64_sub), unary_op("f64", F32MaxF64Arith.op_f64_mul),
  unary_op("f64", F32MaxF64Arith.op_f64_div), unary_op("f64", F64MinI32Wrap.op_f64_min),
  unary_op("f64", F64MinI32Wrap.op_f64_max), unary_op("f64", F64MinI32Wrap.op_f64_copysign)>>

ParseIntConvert == <<
  op(<<"i64">>, <<"i32">>, F64MinI32Wrap.op_i32_wrap_i64),
  op(<<"f32">>, <<"i32">>, F64MinI32Wrap.op_i32_trunc_f32_s),
  op(<<"f32">>, <<"i32">>, Truncations.op_i32_trunc_f32_u),
  op(<<"f64">>, <<"i32">>, Truncations.op_i32_trunc_f64_s),
  op(<<"f64">>, <<"i32">>, Truncations.op_i32_trunc_f64_u),
  op(<<"i32">>, <<"i64">>, ExtendConvertF32.op_i64_extend_i32_s),
  op(<<"i32">>, <<"i64">>, ExtendConvertF32.op_i64_extend_i32_u),
  op(<<"f32">>, <<"i64">>, Truncations.op_i64_trunc_f32_s),
  op(<<"f32">>, <<"i64">>, Truncations.op_i64_trunc_f32_u),
  op(<<"f64">>, <<"i64">>, TruncF64Sat32.op_i64_trunc_f64_s),
  op(<<"f64">>, <<"i64">>, TruncF64Sat32.op_i64_trunc_f64_u)>>

ParseFloatConvert == <<
  op(<<"i32">>, <<"f32">>, ExtendConvertF32.op_f32_convert_i32_s),
  op(<<"i32">>, <<"f32">>, ExtendConvertF32.op_f32_convert_i32_u),
  op(<<"i64">>, <<"f32">>, ExtendConvertF32.op_f32_convert_i64_s),
  op(<<"i64">>, <<"f32">>, ExtendConvertF32.op_f32_convert_i64_u),
  op(<<"f64">>, <<"f32">>, ConvertF64.op_f32_demote_f64),
  op(<<"i32">>, <<"f64">>, ConvertF64.op_f64_convert_i32_s),
  op(<<"i32">>, <<"f64">>, ConvertF64.op_f64_convert_i32_u),
  op(<<"i64">>, <<"f64">>, ConvertF64.op_f64_convert_i64_s),
  op(<<"i64">>, <<"f64">>, ConvertF64.op_f64_convert_i64_u),
  op(<<"f32">>, <<"f64">>, ConvertF64.op_f64_promote_f32), erased(<<"f32">>, <<"i32">>),
  erased(<<"f64">>, <<"i64">>), erased(<<"i32">>, <<"f32">>),
  erased(<<"i64">>, <<"f64">>)>>

Parsed(takes, gives, slots, by, ops) ==
  [takes |-> takes, gives |-> gives, slots |-> slots, by |-> by, ops |-> ops]
AnyMemory(h) == [k \in MemoryKinds |-> h]
Plain(takes, gives, slots, h) == Parsed(takes, gives, slots, "plain", AnyMemory(h))
(* References are as wide as an i32.                                       *)
Ref == "u32"
ParseExtendAndRefs ==
  [ParseExtend |-> <<
      binary_op("i32", I32OrderExtend.op_i32_extend8_s), binary_op("i32", I32OrderExtend.op_i32_extend16_s),
      binary_op("i64", I32OrderExtend.op_i64_extend8_s), binary_op("i64", I32OrderExtend.op_i64_extend16_s),
      binary_op("i64", op_i64_extend32_s)>>,
   ParseRefNull |-> Plain(<<>>, <<Ref>>, <<>>, References.op_ref_null),
   ParseRefIsNull |-> Plain(<<Ref>>, <<"i32">>, <<>>, References.op_ref_is_null),
   ParseRefFunc |-> Plain(<<>>, <<Ref>>, <<"index">>, References.op_ref_func)]
OfKinds(plain, shared, indexed, indexed_shared) ==
  [k \in MemoryKinds |-> IF k.indexed THEN (IF k.shared THEN indexed_shared ELSE indexed)
                         ELSE IF k.shared THEN shared ELSE plain]
ParseSizesAndConst ==
  [ParseConst |-> <<
      op(<<>>, <<"i32">>, I32SumI64Counts.op_i32_const), op(<<>>, <<"i64">>, ConstsF32Order.op_i64_const),
      op(<<>>, <<"f32">>, ConstsF32Order.op_f32_const), op(<<>>, <<"f64">>, ConstsF32Order.op_f64_const)>>,
   ParseMemorySize |->
      Parsed(<<>>, <<"i32">>, <<>>, "memory",
          OfKinds(SizeAndGrow.op_mem_size, SizesAndGrows.op_mem_size_shared, SizesAndGrows.op_mem_size_indexed_local,
                  SizesAndGrows.op_mem_size_indexed_shared)),
   ParseMemoryGrow |->
      Parsed(<<"i32">>, <<"i32">>, <<>>, "memory",
          OfKinds(SizeAndGrow.op_mem_grow, SizesAndGrows.op_mem_grow_shared, SizesAndGrows.op_mem_grow_indexed_local,
                  op_mem_grow_indexed_shared))]
(* The prefix 0xFC, 8 to 17.                                               *)
Range3 == <<"i32", "i32", "i32">>
ParseSatAndBulk ==
  [ParseTruncSat |-> <<
      op(<<"f32">>, <<"i32">>, TruncF64Sat32.op_i32_trunc_sat_f32_s),
      op(<<"f32">>, <<"i32">>, TruncF64Sat32.op_i32_trunc_sat_f32_u),
      op(<<"f64">>, <<"i32">>, TruncF64Sat32.op_i32_trunc_sat_f64_s),
      op(<<"f64">>, <<"i32">>, Sat64I64Add.op_i32_trunc_sat_f64_u),
      op(<<"f32">>, <<"i64">>, Sat64I64Add.op_i64_trunc_sat_f32_s),
      op(<<"f32">>, <<"i64">>, Sat64I64Add.op_i64_trunc_sat_f32_u),
      op(<<"f64">>, <<"i64">>, Sat64I64Add.op_i64_trunc_sat_f64_s),
      op(<<"f64">>, <<"i64">>, Sat64I64Add.op_i64_trunc_sat_f64_u)>>,
   ParseMemoryInit |->
      Parsed(Range3, <<>>, <<"index">>, "memory",
          OfKinds(BulkMemory.op_mem_init, BulkMemory.op_mem_init_shared, BulkShared.op_mem_init_indexed_local,
                  BulkShared.op_mem_init_indexed_shared)),
   ParseDataDrop |-> Plain(<<>>, <<>>, <<"index">>, BulkMemory.op_data_drop),
   ParseMemoryCopy |-> Parsed(Range3, <<>>, <<>>, "copy", <<>>),
   ParseMemoryFill |->
      Parsed(Range3, <<>>, <<>>, "memory",
          OfKinds(BulkMemory.op_mem_fill, BulkShared.op_mem_fill_shared, BulkFills.op_mem_fill_indexed_local,
                  BulkFills.op_mem_fill_indexed_shared))]
(* Opcodes 0x41 to 0xBF, 0xC0 to 0xC4, and 0 to 7 of the prefix 0xFC.      *)
ParsedNumeric ==
  ParseSizesAndConst.ParseConst \o ParseI32Compare \o ParseI64Compare \o ParseFloatCompare
    \o ParseI32Arith \o ParseI64Arith \o ParseF32Arith \o ParseF64Arith
    \o ParseIntConvert \o ParseFloatConvert \o ParseExtendAndRefs.ParseExtend \o ParseSatAndBulk.ParseTruncSat
-----------------------------------------------------------------------------
(***************************************************************************)
(* What the parser does with the instructions on locals, globals, tables,  *)
(* memories and references (parse_inst in parser/core/instruction.rs): the *)
(* types it checks, the handler it emits and the operands it puts behind   *)
(* it.  A row has                                                          *)
(*   takes, gives  the operand types, the deepest first                    *)
(*   slots         the immediates that follow the handler                  *)
(*   by            "plain", or how the memory chooses the handler          *)
(*   ops           the handler for each kind of memory                     *)
(* The alignment immediate, which no handler reads, is left out.           *)
(***************************************************************************)

(***************************************************************************)
(* The handler for the memory memidx names, and the operands behind it:    *)
(* the index of a memory is only there when it is not the default one.     *)
(***************************************************************************)
memory_type(mems, memidx) == mems[memidx + 1]
select_memory_op(ops, mems, memidx) ==
  ops[[shared |-> memory_type(mems, memidx).shared, indexed |-> memidx # 0]]
WithIndex(slots, memidx) == IF memidx = 0 THEN slots ELSE Append(slots, memidx)
push_memarg_instruction(ops, mems, memidx, slots) ==
  <<I(select_memory_op(ops, mems, memidx), WithIndex(slots, memidx))>>
push_memidx_instruction(ops, mems, memidx) ==
  <<I(select_memory_op(ops, mems, memidx), WithIndex(<<>>, memidx))>>
push_memidx_u32_instruction(ops, mems, memidx, extra) ==
  <<I(select_memory_op(ops, mems, memidx), WithIndex(<<extra>>, memidx))>>

select_memory_copy_op(mems, dst_memidx, src_memidx) ==
  LET dst == memory_type(mems, dst_memidx).shared
      src == memory_type(mems, src_memidx).shared
  IN IF dst_memidx = 0 /\ src_memidx = 0 THEN (IF dst THEN BulkShared.op_mem_copy_shared ELSE BulkMemory.op_mem_copy)
     ELSE CASE ~dst /\ ~src -> BulkCopies.op_mem_copy_indexed_local_local
            [] ~dst /\ src -> BulkCopies.op_mem_copy_indexed_local_shared
            [] dst /\ ~src -> BulkCopies.op_mem_copy_indexed_shared_local
            [] dst /\ src -> BulkFills.op_mem_copy_indexed_shared_shared
push_memory_copy_instruction(mems, dst_memidx, src_memidx) ==
  <<I(select_memory_copy_op(mems, dst_memidx, src_memidx),
      IF dst_memidx = 0 /\ src_memidx = 0 THEN <<>> ELSE <<dst_memidx, src_memidx>>)>>

-----------------------------------------------------------------------------
(* Variables: the handler is chosen by the size of the type.               *)
OfSize(t, op4, op8, op16) ==
  CASE Bytes[t] = 4 -> op4 [] Bytes[t] = 8 -> op8 [] Bytes[t] = 16 -> op16
ParseDrop(t) == Plain(<<t>>, <<>>, <<"size">>, op_drop)
ParseSelect(t) == Plain(<<t, t, "i32">>, <<t>>, <<"size">>, SelectOps.op_select)
ParseLocalGet(t) == Plain(<<>>, <<t>>, <<"index">>, OfSize(t, op_local_get4, LocalAccesses.op_local_get8,
                                                           LocalAccesses.op_local_get16))
ParseLocalSet(t) == Plain(<<t>>, <<>>, <<"index">>, OfSize(t, LocalAccesses.op_local_set4, LocalAccesses.op_local_set8,
                                                           LocalAccesses.op_local_set16))
ParseLocalTee(t) == Plain(<<t>>, <<t>>, <<"index">>,
                          OfSize(t, LocalAccesses.op_local_tee4, LocalAccesses.op_local_tee8, op_local_tee16))
ParseGlobalGet(t) == Plain(<<>>, <<t>>, <<"index">>,
                           OfSize(t, GlobalAccess.op_global_get4, GlobalAccess.op_global_get8, GlobalAccess.op_global_get16))
ParseGlobalSet(t) == Plain(<<t>>, <<>>, <<"index">>,
                           OfSize(t, GlobalAccess.op_global_set4, GlobalAccess.op_global_set8, GlobalAccess.op_global_set16))

-----------------------------------------------------------------------------
(* Loads and stores, in the order of their opcodes.                        *)
Variants(name) == OfKinds(PlainOps[name], SharedOps[name], IndexedOps[name], IndexedSharedOps[name])
load_op(t, ops) == Parsed(<<"i32">>, <<t>>, <<"memarg">>, "memory", ops)
store_op(t, ops) == Parsed(<<"i32", t>>, <<>>, <<"memarg">>, "memory", ops)
LoadsNamed(t, names) == [i \in 1 .. Len(names) |-> load_op(t, Variants(names[i]))]
StoresNamed(t, names) == [i \in 1 .. Len(names) |-> store_op(t, Variants(names[i]))]
ParseTableAndLoads ==
  [ParseTableGet |-> Plain(<<"i32">>, <<Ref>>, <<"index">>, TableAccess.op_table_get),
   ParseTableSet |-> Plain(<<"i32", Ref>>, <<>>, <<"index">>, TableAccess.op_table_set),
   ParseWholeLoads |->
      <<load_op("i32", Variants("i32_load")), load_op("i64", Variants("i64_load")),
        load_op("f32", Variants("f32_load")), load_op("f64", Variants("f64_load"))>>]
ParseNarrowI32Loads == LoadsNamed("i32", <<"i32_load8_s", "i32_load8_u", "i32_load16_s", "i32_load16_u">>)
ParseNarrowI64Loads ==
  LoadsNamed("i64", <<"i64_load8_s", "i64_load8_u", "i64_load16_s", "i64_load16_u", "i64_load32_s", "i64_load32_u">>)
ParseStores ==
  <<store_op("i32", Variants("i32_store")), store_op("i64", Variants("i64_store")),
    store_op("f32", Variants("f32_store")), store_op("f64", Variants("f64_store"))>>
    \o StoresNamed("i32", <<"i32_store8", "i32_store16">>)
    \o StoresNamed("i64", <<"i64_store8", "i64_store16", "i64_store32">>)

-----------------------------------------------------------------------------
ParseTableBulk ==
  [ParseTableInit |-> Plain(Range3, <<>>, <<"index", "index2">>, op_table_init),
   ParseElemDrop |-> Plain(<<>>, <<>>, <<"index">>, op_elem_drop),
   ParseTableCopy |-> Plain(Range3, <<>>, <<"index", "index2">>, op_table_copy),
   ParseTableGrow |-> Plain(<<Ref, "i32">>, <<"i32">>, <<"index">>, TableSizes.op_table_grow),
   ParseTableSize |-> Plain(<<>>, <<"i32">>, <<"index">>, TableSizes.op_table_size),
   ParseTableFill |-> Plain(<<"i32", Ref, "i32">>, <<>>, <<"index">>, TableSizes.op_table_fill)]

-----------------------------------------------------------------------------

ValTypeOf(i) == IF AtomicTypes[i][2] = "u32" THEN "i32" ELSE "i64"
EachType(row(_)) == [i \in 1 .. Len(AtomicTypes) |-> row(i)]
BothKinds(h(_)) == [b \in BOOLEAN |-> h(b)]
atomic_load_rows(local, shared, indexed) ==
  EachType(LAMBDA i : load_op(ValTypeOf(i), OfKinds(local[i], shared[i], indexed[FALSE][i], indexed[TRUE][i])))
atomic_store_rows(local, shared, indexed) ==
  EachType(LAMBDA i : store_op(ValTypeOf(i), OfKinds(local[i], shared[i], indexed[FALSE][i], indexed[TRUE][i])))
atomic_rmw_rows(local, shared, indexed) ==
  EachType(LAMBDA i : Parsed(<<"i32", ValTypeOf(i)>>, <<ValTypeOf(i)>>, <<"memarg">>, "memory",
                          OfKinds(local[i], shared[i], indexed[FALSE][i], indexed[TRUE][i])))
atomic_cmpxchg_rows(local, shared, indexed) ==
  EachType(LAMBDA i : Parsed(<<"i32", ValTypeOf(i), ValTypeOf(i)>>, <<ValTypeOf(i)>>, <<"memarg">>, "memory",
                          OfKinds(local[i], shared[i], indexed[FALSE][i], indexed[TRUE][i])))
(* The prefix 0xFE: wait and notify, fence, and from 0x10 on the accesses  *)
(* in the order of AtomicTypes.                                            *)
ParseWaits ==
  [ParseNotify |->
      Parsed(<<"i32", "i32">>, <<"i32">>, <<"memarg">>, "memory",
          OfKinds(NotifyOps.op_memory_atomic_notify, NotifyOps.op_memory_atomic_notify_shared,
                  NotifyOps.op_memory_atomic_notify_indexed_unshared, NotifyOps.op_memory_atomic_notify_indexed_shared)),
   ParseWait32 |->
      Parsed(<<"i32", "i32", "i64">>, <<"i32">>, <<"memarg">>, "memory",
          OfKinds(Waits32.op_memory_atomic_wait32, Waits32.op_memory_atomic_wait32_shared,
                  Waits32.op_memory_atomic_wait32_indexed_unshared, Waits32.op_memory_atomic_wait32_indexed_shared)),
   ParseWait64 |->
      Parsed(<<"i32", "i64", "i64">>, <<"i32">>, <<"memarg">>, "memory",
          OfKinds(Waits64.op_memory_atomic_wait64, Waits64.op_memory_atomic_wait64_shared,
                  Waits64.op_memory_atomic_wait64_indexed_unshared, Waits64.op_memory_atomic_wait64_indexed_shared)),
   ParseFence |->
      Parsed(<<>>, <<>>, <<"zero">>, "default", OfKinds(Waits64.op_atomic_fence, op_atomic_fence_shared,
                                                        Waits64.op_atomic_fence, op_atomic_fence_shared)),
   ParseAtomicLoads |-> atomic_load_rows(AtomicLoadToSub.op_atomic_load, AtomicCmpxchgLoads.op_atomic_load_shared,
                                         BothKinds(op_atomic_load_indexed))]
ParseStoresAndAdd ==
  [ParseAtomicStores |-> atomic_store_rows(AtomicLoadToSub.op_atomic_store, AtomicCmpxchgLoads.op_atomic_store_shared,
                                           BothKinds(op_atomic_store_indexed)),
   ParseRmwAdd |-> atomic_rmw_rows(AtomicLoadToSub.op_atomic_rmw_add, SharedAddSub.op_atomic_rmw_add_shared,
                                   BothKinds(op_atomic_rmw_add_indexed))]
ParseSubAnd ==
  [ParseRmwSub |-> atomic_rmw_rows(AtomicLoadToSub.op_atomic_rmw_sub, SharedAddSub.op_atomic_rmw_sub_shared,
                                   BothKinds(op_atomic_rmw_sub_indexed)),
   ParseRmwAnd |-> atomic_rmw_rows(AtomicAndOr.op_atomic_rmw_and, SharedAndOr.op_atomic_rmw_and_shared,
                                   BothKinds(op_atomic_rmw_and_indexed))]
ParseOrXor ==
  [ParseRmwOr |-> atomic_rmw_rows(AtomicAndOr.op_atomic_rmw_or, SharedAndOr.op_atomic_rmw_or_shared,
                                  BothKinds(op_atomic_rmw_or_indexed)),
   ParseRmwXor |-> atomic_rmw_rows(AtomicXorXchg.op_atomic_rmw_xor, SharedXorXchg.op_atomic_rmw_xor_shared,
                                   BothKinds(op_atomic_rmw_xor_indexed))]
ParseXchg ==
  [ParseRmwXchg |-> atomic_rmw_rows(AtomicXorXchg.op_atomic_rmw_xchg, SharedXorXchg.op_atomic_rmw_xchg_shared,
                                    BothKinds(op_atomic_rmw_xchg_indexed)),
   ParseCmpxchg |-> atomic_cmpxchg_rows(AtomicCmpxchgLoads.op_atomic_rmw_cmpxchg, op_atomic_rmw_cmpxchg_shared,
                                        BothKinds(op_atomic_rmw_cmpxchg_indexed))]

-----------------------------------------------------------------------------
(* The code for a row and the immediates x of an instruction.              *)
PushRow(row, mems, x) ==
  LET slots == [i \in 1 .. Len(row.slots) |-> x[row.slots[i]]]
      default == row.ops[[shared |-> mems[1].shared, indexed |-> FALSE]]
  IN CASE row.by = "copy" -> push_memory_copy_instruction(mems, x.memidx, x.memidx2)
       [] row.by = "memory" /\ slots = <<>> -> push_memidx_instruction(row.ops, mems, x.memidx)
       [] row.by = "memory" /\ row.slots = <<"index">> -> push_memidx_u32_instruction(row.ops, mems, x.memidx, x.index)
       [] row.by = "memory" -> push_memarg_instruction(row.ops, mems, x.memidx, slots)
       [] OTHER -> <<I(default, slots)>>
-----------------------------------------------------------------------------
(***************************************************************************)
(* What the parser does with the vector instructions                       *)
(* (parser/core/simd_instruction.rs and the prefix 0xFD in instruction.rs).*)
(* A row is as above; a v128 is written u128, as on the stack.            *)
(* Rows of consecutive codes are given as sequences.                       *)
(***************************************************************************)

From(code, rows) == [c \in code .. (code + Len(rows) - 1) |-> rows[c - code + 1]]
v128 == "u128"

unary_op_simd_parser(h) == Plain(<<v128, v128>>, <<v128>>, <<>>, h)
binary_op_simd_parser(h) == Plain(<<v128>>, <<v128>>, <<>>, h)
shift_instruction_parser(h) == Plain(<<v128, "i32">>, <<v128>>, <<>>, h)
test_parser(h) == Plain(<<v128>>, <<"i32">>, <<>>, h)
splat_instruction_parser(h, input) == Plain(<<input>>, <<v128>>, <<>>, h)
(* The lane is checked to be below the number of lanes.                    *)
WithLanes(row, lane_count) == [lanes |-> lane_count] @@ row
extract_lane_parser(h, output, lane_count) == WithLanes(Plain(<<v128>>, <<output>>, <<"lane">>, h), lane_count)
replace_lane_parser(h, input, lane_count) == WithLanes(Plain(<<v128, input>>, <<v128>>, <<"lane">>, h), lane_count)

ByKinds(h(_)) == [k \in MemoryKinds |-> h(k)]
memarg_load(hs) == Parsed(<<"i32">>, <<v128>>, <<"memarg">>, "memory", hs)
load_lane_parser(hs, lane_count) ==
  WithLanes(Parsed(<<"i32", v128>>, <<v128>>, <<"memarg", "lane">>, "memory", hs), lane_count)
store_lane_parser(hs, lane_count) ==
  WithLanes(Parsed(<<"i32", v128>>, <<>>, <<"memarg", "lane">>, "memory", hs), lane_count)
load_zero_parser(hs) == memarg_load(hs)

-----------------------------------------------------------------------------
ParseVectorExtends ==
  From(0, <<memarg_load(ByKinds(op_v128_load)), memarg_load(ByKinds(v128_load8x8_s)), memarg_load(ByKinds(v128_load8x8_u)),
            memarg_load(ByKinds(v128_load16x4_s)), memarg_load(ByKinds(v128_load16x4_u)), memarg_load(ByKinds(v128_load32x2_s)),
            memarg_load(ByKinds(v128_load32x2_u))>>)
ParseVectorMemory ==
  [ParseVectorSplats |->
      From(7, <<memarg_load(ByKinds(v128_load8_splat)), memarg_load(ByKinds(v128_load16_splat)),
                memarg_load(ByKinds(v128_load32_splat)),
                memarg_load(ByKinds(v128_load64_splat))>>),
   ParseVectorStore |-> From(11, <<Parsed(<<"i32", v128>>, <<>>, <<"memarg">>, "memory",
                                          ByKinds(v128_store))>>),
   ParseVectorConst |-> From(12, <<Plain(<<>>, <<v128>>, <<"left", "right">>, v128_const)>>)]

(* Comparisons: eq, ne, and the others for signed and for unsigned lanes.  *)
Compared(fn, t) == unary_op_simd_parser(define_simd_cmp_operation(fn, t))
IntCompares(i, u) ==
  <<Compared("eq", i), unary_op_simd_parser(CmpNot("eq", i)), Compared("lt", i), Compared("lt", u), Compared("gt", i),
    Compared("gt", u), Compared("le", i), Compared("le", u), Compared("ge", i), Compared("ge", u)>>
Compares(t) ==
  <<Compared("eq", t), Compared("ne", t), Compared("lt", t), Compared("gt", t), Compared("le", t), Compared("ge", t)>>
ParseShuffles ==
  [ParseShuffle |-> From(13, <<Plain(<<v128, v128>>, <<v128>>, <<"left", "right">>, SplatOps.i8x16_shuffle)>>),
   ParseSplats |->
      From(14, <<unary_op_simd_parser(i8x16_swizzle), splat_instruction_parser(SplatOps.i8x16_splat, "i32"),
                 splat_instruction_parser(SplatOps.i16x8_splat, "i32"), splat_instruction_parser(SplatOps.i32x4_splat,
                                                                                            "i32"),
                 splat_instruction_parser(SplatOps.i64x2_splat, "i64"), splat_instruction_parser(SplatOps.f32x4_splat,
                                                                                            "f32"),
                 splat_instruction_parser(Lanes8.f64x2_splat, "f64")>>),
   ParseLanes |->
      From(21, <<extract_lane_parser(Lanes8.op_i8x16_extract_lane_s, "i32", 16),
                 extract_lane_parser(Lanes8.i8x16_extract_lane_u, "i32", 16),
                 replace_lane_parser(Lanes8.i8x16_replace_lane, "i32",
                                     16), extract_lane_parser(Lanes8.i16x8_extract_lane_s, "i32", 8),
                 extract_lane_parser(Lanes16And32.i16x8_extract_lane_u, "i32",
                                     8), replace_lane_parser(Lanes16And32.i16x8_replace_lane, "i32", 8),
                 extract_lane_parser(Lanes16And32.i32x4_extract_lane, "i32",
                                     4), replace_lane_parser(Lanes16And32.i32x4_replace_lane, "i32", 4),
                 extract_lane_parser(Lanes16And32.i64x2_extract_lane, "i64",
                                     2), replace_lane_parser(Lanes64AndFloat.i64x2_replace_lane, "i64", 2),
                 extract_lane_parser(Lanes64AndFloat.f32x4_extract_lane, "f32",
                                     4), replace_lane_parser(Lanes64AndFloat.f32x4_replace_lane, "f32", 4),
                 extract_lane_parser(Lanes64AndFloat.f64x2_extract_lane, "f64",
                                     2), replace_lane_parser(Lanes64AndFloat.f64x2_replace_lane, "f64", 2)>>),
   ParseCompares |->
      From(35, IntCompares("i8", "u8") \o IntCompares("i16", "u16") \o IntCompares("i32", "u32")
                 \o Compares("f32") \o Compares("f64")),
   ParseBits |->
      From(77, <<binary_op_simd_parser(Bits128.v128_not), unary_op_simd_parser(Bits128.v128_and),
                 unary_op_simd_parser(Bits128.v128_andnot),
                 unary_op_simd_parser(Bits128.v128_or), unary_op_simd_parser(Bits128.v128_xor),
                 Plain(<<v128, v128, v128>>, <<v128>>, <<>>,
                       op_v128_bitselect), test_parser(Bits128.v128_any_true)>>)]

-----------------------------------------------------------------------------
Rounds(t) ==
  [ceil |-> binary_op_simd_parser(round_lanes("ceil", t)), floor |-> binary_op_simd_parser(round_lanes("floor", t)),
   trunc |-> binary_op_simd_parser(round_lanes("trunc", t)),
   nearest |-> binary_op_simd_parser(round_lanes("round_ties_even", t))]
Shifts(i, u) ==
  <<shift_instruction_parser(shl_instruction(i)), shift_instruction_parser(shr_instruction(i)),
    shift_instruction_parser(shr_instruction(u))>>
SaturatingOps(i, u) ==
  <<unary_op_simd_parser(add_lanes(i)), unary_op_simd_parser(add_sat(i)), unary_op_simd_parser(add_sat(u)),
    unary_op_simd_parser(sub_lanes(i)), unary_op_simd_parser(sub_sat(i)), unary_op_simd_parser(sub_sat(u))>>
MinMax(i, u) ==
  <<unary_op_simd_parser(min_lanes(i)), unary_op_simd_parser(min_lanes(u)),
    unary_op_simd_parser(max_lanes(i)), unary_op_simd_parser(max_lanes(u))>>
Extends(t, u, i, j) ==
  <<binary_op_simd_parser(extend_instruction("low", t, i)), binary_op_simd_parser(extend_instruction("high", t, i)),
    binary_op_simd_parser(extend_instruction("low", u, j)), binary_op_simd_parser(extend_instruction("high", u, j))>>
Unaries(hs) == [n \in 1 .. Len(hs) |-> unary_op_simd_parser(hs[n])]

ParseLanes8 ==
  [ParseLaneAccesses |->
      From(84, <<load_lane_parser(ByKinds(v128_load8_lane), 16), load_lane_parser(ByKinds(v128_load16_lane), 8),
                 load_lane_parser(ByKinds(v128_load32_lane), 4), load_lane_parser(ByKinds(v128_load64_lane), 2),
                 store_lane_parser(ByKinds(v128_store8_lane), 16), store_lane_parser(ByKinds(v128_store16_lane),
                                                                                     8),
                 store_lane_parser(ByKinds(v128_store32_lane), 4), store_lane_parser(ByKinds(v128_store64_lane),
                                                                                     2),
                 load_zero_parser(ByKinds(v128_load32_zero)), load_zero_parser(ByKinds(v128_load64_zero))>>),
   Parse8x16 |->
      From(94, <<binary_op_simd_parser(FloatWidths.f32x4_demote_f64x2_zero),
                 binary_op_simd_parser(FloatWidths.f64x2_promote_low_f32x4),
                 binary_op_simd_parser(abs_lanes("i8")), binary_op_simd_parser(Negations.i8x16_neg), binary_op_simd_parser(u8x16_popcnt),
                 test_parser(all_true_instruction("i8")), test_parser(bitmask_instruction("i8")),
                 unary_op_simd_parser(narrow_instruction("i16",
                                                         "i8")), unary_op_simd_parser(narrow_instruction("i16",
                                                                                                         "u8")),
                 Rounds("f32").ceil, Rounds("f32").floor, Rounds("f32").trunc, Rounds("f32").nearest>>
                 \o Shifts("i8", "u8") \o SaturatingOps("i8", "u8") \o <<Rounds("f64").ceil,
                                                                         Rounds("f64").floor>>
                 \o MinMax("i8", "u8") \o <<Rounds("f64").trunc, unary_op_simd_parser(avgr("u8"))>>
                 \o <<binary_op_simd_parser(PairwiseSums.i16x8_extadd_pairwise_i8x16),
                      binary_op_simd_parser(PairwiseSums.u16x8_extadd_pairwise_i8x16),
                      binary_op_simd_parser(PairwiseSums.i32x4_extadd_pairwise_i16x8), binary_op_simd_parser(PairwiseSums.u32x4_extadd_pairwise_i16x8)>>)]
ParseLanes16To64 ==
  [Parse16x8 |->
      From(128, <<binary_op_simd_parser(abs_lanes("i16")), binary_op_simd_parser(Negations.i16x8_neg),
                  unary_op_simd_parser(i16x8_q15mulr_sat_s), test_parser(all_true_instruction("i16")),
                  test_parser(bitmask_instruction("i16")), unary_op_simd_parser(narrow_instruction("i32",
                                                                                                   "i16")),
                  unary_op_simd_parser(narrow_instruction("i32", "u16"))>>
                  \o Extends("i8", "u8", "i16", "u16") \o Shifts("i16", "u16") \o SaturatingOps("i16", "u16")
                  \o <<Rounds("f64").nearest, unary_op_simd_parser(mul_lanes("i16"))>> \o MinMax("i16", "u16"))
        @@ From(155, <<unary_op_simd_parser(avgr("u16"))>>
                       \o Unaries(<<ExtMul16.i16x8_extmul_low, ExtMul16.i16x8_extmul_high, ExtMul16.u16x8_extmul_low,
                                    ExtMul16.u16x8_extmul_high>>)),
   Parse32x4 |->
      From(160, <<binary_op_simd_parser(abs_lanes("i32")), binary_op_simd_parser(i32x4_neg)>>)
        @@ From(163, <<test_parser(all_true_instruction("i32")), test_parser(bitmask_instruction("i32"))>>)
        @@ From(167, Extends("i16", "u16", "i32", "u32") \o Shifts("i32",
                                                                   "u32") \o Unaries(<<add_lanes("i32")>>))
        @@ From(177, Unaries(<<sub_lanes("i32")>>))
        @@ From(181, Unaries(<<mul_lanes("i32")>>) \o MinMax("i32", "u32") \o Unaries(<<ExtMul64.i32x4_dot_i16x8>>))
        @@ From(188, Unaries(<<ExtMul16.i32x4_extmul_low, ExtMul16.i32x4_extmul_high, ExtMul32.u32x4_extmul_low,
                               ExtMul32.u32x4_extmul_high>>)),
   Parse64x2 |->
      From(192, <<binary_op_simd_parser(Negations.i64x2_abs), binary_op_simd_parser(Negations.i64x2_neg)>>)
        @@ From(195, <<test_parser(all_true_instruction("i64")), test_parser(bitmask_instruction("i64"))>>)
        @@ From(199, Extends("i32", "u32", "i64", "u64") \o Shifts("i64",
                                                                   "u64") \o Unaries(<<add_lanes("i64")>>))
        @@ From(209, Unaries(<<ExtMul32.i64x2_sub>>))
        @@ From(213, Unaries(<<ExtMul32.i64x2_mul>>) \o Compares("i64")
                       \o Unaries(<<ExtMul32.i64x2_extmul_low_i32x4_s, ExtMul64.i64x2_extmul_high_i32x4_s,
                                    ExtMul64.i64x2_extmul_low_i32x4_u, ExtMul64.i64x2_extmul_high_i32x4_u>>))]
FloatRows(code, t, neg) ==
  From(code, <<binary_op_simd_parser(abs_lanes(t)), binary_op_simd_parser(neg)>>)
    @@ From(code + 3, <<binary_op_simd_parser(sqrt_lanes(t))>>
                        \o Unaries(<<add_lanes(t), sub_lanes(t), mul_lanes(t), div_lanes(t), min_lanes(t), max_lanes(t),
                                     pmin_lanes(t), pmax_lanes(t)>>))
ParseFloatLanes ==
  [ParseF32x4 |-> FloatRows(224, "f32", Negations.f32x4_neg),
   ParseF64x2 |-> FloatRows(236, "f64", Negations.f64x2_neg),
   ParseVectorConvert |->
      From(248, <<binary_op_simd_parser(VectorTruncSat.i32x4_trunc_sat_f32x4_s),
                  binary_op_simd_parser(VectorTruncSat.i32x4_trunc_sat_f32x4_u),
                  binary_op_simd_parser(VectorTruncSat.f32x4_convert_i32x4_s), binary_op_simd_parser(VectorConverts.f32x4_convert_i32x4_u),
                  binary_op_simd_parser(VectorTruncSat.i32x4_trunc_sat_f64x2_s), binary_op_simd_parser(VectorTruncSat.i32x4_trunc_sat_f64x2_u),
                  binary_op_simd_parser(VectorConverts.f64x2_convert_low_i32x4_s), binary_op_simd_parser(VectorConverts.f64x2_convert_low_i32x4_u)>>)]

(* The dispatch on the code behind the prefix 0xFD.                        *)
ParsedSimd ==
  ParseVectorExtends @@ ParseVectorMemory.ParseVectorSplats @@ ParseVectorMemory.ParseVectorStore @@ ParseVectorMemory.ParseVectorConst @@ ParseShuffles.ParseShuffle @@ ParseShuffles.ParseSplats
    @@ ParseShuffles.ParseLanes @@ ParseShuffles.ParseCompares @@ ParseShuffles.ParseBits @@ ParseLanes8.ParseLaneAccesses @@ ParseLanes8.Parse8x16
    @@ ParseLanes16To64.Parse16x8 @@ ParseLanes16To64.Parse32x4 @@ ParseLanes16To64.Parse64x2 @@ ParseFloatLanes.ParseF32x4 @@ ParseFloatLanes.ParseF64x2 @@ ParseFloatLanes.ParseVectorConvert
=============================================================================
