--------------------------- MODULE BaselineDecode ---------------------------
(***************************************************************************)
(* How the operands that follow a handler become the fields of an          *)
(* operation of the baseline plan (the decode functions of                 *)
(* runtime/jit/backend/ops.rs): a number is the slot a field is read from. *)
(***************************************************************************)
EXTENDS Baseline

decode_runtime_stub(kind, push_slots) == RuntimeStub(kind, push_slots)
decode_runtime_continuation_stub == RuntimeContinuationStub

decode_data_drop == decode_runtime_stub("data_drop", 0)
decode_elem_drop == decode_runtime_stub("elem_drop", 0)
decode_mem_init == decode_runtime_stub("mem_init_local", 0)
decode_mem_init_shared == decode_runtime_stub("mem_init_shared", 0)
decode_mem_init_indexed_local == decode_runtime_stub("mem_init_indexed_local", 0)
decode_mem_init_indexed_shared == decode_runtime_stub("mem_init_indexed_shared", 0)
decode_mem_copy_shared == decode_runtime_stub("mem_copy_shared", 0)
decode_mem_copy_indexed_local_local == decode_runtime_stub("mem_copy_indexed_local_local", 0)
decode_mem_copy_indexed_local_shared == decode_runtime_stub("mem_copy_indexed_local_shared", 0)
decode_mem_copy_indexed_shared_local == decode_runtime_stub("mem_copy_indexed_shared_local", 0)
decode_mem_copy_indexed_shared_shared == decode_runtime_stub("mem_copy_indexed_shared_shared", 0)
decode_mem_fill_shared == decode_runtime_stub("mem_fill_shared", 0)
decode_mem_fill_indexed_local == decode_runtime_stub("mem_fill_indexed_local", 0)
decode_mem_fill_indexed_shared == decode_runtime_stub("mem_fill_indexed_shared", 0)
decode_mem_size_indexed_local == decode_runtime_stub("mem_size_indexed_local", 1)
decode_mem_size_indexed_shared == decode_runtime_stub("mem_size_indexed_shared", 1)
decode_mem_grow_indexed_local == decode_runtime_stub("mem_grow_indexed_local", 1)
decode_mem_grow_indexed_shared == decode_runtime_stub("mem_grow_indexed_shared", 1)
decode_table_get == decode_runtime_stub("table_get", 1)
decode_table_set == decode_runtime_stub("table_set", 0)
decode_table_init == decode_runtime_stub("table_init", 0)
decode_table_copy == decode_runtime_stub("table_copy", 0)
decode_table_grow == decode_runtime_stub("table_grow", 1)
decode_table_size == decode_runtime_stub("table_size", 1)
decode_table_fill == decode_runtime_stub("table_fill", 0)
decode_i8x16_extract_lane_s == decode_runtime_stub("i8x16_extract_lane_s", 1)
decode_v128_bitselect == decode_runtime_stub("v128_bitselect", 4)
decode_atomic_notify_local == decode_runtime_stub("atomic_notify_local", 1)
decode_atomic_notify_shared == decode_runtime_stub("atomic_notify_shared", 1)
decode_atomic_notify_indexed_local == decode_runtime_stub("atomic_notify_indexed_local", 1)
decode_atomic_notify_indexed_shared == decode_runtime_stub("atomic_notify_indexed_shared", 1)
decode_atomic_wait32_local == decode_runtime_stub("atomic_wait32_local", 1)
decode_atomic_wait32_shared == decode_runtime_stub("atomic_wait32_shared", 1)
decode_atomic_wait32_indexed_local == decode_runtime_stub("atomic_wait32_indexed_local", 1)
decode_atomic_wait32_indexed_shared == decode_runtime_stub("atomic_wait32_indexed_shared", 1)
decode_atomic_wait64_local == decode_runtime_stub("atomic_wait64_local", 1)
decode_atomic_wait64_shared == decode_runtime_stub("atomic_wait64_shared", 1)
decode_atomic_wait64_indexed_local == decode_runtime_stub("atomic_wait64_indexed_local", 1)
decode_atomic_wait64_indexed_shared == decode_runtime_stub("atomic_wait64_indexed_shared", 1)
decode_atomic_fence == AtomicFence
decode_atomic_fence_shared == AtomicFence
decode_ref_null == RefNull
decode_ref_is_null == RefIsNull
decode_ref_func == RefFunc(0)
decode_unreachable == TrapOp("Unreachable")
decode_i32_const == I32Const(0)
decode_i64_const == I64Const(0)
decode_f32_const == F32Const(0)
decode_f64_const == F64Const(0)
decode_f32_add == F32Binary("add")
decode_f32_sub == F32Binary("sub")
decode_f32_mul == F32Binary("mul")
decode_f32_div == F32Binary("div")
decode_f32_min == F32Binary("wasm_min")
decode_f32_max == F32Binary("wasm_max")
decode_f32_copysign == F32Binary("copysign")
decode_f32_abs == F32Unary("abs")
decode_f32_neg == F32Unary("neg")
decode_f32_sqrt == F32Unary("sqrt")
decode_f32_ceil == F32Unary("ceil")
decode_f32_floor == F32Unary("floor")
decode_f32_trunc == F32Unary("trunc")
decode_f32_nearest == F32Unary("round_ties_even")
decode_f32_convert_i32_s == F32ConvertI32(TRUE)
decode_f32_convert_i32_u == F32ConvertI32(FALSE)
decode_f32_convert_i64_s == F32ConvertI64(TRUE)
decode_f32_convert_i64_u == F32ConvertI64(FALSE)
decode_f32_demote_f64 == F32DemoteF64
decode_f64_add == F64Binary("add")
decode_f64_sub == F64Binary("sub")
decode_f64_mul == F64Binary("mul")
decode_f64_div == F64Binary("div")
decode_f64_min == F64Binary("wasm_min")
decode_f64_max == F64Binary("wasm_max")
decode_f64_copysign == F64Binary("copysign")
decode_f64_neg == F64Unary("neg")
decode_f64_abs == F64Unary("abs")
decode_f64_sqrt == F64Unary("sqrt")
decode_f64_ceil == F64Unary("ceil")
decode_f64_floor == F64Unary("floor")
decode_f64_trunc == F64Unary("trunc")
decode_f64_nearest == F64Unary("round_ties_even")
decode_f64_convert_i32_s == F64ConvertI32(TRUE)
decode_f64_convert_i32_u == F64ConvertI32(FALSE)
decode_f64_convert_i64_s == F64ConvertI64(TRUE)
decode_f64_convert_i64_u == F64ConvertI64(FALSE)
decode_f64_promote_f32 == F64PromoteF32
decode_i64_extend_i32_u == I64ExtendI32(FALSE)
decode_i64_extend_i32_s == I64ExtendI32(TRUE)
decode_i64_extend8_s == I64ExtendS("low_i8")
decode_i64_extend16_s == I64ExtendS("low_i16")
decode_i64_extend32_s == I64ExtendS("low_i32")
decode_i64_eqz == I64Eqz
decode_i64_clz == I64Unary("leading_zeros")
decode_i64_ctz == I64Unary("trailing_zeros")
decode_i64_popcnt == I64Unary("count_ones")
decode_i64_eq == I64Compare("eq", "u64")
decode_i64_ne == I64Compare("ne", "u64")
decode_i64_lt_s == I64Compare("lt", "i64")
decode_i64_lt_u == I64Compare("lt", "u64")
decode_i64_gt_s == I64Compare("gt", "i64")
decode_i64_gt_u == I64Compare("gt", "u64")
decode_i64_le_s == I64Compare("le", "i64")
decode_i64_le_u == I64Compare("le", "u64")
decode_i64_ge_s == I64Compare("ge", "i64")
decode_i64_ge_u == I64Compare("ge", "u64")
decode_i64_add == I64Binary("add")
decode_i64_mul == I64Binary("mul")
decode_i64_div_s == I64Binary("div_s")
decode_i64_div_u == I64Binary("div_u")
decode_i64_rem_s == I64Binary("rem_s")
decode_i64_rem_u == I64Binary("rem_u")
decode_i64_sub == I64Binary("sub")
decode_i64_and == I64Binary("and")
decode_i64_or == I64Binary("or")
decode_i64_xor == I64Binary("xor")
decode_i64_shl == I64Binary("shl")
decode_i64_shr_s == I64Binary("shr_s")
decode_i64_shr_u == I64Binary("shr_u")
decode_i64_rotl == I64Binary("rotl")
decode_i64_rotr == I64Binary("rotr")
decode_i32_wrap_i64 == I32WrapI64
decode_i32_const_set4 == I32ConstWrite4(0, 1, FALSE)
decode_i32_const_tee4 == I32ConstWrite4(0, 1, TRUE)
decode_i32_const_binop == I32ConstBinop(0, 1)
decode_i32_const_binop_br_if == I32ConstBinopBrIf(0, 1, 2)
decode_i32_const_binop_write4(keep_result) == I32ConstBinopWrite4(0, 1, 2, keep_result)
decode_i32_const_binop_set4 == decode_i32_const_binop_write4(FALSE)
decode_i32_const_binop_tee4 == decode_i32_const_binop_write4(TRUE)
decode_i32_const_cmp == I32ConstCmpWrite4(0, 1, NoSlot, TRUE)
decode_i32_const_cmp_br_if == I32ConstCmpBrIf(0, 1, 2)
decode_i32_const_cmp_write4(keep_result) == I32ConstCmpWrite4(0, 1, 2, keep_result)
decode_i32_const_cmp_set4 == decode_i32_const_cmp_write4(FALSE)
decode_i32_const_cmp_tee4 == decode_i32_const_cmp_write4(TRUE)
decode_local_binop32 == LocalBinop32Write4(0, 1, 2, NoSlot, TRUE)
decode_local_binop32_br_if == LocalBinop32BrIf(0, 1, 2, 3)
decode_local_cmp32 == LocalCmp32Write4(0, 1, 2, NoSlot, TRUE)
decode_local_cmp32_br_if == LocalCmp32BrIf(0, 1, 2, 3)
decode_local_cmp32_write4(keep_result) == LocalCmp32Write4(0, 1, 2, 3, keep_result)
decode_local_cmp32_set4 == decode_local_cmp32_write4(FALSE)
decode_local_cmp32_tee4 == decode_local_cmp32_write4(TRUE)
decode_local_cmp64_write4(dst, keep_result) == LocalCmp64Write4(0, 1, 2, dst, keep_result)
decode_local_cmp64 == decode_local_cmp64_write4(NoSlot, TRUE)
decode_local_cmp64_set4 == decode_local_cmp64_write4(3, FALSE)
decode_local_cmp64_tee4 == decode_local_cmp64_write4(3, TRUE)
decode_local_cmp64_br_if == LocalCmp64BrIf(0, 1, 2, 3)
decode_local_unary32 == LocalUnary32Write4(0, 1, NoSlot, TRUE)
decode_local_unary32_write4(keep_result) == LocalUnary32Write4(0, 1, 2, keep_result)
decode_local_unary32_set4 == decode_local_unary32_write4(FALSE)
decode_local_unary32_tee4 == decode_local_unary32_write4(TRUE)
decode_local_unary64 == LocalUnary64Write8(0, 1, NoSlot, TRUE)
decode_local_unary64_write8(keep_result) == LocalUnary64Write8(0, 1, 2, keep_result)
decode_local_unary64_set8 == decode_local_unary64_write8(FALSE)
decode_local_unary64_tee8 == decode_local_unary64_write8(TRUE)
decode_local_binop32_write4(keep_result) == LocalBinop32Write4(0, 1, 2, 3, keep_result)
decode_local_binop32_set4 == decode_local_binop32_write4(FALSE)
decode_local_binop32_tee4 == decode_local_binop32_write4(TRUE)
decode_local_binop64 == LocalBinop64(0, 1, 2)
decode_local_binop64_write8(keep_result) == LocalBinop64Write8(0, 1, 2, 3, keep_result)
decode_local_binop64_set8 == decode_local_binop64_write8(FALSE)
decode_local_binop64_tee8 == decode_local_binop64_write8(TRUE)
decode_local_get4_i32_const_add == LocalGet4I32ConstAdd(0, 1)
decode_local_get4_i32_const_add_write4(keep_result) == LocalGet4I32ConstAddWrite4(0, 1, 2, keep_result)
decode_local_get4_i32_const_add_set4 == decode_local_get4_i32_const_add_write4(FALSE)
decode_local_get4_i32_const_add_tee4 == decode_local_get4_i32_const_add_write4(TRUE)
decode_local_get4_local_get4_i32_add == LocalGet4LocalGet4I32Add(0, 1)
decode_local_get4_local_get4_i32_add_write4(keep_result) == LocalGet4LocalGet4I32AddWrite4(0, 1, 2, keep_result)
decode_local_get4_local_get4_i32_add_set4 == decode_local_get4_local_get4_i32_add_write4(FALSE)
decode_local_get4_local_get4_i32_add_tee4 == decode_local_get4_local_get4_i32_add_write4(TRUE)
decode_local_get4_run == LocalGet4Run(0, 1)
decode_local_get4_run_skip == LocalGet4RunSkip(0, 1)
decode_local_get8 == LocalGet8(0)
decode_local_get16 == LocalGet16(0)
decode_global_get4 == GlobalGet4(0)
decode_global_get8 == GlobalGetSlots(0, "u64")
decode_global_get16 == GlobalGetSlots(0, "u128")
decode_global_set4 == GlobalSet4(0)
decode_global_set8 == GlobalSetSlots(0, "u64")
decode_global_set16 == GlobalSetSlots(0, "u128")
decode_drop == DropOp(0)
decode_local_get4_local_get4 == LocalGet4LocalGet4(0, 1)
decode_local_get4_local_get4_local_get4 == LocalGet4LocalGet4LocalGet4(0, 1, 2)
decode_local_get4_local_get4_xor_tee4_load16_u == LocalGet4LocalGet4XorTee4Load16U(0, 1, 2, 3)
decode_local_get4_i32_load_local_base_width(n) == LocalGet4I32LoadLocalBase(n, 0, 1, 2, 3)
decode_local_get4_i32_load_local_base == decode_local_get4_i32_load_local_base_width("i32_load")
decode_local_get4_i32_load8_u_local_base == decode_local_get4_i32_load_local_base_width("i32_load8_u")
decode_local_get4_i32_load8_s_local_base == decode_local_get4_i32_load_local_base_width("i32_load8_s")
decode_local_get4_i32_load16_u_local_base == decode_local_get4_i32_load_local_base_width("i32_load16_u")
decode_local_get4_i32_load16_s_local_base == decode_local_get4_i32_load_local_base_width("i32_load16_s")
decode_local_get4_i32_inc_local_base == LocalGet4I32IncLocalBase(0, 1)
decode_local_get4_i32_load8_u_local_base_set4 == LocalGet4I32Load8ULocalBaseSet4(0, 1, 2, 3, 4)
decode_local_get4_i32_inc_local_base_i32_load8_u_local_base_set4 ==
  LocalGet4I32IncLocalBaseI32Load8ULocalBaseSet4(0, 1, 6, 7, 8, 9)
decode_local_get4_i32_load_local_base_i32_add_write4(keep_result) ==
  LocalGet4I32LoadLocalBaseI32AddWrite4(0, 1, 2, 3, 4, keep_result)
decode_local_get4_i32_load_local_base_i32_add_set4 == decode_local_get4_i32_load_local_base_i32_add_write4(FALSE)
decode_local_get4_i32_load_local_base_i32_add_tee4 == decode_local_get4_i32_load_local_base_i32_add_write4(TRUE)
decode_local_get4x3_i32_add_const_binop_i32_add_write4(keep_result) ==
  LocalGet4x3I32AddConstBinopI32AddWrite4(0, 1, 2, 3, 4, 5, 6, keep_result)
decode_local_get4x3_i32_add_const_binop_i32_add_set4 == decode_local_get4x3_i32_add_const_binop_i32_add_write4(FALSE)
decode_local_get4x3_i32_add_const_binop_i32_add_tee4 == decode_local_get4x3_i32_add_const_binop_i32_add_write4(TRUE)
decode_local_get4x3_i32_add_const_binop_i32_add_tee4_i32_const_store ==
  LocalGet4x3I32AddConstBinopI32AddTee4I32ConstStore(0, 1, 2, 3, 4, 5, 6, 7, 8)
decode_local_get4_write4(keep_result) == LocalGet4Write4(0, 1, keep_result)
decode_local_get4_set4 == decode_local_get4_write4(FALSE)
decode_local_get4_tee4 == decode_local_get4_write4(TRUE)
decode_local_set4 == LocalSet4(0)
decode_local_set8 == LocalSet8(0)
decode_local_set16 == LocalSet16(0)
decode_local_tee4 == LocalTee4(0)
decode_local_tee8 == LocalTee8(0)
decode_local_tee16 == LocalTee16(0)
decode_select4 == Select4(NoSlot, TRUE)
decode_select8 == SelectSlots("u64")
decode_select16 == SelectSlots("u128")
(* The width of what is selected is in slot 0.                             *)
decode_select ==
  <<Require(K(0), {4, 8, 16}),
    IfSlotZero(Minus(K(0), N(4)), decode_select4, <<IfSlotZero(Minus(K(0), N(8)), decode_select8, decode_select16)>>)>>
decode_select4_set4 == Select4(0, FALSE)
decode_select4_tee4 == Select4(0, TRUE)
decode_i32_add == I32Binary("add")
decode_i32_sub == I32Binary("sub")
decode_i32_mul == I32Binary("mul")
decode_i32_div_s == I32Binary("div_s")
decode_i32_div_u == I32Binary("div_u")
decode_i32_rem_s == I32Binary("rem_s")
decode_i32_rem_u == I32Binary("rem_u")
decode_i32_and == I32Binary("and")
decode_i32_or == I32Binary("or")
decode_i32_xor == I32Binary("xor")
decode_i32_shl == I32Binary("shl")
decode_i32_shr_s == I32Binary("shr_s")
decode_i32_shr_u == I32Binary("shr_u")
decode_i32_rotl == I32Binary("rotl")
decode_i32_rotr == I32Binary("rotr")
decode_i32_clz == I32Unary("leading_zeros")
decode_i32_ctz == I32Unary("trailing_zeros")
decode_i32_popcnt == I32Unary("count_ones")
decode_i32_extend8_s == I32Unary("low_i8")
decode_i32_extend16_s == I32Unary("low_i16")
decode_i32_eqz == I32Eqz
decode_i32_eq == I32Compare("eq", "u32")
decode_i32_ne == I32Compare("ne", "u32")
decode_i32_lt_s == I32Compare("lt", "i32")
decode_i32_lt_u == I32Compare("lt", "u32")
decode_i32_gt_s == I32Compare("gt", "i32")
decode_i32_gt_u == I32Compare("gt", "u32")
decode_i32_le_s == I32Compare("le", "i32")
decode_i32_le_u == I32Compare("le", "u32")
decode_i32_ge_s == I32Compare("ge", "i32")
decode_i32_ge_u == I32Compare("ge", "u32")
decode_f32_eq == F32Compare("eq")
decode_f32_ne == F32Compare("ne")
decode_f32_lt == F32Compare("lt")
decode_f32_gt == F32Compare("gt")
decode_f32_le == F32Compare("le")
decode_f32_ge == F32Compare("ge")
decode_f64_eq == F64Compare("eq")
decode_f64_ne == F64Compare("ne")
decode_f64_lt == F64Compare("lt")
decode_f64_gt == F64Compare("gt")
decode_f64_le == F64Compare("le")
decode_f64_ge == F64Compare("ge")
decode_i32_trunc_f32_s == I32TruncFloat("f32", TRUE)
decode_i32_trunc_f32_u == I32TruncFloat("f32", FALSE)
decode_i32_trunc_f64_s == I32TruncFloat("f64", TRUE)
decode_i32_trunc_f64_u == I32TruncFloat("f64", FALSE)
decode_i32_trunc_sat_f32_s == I32TruncSatFloat("f32", TRUE)
decode_i32_trunc_sat_f32_u == I32TruncSatFloat("f32", FALSE)
decode_i32_trunc_sat_f64_s == I32TruncSatFloat("f64", TRUE)
decode_i32_trunc_sat_f64_u == I32TruncSatFloat("f64", FALSE)
decode_i64_trunc_f32_s == I64TruncFloat("f32", TRUE, FALSE)
decode_i64_trunc_f32_u == I64TruncFloat("f32", FALSE, FALSE)
decode_i64_trunc_f64_s == I64TruncFloat("f64", TRUE, FALSE)
decode_i64_trunc_f64_u == I64TruncFloat("f64", FALSE, FALSE)
decode_i64_trunc_sat_f32_s == I64TruncFloat("f32", TRUE, TRUE)
decode_i64_trunc_sat_f32_u == I64TruncFloat("f32", FALSE, TRUE)
decode_i64_trunc_sat_f64_s == I64TruncFloat("f64", TRUE, TRUE)
decode_i64_trunc_sat_f64_u == I64TruncFloat("f64", FALSE, TRUE)
decode_i32_load_width(n) == I32Load(n, 0)
decode_i32_load == decode_i32_load_width("i32_load")
decode_i32_load8_u == decode_i32_load_width("i32_load8_u")
decode_i32_load8_s == decode_i32_load_width("i32_load8_s")
decode_i32_load16_u == decode_i32_load_width("i32_load16_u")
decode_i32_load16_s == decode_i32_load_width("i32_load16_s")
decode_i32_load_local_get4_width(n) == I32LoadLocalGet4(n, 0, 1)
decode_i32_load_local_get4 == decode_i32_load_local_get4_width("i32_load")
decode_i32_load8_u_local_get4 == decode_i32_load_local_get4_width("i32_load8_u")
decode_i32_load8_s_local_get4 == decode_i32_load_local_get4_width("i32_load8_s")
decode_i32_load16_u_local_get4 == decode_i32_load_local_get4_width("i32_load16_u")
decode_i32_load16_s_local_get4 == decode_i32_load_local_get4_width("i32_load16_s")
decode_i64_load == I64Load("i64_load", 0)
decode_i64_load8_s == I64Load("i64_load8_s", 0)
decode_i64_load8_u == I64Load("i64_load8_u", 0)
decode_i64_load16_s == I64Load("i64_load16_s", 0)
decode_i64_load16_u == I64Load("i64_load16_u", 0)
decode_i64_load32_s == I64Load("i64_load32_s", 0)
decode_i64_load32_u == I64Load("i64_load32_u", 0)
decode_f32_load == decode_i32_load_width("i32_load")
decode_i32_load_const_base == I32LoadConstBase(0)
decode_f32_load_const_base == decode_i32_load_const_base
decode_f64_load == decode_i64_load
decode_f64_load_const_base == F64LoadConstBase(0)
decode_i64_load_const_base == decode_f64_load_const_base
decode_f64_load_local_base == F64LoadLocalBase(0, 1, 2)
decode_i64_load_local_base_width(n) == I64LoadLocalBase(n, 0, 1, 2)
decode_i64_load_local_base == decode_i64_load_local_base_width("i64_load")
decode_i64_load8_s_local_base == decode_i64_load_local_base_width("i64_load8_s")
decode_i64_load8_u_local_base == decode_i64_load_local_base_width("i64_load8_u")
decode_i64_load16_s_local_base == decode_i64_load_local_base_width("i64_load16_s")
decode_i64_load16_u_local_base == decode_i64_load_local_base_width("i64_load16_u")
decode_i64_load32_s_local_base == decode_i64_load_local_base_width("i64_load32_s")
decode_i64_load32_u_local_base == decode_i64_load_local_base_width("i64_load32_u")
decode_i32_load_const_base_local_get4_i32_add_set4 == I32LoadConstBaseLocalGet4I32AddSet4(0, 1, 2)
decode_i32_load_store_local_base_local_get4 == I32LoadStoreLocalBaseLocalGet4(0, 1, 2, 3, 4, 5)
decode_i32_load_tee4_br_if_width(n, eqz) == I32LoadTee4BrIf(n, 0, 1, eqz, 2)
decode_i32_load_tee4_br_if == decode_i32_load_tee4_br_if_width("i32_load", FALSE)
decode_i32_load_tee4_i32_eqz_br_if == decode_i32_load_tee4_br_if_width("i32_load", TRUE)
decode_i32_load8_u_tee4_br_if == decode_i32_load_tee4_br_if_width("i32_load8_u", FALSE)
decode_i32_load8_u_tee4_i32_eqz_br_if == decode_i32_load_tee4_br_if_width("i32_load8_u", TRUE)
decode_i32_load8_s_tee4_br_if == decode_i32_load_tee4_br_if_width("i32_load8_s", FALSE)
decode_i32_load8_s_tee4_i32_eqz_br_if == decode_i32_load_tee4_br_if_width("i32_load8_s", TRUE)
decode_i32_load16_u_tee4_br_if == decode_i32_load_tee4_br_if_width("i32_load16_u", FALSE)
decode_i32_load16_u_tee4_i32_eqz_br_if == decode_i32_load_tee4_br_if_width("i32_load16_u", TRUE)
decode_i32_load16_s_tee4_br_if == decode_i32_load_tee4_br_if_width("i32_load16_s", FALSE)
decode_i32_load16_s_tee4_i32_eqz_br_if == decode_i32_load_tee4_br_if_width("i32_load16_s", TRUE)
decode_i32_load_local_base_width(n) == I32LoadLocalBase(n, 0, 1, 2)
decode_i32_load_local_base == decode_i32_load_local_base_width("i32_load")
decode_i32_load8_u_local_base == decode_i32_load_local_base_width("i32_load8_u")
decode_i32_load8_s_local_base == decode_i32_load_local_base_width("i32_load8_s")
decode_i32_load16_u_local_base == decode_i32_load_local_base_width("i32_load16_u")
decode_i32_load16_s_local_base == decode_i32_load_local_base_width("i32_load16_s")
decode_i32_load_local_base_write4_width(n, keep_result) == I32LoadLocalBaseSet4(n, 0, 1, 2, 3, keep_result)
decode_i32_load_local_base_tee4 == decode_i32_load_local_base_write4_width("i32_load", TRUE)
decode_i32_load8_u_local_base_tee4 == decode_i32_load_local_base_write4_width("i32_load8_u", TRUE)
decode_i32_load8_s_local_base_tee4 == decode_i32_load_local_base_write4_width("i32_load8_s", TRUE)
decode_i32_load16_u_local_base_tee4 == decode_i32_load_local_base_write4_width("i32_load16_u", TRUE)
decode_i32_load16_s_local_base_tee4 == decode_i32_load_local_base_write4_width("i32_load16_s", TRUE)
decode_i32_load_local_base_set4 == decode_i32_load_local_base_write4_width("i32_load", FALSE)
decode_i32_load8_u_local_base_set4 == decode_i32_load_local_base_write4_width("i32_load8_u", FALSE)
decode_i32_load8_u_local_base_set4_local_get4 == I32LoadLocalBaseSet4LocalGet4("i32_load8_u", 0, 1, 2, 3, 4)
decode_i32_load8_s_local_base_set4 == decode_i32_load_local_base_write4_width("i32_load8_s", FALSE)
decode_i32_load16_u_local_base_set4 == decode_i32_load_local_base_write4_width("i32_load16_u", FALSE)
decode_i32_load16_s_local_base_set4 == decode_i32_load_local_base_write4_width("i32_load16_s", FALSE)
decode_i32_load_local_base_local_get4_width(n) == I32LoadLocalBaseLocalGet4(n, 0, 1, 2, NoSlot, 3)
decode_i32_load_local_base_local_get4 == decode_i32_load_local_base_local_get4_width("i32_load")
decode_i32_load8_u_local_base_local_get4 == decode_i32_load_local_base_local_get4_width("i32_load8_u")
decode_i32_load8_s_local_base_local_get4 == decode_i32_load_local_base_local_get4_width("i32_load8_s")
decode_i32_load16_u_local_base_local_get4 == decode_i32_load_local_base_local_get4_width("i32_load16_u")
decode_i32_load16_s_local_base_local_get4 == decode_i32_load_local_base_local_get4_width("i32_load16_s")
decode_i32_load_local_base_tee4_local_get4_width(n) == I32LoadLocalBaseLocalGet4(n, 0, 1, 2, 3, 4)
decode_i32_load_local_base_tee4_local_get4 == decode_i32_load_local_base_tee4_local_get4_width("i32_load")
decode_i32_load8_u_local_base_tee4_local_get4 == decode_i32_load_local_base_tee4_local_get4_width("i32_load8_u")
decode_i32_load8_s_local_base_tee4_local_get4 == decode_i32_load_local_base_tee4_local_get4_width("i32_load8_s")
decode_i32_load16_u_local_base_tee4_local_get4 == decode_i32_load_local_base_tee4_local_get4_width("i32_load16_u")
decode_i32_load16_s_local_base_tee4_local_get4 == decode_i32_load_local_base_tee4_local_get4_width("i32_load16_s")
decode_i32_load_local_base_set4_i32_load_local_base_width(n, has_preserved) ==
  I32LoadLocalBaseSet4I32LoadLocalBase(n, 0, 1, 2, 3, 4, 5, IF has_preserved THEN 6 ELSE NoSlot)
decode_i32_load_local_base_set4_i32_load8_u_local_base ==
  decode_i32_load_local_base_set4_i32_load_local_base_width("i32_load8_u", FALSE)
decode_i32_load_local_base_set4_i32_load_local_base ==
  decode_i32_load_local_base_set4_i32_load_local_base_width("i32_load", FALSE)
decode_i32_load_local_base_set4_i32_load8_s_local_base ==
  decode_i32_load_local_base_set4_i32_load_local_base_width("i32_load8_s", FALSE)
decode_i32_load_local_base_set4_i32_load16_u_local_base ==
  decode_i32_load_local_base_set4_i32_load_local_base_width("i32_load16_u", FALSE)
decode_i32_load_local_base_set4_i32_load16_s_local_base ==
  decode_i32_load_local_base_set4_i32_load_local_base_width("i32_load16_s", FALSE)
decode_i32_load_local_base_set4_i32_load8_u_local_base_local_get4 ==
  decode_i32_load_local_base_set4_i32_load_local_base_width("i32_load8_u", TRUE)
decode_i32_load_local_base_set4_i32_load8_u_local_base_local_eq_br_if ==
  I32LoadLocalBaseSet4I32LoadLocalBaseEqBrIf("i32_load8_u", 0, 1, 2, 3, 4, 5, 6, 7)
decode_i32_load_local_base_set4_i32_load8_s_local_base_local_get4 ==
  decode_i32_load_local_base_set4_i32_load_local_base_width("i32_load8_s", TRUE)
decode_i32_load_local_base_set4_i32_load16_u_local_base_local_get4 ==
  decode_i32_load_local_base_set4_i32_load_local_base_width("i32_load16_u", TRUE)
decode_i32_load_local_base_set4_i32_load16_s_local_base_local_get4 ==
  decode_i32_load_local_base_set4_i32_load_local_base_width("i32_load16_s", TRUE)
decode_i32_load_store_local_base_reverse_loop == I32LoadStoreLocalBaseReverseLoop(0, 1, 2, 3, 4)
decode_i32_load_store_local_base_relink_loop == I32LoadStoreLocalBaseRelinkLoop(0, 1, 2, 3, 4)
decode_i32_load16_u_update_store16_local_base_loop == I32Load16UpdateStore16LocalBaseLoop
decode_i32_load_local_base_local_get4_i32_load_width(n) == I32LoadLocalBaseLocalGet4I32Load(n, 0, 1, 2, 3, 4)
decode_i32_load16_u_local_base_local_get4_i32_load16_u ==
  decode_i32_load_local_base_local_get4_i32_load_width("i32_load16_u")
decode_i32_load16_s_local_base_local_get4_i32_load16_s ==
  decode_i32_load_local_base_local_get4_i32_load_width("i32_load16_s")
decode_i32_load_local_base_local_get4_i32_load_tee4_cmp_br_if == I32LoadLocalBaseLocalGet4I32LoadCmpBrIf
decode_i32_load_local_scaled_index_width(n) == I32LoadLocalScaledIndex(n)
decode_i32_load16_u_local_scaled_index == decode_i32_load_local_scaled_index_width("i32_load16_u")
decode_i32_load16_s_local_scaled_index == decode_i32_load_local_scaled_index_width("i32_load16_s")
decode_i32_load8_u_local_scaled_index == decode_i32_load_local_scaled_index_width("i32_load8_u")
decode_i32_load8_s_local_scaled_index == decode_i32_load_local_scaled_index_width("i32_load8_s")
decode_i32_store_width(n) == I32Store(n, 0)
decode_i32_store == decode_i32_store_width("i32_store")
decode_i32_store8 == decode_i32_store_width("i32_store8")
decode_i32_store16 == decode_i32_store_width("i32_store16")
decode_f32_store == decode_i32_store_width("i32_store")
decode_i64_store_width(n) == I64Store(n, 0)
decode_i64_store == decode_i64_store_width("i64_store")
decode_f64_store == decode_i64_store_width("i64_store")
decode_i64_store8 == decode_i64_store_width("i64_store8")
decode_i64_store16 == decode_i64_store_width("i64_store16")
decode_i64_store32 == decode_i64_store_width("i64_store32")
decode_i64_store_local_base_width(n) == I64StoreLocalBase(n, 0, 1, 2)
decode_i64_store_local_base == decode_i64_store_local_base_width("i64_store")
decode_i64_store8_local_base == decode_i64_store_local_base_width("i64_store8")
decode_i64_store16_local_base == decode_i64_store_local_base_width("i64_store16")
decode_i64_store32_local_base == decode_i64_store_local_base_width("i64_store32")
decode_f64_store_local_base == F64StoreLocalBase(0, 1, 2)
decode_store_const_base_local4 == StoreConstBaseLocal4(0, 1)
decode_store_const_base_local8 == StoreConstBaseLocal8(0, 1)
decode_i32_store_local_base_width(n) == I32StoreLocalBase(n, 0, 1, 2)
decode_i32_store_local_base == decode_i32_store_local_base_width("i32_store")
decode_i32_store8_local_base == decode_i32_store_local_base_width("i32_store8")
decode_i32_store16_local_base == decode_i32_store_local_base_width("i32_store16")
decode_i32_store_local_base_local_get4_width(n) == I32StoreLocalBaseLocalGet4(n, 0, 1, 2, 3)
decode_i32_store_local_base_local_get4 == decode_i32_store_local_base_local_get4_width("i32_store")
decode_i32_store8_local_base_local_get4 == decode_i32_store_local_base_local_get4_width("i32_store8")
decode_i32_store16_local_base_local_get4 == decode_i32_store_local_base_local_get4_width("i32_store16")
decode_i32_store_local_scaled_index_width(n) == I32StoreLocalScaledIndex(n)
decode_i32_store_local_scaled_index == decode_i32_store_local_scaled_index_width("i32_store")
decode_i32_store8_local_scaled_index == decode_i32_store_local_scaled_index_width("i32_store8")
decode_i32_store16_local_scaled_index == decode_i32_store_local_scaled_index_width("i32_store16")
decode_i32_inc_local_base == I32IncLocalBase(0)
decode_i32_load_local_base_tee4_i32_load8_u_tee4_br_if == I32LoadLocalBaseTeeLoad8UTeeBrIf
decode_memory_fill == MemoryFill
decode_memory_copy == MemoryCopy
decode_mem_size == MemorySize(Default)
decode_mem_size_shared == MemorySize(DefaultShared)
decode_mem_grow == MemoryGrow(Default)
decode_mem_grow_shared == MemoryGrow(DefaultShared)
decode_scalar_copy_local_base_run == ScalarCopyLocalBaseRun(0, 1, 2, 3)
decode_i32_load_local_base_tee4_br_if_width(n, eqz) == I32LoadLocalBaseTee4BrIf(n, 0, 1, 2, 3, eqz, 4)
decode_i32_load_local_base_tee4_br_if == decode_i32_load_local_base_tee4_br_if_width("i32_load", FALSE)
decode_i32_load_local_base_tee4_i32_eqz_br_if == decode_i32_load_local_base_tee4_br_if_width("i32_load", TRUE)
decode_i32_load8_u_local_base_tee4_br_if == decode_i32_load_local_base_tee4_br_if_width("i32_load8_u", FALSE)
decode_i32_load8_u_local_base_tee4_i32_eqz_br_if == decode_i32_load_local_base_tee4_br_if_width("i32_load8_u", TRUE)
decode_i32_load8_s_local_base_tee4_br_if == decode_i32_load_local_base_tee4_br_if_width("i32_load8_s", FALSE)
decode_i32_load8_s_local_base_tee4_i32_eqz_br_if == decode_i32_load_local_base_tee4_br_if_width("i32_load8_s", TRUE)
decode_i32_load16_u_local_base_tee4_br_if == decode_i32_load_local_base_tee4_br_if_width("i32_load16_u", FALSE)
decode_i32_load16_u_local_base_tee4_i32_eqz_br_if == decode_i32_load_local_base_tee4_br_if_width("i32_load16_u", TRUE)
decode_i32_load16_s_local_base_tee4_br_if == decode_i32_load_local_base_tee4_br_if_width("i32_load16_s", FALSE)
decode_i32_load16_s_local_base_tee4_i32_eqz_br_if == decode_i32_load_local_base_tee4_br_if_width("i32_load16_s", TRUE)
decode_i32_guarded_load8_update_br_if == I32GuardedLoad8UpdateBrIf
decode_i32_load8_update_br_if == I32Load8UpdateBrIf
decode_local_add_set_load8_eqz_br_if == LocalAddSetLoad8EqzBrIf
decode_branch == Branch(0)
decode_br_if == BrIfOp(0)
decode_local_get4_br_if == LocalGet4BrIf(0, 1)
decode_local_get4_i32_const_add_br_if == LocalGet4I32ConstAddBrIf(0, 1, 2)
decode_local_get4_local_get4_i32_add_br_if == LocalGet4LocalGet4I32AddBrIf(0, 1, 2)
decode_local_get4_i32_eqz_br_if == LocalGet4I32EqzBrIf(0, 1)
decode_local_get4_i32_const_compare_br_if == LocalGet4I32ConstCompareBrIf(0, 1, 2, 3)
decode_local_get4_local_get4_compare_br_if == LocalGet4LocalGet4CompareBrIf(0, 1, 2, 3)
decode_local_get4_i32_const_and_br_if == LocalGet4I32ConstAndBrIf(0, 1, FALSE, 2)
decode_local_get4_i32_const_and_eqz_br_if == LocalGet4I32ConstAndBrIf(0, 1, TRUE, 2)
decode_local_get4_i32_const_and_i32_const_compare_br_if == LocalGet4I32ConstAndI32ConstCompareBrIf(0, 1, 2, 3, 4)
decode_local_get4_i32_const_and_tee4_i32_const_eq_br_if == LocalGet4I32ConstAndTee4I32ConstEqBrIf(0, 1, 2, 3, 4)
decode_local_get4_set4_local_get4_i32_const_compare_br_if ==
  LocalGet4Set4LocalGet4I32ConstCompareBrIf(0, 1, 2, 3, 4, 5)
decode_local_get4_i32_const_add_i32_const_and_i32_const_compare_br_if ==
  LocalGet4I32ConstAddI32ConstAndI32ConstCompareBrIf(0, 1, 2, 3, 4, 5)
decode_local_get4_i32_const_add_tee4_br_if == LocalGet4I32ConstAddTee4BrIf(0, 1, 2, 3)
decode_local_get4_br_table == LocalGet4BrTable(L(0), 1, 2)
decode_local_get4_i32_const_add_br_table == LocalGet4BrTable(Plus(L(0), K(1)), 2, 3)
decode_br_table == BrTableOp(0, 1)
decode_if == IfOp(0)
decode_else == ElseOp(0)
decode_block_return == BlockReturnOp(0)
decode_loop == LoopOp(0)
decode_function_return == FunctionReturn(0)
decode_i32_select_bit_step4 == I32SelectBitStep4
decode_i32_select_bit_step4_run == I32SelectBitStep4Run
(* Behind a field of one byte, slot 7 is the kind of comparison.           *)
decode_search_compare(k) == EqOrNe(k, V("value"), V("rhs"))
decode_i32_search_loop(n, width, compare, has_miss_target) ==
  LET compare_operand_slots == IF width = "u8" THEN 1 ELSE 0
      next == 7 + compare_operand_slots
      match == 9 + compare_operand_slots
  IN I32LoadLocalBaseSet4SearchLoop(n, width, compare, next, match,
                                    IF has_miss_target THEN MissTo(match + 1) ELSE MissFallsThrough)
decode_i32_load16_u_search_loop == decode_i32_search_loop("i32_load16_u", "u16", Equal(V("value"), V("rhs")), TRUE)
decode_i32_load16_u_search_loop_fallthrough ==
  decode_i32_search_loop("i32_load16_u", "u16", Equal(V("value"), V("rhs")), FALSE)
decode_i32_load8_u_masked_search_loop == decode_i32_search_loop("i32_load8_u", "u8", decode_search_compare(7), TRUE)
decode_i32_load8_u_masked_search_loop_fallthrough ==
  decode_i32_search_loop("i32_load8_u", "u8", decode_search_compare(7), FALSE)

-----------------------------------------------------------------------------
(***************************************************************************)
(* These look at the instructions behind the j-th one of the code.         *)
(***************************************************************************)
OpAt(code, j, h) == j <= Len(code) /\ code[j].h = h

(* The comparison that a handler is, or nothing.                           *)
i32_compare_op_from_op(h) ==
  LET compares == <<<<I64OrderI32Equality.op_i32_eq, "eq", "i32">>, <<I64OrderI32Equality.op_i32_ne, "ne", "i32">>,
                    <<I32Order.op_i32_lt_s, "lt", "i32">>,
                    <<I32Order.op_i32_lt_u, "lt", "u32">>, <<I32Order.op_i32_gt_s, "gt", "i32">>, <<I32Order.op_i32_gt_u, "gt",
                                                                                          "u32">>,
                    <<I32Order.op_i32_le_s, "le", "i32">>, <<I32Order.op_i32_le_u, "le", "u32">>, <<I32OrderExtend.op_i32_ge_s, "ge",
                                                                                          "i32">>,
                    <<I32OrderExtend.op_i32_ge_u, "ge", "u32">>>>
  IN SelectSeq(compares, LAMBDA c : c[1] = h)
local_get4_local_get4_const_shr_u_tee4_eq_matches(code, j) ==
  /\ OpAt(code, j + 1, op_local_get4)
  /\ OpAt(code, j + 2, I32SumI64Counts.op_i32_const)
  /\ OpAt(code, j + 3, I32Shifts.op_i32_shr_u)
  /\ OpAt(code, j + 4, LocalAccesses.op_local_tee4)
  /\ OpAt(code, j + 5, I64OrderI32Equality.op_i32_eq)
decode_local_get4(code, j) ==
  LET compare == IF j + 2 <= Len(code) THEN i32_compare_op_from_op(code[j + 2].h) ELSE <<>>
  IN IF local_get4_local_get4_const_shr_u_tee4_eq_matches(code, j)
     THEN LocalGet4LocalGet4ConstShrUTee4Eq(0, 2, 4, 7)
     ELSE IF OpAt(code, j + 1, op_local_get4) /\ compare # <<>>
     THEN LocalGet4LocalGet4Compare(0, 2, compare[1][2], compare[1][3])
     ELSE LocalGet4(0)

decode_end(code, j) ==
  End(OpAt(code, j + 1, BranchTables.special_function_return),
      OpAt(code, j + 1, special_block_return) /\ code[j + 1].imm[1] = 0)
=============================================================================
