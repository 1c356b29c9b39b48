------------------------------ MODULE OpSpecs ------------------------------
(***************************************************************************)
(* The table from the handlers of the interpreter to the operations of the *)
(* baseline plan (OP_SPECS in runtime/jit/backend/ops.rs), in the order of *)
(* the source; handlers that the table does not name are called through    *)
(* the runtime.  Left out are the handlers that run a guest's whole inner  *)
(* loop (checksums, lists, matrices), the calls and the two entry handlers.*)
(***************************************************************************)
EXTENDS BaselineDecode

Spec(h, decode) == [h |-> h, decode |-> decode]
MemoryKind(shared, indexed) == [shared |-> shared, indexed |-> indexed]

ConstantAndFloatSpecs ==
  <<Spec(I32SumI64Counts.op_i32_const, decode_i32_const), Spec(ConstsF32Order.op_i64_const, decode_i64_const),
    Spec(ConstsF32Order.op_f32_const, decode_f32_const), Spec(ConstsF32Order.op_f64_const, decode_f64_const),
    Spec(F32Arith.op_f32_add, decode_f32_add), Spec(F32Arith.op_f32_sub, decode_f32_sub), Spec(F32Arith.op_f32_mul,
                                                                                     decode_f32_mul),
    Spec(F32Arith.op_f32_div, decode_f32_div), Spec(F32Rounding.op_f32_abs, decode_f32_abs), Spec(F32Rounding.op_f32_neg,
                                                                                     decode_f32_neg),
    Spec(F32Arith.op_f32_sqrt, decode_f32_sqrt), Spec(F32Rounding.op_f32_trunc, decode_f32_trunc), Spec(F32MaxF64Arith.op_f64_add,
                                                                                           decode_f64_add),
    Spec(F32MaxF64Arith.op_f64_sub, decode_f64_sub), Spec(F32MaxF64Arith.op_f64_mul, decode_f64_mul), Spec(F32MaxF64Arith.op_f64_div,
                                                                                     decode_f64_div),
    Spec(F64Rounding.op_f64_neg, decode_f64_neg), Spec(F64Rounding.op_f64_abs, decode_f64_abs), Spec(F64Rounding.op_f64_sqrt,
                                                                                     decode_f64_sqrt),
    Spec(F32Rounding.op_f64_ceil, decode_f64_ceil), Spec(F64Rounding.op_f64_floor, decode_f64_floor),
    Spec(F64Rounding.op_f64_trunc, decode_f64_trunc), Spec(F64Rounding.op_f64_nearest, decode_f64_nearest),
    Spec(ConvertF64.op_f64_convert_i32_s, decode_f64_convert_i32_s), Spec(ConvertF64.op_f64_convert_i32_u,
                                                                   decode_f64_convert_i32_u),
    Spec(ConvertF64.op_f64_convert_i64_s, decode_f64_convert_i64_s),
    Spec(ConvertF64.op_f64_convert_i64_u, decode_f64_convert_i64_u)>>
I64Specs ==
  <<Spec(ExtendConvertF32.op_i64_extend_i32_u, decode_i64_extend_i32_u),
    Spec(ExtendConvertF32.op_i64_extend_i32_s, decode_i64_extend_i32_s),
    Spec(I32OrderExtend.op_i64_extend8_s, decode_i64_extend8_s), Spec(I32OrderExtend.op_i64_extend16_s, decode_i64_extend16_s),
    Spec(op_i64_extend32_s, decode_i64_extend32_s), Spec(I64Shifts.op_i64_eqz, decode_i64_eqz),
    Spec(I32SumI64Counts.op_i64_clz, decode_i64_clz), Spec(I32SumI64Counts.op_i64_ctz, decode_i64_ctz), Spec(I32SumI64Counts.op_i64_popcnt,
                                                                                     decode_i64_popcnt),
    Spec(I64Order.op_i64_eq, decode_i64_eq), Spec(I64Order.op_i64_ne, decode_i64_ne), Spec(I64Order.op_i64_lt_s,
                                                                                 decode_i64_lt_s),
    Spec(I64Order.op_i64_lt_u, decode_i64_lt_u), Spec(I64Order.op_i64_gt_s, decode_i64_gt_s), Spec(I64Order.op_i64_gt_u,
                                                                                         decode_i64_gt_u),
    Spec(I64OrderI32Equality.op_i64_le_s, decode_i64_le_s), Spec(I64OrderI32Equality.op_i64_le_u, decode_i64_le_u), Spec(I64OrderI32Equality.op_i64_ge_s,
                                                                                         decode_i64_ge_s),
    Spec(I64OrderI32Equality.op_i64_ge_u, decode_i64_ge_u), Spec(Sat64I64Add.op_i64_add, decode_i64_add), Spec(I64LogicRem.op_i64_mul,
                                                                                       decode_i64_mul),
    Spec(MulDiv.op_i64_div_s, decode_i64_div_s), Spec(MulDiv.op_i64_div_u, decode_i64_div_u),
    Spec(I64LogicRem.op_i64_rem_s, decode_i64_rem_s), Spec(RemI32Logic.op_i64_rem_u, decode_i64_rem_u),
    Spec(ConstsF32Order.op_i64_sub, decode_i64_sub), Spec(MulDiv.op_i64_and, decode_i64_and), Spec(I64LogicRem.op_i64_or,
                                                                                     decode_i64_or),
    Spec(I64LogicRem.op_i64_xor, decode_i64_xor), Spec(I64Shifts.op_i64_shl, decode_i64_shl), Spec(I64Shifts.op_i64_shr_s,
                                                                                     decode_i64_shr_s),
    Spec(I64Shifts.op_i64_shr_u, decode_i64_shr_u), Spec(I32Shifts.op_i64_rotl, decode_i64_rotl),
    Spec(I64Shifts.op_i64_rotr, decode_i64_rotr), Spec(F64MinI32Wrap.op_i32_wrap_i64, decode_i32_wrap_i64)>>
FusedArithmeticSpecs ==
  <<Spec(LocalRuns.op_i32_const_set4, decode_i32_const_set4), Spec(LocalRuns.op_i32_const_tee4, decode_i32_const_tee4),
    Spec(MaskedBranches.op_i32_const_binop, decode_i32_const_binop),
    Spec(ConstAndLocalOps64.op_i32_const_binop_br_if, decode_i32_const_binop_br_if),
    Spec(MaskedBranches.op_i32_const_binop_set4, decode_i32_const_binop_set4),
    Spec(ConstAndLocalOps64.op_i32_const_binop_tee4, decode_i32_const_binop_tee4), Spec(ConstAndLocalOps64.op_i32_const_cmp,
                                                                         decode_i32_const_cmp),
    Spec(ConstAndLocalOps64.op_i32_const_cmp_br_if, decode_i32_const_cmp_br_if),
    Spec(ConstAndLocalOps64.op_i32_const_cmp_set4, decode_i32_const_cmp_set4),
    Spec(ConstAndLocalOps64.op_i32_const_cmp_tee4, decode_i32_const_cmp_tee4), Spec(MaskedBranches.op_local_binop32,
                                                                     decode_local_binop32),
    Spec(MaskedBranches.op_local_binop32_br_if, decode_local_binop32_br_if),
    Spec(MaskedBranches.op_local_binop32_set4, decode_local_binop32_set4),
    Spec(MaskedBranches.op_local_binop32_tee4, decode_local_binop32_tee4), Spec(ConstAndLocalOps64.op_local_binop64,
                                                                     decode_local_binop64),
    Spec(ConstAndLocalOps64.op_local_binop64_set8, decode_local_binop64_set8),
    Spec(ConstAndLocalOps64.op_local_binop64_tee8, decode_local_binop64_tee8), Spec(ConstAndLocalOps64.op_local_cmp32, decode_local_cmp32),
    Spec(ConstAndLocalOps64.op_local_cmp32_br_if, decode_local_cmp32_br_if), Spec(ConstAndLocalOps64.op_local_cmp32_set4,
                                                                   decode_local_cmp32_set4),
    Spec(ConstAndLocalOps64.op_local_cmp32_tee4, decode_local_cmp32_tee4), Spec(ConstAndLocalOps64.op_local_cmp64, decode_local_cmp64),
    Spec(ConstAndLocalOps64.op_local_cmp64_set4, decode_local_cmp64_set4), Spec(LocalUnaries.op_local_cmp64_tee4,
                                                                 decode_local_cmp64_tee4),
    Spec(LocalUnaries.op_local_cmp64_br_if, decode_local_cmp64_br_if), Spec(LocalUnaries.op_local_unary32, decode_local_unary32),
    Spec(LocalUnaries.op_local_unary32_set4, decode_local_unary32_set4),
    Spec(LocalUnaries.op_local_unary32_tee4, decode_local_unary32_tee4), Spec(LocalUnaries.op_local_unary64,
                                                                     decode_local_unary64),
    Spec(LocalUnaries.op_local_unary64_set8, decode_local_unary64_set8),
    Spec(LocalUnaries.op_local_unary64_tee8, decode_local_unary64_tee8),
    Spec(LocalSums.op_local_get4_i32_const_add, decode_local_get4_i32_const_add),
    Spec(LocalSums.op_local_get4_i32_const_add_set4, decode_local_get4_i32_const_add_set4),
    Spec(LocalSums.op_local_get4_i32_const_add_tee4, decode_local_get4_i32_const_add_tee4),
    Spec(LocalBranches.op_local_get4_local_get4_i32_add, decode_local_get4_local_get4_i32_add),
    Spec(LocalBranches.op_local_get4_local_get4_i32_add_set4, decode_local_get4_local_get4_i32_add_set4),
    Spec(LocalBranches.op_local_get4_local_get4_i32_add_tee4, decode_local_get4_local_get4_i32_add_tee4)>>
LocalSpecs ==
  <<Spec(op_local_get4, decode_local_get4(<<>>, 0)), Spec(LocalRuns.op_local_get4_run, decode_local_get4_run),
    Spec(LocalRuns.op_local_get4_run_skip, decode_local_get4_run_skip), Spec(LocalAccesses.op_local_get8, decode_local_get8),
    Spec(LocalAccesses.op_local_get16, decode_local_get16), Spec(GlobalAccess.op_global_get4, decode_global_get4),
    Spec(GlobalAccess.op_global_get8, decode_global_get8), Spec(GlobalAccess.op_global_get16, decode_global_get16),
    Spec(GlobalAccess.op_global_set4, decode_global_set4), Spec(GlobalAccess.op_global_set8, decode_global_set8),
    Spec(GlobalAccess.op_global_set16, decode_global_set16), Spec(op_drop, decode_drop),
    Spec(LocalSums.op_local_get4_local_get4, decode_local_get4_local_get4),
    Spec(LocalSums.op_local_get4_local_get4_local_get4, decode_local_get4_local_get4_local_get4),
    Spec(ConstBaseStores.op_local_get4_local_get4_i32_xor_tee4_u8_shl1_i32_load16_u,
         decode_local_get4_local_get4_xor_tee4_load16_u),
    Spec(LocalBaseLoads.op_local_get4_load_local_base["i32_load"], decode_local_get4_i32_load_local_base),
    Spec(LocalBaseLoads.op_local_get4_load_local_base["i32_load8_u"], decode_local_get4_i32_load8_u_local_base),
    Spec(LocalBaseLoads.op_local_get4_load_local_base["i32_load8_s"], decode_local_get4_i32_load8_s_local_base),
    Spec(LocalBaseLoads.op_local_get4_load_local_base["i32_load16_u"], decode_local_get4_i32_load16_u_local_base),
    Spec(LocalBaseChains.op_local_get4_load_local_base_local_get4_load["i32_load16_u"], decode_runtime_continuation_stub),
    Spec(LocalBaseLoads.op_local_get4_load_local_base["i32_load16_s"], decode_local_get4_i32_load16_s_local_base),
    Spec(LocalBaseChains.op_local_get4_load_local_base_local_get4_load["i32_load16_s"], decode_runtime_continuation_stub),
    Spec(LocalSums.op_local_get4_set4, decode_local_get4_set4), Spec(LocalSums.op_local_get4_tee4, decode_local_get4_tee4),
    Spec(LocalAccesses.op_local_set4, decode_local_set4), Spec(LocalAccesses.op_local_set8, decode_local_set8),
    Spec(LocalAccesses.op_local_set16, decode_local_set16), Spec(LocalAccesses.op_local_tee4, decode_local_tee4),
    Spec(LocalAccesses.op_local_tee8, decode_local_tee8), Spec(op_local_tee16, decode_local_tee16)>>
SelectAndI32Specs ==
  <<Spec(SelectOps.op_select, decode_select), Spec(SelectOps.op_select4, decode_select4),
    Spec(SelectOps.op_select8, decode_select8),
    Spec(SelectOps.op_select16, decode_select16), Spec(SelectOps.op_select4_set4, decode_select4_set4),
    Spec(SelectOps.op_select4_tee4, decode_select4_tee4), Spec(I32SumI64Counts.op_i32_add, decode_i32_add),
    Spec(I32SumI64Counts.op_i32_sub, decode_i32_sub), Spec(MulDiv.op_i32_mul, decode_i32_mul), Spec(MulDiv.op_i32_div_s,
                                                                                     decode_i32_div_s),
    Spec(MulDiv.op_i32_div_u, decode_i32_div_u), Spec(I64LogicRem.op_i32_rem_s, decode_i32_rem_s),
    Spec(I64LogicRem.op_i32_rem_u, decode_i32_rem_u), Spec(RemI32Logic.op_i32_and, decode_i32_and), Spec(RemI32Logic.op_i32_or,
                                                                                         decode_i32_or),
    Spec(RemI32Logic.op_i32_xor, decode_i32_xor), Spec(I32Shifts.op_i32_shl, decode_i32_shl), Spec(I32Shifts.op_i32_shr_s,
                                                                                     decode_i32_shr_s),
    Spec(I32Shifts.op_i32_shr_u, decode_i32_shr_u), Spec(I32Shifts.op_i32_rotl, decode_i32_rotl),
    Spec(I32Shifts.op_i32_rotr, decode_i32_rotr), Spec(F64OrderI32Counts.op_i32_clz, decode_i32_clz), Spec(F64OrderI32Counts.op_i32_ctz,
                                                                                       decode_i32_ctz),
    Spec(I32OrderExtend.op_i32_extend8_s, decode_i32_extend8_s), Spec(I32OrderExtend.op_i32_extend16_s, decode_i32_extend16_s),
    Spec(I64Shifts.op_i32_eqz, decode_i32_eqz), Spec(I64OrderI32Equality.op_i32_eq, decode_i32_eq), Spec(I64OrderI32Equality.op_i32_ne,
                                                                                   decode_i32_ne),
    Spec(I32Order.op_i32_lt_s, decode_i32_lt_s), Spec(I32Order.op_i32_lt_u, decode_i32_lt_u), Spec(I32Order.op_i32_gt_s,
                                                                                         decode_i32_gt_s),
    Spec(I32Order.op_i32_gt_u, decode_i32_gt_u), Spec(I32Order.op_i32_le_s, decode_i32_le_s), Spec(I32Order.op_i32_le_u,
                                                                                         decode_i32_le_u),
    Spec(I32OrderExtend.op_i32_ge_s, decode_i32_ge_s), Spec(I32OrderExtend.op_i32_ge_u, decode_i32_ge_u)>>
FloatCompareSpecs ==
  <<Spec(F64Rounding.op_f32_eq, decode_f32_eq), Spec(FloatEquality.op_f32_ne, decode_f32_ne), Spec(ConstsF32Order.op_f32_lt, decode_f32_lt),
    Spec(ConstsF32Order.op_f32_gt, decode_f32_gt), Spec(FloatEquality.op_f32_le, decode_f32_le), Spec(FloatEquality.op_f32_ge, decode_f32_ge),
    Spec(FloatEquality.op_f64_eq, decode_f64_eq), Spec(FloatEquality.op_f64_ne, decode_f64_ne), Spec(FloatEquality.op_f64_lt, decode_f64_lt),
    Spec(F64OrderI32Counts.op_f64_gt, decode_f64_gt), Spec(F64OrderI32Counts.op_f64_le, decode_f64_le), Spec(F64OrderI32Counts.op_f64_ge, decode_f64_ge),
    Spec(TruncF64Sat32.op_i32_trunc_sat_f32_s, decode_i32_trunc_sat_f32_s),
    Spec(TruncF64Sat32.op_i32_trunc_sat_f32_u, decode_i32_trunc_sat_f32_u),
    Spec(TruncF64Sat32.op_i32_trunc_sat_f64_s, decode_i32_trunc_sat_f64_s),
    Spec(Sat64I64Add.op_i32_trunc_sat_f64_u, decode_i32_trunc_sat_f64_u)>>
LoadSpecs(local_base) ==
  <<Spec(op_i32_load, decode_i32_load), Spec(WholeLoads.op_i32_load8_u, decode_i32_load8_u),
    Spec(WholeLoads.op_i32_load8_s, decode_i32_load8_s), Spec(ExtendingLoads.op_i32_load16_u, decode_i32_load16_u),
    Spec(WholeLoads.op_i32_load16_s, decode_i32_load16_s),
    Spec(LocalBaseChains.op_load_local_get4["i32_load"], decode_i32_load_local_get4),
    Spec(LocalBaseChains.op_load_local_get4["i32_load8_u"], decode_i32_load8_u_local_get4),
    Spec(LocalBaseChains.op_load_local_get4["i32_load8_s"], decode_i32_load8_s_local_get4),
    Spec(LocalBaseChains.op_load_local_get4["i32_load16_u"], decode_i32_load16_u_local_get4),
    Spec(LocalBaseChains.op_load_local_get4["i32_load16_s"], decode_i32_load16_s_local_get4),
    Spec(WholeLoads.op_i64_load, decode_i64_load), Spec(ExtendingLoads.op_i64_load8_s, decode_i64_load8_s),
    Spec(ExtendingLoads.op_i64_load8_u, decode_i64_load8_u), Spec(ExtendingLoads.op_i64_load16_s, decode_i64_load16_s),
    Spec(ExtendingLoads.op_i64_load16_u, decode_i64_load16_u), Spec(ExtendingLoads.op_i64_load32_s, decode_i64_load32_s),
    Spec(PlainStores.op_i64_load32_u, decode_i64_load32_u), Spec(ConstBaseLoads.op_f64_load_const_base,
                                                            decode_f64_load_const_base),
    Spec(local_base["f64_load"], decode_f64_load_local_base),
    Spec(local_base["i64_load"], decode_i64_load_local_base),
    Spec(local_base["i64_load8_s"], decode_i64_load8_s_local_base),
    Spec(local_base["i64_load8_u"], decode_i64_load8_u_local_base),
    Spec(local_base["i64_load16_s"], decode_i64_load16_s_local_base),
    Spec(local_base["i64_load16_u"], decode_i64_load16_u_local_base),
    Spec(local_base["i64_load32_s"], decode_i64_load32_s_local_base),
    Spec(local_base["i64_load32_u"], decode_i64_load32_u_local_base),
    Spec(ConstBaseLoads.op_i32_load_const_base, decode_i32_load_const_base),
    Spec(LocalBaseLoads.op_load_tee4_br_if["i32_load"], decode_i32_load_tee4_br_if),
    Spec(EqzBranches.op_load_tee4_i32_eqz_br_if["i32_load"], decode_i32_load_tee4_i32_eqz_br_if),
    Spec(LocalBaseLoads.op_load_tee4_br_if["i32_load8_u"], decode_i32_load8_u_tee4_br_if),
    Spec(EqzBranches.op_load_tee4_i32_eqz_br_if["i32_load8_u"], decode_i32_load8_u_tee4_i32_eqz_br_if),
    Spec(LocalBaseLoads.op_load_tee4_br_if["i32_load8_s"], decode_i32_load8_s_tee4_br_if),
    Spec(EqzBranches.op_load_tee4_i32_eqz_br_if["i32_load8_s"], decode_i32_load8_s_tee4_i32_eqz_br_if),
    Spec(LocalBaseLoads.op_load_tee4_br_if["i32_load16_u"], decode_i32_load16_u_tee4_br_if),
    Spec(EqzBranches.op_load_tee4_i32_eqz_br_if["i32_load16_u"], decode_i32_load16_u_tee4_i32_eqz_br_if),
    Spec(LocalBaseLoads.op_load_tee4_br_if["i32_load16_s"], decode_i32_load16_s_tee4_br_if),
    Spec(EqzBranches.op_load_tee4_i32_eqz_br_if["i32_load16_s"], decode_i32_load16_s_tee4_i32_eqz_br_if)>>
LocalBaseLoadSpecs(local_base) ==
  <<Spec(local_base["i32_load"], decode_i32_load_local_base),
    Spec(LocalBaseLoads.op_load_local_base_set4["i32_load"], decode_i32_load_local_base_set4),
    Spec(LocalBaseLoads.op_load_local_base_set4["i32_load8_u"], decode_i32_load8_u_local_base_set4),
    Spec(IncAndLoad8.op_i32_load8_u_local_base_set4_local_get4, decode_i32_load8_u_local_base_set4_local_get4),
    Spec(LocalBaseLoads.op_load_local_base_set4["i32_load8_s"], decode_i32_load8_s_local_base_set4),
    Spec(LocalBaseLoads.op_load_local_base_set4["i32_load16_u"], decode_i32_load16_u_local_base_set4),
    Spec(LocalBaseLoads.op_load_local_base_set4["i32_load16_s"], decode_i32_load16_s_local_base_set4),
    Spec(LocalBasePairs.op_load_local_base_local_get4["i32_load"], decode_i32_load_local_base_local_get4),
    Spec(LocalBasePairs.op_load_local_base_local_get4["i32_load8_u"], decode_i32_load8_u_local_base_local_get4),
    Spec(LocalBasePairs.op_load_local_base_local_get4["i32_load8_s"], decode_i32_load8_s_local_base_local_get4),
    Spec(LocalBasePairs.op_load_local_base_local_get4["i32_load16_u"], decode_i32_load16_u_local_base_local_get4),
    Spec(LocalBasePairs.op_load_local_base_local_get4["i32_load16_s"], decode_i32_load16_s_local_base_local_get4),
    Spec(local_base["i32_load8_u"], decode_i32_load8_u_local_base),
    Spec(local_base["i32_load8_s"], decode_i32_load8_s_local_base),
    Spec(local_base["i32_load16_u"], decode_i32_load16_u_local_base),
    Spec(local_base["i32_load16_s"], decode_i32_load16_s_local_base),
    Spec(LocalBaseTees.op_load_local_base_tee4["i32_load"], decode_i32_load_local_base_tee4),
    Spec(LocalBaseTees.op_load_local_base_tee4["i32_load8_u"], decode_i32_load8_u_local_base_tee4),
    Spec(LocalBaseTees.op_load_local_base_tee4["i32_load8_s"], decode_i32_load8_s_local_base_tee4),
    Spec(LocalBaseTees.op_load_local_base_tee4["i32_load16_u"], decode_i32_load16_u_local_base_tee4),
    Spec(LocalBaseTees.op_load_local_base_tee4["i32_load16_s"], decode_i32_load16_s_local_base_tee4),
    Spec(LocalBaseTees.op_load_local_base_tee4_local_get4["i32_load"], decode_i32_load_local_base_tee4_local_get4),
    Spec(LocalBaseTees.op_load_local_base_tee4_local_get4["i32_load8_u"],
         decode_i32_load8_u_local_base_tee4_local_get4),
    Spec(LocalBaseTees.op_load_local_base_tee4_local_get4["i32_load8_s"],
         decode_i32_load8_s_local_base_tee4_local_get4),
    Spec(LocalBaseTees.op_load_local_base_tee4_local_get4["i32_load16_u"],
         decode_i32_load16_u_local_base_tee4_local_get4),
    Spec(LocalBaseTees.op_load_local_base_tee4_local_get4["i32_load16_s"],
         decode_i32_load16_s_local_base_tee4_local_get4)>>
LoadThroughSpecs ==
  <<Spec(LocalBasePairs.op_i32_load_local_base_set4_load_local_base["i32_load"],
         decode_i32_load_local_base_set4_i32_load_local_base),
    Spec(LocalBasePairs.op_i32_load_local_base_set4_load_local_base_local_eq_br_if["i32_load"],
         decode_runtime_continuation_stub),
    Spec(LocalBasePairs.op_i32_load_local_base_set4_load_local_base_local_get4["i32_load"],
         decode_runtime_continuation_stub),
    Spec(LocalBasePairs.op_i32_load_local_base_set4_load_local_base["i32_load8_u"],
         decode_i32_load_local_base_set4_i32_load8_u_local_base),
    Spec(LocalBasePairs.op_i32_load_local_base_set4_load_local_base["i32_load8_s"],
         decode_i32_load_local_base_set4_i32_load8_s_local_base),
    Spec(LocalBasePairs.op_i32_load_local_base_set4_load_local_base["i32_load16_u"],
         decode_i32_load_local_base_set4_i32_load16_u_local_base),
    Spec(LocalBasePairs.op_i32_load_local_base_set4_load_local_base["i32_load16_s"],
         decode_i32_load_local_base_set4_i32_load16_s_local_base),
    Spec(LocalBasePairs.op_i32_load_local_base_set4_load_local_base_local_get4["i32_load8_u"],
         decode_i32_load_local_base_set4_i32_load8_u_local_base_local_get4),
    Spec(LocalBasePairs.op_i32_load_local_base_set4_load_local_base_local_eq_br_if["i32_load8_u"],
         decode_i32_load_local_base_set4_i32_load8_u_local_base_local_eq_br_if),
    Spec(LocalBasePairs.op_i32_load_local_base_set4_load_local_base_local_eq_br_if["i32_load8_s"],
         decode_runtime_continuation_stub),
    Spec(LocalBasePairs.op_i32_load_local_base_set4_load_local_base_local_eq_br_if["i32_load16_u"],
         decode_runtime_continuation_stub),
    Spec(LocalBasePairs.op_i32_load_local_base_set4_load_local_base_local_eq_br_if["i32_load16_s"],
         decode_runtime_continuation_stub),
    Spec(LocalBasePairs.op_i32_load_local_base_set4_load_local_base_local_get4["i32_load8_s"],
         decode_i32_load_local_base_set4_i32_load8_s_local_base_local_get4),
    Spec(LocalBasePairs.op_i32_load_local_base_set4_load_local_base_local_get4["i32_load16_u"],
         decode_i32_load_local_base_set4_i32_load16_u_local_base_local_get4),
    Spec(LocalBasePairs.op_i32_load_local_base_set4_load_local_base_local_get4["i32_load16_s"],
         decode_i32_load_local_base_set4_i32_load16_s_local_base_local_get4),
    Spec(SearchLoops.op_i32_load_local_base_set4_i32_load16_u_local_base_local_eq_search_loop,
         decode_i32_load16_u_search_loop),
    Spec(SearchLoopTails.op_i32_load_local_base_set4_i32_load16_u_local_base_local_eq_search_loop_fallthrough,
         decode_i32_load16_u_search_loop_fallthrough),
    Spec(SearchLoopTails.op_i32_load_local_base_set4_i32_load8_u_local_base_local_masked_search_loop,
         decode_i32_load8_u_masked_search_loop),
    Spec(op_i32_load_local_base_set4_i32_load8_u_local_base_local_masked_search_loop_fallthrough, decode_i32_load8_u_masked_search_loop_fallthrough),
    Spec(op_i32_load_store_local_base_reverse_loop, decode_i32_load_store_local_base_reverse_loop),
    Spec(op_i32_load_store_local_base_relink_loop, decode_i32_load_store_local_base_relink_loop),
    Spec(UpdateLoops.op_i32_load16_u_update_store16_local_base_loop,
         decode_i32_load16_u_update_store16_local_base_loop)>>
LoadPairSpecs(scaled_index) ==
  <<Spec(LocalBaseChains.op_load_local_base_local_get4_load["i32_load16_u"],
         decode_i32_load16_u_local_base_local_get4_i32_load16_u),
    Spec(LocalBaseChains.op_load_local_base_local_get4_load_local_get4["i32_load16_u"], decode_runtime_continuation_stub),
    Spec(LocalBaseChains.op_load_local_base_local_get4_load["i32_load16_s"],
         decode_i32_load16_s_local_base_local_get4_i32_load16_s),
    Spec(LocalBaseChains.op_load_local_base_local_get4_load_local_get4["i32_load16_s"], decode_runtime_continuation_stub),
    Spec(op_i32_load_local_base_local_get4_i32_load_tee4_cmp_br_if, decode_i32_load_local_base_local_get4_i32_load_tee4_cmp_br_if),
    Spec(scaled_index["i32_load16_u"], decode_i32_load16_u_local_scaled_index),
    Spec(scaled_index["i32_load16_s"], decode_i32_load16_s_local_scaled_index),
    Spec(scaled_index["i32_load8_u"], decode_i32_load8_u_local_scaled_index),
    Spec(scaled_index["i32_load8_s"], decode_i32_load8_s_local_scaled_index),
    Spec(scaled_index["i32_load"], decode_runtime_continuation_stub),
    Spec(scaled_index["i64_load"], decode_runtime_continuation_stub),
    Spec(SharedLocalBaseOps["i32_load"], decode_runtime_continuation_stub),
    Spec(IndexedLocalBaseOps["i32_load"], decode_runtime_continuation_stub),
    Spec(IndexedSharedLocalBaseOps["i32_load"], decode_runtime_continuation_stub)>>
StoreSpecs(local_base, scaled_index) ==
  <<Spec(PlainStores.op_i32_store, decode_i32_store), Spec(IndexedOps["i32_store"],
                                                      decode_runtime_continuation_stub),
    Spec(IndexedLocalBaseOps["i32_store"], decode_runtime_continuation_stub),
    Spec(IndexedLocalScaledIndexOps["i32_store"], decode_runtime_continuation_stub),
    Spec(PlainStores.op_i32_store8, decode_i32_store8), Spec(PlainStores.op_i32_store16, decode_i32_store16),
    Spec(local_base["i32_store"], decode_i32_store_local_base),
    Spec(local_base["i32_store8"], decode_i32_store8_local_base),
    Spec(local_base["i32_store16"], decode_i32_store16_local_base), Spec(PlainStores.op_i64_store, decode_i64_store),
    Spec(I64NarrowStores.op_i64_store8, decode_i64_store8), Spec(I64NarrowStores.op_i64_store16, decode_i64_store16),
    Spec(I64NarrowStores.op_i64_store32, decode_i64_store32), Spec(local_base["i64_store"], decode_i64_store_local_base),
    Spec(local_base["i64_store8"], decode_i64_store8_local_base),
    Spec(local_base["i64_store16"], decode_i64_store16_local_base),
    Spec(local_base["i64_store32"], decode_i64_store32_local_base),
    Spec(local_base["f64_store"], decode_f64_store_local_base),
    Spec(ConstBaseStores.op_f32_store_const_base_local4, decode_store_const_base_local4),
    Spec(LocalBaseCopies.op_i32_store_local_base_local_get4, decode_i32_store_local_base_local_get4),
    Spec(NarrowPairs.op_i32_store8_local_base_local_get4, decode_i32_store8_local_base_local_get4),
    Spec(NarrowPairs.op_i32_store16_local_base_local_get4, decode_i32_store16_local_base_local_get4),
    Spec(scaled_index["i32_store"], decode_i32_store_local_scaled_index),
    Spec(scaled_index["i32_store8"], decode_i32_store8_local_scaled_index),
    Spec(scaled_index["i32_store16"], decode_i32_store16_local_scaled_index),
    Spec(UpdateLoops.op_i32_inc_local_base, decode_i32_inc_local_base),
    Spec(Load8Updates.op_i32_load_local_base_tee4_i32_load8_u_tee4_br_if,
         decode_i32_load_local_base_tee4_i32_load8_u_tee4_br_if),
    Spec(BulkMemory.op_mem_fill, decode_memory_fill), Spec(BulkMemory.op_mem_copy, decode_memory_copy),
    Spec(LocalBaseCopies.op_scalar_copy_local_base_run, decode_scalar_copy_local_base_run)>>
TestedLoadSpecs ==
  <<Spec(LoadAddBranches.op_i32_load_local_base_tee4_br_if, decode_i32_load_local_base_tee4_br_if),
    Spec(LoadAddBranches.op_i32_load_local_base_tee4_i32_eqz_br_if, decode_i32_load_local_base_tee4_i32_eqz_br_if),
    Spec(LocalBaseLoads.op_load_local_base_tee4_br_if["i32_load8_u"], decode_i32_load8_u_local_base_tee4_br_if),
    Spec(EqzBranches.op_load_local_base_tee4_i32_eqz_br_if["i32_load8_u"],
         decode_i32_load8_u_local_base_tee4_i32_eqz_br_if),
    Spec(LocalBaseLoads.op_load_local_base_tee4_br_if["i32_load8_s"], decode_i32_load8_s_local_base_tee4_br_if),
    Spec(EqzBranches.op_load_local_base_tee4_i32_eqz_br_if["i32_load8_s"],
         decode_i32_load8_s_local_base_tee4_i32_eqz_br_if),
    Spec(LocalBaseLoads.op_load_local_base_tee4_br_if["i32_load16_u"], decode_i32_load16_u_local_base_tee4_br_if),
    Spec(EqzBranches.op_load_local_base_tee4_i32_eqz_br_if["i32_load16_u"],
         decode_i32_load16_u_local_base_tee4_i32_eqz_br_if),
    Spec(LocalBaseLoads.op_load_local_base_tee4_br_if["i32_load16_s"], decode_i32_load16_s_local_base_tee4_br_if),
    Spec(EqzBranches.op_load_local_base_tee4_i32_eqz_br_if["i32_load16_s"],
         decode_i32_load16_s_local_base_tee4_i32_eqz_br_if),
    Spec(Load8Updates.op_local_get4_i32_const_add_set4_i32_load8_u_local_base_tee4_i32_eqz_br_if,
         decode_local_add_set_load8_eqz_br_if)>>
BranchSpecs ==
  <<Spec(BranchOps.op_br, decode_branch), Spec(BranchOps.op_return, decode_branch), Spec(BranchOps.op_br_if, decode_br_if),
    Spec(LocalBranches.op_local_get4_br_if, decode_local_get4_br_if),
    Spec(LocalBranches.op_local_get4_i32_const_add_br_if, decode_local_get4_i32_const_add_br_if),
    Spec(LocalBranches.op_local_get4_local_get4_i32_add_br_if, decode_local_get4_local_get4_i32_add_br_if),
    Spec(LocalBranches.op_local_get4_i32_eqz_br_if, decode_local_get4_i32_eqz_br_if),
    Spec(LocalBranches.op_local_get4_i32_const_compare_br_if, decode_local_get4_i32_const_compare_br_if),
    Spec(LocalBranches.op_local_get4_local_get4_compare_br_if, decode_local_get4_local_get4_compare_br_if),
    Spec(MaskedBranches.op_local_get4_i32_const_and_br_if, decode_local_get4_i32_const_and_br_if),
    Spec(MaskedBranches.op_local_get4_i32_const_and_eqz_br_if, decode_local_get4_i32_const_and_eqz_br_if),
    Spec(MaskedBranches.op_local_get4_i32_const_and_i32_const_compare_br_if,
         decode_local_get4_i32_const_and_i32_const_compare_br_if),
    Spec(LocalBranches.op_local_get4_i32_const_and_tee4_i32_const_eq_br_if,
         decode_local_get4_i32_const_and_tee4_i32_const_eq_br_if),
    Spec(LocalBranches.op_local_get4_set4_local_get4_i32_const_compare_br_if,
         decode_local_get4_set4_local_get4_i32_const_compare_br_if),
    Spec(MaskedBranches.op_local_get4_i32_const_add_i32_const_and_i32_const_compare_br_if,
         decode_local_get4_i32_const_add_i32_const_and_i32_const_compare_br_if),
    Spec(MaskedBranches.op_local_get4_i32_const_add_tee4_br_if, decode_local_get4_i32_const_add_tee4_br_if),
    Spec(BranchTables.op_local_get4_br_table, decode_local_get4_br_table),
    Spec(BranchTables.op_local_get4_i32_const_add_br_table, decode_local_get4_i32_const_add_br_table),
    Spec(op_br_table, decode_br_table)>>
ControlSpecs ==
  <<Spec(BranchTables.op_if, decode_if), Spec(BranchOps.op_else, decode_else), Spec(BranchOps.op_end, decode_end(<<>>, 0)),
    Spec(special_block_return, decode_block_return), Spec(BranchTables.op_loop, decode_loop),
    Spec(BranchTables.special_function_return, decode_function_return)>>
BitStepSpecs ==
  <<Spec(op_i32_select_bit_step4, decode_i32_select_bit_step4),
    Spec(op_i32_select_bit_step4_run, decode_i32_select_bit_step4_run)>>
FenceSpecs ==
  <<Spec(Waits64.op_atomic_fence, decode_atomic_fence), Spec(op_atomic_fence_shared, decode_atomic_fence_shared)>>
FloatHelperSpecs(local_base) ==
  <<Spec(BulkMemory.op_data_drop, decode_data_drop), Spec(op_elem_drop, decode_elem_drop),
    Spec(F32Rounding.op_f32_ceil, decode_f32_ceil), Spec(ExtendConvertF32.op_f32_convert_i32_s, decode_f32_convert_i32_s),
    Spec(ExtendConvertF32.op_f32_convert_i32_u, decode_f32_convert_i32_u), Spec(ExtendConvertF32.op_f32_convert_i64_s,
                                                                   decode_f32_convert_i64_s),
    Spec(ExtendConvertF32.op_f32_convert_i64_u, decode_f32_convert_i64_u), Spec(F32MaxF64Arith.op_f32_copysign, decode_f32_copysign),
    Spec(ConvertF64.op_f32_demote_f64, decode_f32_demote_f64), Spec(F32Rounding.op_f32_floor, decode_f32_floor),
    Spec(WholeLoads.op_f32_load, decode_f32_load), Spec(ConstBaseLoads.op_f32_load_const_base, decode_f32_load_const_base),
    Spec(F32MaxF64Arith.op_f32_max, decode_f32_max), Spec(F32Arith.op_f32_min, decode_f32_min),
    Spec(F32Rounding.op_f32_nearest, decode_f32_nearest), Spec(PlainStores.op_f32_store, decode_f32_store),
    Spec(local_base["f32_store"], decode_runtime_continuation_stub),
    Spec(F64MinI32Wrap.op_f64_copysign, decode_f64_copysign), Spec(WholeLoads.op_f64_load, decode_f64_load),
    Spec(F64MinI32Wrap.op_f64_max, decode_f64_max), Spec(F64MinI32Wrap.op_f64_min, decode_f64_min),
    Spec(ConvertF64.op_f64_promote_f32, decode_f64_promote_f32), Spec(PlainStores.op_f64_store, decode_f64_store)>>
GuardedSpecs(scaled_index) ==
  <<Spec(ConstBaseStores.op_f64_store_const_base_local8, decode_store_const_base_local8),
    Spec(scaled_index["f64_store"], decode_runtime_continuation_stub),
    Spec(Load8Branches.op_i32_guarded_load8_u_local_base_set4_local_get4_set4_local_get4_br_if,
         decode_i32_guarded_load8_update_br_if),
    Spec(Load8Branches.op_i32_guarded_load8_u_local_base_set4_local_get4_set4_local_get4_br_if_false_local_get4_br_table, decode_runtime_continuation_stub),
    Spec(Load8TableBranches.op_i32_guarded_load8_u_local_base_set4_local_get4_set4_local_get4_br_if_taken_const_compare_br_table, decode_runtime_continuation_stub),
    Spec(Load8Branches.op_i32_guarded_load8_u_local_base_set4_local_get4_set4_local_get4_br_if_taken_local_get4_br_table, decode_runtime_continuation_stub),
    Spec(Load8Updates.op_i32_inc_local_base_i32_load8_u_local_base_set4_local_get4_set4_local_get4_br_if,
         decode_runtime_continuation_stub)>>
UpdateSpecs ==
  <<Spec(op_i32_load8_u_local_base_set4_local_get4_set4_local_get4_br_if, decode_i32_load8_update_br_if),
    Spec(Load8TableBranches.op_i32_load8_u_local_base_set4_local_get4_set4_local_get4_br_if_fallthrough_local_get4,
         decode_runtime_continuation_stub),
    Spec(Load8TableBranches.op_i32_load8_u_local_base_set4_local_get4_set4_local_get4_br_if_taken_local_get4,
         decode_runtime_continuation_stub),
    Spec(ConstBaseStores.op_i32_load_const_base_local_get4_i32_add_set4,
         decode_i32_load_const_base_local_get4_i32_add_set4),
    Spec(SearchLoops.op_i32_load_local_base_set4_i32_load8_u_local_base_local_masked_compare_br_if,
         decode_runtime_continuation_stub),
    Spec(LocalBaseCopies.op_i32_load_store_local_base_local_get4, decode_i32_load_store_local_base_local_get4)>>
NormalizeSpecs ==
  <<Spec(F64OrderI32Counts.op_i32_popcnt, decode_i32_popcnt),
    Spec(ConstBaseLoads.op_i32_store_const_base_local4, decode_store_const_base_local4)>>
TruncSpecs ==
  <<Spec(F64MinI32Wrap.op_i32_trunc_f32_s, decode_i32_trunc_f32_s), Spec(Truncations.op_i32_trunc_f32_u, decode_i32_trunc_f32_u),
    Spec(Truncations.op_i32_trunc_f64_s, decode_i32_trunc_f64_s), Spec(Truncations.op_i32_trunc_f64_u, decode_i32_trunc_f64_u),
    Spec(ConstBaseLoads.op_i64_load_const_base, decode_i64_load_const_base),
    Spec(ConstBaseStores.op_i64_store_const_base_local8, decode_store_const_base_local8),
    Spec(Truncations.op_i64_trunc_f32_s, decode_i64_trunc_f32_s), Spec(Truncations.op_i64_trunc_f32_u, decode_i64_trunc_f32_u),
    Spec(TruncF64Sat32.op_i64_trunc_f64_s, decode_i64_trunc_f64_s), Spec(TruncF64Sat32.op_i64_trunc_f64_u, decode_i64_trunc_f64_u),
    Spec(Sat64I64Add.op_i64_trunc_sat_f32_s, decode_i64_trunc_sat_f32_s),
    Spec(Sat64I64Add.op_i64_trunc_sat_f32_u, decode_i64_trunc_sat_f32_u),
    Spec(Sat64I64Add.op_i64_trunc_sat_f64_s, decode_i64_trunc_sat_f64_s),
    Spec(Sat64I64Add.op_i64_trunc_sat_f64_u, decode_i64_trunc_sat_f64_u)>>
VectorSpecs ==
  <<Spec(v128_const, decode_runtime_continuation_stub),
    Spec(Lanes8.op_i8x16_extract_lane_s, decode_i8x16_extract_lane_s),
    Spec(Lanes64AndFloat.f32x4_replace_lane, decode_runtime_continuation_stub),
    Spec(Lanes64AndFloat.f64x2_replace_lane, decode_runtime_continuation_stub),
    Spec(Lanes16And32.i16x8_replace_lane, decode_runtime_continuation_stub),
    Spec(shl_instruction("i16"), decode_runtime_continuation_stub),
    Spec(shr_instruction("i16"), decode_runtime_continuation_stub),
    Spec(Lanes16And32.i32x4_replace_lane, decode_runtime_continuation_stub),
    Spec(shl_instruction("i32"), decode_runtime_continuation_stub),
    Spec(shr_instruction("i32"), decode_runtime_continuation_stub),
    Spec(Lanes64AndFloat.i64x2_replace_lane, decode_runtime_continuation_stub),
    Spec(shl_instruction("i64"), decode_runtime_continuation_stub),
    Spec(shr_instruction("i64"), decode_runtime_continuation_stub),
    Spec(Lanes8.i8x16_replace_lane, decode_runtime_continuation_stub),
    Spec(shl_instruction("i8"), decode_runtime_continuation_stub),
    Spec(shr_instruction("i8"), decode_runtime_continuation_stub),
    Spec(SplatOps.i8x16_shuffle, decode_runtime_continuation_stub),
    Spec(i8x16_swizzle, decode_runtime_continuation_stub)>>
VectorLoadSpecs ==
  <<Spec(op_v128_load(MemoryKind(FALSE, FALSE)), decode_runtime_continuation_stub),
    Spec(op_v128_load(MemoryKind(FALSE, TRUE)), decode_runtime_continuation_stub),
    Spec(op_v128_load(MemoryKind(TRUE, TRUE)), decode_runtime_continuation_stub),
    Spec(op_v128_load(MemoryKind(TRUE, FALSE)), decode_runtime_continuation_stub)>>
IncSpecs ==
  <<Spec(IncAndLoad8.op_local_get4_i32_inc_local_base, decode_local_get4_i32_inc_local_base),
    Spec(IncAndLoad8.op_local_get4_i32_inc_local_base_i32_load8_u_local_base_set4,
         decode_local_get4_i32_inc_local_base_i32_load8_u_local_base_set4),
    Spec(IncAndLoad8.op_local_get4_i32_load8_u_local_base_set4, decode_local_get4_i32_load8_u_local_base_set4),
    Spec(LoadAddBranches.op_local_get4_i32_load_local_base_i32_add_set4,
         decode_local_get4_i32_load_local_base_i32_add_set4),
    Spec(LoadAddBranches.op_local_get4_i32_load_local_base_i32_add_tee4,
         decode_local_get4_i32_load_local_base_i32_add_tee4),
    Spec(LocalRuns.op_local_get4x3_i32_add_const_binop_i32_add_set4,
         decode_local_get4x3_i32_add_const_binop_i32_add_set4),
    Spec(LocalRuns.op_local_get4x3_i32_add_const_binop_i32_add_tee4,
         decode_local_get4x3_i32_add_const_binop_i32_add_tee4),
    Spec(LocalRuns.op_local_get4x3_i32_add_const_binop_i32_add_tee4_i32_const_store,
         decode_local_get4x3_i32_add_const_binop_i32_add_tee4_i32_const_store)>>
BulkSpecs ==
  <<Spec(BulkMemory.op_mem_copy, decode_memory_copy),
    Spec(BulkCopies.op_mem_copy_indexed_local_local, decode_mem_copy_indexed_local_local),
    Spec(BulkCopies.op_mem_copy_indexed_local_shared, decode_mem_copy_indexed_local_shared),
    Spec(BulkCopies.op_mem_copy_indexed_shared_local, decode_mem_copy_indexed_shared_local),
    Spec(BulkFills.op_mem_copy_indexed_shared_shared, decode_mem_copy_indexed_shared_shared),
    Spec(BulkShared.op_mem_copy_shared, decode_mem_copy_shared), Spec(BulkMemory.op_mem_fill, decode_memory_fill),
    Spec(BulkFills.op_mem_fill_indexed_local, decode_mem_fill_indexed_local),
    Spec(BulkFills.op_mem_fill_indexed_shared, decode_mem_fill_indexed_shared),
    Spec(BulkShared.op_mem_fill_shared, decode_mem_fill_shared), Spec(SizeAndGrow.op_mem_grow, decode_mem_grow),
    Spec(SizesAndGrows.op_mem_grow_indexed_local, decode_mem_grow_indexed_local),
    Spec(op_mem_grow_indexed_shared, decode_mem_grow_indexed_shared),
    Spec(SizesAndGrows.op_mem_grow_shared, decode_mem_grow_shared), Spec(BulkMemory.op_mem_init, decode_mem_init),
    Spec(BulkShared.op_mem_init_indexed_local, decode_mem_init_indexed_local),
    Spec(BulkShared.op_mem_init_indexed_shared, decode_mem_init_indexed_shared),
    Spec(BulkMemory.op_mem_init_shared, decode_mem_init_shared), Spec(SizeAndGrow.op_mem_size, decode_mem_size),
    Spec(SizesAndGrows.op_mem_size_indexed_local, decode_mem_size_indexed_local),
    Spec(SizesAndGrows.op_mem_size_indexed_shared, decode_mem_size_indexed_shared),
    Spec(SizesAndGrows.op_mem_size_shared, decode_mem_size_shared)>>
AtomicSpecs ==
  <<Spec(NotifyOps.op_memory_atomic_notify, decode_atomic_notify_local),
    Spec(NotifyOps.op_memory_atomic_notify, decode_atomic_notify_local),
    Spec(NotifyOps.op_memory_atomic_notify_indexed_shared, decode_atomic_notify_indexed_shared),
    Spec(NotifyOps.op_memory_atomic_notify_indexed_unshared, decode_atomic_notify_indexed_local),
    Spec(NotifyOps.op_memory_atomic_notify_shared, decode_atomic_notify_shared),
    Spec(Waits32.op_memory_atomic_wait32, decode_atomic_wait32_local),
    Spec(Waits32.op_memory_atomic_wait32, decode_atomic_wait32_local),
    Spec(Waits32.op_memory_atomic_wait32_indexed_shared, decode_atomic_wait32_indexed_shared),
    Spec(Waits32.op_memory_atomic_wait32_indexed_unshared, decode_atomic_wait32_indexed_local),
    Spec(Waits32.op_memory_atomic_wait32_shared, decode_atomic_wait32_shared),
    Spec(Waits64.op_memory_atomic_wait64, decode_atomic_wait64_local),
    Spec(Waits64.op_memory_atomic_wait64_indexed_shared, decode_atomic_wait64_indexed_shared),
    Spec(Waits64.op_memory_atomic_wait64_indexed_unshared, decode_atomic_wait64_indexed_local),
    Spec(Waits64.op_memory_atomic_wait64_shared, decode_atomic_wait64_shared)>>
TableSpecs ==
  <<Spec(References.op_ref_func, decode_ref_func), Spec(References.op_ref_is_null, decode_ref_is_null),
    Spec(References.op_ref_null, decode_ref_null), Spec(op_table_copy, decode_table_copy),
    Spec(TableSizes.op_table_fill, decode_table_fill), Spec(TableAccess.op_table_get, decode_table_get),
    Spec(TableSizes.op_table_grow, decode_table_grow), Spec(op_table_init, decode_table_init),
    Spec(TableAccess.op_table_set, decode_table_set), Spec(TableSizes.op_table_size, decode_table_size)>>
LastSpecs ==
  <<Spec(op_unreachable, decode_unreachable), Spec(op_v128_bitselect, decode_v128_bitselect)>>

SpecsOver(local_base, scaled_index) ==
  ConstantAndFloatSpecs \o I64Specs \o FusedArithmeticSpecs \o LocalSpecs \o SelectAndI32Specs \o
  FloatCompareSpecs \o LoadSpecs(local_base) \o LocalBaseLoadSpecs(local_base) \o LoadThroughSpecs \o
  LoadPairSpecs(scaled_index) \o StoreSpecs(local_base, scaled_index) \o TestedLoadSpecs \o BranchSpecs \o
  ControlSpecs \o BitStepSpecs \o FenceSpecs \o FloatHelperSpecs(local_base) \o GuardedSpecs(scaled_index) \o
  UpdateSpecs \o NormalizeSpecs \o TruncSpecs \o VectorSpecs \o VectorLoadSpecs \o IncSpecs \o BulkSpecs \o
  AtomicSpecs \o TableSpecs \o LastSpecs
OP_SPECS == SpecsOver(LocalBaseOps, LocalScaledIndexOps)

(* The operation for the j-th instruction of the code: that of the first   *)
(* row with its handler.                                                   *)
DecodersAmong(specs) ==
  [h \in {s.h : s \in Range(specs)} |-> SelectSeq(specs, LAMBDA s : s.h = h)[1].decode]
Decoders == DecodersAmong(OP_SPECS)
DecodeOf(h, decoders) == IF h \in DOMAIN decoders THEN decoders[h] ELSE decode_runtime_continuation_stub
decode_baseline_op(code, j) ==
  CASE code[j].h = op_local_get4 -> decode_local_get4(code, j)
    [] code[j].h = BranchOps.op_end -> decode_end(code, j)
    [] OTHER -> DecodeOf(code[j].h, Decoders)
=============================================================================
