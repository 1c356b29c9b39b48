------------------------------- MODULE Locals -------------------------------
(***************************************************************************)
(* The handlers of locals, drop, select and branches (runtime/vm/locals.rs *)
(* and control.rs) and the superinstructions on locals                     *)
(* (superinstructions.rs).                                                 *)
(***************************************************************************)
EXTENDS HandlerCode

(* Keep the value e in the local slot i names, and on the stack.           *)
Tee(t, i, e) == <<Let("r", e), Push(t, V("r")), Set(i, V("r"))>>
Selected(t) == <<Pop("cond", "u32"), Pop("a", t), Pop("b", t)>>
(* With a condition of 0, what was popped first.                           *)
Chosen == IfZero(V("cond"), V("a"), V("b"))

op_drop == H(1, <<Drop(K(0))>>)
(* The width is in slot 0; the buffer is of 8 bytes, which a slice of 16   *)
(* overruns.                                                               *)
SelectOps ==
  [op_select |->
      LET of(t, else) == <<Either(Minus(K(0), N(Bytes[t])), Selected(t) \o <<Push(t, Chosen)>>, else)>>
      IN H(1, of("u32", of("u64", <<Fail("panic")>>))),
   op_select4 |-> H(0, Selected("u32") \o <<Push("u32", Chosen)>>),
   op_select8 |-> H(0, Selected("u64") \o <<Push("u64", Chosen)>>),
   op_select16 |-> H(0, Selected("u128") \o <<Push("u128", Chosen)>>),
   op_select4_set4 |-> H(1, Selected("u32") \o <<Set(0, Chosen)>>),
   op_select4_tee4 |-> H(1, Selected("u32") \o Tee("u32", 0, Chosen))]
op_local_get4 == H(1, <<Push("u32", L(0))>>)
LocalAccesses ==
  [op_local_get8 |-> H(1, <<Push("u64", L(0))>>),
   op_local_get16 |-> H(1, <<Push("u128", L(0))>>),
   op_local_set4 |-> H(1, <<Pop("v", "u32"), Set(0, V("v"))>>),
   op_local_set8 |-> H(1, <<Pop("v", "u64"), Set(0, V("v"))>>),
   op_local_set16 |-> H(1, <<Pop("v", "u128"), Set(0, V("v"))>>),
   op_local_tee4 |-> H(1, <<Pop("v", "u32")>> \o Tee("u32", 0, V("v"))),
   op_local_tee8 |-> H(1, <<Pop("v", "u64")>> \o Tee("u64", 0, V("v")))]
op_local_tee16 == H(1, <<Pop("v", "u128")>> \o Tee("u128", 0, V("v")))
op_br_table == HGroups(2, 1, 0, 1, <<Pop("index", "u32"), BrTable(V("index"), 0, 1)>>)
BranchOps ==
  [op_end |-> H(0, <<>>),
   op_br |-> H(1, <<Jump(0)>>),
   op_return |-> H(1, <<Jump(0)>>),
   (* Goes on behind the end of the if, which its operand names.              *)
   op_else |-> H(1, <<JumpBehind(0, 1)>>),
   op_br_if |-> H(1, <<Pop("cond", "u32"), BrIf(V("cond"), 0)>>)]
special_block_return == H(1, <<BlockReturn(0)>>)
BranchTables ==
  [op_if |-> H(1, <<Pop("cond", "u32"), BrIf(IsZero(V("cond")), 0)>>),
   op_local_get4_br_table |-> HGroups(3, 1, 1, 1, <<BrTable(L(0), 1, 2)>>),
   op_local_get4_i32_const_add_br_table |-> HGroups(4, 1, 2, 1, <<BrTable(Plus(L(0), K(1)), 2, 3)>>),
   op_loop |-> H(1, <<Check, BlockReturn(0)>>),
   (* Also goes back to the caller, which is left out.                        *)
   special_function_return |-> H(1, <<BlockReturn(0), Let("returned", N(1))>>)]
op_unreachable == H(0, <<Fail("Unreachable")>>)

-----------------------------------------------------------------------------
(***************************************************************************)
(* Operations chosen by a kind: an index, and for some a last bit that     *)
(* tells whether the right operand is a local (0) or a constant (1).       *)
(***************************************************************************)
IntBinops(t, u) ==
  <<<<"wrapping_add", t>>, <<"wrapping_sub", t>>, <<"wrapping_mul", t>>, <<"and", u>>,
    <<"or", u>>, <<"bitxor", u>>, <<"wasm_shl", t>>, <<"wasm_shr_s", t>>, <<"wasm_shr_u", u>>,
    <<"rotate_left", u>>, <<"rotate_right", u>>>>
FloatBinops(f) == <<<<"add", f>>, <<"sub", f>>, <<"mul", f>>, <<"div", f>>>>
IntCmps(t, u) ==
  <<<<"eq", t>>, <<"ne", t>>, <<"lt", t>>, <<"lt", u>>, <<"gt", t>>, <<"gt", u>>,
    <<"le", t>>, <<"le", u>>, <<"ge", t>>, <<"ge", u>>>>
FloatCmps(f) == <<<<"eq", f>>, <<"ne", f>>, <<"lt", f>>, <<"gt", f>>, <<"le", f>>, <<"ge", f>>>>
IntUnary(t) == <<<<"leading_zeros", t>>, <<"trailing_zeros", t>>, <<"count_ones", t>>>>
FloatUnary(f) ==
  <<<<"abs", f>>, <<"neg", f>>, <<"sqrt", f>>, <<"ceil", f>>, <<"floor", f>>, <<"trunc", f>>,
    <<"round_ties_even", f>>>>

LocalOps ==
  [LocalBinop32Op |-> IntBinops("i32", "u32") \o FloatBinops("f32"),
   LocalBinop64Op |-> IntBinops("i64", "u64") \o FloatBinops("f64"),
   LocalCmp32Op |-> IntCmps("i32", "u32") \o FloatCmps("f32"),
   LocalCmp64Op |-> IntCmps("i64", "u64") \o FloatCmps("f64"),
   LocalUnary32Op |-> IntUnary("i32") \o FloatUnary("f32"),
   LocalUnary64Op |-> IntUnary("i64") \o FloatUnary("f64")]
I32CompareOp == IntCmps("i32", "u32")

FromTail ==
  LET over(ops) ==
        [eval_binop32_from_tail |-> ByKind(ops.LocalBinop32Op, 0, 1, L(1), RhsOf(0, 2)),
         eval_binop64_from_tail |-> ByKind(ops.LocalBinop64Op, 0, 1, L(1), RhsOf(0, 2)),
         eval_cmp32_from_tail |-> ByKind(ops.LocalCmp32Op, 0, 1, L(1), RhsOf(0, 2)),
         eval_cmp64_from_tail |-> ByKind(ops.LocalCmp64Op, 0, 1, L(1), RhsOf(0, 2)),
         eval_unary32_from_tail |-> ByKind(ops.LocalUnary32Op, 0, 0, L(1), L(1)),
         eval_unary64_from_tail |-> ByKind(ops.LocalUnary64Op, 0, 0, L(1), L(1)),
         eval_i32_const_binop_from_tail |-> ByKind(ops.LocalBinop32Op, 0, 1, V("lhs"), K(1)),
         eval_i32_const_cmp_from_tail |-> ByKind(ops.LocalCmp32Op, 0, 1, V("lhs"), K(1))]
  IN over(LocalOps)
i32_compare(kind, lhs, rhs) == ByKind(I32CompareOp, kind, 0, lhs, rhs)

ConstAndLocalOps64 ==
  LET over(tail) ==
        [op_i32_const_binop_tee4 |-> H(3, <<Pop("lhs", "u32")>> \o Tee("u32", 2,
                                                                       tail.eval_i32_const_binop_from_tail)),
         op_i32_const_binop_br_if |-> H(3, <<Pop("lhs", "u32"), BrIf(tail.eval_i32_const_binop_from_tail, 2)>>),
         op_i32_const_cmp |-> H(2, <<Pop("lhs", "u32"), Push("u32", tail.eval_i32_const_cmp_from_tail)>>),
         op_i32_const_cmp_set4 |-> H(3, <<Pop("lhs", "u32"), Set(2, tail.eval_i32_const_cmp_from_tail)>>),
         op_i32_const_cmp_tee4 |-> H(3, <<Pop("lhs", "u32")>> \o Tee("u32", 2,
                                                                     tail.eval_i32_const_cmp_from_tail)),
         op_i32_const_cmp_br_if |-> H(3, <<Pop("lhs", "u32"), BrIf(tail.eval_i32_const_cmp_from_tail, 2)>>),
         op_local_binop64 |-> H(3, <<Push("u64", tail.eval_binop64_from_tail)>>),
         op_local_binop64_set8 |-> H(4, <<Set(3, tail.eval_binop64_from_tail)>>),
         op_local_binop64_tee8 |-> H(4, Tee("u64", 3, tail.eval_binop64_from_tail)),
         op_local_cmp32 |-> H(3, <<Push("u32", tail.eval_cmp32_from_tail)>>),
         op_local_cmp32_set4 |-> H(4, <<Set(3, tail.eval_cmp32_from_tail)>>),
         op_local_cmp32_tee4 |-> H(4, Tee("u32", 3, tail.eval_cmp32_from_tail)),
         op_local_cmp32_br_if |-> H(4, <<BrIf(tail.eval_cmp32_from_tail, 3)>>),
         op_local_cmp64 |-> H(3, <<Push("u32", tail.eval_cmp64_from_tail)>>),
         op_local_cmp64_set4 |-> H(4, <<Set(3, tail.eval_cmp64_from_tail)>>)]
  IN over(FromTail)
LocalUnaries ==
  LET over(tail) ==
        [op_local_cmp64_tee4 |-> H(4, Tee("u32", 3, tail.eval_cmp64_from_tail)),
         op_local_cmp64_br_if |-> H(4, <<BrIf(tail.eval_cmp64_from_tail, 3)>>),
         op_local_unary32 |-> H(2, <<Push("u32", tail.eval_unary32_from_tail)>>),
         op_local_unary32_set4 |-> H(3, <<Set(2, tail.eval_unary32_from_tail)>>),
         op_local_unary32_tee4 |-> H(3, Tee("u32", 2, tail.eval_unary32_from_tail)),
         op_local_unary64 |-> H(2, <<Push("u64", tail.eval_unary64_from_tail)>>),
         op_local_unary64_set8 |-> H(3, <<Set(2, tail.eval_unary64_from_tail)>>),
         op_local_unary64_tee8 |-> H(3, Tee("u64", 2, tail.eval_unary64_from_tail))]
  IN over(FromTail)

-----------------------------------------------------------------------------
PushRun == ForGroups(K(0), 1, 1, <<Push("u32", L(0))>>)
MaskedBranches ==
  LET over(tail) ==
        [op_local_binop32 |-> H(3, <<Push("u32", tail.eval_binop32_from_tail)>>),
         op_local_binop32_set4 |-> H(4, <<Set(3, tail.eval_binop32_from_tail)>>),
         op_local_binop32_tee4 |-> H(4, Tee("u32", 3, tail.eval_binop32_from_tail)),
         op_local_binop32_br_if |-> H(4, <<BrIf(tail.eval_binop32_from_tail, 3)>>),
         op_i32_const_binop |-> H(2, <<Pop("lhs", "u32"), Push("u32", tail.eval_i32_const_binop_from_tail)>>),
         op_i32_const_binop_set4 |-> H(3, <<Pop("lhs", "u32"), Set(2, tail.eval_i32_const_binop_from_tail)>>),
         op_local_get4_i32_const_and_br_if |-> H(3, <<BrIf(BitAnd(L(0), K(1)), 2)>>),
         op_local_get4_i32_const_and_eqz_br_if |-> H(3, <<BrIf(F("eq", "i32", BitAnd(L(0), K(1)), N(0)), 2)>>),
         op_local_get4_i32_const_and_i32_const_compare_br_if |->
            H(5, <<BrIf(i32_compare(2, BitAnd(L(0), K(1)), K(3)), 4)>>),
         op_local_get4_i32_const_add_i32_const_and_i32_const_compare_br_if |->
            H(6, <<BrIf(i32_compare(3, BitAnd(Plus(L(0), K(1)), K(2)), K(4)), 5)>>),
         op_local_get4_i32_const_add_tee4_br_if |->
            H(4, <<Let("v", Plus(L(0), K(1))), Set(2, V("v")), BrIf(V("v"), 3)>>)]
  IN over(FromTail)

LocalBranches ==
  [op_local_get4_local_get4_i32_add |-> H(2, <<Push("u32", Plus(L(0), L(1)))>>),
   op_local_get4_local_get4_i32_add_set4 |-> H(3, <<Set(2, Plus(L(0), L(1)))>>),
   op_local_get4_local_get4_i32_add_tee4 |-> H(3, Tee("u32", 2, Plus(L(0), L(1)))),
   op_local_get4_br_if |-> H(2, <<BrIf(L(0), 1)>>),
   op_local_get4_i32_const_add_br_if |-> H(3, <<BrIf(Plus(L(0), K(1)), 2)>>),
   op_local_get4_local_get4_i32_add_br_if |-> H(3, <<BrIf(Plus(L(0), L(1)), 2)>>),
   op_local_get4_i32_eqz_br_if |-> H(2, <<BrIf(F("eq", "i32", L(0), N(0)), 1)>>),
   op_local_get4_i32_const_compare_br_if |-> H(4, <<BrIf(i32_compare(1, L(0), K(2)), 3)>>),
   op_local_get4_local_get4_compare_br_if |-> H(4, <<BrIf(i32_compare(2, L(0), L(1)), 3)>>),
   op_local_get4_i32_const_and_tee4_i32_const_eq_br_if |->
      H(5, <<Let("v", BitAnd(L(0), K(1))), Set(2, V("v")), BrIf(F("eq", "u32", V("v"), K(3)), 4)>>),
   op_local_get4_set4_local_get4_i32_const_compare_br_if |->
      H(6, <<Set(1, L(0)), BrIf(i32_compare(3, L(2), K(4)), 5)>>)]

(***************************************************************************)
(* Superinstructions with a fixed operation.                               *)
(***************************************************************************)
LocalSums ==
  [op_local_get4_i32_const_add |-> H(2, <<Push("u32", Plus(L(0), K(1)))>>),
   op_local_get4_i32_const_add_set4 |-> H(3, <<Set(2, Plus(L(0), K(1)))>>),
   op_local_get4_i32_const_add_tee4 |-> H(3, Tee("u32", 2, Plus(L(0), K(1)))),
   op_local_get4_set4 |-> H(2, <<Set(1, L(0))>>),
   op_local_get4_tee4 |-> H(2, Tee("u32", 1, L(0))),
   op_local_get4_local_get4 |-> H(2, <<Push("u32", L(0)), Push("u32", L(1))>>),
   op_local_get4_local_get4_local_get4 |-> H(3, <<Push("u32", L(0)), Push("u32", L(1)), Push("u32", L(2))>>)]
local_get4x3_add_const_binop_add ==
  Plus(L(0), ByKind(LocalOps.LocalBinop32Op, 3, 1, Plus(L(1), L(2)), K(4)))
LocalRuns ==
  LET over(sum) ==
        [op_local_get4_run |-> HGroups(1, 1, 0, 1, <<PushRun>>),
         op_i32_const_set4 |-> H(2, <<Set(1, K(0))>>),
         op_i32_const_tee4 |-> H(2, Tee("u32", 1, K(0))),
         (* The last operand of these is the number of slots to the next one. *)
         op_local_get4x3_i32_add_const_binop_i32_add_set4 |-> HSkip(6, 0, <<Set(5, sum)>>),
         op_local_get4x3_i32_add_const_binop_i32_add_tee4 |-> HSkip(6, 0, Tee("u32", 5, sum)),
         op_local_get4x3_i32_add_const_binop_i32_add_tee4_i32_const_store |->
            HSkip(8, 0, <<Let("r", sum), Set(5, V("r")), Store("u32", Default, V("r"), 7, K(6))>>),
         op_local_get4_run_skip |-> HSkip(1, 1, <<PushRun>>)]
  IN over(local_get4x3_add_const_binop_add)

-----------------------------------------------------------------------------
(***************************************************************************)
(* One step, or a run of count steps, of a bitwise polynomial.  Slots: tmp, *)
(* poly, source, source_shift, prev, flags, dst.  The mask 0x7fff is all of *)
(* a u16 but its sign bit.                                                  *)
(***************************************************************************)
I32_SELECT_BIT_STEP_MASK_SHIFTED == 1
I32_SELECT_BIT_STEP_EQ_CONDITION == 2
I32_SELECT_BIT_STEP_TEE_DST == 4
Low15 == N(2^(Bits("u16") - 1) - 1)

i32_select_bit_step4_at ==
  LET flag(f) == BitAnd(K(5), N(f))
      either == IfZero(BitAnd(BitXor(V("source"), V("prev")), N(1)), V("shifted"), V("xored"))
      equal == IfZero(Equal(BitAnd(V("prev"), N(1)), V("source")), V("xored"), V("shifted"))
  IN <<Pop("v", "u32"), Let("v", Shr(V("v"), N(1))),
       Let("shifted", IfZero(flag(I32_SELECT_BIT_STEP_MASK_SHIFTED), V("v"), BitAnd(V("v"), Low15))),
       Set(0, V("shifted")),
       Let("source", Shr(L(2), K(3))), Let("prev", L(4)),
       Let("xored", BitXor(V("shifted"), K(1))),
       Let("selected", IfZero(flag(I32_SELECT_BIT_STEP_EQ_CONDITION), either, equal)),
       Push("u32", V("selected")),
       When(flag(I32_SELECT_BIT_STEP_TEE_DST), <<Set(6, V("selected"))>>)>>

op_i32_select_bit_step4 == H(7, i32_select_bit_step4_at)
op_i32_select_bit_step4_run == HGroups(1, 7, 0, 1, <<ForGroups(K(0), 1, 7, i32_select_bit_step4_at)>>)

=============================================================================
