------------------------------ MODULE Baseline ------------------------------
(***************************************************************************)
(* What the x86_64 emitter produces for each operation of the baseline     *)
(* plan (BaselineOpEmitter::emit in runtime/jit/backend/x86_64.rs), in the *)
(* order of the source and under the names of BaselineOp.  The fields of   *)
(* an operation that come from the code are given by the slots they are    *)
(* read from, widths and signs by the type that is read or written.        *)
(***************************************************************************)
EXTENDS Native

(* A destination that is not there.                                        *)
NoSlot == -1
SetUnlessMax(dst, e) == IF dst = NoSlot THEN <<>> ELSE <<Set(dst, e)>>
If1(b, code) == IF b THEN code ELSE <<>>
(* Operands in registers, and an operation on them.                        *)
With(n, code) == <<ensure_stack_slots(n)>> \o code
(* A result that goes through a register, into a local and perhaps stays.  *)
Write4(dst, e, keep_result) ==
  <<Push4(e), Pop("r", "u32")>> \o SetUnlessMax(dst, V("r")) \o If1(keep_result, <<Push4(V("r"))>>)
(* A result that does not pass through the operand registers.              *)
Keep(t, dst, e, keep_result) ==
  <<Let("r", e)>> \o SetUnlessMax(dst, V("r")) \o If1(keep_result, <<Push(t, V("r"))>>)

(***************************************************************************)
(* Two-operand machine instructions on lhs and rhs, with the checks before *)
(* a division.  A left rotation is a right rotation by the negated count.  *)
(***************************************************************************)
emit_reg_binop(op, s, u) ==
  LET lhs == V("lhs")
      rhs == V("rhs")
      is(x, n) == F("eq", u, x, N(n))
      overflow == F("and", "u32", is(lhs, 2^(Bits(u) - 1)), is(rhs, MaxOf(u)))
      trap_if(c) == When(c, <<Fail("InvalidOperand")>>)
      remainder(t) == F("wrapping_sub", u, lhs, F("wrapping_mul", s, F("checked_div", t, lhs, rhs), rhs))
      r(e) == <<Let("r", e)>>
  IN CASE op = "div_s" -> <<trap_if(is(rhs, 0)), trap_if(overflow)>> \o r(F("checked_div", s, lhs, rhs))
       [] op = "div_u" -> <<trap_if(is(rhs, 0))>> \o r(F("checked_div", u, lhs, rhs))
       [] op = "rem_s" -> <<trap_if(is(rhs, 0))>> \o r(IfZero(overflow, remainder(s), N(0)))
       [] op = "rem_u" -> <<trap_if(is(rhs, 0))>> \o r(remainder(u))
       [] op = "rotl" -> r(F("rotate_right", u, lhs, F("wrapping_sub", u, N(0), rhs)))
       [] op \in {"mul", "shl", "shr_s"} ->
            r(F([mul |-> "wrapping_mul", shl |-> "wasm_shl", shr_s |-> "wasm_shr_s"][op], s, lhs, rhs))
       [] OTHER -> r(F([add |-> "wrapping_add", sub |-> "wrapping_sub", and |-> "and", or |-> "or", xor |-> "bitxor",
                        shr_u |-> "wasm_shr_u", rotr |-> "rotate_right"][op], u, lhs, rhs))
PopPair(t) == <<Pop("rhs", t), Pop("lhs", t)>>

I32Const(value) == <<Push4(K(value))>>
I64Const(value) == <<Push("u64", K(value))>>
F32Const(bits) == <<Push("f32", K(bits))>>
F64Const(bits) == <<Push("f64", K(bits))>>
SignExtended(e) == F("low_i32", "i64", e, e)
I64ExtendI32(signed) == With(1, <<Pop("low", "u32"), Push("u64", IF signed THEN SignExtended(V("low")) ELSE V("low"))>>)
I64ExtendS(low) == With(2, Un("i64", low, "i64").code)
I64Eqz == With(2, Un("u64", "is_zero", "u32").code)
I64Unary(fn) == With(2, Un("i64", fn, "i64").code)
I64Binary(op) == With(4, PopPair("u64") \o emit_reg_binop(op, "i64", "u64") \o <<Push("u64", V("r"))>>)
I64Compare(fn, t) == With(4, PopPair("u64") \o <<Push4(F(fn, t, V("lhs"), V("rhs")))>>)
I32WrapI64 == With(2, <<Pop("v", "u64"), Push4(F("wrapping_add", "u32", V("v"), N(0)))>>)
I32ConstWrite4(value, local, keep_result) == Keep("u32", local, K(value), keep_result)
(* Of the first n operations, those on a constant.                         *)
ConstShape(kind, n) == Require(K(kind), {2 * j + 1 : j \in 0 .. n - 1})
emit_i32_const_binop(kind, rhs) == ByKind(LocalOps.LocalBinop32Op, kind, 1, V("lhs"), K(rhs))
emit_i32_const_cmp(kind, rhs) == ByKind(LocalOps.LocalCmp32Op, kind, 1, V("lhs"), K(rhs))
BinopOnConst(kind) == ConstShape(kind, Len(LocalOps.LocalBinop32Op))
(* A comparison of floats has no condition of its own here.                *)
CmpOnConst(kind) == ConstShape(kind, 10)
I32ConstBinop(kind, rhs) ==
  With(1, <<Pop("lhs", "u32"), BinopOnConst(kind), Push4(emit_i32_const_binop(kind, rhs))>>)
(* With more operands in registers the handler is called and the others    *)
(* are loaded again.                                                       *)
BranchOnTop(code, e, target) ==
  <<AtDepth(2, StackRegs, <<call_runtime_continuation_op_reloading_stack(1)>>,
            With(1, <<Pop("lhs", "u32")>> \o code \o <<flush_stack, BrIf(e, target)>>))>>
I32ConstBinopBrIf(kind, rhs, target) ==
  BranchOnTop(<<BinopOnConst(kind), Let("v", emit_i32_const_binop(kind, rhs))>>, V("v"), target)
I32ConstBinopWrite4(kind, rhs, dst, keep_result) ==
  With(1, <<Pop("lhs", "u32"), BinopOnConst(kind)>> \o Keep("u32", dst, emit_i32_const_binop(kind, rhs), keep_result))
I32ConstCmpBrIf(kind, rhs, target) ==
  BranchOnTop(<<CmpOnConst(kind), Let("v", emit_i32_const_cmp(kind, rhs))>>, V("v"), target)
I32ConstCmpWrite4(kind, rhs, dst, keep_result) ==
  With(1, <<Pop("lhs", "u32"), CmpOnConst(kind)>> \o Keep("u32", dst, emit_i32_const_cmp(kind, rhs), keep_result))

-----------------------------------------------------------------------------
(***************************************************************************)
(* Locals and globals.                                                     *)
(***************************************************************************)
Kinded(ops, kind, lhs, rhs) == ByKind(ops, kind, 1, L(lhs), RhsOf(kind, rhs))
emit_local_binop32(kind, lhs, rhs) == Kinded(LocalOps.LocalBinop32Op, kind, lhs, rhs)
emit_local_cmp32(kind, lhs, rhs) == Kinded(LocalOps.LocalCmp32Op, kind, lhs, rhs)
emit_local_cmp64(kind, lhs, rhs) == Kinded(LocalOps.LocalCmp64Op, kind, lhs, rhs)
emit_i64_binop(kind, lhs, rhs) == Kinded(LocalOps.LocalBinop64Op, kind, lhs, rhs)
emit_local_unary32(kind, src) == ByKind(LocalOps.LocalUnary32Op, kind, 0, L(src), L(src))
emit_local_unary64(kind, src) == ByKind(LocalOps.LocalUnary64Op, kind, 0, L(src), L(src))
(* A branch on a value that needs no operands: they are written first.     *)
Branching(code, e, target) == <<FlushIfCached>> \o code \o <<BrIf(e, target)>>
ThroughRegister(e) == <<Push4(e), Pop("r", "u32")>>

LocalBinop32Write4(kind, lhs, rhs, dst, keep_result) == Write4(dst, emit_local_binop32(kind, lhs, rhs), keep_result)
LocalBinop32BrIf(kind, lhs, rhs, target) ==
  Branching(ThroughRegister(emit_local_binop32(kind, lhs, rhs)), V("r"), target)
LocalBinop64(kind, lhs, rhs) == <<Push("u64", emit_i64_binop(kind, lhs, rhs))>>
LocalBinop64Write8(kind, lhs, rhs, dst, keep_result) == Keep("u64", dst, emit_i64_binop(kind, lhs, rhs), keep_result)
LocalCmp32Write4(kind, lhs, rhs, dst, keep_result) == Write4(dst, emit_local_cmp32(kind, lhs, rhs), keep_result)
LocalCmp32BrIf(kind, lhs, rhs, target) ==
  Branching(ThroughRegister(emit_local_cmp32(kind, lhs, rhs)), V("r"), target)
LocalCmp64Write4(kind, lhs, rhs, dst, keep_result) == Write4(dst, emit_local_cmp64(kind, lhs, rhs), keep_result)
LocalCmp64BrIf(kind, lhs, rhs, target) ==
  Branching(ThroughRegister(emit_local_cmp64(kind, lhs, rhs)), V("r"), target)
LocalUnary32Write4(kind, src, dst, keep_result) == Write4(dst, emit_local_unary32(kind, src), keep_result)
LocalUnary64Write8(kind, src, dst, keep_result) == Keep("u64", dst, emit_local_unary64(kind, src), keep_result)
LocalGet4I32ConstAdd(local, value) == <<Push4(Plus(L(local), K(value)))>>
LocalGet4I32ConstAddWrite4(src, value, dst, keep_result) == Write4(dst, Plus(L(src), K(value)), keep_result)
(* Both locals go through registers.                                       *)
PushedPair(lhs, rhs) == <<Push4(L(lhs)), Push4(L(rhs))>> \o PopPair("u32")
LocalGet4LocalGet4I32Add(lhs, rhs) == PushedPair(lhs, rhs) \o <<Push4(Plus(V("lhs"), V("rhs")))>>
LocalGet4LocalGet4I32AddWrite4(lhs, rhs, dst, keep_result) ==
  PushedPair(lhs, rhs) \o Keep("u32", dst, Plus(V("lhs"), V("rhs")), keep_result)
LocalGet4(local) == <<Push4(L(local))>>
LocalGet4Run(count, first) == <<Require(K(count), 4 .. 16), ForGroups(K(count), first, 1, <<Push4(L(0))>>)>>
(* Mutation: the distance is taken from the slot of the last local.        *)
RunSkipOneSlotShort(count, first) == LocalGet4Run(count, first) \o <<SkipInstrSlotsBehind(count, first - 1)>>

LocalGet4RunSkip(count, first) == LocalGet4Run(count, first) \o <<SkipInstrSlotsBehind(count, first)>>
LocalGet8(local) == <<Push("u64", L(local))>>
LocalGet16(local) == <<Push("u128", L(local))>>
GlobalGet4(index) == <<GetGlobal("v", index), Push4(V("v"))>>
GlobalGetSlots(index, t) == <<GetGlobal("v", index), Push(t, V("v"))>>
GlobalSet4(index) == With(1, <<Pop("v", "u32"), SetGlobal(index, V("v"))>>)
GlobalSetSlots(index, t) == With(Cells(t), <<Pop("v", t), SetGlobal(index, V("v"))>>)
DropOp(size) == <<Discard(size)>>
LocalGet4LocalGet4(first, second) == <<Push4(L(first)), Push4(L(second))>>
(* These take slots of the following instructions, where they are found    *)
(* behind their own: slot 2 is the local of the second local.get.          *)
LocalGet4LocalGet4Compare(first, second, fn, t) ==
  <<Push4(F(fn, t, L(first), L(second))), SkipOps(2)>>
LocalGet4LocalGet4ConstShrUTee4Eq(first, second, shift, dst) ==
  <<Let("v", L(first)), Let("w", Shr(L(second), K(shift))), store_local4_from_17(dst, "w"),
    Push4(Equal(V("v"), V("w"))), SkipOps(5)>>
LocalGet4LocalGet4LocalGet4(first, second, third) == <<Push4(L(first)), Push4(L(second)), Push4(L(third))>>
LocalGet4LocalGet4XorTee4Load16U(lhs, rhs, dst, memarg) ==
  ThroughRegister(BitXor(L(lhs), L(rhs)))
    \o <<Set(dst, V("r")), Load("v", "u16", "u32", Default, Shl(BitAnd(V("r"), N(MaxOf("u8"))), N(1)), memarg),
         Push4(V("v"))>>
LocalGet4Write4(src, dst, keep_result) == Write4(dst, L(src), keep_result)
LocalSet4(local) == With(1, <<Pop("v", "u32"), Set(local, V("v"))>>)
LocalSet8(local) == With(2, <<Pop("v", "u64"), Set(local, V("v"))>>)
LocalSet16(local) == With(4, <<Pop("v", "u128"), Set(local, V("v"))>>)
LocalTee4(local) == With(1, <<Pop("v", "u32"), Push4(V("v")), Set(local, V("v"))>>)
LocalTee8(local) == With(2, <<Pop("v", "u64"), Push("u64", V("v")), Set(local, V("v"))>>)
LocalTee16(local) == With(4, <<Pop("v", "u128"), Push("u128", V("v")), Set(local, V("v"))>>)
CSel == <<Pop("cond", "u32"), Pop("rhs", "u32"), Pop("lhs", "u32")>>
Select4(dst, keep_result) ==
  With(3, CSel \o Keep("u32", dst, IfZero(V("cond"), V("rhs"), V("lhs")), keep_result))
(* At most three registers a side.                                         *)
emit_select_slots(t) ==
  IF Cells(t) > 3 THEN <<Reject>>
  ELSE <<Pop("cond", "u32"), Pop("rhs", t), Pop("lhs", t), Push(t, IfZero(V("cond"), V("rhs"), V("lhs")))>>
SelectSlots(t) == With(2 * Cells(t) + 1, emit_select_slots(t))

-----------------------------------------------------------------------------
(***************************************************************************)
(* Arithmetic on operands; floats go through helpers or SSE registers.     *)
(***************************************************************************)
I32Binary(op) == With(2, PopPair("u32") \o emit_reg_binop(op, "i32", "u32") \o <<Push4(V("r"))>>)
I32Unary(fn) == With(1, Un("i32", fn, "i32").code)
I32Eqz == With(1, <<Pop("v", "u32"), Push4(IsZero(V("v")))>>)
I32Compare(fn, t) == With(2, PopPair("u32") \o <<Push4(F(fn, t, V("lhs"), V("rhs")))>>)
F32Compare(fn) == With(2, Infix("f32", fn, "u32").code)
F32Binary(fn) == With(2, Infix("f32", fn, "f32").code)
F32Unary(fn) == With(1, Un("f32", fn, "f32").code)
F64Compare(fn) == With(4, Infix("f64", fn, "u32").code)
F64Binary(fn) == With(4, Infix("f64", fn, "f64").code)
F64Unary(fn) == With(2, Un("f64", fn, "f64").code)
F32ConvertI32(signed) == With(1, Un(IF signed THEN "i32" ELSE "u32", "as", "f32").code)
F32ConvertI64(signed) == With(2, Un(IF signed THEN "i64" ELSE "u64", "as", "f32").code)
F32DemoteF64 == With(2, Un("f64", "as", "f32").code)
F64ConvertI32(signed) == With(1, Un(IF signed THEN "i32" ELSE "u32", "as", "f64").code)
F64ConvertI64(signed) == With(2, Un(IF signed THEN "i64" ELSE "u64", "as", "f64").code)
F64PromoteF32 == With(1, Un("f32", "as", "f64").code)
(* The helpers that truncate (jit_i32_trunc_f32 and the others): one       *)
(* truncates before it compares with the bounds.                           *)
I32(signed) == IF signed THEN "i32" ELSE "u32"
I64(signed) == IF signed THEN "i64" ELSE "u64"
I32TruncSatFloat(source, signed) == With(Cells(source), Un(source, "trunc_as", I32(signed)).code)
I32TruncFloat(source, signed) ==
  With(Cells(source), (IF source = "f32" THEN Trunc("f32", FALSE, "lt", I32(signed))
                       ELSE Trunc("f64", TRUE, "le", I32(signed))).code)
I64TruncFloat(source, signed, saturating) ==
  With(Cells(source), (IF saturating THEN Un(source, "trunc_as", I64(signed))
                       ELSE Trunc(source, FALSE, "lt", I64(signed))).code)

-----------------------------------------------------------------------------
(***************************************************************************)
(* Loads.  n names the access (MemoryOps), from which width and sign come. *)
(***************************************************************************)
inline_i32_load(x, n, a, memarg) == ReadAt(x, n, a, memarg)
load_local_base(x, n, local, delta, memarg) == inline_i32_load(x, n, Plus(L(local), K(delta)), memarg)
(* The two halves of a wide value are loaded one after the other.          *)
PushWide(t, a, memarg) ==
  LET half(x, at) == inline_i32_load(x, "i32_load", at, memarg)
      high(e) == F("wasm_shl", "u64", e, N(Bits("u32")))
      low(x) == IF t \in {"i8", "u8", "i16", "u16"} THEN Load(x, t, "u32", Default, a, memarg) ELSE half(x, a)
  IN IF Bytes[t] = 8
     THEN <<half("low", a), half("high", Plus(a, N(4))), Push("u64", F("or", "u64", V("low"), high(V("high"))))>>
     ELSE <<low("low"), Push("u64", IF IsSigned(t) THEN SignExtended(V("low")) ELSE V("low"))>>
push_i64_load_from_addr(n, a, memarg) == PushWide(Accesses[n].t, a, memarg)

I32Load(n, memarg) == With(1, <<Pop("a", "u32"), inline_i32_load("v", n, V("a"), memarg), Push4(V("v"))>>)
I32LoadLocalGet4(n, memarg, local) == I32Load(n, memarg) \o <<Push4(L(local))>>
I64Load(n, memarg) == With(1, <<Pop("a", "u32")>> \o push_i64_load_from_addr(n, V("a"), memarg))
F64LoadConstBase(memarg) == push_i64_load_from_addr("f64_load", N(0), memarg)
F64LoadLocalBase(local, delta, memarg) == push_i64_load_from_addr("f64_load", Plus(L(local), K(delta)), memarg)
I64LoadLocalBase(n, local, delta, memarg) == push_i64_load_from_addr(n, Plus(L(local), K(delta)), memarg)
I32LoadConstBase(memarg) == <<inline_i32_load("v", "i32_load", N(0), memarg), Push4(V("v"))>>
I32LoadConstBaseLocalGet4I32AddSet4(memarg, rhs, dst) ==
  <<inline_i32_load("v", "i32_load", N(0), memarg), Set(dst, Plus(V("v"), L(rhs)))>>
(* The kinds are those of the interpreter; a distance follows.             *)
I32LoadStoreLocalBaseLocalGet4(kinds, load_memarg, store_addr_local, store_delta, value_local, store_memarg) ==
  <<Pop("a", "u32"), read_i32_scalar_default_at("v", Byte(kinds, 0), V("a"), load_memarg), Push4(V("v")),
    write_i32_scalar_default_at(Byte(kinds, 1), Plus(L(store_addr_local), K(store_delta)), store_memarg, L(value_local)),
    SkipInstrSlots(store_memarg + 1)>>
I32LoadLocalBase(n, local, delta, memarg) == <<load_local_base("v", n, local, delta, memarg), Push4(V("v"))>>
I32LoadLocalBaseSet4(n, local, delta, memarg, dst, keep_result) ==
  <<load_local_base("v", n, local, delta, memarg), Set(dst, V("v"))>> \o If1(keep_result, <<Push4(V("v"))>>)
I32LoadLocalBaseLocalGet4(n, local, delta, memarg, dst, preserved) ==
  I32LoadLocalBase(n, local, delta, memarg) \o SetUnlessMax(dst, V("v")) \o <<Push4(L(preserved))>>
I32LoadLocalBaseSet4LocalGet4(n, local, delta, memarg, dst, preserved) ==
  <<load_local_base("v", n, local, delta, memarg), Set(dst, V("v")), Push4(L(preserved))>>
LocalGet4I32LoadLocalBase(n, preserved, base_local, delta, memarg) ==
  <<Push4(L(preserved))>> \o I32LoadLocalBase(n, base_local, delta, memarg)
(* Slots i to i + 4: base, store and load displacement, load and store     *)
(* memarg.                                                                 *)
inline_i32_store(n, a, memarg, e) == Store(Accesses[n].t, Default, a, memarg, e)
emit_i32_inc_local_base(i) ==
  <<inline_i32_load("v", "i32_load", Plus(L(i), K(i + 2)), i + 3), Let("v", Plus(V("v"), N(1))),
    inline_i32_store("i32_store", Plus(L(i), K(i + 1)), i + 4, V("v"))>>
LocalGet4I32IncLocalBase(preserved, base_local) == <<Push4(L(preserved))>> \o emit_i32_inc_local_base(base_local)
Load8ToLocal(local, delta, memarg, dst) ==
  <<load_local_base("b", "i32_load8_u", local, delta, memarg), Set(dst, V("b"))>>
LocalGet4I32Load8ULocalBaseSet4(preserved, load_base_local, load_delta, load_memarg, dst) ==
  <<Push4(L(preserved))>> \o Load8ToLocal(load_base_local, load_delta, load_memarg, dst)
LocalGet4I32IncLocalBaseI32Load8ULocalBaseSet4(preserved, inc_base_local, load_base_local, load_delta, load_memarg, dst) ==
  <<Push4(L(preserved))>> \o emit_i32_inc_local_base(inc_base_local)
    \o Load8ToLocal(load_base_local, load_delta, load_memarg, dst)
LocalGet4I32LoadLocalBaseI32AddWrite4(rhs, base_local, delta, memarg, dst, keep_result) ==
  <<load_local_base("v", "i32_load", base_local, delta, memarg)>> \o Keep("u32", dst, Plus(V("v"), L(rhs)), keep_result)
emit_local_get4x3_add_const_binop_add(first, second, third, kind, rhs) ==
  Plus(ByKind(LocalOps.LocalBinop32Op, kind, 1, Plus(L(second), L(third)), K(rhs)), L(first))
LocalGet4x3I32AddConstBinopI32AddWrite4(first, second, third, kind, rhs, dst, skip_slots, keep_result) ==
  <<BinopOnConst(kind)>>
    \o Keep("u32", dst, emit_local_get4x3_add_const_binop_add(first, second, third, kind, rhs), keep_result)
    \o <<SkipInstrSlots(skip_slots)>>
LocalGet4x3I32AddConstBinopI32AddTee4I32ConstStore(first, second, third, kind, rhs, dst, value, memarg, skip_slots) ==
  <<BinopOnConst(kind), Let("r", emit_local_get4x3_add_const_binop_add(first, second, third, kind, rhs)), Set(dst, V("r")),
    inline_i32_store("i32_store", V("r"), memarg, K(value)), SkipInstrSlots(skip_slots)>>
LoadAddressThenField(n, first_base_local, first_delta, first_memarg, dst, second_delta, second_memarg) ==
  <<load_local_base("addr", "i32_load", first_base_local, first_delta, first_memarg), Set(dst, V("addr")),
    inline_i32_load("v", n, Plus(V("addr"), K(second_delta)), second_memarg)>>
I32LoadLocalBaseSet4I32LoadLocalBase(n, first_base_local, first_delta, first_memarg, dst, second_delta,
                                     second_memarg, preserved) ==
  LoadAddressThenField(n, first_base_local, first_delta, first_memarg, dst, second_delta, second_memarg)
    \o <<Push4(V("v"))>> \o If1(preserved # NoSlot, <<Push4(L(preserved))>>)
NoneCached == Unless(0, 0)
I32LoadLocalBaseSet4I32LoadLocalBaseEqBrIf(n, first_base_local, first_delta, first_memarg, dst, second_delta,
                                           second_memarg, rhs, target) ==
  <<NoneCached>>
    \o LoadAddressThenField(n, first_base_local, first_delta, first_memarg, dst, second_delta, second_memarg)
    \o <<BrIf(Equal(V("v"), L(rhs)), target)>>

(* Loops, without a checkpoint and on the values in registers.             *)
emit_search_loop(n, width, compare, next, match_target, miss) ==
  <<Let("rhs", BitAnd(L(6), N(MaxOf(width)))), Let("node", L(0)),
    Loop(<<ReadU32("data", Plus(V("node"), K(1)), 2), Set(3, V("data")),
           inline_i32_load("value", n, Plus(V("data"), K(4)), 5), BrIf(compare, match_target),
           ReadU32("next", Plus(V("node"), K(next)), next + 1), Set(0, V("next"))>>
         \o miss \o <<Let("node", V("next"))>>)>>
MissTo(target) == <<BrIf(IsZero(V("next")), target)>>
MissFallsThrough == <<BreakIf(IsZero(V("next")))>>
I32LoadLocalBaseSet4SearchLoop(n, width, compare, next, match_target, miss) ==
  emit_search_loop(n, width, compare, next, match_target, miss)
emit_reverse_loop(prev_local, saved_local, cursor_local, load_memarg, store_memarg) ==
  <<Let("prev", L(prev_local)), Let("cursor", L(cursor_local)),
    Loop(<<Set(saved_local, V("prev")), Set(prev_local, V("cursor")), ReadU32("next", V("cursor"), load_memarg),
           Set(cursor_local, V("next")), inline_i32_store("i32_store", V("cursor"), store_memarg, V("prev")),
           BreakIf(IsZero(V("next"))), Let("prev", V("cursor")), Let("cursor", V("next"))>>)>>
I32LoadStoreLocalBaseReverseLoop(prev_local, saved_local, cursor_local, load_memarg, store_memarg) ==
  emit_reverse_loop(prev_local, saved_local, cursor_local, load_memarg, store_memarg)
emit_relink_loop(cursor_local, current_local, prev_local, load_memarg, store_memarg) ==
  <<Let("cursor", L(cursor_local)),
    Loop(<<Set(current_local, V("cursor")), ReadU32("next", V("cursor"), load_memarg), Set(cursor_local, V("next")),
           Let("prev", L(prev_local)), inline_i32_store("i32_store", V("cursor"), store_memarg, V("prev")),
           Set(prev_local, V("cursor")), BreakIf(IsZero(V("next"))), Let("cursor", V("next"))>>)>>
I32LoadStoreLocalBaseRelinkLoop(cursor_local, current_local, prev_local, load_memarg, store_memarg) ==
  emit_relink_loop(cursor_local, current_local, prev_local, load_memarg, store_memarg)
emit_update_store16_loop ==
  LET word == IfZero(BitAnd(K(0), N(1)), Plus(V("v"), V("scalar")), Minus(V("v"), V("scalar")))
  IN <<Let("ptr", L(1)), Let("scalar", L(2)), Let("counter", L(3)),
       Loop(<<inline_i32_load("v", "i32_load16_u", Plus(V("ptr"), K(4)), 6),
              inline_i32_store("i32_store16", Plus(V("ptr"), K(5)), 7, word),
              Let("ptr", Plus(V("ptr"), N(2))), Set(1, V("ptr")),
              Let("counter", Minus(V("counter"), N(1))), Set(3, V("counter")), BreakIf(IsZero(V("counter")))>>)>>
I32Load16UpdateStore16LocalBaseLoop == emit_update_store16_loop
I32LoadLocalBaseLocalGet4I32Load(n, first_base_local, first_delta, first_memarg, second_addr_local, second_memarg) ==
  I32LoadLocalBase(n, first_base_local, first_delta, first_memarg)
    \o <<inline_i32_load("w", n, L(second_addr_local), second_memarg), Push4(V("w"))>>
(* The kinds of the loads and of the comparison are packed in slot 0.      *)
I32LoadLocalBaseLocalGet4I32LoadCmpBrIf ==
  <<NoneCached, read_i32_scalar_default_at("v", Byte(0, 0), Plus(L(1), K(2)), 3), Set(4, V("v")),
    read_i32_scalar_default_at("w", Byte(0, 1), L(5), 6), store_local4_from_17(7, "w"),
    BrIf(compare_i32_scalar(Byte(0, 2), V("v"), V("w")), 8)>>
load_local_scaled_index_addr == Plus(Plus(L(0), Shl(L(1), K(2))), K(3))
I32LoadLocalScaledIndex(n) ==
  <<Require(K(2), 0 .. Bits("u32") - 1), inline_i32_load("v", n, load_local_scaled_index_addr, 4), Push4(V("v"))>>

-----------------------------------------------------------------------------
(***************************************************************************)
(* Stores.  A wide one checks the whole range before it writes the halves. *)
(***************************************************************************)
I32Store(n, memarg) ==
  With(2, <<Pop("v", "u32"), Pop("a", "u32"), inline_i32_store(n, V("a"), memarg, V("v"))>>)
I64Store(n, memarg) ==
  With(3, <<Pop("v", "u64"), Pop("a", "u32"), inline_i32_store(n, V("a"), memarg, V("v"))>>)
I64StoreLocalBase(n, base_local, delta, memarg) ==
  With(2, <<Pop("v", "u64"), inline_i32_store(n, Plus(L(base_local), K(delta)), memarg, V("v"))>>)
F64StoreLocalBase(base_local, delta, memarg) == I64StoreLocalBase("f64_store", base_local, delta, memarg)
StoreConstBaseLocal4(memarg, local) == <<inline_i32_store("i32_store", N(0), memarg, L(local))>>
StoreConstBaseLocal8(memarg, local) == <<inline_i32_store("i64_store", N(0), memarg, L(local))>>
I32StoreLocalBaseLocalGet4(n, addr_local, delta, value_local, memarg) ==
  <<inline_i32_store(n, Plus(L(addr_local), K(delta)), memarg, L(value_local))>>
i32_store_local_base_from_vm_stack(n) ==
  <<Offset(Plus(L(0), K(1)), 2), Pop("v", "u32"), inline_i32_store(n, Plus(L(0), K(1)), 2, V("v"))>>
I32StoreLocalBase(n, base_local, delta, memarg) ==
  <<AtDepth(0, 0, <<Helper(i32_store_local_base_from_vm_stack(n))>>,
            <<Pop("v", "u32"), inline_i32_store(n, Plus(L(base_local), K(delta)), memarg, V("v"))>>)>>
I32StoreLocalScaledIndex(n) ==
  <<Pop("v", "u32"), Require(K(2), 0 .. Bits("u32") - 1), inline_i32_store(n, load_local_scaled_index_addr, 4, V("v"))>>
I32IncLocalBase(base_local) == emit_i32_inc_local_base(base_local)
(* Slots of a lane: destination, source, memargs of the load and the store.*)
CopyLane(t) == <<Load("v", t, t, Default, Plus(V("src"), K(1)), 2), Store(t, Default, Plus(V("dst"), K(0)), 3, V("v"))>>
ScalarCopyLocalBaseRun(kind, dst_base_local, src_base_local, lanes) ==
  LET run(t) == <<ForGroups(Byte(kind, 1), lanes, 4, CopyLane(t))>>
      when(w, t, else) == <<IfSlotZero(Minus(Byte(kind, 0), N(w)), run(t), else)>>
  IN <<Require(Byte(kind, 0), {1, 2, 4}), Require(Byte(kind, 1), 1 .. 16),
       Let("dst", L(dst_base_local)), Let("src", L(src_base_local))>>
     \o when(1, "u8", when(2, "u16", run("u32")))
(* The byte at the loaded pointer decides.                                 *)
I32LoadLocalBaseTeeLoad8UTeeBrIf ==
  <<NoneCached, load_local_base("ptr", "i32_load", 0, 1, 2), Set(3, V("ptr")),
    inline_i32_load("b", "i32_load8_u", V("ptr"), 4), Set(5, V("b")), BrIf(V("b"), 6), SkipNextOp>>
Tested(eqz, e) == IF eqz THEN IsZero(e) ELSE e
I32LoadTee4BrIf(n, memarg, dst, eqz, target) ==
  <<Unless(1, 1), Pop("a", "u32"), inline_i32_load("v", n, V("a"), memarg), Set(dst, V("v")),
    BrIf(Tested(eqz, V("v")), target)>>
I32LoadLocalBaseTee4BrIf(n, base_local, delta, memarg, dst, eqz, target) ==
  <<NoneCached, load_local_base("v", n, base_local, delta, memarg), Set(dst, V("v")),
    BrIf(Tested(eqz, V("v")), target)>>
(* A byte, the pointer's next value, and the local the branch is on.       *)
Load8ThenAdvance(i) ==
  <<load_local_base("b", "i32_load8_u", i, i + 1, i + 2), Set(i + 3, V("b")),
    Let("p", L(i + 4)), store_local4_from_17(i + 5, "p")>>
I32GuardedLoad8UpdateBrIf ==
  <<NoneCached, Set(2, Plus(L(0), K(1))),
    BrIf(IsZero(ByKind(IntegerCmp32, 3, 1, L(4), RhsOf(3, 5))), 6)>>
    \o Load8ThenAdvance(7) \o <<BrIf(L(13), 14), Jump(6)>>
I32Load8UpdateBrIf == <<NoneCached>> \o Load8ThenAdvance(0) \o <<BrIf(L(6), 7)>>
LocalAddSetLoad8EqzBrIf ==
  <<NoneCached, Set(2, Plus(L(0), K(1))), load_local_base("b", "i32_load8_u", 3, 4, 5),
    store_local4_from_17(6, "b"), BrIf(IsZero(V("b")), 7), SkipNextOp>>

-----------------------------------------------------------------------------
(* Memory as a whole, through helpers that take their operands in          *)
(* registers.                                                              *)
memory_fill == WholeMemory("r", "fill", Default, <<V("ptr"), V("len"), V("data")>>)
memory_copy == WholeMemory("r", "copy", Default, <<V("dst"), V("src"), V("len")>>)
memory_size(mem) == WholeMemory("pages", "page_size", mem, <<>>)
memory_grow(mem) == WholeMemory("result", "grow", mem, <<V("delta")>>)
MemoryFill == <<Pop("len", "u32"), Pop("data", "u32"), Pop("ptr", "u32"), memory_fill>>
MemoryCopy == <<Pop("len", "u32"), Pop("src", "u32"), Pop("dst", "u32"), memory_copy>>
MemorySize(mem) == <<memory_size(mem), Push4(V("pages"))>>
MemoryGrow(mem) == With(1, <<Pop("delta", "u32"), memory_grow(mem), Push4(V("result"))>>)

-----------------------------------------------------------------------------
(***************************************************************************)
(* Control.  Before a branch the operands are written to the VM stack.     *)
(***************************************************************************)
Branch(target) == <<flush_stack, Jump(target)>>
inline_pop_i32(x) == Helper(<<Pop(x, "u32")>>)
BrIfOp(target) ==
  <<AtDepth(0, 0, <<inline_pop_i32("cond"), BrIf(V("cond"), target)>>,
     <<AtDepth(1, 1, <<Pop("cond", "u32"), FlushIfCached, BrIf(V("cond"), target)>>,
                     <<call_runtime_continuation_op_reloading_stack(1)>>)>>)>>
LocalGet4BrIf(local, target) == Branching(<<>>, L(local), target)
LocalGet4I32ConstAddBrIf(local, imm, target) == Branching(<<>>, Plus(L(local), K(imm)), target)
LocalGet4LocalGet4I32AddBrIf(lhs, rhs, target) == Branching(<<>>, Plus(L(lhs), L(rhs)), target)
LocalGet4I32EqzBrIf(local, target) == Branching(<<>>, IsZero(L(local)), target)
LocalGet4I32ConstCompareBrIf(local, kind, rhs, target) == Branching(<<>>, i32_compare(kind, L(local), K(rhs)), target)
LocalGet4LocalGet4CompareBrIf(lhs, rhs, kind, target) == Branching(<<>>, i32_compare(kind, L(lhs), L(rhs)), target)
LocalGet4I32ConstAndBrIf(local, mask, eqz, target) == Branching(<<>>, Tested(eqz, BitAnd(L(local), K(mask))), target)
LocalGet4I32ConstAndI32ConstCompareBrIf(local, mask, kind, rhs, target) ==
  Branching(<<>>, i32_compare(kind, BitAnd(L(local), K(mask)), K(rhs)), target)
LocalGet4I32ConstAndTee4I32ConstEqBrIf(local, mask, dst, rhs, target) ==
  Branching(<<Let("v", BitAnd(L(local), K(mask))), Set(dst, V("v"))>>, Equal(V("v"), K(rhs)), target)
LocalGet4Set4LocalGet4I32ConstCompareBrIf(copy_src, copy_dst, lhs, kind, rhs, target) ==
  Branching(<<Set(copy_dst, L(copy_src))>>, i32_compare(kind, L(lhs), K(rhs)), target)
LocalGet4I32ConstAddI32ConstAndI32ConstCompareBrIf(local, imm, mask, kind, rhs, target) ==
  Branching(<<>>, i32_compare(kind, BitAnd(Plus(L(local), K(imm)), K(mask)), K(rhs)), target)
LocalGet4I32ConstAddTee4BrIf(src, imm, dst, target) ==
  Branching(<<Let("v", Plus(L(src), K(imm))), Set(dst, V("v"))>>, V("v"), target)
branch_table(e, count, first) == <<BrTable(e, count, first), SkipNextOp>>
LocalGet4BrTable(e, count, first) == <<FlushIfCached>> \o branch_table(e, count, first)
BrTableOp(count, first) ==
  <<AtDepth(1, 1, <<Pop("index", "u32")>> \o branch_table(V("index"), count, first), <<call_runtime_continuation_op>>)>>
IfOp(else_target) == With(1, <<Pop("cond", "u32"), flush_stack, BrIf(IsZero(V("cond")), else_target)>>)
ElseOp(target) == <<flush_stack, JumpBehind(target, 1)>>
(* Slot i packs where the operands of the block begin and what it keeps.   *)
emit_block_return_native(i) == <<flush_stack, BlockReturn(i)>>
LoopOp(param) == <<IfSlotZero(Byte(param, 0), <<FlushIfCached>>, emit_block_return_native(param))>>
End(next_is_function_return, next_resets_stack) ==
  IF next_is_function_return THEN <<>>
  ELSE IF next_resets_stack THEN <<Forget>> ELSE <<FlushIfCached>>
BlockReturnOp(block_return) ==
  <<IfSlotZero(Byte(block_return, 0), <<FlushIfCached>>, emit_block_return_native(block_return)), Forget>>
FunctionReturn(return_size) == <<flush_stack, Helper(<<BlockReturn(return_size)>>)>>
(* A step, or a run of steps, by a helper that works on the VM stack.      *)
I32SelectBitStep4 == <<Around(0, i32_select_bit_step4_at)>>
I32SelectBitStep4Run == <<Around(0, <<ForGroups(K(0), 1, 7, i32_select_bit_step4_at)>>)>>
DirectCall(params, results) == <<CallReloading(params, results)>>
(* The index into the table is consumed too.                               *)
IndirectCall(params, results) == <<CallReloading(params + 1, results)>>
AtomicFence == <<>>
RefNull == <<Push4(N(0))>>
RefIsNull == <<Pop("v", "u32"), Push4(IsZero(V("v")))>>
RefFunc(funcidx) == <<GetFunc("f", funcidx), Push4(V("f"))>>
TrapOp(result) == <<Fail(result), Forget>>
call_runtime_stack_op(kind, push_slots) == <<flush_stack, RuntimeHelper(kind), reload_stack_slots(push_slots)>>
RuntimeStub(kind, push_slots) == call_runtime_stack_op(kind, push_slots)
RuntimeContinuationStub == <<call_runtime_continuation_op>>
=============================================================================
