------------------------------- MODULE Select -------------------------------
(***************************************************************************)
(* The fusions of locals, constants, arithmetic, branches, memory accesses *)
(* and select, one definition for each specification of the optimizer's    *)
(* select pass (parser/core/optimizer/pipeline/select.rs), with its name,  *)
(* and the patterns they are written with.  An item of a pattern is a      *)
(* family of handlers and their keys, a name for the key of the one that   *)
(* is found, and names for its operands; the same name means the same      *)
(* value.  A phrase has                                                    *)
(*   pat    the items to match                                             *)
(*   fixed  names with a known value                                       *)
(*   calc   names for values computed from the others                      *)
(* Phrases come in sets, the alternatives of one match.                    *)
(***************************************************************************)
EXTENDS FusedMemory

Item(hs, key, xs) == [hs |-> hs, key |-> key, x |-> xs]
Phrase(pat, fixed, calc) == [pat |-> pat, fixed |-> fixed, calc |-> calc]
OneOf(key, hs, xs) == {Phrase(<<Item({<<hs[k], k>> : k \in DOMAIN hs}, key, xs)>>, <<>>, <<>>)}
Single == "-"
Inst(h, xs) == OneOf(Single, Single :> h, xs)
Fixed(x, v) == {Phrase(<<>>, x :> v, <<>>)}
Then(A, B) ==
  {Phrase(a.pat \o b.pat, a.fixed @@ b.fixed, a.calc \o b.calc) : a \in A, b \in B}
Many(phrases) == FoldLeft(Then, {Phrase(<<>>, <<>>, <<>>)}, phrases)

(* Computed values: a sum as u32, numbers packed into bytes, and the kind  *)
(* of an operation with the shape of its right operand.                    *)
Sum32(x, a, b) == {Phrase(<<>>, <<>>, <<[x |-> x, by |-> "sum", of |-> <<a, b>>]>>)}
Pack(x, parts) == {Phrase(<<>>, <<>>, <<[x |-> x, by |-> "pack", of |-> parts]>>)}
LocalRhs(x, kind) == {Phrase(<<>>, <<>>, <<[x |-> x, by |-> "local rhs", of |-> <<kind>>]>>)}
ConstRhs(x, kind) == {Phrase(<<>>, <<>>, <<[x |-> x, by |-> "const rhs", of |-> <<kind>>]>>)}

(* The instructions that occur in many patterns.                           *)
get(a) == Inst(op_local_get4, <<a>>)
set(a) == Inst(LocalAccesses.op_local_set4, <<a>>)
tee(a) == Inst(LocalAccesses.op_local_tee4, <<a>>)
const(k) == Inst(I32SumI64Counts.op_i32_const, <<k>>)
value(x, v) == Many(<<const(x), Fixed(x, v)>>)
add == Inst(I32SumI64Counts.op_i32_add, <<>>)
and == Inst(RemI32Logic.op_i32_and, <<>>)
xor == Inst(RemI32Logic.op_i32_xor, <<>>)
eqz == Inst(I64Shifts.op_i32_eqz, <<>>)
br_if(t) == Inst(BranchOps.op_br_if, <<t>>)

(***************************************************************************)
(* A rule: a phrase, what a match is worth, its group, the operations it   *)
(* emits, and what may not follow it.                                      *)
(***************************************************************************)
LocalControl == 0
CallSelect == 1
Memory == 2
Rules(group, cost, A, out) ==
  {a @@ [group |-> group, cost |-> cost, out |-> out, unless |-> {}] : a \in A}
Unless(R, hs) == {[r EXCEPT !.unless = hs] : r \in R}
Emit(h, xs) == <<Item(Single :> h, Single, xs)>>
EmitBy(key, hs, xs) == <<Item(hs, key, xs)>>

-----------------------------------------------------------------------------
(* Matching: the values of the names, or ok = FALSE.                       *)
same_raw_operand(env, x, v) == x \in DOMAIN env => env[x] = v
BindName(b, x, v) ==
  IF b.ok /\ same_raw_operand(b.env, x, v) THEN [b EXCEPT !.env = (x :> v) @@ @]
  ELSE [b EXCEPT !.ok = FALSE]
BindItem(b, item, i) ==
  LET keys == {p[2] : p \in {q \in item.hs : q[1] = i.h}}
  IN IF ~b.ok \/ keys = {} \/ Len(item.x) > Len(i.imm) THEN [b EXCEPT !.ok = FALSE]
     ELSE FoldLeft(LAMBDA d, k : BindName(d, item.x[k], i.imm[k]),
                   IF item.key = Single THEN b ELSE BindName(b, item.key, CHOOSE k \in keys : TRUE),
                   [k \in 1 .. Len(item.x) |-> k])
HandlersMatch(p, code, c) ==
  /\ c + Len(p.pat) - 1 <= Len(code)
  /\ \A i \in 1 .. Len(p.pat) : \E q \in p.pat[i].hs : q[1] = code[c + i - 1].h
Bindings(p, code, c) ==
  IF ~HandlersMatch(p, code, c) THEN [ok |-> FALSE, env |-> <<>>]
  ELSE FoldLeft(LAMBDA b, i : BindItem(b, p.pat[i], code[c + i - 1]),
                [ok |-> TRUE, env |-> p.fixed], [i \in 1 .. Len(p.pat) |-> i])

Calculated(by, xs) ==
  CASE by = "sum" -> Wrap(Bits("u32"), xs[1] + xs[2])
    [] by = "pack" -> FoldLeft(LAMBDA n, i : n + xs[i] * 256^(i - 1), 0, [i \in 1 .. Len(xs) |-> i])
    [] by = "local rhs" -> 2 * xs[1]
    [] by = "const rhs" -> 2 * xs[1] + 1
WithCalc(calc, env) ==
  FoldLeft(LAMBDA e, d : (d.x :> Calculated(d.by, [i \in 1 .. Len(d.of) |-> e[d.of[i]]])) @@ e, env, calc)

Emitted(out, env) ==
  [j \in 1 .. Len(out) |->
     I(out[j].hs[IF out[j].key = Single THEN Single ELSE env[out[j].key]],
       [k \in 1 .. Len(out[j].x) |-> env[out[j].x[k]]])]
-----------------------------------------------------------------------------

(* Mutation: strict and weak comparisons are exchanged.                    *)
FlipToNegation(kind) == <<0, 1, 8, 9, 6, 7, 4, 5, 2, 3>>[kind + 1]

flip_i32_compare_kind(kind) == <<0, 1, 4, 5, 2, 3, 8, 9, 6, 7>>[kind + 1]
(* Arithmetic on locals and constants, by kind; integers come first.       *)
IndexFrom0(s) == [k \in 0 .. (Len(s) - 1) |-> s[k + 1]]
(* The comparisons of i32, and those that hold with the operands swapped.  *)
i32_compare_kind ==
  LET over(ops) == IndexFrom0(<<ops.op_i32_eq, ops.op_i32_ne, ops.op_i32_lt_s, ops.op_i32_lt_u, ops.op_i32_gt_s,
                                ops.op_i32_gt_u, ops.op_i32_le_s, ops.op_i32_le_u, ops.op_i32_ge_s, ops.op_i32_ge_u>>)
  IN over(I64OrderI32Equality @@ I32Order @@ I32OrderExtend)
i32_scalar_load_kind ==
  LET over(ops) == IndexFrom0(<<op_i32_load, ops.op_i32_load8_s, ops.op_i32_load8_u, ops.op_i32_load16_s,
                                ops.op_i32_load16_u>>)
  IN over(WholeLoads @@ ExtendingLoads)
i32_scalar_store_kind ==
  LET over(ops) == IndexFrom0(<<ops.op_i32_store, ops.op_i32_store8, ops.op_i32_store16>>) IN over(PlainStores)
Compare == OneOf("kind", i32_compare_kind, <<>>)
FlippedCompare == OneOf("kind", [k \in 0 .. 9 |-> i32_compare_kind[flip_i32_compare_kind(k)]], <<>>)

(* Runs of local.get, of 2 to 8.                                           *)
RunNames == <<"a1", "a2", "a3", "a4", "a5", "a6", "a7", "a8">>
LocalGet4RunSpec(n) ==
  Rules(LocalControl, 10 * n,
        Many([i \in 1 .. n |-> get(RunNames[i])] \o <<Fixed("count", n)>>),
        CASE n = 2 -> Emit(LocalSums.op_local_get4_local_get4, SubSeq(RunNames, 1, 2))
          [] n = 3 -> Emit(LocalSums.op_local_get4_local_get4_local_get4, SubSeq(RunNames, 1, 3))
          [] OTHER -> Emit(LocalRuns.op_local_get4_run, <<"count">> \o SubSeq(RunNames, 1, n)))

CopySpecs ==
  [LocalGet4CopySpec |->
      Rules(LocalControl, 18, Many(<<get("a"), set("d")>>), Emit(LocalSums.op_local_get4_set4, <<"a", "d">>))
        \cup Rules(LocalControl, 18, Many(<<get("a"), tee("d")>>), Emit(LocalSums.op_local_get4_tee4, <<"a", "d">>)),
   I32ConstCopySpec |->
      Rules(LocalControl, 18, Many(<<const("k"), set("d")>>), Emit(LocalRuns.op_i32_const_set4, <<"k", "d">>))
        \cup Rules(LocalControl, 18, Many(<<const("k"), tee("d")>>), Emit(LocalRuns.op_i32_const_tee4, <<"k", "d">>)),
   LocalGetBrIfSpec |->
      Rules(LocalControl, 20, Many(<<get("a"), br_if("t")>>), Emit(LocalBranches.op_local_get4_br_if, <<"a", "t">>))]
ConstAdd == <<get("a"), const("k"), add>>
LocalAdd == <<get("a"), get("b"), add>>
AddBranchSpecs ==
  [LocalGetEqzBrIfSpec |->
      Rules(LocalControl, 30, Many(<<get("a"), eqz, br_if("t")>>),
            Emit(LocalBranches.op_local_get4_i32_eqz_br_if, <<"a", "t">>)),
   LocalGetConstAddBrIfSpec |->
      Rules(LocalControl, 40, Many(ConstAdd \o <<br_if("t")>>),
            Emit(LocalBranches.op_local_get4_i32_const_add_br_if, <<"a", "k", "t">>)),
   LocalGetLocalAddBrIfSpec |->
      Rules(LocalControl, 45, Many(LocalAdd \o <<br_if("t")>>),
            Emit(LocalBranches.op_local_get4_local_get4_i32_add_br_if, <<"a", "b", "t">>))]
ConstAddSpecs ==
  [LocalGetConstAddRootSpec |->
      Rules(LocalControl, 26, Many(ConstAdd), Emit(LocalSums.op_local_get4_i32_const_add, <<"a", "k">>)),
   LocalGetConstAddSetSpec |->
      Rules(LocalControl, 30, Many(ConstAdd \o <<set("d")>>),
            Emit(LocalSums.op_local_get4_i32_const_add_set4, <<"a", "k", "d">>)),
   LocalGetConstAddTeeSpec |->
      Rules(LocalControl, 31, Many(ConstAdd \o <<tee("d")>>),
            Emit(LocalSums.op_local_get4_i32_const_add_tee4, <<"a", "k", "d">>))]
LocalAddSpecs ==
  [LocalGetLocalAddRootSpec |->
      Rules(LocalControl, 28, Many(LocalAdd), Emit(LocalBranches.op_local_get4_local_get4_i32_add, <<"a", "b">>)),
   LocalGetLocalAddSetSpec |->
      Rules(LocalControl, 32, Many(LocalAdd \o <<set("d")>>),
            Emit(LocalBranches.op_local_get4_local_get4_i32_add_set4, <<"a", "b", "d">>)),
   LocalGetLocalAddTeeSpec |->
      Rules(LocalControl, 33, Many(LocalAdd \o <<tee("d")>>),
            Emit(LocalBranches.op_local_get4_local_get4_i32_add_tee4, <<"a", "b", "d">>))]

ConstAnd == Many(<<get("a"), const("k"), and>>) \cup Many(<<const("k"), get("a"), and>>)
ConstBranchSpecs ==
  [LocalGetConstCompareBrIfSpec |->
      Rules(LocalControl, 42,
            Many(<<get("a"), const("k"), Compare, br_if("t")>>)
              \cup Many(<<const("k"), get("a"), FlippedCompare, br_if("t")>>),
            Emit(LocalBranches.op_local_get4_i32_const_compare_br_if, <<"a", "kind", "k", "t">>)),
   LocalGetConstAndBrIfSpec |->
      Rules(LocalControl, 48, Then(ConstAnd, br_if("t")),
            Emit(MaskedBranches.op_local_get4_i32_const_and_br_if, <<"a", "k", "t">>))
        \cup Rules(LocalControl, 48, Many(<<ConstAnd, eqz, br_if("t")>>),
                   Emit(MaskedBranches.op_local_get4_i32_const_and_eqz_br_if, <<"a", "k", "t">>))]
MaskBranchSpecs ==
  [LocalGetConstAndTeeConstEqBrIfSpec |->
      Rules(LocalControl, 72,
            Many(<<get("a"), const("k"), and, tee("d"), const("r"), Inst(I64OrderI32Equality.op_i32_eq, <<>>), br_if("t")>>),
            Emit(LocalBranches.op_local_get4_i32_const_and_tee4_i32_const_eq_br_if, <<"a", "k", "d", "r", "t">>)),
   LocalGetConstAndConstCompareBrIfSpec |->
      Rules(LocalControl, 80, Many(<<get("a"), const("k"), and, const("r"), Compare, br_if("t")>>),
            Emit(MaskedBranches.op_local_get4_i32_const_and_i32_const_compare_br_if, <<"a", "k", "kind", "r", "t">>)),
   LocalGetConstAddConstAndConstCompareBrIfSpec |->
      Rules(LocalControl, 106, Many(ConstAdd \o <<const("m"), and, const("r"), Compare, br_if("t")>>),
            Emit(MaskedBranches.op_local_get4_i32_const_add_i32_const_and_i32_const_compare_br_if,
                 <<"a", "k", "m", "kind", "r", "t">>))]
CompareBranchSpecs ==
  [LocalGetConstAddTeeBrIfSpec |->
      Rules(LocalControl, 50, Many(ConstAdd \o <<tee("d"), br_if("t")>>),
            Emit(MaskedBranches.op_local_get4_i32_const_add_tee4_br_if, <<"a", "k", "d", "t">>)),
   LocalGetLocalCompareBrIfSpec |->
      Rules(LocalControl, 44, Many(<<get("a"), get("b"), Compare, br_if("t")>>),
            Emit(LocalBranches.op_local_get4_local_get4_compare_br_if, <<"a", "b", "kind", "t">>)),
   LocalGet4Set4LocalGetConstCompareBrIfSpec |->
      Rules(LocalControl, 74, Many(<<get("a"), set("d"), get("b"), const("r"), Compare, br_if("t")>>),
            Emit(LocalBranches.op_local_get4_set4_local_get4_i32_const_compare_br_if,
                 <<"a", "d", "b", "kind", "r", "t">>))]

-----------------------------------------------------------------------------
UnaryKinds ==
  [unary_kind32 |->
      IndexFrom0(<<F64OrderI32Counts.op_i32_clz, F64OrderI32Counts.op_i32_ctz, F64OrderI32Counts.op_i32_popcnt, F32Rounding.op_f32_abs, F32Rounding.op_f32_neg,
                   F32Arith.op_f32_sqrt, F32Rounding.op_f32_ceil,
                   F32Rounding.op_f32_floor, F32Rounding.op_f32_trunc, F32Rounding.op_f32_nearest>>),
   unary_kind64 |->
      IndexFrom0(<<I32SumI64Counts.op_i64_clz, I32SumI64Counts.op_i64_ctz, I32SumI64Counts.op_i64_popcnt, F64Rounding.op_f64_abs, F64Rounding.op_f64_neg,
                   F64Rounding.op_f64_sqrt, F32Rounding.op_f64_ceil,
                   F64Rounding.op_f64_floor, F64Rounding.op_f64_trunc, F64Rounding.op_f64_nearest>>)]
numeric_kind ==
  [Binop32 |-> IndexFrom0(<<I32SumI64Counts.op_i32_add, I32SumI64Counts.op_i32_sub, MulDiv.op_i32_mul, RemI32Logic.op_i32_and, RemI32Logic.op_i32_or,
                            RemI32Logic.op_i32_xor, I32Shifts.op_i32_shl,
                 I32Shifts.op_i32_shr_s, I32Shifts.op_i32_shr_u, I32Shifts.op_i32_rotl, I32Shifts.op_i32_rotr, F32Arith.op_f32_add, F32Arith.op_f32_sub, F32Arith.op_f32_mul, F32Arith.op_f32_div>>),
   Binop64 |-> IndexFrom0(<<Sat64I64Add.op_i64_add, ConstsF32Order.op_i64_sub, I64LogicRem.op_i64_mul, MulDiv.op_i64_and, I64LogicRem.op_i64_or,
                            I64LogicRem.op_i64_xor, I64Shifts.op_i64_shl,
                 I64Shifts.op_i64_shr_s, I64Shifts.op_i64_shr_u, I32Shifts.op_i64_rotl, I64Shifts.op_i64_rotr, F32MaxF64Arith.op_f64_add, F32MaxF64Arith.op_f64_sub, F32MaxF64Arith.op_f64_mul, F32MaxF64Arith.op_f64_div>>),
   Cmp32 |-> IndexFrom0(<<I64OrderI32Equality.op_i32_eq, I64OrderI32Equality.op_i32_ne, I32Order.op_i32_lt_s, I32Order.op_i32_lt_u, I32Order.op_i32_gt_s,
                          I32Order.op_i32_gt_u, I32Order.op_i32_le_s,
                 I32Order.op_i32_le_u, I32OrderExtend.op_i32_ge_s, I32OrderExtend.op_i32_ge_u, F64Rounding.op_f32_eq, FloatEquality.op_f32_ne, ConstsF32Order.op_f32_lt, ConstsF32Order.op_f32_gt, FloatEquality.op_f32_le, FloatEquality.op_f32_ge>>),
   Cmp64 |-> IndexFrom0(<<I64Order.op_i64_eq, I64Order.op_i64_ne, I64Order.op_i64_lt_s, I64Order.op_i64_lt_u, I64Order.op_i64_gt_s,
                          I64Order.op_i64_gt_u, I64OrderI32Equality.op_i64_le_s,
                 I64OrderI32Equality.op_i64_le_u, I64OrderI32Equality.op_i64_ge_s, I64OrderI32Equality.op_i64_ge_u, FloatEquality.op_f64_eq, FloatEquality.op_f64_ne, FloatEquality.op_f64_lt, F64OrderI32Counts.op_f64_gt, F64OrderI32Counts.op_f64_le, F64OrderI32Counts.op_f64_ge>>)]
StackConstKinds ==
  [stack_i32_const_binop_kind |-> 0 .. 10,
   stack_i32_const_cmp_kind |-> 0 .. 9]

(* The kinds on integers of a class, those whose operands may be swapped,  *)
(* and the kind with the operands swapped.                                 *)
IsCmp(class) == class \in {"Cmp32", "Cmp64"}
IntKinds(class) == IF IsCmp(class) THEN StackConstKinds.stack_i32_const_cmp_kind ELSE StackConstKinds.stack_i32_const_binop_kind
is_commutative(class) == IF IsCmp(class) THEN {0, 1, 10, 11} ELSE {0, 2, 3, 4, 5, 11, 13}
flipped == [k \in 0 .. 15 |-> IF k <= 9 THEN flip_i32_compare_kind(k) ELSE <<10, 11, 13, 12, 15, 14>>[k - 9]]
input_width(class) == IF class \in {"Binop32", "Cmp32"} THEN 4 ELSE 8
result_width(class) == IF class = "Binop64" THEN 8 ELSE 4
raw_local_get(w, a) == Inst(IF w = 4 THEN op_local_get4 ELSE LocalAccesses.op_local_get8, <<a>>)
raw_local_set(w, a) == Inst(IF w = 4 THEN LocalAccesses.op_local_set4 ELSE LocalAccesses.op_local_set8, <<a>>)
raw_local_tee(w, a) == Inst(IF w = 4 THEN LocalAccesses.op_local_tee4 ELSE LocalAccesses.op_local_tee8, <<a>>)
const_operand_for_kind(w, isInt, k) ==
  Inst(IF isInt THEN IF w = 4 THEN I32SumI64Counts.op_i32_const ELSE ConstsF32Order.op_i64_const
       ELSE IF w = 4 THEN ConstsF32Order.op_f32_const ELSE ConstsF32Order.op_f64_const, <<k>>)

(* How the inputs are arranged: two locals, a local and a constant, or a   *)
(* constant and a local.  kinds gives, for each kind that is emitted, the  *)
(* one that is found.                                                      *)
Arranged(inputs, kinds, rhs) == [inputs |-> inputs, kinds |-> kinds, rhs |-> rhs]
Unchanged(S) == [k \in S |-> k]
ConstArrangements(class, mine, local, constant) ==
  LET comm == mine \cap is_commutative(class)
      other == IF IsCmp(class) THEN mine \ comm ELSE {}
  IN <<Arranged(<<local, constant>>, Unchanged(mine), ConstRhs("kind", "op")),
       Arranged(<<constant, local>>, Unchanged(comm), ConstRhs("kind", "op")),
       Arranged(<<constant, local>>, [k \in other |-> flipped[k]], ConstRhs("kind", "op"))>>
Arrangements(class, all, local(_), constant(_)) ==
  <<Arranged(<<local("a"), local("b")>>, Unchanged(all), LocalRhs("kind", "op"))>>
    \o FlattenSeq([i \in 1 .. 2 |-> ConstArrangements(class, {k \in all : (k \in IntKinds(class)) = (i = 1)},
                                                     local("a"), constant(i = 1))])
KindsFor(class, br) ==
  {k \in 0 .. (IF IsCmp(class) THEN 15 ELSE 14) : br => (IsCmp(class) \/ k \in IntKinds(class))}
match_numeric_inputs(class, br) ==
  UNION {Many(a.inputs \o <<OneOf("op", [k \in DOMAIN a.kinds |-> numeric_kind[class][a.kinds[k]]], <<>>), a.rhs>>) :
           a \in {x \in Range(Arrangements(class, KindsFor(class, br), LAMBDA x : raw_local_get(input_width(class), x),
                                           LAMBDA isInt : const_operand_for_kind(input_width(class), isInt, "b"))) :
                   DOMAIN x.kinds # {}}}

(* What is done with the result, and the operand that says where it goes.  *)
Consumer(consumer, w) ==
  CASE consumer = "root" -> Many(<<>>)
    [] consumer = "set" -> raw_local_set(w, "d")
    [] consumer = "tee" -> raw_local_tee(w, "d")
    [] consumer = "br_if" -> br_if("t")
ConsumerOps == [root |-> <<>>, set |-> <<"d">>, tee |-> <<"d">>, br_if |-> <<"t">>]
Consumed(costs, inputs, consumer, w, h, ops) ==
  Rules(LocalControl, costs[consumer], Then(inputs, Consumer(consumer, w)), Emit(h, ops \o ConsumerOps[consumer]))
LocalNumericSpec(class, consumer, h) ==
  Consumed([root |-> 16, set |-> 22, tee |-> 22, br_if |-> 28], match_numeric_inputs(class, consumer = "br_if"),
           consumer, result_width(class), h, <<"kind", "a", "b">>)
LocalUnarySpec(w, consumer, h) ==
  Consumed([root |-> 14, set |-> 18, tee |-> 18],
           Many(<<raw_local_get(w, "a"), OneOf("kind",
                                               IF w = 4 THEN UnaryKinds.unary_kind32 ELSE UnaryKinds.unary_kind64, <<>>)>>),
           consumer, w, h, <<"kind", "a">>)

(* A constant as right operand of what is on the stack.                    *)
StackConst(hs, consumer, h) ==
  Consumed([root |-> 17, set |-> 24, tee |-> 24, br_if |-> 30],
           Many(<<const("k"), OneOf("op", hs, <<>>), ConstRhs("kind", "op")>>), consumer, 4, h, <<"kind", "k">>)
StackI32ConstBinopSpec(consumer, h) ==
  StackConst([k \in StackConstKinds.stack_i32_const_binop_kind |-> numeric_kind.Binop32[k]], consumer, h)
StackI32ConstCmpSpec(consumer, h) ==
  StackConst([k \in StackConstKinds.stack_i32_const_cmp_kind |-> numeric_kind.Cmp32[k]], consumer, h)

-----------------------------------------------------------------------------
(* Bit steps of a polynomial.  A step whose result is not kept names no    *)
(* destination.                                                            *)
NoLocal == MaxOf("u32")
is_select4_raw == Inst(SelectOps.op_select, <<"width">>) \cup Inst(SelectOps.op_select4, <<>>)
match_i32_xor_lsb_condition ==
  LET source == get("source")
      rest == <<get("prev"), xor, value("one", 1), and>>
  IN Many(<<source, Fixed("shift", 0)>> \o rest) \cup Many(<<source, const("shift"),
                                                             Inst(I32Shifts.op_i32_shr_u, <<>>)>> \o rest)
match_i32_select_bit_step4_xor_condition ==
  Many(<<const("poly"), xor, get("tmp"), match_i32_xor_lsb_condition, is_select4_raw>>)
match_i32_select_bit_step4_eq_condition ==
  Many(<<get("tmp"), const("poly"), xor, get("prev"), value("one", 1), and, get("source"), const("shift"),
         Inst(I32Shifts.op_i32_shr_u, <<>>), Inst(I64OrderI32Equality.op_i32_eq, <<>>), is_select4_raw>>)
StepOperands == <<"tmp", "poly", "source", "shift", "prev", "flags", "dst">>

(* The pattern, with the flags that say which of its parts are there.      *)
BitStep(lead, masks, eq, tees) ==
  Many(lead \o <<value("one", 1), Inst(I32Shifts.op_i32_shr_u, <<>>)>>
         \o (IF masks THEN <<value("low15", Low15.n), and>> ELSE <<>>)
         \o <<tee("tmp"),
              IF eq THEN match_i32_select_bit_step4_eq_condition ELSE match_i32_select_bit_step4_xor_condition,
              IF tees THEN tee("dst") ELSE Fixed("dst", NoLocal),
              Fixed("flags", (IF masks THEN I32_SELECT_BIT_STEP_MASK_SHIFTED ELSE 0)
                               + (IF eq THEN I32_SELECT_BIT_STEP_EQ_CONDITION ELSE 0)
                               + (IF tees THEN I32_SELECT_BIT_STEP_TEE_DST ELSE 0))>>)
match_i32_select_bit_step4(lead, cost, out) ==
  UNION {Unless(Rules(LocalControl, cost, BitStep(lead, masks, eq, tees), out),
                IF tees THEN {} ELSE {LocalAccesses.op_local_tee4}) :
           masks \in BOOLEAN, eq \in BOOLEAN, tees \in BOOLEAN}
BitStepRules ==
  [I32SelectBitStep4Spec |-> match_i32_select_bit_step4(<<>>, 96, Emit(op_i32_select_bit_step4, StepOperands)),
   I32SelectBitStep4FromLocalSpec |->
      match_i32_select_bit_step4(<<get("a")>>, 112,
        Emit(op_local_get4, <<"a">>) \o Emit(op_i32_select_bit_step4, StepOperands))]
(* As many steps as follow one another.                                    *)
BIT_STEP_MAX_RUN == 16
match_i32_select_bit_step4_run(code, c) ==
  LET is(k) == c + k - 1 <= Len(code) /\ code[c + k - 1].h = op_i32_select_bit_step4
      lens == {n \in 0 .. BIT_STEP_MAX_RUN : \A k \in 1 .. n : is(k)}
  IN Max(lens)
I32SelectBitStep4RunSpec(code, c) ==
  LET n == match_i32_select_bit_step4_run(code, c)
  IN IF n < 2 THEN {}
     ELSE {[group |-> LocalControl, cost |-> 128, consumed |-> n,
            ops |-> <<I(op_i32_select_bit_step4_run,
                        <<n>> \o FlattenSeq([k \in 1 .. n |-> code[c + k - 1].imm]))>>]}

(* Select by width, and with what is done with the result.                 *)
SelectWidthSpec(w, h) ==
  Rules(CallSelect, 15, Many(<<Inst(SelectOps.op_select, <<"width">>), Fixed("width", w)>>), Emit(h, <<>>))
Select4ConsumerSpec(consumer, h) ==
  Rules(CallSelect, 24, Many(<<Inst(SelectOps.op_select, <<"width">>), Fixed("width", 4), consumer>>),
        Emit(h, <<"d">>))
-----------------------------------------------------------------------------
(***************************************************************************)
(* The fusions of loads and stores (select.rs), one definition for each    *)
(* specification or emitter, with its name.                                *)
(***************************************************************************)

(* The plain accesses of the four kinds of memory, and their operands.     *)
Kinds == {"local", "shared", "indexed", "indexed_shared"}
OpsOf ==
  [local |-> PlainOps, shared |-> SharedOps, indexed |-> IndexedOps, indexed_shared |-> IndexedSharedOps]
LocalBaseOf ==
  [local |-> LocalBaseOps, shared |-> SharedLocalBaseOps, indexed |-> IndexedLocalBaseOps,
   indexed_shared |-> IndexedSharedLocalBaseOps]
ScaledIndexOf ==
  [local |-> LocalScaledIndexOps, shared |-> SharedLocalScaledIndexOps, indexed |-> IndexedLocalScaledIndexOps,
   indexed_shared |-> IndexedSharedLocalScaledIndexOps]
MemArgs(m) == IF m \in {"indexed", "indexed_shared"} THEN <<"memarg", "memidx">> ELSE <<"memarg">>
ScalarType == {"i32", "i64", "f32", "f64"}

(* The tables of the select pass: the plain accesses of each scalar type,  *)
(* and what they become with a local or a scaled index as their address.   *)
FullLoads == [i32 |-> {"i32_load"}, i64 |-> {"i64_load"}, f32 |-> {"f32_load"}, f64 |-> {"f64_load"}]
NarrowLoads ==
  [i32 |-> {"i32_load8_u", "i32_load8_s", "i32_load16_s", "i32_load16_u"},
   i64 |-> {"i64_load8_s", "i64_load8_u", "i64_load16_s", "i64_load16_u", "i64_load32_s", "i64_load32_u"},
   f32 |-> {}, f64 |-> {}]
FullStores == [i32 |-> {"i32_store"}, i64 |-> {"i64_store"}, f32 |-> {"f32_store"}, f64 |-> {"f64_store"}]
NarrowStores ==
  [i32 |-> {"i32_store8", "i32_store16"}, i64 |-> {"i64_store8", "i64_store16", "i64_store32"}, f32 |-> {}, f64 |-> {}]
MEMORY_LOAD_DESCS(scalar) == FullLoads[scalar] \cup NarrowLoads[scalar]
MEMORY_STORE_DESCS(scalar) == FullStores[scalar] \cup NarrowStores[scalar]
scalar_memory_load_type_for_inst(m, scalar) == Restrict(OpsOf[m], MEMORY_LOAD_DESCS(scalar))
scalar_memory_store_type_for_inst(m, scalar) == Restrict(OpsOf[m], MEMORY_STORE_DESCS(scalar))
scalar_local_base_load_family_for_type(m, scalar) == Restrict(LocalBaseOf[m], MEMORY_LOAD_DESCS(scalar))
scalar_local_base_store_family_for_type(m, scalar) == Restrict(LocalBaseOf[m], MEMORY_STORE_DESCS(scalar))
scalar_local_scaled_index_load_family_for_type(m, scalar) == Restrict(ScaledIndexOf[m], MEMORY_LOAD_DESCS(scalar))
scalar_local_scaled_index_store_family_for_type(m, scalar) == Restrict(ScaledIndexOf[m], MEMORY_STORE_DESCS(scalar))

(* What a load or store of i32 becomes beside locals and branches.         *)
local_get4_local_base_load_family == LocalBaseLoads.op_local_get4_load_local_base
local_base_load_set4_family(is_tee) == IF is_tee THEN LocalBaseTees.op_load_local_base_tee4 ELSE LocalBaseLoads.op_load_local_base_set4
local_base_load_local_get4_family(is_tee) ==
  IF is_tee THEN LocalBaseTees.op_load_local_base_tee4_local_get4 ELSE LocalBasePairs.op_load_local_base_local_get4
Set4LoadFamilies ==
  [local_base_load_local_get4_scalar_load_family |-> LocalBaseChains.op_load_local_base_local_get4_load,
   local_base_set4_load_local_get4_family |-> LocalBasePairs.op_i32_load_local_base_set4_load_local_base_local_get4,
   local_base_set4_load_local_eq_br_if_family |-> LocalBasePairs.op_i32_load_local_base_set4_load_local_base_local_eq_br_if,
   local_base_set4_load_family |-> LocalBasePairs.op_i32_load_local_base_set4_load_local_base]
local_base_load_tee4_branch_family(is_eqz) ==
  IF is_eqz THEN EqzBranches.op_load_local_base_tee4_i32_eqz_br_if ELSE LocalBaseLoads.op_load_local_base_tee4_br_if
i32_load_local_get4_family == LocalBaseChains.op_load_local_get4
i32_load_tee4_branch_family(is_eqz) == IF is_eqz THEN EqzBranches.op_load_tee4_i32_eqz_br_if ELSE LocalBaseLoads.op_load_tee4_br_if
local_base_store_local_get4_family == op_store_local_base_local_get4
i32_load(memarg) == Inst(op_i32_load, <<memarg>>)
i32_load8_u(memarg) == Inst(WholeLoads.op_i32_load8_u, <<memarg>>)
i32_store(memarg) == Inst(PlainStores.op_i32_store, <<memarg>>)
I32LoadOps ==
  LET over(ops) ==
        [i32_load |-> op_i32_load, i32_load8_s |-> ops.op_i32_load8_s, i32_load8_u |-> ops.op_i32_load8_u,
         i32_load16_s |-> ops.op_i32_load16_s, i32_load16_u |-> ops.op_i32_load16_u]
  IN over(WholeLoads @@ ExtendingLoads)
I32Load(n, memarg) == OneOf(n, I32LoadOps, <<memarg>>)

(* Addresses: a local with a constant added to it or not, and a local plus *)
(* a scaled index.                                                         *)
match_i32_local_base_address(a, d) == Many(<<get(a), Fixed(d, 0)>>) \cup Many(<<get(a), const(d), add>>)
match_i32_local_scaled_index_address ==
  LET index == Many(<<get("base"), get("index"), Fixed("scale", 0), add>>)
                 \cup UNION {Many(<<get("base"), get("index"), value("scale", s), Inst(I32Shifts.op_i32_shl, <<>>),
                                    add>>) : s \in 0 .. 3}
  IN Then(index, Fixed("delta", 0)) \cup Many(<<index, const("delta"), add>>)
Addr == match_i32_local_base_address("base", "delta")

-----------------------------------------------------------------------------
(* Single accesses.                                                        *)
emit_scalar_load_local_base(scalar) ==
  UNION {Rules(Memory, 26, Then(Addr, OneOf("n", scalar_memory_load_type_for_inst(m, scalar), MemArgs(m))),
               EmitBy("n", scalar_local_base_load_family_for_type(m, scalar), <<"base", "delta">> \o MemArgs(m))) : m \in Kinds}
(* A load by scaled index carries only the first operand of the plain one. *)
emit_scalar_load_local_scaled_index(scalar) ==
  UNION {Rules(Memory, 32,
               Then(match_i32_local_scaled_index_address, OneOf("n", scalar_memory_load_type_for_inst(m, scalar), MemArgs(m))),
               EmitBy("n", scalar_local_scaled_index_load_family_for_type(m, scalar), <<"base", "index", "scale", "delta", "memarg">>)) : m \in Kinds}
scalar_const_base_load_family_for_type ==
  [i32_load |-> ConstBaseLoads.op_i32_load_const_base, i64_load |-> ConstBaseLoads.op_i64_load_const_base,
   f32_load |-> ConstBaseLoads.op_f32_load_const_base, f64_load |-> ConstBaseLoads.op_f64_load_const_base]
emit_scalar_load_const_base(scalar) ==
  Rules(Memory, 18,
        Many(<<const("k"),
               OneOf("n", [n \in FullLoads[scalar] |-> PlainOps[n]], <<"memarg">>),
               Sum32("folded", "k", "memarg")>>),
        EmitBy("n", scalar_const_base_load_family_for_type, <<"folded">>))
scalar_const_base_store_family_for_type ==
  [i32_store |-> ConstBaseLoads.op_i32_store_const_base_local4, i64_store |-> ConstBaseStores.op_i64_store_const_base_local8,
   f32_store |-> ConstBaseStores.op_f32_store_const_base_local4, f64_store |-> ConstBaseStores.op_f64_store_const_base_local8]
I32LoadConstBaseLocalGet4AddSet4Spec ==
  Rules(Memory, 32, Many(<<const("k"), i32_load("memarg"), get("a"), add, set("d"), Sum32("folded", "k", "memarg")>>),
        Emit(ConstBaseStores.op_i32_load_const_base_local_get4_i32_add_set4, <<"folded", "a", "d">>))
emit_i32_store_local_base_local_get4 ==
  Rules(Memory, 42,
        Many(<<Addr, get("v"), OneOf("n", scalar_memory_store_type_for_inst("local", "i32"), <<"memarg">>)>>),
        EmitBy("n", local_base_store_local_get4_family, <<"base", "delta", "v", "memarg">>))

(* A load beside locals.                                                   *)
BaseLoad == Then(Addr, I32Load("n", "memarg"))
LocalBaseRules ==
  [emit_scalar_load_local_base_set4 |->
      Rules(Memory, 40, Then(BaseLoad, set("d")), EmitBy("n", local_base_load_set4_family(FALSE),
                                                         <<"base", "delta", "memarg", "d">>))
        \cup Rules(Memory, 40, Then(BaseLoad, tee("d")),
                   EmitBy("n", local_base_load_set4_family(TRUE), <<"base", "delta", "memarg", "d">>)),
   emit_scalar_load_local_base_local_get4 |->
      Rules(Memory, 44, Then(BaseLoad, get("p")), EmitBy("n", local_base_load_local_get4_family(FALSE),
                                                         <<"base", "delta", "memarg", "p">>))
        \cup Rules(Memory, 44, Many(<<BaseLoad, tee("d"), get("p")>>),
                   EmitBy("n", local_base_load_local_get4_family(TRUE),
                          <<"base", "delta", "memarg", "d", "p">>)),
   emit_scalar_load_local_get4 |->
      Rules(Memory, 24, Then(I32Load("n", "memarg"), get("p")),
            EmitBy("n", i32_load_local_get4_family, <<"memarg", "p">>)),
   emit_local_get4_i32_load_local_base_add_set4 |->
      LET sum == Many(<<get("r"), Addr, i32_load("memarg"), add>>)
          ops == <<"r", "base", "delta", "memarg", "d">>
      IN Rules(Memory, 56, Then(sum, set("d")), Emit(LoadAddBranches.op_local_get4_i32_load_local_base_i32_add_set4, ops))
           \cup Rules(Memory, 56, Then(sum, tee("d")),
                      Emit(LoadAddBranches.op_local_get4_i32_load_local_base_i32_add_tee4, ops))]
ConstBaseRules ==
  [emit_scalar_store_const_base |->
      LET of(w, names) ==
            Rules(Memory, 24,
                  Many(<<const("k"), raw_local_get(w, "a"),
                         OneOf("n", [n \in names |-> PlainOps[n]], <<"memarg">>),
                         Sum32("folded", "k", "memarg")>>),
                  EmitBy("n", scalar_const_base_store_family_for_type, <<"folded", "a">>))
      IN of(4, {"i32_store", "f32_store"}) \cup of(8, {"i64_store", "f64_store"}),
   emit_i32_load_local_base_tee4_br_if |->
      Rules(Memory, 62, Many(<<BaseLoad, tee("d"), br_if("t")>>),
            EmitBy("n", local_base_load_tee4_branch_family(FALSE), <<"base", "delta", "memarg", "d", "t">>))
        \cup Rules(Memory, 62, Many(<<BaseLoad, tee("d"), eqz, br_if("t")>>),
                   EmitBy("n", local_base_load_tee4_branch_family(TRUE),
                          <<"base", "delta", "memarg", "d", "t">>)),
   emit_local_get4_local_get4_xor_tee4_u8_shl1_i32_load16_u |->
      Rules(Memory, 104,
            Many(<<get("a"), get("b"), xor, tee("d"), value("mask", MaxOf("u8")), and, value("one", 1),
                   Inst(I32Shifts.op_i32_shl, <<>>), Inst(ExtendingLoads.op_i32_load16_u, <<"memarg">>)>>),
            Emit(ConstBaseStores.op_local_get4_local_get4_i32_xor_tee4_u8_shl1_i32_load16_u,
                 <<"a", "b", "d", "memarg">>))]

-----------------------------------------------------------------------------
(* Two accesses.                                                           *)
LoadedAddress == Many(<<Addr, i32_load("memarg"), set("d"), match_i32_local_base_address("d", "delta2")>>)
LoadedOps == <<"base", "delta", "memarg", "d", "delta2", "memarg2">>
Set4MaskedRules ==
  [emit_i32_load_local_base_set4_scalar_load_local_base_local_get4 |->
      Rules(Memory, 86, Many(<<LoadedAddress, I32Load("n", "memarg2"), get("p")>>),
            EmitBy("n", Set4LoadFamilies.local_base_set4_load_local_get4_family, Append(LoadedOps, "p"))),
   emit_i32_load_local_base_set4_i32_load8_u_local_base_local_masked_compare_br_if |->
      LET compare == OneOf("cmp", [k \in 0 .. 1 |-> i32_compare_kind[k]],
                           <<>>) \cup Many(<<xor, eqz, Fixed("cmp", 0)>>)
      IN Rules(Memory, 136,
               Many(<<LoadedAddress, i32_load8_u("memarg2"), get("r"), value("mask", MaxOf("u8")), and, compare,
                      br_if("t")>>),
               Emit(SearchLoops.op_i32_load_local_base_set4_i32_load8_u_local_base_local_masked_compare_br_if,
                    LoadedOps \o <<"r", "cmp", "t">>))]
Set4LoadRules ==
  [emit_i32_load_local_base_set4_scalar_load_local_base |->
      Unless(Rules(Memory, 72, Then(LoadedAddress, I32Load("n", "memarg2")),
                   EmitBy("n", Set4LoadFamilies.local_base_set4_load_family, LoadedOps)), {op_local_get4}),
   emit_i32_load_local_base_set4_scalar_load_local_base_local_eq_br_if |->
      Rules(Memory, 118, Many(<<LoadedAddress, I32Load("n", "memarg2"), get("r"), Inst(I64OrderI32Equality.op_i32_eq, <<>>),
                                br_if("t")>>),
            EmitBy("n", Set4LoadFamilies.local_base_set4_load_local_eq_br_if_family,
                   LoadedOps \o <<"r", "t">>)),
   emit_scalar_load_local_base_local_get4_scalar_load |->
      LET load(m) == OneOf("n", [n \in PairLoads |-> PlainOps[n]], <<m>>)
      IN Rules(Memory, 76, Many(<<Addr, load("memarg"), get("a"), load("memarg2")>>),
               EmitBy("n", Set4LoadFamilies.local_base_load_local_get4_scalar_load_family,
                      <<"base", "delta", "memarg", "a", "memarg2">>))]
TeeRules ==
  [emit_local_get4_scalar_load_local_base |->
      Rules(Memory, 38, Then(get("p"), BaseLoad), EmitBy("n", local_get4_local_base_load_family,
                                                         <<"p", "base", "delta", "memarg">>)),
   emit_i32_load_tee4_br_if |->
      Rules(Memory, 44, Many(<<I32Load("n", "memarg"), tee("d"), br_if("t")>>),
            EmitBy("n", i32_load_tee4_branch_family(FALSE), <<"memarg", "d", "t">>))
        \cup Rules(Memory, 44, Many(<<I32Load("n", "memarg"), tee("d"), eqz, br_if("t")>>),
                   EmitBy("n", i32_load_tee4_branch_family(TRUE), <<"memarg", "d", "t">>)),
   emit_i32_load_store_local_base_local_get4 |->
      Rules(Memory, 64,
            Many(<<OneOf("lk", i32_scalar_load_kind, <<"memarg">>), Addr, get("v"),
                   OneOf("sk", i32_scalar_store_kind, <<"memarg2">>), Pack("kinds",
                                                                                    <<"lk",
                                                                                      "sk">>), Fixed("skip",
                                                                                                     7)>>),
            Emit(LocalBaseCopies.op_i32_load_store_local_base_local_get4,
                 <<"kinds", "memarg", "base", "delta", "v", "memarg2", "skip">>)),
   emit_i32_load_local_base_local_get4_scalar_load_tee4_cmp_br_if |->
      Rules(Memory, 134,
            Many(<<Addr, OneOf("k1", i32_scalar_load_kind, <<"memarg">>), tee("d"), get("a"),
                   OneOf("k2", i32_scalar_load_kind, <<"memarg2">>), tee("d2"), Compare, br_if("t"),
                   Pack("kinds", <<"k1", "k2", "kind">>)>>),
            Emit(op_i32_load_local_base_local_get4_i32_load_tee4_cmp_br_if,
                 <<"kinds", "base", "delta", "memarg", "d", "a", "memarg2", "d2", "t">>))]

(* Increments in memory, and byte scanners.  The parts may be fused ones.  *)
match_i32_inc_local_base ==
  Inst(UpdateLoops.op_i32_inc_local_base, <<"inc", "sd", "ld", "ml", "ms">>)
    \cup Many(<<match_i32_local_base_address("inc", "sd"), match_i32_local_base_address("inc", "ld"), i32_load("ml"),
                value("one", 1), add, i32_store("ms")>>)
match_i32_load8_u_local_base_set4 ==
  Inst(LocalBaseLoads.op_load_local_base_set4["i32_load8_u"], <<"base", "delta", "memarg", "byte">>)
    \cup Many(<<Addr, i32_load8_u("memarg"), set("byte")>>)
match_i32_load8_u_local_base_set4_local_get4_set4_local_get4_br_if ==
  Many(<<Addr, i32_load8_u("memarg"), set("byte"), get("next"), set("ptr"), get("cond"), br_if("t")>>)
IncOps == <<"inc", "sd", "ld", "ml", "ms">>
LoadSetOps == <<"base", "delta", "memarg", "byte">>
UpdateOps == LoadSetOps \o <<"next", "ptr", "cond", "t">>
IncAndLoad8Rules ==
  [emit_i32_inc_local_base |-> Rules(Memory, 82, match_i32_inc_local_base,
                                     Emit(UpdateLoops.op_i32_inc_local_base, IncOps)),
   emit_local_get4_i32_inc_local_base |->
      Rules(Memory, 112, Then(get("p"), match_i32_inc_local_base),
            Emit(IncAndLoad8.op_local_get4_i32_inc_local_base, <<"p">> \o IncOps)),
   emit_local_get4_i32_inc_local_base_i32_load8_u_local_base_set4 |->
      Rules(Memory, 176, Many(<<get("p"), match_i32_inc_local_base, match_i32_load8_u_local_base_set4>>),
            Emit(IncAndLoad8.op_local_get4_i32_inc_local_base_i32_load8_u_local_base_set4,
                 <<"p">> \o IncOps \o LoadSetOps)),
   emit_local_get4_i32_load8_u_local_base_set4 |->
      Rules(Memory, 96, Then(get("p"), match_i32_load8_u_local_base_set4),
            Emit(IncAndLoad8.op_local_get4_i32_load8_u_local_base_set4, <<"p">> \o LoadSetOps)),
   emit_i32_load8_u_local_base_set4_local_get4 |->
      Rules(Memory, 96, Then(match_i32_load8_u_local_base_set4, get("p")),
            Emit(IncAndLoad8.op_i32_load8_u_local_base_set4_local_get4, Append(LoadSetOps, "p")))]
emit_i32_load8_u_local_base_set4_local_get4_set4_local_get4_br_if ==
  Rules(Memory, 184, match_i32_load8_u_local_base_set4_local_get4_set4_local_get4_br_if,
        Emit(op_i32_load8_u_local_base_set4_local_get4_set4_local_get4_br_if, UpdateOps))
emit_i32_inc_local_base_i32_load8_u_local_base_set4_local_get4_set4_local_get4_br_if ==
  Rules(Memory, 264,
        Many(<<match_i32_inc_local_base, match_i32_load8_u_local_base_set4_local_get4_set4_local_get4_br_if, Fixed("skip", 14)>>),
        Emit(Load8Updates.op_i32_inc_local_base_i32_load8_u_local_base_set4_local_get4_set4_local_get4_br_if,
             IncOps \o Append(UpdateOps, "skip")))

(* Loops over a list, where the block branches to itself.                  *)
SelfBlock == 0
back(t) == Many(<<br_if(t), Fixed(t, SelfBlock)>>)
LoadStoreLoops ==
  [emit_i32_load_store_local_base_reverse_loop |->
      Rules(Memory, 300,
            Many(<<get("prev"), set("saved"), get("cursor"), tee("prev"), i32_load("memarg"), set("cursor"),
                   get("prev"),
                   get("saved"), i32_store("memarg2"), get("cursor"), back("t")>>),
            Emit(op_i32_load_store_local_base_reverse_loop,
                 <<"prev", "saved", "cursor", "memarg", "memarg2">>)),
   emit_i32_load_store_local_base_relink_loop |->
      Rules(Memory, 280,
            Many(<<get("cursor"), tee("current"), i32_load("memarg"), set("cursor"), get("current"),
                   get("prev"),
                   i32_store("memarg2"), get("current"), set("prev"), get("cursor"), back("t")>>),
            Emit(op_i32_load_store_local_base_relink_loop,
                 <<"cursor", "current", "prev", "memarg", "memarg2">>))]

(* Runs of copies from one base to another, of one width, at adjacent      *)
(* addresses.                                                              *)
CopyWidths ==
  [scalar_copy_load_width |->
      1 :> {"i32_load8_s", "i32_load8_u", "i64_load8_s", "i64_load8_u"}
        @@ 2 :> {"i32_load16_s", "i32_load16_u", "i64_load16_s", "i64_load16_u"}
        @@ 4 :> {"i32_load", "i64_load32_s", "i64_load32_u", "f32_load"} @@ 8 :> {"i64_load", "f64_load"},
   scalar_copy_store_width |->
      1 :> {"i32_store8", "i64_store8"} @@ 2 :> {"i32_store16", "i64_store16"}
        @@ 4 :> {"i32_store", "i64_store32", "f32_store"} @@ 8 :> {"i64_store", "f64_store"}]
MAX_COPY_RUN_LANES == 16
match_scalar_copy_local_base_lane ==
  UNION {Many(<<match_i32_local_base_address("dst", "dd"), match_i32_local_base_address("src", "sd"),
                OneOf("ln", [n \in CopyWidths.scalar_copy_load_width[w] |-> PlainOps[n]], <<"ml">>),
                OneOf("sn", [n \in CopyWidths.scalar_copy_store_width[w] |-> PlainOps[n]],
                      <<"ms">>), Fixed("width", w)>>)
           : w \in {1, 2, 4, 8}}
(* The phrase of a set that matches at c, if any: its names and length.    *)
MatchOf(p, code, c) == [env |-> WithCalc(p.calc, Bindings(p, code, c).env), len |-> Len(p.pat), p |-> p]
AnyMatch(P, code, c) == IF P = {} THEN <<>> ELSE <<MatchOf(CHOOSE p \in P : TRUE, code, c)>>
Matched(A, code, c) == AnyMatch({p \in A : Bindings(p, code, c).ok}, code, c)
(* Displacements are of i32, and the sums are not wrapped.                 *)
effective_copy_offset(d, memarg) == Signed(Bits("i32"), d) + memarg

width(scalar) == IF scalar \in {"i32", "f32"} THEN 4 ELSE 8
LaneFollows(first, e, i) ==
  /\ e.width = first.width /\ e.dst = first.dst /\ e.src = first.src
  /\ effective_copy_offset(e.dd, e.ms) = effective_copy_offset(first.dd, first.ms) + first.width * i
  /\ effective_copy_offset(e.sd, e.ml) = effective_copy_offset(first.sd, first.ml) + first.width * i

RECURSIVE CopyLanes(_, _, _), AddLane(_, _, _, _)
CopyLanes(code, c, lanes) ==
  IF Len(lanes) = MAX_COPY_RUN_LANES THEN lanes
  ELSE AddLane(code, c, lanes, Matched(match_scalar_copy_local_base_lane, code, c))
AddLane(code, c, lanes, m) ==
  IF m = <<>> \/ (lanes # <<>> /\ ~LaneFollows(lanes[1].env, m[1].env, Len(lanes))) THEN lanes
  ELSE CopyLanes(code, c + m[1].len, Append(lanes, m[1]))
Candidate(group, cost, consumed, ops) == [group |-> group, cost |-> cost, consumed |-> consumed, ops |-> ops]
CopyRun(lanes) ==
  LET n == Len(lanes)
      first == lanes[1].env
      of(l) == <<l.env.dd, l.env.sd, l.env.ml, l.env.ms>>
  IN IF n < 2 THEN {}
     ELSE {Candidate(Memory, 42 + 18 * n, FoldLeft(LAMBDA k, l : k + l.len, 0, lanes),
             <<I(LocalBaseCopies.op_scalar_copy_local_base_run,
                 <<first.width + 256 * n, first.dst, first.src>> \o FlattenSeq([i \in 1 .. n |-> of(lanes[i])]))>>)}
emit_scalar_copy_local_base_run(code, c) == CopyRun(CopyLanes(code, c, <<>>))

-----------------------------------------------------------------------------
(* Stores whose value is an expression: one or two atoms.  The code of the *)
(* value comes first, so the address is formed after it.                   *)
AtomLoads ==
  [scalar \in ScalarType |-> emit_scalar_load_local_scaled_index(scalar) \cup emit_scalar_load_local_base(scalar)
                                \cup emit_scalar_load_const_base(scalar)]
ScalarAtom(load, plain, i) ==
  IF load # <<>> THEN <<[ops |-> Emitted(load[1].p.out, load[1].env), len |-> load[1].len]>>
  ELSE IF plain THEN <<[ops |-> <<i>>, len |-> 1]>>
  ELSE <<>>
match_scalar_atomic_value_expr(code, c, scalar) ==
  ScalarAtom(Matched(AtomLoads[scalar], code, c),
        Matched(raw_local_get(width(scalar), "a")
                  \cup const_operand_for_kind(width(scalar), scalar \in {"i32", "i64"}, "a"), code, c) # <<>>,
        code[c])
add_op == [i32 |-> I32SumI64Counts.op_i32_add, i64 |-> Sat64I64Add.op_i64_add, f32 |-> F32Arith.op_f32_add, f64 |-> F32MaxF64Arith.op_f64_add]
WithRhs(code, lhs, rhs, at, plus) ==
  IF rhs = <<>> THEN lhs
  ELSE IF at + rhs[1].len > Len(code) THEN <<>>
  ELSE IF code[at + rhs[1].len].h # plus THEN lhs
  ELSE <<[ops |-> lhs[1].ops \o rhs[1].ops \o <<code[at + rhs[1].len]>>, len |-> lhs[1].len + rhs[1].len + 1]>>
WithLhs(code, lhs, c, plus, atom(_)) ==
  IF lhs = <<>> THEN <<>> ELSE WithRhs(code, lhs, atom(c + lhs[1].len), c + lhs[1].len, plus)
ValueFrom(code, c, plus, atom(_)) == WithLhs(code, atom(c), c, plus, atom)
match_scalar_value_expr(code, c, scalar) ==
  ValueFrom(code, c, add_op[scalar], LAMBDA at : match_scalar_atomic_value_expr(code, at, scalar))

(* A store at the address a of the value v, if one follows.                *)
StoreOf(code, c, at, a, v, scalar, cost, family(_, _), ops) ==
  IF v = <<>> \/ at > Len(code) THEN {}
  ELSE UNION {{Candidate(Memory, cost, at + 1 - c,
                 v[1].ops \o <<I(family(m, scalar)[x], [k \in 1 .. Len(ops) |-> a.env[ops[k]]] \o code[at].imm)>>) :
                   x \in {n \in MEMORY_STORE_DESCS(scalar) : code[at].h = OpsOf[m][n]}} : m \in Kinds}
StoreFrom(code, c, a, value_at(_, _), cost, family(_, _), ops) ==
  IF a = <<>> THEN {}
  ELSE UNION {LET v == value_at(c + a[1].len, scalar)
              IN StoreOf(code, c, c + a[1].len + v[1].len, a[1], v, scalar, cost, family, ops) : scalar \in ScalarType}
StoreOfValue(code, c, addr, cost, family(_, _), ops) ==
  StoreFrom(code, c, Matched(addr, code, c), LAMBDA at, scalar : match_scalar_value_expr(code, at, scalar), cost, family, ops)
emit_scalar_store_local_base(code, c) ==
  IF Matched(emit_i32_store_local_base_local_get4, code, c) # <<>> THEN {}
  ELSE StoreOfValue(code, c, Addr, 30, scalar_local_base_store_family_for_type, <<"base", "delta">>)
emit_scalar_store_local_scaled_index(code, c) ==
  StoreOfValue(code, c, match_i32_local_scaled_index_address, 36, scalar_local_scaled_index_store_family_for_type,
               <<"base", "index", "scale", "delta">>)
=============================================================================
