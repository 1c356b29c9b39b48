------------------------------ MODULE Numeric -------------------------------
(***************************************************************************)
(* The numeric handlers (runtime/vm/numeric.rs), as a table with one row   *)
(* for each handler: the types it pops, in the order of its pops, the      *)
(* operation of the Rust code it applies, whether the operand popped first *)
(* is on the right of that operation (Infix) or on the left (Flipped), and *)
(* the type it pushes.  Arith says what the operations do.  A result is a  *)
(* sequence: <<v>> when v is pushed, <<>> when the handler returns         *)
(* InvalidOperand.  Addition, subtraction, multiplication, division and    *)
(* square root of floats are the hardware's and stay uninterpreted, but    *)
(* for addition and multiplication being commutative.                      *)
(***************************************************************************)
EXTENDS Values

(* A handler: how many operands it steps over in the code, and its         *)
(* statements; those of this module have one.  The number is fixed (H), it *)
(* grows with the groups that slot i \div div counts (HGroups), or it is in *)
(* a slot, whose place may depend on a count in slot 0 (HSkip).            *)
HNext(n, size, i, div, skip, code) ==
  [next |-> [slots |-> n, size |-> size, i |-> i, div |-> div, skip |-> skip], code |-> code]
H(n, code) == HNext(n, 0, 0, 1, FALSE, code)
HGroups(n, size, i, div, code) == HNext(n, size, i, div, FALSE, code)
HSkip(n, size, code) == HNext(n, size, 0, 1, TRUE, code)
SlotsAfter(h, imm) ==
  LET x == h.next
      n == x.slots + (IF x.size = 0 THEN 0 ELSE x.size * (imm[x.i + 1] \div x.div))
  IN IF x.skip THEN imm[n + 1] ELSE n
Row(pops, fn, flip, push) ==
  H(0, <<[kind |-> "numeric", pops |-> pops, fn |-> fn, flip |-> flip, push |-> push]>>)
Un(t, fn, u) == Row(<<t>>, fn, FALSE, u)
Infix(t, fn, u) == Row(<<t, t>>, fn, FALSE, u)
Flipped(t, fn, u) == Row(<<t, t>>, fn, TRUE, u)
Const(t) == H(1, <<[kind |-> "const", push |-> t]>>)
(* A checked truncation: whether it truncates before the comparison, and   *)
(* how it compares with the largest integer.                               *)
Trunc(t, first, upper, u) ==
  H(0, <<[kind |-> "trunc", pops |-> <<t>>, push |-> u, first |-> first, upper |-> upper]>>)

I32SumI64Counts ==
  [op_i32_const |-> Const("i32"),
   op_i32_add |-> Infix("i32", "wrapping_add", "i32"),
   op_i32_sub |-> Infix("i32", "wrapping_sub", "i32"),
   op_i64_clz |-> Un("i64", "leading_zeros", "i64"),
   op_i64_ctz |-> Un("i64", "trailing_zeros", "i64"),
   op_i64_popcnt |-> Un("i64", "count_ones", "i64")]
ConstsF32Order ==
  [op_i64_sub |-> Infix("i64", "wrapping_sub", "i64"),
   op_i64_const |-> Const("i64"),
   op_f32_const |-> Const("f32"),
   op_f64_const |-> Const("f64"),
   op_f32_lt |-> Infix("f32", "lt", "u32"),
   op_f32_gt |-> Infix("f32", "gt", "u32")]
F32Arith ==
  [op_f32_sqrt |-> Un("f32", "sqrt", "f32"),
   op_f32_add |-> Infix("f32", "add", "f32"),
   op_f32_sub |-> Infix("f32", "sub", "f32"),
   op_f32_mul |-> Infix("f32", "mul", "f32"),
   op_f32_div |-> Infix("f32", "div", "f32"),
   op_f32_min |-> Infix("f32", "wasm_min", "f32")]
F32MaxF64Arith ==
  [op_f32_max |-> Infix("f32", "wasm_max", "f32"),
   op_f32_copysign |-> Infix("f32", "copysign", "f32"),
   op_f64_add |-> Infix("f64", "add", "f64"),
   op_f64_sub |-> Infix("f64", "sub", "f64"),
   op_f64_mul |-> Infix("f64", "mul", "f64"),
   op_f64_div |-> Infix("f64", "div", "f64")]
F64MinI32Wrap ==
  [op_f64_min |-> Infix("f64", "wasm_min", "f64"),
   op_f64_max |-> Infix("f64", "wasm_max", "f64"),
   op_f64_copysign |-> Infix("f64", "copysign", "f64"),
   op_i32_wrap_i64 |-> Un("i64", "as", "i32"),
   op_i32_trunc_f32_s |-> Trunc("f32", FALSE, "lt", "i32")]
Truncations ==
  [op_i32_trunc_f32_u |-> Trunc("f32", FALSE, "lt", "u32"),
   op_i32_trunc_f64_s |-> Trunc("f64", TRUE, "le", "i32"),
   op_i32_trunc_f64_u |-> Trunc("f64", TRUE, "le", "u32"),
   op_i64_trunc_f32_s |-> Trunc("f32", FALSE, "lt", "i64"),
   op_i64_trunc_f32_u |-> Trunc("f32", FALSE, "lt", "u64")]
TruncF64Sat32 ==
  [op_i64_trunc_f64_s |-> Trunc("f64", FALSE, "lt", "i64"),
   op_i64_trunc_f64_u |-> Trunc("f64", FALSE, "lt", "u64"),
   op_i32_trunc_sat_f32_s |-> Un("f32", "trunc_as", "i32"),
   op_i32_trunc_sat_f32_u |-> Un("f32", "trunc_as", "u32"),
   op_i32_trunc_sat_f64_s |-> Un("f64", "trunc_as", "i32")]
Sat64I64Add ==
  [op_i32_trunc_sat_f64_u |-> Un("f64", "trunc_as", "u32"),
   op_i64_trunc_sat_f32_s |-> Un("f32", "trunc_as", "i64"),
   op_i64_trunc_sat_f32_u |-> Un("f32", "trunc_as", "u64"),
   op_i64_trunc_sat_f64_s |-> Un("f64", "trunc_as", "i64"),
   op_i64_trunc_sat_f64_u |-> Un("f64", "trunc_as", "u64"),
   op_i64_add |-> Flipped("i64", "wrapping_add", "i64")]
ExtendConvertF32 ==
  [op_i64_extend_i32_s |-> Un("i32", "as", "i64"),
   op_i64_extend_i32_u |-> Un("u32", "as", "i64"),
   op_f32_convert_i32_s |-> Un("i32", "as", "f32"),
   op_f32_convert_i32_u |-> Un("u32", "as", "f32"),
   op_f32_convert_i64_s |-> Un("i64", "as", "f32"),
   op_f32_convert_i64_u |-> Un("u64", "as", "f32")]
ConvertF64 ==
  [op_f32_demote_f64 |-> Un("f64", "as", "f32"),
   op_f64_convert_i32_s |-> Un("i32", "as", "f64"),
   op_f64_convert_i32_u |-> Un("u32", "as", "f64"),
   op_f64_convert_i64_s |-> Un("i64", "as", "f64"),
   op_f64_convert_i64_u |-> Un("u64", "as", "f64"),
   op_f64_promote_f32 |-> Un("f32", "as", "f64")]
F32Rounding ==
  [op_f32_abs |-> Un("f32", "abs", "f32"),
   op_f32_neg |-> Un("f32", "neg", "f32"),
   op_f32_ceil |-> Un("f32", "ceil", "f32"),
   op_f32_floor |-> Un("f32", "floor", "f32"),
   op_f32_trunc |-> Un("f32", "trunc", "f32"),
   op_f32_nearest |-> Un("f32", "round_ties_even", "f32"),
   op_f64_ceil |-> Un("f64", "ceil", "f64")]
F64Rounding ==
  [op_f64_floor |-> Un("f64", "floor", "f64"),
   op_f64_trunc |-> Un("f64", "trunc", "f64"),
   op_f64_nearest |-> Un("f64", "round_ties_even", "f64"),
   op_f64_abs |-> Un("f64", "abs", "f64"),
   op_f64_neg |-> Un("f64", "neg", "f64"),
   op_f64_sqrt |-> Un("f64", "sqrt", "f64"),
   op_f32_eq |-> Flipped("f32", "eq", "u32")]
FloatEquality ==
  [op_f32_ne |-> Flipped("f32", "ne", "u32"),
   op_f32_le |-> Infix("f32", "le", "u32"),
   op_f32_ge |-> Infix("f32", "ge", "u32"),
   op_f64_eq |-> Infix("f64", "eq", "u32"),
   op_f64_ne |-> Infix("f64", "ne", "u32"),
   op_f64_lt |-> Infix("f64", "lt", "u32")]
F64OrderI32Counts ==
  [op_f64_gt |-> Infix("f64", "gt", "u32"),
   op_f64_le |-> Infix("f64", "le", "u32"),
   op_f64_ge |-> Infix("f64", "ge", "u32"),
   op_i32_ctz |-> Un("u32", "trailing_zeros", "u32"),
   op_i32_clz |-> Un("u32", "leading_zeros", "u32"),
   op_i32_popcnt |-> Un("u32", "count_ones", "u32")]
MulDiv ==
  [op_i32_mul |-> Flipped("i32", "wrapping_mul", "i32"),
   op_i32_div_s |-> Infix("i32", "checked_div", "i32"),
   op_i32_div_u |-> Infix("u32", "checked_div", "u32"),
   op_i64_div_s |-> Infix("i64", "checked_div", "i64"),
   op_i64_div_u |-> Infix("u64", "checked_div", "u64"),
   op_i64_and |-> Infix("u64", "and", "u64")]
I64LogicRem ==
  [op_i64_or |-> Infix("u64", "or", "u64"),
   op_i64_xor |-> Infix("u64", "bitxor", "u64"),
   op_i64_mul |-> Flipped("i64", "wrapping_mul", "i64"),
   op_i32_rem_s |-> Infix("i32", "guarded_rem", "i32"),
   op_i32_rem_u |-> Infix("u32", "checked_rem", "u32"),
   op_i64_rem_s |-> Infix("i64", "guarded_rem", "i64")]
RemI32Logic ==
  [op_i64_rem_u |-> Infix("u64", "checked_rem", "u64"),
   op_i32_and |-> Infix("u32", "and", "u32"),
   op_i32_or |-> Infix("u32", "or", "u32"),
   op_i32_xor |-> Infix("u32", "bitxor", "u32")]
I32Shifts ==
  [op_i32_shl |-> Infix("i32", "wasm_shl", "i32"),
   op_i32_shr_s |-> Infix("i32", "wasm_shr_s", "i32"),
   op_i32_shr_u |-> Infix("u32", "wasm_shr_u", "u32"),
   op_i32_rotl |-> Infix("u32", "rotate_left", "u32"),
   op_i32_rotr |-> Infix("u32", "rotate_right", "u32"),
   op_i64_rotl |-> Infix("u64", "rotate_left", "u64")]
I64Shifts ==
  [op_i64_rotr |-> Infix("u64", "rotate_right", "u64"),
   op_i64_shl |-> Infix("i64", "wasm_shl", "i64"),
   op_i64_shr_s |-> Infix("i64", "wasm_shr_s", "i64"),
   op_i64_shr_u |-> Infix("u64", "wasm_shr_u", "u64"),
   op_i32_eqz |-> Un("u32", "is_zero", "u32"),
   op_i64_eqz |-> Un("u64", "is_zero", "u32")]
I64Order ==
  [op_i64_eq |-> Infix("u64", "eq", "u32"),
   op_i64_ne |-> Infix("u64", "ne", "u32"),
   op_i64_lt_s |-> Infix("i64", "lt", "u32"),
   op_i64_lt_u |-> Infix("u64", "lt", "u32"),
   op_i64_gt_s |-> Infix("i64", "gt", "u32"),
   op_i64_gt_u |-> Infix("u64", "gt", "u32")]
I64OrderI32Equality ==
  [op_i64_le_s |-> Infix("i64", "le", "u32"),
   op_i64_le_u |-> Infix("u64", "le", "u32"),
   op_i64_ge_s |-> Infix("i64", "ge", "u32"),
   op_i64_ge_u |-> Infix("u64", "ge", "u32"),
   op_i32_eq |-> Flipped("u32", "eq", "u32"),
   op_i32_ne |-> Flipped("u32", "ne", "u32")]
I32Order ==
  [op_i32_le_s |-> Infix("i32", "le", "u32"),
   op_i32_le_u |-> Infix("u32", "le", "u32"),
   op_i32_lt_s |-> Infix("i32", "lt", "u32"),
   op_i32_lt_u |-> Infix("u32", "lt", "u32"),
   op_i32_gt_s |-> Infix("i32", "gt", "u32"),
   op_i32_gt_u |-> Infix("u32", "gt", "u32")]
I32OrderExtend ==
  [op_i32_ge_s |-> Infix("i32", "ge", "u32"),
   op_i32_ge_u |-> Infix("u32", "ge", "u32"),
   op_i32_extend8_s |-> Un("u32", "low_i8", "i32"),
   op_i32_extend16_s |-> Un("u32", "low_i16", "i32"),
   op_i64_extend8_s |-> Un("u64", "low_i8", "i64"),
   op_i64_extend16_s |-> Un("u64", "low_i16", "i64")]
op_i64_extend32_s == Un("u64", "low_i32", "i64")

-----------------------------------------------------------------------------
(***************************************************************************)
(* What the operations compute.                                            *)
(***************************************************************************)
Bool(b) == IF b THEN 1 ELSE 0

(* Shift counts are masked after the conversion to u32.                    *)
wasm_shift_mask(t, rhs) == Wrap(Bits("u32"), rhs) % Bits(t)

IntArith(fn, t, a, b) ==
  LET n == Bits(t)
      bits == BitSet(n, a)
      k == wasm_shift_mask(t, b)
      u == Wrap(n, a)
  IN CASE fn = "wrapping_add" -> <<a + b>>
       [] fn = "wrapping_sub" -> <<a - b>>
       [] fn = "wrapping_mul" -> <<a * b>>
       [] fn = "checked_div" ->
            IF b = 0 \/ ~InRange(t, TruncDiv(a, b)) THEN <<>> ELSE <<TruncDiv(a, b)>>
       [] fn = "checked_rem" ->
            IF b = 0 \/ ~InRange(t, TruncDiv(a, b)) THEN <<>> ELSE <<a - b * TruncDiv(a, b)>>
       [] fn = "guarded_rem" -> IF b = 0 THEN <<>> ELSE <<a - b * TruncDiv(a, b)>>
       [] fn = "and" -> <<Wrap(n, a) & Wrap(n, b)>>
       [] fn = "or" -> <<Wrap(n, a) | Wrap(n, b)>>
       [] fn = "bitxor" -> <<Wrap(n, a) ^^ Wrap(n, b)>>
       [] fn = "wasm_shl" -> <<a * 2^k>>
       [] fn = "wasm_shr_s" -> <<FloorDiv2(a, k)>>
       [] fn = "wasm_shr_u" -> <<FloorDiv2(a, k)>>
       [] fn = "rotate_left" -> <<(u % 2^(n - k)) * 2^k + u \div 2^(n - k)>>
       [] fn = "rotate_right" -> <<u \div 2^k + (u % 2^k) * 2^(n - k)>>
       [] fn = "leading_zeros" -> <<n - (IF bits = {} THEN 0 ELSE 1 + MaxBit(bits))>>
       [] fn = "trailing_zeros" -> <<IF bits = {} THEN n ELSE MinBit(bits)>>
       [] fn = "count_ones" -> <<Cardinality(bits)>>
       [] fn = "is_zero" -> <<Bool(a = 0)>>
       [] fn = "eq" -> <<Bool(a = b)>>
       [] fn = "ne" -> <<Bool(a # b)>>
       [] fn = "lt" -> <<Bool(a < b)>>
       [] fn = "gt" -> <<Bool(a > b)>>
       [] fn = "le" -> <<Bool(a <= b)>>
       [] fn = "ge" -> <<Bool(a >= b)>>
       [] fn = "low_i8" -> <<Signed(Bits("i8"), Wrap(Bits("i8"), a))>>
       [] fn = "low_i16" -> <<Signed(Bits("i16"), Wrap(Bits("i16"), a))>>
       [] fn = "low_i32" -> <<Signed(Bits("i32"), Wrap(Bits("i32"), a))>>

Numeral(f) == f[1] = "num"
OnNumber(f, n) == IF Numeral(f) THEN Float(n, FloatSign(f)) ELSE f
Floor(n) == (n \div One) * One
NearestEven(n) ==
  LET low == Floor(n)
      up == 2 * (n - low) > One \/ (2 * (n - low) = One /\ (low \div One) % 2 = 1)
  IN IF up THEN low + One ELSE low
Truncated(f) == OnNumber(f, IntPart(f[2]) * One)
Ordered(a, b) == ~IsNaN(a) /\ ~IsNaN(b)
SetSign(f, s) ==
  CASE Numeral(f) -> <<"num", s * AbsInt(f[2])>> [] IsNaN(f) -> f [] OTHER -> <<f[1], s>>

wasm_min(a, b) ==
  IF ~Ordered(a, b) THEN NaN
  ELSE IF Magnitude(a) = 0 /\ Magnitude(b) = 0 /\ (FloatSign(a) = -1 \/ FloatSign(b) = -1)
  THEN Zero(-1)
  ELSE IF Magnitude(a) <= Magnitude(b) THEN a ELSE b

wasm_max(a, b) ==
  IF ~Ordered(a, b) THEN NaN
  ELSE IF Magnitude(a) = 0 /\ Magnitude(b) = 0 /\ (FloatSign(a) = 1 \/ FloatSign(b) = 1)
  THEN Zero(1)
  ELSE IF Magnitude(a) >= Magnitude(b) THEN a ELSE b

FloatArith(fn, a, b) ==
  CASE fn \in {"add", "mul"} -> <<<<"sym", <<fn, {a, b}>>>>>>
    [] fn \in {"sub", "div"} -> <<<<"sym", <<fn, a, b>>>>>>
    [] fn = "sqrt" -> <<<<"sym", <<fn, a>>>>>>
    [] fn = "eq" -> <<Bool(Ordered(a, b) /\ Magnitude(a) = Magnitude(b))>>
    [] fn = "ne" -> <<Bool(~Ordered(a, b) \/ Magnitude(a) # Magnitude(b))>>
    [] fn = "lt" -> <<Bool(Ordered(a, b) /\ Magnitude(a) < Magnitude(b))>>
    [] fn = "gt" -> <<Bool(Ordered(a, b) /\ Magnitude(a) > Magnitude(b))>>
    [] fn = "le" -> <<Bool(Ordered(a, b) /\ Magnitude(a) <= Magnitude(b))>>
    [] fn = "ge" -> <<Bool(Ordered(a, b) /\ Magnitude(a) >= Magnitude(b))>>
    [] fn = "abs" -> <<SetSign(a, 1)>>
    [] fn = "neg" -> <<SetSign(a, -FloatSign(a))>>
    [] fn = "copysign" -> <<SetSign(a, FloatSign(b))>>
    [] fn = "ceil" -> <<OnNumber(a, -Floor(-a[2]))>>
    [] fn = "floor" -> <<OnNumber(a, Floor(a[2]))>>
    [] fn = "trunc" -> <<Truncated(a)>>
    [] fn = "round_ties_even" -> <<OnNumber(a, NearestEven(a[2]))>>
    [] fn = "wasm_min" -> <<wasm_min(a, b)>>
    [] fn = "wasm_max" -> <<wasm_max(a, b)>>

(* The `as` conversions of Rust: integers wrap, floats round, and a float  *)
(* that an integer type cannot hold saturates, with NaN to 0.              *)
AsFloat(u, f) == IF Numeral(f) THEN Float(RoundTo(Prec(u), f[2]), FloatSign(f)) ELSE f
As(t, u, a) ==
  CASE IsFloat(u) -> AsFloat(u, IF IsFloat(t) THEN a ELSE Float(a * One, 1))
    [] IsFloat(t) -> IF IsNaN(a) THEN 0 ELSE Saturate(u, IntPart(Magnitude(a)))
    [] OTHER -> a

TruncBound(row, n) == Magnitude(As("i64", row.pops[1], n))
TruncInto(row, v, max) ==
  IF /\ ~IsNaN(v)
     /\ IF IsSigned(row.push) THEN TruncBound(row, MinOf(row.push)) <= Magnitude(v) ELSE -One < Magnitude(v)
     /\ IF row.upper = "lt" THEN Magnitude(v) < max ELSE Magnitude(v) <= max
  THEN <<As(row.pops[1], row.push, v)>> ELSE <<>>
CheckedTrunc(row, a) == TruncInto(row, IF row.first THEN Truncated(a) ELSE a, TruncBound(row, MaxOf(row.push)))

(* The result of a handler on its operands, in the order of its pops.      *)
NumericResult(row, xs) ==
  LET t == row.pops[1]
      y == xs[1]
      x == xs[Len(xs)]
      left == IF row.flip THEN y ELSE x
      right == IF row.flip THEN x ELSE y
  IN CASE row.kind = "trunc" -> CheckedTrunc(row, y)
       [] row.fn \in {"as", "trunc_as"} -> <<As(t, row.push, IF row.fn = "as" THEN y ELSE Truncated(y))>>
       [] IsFloat(t) -> FloatArith(row.fn, left, right)
       [] OTHER -> IntArith(row.fn, t, left, right)
-----------------------------------------------------------------------------
(***************************************************************************)
(* 128-bit vectors: sixteen bytes, or the floats of which it is made.      *)
(* What the handlers of runtime/vm/simd.rs do to one lane is LaneArith;    *)
(* most of it is the scalar arithmetic of Numeric.                         *)
(***************************************************************************)

LaneCount(t) == 16 \div Bytes[t]

ReadBytes(data, a, n) ==
  FoldLeft(LAMBDA acc, i : acc + data[a + i] * 2^(ByteBits * (i - 1)), 0, [i \in 1 .. n |-> i])
WriteBytes(data, a, n, v) ==
  [j \in 1 .. Len(data) |->
     IF j > a /\ j <= a + n THEN (v \div 2^(ByteBits * (j - a - 1))) % 2^ByteBits ELSE data[j]]

(* The lanes of a vector read as of type t, and a vector made of lanes.    *)
to_array(t, v) ==
  IF IsFloat(t) THEN v.x
  ELSE [i \in 1 .. LaneCount(t) |-> ReadAs(t, ReadBytes(v.x, (i - 1) * Bytes[t], Bytes[t]))]
from_array(t, xs) ==
  IF IsFloat(t) THEN [made_of |-> t, x |-> xs]
  ELSE [made_of |-> "bytes",
        x |-> [j \in 1 .. 16 |->
                 (Wrap(Bits(t), xs[(j - 1) \div Bytes[t] + 1]) \div 2^(ByteBits * ((j - 1) % Bytes[t])))
                   % 2^ByteBits]]

-----------------------------------------------------------------------------
(* Float minimum and maximum, and the pseudo ones, which take the first    *)
(* operand unless the second is smaller or larger.                         *)
min_lane(x, y) ==
  IF IsNaN(x) \/ IsNaN(y) THEN NaN
  ELSE IF Magnitude(x) = Magnitude(y)
  THEN IF Magnitude(x) # 0 THEN x
       ELSE IF Zero(-1) \in {x, y} THEN Zero(-1) ELSE Zero(1)
  ELSE IF Magnitude(x) < Magnitude(y) THEN x ELSE y
max_lane(x, y) ==
  IF IsNaN(x) \/ IsNaN(y) THEN NaN
  ELSE IF Magnitude(x) = Magnitude(y)
  THEN IF Magnitude(x) # 0 THEN x
       ELSE IF Zero(1) \in {x, y} THEN Zero(1) ELSE Zero(-1)
  ELSE IF Magnitude(x) > Magnitude(y) THEN x ELSE y
pmin_lane(x, y) ==
  IF IsNaN(x) \/ IsNaN(y) \/ Magnitude(x) <= Magnitude(y) THEN x ELSE y
pmax_lane(x, y) ==
  IF IsNaN(x) \/ IsNaN(y) \/ Magnitude(x) >= Magnitude(y) THEN x ELSE y

q15mulr_sat_s_lane(a, b) ==
  Saturate("i16", (a * b + 2^(Bits("i16") - 2)) \div 2^(Bits("i16") - 1))

(* One lane of type t to one of type u.                                    *)
LaneArith(fn, t, u, a, b) ==
  CASE fn \in {"as", "trunc_as"} -> As(t, u, IF fn = "as" THEN a ELSE Truncated(a))
    [] fn = "clamp" -> Saturate(u, a)
    [] fn = "saturating_add" -> Saturate(t, a + b)
    [] fn = "saturating_sub" -> Saturate(t, a - b)
    [] fn = "avgr" -> (a + b + 1) \div 2
    [] fn = "q15mulr_sat_s" -> q15mulr_sat_s_lane(a, b)
    [] fn = "not" -> -1 - a
    [] fn = "wrapping_neg" -> -a
    [] fn = "wrapping_abs" -> AbsInt(a)
    [] fn = "min" -> IF IsFloat(t) THEN min_lane(a, b) ELSE IF a <= b THEN a ELSE b
    [] fn = "max" -> IF IsFloat(t) THEN max_lane(a, b) ELSE IF a >= b THEN a ELSE b
    [] fn = "pmin" -> pmin_lane(a, b)
    [] fn = "pmax" -> pmax_lane(a, b)
    [] IsFloat(t) -> FloatArith(fn, a, b)[1]
    [] OTHER -> IntArith(fn, t, a, b)[1]

(* Sequences of lanes: a half, every other one, a choice, a replacement.   *)
Half(xs, part) ==
  LET n == Len(xs) \div 2
  IN [i \in 1 .. n |->
        CASE part = "low" -> xs[i]
          [] part = "high" -> xs[n + i]
          [] part = "even" -> xs[2 * i - 1]
          [] part = "odd" -> xs[2 * i]]
Picked(xs, ns) == [i \in 1 .. Len(ns) |-> IF ns[i] < Len(xs) THEN xs[ns[i] + 1] ELSE 0]
move_mask(xs) == FoldLeft(LAMBDA acc, i : acc + (IF xs[i] < 0 THEN 2^(i - 1) ELSE 0), 0, [i \in 1 .. Len(xs) |-> i])

=============================================================================
