-------------------------------- MODULE Simd --------------------------------
(***************************************************************************)
(* The vector handlers (runtime/vm/simd.rs).  The crate wide supplies the  *)
(* lane-wise operations of many of them; they are modelled by what they do *)
(* to each lane.  A handler on memory has four variants, for the memory m: *)
(* the default or an indexed one, local or shared.                         *)
(***************************************************************************)
EXTENDS MemoryOps

MemoryKinds == [shared : BOOLEAN, indexed : BOOLEAN]
MemoryAt(m, slot) ==
  IF m.indexed THEN (IF m.shared THEN IndexedShared(slot) ELSE Indexed(slot))
  ELSE IF m.shared THEN DefaultShared ELSE Default
SlotsWith(m, n) == IF m.indexed THEN n + 1 ELSE n

Vector1 == <<Pop("a", "u128")>>
Vector2 == <<Pop("b", "u128"), Pop("a", "u128")>>
PushLanes(t, xs) == Push("u128", VectorOf(t, xs))
A(t) == LanesOf(t, V("a"))
B(t) == LanesOf(t, V("b"))

(* The bytes at the popped address, read as lanes of type t.               *)
read_memory_bytes(m, t, n) ==
  <<Pop("base", "u32"), LoadLanes("xs", t, n, MemoryAt(m, 1), V("base"), 0)>>

op_v128_load(m) == H(SlotsWith(m, 1), read_memory_bytes(m, "u8", 16) \o <<PushLanes("u8", V("xs"))>>)
LoadExtend(m, t, n, u) == H(SlotsWith(m, 1), read_memory_bytes(m, t, n) \o <<PushLanes(u, V("xs"))>>)
v128_load8x8_s(m) == LoadExtend(m, "i8", 8, "i16")
v128_load8x8_u(m) == LoadExtend(m, "u8", 8, "u16")
v128_load16x4_s(m) == LoadExtend(m, "i16", 4, "i32")
v128_load16x4_u(m) == LoadExtend(m, "u16", 4, "u32")
v128_store(m) ==
  H(SlotsWith(m, 1), <<Pop("a", "u128"), Pop("base", "u32"), StoreLanes("u8", 16, MemoryAt(m, 1), V("base"), 0, A("u8"))>>)
v128_load32x2_s(m) == LoadExtend(m, "i32", 2, "i64")
v128_load32x2_u(m) == LoadExtend(m, "u32", 2, "u64")
LoadSplat(m, t) ==
  H(SlotsWith(m, 1), read_memory_bytes(m, t, 1) \o <<PushLanes(t, Splat(t, LaneAt(V("xs"), N(0))))>>)
v128_load8_splat(m) == LoadSplat(m, "u8")
v128_load16_splat(m) == LoadSplat(m, "u16")
v128_load32_splat(m) == LoadSplat(m, "u32")
v128_load64_splat(m) == LoadSplat(m, "u64")
v128_const == H(2, <<PushLanes("u8", Cat(K(0), K(1)))>>)

(* The lane is in slot 1.  A load reads the index of its memory where      *)
(* every other load has it, in slot 1; a store reads it in slot 2.         *)
load_lane_internal(m, t) ==
  H(SlotsWith(m, 2), <<Let("lane", K(1)), Pop("a", "u128")>> \o read_memory_bytes(m, t, 1)
                   \o <<PushLanes(t, WithLane(A(t), V("lane"), LaneAt(V("xs"), N(0))))>>)
store_lane_internal(m, t) ==
  H(SlotsWith(m, 2), <<Pop("a", "u128"), Pop("base", "u32"),
                   StoreLanes(t, 1, MemoryAt(m, 2), V("base"), 0, Splat(t, LaneAt(A(t), K(1))))>>)

SplatOf(t, u) == H(0, <<Pop("x", u), PushLanes(t, Splat(t, V("x")))>>)
SplatOps ==
  [i8x16_shuffle |-> H(2, Vector2 \o <<PushLanes("u8", Choose(Cat(A("u8"), B("u8")), Cat(K(0), K(1))))>>),
   i8x16_splat |-> SplatOf("i8", "i32"),
   i16x8_splat |-> SplatOf("i16", "i32"),
   i32x4_splat |-> SplatOf("i32", "i32"),
   i64x2_splat |-> SplatOf("i64", "i64"),
   f32x4_splat |-> SplatOf("f32", "f32")]

ExtractLane(t, u) == H(1, Vector1 \o <<Push(u, LaneAt(A(t), K(0)))>>)
replace_lane_bytes(t, u) == H(1, <<Pop("x", u), Pop("a", "u128"), PushLanes(t, WithLane(A(t), K(0), V("x")))>>)
Lanes8 ==
  [f64x2_splat |-> SplatOf("f64", "f64"),
   op_i8x16_extract_lane_s |-> ExtractLane("i8", "i32"),
   i8x16_extract_lane_u |-> ExtractLane("u8", "i32"),
   i8x16_replace_lane |-> replace_lane_bytes("i8", "i32"),
   i16x8_extract_lane_s |-> ExtractLane("i16", "i32")]
Lanes16And32 ==
  [i16x8_extract_lane_u |-> ExtractLane("u16", "i32"),
   i16x8_replace_lane |-> replace_lane_bytes("i16", "i32"),
   i32x4_extract_lane |-> ExtractLane("i32", "i32"),
   i32x4_replace_lane |-> replace_lane_bytes("i32", "i32"),
   i64x2_extract_lane |-> ExtractLane("i64", "i64")]
Lanes64AndFloat ==
  [i64x2_replace_lane |-> replace_lane_bytes("i64", "i64"),
   f32x4_extract_lane |-> ExtractLane("f32", "f32"),
   f32x4_replace_lane |-> replace_lane_bytes("f32", "f32"),
   f64x2_extract_lane |-> ExtractLane("f64", "f64"),
   f64x2_replace_lane |-> replace_lane_bytes("f64", "f64")]

v128_load8_lane(m) == load_lane_internal(m, "u8")
v128_load16_lane(m) == load_lane_internal(m, "u16")
v128_load32_lane(m) == load_lane_internal(m, "u32")
v128_load64_lane(m) == load_lane_internal(m, "u64")
v128_store8_lane(m) == store_lane_internal(m, "u8")
v128_store16_lane(m) == store_lane_internal(m, "u16")
v128_store32_lane(m) == store_lane_internal(m, "u32")
v128_store64_lane(m) == store_lane_internal(m, "u64")
LoadZero(m, t) ==
  H(SlotsWith(m, 1), read_memory_bytes(m, t, 1) \o <<PushLanes(t, Cat(V("xs"), Zeros(LaneCount(t) - 1)))>>)
v128_load32_zero(m) == LoadZero(m, "u32")
v128_load64_zero(m) == LoadZero(m, "u64")

-----------------------------------------------------------------------------
(* The whole vector as bits.                                               *)
Negated(xs) == Each("not", "u8", "u8", xs)
Bitwise2(fn, xs, ys) == ZipWith(fn, "u8", "u8", xs, ys)
Bits128 ==
  [v128_not |-> H(0, Vector1 \o <<PushLanes("u8", Negated(A("u8")))>>),
   v128_and |-> H(0, Vector2 \o <<PushLanes("u8", Bitwise2("and", A("u8"), B("u8")))>>),
   v128_andnot |-> H(0, Vector2 \o <<PushLanes("u8", Bitwise2("and", A("u8"), Negated(B("u8"))))>>),
   v128_or |-> H(0, Vector2 \o <<PushLanes("u8", Bitwise2("or", A("u8"), B("u8")))>>),
   v128_xor |-> H(0, Vector2 \o <<PushLanes("u8", Bitwise2("bitxor", A("u8"), B("u8")))>>),
   v128_any_true |-> H(0, Vector1 \o <<Push("i32", AnyTrue(A("u8")))>>)]
all_true_instruction(t) == H(0, Vector1 \o <<Push("i32", AllTrue(A(t)))>>)
bitmask_instruction(t) == H(0, Vector1 \o <<Push("u32", MoveMask(A(t)))>>)

op_v128_bitselect ==
  LET mask == LanesOf("u8", V("mask"))
  IN H(0, <<Pop("mask", "u128")>> \o Vector2
            \o <<PushLanes("u8", Bitwise2("or", Bitwise2("and", A("u8"), mask), Bitwise2("and", B("u8"), Negated(mask))))>>)

(* Shifts; the count is taken modulo the width of a lane.                  *)
shl_instruction(t) == H(0, <<Pop("n", "u32"), Pop("a", "u128"), PushLanes(t, ShiftEach("wasm_shl", t, A(t), V("n")))>>)
shr_instruction(t) == H(0, <<Pop("n", "u32"), Pop("a", "u128"), PushLanes(t, ShiftEach("wasm_shr_s", t, A(t), V("n")))>>)

-----------------------------------------------------------------------------
(* Conversions.                                                            *)
Converted(fn, t, u, xs) == H(0, Vector1 \o <<PushLanes(u, Each(fn, t, u, xs))>>)
PadWithZeros(fn, t, u) == H(0, Vector1 \o <<PushLanes(u, Cat(Each(fn, t, u, A(t)), Zeros(2)))>>)
VectorTruncSat ==
  [i32x4_trunc_sat_f32x4_s |-> Converted("trunc_as", "f32", "i32", A("f32")),
   i32x4_trunc_sat_f32x4_u |-> Converted("trunc_as", "f32", "u32", A("f32")),
   i32x4_trunc_sat_f64x2_s |-> PadWithZeros("trunc_as", "f64", "i32"),
   i32x4_trunc_sat_f64x2_u |-> PadWithZeros("trunc_as", "f64", "u32"),
   f32x4_convert_i32x4_s |-> Converted("as", "i32", "f32", A("i32"))]
VectorConverts ==
  [f32x4_convert_i32x4_u |-> Converted("as", "u32", "f32", A("u32")),
   f64x2_convert_low_i32x4_s |-> Converted("as", "i32", "f64", HalfOf("low", A("i32"))),
   f64x2_convert_low_i32x4_u |-> Converted("as", "u32", "f64", HalfOf("low", A("u32")))]
narrow_instruction(t, u) ==
  H(0, Vector2 \o <<PushLanes(u, Cat(Each("clamp", t, u, A(t)), Each("clamp", t, u, B(t))))>>)
FloatWidths ==
  [f32x4_demote_f64x2_zero |->
      H(0, Vector1 \o <<PushLanes("f32", Cat(Each("as", "f64", "f32", A("f64")), FloatZeros(2)))>>),
   f64x2_promote_low_f32x4 |-> Converted("as", "f32", "f64", HalfOf("low", A("f32")))]
extend_instruction(part, t, u) == Converted("as", t, u, HalfOf(part, A(t)))

-----------------------------------------------------------------------------
(* Lane-wise arithmetic.                                                   *)
handle_unary_op(fn, t) == H(0, Vector2 \o <<PushLanes(t, ZipWith(fn, t, t, A(t), B(t)))>>)
handle_binary_op(fn, t) == H(0, Vector1 \o <<PushLanes(t, Each(fn, t, t, A(t)))>>)
(* Comparisons give lanes of ones or zeros, also between floats.           *)
MaskType(t) == CASE t = "f32" -> "u32" [] t = "f64" -> "u64" [] OTHER -> t
define_simd_cmp_operation(fn, t) ==
  H(0, Vector2 \o <<PushLanes(MaskType(t), Each("wrapping_neg", MaskType(t), MaskType(t), ZipWith(fn, t, t, A(t), B(t))))>>)
CmpNot(fn, t) ==
  H(0, Vector2 \o <<PushLanes(t, Each("not", t, t, Each("wrapping_neg", t, t, ZipWith(fn, t, t, A(t), B(t)))))>>)

avgr(t) == handle_unary_op("avgr", t)
u8x16_popcnt == handle_binary_op("count_ones", "u8")
add_lanes(t) == handle_unary_op(IF IsFloat(t) THEN "add" ELSE "wrapping_add", t)
add_sat(t) == handle_unary_op("saturating_add", t)
sub_lanes(t) == handle_unary_op(IF IsFloat(t) THEN "sub" ELSE "wrapping_sub", t)
sub_sat(t) == handle_unary_op("saturating_sub", t)
mul_lanes(t) == handle_unary_op(IF IsFloat(t) THEN "mul" ELSE "wrapping_mul", t)
div_lanes(t) == handle_unary_op("div", t)
i8x16_swizzle == H(0, Vector2 \o <<PushLanes("i8", Choose(A("i8"), B("u8")))>>)
min_lanes(t) == handle_unary_op("min", t)
max_lanes(t) == handle_unary_op("max", t)
pmin_lanes(t) == handle_unary_op("pmin", t)
pmax_lanes(t) == handle_unary_op("pmax", t)
abs_lanes(t) == handle_binary_op(IF IsFloat(t) THEN "abs" ELSE "wrapping_abs", t)
round_lanes(fn, t) == handle_binary_op(fn, t)
(* Two's complement: the bits flipped, plus one.                           *)
FlipPlusOne(t) ==
  H(0, Vector1 \o <<PushLanes(t, ZipWith("wrapping_add", t, t, Each("not", t, t, A(t)), Splat(t, N(1))))>>)
Negations ==
  [i64x2_abs |-> handle_binary_op("wrapping_abs", "i64"),
   i64x2_neg |-> handle_binary_op("wrapping_neg", "i64"),
   f32x4_neg |-> handle_binary_op("neg", "f32"),
   f64x2_neg |-> handle_binary_op("neg", "f64"),
   i8x16_neg |-> FlipPlusOne("i8"),
   i16x8_neg |-> FlipPlusOne("i16")]
i32x4_neg == FlipPlusOne("i32")
sqrt_lanes(t) == handle_binary_op("sqrt", t)

ExtAdd(t, u) == H(0, Vector1 \o <<PushLanes(u, ZipWith("wrapping_add", u, u, HalfOf("even", A(t)), HalfOf("odd", A(t))))>>)
PairwiseSums ==
  [i16x8_extadd_pairwise_i8x16 |-> ExtAdd("i8", "i16"),
   u16x8_extadd_pairwise_i8x16 |-> ExtAdd("u8", "u16"),
   i32x4_extadd_pairwise_i16x8 |-> ExtAdd("i16", "i32"),
   u32x4_extadd_pairwise_i16x8 |-> ExtAdd("u16", "u32")]
i16x8_q15mulr_sat_s == handle_unary_op("q15mulr_sat_s", "i16")

(* These pop their operands in the other order, which a product forgives.  *)
VectorsFlipped == <<Pop("a", "u128"), Pop("b", "u128")>>
ExtMul(part, t, u) ==
  H(0, VectorsFlipped \o <<PushLanes(u, ZipWith("wrapping_mul", u, u, HalfOf(part, A(t)), HalfOf(part, B(t))))>>)
ExtMul16 ==
  [i16x8_extmul_low |-> ExtMul("low", "i8", "i16"),
   i16x8_extmul_high |-> ExtMul("high", "i8", "i16"),
   u16x8_extmul_low |-> ExtMul("low", "u8", "u16"),
   u16x8_extmul_high |-> ExtMul("high", "u8", "u16"),
   i32x4_extmul_low |-> ExtMul("low", "i16", "i32"),
   i32x4_extmul_high |-> ExtMul("high", "i16", "i32")]
ExtMul32 ==
  [i64x2_sub |-> handle_unary_op("wrapping_sub", "i64"),
   i64x2_mul |-> handle_unary_op("wrapping_mul", "i64"),
   u32x4_extmul_low |-> ExtMul("low", "u16", "u32"),
   u32x4_extmul_high |-> ExtMul("high", "u16", "u32"),
   i64x2_extmul_low_i32x4_s |-> ExtMul("low", "i32", "i64")]
ExtMul64 ==
  [i64x2_extmul_high_i32x4_s |-> ExtMul("high", "i32", "i64"),
   i64x2_extmul_low_i32x4_u |-> ExtMul("low", "u32", "u64"),
   i64x2_extmul_high_i32x4_u |-> ExtMul("high", "u32", "u64"),
   i32x4_dot_i16x8 |->
      LET products == ZipWith("wrapping_mul", "i32", "i32", A("i16"), B("i16"))
      IN H(0, VectorsFlipped \o <<PushLanes("i32", ZipWith("wrapping_add", "i32", "i32",
                                                           HalfOf("even", products), HalfOf("odd",
                                                                                            products)))>>)]

=============================================================================
