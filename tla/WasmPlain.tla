----------------------------- MODULE WasmPlain ------------------------------
(***************************************************************************)
(* The reference for the numeric instructions: the definitions of the      *)
(* WebAssembly specification (integer and float operations, conversions)   *)
(* in the order of their opcodes, over sets of bits and mathematical       *)
(* integers rather than machine operations.  An operand is its unsigned    *)
(* bits, or a float; <<>> is a trap.                                       *)
(***************************************************************************)
EXTENDS Values

Named(t, names) == [i \in 1 .. Len(names) |-> <<t, names[i], t>>]
IntCompare == <<"eqz", "eq", "ne", "lt_s", "lt_u", "gt_s", "gt_u", "le_s", "le_u", "ge_s", "ge_u">>
FloatCompare == <<"eq", "ne", "lt", "gt", "le", "ge">>
IntOps == <<"clz", "ctz", "popcnt", "add", "sub", "mul", "div_s", "div_u", "rem_s", "rem_u",
            "and", "or", "xor", "shl", "shr_s", "shr_u", "rotl", "rotr">>
FloatNames == <<"abs", "neg", "ceil", "floor", "trunc", "nearest", "sqrt",
              "add", "sub", "mul", "div", "min", "max", "copysign">>
TruncOps(t, name_s, name_u) ==
  <<<<t, name_s, "f32">>, <<t, name_u, "f32">>, <<t, name_s, "f64">>, <<t, name_u, "f64">>>>
ConvertOps(t) ==
  <<<<t, "convert_s", "i32">>, <<t, "convert_u", "i32">>,
    <<t, "convert_s", "i64">>, <<t, "convert_u", "i64">>>>

(* <<result type, instruction, operand type>> for 0x41 to 0xC4, then 0xFC. *)
SpecNumeric ==
  <<<<"i32", "const", "i32">>, <<"i64", "const", "i64">>,
    <<"f32", "const", "f32">>, <<"f64", "const", "f64">>>>
    \o Named("i32", IntCompare) \o Named("i64", IntCompare)
    \o Named("f32", FloatCompare) \o Named("f64", FloatCompare)
    \o Named("i32", IntOps) \o Named("i64", IntOps)
    \o Named("f32", FloatNames) \o Named("f64", FloatNames)
    \o <<<<"i32", "wrap", "i64">>>> \o TruncOps("i32", "trunc_s", "trunc_u")
    \o <<<<"i64", "extend_s", "i32">>, <<"i64", "extend_u", "i32">>>>
    \o TruncOps("i64", "trunc_s", "trunc_u")
    \o ConvertOps("f32") \o <<<<"f32", "demote", "f64">>>>
    \o ConvertOps("f64") \o <<<<"f64", "promote", "f32">>>>
    \o <<<<"i32", "reinterpret", "f32">>, <<"i64", "reinterpret", "f64">>,
         <<"f32", "reinterpret", "i32">>, <<"f64", "reinterpret", "i64">>>>
    \o Named("i32", <<"extend8_s", "extend16_s">>)
    \o Named("i64", <<"extend8_s", "extend16_s", "extend32_s">>)
    \o TruncOps("i32", "trunc_sat_s", "trunc_sat_u")
    \o TruncOps("i64", "trunc_sat_s", "trunc_sat_u")

IsTest(name) == name \in Range(IntCompare) \cup Range(FloatCompare)
IsBinaryOp(t, name) ==
  IF IsFloat(t) THEN name \in {"add", "sub", "mul", "div", "min", "max", "copysign"} \cup Range(FloatCompare)
  ELSE name \in (Range(IntOps) \ {"clz", "ctz", "popcnt"}) \cup (Range(IntCompare) \ {"eqz"})

SpecTakes(s) ==
  IF s[2] = "const" THEN <<>>
  ELSE IF s[1] = s[3] /\ IsBinaryOp(s[1], s[2]) THEN <<s[3], s[3]>> ELSE <<s[3]>>
SpecGives(s) == IF s[1] = s[3] /\ IsTest(s[2]) THEN "i32" ELSE s[1]

-----------------------------------------------------------------------------
FromBits(bits) == FoldSet(LAMBDA i, acc : acc + 2^i, 0, bits)
Truth(b) == <<IF b THEN 1 ELSE 0>>
SignExtended(n, m, a) == Signed(m, a % 2^m) % 2^n

IntSpec(name, n, a, b) ==
  LET A == BitSet(n, a)
      B == BitSet(n, b)
      sa == Signed(n, a)
      sb == Signed(n, b)
      k == b % n
      fill == IF (n - 1) \in A THEN (n - k) .. (n - 1) ELSE {}
  IN CASE name = "eqz" -> Truth(a = 0)
       [] name = "eq" -> Truth(a = b) [] name = "ne" -> Truth(a # b)
       [] name = "lt_s" -> Truth(sa < sb) [] name = "lt_u" -> Truth(a < b)
       [] name = "gt_s" -> Truth(sa > sb) [] name = "gt_u" -> Truth(a > b)
       [] name = "le_s" -> Truth(sa <= sb) [] name = "le_u" -> Truth(a <= b)
       [] name = "ge_s" -> Truth(sa >= sb) [] name = "ge_u" -> Truth(a >= b)
       [] name = "clz" -> <<CHOOSE i \in 0 .. n : a < 2^(n - i) /\ (i = n \/ a >= 2^(n - i - 1))>>
       [] name = "ctz" -> <<CHOOSE i \in 0 .. n : a % 2^i = 0 /\ (i = n \/ a % 2^(i + 1) # 0)>>
       [] name = "popcnt" -> <<Cardinality(A)>>
       [] name = "add" -> <<(a + b) % 2^n>>
       [] name = "sub" -> <<(a - b) % 2^n>>
       [] name = "mul" -> <<(sa * sb) % 2^n>>
       [] name = "div_u" -> IF b = 0 THEN <<>> ELSE <<a \div b>>
       [] name = "div_s" ->
            IF b = 0 \/ (sa = -(2^(n - 1)) /\ sb = -1) THEN <<>> ELSE <<TruncDiv(sa, sb) % 2^n>>
       [] name = "rem_u" -> IF b = 0 THEN <<>> ELSE <<a % b>>
       [] name = "rem_s" -> IF b = 0 THEN <<>> ELSE <<(sa - sb * TruncDiv(sa, sb)) % 2^n>>
       [] name = "and" -> <<FromBits(A \cap B)>>
       [] name = "or" -> <<FromBits(A \cup B)>>
       [] name = "xor" -> <<FromBits((A \cup B) \ (A \cap B))>>
       [] name = "shl" -> <<FromBits({i + k : i \in {j \in A : j + k < n}})>>
       [] name = "shr_u" -> <<FromBits({i - k : i \in {j \in A : j >= k}})>>
       [] name = "shr_s" -> <<FromBits({i - k : i \in {j \in A : j >= k}} \cup fill)>>
       [] name = "rotl" -> <<FromBits({(i + k) % n : i \in A})>>
       [] name = "rotr" -> <<FromBits({(i - k) % n : i \in A})>>
       [] name = "extend8_s" -> <<SignExtended(n, Bits("i8"), a)>>
       [] name = "extend16_s" -> <<SignExtended(n, Bits("i16"), a)>>
       [] name = "extend32_s" -> <<SignExtended(n, Bits("i32"), a)>>

(* The multiples of One around the number n.                               *)
Around(n) == {One * (IntPart(n) + d) : d \in {-1, 0, 1}}
Below(n) == CHOOSE m \in Around(n) : m <= n /\ n < m + One
Above(n) == CHOOSE m \in Around(n) : n <= m /\ m < n + One
Closest(n) ==
  CHOOSE m \in Around(n) :
    \A o \in Around(n) \ {m} :
      \/ AbsInt(m - n) < AbsInt(o - n)
      \/ AbsInt(m - n) = AbsInt(o - n) /\ m % (2 * One) = 0
Rounded(f, n) == IF f[1] = "num" THEN <<Float(n, FloatSign(f))>> ELSE <<f>>
WithSign(f, s) ==
  IF IsNaN(f) THEN f ELSE IF f[1] = "num" THEN <<"num", s * AbsInt(f[2])>> ELSE <<f[1], s>>
FloatRelation(a, b, truth) == Truth(~IsNaN(a) /\ ~IsNaN(b) /\ truth)
Opposite(a, b) == a[1] = "zero" /\ b[1] = "zero" /\ a # b

FloatSpec(name, a, b) ==
  LET x == Magnitude(a)
      y == Magnitude(b)
      nan == IsNaN(a) \/ IsNaN(b)
  IN CASE name = "eq" -> FloatRelation(a, b, x = y) [] name = "ne" -> Truth(nan \/ x # y)
       [] name = "lt" -> FloatRelation(a, b, x < y) [] name = "gt" -> FloatRelation(a, b, y < x)
       [] name = "le" -> FloatRelation(a, b, x <= y) [] name = "ge" -> FloatRelation(a, b, y <= x)
       [] name = "abs" -> <<WithSign(a, 1)>>
       [] name = "neg" -> <<WithSign(a, -FloatSign(a))>>
       [] name = "copysign" -> <<WithSign(a, FloatSign(b))>>
       [] name = "ceil" -> Rounded(a, Above(x)) [] name = "floor" -> Rounded(a, Below(x))
       [] name = "trunc" -> Rounded(a, IF x < 0 THEN Above(x) ELSE Below(x))
       [] name = "nearest" -> Rounded(a, Closest(x))
       [] name = "sqrt" -> <<<<"sym", <<"sqrt", a>>>>>>
       [] name \in {"add", "mul"} -> <<<<"sym", <<name, {a, b}>>>>>>
       [] name \in {"sub", "div"} -> <<<<"sym", <<name, a, b>>>>>>
       [] name = "min" ->
            <<IF nan THEN NaN ELSE IF Opposite(a, b) THEN Zero(-1) ELSE IF x <= y THEN a ELSE b>>
       [] name = "max" ->
            <<IF nan THEN NaN ELSE IF Opposite(a, b) THEN Zero(1) ELSE IF y <= x THEN a ELSE b>>

SpecInt(t, signed) == IF signed THEN t ELSE IF t = "i32" THEN "u32" ELSE "u64"
Fits(t, f) == f[1] \in {"num", "zero"} /\ InRange(t, IntPart(Magnitude(f)))
ConvertSpec(t, name, u, a) ==
  LET signed == name \in {"trunc_s", "trunc_sat_s", "convert_s", "extend_s"}
      v == SpecInt(t, signed)
      n == IF signed THEN Signed(Bits(u), a) ELSE a
  IN CASE name = "wrap" -> <<a % 2^Bits(t)>>
       [] name \in {"extend_s", "extend_u"} -> <<n % 2^Bits(t)>>
       [] name \in {"convert_s", "convert_u"} -> <<Float(RoundTo(Prec(t), n * One), 1)>>
       [] name \in {"trunc_s", "trunc_u"} ->
            IF Fits(v, a) THEN <<IntPart(Magnitude(a)) % 2^Bits(t)>> ELSE <<>>
       [] name \in {"trunc_sat_s", "trunc_sat_u"} ->
            IF IsNaN(a) THEN <<0>> ELSE <<Saturate(v, IntPart(Magnitude(a))) % 2^Bits(t)>>
       [] name = "demote" -> IF a[1] = "num" THEN <<Float(RoundTo(F32Prec, a[2]), FloatSign(a))>> ELSE <<a>>
       [] name \in {"promote", "reinterpret"} -> <<a>>

(* The result of instruction s on the operands xs, the deepest one first.  *)
SpecResult(s, xs, imm) ==
  CASE s[2] = "const" -> <<imm>>
    [] s[1] # s[3] -> ConvertSpec(s[1], s[2], s[3], xs[1])
    [] IsFloat(s[1]) -> FloatSpec(s[2], xs[1], xs[Len(xs)])
    [] OTHER -> IntSpec(s[2], Bits(s[1]), xs[1], xs[Len(xs)])
-----------------------------------------------------------------------------
(***************************************************************************)
(* The reference for the vector instructions that do not touch memory: the *)
(* definitions of the WebAssembly specification by opcode, lane by lane,   *)
(* on unsigned lanes.  A vector is as in Numeric: sixteen bytes, or the    *)
(* floats it is made of.                                                   *)
(***************************************************************************)

Block(code, kind, t, names) == [c \in code .. (code + Len(names) - 1) |-> <<kind, names[c - code + 1], t>>]
Entry(code, kind, name, t) == Block(code, kind, t, <<name>>)

ShiftNames == <<"shl", "shr_s", "shr_u">>
SatNames == <<"add", "add_sat_s", "add_sat_u", "sub", "sub_sat_s", "sub_sat_u">>
MinMaxNames == <<"min_s", "min_u", "max_s", "max_u">>
HalfNames == <<"low_s", "high_s", "low_u", "high_u">>
FloatPair == <<"add", "sub", "mul", "div", "min", "max", "pmin", "pmax">>

(* <<kind, instruction, lane type of the operands>> by opcode.             *)
SpecSimd ==
  Entry(12, "const", "const", "i8") @@ Entry(13, "shuffle", "shuffle", "i8") @@ Entry(14, "swizzle", "swizzle", "i8")
    @@ Entry(15, "splat", "splat", "i8") @@ Entry(16, "splat", "splat", "i16") @@ Entry(17, "splat", "splat", "i32")
    @@ Entry(18, "splat", "splat", "i64") @@ Entry(19, "splat", "splat", "f32") @@ Entry(20, "splat", "splat", "f64")
    @@ Block(21, "lane", "i8", <<"extract_s", "extract_u", "replace">>)
    @@ Block(24, "lane", "i16", <<"extract_s", "extract_u", "replace">>)
    @@ Block(27, "lane", "i32", <<"extract_u", "replace">>) @@ Block(29, "lane", "i64", <<"extract_u", "replace">>)
    @@ Block(31, "lane", "f32", <<"extract_u", "replace">>) @@ Block(33, "lane", "f64", <<"extract_u", "replace">>)
    @@ Block(35, "compare", "i8", Tail(IntCompare)) @@ Block(45, "compare", "i16", Tail(IntCompare))
    @@ Block(55, "compare", "i32", Tail(IntCompare)) @@ Block(65, "compare", "f32", FloatCompare)
    @@ Block(71, "compare", "f64", FloatCompare)
    @@ Block(77, "bits", "i8", <<"not", "and", "andnot", "or", "xor", "bitselect">>)
    @@ Entry(83, "test", "any_true", "i8") @@ Entry(94, "demote", "demote", "f64") @@ Entry(95, "promote", "promote", "f32")
    @@ Block(96, "one", "i8", <<"abs", "neg", "popcnt">>) @@ Block(99, "test", "i8", <<"all_true", "bitmask">>)
    @@ Block(101, "narrow", "i16", <<"s", "u">>) @@ Block(103, "one", "f32", <<"ceil", "floor", "trunc", "nearest">>)
    @@ Block(107, "shift", "i8", ShiftNames) @@ Block(110, "two", "i8", SatNames)
    @@ Block(116, "one", "f64", <<"ceil", "floor">>) @@ Block(118, "two", "i8", MinMaxNames)
    @@ Entry(122, "one", "trunc", "f64") @@ Entry(123, "two", "avgr_u", "i8")
    @@ Block(124, "extadd", "i8", <<"s", "u">>) @@ Block(126, "extadd", "i16", <<"s", "u">>)
    @@ Block(128, "one", "i16", <<"abs", "neg">>) @@ Entry(130, "two", "q15mulr_sat_s", "i16")
    @@ Block(131, "test", "i16", <<"all_true", "bitmask">>) @@ Block(133, "narrow", "i32", <<"s", "u">>)
    @@ Block(135, "extend", "i8", HalfNames) @@ Block(139, "shift", "i16", ShiftNames)
    @@ Block(142, "two", "i16", SatNames) @@ Entry(148, "one", "nearest", "f64") @@ Entry(149, "two", "mul", "i16")
    @@ Block(150, "two", "i16", MinMaxNames) @@ Entry(155, "two", "avgr_u", "i16")
    @@ Block(156, "extmul", "i8", HalfNames) @@ Block(160, "one", "i32", <<"abs", "neg">>)
    @@ Block(163, "test", "i32", <<"all_true", "bitmask">>) @@ Block(167, "extend", "i16", HalfNames)
    @@ Block(171, "shift", "i32", ShiftNames) @@ Entry(174, "two", "add", "i32") @@ Entry(177, "two", "sub", "i32")
    @@ Entry(181, "two", "mul", "i32") @@ Block(182, "two", "i32", MinMaxNames) @@ Entry(186, "dot", "dot", "i16")
    @@ Block(188, "extmul", "i16", HalfNames) @@ Block(192, "one", "i64", <<"abs", "neg">>)
    @@ Block(195, "test", "i64", <<"all_true", "bitmask">>) @@ Block(199, "extend", "i32", HalfNames)
    @@ Block(203, "shift", "i64", ShiftNames) @@ Entry(206, "two", "add", "i64") @@ Entry(209, "two", "sub", "i64")
    @@ Entry(213, "two", "mul", "i64") @@ Block(214, "compare", "i64", <<"eq", "ne", "lt_s", "gt_s", "le_s", "ge_s">>)
    @@ Block(220, "extmul", "i32", HalfNames) @@ Block(224, "one", "f32", <<"abs", "neg">>)
    @@ Entry(227, "one", "sqrt", "f32") @@ Block(228, "two", "f32", FloatPair) @@ Block(236, "one", "f64", <<"abs", "neg">>)
    @@ Entry(239, "one", "sqrt", "f64") @@ Block(240, "two", "f64", FloatPair)
    @@ Block(248, "trunc_sat", "f32", <<"s", "u">>) @@ Block(250, "convert", "i32", <<"s", "u">>)
    @@ Block(252, "trunc_sat", "f64", <<"s", "u">>) @@ Block(254, "convert_low", "i32", <<"s", "u">>)

-----------------------------------------------------------------------------
LanesIn(t) == 16 \div Bytes[t]
(* The unsigned lanes of a vector, and the vector of such lanes.           *)
Lanes(t, v) ==
  IF IsFloat(t) THEN v.x
  ELSE [i \in 1 .. LanesIn(t) |->
          FoldSet(LAMBDA k, acc : acc + v.x[Bytes[t] * (i - 1) + k + 1] * 2^(ByteBits * k), 0, 0 .. (Bytes[t] - 1))]
OfLanes(t, xs) ==
  IF IsFloat(t) THEN [made_of |-> t, x |-> xs]
  ELSE [made_of |-> "bytes",
        x |-> [j \in 1 .. 16 |-> (xs[(j + Bytes[t] - 1) \div Bytes[t]] \div 2^(ByteBits * ((j - 1) % Bytes[t]))) % 2^ByteBits]]
Wider(t) == CASE t = "i8" -> "i16" [] t = "i16" -> "i32" [] t = "i32" -> "i64" [] t = "f32" -> "f64"
Narrower(t) == CASE t = "i16" -> "i8" [] t = "i32" -> "i16" [] t = "f64" -> "f32"
Unsigned(t) == CASE t = "i8" -> "u8" [] t = "i16" -> "u16" [] t = "i32" -> "u32" [] t = "i64" -> "u64"
AsSigned(t, signed, x) == IF signed THEN Signed(Bits(t), x) ELSE x
SatTo(t, signed, x) == Saturate(IF signed THEN t ELSE Unsigned(t), x) % 2^Bits(t)

IntPairSpec(name, t, a, b) ==
  LET sa == Signed(Bits(t), a)
      sb == Signed(Bits(t), b)
  IN CASE name = "add_sat_s" -> SatTo(t, TRUE, sa + sb) [] name = "add_sat_u" -> SatTo(t, FALSE, a + b)
       [] name = "sub_sat_s" -> SatTo(t, TRUE, sa - sb) [] name = "sub_sat_u" -> SatTo(t, FALSE, a - b)
       [] name = "min_s" -> IF sa < sb THEN a ELSE b [] name = "max_s" -> IF sa < sb THEN b ELSE a
       [] name = "min_u" -> IF a < b THEN a ELSE b [] name = "max_u" -> IF a < b THEN b ELSE a
       [] name = "avgr_u" -> (a + b + 1) \div 2
       [] name = "q15mulr_sat_s" -> SatTo(t, TRUE, (sa * sb + 2^(Bits(t) - 2)) \div 2^(Bits(t) - 1))
       [] OTHER -> IntSpec(name, Bits(t), a, b)[1]
FloatPairSpec(name, a, b) ==
  CASE name = "pmin" -> IF FloatSpec("lt", b, a) = <<1>> THEN b ELSE a
    [] name = "pmax" -> IF FloatSpec("lt", a, b) = <<1>> THEN b ELSE a
    [] OTHER -> FloatSpec(name, a, b)[1]
PairSpec(name, t, a, b) == IF IsFloat(t) THEN FloatPairSpec(name, a, b) ELSE IntPairSpec(name, t, a, b)
SingleSpec(name, t, a) ==
  IF IsFloat(t) THEN FloatSpec(name, a, a)[1]
  ELSE CASE name = "neg" -> (-a) % 2^Bits(t)
         [] name = "abs" -> AbsInt(Signed(Bits(t), a)) % 2^Bits(t)
         [] name = "popcnt" -> Cardinality(BitSet(Bits(t), a))

Mask(t, b) == IF b = <<1>> THEN 2^Bits(t) - 1 ELSE 0
MaskLane(t) == CASE t = "f32" -> "i32" [] t = "f64" -> "i64" [] OTHER -> t
SignedName(name) == name \in {"s", "low_s", "high_s", "extract_s"}
From2(name) == IF name \in {"high_s", "high_u"} THEN 1 ELSE 0

(* The result on the operands xs, with the lane or the bytes imm.          *)
SimdSpec(s, xs, imm) ==
  LET t == s[3]
      a == Lanes(t, xs[1])
      b == Lanes(t, xs[2])
      n == LanesIn(t)
      h == n \div 2
      signed == SignedName(s[2])
      half(v) == [i \in 1 .. h |-> AsSigned(t, signed, v[From2(s[2]) * h + i])]
      wide(v) == OfLanes(Wider(t), [i \in 1 .. h |-> v[i] % 2^Bits(Wider(t))])
  IN CASE s[1] = "const" -> [made_of |-> "bytes", x |-> imm]
       [] s[1] = "shuffle" -> OfLanes(t, [i \in 1 .. n |-> (a \o b)[imm[i] + 1]])
       [] s[1] = "swizzle" -> OfLanes(t, [i \in 1 .. n |-> IF b[i] < n THEN a[b[i] + 1] ELSE 0])
       [] s[1] = "splat" -> OfLanes(t, [i \in 1 .. n |-> IF IsFloat(t) THEN xs[1] ELSE xs[1] % 2^Bits(t)])
       [] s[1] = "lane" /\ s[2] = "replace" ->
            OfLanes(t, [a EXCEPT ![imm + 1] = IF IsFloat(t) THEN xs[2] ELSE xs[2] % 2^Bits(t)])
       [] s[1] = "lane" -> IF IsFloat(t) THEN a[imm + 1] ELSE AsSigned(t, signed, a[imm + 1]) % 2^Max({Bits(t), Bits("i32")})
       [] s[1] = "compare" ->
            OfLanes(MaskLane(t), [i \in 1 .. n |-> Mask(t, IF IsFloat(t) THEN FloatSpec(s[2], a[i], b[i])
                                                           ELSE IntSpec(s[2], Bits(t), a[i], b[i]))])
       [] s[1] = "bits" ->
            LET all == 2^Bits(t) - 1
                c == Lanes(t, xs[3])
            IN OfLanes(t, [i \in 1 .. n |->
                 CASE s[2] = "not" -> all - a[i]
                   [] s[2] = "andnot" -> IntSpec("and", Bits(t), a[i], all - b[i])[1]
                   [] s[2] = "bitselect" -> IntSpec("and", Bits(t), a[i], c[i])[1] + IntSpec("and", Bits(t), b[i], all - c[i])[1]
                   [] OTHER -> IntSpec(s[2], Bits(t), a[i], b[i])[1]])
       [] s[1] = "test" ->
            (CASE s[2] = "any_true" -> Truth(\E i \in 1 .. n : a[i] # 0)[1]
               [] s[2] = "all_true" -> Truth(\A i \in 1 .. n : a[i] # 0)[1]
               [] s[2] = "bitmask" -> FromBits({i - 1 : i \in {j \in 1 .. n : a[j] >= 2^(Bits(t) - 1)}}))
       [] s[1] = "one" -> OfLanes(t, [i \in 1 .. n |-> SingleSpec(s[2], t, a[i])])
       [] s[1] = "two" -> OfLanes(t, [i \in 1 .. n |-> PairSpec(s[2], t, a[i], b[i])])
       [] s[1] = "shift" -> OfLanes(t, [i \in 1 .. n |-> IntSpec(s[2], Bits(t), a[i], xs[2] % Bits(t))[1]])
       [] s[1] = "narrow" ->
            OfLanes(Narrower(t), [i \in 1 .. (2 * n) |->
              SatTo(Narrower(t), signed, Signed(Bits(t), IF i <= n THEN a[i] ELSE b[i - n]))])
       [] s[1] = "extend" -> wide(half(a))
       [] s[1] = "extmul" -> wide([i \in 1 .. h |-> half(a)[i] * half(b)[i]])
       [] s[1] = "extadd" -> wide([i \in 1 .. h |-> AsSigned(t, signed, a[2 * i - 1]) + AsSigned(t, signed, a[2 * i])])
       [] s[1] = "dot" ->
            wide([i \in 1 .. h |-> Signed(Bits(t), a[2 * i - 1]) * Signed(Bits(t), b[2 * i - 1])
                                     + Signed(Bits(t), a[2 * i]) * Signed(Bits(t), b[2 * i])])
       [] s[1] = "demote" ->
            OfLanes("f32", [i \in 1 .. 4 |-> IF i <= 2 THEN ConvertSpec("f32", "demote", "f64", a[i])[1] ELSE Zero(1)])
       [] s[1] = "promote" -> OfLanes("f64", [i \in 1 .. 2 |-> a[i]])
       [] s[1] = "trunc_sat" ->
            OfLanes("i32", [i \in 1 .. 4 |->
              IF i > n THEN 0 ELSE ConvertSpec("i32", IF signed THEN "trunc_sat_s" ELSE "trunc_sat_u", t, a[i])[1]])
       [] s[1] = "convert" ->
            OfLanes("f32", [i \in 1 .. 4 |-> ConvertSpec("f32", IF signed THEN "convert_s" ELSE "convert_u", t, a[i])[1]])
       [] s[1] = "convert_low" ->
            OfLanes("f64", [i \in 1 .. 2 |-> ConvertSpec("f64", IF signed THEN "convert_s" ELSE "convert_u", t, a[i])[1]])

(* What an instruction takes and gives.                                    *)
ScalarOf(t) == IF t \in {"i8", "i16"} THEN "i32" ELSE t
SimdTakes(s) ==
  CASE s[1] = "const" -> <<>>
    [] s[1] = "splat" -> <<ScalarOf(s[3])>>
    [] s[1] = "shift" -> <<"u128", "i32">>
    [] s[2] = "replace" -> <<"u128", ScalarOf(s[3])>>
    [] s[2] = "bitselect" -> <<"u128", "u128", "u128">>
    [] s[1] \in {"shuffle", "swizzle", "compare", "two", "narrow", "extmul", "dot"} -> <<"u128", "u128">>
    [] s[2] \in {"and", "andnot", "or", "xor"} -> <<"u128", "u128">>
    [] OTHER -> <<"u128">>
SimdGives(s) ==
  CASE s[1] = "test" -> "i32"
    [] s[1] = "lane" /\ s[2] # "replace" -> ScalarOf(s[3])
    [] OTHER -> "u128"
-----------------------------------------------------------------------------
(***************************************************************************)
(* The reference for the instructions on memories, tables, segments,       *)
(* globals and locals, after the WebAssembly specification: effective      *)
(* addresses are sums of integers, every range is checked before anything  *)
(* is written, and a trap changes nothing.  A state is a record of mems,   *)
(* ids, inst and locals; x are the immediates of the instruction and xs its*)
(* operands.  An outcome is a normal one with results, a trap, or the      *)
(* suspension of a wait.                                                   *)
(***************************************************************************)

Normal(st, out) == [how |-> "ok", st |-> st, out |-> out]
Trapping(st) == [how |-> "trap", st |-> st, out |-> <<>>]
Waiting(st) == [how |-> "wait", st |-> st, out |-> <<>>]

WordOf(bytes) == FoldSet(LAMBDA k, acc : acc + bytes[k] * 2^(ByteBits * (k - 1)), 0, 1 .. Len(bytes))
ToBytes(n, v) == [k \in 1 .. n |-> (v \div 2^(ByteBits * (k - 1))) % 2^ByteBits]
Within(a, n, xs) == a + n <= Len(xs)
Slice(xs, a, n) == SubSeq(xs, a + 1, a + n)
Patched(xs, a, ys) == SubSeq(xs, 1, a) \o ys \o SubSeq(xs, a + Len(ys) + 1, Len(xs))
Extend(n, signed, v) == IF signed THEN Signed(n * ByteBits, v) ELSE v

(* Reading n bytes, and writing some, in the memory j.                     *)
Read(st, j, ea, n, result(_)) ==
  IF Within(ea, n, st.mems[j].data) THEN Normal(st, <<result(Slice(st.mems[j].data, ea, n))>>) ELSE Trapping(st)
Written(st, j, ea, ys) == [st EXCEPT !.mems[j].data = Patched(@, ea, ys)]
Write(st, j, ea, ys, out) ==
  IF Within(ea, Len(ys), st.mems[j].data) THEN Normal(Written(st, j, ea, ys), out) ELSE Trapping(st)

-----------------------------------------------------------------------------
(* <<type, bytes in memory, sign extension>> of the loads, then the stores,*)
(* in the order of their opcodes.                                          *)
SpecLoads ==
  <<<<"i32", 4, FALSE>>, <<"i64", 8, FALSE>>, <<"f32", 4, FALSE>>, <<"f64", 8, FALSE>>, <<"i32", 1, TRUE>>,
    <<"i32", 1, FALSE>>, <<"i32", 2, TRUE>>, <<"i32", 2, FALSE>>, <<"i64", 1, TRUE>>, <<"i64", 1, FALSE>>,
    <<"i64", 2, TRUE>>, <<"i64", 2, FALSE>>, <<"i64", 4, TRUE>>, <<"i64", 4, FALSE>>>>
SpecStores ==
  <<<<"i32", 4>>, <<"i64", 8>>, <<"f32", 4>>, <<"f64", 8>>, <<"i32", 1>>, <<"i32", 2>>, <<"i64", 1>>, <<"i64", 2>>,
    <<"i64", 4>>>>
AccessSpec(op, x, xs, st) ==
  LET j == st.ids[x.memidx + 1]
      ea == x.memarg + xs[1]
  IN IF op <= Len(SpecLoads)
     THEN LET s == SpecLoads[op] IN Read(st, j, ea, s[2], LAMBDA b : Extend(s[2], s[3], WordOf(b)) % 2^Bits(s[1]))
     ELSE LET s == SpecStores[op - Len(SpecLoads)] IN Write(st, j, ea, ToBytes(s[2], xs[2]), <<>>)
AccessTypes(op) ==
  IF op <= Len(SpecLoads) THEN <<<<"i32">>, <<SpecLoads[op][1]>>>>
  ELSE <<<<"i32", SpecStores[op - Len(SpecLoads)][1]>>, <<>>>>

(* Vectors, by opcode: <<kind, lane type, sign extension>>.                *)
SpecVectorAccess ==
  [c \in {0, 11} |-> <<"whole", "i8", FALSE>>]
    @@ [c \in 1 .. 6 |-> <<"extend", <<"i8", "i8", "i16", "i16", "i32", "i32">>[c], c % 2 = 1>>]
    @@ [c \in 7 .. 10 |-> <<"splat", <<"i8", "i16", "i32", "i64">>[c - 6], FALSE>>]
    @@ [c \in 84 .. 91 |-> <<"lane", <<"i8", "i16", "i32", "i64", "i8", "i16", "i32", "i64">>[c - 83], FALSE>>]
    @@ [c \in 92 .. 93 |-> <<"zero", <<"i32", "i64">>[c - 91], FALSE>>]
VectorAccessSpec(c, x, xs, st) ==
  LET j == st.ids[x.memidx + 1]
      ea == x.memarg + xs[1]
      s == SpecVectorAccess[c]
      t == s[2]
      w == Bytes[t]
      part(b, i) == WordOf(Slice(b, w * (i - 1), w))
  IN CASE c = 0 -> Read(st, j, ea, 16, LAMBDA b : [made_of |-> "bytes", x |-> b])
       [] c = 11 -> Write(st, j, ea, xs[2].x, <<>>)
       [] s[1] = "extend" ->
            Read(st, j, ea, 8, LAMBDA b : OfLanes(Wider(t), [i \in 1 .. (8 \div w) |-> Extend(w, s[3], part(b, i)) % 2^Bits(Wider(t))]))
       [] s[1] = "splat" -> Read(st, j, ea, w, LAMBDA b : OfLanes(t, [i \in 1 .. LanesIn(t) |-> WordOf(b)]))
       [] s[1] = "zero" -> Read(st, j, ea, w, LAMBDA b : OfLanes(t, [i \in 1 .. LanesIn(t) |-> IF i = 1 THEN WordOf(b) ELSE 0]))
       [] c \in 84 .. 87 -> Read(st, j, ea, w, LAMBDA b : OfLanes(t, [Lanes(t, xs[2]) EXCEPT ![x.lane + 1] = WordOf(b)]))
       [] c \in 88 .. 91 -> Write(st, j, ea, Slice(xs[2].x, w * x.lane, w), <<>>)
VectorAccessTypes(c) ==
  <<IF c = 11 \/ c \in 84 .. 91 THEN <<"i32", "u128">> ELSE <<"i32">>, IF c = 11 \/ c \in 88 .. 91 THEN <<>> ELSE <<"u128">>>>

-----------------------------------------------------------------------------
(* Atomics: the width in memory and the type, seven for each operation.    *)
SpecWidths == <<<<4, "i32">>, <<8, "i64">>, <<1, "i32">>, <<2, "i32">>, <<1, "i64">>, <<2, "i64">>, <<4, "i64">>>>
SpecAtomics == <<"load", "store", "add", "sub", "and", "or", "xor", "xchg", "cmpxchg">>
AtomicName(op) == SpecAtomics[((op - 1) \div 7) + 1]
AtomicWidth(op) == SpecWidths[((op - 1) % 7) + 1]
AtomicTypesOf(op) ==
  LET t == AtomicWidth(op)[2]
  IN CASE AtomicName(op) = "load" -> <<<<"i32">>, <<t>>>>
       [] AtomicName(op) = "store" -> <<<<"i32", t>>, <<>>>>
       [] AtomicName(op) = "cmpxchg" -> <<<<"i32", t, t>>, <<t>>>>
       [] OTHER -> <<<<"i32", t>>, <<t>>>>
AtomicSpec(op, x, xs, st) ==
  LET j == st.ids[x.memidx + 1]
      ea == x.memarg + xs[1]
      n == AtomicWidth(op)[1]
      name == AtomicName(op)
      narrow(v) == v % 2^(n * ByteBits)
      old == WordOf(Slice(st.mems[j].data, ea, n))
      replace(v) == Normal(Written(st, j, ea, ToBytes(n, v)), <<old>>)
  IN IF ea % n # 0 \/ ~Within(ea, n, st.mems[j].data) THEN Trapping(st)
     ELSE CASE name = "load" -> Normal(st, <<old>>)
            [] name = "store" -> Normal(Written(st, j, ea, ToBytes(n, xs[2])), <<>>)
            [] name = "xchg" -> replace(xs[2])
            [] name = "cmpxchg" -> IF narrow(xs[2]) = old THEN replace(xs[3]) ELSE Normal(st, <<old>>)
            [] OTHER -> replace(IntSpec(name, n * ByteBits, old, narrow(xs[2]))[1])

(* Notify wakes at most as many as wait at the address; a wait on an equal *)
(* value suspends.                                                         *)
SyncTypes(name) ==
  CASE name = "notify" -> <<<<"i32", "i32">>, <<"i32">>>>
    [] name = "wait32" -> <<<<"i32", "i32", "i64">>, <<"i32">>>>
    [] name = "wait64" -> <<<<"i32", "i64", "i64">>, <<"i32">>>>
    [] name = "fence" -> <<<<>>, <<>>>>
SyncSpec(name, x, xs, st) ==
  LET j == st.ids[x.memidx + 1]
      ea == x.memarg + xs[1]
      n == IF name = "wait64" THEN 8 ELSE 4
      mem == st.mems[j]
      woken == IF ea = 0 /\ mem.shared THEN Min({xs[2], mem.waiting}) ELSE 0
  IN IF name = "fence" THEN Normal(st, <<>>)
     ELSE IF ea % n # 0 \/ ~Within(ea, n, mem.data) THEN Trapping(st)
     ELSE IF name = "notify" THEN Normal([st EXCEPT !.mems[j].waiting = @ - woken], <<woken>>)
     ELSE IF ~mem.shared THEN Trapping(st)
     ELSE IF WordOf(Slice(mem.data, ea, n)) # xs[2] THEN Normal(st, <<1>>) ELSE Waiting(st)

-----------------------------------------------------------------------------
(* Growing may also fail, as the system or the implementation decides.     *)
MinusOne == 2^Bits("i32") - 1
Contents(segment) == IF segment = <<>> THEN <<>> ELSE segment[1]
RefOf(elem, inst) ==
  CASE elem.e = "func" -> inst.funcs[elem.i + 1] [] elem.e = "global" -> inst.globals[elem.i + 1] [] elem.e = "null" -> 0

BulkMemorySpec(name, x, xs, st) ==
  LET j == st.ids[x.memidx + 1]
      mem == st.mems[j]
      pages == Len(mem.data) \div x.page
      data == Contents(st.inst.datas[x.index + 1])
      from == st.mems[st.ids[x.memidx2 + 1]].data
  IN CASE name = "memory.size" -> Normal(st, <<pages>>)
       [] name = "memory.grow" ->
            IF pages + xs[1] > mem.max \/ (xs[1] # 0 /\ ~mem.commits) THEN Normal(st, <<MinusOne>>)
            ELSE Normal([st EXCEPT !.mems[j].data = @ \o [k \in 1 .. (xs[1] * x.page) |-> 0]], <<pages>>)
       [] name = "memory.fill" -> Write(st, j, xs[1], [k \in 1 .. xs[3] |-> xs[2] % 2^ByteBits], <<>>)
       [] name = "memory.copy" -> IF Within(xs[2], xs[3], from) THEN Write(st, j, xs[1], Slice(from, xs[2], xs[3]), <<>>) ELSE Trapping(st)
       [] name = "memory.init" -> IF Within(xs[2], xs[3], data) THEN Write(st, j, xs[1], Slice(data, xs[2], xs[3]), <<>>) ELSE Trapping(st)
       [] name = "data.drop" -> Normal([st EXCEPT !.inst.datas[x.index + 1] = <<>>], <<>>)
BulkTableSpec(name, x, xs, st) ==
  LET i == x.index + 1
      inst == st.inst
      refs == inst.tables[IF name = "table.init" THEN x.index2 + 1 ELSE i].elems
      put(k, at, ys) == IF Within(at, Len(ys), inst.tables[k].elems)
                        THEN Normal([st EXCEPT !.inst.tables[k].elems = Patched(@, at, ys)], <<>>) ELSE Trapping(st)
      elems == [k \in 1 .. Len(Contents(inst.elems[i])) |-> RefOf(Contents(inst.elems[i])[k], inst)]
      from == inst.tables[x.index2 + 1].elems
      max == inst.tables[i].max
  IN CASE name = "table.get" -> IF xs[1] < Len(refs) THEN Normal(st, <<refs[xs[1] + 1]>>) ELSE Trapping(st)
       [] name = "table.set" -> put(i, xs[1], <<xs[2]>>)
       [] name = "table.size" -> Normal(st, <<Len(refs)>>)
       [] name = "table.grow" ->
            IF xs[2] >= 2^(Bits("i32") - 1) \/ (max >= 0 /\ Len(refs) + xs[2] > max) THEN Normal(st, <<MinusOne>>)
            ELSE Normal([st EXCEPT !.inst.tables[i].elems = @ \o [k \in 1 .. xs[2] |-> xs[1]]], <<Len(refs)>>)
       [] name = "table.fill" -> put(i, xs[1], [k \in 1 .. xs[3] |-> xs[2]])
       [] name = "table.copy" -> IF Within(xs[2], xs[3], from) THEN put(i, xs[1], Slice(from, xs[2], xs[3])) ELSE Trapping(st)
       [] name = "table.init" -> IF Within(xs[2], xs[3], elems) THEN put(x.index2 + 1, xs[1], Slice(elems, xs[2], xs[3])) ELSE Trapping(st)
       [] name = "elem.drop" -> Normal([st EXCEPT !.inst.elems[i] = <<>>], <<>>)

VariableSpec(name, x, xs, st) ==
  CASE name = "drop" -> Normal(st, <<>>)
    [] name = "select" -> Normal(st, <<IF xs[3] # 0 THEN xs[1] ELSE xs[2]>>)
    [] name = "local.get" -> Normal(st, <<st.locals[x.index]>>)
    [] name = "local.set" -> Normal([st EXCEPT !.locals[x.index] = xs[1]], <<>>)
    [] name = "local.tee" -> Normal([st EXCEPT !.locals[x.index] = xs[1]], <<xs[1]>>)
    [] name = "global.get" -> Normal(st, <<st.inst.globals[x.index + 1]>>)
    [] name = "global.set" -> Normal([st EXCEPT !.inst.globals[x.index + 1] = xs[1]], <<>>)
    [] name = "ref.null" -> Normal(st, <<0>>)
    [] name = "ref.is_null" -> Normal(st, Truth(xs[1] = 0))
    [] name = "ref.func" -> Normal(st, <<st.inst.funcs[x.index + 1]>>)
VariableTypes(name, t) ==
  CASE name = "drop" -> <<<<t>>, <<>>>>
    [] name = "select" -> <<<<t, t, "i32">>, <<t>>>>
    [] name \in {"local.get", "global.get"} -> <<<<>>, <<t>>>>
    [] name \in {"local.set", "global.set"} -> <<<<t>>, <<>>>>
    [] name = "local.tee" -> <<<<t>>, <<t>>>>

(* The instructions that are not typed by their opcode or a lane.          *)
SyncNames == {"notify", "wait32", "wait64", "fence"}
MemoryNames == {"memory.size", "memory.grow", "memory.fill", "memory.copy", "memory.init", "data.drop"}
TableNames ==
  {"table.get", "table.set", "table.size", "table.grow", "table.fill", "table.copy", "table.init", "elem.drop"}
RefNames == {"ref.null", "ref.is_null", "ref.func"}
NamedTypes(name) ==
  CASE name \in SyncNames -> SyncTypes(name)
    [] name \in {"memory.size", "table.size"} -> <<<<>>, <<"i32">>>>
    [] name = "memory.grow" -> <<<<"i32">>, <<"i32">>>>
    [] name \in {"memory.fill", "memory.copy", "memory.init", "table.copy", "table.init"} -> <<<<"i32", "i32", "i32">>, <<>>>>
    [] name \in {"data.drop", "elem.drop"} -> <<<<>>, <<>>>>
    [] name = "table.get" -> <<<<"i32">>, <<"u32">>>>
    [] name = "table.set" -> <<<<"i32", "u32">>, <<>>>>
    [] name = "table.grow" -> <<<<"u32", "i32">>, <<"i32">>>>
    [] name = "table.fill" -> <<<<"i32", "u32", "i32">>, <<>>>>
    [] name \in {"ref.null", "ref.func"} -> <<<<>>, <<"u32">>>>
    [] name = "ref.is_null" -> <<<<"u32">>, <<"i32">>>>
NamedSpec(name, x, xs, st) ==
  CASE name \in SyncNames -> SyncSpec(name, x, xs, st)
    [] name \in MemoryNames -> BulkMemorySpec(name, x, xs, st)
    [] name \in TableNames -> BulkTableSpec(name, x, xs, st)
    [] name \in RefNames -> VariableSpec(name, x, xs, st)
=============================================================================
