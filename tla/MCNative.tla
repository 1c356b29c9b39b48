------------------------------ MODULE MCNative ------------------------------
(***************************************************************************)
(* Profiles: the p-th one gives every slot, local and operand of a handler *)
(* a value that fits its role, and the number of operands in registers.    *)
(* The roles are read off the handler's own code.                          *)
(***************************************************************************)
EXTENDS NativeCode

(* Profiles from Wild on keep to values that are addresses in the memory.  *)
Wild == 81
Profiles == 2 * Wild
Words(p) == IF p < Wild THEN <<0, 1, 2, 3, 128, 255, 8, 127, 5>> ELSE <<0, 4, 1, 8, 2, 0, 4, 3, 255>>
WideWords == <<0, 1, 2, 3, 32768, 65535, 16, 255, 40000>>
Floats == <<NaN, Inf(1), Inf(-1), Zero(1), Zero(-1), <<"num", 6>>, <<"num", -6>>, <<"num", 1>>, <<"num", 1024>>>>
Ninth(q, n) == q[(n % 9) + 1]
Digit(p, j) == p \div (9^(j % 2))

(* Kinds: <<slot, unit, how many, how many of them on integers>>.          *)
SlotOf(e, n, ints) ==
  IF e.e = "field" THEN {<<e.i, e.div, n, ints>>} ELSE IF e.e = "slot" THEN {<<e.i, 1, n, ints>>} ELSE {}
IntsIn(ops) == Len(SelectSeq(ops, LAMBDA o : ~IsFloat(o[2])))
(* Constants: <<slot, the slot whose last bit tells a constant from a local>>. *)
RECURSIVE KindsIn(_), ConstsIn(_), KindsOf(_), ConstsOf(_), PopsOf(_), WantsShared(_)
KindsIn(e) ==
  CASE e.e = "kind" -> SlotOf(e.n, Len(e.ops), IntsIn(e.ops)) \cup KindsIn(e.a) \cup KindsIn(e.b)
    [] e.e = "fn" -> KindsIn(e.a) \cup KindsIn(e.b)
    [] e.e = "if" -> KindsIn(e.c) \cup KindsIn(e.a) \cup KindsIn(e.b)
    [] OTHER -> {}
ConstsIn(e) ==
  CASE e.e = "slot" -> {<<e.i, -1>>}
    [] e.e = "rhs" -> {<<e.i, e.k>>}
    [] e.e \in {"fn", "kind"} -> ConstsIn(e.a) \cup ConstsIn(e.b)
    [] e.e = "if" -> ConstsIn(e.c) \cup ConstsIn(e.a) \cup ConstsIn(e.b)
    [] OTHER -> {}
Parts(s) == {x \in {"e", "a", "c"} : x \in DOMAIN s} \ (CASE s.kind = "either" -> {"a"} [] s.kind = "groups" -> {"c"} [] OTHER -> {})
KindsOf(code) ==
  UNION {LET s == code[i]
         IN UNION {KindsIn(s[x]) : x \in Parts(s)}
              \cup (IF s.kind \in {"load by", "store by"} THEN SlotOf(s.n, Len(s.ts), Len(s.ts)) ELSE {})
              \cup (IF s.kind \in {"loop", "groups"} THEN KindsOf(s.code) ELSE {})
              \cup (IF s.kind = "either" THEN KindsOf(s.a) \cup KindsOf(s.b) ELSE {}) : i \in DOMAIN code}
ConstsOf(code) ==
  UNION {LET s == code[i]
         IN UNION {ConstsIn(s[x]) : x \in Parts(s)}
              \cup (IF s.kind = "loop" THEN ConstsOf(s.code) ELSE {})
              \cup (IF s.kind = "either" THEN ConstsOf(s.a) \cup ConstsOf(s.b) ELSE {}) : i \in DOMAIN code}
(* What is popped, the top first, and whether it must be a float.          *)
PopsOf(code) ==
  FlattenSeq([i \in DOMAIN code |->
    LET s == code[i]
    IN CASE s.kind = "pop" -> <<<<s.t, FALSE>>>>
         [] s.kind \in {"numeric", "trunc"} -> [j \in DOMAIN s.pops |-> <<s.pops[j], IsFloat(s.pops[j])>>]
         [] s.kind = "groups" -> PopsOf(s.code)
         [] OTHER -> <<>>])
WantsShared(code) ==
  \E i \in DOMAIN code :
    \/ "mem" \in DOMAIN code[i] /\ code[i].mem.shared
    \/ code[i].kind \in {"loop", "groups"} /\ WantsShared(code[i].code)
    \/ code[i].kind = "either" /\ (WantsShared(code[i].a) \/ WantsShared(code[i].b))
CopiesMemory(code) == \E i \in DOMAIN code : code[i].kind = "copy memory"

-----------------------------------------------------------------------------
(* These are selected for integers only.                                   *)
IntegersOnly ==
  {MaskedBranches.op_local_binop32_br_if, ConstAndLocalOps64.op_i32_const_binop_br_if,
   LocalRuns.op_local_get4x3_i32_add_const_binop_i32_add_set4,
   LocalRuns.op_local_get4x3_i32_add_const_binop_i32_add_tee4, LocalRuns.op_local_get4x3_i32_add_const_binop_i32_add_tee4_i32_const_store}
CountOf(h, k, p) == IF h \in IntegersOnly THEN k[4] ELSE k[3]
ChosenKind(h, k, p) == (p + k[1]) % CountOf(h, k, p)
OnFloats(h, p) == \E k \in KindsOf(h.code) : ChosenKind(h, k, p) >= k[4]
KindSlot(h, i, p) ==
  LET ks == {k \in KindsOf(h.code) : k[1] = i}
      parity == IF \E k \in ks : k[2] = 2 THEN (p \div 15) % 2 ELSE 0
  IN parity + FoldSet(LAMBDA k, acc : acc + ChosenKind(h, k, p \div (IF k[2] > 2 THEN 5 ELSE 1)) * k[2], 0, ks)
Small(i, p) == (p * (i + 1) + (p \div 4)) % 4

ByteLanes(k) == [i \in 1 .. 16 |-> (k * i + (i \div 4)) % 4]
VectorFor(h, k) ==
  CASE h = Lanes64AndFloat.f32x4_replace_lane -> from_array("f32", [i \in 1 .. 4 |-> Ninth(Floats, k + i)])
    [] h = Lanes64AndFloat.f64x2_replace_lane -> from_array("f64", [i \in 1 .. 2 |-> Ninth(Floats, k + i)])
    [] OTHER -> from_array("u8", ByteLanes(k))

(* Operands below those of the instruction.  A block that keeps nothing    *)
(* ends with exactly these: with more of them the code differs, which      *)
(* functions with branches show.                                           *)
Filler == [i \in 1 .. 7 |-> <<100 + i, 1, 1>>]
Count(h, p) ==
  CASE h.next.size = 0 -> 0
    [] h \in {LocalRuns.op_local_get4_run, LocalRuns.op_local_get4_run_skip} -> 3 + (p % 14)
    [] OTHER -> 1 + (p % 3)
SlotValue(h, i, p) ==
  CASE h.next.size > 0 /\ i = h.next.i ->
         Count(h, p) * h.next.div + (IF h.next.div > 1 THEN <<1, 2, 4>>[1 + (p % 3)] ELSE 0)
    [] CopiesMemory(h.code) /\ i < 2 ->
         2 * (Small(i, p) \div 2) + (IF Last(h.code)[IF i = 0 THEN "mem" ELSE "from"].shared THEN 1 ELSE 0)
    [] h = op_drop -> 4 * (1 + (p % 4))
    [] h = SelectOps.op_select -> <<4, 8, 16>>[1 + (p % 3)]
    [] h \in {special_block_return, BranchTables.op_loop} ->
         LET size == (p \div 3) % 4 IN 256 * (IF size = 0 THEN Len(Filler) ELSE p % 3) + size
    [] h = BranchTables.special_function_return -> p % 4
    [] h = v128_const -> SubSeq(ByteLanes(p), 8 * i + 1, 8 * i + 8)
    [] h = SplatOps.i8x16_shuffle -> [k \in 1 .. 8 |-> (p * k + i) % 32]
    [] h.code # <<>> /\ h.code[1].kind = "const" ->
         (CASE IsFloat(h.code[1].push) -> Ninth(Floats, p)
            [] h.code[1].push = "i64" -> Ninth(WideWords, p)
            [] OTHER -> Ninth(Words(p), p))
    [] \E k \in KindsOf(h.code) : k[1] = i -> KindSlot(h, i, p)
    [] \E c \in ConstsOf(h.code) : c[1] = i /\ (c[2] < 0 \/ KindSlot(h, c[2], p) % 2 = 1) -> IF OnFloats(h, p) THEN Ninth(Floats, p + i) ELSE Ninth(Words(p), (p \div 2) + i)
    [] OTHER -> Small(i, p)
SlotCount(h, p) == h.next.slots + h.next.size * Count(h, p) + (IF h.next.skip THEN 1 ELSE 0)
SlotsFor(h, p) == [i \in 1 .. SlotCount(h, p) |-> SlotValue(h, i - 1, p)]

OperandOf(h, t, float, p, j) ==
  CASE float \/ (t = "f32" /\ h = Lanes64AndFloat.f32x4_replace_lane) \/ (t = "f64" /\ h = Lanes64AndFloat.f64x2_replace_lane) -> Ninth(Floats, Digit(p, j))
    [] t = "u128" -> VectorFor(h, p + j)
    [] OnFloats(h, p) -> Ninth(Floats, p + j)
    [] Bytes[t] = 8 -> Ninth(WideWords, Digit(p, j))
    [] OTHER -> Ninth(Words(p), Digit(p, j))
PopTypes(h, p) ==
  IF h = SelectOps.op_select
  THEN LET t == <<"u32", "u64", "u128">>[1 + (p % 3)] IN <<<<"u32", FALSE>>, <<t, FALSE>>, <<t, FALSE>>>>
  ELSE PopsOf(h.code)
StackFor(h, p) ==
  LET pops == Reverse(PopTypes(h, p))
  IN Filler \o FlattenSeq([j \in DOMAIN pops |->
       LET t == pops[j][1]
           v == OperandOf(h, t, pops[j][2], p, j)
       IN [c \in 1 .. Cells(t) |-> <<v, c, Cells(t)>>]])

LocalsFor(h, p) == LET values == IF OnFloats(h, p) THEN Floats ELSE Words(p) IN [i \in 0 .. 3 |-> Ninth(values, p + 2 * i)]
(* Bytes as they come, or words that are addresses of one another.         *)
Bytes24(p) ==
  IF p % 3 = 0 THEN <<0, 1, 0, 0, 0, 2, 0, 0, 0, 0, 0, 0, 1, 0, 0, 0, 0, 1, 0, 0, 2, 0, 0, 0>>
  ELSE [i \in 1 .. 24 |-> (p * i + (i \div 4)) % 4]
MemoryFor(shared, bytes, k) ==
  [shared |-> shared, data |-> [i \in 1 .. 24 |-> (bytes[i] + k - 1) % 4], max |-> 7, commits |-> TRUE,
   waiting |-> IF shared THEN 2 ELSE 0]
MemoriesFor(h, p) ==
  LET shared == WantsShared(h.code)
      copies == CopiesMemory(h.code)
      bytes == Bytes24(p)
  IN [k \in 1 .. 4 |-> MemoryFor(IF copies THEN k % 2 = 0 ELSE shared, bytes, k)]
Instance ==
  [tables |-> [k \in 1 .. 4 |-> [elems |-> <<0, 4, 5, 4, 7, k>>, max |-> 8]],
   globals |-> <<12, 14, 16, 18>>, funcs |-> <<21, 22, 23, 24>>,
   datas |-> <<<<<<3, 1, 2>>>>, <<>>, <<<<1, 2>>>>, <<>>>>,
   elems |-> <<<<<<[e |-> "func", i |-> 1], [e |-> "global", i |-> 0], [e |-> "null", i |-> 0]>>>>, <<>>, <<>>, <<>>>>,
   pending |-> FALSE]
(* A fused search ends the block of a loop, which begins with no operand   *)
(* in a register.                                                          *)
IsSearch(h) == \E i \in DOMAIN h.code : h.code[i].kind = "loop"
MCTest(h, p) ==
  [imm |-> SlotsFor(h, p), depth |-> IF IsSearch(h) \/ (p >= Wild /\ p % 3 = 0) THEN 0 ELSE p % (StackRegs + 1),
   m |-> MachineOf(StackFor(h, p), LocalsFor(h, p), MemoriesFor(h, p), Instance, Unlimited)]
MCTests(row) == {MCTest(row.h, p) : p \in 0 .. (Profiles - 1)}
-----------------------------------------------------------------------------
(***************************************************************************)
(* Functions of one argument, with the instructions of one suite.          *)
(***************************************************************************)

ToI32 == BlockType(<<>>, <<"i32">>)
OnI32 == BlockType(<<"i32">>, <<"i32">>)
OpenBlock(kind, type) == Instruction(kind, type, 0, <<>>)
Branch_(name, k) == Instruction(name, Void, k, <<>>)
Local(name, k) == Instruction(name, Void, k, <<>>)
P(names) == {Plainly(n) : n \in names}
Suite(declared, instructions, length) ==
  [type |-> OnI32, declared |-> declared, instructions |-> instructions \cup P({"end"}), length |-> length]

Straight == Local("get", 0)
BlockSuite ==
  Suite(<<>>, P({"const", "drop", "return"}) \cup {Straight, OpenBlock("block", ToI32), OpenBlock("block", Void),
               Branch_("br", 0), Branch_("br_if", 1)}, 7)
IfSuite ==
  Suite(<<>>, P({"const", "else", "add"}) \cup {Straight, OpenBlock("if", ToI32), OpenBlock("if", Void), Branch_("br", 0)}, 8)
ParamSuite ==
  Suite(<<>>, P({"const", "else", "drop"}) \cup {Straight, OpenBlock("if", OnI32), OpenBlock("block", OnI32), Branch_("br_if", 0)}, 8)
LoopSuite ==
  Suite(<<>>, P({"eqz"}) \cup {Straight, OpenBlock("loop", OnI32), OpenBlock("loop", Void), Local("set", 0), Branch_("br_if", 0), Branch_("br", 1)}, 8)
DeadSuite ==
  Suite(<<>>, P({"unreachable", "else", "select", "drop"}) \cup {Straight, OpenBlock("if", ToI32), OpenBlock("loop", Void), Branch_("br", 0)}, 7)
TableSuite ==
  Suite(<<>>, P({"const"}) \cup {Straight, OpenBlock("block", ToI32), OpenBlock("block", Void), Instruction("br_table", Void, 1, <<0>>),
               Instruction("br_table", Void, 0, <<1, 2>>)}, 9)
CallSuite ==
  Suite(<<>>, P({"const", "call", "return_call", "else"}) \cup {Straight, OpenBlock("if", ToI32), OpenBlock("block", ToI32), Branch_("br", 0)}, 7)
LocalSuite ==
  Suite(<<LocalGroup(1, "i64"), LocalGroup(2, "i32"), LocalGroup(1, "i64")>>,
        P({"const64", "wrap", "select"}) \cup {Straight, Local("get", 1), Local("set", 4), Local("tee", 3), Local("get", 4), Local("get", 3)}, 6)
MCSuites == {BlockSuite, IfSuite, ParamSuite, LoopSuite, DeadSuite, TableSuite, CallSuite, LocalSuite}
MCArguments == {0, 1}
-----------------------------------------------------------------------------
(* Only functions, with a return in an arm that may not be taken.          *)
NoTests(r) == {}
ReturnSuite == Suite(<<>>, P({"eqz", "return"}) \cup {Straight, OpenBlock("if", Void)}, 9)
ReturnSuites == {ReturnSuite}
=============================================================================
