---------------------------- MODULE FusedMemory ----------------------------
(***************************************************************************)
(* The superinstructions on the default local memory                       *)
(* (runtime/vm/memory.rs).  A family of handlers that differ in the access *)
(* is a function of the access.                                            *)
(***************************************************************************)
EXTENDS MemoryOps

(* Read at local plus displacement (slots i and i + 1; memarg in the next).*)
Base(i) == Plus(L(i), K(i + 1))
ReadAt(x, n, a, k) == Load(x, I32LoadTypes[n], "u32", Default, a, k)
ReadBase(x, n, i) == ReadAt(x, n, Base(i), i + 2)
ReadU32(x, a, k) == ReadAt(x, "i32_load", a, k)
ReadU8(x, a, k) == ReadAt(x, "i32_load8_u", a, k)
Push4(e) == Push("u32", e)

(* The kinds of access packed into an operand.                             *)
read_i32_scalar_default_at(x, n, a, k) == LoadBy(x, <<"u32", "i8", "u8", "i16", "u16">>, n, a, k)
write_i32_scalar_default_at(n, a, k, e) == StoreBy(<<"u32", "u8", "u16">>, n, a, k, e)
(* Any other kind compares as false.                                       *)
compare_i32_scalar(n, a, b) == OpBy(I32CompareOp, n, a, b)

-----------------------------------------------------------------------------
(* Constant addresses, folded into the memarg.                             *)
ConstBaseLoads ==
  [op_i32_load_const_base |-> H(1, <<Load("v", "u32", "u32", Default, N(0), 0), Push("u32", V("v"))>>),
   op_i64_load_const_base |-> H(1, <<Load("v", "u64", "u64", Default, N(0), 0), Push("u64", V("v"))>>),
   op_f32_load_const_base |-> H(1, <<Load("v", "f32", "f32", Default, N(0), 0), Push("f32", V("v"))>>),
   op_f64_load_const_base |-> H(1, <<Load("v", "f64", "f64", Default, N(0), 0), Push("f64", V("v"))>>),
   op_i32_store_const_base_local4 |-> H(2, <<Store("u32", Default, N(0), 0, L(1))>>)]

LocalBaseTees ==
  [op_load_local_base_tee4 |-> [n \in I32Loads |-> H(4, <<ReadBase("v", n, 0)>> \o Tee("u32", 3, V("v")))],
   op_load_local_base_tee4_local_get4 |->
      [n \in I32Loads |-> H(5, <<ReadBase("v", n, 0)>> \o Tee("u32", 3, V("v")) \o <<Push4(L(4))>>)]]
Narrow == I32Loads \ {"i32_load"}
LoadAddBranches ==
  [op_i32_load_local_base_tee4_br_if |-> H(5, <<ReadBase("v", "i32_load", 0), Set(3, V("v")),
                                                BrIf(V("v"), 4)>>),
   op_i32_load_local_base_tee4_i32_eqz_br_if |->
      H(5, <<ReadBase("v", "i32_load", 0), Set(3, V("v")), BrIf(IsZero(V("v")), 4)>>),
   op_local_get4_i32_load_local_base_i32_add_set4 |->
      H(5, <<ReadBase("v", "i32_load", 1), Set(4, Plus(L(0), V("v")))>>),
   op_local_get4_i32_load_local_base_i32_add_tee4 |->
      H(5, <<ReadBase("v", "i32_load", 1)>> \o Tee("u32", 4, Plus(L(0), V("v"))))]
(* One access beside locals.                                               *)
LocalBaseLoads ==
  [op_local_get4_load_local_base |->
      [n \in I32Loads |-> H(4, <<Push4(L(0)), ReadBase("v", n, 1), Push4(V("v"))>>)],
   op_load_local_base_set4 |-> [n \in I32Loads |-> H(4, <<ReadBase("v", n, 0), Set(3, V("v"))>>)],
   op_load_local_base_tee4_br_if |->
      [n \in Narrow |-> H(5, <<ReadBase("v", n, 0), Set(3, V("v")), BrIf(V("v"), 4)>>)]
        @@ ("i32_load" :> LoadAddBranches.op_i32_load_local_base_tee4_br_if),
   op_load_tee4_br_if |->
      [n \in I32Loads |-> H(3, load_start.pre \o <<ReadAt("v", n, load_start.a, 0), Set(1, V("v")),
                                                   BrIf(V("v"), 2)>>)]]
EqzBranches ==
  [op_load_local_base_tee4_i32_eqz_br_if |->
      [n \in Narrow |-> H(5, <<ReadBase("v", n, 0), Set(3, V("v")), BrIf(IsZero(V("v")), 4)>>)]
        @@ ("i32_load" :> LoadAddBranches.op_i32_load_local_base_tee4_i32_eqz_br_if),
   op_load_tee4_i32_eqz_br_if |->
      [n \in I32Loads |->
         H(3, load_start.pre \o <<ReadAt("v", n, load_start.a, 0), Set(1, V("v")), BrIf(IsZero(V("v")), 2)>>)]]
ConstBaseStores ==
  [op_i64_store_const_base_local8 |-> H(2, <<Store("u64", Default, N(0), 0, L(1))>>),
   op_f32_store_const_base_local4 |-> H(2, <<Store("f32", Default, N(0), 0, L(1))>>),
   op_f64_store_const_base_local8 |-> H(2, <<Store("f64", Default, N(0), 0, L(1))>>),
   op_i32_load_const_base_local_get4_i32_add_set4 |->
      H(3, <<ReadU32("v", N(0), 0), Set(2, Plus(V("v"), L(1)))>>),
   op_local_get4_local_get4_i32_xor_tee4_u8_shl1_i32_load16_u |->
      H(4, <<Let("x", BitXor(L(0), L(1))), Set(2, V("x")),
             ReadAt("v", "i32_load16_u", Shl(BitAnd(V("x"), N(MaxOf("u8"))), N(1)), 3), Push4(V("v"))>>)]
NarrowPairs ==
  [op_i32_store8_local_base_local_get4 |-> H(4, <<Store("u8", Default, Base(0), 3, L(2))>>),
   op_i32_store16_local_base_local_get4 |-> H(4, <<Store("u16", Default, Base(0), 3, L(2))>>)]
copy_scalar_default_at ==
  LET copying(t) == <<Load("v", t, t, Default, Plus(V("src"), K(1)), 2), Store(t, Default, Plus(V("dst"), K(0)), 3, V("v"))>>
      when(w, t, else) == <<Either(Minus(V("width"), N(w)), copying(t), else)>>
  IN when(1, "u8", when(2, "u16", when(4, "u32", when(8, "u64", <<Fail("InvalidOperand")>>))))
LocalBaseCopies ==
  [op_i32_store_local_base_local_get4 |-> H(4, <<Store("u32", Default, Base(0), 3, L(2))>>),
   op_i32_load_store_local_base_local_get4 |->
      HSkip(6, 0, <<Pop("base", "u32"), read_i32_scalar_default_at("v", Byte(0, 0), V("base"), 1),
                    Push4(V("v")),
                    write_i32_scalar_default_at(Byte(0, 1), Base(2), 5, L(4))>>),
   op_scalar_copy_local_base_run |->
      HGroups(3, 4, 0, 256,
        <<Let("width", Byte(0, 0)), Let("dst", L(1)), Let("src", L(2)),
          ForGroups(Byte(0, 1), 3, 4, copy_scalar_default_at)>>)]
op_store_local_base_local_get4 ==
  [i32_store |-> LocalBaseCopies.op_i32_store_local_base_local_get4,
   i32_store8 |-> NarrowPairs.op_i32_store8_local_base_local_get4,
   i32_store16 |-> NarrowPairs.op_i32_store16_local_base_local_get4]

-----------------------------------------------------------------------------
(* Two accesses.  A loaded address is kept in a local and used at once.    *)
LoadAddress == <<ReadBase("addr", "i32_load", 0), Set(3, V("addr"))>>
LoadThrough(n) == LoadAddress \o <<ReadAt("v", n, Plus(V("addr"), K(4)), 5)>>
LocalBasePairs ==
  [op_load_local_base_local_get4 |->
      [n \in I32Loads |-> H(4, <<ReadBase("v", n, 0), Push4(V("v")), Push4(L(3))>>)],
   op_i32_load_local_base_set4_load_local_base |->
      [n \in I32Loads |-> H(6, LoadThrough(n) \o <<Push4(V("v"))>>)],
   op_i32_load_local_base_set4_load_local_base_local_get4 |->
      [n \in I32Loads |-> H(7, LoadThrough(n) \o <<Push4(V("v")), Push4(L(6))>>)],
   op_i32_load_local_base_set4_load_local_base_local_eq_br_if |->
      [n \in I32Loads |-> H(8, LoadThrough(n) \o <<BrIf(Equal(V("v"), L(6)), 7)>>)]]
(* The comparison is eq or ne; any other is false.                         *)
EqOrNe(k, a, b) == OpBy(<<<<"eq", "u32">>, <<"ne", "u32">>>>, K(k), a, b)

LoadPair(i, n) ==
  <<ReadBase("v", n, i), Push4(V("v")), ReadAt("w", n, L(i + 3), i + 4), Push4(V("w"))>>
PairLoads == {"i32_load16_u", "i32_load16_s"}
LocalBaseChains ==
  [op_load_local_get4 |->
      [n \in I32Loads |-> H(2, load_start.pre \o <<ReadAt("v", n, load_start.a, 0), Push4(V("v")),
                                                   Push4(L(1))>>)],
   op_load_local_base_local_get4_load |-> [n \in PairLoads |-> H(5, LoadPair(0, n))],
   op_load_local_base_local_get4_load_local_get4 |->
      [n \in PairLoads |-> HSkip(6, 0, LoadPair(0, n) \o <<Push4(L(5))>>)],
   op_local_get4_load_local_base_local_get4_load |->
      [n \in PairLoads |-> HSkip(6, 0, <<Push4(L(0))>> \o LoadPair(1, n))]]

op_i32_load_local_base_local_get4_i32_load_tee4_cmp_br_if ==
  H(9, <<read_i32_scalar_default_at("v", Byte(0, 0), Base(1), 3), Set(4, V("v")),
         read_i32_scalar_default_at("w", Byte(0, 1), L(5), 6), Set(7, V("w")),
         BrIf(compare_i32_scalar(Byte(0, 2), V("v"), V("w")), 8)>>)

-----------------------------------------------------------------------------
(* Increments of a word in memory, and the byte scanners built on them.    *)
(* Slots: base, store displacement, load displacement, memargs.            *)
i32_inc_local_base_at(i) ==
  <<Let("base", L(i)), ReadU32("v", Plus(V("base"), K(i + 2)), i + 3),
    Store("u32", Default, Plus(V("base"), K(i + 1)), i + 4, Plus(V("v"), N(1)))>>
IncAndLoad8 ==
  [op_local_get4_i32_inc_local_base |-> H(6, <<Push4(L(0))>> \o i32_inc_local_base_at(1)),
   op_local_get4_i32_inc_local_base_i32_load8_u_local_base_set4 |->
      H(10, <<Push4(L(0))>> \o i32_inc_local_base_at(1) \o <<ReadBase("b", "i32_load8_u", 6), Set(9, V("b"))>>),
   op_local_get4_i32_load8_u_local_base_set4 |->
      H(5, <<Push4(L(0)), ReadBase("b", "i32_load8_u", 1), Set(4, V("b"))>>),
   op_i32_load8_u_local_base_set4_local_get4 |->
      H(5, <<ReadBase("b", "i32_load8_u", 0), Set(3, V("b")), Push4(L(4))>>)]

(* Slots: pointer, displacement, memarg, byte, next, pointer to set,       *)
(* condition, target.                                                      *)
Load8Update(i) ==
  <<ReadBase("b", "i32_load8_u", i), Set(i + 3, V("b")), Set(i + 5, L(i + 4))>>
i32_load8_u_update_br_if_ptr_at(i) == Load8Update(i) \o <<BrIf(L(i + 6), i + 7)>>
Load8Updates ==
  [op_i32_inc_local_base_i32_load8_u_local_base_set4_local_get4_set4_local_get4_br_if |->
      HSkip(13, 0, i32_inc_local_base_at(0) \o i32_load8_u_update_br_if_ptr_at(5)),
   op_local_get4_i32_const_add_set4_i32_load8_u_local_base_tee4_i32_eqz_br_if |->
      H(14, <<Set(2, Plus(L(0), K(1))), ReadBase("v", "i32_load8_u", 3), Set(6, V("v")),
              BrIf(IsZero(V("v")), 7)>>),
   op_i32_load_local_base_tee4_i32_load8_u_tee4_br_if |->
      H(11, <<ReadBase("ptr", "i32_load", 0), Set(3, V("ptr")), ReadU8("b", V("ptr"), 4), Set(5, V("b")),
              BrIf(V("b"), 6)>>)]

(* A guard in front: slots 0 to 2 update a local, 3 to 5 compare, 6 is     *)
(* where the code goes on if the guard or the condition is false.          *)
IntegerCmp32 == IntCmps("i32", "u32")
eval_integer_i32_local_cmp32_at(k, l, r) ==
  OpBy(IntegerCmp32, Field(k, 2, 256), L(l), RhsOf(k, r))
guarded_load8_u_update_branch_cond(taken, false) ==
  <<Set(2, Plus(L(0), K(1))), Let("guard", eval_integer_i32_local_cmp32_at(3, 4, 5)),
    Either(V("guard"), false, Load8Update(7) \o <<Either(L(13), false, taken)>>)>>
br_table_target_ptr_at(l, n, first) == BrTable(L(l), n, first)
op_i32_load8_u_local_base_set4_local_get4_set4_local_get4_br_if == H(8, i32_load8_u_update_br_if_ptr_at(0))
Load8Branches ==
  [op_i32_guarded_load8_u_local_base_set4_local_get4_set4_local_get4_br_if |->
      H(15, guarded_load8_u_update_branch_cond(<<Jump(14)>>, <<Jump(6)>>)),
   op_i32_guarded_load8_u_local_base_set4_local_get4_set4_local_get4_br_if_taken_local_get4_br_table |->
      HGroups(18, 1, 16, 1, guarded_load8_u_update_branch_cond(<<br_table_target_ptr_at(15, 16, 17)>>,
                                                               <<Jump(6)>>)),
   op_i32_guarded_load8_u_local_base_set4_local_get4_set4_local_get4_br_if_false_local_get4_br_table |->
      HGroups(18, 1, 16, 1, guarded_load8_u_update_branch_cond(<<Jump(14)>>,
                                                               <<br_table_target_ptr_at(15, 16, 17)>>))]
(* These also execute the local.get at the target or after the branch; the *)
(* first then continues two slots behind the target.                       *)
Load8TableBranches ==
  [op_i32_load8_u_local_base_set4_local_get4_set4_local_get4_br_if_taken_local_get4 |->
      H(9, Load8Update(0) \o <<When(L(6), <<Push4(L(8)), JumpBehind(7, 2)>>)>>),
   op_i32_load8_u_local_base_set4_local_get4_set4_local_get4_br_if_fallthrough_local_get4 |->
      HSkip(9, 0, Load8Update(0) \o <<BrIf(L(6), 7), Push4(L(8))>>),
   op_i32_guarded_load8_u_local_base_set4_local_get4_set4_local_get4_br_if_taken_const_compare_br_table |->
      HGroups(23, 1, 21, 1,
        guarded_load8_u_update_branch_cond(
          <<BrIf(i32_compare(16, L(15), K(17)), 18), br_table_target_ptr_at(20, 21, 22)>>, <<Jump(6)>>))]

-----------------------------------------------------------------------------
(* Loops.                                                                  *)
op_i32_load_store_local_base_reverse_loop ==
  H(5, <<Let("prev", L(0)), Let("cursor", L(2)),
         Loop(<<Check, Set(1, V("prev")), Set(0, V("cursor")),
                ReadU32("next", V("cursor"), 3), Set(2, V("next")),
                Store("u32", Default, V("cursor"), 4, V("prev")),
                BreakIf(IsZero(V("next"))), Let("prev", V("cursor")), Let("cursor", V("next"))>>)>>)
(* Mutation: the checkpoint is taken once, before the loop.                *)
CheckedOnce ==
  H(5, <<Let("cursor", L(0)), Check,
         Loop(<<Set(1, V("cursor")), ReadU32("next", V("cursor"), 3), Set(0, V("next")),
                Store("u32", Default, V("cursor"), 4, L(2)), Set(2, V("cursor")),
                BreakIf(IsZero(V("next"))), Let("cursor", V("next"))>>)>>)

op_i32_load_store_local_base_relink_loop ==
  H(5, <<Let("cursor", L(0)),
         Loop(<<Check, Set(1, V("cursor")), ReadU32("next", V("cursor"), 3), Set(0, V("next")),
                Store("u32", Default, V("cursor"), 4, L(2)), Set(2, V("cursor")),
                BreakIf(IsZero(V("next"))), Let("cursor", V("next"))>>)>>)

UpdateLoops ==
  [op_i32_inc_local_base |-> H(5, i32_inc_local_base_at(0)),
   (* Adds a scalar to, or takes it from, a run of halfwords.                 *)
   op_i32_load16_u_update_store16_local_base_loop |->
      H(8, <<Let("ptr", L(1)), Let("scalar", L(2)), Let("counter", L(3)),
             Loop(<<Check, ReadAt("v", "i32_load16_u", Plus(V("ptr"), K(4)), 6),
                    Store("u16", Default, Plus(V("ptr"), K(5)), 7,
                          IfZero(BitAnd(K(0), N(1)), Plus(V("v"), V("scalar")), Minus(V("v"), V("scalar")))),
                    Let("ptr", Plus(V("ptr"), N(2))), Set(1, V("ptr")),
                    Let("counter", Minus(V("counter"), N(1))), Set(3,
                                                                   V("counter")), BreakIf(IsZero(V("counter")))>>)>>)]

(* Searches along a list: slots node, data displacement and memarg, data   *)
(* local, field displacement and memarg, key; then for the next node.      *)
SearchLoop(n, width, matched, i, hit, miss) ==
  <<Let("rhs", BitAnd(L(6), N(MaxOf(width)))), Let("node", L(0)),
    Loop(<<Check, ReadU32("data", Plus(V("node"), K(1)), 2), Set(3, V("data")),
           ReadAt("value", n, Plus(V("data"), K(4)), 5), BrIf(matched, hit),
           ReadU32("next", Plus(V("node"), K(i)), i + 1), Set(0, V("next"))>>
         \o miss \o <<Let("node", V("next"))>>)>>
EqMatched == Equal(V("value"), V("rhs"))
SearchLoops ==
  [op_i32_load_local_base_set4_i32_load8_u_local_base_local_masked_compare_br_if |->
      H(9, LoadThrough("i32_load8_u") \o <<BrIf(EqOrNe(7, V("v"), BitAnd(L(6), N(MaxOf("u8")))), 8)>>),
   op_i32_load_local_base_set4_i32_load16_u_local_base_local_eq_search_loop |->
      H(11, SearchLoop("i32_load16_u", "u16", EqMatched, 7, 9, <<BrIf(IsZero(V("next")), 10)>>))]
SearchLoopTails ==
  [op_i32_load_local_base_set4_i32_load16_u_local_base_local_eq_search_loop_fallthrough |->
      H(16, SearchLoop("i32_load16_u", "u16", EqMatched, 7, 9, <<BreakIf(IsZero(V("next")))>>)),
   op_i32_load_local_base_set4_i32_load8_u_local_base_local_masked_search_loop |->
      H(12, SearchLoop("i32_load8_u", "u8", EqOrNe(7, V("value"), V("rhs")), 8, 10,
                       <<BrIf(IsZero(V("next")), 11)>>))]
op_i32_load_local_base_set4_i32_load8_u_local_base_local_masked_search_loop_fallthrough ==
  H(17, SearchLoop("i32_load8_u", "u8", EqOrNe(7, V("value"), V("rhs")), 8, 10, <<BreakIf(IsZero(V("next")))>>))

=============================================================================
