---------------------------- MODULE MCOptimizer -----------------------------
(***************************************************************************)
(* The blocks are the patterns of the select pass themselves: each with    *)
(* each member of its families of handlers, with its locals distinct, all  *)
(* the same or two of them the same, and with several constants.  Blocks   *)
(* that are searched for rather than listed are given by hand.  The run    *)
(* that has them also has the tests of the interpreter.                    *)
(***************************************************************************)
EXTENDS Optimizer, MCInterpreter

HandlersOf(names) == {PlainOps[n] : n \in names}
Gets == {op_local_get4, LocalAccesses.op_local_set4, LocalAccesses.op_local_tee4, LocalAccesses.op_local_get8, LocalAccesses.op_local_set8,
         LocalAccesses.op_local_tee8}
Consts == {I32SumI64Counts.op_i32_const, ConstsF32Order.op_i64_const, ConstsF32Order.op_f32_const, ConstsF32Order.op_f64_const}
FloatConsts == {ConstsF32Order.op_f32_const, ConstsF32Order.op_f64_const}
FloatOps ==
  {numeric_kind[c][k] : c \in {"Binop32", "Binop64"}, k \in 11 .. 14}
    \cup {numeric_kind[c][k] : c \in {"Cmp32", "Cmp64"}, k \in 10 .. 15}
    \cup {UnaryKinds.unary_kind32[k] : k \in 3 .. 9} \cup {UnaryKinds.unary_kind64[k] : k \in 3 .. 9}
UsesOf(ops) == {ops[n] : n \in DOMAIN ops}
SharedHandlers == UsesOf(SharedOps)
IndexedSharedHandlers == UsesOf(IndexedSharedOps)

(* What a name stands for: by an instruction that has it, or by itself.    *)
UsedBy(p, x, hs) == \E i \in DOMAIN p.pat : \E k \in DOMAIN p.pat[i].x :
                      p.pat[i].x[k] = x /\ \E q \in p.pat[i].hs : q[1] \in hs
NamesIn(p) == UNION {{p.pat[i].x[k] : k \in DOMAIN p.pat[i].x} : i \in DOMAIN p.pat}
IsLocalName(p, x) == UsedBy(p, x, Gets) \/ (x \in {"inc", "base", "byte"})
LocalsOf(p) == {x \in NamesIn(p) : IsLocalName(p, x)}
KeysOf(p) == {p.pat[i].key : i \in DOMAIN p.pat} \ {Single}
Sizes(p) == {Cardinality(p.pat[i].hs) : i \in DOMAIN p.pat}

(* The s-th choice of everything: members of families, constants, offsets. *)
InOrder(S) == FoldSet(LAMBDA x, q : Append(q, x), <<>>, S)
Nth(S, s) == LET q == InOrder(S) IN q[1 + (s % Len(q))]
WordConsts == <<4, 1, 255, 128, 3, 0, 252>>
FloatValues == <<Float(6, 1), NaN, Zero(-1), Float(-3, 1), Inf(1)>>
Place(p, x) == LET q == InOrder(NamesIn(p)) IN CHOOSE i \in DOMAIN q : q[i] = x
ValueOf(p, x, s, merged) ==
  IF x \in DOMAIN p.fixed THEN p.fixed[x]
  ELSE IF IsLocalName(p, x) THEN Place(p, IF x \in merged THEN CHOOSE y \in merged : TRUE ELSE x)
  ELSE IF UsedBy(p, x, FloatConsts) THEN FloatValues[1 + (s % 5)]
  ELSE IF x = "t" THEN 7 ELSE IF x = "memidx" THEN 1
  ELSE IF UsedBy(p, x, {I32SumI64Counts.op_i32_const, ConstsF32Order.op_i64_const}) \/ x \in {"sd", "ld", "delta"} THEN
    IF "folded" \in {p.calc[i].x : i \in DOMAIN p.calc} THEN 4 * (s % 3) ELSE WordConsts[1 + ((s + Place(p, x)) % 7)]
  ELSE (s + Place(p, x)) % 3
Instance(p, s, merged) ==
  [i \in DOMAIN p.pat |->
     I(Nth(p.pat[i].hs, s)[1], [k \in DOMAIN p.pat[i].x |-> ValueOf(p, p.pat[i].x[k], s, merged)])]
Wide(p) == {x \in LocalsOf(p) : UsedBy(p, x, {LocalAccesses.op_local_get8, LocalAccesses.op_local_set8, LocalAccesses.op_local_tee8})}
Merges(p) ==
  UNION {{{}, ls} \cup {{x, y} : x \in ls, y \in ls} : ls \in {Wide(p), LocalsOf(p) \ Wide(p)}}
Schemes(p) == 0 .. Max({2} \cup {n - 1 : n \in Sizes(p)})
(* A block that branches to itself begins with op_loop.  With two locals   *)
(* the same the fused loop differs.                                        *)
IsLoop(p) == "t" \in DOMAIN p.fixed
Header(p) == IF IsLoop(p) THEN <<I(BranchTables.op_loop, <<256 * 3>>)>> ELSE <<>>
MergesOf(p) == IF IsLoop(p) /\ "loop locals" \notin Divergent THEN {} ELSE Merges(p)
Instances(p) ==
  {Header(p) \o Instance(p, s, {}) : s \in Schemes(p)} \cup {Header(p) \o Instance(p, 0, m) : m \in MergesOf(p)}
InstancesOfAll(specs) == UNION {UNION {Instances(p) : p \in specs[i]} : i \in DOMAIN specs}
Listings == InstancesOfAll(all_specs)
(* A load by scaled index from an indexed memory is selected without the   *)
(* memory it reads.                                                        *)
IndexedLoads == UNION {{IndexedOps[n], IndexedSharedOps[n]} : n \in {x \in DOMAIN Accesses : Accesses[x].load}}
LosesMemory(b) ==
  /\ \E i \in DOMAIN b : b[i].h \in IndexedLoads
  /\ Matched(match_i32_local_scaled_index_address, b, 1) # <<>>

(***************************************************************************)
(* Runs of copies, the lanes adjacent, apart or out of order, between one  *)
(* base and another or the same; runs of bit steps; stores of expressions. *)
(***************************************************************************)
At(a, d) == <<I(op_local_get4, <<a>>)>> \o (IF d = 0 THEN <<>> ELSE <<I(I32SumI64Counts.op_i32_const, <<d>>),
                                                                          I(I32SumI64Counts.op_i32_add, <<>>)>>)
Lane(load, store, src, d) ==
  At(1, d) \o At(src, d) \o <<I(PlainOps[load], <<0>>), I(PlainOps[store], <<0>>)>>
Copies ==
  UNION {{FlattenSeq([i \in DOMAIN ds |-> Lane(q[1], q[2], src, ds[i])]) :
            q \in {<<"i32_load8_s", "i32_store8">>, <<"i32_load16_u", "i32_store16">>, <<"i32_load", "i32_store">>,
                   <<"i64_load32_s", "i64_store32">>, <<"i64_load", "i64_store">>, <<"f64_load", "f64_store">>}} :
         src \in 1 .. 3,
         ds \in {<<0, 1>>, <<0, 2, 4>>, <<0, 4>>, <<0, 4, 8>>, <<4, 0>>, <<0, 8>>, <<252, 0, 4>>, <<1, 1>>}}
BitSteps ==
  {[i \in 1 .. n |-> I(op_i32_select_bit_step4, <<1, 5, 2, i - 1, 3, flags, IF i = n THEN 4 ELSE 1>>)] :
     n \in 2 .. 4, flags \in 0 .. 7}
Atom(scalar) ==
  LET get_ == IF width(scalar) = 4 THEN op_local_get4 ELSE LocalAccesses.op_local_get8
      const_ == IF scalar = "i64" THEN ConstsF32Order.op_i64_const ELSE I32SumI64Counts.op_i32_const
      load == scalar \o "_load"
      index == <<I(op_local_get4, <<2>>), I(op_local_get4, <<3>>), I(I32SumI64Counts.op_i32_const, <<1>>),
                 I(I32Shifts.op_i32_shl, <<>>), I(I32SumI64Counts.op_i32_add, <<>>)>>
  IN (IF IsFloat(scalar) THEN {} ELSE {<<I(const_, <<200>>)>>}) \cup
     {<<I(get_, <<6>>)>>, <<I(I32SumI64Counts.op_i32_const, <<4>>), I(PlainOps[load], <<1>>)>>,
      At(2, 4) \o <<I(PlainOps[load], <<0>>)>>, At(3, 0) \o <<I(IndexedOps[load], <<2, 1>>)>>,
      index \o <<I(PlainOps[load], <<0>>)>>}
ValueOfStore(scalar) ==
  Atom(scalar) \cup (IF IsFloat(scalar) THEN {}
                    ELSE {a \o b \o <<I(add_op[scalar], <<>>)>> : a \in Atom(scalar), b \in Atom(scalar)})
ValueStores ==
  UNION {{a \o v \o <<I(OpsOf[m][scalar \o "_store"], IF MemArgs(m) = <<"memarg">> THEN <<1>> ELSE <<1, 1>>)>> :
            a \in {At(1, 0), At(3, 252), At(1, 0) \o At(2,
                                                        0) \o <<I(I32SumI64Counts.op_i32_add,
                                                                  <<>>)>>}, v \in ValueOfStore(scalar)} :
         scalar \in ScalarType, m \in {"local", "indexed"}}
MCBlocks == {b \in Listings : "scaled index" \in Divergent \/ ~LosesMemory(b)} \cup Copies \cup BitSteps \cup ValueStores
(***************************************************************************)
(* Three states for each block: a list in memory and locals that point     *)
(* into it, odd addresses, and extreme values.                             *)
(***************************************************************************)
HeapSize == 16
Heap(v) ==
  IF v = 0 THEN [i \in 1 .. HeapSize |-> LET next == IF i \in 5 .. 12 THEN 4 * ((i + 3) \div 4) ELSE 0
                                       IN (next \div 4^((i - 1) % 4)) % 4]
  ELSE [i \in 1 .. HeapSize |-> (i * i + v * i + v) % 4]
UsesAny(b, hs) == \E i \in DOMAIN b : b[i].h \in hs
IsWide(b, x) == \E i \in DOMAIN b : b[i].h = LocalAccesses.op_local_get8 /\ b[i].imm[1] = x
LocalsFor(b, v) ==
  [x \in 1 .. 16 |->
     IF UsesAny(b, FloatOps) THEN FloatValues[1 + ((x + v) % 5)]
     ELSE LET n == CASE v = 0 -> 4 * (x % 4) [] v = 1 -> (7 * x) % 13 [] v = 2 -> WordConsts[1 + (x % 7)]
          IN IF IsWide(b, x) THEN 257 * n ELSE n]
StackFor(b, v) ==
  LET t == IF \E i \in DOMAIN b : b[i].h = SelectOps.op_select /\ b[i].imm = <<8>> THEN "u64"
           ELSE IF \E i \in DOMAIN b : b[i].h = SelectOps.op_select /\ b[i].imm = <<16>> THEN "u128" ELSE "u32"
      cells(u, n) == PushWord([stack |-> <<>>], u, n).stack
  IN cells(t, 9) \o cells(t, 8) \o cells("u32", <<4, 0, 255>>[v + 1])
MemsFor(b, v) ==
  <<[shared |-> UsesAny(b, SharedHandlers), data |-> Heap(v)],
    [shared |-> UsesAny(b, IndexedSharedHandlers), data |-> Heap(v + 1)]>>
MCMachines(b) == {Machine(StackFor(b, v), LocalsFor(b, v), MemsFor(b, v)) : v \in 0 .. 2}
-----------------------------------------------------------------------------
(***************************************************************************)
(* The programs are the sequences the pass looks for, each with several    *)
(* continuations: what follows the sequence, what is at the targets of its *)
(* branches, and what comes before it.                                     *)
(***************************************************************************)

(* Fusions whose last operation may be the first of another one, behind    *)
(* which no get comes unless it may.                                       *)
Open == <<fuse_local_get4_local_base_i32_load_pair, fuse_i32_inc_load8_update_branch_tail>>
Closed ==
  <<fuse_i32_load_store_local_base_local_get4_pair, fuse_local_base_i32_load_pair_fallthrough_local_get4,
    fuse_local_base_load_tee_load8_branch_tail, fuse_local_add_set_load8_eqz_branch_tail,
    fuse_load8_update_branch_fallthrough_local_get4, fuse_i32_load16_u_local_base_eq_search_loop_entry,
    fuse_i32_load8_u_local_base_masked_search_loop_entry, fuse_local_get4x3_add_const_binop_add_consumer>>

(* Label 1 is the start, 2 comes behind the sequence, 3 is the target of   *)
(* its branch.                                                             *)
LabelNames == [t |-> 3, miss |-> 2, back |-> 1, else |-> 2]
LocalNames ==
  <<"a", "b", "c", "d", "p", "v", "base", "inc", "ptr", "byte", "next", "set", "cond", "l", "node", "data", "key", "r">>
Numbered(x) == CHOOSE i \in DOMAIN LocalNames : LocalNames[i] = x
ConstNames == <<"k", "delta", "delta2", "sd", "ld", "nd">>
OperandOf(p, x, s) ==
  IF x \in DOMAIN p.fixed THEN p.fixed[x]
  ELSE IF x \in DOMAIN LabelNames THEN LabelNames[x]
  ELSE IF x = "kind" THEN 2 * (s % 10) + 1 ELSE IF x = "cmp" THEN s % 2
  ELSE IF \E i \in DOMAIN LocalNames : LocalNames[i] = x THEN Numbered(x)
  ELSE IF \E i \in DOMAIN ConstNames : ConstNames[i] = x THEN <<0, 4, 1, 252>>[1 + (s % 4)]
  ELSE s % 3
Sequence(p, s) ==
  [i \in DOMAIN p.pat |->
     I(Nth(p.pat[i].hs, s)[1], [k \in DOMAIN p.pat[i].x |-> OperandOf(p, p.pat[i].x[k], s)])]
InstancesOf(fusions, S) == UNION {UNION {{Sequence(p, s) : s \in S} : p \in fusions[i]} : i \in DOMAIN fusions}
GuardKinds == {0, 3, 5, 8, 10, 13, 19}
Guarded == {p \in fuse_guarded_load8_update_branch_tail : p.fixed["kind"] \in GuardKinds}

G(a) == I(op_local_get4, <<a>>)
Mark(n) == <<I(I32SumI64Counts.op_i32_const, <<n>>)>>
End == <<I(BranchOps.op_end, <<>>)>>
(* What is behind the end of a block, where branches lead: a get, a table, *)
(* a comparison and a jump to a table.                                     *)
Tails ==
  {End \o <<I(op_drop, <<0>>), G(1), I(op_br_table, <<1, 4, 5>>)>>,
   End \o <<G(4), I(I64Shifts.op_i32_eqz, <<>>)>>,
   End \o <<I(LocalBranches.op_local_get4_i32_const_compare_br_if, <<2, 0, 3, 4>>), I(BranchOps.op_br, <<5>>)>>,
   End \o <<I(I32SumI64Counts.op_i32_const, <<3>>), I(LocalSums.op_local_get4_i32_const_add, <<2, 3>>),
            I(op_br_table, <<2, 4, 5, 4>>)>>}
Layout(blocks) ==
  [code |-> FlattenSeq(blocks),
   labels |-> [l \in DOMAIN blocks |-> 1 + Len(FlattenSeq(SubSeq(blocks, 1, l - 1)))]]
Program(first, at2, at3) ==
  Layout(<<first, at2, at3, End \o Mark(4) \o <<I(BranchOps.op_br, <<6>>)>>,
           End \o <<G(3), I(op_br_table, <<1, 4, 6>>)>>, End>>)
(* The loop a search goes round.                                           *)
Looped(q) == <<I(BranchTables.op_loop, <<2 * 256>>)>> \o q
(* What follows the sequence.                                              *)
Closers == {<<>>, Mark(1)}
Behind == Closers \cup {<<G(5), I(I64Shifts.op_i32_eqz, <<>>), I(op_drop, <<4>>)>>}
(* n gets, in the groups of up to eight that selection makes of them.      *)
Group(a, b) ==
  LET xs == [i \in 1 .. b - a + 1 |-> a + i - 1]
  IN CASE b < a -> <<>> [] b = a -> <<G(a)>> [] b = a + 1 -> <<I(LocalSums.op_local_get4_local_get4, xs)>>
       [] b = a + 2 -> <<I(LocalSums.op_local_get4_local_get4_local_get4,
                           xs)>> [] b > a + 2 -> <<I(LocalRuns.op_local_get4_run, <<b - a + 1>> \o xs)>>
RunOfGets(n) == Group(1, Min({n, 8})) \o Group(9, Min({n, 16})) \o Group(17, n)
(* More gets than one operation takes, or behind a fusion that takes one.  *)
Longer == IF "long run" \in Divergent THEN 17 .. 18 ELSE {}
(* A guarded branch with more in the body of its if.                       *)
GuardedBody ==
  IF "guarded body" \in Divergent
  THEN {q \o <<I(LocalSums.op_local_get4_i32_const_add_set4, <<5, 9, 6>>)>> : q \in InstancesOf(<<Guarded>>, {0})} ELSE {}
MCPrograms ==
  UNION {{Program(Looped(q \o b), at, at) : q \in InstancesOf(Closed, 0 .. 4), b \in Behind}
         \cup {Program(Looped(q \o b), at, at) : q \in InstancesOf(Open, 0 .. 4), b \in IF Longer = {} THEN Closers ELSE Behind}
         \cup {Program(RunOfGets(n) \o Mark(1), at, at) : n \in 3 .. 16 \cup Longer}
         \cup {Program(q, at, at) : q \in GuardedBody} : at \in Tails}
    \cup {Program(q, at2, at3) : q \in InstancesOf(<<Guarded>>, {0, 1}), at2 \in Tails, at3 \in Tails}

MCStarts(p) ==
  {LET st == [stack |-> <<>>]
   IN Machine(PushWord(PushWord(st, "u32", 9), "u32", 4).stack,
              [x \in 1 .. 18 |-> CASE v = 0 -> 4 * (x % 4) [] v = 1 -> x % 3 [] v = 2 -> <<4, 1, 255, 128, 3, 0, 252>>[1 + (x % 7)]
                                    [] v = 3 -> IF x % 2 = 1 THEN 0 ELSE x % 5],
              <<[shared |-> FALSE, data |-> Heap(v)]>>) : v \in 0 .. 3}
-----------------------------------------------------------------------------
(* A pass of the optimizer, or an instruction of the interpreter.          *)
allVars == <<vars, testVars>>
MCInit ==
  \/ Init /\ NoTest
  \/ pass = "none" /\ InitTest /\ NoBlock /\ NoProgram
MCNext ==
  \/ Next /\ UNCHANGED testVars
  \/ pass = "none" /\ Dispatch /\ UNCHANGED vars
MCSpec == MCInit /\ [][MCNext]_allVars
=============================================================================
