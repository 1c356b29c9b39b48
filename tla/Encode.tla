------------------------------- MODULE Encode -------------------------------
(***************************************************************************)
(* The encode pass (pipeline/encode.rs) and materialisation (common.rs).   *)
(* The pass goes over the operations of all blocks once and replaces an    *)
(* operation by one that also does what the next ones do.  The operations  *)
(* it stands for stay where they are, because they may be jumped to, so    *)
(* the new one steps over them: its last operand is the number of slots to *)
(* the operation it continues with.                                        *)
(***************************************************************************)
EXTENDS Select

CONSTANTS Programs,     \* operations, and for each label its index
          Starts(_),    \* the states a program is started in
          MaxSteps      \* how many operations of a run are followed

(***************************************************************************)
(* Fusions of adjacent operations, as rules.  StepsOver says that the slot *)
(* count is appended.                                                      *)
(***************************************************************************)
Fusion(A, out, StepsOver) == {a @@ [out |-> out, steps_over |-> StepsOver] : a \in A}
UpdateBranch == op_i32_load8_u_local_base_set4_local_get4_set4_local_get4_br_if
EntryIncOps == <<"inc", "sd", "ld", "ml", "ms">>
EntryUpdateOps == <<"ptr", "delta", "memarg", "byte", "next", "set", "cond", "t">>

lowered_i32_scalar_load_kind ==
  [k \in 0 .. 4 |-> <<op_i32_load, WholeLoads.op_i32_load8_s, WholeLoads.op_i32_load8_u, WholeLoads.op_i32_load16_s,
                      ExtendingLoads.op_i32_load16_u>>[k + 1]]
lowered_i32_local_base_store_local_get4_kind ==
  [k \in 0 .. 2 |-> <<LocalBaseCopies.op_i32_store_local_base_local_get4, NarrowPairs.op_i32_store8_local_base_local_get4,
                      NarrowPairs.op_i32_store16_local_base_local_get4>>[k + 1]]
fuse_i32_load_store_local_base_local_get4_pair ==
  Fusion(Many(<<OneOf("lk", lowered_i32_scalar_load_kind, <<"memarg">>),
                OneOf("sk", lowered_i32_local_base_store_local_get4_kind, <<"base", "delta", "v", "memarg2">>),
                Pack("kinds", <<"lk", "sk">>)>>),
         Emit(LocalBaseCopies.op_i32_load_store_local_base_local_get4,
              <<"kinds", "memarg", "base", "delta", "v", "memarg2">>), TRUE)
PairOps == <<"base", "delta", "memarg", "a", "memarg2">>
LoadPairs == OneOf("n", LocalBaseChains.op_load_local_base_local_get4_load, PairOps)
local_base_i32_load_pair_local_get4_family == LocalBaseChains.op_load_local_base_local_get4_load_local_get4
local_get4_local_base_i32_load_pair_family == LocalBaseChains.op_local_get4_load_local_base_local_get4_load
fuse_local_base_i32_load_pair_fallthrough_local_get4 ==
  Fusion(Then(LoadPairs, get("p")), EmitBy("n", local_base_i32_load_pair_local_get4_family, Append(PairOps, "p")), TRUE)
fuse_local_get4_local_base_i32_load_pair ==
  Fusion(Then(get("p"), LoadPairs), EmitBy("n", local_get4_local_base_i32_load_pair_family, <<"p">> \o PairOps), TRUE)
fuse_i32_inc_load8_update_branch_tail ==
  Fusion(Many(<<Inst(UpdateLoops.op_i32_inc_local_base, EntryIncOps), Inst(UpdateBranch, EntryUpdateOps)>>),
         Emit(Load8Updates.op_i32_inc_local_base_i32_load8_u_local_base_set4_local_get4_set4_local_get4_br_if,
              EntryIncOps \o EntryUpdateOps), TRUE)
is_integer_i32_cmp32 == 0 .. 19
fuse_guarded_load8_update_branch_tail ==
  Fusion(UNION {Many(<<Inst(LocalSums.op_local_get4_i32_const_add_set4, <<"a", "k", "d">>),
                       Inst(ConstAndLocalOps64.op_local_cmp32, <<"kind", "l", "r">>),
                       Fixed("kind", kind), Inst(BranchTables.op_if, <<"else">>), Inst(UpdateBranch,
                                                                              EntryUpdateOps)>>) : kind \in is_integer_i32_cmp32},
         Emit(Load8Branches.op_i32_guarded_load8_u_local_base_set4_local_get4_set4_local_get4_br_if,
              <<"a", "k", "d", "kind", "l", "r", "else">> \o EntryUpdateOps), FALSE)
fuse_local_base_load_tee_load8_branch_tail ==
  Fusion(Many(<<Inst(LocalBaseTees.op_load_local_base_tee4["i32_load"], <<"base", "delta", "memarg", "d">>),
                Inst(LocalBaseLoads.op_load_tee4_br_if["i32_load8_u"], <<"memarg2", "byte", "t">>)>>),
         Emit(Load8Updates.op_i32_load_local_base_tee4_i32_load8_u_tee4_br_if,
              <<"base", "delta", "memarg", "d", "memarg2", "byte", "t">>), FALSE)
fuse_local_add_set_load8_eqz_branch_tail ==
  Fusion(Many(<<Inst(LocalSums.op_local_get4_i32_const_add_set4, <<"a", "k", "d">>),
                Inst(EqzBranches.op_load_local_base_tee4_i32_eqz_br_if["i32_load8_u"],
                     <<"base", "delta", "memarg", "byte", "t">>)>>),
         Emit(Load8Updates.op_local_get4_i32_const_add_set4_i32_load8_u_local_base_tee4_i32_eqz_br_if,
              <<"a", "k", "d", "base", "delta", "memarg", "byte", "t">>), FALSE)
fuse_load8_update_branch_fallthrough_local_get4 ==
  Fusion(Then(Inst(UpdateBranch, EntryUpdateOps), get("p")),
         Emit(Load8TableBranches.op_i32_load8_u_local_base_set4_local_get4_set4_local_get4_br_if_fallthrough_local_get4,
              Append(EntryUpdateOps, "p")), TRUE)

(* A search along a list: a comparison, then the step to the next node; if *)
(* a jump follows, it is the way out.                                      *)
SearchStep == Inst(LoadAddBranches.op_i32_load_local_base_tee4_br_if, <<"node", "nd", "nm", "node", "back">>)
SearchOps == <<"node", "delta", "memarg", "data", "delta2", "memarg2", "key">>
SearchEntry(compare, ops, taken, fallthrough) ==
  LET found == Then(Inst(compare, ops \o <<"t">>), SearchStep)
  IN Fusion(Then(found, Inst(BranchOps.op_br, <<"miss">>)), Emit(taken, ops \o <<"nd", "nm", "t", "miss">>), FALSE)
       \cup {r @@ [unless |-> {BranchOps.op_br}] : r \in Fusion(found, Emit(fallthrough, ops \o <<"nd", "nm", "t">>),
                                                          FALSE)}
fuse_i32_load16_u_local_base_eq_search_loop_entry ==
  SearchEntry(LocalBasePairs.op_i32_load_local_base_set4_load_local_base_local_eq_br_if["i32_load16_u"], SearchOps,
              SearchLoops.op_i32_load_local_base_set4_i32_load16_u_local_base_local_eq_search_loop,
              SearchLoopTails.op_i32_load_local_base_set4_i32_load16_u_local_base_local_eq_search_loop_fallthrough)
fuse_i32_load8_u_local_base_masked_search_loop_entry ==
  SearchEntry(SearchLoops.op_i32_load_local_base_set4_i32_load8_u_local_base_local_masked_compare_br_if,
              Append(SearchOps, "cmp"),
              SearchLoopTails.op_i32_load_local_base_set4_i32_load8_u_local_base_local_masked_search_loop,
              op_i32_load_local_base_set4_i32_load8_u_local_base_local_masked_search_loop_fallthrough)

(* Arithmetic on three locals; none of the operations may be a label.      *)
Get3Sum ==
  Many(<<Inst(LocalSums.op_local_get4_local_get4_local_get4, <<"a", "b", "c">>), add,
         Inst(MaskedBranches.op_i32_const_binop, <<"kind", "k">>), add>>)
fuse_local_get4x3_add_const_binop_add_consumer ==
  LET ops == <<"a", "b", "c", "kind", "k", "d">>
  IN Fusion(Many(<<Get3Sum, tee("d"), const("v"), Inst(PlainStores.op_i32_store, <<"memarg">>)>>),
            Emit(LocalRuns.op_local_get4x3_i32_add_const_binop_i32_add_tee4_i32_const_store,
                 ops \o <<"v", "memarg">>), TRUE)
       \cup Fusion(Then(Get3Sum, set("d")), Emit(LocalRuns.op_local_get4x3_i32_add_const_binop_i32_add_set4, ops),
                   TRUE)
       \cup Fusion(Then(Get3Sum, tee("d")), Emit(LocalRuns.op_local_get4x3_i32_add_const_binop_i32_add_tee4, ops),
                   TRUE)

-----------------------------------------------------------------------------
(***************************************************************************)
(* Applying a fusion at a cursor.                                          *)
(***************************************************************************)
Slots(op) == 1 + Len(op.imm)
SlotsOf(code, S) == FoldSet(LAMBDA i, n : n + Slots(code[i]), 0, S)

(* Mutation: the slots of the first operation it stands for are forgotten. *)
SkipOneShort(op, code, tail) == I(op.h, Append(op.imm, Len(op.imm) + 1 + SlotsOf(code, tail \ {Min(tail)})))

WithSkip(op, code, tail) == I(op.h, Append(op.imm, Len(op.imm) + 1 + SlotsOf(code, tail)))
Applies(r, code, c) ==
  /\ Bindings(r, code, c).ok
  /\ "unless" \in DOMAIN r => c + Len(r.pat) > Len(code) \/ code[c + Len(r.pat)].h \notin r.unless
FusedBy(r, op, code, c) == IF r.steps_over THEN WithSkip(op, code, (c + 1) .. (c + Len(r.pat) - 1)) ELSE op
Longest(R) == CHOOSE x \in R : \A y \in R : Len(y.pat) <= Len(x.pat)
Applied(r, code, c) == FusedBy(r, Emitted(r.out, WithCalc(r.calc, Bindings(r, code, c).env))[1], code, c)
FuseBy(R, code, c) == IF R = {} THEN <<>> ELSE <<Applied(Longest(R), code, c)>>
Fuse(rules, code, c) == FuseBy({r \in rules : Applies(r, code, c)}, code, c)
Unlabelled(code, labels, c, n) ==
  \A i \in (c + 1) .. Min({c + n, Len(code)}) : \A l \in DOMAIN labels : labels[l] # i

(* Gets that follow one another, up to 16 in all.                          *)
local_get4_run_operands(op) ==
  IF op.h \in {op_local_get4, LocalSums.op_local_get4_local_get4,
               LocalSums.op_local_get4_local_get4_local_get4} THEN op.imm
  ELSE IF op.h = LocalRuns.op_local_get4_run THEN SubSeq(op.imm, 2, 1 + op.imm[1]) ELSE <<>>
LOCAL_GET_RUN == 16
fuse_local_get4_run_skip(code, labels, c) ==
  LET run(operands) ==
        LET gets(n) == FlattenSeq(SubSeq(operands, 1, n))
            fits(n) == /\ n <= Len(operands) /\ Unlabelled(code, labels, c, n - 1)
                       /\ \A i \in 1 .. n : operands[i] # <<>>
                       /\ n = 1 \/ Len(gets(n)) <= LOCAL_GET_RUN
            skip(n) == IF n = 1 \/ Len(gets(n)) < 4 THEN <<>>
                       ELSE <<WithSkip(I(LocalRuns.op_local_get4_run_skip, <<Len(gets(n))>> \o gets(n)), code,
                                       (c + 1) .. (c + n - 1))>>
            longest(lens) == IF lens = {} THEN <<>> ELSE skip(Max(lens))
        IN longest({n \in 1 .. LOCAL_GET_RUN : fits(n)})
  IN run([i \in 1 .. Len(code) + 1 - c |-> local_get4_run_operands(code[c + i - 1])])

(* A get in front of a table, and the same found at a target behind        *)
(* operations that do nothing.                                             *)
Adjacent(code, c, first, second) == c < Len(code) /\ code[c].h = first /\ code[c + 1].h = second
fuse_local_get4_br_table(code, c) ==
  IF Adjacent(code, c, op_local_get4, op_br_table)
  THEN <<I(BranchTables.op_local_get4_br_table, code[c].imm \o code[c + 1].imm)>> ELSE <<>>
fuse_local_get4_i32_const_add_br_table(code, c) ==
  IF Adjacent(code, c, LocalSums.op_local_get4_i32_const_add, op_br_table)
  THEN <<I(BranchTables.op_local_get4_i32_const_add_br_table, code[c].imm \o code[c + 1].imm)>> ELSE <<>>
lowered_op_is_noop(op) == op.h = BranchOps.op_end \/ (op.h = op_drop /\ op.imm = <<0>>)
skip_noop_ops_at(code, i) ==
  LET S == {j \in i .. Len(code) : ~lowered_op_is_noop(code[j])} IN IF S = {} THEN Len(code) + 1 ELSE Min(S)
local_get4_br_table_operands_at(code, i) ==
  LET j == skip_noop_ops_at(code, i)
  IN IF j > Len(code) THEN <<>>
     ELSE IF code[j].h = BranchTables.op_local_get4_br_table THEN code[j].imm
     ELSE IF fuse_local_get4_br_table(code, j) # <<>> THEN fuse_local_get4_br_table(code, j)[1].imm
     ELSE <<>>
op_jump_target(op) == op.imm[Len(op.imm)]
guarded_load8_false_target(op) == op.imm[7]

(* The guarded scanners that also do what is at the target of one of their *)
(* branches.                                                               *)
Extended(op, h, more) == IF more = <<>> THEN <<>> ELSE <<I(h, op.imm \o more)>>
fuse_guarded_load8_update_branch_tail_taken_local_get4_br_table(op, code, labels) ==
  Extended(op, Load8Branches.op_i32_guarded_load8_u_local_base_set4_local_get4_set4_local_get4_br_if_taken_local_get4_br_table,
           local_get4_br_table_operands_at(code, labels[op_jump_target(op)]))
(* Mutation: the table of the other target is taken.                       *)
TableOfTakenTarget(op, code, labels) ==
  Extended(op, Load8Branches.op_i32_guarded_load8_u_local_base_set4_local_get4_set4_local_get4_br_if_false_local_get4_br_table,
           local_get4_br_table_operands_at(code, labels[op_jump_target(op)]))

fuse_guarded_load8_update_branch_tail_false_local_get4_br_table(op, code, labels) ==
  Extended(op, Load8Branches.op_i32_guarded_load8_u_local_base_set4_local_get4_set4_local_get4_br_if_false_local_get4_br_table,
           local_get4_br_table_operands_at(code, labels[guarded_load8_false_target(op)]))
fuse_guarded_load8_update_branch_tail_taken_const_compare_br_table(op, code, labels) ==
  LET i == skip_noop_ops_at(code, labels[op_jump_target(op)])
      found == Adjacent(code, i, LocalBranches.op_local_get4_i32_const_compare_br_if, BranchOps.op_br)
      table == local_get4_br_table_operands_at(code, labels[op_jump_target(code[i + 1])])
  IN IF ~found \/ table = <<>> THEN <<>>
     ELSE Extended(op, Load8TableBranches.op_i32_guarded_load8_u_local_base_set4_local_get4_set4_local_get4_br_if_taken_const_compare_br_table,
                   code[i].imm \o code[i + 1].imm \o table)
fuse_load8_update_branch_taken_local_get4(code, labels, c) ==
  LET i == labels[op_jump_target(code[c])]
  IN IF code[c].h # UpdateBranch \/ i = c \/ code[i].h # op_local_get4 THEN <<>>
     ELSE <<I(Load8TableBranches.op_i32_load8_u_local_base_set4_local_get4_set4_local_get4_br_if_taken_local_get4,
              Append(code[c].imm, code[i].imm[1]))>>

(* The first that applies, in the order of the source.                     *)
FirstOf(rs) == LET S == {i \in DOMAIN rs : rs[i] # <<>>} IN IF S = {} THEN <<>> ELSE rs[Min(S)]
fuse_search_loop_entries(code, labels, c) ==
  LET first(guarded) ==
        LET extended(r) == IF guarded = <<>> THEN <<>> ELSE r
        IN FirstOf(<<fuse_local_get4_run_skip(code, labels, c),
                     IF Unlabelled(code, labels, c, 6) THEN Fuse(fuse_local_get4x3_add_const_binop_add_consumer, code, c)
                     ELSE IF Unlabelled(code, labels, c, 4)
                     THEN Fuse({r \in fuse_local_get4x3_add_const_binop_add_consumer : Len(r.pat) = 5}, code, c) ELSE <<>>,
                     Fuse(fuse_i32_load_store_local_base_local_get4_pair, code, c),
                     Fuse(fuse_local_get4_local_base_i32_load_pair, code, c),
                     Fuse(fuse_local_base_i32_load_pair_fallthrough_local_get4, code, c),
                     fuse_local_get4_br_table(code, c),
                     fuse_local_get4_i32_const_add_br_table(code, c),
                     Fuse(fuse_i32_inc_load8_update_branch_tail, code, c),
                     extended(fuse_guarded_load8_update_branch_tail_taken_const_compare_br_table(guarded[1], code, labels)),
                     extended(fuse_guarded_load8_update_branch_tail_false_local_get4_br_table(guarded[1], code, labels)),
                     extended(fuse_guarded_load8_update_branch_tail_taken_local_get4_br_table(guarded[1], code, labels)),
                     guarded,
                     Fuse(fuse_local_base_load_tee_load8_branch_tail, code, c),
                     Fuse(fuse_local_add_set_load8_eqz_branch_tail, code, c),
                     fuse_load8_update_branch_taken_local_get4(code, labels, c),
                     Fuse(fuse_load8_update_branch_fallthrough_local_get4, code, c),
                     Fuse(fuse_i32_load16_u_local_base_eq_search_loop_entry, code, c),
                     Fuse(fuse_i32_load8_u_local_base_masked_search_loop_entry, code, c)>>)
  IN first(Fuse(fuse_guarded_load8_update_branch_tail, code, c))

-----------------------------------------------------------------------------
(***************************************************************************)
(* Constants that occur twice are kept in a pool.  refs gives the operands *)
(* that are taken from it: <<operation, operand>> to the index there.      *)
(***************************************************************************)
ConstAdds ==
  {LocalSums.op_local_get4_i32_const_add, LocalSums.op_local_get4_i32_const_add_set4, LocalSums.op_local_get4_i32_const_add_tee4,
   LocalBranches.op_local_get4_i32_const_add_br_if, MaskedBranches.op_local_get4_i32_const_add_tee4_br_if}
KindedOps ==
  {MaskedBranches.op_local_binop32, MaskedBranches.op_local_binop32_set4, MaskedBranches.op_local_binop32_tee4, MaskedBranches.op_local_binop32_br_if,
   ConstAndLocalOps64.op_local_binop64,
   ConstAndLocalOps64.op_local_binop64_set8, ConstAndLocalOps64.op_local_binop64_tee8, ConstAndLocalOps64.op_local_cmp32, ConstAndLocalOps64.op_local_cmp32_br_if, ConstAndLocalOps64.op_local_cmp64, LocalUnaries.op_local_cmp64_br_if}
poolable_raw_operand(op, k) ==
  \/ k = 1 /\ op.h \in {I32SumI64Counts.op_i32_const, ConstsF32Order.op_i64_const, ConstsF32Order.op_f32_const, ConstsF32Order.op_f64_const}
  \/ k = 2 /\ op.h \in ConstAdds
  \/ k = 3 /\ op.h = LocalBranches.op_local_get4_i32_const_compare_br_if
  \/ k = 3 /\ op.h \in KindedOps /\ op.imm[1] % 2 = 1

Poolable(code) ==
  {q \in UNION {{<<i, k>> : k \in DOMAIN code[i].imm} : i \in DOMAIN code} : poolable_raw_operand(code[q[1]], q[2])}
build_const_pool(code) ==
  LET at(q) == code[q[1]].imm[q[2]]
      before_(p, q) == p[1] < q[1] \/ (p[1] = q[1] /\ p[2] < q[2])
      twice(uses) == {q \in uses : \E p \in uses : p # q /\ at(p) = at(q)}
      firsts(uses) == {q \in uses : \A p \in uses : at(p) = at(q) => ~before_(p, q)}
      index(kept, q) == Cardinality({p \in kept : before_(p, q)}) + 1
      pool(uses, kept) ==
        [pool |-> [j \in 1 .. Cardinality(kept) |-> at(CHOOSE q \in kept : index(kept, q) = j)],
         refs |-> [q \in uses |-> index(kept, CHOOSE p \in kept : at(p) = at(q))]]
      over(uses) == pool(uses, firsts(uses))
  IN over(twice(Poolable(code)))

(* Where the code of an operation begins, in slots.                        *)
OpAddr(code, i) == SlotsOf(code, 1 .. (i - 1))
label_to_addr(code, labels, l) == OpAddr(code, labels[l])

VARIABLES program, \* the operations before the pass, and for each label its index
          encoded, \* the operations
          cursor,  \* where the pass is
          pooled,  \* <<>>, or the pool and what refers to it
          begun,   \* <<>>, or the state the program is started in
          ended    \* <<>>, or where the program ends before and after the pass
encodeVars == <<program, encoded, cursor, pooled, begun, ended>>

(* The operations with their operands taken from the pool.                 *)
materialize(ops, p) ==
  [i \in DOMAIN ops |->
     [ops[i] EXCEPT !.imm = [k \in DOMAIN @ |-> IF <<i, k>> \in DOMAIN p.refs THEN p.pool[p.refs[<<i, k>>]] ELSE @[k]]]]

InitEncode ==
  /\ program \in Programs /\ encoded = program.code /\ cursor = 1
  /\ pooled = <<>> /\ begun = <<>> /\ ended = <<>>
Replace(code, c, r) == IF r = <<>> THEN code ELSE [code EXCEPT ![c] = r[1]]
FuseEntry ==
  /\ cursor <= Len(encoded)
  /\ encoded' = Replace(encoded, cursor, fuse_search_loop_entries(encoded, program.labels, cursor))
  /\ cursor' = cursor + 1
  /\ UNCHANGED <<program, pooled, begun, ended>>
PoolConstants ==
  /\ cursor > Len(encoded) /\ pooled = <<>>
  /\ pooled' = <<build_const_pool(encoded)>>
  /\ UNCHANGED <<program, encoded, cursor, begun, ended>>
StartFunction ==
  /\ pooled # <<>> /\ begun = <<>>
  /\ \E m \in Starts(program) : begun' = <<m>>
  /\ UNCHANGED <<program, encoded, cursor, pooled, ended>>

(* A run, from the slot at a.                                              *)
Continues(ops, labels, a, op, e) ==
  IF e.jump = <<>> THEN a + 1 + SlotsAfter(op.h, op.imm)
  ELSE label_to_addr(ops, labels, e.jump[1]) + (IF Len(e.jump) = 2 THEN e.jump[2] ELSE 0)
RECURSIVE RunFrom(_, _, _, _, _), RunAfter(_, _, _, _, _, _)
RunAfter(ops, labels, a, op, e, n) ==
  IF e.trap # "none" THEN e
  ELSE RunFrom(ops, labels, Continues(ops, labels, a, op, e), [e EXCEPT !.jump = <<>>], n - 1)
RunFrom(ops, labels, a, m, n) ==
  LET here == {i \in DOMAIN ops : OpAddr(ops, i) = a}
      op == ops[CHOOSE j \in here : TRUE]
  IN IF a = OpAddr(ops, Len(ops) + 1) THEN m
     ELSE IF n = 0 THEN Trap(m, "unbounded")
     ELSE IF here = {} THEN Trap(m, "lost")
     ELSE RunAfter(ops, labels, a, op, Exec(op, m), n)
RunFunction ==
  /\ begun # <<>> /\ ended = <<>>
  /\ ended' = [k \in 1 .. 2 |-> RunFrom(<<program.code, materialize(encoded, pooled[1])>>[k], program.labels, 0,
                                       begun[1], MaxSteps)]
  /\ UNCHANGED <<program, encoded, cursor, pooled, begun>>
EncodeNext == FuseEntry \/ PoolConstants \/ StartFunction \/ RunFunction

-----------------------------------------------------------------------------
FunctionOutcome(m) == IF m.trap # "none" THEN <<m.trap, m.mems>> ELSE <<m.trap, m.mems, m.stack, m.locals>>

(* The function does the same after the pass, whichever of the fused       *)
(* operations is entered, skipped or jumped over.                          *)
EncodedEqualsLowered ==
  ended # <<>> => ended[1].trap = "unbounded" \/ FunctionOutcome(ended[1]) = FunctionOutcome(ended[2])

(* When the pass is done, an operation that does not jump continues at the *)
(* beginning of an operation, or at the end of the code.                   *)
ContinuesAtAnOperation ==
  pooled # <<>> =>
    \A i \in DOMAIN encoded :
      encoded[i].h.next.skip => \E j \in i + 1 .. Len(encoded) + 1 : OpAddr(encoded, j) = OpAddr(encoded, i) + 1 + SlotsAfter(encoded[i].h, encoded[i].imm)
=============================================================================
