----------------------------- MODULE Optimizer ------------------------------
(***************************************************************************)
(* The select pass of the optimizer (pipeline/select.rs): at each cursor   *)
(* of a basic block the most valuable specification that matches replaces  *)
(* the instructions it consumes.  The machine runs the block as it was     *)
(* written and as it was selected, from the same state.                    *)
(***************************************************************************)
EXTENDS Select, Encode

CONSTANTS Blocks,        \* the basic blocks that are tried
          Machines(_),   \* the states a block is started in
          MaxRounds      \* how often a block that branches to itself is followed

(* The specifications of loads and stores, each by its emitter among the   *)
(* rules of Select.                                                        *)
LocalGet4I32IncLocalBaseI32Load8ULocalBaseSet4Spec(rules) == rules.emit_local_get4_i32_inc_local_base_i32_load8_u_local_base_set4
LocalGet4I32IncLocalBaseSpec(rules) == rules.emit_local_get4_i32_inc_local_base
I32IncLocalBaseI32Load8UUpdateBrIfSpec ==
  emit_i32_inc_local_base_i32_load8_u_local_base_set4_local_get4_set4_local_get4_br_if
I32Load8ULocalBaseSet4LocalGet4Set4LocalGet4BrIfSpec ==
  emit_i32_load8_u_local_base_set4_local_get4_set4_local_get4_br_if
LocalGet4I32Load8ULocalBaseSet4Spec(rules) == rules.emit_local_get4_i32_load8_u_local_base_set4
I32Load8ULocalBaseSet4LocalGet4Spec(rules) == rules.emit_i32_load8_u_local_base_set4_local_get4
I32LoadStoreLocalBaseReverseLoopSpec(rules) == rules.emit_i32_load_store_local_base_reverse_loop
I32LoadStoreLocalBaseRelinkLoopSpec(rules) == rules.emit_i32_load_store_local_base_relink_loop
I32IncLocalBaseSpec(rules) == rules.emit_i32_inc_local_base
LocalGet4LocalGet4XorTee4U8Shl1I32Load16USpec(rules) == rules.emit_local_get4_local_get4_xor_tee4_u8_shl1_i32_load16_u
I32LoadLocalBaseTee4BrIfSpec(rules) == rules.emit_i32_load_local_base_tee4_br_if
I32LoadTee4BrIfSpec(rules) == rules.emit_i32_load_tee4_br_if
I32LoadLocalBaseLocalGet4ScalarLoadTee4CmpBrIfSpec(rules) == rules.emit_i32_load_local_base_local_get4_scalar_load_tee4_cmp_br_if
I32LoadStoreLocalBaseLocalGet4Spec(rules) == rules.emit_i32_load_store_local_base_local_get4
LocalGet4I32LoadLocalBaseAddSet4Spec(rules) == rules.emit_local_get4_i32_load_local_base_add_set4
LocalGet4ScalarLoadLocalBaseSpec(rules) == rules.emit_local_get4_scalar_load_local_base
I32LoadLocalBaseSet4I32Load8ULocalBaseLocalMaskedCompareBrIfSpec(rules) ==
  rules.emit_i32_load_local_base_set4_i32_load8_u_local_base_local_masked_compare_br_if
I32LoadLocalBaseSet4ScalarLoadLocalBaseLocalEqBrIfSpec(rules) ==
  rules.emit_i32_load_local_base_set4_scalar_load_local_base_local_eq_br_if
I32LoadLocalBaseSet4ScalarLoadLocalBaseLocalGet4Spec(rules) == rules.emit_i32_load_local_base_set4_scalar_load_local_base_local_get4
I32LoadLocalBaseSet4ScalarLoadLocalBaseSpec(rules) == rules.emit_i32_load_local_base_set4_scalar_load_local_base
ScalarLoadLocalBaseLocalGet4ScalarLoadSpec(rules) == rules.emit_scalar_load_local_base_local_get4_scalar_load
ScalarLoadLocalBaseLocalGet4Spec(rules) == rules.emit_scalar_load_local_base_local_get4
ScalarLoadLocalBaseSet4Spec(rules) == rules.emit_scalar_load_local_base_set4
ScalarLoadLocalGet4Spec(rules) == rules.emit_scalar_load_local_get4
ScalarStoreConstBaseSpec(rules) == rules.emit_scalar_store_const_base
ScalarLoadLocalScaledIndexSpec == UNION {emit_scalar_load_local_scaled_index(s) : s \in ScalarType}
ScalarLoadLocalBaseSpec == UNION {emit_scalar_load_local_base(s) : s \in ScalarType}
ScalarLoadConstBaseSpec == UNION {emit_scalar_load_const_base(s) : s \in ScalarType}
ScalarCopyLocalBaseRunSpec(code, c) == emit_scalar_copy_local_base_run(code, c)
ScalarStoreLocalBaseSpec(code, c) == emit_scalar_store_local_base(code, c)
ScalarStoreLocalScaledIndexSpec(code, c) == emit_scalar_store_local_scaled_index(code, c)

(* The specifications that are listed once for each consumer.              *)
ForEach(rows, spec(_)) == [i \in DOMAIN rows |-> spec(rows[i])]
UnaryConsumers ==
  <<<<4, "root", LocalUnaries.op_local_unary32>>, <<4, "set", LocalUnaries.op_local_unary32_set4>>,
    <<4, "tee", LocalUnaries.op_local_unary32_tee4>>,
    <<8, "root", LocalUnaries.op_local_unary64>>, <<8, "set", LocalUnaries.op_local_unary64_set8>>, <<8, "tee",
                                                                                    LocalUnaries.op_local_unary64_tee8>>>>
NumericConsumers ==
  <<<<"Binop32", "root", MaskedBranches.op_local_binop32>>, <<"Binop32", "set", MaskedBranches.op_local_binop32_set4>>,
    <<"Binop32", "tee", MaskedBranches.op_local_binop32_tee4>>, <<"Binop32", "br_if", MaskedBranches.op_local_binop32_br_if>>,
    <<"Binop64", "root", ConstAndLocalOps64.op_local_binop64>>, <<"Binop64", "set", ConstAndLocalOps64.op_local_binop64_set8>>,
    <<"Binop64", "tee", ConstAndLocalOps64.op_local_binop64_tee8>>,
    <<"Cmp32", "root", ConstAndLocalOps64.op_local_cmp32>>, <<"Cmp32", "set", ConstAndLocalOps64.op_local_cmp32_set4>>,
    <<"Cmp32", "tee", ConstAndLocalOps64.op_local_cmp32_tee4>>, <<"Cmp32", "br_if", ConstAndLocalOps64.op_local_cmp32_br_if>>,
    <<"Cmp64", "root", ConstAndLocalOps64.op_local_cmp64>>, <<"Cmp64", "set", ConstAndLocalOps64.op_local_cmp64_set4>>,
    <<"Cmp64", "tee", LocalUnaries.op_local_cmp64_tee4>>, <<"Cmp64", "br_if", LocalUnaries.op_local_cmp64_br_if>>>>
BinopConsumers ==
  <<<<"root", MaskedBranches.op_i32_const_binop>>, <<"set", MaskedBranches.op_i32_const_binop_set4>>,
    <<"tee", ConstAndLocalOps64.op_i32_const_binop_tee4>>,
    <<"br_if", ConstAndLocalOps64.op_i32_const_binop_br_if>>>>
CmpConsumers ==
  <<<<"root", ConstAndLocalOps64.op_i32_const_cmp>>, <<"set", ConstAndLocalOps64.op_i32_const_cmp_set4>>,
    <<"tee", ConstAndLocalOps64.op_i32_const_cmp_tee4>>,
    <<"br_if", ConstAndLocalOps64.op_i32_const_cmp_br_if>>>>

SpecsAmong(rules) ==
  <<rules.LocalGetBrIfSpec, rules.LocalGetEqzBrIfSpec, rules.LocalGetConstAddBrIfSpec,
    rules.LocalGetLocalAddBrIfSpec, rules.LocalGetConstAddRootSpec, rules.LocalGetConstAddSetSpec,
    rules.LocalGetConstAddTeeSpec, rules.LocalGetLocalAddRootSpec, rules.LocalGetLocalAddSetSpec,
    rules.LocalGetLocalAddTeeSpec, rules.LocalGetConstAndBrIfSpec,
    rules.LocalGetConstAndTeeConstEqBrIfSpec, rules.LocalGetConstAndConstCompareBrIfSpec,
    rules.LocalGetConstAddConstAndConstCompareBrIfSpec, rules.LocalGetConstCompareBrIfSpec,
    rules.LocalGetLocalCompareBrIfSpec, rules.LocalGet4Set4LocalGetConstCompareBrIfSpec,
    rules.LocalGetConstAddTeeBrIfSpec, LocalGet4I32IncLocalBaseI32Load8ULocalBaseSet4Spec(rules),
    LocalGet4I32IncLocalBaseSpec(rules), I32IncLocalBaseI32Load8UUpdateBrIfSpec,
    I32Load8ULocalBaseSet4LocalGet4Set4LocalGet4BrIfSpec,
    LocalGet4I32Load8ULocalBaseSet4Spec(rules), I32Load8ULocalBaseSet4LocalGet4Spec(rules)>>
    \o [i \in 1 .. 7 |-> LocalGet4RunSpec(9 - i)]
    \o <<I32LoadStoreLocalBaseReverseLoopSpec(rules), rules.LocalGet4CopySpec,
         rules.I32ConstCopySpec>>
    \o ForEach(UnaryConsumers, LAMBDA x : LocalUnarySpec(x[1], x[2], x[3]))
    \o ForEach(NumericConsumers, LAMBDA x : LocalNumericSpec(x[1], x[2], x[3]))
    \o <<rules.I32SelectBitStep4FromLocalSpec, rules.I32SelectBitStep4Spec>>
    \o ForEach(BinopConsumers, LAMBDA x : StackI32ConstBinopSpec(x[1], x[2]))
    \o ForEach(CmpConsumers, LAMBDA x : StackI32ConstCmpSpec(x[1], x[2]))
    \o <<SelectWidthSpec(4, SelectOps.op_select4), SelectWidthSpec(8, SelectOps.op_select8),
         SelectWidthSpec(16, SelectOps.op_select16),
         Select4ConsumerSpec(set("d"), SelectOps.op_select4_set4),
         Select4ConsumerSpec(tee("d"), SelectOps.op_select4_tee4),
         I32LoadStoreLocalBaseRelinkLoopSpec(rules), I32IncLocalBaseSpec(rules),
         ScalarLoadLocalScaledIndexSpec, LocalGet4LocalGet4XorTee4U8Shl1I32Load16USpec(rules),
         I32LoadLocalBaseTee4BrIfSpec(rules), I32LoadTee4BrIfSpec(rules),
         I32LoadLocalBaseLocalGet4ScalarLoadTee4CmpBrIfSpec(rules),
         I32LoadStoreLocalBaseLocalGet4Spec(rules), LocalGet4I32LoadLocalBaseAddSet4Spec(rules),
         LocalGet4ScalarLoadLocalBaseSpec(rules),
         I32LoadLocalBaseSet4I32Load8ULocalBaseLocalMaskedCompareBrIfSpec(rules),
         I32LoadLocalBaseSet4ScalarLoadLocalBaseLocalEqBrIfSpec(rules),
         I32LoadLocalBaseSet4ScalarLoadLocalBaseLocalGet4Spec(rules),
         I32LoadLocalBaseSet4ScalarLoadLocalBaseSpec(rules),
         ScalarLoadLocalBaseLocalGet4ScalarLoadSpec(rules),
         ScalarLoadLocalBaseLocalGet4Spec(rules), ScalarLoadLocalBaseSet4Spec(rules),
         emit_i32_store_local_base_local_get4, ScalarLoadLocalBaseSpec,
         ScalarLoadLocalGet4Spec(rules), I32LoadConstBaseLocalGet4AddSet4Spec,
         ScalarStoreConstBaseSpec(rules), ScalarLoadConstBaseSpec>>
all_specs ==
  SpecsAmong(CopySpecs @@ AddBranchSpecs @@ ConstAddSpecs @@ LocalAddSpecs
             @@ ConstBranchSpecs @@ MaskBranchSpecs @@ CompareBranchSpecs
             @@ BitStepRules @@ IncAndLoad8Rules @@ LoadStoreLoops
             @@ ConstBaseRules @@ TeeRules @@ LocalBaseRules
             @@ Set4MaskedRules @@ Set4LoadRules)

(***************************************************************************)
(* One cursor.  Runs and stores of values are searched rather than listed; *)
(* where they match nothing else of their group is worth the same.         *)
(***************************************************************************)
Matches(r, code, c) ==
  /\ Bindings(r, code, c).ok
  /\ c + Len(r.pat) <= Len(code) => code[c + Len(r.pat)].h \notin r.unless
Listed(specs, code, c) ==
  UNION {{[group |-> r.group, cost |-> r.cost, rank |-> i, consumed |-> Len(r.pat),
           ops |-> Emitted(r.out, WithCalc(r.calc, Bindings(r, code, c).env))] :
             r \in {x \in specs[i] : Matches(x, code, c)}}
           : i \in DOMAIN specs}
Searched(code, c) ==
  {x @@ [rank |-> 0] : x \in I32SelectBitStep4RunSpec(code, c) \cup ScalarCopyLocalBaseRunSpec(code, c)
                              \cup ScalarStoreLocalBaseSpec(code, c) \cup ScalarStoreLocalScaledIndexSpec(code, c)}
GenericSpec(i) == [group |-> 3, cost |-> 0, rank |-> 0, consumed |-> 1, ops |-> <<i>>]

Better(x, y) ==
  \/ x.cost > y.cost
  \/ x.cost = y.cost /\ x.group < y.group
  \/ x.cost = y.cost /\ x.group = y.group /\ x.rank < y.rank
BestOf(S) == CHOOSE x \in S : \A y \in S : ~Better(y, x)
Best(code, c) == BestOf(Listed(all_specs, code, c) \cup Searched(code, c) \cup {GenericSpec(code[c])})

RECURSIVE SelectFrom(_, _), Replaced(_, _, _)
Replaced(best, code, c) == best.ops \o SelectFrom(code, c + best.consumed)
SelectFrom(code, c) == IF c > Len(code) THEN <<>> ELSE Replaced(Best(code, c), code, c)
select(code) == SelectFrom(code, 1)

-----------------------------------------------------------------------------
VARIABLES block,  \* the block as written
          fused,  \* the block as selected, or <<>> before
          before, \* <<>>, or the state the block is started in
          after   \* <<>>, or where the block and the selected block end
selectVars == <<block, fused, before, after>>

(* A block is repeated while it branches to itself.                        *)
RECURSIVE BlockRounds(_, _, _), AfterRound(_, _, _)
AfterRound(ops, e, n) ==
  IF e.trap = "none" /\ e.jump = <<SelfBlock>> THEN BlockRounds(ops, [e EXCEPT !.jump = <<>>], n - 1) ELSE e
BlockRounds(ops, m, n) == IF n = 0 THEN Trap(m, "unbounded") ELSE AfterRound(ops, ExecAll(ops, m), n)
RunBlock(ops, m) == BlockRounds(ops, m, MaxRounds)

InitSelect == block \in Blocks /\ fused = <<>> /\ before = <<>> /\ after = <<>>
Select == fused = <<>> /\ fused' = select(block) /\ UNCHANGED <<block, before, after>>
StartBlock ==
  /\ fused # <<>> /\ before = <<>>
  /\ \E m \in Machines(block) : before' = <<m>>
  /\ UNCHANGED <<block, fused, after>>
RunBlocks ==
  /\ before # <<>> /\ after = <<>>
  /\ after' = [k \in 1 .. 2 |-> RunBlock(<<block, fused>>[k], before[1])]
  /\ UNCHANGED <<block, fused, before>>
SelectNext == Select \/ StartBlock \/ RunBlocks

-----------------------------------------------------------------------------
(* What a block leaves to the rest of the function; a trap leaves only the *)
(* memories.                                                               *)
BlockOutcome(m) ==
  IF m.trap # "none" THEN <<m.trap, m.mems>> ELSE <<m.trap, m.mems, m.jump, m.stack, m.locals>>
SlotsOk(i) == SlotsAfter(i.h, i.imm) = Len(i.imm)

(* Superinstructions do what the instructions they replace do: the values  *)
(* on the stack, the locals, the memories, the branch taken and the trap   *)
(* raised are the same, whatever constants coincide and whatever the       *)
(* machine holds; also whatever locals coincide, except in a block that is *)
(* a loop, whose locals the inputs keep distinct.                          *)
FusedEqualsPlain ==
  after # <<>> => \/ after[1].trap \in {"panic", "unbounded"}
                 \/ BlockOutcome(after[1]) = BlockOutcome(after[2])

(* Each selected operation is followed by as many operands as its handler  *)
(* steps over, and in encoded code it continues at the beginning of an     *)
(* operation, so that the next one is fetched where it was put.            *)
OperandsFit ==
  /\ \A i \in 1 .. Len(fused) : SlotsOk(fused[i])
  /\ ContinuesAtAnOperation

(* A loop that was fused into one operation is charged at least once for   *)
(* each round of the loop that was written.                                *)
LoopsAreCharged ==
  after # <<>> /\ BlockOutcome(after[1]) = BlockOutcome(after[2]) => after[2].ticks >= after[1].ticks
-----------------------------------------------------------------------------
(***************************************************************************)
(* The two passes of the optimizer that replace instructions: a basic      *)
(* block is selected, or a function that was selected and lowered is       *)
(* encoded.                                                                *)
(***************************************************************************)

VARIABLE pass \* the one that is tried
vars == <<pass, selectVars, encodeVars>>

NoBlock == block = <<>> /\ fused = <<>> /\ before = <<>> /\ after = <<>>
NoProgram == program = <<>> /\ encoded = <<>> /\ cursor = 1 /\ pooled = <<>> /\ begun = <<>> /\ ended = <<>>

Init ==
  \/ pass = "select" /\ InitSelect /\ NoProgram
  \/ pass = "encode" /\ InitEncode /\ NoBlock
Next ==
  /\ \/ pass = "select" /\ SelectNext /\ UNCHANGED encodeVars
     \/ pass = "encode" /\ EncodeNext /\ UNCHANGED selectVars
  /\ UNCHANGED pass
Spec == Init /\ [][Next]_vars
=============================================================================
