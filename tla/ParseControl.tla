---------------------------- MODULE ParseControl ----------------------------
(***************************************************************************)
(* Where the locals of a function are in its frame (LocalsData in          *)
(* common.rs, get_local_addr in parser/core/instruction.rs).  Parameters   *)
(* come first, in order.  Declared locals follow, those of one type next   *)
(* to each other; declared is a sequence of groups of n locals of type t.  *)
(* Addresses are in bytes; that they have a limit is left out.             *)
(***************************************************************************)
EXTENDS Locals, TypeChecker

LocalGroup(n, t) == [n |-> n, t |-> t]
TypeOrder == <<"i32", "f32", "funcref", "externref", "i64", "f64", "v128">>

(* How many locals of type t the first k groups declare.                   *)
CountUpTo(declared, k, t) ==
  FoldLeft(LAMBDA c, g : IF g.t = t THEN c + g.n ELSE c, 0, SubSeq(declared, 1, k))
LocalsData(declared) == [t \in Range(TypeOrder) |-> CountUpTo(declared, Len(declared), t)]
BytesOfTypes(data, ts) == FoldLeft(LAMBDA n, t : n + data[t] * stack_size(t), 0, ts)
byte_size(data) == BytesOfTypes(data, TypeOrder)

(* Mutation: every group of a type begins where the first one does.        *)
GroupsTogether(declared) ==
  LET data == LocalsData(declared)
      Earlier(t) == SubSeq(TypeOrder, 1, (CHOOSE i \in DOMAIN TypeOrder : TypeOrder[i] = t) - 1)
  IN [k \in DOMAIN declared |->
        [index |-> FoldLeft(LAMBDA c, g : c + g.n, 0, SubSeq(declared, 1, k)), t |-> declared[k].t,
         base |-> BytesOfTypes(data, Earlier(declared[k].t))]]

(* For each group: how many locals there are up to its end, its type and   *)
(* where its first local is.                                               *)
create_reassignment_table(declared) ==
  LET data == LocalsData(declared)
      Earlier(t) == SubSeq(TypeOrder, 1, (CHOOSE i \in DOMAIN TypeOrder : TypeOrder[i] = t) - 1)
  IN [k \in DOMAIN declared |->
        LET t == declared[k].t
        IN [index |-> FoldLeft(LAMBDA c, g : c + g.n, 0, SubSeq(declared, 1, k)), t |-> t,
            base |-> BytesOfTypes(data, Earlier(t)) + CountUpTo(declared, k - 1, t) * stack_size(t)]]

(* The type and the address of local idx; <<>> if there is none.           *)
get_local_addr(params, locals, idx) ==
  LET n == Len(params)
      found == {k \in DOMAIN locals : idx < n + locals[k].index}
      k == CHOOSE j \in found : \A i \in found : j <= i
      i == n + (IF k = 1 THEN 0 ELSE locals[k - 1].index)
  IN IF idx < n THEN <<params[idx + 1], SizeOf(SubSeq(params, 1, idx))>>
     ELSE IF found = {} THEN <<>>
     ELSE <<locals[k].t, SizeOf(params) + locals[k].base + (idx - i) * stack_size(locals[k].t)>>
-----------------------------------------------------------------------------
(***************************************************************************)
(* How the parser turns a function body into code (parse_inst in           *)
(* parser/core/instruction.rs, parse_code_inner in parser.rs): the types   *)
(* it checks, the instructions it emits, and the branch targets it fills   *)
(* in at the end.  The parser's state is                                   *)
(*   checker  the operand types (TypeChecker)                              *)
(*   instr    the instructions so far; an address is a position here       *)
(*   meta     what was on the stack before each of them                    *)
(*   dead     for each open block, whether what follows is never reached:  *)
(*            then only the ends of blocks are emitted                     *)
(*   jumps    the branches and the block boundaries, in order              *)
(*   open     the open blocks; for an if, where its instruction and its    *)
(*            else are                                                     *)
(*   type, locals   of the function: its type, where its locals are        *)
(* Calls are left to the callee (WasmCalls); here it adds 1 to its         *)
(* argument.                                                               *)
(***************************************************************************)

CONSTANT MaxControlNesting \* MAX_CONTROL_NESTING_DEPTH

CalleeType == BlockType(<<"i32">>, <<"i32">>)
Callee == <<Pop("a", "u32"), Push("u32", Plus(V("a"), N(1)))>>
op_call == H(1, Callee)
(* The callee takes the place of the function; slot 0 is what it returns.  *)
op_return_call == H(1, Callee \o <<BlockReturn(0), Let("returned", N(1))>>)

InstructionParser_new(functype, declared) ==
  [type |-> functype, locals |-> create_reassignment_table(declared), checker |-> new(functype), instr |-> <<>>, meta |-> <<>>, dead |-> <<FALSE, FALSE>>,
   jumps |-> <<[kind |-> "forward"]>>, open |-> <<>>]
is_unreachable(p) == Last(p.dead)
set_unreachable(p) == [p EXCEPT !.dead = Append(Front(@), TRUE)]
(* Two words, in cells, in one operand.                                    *)
Pack(stack_top, size) == (stack_top \div 4) * 256 + size \div 4

force_push(p, h, imm, before) ==
  [p EXCEPT !.instr = Append(@, I(h, imm)), !.meta = Append(@, snapshot_stack(before))]
push_instr(p, h, imm, before) == IF is_unreachable(p) THEN p ELSE force_push(p, h, imm, before)
With_checker(p, c) == [p EXCEPT !.checker = c]
Jumping(p, jump) == [p EXCEPT !.jumps = Append(@, jump)]
Br(idx, at, k) == [kind |-> "br", idx |-> idx, at |-> at, k |-> k]

-----------------------------------------------------------------------------
(* Entering a block: its parameters become its first operands.             *)
EnterChecked(c, kind, blocktype) ==
  [enter_block(op(c, blocktype.params, <<>>), kind, blocktype) EXCEPT !.types = @ \o blocktype.params]
LeaveChecked(c, blocktype) ==
  [leave_block(op(c, blocktype.results, <<>>)) EXCEPT !.types = @ \o blocktype.results]
next_control_nesting_depth(p) == Len(p.open) + 1
Nested(p, c) == With_checker(p, IF next_control_nesting_depth(p) > MaxControlNesting THEN Invalid(c) ELSE c)
Opened(p, frame) == [p EXCEPT !.dead = Append(@, Last(@)), !.open = Append(@, frame)]

parse_block(p, blocktype) ==
  Opened(Jumping(Nested(p, EnterChecked(p.checker, "block", blocktype)), [kind |-> "forward"]),
         [kind |-> "block", type |-> blocktype])

(* Where a reachable block or loop begins, all that is below is known.     *)
KnownBase(p, c) == IF ~is_unreachable(p) /\ ~has_known_base(c) THEN Invalid(c) ELSE c
LoopBegun(q, imm, c) == IF q.checker.ok THEN push_instr(q, BranchTables.op_loop, imm, c) ELSE q
LoopEntered(p, c, blocktype) ==
  Opened(Jumping(LoopBegun(Nested(p, KnownBase(p, c)), <<Pack(block_base_stack_size(c), param_size(blocktype))>>, c),
                 [kind |-> "backward", addr |-> Len(p.instr) + 1]),
         [kind |-> "loop", type |-> blocktype])
parse_loop(p, blocktype) == LoopEntered(p, EnterChecked(p.checker, "loop", blocktype), blocktype)

IfEntered(q, c, blocktype, was_dead) ==
  Opened(Jumping(Nested(q, c), [kind |-> "forward"]),
         [kind |-> "if", type |-> blocktype, index |-> Len(q.instr), else_addr |-> 0, was_dead |-> was_dead])
parse_if(p, blocktype) ==
  IfEntered(push_instr(p, BranchTables.op_if, <<0>>, p.checker),
            EnterChecked(op(p.checker, <<"i32">>, <<>>), "if", blocktype), blocktype, is_unreachable(p))

(* At the end of an arm that is never reached, what is left is dropped.    *)
EndArm(c, was_dead, blocktype) ==
  leave_block(IF was_dead THEN reset_stack(c) ELSE op(c, blocktype.results, <<>>))
OtherArm(c, blocktype) == [enter_block(c, "if", blocktype) EXCEPT !.types = @ \o blocktype.params]

parse_else(p) ==
  LET q == [p EXCEPT !.dead = Append(Front(@), @[Len(@) - 1])]
      blocktype == get_block(p.checker, 0).type
      r == Jumping(push_instr(q, BranchOps.op_else, <<0>>, p.checker), Br(0, Len(p.instr) + 1, 1))
  IN IF is_unreachable(q) THEN q
     ELSE IF get_block(p.checker, 0).kind # "if" THEN With_checker(q, Invalid(p.checker))
     ELSE With_checker([r EXCEPT !.open[Len(r.open)].else_addr = Len(r.instr) + 1],
                       OtherArm(EndArm(p.checker, is_unreachable(p), blocktype), blocktype))

(***************************************************************************)
(* The end of a block.  A reachable block or loop is followed by an        *)
(* instruction that keeps only its results.                                *)
(***************************************************************************)
Left(q, c, frame) ==
  IF is_unreachable(q) \/ has_known_base(c) THEN With_checker(q, LeaveChecked(c, frame.type))
  ELSE With_checker(q, Invalid(c))
EndedBlock(q, c, frame) ==
  Left(IF is_unreachable(q) \/ ~has_known_base(c) THEN q
       ELSE push_instr(q, special_block_return, <<Pack(block_base_stack_size(c), return_size(frame.type))>>, c),
       c, frame)
EndBlock(p, frame) == EndedBlock([p EXCEPT !.dead = Front(@), !.open = Front(@)], p.checker, frame)

(* An if without else has another arm that does nothing.                   *)
Arms(p, frame) ==
  IF frame.else_addr = 0 THEN OtherArm(EndArm(p.checker, is_unreachable(p), frame.type), frame.type) ELSE p.checker
Aimed(p, frame) ==
  IF frame.was_dead THEN p
  ELSE [p EXCEPT !.instr[frame.index].imm[1] = IF frame.else_addr = 0 THEN Len(p.instr) ELSE frame.else_addr]
EndIf(p, frame) ==
  [With_checker(Aimed(p, frame),
                [EndArm(Arms(p, frame), is_unreachable(p), frame.type) EXCEPT !.types = @ \o frame.type.results])
     EXCEPT !.dead = Front(@), !.open = Front(@)]

(* The addresses of branches, when those of all blocks are known: for each *)
(* open block its address, or the operands that wait for it.               *)
JumpResolver_step(st, jump) ==
  LET Patch(code, a, addr) == [code EXCEPT ![a[1]].imm[a[2]] = addr]
      Aim(at, i) ==
        LET b == st.block[i]
        IN IF b.addr # 0 THEN [st EXCEPT !.code = Patch(@, at, b.addr)]
           ELSE [st EXCEPT !.block[i].items = Append(@, at)]
  IN CASE jump.kind = "forward" -> [st EXCEPT !.block = Append(@, [addr |-> 0, items |-> <<>>])]
       [] jump.kind = "backward" -> [st EXCEPT !.block = Append(@, [addr |-> jump.addr, items |-> <<>>])]
       [] jump.kind = "br" -> Aim(<<jump.at, jump.k>>, Len(st.block) - jump.idx)
       [] jump.kind = "return" -> Aim(<<jump.at, 1>>, 1)
       [] jump.kind = "leave" ->
            [block |-> Front(st.block),
             code |-> FoldLeft(LAMBDA code, a : Patch(code, a, jump.addr), st.code, Last(st.block).items)]
evaluate(jumps, code) == FoldLeft(JumpResolver_step, [block |-> <<>>, code |-> code], jumps).code

(* The end of the function.                                                *)
BodyEnded(p, c) ==
  IF ~c.ok THEN With_checker(p, c)
  ELSE [With_checker(push_instr([p EXCEPT !.dead = Front(@)], BranchTables.special_function_return,
                                <<Pack(0, SizeOf(p.type.results))>>,
                                [p.checker EXCEPT !.types = p.type.results]), c)
          EXCEPT !.instr = evaluate(p.jumps, @)]
parse_code_inner(p) == BodyEnded(p, leave_block(op(p.checker, p.type.results, <<>>)))

EndFor(q, open) ==
  IF open = <<>> THEN parse_code_inner(q)
  ELSE IF Last(open).kind = "if" THEN EndIf(q, Last(open)) ELSE EndBlock(q, Last(open))
parse_end(p) ==
  EndFor(Jumping(force_push(p, BranchOps.op_end, <<>>, p.checker), [kind |-> "leave", addr |-> Len(p.instr) + 1]),
         p.open)

-----------------------------------------------------------------------------
(***************************************************************************)
(* Branches.  A label's operands are the results of a block, or the        *)
(* parameters of a loop.                                                   *)
(***************************************************************************)
LabelTypes(c, idx) ==
  IF get_block(c, idx).kind = "loop" THEN get_block(c, idx).type.params ELSE get_block(c, idx).type.results

parse_unreachable(p) ==
  LET q == push_instr(p, op_unreachable, <<>>, p.checker)
  IN set_unreachable(With_checker(q, unreachable(p.checker)))
parse_br(p, idx) ==
  LET q == IF is_unreachable(p) THEN p
           ELSE set_unreachable(Jumping(push_instr(p, BranchOps.op_br, <<0>>, p.checker),
                                        Br(idx, Len(p.instr) + 1, 1)))
  IN IF ~has_block(p.checker, idx) THEN With_checker(p, Invalid(p.checker))
     ELSE With_checker(q, unreachable(op(p.checker, LabelTypes(p.checker, idx), <<>>)))
(* Mutation: the label's operands are taken off also where it is not       *)
(* branched to.                                                            *)
TakesOperands(p, idx) ==
  LET b == get_block(p.checker, idx)
      c == op(p.checker, <<"i32">>, <<>>)
      q == IF is_unreachable(p) THEN p ELSE Jumping(push_instr(p, BranchOps.op_br_if, <<0>>, p.checker),
                                                    Br(idx, Len(p.instr) + 1, 1))
  IN IF ~has_block(p.checker, idx) THEN With_checker(p, Invalid(p.checker))
     ELSE With_checker(q, IF b.kind = "loop" THEN c ELSE op(c, b.type.results, <<>>))

(* To a loop no operands are checked.                                      *)
BranchedIf(q, c, idx) ==
  LET b == get_block(c, idx)
  IN With_checker(q, IF b.kind = "loop" THEN c ELSE op(c, b.type.results, b.type.results))
WithBranch(p, h, idx) ==
  IF is_unreachable(p) THEN p ELSE Jumping(push_instr(p, h, <<0>>, p.checker), Br(idx, Len(p.instr) + 1, 1))
parse_br_if(p, idx) ==
  IF ~has_block(p.checker, idx) THEN With_checker(p, Invalid(p.checker))
  ELSE BranchedIf(WithBranch(p, BranchOps.op_br_if, idx), op(p.checker, <<"i32">>, <<>>), idx)
validate_br_table_types(c, idx) == IF has_block(c, idx) THEN check(c, LabelTypes(c, idx)) ELSE Invalid(c)
TableBranches(p, idxs, all) ==
  IF is_unreachable(p) THEN p
  ELSE [push_instr(p, op_br_table, <<Len(idxs)>> \o [i \in DOMAIN all |-> 0], p.checker)
          EXCEPT !.jumps = @ \o [i \in DOMAIN all |-> Br(all[i], Len(p.instr) + 1, i + 1)]]
SameArity(c, all) == \A i \in DOMAIN all : Len(LabelTypes(c, all[i])) = Len(LabelTypes(c, Last(all)))
TableChecked(p, idxs, all, c) ==
  IF c.ok /\ SameArity(c, all) THEN set_unreachable(With_checker(TableBranches(p, idxs, all), unreachable(c)))
  ELSE With_checker(p, Invalid(c))
parse_br_table(p, idxs, default_idx) ==
  LET all == Append(idxs, default_idx)
  IN TableChecked(p, idxs, all, FoldLeft(validate_br_table_types, op(p.checker, <<"i32">>, <<>>), all))
parse_return(p) ==
  LET q == IF is_unreachable(p) THEN p
           ELSE set_unreachable(Jumping(push_instr(p, BranchOps.op_return, <<0>>, p.checker),
                                        [kind |-> "return", at |-> Len(p.instr) + 1]))
  IN With_checker(q, unreachable(op(p.checker, p.type.results, <<>>)))
parse_call(p) ==
  With_checker(push_instr(p, op_call, <<0>>, p.checker), op(p.checker, CalleeType.params, CalleeType.results))
parse_return_call(p) ==
  With_checker(push_instr(p, op_return_call, <<Pack(0, return_size(CalleeType))>>, p.checker),
               unreachable(op(op(p.checker, CalleeType.params, CalleeType.results), p.type.results, <<>>)))

-----------------------------------------------------------------------------
(* Instructions that take and leave operands of fixed types.               *)
parse_plain(p, h, imm, takes, gives) == With_checker(push_instr(p, h, imm, p.checker), op(p.checker, takes, gives))
parse_drop(p) ==
  LET c == pop(p.checker)
      t == Last(p.checker.types)
  IN IF ~c.ok \/ IsMarker(t) THEN With_checker(p, c)
     ELSE With_checker(push_instr(p, op_drop, <<stack_size(t)>>, p.checker), c)
IsRef(t) == t \in {"funcref", "externref"}
Selects(p, t, c) == With_checker(push_instr(p, SelectOps.op_select, <<stack_size(t)>>, p.checker), c)
(* The first operand's type is not known: the second one's is taken.       *)
SelectUnknown(p, c2, c3) ==
  LET y == Last(c2.types)
  IN IF ~c3.ok \/ IsRef(y) THEN With_checker(p, Invalid(c2))
     ELSE IF ~IsMarker(y) THEN Selects(p, y, push(c3, y))
     ELSE With_checker(p, IF is_unreachable(p) THEN push_any(c3) ELSE Invalid(c3))
SelectOf(p, c, c2) ==
  LET x == Last(c.types)
  IN IF ~c.ok \/ ~c2.ok \/ IsRef(x) THEN With_checker(p, Invalid(c))
     ELSE IF IsMarker(x) THEN SelectUnknown(p, c2, pop(c2))
     ELSE Selects(p, x, op(c2, <<x>>, <<x>>))
SelectFor(p, c) == SelectOf(p, c, pop(c))
parse_select(p) == SelectFor(p, op(p.checker, <<"i32">>, <<>>))
(* With the type given.                                                    *)
parse_select_typed(p, t) == parse_plain(p, SelectOps.op_select, <<stack_size(t)>>, <<t, t, "i32">>, <<t>>)
ByWidth(t, four, eight, sixteen) == CASE stack_size(t) = 4 -> four [] stack_size(t) = 8 -> eight [] stack_size(t) = 16 -> sixteen
LocalInst(p, found, hs(_), takes, gives) ==
  IF found = <<>> THEN With_checker(p, Invalid(p.checker))
  ELSE parse_plain(p, hs(found[1]), <<found[2]>>, IF takes THEN <<found[1]>> ELSE <<>>, IF gives THEN <<found[1]>> ELSE <<>>)
parse_local_get(p, idx) ==
  LocalInst(p, get_local_addr(p.type.params, p.locals, idx),
        LAMBDA t : ByWidth(t, op_local_get4, LocalAccesses.op_local_get8, LocalAccesses.op_local_get16), FALSE, TRUE)
parse_local_set(p, idx) ==
  LocalInst(p, get_local_addr(p.type.params, p.locals, idx),
        LAMBDA t : ByWidth(t, LocalAccesses.op_local_set4, LocalAccesses.op_local_set8, LocalAccesses.op_local_set16), TRUE, FALSE)
parse_local_tee(p, idx) ==
  LocalInst(p, get_local_addr(p.type.params, p.locals, idx),
        LAMBDA t : ByWidth(t, LocalAccesses.op_local_tee4, LocalAccesses.op_local_tee8, op_local_tee16), TRUE, TRUE)
=============================================================================
