--------------------------- MODULE FunctionBodies ---------------------------
(***************************************************************************)
(* Function bodies, read instruction by instruction as the parser reads    *)
(* them, and then run: by the interpreter, by the code compiled for them,  *)
(* and as the specification says.                                          *)
(***************************************************************************)
EXTENDS NativeFunction, WasmControl

CONSTANTS Suites,    \* of instructions that bodies are made of
          Arguments, \* of the function
          MaxSteps,  \* that a body is run for
          Divergent  \* the shapes of bodies that are known to differ but are wanted

VARIABLES suite,     \* the type and the locals of the function, its instructions and its length
          body,      \* the instructions read so far
          parser,    \* the state of the parser
          validator, \* that of the specification's algorithm
          shapes,    \* which of the shapes below the body has
          outcome    \* of running it

bodyVars == <<suite, body, parser, validator, shapes, outcome>>

(* The dispatch of parse_inst.                                             *)
parse_inst(p, i, at) ==
  CASE i.op = "unreachable" -> parse_unreachable(p)
    [] i.op = "nop" -> p
    [] i.op = "block" -> parse_block(p, i.type)
    [] i.op = "loop" -> parse_loop(p, i.type)
    [] i.op = "if" -> parse_if(p, i.type)
    [] i.op = "else" -> parse_else(p)
    [] i.op = "end" -> parse_end(p)
    [] i.op = "br" -> parse_br(p, i.idx)
    [] i.op = "br_if" -> parse_br_if(p, i.idx)
    [] i.op = "br_table" -> parse_br_table(p, i.idxs, i.idx)
    [] i.op = "return" -> parse_return(p)
    [] i.op = "call" -> parse_call(p)
    [] i.op = "return_call" -> parse_return_call(p)
    [] i.op = "drop" -> parse_drop(p)
    [] i.op = "select" -> parse_select(p)
    [] i.op = "select_typed" -> parse_select_typed(p, i.type.params[1])
    [] i.op = "get" -> parse_local_get(p, i.idx)
    [] i.op = "set" -> parse_local_set(p, i.idx)
    [] i.op = "tee" -> parse_local_tee(p, i.idx)
    [] i.op = "const" -> parse_plain(p, I32SumI64Counts.op_i32_const, <<at>>, <<>>, <<"i32">>)
    [] i.op = "const64" -> parse_plain(p, ConstsF32Order.op_i64_const, <<at>>, <<>>, <<"i64">>)
    [] i.op = "add" -> parse_plain(p, I32SumI64Counts.op_i32_add, <<>>, <<"i32", "i32">>, <<"i32">>)
    [] i.op = "eqz" -> parse_plain(p, I64Shifts.op_i32_eqz, <<>>, <<"i32">>, <<"i32">>)
    [] i.op = "wrap" -> parse_plain(p, F64MinI32Wrap.op_i32_wrap_i64, <<>>, <<"i64">>, <<"i32">>)

-----------------------------------------------------------------------------
(***************************************************************************)
(* Shapes of bodies that are treated otherwise than the specification says *)
(* (README, Disagreements).                                                *)
(***************************************************************************)
LabelsOf(p, i) ==
  CASE i.op \in {"br", "br_if"} -> {i.idx}
    [] i.op = "br_table" -> Range(i.idxs) \cup {i.idx}
    [] i.op = "return" -> {Len(p.checker.blocks) - 1}
    [] OTHER -> {}
(* Operands below those of the label that are above its block's base.      *)
Excess(p, i, k) ==
  LET n == Len(p.checker.types) - (IF i.op \in {"br_if", "br_table"} THEN 1 ELSE 0)
  IN ~is_unreachable(p) /\ n - get_block(p.checker, k).base > Len(LabelTypes(p.checker, k))
ShapesOf(p, i) ==
  LET known == {k \in LabelsOf(p, i) : has_block(p.checker, k)}
      to(kinds) == {k \in known : get_block(p.checker, k).kind \in kinds}
  IN {s \in {"if label", "empty label", "loop branch", "dead arm", "no else", "second else", "tail call"} :
        CASE s = "if label" -> \E k \in to({"if"}) : Excess(p, i, k)
          [] s = "empty label" -> \E k \in to({"block", "loop"}) : Excess(p, i, k) /\ LabelTypes(p.checker, k) = <<>>
          [] s = "loop branch" -> i.op = "br_if" /\ \E k \in to({"loop"}) : LabelTypes(p.checker, k) # <<>>
          [] s = "dead arm" -> is_unreachable(p) /\ (i.op = "else" \/ (i.op = "end" /\ get_block(p.checker, 0).kind = "if"))
          [] s = "no else" ->
               /\ i.op = "end" /\ is_unreachable(p) /\ p.open # <<>> /\ Last(p.open).kind = "if"
               /\ Last(p.open).else_addr = 0 /\ Last(p.open).type.params # Last(p.open).type.results
          [] s = "second else" ->
               i.op = "else" /\ p.open # <<>> /\ Last(p.open).kind = "if" /\ Last(p.open).else_addr # 0
          [] s = "tail call" -> body # <<>> /\ Last(body).op = "return_call" /\ i.op \notin {"else", "end"}}
(* A compiled branch to the end of the function that has another number of *)
(* operands in registers than where control falls through to it.           *)
Targets(i) ==
  CASE i.h \in {BranchOps.op_br, BranchOps.op_return, BranchOps.op_br_if, BranchTables.op_if} -> {<<i.imm[1]>>}
    [] i.h = BranchOps.op_else -> {<<i.imm[1], 1>>}
    [] i.h = op_br_table -> {<<i.imm[k]>> : k \in 2 .. Len(i.imm)}
    [] OTHER -> {}
StaleReturn(code, plan) ==
  LET last == plan.labels[Len(code)].depth
      left(j) == plan.labels[j].depth - (IF code[j].h \in {BranchOps.op_br_if, BranchTables.op_if, op_br_table} THEN 1 ELSE 0)
      native(j) == plan.labels[j].depth # Rejected /\ Bridges(plan.labels[j].code) = <<>>
  IN last > 0 /\ \E j \in DOMAIN code : \E t \in Targets(code[j]) :
       native(j) /\ left(j) # last /\ branch_to(code, plan, t) = Len(code)

-----------------------------------------------------------------------------
LocalTypes(groups) == FlattenSeq([k \in DOMAIN groups |-> [n \in 1 .. groups[k].n |-> groups[k].t]])
Zeroes(ts, x) == [k \in DOMAIN ts |-> <<ts[k], IF k = 1 THEN x ELSE 0>>]
FrameOf(p, ts, x) ==
  LET addr(k) == get_local_addr(p.type.params, p.locals, k - 1)[2]
  IN [a \in {addr(k) : k \in DOMAIN ts} |-> IF a = 0 THEN x ELSE 0]
Complete == parser.instr # <<>> /\ Last(parser.instr).h = BranchTables.special_function_return
Refused == "refused"

InitBodies ==
  /\ suite \in Suites
  /\ body = <<>> /\ shapes = {} /\ outcome = <<>>
  /\ parser = InstructionParser_new(suite.type, suite.declared)
  /\ validator = Validator(suite.type, LocalTypes(suite.declared))

(* The parser reads the next instruction.                                  *)
Read ==
  /\ ~Complete /\ parser.checker.ok
  /\ \E i \in suite.instructions :
       /\ Len(body) + Len(parser.open) + (IF i.op \in Openers THEN 3 ELSE IF i.op = "end" THEN 1 ELSE 2) <= suite.length
       /\ body' = Append(body, i)
       /\ parser' = parse_inst(parser, i, Len(body) + 1)
       /\ validator' = IF validator.ok THEN Validated(validator, i) ELSE validator
       /\ shapes' = shapes \cup ShapesOf(parser, i)
  /\ UNCHANGED <<suite, outcome>>

(* The function is called.                                                 *)
CallWith(ts, x, m, plan) ==
  /\ outcome' =
       [spec |-> IF validator.ok THEN Ended(body, Started(body, suite.type, Zeroes(ts, x)), MaxSteps) ELSE <<>>,
        vm |-> Interpret(parser.instr, Running_at(m, 1, {}), 0, 2 * MaxSteps),
        native |-> IF plan.depth = Rejected THEN Trap(m, Refused)
                   ELSE RunNative(parser.instr, plan, 1, NativeMachine(m, [r \in 1 .. StackRegs |-> <<0, 9, 9>>], 0),
                                  3 * MaxSteps)]
  /\ shapes' = shapes \cup (IF plan.depth # Rejected /\ StaleReturn(parser.instr, plan) THEN {"stale return"} ELSE {})
Call ==
  /\ Complete /\ parser.checker.ok /\ outcome = <<>>
  /\ \E x \in Arguments :
       LET ts == suite.type.params \o LocalTypes(suite.declared)
       IN CallWith(ts, x, Machine(<<>>, FrameOf(parser, ts, x), <<>>), emit(parser.instr))
  /\ UNCHANGED <<suite, body, parser, validator>>

BodiesNext == Read \/ Call

-----------------------------------------------------------------------------
Settled(ss) == shapes \cap ss \subseteq Divergent

(***************************************************************************)
(* The parser accepts a body exactly if it is valid, whatever blocks,      *)
(* branches and code that is never reached it is made of, and its blocks   *)
(* are nested no deeper than allowed.                                      *)
(***************************************************************************)
AcceptsExactlyValid ==
  /\ Settled({"tail call"}) /\ validator.ok => (parser.checker.ok <=> Len(validator.frames) <= MaxControlNesting + 1)
  /\ Settled({"dead arm", "second else", "loop branch"}) /\ parser.checker.ok => validator.ok

(***************************************************************************)
(* The emitted code computes what the body says: the branch addresses,     *)
(* the places of locals and what is kept at the end of a block are right.  *)
(***************************************************************************)
ResultOf(vals) == FlattenSeq([k \in DOMAIN vals |-> [c \in 1 .. stack_size(vals[k][1]) \div 4 |-> <<vals[k][2], c, stack_size(vals[k][1]) \div 4>>]])
InterpretedEqualsStructured ==
  outcome # <<>> /\ validator.ok /\ Settled({"if label"}) =>
    LET s == outcome.spec
        r == outcome.vm.m
    IN \/ s.trap = "unbounded"
       \/ s.trap = r.trap /\ (s.trap = "none" => ResultOf(s.vals) = r.stack)

(***************************************************************************)
(* What the parser recorded of the stack before an instruction is what     *)
(* there is when it runs, also in a body that is accepted without being    *)
(* valid.  Only where branches arrive there may be more.                   *)
(***************************************************************************)
Arrivals == {BranchOps.op_end, BranchTables.op_loop, special_block_return, BranchTables.special_function_return}
TypesDescribeStack ==
  outcome # <<>> /\ Settled({"if label", "loop branch", "no else"}) =>
    \A s \in outcome.vm.seen :
      LET before == parser.meta[s[1]]
          size == SizeOf(before.types) \div 4
      IN IF parser.instr[s[1]].h \in Arrivals THEN before.reachable => s[2] >= size ELSE before.reachable /\ s[2] = size

(***************************************************************************)
(* Compiled, a function ends as it does interpreted, whatever its branches *)
(* find in the registers.                                                  *)
(***************************************************************************)
NativeEqualsInterpreted ==
  outcome # <<>> /\ Settled({"empty label", "stale return", "loop branch", "no else"}) =>
    LET n == outcome.native
        r == outcome.vm.m
    IN \/ n.trap = Refused
       \/ "unbounded" \in {n.trap, r.trap}
       \/ n.trap = r.trap /\ (r.trap = "none" => n.stack = r.stack)
=============================================================================
