--------------------------- MODULE NativeFunction ---------------------------
(***************************************************************************)
(* A whole function, interpreted (runtime/vm.rs) and compiled              *)
(* (build_baseline_plan in runtime/jit/ops.rs, the emitter's loop in       *)
(* backend/x86_64.rs).  The emitter goes through the instructions once, in *)
(* order, and keeps count of the operands in registers.  A jump arrives at *)
(* a label with the count that the emitter had there, whatever is in the   *)
(* registers.                                                              *)
(***************************************************************************)
EXTENDS OpSpecs, ParseControl

(***************************************************************************)
(* The interpreter, from instruction at on.  It ends with a trap, when the *)
(* function returns, or at instruction stop.  seen collects the            *)
(* instructions it has run and how much was on the stack before them.      *)
(***************************************************************************)
Returns(h) == h \in {BranchTables.special_function_return, op_return_call}
Destination(jump) == jump[1] + (IF Len(jump) = 2 THEN jump[2] ELSE 0)
Running_at(m, at, seen) == [m |-> m, at |-> at, seen |-> seen]
Seen(r) == r.seen \cup {<<r.at, Len(r.m.stack)>>}
RECURSIVE Interpret(_, _, _, _), Dispatched(_, _, _, _, _), GoOn(_, _, _, _)
GoOn(code, r, stop, n) == IF r.at = stop THEN r ELSE Interpret(code, r, stop, n - 1)
Dispatched(code, r, e, stop, n) ==
  IF e.trap # "none" \/ Returns(code[r.at].h) THEN Running_at(e, 0, Seen(r))
  ELSE GoOn(code, Running_at([e EXCEPT !.jump = <<>>], IF e.jump = <<>> THEN r.at + 1 ELSE Destination(e.jump), Seen(r)),
            stop, n)
Interpret(code, r, stop, n) ==
  IF n = 0 THEN Running_at(Trap(r.m, "unbounded"), 0, Seen(r))
  ELSE Dispatched(code, r, Exec(code[r.at], r.m), stop, n)

-----------------------------------------------------------------------------
(* The slots from the operands of instruction j on, of which a decoder may *)
(* read those of the instructions behind.                                  *)
SlotsFrom(code, j) ==
  FoldLeft(LAMBDA slots, i : slots \o <<0>> \o i.imm, code[j].imm,
           SubSeq(code, j + 1, IF j + 5 < Len(code) THEN j + 5 ELSE Len(code)))
DecodedAt(code, j) == IF code[j].h = op_call THEN DirectCall(1, 1) ELSE decode_baseline_op(code, j)

(* The statements the emitter chooses by what it knows.                    *)
RECURSIVE Emitted(_, _, _)
EmittedHead(s, rest, imm, d, val(_)) ==
  IF s.kind \in {"static", "depth"} THEN Emitted(NChoice(s, [depth |-> d], val) \o rest, imm, d)
  ELSE <<s>> \o Emitted(rest, imm, DepthHead(s, imm, d, val))
Emitted(stmts, imm, d) ==
  IF stmts = <<>> \/ d = Rejected THEN <<>>
  ELSE EmittedHead(Head(stmts), Tail(stmts), imm, d, LAMBDA e : Eval(e, imm, <<>>))

(***************************************************************************)
(* The emitter's loop.  For each instruction it emits: the operands in     *)
(* registers before it, and its code.  A function it gives up on stays     *)
(* interpreted.                                                            *)
(***************************************************************************)
Unlabelled == [depth |-> Rejected, code |-> <<>>]
EmitControl(stmts) == FoldLeft(LAMBDA n, s : IF s.kind = "skip ops" THEN n + s.n ELSE n, 1, stmts)
Planned(plan, j, imm, stmts) ==
  [labels |-> [plan.labels EXCEPT ![j] = [depth |-> plan.depth, code |-> stmts]],
   next |-> j + EmitControl(stmts), depth |-> DepthAfter(stmts, imm, plan.depth)]
emit_op(code, plan, j) ==
  IF j # plan.next \/ plan.depth = Rejected THEN plan
  ELSE Planned(plan, j, SlotsFrom(code, j), Emitted(DecodedAt(code, j), SlotsFrom(code, j), plan.depth))
emit(code) ==
  FoldLeft(LAMBDA plan, j : emit_op(code, plan, j),
           [labels |-> [j \in DOMAIN code |-> Unlabelled], next |-> 1, depth |-> 0], [j \in DOMAIN code |-> j])

(* Mutation: a jump arrives at the end of a block.                         *)
JumpsToEnd(code, j) == j

(* Where a jump arrives: behind the ends of blocks, at the next label.     *)
skip_end_target_index(code, j) == CHOOSE k \in j .. Len(code) : code[k].h # BranchOps.op_end /\ \A i \in j .. k - 1 : code[i].h = BranchOps.op_end
resolve_label(plan, j) ==
  CHOOSE k \in j .. Len(plan.labels) : plan.labels[k].depth # Rejected /\ \A i \in j .. k - 1 : plan.labels[i].depth = Rejected
branch_to(code, plan, jump) == resolve_label(plan, skip_end_target_index(code, Destination(jump)))

(***************************************************************************)
(* Running the code.  An instruction that is run by its handler and jumps  *)
(* is followed by interpreted ones, until the next compiled instruction is *)
(* reached, or the function returns.                                       *)
(***************************************************************************)
Bridges(stmts) == SelectSeq(stmts, LAMBDA s : s.kind \in {"bridge", "handler"})
Rejoined(r, reload) == IF r.at = 0 THEN r ELSE [r EXCEPT !.m = Reloaded(r.m, reload)]
runtime_continuation_op(code, plan, j, e, n) ==
  LET s == Bridges(plan.labels[j].code)[1]
      start == Running_at([e EXCEPT !.jump = <<>>], Destination(e.jump), {})
  IN Rejoined(IF start.at = j + 1 THEN start ELSE Interpret(code, start, j + 1, n),
              IF s.kind = "bridge" THEN plan.labels[j].depth - s.less ELSE 0)
RECURSIVE RunNative(_, _, _, _, _), NativeAfter(_, _, _, _, _), NativeRejoined(_, _, _, _, _), NativeAt(_, _, _, _, _)
NativeRejoined(code, plan, j, r, n) == IF r.at = 0 THEN r.m ELSE RunNative(code, plan, j, r.m, n - 1)
NativeAt(code, plan, j, e, n) == RunNative(code, plan, j, [e EXCEPT !.jump = <<>>, !.depth = plan.labels[j].depth], n - 1)
NativeAfter(code, plan, j, e, n) ==
  IF e.trap # "none" \/ Returns(code[j].h) THEN e
  ELSE IF e.jump = <<>> THEN RunNative(code, plan, j + EmitControl(plan.labels[j].code), e, n - 1)
  ELSE IF Bridges(plan.labels[j].code) # <<>>
  THEN NativeRejoined(code, plan, j + 1, runtime_continuation_op(code, plan, j, e, n), n)
  ELSE NativeAt(code, plan, branch_to(code, plan, e.jump), e, n)
RunNative(code, plan, j, m, n) ==
  IF n = 0 THEN Trap(m, "unbounded")
  ELSE NativeAfter(code, plan, j, NDo(plan.labels[j].code, I(code[j].h, SlotsFrom(code, j)), [m EXCEPT !.env = <<>>]), n)
=============================================================================
