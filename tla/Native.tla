------------------------------- MODULE Native -------------------------------
(***************************************************************************)
(* The machine that baseline-compiled code runs on                         *)
(* (runtime/jit/backend/x86_64.rs).  The code the emitter produces for an  *)
(* instruction is again a sequence of statements (HandlerCode), over the   *)
(* interpreter's machine and                                               *)
(*   regs    the registers that hold the top of the operand stack, lowest  *)
(*           first; their contents outlive the values they cached          *)
(*   depth   how many of them hold operands, which the emitter knows       *)
(*   reject  the emitter gave up, and the function stays interpreted       *)
(* Pop and Push work on the registers.  The rest of the stack, below the   *)
(* registers, is the VM stack, which helpers and handlers work on.  That   *)
(* the VM stack has a limit is left out.                                   *)
(***************************************************************************)
EXTENDS FusedMemory, AtomicsBulk

CONSTANTS StackRegs, \* how many registers cache the operand stack (7)
          FarLocals, \* the locals too far from the frame for a short offset (255)
          FrameAddress \* where the frame is

ASSUME StackRegsAssumption == StackRegs \in Nat \ {0}

(***************************************************************************)
(* Statements of the emitter: have at least n operands in registers; write *)
(* the registers to the VM stack; take n operands off it; treat the        *)
(* registers as free; give up; act by the depth.                           *)
(***************************************************************************)
ensure_stack_slots(n) == [kind |-> "ensure", n |-> n]
flush_stack == [kind |-> "flush"]
reload_stack_slots(n) == [kind |-> "reload", n |-> n]
Forget == [kind |-> "forget"]
Reject == [kind |-> "reject"]
AtDepth(lo, hi, a, b) == [kind |-> "depth", lo |-> lo, hi |-> hi, a |-> a, b |-> b]
Unless(lo, hi) == AtDepth(lo, hi, <<>>, <<Reject>>)
FlushIfCached == AtDepth(1, StackRegs, <<flush_stack>>, <<>>)
(* A choice by an operand, which the emitter knows; and what it requires.  *)
IfSlotZero(e, a, b) == [kind |-> "static", e |-> e, a |-> a, b |-> b]
Require(e, ok) == [kind |-> "require", e |-> e, ok |-> ok]
(* Drop as many bytes as slot i says.                                      *)
Discard(i) == [kind |-> "discard", i |-> i]
(* Write register 17, which holds x, to a local.                           *)
store_local4_from_17(i, x) == [kind |-> "set17", i |-> i, x |-> x]
(* A helper that works on the VM stack; and the instruction's own handler  *)
(* between writing the registers and loading back all but some of them.    *)
Helper(code) == [kind |-> "helper", code |-> code]
RuntimeHelper(name) == [kind |-> "runtime", name |-> name]
Around(less, code) == [kind |-> "around", less |-> less, code |-> code]
call_runtime_continuation_op_reloading_stack(less) == [kind |-> "bridge", less |-> less]
(* The same where nothing is loaded back.                                  *)
call_runtime_continuation_op == [kind |-> "handler"]
(* A call through a helper, which takes and leaves so many operands.       *)
CallReloading(consumed, results) == [kind |-> "call", consumed |-> consumed, results |-> results]
(* The following n instructions, or all up to a distance in a slot, are    *)
(* part of this one.                                                       *)
SkipOps(n) == [kind |-> "skip ops", n |-> n]
SkipNextOp == SkipOps(1)
SkipInstrSlots(i) == [kind |-> "skip slots", i |-> i, n |-> -1]
(* The distance follows as many slots as slot n says.                      *)
SkipInstrSlotsBehind(n, i) == [kind |-> "skip slots", i |-> i, n |-> n]

-----------------------------------------------------------------------------
(***************************************************************************)
(* The helpers that native code calls for whole operations on the VM stack *)
(* (runtime_stack_op in runtime/jit/stubs.rs and the functions it selects).*)
(* They repeat what the handlers of the interpreter do, without charging   *)
(* for it: a store that meters does not run native code.                   *)
(***************************************************************************)

runtime_i8x16_extract_lane_s == <<Pop("v", "u128"), Push("i32", LaneAt(LanesOf("i8", V("v")), K(0)))>>
runtime_v128_bitselect ==
  LET mask == LanesOf("u8", V("mask"))
  IN <<Pop("mask", "u128"), Pop("b", "u128"), Pop("a", "u128"),
       PushLanes("u8", Bitwise2("or", Bitwise2("and", A("u8"), mask), Bitwise2("and", B("u8"), Negated(mask))))>>

(* The address on the stack plus the offset in slot 0; slot 1 names the    *)
(* memory of an indexed access.                                            *)
runtime_atomic_start == <<Pop("base", "u32"), Offset(V("base"), 0)>>
runtime_atomic_notify(mem) ==
  <<Pop("count", "u32")>> \o runtime_atomic_start
    \o (IF mem.shared THEN <<Atomic("woken", "notify_waiters", "u32", mem, V("base"), <<V("count")>>)>>
        ELSE <<Let("woken", N(0))>>)
    \o <<Push("u32", V("woken"))>>
runtime_atomic_wait32 ==
  <<Pop("timeout_ns", "u64"), Pop("expected", "u32")>> \o runtime_atomic_start \o <<Fail("InvalidOperand")>>
runtime_atomic_wait64 ==
  <<Pop("timeout_ns", "u64"), Pop("expected", "u64")>> \o runtime_atomic_start \o <<Fail("InvalidOperand")>>
RegisterWait(t, mem) ==
  <<Atomic("result", "register_wait", t, mem, V("base"), <<V("expected")>>),
    Either(V("result"), NotifyOps.push_wait_effect, <<Push("u32", V("result"))>>)>>
runtime_atomic_wait32_exit(mem) ==
  <<Pop("timeout_ns", "u64"), Pop("expected", "u32")>> \o runtime_atomic_start \o RegisterWait("u32", mem)
runtime_atomic_wait64_exit(mem) ==
  <<Pop("timeout_ns", "u64"), Pop("expected", "u64")>> \o runtime_atomic_start \o RegisterWait("u64", mem)

runtime_data_drop == <<DropSegment("data", 0)>>
runtime_elem_drop == <<DropSegment("elem", 0)>>
runtime_mem_init(mem) == PopRange \o <<InitMemory(0, mem, V("dst"), V("src"), V("len"))>>
runtime_mem_copy(to, from) ==
  PopRange \o (IF to = from THEN <<WholeMemory("r", "copy", to, <<V("dst"), V("src"), V("len")>>)>>
               ELSE <<CopyMemory(to, from, V("dst"), V("src"), V("len"))>>)
runtime_mem_fill(mem) ==
  <<Pop("len", "u32"), Pop("data", "u32"), Pop("ptr", "u32"),
    WholeMemory("r", "fill", mem, <<V("ptr"), V("len"), V("data")>>)>>
runtime_mem_size(mem) == <<WholeMemory("pages", "page_size", mem, <<>>), Push("u32", V("pages"))>>
runtime_mem_grow(mem) ==
  <<Pop("delta", "u32"), WholeMemory("result", "grow", mem, <<V("delta")>>), Push("u32", V("result"))>>
runtime_table_get == <<Pop("i", "u32"), OnTable("value", "get", 0, <<V("i")>>), Push("u32", V("value"))>>
runtime_table_set == <<Pop("value", "u32"), Pop("i", "u32"), OnTable("r", "set", 0, <<V("i"), V("value")>>)>>
runtime_table_init == PopRange \o <<InitTable(0, 1, V("dst"), V("src"), V("len"))>>
runtime_table_copy == PopRange \o <<CopyTable(0, 1, V("dst"), V("src"), V("len"))>>
runtime_table_grow ==
  <<Pop("n", "u32"), Pop("value", "u32"),
    Either(F("lt", "i32", V("n"), N(0)), <<OnTable("size", "grow", 0, <<V("n"), V("value")>>), Push("u32", V("size"))>>,
           <<Push("u32", N(minus_one))>>)>>
runtime_table_size == <<OnTable("size", "size", 0, <<>>), Push("u32", V("size"))>>
runtime_table_fill ==
  <<Pop("len", "u32"), Pop("value", "u32"), Pop("dst", "u32"),
    OnTable("r", "fill", 0, <<V("dst"), V("len"), V("value")>>)>>

(***************************************************************************)
(* The helper that a kind names.  Some wait for an effect that is pending. *)
(***************************************************************************)
runtime_stub_must_wait_for_effect(code) == <<ReturnIfPending>> \o code
runtime_stack_op ==
  [data_drop |-> runtime_stub_must_wait_for_effect(runtime_data_drop),
   elem_drop |-> runtime_elem_drop,
   mem_init_local |-> runtime_mem_init(Default),
   mem_init_shared |-> runtime_mem_init(DefaultShared),
   mem_init_indexed_local |-> runtime_mem_init(Indexed(1)),
   mem_init_indexed_shared |-> runtime_mem_init(IndexedShared(1)),
   mem_copy_shared |-> runtime_stub_must_wait_for_effect(runtime_mem_copy(DefaultShared, DefaultShared)),
   mem_copy_indexed_local_local |-> runtime_stub_must_wait_for_effect(runtime_mem_copy(Indexed(0), Indexed(1))),
   mem_copy_indexed_local_shared |-> runtime_stub_must_wait_for_effect(runtime_mem_copy(Indexed(0), IndexedShared(1))),
   mem_copy_indexed_shared_local |-> runtime_stub_must_wait_for_effect(runtime_mem_copy(IndexedShared(0), Indexed(1))),
   mem_copy_indexed_shared_shared |->
     runtime_stub_must_wait_for_effect(runtime_mem_copy(IndexedShared(0), IndexedShared(1))),
   mem_fill_shared |-> runtime_mem_fill(DefaultShared),
   mem_fill_indexed_local |-> runtime_mem_fill(Indexed(0)),
   mem_fill_indexed_shared |-> runtime_mem_fill(IndexedShared(0)),
   mem_size_indexed_local |-> runtime_mem_size(Indexed(0)),
   mem_size_indexed_shared |-> runtime_mem_size(IndexedShared(0)),
   mem_grow_indexed_local |-> runtime_mem_grow(Indexed(0)),
   mem_grow_indexed_shared |-> runtime_mem_grow(IndexedShared(0)),
   table_get |-> runtime_table_get,
   table_set |-> runtime_table_set,
   table_init |-> runtime_table_init,
   table_copy |-> runtime_table_copy,
   table_grow |-> runtime_table_grow,
   table_size |-> runtime_table_size,
   table_fill |-> runtime_table_fill,
   i8x16_extract_lane_s |-> runtime_i8x16_extract_lane_s,
   v128_bitselect |-> runtime_v128_bitselect,
   atomic_notify_local |-> runtime_atomic_notify(Default),
   atomic_notify_shared |-> runtime_atomic_notify(DefaultShared),
   atomic_notify_indexed_local |-> runtime_atomic_notify(Indexed(1)),
   atomic_notify_indexed_shared |-> runtime_atomic_notify(IndexedShared(1)),
   atomic_wait32_local |-> runtime_atomic_wait32,
   atomic_wait32_shared |-> runtime_atomic_wait32_exit(DefaultShared),
   atomic_wait32_indexed_local |-> runtime_atomic_wait32,
   atomic_wait32_indexed_shared |-> runtime_atomic_wait32_exit(IndexedShared(1)),
   atomic_wait64_local |-> runtime_atomic_wait64,
   atomic_wait64_shared |-> runtime_atomic_wait64_exit(DefaultShared),
   atomic_wait64_indexed_local |-> runtime_atomic_wait64,
   atomic_wait64_indexed_shared |-> runtime_atomic_wait64_exit(IndexedShared(1))]

-----------------------------------------------------------------------------
NativeMachine(m, regs, depth) == m @@ [regs |-> regs, depth |-> depth, reject |-> FALSE]
Cached(m) == SubSeq(m.regs, 1, m.depth)
AllOperands(m) == m.stack \o Cached(m)

(* Mutation: the registers are written in the order in which they are      *)
(* popped.                                                                 *)
FlushedReversed(m) == [m EXCEPT !.stack = @ \o Reverse(Cached(m)), !.depth = 0]

Flushed(m) == [m EXCEPT !.stack = @ \o Cached(m), !.depth = 0]

ReloadedAbove(m, low, n) ==
  [m EXCEPT !.stack = SubSeq(@, 1, low), !.depth = n,
     !.regs = [i \in 1 .. StackRegs |-> IF i <= n THEN m.stack[low + i] ELSE @[i]]]
Reloaded(m, n) ==
  IF n > StackRegs THEN [m EXCEPT !.reject = TRUE]
  ELSE IF n > Len(m.stack) THEN Trap(m, "garbled")
  ELSE ReloadedAbove(m, Len(m.stack) - n, n)

Ensured(m, n) == IF m.depth >= n THEN m ELSE Reloaded(Flushed(m), n)

(* The register that is pushed next; when all are full they are written.   *)
NextDepth(d) == (IF d = StackRegs THEN 0 ELSE d) + 1
PushCached(m, d, cell) == [m EXCEPT !.regs[d] = cell, !.depth = d]
push_reg(m, cell) == PushCached(IF m.depth = StackRegs THEN Flushed(m) ELSE m, NextDepth(m.depth), cell)
PushRegs(m, cells) == FoldLeft(push_reg, m, cells)

(* A statement on the machine whose stack is the registers: what it leaves *)
(* there of the old values stays where it is, what is new is pushed.       *)
PopsOfStep(s) == IF s.kind = "pop" THEN <<s.t>> ELSE IF s.kind \in {"numeric", "trunc"} THEN s.pops ELSE <<>>
Kept(m, r, n) ==
  PushRegs([r EXCEPT !.stack = m.stack, !.depth = @ - n], SubSeq(r.stack, m.depth - n + 1, Len(r.stack)))
InRegisters(m, n, run(_)) ==
  IF n > m.depth THEN [m EXCEPT !.reject = TRUE] ELSE Kept(m, run([m EXCEPT !.stack = Cached(m)]), n)

(* A far local is written through its address, which is formed in register *)
(* 17.                                                                     *)
Store17(m, local, x) ==
  LET st == IF local \in FarLocals THEN Bind(m, x, Wrap(Bits("u32"), FrameAddress + local)) ELSE m
  IN [st EXCEPT !.locals[local] = st.env[x]]
Dropped(m, n) == IF m.reject THEN m ELSE [m EXCEPT !.depth = @ - n]
Discarded(m, size) ==
  IF size % 4 # 0 THEN [m EXCEPT !.reject = TRUE] ELSE Dropped(Ensured(m, size \div 4), size \div 4)

(* What a call leaves of the operands that were in registers; with too     *)
(* many, all stay on the VM stack.                                         *)
ReloadSlots(s, depth) == IF depth >= s.consumed THEN depth - s.consumed + s.results ELSE s.results

(* How many registers are loaded back behind code that works on the VM     *)
(* stack, and the machine then.                                            *)
LoadsBack(s, depth) == IF s.kind = "call" THEN ReloadSlots(s, depth) ELSE depth - s.less
LoadedBack(s, n, st) == IF Running(st) /\ (s.kind = "call" => n <= StackRegs) THEN Reloaded(st, n) ELSE st

(* val gives the value of an expression, run executes code on a machine.   *)
NStep(s, i, m, val(_), run(_, _)) ==
  CASE s.kind = "ensure" -> Ensured(m, s.n)
    [] s.kind = "flush" -> Flushed(m)
    [] s.kind = "reload" -> Reloaded(m, s.n)
    [] s.kind = "forget" -> [m EXCEPT !.depth = 0]
    [] s.kind = "reject" -> [m EXCEPT !.reject = TRUE]
    [] s.kind = "require" -> IF val(s.e) \in s.ok THEN m ELSE [m EXCEPT !.reject = TRUE]
    [] s.kind = "set17" -> Store17(m, i.imm[s.i + 1], s.x)
    [] s.kind = "discard" -> Discarded(m, i.imm[s.i + 1])
    [] s.kind = "helper" -> run(s.code, m)
    [] s.kind = "runtime" -> run(runtime_stack_op[s.name], m)
    [] s.kind = "handler" -> run(i.h.code, Flushed(m))
    [] s.kind \in {"call", "around", "bridge"} ->
         LoadedBack(s, LoadsBack(s, m.depth), run(IF s.kind = "around" THEN s.code ELSE i.h.code, Flushed(m)))
    [] s.kind \in {"skip ops", "skip slots"} -> m
    [] s.kind \in {"pop", "push", "const", "numeric", "trunc"} ->
         InRegisters(m, Total(PopsOfStep(s), Len(PopsOfStep(s))), LAMBDA st : run(<<s>>, st))
    [] OTHER -> run(<<s>>, m)

(* A choice by an operand or by the depth, and groups of slots.            *)
RECURSIVE NDo(_, _, _)
NChoice(s, m, val(_)) ==
  IF s.kind = "static" THEN IF val(s.e) = 0 THEN s.a ELSE s.b
  ELSE IF m.depth \in s.lo .. s.hi THEN s.a ELSE s.b
NControlled(s, i, m, val(_)) ==
  IF s.kind = "groups"
  THEN FoldLeft(LAMBDA st, j :
                  NDo(s.code, [i EXCEPT !.imm = SubSeq(@, s.i + 1 + s.size * (j - 1), Len(@))], st),
                m, [j \in 1 .. val(s.c) |-> j])
  ELSE NDo(NChoice(s, m, val), i, m)
NHead(s, i, m, val(_), run(_, _)) ==
  IF s.kind \in {"static", "depth", "groups"} THEN NControlled(s, i, m, val) ELSE NStep(s, i, m, val, run)
NDo(code, i, m) ==
  IF code = <<>> \/ ~Running(m) \/ m.reject THEN m
  ELSE NDo(Tail(code), i,
           NHead(Head(code), i, m, LAMBDA e : Eval(e, i.imm, m), LAMBDA c, st : Do(c, i.imm, st)))

(***************************************************************************)
(* The emitter has one counter, stack_depth, and advances it as it emits.  *)
(* The machine's depth is that counter where the emitted code is run;      *)
(* DepthAfter is the same counter where it is not, as behind a jump or a   *)
(* trap: a number, or Rejected.                                            *)
(***************************************************************************)
Rejected == -1

PushDepth(d, n) == FoldLeft(LAMBDA acc, i : NextDepth(acc), d, [i \in 1 .. n |-> i])
PopDepth(d, n) == IF d < n THEN Rejected ELSE d - n
ReplaceDepth(low, n) == IF low = Rejected THEN Rejected ELSE PushDepth(low, n)
StepDepth(s, imm, d, val(_)) ==
  CASE s.kind = "ensure" -> IF d >= s.n THEN d ELSE IF s.n > StackRegs THEN Rejected ELSE s.n
    [] s.kind \in {"flush", "forget", "handler"} -> 0
    [] s.kind = "reload" -> IF s.n > StackRegs THEN Rejected ELSE s.n
    [] s.kind = "reject" -> Rejected
    [] s.kind = "require" -> IF val(s.e) \in s.ok THEN d ELSE Rejected
    [] s.kind = "call" -> LET n == ReloadSlots(s, d) IN IF n <= StackRegs THEN n ELSE 0
    [] s.kind = "discard" -> LET n == imm[s.i + 1] \div 4 IN IF n > StackRegs THEN Rejected ELSE Max({d, n}) - n
    [] s.kind \in {"around", "bridge"} -> d - s.less
    [] s.kind = "pop" -> PopDepth(d, Cells(s.t))
    [] s.kind = "push" -> PushDepth(d, Cells(s.t))
    [] s.kind = "const" -> PushDepth(d, Cells(s.push))
    [] s.kind \in {"numeric", "trunc"} -> ReplaceDepth(PopDepth(d, Total(s.pops, Len(s.pops))), Cells(s.push))
    [] OTHER -> d
RECURSIVE DepthAfter(_, _, _)
DepthControlled(s, imm, d, val(_)) ==
  IF s.kind = "groups" THEN FoldLeft(LAMBDA acc, j : DepthAfter(s.code, imm, acc), d, [j \in 1 .. val(s.c) |-> j])
  ELSE DepthAfter(NChoice(s, [depth |-> d], val), imm, d)
DepthHead(s, imm, d, val(_)) ==
  IF s.kind \in {"static", "depth", "groups"} THEN DepthControlled(s, imm, d, val) ELSE StepDepth(s, imm, d, val)
DepthAfter(code, imm, d) ==
  IF code = <<>> \/ d = Rejected THEN d
  ELSE DepthAfter(Tail(code), imm, DepthHead(Head(code), imm, d, LAMBDA e : Eval(e, imm, <<>>)))
=============================================================================
