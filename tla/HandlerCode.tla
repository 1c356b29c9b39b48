---------------------------- MODULE HandlerCode ----------------------------
(***************************************************************************)
(* The language in which the handlers are written down, and its meaning.   *)
(* A handler is a sequence of statements over the machine state            *)
(*   stack   the operands, in cells (Values)                               *)
(*   locals  the locals of the frame                                       *)
(*   mems    the linear memories: whether shared, and the bytes            *)
(*   ids     the memory that each index of the module names                *)
(*   jump    <<target>> once the handler has chosen to jump, or <<>>       *)
(*   ticks   what it has paid at checkpoints                               *)
(*   inst    the rest of the instance: tables, globals, functions, data    *)
(*           and element segments, and whether an effect is pending        *)
(*   fuel    how much it may pay                                           *)
(*   trap    the error it returned, or "none"                              *)
(*   env     the handler's own variables                                   *)
(* The operands that follow a handler in the code (its slots, counted from *)
(* 0 as in the source) are the sequence imm.  Every value is an unsigned   *)
(* word, a float or a vector, as the untyped guest stack holds them.       *)
(***************************************************************************)
EXTENDS StoreObjects

CONSTANT MaxIterations \* how often a loop of a handler is followed

ASSUME IterationsAssumption == MaxIterations \in Nat

(***************************************************************************)
(* Expressions, which have no effect: the local that slot i names, the     *)
(* value of slot i, the memory it names, a variable, a number, an          *)
(* operation on values read as of type t, a choice, and an operation that  *)
(* slot k chooses from a table.                                            *)
(***************************************************************************)
L(i) == [e |-> "local", i |-> i]
K(i) == [e |-> "slot", i |-> i]
MemoryNamed(i) == [e |-> "memory", i |-> i]
V(x) == [e |-> "var", x |-> x]
N(n) == [e |-> "int", n |-> n]
F(fn, t, a, b) == [e |-> "fn", fn |-> fn, t |-> t, a |-> a, b |-> b]
IfZero(c, a, b) == [e |-> "if", c |-> c, a |-> a, b |-> b]
(* A part of slot i, which packs small numbers.                            *)
Field(i, div, mod) == [e |-> "field", i |-> i, div |-> div, mod |-> mod]
Byte(i, n) == Field(i, 256^n, 256)
OpBy(ops, n, a, b) == [e |-> "kind", ops |-> ops, n |-> n, a |-> a, b |-> b]
ByKind(ops, k, shift, a, b) == OpBy(ops, Field(k, 2^shift, 256), a, b)
(* Slot i, as a local or as a constant according to the kind in slot k.    *)
RhsOf(k, i) == [e |-> "rhs", k |-> k, i |-> i]
Plus(a, b) == F("wrapping_add", "u32", a, b)
Minus(a, b) == F("wrapping_sub", "u32", a, b)
Times(a, b) == F("wrapping_mul", "u32", a, b)
BitAnd(a, b) == F("and", "u32", a, b)
BitXor(a, b) == F("bitxor", "u32", a, b)
Shl(a, b) == F("wasm_shl", "u32", a, b)
Shr(a, b) == F("wasm_shr_u", "u32", a, b)
Equal(a, b) == F("eq", "u32", a, b)
IsZero(a) == Equal(a, N(0))

(***************************************************************************)
(* Vectors, and the sequences of their lanes.                              *)
(***************************************************************************)
LanesOf(t, v) == [e |-> "lanes", t |-> t, v |-> v]
VectorOf(t, xs) == [e |-> "vector", t |-> t, xs |-> xs]
Each(fn, t, u, xs) == [e |-> "each", fn |-> fn, t |-> t, u |-> u, xs |-> xs]
ZipWith(fn, t, u, xs, ys) == [e |-> "zip", fn |-> fn, t |-> t, u |-> u, xs |-> xs, ys |-> ys]
(* A shift moves every lane by the same count.                             *)
ShiftEach(fn, t, xs, n) == [e |-> "shift", fn |-> fn, t |-> t, u |-> t, xs |-> xs, n |-> n]
Splat(t, x) == [e |-> "splat", t |-> t, x |-> x]
HalfOf(part, xs) == [e |-> "half", part |-> part, xs |-> xs]
Cat(xs, ys) == [e |-> "cat", xs |-> xs, ys |-> ys]
Choose(xs, ns) == [e |-> "choose", xs |-> xs, ns |-> ns]
LaneAt(xs, n) == [e |-> "lane", xs |-> xs, n |-> n]
WithLane(xs, n, x) == [e |-> "with lane", xs |-> xs, n |-> n, x |-> x]
Zeros(n) == [e |-> "zeros", n |-> n]
FloatZeros(n) == [e |-> "float zeros", n |-> n]
AllTrue(xs) == [e |-> "all true", xs |-> xs]
AnyTrue(xs) == [e |-> "any true", xs |-> xs]
MoveMask(xs) == [e |-> "mask", xs |-> xs]

(***************************************************************************)
(* Statements.                                                             *)
(***************************************************************************)
Pop(x, t) == [kind |-> "pop", x |-> x, t |-> t]
Push(t, e) == [kind |-> "push", t |-> t, e |-> e]
Drop(e) == [kind |-> "drop", e |-> e]
Set(i, e) == [kind |-> "set", i |-> i, e |-> e]
Let(x, e) == [kind |-> "let", x |-> x, e |-> e]
BrIf(e, i) == [kind |-> "br_if", e |-> e, i |-> i]
(* Pay n units of fuel, or stop; a checkpoint is one unit.                 *)
Charge(n) == [kind |-> "charge", n |-> n]
Check == Charge(N(1))
(* Leave the loop if c is not 0; repeat the statements until that happens. *)
BreakIf(c) == [kind |-> "break", c |-> c]
Loop(code) == [kind |-> "loop", code |-> code]
(* The statements if c is 0, or others; and once for each of c groups of   *)
(* slots, the first at slot i and each of the given size.                  *)
Either(c, a, b) == [kind |-> "either", c |-> c, a |-> a, b |-> b]
When(c, a) == Either(c, <<>>, a)
ForGroups(c, i, size, code) == [kind |-> "groups", c |-> c, i |-> i, size |-> size, code |-> code]
Fail(error) == [kind |-> "fail", error |-> error]
Jump(i) == BrIf(N(1), i)
(* Go on n slots behind the target; or at the target that e selects from a *)
(* table, whose size is in slot n and whose first entry is in slot i.      *)
JumpBehind(i, n) == [kind |-> "jump behind", i |-> i, n |-> n]
BrTable(e, n, i) == [kind |-> "br_table", e |-> e, n |-> n, i |-> i]
(* Keep only the results of a block above its base; slot i packs both.     *)
BlockReturn(i) == [kind |-> "block return", i |-> i]
(* Read or write a t at address a plus the offset in slot k, in the memory *)
(* mem: the default one, or the one slot i names, of the kind expected.    *)
(* What is read is extended to the width of u.                             *)
Default == [shared |-> FALSE, i |-> -1]
DefaultShared == [shared |-> TRUE, i |-> -1]
Indexed(i) == [shared |-> FALSE, i |-> i]
IndexedShared(i) == [shared |-> TRUE, i |-> i]
Load(x, t, u, mem, a, k) == [kind |-> "load", x |-> x, t |-> t, u |-> u, mem |-> mem, a |-> a, k |-> k]
(* The same where n chooses the type from a sequence.                      *)
LoadBy(x, ts, n, a, k) == [kind |-> "load by", x |-> x, ts |-> ts, n |-> n, u |-> "u32", mem |-> Default, a |-> a, k |-> k]
StoreBy(ts, n, a, k, e) == [kind |-> "store by", ts |-> ts, n |-> n, mem |-> Default, a |-> a, k |-> k, e |-> e]
(* Consecutive values of type t, as lanes.                                 *)
LoadLanes(x, t, n, mem, a, k) == [kind |-> "load lanes", x |-> x, t |-> t, n |-> n, mem |-> mem, a |-> a, k |-> k]
StoreLanes(t, n, mem, a, k, e) == [kind |-> "store lanes", t |-> t, n |-> n, mem |-> mem, a |-> a, k |-> k, e |-> e]
Store(t, mem, a, k, e) == [kind |-> "store", t |-> t, mem |-> mem, a |-> a, k |-> k, e |-> e]
(* An operation fn of a memory object, at address a plus the offset in     *)
(* slot 0; only the sum of such an address; an operation of a memory as a  *)
(* whole; and one of the table that slot i names.                          *)
Atomic(x, fn, t, mem, a, args) == [kind |-> "memory", x |-> x, fn |-> fn, t |-> t, mem |-> mem, a |-> a, k |-> 0, args |-> args]
Offset(a, k) == [kind |-> "offset", a |-> a, k |-> k]
WholeMemory(x, fn, mem, args) == [kind |-> "memory", x |-> x, fn |-> fn, t |-> "u8", mem |-> mem, a |-> N(0), k |-> -1, args |-> args]
OnTable(x, fn, i, args) == [kind |-> "table", x |-> x, fn |-> fn, i |-> i, args |-> args]
(* Copies between memories or tables, and initialisation from segments.    *)
CopyMemory(to, from, dst, src, len) == [kind |-> "copy memory", mem |-> to, from |-> from, dst |-> dst, src |-> src, len |-> len]
CopyTable(i, j, dst, src, len) == [kind |-> "copy table", i |-> i, j |-> j, dst |-> dst, src |-> src, len |-> len]
InitMemory(i, mem, dst, src, len) == [kind |-> "init memory", i |-> i, mem |-> mem, dst |-> dst, src |-> src, len |-> len]
InitTable(i, j, dst, src, len) == [kind |-> "init table", i |-> i, j |-> j, dst |-> dst, src |-> src, len |-> len]
DropSegment(what, i) == [kind |-> "drop segment", what |-> what, i |-> i]
GetGlobal(x, i) == [kind |-> "get global", x |-> x, i |-> i]
SetGlobal(i, e) == [kind |-> "set global", i |-> i, e |-> e]
GetFunc(x, i) == [kind |-> "get func", x |-> x, i |-> i]
(* Return to the driver; go back to it if an effect is pending.            *)
Yield == Fail("effect")
ReturnIfPending == [kind |-> "pending"]

-----------------------------------------------------------------------------
Apply(fn, t, a, b) ==
  IF IsFloat(t) THEN FloatArith(fn, a, b)[1]
  ELSE Wrap(Bits(t), IntArith(fn, t, ReadAs(t, Wrap(Bits(t), a)), ReadAs(t, Wrap(Bits(t), b)))[1])

(* Lane by lane; a shift takes its count for all of them.                  *)
LaneWise(e, xs, ys) ==
  [i \in 1 .. Len(xs) |-> LaneArith(e.fn, e.t, e.u, xs[i], IF e.e = "shift" THEN ys[1] ELSE ys[i])]

RECURSIVE Eval(_, _, _), EvalLanes(_, _, _)
Eval(e, imm, m) ==
  CASE e.e = "local" -> m.locals[imm[e.i + 1]]
    [] e.e = "slot" -> imm[e.i + 1]
    [] e.e = "memory" -> m.ids[imm[e.i + 1] + 1]
    [] e.e = "var" -> m.env[e.x]
    [] e.e = "int" -> e.n
    [] e.e = "if" -> IF Eval(e.c, imm, m) = 0 THEN Eval(e.a, imm, m) ELSE Eval(e.b, imm, m)
    [] e.e = "field" -> (imm[e.i + 1] \div e.div) % e.mod
    [] e.e \in {"fn", "kind"} ->
         LET op == IF e.e = "fn" THEN <<e.fn, e.t>> ELSE e.ops[Eval(e.n, imm, m) + 1]
         IN Apply(op[1], op[2], Eval(e.a, imm, m), Eval(e.b, imm, m))
    [] e.e = "rhs" -> IF imm[e.k + 1] % 2 = 0 THEN m.locals[imm[e.i + 1]] ELSE imm[e.i + 1]
    [] OTHER -> EvalLanes(e, imm, m)
EvalLanes(e, imm, m) ==
  CASE e.e = "lanes" -> to_array(e.t, Eval(e.v, imm, m))
    [] e.e = "vector" -> from_array(e.t, Eval(e.xs, imm, m))
    [] e.e = "splat" -> LET x == Eval(e.x, imm, m) IN [i \in 1 .. LaneCount(e.t) |-> x]
    [] e.e = "zeros" -> [i \in 1 .. e.n |-> 0]
    [] e.e = "float zeros" -> [i \in 1 .. e.n |-> Zero(1)]
    [] e.e = "cat" -> Eval(e.xs, imm, m) \o Eval(e.ys, imm, m)
    [] OTHER ->
         LET xs == Eval(e.xs, imm, m)
         IN CASE e.e \in {"each", "zip", "shift"} ->
                   LaneWise(e, xs, IF e.e = "each" THEN xs ELSE IF e.e = "zip" THEN Eval(e.ys, imm, m) ELSE <<Eval(e.n, imm, m)>>)
              [] e.e = "half" -> Half(xs, e.part)
              [] e.e = "choose" -> Picked(xs, Eval(e.ns, imm, m))
              [] e.e = "lane" -> xs[Eval(e.n, imm, m) + 1]
              [] e.e = "with lane" -> [xs EXCEPT ![Eval(e.n, imm, m) + 1] = Eval(e.x, imm, m)]
              [] e.e = "all true" -> Bool(\A i \in 1 .. Len(xs) : xs[i] # 0)
              [] e.e = "any true" -> Bool(\E i \in 1 .. Len(xs) : xs[i] # 0)
              [] e.e = "mask" -> move_mask(xs)

Trap(m, error) == [m EXCEPT !.trap = error]
Bind(m, x, v) == [m EXCEPT !.env = (x :> v) @@ @]
PushWord(m, t, v) == [m EXCEPT !.stack = @ \o [i \in 1 .. Cells(t) |-> <<v, i, Cells(t)>>]]
PopCells(m, ts) == [m EXCEPT !.stack = Popped(@, ts)]

(* The memory a handler reaches must be of the kind it was made for.       *)
MemIndex(mem, imm) == IF mem.i < 0 THEN 1 ELSE imm[mem.i + 1] + 1
MemOf(mem, imm, m) == m.ids[MemIndex(mem, imm)]
WrongMemory(mem, imm, m) == MemIndex(mem, imm) > Len(m.ids) \/ m.mems[MemOf(mem, imm, m)].shared # mem.shared

(* An access of type t, with the value v when it stores; val gives the     *)
(* value of an expression, here and below.                                 *)
AccessAt(s, t, j, a, m, v) ==
  LET size == Bytes[t]
      count == IF s.kind \in {"load lanes", "store lanes"} THEN s.n ELSE 1
      data == m.mems[j].data
      Read(i) == ReadAs(t, ReadBytes(data, a[1] + size * (i - 1), size))
  IN IF a = <<>> \/ a[1] + size * count > Len(data) THEN Trap(m, "MemoryIndexOutOfRange")
     ELSE CASE s.kind \in {"load", "load by"} -> Bind(m, s.x, Wrap(Bits(s.u), Read(1)))
            [] s.kind = "load lanes" -> Bind(m, s.x, [i \in 1 .. count |-> Read(i)])
            [] s.kind \in {"store", "store by"} -> [m EXCEPT !.mems[j].data = WriteBytes(@, a[1], size, v)]
            [] s.kind = "store lanes" ->
                 [m EXCEPT !.mems[j].data =
                    FoldLeft(LAMBDA d, i : WriteBytes(d, a[1] + size * (i - 1), size, Wrap(Bits(t), v[i])),
                             @, [i \in 1 .. count |-> i])]
Access(s, t, imm, m, val(_)) ==
  IF WrongMemory(s.mem, imm, m) THEN Trap(m, "wrong memory")
  ELSE AccessAt(s, t, MemOf(s.mem, imm, m), compute_memory_offset(imm[s.k + 1], val(s.a)), m,
                IF s.kind \in {"store", "store by", "store lanes"} THEN val(s.e) ELSE 0)

Pay(m, n) ==
  IF m.ticks + n > m.fuel THEN Trap([m EXCEPT !.ticks = m.fuel], "FuelExhausted")
  ELSE [m EXCEPT !.ticks = @ + n]

MemoryCall(fn, mem, a, t, x) ==
  CASE fn = "load" -> atomic_load(mem, a, t)
    [] fn = "store" -> atomic_store(mem, a, t, x[1])
    [] fn = "cmpxchg" -> atomic_cmpxchg(mem, a, t, x[1], x[2])
    [] fn = "register_wait" -> register_wait(mem, a, t, x[1])
    [] fn = "notify_waiters" -> notify_waiters(mem, a, x[1])
    [] fn = "page_size" -> Done(mem, page_size(mem))
    [] fn = "grow" -> grow(mem, x[1])
    [] fn = "fill" -> fill(mem, x[1], x[2], x[3])
    [] fn = "copy" -> copy(mem, x[1], x[2], x[3])
    [] OTHER -> atomic_rmw(mem, a, t, fn, x[1])
(* What an operation of a memory object returned, to the machine.          *)
WithMemory(m, j, r) == IF r.error # "none" THEN Trap(m, r.error) ELSE [m EXCEPT !.mems[j] = r.mem]
WithResult(m, x, r) == IF r.error # "none" THEN m ELSE Bind(m, x, r.v)
Returned(m, s, j, r) == WithResult(WithMemory(m, j, r), s.x, r)
OnMemory(s, imm, m, val(_)) ==
  LET a == IF s.k < 0 THEN <<0>> ELSE compute_memory_offset(imm[s.k + 1], val(s.a))
      j == MemOf(s.mem, imm, m)
  IN IF a = <<>> THEN Trap(m, "MemoryIndexOutOfRange")
     ELSE IF WrongMemory(s.mem, imm, m) THEN Trap(m, "wrong memory")
     ELSE Returned(m, s, j, MemoryCall(s.fn, m.mems[j], a[1], s.t, [i \in 1 .. Len(s.args) |-> val(s.args[i])]))

(* Work that is paid for piece by piece stops where the fuel does.         *)
PayEach(m, n, Piece(_, _)) ==
  FoldLeft(LAMBDA st, i : IF st.trap # "none" THEN st
                          ELSE IF Pay(st, 1).trap # "none" THEN Pay(st, 1) ELSE Piece(Pay(st, 1), i),
           m, [i \in 1 .. n |-> i])

(* A copy from one memory to another checks both ranges and pays for each  *)
(* chunk; within one memory it has been paid for, and is one operation.    *)
CopyBetween(m, to, from, dst, src, len) ==
  IF to = from THEN WithMemory(m, to, copy(m.mems[to], dst, src, len))
  ELSE IF ~check_memory_range(m.mems[from], src, len) \/ ~check_memory_range(m.mems[to], dst, len)
  THEN Trap(m, "MemoryIndexOutOfRange")
  ELSE PayEach(m, Chunks(len), LAMBDA st, i : [st EXCEPT !.mems[to] = copy_chunk(@, m.mems[from], dst, src, len, i)])
copy_memory(s, imm, m, val(_)) ==
  IF WrongMemory(s.mem, imm, m) \/ WrongMemory(s.from, imm, m) THEN Trap(m, "wrong memory")
  ELSE CopyBetween(m, MemOf(s.mem, imm, m), MemOf(s.from, imm, m), val(s.dst), val(s.src), val(s.len))

TableCall(fn, tab, x) ==
  CASE fn = "get" -> table_get(tab, x[1])
    [] fn = "set" -> table_set(tab, x[1], x[2])
    [] fn = "size" -> table_size(tab)
    [] fn = "grow" -> table_grow(tab, x[1], x[2])
    [] fn = "fill" -> table_fill(tab, x[1], x[2], x[3])
(* The elements of a segment are evaluated, paid for and stored in turn.   *)
table_init_impl(m, segment, j, dst, src, len) ==
  IF table_init_error(m.inst.tables[j], segment, dst, src, len) THEN Trap(m, "TableIndexOutOfRange")
  ELSE PayEach(m, len, LAMBDA st, i : [st EXCEPT !.inst.tables[j].elems[dst + i] =
                                         ElemRef(segment[1][src + i], m.inst.funcs, m.inst.globals)])
(* The bytes are copied out of the segment before they are written.        *)
WriteCopied(mem, dst, copied) == IF copied.error # "none" THEN copied ELSE write_bytes(mem, dst, copied.v)
mem_init_impl(m, segment, j, dst, src, len) ==
  WithMemory(m, j, WriteCopied(m.mems[j], dst, mem_init_bytes(m.mems[j], segment, src, len)))

InstanceKinds ==
  {"table", "copy table", "init memory", "init table", "drop segment", "get global", "set global", "get func"}
WithTable(m, s, i, r) ==
  IF r.error # "none" THEN Trap(m, r.error)
  ELSE [m EXCEPT !.inst.tables[i] = r.mem, !.env = IF s.kind = "table" THEN (s.x :> r.v) @@ @ ELSE @]
OnInstance(s, imm, m, val(_)) ==
  LET i == imm[s.i + 1] + 1
      tabs == m.inst.tables
  IN CASE s.kind = "get global" -> Bind(m, s.x, m.inst.globals[i])
       [] s.kind = "set global" -> [m EXCEPT !.inst.globals[i] = val(s.e)]
       [] s.kind = "get func" -> Bind(m, s.x, m.inst.funcs[i])
       [] s.kind = "drop segment" ->
            IF s.what = "data" THEN [m EXCEPT !.inst.datas[i] = <<>>] ELSE [m EXCEPT !.inst.elems[i] = <<>>]
       [] s.kind = "init memory" ->
            IF WrongMemory(s.mem, imm, m) THEN Trap(m, "wrong memory")
            ELSE mem_init_impl(m, m.inst.datas[i], MemOf(s.mem, imm, m), val(s.dst), val(s.src), val(s.len))
       [] s.kind = "init table" ->
            table_init_impl(m, m.inst.elems[i], imm[s.j + 1] + 1, val(s.dst), val(s.src), val(s.len))
       [] s.kind = "table" ->
            WithTable(m, s, i, TableCall(s.fn, tabs[i], [k \in 1 .. Len(s.args) |-> val(s.args[k])]))
       [] s.kind = "copy table" ->
            WithTable(m, s, i, table_copy(tabs[i], tabs[imm[s.j + 1] + 1], val(s.dst), val(s.src), val(s.len)))

Running(m) == m.trap = "none" /\ m.jump = <<>>

(* One statement; a numeric handler is a statement of its own.             *)
DropBytes(m, n) ==
  IF Len(m.stack) < n \div 4 THEN Trap(m, "garbled") ELSE [m EXCEPT !.stack = SubSeq(@, 1, Len(@) - n \div 4)]
BlockReturned(m, stack_top, size) ==
  IF Len(m.stack) < Max({stack_top, size}) THEN Trap(m, "garbled")
  ELSE [m EXCEPT !.stack = SubSeq(@, 1, stack_top) \o SubSeq(@, Len(@) - size + 1, Len(@))]
Answered(m, s, r) ==
  IF r = <<>> THEN Trap(PopCells(m, s.pops), "InvalidOperand")
  ELSE [PopCells(m, s.pops) EXCEPT !.stack = @ \o CellsOf(s.push, r[1])]
Step(s, imm, m, val(_)) ==
  CASE s.kind = "const" -> PushWord(m, s.push, imm[1])
    [] s.kind = "pop" ->
         IF ~Found(m.stack, <<s.t>>) THEN Trap(m, "garbled")
         ELSE PopCells(Bind(m, s.x, Operands(m.stack, <<s.t>>)[1]), <<s.t>>)
    [] s.kind = "push" -> PushWord(m, s.t, IF IsSigned(s.t) THEN Wrap(Bits(s.t), val(s.e)) ELSE val(s.e))
    [] s.kind = "drop" -> DropBytes(m, val(s.e))
    [] s.kind = "set" -> [m EXCEPT !.locals[imm[s.i + 1]] = val(s.e)]
    [] s.kind = "let" -> Bind(m, s.x, val(s.e))
    [] s.kind = "br_if" -> IF val(s.e) = 0 THEN m ELSE [m EXCEPT !.jump = <<imm[s.i + 1]>>]
    [] s.kind = "jump behind" -> [m EXCEPT !.jump = <<imm[s.i + 1], s.n>>]
    [] s.kind = "br_table" -> [m EXCEPT !.jump = <<imm[s.i + 1 + Min({val(s.e), imm[s.n + 1]})]>>]
    [] s.kind = "block return" -> BlockReturned(m, imm[s.i + 1] \div 256, imm[s.i + 1] % 256)
    [] s.kind = "charge" -> Pay(m, val(s.n))
    [] s.kind = "offset" ->
         IF compute_memory_offset(imm[s.k + 1], val(s.a)) = <<>> THEN Trap(m, "MemoryIndexOutOfRange") ELSE m
    [] s.kind = "pending" -> IF m.inst.pending THEN Trap(m, "effect") ELSE m
    [] s.kind = "fail" -> Trap(m, s.error)
    [] s.kind \in {"load", "store", "load lanes", "store lanes", "load by", "store by"} ->
         LET by == s.kind \in {"load by", "store by"}
         IN IF by /\ val(s.n) >= Len(s.ts) THEN Trap(m, "InvalidOperand")
            ELSE Access(s, IF by THEN s.ts[val(s.n) + 1] ELSE s.t, imm, m, val)
    [] s.kind = "memory" -> OnMemory(s, imm, m, val)
    [] s.kind = "copy memory" -> copy_memory(s, imm, m, val)
    [] s.kind \in InstanceKinds -> OnInstance(s, imm, m, val)
    [] s.kind \in {"numeric", "trunc"} ->
         IF ~Found(m.stack, s.pops) THEN Trap(m, "garbled")
         ELSE Answered(m, s, NumericResult(s, Operands(m.stack, s.pops)))

(* A sequence of statements ends at a trap, a jump or a break.  What a     *)
(* break, a choice or a repetition does depends on the value of c.         *)
ControlKinds == {"break", "either", "groups"}
RECURSIVE Do(_, _, _), Iterate(_, _, _, _), Controlled(_, _, _, _)
Do(code, imm, m) ==
  IF code = <<>> \/ ~Running(m) \/ m.broken THEN m
  ELSE LET s == Head(code)
       IN Do(Tail(code), imm,
             IF s.kind = "loop" THEN Iterate(s.code, imm, m, MaxIterations)
             ELSE IF s.kind \in ControlKinds THEN Controlled(s, Eval(s.c, imm, m), imm, m)
             ELSE Step(s, imm, m, LAMBDA e : Eval(e, imm, m)))
Controlled(s, c, imm, m) ==
  CASE s.kind = "break" -> [m EXCEPT !.broken = c # 0]
    [] s.kind = "either" -> Do(IF c = 0 THEN s.a ELSE s.b, imm, m)
    [] s.kind = "groups" ->
         FoldLeft(LAMBDA st, j : Do(s.code, SubSeq(imm, s.i + 1 + s.size * (j - 1), Len(imm)), st),
                  m, [j \in 1 .. c |-> j])
Iterate(code, imm, m, n) ==
  IF n = 0 THEN Trap(m, "unbounded")
  ELSE LET st == Do(code, imm, m)
       IN IF st.broken THEN [st EXCEPT !.broken = FALSE]
          ELSE IF Running(st) THEN Iterate(code, imm, st, n - 1) ELSE st

(* An instruction, and a sequence of instructions up to a jump.            *)
I(h, imm) == [h |-> h, imm |-> imm]
Exec(i, m) == IF Running(m) THEN Do(i.h.code, i.imm, [m EXCEPT !.env = <<>>]) ELSE m
ExecAll(code, m) == FoldLeft(LAMBDA st, i : Exec(i, st), m, code)
MachineOf(stack, locals, mems, inst, fuel) ==
  [stack |-> stack, locals |-> locals, mems |-> mems, ids |-> [i \in 1 .. Len(mems) |-> i], inst |-> inst, fuel |-> fuel, env |-> <<>>,
   jump |-> <<>>, broken |-> FALSE, ticks |-> 0, trap |-> "none"]
(* Where no instruction uses the instance, and fuel is never short.        *)
Unlimited == 2^30
Machine(stack, locals, mems) == MachineOf(stack, locals, mems, <<>>, Unlimited)
=============================================================================
