---------------------------- MODULE Interpreter ----------------------------
(***************************************************************************)
(* One instruction, from the parser to its effect: the code the parser     *)
(* emits for it is executed handler by handler on a guest stack, and what  *)
(* is left is compared with the WebAssembly specification and with the     *)
(* fuel the documentation says it costs.  A test is the instruction (area  *)
(* and op), its operands xs and immediates x, and the state it starts in.  *)
(***************************************************************************)
EXTENDS ParsePlain, WasmPlain

CONSTANTS InstructionsOf(_), \* the instructions of an area
          OperandsOf(_, _), \* operands of an instruction
          ImmediatesOf(_, _), \* its immediates
          WorldsOf(_, _) \* the memories, the instance, the locals and the fuel it runs with

VARIABLES test,
          parsed, \* the types the parser checks the instruction with
          todo, \* the instructions it emitted that are still to be executed
          vm

testVars == <<test, parsed, todo, vm>>

Areas == {"numeric", "simd", "access", "vector access", "atomic", "named", "variable"}

(***************************************************************************)
(* What the parser knows of the instruction, and what it emits.            *)
(***************************************************************************)
ParsedAccess == ParseTableAndLoads.ParseWholeLoads \o ParseNarrowI32Loads \o ParseNarrowI64Loads \o ParseStores
ParsedAtomics ==
  ParseWaits.ParseAtomicLoads \o ParseStoresAndAdd.ParseAtomicStores \o ParseStoresAndAdd.ParseRmwAdd \o ParseSubAnd.ParseRmwSub \o ParseSubAnd.ParseRmwAnd \o ParseOrXor.ParseRmwOr \o ParseOrXor.ParseRmwXor
    \o ParseXchg.ParseRmwXchg \o ParseXchg.ParseCmpxchg
ParsedNamed ==
  ("memory.size" :> ParseSizesAndConst.ParseMemorySize) @@ ("memory.grow" :> ParseSizesAndConst.ParseMemoryGrow) @@ ("memory.init" :> ParseSatAndBulk.ParseMemoryInit)
    @@ ("data.drop" :> ParseSatAndBulk.ParseDataDrop) @@ ("memory.copy" :> ParseSatAndBulk.ParseMemoryCopy) @@ ("memory.fill" :> ParseSatAndBulk.ParseMemoryFill)
    @@ ("table.init" :> ParseTableBulk.ParseTableInit) @@ ("elem.drop" :> ParseTableBulk.ParseElemDrop) @@ ("table.copy" :> ParseTableBulk.ParseTableCopy)
    @@ ("table.grow" :> ParseTableBulk.ParseTableGrow) @@ ("table.size" :> ParseTableBulk.ParseTableSize) @@ ("table.fill" :> ParseTableBulk.ParseTableFill)
    @@ ("table.get" :> ParseTableAndLoads.ParseTableGet) @@ ("table.set" :> ParseTableAndLoads.ParseTableSet) @@ ("notify" :> ParseWaits.ParseNotify)
    @@ ("wait32" :> ParseWaits.ParseWait32) @@ ("wait64" :> ParseWaits.ParseWait64) @@ ("fence" :> ParseWaits.ParseFence)
    @@ ("ref.null" :> ParseExtendAndRefs.ParseRefNull) @@ ("ref.is_null" :> ParseExtendAndRefs.ParseRefIsNull) @@ ("ref.func" :> ParseExtendAndRefs.ParseRefFunc)
ParsedVariable(name, t) ==
  CASE name = "drop" -> ParseDrop(t)
    [] name = "select" -> ParseSelect(t)
    [] name = "local.get" -> ParseLocalGet(t)
    [] name = "local.set" -> ParseLocalSet(t)
    [] name = "local.tee" -> ParseLocalTee(t)
    [] name = "global.get" -> ParseGlobalGet(t)
    [] name = "global.set" -> ParseGlobalSet(t)
RowOf(area, id) ==
  CASE area = "numeric" -> ParsedNumeric[id]
    [] area \in {"simd", "vector access"} -> ParsedSimd[id]
    [] area = "access" -> ParsedAccess[id]
    [] area = "atomic" -> ParsedAtomics[id]
    [] area = "named" -> ParsedNamed[id]
    [] area = "variable" -> ParsedVariable(id[1], id[2])
EmittedFor(row, t) ==
  IF t.area = "numeric" THEN [i \in 1 .. Len(row.code) |-> I(row.code[i], <<t.x.const>>)]
  ELSE PushRow(row, [i \in DOMAIN t.ids |-> t.mems[t.ids[i]]], t.x)

-----------------------------------------------------------------------------
(* The reference: the types of the instruction, and its outcome.           *)
TypesOf(area, id) ==
  CASE area = "numeric" -> <<SpecTakes(SpecNumeric[id]), <<SpecGives(SpecNumeric[id])>>>>
    [] area = "simd" -> <<SimdTakes(SpecSimd[id]), <<SimdGives(SpecSimd[id])>>>>
    [] area = "access" -> AccessTypes(id)
    [] area = "vector access" -> VectorAccessTypes(id)
    [] area = "atomic" -> AtomicTypesOf(id)
    [] area = "named" -> NamedTypes(id)
    [] area = "variable" -> VariableTypes(id[1], id[2])
StateOf(m) == [mems |-> m.mems, ids |-> m.ids, inst |-> m.inst, locals |-> m.locals]
NumericOutcome(st, r) == IF r = <<>> THEN Trapping(st) ELSE Normal(st, r)
Outcome(t) ==
  LET st == StateOf(t)
  IN CASE t.area = "numeric" ->
            NumericOutcome(st, SpecResult(SpecNumeric[t.op], t.xs, t.x.const))
       [] t.area = "simd" -> Normal(st, <<SimdSpec(SpecSimd[t.op], t.xs, t.x.imm)>>)
       [] t.area = "access" -> AccessSpec(t.op, t.x, t.xs, st)
       [] t.area = "vector access" -> VectorAccessSpec(t.op, t.x, t.xs, st)
       [] t.area = "atomic" -> AtomicSpec(t.op, t.x, t.xs, st)
       [] t.area = "named" -> NamedSpec(t.op, t.x, t.xs, st)
       [] t.area = "variable" -> VariableSpec(t.op[1], t.x, t.xs, st)

(* What an instruction of outcome r costs (docs/core/metering.md): an      *)
(* admission for the whole of a native bulk operation, a checkpoint for    *)
(* each chunk or element, or what a notification did.                      *)
Shifted(n, by) == n \div 2^by
CrossCopy(t) == t.op = "memory.copy" /\ t.ids[t.x.memidx + 1] # t.ids[t.x.memidx2 + 1]
Cost(t, r) ==
  IF t.area # "named" THEN 0
  ELSE CASE t.op \in {"memory.fill", "memory.init"} \/ (t.op = "memory.copy" /\ ~CrossCopy(t)) ->
              1 + Shifted(t.xs[3], MemoryGranule)
         [] t.op = "memory.grow" -> 1 + t.xs[1] * 2^PageGranules
         [] t.op \in {"table.fill", "table.copy"} -> 1 + Shifted(t.xs[3], TableGranule)
         [] t.op = "table.grow" -> IF t.xs[2] >= 2^(Bits("i32") - 1) THEN 0 ELSE 1 + Shifted(t.xs[2], TableGranule)
         [] r.how = "trap" -> 0
         [] CrossCopy(t) -> (t.xs[3] + ChunkBytes - 1) \div ChunkBytes
         [] t.op = "table.init" -> t.xs[3]
         [] t.op = "notify" /\ t.mems[t.ids[t.x.memidx + 1]].shared -> 1 + r.out[1]
         [] OTHER -> 0
(* What has been done when the fuel does not suffice.                      *)
PaidPart(t) ==
  CASE CrossCopy(t) -> [t EXCEPT !.xs[3] = t.fuel * ChunkBytes]
    [] t.op = "table.init" -> [t EXCEPT !.xs[3] = t.fuel]
    [] OTHER -> t
Interrupted(t) == IF CrossCopy(t) \/ t.op \in {"table.init", "notify"} THEN Outcome(PaidPart(t)).st ELSE StateOf(t)

-----------------------------------------------------------------------------
(* A value of the caller lies below the operands.                          *)
CallersCells == CellsOf("i32", 1)
CellsFor(t, v) == [i \in 1 .. Cells(t) |-> <<v, i, Cells(t)>>]
Pushed(ts, xs) == FoldLeft(LAMBDA s, i : s \o CellsFor(ts[i], xs[i]), CallersCells, [i \in 1 .. Len(ts) |-> i])

Begins(t, row) ==
  /\ test = t /\ parsed = <<row.takes, row.gives>> /\ todo = EmittedFor(row, t)
  /\ vm = [MachineOf(Pushed(TypesOf(t.area, t.op)[1], t.xs), t.locals, t.mems, t.inst, t.fuel) EXCEPT !.ids = t.ids]
InitTest ==
  \E area \in Areas : \E id \in InstructionsOf(area) :
    \E xs \in OperandsOf(area, id), x \in ImmediatesOf(area, id), w \in WorldsOf(area, id) :
      Begins([area |-> area, op |-> id, xs |-> xs, x |-> x] @@ w, RowOf(area, id))

Dispatch ==
  /\ vm.trap = "none" /\ todo # <<>>
  /\ vm' = Exec(Head(todo), vm)
  /\ todo' = Tail(todo)
  /\ UNCHANGED <<test, parsed>>

TestSpec == InitTest /\ [][Dispatch]_testVars

NoTest == test = <<>> /\ parsed = <<>> /\ todo = <<>> /\ vm = <<>>
Stopped == test # <<>> /\ (vm.trap # "none" \/ todo = <<>>)

(***************************************************************************)
(* Every instruction, executed by the handler the parser chooses with the  *)
(* operands the parser puts behind it, leaves the stack, the memories, the *)
(* tables, the globals and the locals that the specification says, and     *)
(* traps, or suspends, exactly when it says so; a trap changes nothing.    *)
(* A reinterpretation leaves the cells of its operand.                     *)
(***************************************************************************)
Kept(t) == t.area = "numeric" /\ SpecNumeric[t.op][2] = "reinterpret"
Leaves(r, types) ==
  /\ StateOf(vm) = r.st
  /\ CASE r.how = "trap" -> vm.trap \notin {"none", "garbled", "effect", "panic", "wrong memory", "FuelExhausted"}
       [] r.how = "wait" -> vm.trap = "effect" /\ vm.stack = CallersCells
       [] OTHER -> vm.trap = "none" /\ vm.stack = Pushed(IF Kept(test) THEN types[1] ELSE types[2], r.out)
ComputesSpec ==
  Stopped => \A r \in {Outcome(test)} : Cost(test, r) <= test.fuel => Leaves(r, TypesOf(test.area, test.op))

(***************************************************************************)
(* The operand and result types the parser checks are the ones of the      *)
(* specification.                                                          *)
(***************************************************************************)
ParsedTypesMatch == test # <<>> => parsed = TypesOf(test.area, test.op)

(***************************************************************************)
(* Fuel is what the documentation says: a native bulk operation is paid    *)
(* for before it changes anything, and not refunded when it traps; with    *)
(* too little fuel all of it is consumed and nothing is done.  A copy      *)
(* between memories and a table initialisation pay as they go, and leave   *)
(* exactly the part that was paid for; a notification that cannot be paid  *)
(* has been delivered.                                                     *)
(***************************************************************************)
PaidFor(cost) ==
  IF cost <= test.fuel THEN vm.ticks = cost /\ vm.trap # "FuelExhausted"
  ELSE vm.trap = "FuelExhausted" /\ vm.ticks = test.fuel /\ StateOf(vm) = Interrupted(test)
FuelMatchesWork == Stopped => PaidFor(Cost(test, Outcome(test)))
=============================================================================
