--------------------------- MODULE MCInterpreter ---------------------------
EXTENDS Interpreter

(* The cases in which the code is known to differ from its reference, as   *)
(* the README says, and which are tried all the same.                      *)
CONSTANT Divergent

ASSUME DivergentAssumption ==
  Divergent \subseteq {"lane", "notify", "end", "select", "scaled index", "loop locals", "long run", "guarded body"}

(* Numbers: the edges of a width, and around them.                         *)
IntSamples(n) ==
  <<0, 1, 2, 3>> \o IF n = 2 THEN <<>>
                    ELSE <<n - 1, n, n + 1, 2^(n - 1) - 1, 2^(n - 1), 2^(n - 1) + 1, 2^n - 2, 2^n - 1>>
Edges == <<1, 2, 3, 2^7, 2^8, 2^15, 2^16>>
FloatSamples ==
  [k \in 1 .. (18 * Len(Edges)) |->
     LET j == k - 1
     IN (IF j % 2 = 0 THEN 1 ELSE -1) * (Edges[(j \div 18) + 1] * One + ((j \div 2) % 9) - 4)]
FloatsIn(t, q) ==
  LET ok(n) == n # 0 /\ Representable(Prec(t), n)
      numbers == SelectSeq(q, ok)
  IN <<NaN, Inf(1), Inf(-1), Zero(1), Zero(-1)>> \o [i \in 1 .. Len(numbers) |-> <<"num", numbers[i]>>]
SampleSeq(t, n) ==
  IF ~IsFloat(t) THEN IntSamples(Bits(t))
  ELSE FloatsIn(t, IF n = 1 THEN FloatSamples ELSE <<-6, -1, 1, 6>>)
Samples(t, n) == Range(SampleSeq(t, n))

(* Vectors: samples in consecutive lanes, or the same one in every lane.   *)
Filled(t, q, k) == OfLanes(t, [i \in 1 .. LanesIn(t) |-> q[((k + i - 1) % Len(q)) + 1]])
Packed(t, q) == {Filled(t, q, LanesIn(t) * k) : k \in 0 .. ((Len(q) - 1) \div LanesIn(t))}
Splats(t, S) == {OfLanes(t, [i \in 1 .. LanesIn(t) |-> x]) : x \in S}
Alternating == OfLanes("i8", [i \in 1 .. 16 |-> ((i - 1) \div 4) % 4])
VectorOperands(s) ==
  LET t == s[3]
      first == Packed(t, SampleSeq(t, 2))
      second == Splats(t, Samples(t, 2)) \cup {Filled(t, SampleSeq(t, 2), 1)}
      takes == SimdTakes(s)
      counts == {0, 1, Bits(t) - 1, Bits(t), Bits(t) + 1, 255}
  IN CASE takes = <<>> -> {<<>>}
       [] takes = <<"u128">> -> {<<v>> : v \in Packed(t, SampleSeq(t, 1))}
       [] takes = <<"u128", "u128">> -> {<<v, w>> : v \in first, w \in second}
       [] takes = <<"u128", "u128", "u128">> -> {<<v, Alternating, w>> : v \in first, w \in Splats(t, 0 .. 3)}
       [] s[1] = "shift" -> {<<v, n>> : v \in first, n \in counts}
       [] s[1] = "splat" -> {<<x>> : x \in Samples(takes[1], 2)}
       [] OTHER -> {<<v, x>> : v \in first, x \in Samples(takes[2], 2)}

Address == {0, 1, 4, 8, 15, 16, 17, 20, 22, 23, 24, 255}
Stored(t) == IF t = "u128" THEN {Alternating} ELSE {1, 2^(8 * ByteBits - 1) + 29} \cap (0 .. (2^Bits(t) - 1))
NumbersOf(ts) ==
  CASE Len(ts) = 0 -> {<<>>}
    [] Len(ts) = 1 -> {<<a>> : a \in Address}
    [] Len(ts) = 2 -> {<<a, v>> : a \in Address, v \in Stored(ts[2]) \cup (IF ts[2] = "u128" THEN {} ELSE {27})}
    [] Len(ts) = 3 -> {<<a, e, v>> : a \in Address, e \in {0, 27, 1 + 16 * 27}, v \in {1, 62}}

Offsets == {0, 3, 8, 9, 255}
Lengths == {0, 1, 3, 8, 255}
NamedOperands(name) ==
  CASE name \in {"memory.copy", "memory.init", "table.copy", "table.init"} -> Offsets \X Offsets \X Lengths
    [] name \in {"memory.fill", "table.fill"} -> Offsets \X {6, 13} \X Lengths
    [] name = "memory.grow" -> {<<n>> : n \in {0, 1, 2, 128, 255}}
    [] name = "table.grow" -> {6} \X {0, 1, 2, 127, 128, 255}
    [] name = "table.get" -> {<<a>> : a \in Offsets}
    [] name = "table.set" -> Offsets \X {6}
    [] name = "notify" -> {0, 2, 4, 8, 255} \X {0, 1, 3, 255}
    [] name \in {"wait32", "wait64"} -> {0, 2, 4, 8, 255} \X {0, 228, 228 * 257} \X {0}
    [] name = "ref.is_null" -> {<<0>>, <<6>>}
    [] OTHER -> {<<>>}

VariableSeq(t) == IF t = "u128" THEN <<Alternating, Filled("i8", <<0, 1, 2, 3>>, 0)>> ELSE SampleSeq(t, 2)
VariableSamples(t) == Range(VariableSeq(t))
VariableOperands(name, t) ==
  CASE name = "select" -> {<<a, b, c>> : a \in VariableSamples(t), b \in VariableSamples(t), c \in {0, 1, 255}}
    [] name \in {"local.get", "global.get"} -> {<<>>}
    [] OTHER -> {<<a>> : a \in VariableSamples(t)}

MCOperands(area, id) ==
  CASE area = "numeric" ->
         LET ts == SpecTakes(SpecNumeric[id])
         IN IF ts = <<>> THEN {<<>>}
            ELSE IF Len(ts) = 1 THEN {<<a>> : a \in Samples(ts[1], 1)}
            ELSE {<<a, b>> : a \in Samples(ts[1], 2), b \in Samples(ts[2], 2)}
    [] area = "simd" -> VectorOperands(SpecSimd[id])
    [] area = "access" -> NumbersOf(AccessTypes(id)[1])
    [] area = "vector access" -> NumbersOf(VectorAccessTypes(id)[1])
    [] area = "atomic" -> NumbersOf(AtomicTypesOf(id)[1])
    [] area = "named" -> NamedOperands(id)
    [] area = "variable" -> VariableOperands(id[1], id[2])

-----------------------------------------------------------------------------
ValueTypes == {"i32", "i64", "f32", "f64", "u128"}
VariableNames == {"drop", "select", "local.get", "local.set", "local.tee", "global.get", "global.set"}
MCOps(area) ==
  CASE area = "numeric" -> 1 .. Len(SpecNumeric)
    [] area = "simd" -> DOMAIN SpecSimd
    [] area = "access" -> 1 .. (Len(SpecLoads) + Len(SpecStores))
    [] area = "vector access" -> DOMAIN SpecVectorAccess
    [] area = "atomic" -> 1 .. 63
    [] area = "named" -> SyncNames \cup MemoryNames \cup TableNames \cup RefNames
    [] area = "variable" ->
         (VariableNames \X ValueTypes) \ (IF "select" \in Divergent THEN {} ELSE {<<"select", "u128">>})

(* Immediates.                                                             *)
Lanes16 == {[i \in 1 .. 16 |-> 16 - i], [i \in 1 .. 16 |-> (5 * i) % 32]}
HalvesOf(q) == [left |-> SubSeq(q, 1, 8), right |-> SubSeq(q, 9, 16), imm |-> q]
LanesUpTo(n) == {[lane |-> k, imm |-> k] : k \in {0, n - 1}}
SimdImmediates(s) ==
  CASE s[1] = "shuffle" -> {HalvesOf(q) : q \in Lanes16}
    [] s[1] = "const" -> {HalvesOf(Alternating.x)}
    [] s[1] = "lane" -> LanesUpTo(LanesIn(s[3]))
    [] OTHER -> {[imm |-> 0]}
MemArgImmediates == [memarg : {0, 4, 255}, memidx : {0, 1}]
LaneArgs(c) ==
  {[lane |-> k] @@ a : k \in {0, LanesIn(SpecVectorAccess[c][2]) - 1},
                       a \in {b \in MemArgImmediates : c \in 84 .. 87 /\ "lane" \notin Divergent => b.memidx = 0}}
NamedImmediates(name) ==
  CASE name \in SyncNames -> [memarg : {0, 4}, memidx : {0, 1}, zero : {0}]
    [] name = "memory.copy" -> [memidx : {0, 1}, memidx2 : {0, 1}, index : {0}, page : {PageBytes}]
    [] name \in MemoryNames -> [memidx : {0, 1}, memidx2 : {0}, index : {0, 1}, page : {PageBytes}]
    [] OTHER -> [index : {0, 1}, index2 : {0, 1}]
MCImmediates(area, id) ==
  CASE area = "numeric" ->
         LET s == SpecNumeric[id]
         IN IF s[2] # "const" THEN {[const |-> 0]}
            ELSE IF IsFloat(s[1]) THEN [const : {NaN, Zero(-1)}] ELSE [const : {0, 2^Bits(s[1]) - 1}]
    [] area = "simd" -> SimdImmediates(SpecSimd[id])
    [] area = "access" -> MemArgImmediates
    [] area = "vector access" -> IF id \in 84 .. 91 THEN LaneArgs(id) ELSE MemArgImmediates
    [] area = "atomic" -> [memarg : {0, 4}, memidx : {0, 1}]
    [] area = "named" -> NamedImmediates(id)
    [] area = "variable" -> [index : {0, 1}, size : {Bytes[id[2]]}]

-----------------------------------------------------------------------------
(* States: two memories, one shared and one not or both alike; or one that *)
(* has two indices.                                                        *)
Mem(shared, n, by, waiting, commits) ==
  [shared |-> shared, data |-> [i \in 1 .. n |-> (by * (i + (i \div 4))) % 4], max |-> (n \div PageBytes) + 1,
   commits |-> commits, waiting |-> IF shared THEN waiting ELSE 0]
NoInstance == [tables |-> <<>>, globals |-> <<>>, funcs |-> <<>>, datas |-> <<>>, elems |-> <<>>, pending |-> FALSE]
TestInstance ==
  [tables |-> <<[elems |-> <<0, 4, 5, 4, 7, 0, 0, 6>>, max |-> -1], [elems |-> <<9, 10, 11>>, max |-> 4]>>,
   globals |-> <<12, 14>>, funcs |-> <<21, 22>>, datas |-> <<<<<<3, 1, 2>>>>, <<>>>>,
   elems |-> <<<<<<[e |-> "func", i |-> 1], [e |-> "global", i |-> 0], [e |-> "null", i |-> 0]>>>>, <<>>>>,
   pending |-> FALSE]
World(mems, inst, locals, fuel) ==
  [mems |-> mems, ids |-> [i \in DOMAIN mems |-> i], inst |-> inst, locals |-> locals, fuel |-> fuel]
Memories(n) == {<<Mem(FALSE, n, 1, 0, TRUE), Mem(TRUE, n, 3, 0, TRUE)>>, <<Mem(TRUE, n, 1, 0, TRUE), Mem(FALSE, n, 3, 0, TRUE)>>}
PairsOfMemories ==
  {<<Mem(a, 8, 1, w, c), Mem(b, 8, 3, w, c)>> : a \in BOOLEAN, b \in BOOLEAN, w \in {2}, c \in BOOLEAN}
Fuels == {0, 1, 2, Unlimited}
MCWorlds(area, id) ==
  CASE area \in {"numeric", "simd"} -> {World(<<Mem(FALSE, 0, 1, 0, TRUE)>>, NoInstance, <<>>, Unlimited)}
    [] area \in {"access", "vector access", "atomic"} -> {World(m, NoInstance, <<>>, Unlimited) : m \in Memories(24)}
    [] area = "named" ->
         {World(m, TestInstance, <<>>, f) :
            m \in {p \in PairsOfMemories :
                     /\ p[1].commits \/ id = "memory.grow"
                     /\ id \in {"notify"} /\ "notify" \notin Divergent => p[1].shared /\ p[2].shared},
            f \in Fuels}
           \cup (IF id = "memory.copy"
                 THEN {[World(<<Mem(a, 8, 1, 0, TRUE)>>, TestInstance, <<>>, f) EXCEPT !.ids = <<1, 1>>] : a \in BOOLEAN, f \in Fuels}
                 ELSE {})
           \cup (IF id \in {"memory.fill", "memory.copy"} /\ "end" \in Divergent
                 THEN {World(<<Mem(FALSE, 256, 1, 0, TRUE), Mem(FALSE, 256, 3, 0, TRUE)>>, TestInstance, <<>>, Unlimited)} ELSE {})
    [] area = "variable" ->
         LET q == VariableSeq(id[2])
         IN {World(<<Mem(FALSE, 0, 1, 0, TRUE)>>, [NoInstance EXCEPT !.globals = <<q[1], q[2]>>],
                   [i \in {0, 1} |-> q[i + 1]], Unlimited)}
=============================================================================
