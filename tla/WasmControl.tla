----------------------------- MODULE WasmControl -----------------------------
(***************************************************************************)
(* What the WebAssembly specification says of a function body: which       *)
(* bodies are valid, and what they compute.  A body is a sequence of       *)
(* instructions                                                            *)
(*   [op, type, idx, idxs]                                                 *)
(* of which op is the name; blocks have a type, branches labels, and       *)
(* accesses to locals an index.  A constant is its position in the body,   *)
(* so that no two are the same.                                            *)
(***************************************************************************)
EXTENDS Values, TypeChecker

Instruction(name, type, idx, idxs) == [op |-> name, type |-> type, idx |-> idx, idxs |-> idxs]
Plainly(name) == Instruction(name, Void, 0, <<>>)
Openers == {"block", "loop", "if"}

(* Operand types of the instructions that have no other effect.            *)
Signature ==
  [nop |-> BlockType(<<>>, <<>>), const |-> BlockType(<<>>, <<"i32">>), const64 |-> BlockType(<<>>, <<"i64">>),
   add |-> BlockType(<<"i32", "i32">>, <<"i32">>), eqz |-> BlockType(<<"i32">>, <<"i32">>),
   wrap |-> BlockType(<<"i64">>, <<"i32">>), call |-> BlockType(<<"i32">>, <<"i32">>)]

-----------------------------------------------------------------------------
(***************************************************************************)
(* Validation: a stack of operand types, and a stack of frames.  In a      *)
(* frame where the rest is unreachable there are operands of any type.     *)
(***************************************************************************)
Frame(kind, type, height) == [kind |-> kind, type |-> type, height |-> height, unreachable |-> FALSE]
Validator(functype, locals) ==
  [vals |-> <<>>, frames |-> <<Frame("func", functype, 0)>>, locals |-> functype.params \o locals,
   results |-> functype.results, ok |-> TRUE]
Wrong(v) == [v EXCEPT !.ok = FALSE]
Inner(v) == Last(v.frames)
AnyOf(v) == Len(v.vals) = Inner(v).height /\ Inner(v).unreachable
TopType(v) == IF AnyOf(v) THEN "unknown" ELSE Last(v.vals)
Taken(v, t) ==
  IF AnyOf(v) THEN v
  ELSE IF Len(v.vals) = Inner(v).height \/ (t # "unknown" /\ Last(v.vals) \notin {t, "unknown"}) THEN Wrong(v)
  ELSE [v EXCEPT !.vals = Front(@)]
TakenAll(v, ts) == FoldLeft(Taken, v, Reverse(ts))
Given(v, ts) == [v EXCEPT !.vals = @ \o ts]
Effect(v, ts, us) == Given(TakenAll(v, ts), us)
Nothing(v) == [v EXCEPT !.vals = SubSeq(@, 1, Inner(v).height), !.frames[Len(v.frames)].unreachable = TRUE]
Enter(v, kind, type) ==
  LET w == TakenAll(v, type.params)
  IN [w EXCEPT !.frames = Append(@, Frame(kind, type, Len(w.vals))), !.vals = @ \o type.params]
Exit(v) ==
  LET w == TakenAll(v, Inner(v).type.results)
  IN IF Len(w.vals) # Inner(v).height THEN Wrong(w) ELSE [w EXCEPT !.frames = Front(@)]
HasLabel(v, k) == k < Len(v.frames)
Label(v, k) ==
  LET f == v.frames[Len(v.frames) - k] IN IF f.kind = "loop" THEN f.type.params ELSE f.type.results
TableArm(v, k) ==
  LET w == TakenAll(v, Label(v, k)) IN IF w.ok THEN v ELSE Wrong(v)

Validated(v, i) ==
  LET t == IF i.idx < Len(v.locals) THEN v.locals[i.idx + 1] ELSE "none"
      c == Taken(v, "i32")
      a == TopType(c)
      ca == Taken(c, "unknown")
      b == TopType(ca)
      Select(x) == Effect(ca, <<x>>, <<x>>)
  IN CASE i.op \in DOMAIN Signature -> Effect(v, Signature[i.op].params, Signature[i.op].results)
       [] i.op = "unreachable" -> Nothing(v)
       [] i.op \in {"block", "loop"} -> Enter(v, i.op, i.type)
       [] i.op = "if" -> Enter(Taken(v, "i32"), "if", i.type)
       [] i.op = "else" ->
            IF Inner(v).kind # "if" THEN Wrong(v)
            ELSE LET w == Exit(v)
                 IN IF w.ok THEN Given([w EXCEPT !.frames = Append(@, Frame("else", Inner(v).type, Len(w.vals)))], Inner(v).type.params)
                    ELSE w
       [] i.op = "end" ->
            IF Inner(v).kind = "if" /\ Inner(v).type.params # Inner(v).type.results THEN Wrong(v)
            ELSE LET w == Exit(v) IN IF w.ok /\ w.frames # <<>> THEN Given(w, Inner(v).type.results) ELSE w
       [] i.op = "br" -> IF HasLabel(v, i.idx) THEN Nothing(TakenAll(v, Label(v, i.idx))) ELSE Wrong(v)
       [] i.op = "br_if" ->
            IF ~HasLabel(v, i.idx) THEN Wrong(v) ELSE Effect(c, Label(v, i.idx), Label(v, i.idx))
       [] i.op = "br_table" ->
            LET all == Append(i.idxs, i.idx)
            IN IF \E k \in DOMAIN all : ~HasLabel(v, all[k]) THEN Wrong(v)
               ELSE IF \E k \in DOMAIN all : Len(Label(v, all[k])) # Len(Label(v, i.idx)) THEN Wrong(v)
               ELSE Nothing(TakenAll(FoldLeft(TableArm, c, all), Label(v, i.idx)))
       [] i.op = "return" -> Nothing(TakenAll(v, v.results))
       [] i.op = "return_call" ->
            IF Signature["call"].results # v.results THEN Wrong(v) ELSE Nothing(TakenAll(v, Signature["call"].params))
       [] i.op = "drop" -> Taken(v, "unknown")
       [] i.op = "select" -> IF ~c.ok \/ ~ca.ok THEN Wrong(v) ELSE IF a = "unknown" THEN Given(Taken(ca, b), <<b>>) ELSE Select(a)
       [] i.op = "select_typed" -> Effect(c, i.type.params \o i.type.params, i.type.params)
       [] i.op \in {"get", "set", "tee"} ->
            IF t = "none" THEN Wrong(v)
            ELSE Effect(v, IF i.op = "get" THEN <<>> ELSE <<t>>, IF i.op = "set" THEN <<>> ELSE <<t>>)

-----------------------------------------------------------------------------
(***************************************************************************)
(* Execution.  A state has operands, each with its type, the labels that   *)
(* have been entered, and the position of the next instruction.            *)
(***************************************************************************)
Depth(body, i, j) ==
  FoldLeft(LAMBDA n, x : IF x.op \in Openers THEN n + 1 ELSE IF x.op = "end" THEN n - 1 ELSE n, 0, SubSeq(body, i, j))
EndOf(body, i) == CHOOSE j \in i .. Len(body) : Depth(body, i, j) = 0 /\ \A k \in i .. j - 1 : Depth(body, i, k) > 0
ElsesOf(body, i) == {j \in i .. EndOf(body, i) : body[j].op = "else" /\ Depth(body, i, j) = 1}

Target(n, height, to) == [n |-> n, height |-> height, to |-> to]
Started(body, functype, locals) ==
  [vals |-> <<>>, locals |-> locals, labels |-> <<Target(Len(functype.results), 0, Len(body) + 1)>>, at |-> 1, trap |-> "none"]
Without(s, n) == [s EXCEPT !.vals = SubSeq(@, 1, Len(@) - n)]
Top(s, n) == s.vals[Len(s.vals) - n]
Pushed(s, t, x) == [s EXCEPT !.vals = Append(@, <<t, x>>)]
Go(s, at) == [s EXCEPT !.at = at]
Inside(s, type, to, n) == [s EXCEPT !.labels = Append(@, Target(n, Len(s.vals) - Len(type.params), to))]
BranchTo(s, k) ==
  LET l == s.labels[Len(s.labels) - k]
  IN [s EXCEPT !.vals = SubSeq(@, 1, l.height) \o SubSeq(@, Len(@) - l.n + 1, Len(@)),
               !.labels = SubSeq(@, 1, Len(@) - k - 1), !.at = l.to]
Truth(x) == IF x THEN 1 ELSE 0

Executed(body, s) ==
  LET i == body[s.at]
      top == Top(s, 0)
      n == Without(s, 1)
      on == s.at + 1
  IN CASE i.op = "nop" -> Go(s, on)
       [] i.op = "const" -> Go(Pushed(s, "i32", s.at), on)
       [] i.op = "const64" -> Go(Pushed(s, "i64", s.at), on)
       [] i.op = "add" -> Go(Pushed(Without(s, 2), "i32", Wrap(Bits("u32"), top[2] + Top(s, 1)[2])), on)
       [] i.op = "eqz" -> Go(Pushed(n, "i32", Truth(top[2] = 0)), on)
       [] i.op = "wrap" -> Go(Pushed(n, "i32", Wrap(Bits("u32"), top[2])), on)
       [] i.op = "call" -> Go(Pushed(n, "i32", Wrap(Bits("u32"), top[2] + 1)), on)
       [] i.op = "unreachable" -> [s EXCEPT !.trap = "Unreachable"]
       [] i.op = "block" -> Go(Inside(s, i.type, EndOf(body, s.at) + 1, Len(i.type.results)), on)
       [] i.op = "loop" -> Go(Inside(s, i.type, s.at, Len(i.type.params)), on)
       [] i.op = "if" ->
            LET end == EndOf(body, s.at)
                elses == ElsesOf(body, s.at)
                in == Inside(n, i.type, end + 1, Len(i.type.results))
            IN IF top[2] # 0 THEN Go(in, on)
               ELSE IF elses = {} THEN Go(n, end + 1)
               ELSE Go(in, (CHOOSE j \in elses : TRUE) + 1)
       [] i.op = "else" -> [s EXCEPT !.labels = Front(@), !.at = Last(s.labels).to]
       [] i.op = "end" -> Go([s EXCEPT !.labels = Front(@)], on)
       [] i.op = "br" -> BranchTo(s, i.idx)
       [] i.op = "br_if" -> IF top[2] # 0 THEN BranchTo(n, i.idx) ELSE Go(n, on)
       [] i.op = "br_table" -> BranchTo(n, IF top[2] < Len(i.idxs) THEN i.idxs[top[2] + 1] ELSE i.idx)
       [] i.op = "return" -> BranchTo(s, Len(s.labels) - 1)
       [] i.op = "return_call" -> BranchTo(Pushed(n, "i32", Wrap(Bits("u32"), top[2] + 1)), Len(s.labels) - 1)
       [] i.op = "drop" -> Go(n, on)
       [] i.op \in {"select", "select_typed"} -> Go([s EXCEPT !.vals = SubSeq(@, 1, Len(@) - 3) \o <<Top(s, IF top[2] # 0 THEN 2 ELSE 1)>>], on)
       [] i.op = "get" -> Go([s EXCEPT !.vals = Append(@, s.locals[i.idx + 1])], on)
       [] i.op = "set" -> Go([n EXCEPT !.locals[i.idx + 1] = top], on)
       [] i.op = "tee" -> Go([s EXCEPT !.locals[i.idx + 1] = top], on)

RECURSIVE Ended(_, _, _)
Ended(body, s, n) ==
  IF s.trap # "none" \/ s.at > Len(body) THEN s
  ELSE IF n = 0 THEN [s EXCEPT !.trap = "unbounded"]
  ELSE Ended(body, Executed(body, s), n - 1)
=============================================================================
