----------------------------- MODULE TypeChecker -----------------------------
(***************************************************************************)
(* The stack of operand types that the parser keeps while it reads a       *)
(* function body (parser/core/type_checker.rs).  A checker is              *)
(*   types   the types of the operands, the top last.  A marker stands for *)
(*           the unknown operands of code that is never reached: Bottom    *)
(*           (Unreachable(false)), or AnyType (Unreachable(true)) for one  *)
(*           operand of unknown type                                       *)
(*   blocks  the open blocks, the innermost last: their kind, their type   *)
(*           and how many types there were when they were entered          *)
(*   ok      FALSE once an operation has returned an error                 *)
(* The type of a block or a function is its parameters and its results.    *)
(***************************************************************************)
EXTENDS Integers, SequencesExt

Bottom == "bottom"
AnyType == "any"
IsMarker(t) == t \in {Bottom, AnyType}
BlockType(params, results) == [params |-> params, results |-> results]
Void == BlockType(<<>>, <<>>)

(* The bytes that a value of a type takes on the guest stack.              *)
stack_size(t) == CASE t \in {"i32", "f32", "funcref", "externref"} -> 4 [] t \in {"i64", "f64"} -> 8 [] t = "v128" -> 16
SizeOf(types) == FoldLeft(LAMBDA n, t : n + stack_size(t), 0, types)
return_size(blocktype) == SizeOf(blocktype.results)
param_size(blocktype) == SizeOf(blocktype.params)

-----------------------------------------------------------------------------
Invalid(c) == [c EXCEPT !.ok = FALSE]
Block(kind, blocktype, base) == [kind |-> kind, type |-> blocktype, base |-> base]
new(functype) == [types |-> <<>>, blocks |-> <<Block("block", functype, 0)>>, ok |-> TRUE]
has_block(c, idx) == idx < Len(c.blocks)
get_block(c, idx) == c.blocks[Len(c.blocks) - idx]
block_base(c) == get_block(c, 0).base

(* An operand is taken off, but never one below the base of the innermost  *)
(* block.  A marker stays, for there is no end to unknown operands.        *)
pop(c) ==
  IF Len(c.types) <= block_base(c) THEN Invalid(c)
  ELSE [c EXCEPT !.types = IF IsMarker(Last(@)) THEN Append(Front(@), Bottom) ELSE Front(@)]
push(c, t) == [c EXCEPT !.types = Append(@, t)]
unreachable(c) == push(c, Bottom)
push_any(c) == push(c, AnyType)

PopAs(c, t) ==
  IF c.ok /\ c.types # <<>> /\ ~IsMarker(Last(c.types)) /\ Last(c.types) # t THEN Invalid(c) ELSE pop(c)
op(c, input, output) == [FoldLeft(PopAs, c, Reverse(input)) EXCEPT !.types = @ \o output]

(* Whether the operands have these types, without taking them off.         *)
check(c, input) ==
  LET own == SubSeq(c.types, block_base(c) + 1, Len(c.types))
      marks == {i \in DOMAIN own : IsMarker(own[i])}
      known == IF marks = {} THEN own ELSE SubSeq(own, Max(marks) + 1, Len(own))
      n == IF Len(known) < Len(input) THEN Len(known) ELSE Len(input)
  IN IF /\ Len(known) >= Len(input) \/ marks # {}
        /\ SubSeq(known, Len(known) - n + 1, Len(known)) = SubSeq(input, Len(input) - n + 1, Len(input))
     THEN c ELSE Invalid(c)

enter_block(c, kind, blocktype) == [c EXCEPT !.blocks = Append(@, Block(kind, blocktype, Len(c.types)))]
reset_stack(c) == [c EXCEPT !.types = SubSeq(@, 1, block_base(c))]

(* Mutation: operands that are left over are dropped.                      *)
LeftoversDropped(c) == [reset_stack(c) EXCEPT !.blocks = Front(@)]
(* A block may be left with nothing above its base, or with a marker on    *)
(* top.                                                                    *)
leave_block(c) ==
  [reset_stack(c) EXCEPT !.blocks = Front(@),
     !.ok = @ /\ (Len(c.types) <= block_base(c) \/ Last(c.types) = Bottom)]

(* The bytes below the base of the innermost block, where all types are    *)
(* known.                                                                  *)
Below(c) == SubSeq(c.types, 1, block_base(c))
has_known_base(c) == \A i \in DOMAIN Below(c) : ~IsMarker(Below(c)[i])
block_base_stack_size(c) == SizeOf(Below(c))

(* What is recorded of the stack with an instruction.                      *)
snapshot_stack(c) ==
  [reachable |-> \A i \in DOMAIN c.types : ~IsMarker(c.types[i]), types |-> SelectSeq(c.types, LAMBDA t : ~IsMarker(t))]
=============================================================================
