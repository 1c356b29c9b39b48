----------------------------- MODULE NativeCode -----------------------------
(***************************************************************************)
(* One instruction of a function, compiled and interpreted: for a row of   *)
(* OP_SPECS, operands, and a number of operands that the instructions      *)
(* before it have left in registers, the native code is run on the one     *)
(* machine and the handler on the other.                                   *)
(***************************************************************************)
EXTENDS OpSpecs, FunctionBodies

CONSTANT TestsOf(_) \* what a row of OP_SPECS is tried on

VARIABLES entry, \* the row
          test, \* what it is tried on, <<>> before that
          ran \* the two machines afterwards

opVars == <<entry, test, ran>>

(* The top of the operand stack is in registers, the others still hold     *)
(* what was last in them.                                                  *)
Stale == <<0, 9, 9>>
Entered(m, depth) ==
  LET low == Len(m.stack) - depth
  IN NativeMachine([m EXCEPT !.stack = SubSeq(@, 1, low)],
                   [i \in 1 .. StackRegs |-> IF i <= depth THEN m.stack[low + i] ELSE Stale], depth)
Compiled(t) == NDo(entry.decode, I(entry.h, t.imm), Entered(t.m, t.depth))
Interpreted(t) == Do(entry.h.code, t.imm, t.m)

InitRow(specs) == \E i \in DOMAIN specs : entry = specs[i]
InitOps == InitRow(OP_SPECS) /\ test = <<>> /\ ran = <<>>
Execute ==
  /\ test = <<>>
  /\ \E t \in TestsOf(entry) : test' = t /\ ran' = [native |-> Compiled(t), handler |-> Interpreted(t)]
  /\ UNCHANGED entry

-----------------------------------------------------------------------------
(***************************************************************************)
(* What the compiled instruction does to locals, memories, tables, globals *)
(* and segments, the operands it leaves, wherever they are, its trap and   *)
(* its jump are those of the handler.  Where it jumps all operands are on  *)
(* the VM stack, as the code at a label expects them.  A function may also *)
(* be refused.                                                             *)
(***************************************************************************)
SameEffects(n, r) == n.trap = r.trap /\ n.locals = r.locals /\ n.mems = r.mems /\ n.inst = r.inst
NativeEqualsHandler ==
  test # <<>> =>
    LET n == ran.native
        r == ran.handler
    IN \/ n.reject
       \/ /\ SameEffects(n, r)
          /\ r.trap = "none" => AllOperands(n) = r.stack /\ n.jump = r.jump /\ (r.jump # <<>> => n.depth = 0)


(***************************************************************************)
(* An instruction that the optimizer let reach over others (its last       *)
(* operand says how far) is compiled so that the emitter leaves out the    *)
(* same ones, or is run by its handler, which goes on behind them.         *)
(***************************************************************************)
SkipOf(s, imm) == IF s.n < 0 THEN imm[s.i + 1] ELSE imm[imm[s.n + 1] + s.i + 1]
SkipsTheSameSlots ==
  test # <<>> =>
    LET skips == SelectSeq(entry.decode, LAMBDA s : s.kind = "skip slots")
    IN IF entry.h.next.skip /\ entry.decode # RuntimeContinuationStub
       THEN Len(skips) = 1 /\ SkipOf(skips[1], test.imm) = SlotsAfter(entry.h, test.imm)
       ELSE skips = <<>>
-----------------------------------------------------------------------------
(***************************************************************************)
(* The code the baseline compiler emits: for one instruction, or for a     *)
(* function the parser has read.                                           *)
(***************************************************************************)

VARIABLE unit \* what is compiled
vars == <<unit, opVars, bodyVars>>

NoOp == entry = <<>> /\ test = <<>> /\ ran = <<>>
NoBody ==
  /\ suite = <<>> /\ body = <<>> /\ shapes = {} /\ outcome = <<>>
  /\ parser = InstructionParser_new(Void, <<>>) /\ validator = Validator(Void, <<>>)

Init ==
  \/ unit = "operation" /\ InitOps /\ NoBody
  \/ unit = "function" /\ InitBodies /\ NoOp
Next ==
  /\ \/ unit = "operation" /\ Execute /\ UNCHANGED bodyVars
     \/ unit = "function" /\ BodiesNext /\ UNCHANGED opVars
  /\ UNCHANGED unit
SpecNative == Init /\ [][Next]_vars
=============================================================================
