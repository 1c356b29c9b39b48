----------------------------- MODULE WasmCalls ------------------------------
(***************************************************************************)
(* What a guest call promises whichever engine runs it: functions call and  *)
(* return like a stack machine, and a call of an asynchronous host function *)
(* suspends the guest until the host has answered.                          *)
(***************************************************************************)
EXTENDS Naturals, Sequences

CONSTANTS Funcs, Entries, Code, MaxFrames

VARIABLES
  stack,    \* the active functions, each with its next instruction
  status    \* "idle", "running" or "waiting" for an asynchronous host function

vars == <<stack, status>>

Top == stack[Len(stack)]
Instr(p) == IF p.pc > Len(Code[p.fn]) THEN "return" ELSE Code[p.fn][p.pc]
Here == Instr(Top)
At(pc) == [stack EXCEPT ![Len(stack)].pc = pc]
NextPc == Top.pc + 1

Init == stack = <<>> /\ status = "idle"

Start == /\ status = "idle"
         /\ \E f \in Entries : stack' = <<[fn |-> f, pc |-> 1]>>
         /\ status' = "running"

Step == /\ status = "running" /\ Here \in {"op", "guard"}
        /\ stack' = At(NextPc)
        /\ UNCHANGED status

Branch == /\ status = "running" /\ Here = "br"
          /\ \E pc \in {NextPc, Len(Code[Top.fn]) + 1} : stack' = At(pc)
          /\ UNCHANGED status

Call == /\ status = "running" /\ Here \in Funcs
        /\ Len(stack) < MaxFrames
        /\ stack' = Append(At(NextPc), [fn |-> Here, pc |-> 1])
        /\ UNCHANGED status

Return == /\ status = "running" /\ Here = "return"
          /\ stack' = SubSeq(stack, 1, Len(stack) - 1)
          /\ status' = IF Len(stack) = 1 THEN "idle" ELSE "running"

Await == /\ status = "running" /\ Here = "async"
         /\ stack' = At(NextPc)
         /\ status' = "waiting"

Answered == status = "waiting" /\ status' = "running" /\ UNCHANGED stack

Trap == /\ status = "running" /\ Here \in Funcs \cup {"op"}
        /\ stack' = <<>> /\ status' = "idle"

Next == Start \/ Step \/ Branch \/ Call \/ Return \/ Await \/ Answered \/ Trap

Spec == Init /\ [][Next]_vars
=============================================================================
