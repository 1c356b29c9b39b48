-------------------------------- MODULE Jit ---------------------------------
(***************************************************************************)
(* Guest calls run by the baseline JIT and the interpreter together: entry  *)
(* into native code (runtime/jit.rs), the call helpers native code uses     *)
(* (runtime/vm/call.rs), and the bridge that interprets a callee until it   *)
(* returns to its native caller.                                            *)
(*                                                                          *)
(* A function is a sequence of instructions: "op"; "br", which may leave    *)
(* the function; "guard", a specialised operation whose native form may     *)
(* fall back; "async", a call of an asynchronous host function; or the name *)
(* of the function it calls.  Past the end it returns.                      *)
(***************************************************************************)
EXTENDS JitCache

CONSTANTS
  Entries,    \* functions the embedder calls
  Code,       \* the instructions of each function
  MaxFrames,  \* frames that fit on the guest stack
  MaxEntries  \* limit of JIT_ENTRY_DEPTH

Instrs == {"op", "br", "guard", "async"} \cup Funcs

ASSUME JitAssumption ==
  /\ Entries \subseteq Funcs
  /\ Code \in [Funcs -> Seq(Instrs)]
  /\ Funcs \cap {"op", "br", "guard", "async", "return"} = {}
  /\ MaxFrames \in Nat \ {0} /\ MaxEntries \in Nat

VARIABLES
  frames,   \* the guest stack: [fn, pc], pc where the interpreter resumes it
  acts,     \* what is on the Rust stack above the slice: native activations
            \* and bridges
  status,   \* "idle", "running" or "waiting"
  pending   \* a host call has not been answered

guestVars == <<frames, acts, status, pending>>
vars == <<cacheVars, guestVars>>

Top(s) == s[Len(s)]
Popped(s) == SubSeq(s, 1, Len(s) - 1)

Native(f, d, c) == [kind |-> "native", fn |-> f, pc |-> 1, depth |-> d, code |-> c]

\* A bridge stops at the continuation of its native caller.  Mutation: one
\* instruction later.
BridgePast(f, pc) == [kind |-> "bridge", fn |-> f, pc |-> pc + 1]
Bridge(f, pc) == [kind |-> "bridge", fn |-> f, pc |-> pc]

InNative(as) == as # <<>> /\ Top(as).kind = "native"
InBridge(as) == as # <<>> /\ Top(as).kind = "bridge"
Natives == {i \in DOMAIN acts : acts[i].kind = "native"}
Held == {acts[i].code : i \in Natives}

\* Where the engine in charge is.
Position == LET p == IF InNative(acts) THEN Top(acts) ELSE Top(frames)
            IN [fn |-> p.fn, pc |-> p.pc]
Here == IF Position.pc > Len(Code[Position.fn]) THEN "return"
        ELSE Code[Position.fn][Position.pc]

FramesAt(pc) == [frames EXCEPT ![Len(frames)].pc = pc]
ActsAt(pc) == IF InNative(acts) THEN [acts EXCEPT ![Len(acts)].pc = pc] ELSE acts

Init == CacheInit /\ frames = <<>> /\ acts = <<>> /\ status = "idle" /\ pending = FALSE
-----------------------------------------------------------------------------
(* run_interpreter_continue_from_jit_call *)

\* The interpreter is about to go on at the top of fs.  A bridge whose stop_pc
\* that is returns to its native caller.
Resume(fs, as) ==
  IF InBridge(as) /\ Top(as).fn = Top(fs).fn /\ Top(as).pc = Top(fs).pc
  THEN Popped(as) ELSE as

\* A native activation, whose frame is now at the top of fs, left with a
\* continuation to interpret; as is what is below it.  A native caller that
\* waits at that very pc goes on, any other interprets until it is reached.
\* Mutation: every native caller goes on.
NoBridge(fs, as) == IF ~InNative(as) THEN Resume(fs, as) ELSE as
Continue(fs, as) ==
  IF ~InNative(as) THEN Resume(fs, as)
  ELSE IF Top(as).fn = Top(fs).fn /\ Top(as).pc = Top(fs).pc THEN as
  ELSE Append(as, Bridge(Top(as).fn, Top(as).pc))

\* PENDING leaves all native activations down to the next bridge, or the slice.
Unwind(as) ==
  LET stops == {0} \cup {i \in DOMAIN as : as[i].kind = "bridge"}
  IN SubSeq(as, 1, CHOOSE i \in stops : \A j \in stops : j <= i)
-----------------------------------------------------------------------------
(* Entering a function: enter_current_frame_raw and its callers *)

\* f is called; its frame is at the top of fs, its caller's activation of as.
Enter(f, fs, as) ==
  IF f \in rejected
  THEN /\ acts' = Continue(fs, as)
       /\ UNCHANGED cacheVars /\ frames' = fs /\ status' = "running"
  ELSE IF Cardinality(Natives) >= MaxEntries
  THEN /\ frames' = <<>> /\ acts' = <<>> /\ status' = "idle"
       /\ UNCHANGED cacheVars
  ELSE \E mapped \in BOOLEAN :
         LET r == Obtain(f, Held, mapped) IN
         /\ Answer(r)
         /\ acts' = IF r.code = NoCode THEN Continue(fs, as)
                    ELSE Append(as, Native(f, Len(fs), r.code))
         /\ frames' = fs /\ status' = "running"

\* The guest stack has room for the frame of a callee.
RoomForFrame == Len(frames) < MaxFrames

Start ==
  /\ status = "idle"
  /\ \E f \in Entries : Enter(f, <<[fn |-> f, pc |-> 1]>>, <<>>)
  /\ UNCHANGED pending

\* op_call_jit_lazy, jit_call_direct_wasm_fast.  An operation that calls waits
\* while an effect is pending.
Call ==
  LET pc == Position.pc + 1 IN
  /\ status = "running" /\ Here \in Funcs /\ ~pending
  /\ RoomForFrame
  /\ Enter(Here, Append(FramesAt(pc), [fn |-> Here, pc |-> 1]), ActsAt(pc))
  /\ UNCHANGED pending
-----------------------------------------------------------------------------
(* The other instructions *)

\* Mutation: the new pc is dropped.
GoNowhere(pc) == UNCHANGED <<frames, acts>>
GoTo(pc) ==
  /\ frames' = FramesAt(pc)
  /\ acts' = IF InNative(acts) THEN ActsAt(pc) ELSE Resume(FramesAt(pc), acts)

Op ==
  /\ status = "running" /\ Here \in {"op", "guard"}
  /\ GoTo(Position.pc + 1)
  /\ UNCHANGED <<cacheVars, status, pending>>

Branch ==
  /\ status = "running" /\ Here = "br"
  /\ \E pc \in {Position.pc + 1, Len(Code[Position.fn]) + 1} : GoTo(pc)
  /\ UNCHANGED <<cacheVars, status, pending>>

\* The native form of a specialised operation does not apply: FALLBACK_PTR.
FallBack ==
  /\ status = "running" /\ Here = "guard" /\ InNative(acts)
  /\ frames' = FramesAt(Position.pc)
  /\ acts' = Continue(FramesAt(Position.pc), Popped(acts))
  /\ UNCHANGED <<cacheVars, status, pending>>

\* special_function_return, function_return.
Return ==
  /\ status = "running" /\ Here = "return"
  /\ frames' = Popped(frames)
  /\ IF Len(frames) = 1
     THEN acts' = <<>> /\ status' = "idle"
     ELSE /\ acts' = IF InNative(acts) THEN Continue(Popped(frames), Popped(acts))
                     ELSE Resume(Popped(frames), acts)
          /\ UNCHANGED status
  /\ UNCHANGED <<cacheVars, pending>>

\* A call of an asynchronous host function.  The slice ends, but a bridge takes
\* the continuation for more to interpret.
Async ==
  LET fs == FramesAt(Position.pc + 1)
      as == Resume(fs, Unwind(acts)) IN
  /\ status = "running" /\ Here = "async" /\ ~pending
  /\ pending' = TRUE
  /\ frames' = fs /\ acts' = as
  /\ status' = IF Unwind(acts) = <<>> THEN "waiting" ELSE "running"
  /\ UNCHANGED cacheVars

Answered ==
  /\ status = "waiting"
  /\ pending' = FALSE /\ status' = "running"
  /\ UNCHANGED <<cacheVars, frames, acts>>

\* A trap, or no room for another frame, ends the call.
Trap ==
  /\ status = "running"
  /\ Here = "op" \/ (Here \in Funcs /\ ~RoomForFrame)
  /\ frames' = <<>> /\ acts' = <<>> /\ status' = "idle"
  /\ UNCHANGED <<cacheVars, pending>>

GuestStep == Call \/ Op \/ Branch \/ FallBack \/ Return \/ Async \/ Trap
Next == Start \/ GuestStep \/ Answered

Spec == Init /\ [][Next]_vars
FairSpec == Spec /\ WF_vars(GuestStep) /\ WF_vars(Answered)
-----------------------------------------------------------------------------
\* Type correctness.
TypeOK ==
  /\ Range(lru) \subseteq [fn : Funcs, id : Nat \ {0}]
  /\ disabled \subseteq Funcs /\ rejected \subseteq Funcs
  /\ weak \in [Funcs -> Nat] /\ used_bytes \in Nat
  /\ frames \in Seq([fn : Funcs, pc : Nat \ {0}]) /\ Len(frames) <= MaxFrames
  /\ \A i \in DOMAIN acts : acts[i].kind \in {"native", "bridge"}
  /\ status \in {"idle", "running", "waiting"} /\ pending \in BOOLEAN

\* used_bytes is what the cached functions occupy and stays within the limit,
\* although functions come and go by compilation, eviction and rejection.
CacheBounded == used_bytes = Total(lru) /\ used_bytes <= MaxBytes

\* The store's flag and the cache agree on what is rejected, and no rejected
\* function is cached, so a function is not compiled again and again.
RejectionAgrees == disabled = rejected /\ \A c \in Range(lru) : c.fn \notin rejected

\* The cache, its size and the records of rejection agree.
CacheConsistent == TypeOK /\ CacheBounded /\ RejectionAgrees

\* Native code is entered only if the cache holds it and knows it as used last:
\* the weak slot never brings back code that was evicted, whose bytes the limit
\* no longer counts, even while an activation keeps it alive.
EntersCachedCode ==
  [][\A i \in DOMAIN acts' :
       i > Len(acts) /\ acts'[i].kind = "native"
         => lru' # <<>> /\ acts'[i].code = Top(lru')]_vars

\* Native code works on the frame it was entered for: it keeps the address of
\* its locals in a register.
OwnFrame == InNative(acts) => Top(acts).depth = Len(frames)

\* "If the handler [...] creates pending async work, the existing `JitNativeExit`
\* path carries the [...] pending state back to the runtime": nothing runs while a
\* host call is unanswered.
SuspendsAtEffect == pending => status = "waiting"

\* The guest stack with the engine in charge at its top.
GuestStack == IF frames = <<>> THEN frames ELSE [frames EXCEPT ![Len(frames)] = Position]

\* Together the engines implement the stack machine.
Calls == INSTANCE WasmCalls WITH stack <- GuestStack
ImplementsCalls == Calls!Spec

\* A call ends, if the host answers.
CallEnds == (status = "running") ~> (status = "idle")
=============================================================================
