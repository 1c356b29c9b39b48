----------------------------- MODULE JitTheorems -----------------------------
(***************************************************************************)
(* The theorems about Jit, for any functions, sizes and limits: the code    *)
(* cache is consistent and only cached code is entered; native code,        *)
(* bridges and the interpreter implement the stack machine WasmCalls when   *)
(* only functions the embedder calls wait for the host; and native code     *)
(* works on its own frame when no function calls itself.                    *)
(***************************************************************************)
EXTENDS JitProofs, JitCacheProofs

-----------------------------------------------------------------------------
(* The engines implement the stack machine *)

\* The top frame is where the engine in charge is.
LEMMA StackIs == IInv => GuestStack = frames
<1> SUFFICES ASSUME IInv, frames # <<>> PROVE [frames EXCEPT ![Len(frames)] = Position] = frames
  BY Zenon DEF GuestStack
<1>1. frames \in Seq(Frame) /\ Len(frames) # 0 /\ Position = frames[Len(frames)] BY Zenon, PositionIs DEF IInv, GuestInv
<1> QED BY <1>1

\* The stack machine is at the same instruction.
LEMMA TopIs ==
  ASSUME IInv, frames # <<>>
  PROVE  /\ Calls!Top = Position /\ Calls!Here = Here /\ Calls!NextPc = Position.pc + 1
         /\ \A pc : Calls!At(pc) = FramesAt(pc)
<1> USE Zenon
<1>1. GuestStack = frames BY SMT, StackIs
<1>2. Calls!Top = Position BY <1>1, PositionIs DEF Calls!Top, IInv
<1>3. Calls!Here = Here BY <1>2 DEF Calls!Here, Calls!Instr, Here
<1>4. Calls!NextPc = Position.pc + 1 BY <1>2 DEF Calls!NextPc
<1>5. \A pc : Calls!At(pc) = FramesAt(pc) BY <1>1 DEF Calls!At, FramesAt
<1> QED BY <1>2, <1>3, <1>4, <1>5

\* A function falls back at the very instruction it has reached.
LEMMA FramesAtHere ==
  ASSUME IInv, frames # <<>>
  PROVE  FramesAt(Position.pc) = frames
<1>1. frames \in Seq(Frame) /\ Len(frames) # 0 /\ Position = frames[Len(frames)]
  BY Zenon, PositionIs DEF IInv, GuestInv
<1>2. PICK x \in Frame : x = frames[Len(frames)] BY Zenon, <1>1, LastFacts
<1>3. [x EXCEPT !.pc = x.pc] = x BY DEF Frame
<1>4. FramesAt(Position.pc) = [frames EXCEPT ![Len(frames)] = [x EXCEPT !.pc = x.pc]]
  BY Zenon, <1>1, <1>2 DEF FramesAt
<1> QED BY <1>1, <1>2, <1>3, <1>4

\* Every step is a step of the reference call stack, or leaves it alone.
LEMMA CallsStep ==
  ASSUME AsyncAtEntry, Served, IInv, CalledAbove(frames), [Next]_vars, GuestStack' = frames'
  PROVE  [Calls!Next]_(Calls!vars)
<1> USE Zenon
<1>1. GuestStack = frames BY SMT, StackIs
<1>2. ASSUME frames' = frames, status' = status PROVE UNCHANGED Calls!vars
  BY SMT, <1>1, <1>2 DEF Calls!vars
<1>3. CASE Start
  <2>1. /\ frames = <<>> /\ status = "idle" BY <1>3, StartStep DEF Start
  <2>2. PICK f \in Entries : Ended \/ Entered(f, First(f)) BY <1>3, StartStep
  <2>3. CASE Ended BY <1>2, <2>1, <2>3 DEF Ended
  <2>4. CASE Entered(f, First(f))
    <3>1. Calls!Start BY <2>1, <2>4 DEF Calls!Start, Entered, First
    <3> QED BY <3>1 DEF Calls!Next
  <2> QED BY <2>2, <2>3, <2>4
<1>4. CASE Call
  <2>1. frames # <<>> /\ status = "running" /\ Here \in Funcs BY <1>4, Running DEF Call
  <2>2. CASE Ended
    <3>1. Calls!Trap BY <2>1, <2>2, TopIs DEF Calls!Trap, Ended
    <3> QED BY <3>1 DEF Calls!Next
  <2>3. CASE Entered(Here, Callee)
    <3>1. Len(frames) < MaxFrames BY <1>4 DEF Call, RoomForFrame
    <3>2. GuestStack' = Append(Calls!At(Calls!NextPc), [fn |-> Calls!Here, pc |-> 1])
      BY <2>1, <2>3, TopIs DEF Entered, Callee
    <3>3. Calls!Call BY <1>1, <2>1, <2>3, <3>1, <3>2, TopIs DEF Calls!Call, Entered
    <3> QED BY <3>3 DEF Calls!Next
  <2> QED BY <1>4, <2>2, <2>3, CallStep
<1>5. CASE Op
  <2>1. frames # <<>> /\ status = "running" /\ Here \in {"op", "guard"} BY <1>5, Running DEF Op
  <2>2. Calls!Step BY <1>5, <2>1, TopIs, OpStep DEF Calls!Step, Walks
  <2> QED BY <2>2 DEF Calls!Next
<1>6. CASE Branch
  <2>1. frames # <<>> /\ status = "running" /\ Here = "br" BY <1>6, Running DEF Branch
  <2>2. PICK pc \in {Position.pc + 1, Len(Code[Position.fn]) + 1} : Walks(FramesAt(pc))
    BY <1>6, BranchStep
  <2>3. status' = status BY <1>6, BranchStep
  <2>4. pc \in {Calls!NextPc, Len(Code[Calls!Top.fn]) + 1} BY <2>1, TopIs
  <2>5. GuestStack' = Calls!At(pc) BY <2>1, <2>2, TopIs DEF Walks
  <2>6. Calls!Branch BY <2>1, <2>3, <2>4, <2>5, TopIs DEF Calls!Branch
  <2> QED BY <2>6 DEF Calls!Next
<1>7. CASE FallBack
  <2>1. frames # <<>> BY <1>7, Running DEF FallBack
  <2> QED BY <1>2, <1>7, <2>1, FramesAtHere, FallBackStep DEF Walks
<1>8. CASE Return
  <2>1. frames # <<>> /\ status = "running" /\ Here = "return" BY <1>8, Running DEF Return
  <2>2. frames' = SubSeq(frames, 1, Len(frames) - 1) BY <1>8 DEF Return, Popped
  <2>3. status' = IF Len(frames) = 1 THEN "idle" ELSE "running" BY <1>8, <2>1, ReturnStep DEF Ended
  <2>4. Calls!Return BY <1>1, <2>1, <2>2, <2>3, TopIs DEF Calls!Return
  <2> QED BY <2>4 DEF Calls!Next
<1>9. CASE Async
  <2>1. frames # <<>> /\ status = "running" /\ Here = "async" BY <1>9, Running DEF Async
  <2>2. status' = "waiting" BY <1>9, AsyncWaits
  <2>3. Calls!Await BY <1>9, <2>1, <2>2, TopIs, AsyncStep DEF Calls!Await, Walks
  <2> QED BY <2>3 DEF Calls!Next
<1>10. CASE Trap
  <2>1. frames # <<>> /\ status = "running" /\ Here \in Funcs \cup {"op"}
    BY <1>10, Running DEF Trap
  <2>2. frames' = <<>> /\ status' = "idle" BY SMT, <1>10 DEF Trap
  <2>3. Calls!Trap BY <2>1, <2>2, TopIs DEF Calls!Trap
  <2> QED BY <2>3 DEF Calls!Next
<1>11. CASE Answered
  <2>1. status = "waiting" /\ status' = "running" /\ frames' = frames BY SMT, <1>11 DEF Answered
  <2>2. Calls!Answered BY <1>1, <2>1 DEF Calls!Answered
  <2> QED BY <2>2 DEF Calls!Next
<1>12. CASE UNCHANGED vars
  <2>1. frames' = frames /\ status' = status BY SMT, <1>12 DEF vars, guestVars
  <2> QED BY <1>2, <2>1
<1> QED
  BY <1>3, <1>4, <1>5, <1>6, <1>7, <1>8, <1>9, <1>10, <1>11, <1>12 DEF Next, GuestStep

-----------------------------------------------------------------------------
(* The frames of a program without recursion *)

\* The functions of the m frames fs go down in rank from the bottom to the top.
RankedN(rank, fs, m) ==
  /\ \A k \in 1..m : rank[fs[k].fn] \in Nat
  /\ \A i, j \in 1..m : i < j => rank[fs[j].fn] < rank[fs[i].fn]

\* Native activations were entered for a frame of their function that is still
\* there.
HousedN(fs, m, as, n) ==
  \A i \in 1..n : as[i].kind = "native" =>
    as[i].depth \in 1..m /\ fs[as[i].depth].fn = as[i].fn

\* The first m frames of gs and of fs are frames of the same functions.
SameFns(gs, fs, m) == \A i \in 1..m : gs[i].fn = fs[i].fn

\* Native code in bs was in as, at the same place.
FewerN(bs, k, as, n) ==
  \A i \in 1..k : bs[i].kind = "native" =>
    /\ i \in 1..n /\ as[i].kind = "native"
    /\ bs[i].depth = as[i].depth /\ bs[i].fn = as[i].fn

\* Native code in bs was in as, at the same place, or is code of f for frame d.
GrownN(bs, k, as, n, d, f) ==
  \A i \in 1..k : bs[i].kind = "native" =>
    \/ /\ i \in 1..n /\ as[i].kind = "native"
       /\ bs[i].depth = as[i].depth /\ bs[i].fn = as[i].fn
    \/ bs[i].depth = d /\ bs[i].fn = f

\* Calls go down in rank, so no function is active twice.
Ranks(rank) ==
  \A f \in Funcs : \A i \in DOMAIN Code[f] : Code[f][i] \in Funcs => rank[Code[f][i]] < rank[f]
NoRecursion == \E rank \in [Funcs -> Nat] : Ranks(rank)

Ranked(rank, fs) == RankedN(rank, fs, Len(fs))

\* An activation was entered for a frame of its function that is still there.
Housed(fs, as) == HousedN(fs, Len(fs), as, Len(as))

\* A depth within a shorter stack is one within a longer.
LEMMA Wider ==
  ASSUME NEW m \in Nat, NEW l \in Nat, m <= l, NEW d \in 1..m
  PROVE  d \in 1..l
OBVIOUS

\* The i-th activation was entered for the frame it stands for.
EnteredFor(as, phi, i) == as[i].depth = phi[i]

\* With all frames of different functions, an activation was entered for the
\* frame it stands for.
LEMMA DepthN ==
  ASSUME NEW m \in Nat, NEW n \in Nat, NEW fs, NEW as, NEW rank,
         RankedN(rank, fs, m), HousedN(fs, m, as, n),
         NEW phi \in [1..n -> 1..m], Threaded(phi, fs, as, n),
         NEW i \in 1..n, as[i].kind = "native"
  PROVE  EnteredFor(as, phi, i)
<1> USE Zenon
<1>1. PICK d \in 1..m : d = as[i].depth /\ fs[d].fn = as[i].fn BY DEF HousedN
<1>2. PICK p \in 1..m : p = phi[i] OBVIOUS
<1>3. fs[p].fn = fs[d].fn BY <1>1, <1>2 DEF Threaded, SamePlace
<1>4. PICK r \in Nat : r = rank[fs[d].fn] BY DEF RankedN
<1>5. ~(r < r) BY SMT, <1>4
<1>6. ~(d < p) /\ ~(p < d) BY <1>3, <1>4, <1>5 DEF RankedN
<1>7. d = p BY SMT, <1>6
<1> QED BY <1>1, <1>2, <1>7 DEF EnteredFor

\* Native code that runs the top frame was entered for it.
LEMMA TopDepthN ==
  ASSUME NEW m \in Nat, NEW n \in Nat \ {0}, NEW fs, NEW as, NEW rank,
         RankedN(rank, fs, m), HousedN(fs, m, as, n), TightN(fs, m, as, n),
         as[n].kind = "native"
  PROVE  as[n].depth = m
<1> USE Zenon
<1>1. PICK phi \in [1..n -> 1..m] : Threaded(phi, fs, as, n) /\ AtTop(phi, m, as, n)
  BY DEF TightN
<1>2. n \in 1..n /\ n # 0 /\ n \in Nat BY SMT
<1>3. phi[n] = m BY <1>1, <1>2 DEF AtTop
<1>4. EnteredFor(as, phi, n) BY <1>1, <1>2, DepthN
<1> QED BY <1>3, <1>4 DEF EnteredFor

\* When the top frame is left, no activation that remains was entered for it.
LEMMA LeaveHousedN ==
  ASSUME NEW m \in Nat \ {0}, NEW n \in Nat, NEW fs, NEW gs, NEW as, NEW rank,
         RankedN(rank, fs, m), HousedN(fs, m, as, n), BelowN(fs, m, as, n),
         Agree(gs, fs, m - 1)
  PROVE  HousedN(gs, m - 1, as, n)
<1> USE Zenon
<1>1. PICK phi \in [1..n -> 1..m] : Threaded(phi, fs, as, n) /\ \A i \in 1..n : phi[i] < m
  BY DEF BelowN
<1>2. SUFFICES ASSUME NEW i \in 1..n, as[i].kind = "native"
               PROVE  as[i].depth \in 1..(m - 1) /\ gs[as[i].depth].fn = as[i].fn
  BY DEF HousedN
<1>3. m \in Nat BY SMT
<1>4. as[i].depth = phi[i]
  <2>1. EnteredFor(as, phi, i) BY <1>1, <1>2, <1>3, DepthN
  <2> QED BY <2>1 DEF EnteredFor
<1>5. PICK d \in 1..m : d = as[i].depth /\ fs[d].fn = as[i].fn BY <1>2 DEF HousedN
<1>6. d < m BY <1>1, <1>4, <1>5
<1>7. d \in 1..(m - 1) BY SMT, <1>6
<1>8. gs[d] = fs[d] BY <1>7 DEF Agree
<1> QED BY <1>5, <1>7, <1>8

\* Frames keep their functions, and the activations are some of the earlier
\* ones and bridges.
LEMMA KeepHousedN ==
  ASSUME NEW m \in Nat, NEW l \in Nat, m <= l, NEW n \in Nat, NEW k \in Nat, NEW fs, NEW gs, NEW as, NEW bs,
         SameFns(gs, fs, m), HousedN(fs, m, as, n), FewerN(bs, k, as, n)
  PROVE  HousedN(gs, l, bs, k)
<1> USE Zenon
<1>1. SUFFICES ASSUME NEW i \in 1..k, bs[i].kind = "native"
               PROVE  bs[i].depth \in 1..l /\ gs[bs[i].depth].fn = bs[i].fn
  BY DEF HousedN
<1>2. /\ i \in 1..n /\ as[i].kind = "native"
      /\ bs[i].depth = as[i].depth /\ bs[i].fn = as[i].fn
  BY <1>1 DEF FewerN
<1>3. PICK d \in 1..m : d = as[i].depth /\ fs[d].fn = as[i].fn BY <1>2 DEF HousedN
<1>4. d \in 1..l BY <1>3, Wider
<1> QED BY <1>2, <1>3, <1>4 DEF SameFns

\* As before, but native code of f may have been entered for the top frame.
LEMMA EnterHousedN ==
  ASSUME NEW m \in Nat, NEW l \in Nat, m <= l, l # 0, NEW n \in Nat, NEW k \in Nat,
         NEW fs, NEW gs, NEW as, NEW bs, NEW f,
         SameFns(gs, fs, m), HousedN(fs, m, as, n), gs[l].fn = f, GrownN(bs, k, as, n, l, f)
  PROVE  HousedN(gs, l, bs, k)
<1> USE Zenon
<1>1. SUFFICES ASSUME NEW i \in 1..k, bs[i].kind = "native"
               PROVE  bs[i].depth \in 1..l /\ gs[bs[i].depth].fn = bs[i].fn
  BY DEF HousedN
<1>2. CASE /\ i \in 1..n /\ as[i].kind = "native"
           /\ bs[i].depth = as[i].depth /\ bs[i].fn = as[i].fn
  <2>1. PICK d \in 1..m : d = as[i].depth /\ fs[d].fn = as[i].fn BY <1>2 DEF HousedN
  <2>2. d \in 1..l BY <2>1, Wider
  <2> QED BY <1>2, <2>1, <2>2 DEF SameFns
<1>3. CASE bs[i].depth = l /\ bs[i].fn = f
  <2>1. l \in 1..l BY SMT
  <2> QED BY <1>3, <2>1
<1> QED BY <1>1, <1>2, <1>3 DEF GrownN

\* A call goes down in rank.
LEMMA PushRankedN ==
  ASSUME NEW m \in Nat, NEW fs, NEW gs, NEW rank,
         \A k \in 1..m : gs[k].fn = fs[k].fn,
         RankedN(rank, fs, m), rank[gs[m + 1].fn] \in Nat,
         m # 0 => rank[gs[m + 1].fn] < rank[fs[m].fn]
  PROVE  RankedN(rank, gs, m + 1)
<1> USE Zenon
<1>1. SUFFICES ASSUME NEW i \in 1..(m + 1), NEW j \in 1..(m + 1), i < j
               PROVE  rank[gs[j].fn] < rank[gs[i].fn]
  <2>1. ASSUME NEW k \in 1..(m + 1) PROVE rank[gs[k].fn] \in Nat
    <3>1. CASE k \in 1..m BY <3>1 DEF RankedN
    <3>2. CASE k = m + 1 BY <3>2
    <3> QED BY SMT, <3>1, <3>2
  <2> QED BY <2>1 DEF RankedN
<1>2. i \in 1..m /\ m \in 1..m /\ m # 0 BY SMT, <1>1
<1>3. CASE j \in 1..m BY <1>1, <1>2, <1>3 DEF RankedN
<1>4. CASE j = m + 1
  <2>1. PICK a \in Nat : a = rank[gs[m + 1].fn] OBVIOUS
  <2>2. PICK b \in Nat : b = rank[fs[m].fn] BY <1>2 DEF RankedN
  <2>3. PICK c \in Nat : c = rank[fs[i].fn] BY <1>2 DEF RankedN
  <2>4. a < b BY <1>2, <2>1, <2>2
  <2>5. CASE i = m
    <3>1. c = b BY <2>2, <2>3, <2>5
    <3>2. a < c BY <3>1, <2>4
    <3> QED BY <1>2, <1>4, <2>1, <2>3, <3>2
  <2>6. CASE i < m
    <3>1. b < c BY <1>2, <2>2, <2>3, <2>6 DEF RankedN
    <3>2. a < c BY SMT, <2>4, <3>1
    <3> QED BY <1>2, <1>4, <2>1, <2>3, <3>2
  <2> QED BY SMT, <1>2, <2>5, <2>6
<1> QED BY SMT, <1>3, <1>4

-----------------------------------------------------------------------------
(* The frame of native code: no function calls itself, directly or not *)

\* What holds besides IInv when calls go down in rank.
OwnInv(rank) == IInv /\ Ranked(rank, frames) /\ Housed(frames, acts)

\* Native code in charge was entered for the top frame.
LEMMA OwnIs ==
  ASSUME NEW rank, OwnInv(rank)
  PROVE  OwnFrame
<1> USE Zenon
<1>1. SUFFICES ASSUME InNative(acts) PROVE Top(acts).depth = Len(frames) BY DEF OwnFrame
<1>2. frames \in Seq(Frame) /\ acts \in Seq(Act) BY DEF OwnInv, IInv, GuestInv
<1>3. PICK m \in Nat, n \in Nat : m = Len(frames) /\ n = Len(acts) BY <1>2, SeqFacts
<1>4. n # 0 /\ acts[n].kind = "native" BY <1>1, <1>2, <1>3, TopFacts
<1>5. n # 0 BY <1>4
<1>6. n \in Nat \ {0} BY SMT, <1>5
<1>7. RankedN(rank, frames, m) /\ HousedN(frames, m, acts, n) /\ TightN(frames, m, acts, n)
  BY <1>3 DEF OwnInv, IInv, Ranked, Housed, Tight
<1>8. acts[n].depth = m BY <1>4, <1>6, <1>7, TopDepthN
<1> QED BY <1>3, <1>8 DEF Top

\* Frames gs that have the functions of frames, with fewer activations.
LEMMA OwnWalk ==
  ASSUME NEW rank, OwnInv(rank), NEW gs, Len(gs) = Len(frames), acts' \in Seq(Act),
         \A k \in 1..Len(frames) : gs[k].fn = frames[k].fn, Fewer(acts', acts)
  PROVE  Ranked(rank, gs) /\ Housed(gs, acts')
<1> USE Zenon
<1>1. PICK m \in Nat, n \in Nat, k \in Nat : m = Len(frames) /\ n = Len(acts) /\ k = Len(acts')
  BY SeqFacts DEF OwnInv, IInv, GuestInv
<1>2. RankedN(rank, frames, m) /\ HousedN(frames, m, acts, n)
  BY <1>1 DEF OwnInv, Ranked, Housed
<1>3. RankedN(rank, gs, m) BY <1>1, <1>2 DEF RankedN
<1>4. m <= m BY SMT
<1>5. SameFns(gs, frames, m) /\ FewerN(acts', k, acts, n) BY <1>1 DEF SameFns, FewerN, Fewer
<1>6. HousedN(gs, m, acts', k) BY <1>2, <1>4, <1>5, KeepHousedN
<1> QED BY <1>1, <1>3, <1>6 DEF Ranked, Housed

\* A function is called.
LEMMA OwnEnter ==
  ASSUME NEW rank, OwnInv(rank), NEW gs \in Seq(Frame), NEW m \in Nat, m = Len(frames), Len(gs) = m + 1,
         \A k \in 1..m : gs[k].fn = frames[k].fn, NEW f, gs[m + 1].fn = f,
         rank[f] \in Nat, m # 0 => rank[f] < rank[frames[m].fn], Entered(f, gs)
  PROVE  Ranked(rank, gs) /\ Housed(gs, acts')
<1> USE Zenon
<1>1. acts' \in Seq(Act) /\ Grown(m + 1, f) BY DEF Entered
<1>2. PICK n \in Nat, k \in Nat : n = Len(acts) /\ k = Len(acts')
  BY <1>1, SeqFacts DEF OwnInv, IInv, GuestInv
<1>3. RankedN(rank, frames, m) /\ HousedN(frames, m, acts, n)
  BY <1>2 DEF OwnInv, Ranked, Housed
<1>4. RankedN(rank, gs, m + 1) BY <1>3, PushRankedN
<1>5. m <= m + 1 /\ m + 1 # 0 /\ m + 1 \in Nat BY SMT
<1>6. SameFns(gs, frames, m) /\ GrownN(acts', k, acts, n, m + 1, f)
  BY <1>1, <1>2 DEF SameFns, GrownN, Grown
<1>7. PICK l \in Nat : l = m + 1 BY <1>5
<1>8. m <= l /\ l # 0 /\ gs[l].fn = f /\ GrownN(acts', k, acts, n, l, f) BY <1>5, <1>6, <1>7
<1>9. HousedN(gs, l, acts', k) BY <1>3, <1>6, <1>8, EnterHousedN
<1> QED BY <1>2, <1>4, <1>7, <1>9 DEF Ranked, Housed

\* The top frame is left.
LEMMA OwnLeave ==
  ASSUME NEW rank, OwnInv(rank), frames # <<>>, Len(frames) # 1, acts' \in Seq(Act), Fewer(acts', Rest(acts))
  PROVE  Ranked(rank, Popped(frames)) /\ Housed(Popped(frames), acts')
<1> USE Zenon
<1>1. IInv /\ frames \in Seq(Frame) /\ acts \in Seq(Act) BY DEF OwnInv, IInv, GuestInv
<1>2. PICK rs \in Seq(Act) : rs = Rest(acts) /\ Fewer(rs, acts) BY <1>1, RestFacts
<1>3. PICK m \in Nat, n \in Nat, k \in Nat, l \in Nat :
        m = Len(frames) /\ n = Len(acts) /\ k = Len(acts') /\ l = Len(rs)
  BY <1>1, SeqFacts
<1>4. RankedN(rank, frames, m) /\ HousedN(frames, m, acts, n)
  BY <1>3 DEF OwnInv, Ranked, Housed
<1>5. m # 0 BY <1>1, <1>3, EmptyIs
<1>6. m \in Nat \ {0} /\ m <= m /\ m - 1 \in Nat /\ m - 1 <= m - 1 /\ \A i \in 1..(m - 1) : i \in 1..m
  BY SMT, <1>5
<1>7. Len(Popped(frames)) = m - 1 /\ Agree(Popped(frames), frames, m - 1)
  BY <1>1, <1>3, PoppedFrames
<1>8. HousedN(frames, m, rs, l)
  <2>1. SameFns(frames, frames, m) /\ FewerN(rs, l, acts, n) BY <1>2, <1>3 DEF SameFns, FewerN, Fewer
  <2> QED BY <1>4, <1>6, <2>1, KeepHousedN
<1>9. BelowN(frames, m, rs, l) BY <1>1, <1>2, <1>3, TightBelow DEF IInv, Below
<1>10. HousedN(Popped(frames), m - 1, rs, l) BY <1>4, <1>6, <1>7, <1>8, <1>9, LeaveHousedN
<1>11. HousedN(Popped(frames), m - 1, acts', k)
  <2>1. SameFns(Popped(frames), Popped(frames), m - 1) /\ FewerN(acts', k, rs, l)
    BY <1>2, <1>3 DEF SameFns, FewerN, Fewer
  <2> QED BY <1>6, <1>10, <2>1, KeepHousedN
<1>12. RankedN(rank, Popped(frames), m - 1) BY <1>4, <1>6, <1>7 DEF RankedN, Agree
<1> QED BY <1>3, <1>7, <1>11, <1>12 DEF Ranked, Housed

\* No frames, no activations.
LEMMA OwnEmpty ==
  ASSUME NEW rank, NEW fs, NEW as, fs = <<>>, as = <<>>
  PROVE  Ranked(rank, fs) /\ Housed(fs, as)
<1>1. Len(fs) = 0 /\ Len(as) = 0 BY Zenon, EmptyFacts
<1>2. 1..0 = {} OBVIOUS
<1> QED BY Zenon, <1>1, <1>2 DEF Ranked, RankedN, Housed, HousedN

\* Every step keeps that each native activation runs the frame it was entered
\* for.
LEMMA OwnNext ==
  ASSUME NEW rank \in [Funcs -> Nat], Ranks(rank), Served, OwnInv(rank), [Next]_vars
  PROVE  OwnInv(rank)'
<1> USE Zenon
<1>1. IInv BY DEF OwnInv
<1>2. IInv' BY <1>1, InvNext
<1>3. SUFFICES Ranked(rank, frames') /\ Housed(frames', acts') BY <1>2 DEF OwnInv
<1>4. PICK m \in Nat : m = Len(frames) BY <1>1, SeqFacts DEF IInv, GuestInv
<1>5. ASSUME NEW pc \in Nat \ {0}, frames # <<>>, Walks(FramesAt(pc))
      PROVE  Ranked(rank, frames') /\ Housed(frames', acts')
  <2>1. frames' = FramesAt(pc) /\ acts' \in Seq(Act) /\ Fewer(acts', acts) BY <1>5 DEF Walks, Settled
  <2>2. Len(FramesAt(pc)) = Len(frames) /\ \A k \in 1..Len(frames) : FramesAt(pc)[k].fn = frames[k].fn
    BY <1>1, <1>5, FramesAtFacts
  <2> QED BY <2>1, <2>2, OwnWalk
<1>6. ASSUME Ended PROVE Ranked(rank, frames') /\ Housed(frames', acts')
  BY <1>6, OwnEmpty DEF Ended
<1>7. ASSUME frames' = frames, acts' = acts PROVE Ranked(rank, frames') /\ Housed(frames', acts')
  BY <1>7 DEF OwnInv
<1>8. CASE Start
  <2>1. frames = <<>> BY <1>1, <1>8, StartStep
  <2>2. PICK f \in Entries : Ended \/ Entered(f, First(f)) BY <1>1, <1>8, StartStep
  <2>3. ASSUME Entered(f, First(f)) PROVE Ranked(rank, frames') /\ Housed(frames', acts')
    <3>1. m = 0 BY <1>4, <2>1, EmptyFacts
    <3>2. m + 1 = 1 /\ 1..m = {} BY SMT, <3>1
    <3>3. First(f) \in Seq(Frame) /\ Len(First(f)) = m + 1 /\ First(f)[m + 1] = [fn |-> f, pc |-> 1]
      BY <3>2, FirstFacts
    <3>4. First(f)[m + 1].fn = f BY SMT, <3>3
    <3>5. rank[f] \in Nat BY JitAssumption
    <3>6. Ranked(rank, First(f)) /\ Housed(First(f), acts')
      BY <1>4, <2>3, <3>1, <3>2, <3>3, <3>4, <3>5, OwnEnter
    <3> QED BY <2>3, <3>6 DEF Entered
  <2> QED BY <1>6, <2>2, <2>3
<1>9. CASE Call
  <2>1. frames # <<>> /\ Here \in Funcs BY <1>1, <1>9, Running DEF Call
  <2>2. ASSUME Entered(Here, Callee) PROVE Ranked(rank, frames') /\ Housed(frames', acts')
    <3>1. /\ Callee \in Seq(Frame) /\ Len(Callee) = m + 1 /\ Callee[m + 1] = [fn |-> Here, pc |-> 1]
          /\ \A k \in 1..m : Callee[k].fn = frames[k].fn
      BY <1>1, <1>4, <1>9, CalleeType
    <3>2. Callee[m + 1].fn = Here BY SMT, <3>1
    <3>3. Position = frames[m] /\ Position.fn \in Funcs BY <1>1, <1>4, <2>1, PositionIs DEF IInv
    <3>4. rank[Here] < rank[frames[m].fn]
      <4>1. Here # "return" BY SMT, <2>1, JitAssumption
      <4>2. Position.pc \in DOMAIN Code[Position.fn] /\ Here = Code[Position.fn][Position.pc]
        BY <1>1, <2>1, <4>1, HereFacts DEF IInv
      <4> QED BY <2>1, <3>3, <4>2 DEF Ranks
    <3>5. rank[Here] \in Nat BY <2>1
    <3>6. Ranked(rank, Callee) /\ Housed(Callee, acts')
      BY <1>4, <2>2, <3>1, <3>2, <3>4, <3>5, OwnEnter
    <3> QED BY <2>2, <3>6 DEF Entered
  <2> QED BY <1>1, <1>6, <1>9, <2>2, CallStep
<1>10. CASE Op
  <2>1. frames # <<>> BY <1>1, <1>10, Running DEF Op
  <2> QED BY <1>1, <1>5, <1>10, <2>1, HereFacts, OpStep DEF IInv
<1>11. CASE Branch
  <2>1. frames # <<>> BY <1>1, <1>11, Running DEF Branch
  <2> QED BY <1>1, <1>5, <1>11, <2>1, BranchStep
<1>12. CASE FallBack
  <2>1. frames # <<>> BY <1>1, <1>12, Running DEF FallBack
  <2> QED BY <1>1, <1>5, <1>12, <2>1, PositionIs, FallBackStep DEF IInv
<1>13. CASE Return
  <2>1. frames # <<>> BY <1>1, <1>13, Running DEF Return
  <2>2. ASSUME m # 1 PROVE Ranked(rank, frames') /\ Housed(frames', acts')
    <3>1. Walks(Popped(frames)) /\ Fewer(acts', Rest(acts)) BY <1>1, <1>4, <1>13, <2>2, ReturnStep
    <3>2. frames' = Popped(frames) /\ acts' \in Seq(Act) BY <3>1 DEF Walks, Settled
    <3> QED BY <1>4, <2>1, <2>2, <3>1, <3>2, OwnLeave
  <2> QED BY <1>1, <1>4, <1>6, <1>13, <2>2, ReturnStep
<1>14. CASE Async
  <2>1. frames # <<>> BY <1>1, <1>14, Running DEF Async
  <2> QED BY <1>1, <1>5, <1>14, <2>1, HereFacts, AsyncStep DEF IInv
<1>15. CASE Trap
  <2>1. Ended BY SMT, <1>15 DEF Trap, Ended
  <2> QED BY <1>6, <2>1
<1>16. CASE Answered
  <2>1. frames' = frames /\ acts' = acts BY SMT, <1>16 DEF Answered
  <2> QED BY <1>7, <2>1
<1>17. CASE UNCHANGED vars
  <2>1. frames' = frames /\ acts' = acts BY SMT, <1>17 DEF vars, guestVars
  <2> QED BY <1>7, <2>1
<1> QED
  BY <1>8, <1>9, <1>10, <1>11, <1>12, <1>13, <1>14, <1>15, <1>16, <1>17 DEF Next, GuestStep

-----------------------------------------------------------------------------
(* The inductive invariant *)

\* The code native activations hold.
LEMMA HeldFacts ==
  ASSUME GuestInv
  PROVE  IsFiniteSet(Held) /\ Held \subseteq Mapping
<1> USE Zenon
<1>1. acts \in Seq(Act) BY DEF GuestInv
<1>2. PICK n \in Nat : n = Len(acts) /\ DOMAIN acts = 1..n BY <1>1, SeqFacts
<1>3. IsFiniteSet(Natives)
  <2>1. IsFiniteSet(1..n) BY SMT, FS_Interval
  <2>2. Natives \in SUBSET (1..n) BY SMT, <1>2 DEF Natives
  <2> QED BY <2>1, <2>2, FS_Subset
<1>4. IsFiniteSet(Held)
  <2> DEFINE g == [i \in Natives |-> acts[i].code]
  <2>1. g \in Surjection(Natives, Held) BY SMT DEF Surjection, Held
  <2> HIDE DEF g
  <2> QED BY <1>3, <2>1, FS_Surjection DEF ExistsSurjection
<1>5. ASSUME NEW i \in Natives PROVE acts[i].code \in Mapping
  <2>1. i \in 1..Len(acts) /\ acts[i].kind = "native" BY <1>2 DEF Natives
  <2> QED BY <1>1, <2>1, SeqFacts, ActFacts
<1> QED BY <1>4, <1>5 DEF Held

\* The cache serves the engine as the proofs of its steps assume.
LEMMA ServedIs == IInv => Served
<1> USE Zenon
<1> SUFFICES ASSUME IInv, CacheInv, NEW f \in Funcs \ rejected, NEW mapped \in BOOLEAN
             PROVE  Good(Obtain(f, Held, mapped), f)
  BY DEF Served
<1>1. IsFiniteSet(Held) /\ Held \subseteq Mapping BY HeldFacts DEF IInv
<1> QED BY <1>1, ObtainGood

\* At first nothing is cached and no call runs.
LEMMA InvInit == Init => IInv
<1> SUFFICES ASSUME Init PROVE IInv OBVIOUS
<1>1. lru = <<>> /\ used_bytes = 0 /\ disabled = {} /\ rejected = {} /\ weak = [f \in Funcs |-> 0]
  BY DEF Init, CacheInit
<1>2. CacheInv
  <2>1. lru \in Seq(Mapping) /\ DOMAIN lru = {} BY <1>1
  <2>2. OncePerFn(lru) BY Zenon, <2>1 DEF OncePerFn
  <2>3. used_bytes = Total(lru) BY Zenon, <1>1, TotalEmpty
  <2>4. used_bytes <= MaxBytes BY <1>1, JitCacheAssumption
  <2>5. weak \in [Funcs -> Nat] BY <1>1
  <2> QED BY <1>1, <2>1, <2>2, <2>3, <2>4, <2>5 DEF CacheInv, Sound
<1>3. frames = <<>> /\ acts = <<>> /\ status = "idle" /\ pending = FALSE BY DEF Init
<1>4. frames \in Seq(Frame) /\ acts \in Seq(Act) /\ Len(frames) = 0 /\ Len(acts) = 0
  BY Zenon, <1>3, EmptyFacts
<1>5. Len(frames) <= MaxFrames BY <1>4, JitAssumption
<1>6. GuestInv BY <1>3, <1>4, <1>5 DEF GuestInv
<1>7. Tight(frames, acts) BY Zenon, <1>4, TightEmpty
<1> QED BY Zenon, <1>2, <1>6, <1>7 DEF IInv

\* IInv always holds.
THEOREM InvTheorem == Spec => []IInv
<1>1. IInv /\ [Next]_vars => IInv' BY Zenon, ServedIs, InvNext
<1> QED BY <1>1, InvInit, PTL DEF Spec

-----------------------------------------------------------------------------
(* The code cache *)

\* IInv says more of the cache than CacheConsistent.
LEMMA InvCache == IInv => CacheConsistent
<1> USE Zenon
<1> SUFFICES ASSUME IInv PROVE CacheConsistent BY SMT
<1>1. Sound(lru, used_bytes, disabled, rejected) /\ weak \in [Funcs -> Nat] BY DEF IInv, CacheInv
<1>2. PICK n \in Nat : DOMAIN lru = 1..n /\ (\A i \in 1..n : lru[i] \in Mapping) /\ used_bytes \in Nat
  BY <1>1, SoundType
<1>3. Range(lru) \subseteq [fn : Funcs, id : Nat \ {0}] BY <1>2 DEF Range, Mapping
<1>4. disabled = rejected /\ disabled \subseteq Funcs BY <1>1 DEF Sound
<1>5. /\ frames \in Seq(Frame) /\ Len(frames) <= MaxFrames /\ acts \in Seq(Act)
      /\ status \in {"idle", "running", "waiting"} /\ pending \in BOOLEAN
  BY DEF IInv, GuestInv
<1>6. \A i \in DOMAIN acts : acts[i].kind \in {"native", "bridge"}
  <2>1. DOMAIN acts = 1..Len(acts) BY <1>5, SeqFacts
  <2> QED BY <1>5, <2>1, TopFacts
<1>7. TypeOK BY <1>1, <1>2, <1>3, <1>4, <1>5, <1>6 DEF TypeOK, Frame
<1>8. CacheBounded BY <1>1 DEF CacheBounded, Sound
<1>9. RejectionAgrees BY <1>1, <1>4 DEF RejectionAgrees, Sound, Range
<1> QED BY <1>7, <1>8, <1>9 DEF CacheConsistent

\* The code cache is consistent for every program, every size of its functions and
\* every limit: used_bytes is the size of what is cached and stays within
\* code_cache_max_bytes through compilation, eviction and rejection, and the store
\* and the cache agree on what is rejected (cache.rs get_or_compile, evict_until,
\* mark_rejected).
THEOREM CacheTheorem == Spec => []CacheConsistent
BY InvTheorem, InvCache, PTL

\* Native code is entered only if the cache holds it and knows it as used last:
\* the weak slot of the store never brings back evicted code, although native
\* activations below keep it alive (enter_current_frame_raw, touch_compiled).
THEOREM EntersTheorem == Spec => EntersCachedCode
<1>1. IInv /\ [Next]_vars
        => [\A i \in DOMAIN acts' : i > Len(acts) /\ acts'[i].kind = "native"
              => lru' # <<>> /\ acts'[i].code = Top(lru')]_vars
  BY Zenon, ServedIs, NextEnters
<1> QED BY <1>1, InvTheorem, PTL DEF Spec, EntersCachedCode

-----------------------------------------------------------------------------
(* Effects *)

\* At first no host call is unanswered.
LEMMA EffectInit == Init => EffectInv
<1> SUFFICES ASSUME Init PROVE EffectInv OBVIOUS
<1>1. frames = <<>> /\ pending = FALSE BY DEF Init
<1>2. Len(frames) = 0 BY Zenon, <1>1, EmptyFacts
<1>3. CalledAbove(frames) BY <1>2 DEF CalledAbove
<1> QED BY Zenon, <1>1, <1>3, InvInit DEF EffectInv, SuspendsAtEffect

\* The same in every state of every behaviour, when only functions that nothing
\* calls wait for the host.
LEMMA EffectAlways ==
  ASSUME AsyncAtEntry
  PROVE  Spec => []EffectInv
<1>1. EffectInv /\ [Next]_vars => EffectInv' BY Zenon, ServedIs, EffectNext DEF EffectInv
<1> QED BY <1>1, EffectInit, PTL DEF Spec

\* Nothing runs while a host call is unanswered, for every program in which only
\* functions called by the embedder call asynchronous host functions: every native
\* activation has been left when the slice ends (jit_exit_from_call_outcome,
\* start_async_host_call_with).
THEOREM SuspendsTheorem ==
  ASSUME AsyncAtEntry
  PROVE  Spec => []SuspendsAtEffect
<1>1. EffectInv => SuspendsAtEffect BY DEF EffectInv
<1> QED BY <1>1, EffectAlways, PTL

-----------------------------------------------------------------------------
(* The engines implement the stack machine *)

\* Native code, bridges and the interpreter together implement the stack machine
\* WasmCalls, for every program in which only functions called by the embedder call
\* asynchronous host functions, recursive or not: the next instruction is always
\* that of the top frame, whichever engine runs it (finish_jit_wasm_call,
\* run_interpreter_continue_from_jit_call, special_function_return).
THEOREM CallsTheorem ==
  ASSUME AsyncAtEntry
  PROVE  Spec => ImplementsCalls
<1>1. Init => Calls!Init
  <2> SUFFICES ASSUME Init PROVE Calls!Init OBVIOUS
  <2>1. GuestStack = frames BY InvInit, StackIs
  <2> QED BY <2>1 DEF Init, Calls!Init
<1>2. EffectInv /\ EffectInv' /\ [Next]_vars => [Calls!Next]_(Calls!vars)
  <2>1. IInv' => GuestStack' = frames'
    <3>1. (IInv => GuestStack = frames)' BY StackIs, PTL
    <3> QED BY <3>1
  <2> QED BY Zenon, <2>1, ServedIs, CallsStep DEF EffectInv
<1> QED BY <1>1, <1>2, EffectAlways, PTL DEF Spec, ImplementsCalls, Calls!Spec

-----------------------------------------------------------------------------
(* The frame of native code *)

\* Native code in charge works on the frame it was entered for, whose locals it
\* keeps the address of, for every program without recursion: a bridge, which knows
\* its caller's return by the pc alone, then cannot stop in another frame of the
\* same function.  With recursion it can; see MCJitFrame.cfg.
THEOREM OwnFrameTheorem ==
  ASSUME NoRecursion
  PROVE  Spec => []OwnFrame
<1>1. PICK rank \in [Funcs -> Nat] : Ranks(rank) BY DEF NoRecursion
<1>2. Init => OwnInv(rank)
  <2> SUFFICES ASSUME Init PROVE OwnInv(rank) OBVIOUS
  <2>1. frames = <<>> /\ acts = <<>> BY DEF Init
  <2> QED BY Zenon, <2>1, InvInit, OwnEmpty DEF OwnInv
<1>3. OwnInv(rank) /\ [Next]_vars => OwnInv(rank)' BY Zenon, <1>1, ServedIs, OwnNext DEF OwnInv
<1>4. OwnInv(rank) => OwnFrame BY OwnIs
<1> QED BY <1>2, <1>3, <1>4, PTL DEF Spec
==============================================================================
