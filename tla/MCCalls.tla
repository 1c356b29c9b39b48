------------------------------ MODULE MCCalls -------------------------------
(***************************************************************************)
(* Guest calls for TLC, in two parts that one run checks side by side: the *)
(* scheduler of one call (Scheduler), and the calls of several threads on  *)
(* one store (StoreCalls).  A behaviour is of one part and leaves the      *)
(* other's state alone.                                                    *)
(***************************************************************************)
EXTENDS Scheduler, StoreCalls, TLC

CONSTANTS call, other

VARIABLE part

\* One task is a guest call, the other runs on after its effects.
MCMaxEffects == [t \in Tasks |-> IF t = call THEN 1 ELSE 2]

allVars == <<vars, callVars, part>>

InScheduler == part = "scheduler" /\ UNCHANGED <<callVars, part>>
InStore     == part = "store" /\ UNCHANGED <<vars, part>>

MCInit ==
  /\ Init /\ CallsInit
  /\ \/ part = "scheduler"
     \/ part = "store" /\ mode = "sync" /\ Head(tasks).id = call

MCNext == (InScheduler /\ Next) \/ (InStore /\ CallsNext)

\* The fairness of both parts, as in FairSpec and FairCallsSpec.
MCSpec ==
  /\ MCInit /\ [][MCNext]_allVars
  /\ WF_allVars(InScheduler /\ LoopStep) /\ WF_allVars(InScheduler /\ DriverStep)
  /\ \A t \in Threads :
       /\ SF_allVars(InStore /\ Granted(t))
       /\ WF_allVars(InStore /\ GuestLeaves(t))
=============================================================================
