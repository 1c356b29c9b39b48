------------------------------- MODULE Futex -------------------------------
(***************************************************************************)
(* What memory.atomic.wait and memory.atomic.notify promise: a compare-and-*)
(* sleep, first-in-first-out wake-ups, and one fate per wait.              *)
(***************************************************************************)
EXTENDS Naturals, FiniteSets

CONSTANTS Addrs, Values, Counts, Waits

VARIABLES
  cell,      \* the guest words
  sleeping,  \* per address, the waits asleep there; a smaller number is older
  fate       \* per wait: "none", "asleep", "woken" or "timed out"

vars == <<cell, sleeping, fate>>

Init ==
  /\ cell \in [Addrs -> Values]
  /\ sleeping = [a \in Addrs |-> {}]
  /\ fate = [w \in Waits |-> "none"]

Store(a, v) == cell' = [cell EXCEPT ![a] = v] /\ UNCHANGED <<sleeping, fate>>

\* The word has the expected value: fall asleep.  Waits are numbered in the
\* order in which they fall asleep.
Sleep(a, v, w) ==
  /\ cell[a] = v /\ fate[w] = "none"
  /\ \A u \in Waits : fate[u] = "none" => w <= u
  /\ sleeping' = [sleeping EXCEPT ![a] = @ \cup {w}]
  /\ fate' = [fate EXCEPT ![w] = "asleep"]
  /\ UNCHANGED cell

\* The n oldest sleepers, or all of them when there are fewer.
IsOldest(woken, asleep, n) ==
  /\ woken \subseteq asleep
  /\ \A u \in woken, w \in asleep \ woken : u < w
  /\ \/ Cardinality(woken) = n
     \/ woken = asleep /\ Cardinality(woken) < n

Wake(a, n) ==
  \E woken \in SUBSET sleeping[a] :
    /\ IsOldest(woken, sleeping[a], n)
    /\ sleeping' = [sleeping EXCEPT ![a] = @ \ woken]
    /\ fate' = [w \in Waits |-> IF w \in woken THEN "woken" ELSE fate[w]]
    /\ UNCHANGED cell

TimeOut(a, w) ==
  /\ w \in sleeping[a]
  /\ sleeping' = [sleeping EXCEPT ![a] = @ \ {w}]
  /\ fate' = [fate EXCEPT ![w] = "timed out"]
  /\ UNCHANGED cell

Next ==
  \E a \in Addrs :
    \/ \E v \in Values : Store(a, v)
    \/ \E v \in Values, w \in Waits : Sleep(a, v, w)
    \/ \E n \in Counts : Wake(a, n)
    \/ \E w \in Waits : TimeOut(a, w)

Spec == Init /\ [][Next]_vars
=============================================================================
